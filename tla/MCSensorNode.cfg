\* A ring of four; thresholds at both ends of the ranges, one below and one above
\* the larger value.
CONSTANTS
    Value = {10, 90}
    Window = 4
    Asked = {5, 205, 950, 1000}
    NaN = NaN
SPECIFICATION NodeSpec
PROPERTIES TypicalIsMedian CalmAnswerIsOnePair AlarmIsOnePair 
