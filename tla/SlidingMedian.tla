----------------------------- MODULE SlidingMedian -----------------------------
(***************************************************************************)
(* What a sensor promises about its typical value: it is the median, as a  *)
(* whole number, of the latest Window measurements (of all of them, as     *)
(* long as there are fewer), brought up to date after every measurement.   *)
(***************************************************************************)
EXTENDS Naturals, Sequences, FiniteSets

CONSTANTS Value, Window, FirstCurrent, FirstTypical

VARIABLES
    window,    \* the latest measurements, oldest first
    current,
    typical

\* The value at place k when s is put in order: fewer than k elements are
\* smaller, and at least k are not greater.
Ranked(s, k) ==
    CHOOSE v \in {s[i] : i \in DOMAIN s} :
        /\ Cardinality({i \in DOMAIN s : s[i] < v}) < k
        /\ k <= Cardinality({i \in DOMAIN s : s[i] <= v})

\* With an odd number of elements both ranks are the same.
Median(s) ==
    (Ranked(s, (Len(s) + 1) \div 2) + Ranked(s, (Len(s) + 2) \div 2)) \div 2

MInit == window = <<>> /\ current = FirstCurrent /\ typical = FirstTypical

Measure(v) ==
    /\ current' = v
    /\ window' = IF Len(window) < Window THEN Append(window, v)
                 ELSE Append(Tail(window), v)
    /\ UNCHANGED typical

Update ==
    /\ window # <<>>
    /\ typical' = Median(window)
    /\ UNCHANGED <<window, current>>

MNext == Update \/ \E v \in Value : Measure(v)

MedianSpec == MInit /\ [][MNext]_<<window, current, typical>>
================================================================================
