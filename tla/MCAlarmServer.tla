------------------------------ MODULE MCAlarmServer ------------------------------
EXTENDS AlarmServer, TLC

CONSTANTS h6, g6, name

\* A name of two v6 hosts.
MCHostsOf == [n \in {name} |-> {h6, g6}]

\* The shortest and the longest alarm there is.
MCPair == {<<5, 4>>, <<90, 50>>}

\* The callers do the same things.
MCSymmetry == Permutations(Caller)
================================================================================
