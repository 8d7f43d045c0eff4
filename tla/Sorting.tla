-------------------------------- MODULE Sorting --------------------------------
(***************************************************************************)
(* What the programs rely on the C++ library to put in order: a vector     *)
(* that std::sort has sorted, and the keys of a std::map as a loop over it *)
(* meets them.  Both are stated by what the result is.                     *)
(***************************************************************************)
EXTENDS Naturals, FiniteSets

\* The places of s in an order in which the values do not fall.
InOrderOf(s, p) ==
    /\ \A i \in DOMAIN s : \E j \in DOMAIN s : p[j] = i
    /\ \A i, j \in DOMAIN s : i < j => s[p[i]] <= s[p[j]]

Sorted(s) ==
    LET p == CHOOSE q \in [DOMAIN s -> DOMAIN s] : InOrderOf(s, q)
    IN  [i \in DOMAIN s |-> s[p[i]]]

\* The elements of a finite set of numbers, the smallest first.
Ascending(S) ==
    CHOOSE s \in [1..Cardinality(S) -> S] :
        \A i, j \in 1..Cardinality(S) : i < j => s[i] < s[j]
================================================================================
