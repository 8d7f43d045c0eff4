------------------------------ MODULE DurableList ------------------------------
(***************************************************************************)
(* What saving the sensor list promises: a save puts the list as it was    *)
(* when the save began in the place of the list saved before, all at once; *)
(* the end of the program loses something of what was saved only while a   *)
(* save is under way; and a start from the file brings back exactly the    *)
(* sensors that were saved, before anything can be saved again.            *)
(***************************************************************************)
EXTENDS Functions

CONSTANTS Addr, Threshold, NoSave

VARIABLES
    mode,      \* "down", "restoring" or "running"
    list,      \* the sensors in memory, with their thresholds
    snap,      \* the list a save is about, until it takes effect
    durable,   \* the list that a start would find
    settled    \* FALSE: the latest save has taken effect but is not finished

dvars == <<mode, list, snap, durable, settled>>

Lists == UNION {[S -> Threshold] : S \in SUBSET Addr}
Nobody == [a \in {} |-> a]

DInit ==
    /\ mode = "down"
    /\ list = Nobody
    /\ snap = NoSave
    /\ durable = Nobody
    /\ settled = TRUE

Start ==
    /\ mode = "down"
    /\ mode' \in {"restoring", "running"}
    /\ UNCHANGED <<list, snap, durable, settled>>

\* Sensors come back one by one; some may already confirm a threshold.
Restore ==
    /\ mode = "restoring"
    /\ list' \in Lists
    /\ DOMAIN list \subseteq DOMAIN list'
    /\ DOMAIN list' \subseteq DOMAIN durable
    /\ \/ UNCHANGED mode
       \/ mode' = "running" /\ DOMAIN list' = DOMAIN durable
    /\ UNCHANGED <<snap, durable, settled>>

Change ==
    /\ mode = "running"
    /\ list' \in Lists
    /\ UNCHANGED <<mode, snap, durable, settled>>

Begin ==
    /\ mode = "running"
    /\ settled /\ snap = NoSave
    /\ snap' = list
    /\ UNCHANGED <<mode, list, durable, settled>>

TakeEffect ==
    /\ snap # NoSave
    /\ durable' = snap
    /\ snap' = NoSave
    /\ settled' = FALSE
    /\ UNCHANGED <<mode, list>>

\* A save may also come to nothing.
Fail ==
    /\ snap # NoSave
    /\ snap' = NoSave
    /\ UNCHANGED <<mode, list, durable, settled>>

Settle ==
    /\ ~settled
    /\ settled' = TRUE
    /\ UNCHANGED <<mode, list, snap, durable>>

End ==
    /\ mode # "down"
    /\ \E S \in SUBSET DOMAIN durable :
          /\ settled => S = DOMAIN durable
          /\ durable' = Restrict(durable, S)
    /\ mode' = "down"
    /\ list' = Nobody
    /\ snap' = NoSave
    /\ settled' = TRUE

DNext == Start \/ Restore \/ Change \/ Begin \/ TakeEffect \/ Fail \/ Settle \/ End

DurableSpec == DInit /\ [][DNext]_dvars
================================================================================
