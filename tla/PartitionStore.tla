--------------------------- MODULE PartitionStore ----------------------------
(***************************************************************************)
(* What a partition buffer promises, with no memory or threads: a map from *)
(* partitions to values that is written back piece by piece.  A round      *)
(* begins with the values that were saved.  During it some partitions are  *)
(* open at a time; only these are updated, and whenever a partition is     *)
(* open again in the round it has the value its last update gave it.  What *)
(* was not saved when the round ends may be lost.                          *)
(***************************************************************************)
EXTENDS Naturals

CONSTANT Partitions

VARIABLES
    value,              \* number of updates applied to each partition
    saved,              \* as many as reached the file
    open,               \* partitions that may be read and updated
    live                \* a round is under way

vars == <<value, saved, open, live>>

Init ==
    /\ value = [p \in Partitions |-> 0]
    /\ saved = value
    /\ open = {}
    /\ live = FALSE

Begin ==
    /\ ~live /\ live'
    /\ value = saved
    /\ open' \in SUBSET Partitions
    /\ UNCHANGED <<value, saved>>

Open ==
    /\ live /\ open = {}
    /\ open' \in SUBSET Partitions
    /\ UNCHANGED <<value, saved, live>>

Close ==
    /\ open # {}
    /\ open' = {}
    /\ UNCHANGED <<value, saved, live>>

Update ==
    /\ \E p \in open : value' = [value EXCEPT ![p] = @ + 1]
    /\ UNCHANGED <<saved, open, live>>

(* Some partitions are written back. *)
Save(S) == saved' = [p \in Partitions |-> IF p \in S THEN value[p] ELSE saved[p]]

WriteBack ==
    /\ \E S \in SUBSET Partitions : Save(S)
    /\ UNCHANGED <<value, open, live>>

(* The round ends: what is open then is lost, or else changed nothing.     *)
End ==
    /\ open # {} /\ open' = {}
    /\ live /\ ~live'
    /\ value' = [p \in Partitions |-> IF p \in open THEN saved[p] ELSE value[p]]
    /\ UNCHANGED saved

(* After it, what waits to be written back may be lost as well. *)
Lose ==
    /\ ~live
    /\ value' = saved
    /\ UNCHANGED <<saved, open, live>>

Next == Begin \/ Open \/ Close \/ Update \/ WriteBack \/ End \/ Lose

Spec == Init /\ [][Next]_vars
=============================================================================
