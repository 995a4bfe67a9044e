---------------------------- MODULE BatchRounds ------------------------------
(***************************************************************************)
(* What a pipeline promises its caller, with no threads, queues or locks:  *)
(* the batches of one list after another are handed out and completed,     *)
(* each exactly once, and no list is opened before every batch of the      *)
(* list before it is completed.  A list is the work of one buffer state:   *)
(* opening the next one replaces the graph partitions (and, at the end of  *)
(* an epoch, the whole data set) under the feet of the workers.            *)
(***************************************************************************)
EXTENDS Naturals

CONSTANT Sizes(_)       \* how many batches the r-th list has

VARIABLES
    opened,             \* number of lists opened
    todo,               \* batches of the open list not handed out
    active,             \* batches handed out and not completed
    completed           \* batches completed

List(r) == {<<r, i>> : i \in 1..Sizes(r)}

Init ==
    /\ opened = 0
    /\ todo = {}
    /\ active = {}
    /\ completed = {}

Open ==
    /\ todo = {}
    /\ active = {}
    /\ opened' = opened + 1
    /\ todo' = List(opened')
    /\ UNCHANGED <<active, completed>>

(* A swap opens a list and hands out its first batch in one step. *)
OpenAndTake ==
    /\ todo = {}
    /\ active = {}
    /\ opened' = opened + 1
    /\ \E b \in List(opened') :
        /\ active' = {b}
        /\ todo' = List(opened') \ {b}
    /\ UNCHANGED completed

Take ==
    /\ \E b \in todo :
        /\ todo' = todo \ {b}
        /\ active' = active \cup {b}
    /\ UNCHANGED <<opened, completed>>

Complete ==
    /\ \E b \in active :
        /\ active' = active \ {b}
        /\ completed' = completed \cup {b}
    /\ UNCHANGED <<opened, todo>>

Next == Open \/ OpenAndTake \/ Take \/ Complete

Spec == Init /\ [][Next]_<<opened, todo, active, completed>>

(* Nothing is lost and nothing is completed twice: the batches of the      *)
(* lists opened so far are divided among the three places.                 *)
ExactlyOnce ==
    /\ todo \cup active \cup completed = UNION {List(r) : r \in 1..opened}
    /\ todo \cap active = {} /\ todo \cap completed = {} /\ active \cap completed = {}
=============================================================================
