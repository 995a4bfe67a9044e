---------------------------- MODULE OrderingProps ----------------------------
(***************************************************************************)
(* What a buffer ordering must guarantee, to training and to the buffer.   *)
(***************************************************************************)
EXTENDS Ordering

OrderingPC == {"start", "shuffle", "pass", "replace", "expand", "assign", "done", "failed"}

(* The type of every variable; no group is listed twice in the buffer or   *)
(* on disk.                                                                *)
TypeOK ==
    /\ arg \in Arguments
    /\ opc \in OrderingPC
    /\ {inBuffer, onDisk} \subseteq Seq(Coarse)
    /\ Injective(inBuffer) /\ Injective(onDisk)
    /\ i \in Nat
    /\ coarse \in Seq(Seq(Coarse))
    /\ states \in Seq(Seq(Partitions))
    /\ work \in Seq(SUBSET Items)

-----------------------------------------------------------------------------
Met(seq, c, d) == \E s \in DOMAIN seq : {c, d} \subseteq Range(seq[s])

(* When the loop of getBetaOrderingHelper ends, any two groups have been   *)
(* in the buffer together: every edge bucket can be processed in some      *)
(* state.  The groups that leave in a round never come back, so they must  *)
(* have met all others by then.                                            *)
PairsMeet ==
    arg.ordering = "BETA" /\ opc \in {"expand", "assign", "done"}
        => \A c, d \in Coarse : Met(coarse, c, d)

(* Every edge bucket, or training node, is processed in exactly one buffer *)
(* state of the epoch, and the partitions it needs are in memory then.     *)
EachItemOnce ==
    opc = "done" =>
        \A x \in Items :
            \E s \in DOMAIN work :
                /\ Needs(x) \subseteq Range(states[s])
                /\ \A t \in DOMAIN work : x \in work[t] <=> t = s

(* The result is what the partition buffer can execute: no partition twice *)
(* in a state, and swaps that replace one group by another (the buffer     *)
(* reads and writes fine_to_coarse_ratio partitions per swap).             *)
SwapsFit ==
    opc \in {"assign", "done"} => IsOrdering(states, Partitions, arg.capacity, arg.ratio)

(* No set of groups is loaded twice: no swap is wasted, and the loop ends, *)
(* there being finitely many sets.                                         *)
NoStateTwice ==
    \A s, t \in DOMAIN coarse : Range(coarse[s]) = Range(coarse[t]) => s = t

(* Assigned greedily, no buffer state is left without edge buckets: after  *)
(* a swap getNextBatch takes the first batch of the state without a look   *)
(* whether there is one.  The random assignment promises no such thing.    *)
StatesHaveWork ==
    opc = "done" /\ arg.ordering = "BETA" /\ ~arg.random
        => \A s \in DOMAIN work : work[s] # {}

(* The work is divided among the states, each of which the buffer can load *)
(* and the data loader can begin: what setBufferOrdering relies on.        *)
WorkDivided == EachItemOnce /\ StatesHaveWork
PlanFits    == SwapsFit /\ NoStateTwice
=============================================================================
