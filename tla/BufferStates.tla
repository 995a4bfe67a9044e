---------------------------- MODULE BufferStates -----------------------------
(***************************************************************************)
(* What the partition buffer (src/storage/buffer.cpp) may be given as a    *)
(* sequence of buffer states, and what src/data/ordering.cpp must produce. *)
(* A buffer state is a sequence of partition ids.                          *)
(***************************************************************************)
EXTENDS Integers, Sequences, Functions

Injective(seq) == \A i, j \in DOMAIN seq : seq[i] = seq[j] => i = j

(* getNextEvict and getNextAdmit both filter one state by another, with a  *)
(* loop over it.  (A SelectSeq; the provers know nothing of that operator.) *)
Without(seq, S) ==
    LET kept[i \in 0..Len(seq)] ==
            IF i = 0 THEN <<>>
            ELSE IF seq[i] \in S THEN kept[i - 1] ELSE Append(kept[i - 1], seq[i])
    IN  kept[Len(seq)]

(* The states name no partition twice and fit the buffer; each swap        *)
(* replaces some partitions by as many others, no more than a lookahead or *)
(* write block holds (the code throws, or stops, otherwise).               *)
SwapFits(from, to, block) ==
    LET out == Without(from, Range(to))
        in  == Without(to, Range(from))
    IN  Len(out) = Len(in) /\ Len(out) \in 1..block

IsOrdering(ord, partitions, capacity, block) ==
    /\ ord \in Seq(Seq(partitions)) /\ Len(ord) > 0
    /\ \A s \in DOMAIN ord : Len(ord[s]) \in 1..capacity /\ Injective(ord[s])
    /\ \A s \in 1..(Len(ord) - 1) : SwapFits(ord[s], ord[s + 1], block)
=============================================================================
