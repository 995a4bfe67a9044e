-------------------------------- MODULE Queue --------------------------------
(***************************************************************************)
(* The bounded FIFO of include/pipeline/queue.h that connects two stages   *)
(* of a pipeline.  A Queue object has one mutex and ONE condition variable *)
(* for both sides: a producer that finds it full and a consumer that finds *)
(* it empty sleep in the same wait set, and every success wakes everybody. *)
(*                                                                         *)
(* Each operator below is one critical section of the code (the mutex is   *)
(* held from the test to the update or to the wait, so nothing can happen  *)
(* in between).  The module has no specification of its own: the pipelines *)
(* instantiate it once per queue and call its operators from the actions   *)
(* of their workers.                                                       *)
(***************************************************************************)
EXTENDS Naturals, Sequences

CONSTANT MaxSize        \* max_size_

VARIABLES
    items,              \* queue_
    expecting,          \* expecting_data_
    waiting             \* the threads blocked in cv_->wait

isFull  == Len(items) = MaxSize
isEmpty == items = <<>>

(* The constructor: empty, expecting data, nobody waits. *)
Init ==
    /\ items = <<>>
    /\ expecting = TRUE
    /\ waiting = {}

(***************************************************************************)
(* blocking_push by thread t: when there is room the item is appended and  *)
(* every waiter is woken; when there is none t starts to wait and will run *)
(* the same test again once it is woken.                                   *)
(***************************************************************************)
Push(t, x) ==
    /\ t \notin waiting
    /\ ~isFull
    /\ items' = Append(items, x)
    /\ waiting' = {}
    /\ UNCHANGED expecting

PushWait(t) ==
    /\ t \notin waiting
    /\ isFull
    /\ waiting' = waiting \cup {t}
    /\ UNCHANGED <<items, expecting>>

(***************************************************************************)
(* blocking_pop by thread t.  The loop condition reads expecting_data_     *)
(* BEFORE the mutex is taken, so the test (MayPop, MustGiveUp) and the     *)
(* critical section (Pop, PopWait) are different steps.                    *)
(***************************************************************************)
MayPop(t)     == t \notin waiting /\ expecting
MustGiveUp(t) == t \notin waiting /\ ~expecting

(* mutation of Pop: the popped element stays in the deque *)
PopKeeping(t, x) ==
    /\ t \notin waiting
    /\ ~isEmpty
    /\ x = Head(items)
    /\ waiting' = {}
    /\ UNCHANGED <<items, expecting>>

(* mutation of Pop: the producers are not notified *)
PopSilently(t, x) ==
    /\ t \notin waiting
    /\ ~isEmpty
    /\ x = Head(items)
    /\ items' = Tail(items)
    /\ UNCHANGED <<waiting, expecting>>

Pop(t, x) ==
    /\ t \notin waiting
    /\ ~isEmpty
    /\ x = Head(items)
    /\ items' = Tail(items)
    /\ waiting' = {}
    /\ UNCHANGED expecting

PopWait(t) ==
    /\ t \notin waiting
    /\ isEmpty
    /\ waiting' = waiting \cup {t}
    /\ UNCHANGED <<items, expecting>>

(* One queue's half of setQueueExpectingData: set the flag, then notify    *)
(* everybody, all of it without the mutex.                                 *)
SetExpecting(flag) ==
    /\ expecting' = flag
    /\ waiting' = {}
    /\ UNCHANGED items

=============================================================================
