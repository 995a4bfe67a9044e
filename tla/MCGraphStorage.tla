--------------------------- MODULE MCGraphStorage ----------------------------
(* Small instances of the graph storage for TLC. *)
EXTENDS GraphStorageProps

Config(embeddings, features, state, prefetch, fullEval, task) ==
    [embeddings |-> embeddings, features |-> features, state |-> state,
     prefetch |-> prefetch, fullEval |-> fullEval, task |-> task]

SmallConfigurations ==
    {Config("buffer", "none", FALSE, p, f, "edges") : p, f \in BOOLEAN}
    \cup {Config("buffer", "buffer", TRUE, p, FALSE, "edges") : p \in BOOLEAN}
    \cup {Config("none", "buffer", FALSE, p, FALSE, "nodes") : p \in BOOLEAN}
    \cup {Config("memory", "none", TRUE, TRUE, TRUE, "edges"),
          Config("none", "buffer", FALSE, TRUE, TRUE, "nodes")}

(* Seven nodes in four partitions, the last of one node; the edges of the  *)
(* training set by bucket, some of them empty, one edge there twice.       *)
SmallFiles ==
    [train |-> <<<<1, 0>>, <<0, 1>>, <<0, 1>>, <<0, 3>>, <<1, 6>>, <<2, 0>>, <<3, 2>>,
                 <<3, 5>>, <<2, 4>>, <<2, 6>>, <<5, 1>>, <<4, 3>>, <<5, 4>>, <<6, 0>>,
                 <<6, 3>>, <<6, 4>>, <<6, 6>>>>,
     valid |-> <<<<0, 1>>, <<1, 5>>, <<3, 2>>, <<4, 6>>, <<6, 2>>>>]

SmallNodeSets == [train |-> <<5, 0, 3, 6, 2>>, valid |-> <<1, 4>>]

(* Each pair of partitions is the work of the first state that holds both, *)
(* each partition that of the first that holds it.                         *)
Meets(state, p, q) == {p, q} \subseteq Range(state)

Plan(states) ==
    [states |-> states,
     buckets |-> [k \in DOMAIN states |->
        LET n == Len(states[k])
            pairs == [i \in 1..(n * n) |->
                         <<states[k][((i - 1) \div n) + 1], states[k][((i - 1) % n) + 1]>>]
        IN  SelectSeq(pairs, LAMBDA pair :
                \A j \in 1..(k - 1) : ~Meets(states[j], pair[1], pair[2]))],
     owner |-> [p \in Partitions |->
        CHOOSE k \in DOMAIN states : p \in Range(states[k])
            /\ \A j \in 1..(k - 1) : p \notin Range(states[j])]]

(* One partition at a time with two in memory, one with three, and two at  *)
(* a time in an order that differs from that of the slots.                 *)
SmallPlans ==
    {Plan(<<<<0, 1>>, <<2, 1>>, <<3, 1>>, <<3, 0>>, <<2, 0>>, <<2, 3>>>>),
     Plan(<<<<3, 1>>, <<0, 2>>, <<1, 0>>, <<2, 3>>, <<0, 3>>, <<1, 2>>>>),
     Plan(<<<<0, 1, 2>>, <<0, 3, 2>>, <<1, 3, 2>>>>)}

SmallPlans3 == {Plan(<<<<0, 1, 2>>, <<0, 3, 2>>, <<1, 3, 2>>>>)}
==============================================================================
