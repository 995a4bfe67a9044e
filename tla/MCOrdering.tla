----------------------------- MODULE MCOrdering ------------------------------
(* Small instances of the buffer orderings for TLC. *)
EXTENDS OrderingProps

Beta(n, capacity, ratio, cache, random) ==
    [ordering |-> "BETA", partitions |-> n, capacity |-> capacity, ratio |-> ratio,
     cache |-> cache, random |-> random, total |-> 0, trainNodes |-> {}]

Dispersed(n, capacity, ratio, cache, total, nodes) ==
    [ordering |-> "DISPERSED", partitions |-> n, capacity |-> capacity, ratio |-> ratio,
     cache |-> cache, random |-> TRUE, total |-> total, trainNodes |-> nodes]

Sequential(n, capacity, total, nodes) ==
    [Dispersed(n, capacity, 1, 0, total, nodes) EXCEPT !.ordering = "SEQUENTIAL"]

(* Several rounds; a last round that replaces part of the buffer; groups   *)
(* of two; a cached group; everything in memory at once; training nodes    *)
(* that fill the one sequential state, leave room or find none.            *)
SmallArguments ==
    {Beta(4, 2, 1, 0, FALSE), Beta(4, 3, 1, 0, FALSE), Beta(4, 3, 1, 1, FALSE),
     Beta(6, 4, 2, 0, FALSE), Beta(3, 2, 1, 0, TRUE), Beta(3, 3, 1, 0, FALSE),
     Dispersed(4, 2, 1, 0, 7, {0, 3, 6}), Dispersed(4, 3, 1, 1, 4, {0, 1}),
     Dispersed(4, 4, 2, 0, 4, {1, 2}),
     Sequential(5, 3, 10, {0, 3}), Sequential(4, 3, 7, {2, 5}), Sequential(4, 2, 8, {4})}
=============================================================================
