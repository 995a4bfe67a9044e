-------------------------- MODULE MCPartitionBuffer --------------------------
(* Small instances of the partition buffer for TLC. *)
EXTENDS PartitionBufferProps

(* With and without prefetching of partitions and of subgraphs.            *)
AllConfigurations == [prefetching : BOOLEAN, mapAhead : BOOLEAN]
Threaded          == [prefetching : {TRUE}, mapAhead : BOOLEAN]

(* Two of three partitions in memory, one replaced per swap: the one that  *)
(* is evicted in the first swap is admitted again in the second.           *)
OneByOne == {<< <<1, 2>>, <<1, 3>>, <<2, 3>> >>}

(* Another round may start from other partitions, one of them without the  *)
(* partition whose write the first round may have dropped.                 *)
TwoOrders == OneByOne \cup {<< <<3, 2>>, <<2, 1>>, <<3, 1>> >>}

(* Two partitions replaced per swap, all of them or some. *)
InPairs == {<< <<1, 2>>, <<3, 4>>, <<2, 5>> >>, << <<1, 2, 3>>, <<4, 2, 5>>, <<3, 5, 1>> >>}
=============================================================================
