---------------------------- MODULE FlatStorage ------------------------------
(* What FlatFile and InMemory do to the rows of a file (storage.cpp).  A file  *)
(* is a sequence of rows, a row a tuple; an edge is <<source, destination>>.   *)
EXTENDS Naturals, Sequences, FiniteSetsExt, SequencesExt

CONSTANTS
    MaxChunk,       \* MAX_SORT_SIZE and MAX_SHUFFLE_SIZE, in rows
    MaxWrite        \* the 1e9 bytes pwrite_wrapper writes in one call, in rows

ASSUME FlatStorageAssumption == MaxChunk \in Nat \ {0} /\ MaxWrite \in Nat \ {0}

(* Row i of a storage whose rows lie in segments of the given sizes is in      *)
(* segment SegmentOf(i, sizes).                                               *)
EndOf(sizes, k) ==
    LET end[j \in 0..Len(sizes)] == IF j = 0 THEN 0 ELSE end[j - 1] + sizes[j] IN end[k]
SegmentOf(i, sizes) == CHOOSE k \in DOMAIN sizes : EndOf(sizes, k - 1) < i /\ i <= EndOf(sizes, k)

(* The chunks in which a FlatFile without buckets is read and rewritten.       *)
Chunks(n) == [k \in 1..((n + MaxChunk - 1) \div MaxChunk) |-> Min({MaxChunk, n - (k - 1) * MaxChunk})]

(* Where rows may move: within the edge buckets when the storage has read their *)
(* sizes, else within the chunks of a FlatFile, or anywhere in an InMemory.     *)
(* mutation of Segments: the buckets are not looked at *)
SegmentsUnbucketed(inFile, n, buckets) == IF inFile THEN Chunks(n) ELSE <<n>>

Segments(inFile, n, buckets) ==
    IF buckets # <<>> THEN buckets ELSE IF inFile THEN Chunks(n) ELSE <<n>>

(* shuffle: any permutation that leaves every row in its segment.              *)
(* mutation of Shuffled: rows are drawn with replacement *)
Resampled(rows, sizes) ==
    {[i \in DOMAIN rows |-> rows[p[i]]] : p \in [DOMAIN rows -> DOMAIN rows]}

Shuffled(rows, sizes) ==
    LET Kept(p) == \A i \in DOMAIN rows : SegmentOf(p[i], sizes) = SegmentOf(i, sizes)
    IN  {[i \in DOMAIN rows |-> rows[p[i]]] : p \in {q \in Bijection(DOMAIN rows, DOMAIN rows) : Kept(q)}}

(* sort: by a column within every segment; argsort is not stable.              *)
Ascending(rows, column) == \A i, j \in DOMAIN rows : i < j => rows[i][column] <= rows[j][column]
Sorted(rows, sizes, column) ==
    {s \in Shuffled(rows, sizes) :
        \A k \in DOMAIN sizes : Ascending(SubSeq(s, EndOf(sizes, k - 1) + 1, EndOf(sizes, k)), column)}

(* One call of pwrite: the file after the first m of the rows to be written,   *)
(* and the end of the call that follows row m.  A FlatFile writes one segment  *)
(* after the other.                                                           *)
(* mutation of Overwritten: the file is truncated when it is opened *)
Truncated(file, rows, m) == SubSeq(rows, 1, m)

Overwritten(file, rows, m) == SubSeq(rows, 1, m) \o SubSeq(file, m + 1, Len(file))
NextWrite(rows, sizes, m) == Min({m + MaxWrite, EndOf(sizes, SegmentOf(m + 1, sizes))})
==============================================================================
