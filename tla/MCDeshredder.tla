---------------------------- MODULE MCDeshredder ----------------------------
(* Small instances of Deshredder: block geometries for TLC. *)
EXTENDS Deshredder

\* FEC sets {0, 1}, {2} and {3}.
ShortSets == [i \in Index |-> IF i = 1 THEN 0 ELSE i]

\* FEC sets of three data shreds.
Triples == [i \in Index |-> 3 * (i \div 3)]

\* A data set over two FEC sets, then a FEC set and data set of one shred.
Spanning == [shreds |-> 0..3, ends |-> {2, 3}, last |-> 3]

\* A FEC set cut into two data sets: recovery after a part of the set was handed out.
Unaligned == [shreds |-> 0..3, ends |-> {1, 2, 3}, last |-> 3]

\* A second, shorter version of the slot, signed by the same leader.
Short == [shreds |-> 0..1, ends |-> {1}, last |-> 1]

\* A data set whose payload does not decode.
BadSets == {<<3, 3>>}

HonestLayout == [v \in {"a"} |-> Spanning]
EquivocatingLayout == [v \in {"a", "b"} |-> IF v = "a" THEN Unaligned ELSE Short]
=============================================================================
