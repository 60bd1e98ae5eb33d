-------------------------- MODULE DataSetReassembly --------------------------
(***************************************************************************)
(* What a deshredder promises, without slot states, bit sets or recovery   *)
(* attempts: the data sets delivered for a slot are a function of the set  *)
(* of its shreds that arrived, whatever their order and however often each *)
(* one came.  A data shred is known once it arrived or once any k shreds   *)
(* of its FEC set of k data shreds did; a data set is delivered in the     *)
(* same step in which its last shred, or the shred that ends the set       *)
(* before it, becomes known.  A slot gets nothing more after a shred of a  *)
(* newer slot that shares its ring entry arrived.                          *)
(***************************************************************************)
EXTENDS Integers, FiniteSets

CONSTANTS Slots, HistorySize, Index, CodeIndexes, FecOf, Ends

VARIABLES arrived, delivered

FecSet(f) == {i \in Index : FecOf[i] = f}

Shreds == [kind : {"data"}, fec : Index, index : Index]
          \cup [kind : {"code"}, fec : Index, index : CodeIndexes]

Known(A) ==
    {i \in Index :
        \/ \E sh \in A : sh.kind = "data" /\ sh.index = i
        \/ Cardinality({sh \in A : sh.fec = FecOf[i]}) >= Cardinality(FecSet(FecOf[i]))}

\* The data sets whose shreds and whose left boundary are known.
Complete(K) ==
    {d \in {<<a, b>> : a \in Index, b \in Ends \cap K} :
        /\ d[1] <= d[2]
        /\ d[1] = 0 \/ d[1] - 1 \in Ends \cap K
        /\ d[1]..d[2] \subseteq K
        /\ \A i \in d[1]..(d[2] - 1) : i \notin Ends}

Replaced(s) == \E t \in Slots : t > s /\ t % HistorySize = s % HistorySize /\ arrived[t] # {}

Init ==
    /\ arrived = [s \in Slots |-> {}]
    /\ delivered = [s \in Slots |-> {}]

Arrive(s, sh) ==
    /\ ~Replaced(s)
    /\ arrived' = [arrived EXCEPT ![s] = @ \cup {sh}]
    /\ delivered' = [delivered EXCEPT ![s] = Complete(Known(arrived[s] \cup {sh}))]

Next == \E s \in Slots : \E sh \in Shreds : Arrive(s, sh)

Spec == Init /\ [][Next]_<<arrived, delivered>>
=============================================================================
