----------------------------- MODULE Deshredder -----------------------------
(***************************************************************************)
(* The streaming deshredder of the `deshred` crate: one ring of slot       *)
(* states, fed one shred at a time, that returns each data set as soon as  *)
(* all of its data shreds are held, received or rebuilt by Reed-Solomon    *)
(* recovery.                                                               *)
(*                                                                         *)
(* `insert_shred` takes `&mut self`, so one call is one step.  A shred's   *)
(* payload is abstracted to the block version (Variants) it was cut from:  *)
(* more than one version of a slot exists only when its leader             *)
(* equivocates.  Layout[v] is the geometry of version v:                   *)
(*   shreds  its data shred indexes,                                       *)
(*   ends    the indexes whose shred carries data_complete,                *)
(*   last    the index whose shred carries last_in_slot, or NoIndex.       *)
(* FEC sets have a fixed size on the network, so every version cuts them   *)
(* at the same indexes: FecOf maps a data shred index to its FEC set's.    *)
(***************************************************************************)
EXTENDS Integers, FiniteSets

CONSTANTS
    Slots,        \* slot numbers shreds are seen for
    HistorySize,  \* SLOT_HISTORY_SIZE: entries of the ring
    MaxIndex,     \* largest data shred index of a slot
    CodeIndexes,  \* indexes of the coding shreds of a FEC set
    Variants,     \* block versions
    Layout,       \* geometry of each version
    FecOf,        \* fec_set_index of each data shred
    Undecodable,  \* data sets whose payload does not deserialize into entries
    MaxAttempts,  \* MAX_RECOVERY_ATTEMPTS
    Missing,      \* DataShred::Missing
    Emitted       \* DataShred::Emitted

Index == 0..MaxIndex
NoIndex == -1

ASSUME RingAssumption ==
    /\ Slots \subseteq Nat
    /\ HistorySize \in Nat \ {0}
    /\ MaxIndex \in Nat
    /\ MaxAttempts \in Nat

ASSUME DataShredAssumption ==
    /\ Missing \notin Variants
    /\ Emitted \notin Variants
    /\ Missing # Emitted

\* num_data_shreds in the header of the coding shreds of FEC set f.
NumDataShreds(f) == Cardinality({i \in Index : FecOf[i] = f})

FecRange(f, n) == f..(f + n - 1)

ASSUME FecAssumption ==
    /\ FecOf \in [Index -> Index]
    /\ \A i \in Index :
           {j \in Index : FecOf[j] = FecOf[i]} = FecRange(FecOf[i], NumDataShreds(FecOf[i]))

ASSUME LayoutAssumption ==
    /\ Layout \in [Variants -> [shreds : SUBSET Index, ends : SUBSET Index,
                                last : Index \cup {NoIndex}]]
    /\ Undecodable \subseteq Index \X Index

VARIABLES
    slots,        \* the ring: one SlotState per residue
    stats,        \* DeshredStats
    received,     \* history: shreds that reached the state of their slot
    consumed,     \* history: data sets taken out of each slot's state
    taken         \* history: the data sets the last call took, with their slot

vars == <<slots, stats, received, consumed, taken>>

-----------------------------------------------------------------------------
(* Slot state. *)

NoCoding == [num |-> 0, shreds |-> {}, attempts |-> 0]

\* SlotState::new.  An empty ring entry is the state of NoIndex, older than any slot.
NewState(s) ==
    [slot |-> s, data |-> [i \in Index |-> Missing], ends |-> {},
     coding |-> [f \in Index |-> NoCoding], last |-> NoIndex,
     emitted |-> 0, finished |-> FALSE]

Held(st) == {i \in Index : st.data[i] \in Variants}

MissingIn(st, R) == {i \in R \cap Index : st.data[i] = Missing}

\* Mutants of Fill: last_shred_index as a count; a shred overwritten by a later copy.
FillCountingLast(st, I, v) ==
    LET new == MissingIn(st, I) IN
    [st EXCEPT
        !.data = [i \in Index |-> IF i \in new THEN v ELSE st.data[i]],
        !.ends = @ \cup (new \cap Layout[v].ends),
        !.last = IF Layout[v].last \in new THEN Layout[v].last + 1 ELSE @]

FillOverwriting(st, I, v) ==
    [st EXCEPT
        !.data = [i \in Index |-> IF i \in I THEN v ELSE st.data[i]],
        !.ends = @ \cup (I \cap Layout[v].ends),
        !.last = IF Layout[v].last \in I THEN Layout[v].last ELSE @]

\* insert_data_shred, for each index of I: only a missing shred is filled in.
Fill(st, I, v) ==
    LET new == MissingIn(st, I) IN
    [st EXCEPT
        !.data = [i \in Index |-> IF i \in new THEN v ELSE st.data[i]],
        !.ends = @ \cup (new \cap Layout[v].ends),
        !.last = IF Layout[v].last \in new THEN Layout[v].last ELSE @]

\* insert_coding_shred: kept while its FEC set misses a data shred, once per index.
AddCoding(st, f, j, v) ==
    LET n == NumDataShreds(f)
        set == st.coding[f]
    IN  IF n = 0 \/ MissingIn(st, FecRange(f, n)) = {} THEN st
        ELSE IF set.num = 0
        THEN [st EXCEPT !.coding[f] = [num |-> n, shreds |-> {<<j, v>>}, attempts |-> 0]]
        ELSE IF \E held \in set.shreds : held[1] = j THEN st
        ELSE [st EXCEPT !.coding[f].shreds = @ \cup {<<j, v>>}]

-----------------------------------------------------------------------------
(* Reed-Solomon recovery of the FEC set a shred belongs to. *)

HeldIn(st, f) == FecRange(f, st.coding[f].num) \cap Held(st)

CanRecover(st, f) ==
    LET set == st.coding[f] IN
    /\ set.num > 0
    /\ MissingIn(st, FecRange(f, set.num)) # {}
    /\ Cardinality(HeldIn(st, f)) + Cardinality(set.shreds) >= set.num
    /\ set.attempts < MaxAttempts

\* solana_ledger's `recover` rebuilds a set only from shreds of one merkle root.
Sources(st, f) == {st.data[i] : i \in HeldIn(st, f)} \cup {c[2] : c \in st.coding[f].shreds}
Rebuildable(st, f) == \E v \in Variants : Sources(st, f) = {v}

\* The data shreds `recover` adds: everything still missing, or nothing.
Rebuilt(st, f) ==
    IF CanRecover(st, f) /\ Rebuildable(st, f)
    THEN MissingIn(st, FecRange(f, st.coding[f].num)) ELSE {}

\* Mutant of Recover: the coding set stays after its data shreds were rebuilt.
RecoverKeeping(st, f) ==
    LET counted == IF CanRecover(st, f) THEN [st EXCEPT !.coding[f].attempts = @ + 1] ELSE st
    IN  IF Rebuilt(st, f) = {} THEN counted
        ELSE Fill(counted, Rebuilt(st, f), CHOOSE v \in Sources(st, f) : TRUE)

\* SlotState::recover.
Recover(st, f) ==
    LET R == FecRange(f, st.coding[f].num)
        counted == IF CanRecover(st, f) THEN [st EXCEPT !.coding[f].attempts = @ + 1] ELSE st
        filled == IF Rebuilt(st, f) = {} THEN counted
                  ELSE Fill(counted, Rebuilt(st, f), CHOOSE v \in Sources(st, f) : TRUE)
    IN  IF MissingIn(filled, R) = {} THEN [filled EXCEPT !.coding[f] = NoCoding] ELSE filled

-----------------------------------------------------------------------------
(* Data sets: from one data_complete flag to the next. *)

DataSets(ends) ==
    {d \in {<<a, b>> : a \in Index, b \in ends} :
        /\ d[1] <= d[2]
        /\ d[1] = 0 \/ d[1] - 1 \in ends
        /\ \A i \in d[1]..(d[2] - 1) : i \notin ends}

Covered(D) == UNION {d[1]..d[2] : d \in D}

\* Mutant of Searched: only the ends inside the filled range.
SearchedWithin(ends, R) == {e \in ends : \E i, j \in R : i <= e /\ e <= j}

\* The ends that take_completed_data_sets visits after the range R was filled: those from
\* R's start on, up to the first one beyond R.
Searched(ends, R) ==
    {e \in ends : /\ \E i \in R : i <= e
                  /\ \A x \in ends : x < e => \E i \in R : x <= i}

Complete(st, R) ==
    {d \in DataSets(st.ends) : d[2] \in Searched(st.ends, R) /\ d[1]..d[2] \subseteq Held(st)}

\* Mutant of FinishedBy: the count compared with the last index.
FinishedByIndex(st, D) == st.last # NoIndex /\ st.emitted + Cardinality(Covered(D)) = st.last

\* Whether taking the data sets D emits the last shred the slot has.
FinishedBy(st, D) == st.last # NoIndex /\ st.emitted + Cardinality(Covered(D)) = st.last + 1

\* The visit goes up the slot and stops when the slot is finished.
CompletedSets(st, R) ==
    LET C == Complete(st, R) IN
    {d \in C : \A x \in C : x[2] < d[2] => ~FinishedBy(st, {y \in C : y[2] <= x[2]})}

\* take_data_set for each of D, and finish.
TakeDataSets(st, D) ==
    LET overlaps(f) == FecRange(f, st.coding[f].num) \cap Covered(D) # {}
        retained(f) == overlaps(f) => MissingIn(st, FecRange(f, st.coding[f].num)) # {}
        remaining == [st EXCEPT
            !.data = [i \in Index |-> IF i \in Covered(D) THEN Emitted ELSE st.data[i]],
            !.emitted = @ + Cardinality(Covered(D)),
            !.coding = [f \in Index |-> IF retained(f) THEN st.coding[f] ELSE NoCoding]]
    IN  IF D = {} THEN st
        ELSE IF FinishedBy(st, D)
        THEN [NewState(st.slot) EXCEPT !.last = st.last, !.emitted = remaining.emitted, !.finished = TRUE]
        ELSE remaining

-----------------------------------------------------------------------------
(* Deshredder::insert_shred. *)

Residue(s) == s % HistorySize

\* slot_state: a newer slot replaces the entry's state.
StateFor(s) == IF slots[Residue(s)].slot < s THEN NewState(s) ELSE slots[Residue(s)]

\* Mutant of Ignores: a finished slot takes shreds again.
IgnoresOlderOnly(s) == slots[Residue(s)].slot > s

Ignores(s) == slots[Residue(s)].slot > s \/ StateFor(s).finished

\* A shred of an older slot than its ring entry holds, or of a finished slot.
Discard(s) ==
    /\ Ignores(s)
    /\ taken' = {}
    /\ UNCHANGED <<slots, stats, received, consumed>>

\* The common tail: recover the FEC set of the shred, then take what became complete.
Settle(st, s, f, fresh, sh) ==
    LET rebuilt == Rebuilt(st, f)
        recovered == Recover(st, f)
        range == IF rebuilt # {} THEN FecRange(f, st.coding[f].num) ELSE fresh
        complete == CompletedSets(recovered, range)
    IN  /\ slots' = [slots EXCEPT ![Residue(s)] = TakeDataSets(recovered, complete)]
        /\ taken' = {<<s, d>> : d \in complete}
        /\ consumed' = [consumed EXCEPT ![s] = @ \cup complete]
        /\ received' = [received EXCEPT ![s] = @ \cup {sh}]
        /\ stats' = [stats EXCEPT
               !.recoveries = IF CanRecover(st, f) THEN @ + 1 ELSE @,
               !.recovered_shreds = @ + Cardinality(rebuilt),
               !.recovery_errors = IF CanRecover(st, f) /\ rebuilt = {} THEN @ + 1 ELSE @,
               !.decode_errors = @ + Cardinality(complete \cap Undecodable)]

InsertDataShred(s, v, i) ==
    LET st == StateFor(s)
        f == FecOf[i]
    IN  /\ ~Ignores(s)
        /\ Settle(Fill(st, {i}, v), s, f, MissingIn(st, {i}),
                  [kind |-> "data", variant |-> v, fec |-> f, index |-> i])

InsertCodingShred(s, v, f, j) ==
    /\ ~Ignores(s)
    /\ Settle(AddCoding(StateFor(s), f, j, v), s, f, {},
              [kind |-> "code", variant |-> v, fec |-> f, index |-> j])

Init ==
    /\ slots = [r \in 0..(HistorySize - 1) |-> NewState(NoIndex)]
    /\ stats = [recoveries |-> 0, recovered_shreds |-> 0, recovery_errors |-> 0,
                decode_errors |-> 0]
    /\ received = [s \in Slots |-> {}]
    /\ consumed = [s \in Slots |-> {}]
    /\ taken = {}

Next ==
    \E s \in Slots :
        \/ Discard(s)
        \/ \E v \in Variants : \E i \in Layout[v].shreds : InsertDataShred(s, v, i)
        \/ \E v \in Variants, j \in CodeIndexes : \E i \in Layout[v].shreds :
               InsertCodingShred(s, v, FecOf[i], j)

Spec == Init /\ [][Next]_vars

-----------------------------------------------------------------------------
(* Correctness. *)

ShredPool == [kind : {"data", "code"}, variant : Variants, fec : Index,
              index : Index \cup CodeIndexes]

CodingSet == [num : Nat, shreds : SUBSET (CodeIndexes \X Variants), attempts : Nat]

SlotState ==
    [slot : Slots \cup {NoIndex}, data : [Index -> Variants \cup {Missing, Emitted}],
     ends : SUBSET Index,
     coding : [Index -> CodingSet],
     last : Index \cup {NoIndex}, emitted : Nat, finished : BOOLEAN]

\* Every ring entry is a slot state, the counters are numbers, and the histories hold shreds
\* and index ranges of the slot.
TypeOK ==
    /\ slots \in [0..(HistorySize - 1) -> SlotState]
    /\ stats \in [recoveries : Nat, recovered_shreds : Nat, recovery_errors : Nat, decode_errors : Nat]
    /\ received \in [Slots -> SUBSET ShredPool]
    /\ consumed \in [Slots -> SUBSET (Index \X Index)]
    /\ taken \subseteq Slots \X (Index \X Index)

\* The emitted shreds of a live slot are exactly those of the data sets taken from it, and
\* emitted_shreds, the number the end of the slot is recognised by, counts them.
EmittedAccounting ==
    \A r \in DOMAIN slots :
        LET st == slots[r] IN
        (st.slot # NoIndex /\ ~st.finished) =>
            /\ {i \in Index : st.data[i] = Emitted} = Covered(consumed[st.slot])
            /\ st.emitted = Cardinality(Covered(consumed[st.slot]))

\* No call takes a shred of a data set that an earlier call took: late, duplicated and
\* rebuilt shreds, a finished slot and a replaced ring entry never deliver entries twice.
EmittedOnce ==
    [][\A t \in taken' : Covered({t[2]}) \cap Covered(consumed[t[1]]) = {}]_vars

\* take_completed_data_sets searches around the inserted range only, and still leaves no
\* data set behind whose shreds are all held: nothing complete waits for a later shred.
NoCompleteSetHeld ==
    \A r \in DOMAIN slots : \A d \in DataSets(slots[r].ends) :
        ~(d[1]..d[2] \subseteq Held(slots[r]))

\* A slot is marked finished, and drops its shreds for good, only when every data shred up
\* to the last one was handed out.
FinishedIsComplete ==
    \A r \in DOMAIN slots :
        slots[r].finished => Covered(consumed[slots[r].slot]) = 0..slots[r].last

\* Coding shreds, the bulk of what a slot keeps, are kept only while their FEC set still
\* misses a data shred: both ways a set can become whole drop them.
NoIdleCoding ==
    \A r \in DOMAIN slots, f \in Index :
        LET set == slots[r].coding[f] IN
        set.num > 0 => MissingIn(slots[r], FecRange(f, set.num)) # {}

\* For a leader that signs one version and ends every data set with a FEC set, as the
\* network's shredder does, the deshredder implements DataSetReassembly: incremental
\* search, dropped coding sets, freed slots and the limit on attempts lose nothing.
Reassembly == INSTANCE DataSetReassembly WITH
    Ends <- UNION {Layout[v].ends : v \in Variants},
    arrived <- [s \in Slots |-> {[kind |-> sh.kind, fec |-> sh.fec, index |-> sh.index] :
                                 sh \in received[s]}],
    delivered <- consumed

OrderIndependent == Reassembly!Spec
=============================================================================
