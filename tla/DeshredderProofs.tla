-------------------------- MODULE DeshredderProofs --------------------------
(***************************************************************************)
(* Proofs about Deshredder, for every ring size, block geometry, number of *)
(* versions and interleaving of shreds: its invariants, and that it        *)
(* implements DataSetReassembly for every geometry of an honest leader's   *)
(* blocks and every order, loss and repetition of shreds.  A slot state    *)
(* tracks the set A of the shreds that arrived for its slot: it holds or   *)
(* has handed out exactly the shreds A makes known, and of every FEC set   *)
(* that still misses one it kept the coding shreds in A.                   *)
(***************************************************************************)
EXTENDS Deshredder, IntegerSets, FiniteSetTheorems, TLAPS

EmittedIn(st) == {i \in Index : st.data[i] = Emitted}

\* A coding set remembers the size of its FEC set.
CodingNum(st) == \A f \in Index : st.coding[f].num \in {0, NumDataShreds(f)}

\* t differs from st in its coding sets only.
SameButCoding(st, t) ==
    /\ t.slot = st.slot /\ t.finished = st.finished /\ t.emitted = st.emitted
    /\ t.data = st.data /\ t.ends = st.ends /\ t.last = st.last

\* t is st with the data shreds I filled in; coding sets may differ.
Extends(st, t, I) ==
    /\ t.slot = st.slot /\ t.finished = st.finished /\ t.emitted = st.emitted
    /\ EmittedIn(t) = EmittedIn(st)
    /\ Held(t) = Held(st) \cup I
    /\ st.ends \subseteq t.ends /\ t.ends \subseteq st.ends \cup I
    /\ t.last \in {st.last} \cup {Layout[v].last : v \in Variants}

-----------------------------------------------------------------------------
(* The operations on a slot state. *)

LEMMA FiniteIndexes == \A S \in SUBSET Index : IsFiniteSet(S) /\ Cardinality(S) \in Nat
<1>1. IsFiniteSet(Index)
  BY RingAssumption, FS_Interval DEF Index
<1>2. QED
  BY <1>1, FS_Subset, FS_CardinalityType

LEMMA NewStateType ==
  ASSUME NEW s \in Slots \cup {NoIndex}
  PROVE  /\ NewState(s) \in SlotState
         /\ CodingNum(NewState(s))
         /\ EmittedIn(NewState(s)) = {}
         /\ Held(NewState(s)) = {}
         /\ NewState(s).emitted = 0
         /\ NewState(s).ends = {}
         /\ NewState(s).slot = s
         /\ ~NewState(s).finished
         /\ NewState(s).last = NoIndex
<1>1. NewState(s) \in SlotState /\ CodingNum(NewState(s))
  BY DEF NewState, SlotState, NoCoding, CodingNum, CodingSet
<1>2. QED
  BY <1>1, DataShredAssumption DEF NewState, EmittedIn, Held

\* Filling in shreds only adds held shreds, and ends among them.
LEMMA FillAdds ==
  ASSUME NEW st \in SlotState, NEW I \in SUBSET Index, NEW v \in Variants
  PROVE  LET t == Fill(st, I, v) IN
         /\ t \in SlotState
         /\ Extends(st, t, MissingIn(st, I))
         /\ t.coding = st.coding
<1> DEFINE t == Fill(st, I, v)
           new == MissingIn(st, I)
<1>1. new \subseteq Index
  BY DEF MissingIn
<1>2. /\ Layout[v].ends \subseteq Index
      /\ Layout[v].last \in Index \cup {NoIndex}
  BY LayoutAssumption
<1>3. /\ t.slot = st.slot /\ t.finished = st.finished /\ t.emitted = st.emitted
      /\ t.coding = st.coding
      /\ t.data = [i \in Index |-> IF i \in new THEN v ELSE st.data[i]]
      /\ t.ends = st.ends \cup (new \cap Layout[v].ends)
      /\ t.last = IF Layout[v].last \in new THEN Layout[v].last ELSE st.last
  BY DEF Fill, SlotState
<1>4. t \in SlotState
  BY <1>1, <1>2 DEF Fill, SlotState
<1>5. EmittedIn(t) = EmittedIn(st)
  BY <1>3, DataShredAssumption DEF EmittedIn, MissingIn
<1>6. Held(t) = Held(st) \cup new
  BY <1>1, <1>3, DataShredAssumption DEF Held
<1>7. QED
  BY <1>1, <1>3, <1>4, <1>5, <1>6 DEF Extends

\* Replacing one coding set of a slot state.
LEMMA SetCoding ==
  ASSUME NEW st \in SlotState, NEW f \in Index, NEW c \in CodingSet
  PROVE  LET t == [st EXCEPT !.coding[f] = c] IN
         /\ t \in SlotState
         /\ SameButCoding(st, t)
         /\ t.coding = [st.coding EXCEPT ![f] = c]
<1> DEFINE d == [st.coding EXCEPT ![f] = c]
           t == [st EXCEPT !.coding = d]
<1>1. d \in [Index -> CodingSet]
  BY DEF SlotState
<1>2. t \in SlotState
  BY <1>1 DEF SlotState
<1>3. SameButCoding(st, t) /\ t.coding = d
  BY DEF SlotState, SameButCoding
<1>4. QED
  BY <1>2, <1>3

\* Keeping a coding shred touches nothing but the coding sets.
LEMMA AddCodingKeeps ==
  ASSUME NEW st \in SlotState, NEW f \in Index, NEW j \in CodeIndexes, NEW v \in Variants,
         CodingNum(st)
  PROVE  LET t == AddCoding(st, f, j, v) IN
         /\ t \in SlotState
         /\ SameButCoding(st, t)
         /\ CodingNum(t)
<1> DEFINE n == NumDataShreds(f)
           old == st.coding[f]
           first == [num |-> n, shreds |-> {<<j, v>>}, attempts |-> 0]
           next == [old EXCEPT !.shreds = @ \cup {<<j, v>>}]
<1>1. n \in Nat
  BY FiniteIndexes DEF NumDataShreds
<1>2. old \in CodingSet
  BY DEF SlotState
<1>3. first \in CodingSet /\ first.num = n
  BY <1>1 DEF CodingSet
<1>4. next \in CodingSet /\ next.num = old.num
  BY <1>2 DEF CodingSet
<1>5. ASSUME NEW c \in {first, next}
      PROVE  LET t == [st EXCEPT !.coding[f] = c] IN
             t \in SlotState /\ SameButCoding(st, t) /\ CodingNum(t)
  <2>1. c.num \in {0, n}
    BY <1>3, <1>4, <1>5 DEF CodingNum
  <2>2. [st EXCEPT !.coding[f] = c].coding = [st.coding EXCEPT ![f] = c]
    BY <1>3, <1>4, <1>5, SetCoding
  <2>3. st.coding \in [Index -> CodingSet]
    BY DEF SlotState
  <2>4. CodingNum([st EXCEPT !.coding[f] = c])
    BY <2>1, <2>2, <2>3 DEF CodingNum
  <2>5. QED
    BY <1>3, <1>4, <1>5, <2>4, SetCoding
<1>6. AddCoding(st, f, j, v) \in
        {st, [st EXCEPT !.coding[f] = first], [st EXCEPT !.coding[f] = next]}
  <2>1. [st EXCEPT !.coding[f] = next] = [st EXCEPT !.coding[f].shreds = @ \cup {<<j, v>>}]
    OBVIOUS
  <2>2. QED
    BY <2>1 DEF AddCoding
<1>7. SameButCoding(st, st)
  BY DEF SameButCoding
<1>8. QED
  BY <1>5, <1>6, <1>7

\* Whatever only changes coding sets extends by nothing.
LEMMA SameButCodingExtends ==
  ASSUME NEW st, NEW t, NEW u, NEW I, SameButCoding(st, t)
  PROVE  /\ Extends(st, t, {})
         /\ Extends(t, u, I) => Extends(st, u, I)
         /\ Extends(u, st, I) => Extends(u, t, I)
BY DEF SameButCoding, Extends, EmittedIn, Held

\* Recovery fills in the rebuilt shreds, if any, and only touches coding sets besides.
LEMMA RecoverAdds ==
  ASSUME NEW st \in SlotState, NEW f \in Index, CodingNum(st)
  PROVE  LET t == Recover(st, f) IN
         /\ t \in SlotState
         /\ Extends(st, t, Rebuilt(st, f))
         /\ CodingNum(t)
         /\ Rebuilt(st, f) \subseteq MissingIn(st, FecRange(f, st.coding[f].num))
<1> DEFINE R == FecRange(f, st.coding[f].num)
           old == st.coding[f]
           tried == [old EXCEPT !.attempts = @ + 1]
           counted == IF CanRecover(st, f) THEN [st EXCEPT !.coding[f].attempts = @ + 1] ELSE st
           I == Rebuilt(st, f)
           v == CHOOSE w \in Sources(st, f) : TRUE
           filled == IF I = {} THEN counted ELSE Fill(counted, I, v)
           t == Recover(st, f)
<1>1. I \subseteq MissingIn(st, R) /\ I \subseteq Index
  BY DEF Rebuilt, MissingIn
<1>2. counted \in SlotState /\ SameButCoding(st, counted) /\ CodingNum(counted)
  <2>1. old \in CodingSet /\ st.coding \in [Index -> CodingSet]
    BY DEF SlotState
  <2>2. tried \in CodingSet /\ tried.num = old.num
    BY <2>1 DEF CodingSet
  <2>3. counted \in {st, [st EXCEPT !.coding[f] = tried]}
    OBVIOUS
  <2>4. CodingNum([st EXCEPT !.coding[f] = tried])
    <3>1. [st EXCEPT !.coding[f] = tried].coding = [st.coding EXCEPT ![f] = tried]
      BY <2>2, SetCoding
    <3>2. QED
      BY <2>1, <2>2, <3>1 DEF CodingNum
  <2>5. SameButCoding(st, st)
    BY DEF SameButCoding
  <2>6. QED
    BY <2>2, <2>3, <2>4, <2>5, SetCoding
<1>3. filled \in SlotState /\ Extends(st, filled, I) /\ CodingNum(filled)
  <2>1. CASE I = {}
    BY <2>1, <1>2, SameButCodingExtends
  <2>2. CASE I # {}
    <3>1. v \in Variants
      BY <2>2 DEF Rebuilt, Rebuildable
    <3>2. MissingIn(counted, I) = I
      BY <1>1, <1>2 DEF MissingIn, SameButCoding
    <3>3. /\ Fill(counted, I, v) \in SlotState
          /\ Extends(counted, Fill(counted, I, v), I)
          /\ Fill(counted, I, v).coding = counted.coding
      BY <1>1, <1>2, <3>1, <3>2, FillAdds
    <3>4. QED
      BY <2>2, <1>2, <3>3, SameButCodingExtends DEF CodingNum
  <2>3. QED
    BY <2>1, <2>2
<1>4. NoCoding \in CodingSet /\ NoCoding.num = 0
  BY DEF NoCoding, CodingSet
<1>5. LET u == [filled EXCEPT !.coding[f] = NoCoding] IN
      u \in SlotState /\ Extends(st, u, I) /\ CodingNum(u)
  <2> DEFINE u == [filled EXCEPT !.coding[f] = NoCoding]
  <2>1. u \in SlotState /\ SameButCoding(filled, u) /\ u.coding = [filled.coding EXCEPT ![f] = NoCoding]
    BY SMTT(30), <1>3, <1>4, SetCoding
  <2>2. filled.coding \in [Index -> CodingSet]
    BY <1>3 DEF SlotState
  <2>3. CodingNum(u)
    <3>1. \A g \in Index : u.coding[g] = IF g = f THEN NoCoding ELSE filled.coding[g]
      BY <2>1, <2>2
    <3>2. QED
      BY <1>3, <1>4, <3>1 DEF CodingNum
  <2>4. QED
    BY <1>3, <2>1, <2>3, SameButCodingExtends
<1>6. t \in {filled, [filled EXCEPT !.coding[f] = NoCoding]}
  BY DEF Recover
<1>7. QED
  BY <1>1, <1>3, <1>5, <1>6

-----------------------------------------------------------------------------
(* Data sets. *)

LEMMA CoveredIndexes ==
  ASSUME NEW ends \in SUBSET Index, NEW D \in SUBSET DataSets(ends)
  PROVE  /\ D \subseteq Index \X Index
         /\ Covered(D) \subseteq Index
         /\ \A d \in D : /\ d[1] \in Index /\ d[2] \in Index /\ d[1] <= d[2]
                        /\ d[2] \in Covered(D) /\ d[2] \in ends
<1>1. \A d \in DataSets(ends) :
        d \in Index \X Index /\ d[1] \in Index /\ d[2] \in Index /\ d[2] \in ends /\ d[1] <= d[2]
  BY DEF DataSets
<1>2. Index \subseteq Int /\ \A i, j \in Index : i..j \subseteq Index
  BY RingAssumption DEF Index
<1>3. ASSUME NEW a \in Index, NEW b \in Index, a <= b
      PROVE  a..b \subseteq Index /\ b \in a..b
  BY <1>2, <1>3
<1>4. \A d \in D : d[1]..d[2] \subseteq Index /\ d[2] \in d[1]..d[2]
  BY <1>1, <1>3
<1>5. QED
  BY <1>1, <1>4 DEF Covered

LEMMA CoveredUnion == \A D, E : Covered(D \cup E) = Covered(D) \cup Covered(E)
BY DEF Covered

LEMMA CoveredEmpty == Covered({}) = {}
BY DEF Covered

\* Adding disjoint sets of indexes adds their sizes.
LEMMA DisjointSizes ==
  ASSUME NEW A \in SUBSET Index, NEW B \in SUBSET Index, A \cap B = {}
  PROVE  Cardinality(A \cup B) = Cardinality(A) + Cardinality(B)
<1>1. IsFiniteSet(A) /\ IsFiniteSet(B) /\ Cardinality(A) \in Nat /\ Cardinality(B) \in Nat
  BY FiniteIndexes
<1>2. Cardinality(A \cup B) = Cardinality(A) + Cardinality(B) - Cardinality(A \cap B)
  BY <1>1, FS_Union
<1>3. Cardinality(A \cap B) = 0
  BY FS_EmptySet
<1>4. QED
  BY <1>1, <1>2, <1>3

\* What a call takes was held; it leaves a complete set only by finishing the slot.
LEMMA CompletedSetsAreHeld ==
  ASSUME NEW st \in SlotState, NEW R
  PROVE  LET D == CompletedSets(st, R)
             C == Complete(st, R)
         IN  /\ D \subseteq C
             /\ C \subseteq DataSets(st.ends)
             /\ Covered(D) \subseteq Held(st)
             /\ D # C => D # {} /\ FinishedBy(st, D)
<1> DEFINE D == CompletedSets(st, R)
           C == Complete(st, R)
           UpTo(x) == {y \in C : y[2] <= x[2]}
<1>1. D \subseteq C
  BY DEF CompletedSets
<1>2. C \subseteq DataSets(st.ends) /\ \A d \in C : d[1]..d[2] \subseteq Held(st)
  BY DEF Complete
<1>3. Covered(D) \subseteq Held(st)
  BY <1>1, <1>2 DEF Covered
<1>4. /\ \A d \in C : d[1] \in Int /\ d[2] \in Int /\ d[1] <= d[2]
      /\ \A E \in SUBSET C : Covered(E) \subseteq Index
  <2>1. st.ends \in SUBSET Index
    BY DEF SlotState
  <2>2. Index \subseteq Int
    BY RingAssumption DEF Index
  <2>3. C \in SUBSET DataSets(st.ends)
    BY <1>2
  <2>4. \A d \in C : d[1] \in Index /\ d[2] \in Index /\ d[1] <= d[2]
    BY <2>1, <2>3, CoveredIndexes
  <2>5. \A E \in SUBSET C : Covered(E) \subseteq Index
    BY <2>1, <2>3, CoveredIndexes
  <2>6. QED
    BY <2>2, <2>4, <2>5
<1>5. ASSUME D # C
      PROVE  D # {} /\ FinishedBy(st, D)
  <2>1. PICK d \in C, x \in C : x[2] < d[2] /\ FinishedBy(st, UpTo(x))
    BY <1>1, <1>5 DEF CompletedSets
  <2>2. \A e \in D : e[2] <= x[2]
    BY <2>1, <1>1, <1>4 DEF CompletedSets
  <2>3. ASSUME NEW y \in UpTo(x), NEW z \in C, z[2] < y[2]
        PROVE  ~FinishedBy(st, UpTo(z))
    <3>1. UpTo(z) \subseteq UpTo(x)
      BY <1>4, <2>3
    <3>2. Covered(UpTo(z)) \subseteq Covered(UpTo(x)) /\ Covered(UpTo(x)) \subseteq Index
      BY <1>4, <3>1 DEF Covered
    <3>3. y[2] \in Covered(UpTo(x))
      BY <1>4 DEF Covered
    <3>4. y[2] \notin Covered(UpTo(z))
      <4>1. \A w \in UpTo(z) : y[2] \notin w[1]..w[2]
        BY <1>4, <2>3
      <4>2. QED
        BY <4>1 DEF Covered
    <3>5. Cardinality(Covered(UpTo(z))) # Cardinality(Covered(UpTo(x)))
      BY <3>2, <3>3, <3>4, FiniteIndexes, FS_Subset
    <3>6. Cardinality(Covered(UpTo(z))) \in Nat /\ Cardinality(Covered(UpTo(x))) \in Nat
      BY <3>2, FiniteIndexes
    <3>7. st.emitted \in Nat /\ st.last \in Int
      BY RingAssumption DEF SlotState, Index, NoIndex
    <3>8. QED
      BY <2>1, <3>5, <3>6, <3>7 DEF FinishedBy
  <2>4. D = UpTo(x)
    BY <1>1, <2>2, <2>3 DEF CompletedSets
  <2>5. x \in UpTo(x)
    BY <1>4, <2>1
  <2>6. QED
    BY <2>1, <2>4, <2>5
<1>6. QED
  BY <1>1, <1>2, <1>3, <1>5

\* Taking data sets turns their held shreds into emitted ones, or finishes the slot.
LEMMA TakeDataSetsEmits ==
  ASSUME NEW st \in SlotState, NEW D \in SUBSET DataSets(st.ends), CodingNum(st),
         Covered(D) \subseteq Held(st), D # {}, ~st.finished
  PROVE  LET t == TakeDataSets(st, D) IN
         /\ t \in SlotState
         /\ CodingNum(t)
         /\ t.slot = st.slot
         /\ t.last = st.last
         /\ t.emitted = st.emitted + Cardinality(Covered(D))
         /\ t.finished <=> FinishedBy(st, D)
         /\ t.finished => Held(t) = {} /\ t.ends = {}
         /\ ~t.finished => /\ EmittedIn(t) = EmittedIn(st) \cup Covered(D)
                           /\ Held(t) = Held(st) \ Covered(D)
                           /\ t.ends = st.ends
<1> DEFINE n == st.emitted + Cardinality(Covered(D))
           data == [i \in Index |-> IF i \in Covered(D) THEN Emitted ELSE st.data[i]]
           retained(f) == FecRange(f, st.coding[f].num) \cap Covered(D) # {}
                             => MissingIn(st, FecRange(f, st.coding[f].num)) # {}
           coding == [f \in Index |-> IF retained(f) THEN st.coding[f] ELSE NoCoding]
           rest == [st EXCEPT !.data = data, !.emitted = n, !.coding = coding]
           done == [NewState(st.slot) EXCEPT !.last = st.last, !.emitted = n, !.finished = TRUE]
<1>1. Covered(D) \subseteq Index /\ n \in Nat
  <2>1. st.ends \in SUBSET Index /\ st.emitted \in Nat
    BY DEF SlotState
  <2>2. Covered(D) \subseteq Index
    BY <2>1, CoveredIndexes
  <2>3. QED
    BY <2>1, <2>2, FiniteIndexes
<1>2. coding \in [Index -> CodingSet] /\ \A f \in Index : coding[f].num \in {0, NumDataShreds(f)}
  BY DEF SlotState, CodingSet, NoCoding, CodingNum
<1>3. /\ rest \in SlotState /\ rest.slot = st.slot /\ rest.last = st.last /\ rest.emitted = n
      /\ rest.finished = st.finished /\ rest.ends = st.ends /\ rest.data = data
      /\ rest.coding = coding
  BY <1>1, <1>2 DEF SlotState
<1>4. /\ EmittedIn(rest) = EmittedIn(st) \cup Covered(D)
      /\ Held(rest) = Held(st) \ Covered(D)
  BY <1>1, <1>3, DataShredAssumption DEF EmittedIn, Held
<1>5. /\ done \in SlotState /\ done.slot = st.slot /\ done.last = st.last /\ done.emitted = n
      /\ done.finished /\ done.ends = {} /\ Held(done) = {} /\ CodingNum(done)
  <2>1. st.slot \in Slots \cup {NoIndex} /\ st.last \in Index \cup {NoIndex}
    BY DEF SlotState
  <2>2. NewState(st.slot) \in SlotState
    BY <2>1, NewStateType
  <2>3. done \in SlotState
    BY <1>1, <2>1, <2>2 DEF SlotState
  <2>4. QED
    BY <2>3, DataShredAssumption DEF NewState, Held, CodingNum, NoCoding
<1>6. TakeDataSets(st, D) = IF FinishedBy(st, D) THEN done ELSE rest
  BY DEF TakeDataSets
<1>7. CASE FinishedBy(st, D)
  BY <1>5, <1>6, <1>7
<1>8. CASE ~FinishedBy(st, D)
  BY <1>2, <1>3, <1>4, <1>6, <1>8 DEF CodingNum
<1>9. QED
  BY <1>7, <1>8

-----------------------------------------------------------------------------
(* One call of insert_shred, on the state of its slot. *)

NoCompleteIn(st) == \A d \in DataSets(st.ends) : ~(d[1]..d[2] \subseteq Held(st))

\* The search around the filled range R misses nothing that became complete.
LEMMA SearchFindsAll ==
  ASSUME NEW base \in SlotState, NEW t \in SlotState, NEW I \in SUBSET Index,
         NEW R \in SUBSET Int, I \subseteq R, Extends(base, t, I), NoCompleteIn(base),
         NEW d \in DataSets(t.ends), d[1]..d[2] \subseteq Held(t)
  PROVE  d \in Complete(t, R)
<1>1. /\ t.ends \subseteq Index /\ base.ends \subseteq t.ends /\ t.ends \subseteq base.ends \cup I
      /\ base.ends \subseteq Index
      /\ Held(t) = Held(base) \cup I
      /\ Index \subseteq Int
  BY RingAssumption DEF Extends, SlotState, Index
<1>2. /\ d[1] \in Index /\ d[2] \in t.ends /\ d[1] <= d[2] /\ d = <<d[1], d[2]>>
      /\ d[1] = 0 \/ d[1] - 1 \in t.ends
      /\ \A i \in d[1]..(d[2] - 1) : i \notin t.ends
  BY DEF DataSets
<1>3. SUFFICES ASSUME d[2] \notin Searched(t.ends, R)
               PROVE  FALSE
  BY DEF Complete
<1>4. \/ \A i \in R : d[2] < i
      \/ \E x \in t.ends : x < d[2] /\ \A i \in R : i < x
  BY <1>1, <1>2, <1>3 DEF Searched
<1>5. \/ \A i \in R : d[2] < i
      \/ \A i \in R : i < d[1] - 1
  <2>1. ASSUME NEW x \in t.ends, x < d[2], \A i \in R : i < x
        PROVE  \A i \in R : i < d[1] - 1
    <3>1. x \notin d[1]..(d[2] - 1)
      BY <1>2, <2>1
    <3>2. x < d[1] /\ x \in Index /\ 0 <= x
      BY <1>1, <1>2, <2>1, <3>1, RingAssumption DEF Index
    <3>3. d[1] - 1 \in t.ends /\ x <= d[1] - 1
      BY <1>1, <1>2, <3>2
    <3>4. QED
      BY <1>1, <1>2, <2>1, <3>2, <3>3
  <2>2. QED
    BY <1>4, <2>1
<1>6. \A i \in d[1]..d[2] : i \notin R
  BY <1>1, <1>2, <1>5
<1>7. d[1]..d[2] \subseteq Held(base)
  BY <1>1, <1>6
<1>8. d[2] \in base.ends
  BY <1>1, <1>2, <1>6
<1>9. d[1] = 0 \/ d[1] - 1 \in base.ends
  BY <1>1, <1>2, <1>5
<1>10. d \in DataSets(base.ends)
  BY <1>1, <1>2, <1>8, <1>9 DEF DataSets
<1>11. QED
  BY <1>7, <1>10 DEF NoCompleteIn

\* The shreds a call inserts itself: none, or one of the FEC set f.
OneOf(fresh, f) == fresh # {} => \E i \in Index : fresh = {i} /\ f = FecOf[i]

\* The filled range covers the inserted and the rebuilt shreds.
LEMMA RangeCoversFilled ==
  ASSUME NEW st \in SlotState, NEW f \in Index, NEW fresh \in SUBSET Index, CodingNum(st),
         OneOf(fresh, f)
  PROVE  LET R == IF Rebuilt(st, f) # {} THEN FecRange(f, st.coding[f].num) ELSE fresh IN
         fresh \cup Rebuilt(st, f) \subseteq R /\ R \subseteq Int
<1> DEFINE n == st.coding[f].num
<1>1. n \in Nat /\ Index \subseteq Int
  BY RingAssumption DEF SlotState, CodingSet, Index
<1>2. CASE Rebuilt(st, f) = {}
  BY <1>1, <1>2
<1>3. CASE Rebuilt(st, f) # {}
  <2>1. n > 0 /\ Rebuilt(st, f) \subseteq FecRange(f, n)
    BY <1>3 DEF Rebuilt, CanRecover, MissingIn
  <2>2. n = NumDataShreds(f)
    BY <1>1, <2>1 DEF CodingNum
  <2>3. ASSUME NEW i \in Index, f = FecOf[i]
        PROVE  i \in FecRange(f, n)
    BY <2>2, <2>3, FecAssumption
  <2>4. FecRange(f, n) \subseteq Int
    BY <1>1 DEF FecRange
  <2>5. QED
    BY <1>3, <2>1, <2>3, <2>4 DEF OneOf
<1>4. QED
  BY <1>2, <1>3

\* What insert_shred makes of its slot's state base, with st the state after the insertion
\* of the shreds fresh and K the data sets taken before: a consistent state again, and data
\* sets D with nothing in common with K.
Settled(base, st, f, fresh, K) ==
    LET t == Recover(st, f)
        R == IF Rebuilt(st, f) # {} THEN FecRange(f, st.coding[f].num) ELSE fresh
        D == CompletedSets(t, R)
        u == TakeDataSets(t, D)
    IN  /\ u \in SlotState
        /\ CodingNum(u)
        /\ u.slot = base.slot
        /\ NoCompleteIn(u)
        /\ D \subseteq Index \X Index
        /\ Covered(D) \cap Covered(K) = {}
        /\ ~u.finished => /\ EmittedIn(u) = Covered(K \cup D)
                          /\ u.emitted = Cardinality(Covered(K \cup D))

LEMMA SettleState ==
  ASSUME NEW base \in SlotState, NEW st \in SlotState, NEW f \in Index,
         NEW fresh \in SUBSET Index, NEW K,
         Extends(base, st, fresh), CodingNum(st), ~base.finished, NoCompleteIn(base),
         EmittedIn(base) = Covered(K), base.emitted = Cardinality(Covered(K)),
         OneOf(fresh, f)
  PROVE  Settled(base, st, f, fresh, K)
<1> DEFINE t == Recover(st, f)
           I == fresh \cup Rebuilt(st, f)
           R == IF Rebuilt(st, f) # {} THEN FecRange(f, st.coding[f].num) ELSE fresh
           C == Complete(t, R)
           D == CompletedSets(t, R)
           u == TakeDataSets(t, D)
<1>1. t \in SlotState /\ CodingNum(t) /\ Extends(st, t, Rebuilt(st, f)) /\ I \subseteq Index
  BY RecoverAdds DEF MissingIn
<1>2. Extends(base, t, I)
  BY <1>1 DEF Extends
<1>3. I \subseteq R /\ R \subseteq Int
  BY RangeCoversFilled
<1>4. \A d \in DataSets(t.ends) : d[1]..d[2] \subseteq Held(t) => d \in C
  BY <1>1, <1>2, <1>3, SearchFindsAll
<1>5. /\ D \subseteq C /\ C \subseteq DataSets(t.ends) /\ Covered(D) \subseteq Held(t)
      /\ D # C => D # {} /\ FinishedBy(t, D)
  BY <1>1, CompletedSetsAreHeld
<1>6. t.ends \in SUBSET Index /\ D \in SUBSET DataSets(t.ends)
  BY <1>1, <1>5 DEF SlotState
<1>7. /\ D \subseteq Index \X Index /\ Covered(D) \subseteq Index
      /\ \A d \in D : d[1] <= d[2] /\ d[1] \in Index /\ d[2] \in Index /\ d[2] \in Covered(D)
  BY <1>6, CoveredIndexes
<1>8. EmittedIn(t) = Covered(K) /\ ~t.finished /\ t.emitted = base.emitted /\ t.slot = base.slot
  BY <1>2 DEF Extends
<1>9. Covered(K) \subseteq Index /\ Covered(D) \cap Covered(K) = {}
  BY <1>5, <1>8, DataShredAssumption DEF EmittedIn, Held
<1>10. Cardinality(Covered(K \cup D)) = t.emitted + Cardinality(Covered(D))
  BY <1>7, <1>8, <1>9, CoveredUnion, DisjointSizes
<1>11. ASSUME D = {}
       PROVE  Settled(base, st, f, fresh, K)
  <2>1. u = t
    BY <1>11 DEF TakeDataSets
  <2>2. C = {}
    BY <1>5, <1>11
  <2>3. NoCompleteIn(t)
    BY <1>4, <2>2 DEF NoCompleteIn
  <2>4. K \cup D = K
    BY <1>11
  <2>5. QED
    BY <1>1, <1>7, <1>8, <1>9, <2>1, <2>3, <2>4 DEF Settled
<1>12. ASSUME D # {}
       PROVE  Settled(base, st, f, fresh, K)
  <2>1. /\ u \in SlotState /\ CodingNum(u) /\ u.slot = t.slot
        /\ u.emitted = t.emitted + Cardinality(Covered(D))
        /\ u.finished <=> FinishedBy(t, D)
        /\ u.finished => Held(u) = {} /\ u.ends = {}
        /\ ~u.finished => /\ EmittedIn(u) = EmittedIn(t) \cup Covered(D)
                          /\ Held(u) = Held(t) \ Covered(D)
                          /\ u.ends = t.ends
    BY <1>1, <1>5, <1>6, <1>8, <1>12, TakeDataSetsEmits
  <2>2. CASE u.finished
    <3>1. NoCompleteIn(u)
      BY <2>1, <2>2 DEF NoCompleteIn, DataSets
    <3>2. QED
      BY <1>7, <1>8, <1>9, <2>1, <2>2, <3>1 DEF Settled
  <2>3. CASE ~u.finished
    <3>1. D = C
      BY <1>5, <2>1, <2>3
    <3>2. ASSUME NEW d \in DataSets(u.ends), d[1]..d[2] \subseteq Held(u)
          PROVE  FALSE
      <4>1. d \in D
        BY <1>4, <2>1, <2>3, <3>1, <3>2
      <4>2. d[2] \in Covered(D) /\ d[2] \in d[1]..d[2]
        BY <1>7, <4>1, RingAssumption DEF Index
      <4>3. QED
        BY <2>1, <2>3, <3>2, <4>2
    <3>3. NoCompleteIn(u)
      BY <3>2 DEF NoCompleteIn
    <3>4. EmittedIn(u) = Covered(K \cup D)
      BY <1>8, <2>1, <2>3, CoveredUnion
    <3>5. QED
      BY <1>7, <1>8, <1>9, <1>10, <2>1, <2>3, <3>3, <3>4 DEF Settled
  <2>4. QED
    BY <2>2, <2>3
<1>13. QED
  BY <1>11, <1>12

-----------------------------------------------------------------------------
(* The inductive invariant and the step that preserves it. *)

\* An entry holds a slot of its residue, with coding sets that know their size.
RingInv ==
    \A r \in DOMAIN slots :
        /\ CodingNum(slots[r])
        /\ slots[r].slot # NoIndex => Residue(slots[r].slot) = r

\* Nothing was taken from a slot that its ring entry did not reach yet.
UnseenInv == \A s \in Slots : slots[Residue(s)].slot < s => consumed[s] = {}

IInv ==
    /\ TypeOK
    /\ RingInv
    /\ UnseenInv
    /\ EmittedAccounting
    /\ NoCompleteSetHeld

LEMMA RingIndexes ==
  /\ NoIndex \notin Slots /\ Slots \subseteq Int
  /\ \A s \in Slots : Residue(s) \in 0..(HistorySize - 1)
<1>1. \A s \in Slots : s \in Nat
  BY RingAssumption
<1>2. \A s, h \in Nat : h # 0 => s % h \in 0..(h - 1)
  OBVIOUS
<1>3. QED
  BY <1>1, <1>2, RingAssumption DEF Residue, NoIndex

LEMMA SlotNumber == \A st \in SlotState : st.slot \in Slots \cup {NoIndex} /\ st.slot \in Int
<1>1. \A st \in SlotState : st.slot \in Slots \cup {NoIndex}
  BY DEF SlotState
<1>2. NoIndex \in Int /\ Slots \subseteq Int
  BY RingIndexes DEF NoIndex
<1>3. QED
  BY <1>1, <1>2

LEMMA NewStateHoldsNothing == \A s : NoCompleteIn(NewState(s))
BY DEF NewState, NoCompleteIn, DataSets

LEMMA InitIInv == Init => IInv
<1> SUFFICES ASSUME Init PROVE IInv
  OBVIOUS
<1>1. \A r \in DOMAIN slots : slots[r] = NewState(NoIndex)
  BY DEF Init
<1>2. TypeOK
  <2>1. slots \in [0..(HistorySize - 1) -> SlotState]
    BY NewStateType DEF Init
  <2>2. QED
    BY <2>1 DEF Init, TypeOK
<1>3. RingInv
  BY <1>1, NewStateType DEF RingInv
<1>4. UnseenInv
  BY DEF Init, UnseenInv
<1>5. EmittedAccounting
  BY <1>1, NewStateType DEF EmittedAccounting
<1>6. NoCompleteSetHeld
  BY <1>1, NewStateHoldsNothing DEF NoCompleteSetHeld, NoCompleteIn
<1>7. QED
  BY <1>2, <1>3, <1>4, <1>5, <1>6 DEF IInv

\* The state insert_shred works on agrees with what was taken from its slot.
LEMMA StateForSlot ==
  ASSUME IInv, NEW s \in Slots, ~Ignores(s)
  PROVE  LET base == StateFor(s) IN
         /\ base \in SlotState
         /\ CodingNum(base)
         /\ base.slot = s
         /\ ~base.finished
         /\ NoCompleteIn(base)
         /\ EmittedIn(base) = Covered(consumed[s])
         /\ base.emitted = Cardinality(Covered(consumed[s]))
<1> DEFINE entry == slots[Residue(s)]
<1>1. Residue(s) \in DOMAIN slots /\ entry \in SlotState
  BY RingIndexes DEF IInv, TypeOK
<1>2. s \in Int /\ s # NoIndex /\ entry.slot \in Int
  BY <1>1, RingIndexes, SlotNumber
<1>3. ~(entry.slot > s) /\ ~StateFor(s).finished
  BY DEF Ignores
<1>4. CASE entry.slot < s
  <2>1. StateFor(s) = NewState(s)
    BY <1>4 DEF StateFor
  <2>2. consumed[s] = {}
    BY <1>4 DEF IInv, UnseenInv
  <2>3. Covered(consumed[s]) = {} /\ Cardinality(Covered(consumed[s])) = 0
    BY <2>2, CoveredEmpty, FS_EmptySet
  <2>4. QED
    BY <2>1, <2>3, NewStateType, NewStateHoldsNothing
<1>5. CASE ~(entry.slot < s)
  <2>1. StateFor(s) = entry /\ entry.slot = s
    BY <1>2, <1>3, <1>5 DEF StateFor
  <2>2. NoCompleteIn(entry)
    BY <1>1 DEF IInv, NoCompleteSetHeld, NoCompleteIn
  <2>3. CodingNum(entry)
    BY <1>1 DEF IInv, RingInv
  <2>4. /\ EmittedIn(entry) = Covered(consumed[s])
        /\ entry.emitted = Cardinality(Covered(consumed[s]))
    BY <1>1, <1>2, <1>3, <2>1 DEF IInv, EmittedAccounting, EmittedIn
  <2>5. QED
    BY <1>1, <1>3, <2>1, <2>2, <2>3, <2>4
<1>6. QED
  BY <1>4, <1>5

\* No data set taken overlaps one taken before.
TakenIsNew == \A t \in taken' : Covered({t[2]}) \cap Covered(consumed[t[1]]) = {}

LEMMA SettlePreserves ==
  ASSUME IInv, NEW s \in Slots, ~Ignores(s), NEW st \in SlotState, NEW f \in Index,
         NEW fresh \in SUBSET Index, NEW sh \in ShredPool,
         Extends(StateFor(s), st, fresh), CodingNum(st),
         OneOf(fresh, f), Settle(st, s, f, fresh, sh)
  PROVE  IInv' /\ TakenIsNew
<1> DEFINE K == consumed[s]
           t == Recover(st, f)
           R == IF Rebuilt(st, f) # {} THEN FecRange(f, st.coding[f].num) ELSE fresh
           D == CompletedSets(t, R)
           u == TakeDataSets(t, D)
<1>1. /\ u \in SlotState /\ CodingNum(u) /\ u.slot = s /\ NoCompleteIn(u)
      /\ D \subseteq Index \X Index /\ Covered(D) \cap Covered(K) = {}
      /\ ~u.finished => /\ EmittedIn(u) = Covered(K \cup D)
                        /\ u.emitted = Cardinality(Covered(K \cup D))
  <2> DEFINE base == StateFor(s)
  <2>1. /\ base \in SlotState /\ base.slot = s /\ ~base.finished /\ NoCompleteIn(base)
        /\ EmittedIn(base) = Covered(K) /\ base.emitted = Cardinality(Covered(K))
    BY StateForSlot
  <2>2. Extends(base, st, fresh)
    OBVIOUS
  <2>3. Settled(base, st, f, fresh, K)
    BY <2>1, <2>2, SettleState
  <2>4. QED
    BY <2>1, <2>3 DEF Settled
<1>2. /\ slots' = [slots EXCEPT ![Residue(s)] = u]
      /\ taken' = {<<s, d>> : d \in D}
      /\ consumed' = [consumed EXCEPT ![s] = @ \cup D]
      /\ received' = [received EXCEPT ![s] = @ \cup {sh}]
  BY DEF Settle
<1>3. /\ slots \in [0..(HistorySize - 1) -> SlotState]
      /\ consumed \in [Slots -> SUBSET (Index \X Index)]
      /\ received \in [Slots -> SUBSET ShredPool]
      /\ stats \in [recoveries : Nat, recovered_shreds : Nat, recovery_errors : Nat, decode_errors : Nat]
  BY DEF IInv, TypeOK
<1>4. Residue(s) \in DOMAIN slots
  BY <1>3, RingIndexes
<1>5. \A r \in DOMAIN slots' : slots'[r] = IF r = Residue(s) THEN u ELSE slots[r]
  BY <1>2, <1>3
<1>6. DOMAIN slots' = DOMAIN slots
  BY <1>2
<1>7. TypeOK'
  <2>1. slots' \in [0..(HistorySize - 1) -> SlotState]
    BY <1>1, <1>2, <1>3
  <2>2. consumed' \in [Slots -> SUBSET (Index \X Index)]
    BY <1>1, <1>2, <1>3
  <2>3. received' \in [Slots -> SUBSET ShredPool]
    BY <1>2, <1>3
  <2>4. taken' \subseteq Slots \X (Index \X Index)
    BY <1>1, <1>2
  <2>5. stats' \in [recoveries : Nat, recovered_shreds : Nat, recovery_errors : Nat, decode_errors : Nat]
    <3>1. Cardinality(Rebuilt(st, f)) \in Nat
      BY FiniteIndexes DEF Rebuilt, MissingIn
    <3>2. Cardinality(D \cap Undecodable) \in Nat
      <4>1. IsFiniteSet(Index \X Index)
        BY FiniteIndexes, FS_Product
      <4>2. QED
        BY <1>1, <4>1, FS_Subset, FS_CardinalityType
    <3> DEFINE n == Cardinality(Rebuilt(st, f))
               m == Cardinality(D \cap Undecodable)
               tried == CanRecover(st, f)
               failed == tried /\ Rebuilt(st, f) = {}
    <3>3. stats' = [stats EXCEPT
                   !.recoveries = IF tried THEN @ + 1 ELSE @,
                   !.recovered_shreds = @ + n,
                   !.recovery_errors = IF failed THEN @ + 1 ELSE @,
                   !.decode_errors = @ + m]
      BY DEF Settle
    <3>4. n \in Nat /\ m \in Nat
      BY <3>1, <3>2
    <3> HIDE DEF n, m, tried, failed
    <3>5. stats' = [recoveries |-> IF tried THEN stats.recoveries + 1 ELSE stats.recoveries,
                    recovered_shreds |-> stats.recovered_shreds + n,
                    recovery_errors |-> IF failed THEN stats.recovery_errors + 1
                                        ELSE stats.recovery_errors,
                    decode_errors |-> stats.decode_errors + m]
      BY <1>3, <3>3
    <3>6. QED
      BY <1>3, <3>4, <3>5
  <2>6. QED
    BY <2>1, <2>2, <2>3, <2>4, <2>5 DEF TypeOK
<1>8. RingInv'
  BY <1>1, <1>5, <1>6 DEF IInv, RingInv
<1>9. UnseenInv'
  <2> SUFFICES ASSUME NEW x \in Slots, slots'[Residue(x)].slot < x
               PROVE  consumed'[x] = {}
    BY DEF UnseenInv
  <2>1. Residue(x) \in DOMAIN slots /\ x \in Int /\ s \in Int
    BY <1>3, RingIndexes
  <2>2. x # s
    BY <1>1, <1>4, <1>5, <1>6, <2>1
  <2>3. slots[Residue(x)].slot < x
    <3>1. CASE Residue(x) = Residue(s)
      <4>1. s < x
        BY <1>1, <1>5, <1>6, <2>1, <3>1
      <4>2. slots[Residue(s)].slot <= s
        <5>1. slots[Residue(s)].slot \in Int
          BY <1>3, <1>4, SlotNumber
        <5>2. QED
          BY <2>1, <5>1 DEF Ignores
      <4>3. slots[Residue(s)].slot \in Int
        BY <1>3, <1>4, SlotNumber
      <4>4. QED
        BY <2>1, <3>1, <4>1, <4>2, <4>3
    <3>2. CASE Residue(x) # Residue(s)
      BY <1>5, <1>6, <2>1, <3>2
    <3>3. QED
      BY <3>1, <3>2
  <2>4. consumed[x] = {}
    BY <2>3 DEF IInv, UnseenInv
  <2>5. QED
    BY <1>2, <1>3, <2>2, <2>4
<1>10. EmittedAccounting'
  <2> SUFFICES ASSUME NEW r \in DOMAIN slots, slots'[r].slot # NoIndex, ~slots'[r].finished
               PROVE  /\ EmittedIn(slots'[r]) = Covered(consumed'[slots'[r].slot])
                      /\ slots'[r].emitted = Cardinality(Covered(consumed'[slots'[r].slot]))
    BY <1>6 DEF EmittedAccounting, EmittedIn
  <2>1. CASE r = Residue(s)
    <3>1. slots'[r] = u /\ consumed'[s] = K \cup D
      BY <1>2, <1>3, <1>5, <1>6, <2>1
    <3>2. QED
      BY <1>1, <3>1
  <2>2. CASE r # Residue(s)
    <3>1. slots'[r] = slots[r]
      BY <1>5, <1>6, <2>2
    <3>2. slots[r].slot # s /\ slots[r].slot \in Slots
      BY <1>3, <2>2, <3>1 DEF IInv, RingInv, SlotState
    <3>3. consumed'[slots[r].slot] = consumed[slots[r].slot]
      BY <1>2, <1>3, <3>2
    <3>4. QED
      BY <3>1, <3>3 DEF IInv, EmittedAccounting, EmittedIn
  <2>3. QED
    BY <2>1, <2>2
<1>11. NoCompleteSetHeld'
  <2> SUFFICES ASSUME NEW r \in DOMAIN slots
               PROVE  NoCompleteIn(slots'[r])
    BY <1>6 DEF NoCompleteSetHeld, NoCompleteIn
  <2>1. NoCompleteIn(slots[r])
    BY DEF IInv, NoCompleteSetHeld, NoCompleteIn
  <2>2. QED
    BY <1>1, <1>5, <1>6, <2>1
<1>12. TakenIsNew
  <2> SUFFICES ASSUME NEW d \in D
               PROVE  Covered({d}) \cap Covered(K) = {}
    BY <1>2 DEF TakenIsNew
  <2>1. Covered({d}) \subseteq Covered(D)
    BY DEF Covered
  <2>2. QED
    BY <1>1, <2>1
<1>13. QED
  BY <1>7, <1>8, <1>9, <1>10, <1>11, <1>12 DEF IInv

LEMMA NextIInv == IInv /\ [Next]_vars => IInv' /\ (TakenIsNew \/ UNCHANGED vars)
<1> SUFFICES ASSUME IInv, [Next]_vars
             PROVE  IInv' /\ (TakenIsNew \/ UNCHANGED vars)
  OBVIOUS
<1>1. ASSUME UNCHANGED <<slots, stats, received, consumed>>, taken' \subseteq Slots \X (Index \X Index)
      PROVE  IInv'
  BY <1>1 DEF IInv, TypeOK, RingInv, UnseenInv, EmittedAccounting, NoCompleteSetHeld
<1>2. ASSUME NEW s \in Slots, Discard(s)
      PROVE  IInv' /\ TakenIsNew
  BY <1>1, <1>2 DEF Discard, TakenIsNew
<1>3. ASSUME NEW s \in Slots, NEW v \in Variants, NEW i \in Layout[v].shreds,
             InsertDataShred(s, v, i)
      PROVE  IInv' /\ TakenIsNew
  <2> DEFINE base == StateFor(s)
             fresh == MissingIn(base, {i})
             sh == [kind |-> "data", variant |-> v, fec |-> FecOf[i], index |-> i]
  <2>1. i \in Index /\ FecOf[i] \in Index
    BY LayoutAssumption, FecAssumption
  <2>2. ~Ignores(s) /\ Settle(Fill(base, {i}, v), s, FecOf[i], fresh, sh)
    BY <1>3 DEF InsertDataShred
  <2>3. base \in SlotState /\ CodingNum(base)
    BY <2>2, StateForSlot
  <2>4. /\ Fill(base, {i}, v) \in SlotState
        /\ Extends(base, Fill(base, {i}, v), fresh)
        /\ Fill(base, {i}, v).coding = base.coding
    BY <2>1, <2>3, FillAdds
  <2>5. CodingNum(Fill(base, {i}, v))
    BY <2>3, <2>4 DEF CodingNum
  <2>6. sh \in ShredPool
    BY <2>1 DEF ShredPool
  <2>7. fresh \in SUBSET Index /\ OneOf(fresh, FecOf[i])
    BY <2>1 DEF MissingIn, OneOf
  <2>8. QED
    BY <2>1, <2>2, <2>4, <2>5, <2>6, <2>7, SettlePreserves
<1>4. ASSUME NEW s \in Slots, NEW v \in Variants, NEW j \in CodeIndexes, NEW i \in Layout[v].shreds,
             InsertCodingShred(s, v, FecOf[i], j)
      PROVE  IInv' /\ TakenIsNew
  <2> DEFINE base == StateFor(s)
             f == FecOf[i]
             sh == [kind |-> "code", variant |-> v, fec |-> f, index |-> j]
  <2>1. f \in Index
    BY LayoutAssumption, FecAssumption
  <2>2. ~Ignores(s) /\ Settle(AddCoding(base, f, j, v), s, f, {}, sh)
    BY <1>4 DEF InsertCodingShred
  <2>3. base \in SlotState /\ CodingNum(base)
    BY <2>2, StateForSlot
  <2>4. /\ AddCoding(base, f, j, v) \in SlotState
        /\ SameButCoding(base, AddCoding(base, f, j, v))
        /\ CodingNum(AddCoding(base, f, j, v))
    BY <2>1, <2>3, AddCodingKeeps
  <2>5. Extends(base, AddCoding(base, f, j, v), {})
    BY <2>4, SameButCodingExtends
  <2>6. sh \in ShredPool
    BY <2>1 DEF ShredPool
  <2>7. OneOf({}, f)
    BY DEF OneOf
  <2>8. QED
    BY <2>1, <2>2, <2>4, <2>5, <2>6, <2>7, SettlePreserves
<1>5. ASSUME UNCHANGED vars
      PROVE  IInv'
  BY <1>1, <1>5 DEF vars, IInv, TypeOK
<1>6. QED
  BY <1>2, <1>3, <1>4, <1>5 DEF Next

-----------------------------------------------------------------------------
(* The theorems. *)

\* Every execution keeps the inductive invariant.
THEOREM Inductive == Spec => []IInv
<1>1. Init => IInv
  BY InitIInv
<1>2. IInv /\ [Next]_vars => IInv'
  BY NextIInv
<1>3. QED
  BY <1>1, <1>2, PTL DEF Spec

\* insert_shred keeps the ring, the counters and the histories well typed.
THEOREM TypeCorrect == Spec => []TypeOK
<1>1. IInv => TypeOK
  BY DEF IInv
<1>2. QED
  BY <1>1, Inductive, PTL

\* emitted_shreds counts exactly the shreds of the data sets taken from a live slot.
THEOREM EmittedIsCounted == Spec => []EmittedAccounting
<1>1. IInv => EmittedAccounting
  BY DEF IInv
<1>2. QED
  BY <1>1, Inductive, PTL

\* The incremental search never leaves a data set behind whose shreds are all held.
THEOREM NothingCompleteWaits == Spec => []NoCompleteSetHeld
<1>1. IInv => NoCompleteSetHeld
  BY DEF IInv
<1>2. QED
  BY <1>1, Inductive, PTL

\* No shred is handed out twice, whatever arrives, in any order, for any number of versions.
THEOREM NeverTwice == Spec => EmittedOnce
<1>1. IInv /\ [Next]_vars => [TakenIsNew]_vars
  BY NextIInv
<1>2. [TakenIsNew]_vars => [\A t \in taken' : Covered({t[2]}) \cap Covered(consumed[t[1]]) = {}]_vars
  BY DEF TakenIsNew
<1>3. QED
  BY <1>1, <1>2, Inductive, PTL DEF Spec, EmittedOnce

-----------------------------------------------------------------------------
(* Coding shreds are kept only while their FEC set misses a data shred.  The
   FEC sets have no shred in common, so a step that fills in shreds of one
   FEC set can make that set whole and no other; recovery drops its coding
   set then, and taking data sets only ever drops coding sets. *)

Awaits(st, f) == MissingIn(st, FecRange(f, st.coding[f].num)) # {}

\* Every coding set kept, that of f aside, awaits a data shred.
IdleFreeBut(st, F) == \A g \in Index \ F : st.coding[g].num > 0 => Awaits(st, g)

IdleFree(st) == IdleFreeBut(st, {})

FecSetOf(f) == {i \in Index : FecOf[i] = f}

\* The range a coding set stands for is its FEC set.
LEMMA RangeIsFecSet ==
  ASSUME NEW st \in SlotState, NEW f \in Index, CodingNum(st), st.coding[f].num > 0
  PROVE  FecRange(f, st.coding[f].num) = FecSetOf(f)
<1>1. st.coding[f].num = NumDataShreds(f) /\ NumDataShreds(f) > 0
  BY DEF CodingNum
<1>2. NumDataShreds(f) = Cardinality(FecSetOf(f))
  BY DEF NumDataShreds, FecSetOf
<1>3. FecSetOf(f) # {}
  <2>1. Cardinality({}) = 0
    BY FS_EmptySet
  <2>2. QED
    BY <1>1, <1>2, <2>1
<1>4. PICK i \in Index : FecOf[i] = f
  BY <1>3 DEF FecSetOf
<1>5. QED
  BY <1>1, <1>4, FecAssumption DEF FecSetOf

LEMMA MissingIsRest ==
  ASSUME NEW st \in SlotState, NEW R
  PROVE  MissingIn(st, R) = (R \cap Index) \ (Held(st) \cup EmittedIn(st))
BY DataShredAssumption DEF SlotState, MissingIn, Held, EmittedIn

\* Filling in shreds takes them, and them only, from what is missing.
LEMMA ExtendsMissing ==
  ASSUME NEW st \in SlotState, NEW t \in SlotState, NEW I, Extends(st, t, I), NEW R
  PROVE  MissingIn(t, R) = MissingIn(st, R) \ I
BY MissingIsRest DEF Extends

\* Shreds of one FEC set leave the other sets as they are.
LEMMA FillIdle ==
  ASSUME NEW st \in SlotState, NEW t \in SlotState, NEW f \in Index, NEW I,
         CodingNum(st), Extends(st, t, I), I \subseteq FecSetOf(f), NEW F,
         IdleFreeBut(st, F), \A g \in Index \ {f} : t.coding[g] = st.coding[g]
  PROVE  IdleFreeBut(t, F \cup {f})
<1> SUFFICES ASSUME NEW g \in Index \ (F \cup {f}), t.coding[g].num > 0
             PROVE  Awaits(t, g)
  BY DEF IdleFreeBut
<1>1. st.coding[g].num > 0 /\ t.coding[g] = st.coding[g]
  OBVIOUS
<1>2. FecRange(g, st.coding[g].num) = FecSetOf(g)
  BY <1>1, RangeIsFecSet
<1>3. MissingIn(st, FecSetOf(g)) # {}
  BY <1>1, <1>2 DEF IdleFreeBut, Awaits
<1>4. I \cap FecSetOf(g) = {}
  BY DEF FecSetOf
<1>5. MissingIn(t, FecSetOf(g)) = MissingIn(st, FecSetOf(g)) \ I
  BY ExtendsMissing
<1>6. MissingIn(st, FecSetOf(g)) \subseteq FecSetOf(g)
  BY DEF MissingIn
<1>7. MissingIn(t, FecSetOf(g)) # {}
  BY <1>3, <1>4, <1>5, <1>6
<1>8. QED
  BY <1>1, <1>2, <1>7 DEF Awaits

\* The coding sets after recovery: only that of f changes, and it is dropped once whole.
LEMMA RecoverCoding ==
  ASSUME NEW st \in SlotState, NEW f \in Index, CodingNum(st)
  PROVE  LET t == Recover(st, f) IN
         /\ \A g \in Index \ {f} : t.coding[g] = st.coding[g]
         /\ \/ t.coding[f] = NoCoding
            \/ /\ t.coding[f].num = st.coding[f].num
               /\ t.coding[f].shreds = st.coding[f].shreds
               /\ MissingIn(t, FecRange(f, st.coding[f].num)) # {}
<1> DEFINE R == FecRange(f, st.coding[f].num)
           old == st.coding[f]
           tried == [old EXCEPT !.attempts = @ + 1]
           counted == IF CanRecover(st, f) THEN [st EXCEPT !.coding[f].attempts = @ + 1] ELSE st
           I == Rebuilt(st, f)
           v == CHOOSE w \in Sources(st, f) : TRUE
           filled == IF I = {} THEN counted ELSE Fill(counted, I, v)
           t == Recover(st, f)
<1>1. old \in CodingSet /\ st.coding \in [Index -> CodingSet]
  BY DEF SlotState
<1>2. tried \in CodingSet /\ tried.num = old.num /\ tried.shreds = old.shreds
  BY <1>1 DEF CodingSet
<1>3. /\ counted \in SlotState
      /\ \A g \in Index \ {f} : counted.coding[g] = st.coding[g]
      /\ counted.coding[f].num = old.num
      /\ counted.coding[f].shreds = old.shreds
  <2>1. CASE CanRecover(st, f)
    <3>1. counted = [st EXCEPT !.coding[f] = tried]
      BY <2>1
    <3>2. counted \in SlotState /\ counted.coding = [st.coding EXCEPT ![f] = tried]
      BY ZenonT(30), <1>2, <3>1, SetCoding
    <3>3. QED
      BY <1>1, <1>2, <3>2
  <2>2. CASE ~CanRecover(st, f)
    BY <2>2
  <2>3. QED
    BY <2>1, <2>2
<1>4. filled \in SlotState /\ filled.coding = counted.coding
  <2>1. CASE I = {}
    BY <1>3, <2>1
  <2>2. CASE I # {}
    <3>1. v \in Variants
      BY <2>2 DEF Rebuilt, Rebuildable
    <3>2. I \in SUBSET Index
      BY DEF Rebuilt, MissingIn
    <3>3. QED
      BY <1>3, <2>2, <3>1, <3>2, FillAdds
  <2>3. QED
    BY <2>1, <2>2
<1>5. t = IF MissingIn(filled, R) = {} THEN [filled EXCEPT !.coding[f] = NoCoding] ELSE filled
  BY DEF Recover
<1> HIDE DEF filled, counted, t, R
<1>6. CASE MissingIn(filled, R) = {}
  <2>1. NoCoding \in CodingSet
    BY DEF NoCoding, CodingSet
  <2>2. t = [filled EXCEPT !.coding[f] = NoCoding]
    BY <1>5, <1>6
  <2>3. t.coding = [filled.coding EXCEPT ![f] = NoCoding]
    BY <1>4, <2>1, <2>2, SetCoding
  <2>4. filled.coding \in [Index -> CodingSet]
    BY <1>4 DEF SlotState
  <2>5. QED
    BY <1>3, <1>4, <2>3, <2>4 DEF t
<1>7. CASE MissingIn(filled, R) # {}
  <2>1. t = filled
    BY <1>5, <1>7
  <2>2. QED
    BY <1>3, <1>4, <1>7, <2>1 DEF t, R
<1>8. QED
  BY <1>6, <1>7

LEMMA RebuiltInSet ==
  ASSUME NEW st \in SlotState, NEW f \in Index, CodingNum(st)
  PROVE  Rebuilt(st, f) \subseteq FecSetOf(f)
<1>1. CASE Rebuilt(st, f) = {}
  BY <1>1
<1>2. CASE Rebuilt(st, f) # {}
  <2>1. st.coding[f].num > 0 /\ Rebuilt(st, f) \subseteq FecRange(f, st.coding[f].num)
    BY <1>2 DEF Rebuilt, CanRecover, MissingIn
  <2>2. QED
    BY <2>1, RangeIsFecSet
<1>3. QED
  BY <1>1, <1>2

\* Recovery of the set that may have become whole leaves no idle coding set.
LEMMA RecoverIdle ==
  ASSUME NEW st \in SlotState, NEW f \in Index, CodingNum(st), IdleFreeBut(st, {f})
  PROVE  IdleFree(Recover(st, f))
<1> DEFINE t == Recover(st, f)
<1>1. t \in SlotState /\ Extends(st, t, Rebuilt(st, f))
  BY RecoverAdds
<1>2. /\ \A g \in Index \ {f} : t.coding[g] = st.coding[g]
      /\ \/ t.coding[f] = NoCoding
         \/ t.coding[f].num = st.coding[f].num /\ MissingIn(t, FecRange(f, st.coding[f].num)) # {}
  BY RecoverCoding
<1> HIDE DEF t
<1>3. IdleFreeBut(t, {f} \cup {f})
  BY <1>1, <1>2, RebuiltInSet, FillIdle
<1>4. t.coding[f].num > 0 => Awaits(t, f)
  BY <1>2 DEF Awaits, NoCoding
<1>5. IdleFree(t)
  BY <1>3, <1>4 DEF IdleFree, IdleFreeBut
<1>6. QED
  BY <1>5 DEF t

\* insert_coding_shred keeps a shred only of a set that misses a data shred.
LEMMA AddCodingIdle ==
  ASSUME NEW st \in SlotState, NEW f \in Index, NEW j \in CodeIndexes, NEW v \in Variants,
         IdleFree(st)
  PROVE  IdleFree(AddCoding(st, f, j, v))
<1> DEFINE n == NumDataShreds(f)
           old == st.coding[f]
           first == [num |-> n, shreds |-> {<<j, v>>}, attempts |-> 0]
           next == [old EXCEPT !.shreds = @ \cup {<<j, v>>}]
           t == AddCoding(st, f, j, v)
<1>1. n \in Nat /\ old \in CodingSet /\ st.coding \in [Index -> CodingSet]
  BY FiniteIndexes DEF NumDataShreds, SlotState
<1>2. first \in CodingSet /\ first.num = n /\ next \in CodingSet /\ next.num = old.num
  BY <1>1 DEF CodingSet
<1>3. \/ t = st
      \/ t = [st EXCEPT !.coding[f] = first] /\ MissingIn(st, FecRange(f, n)) # {}
      \/ t = [st EXCEPT !.coding[f] = next] /\ old.num # 0
  <2>1. [st EXCEPT !.coding[f] = next] = [st EXCEPT !.coding[f].shreds = @ \cup {<<j, v>>}]
    OBVIOUS
  <2>2. QED
    BY <2>1 DEF AddCoding
<1> HIDE DEF t, first, next
<1>4. ASSUME NEW c \in CodingSet, t = [st EXCEPT !.coding[f] = c],
             MissingIn(st, FecRange(f, c.num)) # {}
      PROVE  IdleFree(t)
  <2>1. t.data = st.data /\ t.coding = [st.coding EXCEPT ![f] = c]
    BY <1>4, SetCoding DEF SameButCoding
  <2>2. \A R : MissingIn(t, R) = MissingIn(st, R)
    BY <2>1 DEF MissingIn
  <2>3. \A g \in Index : t.coding[g] = IF g = f THEN c ELSE st.coding[g]
    BY <1>1, <2>1
  <2>4. QED
    BY <1>4, <2>2, <2>3 DEF IdleFree, IdleFreeBut, Awaits
<1>5. old.num # 0 => MissingIn(st, FecRange(f, old.num)) # {}
  BY <1>1 DEF IdleFree, IdleFreeBut, Awaits, CodingSet
<1>6. IdleFree(t)
  BY <1>2, <1>3, <1>4, <1>5
<1>7. QED
  BY <1>6 DEF t

\* Handing data sets out misses no shred more or less, and finishing keeps nothing.
LEMMA TakeIdle ==
  ASSUME NEW st \in SlotState, NEW D, Covered(D) \subseteq Held(st), IdleFree(st)
  PROVE  IdleFree(TakeDataSets(st, D))
<1> DEFINE t == TakeDataSets(st, D)
           data == [i \in Index |-> IF i \in Covered(D) THEN Emitted ELSE st.data[i]]
           retained(f) == FecRange(f, st.coding[f].num) \cap Covered(D) # {}
                             => MissingIn(st, FecRange(f, st.coding[f].num)) # {}
           coding == [f \in Index |-> IF retained(f) THEN st.coding[f] ELSE NoCoding]
<1>1. CASE D = {}
  BY <1>1 DEF TakeDataSets
<1>2. CASE D # {} /\ FinishedBy(st, D)
  <2>1. \A f \in Index : t.coding[f] = NoCoding
    BY <1>2 DEF TakeDataSets, NewState
  <2>2. QED
    BY <2>1 DEF IdleFree, IdleFreeBut, NoCoding
<1>3. CASE D # {} /\ ~FinishedBy(st, D)
  <2>1. t = [st EXCEPT !.data = data, !.emitted = @ + Cardinality(Covered(D)), !.coding = coding]
    BY <1>3 DEF TakeDataSets
  <2>2. t.data = data /\ t.coding = coding
    BY <2>1 DEF SlotState
  <2> HIDE DEF t
  <2>3. \A R : MissingIn(t, R) = MissingIn(st, R)
    BY <2>2, DataShredAssumption DEF MissingIn, Held
  <2>4. \A f \in Index : t.coding[f] = st.coding[f] \/ t.coding[f] = NoCoding
    BY <2>2
  <2>5. IdleFree(t)
    BY <2>3, <2>4 DEF IdleFree, IdleFreeBut, Awaits, NoCoding
  <2>6. QED
    BY <2>5 DEF t
<1>4. QED
  BY <1>1, <1>2, <1>3

LEMMA NewStateIdle == \A s : IdleFree(NewState(s))
BY DEF NewState, IdleFree, IdleFreeBut, NoCoding

LEMMA StateForIdle ==
  ASSUME IInv, NoIdleCoding, NEW s \in Slots
  PROVE  IdleFree(StateFor(s))
<1>1. Residue(s) \in DOMAIN slots
  BY RingIndexes DEF IInv, TypeOK
<1>2. IdleFree(slots[Residue(s)])
  BY <1>1 DEF NoIdleCoding, IdleFree, IdleFreeBut, Awaits
<1>3. QED
  BY <1>2, NewStateIdle DEF StateFor

LEMMA SettleIdle ==
  ASSUME IInv, NoIdleCoding, NEW s \in Slots, NEW st \in SlotState, NEW f \in Index,
         NEW fresh, NEW sh, CodingNum(st), IdleFreeBut(st, {f}), Settle(st, s, f, fresh, sh)
  PROVE  NoIdleCoding'
<1> DEFINE t == Recover(st, f)
           R == IF Rebuilt(st, f) # {} THEN FecRange(f, st.coding[f].num) ELSE fresh
           D == CompletedSets(t, R)
           u == TakeDataSets(t, D)
<1>1. t \in SlotState /\ IdleFree(t)
  BY RecoverAdds, RecoverIdle
<1>2. IdleFree(u)
  <2>1. Covered(D) \subseteq Held(t)
    BY <1>1, CompletedSetsAreHeld
  <2>2. QED
    BY <1>1, <2>1, TakeIdle
<1>3. slots' = [slots EXCEPT ![Residue(s)] = u]
  BY DEF Settle
<1> HIDE DEF u
<1>4. \A r \in DOMAIN slots' : r \in DOMAIN slots /\ (slots'[r] = slots[r] \/ slots'[r] = u)
  BY <1>3
<1>5. \A r \in DOMAIN slots : IdleFree(slots[r])
  BY DEF NoIdleCoding, IdleFree, IdleFreeBut, Awaits
<1>6. \A r \in DOMAIN slots' : IdleFree(slots'[r])
  BY <1>2, <1>4, <1>5
<1>7. QED
  BY <1>6 DEF NoIdleCoding, IdleFree, IdleFreeBut, Awaits

LEMMA NextNoIdle == IInv /\ NoIdleCoding /\ [Next]_vars => NoIdleCoding'
<1> SUFFICES ASSUME IInv, NoIdleCoding, [Next]_vars
             PROVE  NoIdleCoding'
  OBVIOUS
<1>1. ASSUME UNCHANGED slots
      PROVE  NoIdleCoding'
  BY <1>1 DEF NoIdleCoding
<1>2. ASSUME NEW s \in Slots, NEW v \in Variants, NEW i \in Layout[v].shreds,
             InsertDataShred(s, v, i)
      PROVE  NoIdleCoding'
  <2> DEFINE base == StateFor(s)
             f == FecOf[i]
             I == MissingIn(base, {i})
             st == Fill(base, {i}, v)
             sh == [kind |-> "data", variant |-> v, fec |-> f, index |-> i]
  <2>1. i \in Index /\ f \in Index
    BY LayoutAssumption, FecAssumption
  <2>2. ~Ignores(s) /\ Settle(st, s, f, I, sh)
    BY <1>2 DEF InsertDataShred
  <2>3. base \in SlotState /\ CodingNum(base) /\ IdleFree(base)
    BY <2>2, StateForSlot, StateForIdle
  <2>4. st \in SlotState /\ Extends(base, st, I) /\ st.coding = base.coding
    BY <2>1, <2>3, FillAdds
  <2>5. CodingNum(st)
    BY <2>3, <2>4 DEF CodingNum
  <2>6. I \subseteq FecSetOf(f)
    BY DEF MissingIn, FecSetOf
  <2> HIDE DEF st, base, I, sh, f
  <2>7. IdleFreeBut(st, {} \cup {f})
    BY <2>1, <2>3, <2>4, <2>6, FillIdle DEF IdleFree
  <2>8. IdleFreeBut(st, {f})
    BY <2>7 DEF IdleFreeBut
  <2>9. QED
    BY <2>1, <2>2, <2>4, <2>5, <2>8, SettleIdle
<1>3. ASSUME NEW s \in Slots, NEW v \in Variants, NEW j \in CodeIndexes, NEW i \in Layout[v].shreds,
             InsertCodingShred(s, v, FecOf[i], j)
      PROVE  NoIdleCoding'
  <2> DEFINE base == StateFor(s)
             f == FecOf[i]
             st == AddCoding(base, f, j, v)
             sh == [kind |-> "code", variant |-> v, fec |-> f, index |-> j]
  <2>1. f \in Index
    BY LayoutAssumption, FecAssumption
  <2>2. ~Ignores(s) /\ Settle(st, s, f, {}, sh)
    BY <1>3 DEF InsertCodingShred
  <2>3. base \in SlotState /\ CodingNum(base) /\ IdleFree(base)
    BY <2>2, StateForSlot, StateForIdle
  <2>4. st \in SlotState /\ CodingNum(st) /\ IdleFree(st)
    BY <2>1, <2>3, AddCodingKeeps, AddCodingIdle
  <2> HIDE DEF st, sh, f
  <2>5. IdleFreeBut(st, {f})
    BY <2>4 DEF IdleFree, IdleFreeBut
  <2>6. QED
    BY <2>1, <2>2, <2>4, <2>5, SettleIdle
<1>4. QED
  BY <1>1, <1>2, <1>3 DEF Next, Discard, vars

\* A coding set is kept only while its FEC set misses a data shred.
THEOREM CodingDropped == Spec => []NoIdleCoding
<1>1. Init => NoIdleCoding
  <2>1. Init => \A r \in DOMAIN slots : IdleFree(slots[r])
    BY NewStateIdle DEF Init
  <2>2. QED
    BY <2>1 DEF NoIdleCoding, IdleFree, IdleFreeBut, Awaits
<1>2. IInv /\ NoIdleCoding /\ [Next]_vars => NoIdleCoding'
  BY NextNoIdle
<1>3. QED
  BY <1>1, <1>2, Inductive, PTL DEF Spec

-----------------------------------------------------------------------------
(* The end of a slot is recognised by a count alone.  The count decides
   because all shreds that are held or handed out lie below the last index;
   a leader who signs versions of different lengths breaks just this. *)

EndsAt(l) ==
    \A v \in Variants :
        /\ Layout[v].last \in {l, NoIndex}
        /\ \A i \in Layout[v].shreds : FecSetOf(FecOf[i]) \subseteq 0..l

\* Every version of a slot that names a last index names the same one, and the FEC sets
\* cut no shred beyond it.
OneEnd == \E l \in Index : EndsAt(l)

End == CHOOSE l \in Index : EndsAt(l)

Within(st) ==
    /\ Held(st) \subseteq 0..End
    /\ EmittedIn(st) \subseteq 0..End
    /\ st.last \in {NoIndex, End}
    /\ \A f \in Index : st.coding[f].num > 0 => FecSetOf(f) \subseteq 0..End

EndInv ==
    /\ \A r \in DOMAIN slots : /\ Within(slots[r])
                               /\ slots[r].finished => slots[r].slot # NoIndex
    /\ FinishedIsComplete

LEMMA EndExists == OneEnd => End \in Index /\ EndsAt(End)
BY DEF OneEnd, End

LEMMA NewStateWithin ==
  ASSUME NEW s \in Slots \cup {NoIndex}
  PROVE  Within(NewState(s)) /\ ~NewState(s).finished
<1>1. \A f \in Index : NewState(s).coding[f].num = 0
  BY DEF NewState, NoCoding
<1>2. QED
  BY <1>1, NewStateType DEF Within

LEMMA ExtendsWithin ==
  ASSUME OneEnd, NEW st, NEW t, NEW I, Within(st), Extends(st, t, I), I \subseteq 0..End,
         \A f \in Index : t.coding[f].num > 0 => FecSetOf(f) \subseteq 0..End
  PROVE  Within(t)
<1>1. \A v \in Variants : Layout[v].last \in {NoIndex, End}
  BY EndExists DEF EndsAt
<1>2. QED
  BY <1>1 DEF Within, Extends

LEMMA AddCodingNum ==
  ASSUME NEW st \in SlotState, NEW f \in Index, NEW j \in CodeIndexes, NEW v \in Variants
  PROVE  \A g \in Index \ {f} : AddCoding(st, f, j, v).coding[g] = st.coding[g]
<1> DEFINE n == NumDataShreds(f)
           old == st.coding[f]
           first == [num |-> n, shreds |-> {<<j, v>>}, attempts |-> 0]
           next == [old EXCEPT !.shreds = @ \cup {<<j, v>>}]
           t == AddCoding(st, f, j, v)
<1>1. n \in Nat /\ old \in CodingSet /\ st.coding \in [Index -> CodingSet]
  BY FiniteIndexes DEF NumDataShreds, SlotState
<1>2. first \in CodingSet /\ next \in CodingSet
  BY <1>1 DEF CodingSet
<1>3. \/ t = st
      \/ t = [st EXCEPT !.coding[f] = first]
      \/ t = [st EXCEPT !.coding[f] = next]
  <2>1. [st EXCEPT !.coding[f] = next] = [st EXCEPT !.coding[f].shreds = @ \cup {<<j, v>>}]
    OBVIOUS
  <2>2. QED
    BY <2>1 DEF AddCoding
<1> HIDE DEF t, first, next
<1>4. ASSUME NEW c \in CodingSet, t = [st EXCEPT !.coding[f] = c]
      PROVE  \A g \in Index \ {f} : t.coding[g] = st.coding[g]
  <2>1. t.coding = [st.coding EXCEPT ![f] = c]
    BY <1>4, SetCoding
  <2>2. QED
    BY <1>1, <2>1
<1>5. \A g \in Index \ {f} : t.coding[g] = st.coding[g]
  BY <1>2, <1>3, <1>4
<1>6. QED
  BY <1>5 DEF t

\* A slot that the count declares finished has handed out everything up to its last shred.
LEMMA CountDecides ==
  ASSUME OneEnd, NEW E \in SUBSET Index, E \subseteq 0..End, Cardinality(E) = End + 1
  PROVE  E = 0..End
<1> DEFINE n == End
           W == 0..n
<1>1. n \in Nat
  BY EndExists DEF Index
<1> HIDE DEF n
<1>2. IsFiniteSet(W) /\ Cardinality(W) = n + 1
  <2>1. 0 \in Int /\ n \in Int /\ ~(0 > n)
    BY <1>1
  <2>2. Cardinality(W) = n - 0 + 1
    BY <2>1, FS_Interval
  <2>3. QED
    BY <2>1, <2>2, FS_Interval
<1>3. E \subseteq W /\ Cardinality(E) = Cardinality(W)
  BY <1>2 DEF n
<1> HIDE DEF W
<1>4. E = W
  BY <1>2, <1>3, FS_Subset
<1>5. QED
  BY <1>4 DEF W, n

\* One call, on the state of its slot: everything stays below the end, and a slot that
\* finishes is complete.
LEMMA SettleWithin ==
  ASSUME OneEnd, NEW base \in SlotState, NEW st \in SlotState, NEW f \in Index,
         NEW fresh \in SUBSET Index, NEW K, NEW R,
         Extends(base, st, fresh), CodingNum(st), ~base.finished, Within(st),
         EmittedIn(base) = Covered(K), base.emitted = Cardinality(Covered(K))
  PROVE  LET t == Recover(st, f)
             D == CompletedSets(t, R)
             u == TakeDataSets(t, D)
         IN  /\ Within(u)
             /\ u.finished => Covered(K \cup D) = 0..u.last
<1> DEFINE t == Recover(st, f)
           I == Rebuilt(st, f)
           D == CompletedSets(t, R)
           u == TakeDataSets(t, D)
<1>1. t \in SlotState /\ CodingNum(t) /\ Extends(st, t, I) /\ I \subseteq Index
  BY RecoverAdds DEF MissingIn
<1>2. \A g \in Index : t.coding[g].num > 0 => FecSetOf(g) \subseteq 0..End
  <2>1. \A g \in Index : t.coding[g].num > 0 => st.coding[g].num > 0
    <3>1. /\ \A g \in Index \ {f} : t.coding[g] = st.coding[g]
          /\ t.coding[f] = NoCoding \/ t.coding[f].num = st.coding[f].num
      BY RecoverCoding
    <3> HIDE DEF t
    <3>2. QED
      BY <3>1 DEF NoCoding
  <2>2. QED
    BY <2>1 DEF Within
<1>3. I \subseteq 0..End
  <2>1. CASE I = {}
    BY <2>1
  <2>2. CASE I # {}
    <3>1. st.coding[f].num > 0
      BY <2>2 DEF Rebuilt, CanRecover
    <3>2. I \subseteq FecSetOf(f)
      BY RebuiltInSet
    <3>3. QED
      BY <3>1, <3>2 DEF Within
  <2>3. QED
    BY <2>1, <2>2
<1>4. Within(t)
  <2> HIDE DEF t, I
  <2>1. QED
    BY <1>1, <1>2, <1>3, ExtendsWithin
<1>5. /\ D \in SUBSET DataSets(t.ends) /\ Covered(D) \subseteq Held(t)
      /\ EmittedIn(t) = Covered(K) /\ t.emitted = Cardinality(Covered(K)) /\ ~t.finished
  <2>1. D \in SUBSET DataSets(t.ends) /\ Covered(D) \subseteq Held(t)
    BY <1>1, CompletedSetsAreHeld
  <2>2. EmittedIn(t) = Covered(K) /\ t.emitted = Cardinality(Covered(K)) /\ ~t.finished
    BY <1>1 DEF Extends
  <2>3. QED
    BY <2>1, <2>2
<1>6. CASE D = {}
  <2>1. u = t
    BY <1>6 DEF TakeDataSets
  <2>2. QED
    BY <1>4, <1>5, <2>1
<1>7. CASE D # {}
  <2>1. /\ u \in SlotState /\ u.last = t.last
        /\ u.finished <=> FinishedBy(t, D)
        /\ u.finished => Held(u) = {}
        /\ ~u.finished => /\ EmittedIn(u) = EmittedIn(t) \cup Covered(D)
                          /\ Held(u) = Held(t) \ Covered(D)
    BY <1>1, <1>5, <1>7, TakeDataSetsEmits
  <2>2. \A g \in Index : u.coding[g] = t.coding[g] \/ u.coding[g] = NoCoding
    <3>1. CASE FinishedBy(t, D)
      BY <1>7, <3>1 DEF TakeDataSets, NewState
    <3>2. CASE ~FinishedBy(t, D)
      <4> DEFINE kept(g) == FecRange(g, t.coding[g].num) \cap Covered(D) # {}
                               => MissingIn(t, FecRange(g, t.coding[g].num)) # {}
                 coding == [g \in Index |-> IF kept(g) THEN t.coding[g] ELSE NoCoding]
                 data == [i \in Index |-> IF i \in Covered(D) THEN Emitted ELSE t.data[i]]
      <4>1. u = [t EXCEPT !.data = data, !.emitted = @ + Cardinality(Covered(D)), !.coding = coding]
        BY <1>7, <3>2 DEF TakeDataSets
      <4>2. u.coding = coding
        BY <1>1, <4>1 DEF SlotState
      <4>3. QED
        BY <4>2
    <3>3. QED
      BY <3>1, <3>2
  <2>3. FinishedBy(t, D) => EmittedIn(u) = {}
    BY <1>7, DataShredAssumption DEF TakeDataSets, NewState, EmittedIn
  <2> HIDE DEF u, D, t, I
  <2>4. Within(u)
    <3>1. \A g \in Index : u.coding[g].num > 0 => FecSetOf(g) \subseteq 0..End
      BY <1>2, <2>2 DEF NoCoding
    <3>2. Held(u) \subseteq 0..End /\ EmittedIn(u) \subseteq 0..End
      BY <1>4, <1>5, <2>1, <2>3 DEF Within
    <3>3. QED
      BY <1>4, <2>1, <3>1, <3>2 DEF Within
  <2>5. ASSUME u.finished
        PROVE  Covered(K \cup D) = 0..u.last
    <3>1. t.last # NoIndex /\ t.emitted + Cardinality(Covered(D)) = t.last + 1
      BY <2>1, <2>5 DEF FinishedBy
    <3>2. t.last = End
      BY <1>4, <3>1 DEF Within
    <3>3. Covered(K \cup D) = Covered(K) \cup Covered(D) /\ Covered(K) \cap Covered(D) = {}
      BY <1>5, CoveredUnion, DataShredAssumption DEF EmittedIn, Held
    <3>4. Covered(K) \subseteq Index /\ Covered(D) \subseteq Index
      BY <1>5 DEF EmittedIn, Held
    <3>5. Cardinality(Covered(K \cup D)) = End + 1
      BY ZenonT(30), <1>5, <3>1, <3>2, <3>3, <3>4, DisjointSizes
    <3>6. Covered(K \cup D) \subseteq 0..End
      BY <1>4, <1>5, <3>3 DEF Within
    <3> DEFINE E == Covered(K \cup D)
    <3>7. E \in SUBSET Index /\ E \subseteq 0..End /\ Cardinality(E) = End + 1
      BY <3>3, <3>4, <3>5, <3>6
    <3> HIDE DEF E
    <3>8. E = 0..End
      BY <3>7, CountDecides
    <3>9. QED
      BY <2>1, <3>2, <3>8 DEF E
  <2>6. QED
    BY <2>4, <2>5 DEF u, D, t
<1>8. QED
  BY <1>6, <1>7

LEMMA StateForWithin ==
  ASSUME IInv, EndInv, NEW s \in Slots
  PROVE  Within(StateFor(s))
<1>1. Residue(s) \in DOMAIN slots
  BY RingIndexes DEF IInv, TypeOK
<1>2. QED
  BY <1>1, NewStateWithin DEF EndInv, StateFor

LEMMA SettleEnd ==
  ASSUME OneEnd, IInv, EndInv, NEW s \in Slots, ~Ignores(s), NEW st \in SlotState,
         NEW f \in Index, NEW fresh \in SUBSET Index, NEW sh,
         Extends(StateFor(s), st, fresh), CodingNum(st), Within(st), OneOf(fresh, f),
         Settle(st, s, f, fresh, sh)
  PROVE  EndInv'
<1> DEFINE base == StateFor(s)
           K == consumed[s]
           t == Recover(st, f)
           R == IF Rebuilt(st, f) # {} THEN FecRange(f, st.coding[f].num) ELSE fresh
           D == CompletedSets(t, R)
           u == TakeDataSets(t, D)
<1>1. /\ base \in SlotState /\ base.slot = s /\ ~base.finished /\ NoCompleteIn(base)
      /\ EmittedIn(base) = Covered(K) /\ base.emitted = Cardinality(Covered(K))
  BY StateForSlot
<1>2. u.slot = s
  <2>1. Settled(base, st, f, fresh, K)
    BY <1>1, SettleState
  <2>2. QED
    BY <1>1, <2>1 DEF Settled
<1>3. Within(u) /\ (u.finished => Covered(K \cup D) = 0..u.last)
  <2> HIDE DEF R, K, base
  <2>1. Extends(base, st, fresh)
    BY DEF base
  <2>2. QED
    BY <1>1, <2>1, SettleWithin
<1>4. /\ slots' = [slots EXCEPT ![Residue(s)] = u]
      /\ consumed' = [consumed EXCEPT ![s] = @ \cup D]
  BY DEF Settle
<1>5. /\ slots \in [0..(HistorySize - 1) -> SlotState]
      /\ consumed \in [Slots -> SUBSET (Index \X Index)]
      /\ Residue(s) \in DOMAIN slots
      /\ s # NoIndex
  BY RingIndexes DEF IInv, TypeOK
<1> HIDE DEF u, D, K
<1>6. \A r \in DOMAIN slots' : r \in DOMAIN slots /\ slots'[r] = IF r = Residue(s) THEN u ELSE slots[r]
  BY <1>4, <1>5
<1>7. \A r \in DOMAIN slots' : Within(slots'[r]) /\ (slots'[r].finished => slots'[r].slot # NoIndex)
  BY <1>2, <1>3, <1>5, <1>6 DEF EndInv
<1>8. ASSUME NEW r \in DOMAIN slots', slots'[r].finished
      PROVE  Covered(consumed'[slots'[r].slot]) = 0..slots'[r].last
  <2>1. CASE r = Residue(s)
    <3>1. slots'[r] = u /\ consumed'[s] = K \cup D
      BY <1>4, <1>5, <1>6, <2>1 DEF K
    <3>2. QED
      BY <1>2, <1>3, <1>8, <3>1
  <2>2. CASE r # Residue(s)
    <3>1. slots'[r] = slots[r] /\ r \in DOMAIN slots
      BY <1>6, <2>2
    <3>2. slots[r].slot # s
      BY <1>5, <2>2, <3>1 DEF IInv, RingInv
    <3>3. slots[r].slot \in Slots
      BY <1>5, <1>8, <3>1 DEF EndInv, SlotState
    <3>4. consumed'[slots[r].slot] = consumed[slots[r].slot]
      BY <1>4, <1>5, <3>2, <3>3
    <3>5. QED
      BY <1>8, <3>1, <3>4 DEF EndInv, FinishedIsComplete
  <2>3. QED
    BY <2>1, <2>2
<1>9. FinishedIsComplete'
  BY <1>8 DEF FinishedIsComplete
<1>10. QED
  BY <1>7, <1>9 DEF EndInv

LEMMA NextEnd == OneEnd /\ IInv /\ EndInv /\ [Next]_vars => EndInv'
<1> SUFFICES ASSUME OneEnd, IInv, EndInv, [Next]_vars
             PROVE  EndInv'
  OBVIOUS
<1>1. ASSUME UNCHANGED slots, UNCHANGED consumed
      PROVE  EndInv'
  BY <1>1 DEF EndInv, FinishedIsComplete
<1>2. ASSUME NEW s \in Slots, NEW v \in Variants, NEW i \in Layout[v].shreds,
             InsertDataShred(s, v, i)
      PROVE  EndInv'
  <2> DEFINE base == StateFor(s)
             f == FecOf[i]
             I == MissingIn(base, {i})
             st == Fill(base, {i}, v)
             sh == [kind |-> "data", variant |-> v, fec |-> f, index |-> i]
  <2>1. i \in Index /\ f \in Index /\ FecSetOf(f) \subseteq 0..End
    BY LayoutAssumption, FecAssumption, EndExists DEF EndsAt
  <2>2. ~Ignores(s) /\ Settle(st, s, f, I, sh)
    BY <1>2 DEF InsertDataShred
  <2>3. base \in SlotState /\ CodingNum(base) /\ Within(base)
    BY <2>2, StateForSlot, StateForWithin
  <2>4. st \in SlotState /\ Extends(base, st, I) /\ st.coding = base.coding
    BY <2>1, <2>3, FillAdds
  <2>5. CodingNum(st)
    BY <2>3, <2>4 DEF CodingNum
  <2>6. I \subseteq FecSetOf(f) /\ I \in SUBSET Index /\ OneOf(I, f)
    BY <2>1 DEF MissingIn, FecSetOf, OneOf
  <2> HIDE DEF st, I, sh, f
  <2>7. Within(st)
    <3>1. I \subseteq 0..End
      BY <2>1, <2>6
    <3>2. \A g \in Index : st.coding[g].num > 0 => FecSetOf(g) \subseteq 0..End
      BY <2>3, <2>4 DEF Within
    <3>3. QED
      BY <2>3, <2>4, <3>1, <3>2, ExtendsWithin
  <2>8. QED
    BY <2>1, <2>2, <2>4, <2>5, <2>6, <2>7, SettleEnd
<1>3. ASSUME NEW s \in Slots, NEW v \in Variants, NEW j \in CodeIndexes, NEW i \in Layout[v].shreds,
             InsertCodingShred(s, v, FecOf[i], j)
      PROVE  EndInv'
  <2> DEFINE base == StateFor(s)
             f == FecOf[i]
             st == AddCoding(base, f, j, v)
             sh == [kind |-> "code", variant |-> v, fec |-> f, index |-> j]
  <2>1. f \in Index /\ FecSetOf(f) \subseteq 0..End
    BY LayoutAssumption, FecAssumption, EndExists DEF EndsAt
  <2>2. ~Ignores(s) /\ Settle(st, s, f, {}, sh)
    BY <1>3 DEF InsertCodingShred
  <2>3. base \in SlotState /\ CodingNum(base) /\ Within(base)
    BY <2>2, StateForSlot, StateForWithin
  <2>4. st \in SlotState /\ CodingNum(st) /\ SameButCoding(base, st)
    BY <2>1, <2>3, AddCodingKeeps
  <2>5. \A g \in Index \ {f} : st.coding[g] = base.coding[g]
    BY <2>1, <2>3, AddCodingNum
  <2> HIDE DEF st, sh, f
  <2>6. Extends(base, st, {})
    BY <2>4, SameButCodingExtends
  <2>7. Within(st)
    <3>1. \A g \in Index : st.coding[g].num > 0 => FecSetOf(g) \subseteq 0..End
      BY <2>1, <2>3, <2>5 DEF Within
    <3>2. QED
      BY <2>3, <2>6, <3>1, ExtendsWithin
  <2>8. OneOf({}, f)
    BY DEF OneOf
  <2>9. QED
    BY <2>1, <2>2, <2>4, <2>6, <2>7, <2>8, SettleEnd
<1>4. QED
  BY <1>1, <1>2, <1>3 DEF Next, Discard, vars

\* When the versions of a slot agree on its last index, a slot is marked finished, and drops
\* its shreds for good, only when every data shred up to that index was handed out.
THEOREM FinishedSlotsComplete ==
  ASSUME OneEnd
  PROVE  Spec => []FinishedIsComplete
<1>1. Init => EndInv
  <2>1. Init => \A r \in DOMAIN slots : slots[r] = NewState(NoIndex)
    BY DEF Init
  <2>2. QED
    BY <2>1, NewStateWithin DEF EndInv, FinishedIsComplete
<1>2. IInv /\ EndInv /\ [Next]_vars => EndInv'
  BY NextEnd
<1>3. EndInv => FinishedIsComplete
  BY DEF EndInv
<1>4. QED
  BY <1>1, <1>2, <1>3, Inductive, PTL DEF Spec

-----------------------------------------------------------------------------
(* The refinement. *)

Ends == UNION {Layout[v].ends : v \in Variants}

\* The leader signs one version of a slot, ends every data set with a FEC set, as the
\* network's shredder does, and cuts no shred beyond the last one.  Recovery is tried.
Honest ==
    /\ \A v, w \in Variants : v = w
    /\ \A e \in Ends : \A i, j \in Index : FecOf[i] = FecOf[j] /\ i <= e => j <= e
    /\ OneEnd
    /\ MaxAttempts > 0

DataShred(f, i) == [kind |-> "data", fec |-> f, index |-> i]
CodeShred(f, j) == [kind |-> "code", fec |-> f, index |-> j]

\* The shreds of FEC set f in A, and the indexes of its data and of its coding shreds there.
Of(A, f) == {sh \in A : sh.fec = f}
Data(A, f) == {i \in FecSetOf(f) : DataShred(f, i) \in A}
Codes(A, f) == {j \in CodeIndexes : CodeShred(f, j) \in A}

\* A finite set of shreds of the slot.
WellFormed(A) ==
    /\ IsFiniteSet(A)
    /\ \A sh \in A : \/ \E i \in Index : sh = DataShred(FecOf[i], i)
                     \/ \E f \in Index, j \in CodeIndexes : sh = CodeShred(f, j)

\* What A makes known of FEC set f.
KnownIn(A, f) ==
    IF Cardinality(Of(A, f)) >= Cardinality(FecSetOf(f)) THEN FecSetOf(f) ELSE Data(A, f)

-----------------------------------------------------------------------------
(* Sets of shreds. *)

LEMMA SplitCount ==
  ASSUME NEW A, WellFormed(A), NEW f \in Index
  PROVE  /\ IsFiniteSet(Codes(A, f)) /\ Cardinality(Codes(A, f)) \in Nat
         /\ IsFiniteSet(Data(A, f)) /\ Cardinality(Data(A, f)) \in Nat
         /\ Cardinality(Of(A, f)) = Cardinality(Data(A, f)) + Cardinality(Codes(A, f))
<1> DEFINE ofData == {DataShred(f, i) : i \in Data(A, f)}
           ofCode == {CodeShred(f, j) : j \in Codes(A, f)}
           index == [sh \in Of(A, f) |-> sh.index]
<1>1. ofData \cup ofCode = Of(A, f) /\ ofData \cap ofCode = {}
  <2>1. ASSUME NEW sh \in Of(A, f)
        PROVE  sh \in ofData \cup ofCode
    <3>1. CASE \E i \in Index : sh = DataShred(FecOf[i], i)
      <4>1. PICK i \in Index : sh = DataShred(FecOf[i], i)
        BY <3>1
      <4>2. FecOf[i] = f
        BY <4>1 DEF Of, DataShred
      <4>3. i \in Data(A, f)
        BY <4>1, <4>2 DEF Of, Data, FecSetOf
      <4>4. QED
        BY <4>1, <4>2, <4>3
    <3>2. CASE \E g \in Index, j \in CodeIndexes : sh = CodeShred(g, j)
      <4>1. PICK g \in Index, j \in CodeIndexes : sh = CodeShred(g, j)
        BY <3>2
      <4>2. g = f
        BY <4>1 DEF Of, CodeShred
      <4>3. j \in Codes(A, f)
        BY <4>1, <4>2 DEF Of, Codes
      <4>4. QED
        BY <4>1, <4>2, <4>3
    <3>3. QED
      BY <3>1, <3>2 DEF WellFormed, Of
  <2>2. ofData \subseteq Of(A, f) /\ ofCode \subseteq Of(A, f)
    <3>1. \A i \in Data(A, f) : DataShred(f, i) \in A /\ DataShred(f, i).fec = f
      BY DEF Data, DataShred
    <3>2. \A j \in Codes(A, f) : CodeShred(f, j) \in A /\ CodeShred(f, j).fec = f
      BY DEF Codes, CodeShred
    <3>3. QED
      BY <3>1, <3>2 DEF Of
  <2>3. ofData \cap ofCode = {}
    BY DEF DataShred, CodeShred
  <2>4. QED
    BY <2>1, <2>2, <2>3
<1>2. IsFiniteSet(Of(A, f)) /\ IsFiniteSet(ofData) /\ IsFiniteSet(ofCode)
  <2>1. Of(A, f) \subseteq A /\ IsFiniteSet(A)
    BY DEF Of, WellFormed
  <2> HIDE DEF ofData, ofCode
  <2>2. QED
    BY <1>1, <2>1, FS_Subset
<1>3. /\ IsFiniteSet(Data(A, f)) /\ Cardinality(Data(A, f)) = Cardinality(ofData)
  <2> DEFINE g == [sh \in ofData |-> sh.index]
  <2>1. Data(A, f) = {g[sh] : sh \in ofData}
    <3>1. \A i \in Data(A, f) : g[DataShred(f, i)] = i
      BY DEF DataShred
    <3>2. QED
      BY <3>1
  <2>2. \A x, y \in ofData : g[x] = g[y] => x = y
    BY DEF DataShred
  <2>3. DOMAIN g = ofData /\ g = [x \in DOMAIN g |-> g[x]]
    OBVIOUS
  <2> HIDE DEF g, ofData
  <2>4. QED
    BY <1>2, <2>1, <2>2, <2>3, ImageSize
<1>4. /\ IsFiniteSet(Codes(A, f)) /\ Cardinality(Codes(A, f)) = Cardinality(ofCode)
  <2> DEFINE g == [sh \in ofCode |-> sh.index]
  <2>1. Codes(A, f) = {g[sh] : sh \in ofCode}
    <3>1. \A j \in Codes(A, f) : g[CodeShred(f, j)] = j
      BY DEF CodeShred
    <3>2. QED
      BY <3>1
  <2>2. \A x, y \in ofCode : g[x] = g[y] => x = y
    BY DEF CodeShred
  <2>3. DOMAIN g = ofCode /\ g = [x \in DOMAIN g |-> g[x]]
    OBVIOUS
  <2> HIDE DEF g, ofCode
  <2>4. QED
    BY <1>2, <2>1, <2>2, <2>3, ImageSize
<1>5. Cardinality(ofData \cup ofCode) = Cardinality(ofData) + Cardinality(ofCode)
  <2> HIDE DEF ofData, ofCode
  <2>1. Cardinality(ofData \cap ofCode) = 0
    BY <1>1, FS_EmptySet
  <2>2. Cardinality(ofData) \in Nat /\ Cardinality(ofCode) \in Nat
    BY <1>2, FS_CardinalityType
  <2>3. Cardinality(ofData \cup ofCode)
          = Cardinality(ofData) + Cardinality(ofCode) - Cardinality(ofData \cap ofCode)
    BY <1>2, FS_Union
  <2>4. QED
    BY <2>1, <2>2, <2>3
<1>6. QED
  BY <1>1, <1>3, <1>4, <1>5, FS_CardinalityType

\* The abstract specification counts as this module does.
LEMMA SameCardinality == \A S : Reassembly!Cardinality(S) = Cardinality(S)
BY DEF Reassembly!Cardinality, Cardinality, Reassembly!IsFiniteSet, IsFiniteSet

\* The abstract specification's Known, one FEC set at a time.
LEMMA KnownBySet ==
  ASSUME NEW A, WellFormed(A), NEW f \in Index
  PROVE  Reassembly!Known(A) \cap FecSetOf(f) = KnownIn(A, f)
<1>1. ASSUME NEW i \in FecSetOf(f)
      PROVE  (\E sh \in A : sh.kind = "data" /\ sh.index = i) <=> i \in Data(A, f)
  <2>1. i \in Index /\ FecOf[i] = f
    BY DEF FecSetOf
  <2>2. ASSUME NEW sh \in A, sh.kind = "data", sh.index = i
        PROVE  DataShred(f, i) \in A
    BY <2>1, <2>2 DEF WellFormed, DataShred, CodeShred
  <2>3. DataShred(f, i).kind = "data" /\ DataShred(f, i).index = i
    BY DEF DataShred
  <2>4. QED
    BY <2>2, <2>3 DEF Data
<1>2. \A i \in FecSetOf(f) : i \in Index /\ FecOf[i] = f
  BY DEF FecSetOf
<1>3. Reassembly!FecSet(f) = FecSetOf(f)
  BY DEF Reassembly!FecSet, FecSetOf
<1>4. Data(A, f) \subseteq FecSetOf(f)
  BY DEF Data
<1>5. ASSUME NEW i \in FecSetOf(f)
      PROVE  i \in Reassembly!Known(A) <=>
               i \in Data(A, f) \/ Cardinality(Of(A, f)) >= Cardinality(FecSetOf(f))
  BY <1>1, <1>2, <1>3, SameCardinality DEF Reassembly!Known, Of
<1>6. QED
  BY <1>4, <1>5 DEF KnownIn

LEMMA KnownIndexes == \A A : Reassembly!Known(A) \subseteq Index
BY DEF Reassembly!Known

\* One more shred.
LEMMA AddShred ==
  ASSUME NEW A, WellFormed(A), NEW f \in Index, NEW sh, sh.fec = f,
         WellFormed(A \cup {sh})
  PROVE  /\ \A g \in Index \ {f} : /\ KnownIn(A \cup {sh}, g) = KnownIn(A, g)
                                   /\ Codes(A \cup {sh}, g) = Codes(A, g)
         /\ KnownIn(A, f) \subseteq KnownIn(A \cup {sh}, f)
<1> DEFINE B == A \cup {sh}
<1>1. \A g \in Index \ {f} : Of(B, g) = Of(A, g)
  BY DEF Of
<1>2. \A g \in Index \ {f} : Data(B, g) = Data(A, g) /\ Codes(B, g) = Codes(A, g)
  <2>1. \A g, i : DataShred(g, i).fec = g /\ CodeShred(g, i).fec = g
    BY DEF DataShred, CodeShred
  <2>2. QED
    BY <2>1 DEF Data, Codes
<1>3. KnownIn(A, f) \subseteq KnownIn(B, f)
  <2>1. Of(A, f) \subseteq Of(B, f) /\ Data(A, f) \subseteq Data(B, f) /\ Data(B, f) \subseteq FecSetOf(f)
    BY DEF Of, Data
  <2>2. IsFiniteSet(Of(B, f))
    <3>1. Of(B, f) \subseteq B /\ IsFiniteSet(B)
      BY DEF Of, WellFormed
    <3>2. QED
      BY <3>1, FS_Subset
  <2>3. Cardinality(Of(A, f)) <= Cardinality(Of(B, f))
    BY <2>1, <2>2, FS_Subset
  <2>4. Cardinality(Of(A, f)) \in Nat /\ Cardinality(Of(B, f)) \in Nat /\ Cardinality(FecSetOf(f)) \in Nat
    <3>1. Cardinality(FecSetOf(f)) \in Nat
      BY FiniteIndexes DEF FecSetOf
    <3>2. QED
      BY <2>1, <2>2, <3>1, FS_Subset, FS_CardinalityType
  <2> HIDE DEF B
  <2>5. QED
    BY <2>1, <2>3, <2>4 DEF KnownIn
<1>4. QED
  BY <1>1, <1>2, <1>3 DEF KnownIn

-----------------------------------------------------------------------------
(* What a slot state knows of the shreds that arrived. *)

Seen(st) == Held(st) \cup EmittedIn(st)

\* The coding set of f holds every coding shred of f in A, and recovery was not tried.
Awaiting(st, A, f) ==
    /\ st.coding[f].shreds = Codes(A, f) \X Variants
    /\ st.coding[f].attempts = 0
    /\ st.coding[f].num = IF Codes(A, f) = {} THEN 0 ELSE NumDataShreds(f)

SetTracked(st, A, f) ==
    /\ Seen(st) \cap FecSetOf(f) = KnownIn(A, f)
    /\ KnownIn(A, f) # FecSetOf(f) => Awaiting(st, A, f)

EndsExact(st) == st.ends = Ends \cap Seen(st)

Tracks(st, A) ==
    /\ EndsExact(st)
    /\ \A f \in Index : SetTracked(st, A, f)

\* The FEC set a shred belongs to, between the insertion of the shred and recovery: whole,
\* or with the shreds that arrived and none handed out.
Inserted(st, A, f) ==
    \/ Seen(st) \cap FecSetOf(f) = FecSetOf(f) /\ KnownIn(A, f) = FecSetOf(f)
    \/ /\ Seen(st) \cap FecSetOf(f) = Data(A, f)
       /\ EmittedIn(st) \cap FecSetOf(f) = {}
       /\ Awaiting(st, A, f)

LEMMA SeenIsKnown ==
  ASSUME NEW A, WellFormed(A), NEW st \in SlotState, \A f \in Index : SetTracked(st, A, f)
  PROVE  Seen(st) = Reassembly!Known(A)
<1>1. Seen(st) \subseteq Index /\ Reassembly!Known(A) \subseteq Index
  BY KnownIndexes DEF Seen, Held, EmittedIn
<1>2. \A i \in Index : FecOf[i] \in Index /\ i \in FecSetOf(FecOf[i])
  BY FecAssumption DEF FecSetOf
<1>3. \A i \in Index : i \in Seen(st) <=> i \in KnownIn(A, FecOf[i])
  BY <1>2 DEF SetTracked
<1>4. \A i \in Index : i \in Reassembly!Known(A) <=> i \in KnownIn(A, FecOf[i])
  BY <1>2, KnownBySet
<1>5. QED
  BY <1>1, <1>3, <1>4

LEMMA ExtendsSeen ==
  ASSUME NEW st, NEW t, NEW I, Extends(st, t, I)
  PROVE  Seen(t) = Seen(st) \cup I
BY DEF Extends, Seen

LEMMA MissingIsUnseen ==
  ASSUME NEW st \in SlotState, NEW R
  PROVE  MissingIn(st, R) = (R \cap Index) \ Seen(st)
BY MissingIsRest DEF Seen

\* With one version, the flags filled in are those of the shreds filled in.
LEMMA OneVersionEnds == ASSUME Honest, NEW v \in Variants PROVE Layout[v].ends = Ends
BY DEF Honest, Ends

LEMMA FillEnds ==
  ASSUME Honest, NEW st \in SlotState, NEW I \in SUBSET Index, NEW v \in Variants, EndsExact(st)
  PROVE  EndsExact(Fill(st, I, v))
<1> DEFINE t == Fill(st, I, v)
           new == MissingIn(st, I)
<1>1. t.ends = st.ends \cup (new \cap Ends)
  BY OneVersionEnds DEF Fill, SlotState
<1>2. Seen(t) = Seen(st) \cup new
  BY FillAdds, ExtendsSeen
<1>3. QED
  BY <1>1, <1>2 DEF EndsExact

\* Recovery: coding sets aside, it fills in the rebuilt shreds.
LEMMA RecoverEnds ==
  ASSUME Honest, NEW st \in SlotState, NEW f \in Index, CodingNum(st), EndsExact(st)
  PROVE  EndsExact(Recover(st, f))
<1> DEFINE R == FecRange(f, st.coding[f].num)
           old == st.coding[f]
           tried == [old EXCEPT !.attempts = @ + 1]
           counted == IF CanRecover(st, f) THEN [st EXCEPT !.coding[f].attempts = @ + 1] ELSE st
           I == Rebuilt(st, f)
           v == CHOOSE w \in Sources(st, f) : TRUE
           filled == IF I = {} THEN counted ELSE Fill(counted, I, v)
           t == Recover(st, f)
<1>1. counted \in SlotState /\ SameButCoding(st, counted)
  <2>1. old \in CodingSet
    BY DEF SlotState
  <2>2. tried \in CodingSet
    BY <2>1 DEF CodingSet
  <2>3. counted \in {st, [st EXCEPT !.coding[f] = tried]}
    OBVIOUS
  <2>4. SameButCoding(st, st)
    BY DEF SameButCoding
  <2>5. QED
    BY <2>2, <2>3, <2>4, SetCoding
<1> HIDE DEF counted
<1>2. ASSUME NEW x, NEW y, SameButCoding(x, y), EndsExact(x)
      PROVE  EndsExact(y)
  BY <1>2 DEF SameButCoding, EndsExact, Seen, Held, EmittedIn
<1>3. filled \in SlotState /\ EndsExact(filled)
  <2>1. CASE I = {}
    BY <1>1, <1>2, <2>1
  <2>2. CASE I # {}
    <3>1. v \in Variants
      BY <2>2 DEF Rebuilt, Rebuildable
    <3>2. I \in SUBSET Index
      BY DEF Rebuilt, MissingIn
    <3>3. EndsExact(counted)
      BY <1>1, <1>2
    <3> HIDE DEF v, I
    <3>4. Fill(counted, I, v) \in SlotState
      BY <1>1, <3>1, <3>2, FillAdds
    <3>5. QED
      BY <1>1, <2>2, <3>1, <3>2, <3>3, <3>4, FillEnds
  <2>3. QED
    BY <2>1, <2>2
<1> HIDE DEF filled
<1>4. NoCoding \in CodingSet
  BY DEF NoCoding, CodingSet
<1>5. SameButCoding(filled, [filled EXCEPT !.coding[f] = NoCoding])
  BY <1>3, <1>4, SetCoding
<1>6. t \in {filled, [filled EXCEPT !.coding[f] = NoCoding]}
  BY DEF Recover, filled, counted
<1>7. QED
  BY <1>2, <1>3, <1>5, <1>6

\* Without enough shreds recovery is not tried and the coding set stays as it is.
LEMMA NoRecovery ==
  ASSUME NEW st \in SlotState, NEW f \in Index, CodingNum(st), ~CanRecover(st, f)
  PROVE  \/ Recover(st, f) = st
         \/ /\ MissingIn(st, FecRange(f, st.coding[f].num)) = {}
            /\ Recover(st, f).coding[f] = NoCoding
<1> DEFINE t == [st EXCEPT !.coding[f] = NoCoding]
<1>1. Rebuilt(st, f) = {}
  BY DEF Rebuilt
<1>2. Recover(st, f) = IF MissingIn(st, FecRange(f, st.coding[f].num)) = {} THEN t ELSE st
  BY <1>1 DEF Recover
<1>3. NoCoding \in CodingSet /\ st.coding \in [Index -> CodingSet]
  BY DEF NoCoding, CodingSet, SlotState
<1>4. t.coding = [st.coding EXCEPT ![f] = NoCoding]
  BY <1>3, SetCoding
<1>5. t.coding[f] = NoCoding
  BY <1>3, <1>4
<1>6. QED
  BY <1>2, <1>5

\* With one version, one coding shred for each index is held.
LEMMA CodingCount ==
  ASSUME NEW C, IsFiniteSet(C), NEW v, Variants = {v}
  PROVE  Cardinality(C \X Variants) = Cardinality(C)
<1>1. IsFiniteSet({v}) /\ Cardinality({v}) = 1
  BY FS_Singleton
<1>2. Cardinality(C) \in Nat
  BY FS_CardinalityType
<1>3. Cardinality(C \X {v}) = Cardinality(C) * Cardinality({v})
  BY <1>1, FS_Product
<1>4. QED
  BY <1>1, <1>2, <1>3

\* Recovery makes known what the arrived shreds make known: neither the shreds handed out
\* before nor the limit on attempts stand in its way.
LEMMA RecoverTracks ==
  ASSUME Honest, NEW v \in Variants, NEW st \in SlotState, CodingNum(st), NEW f \in Index,
         FecSetOf(f) # {}, NEW A, WellFormed(A), Inserted(st, A, f)
  PROVE  SetTracked(Recover(st, f), A, f)
<1> DEFINE F == FecSetOf(f)
           t == Recover(st, f)
           I == Rebuilt(st, f)
           n == st.coding[f].num
           D == Data(A, f)
           C == Codes(A, f)
<1>1. /\ t \in SlotState /\ Seen(t) = Seen(st) \cup I /\ I \subseteq F
  BY RecoverAdds, ExtendsSeen, RebuiltInSet
<1>2. F \subseteq Index /\ Cardinality(F) \in Nat /\ NumDataShreds(f) = Cardinality(F) /\ IsFiniteSet(F)
  BY FiniteIndexes DEF FecSetOf, NumDataShreds
<1>3. Cardinality(F) > 0
  BY <1>2, FS_EmptySet
<1>4. /\ Cardinality(C) \in Nat /\ Cardinality(D) \in Nat /\ IsFiniteSet(C)
      /\ Cardinality(Of(A, f)) = Cardinality(D) + Cardinality(C)
  BY SplitCount
<1>5. D \subseteq F
  BY DEF Data
<1>6. CASE Seen(st) \cap F = F /\ KnownIn(A, f) = F
  <2> HIDE DEF F, t, I
  <2>1. Seen(t) \cap F = F
    BY <1>1, <1>6
  <2>2. QED
    BY <1>6, <2>1 DEF SetTracked, F, t
<1>7. ASSUME Seen(st) \cap F = D, EmittedIn(st) \cap F = {}, Awaiting(st, A, f)
      PROVE  SetTracked(t, A, f)
  <2>1. CASE D = F
    <3>1. KnownIn(A, f) = F
      BY <2>1 DEF KnownIn
    <3> HIDE DEF F, t, I, D
    <3>2. Seen(t) \cap F = F
      BY <1>1, <1>7, <2>1
    <3>3. QED
      BY <3>1, <3>2 DEF SetTracked, F
  <2>2. ASSUME D # F
        PROVE  SetTracked(t, A, f)
    <3>1. Cardinality(D) < Cardinality(F)
      <4> HIDE DEF D, F
      <4>1. Cardinality(D) <= Cardinality(F) /\ (Cardinality(D) = Cardinality(F) => D = F)
        BY <1>2, <1>5, FS_Subset
      <4>2. QED
        BY <1>2, <1>4, <2>2, <4>1
    <3>2. MissingIn(st, F) = F \ D /\ MissingIn(st, F) # {}
      <4>1. MissingIn(st, F) = (F \cap Index) \ Seen(st)
        BY MissingIsUnseen
      <4> HIDE DEF F, D
      <4>2. QED
        BY <1>2, <1>5, <1>7, <2>2, <4>1
    <3>3. n > 0 => FecRange(f, n) = F
      BY RangeIsFecSet
    <3>4. n = IF C = {} THEN 0 ELSE Cardinality(F)
      BY <1>2, <1>7 DEF Awaiting
    <3>5. Held(st) \cap F = D
      BY <1>7 DEF Seen
    <3>6. Variants = {v}
      BY DEF Honest
    <3>7. Cardinality(st.coding[f].shreds) = Cardinality(C) /\ st.coding[f].attempts = 0
      BY <1>4, <1>7, <3>6, CodingCount DEF Awaiting
    <3>8. n > 0 => (CanRecover(st, f) <=> Cardinality(Of(A, f)) >= Cardinality(F))
      <4> SUFFICES ASSUME n > 0 PROVE CanRecover(st, f) <=> Cardinality(Of(A, f)) >= Cardinality(F)
        OBVIOUS
      <4>1. HeldIn(st, f) = D
        BY <3>3, <3>5 DEF HeldIn
      <4>2. n = Cardinality(F) /\ MissingIn(st, FecRange(f, n)) # {}
        BY <3>2, <3>3, <3>4
      <4>3. 0 < MaxAttempts
        BY DEF Honest
      <4>4. QED
        BY <1>4, <3>7, <4>1, <4>2, <4>3 DEF CanRecover
    <3>9. CASE Cardinality(Of(A, f)) >= Cardinality(F)
      <4>1. C # {}
        <5>1. Cardinality({}) = 0
          BY FS_EmptySet
        <5> HIDE DEF C, D, F
        <5>2. QED
          BY <1>2, <1>4, <3>1, <3>9, <5>1
      <4>2. n > 0
        BY <1>3, <3>4, <4>1
      <4>3. CanRecover(st, f)
        BY <3>8, <3>9, <4>2
      <4>4. Sources(st, f) = {v}
        <5>1. \A i \in HeldIn(st, f) : st.data[i] = v
          BY <3>6 DEF HeldIn, Held
        <5>2. \A c \in st.coding[f].shreds : c[2] = v
          BY <1>7, <3>6 DEF Awaiting
        <5>3. st.coding[f].shreds # {}
          <6>1. PICK j \in C : TRUE
            BY <4>1
          <6>2. <<j, v>> \in C \X Variants
            BY <3>6, <6>1
          <6>3. QED
            BY <1>7, <6>2 DEF Awaiting
        <5>4. QED
          BY <5>1, <5>2, <5>3 DEF Sources
      <4>5. I = F \ D
        BY <3>2, <3>3, <4>2, <4>3, <4>4 DEF Rebuilt, Rebuildable
      <4>6. KnownIn(A, f) = F
        BY <3>9 DEF KnownIn
      <4> HIDE DEF F, t, I, D
      <4>7. Seen(t) \cap F = F
        BY <1>1, <1>5, <1>7, <4>5
      <4>8. QED
        BY <4>6, <4>7 DEF SetTracked, F
    <3>10. CASE ~(Cardinality(Of(A, f)) >= Cardinality(F))
      <4>1. KnownIn(A, f) = D
        BY <3>10 DEF KnownIn
      <4>2. ~CanRecover(st, f)
        BY <3>8, <3>10 DEF CanRecover
      <4>3. I = {}
        BY <4>2 DEF Rebuilt
      <4>4. Seen(t) \cap F = D
        BY <1>1, <1>7, <4>3
      <4>5. \/ t = st
            \/ MissingIn(st, FecRange(f, n)) = {} /\ t.coding[f] = NoCoding
        BY <4>2, NoRecovery
      <4>6. Awaiting(t, A, f)
        <5>1. CASE t = st
          BY <1>7, <5>1
        <5>2. CASE MissingIn(st, FecRange(f, n)) = {} /\ t.coding[f] = NoCoding
          <6>1. C = {}
            BY <1>3, <3>2, <3>3, <3>4, <5>2
          <6>2. C \X Variants = {}
            BY <6>1
          <6>3. QED
            BY <5>2, <6>1, <6>2 DEF Awaiting, NoCoding
        <5>3. QED
          BY <4>5, <5>1, <5>2
      <4>7. QED
        BY <4>1, <4>4, <4>6 DEF SetTracked
    <3>11. QED
      BY <3>9, <3>10
  <2>3. QED
    BY <2>1, <2>2
<1>8. QED
  BY <1>6, <1>7 DEF Inserted

-----------------------------------------------------------------------------
(* Data sets of one geometry. *)

\* A data set of an honest leader takes all of a FEC set or none of it.
LEMMA WholeSets ==
  ASSUME Honest, NEW K, NEW d \in Reassembly!Complete(K), NEW i \in d[1]..d[2], i \in Index
  PROVE  FecSetOf(FecOf[i]) \subseteq d[1]..d[2]
<1>1. /\ d[1] \in Index /\ d[2] \in Ends
      /\ d[1] = 0 \/ d[1] - 1 \in Ends
  BY DEF Reassembly!Complete, Ends
<1>2. Ends \subseteq Index /\ Index \subseteq Int /\ \A k \in Index : 0 <= k
  BY LayoutAssumption, RingAssumption DEF Ends, Index
<1> SUFFICES ASSUME NEW k \in FecSetOf(FecOf[i])
             PROVE  k \in d[1]..d[2]
  OBVIOUS
<1>3. k \in Index /\ FecOf[k] = FecOf[i]
  BY DEF FecSetOf
<1>0. \A e \in Ends : i <= e <=> k <= e
  BY <1>3 DEF Honest
<1>4. k <= d[2]
  <2>1. i <= d[2]
    BY <1>1, <1>2
  <2>2. QED
    BY <1>0, <1>1, <2>1
<1>5. d[1] <= k
  <2>1. CASE d[1] = 0
    BY <1>2, <1>3, <2>1
  <2>2. CASE d[1] - 1 \in Ends
    <3>1. k <= d[1] - 1 => i <= d[1] - 1
      BY <1>0, <2>2
    <3>2. k \in Int /\ d[1] \in Int /\ d[2] \in Int /\ i \in Int
      BY <1>1, <1>2, <1>3
    <3>3. d[1] <= i
      BY <3>2
    <3>4. QED
      BY <3>1, <3>2, <3>3
  <2>3. QED
    BY <1>1, <2>1, <2>2
<1>6. QED
  BY <1>1, <1>2, <1>3, <1>4, <1>5

\* Two data sets of one geometry have no shred in common, or are the same.
LEMMA SetsApart ==
  ASSUME NEW K, NEW d \in Reassembly!Complete(K), NEW e \in Reassembly!Complete(K),
         NEW i \in d[1]..d[2], i \in e[1]..e[2]
  PROVE  d = e
<1>1. Ends \subseteq Index /\ Index \subseteq Int
  BY LayoutAssumption, RingAssumption DEF Ends, Index
<1>2. ASSUME NEW c \in Reassembly!Complete(K)
      PROVE  /\ c = <<c[1], c[2]>> /\ c[1] \in Int /\ c[2] \in Int /\ c[1] <= c[2]
             /\ c[2] \in Ends /\ (c[1] = 0 \/ c[1] - 1 \in Ends) /\ c[1] \in Index
             /\ \A k \in c[1]..(c[2] - 1) : k \notin Ends
  BY <1>1 DEF Reassembly!Complete, Ends
<1>3. \A k \in Index : 0 <= k
  BY RingAssumption DEF Index
<1>4. ASSUME NEW x \in Reassembly!Complete(K), NEW y \in Reassembly!Complete(K),
             i \in x[1]..x[2], i \in y[1]..y[2]
      PROVE  x[2] <= y[2] /\ y[1] <= x[1]
  <2>1. y[2] \notin x[1]..(x[2] - 1) /\ y[2] \in Ends
    BY <1>2
  <2>2. x[2] <= y[2]
    <3>1. x[1] \in Int /\ x[2] \in Int /\ y[1] \in Int /\ y[2] \in Int
      BY <1>2
    <3>2. QED
      BY <1>4, <2>1, <3>1
  <2>3. y[1] <= x[1]
    <3>1. x[1] \in Int /\ x[2] \in Int /\ y[1] \in Int /\ y[2] \in Int
      BY <1>2
    <3>2. x[1] = 0 \/ x[1] - 1 \notin y[1]..(y[2] - 1)
      BY <1>2
    <3>3. x[1] = 0 => y[1] <= x[1] \/ y[1] > 0
      BY <3>1
    <3>4. CASE x[1] = 0
      <4>1. y[1] = 0 \/ y[1] - 1 \in Ends
        BY <1>2
      <4>2. y[1] - 1 \notin x[1]..(x[2] - 1) \/ y[1] = 0
        BY <1>2, <4>1
      <4>3. 0 <= y[1]
        BY <1>2, <1>3
      <4>4. QED
        BY <1>4, <3>1, <3>4, <4>2, <4>3
    <3>5. CASE x[1] # 0
      <4>1. x[1] - 1 \notin y[1]..(y[2] - 1)
        BY <3>2, <3>5
      <4>2. y[1] - 1 \notin x[1]..(x[2] - 1) \/ y[1] = 0
        BY <1>2
      <4>3. 0 <= x[1] /\ 0 <= y[1]
        BY <1>2, <1>3
      <4>4. QED
        BY <1>4, <3>1, <4>2, <4>3
    <3>6. QED
      BY <3>4, <3>5
  <2>4. QED
    BY <2>2, <2>3
<1>5. d[2] = e[2] /\ d[1] = e[1]
  <2>1. d[2] <= e[2] /\ e[2] <= d[2] /\ d[1] <= e[1] /\ e[1] <= d[1]
    BY <1>4
  <2>2. QED
    BY <1>2, <2>1
<1>6. QED
  BY <1>2, <1>5

LEMMA CompleteGrows ==
  ASSUME NEW K, NEW L, K \subseteq L
  PROVE  Reassembly!Complete(K) \subseteq Reassembly!Complete(L)
<1>1. ASSUME NEW d \in Reassembly!Complete(K)
      PROVE  d \in Reassembly!Complete(L)
  BY DEF Reassembly!Complete
<1>2. QED
  BY <1>1

\* The data sets of a slot state are those of the abstract specification.
LEMMA DataSetsAgree ==
  ASSUME NEW st \in SlotState, EndsExact(st), NEW d
  PROVE  d \in Reassembly!Complete(Seen(st)) <=>
             d \in DataSets(st.ends) /\ d[1]..d[2] \subseteq Seen(st)
<1>1. Ends \subseteq Index /\ Index \subseteq Int
  BY LayoutAssumption, RingAssumption DEF Ends, Index
<1>2. ASSUME NEW a \in Index, NEW b \in Index, a..b \subseteq Seen(st)
      PROVE  (\A i \in a..(b - 1) : i \notin st.ends) <=> (\A i \in a..(b - 1) : i \notin Ends)
  <2>1. a..(b - 1) \subseteq a..b
    BY <1>1
  <2>2. QED
    BY <1>2, <2>1 DEF EndsExact
<1>3. ASSUME NEW a \in Index, NEW b \in Ends \cap Seen(st), a..b \subseteq Seen(st)
      PROVE  <<a, b>> \in Reassembly!Complete(Seen(st)) <=> <<a, b>> \in DataSets(st.ends)
  <2>1. st.ends = Ends \cap Seen(st)
    BY DEF EndsExact
  <2>2. <<a, b>> \in DataSets(st.ends) <=>
          /\ a <= b
          /\ a = 0 \/ a - 1 \in st.ends
          /\ \A i \in a..(b - 1) : i \notin st.ends
    BY <2>1 DEF DataSets
  <2>3. <<a, b>> \in Reassembly!Complete(Seen(st)) <=>
          /\ a <= b
          /\ a = 0 \/ a - 1 \in Ends \cap Seen(st)
          /\ \A i \in a..(b - 1) : i \notin Ends
    BY <1>3 DEF Reassembly!Complete, Ends
  <2>4. QED
    BY <1>1, <1>2, <1>3, <2>1, <2>2, <2>3
<1>4. d \in Reassembly!Complete(Seen(st)) =>
        \E a \in Index, b \in Ends \cap Seen(st) : d = <<a, b>> /\ a..b \subseteq Seen(st)
  BY DEF Reassembly!Complete, Ends
<1>5. d \in DataSets(st.ends) => \E a \in Index, b \in Ends \cap Seen(st) : d = <<a, b>>
  BY DEF DataSets, EndsExact
<1>6. QED
  BY <1>3, <1>4, <1>5

-----------------------------------------------------------------------------
(* The insertion of a shred. *)

\* st is the state of a slot whose shreds A arrived and whose data sets X were taken.
Follows(st, A, X) ==
    /\ WellFormed(A)
    /\ Tracks(st, A)
    /\ EmittedIn(st) = Covered(X)
    /\ X \subseteq Reassembly!Complete(Seen(st))

LEMMA KnownInSet == \A A, f : KnownIn(A, f) \subseteq FecSetOf(f)
BY DEF KnownIn, Data

\* Nothing of a FEC set was handed out that still misses a shred.
LEMMA UnknownIsKept ==
  ASSUME Honest, NEW st \in SlotState, NEW A, NEW X, Follows(st, A, X), NEW f \in Index,
         KnownIn(A, f) # FecSetOf(f)
  PROVE  /\ EmittedIn(st) \cap FecSetOf(f) = {}
         /\ Seen(st) \cap FecSetOf(f) = Data(A, f)
         /\ Awaiting(st, A, f)
<1>1. Seen(st) \cap FecSetOf(f) = KnownIn(A, f) /\ Awaiting(st, A, f)
  BY DEF Follows, Tracks, SetTracked
<1>2. KnownIn(A, f) = Data(A, f)
  BY DEF KnownIn
<1>3. ASSUME NEW i \in EmittedIn(st) \cap FecSetOf(f)
      PROVE  FALSE
  <2>1. PICK d \in X : i \in d[1]..d[2]
    BY <1>3 DEF Follows, Covered
  <2>2. d \in Reassembly!Complete(Seen(st)) /\ d[1]..d[2] \subseteq Seen(st)
    BY <2>1 DEF Follows, Reassembly!Complete
  <2>3. i \in Index /\ FecOf[i] = f
    BY DEF FecSetOf
  <2>4. FecSetOf(f) \subseteq Seen(st)
    BY <2>1, <2>2, <2>3, WholeSets
  <2>5. QED
    BY <1>1, <2>4
<1>4. QED
  BY <1>1, <1>2, <1>3

\* A set that was known whole stays so.
LEMMA WholeStaysInserted ==
  ASSUME NEW st, NEW A, NEW B, NEW f \in Index, FecSetOf(f) \subseteq Seen(st),
         KnownIn(A, f) = FecSetOf(f), KnownIn(A, f) \subseteq KnownIn(B, f)
  PROVE  Inserted(st, B, f)
BY KnownInSet DEF Inserted

LEMMA DataInserted ==
  ASSUME Honest, NEW base \in SlotState, NEW A, NEW X, Follows(base, A, X), CodingNum(base),
         NEW v \in Variants, NEW i \in Index,
         NEW B, B = A \cup {DataShred(FecOf[i], i)}, WellFormed(B)
  PROVE  /\ Inserted(Fill(base, {i}, v), B, FecOf[i])
         /\ \A g \in Index \ {FecOf[i]} : SetTracked(Fill(base, {i}, v), B, g)
<1> DEFINE f == FecOf[i]
           F == FecSetOf(f)
           new == MissingIn(base, {i})
           st == Fill(base, {i}, v)
<1>1. /\ st \in SlotState /\ Extends(base, st, new) /\ st.coding = base.coding
      /\ Seen(st) = Seen(base) \cup new
  <2>1. {i} \in SUBSET Index
    OBVIOUS
  <2>2. st \in SlotState /\ Extends(base, st, new) /\ st.coding = base.coding
    BY <2>1, FillAdds
  <2> HIDE DEF st, new
  <2>3. QED
    BY <2>2, ExtendsSeen
<1>2. f \in Index /\ i \in F /\ new = {i} \ Seen(base) /\ new \subseteq F
  BY FecAssumption, MissingIsUnseen DEF FecSetOf
<1>3. /\ \A g \in Index \ {f} : KnownIn(B, g) = KnownIn(A, g) /\ Codes(B, g) = Codes(A, g)
      /\ KnownIn(A, f) \subseteq KnownIn(B, f)
  <2> DEFINE sh == DataShred(f, i)
  <2>1. sh.fec = f
    BY DEF DataShred
  <2>2. WellFormed(A) /\ B = A \cup {sh}
    BY DEF Follows
  <2> HIDE DEF sh
  <2>3. QED
    BY <1>2, <2>1, <2>2, AddShred
<1>4. Data(B, f) = Data(A, f) \cup {i} /\ Codes(B, f) = Codes(A, f)
  <2>1. \A k : DataShred(f, k) = DataShred(f, i) <=> k = i
    BY DEF DataShred
  <2>2. \A j : CodeShred(f, j) # DataShred(f, i)
    BY DEF CodeShred, DataShred
  <2>3. QED
    BY <1>2, <2>1, <2>2 DEF Data, Codes
<1> HIDE DEF st, new, f
<1>5. \A g \in Index \ {f} : SetTracked(st, B, g)
  <2> SUFFICES ASSUME NEW g \in Index \ {f} PROVE SetTracked(st, B, g)
    OBVIOUS
  <2>1. F \cap FecSetOf(g) = {}
    BY DEF FecSetOf
  <2>2. Seen(st) \cap FecSetOf(g) = Seen(base) \cap FecSetOf(g)
    BY <1>1, <1>2, <2>1
  <2>3. SetTracked(base, A, g)
    BY DEF Follows, Tracks
  <2>4. QED
    BY <1>1, <1>3, <2>2, <2>3 DEF SetTracked, Awaiting
<1>6. Inserted(st, B, f)
  <2>1. CASE KnownIn(A, f) = F
    <3>1. Seen(base) \cap F = KnownIn(A, f)
      BY <1>2 DEF Follows, Tracks, SetTracked
    <3>2. F \subseteq Seen(st)
      BY <1>1, <2>1, <3>1
    <3>3. QED
      BY <1>2, <1>3, <2>1, <3>2, WholeStaysInserted
  <2>2. CASE KnownIn(A, f) # F
    <3>1. EmittedIn(base) \cap F = {} /\ Seen(base) \cap F = Data(A, f) /\ Awaiting(base, A, f)
      BY <1>2, <2>2, UnknownIsKept
    <3>2. EmittedIn(st) \cap F = {}
      BY <1>1, <3>1 DEF Extends
    <3>3. Seen(st) \cap F = Data(B, f)
      BY <1>1, <1>2, <1>4, <3>1
    <3>4. Awaiting(st, B, f)
      BY <1>1, <1>4, <3>1 DEF Awaiting
    <3>5. QED
      BY <3>2, <3>3, <3>4 DEF Inserted
  <2>3. QED
    BY <2>1, <2>2
<1>7. QED
  BY <1>5, <1>6 DEF st, f

LEMMA CodeInserted ==
  ASSUME Honest, NEW base \in SlotState, NEW A, NEW X, Follows(base, A, X), CodingNum(base),
         NEW v \in Variants, NEW f \in Index, FecSetOf(f) # {}, NEW j \in CodeIndexes,
         NEW B, B = A \cup {CodeShred(f, j)}, WellFormed(B)
  PROVE  /\ Inserted(AddCoding(base, f, j, v), B, f)
         /\ \A g \in Index \ {f} : SetTracked(AddCoding(base, f, j, v), B, g)
<1> DEFINE F == FecSetOf(f)
           n == NumDataShreds(f)
           old == base.coding[f]
           st == AddCoding(base, f, j, v)
<1>1. /\ st \in SlotState /\ SameButCoding(base, st) /\ Seen(st) = Seen(base)
      /\ EmittedIn(st) = EmittedIn(base)
      /\ \A g \in Index \ {f} : st.coding[g] = base.coding[g]
  <2>1. st \in SlotState /\ SameButCoding(base, st)
    BY AddCodingKeeps
  <2>2. \A g \in Index \ {f} : st.coding[g] = base.coding[g]
    BY AddCodingNum
  <2>3. QED
    BY <2>1, <2>2 DEF SameButCoding, Seen, Held, EmittedIn
<1>2. /\ \A g \in Index \ {f} : KnownIn(B, g) = KnownIn(A, g) /\ Codes(B, g) = Codes(A, g)
      /\ KnownIn(A, f) \subseteq KnownIn(B, f)
  <2> DEFINE sh == CodeShred(f, j)
  <2>1. sh.fec = f
    BY DEF CodeShred
  <2>2. WellFormed(A) /\ B = A \cup {sh}
    BY DEF Follows
  <2> HIDE DEF sh
  <2>3. QED
    BY <2>1, <2>2, AddShred
<1>3. Data(B, f) = Data(A, f) /\ Codes(B, f) = Codes(A, f) \cup {j}
  <2>1. \A k : CodeShred(f, k) = CodeShred(f, j) <=> k = j
    BY DEF CodeShred
  <2>2. \A k : CodeShred(f, j) # DataShred(f, k)
    BY DEF CodeShred, DataShred
  <2>3. QED
    BY <2>1, <2>2 DEF Data, Codes
<1>4. \A g \in Index \ {f} : SetTracked(st, B, g)
  <2> SUFFICES ASSUME NEW g \in Index \ {f} PROVE SetTracked(st, B, g)
    OBVIOUS
  <2>1. SetTracked(base, A, g)
    BY DEF Follows, Tracks
  <2> HIDE DEF st
  <2>2. QED
    BY <1>1, <1>2, <2>1 DEF SetTracked, Awaiting
<1>5. n > 0 /\ FecRange(f, n) = F /\ n \in Nat
  <2>1. PICK i \in Index : FecOf[i] = f
    BY DEF FecSetOf
  <2>2. FecRange(f, n) = F
    BY <2>1, FecAssumption DEF FecSetOf
  <2>3. n = Cardinality(F) /\ F \subseteq Index
    BY DEF NumDataShreds, FecSetOf
  <2>4. IsFiniteSet(F) /\ n \in Nat
    BY <2>3, FiniteIndexes
  <2>5. n # 0
    BY <2>3, <2>4, FS_EmptySet
  <2>6. QED
    BY <2>2, <2>4, <2>5
<1>6. Inserted(st, B, f)
  <2>1. CASE KnownIn(A, f) = F
    <3>1. Seen(base) \cap F = KnownIn(A, f)
      BY DEF Follows, Tracks, SetTracked
    <3>2. F \subseteq Seen(st)
      BY <1>1, <2>1, <3>1
    <3> HIDE DEF st
    <3>3. QED
      BY <1>2, <2>1, <3>2, WholeStaysInserted
  <2>2. CASE KnownIn(A, f) # F
    <3>1. EmittedIn(base) \cap F = {} /\ Seen(base) \cap F = Data(A, f) /\ Awaiting(base, A, f)
      BY <2>2, UnknownIsKept
    <3>2. MissingIn(base, F) # {}
      <4>1. MissingIn(base, F) = (F \cap Index) \ Seen(base) /\ F \subseteq Index
        BY MissingIsUnseen DEF FecSetOf
      <4>2. Data(A, f) # F
        BY <2>2 DEF KnownIn
      <4>3. QED
        BY <3>1, <4>1, <4>2
    <3>3. Variants = {v}
      BY DEF Honest
    <3>4. /\ old.shreds = Codes(A, f) \X {v} /\ old.attempts = 0
          /\ old.num = IF Codes(A, f) = {} THEN 0 ELSE n
      BY <3>1, <3>3 DEF Awaiting
    <3> DEFINE first == [num |-> n, shreds |-> {<<j, v>>}, attempts |-> 0]
               next == [old EXCEPT !.shreds = @ \cup {<<j, v>>}]
    <3>5. old \in CodingSet /\ base.coding \in [Index -> CodingSet]
      BY DEF SlotState
    <3>6. /\ first \in CodingSet /\ next \in CodingSet
          /\ next.num = old.num /\ next.attempts = old.attempts
          /\ next.shreds = old.shreds \cup {<<j, v>>}
      BY <1>5, <3>5 DEF CodingSet
    <3>7. st = IF old.num = 0 THEN [base EXCEPT !.coding[f] = first]
               ELSE IF \E held \in old.shreds : held[1] = j THEN base
               ELSE [base EXCEPT !.coding[f] = next]
      <4>1. [base EXCEPT !.coding[f] = next] = [base EXCEPT !.coding[f].shreds = @ \cup {<<j, v>>}]
        OBVIOUS
      <4>2. n # 0 /\ MissingIn(base, FecRange(f, n)) # {}
        BY <1>5, <3>2
      <4>3. QED
        BY <4>1, <4>2 DEF AddCoding
    <3>8. \A c \in CodingSet : [base EXCEPT !.coding[f] = c].coding[f] = c
      <4>1. \A c \in CodingSet : [base EXCEPT !.coding[f] = c].coding = [base.coding EXCEPT ![f] = c]
        BY SetCoding
      <4>2. QED
        BY <3>5, <4>1
    <3> HIDE DEF st, old, next
    <3>9. /\ st.coding[f].shreds = (Codes(A, f) \cup {j}) \X {v}
          /\ st.coding[f].attempts = 0
          /\ st.coding[f].num = n
      <4>1. CASE old.num = 0
        <5>1. Codes(A, f) = {}
          BY <1>5, <3>4, <4>1
        <5>2. st.coding[f] = first
          BY <3>6, <3>7, <3>8, <4>1
        <5>3. {<<j, v>>} = {j} \X {v}
          OBVIOUS
        <5>4. QED
          BY <5>1, <5>2, <5>3
      <4>2. CASE old.num # 0 /\ \E held \in old.shreds : held[1] = j
        <5>1. st.coding[f] = old /\ old.num = n
          BY <3>4, <3>7, <4>2 DEF old
        <5>2. j \in Codes(A, f)
          BY <3>4, <4>2
        <5>3. QED
          BY <3>4, <5>1, <5>2
      <4>3. CASE old.num # 0 /\ ~ \E held \in old.shreds : held[1] = j
        <5>1. st.coding[f] = next /\ old.num = n
          BY <3>4, <3>6, <3>7, <3>8, <4>3
        <5>2. next.shreds = (Codes(A, f) \cup {j}) \X {v}
          BY <3>4, <3>6
        <5>3. QED
          BY <3>4, <3>6, <5>1, <5>2
      <4>4. QED
        BY <4>1, <4>2, <4>3
    <3>10. Awaiting(st, B, f)
      BY <1>3, <3>3, <3>9 DEF Awaiting
    <3>11. QED
      BY <1>1, <1>3, <3>1, <3>10 DEF Inserted
  <2>3. QED
    BY <2>1, <2>2
<1>7. QED
  BY <1>4, <1>6

-----------------------------------------------------------------------------
(* The state after a call. *)

\* Taking data sets: the shreds are still seen, and a set that misses one keeps its coding.
LEMMA TakeTracks ==
  ASSUME NEW t \in SlotState, CodingNum(t), NEW B, Tracks(t, B), NEW D \in SUBSET DataSets(t.ends),
         Covered(D) \subseteq Held(t), ~t.finished, ~TakeDataSets(t, D).finished
  PROVE  LET u == TakeDataSets(t, D) IN
         /\ Tracks(u, B)
         /\ Seen(u) = Seen(t)
         /\ EmittedIn(u) = EmittedIn(t) \cup Covered(D)
<1> DEFINE u == TakeDataSets(t, D)
<1>1. CASE D = {}
  <2>1. u = t /\ Covered(D) = {}
    BY <1>1, CoveredEmpty DEF TakeDataSets
  <2>2. QED
    BY <2>1
<1>2. CASE D # {}
  <2>1. /\ u \in SlotState /\ u.ends = t.ends
        /\ u.finished <=> FinishedBy(t, D)
        /\ EmittedIn(u) = EmittedIn(t) \cup Covered(D)
        /\ Held(u) = Held(t) \ Covered(D)
    BY <1>2, TakeDataSetsEmits
  <2>2. Seen(u) = Seen(t)
    BY <2>1 DEF Seen
  <2> DEFINE kept(g) == FecRange(g, t.coding[g].num) \cap Covered(D) # {}
                           => MissingIn(t, FecRange(g, t.coding[g].num)) # {}
             coding == [g \in Index |-> IF kept(g) THEN t.coding[g] ELSE NoCoding]
             data == [i \in Index |-> IF i \in Covered(D) THEN Emitted ELSE t.data[i]]
  <2>3. u.coding = coding
    <3>1. u = [t EXCEPT !.data = data, !.emitted = @ + Cardinality(Covered(D)), !.coding = coding]
      BY <1>2, <2>1 DEF TakeDataSets
    <3>2. QED
      BY <3>1 DEF SlotState
  <2>4. ASSUME NEW f \in Index, KnownIn(B, f) # FecSetOf(f)
        PROVE  kept(f)
    <3>1. t.coding[f].num \in Nat
      BY DEF SlotState, CodingSet
    <3>2. CASE t.coding[f].num = 0
      <4>1. FecRange(f, 0) = {}
        <5>1. f \in Int
          BY RingAssumption DEF Index
        <5>2. QED
          BY <5>1 DEF FecRange
      <4>2. QED
        BY <3>2, <4>1
    <3>3. CASE t.coding[f].num # 0
      <4>1. FecRange(f, t.coding[f].num) = FecSetOf(f)
        BY <3>1, <3>3, RangeIsFecSet
      <4>2. MissingIn(t, FecSetOf(f)) = (FecSetOf(f) \cap Index) \ Seen(t) /\ FecSetOf(f) \subseteq Index
        BY MissingIsUnseen DEF FecSetOf
      <4>3. Seen(t) \cap FecSetOf(f) # FecSetOf(f)
        BY <2>4 DEF Tracks, SetTracked
      <4>4. MissingIn(t, FecSetOf(f)) # {}
        BY <4>2, <4>3
      <4>5. QED
        BY <4>1, <4>4
    <3>4. QED
      BY <3>2, <3>3
  <2> HIDE DEF u
  <2>5. ASSUME NEW f \in Index
        PROVE  SetTracked(u, B, f)
    <3>1. SetTracked(t, B, f)
      BY DEF Tracks
    <3>2. KnownIn(B, f) # FecSetOf(f) => u.coding[f] = t.coding[f]
      BY <2>3, <2>4
    <3>3. QED
      BY <2>2, <3>1, <3>2 DEF SetTracked, Awaiting
  <2>6. EndsExact(u)
    BY <2>1, <2>2 DEF Tracks, EndsExact
  <2>7. Tracks(u, B)
    BY <2>5, <2>6 DEF Tracks
  <2>8. QED
    BY <2>1, <2>2, <2>7 DEF u
<1>3. QED
  BY <1>1, <1>2

\* Recovery follows the arrived shreds in every FEC set.
LEMMA RecoveredTracks ==
  ASSUME Honest, NEW v \in Variants, NEW st \in SlotState, CodingNum(st), NEW f \in Index,
         FecSetOf(f) # {}, NEW B, WellFormed(B), Inserted(st, B, f), EndsExact(st),
         \A g \in Index \ {f} : SetTracked(st, B, g)
  PROVE  Tracks(Recover(st, f), B)
<1> DEFINE t == Recover(st, f)
           I == Rebuilt(st, f)
<1>1. t \in SlotState /\ Seen(t) = Seen(st) \cup I /\ I \subseteq FecSetOf(f)
  BY RecoverAdds, ExtendsSeen, RebuiltInSet
<1>2. \A g \in Index \ {f} : t.coding[g] = st.coding[g]
  BY RecoverCoding
<1>3. SetTracked(t, B, f) /\ EndsExact(t)
  BY RecoverTracks, RecoverEnds
<1> HIDE DEF t, I
<1>4. ASSUME NEW g \in Index \ {f}
      PROVE  SetTracked(t, B, g)
  <2>1. FecSetOf(f) \cap FecSetOf(g) = {}
    BY DEF FecSetOf
  <2>2. Seen(t) \cap FecSetOf(g) = Seen(st) \cap FecSetOf(g)
    BY <1>1, <2>1
  <2>3. SetTracked(st, B, g)
    OBVIOUS
  <2>4. QED
    BY <1>2, <2>2, <2>3 DEF SetTracked, Awaiting
<1>5. Tracks(t, B)
  BY <1>3, <1>4 DEF Tracks
<1>6. QED
  BY <1>5 DEF t

\* st is the state base of a slot whose data sets X were taken, after the insertion of the
\* shreds fresh of the FEC set f; B are the shreds that arrived, that of this call included.
Poised(base, st, f, fresh, B, X) ==
    /\ base \in SlotState /\ ~base.finished /\ NoCompleteIn(base)
    /\ EmittedIn(base) = Covered(X) /\ base.emitted = Cardinality(Covered(X))
    /\ X \subseteq Reassembly!Complete(Seen(base))
    /\ st \in SlotState /\ CodingNum(st) /\ Within(st) /\ EndsExact(st)
    /\ f \in Index /\ FecSetOf(f) # {} /\ fresh \in SUBSET Index /\ OneOf(fresh, f)
    /\ Extends(base, st, fresh)
    /\ WellFormed(B) /\ Inserted(st, B, f)
    /\ \A g \in Index \ {f} : SetTracked(st, B, g)

\* The call takes what the abstract specification delivers, and leaves a state that follows
\* the arrived shreds.
Implements(st, f, fresh, B, X) ==
    LET t == Recover(st, f)
        R == IF Rebuilt(st, f) # {} THEN FecRange(f, st.coding[f].num) ELSE fresh
        D == CompletedSets(t, R)
        u == TakeDataSets(t, D)
    IN  /\ X \cup D = Reassembly!Complete(Reassembly!Known(B))
        /\ ~u.finished => Follows(u, B, X \cup D)

LEMMA SettleImplements ==
  ASSUME Honest, NEW v \in Variants, NEW base, NEW st, NEW f, NEW fresh, NEW B, NEW X,
         Poised(base, st, f, fresh, B, X)
  PROVE  Implements(st, f, fresh, B, X)
<1> USE DEF Poised
<1> DEFINE t == Recover(st, f)
           J == Rebuilt(st, f)
           I == fresh \cup J
           R == IF Rebuilt(st, f) # {} THEN FecRange(f, st.coding[f].num) ELSE fresh
           C == Complete(t, R)
           D == CompletedSets(t, R)
           u == TakeDataSets(t, D)
           K == Seen(t)
<1>1. /\ t \in SlotState /\ CodingNum(t) /\ Extends(st, t, J) /\ J \subseteq Index
      /\ Seen(t) = Seen(st) \cup J
  BY RecoverAdds, ExtendsSeen DEF MissingIn
<1>2. Extends(base, t, I) /\ I \in SUBSET Index
  BY <1>1 DEF Extends
<1>3. I \subseteq R /\ R \in SUBSET Int
  BY RangeCoversFilled
<1>4. Tracks(t, B)
  BY RecoveredTracks
<1>5. K = Reassembly!Known(B)
  BY <1>1, <1>4, SeenIsKnown DEF Tracks
<1> HIDE DEF t, J, R, I
<1>6. ASSUME NEW d \in DataSets(t.ends), d[1]..d[2] \subseteq Held(t)
      PROVE  d \in C
  BY <1>1, <1>2, <1>3, <1>6, SearchFindsAll
<1>7. /\ D \subseteq C /\ C \subseteq DataSets(t.ends) /\ Covered(D) \subseteq Held(t)
      /\ D # C => D # {} /\ FinishedBy(t, D)
  BY <1>1, CompletedSetsAreHeld
<1>8. EmittedIn(t) = Covered(X) /\ ~t.finished /\ t.emitted = base.emitted
  BY <1>2 DEF Extends
<1>9. X \subseteq Reassembly!Complete(K)
  <2>1. Seen(base) \subseteq K
    BY <1>2, ExtendsSeen
  <2>2. Reassembly!Complete(Seen(base)) \subseteq Reassembly!Complete(K)
    BY <2>1, CompleteGrows
  <2>3. QED
    BY <2>2
<1>10. D \subseteq Reassembly!Complete(K)
  <2> SUFFICES ASSUME NEW d \in D PROVE d \in Reassembly!Complete(K)
    OBVIOUS
  <2>1. d \in DataSets(t.ends) /\ d[1]..d[2] \subseteq Held(t)
    BY <1>7 DEF Complete
  <2>2. d[1]..d[2] \subseteq K
    BY <2>1 DEF Seen
  <2>3. QED
    BY <1>1, <1>4, <2>1, <2>2, DataSetsAgree DEF Tracks
<1>11. /\ u.finished => D # {} /\ FinishedBy(t, D)
       /\ D # {} => (u.finished <=> FinishedBy(t, D)) /\ u.last = t.last
  <2>1. D \in SUBSET DataSets(t.ends)
    BY <1>7
  <2>2. CASE D = {}
    BY <1>8, <2>2 DEF TakeDataSets
  <2>3. CASE D # {}
    BY <1>1, <1>7, <1>8, <2>1, <2>3, TakeDataSetsEmits
  <2>4. QED
    BY <2>2, <2>3
<1>12. Within(u) /\ (u.finished => Covered(X \cup D) = 0..u.last)
  <2>1. OneEnd
    BY DEF Honest
  <2>2. QED
    BY <2>1, SettleWithin DEF t
<1>13. K \subseteq 0..End
  <2>1. Seen(st) \subseteq 0..End
    BY DEF Within, Seen
  <2>2. J \subseteq 0..End
    <3>1. CASE J = {}
      BY <3>1
    <3>2. CASE J # {}
      <4>1. J \subseteq FecSetOf(f)
        BY RebuiltInSet DEF J
      <4>2. st.coding[f].num > 0
        BY <3>2 DEF J, Rebuilt, CanRecover
      <4>3. QED
        BY <4>1, <4>2 DEF Within
    <3>3. QED
      BY <3>1, <3>2
  <2>3. QED
    BY <1>1, <2>1, <2>2
<1>14. ASSUME NEW d \in Reassembly!Complete(K), NEW i \in d[1]..d[2], i \in Covered(X \cup D)
       PROVE  d \in X \cup D
  <2>1. PICK e \in X \cup D : i \in e[1]..e[2]
    BY <1>14 DEF Covered
  <2>2. e \in Reassembly!Complete(K)
    BY <1>9, <1>10
  <2>3. d = e
    BY <2>1, <2>2, SetsApart
  <2>4. QED
    BY <2>3
<1>15. ASSUME NEW d \in Reassembly!Complete(K)
       PROVE  d \in X \cup D
  <2>1. d \in DataSets(t.ends) /\ d[1]..d[2] \subseteq K
    BY <1>1, <1>4, DataSetsAgree DEF Tracks
  <2>2. d[1] \in Int /\ d[2] \in Int /\ d[1] <= d[2]
    <3>1. t.ends \subseteq Index /\ Index \subseteq Int
      BY <1>1, RingAssumption DEF SlotState, Index
    <3>2. d[1] \in Index /\ d[2] \in t.ends /\ d[1] <= d[2]
      BY <2>1 DEF DataSets
    <3>3. QED
      BY <3>1, <3>2
  <2>3. d[2] \in d[1]..d[2]
    BY <2>2
  <2>4. CASE d[1]..d[2] \subseteq Held(t)
    <3>1. d \in C
      BY <1>6, <2>1, <2>4
    <3>2. CASE D = C
      BY <3>1, <3>2
    <3>3. CASE D # C
      <4>1. D # {} /\ FinishedBy(t, D)
        BY <1>7, <3>3
      <4>2. u.finished /\ u.last = t.last /\ t.last # NoIndex
        BY <1>11, <4>1 DEF FinishedBy
      <4>3. u.last = End
        BY <1>12, <4>2 DEF Within
      <4>4. Covered(X \cup D) = 0..End
        BY <1>12, <4>2, <4>3
      <4>5. d[2] \in Covered(X \cup D)
        BY <1>13, <2>1, <2>3, <4>4
      <4>6. QED
        BY <1>14, <2>3, <4>5
    <3>4. QED
      BY <3>2, <3>3
  <2>5. CASE ~(d[1]..d[2] \subseteq Held(t))
    <3>1. PICK i \in d[1]..d[2] : i \in EmittedIn(t)
      BY <2>1, <2>5 DEF Seen
    <3>2. i \in Covered(X \cup D)
      BY <1>8, <3>1, CoveredUnion
    <3>3. QED
      BY <1>14, <3>2
  <2>6. QED
    BY <2>4, <2>5
<1>16. X \cup D = Reassembly!Complete(K)
  BY <1>9, <1>10, <1>15
<1>17. ASSUME ~u.finished
       PROVE  Follows(u, B, X \cup D)
  <2>1. D \in SUBSET DataSets(t.ends)
    BY <1>7
  <2> HIDE DEF D
  <2>2. Tracks(u, B) /\ Seen(u) = Seen(t) /\ EmittedIn(u) = EmittedIn(t) \cup Covered(D)
    BY <1>1, <1>4, <1>7, <1>8, <1>17, <2>1, TakeTracks
  <2>3. EmittedIn(u) = Covered(X \cup D)
    BY <1>8, <2>2, CoveredUnion
  <2>4. QED
    BY <1>16, <2>2, <2>3 DEF Follows
<1>18. QED
  BY <1>5, <1>16, <1>17 DEF Implements, t, R

-----------------------------------------------------------------------------
(* The refinement. *)

Arrived(s) == {[kind |-> sh.kind, fec |-> sh.fec, index |-> sh.index] : sh \in received[s]}

\* A live slot state follows the shreds of its slot, and of a slot that its ring entry did
\* not reach yet nothing arrived.
FollowsInv ==
    /\ \A r \in DOMAIN slots :
           slots[r].slot # NoIndex /\ ~slots[r].finished =>
               Follows(slots[r], Arrived(slots[r].slot), consumed[slots[r].slot])
    /\ \A s \in Slots : slots[Residue(s)].slot < s => received[s] = {}

RefInv == IInv /\ EndInv /\ FollowsInv

LEMMA NewStateFollows ==
  ASSUME NEW s \in Slots
  PROVE  Follows(NewState(s), {}, {})
<1> DEFINE st == NewState(s)
<1>1. /\ st \in SlotState /\ EmittedIn(st) = {} /\ Held(st) = {} /\ st.ends = {} /\ Seen(st) = {}
      /\ \A f \in Index : st.coding[f] = NoCoding
  BY NewStateType DEF NewState, Seen
<1>2. WellFormed({})
  BY FS_EmptySet DEF WellFormed
<1> HIDE DEF st
<1>3. ASSUME NEW f \in Index
      PROVE  SetTracked(st, {}, f)
  <2>1. Data({}, f) = {} /\ Codes({}, f) = {} /\ Of({}, f) = {}
    BY DEF Data, Codes, Of
  <2>2. FecSetOf(f) \subseteq Index /\ Cardinality({}) = 0
    BY FS_EmptySet DEF FecSetOf
  <2>3. Cardinality(FecSetOf(f)) \in Nat /\ (Cardinality(FecSetOf(f)) = 0 => FecSetOf(f) = {})
    BY <2>2, FiniteIndexes, FS_EmptySet
  <2>4. KnownIn({}, f) = {}
    BY <2>1, <2>2, <2>3 DEF KnownIn
  <2>5. Awaiting(st, {}, f)
    <3>1. {} \X Variants = {}
      OBVIOUS
    <3>2. QED
      BY <1>1, <2>1, <3>1 DEF Awaiting, NoCoding
  <2>6. QED
    BY <1>1, <2>4, <2>5 DEF SetTracked
<1>4. EndsExact(st)
  BY <1>1 DEF EndsExact
<1>5. Follows(st, {}, {})
  BY <1>1, <1>2, <1>3, <1>4, CoveredEmpty DEF Follows, Tracks
<1>6. QED
  BY <1>5 DEF st

\* The state a call works on follows what arrived for its slot.
LEMMA StateForFollows ==
  ASSUME RefInv, NEW s \in Slots, ~Ignores(s)
  PROVE  Follows(StateFor(s), Arrived(s), consumed[s])
<1> DEFINE entry == slots[Residue(s)]
<1>1. IInv /\ Residue(s) \in DOMAIN slots /\ entry \in SlotState
  BY RingIndexes DEF RefInv, IInv, TypeOK
<1>2. s \in Int /\ s # NoIndex /\ entry.slot \in Int
  BY <1>1, RingIndexes, SlotNumber
<1>3. CASE entry.slot < s
  <2>1. StateFor(s) = NewState(s)
    BY <1>3 DEF StateFor
  <2>2. consumed[s] = {} /\ received[s] = {}
    BY <1>3 DEF RefInv, IInv, UnseenInv, FollowsInv
  <2>3. Arrived(s) = {}
    BY <2>2 DEF Arrived
  <2>4. QED
    BY <2>1, <2>2, <2>3, NewStateFollows
<1>4. CASE ~(entry.slot < s)
  <2>1. StateFor(s) = entry /\ entry.slot = s
    BY <1>2, <1>4 DEF StateFor, Ignores
  <2>2. ~entry.finished
    BY <2>1 DEF Ignores
  <2>3. QED
    BY <1>1, <1>2, <2>1, <2>2 DEF RefInv, FollowsInv
<1>5. QED
  BY <1>3, <1>4

\* One more shred leaves the set well formed.
LEMMA OneMore ==
  ASSUME NEW A, WellFormed(A), NEW sh,
         \/ \E i \in Index : sh = DataShred(FecOf[i], i)
         \/ \E f \in Index, j \in CodeIndexes : sh = CodeShred(f, j)
  PROVE  WellFormed(A \cup {sh})
<1>1. IsFiniteSet(A \cup {sh})
  BY FS_AddElement DEF WellFormed
<1>2. QED
  BY <1>1 DEF WellFormed

\* A call that reaches the state of its slot is a step of the abstract specification.
LEMMA SettleArrives ==
  ASSUME Honest, RefInv, NEW v \in Variants, NEW s \in Slots, ~Ignores(s), NEW st, NEW f,
         NEW fresh, NEW sh, NEW ab \in Reassembly!Shreds,
         ab = [kind |-> sh.kind, fec |-> sh.fec, index |-> sh.index],
         Poised(StateFor(s), st, f, fresh, Arrived(s) \cup {ab}, consumed[s]),
         Settle(st, s, f, fresh, sh), IInv'
  PROVE  FollowsInv' /\ Reassembly!Arrive(s, ab)
<1> DEFINE B == Arrived(s) \cup {ab}
           X == consumed[s]
           t == Recover(st, f)
           R == IF Rebuilt(st, f) # {} THEN FecRange(f, st.coding[f].num) ELSE fresh
           D == CompletedSets(t, R)
           u == TakeDataSets(t, D)
<1>1. /\ X \cup D = Reassembly!Complete(Reassembly!Known(B))
      /\ ~u.finished => Follows(u, B, X \cup D)
  <2> HIDE DEF B, X
  <2>1. Implements(st, f, fresh, B, X)
    BY SettleImplements DEF B, X
  <2>2. QED
    BY <2>1 DEF Implements
<1>2. /\ slots' = [slots EXCEPT ![Residue(s)] = u]
      /\ consumed' = [consumed EXCEPT ![s] = @ \cup D]
      /\ received' = [received EXCEPT ![s] = @ \cup {sh}]
  BY DEF Settle
<1>3. /\ slots \in [0..(HistorySize - 1) -> SlotState]
      /\ consumed \in [Slots -> SUBSET (Index \X Index)]
      /\ received \in [Slots -> SUBSET ShredPool]
      /\ Residue(s) \in DOMAIN slots /\ s # NoIndex /\ s \in Int
  BY RingIndexes DEF RefInv, IInv, TypeOK
<1>4. u.slot = s
  <2>1. RingInv' /\ TypeOK'
    BY DEF IInv
  <2>2. Settled(StateFor(s), st, f, fresh, X)
    BY SettleState DEF Poised
  <2>3. StateFor(s).slot = s
    BY StateForSlot DEF RefInv
  <2>4. QED
    BY <2>2, <2>3 DEF Settled
<1> HIDE DEF u, D
<1>5. /\ consumed'[s] = X \cup D /\ \A x \in Slots \ {s} : consumed'[x] = consumed[x]
      /\ \A x \in Slots \ {s} : received'[x] = received[x]
      /\ received'[s] = received[s] \cup {sh}
  BY <1>2, <1>3
<1>6. \A r \in DOMAIN slots' : r \in DOMAIN slots /\ slots'[r] = IF r = Residue(s) THEN u ELSE slots[r]
  BY <1>2, <1>3
<1> DEFINE ArrivedNext(x) == {[kind |-> q.kind, fec |-> q.fec, index |-> q.index] : q \in received'[x]}
<1>7. ArrivedNext(s) = B /\ \A x \in Slots \ {s} : ArrivedNext(x) = Arrived(x)
  BY <1>5 DEF Arrived
<1> HIDE DEF B
<1>8. FollowsInv'
  <2>1. ASSUME NEW r \in DOMAIN slots', slots'[r].slot # NoIndex, ~slots'[r].finished
        PROVE  Follows(slots'[r], ArrivedNext(slots'[r].slot), consumed'[slots'[r].slot])
    <3>1. CASE r = Residue(s)
      BY <1>1, <1>4, <1>5, <1>6, <1>7, <2>1, <3>1
    <3>2. CASE r # Residue(s)
      <4>1. slots'[r] = slots[r] /\ r \in DOMAIN slots
        BY <1>6, <3>2
      <4>2. slots[r].slot # s /\ slots[r].slot \in Slots
        BY <1>3, <2>1, <3>2, <4>1 DEF RefInv, IInv, RingInv, SlotState
      <4>3. Follows(slots[r], Arrived(slots[r].slot), consumed[slots[r].slot])
        BY <2>1, <4>1 DEF RefInv, FollowsInv
      <4>4. QED
        BY <1>5, <1>7, <4>1, <4>2, <4>3
    <3>3. QED
      BY <3>1, <3>2
  <2>2. ASSUME NEW x \in Slots, slots'[Residue(x)].slot < x
        PROVE  received'[x] = {}
    <3>1. Residue(x) \in DOMAIN slots /\ Residue(x) \in DOMAIN slots' /\ x \in Int
      BY <1>2, <1>3, RingIndexes
    <3>2. x # s
      BY <1>3, <1>4, <1>6, <2>2, <3>1
    <3>3. slots[Residue(x)].slot < x
      <4>1. CASE Residue(x) = Residue(s)
        <5>1. s < x
          BY <1>4, <1>6, <2>2, <3>1, <4>1
        <5>2. slots[Residue(s)].slot \in Int
          BY <1>3, SlotNumber
        <5>3. slots[Residue(s)].slot <= s
          BY <1>3, <5>2 DEF Ignores
        <5>4. QED
          BY <1>3, <3>1, <4>1, <5>1, <5>2, <5>3
      <4>2. CASE Residue(x) # Residue(s)
        BY <1>6, <2>2, <3>1, <4>2
      <4>3. QED
        BY <4>1, <4>2
    <3>4. received[x] = {}
      BY <3>3 DEF RefInv, FollowsInv
    <3>5. QED
      BY <1>5, <3>2, <3>4
  <2>3. QED
    BY <2>1, <2>2 DEF FollowsInv, Arrived
<1>9. Reassembly!Arrive(s, ab)
  <2>1. ~Reassembly!Replaced(s)
    <3> SUFFICES ASSUME NEW x \in Slots, x > s, x % HistorySize = s % HistorySize
                 PROVE  received[x] = {}
      BY DEF Reassembly!Replaced
    <3>1. Residue(x) = Residue(s) /\ x \in Int
      BY RingIndexes DEF Residue
    <3>2. slots[Residue(s)].slot \in Int
      BY <1>3, SlotNumber
    <3>3. slots[Residue(x)].slot < x
      BY <1>3, <3>1, <3>2 DEF Ignores
    <3>4. QED
      BY <3>3 DEF RefInv, FollowsInv
  <2>2. [x \in Slots |-> ArrivedNext(x)]
          = [[x \in Slots |-> Arrived(x)] EXCEPT ![s] = @ \cup {ab}]
    BY <1>7 DEF B
  <2>3. consumed' = [consumed EXCEPT ![s] = Reassembly!Complete(Reassembly!Known(Arrived(s) \cup {ab}))]
    BY <1>1, <1>2, <1>3 DEF B, X
  <2>4. QED
    BY <2>1, <2>2, <2>3 DEF Reassembly!Arrive, Arrived
<1>10. QED
  BY <1>8, <1>9

LEMMA NextFollows ==
  Honest /\ RefInv /\ [Next]_vars /\ IInv' =>
      FollowsInv' /\ (Reassembly!Next \/ UNCHANGED <<received, consumed>>)
<1> SUFFICES ASSUME Honest, RefInv, [Next]_vars, IInv'
             PROVE  FollowsInv' /\ (Reassembly!Next \/ UNCHANGED <<received, consumed>>)
  OBVIOUS
<1>1. ASSUME UNCHANGED <<slots, received, consumed>>
      PROVE  FollowsInv'
  BY <1>1 DEF RefInv, FollowsInv, Arrived
<1>2. ASSUME NEW s \in Slots, NEW v \in Variants, NEW i \in Layout[v].shreds,
             InsertDataShred(s, v, i)
      PROVE  FollowsInv' /\ Reassembly!Next
  <2> DEFINE base == StateFor(s)
             f == FecOf[i]
             I == MissingIn(base, {i})
             st == Fill(base, {i}, v)
             sh == [kind |-> "data", variant |-> v, fec |-> f, index |-> i]
             ab == DataShred(f, i)
             A == Arrived(s)
             X == consumed[s]
             B == A \cup {ab}
  <2>1. i \in Index /\ f \in Index /\ i \in FecSetOf(f) /\ FecSetOf(f) \subseteq 0..End /\ {i} \in SUBSET Index
    BY LayoutAssumption, FecAssumption, EndExists DEF EndsAt, FecSetOf, Honest
  <2>2. ~Ignores(s) /\ Settle(st, s, f, I, sh)
    BY <1>2 DEF InsertDataShred
  <2>3. /\ base \in SlotState /\ CodingNum(base) /\ ~base.finished /\ NoCompleteIn(base)
        /\ EmittedIn(base) = Covered(X) /\ base.emitted = Cardinality(Covered(X))
    BY <2>2, StateForSlot DEF RefInv
  <2>4. Within(base) /\ Follows(base, A, X)
    BY <2>2, StateForWithin, StateForFollows DEF RefInv
  <2>5. st \in SlotState /\ Extends(base, st, I) /\ st.coding = base.coding
    BY <2>1, <2>3, FillAdds
  <2>6. CodingNum(st)
    BY <2>3, <2>5 DEF CodingNum
  <2>7. I \subseteq FecSetOf(f) /\ I \in SUBSET Index /\ OneOf(I, f)
    BY <2>1 DEF MissingIn, OneOf
  <2>8. EndsExact(st)
    BY <2>1, <2>3, <2>4, FillEnds DEF Follows, Tracks
  <2>9. WellFormed(B)
    BY <2>1, <2>4, OneMore DEF Follows
  <2>10. Inserted(st, B, f) /\ \A g \in Index \ {f} : SetTracked(st, B, g)
    BY <2>1, <2>3, <2>4, <2>9, DataInserted
  <2>11. /\ ab \in Reassembly!Shreds
         /\ ab = [kind |-> sh.kind, fec |-> sh.fec, index |-> sh.index]
    BY <2>1 DEF Reassembly!Shreds, DataShred
  <2> HIDE DEF st, I, f, ab
  <2>12. Within(st)
    <3>1. I \subseteq 0..End
      BY <2>1, <2>7
    <3>2. \A g \in Index : st.coding[g].num > 0 => FecSetOf(g) \subseteq 0..End
      BY <2>4, <2>5 DEF Within
    <3>3. QED
      BY <2>4, <2>5, <3>1, <3>2, ExtendsWithin DEF Honest
  <2>13. Poised(base, st, f, I, B, X)
    BY <2>1, <2>3, <2>4, <2>5, <2>6, <2>7, <2>8, <2>9, <2>10, <2>12 DEF Poised, Follows
  <2> HIDE DEF sh
  <2>14. FollowsInv' /\ Reassembly!Arrive(s, ab)
    BY <2>2, <2>11, <2>13, SettleArrives
  <2>15. QED
    BY <2>11, <2>14 DEF Reassembly!Next
<1>3. ASSUME NEW s \in Slots, NEW v \in Variants, NEW j \in CodeIndexes, NEW i \in Layout[v].shreds,
             InsertCodingShred(s, v, FecOf[i], j)
      PROVE  FollowsInv' /\ Reassembly!Next
  <2> DEFINE base == StateFor(s)
             f == FecOf[i]
             st == AddCoding(base, f, j, v)
             sh == [kind |-> "code", variant |-> v, fec |-> f, index |-> j]
             ab == CodeShred(f, j)
             A == Arrived(s)
             X == consumed[s]
             B == A \cup {ab}
  <2>1. i \in Index /\ f \in Index /\ i \in FecSetOf(f) /\ FecSetOf(f) \subseteq 0..End
    BY LayoutAssumption, FecAssumption, EndExists DEF EndsAt, FecSetOf, Honest
  <2>2. ~Ignores(s) /\ Settle(st, s, f, {}, sh)
    BY <1>3 DEF InsertCodingShred
  <2>3. /\ base \in SlotState /\ CodingNum(base) /\ ~base.finished /\ NoCompleteIn(base)
        /\ EmittedIn(base) = Covered(X) /\ base.emitted = Cardinality(Covered(X))
    BY <2>2, StateForSlot DEF RefInv
  <2>4. Within(base) /\ Follows(base, A, X)
    BY <2>2, StateForWithin, StateForFollows DEF RefInv
  <2>5. st \in SlotState /\ CodingNum(st) /\ SameButCoding(base, st)
    BY <2>1, <2>3, AddCodingKeeps
  <2>6. \A g \in Index \ {f} : st.coding[g] = base.coding[g]
    BY <2>1, <2>3, AddCodingNum
  <2>7. EndsExact(st)
    BY <2>4, <2>5 DEF Follows, Tracks, EndsExact, SameButCoding, Seen, Held, EmittedIn
  <2>8. WellFormed(B)
    BY <2>1, <2>4, OneMore DEF Follows
  <2>9. Inserted(st, B, f) /\ \A g \in Index \ {f} : SetTracked(st, B, g)
    BY <2>1, <2>3, <2>4, <2>8, CodeInserted
  <2>10. /\ ab \in Reassembly!Shreds
         /\ ab = [kind |-> sh.kind, fec |-> sh.fec, index |-> sh.index]
    BY <2>1 DEF Reassembly!Shreds, CodeShred
  <2> HIDE DEF st, f, ab
  <2>11. Extends(base, st, {})
    BY <2>5, SameButCodingExtends
  <2>12. Within(st)
    <3>1. \A g \in Index : st.coding[g].num > 0 => FecSetOf(g) \subseteq 0..End
      BY <2>1, <2>4, <2>6 DEF Within
    <3>2. QED
      BY <2>4, <2>11, <3>1, ExtendsWithin DEF Honest
  <2>13. OneOf({}, f)
    BY DEF OneOf
  <2>14. Poised(base, st, f, {}, B, X)
    BY <2>1, <2>3, <2>4, <2>5, <2>7, <2>8, <2>9, <2>11, <2>12, <2>13 DEF Poised, Follows
  <2> HIDE DEF sh
  <2>15. FollowsInv' /\ Reassembly!Arrive(s, ab)
    BY <2>2, <2>10, <2>14, SettleArrives
  <2>16. QED
    BY <2>10, <2>15 DEF Reassembly!Next
<1>4. ASSUME NEW s \in Slots, Discard(s)
      PROVE  FollowsInv' /\ UNCHANGED <<received, consumed>>
  BY <1>1, <1>4 DEF Discard
<1>5. CASE UNCHANGED vars
  BY <1>1, <1>5 DEF vars
<1>6. QED
  BY <1>2, <1>3, <1>4, <1>5 DEF Next

\* Every call on the deshredder is a step of DataSetReassembly or changes nothing it sees:
\* what is delivered for a slot is a function of the set of its shreds that arrived.
THEOREM Refines ==
  ASSUME Honest
  PROVE  Spec => OrderIndependent
<1>1. Init => RefInv
  <2> SUFFICES ASSUME Init PROVE RefInv
    OBVIOUS
  <2>1. \A r \in DOMAIN slots : slots[r] = NewState(NoIndex)
    BY DEF Init
  <2>2. EndInv
    BY <2>1, NewStateWithin DEF EndInv, FinishedIsComplete
  <2>3. FollowsInv
    <3>1. \A s \in Slots : received[s] = {}
      BY DEF Init
    <3>2. \A r \in DOMAIN slots : slots[r].slot = NoIndex
      BY <2>1, NewStateType
    <3>3. QED
      BY <3>1, <3>2 DEF FollowsInv
  <2>4. QED
    BY <2>2, <2>3, InitIInv DEF RefInv
<1>2. RefInv /\ [Next]_vars => RefInv'
  BY NextIInv, NextEnd, NextFollows DEF RefInv, Honest
<1>3. Init => Reassembly!Init
  <2>1. Init => [s \in Slots |-> {[kind |-> sh.kind, fec |-> sh.fec, index |-> sh.index] :
                                  sh \in received[s]}] = [s \in Slots |-> {}]
    BY DEF Init
  <2>2. QED
    BY <2>1 DEF Init, Reassembly!Init
<1>4. RefInv /\ [Next]_vars =>
        [Reassembly!Next]_<<[s \in Slots |-> {[kind |-> sh.kind, fec |-> sh.fec, index |-> sh.index] :
                                              sh \in received[s]}], consumed>>
  BY NextIInv, NextFollows DEF RefInv
<1>5. QED
  BY <1>1, <1>2, <1>3, <1>4, PTL DEF Spec, OrderIndependent, Reassembly!Spec
=============================================================================
