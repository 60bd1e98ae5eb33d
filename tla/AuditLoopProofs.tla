-------------------------- MODULE AuditLoopProofs --------------------------
(***************************************************************************)
(* Proofs about AuditLoop, for any number of providers and FEC sets, any   *)
(* layout of the sets, any payloads and receive times, and any length of   *)
(* the window.                                                             *)
(***************************************************************************)
EXTENDS AuditLoop, IntegerSets

-----------------------------------------------------------------------------
(* The inductive invariant. *)

\* The state of one pending set.
Typed(st) ==
    /\ st \in SetStates(DOMAIN st.arrivals)
    /\ DOMAIN st.arrivals \subseteq BOOLEAN \X Nat

\* What was seen for a set is of the set, and only what was seen is held against it.
SeenOfSet ==
    \A key \in DOMAIN sets :
        /\ \A d \in sets[key].seen : d.set = key[2]
        /\ sets[key].invalid \subseteq sets[key].seen

\* The window never moves back.
WindowForward == evicted_upto <= Cutoff

\* A set that has a row left the window, or a rotation drained it early.
RowsClosed ==
    \A r \in batch \cup emitted :
        r.set \in FecSets /\ (r.set \in drained \/ SlotOf[r.set] <= evicted_upto)

\* An authentic copy is held by its set as long as the window is open.
AcceptedHeld ==
    /\ IsFiniteSet(accepted)
    /\ \A a \in accepted :
           /\ a[2].copy \in Signed
           /\ SlotOf[a[2].set] > evicted_upto =>
                  /\ <<a[1], a[2].set>> \in DOMAIN sets
                  /\ a[2] \in sets[<<a[1], a[2].set>>].seen

LoopInv ==
    /\ TypeOK /\ SeenOfSet /\ WindowForward /\ RowsClosed /\ ClosedSetsStayClosed /\ AcceptedHeld

LEMMA InvInit == Init => LoopInv
<1> SUFFICES ASSUME Init PROVE LoopInv
  OBVIOUS
<1> USE DEF Init, AggInit
<1>1. TypeOK
  BY LoopAssumption DEF TypeOK
<1>2. SeenOfSet /\ RowsClosed /\ ClosedSetsStayClosed
  BY DEF SeenOfSet, RowsClosed, ClosedSetsStayClosed
<1>3. WindowForward
  BY AggregatorAssumption DEF WindowForward, Cutoff, Larger
<1>4. AcceptedHeld
  BY FS_EmptySet DEF AcceptedHeld
<1>5. QED
  BY <1>1, <1>2, <1>3, <1>4 DEF LoopInv

-----------------------------------------------------------------------------
(* A shred is ingested. *)

LEMMA PayloadFacts ==
  ASSUME NEW p \in Providers, NEW d \in Payloads
  PROVE  /\ d.set \in FecSets /\ d.code \in BOOLEAN /\ d.position \in Nat /\ d.copy \in Copies
         /\ SlotOf[d.set] \in Nat /\ NumData[d.set] \in Nat \ {0} /\ NumCoding[d.set] \in Nat
         /\ RxTime[p][d] \in Nat
         /\ <<p, d.set>> \in Key
BY AggregatorAssumption DEF Key

LEMMA NewSetTyped ==
  ASSUME NEW time \in Nat
  PROVE  Typed(NewSetState(time)) /\ NewSetState(time).seen = {} /\ NewSetState(time).invalid = {}
BY DEF Typed, NewSetState, SetStates, Time

\* Accepting a shred keeps the state of its set well typed.
LEMMA AcceptTyped ==
  ASSUME NEW st, Typed(st), NEW p \in Providers, NEW d \in Payloads, NEW time \in Nat
  PROVE  /\ Typed(Accept(st, d, time))
         /\ Accept(st, d, time).seen = st.seen \cup {d}
         /\ Accept(st, d, time).invalid = st.invalid
<1> DEFINE position == <<d.code, d.position>>
           new == Accept(st, d, time)
<1>1. position \in BOOLEAN \X Nat /\ NumData[d.set] \in Nat /\ NumCoding[d.set] \in Nat
  BY PayloadFacts
<1>2. st \in SetStates(DOMAIN st.arrivals) /\ DOMAIN st.arrivals \subseteq BOOLEAN \X Nat
  BY DEF Typed
<1>3. new.arrivals \in [DOMAIN new.arrivals -> Nat] /\ DOMAIN new.arrivals \subseteq BOOLEAN \X Nat
  BY <1>1, <1>2 DEF Accept, SetStates
<1>4. /\ new.num_data \in Time /\ new.num_coding \in Time /\ new.last_in_slot \in BOOLEAN
      /\ new.seen \subseteq Payloads /\ new.first \in Time /\ new.last \in Time
  BY <1>1, <1>2 DEF Accept, SetStates, Time, Smaller, Larger
<1>5. new \in SetStates(DOMAIN new.arrivals)
  BY <1>2, <1>3, <1>4 DEF Accept, SetStates
<1>6. Typed(new)
  BY <1>3, <1>5 DEF Typed
<1>7. new.seen = st.seen \cup {d} /\ new.invalid = st.invalid
  BY <1>2 DEF Accept, SetStates
<1>8. QED
  BY <1>6, <1>7

\* The state the shred is added to.
Before(p, d) ==
    IF <<p, d.set>> \in DOMAIN sets THEN sets[<<p, d.set>>] ELSE NewSetState(RxTime[p][d])

LEMMA BeforeTyped ==
  ASSUME LoopInv, NEW p \in Providers, NEW d \in Payloads
  PROVE  /\ Typed(Before(p, d))
         /\ \A e \in Before(p, d).seen : e.set = d.set
         /\ Before(p, d).invalid \subseteq Before(p, d).seen
<1>1. CASE <<p, d.set>> \in DOMAIN sets
  BY <1>1 DEF LoopInv, TypeOK, SeenOfSet, Typed, Before
<1>2. CASE <<p, d.set>> \notin DOMAIN sets
  BY <1>2, PayloadFacts, NewSetTyped DEF Before
<1>3. QED
  BY <1>1, <1>2

\* What Ingest does to the sets and to truth while the window of the shred's slot is open.
LEMMA IngestOpen ==
  ASSUME LoopInv, NEW p \in Providers, NEW d \in Payloads, Ingest(p, d, Verdict(d)),
         ~ AfterWindow(SlotOf[d.set])
  PROVE  LET key == <<p, d.set>>
             st == Before(p, d)
             duplicate == d \in st.seen
         IN /\ DOMAIN sets' = DOMAIN sets \cup {key}
            /\ \A k \in DOMAIN sets : k # key => sets'[k] = sets[k]
            /\ Typed(sets'[key])
            /\ sets'[key].seen = st.seen \cup {d}
            /\ sets'[key].invalid \subseteq st.invalid \cup {d}
            /\ ~ duplicate /\ Verdict(d) = "invalid" => sets'[key].invalid = st.invalid \cup {d}
            /\ duplicate \/ Verdict(d) # "invalid" => sets'[key].invalid = st.invalid
            /\ ~ duplicate /\ Verdict(d) = "authentic" =>
                  sets'[key] = Accept(st, d, RxTime[p][d])
            /\ duplicate \/ Verdict(d) # "authentic" =>
                  /\ sets'[key].arrivals = st.arrivals
                  /\ sets'[key].num_data = st.num_data
            /\ IF ~ duplicate /\ Verdict(d) = "authentic" /\ DataHash[d.copy] # None
               THEN truth' = [t \in DOMAIN truth \cup {TruthKey(d)} |->
                                  IF t = TruthKey(d) THEN DataHash[d.copy] ELSE truth[t]]
               ELSE truth' = truth
<1> DEFINE key == <<p, d.set>>
           st == Before(p, d)
           time == RxTime[p][d]
           duplicate == d \in st.seen
           next == IF duplicate THEN [st EXCEPT !.duplicated = @ + 1]
                   ELSE IF Verdict(d) = "invalid"
                   THEN [st EXCEPT !.seen = @ \cup {d}, !.invalid = @ \cup {d}]
                   ELSE IF Verdict(d) = "unverifiable"
                   THEN [st EXCEPT !.seen = @ \cup {d}, !.unverifiable = @ + 1]
                   ELSE Accept(st, d, time)
<1>1. sets' = [k \in DOMAIN sets \cup {key} |-> IF k = key THEN next ELSE sets[k]]
  BY DEF Ingest, Before
<1>2. IF ~ duplicate /\ Verdict(d) = "authentic" /\ DataHash[d.copy] # None
      THEN truth' = [t \in DOMAIN truth \cup {TruthKey(d)} |->
                         IF t = TruthKey(d) THEN DataHash[d.copy] ELSE truth[t]]
      ELSE truth' = truth
  BY DEF Ingest, Before
<1>3. Typed(st) /\ time \in Nat
  BY BeforeTyped, PayloadFacts
<1>4. Verdict(d) \in {"authentic", "invalid", "unverifiable"}
  BY DEF Verdict
<1>5. sets'[key] = next /\ \A k \in DOMAIN sets : k # key => sets'[k] = sets[k]
  BY <1>1
<1>6. /\ Typed(Accept(st, d, time))
      /\ Accept(st, d, time).seen = st.seen \cup {d}
      /\ Accept(st, d, time).invalid = st.invalid
  BY <1>3, AcceptTyped
<1>7. /\ Typed(next) /\ next.seen = st.seen \cup {d}
      /\ next.invalid \subseteq st.invalid \cup {d}
      /\ ~ duplicate /\ Verdict(d) = "invalid" => next.invalid = st.invalid \cup {d}
      /\ duplicate \/ Verdict(d) # "invalid" => next.invalid = st.invalid
      /\ ~ duplicate /\ Verdict(d) = "authentic" => next = Accept(st, d, time)
      /\ duplicate \/ Verdict(d) # "authentic" =>
            next.arrivals = st.arrivals /\ next.num_data = st.num_data
  <2> HIDE DEF st
  <2>1. st \in SetStates(DOMAIN st.arrivals) /\ DOMAIN st.arrivals \subseteq BOOLEAN \X Nat
    BY <1>3 DEF Typed
  <2>2. CASE duplicate
    BY <2>1, <2>2 DEF Typed, SetStates
  <2>3. CASE ~ duplicate /\ Verdict(d) = "invalid"
    BY <2>1, <2>3 DEF Typed, SetStates
  <2>4. CASE ~ duplicate /\ Verdict(d) = "unverifiable"
    <3>1. next = [st EXCEPT !.seen = @ \cup {d}, !.unverifiable = @ + 1]
      BY <2>4
    <3>2. /\ next \in SetStates(DOMAIN next.arrivals) /\ next.arrivals = st.arrivals
          /\ next.seen = st.seen \cup {d} /\ next.invalid = st.invalid
          /\ next.num_data = st.num_data
      <4> HIDE DEF next
      <4>1. /\ next.arrivals = st.arrivals /\ next.seen = st.seen \cup {d}
            /\ next.invalid = st.invalid /\ next.num_data = st.num_data
        BY <2>1, <3>1 DEF SetStates
      <4>2. st.unverifiable + 1 \in Nat
        BY <2>1 DEF SetStates
      <4>3. next \in SetStates(DOMAIN st.arrivals)
        BY <2>1, <3>1, <4>2 DEF SetStates
      <4>4. QED
        BY <4>1, <4>3
    <3>3. QED
      BY <2>1, <2>4, <3>2 DEF Typed
  <2>5. CASE ~ duplicate /\ Verdict(d) = "authentic"
    BY <1>6, <2>5
  <2>6. QED
    BY <1>4, <2>2, <2>3, <2>4, <2>5
<1>8. QED
  <2> HIDE DEF next, st
  <2> QED
    BY <1>1, <1>2, <1>5, <1>7 DEF st

\* A shred the window is closed for is only counted.
LEMMA IngestClosed ==
  ASSUME LoopInv, NEW p \in Providers, NEW d \in Payloads, Ingest(p, d, Verdict(d)),
         AfterWindow(SlotOf[d.set])
  PROVE  sets' = sets /\ truth' = truth
BY DEF Ingest

LEMMA IngestCounters ==
  ASSUME LoopInv, NEW p \in Providers, NEW d \in Payloads, Ingest(p, d, Verdict(d))
  PROVE  /\ max_slot' \in Nat /\ max_slot <= max_slot' /\ shreds_after_window' \in Nat
         /\ latest_slot' \in [Providers -> Nat] /\ evicted_upto' = evicted_upto
         /\ Cutoff <= Cutoff'
<1>1. SlotOf[d.set] \in Nat /\ max_slot \in Nat /\ shreds_after_window \in Nat
      /\ latest_slot \in [Providers -> Nat]
  BY PayloadFacts DEF LoopInv, TypeOK
<1>2. max_slot' \in Nat /\ max_slot <= max_slot' /\ evicted_upto' = evicted_upto
  BY <1>1 DEF Ingest, Larger
<1>3. shreds_after_window' \in Nat
  BY <1>1 DEF Ingest
<1>4. latest_slot' \in [Providers -> Nat]
  BY <1>1 DEF Ingest, Larger
<1>5. Cutoff <= Cutoff'
  <2>1. MaxWaitSlots \in Nat
    BY AggregatorAssumption
  <2>2. ASSUME NEW m \in Nat, NEW n \in Nat, m <= n
        PROVE  Larger(m - MaxWaitSlots, 0) <= Larger(n - MaxWaitSlots, 0)
    BY <2>1, <2>2 DEF Larger
  <2>3. QED
    BY <1>1, <1>2, <2>2 DEF Cutoff
<1>6. QED
  BY <1>2, <1>3, <1>4, <1>5

LEMMA ReceiveStep ==
  ASSUME LoopInv, NEW p \in Providers, NEW d \in Payloads, Receive(p, d)
  PROVE  LoopInv'
<1> DEFINE key == <<p, d.set>>
           open == ~ AfterWindow(SlotOf[d.set])
<1>1. Ingest(p, d, Verdict(d)) /\ batch' = batch /\ emitted' = emitted /\ drained' = drained
  BY DEF Receive
<1>2. /\ d.set \in FecSets /\ d.code \in BOOLEAN /\ d.position \in Nat
      /\ SlotOf[d.set] \in Nat /\ key \in Key
  BY PayloadFacts
<1>3. evicted_upto' = evicted_upto /\ evicted_upto \in Nat
  BY <1>1, IngestCounters DEF LoopInv, TypeOK
<1>4. open => SlotOf[d.set] > evicted_upto
  BY <1>2, <1>3 DEF AfterWindow
<1>a. open =>
        /\ DOMAIN sets' = DOMAIN sets \cup {key}
        /\ \A k \in DOMAIN sets : k # key => sets'[k] = sets[k]
        /\ Typed(sets'[key])
        /\ sets'[key].seen = Before(p, d).seen \cup {d}
        /\ sets'[key].invalid \subseteq Before(p, d).invalid \cup {d}
        /\ key \in DOMAIN sets => Before(p, d) = sets[key]
  BY <1>1, IngestOpen DEF Before
<1>b. ~ open => sets' = sets /\ truth' = truth
  BY <1>1, IngestClosed
<1>c. key[2] = d.set
  OBVIOUS
<1> HIDE DEF key, open
<1>5. TypeOK'
  <2>1. DOMAIN sets' \subseteq Key
    BY <1>2, <1>a, <1>b DEF LoopInv, TypeOK
  <2>2. \A k \in DOMAIN sets' : Typed(sets'[k]) /\ SlotOf[k[2]] > evicted_upto'
    <3>1. \A k \in DOMAIN sets : Typed(sets[k]) /\ SlotOf[k[2]] > evicted_upto
      BY DEF LoopInv, TypeOK, Typed
    <3>2. QED
      BY <1>3, <1>4, <1>a, <1>b, <1>c, <3>1
  <2>3. \A t \in DOMAIN truth' : t \in FecSets \X BOOLEAN \X Nat /\ SlotOf[t[1]] > evicted_upto'
    <3>1. \A t \in DOMAIN truth : t \in FecSets \X BOOLEAN \X Nat /\ SlotOf[t[1]] > evicted_upto
      BY DEF LoopInv, TypeOK
    <3>2. CASE open
      <4>1. DOMAIN truth' \subseteq DOMAIN truth \cup {TruthKey(d)}
        BY <1>1, <3>2, IngestOpen DEF open
      <4>2. TruthKey(d) \in FecSets \X BOOLEAN \X Nat /\ SlotOf[TruthKey(d)[1]] > evicted_upto
        BY <1>2, <1>4, <3>2 DEF TruthKey
      <4>3. QED
        BY <1>3, <3>1, <4>1, <4>2
    <3>3. CASE ~ open
      BY <1>3, <1>b, <3>1, <3>3
    <3>4. QED
      BY <3>2, <3>3
  <2>4. phase' \in {"looping", "ingesting", "draining", "done"} /\ epoch' \in 0..LastEpoch
        /\ drained' \subseteq FecSets
    BY DEF LoopInv, TypeOK, Receive
  <2>5. accepted' \subseteq Providers \X Payloads
    BY DEF LoopInv, TypeOK, Receive
  <2>6. QED
    BY <1>1, <1>3, <2>1, <2>2, <2>3, <2>4, <2>5, IngestCounters DEF TypeOK, Typed
<1>6. SeenOfSet'
  <2>1. ASSUME open, NEW k \in DOMAIN sets'
        PROVE  /\ \A e \in sets'[k].seen : e.set = k[2]
               /\ sets'[k].invalid \subseteq sets'[k].seen
    <3>1. CASE k = key
      BY <1>a, <1>c, <2>1, <3>1, BeforeTyped
    <3>2. CASE k # key
      BY <1>a, <2>1, <3>2 DEF LoopInv, SeenOfSet
    <3>3. QED
      BY <3>1, <3>2
  <2>2. CASE ~ open
    BY <1>b, <2>2 DEF LoopInv, SeenOfSet
  <2>3. QED
    BY <2>1, <2>2 DEF SeenOfSet
<1>7. WindowForward'
  <2>1. Cutoff \in Int /\ Cutoff' \in Int
    BY <1>1, IngestCounters, AggregatorAssumption DEF Cutoff, Larger, LoopInv, TypeOK
  <2>2. QED
    BY <1>1, <1>3, <2>1, IngestCounters DEF LoopInv, WindowForward
<1>8. RowsClosed' /\ ClosedSetsStayClosed'
  BY <1>1, <1>3 DEF LoopInv, RowsClosed, ClosedSetsStayClosed
<1>9. AcceptedHeld'
  <2>1. ASSUME NEW a \in accepted, SlotOf[a[2].set] > evicted_upto
        PROVE  <<a[1], a[2].set>> \in DOMAIN sets' /\ a[2] \in sets'[<<a[1], a[2].set>>].seen
    <3>1. <<a[1], a[2].set>> \in DOMAIN sets /\ a[2] \in sets[<<a[1], a[2].set>>].seen
      BY <2>1 DEF LoopInv, AcceptedHeld
    <3>2. QED
      BY <1>a, <1>b, <3>1
  <2>2. CASE accepted' = accepted
    BY <1>3, <2>1, <2>2 DEF LoopInv, AcceptedHeld
  <2>3. CASE accepted' # accepted
    <3>1. /\ Verdict(d) = "authentic" /\ open /\ accepted' = accepted \cup {<<p, d>>}
      BY <2>3 DEF Receive, open
    <3>2. d.copy \in Signed
      BY <3>1 DEF Verdict
    <3>3. <<p, d.set>> \in DOMAIN sets' /\ d \in sets'[<<p, d.set>>].seen
      BY <1>a, <3>1 DEF key
    <3>4. IsFiniteSet(accepted')
      BY <3>1, FS_AddElement DEF LoopInv, AcceptedHeld
    <3>5. QED
      BY <1>3, <2>1, <3>1, <3>2, <3>3, <3>4 DEF LoopInv, AcceptedHeld
  <2>4. QED
    BY <2>2, <2>3
<1>10. QED
  BY <1>5, <1>6, <1>7, <1>8, <1>9 DEF LoopInv

-----------------------------------------------------------------------------
(* A harvest, a rotation and the end of the run. *)

\* What a harvest leaves: of the sets those it does not emit, and a window that ends at the
\* cutoff whether or not it moved.
LEMMA HarvestLeaves ==
  ASSUME LoopInv, NEW drain \in BOOLEAN, Harvest(drain)
  PROVE  /\ DOMAIN sets' = {key \in DOMAIN sets : ~ drain /\ SlotOf[key[2]] > Cutoff}
         /\ \A key \in DOMAIN sets' : sets'[key] = sets[key]
         /\ DOMAIN truth' = {t \in DOMAIN truth : ~ drain /\ SlotOf[t[1]] > Cutoff}
         /\ \A t \in DOMAIN truth' : truth'[t] = truth[t]
         /\ evicted_upto' = Cutoff /\ Cutoff' = Cutoff
         /\ UNCHANGED <<max_slot, latest_slot, shreds_after_window>>
<1>1. Cutoff \in Nat /\ evicted_upto \in Nat /\ evicted_upto <= Cutoff
  BY AggregatorAssumption DEF LoopInv, TypeOK, WindowForward, Cutoff, Larger
<1>2. /\ \A key \in DOMAIN sets : SlotOf[key[2]] \in Nat /\ SlotOf[key[2]] > evicted_upto
      /\ \A t \in DOMAIN truth : SlotOf[t[1]] \in Nat /\ SlotOf[t[1]] > evicted_upto
  BY AggregatorAssumption DEF LoopInv, TypeOK, Key
<1>3. UNCHANGED <<max_slot, latest_slot, shreds_after_window>> /\ Cutoff' = Cutoff
  BY DEF Harvest, Cutoff
<1>4. /\ DOMAIN sets' = DOMAIN sets \ Ready(drain)
      /\ \A key \in DOMAIN sets' : sets'[key] = sets[key]
  BY DEF Harvest, Restrict
<1>5. DOMAIN sets' = {key \in DOMAIN sets : ~ drain /\ SlotOf[key[2]] > Cutoff}
  <2>1. \A key \in DOMAIN sets : SlotOf[key[2]] > Cutoff <=> ~ (SlotOf[key[2]] <= Cutoff)
    BY <1>1, <1>2
  <2>2. QED
    BY <1>4, <2>1 DEF Ready
<1>6. CASE drain
  BY <1>3, <1>4, <1>5, <1>6 DEF Harvest
<1>7. CASE ~ drain /\ Cutoff > evicted_upto
  BY <1>3, <1>4, <1>5, <1>7 DEF Harvest, Restrict
<1>8. CASE ~ drain /\ ~ (Cutoff > evicted_upto)
  <2>1. UNCHANGED <<truth, evicted_upto>> /\ evicted_upto = Cutoff
    BY <1>1, <1>8 DEF Harvest
  <2>2. DOMAIN truth = {t \in DOMAIN truth : SlotOf[t[1]] > Cutoff}
    BY <1>2, <2>1
  <2>3. QED
    BY <1>3, <1>4, <1>5, <1>8, <2>1, <2>2
<1>9. QED
  BY <1>6, <1>7, <1>8

\* A row of a harvest belongs to a pending set the window was open for.
LEMMA RowIsPending ==
  ASSUME LoopInv, NEW drain \in BOOLEAN, NEW r \in HarvestRows(drain)
  PROVE  \E key \in Ready(drain) :
            /\ r = SetRow(key) /\ r.provider = key[1] /\ r.set = key[2]
            /\ r.set \in FecSets /\ SlotOf[r.set] \in Nat /\ SlotOf[r.set] > evicted_upto
<1>1. PICK key \in Ready(drain) : r = SetRow(key)
  BY DEF HarvestRows
<1>2. r.provider = key[1] /\ r.set = key[2]
  BY <1>1 DEF SetRow
<1>3. key \in Key /\ SlotOf[key[2]] > evicted_upto
  BY DEF LoopInv, TypeOK, Ready
<1>4. QED
  BY <1>1, <1>2, <1>3, AggregatorAssumption DEF Key

LEMMA EmitStep ==
  ASSUME LoopInv, NEW drain \in BOOLEAN, Emit(drain), epoch' = epoch,
         phase' \in {"looping", "ingesting", "draining", "done"},
         accepted' = IF drain THEN {} ELSE accepted
  PROVE  LoopInv'
<1>1. /\ DOMAIN sets' = {key \in DOMAIN sets : ~ drain /\ SlotOf[key[2]] > Cutoff}
      /\ \A key \in DOMAIN sets' : sets'[key] = sets[key]
      /\ DOMAIN truth' = {t \in DOMAIN truth : ~ drain /\ SlotOf[t[1]] > Cutoff}
      /\ evicted_upto' = Cutoff /\ Cutoff' = Cutoff
      /\ UNCHANGED <<max_slot, latest_slot, shreds_after_window>>
  BY HarvestLeaves DEF Emit
<1>2. Cutoff \in Nat /\ evicted_upto \in Nat /\ evicted_upto <= Cutoff
  BY AggregatorAssumption DEF LoopInv, TypeOK, WindowForward, Cutoff, Larger
<1>3. \A f \in FecSets : SlotOf[f] \in Nat
  BY AggregatorAssumption
<1>4. /\ batch' = HarvestRows(drain) /\ emitted' = batch \cup emitted
      /\ drained' = IF drain
                    THEN drained \cup {k[2] : k \in {q \in Ready(TRUE) : SlotOf[q[2]] > Cutoff}}
                    ELSE drained
  BY DEF Emit
<1>5. TypeOK'
  <2>1. drained' \subseteq FecSets
    BY <1>4 DEF Ready, LoopInv, TypeOK, Key
  <2>2. DOMAIN sets' \subseteq Key
    BY <1>1 DEF LoopInv, TypeOK
  <2>3. \A key \in DOMAIN sets' : Typed(sets'[key]) /\ SlotOf[key[2]] > evicted_upto'
    BY <1>1 DEF LoopInv, TypeOK, Typed
  <2>4. \A t \in DOMAIN truth' : t \in FecSets \X BOOLEAN \X Nat /\ SlotOf[t[1]] > evicted_upto'
    BY <1>1 DEF LoopInv, TypeOK
  <2>5. accepted' \subseteq Providers \X Payloads /\ epoch' \in 0..LastEpoch
    BY DEF LoopInv, TypeOK
  <2>6. max_slot' \in Nat /\ shreds_after_window' \in Nat /\ latest_slot' \in [Providers -> Nat]
        /\ evicted_upto' \in Nat
    BY <1>1, <1>2 DEF LoopInv, TypeOK
  <2>7. QED
    BY <2>1, <2>2, <2>3, <2>4, <2>5, <2>6 DEF TypeOK, Typed
<1>6. SeenOfSet'
  BY <1>1 DEF LoopInv, SeenOfSet
<1>7. WindowForward'
  BY <1>1, <1>2 DEF WindowForward
<1>8. RowsClosed'
  <2>1. ASSUME NEW r \in batch'
        PROVE  r.set \in FecSets /\ (r.set \in drained' \/ SlotOf[r.set] <= Cutoff)
    <3>1. PICK key \in Ready(drain) : r.set = key[2] /\ r.set \in FecSets
      BY <1>4, <2>1, RowIsPending
    <3>2. key \in Ready(TRUE) /\ (drain \/ SlotOf[key[2]] <= Cutoff)
      BY DEF Ready
    <3>3. CASE SlotOf[key[2]] > Cutoff
      <4>1. drain
        BY <1>2, <1>3, <3>1, <3>2, <3>3
      <4>2. key[2] \in drained'
        BY <1>4, <3>2, <3>3, <4>1
      <4>3. QED
        BY <3>1, <4>2
    <3>4. CASE ~ (SlotOf[key[2]] > Cutoff)
      BY <1>2, <1>3, <3>1, <3>4
    <3>5. QED
      BY <3>3, <3>4
  <2>2. ASSUME NEW r \in emitted'
        PROVE  r.set \in FecSets /\ (r.set \in drained' \/ SlotOf[r.set] <= Cutoff)
    <3>1. r.set \in FecSets /\ (r.set \in drained \/ SlotOf[r.set] <= evicted_upto)
      BY <1>4, <2>2 DEF LoopInv, RowsClosed
    <3>2. drained \subseteq drained'
      BY <1>4
    <3>3. QED
      BY <1>2, <1>3, <3>1, <3>2
  <2>3. QED
    BY <1>1, <2>1, <2>2 DEF RowsClosed
<1>9. ClosedSetsStayClosed'
  <2> SUFFICES ASSUME NEW r \in batch', NEW e \in emitted', r.set = e.set
               PROVE  e.set \in drained'
    BY DEF ClosedSetsStayClosed
  <2>1. SlotOf[r.set] \in Nat /\ SlotOf[r.set] > evicted_upto
    BY <1>4, RowIsPending
  <2>2. e.set \in drained
    BY <1>2, <1>4, <2>1 DEF LoopInv, RowsClosed
  <2>3. QED
    BY <1>4, <2>2
<1>10. AcceptedHeld'
  <2>1. CASE drain
    BY <2>1, FS_EmptySet DEF AcceptedHeld
  <2>2. CASE ~ drain
    <3>1. ASSUME NEW a \in accepted, SlotOf[a[2].set] > Cutoff
          PROVE  <<a[1], a[2].set>> \in DOMAIN sets' /\ a[2] \in sets'[<<a[1], a[2].set>>].seen
      <4>1. a[2].set \in FecSets
        BY AggregatorAssumption DEF LoopInv, TypeOK
      <4>2. SlotOf[a[2].set] > evicted_upto
        BY <1>2, <1>3, <3>1, <4>1
      <4>3. <<a[1], a[2].set>> \in DOMAIN sets /\ a[2] \in sets[<<a[1], a[2].set>>].seen
        BY <4>2 DEF LoopInv, AcceptedHeld
      <4>4. PICK key \in DOMAIN sets : key = <<a[1], a[2].set>>
        BY <4>3
      <4>5. key \in DOMAIN sets' /\ sets'[key] = sets[key]
        BY <1>1, <2>2, <3>1, <4>4
      <4>6. QED
        BY <4>3, <4>4, <4>5
    <3>2. QED
      BY <1>1, <2>2, <3>1 DEF LoopInv, AcceptedHeld
  <2>3. QED
    BY <2>1, <2>2
<1>11. QED
  BY <1>5, <1>6, <1>7, <1>8, <1>9, <1>10 DEF LoopInv

LEMMA InvStep == LoopInv /\ [Next]_vars => LoopInv'
<1> SUFFICES ASSUME LoopInv, [Next]_vars PROVE LoopInv'
  OBVIOUS
<1>1. ASSUME NEW p \in Providers, NEW d \in Payloads, Receive(p, d) PROVE LoopInv'
  BY <1>1, ReceiveStep
<1>2. CASE HarvestWindow
  BY <1>2, EmitStep DEF HarvestWindow
<1>3. ASSUME UNCHANGED aggVars, epoch' \in 0..LastEpoch,
             UNCHANGED <<batch, emitted, drained, accepted>>,
             phase' \in {"looping", "ingesting", "draining", "done"}
      PROVE  LoopInv'
  <2>1. TypeOK'
    BY <1>3 DEF LoopInv, TypeOK, aggVars
  <2>2. SeenOfSet'
    BY <1>3 DEF LoopInv, SeenOfSet, aggVars
  <2>3. WindowForward'
    BY <1>3 DEF LoopInv, WindowForward, Cutoff, aggVars
  <2>4. RowsClosed' /\ ClosedSetsStayClosed'
    BY <1>3 DEF LoopInv, RowsClosed, ClosedSetsStayClosed, aggVars
  <2>5. AcceptedHeld'
    BY <1>3 DEF LoopInv, AcceptedHeld, aggVars
  <2>6. QED
    BY <2>1, <2>2, <2>3, <2>4, <2>5 DEF LoopInv
<1>4. CASE RefreshSchedule
  <2>1. epoch' \in 0..LastEpoch
    BY <1>4, LoopAssumption DEF RefreshSchedule, LoopInv, TypeOK
  <2>2. QED
    BY <1>3, <1>4, <2>1 DEF RefreshSchedule, LoopInv, TypeOK
<1>5. CASE Rotate
  BY <1>5, EmitStep DEF Rotate, LoopInv, TypeOK
<1>6. CASE Shutdown
  BY <1>3, <1>6 DEF Shutdown, LoopInv, TypeOK
<1>7. CASE Close
  BY <1>7, EmitStep DEF Close
<1>8. CASE UNCHANGED vars
  BY <1>3, <1>8 DEF vars, aggVars, loopVars, LoopInv, TypeOK
<1>9. QED
  BY <1>1, <1>2, <1>4, <1>5, <1>6, <1>7, <1>8 DEF Next

\* The inductive invariant: the window only moves forward, a set with a row is behind it unless
\* a rotation drained the set, and an authentic copy stays with its pending set (agg.rs, main.rs).
THEOREM LoopInvariant == Spec => []LoopInv
  BY InvInit, InvStep, PTL DEF Spec

\* The pending sets, the truth and the counters are well typed, and nothing is kept for a slot
\* whose window has closed (Aggregator::ingest and harvest).
THEOREM LoopTypes == Spec => []TypeOK
<1>1. LoopInv => TypeOK
  BY DEF LoopInv
<1>2. QED
  BY <1>1, LoopInvariant, PTL

\* A FEC set gets one row from each provider, however late its stragglers are and whenever the
\* archive rotates, unless the rotation drained the set while its window was open.
THEOREM NoSecondRow == Spec => []ClosedSetsStayClosed
<1>1. LoopInv => ClosedSetsStayClosed
  BY DEF LoopInv
<1>2. QED
  BY <1>1, LoopInvariant, PTL

-----------------------------------------------------------------------------
(* What bad shreds are compared with. *)

\* The leader signs one block: the signed copies of a position carry the same block data.
OneBlock == \A c, e \in Signed : DataHash[c] # None /\ DataHash[c] = DataHash[e]

\* truth has the signed copy of every position of an open slot that one was accepted for.
TruthExact ==
    /\ \A t \in DOMAIN truth : \E a \in accepted :
           TruthKey(a[2]) = t /\ truth[t] = DataHash[a[2].copy]
    /\ \A a \in accepted : SlotOf[a[2].set] > evicted_upto => TruthKey(a[2]) \in DOMAIN truth

\* Whether Receive adds to accepted.
Accepts(p, d) == Verdict(d) = "authentic" /\ ~ AfterWindow(SlotOf[d.set]) /\ d \notin Before(p, d).seen

LEMMA ReceiveAccepts ==
  ASSUME NEW p \in Providers, NEW d \in Payloads, Receive(p, d)
  PROVE  /\ accepted' = IF Accepts(p, d) THEN accepted \cup {<<p, d>>} ELSE accepted
         /\ Accepts(p, d) => d.copy \in Signed
<1>1. IsNew(p, d) <=> d \notin Before(p, d).seen
  BY DEF IsNew, Before, NewSetState
<1>2. QED
  BY <1>1 DEF Receive, Accepts, Verdict

LEMMA TruthStep ==
  ASSUME OneBlock
  PROVE  LoopInv /\ TruthExact /\ [Next]_vars => TruthExact'
<1> SUFFICES ASSUME LoopInv, TruthExact, [Next]_vars PROVE TruthExact'
  OBVIOUS
<1>1. ASSUME NEW p \in Providers, NEW d \in Payloads, Receive(p, d) PROVE TruthExact'
  <2>1. Ingest(p, d, Verdict(d)) /\ evicted_upto' = evicted_upto
    BY <1>1, IngestCounters DEF Receive
  <2>2. /\ accepted' = IF Accepts(p, d) THEN accepted \cup {<<p, d>>} ELSE accepted
        /\ Accepts(p, d) => DataHash[d.copy] # None
    BY <1>1, ReceiveAccepts DEF OneBlock
  <2>3. CASE Accepts(p, d)
    <3>1. truth' = [t \in DOMAIN truth \cup {TruthKey(d)} |->
                       IF t = TruthKey(d) THEN DataHash[d.copy] ELSE truth[t]]
      <4>1. ~ AfterWindow(SlotOf[d.set]) /\ Verdict(d) = "authentic"
            /\ d \notin Before(p, d).seen /\ DataHash[d.copy] # None
        BY <2>2, <2>3 DEF Accepts
      <4>2. IF d \notin Before(p, d).seen /\ Verdict(d) = "authentic" /\ DataHash[d.copy] # None
            THEN truth' = [t \in DOMAIN truth \cup {TruthKey(d)} |->
                               IF t = TruthKey(d) THEN DataHash[d.copy] ELSE truth[t]]
            ELSE truth' = truth
        BY <2>1, <4>1, IngestOpen
      <4>3. QED
        BY <4>1, <4>2
    <3>2. ASSUME NEW t \in DOMAIN truth'
          PROVE  \E a \in accepted' : TruthKey(a[2]) = t /\ truth'[t] = DataHash[a[2].copy]
      <4>1. CASE t = TruthKey(d)
        <5>1. <<p, d>> \in accepted' /\ truth'[t] = DataHash[d.copy]
          BY <2>2, <2>3, <3>1, <4>1
        <5>2. QED
          BY <4>1, <5>1
      <4>2. CASE t # TruthKey(d)
        <5>1. t \in DOMAIN truth /\ truth'[t] = truth[t] /\ accepted \subseteq accepted'
          BY <2>2, <2>3, <3>1, <4>2
        <5>2. QED
          BY <5>1 DEF TruthExact
      <4>3. QED
        BY <4>1, <4>2
    <3>3. ASSUME NEW a \in accepted', SlotOf[a[2].set] > evicted_upto'
          PROVE  TruthKey(a[2]) \in DOMAIN truth'
      <4>1. DOMAIN truth' = DOMAIN truth \cup {TruthKey(d)}
        BY <3>1
      <4>2. a \in accepted \/ a = <<p, d>>
        BY <2>2, <2>3
      <4>3. QED
        BY <2>1, <3>3, <4>1, <4>2 DEF TruthExact
    <3>4. QED
      BY <3>2, <3>3 DEF TruthExact
  <2>4. CASE ~ Accepts(p, d)
    <3>1. truth' = truth
      <4>1. CASE AfterWindow(SlotOf[d.set])
        BY <2>1, <4>1, IngestClosed
      <4>2. CASE ~ AfterWindow(SlotOf[d.set])
        BY <2>1, <2>4, <4>2, IngestOpen DEF Accepts
      <4>3. QED
        BY <4>1, <4>2
    <3>2. QED
      BY <2>1, <2>2, <2>4, <3>1 DEF TruthExact
  <2>5. QED
    BY <2>3, <2>4
<1>2. ASSUME NEW drain \in BOOLEAN, Emit(drain), accepted' = IF drain THEN {} ELSE accepted
      PROVE  TruthExact'
  <2>1. /\ DOMAIN truth' = {t \in DOMAIN truth : ~ drain /\ SlotOf[t[1]] > Cutoff}
        /\ \A t \in DOMAIN truth' : truth'[t] = truth[t]
        /\ evicted_upto' = Cutoff
    BY <1>2, HarvestLeaves DEF Emit
  <2>2. CASE drain
    BY <1>2, <2>1, <2>2 DEF TruthExact
  <2>3. CASE ~ drain
    <3>1. ASSUME NEW a \in accepted, SlotOf[a[2].set] > Cutoff
          PROVE  TruthKey(a[2]) \in DOMAIN truth'
      <4>1. SlotOf[a[2].set] \in Nat /\ Cutoff \in Nat /\ evicted_upto \in Nat
            /\ evicted_upto <= Cutoff
        BY AggregatorAssumption
           DEF LoopInv, TypeOK, WindowForward, Cutoff, Larger
      <4>2. SlotOf[a[2].set] > evicted_upto
        BY <3>1, <4>1
      <4>3. TruthKey(a[2]) \in DOMAIN truth /\ TruthKey(a[2])[1] = a[2].set
        BY <4>2 DEF TruthExact, TruthKey
      <4>4. QED
        BY <2>1, <2>3, <3>1, <4>3
    <3>2. QED
      BY <1>2, <2>1, <2>3, <3>1 DEF TruthExact
  <2>4. QED
    BY <2>2, <2>3
<1>3. CASE HarvestWindow
  BY <1>2, <1>3 DEF HarvestWindow
<1>4. CASE Rotate
  BY <1>2, <1>4 DEF Rotate
<1>5. CASE Close
  BY <1>2, <1>5 DEF Close
<1>6. CASE RefreshSchedule \/ Shutdown \/ UNCHANGED vars
  BY <1>6 DEF RefreshSchedule, Shutdown, vars, aggVars, loopVars, TruthExact
<1>7. QED
  BY <1>1, <1>3, <1>4, <1>5, <1>6 DEF Next

\* If the leader signed one block, a bad shred that is pending is compared with the signed copy
\* of its position exactly when some provider delivered one since the last drain: what finalize
\* says of it depends neither on the order of the two nor on what the window pruned.
THEOREM BadShredsCompared ==
  ASSUME OneBlock
  PROVE  Spec => []SplitIsExact
<1>1. Init => TruthExact
  BY DEF Init, AggInit, TruthExact
<1>2. LoopInv /\ TruthExact => SplitIsExact
  <2> SUFFICES ASSUME LoopInv, TruthExact, NEW key \in DOMAIN sets, NEW d \in sets[key].invalid
               PROVE  LET copies == {DataHash[a[2].copy] : a \in {b \in accepted :
                                        b[2].set = d.set /\ b[2].code = d.code
                                        /\ b[2].position = d.position}}
                      IN  Compared(d) =
                              IF DataHash[d.copy] = None \/ copies = {} THEN "unknown"
                              ELSE IF DataHash[d.copy] \in copies THEN "sig" ELSE "data"
    BY DEF SplitIsExact
  <2> DEFINE same == {b \in accepted : b[2].set = d.set /\ b[2].code = d.code
                                       /\ b[2].position = d.position}
             copies == {DataHash[a[2].copy] : a \in same}
  <2>1. d.set = key[2] /\ SlotOf[d.set] > evicted_upto
    BY DEF LoopInv, TypeOK, SeenOfSet
  <2>2. \A a \in accepted : a \in same <=> TruthKey(a[2]) = TruthKey(d)
    BY DEF TruthKey
  <2>3. \A a \in accepted, b \in accepted : DataHash[a[2].copy] = DataHash[b[2].copy]
    BY DEF LoopInv, AcceptedHeld, OneBlock
  <2>4. CASE TruthKey(d) \in DOMAIN truth
    <3>1. PICK a \in accepted : TruthKey(a[2]) = TruthKey(d)
                                /\ truth[TruthKey(d)] = DataHash[a[2].copy]
      BY <2>4 DEF TruthExact
    <3>2. a \in same /\ \A h \in copies : h = truth[TruthKey(d)]
      BY <2>2, <2>3, <3>1
    <3>3. copies = {truth[TruthKey(d)]}
      BY <3>1, <3>2
    <3>4. QED
      BY <2>4, <3>3 DEF Compared
  <2>5. CASE TruthKey(d) \notin DOMAIN truth
    <3>1. same = {}
      <4>1. \A a \in same : TruthKey(a[2]) \in DOMAIN truth
        BY <2>1 DEF TruthExact
      <4>2. QED
        BY <2>2, <2>5, <4>1
    <3>2. copies = {}
      BY <3>1
    <3>3. QED
      BY <2>5, <3>2 DEF Compared
  <2>6. QED
    BY <2>4, <2>5
<1>3. Spec => [](LoopInv /\ TruthExact)
  BY InvInit, InvStep, TruthStep, <1>1, PTL DEF Spec
<1>4. QED
  BY <1>2, <1>3, PTL

-----------------------------------------------------------------------------
(* The k-th arrival. *)

\* The arrivals up to and before a time.
UpTo(arrivals, t) == {q \in DOMAIN arrivals : arrivals[q] <= t}
Prior(arrivals, t) == {q \in DOMAIN arrivals : arrivals[q] < t}

\* KthArrival chooses a time by which k positions had arrived and before which fewer had.
LEMMA KthArrivalExact ==
  ASSUME NEW D, IsFiniteSet(D), NEW arrivals \in [D -> Nat], NEW k \in Nat \ {0},
         Cardinality(D) >= k
  PROVE  /\ KthArrival(arrivals, k) \in Nat
         /\ Cardinality(UpTo(arrivals, KthArrival(arrivals, k))) >= k
         /\ Cardinality(Prior(arrivals, KthArrival(arrivals, k))) < k
<1> DEFINE times == Range(arrivals)
           enough == {t \in times : Cardinality(UpTo(arrivals, t)) >= k}
<1>1. times \subseteq Nat /\ IsFiniteSet(times) /\ D # {}
  <2>1. D # {}
    BY FS_EmptySet
  <2>2. QED
    BY <2>1, ImageFinite DEF Range
<1>2. \A t \in Nat : /\ IsFiniteSet(UpTo(arrivals, t)) /\ Cardinality(UpTo(arrivals, t)) \in Nat
                     /\ IsFiniteSet(Prior(arrivals, t)) /\ Cardinality(Prior(arrivals, t)) \in Nat
  BY FS_Subset, FS_CardinalityType DEF UpTo, Prior
<1>3. enough # {} /\ IsFiniteSet(enough) /\ enough \subseteq Int
  <2>1. times # {} /\ times \subseteq Int
    BY <1>1 DEF Range
  <2>2. Max(times) \in times /\ \A t \in times : t <= Max(times)
    <3> HIDE DEF times
    <3> QED
      BY <1>1, <2>1, MaxOfFinite
  <2>3. UpTo(arrivals, Max(times)) = D
    BY <2>2 DEF UpTo, Range
  <2>4. Max(times) \in enough
    BY <2>2, <2>3
  <2>5. QED
    BY <1>1, <2>1, <2>4, FS_Subset
<1>4. PICK t : t \in enough /\ \A s \in enough : t <= s
  <2> HIDE DEF enough
  <2> QED
    BY <1>3, MinOfFinite
<1>5. t \in times /\ t \in Nat /\ Cardinality(UpTo(arrivals, t)) >= k
  BY <1>1, <1>4
<1>6. Cardinality(Prior(arrivals, t)) < k
  <2> SUFFICES ASSUME Cardinality(Prior(arrivals, t)) >= k PROVE FALSE
    BY <1>2, <1>5
  <2> DEFINE earlier == {arrivals[q] : q \in Prior(arrivals, t)}
  <2>1. Prior(arrivals, t) # {} /\ Prior(arrivals, t) \subseteq D
    <3>1. Prior(arrivals, t) # {}
      BY FS_EmptySet
    <3>2. QED
      BY <3>1 DEF Prior
  <2>2. earlier \subseteq times /\ earlier # {}
    BY <2>1 DEF Range
  <2>3. PICK u : u \in earlier /\ \A s \in earlier : s <= u
    <3>1. IsFiniteSet(earlier) /\ earlier \subseteq Int
      BY <1>1, <2>2, FS_Subset
    <3> HIDE DEF earlier
    <3>2. QED
      BY <2>2, <3>1, MaxOfFinite
  <2>4. u \in times /\ u \in Nat /\ u < t
    BY <1>1, <2>2, <2>3 DEF Prior
  <2>5. Prior(arrivals, t) \subseteq UpTo(arrivals, u)
    <3>1. \A q \in Prior(arrivals, t) : arrivals[q] <= u
      BY <2>3
    <3>2. QED
      BY <2>1, <3>1 DEF UpTo
  <2>6. Cardinality(UpTo(arrivals, u)) >= Cardinality(Prior(arrivals, t))
    BY <1>2, <2>4, <2>5, FS_Subset
  <2>7. Cardinality(UpTo(arrivals, u)) >= k
    BY <1>2, <1>5, <2>4, <2>6
  <2>8. u \in enough
    BY <2>4, <2>7
  <2>9. QED
    BY <1>4, <1>5, <2>4, <2>8
<1>7. \E s \in Range(arrivals) :
          /\ Cardinality({q \in DOMAIN arrivals : arrivals[q] <= s}) >= k
          /\ Cardinality({q \in DOMAIN arrivals : arrivals[q] < s}) < k
  BY <1>5, <1>6 DEF UpTo, Prior
<1>8. /\ KthArrival(arrivals, k) \in Range(arrivals)
      /\ Cardinality({q \in DOMAIN arrivals : arrivals[q] <= KthArrival(arrivals, k)}) >= k
      /\ Cardinality({q \in DOMAIN arrivals : arrivals[q] < KthArrival(arrivals, k)}) < k
  BY <1>7 DEF KthArrival
<1>9. QED
  BY <1>1, <1>8 DEF UpTo, Prior

\* One payload carries the leader's signature at each position.
OneSigned == \A c, e \in Signed : c = e

CopiesOf(key) == {a[2] : a \in {b \in accepted : b[1] = key[1] /\ b[2].set = key[2]}}

Position(d) == <<d.code, d.position>>

\* The shreds of C are what the state st of provider p's set f was made from.
MadeFrom(st, p, f, C) ==
    /\ DOMAIN st.arrivals = {Position(d) : d \in C}
    /\ \A d \in C : st.arrivals[Position(d)] = RxTime[p][d]
    /\ st.num_data = IF \E d \in C : d.code \/ (d.set \in DataComplete /\ d.position = NumData[f] - 1)
                     THEN NumData[f] ELSE None

ArrivalsExact == \A key \in DOMAIN sets : MadeFrom(sets[key], key[1], key[2], CopiesOf(key))

LEMMA AcceptMade ==
  ASSUME NEW st, Typed(st), NEW p \in Providers, NEW d \in Payloads, NEW C \in SUBSET Payloads,
         MadeFrom(st, p, d.set, C), Position(d) \notin DOMAIN st.arrivals
  PROVE  MadeFrom(Accept(st, d, RxTime[p][d]), p, d.set, C \cup {d})
<1> DEFINE new == Accept(st, d, RxTime[p][d])
           tells(e) == e.code \/ (e.set \in DataComplete /\ e.position = NumData[d.set] - 1)
<1>1. st \in SetStates(DOMAIN st.arrivals) /\ NumData[d.set] \in Nat /\ d.code \in BOOLEAN
  BY PayloadFacts DEF Typed
<1>2. /\ new.arrivals = [q \in DOMAIN st.arrivals \cup {Position(d)} |->
                            IF q = Position(d) THEN RxTime[p][d] ELSE st.arrivals[q]]
      /\ new.num_data = IF st.num_data = None /\ tells(d) THEN NumData[d.set] ELSE st.num_data
  BY <1>1 DEF Accept, Position, SetStates, IsLastData
<1>3. DOMAIN new.arrivals = {Position(e) : e \in C \cup {d}}
  BY <1>2 DEF MadeFrom
<1>4. \A e \in C \cup {d} : new.arrivals[Position(e)] = RxTime[p][e]
  <2>1. \A e \in C : Position(e) # Position(d) /\ Position(e) \in DOMAIN st.arrivals
    BY DEF MadeFrom
  <2>2. QED
    BY <1>2, <2>1 DEF MadeFrom
<1>5. new.num_data = IF \E e \in C \cup {d} : tells(e) THEN NumData[d.set] ELSE None
  <2>1. st.num_data = IF \E e \in C : tells(e) THEN NumData[d.set] ELSE None
    BY DEF MadeFrom
  <2>2. None # NumData[d.set]
    BY <1>1, AggregatorAssumption
  <2>3. (\E e \in C \cup {d} : tells(e)) <=> (\E e \in C : tells(e)) \/ tells(d)
    OBVIOUS
  <2>4. QED
    BY <1>2, <2>1, <2>2, <2>3
<1>6. QED
  BY <1>3, <1>4, <1>5 DEF MadeFrom

\* The accepted copies of an open set are in its state, and an accepted shred is at a position
\* that has no copy yet.
LEMMA CopiesHeld ==
  ASSUME LoopInv, NEW p \in Providers, NEW d \in Payloads, ~ AfterWindow(SlotOf[d.set])
  PROVE  /\ CopiesOf(<<p, d.set>>) \subseteq Before(p, d).seen
         /\ <<p, d.set>> \notin DOMAIN sets => CopiesOf(<<p, d.set>>) = {}
         /\ \A e \in CopiesOf(<<p, d.set>>) : e \in Payloads /\ e.set = d.set /\ e.copy \in Signed
<1>1. SlotOf[d.set] > evicted_upto
  <2>1. evicted_upto \in Nat
    BY DEF LoopInv, TypeOK
  <2>2. SlotOf[d.set] \in Nat
    BY PayloadFacts
  <2>3. QED
    BY <2>1, <2>2 DEF AfterWindow
<1>2. ASSUME NEW e \in CopiesOf(<<p, d.set>>)
      PROVE  /\ e \in Payloads /\ e.set = d.set /\ e.copy \in Signed
             /\ <<p, d.set>> \in DOMAIN sets /\ e \in sets[<<p, d.set>>].seen
  <2>1. PICK a \in accepted : a[1] = p /\ a[2] = e /\ e.set = d.set
    BY DEF CopiesOf
  <2>2. <<a[1], a[2].set>> \in DOMAIN sets /\ a[2] \in sets[<<a[1], a[2].set>>].seen
    BY <1>1, <2>1 DEF LoopInv, AcceptedHeld
  <2>3. e \in Payloads /\ e.copy \in Signed
    BY <2>1 DEF LoopInv, AcceptedHeld, TypeOK
  <2>4. QED
    BY <2>1, <2>2, <2>3
<1>3. QED
  BY <1>2 DEF Before

LEMMA MadeStep ==
  ASSUME OneSigned
  PROVE  LoopInv /\ ArrivalsExact /\ [Next]_vars => ArrivalsExact'
<1> SUFFICES ASSUME LoopInv, ArrivalsExact, [Next]_vars PROVE ArrivalsExact'
  OBVIOUS
<1>1. ASSUME NEW p \in Providers, NEW d \in Payloads, Receive(p, d), NEW k \in DOMAIN sets'
      PROVE  MadeFrom(sets'[k], k[1], k[2], CopiesOf(k)')
  <2> DEFINE key == <<p, d.set>>
             st == Before(p, d)
  <2>1. Ingest(p, d, Verdict(d))
    BY <1>1 DEF Receive
  <2>2. /\ accepted' = IF Accepts(p, d) THEN accepted \cup {<<p, d>>} ELSE accepted
        /\ Accepts(p, d) => d.copy \in Signed
    BY <1>1, ReceiveAccepts
  <2>3. CASE AfterWindow(SlotOf[d.set])
    <3>1. sets' = sets /\ accepted' = accepted
      BY <2>1, <2>2, <2>3, IngestClosed DEF Accepts
    <3>2. QED
      BY <3>1 DEF ArrivalsExact, CopiesOf
  <2>4. CASE ~ AfterWindow(SlotOf[d.set]) /\ k # key
    <3>1. k \in DOMAIN sets /\ sets'[k] = sets[k]
      <4>1. /\ DOMAIN sets' = DOMAIN sets \cup {key}
            /\ \A q \in DOMAIN sets : q # key => sets'[q] = sets[q]
        BY <2>1, <2>4, IngestOpen
      <4>2. QED
        BY <2>4, <4>1
    <3>2. CopiesOf(k)' = CopiesOf(k)
      <4>1. k \in Key
        BY <3>1 DEF LoopInv, TypeOK
      <4>2. ~ (p = k[1] /\ d.set = k[2])
        BY <2>4, <4>1 DEF Key
      <4>3. {b \in accepted' : b[1] = k[1] /\ b[2].set = k[2]}
               = {b \in accepted : b[1] = k[1] /\ b[2].set = k[2]}
        BY <2>2, <4>2
      <4>4. QED
        BY <4>3 DEF CopiesOf
    <3>3. QED
      BY <3>1, <3>2 DEF ArrivalsExact
  <2>5. CASE ~ AfterWindow(SlotOf[d.set]) /\ k = key
    <3>1. /\ CopiesOf(key) \subseteq st.seen
          /\ \A e \in CopiesOf(key) : e \in Payloads /\ e.set = d.set /\ e.copy \in Signed
          /\ key \notin DOMAIN sets => CopiesOf(key) = {}
      BY <2>5, CopiesHeld
    <3>2. Typed(st) /\ MadeFrom(st, p, d.set, CopiesOf(key))
      <4>1. CASE key \in DOMAIN sets
        BY <4>1, BeforeTyped DEF ArrivalsExact, Before
      <4>2. CASE key \notin DOMAIN sets
        BY <3>1, <4>2, BeforeTyped DEF MadeFrom, Before, NewSetState
      <4>3. QED
        BY <4>1, <4>2
    <3>3. CASE Accepts(p, d)
      <4>1. CopiesOf(key)' = CopiesOf(key) \cup {d}
        <5>1. PICK a \in accepted' : /\ a[1] = p /\ a[2] = d /\ a = <<p, d>>
                                      /\ accepted' = accepted \cup {a}
          BY <2>2, <3>3
        <5>2. CopiesOf(key) = {b[2] : b \in {c \in accepted : c[1] = p /\ c[2].set = d.set}}
          BY DEF CopiesOf
        <5>3. CopiesOf(key)' = {b[2] : b \in {c \in accepted' : c[1] = p /\ c[2].set = d.set}}
          BY DEF CopiesOf
        <5>4. QED
          BY <5>1, <5>2, <5>3
      <4>2. Position(d) \notin DOMAIN st.arrivals
        <5> SUFFICES ASSUME Position(d) \in DOMAIN st.arrivals PROVE FALSE
          OBVIOUS
        <5>1. PICK e \in CopiesOf(key) : Position(e) = Position(d)
          BY <3>2 DEF MadeFrom
        <5>2. e \in Payloads /\ e.set = d.set /\ e.copy = d.copy
          BY <2>2, <3>1, <3>3, <5>1 DEF OneSigned
        <5>3. e.code = d.code /\ e.position = d.position
          BY <5>1 DEF Position
        <5>4. e = d
          BY <5>2, <5>3, AggregatorAssumption
        <5>5. QED
          BY <3>1, <3>3, <5>4 DEF Accepts
      <4>3. sets'[key] = Accept(st, d, RxTime[p][d])
        <5>1. ~ AfterWindow(SlotOf[d.set]) /\ Verdict(d) = "authentic" /\ d \notin st.seen
          BY <3>3 DEF Accepts
        <5>2. d \notin st.seen /\ Verdict(d) = "authentic" =>
                 sets'[key] = Accept(st, d, RxTime[p][d])
          <6>1. ASSUME d \notin st.seen
                PROVE  sets'[key] = Accept(st, d, RxTime[p][d])
            BY <2>1, <5>1, <6>1 DEF Ingest, Before
          <6>2. QED
            BY <6>1
        <5>3. QED
          BY <5>1, <5>2
      <4>4. MadeFrom(Accept(st, d, RxTime[p][d]), p, d.set, CopiesOf(key) \cup {d})
        BY <3>1, <3>2, <4>2, AcceptMade
      <4>5. QED
        BY <2>5, <4>1, <4>3, <4>4
    <3>4. CASE ~ Accepts(p, d)
      <4>1. CopiesOf(key)' = CopiesOf(key)
        BY <2>2, <3>4 DEF CopiesOf
      <4>2. sets'[key].arrivals = st.arrivals /\ sets'[key].num_data = st.num_data
        BY <2>1, <2>5, <3>4, IngestOpen DEF Accepts
      <4>3. QED
        BY <2>5, <3>2, <4>1, <4>2 DEF MadeFrom
    <3>5. QED
      BY <3>3, <3>4
  <2>6. QED
    BY <2>3, <2>4, <2>5
<1>2. ASSUME NEW drain \in BOOLEAN, Emit(drain), accepted' = IF drain THEN {} ELSE accepted
      PROVE  ArrivalsExact'
  <2>1. /\ DOMAIN sets' = {key \in DOMAIN sets : ~ drain /\ SlotOf[key[2]] > Cutoff}
        /\ \A key \in DOMAIN sets' : sets'[key] = sets[key]
    BY <1>2, HarvestLeaves DEF Emit
  <2>2. ASSUME NEW key \in DOMAIN sets'
        PROVE  sets'[key] = sets[key] /\ CopiesOf(key)' = CopiesOf(key) /\ key \in DOMAIN sets
    BY <1>2, <2>1 DEF CopiesOf
  <2>3. QED
    BY <2>2 DEF ArrivalsExact
<1>3. CASE HarvestWindow
  BY <1>2, <1>3 DEF HarvestWindow
<1>4. CASE Rotate
  BY <1>2, <1>4 DEF Rotate
<1>5. CASE Close
  BY <1>2, <1>5 DEF Close
<1>6. CASE RefreshSchedule \/ Shutdown \/ UNCHANGED vars
  BY <1>6 DEF RefreshSchedule, Shutdown, vars, aggVars, loopVars, ArrivalsExact, CopiesOf
<1>7. QED
  BY <1>1, <1>3, <1>4, <1>5, <1>6 DEF Next, ArrivalsExact

\* If one payload is signed at each position, a pending set is usable from the moment its k-th
\* position arrived at the host, whatever the order the packets are ingested in and whenever k is
\* learnt (SetState::accept and decode_time).
THEOREM UsableInTime ==
  ASSUME OneSigned
  PROVE  Spec => []UsableFromKthArrival
<1>1. Init => ArrivalsExact
  BY DEF Init, AggInit, ArrivalsExact
<1>2. LoopInv /\ ArrivalsExact => UsableFromKthArrival
  <2> SUFFICES ASSUME LoopInv, ArrivalsExact, NEW key \in DOMAIN sets
               PROVE  LET copies == CopiesOf(key)
                          k == NumData[key[2]]
                          by(t) == {d \in copies : RxTime[key[1]][d] <= t}
                          sized == \E d \in copies :
                                       d.code \/ (d.set \in DataComplete /\ d.position = k - 1)
                          t == DecodeTime(sets[key])
                      IN  IF sized /\ Cardinality(copies) >= k
                          THEN t # None /\ Cardinality(by(t)) >= k /\ Cardinality(by(t - 1)) < k
                          ELSE t = None
    BY DEF UsableFromKthArrival, CopiesOf
  <2> DEFINE C == CopiesOf(key)
             rx == RxTime[key[1]]
             arrivals == sets[key].arrivals
             k == NumData[key[2]]
             sized == \E d \in C : d.code \/ (d.set \in DataComplete /\ d.position = k - 1)
             place == [d \in C |-> Position(d)]
  <2>1. key[1] \in Providers /\ k \in Nat \ {0} /\ None \notin Nat
    BY AggregatorAssumption DEF LoopInv, TypeOK, Key
  <2>2. /\ DOMAIN arrivals = {Position(d) : d \in C}
        /\ \A d \in C : arrivals[Position(d)] = rx[d]
        /\ sets[key].num_data = IF sized THEN k ELSE None
    BY DEF ArrivalsExact, MadeFrom
  <2>3. \A d \in C : /\ d \in Payloads /\ d.set = key[2] /\ d.copy \in Signed /\ rx[d] \in Nat
    BY <2>1, PayloadFacts DEF CopiesOf, LoopInv, TypeOK, AcceptedHeld
  <2>4. IsFiniteSet(C)
    <3> DEFINE own == {b \in accepted : b[1] = key[1] /\ b[2].set = key[2]}
               copy == [a \in own |-> a[2]]
    <3>1. IsFiniteSet(own)
      BY FS_Subset DEF LoopInv, AcceptedHeld
    <3>2. IsFiniteSet(Range(copy))
      <4>1. DOMAIN copy = own /\ copy = [x \in DOMAIN copy |-> copy[x]]
        OBVIOUS
      <4> HIDE DEF copy, own
      <4>2. QED
        BY <3>1, <4>1, ImageFinite
    <3>3. QED
      BY <3>2 DEF Range, CopiesOf
  <2>5. \A c, e \in C : Position(c) = Position(e) => c = e
    BY <2>3, AggregatorAssumption DEF OneSigned, Position
  <2>6. ASSUME NEW U \in SUBSET C
        PROVE  /\ IsFiniteSet({Position(d) : d \in U})
               /\ Cardinality({Position(d) : d \in U}) = Cardinality(U)
    <3>1. /\ place = [x \in DOMAIN place |-> place[x]] /\ DOMAIN place = C
          /\ \A x, y \in C : place[x] = place[y] => x = y
          /\ {Position(d) : d \in U} = {place[d] : d \in U}
      BY <2>5
    <3>2. IsFiniteSet({place[d] : d \in U}) /\ Cardinality({place[d] : d \in U}) = Cardinality(U)
      <4>1. IsFiniteSet(DOMAIN place) /\ U \in SUBSET (DOMAIN place)
        BY <2>4
      <4>2. \A x, y \in DOMAIN place : place[x] = place[y] => x = y
        BY <3>1
      <4>3. place = [x \in DOMAIN place |-> place[x]]
        BY <3>1
      <4> HIDE DEF place, C
      <4>4. QED
        BY <4>1, <4>2, <4>3, ImageSize
    <3>3. QED
      BY <3>1, <3>2
  <2>7. IsFiniteSet(DOMAIN arrivals) /\ Cardinality(DOMAIN arrivals) = Cardinality(C)
        /\ Cardinality(C) \in Nat
    BY <2>2, <2>4, <2>6, FS_CardinalityType
  <2>8. CASE ~ (sized /\ Cardinality(C) >= k)
    BY <2>2, <2>7, <2>8 DEF DecodeTime
  <2>9. CASE sized /\ Cardinality(C) >= k
    <3> DEFINE t == KthArrival(arrivals, k)
    <3>1. DecodeTime(sets[key]) = t
      BY <2>1, <2>2, <2>7, <2>9 DEF DecodeTime
    <3>2. arrivals \in [DOMAIN arrivals -> Nat]
      BY DEF LoopInv, TypeOK, SetStates
    <3>3. /\ t \in Nat
          /\ Cardinality(UpTo(arrivals, t)) >= k /\ Cardinality(Prior(arrivals, t)) < k
      <4> HIDE DEF arrivals, k
      <4>1. QED
        BY <2>1, <2>7, <2>9, <3>2, KthArrivalExact
    <3> HIDE DEF t
    <3>4. UpTo(arrivals, t) = {Position(d) : d \in {e \in C : rx[e] <= t}}
      BY <2>2 DEF UpTo
    <3>5. Prior(arrivals, t) = {Position(d) : d \in {e \in C : rx[e] <= t - 1}}
      <4>1. \A d \in C : rx[d] < t <=> rx[d] <= t - 1
        BY <2>3, <3>3
      <4>2. QED
        BY <2>2, <4>1 DEF Prior
    <3>6. /\ Cardinality({e \in C : rx[e] <= t}) >= k
          /\ Cardinality({e \in C : rx[e] <= t - 1}) < k
      BY <2>6, <3>3, <3>4, <3>5
    <3>7. QED
      BY <2>1, <2>9, <3>1, <3>3, <3>6
  <2>10. QED
    BY <2>8, <2>9
<1>3. Spec => [](LoopInv /\ ArrivalsExact)
  BY InvInit, InvStep, MadeStep, <1>1, PTL DEF Spec
<1>4. QED
  BY <1>2, <1>3, PTL

-----------------------------------------------------------------------------
(* The rows a harvest makes. *)

\* What is pending is finite, and a set whose size is known has a data shred.
Finite(st) == IsFiniteSet(st.seen) /\ IsFiniteSet(DOMAIN st.arrivals) /\ st.num_data # 0

PendingFinite ==
    /\ IsFiniteSet(DOMAIN sets)
    /\ \A key \in DOMAIN sets : Finite(sets[key])

LEMMA FiniteStep == LoopInv /\ PendingFinite /\ [Next]_vars => PendingFinite'
<1> SUFFICES ASSUME LoopInv, PendingFinite, [Next]_vars PROVE PendingFinite'
  OBVIOUS
<1>1. ASSUME NEW p \in Providers, NEW d \in Payloads, Receive(p, d) PROVE PendingFinite'
  <2> DEFINE key == <<p, d.set>>
             st == Before(p, d)
  <2>1. Ingest(p, d, Verdict(d))
    BY <1>1 DEF Receive
  <2>2. CASE AfterWindow(SlotOf[d.set])
    BY <2>1, <2>2, IngestClosed DEF PendingFinite
  <2>3. CASE ~ AfterWindow(SlotOf[d.set])
    <3>1. Finite(st) /\ Typed(st)
      <4>1. Finite(NewSetState(RxTime[p][d]))
        <5>1. None # 0
          BY AggregatorAssumption
        <5>2. QED
          BY <5>1, FS_EmptySet DEF Finite, NewSetState
      <4>2. QED
        BY <4>1, BeforeTyped DEF PendingFinite, Before
    <3>2. /\ DOMAIN sets' = DOMAIN sets \cup {key}
          /\ \A k \in DOMAIN sets : k # key => sets'[k] = sets[k]
          /\ sets'[key].seen = st.seen \cup {d}
      BY <2>1, <2>3, IngestOpen
    <3>3. \/ sets'[key] = Accept(st, d, RxTime[p][d])
          \/ sets'[key].arrivals = st.arrivals /\ sets'[key].num_data = st.num_data
      <4>1. CASE d \notin st.seen /\ Verdict(d) = "authentic"
        BY <2>1, <2>3, <4>1, IngestOpen
      <4>2. CASE ~ (d \notin st.seen /\ Verdict(d) = "authentic")
        BY <2>1, <2>3, <4>2, IngestOpen
      <4>3. QED
        BY <4>1, <4>2
    <3>4. Finite(Accept(st, d, RxTime[p][d]))
      <4> HIDE DEF st
      <4> DEFINE new == Accept(st, d, RxTime[p][d])
      <4>1. NumData[d.set] # 0 /\ RxTime[p][d] \in Nat
        BY PayloadFacts
      <4>2. new.seen = st.seen \cup {d}
        BY <3>1, <4>1, AcceptTyped
      <4>3. st \in SetStates(DOMAIN st.arrivals)
        BY <3>1 DEF Typed
      <4>4. /\ new.num_data = NumData[d.set] \/ new.num_data = st.num_data
            /\ \/ DOMAIN new.arrivals = DOMAIN st.arrivals
               \/ DOMAIN new.arrivals = DOMAIN st.arrivals \cup {<<d.code, d.position>>}
        BY <4>3 DEF Accept, SetStates
      <4> HIDE DEF new
      <4>5. IsFiniteSet(new.seen)
        <5>1. IsFiniteSet(st.seen \cup {d})
          BY <3>1, FS_AddElement DEF Finite
        <5>2. QED
          BY <4>2, <5>1
      <4>6. IsFiniteSet(DOMAIN new.arrivals)
        <5>1. IsFiniteSet(DOMAIN st.arrivals \cup {<<d.code, d.position>>})
          BY <3>1, FS_AddElement DEF Finite
        <5>2. QED
          BY <3>1, <4>4, <5>1, Zenon DEF Finite
      <4>7. new.num_data # 0
        BY <3>1, <4>1, <4>4 DEF Finite
      <4>8. Finite(new)
        BY <4>5, <4>6, <4>7 DEF Finite
      <4>9. QED
        BY <4>8 DEF new
    <3>5. Finite(sets'[key])
      <4> HIDE DEF st, key
      <4>1. CASE sets'[key] = Accept(st, d, RxTime[p][d])
        BY <3>4, <4>1
      <4>2. CASE sets'[key].arrivals = st.arrivals /\ sets'[key].num_data = st.num_data
        <5>1. IsFiniteSet(st.seen \cup {d})
          BY <3>1, FS_AddElement DEF Finite
        <5>2. QED
          BY <3>1, <3>2, <4>2, <5>1, Zenon DEF Finite
      <4>3. QED
        BY <3>3, <4>1, <4>2
    <3>6. IsFiniteSet(DOMAIN sets')
      <4> HIDE DEF key
      <4>1. IsFiniteSet(DOMAIN sets \cup {key})
        BY FS_AddElement DEF PendingFinite
      <4>2. QED
        BY <3>2, <4>1, Zenon
    <3>7. \A k \in DOMAIN sets' : Finite(sets'[k])
      BY <3>2, <3>5 DEF PendingFinite
    <3>8. QED
      BY <3>6, <3>7 DEF PendingFinite
  <2>4. QED
    BY <2>2, <2>3
<1>2. ASSUME NEW drain \in BOOLEAN, Emit(drain) PROVE PendingFinite'
  <2>1. /\ DOMAIN sets' \subseteq DOMAIN sets
        /\ \A key \in DOMAIN sets' : sets'[key] = sets[key]
    BY <1>2, HarvestLeaves DEF Emit
  <2>2. QED
    BY <2>1, FS_Subset DEF PendingFinite
<1>3. CASE HarvestWindow
  BY <1>2, <1>3 DEF HarvestWindow
<1>4. CASE Rotate
  BY <1>2, <1>4 DEF Rotate
<1>5. CASE Close
  BY <1>2, <1>5 DEF Close
<1>6. CASE RefreshSchedule \/ Shutdown \/ UNCHANGED vars
  BY <1>6 DEF RefreshSchedule, Shutdown, vars, aggVars, loopVars, PendingFinite
<1>7. QED
  BY <1>1, <1>3, <1>4, <1>5, <1>6 DEF Next

\* A row counts what it counts, and a valid one says when its set could be decoded.
RowTyped(r) ==
    /\ r.provider \in Providers /\ r.set \in FecSets /\ SlotOf[r.set] \in Nat
    /\ r.invalid_sig \in Nat /\ r.invalid_data \in Nat /\ r.invalid_unknown \in Nat
    /\ r.is_valid \in BOOLEAN
    /\ r.is_valid => r.decode \in Nat

LEMMA DecodeTyped ==
  ASSUME NEW st, Typed(st), Finite(st), DecodeTime(st) # None
  PROVE  DecodeTime(st) \in Nat
<1>1. /\ st.arrivals \in [DOMAIN st.arrivals -> Nat] /\ IsFiniteSet(DOMAIN st.arrivals)
      /\ st.num_data \in Time /\ st.num_data # 0
  BY DEF Typed, SetStates, Finite
<1>2. /\ st.num_data # None /\ Cardinality(DOMAIN st.arrivals) >= st.num_data
      /\ DecodeTime(st) = KthArrival(st.arrivals, st.num_data)
  BY DEF DecodeTime
<1>3. st.num_data \in Nat \ {0}
  BY <1>1, <1>2 DEF Time
<1>4. QED
  BY <1>1, <1>2, <1>3, KthArrivalExact

LEMMA HarvestRowsTyped ==
  ASSUME LoopInv, PendingFinite, NEW drain \in BOOLEAN
  PROVE  /\ IsFiniteSet(HarvestRows(drain))
         /\ \A r \in HarvestRows(drain) : RowTyped(r) /\ SlotOf[r.set] > evicted_upto
         /\ \A r, q \in HarvestRows(drain) : r.provider = q.provider /\ r.set = q.set => r = q
<1>1. IsFiniteSet(HarvestRows(drain))
  <2> DEFINE f == [key \in Ready(drain) |-> SetRow(key)]
  <2>1. IsFiniteSet(Ready(drain))
    BY FS_Subset DEF Ready, PendingFinite
  <2>2. IsFiniteSet(Range(f))
    <3>1. DOMAIN f = Ready(drain) /\ f = [x \in DOMAIN f |-> f[x]]
      OBVIOUS
    <3> HIDE DEF f
    <3>2. QED
      BY <2>1, <3>1, ImageFinite
  <2>3. Range(f) = HarvestRows(drain)
    BY DEF Range, HarvestRows
  <2>4. QED
    BY <2>2, <2>3
<1>2. ASSUME NEW r \in HarvestRows(drain) PROVE RowTyped(r) /\ SlotOf[r.set] > evicted_upto
  <2>1. PICK key \in Ready(drain) : /\ r = SetRow(key) /\ r.provider = key[1] /\ r.set = key[2]
                                    /\ r.set \in FecSets /\ SlotOf[r.set] \in Nat
                                    /\ SlotOf[r.set] > evicted_upto
    BY RowIsPending
  <2> DEFINE st == sets[key]
  <2>2. key \in DOMAIN sets /\ key[1] \in Providers
    BY DEF Ready, LoopInv, TypeOK, Key
  <2>3. Typed(st) /\ Finite(st) /\ IsFiniteSet(st.invalid)
    <3>1. st.invalid \subseteq st.seen
      BY <2>2 DEF LoopInv, SeenOfSet
    <3>2. QED
      BY <2>2, <3>1, FS_Subset DEF LoopInv, TypeOK, Typed, PendingFinite, Finite
  <2>4. \A kind : Cardinality({d \in st.invalid : Compared(d) = kind}) \in Nat
    <3> SUFFICES ASSUME NEW kind PROVE Cardinality({d \in st.invalid : Compared(d) = kind}) \in Nat
      OBVIOUS
    <3>1. IsFiniteSet({d \in st.invalid : Compared(d) = kind})
      BY <2>3, FS_Subset
    <3>2. QED
      BY <3>1, FS_CardinalityType
  <2>5. /\ r.invalid_sig = Cardinality({d \in st.invalid : Compared(d) = "sig"})
        /\ r.invalid_data = Cardinality({d \in st.invalid : Compared(d) = "data"})
        /\ r.invalid_unknown = Cardinality({d \in st.invalid : Compared(d) = "unknown"})
        /\ r.is_valid = (st.invalid = {} /\ st.unverifiable = 0 /\ DecodeTime(st) # None)
        /\ r.decode = DecodeTime(st)
    BY <2>1 DEF SetRow
  <2>6. r.is_valid \in BOOLEAN /\ (r.is_valid => r.decode \in Nat)
    BY <2>3, <2>5, DecodeTyped
  <2>7. QED
    BY <2>1, <2>2, <2>4, <2>5, <2>6 DEF RowTyped
<1>3. ASSUME NEW r \in HarvestRows(drain), NEW q \in HarvestRows(drain),
             r.provider = q.provider, r.set = q.set
      PROVE  r = q
  <2>1. PICK k \in Ready(drain) : r = SetRow(k) /\ r.provider = k[1] /\ r.set = k[2]
    BY RowIsPending
  <2>2. PICK m \in Ready(drain) : q = SetRow(m) /\ q.provider = m[1] /\ q.set = m[2]
    BY RowIsPending
  <2>3. k \in Providers \X FecSets /\ m \in Providers \X FecSets
    BY DEF Ready, LoopInv, TypeOK, Key
  <2>4. k = m
    BY <1>3, <2>1, <2>2, <2>3
  <2>5. QED
    BY <2>1, <2>2, <2>4
<1>4. QED
  BY <1>1, <1>2, <1>3
-----------------------------------------------------------------------------
(* The totals of a window. *)

\* What Observe adds up, as the sums of functions.
LEMMA SigSum ==
  ASSUME NEW T, IsFiniteSet(T), \A x \in T : x.invalid_sig \in Int
  PROVE  Live!MapThenSumSet(LAMBDA x : x.invalid_sig, T) = SumFunctionOnSet([x \in T |-> x.invalid_sig], T)
<1> DEFINE F == [x \in T |-> x.invalid_sig]
           adds(q) == [s \in SUBSET T |-> IF s = {} THEN 0
                          ELSE (CHOOSE x \in s : TRUE).invalid_sig + q[s \ {CHOOSE x \in s : TRUE}]]
           g == CHOOSE q : q = adds(q)
<1>1. F \in [T -> Int] /\ \A s \in SUBSET T : s # {} => F[CHOOSE x \in s : TRUE] = (CHOOSE x \in s : TRUE).invalid_sig
  <2>1. \A s \in SUBSET T : s # {} => (CHOOSE x \in s : TRUE) \in T
    OBVIOUS
  <2>2. QED
    BY <2>1
<1>2. ASSUME NEW q PROVE Sums(q, F, T) <=> q = adds(q)
  <2> HIDE DEF F
  <2>1. adds(q) = [s \in SUBSET T |-> IF s = {} THEN 0
                       ELSE F[CHOOSE x \in s : TRUE] + q[s \ {CHOOSE x \in s : TRUE}]]
    BY <1>1
  <2>2. QED
    BY <2>1 DEF Sums
<1>3. Sums(g, F, T) /\ g[T] = SumFunctionOnSet(F, T)
  <2> HIDE DEF F, adds
  <2>1. g = adds(g)
    BY <1>1, <1>2, SumChosen
  <2> HIDE DEF g
  <2>2. QED
    BY <1>1, <1>2, <2>1, SumChosen
<1>4. Live!MapThenSumSet(LAMBDA x : x.invalid_sig, T) = g[T]
  BY DEF Live!MapThenSumSet, Live!MapThenFoldSet
<1>5. QED
  BY <1>3, <1>4

LEMMA DataSum ==
  ASSUME NEW T, IsFiniteSet(T), \A x \in T : x.invalid_data \in Int
  PROVE  Live!MapThenSumSet(LAMBDA x : x.invalid_data, T) = SumFunctionOnSet([x \in T |-> x.invalid_data], T)
<1> DEFINE F == [x \in T |-> x.invalid_data]
           adds(q) == [s \in SUBSET T |-> IF s = {} THEN 0
                          ELSE (CHOOSE x \in s : TRUE).invalid_data + q[s \ {CHOOSE x \in s : TRUE}]]
           g == CHOOSE q : q = adds(q)
<1>1. F \in [T -> Int] /\ \A s \in SUBSET T : s # {} => F[CHOOSE x \in s : TRUE] = (CHOOSE x \in s : TRUE).invalid_data
  <2>1. \A s \in SUBSET T : s # {} => (CHOOSE x \in s : TRUE) \in T
    OBVIOUS
  <2>2. QED
    BY <2>1
<1>2. ASSUME NEW q PROVE Sums(q, F, T) <=> q = adds(q)
  <2> HIDE DEF F
  <2>1. adds(q) = [s \in SUBSET T |-> IF s = {} THEN 0
                       ELSE F[CHOOSE x \in s : TRUE] + q[s \ {CHOOSE x \in s : TRUE}]]
    BY <1>1
  <2>2. QED
    BY <2>1 DEF Sums
<1>3. Sums(g, F, T) /\ g[T] = SumFunctionOnSet(F, T)
  <2> HIDE DEF F, adds
  <2>1. g = adds(g)
    BY <1>1, <1>2, SumChosen
  <2> HIDE DEF g
  <2>2. QED
    BY <1>1, <1>2, <2>1, SumChosen
<1>4. Live!MapThenSumSet(LAMBDA x : x.invalid_data, T) = g[T]
  BY DEF Live!MapThenSumSet, Live!MapThenFoldSet
<1>5. QED
  BY <1>3, <1>4

LEMMA UnknownSum ==
  ASSUME NEW T, IsFiniteSet(T), \A x \in T : x.invalid_unknown \in Int
  PROVE  Live!MapThenSumSet(LAMBDA x : x.invalid_unknown, T) = SumFunctionOnSet([x \in T |-> x.invalid_unknown], T)
<1> DEFINE F == [x \in T |-> x.invalid_unknown]
           adds(q) == [s \in SUBSET T |-> IF s = {} THEN 0
                          ELSE (CHOOSE x \in s : TRUE).invalid_unknown + q[s \ {CHOOSE x \in s : TRUE}]]
           g == CHOOSE q : q = adds(q)
<1>1. F \in [T -> Int] /\ \A s \in SUBSET T : s # {} => F[CHOOSE x \in s : TRUE] = (CHOOSE x \in s : TRUE).invalid_unknown
  <2>1. \A s \in SUBSET T : s # {} => (CHOOSE x \in s : TRUE) \in T
    OBVIOUS
  <2>2. QED
    BY <2>1
<1>2. ASSUME NEW q PROVE Sums(q, F, T) <=> q = adds(q)
  <2> HIDE DEF F
  <2>1. adds(q) = [s \in SUBSET T |-> IF s = {} THEN 0
                       ELSE F[CHOOSE x \in s : TRUE] + q[s \ {CHOOSE x \in s : TRUE}]]
    BY <1>1
  <2>2. QED
    BY <2>1 DEF Sums
<1>3. Sums(g, F, T) /\ g[T] = SumFunctionOnSet(F, T)
  <2> HIDE DEF F, adds
  <2>1. g = adds(g)
    BY <1>1, <1>2, SumChosen
  <2> HIDE DEF g
  <2>2. QED
    BY <1>1, <1>2, <2>1, SumChosen
<1>4. Live!MapThenSumSet(LAMBDA x : x.invalid_unknown, T) = g[T]
  BY DEF Live!MapThenSumSet, Live!MapThenFoldSet
<1>5. QED
  BY <1>3, <1>4

\* The totals of no rows, and of two sets of rows with none in common.
LEMMA ObserveNone == Observe(NewStats, {}) = NewStats
<1>1. IsFiniteSet({}) /\ Cardinality({}) = 0
  BY FS_EmptySet
<1>2. \A F \in [{} -> Int] : SumFunctionOnSet(F, {}) = 0
  BY <1>1, SumBasics
<1>3. /\ Live!MapThenSumSet(LAMBDA x : x.invalid_sig, {}) = 0
      /\ Live!MapThenSumSet(LAMBDA x : x.invalid_data, {}) = 0
      /\ Live!MapThenSumSet(LAMBDA x : x.invalid_unknown, {}) = 0
  <2>1. Live!MapThenSumSet(LAMBDA x : x.invalid_sig, {}) = SumFunctionOnSet([x \in {} |-> x.invalid_sig], {})
    BY <1>1, SigSum
  <2>2. Live!MapThenSumSet(LAMBDA x : x.invalid_data, {}) = SumFunctionOnSet([x \in {} |-> x.invalid_data], {})
    BY <1>1, DataSum
  <2>3. Live!MapThenSumSet(LAMBDA x : x.invalid_unknown, {}) = SumFunctionOnSet([x \in {} |-> x.invalid_unknown], {})
    BY <1>1, UnknownSum
  <2>4. QED
    BY <1>2, <2>1, <2>2, <2>3
<1>4. QED
  BY <1>1, <1>3 DEF Observe, NewStats

Agree(F, G, A) == \A x \in A : F[x] = G[x]

LEMMA SumJoins ==
  ASSUME NEW A, IsFiniteSet(A), NEW B, IsFiniteSet(B), A \cap B = {}, NEW F \in [A \cup B -> Int],
         NEW G \in [A -> Int], NEW H \in [B -> Int],
         Agree(G, F, A), Agree(H, F, B)
  PROVE  /\ SumFunctionOnSet(F, A \cup B) = SumFunctionOnSet(G, A) + SumFunctionOnSet(H, B)
         /\ SumFunctionOnSet(G, A) \in Int /\ SumFunctionOnSet(H, B) \in Int
<1> DEFINE S == A \cup B
<1>1. IsFiniteSet(S) /\ A \in SUBSET S /\ B \in SUBSET S /\ F \in [S -> Int]
      /\ A \in SUBSET A /\ B \in SUBSET B
  BY FS_Union
<1> HIDE DEF S
<1>2. SumFunctionOnSet(F, A \cup B) = SumFunctionOnSet(F, A) + SumFunctionOnSet(F, B)
  BY <1>1, SumUnion
<1>3. SumFunctionOnSet(G, A) = SumFunctionOnSet(F, A)
  BY <1>1, SumAgree DEF Agree
<1>4. SumFunctionOnSet(H, B) = SumFunctionOnSet(F, B)
  BY <1>1, SumAgree DEF Agree
<1>5. SumFunctionOnSet(G, A) \in Int /\ SumFunctionOnSet(H, B) \in Int
  BY <1>1, SumBasics
<1>6. QED
  BY <1>2, <1>3, <1>4, <1>5

LEMMA ObserveJoins ==
  ASSUME NEW A, IsFiniteSet(A), NEW B, IsFiniteSet(B), A \cap B = {}, \A x \in A \cup B : RowTyped(x)
  PROVE  Observe(NewStats, A \cup B) = Observe(Observe(NewStats, A), B)
<1>1. IsFiniteSet(A \cup B)
  BY FS_Union
<1>2. \A x \in A \cup B : x.invalid_sig \in Int /\ x.invalid_data \in Int /\ x.invalid_unknown \in Int
  BY DEF RowTyped
<1>3. /\ Cardinality(A \cup B) = Cardinality(A) + Cardinality(B)
      /\ Cardinality(A) \in Nat /\ Cardinality(B) \in Nat
  BY DisjointSize
<1>4. /\ Live!MapThenSumSet(LAMBDA x : x.invalid_sig, A \cup B)
            = Live!MapThenSumSet(LAMBDA x : x.invalid_sig, A) + Live!MapThenSumSet(LAMBDA x : x.invalid_sig, B)
      /\ Live!MapThenSumSet(LAMBDA x : x.invalid_sig, A) \in Int
      /\ Live!MapThenSumSet(LAMBDA x : x.invalid_sig, B) \in Int
  <2> DEFINE F == [x \in A \cup B |-> x.invalid_sig]
             G == [x \in A |-> x.invalid_sig]
             H == [x \in B |-> x.invalid_sig]
  <2>1. /\ Live!MapThenSumSet(LAMBDA x : x.invalid_sig, A \cup B) = SumFunctionOnSet(F, A \cup B)
        /\ Live!MapThenSumSet(LAMBDA x : x.invalid_sig, A) = SumFunctionOnSet(G, A)
        /\ Live!MapThenSumSet(LAMBDA x : x.invalid_sig, B) = SumFunctionOnSet(H, B)
    BY <1>1, <1>2, SigSum
  <2>2. /\ F \in [A \cup B -> Int] /\ G \in [A -> Int] /\ H \in [B -> Int]
        /\ Agree(G, F, A) /\ Agree(H, F, B)
    BY <1>2 DEF Agree
  <2> HIDE DEF F, G, H
  <2>3. /\ SumFunctionOnSet(F, A \cup B) = SumFunctionOnSet(G, A) + SumFunctionOnSet(H, B)
        /\ SumFunctionOnSet(G, A) \in Int /\ SumFunctionOnSet(H, B) \in Int
    BY <2>2, SumJoins
  <2>4. QED
    BY <2>1, <2>3
<1>5. /\ Live!MapThenSumSet(LAMBDA x : x.invalid_data, A \cup B)
            = Live!MapThenSumSet(LAMBDA x : x.invalid_data, A) + Live!MapThenSumSet(LAMBDA x : x.invalid_data, B)
      /\ Live!MapThenSumSet(LAMBDA x : x.invalid_data, A) \in Int
      /\ Live!MapThenSumSet(LAMBDA x : x.invalid_data, B) \in Int
  <2> DEFINE F == [x \in A \cup B |-> x.invalid_data]
             G == [x \in A |-> x.invalid_data]
             H == [x \in B |-> x.invalid_data]
  <2>1. /\ Live!MapThenSumSet(LAMBDA x : x.invalid_data, A \cup B) = SumFunctionOnSet(F, A \cup B)
        /\ Live!MapThenSumSet(LAMBDA x : x.invalid_data, A) = SumFunctionOnSet(G, A)
        /\ Live!MapThenSumSet(LAMBDA x : x.invalid_data, B) = SumFunctionOnSet(H, B)
    BY <1>1, <1>2, DataSum
  <2>2. /\ F \in [A \cup B -> Int] /\ G \in [A -> Int] /\ H \in [B -> Int]
        /\ Agree(G, F, A) /\ Agree(H, F, B)
    BY <1>2 DEF Agree
  <2> HIDE DEF F, G, H
  <2>3. /\ SumFunctionOnSet(F, A \cup B) = SumFunctionOnSet(G, A) + SumFunctionOnSet(H, B)
        /\ SumFunctionOnSet(G, A) \in Int /\ SumFunctionOnSet(H, B) \in Int
    BY <2>2, SumJoins
  <2>4. QED
    BY <2>1, <2>3
<1>6. /\ Live!MapThenSumSet(LAMBDA x : x.invalid_unknown, A \cup B)
            = Live!MapThenSumSet(LAMBDA x : x.invalid_unknown, A) + Live!MapThenSumSet(LAMBDA x : x.invalid_unknown, B)
      /\ Live!MapThenSumSet(LAMBDA x : x.invalid_unknown, A) \in Int
      /\ Live!MapThenSumSet(LAMBDA x : x.invalid_unknown, B) \in Int
  <2> DEFINE F == [x \in A \cup B |-> x.invalid_unknown]
             G == [x \in A |-> x.invalid_unknown]
             H == [x \in B |-> x.invalid_unknown]
  <2>1. /\ Live!MapThenSumSet(LAMBDA x : x.invalid_unknown, A \cup B) = SumFunctionOnSet(F, A \cup B)
        /\ Live!MapThenSumSet(LAMBDA x : x.invalid_unknown, A) = SumFunctionOnSet(G, A)
        /\ Live!MapThenSumSet(LAMBDA x : x.invalid_unknown, B) = SumFunctionOnSet(H, B)
    BY <1>1, <1>2, UnknownSum
  <2>2. /\ F \in [A \cup B -> Int] /\ G \in [A -> Int] /\ H \in [B -> Int]
        /\ Agree(G, F, A) /\ Agree(H, F, B)
    BY <1>2 DEF Agree
  <2> HIDE DEF F, G, H
  <2>3. /\ SumFunctionOnSet(F, A \cup B) = SumFunctionOnSet(G, A) + SumFunctionOnSet(H, B)
        /\ SumFunctionOnSet(G, A) \in Int /\ SumFunctionOnSet(H, B) \in Int
    BY <2>2, SumJoins
  <2>4. QED
    BY <2>1, <2>3
<1>7. QED
  BY <1>3, <1>4, <1>5, <1>6 DEF Observe, NewStats

\* The rows of the window were emitted as its slots left the window.
SnapshotInv ==
    /\ PendingFinite
    /\ IsFiniteSet(window_rows)
    /\ \A r \in window_rows : RowTyped(r)
    /\ phase # "done" => \A r \in window_rows : SlotOf[r.set] <= evicted_upto
    /\ SnapshotMatchesArchive

LEMMA SnapshotStep == LoopInv /\ SnapshotInv /\ [Next]_vars => SnapshotInv'
<1> SUFFICES ASSUME LoopInv, SnapshotInv, [Next]_vars PROVE SnapshotInv'
  OBVIOUS
<1>1. PendingFinite'
  BY FiniteStep DEF SnapshotInv
<1>2. ASSUME NEW drain \in BOOLEAN, Emit(drain), phase # "done",
             stats' = Observe(stats, batch'), window_rows' = window_rows \cup batch'
      PROVE  /\ IsFiniteSet(window_rows') /\ \A r \in window_rows' : RowTyped(r)
             /\ SnapshotMatchesArchive'
             /\ ~ drain => \A r \in window_rows' : SlotOf[r.set] <= evicted_upto'
  <2>1. /\ batch' = HarvestRows(drain) /\ IsFiniteSet(batch')
        /\ \A r \in batch' : RowTyped(r) /\ SlotOf[r.set] > evicted_upto
    BY <1>2, HarvestRowsTyped DEF Emit, SnapshotInv
  <2>2. evicted_upto' = Cutoff /\ Cutoff \in Nat /\ evicted_upto \in Nat /\ evicted_upto <= Cutoff
    <3>1. evicted_upto' = Cutoff
      BY <1>2, HarvestLeaves DEF Emit
    <3>2. Cutoff \in Nat /\ evicted_upto \in Nat /\ evicted_upto <= Cutoff
      BY AggregatorAssumption DEF LoopInv, TypeOK, WindowForward, Cutoff, Larger
    <3>3. QED
      BY <3>1, <3>2
  <2>3. \A r \in window_rows : RowTyped(r) /\ SlotOf[r.set] \in Nat /\ SlotOf[r.set] <= evicted_upto
    BY <1>2 DEF SnapshotInv, RowTyped
  <2>4. window_rows \cap batch' = {}
    BY <2>1, <2>2, <2>3
  <2>5. IsFiniteSet(window_rows')
    BY <1>2, <2>1, FS_Union DEF SnapshotInv
  <2>6. SnapshotMatchesArchive'
    <3>1. Observe(NewStats, window_rows \cup batch') = Observe(Observe(NewStats, window_rows), batch')
      BY <2>1, <2>3, <2>4, ObserveJoins DEF SnapshotInv
    <3>2. QED
      BY <1>2, <3>1 DEF SnapshotInv, SnapshotMatchesArchive
  <2>7. ASSUME ~ drain, NEW r \in batch' PROVE SlotOf[r.set] <= Cutoff
    <3>1. PICK key \in Ready(drain) : r.set = key[2]
      BY <2>1, RowIsPending
    <3>2. QED
      BY <2>7, <3>1 DEF Ready
  <2>8. QED
    BY <1>2, <2>1, <2>2, <2>3, <2>5, <2>6, <2>7
<1>3. ASSUME UNCHANGED <<stats, window_rows, evicted_upto>>, phase' # "done" => phase # "done"
      PROVE  SnapshotInv'
  <2>1. SnapshotMatchesArchive'
    BY <1>3 DEF SnapshotInv, SnapshotMatchesArchive
  <2>2. QED
    BY <1>1, <1>3, <2>1 DEF SnapshotInv
<1>4. ASSUME NEW p \in Providers, NEW d \in Payloads, Receive(p, d) PROVE SnapshotInv'
  BY <1>3, <1>4 DEF Receive, Ingest
<1>5. CASE HarvestWindow
  BY <1>1, <1>2, <1>5 DEF HarvestWindow, SnapshotInv
<1>6. CASE Rotate
  <2>1. stats' = NewStats /\ window_rows' = {}
    BY <1>6 DEF Rotate
  <2>2. SnapshotMatchesArchive'
    BY <2>1, ObserveNone DEF SnapshotMatchesArchive
  <2>3. QED
    BY <1>1, <2>1, <2>2, FS_EmptySet DEF SnapshotInv
<1>7. CASE Close
  <2>1. phase' = "done" /\ phase # "done" /\ Emit(TRUE)
        /\ stats' = Observe(stats, batch') /\ window_rows' = window_rows \cup batch'
    BY <1>7 DEF Close
  <2>2. QED
    BY <1>1, <1>2, <2>1 DEF SnapshotInv
<1>8. CASE RefreshSchedule \/ Shutdown \/ UNCHANGED vars
  BY <1>3, <1>8 DEF RefreshSchedule, Shutdown, vars, aggVars, loopVars
<1>9. QED
  BY <1>4, <1>5, <1>6, <1>7, <1>8 DEF Next

\* The totals live.zip and the manifest are written from are those of the rows of the window
\* (WindowStats::observe_sets): no harvest, rotation or shutdown counts a row twice or drops one.
THEOREM SnapshotIsArchive == Spec => []SnapshotMatchesArchive
<1>1. Init => SnapshotInv
  <2> SUFFICES ASSUME Init PROVE SnapshotInv
    OBVIOUS
  <2>1. window_rows = {} /\ stats = NewStats /\ DOMAIN sets = {}
    BY DEF Init, AggInit
  <2>2. SnapshotMatchesArchive
    BY <2>1, ObserveNone DEF SnapshotMatchesArchive
  <2>3. QED
    BY <2>1, <2>2, FS_EmptySet DEF SnapshotInv, PendingFinite
<1>2. Spec => [](LoopInv /\ SnapshotInv)
  BY InvInit, InvStep, SnapshotStep, <1>1, PTL DEF Spec
<1>3. LoopInv /\ SnapshotInv => SnapshotMatchesArchive
  BY DEF SnapshotInv
<1>4. QED
  BY <1>2, <1>3, PTL
-----------------------------------------------------------------------------
(* Races. *)

\* Who decoded what, of all rows: the terms of RacesGradedWhole.
Valid(rows, p) == {r \in rows : r.provider = p /\ r.is_valid}
Rivals(rows, r) == {x \in rows : x.set = r.set /\ x.provider # r.provider /\ x.is_valid}
Races(rows, p) == {r \in Valid(rows, p) : Rivals(rows, r) # {}}
Wins(rows, p) == {r \in Races(rows, p) : \A x \in Rivals(rows, r) : r.decode <= x.decode}
Raced(rows) == {r.set : r \in UNION {Races(rows, p) : p \in Providers}}

\* Rows that are typed, and one for each provider and set.
Batch(rows) ==
    /\ IsFiniteSet(rows)
    /\ \A r \in rows : RowTyped(r)
    /\ \A r, q \in rows : r.provider = q.provider /\ r.set = q.set => r = q

\* LiveStats counts with the operator of its own instance.
LEMMA CardinalityIs == \A S : Live!Cardinality(S) = Cardinality(S)
BY DEF Live!Cardinality, Cardinality

\* A set is contested when two providers decoded it.
LEMMA ContestedIsRaced ==
  ASSUME NEW B, Batch(B)
  PROVE  /\ Live!Contested(B) = Raced(B)
         /\ \A p \in Providers :
                {r \in {x \in B : x.provider = p} : r.is_valid /\ r.set \in Live!Contested(B)} = Races(B, p)
<1>1. \A f : f \in Live!Contested(B) <=>
                 f \in Live!SetsOf(B) /\ \E x, y \in Live!Decoded(B, f) : x # y
  <2> SUFFICES ASSUME NEW f
               PROVE  f \in Live!Contested(B) <=>
                          f \in Live!SetsOf(B) /\ \E x, y \in Live!Decoded(B, f) : x # y
    OBVIOUS
  <2>1. IsFiniteSet(Live!Decoded(B, f))
    BY FS_Subset DEF Live!Decoded, Batch
  <2>2. Cardinality(Live!Decoded(B, f)) >= 2 <=> \E x, y \in Live!Decoded(B, f) : x # y
    BY <2>1, TwoMembers
  <2>3. f \in Live!Contested(B) <=>
            f \in Live!SetsOf(B) /\ Cardinality(Live!Decoded(B, f)) >= 2
    BY CardinalityIs, Zenon DEF Live!Contested
  <2>4. QED
    BY <2>2, <2>3
<1>2. ASSUME NEW r \in B, r.is_valid PROVE r.set \in Live!Contested(B) <=> Rivals(B, r) # {}
  <2>1. ASSUME r.set \in Live!Contested(B) PROVE Rivals(B, r) # {}
    <3>1. PICK x \in Live!Decoded(B, r.set), y \in Live!Decoded(B, r.set) : x # y
      BY <1>1, <2>1
    <3>2. PICK z \in Live!Decoded(B, r.set) : z # r
      BY <3>1
    <3>3. z \in Rivals(B, r)
      BY <3>2 DEF Live!Decoded, Rivals, Batch
    <3>4. QED
      BY <3>3
  <2>2. ASSUME NEW x \in Rivals(B, r) PROVE r.set \in Live!Contested(B)
    <3>1. x \in Live!Decoded(B, r.set) /\ r \in Live!Decoded(B, r.set) /\ x # r
      BY <1>2 DEF Live!Decoded, Rivals
    <3>2. r.set \in Live!SetsOf(B)
      BY DEF Live!SetsOf
    <3>3. QED
      BY <1>1, <3>1, <3>2
  <2>3. QED
    BY <2>1, <2>2
<1>3. ASSUME NEW p \in Providers
      PROVE  {r \in {x \in B : x.provider = p} : r.is_valid /\ r.set \in Live!Contested(B)} = Races(B, p)
  BY <1>2 DEF Races, Valid
<1>4. Live!Contested(B) = Raced(B)
  <2>1. ASSUME NEW f \in Live!Contested(B) PROVE f \in Raced(B)
    <3>1. PICK r \in Live!Decoded(B, f) : TRUE
      BY <1>1, <2>1
    <3>2. r \in B /\ r.is_valid /\ r.set = f /\ r.provider \in Providers
      BY <3>1 DEF Live!Decoded, Batch, RowTyped
    <3>3. r \in Races(B, r.provider)
      BY <1>2, <2>1, <3>2 DEF Races, Valid
    <3>4. QED
      BY <3>2, <3>3 DEF Raced
  <2>2. ASSUME NEW f \in Raced(B) PROVE f \in Live!Contested(B)
    <3>1. PICK p \in Providers : \E r \in Races(B, p) : f = r.set
      BY <2>2 DEF Raced
    <3>2. QED
      BY <1>3, <3>1
  <2>3. QED
    BY <2>1, <2>2
<1>5. QED
  BY <1>3, <1>4

\* Behind is how far a row is from the first of its race, and 0 for that one.
LEMMA BehindIs ==
  ASSUME NEW B, Batch(B), NEW p \in Providers, NEW r \in Races(B, p)
  PROVE  /\ r.decode - Live!WinTime(B, r.set) \in Nat
         /\ r.decode - Live!WinTime(B, r.set) = 0 <=> r \in Wins(B, p)
<1> DEFINE D == Live!Decoded(B, r.set)
           times == {x.decode : x \in D}
           w == Live!WinTime(B, r.set)
<1>1. /\ r \in B /\ r.is_valid /\ r \in D /\ r.provider = p
      /\ \A x \in D : x \in B /\ x.decode \in Nat /\ x.is_valid /\ x.set = r.set
  BY DEF Races, Valid, Live!Decoded, Batch, RowTyped
<1>2. \E t \in times : \A x \in D : t <= x.decode
  <2>1. times \in SUBSET Nat /\ times # {}
    BY <1>1
  <2>2. PICK t \in times : \A n \in times : t <= n
    <3> HIDE DEF times
    <3> QED
      BY <2>1, LeastNatural
  <2>3. QED
    BY <2>2
<1>3. w \in times /\ \A x \in D : w <= x.decode
  BY <1>2 DEF Live!WinTime
<1>4. w \in Nat /\ r.decode \in Nat /\ w <= r.decode
  BY <1>1, <1>3
<1>5. ASSUME r.decode = w PROVE r \in Wins(B, p)
  <2>1. \A x \in Rivals(B, r) : x \in D
    BY DEF Rivals, Live!Decoded
  <2>2. QED
    BY <1>3, <1>5, <2>1 DEF Wins
<1>6. ASSUME r \in Wins(B, p) PROVE r.decode = w
  <2>1. PICK x \in D : x.decode = w
    BY <1>3
  <2>2. CASE x = r
    BY <2>1, <2>2
  <2>3. CASE x # r
    <3>1. x \in Rivals(B, r)
      BY <1>1, <2>1, <2>3 DEF Rivals, Batch
    <3>2. r.decode <= x.decode
      BY <1>6, <3>1 DEF Wins
    <3>3. QED
      BY <1>4, <2>1, <3>2
  <2>4. QED
    BY <2>2, <2>3
<1>7. QED
  <2> HIDE DEF w
  <2>1. r.decode - w \in Nat /\ (r.decode - w = 0 <=> r.decode = w)
    BY <1>4
  <2>2. QED
    BY <1>5, <1>6, <2>1 DEF w

\* Races of rows that have no set in common are apart.
Apart(A, B) == \A r \in A, x \in B : r.set # x.set

LEMMA RacesJoin ==
  ASSUME NEW A, NEW B, Apart(A, B), NEW p \in Providers
  PROVE  /\ Valid(A \cup B, p) = Valid(A, p) \cup Valid(B, p) /\ Valid(A, p) \cap Valid(B, p) = {}
         /\ Races(A \cup B, p) = Races(A, p) \cup Races(B, p) /\ Races(A, p) \cap Races(B, p) = {}
         /\ Wins(A \cup B, p) = Wins(A, p) \cup Wins(B, p) /\ Wins(A, p) \cap Wins(B, p) = {}
<1>0. A \cap B = {}
  BY DEF Apart
<1>1. /\ \A r \in A : Rivals(A \cup B, r) = Rivals(A, r)
      /\ \A r \in B : Rivals(A \cup B, r) = Rivals(B, r)
  BY DEF Rivals, Apart
<1>2. Valid(A \cup B, p) = Valid(A, p) \cup Valid(B, p) /\ Valid(A, p) \subseteq A /\ Valid(B, p) \subseteq B
  BY DEF Valid
<1>3. Races(A \cup B, p) = Races(A, p) \cup Races(B, p)
      /\ Races(A, p) \subseteq Valid(A, p) /\ Races(B, p) \subseteq Valid(B, p)
  BY <1>1, <1>2 DEF Races
<1>4. Wins(A \cup B, p) = Wins(A, p) \cup Wins(B, p)
      /\ Wins(A, p) \subseteq Races(A, p) /\ Wins(B, p) \subseteq Races(B, p)
  <2>1. \A r \in Races(A, p) : r \in A
    BY <1>2, <1>3
  <2>2. \A r \in Races(B, p) : r \in B
    BY <1>2, <1>3
  <2>3. QED
    BY <1>1, <1>3, <2>1, <2>2 DEF Wins
<1>5. QED
  BY <1>0, <1>2, <1>3, <1>4

LEMMA RacedJoin ==
  ASSUME NEW A, NEW B, Apart(A, B)
  PROVE  /\ Raced(A \cup B) = Raced(A) \cup Raced(B) /\ Raced(A) \cap Raced(B) = {}
         /\ Raced(A) \subseteq {r.set : r \in A} /\ Raced(B) \subseteq {r.set : r \in B}
         /\ {r.set : r \in A \cup B} = {r.set : r \in A} \cup {r.set : r \in B}
         /\ {r.set : r \in A} \cap {r.set : r \in B} = {}
<1>1. \A p \in Providers : Races(A \cup B, p) = Races(A, p) \cup Races(B, p)
  BY RacesJoin
<1>2. Raced(A \cup B) = Raced(A) \cup Raced(B)
  <2>2. \A f : f \in Raced(A \cup B) <=> f \in Raced(A) \/ f \in Raced(B)
    <3> SUFFICES ASSUME NEW f PROVE f \in Raced(A \cup B) <=> f \in Raced(A) \/ f \in Raced(B)
      OBVIOUS
    <3>1. (\E p \in Providers : \E r \in Races(A \cup B, p) : f = r.set) <=>
              \/ \E p \in Providers : \E r \in Races(A, p) : f = r.set
              \/ \E p \in Providers : \E r \in Races(B, p) : f = r.set
      BY <1>1
    <3>2. /\ f \in Raced(A \cup B) <=> \E p \in Providers : \E r \in Races(A \cup B, p) : f = r.set
          /\ f \in Raced(A) <=> \E p \in Providers : \E r \in Races(A, p) : f = r.set
          /\ f \in Raced(B) <=> \E p \in Providers : \E r \in Races(B, p) : f = r.set
      BY DEF Raced
    <3>3. QED
      BY <3>1, <3>2
  <2>3. QED
    BY <2>2
<1>3. Raced(A) \subseteq {r.set : r \in A} /\ Raced(B) \subseteq {r.set : r \in B}
  BY DEF Raced, Races, Valid
<1>4. {r.set : r \in A} \cap {r.set : r \in B} = {}
  BY DEF Apart
<1>5. QED
  BY <1>2, <1>3, <1>4
\* The total LiveIngest adds to behind.
LEMMA BehindSum ==
  ASSUME NEW B, NEW T, IsFiniteSet(T),
         \A x \in T : x.decode - Live!WinTime(B, x.set) \in Int
  PROVE  Live!MapThenSumSet(LAMBDA x : x.decode - Live!WinTime(B, x.set), T)
             = SumFunctionOnSet([x \in T |-> x.decode - Live!WinTime(B, x.set)], T)
<1> DEFINE F == [x \in T |-> x.decode - Live!WinTime(B, x.set)]
           adds(q) == [s \in SUBSET T |-> IF s = {} THEN 0
                          ELSE ((CHOOSE x \in s : TRUE).decode - Live!WinTime(B, (CHOOSE x \in s : TRUE).set))
                               + q[s \ {CHOOSE x \in s : TRUE}]]
           g == CHOOSE q : q = adds(q)
<1>1. /\ F \in [T -> Int]
      /\ \A s \in SUBSET T : s # {} =>
             F[CHOOSE x \in s : TRUE]
                 = ((CHOOSE x \in s : TRUE).decode - Live!WinTime(B, (CHOOSE x \in s : TRUE).set))
  <2>1. \A s \in SUBSET T : s # {} => (CHOOSE x \in s : TRUE) \in T
    OBVIOUS
  <2>2. QED
    BY <2>1
<1>2. ASSUME NEW q PROVE Sums(q, F, T) <=> q = adds(q)
  <2> HIDE DEF F
  <2>1. adds(q) = [s \in SUBSET T |-> IF s = {} THEN 0
                       ELSE F[CHOOSE x \in s : TRUE] + q[s \ {CHOOSE x \in s : TRUE}]]
    BY <1>1
  <2>2. QED
    BY <2>1 DEF Sums
<1>3. Sums(g, F, T) /\ g[T] = SumFunctionOnSet(F, T)
  <2> HIDE DEF F, adds
  <2>1. g = adds(g)
    BY <1>1, <1>2, SumChosen
  <2> HIDE DEF g
  <2>2. QED
    BY <1>1, <1>2, <2>1, SumChosen
<1>4. Live!MapThenSumSet(LAMBDA x : x.decode - Live!WinTime(B, x.set), T) = g[T]
  BY DEF Live!MapThenSumSet, Live!MapThenFoldSet
<1>5. QED
  BY <1>3, <1>4


\* What LiveIngest adds for one batch.
LEMMA LiveGrades ==
  ASSUME NEW B, Batch(B), NEW l
  PROVE  LET new == Live!LiveIngest(l, B)
         IN  /\ new.total_sets = l.total_sets + Cardinality({r.set : r \in B})
             /\ new.contested_sets = l.contested_sets + Cardinality(Raced(B))
             /\ \A p \in Providers :
                   LET old == l.per_provider[p]
                       q == new.per_provider[p]
                   IN  /\ q.valid = old.valid + Cardinality(Valid(B, p))
                       /\ q.races = old.races + Cardinality(Races(B, p))
                       /\ q.wins = old.wins + Cardinality(Wins(B, p))
                       /\ \E more \in Nat : /\ q.behind = old.behind + more
                                            /\ more = 0 <=> Races(B, p) = Wins(B, p)
<1> DEFINE new == Live!LiveIngest(l, B)
<1>1. /\ Live!Contested(B) = Raced(B)
      /\ \A p \in Providers :
             {r \in {x \in B : x.provider = p} : r.is_valid /\ r.set \in Live!Contested(B)} = Races(B, p)
  BY ContestedIsRaced
<1>2. new.total_sets = l.total_sets + Cardinality({r.set : r \in B})
  <2>1. new.total_sets = l.total_sets + Live!Cardinality(Live!SetsOf(B))
    BY DEF Live!LiveIngest
  <2>2. QED
    BY <2>1, CardinalityIs DEF Live!SetsOf
<1>3. new.contested_sets = l.contested_sets + Cardinality(Raced(B))
  <2>1. new.contested_sets = l.contested_sets + Live!Cardinality(Live!Contested(B))
    BY DEF Live!LiveIngest
  <2>2. QED
    BY <1>1, <2>1, CardinalityIs
<1>4. ASSUME NEW p \in Providers
      PROVE  /\ new.per_provider[p].valid = l.per_provider[p].valid + Cardinality(Valid(B, p))
             /\ new.per_provider[p].races = l.per_provider[p].races + Cardinality(Races(B, p))
             /\ new.per_provider[p].wins = l.per_provider[p].wins + Cardinality(Wins(B, p))
             /\ \E more \in Nat : /\ new.per_provider[p].behind = l.per_provider[p].behind + more
                                  /\ more = 0 <=> Races(B, p) = Wins(B, p)
  <2> DEFINE raced == {r \in {x \in B : x.provider = p} : r.is_valid /\ r.set \in Live!Contested(B)}
             F == [x \in raced |-> x.decode - Live!WinTime(B, x.set)]
             q == new.per_provider[p]
  <2>0. raced = Races(B, p) /\ IsFiniteSet(raced)
    <3>1. Races(B, p) \subseteq B
      BY DEF Races, Valid
    <3>2. QED
      BY <1>1, <3>1, FS_Subset DEF Batch
  <2>1. /\ q.valid = l.per_provider[p].valid + Live!Cardinality({r \in {x \in B : x.provider = p} : r.is_valid})
        /\ q.races = l.per_provider[p].races + Live!Cardinality(raced)
    BY DEF Live!LiveIngest
  <2>2. q.wins = l.per_provider[p].wins
                 + Live!Cardinality({r \in raced : r.decode - Live!WinTime(B, r.set) = 0})
    BY DEF Live!LiveIngest
  <2>3. q.behind = l.per_provider[p].behind
                   + Live!MapThenSumSet(LAMBDA x : x.decode - Live!WinTime(B, x.set), raced)
    BY DEF Live!LiveIngest
  <2>4. {r \in {x \in B : x.provider = p} : r.is_valid} = Valid(B, p)
    BY DEF Valid
  <2>5. \A r \in raced : /\ r.decode - Live!WinTime(B, r.set) \in Nat
                         /\ r.decode - Live!WinTime(B, r.set) = 0 <=> r \in Wins(B, p)
    BY <2>0, BehindIs
  <2>6. {r \in raced : r.decode - Live!WinTime(B, r.set) = 0} = Wins(B, p)
    BY <2>0, <2>5 DEF Wins
  <2>7. F \in [raced -> Nat] /\ \A r \in raced : F[r] = 0 <=> r \in Wins(B, p)
    BY <2>5
  <2>8. Live!MapThenSumSet(LAMBDA x : x.decode - Live!WinTime(B, x.set), raced) = SumFunctionOnSet(F, raced)
    <3>1. \A x \in raced : x.decode - Live!WinTime(B, x.set) \in Int
      BY <2>5
    <3> HIDE DEF raced
    <3>2. QED
      BY <2>0, <3>1, BehindSum
  <2>9. /\ SumFunctionOnSet(F, raced) \in Nat
        /\ SumFunctionOnSet(F, raced) = 0 <=> Races(B, p) = Wins(B, p)
    <3>1. /\ SumFunctionOnSet(F, raced) \in Nat
          /\ SumFunctionOnSet(F, raced) = 0 <=> \A x \in raced : F[x] = 0
      <4>1. raced \in SUBSET raced
        OBVIOUS
      <4> HIDE DEF F, raced
      <4>2. QED
        BY <2>0, <2>7, <4>1, SumNat
    <3>2. (\A x \in raced : x \in Wins(B, p)) <=> Races(B, p) = Wins(B, p)
      BY <2>0 DEF Wins
    <3>3. QED
      BY <2>7, <3>1, <3>2
  <2>10. QED
    <3> HIDE DEF F, raced, new
    <3>1. \E more \in Nat : /\ q.behind = l.per_provider[p].behind + more
                            /\ more = 0 <=> Races(B, p) = Wins(B, p)
      BY <2>3, <2>8, <2>9
    <3>2. QED
      BY <2>0, <2>1, <2>2, <2>4, <2>6, <3>1, CardinalityIs
<1>5. QED
  BY <1>2, <1>3, <1>4
\* The record of a race, from all rows.
Graded(l, rows) ==
    /\ l.total_sets = Cardinality({r.set : r \in rows})
    /\ l.contested_sets = Cardinality(Raced(rows))
    /\ \A p \in Providers :
          LET q == l.per_provider[p]
          IN  /\ q.valid = Cardinality(Valid(rows, p)) /\ q.races = Cardinality(Races(rows, p))
              /\ q.wins = Cardinality(Wins(rows, p))
              /\ q.behind \in Nat
              /\ q.behind = 0 <=> q.races = q.wins

\* Grading a batch adds its races to those graded before it.
LEMMA GradedJoins ==
  ASSUME NEW A, IsFiniteSet(A), NEW B, Batch(B), Apart(A, B), NEW l, Graded(l, A)
  PROVE  Graded(Live!LiveIngest(l, B), A \cup B)
<1> DEFINE new == Live!LiveIngest(l, B)
           setsA == {r.set : r \in A}
           setsB == {r.set : r \in B}
<1>0. IsFiniteSet(B)
  BY DEF Batch
<1>1. /\ new.total_sets = l.total_sets + Cardinality(setsB)
      /\ new.contested_sets = l.contested_sets + Cardinality(Raced(B))
      /\ \A p \in Providers :
            LET old == l.per_provider[p]
                q == new.per_provider[p]
            IN  /\ q.valid = old.valid + Cardinality(Valid(B, p))
                /\ q.races = old.races + Cardinality(Races(B, p))
                /\ q.wins = old.wins + Cardinality(Wins(B, p))
                /\ \E more \in Nat : /\ q.behind = old.behind + more
                                     /\ more = 0 <=> Races(B, p) = Wins(B, p)
  BY LiveGrades
<1>2. IsFiniteSet(setsA) /\ IsFiniteSet(setsB)
  <2>1. ASSUME NEW T, IsFiniteSet(T) PROVE IsFiniteSet({r.set : r \in T})
    <3> DEFINE f == [r \in T |-> r.set]
    <3>1. DOMAIN f = T /\ f = [x \in DOMAIN f |-> f[x]] /\ Range(f) = {r.set : r \in T}
      BY DEF Range
    <3>2. IsFiniteSet(Range(f))
      <4> HIDE DEF f
      <4> QED
        BY <2>1, <3>1, ImageFinite
    <3>3. QED
      BY <3>1, <3>2
  <2>2. QED
    BY <1>0, <2>1
<1>3. /\ Raced(A \cup B) = Raced(A) \cup Raced(B) /\ Raced(A) \cap Raced(B) = {}
      /\ Raced(A) \subseteq setsA /\ Raced(B) \subseteq setsB
      /\ {r.set : r \in A \cup B} = setsA \cup setsB /\ setsA \cap setsB = {}
  BY RacedJoin
<1> HIDE DEF new, setsA, setsB
<1>4. new.total_sets = Cardinality({r.set : r \in A \cup B})
  <2>1. Cardinality(setsA \cup setsB) = Cardinality(setsA) + Cardinality(setsB)
    BY <1>2, <1>3, DisjointSize
  <2>2. l.total_sets = Cardinality(setsA)
    BY DEF Graded, setsA
  <2>3. QED
    BY <1>1, <1>3, <2>1, <2>2
<1>5. new.contested_sets = Cardinality(Raced(A \cup B))
  <2>1. IsFiniteSet(Raced(A)) /\ IsFiniteSet(Raced(B))
    BY <1>2, <1>3, FS_Subset
  <2>2. Cardinality(Raced(A) \cup Raced(B)) = Cardinality(Raced(A)) + Cardinality(Raced(B))
    BY <1>3, <2>1, DisjointSize
  <2>3. QED
    BY <1>1, <1>3, <2>2 DEF Graded
<1>6. ASSUME NEW p \in Providers
      PROVE  LET q == new.per_provider[p]
             IN  /\ q.valid = Cardinality(Valid(A \cup B, p))
                 /\ q.races = Cardinality(Races(A \cup B, p))
                 /\ q.wins = Cardinality(Wins(A \cup B, p))
                 /\ q.behind \in Nat
                 /\ q.behind = 0 <=> q.races = q.wins
  <2> DEFINE old == l.per_provider[p]
             q == new.per_provider[p]
  <2>1. /\ Valid(A \cup B, p) = Valid(A, p) \cup Valid(B, p) /\ Valid(A, p) \cap Valid(B, p) = {}
        /\ Races(A \cup B, p) = Races(A, p) \cup Races(B, p) /\ Races(A, p) \cap Races(B, p) = {}
        /\ Wins(A \cup B, p) = Wins(A, p) \cup Wins(B, p) /\ Wins(A, p) \cap Wins(B, p) = {}
    BY RacesJoin
  <2>2. \A T : Wins(T, p) \subseteq Races(T, p) /\ Races(T, p) \subseteq Valid(T, p) /\ Valid(T, p) \subseteq T
    BY DEF Valid, Races, Wins
  <2>3. ASSUME NEW T, IsFiniteSet(T)
        PROVE  /\ IsFiniteSet(Valid(T, p)) /\ IsFiniteSet(Races(T, p)) /\ IsFiniteSet(Wins(T, p))
               /\ Cardinality(Races(T, p)) \in Nat /\ Cardinality(Wins(T, p)) \in Nat
               /\ Cardinality(Wins(T, p)) <= Cardinality(Races(T, p))
               /\ Cardinality(Wins(T, p)) = Cardinality(Races(T, p)) => Races(T, p) = Wins(T, p)
    <3>1. IsFiniteSet(Valid(T, p)) /\ IsFiniteSet(Races(T, p)) /\ IsFiniteSet(Wins(T, p))
      BY <2>2, <2>3, FS_Subset
    <3>2. QED
      BY <2>2, <3>1, FS_Subset, FS_CardinalityType
  <2>4. /\ Cardinality(Valid(A, p) \cup Valid(B, p)) = Cardinality(Valid(A, p)) + Cardinality(Valid(B, p))
        /\ Cardinality(Races(A, p) \cup Races(B, p)) = Cardinality(Races(A, p)) + Cardinality(Races(B, p))
        /\ Cardinality(Wins(A, p) \cup Wins(B, p)) = Cardinality(Wins(A, p)) + Cardinality(Wins(B, p))
    BY <1>0, <2>1, <2>3, DisjointSize
  <2>5. /\ old.valid = Cardinality(Valid(A, p)) /\ old.races = Cardinality(Races(A, p))
        /\ old.wins = Cardinality(Wins(A, p)) /\ old.behind \in Nat
        /\ old.behind = 0 <=> old.races = old.wins
    BY DEF Graded
  <2>6. /\ q.valid = old.valid + Cardinality(Valid(B, p))
        /\ q.races = old.races + Cardinality(Races(B, p))
        /\ q.wins = old.wins + Cardinality(Wins(B, p))
    BY <1>1
  <2>7. PICK more \in Nat : q.behind = old.behind + more /\ (more = 0 <=> Races(B, p) = Wins(B, p))
    BY <1>1
  <2>8. /\ q.valid = Cardinality(Valid(A \cup B, p)) /\ q.races = Cardinality(Races(A \cup B, p))
        /\ q.wins = Cardinality(Wins(A \cup B, p))
    BY <2>1, <2>4, <2>5, <2>6
  <2>9. q.behind \in Nat /\ (q.behind = 0 <=> q.races = q.wins)
    <3>1. /\ Cardinality(Races(A, p)) \in Nat /\ Cardinality(Wins(A, p)) \in Nat
          /\ Cardinality(Wins(A, p)) <= Cardinality(Races(A, p))
          /\ Cardinality(Races(B, p)) \in Nat /\ Cardinality(Wins(B, p)) \in Nat
          /\ Cardinality(Wins(B, p)) <= Cardinality(Races(B, p))
          /\ Cardinality(Wins(B, p)) = Cardinality(Races(B, p)) => Races(B, p) = Wins(B, p)
      BY <1>0, <2>3
    <3>2. more = 0 <=> Cardinality(Races(B, p)) = Cardinality(Wins(B, p))
      BY <2>7, <3>1
    <3>3. q.behind = 0 <=> old.behind = 0 /\ more = 0
      BY <2>5, <2>7
    <3>4. q.races = q.wins <=> /\ Cardinality(Races(A, p)) = Cardinality(Wins(A, p))
                               /\ Cardinality(Races(B, p)) = Cardinality(Wins(B, p))
      BY <2>5, <2>6, <3>1
    <3>5. q.behind \in Nat
      BY <2>5, <2>7
    <3>6. QED
      BY <2>5, <3>2, <3>3, <3>4, <3>5
  <2>10. QED
    BY <2>8, <2>9
<1>7. Graded(new, A \cup B)
  BY <1>4, <1>5, <1>6 DEF Graded
<1>8. QED
  BY <1>7 DEF new

\* The rows that were emitted so far.
AllRows == IF phase = "done" THEN emitted ELSE emitted \cup batch

\* As long as no rotation drained a set early, the record is that of all rows.
RaceInv ==
    /\ PendingFinite
    /\ IsFiniteSet(AllRows)
    /\ drained = {} => Graded(live, AllRows)

LEMMA RaceStep == LoopInv /\ RaceInv /\ [Next]_vars => RaceInv'
<1> SUFFICES ASSUME LoopInv, RaceInv, [Next]_vars PROVE RaceInv'
  OBVIOUS
<1>1. PendingFinite'
  BY FiniteStep DEF RaceInv
<1>2. ASSUME NEW drain \in BOOLEAN, Emit(drain), phase # "done", phase' # "done",
             live' = Live!LiveIngest(live, batch')
      PROVE  RaceInv'
  <2>1. /\ batch' = HarvestRows(drain) /\ IsFiniteSet(batch')
        /\ \A r \in batch' : SlotOf[r.set] > evicted_upto
        /\ Batch(batch')
    BY <1>2, HarvestRowsTyped DEF Emit, RaceInv, Batch
  <2>2. AllRows' = AllRows \cup batch'
    BY <1>2 DEF AllRows, Emit
  <2>3. IsFiniteSet(AllRows')
    BY <2>1, <2>2, FS_Union DEF RaceInv
  <2>4. ASSUME drained' = {} PROVE Graded(live', AllRows')
    <3>1. drained = {}
      BY <1>2, <2>4 DEF Emit
    <3>2. evicted_upto \in Nat /\ \A f \in FecSets : SlotOf[f] \in Nat
      BY AggregatorAssumption DEF LoopInv, TypeOK
    <3>3. \A r \in AllRows : r.set \in FecSets /\ SlotOf[r.set] <= evicted_upto
      BY <1>2, <3>1 DEF LoopInv, RowsClosed, AllRows
    <3>4. Apart(AllRows, batch')
      BY <2>1, <3>2, <3>3 DEF Apart
    <3>5. Graded(live, AllRows) /\ IsFiniteSet(AllRows)
      BY <3>1 DEF RaceInv
    <3>6. Graded(Live!LiveIngest(live, batch'), AllRows \cup batch')
      BY <2>1, <3>4, <3>5, GradedJoins
    <3>7. QED
      BY <1>2, <2>2, <3>6
  <2>5. QED
    BY <1>1, <2>3, <2>4 DEF RaceInv
<1>3. ASSUME AllRows' = AllRows, live' = live, drained \subseteq drained' PROVE RaceInv'
  <2>1. Graded(live, AllRows) => Graded(live', AllRows')
    BY <1>3
  <2>2. QED
    BY <1>1, <1>3, <2>1 DEF RaceInv
<1>4. ASSUME NEW p \in Providers, NEW d \in Payloads, Receive(p, d) PROVE RaceInv'
  BY <1>3, <1>4 DEF Receive, AllRows
<1>5. CASE HarvestWindow
  BY <1>2, <1>5 DEF HarvestWindow
<1>6. CASE Rotate
  BY <1>2, <1>6 DEF Rotate
<1>7. CASE Close
  BY <1>3, <1>7 DEF Close, Emit, AllRows
<1>8. CASE RefreshSchedule \/ Shutdown \/ UNCHANGED vars
  BY <1>3, <1>8 DEF RefreshSchedule, Shutdown, vars, loopVars, AllRows
<1>9. QED
  BY <1>4, <1>5, <1>6, <1>7, <1>8 DEF Next

\* As long as no rotation drained a set early, the record LiveStats keeps is the one that grading
\* all rows at once would give (LiveStats::ingest): a race is in one batch, and graded once.
THEOREM EveryRaceGradedWhole == Spec => []RacesGradedWhole
<1>1. Init => RaceInv
  <2> SUFFICES ASSUME Init PROVE RaceInv
    OBVIOUS
  <2>1. batch = {} /\ emitted = {} /\ live = Live!LiveNew /\ DOMAIN sets = {} /\ AllRows = {}
    BY DEF Init, AggInit, AllRows
  <2>2. Cardinality({}) = 0 /\ IsFiniteSet({})
    BY FS_EmptySet
  <2>3. /\ {r.set : r \in {}} = {} /\ Raced({}) = {}
        /\ \A p : Valid({}, p) = {} /\ Races({}, p) = {} /\ Wins({}, p) = {}
    BY DEF Raced, Valid, Races, Wins
  <2>4. Graded(Live!LiveNew, {})
    BY <2>2, <2>3 DEF Graded, Live!LiveNew
  <2>5. QED
    BY <2>1, <2>2, <2>4 DEF RaceInv, PendingFinite
<1>2. Spec => [](LoopInv /\ RaceInv)
  BY InvInit, InvStep, RaceStep, <1>1, PTL DEF Spec
<1>3. RaceInv => RacesGradedWhole
  BY DEF RaceInv, AllRows, Graded, RacesGradedWhole, Raced, Valid, Rivals, Races, Wins
<1>4. QED
  BY <1>2, <1>3, PTL
=============================================================================
