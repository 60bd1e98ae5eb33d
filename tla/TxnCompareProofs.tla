-------------------------- MODULE TxnCompareProofs --------------------------
(***************************************************************************)
(* Proofs about TxnCompare, for any sources, signatures and slots, any     *)
(* margins, any capacity of the deshred queue and any number of arrivals   *)
(* and connections.                                                        *)
(***************************************************************************)
EXTENDS TxnCompare, IntegerSets

-----------------------------------------------------------------------------
(* Types. *)

Partial(D, R) == UNION {[E -> R] : E \in SUBSET D}

StampRow == [ns : Nat, dups : Nat, conn : Nat \cup {None}]
EventRow == [slot : Nat, ts : [Sources -> StampRow \cup {None}]]
OutRow == [sig : Sigs, slot : Nat, sid : Sources, ns : Nat, dups : Nat]
LatencyRow == [contested : Nat, wins : Nat]
SourceSlot == [sigs : SUBSET Sigs, duplicated : Nat]
Index == [slots : Partial(Slots, [Sources -> SourceSlot]), tip : Nat]

Registry ==
    [events : Partial(Sigs, EventRow), high_slot : Nat, finalized_floor : Nat,
     distinct_total : Nat, contested_total : Nat,
     seen : [Sources -> Nat], contested : [Sources -> Nat], wins : [Sources -> Nat],
     window_latency : Partial(Rotating \X (Nat \cup {None}), LatencyRow),
     rows : SUBSET OutRow, index : Index]

LEMMA PartialFacts ==
  ASSUME NEW D, NEW R, NEW f \in Partial(D, R)
  PROVE  /\ DOMAIN f \subseteq D
         /\ \A x \in DOMAIN f : f[x] \in R
         /\ f \in [DOMAIN f -> R]
BY DEF Partial

LEMMA PartialMember ==
  ASSUME NEW D, NEW R, NEW E \in SUBSET D, NEW f \in [E -> R]
  PROVE  f \in Partial(D, R)
BY DEF Partial

LEMMA SlotFacts ==
  /\ Slots \subseteq Nat \ {0}
  /\ \A g \in Sigs : SlotOf[g] \in Slots /\ SlotOf[g] \in Nat \ {0} /\ SlotOf[g] < SLOT_MAX
BY TxnCompareAssumption, SigRegistryAssumption DEF Slots

LEMMA MonusFacts ==
  ASSUME NEW a \in Nat, NEW b \in Nat
  PROVE  Monus(a, b) \in Nat /\ Larger(a, b) \in Nat /\ Larger(a, b) >= a /\ Larger(a, b) >= b
         /\ (Larger(a, b) = a \/ Larger(a, b) = b)
BY DEF Monus, Larger

LEMMA SubsetsCounted ==
  ASSUME NEW S \in SUBSET Sigs
  PROVE  IsFiniteSet(S) /\ Cardinality(S) \in Nat
BY SigRegistryAssumption, FS_Subset, FS_CardinalityType

-----------------------------------------------------------------------------
(* The operators of the index. *)

EntryOf(x, slot) == IF slot \in DOMAIN x.slots THEN x.slots[slot] ELSE [c \in Sources |-> NewSourceSlot]
WithDelivery(entry, sid, sig) == [entry EXCEPT ![sid] = Delivered(entry[sid], sig)]

LEMMA IndexRecordTyped ==
  ASSUME NEW x \in Index, NEW sid \in Sources, NEW sig \in Sigs, NEW slot \in Slots
  PROVE  LET q == IndexRecord(x, sid, slot, sig) IN
         /\ q \in Index
         /\ q.tip = Larger(x.tip, slot)
         /\ DOMAIN q.slots = Retained(DOMAIN x.slots, Larger(x.tip, slot))
                             \cup (IF slot >= Oldest(Larger(x.tip, slot)) THEN {slot} ELSE {})
         /\ \A s \in DOMAIN q.slots :
                q.slots[s] = IF s = slot THEN WithDelivery(EntryOf(x, s), sid, sig) ELSE EntryOf(x, s)
<1> DEFINE q == IndexRecord(x, sid, slot, sig)
           tip == Larger(x.tip, slot)
           at(s) == EntryOf(x, s)
           dom == Retained(DOMAIN x.slots, tip) \cup (IF slot >= Oldest(tip) THEN {slot} ELSE {})
           new(s) == IF s = slot THEN WithDelivery(at(s), sid, sig) ELSE at(s)
           f == [s \in dom |-> new(s)]
<1>1. slot # 0 /\ slot \in Nat
  BY SlotFacts
<1>2. q = [tip |-> tip, slots |-> f]
  BY <1>1 DEF IndexRecord, EntryOf, WithDelivery
<1>3. x.tip \in Nat /\ x.slots \in Partial(Slots, [Sources -> SourceSlot])
  BY DEF Index
<1>4. tip \in Nat
  BY <1>1, <1>3, MonusFacts
<1>5. dom \subseteq Slots
  <2>1. DOMAIN x.slots \subseteq Slots
    BY <1>3, PartialFacts
  <2>2. QED
    BY <2>1 DEF Retained
<1>6. ASSUME NEW s \in Slots PROVE at(s) \in [Sources -> SourceSlot]
  <2>1. \A s1 \in DOMAIN x.slots : x.slots[s1] \in [Sources -> SourceSlot]
    BY <1>3, PartialFacts
  <2>2. NewSourceSlot \in SourceSlot
    BY DEF NewSourceSlot, SourceSlot
  <2>3. QED
    BY <2>1, <2>2 DEF EntryOf
<1>7. ASSUME NEW s \in Slots PROVE new(s) \in [Sources -> SourceSlot]
  <2>1. \A c \in SourceSlot : Delivered(c, sig) \in SourceSlot
    BY DEF Delivered, SourceSlot
  <2>2. QED
    BY <1>6, <2>1 DEF WithDelivery
<1>8. f \in [dom -> [Sources -> SourceSlot]]
  <2> HIDE DEF new
  <2>1. QED
    BY <1>5, <1>7
<1>9. f \in Partial(Slots, [Sources -> SourceSlot])
  <2> HIDE DEF f, dom
  <2>1. QED
    BY <1>5, <1>8, PartialMember
<1>10. QED
  <2> HIDE DEF new, tip
  <2>1. q \in Index
    BY <1>2, <1>4, <1>9 DEF Index
  <2>2. q.tip = tip /\ q.slots = f
    BY <1>2
  <2>3. DOMAIN q.slots = dom /\ \A s \in DOMAIN q.slots : q.slots[s] = new(s)
    BY <2>2
  <2>4. QED
    BY <2>1, <2>2, <2>3 DEF new, tip

LEMMA IndexWithoutTyped ==
  ASSUME NEW x \in Index, NEW slot
  PROVE  LET q == IndexWithout(x, slot) IN
         /\ q \in Index /\ q.tip = x.tip
         /\ q.slots = [s \in DOMAIN x.slots \ {slot} |-> x.slots[s]]
<1> DEFINE f == [s \in DOMAIN x.slots \ {slot} |-> x.slots[s]]
<1>1. x.tip \in Nat /\ x.slots \in Partial(Slots, [Sources -> SourceSlot])
  BY DEF Index
<1>2. f \in Partial(Slots, [Sources -> SourceSlot])
  <2>1. DOMAIN x.slots \ {slot} \in SUBSET Slots /\ f \in [DOMAIN x.slots \ {slot} -> [Sources -> SourceSlot]]
    BY <1>1, PartialFacts
  <2> HIDE DEF f
  <2>2. QED
    BY <2>1, PartialMember
<1>3. IndexWithout(x, slot) = [tip |-> x.tip, slots |-> f]
  BY DEF IndexWithout, Index
<1>4. QED
  <2> HIDE DEF f
  <2>1. QED
    BY <1>1, <1>2, <1>3 DEF Index, f

-----------------------------------------------------------------------------
(* record_first. *)

\* The row a delivery is noted in.
NewRow(r, sid, sig, ns, slot, conn) == Stamped(RowOf(r, sig, slot), sid, ns, slot, conn)

\* What becomes of a row.
Noted(row, new, sid, ns, slot, conn) ==
    /\ row \in EventRow /\ new \in EventRow
    /\ new.slot = IF row.slot = 0 THEN slot ELSE row.slot
    /\ \A s \in Sources \ {sid} : new.ts[s] = row.ts[s]
    /\ row.ts[sid] = None => new.ts[sid] = [ns |-> ns, dups |-> 0, conn |-> conn]
    /\ row.ts[sid] # None => new.ts[sid].ns = row.ts[sid].ns /\ new.ts[sid].conn = row.ts[sid].conn
    /\ new.ts[sid] # None

LEMMA RowTyped ==
  ASSUME NEW r \in Registry, NEW sid \in Sources, NEW sig \in Sigs, NEW ns \in Nat,
         NEW slot \in {0} \cup Slots, NEW conn \in Nat \cup {None}
  PROVE  Noted(RowOf(r, sig, slot), NewRow(r, sid, sig, ns, slot, conn), sid, ns, slot, conn)
<1> DEFINE row == RowOf(r, sig, slot)
           new == NewRow(r, sid, sig, ns, slot, conn)
           stamp == IF row.ts[sid] = None THEN [ns |-> ns, dups |-> 0, conn |-> conn]
                    ELSE [row.ts[sid] EXCEPT !.dups = @ + 1]
<1>1. slot \in Nat
  BY SlotFacts
<1>2. row \in EventRow
  <2>1. CASE sig \in DOMAIN r.events
    <3>1. r.events \in Partial(Sigs, EventRow)
      BY DEF Registry
    <3>2. QED
      BY <2>1, <3>1, PartialFacts DEF RowOf
  <2>2. CASE sig \notin DOMAIN r.events
    BY <1>1, <2>2 DEF RowOf, EventRow
  <2>3. QED
    BY <2>1, <2>2
<1> HIDE DEF row
<1>3. row.slot \in Nat /\ row.ts \in [Sources -> StampRow \cup {None}]
  BY <1>2 DEF EventRow
<1>4. new = [slot |-> IF row.slot = 0 THEN slot ELSE row.slot, ts |-> [row.ts EXCEPT ![sid] = stamp]]
  BY DEF NewRow, Stamped, row
<1>5. stamp \in StampRow
  BY <1>3 DEF StampRow
<1>6. stamp # None
  BY <1>5, SigRegistryAssumption DEF StampRow
<1>7. row.ts[sid] # None => stamp.ns = row.ts[sid].ns /\ stamp.conn = row.ts[sid].conn
  BY <1>3 DEF StampRow
<1>8. row.ts[sid] = None => stamp = [ns |-> ns, dups |-> 0, conn |-> conn]
  OBVIOUS
<1> HIDE DEF stamp, new
<1>9. new.ts = [row.ts EXCEPT ![sid] = stamp] /\ new.slot = IF row.slot = 0 THEN slot ELSE row.slot
  BY <1>4
<1>10. new.ts \in [Sources -> StampRow \cup {None}] /\ new.ts[sid] = stamp
       /\ \A s \in Sources \ {sid} : new.ts[s] = row.ts[s]
  BY <1>3, <1>5, <1>9
<1>11. new \in EventRow
  <2>1. new = [slot |-> new.slot, ts |-> new.ts]
    BY <1>4
  <2>2. new.slot \in Nat
    BY <1>1, <1>3, <1>9
  <2>3. QED
    BY <1>10, <2>1, <2>2 DEF EventRow
<1>12. Noted(row, new, sid, ns, slot, conn)
  BY <1>2, <1>6, <1>7, <1>8, <1>9, <1>10, <1>11 DEF Noted
<1>13. QED
  BY <1>12 DEF row, new

LEMMA RecordTyped ==
  ASSUME NEW r \in Registry, NEW sid \in Sources, NEW sig \in Sigs, NEW ns \in Nat,
         NEW slot \in {0} \cup Slots, NEW conn \in Nat \cup {None}
  PROVE  LET q == RecordFirst(r, sid, sig, ns, slot, conn) IN
         /\ q \in Registry
         /\ q.high_slot = Larger(r.high_slot, slot)
         /\ DOMAIN q.events = DOMAIN r.events \cup {sig}
         /\ q.events[sig] = NewRow(r, sid, sig, ns, slot, conn)
         /\ \A g \in DOMAIN r.events \ {sig} : q.events[g] = r.events[g]
         /\ q.distinct_total = r.distinct_total + (IF sig \in DOMAIN r.events THEN 0 ELSE 1)
         /\ q.rows = r.rows /\ q.finalized_floor = r.finalized_floor /\ q.wins = r.wins
         /\ q.window_latency = r.window_latency
         /\ q.index = IF Indexed(sid, sig) THEN IndexRecord(r.index, sid, slot, sig) ELSE r.index
<1> DEFINE q == RecordFirst(r, sid, sig, ns, slot, conn)
           row == RowOf(r, sig, slot)
           new == IF sig \in DOMAIN r.events THEN 0 ELSE 1
           first == IF row.ts[sid] = None THEN 1 ELSE 0
           noted == NewRow(r, sid, sig, ns, slot, conn)
           events == [g \in DOMAIN r.events \cup {sig} |-> IF g = sig THEN noted ELSE r.events[g]]
           index == IF Indexed(sid, sig) THEN IndexRecord(r.index, sid, slot, sig) ELSE r.index
           seen == [r.seen EXCEPT ![sid] = @ + first]
<1>1. slot \in Nat
  BY SlotFacts
<1>2. /\ r.events \in Partial(Sigs, EventRow) /\ r.high_slot \in Nat /\ r.distinct_total \in Nat
      /\ r.seen \in [Sources -> Nat] /\ r.index \in Index
  BY DEF Registry
<1>3. events \in Partial(Sigs, EventRow)
  <2>1. noted \in EventRow
    BY RowTyped DEF Noted
  <2>2. DOMAIN r.events \subseteq Sigs /\ \A g \in DOMAIN r.events : r.events[g] \in EventRow
    BY <1>2, PartialFacts
  <2> DEFINE E == DOMAIN r.events \cup {sig}
  <2>3. E \in SUBSET Sigs /\ events \in [E -> EventRow]
    <3> HIDE DEF noted
    <3>1. QED
      BY <2>1, <2>2
  <2> HIDE DEF E, events
  <2>4. QED
    BY <2>3, PartialMember
<1>4. index \in Index
  <2>1. CASE slot = 0
    BY <1>2, <2>1 DEF IndexRecord
  <2>2. CASE slot \in Slots
    BY <1>2, <2>2, IndexRecordTyped
  <2>3. QED
    BY <2>1, <2>2
<1>5. Larger(r.high_slot, slot) \in Nat
  BY <1>1, <1>2, MonusFacts
<1>6. seen \in [Sources -> Nat] /\ r.distinct_total + new \in Nat
  BY <1>2
<1>7. q = [r EXCEPT !.high_slot = Larger(r.high_slot, slot), !.index = index, !.events = events,
                    !.distinct_total = r.distinct_total + new, !.seen = seen]
  BY DEF RecordFirst, NewRow, Registry
<1> HIDE DEF q, events, index, seen, new
<1>8. q \in Registry
  BY <1>3, <1>4, <1>5, <1>6, <1>7 DEF Registry
<1>9. /\ q.high_slot = Larger(r.high_slot, slot) /\ q.index = index /\ q.events = events
      /\ q.distinct_total = r.distinct_total + new
      /\ q.rows = r.rows /\ q.finalized_floor = r.finalized_floor /\ q.wins = r.wins
      /\ q.window_latency = r.window_latency
  BY <1>7 DEF Registry
<1>10. QED
  BY <1>8, <1>9 DEF q, events, index, new

-----------------------------------------------------------------------------
(* finalize, and what drains the registry. *)

Raced(r, R) == {g \in R : Contested(r.events[g])}

\* Of a set of signatures those raced, and delivered through connection k.
Via(r, R, k) == {g \in Raced(r, R) : k[1] \in Present(r.events[g]) /\ r.events[g].ts[k[1]].conn = k[2]}

Won(r, R, s) == {g \in Raced(r, R) : s \in Fastest(r.events[g])}

LEMMA FoldTyped ==
  ASSUME NEW r \in Registry, NEW R \in SUBSET DOMAIN r.events
  PROVE  LET q == Fold(r, R) IN
         /\ q \in Registry
         /\ q.events = r.events /\ q.high_slot = r.high_slot /\ q.index = r.index /\ q.rows = r.rows
         /\ q.distinct_total = r.distinct_total /\ q.finalized_floor = r.finalized_floor
         /\ \A s \in Sources : q.wins[s] = r.wins[s] + Cardinality(Won(r, R, s))
         /\ \A k : Latency(q, k).contested = Latency(r, k).contested +
                       IF k \in DOMAIN q.window_latency THEN Cardinality(Via(r, R, k)) ELSE 0
         /\ \A g \in Raced(r, R) : \A s \in Present(r.events[g]) \cap Rotating :
                <<s, r.events[g].ts[s].conn>> \in DOMAIN q.window_latency
<1> DEFINE raced == Raced(r, R)
           in(s) == Cardinality({g \in raced : s \in Present(r.events[g])})
           won(s) == Cardinality({g \in raced : s \in Fastest(r.events[g])})
           via(k) == {g \in raced : /\ k[1] \in Present(r.events[g])
                                    /\ r.events[g].ts[k[1]].conn = k[2]}
           keys == UNION {{<<s, r.events[g].ts[s].conn>> : s \in Present(r.events[g]) \cap Rotating} :
                             g \in raced}
           old(k) == IF k \in DOMAIN r.window_latency THEN r.window_latency[k]
                     ELSE [contested |-> 0, wins |-> 0]
           contested == [s \in Sources |-> r.contested[s] + in(s)]
           wins == [s \in Sources |-> r.wins[s] + won(s)]
           all == DOMAIN r.window_latency \cup keys
           new(k) == [contested |-> old(k).contested + Cardinality(via(k)),
                      wins |-> old(k).wins + Cardinality({g \in via(k) : k[1] \in Fastest(r.events[g])})]
           latency == [k \in all |-> new(k)]
           q == Fold(r, R)
           Keys == Rotating \X (Nat \cup {None})
<1>1. q = [r EXCEPT !.contested_total = r.contested_total + Cardinality(raced), !.contested = contested,
                    !.wins = wins, !.window_latency = latency]
  BY DEF Fold, Raced, Registry
<1>2. /\ r.events \in Partial(Sigs, EventRow) /\ r.contested_total \in Nat
      /\ r.contested \in [Sources -> Nat] /\ r.wins \in [Sources -> Nat]
      /\ r.window_latency \in Partial(Keys, LatencyRow)
  BY DEF Registry
<1>3. R \subseteq Sigs /\ \A g \in R : r.events[g] \in EventRow
  BY <1>2, PartialFacts
<1>4. raced \subseteq R /\ raced \subseteq Sigs
  BY <1>3 DEF Raced
<1>5. ASSUME NEW S \in SUBSET raced PROVE Cardinality(S) \in Nat
  BY <1>4, SubsetsCounted
<1>6. r.contested_total + Cardinality(raced) \in Nat
  BY <1>2, <1>5
<1>7. contested \in [Sources -> Nat]
  <2>1. \A s \in Sources : in(s) \in Nat
    BY <1>5
  <2> HIDE DEF in
  <2>2. QED
    BY <1>2, <2>1
<1>8. wins \in [Sources -> Nat] /\ \A s \in Sources : wins[s] = r.wins[s] + Cardinality(Won(r, R, s))
  <2>1. \A s \in Sources : won(s) \in Nat /\ won(s) = Cardinality(Won(r, R, s))
    BY <1>5 DEF Won
  <2> HIDE DEF won
  <2>2. QED
    BY <1>2, <2>1
<1>9. all \in SUBSET Keys
  <2>1. DOMAIN r.window_latency \subseteq Keys
    BY <1>2, PartialFacts
  <2>2. ASSUME NEW g \in raced, NEW s \in Present(r.events[g]) \cap Rotating
        PROVE  <<s, r.events[g].ts[s].conn>> \in Keys
    <3>1. r.events[g].ts \in [Sources -> StampRow \cup {None}]
      BY <1>3, <1>4 DEF EventRow
    <3>2. s \in Sources /\ r.events[g].ts[s] # None
      BY DEF Present
    <3>3. r.events[g].ts[s] \in StampRow
      BY <3>1, <3>2
    <3>4. QED
      BY <3>3 DEF StampRow
  <2>3. keys \subseteq Keys
    <3> HIDE DEF raced, Keys
    <3>1. QED
      BY <2>2
  <2> HIDE DEF keys, Keys
  <2>4. QED
    BY <2>1, <2>3
<1>10. \A k : old(k) \in LatencyRow /\ via(k) = Via(r, R, k)
  <2>1. \A k \in DOMAIN r.window_latency : r.window_latency[k] \in LatencyRow
    <3> HIDE DEF Keys
    <3>1. QED
      BY <1>2, PartialFacts
  <2>2. QED
    BY <2>1 DEF Via, LatencyRow
<1>11. \A k : new(k) \in LatencyRow
  <2> SUFFICES ASSUME NEW k PROVE new(k) \in LatencyRow
    OBVIOUS
  <2>1. via(k) \subseteq raced
    OBVIOUS
  <2> DEFINE first == {g \in via(k) : k[1] \in Fastest(r.events[g])}
  <2>2. first \subseteq raced
    BY <2>1
  <2> HIDE DEF via, first, old, raced
  <2>3. Cardinality(via(k)) \in Nat /\ Cardinality(first) \in Nat
    BY <1>5, <2>1, <2>2
  <2>4. old(k).contested \in Nat /\ old(k).wins \in Nat
    BY <1>10 DEF LatencyRow
  <2>5. QED
    BY <2>3, <2>4 DEF LatencyRow, first
<1>12. latency \in Partial(Keys, LatencyRow)
  <2> HIDE DEF new, all, Keys
  <2>1. latency \in [all -> LatencyRow]
    BY <1>11
  <2> HIDE DEF latency
  <2>2. QED
    BY <1>9, <2>1, PartialMember
<1>13. DOMAIN latency = all /\ \A k \in all : latency[k].contested = old(k).contested + Cardinality(Via(r, R, k))
  <2>1. \A k : new(k).contested = old(k).contested + Cardinality(Via(r, R, k))
    BY <1>10
  <2> HIDE DEF new, all, old
  <2>2. QED
    BY <2>1
<1> HIDE DEF q, contested, wins, latency, old
<1>14. q \in Registry
  BY <1>1, <1>6, <1>7, <1>8, <1>12 DEF Registry
<1>15. /\ q.events = r.events /\ q.high_slot = r.high_slot /\ q.index = r.index /\ q.rows = r.rows
       /\ q.distinct_total = r.distinct_total /\ q.finalized_floor = r.finalized_floor
       /\ q.wins = wins /\ q.window_latency = latency
  BY <1>1 DEF Registry
<1>16. ASSUME NEW k
       PROVE  Latency(q, k).contested = Latency(r, k).contested +
                  IF k \in DOMAIN q.window_latency THEN Cardinality(Via(r, R, k)) ELSE 0
  <2>1. old(k) = Latency(r, k) /\ old(k).contested \in Nat
    BY <1>10 DEF old, Latency, LatencyRow
  <2>2. CASE k \in all
    BY <1>13, <1>15, <2>1, <2>2 DEF Latency
  <2>3. CASE k \notin all
    <3>1. Latency(q, k).contested = 0 /\ Latency(r, k).contested = 0
      BY <1>13, <1>15, <2>3 DEF Latency
    <3>2. QED
      BY <1>13, <1>15, <2>3, <3>1
  <2>4. QED
    BY <2>2, <2>3
<1>17. \A g \in Raced(r, R) : \A s \in Present(r.events[g]) \cap Rotating :
           <<s, r.events[g].ts[s].conn>> \in DOMAIN q.window_latency
  BY <1>13, <1>15
<1>18. QED
  BY <1>8, <1>14, <1>15, <1>16, <1>17 DEF q

LEMMA RowsTyped ==
  ASSUME NEW r \in Registry, NEW g \in DOMAIN r.events
  PROVE  /\ RowsOf(r, g) \subseteq OutRow
         /\ \A x \in RowsOf(r, g) : x.sig = g /\ x.sid \in Present(r.events[g]) /\ x.ns = r.events[g].ts[x.sid].ns
         /\ \A s \in Present(r.events[g]) : \E x \in RowsOf(r, g) : x.sid = s
<1> DEFINE row == r.events[g]
           out(s) == [sig |-> g, slot |-> row.slot, sid |-> s, ns |-> row.ts[s].ns, dups |-> row.ts[s].dups]
<1>1. row \in EventRow /\ g \in Sigs
  <2>1. r.events \in Partial(Sigs, EventRow)
    BY DEF Registry
  <2>2. QED
    BY <2>1, PartialFacts
<1>2. RowsOf(r, g) = {out(s) : s \in Present(row)}
  BY DEF RowsOf
<1>3. ASSUME NEW s \in Present(row)
      PROVE  out(s) \in OutRow
  <2>1. s \in Sources /\ row.ts[s] # None /\ row.ts \in [Sources -> StampRow \cup {None}] /\ row.slot \in Nat
    BY <1>1 DEF Present, EventRow
  <2>2. row.ts[s] \in StampRow
    BY <2>1
  <2>3. row.ts[s].ns \in Nat /\ row.ts[s].dups \in Nat
    BY <2>2 DEF StampRow
  <2> HIDE DEF row
  <2>4. QED
    BY <1>1, <2>1, <2>3 DEF OutRow
<1>4. \A s : out(s).sig = g /\ out(s).sid = s /\ out(s).ns = row.ts[s].ns
  OBVIOUS
<1> HIDE DEF out, row
<1>5. RowsOf(r, g) \subseteq OutRow
  BY <1>2, <1>3
<1>6. \A x \in RowsOf(r, g) : x.sig = g /\ x.sid \in Present(row) /\ x.ns = row.ts[x.sid].ns
  BY <1>2, <1>4
<1>7. \A s \in Present(row) : \E x \in RowsOf(r, g) : x.sid = s
  BY <1>2, <1>4
<1>8. QED
  BY <1>5, <1>6, <1>7 DEF row

LEMMA FloorIsNat == ASSUME NEW r \in Registry PROVE Floor(r) \in Nat
BY SigRegistryAssumption, MonusFacts DEF Floor, Registry

LEMMA FinalizeTyped ==
  ASSUME NEW r \in Registry, NEW force \in BOOLEAN
  PROVE  LET q == Finalize(r, force)
             R == Retired(r, force)
         IN  /\ q \in Registry
             /\ R \subseteq DOMAIN r.events
             /\ q.events = [g \in DOMAIN r.events \ R |-> r.events[g]]
             /\ q.rows = r.rows \cup UNION {RowsOf(r, g) : g \in R}
             /\ q.finalized_floor = IF force THEN SLOT_MAX ELSE Floor(r)
             /\ q.high_slot = r.high_slot /\ q.index = r.index /\ q.distinct_total = r.distinct_total
             /\ q.wins = Fold(r, R).wins /\ q.window_latency = Fold(r, R).window_latency
<1> DEFINE q == Finalize(r, force)
           R == Retired(r, force)
           f == Fold(r, R)
           floor == IF force THEN SLOT_MAX ELSE Floor(r)
           events == [g \in DOMAIN r.events \ R |-> r.events[g]]
           rows == r.rows \cup UNION {RowsOf(r, g) : g \in R}
<1>1. R \subseteq DOMAIN r.events
  BY DEF Retired
<1>2. f \in Registry /\ f.events = r.events /\ f.rows = r.rows /\ f.high_slot = r.high_slot
      /\ f.index = r.index /\ f.distinct_total = r.distinct_total
  <2> HIDE DEF R
  <2>1. QED
    BY <1>1, FoldTyped
<1>3. q = [f EXCEPT !.finalized_floor = floor, !.events = events, !.rows = rows]
  BY <1>2 DEF Finalize
<1>4. floor \in Nat
  BY FloorIsNat, SigRegistryAssumption
<1>5. events \in Partial(Sigs, EventRow)
  <2>1. r.events \in Partial(Sigs, EventRow)
    BY DEF Registry
  <2>2. DOMAIN r.events \ R \in SUBSET Sigs /\ events \in [DOMAIN r.events \ R -> EventRow]
    BY <2>1, PartialFacts
  <2> HIDE DEF events
  <2>3. QED
    BY <2>2, PartialMember
<1>6. rows \subseteq OutRow
  <2>1. r.rows \subseteq OutRow
    BY DEF Registry
  <2>2. \A g \in R : RowsOf(r, g) \subseteq OutRow
    BY <1>1, RowsTyped
  <2> HIDE DEF R
  <2>3. QED
    BY <2>1, <2>2
<1> HIDE DEF q, f, R, floor, events, rows
<1>7. q \in Registry
  BY <1>2, <1>3, <1>4, <1>5, <1>6 DEF Registry
<1>8. /\ q.finalized_floor = floor /\ q.events = events /\ q.rows = rows /\ q.high_slot = f.high_slot
      /\ q.index = f.index /\ q.distinct_total = f.distinct_total /\ q.wins = f.wins
      /\ q.window_latency = f.window_latency
  BY <1>2, <1>3 DEF Registry
<1>9. QED
  BY <1>1, <1>2, <1>7, <1>8 DEF q, f, R, floor, events, rows

LEMMA WithoutRowsTyped ==
  ASSUME NEW r \in Registry
  PROVE  LET q == WithoutRows(r) IN
         /\ q \in Registry
         /\ q.events = r.events /\ q.high_slot = r.high_slot /\ q.index = r.index /\ q.rows = {}
         /\ q.distinct_total = r.distinct_total /\ q.finalized_floor = r.finalized_floor /\ q.wins = r.wins
         /\ q.window_latency = r.window_latency
<1> DEFINE q == WithoutRows(r)
<1>1. q = [r EXCEPT !.rows = {}]
  BY DEF WithoutRows
<1> HIDE DEF q
<1>2. q \in Registry
  BY <1>1 DEF Registry
<1>3. /\ q.events = r.events /\ q.high_slot = r.high_slot /\ q.index = r.index /\ q.rows = {}
      /\ q.distinct_total = r.distinct_total /\ q.finalized_floor = r.finalized_floor /\ q.wins = r.wins
      /\ q.window_latency = r.window_latency
  BY <1>1 DEF Registry
<1>4. QED
  BY <1>2, <1>3 DEF q

LEMMA WithoutLatencyTyped ==
  ASSUME NEW r \in Registry, NEW K
  PROVE  LET q == WithoutLatency(r, K) IN
         /\ q \in Registry
         /\ q.events = r.events /\ q.high_slot = r.high_slot /\ q.index = r.index /\ q.rows = r.rows
         /\ q.distinct_total = r.distinct_total /\ q.finalized_floor = r.finalized_floor /\ q.wins = r.wins
         /\ q.window_latency = [k \in DOMAIN r.window_latency \ K |-> r.window_latency[k]]
<1> DEFINE q == WithoutLatency(r, K)
           Keys == Rotating \X (Nat \cup {None})
           latency == [k \in DOMAIN r.window_latency \ K |-> r.window_latency[k]]
<1>1. r.window_latency \in Partial(Keys, LatencyRow)
  BY DEF Registry
<1>2. latency \in Partial(Keys, LatencyRow)
  <2> HIDE DEF Keys
  <2>1. DOMAIN r.window_latency \ K \in SUBSET Keys /\ latency \in [DOMAIN r.window_latency \ K -> LatencyRow]
    BY <1>1, PartialFacts
  <2> HIDE DEF latency
  <2>2. QED
    BY <2>1, PartialMember
<1>3. q = [r EXCEPT !.window_latency = latency]
  BY DEF WithoutLatency
<1> HIDE DEF q, latency
<1>4. q \in Registry
  BY <1>2, <1>3 DEF Registry
<1>5. /\ q.events = r.events /\ q.high_slot = r.high_slot /\ q.index = r.index /\ q.rows = r.rows
      /\ q.distinct_total = r.distinct_total /\ q.finalized_floor = r.finalized_floor /\ q.wins = r.wins
      /\ q.window_latency = latency
  BY <1>3 DEF Registry
<1>6. QED
  BY <1>4, <1>5 DEF q, latency

LEMMA WithoutSlotTyped ==
  ASSUME NEW r \in Registry, NEW slot
  PROVE  LET q == WithoutSlot(r, slot) IN
         /\ q \in Registry
         /\ q.events = r.events /\ q.high_slot = r.high_slot /\ q.rows = r.rows
         /\ q.distinct_total = r.distinct_total /\ q.finalized_floor = r.finalized_floor /\ q.wins = r.wins
         /\ q.window_latency = r.window_latency
         /\ q.index = IndexWithout(r.index, slot)
<1> DEFINE q == WithoutSlot(r, slot)
           index == IndexWithout(r.index, slot)
<1>1. index \in Index
  <2>1. r.index \in Index
    BY DEF Registry
  <2>2. QED
    BY <2>1, IndexWithoutTyped
<1>2. q = [r EXCEPT !.index = index]
  BY DEF WithoutSlot
<1> HIDE DEF q, index
<1>3. q \in Registry
  BY <1>1, <1>2 DEF Registry
<1>4. /\ q.events = r.events /\ q.high_slot = r.high_slot /\ q.rows = r.rows
      /\ q.distinct_total = r.distinct_total /\ q.finalized_floor = r.finalized_floor /\ q.wins = r.wins
      /\ q.window_latency = r.window_latency /\ q.index = index
  BY <1>2 DEF Registry
<1>5. QED
  BY <1>3, <1>4 DEF q, index

-----------------------------------------------------------------------------
(* The types of the state. *)

Conns == 0..MaxConns
Fed == [sid : Shreds, sig : Sigs, ns : Nat]
Message == [sig : Sigs, slot : {0} \cup Slots, ns : Nat]
Task == [pc : {"between", "live", "delivering", "ended"}, conn : Conns, msg : Message \cup {None}]
Window == [delivered : Nat, tip_close : Nat \cup {None}]
Taken == [Sources -> SourceSlot]
Worker == [pc : {"waiting", "claimed", "ended"}, last_sampled : Nat, taken : Taken \cup {None}]
AuditRow == [slots_checked : Nat, slots_absent : Nat, onchain_txns : Nat,
             missed : Nat, corrupted : Nat, duplicated : Nat]
Audit == [sources : [Sources -> AuditRow], slots_checked : Nat]
FirstStamp == [ns : Nat, conn : Nat \cup {None}]
Emitted == [key : Rotating \X Conns, latency : LatencyRow, early : BOOLEAN]
Histories ==
    [fed : SUBSET (Shreds \X Sigs), first : Partial(Sources \X Sigs, FirstStamp), late : SUBSET Sigs,
     unplaced : SUBSET (Sources \X Sigs), prompt : SUBSET (Sources \X Sigs),
     again : [Sources -> Nat], emitted : SUBSET Emitted]
Stages == {"running", "join_deshred", "join_async", "finish_audit", "final_snapshot", "finish", "done"}

Typed ==
    /\ reg \in Registry /\ now \in 0..MaxArrivals
    /\ feed \in Seq(Fed) /\ Len(feed) <= QUEUE
    /\ dropped \in [Shreds -> Nat]
    /\ task \in [Grpc -> Task]
    /\ windows \in Partial(Rotating \X Conns, Window)
    /\ worker \in Worker /\ audit \in Audit
    /\ main \in Stages /\ archive \subseteq OutRow
    /\ hist \in Histories

\* What the threads hold between two steps.
Threads ==
    /\ \A s \in Grpc :
           /\ task[s].pc \in {"live", "delivering"} => task[s].conn < MaxConns
           /\ task[s].pc = "delivering" =>
                  task[s].msg \in Message /\ task[s].msg.slot \in {0, SlotOf[task[s].msg.sig]}
    /\ worker.pc = "claimed" => worker.last_sampled \in Slots /\ worker.taken \in Taken

\* A row is there because of a delivery, and is of the signature's slot as soon as one is known.
RowsPlaced ==
    \A g \in DOMAIN reg.events :
        Present(reg.events[g]) # {} /\ reg.events[g].slot \in {0, SlotOf[g]}

LEMMA SourceFacts ==
  Shreds \subseteq Sources /\ Rotating \subseteq Grpc /\ Grpc \subseteq Sources /\ Grpc \cap Shreds = {}
BY TxnCompareAssumption DEF Grpc

LEMMA HistRecorded ==
  ASSUME hist \in Histories, reg \in Registry,
         NEW sid \in Sources, NEW sig \in Sigs, NEW ns \in Nat,
         NEW slot \in {0} \cup Slots, NEW conn \in Nat \cup {None}, Record(sid, sig, ns, slot, conn)
  PROVE  /\ hist' \in Histories
         /\ hist'.fed = hist.fed /\ hist'.emitted = hist.emitted
         /\ DOMAIN hist'.first = DOMAIN hist.first \cup {<<sid, sig>>}
         /\ \A x \in DOMAIN hist.first : hist'.first[x] = hist.first[x]
         /\ <<sid, sig>> \notin DOMAIN hist.first => hist'.first[<<sid, sig>>] = [ns |-> ns, conn |-> conn]
         /\ hist'.late = IF Late(sig) THEN hist.late \cup {sig} ELSE hist.late
         /\ hist'.unplaced = IF slot = 0 THEN hist.unplaced \cup {<<sid, sig>>} ELSE hist.unplaced
         /\ hist'.prompt = IF slot # 0 /\ reg.index.tip < slot + LagSlots
                           THEN hist.prompt \cup {<<sid, sig>>} ELSE hist.prompt
         /\ \A s \in Sources : hist'.again[s] = hist.again[s] +
                (IF s = sid /\ <<sid, sig>> \in DOMAIN hist.first THEN 1 ELSE 0)
<1> DEFINE old == hist.first
           first == IF <<sid, sig>> \in DOMAIN old THEN old
                    ELSE [x \in DOMAIN old \cup {<<sid, sig>>} |->
                              IF x = <<sid, sig>> THEN [ns |-> ns, conn |-> conn] ELSE old[x]]
           late == IF Late(sig) THEN hist.late \cup {sig} ELSE hist.late
           unplaced == IF slot = 0 THEN hist.unplaced \cup {<<sid, sig>>} ELSE hist.unplaced
           prompt == IF slot # 0 /\ reg.index.tip < slot + LagSlots
                     THEN hist.prompt \cup {<<sid, sig>>} ELSE hist.prompt
           add == IF <<sid, sig>> \in DOMAIN hist.first THEN 1 ELSE 0
           again == [hist.again EXCEPT ![sid] = @ + add]
<1>1. hist' = [hist EXCEPT !.first = first, !.late = late, !.unplaced = unplaced, !.prompt = prompt, !.again = again]
  BY DEF Record, Histories
<1>2. old \in Partial(Sources \X Sigs, FirstStamp)
  BY DEF Histories
<1>3. DOMAIN old \subseteq Sources \X Sigs /\ old \in [DOMAIN old -> FirstStamp]
      /\ \A x \in DOMAIN old : old[x] \in FirstStamp
  <2> DEFINE D == Sources \X Sigs
  <2> HIDE DEF D, old
  <2>1. QED
    BY <1>2, PartialFacts DEF D
<1>4. DOMAIN first = DOMAIN old \cup {<<sid, sig>>} /\ \A x \in DOMAIN old : first[x] = old[x]
  OBVIOUS
<1>5. <<sid, sig>> \notin DOMAIN old => first[<<sid, sig>>] = [ns |-> ns, conn |-> conn]
  OBVIOUS
<1>6. first \in Partial(Sources \X Sigs, FirstStamp)
  <2> DEFINE E == DOMAIN old \cup {<<sid, sig>>}
             D == Sources \X Sigs
  <2>1. E \in SUBSET D
    BY <1>3
  <2>2. first \in [E -> FirstStamp]
    <3>1. CASE <<sid, sig>> \in DOMAIN old
      BY <1>3, <3>1
    <3>2. CASE <<sid, sig>> \notin DOMAIN old
      <4>1. [ns |-> ns, conn |-> conn] \in FirstStamp
        BY DEF FirstStamp
      <4>2. QED
        BY <1>3, <3>2, <4>1
    <3>3. QED
      BY <3>1, <3>2
  <2> HIDE DEF first, E, D
  <2>3. first \in Partial(D, FirstStamp)
    BY <2>1, <2>2, PartialMember
  <2>4. QED
    BY <2>3 DEF D
<1>7. late \subseteq Sigs /\ unplaced \subseteq Sources \X Sigs /\ prompt \subseteq Sources \X Sigs
  BY DEF Histories
<1>8. again \in [Sources -> Nat] /\ \A s \in Sources : again[s] = hist.again[s] + (IF s = sid THEN add ELSE 0)
  BY DEF Histories
<1> HIDE DEF old, first, late, unplaced, prompt, again, add
<1>9. hist' \in Histories
  BY <1>1, <1>6, <1>7, <1>8 DEF Histories
<1>10. /\ hist'.fed = hist.fed /\ hist'.emitted = hist.emitted /\ hist'.first = first /\ hist'.late = late
       /\ hist'.unplaced = unplaced /\ hist'.prompt = prompt /\ hist'.again = again
  BY <1>1 DEF Histories
<1>11. QED
  BY <1>4, <1>5, <1>8, <1>9, <1>10 DEF old, late, unplaced, prompt, add

-----------------------------------------------------------------------------
(* Type correctness, step by step. *)

TypesOK == Typed /\ Threads /\ RowsPlaced

LEMMA RecordPlaced ==
  ASSUME TypesOK, NEW sid \in Sources, NEW sig \in Sigs, NEW ns \in Nat,
         NEW slot \in {0, SlotOf[sig]}, NEW conn \in Nat \cup {None}, Record(sid, sig, ns, slot, conn)
  PROVE  /\ reg' \in Registry /\ RowsPlaced'
         /\ slot \in {0} \cup Slots
<1>1. reg \in Registry /\ reg' = RecordFirst(reg, sid, sig, ns, slot, conn) /\ slot \in {0} \cup Slots
  BY SlotFacts DEF Record, TypesOK, Typed
<1> DEFINE row == RowOf(reg, sig, slot)
           new == NewRow(reg, sid, sig, ns, slot, conn)
<1>2. /\ reg' \in Registry
      /\ DOMAIN reg'.events = DOMAIN reg.events \cup {sig}
      /\ reg'.events[sig] = new
      /\ \A g \in DOMAIN reg.events \ {sig} : reg'.events[g] = reg.events[g]
  BY <1>1, RecordTyped
<1>3. new.ts[sid] # None /\ new.slot = IF row.slot = 0 THEN slot ELSE row.slot
  <2>1. Noted(row, new, sid, ns, slot, conn)
    BY <1>1, RowTyped
  <2> HIDE DEF row, new
  <2>2. QED
    BY <2>1 DEF Noted
<1>4. row.slot \in {0, SlotOf[sig]}
  BY DEF RowOf, TypesOK, RowsPlaced
<1> HIDE DEF row, new
<1>5. Present(reg'.events[sig]) # {} /\ reg'.events[sig].slot \in {0, SlotOf[sig]}
  BY <1>2, <1>3, <1>4 DEF Present
<1>6. RowsPlaced'
  BY <1>2, <1>5 DEF TypesOK, RowsPlaced
<1>7. QED
  BY <1>1, <1>2, <1>6

LEMMA FinalizePlaced ==
  ASSUME TypesOK, NEW force \in BOOLEAN, NEW q, q = Finalize(reg, force)
  PROVE  /\ q \in Registry /\ DOMAIN q.events \subseteq DOMAIN reg.events
         /\ \A g \in DOMAIN q.events : Present(q.events[g]) # {} /\ q.events[g].slot \in {0, SlotOf[g]}
         /\ q.rows \subseteq OutRow
<1>1. reg \in Registry
  BY DEF TypesOK, Typed
<1>2. q \in Registry /\ q.events = [g \in DOMAIN reg.events \ Retired(reg, force) |-> reg.events[g]]
  BY <1>1, FinalizeTyped
<1>3. q.rows \subseteq OutRow
  BY <1>2 DEF Registry
<1>4. QED
  BY <1>2, <1>3 DEF TypesOK, RowsPlaced

LEMMA FeedTypes ==
  ASSUME TypesOK, NEW p \in Shreds, NEW g \in Sigs, Feed(p, g)
  PROVE  TypesOK'
<1> DEFINE x == [sid |-> p, sig |-> g, ns |-> now]
<1>1. now \in Nat /\ x \in Fed
  BY TxnCompareAssumption DEF TypesOK, Typed, Fed
<1>2. feed' \in Seq(Fed) /\ Len(feed') <= QUEUE /\ dropped' \in [Shreds -> Nat]
  <2>1. CASE Full
    BY <2>1 DEF Feed, TypesOK, Typed
  <2>2. CASE ~ Full
    <3>1. feed' = Append(feed, x) /\ dropped' = dropped /\ Len(feed) < QUEUE
      BY <2>2, TxnCompareAssumption DEF Feed, Full, TypesOK, Typed
    <3>2. feed \in Seq(Fed) /\ Len(feed) \in Nat
      BY DEF TypesOK, Typed
    <3> HIDE DEF x
    <3>3. QED
      BY <1>1, <3>1, <3>2, TxnCompareAssumption DEF TypesOK, Typed
  <2>3. QED
    BY <2>1, <2>2
<1>3. hist' \in Histories
  <2>1. hist' = [hist EXCEPT !.fed = hist.fed \cup {<<p, g>>}] /\ hist \in Histories
    BY DEF Feed, TypesOK, Typed, Histories
  <2>2. hist.fed \cup {<<p, g>>} \in SUBSET (Shreds \X Sigs)
    BY DEF TypesOK, Typed, Histories
  <2>3. QED
    BY <2>1, <2>2 DEF Histories
<1>4. now' \in 0..MaxArrivals
  BY TxnCompareAssumption DEF Feed, TypesOK, Typed
<1>5. UNCHANGED <<reg, task, windows, worker, audit, main, archive>>
  BY DEF Feed
<1>6. QED
  BY <1>2, <1>3, <1>4, <1>5 DEF TypesOK, Typed, Threads, RowsPlaced

\* The message a step of the deshred thread or of a task records.
LEMMA HeadTyped ==
  ASSUME Typed, feed # <<>>
  PROVE  /\ feed[1].sid \in Shreds /\ feed[1].sid \in Sources /\ feed[1].sig \in Sigs /\ feed[1].ns \in Nat
         /\ feed[1] \in Fed /\ Tail(feed) \in Seq(Fed) /\ Len(Tail(feed)) = Len(feed) - 1
         /\ SlotOf[feed[1].sig] \in Slots
<1>1. feed \in Seq(Fed) /\ feed # <<>>
  BY DEF Typed
<1>2. feed[1] \in Fed /\ Tail(feed) \in Seq(Fed) /\ Len(Tail(feed)) = Len(feed) - 1
  BY <1>1
<1>3. feed[1].sid \in Shreds /\ feed[1].sig \in Sigs /\ feed[1].ns \in Nat
  BY <1>2 DEF Fed
<1>4. QED
  BY <1>2, <1>3, SlotFacts, SourceFacts

LEMMA DeshredTypes == ASSUME TypesOK, DeshredStep PROVE TypesOK'
<1>1. Typed /\ feed # <<>> /\ feed' = Tail(feed)
  BY DEF DeshredStep, TypesOK
<1> DEFINE sid == feed[1].sid
           sig == feed[1].sig
           ns == feed[1].ns
<1>2. sid \in Sources /\ sig \in Sigs /\ ns \in Nat /\ SlotOf[sig] \in Slots
      /\ Tail(feed) \in Seq(Fed) /\ Len(Tail(feed)) = Len(feed) - 1
  BY <1>1, HeadTyped
<1>3. Record(sid, sig, ns, SlotOf[sig], None)
  BY DEF DeshredStep
<1> HIDE DEF sid, sig, ns
<1>4. reg' \in Registry /\ RowsPlaced'
  BY <1>2, <1>3, RecordPlaced
<1>5. hist' \in Histories
  BY <1>1, <1>2, <1>3, HistRecorded DEF Typed
<1>6. feed' \in Seq(Fed) /\ Len(feed') <= QUEUE
  <2>1. Len(feed) \in Nat /\ Len(feed) <= QUEUE /\ QUEUE \in Nat
    BY <1>1, TxnCompareAssumption DEF Typed
  <2>2. QED
    BY <1>1, <1>2, <2>1
<1>7. UNCHANGED <<now, dropped, task, windows, worker, audit, main, archive>>
  BY DEF DeshredStep
<1>8. QED
  BY <1>4, <1>5, <1>6, <1>7 DEF TypesOK, Typed, Threads

LEMMA TaskFacts ==
  ASSUME TypesOK, NEW s \in Grpc
  PROVE  /\ task[s] \in Task /\ task[s].conn \in Conns /\ task[s].conn \in Nat
         /\ s \in Rotating => Key(s) \in Rotating \X Conns
<1>1. task[s] \in Task /\ MaxConns \in Nat
  BY TxnCompareAssumption DEF TypesOK, Typed
<1>2. task[s].conn \in Conns
  BY <1>1 DEF Task
<1>3. task[s].conn \in Nat
  BY <1>1, <1>2 DEF Conns
<1>4. QED
  BY <1>1, <1>2, <1>3 DEF Key

LEMMA WindowFacts ==
  ASSUME TypesOK
  PROVE  /\ DOMAIN windows \subseteq Rotating \X Conns
         /\ \A k \in DOMAIN windows : windows[k] \in Window
<1> DEFINE D == Rotating \X Conns
<1>1. windows \in Partial(D, Window)
  BY DEF TypesOK, Typed
<1> HIDE DEF D
<1>2. QED
  BY <1>1, PartialFacts DEF D

LEMMA WindowsTyped ==
  ASSUME NEW E \in SUBSET (Rotating \X Conns), NEW w \in [E -> Window]
  PROVE  w \in Partial(Rotating \X Conns, Window)
<1> DEFINE D == Rotating \X Conns
<1>1. E \in SUBSET D
  OBVIOUS
<1> HIDE DEF D
<1>2. w \in Partial(D, Window)
  BY <1>1, PartialMember
<1>3. QED
  BY <1>2 DEF D

\* A step of the task of source s.
LEMMA TaskTypes ==
  ASSUME TypesOK, NEW s \in Grpc, NEW t \in Task, task' = [task EXCEPT ![s] = t],
         t.pc \in {"live", "delivering"} => t.conn < MaxConns,
         t.pc = "delivering" => t.msg \in Message /\ t.msg.slot \in {0, SlotOf[t.msg.sig]},
         UNCHANGED worker
  PROVE  task' \in [Grpc -> Task] /\ Threads'
<1>1. task \in [Grpc -> Task]
  BY DEF TypesOK, Typed
<1>2. task' \in [Grpc -> Task] /\ task'[s] = t /\ \A q \in Grpc \ {s} : task'[q] = task[q]
  BY <1>1
<1>3. QED
  BY <1>2 DEF TypesOK, Threads

LEMMA OpenTypes == ASSUME TypesOK, NEW s \in Grpc, Open(s) PROVE TypesOK'
<1> DEFINE t == [task[s] EXCEPT !.pc = "live"]
           fresh == [delivered |-> 0, tip_close |-> None]
           E == DOMAIN windows \cup {Key(s)}
           w == [k \in E |-> IF k = Key(s) THEN fresh ELSE windows[k]]
<1>1. task[s] \in Task /\ task[s].conn < MaxConns /\ task' = [task EXCEPT ![s] = t]
  BY TaskFacts DEF Open
<1>2. t \in Task /\ t.conn < MaxConns /\ t.pc = "live"
  BY <1>1 DEF Task
<1>3. windows' \in Partial(Rotating \X Conns, Window)
  <2>1. CASE s \notin Rotating
    BY <2>1 DEF Open, TypesOK, Typed
  <2>2. CASE s \in Rotating
    <3>1. windows' = w
      BY <2>2 DEF Open
    <3>2. fresh \in Window
      BY DEF Window
    <3>3. E \in SUBSET (Rotating \X Conns) /\ w \in [E -> Window]
      BY <2>2, <3>2, TaskFacts, WindowFacts
    <3> HIDE DEF w, E
    <3>4. QED
      BY <3>1, <3>3, WindowsTyped
  <2>3. QED
    BY <2>1, <2>2
<1>4. UNCHANGED <<reg, now, feed, dropped, worker, audit, main, archive, hist>>
  BY DEF Open
<1> HIDE DEF t
<1>5. task' \in [Grpc -> Task] /\ Threads'
  BY <1>1, <1>2, <1>4, TaskTypes
<1>6. QED
  BY <1>3, <1>4, <1>5 DEF TypesOK, Typed, RowsPlaced

LEMMA ArriveTypes ==
  ASSUME TypesOK, NEW s \in Grpc, NEW g \in Sigs, NEW slot \in {0} \cup Slots, Arrive(s, g, slot)
  PROVE  TypesOK'
<1> DEFINE m == [sig |-> g, slot |-> slot, ns |-> now]
           t == [task[s] EXCEPT !.pc = "delivering", !.msg = m]
<1>1. task[s] \in Task /\ task[s].pc = "live" /\ task' = [task EXCEPT ![s] = t]
  BY TaskFacts DEF Arrive
<1>2. now \in Nat
  BY TxnCompareAssumption DEF TypesOK, Typed
<1>3. m \in Message /\ m.slot \in {0, SlotOf[m.sig]}
  BY <1>2 DEF Message, Arrive
<1>4. task[s].conn < MaxConns
  BY <1>1 DEF TypesOK, Threads
<1> HIDE DEF m
<1>5. t \in Task /\ t.conn < MaxConns /\ t.msg = m
  BY <1>1, <1>3, <1>4 DEF Task
<1>6. UNCHANGED <<reg, feed, dropped, windows, worker, audit, main, archive, hist>> /\ now' \in 0..MaxArrivals
  BY TxnCompareAssumption DEF Arrive, TypesOK, Typed
<1> HIDE DEF t
<1>7. task' \in [Grpc -> Task] /\ Threads'
  BY <1>1, <1>3, <1>5, <1>6, TaskTypes
<1>8. QED
  BY <1>6, <1>7 DEF TypesOK, Typed, RowsPlaced

\* The message of a task that delivers.
LEMMA MessageFacts ==
  ASSUME TypesOK, NEW s \in Grpc, task[s].pc = "delivering"
  PROVE  /\ task[s].msg.sig \in Sigs /\ task[s].msg.ns \in Nat
         /\ task[s].msg.slot \in {0, SlotOf[task[s].msg.sig]} /\ task[s].msg.slot \in {0} \cup Slots
<1>1. task[s].msg \in Message /\ task[s].msg.slot \in {0, SlotOf[task[s].msg.sig]}
  BY DEF TypesOK, Threads
<1>2. QED
  BY <1>1 DEF Message

LEMMA DeliverTypes == ASSUME TypesOK, NEW s \in Grpc, Deliver(s) PROVE TypesOK'
<1> DEFINE t == [task[s] EXCEPT !.pc = "live", !.msg = None]
           sig == task[s].msg.sig
           ns == task[s].msg.ns
           slot == task[s].msg.slot
           conn == task[s].conn
<1>1. task[s] \in Task /\ task[s].pc = "delivering" /\ task' = [task EXCEPT ![s] = t]
      /\ s \in Sources /\ conn \in Nat \cup {None} /\ conn \in Nat
  BY TaskFacts, SourceFacts DEF Deliver
<1>2. conn < MaxConns
  BY <1>1 DEF TypesOK, Threads
<1>3. t \in Task /\ t.conn < MaxConns /\ t.pc = "live"
  BY <1>1, <1>2 DEF Task
<1>4. sig \in Sigs /\ ns \in Nat /\ slot \in {0, SlotOf[sig]} /\ slot \in {0} \cup Slots
  BY <1>1, MessageFacts
<1>5. Record(s, sig, ns, slot, conn)
  BY DEF Deliver
<1>6. windows' \in Partial(Rotating \X Conns, Window)
  <2>1. CASE Key(s) \in DOMAIN windows
    <3> DEFINE E == DOMAIN windows
               w == [windows EXCEPT ![Key(s)].delivered = @ + 1]
    <3>1. windows[Key(s)] \in Window /\ \A k \in E : windows[k] \in Window
      BY <2>1, WindowFacts
    <3>2. windows = [k \in E |-> windows[k]]
      <4>1. windows \in Partial(Rotating \X Conns, Window)
        BY DEF TypesOK, Typed
      <4>2. QED
        BY <4>1 DEF Partial
    <3>3. [windows[Key(s)] EXCEPT !.delivered = @ + 1] \in Window
      BY <3>1 DEF Window
    <3>4. w \in [E -> Window]
      BY <2>1, <3>1, <3>2, <3>3
    <3>5. windows' = w /\ E \in SUBSET (Rotating \X Conns)
      BY <2>1, WindowFacts DEF Deliver
    <3> HIDE DEF w, E
    <3>6. QED
      BY <3>4, <3>5, WindowsTyped
  <2>2. CASE Key(s) \notin DOMAIN windows
    BY <2>2 DEF Deliver, TypesOK, Typed
  <2>3. QED
    BY <2>1, <2>2
<1>7. UNCHANGED <<now, feed, dropped, worker, audit, main, archive>>
  BY DEF Deliver
<1> HIDE DEF t, sig, ns, slot, conn
<1>8. task' \in [Grpc -> Task] /\ Threads'
  BY <1>1, <1>3, <1>7, TaskTypes
<1>9. reg' \in Registry /\ RowsPlaced'
  BY <1>1, <1>4, <1>5, RecordPlaced
<1>10. hist' \in Histories
  BY <1>1, <1>4, <1>5, HistRecorded DEF TypesOK, Typed
<1>11. QED
  BY <1>6, <1>7, <1>8, <1>9, <1>10 DEF TypesOK, Typed

LEMMA ReturnTypes == ASSUME TypesOK, NEW s \in Grpc, Return(s) PROVE TypesOK'
<1> DEFINE t == [task[s] EXCEPT !.pc = "between", !.conn = @ + 1]
<1>1. task[s] \in Task /\ task[s].pc = "live" /\ task' = [task EXCEPT ![s] = t] /\ task[s].conn \in Nat
  BY TaskFacts DEF Return
<1>2. task[s].conn < MaxConns
  BY <1>1 DEF TypesOK, Threads
<1>3. task[s].conn + 1 \in Conns
  BY <1>1, <1>2, TxnCompareAssumption DEF Conns
<1>4. t \in Task /\ t.pc = "between"
  BY <1>1, <1>3 DEF Task
<1>5. windows' \in Partial(Rotating \X Conns, Window)
  <2>1. CASE Key(s) \in DOMAIN windows
    <3> DEFINE E == DOMAIN windows
               w == [windows EXCEPT ![Key(s)].tip_close = reg.high_slot]
    <3>1. windows[Key(s)] \in Window /\ \A k \in E : windows[k] \in Window
      BY <2>1, WindowFacts
    <3>2. windows = [k \in E |-> windows[k]]
      <4>1. windows \in Partial(Rotating \X Conns, Window)
        BY DEF TypesOK, Typed
      <4>2. QED
        BY <4>1 DEF Partial
    <3>3. reg.high_slot \in Nat
      BY DEF TypesOK, Typed, Registry
    <3>4. [windows[Key(s)] EXCEPT !.tip_close = reg.high_slot] \in Window
      BY <3>1, <3>3 DEF Window
    <3>5. w \in [E -> Window]
      BY <2>1, <3>1, <3>2, <3>4
    <3>6. windows' = w /\ E \in SUBSET (Rotating \X Conns)
      BY <2>1, WindowFacts DEF Return
    <3> HIDE DEF w, E
    <3>7. QED
      BY <3>5, <3>6, WindowsTyped
  <2>2. CASE Key(s) \notin DOMAIN windows
    BY <2>2 DEF Return, TypesOK, Typed
  <2>3. QED
    BY <2>1, <2>2
<1>6. UNCHANGED <<reg, now, feed, dropped, worker, audit, main, archive, hist>>
  BY DEF Return
<1> HIDE DEF t
<1>7. task' \in [Grpc -> Task] /\ Threads'
  BY <1>1, <1>4, <1>6, TaskTypes
<1>8. QED
  BY <1>5, <1>6, <1>7 DEF TypesOK, Typed, RowsPlaced

LEMMA EndTypes == ASSUME TypesOK, NEW s \in Grpc, End(s) PROVE TypesOK'
<1> DEFINE t == [task[s] EXCEPT !.pc = "ended"]
<1>1. task[s] \in Task /\ task' = [task EXCEPT ![s] = t]
  BY TaskFacts DEF End
<1>2. t \in Task /\ t.pc = "ended"
  BY <1>1 DEF Task
<1>3. UNCHANGED <<reg, now, feed, dropped, windows, worker, audit, main, archive, hist>>
  BY DEF End
<1> HIDE DEF t
<1>4. task' \in [Grpc -> Task] /\ Threads'
  BY <1>1, <1>2, <1>3, TaskTypes
<1>5. QED
  BY <1>3, <1>4 DEF TypesOK, Typed, RowsPlaced

LEMMA TargetFacts ==
  ASSUME TypesOK
  PROVE  /\ Target \in Nat /\ DOMAIN reg.index.slots \subseteq Slots /\ reg.index \in Index
         /\ \A t \in DOMAIN reg.index.slots : reg.index.slots[t] \in Taken
<1>1. reg.index \in Index
  BY DEF TypesOK, Typed, Registry
<1>2. reg.index.tip \in Nat /\ reg.index.slots \in Partial(Slots, [Sources -> SourceSlot])
  BY <1>1 DEF Index
<1>3. QED
  BY <1>1, <1>2, PartialFacts, MonusFacts, OnchainAuditAssumption DEF Target, Taken

LEMMA ClaimTypes == ASSUME TypesOK, Claim PROVE TypesOK'
<1>1. worker \in Worker /\ reg \in Registry /\ Target \in Nat
  BY TargetFacts DEF TypesOK, Typed
<1>2. UNCHANGED <<now, feed, dropped, task, windows, audit, main, archive, hist>>
  BY DEF Claim
<1>3. reg' \in Registry /\ reg'.events = reg.events
  <2>1. reg' = reg \/ reg' = WithoutSlot(reg, Target)
    BY DEF Claim
  <2>2. QED
    BY <1>1, <2>1, WithoutSlotTyped
<1>4. worker' \in Worker /\ (worker'.pc = "claimed" => worker'.last_sampled \in Slots /\ worker'.taken \in Taken)
  <2>1. CASE worker' = [worker EXCEPT !.last_sampled = Target]
    BY <1>1, <2>1 DEF Worker, Claim
  <2>2. CASE /\ Target \in DOMAIN reg.index.slots
             /\ worker' = [worker EXCEPT !.pc = "claimed", !.last_sampled = Target,
                                         !.taken = reg.index.slots[Target]]
    <3>1. Target \in Slots /\ reg.index.slots[Target] \in Taken
      BY <2>2, TargetFacts
    <3>2. QED
      BY <1>1, <2>2, <3>1 DEF Worker
  <2>3. QED
    BY <2>1, <2>2 DEF Claim
<1>5. QED
  BY <1>2, <1>3, <1>4 DEF TypesOK, Typed, Threads, RowsPlaced

LEMMA BlockTyped == ASSUME NEW slot PROVE Block(slot) \subseteq Sigs
BY TxnCompareAssumption DEF Block

LEMMA ComparedTyped ==
  ASSUME NEW a \in Audit, NEW taken \in Taken, NEW block \in SUBSET Sigs
  PROVE  /\ CompareSlot(a, taken, block) \in Audit
         /\ \A s \in Sources \ Rotating : ~ IsEmpty(taken[s]) =>
                CompareSlot(a, taken, block).sources[s] = Scored(a.sources[s], taken[s], block)
         /\ \A s \in Sources \ Rotating : IsEmpty(taken[s]) =>
                /\ CompareSlot(a, taken, block).sources[s].missed = a.sources[s].missed
                /\ CompareSlot(a, taken, block).sources[s].corrupted = a.sources[s].corrupted
                /\ CompareSlot(a, taken, block).sources[s].duplicated = a.sources[s].duplicated
<1> DEFINE new(s) == CASE s \in Rotating -> a.sources[s]
                       [] s \notin Rotating /\ IsEmpty(taken[s]) ->
                              [a.sources[s] EXCEPT !.slots_absent = @ + 1]
                       [] OTHER -> Scored(a.sources[s], taken[s], block)
           f == [s \in Sources |-> new(s)]
<1>1. ASSUME NEW s \in Sources
      PROVE  a.sources[s] \in AuditRow /\ Scored(a.sources[s], taken[s], block) \in AuditRow
             /\ [a.sources[s] EXCEPT !.slots_absent = @ + 1] \in AuditRow
  <2>1. a.sources[s] \in AuditRow /\ taken[s] \in SourceSlot
    BY DEF Audit, Taken
  <2>2. taken[s].duplicated \in Nat /\ taken[s].sigs \subseteq Sigs
    BY <2>1 DEF SourceSlot
  <2>3. Cardinality(block) \in Nat /\ Cardinality(block \ taken[s].sigs) \in Nat
        /\ Cardinality(taken[s].sigs \ block) \in Nat
    <3>1. block \ taken[s].sigs \in SUBSET Sigs /\ taken[s].sigs \ block \in SUBSET Sigs
      BY <2>2
    <3>2. QED
      BY <3>1, SubsetsCounted
  <2>4. Scored(a.sources[s], taken[s], block) \in AuditRow
    <3> DEFINE row == a.sources[s]
    <3>1. row \in AuditRow
      BY <2>1
    <3> HIDE DEF row
    <3>2. /\ row.slots_checked + 1 \in Nat /\ row.onchain_txns + Cardinality(block) \in Nat
          /\ row.missed + Cardinality(block \ taken[s].sigs) \in Nat
          /\ row.corrupted + Cardinality(taken[s].sigs \ block) \in Nat
          /\ row.duplicated + taken[s].duplicated \in Nat /\ row.slots_absent \in Nat
      BY <2>2, <2>3, <3>1 DEF AuditRow
    <3>3. Scored(row, taken[s], block) \in AuditRow
      BY <3>2 DEF AuditRow, Scored
    <3>4. QED
      BY <3>3 DEF row
  <2>5. [a.sources[s] EXCEPT !.slots_absent = @ + 1] \in AuditRow
    BY <2>1 DEF AuditRow
  <2>6. QED
    BY <2>1, <2>4, <2>5
<1>2. ASSUME NEW s \in Sources PROVE new(s) \in AuditRow
  BY <1>1
<1>3. f \in [Sources -> AuditRow]
  <2> HIDE DEF new
  <2>1. QED
    BY <1>2
<1>4. CompareSlot(a, taken, block) = [a EXCEPT !.slots_checked = a.slots_checked + 1, !.sources = f]
  BY DEF CompareSlot
<1>5. CompareSlot(a, taken, block).sources = f
  <2> HIDE DEF f
  <2>1. QED
    BY <1>4 DEF Audit
<1>6. CompareSlot(a, taken, block) \in Audit
  <2>1. ASSUME NEW n \in Nat, NEW h \in [Sources -> AuditRow]
        PROVE  [a EXCEPT !.slots_checked = n, !.sources = h] \in Audit
    BY DEF Audit
  <2>2. a.slots_checked + 1 \in Nat
    BY DEF Audit
  <2> HIDE DEF f
  <2>3. QED
    BY <1>3, <1>4, <2>1, <2>2
<1>7. ASSUME NEW s \in Sources \ Rotating, ~ IsEmpty(taken[s])
      PROVE  f[s] = Scored(a.sources[s], taken[s], block)
  BY <1>7
<1>8. ASSUME NEW s \in Sources \ Rotating, IsEmpty(taken[s])
      PROVE  f[s].missed = a.sources[s].missed /\ f[s].corrupted = a.sources[s].corrupted
             /\ f[s].duplicated = a.sources[s].duplicated
  <2>1. f[s] = [a.sources[s] EXCEPT !.slots_absent = @ + 1] /\ a.sources[s] \in AuditRow
    BY <1>1, <1>8
  <2> HIDE DEF f
  <2>2. QED
    BY <2>1 DEF AuditRow
<1>9. QED
  <2> HIDE DEF f
  <2>1. QED
    BY <1>5, <1>6, <1>7, <1>8

LEMMA SampledTypes == ASSUME TypesOK, Sampled PROVE TypesOK'
<1>1. worker \in Worker /\ worker.pc = "claimed" /\ worker.taken \in Taken /\ audit \in Audit
  BY DEF Sampled, TypesOK, Typed, Threads
<1>2. audit' \in Audit
  <2>1. audit' = audit \/ audit' = CompareSlot(audit, worker.taken, Block(worker.last_sampled))
    BY DEF Sampled
  <2>2. Block(worker.last_sampled) \in SUBSET Sigs
    BY BlockTyped
  <2>3. QED
    BY <1>1, <2>1, <2>2, ComparedTyped
<1>3. worker' \in Worker /\ worker'.pc = "waiting"
  BY <1>1 DEF Sampled, Worker
<1>4. UNCHANGED <<reg, now, feed, dropped, task, windows, main, archive, hist>>
  BY DEF Sampled
<1>5. QED
  BY <1>2, <1>3, <1>4 DEF TypesOK, Typed, Threads, RowsPlaced

LEMMA WorkerEndsTypes == ASSUME TypesOK, WorkerEnds PROVE TypesOK'
<1>1. worker' \in Worker /\ worker'.pc = "ended"
  BY DEF WorkerEnds, TypesOK, Typed, Worker
<1>2. UNCHANGED <<reg, now, feed, dropped, task, windows, audit, main, archive, hist>>
  BY DEF WorkerEnds
<1>3. QED
  BY <1>1, <1>2 DEF TypesOK, Typed, Threads, RowsPlaced

LEMMA LatencyTyped ==
  ASSUME NEW r \in Registry, NEW k
  PROVE  Latency(r, k) \in LatencyRow
<1> DEFINE D == Rotating \X (Nat \cup {None})
<1>1. r.window_latency \in Partial(D, LatencyRow)
  BY DEF Registry
<1> HIDE DEF D
<1>2. \A q \in DOMAIN r.window_latency : r.window_latency[q] \in LatencyRow
  BY <1>1, PartialFacts
<1>3. QED
  BY <1>2 DEF Latency, LatencyRow

\* A step that writes rows of windows.
LEMMA EmittedTypes ==
  ASSUME hist \in Histories, NEW E, E \subseteq Emitted, hist' = [hist EXCEPT !.emitted = @ \cup E]
  PROVE  /\ hist' \in Histories
         /\ hist'.fed = hist.fed /\ hist'.first = hist.first /\ hist'.late = hist.late
         /\ hist'.unplaced = hist.unplaced /\ hist'.prompt = hist.prompt /\ hist'.again = hist.again
         /\ hist'.emitted = hist.emitted \cup E
BY DEF Histories

\* The row of a window.
WindowRow(r, k, early) == [key |-> k, latency |-> Latency(r, k), early |-> early]

LEMMA EmitEffect ==
  ASSUME TypesOK, NEW k, EmitWindow(k)
  PROVE  \E early \in BOOLEAN :
             /\ ~ early => LatencyFinal(windows[k])
             /\ WindowRow(reg, k, early) \in Emitted
             /\ hist' = [hist EXCEPT !.emitted = @ \cup {WindowRow(reg, k, early)}]
<1>1. PICK stale \in BOOLEAN :
          hist' = [hist EXCEPT !.emitted = @ \cup
                      {[key |-> k, latency |-> Latency(reg, k), early |-> ~LatencyFinal(windows[k])]}]
  BY DEF EmitWindow
<1> DEFINE early == ~LatencyFinal(windows[k])
<1>2. early \in BOOLEAN /\ (~ early => LatencyFinal(windows[k]))
  BY DEF LatencyFinal
<1> HIDE DEF early
<1>3. hist' = [hist EXCEPT !.emitted = @ \cup {WindowRow(reg, k, early)}]
  BY <1>1 DEF WindowRow, early
<1>4. k \in Rotating \X Conns /\ Latency(reg, k) \in LatencyRow
  BY WindowFacts, LatencyTyped DEF EmitWindow, TypesOK, Typed
<1>5. WindowRow(reg, k, early) \in Emitted
  BY <1>2, <1>4 DEF WindowRow, Emitted
<1>6. QED
  BY <1>2, <1>3, <1>5

LEMMA EmitWindowTypes == ASSUME TypesOK, NEW k, EmitWindow(k) PROVE TypesOK'
<1>1. hist \in Histories /\ reg \in Registry
  BY DEF TypesOK, Typed
<1>2. hist' \in Histories
  <2>1. PICK early \in BOOLEAN : /\ WindowRow(reg, k, early) \in Emitted
                                 /\ hist' = [hist EXCEPT !.emitted = @ \cup {WindowRow(reg, k, early)}]
    BY EmitEffect
  <2> DEFINE E == {WindowRow(reg, k, early)}
  <2>2. E \subseteq Emitted /\ hist' = [hist EXCEPT !.emitted = @ \cup E]
    BY <2>1
  <2> HIDE DEF E
  <2>3. QED
    BY <1>1, <2>2, EmittedTypes
<1>3. windows' \in Partial(Rotating \X Conns, Window)
  <2> DEFINE E == DOMAIN windows \ {k}
             w == [q \in E |-> windows[q]]
  <2>1. windows' = w
    BY DEF EmitWindow
  <2>2. E \in SUBSET (Rotating \X Conns) /\ w \in [E -> Window]
    BY WindowFacts
  <2> HIDE DEF E, w
  <2>3. QED
    BY <2>1, <2>2, WindowsTyped
<1>4. reg' \in Registry /\ reg'.events = reg.events
  <2>1. reg' = WithoutLatency(reg, {k})
    BY DEF EmitWindow
  <2>2. QED
    BY <1>1, <2>1, WithoutLatencyTyped
<1>5. UNCHANGED <<now, feed, dropped, task, worker, audit, main, archive>>
  BY DEF EmitWindow
<1>6. QED
  BY <1>2, <1>3, <1>4, <1>5 DEF TypesOK, Typed, Threads, RowsPlaced

LEMMA FinishTypes == ASSUME TypesOK, FinishFilterAudit PROVE TypesOK'
<1> DEFINE final == Finalize(reg, TRUE)
           E == {[key |-> k, latency |-> Latency(final, k), early |-> FALSE] : k \in DOMAIN windows}
<1>1. hist \in Histories /\ reg \in Registry
  BY DEF TypesOK, Typed
<1>2. /\ final \in Registry
      /\ \A g \in DOMAIN final.events : Present(final.events[g]) # {} /\ final.events[g].slot \in {0, SlotOf[g]}
  BY FinalizePlaced
<1> HIDE DEF final
<1>3. hist' \in Histories
  <2>1. \A k \in DOMAIN windows : k \in Rotating \X Conns /\ Latency(final, k) \in LatencyRow
    BY <1>2, WindowFacts, LatencyTyped
  <2>2. E \subseteq Emitted
    <3>1. \A k \in DOMAIN windows :
              [key |-> k, latency |-> Latency(final, k), early |-> FALSE] \in Emitted
      BY <2>1 DEF Emitted
    <3>2. QED
      BY <3>1
  <2>3. hist' = [hist EXCEPT !.emitted = @ \cup E]
    BY DEF FinishFilterAudit, final
  <2> HIDE DEF E
  <2>4. QED
    BY <1>1, <2>2, <2>3, EmittedTypes
<1>4. reg' \in Registry /\ RowsPlaced'
  <2>1. reg' = reg \/ reg' = WithoutLatency(final, DOMAIN windows)
    BY DEF FinishFilterAudit, final
  <2>2. CASE reg' = WithoutLatency(final, DOMAIN windows)
    <3>1. reg' \in Registry /\ reg'.events = final.events
      BY <1>2, <2>2, WithoutLatencyTyped
    <3>2. QED
      BY <1>2, <3>1 DEF RowsPlaced
  <2>3. QED
    BY <1>1, <2>1, <2>2 DEF TypesOK, RowsPlaced
<1>5. windows' \in Partial(Rotating \X Conns, Window)
  <2> DEFINE none == [k \in {} |-> None]
  <2>1. windows' = none /\ none \in [{} -> Window]
    BY DEF FinishFilterAudit
  <2> HIDE DEF none
  <2>2. QED
    BY <2>1, WindowsTyped
<1>6. UNCHANGED <<now, feed, dropped, task, worker, audit, archive>> /\ main' \in Stages
  BY DEF FinishFilterAudit, Stages
<1>7. QED
  BY <1>3, <1>4, <1>5, <1>6 DEF TypesOK, Typed, Threads

\* Snapshot and FinalSnapshot.
LEMMA WriteTypes ==
  ASSUME TypesOK, NEW force \in BOOLEAN, Write(Finalize(reg, force)), main' \in Stages,
         UNCHANGED <<now, feed, dropped, task, windows, worker, audit, hist>>
  PROVE  TypesOK'
<1> DEFINE final == Finalize(reg, force)
<1>1. /\ final \in Registry /\ final.rows \subseteq OutRow
      /\ \A g \in DOMAIN final.events : Present(final.events[g]) # {} /\ final.events[g].slot \in {0, SlotOf[g]}
  BY FinalizePlaced
<1>2. archive' = archive \cup final.rows /\ reg' = WithoutRows(final)
  BY DEF Write
<1> HIDE DEF final
<1>3. reg' \in Registry /\ reg'.events = final.events
  BY <1>1, <1>2, WithoutRowsTyped
<1>4. RowsPlaced' /\ archive' \subseteq OutRow
  BY <1>1, <1>2, <1>3 DEF RowsPlaced, TypesOK, Typed
<1>5. QED
  BY <1>3, <1>4 DEF TypesOK, Typed, Threads

LEMMA StageTypes ==
  ASSUME TypesOK, main' \in Stages,
         UNCHANGED <<reg, now, feed, dropped, task, windows, worker, audit, archive, hist>>
  PROVE  TypesOK'
BY DEF TypesOK, Typed, Threads, RowsPlaced

LEMMA TypesInit == Init => TypesOK
<1> SUFFICES ASSUME Init PROVE TypesOK
  OBVIOUS
<1> USE DEF Init
<1>1. \A D, R : \A x : [y \in {} |-> x] \in Partial(D, R)
  BY DEF Partial
<1>2. reg \in Registry /\ DOMAIN reg.events = {}
  <2>1. NewIndex \in Index
    BY <1>1 DEF NewIndex, Index
  <2>2. QED
    BY <1>1, <2>1 DEF NewRegistry, Registry
<1>3. hist \in Histories
  BY <1>1 DEF Histories
<1>4. windows \in Partial(Rotating \X Conns, Window) /\ worker \in Worker
  BY <1>1 DEF Worker
<1>5. task \in [Grpc -> Task] /\ \A s \in Grpc : task[s].pc = "between"
  BY TxnCompareAssumption DEF Task, Conns
<1>6. audit \in Audit
  BY DEF NewAudit, NewSourceAudit, Audit, AuditRow
<1>7. feed \in Seq(Fed) /\ Len(feed) <= QUEUE /\ now \in 0..MaxArrivals /\ dropped \in [Shreds -> Nat]
      /\ main \in Stages /\ archive \subseteq OutRow
  BY TxnCompareAssumption DEF Stages
<1>8. QED
  BY <1>2, <1>3, <1>4, <1>5, <1>6, <1>7 DEF TypesOK, Typed, Threads, RowsPlaced

LEMMA TypesStep == TypesOK /\ [Next]_vars => TypesOK'
<1> SUFFICES ASSUME TypesOK, [Next]_vars PROVE TypesOK'
  OBVIOUS
<1>1. CASE \E p \in Shreds, g \in Sigs : Feed(p, g)
  BY <1>1, FeedTypes
<1>2. CASE DeshredStep
  BY <1>2, DeshredTypes
<1>3. ASSUME NEW s \in Grpc,
             \/ Open(s) \/ Deliver(s) \/ Return(s) \/ End(s)
             \/ \E g \in Sigs, slot \in {0} \cup Slots : Arrive(s, g, slot)
      PROVE  TypesOK'
  BY <1>3, OpenTypes, DeliverTypes, ReturnTypes, EndTypes, ArriveTypes
<1>4. CASE Claim \/ Sampled \/ WorkerEnds
  BY <1>4, ClaimTypes, SampledTypes, WorkerEndsTypes
<1>5. CASE (\E k \in DOMAIN windows : EmitWindow(k)) \/ FinishFilterAudit
  BY <1>5, EmitWindowTypes, FinishTypes
<1>6. CASE Snapshot
  <2>1. main' \in Stages
    BY <1>6 DEF Snapshot, TypesOK, Typed
  <2>2. QED
    BY <1>6, <2>1, WriteTypes DEF Snapshot
<1>7. CASE FinalSnapshot
  <2>1. main' \in Stages
    BY <1>7 DEF FinalSnapshot, Go, Stages
  <2>2. QED
    BY <1>7, <2>1, WriteTypes DEF FinalSnapshot
<1>8. CASE Cancel \/ JoinDeshred \/ JoinAsync \/ Finish
  <2>1. main' \in Stages
    <3>1. /\ Cancel => main' = "join_deshred"
          /\ JoinDeshred => main' = "join_async"
          /\ JoinAsync => main' = "finish_audit"
          /\ Finish => main' = "done"
      BY DEF Cancel, JoinDeshred, JoinAsync, Finish, Go
    <3>2. QED
      BY <1>8, <3>1 DEF Stages
  <2>2. QED
    BY <1>8, <2>1, StageTypes DEF Cancel, JoinDeshred, JoinAsync, Finish
<1>9. CASE UNCHANGED vars
  BY <1>9 DEF vars, threadVars, TypesOK, Typed, Threads, RowsPlaced
<1>10. CASE Done
  BY <1>9, <1>10 DEF Done
<1>11. QED
  BY <1>1, <1>2, <1>3, <1>4, <1>5, <1>6, <1>7, <1>8, <1>9, <1>10 DEF Next

\* Every reachable state is well typed: what the threads hold between two critical sections, the
\* rows of the registry and its index, the windows, the audit and the histories.
THEOREM TypesInvariant == Spec => []TypesOK
BY TypesInit, TypesStep, PTL DEF Spec

\* The registry keeps a row only of a signature some source delivered, the index only slots of
\* signatures, the queue its capacity, and the worker compares a slot that was indexed.
THEOREM CompareTypes == Spec => []TypeOK
<1>1. TypesOK => TypeOK
  <2> SUFFICES ASSUME TypesOK PROVE TypeOK
    OBVIOUS
  <2>1. DOMAIN reg.events \subseteq Sigs
    <3>1. reg.events \in Partial(Sigs, EventRow)
      BY DEF TypesOK, Typed, Registry
    <3>2. QED
      BY <3>1, PartialFacts
  <2>2. DOMAIN windows \subseteq Rotating \X (0..MaxConns)
    BY WindowFacts DEF Conns
  <2>3. DOMAIN reg.index.slots \subseteq Slots
    BY TargetFacts
  <2>4. worker.pc \in {"waiting", "claimed", "ended"}
    BY DEF TypesOK, Typed, Worker
  <2>5. QED
    BY <2>1, <2>2, <2>3, <2>4 DEF TypesOK, Typed, Threads, RowsPlaced, TypeOK
<1>2. QED
  BY <1>1, TypesInvariant, PTL

-----------------------------------------------------------------------------
(* The stages of the shutdown. *)

Ended == main \in {"finish_audit", "final_snapshot", "finish", "done"}

\* What each join waited for does not come back.
StagesOK ==
    /\ main = "join_async" \/ Ended => feed = <<>>
    /\ Ended => \A s \in Grpc : task[s].pc = "ended"
    /\ main \in {"final_snapshot", "finish", "done"} => DOMAIN windows = {}
    /\ main \in {"finish", "done"} => DOMAIN reg.events = {} /\ reg.rows = {}

\* What a task or the deshred thread does, it does before they are joined.
LEMMA BeforeJoined ==
  ASSUME TypesOK, StagesOK
  PROVE  /\ DeshredStep => main \in {"running", "join_deshred"}
         /\ \A s \in Grpc : task[s].pc # "ended" => main \in {"running", "join_deshred", "join_async"}
BY DEF StagesOK, Ended, DeshredStep, TypesOK, Typed, Stages

\* A step of a source's task.
TaskStep(s) ==
    \/ Open(s) \/ Deliver(s) \/ Return(s) \/ End(s)
    \/ \E g \in Sigs, slot \in {0} \cup Slots : Arrive(s, g, slot)

LEMMA TaskSteps ==
  ASSUME TypesOK, StagesOK, NEW s \in Grpc, TaskStep(s)
  PROVE  /\ main \in {"running", "join_deshred", "join_async"}
         /\ UNCHANGED <<feed, dropped, worker, audit, main, archive>>
         /\ ~ Deliver(s) => UNCHANGED <<reg, hist>>
         /\ DOMAIN windows \subseteq DOMAIN windows'
<1>1. task[s].pc # "ended"
  BY DEF TaskStep, Open, Deliver, Return, End, Arrive
<1>2. UNCHANGED <<feed, dropped, worker, audit, main, archive>> /\ (~ Deliver(s) => UNCHANGED <<reg, hist>>)
  BY DEF TaskStep, Open, Deliver, Return, End, Arrive
<1>3. DOMAIN windows \subseteq DOMAIN windows'
  BY DEF TaskStep, Open, Deliver, Return, End, Arrive
<1>4. QED
  BY <1>1, <1>2, <1>3, BeforeJoined

LEMMA StagesStep ==
  ASSUME TypesOK, StagesOK, [Next]_vars
  PROVE  StagesOK'
<1>1. ASSUME NEW p \in Shreds, NEW g \in Sigs, Feed(p, g)
      PROVE  StagesOK'
  BY <1>1 DEF Feed, StagesOK, Ended
<1>2. CASE DeshredStep
  <2>1. main' = main /\ main \in {"running", "join_deshred"}
    BY <1>2, BeforeJoined DEF DeshredStep
  <2>2. QED
    BY <2>1 DEF StagesOK, Ended
<1>3. ASSUME NEW s \in Grpc, TaskStep(s)
      PROVE  StagesOK'
  BY <1>3, TaskSteps DEF StagesOK, Ended
<1>4. CASE Claim
  <2>1. reg'.events = reg.events /\ reg'.rows = reg.rows
    BY <1>4, WithoutSlotTyped DEF Claim, TypesOK, Typed
  <2>2. UNCHANGED <<feed, task, windows, main>>
    BY <1>4 DEF Claim
  <2>3. QED
    BY <2>1, <2>2 DEF StagesOK, Ended
<1>5. CASE Sampled \/ WorkerEnds \/ UNCHANGED vars \/ Done
  <2>1. UNCHANGED <<reg, feed, task, windows, main>>
    BY <1>5 DEF Sampled, WorkerEnds, vars, threadVars, Done
  <2>2. QED
    BY <2>1 DEF StagesOK, Ended
<1>6. ASSUME NEW k, EmitWindow(k)
      PROVE  StagesOK'
  <2>1. main \in {"running", "join_deshred", "join_async"} /\ UNCHANGED <<main, feed>>
    BY <1>6 DEF EmitWindow
  <2>2. QED
    BY <2>1 DEF StagesOK, Ended
<1>7. CASE FinishFilterAudit
  <2>1. main = "finish_audit" /\ main' = "final_snapshot" /\ UNCHANGED <<feed, task>> /\ DOMAIN windows' = {}
    BY <1>7 DEF FinishFilterAudit
  <2>2. QED
    BY <2>1 DEF StagesOK, Ended
<1>8. CASE Snapshot
  <2>1. main = "running" /\ UNCHANGED <<main, feed, task, windows>>
    BY <1>8 DEF Snapshot
  <2>2. QED
    BY <2>1 DEF StagesOK, Ended
<1>9. CASE FinalSnapshot
  <2> DEFINE q == Finalize(reg, TRUE)
  <2>1. main = "final_snapshot" /\ main' = "finish" /\ UNCHANGED <<feed, task, windows>> /\ reg' = WithoutRows(q)
    BY <1>9 DEF FinalSnapshot, Go, Write
  <2>2. reg \in Registry /\ Retired(reg, TRUE) = DOMAIN reg.events
    BY DEF TypesOK, Typed, Retired
  <2>3. q \in Registry /\ DOMAIN q.events = {}
    BY <2>2, FinalizeTyped
  <2> HIDE DEF q
  <2>4. DOMAIN reg'.events = {} /\ reg'.rows = {}
    BY <2>1, <2>3, WithoutRowsTyped
  <2>5. QED
    BY <2>1, <2>4 DEF StagesOK, Ended
<1>10. CASE Cancel \/ JoinDeshred
  BY <1>10 DEF Cancel, JoinDeshred, Go, StagesOK, Ended
<1>11. CASE JoinAsync
  BY <1>11 DEF JoinAsync, Go, StagesOK, Ended
<1>12. CASE Finish
  BY <1>12 DEF Finish, Go, StagesOK, Ended
<1>13. QED
  BY <1>1, <1>2, <1>3, <1>4, <1>5, <1>6, <1>7, <1>8, <1>9, <1>10, <1>11, <1>12 DEF Next, TaskStep

-----------------------------------------------------------------------------
(* No delivery is lost on its way to the archive. *)

Held(r, x) == x[2] \in DOMAIN r.events /\ r.events[x[2]].ts[x[1]] # None

Written(R, x) == \E row \in R : row.sid = x[1] /\ row.sig = x[2]

\* Every delivery recorded is in a row of the registry, or in one drained from it.
DeliveriesKept == \A x \in DOMAIN hist.first : Held(reg, x) \/ Written(Out, x)

LEMMA RecordKeeps ==
  ASSUME TypesOK, DeliveriesKept, NEW sid \in Sources, NEW sig \in Sigs, NEW ns \in Nat,
         NEW slot \in {0, SlotOf[sig]}, NEW conn \in Nat \cup {None}, Record(sid, sig, ns, slot, conn),
         archive' = archive
  PROVE  DeliveriesKept'
<1>1. reg \in Registry /\ reg' = RecordFirst(reg, sid, sig, ns, slot, conn) /\ slot \in {0} \cup Slots
      /\ hist \in Histories
  BY SlotFacts DEF Record, TypesOK, Typed
<1>2. DOMAIN hist'.first = DOMAIN hist.first \cup {<<sid, sig>>} /\ DOMAIN hist.first \subseteq Sources \X Sigs
  <2>1. hist.first \in Partial(Sources \X Sigs, FirstStamp)
    BY <1>1 DEF Histories
  <2> DEFINE D == Sources \X Sigs
  <2>2. DOMAIN hist.first \subseteq D
    <3> HIDE DEF D
    <3>1. QED
      BY <2>1, PartialFacts DEF D
  <2>3. QED
    BY <1>1, <2>2, HistRecorded
<1> DEFINE row == RowOf(reg, sig, slot)
           new == NewRow(reg, sid, sig, ns, slot, conn)
<1>3. /\ DOMAIN reg'.events = DOMAIN reg.events \cup {sig}
      /\ reg'.events[sig] = new
      /\ \A g \in DOMAIN reg.events \ {sig} : reg'.events[g] = reg.events[g]
      /\ reg'.rows = reg.rows
  <2>1. DOMAIN reg'.events = DOMAIN reg.events \cup {sig}
    BY <1>1, RecordTyped
  <2>2. reg'.events[sig] = new
    BY <1>1, RecordTyped
  <2>3. \A g \in DOMAIN reg.events \ {sig} : reg'.events[g] = reg.events[g]
    BY <1>1, RecordTyped
  <2>4. reg'.rows = reg.rows
    BY <1>1, RecordTyped
  <2>5. QED
    BY <2>1, <2>2, <2>3, <2>4
<1>4. Noted(row, new, sid, ns, slot, conn)
  BY <1>1, RowTyped
<1>5. sig \in DOMAIN reg.events => row = reg.events[sig]
  BY DEF RowOf
<1> HIDE DEF row, new
<1>6. Out' = Out
  BY <1>3 DEF Out
<1>7. ASSUME NEW x \in DOMAIN hist.first, Held(reg, x)
      PROVE  Held(reg', x)
  <2>1. CASE x[2] = sig
    <3>1. row.ts[x[1]] # None /\ x[1] \in Sources
      BY <1>2, <1>5, <1>7, <2>1 DEF Held
    <3>2. new.ts[x[1]] # None
      BY <1>4, <3>1 DEF Noted
    <3>3. QED
      BY <1>3, <2>1, <3>2 DEF Held
  <2>2. CASE x[2] # sig
    BY <1>3, <1>7, <2>2 DEF Held
  <2>3. QED
    BY <2>1, <2>2
<1>8. Held(reg', <<sid, sig>>)
  BY <1>3, <1>4 DEF Held, Noted
<1>9. QED
  BY <1>2, <1>6, <1>7, <1>8 DEF DeliveriesKept

LEMMA FinalizeKeeps ==
  ASSUME NEW r \in Registry, NEW force \in BOOLEAN, NEW q, q = Finalize(r, force), 
         NEW x \in Sources \X Sigs, Held(r, x)
  PROVE  Held(q, x) \/ Written(q.rows, x)
<1>1. /\ q.events = [g \in DOMAIN r.events \ Retired(r, force) |-> r.events[g]]
      /\ q.rows = r.rows \cup UNION {RowsOf(r, g) : g \in Retired(r, force)}
  BY FinalizeTyped
<1>2. CASE x[2] \notin Retired(r, force)
  BY <1>1, <1>2 DEF Held
<1>3. CASE x[2] \in Retired(r, force)
  <2> DEFINE g == x[2]
             s == x[1]
  <2>1. g \in DOMAIN r.events /\ s \in Present(r.events[g]) /\ g \in Retired(r, force)
    BY <1>3 DEF Held, Present
  <2> HIDE DEF g, s
  <2>2. PICK row \in RowsOf(r, g) : row.sid = s
    <3>1. \A p \in Present(r.events[g]) : \E y \in RowsOf(r, g) : y.sid = p
      BY <2>1, RowsTyped
    <3>2. QED
      BY <2>1, <3>1
  <2>3. row.sig = g
    BY <2>1, RowsTyped
  <2>4. row \in q.rows
    BY <1>1, <2>1
  <2>5. QED
    BY <2>2, <2>3, <2>4 DEF Written, g, s
<1>4. QED
  BY <1>2, <1>3

LEMMA FirstTyped ==
  ASSUME TypesOK
  PROVE  /\ DOMAIN hist.first \subseteq Sources \X Sigs
         /\ \A x \in DOMAIN hist.first : hist.first[x] \in FirstStamp
<1> DEFINE D == Sources \X Sigs
<1>1. hist.first \in Partial(D, FirstStamp)
  BY DEF TypesOK, Typed, Histories
<1> HIDE DEF D
<1>2. QED
  BY <1>1, PartialFacts DEF D

\* What was retired is in the rows, and what is drained is in the archive.
LEMMA RetiringKeeps ==
  ASSUME TypesOK, DeliveriesKept, hist'.first = hist.first, NEW force \in BOOLEAN, NEW q, q = Finalize(reg, force),
         reg'.events = q.events, q.rows \subseteq Out', archive \subseteq Out'
  PROVE  DeliveriesKept'
<1>1. reg \in Registry
  BY DEF TypesOK, Typed
<1>2. reg.rows \subseteq q.rows
  BY <1>1, FinalizeTyped
<1>3. ASSUME NEW x \in DOMAIN hist.first
      PROVE  Held(reg', x) \/ Written(Out', x)
  <2>1. x \in Sources \X Sigs
    BY FirstTyped
  <2>2. CASE Held(reg, x)
    <3>1. Held(q, x) \/ Written(q.rows, x)
      BY <1>1, <2>1, <2>2, FinalizeKeeps
    <3>2. QED
      BY <3>1 DEF Held, Written
  <2>3. CASE Written(Out, x)
    BY <1>2, <2>3 DEF Written, Out
  <2>4. QED
    BY <2>2, <2>3 DEF DeliveriesKept
<1>4. QED
  BY <1>3 DEF DeliveriesKept

LEMMA KeepsStill ==
  ASSUME DeliveriesKept, hist'.first = hist.first, reg'.events = reg.events, reg'.rows = reg.rows,
         archive' = archive
  PROVE  DeliveriesKept'
BY DEF DeliveriesKept, Held, Written, Out

LEMMA KeptStep ==
  ASSUME TypesOK, StagesOK, DeliveriesKept, [Next]_vars
  PROVE  DeliveriesKept'
<1>1. ASSUME NEW p \in Shreds, NEW g \in Sigs, Feed(p, g)
      PROVE  DeliveriesKept'
  <2>1. hist'.first = hist.first
    BY <1>1 DEF Feed, TypesOK, Typed, Histories
  <2>2. QED
    BY <1>1, <2>1, KeepsStill DEF Feed
<1>2. CASE DeshredStep
  BY <1>2, HeadTyped, RecordKeeps, SourceFacts DEF DeshredStep, TypesOK
<1>3. ASSUME NEW s \in Grpc, TaskStep(s)
      PROVE  DeliveriesKept'
  <2>1. CASE Deliver(s)
    <3> DEFINE sig == task[s].msg.sig
               ns == task[s].msg.ns
               slot == task[s].msg.slot
               conn == task[s].conn
    <3>1. s \in Sources /\ conn \in Nat \cup {None} /\ sig \in Sigs /\ ns \in Nat /\ slot \in {0, SlotOf[sig]}
      BY <2>1, TaskFacts, SourceFacts, MessageFacts DEF Deliver
    <3>2. Record(s, sig, ns, slot, conn) /\ archive' = archive
      BY <2>1 DEF Deliver
    <3> HIDE DEF sig, ns, slot, conn
    <3>3. QED
      BY <3>1, <3>2, RecordKeeps
  <2>2. CASE ~ Deliver(s)
    BY <1>3, <2>2, TaskSteps, KeepsStill
  <2>3. QED
    BY <2>1, <2>2
<1>4. CASE Claim
  <2>1. reg'.events = reg.events /\ reg'.rows = reg.rows
    BY <1>4, WithoutSlotTyped DEF Claim, TypesOK, Typed
  <2>2. QED
    BY <1>4, <2>1, KeepsStill DEF Claim
<1>5. CASE Sampled \/ WorkerEnds \/ UNCHANGED vars \/ Done \/ Cancel \/ JoinDeshred \/ JoinAsync \/ Finish
  <2>1. UNCHANGED <<reg, archive, hist>>
    BY <1>5 DEF Sampled, WorkerEnds, vars, threadVars, Done, Cancel, JoinDeshred, JoinAsync, Finish
  <2>2. QED
    BY <2>1, KeepsStill
<1>6. ASSUME NEW k, EmitWindow(k)
      PROVE  DeliveriesKept'
  <2>1. reg' = WithoutLatency(reg, {k}) /\ archive' = archive /\ reg \in Registry /\ hist \in Histories
    BY <1>6 DEF EmitWindow, TypesOK, Typed
  <2>2. reg'.events = reg.events /\ reg'.rows = reg.rows
    BY <2>1, WithoutLatencyTyped
  <2>3. hist'.first = hist.first
    BY <1>6, <2>1, EmitEffect DEF Histories
  <2>4. QED
    BY <2>1, <2>2, <2>3, KeepsStill
<1>7. CASE FinishFilterAudit
  <2> DEFINE q == Finalize(reg, TRUE)
  <2>1. hist'.first = hist.first /\ archive' = archive
    BY <1>7 DEF FinishFilterAudit, TypesOK, Typed, Histories
  <2>2. q \in Registry
    BY FinalizePlaced
  <2>3. CASE Rotating = {}
    BY <1>7, <2>1, <2>3, KeepsStill DEF FinishFilterAudit
  <2>4. CASE Rotating # {}
    <3>1. reg' = WithoutLatency(q, DOMAIN windows)
      BY <1>7, <2>4 DEF FinishFilterAudit
    <3> HIDE DEF q
    <3>2. reg'.events = q.events /\ reg'.rows = q.rows
      BY <2>2, <3>1, WithoutLatencyTyped
    <3>3. q.rows \subseteq Out' /\ archive \subseteq Out'
      BY <2>1, <3>2 DEF Out
    <3>4. QED
      BY <2>1, <3>2, <3>3, RetiringKeeps DEF q
  <2>5. QED
    BY <2>3, <2>4
<1>8. ASSUME NEW force \in BOOLEAN, Write(Finalize(reg, force)), UNCHANGED hist
      PROVE  DeliveriesKept'
  <2> DEFINE q == Finalize(reg, force)
  <2>1. q \in Registry
    BY FinalizePlaced
  <2>2. archive' = archive \cup q.rows /\ reg' = WithoutRows(q)
    BY <1>8 DEF Write
  <2> HIDE DEF q
  <2>3. reg'.events = q.events
    BY <2>1, <2>2, WithoutRowsTyped
  <2>4. q.rows \subseteq Out' /\ archive \subseteq Out'
    BY <2>2 DEF Out
  <2>5. QED
    BY <1>8, <2>3, <2>4, RetiringKeeps DEF q
<1>9. CASE Snapshot \/ FinalSnapshot
  BY <1>8, <1>9 DEF Snapshot, FinalSnapshot
<1>10. QED
  BY <1>1, <1>2, <1>3, <1>4, <1>5, <1>6, <1>7, <1>9 DEF Next, TaskStep

-----------------------------------------------------------------------------
(* Every data set fed is queued, recorded or counted as dropped. *)

Queued == {<<feed[i].sid, feed[i].sig>> : i \in 1..Len(feed)}

\* What the full queue refused of provider p.
Lost(p) == {x \in hist.fed : x[1] = p /\ x \notin Queued /\ x \notin DOMAIN hist.first}

FeedOK ==
    /\ IsFiniteSet(hist.fed)
    /\ Queued \subseteq hist.fed
    /\ \A x \in DOMAIN hist.first : x[1] \in Shreds => x \in hist.fed
    /\ \A p \in Shreds : dropped[p] = Cardinality(Lost(p))

LEMMA LostFinite ==
  ASSUME FeedOK, NEW p
  PROVE  IsFiniteSet(Lost(p)) /\ Cardinality(Lost(p)) \in Nat
BY FS_Subset, FS_CardinalityType DEF FeedOK, Lost

LEMMA FeedFeeds ==
  ASSUME TypesOK, FeedOK, NEW p \in Shreds, NEW g \in Sigs, Feed(p, g)
  PROVE  FeedOK'
<1> DEFINE x == <<p, g>>
           m == [sid |-> p, sig |-> g, ns |-> now]
<1>1. hist'.fed = hist.fed \cup {x} /\ hist'.first = hist.first /\ x \notin hist.fed
  BY DEF Feed, TypesOK, Typed, Histories
<1>2. feed \in Seq(Fed) /\ dropped \in [Shreds -> Nat] /\ Len(feed) \in Nat
  BY DEF TypesOK, Typed
<1>3. x \notin Queued /\ x \notin DOMAIN hist.first /\ x[1] = p
  BY <1>1 DEF FeedOK
<1>4. IsFiniteSet(hist'.fed)
  BY <1>1, FS_AddElement DEF FeedOK
<1>5. CASE Full
  <2>1. feed' = feed /\ dropped' = [dropped EXCEPT ![p] = @ + 1]
    BY <1>5 DEF Feed
  <2>2. Queued' = Queued
    BY <2>1 DEF Queued
  <2>3. Lost(p)' = Lost(p) \cup {x} /\ x \notin Lost(p)
    BY <1>1, <1>3, <2>2 DEF Lost
  <2>4. \A q \in Shreds \ {p} : Lost(q)' = Lost(q)
    BY <1>1, <1>3, <2>2 DEF Lost
  <2>5. Cardinality(Lost(p)') = Cardinality(Lost(p)) + 1
    BY <2>3, LostFinite, FS_AddElement
  <2>6. \A q \in Shreds : dropped'[q] = Cardinality(Lost(q)')
    BY <1>2, <2>1, <2>4, <2>5 DEF FeedOK
  <2>7. QED
    BY <1>1, <1>4, <2>2, <2>6 DEF FeedOK
<1>6. CASE ~ Full
  <2>1. feed' = Append(feed, m) /\ dropped' = dropped
    BY <1>6 DEF Feed
  <2>2. Queued' = Queued \cup {x}
    <3>1. Len(feed') = Len(feed) + 1 /\ (\A i \in 1..Len(feed) : feed'[i] = feed[i]) /\ feed'[Len(feed) + 1] = m
      BY <1>2, <2>1
    <3>2. <<m.sid, m.sig>> = x
      OBVIOUS
    <3> HIDE DEF m, x
    <3>3. \A y : y \in Queued' => y \in Queued \cup {x}
      <4>1. \A i \in 1..Len(feed') : i \in 1..Len(feed) \/ i = Len(feed) + 1
        BY <1>2, <3>1
      <4>2. \A i \in 1..Len(feed') : <<feed'[i].sid, feed'[i].sig>> \in Queued \cup {x}
        BY <3>1, <3>2, <4>1 DEF Queued
      <4>3. QED
        BY <4>2 DEF Queued
    <3>4. x \in Queued'
      BY <1>2, <3>1, <3>2 DEF Queued
    <3>5. \A y \in Queued : y \in Queued'
      <4>1. \A i \in 1..Len(feed) : i \in 1..Len(feed') /\ <<feed'[i].sid, feed'[i].sig>> = <<feed[i].sid, feed[i].sig>>
        BY <1>2, <3>1
      <4>2. QED
        BY <4>1 DEF Queued
    <3>6. QED
      BY <3>3, <3>4, <3>5
  <2>3. \A q \in Shreds : Lost(q)' = Lost(q)
    BY <1>1, <1>3, <2>2 DEF Lost
  <2>4. QED
    BY <1>1, <1>4, <2>1, <2>2, <2>3 DEF FeedOK
<1>7. QED
  BY <1>5, <1>6

LEMMA FeedDeshreds ==
  ASSUME TypesOK, FeedOK, DeshredStep
  PROVE  FeedOK'
<1> DEFINE x == <<feed[1].sid, feed[1].sig>>
<1>1. feed \in Seq(Fed) /\ feed # <<>> /\ feed' = Tail(feed) /\ dropped' = dropped /\ Len(feed) \in Nat
  BY DEF DeshredStep, TypesOK, Typed
<1>2. Len(feed') = Len(feed) - 1 /\ Len(feed) >= 1 /\ \A i \in 1..Len(feed') : feed'[i] = feed[i + 1]
  BY <1>1
<1>3. Queued = Queued' \cup {x}
  <2>1. \A y \in Queued : y \in Queued' \cup {x}
    <3>1. ASSUME NEW i \in 1..Len(feed)
          PROVE  <<feed[i].sid, feed[i].sig>> \in Queued' \cup {x}
      <4>1. CASE i = 1
        BY <4>1
      <4>2. CASE i # 1
        <5> DEFINE j == i - 1
        <5>1. j \in 1..Len(feed') /\ feed'[j] = feed[i]
          BY <1>1, <1>2, <4>2
        <5> HIDE DEF j
        <5>2. QED
          BY <5>1 DEF Queued
      <4>3. QED
        BY <4>1, <4>2
    <3> HIDE DEF x
    <3>2. QED
      BY <3>1 DEF Queued
  <2>2. x \in Queued
    BY <1>1, <1>2 DEF Queued
  <2>3. \A y \in Queued' : y \in Queued
    <3>1. \A i \in 1..Len(feed') : i + 1 \in 1..Len(feed) /\ feed'[i] = feed[i + 1]
      BY <1>1, <1>2
    <3>2. QED
      BY <3>1 DEF Queued
  <2> HIDE DEF x
  <2>4. QED
    BY <2>1, <2>2, <2>3
<1>4. hist'.fed = hist.fed /\ DOMAIN hist'.first = DOMAIN hist.first \cup {x}
  <2> DEFINE sid == feed[1].sid
             sig == feed[1].sig
             ns == feed[1].ns
             slot == SlotOf[sig]
  <2>1. sid \in Sources /\ sig \in Sigs /\ ns \in Nat /\ slot \in {0} \cup Slots
    BY <1>1, HeadTyped DEF TypesOK
  <2>2. Record(sid, sig, ns, slot, None) /\ hist \in Histories /\ reg \in Registry
    BY DEF DeshredStep, TypesOK, Typed
  <2>3. x = <<sid, sig>>
    OBVIOUS
  <2> HIDE DEF sid, sig, ns, slot, x
  <2>4. QED
    BY <2>1, <2>2, <2>3, HistRecorded
<1> HIDE DEF x
<1>5. \A p \in Shreds : Lost(p)' = Lost(p)
  BY <1>3, <1>4 DEF Lost
<1>6. QED
  BY <1>1, <1>3, <1>4, <1>5 DEF FeedOK

LEMMA FeedTask ==
  ASSUME TypesOK, FeedOK, NEW s \in Grpc, Deliver(s)
  PROVE  FeedOK'
<1> DEFINE sig == task[s].msg.sig
           ns == task[s].msg.ns
           slot == task[s].msg.slot
           conn == task[s].conn
<1>1. s \in Sources /\ conn \in Nat \cup {None} /\ sig \in Sigs /\ ns \in Nat /\ slot \in {0} \cup Slots
  BY TaskFacts, SourceFacts, MessageFacts DEF Deliver
<1>2. Record(s, sig, ns, slot, conn) /\ hist \in Histories /\ reg \in Registry /\ UNCHANGED <<feed, dropped>>
  BY DEF Deliver, TypesOK, Typed
<1> HIDE DEF sig, ns, slot, conn
<1>3. hist'.fed = hist.fed /\ DOMAIN hist'.first = DOMAIN hist.first \cup {<<s, sig>>}
  BY <1>1, <1>2, HistRecorded
<1>4. s \notin Shreds /\ <<s, sig>>[1] = s
  BY SourceFacts
<1>5. Queued' = Queued
  BY <1>2 DEF Queued
<1>6. \A p \in Shreds : Lost(p)' = Lost(p)
  BY <1>3, <1>4, <1>5 DEF Lost
<1>7. QED
  BY <1>2, <1>3, <1>4, <1>5, <1>6 DEF FeedOK

LEMMA FeedStep ==
  ASSUME TypesOK, StagesOK, FeedOK, [Next]_vars
  PROVE  FeedOK'
<1>1. ASSUME UNCHANGED <<feed, dropped>>, hist'.fed = hist.fed, hist'.first = hist.first
      PROVE  FeedOK'
  BY <1>1 DEF FeedOK, Queued, Lost
<1>2. ASSUME NEW s \in Grpc, TaskStep(s)
      PROVE  FeedOK'
  BY <1>1, <1>2, FeedTask, TaskSteps
<1>3. CASE Claim \/ Sampled \/ WorkerEnds \/ UNCHANGED vars \/ Done \/ Cancel \/ JoinDeshred \/ JoinAsync
           \/ Finish \/ Snapshot \/ FinalSnapshot
  <2>1. UNCHANGED <<feed, dropped, hist>>
    BY <1>3 DEF Claim, Sampled, WorkerEnds, vars, threadVars, Done, Cancel, JoinDeshred, JoinAsync, Finish,
                Snapshot, FinalSnapshot
  <2>2. QED
    BY <1>1, <2>1
<1>4. CASE (\E k \in DOMAIN windows : EmitWindow(k)) \/ FinishFilterAudit
  <2>1. UNCHANGED <<feed, dropped>> /\ hist'.fed = hist.fed /\ hist'.first = hist.first
    BY <1>4 DEF EmitWindow, FinishFilterAudit, TypesOK, Typed, Histories
  <2>2. QED
    BY <1>1, <2>1
<1>5. QED
  BY <1>2, <1>3, <1>4, FeedFeeds, FeedDeshreds DEF Next, TaskStep

CompareInv == TypesOK /\ StagesOK /\ DeliveriesKept /\ FeedOK

LEMMA CompareInit == Init => CompareInv
<1> SUFFICES ASSUME Init PROVE CompareInv
  OBVIOUS
<1>1. StagesOK /\ DeliveriesKept
  BY DEF Init, StagesOK, DeliveriesKept, Ended
<1>2. FeedOK
  <2>1. Queued = {} /\ hist.fed = {} /\ DOMAIN hist.first = {} /\ \A p \in Shreds : dropped[p] = 0
    BY DEF Init, Queued
  <2>2. \A p : Lost(p) = {}
    BY <2>1 DEF Lost
  <2>3. QED
    BY <2>1, <2>2, FS_EmptySet DEF FeedOK
<1>3. QED
  BY <1>1, <1>2, TypesInit DEF CompareInv

LEMMA CompareStep == CompareInv /\ [Next]_vars => CompareInv'
BY TypesStep, StagesStep, KeptStep, FeedStep DEF CompareInv

\* The inductive invariant of what the comparison keeps: what each thread holds is well typed, no
\* thread acts after its join, and no delivery is lost between registry, rows and archive.
THEOREM CompareInvariant == Spec => []CompareInv
BY CompareInit, CompareStep, PTL DEF Spec

\* When the sink is closed, every delivery recorded is in the archive, and of every provider what
\* was fed is what was recorded and what deshred_dropped counts: the joins of the shutdown wait
\* for the queue and for every task (txncmp.rs), whatever was retired or drained in between.
THEOREM NothingLostInShutdown == Spec => []FinalArchiveComplete
<1>1. CompareInv => FinalArchiveComplete
  <2> SUFFICES ASSUME CompareInv, main \in {"finish", "done"}
               PROVE  /\ \A x \in DOMAIN hist.first : \E r \in archive : r.sid = x[1] /\ r.sig = x[2]
                      /\ \A p \in Shreds :
                             Cardinality({x \in hist.fed : x[1] = p}) =
                                 dropped[p] + Cardinality({x \in DOMAIN hist.first : x[1] = p})
    BY DEF FinalArchiveComplete
  <2>1. feed = <<>> /\ DOMAIN reg.events = {} /\ reg.rows = {}
    BY DEF CompareInv, StagesOK, Ended
  <2>2. \A x \in DOMAIN hist.first : \E r \in archive : r.sid = x[1] /\ r.sig = x[2]
    BY <2>1 DEF CompareInv, DeliveriesKept, Held, Written, Out
  <2>3. ASSUME NEW p \in Shreds
        PROVE  Cardinality({x \in hist.fed : x[1] = p}) =
                   dropped[p] + Cardinality({x \in DOMAIN hist.first : x[1] = p})
    <3> DEFINE F == {x \in hist.fed : x[1] = p}
               R == {x \in DOMAIN hist.first : x[1] = p}
    <3>1. Queued = {}
      BY <2>1 DEF Queued
    <3>2. F = Lost(p) \cup R /\ Lost(p) \cap R = {} /\ R \subseteq hist.fed
      BY <3>1 DEF Lost, CompareInv, FeedOK
    <3>3. IsFiniteSet(R) /\ IsFiniteSet(Lost(p))
      BY <3>2, FS_Subset, LostFinite DEF CompareInv, FeedOK
    <3> HIDE DEF F, R
    <3>4. Cardinality(F) = Cardinality(Lost(p)) + Cardinality(R)
      <4>1. Cardinality(Lost(p) \cup R) = Cardinality(Lost(p)) + Cardinality(R) - Cardinality(Lost(p) \cap R)
        BY <3>3, FS_Union
      <4>2. Cardinality(Lost(p)) \in Nat /\ Cardinality(R) \in Nat
        BY <3>3, FS_CardinalityType
      <4>3. Cardinality(Lost(p) \cap R) = 0
        BY <3>2, FS_EmptySet
      <4>4. Cardinality(F) = Cardinality(Lost(p) \cup R)
        BY <3>2
      <4>5. QED
        BY <4>1, <4>2, <4>3, <4>4
    <3>5. QED
      BY <3>4 DEF F, R, CompareInv, FeedOK
  <2>4. QED
    BY <2>2, <2>3
<1>2. QED
  BY <1>1, CompareInvariant, PTL

-----------------------------------------------------------------------------
(* The race. *)

Final == main \in {"final_snapshot", "finish", "done"}

\* The row of a signature says of each source what its first delivery was.
Mirrors(g) ==
    \A s \in Sources :
        IF s \in Known(g)
        THEN /\ reg.events[g].ts[s] # None
             /\ reg.events[g].ts[s].ns = hist.first[<<s, g>>].ns
             /\ reg.events[g].ts[s].conn = hist.first[<<s, g>>].conn
        ELSE reg.events[g].ts[s] = None

RowsOut(g) == {<<r.sid, r.ns>> : r \in {x \in Out : x.sig = g}}

Firsts(g) == {<<s, Stamp(s, g)>> : s \in Known(g)}

WonBy(s) == {g \in Gone : /\ s \in Known(g) /\ Cardinality(Known(g)) >= 2
                          /\ \A q \in Known(g) : Stamp(s, g) <= Stamp(q, g)}

AnyKnown == {g \in Sigs : Known(g) # {}}

\* A row holds nothing that was not delivered, and neither does one that was retired.
RowsTrue ==
    /\ \A g \in DOMAIN reg.events : Present(reg.events[g]) \subseteq Known(g)
    /\ \A r \in Out : r.sid \in Known(r.sig)

\* A signature that is not delivered late has one row, here or retired, that holds all its first
\* deliveries.
RowsExact ==
    \A g \in Sigs \ hist.late :
        /\ g \in DOMAIN reg.events => Mirrors(g) /\ \A r \in Out : r.sig # g
        /\ g \in Gone => RowsOut(g) = Firsts(g)

\* What is delivered of a retired signature is late, unless nothing is delivered any more.
GoneIsLate == ~ Final => \A g \in Gone : Late(g)

CountsExact ==
    hist.late = {} =>
        /\ reg.distinct_total = Cardinality(AnyKnown)
        /\ \A s \in Sources : reg.wins[s] = Cardinality(WonBy(s))

RaceInv == RowsTrue /\ RowsExact /\ GoneIsLate /\ CountsExact

\* What a delivery of sig by sid changes of what is known, and of the registry.
FirstOf(sid, sig, ns, conn) ==
    /\ Known(sig)' = Known(sig) \cup {sid}
    /\ \A g \in Sigs \ {sig} : Known(g)' = Known(g)
    /\ \A x \in DOMAIN hist.first : hist'.first[x] = hist.first[x]
    /\ sid \notin Known(sig) => hist'.first[<<sid, sig>>] = [ns |-> ns, conn |-> conn]
    /\ hist.late \subseteq hist'.late /\ hist'.late \subseteq hist.late \cup {sig}
    /\ sig \notin hist'.late => ~ Late(sig)

RowNoted(sid, sig, ns, slot, conn) ==
    /\ DOMAIN reg'.events = DOMAIN reg.events \cup {sig}
    /\ \A g \in DOMAIN reg.events \ {sig} : reg'.events[g] = reg.events[g]
    /\ reg'.rows = reg.rows /\ reg'.wins = reg.wins
    /\ reg'.distinct_total = reg.distinct_total + (IF sig \in DOMAIN reg.events THEN 0 ELSE 1)
    /\ reg'.high_slot >= reg.high_slot /\ reg'.high_slot >= slot /\ reg'.high_slot \in Nat
    /\ Noted(RowOf(reg, sig, slot), reg'.events[sig], sid, ns, slot, conn)

LEMMA FirstRecorded ==
  ASSUME TypesOK, NEW sid \in Sources, NEW sig \in Sigs, NEW ns \in Nat,
         NEW slot \in {0, SlotOf[sig]}, NEW conn \in Nat \cup {None}, Record(sid, sig, ns, slot, conn)
  PROVE  FirstOf(sid, sig, ns, conn)
<1>1. slot \in {0} \cup Slots /\ hist \in Histories /\ reg \in Registry
  BY SlotFacts DEF TypesOK, Typed
<1>2. DOMAIN hist'.first = DOMAIN hist.first \cup {<<sid, sig>>}
  BY <1>1, HistRecorded
<1>3. \A x \in DOMAIN hist.first : hist'.first[x] = hist.first[x]
  BY <1>1, HistRecorded
<1>4. <<sid, sig>> \notin DOMAIN hist.first => hist'.first[<<sid, sig>>] = [ns |-> ns, conn |-> conn]
  BY <1>1 DEF Record, Histories
<1>5. hist'.late = IF Late(sig) THEN hist.late \cup {sig} ELSE hist.late
  BY <1>1, HistRecorded
<1>6. Known(sig)' = Known(sig) \cup {sid} /\ \A g \in Sigs \ {sig} : Known(g)' = Known(g)
  BY <1>2 DEF Known
<1>7. sid \in Known(sig) \/ <<sid, sig>> \notin DOMAIN hist.first
  BY Zenon DEF Known
<1>8. QED
  BY <1>3, <1>4, <1>5, <1>6, <1>7 DEF FirstOf

LEMMA RowRecorded ==
  ASSUME TypesOK, NEW sid \in Sources, NEW sig \in Sigs, NEW ns \in Nat,
         NEW slot \in {0, SlotOf[sig]}, NEW conn \in Nat \cup {None}, Record(sid, sig, ns, slot, conn)
  PROVE  RowNoted(sid, sig, ns, slot, conn)
<1>1. reg \in Registry /\ reg' = RecordFirst(reg, sid, sig, ns, slot, conn) /\ slot \in {0} \cup Slots
  BY SlotFacts DEF Record, TypesOK, Typed
<1>2. /\ DOMAIN reg'.events = DOMAIN reg.events \cup {sig}
      /\ \A g \in DOMAIN reg.events \ {sig} : reg'.events[g] = reg.events[g]
  BY <1>1, RecordTyped
<1>3. reg'.rows = reg.rows /\ reg'.wins = reg.wins /\ reg'.high_slot = Larger(reg.high_slot, slot)
  BY <1>1, RecordTyped
<1>4. reg'.distinct_total = reg.distinct_total + (IF sig \in DOMAIN reg.events THEN 0 ELSE 1)
  BY <1>1, RecordTyped
<1>5. reg'.events[sig] = NewRow(reg, sid, sig, ns, slot, conn)
  BY <1>1, RecordTyped
<1>6. reg.high_slot \in Nat /\ slot \in Nat
  BY <1>1, SlotFacts DEF Registry
<1>7. reg'.high_slot >= reg.high_slot /\ reg'.high_slot >= slot /\ reg'.high_slot \in Nat
  BY <1>3, <1>6, MonusFacts
<1>8. Noted(RowOf(reg, sig, slot), reg'.events[sig], sid, ns, slot, conn)
  BY <1>1, <1>5, RowTyped
<1>9. QED
  BY <1>2, <1>3, <1>4, <1>7, <1>8 DEF RowNoted

LEMMA LateStays ==
  ASSUME reg.high_slot \in Nat, reg'.high_slot \in Nat, reg'.high_slot >= reg.high_slot, NEW g \in Sigs, Late(g)
  PROVE  Late(g)'
<1>1. SlotOf[g] \in Nat /\ EVICT_MARGIN_SLOTS \in Nat
  BY SlotFacts, SigRegistryAssumption
<1>2. QED
  BY <1>1 DEF Late, Floor, Monus, Larger

\* In a signature's own row, a first delivery is noted as the histories have it.
LEMMA RecordMirrors ==
  ASSUME TypesOK, RaceInv, ~ Final,
         NEW sid \in Sources, NEW sig \in Sigs, NEW ns \in Nat,
         NEW slot \in {0, SlotOf[sig]}, NEW conn \in Nat \cup {None},
         FirstOf(sid, sig, ns, conn), RowNoted(sid, sig, ns, slot, conn), sig \notin hist'.late
  PROVE  /\ sig \notin Gone /\ Mirrors(sig)'
         /\ (sig \in DOMAIN reg.events \/ Known(sig) = {})
         /\ \A r \in Out : r.sig # sig
<1>1. ~ Late(sig) /\ sig \notin hist.late
  BY DEF FirstOf
<1>2. sig \notin Gone
  BY <1>1 DEF RaceInv, GoneIsLate
<1>3. sig \in DOMAIN reg.events \/ Known(sig) = {}
  BY <1>2 DEF Gone
<1>4. \A r \in Out : r.sig # sig
  BY <1>1, <1>3 DEF RaceInv, RowsExact, RowsTrue
<1> DEFINE row == RowOf(reg, sig, slot)
           new == reg'.events[sig]
<1>5. Noted(row, new, sid, ns, slot, conn)
  BY DEF RowNoted
<1>6. \A s \in Sources :
          IF s \in Known(sig)
          THEN row.ts[s] # None /\ row.ts[s].ns = hist.first[<<s, sig>>].ns
               /\ row.ts[s].conn = hist.first[<<s, sig>>].conn
          ELSE row.ts[s] = None
  <2>1. CASE sig \in DOMAIN reg.events
    BY <1>1, <2>1 DEF RaceInv, RowsExact, Mirrors, RowOf
  <2>2. CASE sig \notin DOMAIN reg.events
    BY <1>3, <2>2 DEF RowOf
  <2>3. QED
    BY <2>1, <2>2
<1> HIDE DEF row
<1>7. ASSUME NEW s \in Sources
      PROVE  IF s \in Known(sig)'
             THEN new.ts[s] # None /\ new.ts[s].ns = hist'.first[<<s, sig>>].ns
                  /\ new.ts[s].conn = hist'.first[<<s, sig>>].conn
             ELSE new.ts[s] = None
  <2> HIDE DEF new
  <2>1. Known(sig)' = Known(sig) \cup {sid}
    BY DEF FirstOf
  <2>2. s \in Known(sig) => hist'.first[<<s, sig>>] = hist.first[<<s, sig>>]
    BY DEF FirstOf, Known
  <2>3. CASE s # sid
    <3>1. new.ts[s] = row.ts[s]
      BY <1>5, <2>3 DEF Noted
    <3>2. QED
      BY <1>6, <2>1, <2>2, <2>3, <3>1
  <2>4. CASE s = sid /\ s \in Known(sig)
    <3>1. row.ts[s] # None /\ new.ts[s] # None /\ new.ts[s].ns = row.ts[s].ns /\ new.ts[s].conn = row.ts[s].conn
      BY <1>5, <1>6, <2>4 DEF Noted
    <3>2. QED
      BY <1>6, <2>1, <2>2, <2>4, <3>1
  <2>5. CASE s = sid /\ s \notin Known(sig)
    <3>1. hist'.first[<<s, sig>>] = [ns |-> ns, conn |-> conn]
      BY <2>5 DEF FirstOf
    <3>2. new.ts[s] = [ns |-> ns, dups |-> 0, conn |-> conn] /\ new.ts[s] # None
      BY <1>5, <1>6, <2>5 DEF Noted
    <3>3. QED
      BY <2>1, <2>5, <3>1, <3>2
  <2>6. QED
    BY <2>3, <2>4, <2>5
<1>8. Mirrors(sig)'
  BY <1>7 DEF Mirrors
<1>9. QED
  BY <1>2, <1>3, <1>4, <1>8

\* Of the other signatures nothing changes.
LEMMA RecordOthers ==
  ASSUME TypesOK, NEW sid \in Sources, NEW sig \in Sigs, NEW ns \in Nat,
         NEW slot \in {0, SlotOf[sig]}, NEW conn \in Nat \cup {None}, archive' = archive,
         FirstOf(sid, sig, ns, conn), RowNoted(sid, sig, ns, slot, conn),
         NEW g \in Sigs \ {sig}
  PROVE  /\ Known(g)' = Known(g) /\ (\A s \in Known(g) : hist'.first[<<s, g>>] = hist.first[<<s, g>>])
         /\ (g \in DOMAIN reg'.events) = (g \in DOMAIN reg.events)
         /\ (g \in DOMAIN reg.events /\ Mirrors(g) => Mirrors(g)')
         /\ (g \in Gone') = (g \in Gone)
         /\ RowsOut(g)' = RowsOut(g) /\ Firsts(g)' = Firsts(g)
<1>1. Known(g)' = Known(g)
  BY DEF FirstOf
<1>2. \A s \in Known(g) : hist'.first[<<s, g>>] = hist.first[<<s, g>>]
  BY DEF FirstOf, Known
<1>3. (g \in DOMAIN reg'.events) = (g \in DOMAIN reg.events)
      /\ (g \in DOMAIN reg.events => reg'.events[g] = reg.events[g])
  BY DEF RowNoted
<1>4. (g \in Gone') = (g \in Gone)
  BY <1>1, <1>3 DEF Gone
<1>5. RowsOut(g)' = RowsOut(g)
  BY DEF RowNoted, RowsOut, Out
<1>6. Firsts(g)' = Firsts(g)
  <2>1. \A s \in Known(g) : Stamp(s, g)' = Stamp(s, g)
    BY <1>2 DEF Stamp
  <2>2. QED
    BY <1>1, <2>1 DEF Firsts
<1>7. g \in DOMAIN reg.events /\ Mirrors(g) => Mirrors(g)'
  BY <1>1, <1>2, <1>3 DEF Mirrors
<1>8. QED
  BY <1>1, <1>2, <1>3, <1>4, <1>5, <1>6, <1>7

LEMMA RecordTruth ==
  ASSUME TypesOK, RaceInv, NEW sid \in Sources, NEW sig \in Sigs, NEW ns \in Nat,
         NEW slot \in {0, SlotOf[sig]}, NEW conn \in Nat \cup {None}, archive' = archive,
         FirstOf(sid, sig, ns, conn), RowNoted(sid, sig, ns, slot, conn)
  PROVE  RowsTrue'
<1>1. Known(sig)' = Known(sig) \cup {sid}
  BY DEF FirstOf
<1>2. \A g \in Sigs : Known(g) \subseteq Known(g)'
  BY DEF FirstOf
<1>3. Out' = Out /\ Out \subseteq OutRow
  BY DEF RowNoted, Out, TypesOK, Typed, Registry
<1>4. \A r \in Out : r.sig \in Sigs
  BY <1>3 DEF OutRow
<1>5. \A r \in Out' : r.sid \in Known(r.sig)'
  <2>1. ASSUME NEW r \in Out
        PROVE  r.sid \in Known(r.sig)'
    <3> DEFINE g == r.sig
    <3>1. g \in Sigs /\ r.sid \in Known(g)
      BY <1>4 DEF RaceInv, RowsTrue
    <3> HIDE DEF g
    <3>2. r.sid \in Known(g)'
      BY <1>2, <3>1
    <3>3. QED
      BY <3>2 DEF g, Known
  <2>2. QED
    BY <1>3, <2>1
<1>6. ASSUME NEW g \in DOMAIN reg'.events
      PROVE  Present(reg'.events[g]) \subseteq Known(g)'
  <2>1. CASE g # sig
    <3>1. g \in DOMAIN reg.events /\ reg'.events[g] = reg.events[g]
      BY <2>1 DEF RowNoted
    <3>2. g \in Sigs
      <4>1. reg.events \in Partial(Sigs, EventRow)
        BY DEF TypesOK, Typed, Registry
      <4>2. QED
        BY <3>1, <4>1, PartialFacts
    <3>3. QED
      BY <1>2, <3>1, <3>2 DEF RaceInv, RowsTrue
  <2>2. CASE g = sig
    <3> DEFINE row == RowOf(reg, sig, slot)
               new == reg'.events[sig]
    <3>1. Noted(row, new, sid, ns, slot, conn)
      BY DEF RowNoted
    <3>2. \A s \in Sources : row.ts[s] # None => s \in Known(sig)
      <4>1. CASE sig \in DOMAIN reg.events
        BY <4>1 DEF RaceInv, RowsTrue, Present, RowOf
      <4>2. CASE sig \notin DOMAIN reg.events
        BY <4>2 DEF RowOf
      <4>3. QED
        BY <4>1, <4>2
    <3> HIDE DEF row, new
    <3>3. \A s \in Sources : new.ts[s] # None => s = sid \/ s \in Known(sig)
      BY <3>1, <3>2 DEF Noted
    <3>4. Present(new) \subseteq Known(sig) \cup {sid}
      BY <3>3 DEF Present
    <3>5. QED
      BY <1>1, <2>2, <3>4 DEF new
  <2>3. QED
    BY <2>1, <2>2
<1>7. QED
  BY <1>5, <1>6 DEF RowsTrue

LEMMA EventsOfSigs == ASSUME TypesOK PROVE DOMAIN reg.events \subseteq Sigs
<1>1. reg.events \in Partial(Sigs, EventRow)
  BY DEF TypesOK, Typed, Registry
<1>2. QED
  BY <1>1, PartialFacts

LEMMA RecordRaces ==
  ASSUME TypesOK, RaceInv, ~ Final, main' = main, archive' = archive,
         NEW sid \in Sources, NEW sig \in Sigs, NEW ns \in Nat,
         NEW slot \in {0, SlotOf[sig]}, NEW conn \in Nat \cup {None}, Record(sid, sig, ns, slot, conn)
  PROVE  RaceInv'
<1>1. FirstOf(sid, sig, ns, conn) /\ RowNoted(sid, sig, ns, slot, conn)
  BY FirstRecorded, RowRecorded
<1>2. ASSUME NEW g \in Sigs \ {sig}
      PROVE  /\ Known(g)' = Known(g) /\ (\A s \in Known(g) : hist'.first[<<s, g>>] = hist.first[<<s, g>>])
             /\ (g \in DOMAIN reg'.events) = (g \in DOMAIN reg.events)
             /\ (g \in DOMAIN reg.events /\ Mirrors(g) => Mirrors(g)')
             /\ (g \in Gone') = (g \in Gone)
             /\ RowsOut(g)' = RowsOut(g) /\ Firsts(g)' = Firsts(g)
  BY <1>1, <1>2, RecordOthers
<1>3. Out' = Out
  BY <1>1 DEF RowNoted, Out
<1>4. sig \in DOMAIN reg'.events /\ sig \notin Gone'
  BY <1>1 DEF RowNoted, Gone
<1>5. \A r \in Out' : r \in Out
  BY <1>3
<1>6. ASSUME NEW g \in Sigs \ hist'.late
      PROVE  /\ g \in DOMAIN reg'.events => Mirrors(g)' /\ \A r \in Out' : r.sig # g
             /\ g \in Gone' => RowsOut(g)' = Firsts(g)'
  <2>1. CASE g = sig
    <3>1. Mirrors(sig)' /\ \A r \in Out : r.sig # sig
      BY <1>1, <1>6, <2>1, RecordMirrors
    <3>2. QED
      BY <1>4, <1>5, <2>1, <3>1
  <2>2. CASE g # sig
    <3>1. g \notin hist.late
      BY <1>1 DEF FirstOf
    <3>2. /\ g \in DOMAIN reg.events => Mirrors(g) /\ \A r \in Out : r.sig # g
          /\ g \in Gone => RowsOut(g) = Firsts(g)
      BY <3>1 DEF RaceInv, RowsExact
    <3>3. QED
      BY <1>2, <1>5, <2>2, <3>2
  <2>3. QED
    BY <2>1, <2>2
<1>7. RowsExact'
  BY <1>6 DEF RowsExact
<1>8. Gone' = Gone \ {sig}
  BY <1>2, <1>4 DEF Gone
<1>9. GoneIsLate'
  <2>1. reg.high_slot \in Nat /\ reg'.high_slot \in Nat /\ reg'.high_slot >= reg.high_slot
    BY <1>1 DEF RowNoted, TypesOK, Typed, Registry
  <2>2. \A g \in Gone' : g \in Sigs /\ Late(g)
    BY <1>8 DEF RaceInv, GoneIsLate, Gone
  <2>3. QED
    BY <2>1, <2>2, LateStays DEF GoneIsLate
<1>10. CountsExact'
  <2> SUFFICES ASSUME hist'.late = {}
               PROVE  /\ reg'.distinct_total = Cardinality(AnyKnown')
                      /\ \A s \in Sources : reg'.wins[s] = Cardinality(WonBy(s)')
    BY DEF CountsExact
  <2>1. hist.late = {}
    BY <1>1 DEF FirstOf
  <2>2. sig \notin Gone /\ (sig \in DOMAIN reg.events \/ Known(sig) = {})
    BY <1>1, RecordMirrors
  <2>3. reg.distinct_total = Cardinality(AnyKnown) /\ \A s \in Sources : reg.wins[s] = Cardinality(WonBy(s))
    BY <2>1 DEF RaceInv, CountsExact
  <2>4. AnyKnown' = AnyKnown \cup {sig}
    <3>1. Known(sig)' # {}
      BY <1>1 DEF FirstOf
    <3>2. QED
      BY <1>2, <3>1 DEF AnyKnown
  <2>5. sig \in DOMAIN reg.events => sig \in AnyKnown
    <3>1. sig \in DOMAIN reg.events => Present(reg.events[sig]) # {} /\ Present(reg.events[sig]) \subseteq Known(sig)
      BY DEF TypesOK, RowsPlaced, RaceInv, RowsTrue
    <3>2. QED
      BY <3>1 DEF AnyKnown
  <2>6. IsFiniteSet(AnyKnown) /\ Cardinality(AnyKnown) \in Nat
    BY SubsetsCounted DEF AnyKnown
  <2>7. reg'.distinct_total = Cardinality(AnyKnown')
    <3>1. reg'.distinct_total = reg.distinct_total + (IF sig \in DOMAIN reg.events THEN 0 ELSE 1)
      BY <1>1 DEF RowNoted
    <3>2. CASE sig \in DOMAIN reg.events
      <4>1. AnyKnown' = AnyKnown
        BY <2>4, <2>5, <3>2
      <4>2. QED
        BY <2>3, <2>6, <3>1, <3>2, <4>1
    <3>3. CASE sig \notin DOMAIN reg.events
      <4>1. sig \notin AnyKnown
        BY <2>2, <3>3 DEF AnyKnown
      <4>2. Cardinality(AnyKnown \cup {sig}) = Cardinality(AnyKnown) + 1
        BY <2>6, <4>1, FS_AddElement
      <4>3. QED
        BY <2>3, <2>4, <3>1, <3>3, <4>2
    <3>4. QED
      BY <3>2, <3>3
  <2>8. Gone' = Gone
    BY <1>8, <2>2
  <2>9. ASSUME NEW s \in Sources
        PROVE  WonBy(s)' = WonBy(s)
    <3>1. ASSUME NEW g \in Gone
          PROVE  Known(g)' = Known(g) /\ \A q \in Known(g) : Stamp(q, g)' = Stamp(q, g)
      <4>1. g \in Sigs \ {sig}
        BY <2>2 DEF Gone
      <4>2. QED
        BY <1>2, <4>1 DEF Stamp
    <3>2. \A g \in Gone : (\A q \in Known(g) : Stamp(s, g) <= Stamp(q, g)) /\ s \in Known(g)
                          <=> (\A q \in Known(g)' : Stamp(s, g)' <= Stamp(q, g)') /\ s \in Known(g)'
      BY <3>1
    <3>3. QED
      BY <2>8, <3>1, <3>2 DEF WonBy
  <2>10. reg'.wins = reg.wins
    BY <1>1 DEF RowNoted
  <2>11. QED
    BY <2>3, <2>7, <2>9, <2>10
<1>11. RowsTrue'
  BY <1>1, RecordTruth
<1>12. QED
  BY <1>7, <1>9, <1>10, <1>11 DEF RaceInv

\* Retiring a row: it leaves the registry with what it holds, and is late from then on.
LEMMA RetiringRaces ==
  ASSUME TypesOK, RaceInv, hist'.first = hist.first, hist'.late = hist.late,
         NEW force \in BOOLEAN, NEW q, q = Finalize(reg, force),
         reg'.events = q.events, reg'.distinct_total = q.distinct_total, reg'.wins = q.wins,
         reg'.high_slot = reg.high_slot, Out' = archive \cup q.rows, force => Final', ~ force => main' = main
  PROVE  RaceInv'
<1> DEFINE R == Retired(reg, force)
<1>1. reg \in Registry
  BY DEF TypesOK, Typed
<1>2. /\ R \subseteq DOMAIN reg.events
      /\ q.events = [g \in DOMAIN reg.events \ R |-> reg.events[g]]
      /\ q.rows = reg.rows \cup UNION {RowsOf(reg, g) : g \in R}
  BY <1>1, FinalizeTyped
<1>3. q.distinct_total = reg.distinct_total /\ q.wins = Fold(reg, R).wins
  BY <1>1, FinalizeTyped
<1>4. \A g \in R : force \/ (reg.events[g].slot # 0 /\ reg.events[g].slot < Floor(reg))
  BY DEF Retired, Retires
<1> HIDE DEF R
<1>5. \A g : Known(g)' = Known(g) /\ \A s \in Known(g) : Stamp(s, g)' = Stamp(s, g)
  BY DEF Known, Stamp
<1>6. \A g \in R : g \in Sigs /\ Known(g) # {}
  <2>1. \A g \in R : Present(reg.events[g]) # {} /\ Present(reg.events[g]) \subseteq Known(g)
    BY <1>2 DEF TypesOK, RowsPlaced, RaceInv, RowsTrue
  <2>2. QED
    BY <1>2, <2>1, EventsOfSigs
<1>7. Gone' = Gone \cup R /\ Gone \cap R = {}
  BY <1>2, <1>5, <1>6 DEF Gone
<1>8. Out' = Out \cup UNION {RowsOf(reg, g) : g \in R}
  BY <1>2 DEF Out
<1>9. \A g \in R : \A x \in RowsOf(reg, g) :
          x.sig = g /\ x.sid \in Present(reg.events[g]) /\ x.ns = reg.events[g].ts[x.sid].ns
  BY <1>1, <1>2, RowsTyped
<1>10. \A g \in R : \A s \in Present(reg.events[g]) : \E x \in RowsOf(reg, g) : x.sid = s
  BY <1>1, <1>2, RowsTyped
<1>11. RowsTrue'
  <2>1. \A r \in Out' : r.sid \in Known(r.sig)
    BY <1>2, <1>8, <1>9 DEF RaceInv, RowsTrue
  <2>2. \A r \in Out' : r.sid \in Known(r.sig)'
    <3>1. ASSUME NEW r \in Out'
          PROVE  r.sid \in Known(r.sig)'
      <4> DEFINE g == r.sig
      <4>1. r.sid \in Known(g)
        BY <2>1
      <4>2. Known(g)' = Known(g)
        BY DEF Known
      <4>3. QED
        BY <4>1, <4>2
    <3>2. QED
      BY <3>1
  <2>3. \A g \in DOMAIN reg'.events : Present(reg'.events[g]) \subseteq Known(g)'
    BY <1>2, <1>5 DEF RaceInv, RowsTrue
  <2>4. QED
    BY <2>2, <2>3 DEF RowsTrue
<1>12. \A g \in R \ hist.late :
           /\ Present(reg.events[g]) = Known(g)
           /\ \A s \in Known(g) : reg.events[g].ts[s].ns = Stamp(s, g)
  <2>1. \A g \in R \ hist.late : Mirrors(g)
    BY <1>2, <1>6 DEF RaceInv, RowsExact
  <2>2. QED
    BY <2>1 DEF Mirrors, Present, Stamp, Known
<1>13. ASSUME NEW g \in Sigs \ hist'.late
       PROVE  /\ g \in DOMAIN reg'.events => Mirrors(g)' /\ \A r \in Out' : r.sig # g
              /\ g \in Gone' => RowsOut(g)' = Firsts(g)'
  <2>1. /\ g \in DOMAIN reg.events => Mirrors(g) /\ \A r \in Out : r.sig # g
        /\ g \in Gone => RowsOut(g) = Firsts(g)
    BY <1>13 DEF RaceInv, RowsExact
  <2>2. CASE g \in DOMAIN reg'.events
    <3>1. g \in DOMAIN reg.events /\ g \notin R /\ reg'.events[g] = reg.events[g]
      BY <1>2, <2>2
    <3>2. \A r \in Out' : r.sig # g
      BY <1>8, <1>9, <2>1, <3>1
    <3>3. Mirrors(g)'
      BY <2>1, <3>1 DEF Mirrors, Known
    <3>4. QED
      BY <2>2, <3>2, <3>3 DEF Gone
  <2>3. CASE g \in Gone
    <3>1. g \notin R /\ g \notin DOMAIN reg'.events
      BY <1>2, <1>7, <2>3 DEF Gone
    <3>2. {x \in Out' : x.sig = g} = {x \in Out : x.sig = g}
      BY <1>8, <1>9, <3>1
    <3>3. RowsOut(g)' = RowsOut(g)
      BY <3>2 DEF RowsOut
    <3>4. Firsts(g)' = Firsts(g)
      BY <1>5 DEF Firsts
    <3>5. QED
      BY <2>1, <2>3, <3>1, <3>3, <3>4
  <2>4. CASE g \in R
    <3>1. g \in DOMAIN reg.events /\ g \notin DOMAIN reg'.events
      BY <1>2, <2>4
    <3>2. {x \in Out' : x.sig = g} = RowsOf(reg, g)
      BY <1>8, <1>9, <2>1, <2>4, <3>1
    <3>3. Present(reg.events[g]) = Known(g) /\ \A s \in Known(g) : reg.events[g].ts[s].ns = Stamp(s, g)
      BY <1>12, <1>13, <2>4
    <3>4. RowsOut(g)' = Firsts(g)
      <4>1. RowsOut(g)' = {<<x.sid, x.ns>> : x \in RowsOf(reg, g)}
        BY <3>2 DEF RowsOut
      <4>2. \A x \in RowsOf(reg, g) : x.sid \in Known(g) /\ x.ns = Stamp(x.sid, g)
        BY <1>9, <2>4, <3>3
      <4>3. \A s \in Known(g) : \E x \in RowsOf(reg, g) : x.sid = s /\ x.ns = Stamp(s, g)
        BY <1>10, <2>4, <3>3, <4>2
      <4>4. QED
        BY <4>1, <4>2, <4>3 DEF Firsts
    <3>5. Firsts(g)' = Firsts(g)
      BY <1>5 DEF Firsts
    <3>6. QED
      BY <3>1, <3>4, <3>5
  <2>5. QED
    BY <1>7, <2>2, <2>3, <2>4
<1>14. RowsExact'
  BY <1>13 DEF RowsExact
<1>15. GoneIsLate'
  <2> SUFFICES ASSUME ~ Final', NEW g \in Gone'
               PROVE  Late(g)'
    BY DEF GoneIsLate
  <2>1. ~ force /\ ~ Final
    BY DEF Final
  <2>2. Late(g)' <=> Late(g)
    BY DEF Late, Floor
  <2>3. CASE g \in Gone
    BY <2>1, <2>2, <2>3 DEF RaceInv, GoneIsLate
  <2>4. CASE g \in R
    BY <1>2, <1>4, <2>1, <2>2, <2>4 DEF TypesOK, RowsPlaced, Late
  <2>5. QED
    BY <1>7, <2>3, <2>4
<1>16. CountsExact'
  <2> SUFFICES ASSUME hist'.late = {}
               PROVE  /\ reg'.distinct_total = Cardinality(AnyKnown')
                      /\ \A s \in Sources : reg'.wins[s] = Cardinality(WonBy(s)')
    BY DEF CountsExact
  <2>1. reg.distinct_total = Cardinality(AnyKnown) /\ \A s \in Sources : reg.wins[s] = Cardinality(WonBy(s))
    BY DEF RaceInv, CountsExact
  <2>2. AnyKnown' = AnyKnown
    BY <1>5 DEF AnyKnown
  <2>3. ASSUME NEW s \in Sources
        PROVE  reg'.wins[s] = Cardinality(WonBy(s)')
    <3>1. reg'.wins[s] = reg.wins[s] + Cardinality(Won(reg, R, s))
      <4>1. Fold(reg, R).wins[s] = reg.wins[s] + Cardinality(Won(reg, R, s))
        BY <1>1, <1>2, FoldTyped
      <4>2. QED
        BY <1>3, <4>1
    <3>2. \A g \in R : g \in Won(reg, R, s) <=>
              /\ s \in Known(g) /\ Cardinality(Known(g)) >= 2
              /\ \A p \in Known(g) : Stamp(s, g) <= Stamp(p, g)
      <4>1. ASSUME NEW g \in R
            PROVE  s \in Fastest(reg.events[g]) <=>
                       s \in Known(g) /\ \A p \in Known(g) : Stamp(s, g) <= Stamp(p, g)
        BY <1>12 DEF Fastest
      <4>2. \A g \in R : Contested(reg.events[g]) <=> Cardinality(Known(g)) >= 2
        BY <1>12 DEF Contested
      <4>3. QED
        BY <4>1, <4>2 DEF Won, Raced
    <3>3. Won(reg, R, s) \subseteq R
      BY DEF Won, Raced
    <3>4. WonBy(s)' = WonBy(s) \cup Won(reg, R, s)
      <4>1. \A g : g \in WonBy(s)' <=> /\ g \in Gone' /\ s \in Known(g) /\ Cardinality(Known(g)) >= 2
                                     /\ \A p \in Known(g) : Stamp(s, g) <= Stamp(p, g)
        BY <1>5 DEF WonBy
      <4>2. \A g : g \in WonBy(s) <=> /\ g \in Gone /\ s \in Known(g) /\ Cardinality(Known(g)) >= 2
                                    /\ \A p \in Known(g) : Stamp(s, g) <= Stamp(p, g)
        BY DEF WonBy
      <4>3. QED
        BY <1>7, <3>2, <3>3, <4>1, <4>2
    <3>5. WonBy(s) \cap Won(reg, R, s) = {}
      BY <1>7, <3>3 DEF WonBy
    <3>6. WonBy(s) \subseteq Sigs /\ Won(reg, R, s) \subseteq Sigs
      BY <1>6, <3>3 DEF WonBy, Gone
    <3> DEFINE A == WonBy(s)
               B == Won(reg, R, s)
    <3>7. IsFiniteSet(A) /\ Cardinality(A) \in Nat /\ IsFiniteSet(B) /\ Cardinality(B) \in Nat
      BY <3>6, SubsetsCounted
    <3>8. Cardinality(A \cup B) = Cardinality(A) + Cardinality(B)
      <4> HIDE DEF A, B
      <4>1. A \cap B = {}
        BY <3>5 DEF A, B
      <4>2. Cardinality(A \cup B) = Cardinality(A) + Cardinality(B) - Cardinality(A \cap B)
        BY <3>7, FS_Union
      <4>3. Cardinality(A \cap B) = 0
        BY <4>1, FS_EmptySet
      <4>4. QED
        BY <3>7, <4>1, <4>2, <4>3
    <3>9. QED
      BY <2>1, <3>1, <3>4, <3>8
  <2>4. QED
    BY <1>3, <2>1, <2>2, <2>3
<1>17. QED
  BY <1>11, <1>14, <1>15, <1>16 DEF RaceInv

LEMMA RacesStill ==
  ASSUME RaceInv, hist'.first = hist.first, hist'.late = hist.late, reg'.events = reg.events,
         reg'.rows = reg.rows, reg'.high_slot = reg.high_slot, reg'.distinct_total = reg.distinct_total,
         reg'.wins = reg.wins, archive' = archive, Final => Final'
  PROVE  RaceInv'
<1>1. (\A g : Known(g)' = Known(g) /\ \A s : Stamp(s, g)' = Stamp(s, g)) /\ Out' = Out
  BY DEF Known, Stamp, Out
<1>2. RowsTrue'
  BY <1>1 DEF RaceInv, RowsTrue, Known, Out
<1>3. Gone' = Gone
  BY <1>1 DEF Gone
<1>4. RowsExact'
  BY <1>1, <1>3 DEF RaceInv, RowsExact, Mirrors, RowsOut, Firsts
<1>5. GoneIsLate'
  BY <1>3 DEF RaceInv, GoneIsLate, Late, Floor
<1>6. AnyKnown' = AnyKnown /\ \A s : WonBy(s)' = WonBy(s)
  BY <1>1, <1>3 DEF AnyKnown, WonBy
<1>7. CountsExact'
  BY <1>6 DEF RaceInv, CountsExact
<1>8. QED
  BY <1>2, <1>4, <1>5, <1>7 DEF RaceInv

LEMMA RaceStep ==
  ASSUME TypesOK, StagesOK, RaceInv, [Next]_vars
  PROVE  RaceInv'
<1>1. ASSUME NEW p \in Shreds, NEW g \in Sigs, Feed(p, g)
      PROVE  RaceInv'
  <2>1. hist'.first = hist.first /\ hist'.late = hist.late /\ UNCHANGED <<reg, archive, main>>
    BY <1>1 DEF Feed, TypesOK, Typed, Histories
  <2>2. QED
    BY <2>1, RacesStill DEF Final
<1>2. CASE DeshredStep
  <2>1. ~ Final /\ UNCHANGED <<main, archive>>
    BY <1>2, BeforeJoined DEF DeshredStep, Final
  <2>2. QED
    BY <1>2, <2>1, HeadTyped, RecordRaces, SourceFacts DEF DeshredStep, TypesOK
<1>3. ASSUME NEW s \in Grpc, TaskStep(s)
      PROVE  RaceInv'
  <2>1. ~ Final /\ UNCHANGED <<main, archive>> /\ (~ Deliver(s) => UNCHANGED <<reg, hist>>)
    BY <1>3, TaskSteps DEF Final
  <2>2. CASE Deliver(s)
    <3> DEFINE sig == task[s].msg.sig
               ns == task[s].msg.ns
               slot == task[s].msg.slot
               conn == task[s].conn
    <3>1. s \in Sources /\ conn \in Nat \cup {None} /\ sig \in Sigs /\ ns \in Nat /\ slot \in {0, SlotOf[sig]}
      BY <2>2, TaskFacts, SourceFacts, MessageFacts DEF Deliver
    <3>2. Record(s, sig, ns, slot, conn)
      BY <2>2 DEF Deliver
    <3> HIDE DEF sig, ns, slot, conn
    <3>3. QED
      BY <2>1, <3>1, <3>2, RecordRaces
  <2>3. CASE ~ Deliver(s)
    BY <2>1, <2>3, RacesStill DEF Final
  <2>4. QED
    BY <2>2, <2>3
<1>4. CASE Claim
  <2>1. /\ reg'.events = reg.events /\ reg'.rows = reg.rows /\ reg'.high_slot = reg.high_slot
        /\ reg'.distinct_total = reg.distinct_total /\ reg'.wins = reg.wins
    BY <1>4, WithoutSlotTyped DEF Claim, TypesOK, Typed
  <2>2. UNCHANGED <<archive, main, hist>>
    BY <1>4 DEF Claim
  <2>3. QED
    BY <2>1, <2>2, RacesStill DEF Final
<1>5. CASE Sampled \/ WorkerEnds \/ UNCHANGED vars \/ Done \/ Cancel \/ JoinDeshred \/ JoinAsync \/ Finish
  <2>1. UNCHANGED <<reg, archive, hist>>
    BY <1>5 DEF Sampled, WorkerEnds, vars, threadVars, Done, Cancel, JoinDeshred, JoinAsync, Finish
  <2>2. Final => Final'
    BY <1>5 DEF Sampled, WorkerEnds, vars, threadVars, Done, Cancel, JoinDeshred, JoinAsync, Finish, Final, Go
  <2>3. QED
    BY <2>1, <2>2, RacesStill
<1>6. ASSUME NEW k, EmitWindow(k)
      PROVE  RaceInv'
  <2>1. reg' = WithoutLatency(reg, {k}) /\ UNCHANGED <<archive, main>> /\ reg \in Registry /\ hist \in Histories
    BY <1>6 DEF EmitWindow, TypesOK, Typed
  <2>2. /\ reg'.events = reg.events /\ reg'.rows = reg.rows /\ reg'.high_slot = reg.high_slot
        /\ reg'.distinct_total = reg.distinct_total /\ reg'.wins = reg.wins
    BY <2>1, WithoutLatencyTyped
  <2>3. hist'.first = hist.first /\ hist'.late = hist.late
    BY <1>6, <2>1, EmitEffect DEF Histories
  <2>4. QED
    BY <2>1, <2>2, <2>3, RacesStill DEF Final
<1>7. CASE FinishFilterAudit
  <2> DEFINE q == Finalize(reg, TRUE)
  <2>1. hist'.first = hist.first /\ hist'.late = hist.late /\ archive' = archive /\ Final'
    BY <1>7 DEF FinishFilterAudit, TypesOK, Typed, Histories, Final
  <2>2. reg \in Registry /\ q \in Registry
    BY FinalizePlaced DEF TypesOK, Typed
  <2>3. CASE Rotating = {}
    BY <1>7, <2>1, <2>3, RacesStill DEF FinishFilterAudit
  <2>4. CASE Rotating # {}
    <3>1. reg' = WithoutLatency(q, DOMAIN windows)
      BY <1>7, <2>4 DEF FinishFilterAudit
    <3>2. q.high_slot = reg.high_slot
      BY <2>2, FinalizeTyped
    <3> HIDE DEF q
    <3>3. /\ reg'.events = q.events /\ reg'.rows = q.rows /\ reg'.high_slot = q.high_slot
          /\ reg'.distinct_total = q.distinct_total /\ reg'.wins = q.wins
      BY <2>2, <3>1, WithoutLatencyTyped
    <3>4. Out' = archive \cup q.rows
      BY <2>1, <3>3 DEF Out
    <3>5. q = Finalize(reg, TRUE)
      BY DEF q
    <3>6. QED
      BY <2>1, <3>2, <3>3, <3>4, <3>5, RetiringRaces
  <2>5. QED
    BY <2>3, <2>4
<1>8. ASSUME NEW force \in BOOLEAN, Write(Finalize(reg, force)), UNCHANGED hist,
             force => Final', ~ force => main' = main
      PROVE  RaceInv'
  <2> DEFINE q == Finalize(reg, force)
  <2>1. reg \in Registry /\ q \in Registry
    BY FinalizePlaced DEF TypesOK, Typed
  <2>2. archive' = archive \cup q.rows /\ reg' = WithoutRows(q)
    BY <1>8 DEF Write
  <2>3. q.high_slot = reg.high_slot
    BY <2>1, FinalizeTyped
  <2>4. q = Finalize(reg, force)
    OBVIOUS
  <2> HIDE DEF q
  <2>5. /\ reg'.events = q.events /\ reg'.rows = {} /\ reg'.high_slot = q.high_slot
        /\ reg'.distinct_total = q.distinct_total /\ reg'.wins = q.wins
    BY <2>1, <2>2, WithoutRowsTyped
  <2>6. Out' = archive \cup q.rows
    BY <2>2, <2>5 DEF Out
  <2>7. QED
    BY <1>8, <2>3, <2>4, <2>5, <2>6, RetiringRaces
<1>9. CASE Snapshot
  BY <1>8, <1>9 DEF Snapshot
<1>10. CASE FinalSnapshot
  BY <1>8, <1>10 DEF FinalSnapshot, Final, Go
<1>11. QED
  BY <1>1, <1>2, <1>3, <1>4, <1>5, <1>6, <1>7, <1>9, <1>10 DEF Next, TaskStep

LEMMA RaceInit == Init => RaceInv
<1> SUFFICES ASSUME Init PROVE RaceInv
  OBVIOUS
<1>1. reg = NewRegistry /\ archive = {} /\ DOMAIN hist.first = {}
  BY DEF Init
<1>2. DOMAIN reg.events = {} /\ Out = {} /\ reg.distinct_total = 0 /\ \A s \in Sources : reg.wins[s] = 0
  BY <1>1 DEF NewRegistry, Out
<1>3. \A g : Known(g) = {}
  BY <1>1 DEF Known
<1>4. Gone = {} /\ AnyKnown = {} /\ \A s : WonBy(s) = {}
  BY <1>3 DEF Gone, AnyKnown, WonBy
<1>5. QED
  BY <1>2, <1>4, FS_EmptySet DEF RaceInv, RowsTrue, RowsExact, GoneIsLate, CountsExact

\* The inductive invariant of the race: every row, here or retired, says of each source what its
\* first delivery was, retired rows are late, and the counters count what is retired.
THEOREM RaceInvariant == Spec => [](CompareInv /\ RaceInv)
<1>1. CompareInv /\ RaceInv /\ [Next]_vars => (CompareInv /\ RaceInv)'
  BY CompareStep, RaceStep DEF CompareInv
<1>2. QED
  BY <1>1, CompareInit, RaceInit, PTL DEF Spec

\* A signature that no source delivered after its retirement is raced once, between all the
\* sources that delivered it and by their first stamps, whatever the order the registry's lock
\* was taken in, and if there is none delivered so late the counters of the race are exact.
THEOREM RacedOnceEach == Spec => []RacedOnce
<1>1. RaceInv => RacedOnce
  <2> SUFFICES ASSUME RaceInv PROVE RacedOnce
    OBVIOUS
  <2>1. \A g \in Sigs \ hist.late :
            /\ g \in DOMAIN reg.events => \A r \in Out : r.sig # g
            /\ g \in Gone => {<<r.sid, r.ns>> : r \in {x \in Out : x.sig = g}} = {<<s, Stamp(s, g)>> : s \in Known(g)}
    BY DEF RaceInv, RowsExact, RowsOut, Firsts
  <2>2. hist.late = {} =>
            /\ reg.distinct_total = Cardinality({g \in Sigs : Known(g) # {}})
            /\ \A s \in Sources :
                   reg.wins[s] = Cardinality({g \in Gone :
                       /\ s \in Known(g) /\ Cardinality(Known(g)) >= 2
                       /\ \A q \in Known(g) : Stamp(s, g) <= Stamp(q, g)})
    BY DEF RaceInv, CountsExact, AnyKnown, WonBy
  <2>3. QED
    BY <2>1, <2>2 DEF RacedOnce
<1>2. QED
  BY <1>1, RaceInvariant, PTL

-----------------------------------------------------------------------------
(* The latency of a window. *)

\* Nothing the source delivered is late, or has no slot.
Clean(s) == (\A g \in hist.late : s \notin Known(g)) /\ \A x \in hist.unplaced : x[1] # s

\* The signatures first delivered by its source through the connection of window k.
Brought(k) == {g \in Sigs : k[1] \in Known(g) /\ hist.first[<<k[1], g>>].conn = k[2]}

\* Connection c of s was opened, and is gone if it is not the last.
Opened(s, c) == c \in Nat /\ (c < task[s].conn \/ (c = task[s].conn /\ task[s].pc \in {"live", "delivering"}))

\* First deliveries came through connections that were opened.
ConnsOK == \A x \in DOMAIN hist.first : x[1] \in Grpc => Opened(x[1], hist.first[x].conn)

\* A window is of an opened connection, one closed of a connection that is gone, and one that was
\* emitted does not come back.
WindowsOK ==
    /\ \A k \in DOMAIN windows :
           /\ Opened(k[1], k[2])
           /\ windows[k].tip_close # None => k[2] < task[k[1]].conn
           /\ \A e \in hist.emitted : e.key # k
    /\ ~ Final => \A e \in hist.emitted : e.key[2] < task[e.key[1]].conn

\* What a window knows of its deliveries: whether there was one, and where the tip was when it was closed.
WindowsKnow ==
    \A k \in DOMAIN windows :
        /\ windows[k].delivered = 0 => Brought(k) = {}
        /\ windows[k].tip_close # None =>
               \A g \in Brought(k) : <<k[1], g>> \in hist.unplaced \/ SlotOf[g] <= windows[k].tip_close

TipOK == \A x \in DOMAIN hist.first : x \in hist.unplaced \/ SlotOf[x[2]] <= reg.high_slot

\* An open row is at the floor or above, or of a signature delivered late; a delivery with a slot gives one to the row.
FloorsOK ==
    /\ ~ Final => reg.finalized_floor <= Floor(reg)
    /\ \A g \in DOMAIN reg.events \ hist.late :
           /\ reg.events[g].slot = 0 \/ reg.events[g].slot >= reg.finalized_floor
           /\ reg.events[g].slot = 0 => \A s \in Known(g) : <<s, g>> \in hist.unplaced

\* Of a window still to be emitted the registry counts the races retired so far, of one emitted its row counts them all.
LatencyExact ==
    /\ \A k \in Rotating \X Conns :
           (\A e \in hist.emitted : e.key # k) /\ Clean(k[1]) =>
               Latency(reg, k).contested = Cardinality(RacedThrough(k) \cap Gone)
    /\ \A e \in hist.emitted :
           ~ e.early /\ Clean(e.key[1]) =>
               /\ Brought(e.key) \subseteq Gone
               /\ e.latency.contested = Cardinality(RacedThrough(e.key))

LatencyInv == ConnsOK /\ WindowsOK /\ WindowsKnow /\ TipOK /\ FloorsOK /\ LatencyExact
\* What a delivery changes of the histories.
HistNoted(sid, sig, ns, slot, conn) ==
    /\ DOMAIN hist'.first = DOMAIN hist.first \cup {<<sid, sig>>}
    /\ \A x \in DOMAIN hist.first : hist'.first[x] = hist.first[x]
    /\ <<sid, sig>> \in DOMAIN hist.first \/ hist'.first[<<sid, sig>>].conn = conn
    /\ hist.unplaced \subseteq hist'.unplaced /\ (slot = 0 => <<sid, sig>> \in hist'.unplaced)
    /\ hist.late \subseteq hist'.late /\ (Late(sig) => sig \in hist'.late)
    /\ hist'.emitted = hist.emitted

LEMMA HistEffect ==
  ASSUME TypesOK, NEW sid \in Sources, NEW sig \in Sigs, NEW ns \in Nat,
         NEW slot \in {0, SlotOf[sig]}, NEW conn \in Nat \cup {None}, Record(sid, sig, ns, slot, conn)
  PROVE  HistNoted(sid, sig, ns, slot, conn)
<1>1. slot \in {0} \cup Slots /\ hist \in Histories /\ reg \in Registry
  BY SlotFacts DEF TypesOK, Typed
<1>2. DOMAIN hist'.first = DOMAIN hist.first \cup {<<sid, sig>>}
  BY <1>1, HistRecorded
<1>3. \A x \in DOMAIN hist.first : hist'.first[x] = hist.first[x]
  BY <1>1, HistRecorded
<1>4. <<sid, sig>> \in DOMAIN hist.first \/ hist'.first[<<sid, sig>>].conn = conn
  BY <1>1 DEF Record, Histories
<1>5. hist'.unplaced = IF slot = 0 THEN hist.unplaced \cup {<<sid, sig>>} ELSE hist.unplaced
  BY <1>1 DEF Record, Histories
<1>6. hist'.late = IF Late(sig) THEN hist.late \cup {sig} ELSE hist.late
  BY <1>1, HistRecorded
<1>7. hist'.emitted = hist.emitted
  BY <1>1, HistRecorded
<1>8. QED
  BY <1>2, <1>3, <1>4, <1>5, <1>6, <1>7 DEF HistNoted

LEMMA DeliverRecords ==
  ASSUME TypesOK, NEW s \in Grpc, Deliver(s)
  PROVE  \E sig \in Sigs, ns \in Nat, slot \in {0} \cup Slots :
             slot \in {0, SlotOf[sig]} /\ Record(s, sig, ns, slot, task[s].conn)
BY MessageFacts DEF Deliver

LEMMA DeshredRecords ==
  ASSUME TypesOK, DeshredStep
  PROVE  \E sid \in Shreds, sig \in Sigs, ns \in Nat : Record(sid, sig, ns, SlotOf[sig], None)
BY HeadTyped DEF DeshredStep, TypesOK

\* What a connection brought, after a delivery.
LEMMA BroughtRecorded ==
  ASSUME TypesOK, NEW sid \in Sources, NEW sig \in Sigs, NEW ns, NEW slot, NEW conn,
         HistNoted(sid, sig, ns, slot, conn), NEW k
  PROVE  /\ \A g \in Brought(k)' : g \in Brought(k) \/ (g = sig /\ k[1] = sid /\ k[2] = conn)
         /\ Brought(k) \subseteq Brought(k)'
<1>1. \A g : g \in Brought(k) <=> g \in Sigs /\ k[1] \in Known(g) /\ hist.first[<<k[1], g>>].conn = k[2]
  BY DEF Brought
<1>2. \A g : g \in Brought(k)' <=> g \in Sigs /\ k[1] \in Known(g)' /\ hist'.first[<<k[1], g>>].conn = k[2]
  BY DEF Brought
<1>3. ASSUME NEW g \in Sigs, k[1] \in Known(g)
      PROVE  k[1] \in Known(g)' /\ hist'.first[<<k[1], g>>] = hist.first[<<k[1], g>>]
  BY <1>3 DEF HistNoted, Known
<1>4. ASSUME NEW g \in Sigs, k[1] \in Known(g)', k[1] \notin Known(g)
      PROVE  g = sig /\ k[1] = sid /\ hist'.first[<<k[1], g>>].conn = conn
  <2>1. <<k[1], g>> \in DOMAIN hist'.first /\ <<k[1], g>> \notin DOMAIN hist.first
    BY <1>4 DEF Known
  <2>2. <<k[1], g>> = <<sid, sig>>
    BY <2>1 DEF HistNoted
  <2>3. QED
    BY <2>1, <2>2 DEF HistNoted
<1>5. QED
  BY <1>1, <1>2, <1>3, <1>4

LEMMA KeysAreGrpc ==
  ASSUME TypesOK, NEW k \in Rotating \X Conns
  PROVE  k[1] \in Grpc /\ k[1] \in Sources /\ k[1] \in Rotating /\ k[2] \in Nat /\ k = <<k[1], k[2]>>
<1>1. k[1] \in Rotating /\ k[2] \in Conns /\ k = <<k[1], k[2]>>
  OBVIOUS
<1>2. k[2] \in Nat
  BY <1>1, TxnCompareAssumption DEF Conns
<1>3. QED
  BY <1>1, <1>2, SourceFacts

\* A connection that was opened stays so, and one that is gone stays gone.
LEMMA OpenedStays ==
  ASSUME TypesOK, [Next]_vars, NEW s \in Grpc
  PROVE  /\ \A c : Opened(s, c) => Opened(s, c)'
         /\ \A c \in Nat : c < task[s].conn => c < task'[s].conn
<1> DEFINE live == {"live", "delivering"}
<1>1. task \in [Grpc -> Task] /\ task[s].conn \in Nat
  BY TaskFacts DEF TypesOK, Typed
<1>2. \/ task'[s] = task[s]
      \/ task'[s].conn = task[s].conn /\ (task[s].pc \in live => task'[s].pc \in live)
      \/ task'[s].conn = task[s].conn + 1
  <2>1. ASSUME NEW q \in Grpc, TaskStep(q)
        PROVE  \/ task'[s] = task[s]
               \/ task'[s].conn = task[s].conn /\ (task[s].pc \in live => task'[s].pc \in live)
               \/ task'[s].conn = task[s].conn + 1
    <3>0. task[q] \in Task /\ task \in [Grpc -> Task]
      BY TaskFacts DEF TypesOK, Typed
    <3>1. CASE q # s
      BY <2>1, <3>0, <3>1 DEF TaskStep, Open, Deliver, Return, End, Arrive
    <3>2. CASE q = s
      BY <2>1, <3>0, <3>2 DEF TaskStep, Open, Deliver, Return, End, Arrive, Task
    <3>3. QED
      BY <3>1, <3>2
  <2>2. ASSUME \A q \in Grpc : ~ TaskStep(q)
        PROVE  task' = task
    BY <2>2 DEF Next, TaskStep, Feed, DeshredStep, Claim, Sampled, WorkerEnds, EmitWindow, FinishFilterAudit, Snapshot,
                Cancel, JoinDeshred, JoinAsync, FinalSnapshot, Finish, Done, vars, threadVars
  <2>3. QED
    BY <2>1, <2>2
<1>3. QED
  BY <1>1, <1>2 DEF Opened

LEMMA ConnsStep ==
  ASSUME TypesOK, ConnsOK, [Next]_vars
  PROVE  ConnsOK'
<1>1. ASSUME hist'.first = hist.first
      PROVE  ConnsOK'
  BY <1>1, OpenedStays DEF ConnsOK
<1>2. CASE DeshredStep
  <2>1. PICK sid \in Shreds, sig \in Sigs, ns \in Nat : Record(sid, sig, ns, SlotOf[sig], None)
    BY <1>2, DeshredRecords
  <2>2. HistNoted(sid, sig, ns, SlotOf[sig], None)
    BY <2>1, HistEffect, SourceFacts
  <2>3. sid \notin Grpc
    BY SourceFacts
  <2>4. QED
    BY <2>2, <2>3, OpenedStays DEF HistNoted, ConnsOK
<1>3. ASSUME NEW s \in Grpc, Deliver(s)
      PROVE  ConnsOK'
  <2>1. PICK sig \in Sigs, ns \in Nat, slot \in {0} \cup Slots :
            slot \in {0, SlotOf[sig]} /\ Record(s, sig, ns, slot, task[s].conn)
    BY <1>3, DeliverRecords
  <2>2. HistNoted(s, sig, ns, slot, task[s].conn)
    BY <2>1, HistEffect, SourceFacts, TaskFacts
  <2>3. Opened(s, task[s].conn)
    BY <1>3, TaskFacts DEF Opened, Deliver
  <2>4. QED
    BY <2>2, <2>3, OpenedStays DEF HistNoted, ConnsOK
<1>4. CASE ~ DeshredStep /\ \A s \in Grpc : ~ Deliver(s)
  <2>1. hist'.first = hist.first
    BY <1>4 DEF Next, Open, Return, End, Arrive, Feed, DeshredStep, Claim, Sampled, WorkerEnds, EmitWindow, FinishFilterAudit, Snapshot,
                Cancel, JoinDeshred, JoinAsync, FinalSnapshot, Finish, Done, vars, threadVars, TypesOK, Typed, Histories
  <2>2. QED
    BY <1>1, <2>1
<1>5. QED
  BY <1>2, <1>3, <1>4

\* Windows are opened and closed by the task of their source, and taken by the checker.
LEMMA WindowsStep ==
  ASSUME TypesOK, StagesOK, WindowsOK, [Next]_vars
  PROVE  WindowsOK'
<1>1. \A k \in DOMAIN windows : k[1] \in Grpc /\ k[2] \in Nat
  BY WindowFacts, KeysAreGrpc
<1>2. \A e \in hist.emitted : e.key[1] \in Grpc /\ e.key[2] \in Nat
  <2>1. ASSUME NEW e \in hist.emitted
        PROVE  e.key[1] \in Grpc /\ e.key[2] \in Nat
    <3>1. e.key \in Rotating \X Conns
      BY DEF TypesOK, Typed, Histories, Emitted
    <3>2. QED
      BY <3>1, KeysAreGrpc
  <2>2. QED
    BY <2>1
<1>3. /\ \A k \in DOMAIN windows : Opened(k[1], k[2])' /\ (windows[k].tip_close # None => k[2] < task'[k[1]].conn)
      /\ ~ Final => \A e \in hist.emitted : e.key[2] < task'[e.key[1]].conn
  BY <1>1, <1>2, OpenedStays DEF WindowsOK
<1>4. ASSUME hist'.emitted = hist.emitted, DOMAIN windows' \subseteq DOMAIN windows, Final => Final',
             \A k \in DOMAIN windows' : windows'[k].tip_close = windows[k].tip_close
      PROVE  WindowsOK'
  BY <1>3, <1>4 DEF WindowsOK
<1>5. ASSUME NEW s \in Grpc, TaskStep(s)
      PROVE  WindowsOK'
  <2>1. ~ Final /\ main' = main
    BY <1>5, TaskSteps DEF Final
  <2>2. CASE Open(s)
    <3>1. hist' = hist /\ task[s].pc = "between" /\ (s \notin Rotating => windows' = windows)
      BY <2>2 DEF Open
    <3>2. CASE s \notin Rotating
      BY <1>4, <2>1, <3>1, <3>2 DEF Final
    <3>3. CASE s \in Rotating
      <4> DEFINE key == <<s, task[s].conn>>
      <4>1. windows' = [k \in DOMAIN windows \cup {key} |->
                            IF k = key THEN [delivered |-> 0, tip_close |-> None] ELSE windows[k]]
        BY <2>2, <3>3 DEF Open, Key
      <4>2. \A c : c = task[s].conn => Opened(s, c)'
        <5>1. task'[s].pc = "live" /\ task'[s].conn = task[s].conn /\ task[s].conn \in Nat
          BY <2>2, TaskFacts DEF Open, TypesOK, Typed, Task
        <5>2. QED
          BY <5>1 DEF Opened
      <4>3. \A e \in hist.emitted : e.key # key
        <5>1. ASSUME NEW e \in hist.emitted, e.key = key
              PROVE  FALSE
          <6>1. e.key[1] = s /\ e.key[2] = task[s].conn
            BY <5>1
          <6>2. e.key[2] < task[e.key[1]].conn
            BY <2>1 DEF WindowsOK
          <6>3. QED
            BY <6>1, <6>2, TaskFacts
        <5>2. QED
          BY <5>1
      <4>4. key[1] = s /\ key[2] = task[s].conn
        OBVIOUS
      <4> HIDE DEF key
      <4>5. windows'[key].tip_close = None
        BY <4>1
      <4>6. \A k \in DOMAIN windows' : k = key \/ (k \in DOMAIN windows /\ windows'[k] = windows[k])
        BY <4>1
      <4>7. \A k \in DOMAIN windows' :
                /\ Opened(k[1], k[2])'
                /\ windows'[k].tip_close # None => k[2] < task'[k[1]].conn
                /\ \A e \in hist.emitted : e.key # k
        <5>1. ASSUME NEW k \in DOMAIN windows', k = key
              PROVE  /\ Opened(k[1], k[2])'
                     /\ windows'[k].tip_close # None => k[2] < task'[k[1]].conn
                     /\ \A e \in hist.emitted : e.key # k
          <6>1. Opened(k[1], k[2])'
            BY <4>2, <4>4, <5>1 DEF Opened
          <6>2. QED
            BY <4>3, <4>5, <5>1, <6>1
        <5>2. ASSUME NEW k \in DOMAIN windows', k \in DOMAIN windows, windows'[k] = windows[k]
              PROVE  /\ Opened(k[1], k[2])'
                     /\ windows'[k].tip_close # None => k[2] < task'[k[1]].conn
                     /\ \A e \in hist.emitted : e.key # k
          BY <1>3, <5>2 DEF WindowsOK
        <5>3. QED
          BY <4>6, <5>1, <5>2
      <4>8. QED
        BY <1>3, <2>1, <3>1, <4>7 DEF WindowsOK
    <3>4. QED
      BY <3>2, <3>3
  <2>3. CASE Deliver(s)
    <3>1. DOMAIN windows' = DOMAIN windows /\ \A k \in DOMAIN windows : windows'[k].tip_close = windows[k].tip_close
      <4>1. \A k \in DOMAIN windows : windows[k] \in Window
        BY WindowFacts
      <4>2. QED
        BY <2>3, <4>1 DEF Deliver, Window
    <3>2. hist'.emitted = hist.emitted
      <4>1. PICK sig \in Sigs, ns \in Nat, slot \in {0} \cup Slots :
                slot \in {0, SlotOf[sig]} /\ Record(s, sig, ns, slot, task[s].conn)
        BY <2>3, DeliverRecords
      <4>2. HistNoted(s, sig, ns, slot, task[s].conn)
        BY <4>1, HistEffect, SourceFacts, TaskFacts
      <4>3. QED
        BY <4>2 DEF HistNoted
    <3>3. QED
      BY <1>4, <2>1, <3>1, <3>2 DEF Final
  <2>4. CASE Return(s)
    <3> DEFINE key == <<s, task[s].conn>>
    <3>1. hist' = hist /\ DOMAIN windows' = DOMAIN windows
          /\ \A k \in DOMAIN windows : k # key => windows'[k] = windows[k]
      BY <2>4 DEF Return, Key
    <3>2. task[s].conn < task'[s].conn
      <4>1. task'[s].conn = task[s].conn + 1
        BY <2>4, TaskFacts DEF Return, TypesOK, Typed, Task
      <4>2. QED
        BY <4>1, TaskFacts
    <3>3. key[1] = s /\ key[2] = task[s].conn
      OBVIOUS
    <3> HIDE DEF key
    <3>4. key[2] < task'[key[1]].conn
      BY <3>2, <3>3
    <3>5. \A k \in DOMAIN windows' : windows'[k].tip_close # None => k[2] < task'[k[1]].conn
      BY <1>3, <3>1, <3>4
    <3>6. QED
      BY <1>3, <2>1, <3>1, <3>5 DEF WindowsOK
  <2>5. CASE End(s) \/ \E g \in Sigs, slot \in {0} \cup Slots : Arrive(s, g, slot)
    <3>1. hist' = hist /\ windows' = windows
      BY <2>5 DEF End, Arrive
    <3>2. QED
      BY <1>4, <2>1, <3>1 DEF Final
  <2>6. QED
    BY <1>5, <2>2, <2>3, <2>4, <2>5 DEF TaskStep
<1>6. ASSUME NEW k \in DOMAIN windows, EmitWindow(k)
      PROVE  WindowsOK'
  <2>1. windows' = [q \in DOMAIN windows \ {k} |-> windows[q]] /\ windows[k].tip_close # None /\ main' = main
    BY <1>6 DEF EmitWindow
  <2>2. \A e \in hist'.emitted : e \in hist.emitted \/ e.key = k
    <3>1. PICK early \in BOOLEAN : hist' = [hist EXCEPT !.emitted = @ \cup {WindowRow(reg, k, early)}]
      BY <1>6, EmitEffect
    <3>2. hist'.emitted = hist.emitted \cup {WindowRow(reg, k, early)}
      BY <3>1 DEF TypesOK, Typed, Histories
    <3>3. WindowRow(reg, k, early).key = k
      BY DEF WindowRow
    <3>4. QED
      BY <3>2, <3>3
  <2>3. k[2] < task'[k[1]].conn
    BY <1>3, <2>1
  <2>4. \A q \in DOMAIN windows' : q \in DOMAIN windows /\ q # k /\ windows'[q] = windows[q]
    BY <2>1
  <2>5. \A q \in DOMAIN windows' : \A e \in hist'.emitted : e.key # q
    BY <2>2, <2>4 DEF WindowsOK
  <2>6. ~ Final' => \A e \in hist'.emitted : e.key[2] < task'[e.key[1]].conn
    BY <1>3, <2>1, <2>2, <2>3 DEF Final
  <2>7. QED
    BY <1>3, <2>4, <2>5, <2>6 DEF WindowsOK
<1>7. CASE FinishFilterAudit
  <2>1. DOMAIN windows' = {} /\ Final'
    BY <1>7 DEF FinishFilterAudit, Final
  <2>2. QED
    BY <2>1 DEF WindowsOK
<1>8. CASE DeshredStep
  <2>1. PICK sid \in Shreds, sig \in Sigs, ns \in Nat : Record(sid, sig, ns, SlotOf[sig], None)
    BY <1>8, DeshredRecords
  <2>2. HistNoted(sid, sig, ns, SlotOf[sig], None)
    BY <2>1, HistEffect, SourceFacts
  <2>3. windows' = windows /\ main' = main /\ hist'.emitted = hist.emitted
    BY <1>8, <2>2 DEF DeshredStep, HistNoted
  <2>4. QED
    BY <1>4, <2>3 DEF Final
<1>9. ASSUME NEW p \in Shreds, NEW g \in Sigs, Feed(p, g)
      PROVE  WindowsOK'
  <2>1. windows' = windows /\ main' = main /\ hist'.emitted = hist.emitted
    BY <1>9 DEF Feed, TypesOK, Typed, Histories
  <2>2. QED
    BY <1>4, <2>1 DEF Final
<1>10. CASE Claim \/ Sampled \/ WorkerEnds \/ UNCHANGED vars \/ Done \/ Cancel \/ JoinDeshred \/ JoinAsync
            \/ Finish \/ Snapshot \/ FinalSnapshot
  <2>1. UNCHANGED <<windows, hist>>
    BY <1>10 DEF Claim, Sampled, WorkerEnds, vars, threadVars, Done, Cancel, JoinDeshred, JoinAsync, Finish,
                 Snapshot, FinalSnapshot
  <2>2. Final => Final'
    BY <1>10 DEF Claim, Sampled, WorkerEnds, vars, threadVars, Done, Cancel, JoinDeshred, JoinAsync, Finish,
                 Snapshot, FinalSnapshot, Final, Go
  <2>3. QED
    BY <1>4, <2>1, <2>2
<1>11. QED
  BY <1>5, <1>6, <1>7, <1>8, <1>9, <1>10 DEF Next, TaskStep

\* What a connection brought is behind it: a window learns of each of its deliveries, and is closed at
\* a tip that none of them is ahead of.
LEMMA WindowsKnowStep ==
  ASSUME TypesOK, StagesOK, ConnsOK, WindowsOK, WindowsKnow, TipOK, [Next]_vars
  PROVE  WindowsKnow'
<1>1. \A k \in DOMAIN windows : k \in Rotating \X Conns /\ windows[k] \in Window
  BY WindowFacts
<1>2. ASSUME hist'.first = hist.first, hist'.unplaced = hist.unplaced, DOMAIN windows' \subseteq DOMAIN windows,
             \A k \in DOMAIN windows' : windows'[k] = windows[k]
      PROVE  WindowsKnow'
  <2>1. \A k : Brought(k)' = Brought(k)
    BY <1>2 DEF Brought, Known
  <2>2. QED
    BY <1>2, <2>1 DEF WindowsKnow
<1>3. CASE DeshredStep
  <2>1. PICK sid \in Shreds, sig \in Sigs, ns \in Nat : Record(sid, sig, ns, SlotOf[sig], None)
    BY <1>3, DeshredRecords
  <2>2. HistNoted(sid, sig, ns, SlotOf[sig], None) /\ windows' = windows
    BY <1>3, <2>1, HistEffect, SourceFacts DEF DeshredStep
  <2>3. ASSUME NEW k \in DOMAIN windows
        PROVE  Brought(k)' = Brought(k)
    <3>1. k[1] # sid /\ sid \in Sources
      BY <1>1, KeysAreGrpc, SourceFacts
    <3>2. QED
      BY <2>2, <3>1, BroughtRecorded
  <2>4. hist.unplaced \subseteq hist'.unplaced
    BY <2>2 DEF HistNoted
  <2>5. QED
    BY <2>2, <2>3, <2>4 DEF WindowsKnow
<1>4. ASSUME NEW s \in Grpc, Deliver(s)
      PROVE  WindowsKnow'
  <2> DEFINE key == <<s, task[s].conn>>
  <2>1. PICK sig \in Sigs, ns \in Nat, slot \in {0} \cup Slots :
            slot \in {0, SlotOf[sig]} /\ Record(s, sig, ns, slot, task[s].conn)
    BY <1>4, DeliverRecords
  <2>2. HistNoted(s, sig, ns, slot, task[s].conn)
    BY <2>1, HistEffect, SourceFacts, TaskFacts
  <2>3. windows' = IF key \in DOMAIN windows THEN [windows EXCEPT ![key].delivered = @ + 1] ELSE windows
    BY <1>4 DEF Deliver, Key
  <2>4. DOMAIN windows' = DOMAIN windows /\ \A k \in DOMAIN windows : k # key => windows'[k] = windows[k]
    BY <2>3
  <2>5. key \in DOMAIN windows => windows'[key].delivered # 0 /\ windows[key].tip_close = None
                                  /\ windows'[key].tip_close = windows[key].tip_close
    <3> SUFFICES ASSUME key \in DOMAIN windows
                 PROVE  windows'[key].delivered # 0 /\ windows[key].tip_close = None
                        /\ windows'[key].tip_close = windows[key].tip_close
      OBVIOUS
    <3>1. windows[key] \in Window
      BY <1>1
    <3>2. ~ (key[2] < task[key[1]].conn)
      BY TaskFacts
    <3>3. windows[key].tip_close = None
      BY <3>2 DEF WindowsOK
    <3> HIDE DEF key
    <3>4. windows'[key] = [windows[key] EXCEPT !.delivered = @ + 1]
      BY <2>3
    <3>5. QED
      BY <3>1, <3>3, <3>4 DEF Window
  <2>6. hist.unplaced \subseteq hist'.unplaced /\ s \in Sources
    BY <2>2, SourceFacts DEF HistNoted
  <2>7. ASSUME NEW k \in DOMAIN windows, k # key
        PROVE  Brought(k)' = Brought(k)
    <3>1. \A g \in Brought(k)' : g \in Brought(k) \/ (g = sig /\ k[1] = s /\ k[2] = task[s].conn)
      BY <2>2, <2>6, BroughtRecorded
    <3>2. Brought(k) \subseteq Brought(k)'
      BY <2>2, <2>6, BroughtRecorded
    <3>3. ~ (k[1] = s /\ k[2] = task[s].conn)
      BY <1>1, <2>7, KeysAreGrpc
    <3>4. QED
      BY <3>1, <3>2, <3>3
  <2> HIDE DEF key
  <2>8. \A k \in DOMAIN windows' :
            /\ windows'[k].delivered = 0 => Brought(k)' = {}
            /\ windows'[k].tip_close # None =>
                   \A g \in Brought(k)' : <<k[1], g>> \in hist'.unplaced \/ SlotOf[g] <= windows'[k].tip_close
    <3>1. ASSUME NEW k \in DOMAIN windows'
          PROVE  /\ windows'[k].delivered = 0 => Brought(k)' = {}
                 /\ windows'[k].tip_close # None =>
                        \A g \in Brought(k)' : <<k[1], g>> \in hist'.unplaced \/ SlotOf[g] <= windows'[k].tip_close
      <4>1. CASE k = key
        BY <2>4, <2>5, <4>1
      <4>2. CASE k # key
        BY <2>4, <2>6, <2>7, <4>2 DEF WindowsKnow
      <4>3. QED
        BY <4>1, <4>2
    <3>2. QED
      BY <3>1
  <2>9. QED
    BY <2>8 DEF WindowsKnow
<1>5. ASSUME NEW s \in Grpc, Open(s)
      PROVE  WindowsKnow'
  <2>1. hist' = hist /\ task[s].pc = "between" /\ (s \notin Rotating => windows' = windows)
    BY <1>5 DEF Open
  <2>2. CASE s \notin Rotating
    BY <1>2, <2>1, <2>2
  <2>3. CASE s \in Rotating
    <3> DEFINE key == <<s, task[s].conn>>
    <3>1. windows' = [k \in DOMAIN windows \cup {key} |->
                          IF k = key THEN [delivered |-> 0, tip_close |-> None] ELSE windows[k]]
      BY <1>5, <2>3 DEF Open, Key
    <3>2. Brought(key) = {}
      <4>1. ASSUME NEW g \in Brought(key)
            PROVE  FALSE
        <5>1. <<s, g>> \in DOMAIN hist.first /\ hist.first[<<s, g>>].conn = task[s].conn
          BY <4>1 DEF Brought, Known
        <5>2. Opened(s, task[s].conn)
          <6>1. <<s, g>>[1] = s
            OBVIOUS
          <6>2. QED
            BY <5>1, <6>1 DEF ConnsOK
        <5>3. QED
          BY <2>1, <5>2, TaskFacts DEF Opened
      <4>2. QED
        BY <4>1
    <3> HIDE DEF key
    <3>3. \A k : Brought(k)' = Brought(k)
      BY <2>1 DEF Brought, Known
    <3>4. windows'[key] = [delivered |-> 0, tip_close |-> None] /\ windows'[key].tip_close = None
      BY <3>1
    <3>5. \A k \in DOMAIN windows' : k = key \/ (k \in DOMAIN windows /\ windows'[k] = windows[k])
      BY <3>1
    <3>6. \A k \in DOMAIN windows' :
              /\ windows'[k].delivered = 0 => Brought(k)' = {}
              /\ windows'[k].tip_close # None =>
                     \A g \in Brought(k)' : <<k[1], g>> \in hist'.unplaced \/ SlotOf[g] <= windows'[k].tip_close
      <4>1. ASSUME NEW k \in DOMAIN windows'
            PROVE  /\ windows'[k].delivered = 0 => Brought(k)' = {}
                   /\ windows'[k].tip_close # None =>
                          \A g \in Brought(k)' : <<k[1], g>> \in hist'.unplaced \/ SlotOf[g] <= windows'[k].tip_close
        <5>1. CASE k = key
          BY <3>2, <3>3, <3>4, <5>1
        <5>2. CASE k # key
          BY <2>1, <3>3, <3>5, <5>2 DEF WindowsKnow
        <5>3. QED
          BY <5>1, <5>2
      <4>2. QED
        BY <4>1
    <3>7. QED
      BY <3>6 DEF WindowsKnow
  <2>4. QED
    BY <2>2, <2>3
<1>6. ASSUME NEW s \in Grpc, Return(s)
      PROVE  WindowsKnow'
  <2> DEFINE key == <<s, task[s].conn>>
  <2>1. hist' = hist /\ windows' = IF key \in DOMAIN windows THEN [windows EXCEPT ![key].tip_close = reg.high_slot] ELSE windows
    BY <1>6 DEF Return, Key
  <2>2. DOMAIN windows' = DOMAIN windows /\ \A k \in DOMAIN windows : k # key => windows'[k] = windows[k]
    BY <2>1
  <2>3. \A k : Brought(k)' = Brought(k)
    BY <2>1 DEF Brought, Known
  <2> HIDE DEF key
  <2>4. ASSUME key \in DOMAIN windows
        PROVE  windows'[key].delivered = windows[key].delivered /\ windows'[key].tip_close = reg.high_slot
    <3>1. windows[key] \in Window /\ windows'[key] = [windows[key] EXCEPT !.tip_close = reg.high_slot]
      BY <1>1, <2>1, <2>4
    <3>2. QED
      BY <3>1 DEF Window
  <2>5. \A g \in Brought(key) : <<key[1], g>> \in hist.unplaced \/ SlotOf[g] <= reg.high_slot
    <3>1. ASSUME NEW g \in Brought(key)
          PROVE  <<key[1], g>> \in hist.unplaced \/ SlotOf[g] <= reg.high_slot
      <4> DEFINE x == <<key[1], g>>
      <4>1. x \in DOMAIN hist.first /\ x[2] = g
        BY <3>1 DEF Brought, Known
      <4>2. x \in hist.unplaced \/ SlotOf[x[2]] <= reg.high_slot
        BY <4>1 DEF TipOK
      <4>3. QED
        BY <4>1, <4>2
    <3>2. QED
      BY <3>1
  <2>6. \A k \in DOMAIN windows' :
            /\ windows'[k].delivered = 0 => Brought(k) = {}
            /\ windows'[k].tip_close # None =>
                   \A g \in Brought(k) : <<k[1], g>> \in hist.unplaced \/ SlotOf[g] <= windows'[k].tip_close
    <3>1. ASSUME NEW k \in DOMAIN windows'
          PROVE  /\ windows'[k].delivered = 0 => Brought(k) = {}
                 /\ windows'[k].tip_close # None =>
                        \A g \in Brought(k) : <<k[1], g>> \in hist.unplaced \/ SlotOf[g] <= windows'[k].tip_close
      <4>1. CASE k = key
        BY <2>2, <2>4, <2>5, <4>1 DEF WindowsKnow
      <4>2. CASE k # key
        BY <2>2, <4>2 DEF WindowsKnow
      <4>3. QED
        BY <4>1, <4>2
    <3>2. QED
      BY <3>1
  <2>7. QED
    BY <2>1, <2>3, <2>6 DEF WindowsKnow
<1>7. CASE \E s \in Grpc : End(s) \/ \E g \in Sigs, slot \in {0} \cup Slots : Arrive(s, g, slot)
  <2>1. hist' = hist /\ windows' = windows
    BY <1>7 DEF End, Arrive
  <2>2. QED
    BY <1>2, <2>1
<1>8. CASE (\E p \in Shreds, g \in Sigs : Feed(p, g)) \/ FinishFilterAudit \/ \E k \in DOMAIN windows : EmitWindow(k)
  <2>1. hist'.first = hist.first /\ hist'.unplaced = hist.unplaced
    BY <1>8 DEF Feed, FinishFilterAudit, EmitWindow, TypesOK, Typed, Histories
  <2>2. DOMAIN windows' \subseteq DOMAIN windows /\ \A k \in DOMAIN windows' : windows'[k] = windows[k]
    BY <1>8 DEF Feed, FinishFilterAudit, EmitWindow
  <2>3. QED
    BY <1>2, <2>1, <2>2
<1>9. CASE Claim \/ Sampled \/ WorkerEnds \/ UNCHANGED vars \/ Done \/ Cancel \/ JoinDeshred \/ JoinAsync
            \/ Finish \/ Snapshot \/ FinalSnapshot
  <2>1. UNCHANGED <<windows, hist>>
    BY <1>9 DEF Claim, Sampled, WorkerEnds, vars, threadVars, Done, Cancel, JoinDeshred, JoinAsync, Finish,
                 Snapshot, FinalSnapshot
  <2>2. QED
    BY <1>2, <2>1
<1>10. QED
  BY <1>3, <1>4, <1>5, <1>6, <1>7, <1>8, <1>9 DEF Next

\* What a step other than a delivery does to the open rows and the tip: nothing, or it retires rows.
RegStill ==
    /\ reg'.events = reg.events /\ reg'.high_slot = reg.high_slot /\ reg'.finalized_floor = reg.finalized_floor
    /\ Final => Final'

RegRetires(force) ==
    /\ reg'.events = [g \in DOMAIN reg.events \ Retired(reg, force) |-> reg.events[g]]
    /\ reg'.high_slot = reg.high_slot
    /\ reg'.finalized_floor = IF force THEN SLOT_MAX ELSE Floor(reg)
    /\ force => Final'
    /\ ~ force => main' = main

LEMMA OtherSteps ==
  ASSUME TypesOK, [Next]_vars, ~ DeshredStep, \A s \in Grpc : ~ Deliver(s)
  PROVE  /\ hist'.first = hist.first /\ hist'.unplaced = hist.unplaced /\ hist'.late = hist.late
         /\ RegStill \/ \E force \in BOOLEAN : RegRetires(force)
<1>1. hist'.first = hist.first /\ hist'.unplaced = hist.unplaced /\ hist'.late = hist.late
  BY DEF Next, Open, Return, End, Arrive, Feed, Claim, Sampled, WorkerEnds, EmitWindow, FinishFilterAudit, Snapshot,
         Cancel, JoinDeshred, JoinAsync, FinalSnapshot, Finish, Done, vars, threadVars, TypesOK, Typed, Histories
<1>2. reg \in Registry
  BY DEF TypesOK, Typed
<1>3. CASE Claim
  <2>1. reg'.events = reg.events /\ reg'.high_slot = reg.high_slot /\ reg'.finalized_floor = reg.finalized_floor
    BY <1>2, <1>3, WithoutSlotTyped DEF Claim
  <2>2. main' = main
    BY <1>3 DEF Claim
  <2>3. RegStill
    BY <2>1, <2>2 DEF RegStill, Final
  <2>4. QED
    BY <1>1, <2>3
<1>4. CASE \E k \in DOMAIN windows : EmitWindow(k)
  <2>1. PICK k \in DOMAIN windows : EmitWindow(k)
    BY <1>4
  <2>2. reg' = WithoutLatency(reg, {k}) /\ main' = main
    BY <2>1 DEF EmitWindow
  <2>3. reg'.events = reg.events /\ reg'.high_slot = reg.high_slot /\ reg'.finalized_floor = reg.finalized_floor
    BY <1>2, <2>2, WithoutLatencyTyped
  <2>4. RegStill
    BY <2>2, <2>3 DEF RegStill, Final
  <2>5. QED
    BY <1>1, <2>4
<1>5. CASE FinishFilterAudit
  <2> DEFINE q == Finalize(reg, TRUE)
  <2>1. Final'
    BY <1>5 DEF FinishFilterAudit, Final
  <2>2. CASE reg' = reg
    BY <1>1, <2>1, <2>2 DEF RegStill
  <2>3. CASE reg' = WithoutLatency(q, DOMAIN windows)
    <3>1. /\ q \in Registry /\ q.events = [g \in DOMAIN reg.events \ Retired(reg, TRUE) |-> reg.events[g]]
          /\ q.high_slot = reg.high_slot /\ q.finalized_floor = SLOT_MAX
      BY <1>2, FinalizeTyped
    <3> HIDE DEF q
    <3>2. reg'.events = q.events /\ reg'.high_slot = q.high_slot /\ reg'.finalized_floor = q.finalized_floor
      BY <2>3, <3>1, WithoutLatencyTyped
    <3>3. RegRetires(TRUE)
      BY <2>1, <3>1, <3>2 DEF RegRetires
    <3>4. QED
      BY <1>1, <3>3
  <2>4. QED
    BY <1>5, <2>2, <2>3 DEF FinishFilterAudit
<1>6. ASSUME NEW force \in BOOLEAN, Write(Finalize(reg, force)), force => Final', ~ force => main' = main
      PROVE  RegRetires(force)
  <2> DEFINE q == Finalize(reg, force)
  <2>1. /\ q \in Registry /\ q.events = [g \in DOMAIN reg.events \ Retired(reg, force) |-> reg.events[g]]
        /\ q.high_slot = reg.high_slot /\ q.finalized_floor = IF force THEN SLOT_MAX ELSE Floor(reg)
    BY <1>2, FinalizeTyped
  <2>2. reg' = WithoutRows(q)
    BY <1>6 DEF Write
  <2> HIDE DEF q
  <2>3. reg'.events = q.events /\ reg'.high_slot = q.high_slot /\ reg'.finalized_floor = q.finalized_floor
    BY <2>1, <2>2, WithoutRowsTyped
  <2>4. QED
    BY <1>6, <2>1, <2>3 DEF RegRetires
<1>7. CASE Snapshot
  BY <1>1, <1>6, <1>7 DEF Snapshot
<1>8. CASE FinalSnapshot
  BY <1>1, <1>6, <1>8 DEF FinalSnapshot, Final, Go
<1>9. CASE \/ \E s \in Grpc : TaskStep(s)
           \/ \E p \in Shreds, g \in Sigs : Feed(p, g)
           \/ Sampled \/ WorkerEnds \/ UNCHANGED vars \/ Done \/ Cancel \/ JoinDeshred \/ JoinAsync \/ Finish
  <2>1. reg' = reg
    BY <1>9 DEF TaskStep, Open, Return, End, Arrive, Feed, Sampled, WorkerEnds, vars, threadVars, Done, Cancel,
                JoinDeshred, JoinAsync, Finish
  <2>2. Final => Final'
    BY <1>9 DEF TaskStep, Open, Return, End, Arrive, Feed, Sampled, WorkerEnds, vars, threadVars, Done, Cancel,
                JoinDeshred, JoinAsync, Finish, Final, Go
  <2>3. RegStill
    BY <2>1, <2>2 DEF RegStill
  <2>4. QED
    BY <1>1, <2>3
<1>10. QED
  BY <1>3, <1>4, <1>5, <1>7, <1>8, <1>9 DEF Next, TaskStep

LEMMA TipStep ==
  ASSUME TypesOK, StagesOK, TipOK, [Next]_vars
  PROVE  TipOK'
<1>1. \A x \in DOMAIN hist.first : SlotOf[x[2]] \in Nat
  BY FirstTyped, SlotFacts
<1>2. reg.high_slot \in Nat
  BY DEF TypesOK, Typed, Registry
<1>3. ASSUME NEW sid \in Sources, NEW sig \in Sigs, NEW ns \in Nat, NEW slot \in {0, SlotOf[sig]},
             NEW conn \in Nat \cup {None}, Record(sid, sig, ns, slot, conn)
      PROVE  TipOK'
  <2>1. HistNoted(sid, sig, ns, slot, conn) /\ RowNoted(sid, sig, ns, slot, conn)
    BY <1>3, HistEffect, RowRecorded
  <2>2. reg'.high_slot \in Nat /\ reg'.high_slot >= reg.high_slot /\ reg'.high_slot >= slot
    BY <2>1 DEF RowNoted
  <2>3. \A x \in DOMAIN hist.first : x \in hist'.unplaced \/ SlotOf[x[2]] <= reg'.high_slot
    BY <1>1, <1>2, <2>1, <2>2 DEF HistNoted, TipOK
  <2>4. <<sid, sig>> \in hist'.unplaced \/ SlotOf[sig] <= reg'.high_slot
    BY <2>1, <2>2 DEF HistNoted
  <2>5. DOMAIN hist'.first = DOMAIN hist.first \cup {<<sid, sig>>}
    BY <2>1 DEF HistNoted
  <2>6. QED
    BY <2>3, <2>4, <2>5 DEF TipOK
<1>4. CASE DeshredStep
  BY <1>3, <1>4, DeshredRecords, SourceFacts
<1>5. CASE \E s \in Grpc : Deliver(s)
  <2>1. PICK s \in Grpc : Deliver(s)
    BY <1>5
  <2>2. s \in Sources /\ task[s].conn \in Nat
    BY SourceFacts, TaskFacts
  <2>3. QED
    BY <1>3, <2>1, <2>2, DeliverRecords
<1>6. CASE ~ DeshredStep /\ \A s \in Grpc : ~ Deliver(s)
  BY <1>6, OtherSteps DEF TipOK, RegStill, RegRetires
<1>7. QED
  BY <1>4, <1>5, <1>6

\* A delivery puts an open row at the floor or above, or is late.
LEMMA RecordFloors ==
  ASSUME TypesOK, RaceInv, FloorsOK, ~ Final, main' = main,
         NEW sid \in Sources, NEW sig \in Sigs, NEW ns \in Nat,
         NEW slot \in {0, SlotOf[sig]}, NEW conn \in Nat \cup {None}, Record(sid, sig, ns, slot, conn)
  PROVE  FloorsOK'
<1>1. /\ HistNoted(sid, sig, ns, slot, conn) /\ RowNoted(sid, sig, ns, slot, conn)
      /\ FirstOf(sid, sig, ns, conn)
  BY HistEffect, RowRecorded, FirstRecorded
<1>2. reg.high_slot \in Nat /\ reg.finalized_floor \in Nat /\ reg \in Registry
  BY DEF TypesOK, Typed, Registry
<1>3. reg'.finalized_floor = reg.finalized_floor
  <2>1. reg' = RecordFirst(reg, sid, sig, ns, slot, conn)
    BY DEF Record
  <2>2. QED
    BY <1>2, <2>1 DEF RecordFirst, Registry
<1>4. reg'.finalized_floor <= Floor(reg')
  <2>1. reg'.high_slot \in Nat /\ reg'.high_slot >= reg.high_slot
    BY <1>1 DEF RowNoted
  <2>2. Floor(reg) <= Floor(reg') /\ Floor(reg) \in Nat /\ Floor(reg') \in Nat
    BY <1>2, <2>1, SigRegistryAssumption DEF Floor, Monus, Larger
  <2>3. reg.finalized_floor <= Floor(reg)
    BY DEF FloorsOK
  <2>4. QED
    BY <1>2, <1>3, <2>2, <2>3
<1>5. ASSUME NEW g \in DOMAIN reg'.events \ hist'.late
      PROVE  /\ reg'.events[g].slot = 0 \/ reg'.events[g].slot >= reg'.finalized_floor
             /\ reg'.events[g].slot = 0 => \A s \in Known(g)' : <<s, g>> \in hist'.unplaced
  <2>1. CASE g # sig
    <3>1. g \in DOMAIN reg.events \ hist.late /\ reg'.events[g] = reg.events[g]
      BY <1>1, <1>5, <2>1 DEF RowNoted, HistNoted
    <3>2. Known(g)' = Known(g) /\ hist.unplaced \subseteq hist'.unplaced
      <4>1. g \in Sigs
        BY <3>1, EventsOfSigs
      <4>2. QED
        BY <1>1, <2>1, <4>1 DEF FirstOf, HistNoted
    <3>3. QED
      BY <1>3, <3>1, <3>2 DEF FloorsOK
  <2>2. CASE g = sig
    <3> DEFINE row == RowOf(reg, sig, slot)
               new == reg'.events[sig]
    <3>1. Noted(row, new, sid, ns, slot, conn)
      BY <1>1 DEF RowNoted
    <3>2. new.slot = IF row.slot = 0 THEN slot ELSE row.slot
      BY <3>1 DEF Noted
    <3>3. sig \notin hist'.late /\ sig \notin hist.late /\ ~ Late(sig)
      BY <1>1, <1>5, <2>2 DEF HistNoted
    <3>4. slot = 0 \/ slot >= reg.finalized_floor
      <4>1. ~ (SlotOf[sig] < Floor(reg)) /\ Floor(reg) \in Nat /\ SlotOf[sig] \in Nat
        BY <1>2, <3>3, SlotFacts, FloorIsNat DEF Late
      <4>2. reg.finalized_floor <= Floor(reg)
        BY DEF FloorsOK
      <4>3. QED
        BY <1>2, <4>1, <4>2
    <3>5. CASE sig \in DOMAIN reg.events
      <4>1. row = reg.events[sig] /\ (row.slot = 0 \/ row.slot >= reg.finalized_floor)
            /\ (row.slot = 0 => \A s \in Known(sig) : <<s, sig>> \in hist.unplaced)
        BY <3>3, <3>5 DEF RowOf, FloorsOK
      <4>2. Known(sig)' = Known(sig) \cup {sid}
        BY <1>1 DEF FirstOf
      <4> HIDE DEF row, new
      <4>3. new.slot = 0 \/ new.slot >= reg.finalized_floor
        BY <3>2, <3>4, <4>1
      <4>4. new.slot = 0 => \A s \in Known(sig)' : <<s, sig>> \in hist'.unplaced
        BY <1>1, <3>2, <4>1, <4>2 DEF HistNoted
      <4>5. QED
        BY <1>3, <2>2, <4>3, <4>4 DEF new
    <3>6. CASE sig \notin DOMAIN reg.events
      <4>1. row.slot = slot
        BY <3>6 DEF RowOf
      <4>2. Known(sig) = {}
        BY <1>1, <3>3, <3>6, RecordMirrors
      <4>3. Known(sig)' = {sid}
        BY <1>1, <4>2 DEF FirstOf
      <4> HIDE DEF row, new
      <4>4. new.slot = slot
        BY <3>2, <4>1
      <4>5. slot = 0 => <<sid, sig>> \in hist'.unplaced
        BY <1>1 DEF HistNoted
      <4>6. QED
        BY <1>3, <2>2, <3>4, <4>3, <4>4, <4>5 DEF new
    <3>7. QED
      BY <3>5, <3>6
  <2>3. QED
    BY <2>1, <2>2
<1>6. QED
  BY <1>4, <1>5 DEF FloorsOK

LEMMA FloorsStep ==
  ASSUME TypesOK, StagesOK, RaceInv, FloorsOK, [Next]_vars
  PROVE  FloorsOK'
<1>1. CASE DeshredStep
  <2>1. PICK sid \in Shreds, sig \in Sigs, ns \in Nat : Record(sid, sig, ns, SlotOf[sig], None)
    BY <1>1, DeshredRecords
  <2>2. ~ Final /\ main' = main /\ sid \in Sources
    BY <1>1, BeforeJoined, SourceFacts DEF DeshredStep, Final
  <2>3. QED
    BY <2>1, <2>2, RecordFloors
<1>2. ASSUME NEW s \in Grpc, Deliver(s)
      PROVE  FloorsOK'
  <2>1. PICK sig \in Sigs, ns \in Nat, slot \in {0} \cup Slots :
            slot \in {0, SlotOf[sig]} /\ Record(s, sig, ns, slot, task[s].conn)
    BY <1>2, DeliverRecords
  <2>2. ~ Final /\ main' = main /\ s \in Sources /\ task[s].conn \in Nat
    BY <1>2, TaskSteps, SourceFacts, TaskFacts DEF TaskStep, Final
  <2>3. QED
    BY <2>1, <2>2, RecordFloors
<1>3. ASSUME hist'.first = hist.first, hist'.unplaced = hist.unplaced, hist'.late = hist.late
      PROVE  \A g : Known(g)' = Known(g)
  BY <1>3 DEF Known
<1>4. CASE ~ DeshredStep /\ \A s \in Grpc : ~ Deliver(s)
  <2>1. hist'.first = hist.first /\ hist'.unplaced = hist.unplaced /\ hist'.late = hist.late
    BY <1>4, OtherSteps
  <2>2. CASE RegStill
    BY <1>3, <2>1, <2>2 DEF RegStill, FloorsOK, Floor
  <2>3. ASSUME NEW force \in BOOLEAN, RegRetires(force)
        PROVE  FloorsOK'
    <3>1. CASE force
      <4>1. DOMAIN reg'.events = {} /\ Final'
        BY <2>3, <3>1 DEF RegRetires, Retired
      <4>2. QED
        BY <4>1 DEF FloorsOK
    <3>2. CASE ~ force
      <4>1. reg'.finalized_floor = Floor(reg) /\ Floor(reg') = Floor(reg) /\ Floor(reg) \in Nat
        BY <2>3, <3>2, FloorIsNat DEF RegRetires, Floor, TypesOK, Typed
      <4>2. \A g \in DOMAIN reg'.events : g \in DOMAIN reg.events /\ reg'.events[g] = reg.events[g]
                                          /\ ~ Retires(reg.events[g], Floor(reg))
        BY <2>3, <3>2 DEF RegRetires, Retired
      <4>3. \A g \in DOMAIN reg.events : reg.events[g].slot \in Nat
        BY SlotFacts, EventsOfSigs DEF TypesOK, RowsPlaced
      <4>4. \A g \in DOMAIN reg'.events : reg'.events[g].slot = 0 \/ reg'.events[g].slot >= Floor(reg)
        BY <4>1, <4>2, <4>3 DEF Retires
      <4>5. \A g \in DOMAIN reg'.events \ hist'.late :
                reg'.events[g].slot = 0 => \A s \in Known(g)' : <<s, g>> \in hist'.unplaced
        BY <1>3, <2>1, <4>2 DEF FloorsOK
      <4>6. QED
        BY <4>1, <4>4, <4>5 DEF FloorsOK
    <3>3. QED
      BY <3>1, <3>2
  <2>4. QED
    BY <1>4, <2>2, <2>3, OtherSteps
<1>5. QED
  BY <1>1, <1>2, <1>4

LEMMA RacedIsBrought ==
  ASSUME NEW k
  PROVE  /\ RacedThrough(k) = {g \in Brought(k) : Cardinality(Known(g)) >= 2}
         /\ RacedThrough(k) \subseteq Sigs /\ Brought(k) \subseteq Sigs
BY DEF RacedThrough, Brought

LEMMA LatencyStill ==
  ASSUME LatencyExact, hist'.first = hist.first, hist'.late = hist.late, hist'.unplaced = hist.unplaced,
         hist'.emitted = hist.emitted, reg'.events = reg.events, reg'.window_latency = reg.window_latency
  PROVE  LatencyExact'
<1>1. \A g : Known(g)' = Known(g)
  BY DEF Known
<1>2. Gone' = Gone
  BY <1>1 DEF Gone
<1>3. \A k : RacedThrough(k)' = RacedThrough(k) /\ Brought(k)' = Brought(k)
  BY <1>1 DEF RacedThrough, Brought
<1>4. \A s : Clean(s)' = Clean(s)
  BY <1>1 DEF Clean
<1>5. \A k : Latency(reg', k) = Latency(reg, k)
  BY DEF Latency
<1>6. QED
  BY <1>2, <1>3, <1>4, <1>5 DEF LatencyExact

\* A delivery of a retired signature takes its sources out of what is claimed; of the others it adds nothing that is
\* retired, and nothing to a window that was emitted.
LEMMA RecordLatency ==
  ASSUME TypesOK, RaceInv, WindowsOK, LatencyExact, ~ Final, archive' = archive,
         NEW sid \in Sources, NEW sig \in Sigs, NEW ns \in Nat,
         NEW slot \in {0, SlotOf[sig]}, NEW conn \in Nat \cup {None}, Record(sid, sig, ns, slot, conn),
         sid \in Grpc => conn = task[sid].conn
  PROVE  LatencyExact'
<1>1. /\ HistNoted(sid, sig, ns, slot, conn) /\ RowNoted(sid, sig, ns, slot, conn)
      /\ FirstOf(sid, sig, ns, conn)
  BY HistEffect, RowRecorded, FirstRecorded
<1>2. \A k : Latency(reg', k) = Latency(reg, k)
  <2>1. reg' = RecordFirst(reg, sid, sig, ns, slot, conn) /\ reg \in Registry
    BY DEF Record, TypesOK, Typed
  <2>2. reg'.window_latency = reg.window_latency
    BY <2>1 DEF RecordFirst, Registry
  <2>3. QED
    BY <2>2 DEF Latency
<1>3. \A g \in Sigs : Known(g) \subseteq Known(g)'
  BY <1>1 DEF FirstOf
<1>4. \A g \in Sigs \ {sig} : Known(g)' = Known(g) /\ \A s \in Known(g) : hist'.first[<<s, g>>] = hist.first[<<s, g>>]
  <2>1. ASSUME NEW g \in Sigs \ {sig}
        PROVE  Known(g)' = Known(g) /\ \A s \in Known(g) : hist'.first[<<s, g>>] = hist.first[<<s, g>>]
    BY <1>1, <2>1, RecordOthers
  <2>2. QED
    BY <2>1
<1>5. \A s : Clean(s)' => Clean(s)
  <2>1. hist.late \subseteq Sigs
    BY DEF TypesOK, Typed, Histories
  <2>2. QED
    BY <1>1, <1>3, <2>1 DEF Clean, HistNoted
<1>6. Gone' = Gone \ {sig}
  <2>1. sig \in DOMAIN reg'.events
    BY <1>1 DEF RowNoted
  <2>2. \A g \in Sigs \ {sig} : (g \in Gone') = (g \in Gone)
    BY <1>1, <1>4 DEF RowNoted, Gone
  <2>3. QED
    BY <2>1, <2>2 DEF Gone
<1>7. ASSUME NEW s, Clean(s)', s \in Known(sig)'
      PROVE  sig \notin Gone
  <2>1. sig \notin hist'.late
    BY <1>7 DEF Clean
  <2>2. QED
    BY <1>1, <2>1 DEF HistNoted, RaceInv, GoneIsLate
<1>8. \A k : \A g \in Sigs \ {sig} : /\ (g \in Brought(k)') = (g \in Brought(k))
                                     /\ (g \in RacedThrough(k)') = (g \in RacedThrough(k))
  BY <1>4 DEF Brought, RacedThrough
<1>9. ASSUME NEW k \in Rotating \X Conns, \A e \in hist'.emitted : e.key # k, Clean(k[1])'
      PROVE  Latency(reg', k).contested = Cardinality(RacedThrough(k)' \cap Gone')
  <2>1. Latency(reg, k).contested = Cardinality(RacedThrough(k) \cap Gone)
    BY <1>1, <1>5, <1>9 DEF LatencyExact, HistNoted
  <2>2. sig \notin RacedThrough(k) \cap Gone
    <3>1. sig \in RacedThrough(k) => k[1] \in Known(sig)'
      BY <1>3 DEF RacedThrough
    <3>2. QED
      BY <1>7, <1>9, <3>1
  <2>3. RacedThrough(k)' \cap Gone' = RacedThrough(k) \cap Gone
    <3>1. RacedThrough(k) \subseteq Sigs /\ RacedThrough(k)' \subseteq Sigs
      BY DEF RacedThrough
    <3>2. QED
      BY <1>6, <1>8, <2>2, <3>1
  <2>4. QED
    BY <1>2, <2>1, <2>3
<1>10. ASSUME NEW e \in hist'.emitted, ~ e.early, Clean(e.key[1])'
       PROVE  Brought(e.key)' \subseteq Gone' /\ e.latency.contested = Cardinality(RacedThrough(e.key)')
  <2> DEFINE k == e.key
  <2>1. e \in hist.emitted
    BY <1>1 DEF HistNoted
  <2>2. Brought(k) \subseteq Gone /\ e.latency.contested = Cardinality(RacedThrough(k))
    BY <1>5, <1>10, <2>1 DEF LatencyExact
  <2>3. k[1] \in Grpc /\ k[2] \in Nat /\ k[2] < task[k[1]].conn
    <3>1. k \in Rotating \X Conns
      BY <2>1 DEF TypesOK, Typed, Histories, Emitted
    <3>2. k[1] \in Grpc /\ k[2] \in Nat
      BY <3>1, KeysAreGrpc
    <3>3. k[2] < task[k[1]].conn
      BY <2>1 DEF WindowsOK
    <3>4. QED
      BY <3>2, <3>3
  <2>4. ~ (k[1] = sid /\ k[2] = conn)
    <3>1. k[1] = sid /\ k[2] = conn => k[2] = task[k[1]].conn
      BY <2>3
    <3>2. task[k[1]].conn \in Nat
      BY <2>3, TaskFacts
    <3>3. QED
      BY <2>3, <3>1, <3>2
  <2>5. sig \notin Brought(k)
    <3>1. sig \in Brought(k) => k[1] \in Known(sig)'
      BY <1>3 DEF Brought
    <3>2. QED
      BY <1>7, <1>10, <2>2, <3>1
  <2> HIDE DEF k
  <2>6. sig \notin Brought(k)'
    BY <1>1, <2>4, <2>5, BroughtRecorded
  <2>7. Brought(k)' = Brought(k) /\ RacedThrough(k)' = RacedThrough(k)
    <3>1. /\ RacedThrough(k) \subseteq Brought(k) /\ Brought(k) \subseteq Sigs
          /\ RacedThrough(k)' \subseteq Brought(k)' /\ Brought(k)' \subseteq Sigs
      BY DEF RacedThrough, Brought
    <3>2. QED
      BY <1>8, <2>5, <2>6, <3>1
  <2>8. Brought(k)' \subseteq Gone' /\ e.latency.contested = Cardinality(RacedThrough(k)')
    BY <1>6, <2>2, <2>5, <2>7
  <2>9. QED
    BY <2>8 DEF k
<1>11. QED
  BY <1>9, <1>10 DEF LatencyExact

\* What a finalize adds to the row of a window is what it retires of the window's races.
LEMMA RetiringCounts ==
  ASSUME TypesOK, RaceInv, NEW force \in BOOLEAN, NEW k \in Rotating \X Conns, Clean(k[1]),
         Latency(reg, k).contested = Cardinality(RacedThrough(k) \cap Gone)
  PROVE  Latency(Finalize(reg, force), k).contested =
             Cardinality(RacedThrough(k) \cap (Gone \cup Retired(reg, force)))
<1> DEFINE R == Retired(reg, force)
           q == Finalize(reg, force)
           f == Fold(reg, R)
<1>1. reg \in Registry /\ R \subseteq DOMAIN reg.events
  BY DEF TypesOK, Typed, Retired
<1>2. q.window_latency = f.window_latency
  BY <1>1, FinalizeTyped
<1> HIDE DEF R, q, f
<1>3. Latency(q, k) = Latency(f, k)
  BY <1>2 DEF Latency
<1>4. Latency(f, k).contested = Latency(reg, k).contested +
          IF k \in DOMAIN f.window_latency THEN Cardinality(Via(reg, R, k)) ELSE 0
  BY <1>1, FoldTyped DEF f
<1>5. \A g \in Raced(reg, R) : \A s \in Present(reg.events[g]) \cap Rotating :
          <<s, reg.events[g].ts[s].conn>> \in DOMAIN f.window_latency
  BY <1>1, FoldTyped DEF f
<1>6. k[1] \in Rotating /\ k[1] \in Sources /\ k = <<k[1], k[2]>>
  BY KeysAreGrpc
<1>7. k \notin DOMAIN f.window_latency => Via(reg, R, k) = {}
  BY <1>5, <1>6 DEF Via
<1>8. Latency(q, k).contested = Latency(reg, k).contested + Cardinality(Via(reg, R, k))
  BY <1>3, <1>4, <1>7, FS_EmptySet
<1>9. R \subseteq Sigs
  BY <1>1, EventsOfSigs
<1>10. RacedThrough(k) \cap R = Via(reg, R, k)
  <2>1. ASSUME NEW g \in R, g \in hist.late
        PROVE  g \notin RacedThrough(k) /\ g \notin Via(reg, R, k)
    <3>1. k[1] \notin Known(g)
      BY <2>1 DEF Clean
    <3>2. k[1] \notin Present(reg.events[g])
      BY <1>1, <3>1 DEF RaceInv, RowsTrue
    <3>3. QED
      BY <3>1, <3>2 DEF RacedThrough, Via
  <2>2. ASSUME NEW g \in R, g \notin hist.late
        PROVE  (g \in RacedThrough(k)) = (g \in Via(reg, R, k))
    <3>1. Mirrors(g)
      BY <1>1, <1>9, <2>2 DEF RaceInv, RowsExact
    <3>2. Present(reg.events[g]) = Known(g)
      BY <3>1 DEF Mirrors, Present, Known
    <3>3. k[1] \in Known(g) => reg.events[g].ts[k[1]].conn = hist.first[<<k[1], g>>].conn
      BY <1>6, <3>1 DEF Mirrors
    <3>4. g \in Via(reg, R, k) <=> /\ Cardinality(Known(g)) >= 2 /\ k[1] \in Known(g)
                                   /\ reg.events[g].ts[k[1]].conn = k[2]
      BY <3>2 DEF Via, Raced, Contested
    <3>5. g \in RacedThrough(k) <=> /\ k[1] \in Known(g) /\ Cardinality(Known(g)) >= 2
                                    /\ hist.first[<<k[1], g>>].conn = k[2]
      BY <1>9 DEF RacedThrough
    <3>6. QED
      BY <3>3, <3>4, <3>5
  <2>3. Via(reg, R, k) \subseteq R
    BY DEF Via, Raced
  <2>4. QED
    BY <2>1, <2>2, <2>3
<1>11. Gone \cap R = {}
  BY <1>1 DEF Gone
<1> DEFINE A == RacedThrough(k) \cap Gone
           B == RacedThrough(k) \cap R
<1>12. IsFiniteSet(A) /\ Cardinality(A) \in Nat /\ IsFiniteSet(B) /\ Cardinality(B) \in Nat
  BY RacedIsBrought, SubsetsCounted
<1>13. RacedThrough(k) \cap (Gone \cup R) = A \cup B /\ A \cap B = {}
  BY <1>11
<1> HIDE DEF A, B
<1>14. Cardinality(A \cup B) = Cardinality(A) + Cardinality(B)
  <2>1. Cardinality(A \cup B) = Cardinality(A) + Cardinality(B) - Cardinality(A \cap B)
    BY <1>12, FS_Union
  <2>2. Cardinality(A \cap B) = 0
    BY <1>13, FS_EmptySet
  <2>3. QED
    BY <1>12, <2>1, <2>2
<1>15. Latency(q, k).contested = Cardinality(RacedThrough(k) \cap (Gone \cup R))
  BY <1>8, <1>10, <1>13, <1>14 DEF A, B
<1>16. QED
  BY <1>15 DEF q, R

\* A window whose latency is final has none of its deliveries in an open row.
LEMMA FinalIsBehind ==
  ASSUME TypesOK, WindowsKnow, FloorsOK, NEW k \in DOMAIN windows, windows[k].tip_close # None,
         LatencyFinal(windows[k]), Clean(k[1])
  PROVE  Brought(k) \subseteq Gone
<1> SUFFICES ASSUME NEW g \in Brought(k), g \in DOMAIN reg.events
             PROVE  FALSE
  BY DEF Gone, Brought
<1>1. k[1] \in Known(g) /\ g \in Sigs /\ g \notin hist.late /\ <<k[1], g>> \notin hist.unplaced
  <2>1. k[1] \in Known(g) /\ g \in Sigs
    BY DEF Brought
  <2>2. <<k[1], g>>[1] = k[1]
    OBVIOUS
  <2>3. QED
    BY <2>1, <2>2 DEF Clean
<1>2. windows[k].tip_close \in Nat /\ windows[k].delivered \in Nat /\ reg.finalized_floor \in Nat /\ SlotOf[g] \in Nat
  <2>1. windows[k] \in Window
    BY WindowFacts
  <2>2. QED
    BY <1>1, <2>1, SlotFacts DEF Window, TypesOK, Typed, Registry
<1>3. SlotOf[g] <= windows[k].tip_close /\ windows[k].delivered # 0
  BY <1>1 DEF WindowsKnow
<1>4. reg.finalized_floor > windows[k].tip_close
  BY <1>3 DEF LatencyFinal
<1>5. reg.events[g].slot # 0 /\ reg.events[g].slot >= reg.finalized_floor
  BY <1>1 DEF FloorsOK
<1>6. reg.events[g].slot = SlotOf[g]
  BY <1>5 DEF TypesOK, RowsPlaced
<1>7. QED
  BY <1>2, <1>3, <1>4, <1>5, <1>6

LEMMA EmitLatency ==
  ASSUME TypesOK, WindowsOK, WindowsKnow, FloorsOK, LatencyExact, NEW k \in DOMAIN windows, EmitWindow(k)
  PROVE  LatencyExact'
<1>1. reg \in Registry /\ k \in Rotating \X Conns
  BY WindowFacts DEF TypesOK, Typed
<1>2. reg' = WithoutLatency(reg, {k}) /\ windows[k].tip_close # None
  BY DEF EmitWindow
<1>3. PICK early \in BOOLEAN : /\ ~ early => LatencyFinal(windows[k])
                               /\ hist' = [hist EXCEPT !.emitted = @ \cup {WindowRow(reg, k, early)}]
  BY EmitEffect
<1>4. /\ hist'.emitted = hist.emitted \cup {WindowRow(reg, k, early)} /\ hist'.first = hist.first
      /\ hist'.late = hist.late /\ hist'.unplaced = hist.unplaced
  BY <1>3 DEF TypesOK, Typed, Histories
<1>5. reg'.events = reg.events /\ reg'.window_latency = [q \in DOMAIN reg.window_latency \ {k} |-> reg.window_latency[q]]
  BY <1>1, <1>2, WithoutLatencyTyped
<1>6. \A q : q # k => Latency(reg', q) = Latency(reg, q)
  BY <1>5 DEF Latency
<1>7. /\ Gone' = Gone /\ \A q : RacedThrough(q)' = RacedThrough(q) /\ Brought(q)' = Brought(q)
      /\ \A s : Clean(s)' = Clean(s)
  <2>1. \A g : Known(g)' = Known(g)
    BY <1>4 DEF Known
  <2>2. QED
    BY <1>4, <1>5, <2>1 DEF Gone, RacedThrough, Brought, Clean
<1> DEFINE new == WindowRow(reg, k, early)
<1>8. new.key = k /\ new.latency = Latency(reg, k) /\ new.early = early
  BY DEF WindowRow
<1> HIDE DEF new
<1>9. ASSUME ~ early, Clean(k[1])
      PROVE  Brought(k) \subseteq Gone /\ Latency(reg, k).contested = Cardinality(RacedThrough(k))
  <2>1. Brought(k) \subseteq Gone
    BY <1>2, <1>3, <1>9, FinalIsBehind
  <2>2. Latency(reg, k).contested = Cardinality(RacedThrough(k) \cap Gone)
    BY <1>1, <1>9 DEF LatencyExact, WindowsOK
  <2>3. RacedThrough(k) \cap Gone = RacedThrough(k)
    BY <2>1, RacedIsBrought
  <2>4. QED
    BY <2>1, <2>2, <2>3
<1>10. \A q \in Rotating \X Conns :
           (\A e \in hist'.emitted : e.key # q) /\ Clean(q[1])' =>
               Latency(reg', q).contested = Cardinality(RacedThrough(q)' \cap Gone')
  <2>1. ASSUME NEW q \in Rotating \X Conns, \A e \in hist'.emitted : e.key # q, Clean(q[1])'
        PROVE  Latency(reg', q).contested = Cardinality(RacedThrough(q)' \cap Gone')
    <3>1. q # k /\ \A e \in hist.emitted : e.key # q
      BY <1>4, <1>8, <2>1 DEF new
    <3>2. Latency(reg, q).contested = Cardinality(RacedThrough(q) \cap Gone)
      BY <1>7, <2>1, <3>1 DEF LatencyExact
    <3>3. QED
      BY <1>6, <1>7, <3>1, <3>2
  <2>2. QED
    BY <2>1
<1>11. \A e \in hist'.emitted :
           ~ e.early /\ Clean(e.key[1])' =>
               Brought(e.key)' \subseteq Gone' /\ e.latency.contested = Cardinality(RacedThrough(e.key)')
  <2>1. ASSUME NEW e \in hist'.emitted, ~ e.early, Clean(e.key[1])'
        PROVE  Brought(e.key)' \subseteq Gone' /\ e.latency.contested = Cardinality(RacedThrough(e.key)')
    <3>1. Clean(e.key[1])
      BY <1>7, <2>1
    <3>2. CASE e = new
      <4>1. ~ early /\ Clean(k[1])
        BY <1>8, <2>1, <3>1, <3>2
      <4>2. QED
        BY <1>7, <1>8, <1>9, <3>2, <4>1
    <3>3. CASE e \in hist.emitted
      BY <1>7, <2>1, <3>1, <3>3 DEF LatencyExact
    <3>4. QED
      BY <1>4, <3>2, <3>3 DEF new
  <2>2. QED
    BY <2>1
<1>12. QED
  BY <1>10, <1>11 DEF LatencyExact

\* A finalize that writes no row of a window.
LEMMA RetiringLatency ==
  ASSUME TypesOK, RaceInv, LatencyExact, hist' = hist, NEW force \in BOOLEAN, NEW q, q = Finalize(reg, force),
         reg'.events = q.events, reg'.window_latency = q.window_latency
  PROVE  LatencyExact'
<1>1. Retired(reg, force) \subseteq DOMAIN reg.events /\ reg \in Registry
  BY DEF Retired, TypesOK, Typed
<1>2. q.events = [g \in DOMAIN reg.events \ Retired(reg, force) |-> reg.events[g]]
  BY <1>1, FinalizeTyped
<1>3. \A g : Known(g)' = Known(g)
  BY DEF Known
<1>4. Gone' = Gone \cup Retired(reg, force)
  <2>1. \A g \in Retired(reg, force) : g \in Sigs /\ Known(g) # {}
    <3>1. \A g \in DOMAIN reg.events : Present(reg.events[g]) # {} /\ Present(reg.events[g]) \subseteq Known(g)
      BY DEF TypesOK, RowsPlaced, RaceInv, RowsTrue
    <3>2. QED
      BY <1>1, <3>1, EventsOfSigs
  <2>2. QED
    BY <1>1, <1>2, <1>3, <2>1 DEF Gone
<1>5. /\ \A k : RacedThrough(k)' = RacedThrough(k) /\ Brought(k)' = Brought(k)
      /\ \A s : Clean(s)' = Clean(s)
  BY <1>3 DEF RacedThrough, Brought, Clean
<1>6. \A k : Latency(reg', k) = Latency(q, k)
  BY DEF Latency
<1>7. \A k \in Rotating \X Conns :
          (\A e \in hist'.emitted : e.key # k) /\ Clean(k[1])' =>
              Latency(reg', k).contested = Cardinality(RacedThrough(k)' \cap Gone')
  <2>1. ASSUME NEW k \in Rotating \X Conns, \A e \in hist'.emitted : e.key # k, Clean(k[1])'
        PROVE  Latency(reg', k).contested = Cardinality(RacedThrough(k)' \cap Gone')
    <3>1. Clean(k[1]) /\ Latency(reg, k).contested = Cardinality(RacedThrough(k) \cap Gone)
      BY <1>5, <2>1 DEF LatencyExact
    <3>2. Latency(q, k).contested = Cardinality(RacedThrough(k) \cap (Gone \cup Retired(reg, force)))
      BY <3>1, RetiringCounts
    <3>3. QED
      BY <1>4, <1>5, <1>6, <3>2
  <2>2. QED
    BY <2>1
<1>8. \A e \in hist'.emitted :
          ~ e.early /\ Clean(e.key[1])' =>
              Brought(e.key)' \subseteq Gone' /\ e.latency.contested = Cardinality(RacedThrough(e.key)')
  BY <1>4, <1>5 DEF LatencyExact
<1>9. QED
  BY <1>7, <1>8 DEF LatencyExact

\* The last rows of windows, when everything is retired.
LEMMA FinishLatency ==
  ASSUME TypesOK, RaceInv, WindowsOK, LatencyExact, FinishFilterAudit
  PROVE  LatencyExact'
<1> DEFINE q == Finalize(reg, TRUE)
           E == {WindowRow(q, k, FALSE) : k \in DOMAIN windows}
<1>1. hist'.emitted = hist.emitted \cup E /\ hist'.first = hist.first
      /\ hist'.late = hist.late /\ hist'.unplaced = hist.unplaced
  BY DEF FinishFilterAudit, TypesOK, Typed, Histories, WindowRow
<1>2. DOMAIN windows \subseteq Rotating \X Conns /\ reg \in Registry
  BY WindowFacts DEF TypesOK, Typed
<1>3. CASE Rotating = {}
  <2>1. reg' = reg /\ DOMAIN windows = {}
    BY <1>2, <1>3 DEF FinishFilterAudit
  <2>2. hist'.emitted = hist.emitted
    BY <1>1, <2>1
  <2>3. QED
    BY <1>1, <2>1, <2>2, LatencyStill
<1>4. CASE Rotating # {}
  <2>1. reg' = WithoutLatency(q, DOMAIN windows)
    BY <1>4 DEF FinishFilterAudit
  <2>2. Retired(reg, TRUE) = DOMAIN reg.events
    BY DEF Retired
  <2>3. q \in Registry /\ DOMAIN q.events = {}
    BY <1>2, <2>2, FinalizeTyped
  <2>4. \A k : WindowRow(q, k, FALSE).key = k /\ WindowRow(q, k, FALSE).latency = Latency(q, k)
    BY DEF WindowRow
  <2>5. \A k \in Rotating \X Conns :
            Clean(k[1]) /\ Latency(reg, k).contested = Cardinality(RacedThrough(k) \cap Gone) =>
                Latency(q, k).contested = Cardinality(RacedThrough(k) \cap (Gone \cup DOMAIN reg.events))
    BY <2>2, RetiringCounts
  <2> HIDE DEF q
  <2>6. /\ reg'.events = q.events
        /\ reg'.window_latency = [k \in DOMAIN q.window_latency \ DOMAIN windows |-> q.window_latency[k]]
    BY <2>1, <2>3, WithoutLatencyTyped
  <2>7. \A k : k \notin DOMAIN windows => Latency(reg', k) = Latency(q, k)
    BY <2>6 DEF Latency
  <2>8. \A g : Known(g)' = Known(g)
    BY <1>1 DEF Known
  <2>9. Gone' = {g \in Sigs : Known(g) # {}}
    BY <2>3, <2>6, <2>8 DEF Gone
  <2>10. /\ \A k : RacedThrough(k)' = RacedThrough(k) /\ Brought(k)' = Brought(k)
         /\ \A s : Clean(s)' = Clean(s)
    BY <1>1, <2>8 DEF RacedThrough, Brought, Clean
  <2>11. \A k : RacedThrough(k) \cap (Gone \cup DOMAIN reg.events) = RacedThrough(k)
                /\ RacedThrough(k) \cap Gone' = RacedThrough(k) /\ Brought(k) \subseteq Gone'
    BY <2>9 DEF RacedThrough, Brought, Gone
  <2>12. ASSUME NEW k \in Rotating \X Conns, \A e \in hist.emitted : e.key # k, Clean(k[1])
         PROVE  Latency(q, k).contested = Cardinality(RacedThrough(k))
    <3>1. Latency(reg, k).contested = Cardinality(RacedThrough(k) \cap Gone)
      BY <2>12 DEF LatencyExact
    <3>2. QED
      BY <2>5, <2>11, <2>12, <3>1
  <2>13. \A k \in Rotating \X Conns :
             (\A e \in hist'.emitted : e.key # k) /\ Clean(k[1])' =>
                 Latency(reg', k).contested = Cardinality(RacedThrough(k)' \cap Gone')
    <3>1. ASSUME NEW k \in Rotating \X Conns, \A e \in hist'.emitted : e.key # k, Clean(k[1])'
          PROVE  Latency(reg', k).contested = Cardinality(RacedThrough(k)' \cap Gone')
      <4>1. k \notin DOMAIN windows
        BY <1>1, <2>4, <3>1
      <4>2. Latency(q, k).contested = Cardinality(RacedThrough(k))
        BY <1>1, <2>10, <2>12, <3>1
      <4>3. QED
        BY <2>7, <2>10, <2>11, <4>1, <4>2
    <3>2. QED
      BY <3>1
  <2>14. \A e \in hist'.emitted :
             ~ e.early /\ Clean(e.key[1])' =>
                 Brought(e.key)' \subseteq Gone' /\ e.latency.contested = Cardinality(RacedThrough(e.key)')
    <3>1. ASSUME NEW e \in hist'.emitted, ~ e.early, Clean(e.key[1])'
          PROVE  Brought(e.key)' \subseteq Gone' /\ e.latency.contested = Cardinality(RacedThrough(e.key)')
      <4>1. CASE e \in hist.emitted
        BY <2>10, <2>11, <3>1, <4>1 DEF LatencyExact
      <4>2. CASE e \in E
        <5>1. PICK k \in DOMAIN windows : e = WindowRow(q, k, FALSE)
          BY <4>2
        <5>2. e.key = k /\ e.latency = Latency(q, k)
          BY <2>4, <5>1
        <5>3. Latency(q, k).contested = Cardinality(RacedThrough(k))
          BY <1>2, <2>10, <2>12, <3>1, <5>2 DEF WindowsOK
        <5>4. QED
          BY <2>10, <2>11, <5>2, <5>3
      <4>3. QED
        BY <1>1, <4>1, <4>2
    <3>2. QED
      BY <3>1
  <2>15. QED
    BY <2>13, <2>14 DEF LatencyExact
<1>5. QED
  BY <1>3, <1>4

LEMMA LatencyStep ==
  ASSUME TypesOK, StagesOK, RaceInv, WindowsOK, WindowsKnow, FloorsOK, LatencyExact, [Next]_vars
  PROVE  LatencyExact'
<1>1. reg \in Registry
  BY DEF TypesOK, Typed
<1>2. CASE DeshredStep
  <2>1. PICK sid \in Shreds, sig \in Sigs, ns \in Nat : Record(sid, sig, ns, SlotOf[sig], None)
    BY <1>2, DeshredRecords
  <2>2. ~ Final /\ archive' = archive /\ sid \in Sources /\ sid \notin Grpc
    BY <1>2, BeforeJoined, SourceFacts DEF DeshredStep, Final
  <2>3. QED
    BY <2>1, <2>2, RecordLatency
<1>3. ASSUME NEW s \in Grpc, Deliver(s)
      PROVE  LatencyExact'
  <2>1. PICK sig \in Sigs, ns \in Nat, slot \in {0} \cup Slots :
            slot \in {0, SlotOf[sig]} /\ Record(s, sig, ns, slot, task[s].conn)
    BY <1>3, DeliverRecords
  <2>2. ~ Final /\ archive' = archive /\ s \in Sources /\ task[s].conn \in Nat
    BY <1>3, TaskSteps, SourceFacts, TaskFacts DEF TaskStep, Final
  <2>3. QED
    BY <2>1, <2>2, RecordLatency
<1>4. CASE Claim
  <2>1. reg'.events = reg.events /\ reg'.window_latency = reg.window_latency
    BY <1>1, <1>4, WithoutSlotTyped DEF Claim
  <2>2. hist' = hist
    BY <1>4 DEF Claim
  <2>3. QED
    BY <2>1, <2>2, LatencyStill
<1>5. ASSUME NEW force \in BOOLEAN, Write(Finalize(reg, force)), hist' = hist
      PROVE  LatencyExact'
  <2> DEFINE q == Finalize(reg, force)
  <2>1. q \in Registry
    BY <1>1, FinalizeTyped
  <2>2. reg' = WithoutRows(q) /\ q = Finalize(reg, force)
    BY <1>5 DEF Write
  <2> HIDE DEF q
  <2>3. reg'.events = q.events /\ reg'.window_latency = q.window_latency
    BY <2>1, <2>2, WithoutRowsTyped
  <2>4. QED
    BY <1>5, <2>2, <2>3, RetiringLatency
<1>6. CASE Snapshot \/ FinalSnapshot
  BY <1>5, <1>6 DEF Snapshot, FinalSnapshot
<1>7. CASE \/ \E s \in Grpc : Open(s) \/ Return(s) \/ End(s) \/ \E g \in Sigs, slot \in {0} \cup Slots : Arrive(s, g, slot)
           \/ Sampled \/ WorkerEnds \/ UNCHANGED vars \/ Done \/ Cancel \/ JoinDeshred \/ JoinAsync \/ Finish
  <2>1. reg' = reg /\ hist' = hist
    BY <1>7 DEF Open, Return, End, Arrive, Sampled, WorkerEnds, vars, threadVars, Done, Cancel,
                JoinDeshred, JoinAsync, Finish
  <2>2. QED
    BY <2>1, LatencyStill
<1>8. ASSUME NEW p \in Shreds, NEW g \in Sigs, Feed(p, g)
      PROVE  LatencyExact'
  <2>1. reg' = reg /\ hist'.first = hist.first /\ hist'.late = hist.late /\ hist'.unplaced = hist.unplaced
        /\ hist'.emitted = hist.emitted
    BY <1>8 DEF Feed, TypesOK, Typed, Histories
  <2>2. QED
    BY <2>1, LatencyStill
<1>9. QED
  BY <1>2, <1>3, <1>4, <1>6, <1>7, <1>8, EmitLatency, FinishLatency DEF Next

LEMMA LatencyInit == Init => LatencyInv
<1> SUFFICES ASSUME Init PROVE LatencyInv
  OBVIOUS
<1>1. /\ DOMAIN hist.first = {} /\ hist.emitted = {} /\ hist.late = {} /\ DOMAIN windows = {}
      /\ DOMAIN reg.events = {} /\ DOMAIN reg.window_latency = {} /\ reg.finalized_floor = 0 /\ reg.high_slot = 0
  BY DEF Init, NewRegistry
<1>2. \A k : RacedThrough(k) = {}
  BY <1>1 DEF RacedThrough, Known
<1>3. \A k : Latency(reg, k).contested = 0
  BY <1>1 DEF Latency
<1>4. LatencyExact
  <2>1. \A k : Cardinality(RacedThrough(k) \cap Gone) = 0
    BY <1>2, FS_EmptySet
  <2>2. QED
    BY <1>1, <1>3, <2>1 DEF LatencyExact
<1>5. 0 <= Floor(reg)
  <2>1. reg \in Registry
    BY TypesInit DEF TypesOK, Typed
  <2>2. Floor(reg) \in Nat
    BY <2>1, FloorIsNat
  <2>3. QED
    BY <2>2
<1>6. QED
  BY <1>1, <1>4, <1>5 DEF LatencyInv, ConnsOK, WindowsOK, WindowsKnow, TipOK, FloorsOK

\* The inductive invariant of the windows' latencies: a window knows of each of its deliveries and closes at a tip none
\* of them is ahead of, open rows are at the floor or above, and until its row is written the registry counts
\* exactly the races of a window that are retired.
THEOREM LatencyInvariant == Spec => [](CompareInv /\ RaceInv /\ LatencyInv)
<1>1. CompareInv /\ RaceInv /\ LatencyInv /\ [Next]_vars => (CompareInv /\ RaceInv /\ LatencyInv)'
  BY CompareStep, RaceStep, ConnsStep, WindowsStep, WindowsKnowStep, TipStep, FloorsStep, LatencyStep
     DEF CompareInv, LatencyInv
<1>2. QED
  BY <1>1, CompareInit, RaceInit, LatencyInit, PTL DEF Spec

\* The row of a window that was not given up early holds all of the window's races, if its source delivered nothing
\* without a slot and nothing that was delivered late: the floor is past the slot the window closed in, so each
\* row of the window's deliveries is retired.
THEOREM WindowRowsComplete == Spec => []LatencyComplete
<1>1. LatencyInv => LatencyComplete
  <2> SUFFICES ASSUME LatencyInv, NEW e \in hist.emitted, ~ e.early,
                      \A g \in hist.late : e.key[1] \notin Known(g), \A x \in hist.unplaced : x[1] # e.key[1]
               PROVE  RacedThrough(e.key) \subseteq Gone /\ e.latency.contested = Cardinality(RacedThrough(e.key))
    BY DEF LatencyComplete
  <2>1. Clean(e.key[1])
    BY DEF Clean
  <2>2. Brought(e.key) \subseteq Gone /\ e.latency.contested = Cardinality(RacedThrough(e.key))
    BY <2>1 DEF LatencyInv, LatencyExact
  <2>3. QED
    BY <2>2, RacedIsBrought
<1>2. QED
  BY <1>1, LatencyInvariant, PTL

-----------------------------------------------------------------------------
(* The on-chain audit blames a source for what it did. *)

\* Slots whose comparison with the chain, if there is one, was made.
Compared(slot) == slot < worker.last_sampled \/ (slot = worker.last_sampled /\ worker.pc # "claimed")

\* What was delivered in time and the audit is to see is in the index until its slot is claimed, and
\* then with the worker.
IndexKeeps ==
    \A s \in Sources, g \in Sigs :
        <<s, g>> \in hist.prompt /\ Indexed(s, g) =>
            /\ SlotOf[g] > worker.last_sampled /\ SlotOf[g] >= Oldest(reg.index.tip) =>
                   /\ SlotOf[g] \in DOMAIN reg.index.slots
                   /\ g \in reg.index.slots[SlotOf[g]][s].sigs
            /\ worker.pc = "claimed" /\ SlotOf[g] = worker.last_sampled => g \in worker.taken[s].sigs

\* What is in the entry of a source and a slot was delivered, and the audit is to see it.
Brings(given, entry, s, slot) ==
    \A g \in entry.sigs : SlotOf[g] = slot /\ Indexed(s, g) /\ <<s, g>> \in given

IndexTrue ==
    /\ \A slot \in DOMAIN reg.index.slots : \A s \in Sources : Brings(DOMAIN hist.first, reg.index.slots[slot][s], s, slot)
    /\ worker.pc = "claimed" => \A s \in Sources : Brings(DOMAIN hist.first, worker.taken[s], s, worker.last_sampled)

\* A claimed slot is due: nothing delivered for it from then on is in time.
ClaimedDue == worker.last_sampled = 0 \/ worker.last_sampled + LagSlots <= reg.index.tip

Missing(s) == {g \in Sigs : g \in Block(SlotOf[g]) /\ <<s, g>> \notin hist.prompt}
MissingBy(s) == {g \in Missing(s) : Compared(SlotOf[g])}

NotOfChain(s) == {g \in Sigs \ OnChain : s \in Known(g)}
NotOfChainBy(s) == {g \in NotOfChain(s) : Compared(SlotOf[g])}

\* The redeliveries in the index and with the worker.
DuplicatesIn(index, s) ==
    [slot \in Slots |-> IF slot \in DOMAIN index.slots THEN index.slots[slot][s].duplicated ELSE 0]
TakenDuplicates(s) == IF worker.pc = "claimed" THEN worker.taken[s].duplicated ELSE 0

\* What a source is charged with is of slots that were compared, and its redeliveries are counted in one place.
MissedDue(s) == audit.sources[s].missed <= Cardinality(MissingBy(s))
CorruptedDue(s) == audit.sources[s].corrupted <= Cardinality(NotOfChainBy(s))
Redelivered(s) == TakenDuplicates(s) + SumFunctionOnSet(DuplicatesIn(reg.index, s), Slots)
DuplicatedDue(s) == audit.sources[s].duplicated + Redelivered(s) <= hist.again[s]

ChargesDue == \A s \in Sources \ Rotating : MissedDue(s) /\ CorruptedDue(s) /\ DuplicatedDue(s)

BlameInv == IndexKeeps /\ IndexTrue /\ ClaimedDue /\ ChargesDue

LEMMA OldestMonotone ==
  ASSUME NEW a \in Nat, NEW b \in Nat, a <= b
  PROVE  Oldest(a) \in Nat /\ Oldest(b) \in Nat /\ Oldest(a) <= Oldest(b)
BY OnchainAuditAssumption DEF Oldest, Monus, Larger

LEMMA EntryTyped ==
  ASSUME NEW x \in Index, NEW t \in DOMAIN x.slots, NEW s \in Sources
  PROVE  /\ t \in Slots /\ x.slots[t] \in [Sources -> SourceSlot] /\ x.slots[t][s] \in SourceSlot
         /\ x.slots[t][s].sigs \subseteq Sigs /\ x.slots[t][s].duplicated \in Nat
<1>1. x.slots \in Partial(Slots, [Sources -> SourceSlot])
  BY DEF Index
<1>2. t \in Slots /\ x.slots[t] \in [Sources -> SourceSlot]
  BY <1>1, PartialFacts
<1>3. x.slots[t][s] \in SourceSlot
  BY <1>2
<1>4. QED
  BY <1>2, <1>3 DEF SourceSlot

LEMMA SlotsFinite == IsFiniteSet(Slots)
<1>1. DOMAIN SlotOf = Sigs /\ SlotOf = [g \in Sigs |-> SlotOf[g]] /\ IsFiniteSet(Sigs)
  BY TxnCompareAssumption, SigRegistryAssumption
<1>2. IsFiniteSet(Range(SlotOf))
  BY <1>1, ImageFinite
<1>3. Slots = Range(SlotOf)
  BY <1>1 DEF Slots, Range
<1>4. QED
  BY <1>2, <1>3

LEMMA DuplicatesTyped ==
  ASSUME NEW x \in Index, NEW s \in Sources
  PROVE  /\ DuplicatesIn(x, s) \in [Slots -> Nat]
         /\ SumFunctionOnSet(DuplicatesIn(x, s), Slots) \in Nat
<1>1. DuplicatesIn(x, s) \in [Slots -> Nat]
  BY EntryTyped DEF DuplicatesIn
<1>2. QED
  BY <1>1, SlotsFinite, SumNat

\* What a delivery changes in the index.
Indexes(q, x, sid, sig, slot) ==
    /\ q \in Index /\ q.tip \in Nat /\ x.tip \in Nat /\ x.tip <= q.tip /\ (q.tip = x.tip \/ q.tip = slot)
    /\ \A t \in DOMAIN x.slots : t >= Oldest(q.tip) =>
           t \in DOMAIN q.slots /\ \A s \in Sources : x.slots[t][s].sigs \subseteq q.slots[t][s].sigs
    /\ slot >= Oldest(q.tip) => slot \in DOMAIN q.slots /\ sig \in q.slots[slot][sid].sigs
    /\ \A t \in DOMAIN q.slots : \A s \in Sources : \A g \in q.slots[t][s].sigs :
           \/ t \in DOMAIN x.slots /\ g \in x.slots[t][s].sigs
           \/ t = slot /\ s = sid /\ g = sig
    /\ \A s \in Sources \ {sid} : \A t \in Slots : DuplicatesIn(q, s)[t] <= DuplicatesIn(x, s)[t]
    /\ \A t \in Slots \ {slot} : DuplicatesIn(q, sid)[t] <= DuplicatesIn(x, sid)[t]
    /\ DuplicatesIn(q, sid)[slot] <= DuplicatesIn(x, sid)[slot] +
           (IF slot \in DOMAIN x.slots /\ sig \in x.slots[slot][sid].sigs THEN 1 ELSE 0)

LEMMA IndexEffect ==
  ASSUME NEW x \in Index, NEW sid \in Sources, NEW sig \in Sigs, NEW slot \in Slots
  PROVE  Indexes(IndexRecord(x, sid, slot, sig), x, sid, sig, slot)
<1> DEFINE q == IndexRecord(x, sid, slot, sig)
           at(s) == EntryOf(x, s)
           new == WithDelivery(at(slot), sid, sig)
<1>1. /\ q \in Index
      /\ q.tip = Larger(x.tip, slot)
      /\ DOMAIN q.slots = Retained(DOMAIN x.slots, Larger(x.tip, slot))
                          \cup (IF slot >= Oldest(Larger(x.tip, slot)) THEN {slot} ELSE {})
      /\ \A s \in DOMAIN q.slots : q.slots[s] = IF s = slot THEN WithDelivery(EntryOf(x, s), sid, sig) ELSE EntryOf(x, s)
  BY IndexRecordTyped
<1> HIDE DEF q
<1>2. x.tip \in Nat /\ slot \in Nat /\ DOMAIN x.slots \subseteq Slots
  <2>1. x.tip \in Nat /\ x.slots \in Partial(Slots, [Sources -> SourceSlot])
    BY DEF Index
  <2>2. QED
    BY <2>1, PartialFacts, SlotFacts
<1>3. q.tip \in Nat /\ x.tip <= q.tip /\ (q.tip = x.tip \/ q.tip = slot)
  <2>1. q.tip = Larger(x.tip, slot)
    BY <1>1
  <2>2. QED
    BY <1>2, <2>1 DEF Larger
<1>4. at(slot) \in [Sources -> SourceSlot]
  <2>1. CASE slot \in DOMAIN x.slots
    BY <2>1, EntryTyped DEF EntryOf
  <2>2. CASE slot \notin DOMAIN x.slots
    BY <2>2 DEF NewSourceSlot, SourceSlot, EntryOf
  <2>3. QED
    BY <2>1, <2>2
<1> DEFINE old == at(slot)
<1>5. /\ \A s \in Sources \ {sid} : new[s] = old[s]
      /\ new[sid].sigs = old[sid].sigs \cup {sig}
      /\ new[sid].duplicated = old[sid].duplicated + (IF sig \in old[sid].sigs THEN 1 ELSE 0)
  <2>1. old \in [Sources -> SourceSlot] /\ new = [old EXCEPT ![sid] = Delivered(old[sid], sig)]
    BY <1>4 DEF WithDelivery
  <2> HIDE DEF old, new
  <2>2. new[sid] = Delivered(old[sid], sig) /\ \A s \in Sources \ {sid} : new[s] = old[s]
    BY <2>1
  <2>3. QED
    BY <2>2 DEF Delivered
<1>6. slot \notin DOMAIN x.slots => \A s \in Sources : old[s].sigs = {} /\ old[s].duplicated = 0
  BY DEF NewSourceSlot, EntryOf
<1>7. slot \in DOMAIN x.slots => old = x.slots[slot]
  BY DEF EntryOf
<1>8. \A t \in DOMAIN q.slots : IF t = slot THEN q.slots[t] = new ELSE t \in DOMAIN x.slots /\ q.slots[t] = x.slots[t]
  BY <1>1 DEF Retained, EntryOf
<1> HIDE DEF old, at, new
<1>9. ASSUME NEW t \in DOMAIN x.slots, t >= Oldest(q.tip)
      PROVE  t \in DOMAIN q.slots /\ \A s \in Sources : x.slots[t][s].sigs \subseteq q.slots[t][s].sigs
  <2>1. t \in DOMAIN q.slots
    BY <1>1, <1>9 DEF Retained
  <2>2. CASE t = slot
    BY <1>5, <1>7, <1>8, <2>1, <2>2
  <2>3. CASE t # slot
    BY <1>8, <2>1, <2>3
  <2>4. QED
    BY <2>1, <2>2, <2>3
<1>10. slot >= Oldest(q.tip) => slot \in DOMAIN q.slots /\ sig \in q.slots[slot][sid].sigs
  BY <1>1, <1>5, <1>8
<1>11. ASSUME NEW t \in DOMAIN q.slots, NEW s \in Sources, NEW g \in q.slots[t][s].sigs
       PROVE  \/ t \in DOMAIN x.slots /\ g \in x.slots[t][s].sigs
              \/ t = slot /\ s = sid /\ g = sig
  <2>1. CASE t = slot
    <3>1. g \in new[s].sigs
      BY <1>8, <1>11, <2>1
    <3>2. CASE slot \in DOMAIN x.slots
      BY <1>5, <1>7, <2>1, <3>1, <3>2
    <3>3. CASE slot \notin DOMAIN x.slots
      BY <1>5, <1>6, <2>1, <3>1, <3>3
    <3>4. QED
      BY <3>2, <3>3
  <2>2. CASE t # slot
    BY <1>8, <1>11, <2>2
  <2>3. QED
    BY <2>1, <2>2
<1> DEFINE dup(y, s) == DuplicatesIn(y, s)
<1>12. ASSUME NEW t \in Slots, NEW s \in Sources
       PROVE  /\ dup(q, s)[t] = IF t \in DOMAIN q.slots THEN q.slots[t][s].duplicated ELSE 0
              /\ dup(x, s)[t] = IF t \in DOMAIN x.slots THEN x.slots[t][s].duplicated ELSE 0
              /\ dup(q, s)[t] \in Nat /\ dup(x, s)[t] \in Nat
  <2>1. dup(q, s) \in [Slots -> Nat] /\ dup(x, s) \in [Slots -> Nat]
    BY <1>1, DuplicatesTyped
  <2>2. dup(q, s)[t] \in Nat /\ dup(x, s)[t] \in Nat
    BY <2>1
  <2>3. QED
    BY <2>2 DEF DuplicatesIn
<1> HIDE DEF dup
<1>13. ASSUME NEW s \in Sources, NEW t \in Slots, t # slot \/ s # sid PROVE dup(q, s)[t] <= dup(x, s)[t]
  <2>1. CASE t \notin DOMAIN q.slots
    BY <1>12, <2>1
  <2>2. CASE t \in DOMAIN q.slots /\ t # slot
    <3>1. t \in DOMAIN x.slots /\ q.slots[t] = x.slots[t]
      BY <1>8, <2>2
    <3>2. dup(q, s)[t] = dup(x, s)[t]
      BY <1>12, <2>2, <3>1
    <3>3. QED
      BY <1>12, <3>2
  <2>3. CASE t \in DOMAIN q.slots /\ t = slot
    <3>1. q.slots[t] = new /\ new[s] = old[s]
      BY <1>5, <1>8, <1>13, <2>3
    <3>2. dup(q, s)[t] = old[s].duplicated
      BY <1>12, <2>3, <3>1
    <3>3. dup(x, s)[t] = old[s].duplicated
      BY <1>6, <1>7, <1>12, <2>3
    <3>4. QED
      BY <1>12, <3>2, <3>3
  <2>4. QED
    BY <2>1, <2>2, <2>3
<1>14. dup(q, sid)[slot] <= dup(x, sid)[slot] +
           (IF slot \in DOMAIN x.slots /\ sig \in x.slots[slot][sid].sigs THEN 1 ELSE 0)
  <2>1. dup(x, sid)[slot] = old[sid].duplicated
    BY <1>6, <1>7, <1>12
  <2>2. (slot \in DOMAIN x.slots /\ sig \in x.slots[slot][sid].sigs) <=> sig \in old[sid].sigs
    BY <1>6, <1>7
  <2>3. CASE slot \in DOMAIN q.slots
    <3>1. dup(q, sid)[slot] = dup(x, sid)[slot] + (IF sig \in old[sid].sigs THEN 1 ELSE 0)
      BY <1>5, <1>8, <1>12, <2>1, <2>3
    <3>2. QED
      BY <1>12, <2>2, <3>1
  <2>4. CASE slot \notin DOMAIN q.slots
    BY <1>12, <2>4
  <2>5. QED
    BY <2>3, <2>4
<1>15. QED
  BY <1>1, <1>2, <1>3, <1>9, <1>10, <1>11, <1>13, <1>14 DEF Indexes, q, dup

LEMMA BlameTypes ==
  ASSUME TypesOK
  PROVE  /\ reg.index \in Index /\ reg.index.tip \in Nat /\ worker \in Worker /\ worker.last_sampled \in Nat
         /\ audit \in Audit /\ \A s \in Sources : audit.sources[s] \in AuditRow
         /\ \A s \in Sources : hist.again[s] \in Nat /\ TakenDuplicates(s) \in Nat
         /\ worker.pc = "claimed" => worker.taken \in Taken /\ \A s \in Sources : worker.taken[s] \in SourceSlot
<1>1. reg.index \in Index /\ worker \in Worker /\ audit \in Audit
  BY DEF TypesOK, Typed, Registry
<1>2. reg.index.tip \in Nat /\ worker.last_sampled \in Nat /\ \A s \in Sources : audit.sources[s] \in AuditRow
  BY <1>1 DEF Index, Worker, Audit
<1>3. \A s \in Sources : hist.again[s] \in Nat
  BY DEF TypesOK, Typed, Histories
<1>4. worker.pc = "claimed" => worker.taken \in Taken /\ \A s \in Sources : worker.taken[s] \in SourceSlot
  BY DEF TypesOK, Threads, Taken
<1>5. \A s \in Sources : TakenDuplicates(s) \in Nat
  BY <1>4 DEF TakenDuplicates, SourceSlot
<1>6. QED
  BY <1>1, <1>2, <1>3, <1>4, <1>5

\* What a source is charged with stays due when more of it was compared.
LEMMA ChargesStay ==
  ASSUME TypesOK, NEW s \in Sources, audit' = audit, MissedDue(s), CorruptedDue(s),
         MissingBy(s) \subseteq MissingBy(s)', NotOfChainBy(s) \subseteq NotOfChainBy(s)'
  PROVE  MissedDue(s)' /\ CorruptedDue(s)'
<1>1. /\ MissingBy(s) \in SUBSET Sigs /\ NotOfChainBy(s) \in SUBSET Sigs
      /\ MissingBy(s)' \in SUBSET Sigs /\ NotOfChainBy(s)' \in SUBSET Sigs
  BY DEF MissingBy, Missing, NotOfChainBy, NotOfChain
<1> DEFINE M == MissingBy(s)
           N == NotOfChainBy(s)
           M1 == MissingBy(s)'
           N1 == NotOfChainBy(s)'
<1>2. M \subseteq M1 /\ N \subseteq N1
  OBVIOUS
<1> HIDE DEF M, N, M1, N1
<1>3. /\ IsFiniteSet(M1) /\ IsFiniteSet(N1)
      /\ Cardinality(M) \in Nat /\ Cardinality(M1) \in Nat /\ Cardinality(N) \in Nat /\ Cardinality(N1) \in Nat
  BY <1>1, SubsetsCounted DEF M, N, M1, N1
<1>4. Cardinality(M) <= Cardinality(M1) /\ Cardinality(N) <= Cardinality(N1)
  BY <1>2, <1>3, FS_Subset
<1>5. audit.sources[s].missed \in Nat /\ audit.sources[s].corrupted \in Nat
  BY BlameTypes DEF AuditRow
<1>6. audit.sources[s].missed <= Cardinality(M) /\ audit.sources[s].corrupted <= Cardinality(N)
  BY DEF MissedDue, CorruptedDue, M, N
<1>7. audit.sources[s].missed <= Cardinality(M1) /\ audit.sources[s].corrupted <= Cardinality(N1)
  BY <1>3, <1>4, <1>5, <1>6
<1>8. QED
  BY <1>7 DEF MissedDue, CorruptedDue, M1, N1

\* A step that leaves the index, the worker's slot and the audit alone.
LEMMA BlameStill ==
  ASSUME BlameInv, reg'.index = reg.index, audit' = audit,
         worker'.last_sampled = worker.last_sampled, worker'.pc = "claimed" <=> worker.pc = "claimed",
         worker.pc = "claimed" => worker'.taken = worker.taken,
         hist'.first = hist.first, hist'.prompt = hist.prompt, hist'.again = hist.again
  PROVE  BlameInv'
<1>1. \A slot : Compared(slot)' <=> Compared(slot)
  BY DEF Compared
<1>2. \A s : MissingBy(s)' = MissingBy(s) /\ NotOfChainBy(s)' = NotOfChainBy(s)
  <2>1. \A g : Known(g)' = Known(g)
    BY DEF Known
  <2>2. \A s : Missing(s)' = Missing(s) /\ NotOfChain(s)' = NotOfChain(s)
    BY <2>1 DEF Missing, NotOfChain
  <2>3. QED
    BY <1>1, <2>2 DEF MissingBy, NotOfChainBy
<1>3. \A s : Redelivered(s)' = Redelivered(s)
  <2>1. \A s : TakenDuplicates(s)' = TakenDuplicates(s)
    BY DEF TakenDuplicates
  <2>2. \A s : DuplicatesIn(reg'.index, s) = DuplicatesIn(reg.index, s)
    OBVIOUS
  <2>3. QED
    BY <2>1, <2>2 DEF Redelivered
<1>4. ChargesDue'
  BY <1>2, <1>3 DEF BlameInv, ChargesDue, MissedDue, CorruptedDue, DuplicatedDue
<1>5. IndexKeeps'
  BY DEF BlameInv, IndexKeeps
<1>6. IndexTrue'
  BY DEF BlameInv, IndexTrue
<1>7. ClaimedDue'
  BY DEF BlameInv, ClaimedDue
<1>8. QED
  BY <1>4, <1>5, <1>6, <1>7 DEF BlameInv

\* What a delivery changes of what the audit's charges are compared with.
Notes(sid, sig, slot) ==
    /\ worker' = worker /\ audit' = audit
    /\ DOMAIN hist'.first = DOMAIN hist.first \cup {<<sid, sig>>}
    /\ hist'.prompt = IF slot # 0 /\ reg.index.tip < slot + LagSlots
                      THEN hist.prompt \cup {<<sid, sig>>} ELSE hist.prompt
    /\ \A s \in Sources : hist'.again[s] = hist.again[s] +
           (IF s = sid /\ <<sid, sig>> \in DOMAIN hist.first THEN 1 ELSE 0)
    /\ IF Indexed(sid, sig) /\ slot # 0 THEN Indexes(reg'.index, reg.index, sid, sig, slot)
       ELSE reg'.index = reg.index

LEMMA RecordNotes ==
  ASSUME TypesOK, NEW sid \in Sources, NEW sig \in Sigs, NEW ns \in Nat,
         NEW slot \in {0, SlotOf[sig]}, NEW conn \in Nat \cup {None}, Record(sid, sig, ns, slot, conn),
         worker' = worker, audit' = audit
  PROVE  Notes(sid, sig, slot)
<1>1. slot \in {0} \cup Slots /\ hist \in Histories /\ reg \in Registry /\ reg.index \in Index
  BY SlotFacts DEF TypesOK, Typed, Registry
<1>2. DOMAIN hist'.first = DOMAIN hist.first \cup {<<sid, sig>>}
  BY <1>1, HistRecorded
<1>3. hist'.prompt = IF slot # 0 /\ reg.index.tip < slot + LagSlots
                     THEN hist.prompt \cup {<<sid, sig>>} ELSE hist.prompt
  BY <1>1 DEF Record, Histories
<1>4. \A s \in Sources : hist'.again[s] = hist.again[s] +
          (IF s = sid /\ <<sid, sig>> \in DOMAIN hist.first THEN 1 ELSE 0)
  BY <1>1, HistRecorded
<1>5. reg' = RecordFirst(reg, sid, sig, ns, slot, conn)
  BY DEF Record
<1>6. reg'.index = IF Indexed(sid, sig) THEN IndexRecord(reg.index, sid, slot, sig) ELSE reg.index
  <2>1. slot \in {0} \cup Slots
    BY <1>1
  <2>2. QED
    BY <1>1, <1>5, <2>1, RecordTyped
<1>7. CASE Indexed(sid, sig) /\ slot # 0
  <2>1. slot \in Slots
    BY <1>1, <1>7
  <2>2. Indexes(IndexRecord(reg.index, sid, slot, sig), reg.index, sid, sig, slot)
    BY <1>1, <2>1, IndexEffect
  <2>3. QED
    BY <1>2, <1>3, <1>4, <1>6, <1>7, <2>2 DEF Notes
<1>8. CASE Indexed(sid, sig) /\ slot = 0
  <2>1. reg'.index = reg.index
    BY <1>6, <1>8 DEF IndexRecord
  <2>2. QED
    BY <1>2, <1>3, <1>4, <1>8, <2>1 DEF Notes
<1>9. CASE ~ Indexed(sid, sig)
  BY <1>2, <1>3, <1>4, <1>6, <1>9 DEF Notes
<1>10. QED
  BY <1>7, <1>8, <1>9

\* The claimed slot is due, so a delivery that is still in time is of a later one.
LEMMA InTime ==
  ASSUME TypesOK, ClaimedDue, NEW slot \in Slots, reg.index.tip < slot + LagSlots
  PROVE  slot > worker.last_sampled /\ ~ Compared(slot)
<1>1. slot \in Nat /\ slot # 0 /\ reg.index.tip \in Nat /\ worker.last_sampled \in Nat /\ LagSlots \in Nat
  BY SlotFacts, BlameTypes, OnchainAuditAssumption
<1>2. slot > worker.last_sampled
  BY <1>1 DEF ClaimedDue
<1>3. QED
  BY <1>1, <1>2 DEF Compared

LEMMA NotesKeeps ==
  ASSUME TypesOK, BlameInv, NEW sid \in Sources, NEW sig \in Sigs, NEW slot \in {0, SlotOf[sig]}, Notes(sid, sig, slot)
  PROVE  IndexKeeps'
<1> DEFINE q == reg'.index
           x == reg.index
<1>1. ASSUME NEW s \in Sources, NEW g \in Sigs, <<s, g>> \in hist.prompt, Indexed(s, g)
      PROVE  /\ SlotOf[g] > worker.last_sampled /\ SlotOf[g] >= Oldest(x.tip) =>
                    SlotOf[g] \in DOMAIN x.slots /\ g \in x.slots[SlotOf[g]][s].sigs
             /\ worker.pc = "claimed" /\ SlotOf[g] = worker.last_sampled => g \in worker.taken[s].sigs
  BY <1>1 DEF BlameInv, IndexKeeps
<1>2. worker' = worker
  BY DEF Notes
<1>3. CASE q = x /\ hist'.prompt = hist.prompt
  BY <1>2, <1>3 DEF BlameInv, IndexKeeps
<1>4. CASE ~ Indexed(sid, sig)
  <2>1. q = x
    BY <1>4 DEF Notes
  <2>2. \A s \in Sources, g \in Sigs : <<s, g>> \in hist'.prompt /\ Indexed(s, g) => <<s, g>> \in hist.prompt
    BY <1>4 DEF Notes
  <2>3. QED
    BY <1>2, <2>1, <2>2 DEF BlameInv, IndexKeeps
<1>5. CASE Indexed(sid, sig) /\ slot # 0
  <2>1. Indexes(q, x, sid, sig, slot) /\ slot \in Slots /\ slot = SlotOf[sig]
    BY <1>5, SlotFacts DEF Notes
  <2>2. x.tip \in Nat /\ q.tip \in Nat /\ x.tip <= q.tip
    BY <2>1 DEF Indexes
  <2>3. Oldest(x.tip) \in Nat /\ Oldest(q.tip) \in Nat /\ Oldest(x.tip) <= Oldest(q.tip)
    BY <2>2, OldestMonotone
  <2>4. \A t \in DOMAIN x.slots : t >= Oldest(q.tip) =>
            t \in DOMAIN q.slots /\ \A s \in Sources : x.slots[t][s].sigs \subseteq q.slots[t][s].sigs
    BY <2>1 DEF Indexes
  <2>5. slot >= Oldest(q.tip) => slot \in DOMAIN q.slots /\ sig \in q.slots[slot][sid].sigs
    BY <2>1 DEF Indexes
  <2>6. hist'.prompt = IF x.tip < slot + LagSlots THEN hist.prompt \cup {<<sid, sig>>} ELSE hist.prompt
    BY <1>5 DEF Notes
  <2>7. ASSUME NEW s \in Sources, NEW g \in Sigs, <<s, g>> \in hist'.prompt, Indexed(s, g)
        PROVE  /\ SlotOf[g] > worker.last_sampled /\ SlotOf[g] >= Oldest(q.tip) =>
                      SlotOf[g] \in DOMAIN q.slots /\ g \in q.slots[SlotOf[g]][s].sigs
               /\ worker.pc = "claimed" /\ SlotOf[g] = worker.last_sampled => g \in worker.taken[s].sigs
    <3>1. SlotOf[g] \in Nat
      BY SlotFacts
    <3>2. CASE <<s, g>> \in hist.prompt
      <4>1. SlotOf[g] >= Oldest(q.tip) => SlotOf[g] >= Oldest(x.tip)
        BY <2>3, <3>1
      <4>2. QED
        BY <1>1, <2>4, <2>7, <3>2, <4>1
    <3>3. CASE <<s, g>> \notin hist.prompt
      <4>1. s = sid /\ g = sig /\ x.tip < slot + LagSlots
        BY <2>6, <2>7, <3>3
      <4>2. slot > worker.last_sampled
        BY <2>1, <4>1, InTime DEF BlameInv
      <4>3. worker.last_sampled \in Nat
        BY BlameTypes
      <4>4. QED
        BY <2>1, <2>5, <3>1, <4>1, <4>2, <4>3
    <3>4. QED
      BY <3>2, <3>3
  <2>8. QED
    BY <1>2, <2>7 DEF IndexKeeps
<1>6. QED
  BY <1>3, <1>4, <1>5 DEF Notes

LEMMA NotesTrue ==
  ASSUME TypesOK, BlameInv, NEW sid \in Sources, NEW sig \in Sigs, NEW slot \in {0, SlotOf[sig]}, Notes(sid, sig, slot)
  PROVE  IndexTrue'
<1> DEFINE q == reg'.index
           x == reg.index
<1>1. worker' = worker /\ <<sid, sig>> \in DOMAIN hist'.first /\ DOMAIN hist.first \subseteq DOMAIN hist'.first
  BY DEF Notes
<1> DEFINE given == DOMAIN hist.first
           given1 == DOMAIN hist'.first
<1>2. \A entry, s, t : Brings(given, entry, s, t) => Brings(given1, entry, s, t)
  BY <1>1 DEF Brings
<1>3. worker.pc = "claimed" => \A s \in Sources : Brings(given1, worker.taken[s], s, worker.last_sampled)
  BY <1>2 DEF BlameInv, IndexTrue
<1>4. ASSUME NEW t \in DOMAIN q.slots, NEW s \in Sources PROVE Brings(given1, q.slots[t][s], s, t)
  <2>1. CASE Indexed(sid, sig) /\ slot # 0
    <3>1. ASSUME NEW g \in q.slots[t][s].sigs
          PROVE  SlotOf[g] = t /\ Indexed(s, g) /\ <<s, g>> \in DOMAIN hist'.first
      <4>1. \/ t \in DOMAIN x.slots /\ g \in x.slots[t][s].sigs
            \/ t = slot /\ s = sid /\ g = sig
        BY <2>1 DEF Notes, Indexes
      <4>2. CASE t \in DOMAIN x.slots /\ g \in x.slots[t][s].sigs
        BY <1>1, <4>2 DEF BlameInv, IndexTrue, Brings
      <4>3. CASE t = slot /\ s = sid /\ g = sig
        BY <1>1, <2>1, <4>3
      <4>4. QED
        BY <4>1, <4>2, <4>3
    <3>2. QED
      BY <3>1 DEF Brings
  <2>2. CASE q = x
    BY <1>2, <2>2 DEF BlameInv, IndexTrue
  <2>3. QED
    BY <2>1, <2>2 DEF Notes
<1>5. QED
  BY <1>1, <1>3, <1>4 DEF IndexTrue

LEMMA NotesCharges ==
  ASSUME TypesOK, TypesOK', BlameInv, NEW sid \in Sources, NEW sig \in Sigs, NEW slot \in {0, SlotOf[sig]},
         Notes(sid, sig, slot)
  PROVE  ChargesDue'
<1> DEFINE q == reg'.index
           x == reg.index
           again == IF <<sid, sig>> \in DOMAIN hist.first THEN 1 ELSE 0
<1>1. worker' = worker /\ audit' = audit /\ DOMAIN hist.first \subseteq DOMAIN hist'.first
  BY DEF Notes
<1>2. \A t : Compared(t)' <=> Compared(t)
  BY <1>1 DEF Compared
<1>3. ASSUME NEW s \in Sources \ Rotating PROVE MissedDue(s)' /\ CorruptedDue(s)'
  <2>1. MissedDue(s) /\ CorruptedDue(s)
    BY DEF BlameInv, ChargesDue
  <2>2. ASSUME NEW g \in MissingBy(s) PROVE <<s, g>> \notin hist'.prompt
    <3>1. g \in Sigs /\ g \in Block(SlotOf[g]) /\ <<s, g>> \notin hist.prompt /\ Compared(SlotOf[g])
      BY DEF MissingBy, Missing
    <3>2. SUFFICES ASSUME <<s, g>> \in hist'.prompt PROVE FALSE
      OBVIOUS
    <3>3. s = sid /\ g = sig /\ slot # 0 /\ reg.index.tip < slot + LagSlots
      BY <3>1, <3>2 DEF Notes
    <3>4. slot \in Slots /\ slot = SlotOf[g]
      BY <3>1, <3>3, SlotFacts
    <3>5. QED
      BY <3>1, <3>3, <3>4, InTime DEF BlameInv
  <2>3. MissingBy(s) \subseteq MissingBy(s)'
    BY <1>2, <2>2 DEF MissingBy, Missing
  <2>4. NotOfChainBy(s) \subseteq NotOfChainBy(s)'
    BY <1>1, <1>2 DEF NotOfChainBy, NotOfChain, Known
  <2>5. QED
    BY <1>1, <2>1, <2>3, <2>4, ChargesStay
<1>4. \A s : TakenDuplicates(s)' = TakenDuplicates(s)
  BY <1>1 DEF TakenDuplicates
<1>5. x \in Index /\ q \in Index
  BY BlameTypes DEF TypesOK, Typed, Registry
<1>6. ASSUME NEW s \in Sources
      PROVE  /\ DuplicatesIn(x, s) \in [Slots -> Nat] /\ DuplicatesIn(q, s) \in [Slots -> Nat]
             /\ SumFunctionOnSet(DuplicatesIn(x, s), Slots) \in Nat
             /\ SumFunctionOnSet(DuplicatesIn(q, s), Slots) \in Nat
  BY <1>5, DuplicatesTyped
<1>7. ASSUME NEW s \in Sources
      PROVE  SumFunctionOnSet(DuplicatesIn(q, s), Slots) <=
                 SumFunctionOnSet(DuplicatesIn(x, s), Slots) + (IF s = sid THEN again ELSE 0)
  <2> DEFINE F == DuplicatesIn(q, s)
             H == DuplicatesIn(x, s)
  <2>1. F \in [Slots -> Nat] /\ H \in [Slots -> Nat] /\ again \in Nat
        /\ SumFunctionOnSet(F, Slots) \in Nat /\ SumFunctionOnSet(H, Slots) \in Nat
    BY <1>6
  <2>2. CASE q = x
    BY <2>1, <2>2
  <2>3. CASE Indexed(sid, sig) /\ slot # 0 /\ s # sid
    <3>1. \A t \in Slots : F[t] <= H[t]
      BY <2>3 DEF Notes, Indexes
    <3> HIDE DEF F, H, again
    <3>2. SumFunctionOnSet(F, Slots) <= SumFunctionOnSet(H, Slots)
      BY <2>1, <3>1, SlotsFinite, SumAtMost
    <3>3. SumFunctionOnSet(F, Slots) <= SumFunctionOnSet(H, Slots) + 0
      BY <2>1, <3>2
    <3>4. QED
      BY <2>3, <3>3 DEF F, H
  <2>4. CASE Indexed(sid, sig) /\ slot # 0 /\ s = sid
    <3>1. slot \in Slots /\ slot = SlotOf[sig] /\ Indexes(q, x, sid, sig, slot)
      BY <2>4, SlotFacts DEF Notes
    <3> DEFINE held == slot \in DOMAIN x.slots /\ sig \in x.slots[slot][sid].sigs
    <3>2. (\A t \in Slots \ {slot} : F[t] <= H[t]) /\ F[slot] <= H[slot] + (IF held THEN 1 ELSE 0)
      BY <2>4, <3>1 DEF Indexes
    <3>3. held => again = 1
      BY DEF BlameInv, IndexTrue, Brings
    <3>4. again \in {0, 1}
      OBVIOUS
    <3>5. F[slot] \in Nat /\ H[slot] \in Nat
      BY <2>1, <3>1
    <3> HIDE DEF F, H, again, held
    <3>6. F[slot] <= H[slot] + again
      BY <3>2, <3>3, <3>4, <3>5
    <3>7. again \in Int
      BY <3>4
    <3>8. SumFunctionOnSet(F, Slots) <= SumFunctionOnSet(H, Slots) + again
      BY <2>1, <3>1, <3>2, <3>6, <3>7, SlotsFinite, SumGrows
    <3>9. QED
      BY <2>4, <3>8 DEF F, H
  <2>5. QED
    BY <2>2, <2>3, <2>4 DEF Notes
<1>8. ASSUME NEW s \in Sources \ Rotating PROVE DuplicatedDue(s)'
  <2> DEFINE old == SumFunctionOnSet(DuplicatesIn(x, s), Slots)
             new == SumFunctionOnSet(DuplicatesIn(q, s), Slots)
             more == IF s = sid THEN again ELSE 0
  <2>1. old \in Nat /\ new \in Nat /\ new <= old + more
    BY <1>6, <1>7
  <2>2. hist'.again[s] = hist.again[s] + more
    BY DEF Notes
  <2>3. audit.sources[s].duplicated + (TakenDuplicates(s) + old) <= hist.again[s]
    BY DEF BlameInv, ChargesDue, DuplicatedDue, Redelivered
  <2>4. audit.sources[s].duplicated \in Nat /\ TakenDuplicates(s) \in Nat /\ hist.again[s] \in Nat /\ more \in Nat
    BY BlameTypes DEF AuditRow
  <2>5. Redelivered(s)' = TakenDuplicates(s) + new
    BY <1>4 DEF Redelivered
  <2> HIDE DEF old, new, more
  <2>6. audit.sources[s].duplicated + (TakenDuplicates(s) + new) <= hist.again[s] + more
    BY <2>1, <2>3, <2>4
  <2>7. QED
    BY <1>1, <2>2, <2>5, <2>6 DEF DuplicatedDue
<1>9. QED
  BY <1>3, <1>8 DEF ChargesDue

LEMMA RecordBlame ==
  ASSUME TypesOK, TypesOK', BlameInv, NEW sid \in Sources, NEW sig \in Sigs, NEW ns \in Nat,
         NEW slot \in {0, SlotOf[sig]}, NEW conn \in Nat \cup {None}, Record(sid, sig, ns, slot, conn),
         worker' = worker, audit' = audit
  PROVE  BlameInv'
<1>1. Notes(sid, sig, slot)
  BY RecordNotes
<1>2. ClaimedDue'
  <2>1. reg.index.tip \in Nat /\ reg'.index.tip \in Nat /\ worker.last_sampled \in Nat /\ LagSlots \in Nat
    BY BlameTypes, OnchainAuditAssumption DEF TypesOK, Typed, Registry, Index
  <2>2. reg'.index.tip >= reg.index.tip
    BY <1>1, <2>1 DEF Notes, Indexes
  <2>3. QED
    BY <1>1, <2>1, <2>2 DEF BlameInv, ClaimedDue, Notes
<1>3. QED
  BY <1>1, <1>2, NotesKeeps, NotesTrue, NotesCharges DEF BlameInv

\* What the worker does to the index: it takes the slot, or finds nothing of it.
Takes(slot) ==
    /\ slot \in Nat /\ slot > worker.last_sampled /\ slot + LagSlots <= reg.index.tip /\ slot >= Oldest(reg.index.tip)
    /\ worker.pc # "claimed" /\ worker'.last_sampled = slot /\ audit' = audit /\ hist' = hist
    /\ reg'.index.tip = reg.index.tip
    /\ DOMAIN reg'.index.slots = DOMAIN reg.index.slots \ {slot}
    /\ \A t \in DOMAIN reg'.index.slots : reg'.index.slots[t] = reg.index.slots[t]
    /\ worker'.pc = "claimed" => slot \in DOMAIN reg.index.slots /\ worker'.taken = reg.index.slots[slot]

LEMMA ClaimTakes ==
  ASSUME TypesOK, Claim
  PROVE  Takes(Target)
<1> DEFINE tip == reg.index.tip
<1>1. reg \in Registry /\ reg.index \in Index /\ tip \in Nat /\ worker \in Worker /\ worker.last_sampled \in Nat
  BY BlameTypes DEF TypesOK, Typed
<1>2. LagSlots \in Nat /\ RETAIN_MARGIN_SLOTS \in Nat
  BY OnchainAuditAssumption
<1>3. /\ Target \in Nat /\ Target > worker.last_sampled
      /\ Target + LagSlots <= tip /\ Target >= Oldest(tip)
  <2>1. Target # 0 /\ Target > worker.last_sampled /\ Target = Monus(tip, LagSlots)
    BY DEF Claim, Claims, Target
  <2> HIDE DEF tip
  <2>2. QED
    BY <1>1, <1>2, <2>1 DEF Monus, Larger, Oldest
<1>4. worker.pc # "claimed" /\ audit' = audit /\ hist' = hist
  BY DEF Claim
<1>5. CASE Target \in DOMAIN reg.index.slots
  <2>1. reg' = WithoutSlot(reg, Target)
    BY <1>5 DEF Claim
  <2>2. reg'.index = IndexWithout(reg.index, Target)
    BY <1>1, <2>1, WithoutSlotTyped
  <2>3. /\ reg'.index.tip = tip
        /\ reg'.index.slots = [t \in DOMAIN reg.index.slots \ {Target} |-> reg.index.slots[t]]
    BY <1>1, <2>2, IndexWithoutTyped
  <2>4. worker'.last_sampled = Target /\ (worker'.pc = "claimed" => worker'.taken = reg.index.slots[Target])
    BY <1>1, <1>4, <1>5 DEF Claim, Worker
  <2>5. QED
    BY <1>3, <1>4, <1>5, <2>3, <2>4 DEF Takes
<1>6. CASE Target \notin DOMAIN reg.index.slots
  <2>1. worker' = [worker EXCEPT !.last_sampled = Target] /\ reg' = reg
    BY <1>6 DEF Claim
  <2>2. worker'.last_sampled = Target /\ worker'.pc # "claimed"
    BY <1>1, <1>4, <2>1 DEF Worker
  <2>3. QED
    BY <1>3, <1>4, <1>6, <2>1, <2>2 DEF Takes
<1>7. QED
  BY <1>5, <1>6

LEMMA TakesIndex ==
  ASSUME TypesOK, BlameInv, NEW slot, Takes(slot)
  PROVE  IndexKeeps' /\ IndexTrue' /\ ClaimedDue'
<1> DEFINE q == reg'.index
           x == reg.index
<1>1. worker.last_sampled \in Nat /\ x.tip \in Nat /\ LagSlots \in Nat /\ slot \in Nat /\ \A g \in Sigs : SlotOf[g] \in Nat
  BY BlameTypes, SlotFacts, OnchainAuditAssumption DEF Takes
<1>2. ASSUME NEW s \in Sources, NEW g \in Sigs, <<s, g>> \in hist.prompt, Indexed(s, g),
             SlotOf[g] > worker.last_sampled, SlotOf[g] >= Oldest(x.tip)
      PROVE  SlotOf[g] \in DOMAIN x.slots /\ g \in x.slots[SlotOf[g]][s].sigs
  BY <1>2 DEF BlameInv, IndexKeeps
<1>3. IndexKeeps'
  <2>1. ASSUME NEW s \in Sources, NEW g \in Sigs, <<s, g>> \in hist.prompt, Indexed(s, g)
        PROVE  /\ SlotOf[g] > slot /\ SlotOf[g] >= Oldest(x.tip) =>
                      SlotOf[g] \in DOMAIN q.slots /\ g \in q.slots[SlotOf[g]][s].sigs
               /\ worker'.pc = "claimed" /\ SlotOf[g] = slot => g \in worker'.taken[s].sigs
    <3>1. ASSUME SlotOf[g] > slot, SlotOf[g] >= Oldest(x.tip)
          PROVE  SlotOf[g] \in DOMAIN q.slots /\ g \in q.slots[SlotOf[g]][s].sigs
      <4>1. SlotOf[g] > worker.last_sampled /\ SlotOf[g] # slot
        BY <1>1, <3>1 DEF Takes
      <4>2. SlotOf[g] \in DOMAIN x.slots /\ g \in x.slots[SlotOf[g]][s].sigs
        BY <1>2, <2>1, <3>1, <4>1
      <4>3. QED
        BY <4>1, <4>2 DEF Takes
    <3>2. ASSUME worker'.pc = "claimed", SlotOf[g] = slot
          PROVE  g \in worker'.taken[s].sigs
      <4>1. SlotOf[g] > worker.last_sampled /\ SlotOf[g] >= Oldest(x.tip) /\ worker'.taken = x.slots[slot]
        BY <3>2 DEF Takes
      <4>2. QED
        BY <1>2, <2>1, <3>2, <4>1
    <3>3. QED
      BY <3>1, <3>2
  <2>2. QED
    BY <2>1 DEF IndexKeeps, Takes
<1>4. IndexTrue'
  <2>1. \A t \in DOMAIN x.slots : \A s \in Sources : Brings(DOMAIN hist.first, x.slots[t][s], s, t)
    BY DEF BlameInv, IndexTrue
  <2>2. \A t \in DOMAIN q.slots : \A s \in Sources : Brings(DOMAIN hist'.first, q.slots[t][s], s, t)
    BY <2>1 DEF Takes
  <2>3. worker'.pc = "claimed" => \A s \in Sources : Brings(DOMAIN hist'.first, worker'.taken[s], s, worker'.last_sampled)
    BY <2>1 DEF Takes
  <2>4. QED
    BY <2>2, <2>3 DEF IndexTrue
<1>5. ClaimedDue'
  BY DEF Takes, ClaimedDue
<1>6. QED
  BY <1>3, <1>4, <1>5

LEMMA TakesCharges ==
  ASSUME TypesOK, TypesOK', BlameInv, NEW slot, Takes(slot)
  PROVE  ChargesDue'
<1> DEFINE q == reg'.index
           x == reg.index
<1>1. worker.last_sampled \in Nat /\ slot \in Nat /\ \A g \in Sigs : SlotOf[g] \in Nat
  BY BlameTypes, SlotFacts DEF Takes
<1>2. \A g \in Sigs : Compared(SlotOf[g]) => Compared(SlotOf[g])'
  BY <1>1 DEF Takes, Compared
<1>3. ASSUME NEW s \in Sources \ Rotating PROVE MissedDue(s)' /\ CorruptedDue(s)'
  <2>1. MissedDue(s) /\ CorruptedDue(s) /\ audit' = audit
    BY DEF BlameInv, ChargesDue, Takes
  <2>2. MissingBy(s) \subseteq MissingBy(s)' /\ NotOfChainBy(s) \subseteq NotOfChainBy(s)'
    BY <1>2 DEF Takes, MissingBy, Missing, NotOfChainBy, NotOfChain, Known
  <2>3. QED
    BY <2>1, <2>2, ChargesStay
<1>4. x \in Index /\ q \in Index
  BY BlameTypes DEF TypesOK, Typed, Registry
<1>5. ASSUME NEW s \in Sources PROVE Redelivered(s)' <= Redelivered(s) /\ Redelivered(s) \in Nat /\ Redelivered(s)' \in Nat
  <2> DEFINE F == DuplicatesIn(q, s)
             H == DuplicatesIn(x, s)
             old == SumFunctionOnSet(H, Slots)
             new == SumFunctionOnSet(F, Slots)
             with == TakenDuplicates(s)'
  <2>1. F \in [Slots -> Nat] /\ H \in [Slots -> Nat] /\ old \in Nat /\ new \in Nat
    BY <1>4, DuplicatesTyped
  <2>2. with \in Nat /\ TakenDuplicates(s) = 0
    <3>1. TakenDuplicates(s) = 0
      BY DEF Takes, TakenDuplicates
    <3>2. worker'.pc = "claimed" => worker'.taken \in Taken
      BY DEF TypesOK, Threads
    <3>3. QED
      BY <3>1, <3>2 DEF TakenDuplicates, Taken, SourceSlot
  <2>3. \A t \in Slots : t # slot => F[t] = H[t]
    BY DEF DuplicatesIn, Takes
  <2>4. slot \in Slots => F[slot] = 0
    BY DEF DuplicatesIn, Takes
  <2>5. worker'.pc = "claimed" => slot \in Slots /\ H[slot] = with
    BY <1>4, EntryTyped DEF DuplicatesIn, Takes, TakenDuplicates
  <2>6. worker'.pc # "claimed" => with = 0
    BY DEF TakenDuplicates
  <2>7. Redelivered(s)' = with + new /\ Redelivered(s) = TakenDuplicates(s) + old
    BY DEF Redelivered
  <2> HIDE DEF F, H, with
  <2>8. with + new <= old
    <3>1. CASE worker'.pc = "claimed"
      <4>1. slot \in Slots /\ F[slot] <= H[slot] + (0 - with) /\ 0 - with \in Int
        BY <2>2, <2>4, <2>5, <3>1
      <4>2. \A t \in Slots \ {slot} : F[t] <= H[t]
        <5>1. \A t \in Slots : H[t] \in Nat
          BY <2>1
        <5>2. QED
          BY <2>3, <5>1
      <4>3. new <= old + (0 - with)
        BY <2>1, <4>1, <4>2, SlotsFinite, SumGrows
      <4> HIDE DEF old, new
      <4>4. QED
        BY <2>1, <2>2, <4>3
    <3>2. CASE worker'.pc # "claimed"
      <4>1. \A t \in Slots : F[t] <= H[t]
        <5>1. \A t \in Slots : H[t] \in Nat
          BY <2>1
        <5>2. QED
          BY <2>3, <2>4, <5>1
      <4>2. new <= old
        BY <2>1, <4>1, SlotsFinite, SumAtMost
      <4> HIDE DEF old, new
      <4>3. QED
        BY <2>1, <2>6, <3>2, <4>2
    <3>3. QED
      BY <3>1, <3>2
  <2> HIDE DEF old, new
  <2>9. QED
    BY <2>1, <2>2, <2>7, <2>8
<1>6. ASSUME NEW s \in Sources \ Rotating PROVE DuplicatedDue(s)'
  <2>1. audit.sources[s].duplicated + Redelivered(s) <= hist.again[s]
    BY DEF BlameInv, ChargesDue, DuplicatedDue
  <2>2. audit.sources[s].duplicated \in Nat /\ hist.again[s] \in Nat
    BY BlameTypes DEF AuditRow
  <2> DEFINE old == Redelivered(s)
             new == Redelivered(s)'
  <2>3. new <= old /\ old \in Nat /\ new \in Nat
    BY <1>5
  <2> HIDE DEF old, new
  <2>4. audit.sources[s].duplicated + new <= hist.again[s]
    BY <2>1, <2>2, <2>3 DEF old
  <2>5. audit' = audit /\ hist' = hist
    BY DEF Takes
  <2>6. QED
    BY <2>4, <2>5 DEF DuplicatedDue, new
<1>7. QED
  BY <1>3, <1>6 DEF ChargesDue

LEMMA ClaimBlame ==
  ASSUME TypesOK, TypesOK', BlameInv, Claim
  PROVE  BlameInv'
BY ClaimTakes, TakesIndex, TakesCharges DEF BlameInv

\* What a comparison charges a source with was not charged before: it is of the claimed slot.
LEMMA ComparedDue ==
  ASSUME TypesOK, BlameInv, worker.pc = "claimed", NEW s \in Sources \ Rotating
  PROVE  LET L == worker.last_sampled
             taken == worker.taken[s].sigs
         IN  /\ audit.sources[s].missed + Cardinality(Block(L) \ taken) <=
                    Cardinality({g \in Missing(s) : SlotOf[g] <= L})
             /\ audit.sources[s].corrupted + Cardinality(taken \ Block(L)) <=
                    Cardinality({g \in NotOfChain(s) : SlotOf[g] <= L})
<1> DEFINE L == worker.last_sampled
           taken == worker.taken[s].sigs
           MissedNow == Block(L) \ taken
           CorruptedNow == taken \ Block(L)
           M == MissingBy(s)
           N == NotOfChainBy(s)
           M1 == {g \in Missing(s) : SlotOf[g] <= L}
           N1 == {g \in NotOfChain(s) : SlotOf[g] <= L}
<1>1. L \in Nat /\ taken \subseteq Sigs /\ Block(L) \subseteq Sigs
  BY BlameTypes, BlockTyped DEF SourceSlot
<1>2. \A g \in Sigs : SlotOf[g] \in Nat /\ (Compared(SlotOf[g]) <=> SlotOf[g] < L)
  BY <1>1, SlotFacts DEF Compared
<1>3. MissedNow \subseteq M1
  <2>1. ASSUME NEW g \in MissedNow PROVE g \in M1
    <3>1. g \in OnChain /\ SlotOf[g] = L /\ ~(OmitsVotes /\ g \in Votes) /\ g \notin taken /\ g \in Sigs
      BY <1>1 DEF Block
    <3>2. Indexed(s, g)
      BY <3>1 DEF Indexed
    <3>3. <<s, g>> \notin hist.prompt
      BY <3>1, <3>2 DEF BlameInv, IndexKeeps
    <3>4. QED
      BY <1>1, <3>1, <3>3 DEF Missing
  <2>2. QED
    BY <2>1
<1>4. CorruptedNow \subseteq N1
  <2>1. ASSUME NEW g \in CorruptedNow PROVE g \in N1
    <3>1. g \in Sigs /\ g \in taken /\ g \notin Block(L)
      BY <1>1
    <3>2. SlotOf[g] = L /\ Indexed(s, g) /\ <<s, g>> \in DOMAIN hist.first
      BY <3>1 DEF BlameInv, IndexTrue, Brings
    <3>3. g \notin OnChain
      BY <3>1, <3>2 DEF Block, Indexed
    <3>4. QED
      BY <1>1, <3>1, <3>2, <3>3 DEF NotOfChain, Known
  <2>2. QED
    BY <2>1
<1>5. M \subseteq M1 /\ M \cap MissedNow = {} /\ N \subseteq N1 /\ N \cap CorruptedNow = {}
  <2>1. \A g \in M : g \in Missing(s) /\ g \in Sigs /\ SlotOf[g] < L
    BY <1>2 DEF MissingBy, Missing
  <2>2. \A g \in N : g \in NotOfChain(s) /\ g \in Sigs /\ SlotOf[g] < L
    BY <1>2 DEF NotOfChainBy, NotOfChain
  <2>3. (\A g \in MissedNow : g \in Sigs /\ SlotOf[g] = L) /\ (\A g \in CorruptedNow : g \in Sigs /\ SlotOf[g] = L)
    <3>1. \A g \in CorruptedNow : SlotOf[g] = L
      BY DEF BlameInv, IndexTrue, Brings
    <3>2. QED
      BY <1>1, <3>1 DEF Block
  <2> HIDE DEF M, N, MissedNow, CorruptedNow, L
  <2>4. \A g \in Sigs : SlotOf[g] < L => SlotOf[g] <= L /\ SlotOf[g] # L
    BY <1>1, <1>2
  <2>5. QED
    BY <2>1, <2>2, <2>3, <2>4
<1>6. M1 \in SUBSET Sigs /\ N1 \in SUBSET Sigs
  BY DEF Missing, NotOfChain
<1>7. audit.sources[s].missed <= Cardinality(M) /\ audit.sources[s].corrupted <= Cardinality(N)
  BY DEF BlameInv, ChargesDue, MissedDue, CorruptedDue
<1>8. audit.sources[s].missed \in Nat /\ audit.sources[s].corrupted \in Nat
  BY BlameTypes DEF AuditRow
<1> HIDE DEF M, N, M1, N1, MissedNow, CorruptedNow
<1>9. /\ IsFiniteSet(M) /\ IsFiniteSet(N) /\ IsFiniteSet(M1) /\ IsFiniteSet(N1)
      /\ IsFiniteSet(MissedNow) /\ IsFiniteSet(CorruptedNow)
  <2>1. M \in SUBSET Sigs /\ N \in SUBSET Sigs /\ MissedNow \in SUBSET Sigs /\ CorruptedNow \in SUBSET Sigs
    BY <1>3, <1>4, <1>5, <1>6
  <2>2. QED
    BY <1>6, <2>1, SubsetsCounted
<1>10. ASSUME NEW A, NEW B, NEW C, IsFiniteSet(A), IsFiniteSet(B), IsFiniteSet(C), A \subseteq C, B \subseteq C, A \cap B = {}
       PROVE  /\ Cardinality(A) \in Nat /\ Cardinality(B) \in Nat /\ Cardinality(C) \in Nat
              /\ Cardinality(A) + Cardinality(B) <= Cardinality(C)
  <2>1. Cardinality(A \cup B) = Cardinality(A) + Cardinality(B)
    BY <1>10, DisjointSize
  <2>2. Cardinality(A \cup B) <= Cardinality(C)
    <3>1. A \cup B \subseteq C
      BY <1>10
    <3>2. QED
      BY <1>10, <3>1, FS_Subset
  <2>3. QED
    BY <1>10, <2>1, <2>2, FS_CardinalityType
<1>11. /\ Cardinality(M) + Cardinality(MissedNow) <= Cardinality(M1)
       /\ Cardinality(M) \in Nat /\ Cardinality(MissedNow) \in Nat /\ Cardinality(M1) \in Nat
  BY <1>3, <1>5, <1>9, <1>10
<1>12. /\ Cardinality(N) + Cardinality(CorruptedNow) <= Cardinality(N1)
       /\ Cardinality(N) \in Nat /\ Cardinality(CorruptedNow) \in Nat /\ Cardinality(N1) \in Nat
  BY <1>4, <1>5, <1>9, <1>10
<1>13. audit.sources[s].missed + Cardinality(MissedNow) <= Cardinality(M1)
  BY <1>7, <1>8, <1>11
<1>14. audit.sources[s].corrupted + Cardinality(CorruptedNow) <= Cardinality(N1)
  BY <1>7, <1>8, <1>12
<1>15. QED
  BY <1>13, <1>14 DEF M1, N1, MissedNow, CorruptedNow

LEMMA SampledCharges ==
  ASSUME TypesOK, BlameInv, Sampled
  PROVE  ChargesDue'
<1> DEFINE L == worker.last_sampled
           block == Block(L)
<1>1. /\ worker.pc = "claimed" /\ worker.taken \in Taken /\ worker \in Worker /\ audit \in Audit /\ L \in Nat
      /\ block \in SUBSET Sigs /\ reg' = reg /\ hist' = hist
  BY BlameTypes, BlockTyped DEF Sampled
<1>2. worker'.pc = "waiting" /\ worker'.last_sampled = L
  BY <1>1 DEF Sampled, Worker
<1>3. \A g \in Sigs : SlotOf[g] \in Nat /\ (Compared(SlotOf[g])' <=> SlotOf[g] <= L)
  BY <1>1, <1>2, SlotFacts DEF Compared
<1>4. ASSUME NEW s \in Sources \ Rotating
      PROVE  MissingBy(s)' = {g \in Missing(s) : SlotOf[g] <= L} /\ NotOfChainBy(s)' = {g \in NotOfChain(s) : SlotOf[g] <= L}
  <2>1. Missing(s)' = Missing(s) /\ NotOfChain(s)' = NotOfChain(s) /\ Missing(s) \subseteq Sigs /\ NotOfChain(s) \subseteq Sigs
    BY <1>1 DEF Missing, NotOfChain, Known
  <2>2. MissingBy(s)' = {g \in Missing(s)' : Compared(SlotOf[g])'} /\ NotOfChainBy(s)' = {g \in NotOfChain(s)' : Compared(SlotOf[g])'}
    BY DEF MissingBy, NotOfChainBy
  <2>3. QED
    BY <1>3, <2>1, <2>2
<1>5. ASSUME NEW s \in Sources
      PROVE  /\ Redelivered(s) = worker.taken[s].duplicated + Redelivered(s)' /\ Redelivered(s)' \in Nat
             /\ worker.taken[s].duplicated \in Nat /\ worker.taken[s].sigs \subseteq Sigs
  <2>1. TakenDuplicates(s) = worker.taken[s].duplicated /\ TakenDuplicates(s)' = 0
    BY <1>1, <1>2 DEF TakenDuplicates
  <2>2. SumFunctionOnSet(DuplicatesIn(reg.index, s), Slots) \in Nat
    BY BlameTypes, DuplicatesTyped
  <2>3. worker.taken[s].duplicated \in Nat /\ worker.taken[s].sigs \subseteq Sigs
    BY <1>1, BlameTypes DEF SourceSlot
  <2>4. DuplicatesIn(reg.index, s)' = DuplicatesIn(reg.index, s)
    BY <1>1 DEF DuplicatesIn
  <2>5. QED
    BY <2>1, <2>2, <2>3, <2>4 DEF Redelivered
<1>6. ASSUME NEW s \in Sources \ Rotating
      PROVE  /\ audit'.sources[s].missed \in {audit.sources[s].missed, audit.sources[s].missed + Cardinality(block \ worker.taken[s].sigs)}
             /\ audit'.sources[s].corrupted \in {audit.sources[s].corrupted, audit.sources[s].corrupted + Cardinality(worker.taken[s].sigs \ block)}
             /\ audit'.sources[s].duplicated \in {audit.sources[s].duplicated, audit.sources[s].duplicated + worker.taken[s].duplicated}
  <2>1. CASE audit' = audit
    BY <2>1
  <2>2. CASE audit' = CompareSlot(audit, worker.taken, block) /\ IsEmpty(worker.taken[s])
    BY <1>1, <2>2, ComparedTyped
  <2>3. CASE audit' = CompareSlot(audit, worker.taken, block) /\ ~ IsEmpty(worker.taken[s])
    <3>1. audit'.sources[s] = Scored(audit.sources[s], worker.taken[s], block)
      BY <1>1, <2>3, ComparedTyped
    <3>2. QED
      BY <3>1 DEF Scored
  <2>4. QED
    BY <2>1, <2>2, <2>3 DEF Sampled
<1>7. ASSUME NEW s \in Sources \ Rotating
      PROVE  /\ audit'.sources[s].missed <= Cardinality(MissingBy(s)')
             /\ audit'.sources[s].corrupted <= Cardinality(NotOfChainBy(s)')
             /\ audit'.sources[s].duplicated + Redelivered(s)' <= hist'.again[s]
  <2> DEFINE a == audit.sources[s]
             b == audit'.sources[s]
             missed == Cardinality(block \ worker.taken[s].sigs)
             corrupted == Cardinality(worker.taken[s].sigs \ block)
             m == Cardinality(MissingBy(s)')
             n == Cardinality(NotOfChainBy(s)')
  <2>1. a.missed + missed <= m /\ a.corrupted + corrupted <= n
    BY <1>1, <1>4, ComparedDue
  <2>2. missed \in Nat /\ corrupted \in Nat
    <3>1. block \ worker.taken[s].sigs \in SUBSET Sigs /\ worker.taken[s].sigs \ block \in SUBSET Sigs
      BY <1>1, <1>5
    <3>2. QED
      BY <3>1, SubsetsCounted
  <2>3. m \in Nat /\ n \in Nat
    <3>1. MissingBy(s)' \in SUBSET Sigs /\ NotOfChainBy(s)' \in SUBSET Sigs
      BY DEF MissingBy, Missing, NotOfChainBy, NotOfChain
    <3>2. QED
      BY <3>1, SubsetsCounted
  <2>4. a.missed \in Nat /\ a.corrupted \in Nat /\ a.duplicated \in Nat /\ hist.again[s] \in Nat
    BY BlameTypes DEF AuditRow
  <2>5. /\ b.missed \in {a.missed, a.missed + missed} /\ b.corrupted \in {a.corrupted, a.corrupted + corrupted}
        /\ b.duplicated \in {a.duplicated, a.duplicated + worker.taken[s].duplicated}
    BY <1>6
  <2>6. a.duplicated + Redelivered(s) <= hist.again[s] /\ hist'.again[s] = hist.again[s]
    BY <1>1 DEF BlameInv, ChargesDue, DuplicatedDue
  <2> DEFINE left == Redelivered(s)'
  <2>7. Redelivered(s) = worker.taken[s].duplicated + left /\ left \in Nat /\ worker.taken[s].duplicated \in Nat
    BY <1>5
  <2> HIDE DEF a, b, missed, corrupted, m, n, left, block
  <2>8. b.missed <= m /\ b.corrupted <= n
    BY <2>1, <2>2, <2>3, <2>4, <2>5
  <2>9. b.duplicated + left <= hist.again[s]
    BY <2>4, <2>5, <2>6, <2>7
  <2>10. QED
    BY <2>6, <2>8, <2>9 DEF b, m, n, left
<1>8. QED
  BY <1>7 DEF ChargesDue, MissedDue, CorruptedDue, DuplicatedDue

LEMMA SampledBlame ==
  ASSUME TypesOK, BlameInv, Sampled
  PROVE  BlameInv'
<1>1. reg' = reg /\ hist' = hist /\ worker'.pc # "claimed" /\ worker'.last_sampled = worker.last_sampled
  BY BlameTypes DEF Sampled, Worker
<1>2. IndexKeeps' /\ IndexTrue' /\ ClaimedDue'
  BY <1>1 DEF BlameInv, IndexKeeps, IndexTrue, ClaimedDue
<1>3. QED
  BY <1>2, SampledCharges DEF BlameInv

LEMMA BlameStep ==
  ASSUME TypesOK, TypesOK', BlameInv, [Next]_vars
  PROVE  BlameInv'
<1>1. reg \in Registry /\ worker \in Worker
  BY DEF TypesOK, Typed
<1>2. CASE DeshredStep
  <2>1. PICK sid \in Shreds, sig \in Sigs, ns \in Nat : Record(sid, sig, ns, SlotOf[sig], None)
    BY <1>2, DeshredRecords
  <2>2. sid \in Sources /\ worker' = worker /\ audit' = audit
    BY <1>2, SourceFacts DEF DeshredStep
  <2>3. QED
    BY <2>1, <2>2, RecordBlame
<1>3. ASSUME NEW s \in Grpc, Deliver(s)
      PROVE  BlameInv'
  <2>1. PICK sig \in Sigs, ns \in Nat, slot \in {0} \cup Slots :
            slot \in {0, SlotOf[sig]} /\ Record(s, sig, ns, slot, task[s].conn)
    BY <1>3, DeliverRecords
  <2>2. s \in Sources /\ task[s].conn \in Nat /\ worker' = worker /\ audit' = audit
    BY <1>3, SourceFacts, TaskFacts DEF Deliver
  <2>3. QED
    BY <2>1, <2>2, RecordBlame
<1>4. ASSUME reg'.index = reg.index, UNCHANGED <<worker, audit, hist>>
      PROVE  BlameInv'
  BY <1>4, BlameStill
<1>5. CASE \E k \in DOMAIN windows : EmitWindow(k)
  <2>1. PICK k \in DOMAIN windows : EmitWindow(k)
    BY <1>5
  <2>2. reg'.index = reg.index
    BY <1>1, <2>1, WithoutLatencyTyped DEF EmitWindow
  <2>3. hist'.first = hist.first /\ hist'.prompt = hist.prompt /\ hist'.again = hist.again
    BY <2>1 DEF EmitWindow, TypesOK, Typed, Histories
  <2>4. worker' = worker /\ audit' = audit
    BY <2>1 DEF EmitWindow
  <2>5. QED
    BY <2>2, <2>3, <2>4, BlameStill
<1>6. CASE FinishFilterAudit
  <2> DEFINE q == Finalize(reg, TRUE)
  <2>1. q \in Registry /\ q.index = reg.index
    BY <1>1, FinalizeTyped
  <2>2. reg' = reg \/ reg' = WithoutLatency(q, DOMAIN windows)
    BY <1>6 DEF FinishFilterAudit
  <2> HIDE DEF q
  <2>3. reg'.index = reg.index
    <3>1. CASE reg' = reg
      BY <3>1
    <3>2. CASE reg' = WithoutLatency(q, DOMAIN windows)
      <4>1. reg'.index = q.index
        BY <2>1, <3>2, WithoutLatencyTyped
      <4>2. QED
        BY <2>1, <4>1
    <3>3. QED
      BY <2>2, <3>1, <3>2
  <2>4. hist'.first = hist.first /\ hist'.prompt = hist.prompt /\ hist'.again = hist.again
    BY <1>6 DEF FinishFilterAudit, TypesOK, Typed, Histories
  <2>5. worker' = worker /\ audit' = audit
    BY <1>6 DEF FinishFilterAudit
  <2>6. QED
    BY <2>3, <2>4, <2>5, BlameStill
<1>7. ASSUME NEW force \in BOOLEAN, Write(Finalize(reg, force)), UNCHANGED <<worker, audit, hist>>
      PROVE  BlameInv'
  <2> DEFINE q == Finalize(reg, force)
  <2>1. q \in Registry /\ q.index = reg.index
    BY <1>1, FinalizeTyped
  <2>2. reg' = WithoutRows(q)
    BY <1>7 DEF Write
  <2> HIDE DEF q
  <2>3. reg'.index = reg.index
    BY <2>1, <2>2, WithoutRowsTyped
  <2>4. QED
    BY <1>4, <1>7, <2>3
<1>8. CASE Snapshot \/ FinalSnapshot
  BY <1>7, <1>8 DEF Snapshot, FinalSnapshot
<1>9. CASE WorkerEnds
  <2>1. worker'.last_sampled = worker.last_sampled /\ worker.pc # "claimed" /\ worker'.pc # "claimed"
    BY <1>1, <1>9 DEF WorkerEnds, Worker
  <2>2. reg' = reg /\ audit' = audit /\ hist' = hist
    BY <1>9 DEF WorkerEnds
  <2>3. QED
    BY <2>1, <2>2, BlameStill
<1>10. ASSUME NEW p \in Shreds, NEW g \in Sigs, Feed(p, g)
       PROVE  BlameInv'
  <2>1. hist'.first = hist.first /\ hist'.prompt = hist.prompt /\ hist'.again = hist.again
    BY <1>10 DEF Feed, TypesOK, Typed, Histories
  <2>2. reg' = reg /\ worker' = worker /\ audit' = audit
    BY <1>10 DEF Feed
  <2>3. QED
    BY <2>1, <2>2, BlameStill
<1>11. CASE \/ \E s \in Grpc : Open(s) \/ Return(s) \/ End(s) \/ \E g \in Sigs, slot \in {0} \cup Slots : Arrive(s, g, slot)
            \/ UNCHANGED vars \/ Done \/ Cancel \/ JoinDeshred \/ JoinAsync \/ Finish
  <2>1. reg' = reg /\ UNCHANGED <<worker, audit, hist>>
    BY <1>11 DEF Open, Return, End, Arrive, vars, threadVars, Done, Cancel, JoinDeshred, JoinAsync, Finish
  <2>2. QED
    BY <1>4, <2>1
<1>12. QED
  BY <1>2, <1>3, <1>5, <1>6, <1>8, <1>9, <1>10, <1>11, ClaimBlame, SampledBlame DEF Next

LEMMA BlameInit == Init => BlameInv
<1> SUFFICES ASSUME Init PROVE BlameInv
  OBVIOUS
<1>1. /\ reg.index = [slots |-> [s \in {} |-> {}], tip |-> 0] /\ hist.prompt = {} /\ worker.pc = "waiting"
      /\ worker.last_sampled = 0
  BY DEF Init, NewRegistry, NewIndex
<1>2. \A s \in Sources : audit.sources[s].missed = 0 /\ audit.sources[s].corrupted = 0 /\ audit.sources[s].duplicated = 0
                         /\ hist.again[s] = 0
  BY DEF Init, NewAudit, NewSourceAudit
<1>3. ASSUME NEW s \in Sources PROVE Redelivered(s) = 0
  <2> DEFINE F == DuplicatesIn(reg.index, s)
  <2>1. F = [slot \in Slots |-> 0]
    BY <1>1 DEF DuplicatesIn
  <2>2. F \in [Slots -> Nat]
    BY <2>1
  <2>3. \A x \in Slots : F[x] = 0
    BY <2>1
  <2> HIDE DEF F
  <2>4. SumFunctionOnSet(F, Slots) = 0
    <3>1. Slots \in SUBSET Slots
      OBVIOUS
    <3>2. QED
      BY <2>2, <2>3, <3>1, SlotsFinite, SumNat
  <2>5. QED
    BY <1>1, <2>4 DEF Redelivered, TakenDuplicates, F
<1>4. ASSUME NEW s \in Sources PROVE Cardinality(MissingBy(s)) \in Nat /\ Cardinality(NotOfChainBy(s)) \in Nat
  <2>1. MissingBy(s) \in SUBSET Sigs /\ NotOfChainBy(s) \in SUBSET Sigs
    BY DEF MissingBy, Missing, NotOfChainBy, NotOfChain
  <2>2. QED
    BY <2>1, SubsetsCounted
<1>5. ChargesDue
  BY <1>2, <1>3, <1>4 DEF ChargesDue, MissedDue, CorruptedDue, DuplicatedDue
<1>6. IndexKeeps /\ IndexTrue /\ ClaimedDue
  BY <1>1 DEF IndexKeeps, IndexTrue, ClaimedDue
<1>7. QED
  BY <1>5, <1>6 DEF BlameInv

\* The inductive invariant of the on-chain audit: what arrived in time is in the index, or with the worker that took its
\* slot, and what is there was delivered; a slot is claimed when nothing for it can be in time any more; and a source is
\* charged with slots that were compared only.
THEOREM BlameInvariant == Spec => [](TypesOK /\ BlameInv)
<1>1. TypesOK /\ BlameInv /\ [Next]_vars => (TypesOK /\ BlameInv)'
  BY TypesStep, BlameStep
<1>2. QED
  BY <1>1, TypesInit, BlameInit, PTL DEF Spec

\* The on-chain audit charges a source that is to deliver everything with no more missed transactions than there are on
\* chain that it had not delivered in time, no more corrupted ones than it delivered that are in no block, and no more
\* duplicates than it redelivered.
THEOREM BlamedForWhatItDid == Spec => []OnchainBlameIsDue
<1>1. TypesOK /\ BlameInv => OnchainBlameIsDue
  <2> SUFFICES ASSUME TypesOK, BlameInv, NEW s \in Sources \ Rotating
               PROVE  /\ audit.sources[s].missed <= Cardinality(Missing(s))
                      /\ audit.sources[s].corrupted <= Cardinality(NotOfChain(s))
                      /\ audit.sources[s].duplicated <= hist.again[s]
    BY DEF OnchainBlameIsDue, Missing, NotOfChain
  <2> DEFINE M == MissingBy(s)
             N == NotOfChainBy(s)
             M1 == Missing(s)
             N1 == NotOfChain(s)
  <2>1. M \subseteq M1 /\ N \subseteq N1 /\ M1 \in SUBSET Sigs /\ N1 \in SUBSET Sigs
    BY DEF MissingBy, NotOfChainBy, Missing, NotOfChain
  <2>2. audit.sources[s].missed <= Cardinality(M) /\ audit.sources[s].corrupted <= Cardinality(N)
    BY DEF BlameInv, ChargesDue, MissedDue, CorruptedDue
  <2>3. audit.sources[s].duplicated <= hist.again[s]
    <3>1. audit.sources[s].duplicated + Redelivered(s) <= hist.again[s]
      BY DEF BlameInv, ChargesDue, DuplicatedDue
    <3>2. Redelivered(s) \in Nat
      <4>1. SumFunctionOnSet(DuplicatesIn(reg.index, s), Slots) \in Nat /\ TakenDuplicates(s) \in Nat
        BY BlameTypes, DuplicatesTyped
      <4>2. QED
        BY <4>1 DEF Redelivered
    <3>3. audit.sources[s].duplicated \in Nat /\ hist.again[s] \in Nat
      BY BlameTypes DEF AuditRow
    <3>4. QED
      BY <3>1, <3>2, <3>3
  <2> HIDE DEF M, N, M1, N1
  <2>4. M \in SUBSET Sigs /\ N \in SUBSET Sigs
    BY <2>1
  <2>5. /\ Cardinality(M) \in Nat /\ Cardinality(M1) \in Nat /\ Cardinality(N) \in Nat /\ Cardinality(N1) \in Nat
        /\ IsFiniteSet(M1) /\ IsFiniteSet(N1)
    BY <2>1, <2>4, SubsetsCounted
  <2>6. Cardinality(M) <= Cardinality(M1) /\ Cardinality(N) <= Cardinality(N1)
    BY <2>1, <2>5, FS_Subset
  <2>7. audit.sources[s].missed \in Nat /\ audit.sources[s].corrupted \in Nat
    BY BlameTypes DEF AuditRow
  <2>8. audit.sources[s].missed <= Cardinality(M1) /\ audit.sources[s].corrupted <= Cardinality(N1)
    BY <2>2, <2>5, <2>6, <2>7
  <2>9. QED
    BY <2>3, <2>8 DEF M1, N1
<1>2. QED
  BY <1>1, BlameInvariant, PTL
=============================================================================
