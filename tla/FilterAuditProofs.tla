-------------------------- MODULE FilterAuditProofs -------------------------
(***************************************************************************)
(* Proofs about FilterAudit, for any number of windows, any sampling, any  *)
(* margins that the server keeps up with and any bounds of the checker.    *)
(***************************************************************************)
EXTENDS FilterAudit, IntegerSets

-----------------------------------------------------------------------------
(* The inductive invariant. *)

\* One task is out for a slot of a window.
OnePerSlot ==
    /\ tasks \cap retries = {}
    /\ \A x, y \in tasks \cup retries : x.key = y.key /\ x.slot = y.slot => x = y

\* The slots of a window that are out with the checker.
OutSlots(k) == {x.slot : x \in {y \in tasks \cup retries : y.key = k}}

\* The shape of what TypeOK leaves out.
Shape ==
    /\ source \in [Windows -> [pc : {"none", "connecting", "live", "delivering", "closed"}, slot : Slots]]
    /\ from \in [Windows -> Slots \cup {None}] /\ until \in [Windows -> Slots \cup {None}]
    /\ served \in [Windows -> SUBSET Slots]
    /\ checker \in [pc : {"idle", "checking", "stopped"}, calls : Nat]
    /\ cache \in Seq(Slots)

\* A window is there from the opening of its source to the report, and closed when its source is.
Lifecycle ==
    /\ checker.pc # "checking" => tasks = {}
    /\ \A k \in Windows :
           /\ source[k].pc = "none" => k \notin DOMAIN windows
           /\ source[k].pc \in {"connecting", "live", "delivering"} => k \in DOMAIN windows
           /\ source[k].pc = "closed" <=> until[k] # None
    /\ \A k \in DOMAIN windows :
           /\ windows[k].ended <=> source[k].pc = "closed"
           /\ windows[k].ended <=> windows[k].tip_close # None
           /\ source[k].pc \in {"live", "delivering"} => windows[k].subscribed
           /\ source[k].pc = "connecting" => ~ windows[k].subscribed
    /\ \A x \in tasks \cup retries : source[x.key].pc # "none"
    /\ \A r \in reports : r.key \in Windows /\ source[r.key].pc = "closed" /\ r.key \notin DOMAIN windows

\* A window's cursor.
CursorOK(w) ==
    /\ ~ w.subscribed => w.tip_open = None
    /\ w.first # None => w.tip_open # None
    /\ w.next = None => w.cursor = None
    /\ w.next # None =>
           /\ w.tip_open # None /\ w.cursor # None
           /\ Sampled(w.next) /\ Sampled(w.cursor)
           /\ w.tip_open + START_MARGIN <= w.next
           /\ w.cursor <= w.next /\ w.cursor <= RoundUp(StartSlot(w))

Counted ==
    \A k \in DOMAIN windows :
        LET w == windows[k] IN
        /\ CursorOK(w)
        /\ \A x \in tasks \cup retries : x.key = k => w.next # None /\ x.slot < w.next
        /\ w.in_flight = Cardinality(OutSlots(k))
        /\ w.checked + w.skipped + w.unchecked + w.in_flight = Passed(w)

ReportsOK ==
    /\ \A r \in reports : r.counted = r.passed
    /\ \A r, q \in reports : r.key = q.key => r = q

\* The environment: what a source delivered, and when.
Deliveries ==
    /\ clock >= 1
    /\ \A k \in Windows :
           /\ until[k] # None => until[k] <= clock
           /\ source[k].pc \in {"live", "delivering"} => from[k] # None
           /\ from[k] # None => 1 <= from[k] /\ from[k] <= clock
           /\ source[k].pc \in {"none", "connecting"} => from[k] = None
           /\ \A s \in served[k] : from[k] # None /\ from[k] <= s /\ s <= clock
           /\ source[k].pc = "delivering" =>
                  /\ source[k].slot \in served[k] /\ clock <= source[k].slot + ServerDelay
                  /\ \A s \in served[k] : s <= source[k].slot

InDelivery(k, s) == source[k].pc = "delivering" /\ source[k].slot = s

\* What a window knows of its deliveries.
Kept ==
    \A k \in DOMAIN windows :
        LET w == windows[k] IN
        /\ w.subscribed => from[k] # None
        /\ w.tip_open # None => from[k] # None /\ from[k] < w.tip_open + START_MARGIN
        /\ w.tip_close # None => w.tip_close <= until[k]
        /\ w.first = None => \A s \in served[k] : InDelivery(k, s)
        /\ w.first # None => w.first \in served[k] /\ \A s \in served[k] : w.first <= s
        /\ \A s \in served[k] :
               (/\ ~ InDelivery(k, s) /\ Sampled(s) /\ s >= StartSlot(w)
                /\ w.next = None \/ s >= w.next)
               => s \in w.sampled

\* A slot early in what the window delivered.
Early(k, s) ==
    \E f \in served[k] : (\A q \in served[k] : f <= q) /\ f <= s /\ s < f + START_MARGIN

\* A task's slot was seen whole, and a delivery it does not know of was an early one.
Knows(x) ==
    /\ SeenWhole(x.key, x.slot) /\ x.slot + ServerDelay < clock
    /\ x.slot \in served[x.key] /\ ~ x.delivered => Early(x.key, x.slot)

TasksKnow == \A x \in tasks \cup retries : Knows(x)

FilterInv ==
    /\ TypeOK /\ Shape /\ Lifecycle /\ OnePerSlot /\ Counted /\ ReportsOK
    /\ Deliveries /\ Kept /\ TasksKnow

-----------------------------------------------------------------------------
(* Slots and sampling. *)

LEMMA SlotNumbers ==
  /\ Slots \subseteq Nat /\ Slots \subseteq Int /\ IsFiniteSet(Slots)
  /\ \A S \in SUBSET Slots : IsFiniteSet(S) /\ Cardinality(S) \in Nat
<1>1. MaxSlot \in Int
  BY FilterAuditAssumption
<1>2. Slots \subseteq Nat /\ Slots \subseteq Int /\ IsFiniteSet(Slots)
  BY <1>1, FS_Interval DEF Slots
<1>3. QED
  BY <1>2, FS_Subset, FS_CardinalityType

LEMMA MonusIsNat == ASSUME NEW a \in Int, NEW b \in Int PROVE Monus(a, b) \in Nat
BY DEF Monus, Larger

\* RoundUp(s) is the first sampled slot from s on.
LEMMA RoundedUp ==
  ASSUME NEW s \in Nat
  PROVE  /\ RoundUp(s) \in Nat /\ Sampled(RoundUp(s)) /\ s <= RoundUp(s)
         /\ \A q \in Nat : Sampled(q) /\ s <= q => RoundUp(s) <= q
<1>1. SampleEvery \in Nat \ {0}
  BY FilterAuditAssumption
<1> DEFINE n == (s + SampleEvery - 1) \div SampleEvery
<1>2. n \in Nat /\ n * SampleEvery <= s + SampleEvery - 1
      /\ s + SampleEvery - 1 < n * SampleEvery + SampleEvery
  BY <1>1, Quotient
<1>3. RoundUp(s) = n * SampleEvery /\ n * SampleEvery \in Nat
  BY <1>1, <1>2 DEF RoundUp
<1>4. Sampled(RoundUp(s))
  BY <1>1, <1>2, <1>3, RemainderOfMultiple DEF Sampled
<1>5. ASSUME NEW q \in Nat, Sampled(q), s <= q PROVE n * SampleEvery <= q
  <2> DEFINE m == q \div SampleEvery
  <2>1. m \in Nat /\ q = m * SampleEvery
    BY <1>1, <1>5, Quotient DEF Sampled
  <2> HIDE DEF n, m
  <2>2. n * SampleEvery < m * SampleEvery + SampleEvery
    BY <1>1, <1>2, <1>5, <2>1
  <2>3. (m + 1) * SampleEvery = m * SampleEvery + SampleEvery
    BY <1>1, <2>1
  <2>4. n < m + 1
    BY <1>1, <1>2, <2>1, <2>2, <2>3
  <2>5. n <= m
    BY <1>2, <2>1, <2>4
  <2>6. n * SampleEvery <= m * SampleEvery
    BY <1>1, <1>2, <2>1, <2>5
  <2>7. QED
    BY <2>1, <2>6
<1>6. QED
  BY <1>1, <1>2, <1>3, <1>4, <1>5

LEMMA RoundUpMonotone ==
  ASSUME NEW s \in Nat, NEW q \in Nat, s <= q
  PROVE  RoundUp(s) <= RoundUp(q)
BY RoundedUp

\* The distance between two sampled slots is a number of samples.
LEMMA SampledDistance ==
  ASSUME NEW a \in Nat, NEW b \in Nat, Sampled(a), Sampled(b), a <= b
  PROVE  /\ (b - a) \div SampleEvery \in Nat
         /\ b = a + ((b - a) \div SampleEvery) * SampleEvery
<1>1. SampleEvery \in Nat \ {0}
  BY FilterAuditAssumption
<1> DEFINE m == a \div SampleEvery
           n == b \div SampleEvery
<1>2. m \in Nat /\ n \in Nat /\ a = m * SampleEvery /\ b = n * SampleEvery
  BY <1>1, Quotient DEF Sampled
<1> HIDE DEF m, n
<1>3. m <= n
  BY <1>1, <1>2
<1>4. PICK i \in Nat : n = m + i
  <2>1. n - m \in Nat /\ n = m + (n - m)
    BY <1>2, <1>3
  <2>2. QED
    BY <2>1
<1>5. b - a = i * SampleEvery
  <2>1. (m + i) * SampleEvery = m * SampleEvery + i * SampleEvery
    BY <1>1, <1>2, <1>4
  <2>2. m * SampleEvery \in Nat /\ i * SampleEvery \in Nat
    BY <1>1, <1>2, <1>4
  <2>3. QED
    BY <1>2, <1>4, <2>1, <2>2
<1>6. (b - a) \div SampleEvery = i
  <2>1. (0 + i * SampleEvery) \div SampleEvery = (0 \div SampleEvery) + i
    BY <1>1, <1>4, QuotientOfSum
  <2>2. 0 \div SampleEvery = 0 /\ 0 + i * SampleEvery = i * SampleEvery
    BY <1>1, <1>4
  <2>3. QED
    BY <1>4, <1>5, <2>1, <2>2
<1>7. QED
  BY <1>4, <1>5, <1>6

\* A sampled slot is as many samples later as are added to it.
LEMMA SampledPlus ==
  ASSUME NEW a \in Nat, Sampled(a), NEW n \in Nat
  PROVE  /\ a + n * SampleEvery \in Nat /\ Sampled(a + n * SampleEvery)
         /\ a <= a + n * SampleEvery
<1>1. SampleEvery \in Nat \ {0}
  BY FilterAuditAssumption
<1> DEFINE m == a \div SampleEvery
<1>2. m \in Nat /\ a = m * SampleEvery
  BY <1>1, Quotient DEF Sampled
<1> HIDE DEF m
<1>3. a + n * SampleEvery = (m + n) * SampleEvery /\ n * SampleEvery \in Nat
  BY <1>1, <1>2
<1>4. QED
  BY <1>1, <1>2, <1>3, RemainderOfMultiple DEF Sampled

-----------------------------------------------------------------------------
(* A window's range. *)

LEMMA StartBounds ==
  ASSUME NEW w \in Window, w.tip_open # None
  PROVE  /\ StartSlot(w) \in Nat /\ w.tip_open \in Slots
         /\ w.tip_open + START_MARGIN <= StartSlot(w)
         /\ w.first # None => w.first + START_MARGIN <= StartSlot(w)
         /\ \/ StartSlot(w) = w.tip_open + START_MARGIN
            \/ w.first # None /\ StartSlot(w) = w.first + START_MARGIN
<1>1. START_MARGIN \in Nat /\ w.tip_open \in Nat /\ (w.first # None => w.first \in Nat)
  BY FilterAuditAssumption, SlotNumbers DEF Window
<1>2. CASE w.first = None
  BY <1>1, <1>2 DEF StartSlot, Larger, OrElse, Window
<1>3. CASE w.first # None
  BY <1>1, <1>3 DEF StartSlot, Larger, OrElse, Window
<1>4. QED
  BY <1>2, <1>3

\* A slot that is handed out is END_MARGIN behind the tip and behind the slot of the closing.
LEMMA EndBound ==
  ASSUME NEW w \in Window, NEW t \in Slots, NEW s \in Nat, 1 <= s, s <= EndSlot(w, t)
  PROVE  s + END_MARGIN <= OrElse(w.tip_close, t)
<1> DEFINE x == OrElse(w.tip_close, t)
           end == Monus(x, END_MARGIN + CommitmentLag)
<1>1. x \in Nat /\ END_MARGIN \in Nat /\ CommitmentLag \in Nat /\ w.max \in Nat
  BY FilterAuditAssumption, SlotNumbers DEF OrElse, Window
<1>2. s <= end
  <2>1. end \in Nat /\ Monus(w.max, 1) \in Nat
    BY <1>1 DEF Monus, Larger
  <2>2. EndSlot(w, t) = IF w.first = None THEN end ELSE Smaller(end, Monus(w.max, 1))
    BY DEF EndSlot
  <2>3. QED
    BY <2>1, <2>2 DEF Smaller
<1>3. QED
  BY <1>1, <1>2 DEF Monus, Larger

\* take_ready learns tip_open for a window nothing was delivered to.
LEMMA OpenedFacts ==
  ASSUME NEW w \in Window, CursorOK(w), NEW t \in Slots
  PROVE  LET v == Opened(w, t) IN
         /\ v \in Window /\ CursorOK(v)
         /\ v.tip_open = w.tip_open \/ (w.tip_open = None /\ w.subscribed /\ v.tip_open = t)
         /\ \A f \in DOMAIN w \ {"tip_open"} : v[f] = w[f]
         /\ Passed(v) = Passed(w)
<1> DEFINE v == Opened(w, t)
<1>1. v = [w EXCEPT !.tip_open = IF w.subscribed /\ w.tip_open = None /\ t > 0 THEN t ELSE w.tip_open]
  BY DEF Opened
<1>2. CASE w.subscribed /\ w.tip_open = None /\ t > 0
  <2>1. v = [w EXCEPT !.tip_open = t]
    BY <1>1, <1>2
  <2>2. v \in Window /\ v.tip_open = t /\ v.next = w.next /\ v.cursor = w.cursor
        /\ v.subscribed = w.subscribed /\ v.first = w.first
        /\ \A f \in DOMAIN w \ {"tip_open"} : v[f] = w[f]
    BY <2>1 DEF Window
  <2>3. w.next = None /\ w.cursor = None /\ w.first = None
    BY <1>2 DEF CursorOK
  <2>4. QED
    BY <1>2, <2>2, <2>3 DEF CursorOK, Passed
<1>3. CASE ~ (w.subscribed /\ w.tip_open = None /\ t > 0)
  <2>1. v = w
    BY <1>1, <1>3 DEF Window
  <2>2. QED
    BY <2>1
<1>4. QED
  BY <1>2, <1>3

\* The cursor is at a sampled slot of the range, and what it jumps over is counted.
LEMMA AdvancedFacts ==
  ASSUME NEW w \in Window, CursorOK(w), NEW t \in Slots, w.tip_open # None
  PROVE  LET v == Advanced(w, t) IN
         /\ v \in Window /\ CursorOK(v) /\ v.next # None
         /\ w.next # None => w.next <= v.next
         /\ v.unchecked \in Nat /\ v.unchecked + Passed(w) = w.unchecked + Passed(v)
         /\ \A f \in DOMAIN w \ {"next", "unchecked", "cursor"} : v[f] = w[f]
<1> DEFINE next == OrElse(w.next, RoundUp(StartSlot(w)))
           low == Monus(t, LagSlots + MAX_CURSOR_LAG_SLOTS)
           jumped == IF next < low THEN RoundUp(low) ELSE next
           start == OrElse(w.cursor, next)
           more == (jumped - next) \div SampleEvery
           v == Advanced(w, t)
<1>1. StartSlot(w) \in Nat /\ w.tip_open + START_MARGIN <= StartSlot(w) /\ w.tip_open \in Nat
      /\ START_MARGIN \in Nat
  BY StartBounds, SlotNumbers, FilterAuditAssumption
<1>2. next \in Nat /\ Sampled(next) /\ w.tip_open + START_MARGIN <= next
  <2>1. CASE w.next = None
    BY <1>1, <2>1, RoundedUp DEF OrElse
  <2>2. CASE w.next # None
    BY <2>2 DEF OrElse, CursorOK, Window
  <2>3. QED
    BY <2>1, <2>2
<1>3. start \in Nat /\ Sampled(start) /\ start <= next /\ start <= RoundUp(StartSlot(w))
  <2>1. CASE w.next = None
    BY <1>1, <1>2, <2>1, RoundedUp DEF OrElse, CursorOK
  <2>2. CASE w.next # None
    BY <2>2 DEF OrElse, CursorOK, Window
  <2>3. QED
    BY <2>1, <2>2
<1>4. low \in Nat
  <2>1. t \in Nat /\ LagSlots \in Nat /\ MAX_CURSOR_LAG_SLOTS \in Nat
    BY FilterAuditAssumption, SlotNumbers
  <2>2. QED
    BY <2>1 DEF Monus, Larger
<1>5. jumped \in Nat /\ Sampled(jumped) /\ next <= jumped
  BY <1>2, <1>4, RoundedUp
<1>6. more \in Nat /\ jumped = next + more * SampleEvery
  BY <1>2, <1>5, SampledDistance
<1>7. v = [w EXCEPT !.next = jumped, !.unchecked = w.unchecked + more, !.cursor = start]
  BY DEF Advanced
<1> HIDE DEF v, more, jumped, start, next, low
<1>8. w.unchecked \in Nat /\ w.unchecked + more \in Nat
  BY <1>6 DEF Window
<1>9. v.next = jumped /\ v.unchecked = w.unchecked + more /\ v.cursor = start
      /\ v.tip_open = w.tip_open /\ v.first = w.first /\ v.subscribed = w.subscribed
      /\ \A f \in DOMAIN w \ {"next", "unchecked", "cursor"} : v[f] = w[f]
  BY <1>7 DEF Window
<1>10. v \in Window
  BY <1>3, <1>5, <1>7, <1>8 DEF Window
<1>11. None \notin Nat /\ SampleEvery \in Nat \ {0}
  BY FilterAuditAssumption
<1>12. CursorOK(v)
  <2>1. StartSlot(v) = StartSlot(w)
    BY <1>9 DEF StartSlot
  <2>2. QED
    BY <1>1, <1>2, <1>3, <1>5, <1>9, <1>11, <2>1 DEF CursorOK
<1>13. Passed(v) = Passed(w) + more
  <2>1. Passed(v) = (jumped - start) \div SampleEvery
    BY <1>5, <1>9, <1>11 DEF Passed
  <2>2. Passed(w) = (next - start) \div SampleEvery /\ Passed(w) \in Nat
    <3>1. CASE w.next = None
      <4>1. start = next
        BY <3>1 DEF start, OrElse, CursorOK
      <4>2. Passed(w) = 0 /\ (next - start) \div SampleEvery = 0
        BY <1>2, <1>11, <3>1, <4>1 DEF Passed
      <4>3. QED
        BY <4>2
    <3>2. CASE w.next # None
      <4>1. next = w.next /\ start = w.cursor
        BY <3>2 DEF next, start, OrElse, CursorOK
      <4>2. Passed(w) = (next - start) \div SampleEvery
        BY <3>2, <4>1 DEF Passed
      <4>3. QED
        BY <1>2, <1>3, <4>2, SampledDistance
    <3>3. QED
      BY <3>1, <3>2
  <2>3. jumped - start = (next - start) + more * SampleEvery
    <3>1. more * SampleEvery \in Nat
      BY <1>6, <1>11
    <3>2. QED
      BY <1>2, <1>3, <1>5, <1>6, <3>1
  <2>4. next - start \in Nat
    BY <1>2, <1>3
  <2>5. ((next - start) + more * SampleEvery) \div SampleEvery
           = ((next - start) \div SampleEvery) + more
    BY <1>6, <1>11, <2>4, QuotientOfSum
  <2>6. QED
    BY <2>1, <2>2, <2>3, <2>5
<1>14. Passed(w) \in Nat
  BY <1>11, SampledDistance DEF Passed, CursorOK, Window
<1>15. w.next # None => w.next <= jumped
  BY <1>5 DEF next, OrElse
<1>16. QED
  BY <1>5, <1>6, <1>8, <1>9, <1>10, <1>11, <1>12, <1>13, <1>14, <1>15 DEF v

\* The slots handed out are the next ones: all of them are below the cursor afterwards.
LEMMA HandedBelow ==
  ASSUME NEW w \in Window, NEW t \in Slots, w.next # None, Sampled(w.next),
         NEW s \in Handed(w, t)
  PROVE  s < w.next + Cardinality(Handed(w, t)) * SampleEvery
<1>1. w.next \in Nat /\ SampleEvery \in Nat \ {0} /\ MAX_TASKS_PER_WINDOW \in Nat /\ LagSlots \in Nat
  BY FilterAuditAssumption DEF Window
<1>2. /\ s \in Slots /\ s \in Nat /\ Sampled(s) /\ s >= w.next /\ s <= EndSlot(w, t)
      /\ s < w.next + MAX_TASKS_PER_WINDOW * SampleEvery /\ s + LagSlots <= t
  BY SlotNumbers DEF Handed
<1>3. PICK i \in Nat : s = w.next + i * SampleEvery
  BY <1>1, <1>2, SampledDistance
<1> DEFINE f == [j \in 0..i |-> w.next + j * SampleEvery]
           V == {f[j] : j \in 0..i}
<1>4. ASSUME NEW j \in 0..i PROVE f[j] \in Handed(w, t)
  <2>1. j \in Nat /\ f[j] = w.next + j * SampleEvery
    OBVIOUS
  <2>2. f[j] \in Nat /\ Sampled(f[j]) /\ w.next <= f[j]
    BY <1>1, <2>1, SampledPlus
  <2>3. f[j] <= s
    <3>1. j * SampleEvery <= i * SampleEvery
      BY <1>1
    <3>2. j * SampleEvery \in Nat /\ i * SampleEvery \in Nat
      BY <1>1, <2>1
    <3>3. QED
      BY <1>1, <1>3, <2>1, <3>1, <3>2
  <2>4. f[j] \in Slots
    BY <1>2, <2>2, <2>3, FilterAuditAssumption DEF Slots
  <2> HIDE DEF f
  <2>5. EndSlot(w, t) \in Int
    <3>1. t \in Nat /\ w.max \in Nat /\ OrElse(w.tip_close, t) \in Nat
      BY SlotNumbers DEF Window, OrElse
    <3>2. END_MARGIN + CommitmentLag \in Int
      BY FilterAuditAssumption
    <3>3. Monus(OrElse(w.tip_close, t), END_MARGIN + CommitmentLag) \in Nat /\ Monus(w.max, 1) \in Nat
      BY <3>1, <3>2 DEF Monus, Larger
    <3>4. QED
      BY <3>3 DEF EndSlot, Smaller
  <2>6. MAX_TASKS_PER_WINDOW * SampleEvery \in Nat /\ t \in Nat
    BY <1>1, SlotNumbers
  <2>7. QED
    BY <1>1, <1>2, <2>2, <2>3, <2>4, <2>5, <2>6 DEF Handed
<1>5. Cardinality(V) = i + 1
  <2>1. IsFiniteSet(0..i) /\ Cardinality(0..i) = i + 1
    BY FS_Interval
  <2>2. DOMAIN f = 0..i /\ f = [x \in DOMAIN f |-> f[x]]
    OBVIOUS
  <2>3. \A x, y \in 0..i : f[x] = f[y] => x = y
    <3>1. ASSUME NEW x \in 0..i, NEW y \in 0..i, f[x] = f[y] PROVE x = y
      <4>1. x * SampleEvery = y * SampleEvery
        <5>1. x * SampleEvery \in Nat /\ y * SampleEvery \in Nat
          BY <1>1
        <5>2. QED
          BY <1>1, <3>1, <5>1
      <4>2. QED
        BY <1>1, <4>1
    <3>2. QED
      BY <3>1
  <2>4. 0..i \in SUBSET (DOMAIN f)
    BY <2>2
  <2> HIDE DEF f
  <2>5. QED
    BY <2>1, <2>2, <2>3, <2>4, ImageSize
<1>6. V \in SUBSET Handed(w, t)
  BY <1>4
<1>7. IsFiniteSet(Handed(w, t)) /\ Cardinality(Handed(w, t)) \in Nat
  BY SlotNumbers DEF Handed
<1>8. i + 1 <= Cardinality(Handed(w, t))
  <2> HIDE DEF V
  <2>1. QED
    BY <1>5, <1>6, <1>7, FS_Subset
<1> HIDE DEF V, f
<1>9. (i + 1) * SampleEvery <= Cardinality(Handed(w, t)) * SampleEvery
  BY <1>1, <1>7, <1>8
<1>10. (i + 1) * SampleEvery = i * SampleEvery + SampleEvery /\ i * SampleEvery \in Nat
       /\ Cardinality(Handed(w, t)) * SampleEvery \in Nat
  BY <1>1, <1>7
<1>11. QED
  BY <1>1, <1>3, <1>9, <1>10

LEMMA HandOutFacts ==
  ASSUME NEW w \in Window, CursorOK(w), NEW t \in Slots, w.next # None
  PROVE  LET v == HandOut(w, t)
             H == Handed(w, t)
         IN
         /\ v \in Window /\ CursorOK(v) /\ v.next # None /\ w.next <= v.next
         /\ Cardinality(H) \in Nat
         /\ \A s \in H : s \in Slots /\ Sampled(s) /\ w.next <= s /\ s < v.next
                         /\ s <= EndSlot(w, t) /\ s + LagSlots <= t
         /\ v.in_flight = w.in_flight + Cardinality(H)
         /\ Passed(v) = Passed(w) + Cardinality(H)
         /\ v.sampled = {s \in w.sampled : s >= v.next}
         /\ \A f \in DOMAIN w \ {"next", "in_flight", "sampled"} : v[f] = w[f]
<1> DEFINE H == Handed(w, t)
           n == Cardinality(H)
           next == w.next + n * SampleEvery
           kept == {s \in w.sampled : s >= next}
           v == HandOut(w, t)
<1>1. n \in Nat /\ SampleEvery \in Nat \ {0} /\ None \notin Nat
  BY SlotNumbers, FilterAuditAssumption DEF Handed
<1>2. w.next \in Nat /\ Sampled(w.next) /\ w.cursor \in Nat /\ Sampled(w.cursor)
      /\ w.cursor <= w.next /\ w.in_flight \in Nat /\ w.sampled \subseteq Slots
  BY DEF CursorOK, Window
<1>3. \A s \in H : s \in Slots /\ Sampled(s) /\ w.next <= s /\ s < next
                   /\ s <= EndSlot(w, t) /\ s + LagSlots <= t
  <2>1. \A s \in H : s < next
    BY <1>2, HandedBelow
  <2>2. QED
    BY <2>1, <1>2 DEF Handed
<1>4. v = [w EXCEPT !.next = next, !.in_flight = w.in_flight + n, !.sampled = kept]
  BY DEF HandOut
<1>5. next \in Nat /\ Sampled(next) /\ w.next <= next
  <2> HIDE DEF n
  <2>1. QED
    BY <1>1, <1>2, SampledPlus
<1>6. kept \subseteq Slots /\ w.in_flight + n \in Nat
  BY <1>1, <1>2
<1> HIDE DEF v, next, kept, n, H
<1>7. /\ v.next = next /\ v.in_flight = w.in_flight + n /\ v.sampled = kept
      /\ v.cursor = w.cursor /\ v.tip_open = w.tip_open /\ v.first = w.first
      /\ v.subscribed = w.subscribed
      /\ \A f \in DOMAIN w \ {"next", "in_flight", "sampled"} : v[f] = w[f]
  BY <1>4 DEF Window
<1>8. v \in Window
  BY <1>4, <1>5, <1>6 DEF Window
<1>9. CursorOK(v)
  <2>1. StartSlot(v) = StartSlot(w)
    BY <1>7 DEF StartSlot
  <2>2. w.tip_open \in Nat /\ START_MARGIN \in Nat
    BY SlotNumbers, FilterAuditAssumption DEF CursorOK, Window
  <2>3. QED
    BY <1>1, <1>2, <1>5, <1>7, <2>1, <2>2 DEF CursorOK
<1>10. Passed(v) = Passed(w) + n
  <2>1. Passed(v) = (next - w.cursor) \div SampleEvery
    BY <1>1, <1>5, <1>7 DEF Passed
  <2>2. Passed(w) = (w.next - w.cursor) \div SampleEvery
    BY <1>1, <1>2 DEF Passed
  <2>3. next - w.cursor = (w.next - w.cursor) + n * SampleEvery
    <3>1. n * SampleEvery \in Nat
      BY <1>1
    <3>2. QED
      BY <1>2, <3>1 DEF next
  <2>4. w.next - w.cursor \in Nat
    BY <1>2
  <2>5. ((w.next - w.cursor) + n * SampleEvery) \div SampleEvery
           = ((w.next - w.cursor) \div SampleEvery) + n
    BY <1>1, <2>4, QuotientOfSum
  <2>6. QED
    BY <2>1, <2>2, <2>3, <2>5
<1>11. QED
  BY <1>1, <1>3, <1>5, <1>7, <1>8, <1>9, <1>10 DEF v, n, H, kept

\* What take_ready makes of a window, and the slots it hands out.
Taken(w, t) ==
    IF Ready(Opened(w, t), t) THEN HandOut(Advanced(Opened(w, t), t), t) ELSE Opened(w, t)

NewSlots(w, t) == IF Ready(Opened(w, t), t) THEN Handed(Advanced(Opened(w, t), t), t) ELSE {}

\* What of a window take_ready leaves alone.
SameRange(v, w) ==
    /\ v.subscribed = w.subscribed /\ v.first = w.first /\ v.max = w.max /\ v.ended = w.ended
    /\ v.tip_close = w.tip_close /\ v.checked = w.checked /\ v.skipped = w.skipped

\* tip_open is set once, to the tip.
OpenedOnce(v, w, t) ==
    \/ v.tip_open = w.tip_open
    \/ w.tip_open = None /\ w.subscribed /\ v.tip_open = t

HandedOut(v, w, H, t) ==
    /\ IsFiniteSet(H) /\ Cardinality(H) \in Nat
    /\ \A s \in H : /\ s \in Slots /\ Sampled(s) /\ s + LagSlots <= t
                    /\ v.tip_open # None /\ v.tip_open + START_MARGIN <= s
                    /\ s + END_MARGIN <= OrElse(w.tip_close, t)
                    /\ v.next # None /\ s < v.next
                    /\ w.next # None => w.next <= s
    /\ w.next # None => v.next # None /\ w.next <= v.next
    /\ v.in_flight = w.in_flight + Cardinality(H)
    /\ v.checked + v.skipped + v.unchecked + v.in_flight - Passed(v)
         = w.checked + w.skipped + w.unchecked + w.in_flight - Passed(w)
    /\ v.sampled \subseteq w.sampled
    /\ \A s \in w.sampled : s \in v.sampled \/ (v.next # None /\ s < v.next)

LEMMA PassedIsNat == ASSUME NEW w \in Window, CursorOK(w) PROVE Passed(w) \in Nat
<1>1. None \notin Nat
  BY FilterAuditAssumption
<1>2. QED
  BY <1>1, SampledDistance DEF Passed, CursorOK, Window

LEMMA TakenFacts ==
  ASSUME NEW w \in Window, CursorOK(w), NEW t \in Slots
  PROVE  /\ Taken(w, t) \in Window /\ CursorOK(Taken(w, t))
         /\ SameRange(Taken(w, t), w) /\ OpenedOnce(Taken(w, t), w, t)
         /\ HandedOut(Taken(w, t), w, NewSlots(w, t), t)
<1> DEFINE o == Opened(w, t)
           a == Advanced(o, t)
           h == HandOut(a, t)
           H == Handed(a, t)
<1>1. /\ o \in Window /\ CursorOK(o) /\ Passed(o) = Passed(w)
      /\ o.tip_open = w.tip_open \/ (w.tip_open = None /\ w.subscribed /\ o.tip_open = t)
      /\ SameRange(o, w) /\ o.sampled = w.sampled /\ o.next = w.next
      /\ o.in_flight = w.in_flight /\ o.unchecked = w.unchecked
  <2>1. /\ o \in Window /\ CursorOK(o) /\ Passed(o) = Passed(w)
        /\ o.tip_open = w.tip_open \/ (w.tip_open = None /\ w.subscribed /\ o.tip_open = t)
        /\ \A f \in DOMAIN w \ {"tip_open"} : o[f] = w[f]
    BY OpenedFacts
  <2> HIDE DEF o
  <2>2. QED
    BY <2>1 DEF Window, SameRange
<1>2. w.checked \in Nat /\ w.skipped \in Nat /\ w.unchecked \in Nat /\ w.in_flight \in Nat
      /\ Passed(w) \in Nat /\ w.sampled \subseteq Slots
  BY PassedIsNat DEF Window
<1>3. CASE ~ Ready(o, t)
  <2>1. Taken(w, t) = o /\ NewSlots(w, t) = {}
    BY <1>3 DEF Taken, NewSlots
  <2> HIDE DEF o
  <2>2. HandedOut(o, w, {}, t)
    <3>1. IsFiniteSet({}) /\ Cardinality({}) = 0
      BY FS_EmptySet
    <3>2. o.next # None => o.next <= o.next
      BY <1>1 DEF Window
    <3>3. QED
      BY <1>1, <1>2, <3>1, <3>2 DEF HandedOut, SameRange
  <2>3. QED
    BY <1>1, <2>1, <2>2 DEF OpenedOnce
<1>4. CASE Ready(o, t)
  <2>1. Taken(w, t) = h /\ NewSlots(w, t) = H /\ o.tip_open # None
    BY <1>4 DEF Taken, NewSlots, Ready
  <2>2. /\ a \in Window /\ CursorOK(a) /\ a.next # None
        /\ o.next # None => o.next <= a.next
        /\ a.unchecked \in Nat /\ a.unchecked + Passed(o) = o.unchecked + Passed(a)
        /\ \A f \in DOMAIN o \ {"next", "unchecked", "cursor"} : a[f] = o[f]
    <3> HIDE DEF o
    <3>1. QED
      BY <1>1, <2>1, AdvancedFacts
  <2>3. /\ SameRange(a, o) /\ a.tip_open = o.tip_open /\ a.sampled = o.sampled
        /\ a.in_flight = o.in_flight
    <3> HIDE DEF o, a
    <3>1. QED
      BY <1>1, <2>2 DEF Window, SameRange
  <2>4. /\ h \in Window /\ CursorOK(h) /\ h.next # None /\ a.next <= h.next
        /\ Cardinality(H) \in Nat
        /\ \A s \in H : s \in Slots /\ Sampled(s) /\ a.next <= s /\ s < h.next
                        /\ s <= EndSlot(a, t) /\ s + LagSlots <= t
        /\ h.in_flight = a.in_flight + Cardinality(H)
        /\ Passed(h) = Passed(a) + Cardinality(H)
        /\ h.sampled = {s \in a.sampled : s >= h.next}
        /\ \A f \in DOMAIN a \ {"next", "in_flight", "sampled"} : h[f] = a[f]
    <3> HIDE DEF a
    <3>1. QED
      BY <2>2, HandOutFacts
  <2> HIDE DEF o, a, h, H
  <2>5. SameRange(h, a) /\ h.tip_open = a.tip_open /\ h.unchecked = a.unchecked
    BY <2>2, <2>4 DEF Window, SameRange
  <2>6. SameRange(h, w) /\ OpenedOnce(h, w, t)
    BY <1>1, <2>3, <2>5 DEF SameRange, OpenedOnce
  <2>7. a.next \in Nat /\ h.next \in Nat /\ (w.next # None => w.next \in Nat)
        /\ Passed(a) \in Nat
    BY <2>2, <2>4, PassedIsNat DEF Window
  <2>8. IsFiniteSet(H)
    <3>1. H \subseteq Slots
      BY <2>4
    <3>2. QED
      BY <3>1, SlotNumbers
  <2>9. ASSUME NEW s \in H
        PROVE  /\ s \in Slots /\ Sampled(s) /\ s + LagSlots <= t
               /\ h.tip_open # None /\ h.tip_open + START_MARGIN <= s
               /\ s + END_MARGIN <= OrElse(w.tip_close, t)
               /\ s < h.next /\ (w.next # None => w.next <= s)
    <3>1. s \in Slots /\ s \in Nat /\ Sampled(s) /\ a.next <= s /\ s < h.next
          /\ s <= EndSlot(a, t) /\ s + LagSlots <= t
      BY <2>4, SlotNumbers
    <3>2. /\ h.tip_open # None /\ h.tip_open + START_MARGIN <= a.next /\ h.tip_open \in Nat
          /\ START_MARGIN \in Nat
      BY <2>2, <2>4, <2>5, SlotNumbers, FilterAuditAssumption DEF CursorOK, Window
    <3>3. h.tip_open + START_MARGIN <= s
      BY <2>7, <3>1, <3>2
    <3>4. 1 <= s
      BY <3>2, <3>3, <3>1, EnvironmentAssumption, FilterAuditAssumption
    <3>5. s + END_MARGIN <= OrElse(a.tip_close, t)
      BY <2>2, <3>1, <3>4, EndBound
    <3>6. a.tip_close = w.tip_close
      BY <1>1, <2>3 DEF SameRange
    <3>7. w.next # None => w.next <= s
      BY <1>1, <2>2, <2>7, <3>1
    <3>8. QED
      BY <3>1, <3>2, <3>3, <3>5, <3>6, <3>7
  <2>10. h.checked + h.skipped + h.unchecked + h.in_flight - Passed(h)
           = w.checked + w.skipped + w.unchecked + w.in_flight - Passed(w)
    <3>1. h.checked = w.checked /\ h.skipped = w.skipped
      BY <2>6 DEF SameRange
    <3>2. h.in_flight = w.in_flight + Cardinality(H) /\ h.unchecked = a.unchecked
          /\ Passed(h) = Passed(a) + Cardinality(H)
      BY <1>1, <2>3, <2>4, <2>5
    <3>3. a.unchecked + Passed(w) = w.unchecked + Passed(a) /\ a.unchecked \in Nat
      BY <1>1, <2>2
    <3>4. QED
      BY SMTT(30), <1>2, <2>4, <2>7, <3>1, <3>2, <3>3
  <2>11. /\ h.sampled \subseteq w.sampled
         /\ \A s \in w.sampled : s \in h.sampled \/ (h.next # None /\ s < h.next)
    <3>1. h.sampled = {s \in w.sampled : s >= h.next}
      BY <1>1, <2>3, <2>4
    <3>2. \A s \in w.sampled : s \in Nat
      BY <1>2, SlotNumbers
    <3>3. QED
      BY <2>4, <2>7, <3>1, <3>2
  <2>12. w.next # None => h.next # None /\ w.next <= h.next
    BY <1>1, <2>2, <2>4, <2>7
  <2>13. h.in_flight = w.in_flight + Cardinality(H)
    BY <1>1, <2>3, <2>4
  <2>14. HandedOut(h, w, H, t)
    BY <2>4, <2>8, <2>9, <2>10, <2>11, <2>12, <2>13 DEF HandedOut
  <2>15. QED
    BY <2>1, <2>4, <2>6, <2>14
<1>5. QED
  BY <1>3, <1>4

-----------------------------------------------------------------------------
(* The environment's steps. *)

LEMMA InvInit == Init => FilterInv
<1> SUFFICES ASSUME Init PROVE FilterInv
  OBVIOUS
<1> USE DEF Init
<1>1. 0 \in Slots /\ 1 \in Slots /\ None \notin Nat
  BY FilterAuditAssumption DEF Slots
<1>2. TypeOK
  <2>1. checker.calls <= MAX_CALLS_PER_TICK /\ Len(cache) <= BLOCK_CACHE
    BY FilterAuditAssumption
  <2>2. QED
    BY <1>1, <2>1 DEF TypeOK
<1>3. Shape
  BY <1>1 DEF Shape
<1>4. Lifecycle /\ OnePerSlot /\ Counted /\ ReportsOK /\ Deliveries /\ Kept /\ TasksKnow
  BY DEF Lifecycle, OnePerSlot, Counted, ReportsOK, Deliveries, Kept, TasksKnow
<1>5. QED
  BY <1>2, <1>3, <1>4 DEF FilterInv

\* Numbers of the environment.
LEMMA Numbers ==
  ASSUME FilterInv
  PROVE  /\ clock \in Nat /\ tip \in Nat /\ tip <= clock /\ None \notin Nat
         /\ \A k \in Windows : /\ served[k] \subseteq Nat /\ source[k].slot \in Nat
                               /\ from[k] # None => from[k] \in Nat
                               /\ until[k] # None => until[k] \in Nat
         /\ \A x \in tasks \cup retries : x.key \in Windows /\ x.slot \in Slots /\ x.slot \in Nat
         /\ ServerDelay \in Nat /\ MaxTipLag \in Nat /\ LagSlots \in Nat
         /\ START_MARGIN \in Nat /\ END_MARGIN \in Nat
<1>1. clock \in Slots /\ tip \in Slots /\ tip <= clock
  BY DEF FilterInv, TypeOK
<1>2. \A x \in tasks \cup retries : x.key \in Windows /\ x.slot \in Slots
  BY DEF FilterInv, TypeOK, Task
<1>3. \A k \in Windows : /\ served[k] \subseteq Slots /\ source[k].slot \in Slots
                         /\ from[k] # None => from[k] \in Slots
                         /\ until[k] # None => until[k] \in Slots
  BY DEF FilterInv, Shape
<1>4. QED
  BY <1>1, <1>2, <1>3, SlotNumbers, FilterAuditAssumption

\* What is known about a task is not lost: the slot is over for the server.
LEMMA KnowsStable ==
  ASSUME FilterInv, NEW x \in tasks \cup retries,
         clock' \in Nat, clock <= clock',
         from'[x.key] = from[x.key],
         \/ until'[x.key] = until[x.key]
         \/ until[x.key] = None /\ until'[x.key] = clock,
         \/ served'[x.key] = served[x.key]
         \/ \E q \in Nat : /\ served'[x.key] = served[x.key] \cup {q}
                           /\ clock <= q + ServerDelay /\ \A r \in served[x.key] : r <= q
  PROVE  Knows(x)'
<1> DEFINE k == x.key
           s == x.slot
<1>1. k \in Windows /\ s \in Nat /\ clock \in Nat /\ ServerDelay \in Nat /\ None \notin Nat
      /\ served[k] \subseteq Nat /\ (until[k] # None => until[k] \in Nat)
      /\ START_MARGIN \in Nat
  BY Numbers
<1>2. SeenWhole(k, s) /\ s + ServerDelay < clock
      /\ (s \in served[k] /\ ~ x.delivered => Early(k, s))
  BY DEF FilterInv, TasksKnow, Knows
<1> HIDE DEF k, s
<1>3. served[k] \subseteq served'[k] /\ (s \in served'[k] => s \in served[k])
  BY <1>1, <1>2 DEF k
<1>4. s + ServerDelay < clock'
  BY <1>1, <1>2
<1>5. SeenWhole(k, s)'
  <2>1. s + ServerDelay < OrElse(until[k], clock) => s + ServerDelay < OrElse(until'[k], clock')
    BY <1>1, <1>2, <1>4 DEF OrElse, k
  <2>2. from'[k] < s
    BY <1>2 DEF SeenWhole, k
  <2>3. (\E r \in served'[k] : r > s) \/ s + ServerDelay < OrElse(until'[k], clock')
    BY <1>2, <1>3, <2>1 DEF SeenWhole
  <2>4. QED
    BY <2>2, <2>3 DEF SeenWhole, k, s
<1>6. ASSUME s \in served'[k], ~ x.delivered PROVE Early(k, s)'
  <2>1. Early(k, s)
    BY <1>2, <1>3, <1>6
  <2>2. PICK f \in served[k] : (\A q \in served[k] : f <= q) /\ f <= s /\ s < f + START_MARGIN
    BY <2>1 DEF Early
  <2>3. f \in served'[k] /\ \A q \in served'[k] : f <= q
    BY <1>1, <1>3, <2>2 DEF k
  <2>4. QED
    BY <2>2, <2>3 DEF Early, k, s
<1>7. QED
  BY <1>4, <1>5, <1>6 DEF Knows, k, s

LEMMA TickStep == FilterInv /\ Tick => FilterInv'
<1> SUFFICES ASSUME FilterInv, Tick PROVE FilterInv'
  OBVIOUS
<1>1. /\ clock' = clock + 1 /\ clock < MaxSlot /\ tip' \in tip..clock'
      /\ \A k \in Windows : source[k].pc # "delivering"
      /\ UNCHANGED <<windows, sourceVars, checkVars>>
  BY DEF Tick
<1>2. clock \in Nat /\ tip \in Nat /\ clock' \in Nat /\ clock <= clock'
  BY <1>1, Numbers
<1>3. TypeOK'
  <2>1. clock' \in Slots /\ tip' \in Slots /\ tip' <= clock'
    BY <1>1, <1>2, FilterAuditAssumption DEF Slots
  <2>2. QED
    BY <1>1, <2>1 DEF FilterInv, TypeOK, checkVars
<1>4. Shape' /\ Lifecycle' /\ OnePerSlot'
  BY <1>1 DEF FilterInv, Shape, Lifecycle, OnePerSlot, sourceVars, checkVars
<1>5. Counted' /\ ReportsOK'
  BY <1>1 DEF FilterInv, Counted, OutSlots, ReportsOK, checkVars
<1>6. Deliveries'
  <2>1. \A k \in Windows : \A s \in served[k] : s \in Nat
    BY Numbers
  <2>2. \A k \in Windows : (from[k] # None => from[k] \in Nat) /\ (until[k] # None => until[k] \in Nat)
    BY Numbers
  <2>3. QED
    BY <1>1, <1>2, <2>1, <2>2 DEF FilterInv, Deliveries, sourceVars
<1>7. Kept'
  BY <1>1 DEF FilterInv, Kept, InDelivery, sourceVars
<1>8. TasksKnow'
  BY <1>1, <1>2, KnowsStable DEF TasksKnow, sourceVars, checkVars
<1>9. QED
  BY <1>3, <1>4, <1>5, <1>6, <1>7, <1>8 DEF FilterInv

-----------------------------------------------------------------------------
(* The steps of a source task. *)

\* What a step that leaves the checker alone keeps.
LEMMA CheckerAlone ==
  ASSUME FilterInv, UNCHANGED checkVars
  PROVE  /\ OnePerSlot' /\ ReportsOK'
         /\ \A k : OutSlots(k)' = OutSlots(k)
         /\ \A x \in (tasks \cup retries)' : x \in Task /\ x.attempts < MAX_ATTEMPTS
         /\ checker'.calls <= MAX_CALLS_PER_TICK /\ Len(cache') <= BLOCK_CACHE
         /\ checker' \in [pc : {"idle", "checking", "stopped"}, calls : Nat] /\ cache' \in Seq(Slots)
         /\ checker'.pc # "checking" => tasks' = {}
BY DEF FilterInv, TypeOK, Shape, Lifecycle, OnePerSlot, ReportsOK, OutSlots, checkVars

LEMMA RecordFirstStep ==
  ASSUME FilterInv, NEW k \in Windows, NEW s \in Slots, RecordFirst(k, s)
  PROVE  FilterInv'
<1>1. /\ source[k].pc = "live" /\ s >= from[k] /\ s <= clock /\ clock <= s + ServerDelay
      /\ \A r \in served[k] : r <= s
      /\ tip' = Larger(tip, s)
      /\ served' = [served EXCEPT ![k] = @ \cup {s}]
      /\ source' = [source EXCEPT ![k] = [pc |-> "delivering", slot |-> s]]
      /\ UNCHANGED <<clock, windows, from, until>> /\ UNCHANGED checkVars
  BY DEF RecordFirst, checkVars
<1>2. clock \in Nat /\ tip \in Nat /\ s \in Nat /\ tip <= clock /\ tip \in Slots
  BY SlotNumbers, Numbers DEF FilterInv, TypeOK
<1>3. /\ source'[k].pc = "delivering" /\ source'[k].slot = s
      /\ served'[k] = served[k] \cup {s}
      /\ \A q \in Windows : q # k => source'[q] = source[q] /\ served'[q] = served[q]
  BY <1>1 DEF FilterInv, Shape
<1>4. TypeOK'
  <2>1. tip' \in Slots /\ tip' <= clock'
    BY <1>1, <1>2 DEF Larger
  <2>2. QED
    BY <1>1, <2>1, CheckerAlone DEF FilterInv, TypeOK
<1>5. Shape'
  BY <1>1, CheckerAlone DEF FilterInv, Shape
<1>6. Lifecycle'
  BY <1>1, <1>3, CheckerAlone DEF FilterInv, Lifecycle, checkVars
<1>7. OnePerSlot' /\ ReportsOK'
  BY <1>1, CheckerAlone
<1>8. Counted'
  BY <1>1, CheckerAlone DEF FilterInv, Counted, checkVars
<1>9. Deliveries'
  <2>1. from[k] # None /\ from[k] \in Nat
    BY <1>1, Numbers DEF FilterInv, Deliveries
  <2>2. QED
    BY <1>1, <1>2, <1>3, <2>1 DEF FilterInv, Deliveries
<1>10. Kept'
  <2> SUFFICES ASSUME NEW q \in DOMAIN windows'
               PROVE  LET w == windows'[q] IN
                      /\ w.subscribed => from'[q] # None
                      /\ w.tip_open # None => from'[q] # None /\ from'[q] < w.tip_open + START_MARGIN
                      /\ w.tip_close # None => w.tip_close <= until'[q]
                      /\ w.first = None => \A r \in served'[q] : InDelivery(q, r)'
                      /\ w.first # None => w.first \in served'[q] /\ \A r \in served'[q] : w.first <= r
                      /\ \A r \in served'[q] :
                             (/\ ~ InDelivery(q, r)' /\ Sampled(r) /\ r >= StartSlot(w)
                              /\ w.next = None \/ r >= w.next)
                             => r \in w.sampled
    BY DEF Kept
  <2>1. q \in DOMAIN windows /\ q \in Windows /\ windows'[q] = windows[q]
    BY <1>1 DEF FilterInv, TypeOK
  <2>2. CASE q # k
    BY <1>1, <1>3, <2>1, <2>2 DEF FilterInv, Kept, InDelivery
  <2>3. CASE q = k
    <3>1. \A r : ~ InDelivery(k, r)
      BY <1>1 DEF InDelivery
    <3>2. \A r : InDelivery(k, r)' <=> r = s
      BY <1>3 DEF InDelivery
    <3>3. windows[k].first = None => served[k] = {}
      BY <2>1, <2>3, <3>1 DEF FilterInv, Kept
    <3>4. QED
      BY <1>1, <1>3, <2>1, <2>3, <3>1, <3>2, <3>3 DEF FilterInv, Kept
  <2>4. QED
    BY <2>2, <2>3
<1>11. TasksKnow'
  <2>1. ASSUME NEW x \in tasks \cup retries PROVE Knows(x)'
    <3>1. x.key \in Windows
      BY Numbers
    <3>2. CASE x.key = k
      BY <1>1, <1>2, <1>3, <3>2, KnowsStable
    <3>3. CASE x.key # k
      BY <1>1, <1>2, <1>3, <3>1, <3>3, KnowsStable
    <3>4. QED
      BY <3>2, <3>3
  <2>2. QED
    BY <1>1, <2>1 DEF TasksKnow, checkVars
<1>12. QED
  BY <1>4, <1>5, <1>6, <1>7, <1>8, <1>9, <1>10, <1>11 DEF FilterInv

\* A new window has no task out: its key was never used.
LEMMA OpenStep ==
  ASSUME FilterInv, NEW k \in Windows, Open(k)
  PROVE  FilterInv'
<1>1. /\ source[k].pc = "none"
      /\ windows' = [q \in DOMAIN windows \cup {k} |-> IF q = k THEN NewWindow ELSE windows[q]]
      /\ source' = [source EXCEPT ![k].pc = "connecting"]
      /\ UNCHANGED <<clock, tip, from, until, served>> /\ UNCHANGED checkVars
  BY DEF Open, Goto, checkVars
<1>2. /\ source'[k].pc = "connecting"
      /\ \A q \in Windows : q # k => source'[q] = source[q]
      /\ DOMAIN windows' = DOMAIN windows \cup {k}
      /\ windows'[k] = NewWindow
      /\ \A q \in DOMAIN windows : q # k /\ windows'[q] = windows[q]
  <2>1. k \notin DOMAIN windows
    BY <1>1 DEF FilterInv, Lifecycle
  <2>2. QED
    BY <1>1, <2>1 DEF FilterInv, Shape
<1>3. NewWindow \in Window /\ None \notin Nat
  BY FilterAuditAssumption DEF NewWindow, Window, Slots
<1>4. served[k] = {} /\ from[k] = None /\ \A x \in tasks \cup retries : x.key # k
  BY <1>1 DEF FilterInv, Lifecycle, Deliveries
<1>5. TypeOK' /\ Shape'
  <2>1. TypeOK'
    BY <1>1, <1>2, <1>3, CheckerAlone DEF FilterInv, TypeOK
  <2>2. Shape'
    BY <1>1, CheckerAlone DEF FilterInv, Shape
  <2>3. QED
    BY <2>1, <2>2
<1>6. Lifecycle'
  <2>1. \A r \in reports' : r.key \in Windows /\ source'[r.key].pc = "closed" /\ r.key \notin DOMAIN windows'
    BY <1>1, <1>2 DEF FilterInv, Lifecycle, checkVars
  <2>2. \A q \in DOMAIN windows' :
           /\ windows'[q].ended <=> source'[q].pc = "closed"
           /\ windows'[q].ended <=> windows'[q].tip_close # None
           /\ source'[q].pc \in {"live", "delivering"} => windows'[q].subscribed
           /\ source'[q].pc = "connecting" => ~ windows'[q].subscribed
    BY <1>2 DEF FilterInv, Lifecycle, TypeOK, NewWindow
  <2>3. \A q \in Windows :
           /\ source'[q].pc = "none" => q \notin DOMAIN windows'
           /\ source'[q].pc \in {"connecting", "live", "delivering"} => q \in DOMAIN windows'
           /\ source'[q].pc = "closed" <=> until'[q] # None
    BY <1>1, <1>2 DEF FilterInv, Lifecycle
  <2>4. \A x \in (tasks \cup retries)' : source'[x.key].pc # "none"
    BY <1>1, <1>2, Numbers DEF FilterInv, Lifecycle, checkVars
  <2>5. QED
    BY <1>1, <2>1, <2>2, <2>3, <2>4, CheckerAlone DEF Lifecycle
<1>7. OnePerSlot' /\ ReportsOK'
  BY <1>1, CheckerAlone
<1>8. Counted'
  <2>1. OutSlots(k) = {} /\ Cardinality({}) = 0
    BY <1>4, FS_EmptySet DEF OutSlots
  <2>2. CursorOK(NewWindow) /\ Passed(NewWindow) = 0
    BY DEF CursorOK, Passed, NewWindow
  <2>3. ASSUME NEW q \in DOMAIN windows'
        PROVE  LET w == windows'[q] IN
               /\ CursorOK(w)
               /\ \A x \in (tasks \cup retries)' : x.key = q => w.next # None /\ x.slot < w.next
               /\ w.in_flight = Cardinality(OutSlots(q)')
               /\ w.checked + w.skipped + w.unchecked + w.in_flight = Passed(w)
    <3>1. CASE q = k
      <4>1. windows'[q] = NewWindow /\ Cardinality(OutSlots(q)') = 0
        BY <1>1, <1>2, <2>1, <3>1, CheckerAlone
      <4>2. \A x \in (tasks \cup retries)' : x.key # q
        BY <1>1, <1>4, <3>1 DEF checkVars
      <4>3. NewWindow.checked + NewWindow.skipped + NewWindow.unchecked + NewWindow.in_flight = 0
            /\ NewWindow.in_flight = 0
        BY DEF NewWindow
      <4>4. QED
        BY <2>2, <4>1, <4>2, <4>3
    <3>2. CASE q # k
      BY <1>1, <1>2, <3>2, CheckerAlone DEF FilterInv, Counted, checkVars
    <3>3. QED
      BY <3>1, <3>2
  <2>4. QED
    BY <2>3 DEF Counted
<1>9. Deliveries'
  BY <1>1, <1>2 DEF FilterInv, Deliveries
<1>10. Kept'
  <2>1. ASSUME NEW q \in DOMAIN windows, NEW r PROVE InDelivery(q, r)' <=> InDelivery(q, r)
    BY <1>2 DEF InDelivery, FilterInv, TypeOK
  <2>2. QED
    BY <1>1, <1>2, <1>4, <2>1 DEF FilterInv, Kept, NewWindow
<1>11. TasksKnow'
  BY <1>1, Numbers, KnowsStable DEF TasksKnow, checkVars
<1>12. QED
  BY <1>5, <1>6, <1>7, <1>8, <1>9, <1>10, <1>11 DEF FilterInv

\* A step that changes one window and neither its counters nor its cursor.
SameCounters(v, w) ==
    /\ v.next = w.next /\ v.cursor = w.cursor /\ v.in_flight = w.in_flight
    /\ v.checked = w.checked /\ v.skipped = w.skipped /\ v.unchecked = w.unchecked

LEMMA CountedStable ==
  ASSUME FilterInv, UNCHANGED checkVars, NEW k \in Windows, DOMAIN windows' = DOMAIN windows,
         \A q \in DOMAIN windows : q # k => windows'[q] = windows[q],
         k \in DOMAIN windows => SameCounters(windows'[k], windows[k]) /\ CursorOK(windows'[k])
  PROVE  Counted'
<1>1. ASSUME NEW q \in DOMAIN windows
      PROVE  CursorOK(windows'[q]) /\ SameCounters(windows'[q], windows[q])
  BY DEF FilterInv, Counted, SameCounters
<1>2. ASSUME NEW v, NEW w, SameCounters(v, w) PROVE Passed(v) = Passed(w)
  BY <1>2 DEF Passed, SameCounters
<1>3. ASSUME NEW q \in DOMAIN windows'
      PROVE  LET w == windows'[q] IN
             /\ CursorOK(w)
             /\ \A x \in (tasks \cup retries)' : x.key = q => w.next # None /\ x.slot < w.next
             /\ w.in_flight = Cardinality(OutSlots(q)')
             /\ w.checked + w.skipped + w.unchecked + w.in_flight = Passed(w)
  <2>1. q \in DOMAIN windows /\ CursorOK(windows'[q]) /\ SameCounters(windows'[q], windows[q])
        /\ Passed(windows'[q]) = Passed(windows[q])
    BY <1>1, <1>2
  <2>2. OutSlots(q)' = OutSlots(q) /\ (tasks \cup retries)' = tasks \cup retries
    BY CheckerAlone DEF checkVars
  <2>3. LET w == windows[q] IN
        /\ \A x \in tasks \cup retries : x.key = q => w.next # None /\ x.slot < w.next
        /\ w.in_flight = Cardinality(OutSlots(q))
        /\ w.checked + w.skipped + w.unchecked + w.in_flight = Passed(w)
    BY <2>1 DEF FilterInv, Counted
  <2>4. QED
    BY <2>1, <2>2, <2>3 DEF SameCounters
<1>4. QED
  BY <1>3 DEF Counted

LEMMA SubscribedStep ==
  ASSUME FilterInv, NEW k \in Windows, Subscribed(k)
  PROVE  FilterInv'
<1>1. PICK t \in TipRead :
      /\ source[k].pc = "connecting"
      /\ windows' = [windows EXCEPT ![k].tip_open = IF t > 0 THEN t ELSE None, ![k].subscribed = TRUE]
      /\ from' = [from EXCEPT ![k] = clock]
      /\ source' = [source EXCEPT ![k].pc = "live"]
      /\ UNCHANGED <<clock, tip, until, served>> /\ UNCHANGED checkVars
  BY DEF Subscribed, Goto, checkVars
<1> DEFINE w == windows[k]
           v == windows'[k]
<1>2. /\ k \in DOMAIN windows /\ w \in Window
      /\ w.next = None /\ w.cursor = None /\ w.first = None /\ ~ w.ended /\ w.tip_close = None
      /\ ~ w.subscribed /\ w.tip_open = None
      /\ from[k] = None /\ served[k] = {} /\ until[k] = None
      /\ \A x \in tasks \cup retries : x.key # k
  <2>1. k \in DOMAIN windows /\ w \in Window
    BY <1>1 DEF FilterInv, Lifecycle, TypeOK
  <2>2. ~ w.subscribed /\ ~ w.ended /\ w.tip_close = None /\ until[k] = None
    BY <1>1, <2>1 DEF FilterInv, Lifecycle
  <2>3. w.tip_open = None /\ w.next = None /\ w.cursor = None /\ w.first = None
    BY <2>1, <2>2 DEF FilterInv, Counted, CursorOK
  <2>4. from[k] = None /\ served[k] = {}
    BY <1>1 DEF FilterInv, Deliveries
  <2>5. \A x \in tasks \cup retries : x.key # k
    BY <2>1, <2>3 DEF FilterInv, Counted
  <2>6. QED
    BY <2>1, <2>2, <2>3, <2>4, <2>5
<1>3. /\ t \in Nat /\ t \in Slots /\ clock \in Nat /\ clock \in Slots /\ t <= clock
      /\ clock - t <= MaxTipLag /\ 1 <= clock
  <2>1. tip \in Nat /\ tip <= clock /\ clock \in Nat /\ clock \in Slots /\ 1 <= clock
    BY Numbers DEF FilterInv, TypeOK, Deliveries
  <2>2. t \in Nat /\ t <= tip /\ clock - t <= MaxTipLag
    BY <2>1 DEF TipRead
  <2>3. QED
    BY <2>1, <2>2, FilterAuditAssumption DEF Slots
<1>4. /\ DOMAIN windows' = DOMAIN windows
      /\ \A q \in DOMAIN windows : q # k => windows'[q] = windows[q]
      /\ v = [w EXCEPT !.tip_open = IF t > 0 THEN t ELSE None, !.subscribed = TRUE]
      /\ source'[k].pc = "live"
      /\ \A q \in Windows : q # k => source'[q] = source[q]
      /\ from'[k] = clock /\ \A q \in Windows : q # k => from'[q] = from[q]
  BY <1>1, <1>2 DEF FilterInv, Shape
<1> HIDE DEF v
<1>5. /\ v \in Window /\ v.tip_open = (IF t > 0 THEN t ELSE None) /\ v.subscribed
      /\ v.first = None /\ v.next = None /\ v.cursor = None /\ ~ v.ended /\ v.tip_close = None
      /\ SameCounters(v, w)
  <2> HIDE DEF w
  <2>1. (IF t > 0 THEN t ELSE None) \in Slots \cup {None}
    BY <1>3
  <2>2. QED
    BY <1>2, <1>4, <2>1 DEF Window, SameCounters
<1>6. TypeOK' /\ Shape'
  <2>1. TypeOK'
    BY <1>1, <1>4, <1>5, CheckerAlone DEF FilterInv, TypeOK, v
  <2>2. Shape'
    BY <1>1, <1>3, CheckerAlone DEF FilterInv, Shape
  <2>3. QED
    BY <2>1, <2>2
<1>7. Lifecycle'
  <2>1. \A r \in reports' : r.key \in Windows /\ source'[r.key].pc = "closed" /\ r.key \notin DOMAIN windows'
    BY <1>1, <1>2, <1>4 DEF FilterInv, Lifecycle, checkVars
  <2>2. \A q \in DOMAIN windows' :
           /\ windows'[q].ended <=> source'[q].pc = "closed"
           /\ windows'[q].ended <=> windows'[q].tip_close # None
           /\ source'[q].pc \in {"live", "delivering"} => windows'[q].subscribed
           /\ source'[q].pc = "connecting" => ~ windows'[q].subscribed
    <3>1. ASSUME NEW q \in DOMAIN windows', q # k
          PROVE  windows'[q] = windows[q] /\ source'[q] = source[q] /\ q \in DOMAIN windows
      BY <1>4, <3>1 DEF FilterInv, TypeOK
    <3>2. /\ windows'[k].subscribed /\ ~ windows'[k].ended /\ windows'[k].tip_close = None
          /\ source'[k].pc = "live"
      BY <1>4, <1>5 DEF v
    <3>3. QED
      BY <3>1, <3>2 DEF FilterInv, Lifecycle
  <2>3. \A q \in Windows :
           /\ source'[q].pc = "none" => q \notin DOMAIN windows'
           /\ source'[q].pc \in {"connecting", "live", "delivering"} => q \in DOMAIN windows'
           /\ source'[q].pc = "closed" <=> until'[q] # None
    BY <1>1, <1>2, <1>4 DEF FilterInv, Lifecycle
  <2>4. \A x \in (tasks \cup retries)' : source'[x.key].pc # "none"
    BY <1>1, <1>4, Numbers DEF FilterInv, Lifecycle, checkVars
  <2>5. QED
    BY <1>1, <2>1, <2>2, <2>3, <2>4, CheckerAlone DEF Lifecycle
<1>8. OnePerSlot' /\ ReportsOK'
  BY <1>1, CheckerAlone
<1>9. Counted'
  <2>1. CursorOK(v)
    BY <1>5 DEF CursorOK
  <2>2. QED
    BY <1>1, <1>4, <1>5, <2>1, CountedStable DEF v
<1>10. Deliveries'
  <2>1. None \notin Nat
    BY Numbers
  <2>2. ASSUME NEW q \in Windows
        PROVE  /\ until'[q] # None => until'[q] <= clock'
               /\ source'[q].pc \in {"live", "delivering"} => from'[q] # None
               /\ from'[q] # None => 1 <= from'[q] /\ from'[q] <= clock'
               /\ source'[q].pc \in {"none", "connecting"} => from'[q] = None
               /\ \A s \in served'[q] : from'[q] # None /\ from'[q] <= s /\ s <= clock'
               /\ source'[q].pc = "delivering" =>
                      /\ source'[q].slot \in served'[q] /\ clock' <= source'[q].slot + ServerDelay
                      /\ \A s \in served'[q] : s <= source'[q].slot
    <3>1. CASE q = k
      BY <1>1, <1>2, <1>3, <1>4, <2>1, <3>1
    <3>2. CASE q # k
      BY <1>1, <1>4, <3>2 DEF FilterInv, Deliveries
    <3>3. QED
      BY <3>1, <3>2
  <2>3. QED
    BY <1>1, <1>3, <2>2 DEF Deliveries
<1>11. Kept'
  <2>1. ASSUME NEW q \in DOMAIN windows, q # k, NEW r PROVE InDelivery(q, r)' <=> InDelivery(q, r)
    BY <1>4, <2>1 DEF InDelivery, FilterInv, TypeOK
  <2>2. v.tip_open # None => clock < v.tip_open + START_MARGIN
    BY <1>3, <1>5, EnvironmentAssumption, FilterAuditAssumption
  <2>3. None \notin Nat
    BY Numbers
  <2>4. from'[k] # None
    BY <1>3, <1>4, <2>3
  <2>5. \A q \in DOMAIN windows : q # k => from'[q] = from[q]
    BY <1>4 DEF FilterInv, TypeOK
  <2>6. QED
    BY <1>1, <1>2, <1>4, <1>5, <2>1, <2>2, <2>4, <2>5 DEF FilterInv, Kept, v
<1>12. TasksKnow'
  <2>1. ASSUME NEW x \in tasks \cup retries PROVE Knows(x)'
    BY <1>1, <1>2, <1>4, Numbers, KnowsStable
  <2>2. QED
    BY <1>1, <2>1 DEF TasksKnow, checkVars
<1>13. QED
  BY <1>6, <1>7, <1>8, <1>9, <1>10, <1>11, <1>12 DEF FilterInv

LEMMA CloseStep ==
  ASSUME FilterInv, NEW k \in Windows, Close(k)
  PROVE  FilterInv'
<1>1. PICK t \in TipRead :
      /\ source[k].pc \in {"connecting", "live"}
      /\ windows' = [windows EXCEPT ![k].tip_close = t, ![k].ended = TRUE]
      /\ until' = [until EXCEPT ![k] = clock]
      /\ source' = [source EXCEPT ![k].pc = "closed"]
      /\ UNCHANGED <<clock, tip, from, served>> /\ UNCHANGED checkVars
  BY DEF Close, Goto, checkVars
<1> DEFINE w == windows[k]
           v == windows'[k]
<1>2. k \in DOMAIN windows /\ w \in Window /\ CursorOK(w) /\ until[k] = None
  BY <1>1 DEF FilterInv, Lifecycle, TypeOK, Counted
<1>3. t \in Slots /\ clock \in Slots /\ t <= clock /\ None \notin Nat /\ t \in Nat /\ clock \in Nat
  <2>1. tip \in Nat /\ tip <= clock /\ clock \in Nat /\ clock \in Slots /\ None \notin Nat
    BY Numbers DEF FilterInv, TypeOK
  <2>2. t \in Nat /\ t <= tip
    BY <2>1 DEF TipRead
  <2>3. QED
    BY <2>1, <2>2, FilterAuditAssumption DEF Slots
<1>4. /\ DOMAIN windows' = DOMAIN windows
      /\ \A q \in DOMAIN windows : q # k => windows'[q] = windows[q]
      /\ v = [w EXCEPT !.tip_close = t, !.ended = TRUE]
      /\ source'[k].pc = "closed"
      /\ \A q \in Windows : q # k => source'[q] = source[q]
      /\ until'[k] = clock /\ \A q \in Windows : q # k => until'[q] = until[q]
  BY <1>1, <1>2 DEF FilterInv, Shape
<1> HIDE DEF v
<1>5. /\ v \in Window /\ v.ended /\ v.tip_close = t /\ v.subscribed = w.subscribed
      /\ v.tip_open = w.tip_open /\ v.first = w.first /\ v.sampled = w.sampled
      /\ SameCounters(v, w)
  <2> HIDE DEF w
  <2>1. QED
    BY <1>2, <1>3, <1>4 DEF Window, SameCounters
<1>6. ASSUME NEW q \in DOMAIN windows', q # k
      PROVE  /\ q \in DOMAIN windows /\ q \in Windows /\ windows'[q] = windows[q]
             /\ source'[q] = source[q] /\ until'[q] = until[q]
  BY <1>4, <1>6 DEF FilterInv, TypeOK
<1>7. TypeOK' /\ Shape'
  <2>1. TypeOK'
    BY <1>1, <1>4, <1>5, CheckerAlone DEF FilterInv, TypeOK, v
  <2>2. Shape'
    BY <1>1, <1>3, CheckerAlone DEF FilterInv, Shape
  <2>3. QED
    BY <2>1, <2>2
<1>8. Lifecycle'
  <2>1. \A r \in reports' : r.key \in Windows /\ source'[r.key].pc = "closed" /\ r.key \notin DOMAIN windows'
    BY <1>1, <1>2, <1>4 DEF FilterInv, Lifecycle, checkVars
  <2>2. \A q \in DOMAIN windows' :
           /\ windows'[q].ended <=> source'[q].pc = "closed"
           /\ windows'[q].ended <=> windows'[q].tip_close # None
           /\ source'[q].pc \in {"live", "delivering"} => windows'[q].subscribed
           /\ source'[q].pc = "connecting" => ~ windows'[q].subscribed
    <3>1. /\ windows'[k].ended /\ windows'[k].tip_close # None /\ source'[k].pc = "closed"
      BY <1>3, <1>4, <1>5 DEF v
    <3>2. QED
      BY <1>6, <3>1 DEF FilterInv, Lifecycle
  <2>3. \A q \in Windows :
           /\ source'[q].pc = "none" => q \notin DOMAIN windows'
           /\ source'[q].pc \in {"connecting", "live", "delivering"} => q \in DOMAIN windows'
           /\ source'[q].pc = "closed" <=> until'[q] # None
    BY <1>1, <1>3, <1>4 DEF FilterInv, Lifecycle
  <2>4. \A x \in (tasks \cup retries)' : source'[x.key].pc # "none"
    BY <1>1, <1>4, Numbers DEF FilterInv, Lifecycle, checkVars
  <2>5. QED
    BY <1>1, <2>1, <2>2, <2>3, <2>4, CheckerAlone DEF Lifecycle
<1>9. OnePerSlot' /\ ReportsOK'
  BY <1>1, CheckerAlone
<1>10. StartSlot(v) = StartSlot(w)
  BY <1>5 DEF StartSlot
<1>11. Counted'
  <2>1. CursorOK(v)
    <3> HIDE DEF w
    <3>1. QED
      BY <1>2, <1>5, <1>10 DEF CursorOK, SameCounters
  <2>2. QED
    BY <1>1, <1>4, <1>5, <2>1, CountedStable DEF v
<1>12. Deliveries'
  <2>1. \A q \in Windows : /\ source'[q].pc = "delivering" => q # k
                           /\ source'[q].pc \in {"none", "connecting", "live"} => q # k
    BY <1>4
  <2>2. QED
    BY <1>1, <1>3, <1>4, <2>1 DEF FilterInv, Deliveries
<1>13. Kept'
  <2>1. ASSUME NEW q \in DOMAIN windows, NEW r PROVE InDelivery(q, r)' <=> InDelivery(q, r)
    BY <1>1, <1>4, <2>1 DEF InDelivery, FilterInv, TypeOK
  <2>2. /\ v.subscribed => from'[k] # None
        /\ v.tip_open # None => from'[k] # None /\ from'[k] < v.tip_open + START_MARGIN
        /\ v.tip_close # None => v.tip_close <= until'[k]
        /\ v.first = None => \A s \in served'[k] : InDelivery(k, s)'
        /\ v.first # None => v.first \in served'[k] /\ \A s \in served'[k] : v.first <= s
        /\ \A s \in served'[k] :
               (/\ ~ InDelivery(k, s)' /\ Sampled(s) /\ s >= StartSlot(v)
                /\ v.next = None \/ s >= v.next)
               => s \in v.sampled
    BY <1>1, <1>2, <1>3, <1>4, <1>5, <1>10, <2>1 DEF FilterInv, Kept, SameCounters
  <2>3. ASSUME NEW q \in DOMAIN windows', q # k
        PROVE  LET u == windows'[q] IN
               /\ u.subscribed => from'[q] # None
               /\ u.tip_open # None => from'[q] # None /\ from'[q] < u.tip_open + START_MARGIN
               /\ u.tip_close # None => u.tip_close <= until'[q]
               /\ u.first = None => \A s \in served'[q] : InDelivery(q, s)'
               /\ u.first # None => u.first \in served'[q] /\ \A s \in served'[q] : u.first <= s
               /\ \A s \in served'[q] :
                      (/\ ~ InDelivery(q, s)' /\ Sampled(s) /\ s >= StartSlot(u)
                       /\ u.next = None \/ s >= u.next)
                      => s \in u.sampled
    BY <1>1, <1>6, <2>1, <2>3 DEF FilterInv, Kept
  <2>4. QED
    BY <2>2, <2>3 DEF Kept, v
<1>14. TasksKnow'
  <2>1. ASSUME NEW x \in tasks \cup retries PROVE Knows(x)'
    BY <1>1, <1>2, <1>4, Numbers, KnowsStable
  <2>2. QED
    BY <1>1, <2>1 DEF TasksKnow, checkVars
<1>15. QED
  BY <1>7, <1>8, <1>9, <1>11, <1>12, <1>13, <1>14 DEF FilterInv

\* The delivery moves the start of the range at most once, and is kept if it is in it.
LEMMA OnDeliveryStep ==
  ASSUME FilterInv, NEW k \in Windows, OnDelivery(k)
  PROVE  FilterInv'
<1> DEFINE s == source[k].slot
           w == windows[k]
           v == windows'[k]
           open == IF w.subscribed /\ w.tip_open = None /\ s > 0 THEN s ELSE w.tip_open
           seen == [w EXCEPT !.first = OrElse(w.first, s), !.tip_open = open, !.max = Larger(w.max, s)]
<1>1. /\ source[k].pc = "delivering"
      /\ windows' = [windows EXCEPT ![k] =
             IF Keeps(seen, s) THEN [seen EXCEPT !.sampled = @ \cup {s}] ELSE seen]
      /\ source' = [source EXCEPT ![k] = [pc |-> "live", slot |-> 0]]
      /\ UNCHANGED <<clock, tip, from, until, served>> /\ UNCHANGED checkVars
  BY DEF OnDelivery, checkVars
<1>2. /\ k \in DOMAIN windows /\ w \in Window /\ CursorOK(w) /\ w.subscribed /\ ~ w.ended
      /\ w.tip_close = None
  BY <1>1 DEF FilterInv, Lifecycle, TypeOK, Counted
<1>3. /\ s \in served[k] /\ from[k] # None /\ 1 <= from[k] /\ from[k] <= s
      /\ s \in Slots /\ s \in Nat /\ from[k] \in Nat /\ None \notin Nat
      /\ START_MARGIN \in Nat \ {0}
  <2>1. s \in served[k] /\ from[k] # None /\ 1 <= from[k] /\ from[k] <= s
    BY <1>1 DEF FilterInv, Deliveries
  <2>2. s \in Slots /\ s \in Nat /\ from[k] \in Nat /\ None \notin Nat
    BY <2>1, Numbers DEF FilterInv, Shape
  <2>3. START_MARGIN \in Nat \ {0}
    BY FilterAuditAssumption, EnvironmentAssumption
  <2>4. QED
    BY <2>1, <2>2, <2>3
<1>4. /\ DOMAIN windows' = DOMAIN windows
      /\ \A q \in DOMAIN windows : q # k => windows'[q] = windows[q]
      /\ v = IF Keeps(seen, s) THEN [seen EXCEPT !.sampled = seen.sampled \cup {s}] ELSE seen
      /\ source'[k] = [pc |-> "live", slot |-> 0]
      /\ \A q \in Windows : q # k => source'[q] = source[q]
  BY <1>1, <1>2 DEF FilterInv, Shape
<1>5. open = IF w.tip_open = None THEN s ELSE w.tip_open
  BY <1>2, <1>3
<1>6. open \in Slots /\ OrElse(w.first, s) \in Slots /\ Larger(w.max, s) \in Slots
  BY <1>2, <1>3, <1>5 DEF OrElse, Larger, Window
<1> HIDE DEF s, w, v, open
<1>7. /\ seen \in Window /\ seen.first = OrElse(w.first, s) /\ seen.tip_open = open
      /\ seen.sampled = w.sampled /\ seen.subscribed = w.subscribed /\ seen.ended = w.ended
      /\ seen.tip_close = w.tip_close /\ SameCounters(seen, w)
  BY <1>2, <1>6 DEF Window, SameCounters
<1> HIDE DEF seen
<1>8. /\ v \in Window /\ v.first = OrElse(w.first, s) /\ v.tip_open = open
      /\ v.sampled = IF Keeps(seen, s) THEN w.sampled \cup {s} ELSE w.sampled
      /\ v.subscribed = w.subscribed /\ v.ended = w.ended
      /\ v.tip_close = w.tip_close /\ SameCounters(v, w)
  <2>1. CASE Keeps(seen, s)
    <3>1. v = [seen EXCEPT !.sampled = seen.sampled \cup {s}]
      BY <1>4, <2>1
    <3>2. QED
      BY <1>3, <1>7, <2>1, <3>1 DEF Window, SameCounters
  <2>2. CASE ~ Keeps(seen, s)
    BY <1>4, <1>7, <2>2
  <2>3. QED
    BY <2>1, <2>2
<1>9. ASSUME NEW q \in DOMAIN windows', q # k
      PROVE  /\ q \in DOMAIN windows /\ q \in Windows /\ windows'[q] = windows[q]
             /\ source'[q] = source[q]
  BY <1>4, <1>9 DEF FilterInv, TypeOK
<1>10. TypeOK' /\ Shape'
  <2>1. TypeOK'
    BY <1>1, <1>4, <1>8, CheckerAlone DEF FilterInv, TypeOK, v
  <2>2. 0 \in Slots
    BY FilterAuditAssumption DEF Slots
  <2>3. Shape'
    BY <1>1, <2>2, CheckerAlone DEF FilterInv, Shape
  <2>4. QED
    BY <2>1, <2>3
<1>11. Lifecycle'
  <2>1. \A r \in reports' : r.key \in Windows /\ source'[r.key].pc = "closed" /\ r.key \notin DOMAIN windows'
    BY <1>1, <1>2, <1>4 DEF FilterInv, Lifecycle, checkVars
  <2>2. \A q \in DOMAIN windows' :
           /\ windows'[q].ended <=> source'[q].pc = "closed"
           /\ windows'[q].ended <=> windows'[q].tip_close # None
           /\ source'[q].pc \in {"live", "delivering"} => windows'[q].subscribed
           /\ source'[q].pc = "connecting" => ~ windows'[q].subscribed
    <3>1. /\ windows'[k].subscribed /\ ~ windows'[k].ended /\ windows'[k].tip_close = None
          /\ source'[k].pc = "live"
      <4>1. source'[k].pc = "live"
        BY <1>4
      <4>2. v.subscribed /\ ~ v.ended /\ v.tip_close = None
        BY <1>2, <1>8
      <4>3. QED
        BY <4>1, <4>2 DEF v
    <3>2. QED
      BY <1>9, <3>1 DEF FilterInv, Lifecycle
  <2>3. \A q \in Windows :
           /\ source'[q].pc = "none" => q \notin DOMAIN windows'
           /\ source'[q].pc \in {"connecting", "live", "delivering"} => q \in DOMAIN windows'
           /\ source'[q].pc = "closed" <=> until'[q] # None
    BY <1>1, <1>2, <1>4 DEF FilterInv, Lifecycle
  <2>4. \A x \in (tasks \cup retries)' : source'[x.key].pc # "none"
    BY <1>1, <1>4, Numbers DEF FilterInv, Lifecycle, checkVars
  <2>5. QED
    BY <1>1, <2>1, <2>2, <2>3, <2>4, CheckerAlone DEF Lifecycle
<1>12. OnePerSlot' /\ ReportsOK'
  BY <1>1, CheckerAlone
<1>13. w.tip_open # None => /\ open = w.tip_open /\ StartSlot(w) <= StartSlot(v)
                            /\ w.first # None => StartSlot(w) = StartSlot(v)
                            /\ StartSlot(w) \in Nat /\ StartSlot(v) \in Nat
  <2> SUFFICES ASSUME w.tip_open # None
               PROVE  /\ open = w.tip_open /\ StartSlot(w) <= StartSlot(v)
                      /\ w.first # None => StartSlot(w) = StartSlot(v)
                      /\ StartSlot(w) \in Nat /\ StartSlot(v) \in Nat
    OBVIOUS
  <2>1. open = w.tip_open
    BY <1>5
  <2>2. w.first # None => StartSlot(v) = StartSlot(w)
    BY <1>8, <2>1 DEF StartSlot, OrElse
  <2>3. StartSlot(w) \in Nat /\ StartSlot(v) \in Nat /\ v.tip_open + START_MARGIN <= StartSlot(v)
        /\ w.tip_open \in Nat
        /\ \/ StartSlot(w) = w.tip_open + START_MARGIN
           \/ w.first # None /\ StartSlot(w) = w.first + START_MARGIN
    BY <1>2, <1>3, <1>6, <1>8, <2>1, StartBounds, SlotNumbers
  <2>4. StartSlot(w) <= StartSlot(v)
    BY <1>8, <2>1, <2>2, <2>3
  <2>5. QED
    BY <2>1, <2>2, <2>3, <2>4
<1>14. Counted'
  <2>1. CursorOK(v)
    <3>1. CASE w.next = None
      BY <1>2, <1>3, <1>6, <1>8, <3>1, SlotNumbers DEF CursorOK, SameCounters
    <3>2. CASE w.next # None
      <4>1. w.tip_open # None /\ w.cursor \in Nat /\ w.cursor <= RoundUp(StartSlot(w))
        BY <1>2, <3>2 DEF CursorOK, Window
      <4>2. RoundUp(StartSlot(w)) <= RoundUp(StartSlot(v))
            /\ RoundUp(StartSlot(w)) \in Nat /\ RoundUp(StartSlot(v)) \in Nat
        BY <1>13, <4>1, RoundUpMonotone, RoundedUp
      <4>3. w.cursor <= RoundUp(StartSlot(v))
        BY <4>1, <4>2
      <4>4. QED
        BY <1>2, <1>8, <1>13, <3>2, <4>1, <4>3 DEF CursorOK, SameCounters
    <3>3. QED
      BY <3>1, <3>2
  <2>2. QED
    BY <1>1, <1>4, <1>8, <2>1, CountedStable DEF v, w
<1>15. Deliveries'
  <2>1. source'[k].pc = "live"
    BY <1>4
  <2>2. QED
    BY <1>1, <1>3, <1>4, <2>1 DEF FilterInv, Deliveries
<1>16. Kept'
  <2>1. ASSUME NEW q \in DOMAIN windows', q # k, NEW r PROVE InDelivery(q, r)' <=> InDelivery(q, r)
    BY <1>9, <2>1 DEF InDelivery
  <2>2. \A r : (InDelivery(k, r) <=> r = s) /\ ~ InDelivery(k, r)'
    BY <1>1, <1>4 DEF InDelivery, s
  <2>3. /\ w.tip_open # None => from[k] < w.tip_open + START_MARGIN
        /\ w.first = None => \A r \in served[k] : r = s
        /\ w.first # None => w.first \in served[k] /\ \A r \in served[k] : w.first <= r
        /\ \A r \in served[k] :
               (r # s /\ Sampled(r) /\ r >= StartSlot(w) /\ (w.next = None \/ r >= w.next))
               => r \in w.sampled
    BY <1>2, <2>2 DEF FilterInv, Kept, w
  <2>4. from[k] < v.tip_open + START_MARGIN
    <3>1. from[k] < s + START_MARGIN
      BY <1>3
    <3>2. QED
      BY <1>5, <1>8, <2>3, <3>1
  <2>5. v.first # None /\ v.first \in served[k] /\ \A r \in served[k] : v.first <= r
    <3>1. CASE w.first = None
      BY <1>3, <1>8, <2>3, <3>1 DEF OrElse
    <3>2. CASE w.first # None
      BY <1>8, <2>3, <3>2 DEF OrElse
    <3>3. QED
      BY <3>1, <3>2
  <2>6. ASSUME NEW r \in served[k], Sampled(r), r >= StartSlot(v), v.next = None \/ r >= v.next
        PROVE  r \in v.sampled
    <3>1. CASE r = s
      <4>1. StartSlot(seen) = StartSlot(v)
        BY <1>7, <1>8 DEF StartSlot
      <4>2. seen.tip_open # None
        BY <1>3, <1>6, <1>7, SlotNumbers
      <4>3. Keeps(seen, s)
        BY <2>6, <3>1, <4>1, <4>2 DEF Keeps
      <4>4. QED
        BY <1>8, <3>1, <4>3
    <3>2. CASE r # s
      <4>1. w.first # None
        BY <2>3, <3>2
      <4>2. w.tip_open # None
        BY <1>2, <4>1 DEF CursorOK
      <4>3. StartSlot(w) = StartSlot(v)
        BY <1>13, <4>1, <4>2
      <4>4. v.next = w.next
        BY <1>8 DEF SameCounters
      <4>5. r \in w.sampled
        BY <2>3, <2>6, <3>2, <4>3, <4>4
      <4>6. QED
        BY <1>8, <4>5
    <3>3. QED
      BY <3>1, <3>2
  <2>7. v.tip_close = None
    BY <1>2, <1>8
  <2> DEFINE KeptAt(q, z) ==
               /\ z.subscribed => from[q] # None
               /\ z.tip_open # None => from[q] # None /\ from[q] < z.tip_open + START_MARGIN
               /\ z.tip_close # None => z.tip_close <= until[q]
               /\ z.first = None => \A r \in served[q] : InDelivery(q, r)'
               /\ z.first # None => z.first \in served[q] /\ \A r \in served[q] : z.first <= r
               /\ \A r \in served[q] :
                      (/\ ~ InDelivery(q, r)' /\ Sampled(r) /\ r >= StartSlot(z)
                       /\ z.next = None \/ r >= z.next)
                      => r \in z.sampled
  <2>8. KeptAt(k, v)
    <3>1. from[k] # None
      BY <1>3
    <3>2. QED
      BY <2>4, <2>5, <2>6, <2>7, <3>1
  <2>9. ASSUME NEW q \in DOMAIN windows', q # k PROVE KeptAt(q, windows'[q])
    <3>1. q \in DOMAIN windows /\ windows'[q] = windows[q]
      BY <1>9, <2>9
    <3>2. \A r : InDelivery(q, r)' <=> InDelivery(q, r)
      BY <2>1, <2>9
    <3>3. QED
      BY <3>1, <3>2 DEF FilterInv, Kept
  <2>10. \A q \in DOMAIN windows' : KeptAt(q, windows'[q])
    BY <2>8, <2>9 DEF v
  <2>11. from' = from /\ until' = until /\ served' = served
    BY <1>1
  <2>12. QED
    BY <2>10, <2>11 DEF Kept, Sampled, StartSlot
<1>17. TasksKnow'
  <2>1. ASSUME NEW x \in tasks \cup retries PROVE Knows(x)'
    BY <1>1, Numbers, KnowsStable
  <2>2. QED
    BY <1>1, <2>1 DEF TasksKnow, checkVars
<1>18. QED
  BY <1>10, <1>11, <1>12, <1>14, <1>15, <1>16, <1>17 DEF FilterInv

-----------------------------------------------------------------------------
(* take_ready. *)

NewTask(k, s) == [key |-> k, slot |-> s, delivered |-> s \in windows[k].sampled, attempts |-> 0]

\* What TakeReady does with the tip at t and these retries due.
Takes(t, due) ==
    /\ t \in TipRead /\ due \subseteq retries /\ checker.pc = "idle"
    /\ checker' = [pc |-> "checking", calls |-> 0]
    /\ windows' = [k \in DOMAIN windows |-> Taken(windows[k], t)]
    /\ retries' = retries \ due
    /\ \A x : x \in tasks' <=> \/ x \in due
                              \/ \E k \in DOMAIN windows : \E s \in NewSlots(windows[k], t) :
                                     x = NewTask(k, s)
    /\ UNCHANGED <<clock, tip, sourceVars, cache, backoff, missed, reports>>

LEMMA TakeReadyTakes ==
  ASSUME TakeReady
  PROVE  \E t, due : Takes(t, due)
<1>1. PICK t \in TipRead, due \in SUBSET retries :
        LET opened(k) == Opened(windows[k], t)
            ready == {k \in DOMAIN windows : Ready(opened(k), t)}
            advanced(k) == Advanced(opened(k), t)
            new(k) == {[key |-> k, slot |-> s, delivered |-> s \in windows[k].sampled, attempts |-> 0] :
                          s \in Handed(advanced(k), t)}
        IN  /\ checker.pc = "idle"
            /\ checker' = [pc |-> "checking", calls |-> 0]
            /\ windows' = [k \in DOMAIN windows |->
                   IF k \in ready THEN HandOut(advanced(k), t) ELSE opened(k)]
            /\ retries' = retries \ due
            /\ tasks' = due \cup UNION {new(k) : k \in ready}
            /\ UNCHANGED <<clock, tip, sourceVars, cache, backoff, missed, reports>>
  BY DEF TakeReady
<1>2. windows' = [k \in DOMAIN windows |-> Taken(windows[k], t)]
  BY <1>1 DEF Taken
<1>3. \A x : x \in tasks' <=> \/ x \in due
                             \/ \E k \in DOMAIN windows : \E s \in NewSlots(windows[k], t) :
                                    x = NewTask(k, s)
  BY <1>1 DEF NewSlots, NewTask
<1>4. QED
  BY <1>1, <1>2, <1>3 DEF Takes

\* The window of a task that is handed out, and the slot.
LEMMA NewTaskKnows ==
  ASSUME FilterInv, NEW t \in TipRead, NEW k \in DOMAIN windows, NEW s \in NewSlots(windows[k], t)
  PROVE  /\ Knows(NewTask(k, s)) /\ NewTask(k, s) \in Task /\ s \in Slots
         /\ \A x \in tasks \cup retries : x.key = k => x.slot # s
<1> DEFINE w == windows[k]
           v == Taken(w, t)
<1>1. k \in Windows /\ w \in Window /\ CursorOK(w)
  BY DEF FilterInv, TypeOK, Counted
<1>2. t \in Slots /\ t \in Nat /\ clock \in Nat /\ t <= clock /\ clock - t <= MaxTipLag
  <2>1. tip \in Slots /\ tip \in Nat /\ clock \in Nat /\ tip <= clock
    BY Numbers DEF FilterInv, TypeOK
  <2>2. t \in Nat /\ t <= tip /\ clock - t <= MaxTipLag
    BY <2>1 DEF TipRead
  <2>3. QED
    BY <2>1, <2>2, FilterAuditAssumption DEF Slots
<1>3. /\ v \in Window /\ SameRange(v, w) /\ OpenedOnce(v, w, t)
      /\ HandedOut(v, w, NewSlots(w, t), t)
  BY <1>1, <1>2, TakenFacts
<1>4. /\ s \in Slots /\ Sampled(s) /\ s + LagSlots <= t
      /\ v.tip_open # None /\ v.tip_open + START_MARGIN <= s
      /\ s + END_MARGIN <= OrElse(w.tip_close, t)
      /\ w.next # None => w.next <= s
  BY <1>3 DEF HandedOut
<1>5. s \in Nat /\ v.tip_open \in Nat /\ None \notin Nat /\ ServerDelay \in Nat /\ LagSlots \in Nat
      /\ START_MARGIN \in Nat /\ END_MARGIN \in Nat /\ MaxTipLag \in Nat
      /\ ServerDelay < LagSlots /\ ServerDelay < END_MARGIN /\ MaxTipLag < START_MARGIN
  BY <1>3, <1>4, SlotNumbers, FilterAuditAssumption, EnvironmentAssumption DEF Window
<1> HIDE DEF v, w
<1>6. from[k] < s
  <2>1. CASE v.tip_open = w.tip_open
    <3>1. from[k] \in Nat /\ from[k] < v.tip_open + START_MARGIN
      BY <1>1, <1>4, <2>1, Numbers DEF FilterInv, Kept, w
    <3>2. QED
      BY <1>4, <1>5, <3>1
  <2>2. CASE v.tip_open # w.tip_open
    <3>1. w.subscribed /\ v.tip_open = t
      BY <1>3, <2>2 DEF OpenedOnce
    <3>2. from[k] # None
      BY <3>1 DEF FilterInv, Kept, w
    <3>3. from[k] \in Nat /\ from[k] <= clock
      BY <1>1, <3>2, Numbers DEF FilterInv, Deliveries
    <3>4. QED
      BY <1>2, <1>4, <1>5, <3>1, <3>3
  <2>3. QED
    BY <2>1, <2>2
<1>7. s + ServerDelay < OrElse(until[k], clock)
  <2>1. CASE w.tip_close = None
    <3>1. until[k] = None
      BY <1>1, <2>1 DEF FilterInv, Lifecycle, w
    <3>2. OrElse(w.tip_close, t) = t /\ OrElse(until[k], clock) = clock
      BY <2>1, <3>1 DEF OrElse
    <3>3. QED
      BY <1>2, <1>4, <1>5, <3>2
  <2>2. CASE w.tip_close # None
    <3>1. until[k] # None /\ w.tip_close <= until[k]
      BY <1>1, <2>2 DEF FilterInv, Lifecycle, Kept, w
    <3>2. until[k] \in Nat /\ w.tip_close \in Nat
      BY <1>1, <2>2, <3>1, Numbers, SlotNumbers DEF Window
    <3>3. OrElse(w.tip_close, t) = w.tip_close /\ OrElse(until[k], clock) = until[k]
      BY <2>2, <3>1 DEF OrElse
    <3>4. QED
      BY <1>4, <1>5, <3>1, <3>2, <3>3
  <2>3. QED
    BY <2>1, <2>2
<1>8. s + ServerDelay < clock
  BY <1>2, <1>4, <1>5
<1>9. ASSUME s \in served[k], s \notin w.sampled PROVE Early(k, s)
  <2>1. ~ InDelivery(k, s)
    BY <1>1, <1>2, <1>5, <1>8 DEF FilterInv, Deliveries, InDelivery
  <2>2. w.first # None
    BY <1>9, <2>1 DEF FilterInv, Kept, w
  <2>3. w.tip_open # None /\ v.tip_open = w.tip_open
    BY <1>1, <1>3, <2>2 DEF CursorOK, OpenedOnce
  <2>4. ~ (s >= StartSlot(w))
    BY <1>4, <1>9, <2>1 DEF FilterInv, Kept, w
  <2>5. w.first \in Nat /\ StartSlot(w) \in Nat
        /\ \/ StartSlot(w) = w.tip_open + START_MARGIN
           \/ StartSlot(w) = w.first + START_MARGIN
    BY <1>1, <2>2, <2>3, StartBounds, SlotNumbers DEF Window
  <2>6. s < w.first + START_MARGIN
    BY <1>4, <1>5, <2>3, <2>4, <2>5
  <2>7. w.first \in served[k] /\ \A q \in served[k] : w.first <= q
    BY <2>2 DEF FilterInv, Kept, w
  <2>8. QED
    BY <1>9, <2>6, <2>7 DEF Early
<1>10. Knows(NewTask(k, s))
  BY <1>6, <1>7, <1>8, <1>9 DEF Knows, SeenWhole, NewTask, w
<1>11. NewTask(k, s) \in Task
  <2>1. 0 \in 0..MAX_ATTEMPTS
    BY FilterAuditAssumption
  <2>2. QED
    BY <1>1, <1>4, <2>1 DEF NewTask, Task
<1>12. ASSUME NEW x \in tasks \cup retries, x.key = k PROVE x.slot # s
  <2>1. w.next # None /\ x.slot < w.next
    BY <1>12 DEF FilterInv, Counted, w
  <2>2. w.next \in Nat /\ x.slot \in Nat
    BY <1>1, <2>1, Numbers DEF Window
  <2>3. QED
    BY <1>4, <1>5, <2>1, <2>2
<1>13. QED
  BY <1>4, <1>10, <1>11, <1>12

\* The checker's steps leave the environment alone, and what is known about a task stays known.
LEMMA EnvironmentAlone ==
  ASSUME FilterInv, UNCHANGED <<clock, tip, sourceVars>>
  PROVE  /\ Deliveries'
         /\ clock' \in Slots /\ tip' \in Slots /\ tip' <= clock'
         /\ source' \in [Windows -> [pc : {"none", "connecting", "live", "delivering", "closed"}, slot : Slots]]
         /\ from' \in [Windows -> Slots \cup {None}] /\ until' \in [Windows -> Slots \cup {None}]
         /\ served' \in [Windows -> SUBSET Slots]
         /\ \A x : Knows(x)' <=> Knows(x)
         /\ \A k, s : InDelivery(k, s)' <=> InDelivery(k, s)
<1>1. clock' = clock /\ tip' = tip /\ source' = source /\ from' = from /\ until' = until
      /\ served' = served
  BY DEF sourceVars
<1>2. Deliveries'
  BY <1>1 DEF FilterInv, Deliveries
<1>3. \A x : Knows(x)' <=> Knows(x)
  BY <1>1 DEF Knows, SeenWhole, Early
<1>4. \A k, s : InDelivery(k, s)' <=> InDelivery(k, s)
  BY <1>1 DEF InDelivery
<1>5. QED
  BY <1>1, <1>2, <1>3, <1>4 DEF FilterInv, TypeOK, Shape

LEMMA TakeReadyStep ==
  ASSUME FilterInv, NEW t, NEW due, Takes(t, due)
  PROVE  FilterInv'
<1>1. /\ t \in TipRead /\ due \subseteq retries /\ checker.pc = "idle"
      /\ checker' = [pc |-> "checking", calls |-> 0]
      /\ windows' = [k \in DOMAIN windows |-> Taken(windows[k], t)]
      /\ retries' = retries \ due
      /\ \A x : x \in tasks' <=> \/ x \in due
                                \/ \E k \in DOMAIN windows : \E s \in NewSlots(windows[k], t) :
                                       x = NewTask(k, s)
      /\ UNCHANGED <<clock, tip, sourceVars>>
      /\ cache' = cache /\ reports' = reports
  BY DEF Takes
<1>2. t \in Slots
  <2>1. tip \in Slots /\ tip \in Nat
    BY Numbers DEF FilterInv, TypeOK
  <2>2. QED
    BY <1>1, <2>1, FilterAuditAssumption DEF TipRead, Slots
<1>3. tasks = {} /\ DOMAIN windows' = DOMAIN windows /\ DOMAIN windows \subseteq Windows
  BY <1>1 DEF FilterInv, Lifecycle, TypeOK
<1>4. ASSUME NEW k \in DOMAIN windows
      PROVE  /\ windows[k] \in Window /\ CursorOK(windows[k])
             /\ windows'[k] \in Window /\ CursorOK(windows'[k])
             /\ SameRange(windows'[k], windows[k]) /\ OpenedOnce(windows'[k], windows[k], t)
             /\ HandedOut(windows'[k], windows[k], NewSlots(windows[k], t), t)
  <2>1. windows[k] \in Window /\ CursorOK(windows[k])
    BY DEF FilterInv, TypeOK, Counted
  <2>2. windows'[k] = Taken(windows[k], t)
    BY <1>1
  <2>3. QED
    BY <1>2, <2>1, <2>2, TakenFacts
<1>5. \A x : x \in (tasks \cup retries)' <=>
             \/ x \in tasks \cup retries
             \/ \E k \in DOMAIN windows : \E s \in NewSlots(windows[k], t) : x = NewTask(k, s)
  BY <1>1, <1>3
<1>6. ASSUME NEW k \in DOMAIN windows, NEW s \in NewSlots(windows[k], t)
      PROVE  /\ Knows(NewTask(k, s)) /\ NewTask(k, s) \in Task /\ s \in Slots
             /\ NewTask(k, s).key = k /\ NewTask(k, s).slot = s /\ NewTask(k, s).attempts = 0
             /\ \A x \in tasks \cup retries : x.key = k => x.slot # s
  BY <1>1, NewTaskKnows DEF NewTask
<1>7. TypeOK'
  <2>1. \A x \in (tasks \cup retries)' : x \in Task /\ x.attempts < MAX_ATTEMPTS
    <3>1. 0 < MAX_ATTEMPTS
      BY FilterAuditAssumption
    <3>2. QED
      BY <1>5, <1>6, <3>1 DEF FilterInv, TypeOK
  <2>2. checker'.calls <= MAX_CALLS_PER_TICK /\ Len(cache') <= BLOCK_CACHE
    BY <1>1, FilterAuditAssumption DEF FilterInv, TypeOK
  <2>3. QED
    BY <1>1, <1>3, <1>4, <2>1, <2>2, EnvironmentAlone DEF TypeOK
<1>8. Shape'
  BY <1>1, EnvironmentAlone DEF FilterInv, Shape
<1>9. Lifecycle'
  <2>1. source' = source /\ until' = until
    BY <1>1 DEF sourceVars
  <2>2. ASSUME NEW k \in DOMAIN windows
        PROVE  /\ windows'[k].ended = windows[k].ended /\ windows'[k].tip_close = windows[k].tip_close
               /\ windows'[k].subscribed = windows[k].subscribed
    BY <1>4 DEF SameRange
  <2>3. \A x \in (tasks \cup retries)' : source'[x.key].pc # "none"
    BY <1>3, <1>5, <1>6, <2>1 DEF FilterInv, Lifecycle
  <2>4. QED
    BY <1>1, <1>3, <2>1, <2>2, <2>3 DEF FilterInv, Lifecycle
<1>10. OnePerSlot'
  <2>1. (tasks \cap retries)' = {}
    <3>1. ASSUME NEW x \in tasks', x \in retries' PROVE FALSE
      <4>1. PICK k, s : k \in DOMAIN windows /\ s \in NewSlots(windows[k], t) /\ x = NewTask(k, s)
        BY <1>1, <3>1
      <4>2. x \in tasks \cup retries /\ x.key = k /\ x.slot = s
        BY <1>1, <1>6, <3>1, <4>1
      <4>3. QED
        BY <1>6, <4>1, <4>2
    <3>2. QED
      BY <3>1
  <2>2. ASSUME NEW x \in (tasks \cup retries)', NEW y \in (tasks \cup retries)',
               x.key = y.key, x.slot = y.slot
        PROVE  x = y
    <3>1. CASE x \in tasks \cup retries /\ y \in tasks \cup retries
      BY <2>2, <3>1 DEF FilterInv, OnePerSlot
    <3>2. CASE x \notin tasks \cup retries
      <4>1. PICK k, s : k \in DOMAIN windows /\ s \in NewSlots(windows[k], t) /\ x = NewTask(k, s)
        BY <1>5, <3>2
      <4>2. x.key = k /\ x.slot = s
        BY <1>6, <4>1
      <4>3. y \notin tasks \cup retries
        BY <1>6, <2>2, <4>1, <4>2
      <4>4. y = NewTask(k, s)
        BY <1>5, <1>6, <2>2, <4>1, <4>2, <4>3
      <4>5. QED
        BY <4>1, <4>4
    <3>3. CASE y \notin tasks \cup retries
      <4>1. PICK k, s : k \in DOMAIN windows /\ s \in NewSlots(windows[k], t) /\ y = NewTask(k, s)
        BY <1>5, <3>3
      <4>2. y.key = k /\ y.slot = s
        BY <1>6, <4>1
      <4>3. x \notin tasks \cup retries
        BY <1>6, <2>2, <4>1, <4>2
      <4>4. x = NewTask(k, s)
        BY <1>5, <1>6, <2>2, <4>1, <4>2, <4>3
      <4>5. QED
        BY <4>1, <4>4
    <3>4. QED
      BY <3>1, <3>2, <3>3
  <2>3. QED
    BY <2>1, <2>2 DEF OnePerSlot
<1>11. Counted'
  <2> SUFFICES ASSUME NEW k \in DOMAIN windows
               PROVE  /\ CursorOK(windows'[k])
                      /\ \A x \in (tasks \cup retries)' :
                             x.key = k => windows'[k].next # None /\ x.slot < windows'[k].next
                      /\ windows'[k].in_flight = Cardinality(OutSlots(k)')
                      /\ windows'[k].checked + windows'[k].skipped + windows'[k].unchecked
                           + windows'[k].in_flight = Passed(windows'[k])
    BY <1>3 DEF Counted
  <2> DEFINE w == windows[k]
             v == windows'[k]
             H == NewSlots(w, t)
  <2>1. /\ w \in Window /\ v \in Window /\ CursorOK(v) /\ SameRange(v, w) /\ HandedOut(v, w, H, t)
        /\ CursorOK(w)
    BY <1>4
  <2>2. /\ \A x \in tasks \cup retries : x.key = k => w.next # None /\ x.slot < w.next
        /\ w.in_flight = Cardinality(OutSlots(k))
        /\ w.checked + w.skipped + w.unchecked + w.in_flight = Passed(w)
    BY DEF FilterInv, Counted
  <2>3. OutSlots(k)' = OutSlots(k) \cup H
    <3>1. ASSUME NEW x \in (tasks \cup retries)', x.key = k PROVE x.slot \in OutSlots(k) \cup H
      <4>1. CASE x \in tasks \cup retries
        BY <3>1, <4>1 DEF OutSlots
      <4>2. CASE x \notin tasks \cup retries
        BY <1>5, <1>6, <3>1, <4>2
      <4>3. QED
        BY <4>1, <4>2
    <3>2. ASSUME NEW s \in OutSlots(k) PROVE s \in OutSlots(k)'
      BY <1>5 DEF OutSlots
    <3>3. ASSUME NEW s \in H PROVE s \in OutSlots(k)'
      <4>1. NewTask(k, s) \in (tasks \cup retries)' /\ NewTask(k, s).key = k /\ NewTask(k, s).slot = s
        BY <1>5, <1>6
      <4>2. PICK x \in (tasks \cup retries)' : x.key = k /\ x.slot = s
        BY <4>1
      <4>3. QED
        BY <4>2 DEF OutSlots
    <3>4. OutSlots(k)' \subseteq OutSlots(k) \cup H
      BY <3>1 DEF OutSlots
    <3>5. QED
      BY <3>2, <3>3, <3>4
  <2>4. OutSlots(k) \cap H = {} /\ OutSlots(k) \subseteq Slots /\ H \subseteq Slots
    BY <1>6, Numbers DEF OutSlots
  <2> HIDE DEF w, v, H
  <2>5. Cardinality(OutSlots(k)') = Cardinality(OutSlots(k)) + Cardinality(H)
    <3>1. IsFiniteSet(OutSlots(k)) /\ IsFiniteSet(H)
          /\ Cardinality(OutSlots(k)) \in Nat /\ Cardinality(H) \in Nat
      BY <2>4, SlotNumbers
    <3>2. Cardinality(OutSlots(k) \cup H)
             = Cardinality(OutSlots(k)) + Cardinality(H) - Cardinality(OutSlots(k) \cap H)
      BY <3>1, FS_Union
    <3>3. Cardinality(OutSlots(k) \cap H) = 0
      BY <2>4, FS_EmptySet
    <3>4. QED
      BY <2>3, <3>1, <3>2, <3>3
  <2>6. v.in_flight = Cardinality(OutSlots(k)')
    BY <2>1, <2>2, <2>5 DEF HandedOut
  <2>7. v.checked + v.skipped + v.unchecked + v.in_flight = Passed(v)
    <3>1. Passed(v) \in Nat /\ Passed(w) \in Nat
      BY <2>1, PassedIsNat
    <3>2. v.checked + v.skipped + v.unchecked + v.in_flight - Passed(v)
             = w.checked + w.skipped + w.unchecked + w.in_flight - Passed(w)
      BY <2>1 DEF HandedOut
    <3>3. /\ v.checked \in Nat /\ v.skipped \in Nat /\ v.unchecked \in Nat /\ v.in_flight \in Nat
          /\ w.checked \in Nat /\ w.skipped \in Nat /\ w.unchecked \in Nat /\ w.in_flight \in Nat
      BY <2>1 DEF Window
    <3>4. QED
      BY <2>2, <3>1, <3>2, <3>3
  <2>8. ASSUME NEW x \in (tasks \cup retries)', x.key = k
        PROVE  v.next # None /\ x.slot < v.next
    <3>1. CASE x \in tasks \cup retries
      <4>1. w.next # None /\ x.slot < w.next /\ v.next # None /\ w.next <= v.next
        BY <2>1, <2>2, <2>8, <3>1 DEF HandedOut
      <4>2. x.slot \in Nat /\ w.next \in Nat /\ v.next \in Nat
        BY <2>1, <3>1, <4>1, Numbers DEF Window
      <4>3. QED
        BY <4>1, <4>2
    <3>2. CASE x \notin tasks \cup retries
      <4>1. x.slot \in H
        BY <1>5, <1>6, <2>8, <3>2 DEF H, w
      <4>2. QED
        BY <2>1, <4>1 DEF HandedOut
    <3>3. QED
      BY <3>1, <3>2
  <2>9. QED
    BY <2>1, <2>6, <2>7, <2>8 DEF v
<1>12. ReportsOK'
  BY <1>1 DEF FilterInv, ReportsOK
<1>13. Kept'
  <2> SUFFICES ASSUME NEW k \in DOMAIN windows
               PROVE  LET v == windows'[k] IN
                      /\ v.subscribed => from'[k] # None
                      /\ v.tip_open # None => from'[k] # None /\ from'[k] < v.tip_open + START_MARGIN
                      /\ v.tip_close # None => v.tip_close <= until'[k]
                      /\ v.first = None => \A s \in served'[k] : InDelivery(k, s)'
                      /\ v.first # None => v.first \in served'[k] /\ \A s \in served'[k] : v.first <= s
                      /\ \A s \in served'[k] :
                             (/\ ~ InDelivery(k, s)' /\ Sampled(s) /\ s >= StartSlot(v)
                              /\ v.next = None \/ s >= v.next)
                             => s \in v.sampled
    BY <1>3 DEF Kept
  <2> DEFINE w == windows[k]
             v == windows'[k]
  <2>1. /\ w \in Window /\ v \in Window /\ CursorOK(w) /\ SameRange(v, w) /\ OpenedOnce(v, w, t)
        /\ HandedOut(v, w, NewSlots(w, t), t) /\ k \in Windows
    BY <1>3, <1>4
  <2>2. /\ w.subscribed => from[k] # None
        /\ w.tip_open # None => from[k] # None /\ from[k] < w.tip_open + START_MARGIN
        /\ w.tip_close # None => w.tip_close <= until[k]
        /\ w.first = None => \A s \in served[k] : InDelivery(k, s)
        /\ w.first # None => w.first \in served[k] /\ \A s \in served[k] : w.first <= s
        /\ \A s \in served[k] :
               (/\ ~ InDelivery(k, s) /\ Sampled(s) /\ s >= StartSlot(w)
                /\ w.next = None \/ s >= w.next)
               => s \in w.sampled
    BY DEF FilterInv, Kept
  <2>3. from' = from /\ until' = until /\ served' = served
        /\ \A s : InDelivery(k, s)' <=> InDelivery(k, s)
    BY <1>1, EnvironmentAlone DEF sourceVars
  <2> HIDE DEF w, v
  <2>4. v.tip_open # None => from[k] # None /\ from[k] < v.tip_open + START_MARGIN
    <3>1. CASE v.tip_open = w.tip_open
      BY <2>2, <3>1
    <3>2. CASE v.tip_open # w.tip_open
      <4>1. v.tip_open = t /\ from[k] # None
        BY <2>1, <2>2, <3>2 DEF OpenedOnce
      <4>2. from[k] \in Nat /\ from[k] <= clock /\ clock \in Nat
        BY <2>1, <4>1, Numbers DEF FilterInv, Deliveries
      <4>3. t \in Nat /\ clock - t <= MaxTipLag /\ MaxTipLag \in Nat /\ START_MARGIN \in Nat
            /\ MaxTipLag < START_MARGIN
        BY <1>1, <1>2, SlotNumbers, FilterAuditAssumption, EnvironmentAssumption DEF TipRead
      <4>4. QED
        BY <4>1, <4>2, <4>3
    <3>3. QED
      BY <3>1, <3>2
  <2>5. ASSUME NEW s \in served[k], ~ InDelivery(k, s), Sampled(s), s >= StartSlot(v),
               v.next = None \/ s >= v.next
        PROVE  s \in v.sampled
    <3>1. w.first # None
      BY <2>2, <2>5
    <3>2. w.tip_open # None /\ v.tip_open = w.tip_open
      BY <2>1, <3>1 DEF CursorOK, OpenedOnce
    <3>3. StartSlot(v) = StartSlot(w)
      BY <2>1, <3>2 DEF StartSlot, SameRange
    <3>4. s \in Nat
      BY <2>1, Numbers
    <3>5. w.next = None \/ s >= w.next
      BY <2>1, <2>5, <3>4 DEF HandedOut, Window
    <3>6. s \in w.sampled
      BY <2>2, <2>5, <3>3, <3>5
    <3>7. ~ (v.next # None /\ s < v.next)
      BY <2>1, <2>5, <3>4 DEF Window
    <3>8. QED
      BY <2>1, <3>6, <3>7 DEF HandedOut
  <2>6. QED
    BY <2>1, <2>2, <2>3, <2>4, <2>5 DEF v, SameRange
<1>14. TasksKnow'
  <2>1. ASSUME NEW x \in (tasks \cup retries)' PROVE Knows(x)'
    <3>1. Knows(x)
      BY <1>5, <1>6 DEF FilterInv, TasksKnow
    <3>2. QED
      BY <1>1, <3>1, EnvironmentAlone
  <2>2. QED
    BY <2>1 DEF TasksKnow
<1>15. QED
  BY <1>1, <1>7, <1>8, <1>9, <1>10, <1>11, <1>12, <1>13, <1>14, EnvironmentAlone DEF FilterInv

-----------------------------------------------------------------------------
(* The tasks of one slot. *)

LEMMA GroupFacts ==
  ASSUME FilterInv, tasks # {}
  PROVE  /\ NextSlot \in Slots /\ Group \subseteq tasks /\ Group # {}
         /\ \A x \in tasks : x \in Group <=> x.slot = NextSlot
         /\ Attempt \in 0..MAX_ATTEMPTS
<1> DEFINE S == {x.slot : x \in tasks}
           A == {x.attempts : x \in Group}
<1>1. S \subseteq Slots /\ S # {}
  BY Numbers
<1>2. S \subseteq Int /\ IsFiniteSet(S)
  BY <1>1, SlotNumbers
<1>3. PICK m \in S : \A s \in S : m <= s
  <2> HIDE DEF S
  <2>1. QED
    BY <1>1, <1>2, MinOfFinite
<1>4. NextSlot \in S
  <2>1. \E s \in S : \A x \in tasks : s <= x.slot
    BY <1>3
  <2>2. QED
    BY <2>1 DEF NextSlot
<1>5. Group \subseteq tasks /\ (\A x \in tasks : x \in Group <=> x.slot = NextSlot) /\ Group # {}
  BY <1>4 DEF Group
<1>6. MAX_ATTEMPTS \in Nat
  BY FilterAuditAssumption
<1>7. A \subseteq 0..MAX_ATTEMPTS /\ A # {} /\ \A n \in A : n < MAX_ATTEMPTS
  BY <1>5 DEF FilterInv, TypeOK, Task
<1>8. IsFiniteSet(A) /\ A \subseteq Int
  <2> DEFINE B == 0..MAX_ATTEMPTS
  <2>1. IsFiniteSet(B) /\ B \subseteq Int
    BY <1>6, FS_Interval
  <2>2. A \subseteq B
    BY <1>7
  <2> HIDE DEF A, B
  <2>3. QED
    BY <2>1, <2>2, FS_Subset
<1>9. PICK b \in A : \A n \in A : n <= b
  <2> HIDE DEF A
  <2>1. QED
    BY <1>7, <1>8, MaxOfFinite
<1>10. Attempt \in 0..MAX_ATTEMPTS
  <2> DEFINE most == CHOOSE n \in A : \A x \in Group : x.attempts <= n
  <2>1. \E n \in A : \A x \in Group : x.attempts <= n
    BY <1>9
  <2>2. most \in A
    BY <2>1
  <2>3. Attempt = 1 + most
    BY DEF Attempt
  <2> HIDE DEF most, A
  <2>4. QED
    BY <1>6, <1>7, <2>2, <2>3
<1>11. QED
  BY <1>1, <1>4, <1>5, <1>10

\* The tasks of a window in the group: one or none.
Of(k) == {x \in Group : x.key = k}

\* The slots of a window that are out without the group.
LeftSlots(k) == {x.slot : x \in {y \in (tasks \ Group) \cup retries : y.key = k}}

LEMMA GroupCount ==
  ASSUME FilterInv, tasks # {}, NEW k
  PROVE  /\ Cardinality(Of(k)) \in Nat /\ Cardinality(OutSlots(k)) \in Nat
         /\ Cardinality(LeftSlots(k)) = Cardinality(OutSlots(k)) - Cardinality(Of(k))
         /\ Cardinality(Of(k)) <= Cardinality(OutSlots(k))
<1>1. OutSlots(k) \subseteq Slots /\ LeftSlots(k) \subseteq Slots
  BY Numbers DEF OutSlots, LeftSlots
<1>2. IsFiniteSet(OutSlots(k)) /\ Cardinality(OutSlots(k)) \in Nat
  BY <1>1, SlotNumbers
<1>3. Group \subseteq tasks /\ \A x \in tasks : x \in Group <=> x.slot = NextSlot
  BY GroupFacts
<1>4. CASE Of(k) = {}
  <2>1. LeftSlots(k) = OutSlots(k)
    BY <1>3, <1>4 DEF Of, OutSlots, LeftSlots
  <2>2. Cardinality(Of(k)) = 0
    BY <1>4, FS_EmptySet
  <2>3. QED
    BY <1>2, <2>1, <2>2
<1>5. CASE Of(k) # {}
  <2>1. PICK y : y \in Group /\ y.key = k
    BY <1>5 DEF Of
  <2>2. y \in tasks /\ y.slot = NextSlot /\ y \notin retries
    BY <1>3, <2>1 DEF FilterInv, OnePerSlot
  <2>3. \A x \in tasks \cup retries : x.key = k /\ x.slot = NextSlot => x = y
    BY <2>1, <2>2 DEF FilterInv, OnePerSlot
  <2>4. Of(k) = {y}
    BY <1>3, <2>1, <2>3 DEF Of
  <2>5. NextSlot \in OutSlots(k)
    BY <2>1, <2>2 DEF OutSlots
  <2>6. LeftSlots(k) = OutSlots(k) \ {NextSlot}
    <3>1. ASSUME NEW x \in (tasks \ Group) \cup retries, x.key = k
          PROVE  x.slot \in OutSlots(k) /\ x.slot # NextSlot
      BY <1>3, <2>1, <2>2, <2>3, <3>1 DEF OutSlots, LeftSlots
    <3>2. ASSUME NEW s \in OutSlots(k), s # NextSlot PROVE s \in LeftSlots(k)
      BY <1>3, <3>2 DEF OutSlots, LeftSlots
    <3>3. QED
      BY <3>1, <3>2 DEF LeftSlots
  <2>7. Cardinality(Of(k)) = 1
    <3>1. Cardinality({y}) = 1
      BY FS_Singleton
    <3>2. QED
      BY <2>4, <3>1
  <2>8. Cardinality(LeftSlots(k)) = Cardinality(OutSlots(k)) - 1
    <3>1. Cardinality(OutSlots(k) \ {NextSlot})
             = IF NextSlot \in OutSlots(k) THEN Cardinality(OutSlots(k)) - 1
               ELSE Cardinality(OutSlots(k))
      BY <1>2, FS_RemoveElement
    <3>2. QED
      BY <2>5, <2>6, <3>1
  <2>9. Cardinality(LeftSlots(k)) \in Nat
    BY <1>1, SlotNumbers
  <2>10. QED
    BY <1>2, <2>7, <2>8, <2>9
<1>6. QED
  BY <1>4, <1>5

\* A window of which n tasks came back.
Settled(v, w, n) ==
    /\ v \in Window
    /\ v.in_flight = w.in_flight - n
    /\ v.checked + v.skipped + v.unchecked = w.checked + w.skipped + w.unchecked + n
    /\ v.subscribed = w.subscribed /\ v.tip_open = w.tip_open /\ v.tip_close = w.tip_close
    /\ v.ended = w.ended /\ v.first = w.first /\ v.max = w.max /\ v.sampled = w.sampled
    /\ v.next = w.next /\ v.cursor = w.cursor

LEMMA SettledOne ==
  ASSUME NEW w \in Window, NEW n \in Nat, n <= w.in_flight,
         NEW field \in {"checked", "skipped", "unchecked"}
  PROVE  Settled([w EXCEPT !.in_flight = Monus(@, n), ![field] = @ + n], w, n)
<1> DEFINE left == Monus(w.in_flight, n)
<1>1. w.in_flight \in Nat /\ w.checked \in Nat /\ w.skipped \in Nat /\ w.unchecked \in Nat
  BY DEF Window
<1>2. left = w.in_flight - n /\ left \in Nat
  BY <1>1 DEF Monus, Larger
<1> HIDE DEF left
<1>3. CASE field = "checked"
  <2> DEFINE more == w.checked + n
             v == [w EXCEPT !.in_flight = left, !.checked = more]
  <2>1. more \in Nat
    BY <1>1
  <2> HIDE DEF more
  <2>2. v \in Window
    BY <1>2, <2>1 DEF Window
  <2>3. Settled(v, w, n)
    BY <1>1, <1>2, <2>1, <2>2 DEF Settled, Window, more
  <2>4. QED
    BY <1>3, <2>3 DEF left, more
<1>4. CASE field = "skipped"
  <2> DEFINE more == w.skipped + n
             v == [w EXCEPT !.in_flight = left, !.skipped = more]
  <2>1. more \in Nat
    BY <1>1
  <2> HIDE DEF more
  <2>2. v \in Window
    BY <1>2, <2>1 DEF Window
  <2>3. Settled(v, w, n)
    BY <1>1, <1>2, <2>1, <2>2 DEF Settled, Window, more
  <2>4. QED
    BY <1>4, <2>3 DEF left, more
<1>5. CASE field = "unchecked"
  <2> DEFINE more == w.unchecked + n
             v == [w EXCEPT !.in_flight = left, !.unchecked = more]
  <2>1. more \in Nat
    BY <1>1
  <2> HIDE DEF more
  <2>2. v \in Window
    BY <1>2, <2>1 DEF Window
  <2>3. Settled(v, w, n)
    BY <1>1, <1>2, <2>1, <2>2 DEF Settled, Window, more
  <2>4. QED
    BY <1>5, <2>3 DEF left, more
<1>6. QED
  BY <1>3, <1>4, <1>5

\* The windows after a group came back.
LEMMA SettleFacts ==
  ASSUME FilterInv, tasks # {}, NEW field \in {"checked", "skipped", "unchecked"}, Settle(field)
  PROVE  /\ DOMAIN windows' = DOMAIN windows
         /\ \A k \in DOMAIN windows : Settled(windows'[k], windows[k], Cardinality(Of(k)))
<1>1. windows' = [k \in DOMAIN windows |->
                    [windows[k] EXCEPT !.in_flight = Monus(@, Cardinality(Of(k))),
                                       ![field] = @ + Cardinality(Of(k))]]
  BY DEF Settle, Of
<1>2. ASSUME NEW k \in DOMAIN windows
      PROVE  Settled(windows'[k], windows[k], Cardinality(Of(k)))
  <2> DEFINE w == windows[k]
             n == Cardinality(Of(k))
  <2>1. w \in Window /\ w.in_flight = Cardinality(OutSlots(k))
    BY DEF FilterInv, TypeOK, Counted
  <2>2. n \in Nat /\ n <= w.in_flight
    BY <2>1, GroupCount
  <2>3. windows'[k] = [w EXCEPT !.in_flight = Monus(@, n), ![field] = @ + n]
    BY <1>1
  <2> HIDE DEF w, n
  <2>4. Settled([w EXCEPT !.in_flight = Monus(@, n), ![field] = @ + n], w, n)
    BY <2>1, <2>2, SettledOne
  <2>5. QED
    BY <2>3, <2>4 DEF w, n
<1>3. QED
  BY <1>1, <1>2

\* What a step of the checker within its tick keeps of its own state.
Working ==
    /\ checker' \in [pc : {"checking"}, calls : Nat] /\ checker'.calls <= MAX_CALLS_PER_TICK
    /\ cache' \in Seq(Slots) /\ Len(cache') <= BLOCK_CACHE
    /\ UNCHANGED <<clock, tip, sourceVars, reports>>

\* A group of tasks was answered.
LEMMA GroupDone ==
  ASSUME FilterInv, tasks # {}, Working, tasks' = tasks \ Group, retries' = retries,
         DOMAIN windows' = DOMAIN windows,
         \A k \in DOMAIN windows : Settled(windows'[k], windows[k], Cardinality(Of(k)))
  PROVE  FilterInv'
<1>1. (tasks \cup retries)' \subseteq tasks \cup retries
  OBVIOUS
<1>2. /\ UNCHANGED <<clock, tip, sourceVars>> /\ reports' = reports
      /\ source' = source /\ until' = until /\ from' = from /\ served' = served
  BY DEF Working, sourceVars
<1>3. TypeOK' /\ Shape'
  <2>1. \A k \in DOMAIN windows' : windows'[k] \in Window
    BY DEF Settled
  <2>2. TypeOK'
    BY <1>1, <1>2, <2>1, EnvironmentAlone DEF FilterInv, TypeOK, Working
  <2>3. Shape'
    BY <1>2, EnvironmentAlone DEF Shape, Working
  <2>4. QED
    BY <2>2, <2>3
<1>4. Lifecycle'
  <2>1. ASSUME NEW k \in DOMAIN windows
        PROVE  /\ windows'[k].ended = windows[k].ended /\ windows'[k].tip_close = windows[k].tip_close
               /\ windows'[k].subscribed = windows[k].subscribed
    BY DEF Settled
  <2>2. checker'.pc = "checking"
    BY DEF Working
  <2>3. QED
    BY <1>1, <1>2, <2>1, <2>2 DEF FilterInv, Lifecycle
<1>5. OnePerSlot' /\ ReportsOK' /\ TasksKnow' /\ Deliveries'
  <2>1. OnePerSlot'
    BY <1>1 DEF FilterInv, OnePerSlot
  <2>2. ReportsOK'
    BY <1>2 DEF FilterInv, ReportsOK
  <2>3. TasksKnow'
    BY <1>1, <1>2, EnvironmentAlone DEF FilterInv, TasksKnow
  <2>4. Deliveries'
    BY <1>2, EnvironmentAlone
  <2>5. QED
    BY <2>1, <2>2, <2>3, <2>4
<1>6. Counted'
  <2> SUFFICES ASSUME NEW k \in DOMAIN windows
               PROVE  /\ CursorOK(windows'[k])
                      /\ \A x \in (tasks \cup retries)' :
                             x.key = k => windows'[k].next # None /\ x.slot < windows'[k].next
                      /\ windows'[k].in_flight = Cardinality(OutSlots(k)')
                      /\ windows'[k].checked + windows'[k].skipped + windows'[k].unchecked
                           + windows'[k].in_flight = Passed(windows'[k])
    BY DEF Counted
  <2> DEFINE w == windows[k]
             v == windows'[k]
             n == Cardinality(Of(k))
  <2>1. Settled(v, w, n) /\ w \in Window /\ CursorOK(w)
    BY DEF FilterInv, TypeOK, Counted
  <2>2. /\ \A x \in tasks \cup retries : x.key = k => w.next # None /\ x.slot < w.next
        /\ w.in_flight = Cardinality(OutSlots(k))
        /\ w.checked + w.skipped + w.unchecked + w.in_flight = Passed(w)
    BY DEF FilterInv, Counted
  <2>3. OutSlots(k)' = LeftSlots(k)
    BY DEF OutSlots, LeftSlots
  <2>4. n \in Nat /\ Cardinality(LeftSlots(k)) = Cardinality(OutSlots(k)) - n
    BY GroupCount
  <2> HIDE DEF w, v, n
  <2>5. CursorOK(v)
    <3>1. StartSlot(v) = StartSlot(w)
      BY <2>1 DEF Settled, StartSlot
    <3>2. QED
      BY <2>1, <3>1 DEF Settled, CursorOK
  <2>6. v.in_flight = Cardinality(OutSlots(k)')
    BY <2>1, <2>2, <2>3, <2>4 DEF Settled
  <2>7. v.checked + v.skipped + v.unchecked + v.in_flight = Passed(v)
    <3>1. Passed(v) = Passed(w)
      BY <2>1 DEF Settled, Passed
    <3>2. /\ v.checked \in Nat /\ v.skipped \in Nat /\ v.unchecked \in Nat /\ v.in_flight \in Nat
          /\ w.checked \in Nat /\ w.skipped \in Nat /\ w.unchecked \in Nat /\ w.in_flight \in Nat
      BY <2>1 DEF Settled, Window
    <3>3. /\ v.in_flight = w.in_flight - n
          /\ v.checked + v.skipped + v.unchecked = w.checked + w.skipped + w.unchecked + n
      BY <2>1 DEF Settled
    <3>4. QED
      BY <2>2, <2>4, <3>1, <3>2, <3>3
  <2>8. \A x \in (tasks \cup retries)' : x.key = k => v.next # None /\ x.slot < v.next
    BY <1>1, <2>1, <2>2 DEF Settled
  <2>9. QED
    BY <2>5, <2>6, <2>7, <2>8 DEF v
<1>7. Kept'
  <2>1. ASSUME NEW k \in DOMAIN windows
        PROVE  /\ windows'[k].subscribed = windows[k].subscribed
               /\ windows'[k].tip_open = windows[k].tip_open
               /\ windows'[k].tip_close = windows[k].tip_close
               /\ windows'[k].first = windows[k].first
               /\ windows'[k].sampled = windows[k].sampled
               /\ windows'[k].next = windows[k].next
               /\ StartSlot(windows'[k]) = StartSlot(windows[k])
    BY DEF Settled, StartSlot
  <2>2. ASSUME NEW k, NEW s PROVE InDelivery(k, s)' <=> InDelivery(k, s)
    BY <1>2, EnvironmentAlone
  <2>3. QED
    BY <1>2, <2>1, <2>2 DEF FilterInv, Kept
<1>8. QED
  BY <1>3, <1>4, <1>5, <1>6, <1>7 DEF FilterInv

\* The same task, perhaps after another attempt.
Again(y, x) == y.key = x.key /\ y.slot = x.slot /\ y.delivered = x.delivered

\* A group of tasks is kept for another tick.
LEMMA GroupBack ==
  ASSUME FilterInv, tasks # {}, Working, windows' = windows, NEW G,
         tasks' = tasks \ Group, retries' = retries \cup G,
         \A x \in Group : \E y \in G : Again(y, x),
         \A y \in G : \E x \in Group : Again(y, x),
         \A y, z \in G : y.key = z.key => y = z,
         \A y \in G : y \in Task /\ y.attempts < MAX_ATTEMPTS
  PROVE  FilterInv'
<1>1. ASSUME NEW y \in (tasks \cup retries)'
      PROVE  \E x \in tasks \cup retries : Again(y, x)
  BY GroupFacts DEF Again
<1>2. ASSUME NEW x \in tasks \cup retries
      PROVE  \E y \in (tasks \cup retries)' : Again(y, x)
  BY DEF Again
<1>3. /\ UNCHANGED <<clock, tip, sourceVars>> /\ reports' = reports
      /\ source' = source /\ until' = until /\ from' = from /\ served' = served
  BY DEF Working, sourceVars
<1>4. TypeOK' /\ Shape'
  <2>1. \A x \in (tasks \cup retries)' : x \in Task /\ x.attempts < MAX_ATTEMPTS
    BY DEF FilterInv, TypeOK
  <2>2. TypeOK'
    BY <1>3, <2>1, EnvironmentAlone DEF FilterInv, TypeOK, Working
  <2>3. Shape'
    BY <1>3, EnvironmentAlone DEF Shape, Working
  <2>4. QED
    BY <2>2, <2>3
<1>5. Lifecycle'
  <2>1. checker'.pc = "checking"
    BY DEF Working
  <2>2. \A x \in (tasks \cup retries)' : source[x.key].pc # "none"
    BY <1>1 DEF FilterInv, Lifecycle, Again
  <2>3. QED
    BY <1>3, <2>1, <2>2 DEF FilterInv, Lifecycle
<1>6. OnePerSlot'
  <2>1. ASSUME NEW y \in G PROVE /\ y.slot = NextSlot
                                /\ \E x \in Group : x.key = y.key /\ x.slot = y.slot
    BY GroupFacts DEF Again
  <2>2. ASSUME NEW y \in G, NEW z \in (tasks \ Group) \cup retries, y.key = z.key, y.slot = z.slot
        PROVE  FALSE
    <3>1. PICK x \in Group : x.key = y.key /\ x.slot = y.slot
      BY <2>1
    <3>2. x \in tasks /\ z \in tasks \cup retries /\ x = z
      BY <2>2, <3>1, GroupFacts DEF FilterInv, OnePerSlot
    <3>3. QED
      BY <2>2, <3>1, <3>2 DEF FilterInv, OnePerSlot
  <2>3. (tasks \cap retries)' = {}
    BY <2>2 DEF FilterInv, OnePerSlot
  <2>4. ASSUME NEW y \in (tasks \cup retries)', NEW z \in (tasks \cup retries)',
               y.key = z.key, y.slot = z.slot
        PROVE  y = z
    BY <2>2, <2>4 DEF FilterInv, OnePerSlot
  <2>5. QED
    BY <2>3, <2>4 DEF OnePerSlot
<1>7. Counted'
  <2>1. ASSUME NEW k PROVE OutSlots(k)' = OutSlots(k)
    <3>1. ASSUME NEW y \in (tasks \cup retries)', y.key = k PROVE y.slot \in OutSlots(k)
      BY <1>1, <3>1 DEF OutSlots, Again
    <3>2. ASSUME NEW x \in tasks \cup retries, x.key = k PROVE x.slot \in OutSlots(k)'
      BY <1>2, <3>2 DEF OutSlots, Again
    <3>3. QED
      BY <3>1, <3>2 DEF OutSlots
  <2>2. ASSUME NEW k \in DOMAIN windows, NEW y \in (tasks \cup retries)', y.key = k
        PROVE  windows[k].next # None /\ y.slot < windows[k].next
    BY <1>1, <2>2 DEF FilterInv, Counted, Again
  <2>3. QED
    BY <2>1, <2>2 DEF FilterInv, Counted
<1>8. ReportsOK' /\ Deliveries'
  <2>1. ReportsOK'
    BY <1>3 DEF FilterInv, ReportsOK
  <2>2. Deliveries'
    BY <1>3, EnvironmentAlone
  <2>3. QED
    BY <2>1, <2>2
<1>9. Kept'
  <2>1. ASSUME NEW k, NEW s PROVE InDelivery(k, s)' <=> InDelivery(k, s)
    BY <1>3, EnvironmentAlone
  <2>2. QED
    BY <1>3, <2>1 DEF FilterInv, Kept
<1>10. TasksKnow'
  <2>1. ASSUME NEW y \in (tasks \cup retries)' PROVE Knows(y)'
    <3>1. PICK x \in tasks \cup retries : Again(y, x)
      BY <1>1
    <3>2. Knows(x)
      BY DEF FilterInv, TasksKnow
    <3>3. Knows(y)
      BY <3>1, <3>2 DEF Knows, Again
    <3>4. QED
      BY <1>3, <3>3, EnvironmentAlone
  <2>2. QED
    BY <2>1 DEF TasksKnow
<1>11. QED
  BY <1>4, <1>5, <1>6, <1>7, <1>8, <1>9, <1>10 DEF FilterInv

-----------------------------------------------------------------------------
(* The steps of a tick. *)

LEMMA PostponeStep == ASSUME FilterInv, Postpone PROVE FilterInv'
<1>1. /\ checker.pc = "checking" /\ tasks # {}
      /\ retries' = retries \cup Group /\ tasks' = tasks \ Group
      /\ windows' = windows /\ checker' = checker /\ cache' = cache
      /\ UNCHANGED <<clock, tip, sourceVars, reports>>
  BY DEF Postpone
<1>2. Working
  <2>1. checker' \in [pc : {"checking"}, calls : Nat]
    BY <1>1 DEF FilterInv, Shape
  <2>2. QED
    BY <1>1, <2>1 DEF Working, FilterInv, TypeOK, Shape
<1>3. \A y, z \in Group : y.key = z.key => y = z
  BY <1>1, GroupFacts DEF FilterInv, OnePerSlot
<1>4. \A y \in Group : y \in Task /\ y.attempts < MAX_ATTEMPTS
  BY <1>1, GroupFacts DEF FilterInv, TypeOK
<1>5. \A x \in Group : Again(x, x)
  BY DEF Again
<1>6. QED
  BY <1>1, <1>2, <1>3, <1>4, <1>5, GroupBack

\* A call is made only while the tick has calls left.
LEMMA CallStep ==
  ASSUME FilterInv, checker.pc = "checking", Called, Cached \/ ~ Exhausted
  PROVE  checker' \in [pc : {"checking"}, calls : Nat] /\ checker'.calls <= MAX_CALLS_PER_TICK
<1> DEFINE n == IF Cached THEN checker.calls ELSE checker.calls + 1
<1>1. checker.calls \in Nat /\ checker.calls <= MAX_CALLS_PER_TICK /\ MAX_CALLS_PER_TICK \in Nat
  BY FilterAuditAssumption DEF FilterInv, TypeOK, Shape
<1>2. n \in Nat /\ n <= MAX_CALLS_PER_TICK
  BY <1>1 DEF Exhausted
<1>3. checker' = [checker EXCEPT !.calls = n]
  BY DEF Called
<1> HIDE DEF n
<1>4. checker' = [pc |-> "checking", calls |-> n]
  BY <1>3 DEF FilterInv, Shape
<1>5. QED
  BY <1>2, <1>4

\* The cache of blocks does not outgrow its bound.
LEMMA CacheStep ==
  ASSUME FilterInv, tasks # {}, NEW c,
         c = IF Len(Append(cache, NextSlot)) > BLOCK_CACHE THEN Tail(Append(cache, NextSlot))
             ELSE Append(cache, NextSlot)
  PROVE  c \in Seq(Slots) /\ Len(c) <= BLOCK_CACHE
<1>1. cache \in Seq(Slots) /\ Len(cache) <= BLOCK_CACHE /\ NextSlot \in Slots /\ BLOCK_CACHE \in Nat
  BY GroupFacts, FilterAuditAssumption DEF FilterInv, TypeOK, Shape
<1> DEFINE longer == Append(cache, NextSlot)
<1>2. longer \in Seq(Slots) /\ Len(longer) = Len(cache) + 1 /\ longer # <<>> /\ Len(cache) \in Nat
  BY <1>1
<1> HIDE DEF longer
<1>3. CASE Len(longer) > BLOCK_CACHE
  <2>1. Tail(longer) \in Seq(Slots) /\ Len(Tail(longer)) = Len(longer) - 1
    BY <1>2
  <2>2. c = Tail(longer)
    BY <1>3 DEF longer
  <2>3. QED
    BY <1>1, <1>2, <2>1, <2>2
<1>4. CASE ~ (Len(longer) > BLOCK_CACHE)
  <2>1. c = longer
    BY <1>4 DEF longer
  <2>2. QED
    BY <1>1, <1>2, <1>4, <2>1
<1>5. QED
  BY <1>3, <1>4

LEMMA CompareStep == ASSUME FilterInv, Compare PROVE FilterInv'
<1>1. /\ checker.pc = "checking" /\ tasks # {} /\ (Cached \/ ~ Exhausted)
      /\ Called /\ Settle("checked")
      /\ cache' = IF Cached THEN cache
                  ELSE IF Len(Append(cache, NextSlot)) > BLOCK_CACHE
                       THEN Tail(Append(cache, NextSlot)) ELSE Append(cache, NextSlot)
      /\ tasks' = tasks \ Group /\ retries' = retries
      /\ UNCHANGED <<clock, tip, sourceVars, reports>>
  BY DEF Compare
<1>2. cache' \in Seq(Slots) /\ Len(cache') <= BLOCK_CACHE
  <2>1. CASE Cached
    BY <1>1, <2>1 DEF FilterInv, TypeOK, Shape
  <2>2. CASE ~ Cached
    BY <1>1, <2>2, CacheStep
  <2>3. QED
    BY <2>1, <2>2
<1>3. Working
  BY <1>1, <1>2, CallStep DEF Working
<1>4. QED
  BY <1>1, <1>3, SettleFacts, GroupDone

LEMMA SkipStep == ASSUME FilterInv, Skip PROVE FilterInv'
<1>1. /\ checker.pc = "checking" /\ tasks # {} /\ ~ Exhausted
      /\ Called /\ Settle("skipped") /\ cache' = cache
      /\ tasks' = tasks \ Group /\ retries' = retries
      /\ UNCHANGED <<clock, tip, sourceVars, reports>>
  BY DEF Skip
<1>2. Working
  BY <1>1, CallStep DEF Working, FilterInv, TypeOK, Shape
<1>3. QED
  BY <1>1, <1>2, SettleFacts, GroupDone

\* A task whose block could not be fetched waits with one attempt more, or is given up.
LEMMA FetchFailsStep == ASSUME FilterInv, FetchFails PROVE FilterInv'
<1>1. /\ checker.pc = "checking" /\ tasks # {} /\ ~ Exhausted
      /\ Called /\ cache' = cache /\ tasks' = tasks \ Group
      /\ UNCHANGED <<clock, tip, sourceVars, reports>>
  BY DEF FetchFails
<1>2. Working
  BY <1>1, CallStep DEF Working, FilterInv, TypeOK, Shape
<1>3. CASE Attempt < MAX_ATTEMPTS
  <2> DEFINE G == {[x EXCEPT !.attempts = Attempt] : x \in Group}
  <2>1. retries' = retries \cup G /\ windows' = windows
    BY <1>3 DEF FetchFails
  <2>2. \A x \in Group : x \in Task
    BY <1>1, GroupFacts DEF FilterInv, TypeOK
  <2>3. Attempt \in 0..MAX_ATTEMPTS
    BY <1>1, GroupFacts
  <2>4. ASSUME NEW x \in Group
        PROVE  LET y == [x EXCEPT !.attempts = Attempt] IN
               y \in Task /\ y.attempts = Attempt /\ Again(y, x)
    BY <2>2, <2>3 DEF Task, Again
  <2>5. ASSUME NEW x \in Group, NEW z \in Group, x.key = z.key PROVE x = z
    BY <1>1, <2>5, GroupFacts DEF FilterInv, OnePerSlot
  <2>6. \A y \in G : \E x \in Group : y = [x EXCEPT !.attempts = Attempt] /\ Again(y, x)
                                      /\ y \in Task /\ y.attempts < MAX_ATTEMPTS
    BY <1>3, <2>4
  <2>7. \A x \in Group : \E y \in G : Again(y, x)
    BY <2>4
  <2> HIDE DEF G
  <2>8. \A y, z \in G : y.key = z.key => y = z
    BY <2>5, <2>6 DEF Again
  <2>9. QED
    BY <1>1, <1>2, <2>1, <2>6, <2>7, <2>8, GroupBack
<1>4. CASE ~ (Attempt < MAX_ATTEMPTS)
  <2>1. Settle("unchecked") /\ retries' = retries
    BY <1>4 DEF FetchFails, Unfetched
  <2>2. QED
    BY <1>1, <1>2, <2>1, SettleFacts, GroupDone
<1>5. QED
  BY <1>3, <1>4

\* The tasks of a window are as many as its slots that are out.
LEMMA OutCount ==
  ASSUME FilterInv, NEW k, NEW T \in SUBSET (tasks \cup retries), NEW O,
         O = {x.slot : x \in {y \in T : y.key = k}}
  PROVE  Cardinality({x \in T : x.key = k}) = Cardinality(O)
<1> DEFINE D == {x \in T : x.key = k}
           f == [x \in D |-> x.slot]
           S == {f[x] : x \in D}
<1>1. \A x, y \in D : x.slot = y.slot => x = y
  BY DEF FilterInv, OnePerSlot
<1>2. S = O /\ S \subseteq Slots
  BY Numbers
<1>3. f \in Injection(D, S) /\ f \in Surjection(D, S)
  <2>1. f \in [D -> S] /\ (\A x, y \in D : f[x] = f[y] => x = y) /\ \A s \in S : \E x \in D : f[x] = s
    BY <1>1
  <2>2. QED
    BY <2>1 DEF Injection, Surjection, IsInjective
<1>4. IsFiniteSet(S)
  BY <1>2, SlotNumbers
<1> HIDE DEF D, f, S
<1>5. Cardinality(D) = Cardinality(S)
  BY <1>3, <1>4, FS_Injection
<1>6. QED
  BY <1>2, <1>5 DEF D

\* A step that only takes windows of closed sources away and reports each of them once.
TakesAway(done, row) ==
    /\ done \subseteq DOMAIN windows
    /\ reports' = reports \cup {row[k] : k \in done}
    /\ \A k \in done : source[k].pc = "closed" /\ row[k].key = k /\ row[k].counted = row[k].passed
    /\ DOMAIN windows' = DOMAIN windows \ done
    /\ \A k \in DOMAIN windows \ done : windows'[k] = windows[k]
    /\ tasks = {} /\ tasks' = {}
    /\ retries' = retries \/ (retries' = {} /\ done = DOMAIN windows)
    /\ checker' \in [pc : {"idle", "stopped"}, calls : Nat]
    /\ checker'.calls <= MAX_CALLS_PER_TICK
    /\ UNCHANGED <<clock, tip, sourceVars, cache>>

LEMMA WindowsReported ==
  ASSUME FilterInv, NEW done, NEW row, TakesAway(done, row)
  PROVE  FilterInv'
<1> USE DEF TakesAway
<1>1. /\ UNCHANGED <<clock, tip, sourceVars>> /\ cache' = cache
      /\ source' = source /\ until' = until /\ from' = from /\ served' = served
  BY DEF sourceVars
<1>2. DOMAIN windows \subseteq Windows /\ (tasks \cup retries)' \subseteq tasks \cup retries
  BY DEF FilterInv, TypeOK
<1>3. TypeOK' /\ Shape'
  <2>1. TypeOK'
    BY <1>1, <1>2, EnvironmentAlone DEF FilterInv, TypeOK
  <2>2. checker' \in [pc : {"idle", "checking", "stopped"}, calls : Nat]
    OBVIOUS
  <2>3. Shape'
    BY <1>1, <2>2, EnvironmentAlone DEF FilterInv, Shape
  <2>4. QED
    BY <2>1, <2>3
<1>4. Lifecycle'
  <2>1. \A k \in Windows : source[k].pc \in {"connecting", "live", "delivering"} => k \in DOMAIN windows'
    BY DEF FilterInv, Lifecycle
  <2>2. \A r \in reports' : r.key \in Windows /\ source[r.key].pc = "closed" /\ r.key \notin DOMAIN windows'
    BY <1>2 DEF FilterInv, Lifecycle
  <2>3. \A x \in (tasks \cup retries)' : source[x.key].pc # "none"
    BY <1>2 DEF FilterInv, Lifecycle
  <2>4. checker'.pc # "checking" => tasks' = {}
    OBVIOUS
  <2>5. QED
    BY <1>1, <2>1, <2>2, <2>3, <2>4 DEF FilterInv, Lifecycle
<1>5. OnePerSlot'
  BY <1>2 DEF FilterInv, OnePerSlot
<1>6. Counted'
  <2>1. ASSUME NEW k \in DOMAIN windows'
        PROVE  windows'[k] = windows[k] /\ k \in DOMAIN windows /\ OutSlots(k)' = OutSlots(k)
               /\ (tasks \cup retries)' = tasks \cup retries
    BY DEF OutSlots
  <2>2. QED
    BY <2>1 DEF FilterInv, Counted
<1>7. ReportsOK'
  <2>1. \A r \in reports : r.key \notin done
    BY DEF FilterInv, Lifecycle
  <2>2. ASSUME NEW r \in reports', NEW q \in reports', r.key = q.key PROVE r = q
    BY <2>1, <2>2 DEF FilterInv, ReportsOK
  <2>3. \A r \in reports' : r.counted = r.passed
    BY DEF FilterInv, ReportsOK
  <2>4. QED
    BY <2>2, <2>3 DEF ReportsOK
<1>8. Deliveries'
  BY <1>1, EnvironmentAlone
<1>9. Kept'
  <2>1. ASSUME NEW k, NEW s PROVE InDelivery(k, s)' <=> InDelivery(k, s)
    BY <1>1, EnvironmentAlone
  <2>2. QED
    BY <1>1, <2>1 DEF FilterInv, Kept
<1>10. TasksKnow'
  <2>1. ASSUME NEW x \in (tasks \cup retries)' PROVE Knows(x)'
    BY <1>1, <1>2, EnvironmentAlone DEF FilterInv, TasksKnow
  <2>2. QED
    BY <2>1 DEF TasksKnow
<1>11. QED
  BY <1>3, <1>4, <1>5, <1>6, <1>7, <1>8, <1>9, <1>10 DEF FilterInv

LEMMA TakeFinishedStep == ASSUME FilterInv, TakeFinished PROVE FilterInv'
<1>1. PICK f \in 0..Monus(tip, EVICT_MARGIN_SLOTS), stale \in SUBSET DOMAIN windows :
        LET done == {k \in DOMAIN windows : Finished(windows[k], f, k \in stale)} IN
        /\ checker.pc = "checking" /\ tasks = {}
        /\ reports' = reports \cup {Report(k, windows[k], k \in stale) : k \in done}
        /\ windows' = [k \in DOMAIN windows \ done |-> windows[k]]
        /\ checker' = [pc |-> "idle", calls |-> 0]
        /\ UNCHANGED <<clock, tip, sourceVars, tasks, retries, cache, backoff, missed>>
  BY DEF TakeFinished
<1> DEFINE done == {k \in DOMAIN windows : Finished(windows[k], f, k \in stale)}
           row == [k \in done |-> Report(k, windows[k], k \in stale)]
<1>2. \A k \in done : source[k].pc = "closed"
  BY DEF Finished, FilterInv, Lifecycle
<1>3. \A k \in done : row[k].key = k /\ row[k].counted = row[k].passed
  BY DEF Report, FilterInv, Counted
<1>4. reports' = reports \cup {row[k] : k \in done}
  BY <1>1
<1>5. done \in SUBSET DOMAIN windows
  OBVIOUS
<1>6. /\ DOMAIN windows' = DOMAIN windows \ done
      /\ \A k \in DOMAIN windows \ done : windows'[k] = windows[k]
  BY <1>1
<1>7. /\ checker' \in [pc : {"idle", "stopped"}, calls : Nat]
      /\ checker'.calls <= MAX_CALLS_PER_TICK
  BY <1>1, FilterAuditAssumption
<1>8. UNCHANGED <<clock, tip, sourceVars, cache>> /\ tasks = {} /\ tasks' = {} /\ retries' = retries
  BY <1>1
<1> HIDE DEF done, row
<1>9. TakesAway(done, row)
  BY <1>2, <1>3, <1>4, <1>5, <1>6, <1>7, <1>8 DEF TakesAway
<1>10. QED
  BY <1>9, WindowsReported

\* The retries given up at the end are all that was in flight.
LEMMA StopStep == ASSUME FilterInv, Stop PROVE FilterInv'
<1> DEFINE given(k) == Cardinality({x \in retries : x.key = k})
           left(k) == [windows[k] EXCEPT !.in_flight = Monus(@, given(k)), !.unchecked = @ + given(k)]
           done == DOMAIN windows
           row == [k \in done |-> Report(k, left(k), TRUE)]
<1>1. /\ checker.pc = "idle"
      /\ \A k \in Windows : source[k].pc \in {"none", "closed"}
      /\ reports' = reports \cup {Report(k, left(k), TRUE) : k \in DOMAIN windows}
      /\ windows' = [k \in {} |-> NewWindow]
      /\ retries' = {} /\ tasks' = tasks
      /\ checker' = [checker EXCEPT !.pc = "stopped"]
      /\ UNCHANGED <<clock, tip, sourceVars, cache>>
  BY DEF Stop
<1>2. tasks = {} /\ DOMAIN windows \subseteq Windows
  BY <1>1 DEF FilterInv, Lifecycle, TypeOK
<1>3. \A k \in done : source[k].pc = "closed"
  BY <1>1, <1>2 DEF FilterInv, Lifecycle
<1>4. ASSUME NEW k \in done PROVE row[k].key = k /\ row[k].counted = row[k].passed
  <2> DEFINE w == windows[k]
             v == left(k)
             n == given(k)
             more == w.unchecked + n
             out == Monus(w.in_flight, n)
  <2>1. /\ w \in Window /\ CursorOK(w) /\ w.in_flight = Cardinality(OutSlots(k))
        /\ w.checked + w.skipped + w.unchecked + w.in_flight = Passed(w)
    BY DEF FilterInv, TypeOK, Counted
  <2>2. n = Cardinality(OutSlots(k))
    <3>1. OutSlots(k) = {x.slot : x \in {y \in retries : y.key = k}}
      BY <1>2 DEF OutSlots
    <3>2. QED
      BY <3>1, OutCount
  <2>3. v = [w EXCEPT !.in_flight = out, !.unchecked = more]
    OBVIOUS
  <2>4. row[k] = Report(k, v, TRUE)
    OBVIOUS
  <2> HIDE DEF v, w, n, row
  <2>5. w.in_flight \in Nat /\ n = w.in_flight /\ w.checked \in Nat /\ w.skipped \in Nat
        /\ w.unchecked \in Nat
    BY <2>1, <2>2 DEF Window
  <2>6. out = 0 /\ more = w.unchecked + w.in_flight
    BY <2>5 DEF Monus, Larger
  <2> HIDE DEF out, more
  <2>7. /\ v.in_flight = out /\ v.unchecked = more /\ v.checked = w.checked /\ v.skipped = w.skipped
        /\ v.next = w.next /\ v.cursor = w.cursor
    BY <2>1, <2>3 DEF Window
  <2>8. Passed(v) = Passed(w)
    BY <2>7 DEF Passed
  <2>9. v.checked + v.skipped + v.unchecked + v.in_flight = Passed(v)
    BY <2>1, <2>5, <2>6, <2>7, <2>8
  <2>10. QED
    BY <2>4, <2>9 DEF Report
<1>5. reports' = reports \cup {row[k] : k \in done}
  BY <1>1
<1>6. DOMAIN windows' = DOMAIN windows \ done /\ \A k \in DOMAIN windows \ done : windows'[k] = windows[k]
  BY <1>1
<1>7. checker' \in [pc : {"idle", "stopped"}, calls : Nat] /\ checker'.calls <= MAX_CALLS_PER_TICK
  BY <1>1 DEF FilterInv, TypeOK, Shape
<1>8. /\ UNCHANGED <<clock, tip, sourceVars, cache>> /\ tasks' = {} /\ retries' = {}
      /\ done \in SUBSET DOMAIN windows /\ done = DOMAIN windows
  BY <1>1, <1>2
<1> HIDE DEF row, done
<1>9. TakesAway(done, row)
  BY <1>3, <1>4, <1>5, <1>6, <1>7, <1>8, <1>2 DEF TakesAway
<1>10. QED
  BY <1>9, WindowsReported

-----------------------------------------------------------------------------
(* The theorems. *)

LEMMA InvStep == FilterInv /\ [Next]_vars => FilterInv'
<1> SUFFICES ASSUME FilterInv, [Next]_vars PROVE FilterInv'
  OBVIOUS
<1>1. CASE UNCHANGED vars
  <2>1. windows' = windows /\ UNCHANGED <<clock, tip, sourceVars>> /\ UNCHANGED checkVars
        /\ source' = source /\ until' = until /\ from' = from /\ served' = served
    BY <1>1 DEF vars, sourceVars
  <2>2. TypeOK' /\ Shape'
    BY <2>1, CheckerAlone, EnvironmentAlone DEF FilterInv, TypeOK, Shape
  <2>3. Lifecycle'
    BY <2>1 DEF FilterInv, Lifecycle, checkVars
  <2>4. OnePerSlot' /\ ReportsOK' /\ Deliveries'
    BY <2>1, CheckerAlone, EnvironmentAlone
  <2>5. Counted'
    BY <2>1, CheckerAlone DEF FilterInv, Counted, checkVars
  <2>6. Kept'
    BY <2>1 DEF FilterInv, Kept, InDelivery
  <2>7. TasksKnow'
    BY <2>1, EnvironmentAlone DEF FilterInv, TasksKnow, checkVars
  <2>8. QED
    BY <2>2, <2>3, <2>4, <2>5, <2>6, <2>7 DEF FilterInv
<1>2. CASE Tick
  BY <1>2, TickStep
<1>3. CASE \E k \in Windows : Source(k)
  BY <1>3, OpenStep, SubscribedStep, RecordFirstStep, OnDeliveryStep, CloseStep DEF Source
<1>4. CASE TakeReady
  BY <1>4, TakeReadyTakes, TakeReadyStep
<1>5. CASE Postpone \/ Compare \/ Skip \/ FetchFails
  BY <1>5, PostponeStep, CompareStep, SkipStep, FetchFailsStep
<1>6. CASE TakeFinished \/ Stop
  BY <1>6, TakeFinishedStep, StopStep
<1>7. QED
  BY <1>1, <1>2, <1>3, <1>4, <1>5, <1>6 DEF Next, Checker

\* The inductive invariant holds in every state of the filter audit.
THEOREM FilterInvariant == Spec => []FilterInv
BY InvInit, InvStep, PTL DEF Spec

\* Windows and tasks are well typed, no tick calls the RPC more often than MAX_CALLS_PER_TICK, the
\* block cache keeps its bound and a task that waits has an attempt left.
THEOREM FilterTypes == Spec => []TypeOK
<1>1. FilterInv => TypeOK
  BY DEF FilterInv
<1>2. QED
  BY <1>1, FilterInvariant, PTL

\* Each slot the cursor of a window passed is out with the checker or was counted once, whatever
\* order retries, jumps, postponed calls, windows given up and the shutdown come in.
THEOREM EverySlotAccounted == Spec => []SlotsAccounted
<1>1. FilterInv => SlotsAccounted
  <2> SUFFICES ASSUME FilterInv PROVE SlotsAccounted
    OBVIOUS
  <2>1. ASSUME NEW k \in DOMAIN windows
        PROVE  /\ windows[k].in_flight = Cardinality({x \in tasks \cup retries : x.key = k})
               /\ windows[k].checked + windows[k].skipped + windows[k].unchecked
                    + windows[k].in_flight = Passed(windows[k])
    <3>1. Cardinality({x \in tasks \cup retries : x.key = k}) = Cardinality(OutSlots(k))
      BY OutCount DEF OutSlots
    <3>2. QED
      BY <3>1 DEF FilterInv, Counted
  <2>2. QED
    BY <2>1 DEF SlotsAccounted, FilterInv, ReportsOK
<1>2. QED
  BY <1>1, FilterInvariant, PTL

-----------------------------------------------------------------------------
(* Misses. *)

\* What is early in the deliveries stays early: later deliveries are of later slots.
LEMMA EarlyStable ==
  ASSUME FilterInv, NEW k \in Windows, NEW s, Early(k, s),
         \/ served'[k] = served[k]
         \/ \E q \in Nat : served'[k] = served[k] \cup {q} /\ \A r \in served[k] : r <= q
  PROVE  Early(k, s)'
<1>1. PICK f \in served[k] : (\A q \in served[k] : f <= q) /\ f <= s /\ s < f + START_MARGIN
  BY DEF Early
<1>2. f \in served'[k] /\ \A q \in served'[k] : f <= q
  BY <1>1
<1>3. QED
  BY <1>1, <1>2 DEF Early

LEMMA ServedGrows ==
  ASSUME FilterInv, [Next]_vars, NEW k \in Windows
  PROVE  \/ served'[k] = served[k]
         \/ \E q \in Nat : served'[k] = served[k] \cup {q} /\ \A r \in served[k] : r <= q
<1>1. CASE \E j \in Windows, s \in Slots : RecordFirst(j, s)
  <2>1. PICK j \in Windows, s \in Slots :
            /\ \A r \in served[j] : r <= s
            /\ served' = [served EXCEPT ![j] = @ \cup {s}]
    BY <1>1 DEF RecordFirst
  <2>2. served \in [Windows -> SUBSET Slots] /\ s \in Nat
    BY SlotNumbers DEF FilterInv, Shape
  <2>3. QED
    BY <2>1, <2>2
<1>2. CASE ~ \E j \in Windows, s \in Slots : RecordFirst(j, s)
  <2>1. CASE UNCHANGED vars
    BY <2>1 DEF vars, sourceVars
  <2>2. CASE Tick
    BY <2>2 DEF Tick, sourceVars
  <2>3. CASE \E j \in Windows : Source(j)
    BY <1>2, <2>3 DEF Source, Open, Subscribed, OnDelivery, Close
  <2>4. CASE Checker
    BY <2>4 DEF Checker, TakeReady, Postpone, Compare, Skip, FetchFails, TakeFinished, Stop, sourceVars
  <2>5. QED
    BY <2>1, <2>2, <2>3, <2>4 DEF Next
<1>3. QED
  BY <1>1, <1>2

MissesEarly == \A m \in missed : m[1] \in Windows /\ Early(m[1], m[2])

\* A faithful server is reported to have missed a transaction only in the first slots a window
\* delivered, with any delays, outages and retries: a task is handed out only for a slot the
\* subscription saw whole, and it knows of every later delivery.
THEOREM MissesOnlyEarly == Spec => []MissesOnlyAtFirstDelivery
<1>1. Init => MissesEarly
  BY DEF Init, MissesEarly
<1>2. ASSUME FilterInv, MissesEarly, [Next]_vars PROVE MissesEarly'
  <2>1. missed' = missed \/ Compare
    <3>1. CASE UNCHANGED vars
      BY <3>1 DEF vars, checkVars
    <3>2. CASE Tick
      BY <3>2 DEF Tick, checkVars
    <3>3. CASE \E j \in Windows : Source(j)
      BY <3>3 DEF Source, Open, Subscribed, RecordFirst, OnDelivery, Close, checkVars
    <3>4. CASE Checker
      BY <3>4 DEF Checker, TakeReady, Postpone, Skip, FetchFails, TakeFinished, Stop
    <3>5. QED
      BY <1>2, <3>1, <3>2, <3>3, <3>4 DEF Next
  <2>2. ASSUME NEW m \in missed PROVE m[1] \in Windows /\ Early(m[1], m[2])'
    BY <1>2, ServedGrows, EarlyStable DEF MissesEarly
  <2>3. CASE missed' = missed
    BY <2>2, <2>3 DEF MissesEarly
  <2>4. CASE Compare
    <3>1. /\ missed' = missed \cup {<<x.key, x.slot>> : x \in {y \in Group : y.key \in DOMAIN windows /\ MayMiss(y)}}
          /\ served' = served /\ tasks # {}
      BY <2>4 DEF Compare, sourceVars
    <3>2. ASSUME NEW x \in Group, MayMiss(x) PROVE x.key \in Windows /\ Early(x.key, x.slot)'
      <4>1. x \in tasks \cup retries /\ x.key \in Windows /\ Knows(x)
        BY <1>2, <3>1, GroupFacts, Numbers DEF FilterInv, TasksKnow
      <4>2. Early(x.key, x.slot)
        BY <3>2, <4>1 DEF MayMiss, Knows
      <4>3. QED
        BY <1>2, <3>1, <4>1, <4>2, EarlyStable
    <3>3. ASSUME NEW m \in missed' PROVE m[1] \in Windows /\ Early(m[1], m[2])'
      <4>1. CASE m \in missed
        BY <2>2, <4>1
      <4>2. CASE m \notin missed
        <5>1. PICK x \in Group : MayMiss(x) /\ m = <<x.key, x.slot>>
          BY <3>1, <4>2
        <5>2. m[1] = x.key /\ m[2] = x.slot
          BY <5>1
        <5>3. QED
          BY <3>2, <5>1, <5>2
      <4>3. QED
        BY <4>1, <4>2
    <3>4. QED
      BY <3>3 DEF MissesEarly
  <2>5. QED
    BY <2>1, <2>3, <2>4
<1>3. MissesEarly => MissesOnlyAtFirstDelivery
  BY DEF MissesEarly, MissesOnlyAtFirstDelivery, Early
<1>4. QED
  BY <1>1, <1>2, <1>3, FilterInvariant, PTL DEF Spec

-----------------------------------------------------------------------------
(* The range of a reported window. *)

\* Between two sampled slots there are no more of them than their distance in samples.
LEMMA SampledBetween ==
  ASSUME NEW a \in Nat, NEW b \in Nat, Sampled(a), Sampled(b), a <= b,
         NEW S, \A s \in S : s \in Nat /\ Sampled(s) /\ a <= s /\ s < b
  PROVE  Cardinality(S) \in Nat /\ Cardinality(S) <= (b - a) \div SampleEvery
<1> DEFINE n == (b - a) \div SampleEvery
           f == [s \in S |-> (s - a) \div SampleEvery]
           T == 0..(n - 1)
<1>1. SampleEvery \in Nat \ {0}
  BY FilterAuditAssumption
<1>2. n \in Nat /\ b = a + n * SampleEvery
  BY SampledDistance
<1>3. ASSUME NEW s \in S
      PROVE  f[s] \in Nat /\ s = a + f[s] * SampleEvery
  BY SampledDistance
<1> HIDE DEF n, f
<1>4. ASSUME NEW s \in S PROVE f[s] \in T
  <2>1. f[s] * SampleEvery < n * SampleEvery
    <3>1. f[s] * SampleEvery \in Nat /\ n * SampleEvery \in Nat
      BY <1>1, <1>2, <1>3
    <3>2. QED
      BY <1>2, <1>3, <3>1
  <2>2. f[s] < n
    BY <1>1, <1>2, <1>3, <2>1
  <2>3. QED
    BY <1>2, <1>3, <2>2
<1>5. \A x, y \in S : f[x] = f[y] => x = y
  BY <1>3
<1>6. f \in Injection(S, T)
  BY <1>4, <1>5 DEF f, Injection, IsInjective
<1>7. IsFiniteSet(T) /\ Cardinality(T) = n
  <2> DEFINE last == n - 1
  <2>1. last \in Int
    BY <1>2
  <2> HIDE DEF last
  <2>2. IsFiniteSet(0..last) /\ Cardinality(0..last) = IF 0 > last THEN 0 ELSE last - 0 + 1
    BY <2>1, FS_Interval
  <2>3. QED
    BY <1>2, <2>2 DEF last
<1> HIDE DEF T
<1>8. IsFiniteSet(S) /\ Cardinality(S) <= n
  BY <1>6, <1>7, FS_Injection
<1>9. QED
  BY <1>8, FS_CardinalityType DEF n

\* A window that is done was handed out to its end.
LEMMA DoneIsWhole ==
  ASSUME NEW w \in Window, CursorOK(w), ChecksDone(w)
  PROVE  Due(w) \in Nat /\ Due(w) <= Passed(w)
<1>1. Passed(w) \in Nat
  BY PassedIsNat
<1>2. CASE w.tip_open = None
  BY <1>1, <1>2 DEF Due
<1>3. CASE w.tip_open # None
  <2> DEFINE S == {s \in StartSlot(w)..EndSlot(w, 0) : Sampled(s)}
  <2>1. Due(w) = Cardinality(S)
    BY <1>3 DEF Due
  <2>2. StartSlot(w) \in Nat
    BY <1>3, StartBounds
  <2>3. EndSlot(w, 0) \in Nat
    <3>1. w.max \in Nat /\ OrElse(w.tip_close, 0) \in Nat
      BY SlotNumbers DEF Window, OrElse
    <3>2. END_MARGIN + CommitmentLag \in Int
      BY FilterAuditAssumption
    <3>3. Monus(OrElse(w.tip_close, 0), END_MARGIN + CommitmentLag) \in Nat /\ Monus(w.max, 1) \in Nat
      BY <3>1, <3>2 DEF Monus, Larger
    <3>4. QED
      BY <3>3 DEF EndSlot, Smaller
  <2>4. OrElse(w.next, StartSlot(w)) > EndSlot(w, 0)
    BY <1>3 DEF ChecksDone
  <2>5. \A s \in S : s \in Nat /\ Sampled(s) /\ StartSlot(w) <= s /\ s <= EndSlot(w, 0)
    BY <2>2, <2>3
  <2>6. CASE w.next = None
    <3>1. S = {}
      BY <2>2, <2>3, <2>4, <2>6 DEF OrElse
    <3>2. Cardinality(S) = 0
      BY <3>1, FS_EmptySet
    <3>3. QED
      BY <1>1, <2>1, <3>2
  <2>7. CASE w.next # None
    <3>1. /\ w.next \in Nat /\ w.cursor \in Nat /\ Sampled(w.next) /\ Sampled(w.cursor)
          /\ w.cursor <= w.next /\ w.cursor <= RoundUp(StartSlot(w))
      BY <2>7 DEF CursorOK, Window
    <3>2. ASSUME NEW s \in S PROVE s \in Nat /\ Sampled(s) /\ w.cursor <= s /\ s < w.next
      <4>1. s \in Nat /\ Sampled(s) /\ StartSlot(w) <= s /\ s <= EndSlot(w, 0)
        BY <2>5
      <4>2. RoundUp(StartSlot(w)) <= s /\ RoundUp(StartSlot(w)) \in Nat
        BY <2>2, <4>1, RoundedUp
      <4>3. s < w.next
        BY <2>3, <2>4, <2>7, <3>1, <4>1 DEF OrElse
      <4>4. QED
        BY <3>1, <4>1, <4>2, <4>3
    <3>3. Passed(w) = (w.next - w.cursor) \div SampleEvery
      BY <2>7 DEF Passed
    <3> HIDE DEF S
    <3>4. QED
      BY <2>1, <3>1, <3>2, <3>3, SampledBetween
  <2>8. QED
    BY <2>6, <2>7
<1>4. QED
  BY <1>2, <1>3

\* A window reported in its own time accounts for every sampled slot of its final range, however
\* its cursor jumped and its tasks were postponed.
THEOREM WholeRange == Spec => []WholeRangeReported
<1>1. Init => WholeRangeReported
  BY DEF Init, WholeRangeReported
<1>2. ASSUME FilterInv, WholeRangeReported, [Next]_vars PROVE WholeRangeReported'
  <2>1. reports' = reports \/ TakeFinished \/ Stop
    <3>1. CASE UNCHANGED vars
      BY <3>1 DEF vars, checkVars
    <3>2. CASE Tick
      BY <3>2 DEF Tick, checkVars
    <3>3. CASE \E j \in Windows : Source(j)
      BY <3>3 DEF Source, Open, Subscribed, RecordFirst, OnDelivery, Close, checkVars
    <3>4. CASE Checker
      BY <3>4 DEF Checker, TakeReady, Postpone, Compare, Skip, FetchFails
    <3>5. QED
      BY <1>2, <3>1, <3>2, <3>3, <3>4 DEF Next
  <2>2. CASE reports' = reports
    BY <1>2, <2>2 DEF WholeRangeReported
  <2>3. CASE Stop
    <3> DEFINE given(k) == Cardinality({x \in retries : x.key = k})
               left(k) == [windows[k] EXCEPT !.in_flight = Monus(@, given(k)),
                                             !.unchecked = @ + given(k)]
    <3>1. reports' = reports \cup {Report(k, left(k), TRUE) : k \in DOMAIN windows}
      BY <2>3 DEF Stop
    <3>2. \A k, w : Report(k, w, TRUE).early
      BY DEF Report
    <3> HIDE DEF left
    <3>3. \A r \in reports' : r \in reports \/ r.early
      BY <3>1, <3>2
    <3>4. QED
      BY <1>2, <3>3 DEF WholeRangeReported
  <2>4. CASE TakeFinished
    <3>1. PICK f \in 0..Monus(tip, EVICT_MARGIN_SLOTS), stale \in SUBSET DOMAIN windows :
              reports' = reports \cup
                  {Report(k, windows[k], k \in stale) :
                      k \in {q \in DOMAIN windows : Finished(windows[q], f, q \in stale)}}
      BY <2>4 DEF TakeFinished
    <3>2. ASSUME NEW k \in DOMAIN windows, Finished(windows[k], f, k \in stale), k \notin stale
          PROVE  Report(k, windows[k], k \in stale).counted >= Report(k, windows[k], k \in stale).due
      <4>1. windows[k] \in Window /\ CursorOK(windows[k])
        BY <1>2 DEF FilterInv, TypeOK, Counted
      <4>2. ChecksDone(windows[k])
        BY <3>2 DEF Finished
      <4>3. Due(windows[k]) \in Nat /\ Due(windows[k]) <= Passed(windows[k])
            /\ Passed(windows[k]) \in Nat
        BY <4>1, <4>2, DoneIsWhole, PassedIsNat
      <4>4. windows[k].checked + windows[k].skipped + windows[k].unchecked + windows[k].in_flight
               = Passed(windows[k])
        BY <1>2 DEF FilterInv, Counted
      <4>5. QED
        BY <4>3, <4>4 DEF Report
    <3>3. ASSUME NEW r \in reports', ~ r.early PROVE r.counted >= r.due
      <4>1. CASE r \in reports
        BY <1>2, <3>3, <4>1 DEF WholeRangeReported
      <4>2. CASE r \notin reports
        <5>1. PICK k \in DOMAIN windows : /\ Finished(windows[k], f, k \in stale)
                                          /\ r = Report(k, windows[k], k \in stale)
          BY <3>1, <4>2
        <5>2. k \notin stale
          BY <3>3, <5>1 DEF Report
        <5>3. QED
          BY <3>2, <5>1, <5>2
      <4>3. QED
        BY <4>1, <4>2
    <3>4. QED
      BY <3>3 DEF WholeRangeReported
  <2>5. QED
    BY <2>1, <2>2, <2>3, <2>4
<1>3. QED
  BY <1>1, <1>2, FilterInvariant, PTL DEF Spec
=============================================================================
