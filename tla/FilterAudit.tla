----------------------------- MODULE FilterAudit -----------------------------
(***************************************************************************)
(* The filter audit of shreds-audit: windows, one per subscription of a    *)
(* rotating gRPC source (filters/audit.rs, supervise_grpc_source of        *)
(* txncmp.rs, run_source and pump of grpc.rs), and the checker thread that *)
(* compares sampled slots of each window with the RPC's block              *)
(* (filters/check.rs).                                                     *)
(*                                                                         *)
(* Source tasks and the checker share the windows under one lock and read  *)
(* the newest slot any source has seen, the tip, under another; each step  *)
(* is one critical section.  A window stands for its (source, connection)  *)
(* key, which is never used again.                                         *)
(*                                                                         *)
(* The chain and the servers are the environment.  A server is faithful:   *)
(* it delivers every matching transaction from the slot after the          *)
(* subscription on, slot by slot, within ServerDelay slots.  What a slot   *)
(* holds is only fixed by what is delivered, so a slot the subscription    *)
(* did not see whole may hold a transaction the window never got.          *)
(***************************************************************************)
EXTENDS Integers, FiniteSets, Sequences, SequencesExt

CONSTANTS
    Windows,
    Quiet,          \* windows whose filters no transaction matches
    SampleEvery,
    LagSlots,       \* onchain_lag_slots
    CommitmentLag,
    START_MARGIN, END_MARGIN,
    START_WITHOUT_DELIVERY_SLOTS,
    MAX_CURSOR_LAG_SLOTS,
    MAX_TASKS_PER_WINDOW,
    EVICT_MARGIN_SLOTS,
    MAX_ATTEMPTS,
    MAX_CALLS_PER_TICK,
    BLOCK_CACHE,
    ServerDelay,
    MaxTipLag,      \* slots the tip is behind the chain
    MaxSlot,        \* bound: slots of the chain
    None

ASSUME FilterAuditAssumption ==
    /\ Quiet \subseteq Windows
    /\ SampleEvery \in Nat \ {0}
    /\ LagSlots \in Nat /\ CommitmentLag \in Nat
    /\ START_MARGIN \in Nat /\ END_MARGIN \in Nat
    /\ START_WITHOUT_DELIVERY_SLOTS \in Nat /\ MAX_CURSOR_LAG_SLOTS \in Nat
    /\ MAX_TASKS_PER_WINDOW \in Nat \ {0} /\ EVICT_MARGIN_SLOTS \in Nat
    /\ MAX_ATTEMPTS \in Nat \ {0} /\ MAX_CALLS_PER_TICK \in Nat \ {0}
    /\ BLOCK_CACHE \in Nat
    /\ ServerDelay \in Nat /\ MaxTipLag \in Nat /\ MaxSlot \in Nat \ {0}
    /\ None \notin Nat

\* What makes a silent window's range safe: the server is faster than the margins.
ASSUME EnvironmentAssumption ==
    /\ ServerDelay < LagSlots /\ ServerDelay < END_MARGIN
    /\ MaxTipLag < START_MARGIN

VARIABLES
    clock,      \* the chain's slot
    tip,        \* high_slot of the registry
    windows,    \* the audit's state
    source,     \* where each window's source task is, and the slot it delivers
    from,       \* environment: the slot each subscription began in
    until,      \* environment: the slot it ended in
    served,     \* environment: slots of which a transaction was delivered
    checker,    \* where the checker is, and its calls in this tick
    tasks,      \* by_slot of the tick, and the retries kept between ticks
    retries,
    cache,
    backoff,    \* an RPC error since the last success
    missed,     \* history: slots found to hold a transaction not delivered
    reports     \* history: windows emitted

sourceVars == <<source, from, until, served>>
checkVars == <<checker, tasks, retries, cache, backoff, missed, reports>>
vars == <<clock, tip, windows, sourceVars, checkVars>>

Slots == 0..MaxSlot

Larger(a, b) == IF a >= b THEN a ELSE b
Smaller(a, b) == IF a <= b THEN a ELSE b
Monus(a, b) == Larger(a - b, 0)

-----------------------------------------------------------------------------
(* A window's range. *)

\* Window::new.  delivered > 0 is first # None; cursor is the history of where next started.
NewWindow ==
    [subscribed |-> FALSE, tip_open |-> None, tip_close |-> None, ended |-> FALSE,
     first |-> None, max |-> 0, sampled |-> {}, next |-> None, cursor |-> None,
     in_flight |-> 0, checked |-> 0, skipped |-> 0, unchecked |-> 0]

OrElse(x, y) == IF x = None THEN y ELSE x

\* start_slot, when tip_open is known.
StartSlot(w) == Larger(w.tip_open, OrElse(w.first, 0)) + START_MARGIN

StartKnown(w, t) ==
    \/ w.first # None
    \/ w.ended
    \/ w.tip_open # None /\ t >= w.tip_open + START_WITHOUT_DELIVERY_SLOTS

\* Mutant of EndSlot: a silent window is checked up to the slot it was closed in.
EndSlotAtClose(w, t) ==
    LET end == Monus(OrElse(w.tip_close, t), CommitmentLag)
    IN  IF w.first = None THEN end ELSE Smaller(end, Monus(w.max, 1))

EndSlot(w, t) ==
    LET end == Monus(OrElse(w.tip_close, t), END_MARGIN + CommitmentLag)
    IN  IF w.first = None THEN end ELSE Smaller(end, Monus(w.max, 1))

\* Sampled slots are the multiples of SampleEvery; RoundUp(s) is the first from s on.
Sampled(s) == s % SampleEvery = 0
RoundUp(s) == ((s + SampleEvery - 1) \div SampleEvery) * SampleEvery

-----------------------------------------------------------------------------
(* Time and the other sources. *)

\* The next slot begins, and the other sources' record_first keep the tip fresh.  A source task
\* between record_first and on_delivery gets the lock first: a slot lasts 400 ms.
Tick ==
    /\ clock < MaxSlot
    /\ \A k \in Windows : source[k].pc # "delivering"
    /\ clock' = clock + 1
    /\ tip' \in {t \in tip..clock' : clock' - t <= MaxTipLag}
    /\ UNCHANGED <<windows, sourceVars, checkVars>>

\* tip(): the registry's lock is released before the windows' lock is taken, and the tip may
\* have moved in between, within the slot.
TipRead == {t \in 0..tip : clock - t <= MaxTipLag}

-----------------------------------------------------------------------------
(* A source task. *)

Goto(k, pc) == source' = [source EXCEPT ![k].pc = pc]

Open(k) ==
    /\ source[k].pc = "none" /\ checker.pc # "stopped"
    /\ windows' = [q \in DOMAIN windows \cup {k} |-> IF q = k THEN NewWindow ELSE windows[q]]
    /\ Goto(k, "connecting")
    /\ UNCHANGED <<clock, tip, from, until, served, checkVars>>

\* The subscription is open, and pump calls subscribed.
Subscribed(k) ==
    /\ source[k].pc = "connecting"
    /\ \E t \in TipRead :
           windows' = [windows EXCEPT ![k].tip_open = IF t > 0 THEN t ELSE None,
                                      ![k].subscribed = TRUE]
    /\ from' = [from EXCEPT ![k] = clock]
    /\ Goto(k, "live")
    /\ UNCHANGED <<clock, tip, until, served, checkVars>>

\* A transaction of slot s: record_first raises the tip, then on_delivery is called.
RecordFirst(k, s) ==
    /\ source[k].pc = "live" /\ k \notin Quiet
    /\ s >= from[k] /\ s <= clock /\ clock <= s + ServerDelay
    /\ \A r \in served[k] : r <= s
    /\ tip' = Larger(tip, s)
    /\ served' = [served EXCEPT ![k] = @ \cup {s}]
    /\ source' = [source EXCEPT ![k] = [pc |-> "delivering", slot |-> s]]
    /\ UNCHANGED <<clock, windows, from, until, checkVars>>

\* Whether a delivery is kept for a check: sampled slots from the start on, as it is now.
Keeps(w, s) == Sampled(s) /\ w.tip_open # None /\ s >= StartSlot(w)

OnDelivery(k) ==
    LET s == source[k].slot
        w == windows[k]
        seen == [w EXCEPT
            !.first = OrElse(@, s),
            !.tip_open = IF w.subscribed /\ @ = None /\ s > 0 THEN s ELSE @,
            !.max = Larger(@, s)]
    IN  /\ source[k].pc = "delivering"
        /\ windows' = [windows EXCEPT ![k] =
               IF Keeps(seen, s) THEN [seen EXCEPT !.sampled = @ \cup {s}] ELSE seen]
        /\ source' = [source EXCEPT ![k] = [pc |-> "live", slot |-> 0]]
        /\ UNCHANGED <<clock, tip, from, until, served, checkVars>>

\* run_source returns at the deadline, at a shutdown or with an error, and close is called.
Close(k) ==
    /\ source[k].pc \in {"connecting", "live"}
    /\ \E t \in TipRead :
           windows' = [windows EXCEPT ![k].tip_close = t, ![k].ended = TRUE]
    /\ until' = [until EXCEPT ![k] = clock]
    /\ Goto(k, "closed")
    /\ UNCHANGED <<clock, tip, from, served, checkVars>>

-----------------------------------------------------------------------------
(* The checker's tick. *)

Task == [key : Windows, slot : Slots, delivered : BOOLEAN, attempts : 0..MAX_ATTEMPTS]

\* take_ready for one window, with the tip read before the lock was taken.
Opened(w, t) == [w EXCEPT !.tip_open = IF w.subscribed /\ @ = None /\ t > 0 THEN t ELSE @]

\* The cursor is set once, and a cursor too far behind the tip jumps.
Advanced(w, t) ==
    LET next == OrElse(w.next, RoundUp(StartSlot(w)))
        low == Monus(t, LagSlots + MAX_CURSOR_LAG_SLOTS)
        jumped == IF next < low THEN RoundUp(low) ELSE next
    IN  [w EXCEPT !.next = jumped,
                  !.unchecked = @ + (jumped - next) \div SampleEvery,
                  !.cursor = OrElse(@, next)]

\* The slots handed out: at most MAX_TASKS_PER_WINDOW from the cursor on.
Handed(w, t) ==
    {s \in Slots : /\ Sampled(s) /\ s >= w.next
                   /\ s < w.next + MAX_TASKS_PER_WINDOW * SampleEvery
                   /\ s <= EndSlot(w, t) /\ s + LagSlots <= t}

HandOut(w, t) ==
    LET next == w.next + Cardinality(Handed(w, t)) * SampleEvery
    IN  [w EXCEPT !.next = next,
                  !.in_flight = @ + Cardinality(Handed(w, t)),
                  !.sampled = {s \in @ : s >= next}]

\* Whether take_ready goes past its two continues.
Ready(w, t) == (w.next # None \/ StartKnown(w, t)) /\ w.tip_open # None

\* take_ready, and the retries that are due.  Which of them are is left open: RETRY_AFTER and
\* the pauses are not timed.
TakeReady ==
    \E t \in TipRead, due \in SUBSET retries :
        LET opened(k) == Opened(windows[k], t)
            ready == {k \in DOMAIN windows : Ready(opened(k), t)}
            advanced(k) == Advanced(opened(k), t)
            new(k) == {[key |-> k, slot |-> s, delivered |-> s \in windows[k].sampled, attempts |-> 0] :
                          s \in Handed(advanced(k), t)}
        IN  /\ checker.pc = "idle"
            /\ checker' = [pc |-> "checking", calls |-> 0]
            /\ windows' = [k \in DOMAIN windows |->
                   IF k \in ready THEN HandOut(advanced(k), t) ELSE opened(k)]
            /\ retries' = retries \ due
            /\ tasks' = due \cup UNION {new(k) : k \in ready}
            /\ UNCHANGED <<clock, tip, sourceVars, cache, backoff, missed, reports>>

\* by_slot: the tasks of the lowest slot come next.
NextSlot == CHOOSE s \in {x.slot : x \in tasks} : \A x \in tasks : s <= x.slot
Group == {x \in tasks : x.slot = NextSlot}
Attempt == 1 + (CHOOSE n \in {x.attempts : x \in Group} : \A x \in Group : x.attempts <= n)
Cached == Contains(cache, NextSlot)

\* Mutant of Exhausted: one call more.
ExhaustedLate == checker.calls > MAX_CALLS_PER_TICK

Exhausted == checker.calls >= MAX_CALLS_PER_TICK

\* The counters of the windows of a group, those that are still there.
Settle(field) ==
    windows' = [k \in DOMAIN windows |->
        LET n == Cardinality({x \in Group : x.key = k}) IN
        [windows[k] EXCEPT !.in_flight = Monus(@, n), ![field] = @ + n]]

Called == checker' = [checker EXCEPT !.calls = IF Cached THEN @ ELSE @ + 1]

\* Waits for another tick without spending an attempt: the tick made its calls, or the pause
\* after an error is not over.
Postpone ==
    /\ checker.pc = "checking" /\ tasks # {} /\ ~Cached /\ (Exhausted \/ backoff)
    /\ retries' = retries \cup Group
    /\ tasks' = tasks \ Group
    /\ UNCHANGED <<clock, tip, windows, sourceVars, checker, cache, backoff, missed,
                   reports>>

\* Whether the subscription of k saw the whole of slot s: it began before, and a later slot was
\* delivered or the server had the time to deliver this one.
SeenWhole(k, s) ==
    /\ from[k] < s
    /\ \/ \E r \in served[k] : r > s
       \/ s + ServerDelay < OrElse(until[k], clock)

\* Whether the filter may accept a transaction of the block that the task does not have.
MayMiss(x) ==
    SeenWhole(x.key, x.slot) => x.slot \in served[x.key] /\ ~x.delivered

\* fetch returns the block, from the cache or from the RPC, and each task is compared.
Compare ==
    /\ checker.pc = "checking" /\ tasks # {} /\ (Cached \/ ~Exhausted)
    /\ Called
    /\ cache' = IF Cached THEN cache
                ELSE LET longer == Append(cache, NextSlot)
                     IN  IF Len(longer) > BLOCK_CACHE THEN Tail(longer) ELSE longer
    /\ backoff' = IF Cached THEN backoff ELSE FALSE
    /\ Settle("checked")
    /\ missed' = missed \cup {<<x.key, x.slot>> : x \in {y \in Group : y.key \in DOMAIN windows /\ MayMiss(y)}}
    /\ tasks' = tasks \ Group
    /\ UNCHANGED <<clock, tip, sourceVars, retries, reports>>

\* The cluster produced no block for the slot.
Skip ==
    /\ checker.pc = "checking" /\ tasks # {} /\ ~Cached /\ ~Exhausted
    /\ Called
    /\ backoff' = FALSE
    /\ Settle("skipped")
    /\ tasks' = tasks \ Group
    /\ UNCHANGED <<clock, tip, sourceVars, retries, cache, missed, reports>>

\* Mutant of Unfetched: a task given up stays in flight.
UnfetchedKept == UNCHANGED windows

\* The tasks of a group that used up its attempts.
Unfetched == Settle("unchecked")

\* The block is not available yet, or the RPC failed, which starts a backoff.
FetchFails ==
    /\ checker.pc = "checking" /\ tasks # {} /\ ~Cached /\ ~Exhausted
    /\ Called
    /\ backoff' \in {backoff, TRUE}
    /\ IF Attempt < MAX_ATTEMPTS
       THEN /\ retries' = retries \cup {[x EXCEPT !.attempts = Attempt] : x \in Group}
            /\ UNCHANGED windows
       ELSE /\ Unfetched
            /\ UNCHANGED retries
    /\ tasks' = tasks \ Group
    /\ UNCHANGED <<clock, tip, sourceVars, cache, missed, reports>>

\* All of the range was handed out and came back.  The window is closed: its end is fixed.
ChecksDone(w) ==
    /\ w.in_flight = 0
    /\ w.tip_open # None => OrElse(w.next, StartSlot(w)) > EndSlot(w, 0)

LatencyFinal(w, f) == w.first = None \/ f > w.tip_close

\* Mutants of Finished: the window's row is written although part of its range was not handed
\* out; an old window with a task out waits for it.
FinishedInFlightOnly(w, f, stale) == w.ended /\ ((w.in_flight = 0 /\ LatencyFinal(w, f)) \/ stale)

FinishedNoGiveUp(w, f, stale) == w.ended /\ ChecksDone(w) /\ LatencyFinal(w, f)

Finished(w, f, stale) == w.ended /\ ((ChecksDone(w) /\ LatencyFinal(w, f)) \/ stale)

\* Slots the cursor of a window went over.
Passed(w) == IF w.next = None THEN 0 ELSE (w.next - w.cursor) \div SampleEvery

\* Sampled slots of a closed window's final range.
Due(w) == IF w.tip_open = None THEN 0
          ELSE Cardinality({s \in StartSlot(w)..EndSlot(w, 0) : Sampled(s)})

\* Window::finished and emit_window: of the row, what the counters add up to.
Report(k, w, early) ==
    [key |-> k, counted |-> w.checked + w.skipped + w.unchecked + w.in_flight,
     passed |-> Passed(w), due |-> Due(w), early |-> early]

\* take_finished.  The registry's finalized_floor is what the last finalize(false) made of the
\* tip of its time.  A window that ended GIVE_UP_SECS ago is reported with what it has.
TakeFinished ==
    \E f \in 0..Monus(tip, EVICT_MARGIN_SLOTS), stale \in SUBSET DOMAIN windows :
        LET done == {k \in DOMAIN windows : Finished(windows[k], f, k \in stale)} IN
        /\ checker.pc = "checking" /\ tasks = {}
        /\ reports' = reports \cup {Report(k, windows[k], k \in stale) : k \in done}
        /\ windows' = [k \in DOMAIN windows \ done |-> windows[k]]
        /\ checker' = [pc |-> "idle", calls |-> 0]
        /\ UNCHANGED <<clock, tip, sourceVars, tasks, retries, cache, backoff, missed>>

\* The sources are gone and the checker is cancelled: retries are given up, and what is left of
\* the windows is reported.
Stop ==
    LET given(k) == Cardinality({x \in retries : x.key = k})
        left(k) == [windows[k] EXCEPT !.in_flight = Monus(@, given(k)), !.unchecked = @ + given(k)]
    IN  /\ checker.pc = "idle"
        /\ \A k \in Windows : source[k].pc \in {"none", "closed"}
        /\ reports' = reports \cup {Report(k, left(k), TRUE) : k \in DOMAIN windows}
        /\ windows' = [k \in {} |-> NewWindow]
        /\ retries' = {}
        /\ checker' = [checker EXCEPT !.pc = "stopped"]
        /\ UNCHANGED <<clock, tip, sourceVars, tasks, cache, backoff, missed>>

Init ==
    /\ clock = 1 /\ tip = 0
    /\ windows = [k \in {} |-> NewWindow]
    /\ source = [k \in Windows |-> [pc |-> "none", slot |-> 0]]
    /\ from = [k \in Windows |-> None] /\ until = [k \in Windows |-> None]
    /\ served = [k \in Windows |-> {}]
    /\ checker = [pc |-> "idle", calls |-> 0]
    /\ tasks = {} /\ retries = {} /\ cache = <<>> /\ backoff = FALSE
    /\ missed = {} /\ reports = {}

Source(k) == \/ Open(k) \/ Subscribed(k)
             \/ (\E s \in Slots : RecordFirst(k, s)) \/ OnDelivery(k)
             \/ Close(k)

Checker == \/ TakeReady
           \/ Postpone \/ Compare \/ Skip \/ FetchFails
           \/ TakeFinished \/ Stop

Next ==
    \/ Tick
    \/ \E k \in Windows : Source(k)
    \/ Checker

Reports(k) == TakeFinished /\ reports' # reports /\ k \notin DOMAIN windows'

\* The checker's thread is scheduled, and GIVE_UP_SECS pass: a closed window is not too young
\* for ever.
Fairness == WF_vars(Checker) /\ \A k \in Windows : SF_vars(Reports(k))

Spec == Init /\ [][Next]_vars /\ Fairness

-----------------------------------------------------------------------------
(* Correctness. *)

Window ==
    [subscribed : BOOLEAN, tip_open : Slots \cup {None}, tip_close : Slots \cup {None},
     ended : BOOLEAN, first : Slots \cup {None}, max : Slots,
     sampled : SUBSET Slots, next : Nat \cup {None}, cursor : Nat \cup {None},
     in_flight : Nat, checked : Nat, skipped : Nat, unchecked : Nat]

\* Windows and tasks are well typed; no tick calls the RPC more often than it may, and a
\* task that waits still has an attempt left.
TypeOK ==
    /\ clock \in Slots /\ tip \in Slots /\ tip <= clock
    /\ DOMAIN windows \subseteq Windows
    /\ \A k \in DOMAIN windows : windows[k] \in Window
    /\ \A x \in tasks \cup retries : x \in Task /\ x.attempts < MAX_ATTEMPTS
    /\ checker.calls <= MAX_CALLS_PER_TICK
    /\ Len(cache) <= BLOCK_CACHE

\* Each slot the cursor of a window passed is out with the checker or was counted once, as
\* checked, skipped or unchecked, through retries, jumps, postponed calls and windows given up.
SlotsAccounted ==
    /\ \A k \in DOMAIN windows :
           LET w == windows[k] IN
           /\ w.in_flight = Cardinality({x \in tasks \cup retries : x.key = k})
           /\ w.checked + w.skipped + w.unchecked + w.in_flight = Passed(w)
    /\ \A r \in reports : r.counted = r.passed
    /\ \A r, q \in reports : r.key = q.key => r = q

\* A window reported in its own time, not given up or cut by a shutdown, accounts for every
\* sampled slot of its final range.
WholeRangeReported ==
    \A r \in reports : ~r.early => r.counted >= r.due

\* A faithful server is reported to have missed a transaction only in the first slots the
\* window delivered: everywhere else only slots the subscription saw whole are compared.
MissesOnlyAtFirstDelivery ==
    \A m \in missed :
        \E f \in served[m[1]] :
            /\ \A s \in served[m[1]] : f <= s
            /\ f <= m[2] /\ m[2] < f + START_MARGIN

\* README: "`missed` (block txs the filter accepts, not delivered with its tag)".  A faithful
\* server delivers every one of the slots that count, so none is missed.
MissedWereNotDelivered == \A m \in missed : m[2] \notin served[m[1]]

\* A window that was closed is reported, whatever the RPC does.
ClosedIsReported ==
    \A k \in Windows : source[k].pc = "closed" ~> \E r \in reports : r.key = k
=============================================================================
