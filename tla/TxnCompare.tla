----------------------------- MODULE TxnCompare -----------------------------
(***************************************************************************)
(* The transaction comparison of shreds-audit (txncmp.rs): the deshred     *)
(* thread (deshred.rs), one task per gRPC source (grpc.rs), the on-chain   *)
(* audit's worker (verification/onchain_signatures.rs), the filter audit's *)
(* checker as far as it reads the registry (filters/check.rs), and the     *)
(* main loop, which takes a snapshot every two seconds and shuts them all  *)
(* down in order.  They share the signature registry under one lock; each  *)
(* step is one critical section, and an arrival is stamped before the lock *)
(* is taken.                                                               *)
(*                                                                         *)
(* The environment: a provider's data sets each complete once, a gRPC      *)
(* source may send anything again, and a transaction is in one slot.       *)
(***************************************************************************)
EXTENDS SigRegistry, Sequences

CONSTANTS
    Shreds,         \* the shred providers; the other sources are gRPC
    Unaware,        \* gRPC sources that may report slot 0
    Sends,          \* what each source may deliver: of a rotating one, what its filters accept
    SlotOf,         \* the slot of each signature
    OnChain,        \* signatures that are in the block of their slot
    QUEUE,          \* the capacity of the deshred queue
    MaxArrivals,    \* bound: deliveries, over all sources
    MaxConns        \* bound: connections of a gRPC source

Grpc == Sources \ Shreds

Slots == {SlotOf[g] : g \in Sigs}

ASSUME TxnCompareAssumption ==
    /\ Shreds \subseteq Sources /\ Unaware \subseteq Grpc /\ Rotating \subseteq Grpc
    /\ SlotOf \in [Sigs -> 1..SLOT_MAX - 1] /\ Sends \in [Sources -> SUBSET Sigs]
    /\ OnChain \subseteq Sigs
    /\ QUEUE \in Nat \ {0} /\ MaxArrivals \in Nat /\ MaxConns \in Nat

VARIABLES
    reg,        \* the registry
    now,        \* stamp of the next arrival
    feed,       \* the deshred queue
    dropped,    \* deshred_dropped: what the full queue refused, of each provider
    task,       \* the gRPC sources' tasks
    windows,    \* the filter audit's windows, by source and connection
    worker,     \* the on-chain audit's worker
    audit,
    main,       \* where the main thread is: "running" until the shutdown
    archive,    \* rows written to the sink
    hist        \* histories, see Init

threadVars == <<feed, dropped, task, windows, worker, audit, main, archive>>
vars == <<reg, now, threadVars, hist>>

\* Mutant of Cancelled: the token is cancelled once the threads are joined.
CancelledLast == main \notin {"running", "join_deshred", "join_async"}

Cancelled == main # "running"

\* Whether the rows of the signature's slot are retired by now.
Late(sig) == SlotOf[sig] < Floor(reg)

\* record_first, and what the histories keep of it: the first stamp of each source and
\* signature, the signatures delivered late or without a slot, what the on-chain index got
\* before its slot could be claimed, and deliveries made again.
Record(sid, sig, ns, slot, conn) ==
    /\ reg' = RecordFirst(reg, sid, sig, ns, slot, conn)
    /\ hist' = [hist EXCEPT
           !.first = IF <<sid, sig>> \in DOMAIN @ THEN @
                     ELSE [x \in DOMAIN @ \cup {<<sid, sig>>} |->
                              IF x = <<sid, sig>> THEN [ns |-> ns, conn |-> conn] ELSE @[x]],
           !.late = IF Late(sig) THEN @ \cup {sig} ELSE @,
           !.unplaced = IF slot = 0 THEN @ \cup {<<sid, sig>>} ELSE @,
           !.prompt = IF slot # 0 /\ reg.index.tip < slot + LagSlots THEN @ \cup {<<sid, sig>>} ELSE @,
           !.again[sid] = @ + IF <<sid, sig>> \in DOMAIN hist.first THEN 1 ELSE 0]

-----------------------------------------------------------------------------
(* The shred providers and the deshred thread. *)

\* Mutant of Full: off by one.
FullLate == Len(feed) > QUEUE

Full == Len(feed) >= QUEUE

\* TxnCompare::feed, for the shred that completes a data set with sig.
Feed(p, sig) ==
    /\ main = "running" /\ now < MaxArrivals
    /\ sig \in Sends[p] /\ <<p, sig>> \notin hist.fed
    /\ IF Full THEN dropped' = [dropped EXCEPT ![p] = @ + 1] /\ UNCHANGED feed
       ELSE feed' = Append(feed, [sid |-> p, sig |-> sig, ns |-> now]) /\ UNCHANGED dropped
    /\ now' = now + 1
    /\ hist' = [hist EXCEPT !.fed = @ \cup {<<p, sig>>}]
    /\ UNCHANGED <<reg, task, windows, worker, audit, main, archive>>

\* ingest of the deshred thread.
DeshredStep ==
    /\ feed # <<>>
    /\ feed' = Tail(feed)
    /\ Record(feed[1].sid, feed[1].sig, feed[1].ns, SlotOf[feed[1].sig], None)
    /\ UNCHANGED <<now, dropped, task, windows, worker, audit, main, archive>>

-----------------------------------------------------------------------------
(* A gRPC source's task: supervise_grpc_source, run_source and pump. *)

Key(s) == <<s, task[s].conn>>

\* The next connection, with a window of its own if the source rotates.
Open(s) ==
    /\ task[s].pc = "between" /\ ~Cancelled /\ task[s].conn < MaxConns
    /\ task' = [task EXCEPT ![s].pc = "live"]
    /\ windows' = IF s \notin Rotating THEN windows
                  ELSE [k \in DOMAIN windows \cup {Key(s)} |->
                           IF k = Key(s) THEN [delivered |-> 0, tip_close |-> None] ELSE windows[k]]
    /\ UNCHANGED <<reg, now, feed, dropped, worker, audit, main, archive, hist>>

\* A message: now_unix_ns is read before the registry's lock is taken.
Arrive(s, sig, slot) ==
    /\ task[s].pc = "live" /\ now < MaxArrivals
    /\ sig \in Sends[s]
    /\ slot = SlotOf[sig] \/ (slot = 0 /\ s \in Unaware)
    /\ task' = [task EXCEPT ![s].pc = "delivering",
                            ![s].msg = [sig |-> sig, slot |-> slot, ns |-> now]]
    /\ now' = now + 1
    /\ UNCHANGED <<reg, feed, dropped, windows, worker, audit, main, archive, hist>>

\* record_first, and on_delivery for the window; nothing reads a window's delivered before it
\* is closed.
Deliver(s) ==
    LET m == task[s].msg IN
    /\ task[s].pc = "delivering"
    /\ Record(s, m.sig, m.ns, m.slot, task[s].conn)
    /\ task' = [task EXCEPT ![s].pc = "live", ![s].msg = None]
    /\ windows' = IF Key(s) \in DOMAIN windows THEN [windows EXCEPT ![Key(s)].delivered = @ + 1]
                  ELSE windows
    /\ UNCHANGED <<now, feed, dropped, worker, audit, main, archive>>

\* run_source returns: cancelled, the deadline, an error or the end of the stream.  The window
\* is closed at the tip of now.
Return(s) ==
    /\ task[s].pc = "live"
    /\ windows' = IF Key(s) \in DOMAIN windows
                  THEN [windows EXCEPT ![Key(s)].tip_close = reg.high_slot] ELSE windows
    /\ task' = [task EXCEPT ![s].pc = "between", ![s].conn = @ + 1]
    /\ UNCHANGED <<reg, now, feed, dropped, worker, audit, main, archive, hist>>

End(s) ==
    /\ task[s].pc = "between" /\ Cancelled
    /\ task' = [task EXCEPT ![s].pc = "ended"]
    /\ UNCHANGED <<reg, now, feed, dropped, windows, worker, audit, main, archive, hist>>

-----------------------------------------------------------------------------
(* The on-chain audit's worker. *)

Target == Monus(reg.index.tip, LagSlots)

\* Mutant of Claims: the slot claimed last is claimed again.
ClaimsAgain(slot) == slot # 0 /\ slot >= worker.last_sampled

Claims(slot) == slot # 0 /\ slot > worker.last_sampled

\* The slot leaves the index under the registry's lock; the call to the RPC is made without it.
\* A tick that ended just before the cancel still claims, and then gives up.
Claim ==
    /\ worker.pc = "waiting" /\ Claims(Target)
    /\ IF Target \in DOMAIN reg.index.slots
       THEN /\ worker' = IF Cancelled THEN [worker EXCEPT !.last_sampled = Target]
                         ELSE [worker EXCEPT !.pc = "claimed", !.last_sampled = Target,
                                             !.taken = reg.index.slots[Target]]
            /\ reg' = WithoutSlot(reg, Target)
       ELSE worker' = [worker EXCEPT !.last_sampled = Target] /\ UNCHANGED reg
    /\ UNCHANGED <<now, feed, dropped, task, windows, audit, main, archive, hist>>

\* The block's signatures, as the RPC gives them.
Block(slot) == {g \in OnChain : SlotOf[g] = slot /\ ~(OmitsVotes /\ g \in Votes)}

\* getBlock answers; or there is no block in the slot, the call fails, or the cancel comes first,
\* of which the audit only keeps a count.
Sampled ==
    /\ worker.pc = "claimed"
    /\ \/ audit' = CompareSlot(audit, worker.taken, Block(worker.last_sampled))
       \/ UNCHANGED audit
    /\ worker' = [worker EXCEPT !.pc = "waiting", !.taken = None]
    /\ UNCHANGED <<reg, now, feed, dropped, task, windows, main, archive, hist>>

WorkerEnds ==
    /\ worker.pc = "waiting" /\ Cancelled
    /\ worker' = [worker EXCEPT !.pc = "ended"]
    /\ UNCHANGED <<reg, now, feed, dropped, task, windows, audit, main, archive, hist>>

-----------------------------------------------------------------------------
(* The filter audit's checker: what it takes of the registry for a window's row. *)

\* Mutant of LatencyFinal: one slot too early.
LatencyFinalEarly(w) == w.delivered = 0 \/ reg.finalized_floor >= w.tip_close

LatencyFinal(w) == w.delivered = 0 \/ reg.finalized_floor > w.tip_close

Latency(r, k) == IF k \in DOMAIN r.window_latency THEN r.window_latency[k]
                 ELSE [contested |-> 0, wins |-> 0]

\* take_finished and emit_window; a window too old is given up as it is.
EmitWindow(k) ==
    /\ main \in {"running", "join_deshred", "join_async"} /\ k \in DOMAIN windows
    /\ windows[k].tip_close # None
    /\ \E stale \in BOOLEAN :
           /\ stale \/ LatencyFinal(windows[k])
           /\ hist' = [hist EXCEPT !.emitted = @ \cup
                  {[key |-> k, latency |-> Latency(reg, k), early |-> ~LatencyFinal(windows[k])]}]
    /\ windows' = [q \in DOMAIN windows \ {k} |-> windows[q]]
    /\ reg' = WithoutLatency(reg, {k})
    /\ UNCHANGED <<now, feed, dropped, task, worker, audit, main, archive>>

\* FilterAuditor::finish cancels and joins the checker, which retires every row and writes what
\* is left of the windows.
FinishFilterAudit ==
    LET final == Finalize(reg, TRUE) IN
    /\ main = "finish_audit"
    /\ reg' = IF Rotating = {} THEN reg ELSE WithoutLatency(final, DOMAIN windows)
    /\ hist' = [hist EXCEPT !.emitted = @ \cup
           {[key |-> k, latency |-> Latency(final, k), early |-> FALSE] : k \in DOMAIN windows}]
    /\ windows' = [k \in {} |-> None]
    /\ main' = "final_snapshot"
    /\ UNCHANGED <<now, feed, dropped, task, worker, audit, archive>>

-----------------------------------------------------------------------------
(* The main thread. *)

Go(pc) == main' = pc

\* What write_txns appends to the archive after a finalize.
Write(r) == archive' = archive \cup r.rows /\ reg' = WithoutRows(r)

\* Every two seconds: tc.snapshot retires the old rows, and write_txns harvests them.
Snapshot ==
    /\ main = "running"
    /\ Write(Finalize(reg, FALSE))
    /\ UNCHANGED <<now, feed, dropped, task, windows, worker, audit, main, hist>>

\* TxnCompare::shutdown, step by step: cancel and drop the feed, join the deshred thread, which
\* empties the queue first, join the runtime of the gRPC tasks, finish the filter audit.
Cancel ==
    /\ main = "running" /\ Go("join_deshred")
    /\ UNCHANGED <<reg, now, feed, dropped, task, windows, worker, audit, archive, hist>>

\* Mutant of JoinDeshred: the thread stops at the cancel and leaves the queue.
JoinDeshredAtOnce ==
    /\ main = "join_deshred" /\ Go("join_async")
    /\ UNCHANGED <<reg, now, feed, dropped, task, windows, worker, audit, archive, hist>>

JoinDeshred ==
    /\ main = "join_deshred" /\ feed = <<>> /\ Go("join_async")
    /\ UNCHANGED <<reg, now, feed, dropped, task, windows, worker, audit, archive, hist>>

JoinAsync ==
    /\ main = "join_async" /\ (\A s \in Grpc : task[s].pc = "ended") /\ Go("finish_audit")
    /\ UNCHANGED <<reg, now, feed, dropped, task, windows, worker, audit, archive, hist>>

FinalSnapshot ==
    /\ main = "final_snapshot" /\ Go("finish")
    /\ Write(Finalize(reg, TRUE))
    /\ UNCHANGED <<now, feed, dropped, task, windows, worker, audit, hist>>

\* The sink is closed, and finish joins the worker.
Finish ==
    /\ main = "finish" /\ worker.pc = "ended" /\ Go("done")
    /\ UNCHANGED <<reg, now, feed, dropped, task, windows, worker, audit, archive, hist>>

Done == main = "done" /\ UNCHANGED vars

-----------------------------------------------------------------------------

Init ==
    /\ reg = NewRegistry
    /\ now = 0 /\ feed = <<>>
    /\ dropped = [p \in Shreds |-> 0]
    /\ task = [s \in Grpc |-> [pc |-> "between", conn |-> 0, msg |-> None]]
    /\ windows = [k \in {} |-> None]
    /\ worker = [pc |-> "waiting", last_sampled |-> 0, taken |-> None]
    /\ audit = NewAudit
    /\ main = "running" /\ archive = {}
    /\ hist = [fed |-> {},                       \* <<provider, sig>>
               first |-> [x \in {} |-> None],    \* first stamp and connection of <<sid, sig>>
               late |-> {},                      \* signatures delivered after their retirement
               unplaced |-> {},                  \* <<sid, sig>> delivered without a slot
               prompt |-> {},                    \* <<sid, sig>> indexed before the slot is due
               again |-> [s \in Sources |-> 0],  \* redeliveries
               emitted |-> {}]                   \* windows' rows

Next ==
    \/ \E p \in Shreds, g \in Sigs : Feed(p, g)
    \/ DeshredStep
    \/ \E s \in Grpc :
           \/ Open(s) \/ Deliver(s) \/ Return(s) \/ End(s)
           \/ \E g \in Sigs, slot \in {0} \cup Slots : Arrive(s, g, slot)
    \/ Claim \/ Sampled \/ WorkerEnds
    \/ \E k \in DOMAIN windows : EmitWindow(k)
    \/ FinishFilterAudit
    \/ Snapshot \/ Cancel \/ JoinDeshred \/ JoinAsync \/ FinalSnapshot \/ Finish \/ Done

\* Every thread is scheduled, a cancelled source returns from its select, and a call to the RPC
\* ends: it has a timeout.
Fairness ==
    /\ WF_vars(DeshredStep)
    /\ \A s \in Grpc : WF_vars(Deliver(s) \/ End(s)) /\ WF_vars(Cancelled /\ Return(s))
    /\ WF_vars(Sampled \/ WorkerEnds)
    /\ WF_vars(JoinDeshred \/ JoinAsync \/ FinishFilterAudit \/ FinalSnapshot \/ Finish)

Spec == Init /\ [][Next]_vars /\ Fairness

-----------------------------------------------------------------------------
(* Correctness. *)

Known(sig) == {s \in Sources : <<s, sig>> \in DOMAIN hist.first}
Stamp(s, sig) == hist.first[<<s, sig>>].ns

\* Rows retired so far.
Out == archive \cup reg.rows
Gone == {g \in Sigs : Known(g) # {} /\ g \notin DOMAIN reg.events}

TypeOK ==
    /\ now \in 0..MaxArrivals /\ Len(feed) <= QUEUE
    /\ DOMAIN reg.events \subseteq Sigs
    /\ \A g \in DOMAIN reg.events : Present(reg.events[g]) # {}
    /\ DOMAIN windows \subseteq Rotating \X (0..MaxConns)
    /\ DOMAIN reg.index.slots \subseteq Slots
    /\ worker.pc \in {"waiting", "claimed", "ended"}
    /\ worker.pc = "claimed" => worker.last_sampled \in Slots

\* A signature no source delivered after its retirement is raced once, between all the sources
\* that delivered it and by their first stamps, whatever the order the lock was taken in; if
\* there is none delivered so late, the counters are exact.
RacedOnce ==
    /\ \A g \in Sigs \ hist.late :
           /\ g \in DOMAIN reg.events => \A r \in Out : r.sig # g
           /\ g \in Gone => {<<r.sid, r.ns>> : r \in {x \in Out : x.sig = g}} =
                            {<<s, Stamp(s, g)>> : s \in Known(g)}
    /\ hist.late = {} =>
           /\ reg.distinct_total = Cardinality({g \in Sigs : Known(g) # {}})
           /\ \A s \in Sources :
                  reg.wins[s] = Cardinality({g \in Gone :
                      /\ s \in Known(g) /\ Cardinality(Known(g)) >= 2
                      /\ \A q \in Known(g) : Stamp(s, g) <= Stamp(q, g)})

\* The on-chain audit charges a source only with what it did: a transaction of a block as missed
\* if the source had not delivered it when the tip was LagSlots past the slot, one as corrupted
\* if no block has it, one as duplicated if it was delivered again.
OnchainBlameIsDue ==
    \A s \in Sources \ Rotating :
        LET a == audit.sources[s] IN
        /\ a.missed <= Cardinality({g \in Sigs : g \in Block(SlotOf[g]) /\ <<s, g>> \notin hist.prompt})
        /\ a.corrupted <= Cardinality({g \in Sigs \ OnChain : s \in Known(g)})
        /\ a.duplicated <= hist.again[s]

\* The first deliveries a window raced against another source.
RacedThrough(k) ==
    {g \in Sigs : k[1] \in Known(g) /\ Cardinality(Known(g)) >= 2 /\ hist.first[<<k[1], g>>].conn = k[2]}

\* The row of a window that is not given up early holds all of the window's races: none is
\* retired after it.  Unless its source delivered something without a slot, or a signature that
\* some source delivered after its retirement, which may be raced again.
LatencyComplete ==
    \A e \in hist.emitted :
        LET mine == RacedThrough(e.key) IN
        ~e.early /\ (\A g \in hist.late : e.key[1] \notin Known(g))
                 /\ (\A x \in hist.unplaced : x[1] # e.key[1]) =>
            /\ mine \subseteq Gone
            /\ e.latency.contested = Cardinality(mine)

\* When the sink is closed every delivery that reached the registry is in the archive, and every
\* data set fed was recorded or counted as dropped: the shutdown waits for what is under way.
FinalArchiveComplete ==
    main \in {"finish", "done"} =>
        /\ \A x \in DOMAIN hist.first : \E r \in archive : r.sid = x[1] /\ r.sig = x[2]
        /\ \A p \in Shreds :
               Cardinality({x \in hist.fed : x[1] = p}) =
                   dropped[p] + Cardinality({x \in DOMAIN hist.first : x[1] = p})

\* A cancelled run ends: no thread waits for one that waits for it.
ShutdownCompletes == main # "running" ~> main = "done"
=============================================================================
