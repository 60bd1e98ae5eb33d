---------------------------- MODULE SigRegistry ----------------------------
(***************************************************************************)
(* The signature registry of shreds-audit (sigreg.rs): one row for each    *)
(* transaction signature with the time every source first delivered it,    *)
(* retired into the counters of the race once its slot is old.  All        *)
(* sources write it under one lock.  Operators only, on the registry's     *)
(* value; TxnCompare has the threads that call them.                       *)
(***************************************************************************)
EXTENDS OnchainAudit

CONSTANTS
    Sigs,
    Votes,              \* signatures of simple votes
    OmitsVotes,         \* the RPC leaves votes out of its blocks
    EVICT_MARGIN_SLOTS,
    SLOT_MAX,           \* bound: stands for u64::MAX, above every slot
    None

ASSUME SigRegistryAssumption ==
    /\ Votes \subseteq Sigs /\ OmitsVotes \in BOOLEAN
    /\ EVICT_MARGIN_SLOTS \in Nat /\ SLOT_MAX \in Nat
    /\ IsFiniteSet(Sigs)
    /\ None \notin Nat /\ None \notin [ns : Nat, dups : Nat, conn : Nat \cup {None}]

NewRegistry ==
    [events |-> [g \in {} |-> None], high_slot |-> 0, finalized_floor |-> 0,
     distinct_total |-> 0, contested_total |-> 0,
     seen |-> [s \in Sources |-> 0], contested |-> [s \in Sources |-> 0],
     wins |-> [s \in Sources |-> 0],
     window_latency |-> [k \in {} |-> None],
     rows |-> {}, index |-> NewIndex]

-----------------------------------------------------------------------------
(* record_first. *)

\* What the on-chain audit must see: not what a rotating source sent, nor votes the block lacks.
Indexed(sid, sig) == sid \notin Rotating /\ ~(OmitsVotes /\ sig \in Votes)

RowOf(reg, sig, slot) ==
    IF sig \in DOMAIN reg.events THEN reg.events[sig]
    ELSE [slot |-> slot, ts |-> [s \in Sources |-> None]]

\* The first delivery of each source counts; slot 0 means the source does not know the slot.
Stamped(row, sid, ns, slot, conn) ==
    [slot |-> IF row.slot = 0 THEN slot ELSE row.slot,
     ts |-> [row.ts EXCEPT ![sid] =
                IF row.ts[sid] = None THEN [ns |-> ns, dups |-> 0, conn |-> conn]
                ELSE [row.ts[sid] EXCEPT !.dups = @ + 1]]]

RecordFirst(reg, sid, sig, ns, slot, conn) ==
    LET row == RowOf(reg, sig, slot)
        new == IF sig \in DOMAIN reg.events THEN 0 ELSE 1
        first == IF row.ts[sid] = None THEN 1 ELSE 0
    IN  [reg EXCEPT
            !.high_slot = Larger(@, slot),
            !.index = IF Indexed(sid, sig) THEN IndexRecord(@, sid, slot, sig) ELSE @,
            !.events = [g \in DOMAIN @ \cup {sig} |->
                           IF g = sig THEN Stamped(row, sid, ns, slot, conn) ELSE @[g]],
            !.distinct_total = @ + new,
            !.seen[sid] = @ + first]

-----------------------------------------------------------------------------
(* finalize. *)

Floor(reg) == Monus(reg.high_slot, EVICT_MARGIN_SLOTS)

\* Mutant of Retires: rows at the floor are retired.
RetiresAtFloor(row, floor) == row.slot # 0 /\ row.slot <= floor

Retires(row, floor) == row.slot # 0 /\ row.slot < floor

Present(row) == {s \in Sources : row.ts[s] # None}

Contested(row) == Cardinality(Present(row)) >= 2

\* The sources that were first, by the stamp of their arrival.
Fastest(row) == {s \in Present(row) : \A q \in Present(row) : row.ts[s].ns <= row.ts[q].ns}

\* emit_rows.
RowsOf(reg, sig) ==
    LET row == reg.events[sig] IN
    {[sig |-> sig, slot |-> row.slot, sid |-> s, ns |-> row.ts[s].ns, dups |-> row.ts[s].dups] :
        s \in Present(row)}

\* fold, for the rows of a set of signatures: the counters of the race and, of a rotating
\* source, those of the window the delivery came through.
Fold(reg, retired) ==
    LET raced == {g \in retired : Contested(reg.events[g])}
        in(s) == Cardinality({g \in raced : s \in Present(reg.events[g])})
        won(s) == Cardinality({g \in raced : s \in Fastest(reg.events[g])})
        via(k) == {g \in raced : /\ k[1] \in Present(reg.events[g])
                                 /\ reg.events[g].ts[k[1]].conn = k[2]}
        keys == UNION {{<<s, reg.events[g].ts[s].conn>> : s \in Present(reg.events[g]) \cap Rotating} :
                          g \in raced}
        old(k) == IF k \in DOMAIN reg.window_latency THEN reg.window_latency[k]
                  ELSE [contested |-> 0, wins |-> 0]
    IN  [reg EXCEPT
            !.contested_total = @ + Cardinality(raced),
            !.contested = [s \in Sources |-> @[s] + in(s)],
            !.wins = [s \in Sources |-> @[s] + won(s)],
            !.window_latency = [k \in DOMAIN @ \cup keys |->
                [contested |-> old(k).contested + Cardinality(via(k)),
                 wins |-> old(k).wins +
                     Cardinality({g \in via(k) : k[1] \in Fastest(reg.events[g])})]]]

Retired(reg, force) == {g \in DOMAIN reg.events : force \/ Retires(reg.events[g], Floor(reg))}

Finalize(reg, force) ==
    LET retired == Retired(reg, force) IN
    [Fold(reg, retired) EXCEPT
        !.finalized_floor = IF force THEN SLOT_MAX ELSE Floor(reg),
        !.events = [g \in DOMAIN @ \ retired |-> @[g]],
        !.rows = @ \cup UNION {RowsOf(reg, g) : g \in retired}]

\* drain_rows, take_window_latency and take_onchain_slot: what is left in the registry.
WithoutRows(reg) == [reg EXCEPT !.rows = {}]

WithoutLatency(reg, keys) ==
    [reg EXCEPT !.window_latency = [k \in DOMAIN @ \ keys |-> @[k]]]

WithoutSlot(reg, slot) == [reg EXCEPT !.index = IndexWithout(@, slot)]
=============================================================================
