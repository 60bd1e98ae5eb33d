----------------------------- MODULE AuditLoop -----------------------------
(***************************************************************************)
(* The main loop of shreds-audit (main.rs) around the aggregator: verify   *)
(* and ingest what the receivers sent, harvest, grade the race, refresh    *)
(* the leader schedule, rotate the archive, and drain on shutdown.  The    *)
(* configuration modelled is the one with every consumer on: zip export    *)
(* with rotation, the terminal view and live.zip.                          *)
(*                                                                         *)
(* One loop iteration ingests a batch of packets and harvests; a batch has *)
(* any number of shreds, so a step is one shred and phase says whether the *)
(* batch's harvest is still due.                                           *)
(***************************************************************************)
EXTENDS Aggregator

CONSTANTS
    Signed,         \* copies that carry the leader's signature and an intact proof
    Rootless,       \* copies no merkle root can be computed for
    SlotsPerEpoch,
    LastEpoch,      \* bound: epochs the chain goes through
    MaxShreds,      \* bound: shreds ingested
    MaxRotations    \* bound: archive rotations

ASSUME LoopAssumption ==
    /\ Signed \subseteq Copies /\ Rootless \subseteq Copies \ Signed
    /\ SlotsPerEpoch \in Nat \ {0}
    /\ LastEpoch \in Nat /\ MaxShreds \in Nat /\ MaxRotations \in Nat

VARIABLES
    phase,         \* looping, ingesting (a harvest is due), draining, done
    epoch,         \* the one epoch LeaderSchedule holds
    live,          \* LiveStats
    stats,         \* WindowStats of the archive being written
    window_rows,   \* rows of the current window, for live.zip
    batch,         \* history: rows of the last harvest
    emitted,       \* history: rows of earlier harvests
    drained,       \* history: sets emitted before their slot left the window
    accepted,      \* history: authentic first copies, with their provider, since the last drain
    fed, rotations

loopVars == <<phase, epoch, live, stats, window_rows, batch, emitted, drained, accepted,
              fed, rotations>>
vars == <<aggVars, loopVars>>

Live == INSTANCE LiveStats WITH Racers <- Providers

-----------------------------------------------------------------------------
(* Verification. *)

\* LeaderSchedule::classify: Leader or Unknown.
LeaderKnown(slot) == slot \div SlotsPerEpoch = epoch

\* verify_chunk's verdict, as Aggregator::ingest reads it.
Verdict(d) ==
    IF d.copy \in Rootless THEN "invalid"
    ELSE IF ~LeaderKnown(SlotOf[d.set]) THEN "unverifiable"
    ELSE IF d.copy \in Signed THEN "authentic" ELSE "invalid"

\* Whether payload d is new to provider p's pending set.
IsNew(p, d) == <<p, d.set>> \in DOMAIN sets => d \notin sets[<<p, d.set>>].seen

-----------------------------------------------------------------------------
(* Steps of the loop. *)

Receive(p, d) ==
    /\ phase # "done" /\ fed < MaxShreds
    /\ Ingest(p, d, Verdict(d))
    /\ phase' = IF phase = "draining" THEN phase ELSE "ingesting"
    /\ fed' = fed + 1
    /\ accepted' = IF Verdict(d) = "authentic" /\ ~AfterWindow(SlotOf[d.set]) /\ IsNew(p, d)
                   THEN accepted \cup {<<p, d>>} ELSE accepted
    /\ UNCHANGED <<epoch, live, stats, window_rows, batch, emitted, drained, rotations>>

NewStats == [rows_sets |-> 0, invalid_sig |-> 0, invalid_data |-> 0, invalid_unknown |-> 0]

\* Mutant of Observe: a batch replaces the totals of the window.
ObserveLast(s, rows) ==
    [rows_sets |-> Cardinality(rows),
     invalid_sig |-> Live!MapThenSumSet(LAMBDA r : r.invalid_sig, rows),
     invalid_data |-> Live!MapThenSumSet(LAMBDA r : r.invalid_data, rows),
     invalid_unknown |-> Live!MapThenSumSet(LAMBDA r : r.invalid_unknown, rows)]

\* WindowStats::observe_sets, and the row count the sink returns.
Observe(s, rows) ==
    [rows_sets |-> s.rows_sets + Cardinality(rows),
     invalid_sig |-> s.invalid_sig + Live!MapThenSumSet(LAMBDA r : r.invalid_sig, rows),
     invalid_data |-> s.invalid_data + Live!MapThenSumSet(LAMBDA r : r.invalid_data, rows),
     invalid_unknown |-> s.invalid_unknown + Live!MapThenSumSet(LAMBDA r : r.invalid_unknown, rows)]

Emit(drain) ==
    /\ Harvest(drain)
    /\ batch' = HarvestRows(drain)
    /\ emitted' = emitted \cup batch
    /\ drained' = IF drain THEN drained \cup {k[2] : k \in {q \in Ready(TRUE) : SlotOf[q[2]] > Cutoff}}
                  ELSE drained

HarvestWindow ==
    /\ phase = "ingesting"
    /\ Emit(FALSE)
    /\ phase' = "looping"
    /\ live' = Live!LiveIngest(live, batch')
    /\ stats' = Observe(stats, batch')
    /\ window_rows' = window_rows \cup batch'
    /\ UNCHANGED <<epoch, accepted, fed, rotations>>

NeedsRefresh == DOMAIN sets # {} /\ ~LeaderKnown(max_slot)

\* LeaderSchedule::refresh: the schedule of the chain's epoch replaces the one held.  A call that
\* fails or a schedule with a gap leaves it as it was.
RefreshSchedule ==
    /\ phase = "looping" /\ NeedsRefresh
    /\ epoch < LastEpoch
    /\ epoch' = epoch + 1
    /\ UNCHANGED <<aggVars, phase, live, stats, window_rows, batch, emitted, drained, accepted,
                   fed, rotations>>

Rotate ==
    /\ phase = "looping" /\ rotations < MaxRotations
    /\ Emit(TRUE)
    /\ live' = Live!LiveIngest(live, batch')
    /\ stats' = NewStats
    /\ window_rows' = {}
    /\ accepted' = {}
    /\ rotations' = rotations + 1
    /\ UNCHANGED <<phase, epoch, fed>>

\* Ctrl-C, the deadline or the quit key: the loop ends, and what is queued is still ingested.
Shutdown ==
    /\ phase = "looping"
    /\ phase' = "draining"
    /\ UNCHANGED <<aggVars, epoch, live, stats, window_rows, batch, emitted, drained, accepted,
                   fed, rotations>>

Close ==
    /\ phase = "draining"
    /\ Emit(TRUE)
    /\ phase' = "done"
    /\ stats' = Observe(stats, batch')
    /\ window_rows' = window_rows \cup batch'
    /\ accepted' = {}
    /\ UNCHANGED <<epoch, live, fed, rotations>>

Init ==
    /\ AggInit
    /\ phase = "looping"
    /\ epoch = 0
    /\ live = Live!LiveNew
    /\ stats = NewStats
    /\ window_rows = {} /\ batch = {} /\ emitted = {} /\ drained = {} /\ accepted = {}
    /\ fed = 0 /\ rotations = 0

Next ==
    \/ \E p \in Providers, d \in Payloads : Receive(p, d)
    \/ HarvestWindow
    \/ RefreshSchedule
    \/ Rotate
    \/ Shutdown
    \/ Close

Spec == Init /\ [][Next]_vars

-----------------------------------------------------------------------------
(* Correctness. *)

Time == Nat \cup {None}

SetStates(positions) ==
    [seen : SUBSET Payloads, arrivals : [positions -> Nat],
     num_data : Time, num_coding : Time, created : Nat, first : Time, last : Time,
     invalid : SUBSET Payloads, duplicated : Nat, unverifiable : Nat, last_in_slot : BOOLEAN]

\* The pending sets, the truth and the counters are well typed, and nothing is pending or
\* compared in a slot whose window has closed.
TypeOK ==
    /\ DOMAIN sets \subseteq Key
    /\ \A key \in DOMAIN sets : /\ sets[key] \in SetStates(DOMAIN sets[key].arrivals)
                               /\ DOMAIN sets[key].arrivals \subseteq BOOLEAN \X Nat
                               /\ SlotOf[key[2]] > evicted_upto
    /\ \A t \in DOMAIN truth : t \in FecSets \X BOOLEAN \X Nat /\ SlotOf[t[1]] > evicted_upto
    /\ max_slot \in Nat /\ evicted_upto \in Nat /\ shreds_after_window \in Nat
    /\ latest_slot \in [Providers -> Nat]
    /\ phase \in {"looping", "ingesting", "draining", "done"}
    /\ epoch \in 0..LastEpoch
    /\ drained \subseteq FecSets /\ accepted \subseteq Providers \X Payloads

\* A set that left the window is closed: no straggler, and no rotation in between, makes a
\* second row of it.  Only a set that rotation drained early can come back.
ClosedSetsStayClosed ==
    \A r \in batch, e \in emitted : (r.provider = e.provider /\ r.set = e.set) => e.set \in drained

\* A bad shred is compared with the leader-signed copy of its position exactly when some
\* provider delivered one since the last rotation, before or after it: pruning truth as the
\* window moves never loses a copy that a pending set may still need.
SplitIsExact ==
    \A key \in DOMAIN sets : \A d \in sets[key].invalid :
        LET copies == {DataHash[a[2].copy] : a \in {b \in accepted :
                          b[2].set = d.set /\ b[2].code = d.code /\ b[2].position = d.position}}
        IN  Compared(d) = IF DataHash[d.copy] = None \/ copies = {} THEN "unknown"
                          ELSE IF DataHash[d.copy] \in copies THEN "sig" ELSE "data"

\* A set is usable from the moment its k-th position arrived at the host, whatever the order
\* the packets are ingested in and however late k itself is learnt.
UsableFromKthArrival ==
    \A key \in DOMAIN sets :
        LET copies == {a[2] : a \in {b \in accepted : b[1] = key[1] /\ b[2].set = key[2]}}
            k == NumData[key[2]]
            by(t) == {d \in copies : RxTime[key[1]][d] <= t}
            sized == \E d \in copies : d.code \/ (d.set \in DataComplete /\ d.position = k - 1)
            t == DecodeTime(sets[key])
        IN  IF sized /\ Cardinality(copies) >= k
            THEN t # None /\ Cardinality(by(t)) >= k /\ Cardinality(by(t - 1)) < k
            ELSE t = None

\* Unless rotation drained a set early, grading one harvest at a time gives what grading all
\* rows at once would: every race is complete when it is graded, and graded once.
RacesGradedWhole ==
    LET rows == IF phase = "done" THEN emitted ELSE emitted \cup batch
        valid(p) == {r \in rows : r.provider = p /\ r.is_valid}
        rivals(r) == {x \in rows : x.set = r.set /\ x.provider # r.provider /\ x.is_valid}
        races(p) == {r \in valid(p) : rivals(r) # {}}
        wins(p) == {r \in races(p) : \A x \in rivals(r) : r.decode <= x.decode}
    IN  drained = {} =>
            /\ live.contested_sets = Cardinality({r.set : r \in UNION {races(p) : p \in Providers}})
            /\ live.total_sets = Cardinality({r.set : r \in rows})
            /\ \A p \in Providers : LET l == live.per_provider[p] IN
                /\ l.valid = Cardinality(valid(p)) /\ l.races = Cardinality(races(p))
                /\ l.wins = Cardinality(wins(p))
                /\ l.behind = 0 <=> l.races = l.wins

\* The live snapshot and the archive being written describe the same rows.
SnapshotMatchesArchive == stats = Observe(NewStats, window_rows)

\* live.rs: "All providers' rows for a set finalize in the same harvest, so grouping within
\* one batch always sees the whole race."
WholeRaceInOneBatch == phase # "done" => \A r \in batch, e \in emitted : r.set # e.set

\* README: "`missed`: shreds the set expected but this provider didn't deliver".  A row with
\* an accepted coding shred comes from a set whose size the tool was told.
MissedIsUndelivered ==
    \A r \in batch : r.n_code > 0 =>
        r.missed = NumData[r.set] + NumCoding[r.set] - r.n_data - r.n_code
=============================================================================
