# shred-tools in TLA+

A formal model of the parts of this repository that have state, order or failure to get wrong:
TLA+ modules translated from the Rust source, TLC configurations that check them on small
instances, and proofs checked by TLAPS.

    tlc -config deshred_ring.cfg MCDeshredder        check a run
    tlapm DeshredderProofs.tla                       check the proofs of a module
    tlapm AuditLoopProofs.tla
    tlapm FilterAuditProofs.tla
    tlapm TxnCompareProofs.tla
    tlapm InputProofs.tla
    tlapm PartProofs.tla
    tlapm MCPartsProofs.tla
    tlapm IntegerSets.tla

`PROJECT.json` maps every definition to the lines it is translated from, lists the runs with
their properties, and names for every property a mutated definition that breaks it.

## The system

| component | source | state it keeps | operations |
|---|---|---|---|
| deshredder | `deshred/src/deshredder.rs` | a ring of slot states: data shreds, coding sets, boundaries, counters | `insert_bytes`/`insert_shred` |
| shred verifier | `deshred/src/verify.rs` | leader schedules of three epochs, verified merkle roots of 64 slots | `insert_epoch`, `leader`, `refresh`, `verify` |
| FEC-set aggregator | `shreds-audit/src/agg.rs` | pending sets per provider, truth map, window | `ingest`, `harvest`, `finalize` |
| live race | `shreds-audit/src/live.rs` | totals per provider | `ingest` of a harvest's rows |
| main loop | `shreds-audit/src/main.rs` | window statistics, rotation, deadlines | receive, verify, ingest, harvest, rotate, refresh, shut down |
| packet receiver | `shreds-audit/src/rx.rs`, `registry.rs` | a socket and its drop counter per port, a bounded channel | receive a batch, attribute, send |
| leader schedule | `shreds-audit/src/leader.rs`, `verify.rs` | one epoch | classify, refresh |
| filter audit | `shreds-audit/src/filters/` | windows, check tasks, accounting | open, subscribed, on_delivery, close, tick, compare |
| filter database | `shreds-audit/src/filters/db.rs`, `filters/mod.rs` | queue, batch, connection | send, gather, connect, write, finish |
| signature registry | `shreds-audit/src/sigreg.rs` | first arrival of each signature per source | `record_first`, `finalize`, `fold`, `emit_rows` |
| on-chain audit | `shreds-audit/src/verification/onchain_signatures.rs` | signatures of recent slots | `record`, `sample`, `compare_slot` |
| transaction comparison | `shreds-audit/src/txncmp.rs` | source threads, deshred queue | supervise, drain, stop |
| PostgreSQL sink | `shreds-audit/src/out/pg.rs` | previous counters, bounded queue | flush, write, close |
| archive sink | `shreds-audit/src/out/archive.rs` | a work directory, zips, `live.zip` | write, rotate, snapshot, close |
| filters and rotation | `shreds-audit/src/filters/spec.rs`, `bundles.rs`, `mod.rs` | a bag of bundles per source | match, subscribe with the next bundle |
| admin mock | `postpack-tools/src/bin/preconf-admin-mock.rs` | clients, settings, payments, credit history, SOL price | HTTP handlers, a price task, a payment task |
| provider mocks | `postpack-tools/src/lib.rs`, `bin/mock-*.rs` | a broadcast feed, sessions, a bounded channel per stream | authenticate, subscribe, stream |
| examples, protocol code | `shreds-example/`, `deshred-example/`, `proto/` | none | |

How they interact. Receiver threads send stamped datagrams over a bounded channel to the main
loop. The main loop verifies a batch against the leader schedule, feeds the aggregator, and harvests;
a harvest's rows go to the archive sink, the window statistics and the live race. Verified shreds
also go, over a queue that drops when it is full, to a deshredder per provider, whose
transactions are recorded in the signature registry together with those of gRPC streams. The
registry's newest slot (`tip`) drives the filter audit: windows of filtered subscriptions are
compared, slot by slot, with the RPC's blocks by a checker thread, which hands its findings over a
bounded queue to the database writer. The on-chain audit samples slots the same way.

What is hard in it, by component (the full list, each at its line, is under `hazards`):

* Deshredder. Data sets become complete by a late shred, by a recovery, or by the boundary
  before them; slots share ring entries; leaders may sign two versions of a slot. Right when the
  entries handed out do not depend on the order of arrival, are handed out once, and nothing
  complete is kept waiting.
* Aggregator, race and loop. A set closes by a cutoff that bad packets also move, the leader
  schedule changes under it, and a rotation drains it. Right when a set makes one row, a bad shred
  is blamed on what other providers prove, a set's decode time is that of its k-th arrival, and
  races are graded whole and once.
* Filter database. Outages at any point, ambiguous commits, a full queue and a shutdown in the
  middle. Right when each accepted row is stored once, in order, and the shutdown ends.
* Filter audit. The tip moves between the start of a subscription and its confirmation, tasks
  wait, retry, and outlive their window. Right when each slot of a window is accounted for once
  and only slots the subscription saw whole are compared.
* Registry, on-chain audit, comparison. Signatures retire while stragglers arrive, arrivals are stamped
  before the lock is taken, a slot is claimed before an RPC call, and five kinds of threads are shut down
  in order. Right when a signature is raced once, a source is charged with what it did, and the last
  archive lacks nothing.
* Verifier. A root is cached under a write lock taken after a read lock was released, while the
  schedule may be refreshed and old slots evicted. Right when a verdict is what the leader's key says.
* Receivers. The kernel drops datagrams and says so in a counter that wraps; batches meet a full
  channel. Right when every datagram is somewhere or counted once, and belongs to the narrowest rule.
* Sinks. An interval can be refused or fail after its baseline moved; a rotation can be cut off between any
  two file operations. Right when a delta is in one interval, and a row in one zip or still in a file.
* Server judgement. Tags, vote flags and blocks without votes decide whom a difference is blamed on. Right
  when a faithful server is never blamed and an unfaithful one never cleared.
* Admin mock and provider mocks. Payments wait for a fresh price, requests change fields of one another's
  objects, subscribers lag. Right when the balance is what the history says, every payment is credited
  once, the last request holds, and no gap in a stream goes unnoticed.

## Modules

| module | models | correspondence |
|---|---|---|
| `Deshredder` | `deshredder.rs` | `InsertDataShred`, `InsertCodingShred`, `Discard` are the three ways one call of `insert_shred` goes; `slots` is the ring, `Fill`, `AddCoding`, `Recover`, `CompletedSets`, `TakeDataSets` the methods of `SlotState` |
| `DataSetReassembly` | what a deshredder promises | the data sets of a slot as a function of the *set* of shreds that arrived |
| `MCDeshredder` | block geometries for TLC | |
| `DeshredderProofs` | theorems about `Deshredder`; it implements `DataSetReassembly` | |
| `AuditLoopProofs`, `FilterAuditProofs`, `TxnCompareProofs` | theorems about the module named | |
| `InputProofs` | theorems about `ShredVerifier` and `PacketReceiver` | |
| `PartProofs` | theorems about `ZipSink`, `PgSink`, `PreconfCredits`, `FilterRotation`, `PostpackSettings`, `FilterTags`, `FilterDb`, `PostpackStreams` | |
| `MCPartsProofs` | a behaviour of `MCParts` is one of each part | |
| `IntegerSets` | lemmas they share: extremes, images and ranks of finite sets, quotients, sums over sets and sequences | |
| `Aggregator` | `agg.rs` | `Ingest(p, d, verdict)`, `Harvest(drain)`, `SetRow` for `finalize` |
| `LiveStats` | `live.rs` | `LiveIngest(live, rows)`: one call on one harvest's rows |
| `AuditLoop` | `main.rs`, `verify.rs`, `leader.rs` | composes the two: `Receive`, `HarvestWindow`, `RefreshSchedule`, `Rotate`, `Shutdown`, `Close` |
| `MCAuditLoop` | two providers, two FEC sets, six payloads | |
| `FilterDb` | `filters/db.rs`, `finish` of `filters/mod.rs` | one action per step of `writer_loop`, of the checker's sends and of `finish`; the database is the environment |
| `FilterAudit` | `filters/audit.rs`, `filters/check.rs`, the source tasks of `txncmp.rs` and `grpc.rs` | a source: `Open`, `Subscribed`, `RecordFirst` then `OnDelivery`, `Close`; a tick of the checker: `TakeReady`, one of `Postpone`, `Compare`, `Skip`, `FetchFails` per slot of `by_slot`, `TakeFinished`; `Stop` |
| `SigRegistry` | `sigreg.rs` | operators on one record, the registry: `RecordFirst`, `Finalize`, `Fold`, `WithoutRows`, `WithoutLatency` |
| `OnchainAudit` | `verification/onchain_signatures.rs` | the slot index (`IndexRecord`, `IndexWithout`) and `CompareSlot`, as operators |
| `TxnCompare` | `txncmp.rs`, `deshred.rs`, `grpc.rs`, the latency of `filters/` | composes the two: `Feed` and `DeshredStep`; a source task `Open`, `Arrive`, `Deliver`, `Return`, `End`; the worker `Claim`, `Sampled`, `WorkerEnds`; the checker `EmitWindow`; the main thread `Snapshot`, then `Cancel`, `JoinDeshred`, `JoinAsync`, `FinishFilterAudit`, `FinalSnapshot`, `Finish` |
| `MCTxnCompare` | a shred provider and two gRPC sources | |
| `ShredVerifier` | `deshred/src/verify.rs` | a thread in `verify`: `LookUp`, `CheckSignature`, `CacheVerdict`, one per lock; the refreshing thread: `AskEpoch`, `SeeToEpoch`, `RefreshFails` |
| `PacketReceiver` | `rx.rs`, `registry.rs`, the receive loop of `main.rs`, ports in `config.rs` | a thread: `Look` at the flag, `ReceiveBatch`, `Interrupted`; main: `TakeBatch`, `Stop`, `JoinReceivers`, `Drained` |
| `PgSink` | `out/pg.rs` | main: `Count`, `WriteSets`, `Flush`, `SetShutdown`, `DropSender`, `JoinWriter`; the writer: `Receive`, `Connect`, `GiveUp`, `WriteBatch`, `EndWriter` |
| `ZipSink` | `out/archive.rs` | one action per file operation that a crash can follow; `work`, `zips` and `live` are the disk |
| `FilterBundles` | `filters/spec.rs`, `filters/bundles.rs` | filters, bundles and their validation as operators |
| `FilterRotation` | `filters/mod.rs`, `config.rs` | `Rotation::next`: refill and take |
| `FilterTags` | `on_delivery` of `filters/audit.rs`, `compare` of `filters/check.rs` | updates of any tags against a block of any transactions |
| `PreconfCredits` | credits, payments, usage and history of the admin mock | one action per handler and per step of the two tasks |
| `PostpackSettings` | tiers, overrides and settings of the admin mock | one action per handler |
| `PostpackStreams` | `lib.rs` and the three provider mocks of postpack-tools | the feed's `Tick`, authentication, subscriptions, the stream's task, its peer |
| `MCPacketReceiver` | two ports, four configurations | |
| `MCParts` | the sum of ten parts, see below | |

In `FilterAudit` a step is one critical section of the windows' lock. `take_ready`, `subscribed` and
`close` read the registry's newest slot before they take it, so they use any tip of the current slot
(`TipRead`), and `record_first` and `on_delivery` are two steps between which every thread may run, but
no slot begins. The chain and the servers are the environment: `Tick` begins a slot; a server is
faithful and delivers a transaction of a slot within `ServerDelay` slots. A comparison may report a miss
(`MayMiss`) when the slot was not seen whole, since what it holds beyond the delivered is open, or when
it was seen whole, delivered, and the task lacks the delivery. What a step takes from a wall clock
is left open: which retries are due, whether a backoff is over, how far the registry has finalized, and
whether `GIVE_UP_SECS` have passed.

Abstractions. A shred of the deshredder is its index and the block version it was cut from;
payload bytes, merkle proofs and Reed-Solomon arithmetic are not computed: a recovery succeeds when its
sources are of one version, as `solana_ledger`'s `recover` checks by comparing merkle roots. A
payload of the aggregator is a position and a copy (genuine, a broken proof over the genuine data,
other data). A slot of a filtered subscription holds at most one transaction that
matters, whatever its filters, tags and signature; those are in `FilterTags`, for one slot. A row of the filter
database is its number, an interval of `PgSink` its number, its rows and one counter. A data set of `TxnCompare`
holds one transaction and completes once for each provider; the reassembly itself is `Deshredder`. A datagram of
`PacketReceiver` is its sender, its kind and the drops before it. A signature in a login is the key it was made
with. Prices, tips and times are small numbers. Text, metrics and file formats are left out.

`MCParts`. Ten parts share no state with each other. A behaviour of `MCParts` chooses one at the start
and is one of that part; the others stay as they began, each in one initial state. So the states are the
sum of the parts' and not their product, and a property of a part says in this run what it says in a run of its own.
A part's fairness condition is about its own steps and guarded by the part's name, so it holds emptily
of the other behaviours. The properties that hold by staying as one began are not counted on: every property has a
mutant of its own part that breaks it.

Histories. `received`, `consumed`, `taken` (Deshredder), `batch`, `emitted`, `drained`,
`accepted` (AuditLoop), and `db_sent`, `db_dropped` (FilterDb) record what happened so that properties can
refer to it; no guard and no program variable reads them, except `db_sent`, the bound on rows. In
`FilterAudit`, `missed`, `reports` and the field `cursor` of a window are histories, and `clock`, `from`, `until` and `served`
are the environment's. In `TxnCompare` `hist`, in `ShredVerifier` `verdicts`, in `PacketReceiver` `fate` and `ingested`,
in `PgSink` `pg_hist` and `rows_written`, in `ZipSink` `records`, in `FilterRotation` `subscriptions`, in `FilterTags` `updates`,
in `PreconfCredits` `capped` and the price and age noted in a row of `ledger`, in `PostpackSettings` `requests`, in `PostpackStreams`
`seen_by_peer` and `noticed` are histories; guards read some of them only to bound a run.

## Runs

Bounds are named constants or the size of the sets a configuration gives.

| run | checks | shows |
|---|---|---|
| `deshred_ring` | `TypeOK`, `FinishedIsComplete`, `OrderIndependent`, `EmittedOnce` | An honest leader, two slots on one ring entry, data sets that span FEC sets, one coding shred per FEC set: whatever the order, the duplicates and the recoveries, the deshredder implements `DataSetReassembly`. |
| `deshred_equivocating` | `EmittedAccounting`, `NoCompleteSetHeld`, `NoIdleCoding` | Two versions of a slot, of different lengths and boundaries, recoveries that fail on mixed FEC sets and are given up after three attempts, FEC sets cut by a data set boundary. |
| `audit_loop` | `TypeOK`, `ClosedSetsStayClosed`, `SplitIsExact`, `UsableFromKthArrival`, `RacesGradedWhole`, `SnapshotMatchesArchive` | Two providers, five shreds in any order out of six payloads (two of them bad), an epoch change and a rotation. |
| `live_race` | `WholeRaceInOneBatch`, violated | see Findings |
| `missed_order` | `MissedIsUndelivered`, violated | see Findings |
| `filter_db_shutdown` | `WriterDrains`, violated | see Findings |
| `filter_audit` | `WholeRangeReported`, `MissesOnlyAtFirstDelivery`, `ClosedIsReported` | One window on a chain of seven slots, every second sampled, a tip up to a slot late, a checker that may fall behind and jump, an RPC that fails. |
| `filter_audit_shared` | `TypeOK`, `SlotsAccounted` | Two windows that overlap and share slots, blocks, attempts and calls; tasks that outlive their window. |
| `filter_audit_quiet` | `MissedWereNotDelivered`, violated | see Findings |
| `txn_compare` | `TypeOK`, `RacedOnce`, `OnchainBlameIsDue`, `LatencyComplete`, `FinalArchiveComplete`, `ShutdownCompletes` | A shred provider, a gRPC source that may not know the slot and one that rotates; three deliveries of four signatures in two slots, a queue of one; retirement, a sampled slot, snapshots and the shutdown at any moment. |
| `parts` | the sixteen properties below | Each of ten parts, with its threads and faults. |
| `quiet_port` | `QuietSocketNoticesExit`, violated | see Findings |

The properties of `parts`, by part:

| part | checks | shows |
|---|---|---|
| all | `PartsTypeOK` | types, and the bounds of every queue and of the verifier's caches |
| verifier | `VerdictSound` | Two threads, two slots to an epoch and one epoch kept: whatever epochs come and go between looking a root up and caching its verdict, "valid" means that the leader signed the root. |
| receiver | `PacketsAccounted`, `ShutdownsEnd` | Batches of two, a channel of one, a drop counter that wraps at three: datagrams are counted once and so are drops, except for the whole turns of the counter that no datagram tells of; packets are attributed to the narrowest rule and kept in order. |
| pg | `IntervalsAddUp`, `ShutdownsEnd` | A queue of one, three intervals, calls that fail before or after they took effect: deltas add up, the sink closes. |
| zip | `ArchivesKeepRows` | Rotations, snapshots, failures and crashes between any two file operations, and a next run. |
| rotation | `RotationFair` | Three bundles, durations of the range, modes that a bundle does not fit. |
| tags | `ServerJudgedFairly` | Two updates with any tags, any block, with and without votes: a window is clean exactly if the server was faithful. |
| db | `RowsAccounted`, `DrainsOnceUp` | Five rows, two outages at any step, a queue and a batch of two: no accepted row is lost to an outage or doubled, and a shutdown ends once the database is back. |
| credits | `BalanceIsLedger`, `PaymentsCreditedOnce`, `ViewsAgree`, `TipsAreAccounted` | Payments registered together and twice, balances at their limit, a price that ages, clients that come later. |
| settings | `LatestRequestsHold` | Three requests of any kind, overrides that run out. |
| streams | `StreamsContiguous` | A broadcast channel of two batches, a stream channel of one message, a peer that stops reading or goes. |

Why the bounds are enough. In `deshred_ring` slots 1 and 3 collide in a ring of two, and four data
shreds give a data set over two FEC sets followed by one of a single shred, so a set can be
finished by data, by recovery and by the boundary before it. `deshred_equivocating` uses a FEC set
of three data shreds that a data set ends inside, which is the case where recovery meets emitted
shreds, and reaches the limit on attempts. In `audit_loop` five packets suffice for a full set from one provider, a
rival's shred, and the shred of a later slot that moves the window; the epoch changes between the
two slots. In the part `db` three batches follow each other and the second outage can hit the retry
of the first. In `filter_audit` the start and end margins, the lag and the jump are one or two slots, so
that a window can open before the first tip, stay silent past `START_WITHOUT_DELIVERY_SLOTS`, deliver, be checked,
jumped over, closed and finalized within seven; sampling every second slot exercises the rounding. In
`filter_audit_shared` up to four slots are checked with one call to the RPC per tick and one task per window and tick, so that groups
of two windows form, calls are postponed and attempts are used up. The real constants keep the relations assumed
(`EnvironmentAssumption`): a server is faster than the lag and the end margin (`ServerDelay < LagSlots`,
`ServerDelay < END_MARGIN`) and the tip is less than the start margin behind
(`MaxTipLag < START_MARGIN`). Without the last a subscription that starts with a stale tip is audited from before
its start; the code relies on some source being current.

In `txn_compare` the second slot retires the first (`EVICT_MARGIN_SLOTS = 0`) and makes it due for the on-chain audit
(`LagSlots = 1`), so three deliveries are a race of two sources, or one before and one after the retirement of a signature, and
the queue of one is full with the second shred. In `parts` the verifier's third leader of an epoch forces the
older one out, and its slots 1 and 3 are `SLOTS_CACHED` apart; the receiver's three datagrams fill a batch and leave one, and
the wrap at three is met by one or two drops before each, which also take the counter around a whole turn while it is left out; three intervals fill a writer, a queue and have one refused; two
rows and three seconds give a rotation, a crash and a run that finds the remains; five subscriptions go
through a cycle of three and into the next; four batches overrun a channel of two; four rows of history, two tips of different size and a limit of four
fill a balance; two time units go past the age of a price and past the last hour of a day.

Fairness. In the part `db` and in `FilterDb` the threads of the operating system are scheduled
(`WF` on the writer's steps, the checker's return, the two joins of `finish`) and the
reconnection delay passes (`WF` on `Cooled`). Nothing is assumed of the database: `DrainsOnceUp` takes its return as a
premise, `<>[]db_up`. Sends and the request to stop are not fair: a run may never stop. In `FilterAudit` the
checker's thread is scheduled (`WF` on `Checker`) and `GIVE_UP_SECS` pass: a closed window that `take_finished` may
report as stale again and again is reported (`SF` on `Reports(k)`). Neither sources nor the RPC are fair, and
`ClosedIsReported` has no premise on them.

In `TxnCompare` the deshred thread, the tasks, the worker and the main thread's shutdown are scheduled; a cancelled source
returns, since its `select!` sees the token, and a call of the worker ends, since it has a timeout. Nothing says that a source delivers,
reconnects or that the run is ever stopped. In `MCParts`: the PostgreSQL writer and its `close` (`WF` on each; every database call ends,
with success or not), the payment task (`WF`, an interval timer), the main loop of the receivers, and those of `db`. The steps of the database
writer's shutdown are never enabled together, so one `WF` on their disjunction is one on each. `TipsAreAccounted` has as its premise that from some point on the price is
fresh. In `quiet_port` the rx threads are scheduled, and nothing says that a datagram comes.

## Findings

1. `live_race`. `live.rs:62` says all rows of a FEC set finalize in the same harvest. A rotation
   drains every pending set (`main.rs:325`), whose later shreds then make a second row and a second,
   partial, race. `RacesGradedWhole` states what does hold: without such a drain every race is graded
   whole and once.
2. `missed_order`. `agg.rs:166` learns the number of coding shreds only while the number of data
   shreds is unknown. If the data shred with DATA_COMPLETE precedes the first coding shred, the row
   reports nothing missed, whatever was missing; the README defines `missed` as what was not delivered.
   The decode time is not affected (`UsableFromKthArrival`).
3. `filter_db_shutdown`. With the database unreachable and a full batch pending, the writer never
   receives (`db.rs:157`), so it never learns that its senders are gone, and `finish` waits for it
   until the database returns. The same condition keeps `RETRY_CAP` from ever being reached.
4. `filter_audit_quiet`. A window silent for `START_WITHOUT_DELIVERY_SLOTS` gets its check cursor from the slot it
   opened in. Its first delivery moves `start_slot`, and `on_delivery` (`audit.rs:364`) then drops deliveries of the
   next `START_MARGIN` slots, which the cursor hands out all the same: what was delivered is reported as missed, which
   the README of shreds-audit (line 330) defines as not delivered. `MissesOnlyAtFirstDelivery` states
   what does hold: misses of a faithful server are confined to those slots.
5. `quiet_port`. `rx.rs:225` says a timeout of 100 ms lets a quiet socket notice `exit`. The timeout is that of `recvmmsg`, which the kernel
   looks at only after a datagram was received; the socket has no timeout of its own. A port to which nothing is sent keeps its
   thread, `main` waits in `join`, and a second Ctrl-C ends the process without a flush. `ShutdownsEnd` states what does hold: once the threads have ended the main loop does.

## Proofs

Every theorem holds for all values of the constants that satisfy the assumptions named in the modules, and,
where it says so, one further hypothesis on the constants. No fairness is used.

### The deshredder

`DeshredderProofs`, for every number of slots, ring size, slot length, FEC geometry, set of
versions and limit on attempts:

* `TypeCorrect`: `Spec => []TypeOK`;
* `EmittedIsCounted`: `Spec => []EmittedAccounting`;
* `NothingCompleteWaits`: `Spec => []NoCompleteSetHeld`;
* `NeverTwice`: `Spec => EmittedOnce`;
* `Inductive`: the invariant these four follow from;
* `CodingDropped`: `Spec => []NoIdleCoding`;
* `FinishedSlotsComplete`: `Spec => []FinishedIsComplete`, if `OneEnd`: versions of a slot that name a last index name the
  same one, and their FEC sets cut no shred beyond it. A leader that signs two lengths of a slot breaks
  the property, since the first last index to arrive is the one that counts.

The argument. `NoCompleteSetHeld` is about the search: `take_completed_data_sets` visits only the
boundaries from the start of the filled range to the first beyond it, so one must know that no
data set was complete before the call and that a data set completed by the call ends at a visited
boundary. `EmittedAccounting` alone is not inductive: that a taken data set overlaps nothing
taken before needs that what is emitted is what was consumed (it is then not held), and that a
replaced or finished slot's history says so too. The inductive invariant therefore joins, per ring entry, the
typing of its state, the boundary bits lying under shreds that are not missing, the emitted
shreds and their count, and the slot numbers of the ring residues, with consumption histories
of the slots that have no state any more. The step for each action goes
through one lemma per method (`Fill`, `AddCoding`, `Recover`, `TakeDataSets`), each stating what
that method preserves of a slot state. `CodingDropped` adds that the FEC sets of a version are disjoint: a call can make
only the set of its own shred whole, and drops its coding set in the same call. `FinishedSlotsComplete` adds that nothing
is held or emitted beyond the one last index (`Within`), so that as many emitted shreds as the
slot has are all of them (`CountDecides`).

*Refinement.* `Refines`: `Spec => OrderIndependent`, if `Honest`: the leader signs one version of a slot, every data set
ends with a FEC set, as the network's shredder does it, `OneEnd`, and `MaxAttempts > 0`. Every call is then a step of
`DataSetReassembly` or a stutter, with nothing assumed of the order, loss or repetition of shreds.
The argument. The abstract state is the set of shreds that arrived; what the ring holds is shown to be a function of it. A slot state
*follows* a set of arrived shreds when the shreds it holds or has emitted are those the set makes known, its boundaries are those of
the known shreds, and of each FEC set that is not whole it kept exactly the coding shreds that arrived. Recovery succeeds exactly
when a FEC set has as many shreds as it has data shreds, so what is known after a call is what the abstract function says (`DataInserted`,
`CodeInserted`, `RecoverTracks`), and the data sets taken are those that became wholly known, because the ones emitted before are
apart from them and whole (`SetsApart`, `WholeSets`, `TakeTracks`). `SettleImplements` puts the two together.

### The main loop and its aggregator

`AuditLoopProofs`, for every number of providers and FEC sets, every layout, payload, receive time and window:

* `LoopTypes`: `Spec => []TypeOK`;
* `NoSecondRow`: `Spec => []ClosedSetsStayClosed`;
* `LoopInvariant`: the invariant both follow from;
* `BadShredsCompared`: `Spec => []SplitIsExact`, if `OneBlock`: the signed copies of a position carry the same block data;
* `UsableInTime`: `Spec => []UsableFromKthArrival`, if `OneSigned`: a position has one signed copy;
* `SnapshotIsArchive`: `Spec => []SnapshotMatchesArchive`;
* `EveryRaceGradedWhole`: `Spec => []RacesGradedWhole`.

The two hypotheses say that the leader does not equivocate within a FEC set. Without them the properties are not
what the code promises: the truth is the data of one of the signed copies, and the time counted for a position is that of its first copy, where the property counts copies.

The argument. `ClosedSetsStayClosed` says that a set with a row is not pending; that it stays so is due to the window, of which
the invariant says that it never moves back (`WindowForward`) and that a set with a row is behind it or was drained (`RowsClosed`). An
authentic copy is held by its pending set as long as the window is open (`AcceptedHeld`), which ties the history of
acceptances to the state, so that for `SplitIsExact` the truth of a position is known exactly if a copy in the history could
have told (`TruthExact`), although truths are pruned with the window and cleared by a drain. For `UsableFromKthArrival` the invariant says that the
arrivals noted in a set are those of the copies accepted for it (`ArrivalsExact`), and the order statistics
of two ways to count them agree.

The last two compare a record kept step by step with a function of everything there was. `SnapshotMatchesArchive` needs that
the rows of a harvest are not among those before, which `RowsClosed` says, and `SumUnion` of `IntegerSets`. `LiveStats` grades a race
with the batch that shows it; that this is grading all rows at once needs that the rows of a set are in one batch: they are of sets above the cutoff, and all
rows before are of sets below it unless a rotation drained some. Races of rows that have no set in common are then apart (`GradedJoins`).

### The filter audit

`FilterAuditProofs`, for every number of windows and slots, every sampling, margin and bound of the checker that satisfies
`FilterAuditAssumption` and `EnvironmentAssumption`:

* `FilterTypes`: `Spec => []TypeOK`;
* `EverySlotAccounted`: `Spec => []SlotsAccounted`;
* `MissesOnlyEarly`: `Spec => []MissesOnlyAtFirstDelivery`;
* `WholeRange`: `Spec => []WholeRangeReported`;
* `FilterInvariant`: the invariant these follow from.

The argument. `SlotsAccounted` counts tasks per window; it is inductive only together with "one task is out for a window and a slot"
(`OnePerSlot`), which needs that a cursor only hands out what is above every task (`Counted`), across jumps, and with the shape of the
cursor itself (`CursorOK`): sampled, at or past the start of the window, and passing what `Passed` counts. `MissesOnlyAtFirstDelivery` is about the
race of three threads. The invariant says when a source can have delivered what (`Deliveries`: the assumption on the server), which of these
deliveries a window kept (`Kept`: each sampled slot at or after its start that the cursor has not passed, but for one being delivered right now),
and of each task that its slot was seen whole, is longer past than a delivery takes, and that a delivery it does not know of was one of the first of a
window (`TasksKnow`). A task is made when a delivery of its slot can no longer arrive, and here the three margins are needed.

### The transaction comparison

`TxnCompareProofs`, for every number of sources, signatures and slots, every margin, capacity of the deshred queue and number of
arrivals and connections:

* `CompareTypes`: `Spec => []TypeOK`;
* `NothingLostInShutdown`: `Spec => []FinalArchiveComplete`;
* `RacedOnceEach`: `Spec => []RacedOnce`;
* `WindowRowsComplete`: `Spec => []LatencyComplete`;
* `BlamedForWhatItDid`: `Spec => []OnchainBlameIsDue`;
* `CompareInvariant`, `RaceInvariant`, `LatencyInvariant` and `BlameInvariant`: the invariants these follow from.

The argument. `FinalArchiveComplete` speaks of the end only. On the way there, what each join of the shutdown waited for does not come
back (`StagesOK`: an empty queue, ended tasks, no windows, no rows), every recorded delivery is in its row of the registry, in a
retired row or in the archive (`DeliveriesKept`), and what a provider fed is queued, recorded or counted (`FeedOK`). `RacedOnce` needs that the
row of a signature *mirrors* the history (`Mirrors`): of each source it has the first stamp and connection, or none. A delivery of a retired signature makes a
second row, and the property claims nothing of it, so one has to know that such a delivery is always seen to be late
(`GoneIsLate`): a row retires when its slot is below the floor, the row's slot is the signature's (`RowsPlaced`), and the floor never moves back.
At the shutdown rows retire whatever their slot, and here the joins are needed again: nothing is delivered any more. The counters then follow
by splitting what was won into what is retired already and what a `Finalize` retires now, which are apart (`RetiringRaces`).

`LatencyComplete` needs three things of the way there. A window knows of its deliveries (`WindowsKnow`): if there was one it counts it, and
closes at a tip none of them is ahead of, because `record_first` raises the tip before `on_delivery` looks it up. Rows still open are at the floor or
above (`FloorsOK`), so once the floor passed the slot the window closed in none of its rows is open. Until then the registry counts
exactly the window's retired races (`LatencyExact`), and the row takes that count along. That an early emission is told apart needs that connections are opened one after
another (`ConnsOK`, `WindowsOK`): a window that was emitted does not come back.

`OnchainBlameIsDue` is about deliveries on their way through two records, the index and what the audit thread took of it. A delivery in time is in
the index until its slot is claimed and then with that thread (`IndexKeeps`), and what is there was delivered (`IndexTrue`). A slot is
claimed when the tip is `LagSlots` past it, so from then on nothing for it is in time any more (`ClaimedDue`): a transaction the block has and the thread's record
has not was missed. Charges are of slots that were compared, so a second comparison of a slot would break `ChargesDue`; a redelivery is counted in one place at a
time, and `ChargesDue` is about the sum over the index, the thread and the audit, whose redeliveries a claim moves from the one to the other and a pruning drops.

A first form of `LatencyComplete` excused only windows that raced a late signature. The proof showed, and TLC confirmed with
two connections and four arrivals, that a late signature also reaches windows that never raced it: its second row is raced through a later
connection. The property now excuses the windows of a source that knows a late signature.

### The verifier

`InputProofs`, for every number of threads, every schedule of leaders, every set of shreds and
every size of the two caches that satisfy `ShredVerifierAssumption`:

* `VerdictsSound`: `VerifierSpec => []VerdictSound`;
* `VerifierTypes`: `VerifierSpec => []VerifierTypeOK`, which includes `CachesBounded`;
* `VerifierInvariant`: the invariant both follow from.

The argument. A verdict passes through three places that are not looked at together: the schedule, the thread
that checked the signature and let both locks go, and the cache. `VerdictSound` speaks of the last effect only, so
the invariant says of each place that what it holds is right: every known epoch is its schedule (`EpochsTrue`),
every signature checked was compared with the leader of its slot although the epoch may be gone by now (`CheckedTrue`), every
cached root was judged for a shred that deserved it (`RootsTrue`), and so was every verdict given (`JudgedTrue`). What backs a
verdict is never taken back (`StillDeserved`), so evictions cannot hurt. The bounds need that a finite set of slots
has a largest and a smallest member, which is derived from the well-foundedness of strict inclusion (`IntegerSets`). The
window of cached slots holds after `CacheVerdict` whatever was cached before, because the pruning looks at every slot.

### The receivers

`InputProofs`, for every set of configurations, of ports and of datagrams, every size of a batch and of the channel, every modulus of the
drop counter and every number of arrivals that satisfy `PacketReceiverAssumption`:

* `DatagramsAccounted`: `ReceiverInit /\ [][ReceiverNext]_receiverVars => []PacketsAccounted`;
* `ReceiverTypes`: the same of `ReceiverTypeOK`;
* `ReceiverInvariant`: the invariant both follow from.

The argument. A batch is scanned datagram by datagram, so what a scan counts (`ScanCounts`), tells of the drops (`ScanTells`) and leaves for the channel
(`ScanPackets`) is shown for its first n datagrams from its first n - 1 (`StepByStep` of `IntegerSets`). *Drops.* The counter moves by a difference modulo its turn,
which is the drops since the datagram that told last, whole turns apart (`HearTells`, `WrappedDifference`); it is never negative because the
datagrams queued on a port tell of more and more drops, none of which was told of (`DropsGrow`). *Datagrams.* A step that moves a batch moves the summand of one port or of one
place in the channel (`SumChanged`, `SeqSumJoins`). *Order.* That a batch comes after those received before it from its port needs that what is still queued
arrived later than all of them (`Older`), also after more has arrived. *Attribution.* A provider entered in a map is the last with that key; that none fits
better is read off the maps looked at before (`ResolveIs`), and holds as the configuration stays what it is and sightings are only added.

A first form of `DropsTold` took the sum of the differences for the number of drops told of. The proof failed where the counter goes around a whole turn while it
is left out of the datagrams, at a multiple of its turn; TLC confirmed it with three drops, which are not told of, and then three, once the drops before a datagram could be one as well
as two. The program cannot know of such a turn of 2^32 drops. The property now counts the turns that no datagram told of and says that nothing else is lost.

### The sinks, the rotation, the mocks

`PartProofs`. A part of `MCParts` has no specification of its own, so each theorem says `Init /\ [][Next]_vars => []P` of its module:

* `RowsKeptOnce` and `ZipTypes`: `ArchivesKeepRows` and `ZipTypeOK`, from `ZipInvariant`, for every number of rows, seconds and crashes;
* `NothingCountedTwice` and `PgTypes`: `IntervalsAddUp` and `PgTypeOK`, for every size of the queue and every number of intervals;
* `CreditedOnce`, `BalancesAddUp`, `ViewsAlwaysAgree`, `CreditsTypes`: `PaymentsCreditedOnce`, `BalanceIsLedger`, `ViewsAgree` and `CreditsTypeOK`, for every set of
  clients, payments and tips, every price, every limit and every time;
* `RotationIsFair` and `RotationTypes`: `RotationFair` and `RotationTypeOK`, for every list of bundles that passes the validation;
* `LatestHold` and `SettingsTypes`: `LatestRequestsHold` and `SettingsTypeOK`, for every set of clients, overrides and settings;
* `JudgedFairly` and `TagsTypes`: `ServerJudgedFairly` and `TagsTypeOK`, for every bundle, every block and every sequence of updates with any tags;
* `RowsSurvive` and `DbTypes`: `RowsAccounted` and `DbTypeOK`, for every size of the queue and of a batch, any number of rows and outages at any step;
* `StreamsWithoutGaps` and `StreamsTypes`: `StreamsContiguous` and `StreamsTypeOK`, for every capacity of the two channels, every size of a batch, every
  set of keys and any number of batches.

The arguments. *Archives.* Where a row is depends on how far `finish` got, on what a run left behind, and on the names, which are seconds. The invariant
says that the rows of an archive being finished are in its work directory until that is removed (`FilesKept`), that names only grow (`NamesGrow`), so that a new archive
never takes the place of an old one, and that the rows of a window, of the archive being finished and of the closed ones are apart (`RowsApart`).

*Intervals.* What was written is folded into the next batch, or in a batch that is stored, refused, skipped, failed, queued or in the hand of the writer
(`PgSums`, one sum for each place), so a step that moves a batch moves a summand. Batches are in the order of their numbers within a place and from one place to the next
(`PgOrder`): those stored are before the one in hand, and that one before those queued.

*Credits.* A row of the history that pays for a signature is tied to a registered payment, two of them are not for the same, and a credited payment that is worth something has
its row (`PaymentsApart`, `RowsOfPayments`, `PaymentsHaveRows`). The task writes a row per payment and one balance per client; that the one is the sum of the
others is where the sums of sequences are needed (`SeqSumJoins`). A reader of pages continues behind the last row it saw, counted from the newest; rows added
meanwhile shift that count, and the invariant says that what it read has no hole (`ViewsInv`). The hourly and the daily sums are two
ways to part the same rows (`SumOfParts`).

*Rotation.* What has run once more than the others is what the bag no longer holds (`EvenRuns`); the property itself is not
inductive, since it does not say of which bundles the bag consists. That no two bundles of a source share a name is derived from the validation and from
what `ForMode` keeps.

*Settings.* The last request about a field is the only thing that says what it holds, so the proof is about histories: appending a
request that does not concern a field changes no `LastRequest` of it.

*Judgement.* The counters are all zero exactly if every update had the right tags and none repeated a sampled one; the totals are all zero exactly if, given right tags, what was sampled is what
the block makes due. The invariant (`TagsInv`) ties the counters and the sampled masks to the history of updates. Both directions need that matching a
filter locally is what the server's filter promises although a deshred source does not know of failure (`MatchesIs`), which rests on its bundles having no such clause, and that a
mask of right tags is never empty: otherwise an update would be right that no total sees.

*Rows.* The invariant (`DbInv`) says of the queue, the batch and the table that each ascends and the rows of one come after those of the next, except that a batch whose
commit was ambiguous may already be in the table (`DbOrder`), that together they hold exactly what the queue took (`DbHeld`), that the writer leaves only when nobody
sends any more and the queue is empty (`DbShutdown`), and that without an outage no connection dies and the writer leaves nothing behind (`DbUndisturbed`). `RETRY_CAP` never bites
(`CapNotReached`): a full batch takes no row. An insert is stated by the ranks of its rows, and `InsertIs` says what it leaves: a
table that ascends, with the rows of both.

*Streams.* The invariant (`StreamsInv`) says that nothing is sent before a subscription (`Unopened`), and that a challenge stands for one key and is answered
once (`Grants`). For BAM and Gravity (`Flows`), the number of batch messages sent, divided by the messages of a batch, tells which batch and position comes
next, whether the task is between two batches (`Whole`) or in the middle of one (`UnderWay`), and a lag message is the last (`LagIsLast`). For Rakurai (`Pairs`), which goes on
after a lag, the two streams have carried the same batches except for the one under way (`BeforeFirst`, `BeforeSecond`), and what both carried together with what was skipped
is all there was since the subscription (`Knows`). The property speaks of the batch messages among others by their places; appending a message leaves the places of
those before, which is why nothing has to be known of a filtered sequence.

*Types.* A balance stays between 0 and `I64_MAX` because an admin's change that would leave the range is refused and a tip saturates; that a tip never takes from a
balance needs that what the due payments are worth adds up to no less than nothing (`EarnedNat`). A mask has only filters of the bundle since unknown tags are cut
(`MaskWithin`). An override has a tier and an end or neither, whichever handler ran last (`SetClientTyped`).

*Composition.* `MCPartsProofs`: `PartsTypes`, `Spec => []PartsTypeOK`, and `PartsSafe`, `Spec => []` of the twelve other invariants of the run `parts`. Every
step of `MCParts` is a step of each part or leaves its variables alone (`ShredPartsStep`, `FilterPartsStep`, `PostpackPartsStep`), whatever part was
chosen, so the theorems about the parts carry over.

*Sums.* `IntegerSets` derives the theory of sums over finite sets from `MapThenFoldSet`'s definition without induction over data: a set for which a law of sums fails would have a subset for
which it fails and for none of the subset's own subsets, and one step of the definition refutes that one. The sums over sequences and the ranks are
derived from it in the same way.

### Assumptions made for the proofs

`None` is no number, in `Aggregator` and `FilterAudit`, and no number and no stamp in `SigRegistry`: it stands for Rust's `Option::None`, which no value of the option's type
equals. There are finitely many signatures in `SigRegistry`: they are 64 bytes. `MaxSlot > 0` in `FilterAudit`: the chain has a slot.
`Absent` is no price with its time in `PreconfCredits`, and `Unset` no tier, override or request in `PostpackSettings`: both are `Option::None` again; a price can
be had (`Cents # {}`), and no end of an override looks like `Unset`. `I64_MAX > 0`: the starting balance fits. The bundles of a rotation are a sequence: a `Vec`. `Unstated` is no boolean and `Fits` none of the five reasons: `Option::None` of a clause and of a
mismatch. `MaxOutages > 0` in `FilterDb`: a database that is away at the start is its first outage. There are finitely many transactions, each of which failed or not, and a bundle has a filter (`bundles::validate` refuses one without).
In `PacketReceiver`, `Nobody` is no number, `Option::None` once more; there are finitely many ports, and the providers of a configuration are a sequence, a `Vec`, whose ports are those of the model or `NoPort`.

### Only model-checked

Liveness under fairness (`ClosedIsReported`, `ShutdownCompletes`, `ShutdownsEnd`, `DrainsOnceUp`, `TipsAreAccounted`) is out of the prover's reach, and so is
`ENABLED`. What a recursive definition computes for every input needs induction over data, which the provers cannot do; sums, extremes, ranks and scans are reached
by way of a smallest counterexample, but not what `SelectSeq` keeps or `FoldLeft` returns, so the properties proved are stated without them.
Every safety invariant and action property that a passing run checks is stated by a theorem.

## Not modelled

* Formats and wires: parquet columns, the manifest, SQL, HTTP, protobuf, the terminal, RPC and gRPC clients: input, output and
  formatting. Generated protocol code and examples: no state.
* `Config::validate` beyond ports, providers and rotations; display names and pings (`pinger.rs`, and the warning on
  mixed senders derived from them).
* The registry's histograms, reservoirs and transaction versions, the retention of an exact number of slots by real margins, `recovery_time` and
  other measured durations.
* The texts and caps of violation rows; the server delay.
* `PgSink::close` has no last flush in the code either; the rows it leaves behind are in `fold`, and `IntervalsAddUp` counts them there.
* The second Ctrl-C, which ends the process at once. `insert_epoch` called by an application with a schedule of its own choice.
* Batch verification of signatures (`verify_triples`), which decides what single verification decides.
* The price quotes and the connected-stake view of the admin mock; the mempool stream of Gravity, which differs from the bundle stream
  in its payload; `fake-postpack-tx.rs`, a one-shot sender.

## Plan

Done: the deshredder with its abstract specification and refinement; aggregator, race and main loop; filter audit with its database
writer, bundles, rotation and judgement; registry, on-chain audit and transaction comparison; verifier, receivers, sinks; the post-pack
mocks. Proved: deshredder, main loop with aggregator and race, filter audit
with its database writer, rotation and judgement, transaction comparison, verifier, receivers, both sinks, admin mock, provider mocks: every safety invariant the runs check.

Left to model: what is named under Not modelled and keeps state, the registry's histograms and the server delay first.
