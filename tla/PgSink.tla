------------------------------- MODULE PgSink -------------------------------
(***************************************************************************)
(* The PostgreSQL sink of shreds-audit (out/pg.rs): the main loop folds    *)
(* the rows of finished FEC sets and, every interval, hands a batch to the *)
(* writer thread through a bounded queue; the writer stores it in one      *)
(* transaction, and never tries a batch again.                             *)
(*                                                                         *)
(* A batch is its number, the rows folded into it and what one counter     *)
(* grew by.  The database may fail any call, and a commit that fails may   *)
(* still have been stored; no call lasts forever.                          *)
(***************************************************************************)
EXTENDS Integers, Sequences, SequencesExt

CONSTANTS
    QUEUE_DEPTH,
    MaxCount,           \* bound: the counter
    MaxRows,            \* bound: rows
    MaxFlushes          \* bound: intervals

ASSUME PgSinkAssumption ==
    QUEUE_DEPTH \in Nat \ {0} /\ MaxCount \in Nat /\ MaxRows \in Nat /\ MaxFlushes \in Nat

VARIABLES
    counted,        \* the manifest's counters
    rows_written,   \* rows given to write_sets
    sink,           \* the main loop's side: fold, prev, dropped, and flushed, a history
    queue,
    shutdown,
    pg_writer,      \* the writer: what it holds, and whether it has a client
    pg_main,
    stored,         \* the database: batches in the order they were stored
    pg_hist         \* histories: batches not stored, by what became of them

pgVars == <<counted, rows_written, sink, queue, shutdown, pg_writer, pg_main, stored, pg_hist>>

-----------------------------------------------------------------------------
(* The main loop. *)

\* Receiving, parsing and the rest move the counters.
Count ==
    /\ pg_main = "running" /\ counted < MaxCount /\ counted' = counted + 1
    /\ UNCHANGED <<rows_written, sink, queue, shutdown, pg_writer, pg_main, stored, pg_hist>>

\* write_sets.
WriteSets ==
    /\ pg_main = "running" /\ rows_written < MaxRows
    /\ rows_written' = rows_written + 1
    /\ sink' = [sink EXCEPT !.fold = @ + 1]
    /\ UNCHANGED <<counted, queue, shutdown, pg_writer, pg_main, stored, pg_hist>>

NextBatch == [id |-> sink.flushed + 1, rows |-> sink.fold, delta |-> counted - sink.prev]

QueueFull == Len(queue) >= QUEUE_DEPTH

\* Mutant of Flushed: the counters of a refused batch are kept for the next one.
FlushedKeeping ==
    [sink EXCEPT !.flushed = @ + 1, !.fold = 0,
                 !.prev = IF QueueFull THEN @ ELSE counted,
                 !.dropped = @ + IF QueueFull THEN 1 ELSE 0]

\* The interval starts anew before the queue is tried.
Flushed ==
    [sink EXCEPT !.flushed = @ + 1, !.fold = 0, !.prev = counted,
                 !.dropped = @ + IF QueueFull THEN 1 ELSE 0]

\* flush.
Flush ==
    /\ pg_main = "running" /\ sink.flushed < MaxFlushes
    /\ sink' = Flushed
    /\ IF QueueFull
       THEN pg_hist' = [pg_hist EXCEPT !.refused = Append(@, NextBatch)] /\ UNCHANGED queue
       ELSE queue' = Append(queue, NextBatch) /\ UNCHANGED pg_hist
    /\ UNCHANGED <<counted, rows_written, shutdown, pg_writer, pg_main, stored>>

\* close: the flag, the sender, the join.  What was folded since the last flush stays behind.
SetShutdown ==
    /\ pg_main = "running" /\ pg_main' = "closing" /\ shutdown' = TRUE
    /\ UNCHANGED <<counted, rows_written, sink, queue, pg_writer, stored, pg_hist>>

\* Mutant of DropSender: the writer is joined first.
DropSenderLast ==
    /\ pg_main = "closing" /\ pg_writer.pc = "ended" /\ pg_main' = "joining"
    /\ UNCHANGED <<counted, rows_written, sink, queue, shutdown, pg_writer, stored, pg_hist>>

DropSender ==
    /\ pg_main = "closing" /\ pg_main' = "joining"
    /\ UNCHANGED <<counted, rows_written, sink, queue, shutdown, pg_writer, stored, pg_hist>>

JoinWriter ==
    /\ pg_main = "joining" /\ pg_writer.pc = "ended" /\ pg_main' = "closed"
    /\ UNCHANGED <<counted, rows_written, sink, queue, shutdown, pg_writer, stored, pg_hist>>

-----------------------------------------------------------------------------
(* writer_loop. *)

Disconnected == pg_main \notin {"running", "closing"}

Receive ==
    /\ pg_writer.pc = "waiting" /\ queue # <<>>
    /\ pg_writer' = [pg_writer EXCEPT !.pc = IF pg_writer.client THEN "writing" ELSE "received",
                                      !.batch = Head(queue)]
    /\ queue' = Tail(queue)
    /\ UNCHANGED <<counted, rows_written, sink, shutdown, pg_main, stored, pg_hist>>

EndWriter ==
    /\ pg_writer.pc = "waiting" /\ queue = <<>> /\ Disconnected
    /\ pg_writer' = [pg_writer EXCEPT !.pc = "ended"]
    /\ UNCHANGED <<counted, rows_written, sink, queue, shutdown, pg_main, stored, pg_hist>>

\* The batch is given up before it is written: no new connection is made once shut down, or
\* connect or write_run fails.
GiveUp ==
    /\ pg_writer.pc = "received"
    /\ pg_writer' = [pg_writer EXCEPT !.pc = "waiting"]
    /\ pg_hist' = IF shutdown THEN [pg_hist EXCEPT !.skipped = Append(@, pg_writer.batch)]
                  ELSE [pg_hist EXCEPT !.failed = Append(@, pg_writer.batch)]
    /\ UNCHANGED <<counted, rows_written, sink, queue, shutdown, pg_main, stored>>

Connect ==
    /\ pg_writer.pc = "received" /\ ~shutdown
    /\ pg_writer' = [pg_writer EXCEPT !.pc = "writing", !.client = TRUE]
    /\ UNCHANGED <<counted, rows_written, sink, queue, shutdown, pg_main, stored, pg_hist>>

\* write_batch.  The connection goes with a failure.
WriteBatch ==
    /\ pg_writer.pc = "writing"
    /\ \/ /\ pg_writer' = [pg_writer EXCEPT !.pc = "waiting"]
          /\ stored' = Append(stored, pg_writer.batch) /\ UNCHANGED pg_hist
       \/ /\ pg_writer' = [pg_writer EXCEPT !.pc = "waiting", !.client = FALSE]
          /\ \/ stored' = Append(stored, pg_writer.batch) /\ UNCHANGED pg_hist
             \/ pg_hist' = [pg_hist EXCEPT !.failed = Append(@, pg_writer.batch)] /\ UNCHANGED stored
    /\ UNCHANGED <<counted, rows_written, sink, queue, shutdown, pg_main>>

-----------------------------------------------------------------------------

PgInit ==
    /\ counted = 0 /\ rows_written = 0
    /\ sink = [fold |-> 0, prev |-> 0, dropped |-> 0, flushed |-> 0]
    /\ queue = <<>> /\ shutdown = FALSE
    /\ pg_writer = [pc |-> "waiting", client |-> FALSE, batch |-> <<>>]
    /\ pg_main = "running"
    /\ stored = <<>>
    /\ pg_hist = [refused |-> <<>>, skipped |-> <<>>, failed |-> <<>>]

PgClosed == pg_main = "closed" /\ UNCHANGED pgVars

PgWriter == Receive \/ EndWriter \/ GiveUp \/ Connect \/ WriteBatch

PgClose == DropSender \/ JoinWriter

PgNext ==
    \/ Count \/ WriteSets \/ Flush
    \/ SetShutdown \/ DropSender \/ JoinWriter \/ PgClosed
    \/ Receive \/ EndWriter \/ GiveUp \/ Connect \/ WriteBatch

-----------------------------------------------------------------------------
(* Correctness. *)

\* Every interval flushed, wherever its batch is by now.
Intervals == stored \o pg_hist.refused \o pg_hist.skipped \o pg_hist.failed \o queue
            \o IF pg_writer.pc \in {"received", "writing"} THEN <<pg_writer.batch>> ELSE <<>>

SumOf(f(_), s) == FoldLeft(LAMBDA n, b : n + f(b), 0, s)

PgTypeOK ==
    /\ Len(queue) <= QUEUE_DEPTH
    /\ pg_writer.pc \in {"waiting", "received", "writing", "ended"}
    /\ sink.dropped = Len(pg_hist.refused)

\* The intervals add up: every row and every count is in exactly one batch or still to be
\* flushed, also when the queue refused a batch or a write failed; and the database has each
\* batch at most once, in the order of the intervals.
IntervalsAddUp ==
    /\ rows_written = sink.fold + SumOf(LAMBDA b : b.rows, Intervals)
    /\ sink.prev = SumOf(LAMBDA b : b.delta, Intervals)
    /\ \A i, j \in DOMAIN stored : i < j => stored[i].id < stored[j].id

\* The sink closes: the queue is emptied and the writer ends.
PgCloses == pg_main # "running" ~> pg_main = "closed"
=============================================================================
