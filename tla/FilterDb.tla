------------------------------ MODULE FilterDb ------------------------------
(***************************************************************************)
(* The database side of the filter audit (filters/db.rs, and the shutdown  *)
(* of filters/mod.rs): the checker thread hands rows to a bounded queue,   *)
(* the filter-db thread gathers them into a batch, connects when it has    *)
(* something to write, and retries a batch until a transaction reports     *)
(* success.  finish cancels the checker, drops the last sender and waits   *)
(* for the writer.                                                         *)
(*                                                                         *)
(* A row is its number in the order of the checker's sends.  PostgreSQL is *)
(* the environment: it goes down and comes back, a connection does not     *)
(* survive an outage, and an outage that hits a commit leaves the writer   *)
(* with an error whether or not the commit took effect.                    *)
(***************************************************************************)
EXTENDS Integers, Sequences, FiniteSets, SequencesExt

CONSTANTS
    DB_QUEUE_DEPTH,
    BATCH_MAX,
    RETRY_CAP,
    MaxSent,        \* bound: rows the checker sends
    MaxOutages      \* bound: times the database goes down

ASSUME FilterDbAssumption ==
    /\ DB_QUEUE_DEPTH \in Nat \ {0} /\ BATCH_MAX \in Nat \ {0}
    /\ RETRY_CAP \in Nat /\ BATCH_MAX <= RETRY_CAP
    /\ MaxSent \in Nat /\ MaxOutages \in Nat \ {0}

VARIABLES
    db_queue,       \* rows in the channel
    db_sent,        \* rows sent so far
    db_dropped,     \* those the full queue refused
    db_checker,     \* running, cancelled, exited
    db_finisher,    \* what finish waits for: idle, checker, writer, returned
    db_writer,      \* gathering, writing, done
    db_pending,
    db_closed,
    db_client,      \* none, live, stale (the connection died in an outage)
    db_cooling,     \* last_attempt is less than RECONNECT_EVERY ago
    db_up, db_outages,
    db_table        \* rows in the database, in the order they were inserted

producerVars == <<db_queue, db_sent, db_dropped, db_checker, db_finisher>>
writerVars == <<db_writer, db_pending, db_closed, db_client, db_cooling>>
dbVars == <<db_up, db_outages, db_table>>
dbPartVars == <<producerVars, writerVars, dbVars>>

-----------------------------------------------------------------------------
(* The checker and finish. *)

\* DbHandle::send: try_send, counting what the full queue refuses.
DbSend ==
    /\ db_checker # "exited" /\ db_sent < MaxSent
    /\ db_sent' = db_sent + 1
    /\ IF Len(db_queue) < DB_QUEUE_DEPTH
       THEN db_queue' = Append(db_queue, db_sent') /\ UNCHANGED db_dropped
       ELSE db_dropped' = db_dropped \cup {db_sent'} /\ UNCHANGED db_queue
    /\ UNCHANGED <<db_checker, db_finisher, writerVars, dbVars>>

\* finish: cancel the checker and join it.
DbCancel ==
    /\ db_finisher = "idle"
    /\ db_checker' = "cancelled"
    /\ db_finisher' = "checker"
    /\ UNCHANGED <<db_queue, db_sent, db_dropped, writerVars, dbVars>>

\* The checker has sent its last rows and returns, dropping its sender.
CheckerExit ==
    /\ db_checker = "cancelled"
    /\ db_checker' = "exited"
    /\ UNCHANGED <<db_queue, db_sent, db_dropped, db_finisher, writerVars, dbVars>>

\* finish drops its own sender, the last one, and joins the writer.
DropHandle ==
    /\ db_finisher = "checker" /\ db_checker = "exited"
    /\ db_finisher' = "writer"
    /\ UNCHANGED <<db_queue, db_sent, db_dropped, db_checker, writerVars, dbVars>>

DbJoin ==
    /\ db_finisher = "writer" /\ db_writer = "done"
    /\ db_finisher' = "returned"
    /\ UNCHANGED <<db_queue, db_sent, db_dropped, db_checker, writerVars, dbVars>>

-----------------------------------------------------------------------------
(* writer_loop. *)

\* The rows kept while the database is away: the newest RETRY_CAP.
Capped(rows) ==
    IF Len(rows) > RETRY_CAP THEN SubSeq(rows, Len(rows) - RETRY_CAP + 1, Len(rows)) ELSE rows

\* Mutant of SendersGone: finish joins the writer while it still holds its own sender.
SendersGoneAfterJoin == db_finisher = "returned"

SendersGone == db_finisher \in {"writer", "returned"}

\* The inner loop goes on receiving.
Gathering == db_writer = "gathering" /\ Len(db_pending) < BATCH_MAX /\ ~db_closed

DbReceive ==
    /\ Gathering /\ db_queue # <<>>
    /\ db_pending' = Append(db_pending, Head(db_queue))
    /\ db_queue' = Tail(db_queue)
    /\ UNCHANGED <<db_sent, db_dropped, db_checker, db_finisher>>
    /\ UNCHANGED <<db_writer, db_closed, db_client, db_cooling, dbVars>>

\* The channel is empty and every sender is gone.
DbDisconnected ==
    /\ Gathering /\ db_queue = <<>> /\ SendersGone
    /\ db_closed' = TRUE
    /\ db_writer' = IF db_pending = <<>> THEN "done" ELSE "writing"
    /\ db_pending' = Capped(db_pending)
    /\ UNCHANGED <<producerVars, db_client, db_cooling, dbVars>>

\* BATCH_WAIT passed without a row.
BatchWait ==
    /\ Gathering /\ db_queue = <<>> /\ ~SendersGone /\ db_pending # <<>>
    /\ db_writer' = "writing"
    /\ db_pending' = Capped(db_pending)
    /\ UNCHANGED <<producerVars, db_closed, db_client, db_cooling, dbVars>>

\* The batch is full: the inner loop does not run.
BatchFull ==
    /\ db_writer = "gathering" /\ Len(db_pending) >= BATCH_MAX
    /\ db_writer' = "writing"
    /\ db_pending' = Capped(db_pending)
    /\ UNCHANGED <<producerVars, db_closed, db_client, db_cooling, dbVars>>

\* After an attempt the loop starts over, unless the channel is closed: nothing is left to
\* write, or the attempt failed and the rows are given up.
AfterAttempt == IF db_closed THEN "done" ELSE "gathering"

\* No connection, and the last attempt is too recent to try again.
DbHold ==
    /\ db_writer = "writing" /\ db_client = "none" /\ db_cooling
    /\ db_writer' = AfterAttempt
    /\ UNCHANGED <<producerVars, db_pending, db_closed, db_client, db_cooling, dbVars>>

DbConnect ==
    /\ db_writer = "writing" /\ db_client = "none" /\ ~db_cooling
    /\ db_cooling' = TRUE
    /\ IF db_up THEN db_client' = "live" /\ UNCHANGED db_writer
       ELSE db_writer' = AfterAttempt /\ UNCHANGED db_client
    /\ UNCHANGED <<producerVars, db_pending, db_closed, dbVars>>

\* INSERT ... ON CONFLICT DO NOTHING of a batch: the rows the table has not, in their order.
Insert(rows) ==
    LET new == {i \in DOMAIN rows : ~Contains(db_table, rows[i])} IN
    db_table \o
        [n \in 1..Cardinality(new) |-> rows[CHOOSE i \in new : Cardinality({j \in new : j <= i}) = n]]

\* write_batch reports success, and the loop condition is evaluated again.
WriteOk ==
    /\ db_writer = "writing" /\ db_client = "live"
    /\ db_table' = Insert(db_pending)
    /\ db_pending' = <<>>
    /\ db_writer' = AfterAttempt
    /\ UNCHANGED <<producerVars, db_closed, db_client, db_cooling, db_up, db_outages>>

\* Mutant of Unwritten: a batch that failed is given up.
UnwrittenCleared(rows) == <<>>

\* What the writer still holds after a failed write.
Unwritten(rows) == rows

\* write_batch fails: on a connection an earlier outage killed, or in an outage that strikes
\* before or after the commit took effect.
WriteErr ==
    /\ db_writer = "writing"
    /\ \/ db_client = "stale" /\ UNCHANGED dbVars
       \/ /\ db_client = "live" /\ db_outages < MaxOutages
          /\ db_up' = FALSE
          /\ db_outages' = db_outages + 1
          /\ db_table' \in {db_table, Insert(db_pending)}
    /\ db_client' = "none"
    /\ db_cooling' = TRUE
    /\ db_pending' = Unwritten(db_pending)
    /\ db_writer' = AfterAttempt
    /\ UNCHANGED <<producerVars, db_closed>>

-----------------------------------------------------------------------------
(* Time and the database. *)

Cooled ==
    /\ db_cooling
    /\ db_cooling' = FALSE
    /\ UNCHANGED <<producerVars, db_writer, db_pending, db_closed, db_client, dbVars>>

GoDown ==
    /\ db_up /\ db_outages < MaxOutages
    /\ db_up' = FALSE
    /\ db_outages' = db_outages + 1
    /\ db_client' = IF db_client = "live" THEN "stale" ELSE db_client
    /\ UNCHANGED <<producerVars, db_writer, db_pending, db_closed, db_cooling, db_table>>

ComeUp ==
    /\ ~db_up
    /\ db_up' = TRUE
    /\ UNCHANGED <<producerVars, writerVars, db_outages, db_table>>

DbInit ==
    /\ db_queue = <<>> /\ db_sent = 0 /\ db_dropped = {}
    /\ db_checker = "running" /\ db_finisher = "idle"
    /\ db_writer = "gathering" /\ db_pending = <<>> /\ db_closed = FALSE
    /\ db_client = "none" /\ db_cooling = FALSE
    /\ db_up \in BOOLEAN /\ db_outages = IF db_up THEN 0 ELSE 1
    /\ db_table = <<>>

DbWriter == DbReceive \/ DbDisconnected \/ BatchWait \/ BatchFull \/ DbHold \/ DbConnect \/ WriteOk \/ WriteErr

DbNext ==
    \/ DbSend \/ DbCancel \/ CheckerExit \/ DropHandle \/ DbJoin
    \/ DbWriter
    \/ Cooled \/ GoDown \/ ComeUp

\* The threads are scheduled and time passes; nothing says the database comes back.
DbFairness ==
    /\ WF_dbPartVars(CheckerExit) /\ WF_dbPartVars(DropHandle) /\ WF_dbPartVars(DbJoin)
    /\ WF_dbPartVars(DbWriter) /\ WF_dbPartVars(Cooled)

DbSpec == DbInit /\ [][DbNext]_dbPartVars /\ DbFairness

-----------------------------------------------------------------------------
(* Correctness. *)

Rows == 1..MaxSent

\* The queue and the batch respect their bounds, and the writer is done only after it saw the
\* channel closed.
DbTypeOK ==
    /\ db_queue \in Seq(Rows) /\ Len(db_queue) <= DB_QUEUE_DEPTH
    /\ db_pending \in Seq(Rows) /\ Len(db_pending) <= BATCH_MAX
    /\ db_sent \in 0..MaxSent /\ db_dropped \subseteq 1..db_sent
    /\ db_checker \in {"running", "cancelled", "exited"}
    /\ db_finisher \in {"idle", "checker", "writer", "returned"}
    /\ db_writer \in {"gathering", "writing", "done"} /\ db_closed \in BOOLEAN
    /\ db_client \in {"none", "live", "stale"} /\ db_cooling \in BOOLEAN
    /\ db_up \in BOOLEAN /\ db_outages \in 0..MaxOutages
    /\ db_table \in Seq(Rows)
    /\ db_writer = "done" => db_closed /\ SendersGone

\* An outage costs no row the queue took: each is in the queue, in the batch or in the table,
\* and the rows counted as dropped are the others.  Rows are given up at shutdown only, and
\* only if the database was ever down.
RowsSurviveOutages ==
    LET held == ToSet(db_queue) \cup ToSet(db_pending) \cup ToSet(db_table)
    IN  /\ held = (1..db_sent) \ db_dropped
        /\ db_writer = "done" => db_queue = <<>> /\ (db_outages = 0 => db_pending = <<>>)

\* A batch retried although its first commit took effect is stored once, and in order: the
\* table is a prefix of what the queue took.
StoredOnceInOrder ==
    /\ \A i, j \in DOMAIN db_table : i < j => db_table[i] < db_table[j]
    /\ \A i \in DOMAIN db_table : \A r \in 1..db_table[i] : r \in db_dropped \/ Contains(db_table, r)

\* No row that the queue of the filter audit took is lost to an outage, nor stored twice or out of
\* order.
RowsAccounted == RowsSurviveOutages /\ StoredOnceInOrder

\* Once the database stays up and the checker has sent what it has to, everything the queue took
\* reaches the table or is given up at shutdown, and a shutdown ends.
DrainsOnceUp ==
    <>[]db_up =>
        /\ db_queue # <<>> ~> (db_queue = <<>> /\ db_pending = <<>>) \/ db_writer = "done"
        /\ db_finisher = "checker" ~> db_finisher = "returned"

\* filters/mod.rs: "The writer drains until every sender, including this one, is gone."
WriterDrains == SendersGone ~> db_writer = "done"
=============================================================================
