-------------------------- MODULE PostpackStreams --------------------------
(***************************************************************************)
(* The post-pack provider mocks (lib.rs, mock-bam.rs, mock-gravity.rs,     *)
(* mock-rakurai.rs of postpack-tools): a clock-driven feed of batches, a   *)
(* broadcast channel that keeps the last FEED_CAPACITY of them, and a task *)
(* that turns batches into the messages of its provider and puts them in   *)
(* the bounded channel of a stream.  BAM sends a batch transaction by      *)
(* transaction, Gravity whole, with heartbeats in between and after an     *)
(* authentication of its own; both close the stream of a subscriber that   *)
(* lags.  Rakurai is a client that pushes each batch on two streams of a   *)
(* relay and skips what it missed.                                         *)
(*                                                                         *)
(* One subscription of one provider.  Its peer reads, stops reading or     *)
(* goes; the relay grants a token to Rakurai or does not.  Batches are     *)
(* numbered as the code numbers them; a signature is the key it was made   *)
(* with.                                                                   *)
(***************************************************************************)
EXTENDS Integers, Sequences, FiniteSets, SequencesExt

CONSTANTS
    FEED_CAPACITY,      \* 1024
    STREAM_CAPACITY,    \* 1024, with Rakurai 256
    BATCH_SIZE,         \* transactions to a batch
    Pubkeys,
    AllowedKeys,        \* --allow of the BAM mock
    MaxBatches, MaxBeats, MaxNonce  \* bounds

ASSUME PostpackStreamsAssumption ==
    /\ FEED_CAPACITY \in Nat \ {0} /\ STREAM_CAPACITY \in Nat \ {0} /\ BATCH_SIZE \in Nat \ {0}
    /\ MaxBatches \in Nat /\ MaxBeats \in Nat /\ MaxNonce \in Nat /\ AllowedKeys \subseteq Pubkeys

VARIABLES
    mock,           \* the mock that runs
    repeat,         \* --repeat
    produced,       \* batches sent so far; those that follow produced - FEED_CAPACITY are kept
    sessions,       \* Gravity: the nonce, of each pubkey its challenges (one or none), the tokens
    task,           \* state, next batch, messages still to send, and a position for history
    streams,        \* of each stream: whether its peer is there, and the channel
    seen_by_peer,   \* history: of each stream what its peer read
    noticed         \* history: batches reported as skipped, heartbeats, tokens issued

streamsVars == <<mock, repeat, produced, sessions, task, streams, seen_by_peer, noticed>>

StreamsOf == [bam |-> {"preconf"}, gravity |-> {"bundles"}, rakurai |-> {"astralane", "block_engine"}]

Streams == StreamsOf[mock]

-----------------------------------------------------------------------------
(* The feed. *)

\* With --repeat every batch is sent twice.
TransactionsOf(batch) == IF repeat THEN batch \div 2 ELSE batch

\* The feed of Rakurai lives from its connection to its end, that of the others from the start.
Tick ==
    /\ produced < MaxBatches
    /\ mock = "rakurai" => task.state \in {"connected", "receiving"}
    /\ produced' = produced + 1
    /\ UNCHANGED <<mock, repeat, sessions, task, streams, seen_by_peer, noticed>>

Oldest == IF produced > FEED_CAPACITY THEN produced - FEED_CAPACITY ELSE 0

-----------------------------------------------------------------------------
(* Authentication. *)

\* generate_auth_challenge: the challenge of a key replaces the one before it.
Challenge(pubkey) ==
    /\ mock = "gravity" /\ sessions.nonce < MaxNonce
    /\ sessions' = [sessions EXCEPT !.nonce = @ + 1, !.challenges[pubkey] = {sessions.nonce}]
    /\ UNCHANGED <<mock, repeat, produced, task, streams, seen_by_peer, noticed>>

\* generate_auth_tokens: an answer takes the challenge of its key, right or wrong.
Answer(pubkey, challenge, signer) ==
    LET grants == challenge \in sessions.challenges[pubkey] /\ signer = pubkey IN
    /\ mock = "gravity" /\ sessions.nonce < MaxNonce
    /\ sessions.challenges[pubkey] # {}
    /\ sessions' = [sessions EXCEPT
           !.challenges[pubkey] = {},
           !.nonce = IF grants THEN @ + 2 ELSE @,
           !.tokens = IF grants THEN @ \cup {sessions.nonce} ELSE @]
    /\ noticed' = IF grants
               THEN [noticed EXCEPT !.issued = Append(@,
                        [pubkey |-> pubkey, challenge |-> challenge, signer |-> signer])]
               ELSE noticed
    /\ UNCHANGED <<mock, repeat, produced, task, streams, seen_by_peer>>

Opened ==
    /\ task.state = IF mock = "rakurai" THEN "connected" ELSE "off"
    /\ task' = [task EXCEPT !.state = "receiving", !.next = produced, !.from = produced]
    /\ streams' = [s \in Streams |-> [streams[s] EXCEPT !.connected = TRUE]]
    /\ UNCHANGED <<mock, repeat, produced, sessions, seen_by_peer, noticed>>

\* Bam::subscribe
SubscribeBam(pubkey, signer) ==
    /\ mock = "bam"
    /\ signer = pubkey
    /\ AllowedKeys = {} \/ pubkey \in AllowedKeys
    /\ Opened

\* Searcher::subscribe_bundles; subscribe_mempool differs in the payload.
SubscribeGravity(token) == mock = "gravity" /\ token \in sessions.tokens /\ Opened

\* main of mock-rakurai: it ends unless the relay gives a token and takes both streams.
ConnectRakurai ==
    /\ mock = "rakurai" /\ task.state = "off"
    /\ task' = [task EXCEPT !.state = "connected"]
    /\ UNCHANGED <<mock, repeat, produced, sessions, streams, seen_by_peer, noticed>>

\* It subscribes to the feed it just started, which may have ticked already.
SubscribeRakurai == mock = "rakurai" /\ Opened

Refused ==
    /\ mock = "rakurai" /\ task.state = "off"
    /\ task' = [task EXCEPT !.state = "ended"]
    /\ UNCHANGED <<mock, repeat, produced, sessions, streams, seen_by_peer, noticed>>

-----------------------------------------------------------------------------
(* The task of the subscription. *)

Lagged == [kind |-> "lagged"]
Beat == [kind |-> "heartbeat"]

Message(batch, position) ==
    [kind |-> "batch", index |-> batch, position |-> position,
     transactions |-> TransactionsOf(batch)]

\* The messages of a batch, each with the stream it goes to.
Messages(batch) ==
    CASE mock = "bam" ->
             [i \in 1..BATCH_SIZE |-> [to |-> "preconf", message |-> Message(batch, i - 1)]]
      [] mock = "gravity" -> <<[to |-> "bundles", message |-> Message(batch, 0)]>>
      [] OTHER -> <<[to |-> "astralane", message |-> Message(batch, 0)],
                    [to |-> "block_engine", message |-> Message(batch, 0)]>>

\* Mutant of OnLag: BAM and Gravity go on behind the gap, as Rakurai does.
OnLagSkip == <<>>

\* What a task has to say of a gap.
OnLag ==
    IF mock = "rakurai" THEN <<>>
    ELSE <<[to |-> CHOOSE s \in Streams : TRUE, message |-> Lagged]>>

\* batches.recv(), where the receiver fell behind what the channel keeps.
RecvLagged ==
    /\ task.state = "receiving" /\ task.pending = <<>> /\ task.next < Oldest
    /\ task' = [task EXCEPT !.next = Oldest, !.pending = OnLag]
    /\ noticed' = [noticed EXCEPT !.skipped = @ \cup task.next..Oldest - 1]
    /\ UNCHANGED <<mock, repeat, produced, sessions, streams, seen_by_peer>>

RecvBatch ==
    /\ task.state = "receiving" /\ task.pending = <<>>
    /\ Oldest <= task.next /\ task.next < produced
    /\ task' = [task EXCEPT !.next = @ + 1, !.pending = Messages(task.next)]
    /\ UNCHANGED <<mock, repeat, produced, sessions, streams, seen_by_peer, noticed>>

Heartbeat ==
    /\ mock = "gravity" /\ noticed.beats < MaxBeats
    /\ task.state = "receiving" /\ task.pending = <<>>
    /\ task' = [task EXCEPT !.pending = <<[to |-> "bundles", message |-> Beat]>>]
    /\ noticed' = [noticed EXCEPT !.beats = @ + 1]
    /\ UNCHANGED <<mock, repeat, produced, sessions, streams, seen_by_peer>>

\* sender.send(..).await, with room in the channel or without a peer.
Send ==
    LET next == Head(task.pending)
        stream == streams[next.to]
    IN
    /\ task.state = "receiving" /\ task.pending # <<>>
    /\ \/ /\ stream.connected /\ Len(stream.channel) < STREAM_CAPACITY
          /\ streams' = [streams EXCEPT ![next.to].channel = Append(@, next.message)]
          /\ task' = [task EXCEPT !.pending = Tail(@),
                                  !.state = IF next.message = Lagged THEN "ended" ELSE @]
       \/ ~stream.connected /\ task' = [task EXCEPT !.state = "ended"] /\ UNCHANGED streams
    /\ UNCHANGED <<mock, repeat, produced, sessions, seen_by_peer, noticed>>

SubscriptionTask == RecvLagged \/ RecvBatch \/ Heartbeat \/ Send

-----------------------------------------------------------------------------
(* The peer. *)

Read(s) ==
    /\ streams[s].connected /\ streams[s].channel # <<>>
    /\ seen_by_peer' = [seen_by_peer EXCEPT ![s] = Append(@, Head(streams[s].channel))]
    /\ streams' = [streams EXCEPT ![s].channel = Tail(@)]
    /\ UNCHANGED <<mock, repeat, produced, sessions, task, noticed>>

Disconnect(s) ==
    /\ streams[s].connected
    /\ streams' = [streams EXCEPT ![s] = [connected |-> FALSE, channel |-> <<>>]]
    /\ UNCHANGED <<mock, repeat, produced, sessions, task, seen_by_peer, noticed>>

\* The bounds are reached, or nobody asks for more.
StreamsIdle == UNCHANGED streamsVars

StreamsInit ==
    /\ mock \in DOMAIN StreamsOf /\ repeat \in BOOLEAN /\ produced = 0
    /\ sessions = [nonce |-> 0, challenges |-> [k \in Pubkeys |-> {}], tokens |-> {}]
    /\ task = [state |-> "off", next |-> 0, from |-> 0, pending |-> <<>>]
    /\ streams = [s \in Streams |-> [connected |-> FALSE, channel |-> <<>>]]
    /\ seen_by_peer = [s \in Streams |-> <<>>]
    /\ noticed = [skipped |-> {}, beats |-> 0, issued |-> <<>>]

StreamsNext ==
    \/ Tick
    \/ \E pubkey \in Pubkeys :
           \/ Challenge(pubkey)
           \/ \E signer \in Pubkeys :
                  \/ \E c \in 0..MaxNonce : Answer(pubkey, c, signer)
                  \/ SubscribeBam(pubkey, signer)
    \/ \E token \in 0..MaxNonce : SubscribeGravity(token)
    \/ ConnectRakurai \/ SubscribeRakurai \/ Refused
    \/ SubscriptionTask
    \/ \E s \in Streams : Read(s) \/ Disconnect(s)
    \/ StreamsIdle

-----------------------------------------------------------------------------
(* Correctness. *)

StreamsTypeOK ==
    /\ task.state \in {"off", "connected", "receiving", "ended"} /\ task.from <= task.next /\ task.next <= produced
    /\ \A s \in Streams : Len(streams[s].channel) <= STREAM_CAPACITY
    /\ sessions.tokens \subseteq 0..sessions.nonce

\* What a stream carried so far, where its batch messages are, and how many of them precede a place.
Carried(s) == seen_by_peer[s] \o streams[s].channel
BatchPlaces(s) == {i \in DOMAIN Carried(s) : Carried(s)[i].kind = "batch"}
Before(s, i) == Cardinality({j \in BatchPlaces(s) : j < i})

\* A batch is so many messages.
PerBatch == IF mock = "bam" THEN BATCH_SIZE ELSE 1

\* A subscriber of BAM or Gravity sees the batches from its subscription on, whole, in order and
\* without a gap; where it lags it is noticed so, and nothing follows.
Contiguous ==
    \A s \in Streams :
        /\ \A i \in BatchPlaces(s) :
               /\ Carried(s)[i].index = task.from + (Before(s, i) \div PerBatch)
               /\ Carried(s)[i].position = Before(s, i) % PerBatch
        /\ \A i \in DOMAIN seen_by_peer[s] : seen_by_peer[s][i] = Lagged =>
               i = Len(seen_by_peer[s]) /\ streams[s].channel = <<>> /\ noticed.skipped # {}

\* The relay sees the batches of Rakurai in order on both streams, the second never ahead of the
\* first by a message nor behind it by two, and each batch is on its way or noticed of as skipped.
Paired ==
    LET at(s) == {Carried(s)[i].index : i \in BatchPlaces(s)}
        pending == {task.pending[i].message.index : i \in DOMAIN task.pending}
        both == \A s \in Streams : streams[s].connected
    IN  /\ \A s \in Streams : \A i, j \in BatchPlaces(s) : i < j => Carried(s)[i].index < Carried(s)[j].index
        /\ both => /\ at("block_engine") \subseteq at("astralane")
                   /\ Cardinality(at("astralane") \ at("block_engine")) <= 1
                   /\ at("block_engine") \cup pending \cup noticed.skipped = task.from..task.next - 1
                   /\ (at("astralane") \cup pending) \cap noticed.skipped = {}

\* No token without the signature of the key it is for, and none for a challenge that was answered
\* before.
Granted ==
    /\ \A i \in DOMAIN noticed.issued : noticed.issued[i].signer = noticed.issued[i].pubkey
    /\ \A i, j \in DOMAIN noticed.issued : noticed.issued[i].challenge = noticed.issued[j].challenge => i = j
    /\ mock = "gravity" /\ task.state # "off" => noticed.issued # <<>>

\* Without --repeat no subscriber gets a transaction twice, with it the two batches of a pair.
Repeats ==
    \A s \in Streams : \A i, j \in BatchPlaces(s) :
        Carried(s)[i].transactions = Carried(s)[j].transactions /\ Carried(s)[i].index < Carried(s)[j].index =>
            repeat /\ Carried(s)[j].index = Carried(s)[i].index + 1

StreamsContiguous == (IF mock = "rakurai" THEN Paired ELSE Contiguous) /\ Granted /\ Repeats
=============================================================================
