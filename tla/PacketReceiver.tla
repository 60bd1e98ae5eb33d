--------------------------- MODULE PacketReceiver ---------------------------
(***************************************************************************)
(* The way of a datagram into shreds-audit (rx.rs, registry.rs, the        *)
(* channel of main.rs): the kernel queues it on the socket of its port or  *)
(* drops it, the rx thread of the port reads a batch of them, tells what   *)
(* the kernel dropped, attributes each to a provider and offers the batch  *)
(* to a bounded channel, and the main loop takes it from there until it is *)
(* told to stop, joins the rx threads and drains the channel.              *)
(*                                                                         *)
(* The kernel is the environment.  Its drop counter is kept modulo         *)
(* COUNTER, travels with the datagram queued after the drop, and is left   *)
(* out where it is zero.  recvmmsg returns what is queued, never more than *)
(* BATCH, and does not return without a datagram: the kernel looks at the  *)
(* timeout only after it received one, and the socket has no timeout of    *)
(* its own.  What ingesting a packet does is in AuditLoop.                 *)
(***************************************************************************)
EXTENDS Integers, Sequences, FiniteSets, FiniteSetsExt, Functions

CONSTANTS
    Ports,
    Configs,        \* configurations: providers, listen_ports, and whether there are gRPC sources
    Arrivals,       \* datagrams: port, ip, kind, and how many the kernel dropped before it
    BATCH,
    CHANNEL,        \* batches the channel holds
    COUNTER,        \* 2^32
    MaxArrivals,    \* bound
    NoPort,
    Nobody

Kinds == {"whole", "truncated", "empty", "unstamped"}

\* Configurations are checked by validate, below; NoPort and Nobody are None.
ASSUME PacketReceiverAssumption ==
    /\ BATCH \in Nat \ {0} /\ CHANNEL \in Nat \ {0} /\ COUNTER \in Nat \ {0, 1}
    /\ MaxArrivals \in Nat /\ NoPort \notin Ports /\ Nobody \notin Nat /\ IsFiniteSet(Ports)
    /\ \A c \in Configs :
           /\ c.listen_ports \subseteq Ports /\ c.grpc \in BOOLEAN
           /\ c.providers \in Seq({c.providers[i] : i \in DOMAIN c.providers})
           /\ \A i \in DOMAIN c.providers : c.providers[i].port \in Ports \cup {NoPort}
    /\ \A x \in Arrivals : x.port \in Ports /\ x.kind \in Kinds /\ x.drops \in 0..COUNTER - 1

VARIABLES
    config,
    sockets,        \* of each port: the datagrams queued, and how many were dropped so far
    rx,             \* of each port: deciding, receiving, ended
    last_ovfl,
    reported_ips,
    observed,       \* NetMon
    counters,       \* RxStats
    channel,
    exit,
    rx_main,        \* running, joining, draining, done
    ingested,       \* packets in the order the main loop took them
    fate            \* history: arrivals, packets refused, empty datagrams, the drops told of each
                    \* port, the turns of the counter no datagram told of, and whether main was
                    \* asked to stop

receiverVars ==
    <<config, sockets, rx, last_ovfl, reported_ips, observed, counters, channel, exit, rx_main,
      ingested, fate>>

-----------------------------------------------------------------------------
(* Configuration. *)

\* validate fills listen_ports from the providers where it is empty.
Listening(c) ==
    IF c.listen_ports # {} THEN c.listen_ports
    ELSE {c.providers[i].port : i \in DOMAIN c.providers} \ {NoPort}

Validates(c) ==
    /\ c.providers # <<>> \/ c.grpc
    /\ c.providers # <<>> => Listening(c) # {}
    /\ \A i \in DOMAIN c.providers :
           LET p == c.providers[i] IN
           /\ p.port # NoPort \/ p.ips # {}
           /\ p.port \in Listening(c) \cup {NoPort}

\* The keys a provider is entered under: its ports, its addresses or both.
Keys(p) == IF p.ips = {} THEN {<<{}, p.port>>} ELSE {<<{ip}, p.port>> : ip \in p.ips}

\* Registry::build: of the providers with one key the last one stays.
Rule(key) ==
    LET those == {i \in DOMAIN config.providers : key \in Keys(config.providers[i])} IN
    IF those = {} THEN Nobody ELSE Max(those)

\* The first map that has the datagram.
Resolve(ip, port) ==
    CASE Rule(<<{ip}, port>>) # Nobody -> Rule(<<{ip}, port>>)
      [] Rule(<<{ip}, port>>) = Nobody /\ Rule(<<{}, port>>) # Nobody -> Rule(<<{}, port>>)
      [] OTHER -> Rule(<<{ip}, NoPort>>)

-----------------------------------------------------------------------------
(* The kernel. *)

\* The counter as the message carries it; it is left out where it is zero.
Ovfl(datagram) == datagram.dropped % COUNTER

\* Some datagrams are dropped, and the next one is queued.
Arrive(x) ==
    /\ x.port \in Listening(config) /\ fate.arrivals < MaxArrivals
    /\ LET dropped == sockets[x.port].dropped + x.drops IN
       sockets' = [sockets EXCEPT ![x.port] =
           [queue |-> Append(@.queue, [no |-> fate.arrivals + 1, ip |-> x.ip, kind |-> x.kind,
                                       dropped |-> dropped]),
            dropped |-> dropped]]
    /\ fate' = [fate EXCEPT !.arrivals = @ + 1]
    /\ UNCHANGED <<config, rx, last_ovfl, reported_ips, observed, counters, channel, exit,
                   rx_main, ingested>>

-----------------------------------------------------------------------------
(* rx_loop. *)

\* Mutant of Wrapping: the counter is taken not to wrap.
Saturating(ovfl, last) == IF ovfl > last THEN ovfl - last ELSE 0

\* wrapping_sub
Wrapping(ovfl, last) == (ovfl - last) % COUNTER

Tells(datagram, last) == Ovfl(datagram) # 0 /\ Wrapping(Ovfl(datagram), last) > 0

\* What the datagram tells of the drops: the counters, and as a history the drops themselves.
Hear(scan, datagram) ==
    LET heard ==
            IF Ovfl(datagram) = 0 THEN scan
            ELSE [scan EXCEPT !.turns = @ + (datagram.dropped - scan.told) \div COUNTER,
                              !.told = datagram.dropped]
    IN  IF ~Tells(datagram, scan.last) THEN heard
        ELSE [heard EXCEPT !.counters.kernel_dropped = @ + Wrapping(Ovfl(datagram), scan.last),
                           !.last = Ovfl(datagram)]

\* One datagram of a batch.
Scan(scan, datagram, port) ==
    LET told == Hear(scan, datagram)
        provider == Resolve(datagram.ip, port)
        counting(counter) == [told EXCEPT !.counters[counter] = @ + 1]
        received == counting("received")
    IN  CASE datagram.kind = "truncated" -> counting("truncated")
          [] datagram.kind = "empty" -> [told EXCEPT !.empty = @ + 1]
          [] datagram.kind = "unstamped" -> counting("no_timestamp")
          [] OTHER ->
                 IF provider = Nobody THEN [received EXCEPT !.counters.unmatched = @ + 1]
                 ELSE [received EXCEPT
                          !.senders = @ \cup {<<provider, datagram.ip>>},
                          !.batch = Append(@, [no |-> datagram.no, provider |-> provider,
                                               ip |-> datagram.ip, port |-> port])]

\* The scan of the first datagrams on the socket, of none of them up to n.
Scans(p, n) ==
    LET begin == [counters |-> counters, last |-> last_ovfl[p], batch |-> <<>>, senders |-> {},
                  told |-> fate.told[p], turns |-> fate.turns, empty |-> fate.empty]
        scans[i \in 0..n] == IF i = 0 THEN begin ELSE Scan(scans[i - 1], sockets[p].queue[i], p)
    IN  scans

\* The flag is read between two calls only.
Look(p) ==
    /\ rx[p] = "deciding"
    /\ rx' = [rx EXCEPT ![p] = IF exit THEN "ended" ELSE "receiving"]
    /\ UNCHANGED <<config, sockets, last_ovfl, reported_ips, observed, counters, channel, exit,
                   rx_main, ingested, fate>>

\* recvmmsg returns n datagrams; all are scanned and what is left is offered to the channel.
ReceiveBatch(p, n) ==
    LET scan == Scans(p, n)[n]
        refused == scan.batch # <<>> /\ Len(channel) >= CHANNEL
    IN
    /\ rx[p] = "receiving"
    /\ n \in 1..BATCH /\ n <= Len(sockets[p].queue)
    /\ rx' = [rx EXCEPT ![p] = "deciding"]
    /\ sockets' = [sockets EXCEPT ![p].queue = SubSeq(@, n + 1, Len(@))]
    /\ last_ovfl' = [last_ovfl EXCEPT ![p] = scan.last]
    /\ reported_ips' = [reported_ips EXCEPT ![p] = @ \cup scan.senders]
    /\ observed' = observed \cup (scan.senders \ reported_ips[p])
    /\ counters' = IF refused THEN [scan.counters EXCEPT !.channel_full = @ + 1] ELSE scan.counters
    /\ channel' = IF scan.batch = <<>> \/ refused THEN channel ELSE Append(channel, scan.batch)
    /\ fate' = [fate EXCEPT
           !.refused = IF refused THEN @ + Len(scan.batch) ELSE @,
           !.told[p] = scan.told, !.turns = scan.turns, !.empty = scan.empty]
    /\ UNCHANGED <<config, exit, rx_main, ingested>>

\* recvmmsg is interrupted.
Interrupted(p) ==
    /\ rx[p] = "receiving" /\ sockets[p].queue = <<>>
    /\ rx' = [rx EXCEPT ![p] = "deciding"]
    /\ UNCHANGED <<config, sockets, last_ovfl, reported_ips, observed, counters, channel, exit,
                   rx_main, ingested, fate>>

-----------------------------------------------------------------------------
(* The main loop. *)

\* The first Ctrl-C.
Asked ==
    /\ ~exit
    /\ exit' = TRUE
    /\ fate' = [fate EXCEPT !.asked = TRUE]
    /\ UNCHANGED <<config, sockets, rx, last_ovfl, reported_ips, observed, counters, channel,
                   rx_main, ingested>>

\* keep_tx, dropped when the rx threads are joined.
KeepsSender == Listening(config) = {} /\ rx_main \in {"running", "joining"}

Senders == {p \in Listening(config) : rx[p] # "ended"}

Disconnects == channel = <<>> /\ Senders = {} /\ ~KeepsSender

\* The loop takes a batch while it runs, and after it joined the rx threads.
TakeBatch ==
    /\ rx_main \in {"running", "draining"} /\ channel # <<>>
    /\ ingested' = ingested \o Head(channel)
    /\ channel' = Tail(channel)
    /\ UNCHANGED <<config, sockets, rx, last_ovfl, reported_ips, observed, counters, exit, rx_main, fate>>

Stop ==
    /\ rx_main = "running"
    /\ exit \/ Disconnects
    /\ rx_main' = "joining"
    /\ exit' = TRUE
    /\ UNCHANGED <<config, sockets, rx, last_ovfl, reported_ips, observed, counters, channel,
                   ingested, fate>>

\* --duration-secs have passed.
DeadlineHit ==
    /\ rx_main = "running"
    /\ rx_main' = "joining"
    /\ exit' = TRUE
    /\ fate' = [fate EXCEPT !.asked = TRUE]
    /\ UNCHANGED <<config, sockets, rx, last_ovfl, reported_ips, observed, counters, channel, ingested>>

JoinReceivers ==
    /\ rx_main = "joining" /\ Senders = {}
    /\ rx_main' = "draining"
    /\ UNCHANGED <<config, sockets, rx, last_ovfl, reported_ips, observed, counters, channel,
                   exit, ingested, fate>>

Drained ==
    /\ rx_main = "draining" /\ Disconnects
    /\ rx_main' = "done"
    /\ UNCHANGED <<config, sockets, rx, last_ovfl, reported_ips, observed, counters, channel,
                   exit, ingested, fate>>

\* The rest of main is in AuditLoop.
ReceiverDone == rx_main = "done" /\ UNCHANGED receiverVars

ReceiverInit ==
    /\ config \in {c \in Configs : Validates(c)}
    /\ sockets = [p \in Ports |-> [queue |-> <<>>, dropped |-> 0]]
    /\ rx = [p \in Ports |-> "deciding"]
    /\ last_ovfl = [p \in Ports |-> 0]
    /\ reported_ips = [p \in Ports |-> {}] /\ observed = {}
    /\ counters = [received |-> 0, unmatched |-> 0, no_timestamp |-> 0, channel_full |-> 0,
                   kernel_dropped |-> 0, truncated |-> 0]
    /\ channel = <<>> /\ exit = FALSE /\ rx_main = "running" /\ ingested = <<>>
    /\ fate = [arrivals |-> 0, refused |-> 0, empty |-> 0, told |-> [p \in Ports |-> 0],
             turns |-> 0, asked |-> FALSE]

RxThread(p) == Look(p) \/ \E n \in 1..BATCH : ReceiveBatch(p, n)

ReceiverMain == TakeBatch \/ Stop \/ JoinReceivers \/ Drained

ReceiverNext ==
    \/ \E x \in Arrivals : Arrive(x)
    \/ \E p \in Listening(config) : RxThread(p) \/ Interrupted(p)
    \/ Asked \/ DeadlineHit \/ ReceiverMain \/ ReceiverDone

\* The threads are scheduled.  Nothing says that a datagram comes, or that a call is interrupted.
ReceiverFairness ==
    /\ \A p \in Ports : WF_receiverVars(p \in Listening(config) /\ RxThread(p))
    /\ WF_receiverVars(ReceiverMain)

ReceiverSpec == ReceiverInit /\ [][ReceiverNext]_receiverVars /\ ReceiverFairness

-----------------------------------------------------------------------------
(* Correctness. *)

ReceiverTypeOK ==
    /\ config \in Configs /\ Validates(config)
    /\ \A p \in Ports : rx[p] \in {"deciding", "receiving", "ended"} /\ last_ovfl[p] \in 0..COUNTER - 1
    /\ Len(channel) <= CHANNEL /\ \A i \in DOMAIN channel : Len(channel[i]) \in 1..BATCH
    /\ exit \in BOOLEAN /\ rx_main \in {"running", "joining", "draining", "done"}

\* What the kernel dropped is counted as soon as a datagram tells of it, each drop once and
\* whatever became of the datagram; only what makes the counter go around a whole turn, or comes
\* to a whole turn where it is left out, is lost.
DropsTold == counters.kernel_dropped + COUNTER * fate.turns = SumFunctionOnSet(fate.told, Ports)

\* A datagram is on its socket, in the channel, ingested or in exactly one of the counts; of
\* those that are not shreds of a provider only the empty ones are in no counter of the program.
DatagramsCounted ==
    LET waiting == [p \in Ports |-> Len(sockets[p].queue)]
        batches == [i \in DOMAIN channel |-> Len(channel[i])]
        taken == SumFunctionOnSet(batches, DOMAIN channel) + Len(ingested) + fate.refused
    IN  /\ counters.received = counters.unmatched + taken
        /\ fate.arrivals = SumFunctionOnSet(waiting, Ports) + counters.received + counters.truncated
                           + counters.no_timestamp + fate.empty
        /\ counters.channel_full <= fate.refused /\ fate.refused <= BATCH * counters.channel_full

\* The provider's rule fits the port and the sender of the packet, no provider is given both,
\* unless this one is, and none the port alone, if this one is given a sender alone.
Narrowest(packet) ==
    LET p == config.providers[packet.provider]
        fits(q) == packet.port = q.port /\ packet.ip \in q.ips
    IN  /\ packet.provider \in DOMAIN config.providers
        /\ p.port \in {packet.port, NoPort} /\ (p.ips = {} \/ packet.ip \in p.ips)
        /\ ~fits(p) => \A j \in DOMAIN config.providers : ~fits(config.providers[j])
        /\ p.port = NoPort => \A j \in DOMAIN config.providers :
               config.providers[j].ips = {} => config.providers[j].port # packet.port

\* The packets of one port are in the order they arrived: within a batch, and from one to another.
InOrder(batch) ==
    \A i, j \in DOMAIN batch : i < j /\ batch[i].port = batch[j].port => batch[i].no < batch[j].no

Precedes(early, late) ==
    \A i \in DOMAIN early, j \in DOMAIN late : early[i].port = late[j].port => early[i].no < late[j].no

\* A packet bears the provider whose rule is the narrowest that fits its sender and its port, and
\* its sender is on record.
Attributed(batch) ==
    \A i \in DOMAIN batch :
        Narrowest(batch[i]) /\ <<batch[i].provider, batch[i].ip>> \in observed

\* Every packet is attributed, and the main loop sees those of one port in order.
PacketsAttributed ==
    /\ Attributed(ingested) /\ InOrder(ingested)
    /\ \A i \in DOMAIN channel :
           /\ Attributed(channel[i]) /\ InOrder(channel[i]) /\ Precedes(ingested, channel[i])
           /\ \A j \in 1..i - 1 : Precedes(channel[j], channel[i])

\* main leaves its loop only when it is asked to: where it has no receivers it keeps a sender.
LeavesWhenAsked == rx_main # "running" => fate.asked

PacketsAccounted == DropsTold /\ DatagramsCounted /\ PacketsAttributed /\ LeavesWhenAsked

\* Once the receivers have ended the main loop takes what they left in the channel and is done: no
\* sender is held by main itself when it drains.
ReceiversClose == exit /\ Senders = {} ~> rx_main = "done" /\ channel = <<>>

\* rx.rs: "100 ms so a quiet socket still notices `exit`".
QuietSocketNoticesExit == \A p \in Ports : exit ~> (p \in Listening(config) => rx[p] = "ended")
=============================================================================
