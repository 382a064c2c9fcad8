----------------------------- MODULE PacketRouter -----------------------------
(***************************************************************************)
(* PacketRouter of src/src/network/async_io.rs: a task that receives       *)
(* datagrams, keeps counters of each address and tells of both over an     *)
(* unbounded channel.                                                      *)
(*                                                                         *)
(* start_router() consumes the router, so take_event_receiver() and        *)
(* send_packet() can be called before it only, when no address is known    *)
(* yet.  A receiver that is taken replaces the sender of the one before.   *)
(***************************************************************************)
EXTENDS Naturals, Sequences, FiniteSets, Retain

CONSTANTS
    Addresses,      \* where datagrams come from
    Data,           \* what they carry
    MaxPackets      \* bound on the datagrams that arrive

VARIABLES
    phase,          \* "new", "running", or "ended" with the task
    listener,       \* the receiver of the last channel: "none", "open" or "dropped"
    buf,            \* the datagram the task has counted and not forwarded yet
    connections,    \* connections: the counters of each address that is known
    events,         \* the channel
    heard,          \* auxiliary: the events the receiver's owner has taken
    arrived,        \* auxiliary: the datagrams the task has received
    sentTo          \* auxiliary: the addresses send_packet() was called with

routerVars == <<phase, listener, buf, connections, events, heard, arrived, sentTo>>

Datagram == [from : Addresses, data : Data]
NoDatagram == [from |-> "nobody"]

PeerConnected(a) == [kind |-> "PeerConnected", addr |-> a]
PacketReceived(d) == [kind |-> "PacketReceived", addr |-> d.from, data |-> d.data]
RouterEvent == [kind : {"PeerConnected"}, addr : Addresses]
          \cup [kind : {"PacketReceived"}, addr : Addresses, data : Data]

\* The addresses the map has an entry for; the others count 0.
Unknown == [known |-> FALSE, sent |-> 0, received |-> 0]

\* entry().or_insert_with(), and a packet more.
Counted(c) == [known |-> TRUE, sent |-> c.sent, received |-> c.received + 1]

RouterInit ==
    /\ phase = "new" /\ listener = "none" /\ buf = NoDatagram
    /\ connections = [a \in Addresses |-> Unknown]
    /\ events = <<>> /\ heard = <<>> /\ arrived = <<>> /\ sentTo = {}

\* sender.send(), which fails without a receiver and is only warned of.
Emitted(es) == IF listener = "open" THEN events \o es ELSE events

-----------------------------------------------------------------------------
(* Mutated forms of definitions below, which the specification does not    *)
(* use.                                                                    *)

\* The event of a new address follows its first datagram.
RouteAnnouncesLast(d) ==
    /\ phase = "running" /\ buf = NoDatagram
    /\ Len(arrived) < MaxPackets
    /\ arrived' = Append(arrived, d)
    /\ buf' = d
    /\ connections' = [connections EXCEPT ![d.from] = Counted(@)]
    /\ events' = IF connections[d.from].known THEN events
                 ELSE Emitted(<<PacketReceived(d), PeerConnected(d.from)>>)
    /\ UNCHANGED <<phase, listener, heard, sentTo>>

\* A new address is entered with nothing received.
RouteCountsFromZero(d) ==
    /\ phase = "running" /\ buf = NoDatagram
    /\ Len(arrived) < MaxPackets
    /\ arrived' = Append(arrived, d)
    /\ buf' = d
    /\ connections' = [connections EXCEPT ![d.from] =
                          IF @.known THEN Counted(@) ELSE [@ EXCEPT !.known = TRUE]]
    /\ events' = IF connections[d.from].known THEN events
                 ELSE Emitted(<<PeerConnected(d.from)>>)
    /\ UNCHANGED <<phase, listener, heard, sentTo>>

\* The events of a receiver that is dropped stay in the channel.
ReceiverDroppedOnly ==
    /\ listener = "open"
    /\ listener' = "dropped"
    /\ UNCHANGED <<phase, buf, connections, events, heard, arrived, sentTo>>

-----------------------------------------------------------------------------
\* A new channel; the receiver of the one before, if any, will hear nothing.
TakeEventReceiver ==
    /\ phase = "new"
    /\ listener' = "open"
    /\ events' = <<>>
    /\ UNCHANGED <<phase, buf, connections, heard, arrived, sentTo>>

\* send_packet(): an address that is known gets a packet counted, a new one no
\* entry.
SendPacket(a) ==
    /\ phase = "new"
    /\ connections' = IF connections[a].known
                      THEN [connections EXCEPT ![a].sent = @ + 1] ELSE connections
    /\ sentTo' = sentTo \cup {a}
    /\ UNCHANGED <<phase, listener, buf, events, heard, arrived>>

StartRouter ==
    /\ phase = "new"
    /\ phase' = "running"
    /\ UNCHANGED <<listener, buf, connections, events, heard, arrived, sentTo>>

\* A datagram arrives and is counted; the event of a new address is sent while
\* the lock of the map is held.
Route(d) ==
    /\ phase = "running" /\ buf = NoDatagram
    /\ Len(arrived) < MaxPackets
    /\ arrived' = Append(arrived, d)
    /\ buf' = d
    /\ connections' = [connections EXCEPT ![d.from] = Counted(@)]
    /\ events' = IF connections[d.from].known THEN events
                 ELSE Emitted(<<PeerConnected(d.from)>>)
    /\ UNCHANGED <<phase, listener, heard, sentTo>>

\* The lock is free again and the datagram's own event follows.
Forward ==
    /\ phase = "running" /\ buf # NoDatagram
    /\ events' = Emitted(<<PacketReceived(buf)>>)
    /\ buf' = NoDatagram
    /\ UNCHANGED <<phase, listener, connections, heard, arrived, sentTo>>

\* recv_from() fails and the task ends.
RouterFails ==
    /\ phase = "running" /\ buf = NoDatagram
    /\ phase' = "ended"
    /\ UNCHANGED <<listener, buf, connections, events, heard, arrived, sentTo>>

\* The owner of the receiver takes an event, or drops it.
Hear ==
    /\ listener = "open" /\ events # <<>>
    /\ heard' = Append(heard, Head(events))
    /\ events' = Tail(events)
    /\ UNCHANGED <<phase, listener, buf, connections, arrived, sentTo>>

DropReceiver ==
    /\ listener = "open"
    /\ listener' = "dropped" /\ events' = <<>>
    /\ UNCHANGED <<phase, buf, connections, heard, arrived, sentTo>>

RouterNext ==
    \/ TakeEventReceiver \/ StartRouter \/ Forward \/ RouterFails \/ Hear \/ DropReceiver
    \/ \E a \in Addresses : SendPacket(a)
    \/ \E d \in Datagram : Route(d)

RouterSpec == RouterInit /\ [][RouterNext]_routerVars

-----------------------------------------------------------------------------
\* The types; without a receiver nothing is kept, and before the task runs
\* nothing is known.
RouterTypeOK ==
    /\ phase \in {"new", "running", "ended"} /\ listener \in {"none", "open", "dropped"}
    /\ buf \in Datagram \cup {NoDatagram}
    /\ connections \in [Addresses -> [known : BOOLEAN, sent : Nat, received : Nat]]
    /\ events \in Seq(RouterEvent) /\ heard \in Seq(RouterEvent)
    /\ arrived \in Seq(Datagram) /\ sentTo \subseteq Addresses
    /\ listener # "open" => events = <<>>
    /\ phase = "new" => arrived = <<>> /\ heard = <<>> /\ events = <<>>

\* A connection is told of before anything else of its address, and a datagram
\* after it.
WellTold(told) ==
    \A i \in 1..Len(told) :
        /\ told[i].kind = "PeerConnected" =>
              \A j \in 1..(i - 1) : told[j].addr # told[i].addr
        /\ told[i].kind = "PacketReceived" =>
              \E j \in 1..(i - 1) : told[j] = PeerConnected(told[i].addr)

\* Whoever listens is told of an address once, and before its first datagram,
\* although counting and forwarding are two steps and he may listen in between.
Told == heard \o events
ConnectedFirst == WellTold(Told)

Packets == {e \in RouterEvent : e.kind = "PacketReceived"}
From(s, a) == {i \in DOMAIN s : s[i].from = a}
Forwarded == IF buf = NoDatagram THEN Len(arrived) ELSE Len(arrived) - 1

\* A receiver that is kept is told of every datagram in the order of arrival, and
\* the counters count the same datagrams; what send_packet() sends is counted
\* nowhere, for it can be called before anyone is known only.
EventsTellCounts ==
    /\ listener = "open" =>
          Only(Told, Packets) = [i \in 1..Forwarded |-> PacketReceived(arrived[i])]
    /\ \A a \in Addresses :
          /\ connections[a].sent = 0
          /\ connections[a].received = Cardinality(From(arrived, a))

-----------------------------------------------------------------------------
(* Why it holds: the parts of the inductive invariant.                     *)

\* The datagram that is counted and not forwarded yet is of a known address.
CountedFirst == buf # NoDatagram => connections[buf.from].known

\* While somebody listens the map and what he was told agree on who is known.
MapTold ==
    listener = "open" =>
        \A a \in Addresses :
            IF connections[a].known
            THEN \E i \in 1..Len(Told) : Told[i] = PeerConnected(a)
            ELSE \A i \in 1..Len(Told) : Told[i].addr # a

\* Before the task runs nobody is known, and nothing was sent to anyone who is.
NobodyYet ==
    /\ phase = "new" => buf = NoDatagram /\ \A a \in Addresses : ~connections[a].known
    /\ \A a \in Addresses : connections[a].sent = 0

\* The datagram that is counted and not forwarded yet is the last that arrived.
LastIsBuffered == buf # NoDatagram => arrived # <<>> /\ buf = arrived[Len(arrived)]

CountInv == LastIsBuffered /\ EventsTellCounts

RouterInv == RouterTypeOK /\ CountedFirst /\ MapTold /\ NobodyYet /\ ConnectedFirst
=============================================================================
