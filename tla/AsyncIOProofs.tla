---------------------------- MODULE AsyncIOProofs ----------------------------
(***************************************************************************)
(* Proofs about PacketRouter and ConnectionPool, for any addresses, data   *)
(* and number of datagrams, and for any peers, limit and age, alone and    *)
(* together.                                                               *)
(***************************************************************************)
EXTENDS AsyncIO, DataProofs, FiniteSetTheorems, TLAPS

\* What an event is.
LEMMA EventCases ==
    ASSUME NEW e \in RouterEvent
    PROVE  /\ e.addr \in Addresses
           /\ e.kind \in {"PeerConnected", "PacketReceived"}
           /\ e.kind = "PeerConnected" => e = PeerConnected(e.addr)
BY DEF RouterEvent, PeerConnected

\* What the task tells is an event.
LEMMA EventTypes ==
    /\ \A a \in Addresses : PeerConnected(a) \in RouterEvent
    /\ \A d \in Datagram : PacketReceived(d) \in RouterEvent
BY DEF RouterEvent, PeerConnected, PacketReceived, Datagram

\* No address is nobody's.
LEMMA NoDatagramIsNone == NoDatagram \notin Datagram
BY DEF NoDatagram, Datagram

\* An event at the end keeps what was told in order.
LEMMA ToldOneMore ==
    ASSUME NEW told \in Seq(RouterEvent), NEW e \in RouterEvent, WellTold(told),
           e.kind = "PeerConnected" => \A i \in 1..Len(told) : told[i].addr # e.addr,
           e.kind = "PacketReceived" =>
               \E i \in 1..Len(told) : told[i] = PeerConnected(e.addr)
    PROVE  WellTold(told \o <<e>>)
<1> DEFINE more == told \o <<e>>
<1>1. /\ Len(more) = Len(told) + 1 /\ more[Len(told) + 1] = e
      /\ \A i \in 1..Len(told) : more[i] = told[i]
  OBVIOUS
<1> SUFFICES ASSUME NEW i \in 1..Len(more)
             PROVE  /\ more[i].kind = "PeerConnected" =>
                          \A j \in 1..(i - 1) : more[j].addr # more[i].addr
                    /\ more[i].kind = "PacketReceived" =>
                          \E j \in 1..(i - 1) : more[j] = PeerConnected(more[i].addr)
  BY DEF WellTold
<1>2. CASE i \in 1..Len(told)
  <2>1. \A j \in 1..(i - 1) : j \in 1..Len(told) /\ more[j] = told[j]
    BY <1>1, <1>2
  <2>2. more[i] = told[i]
    BY <1>1, <1>2
  <2>3. QED
    BY <1>2, <2>1, <2>2 DEF WellTold
<1>3. CASE i = Len(told) + 1
  <2>1. 1..(i - 1) = 1..Len(told) /\ more[i] = e
    BY <1>1, <1>3
  <2>2. QED
    BY <1>1, <2>1
<1>4. QED
  BY <1>1, <1>2, <1>3

\* A part from the front is in order as well.
LEMMA ToldLess ==
    ASSUME NEW told \in Seq(RouterEvent), NEW rest \in Seq(RouterEvent),
           WellTold(told \o rest)
    PROVE  WellTold(told)
<1>1. /\ Len(told) <= Len(told \o rest)
      /\ \A i \in 1..Len(told) : (told \o rest)[i] = told[i]
  OBVIOUS
<1> SUFFICES ASSUME NEW i \in 1..Len(told)
             PROVE  /\ told[i].kind = "PeerConnected" =>
                          \A j \in 1..(i - 1) : told[j].addr # told[i].addr
                    /\ told[i].kind = "PacketReceived" =>
                          \E j \in 1..(i - 1) : told[j] = PeerConnected(told[i].addr)
  BY DEF WellTold
<1>2. /\ i \in 1..Len(told \o rest) /\ (told \o rest)[i] = told[i]
      /\ \A j \in 1..(i - 1) : (told \o rest)[j] = told[j]
  BY <1>1
<1>3. QED
  BY <1>2 DEF WellTold

\* Taking an event moves it from one part of what was told to the other.
LEMMA HeadMoves ==
    ASSUME NEW s \in Seq(RouterEvent), NEW t \in Seq(RouterEvent), t # <<>>
    PROVE  /\ Append(s, Head(t)) \in Seq(RouterEvent) /\ Tail(t) \in Seq(RouterEvent)
           /\ Append(s, Head(t)) \o Tail(t) = s \o t
<1>1. Append(s, Head(t)) \in Seq(RouterEvent) /\ Tail(t) \in Seq(RouterEvent)
  OBVIOUS
<1>2. Append(s, Head(t)) \o Tail(t) = s \o t
  OBVIOUS
<1>3. QED
  BY <1>1, <1>2

\* So does a concatenation.
LEMMA Regroup ==
    ASSUME NEW s \in Seq(RouterEvent), NEW t \in Seq(RouterEvent), NEW e \in RouterEvent
    PROVE  s \o (t \o <<e>>) = (s \o t) \o <<e>>
OBVIOUS

-----------------------------------------------------------------------------
LEMMA RouterInvInit == RouterInit => RouterInv
<1> SUFFICES ASSUME RouterInit PROVE RouterInv
  OBVIOUS
<1>1. RouterTypeOK /\ NobodyYet /\ CountedFirst /\ MapTold
  BY DEF RouterInit, RouterTypeOK, NobodyYet, CountedFirst, MapTold, Unknown
<1>2. ConnectedFirst
  BY DEF RouterInit, ConnectedFirst, WellTold, Told
<1>3. QED
  BY <1>1, <1>2 DEF RouterInv

\* sender.send() makes the channel longer by the event, or changes nothing.
LEMMA Tells ==
    ASSUME RouterTypeOK, NEW e \in RouterEvent,
           events' = Emitted(<<e>>), UNCHANGED <<heard, listener>>
    PROVE  /\ events' \in Seq(RouterEvent)
           /\ listener = "open" => Told' = Told \o <<e>>
           /\ listener # "open" => events' = <<>> /\ Told' = Told
<1>1. CASE listener = "open"
  <2>1. events' = events \o <<e>>
    BY <1>1 DEF Emitted
  <2>2. events \in Seq(RouterEvent) /\ heard \in Seq(RouterEvent)
    BY DEF RouterTypeOK
  <2>3. events' \in Seq(RouterEvent)
    BY <2>1, <2>2, SMTT(30)
  <2>4. heard' \o events' = (heard \o events) \o <<e>>
    BY <2>1, <2>2, Regroup
  <2>5. Told' = Told \o <<e>>
    BY <1>1, <2>4 DEF Told
  <2>6. QED
    BY <1>1, <2>3, <2>5
<1>2. CASE listener # "open"
  BY <1>2 DEF Emitted, RouterTypeOK, Told
<1>3. QED
  BY <1>1, <1>2

\* What was told are events.
LEMMA ToldType == ASSUME RouterTypeOK PROVE Told \in Seq(RouterEvent)
BY DEF RouterTypeOK, Told

\* Everything the router, its owner and the owner of the receiver do keeps the
\* invariant.
LEMMA RouterInvNext == ASSUME RouterInv, [RouterNext]_routerVars PROVE RouterInv'
<1> USE DEF RouterInv
<1>t. RouterTypeOK /\ CountedFirst /\ MapTold /\ NobodyYet /\ ConnectedFirst
  OBVIOUS
<1>u. Told \in Seq(RouterEvent)
  BY <1>t, ToldType
<1>1. CASE UNCHANGED routerVars
  BY <1>t, <1>1 DEF routerVars, RouterTypeOK, CountedFirst, MapTold, NobodyYet,
                    ConnectedFirst, Told
<1>2. CASE TakeEventReceiver
  <2>1. Told' = <<>>
    BY <1>t, <1>2 DEF TakeEventReceiver, RouterTypeOK, Told
  <2>2. RouterTypeOK' /\ CountedFirst' /\ NobodyYet'
    BY <1>t, <1>2 DEF TakeEventReceiver, RouterTypeOK, CountedFirst, NobodyYet
  <2>3. MapTold' /\ ConnectedFirst'
    BY <1>t, <1>2, <2>1 DEF TakeEventReceiver, MapTold, ConnectedFirst, WellTold, NobodyYet
  <2>4. QED
    BY <2>2, <2>3
<1>3. ASSUME NEW a \in Addresses, SendPacket(a) PROVE RouterInv'
  <2>1. UNCHANGED <<phase, listener, buf, connections, events, heard, arrived>>
    BY <1>t, <1>3 DEF SendPacket, NobodyYet
  <2>2. sentTo' \subseteq Addresses
    BY <1>t, <1>3 DEF SendPacket, RouterTypeOK
  <2>3. QED
    BY <1>t, <2>1, <2>2 DEF RouterTypeOK, CountedFirst, MapTold, NobodyYet,
                            ConnectedFirst, Told
<1>4. CASE StartRouter \/ RouterFails
  BY <1>t, <1>4 DEF StartRouter, RouterFails, RouterTypeOK, CountedFirst, MapTold, NobodyYet,
                    ConnectedFirst, Told
<1>5. ASSUME NEW d \in Datagram, Route(d) PROVE RouterInv'
  <2> DEFINE a == d.from
  <2>1. a \in Addresses
    BY DEF Datagram
  <2>2. /\ phase = "running" /\ phase' = phase
        /\ UNCHANGED <<listener, heard>>
        /\ buf' = d /\ arrived' = Append(arrived, d) /\ UNCHANGED sentTo
    BY <1>5 DEF Route
  <2>3. /\ connections' \in [Addresses -> [known : BOOLEAN, sent : Nat, received : Nat]]
        /\ connections'[a].known
        /\ \A b \in Addresses : b # a => connections'[b] = connections[b]
        /\ \A b \in Addresses : connections'[b].sent = connections[b].sent
    <3> DEFINE S == [known : BOOLEAN, sent : Nat, received : Nat]
               c == Counted(connections[a])
    <3>1. connections \in [Addresses -> S]
      BY <1>t DEF RouterTypeOK
    <3>2. connections' = [connections EXCEPT ![a] = c]
      BY <1>5 DEF Route
    <3>3. connections[a] \in S
      BY <2>1, <3>1
    <3>4. c \in S /\ c.known /\ c.sent = connections[a].sent
      BY <3>3 DEF Counted
    <3> HIDE DEF S, c
    <3>5. connections' \in [Addresses -> S] /\ connections'[a] = c
      BY <2>1, <3>1, <3>2, <3>4
    <3>6. \A b \in Addresses : b # a => connections'[b] = connections[b]
      BY <2>1, <3>1, <3>2
    <3>7. \A b \in Addresses : connections'[b].sent = connections[b].sent
      BY <3>4, <3>5, <3>6
    <3>8. QED
      BY <3>4, <3>5, <3>6, <3>7 DEF S
  <2>4. CASE connections[a].known
    <3>1. events' = events /\ Told' = Told
      BY <1>5, <2>2, <2>4 DEF Route, Told
    <3>2. RouterTypeOK' /\ CountedFirst' /\ NobodyYet' /\ ConnectedFirst'
      BY <1>t, <2>1, <2>2, <2>3, <3>1
         DEF RouterTypeOK, CountedFirst, NobodyYet, ConnectedFirst
    <3>3. MapTold'
      BY <1>t, <2>2, <2>3, <2>4, <3>1 DEF MapTold
    <3>4. QED
      BY <3>2, <3>3
  <2>5. CASE ~connections[a].known
    <3> DEFINE e == PeerConnected(a)
    <3>1. events' = Emitted(<<e>>) /\ e \in RouterEvent
      BY <1>5, <2>1, <2>5, EventTypes DEF Route
    <3>2. /\ events' \in Seq(RouterEvent)
          /\ listener = "open" => Told' = Told \o <<e>>
          /\ listener # "open" => events' = <<>> /\ Told' = Told
      BY <1>t, <2>2, <3>1, Tells
    <3>3. RouterTypeOK' /\ CountedFirst' /\ NobodyYet'
      BY <1>t, <2>1, <2>2, <2>3, <3>2 DEF RouterTypeOK, CountedFirst, NobodyYet
    <3>4. listener = "open" => \A i \in 1..Len(Told) : Told[i].addr # a
      BY <1>t, <2>1, <2>5 DEF MapTold
    <3>5. ConnectedFirst'
      <4>1. CASE listener = "open"
        <5>1. e.kind = "PeerConnected" /\ e.addr = a
          BY DEF PeerConnected
        <5>2. WellTold(Told \o <<e>>)
          BY <1>t, <1>u, <3>1, <3>4, <4>1, <5>1, ToldOneMore DEF ConnectedFirst
        <5>3. QED
          BY <3>2, <4>1, <5>2 DEF ConnectedFirst
      <4>2. CASE listener # "open"
        BY <1>t, <3>2, <4>2 DEF ConnectedFirst
      <4>3. QED
        BY <4>1, <4>2
    <3>6. MapTold'
      <4> SUFFICES ASSUME listener = "open", NEW b \in Addresses
                   PROVE  IF connections'[b].known
                          THEN \E i \in 1..Len(Told') : Told'[i] = PeerConnected(b)
                          ELSE \A i \in 1..Len(Told') : Told'[i].addr # b
        BY <2>2 DEF MapTold
      <4>1. /\ Len(Told') = Len(Told) + 1 /\ Told'[Len(Told) + 1] = e
            /\ \A i \in 1..Len(Told) : Told'[i] = Told[i]
        BY <1>u, <3>2
      <4>2. CASE b = a
        BY <1>u, <2>3, <4>1, <4>2
      <4>3. CASE b # a
        <5>1. e.addr = a /\ connections'[b] = connections[b]
          BY <2>3, <4>3 DEF PeerConnected
        <5>2. \A i \in 1..Len(Told') : i \in 1..Len(Told) \/ i = Len(Told) + 1
          BY <1>u, <4>1
        <5>3. CASE connections[b].known
          <6>1. PICK i \in 1..Len(Told) : Told[i] = PeerConnected(b)
            BY <1>t, <5>3 DEF MapTold
          <6>2. i \in 1..Len(Told') /\ Told'[i] = PeerConnected(b)
            BY <1>u, <4>1, <6>1
          <6>3. QED
            BY <5>1, <5>3, <6>2
        <5>4. CASE ~connections[b].known
          <6>1. \A i \in 1..Len(Told) : Told[i].addr # b
            BY <1>t, <5>4 DEF MapTold
          <6>2. QED
            BY <4>1, <4>3, <5>1, <5>2, <5>4, <6>1
        <5>5. QED
          BY <5>3, <5>4
      <4>4. QED
        BY <4>2, <4>3
    <3>7. QED
      BY <3>3, <3>5, <3>6
  <2>6. QED
    BY <2>4, <2>5
<1>6. CASE Forward
  <2> DEFINE e == PacketReceived(buf)
             a == buf.from
  <2>1. buf \in Datagram /\ a \in Addresses
    BY <1>t, <1>6 DEF Forward, RouterTypeOK, Datagram
  <2>2. /\ events' = Emitted(<<e>>) /\ e \in RouterEvent
        /\ UNCHANGED <<phase, listener, connections, heard, arrived, sentTo>>
        /\ buf' = NoDatagram /\ phase = "running" /\ connections[a].known
    BY <1>t, <1>6, <2>1, EventTypes DEF Forward, CountedFirst
  <2>3. /\ events' \in Seq(RouterEvent)
        /\ listener = "open" => Told' = Told \o <<e>>
        /\ listener # "open" => events' = <<>> /\ Told' = Told
    BY <1>t, <2>2, Tells
  <2>4. RouterTypeOK' /\ CountedFirst' /\ NobodyYet'
    BY <1>t, <2>2, <2>3 DEF RouterTypeOK, CountedFirst, NobodyYet
  <2>5. CASE listener # "open"
    BY <1>t, <2>2, <2>3, <2>4, <2>5 DEF ConnectedFirst, MapTold
  <2>6. CASE listener = "open"
    <3>1. e.kind = "PacketReceived" /\ e.addr = a
      BY DEF PacketReceived
    <3>2. PICK n \in 1..Len(Told) : Told[n] = PeerConnected(a)
      BY <1>t, <2>1, <2>2, <2>6 DEF MapTold
    <3>3. WellTold(Told \o <<e>>)
      BY <1>t, <1>u, <2>2, <3>1, <3>2, ToldOneMore DEF ConnectedFirst
    <3>4. /\ Len(Told') = Len(Told) + 1 /\ Told'[Len(Told) + 1] = e
          /\ \A i \in 1..Len(Told) : Told'[i] = Told[i]
      BY <1>u, <2>3, <2>6
    <3>5. MapTold'
      <4> SUFFICES ASSUME NEW b \in Addresses
                   PROVE  IF connections[b].known
                          THEN \E i \in 1..Len(Told') : Told'[i] = PeerConnected(b)
                          ELSE \A i \in 1..Len(Told') : Told'[i].addr # b
        BY <2>2 DEF MapTold
      <4>1. CASE connections[b].known
        <5>1. PICK i \in 1..Len(Told) : Told[i] = PeerConnected(b)
          BY <1>t, <2>6, <4>1 DEF MapTold
        <5>2. i \in 1..Len(Told') /\ Told'[i] = PeerConnected(b)
          BY <1>u, <3>4, <5>1
        <5>3. QED
          BY <4>1, <5>2
      <4>2. CASE ~connections[b].known
        <5>1. b # a /\ \A i \in 1..Len(Told) : Told[i].addr # b
          BY <1>t, <2>2, <2>6, <4>2 DEF MapTold
        <5>2. \A i \in 1..Len(Told') : i \in 1..Len(Told) \/ i = Len(Told) + 1
          BY <1>u, <3>4
        <5>3. QED
          BY <3>1, <3>4, <4>2, <5>1, <5>2
      <4>3. QED
        BY <4>1, <4>2
    <3>6. ConnectedFirst'
      BY <2>3, <2>6, <3>3 DEF ConnectedFirst
    <3>7. QED
      BY <2>4, <3>5, <3>6
  <2>7. QED
    BY <2>5, <2>6
<1>7. CASE Hear
  <2>1. /\ heard' \in Seq(RouterEvent) /\ events' \in Seq(RouterEvent)
        /\ heard' \o events' = heard \o events
    BY <1>t, <1>7, HeadMoves DEF Hear, RouterTypeOK
  <2>2. Told' = Told
    BY <2>1 DEF Told
  <2>3. UNCHANGED <<phase, listener, buf, connections, arrived, sentTo>>
        /\ listener = "open" /\ phase # "new"
    BY <1>t, <1>7 DEF Hear, RouterTypeOK
  <2>4. QED
    BY <1>t, <2>1, <2>2, <2>3
       DEF RouterTypeOK, CountedFirst, MapTold, NobodyYet, ConnectedFirst
<1>8. CASE DropReceiver
  <2>1. /\ listener' = "dropped" /\ events' = <<>>
        /\ UNCHANGED <<phase, buf, connections, heard, arrived, sentTo>>
    BY <1>8 DEF DropReceiver
  <2>2. Told' = heard
    BY <1>t, <2>1 DEF RouterTypeOK, Told
  <2>3. ConnectedFirst'
    BY <1>t, <2>2, ToldLess DEF ConnectedFirst, RouterTypeOK, Told
  <2>4. QED
    BY <1>t, <2>1, <2>3 DEF RouterTypeOK, CountedFirst, MapTold, NobodyYet
<1>9. QED
  BY <1>1, <1>2, <1>3, <1>4, <1>5, <1>6, <1>7, <1>8 DEF RouterNext

-----------------------------------------------------------------------------
LEMMA RouterInvariant == RouterSpec => []RouterInv
BY RouterInvInit, RouterInvNext, PTL DEF RouterSpec

\* The variables keep their types, and nothing waits in a channel that nobody
\* listens to (PacketRouter, async_io.rs).
THEOREM RouterTypeCorrect == RouterSpec => []RouterTypeOK
<1>1. RouterInv => RouterTypeOK
  BY DEF RouterInv
<1>2. QED
  BY RouterInvariant, <1>1, PTL

\* Whoever listens hears of an address once and before its first datagram, for
\* any number of addresses and datagrams (start_router, async_io.rs).
THEOREM ConnectionsComeFirst == RouterSpec => []ConnectedFirst
<1>1. RouterInv => ConnectedFirst
  BY DEF RouterInv
<1>2. QED
  BY RouterInvariant, <1>1, PTL

-----------------------------------------------------------------------------
(* The counters and the datagrams that were told of.                       *)

\* The counter of an address goes up with a datagram of it and no other.
LEMMA OneMore ==
    ASSUME NEW s \in Seq(Datagram), NEW d \in Datagram, NEW a
    PROVE  /\ Cardinality(From(s, a)) \in Nat
           /\ d.from = a => Cardinality(From(Append(s, d), a)) = Cardinality(From(s, a)) + 1
           /\ d.from # a => Cardinality(From(Append(s, d), a)) = Cardinality(From(s, a))
<1> DEFINE n == Len(s)
           m == Append(s, d)
<1>1. /\ n \in Nat /\ DOMAIN s = 1..n /\ DOMAIN m = 1..(n + 1) /\ m[n + 1] = d
      /\ \A i \in 1..n : m[i] = s[i]
  BY LenProperties, AppendProperties
<1> HIDE DEF n, m
<1>2. IsFiniteSet(From(s, a)) /\ Cardinality(From(s, a)) \in Nat
  <2>1. IsFiniteSet(1..n)
    BY <1>1, FS_Interval
  <2>2. From(s, a) \in SUBSET (1..n)
    BY <1>1 DEF From
  <2>3. QED
    BY <2>1, <2>2, FS_Subset, FS_CardinalityType
<1>3. From(m, a) = IF d.from = a THEN From(s, a) \cup {n + 1} ELSE From(s, a)
  <2>1. 1..(n + 1) = (1..n) \cup {n + 1} /\ n + 1 \notin 1..n
    BY <1>1
  <2>2. QED
    BY <1>1, <2>1 DEF From
<1>4. n + 1 \notin From(s, a)
  BY <1>1 DEF From
<1>5. Cardinality(From(s, a) \cup {n + 1}) = Cardinality(From(s, a)) + 1
  BY <1>2, <1>4, FS_AddElement
<1>6. QED
  BY <1>2, <1>3, <1>5 DEF m

\* A datagram that is told of is a packet, an address is not.
LEMMA PacketsAre ==
    /\ \A d \in Datagram : PacketReceived(d) \in Packets
    /\ \A a \in Addresses : PeerConnected(a) \notin Packets
<1>1. \A d \in Datagram : PacketReceived(d).kind = "PacketReceived"
  BY DEF PacketReceived
<1>2. \A a \in Addresses : PeerConnected(a).kind = "PeerConnected"
  BY DEF PeerConnected
<1>3. QED
  BY <1>1, <1>2, EventTypes DEF Packets

LEMMA CountInvInit == RouterInit => CountInv
<1> SUFFICES ASSUME RouterInit PROVE CountInv
  OBVIOUS
<1>1. arrived = <<>> /\ buf = NoDatagram /\ listener = "none" /\ DOMAIN arrived = {}
  BY DEF RouterInit
<1>2. \A a \in Addresses :
         /\ connections[a].sent = 0 /\ connections[a].received = 0
         /\ From(arrived, a) = {}
  BY <1>1 DEF RouterInit, Unknown, From
<1>3. QED
  BY <1>1, <1>2, FS_EmptySet DEF CountInv, LastIsBuffered, EventsTellCounts

\* What Route counts, Forward tells of, and nothing else counts or tells.
LEMMA CountInvNext ==
    ASSUME RouterInv, RouterInv', CountInv, [RouterNext]_routerVars
    PROVE  CountInv'
<1> DEFINE Counts == \A a \in Addresses : connections[a].received = Cardinality(From(arrived, a))
           Tells1 == listener = "open" =>
                        Only(Told, Packets) = [i \in 1..Forwarded |-> PacketReceived(arrived[i])]
<1>t. RouterTypeOK /\ NobodyYet /\ Told \in Seq(RouterEvent)
  BY ToldType DEF RouterInv
<1>l. LastIsBuffered /\ Counts /\ Tells1
  BY DEF CountInv, EventsTellCounts
<1>s. \A a \in Addresses : connections'[a].sent = 0
  BY DEF RouterInv, NobodyYet
<1> SUFFICES LastIsBuffered' /\ Counts' /\ Tells1'
  BY <1>s DEF CountInv, EventsTellCounts
<1>1. CASE UNCHANGED <<connections, arrived, buf, Told, listener>>
  BY <1>l, <1>1 DEF LastIsBuffered, Forwarded
<1>2. CASE TakeEventReceiver
  <2>1. /\ Told' = <<>> /\ arrived = <<>> /\ buf = NoDatagram
        /\ UNCHANGED <<connections, arrived, buf>>
    BY <1>t, <1>2 DEF TakeEventReceiver, RouterTypeOK, NobodyYet, Told
  <2>2. Only(Told', Packets) = <<>>
    BY <2>1, OnlyEmpty
  <2>3. Forwarded' = 0
    BY <2>1 DEF Forwarded
  <2>4. [i \in 1..0 |-> PacketReceived(arrived'[i])] = <<>>
    OBVIOUS
  <2>5. Tells1'
    BY <2>2, <2>3, <2>4
  <2>6. QED
    BY <1>l, <2>1, <2>5 DEF LastIsBuffered
<1>3. ASSUME NEW a \in Addresses, SendPacket(a)
      PROVE  UNCHANGED <<connections, arrived, buf, Told, listener>>
  BY <1>t, <1>3 DEF SendPacket, NobodyYet, Told
<1>4. ASSUME StartRouter \/ RouterFails
      PROVE  UNCHANGED <<connections, arrived, buf, Told, listener>>
  BY <1>4 DEF StartRouter, RouterFails, Told
<1>5. ASSUME NEW d \in Datagram, Route(d) PROVE LastIsBuffered' /\ Counts' /\ Tells1'
  <2> DEFINE n == Len(arrived)
  <2>1. /\ arrived \in Seq(Datagram) /\ arrived' = Append(arrived, d)
        /\ buf = NoDatagram /\ buf' = d /\ UNCHANGED <<listener, heard>>
        /\ d.from \in Addresses /\ d # NoDatagram
    BY <1>t, <1>5, NoDatagramIsNone DEF Route, RouterTypeOK, Datagram
  <2>2. /\ Len(arrived') = n + 1 /\ arrived'[n + 1] = d /\ n \in Nat /\ arrived' # <<>>
        /\ \A i \in 1..n : arrived'[i] = arrived[i]
    BY <2>1, AppendProperties, LenProperties
  <2>3. LastIsBuffered'
    BY <2>1, <2>2 DEF LastIsBuffered
  <2>4. Counts'
    <3> SUFFICES ASSUME NEW a \in Addresses
                 PROVE  connections'[a].received = Cardinality(From(arrived', a))
      OBVIOUS
    <3>1. /\ Cardinality(From(arrived, a)) \in Nat
          /\ d.from = a => Cardinality(From(arrived', a)) = Cardinality(From(arrived, a)) + 1
          /\ d.from # a => Cardinality(From(arrived', a)) = Cardinality(From(arrived, a))
      BY <2>1, OneMore
    <3>2. connections[a].received = Cardinality(From(arrived, a))
      BY <1>l
    <3>3. /\ connections' = [connections EXCEPT ![d.from] = Counted(connections[d.from])]
          /\ connections \in [Addresses -> [known : BOOLEAN, sent : Nat, received : Nat]]
      BY <1>t, <1>5 DEF Route, RouterTypeOK
    <3>4. connections'[a].received = IF d.from = a THEN connections[a].received + 1
                                     ELSE connections[a].received
      BY <2>1, <3>3 DEF Counted
    <3>5. QED
      BY <3>1, <3>2, <3>4
  <2>5. ASSUME listener = "open"
        PROVE  Only(Told', Packets) = Only(Told, Packets)
    <3> DEFINE e == PeerConnected(d.from)
    <3>1. e \in RouterEvent /\ e \notin Packets
      BY <2>1, EventTypes, PacketsAre
    <3>2. CASE connections[d.from].known
      BY <1>5, <2>1, <3>2 DEF Route, Told
    <3>3. CASE ~connections[d.from].known
      <4>1. events' = Emitted(<<e>>)
        BY <1>5, <3>3 DEF Route
      <4>2. Told' = Told \o <<e>>
        BY <1>t, <2>1, <2>5, <3>1, <4>1, Tells
      <4>3. Told' = Append(Told, e)
        BY <1>t, <3>1, <4>2, AppendIsConcat
      <4> HIDE DEF e
      <4>4. QED
        BY <1>t, <3>1, <4>3, OnlyAppend
    <3>4. QED
      BY <3>2, <3>3
  <2>6. Forwarded = n /\ Forwarded' = n
    BY <2>1, <2>2 DEF Forwarded
  <2>7. [i \in 1..n |-> PacketReceived(arrived'[i])] = [i \in 1..n |-> PacketReceived(arrived[i])]
    BY <2>2
  <2>8. Tells1'
    BY <1>l, <2>1, <2>5, <2>6, <2>7
  <2>9. QED
    BY <2>3, <2>4, <2>8
<1>6. CASE Forward
  <2> DEFINE n == Len(arrived)
             e == PacketReceived(buf)
             F == [i \in 1..(n - 1) |-> PacketReceived(arrived[i])]
             G == [i \in 1..n |-> PacketReceived(arrived[i])]
  <2>1. /\ arrived \in Seq(Datagram) /\ buf \in Datagram /\ buf # NoDatagram
        /\ buf' = NoDatagram /\ UNCHANGED <<listener, heard, connections, arrived>>
        /\ events' = Emitted(<<e>>) /\ e \in RouterEvent /\ e \in Packets
    BY <1>t, <1>6, EventTypes, PacketsAre DEF Forward, RouterTypeOK
  <2>2. n \in Nat /\ n # 0 /\ buf = arrived[n]
    BY <1>l, <2>1, EmptySeq, LenProperties DEF LastIsBuffered
  <2>3. LastIsBuffered' /\ Counts'
    BY <1>l, <2>1 DEF LastIsBuffered
  <2>4. Forwarded = n - 1 /\ Forwarded' = n
    BY <2>1 DEF Forwarded
  <2>5. ASSUME listener = "open" PROVE Only(Told', Packets) = G
    <3>1. Only(Told, Packets) = F
      BY <1>l, <2>4, <2>5
    <3>2. Told' = Append(Told, e)
      BY <1>t, <2>1, <2>5, Tells, AppendIsConcat
    <3>3. G = Append(F, e)
      <4>1. \A i \in 1..n : arrived[i] \in Datagram
        BY <2>1, ElementOfSeq
      <4>2. F \in Seq(RouterEvent) /\ Len(F) = n - 1
        BY <2>2, <4>1, EventTypes
      <4>3. G \in Seq(RouterEvent) /\ Len(G) = n
        BY <2>2, <4>1, EventTypes
      <4>4. /\ Append(F, e) \in Seq(RouterEvent) /\ Len(Append(F, e)) = n
            /\ Append(F, e)[n] = e /\ \A i \in 1..(n - 1) : Append(F, e)[i] = F[i]
        BY <2>1, <2>2, <4>2, AppendProperties
      <4>5. ASSUME NEW i \in 1..n PROVE G[i] = Append(F, e)[i]
        <5>1. CASE i = n
          BY <2>2, <4>4, <5>1
        <5>2. CASE i \in 1..(n - 1)
          BY <4>4, <5>2
        <5>3. QED
          BY <2>2, <5>1, <5>2
      <4> HIDE DEF F, G, e
      <4>6. QED
        BY <4>3, <4>4, <4>5, SeqEqual
    <3> HIDE DEF F, G, e
    <3>4. QED
      BY <1>t, <2>1, <3>1, <3>2, <3>3, OnlyAppend
  <2>6. [i \in 1..Forwarded' |-> PacketReceived(arrived'[i])] = G
    BY <2>1, <2>4
  <2>7. Tells1'
    BY <2>1, <2>5, <2>6
  <2>8. QED
    BY <2>3, <2>7
<1>7. ASSUME Hear PROVE UNCHANGED <<connections, arrived, buf, Told, listener>>
  BY <1>t, <1>7, HeadMoves DEF Hear, RouterTypeOK, Told
<1>8. CASE DropReceiver
  BY <1>l, <1>8 DEF DropReceiver, LastIsBuffered
<1>9. ASSUME UNCHANGED routerVars
      PROVE  UNCHANGED <<connections, arrived, buf, Told, listener>>
  BY <1>9 DEF routerVars, Told
<1>10. QED
  BY <1>1, <1>2, <1>3, <1>4, <1>5, <1>6, <1>7, <1>8, <1>9 DEF RouterNext

\* A receiver that is kept is told of every datagram in the order of arrival, and
\* the counter of each address is the number of its datagrams, for any number of
\* both (start_router, async_io.rs).
THEOREM CountersAgree == RouterSpec => []EventsTellCounts
<1>1. RouterInit => RouterInv /\ CountInv
  BY RouterInvInit, CountInvInit
<1>2. RouterInv /\ CountInv /\ [RouterNext]_routerVars => RouterInv' /\ CountInv'
  BY RouterInvNext, CountInvNext
<1>3. CountInv => EventsTellCounts
  BY DEF CountInv
<1>4. QED
  BY <1>1, <1>2, <1>3, PTL DEF RouterSpec

-----------------------------------------------------------------------------
(* The pool.                                                               *)

\* The oldest entries are in front.
LEMMA OldestStayFirst ==
    ASSUME NEW s \in Seq(Handle), NEW S,
           \A i, j \in 1..Len(s) : i < j => s[i].age >= s[j].age
    PROVE  \A i, j \in 1..Len(Only(s, S)) :
              i < j => Only(s, S)[i].age >= Only(s, S)[j].age
<1> DEFINE R == {x \in Handle \X Handle : x[1].age >= x[2].age}
           o == Only(s, S)
<1>1. /\ \A i \in 1..Len(s) : s[i] \in Handle
      /\ \A i \in 1..Len(o) : o[i] \in Handle
  BY OnlyType, ElementOfSeq
<1> HIDE DEF o
<1>2. \A x, y \in Handle : <<x, y>> \in R <=> x.age >= y.age
  OBVIOUS
<1> HIDE DEF R
<1>3. \A i, j \in 1..Len(s) : i < j => <<s[i], s[j]>> \in R
  BY <1>1, <1>2
<1>4. \A i, j \in 1..Len(o) : i < j => <<o[i], o[j]>> \in R
  BY <1>3, OnlyOrdered DEF o
<1>5. QED
  BY <1>1, <1>2, <1>4 DEF o

LEMMA PoolTypeInit == PoolInit => PoolTypeOK
<1> SUFFICES ASSUME PoolInit PROVE PoolTypeOK
  OBVIOUS
<1>1. pool = <<>> /\ Len(pool) = 0 /\ pool \in Seq(Handle)
  BY EmptySeq DEF PoolInit
<1>2. Len(pool) <= MaxConnections
  BY <1>1, PoolAssumption
<1>3. QED
  BY <1>1, <1>2 DEF PoolInit, PoolTypeOK

\* What add_connection() finds room in: the entries it leaves are in their order,
\* and no young one is missing.
LEMMA RoomIsMade ==
    ASSUME PoolTypeOK, NEW room,
           room = IF Len(pool) >= MaxConnections THEN Only(pool, Young) ELSE pool
    PROVE  /\ room \in Seq(Handle) /\ Len(room) \in Nat /\ Len(room) <= Len(pool)
           /\ \A i, j \in 1..Len(room) : i < j => room[i].age >= room[j].age
           /\ \A p \in PeerIds : Only(room, Young \cap Of(p)) = YoungOf(p)
<1>1. /\ pool \in Seq(Handle) /\ Len(pool) \in Nat
      /\ \A i, j \in 1..Len(pool) : i < j => pool[i].age >= pool[j].age
  BY LenProperties DEF PoolTypeOK
<1>2. CASE room = pool
  BY <1>1, <1>2 DEF YoungOf
<1>3. CASE room = Only(pool, Young)
  <2>1. room \in Seq(Handle) /\ Len(room) <= Len(pool) /\ Len(room) \in Nat
    <3>1. room \in Seq(Handle) /\ Len(room) <= Len(pool)
      BY <1>1, <1>3, OnlyType, Zenon
    <3>2. QED
      BY <3>1, LenProperties
  <2>2. \A i, j \in 1..Len(room) : i < j => room[i].age >= room[j].age
    BY <1>1, <1>3, OldestStayFirst
  <2>3. ASSUME NEW p \in PeerIds PROVE Only(room, Young \cap Of(p)) = YoungOf(p)
    <3> DEFINE A == Young \cap Of(p)
    <3>1. Handle \cap A \subseteq Young
      OBVIOUS
    <3> HIDE DEF A
    <3>2. Only(Only(pool, Young), A) = Only(pool, A)
      BY <1>1, <3>1, OnlyTwice
    <3>3. QED
      BY <1>3, <3>2 DEF YoungOf, A
  <2>4. QED
    BY <2>1, <2>2, <2>3
<1>4. QED
  BY <1>2, <1>3

\* What add_connection() leaves: the room, or the room and a new entry behind it.
LEMMA Added ==
    ASSUME NEW p \in PeerIds, NEW e \in Endpoints, AddConnection(p, e)
    PROVE  \E room :
              /\ room = IF Len(pool) >= MaxConnections THEN Only(pool, Young) ELSE pool
              /\ \/ pool' = room /\ found' = Full
                 \/ /\ ~(Len(room) >= MaxConnections)
                    /\ pool' = Append(room, [peerId |-> p, endpoint |-> e, age |-> 0])
                    /\ found' = Nothing
BY DEF AddConnection

\* A longer time ago is not overtaken by a shorter one.
LEMMA OlderStaysOlder ==
    ASSUME NEW c \in Handle, NEW d \in Handle
    PROVE  /\ Grow(c) \in Handle
           /\ c.age >= d.age => Grow(c).age >= Grow(d).age
<1>1. MaxAge \in Nat
  BY PoolAssumption
<1>2. \A h \in Handle :
         /\ Grow(h) \in Handle
         /\ Grow(h).age = IF h.age < MaxAge THEN h.age + 1 ELSE h.age
  BY <1>1 DEF Handle, Grow
<1>3. c.age \in 0..MaxAge /\ d.age \in 0..MaxAge
  BY DEF Handle
<1>4. QED
  BY <1>1, <1>2, <1>3

LEMMA PoolTypeNext == ASSUME PoolTypeOK, [PoolNext]_poolVars PROVE PoolTypeOK'
<1>1. /\ pool \in Seq(Handle) /\ Len(pool) \in Nat /\ Len(pool) <= MaxConnections
      /\ found \in Handle \cup {Nothing, Full} /\ MaxConnections \in Nat
      /\ \A i, j \in 1..Len(pool) : i < j => pool[i].age >= pool[j].age
  BY PoolAssumption, LenProperties DEF PoolTypeOK
<1>2. ASSUME NEW p \in PeerIds, NEW e \in Endpoints, AddConnection(p, e)
      PROVE  PoolTypeOK'
  <2>1. PICK room :
           /\ room = IF Len(pool) >= MaxConnections THEN Only(pool, Young) ELSE pool
           /\ \/ pool' = room /\ found' = Full
              \/ /\ ~(Len(room) >= MaxConnections)
                 /\ pool' = Append(room, [peerId |-> p, endpoint |-> e, age |-> 0])
                 /\ found' = Nothing
    BY <1>2, Added
  <2>2. /\ room \in Seq(Handle) /\ Len(room) \in Nat /\ Len(room) <= Len(pool)
        /\ \A i, j \in 1..Len(room) : i < j => room[i].age >= room[j].age
    BY <2>1, RoomIsMade
  <2>3. CASE pool' = room /\ found' = Full
    BY <1>1, <2>2, <2>3 DEF PoolTypeOK
  <2>4. CASE /\ ~(Len(room) >= MaxConnections) /\ found' = Nothing
             /\ pool' = Append(room, [peerId |-> p, endpoint |-> e, age |-> 0])
    <3> DEFINE new == [peerId |-> p, endpoint |-> e, age |-> 0]
    <3>1. new \in Handle /\ new.age = 0
      BY PoolAssumption DEF Handle
    <3> HIDE DEF new
    <3>2. /\ pool' \in Seq(Handle) /\ Len(pool') = Len(room) + 1
          /\ pool'[Len(room) + 1] = new
          /\ \A i \in 1..Len(room) : pool'[i] = room[i]
      BY <2>2, <2>4, <3>1, AppendProperties DEF new
    <3>3. ASSUME NEW i \in 1..Len(pool'), NEW j \in 1..Len(pool'), i < j
          PROVE  pool'[i].age >= pool'[j].age
      <4>1. i \in 1..Len(room) /\ pool'[i] = room[i]
        BY <2>2, <3>2, <3>3
      <4>2. CASE j \in 1..Len(room)
        BY <2>2, <3>2, <3>3, <4>1, <4>2
      <4>3. CASE j = Len(room) + 1
        <5>1. room[i] \in Handle
          BY <2>2, <4>1, ElementOfSeq
        <5>2. room[i].age >= 0
          BY <5>1, PoolAssumption DEF Handle
        <5>3. QED
          BY <3>1, <3>2, <4>1, <4>3, <5>2
      <4>4. QED
        BY <2>2, <3>2, <4>2, <4>3
    <3>4. QED
      BY <1>1, <2>2, <2>4, <3>2, <3>3 DEF PoolTypeOK
  <2>5. QED
    BY <2>1, <2>3, <2>4
<1>3. ASSUME NEW p \in PeerIds, RemoveConnection(p) PROVE PoolTypeOK'
  <2> DEFINE S == Handle \ Of(p)
  <2>1. pool' = Only(pool, S) /\ found' = Nothing
    BY <1>3 DEF RemoveConnection
  <2> HIDE DEF S
  <2>2. pool' \in Seq(Handle) /\ Len(pool') <= Len(pool) /\ Len(pool') \in Nat
    BY <1>1, <2>1, OnlyType, LenProperties
  <2>3. \A i, j \in 1..Len(pool') : i < j => pool'[i].age >= pool'[j].age
    BY <1>1, <2>1, OldestStayFirst
  <2>4. QED
    BY <1>1, <2>1, <2>2, <2>3 DEF PoolTypeOK
<1>4. ASSUME NEW p \in PeerIds, GetConnection(p) PROVE PoolTypeOK'
  <2> DEFINE own == Only(pool, Of(p))
  <2>1. own \in Seq(Handle)
    BY <1>1, OnlyType
  <2>2. UNCHANGED pool /\ found' = IF own = <<>> THEN Nothing ELSE Head(own)
    BY <1>4 DEF GetConnection
  <2> HIDE DEF own
  <2>3. own # <<>> => Head(own) \in Handle
    BY <2>1, HeadTailProperties
  <2>4. QED
    BY <1>1, <2>2, <2>3 DEF PoolTypeOK
<1>5. CASE TimePasses
  <2>1. pool' = [i \in 1..Len(pool) |-> Grow(pool[i])] /\ found' = Nothing
    BY <1>5 DEF TimePasses
  <2>2. \A i \in 1..Len(pool) : pool[i] \in Handle
    BY <1>1, ElementOfSeq
  <2>3. pool' \in Seq(Handle) /\ Len(pool') = Len(pool)
    BY <1>1, <2>1, <2>2, OlderStaysOlder
  <2>4. ASSUME NEW i \in 1..Len(pool), NEW j \in 1..Len(pool), i < j
        PROVE  pool'[i].age >= pool'[j].age
    <3>1. pool'[i] = Grow(pool[i]) /\ pool'[j] = Grow(pool[j])
      BY <2>1
    <3>2. pool[i].age >= pool[j].age
      BY <1>1, <2>4
    <3>3. QED
      BY <2>2, <3>1, <3>2, OlderStaysOlder
  <2>5. QED
    BY <1>1, <2>1, <2>3, <2>4 DEF PoolTypeOK
<1>6. CASE UNCHANGED poolVars
  BY <1>6 DEF PoolTypeOK, poolVars
<1>7. QED
  BY <1>2, <1>3, <1>4, <1>5, <1>6 DEF PoolNext

\* The pool never holds more than its limit, and its oldest entries are in front,
\* so that get_connection() finds the oldest of a peer; for every limit and age
\* (ConnectionPool, async_io.rs).
THEOREM PoolTypeCorrect == PoolSpec => []PoolTypeOK
BY PoolTypeInit, PoolTypeNext, PTL DEF PoolSpec

\* No step but a removal of the peer, and the time, makes the young entries of a
\* peer fewer.
LEMMA YoungStep ==
    ASSUME PoolTypeOK, [PoolNext]_poolVars, NEW p \in PeerIds
    PROVE  \/ Len(YoungOf(p)') >= Len(YoungOf(p))
           \/ RemoveConnection(p) \/ TimePasses
<1> DEFINE A == Young \cap Of(p)
<1>1. pool \in Seq(Handle) /\ YoungOf(p) = Only(pool, A)
  BY DEF PoolTypeOK, YoungOf
<1>2. YoungOf(p) \in Seq(Handle) /\ Len(YoungOf(p)) \in Nat
  <2> HIDE DEF A
  <2>1. QED
    BY <1>1, OnlyType, LenProperties
<1>3. YoungOf(p)' = Only(pool', A)
  BY DEF YoungOf
<1> HIDE DEF A
<1>4. ASSUME NEW q \in PeerIds, NEW e \in Endpoints, AddConnection(q, e)
      PROVE  Len(YoungOf(p)') >= Len(YoungOf(p))
  <2> DEFINE new == [peerId |-> q, endpoint |-> e, age |-> 0]
  <2>1. PICK room :
           /\ room = IF Len(pool) >= MaxConnections THEN Only(pool, Young) ELSE pool
           /\ \/ pool' = room /\ found' = Full
              \/ /\ ~(Len(room) >= MaxConnections)
                 /\ pool' = Append(room, new)
                 /\ found' = Nothing
    BY <1>4, Added
  <2>2. room \in Seq(Handle) /\ Only(room, A) = YoungOf(p)
    BY <2>1, RoomIsMade DEF A
  <2>3. CASE pool' = room
    BY <1>2, <1>3, <2>2, <2>3
  <2>4. CASE pool' = Append(room, new)
    <3>1. new \in Handle
      BY PoolAssumption DEF Handle
    <3> HIDE DEF new
    <3>2. Only(pool', A) = IF new \in A THEN Append(YoungOf(p), new) ELSE YoungOf(p)
      BY <2>2, <2>4, <3>1, OnlyAppend
    <3>3. Len(Append(YoungOf(p), new)) = Len(YoungOf(p)) + 1
      BY <1>2, <3>1, AppendProperties
    <3>4. QED
      BY <1>2, <1>3, <3>2, <3>3
  <2>5. QED
    BY <2>1, <2>3, <2>4
<1>5. ASSUME NEW q \in PeerIds, RemoveConnection(q), q # p
      PROVE  Len(YoungOf(p)') >= Len(YoungOf(p))
  <2> DEFINE B == Handle \ Of(q)
  <2>1. pool' = Only(pool, B)
    BY <1>5 DEF RemoveConnection
  <2>2. Handle \cap A \subseteq B
    BY <1>5 DEF A, Of
  <2> HIDE DEF B
  <2>3. Only(Only(pool, B), A) = Only(pool, A)
    BY <1>1, <2>2, OnlyTwice
  <2>4. QED
    BY <1>1, <1>2, <1>3, <2>1, <2>3
<1>6. ASSUME UNCHANGED pool PROVE Len(YoungOf(p)') >= Len(YoungOf(p))
  BY <1>1, <1>2, <1>3, <1>6
<1>7. ASSUME NEW q \in PeerIds, GetConnection(q) PROVE UNCHANGED pool
  BY <1>7 DEF GetConnection
<1>8. ASSUME UNCHANGED poolVars PROVE UNCHANGED pool
  BY <1>8 DEF poolVars
<1>9. QED
  BY <1>4, <1>5, <1>6, <1>7, <1>8 DEF PoolNext

\* An entry younger than the 300 seconds leaves the pool by a removal of its peer
\* only: no call of add_connection() takes it, for any limit and any calls
\* (ConnectionPool, async_io.rs).
THEOREM YoungAreKept == PoolSpec => YoungStay
<1>1. ASSUME PoolTypeOK, [PoolNext]_poolVars
      PROVE  [\A p \in PeerIds : Len(YoungOf(p)') < Len(YoungOf(p)) =>
                 RemoveConnection(p) \/ TimePasses]_poolVars
  <2> SUFFICES ASSUME NEW p \in PeerIds, Len(YoungOf(p)') < Len(YoungOf(p))
               PROVE  RemoveConnection(p) \/ TimePasses
    OBVIOUS
  <2>1. \A s \in Seq(Handle) : Len(Only(s, Young \cap Of(p))) \in Nat
    BY OnlyType, LenProperties
  <2>2. Len(YoungOf(p)') \in Nat /\ Len(YoungOf(p)) \in Nat
    BY <1>1, <2>1, PoolTypeNext DEF PoolTypeOK, YoungOf
  <2>3. QED
    BY <1>1, <2>2, YoungStep
<1>2. QED
  BY <1>1, PoolTypeCorrect, PTL DEF PoolSpec, YoungStay

-----------------------------------------------------------------------------
\* What is proved of either alone holds of the process with both: a step
\* of one leaves the other as it is (async_io.rs).
THEOREM BothAtOnce == AsyncSpec => RouterSpec /\ PoolSpec
<1>1. AsyncInit => RouterInit /\ PoolInit
  BY DEF AsyncInit
<1>2. [AsyncNext]_asyncVars => [RouterNext]_routerVars /\ [PoolNext]_poolVars
  BY DEF AsyncNext, asyncVars
<1>3. QED
  BY <1>1, <1>2, PTL DEF AsyncSpec, RouterSpec, PoolSpec
=============================================================================
