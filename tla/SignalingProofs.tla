-------------------------- MODULE SignalingProofs --------------------------
(***************************************************************************)
(* Theorems about Signaling, for any clients, connections and bounds, with *)
(* reads that stop inside messages or do not.                              *)
(***************************************************************************)
EXTENDS Signaling, SequenceTheorems, FiniteSetTheorems, TLAPS

-----------------------------------------------------------------------------
(* Messages on their way.                                                  *)

\* A read takes the first halves and leaves the others in their order.
LEMMA ReadPart ==
    ASSUME NEW q \in Seq(Half), NEW n \in 1 .. Len(q)
    PROVE  /\ Rest(q, n) \in Seq(Half) /\ Len(Rest(q, n)) = Len(q) - n
           /\ \A k \in 1 .. Len(q) - n : Rest(q, n)[k] = q[n + k]
           /\ Len(First(q, n)) = n
           /\ \A k \in 1 .. n : First(q, n)[k] = q[k]
<1>1. Len(q) \in Nat /\ \A k \in 1 .. Len(q) : q[k] \in Half
  BY LenProperties, ElementOfSeq
<1>2. Len(First(q, n)) = n /\ \A k \in 1 .. n : First(q, n)[k] = q[k]
  <2>1. \A k \in 1 .. n : q[k] \in Half
    BY <1>1
  <2>2. /\ Len(SubSeq(q, 1, n)) = IF 1 <= n THEN n - 1 + 1 ELSE 0
        /\ \A k \in 1 .. n - 1 + 1 : SubSeq(q, 1, n)[k] = q[1 + k - 1]
    BY <1>1, <2>1, SubSeqProperties
  <2>3. QED
    BY <1>1, <2>2 DEF First
<1>3. /\ Rest(q, n) \in Seq(Half) /\ Len(Rest(q, n)) = Len(q) - n
      /\ \A k \in 1 .. Len(q) - n : Rest(q, n)[k] = q[n + k]
  <2>1. \A k \in n + 1 .. Len(q) : q[k] \in Half
    BY <1>1
  <2>2. /\ SubSeq(q, n + 1, Len(q)) \in Seq(Half)
        /\ Len(SubSeq(q, n + 1, Len(q))) =
              IF n + 1 <= Len(q) THEN Len(q) - (n + 1) + 1 ELSE 0
        /\ \A k \in 1 .. Len(q) - (n + 1) + 1 :
              SubSeq(q, n + 1, Len(q))[k] = q[n + 1 + k - 1]
    BY <1>1, <2>1, SubSeqProperties
  <2>3. QED
    BY <1>1, <2>2 DEF Rest
<1>4. QED
  BY <1>2, <1>3

\* What a read leaves was on its way before, and so was what it takes.
LEMMA ReadMessages ==
    ASSUME NEW q \in Seq(Half), NEW n \in 1 .. Len(q)
    PROVE  /\ Messages(Rest(q, n)) \subseteq Messages(q)
           /\ First(q, n)[1] = q[1] /\ q[1].msg \in Messages(q) /\ q[1].msg \in Message
<1>1. Len(q) \in Nat /\ DOMAIN q = 1 .. Len(q)
  BY LenProperties
<1>2. Rest(q, n) \in Seq(Half) /\ DOMAIN Rest(q, n) = 1 .. Len(q) - n
  BY ReadPart, LenProperties
<1>3. Messages(Rest(q, n)) \subseteq Messages(q)
  <2>1. ASSUME NEW k \in 1 .. Len(q) - n
        PROVE  Rest(q, n)[k].msg \in Messages(q)
    <3>1. Rest(q, n)[k] = q[n + k] /\ n + k \in DOMAIN q
      BY <1>1, ReadPart
    <3>2. QED
      BY <3>1 DEF Messages
  <2>2. QED
    BY <1>2, <2>1 DEF Messages
<1>4. First(q, n)[1] = q[1]
  BY <1>1, ReadPart
<1>5. 1 \in DOMAIN q /\ q[1] \in Half
  BY <1>1, ElementOfSeq
<1>6. QED
  BY <1>3, <1>4, <1>5 DEF Messages, Half

\* A write adds the two halves of its message at the end.
LEMMA WrittenPart ==
    ASSUME NEW q \in Seq(Half), NEW m \in Message
    PROVE  /\ q \o Whole(m) \in Seq(Half) /\ Len(q \o Whole(m)) = Len(q) + 2
           /\ \A k \in 1 .. Len(q) : (q \o Whole(m))[k] = q[k]
           /\ \A k \in {1, 2} : (q \o Whole(m))[Len(q) + k] = [msg |-> m, part |-> k]
           /\ Messages(q \o Whole(m)) = Messages(q) \cup {m}
<1>1. Len(q) \in Nat /\ DOMAIN q = 1 .. Len(q)
  BY LenProperties
<1>2. Whole(m) \in Seq(Half) /\ Len(Whole(m)) = 2
      /\ \A k \in {1, 2} : Whole(m)[k] = [msg |-> m, part |-> k]
  BY DEF Whole, Half
<1>3. /\ q \o Whole(m) \in Seq(Half) /\ Len(q \o Whole(m)) = Len(q) + 2
      /\ \A k \in 1 .. Len(q) + 2 :
            (q \o Whole(m))[k] = IF k <= Len(q) THEN q[k] ELSE Whole(m)[k - Len(q)]
  <2> DEFINE t == Whole(m)
  <2>1. t \in Seq(Half)
    BY <1>2
  <2> HIDE DEF t
  <2>2. /\ q \o t \in Seq(Half) /\ Len(q \o t) = Len(q) + Len(t)
        /\ \A k \in 1 .. Len(q) + Len(t) :
              (q \o t)[k] = IF k <= Len(q) THEN q[k] ELSE t[k - Len(q)]
    BY <2>1, ConcatProperties
  <2>3. Len(t) = 2
    BY <1>2 DEF t
  <2>4. QED
    BY <2>2, <2>3 DEF t
<1> DEFINE w == q \o Whole(m)
<1>4. /\ \A k \in 1 .. Len(q) : w[k] = q[k]
      /\ \A k \in {1, 2} : w[Len(q) + k] = [msg |-> m, part |-> k]
  BY <1>1, <1>2, <1>3
<1>5. DOMAIN w = 1 .. Len(q) + 2
  BY <1>3, LenProperties
<1> HIDE DEF w
<1>6. Messages(w) \subseteq Messages(q) \cup {m}
  <2>1. ASSUME NEW k \in DOMAIN w PROVE w[k].msg \in Messages(q) \cup {m}
    <3>1. CASE k <= Len(q)
      <4>1. k \in DOMAIN q /\ w[k] = q[k]
        BY <1>1, <1>4, <1>5, <3>1
      <4>2. QED
        BY <4>1 DEF Messages
    <3>2. CASE k > Len(q)
      <4>1. k - Len(q) \in {1, 2} /\ Len(q) + (k - Len(q)) = k
        BY <1>1, <1>5, <3>2
      <4>2. w[k].msg = m
        BY <1>4, <4>1
      <4>3. QED
        BY <4>2
    <3>3. QED
      BY <1>1, <1>5, <3>1, <3>2
  <2>2. QED
    BY <2>1 DEF Messages
<1>7. Messages(q) \cup {m} \subseteq Messages(w)
  <2>1. ASSUME NEW k \in DOMAIN q PROVE q[k].msg \in Messages(w)
    <3>1. k \in DOMAIN w /\ w[k] = q[k]
      BY <1>1, <1>4, <1>5
    <3>2. QED
      BY <3>1 DEF Messages
  <2>2. m \in Messages(w)
    <3>1. Len(q) + 1 \in DOMAIN w /\ w[Len(q) + 1].msg = m
      BY <1>1, <1>4, <1>5
    <3>2. QED
      BY <3>1 DEF Messages
  <2>3. QED
    BY <2>1, <2>2 DEF Messages
<1>8. QED
  BY <1>3, <1>4, <1>6, <1>7 DEF w

LEMMA NoMessages == <<>> \in Seq(Half) /\ Messages(<<>>) = {}
<1>1. <<>> \in Seq(Half) /\ DOMAIN <<>> = {}
  BY EmptySeq
<1>2. QED
  BY <1>1 DEF Messages

-----------------------------------------------------------------------------
(* Connections and what is done to them.                                   *)

LEMMA LinkFields ==
    ASSUME NEW l \in Link
    PROVE  /\ l.owner \in Clients
           /\ l.clientOpen \in BOOLEAN /\ l.serverOpen \in BOOLEAN /\ l.reset \in BOOLEAN
           /\ l.toServer \in Seq(Half) /\ l.toClient \in Seq(Half)
BY DEF Link

LEMMA MessagesToSend ==
    /\ [type |-> "RegisterAck"] \in Message
    /\ \A peers \in SUBSET Clients : [type |-> "PeerList", peers |-> peers] \in Message
    /\ \A c \in Clients : [type |-> "Register", id |-> c] \in Message
    /\ \A type \in {"Offer", "Answer", "IceCandidate"}, c, to \in Clients :
          [type |-> type, from |-> c, to |-> to] \in Message
BY DEF Message

LEMMA MessageFields ==
    ASSUME NEW m \in Message
    PROVE  /\ m.type = "Register" => m.id \in Clients
           /\ m.type \in {"Offer", "Answer", "IceCandidate"} => m.from \in Clients
           /\ m.type \in {"Register", "RegisterAck", "PeerList", "Offer", "Answer", "IceCandidate"}
BY DEF Message

\* The server writes.
LEMMA ServerWrites ==
    ASSUME NEW l \in Link, NEW m \in Message
    PROVE  /\ FromServer(l, m) \in Link
           /\ FromServer(l, m).owner = l.owner
           /\ FromServer(l, m).clientOpen = l.clientOpen
           /\ FromServer(l, m).serverOpen = l.serverOpen
           /\ FromServer(l, m).toServer = l.toServer
           /\ Messages(FromServer(l, m).toClient) \subseteq Messages(l.toClient) \cup {m}
           /\ l.clientOpen => FromServer(l, m).reset = l.reset
<1>1. /\ l.toClient \o Whole(m) \in Seq(Half)
      /\ Messages(l.toClient \o Whole(m)) = Messages(l.toClient) \cup {m}
  BY LinkFields, WrittenPart
<1>2. CASE l.clientOpen
  <2>1. FromServer(l, m) = [l EXCEPT !.toClient = l.toClient \o Whole(m)]
    BY <1>2 DEF FromServer
  <2> DEFINE q == l.toClient \o Whole(m)
  <2> HIDE DEF q
  <2>2. FromServer(l, m) = [l EXCEPT !.toClient = q] /\ q \in Seq(Half)
    BY <1>1, <2>1 DEF q
  <2>3. FromServer(l, m).toClient = q
    BY <2>2 DEF Link
  <2>4. QED
    BY <1>1, <1>2, <2>2, <2>3 DEF Link, q
<1>3. CASE ~l.clientOpen
  BY <1>3 DEF FromServer, Link
<1>4. QED
  BY <1>2, <1>3

\* A client writes.
LEMMA ClientWrites ==
    ASSUME NEW l \in Link, NEW m \in Message
    PROVE  /\ FromClient(l, m) \in Link
           /\ FromClient(l, m).owner = l.owner
           /\ FromClient(l, m).clientOpen = l.clientOpen
           /\ FromClient(l, m).serverOpen = l.serverOpen
           /\ FromClient(l, m).toClient = l.toClient
           /\ Messages(FromClient(l, m).toServer) \subseteq Messages(l.toServer) \cup {m}
           /\ l.serverOpen => /\ FromClient(l, m).reset = l.reset
                              /\ FromClient(l, m).toServer = l.toServer \o Whole(m)
<1>1. /\ l.toServer \o Whole(m) \in Seq(Half)
      /\ Messages(l.toServer \o Whole(m)) = Messages(l.toServer) \cup {m}
  BY LinkFields, WrittenPart
<1>2. CASE l.serverOpen
  <2>1. FromClient(l, m) = [l EXCEPT !.toServer = l.toServer \o Whole(m)]
    BY <1>2 DEF FromClient
  <2> DEFINE q == l.toServer \o Whole(m)
  <2> HIDE DEF q
  <2>2. FromClient(l, m) = [l EXCEPT !.toServer = q] /\ q \in Seq(Half)
    BY <1>1, <2>1 DEF q
  <2>3. FromClient(l, m).toServer = q
    BY <2>2 DEF Link
  <2>4. QED
    BY <1>1, <1>2, <2>2, <2>3 DEF Link, q
<1>3. CASE ~l.serverOpen
  BY <1>3 DEF FromClient, Link
<1>4. QED
  BY <1>2, <1>3

\* An end closes, and nothing that was on its way to it remains.
LEMMA EndsClose ==
    ASSUME NEW l \in Link
    PROVE  /\ CloseServer(l) \in Link /\ CloseServer(l).owner = l.owner
           /\ CloseServer(l).clientOpen = l.clientOpen /\ ~CloseServer(l).serverOpen
           /\ CloseServer(l).toClient = l.toClient
           /\ Messages(CloseServer(l).toServer) = {}
           /\ CloseClient(l) \in Link /\ CloseClient(l).owner = l.owner
           /\ CloseClient(l).serverOpen = l.serverOpen
           /\ CloseClient(l).toServer = l.toServer
           /\ Messages(CloseClient(l).toClient) = {}
<1>1. CloseServer(l) = [l EXCEPT !.serverOpen = FALSE, !.toServer = <<>>,
                                 !.reset = l.reset \/ l.toServer # <<>>]
  BY DEF CloseServer
<1>2. CloseClient(l) = [l EXCEPT !.clientOpen = FALSE, !.toClient = <<>>,
                                 !.reset = l.reset \/ l.toClient # <<>>]
  BY DEF CloseClient
<1>3. QED
  BY <1>1, <1>2, NoMessages DEF Link

\* A connection opens.
LEMMA LinkOpens ==
    ASSUME NEW c \in Clients
    PROVE  LET l == NewLink(c, [type |-> "Register", id |-> c]) IN
           /\ l \in Link /\ l.owner = c /\ l.clientOpen /\ l.serverOpen /\ ~l.reset
           /\ l.toClient = <<>> /\ l.toServer = Whole([type |-> "Register", id |-> c])
           /\ Messages(l.toServer) = {[type |-> "Register", id |-> c]}
<1> DEFINE m == [type |-> "Register", id |-> c]
<1>1. m \in Message
  BY MessagesToSend
<1> HIDE DEF m
<1>2. Whole(m) \in Seq(Half) /\ DOMAIN Whole(m) = {1, 2}
      /\ Whole(m)[1].msg = m /\ Whole(m)[2].msg = m
  BY <1>1 DEF Whole, Half
<1>3. Messages(Whole(m)) = {m}
  BY <1>2 DEF Messages
<1>4. QED
  BY <1>2, <1>3, NoMessages DEF NewLink, Link, m
\* Only connection i changes, and not its owner.
Changed(i) ==
    /\ links' \in Seq(Link) /\ Len(links') = Len(links)
    /\ \A j \in DOMAIN links : j # i => links'[j] = links[j]
    /\ links'[i].owner = links[i].owner

LEMMA LinkTypes ==
    ASSUME links \in Seq(Link)
    PROVE  /\ Len(links) \in Nat /\ DOMAIN links = 1 .. Len(links)
           /\ \A i \in DOMAIN links : links[i] \in Link
BY LenProperties, ElementOfSeq

LEMMA LinkChanged ==
    ASSUME links \in Seq(Link), NEW i \in DOMAIN links,
           NEW l \in Link, l.owner = links[i].owner, links' = [links EXCEPT ![i] = l]
    PROVE  Changed(i) /\ DOMAIN links' = DOMAIN links /\ links'[i] = l
<1>1. i \in 1 .. Len(links) /\ DOMAIN links = 1 .. Len(links)
  BY LinkTypes
<1>2. /\ links' \in Seq(Link) /\ Len(links') = Len(links)
      /\ \A j \in 1 .. Len(links) : links'[j] = IF j = i THEN l ELSE links[j]
  BY <1>1, ExceptSeq
<1>3. DOMAIN links' = DOMAIN links
  BY <1>1, <1>2, LenProperties
<1>4. QED
  BY <1>1, <1>2, <1>3 DEF Changed

\* What a step of the handler of i does to i.
ServerEffect(i) ==
    /\ Changed(i) /\ DOMAIN links' = DOMAIN links
    /\ links'[i].clientOpen = links[i].clientOpen
    /\ Messages(links'[i].toServer) \subseteq Messages(links[i].toServer)
    /\ \A m \in Messages(links'[i].toClient) :
          \/ m \in Messages(links[i].toClient)
          \/ m.type \in {"RegisterAck", "PeerList"}
          \/ m \in Messages(links[i].toServer) /\ m.type = "IceCandidate"

LEMMA ServerSent ==
    ASSUME links \in Seq(Link), NEW i \in DOMAIN links,
           NEW m \in Message, m.type \in {"RegisterAck", "PeerList"},
           links' = [links EXCEPT ![i] = FromServer(links[i], m)]
    PROVE  /\ ServerEffect(i) /\ links'[i].serverOpen = links[i].serverOpen
           /\ links'[i].toServer = links[i].toServer
           /\ links[i].clientOpen => links'[i].reset = links[i].reset
<1> DEFINE l == FromServer(links[i], m)
<1>1. links[i] \in Link
  BY LinkTypes
<1>2. (links[i].clientOpen => l.reset = links[i].reset)
      /\ l \in Link /\ l.owner = links[i].owner /\ l.clientOpen = links[i].clientOpen
      /\ l.serverOpen = links[i].serverOpen /\ l.toServer = links[i].toServer
      /\ Messages(l.toClient) \subseteq Messages(links[i].toClient) \cup {m}
  BY <1>1, ServerWrites
<1>3. links' = [links EXCEPT ![i] = l]
  OBVIOUS
<1> HIDE DEF l
<1>4. Changed(i) /\ DOMAIN links' = DOMAIN links /\ links'[i] = l
  BY <1>2, <1>3, LinkChanged
<1>5. QED
  BY <1>2, <1>4 DEF ServerEffect

LEMMA ServerClosed ==
    ASSUME links \in Seq(Link), NEW i \in DOMAIN links,
           links' = [links EXCEPT ![i] = CloseServer(links[i])]
    PROVE  ServerEffect(i) /\ ~links'[i].serverOpen
<1> DEFINE l == CloseServer(links[i])
<1>1. links[i] \in Link
  BY LinkTypes
<1>2. l \in Link /\ l.owner = links[i].owner /\ l.clientOpen = links[i].clientOpen
      /\ ~l.serverOpen /\ l.toClient = links[i].toClient /\ Messages(l.toServer) = {}
  BY <1>1, EndsClose
<1>3. links' = [links EXCEPT ![i] = l]
  OBVIOUS
<1> HIDE DEF l
<1>4. Changed(i) /\ DOMAIN links' = DOMAIN links /\ links'[i] = l
  BY <1>2, <1>3, LinkChanged
<1>5. QED
  BY <1>2, <1>4 DEF ServerEffect

\* A connection whose next n halves its handler has read.
ServerRead(i, n) == [links[i] EXCEPT !.toServer = Rest(links[i].toServer, n)]

LEMMA ServerReads ==
    ASSUME links \in Seq(Link), NEW i \in DOMAIN links, NEW n, Arrives(i, n)
    PROVE  /\ n \in 1 .. Len(links[i].toServer)
           /\ Consume(i, n) = [links EXCEPT ![i] = ServerRead(i, n)]
           /\ ServerRead(i, n) \in Link /\ ServerRead(i, n).owner = links[i].owner
           /\ ServerRead(i, n).clientOpen = links[i].clientOpen
           /\ ServerRead(i, n).serverOpen = links[i].serverOpen
           /\ ServerRead(i, n).reset = links[i].reset
           /\ ServerRead(i, n).toClient = links[i].toClient
           /\ ServerRead(i, n).toServer = Rest(links[i].toServer, n)
           /\ Messages(ServerRead(i, n).toServer) \subseteq Messages(links[i].toServer)
           /\ Chunk(i, n)[1] = links[i].toServer[1]
           /\ links[i].toServer[1].msg \in Messages(links[i].toServer) \cap Message
<1>1. links[i] \in Link /\ links[i].toServer \in Seq(Half)
  BY LinkTypes, LinkFields
<1>2. n \in 1 .. Len(links[i].toServer)
  BY DEF Arrives, Cuts
<1>3. /\ Rest(links[i].toServer, n) \in Seq(Half)
      /\ Messages(Rest(links[i].toServer, n)) \subseteq Messages(links[i].toServer)
      /\ Chunk(i, n)[1] = links[i].toServer[1]
      /\ links[i].toServer[1].msg \in Messages(links[i].toServer) \cap Message
  BY <1>1, <1>2, ReadPart, ReadMessages DEF Chunk
<1>4. Consume(i, n) = [links EXCEPT ![i] = ServerRead(i, n)]
  BY DEF Consume, ServerRead
<1>5. QED
  BY <1>1, <1>2, <1>3, <1>4 DEF ServerRead, Link
-----------------------------------------------------------------------------
(* Steps of the handlers.                                                  *)

HandlerMoves(i) ==
    /\ handler' \in [Conns -> Handler]
    /\ \A j \in Conns : j # i => handler'[j] = handler[j]
    /\ handler'[i].at # "none" /\ handler'[i].id \in {None, links[i].owner}
    /\ handler[i].id # None => handler'[i].id = handler[i].id
    /\ links'[i].serverOpen <=> handler'[i].at \in Serving

ServerTypes ==
    /\ registry' \in [Clients -> Nat] /\ offers' \in Seq(Message)
    /\ told' \in [Conns -> SUBSET Clients] /\ restarts' = restarts

\* A connection has a handler and an owner; a registration on it is its owner's.
LEMMA Served ==
    ASSUME SigTypeOK, NothingToHear, NEW i \in DOMAIN links
    PROVE  /\ i \in Conns /\ links[i] \in Link /\ links[i].owner \in Clients
           /\ handler[i] \in Handler
           /\ \A m \in Messages(links[i].toServer) :
                 m.type = "Register" => m.id = links[i].owner
<1>1. DOMAIN links = 1 .. Len(links) /\ Len(links) \in Nat /\ links[i] \in Link
  BY LinkTypes DEF SigTypeOK
<1>2. Len(links) <= MaxConns /\ handler \in [Conns -> Handler]
  BY DEF SigTypeOK
<1>3. i \in Conns
  BY <1>1, <1>2, ConnsAssumption DEF Conns
<1>4. QED
  BY <1>1, <1>2, <1>3, LinkFields DEF NothingToHear

LEMMA HandlerEffect ==
    ASSUME SigTypeOK, HandlersFit, NothingToHear, NEW i \in DOMAIN links, HandlerStep(i)
    PROVE  ServerEffect(i) /\ HandlerMoves(i) /\ ServerTypes
<1> DEFINE l == links[i]
           h == handler[i]
<1>1. /\ i \in Conns /\ l \in Link /\ l.owner \in Clients /\ h \in Handler
      /\ \A m \in Messages(l.toServer) : m.type = "Register" => m.id = l.owner
  BY Served
<1>2. /\ links \in Seq(Link) /\ registry \in [Clients -> Nat] /\ offers \in Seq(Message)
      /\ handler \in [Conns -> Handler] /\ told \in [Conns -> SUBSET Clients]
  BY DEF SigTypeOK
<1>3. /\ h.at = "none" => h.id = None
      /\ l.serverOpen <=> h.at \in Serving \cup {"none"}
      /\ h.id \in {None, l.owner} /\ l.owner # None
  BY <1>1, NoneAssumption DEF HandlersFit
<1>4. Listed \in SUBSET Clients
  BY DEF Listed
<1> HIDE DEF l, h
<1>5. CASE Accept(i)
  <2>1. links' = [links EXCEPT ![i] = l] /\ handler' = [handler EXCEPT ![i].at = "read"]
    BY <1>1, <1>2, <1>5 DEF Accept, l
  <2>2. Changed(i) /\ DOMAIN links' = DOMAIN links /\ links'[i] = l
    BY <1>1, <1>2, <2>1, LinkChanged DEF l
  <2>3. ServerEffect(i)
    BY <2>2 DEF ServerEffect, l
  <2>4. handler[i].at = "none" /\ links[i].serverOpen
    BY <1>5 DEF Accept
  <2>5. handler'[i] = [handler[i] EXCEPT !.at = "read"]
    BY <1>1, <1>2, <2>1
  <2>6. handler'[i].at = "read" /\ handler'[i].id = handler[i].id /\ handler'[i] \in Handler
    BY <1>1, <1>2, <2>5 DEF Handler, Serving
  <2>7. handler' \in [Conns -> Handler] /\ \A j \in Conns : j # i => handler'[j] = handler[j]
    BY <1>1, <1>2, <2>1, <2>6
  <2>8. HandlerMoves(i)
    BY <1>3, <2>2, <2>4, <2>6, <2>7 DEF HandlerMoves, Serving, l, h
  <2>9. QED
    BY <1>2, <1>5, <2>3, <2>8 DEF Accept, ServerTypes
<1>6. CASE SendAck(i)
  <2>1. /\ links' = [links EXCEPT ![i] = FromServer(links[i], [type |-> "RegisterAck"])]
        /\ handler' = [handler EXCEPT ![i].at = "list"] /\ h.at = "ack"
    BY <1>6 DEF SendAck, h
  <2>2. ServerEffect(i) /\ links'[i].serverOpen = l.serverOpen
    BY <1>2, <2>1, MessagesToSend, ServerSent DEF l
  <2>3. HandlerMoves(i)
    BY <1>1, <1>2, <1>3, <2>1, <2>2 DEF HandlerMoves, Handler, Serving, l, h
  <2>4. QED
    BY <1>2, <1>6, <2>2, <2>3 DEF SendAck, ServerTypes
<1>7. CASE SendPeerList(i)
  <2>1. /\ links' = [links EXCEPT ![i] =
                       FromServer(links[i], [type |-> "PeerList", peers |-> Listed])]
        /\ handler' = [handler EXCEPT ![i].at = "read"] /\ h.at = "list"
        /\ told' = [told EXCEPT ![i] = Listed]
    BY <1>7 DEF SendPeerList, h
  <2>2. ServerEffect(i) /\ links'[i].serverOpen = l.serverOpen
    BY <1>2, <1>4, <2>1, MessagesToSend, ServerSent DEF l
  <2>3. HandlerMoves(i)
    BY <1>1, <1>2, <1>3, <2>1, <2>2 DEF HandlerMoves, Handler, Serving, l, h
  <2>4. told' \in [Conns -> SUBSET Clients]
    BY <1>2, <1>4, <2>1
  <2>5. QED
    BY <1>2, <1>7, <2>2, <2>3, <2>4 DEF SendPeerList, ServerTypes
<1>8. CASE HandlerEnds(i) \/ HandlerFails(i)
  <2>1. /\ links' = [links EXCEPT ![i] = CloseServer(links[i])]
        /\ \/ handler' = [handler EXCEPT ![i].at = "closed"]
           \/ handler' = [handler EXCEPT ![i].at = "failed"]
        /\ registry' \in {registry, Retained(h.id)}
        /\ UNCHANGED <<offers, told, restarts>>
    BY <1>8 DEF HandlerEnds, HandlerFails, h
  <2>2. ServerEffect(i) /\ ~links'[i].serverOpen
    BY <1>2, <2>1, ServerClosed
  <2>3. HandlerMoves(i)
    <3>1. PICK at \in {"closed", "failed"} : handler' = [handler EXCEPT ![i].at = at]
      BY <2>1
    <3>2. /\ handler'[i].at = at /\ handler'[i].id = h.id /\ handler'[i] \in Handler
          /\ \A j \in Conns : j # i => handler'[j] = handler[j]
      BY <1>1, <1>2, <3>1 DEF Handler, h
    <3>3. handler' \in [Conns -> Handler]
      BY <1>2, <3>1, <3>2
    <3>4. QED
      BY <1>3, <2>2, <3>2, <3>3 DEF HandlerMoves, Serving, l, h
  <2>4. registry' \in [Clients -> Nat]
    BY <1>2, <2>1 DEF Retained
  <2>5. QED
    BY <1>2, <2>1, <2>2, <2>3, <2>4 DEF ServerTypes
<1>9. ASSUME NEW n \in 1 .. Len(l.toServer), ReadOffer(i, n) \/ ReadGarbage(i, n)
      PROVE  ServerEffect(i) /\ HandlerMoves(i) /\ ServerTypes
  <2> DEFINE m == l.toServer[1].msg
             r == ServerRead(i, n)
  <2>1. Arrives(i, n)
    BY <1>9 DEF ReadOffer, ReadGarbage
  <2>2. /\ Consume(i, n) = [links EXCEPT ![i] = r] /\ r \in Link /\ r.owner = l.owner
        /\ r.clientOpen = l.clientOpen /\ r.serverOpen = l.serverOpen
        /\ r.toClient = l.toClient /\ Messages(r.toServer) \subseteq Messages(l.toServer)
        /\ m \in Message
    BY <1>2, <2>1, ServerReads DEF l
  <2>3. /\ links' = Consume(i, n) /\ UNCHANGED <<registry, handler, told, restarts>>
        /\ offers' \in {offers, Append(offers, m)}
    BY <1>9 DEF ReadOffer, ReadGarbage, l
  <2> HIDE DEF m, r
  <2>4. Changed(i) /\ DOMAIN links' = DOMAIN links /\ links'[i] = r
    BY <1>2, <2>2, <2>3, LinkChanged DEF l
  <2>5. ServerEffect(i)
    BY <2>2, <2>4 DEF ServerEffect, l
  <2>6. h.at = "read"
    BY <2>1 DEF Arrives, h
  <2>7. HandlerMoves(i)
    BY <1>1, <1>2, <1>3, <2>2, <2>3, <2>4, <2>6 DEF HandlerMoves, Serving, l, h
  <2>8. offers' \in Seq(Message)
    <3>1. Append(offers, m) \in Seq(Message)
      BY <1>2, <2>2, AppendProperties
    <3>2. QED
      BY <1>2, <2>3, <3>1
  <2>9. QED
    BY <1>2, <2>3, <2>5, <2>7, <2>8 DEF ServerTypes
<1>10. ASSUME NEW n \in 1 .. Len(l.toServer), ReadRegister(i, n)
      PROVE  ServerEffect(i) /\ HandlerMoves(i) /\ ServerTypes
  <2> DEFINE m == l.toServer[1].msg
             r == ServerRead(i, n)
  <2>1. Arrives(i, n) /\ Chunk(i, n)[1].msg.type = "Register"
    BY <1>10 DEF ReadRegister, ParsedAs
  <2>2. /\ Consume(i, n) = [links EXCEPT ![i] = r] /\ r \in Link /\ r.owner = l.owner
        /\ r.clientOpen = l.clientOpen /\ r.serverOpen = l.serverOpen
        /\ r.toClient = l.toClient /\ Messages(r.toServer) \subseteq Messages(l.toServer)
        /\ m \in Messages(l.toServer) /\ m.type = "Register"
    BY <1>2, <2>1, ServerReads DEF l
  <2>3. m.id = l.owner
    BY <1>1, <2>2
  <2>4. /\ links' = Consume(i, n) /\ UNCHANGED <<offers, told, restarts>>
        /\ registry' = Pushed(m.id)
        /\ handler' = [handler EXCEPT ![i] = [at |-> "ack", id |-> m.id]]
    BY <1>10 DEF ReadRegister, l
  <2> HIDE DEF m, r
  <2>5. Changed(i) /\ DOMAIN links' = DOMAIN links /\ links'[i] = r
    BY <1>2, <2>2, <2>4, LinkChanged DEF l
  <2>6. ServerEffect(i)
    BY <2>2, <2>5 DEF ServerEffect, l
  <2>7. h.at = "read"
    BY <2>1 DEF Arrives, h
  <2>8. HandlerMoves(i)
    BY <1>1, <1>2, <1>3, <2>2, <2>3, <2>4, <2>5, <2>7 DEF HandlerMoves, Handler, Serving, l, h
  <2>9. registry' \in [Clients -> Nat]
    BY <1>1, <1>2, <2>3, <2>4 DEF Pushed
  <2>10. QED
    BY <1>2, <2>4, <2>6, <2>8, <2>9 DEF ServerTypes
<1>11. ASSUME NEW n \in 1 .. Len(l.toServer), ReadCandidate(i, n)
      PROVE  ServerEffect(i) /\ HandlerMoves(i) /\ ServerTypes
  <2> DEFINE m == l.toServer[1].msg
             r == ServerRead(i, n)
             w == FromServer(r, m)
  <2>1. Arrives(i, n) /\ Chunk(i, n)[1].msg.type = "IceCandidate"
    BY <1>11 DEF ReadCandidate, ParsedAs
  <2>2. /\ Consume(i, n) = [links EXCEPT ![i] = r] /\ r \in Link /\ r.owner = l.owner
        /\ r.clientOpen = l.clientOpen /\ r.serverOpen = l.serverOpen
        /\ r.toClient = l.toClient /\ Messages(r.toServer) \subseteq Messages(l.toServer)
        /\ m \in Messages(l.toServer) /\ m \in Message /\ m.type = "IceCandidate"
    BY <1>2, <2>1, ServerReads DEF l
  <2>3. /\ w \in Link /\ w.owner = r.owner /\ w.clientOpen = r.clientOpen
        /\ w.serverOpen = r.serverOpen /\ w.toServer = r.toServer
        /\ Messages(w.toClient) \subseteq Messages(r.toClient) \cup {m}
    <3> HIDE DEF m, r
    <3>1. QED
      BY <2>2, ServerWrites
  <2>4. links' = [Consume(i, n) EXCEPT ![i] = FromServer(Consume(i, n)[i], m)]
        /\ UNCHANGED <<registry, offers, handler, told, restarts>>
    BY <1>11 DEF ReadCandidate, l
  <2> HIDE DEF m, r
  <2>5. links' = [links EXCEPT ![i] = w]
    BY <2>2, <2>4
  <2> HIDE DEF w
  <2>6. Changed(i) /\ DOMAIN links' = DOMAIN links /\ links'[i] = w
    BY <1>2, <2>2, <2>3, <2>5, LinkChanged DEF l
  <2>7. ServerEffect(i)
    BY <2>2, <2>3, <2>6 DEF ServerEffect, l
  <2>8. h.at = "read"
    BY <2>1 DEF Arrives, h
  <2>9. HandlerMoves(i)
    BY <1>1, <1>2, <1>3, <2>2, <2>3, <2>4, <2>6, <2>8 DEF HandlerMoves, Serving, l, h
  <2>10. QED
    BY <1>2, <2>4, <2>7, <2>9 DEF ServerTypes
<1>12. QED
  BY <1>5, <1>6, <1>7, <1>8, <1>9, <1>10, <1>11 DEF HandlerStep, l
\* Nothing comes onto connection i from a client, and it is still unread if it was.
HearsNoMore(i) ==
    /\ links'[i].owner = links[i].owner
    /\ Messages(links'[i].toServer) \subseteq Messages(links[i].toServer)
    /\ \A m \in Messages(links'[i].toClient) :
          \/ m \in Messages(links[i].toClient)
          \/ m.type \in {"RegisterAck", "PeerList"}
          \/ m \in Messages(links[i].toServer) /\ m.type = "IceCandidate"
    /\ Unread(i) => Unread(i)'

Sorted(i) ==
    /\ \A m \in Messages(links[i].toServer) : m.type = "Register" => m.id = links[i].owner
    /\ \A m \in Messages(links[i].toClient) :
          m.type \in {"RegisterAck", "PeerList", "IceCandidate"}
    /\ (\E m \in Messages(links[i].toServer) : m.type # "Register")
          \/ (\E m \in Messages(links[i].toClient) : m.type = "IceCandidate") => Unread(i)

LEMMA HearsOn ==
    ASSUME NothingToHear, NEW i \in DOMAIN links, HearsNoMore(i)
    PROVE  Sorted(i)'
<1> DEFINE up == Messages(links[i].toServer)
           down == Messages(links[i].toClient)
<1>1. Sorted(i)
  BY DEF NothingToHear, Sorted
<1>2. /\ links'[i].owner = links[i].owner
      /\ up' \subseteq up
      /\ \A m \in down' : \/ m \in down \/ m.type \in {"RegisterAck", "PeerList"}
                          \/ m \in up /\ m.type = "IceCandidate"
      /\ Unread(i) => Unread(i)'
  BY DEF HearsNoMore
<1> HIDE DEF up, down
<1>3. QED
  BY <1>1, <1>2 DEF Sorted, up, down

LEMMA AllSorted ==
    (\A i \in DOMAIN links' : Sorted(i)') => NothingToHear'
BY DEF NothingToHear, Sorted

LEMMA HandlerKeeps ==
    ASSUME SigInv, NEW i \in DOMAIN links, HandlerStep(i), UNCHANGED clientVars
    PROVE  SigTypeOK' /\ HandlersFit' /\ NothingToHear' /\ NothingIsHeard'
<1>1. SigTypeOK /\ HandlersFit /\ NothingToHear /\ NothingIsHeard
  BY DEF SigInv
<1>2. ServerEffect(i) /\ HandlerMoves(i) /\ ServerTypes
  BY <1>1, HandlerEffect
<1>3. UNCHANGED <<stream, connected, calling, loop, events, sends>>
  BY DEF clientVars
<1>4. i \in Conns /\ links[i].owner \in Clients
  BY <1>1, Served
<1>5. /\ links' \in Seq(Link) /\ Len(links') = Len(links) /\ DOMAIN links' = DOMAIN links
      /\ \A j \in DOMAIN links : j # i => links'[j] = links[j]
      /\ links'[i].owner = links[i].owner /\ links'[i].clientOpen = links[i].clientOpen
      /\ \A j \in DOMAIN links : /\ links'[j].owner = links[j].owner
                                 /\ links'[j].clientOpen = links[j].clientOpen
  BY <1>2 DEF ServerEffect, Changed
<1>6. SigTypeOK'
  <2>1. \A c \in Clients : stream'[c] # None =>
          /\ stream'[c] \in DOMAIN links' /\ links'[stream'[c]].owner = c
          /\ links'[stream'[c]].clientOpen /\ loop'[stream'[c]] = "none"
    BY <1>1, <1>3, <1>5 DEF SigTypeOK
  <2>2. links' \in Seq(Link) /\ Len(links') <= MaxConns /\ handler' \in [Conns -> Handler]
    BY <1>1, <1>2, <1>5 DEF SigTypeOK, HandlerMoves
  <2>3. QED
    BY <1>1, <1>2, <1>3, <2>1, <2>2 DEF SigTypeOK, ServerTypes
<1>7. HandlersFit'
  <2>1. ASSUME NEW j \in Conns
        PROVE  /\ handler'[j].at = "none" => handler'[j].id = None
               /\ j \notin DOMAIN links' => handler'[j].at = "none" /\ loop'[j] = "none"
    BY <1>1, <1>2, <1>3, <1>5 DEF HandlersFit, HandlerMoves
  <2>2. ASSUME NEW j \in DOMAIN links'
        PROVE  /\ links'[j].serverOpen <=> handler'[j].at \in Serving \cup {"none"}
               /\ handler'[j].id \in {None, links'[j].owner}
    <3>1. j \in DOMAIN links /\ j \in Conns
      BY <1>1, <1>5, Served
    <3>2. CASE j = i
      BY <1>2, <1>5, <3>2 DEF HandlerMoves
    <3>3. CASE j # i
      <4>1. links'[j] = links[j] /\ handler'[j] = handler[j]
        BY <1>2, <1>5, <3>1, <3>3 DEF HandlerMoves
      <4>2. QED
        BY <1>1, <3>1, <4>1 DEF HandlersFit
    <3>4. QED
      BY <3>2, <3>3
  <2>3. QED
    BY <1>1, <1>3, <2>1, <2>2 DEF HandlersFit
<1>8. NothingToHear'
  <2>1. ASSUME NEW j \in DOMAIN links PROVE HearsNoMore(j)
    <3>1. Unread(j) => Unread(j)'
      BY <1>3, <1>5 DEF Unread
    <3>2. CASE j = i
      BY <1>2, <1>5, <3>1, <3>2 DEF HearsNoMore, ServerEffect
    <3>3. CASE j # i
      BY <1>5, <3>1, <3>3 DEF HearsNoMore
    <3>4. QED
      BY <3>2, <3>3
  <2>2. QED
    BY <1>1, <1>5, <2>1, HearsOn, AllSorted
<1>9. QED
  BY <1>1, <1>3, <1>6, <1>7, <1>8 DEF NothingIsHeard

\* What a handler does to the registry is accounted for by where it stands then.
LEMMA HandlerAccounts ==
    ASSUME SigInv, NEW i \in DOMAIN links, HandlerStep(i)
    PROVE  RegistryExplained'
<1>1. SigTypeOK /\ HandlersFit /\ NothingToHear /\ RegistryExplained
  BY DEF SigInv
<1>2. HandlerMoves(i)
  BY <1>1, HandlerEffect
<1>3. i \in Conns /\ handler[i] \in Handler /\ links[i].owner # None
  BY <1>1, Served, NoneAssumption
<1>4. registry \in [Clients -> Nat] /\ handler \in [Conns -> Handler]
  BY <1>1 DEF SigTypeOK
<1>5. /\ handler' \in [Conns -> Handler]
      /\ \A j \in Conns : j # i => handler'[j] = handler[j]
      /\ handler[i].id # None => handler'[i].id = handler[i].id
  BY <1>2 DEF HandlerMoves
<1>6. CASE Accept(i) \/ SendAck(i) \/ SendPeerList(i)
  <2>1. /\ registry' = registry /\ handler'[i].id = handler[i].id
        /\ handler'[i].at \in Serving /\ handler[i].at \in Serving \cup {"none"}
    BY <1>3, <1>4, <1>6 DEF Accept, SendAck, SendPeerList, Serving, Handler
  <2>2. handler[i].at = "none" => handler[i].id = None
    BY <1>1, <1>3 DEF HandlersFit
  <2>3. QED
    BY <1>1, <1>5, <2>1, <2>2, NoneAssumption DEF RegistryExplained, Listed, Serves, Serving
<1>7. CASE HandlerEnds(i)
  <2>1. /\ registry' = Retained(handler[i].id) /\ handler[i].at = "read"
        /\ handler'[i].at = "closed" /\ handler'[i].id = handler[i].id
    BY <1>3, <1>4, <1>7 DEF HandlerEnds, Handler
  <2>2. \A c \in Clients : registry'[c] = IF c = handler[i].id THEN 0 ELSE registry[c]
    BY <2>1 DEF Retained
  <2>3. QED
    BY <1>1, <1>3, <1>5, <2>1, <2>2 DEF RegistryExplained, Listed, Serves, Serving
<1>8. CASE HandlerFails(i)
  <2>1. /\ registry' = registry /\ handler[i].at \in Serving
        /\ handler'[i].at = "failed" /\ handler'[i].id = handler[i].id
    BY <1>3, <1>4, <1>8 DEF HandlerFails, Handler
  <2>2. QED
    BY <1>1, <1>3, <1>5, <2>1 DEF RegistryExplained, Listed, Serves, Serving
<1>9. ASSUME NEW n \in 1 .. Len(links[i].toServer), ReadRegister(i, n)
      PROVE  RegistryExplained'
  <2> DEFINE id == links[i].toServer[1].msg.id
  <2>1. registry' = Pushed(id) /\ handler' = [handler EXCEPT ![i] = [at |-> "ack", id |-> id]]
        /\ handler[i].at = "read"
    BY <1>9 DEF ReadRegister, Arrives
  <2> HIDE DEF id
  <2>2. handler'[i].at = "ack" /\ handler'[i].id = id
    BY <1>3, <1>4, <2>1
  <2>3. \A c \in Clients : registry'[c] = IF c = id THEN registry[c] + 1 ELSE registry[c]
    BY <1>4, <2>1 DEF Pushed
  <2>4. \A c \in Clients : registry[c] \in Nat
    BY <1>4
  <2>5. ASSUME NEW c \in Clients, c = id
        PROVE  registry'[c] > 0 /\ handler'[i].id = c /\ handler'[i].at \in Serving
    BY <2>2, <2>3, <2>4, <2>5 DEF Serving
  <2>6. ASSUME NEW c \in Clients, c # id
        PROVE  registry'[c] = registry[c] /\ handler[i].id # c /\ handler'[i].id # c
    BY <1>5, <2>2, <2>3, <2>6, NoneAssumption
  <2>7. QED
    BY <1>1, <1>3, <1>5, <2>5, <2>6 DEF RegistryExplained, Listed, Serves
<1>10. ASSUME NEW n \in 1 .. Len(links[i].toServer),
              ReadOffer(i, n) \/ ReadCandidate(i, n) \/ ReadGarbage(i, n)
      PROVE  RegistryExplained'
  <2>1. UNCHANGED <<registry, handler>>
    BY <1>10 DEF ReadOffer, ReadCandidate, ReadGarbage
  <2>2. QED
    BY <1>1, <2>1 DEF RegistryExplained, Listed, Serves
<1>11. QED
  BY <1>6, <1>7, <1>8, <1>9, <1>10 DEF HandlerStep
\* A restart closes every end the server had open and forgets the rest.
LEMMA RestartKeeps ==
    ASSUME SigInv, Restart, UNCHANGED clientVars
    PROVE  SigInv'
<1>1. SigTypeOK /\ HandlersFit /\ NothingToHear /\ NothingIsHeard
  BY DEF SigInv
<1>2. UNCHANGED <<stream, connected, calling, loop, events, sends>>
  BY DEF clientVars
<1>3. /\ restarts < MaxRestarts /\ restarts' = restarts + 1 /\ told' = told
      /\ registry' = [c \in Clients |-> 0] /\ offers' = <<>>
      /\ links' = [i \in DOMAIN links |->
                       IF links[i].serverOpen THEN CloseServer(links[i]) ELSE links[i]]
      /\ handler' = [i \in Conns |->
                       IF i \in DOMAIN links /\ links[i].serverOpen
                           THEN [handler[i] EXCEPT !.at = "gone"] ELSE handler[i]]
  BY DEF Restart
<1>4. links \in Seq(Link) /\ Len(links) \in Nat /\ DOMAIN links = 1 .. Len(links)
  BY <1>1, LinkTypes DEF SigTypeOK
<1>5. \A i \in DOMAIN links :
        /\ links'[i] \in Link /\ links'[i].owner = links[i].owner
        /\ links'[i].clientOpen = links[i].clientOpen /\ ~links'[i].serverOpen
        /\ links'[i].toClient = links[i].toClient
        /\ Messages(links'[i].toServer) \subseteq Messages(links[i].toServer)
  <2>1. ASSUME NEW i \in DOMAIN links
        PROVE  /\ links'[i] \in Link /\ links'[i].owner = links[i].owner
               /\ links'[i].clientOpen = links[i].clientOpen /\ ~links'[i].serverOpen
               /\ links'[i].toClient = links[i].toClient
               /\ Messages(links'[i].toServer) \subseteq Messages(links[i].toServer)
    <3>1. links[i] \in Link
      BY <1>4, LinkTypes
    <3>2. links'[i] = IF links[i].serverOpen THEN CloseServer(links[i]) ELSE links[i]
      BY <1>3
    <3>3. CASE links[i].serverOpen
      <4> DEFINE l == CloseServer(links[i])
      <4>1. /\ l \in Link /\ l.owner = links[i].owner
            /\ l.clientOpen = links[i].clientOpen /\ ~l.serverOpen
            /\ l.toClient = links[i].toClient /\ Messages(l.toServer) = {}
        BY <3>1, EndsClose
      <4>2. links'[i] = l
        BY <3>2, <3>3
      <4> HIDE DEF l
      <4>3. QED
        BY <4>1, <4>2
    <3>4. CASE ~links[i].serverOpen
      BY <3>1, <3>2, <3>4
    <3>5. QED
      BY <3>3, <3>4
  <2>2. QED
    BY <2>1
<1>6. links' \in Seq(Link) /\ DOMAIN links' = DOMAIN links /\ Len(links') = Len(links)
  <2>1. DOMAIN links' = 1 .. Len(links) /\ links' \in [1 .. Len(links) -> Link]
    BY <1>3, <1>4, <1>5
  <2>2. links' \in Seq(Link)
    BY <1>4, <2>1
  <2>3. Len(links') \in Nat /\ DOMAIN links' = 1 .. Len(links')
    BY <2>2, LenProperties
  <2>4. QED
    BY <1>4, <2>1, <2>2, <2>3
<1>7. \A i \in Conns :
        /\ handler'[i] \in Handler /\ handler'[i].id = handler[i].id
        /\ IF i \in DOMAIN links /\ links[i].serverOpen
           THEN handler'[i].at = "gone" ELSE handler'[i].at = handler[i].at
  <2>1. ASSUME NEW i \in Conns
        PROVE  /\ handler'[i] \in Handler /\ handler'[i].id = handler[i].id
               /\ IF i \in DOMAIN links /\ links[i].serverOpen
                  THEN handler'[i].at = "gone" ELSE handler'[i].at = handler[i].at
    <3>1. handler[i] \in Handler
      BY <1>1 DEF SigTypeOK
    <3>2. handler'[i] = IF i \in DOMAIN links /\ links[i].serverOpen
                        THEN [handler[i] EXCEPT !.at = "gone"] ELSE handler[i]
      BY <1>3
    <3>3. QED
      BY <3>1, <3>2 DEF Handler
  <2>2. QED
    BY <2>1
<1>8. handler' \in [Conns -> Handler]
  BY <1>3, <1>7
<1>9. SigTypeOK'
  <2>1. \A c \in Clients : stream'[c] # None =>
          /\ stream'[c] \in DOMAIN links' /\ links'[stream'[c]].owner = c
          /\ links'[stream'[c]].clientOpen /\ loop'[stream'[c]] = "none"
    BY <1>1, <1>2, <1>5, <1>6 DEF SigTypeOK
  <2>2. registry' \in [Clients -> Nat] /\ offers' \in Seq(Message)
        /\ restarts' \in 0 .. MaxRestarts
    BY <1>1, <1>3, RestartAssumption, EmptySeq DEF SigTypeOK
  <2>3. QED
    BY <1>1, <1>2, <1>3, <1>6, <1>8, <2>1, <2>2 DEF SigTypeOK
<1>10. HandlersFit'
  <2>1. ASSUME NEW i \in Conns
        PROVE  /\ handler'[i].at = "none" => handler'[i].id = None
               /\ i \notin DOMAIN links' => handler'[i].at = "none" /\ loop'[i] = "none"
    BY <1>1, <1>2, <1>6, <1>7 DEF HandlersFit
  <2>2. ASSUME NEW i \in DOMAIN links'
        PROVE  /\ links'[i].serverOpen <=> handler'[i].at \in Serving \cup {"none"}
               /\ handler'[i].id \in {None, links'[i].owner}
    <3>1. i \in DOMAIN links /\ i \in Conns
      BY <1>1, <1>6, Served
    <3>2. links[i].serverOpen <=> handler[i].at \in Serving \cup {"none"}
      BY <1>1, <3>1 DEF HandlersFit
    <3>3. handler'[i].at \notin Serving \cup {"none"}
      BY <1>7, <3>1, <3>2 DEF Serving
    <3>4. handler[i].id \in {None, links[i].owner}
      BY <1>1, <3>1 DEF HandlersFit
    <3>5. QED
      BY <1>5, <1>7, <3>1, <3>3, <3>4
  <2>3. QED
    BY <1>1, <1>2, <2>1, <2>2 DEF HandlersFit
<1>11. NothingToHear'
  <2>1. ASSUME NEW i \in DOMAIN links PROVE HearsNoMore(i)
    BY <1>2, <1>5 DEF HearsNoMore, Unread
  <2>2. QED
    BY <1>1, <1>6, <2>1, HearsOn, AllSorted
<1>12. RegistryExplained'
  <2>1. \A c \in Clients : ~(registry'[c] > 0)
    BY <1>3
  <2>2. \A i \in Conns : handler'[i].at \notin Serving
    BY <1>1, <1>7 DEF HandlersFit, Serving
  <2>3. QED
    BY <2>1, <2>2 DEF RegistryExplained, Listed, Serves
<1>13. QED
  BY <1>1, <1>2, <1>9, <1>10, <1>11, <1>12 DEF SigInv, NothingIsHeard
-----------------------------------------------------------------------------
(* Steps of the clients.                                                   *)

ClientKept == SigTypeOK' /\ HandlersFit' /\ NothingToHear' /\ NothingIsHeard'

\* A client's stream is a connection of its own that no loop reads.
LEMMA Streams ==
    ASSUME SigTypeOK, NEW c \in Clients, stream[c] # None
    PROVE  /\ stream[c] \in DOMAIN links /\ links[stream[c]].owner = c
           /\ links[stream[c]].clientOpen /\ loop[stream[c]] = "none"
           /\ \A d \in Clients : d # c => stream[d] # stream[c]
BY DEF SigTypeOK

\* What a client's read, close or write leaves of the connection's frame.
ClientEffect(i) ==
    /\ Changed(i) /\ DOMAIN links' = DOMAIN links
    /\ links'[i].serverOpen = links[i].serverOpen
    /\ Messages(links'[i].toClient) \subseteq Messages(links[i].toClient)

LEMMA ClientReads ==
    ASSUME links \in Seq(Link), NEW i \in DOMAIN links, NEW n \in Cuts(links[i].toClient),
           links' = [links EXCEPT ![i].toClient = Rest(links[i].toClient, n)]
    PROVE  /\ ClientEffect(i) /\ links'[i].clientOpen = links[i].clientOpen
           /\ links'[i].toServer = links[i].toServer /\ links'[i].reset = links[i].reset
           /\ links[i].toClient # <<>>
           /\ First(links[i].toClient, n)[1].msg \in Messages(links[i].toClient)
<1> DEFINE l == [links[i] EXCEPT !.toClient = Rest(links[i].toClient, n)]
<1>1. links[i] \in Link /\ links[i].toClient \in Seq(Half)
  BY LinkTypes, LinkFields
<1>2. n \in 1 .. Len(links[i].toClient)
  BY DEF Cuts
<1>3. /\ Rest(links[i].toClient, n) \in Seq(Half)
      /\ Messages(Rest(links[i].toClient, n)) \subseteq Messages(links[i].toClient)
      /\ First(links[i].toClient, n)[1].msg \in Messages(links[i].toClient)
  BY <1>1, <1>2, ReadPart, ReadMessages
<1>4. links[i].toClient # <<>>
  BY <1>1, <1>2, EmptySeq
<1>5. /\ l \in Link /\ l.owner = links[i].owner /\ l.clientOpen = links[i].clientOpen
      /\ l.serverOpen = links[i].serverOpen /\ l.reset = links[i].reset
      /\ l.toServer = links[i].toServer /\ l.toClient = Rest(links[i].toClient, n)
  BY <1>1, <1>3 DEF Link
<1>6. links' = [links EXCEPT ![i] = l]
  OBVIOUS
<1> HIDE DEF l
<1>7. Changed(i) /\ DOMAIN links' = DOMAIN links /\ links'[i] = l
  BY <1>5, <1>6, LinkChanged
<1>8. QED
  BY <1>3, <1>4, <1>5, <1>7 DEF ClientEffect

LEMMA ClientCloses ==
    ASSUME links \in Seq(Link), NEW i \in DOMAIN links,
           links' = [links EXCEPT ![i] = CloseClient(links[i])]
    PROVE  /\ ClientEffect(i) /\ links'[i].toServer = links[i].toServer
<1> DEFINE l == CloseClient(links[i])
<1>1. links[i] \in Link
  BY LinkTypes
<1>2. l \in Link /\ l.owner = links[i].owner /\ l.serverOpen = links[i].serverOpen
      /\ l.toServer = links[i].toServer /\ Messages(l.toClient) = {}
  BY <1>1, EndsClose
<1>3. links' = [links EXCEPT ![i] = l]
  OBVIOUS
<1> HIDE DEF l
<1>4. Changed(i) /\ DOMAIN links' = DOMAIN links /\ links'[i] = l
  BY <1>2, <1>3, LinkChanged
<1>5. QED
  BY <1>2, <1>4 DEF ClientEffect

\* The server's part of the fit, for connections that are there before and after.
LEMMA FitOn ==
    ASSUME SigTypeOK, HandlersFit, UNCHANGED serverVars, DOMAIN links' = DOMAIN links,
           \A i \in DOMAIN links : /\ links'[i].owner = links[i].owner
                                  /\ links'[i].serverOpen = links[i].serverOpen,
           \A i \in Conns : i \notin DOMAIN links => loop'[i] = loop[i],
           \A c \in Clients : calling'[c] = "connect" => stream'[c] # None
    PROVE  HandlersFit'
<1>1. handler' = handler
  BY DEF serverVars
<1>2. QED
  BY <1>1 DEF HandlersFit

\* What is left to show of a step of a client that opens no connection.
LEMMA ClientFrame ==
    ASSUME SigInv, UNCHANGED <<serverVars, events>>,
           links' \in Seq(Link), Len(links') = Len(links), DOMAIN links' = DOMAIN links,
           \A i \in DOMAIN links : /\ links'[i].owner = links[i].owner
                                  /\ links'[i].serverOpen = links[i].serverOpen
                                  /\ Sorted(i)',
           connected' \in [Clients -> BOOLEAN], sends' \in Sendings,
           calling' \in [Clients -> {"idle", "connect", "exited"}],
           loop' \in [Conns -> {"none", "check", "read", "ended"}],
           stream' \in [Clients -> Conns \cup {None}],
           \A c \in Clients : stream'[c] # None =>
              /\ stream'[c] = stream[c]
              /\ links'[stream[c]].clientOpen /\ loop'[stream[c]] = "none",
           \A c \in Clients : calling'[c] = "connect" => stream'[c] # None,
           \A i \in Conns : i \notin DOMAIN links => loop'[i] = loop[i]
    PROVE  ClientKept
<1>1. SigTypeOK /\ HandlersFit /\ NothingIsHeard
  BY DEF SigInv
<1>2. SigTypeOK'
  <2>1. ASSUME NEW c \in Clients, stream'[c] # None
        PROVE  /\ stream'[c] \in DOMAIN links' /\ links'[stream'[c]].owner = c
               /\ links'[stream'[c]].clientOpen /\ loop'[stream'[c]] = "none"
    <3>1. stream'[c] = stream[c] /\ stream[c] \in DOMAIN links /\ links[stream[c]].owner = c
      BY <1>1, <2>1, Streams
    <3>2. QED
      BY <2>1, <3>1
  <2>2. QED
    BY <1>1, <2>1 DEF SigTypeOK, serverVars
<1>3. HandlersFit'
  BY <1>1, FitOn
<1>4. NothingToHear'
  BY AllSorted
<1>5. QED
  BY <1>1, <1>2, <1>3, <1>4 DEF ClientKept, NothingIsHeard

\* What the steps of the clients start from.
LEMMA ClientTypes ==
    ASSUME SigInv
    PROVE  /\ links \in Seq(Link)
           /\ connected \in [Clients -> BOOLEAN] /\ sends \in Sendings
           /\ calling \in [Clients -> {"idle", "connect", "exited"}]
           /\ loop \in [Conns -> {"none", "check", "read", "ended"}]
           /\ stream \in [Clients -> Conns \cup {None}]
           /\ \A i \in DOMAIN links : i \in Conns /\ links[i].owner \in Clients
           /\ \A c \in Clients : /\ calling[c] = "connect" => stream[c] # None
                                 /\ stream[c] # None => stream[c] \in DOMAIN links
<1>1. SigTypeOK /\ NothingToHear
  BY DEF SigInv
<1>2. \A i \in DOMAIN links : i \in Conns /\ links[i].owner \in Clients
  BY <1>1, Served
<1>3. QED
  BY <1>1, <1>2 DEF SigTypeOK, SigInv, HandlersFit

LEMMA ClientChanges ==
    ASSUME NEW i \in DOMAIN links, ClientEffect(i)
    PROVE  /\ links' \in Seq(Link) /\ Len(links') = Len(links) /\ DOMAIN links' = DOMAIN links
           /\ \A j \in DOMAIN links : j # i => links'[j] = links[j]
           /\ \A j \in DOMAIN links : /\ links'[j].owner = links[j].owner
                                      /\ links'[j].serverOpen = links[j].serverOpen
BY DEF ClientEffect, Changed

LEMMA ConnectSucceedsKeeps ==
    ASSUME SigInv, UNCHANGED serverVars, NEW c \in Clients, ConnectSucceeds(c)
    PROVE  ClientKept
<1> DEFINE i == stream[c]
<1>1. SigTypeOK /\ NothingToHear
  BY DEF SigInv
<1>2. PICK n \in Cuts(links[i].toClient) :
        links' = [links EXCEPT ![i].toClient = Rest(links[i].toClient, n)]
  BY DEF ConnectSucceeds
<1>3. /\ calling[c] = "connect" /\ loop' = [loop EXCEPT ![i] = "check"]
      /\ stream' = [stream EXCEPT ![c] = None]
      /\ calling' = [calling EXCEPT ![c] = "idle"]
      /\ UNCHANGED <<connected, events, sends>>
  BY DEF ConnectSucceeds
<1>4. i \in DOMAIN links /\ links[i].owner = c /\ \A d \in Clients : d # c => stream[d] # i
  BY <1>1, <1>3, ClientTypes, Streams
<1>5. ~Unread(i)
  BY <1>3, <1>4 DEF Unread
<1> HIDE DEF i
<1>6. ClientEffect(i) /\ links'[i].clientOpen = links[i].clientOpen
      /\ links'[i].toServer = links[i].toServer
  BY <1>2, <1>4, ClientTypes, ClientReads
<1>7. ASSUME NEW j \in DOMAIN links PROVE HearsNoMore(j)
  <2>1. CASE j = i
    BY <1>5, <1>6, <2>1, ClientChanges, <1>4 DEF HearsNoMore, ClientEffect
  <2>2. CASE j # i
    <3>1. links'[j] = links[j] /\ j \in Conns /\ links[j].owner \in Clients
      BY <1>4, <1>6, <2>2, ClientChanges, ClientTypes
    <3>2. loop'[j] = loop[j] /\ (stream'[links[j].owner] = j => stream[links[j].owner] = j
                                  /\ calling'[links[j].owner] = calling[links[j].owner])
      BY <1>3, <2>2, <3>1, ClientTypes, NoneAssumption
    <3>3. QED
      BY <3>1, <3>2 DEF HearsNoMore, Unread
  <2>3. QED
    BY <2>1, <2>2
<1>8. \A d \in Clients : stream'[d] # None =>
         /\ stream'[d] = stream[d]
         /\ links'[stream[d]].clientOpen /\ loop'[stream[d]] = "none"
  <2>1. ASSUME NEW d \in Clients, stream'[d] # None
        PROVE  /\ stream'[d] = stream[d]
               /\ links'[stream[d]].clientOpen /\ loop'[stream[d]] = "none"
    <3>1. d # c /\ stream'[d] = stream[d] /\ stream[d] # i
      BY <1>3, <1>4, <2>1, ClientTypes
    <3>2. links[stream[d]].clientOpen /\ loop[stream[d]] = "none" /\ stream[d] \in DOMAIN links
      BY <1>1, <2>1, <3>1, Streams
    <3>3. QED
      BY <1>3, <1>4, <1>6, <3>1, <3>2, ClientChanges, ClientTypes
  <2>2. QED
    BY <2>1
<1>9. /\ calling' \in [Clients -> {"idle", "connect", "exited"}]
      /\ loop' \in [Conns -> {"none", "check", "read", "ended"}]
      /\ stream' \in [Clients -> Conns \cup {None}]
      /\ \A d \in Clients : calling'[d] = "connect" => stream'[d] # None
      /\ \A j \in Conns : j \notin DOMAIN links => loop'[j] = loop[j]
  BY <1>3, <1>4, ClientTypes
<1>10. \A j \in DOMAIN links : Sorted(j)'
  BY <1>1, <1>7, HearsOn
<1>11. connected' \in [Clients -> BOOLEAN] /\ sends' \in Sendings /\ events' = events
  BY <1>3, ClientTypes
<1>12. QED
  BY <1>4, <1>6, <1>8, <1>9, <1>10, <1>11, ClientChanges, ClientFrame

LEMMA ConnectFailsKeeps ==
    ASSUME SigInv, UNCHANGED serverVars, NEW c \in Clients, ConnectFails(c)
    PROVE  ClientKept
<1> DEFINE i == stream[c]
<1>1. SigTypeOK /\ NothingToHear
  BY DEF SigInv
<1>2. /\ calling[c] = "connect" /\ calling' = [calling EXCEPT ![c] = "idle"]
      /\ UNCHANGED <<stream, connected, loop, events, sends>>
  BY DEF ConnectFails
<1>3. i \in DOMAIN links /\ links[i].owner = c
  BY <1>1, <1>2, ClientTypes, Streams
<1>4. ~Unread(i)
  BY <1>2, <1>3 DEF Unread
<1>5. ClientEffect(i) /\ links'[i].clientOpen = links[i].clientOpen
      /\ links'[i].toServer = links[i].toServer
  <2>1. CASE UNCHANGED links
    BY <1>3, <2>1, ClientTypes DEF ClientEffect, Changed
  <2>2. ASSUME NEW n \in Cuts(links[i].toClient),
               links' = [links EXCEPT ![i].toClient = Rest(links[i].toClient, n)]
        PROVE  ClientEffect(i) /\ links'[i].clientOpen = links[i].clientOpen
               /\ links'[i].toServer = links[i].toServer
    <3> HIDE DEF i
    <3>1. QED
      BY <1>3, <2>2, ClientTypes, ClientReads
  <2>3. QED
    BY <2>1, <2>2 DEF ConnectFails
<1> HIDE DEF i
<1>6. ASSUME NEW j \in DOMAIN links PROVE HearsNoMore(j)
  <2>1. CASE j = i
    BY <1>3, <1>4, <1>5, <2>1, ClientChanges DEF HearsNoMore, ClientEffect
  <2>2. CASE j # i
    <3>1. links'[j] = links[j] /\ links[j].owner \in Clients
      BY <1>3, <1>5, <2>2, ClientChanges, ClientTypes
    <3>2. stream[links[j].owner] = j => calling'[links[j].owner] = calling[links[j].owner]
      BY <1>2, <1>3, <2>2, <3>1, ClientTypes DEF i
    <3>3. QED
      BY <1>2, <3>1, <3>2 DEF HearsNoMore, Unread
  <2>3. QED
    BY <2>1, <2>2
<1>7. \A d \in Clients : stream'[d] # None =>
         /\ stream'[d] = stream[d]
         /\ links'[stream[d]].clientOpen /\ loop'[stream[d]] = "none"
  BY <1>1, <1>2, <1>3, <1>5, Streams, ClientChanges, ClientTypes
<1>8. /\ calling' \in [Clients -> {"idle", "connect", "exited"}]
      /\ \A d \in Clients : calling'[d] = "connect" => stream'[d] # None
  BY <1>2, ClientTypes
<1>9. \A j \in DOMAIN links : Sorted(j)'
  BY <1>1, <1>6, HearsOn
<1>10. /\ connected' \in [Clients -> BOOLEAN] /\ sends' \in Sendings
       /\ loop' \in [Conns -> {"none", "check", "read", "ended"}] /\ loop' = loop
       /\ stream' \in [Clients -> Conns \cup {None}] /\ events' = events
  BY <1>2, ClientTypes
<1>11. QED
  BY <1>3, <1>5, <1>7, <1>8, <1>9, <1>10, ClientChanges, ClientFrame
\* A message is sent only while nobody waits on the stream or reads it.
LEMMA SendKeeps ==
    ASSUME SigInv, UNCHANGED serverVars, NEW c \in Clients,
           NEW type \in {"Offer", "Answer", "IceCandidate"}, NEW to \in Clients \ {c},
           Send(c, type, to)
    PROVE  ClientKept
<1>0. PICK i \in DOMAIN links : i = stream[c]
  BY ClientTypes DEF Send
<1> DEFINE m == [type |-> type, from |-> c, to |-> to]
           l == FromClient(links[i], m)
<1>1. SigTypeOK /\ NothingToHear
  BY DEF SigInv
<1>2. /\ calling[c] = "idle" /\ stream[c] # None /\ sends[c] < MaxSends[c]
      /\ links' = [links EXCEPT ![i] = l]
      /\ sends' = [sends EXCEPT ![c] = sends[c] + 1]
      /\ UNCHANGED <<stream, connected, calling, loop, events>>
  BY <1>0 DEF Send
<1>3. i \in DOMAIN links /\ links[i].owner = c /\ loop[i] = "none"
  BY <1>0, <1>1, <1>2, Streams
<1>4. m \in Message /\ m.type # "Register" /\ links[i] \in Link
  BY <1>3, MessagesToSend, LinkTypes, ClientTypes
<1>5. /\ l \in Link /\ l.owner = links[i].owner /\ l.clientOpen = links[i].clientOpen
      /\ l.serverOpen = links[i].serverOpen /\ l.toClient = links[i].toClient
      /\ Messages(l.toServer) \subseteq Messages(links[i].toServer) \cup {m}
  <2> HIDE DEF m
  <2>1. QED
    BY <1>4, ClientWrites
<1>6. Unread(i)'
  BY <1>2, <1>3, <1>5, ClientTypes DEF Unread
<1> HIDE DEF m, l
<1>7. Changed(i) /\ DOMAIN links' = DOMAIN links /\ links'[i] = l
  BY <1>2, <1>3, <1>5, LinkChanged, ClientTypes
<1>8. ClientEffect(i)
  BY <1>5, <1>7 DEF ClientEffect
<1>9. \A j \in DOMAIN links : Sorted(j)'
  <2>1. ASSUME NEW j \in DOMAIN links PROVE Sorted(j)'
    <3>1. CASE j = i
      <4>1. Sorted(i)
        BY <1>1, <1>3 DEF NothingToHear, Sorted
      <4>2. QED
        BY <1>4, <1>5, <1>6, <1>7, <3>1, <4>1 DEF Sorted
    <3>2. CASE j # i
      <4>1. links'[j] = links[j]
        BY <1>3, <1>8, <3>2, ClientChanges
      <4>2. HearsNoMore(j)
        BY <1>2, <4>1 DEF HearsNoMore, Unread
      <4>3. QED
        BY <1>1, <4>2, HearsOn
    <3>3. QED
      BY <3>1, <3>2
  <2>2. QED
    BY <2>1
<1>10. \A d \in Clients : stream'[d] # None =>
         /\ stream'[d] = stream[d]
         /\ links'[stream[d]].clientOpen /\ loop'[stream[d]] = "none"
  BY <1>0, <1>1, <1>2, <1>3, <1>5, <1>7, <1>8, Streams, ClientChanges
<1>11. sends' \in Sendings
  <2>1. sends[c] + 1 \in Nat /\ sends[c] + 1 <= MaxSends[c]
    BY <1>2, SendsAssumption, ClientTypes DEF Sendings
  <2>2. QED
    BY <1>2, <2>1, ClientTypes DEF Sendings
<1>12. QED
  BY <1>2, <1>3, <1>8, <1>9, <1>10, <1>11, ClientChanges, ClientTypes, ClientFrame

\* A read loop hands on what the server sends, and that is only acknowledgements
\* and lists of peers: there is nothing in them for the event channel.
LEMMA LoopReadsKeeps ==
    ASSUME SigInv, UNCHANGED serverVars, NEW i \in DOMAIN links, LoopReads(i)
    PROVE  ClientKept
<1>1. SigTypeOK /\ NothingToHear
  BY DEF SigInv
<1>2. PICK n \in Cuts(links[i].toClient) :
        /\ links' = [links EXCEPT ![i].toClient = Rest(links[i].toClient, n)]
        /\ events' = IF Parses(First(links[i].toClient, n))
                     THEN [events EXCEPT ![links[i].owner] =
                              events[links[i].owner]
                                  \o EventsOf(First(links[i].toClient, n)[1].msg)]
                     ELSE events
  BY DEF LoopReads
<1>3. /\ loop[i] = "read" /\ loop' = [loop EXCEPT ![i] = "check"]
      /\ UNCHANGED <<stream, connected, calling, sends>>
  BY DEF LoopReads
<1>4. /\ ClientEffect(i) /\ links'[i].clientOpen = links[i].clientOpen
      /\ links'[i].toServer = links[i].toServer
      /\ First(links[i].toClient, n)[1].msg \in Messages(links[i].toClient)
  BY <1>2, ClientTypes, ClientReads
<1>5. ~Unread(i)
  BY <1>3 DEF Unread
<1>6. events' = events
  <2> DEFINE m == First(links[i].toClient, n)[1].msg
             o == links[i].owner
  <2>1. m.type \in {"RegisterAck", "PeerList"}
    BY <1>1, <1>4, <1>5 DEF NothingToHear
  <2>2. EventsOf(m) = <<>>
    BY <2>1 DEF EventsOf
  <2>3. o \in Clients /\ events \in [Clients -> Seq(Event)]
    BY <1>1, ClientTypes DEF SigTypeOK
  <2>4. events[o] \o <<>> = events[o]
    BY <2>3, ConcatEmptySeq
  <2>5. [events EXCEPT ![o] = events[o]] = events
    BY <2>3
  <2>6. events' \in {events, [events EXCEPT ![o] = events[o] \o EventsOf(m)]}
    BY <1>2
  <2> HIDE DEF m, o
  <2>7. QED
    BY <2>2, <2>4, <2>5, <2>6
<1>7. ASSUME NEW j \in DOMAIN links PROVE HearsNoMore(j)
  <2>1. CASE j = i
    BY <1>4, <1>5, <2>1, ClientChanges DEF HearsNoMore, ClientEffect
  <2>2. CASE j # i
    BY <1>3, <1>4, <2>2, ClientChanges, ClientTypes DEF HearsNoMore, Unread
  <2>3. QED
    BY <2>1, <2>2
<1>8. \A c \in Clients : stream'[c] # None =>
         /\ stream'[c] = stream[c]
         /\ links'[stream[c]].clientOpen /\ loop'[stream[c]] = "none"
  BY <1>1, <1>3, <1>4, Streams, ClientChanges, ClientTypes
<1>9. loop' \in [Conns -> {"none", "check", "read", "ended"}]
      /\ \A j \in Conns : j \notin DOMAIN links => loop'[j] = loop[j]
  BY <1>3, ClientTypes
<1>10. \A j \in DOMAIN links : Sorted(j)'
  BY <1>1, <1>7, HearsOn
<1>11. QED
  BY <1>3, <1>4, <1>6, <1>8, <1>9, <1>10, ClientChanges, ClientTypes, ClientFrame

LEMMA LoopTurns ==
    ASSUME SigInv, UNCHANGED serverVars, NEW i \in DOMAIN links,
           LoopGoesOn(i) \/ LoopEnds(i)
    PROVE  ClientKept
<1>1. SigTypeOK /\ NothingToHear
  BY DEF SigInv
<1>2. /\ loop[i] \in {"check", "read"}
      /\ \/ loop' = [loop EXCEPT ![i] = "read"] /\ connected' = connected /\ links' = links
         \/ /\ loop' = [loop EXCEPT ![i] = "ended"]
            /\ connected' = [connected EXCEPT ![links[i].owner] = FALSE]
            /\ links' = [links EXCEPT ![i] = CloseClient(links[i])]
      /\ UNCHANGED <<stream, calling, events, sends>>
  BY DEF LoopGoesOn, LoopEnds
<1>3. ClientEffect(i) /\ links'[i].toServer = links[i].toServer
  <2>1. CASE links' = links
    BY <2>1, ClientTypes DEF ClientEffect, Changed
  <2>2. CASE links' = [links EXCEPT ![i] = CloseClient(links[i])]
    BY <2>2, ClientTypes, ClientCloses
  <2>3. QED
    BY <1>2, <2>1, <2>2
<1>4. ~Unread(i)
  BY <1>2 DEF Unread
<1>5. ASSUME NEW j \in DOMAIN links PROVE HearsNoMore(j)
  <2>1. CASE j = i
    BY <1>3, <1>4, <2>1, ClientChanges DEF HearsNoMore, ClientEffect
  <2>2. CASE j # i
    BY <1>2, <1>3, <2>2, ClientChanges, ClientTypes DEF HearsNoMore, Unread
  <2>3. QED
    BY <2>1, <2>2
<1>6. \A c \in Clients : stream'[c] # None =>
         /\ stream'[c] = stream[c]
         /\ links'[stream[c]].clientOpen /\ loop'[stream[c]] = "none"
  <2>1. ASSUME NEW c \in Clients, stream[c] # None
        PROVE  links'[stream[c]].clientOpen /\ loop'[stream[c]] = "none"
    <3>1. /\ stream[c] \in DOMAIN links /\ links[stream[c]].clientOpen
          /\ loop[stream[c]] = "none" /\ stream[c] # i
      BY <1>1, <1>2, <2>1, Streams
    <3>2. QED
      BY <1>2, <1>3, <3>1, ClientChanges, ClientTypes
  <2>2. QED
    BY <1>2, <2>1
<1>7. /\ loop' \in [Conns -> {"none", "check", "read", "ended"}]
      /\ connected' \in [Clients -> BOOLEAN]
      /\ \A j \in Conns : j \notin DOMAIN links => loop'[j] = loop[j]
  <2>1. i \in Conns /\ links[i].owner \in Clients
    BY ClientTypes
  <2>2. CASE loop' = [loop EXCEPT ![i] = "read"] /\ connected' = connected
    BY <2>1, <2>2, ClientTypes
  <2>3. CASE /\ loop' = [loop EXCEPT ![i] = "ended"]
             /\ connected' = [connected EXCEPT ![links[i].owner] = FALSE]
    <3>1. connected' \in [Clients -> BOOLEAN]
      BY <2>1, <2>3, ClientTypes
    <3>2. loop' \in [Conns -> {"none", "check", "read", "ended"}]
          /\ \A j \in Conns : j \notin DOMAIN links => loop'[j] = loop[j]
      BY <2>1, <2>3, ClientTypes
    <3>3. QED
      BY <3>1, <3>2
  <2>4. QED
    BY <1>2, <2>2, <2>3
<1>8. \A j \in DOMAIN links : Sorted(j)'
  BY <1>1, <1>5, HearsOn
<1>9. QED
  BY <1>2, <1>3, <1>6, <1>7, <1>8, ClientChanges, ClientTypes, ClientFrame
\* The client's process ends.
LEMMA ExitKeeps ==
    ASSUME SigInv, UNCHANGED serverVars, NEW c \in Clients, Exit(c)
    PROVE  ClientKept
<1>1. SigTypeOK /\ NothingToHear
  BY DEF SigInv
<1>2. /\ links' = [i \in DOMAIN links |->
                      IF links[i].owner = c /\ links[i].clientOpen
                          THEN CloseClient(links[i]) ELSE links[i]]
      /\ loop' = [i \in Conns |->
                      IF i \in DOMAIN links /\ links[i].owner = c THEN "ended" ELSE loop[i]]
      /\ stream' = [stream EXCEPT ![c] = None]
      /\ connected' = [connected EXCEPT ![c] = FALSE]
      /\ calling' = [calling EXCEPT ![c] = "exited"]
      /\ UNCHANGED <<events, sends>>
  BY DEF Exit
<1>3. Len(links) \in Nat /\ DOMAIN links = 1 .. Len(links)
  BY LinkTypes, ClientTypes
<1>4. \A i \in DOMAIN links :
        /\ links'[i] \in Link /\ links'[i].owner = links[i].owner
        /\ links'[i].serverOpen = links[i].serverOpen
        /\ links'[i].toServer = links[i].toServer
        /\ Messages(links'[i].toClient) \subseteq Messages(links[i].toClient)
        /\ links[i].owner # c => links'[i] = links[i]
  <2>1. ASSUME NEW i \in DOMAIN links
        PROVE  /\ links'[i] \in Link /\ links'[i].owner = links[i].owner
               /\ links'[i].serverOpen = links[i].serverOpen
               /\ links'[i].toServer = links[i].toServer
               /\ Messages(links'[i].toClient) \subseteq Messages(links[i].toClient)
               /\ links[i].owner # c => links'[i] = links[i]
    <3> DEFINE l == CloseClient(links[i])
    <3>1. links[i] \in Link
      BY LinkTypes, ClientTypes
    <3>2. /\ l \in Link /\ l.owner = links[i].owner /\ l.serverOpen = links[i].serverOpen
          /\ l.toServer = links[i].toServer /\ Messages(l.toClient) = {}
      BY <3>1, EndsClose
    <3>3. links'[i] = IF links[i].owner = c /\ links[i].clientOpen THEN l ELSE links[i]
      BY <1>2
    <3> HIDE DEF l
    <3>4. QED
      BY <3>1, <3>2, <3>3
  <2>2. QED
    BY <2>1
<1>5. links' \in Seq(Link) /\ DOMAIN links' = DOMAIN links /\ Len(links') = Len(links)
  <2>1. DOMAIN links' = 1 .. Len(links) /\ links' \in [1 .. Len(links) -> Link]
    BY <1>2, <1>3, <1>4
  <2>2. links' \in Seq(Link)
    BY <1>3, <2>1
  <2>3. Len(links') \in Nat /\ DOMAIN links' = 1 .. Len(links')
    BY <2>2, LenProperties
  <2>4. QED
    BY <1>3, <2>1, <2>2, <2>3
<1>6. /\ calling' \in [Clients -> {"idle", "connect", "exited"}]
      /\ connected' \in [Clients -> BOOLEAN]
      /\ loop' \in [Conns -> {"none", "check", "read", "ended"}]
      /\ stream' \in [Clients -> Conns \cup {None}]
      /\ \A j \in Conns : j \notin DOMAIN links => loop'[j] = loop[j]
      /\ \A d \in Clients : calling'[d] = "connect" => stream'[d] # None
  <2>1. calling' \in [Clients -> {"idle", "connect", "exited"}]
        /\ connected' \in [Clients -> BOOLEAN]
    BY <1>2, ClientTypes
  <2>2. loop' \in [Conns -> {"none", "check", "read", "ended"}]
        /\ \A j \in Conns : j \notin DOMAIN links => loop'[j] = loop[j]
    BY <1>2, ClientTypes
  <2>3. stream' \in [Clients -> Conns \cup {None}]
        /\ \A d \in Clients : calling'[d] = "connect" => stream'[d] # None
    BY <1>2, ClientTypes
  <2>4. QED
    BY <2>1, <2>2, <2>3
<1>7. \A d \in Clients : stream'[d] # None =>
         /\ stream'[d] = stream[d]
         /\ links'[stream[d]].clientOpen /\ loop'[stream[d]] = "none"
  <2>1. ASSUME NEW d \in Clients, stream'[d] # None
        PROVE  /\ stream'[d] = stream[d]
               /\ links'[stream[d]].clientOpen /\ loop'[stream[d]] = "none"
    <3>1. d # c /\ stream'[d] = stream[d]
      BY <1>2, <2>1, ClientTypes
    <3>2. /\ stream[d] \in DOMAIN links /\ links[stream[d]].owner = d
          /\ links[stream[d]].clientOpen /\ loop[stream[d]] = "none"
      BY <1>1, <2>1, <3>1, Streams
    <3>3. QED
      BY <1>2, <1>4, <3>1, <3>2, ClientTypes
  <2>2. QED
    BY <2>1
<1>8. ASSUME NEW j \in DOMAIN links PROVE Sorted(j)'
  <2>1. links[j].owner \in Clients /\ j \in Conns
    BY ClientTypes
  <2>2. loop'[j] \in {loop[j], "ended"}
    BY <1>2, <2>1
  <2>3. calling'[links[j].owner] \in {calling[links[j].owner], "exited"}
        /\ stream'[links[j].owner] \in {stream[links[j].owner], None}
    BY <1>2, <2>1, ClientTypes
  <2>4. Unread(j) => Unread(j)'
    BY <1>4, <2>1, <2>2, <2>3, NoneAssumption DEF Unread
  <2>5. HearsNoMore(j)
    BY <1>4, <2>4 DEF HearsNoMore
  <2>6. QED
    BY <1>1, <2>5, HearsOn
<1>9. QED
  BY <1>2, <1>4, <1>5, <1>6, <1>7, <1>8, ClientTypes, ClientFrame

\* A new connection comes after the others and carries a registration.
LEMMA ConnectKeeps ==
    ASSUME SigInv, UNCHANGED serverVars, NEW c \in Clients, Connect(c)
    PROVE  ClientKept
<1> DEFINE N == Len(links) + 1
           new == NewLink(c, [type |-> "Register", id |-> c])
           L == IF stream[c] = None THEN links
                ELSE [links EXCEPT ![stream[c]] = CloseClient(links[stream[c]])]
<1>1. SigTypeOK /\ HandlersFit /\ NothingToHear /\ NothingIsHeard
  BY DEF SigInv
<1>2. /\ Len(links) < MaxConns /\ links' = Append(L, new)
      /\ stream' = [stream EXCEPT ![c] = N]
      /\ connected' = [connected EXCEPT ![c] = TRUE]
      /\ calling' = [calling EXCEPT ![c] = "connect"]
      /\ UNCHANGED <<loop, events, sends>>
  BY DEF Connect
<1>3. Len(links) \in Nat /\ DOMAIN links = 1 .. Len(links)
  BY LinkTypes, ClientTypes
<1>4. N \in Conns /\ N \notin DOMAIN links /\ N # None
  BY <1>2, <1>3, ConnsAssumption, NoneAssumption DEF Conns
<1>5. /\ new \in Link /\ new.owner = c /\ new.clientOpen /\ new.serverOpen
      /\ Messages(new.toServer) = {[type |-> "Register", id |-> c]}
      /\ Messages(new.toClient) = {}
  BY LinkOpens, NoMessages
<1>6. /\ L \in Seq(Link) /\ Len(L) = Len(links)
      /\ \A j \in DOMAIN links :
            /\ L[j] \in Link /\ L[j].owner = links[j].owner
            /\ L[j].serverOpen = links[j].serverOpen /\ L[j].toServer = links[j].toServer
            /\ Messages(L[j].toClient) \subseteq Messages(links[j].toClient)
            /\ stream[c] # j => L[j] = links[j]
  <2>1. CASE stream[c] = None
    BY <2>1, LinkTypes, ClientTypes
  <2>2. CASE stream[c] # None
    <3> DEFINE l == CloseClient(links[stream[c]])
    <3>1. stream[c] \in 1 .. Len(links) /\ links[stream[c]] \in Link
      BY <1>3, <2>2, LinkTypes, ClientTypes
    <3>2. /\ l \in Link /\ l.owner = links[stream[c]].owner
          /\ l.serverOpen = links[stream[c]].serverOpen
          /\ l.toServer = links[stream[c]].toServer /\ Messages(l.toClient) = {}
      BY <3>1, EndsClose
    <3>3. L = [links EXCEPT ![stream[c]] = l]
      BY <2>2
    <3> HIDE DEF l, L
    <3>4. /\ L \in Seq(Link) /\ Len(L) = Len(links)
          /\ \A j \in 1 .. Len(links) : L[j] = IF j = stream[c] THEN l ELSE links[j]
      BY <3>1, <3>2, <3>3, ExceptSeq, ClientTypes
    <3>5. QED
      BY <1>3, <3>1, <3>2, <3>4, LinkTypes, ClientTypes
  <2>3. QED
    BY <2>1, <2>2
<1> HIDE DEF new, L
<1>7. /\ links' \in Seq(Link) /\ Len(links') = N /\ DOMAIN links' = DOMAIN links \cup {N}
      /\ links'[N] = new /\ \A j \in DOMAIN links : links'[j] = L[j]
  <2>1. /\ links' \in Seq(Link) /\ Len(links') = N /\ links'[N] = new
        /\ \A j \in 1 .. Len(links) : links'[j] = L[j]
    BY <1>2, <1>5, <1>6, AppendProperties
  <2>2. DOMAIN links' = 1 .. N
    BY <2>1, LenProperties
  <2>3. QED
    BY <1>3, <2>1, <2>2
<1> HIDE DEF N
<1>8. handler' = handler
  BY DEF serverVars
<1>9. SigTypeOK'
  <2>1. ASSUME NEW d \in Clients, stream'[d] # None
        PROVE  /\ stream'[d] \in DOMAIN links' /\ links'[stream'[d]].owner = d
               /\ links'[stream'[d]].clientOpen /\ loop'[stream'[d]] = "none"
    <3>1. CASE d = c
      <4>1. stream'[d] = N
        BY <1>2, <3>1, ClientTypes
      <4>2. loop[N] = "none"
        BY <1>1, <1>4 DEF HandlersFit
      <4>3. QED
        BY <1>2, <1>5, <1>7, <3>1, <4>1, <4>2
    <3>2. CASE d # c
      <4>1. stream'[d] = stream[d] /\ stream[d] # None
        BY <1>2, <2>1, <3>2, ClientTypes
      <4>2. /\ stream[d] \in DOMAIN links /\ links[stream[d]].owner = d
            /\ links[stream[d]].clientOpen /\ loop[stream[d]] = "none"
        BY <1>1, <4>1, Streams
      <4>3. stream[c] # stream[d]
        BY <1>1, <3>2, <4>1, Streams
      <4>4. QED
        BY <1>2, <1>6, <1>7, <4>1, <4>2, <4>3
    <3>3. QED
      BY <3>1, <3>2
  <2>2. Len(links') <= MaxConns
    BY <1>3, <1>4, <1>7 DEF Conns
  <2>3. /\ stream' \in [Clients -> Conns \cup {None}]
        /\ connected' \in [Clients -> BOOLEAN]
        /\ calling' \in [Clients -> {"idle", "connect", "exited"}]
    BY <1>2, <1>4, ClientTypes
  <2>4. QED
    BY <1>1, <1>2, <1>7, <2>1, <2>2, <2>3 DEF SigTypeOK, serverVars
<1>10. HandlersFit'
  <2>1. ASSUME NEW i \in Conns
        PROVE  /\ handler'[i].at = "none" => handler'[i].id = None
               /\ i \notin DOMAIN links' => handler'[i].at = "none" /\ loop'[i] = "none"
    BY <1>1, <1>2, <1>7, <1>8 DEF HandlersFit
  <2>2. ASSUME NEW i \in DOMAIN links'
        PROVE  /\ links'[i].serverOpen <=> handler'[i].at \in Serving \cup {"none"}
               /\ handler'[i].id \in {None, links'[i].owner}
    <3>1. CASE i = N
      BY <1>1, <1>4, <1>5, <1>7, <1>8, <3>1 DEF HandlersFit
    <3>2. CASE i \in DOMAIN links
      BY <1>1, <1>6, <1>7, <1>8, <3>2 DEF HandlersFit
    <3>3. QED
      BY <1>7, <3>1, <3>2
  <2>3. \A d \in Clients : calling'[d] = "connect" => stream'[d] # None
    BY <1>2, <1>4, ClientTypes
  <2>4. QED
    BY <2>1, <2>2, <2>3 DEF HandlersFit
<1>11. NothingToHear'
  <2>1. ASSUME NEW i \in DOMAIN links' PROVE Sorted(i)'
    <3>1. CASE i = N
      <4> DEFINE m == [type |-> "Register", id |-> c]
      <4>1. /\ links'[i].owner = c /\ Messages(links'[i].toServer) = {m}
            /\ Messages(links'[i].toClient) = {} /\ m.type = "Register" /\ m.id = c
        BY <1>5, <1>7, <3>1
      <4> HIDE DEF m
      <4>2. QED
        BY <4>1 DEF Sorted
    <3>2. CASE i \in DOMAIN links
      <4>1. i # N /\ links[i].owner \in Clients /\ links'[i] = L[i]
        BY <1>4, <1>7, <3>2, ClientTypes
      <4>2. stream'[links[i].owner] = i =>
               stream[links[i].owner] = i /\ calling'[links[i].owner] = calling[links[i].owner]
        BY <1>2, <4>1, ClientTypes
      <4>3. Unread(i) => Unread(i)'
        BY <1>2, <1>6, <3>2, <4>1, <4>2 DEF Unread
      <4>4. HearsNoMore(i)
        BY <1>6, <3>2, <4>1, <4>3 DEF HearsNoMore
      <4>5. QED
        BY <1>1, <3>2, <4>4, HearsOn
    <3>3. QED
      BY <1>7, <3>1, <3>2
  <2>2. QED
    BY <2>1, AllSorted
<1>12. QED
  BY <1>1, <1>2, <1>9, <1>10, <1>11 DEF ClientKept, NothingIsHeard
-----------------------------------------------------------------------------
(* The invariant.                                                          *)

LEMMA SigInvInit == SigInit => SigInv
<1> SUFFICES ASSUME SigInit PROVE SigInv
  OBVIOUS
<1>1. links = <<>> /\ DOMAIN links = {} /\ Len(links) = 0 /\ links \in Seq(Link)
  BY EmptySeq DEF SigInit
<1>2. SigTypeOK
  <2>1. 0 <= MaxConns /\ 0 \in 0 .. MaxRestarts /\ sends \in Sendings
    BY ConnsAssumption, RestartAssumption, SendsAssumption DEF SigInit, ClientInit, Sendings
  <2>2. /\ offers \in Seq(Message) /\ events \in [Clients -> Seq(Event)]
        /\ handler \in [Conns -> Handler]
    BY EmptySeq DEF SigInit, ServerInit, ClientInit, Handler
  <2>3. QED
    BY <1>1, <2>1, <2>2 DEF SigInit, ServerInit, ClientInit, SigTypeOK
<1>3. HandlersFit
  BY <1>1 DEF SigInit, ServerInit, ClientInit, HandlersFit
<1>4. NothingToHear
  BY <1>1 DEF NothingToHear
<1>5. RegistryExplained
  BY DEF SigInit, ServerInit, RegistryExplained, Listed, Serves, Serving
<1>6. NothingIsHeard
  BY DEF SigInit, ClientInit, NothingIsHeard
<1>7. QED
  BY <1>2, <1>3, <1>4, <1>5, <1>6 DEF SigInv

LEMMA ClientStep ==
    ASSUME SigInv, ClientNext, UNCHANGED serverVars
    PROVE  SigInv'
<1>1. RegistryExplained'
  BY DEF SigInv, RegistryExplained, serverVars, Listed, Serves
<1>2. ClientKept
  <2>1. ASSUME NEW c \in Clients, Connect(c) \/ Answered(c) \/ Exit(c)
        PROVE  ClientKept
    BY <2>1, ConnectKeeps, ConnectSucceedsKeeps, ConnectFailsKeeps, ExitKeeps DEF Answered
  <2>2. ASSUME NEW c \in Clients, NEW type \in {"Offer", "Answer", "IceCandidate"},
               NEW to \in Clients \ {c}, Send(c, type, to)
        PROVE  ClientKept
    BY <2>2, SendKeeps
  <2>3. ASSUME NEW i \in DOMAIN links, LoopStep(i)
        PROVE  ClientKept
    BY <2>3, LoopTurns, LoopReadsKeeps DEF LoopStep
  <2>4. QED
    BY <2>1, <2>2, <2>3 DEF ClientNext
<1>3. QED
  BY <1>1, <1>2 DEF SigInv, ClientKept

LEMMA SigInvNext == SigInv /\ [SigNext]_sigVars => SigInv'
<1> SUFFICES ASSUME SigInv, [SigNext]_sigVars PROVE SigInv'
  OBVIOUS
<1>1. CASE ServerNext /\ UNCHANGED clientVars
  <2>1. ASSUME NEW i \in DOMAIN links, HandlerStep(i) PROVE SigInv'
    BY <1>1, <2>1, HandlerKeeps, HandlerAccounts DEF SigInv
  <2>2. QED
    BY <1>1, <2>1, RestartKeeps DEF ServerNext
<1>2. CASE ClientNext /\ UNCHANGED serverVars
  BY <1>2, ClientStep
<1>3. CASE UNCHANGED sigVars
  <2>1. UNCHANGED links /\ UNCHANGED serverVars /\ UNCHANGED clientVars
    BY <1>3 DEF sigVars
  <2>2. UNCHANGED <<registry, offers, handler, told, restarts>>
        /\ UNCHANGED <<stream, connected, calling, loop, events, sends>>
    BY <2>1 DEF serverVars, clientVars
  <2>3. SigTypeOK' /\ HandlersFit' /\ RegistryExplained' /\ NothingIsHeard'
    BY <2>1, <2>2 DEF SigInv, SigTypeOK, HandlersFit, RegistryExplained, NothingIsHeard,
       Listed, Serves
  <2>4. NothingToHear'
    BY <2>1, <2>2 DEF SigInv, NothingToHear, Unread
  <2>5. QED
    BY <2>3, <2>4 DEF SigInv
<1>4. QED
  BY <1>1, <1>2, <1>3 DEF SigNext

LEMMA SigInvAlways == SigSpec => []SigInv
<1>1. QED
  BY SigInvInit, SigInvNext, PTL DEF SigSpec

\* The variables have their types, and a client's stream is an open connection of
\* its own that no read loop reads, through failed and repeated connect() calls,
\* ended processes and restarts of the server.
THEOREM SigTypesHold == SigSpec => []SigTypeOK
<1>1. SigInv => SigTypeOK
  BY DEF SigInv
<1>2. QED
  BY <1>1, SigInvAlways, PTL

\* However connections end, the server's registry holds the clients it serves and
\* those whose handler failed, short only of clients that another handler of theirs
\* has cleaned up.
THEOREM RegistryIsExplained == SigSpec => []RegistryExplained
<1>1. SigInv => RegistryExplained
  BY DEF SigInv
<1>2. QED
  BY <1>1, SigInvAlways, PTL

\* No signaling event ever reaches a client, whatever the clients send and however
\* their messages are cut.
THEOREM NobodyHears == SigSpec => []NothingIsHeard
<1>1. SigInv => NothingIsHeard
  BY DEF SigInv
<1>2. QED
  BY <1>1, SigInvAlways, PTL
-----------------------------------------------------------------------------
(* Clients that connect once and stay.                                     *)

\* No end of connection i opens, closes or is reset.
Steady(i) ==
    /\ Changed(i) /\ DOMAIN links' = DOMAIN links
    /\ links'[i].clientOpen = links[i].clientOpen
    /\ links'[i].serverOpen = links[i].serverOpen
    /\ links'[i].reset = links[i].reset

LEMMA StaysOn ==
    ASSUME NEW i \in DOMAIN links, Steady(i), connected' = connected,
           \A j \in DOMAIN links : Stays(j)
    PROVE  \A j \in DOMAIN links' : Stays(j)'
<1>1. DOMAIN links' = DOMAIN links
      /\ \A j \in DOMAIN links : /\ links'[j].owner = links[j].owner
                                 /\ links'[j].clientOpen = links[j].clientOpen
                                 /\ links'[j].serverOpen = links[j].serverOpen
                                 /\ links'[j].reset = links[j].reset
  BY DEF Steady, Changed
<1>2. QED
  BY <1>1 DEF Stays

\* What becomes of connection i, which no step but one of its handler or of its
\* owner touches.
StayKept(i) ==
    /\ \A j \in DOMAIN links : j # i => RegistersFirst(j)'
    /\ RegistersFirst(i)'
    /\ RegisteredOnce' /\ ListsMeet'

\* A handler's name for its client is the owner of its connection.
LEMMA Owners ==
    ASSUME SigInv, \A j \in DOMAIN links : Stays(j),
           NEW i \in DOMAIN links, NEW j \in Conns, handler[j].id = links[i].owner
    PROVE  j = i
<1>1. handler[j].id # None
  BY ClientTypes, NoneAssumption
<1>2. j \in DOMAIN links /\ handler[j].id = links[j].owner
  BY <1>1 DEF SigInv, HandlersFit
<1>3. QED
  BY <1>2 DEF Stays

\* Steps of the handler of i that read nothing.
LEMMA StayWrites ==
    ASSUME SigInv, StayInv, NEW i \in DOMAIN links, UNCHANGED clientVars,
           Accept(i) \/ SendAck(i) \/ SendPeerList(i)
    PROVE  Steady(i) /\ StayKept(i)
<1>1. /\ SigTypeOK /\ Stays(i) /\ RegistersFirst(i) /\ RegisteredOnce /\ ListsMeet
      /\ i \in Conns /\ handler \in [Conns -> Handler] /\ told \in [Conns -> SUBSET Clients]
      /\ links \in Seq(Link)
  BY ClientTypes DEF SigInv, SigTypeOK, StayInv
<1>2. UNCHANGED <<loop, calling, registry>> /\ handler'[i].id = handler[i].id
      /\ \A j \in Conns : j # i => handler'[j] = handler[j]
  BY <1>1 DEF clientVars, Accept, SendAck, SendPeerList, Handler
<1>3. Steady(i) /\ links'[i].toServer = links[i].toServer
      /\ (links'[i].toClient = links[i].toClient \/ handler[i].id # None)
  <2>1. CASE Accept(i)
    BY <2>1, ClientTypes DEF Accept, Steady, Changed
  <2>2. CASE SendAck(i)
    <3>1. links' = [links EXCEPT ![i] = FromServer(links[i], [type |-> "RegisterAck"])]
      BY <2>2 DEF SendAck
    <3>2. ServerEffect(i) /\ links'[i].serverOpen = links[i].serverOpen
          /\ links'[i].toServer = links[i].toServer /\ links'[i].reset = links[i].reset
      BY <1>1, <3>1, MessagesToSend, ServerSent DEF Stays
    <3>3. handler[i].id # None
      BY <1>1, <2>2 DEF SendAck, RegistersFirst
    <3>4. QED
      BY <3>2, <3>3 DEF ServerEffect, Steady
  <2>3. CASE SendPeerList(i)
    <3>1. links' = [links EXCEPT ![i] =
                       FromServer(links[i], [type |-> "PeerList", peers |-> Listed])]
      BY <2>3 DEF SendPeerList
    <3>2. Listed \in SUBSET Clients
      BY DEF Listed
    <3>3. ServerEffect(i) /\ links'[i].serverOpen = links[i].serverOpen
          /\ links'[i].toServer = links[i].toServer /\ links'[i].reset = links[i].reset
      BY <1>1, <3>1, <3>2, MessagesToSend, ServerSent DEF Stays
    <3>4. handler[i].id # None
      BY <1>1, <2>3 DEF SendPeerList, RegistersFirst
    <3>5. QED
      BY <3>3, <3>4 DEF ServerEffect, Steady
  <2>4. QED
    BY <2>1, <2>2, <2>3
<1>4. \A j \in DOMAIN links : j # i => RegistersFirst(j)'
  <2>1. ASSUME NEW j \in DOMAIN links, j # i PROVE RegistersFirst(j)'
    <3>1. links'[j] = links[j] /\ handler'[j] = handler[j] /\ RegistersFirst(j)
      BY <1>2, <1>3, <2>1, ClientTypes DEF Steady, Changed, StayInv
    <3>2. QED
      BY <1>2, <3>1 DEF RegistersFirst
  <2>2. QED
    BY <2>1
<1>5. RegistersFirst(i)'
  <2>1. handler[i].id = None => handler'[i].at = "read"
    BY <1>1 DEF Accept, SendAck, SendPeerList, RegistersFirst, Handler
  <2>2. links'[i].owner = links[i].owner
    BY <1>3 DEF Steady, Changed
  <2>3. QED
    BY <1>1, <1>2, <1>3, <2>1, <2>2 DEF RegistersFirst
<1>6. RegisteredOnce'
  <2>1. \A j \in Conns : handler'[j].id = handler[j].id
    BY <1>2
  <2>2. QED
    BY <1>1, <1>2, <2>1 DEF RegisteredOnce
<1>7. ListsMeet'
  <2>1. CASE Accept(i) \/ SendAck(i)
    <3>1. told' = told /\ (handler[i].id = None \/ handler'[i].at # "read")
      BY <1>1, <2>1 DEF Accept, SendAck, Handler, SigInv, HandlersFit
    <3>2. QED
      BY <1>1, <1>2, <3>1 DEF ListsMeet
  <2>2. CASE SendPeerList(i)
    <3>1. told' = [told EXCEPT ![i] = Listed]
      BY <2>2 DEF SendPeerList
    <3>2. \A j \in Conns : handler[j].id # None => handler[j].id \in Listed
      <4>1. ASSUME NEW j \in Conns, handler[j].id # None PROVE handler[j].id \in Listed
        <5>1. handler[j].id \in Clients
          BY <1>1, <4>1 DEF Handler
        <5>2. registry[handler[j].id] = 1
          BY <1>1, <5>1 DEF RegisteredOnce
        <5>3. QED
          BY <5>1, <5>2 DEF Listed
      <4>2. QED
        BY <4>1
    <3>3. told'[i] = Listed /\ \A j \in Conns : j # i => told'[j] = told[j]
      BY <1>1, <3>1
    <3>4. QED
      BY <1>1, <1>2, <3>2, <3>3 DEF ListsMeet
  <2>3. QED
    BY <2>1, <2>2
<1>8. QED
  BY <1>3, <1>4, <1>5, <1>6, <1>7 DEF StayKept
\* The halves a read leaves were further from the front.
LEMMA RestFirst ==
    ASSUME NEW q \in Seq(Half), NEW n \in 1 .. Len(q),
           \A k \in DOMAIN q : q[k].msg.type = "Register" => k <= q[k].part
    PROVE  \A k \in DOMAIN Rest(q, n) : Rest(q, n)[k].msg.type = "Register" =>
              /\ k + n <= Rest(q, n)[k].part /\ k <= Rest(q, n)[k].part
              /\ \E h \in DOMAIN q : q[h].msg.type = "Register"
<1>1. Len(q) \in Nat /\ DOMAIN q = 1 .. Len(q) /\ \A k \in 1 .. Len(q) : q[k] \in Half
  BY LenProperties, ElementOfSeq
<1>2. DOMAIN Rest(q, n) = 1 .. Len(q) - n
      /\ \A k \in 1 .. Len(q) - n : Rest(q, n)[k] = q[n + k]
  BY ReadPart, LenProperties
<1>3. ASSUME NEW k \in DOMAIN Rest(q, n), Rest(q, n)[k].msg.type = "Register"
      PROVE  /\ k + n <= Rest(q, n)[k].part /\ k <= Rest(q, n)[k].part
             /\ \E h \in DOMAIN q : q[h].msg.type = "Register"
  <2>1. k \in Int /\ n + k \in DOMAIN q /\ Rest(q, n)[k] = q[n + k]
    BY <1>1, <1>2
  <2>2. n + k <= q[n + k].part /\ q[n + k].part \in {1, 2}
    BY <1>1, <1>3, <2>1 DEF Half
  <2>3. QED
    BY <1>1, <1>3, <2>1, <2>2
<1>4. QED
  BY <1>3

\* Steps of the handler of i that read a registration: it is the only one ever.
LEMMA StayRegisters ==
    ASSUME SigInv, StayInv, NEW i \in DOMAIN links, UNCHANGED clientVars,
           NEW n, ReadRegister(i, n)
    PROVE  Steady(i) /\ StayKept(i)
<1> DEFINE q == links[i].toServer
           r == ServerRead(i, n)
<1>1. /\ SigTypeOK /\ NothingToHear /\ Stays(i) /\ RegistersFirst(i) /\ RegisteredOnce
      /\ ListsMeet /\ i \in Conns /\ links[i].owner \in Clients
      /\ handler \in [Conns -> Handler] /\ registry \in [Clients -> Nat]
      /\ links \in Seq(Link) /\ q \in Seq(Half)
  BY ClientTypes, LinkTypes, LinkFields DEF SigInv, SigTypeOK, StayInv
<1>2. /\ n \in 1 .. Len(q) /\ Consume(i, n) = [links EXCEPT ![i] = r] /\ r \in Link
      /\ r.owner = links[i].owner /\ r.clientOpen = links[i].clientOpen
      /\ r.serverOpen = links[i].serverOpen /\ r.reset = links[i].reset
      /\ r.toClient = links[i].toClient /\ r.toServer = Rest(q, n)
      /\ Chunk(i, n)[1] = q[1] /\ q[1].msg \in Messages(q)
  BY <1>1, ServerReads DEF ReadRegister
<1>3. /\ links' = Consume(i, n) /\ UNCHANGED <<offers, told, restarts>>
      /\ registry' = Pushed(q[1].msg.id)
      /\ handler' = [handler EXCEPT ![i] = [at |-> "ack", id |-> q[1].msg.id]]
      /\ Len(First(q, n)) = 2 /\ q[1].msg.type = "Register"
      /\ UNCHANGED <<loop, calling, connected, stream>>
  BY <1>2 DEF ReadRegister, ParsedAs, Parses, Chunk, clientVars
<1>4. n = 2 /\ q[1].msg.id = links[i].owner
  BY <1>1, <1>2, <1>3, ReadPart DEF NothingToHear
<1>5. handler[i].id = None /\ \A k \in DOMAIN q : q[k].msg.type = "Register" => k <= q[k].part
  <2>1. 1 \in DOMAIN q
    BY <1>1, <1>2, LenProperties
  <2>2. QED
    BY <1>1, <1>3, <2>1 DEF RegistersFirst
<1> HIDE DEF r
<1>6. Changed(i) /\ DOMAIN links' = DOMAIN links /\ links'[i] = r
  BY <1>1, <1>2, <1>3, LinkChanged
<1>7. Steady(i)
  BY <1>2, <1>6 DEF Steady
<1>8. handler'[i].at = "ack" /\ handler'[i].id = links[i].owner /\ links[i].owner # None
      /\ \A j \in Conns : j # i => handler'[j] = handler[j]
  BY <1>1, <1>3, <1>4, NoneAssumption
<1>9. \A j \in DOMAIN links : j # i => RegistersFirst(j)'
  <2>1. ASSUME NEW j \in DOMAIN links, j # i PROVE RegistersFirst(j)'
    <3>1. links'[j] = links[j] /\ handler'[j] = handler[j] /\ RegistersFirst(j)
      BY <1>6, <1>8, <2>1, ClientTypes DEF Changed, StayInv
    <3>2. QED
      BY <1>3, <3>1 DEF RegistersFirst
  <2>2. QED
    BY <2>1
<1>10. RegistersFirst(i)'
  <2>1. \A k \in DOMAIN Rest(q, 2) : Rest(q, 2)[k].msg.type # "Register"
    <3>1. ASSUME NEW k \in DOMAIN Rest(q, 2), Rest(q, 2)[k].msg.type = "Register"
          PROVE  FALSE
      <4>1. k + 2 <= Rest(q, 2)[k].part
        BY <1>1, <1>2, <1>4, <1>5, <3>1, RestFirst
      <4>2. k \in 1 .. Len(Rest(q, 2)) /\ Rest(q, 2)[k].part \in {1, 2}
        <5>1. Rest(q, 2) \in Seq(Half)
          BY <1>1, <1>2, <1>4, ReadPart
        <5>2. k \in 1 .. Len(Rest(q, 2)) /\ Rest(q, 2)[k] \in Half
          BY <3>1, <5>1, LenProperties, ElementOfSeq
        <5>3. QED
          BY <5>2 DEF Half
      <4>3. QED
        BY <4>1, <4>2
    <3>2. QED
      BY <3>1
  <2>2. links'[i].toServer = Rest(q, 2)
    BY <1>2, <1>4, <1>6
  <2>3. QED
    BY <1>8, <2>1, <2>2 DEF RegistersFirst
<1>11. RegisteredOnce'
  <2>1. ASSUME NEW c \in Clients
        PROVE  registry'[c] = IF \E j \in Conns : handler'[j].id = c THEN 1 ELSE 0
    <3>1. CASE c = links[i].owner
      <4>1. ~ \E j \in Conns : handler[j].id = c
        BY <1>1, <1>5, <3>1, Owners, NoneAssumption DEF StayInv
      <4>2. registry[c] = 0
        BY <1>1, <4>1 DEF RegisteredOnce
      <4>3. registry'[c] = 1
        BY <1>1, <1>3, <1>4, <3>1, <4>2 DEF Pushed
      <4>4. QED
        BY <1>1, <1>8, <3>1, <4>3
    <3>2. CASE c # links[i].owner
      <4>1. registry'[c] = registry[c]
        BY <1>1, <1>3, <1>4, <3>2 DEF Pushed
      <4>2. \A j \in Conns : handler'[j].id = c <=> handler[j].id = c
        BY <1>5, <1>8, <3>2, NoneAssumption
      <4>3. QED
        BY <1>1, <4>1, <4>2 DEF RegisteredOnce
    <3>3. QED
      BY <3>1, <3>2
  <2>2. QED
    BY <2>1 DEF RegisteredOnce
<1>12. ListsMeet'
  BY <1>1, <1>3, <1>8 DEF ListsMeet
<1>13. QED
  BY <1>7, <1>9, <1>10, <1>11, <1>12 DEF StayKept

\* Steps of the handler of i that read anything else.
LEMMA StayReads ==
    ASSUME SigInv, StayInv, NEW i \in DOMAIN links, UNCHANGED clientVars,
           NEW n, ReadOffer(i, n) \/ ReadCandidate(i, n) \/ ReadGarbage(i, n)
    PROVE  Steady(i) /\ StayKept(i)
<1> DEFINE q == links[i].toServer
           m == q[1].msg
           r == ServerRead(i, n)
<1>1. /\ SigTypeOK /\ Stays(i) /\ RegistersFirst(i) /\ RegisteredOnce
      /\ ListsMeet /\ i \in Conns /\ links \in Seq(Link) /\ q \in Seq(Half)
  BY ClientTypes, LinkTypes, LinkFields DEF SigInv, SigTypeOK, StayInv
<1>2. Arrives(i, n) /\ UNCHANGED <<registry, handler, told, loop, calling>>
  BY DEF ReadOffer, ReadCandidate, ReadGarbage, clientVars
<1>3. /\ n \in 1 .. Len(q) /\ Consume(i, n) = [links EXCEPT ![i] = r] /\ r \in Link
      /\ r.owner = links[i].owner /\ r.clientOpen = links[i].clientOpen
      /\ r.serverOpen = links[i].serverOpen /\ r.reset = links[i].reset
      /\ r.toClient = links[i].toClient /\ r.toServer = Rest(q, n)
      /\ Messages(r.toServer) \subseteq Messages(q)
      /\ Chunk(i, n)[1] = q[1] /\ m \in Messages(q) /\ m \in Message
  BY <1>1, <1>2, ServerReads
<1> HIDE DEF r, m
<1>4. PICK l \in Link :
        /\ links' = [links EXCEPT ![i] = l] /\ l.owner = links[i].owner
        /\ l.clientOpen = links[i].clientOpen /\ l.serverOpen = links[i].serverOpen
        /\ l.reset = links[i].reset /\ l.toServer = Rest(q, n)
        /\ l.toClient = links[i].toClient \/ handler[i].id # None
  <2>1. CASE ReadCandidate(i, n)
    <3> DEFINE w == FromServer(r, m)
    <3>1. links' = [Consume(i, n) EXCEPT ![i] = FromServer(Consume(i, n)[i], m)]
          /\ m.type = "IceCandidate"
      BY <1>3, <2>1 DEF ReadCandidate, ParsedAs, m
    <3>2. links' = [links EXCEPT ![i] = w]
      BY <1>3, <3>1
    <3>3. /\ w \in Link /\ w.owner = r.owner /\ w.clientOpen = r.clientOpen
          /\ w.serverOpen = r.serverOpen /\ w.toServer = r.toServer
          /\ r.clientOpen => w.reset = r.reset
      BY <1>3, ServerWrites
    <3>4. handler[i].id # None
      BY <1>1, <1>3, <3>1 DEF RegistersFirst
    <3> HIDE DEF w
    <3>5. QED
      BY <1>1, <1>3, <3>2, <3>3, <3>4 DEF Stays
  <2>2. CASE ReadOffer(i, n) \/ ReadGarbage(i, n)
    <3>1. links' = [links EXCEPT ![i] = r]
      BY <1>3, <2>2 DEF ReadOffer, ReadGarbage
    <3>2. QED
      BY <1>3, <3>1
  <2>3. QED
    BY <2>1, <2>2
<1>5. Changed(i) /\ DOMAIN links' = DOMAIN links /\ links'[i] = l
  BY <1>1, <1>4, LinkChanged
<1>6. Steady(i)
  BY <1>4, <1>5 DEF Steady
<1>7. \A j \in DOMAIN links : j # i => RegistersFirst(j)'
  <2>1. ASSUME NEW j \in DOMAIN links, j # i PROVE RegistersFirst(j)'
    <3>1. links'[j] = links[j] /\ RegistersFirst(j)
      BY <1>5, <2>1 DEF Changed, StayInv
    <3>2. QED
      BY <1>2, <3>1 DEF RegistersFirst
  <2>2. QED
    BY <2>1
<1>8. RegistersFirst(i)'
  <2>1. \A k \in DOMAIN q : q[k].msg.type = "Register" => k <= q[k].part /\ handler[i].id = None
    BY <1>1 DEF RegistersFirst
  <2>2. \A k \in DOMAIN Rest(q, n) : Rest(q, n)[k].msg.type = "Register" =>
           k <= Rest(q, n)[k].part /\ handler[i].id = None
    BY <1>1, <1>3, <2>1, RestFirst
  <2>3. Messages(Rest(q, n)) \subseteq Messages(q)
    BY <1>3
  <2>4. /\ links'[i].toServer = Rest(q, n) /\ links'[i].owner = links[i].owner
        /\ links'[i].toClient = links[i].toClient \/ handler[i].id # None
    BY <1>4, <1>5
  <2>5. QED
    BY <1>1, <1>2, <2>2, <2>3, <2>4 DEF RegistersFirst
<1>9. RegisteredOnce' /\ ListsMeet'
  BY <1>1, <1>2 DEF RegisteredOnce, ListsMeet
<1>10. QED
  BY <1>6, <1>7, <1>8, <1>9 DEF StayKept
\* A step of a client on a connection whose registration has been read.
LEMMA StayClient ==
    ASSUME SigInv, StayInv, UNCHANGED serverVars, NEW i \in DOMAIN links, Steady(i),
           handler[i].id # None,
           \A k \in DOMAIN links'[i].toServer :
              links'[i].toServer[k].msg.type = "Register" =>
                 k \in DOMAIN links[i].toServer /\ links[i].toServer[k] = links'[i].toServer[k],
           \A j \in Conns : j # i => loop'[j] = loop[j],
           \A c \in Clients : c # links[i].owner => calling'[c] = calling[c]
    PROVE  StayKept(i)
<1>1. UNCHANGED <<registry, handler, told>>
  BY DEF serverVars
<1>2. RegisteredOnce' /\ ListsMeet'
  BY <1>1 DEF StayInv, RegisteredOnce, ListsMeet
<1>3. RegistersFirst(i)'
  BY <1>1 DEF StayInv, RegistersFirst
<1>4. ASSUME NEW j \in DOMAIN links, j # i PROVE RegistersFirst(j)'
  <2>1. /\ links'[j] = links[j] /\ RegistersFirst(j) /\ j \in Conns
        /\ links[j].owner \in Clients /\ links[j].owner # links[i].owner
    BY <1>4, ClientTypes DEF Steady, Changed, StayInv, Stays
  <2>2. QED
    BY <1>1, <1>4, <2>1 DEF RegistersFirst
<1>5. QED
  BY <1>2, <1>3, <1>4 DEF StayKept

\* connect() returns only when its registration has been read.
LEMMA StayAnswered ==
    ASSUME SigInv, StayInv, UNCHANGED serverVars, NEW c \in Clients, Answered(c)
    PROVE  \E i \in DOMAIN links : Steady(i) /\ StayKept(i)
<1>1. calling[c] = "connect" /\ connected' = connected
  BY DEF Answered, ConnectSucceeds, ConnectFails
<1>2. PICK i \in DOMAIN links : i = stream[c] /\ links[i].owner = c
  BY <1>1, ClientTypes, Streams DEF SigInv
<1>3. Stays(i) /\ RegistersFirst(i) /\ i \in Conns
  BY ClientTypes DEF StayInv
<1>4. PICK n \in Cuts(links[i].toClient) :
        links' = [links EXCEPT ![i].toClient = Rest(links[i].toClient, n)]
  BY <1>2, <1>3 DEF Answered, ConnectSucceeds, ConnectFails, AtEnd, Stays
<1>5. /\ ClientEffect(i) /\ links'[i].clientOpen = links[i].clientOpen
      /\ links'[i].toServer = links[i].toServer /\ links'[i].reset = links[i].reset
      /\ links[i].toClient # <<>>
  BY <1>4, ClientReads, ClientTypes
<1>6. Steady(i)
  BY <1>5 DEF ClientEffect, Steady
<1>7. handler[i].id # None
  BY <1>3, <1>5 DEF RegistersFirst
<1>8. /\ \A j \in Conns : j # i => loop'[j] = loop[j]
      /\ \A d \in Clients : d # links[i].owner => calling'[d] = calling[d]
  BY <1>2, ClientTypes DEF Answered, ConnectSucceeds, ConnectFails
<1>9. StayKept(i)
  BY <1>5, <1>6, <1>7, <1>8, StayClient
<1>10. QED
  BY <1>6, <1>9

LEMMA StaySends ==
    ASSUME SigInv, StayInv, UNCHANGED serverVars, NEW c \in Clients,
           NEW type \in {"Offer", "Answer", "IceCandidate"}, NEW to \in Clients \ {c},
           Send(c, type, to)
    PROVE  \E i \in DOMAIN links : Steady(i) /\ StayKept(i)
<1>1. PICK i \in DOMAIN links : i = stream[c] /\ links[i].owner = c
  BY ClientTypes, Streams DEF SigInv, Send
<1> DEFINE m == [type |-> type, from |-> c, to |-> to]
           q == links[i].toServer
           l == FromClient(links[i], m)
<1>2. /\ calling[c] = "idle" /\ links' = [links EXCEPT ![i] = l]
      /\ UNCHANGED <<calling, loop>>
  BY <1>1 DEF Send
<1>3. m \in Message /\ m.type # "Register" /\ links[i] \in Link /\ q \in Seq(Half)
  BY MessagesToSend, LinkTypes, LinkFields, ClientTypes
<1> HIDE DEF m
<1>4. Stays(i) /\ RegistersFirst(i)
  BY DEF StayInv
<1>5. /\ l \in Link /\ l.owner = links[i].owner /\ l.clientOpen = links[i].clientOpen
      /\ l.serverOpen = links[i].serverOpen /\ l.toClient = links[i].toClient
      /\ l.reset = links[i].reset /\ l.toServer = q \o Whole(m)
  BY <1>3, <1>4, ClientWrites DEF Stays
<1> HIDE DEF l
<1>6. Changed(i) /\ DOMAIN links' = DOMAIN links /\ links'[i] = l
  BY <1>2, <1>5, LinkChanged, ClientTypes
<1>7. Steady(i)
  BY <1>5, <1>6 DEF Steady
<1>8. handler[i].id # None
  BY <1>1, <1>2, <1>4 DEF RegistersFirst
<1>9. \A k \in DOMAIN (q \o Whole(m)) : (q \o Whole(m))[k].msg.type = "Register" =>
         k \in DOMAIN q /\ q[k] = (q \o Whole(m))[k]
  <2> DEFINE w == q \o Whole(m)
  <2>1. /\ Len(q) \in Nat /\ DOMAIN q = 1 .. Len(q) /\ DOMAIN w = 1 .. Len(q) + 2
        /\ \A k \in 1 .. Len(q) : w[k] = q[k]
        /\ \A k \in {1, 2} : w[Len(q) + k] = [msg |-> m, part |-> k]
    BY <1>3, WrittenPart, LenProperties
  <2> HIDE DEF w, q
  <2>2. ASSUME NEW k \in DOMAIN w, w[k].msg.type = "Register"
        PROVE  k \in DOMAIN q /\ q[k] = w[k]
    <3>1. CASE k > Len(q)
      <4>1. k - Len(q) \in {1, 2} /\ Len(q) + (k - Len(q)) = k
        BY <2>1, <3>1
      <4>2. w[k].msg = m
        BY <2>1, <4>1
      <4>3. QED
        BY <1>3, <2>2, <4>2
    <3>2. CASE k <= Len(q)
      BY <2>1, <3>2
    <3>3. QED
      BY <2>1, <3>1, <3>2
  <2>3. QED
    BY <2>2 DEF w
<1>10. \A k \in DOMAIN links'[i].toServer :
          links'[i].toServer[k].msg.type = "Register" =>
             k \in DOMAIN links[i].toServer /\ links[i].toServer[k] = links'[i].toServer[k]
  BY <1>5, <1>6, <1>9
<1>11. StayKept(i)
  BY <1>2, <1>7, <1>8, <1>10, StayClient
<1>12. QED
  BY <1>7, <1>11

\* The loop of i reads on, and never ends.
LEMMA StayLoops ==
    ASSUME SigInv, StayInv, UNCHANGED serverVars, NEW i \in DOMAIN links, LoopStep(i)
    PROVE  connected' = connected /\ Steady(i) /\ StayKept(i)
<1>1. Stays(i) /\ RegistersFirst(i) /\ i \in Conns
  BY ClientTypes DEF StayInv
<1>2. handler[i].id # None
  BY <1>1 DEF LoopStep, LoopGoesOn, LoopReads, LoopEnds, RegistersFirst
<1>3. LoopGoesOn(i) \/ LoopReads(i)
  BY <1>1 DEF LoopStep, LoopEnds, AtEnd, Stays
<1>4. /\ UNCHANGED <<connected, calling>> /\ \A j \in Conns : j # i => loop'[j] = loop[j]
      /\ \/ links' = links
         \/ \E n \in Cuts(links[i].toClient) :
               links' = [links EXCEPT ![i].toClient = Rest(links[i].toClient, n)]
  BY <1>1, <1>3, ClientTypes DEF LoopGoesOn, LoopReads
<1>5. Steady(i) /\ links'[i].toServer = links[i].toServer
  <2>1. CASE links' = links
    BY <2>1, ClientTypes DEF Steady, Changed
  <2>2. ASSUME NEW n \in Cuts(links[i].toClient),
               links' = [links EXCEPT ![i].toClient = Rest(links[i].toClient, n)]
        PROVE  Steady(i) /\ links'[i].toServer = links[i].toServer
    BY <2>2, ClientReads, ClientTypes DEF ClientEffect, Steady
  <2>3. QED
    BY <1>4, <2>1, <2>2
<1>6. StayKept(i)
  BY <1>2, <1>4, <1>5, StayClient
<1>7. QED
  BY <1>4, <1>5, <1>6
\* A client that has a connection opens no other.
LEMMA ConnectsFirst ==
    ASSUME SigInv, ConnectOnce, NEW c \in Clients, Connect(c)
    PROVE  /\ \A i \in DOMAIN links : links[i].owner # c
           /\ links' = Append(links, NewLink(c, [type |-> "Register", id |-> c]))
<1> DEFINE own == {i \in DOMAIN links : links[i].owner = c}
<1>1. Cardinality(own) < MaxConnects[c] /\ MaxConnects[c] <= 1 /\ MaxConnects[c] \in Nat
  BY ConnectsAssumption DEF Connect, ConnectOnce
<1>2. IsFiniteSet(own)
  <2>1. own \subseteq 1 .. Len(links) /\ Len(links) \in Nat
    BY LinkTypes, ClientTypes
  <2>2. QED
    BY <2>1, FS_Interval, FS_Subset
<1>3. own = {}
  BY <1>1, <1>2, FS_CardinalityType, FS_EmptySet
<1>4. stream[c] = None
  BY <1>3, ClientTypes, Streams DEF SigInv
<1>5. QED
  BY <1>3, <1>4 DEF Connect

LEMMA StayConnects ==
    ASSUME SigInv, StayInv, ConnectOnce, UNCHANGED serverVars, NEW c \in Clients, Connect(c)
    PROVE  StayInv'
<1> DEFINE N == Len(links) + 1
           m == [type |-> "Register", id |-> c]
           new == NewLink(c, m)
<1>1. /\ \A i \in DOMAIN links : links[i].owner # c
      /\ links' = Append(links, new)
  BY ConnectsFirst
<1>2. /\ connected' = [connected EXCEPT ![c] = TRUE]
      /\ calling' = [calling EXCEPT ![c] = "connect"]
      /\ UNCHANGED loop /\ Len(links) < MaxConns
  BY DEF Connect
<1>3. UNCHANGED <<registry, handler, told>>
  BY DEF serverVars
<1>4. /\ new \in Link /\ new.owner = c /\ new.clientOpen /\ new.serverOpen /\ ~new.reset
      /\ new.toClient = <<>> /\ new.toServer = Whole(m) /\ Messages(new.toServer) = {m}
  BY LinkOpens
<1>5. m.type = "Register" /\ m \in Message
  BY MessagesToSend
<1> HIDE DEF new, m
<1>6. /\ links' \in Seq(Link) /\ DOMAIN links' = DOMAIN links \cup {N}
      /\ links'[N] = new /\ \A j \in DOMAIN links : links'[j] = links[j]
      /\ N \in Conns /\ N \notin DOMAIN links
  <2>1. /\ links' \in Seq(Link) /\ Len(links') = N /\ links'[N] = new
        /\ \A j \in 1 .. Len(links) : links'[j] = links[j]
    BY <1>1, <1>4, AppendProperties, ClientTypes
  <2>2. DOMAIN links' = 1 .. N /\ DOMAIN links = 1 .. Len(links) /\ Len(links) \in Nat
    BY <2>1, LenProperties, LinkTypes, ClientTypes
  <2>3. QED
    BY <1>2, <2>1, <2>2, ConnsAssumption DEF Conns
<1>7. handler[N].at = "none" /\ handler[N].id = None /\ loop[N] = "none"
  BY <1>6 DEF SigInv, HandlersFit
<1>8. PICK M \in Conns : M = N
  BY <1>6
<1> HIDE DEF N
<1>9. ASSUME NEW i \in DOMAIN links' PROVE Stays(i)' /\ RegistersFirst(i)'
  <2>1. CASE i = M
    <3>1. connected'[c] /\ calling'[c] = "connect"
      BY <1>2, ClientTypes
    <3>2. Stays(i)'
      BY <1>1, <1>4, <1>6, <1>8, <2>1, <3>1 DEF Stays
    <3>3. \A k \in DOMAIN Whole(m) : k <= Whole(m)[k].part
      BY DEF Whole
    <3>4. RegistersFirst(i)'
      BY <1>2, <1>3, <1>4, <1>5, <1>6, <1>7, <1>8, <2>1, <3>1, <3>3 DEF RegistersFirst
    <3>5. QED
      BY <3>2, <3>4
  <2>2. CASE i \in DOMAIN links
    <3>1. /\ Stays(i) /\ RegistersFirst(i) /\ links[i].owner \in Clients
          /\ links[i].owner # c /\ links'[i] = links[i]
      BY <1>1, <1>6, <2>2, ClientTypes DEF StayInv
    <3>2. connected'[links[i].owner] = connected[links[i].owner]
          /\ calling'[links[i].owner] = calling[links[i].owner]
      BY <1>2, <3>1, ClientTypes
    <3>3. Stays(i)'
      BY <1>4, <1>6, <3>1, <3>2 DEF Stays
    <3>4. RegistersFirst(i)'
      BY <1>2, <1>3, <3>1, <3>2 DEF RegistersFirst
    <3>5. QED
      BY <3>3, <3>4
  <2>3. QED
    BY <1>6, <1>8, <2>1, <2>2
<1>10. RegisteredOnce' /\ ListsMeet'
  BY <1>3 DEF StayInv, RegisteredOnce, ListsMeet
<1>11. QED
  BY <1>9, <1>10 DEF StayInv

LEMMA StayInvInit == SigInit => StayInv
<1> SUFFICES ASSUME SigInit PROVE StayInv
  OBVIOUS
<1>1. DOMAIN links = {}
  BY EmptySeq DEF SigInit
<1>2. \A i \in Conns : handler[i].id = None
  BY DEF SigInit, ServerInit
<1>3. \A c \in Clients : registry[c] = 0
  BY DEF SigInit, ServerInit
<1>4. RegisteredOnce /\ ListsMeet
  BY <1>2, <1>3, NoneAssumption DEF RegisteredOnce, ListsMeet
<1>5. QED
  BY <1>1, <1>4 DEF StayInv

LEMMA StayInvNext ==
    ASSUME ConnectOnce, SigInv, StayInv, [SigNext]_sigVars
    PROVE  StayInv'
<1>1. ASSUME NEW i \in DOMAIN links, Steady(i), StayKept(i), connected' = connected
      PROVE  StayInv'
  <2>1. \A j \in DOMAIN links' : Stays(j)'
    BY <1>1, StaysOn DEF StayInv
  <2>2. \A j \in DOMAIN links' : RegistersFirst(j)'
    BY <1>1 DEF Steady, StayKept
  <2>3. QED
    BY <1>1, <2>1, <2>2 DEF StayInv, StayKept
<1>2. CASE ServerNext /\ UNCHANGED clientVars
  <2>1. ~Restart
    BY RestartAssumption DEF Restart, ConnectOnce, SigInv, SigTypeOK
  <2>2. PICK i \in DOMAIN links : HandlerStep(i)
    BY <1>2, <2>1 DEF ServerNext
  <2>3. ~HandlerEnds(i) /\ ~HandlerFails(i)
    BY DEF HandlerEnds, HandlerFails, StayInv, Stays
  <2>4. Steady(i) /\ StayKept(i)
    BY <1>2, <2>2, <2>3, StayWrites, StayRegisters, StayReads DEF HandlerStep
  <2>5. connected' = connected
    BY <1>2 DEF clientVars
  <2>6. QED
    BY <1>1, <2>4, <2>5
<1>3. CASE ClientNext /\ UNCHANGED serverVars
  <2>1. ASSUME NEW c \in Clients, Connect(c) PROVE StayInv'
    BY <1>3, <2>1, StayConnects
  <2>2. ASSUME NEW c \in Clients, Answered(c) PROVE StayInv'
    <3>1. connected' = connected
      BY <2>2 DEF Answered, ConnectSucceeds, ConnectFails
    <3>2. QED
      BY <1>1, <1>3, <2>2, <3>1, StayAnswered
  <2>3. ASSUME NEW c \in Clients, NEW type \in {"Offer", "Answer", "IceCandidate"},
               NEW to \in Clients \ {c}, Send(c, type, to)
        PROVE  StayInv'
    <3>1. connected' = connected
      BY <2>3 DEF Send
    <3>2. QED
      BY <1>1, <1>3, <2>3, <3>1, StaySends
  <2>4. ASSUME NEW i \in DOMAIN links, LoopStep(i) PROVE StayInv'
    BY <1>1, <1>3, <2>4, StayLoops
  <2>5. \A c \in Clients : ~Exit(c)
    BY DEF Exit, ConnectOnce
  <2>6. QED
    BY <1>3, <2>1, <2>2, <2>3, <2>4, <2>5 DEF ClientNext
<1>4. CASE UNCHANGED sigVars
  <2>1. UNCHANGED links /\ UNCHANGED <<registry, offers, handler, told, restarts>>
        /\ UNCHANGED <<stream, connected, calling, loop, events, sends>>
    BY <1>4 DEF sigVars, serverVars, clientVars
  <2>2. QED
    BY <2>1 DEF StayInv, Stays, RegistersFirst, RegisteredOnce, ListsMeet
<1>5. QED
  BY <1>2, <1>3, <1>4 DEF SigNext

LEMMA StayInvAlways == ASSUME ConnectOnce PROVE SigSpec => []StayInv
<1>1. StayInv /\ SigInv /\ [SigNext]_sigVars => StayInv'
  BY StayInvNext
<1>2. QED
  BY <1>1, StayInvInit, SigInvAlways, PTL DEF SigSpec

\* Where clients connect once and stay, of two that have been sent their list one
\* was told of the other, however the server's handlers take turns between pushing
\* a client and copying the list for it.
THEOREM ListsDoMeet == ASSUME ConnectOnce PROVE SigSpec => []ListsMeet
<1>1. StayInv => ListsMeet
  BY DEF StayInv
<1>2. QED
  BY <1>1, StayInvAlways, PTL

\* There too, a client whose read loop runs is in the registry exactly once and its
\* flag says it is connected.
THEOREM ListenersAreListed == ASSUME ConnectOnce PROVE SigSpec => []ListedWhileListening
<1>1. SigInv /\ StayInv => ListedWhileListening
  <2>1. ASSUME SigInv, StayInv, NEW i \in Conns, loop[i] \in {"check", "read"}
        PROVE  connected[links[i].owner] /\ registry[links[i].owner] = 1
    <3>1. i \in DOMAIN links
      BY <2>1 DEF SigInv, HandlersFit
    <3>2. handler[i].id # None /\ connected[links[i].owner]
      BY <2>1, <3>1 DEF StayInv, Stays, RegistersFirst
    <3>3. handler[i].id = links[i].owner /\ links[i].owner \in Clients
      BY <2>1, <3>1, <3>2, ClientTypes DEF SigInv, HandlersFit
    <3>4. QED
      BY <2>1, <3>2, <3>3 DEF StayInv, RegisteredOnce
  <2>2. QED
    BY <2>1 DEF ListedWhileListening
<1>2. QED
  BY <1>1, SigInvAlways, StayInvAlways, PTL

-----------------------------------------------------------------------------
(* The server as a directory, where clients connect once and stay.         *)

Looked(j) == handler[j].at = "read" /\ handler[j].id # None
Listens(j) == loop[j] \in {"check", "read"}

LEMMA LooksKept ==
    ASSUME \A j \in Conns : /\ Looked(j)' <=> Looked(j)
                            /\ Looked(j) => told'[j] = told[j] /\ handler'[j].id = handler[j].id
    PROVE  Looks' = Looks
<1> DEFINE L(j) == [by |-> handler[j].id, saw |-> told[j]]
           S == {j \in Conns : Looked(j)}
<1>1. Looks = {L(j) : j \in S} /\ Looks' = {L(j)' : j \in S'}
  BY DEF Looks, Looked
<1>2. S' = S
  OBVIOUS
<1>3. \A j \in S : L(j)' = L(j)
  OBVIOUS
<1> HIDE DEF L, S
<1>4. QED
  BY <1>1, <1>2, <1>3

LEMMA ListenersKept ==
    ASSUME DOMAIN links \subseteq DOMAIN links',
           \A j \in DOMAIN links : links'[j].owner = links[j].owner /\ (Listens(j)' <=> Listens(j)),
           \A j \in DOMAIN links' \ DOMAIN links : ~Listens(j)'
    PROVE  Listeners' = Listeners
<1> DEFINE S == {j \in DOMAIN links : Listens(j)}
<1>1. Listeners = {links[j].owner : j \in S} /\ Listeners' = {links'[j].owner : j \in S'}
  BY DEF Listeners, Listens
<1>2. S' = S
  OBVIOUS
<1>3. \A j \in S : links'[j].owner = links[j].owner
  OBVIOUS
<1> HIDE DEF S
<1>4. QED
  BY <1>1, <1>2, <1>3

\* A step that leaves the directory as it is.
BookKept == UNCHANGED <<Listed, Looks, Listeners>>

\* The handlers' steps leave the read loops alone.
LEMMA HandlersListen ==
    ASSUME NEW i \in DOMAIN links, Steady(i), UNCHANGED clientVars
    PROVE  Listeners' = Listeners
<1>1. loop' = loop
  BY DEF clientVars
<1>2. DOMAIN links' = DOMAIN links /\ \A j \in DOMAIN links : links'[j].owner = links[j].owner
  BY DEF Steady, Changed
<1>3. QED
  BY <1>1, <1>2, ListenersKept DEF Listens

\* A client that a handler knows is in the registry.
LEMMA KnownIsListed ==
    ASSUME SigInv, StayInv, NEW i \in DOMAIN links, handler[i].id # None
    PROVE  handler[i].id = links[i].owner /\ links[i].owner \in Listed
<1>1. handler[i].id = links[i].owner /\ links[i].owner \in Clients /\ i \in Conns
  BY ClientTypes DEF SigInv, HandlersFit
<1>2. registry[links[i].owner] = 1
  BY <1>1 DEF StayInv, RegisteredOnce
<1>3. QED
  BY <1>1, <1>2 DEF Listed

\* The registration is a join.
LEMMA RegisterJoins ==
    ASSUME SigInv, StayInv, NEW i \in DOMAIN links, UNCHANGED clientVars,
           NEW n, ReadRegister(i, n)
    PROVE  Book!Join(links[i].owner)
<1> DEFINE q == links[i].toServer
           c == links[i].owner
<1>1. /\ i \in Conns /\ c \in Clients /\ q \in Seq(Half) /\ RegistersFirst(i)
      /\ handler \in [Conns -> Handler] /\ registry \in [Clients -> Nat]
      /\ links \in Seq(Link)
  BY ClientTypes, LinkTypes, LinkFields DEF SigInv, SigTypeOK, StayInv
<1>2. n \in 1 .. Len(q) /\ Chunk(i, n)[1] = q[1] /\ q[1].msg \in Messages(q)
  BY <1>1, ServerReads DEF ReadRegister
<1>3. /\ UNCHANGED told /\ registry' = Pushed(q[1].msg.id)
      /\ handler' = [handler EXCEPT ![i] = [at |-> "ack", id |-> q[1].msg.id]]
      /\ q[1].msg.type = "Register"
  BY <1>2 DEF ReadRegister, ParsedAs
<1>4. q[1].msg.id = c
  BY <1>2, <1>3, Served DEF SigInv
<1>5. handler[i].id = None
  <2>1. 1 \in DOMAIN q
    BY <1>1, <1>2, LenProperties
  <2>2. QED
    BY <1>1, <1>3, <2>1 DEF RegistersFirst
<1>6. c \notin Listed
  <2>1. \A j \in Conns : handler[j].id # c
    <3>1. \A j \in Conns : handler[j].id = c => j = i
      BY Owners DEF StayInv
    <3>2. QED
      BY <1>1, <1>5, <3>1, NoneAssumption
  <2>2. registry[c] = 0
    BY <1>1, <2>1 DEF StayInv, RegisteredOnce
  <2>3. QED
    BY <2>2 DEF Listed
<1>7. Listed' = Listed \cup {c}
  BY <1>1, <1>3, <1>4 DEF Listed, Pushed
<1>8. Looks' = Looks
  <2>1. /\ ~Looked(i) /\ ~Looked(i)'
        /\ \A j \in Conns : j # i => handler'[j] = handler[j]
    BY <1>1, <1>3, <1>5 DEF Looked
  <2>2. \A j \in Conns : /\ Looked(j)' <=> Looked(j)
                         /\ Looked(j) => told'[j] = told[j] /\ handler'[j].id = handler[j].id
    BY <1>3, <2>1 DEF Looked
  <2>3. QED
    BY <2>2, LooksKept
<1>9. Listeners' = Listeners
  BY StayRegisters, HandlersListen
<1>10. QED
  BY <1>6, <1>7, <1>8, <1>9 DEF Book!Join

\* The list a client is sent is a look.
LEMMA ListLooks ==
    ASSUME SigInv, StayInv, NEW i \in DOMAIN links, UNCHANGED clientVars, SendPeerList(i)
    PROVE  Book!Look(links[i].owner)
<1> DEFINE c == links[i].owner
           L(j) == [by |-> handler[j].id, saw |-> told[j]]
           S == {j \in Conns : Looked(j)}
<1>1. /\ i \in Conns /\ c \in Clients /\ RegistersFirst(i)
      /\ handler \in [Conns -> Handler] /\ told \in [Conns -> SUBSET Clients]
  BY ClientTypes DEF SigInv, SigTypeOK, StayInv
<1>2. /\ handler[i].at = "list" /\ UNCHANGED registry /\ told' = [told EXCEPT ![i] = Listed]
      /\ handler' = [handler EXCEPT ![i].at = "read"]
  BY DEF SendPeerList
<1>3. handler[i].id # None
  BY <1>1, <1>2 DEF RegistersFirst
<1>4. handler[i].id = c /\ c \in Listed
  BY <1>3, KnownIsListed
<1>5. /\ Looks = {L(j) : j \in S} /\ Looks' = {L(j)' : j \in S'}
      /\ \A j \in S : L(j).by = handler[j].id
  BY DEF Looks, Looked
<1>6. /\ handler'[i].at = "read" /\ handler'[i].id = c /\ told'[i] = Listed
      /\ \A j \in Conns : j # i => handler'[j] = handler[j] /\ told'[j] = told[j]
  BY <1>1, <1>2, <1>4 DEF Handler
<1>7. S' = S \cup {i} /\ i \notin S
  BY <1>1, <1>2, <1>3, <1>4, <1>6 DEF Looked
<1>8. \A j \in S : j \in Conns /\ handler[j].id # c
  <2>1. \A j \in Conns : handler[j].id = c => j = i
    BY Owners DEF StayInv
  <2>2. QED
    BY <1>7, <2>1
<1>9. L(i)' = [by |-> c, saw |-> Listed] /\ \A j \in S : L(j)' = L(j)
  BY <1>6, <1>7
<1> HIDE DEF L, S
<1>10. Looks' = Looks \cup {[by |-> c, saw |-> Listed]}
  BY <1>5, <1>7, <1>9
<1>11. \A look \in Looks : look.by # c
  BY <1>5, <1>8
<1>12. Listed' = Listed
  BY <1>2 DEF Listed
<1>13. Listeners' = Listeners
  BY StayWrites, HandlersListen
<1>14. QED
  BY <1>4, <1>10, <1>11, <1>12, <1>13 DEF Book!Look

\* No other step of a handler touches the directory.
LEMMA HandlerKeepsBook ==
    ASSUME SigInv, StayInv, NEW i \in DOMAIN links, UNCHANGED clientVars,
           \/ Accept(i) \/ SendAck(i)
           \/ \E n : ReadOffer(i, n) \/ ReadCandidate(i, n) \/ ReadGarbage(i, n)
    PROVE  BookKept
<1>1. /\ i \in Conns /\ handler \in [Conns -> Handler] /\ HandlersFit
  BY ClientTypes DEF SigInv, SigTypeOK
<1>2. UNCHANGED <<registry, told>>
  BY DEF Accept, SendAck, ReadOffer, ReadCandidate, ReadGarbage
<1>3. /\ \A j \in Conns : handler'[j].id = handler[j].id /\ (j # i => handler'[j] = handler[j])
      /\ Looked(i)' <=> Looked(i)
  <2>1. CASE Accept(i)
    BY <1>1, <2>1 DEF Accept, Looked, Handler, HandlersFit
  <2>2. CASE SendAck(i)
    BY <1>1, <2>2 DEF SendAck, Looked, Handler
  <2>3. CASE \E n : ReadOffer(i, n) \/ ReadCandidate(i, n) \/ ReadGarbage(i, n)
    <3>1. handler' = handler
      BY <2>3 DEF ReadOffer, ReadCandidate, ReadGarbage
    <3>2. QED
      BY <3>1 DEF Looked
  <2>4. QED
    BY <2>1, <2>2, <2>3
<1>4. Looks' = Looks
  <2>1. \A j \in Conns : Looked(j)' <=> Looked(j)
    BY <1>3 DEF Looked
  <2>2. QED
    BY <1>2, <1>3, <2>1, LooksKept
<1>5. Listed' = Listed
  BY <1>2 DEF Listed
<1>6. Steady(i)
  BY StayWrites, StayReads
<1>7. QED
  BY <1>4, <1>5, <1>6, HandlersListen DEF BookKept

\* The clients' steps leave the registry and the lists alone, and a step of one
\* connection that its loop outlives leaves everything.
LEMMA ClientKeepsBook ==
    ASSUME UNCHANGED serverVars
    PROVE  /\ UNCHANGED <<Listed, Looks>>
           /\ \A i \in DOMAIN links :
                 Steady(i) /\ (\A j \in DOMAIN links : Listens(j)' <=> Listens(j)) =>
                    BookKept
<1>1. UNCHANGED <<registry, handler, told>>
  BY DEF serverVars
<1>2. UNCHANGED <<Listed, Looks>>
  BY <1>1 DEF Listed, Looks
<1>3. ASSUME NEW i \in DOMAIN links, Steady(i),
             \A j \in DOMAIN links : Listens(j)' <=> Listens(j)
      PROVE  BookKept
  <2>1. DOMAIN links' = DOMAIN links /\ \A j \in DOMAIN links : links'[j].owner = links[j].owner
    BY <1>3 DEF Steady, Changed
  <2>2. Listeners' = Listeners
    BY <1>3, <2>1, ListenersKept
  <2>3. QED
    BY <1>2, <2>2 DEF BookKept
<1>4. QED
  BY <1>2, <1>3

\* A client that connects, and a connect() that fails, leave the directory alone;
\* one that succeeds makes its client listen.
LEMMA AnsweredListens ==
    ASSUME SigInv, StayInv, UNCHANGED serverVars, NEW c \in Clients, Answered(c)
    PROVE  BookKept \/ Book!Listen(c)
<1>1. PICK i \in DOMAIN links : Steady(i) /\ StayKept(i)
  BY StayAnswered
<1>2. CASE ConnectFails(c)
  BY <1>1, <1>2, ClientKeepsBook DEF ConnectFails, Listens
<1>3. CASE ConnectSucceeds(c)
  <2> DEFINE s == stream[c]
  <2>1. /\ s \in DOMAIN links /\ links[s].owner = c /\ calling[c] = "connect" /\ s \in Conns
        /\ loop \in [Conns -> {"none", "check", "read", "ended"}]
    BY <1>3, ClientTypes, Streams DEF SigInv, ConnectSucceeds
  <2>2. /\ loop' = [loop EXCEPT ![s] = "check"]
        /\ \E n \in Cuts(links[s].toClient) :
              links' = [links EXCEPT ![s].toClient = Rest(links[s].toClient, n)]
    BY <1>3 DEF ConnectSucceeds
  <2>3. links[s].toClient # <<>>
    BY <2>1, <2>2, ClientReads, ClientTypes
  <2>4. handler[s].id # None
    BY <2>1, <2>3 DEF StayInv, RegistersFirst
  <2>5. c \in Listed
    BY <2>1, <2>4, KnownIsListed
  <2>6. /\ DOMAIN links' = DOMAIN links
        /\ \A j \in DOMAIN links : links'[j].owner = links[j].owner /\ j \in Conns
    BY <1>1, ClientTypes DEF Steady, Changed
  <2>7. Listeners' = Listeners \cup {c}
    <3> DEFINE S == {j \in DOMAIN links : Listens(j)}
    <3>1. Listeners = {links[j].owner : j \in S} /\ Listeners' = {links'[j].owner : j \in S'}
      BY DEF Listeners, Listens
    <3>2. S' = S \cup {s}
      BY <2>1, <2>2, <2>6 DEF Listens
    <3>3. \A j \in S' : links'[j].owner = links[j].owner
      BY <2>6
    <3> HIDE DEF S
    <3>4. QED
      BY <2>1, <3>1, <3>2, <3>3
  <2>8. QED
    BY <2>5, <2>7, ClientKeepsBook DEF BookKept, Book!Listen
<1>4. QED
  BY <1>2, <1>3 DEF Answered

LEMMA ConnectKeepsBook ==
    ASSUME SigInv, ConnectOnce, UNCHANGED serverVars, NEW c \in Clients, Connect(c)
    PROVE  BookKept
<1> DEFINE N == Len(links) + 1
           new == NewLink(c, [type |-> "Register", id |-> c])
<1>1. links' = Append(links, new) /\ loop' = loop /\ Len(links) < MaxConns
  BY ConnectsFirst DEF Connect
<1>2. new \in Link
  BY LinkOpens
<1> HIDE DEF new
<1>3. /\ DOMAIN links' = DOMAIN links \cup {N} /\ \A j \in DOMAIN links : links'[j] = links[j]
      /\ N \in Conns /\ N \notin DOMAIN links
  <2>1. /\ links' \in Seq(Link) /\ Len(links') = N
        /\ \A j \in 1 .. Len(links) : links'[j] = links[j]
    BY <1>1, <1>2, AppendProperties, ClientTypes
  <2>2. DOMAIN links' = 1 .. N /\ DOMAIN links = 1 .. Len(links) /\ Len(links) \in Nat
    BY <2>1, LenProperties, LinkTypes, ClientTypes
  <2>3. QED
    BY <1>1, <2>1, <2>2, ConnsAssumption DEF Conns
<1> HIDE DEF N
<1>4. loop[N] = "none"
  BY <1>3 DEF SigInv, HandlersFit
<1>5. Listeners' = Listeners
  BY <1>1, <1>3, <1>4, ListenersKept DEF Listens
<1>6. QED
  BY <1>5, ClientKeepsBook DEF BookKept

LEMMA LoopKeepsBook ==
    ASSUME SigInv, StayInv, UNCHANGED serverVars, NEW i \in DOMAIN links, LoopStep(i)
    PROVE  BookKept
<1>1. Steady(i) /\ Stays(i) /\ i \in Conns
  BY StayLoops, ClientTypes DEF StayInv
<1>2. LoopGoesOn(i) \/ LoopReads(i)
  BY <1>1 DEF LoopStep, LoopEnds, AtEnd, Stays
<1>3. \A j \in DOMAIN links : Listens(j)' <=> Listens(j)
  BY <1>1, <1>2, ClientTypes DEF LoopGoesOn, LoopReads, Listens
<1>4. QED
  BY <1>1, <1>3, ClientKeepsBook

LEMMA BookStep ==
    ConnectOnce /\ SigInv /\ StayInv /\ [SigNext]_sigVars => [Book!DirNext]_(Book!dirVars)
<1> SUFFICES ASSUME ConnectOnce, SigInv, StayInv, [SigNext]_sigVars
             PROVE  Book!DirNext \/ BookKept
  BY DEF Book!dirVars, BookKept
<1>0. \A i \in DOMAIN links : links[i].owner \in Clients
  BY ClientTypes
<1>1. CASE ServerNext /\ UNCHANGED clientVars
  <2>1. ~Restart
    BY RestartAssumption DEF Restart, ConnectOnce, SigInv, SigTypeOK
  <2>2. PICK i \in DOMAIN links : HandlerStep(i)
    BY <1>1, <2>1 DEF ServerNext
  <2>3. ~HandlerEnds(i) /\ ~HandlerFails(i)
    BY DEF HandlerEnds, HandlerFails, StayInv, Stays
  <2>4. CASE SendPeerList(i)
    BY <1>0, <1>1, <2>4, ListLooks DEF Book!DirNext
  <2>5. CASE \E n : ReadRegister(i, n)
    BY <1>0, <1>1, <2>5, RegisterJoins DEF Book!DirNext
  <2>6. CASE \/ Accept(i) \/ SendAck(i)
             \/ \E n : ReadOffer(i, n) \/ ReadCandidate(i, n) \/ ReadGarbage(i, n)
    BY <1>1, <2>6, HandlerKeepsBook
  <2>7. QED
    BY <2>2, <2>3, <2>4, <2>5, <2>6 DEF HandlerStep
<1>2. CASE ClientNext /\ UNCHANGED serverVars
  <2>1. ASSUME NEW c \in Clients, Connect(c) PROVE BookKept
    BY <1>2, <2>1, ConnectKeepsBook
  <2>2. ASSUME NEW c \in Clients, Answered(c) PROVE Book!DirNext \/ BookKept
    BY <1>2, <2>2, AnsweredListens DEF Book!DirNext
  <2>3. ASSUME NEW c \in Clients, NEW type \in {"Offer", "Answer", "IceCandidate"},
               NEW to \in Clients \ {c}, Send(c, type, to)
        PROVE  BookKept
    <3>1. PICK i \in DOMAIN links : Steady(i) /\ StayKept(i)
      BY <1>2, <2>3, StaySends
    <3>2. loop' = loop
      BY <2>3 DEF Send
    <3>3. QED
      BY <1>2, <3>1, <3>2, ClientKeepsBook DEF Listens
  <2>4. ASSUME NEW i \in DOMAIN links, LoopStep(i) PROVE BookKept
    BY <1>2, <2>4, LoopKeepsBook
  <2>5. \A c \in Clients : ~Exit(c)
    BY DEF Exit, ConnectOnce
  <2>6. QED
    BY <1>2, <2>1, <2>2, <2>3, <2>4, <2>5 DEF ClientNext
<1>3. CASE UNCHANGED sigVars
  BY <1>3 DEF sigVars, serverVars, clientVars, BookKept, Listed, Looks, Listeners
<1>4. QED
  BY <1>1, <1>2, <1>3 DEF SigNext

LEMMA BookInit == SigInit => Book!DirInit
<1> SUFFICES ASSUME SigInit PROVE Listed = {} /\ Looks = {} /\ Listeners = {}
  BY DEF Book!DirInit
<1>1. DOMAIN links = {}
  BY EmptySeq DEF SigInit
<1>2. QED
  BY <1>1 DEF SigInit, ServerInit, Listed, Looks, Listeners

\* Where clients connect once and stay, the tasks of the server and of the clients
\* together are one directory: every registration is a join, every list that is
\* sent a look at the whole of it, every connect() that succeeds the start of
\* listening of a member, and every other step changes nothing of it.
THEOREM ServerIsDirectory == ASSUME ConnectOnce PROVE SigSpec => ServesAsDirectory
<1>1. SigInv /\ StayInv /\ [SigNext]_sigVars => [Book!DirNext]_(Book!dirVars)
  BY BookStep
<1>2. QED
  BY <1>1, BookInit, SigInvAlways, StayInvAlways, PTL
  DEF SigSpec, ServesAsDirectory, Book!DirSpec
=============================================================================
