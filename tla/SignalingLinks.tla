--------------------------- MODULE SignalingLinks ---------------------------
(***************************************************************************)
(* The TCP connections between signaling clients and their server, as both *)
(* ends use them in src/src/signaling/client.rs.  A message is written in  *)
(* one piece of JSON with nothing around it, and a reader hands whatever   *)
(* one read() returned to the JSON parser; so what matters of the bytes is *)
(* where a read stops.  A message in transit is two halves, and a read     *)
(* takes any number of the halves that have arrived.                       *)
(***************************************************************************)
EXTENDS Integers, Sequences, FiniteSets

CONSTANTS
    Clients,    \* the clients, named by their client_id
    None,       \* "no client", "no connection"
    MaySplit,   \* may a read stop inside a message?
    MaxConns    \* bound: connections ever opened

Conns == 1 .. MaxConns

ASSUME NoneAssumption == None \notin Clients /\ None \notin Conns
ASSUME SplitAssumption == MaySplit \in BOOLEAN
ASSUME ConnsAssumption == MaxConns \in Nat

VARIABLE links      \* the connections, in the order they were opened

Message ==
         [type : {"Register"}, id : Clients]
    \cup [type : {"RegisterAck"}]
    \cup [type : {"PeerList"}, peers : SUBSET Clients]
    \cup [type : {"Offer", "Answer", "IceCandidate"}, from : Clients, to : Clients]

Half == [msg : Message, part : {1, 2}]

Link == [owner : Clients, clientOpen : BOOLEAN, serverOpen : BOOLEAN,
         reset : BOOLEAN, toServer : Seq(Half), toClient : Seq(Half)]

Whole(m) == <<[msg |-> m, part |-> 1], [msg |-> m, part |-> 2]>>

\* A connection just opened, with what its owner has written already.
NewLink(c, m) ==
    [owner |-> c, clientOpen |-> TRUE, serverOpen |-> TRUE, reset |-> FALSE,
     toServer |-> Whole(m), toClient |-> <<>>]

\* A write to an end that has closed is lost and answered with a reset.
FromClient(l, m) ==
    IF l.serverOpen THEN [l EXCEPT !.toServer = @ \o Whole(m)]
                    ELSE [l EXCEPT !.reset = TRUE]
FromServer(l, m) ==
    IF l.clientOpen THEN [l EXCEPT !.toClient = @ \o Whole(m)]
                    ELSE [l EXCEPT !.reset = TRUE]

\* Closing an end with unread data resets the connection.
CloseClient(l) ==
    [l EXCEPT !.clientOpen = FALSE, !.toClient = <<>>,
              !.reset = @ \/ l.toClient # <<>>]
CloseServer(l) ==
    [l EXCEPT !.serverOpen = FALSE, !.toServer = <<>>,
              !.reset = @ \/ l.toServer # <<>>]

\* Where a read of what has arrived may stop.
Cuts(halves) == {n \in 1 .. Len(halves) : MaySplit \/ halves[n].part = 2}

First(halves, n) == SubSeq(halves, 1, n)
Rest(halves, n) == SubSeq(halves, n + 1, Len(halves))

\* The JSON parser accepts one message, neither more nor less.
Parses(chunk) == Len(chunk) = 2 /\ chunk[1].part = 1
ParsedAs(chunk, type) == Parses(chunk) /\ chunk[1].msg.type = type
=============================================================================
