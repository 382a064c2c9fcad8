-------------------------- MODULE SignalingServer --------------------------
(***************************************************************************)
(* The signaling server (SignalingServer in src/src/signaling/client.rs):  *)
(* one handler task per accepted connection, all of them sharing the list  *)
(* of registered peers and the list of pending offers.  A handler awaits   *)
(* at every read and write, so each of those is an action.                 *)
(***************************************************************************)
EXTENDS SignalingLinks

CONSTANT MaxRestarts    \* bound: restarts of the server process

ASSUME RestartAssumption == MaxRestarts \in Nat

VARIABLES
    registry,   \* how many entries the server's `peers` has for each id
    offers,     \* pending_offers
    handler,    \* each connection's handler: where it is, and its client_id
    told,       \* auxiliary: the PeerList each connection was sent
    restarts    \* restarts so far

serverVars == <<registry, offers, handler, told, restarts>>

Serving == {"read", "ack", "list"}
Handler == [at : Serving \cup {"none", "closed", "failed", "gone"},
            id : Clients \cup {None}]

ServerInit ==
    /\ registry = [c \in Clients |-> 0]
    /\ offers = <<>>
    /\ handler = [i \in Conns |-> [at |-> "none", id |-> None]]
    /\ told = [i \in Conns |-> {}]
    /\ restarts = 0

\* The list is only pushed to, cleared of an id and copied, so the order of its
\* entries is not kept.
Listed == {c \in Clients : registry[c] > 0}
Pushed(id) == [registry EXCEPT ![id] = @ + 1]
Retained(id) == [c \in Clients |-> IF c = id THEN 0 ELSE registry[c]]

\* The handler of i waits in read(), and the first n halves arrive.
Arrives(i, n) == handler[i].at = "read" /\ n \in Cuts(links[i].toServer)
Chunk(i, n) == First(links[i].toServer, n)
Consume(i, n) == [links EXCEPT ![i].toServer = Rest(@, n)]

-----------------------------------------------------------------------------
(* Mutated forms of actions below, which the specification does not use.   *)

\* handle_client() is awaited in the accept loop and not spawned.
AcceptOneAtATime(i) ==
    /\ handler[i].at = "none" /\ links[i].serverOpen
    /\ \A j \in Conns : handler[j].at \notin Serving
    /\ handler' = [handler EXCEPT ![i].at = "read"]
    /\ UNCHANGED <<links, registry, offers, told, restarts>>

\* A registration replaces the list.
ReadRegisterOverwrites(i, n) ==
    /\ Arrives(i, n) /\ ParsedAs(Chunk(i, n), "Register")
    /\ links' = Consume(i, n)
    /\ registry' = [c \in Clients |-> IF c = links[i].toServer[1].msg.id THEN 1 ELSE 0]
    /\ handler' = [handler EXCEPT ![i] = [at |-> "ack", id |-> links[i].toServer[1].msg.id]]
    /\ UNCHANGED <<offers, told, restarts>>

\* The list of peers is taken out of the registry instead of copied.
SendPeerListTakes(i) ==
    /\ handler[i].at = "list"
    /\ links' = [links EXCEPT ![i] =
                    FromServer(@, [type |-> "PeerList", peers |-> Listed])]
    /\ told' = [told EXCEPT ![i] = Listed]
    /\ registry' = [c \in Clients |-> 0]
    /\ handler' = [handler EXCEPT ![i].at = "read"]
    /\ UNCHANGED <<offers, restarts>>

\* The end of a connection leaves its entry in place.
HandlerEndsUncleaned(i) ==
    /\ handler[i].at = "read" /\ links[i].toServer = <<>> /\ ~links[i].clientOpen
    /\ links' = [links EXCEPT ![i] = CloseServer(@)]
    /\ handler' = [handler EXCEPT ![i].at = "closed"]
    /\ UNCHANGED <<registry, offers, told, restarts>>

-----------------------------------------------------------------------------
\* accept() and spawn.
Accept(i) ==
    /\ handler[i].at = "none" /\ links[i].serverOpen
    /\ handler' = [handler EXCEPT ![i].at = "read"]
    /\ UNCHANGED <<links, registry, offers, told, restarts>>

\* The peer is pushed at once, whatever the list holds for its id already.
ReadRegister(i, n) ==
    /\ Arrives(i, n) /\ ParsedAs(Chunk(i, n), "Register")
    /\ links' = Consume(i, n)
    /\ registry' = Pushed(links[i].toServer[1].msg.id)
    /\ handler' = [handler EXCEPT ![i] = [at |-> "ack", id |-> links[i].toServer[1].msg.id]]
    /\ UNCHANGED <<offers, told, restarts>>

\* The acknowledgement and the list of peers are two writes.
SendAck(i) ==
    /\ handler[i].at = "ack"
    /\ links' = [links EXCEPT ![i] = FromServer(@, [type |-> "RegisterAck"])]
    /\ handler' = [handler EXCEPT ![i].at = "list"]
    /\ UNCHANGED <<registry, offers, told, restarts>>

SendPeerList(i) ==
    /\ handler[i].at = "list"
    /\ links' = [links EXCEPT ![i] =
                    FromServer(@, [type |-> "PeerList", peers |-> Listed])]
    /\ told' = [told EXCEPT ![i] = Listed]
    /\ handler' = [handler EXCEPT ![i].at = "read"]
    /\ UNCHANGED <<registry, offers, restarts>>

\* Offers and answers are kept, and kept only.
ReadOffer(i, n) ==
    /\ Arrives(i, n)
    /\ ParsedAs(Chunk(i, n), "Offer") \/ ParsedAs(Chunk(i, n), "Answer")
    /\ links' = Consume(i, n)
    /\ offers' = Append(offers, links[i].toServer[1].msg)
    /\ UNCHANGED <<registry, handler, told, restarts>>

\* A candidate goes back over the connection it came from; the result of that
\* write is ignored.
ReadCandidate(i, n) ==
    /\ Arrives(i, n) /\ ParsedAs(Chunk(i, n), "IceCandidate")
    /\ links' = [Consume(i, n) EXCEPT ![i] = FromServer(@, links[i].toServer[1].msg)]
    /\ UNCHANGED <<registry, offers, handler, told, restarts>>

\* "Failed to parse message", and the loop goes on with the next read.
ReadGarbage(i, n) ==
    /\ Arrives(i, n) /\ ~Parses(Chunk(i, n))
    /\ links' = Consume(i, n)
    /\ UNCHANGED <<registry, offers, handler, told, restarts>>

\* read() returns 0: every entry with the handler's id goes, whoever pushed it.
HandlerEnds(i) ==
    /\ handler[i].at = "read" /\ links[i].toServer = <<>> /\ ~links[i].clientOpen
    /\ links' = [links EXCEPT ![i] = CloseServer(@)]
    /\ registry' = Retained(handler[i].id)
    /\ handler' = [handler EXCEPT ![i].at = "closed"]
    /\ UNCHANGED <<offers, told, restarts>>

\* A read or a write fails, and `?` leaves handle_client() before the cleanup.
HandlerFails(i) ==
    /\ handler[i].at \in Serving /\ links[i].reset
    /\ links' = [links EXCEPT ![i] = CloseServer(@)]
    /\ handler' = [handler EXCEPT ![i].at = "failed"]
    /\ UNCHANGED <<registry, offers, told, restarts>>

\* The process dies and another takes its place: nothing is kept on disk.
Restart ==
    /\ restarts < MaxRestarts
    /\ restarts' = restarts + 1
    /\ registry' = [c \in Clients |-> 0]
    /\ offers' = <<>>
    /\ links' = [i \in DOMAIN links |->
                    IF links[i].serverOpen THEN CloseServer(links[i]) ELSE links[i]]
    /\ handler' = [i \in Conns |->
                    IF i \in DOMAIN links /\ links[i].serverOpen
                        THEN [handler[i] EXCEPT !.at = "gone"] ELSE handler[i]]
    /\ UNCHANGED told

HandlerStep(i) ==
    \/ Accept(i) \/ SendAck(i) \/ SendPeerList(i) \/ HandlerEnds(i) \/ HandlerFails(i)
    \/ \E n \in 1 .. Len(links[i].toServer) :
          ReadRegister(i, n) \/ ReadOffer(i, n) \/ ReadCandidate(i, n) \/ ReadGarbage(i, n)

ServerNext == Restart \/ \E i \in DOMAIN links : HandlerStep(i)
=============================================================================
