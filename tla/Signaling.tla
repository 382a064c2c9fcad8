----------------------------- MODULE Signaling -----------------------------
(***************************************************************************)
(* Signaling clients and their server together, over the connections they  *)
(* share.                                                                  *)
(***************************************************************************)
EXTENDS SignalingServer, SignalingClient

sigVars == <<links, serverVars, clientVars>>

SigInit == links = <<>> /\ ServerInit /\ ClientInit

SigNext ==
    \/ ServerNext /\ UNCHANGED clientVars
    \/ ClientNext /\ UNCHANGED serverVars

\* Every task whose read or write can go on is polled until it does.  Nobody
\* is obliged to call connect() or a send, and nothing has to fail; a reset
\* connection is one where the peer's end is closed already.
SigFairness ==
    /\ \A i \in Conns :
          /\ WF_sigVars(i \in DOMAIN links /\ HandlerStep(i) /\ UNCHANGED clientVars)
          /\ WF_sigVars(i \in DOMAIN links /\ LoopStep(i) /\ UNCHANGED serverVars)
    /\ \A c \in Clients : WF_sigVars(Answered(c) /\ UNCHANGED serverVars)

SigSpec == SigInit /\ [][SigNext]_sigVars /\ SigFairness

-----------------------------------------------------------------------------
(* What holds.                                                             *)

Sendings == {s \in [Clients -> Nat] : \A c \in Clients : s[c] <= MaxSends[c]}

\* The types of the variables; a stream or a loop belongs to an open end.
SigTypeOK ==
    /\ links \in Seq(Link) /\ Len(links) <= MaxConns
    /\ registry \in [Clients -> Nat]
    /\ offers \in Seq(Message)
    /\ handler \in [Conns -> Handler]
    /\ told \in [Conns -> SUBSET Clients]
    /\ restarts \in 0 .. MaxRestarts
    /\ stream \in [Clients -> Conns \cup {None}]
    /\ connected \in [Clients -> BOOLEAN]
    /\ calling \in [Clients -> {"idle", "connect", "exited"}]
    /\ loop \in [Conns -> {"none", "check", "read", "ended"}]
    /\ events \in [Clients -> Seq(Event)]
    /\ sends \in Sendings
    /\ \A c \in Clients : stream[c] # None =>
          /\ stream[c] \in DOMAIN links /\ links[stream[c]].owner = c
          /\ links[stream[c]].clientOpen /\ loop[stream[c]] = "none"

Serves(i, c) == handler[i].at \in Serving /\ handler[i].id = c

\* Every entry of the registry is accounted for by a handler that is still
\* serving its client or that failed before its cleanup; and a client that a
\* handler is serving is missing only when another handler of the same client
\* has cleaned up.  Resets, exits, reconnections and restarts included.
RegistryExplained ==
    \A c \in Clients :
        /\ c \in Listed =>
              \E i \in Conns : handler[i].id = c /\ handler[i].at \in Serving \cup {"failed"}
        /\ (\E i \in Conns : Serves(i, c)) /\ c \notin Listed =>
              \E i \in Conns : handler[i].id = c /\ handler[i].at = "closed"

\* No client is ever handed an event, whatever the clients send: offers and
\* answers stay in the server's list, a list of peers is only logged, and an
\* echoed candidate comes back over a stream that no read loop has, since a
\* client can send only between a connect() that failed and its next one.
NothingIsHeard == \A c \in Clients : events[c] = <<>>

\* Of two clients that have both been sent a list of peers, one was told of the
\* other: nobody falls between the registration and the list of another.  That
\* needs clients that connect once and stay.
ListsMeet ==
    \A i, j \in Conns :
        i # j /\ handler[i].id # None /\ handler[j].id # None
              /\ handler[i].at = "read" /\ handler[j].at = "read" =>
            handler[j].id \in told[i] \/ handler[i].id \in told[j]

\* A client whose read loop runs is registered, once, and says it is connected.
\* That too needs clients that connect once and stay.
ListedWhileListening ==
    \A i \in Conns : loop[i] \in {"check", "read"} =>
        LET c == links[i].owner IN
        connected[c] /\ registry[c] = 1

\* The looks that have been sent, and the clients whose read loop runs.
Looks ==
    {[by |-> handler[i].id, saw |-> told[i]] :
        i \in {j \in Conns : handler[j].at = "read" /\ handler[j].id # None}}
Listeners == {links[i].owner : i \in {j \in DOMAIN links : loop[j] \in {"check", "read"}}}

Book == INSTANCE Directory WITH members <- Listed, seen <- Looks, listeners <- Listeners

\* Handlers that share a list under a lock, each of them between two reads and
\* two writes of its own, are one directory: a client is pushed once and for
\* good, its list is the whole directory of one moment after that, and no read
\* loop starts for a client that is not in it.  That needs clients that connect
\* once and stay.
ServesAsDirectory == Book!DirSpec

\* connect() comes to an end, provided reads do not stop inside a message.
ConnectReturns == \A c \in Clients : calling[c] = "connect" ~> calling[c] # "connect"

\* A read loop whose connection the server has closed comes to its end.
LoopsEnd ==
    \A i \in Conns :
        (i \in DOMAIN links /\ loop[i] \in {"check", "read"} /\ ~links[i].serverOpen)
            ~> loop[i] = "ended"

-----------------------------------------------------------------------------
(* The inductive invariants behind the first four.                         *)

\* The messages of which a part is on its way.
Messages(halves) == {halves[k].msg : k \in DOMAIN halves}

\* A connection has a handler and a loop only once it is there; its handler is
\* over exactly when the server's end is closed, and knows its client by the
\* name the client has.  connect() waits on a stream.
HandlersFit ==
    /\ \A i \in Conns :
          /\ handler[i].at = "none" => handler[i].id = None
          /\ i \notin DOMAIN links => handler[i].at = "none" /\ loop[i] = "none"
    /\ \A i \in DOMAIN links :
          /\ links[i].serverOpen <=> handler[i].at \in Serving \cup {"none"}
          /\ handler[i].id \in {None, links[i].owner}
    /\ \A c \in Clients : calling[c] = "connect" => stream[c] # None

\* connect() does not wait on the connection, and no read loop reads it.
Unread(i) ==
    /\ loop[i] \in {"none", "ended"}
    /\ stream[links[i].owner] = i => calling[links[i].owner] # "connect"

\* That is so where anything but a registration and its answers is on its way.
NothingToHear ==
    \A i \in DOMAIN links :
        LET up == Messages(links[i].toServer)
            down == Messages(links[i].toClient) IN
        /\ \A m \in up : m.type = "Register" => m.id = links[i].owner
        /\ \A m \in down : m.type \in {"RegisterAck", "PeerList", "IceCandidate"}
        /\ (\E m \in up : m.type # "Register") \/ (\E m \in down : m.type = "IceCandidate") =>
              Unread(i)

SigInv == SigTypeOK /\ HandlersFit /\ NothingToHear /\ RegistryExplained /\ NothingIsHeard

\* Clients that connect once and stay, and a server that is not restarted.
ConnectOnce ==
    Mortal = {} /\ MaxRestarts = 0 /\ \A c \in Clients : MaxConnects[c] <= 1

\* Then every connection stays up, each client has one, and its flag is set.
Stays(i) ==
    /\ links[i].clientOpen /\ links[i].serverOpen /\ ~links[i].reset
    /\ connected[links[i].owner]
    /\ \A j \in DOMAIN links : links[j].owner = links[i].owner => j = i

\* A client is in the registry once when its handler has read its registration.
RegisteredOnce ==
    \A c \in Clients : registry[c] = IF \E i \in Conns : handler[i].id = c THEN 1 ELSE 0

\* The registration is the first thing on a connection and comes once; and the
\* client hears nothing, and gets out of connect() in no way, before it is read.
RegistersFirst(i) ==
    LET up == links[i].toServer IN
    /\ \A k \in DOMAIN up : up[k].msg.type = "Register" =>
          k <= up[k].part /\ handler[i].id = None
    /\ handler[i].id = None =>
          /\ handler[i].at \in {"none", "read"}
          /\ links[i].toClient = <<>> /\ loop[i] = "none"
          /\ calling[links[i].owner] = "connect"
          /\ \A m \in Messages(up) : m.type = "Register"

StayInv ==
    /\ \A i \in DOMAIN links : Stays(i) /\ RegistersFirst(i)
    /\ RegisteredOnce
    /\ ListsMeet

-----------------------------------------------------------------------------
(* What the source says and the code does not do.                          *)

\* client.rs:247, "Successfully registered": a client whose handler waits for its
\* next message is in the registry.
RegisteredIsListed ==
    \A i \in DOMAIN links :
        loop[i] \in {"check", "read"} /\ handler[i].at = "read" /\ links[i].clientOpen =>
            links[i].owner \in Listed

\* client.rs:116, "RegisterAck { success: true }": connect() does not fail for a
\* client the server has acknowledged and still serves.
AcknowledgedIsConnected ==
    \A i \in DOMAIN links :
        stream[links[i].owner] = i /\ Serves(i, links[i].owner) =>
            calling[links[i].owner] = "connect"
=============================================================================
