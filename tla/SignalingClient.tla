-------------------------- MODULE SignalingClient --------------------------
(***************************************************************************)
(* The signaling client (SignalingClient in src/src/signaling/client.rs).  *)
(* connect() and the send calls take &mut self and exclude each other; a   *)
(* successful connect() hands its stream to a read loop, a task of its own *)
(* that shares only the `connected` flag and the event channel with the    *)
(* client.  Every connect() leaves a loop behind, and all of a client's    *)
(* loops share the one flag.                                               *)
(***************************************************************************)
EXTENDS SignalingLinks

CONSTANTS
    Mortal,     \* the clients whose process may end
    MaxConnects,\* bound: connections each client opens
    MaxSends    \* bounds: messages each client sends beside Register

ASSUME MortalAssumption == Mortal \subseteq Clients
ASSUME ConnectsAssumption == MaxConnects \in [Clients -> Nat]
ASSUME SendsAssumption == MaxSends \in [Clients -> Nat]

VARIABLES
    stream,     \* self.stream: a connection, or None
    connected,  \* the flag
    calling,    \* is the client inside connect(), waiting for an answer?
    loop,       \* each connection's read loop
    events,     \* what went into the event channel
    sends       \* messages sent so far

clientVars == <<stream, connected, calling, loop, events, sends>>

Event == [type : {"OfferReceived", "AnswerReceived", "IceCandidateReceived"},
          from : Clients]
    \cup [type : {"PeerConnected"}, id : Clients]

ClientInit ==
    /\ stream = [c \in Clients |-> None]
    /\ connected = [c \in Clients |-> FALSE]
    /\ calling = [c \in Clients |-> "idle"]
    /\ loop = [i \in Conns |-> "none"]
    /\ events = [c \in Clients |-> <<>>]
    /\ sends = [c \in Clients |-> 0]

\* The client has been told that the server is gone, or will be at this read.
AtEnd(i) == ~links[i].serverOpen /\ (links[i].toClient = <<>> \/ links[i].reset)

-----------------------------------------------------------------------------
(* Mutated forms of actions below, which the specification does not use.   *)

\* The client keeps its stream beside the read loop.
ConnectSucceedsKeepsStream(c) ==
    /\ calling[c] = "connect"
    /\ \E n \in Cuts(links[stream[c]].toClient) :
          /\ ParsedAs(First(links[stream[c]].toClient, n), "RegisterAck")
          /\ links' = [links EXCEPT ![stream[c]].toClient = Rest(@, n)]
    /\ loop' = [loop EXCEPT ![stream[c]] = "check"]
    /\ calling' = [calling EXCEPT ![c] = "idle"]
    /\ UNCHANGED <<stream, connected, events, sends>>

\* handle_message() without the arm that hides the announcing one.
EventsOfPeers(m) ==
    IF m.type = "PeerList" /\ m.peers # {}
    THEN <<[type |-> "PeerConnected", id |-> CHOOSE c \in m.peers : TRUE]>> ELSE <<>>

\* read() returning 0 does not break the loop.
LoopIgnoresEnd(i) ==
    /\ loop[i] = "read" /\ AtEnd(i)
    /\ loop' = [loop EXCEPT ![i] = "check"]
    /\ UNCHANGED <<links, stream, connected, calling, events, sends>>

-----------------------------------------------------------------------------
\* handle_message(): a list of peers is only logged, for its first arm hides
\* the second, and so is every message but these.
EventsOf(m) ==
    CASE m.type = "Offer"        -> <<[type |-> "OfferReceived", from |-> m.from]>>
      [] m.type = "Answer"       -> <<[type |-> "AnswerReceived", from |-> m.from]>>
      [] m.type = "IceCandidate" -> <<[type |-> "IceCandidateReceived", from |-> m.from]>>
      [] OTHER                   -> <<>>

\* connect() up to its first read: the new stream takes the place of one that
\* a failed connect() left behind, the flag is set, and Register is written.
Connect(c) ==
    /\ calling[c] = "idle" /\ Len(links) < MaxConns
    /\ Cardinality({i \in DOMAIN links : links[i].owner = c}) < MaxConnects[c]
    /\ links' = Append(IF stream[c] = None THEN links
                       ELSE [links EXCEPT ![stream[c]] = CloseClient(@)],
                       NewLink(c, [type |-> "Register", id |-> c]))
    /\ stream' = [stream EXCEPT ![c] = Len(links) + 1]
    /\ connected' = [connected EXCEPT ![c] = TRUE]
    /\ calling' = [calling EXCEPT ![c] = "connect"]
    /\ UNCHANGED <<loop, events, sends>>

\* The read returns the acknowledgement and nothing else: the stream moves into
\* a new read loop.
ConnectSucceeds(c) ==
    /\ calling[c] = "connect"
    /\ \E n \in Cuts(links[stream[c]].toClient) :
          /\ ParsedAs(First(links[stream[c]].toClient, n), "RegisterAck")
          /\ links' = [links EXCEPT ![stream[c]].toClient = Rest(@, n)]
    /\ loop' = [loop EXCEPT ![stream[c]] = "check"]
    /\ stream' = [stream EXCEPT ![c] = None]
    /\ calling' = [calling EXCEPT ![c] = "idle"]
    /\ UNCHANGED <<connected, events, sends>>

\* The read returns anything else, and `?` leaves connect() with the stream in
\* place and the flag set.
ConnectFails(c) ==
    /\ calling[c] = "connect"
    /\ \/ \E n \in Cuts(links[stream[c]].toClient) :
             /\ ~ParsedAs(First(links[stream[c]].toClient, n), "RegisterAck")
             /\ links' = [links EXCEPT ![stream[c]].toClient = Rest(@, n)]
       \/ AtEnd(stream[c]) /\ UNCHANGED links
    /\ calling' = [calling EXCEPT ![c] = "idle"]
    /\ UNCHANGED <<stream, connected, loop, events, sends>>

\* send_offer(), send_answer(), send_ice_candidate().  Without a stream they
\* report "Not connected" and change nothing.
Send(c, type, to) ==
    /\ calling[c] = "idle" /\ stream[c] # None /\ sends[c] < MaxSends[c]
    /\ links' = [links EXCEPT ![stream[c]] =
                    FromClient(@, [type |-> type, from |-> c, to |-> to])]
    /\ sends' = [sends EXCEPT ![c] = @ + 1]
    /\ UNCHANGED <<stream, connected, calling, loop, events>>

-----------------------------------------------------------------------------
(* The read loop of connection i, whose owner's flag it shares.            *)

LoopGoesOn(i) ==
    /\ loop[i] = "check" /\ connected[links[i].owner]
    /\ loop' = [loop EXCEPT ![i] = "read"]
    /\ UNCHANGED <<links, stream, connected, calling, events, sends>>

LoopReads(i) ==
    /\ loop[i] = "read"
    /\ \E n \in Cuts(links[i].toClient) :
          LET chunk == First(links[i].toClient, n) IN
          /\ links' = [links EXCEPT ![i].toClient = Rest(@, n)]
          /\ events' = IF Parses(chunk)
                       THEN [events EXCEPT ![links[i].owner] = @ \o EventsOf(chunk[1].msg)]
                       ELSE events
    /\ loop' = [loop EXCEPT ![i] = "check"]
    /\ UNCHANGED <<stream, connected, calling, sends>>

\* The loop ends because the flag is down or the connection is: it clears the
\* flag and drops its stream.
LoopEnds(i) ==
    /\ \/ loop[i] = "check" /\ ~connected[links[i].owner]
       \/ loop[i] = "read" /\ AtEnd(i)
    /\ loop' = [loop EXCEPT ![i] = "ended"]
    /\ connected' = [connected EXCEPT ![links[i].owner] = FALSE]
    /\ links' = [links EXCEPT ![i] = CloseClient(@)]
    /\ UNCHANGED <<stream, calling, events, sends>>

\* The client's process ends, and the system closes its connections.
Exit(c) ==
    /\ c \in Mortal /\ calling[c] # "exited"
    /\ links' = [i \in DOMAIN links |->
                    IF links[i].owner = c /\ links[i].clientOpen
                        THEN CloseClient(links[i]) ELSE links[i]]
    /\ loop' = [i \in Conns |->
                    IF i \in DOMAIN links /\ links[i].owner = c THEN "ended" ELSE loop[i]]
    /\ stream' = [stream EXCEPT ![c] = None]
    /\ connected' = [connected EXCEPT ![c] = FALSE]
    /\ calling' = [calling EXCEPT ![c] = "exited"]
    /\ UNCHANGED <<events, sends>>

-----------------------------------------------------------------------------
Answered(c) == ConnectSucceeds(c) \/ ConnectFails(c)
LoopStep(i) == LoopGoesOn(i) \/ LoopReads(i) \/ LoopEnds(i)

ClientNext ==
    \/ \E c \in Clients :
          \/ Connect(c) \/ Answered(c) \/ Exit(c)
          \/ \E type \in {"Offer", "Answer", "IceCandidate"}, to \in Clients \ {c} :
                Send(c, type, to)
    \/ \E i \in DOMAIN links : LoopStep(i)
=============================================================================
