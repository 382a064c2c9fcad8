----------------------------- MODULE WireGuard -----------------------------
(***************************************************************************)
(* The tunnels of a set of nodes (src/src/tunnel/wireguard.rs) and the     *)
(* datagrams between them.  A tunnel is shared by the tasks that call it   *)
(* and by the receive loop that run() spawns; its peer list and its index  *)
(* counter are each behind a lock taken for one read or one write, so a    *)
(* call is one action per lock it takes and one for the datagram it sends. *)
(*                                                                         *)
(* Nothing in the source ever adds to `sessions`, so every lookup of a     *)
(* session finds none: send_packet() starts a handshake and drops its      *)
(* packet, no tunnel sends transport data, and the code that handles it is *)
(* never reached.                                                          *)
(***************************************************************************)
EXTENDS Integers, Sequences, FiniteSets

CONSTANTS
    Nodes,      \* the tunnels; a node also stands for its public key and address
    NoEndpoint, \* the None of Option<SocketAddr>
    Tasks,      \* the tasks that call the tunnels
    NodeOf,     \* the tunnel each task calls
    Entries,    \* the peer entries each tunnel's add_peer() may be given
    WireBase,   \* values of a byte of an index (256 in the code)
    LengthByte, \* the byte before the index of an initiation (28 in the code)
    MaxPeers,   \* bound: entries of one key in a peer list
    MaxIndex    \* bound: the last index a node allocates

Endpoints == Nodes \cup {NoEndpoint}
WGPeer == [key : Nodes, endpoint : Endpoints]

\* Values of three bytes of an index, and of all four.
UpperModulus == WireBase * WireBase * WireBase
IndexModulus == UpperModulus * WireBase
Indexes == 0 .. IndexModulus - 1

ASSUME EndpointAssumption == NoEndpoint \notin Nodes
ASSUME TaskAssumption == NodeOf \in [Tasks -> Nodes] /\ Tasks \cap Nodes = {}
ASSUME FiniteAssumption == IsFiniteSet(Tasks) /\ IsFiniteSet(Nodes)
ASSUME EntriesAssumption == Entries \in [Nodes -> SUBSET WGPeer]
ASSUME WireAssumption == WireBase \in Nat \ {0, 1} /\ LengthByte \in 0 .. WireBase - 1
ASSUME WGBoundAssumption == MaxPeers \in Nat /\ MaxIndex \in Indexes \ {IndexModulus - 1}

VARIABLES
    wgPeers,    \* each tunnel's list of peers: the endpoints of the entries of
                \* each key, in order (the order between keys is never used)
    nextIndex,  \* each tunnel's next_sender_index
    running,    \* has the tunnel a receive loop?
    job,        \* what each task, and each receive loop, is in the middle of
    sent,       \* every datagram sent so far; any of them may arrive, at any
                \* time, any number of times or never
    reported,   \* the nodes whose handshake response was logged as a session
    known       \* auxiliary: the addresses each tunnel was ever given

wgVars == <<wgPeers, nextIndex, running, job, sent, reported, known>>

\* A receive loop goes by the name of its node.
Procs == Tasks \cup Nodes
At(p) == IF p \in Nodes THEN p ELSE NodeOf[p]

\* What the two encoders write; an initiation has no receiver and carries 0.
Initiation == [kind : {"initiation"}, from : Nodes, to : Nodes,
               index : Indexes, receiver : Indexes]
Response == [kind : {"response"}, from : Nodes, to : Nodes,
             index : Indexes, receiver : Indexes]
Datagram == Initiation \cup Response

NoJob == [at |-> "none"]
Job == {NoJob}
    \cup [at : {"lookup"}, key : Nodes]
    \cup [at : {"allocate"}, kind : {"initiation", "response"},
          to : Endpoints, receiver : Indexes]
    \cup [at : {"transmit"}, msg : Datagram]

\* The endpoints a tunnel has for any of its peers.
Addresses(n) == UNION {{wgPeers[n][k][i] : i \in DOMAIN wgPeers[n][k]} : k \in Nodes}

\* handle_handshake_initiation() reads the index one byte early: what it takes
\* is the byte of the length field and the upper three bytes of the index.
ReadIndex(index) == LengthByte * UpperModulus + index \div WireBase

\* The loop of n is waiting in recv_from(), and m arrives.
Receives(n, m) == running[n] /\ job[n] = NoJob /\ m \in sent /\ m.to = n

\* Who will yet draw an index from n's counter; new work starts only while
\* indexes below the bound are left for all of them.
Drawers(n) == {p \in Procs : At(p) = n /\ job[p].at \in {"lookup", "allocate"}}
Room(n) == nextIndex[n] + Cardinality(Drawers(n)) <= MaxIndex

WGInit ==
    /\ wgPeers = [n \in Nodes |-> [k \in Nodes |-> <<>>]]
    /\ nextIndex = [n \in Nodes |-> 1]
    /\ running = [n \in Nodes |-> FALSE]
    /\ job = [p \in Procs |-> NoJob]
    /\ sent = {}
    /\ reported = [n \in Nodes |-> {}]
    /\ known = [n \in Nodes |-> {}]

-----------------------------------------------------------------------------
(* Mutated forms of actions below, which the specification does not use.   *)

\* Responses do not draw an index of their own: the counter is read and not moved.
AllocateForInitiations(p) ==
    /\ job[p].at = "allocate"
    /\ nextIndex' = [nextIndex EXCEPT ![At(p)] =
                        IF job[p].kind = "response" THEN @ ELSE (@ + 1) % IndexModulus]
    /\ job' = [job EXCEPT ![p] =
                  IF @.to = NoEndpoint THEN NoJob
                  ELSE [at |-> "transmit",
                        msg |-> [kind |-> @.kind, from |-> At(p), to |-> @.to,
                                 index |-> nextIndex[At(p)], receiver |-> @.receiver]]]
    /\ UNCHANGED <<wgPeers, running, sent, reported, known>>

\* A handshake without an endpoint goes on to a send that cannot happen.
AllocateWithoutEndpoint(p) ==
    /\ job[p].at = "allocate" /\ job[p].to # NoEndpoint
    /\ nextIndex' = [nextIndex EXCEPT ![At(p)] = (@ + 1) % IndexModulus]
    /\ job' = [job EXCEPT ![p] =
                  [at |-> "transmit",
                   msg |-> [kind |-> @.kind, from |-> At(p), to |-> @.to,
                            index |-> nextIndex[At(p)], receiver |-> @.receiver]]]
    /\ UNCHANGED <<wgPeers, running, sent, reported, known>>

\* Anyone's initiation is answered.
AcceptAnyInitiation(n, m) ==
    /\ Receives(n, m) /\ m.kind = "initiation" /\ Room(n)
    /\ job' = [job EXCEPT ![n] = [at |-> "allocate", kind |-> "response",
                                  to |-> m.from, receiver |-> ReadIndex(m.index)]]
    /\ UNCHANGED <<wgPeers, nextIndex, running, sent, reported, known>>

\* The response names the index its own tunnel allocates next.
AcceptAndEchoOwn(n, m) ==
    /\ Receives(n, m) /\ m.kind = "initiation" /\ Room(n)
    /\ m.from \in Addresses(n)
    /\ job' = [job EXCEPT ![n] = [at |-> "allocate", kind |-> "response",
                                  to |-> m.from, receiver |-> nextIndex[n]]]
    /\ UNCHANGED <<wgPeers, nextIndex, running, sent, reported, known>>

\* The loop is stopped in the middle of an answer.
SocketErrorAnytime(n) ==
    /\ running[n]
    /\ running' = [running EXCEPT ![n] = FALSE]
    /\ UNCHANGED <<wgPeers, nextIndex, job, sent, reported, known>>

-----------------------------------------------------------------------------
(* The calls.                                                              *)

AddPeer(n, peer) ==
    /\ Len(wgPeers[n][peer.key]) < MaxPeers
    /\ wgPeers' = [wgPeers EXCEPT ![n][peer.key] = Append(@, peer.endpoint)]
    /\ known' = [known EXCEPT ![n] = @ \cup ({peer.endpoint} \ {NoEndpoint})]
    /\ UNCHANGED <<nextIndex, running, job, sent, reported>>

\* retain() drops every entry of the key.
RemovePeer(n, k) ==
    /\ wgPeers' = [wgPeers EXCEPT ![n][k] = <<>>]
    /\ UNCHANGED <<nextIndex, running, job, sent, reported, known>>

\* send_packet() finds the first entry of the key, gives up without one or without
\* an endpoint in it, and otherwise, having no session, calls
\* initiate_handshake(), which looks the peer up again.
SendPacket(t, k) ==
    /\ job[t] = NoJob /\ Room(At(t))
    /\ wgPeers[At(t)][k] # <<>> /\ Head(wgPeers[At(t)][k]) # NoEndpoint
    /\ job' = [job EXCEPT ![t] = [at |-> "lookup", key |-> k]]
    /\ UNCHANGED <<wgPeers, nextIndex, running, sent, reported, known>>

\* initiate_handshake() called directly.
InitiateHandshake(t, k) ==
    /\ job[t] = NoJob /\ Room(At(t))
    /\ job' = [job EXCEPT ![t] = [at |-> "lookup", key |-> k]]
    /\ UNCHANGED <<wgPeers, nextIndex, running, sent, reported, known>>

\* The peer's endpoint is copied and the lock released.
LookUp(t) ==
    /\ job[t].at = "lookup"
    /\ wgPeers[At(t)][job[t].key] # <<>>
    /\ job' = [job EXCEPT ![t] =
                  [at |-> "allocate", kind |-> "initiation",
                   to |-> Head(wgPeers[At(t)][job[t].key]), receiver |-> 0]]
    /\ UNCHANGED <<wgPeers, nextIndex, running, sent, reported, known>>

\* "Peer not found".
LookUpFails(t) ==
    /\ job[t].at = "lookup"
    /\ wgPeers[At(t)][job[t].key] = <<>>
    /\ job' = [job EXCEPT ![t] = NoJob]
    /\ UNCHANGED <<wgPeers, nextIndex, running, sent, reported, known>>

\* allocate_sender_index(), one critical section.  A handshake with a peer that
\* has no endpoint uses up an index and ends.
Allocate(p) ==
    /\ job[p].at = "allocate"
    /\ nextIndex' = [nextIndex EXCEPT ![At(p)] = (@ + 1) % IndexModulus]
    /\ job' = [job EXCEPT ![p] =
                  IF @.to = NoEndpoint THEN NoJob
                  ELSE [at |-> "transmit",
                        msg |-> [kind |-> @.kind, from |-> At(p), to |-> @.to,
                                 index |-> nextIndex[At(p)], receiver |-> @.receiver]]]
    /\ UNCHANGED <<wgPeers, running, sent, reported, known>>

\* send_to(); a datagram that could not be sent is one that never arrives.
Transmit(p) ==
    /\ job[p].at = "transmit"
    /\ sent' = sent \cup {job[p].msg}
    /\ job' = [job EXCEPT ![p] = NoJob]
    /\ UNCHANGED <<wgPeers, nextIndex, running, reported, known>>

-----------------------------------------------------------------------------
(* The receive loop.                                                       *)

Run(n) ==
    /\ ~running[n]
    /\ running' = [running EXCEPT ![n] = TRUE]
    /\ UNCHANGED <<wgPeers, nextIndex, job, sent, reported, known>>

\* recv_from() fails and the loop breaks; nobody starts it again but run().
SocketError(n) ==
    /\ running[n] /\ job[n] = NoJob
    /\ running' = [running EXCEPT ![n] = FALSE]
    /\ UNCHANGED <<wgPeers, nextIndex, job, sent, reported, known>>

\* The initiation is answered when any peer has the address it came from.
AcceptInitiation(n, m) ==
    /\ Receives(n, m) /\ m.kind = "initiation" /\ Room(n)
    /\ m.from \in Addresses(n)
    /\ job' = [job EXCEPT ![n] = [at |-> "allocate", kind |-> "response",
                                  to |-> m.from, receiver |-> ReadIndex(m.index)]]
    /\ UNCHANGED <<wgPeers, nextIndex, running, sent, reported, known>>

\* The response is logged, and nothing else is done with it.
AcceptResponse(n, m) ==
    /\ Receives(n, m) /\ m.kind = "response"
    /\ reported' = [reported EXCEPT ![n] = @ \cup {m.from}]
    /\ UNCHANGED <<wgPeers, nextIndex, running, job, sent, known>>

-----------------------------------------------------------------------------
Progress(p) == LookUp(p) \/ LookUpFails(p) \/ Allocate(p) \/ Transmit(p)

WGNext ==
    \/ \E n \in Nodes :
          \/ \E peer \in Entries[n] : AddPeer(n, peer)
          \/ \E k \in Nodes : RemovePeer(n, k)
          \/ Run(n) \/ SocketError(n)
          \/ \E m \in sent : AcceptInitiation(n, m) \/ AcceptResponse(n, m)
    \/ \E t \in Tasks, k \in Nodes : SendPacket(t, k) \/ InitiateHandshake(t, k)
    \/ \E p \in Procs : Progress(p)

\* Work once begun is polled to its end.  Nothing is assumed of the network.
WGFairness == \A p \in Procs : WF_wgVars(Progress(p))

WGSpec == WGInit /\ [][WGNext]_wgVars /\ WGFairness

-----------------------------------------------------------------------------
(* What holds.                                                             *)

\* The types of the variables; a list of peers stays within its bound, and a
\* receive loop only ever allocates and sends.
WGTypeOK ==
    /\ wgPeers \in [Nodes -> [Nodes -> Seq(Endpoints)]]
    /\ nextIndex \in [Nodes -> Indexes]
    /\ running \in [Nodes -> BOOLEAN]
    /\ job \in [Procs -> Job]
    /\ \A n \in Nodes : job[n].at # "lookup" /\ (job[n] # NoJob => running[n])
    /\ sent \subseteq Datagram
    /\ reported \in [Nodes -> SUBSET Nodes]
    /\ known \in [Nodes -> SUBSET Nodes]

\* A tunnel puts each index on one datagram only, although its tasks and its
\* receive loop draw from the same counter and send in an order of their own.
IndexUsedOnce ==
    [][\A p \in Procs :
          job[p].at = "transmit" /\ job'[p] = NoJob =>
              \A m \in sent : m.from = At(p) => m.index # job[p].msg.index]_wgVars

\* Every response answers an initiation that its addressee really sent to its
\* sender, and goes to an address its sender was given, however datagrams are
\* lost, repeated or overtaken, and whatever peers are removed meanwhile.
ResponsesAnswer ==
    \A r \in sent : r.kind = "response" =>
        /\ r.to \in known[r.from]
        /\ \E i \in sent :
              /\ i.kind = "initiation" /\ i.from = r.to /\ i.to = r.from
              /\ r.receiver = ReadIndex(i.index)

\* A session is reported only between tunnels each of which was given the
\* address of the other.
SessionsAreMutual ==
    \A n \in Nodes : \A m \in reported[n] : m \in known[n] /\ n \in known[m]

\* No call, and no reception, is left half done.
JobsEnd == \A p \in Procs : job[p] # NoJob ~> job[p] = NoJob

-----------------------------------------------------------------------------
(* Why it holds: the parts of the inductive invariant.                     *)

\* Tasks make initiations and receive loops responses, each in its node's name.
Roles ==
    \A p \in Procs :
        LET kind == IF p \in Nodes THEN "response" ELSE "initiation" IN
        /\ job[p].at = "allocate" => job[p].kind = kind
        /\ job[p].at = "transmit" => job[p].msg.kind = kind /\ job[p].msg.from = At(p)

\* The counters never wrap around within the bound.
RoomLeft == \A n \in Nodes : nextIndex[n] + Cardinality(Drawers(n)) <= MaxIndex + 1

\* Indexes sent, and about to be sent, have been drawn, and each only once.
DrawnOnce ==
    /\ \A m \in sent : m.index < nextIndex[m.from]
    /\ \A p \in Procs : job[p].at = "transmit" =>
          /\ job[p].msg.index < nextIndex[At(p)]
          /\ \A m \in sent : m.from = At(p) => m.index # job[p].msg.index
          /\ \A q \in Procs :
                p # q /\ At(q) = At(p) /\ job[q].at = "transmit" =>
                    job[q].msg.index # job[p].msg.index

\* A response from n to m with that receiver index answers an initiation.
Answers(n, m, receiver) ==
    \E i \in sent :
        /\ i.kind = "initiation" /\ i.from = m /\ i.to = n
        /\ receiver = ReadIndex(i.index)

\* Endpoints in use were given to their tunnel, and responses sent, or under
\* way, answer initiations.
Accounted ==
    /\ \A n \in Nodes : Addresses(n) \subseteq known[n] \cup {NoEndpoint}
    /\ \A p \in Procs :
          /\ job[p].at = "allocate" => job[p].to \in known[At(p)] \cup {NoEndpoint}
          /\ job[p].at = "transmit" => job[p].msg.to \in known[At(p)]
    /\ \A m \in sent : m.to \in known[m.from]
    /\ \A n \in Nodes :
          /\ job[n].at = "allocate" => Answers(n, job[n].to, job[n].receiver)
          /\ job[n].at = "transmit" => Answers(n, job[n].msg.to, job[n].msg.receiver)
    /\ \A m \in sent : m.kind = "response" => Answers(m.from, m.to, m.receiver)
    /\ \A n \in Nodes : \A m \in reported[n] :
          \E i \in sent : i.kind = "response" /\ i.from = m /\ i.to = n

WGInv == WGTypeOK /\ Roles /\ RoomLeft /\ DrawnOnce /\ Accounted
=============================================================================
