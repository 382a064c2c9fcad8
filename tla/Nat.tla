--------------------------------- MODULE Nat ---------------------------------
(***************************************************************************)
(* NAT traversal, src/src/nat/stun.rs and ice.rs: agents that gather and   *)
(* exchange candidates, and tasks that query servers and try candidates    *)
(* over UDP, which loses, repeats, reorders and delays.                    *)
(*                                                                         *)
(* No call looks at who sent the datagram that ends its wait, nor at the   *)
(* transaction it carries, and none answers a binding request.             *)
(*                                                                         *)
(* A socket is named by its own address.  Others reach it there or, through *)
(* a NAT or a relay, at an address outside.                                *)
(***************************************************************************)
EXTENDS Stun, Ice, FiniteSets

CONSTANTS
    Agents,         \* IceAgents
    LiteAgents,     \* those that are inside an IceLiteAgent
    Drawn,          \* the random bytes of each agent's username and password
    Tasks,          \* tasks that call functions of the two modules
    Servers,        \* the addresses of STUN servers
    Host,           \* the local address of each agent
    SeenAs,         \* how a server sees a socket: the ip of its NAT, and a port
    Forwards,       \* the socket to which what is sent to an outside address goes
    Replies,        \* the attributes servers write, except for the addresses in them
    Extra,          \* candidates that callers of add_candidate() have
    MaxCandidates,  \* bound on the candidates of each agent
    MaxOffers,      \* bound on the offers made
    MaxSent         \* bound on the datagrams sent

ASSUME NatAssumption ==
    /\ Host \in [Agents -> DOMAIN SeenAs] /\ LiteAgents \subseteq Agents
    /\ Drawn \in [Agents -> [username : Seq(0..255), password : Seq(0..255)]]
    /\ \A i, j \in Agents : i # j => Host[i] # Host[j]

\* The socket that try_connect() binds to port 0; one is closed when it returns.
Ephemeral(t) == <<t, "ephemeral">>
Sockets == Range(Host) \cup {Ephemeral(t) : t \in Tasks}

\* What is sent to an address arrives at the socket that is bound to it, or that a
\* NAT forwards it to.
Leads(address, socket) ==
    address = socket \/ (address \in DOMAIN Forwards /\ Forwards[address] = socket)

\* The addresses of servers, of sockets and those outside are distinct.
ASSUME AddressAssumption ==
    /\ Servers \cap Sockets = {}
    /\ DOMAIN Forwards \cap (Servers \cup Sockets) = {}

\* In the source the preference is always 65535.
ASSUME CandidateAssumption == \A c \in Extra : IsMade(c)

\* A server writes addresses of IPv4, whole, and an attribute that is cut last.
ASSUME ReplyAssumption ==
    /\ \A address \in DOMAIN SeenAs : SeenAs[address] \in [ip : Nat \X Nat, port : Nat]
    /\ \A attributes \in Replies :
          /\ attributes \in Seq([type : Nat, length : Nat, cut : BOOLEAN])
          /\ \A n \in 1..Len(attributes) :
                /\ attributes[n].type = AddressAttribute => attributes[n].length = 8
                /\ attributes[n].cut => n = Len(attributes) /\ attributes[n].length > 0

VARIABLES
    candidates,     \* IceAgent.candidates
    offers,         \* the offers made, each its agent and its JSON
    task,           \* what each task waits for
    result,         \* what its last call has returned, unless it failed
    sent            \* every datagram sent: each may arrive at any time, if at all

natVars == <<candidates, offers, task, result, sent>>

\* An IceLiteAgent has the agent's gather_candidates() and credentials only.
FullAgents == Agents \ LiteAgents

Idle == [calls |-> "nothing"]
NoResult == [of |-> "nothing"]

Request(from, to) == [from |-> from, to |-> to, type |-> BindingRequest, body |-> <<>>]
Response(server, to, attributes) ==
    [from |-> server, to |-> to, type |-> BindingResponse, body |-> Written(attributes)]
ArrivingAt(socket) == {d \in sent : Leads(d.to, socket)}
SentBounded == Cardinality(sent) < MaxSent

\* The attributes of a reply to what came from `address`.
ReplyTo(address, attributes) ==
    [n \in 1..Len(attributes) |->
        LET a == attributes[n] IN
        IF a.type # AddressAttribute THEN a
        ELSE [type |-> a.type, length |-> a.length, cut |-> a.cut,
              ip |-> SeenAs[address].ip, port |-> SeenAs[address].port]]

NatInit ==
    /\ candidates = [i \in Agents |-> <<>>]
    /\ offers = {}
    /\ task = [t \in Tasks |-> Idle] /\ result = [t \in Tasks |-> NoResult]
    /\ sent = {}

\* What an agent can read of the offers of the others, of whatever age.
OffersTo(i) == {FromJson(offer[2]) : offer \in {o \in offers : o[1] # i}}
OfferedTo(i) == UNION {Range(offer.candidates) : offer \in OffersTo(i)}

-----------------------------------------------------------------------------
(* Mutated forms of definitions below, which the specification does not    *)
(* use.                                                                    *)

\* A check whose time is over succeeds.
TimesOutConnected(t) ==
    /\ task[t] # Idle
    /\ result' = [result EXCEPT ![t] =
                     [of |-> task[t].calls, own |-> task[t].local, read |-> Unread]]
    /\ task' = [task EXCEPT ![t] = Idle]
    /\ UNCHANGED <<candidates, offers, sent>>

\* query() shares an address another one has bound.
QueryShares(t, i, server) ==
    /\ task[t] = Idle
    /\ task' = [task EXCEPT ![t] = [calls |-> "query", local |-> Host[i]]]
    /\ result' = [result EXCEPT ![t] = NoResult]
    /\ sent' = sent \cup {Request(Host[i], server)} /\ SentBounded
    /\ UNCHANGED <<candidates, offers>>

\* Candidates are added in front.
AddCandidateInFront(i, c) ==
    /\ Len(candidates[i]) < MaxCandidates[i]
    /\ candidates' = [candidates EXCEPT ![i] = <<c>> \o @]
    /\ UNCHANGED <<offers, task, result, sent>>

-----------------------------------------------------------------------------
(* Agents.                                                                 *)

AddCandidate(i, c) ==
    /\ Len(candidates[i]) < MaxCandidates[i]
    /\ candidates' = [candidates EXCEPT ![i] = Append(@, c)]
    /\ UNCHANGED <<offers, task, result, sent>>

\* gather_candidates(): the host candidate is added, and then the name of the
\* server does not parse and the task panics.
GatherCandidates(t, i) ==
    /\ task[t] = Idle /\ Len(candidates[i]) < MaxCandidates[i] /\ ~Parses(HostName)
    /\ candidates' = [candidates EXCEPT ![i] = Append(@, NewHost(Host[i]))]
    /\ result' = [result EXCEPT ![t] = NoResult]
    /\ UNCHANGED <<offers, task, sent>>

\* So does whoever asks for the public servers.
DiscoverPublicEndpoint(t) ==
    /\ task[t] = Idle /\ PublicPanics
    /\ result' = [result EXCEPT ![t] = NoResult]
    /\ UNCHANGED <<candidates, offers, task, sent>>

\* SdpMessage::new_offer() and to_json(): the candidates as they are now.
MakeOffer(i) ==
    /\ Cardinality(offers) < MaxOffers
    /\ offers' = offers \cup
          {<<i, ToJson(NewOffer(candidates[i], IceCredentials(Drawn[i])))>>}
    /\ UNCHANGED <<candidates, task, result, sent>>

-----------------------------------------------------------------------------
(* Tasks.                                                                  *)

\* query() binds a socket of its own to an address nobody has bound.
Query(t, i, server) ==
    /\ task[t] = Idle
    /\ \A u \in Tasks : task[u] # Idle => task[u].local # Host[i]
    /\ task' = [task EXCEPT ![t] = [calls |-> "query", local |-> Host[i]]]
    /\ result' = [result EXCEPT ![t] = NoResult]
    /\ sent' = sent \cup {Request(Host[i], server)} /\ SentBounded
    /\ UNCHANGED <<candidates, offers>>

TryConnect(t, i, c) ==
    /\ task[t] = Idle /\ c \in OfferedTo(i)
    /\ task' = [task EXCEPT ![t] = [calls |-> "try", local |-> Ephemeral(t)]]
    /\ result' = [result EXCEPT ![t] = NoResult]
    /\ sent' = sent \cup {Request(Ephemeral(t), c.connectionAddress)} /\ SentBounded
    /\ UNCHANGED <<candidates, offers>>

\* Checks of one agent may share its socket; no query has bound its address.
PerformConnectivityCheck(t, i, c) ==
    /\ task[t] = Idle /\ c \in OfferedTo(i)
    /\ \A u \in Tasks : task[u].calls = "query" => task[u].local # Host[i]
    /\ task' = [task EXCEPT ![t] = [calls |-> "check", local |-> Host[i]]]
    /\ result' = [result EXCEPT ![t] = NoResult]
    /\ sent' = sent \cup {Request(Host[i], c.connectionAddress)} /\ SentBounded
    /\ UNCHANGED <<candidates, offers>>

\* Whatever arrives first ends the wait, as a response to parse or a success.
Arrives(t, d) ==
    /\ task[t] # Idle /\ d \in ArrivingAt(task[t].local)
    /\ result' = [result EXCEPT ![t] =
           [of |-> task[t].calls, own |-> task[t].local,
            read |-> IF task[t].calls = "query" THEN ParseResponse(d) ELSE Unread]]
    /\ task' = [task EXCEPT ![t] = Idle]
    /\ UNCHANGED <<candidates, offers, sent>>

\* After 5 seconds, or 3.
TimesOut(t) ==
    /\ task[t] # Idle
    /\ task' = [task EXCEPT ![t] = Idle]
    /\ UNCHANGED <<candidates, offers, result, sent>>

\* A server answers what came from a socket it can see, a request of query() or of a
\* check, although neither has the magic cookie of a valid one: a strict server
\* would not.
ServerAnswers(d, attributes) ==
    /\ d \in sent /\ d.to \in Servers /\ d.type = BindingRequest /\ d.from \in DOMAIN SeenAs
    /\ SentBounded
    /\ sent' = sent \cup {Response(d.to, d.from, ReplyTo(d.from, attributes))}
    /\ UNCHANGED <<candidates, offers, task, result>>

-----------------------------------------------------------------------------
CallEnds(t) == TimesOut(t) \/ \E d \in sent : Arrives(t, d)

NatNext ==
    \/ \E i \in FullAgents :
          \/ \E c \in Extra : AddCandidate(i, c)
          \/ MakeOffer(i)
    \/ \E t \in Tasks :
          \/ DiscoverPublicEndpoint(t) \/ CallEnds(t)
          \/ \E i \in Agents :
                \/ GatherCandidates(t, i)
                \/ \E server \in Servers : Query(t, i, server)
          \/ \E i \in FullAgents : \E c \in OfferedTo(i) :
                TryConnect(t, i, c) \/ PerformConnectivityCheck(t, i, c)
    \/ \E d \in sent, attributes \in Replies : ServerAnswers(d, attributes)

\* Nobody has to call, and what a call waits for may never come; its timer ends
\* it, so no fairness is needed for what is checked here.
NatSpec == NatInit /\ [][NatNext]_natVars

-----------------------------------------------------------------------------
(* What the code keeps.                                                    *)

Kept(i) == Extra \cup {NewHost(Host[i])}
Calls(t) == {Idle} \cup [calls : {"query", "check"}, local : Range(Host)]
                   \cup [calls : {"try"}, local : {Ephemeral(t)}]

\* The types; no two queries have bound one address.
NatTypeOK ==
    /\ \A i \in Agents : candidates[i] \in Seq(Kept(i))
    /\ DOMAIN task = Tasks /\ \A t \in Tasks : task[t] \in Calls(t)
    /\ \A t, u \in Tasks : t # u /\ task[t].calls = "query" /\ task[u].calls = "query" =>
          task[t].local # task[u].local

\* An offer of whatever age, once it is read, tells candidates its agent still
\* has, in the same order, and its agent's username and password in base64.
OffersTell ==
    \A offer \in offers :
        LET m == FromJson(offer[2]) IN
        /\ m.sdpType = "Offer" /\ IsPrefix(m.candidates, candidates[offer[1]])
        /\ IsBase64(m.credentials[1], Drawn[offer[1]].username)
        /\ IsBase64(m.credentials[2], Drawn[offer[1]].password)

\* What a query makes of what it gets is what parse_response() makes of a whole
\* reply that a server wrote for the socket of the query, though one that another
\* query asked for perhaps; a request of somebody's check is never read as one.
AnswersRead ==
    \A t \in Tasks : result[t].of = "query" =>
        \/ result[t].read = Rejected
        \/ \E attributes \in Replies :
              result[t].read = ReadOf(ReplyTo(result[t].own, attributes))

\* A query that tells an address tells the one that the server has seen: "pub
\* mapped_address" of a StunResponse (stun.rs), for NAT traversal (README.md).  The
\* code does not keep it.
QueryTellsAddress ==
    \A t \in Tasks : result[t].of = "query" /\ result[t].read.says = "address" =>
        LET seen == SeenAs[result[t].own]
        IN  result[t].read = Address(seen.ip, seen.port)

\* Whenever an agent chooses among the candidates of an offer, it gets one of the
\* preferred type of those both have, in whatever order they have come to have
\* them.
SelectsBest ==
    \A i \in FullAgents : \A offer \in OffersTo(i) :
        IsBest(SelectBestCandidate(candidates[i], offer.candidates),
               candidates[i], offer.candidates)

\* The call of a socket succeeds because a server was asked from there, or because
\* somebody was offered a candidate that leads there and tried it: his request, or
\* the server's response, and never an answer of the candidate that was tried.  The
\* request may be the socket's own.
ServerAsked(own) == \E r \in sent : r.from = own /\ r.to \in Servers
SomebodyTried(own) ==
    \E r \in sent : \E j \in Agents : \E c \in OfferedTo(j) :
        /\ r.type = BindingRequest /\ r.to = c.connectionAddress
        /\ Leads(c.connectionAddress, own)
SuccessExplained ==
    \A t \in Tasks : result[t].of \in {"try", "check"} =>
        ServerAsked(result[t].own) \/ SomebodyTried(result[t].own)

-----------------------------------------------------------------------------
(* Why it holds: the parts of the inductive invariant.                     *)

\* Functions stay functions.
NatTasks == DOMAIN candidates = Agents /\ DOMAIN result = Tasks

\* An offer is what its agent once had, which is a prefix of what it has.
OffersFit ==
    \A offer \in offers :
        LET agent == offer[1]
            cs == FromJson(offer[2]).candidates
        IN  /\ agent \in FullAgents /\ cs \in Seq(Kept(agent))
            /\ IsPrefix(cs, candidates[agent])
            /\ offer = <<agent, ToJson(NewOffer(cs, IceCredentials(Drawn[agent])))>>

\* A request goes to a server or to a candidate that was offered.
IsRequest(d) ==
    /\ d.type = BindingRequest /\ d.from \in Sockets
    /\ \/ d.to \in Servers
       \/ \E j \in Agents : \E c \in OfferedTo(j) : c.connectionAddress = d.to

\* A response answers a request that was sent to a server.
IsResponse(d) ==
    \E r \in sent : \E attributes \in Replies :
        /\ r.type = BindingRequest /\ r.to \in Servers /\ r.from \in DOMAIN SeenAs
        /\ d = Response(r.to, r.from, ReplyTo(r.from, attributes))

SentFit == \A d \in sent : IsRequest(d) \/ IsResponse(d)

NatInv == NatTypeOK /\ NatTasks /\ OffersFit /\ SentFit /\ SuccessExplained
=============================================================================
