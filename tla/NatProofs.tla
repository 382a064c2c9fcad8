------------------------------- MODULE NatProofs -------------------------------
(***************************************************************************)
(* Proofs about Nat: what agents, tasks and servers do over a network that *)
(* loses, repeats and delays, for any number of them.  What the pure       *)
(* functions compute of the data is proved in DataProofs.                  *)
(***************************************************************************)
EXTENDS Nat, DataProofs

\* What a call waits with.
LEMMA CallCases ==
    ASSUME NEW t \in Tasks, NEW x \in Calls(t)
    PROVE  /\ x.calls = "nothing" <=> x = Idle
           /\ x # Idle => x.calls \in {"query", "try", "check"} /\ x.local \in Sockets
BY DEF Calls, Idle, Sockets

\* An agent's address is one that a server can see, and a socket.
LEMMA HostRange == \A i \in Agents : Host[i] \in Range(Host) /\ Host[i] \in Sockets
BY NatAssumption DEF Range, Sockets

\* What is sent to a socket arrives at no other one.
LEMMA LeadsToItself ==
    ASSUME NEW a \in Sockets, NEW b, Leads(a, b)
    PROVE  a = b
BY AddressAssumption DEF Leads

\* What an offer tells is what was written into it.
LEMMA ReadsWhatWasWritten ==
    ASSUME NEW cs, NEW credentials
    PROVE  LET m == FromJson(ToJson(NewOffer(cs, credentials))) IN
           /\ m.candidates = cs /\ m.sdpType = "Offer"
           /\ m.credentials[1] = credentials[1] /\ m.credentials[2] = credentials[2]
BY DEF FromJson, ToJson, NewOffer

\* A prefix stays one when the sequence grows.
LEMMA PrefixGrows ==
    ASSUME NEW T, NEW s \in Seq(T), NEW t \in Seq(T), NEW c \in T, IsPrefix(s, t)
    PROVE  IsPrefix(s, Append(t, c))
<1> DEFINE n == Len(s)
           u == Append(t, c)
<1>1. /\ n \in Nat /\ Len(t) \in Nat /\ n <= Len(t) /\ SubSeq(s, 1, n) = SubSeq(t, 1, n)
      /\ \A i \in 1..Len(t) : t[i] \in T
  BY LenProperties, ElementOfSeq DEF IsPrefix
<1>2. /\ u \in Seq(T) /\ Len(u) = Len(t) + 1 /\ \A i \in 1..Len(t) : u[i] = t[i]
  BY AppendProperties
<1> HIDE DEF u
<1>3. SubSeq(t, 1, n) = SubSeq(u, 1, n)
  BY <1>1, <1>2
<1> HIDE DEF n
<1>4. n <= Len(u)
  BY <1>1, <1>2
<1>5. QED
  BY <1>1, <1>3, <1>4 DEF IsPrefix, n, u

\* And every sequence is one of itself.
LEMMA PrefixOfItself == ASSUME NEW T, NEW s \in Seq(T) PROVE IsPrefix(s, s)
<1>1. Len(s) <= Len(s)
  BY LenProperties
<1>2. QED
  BY <1>1 DEF IsPrefix

-----------------------------------------------------------------------------
LEMMA NatInvInit == NatInit => NatInv
<1> SUFFICES ASSUME NatInit PROVE NatInv
  OBVIOUS
<1>1. /\ DOMAIN candidates = Agents /\ \A i \in Agents : candidates[i] = <<>>
      /\ offers = {} /\ sent = {} /\ DOMAIN result = Tasks
      /\ task = [t \in Tasks |-> Idle] /\ \A t \in Tasks : result[t] = NoResult
  BY DEF NatInit
<1>2. NatTypeOK
  <2>1. \A i \in Agents : candidates[i] \in Seq(Kept(i))
    BY <1>1, EmptySeq
  <2>2. DOMAIN task = Tasks /\ \A t \in Tasks : task[t] \in Calls(t)
    BY <1>1 DEF Calls
  <2>3. \A t \in Tasks : task[t].calls # "query"
    BY <1>1 DEF Idle
  <2>4. QED
    BY <2>1, <2>2, <2>3 DEF NatTypeOK
<1>3. NatTasks
  BY <1>1 DEF NatTasks
<1>4. OffersFit /\ SentFit
  BY <1>1 DEF OffersFit, SentFit
<1>5. SuccessExplained
  BY <1>1 DEF SuccessExplained, NoResult
<1>6. QED
  BY <1>2, <1>3, <1>4, <1>5 DEF NatInv

\* What was offered and what was sent stay so, and with them what explains a
\* datagram or a success.
LEMMA StillFits ==
    ASSUME offers \subseteq offers', sent \subseteq sent', NEW d
    PROVE  /\ IsRequest(d) => IsRequest(d)'
           /\ IsResponse(d) => IsResponse(d)'
           /\ ServerAsked(d) => ServerAsked(d)'
           /\ SomebodyTried(d) => SomebodyTried(d)'
<1>1. \A j : OfferedTo(j) \subseteq OfferedTo(j)'
  BY DEF OfferedTo, OffersTo
<1>2. IsRequest(d) => IsRequest(d)'
  BY <1>1 DEF IsRequest
<1>3. IsResponse(d) => IsResponse(d)'
  BY DEF IsResponse
<1>4. ServerAsked(d) => ServerAsked(d)'
  BY DEF ServerAsked
<1>5. SomebodyTried(d) => SomebodyTried(d)'
  BY <1>1 DEF SomebodyTried
<1>6. QED
  BY <1>2, <1>3, <1>4, <1>5

\* So a success that was explained stays explained.
LEMMA StillExplained ==
    ASSUME SuccessExplained, offers \subseteq offers', sent \subseteq sent',
           \A t \in Tasks : result'[t] = result[t] \/ result'[t] = NoResult
    PROVE  SuccessExplained'
<1> SUFFICES ASSUME NEW t \in Tasks, result'[t].of \in {"try", "check"},
                    NEW own, own = result'[t].own
             PROVE  ServerAsked(own)' \/ SomebodyTried(own)'
  BY DEF SuccessExplained, ServerAsked, SomebodyTried
<1>1. result'[t] = result[t]
  BY DEF NoResult
<1>2. ServerAsked(own) \/ SomebodyTried(own)
  BY <1>1 DEF SuccessExplained
<1>3. QED
  BY <1>2, StillFits

\* What a new datagram needs.
LEMMA SentStillFits ==
    ASSUME SentFit, offers \subseteq offers', NEW d,
           sent' = sent \/ sent' = sent \cup {d},
           sent' # sent => IsRequest(d)' \/ IsResponse(d)'
    PROVE  SentFit'
<1>1. sent \subseteq sent'
  OBVIOUS
<1>2. \A e \in sent : IsRequest(e)' \/ IsResponse(e)'
  BY <1>1, StillFits DEF SentFit
<1>3. QED
  BY <1>2 DEF SentFit

\* A candidate more.
LEMMA CandidateMore ==
    ASSUME NatInv, NEW i \in Agents, NEW c \in Kept(i),
           candidates' = [candidates EXCEPT ![i] = Append(@, c)]
    PROVE  /\ DOMAIN candidates' = Agents
           /\ \A j \in Agents : candidates'[j] \in Seq(Kept(j))
           /\ \A j \in Agents : \A cs \in Seq(Kept(j)) :
                 IsPrefix(cs, candidates[j]) => IsPrefix(cs, candidates'[j])
<1>1. DOMAIN candidates = Agents /\ \A j \in Agents : candidates[j] \in Seq(Kept(j))
  BY DEF NatInv, NatTasks, NatTypeOK
<1>2. /\ DOMAIN candidates' = Agents
      /\ \A j \in Agents : candidates'[j] = IF j = i THEN Append(candidates[i], c)
                                            ELSE candidates[j]
  BY <1>1
<1>3. candidates'[i] \in Seq(Kept(i))
  BY <1>1, <1>2, AppendProperties
<1>4. \A cs \in Seq(Kept(i)) :
         IsPrefix(cs, candidates[i]) => IsPrefix(cs, Append(candidates[i], c))
  BY <1>1, PrefixGrows
<1>5. QED
  BY <1>1, <1>2, <1>3, <1>4

\* Whoever adds a candidate.
LEMMA Adds ==
    ASSUME NatInv, NEW i \in Agents, NEW c \in Kept(i),
           candidates' = [candidates EXCEPT ![i] = Append(@, c)],
           UNCHANGED <<offers, task, sent>>, DOMAIN result' = Tasks,
           \A t \in Tasks : result'[t] = result[t] \/ result'[t] = NoResult
    PROVE  NatInv'
<1>1. /\ DOMAIN candidates' = Agents
      /\ \A j \in Agents : candidates'[j] \in Seq(Kept(j))
      /\ \A j \in Agents : \A cs \in Seq(Kept(j)) :
            IsPrefix(cs, candidates[j]) => IsPrefix(cs, candidates'[j])
  BY CandidateMore
<1>2. NatTypeOK' /\ NatTasks'
  BY <1>1 DEF NatInv, NatTypeOK, NatTasks
<1>3. OffersFit'
  BY <1>1 DEF NatInv, OffersFit, FullAgents
<1>4. SentFit' /\ SuccessExplained'
  BY SentStillFits, StillExplained DEF NatInv
<1>5. QED
  BY <1>2, <1>3, <1>4 DEF NatInv

\* Whoever starts a call and sends a request.
LEMMA Starts ==
    ASSUME NatInv, NEW t \in Tasks, NEW x \in Calls(t), NEW d,
           task[t] = Idle, task' = [task EXCEPT ![t] = x],
           x.calls = "query" =>
               \A u \in Tasks : task[u].calls = "query" => task[u].local # x.local,
           result' = [result EXCEPT ![t] = NoResult],
           sent' = sent \cup {d}, IsRequest(d),
           UNCHANGED <<candidates, offers>>
    PROVE  NatInv'
<1>1. /\ DOMAIN task = Tasks /\ \A u \in Tasks : task[u] \in Calls(u)
      /\ DOMAIN result = Tasks
      /\ \A u, v \in Tasks : u # v /\ task[u].calls = "query" /\ task[v].calls = "query" =>
            task[u].local # task[v].local
  BY DEF NatInv, NatTasks, NatTypeOK
<1>2. /\ DOMAIN task' = Tasks /\ DOMAIN result' = Tasks
      /\ \A u \in Tasks : task'[u] = IF u = t THEN x ELSE task[u]
      /\ \A u \in Tasks : result'[u] = result[u] \/ result'[u] = NoResult
  BY <1>1
<1>3. NatTypeOK'
  <2>1. \A u, v \in Tasks : u # v /\ task'[u].calls = "query" /\ task'[v].calls = "query" =>
            task'[u].local # task'[v].local
    BY <1>1, <1>2
  <2>2. \A u \in Tasks : task'[u] \in Calls(u)
    BY <1>1, <1>2
  <2>3. QED
    BY <1>2, <2>1, <2>2 DEF NatInv, NatTypeOK
<1>4. NatTasks' /\ OffersFit'
  BY <1>2 DEF NatInv, NatTasks, OffersFit
<1>5. SentFit'
  <2>1. IsRequest(d)'
    BY StillFits
  <2>2. QED
    BY <2>1, SentStillFits DEF NatInv
<1>6. SuccessExplained'
  BY <1>2, StillExplained DEF NatInv
<1>7. QED
  BY <1>3, <1>4, <1>5, <1>6 DEF NatInv

\* A datagram is a request, or answers one that a server was sent from the socket
\* to which it goes.
LEMMA ComesFrom ==
    ASSUME SentFit, NEW d \in sent
    PROVE  \/ IsRequest(d)
           \/ \E r \in sent : \E attributes \in Replies :
                 /\ r.to \in Servers /\ r.from \in Sockets \cap DOMAIN SeenAs
                 /\ r.from = d.to /\ d.type = BindingResponse
                 /\ d.body = Written(ReplyTo(d.to, attributes))
<1>1. CASE IsResponse(d)
  <2>1. PICK r \in sent : \E attributes \in Replies :
           /\ r.type = BindingRequest /\ r.to \in Servers /\ r.from \in DOMAIN SeenAs
           /\ d = Response(r.to, r.from, ReplyTo(r.from, attributes))
    BY <1>1 DEF IsResponse
  <2>2. PICK attributes \in Replies : d = Response(r.to, r.from, ReplyTo(r.from, attributes))
    BY <2>1
  <2>3. r.from \in Sockets
    <3>1. IsResponse(r) => r.type = BindingResponse
      BY DEF IsResponse, Response
    <3>2. IsRequest(r)
      BY <2>1, <3>1 DEF SentFit, BindingRequest, BindingResponse
    <3>3. QED
      BY <3>2 DEF IsRequest
  <2>4. d.to = r.from /\ d.type = BindingResponse
    BY <2>2 DEF Response
  <2>5. d.body = Written(ReplyTo(r.from, attributes))
    BY <2>2, Zenon DEF Response
  <2>6. QED
    BY <2>1, <2>3, <2>4, <2>5
<1>2. QED
  BY <1>1 DEF SentFit

\* What arrives at a socket explains a success there.
LEMMA ArrivalExplains ==
    ASSUME SentFit, NEW own \in Sockets, NEW d \in sent, Leads(d.to, own)
    PROVE  ServerAsked(own) \/ SomebodyTried(own)
<1>1. CASE IsRequest(d)
  <2>1. d.to \notin Servers
    BY AddressAssumption DEF Leads
  <2>2. PICK j \in Agents : \E c \in OfferedTo(j) : c.connectionAddress = d.to
    BY <1>1, <2>1 DEF IsRequest
  <2>3. QED
    BY <1>1, <2>2 DEF IsRequest, SomebodyTried
<1>2. ASSUME NEW r \in sent, r.to \in Servers, r.from \in Sockets, r.from = d.to
      PROVE  ServerAsked(own)
  <2>1. r.from = own
    BY <1>2, LeadsToItself
  <2>2. QED
    BY <1>2, <2>1 DEF ServerAsked
<1>3. QED
  BY <1>1, <1>2, ComesFrom

\* A call ends: its time is over, or what arrives explains what it returns.
LEMMA Ends ==
    ASSUME NatInv, NEW t \in Tasks, task[t] # Idle, task' = [task EXCEPT ![t] = Idle],
           DOMAIN result' = Tasks, \A u \in Tasks : u # t => result'[u] = result[u],
           \/ result'[t] = result[t]
           \/ /\ result'[t].own = task[t].local
              /\ \E d \in sent : Leads(d.to, task[t].local),
           UNCHANGED <<candidates, offers, sent>>
    PROVE  NatInv'
<1>1. /\ DOMAIN task = Tasks /\ \A u \in Tasks : task[u] \in Calls(u)
      /\ \A u, v \in Tasks : u # v /\ task[u].calls = "query" /\ task[v].calls = "query" =>
            task[u].local # task[v].local
  BY DEF NatInv, NatTasks, NatTypeOK
<1>2. /\ DOMAIN task' = Tasks /\ Idle.calls = "nothing" /\ Idle \in Calls(t)
      /\ \A u \in Tasks : task'[u] = IF u = t THEN Idle ELSE task[u]
  BY <1>1 DEF Calls, Idle
<1>3. NatTypeOK'
  <2>1. \A u, v \in Tasks : u # v /\ task'[u].calls = "query" /\ task'[v].calls = "query" =>
            task'[u].local # task'[v].local
    BY <1>1, <1>2
  <2>2. \A u \in Tasks : task'[u] \in Calls(u)
    BY <1>1, <1>2
  <2>3. QED
    BY <1>2, <2>1, <2>2 DEF NatInv, NatTypeOK
<1>4. NatTasks' /\ OffersFit'
  BY DEF NatInv, NatTasks, OffersFit
<1>5. SentFit'
  BY SentStillFits DEF NatInv
<1>6. SuccessExplained'
  <2> SUFFICES ASSUME NEW u \in Tasks, result'[u].of \in {"try", "check"}
               PROVE  ServerAsked(result'[u].own) \/ SomebodyTried(result'[u].own)
    BY DEF SuccessExplained, ServerAsked, SomebodyTried, OfferedTo, OffersTo
  <2>1. CASE result'[u] = result[u]
    BY <2>1 DEF NatInv, SuccessExplained
  <2>2. CASE result'[u] # result[u]
    <3>1. u = t /\ result'[t].own = task[t].local
      BY <2>2
    <3>2. PICK d \in sent : Leads(d.to, task[t].local)
      BY <2>2, <3>1
    <3>3. task[t].local \in Sockets
      BY <1>1, CallCases
    <3>4. QED
      BY <3>1, <3>2, <3>3, ArrivalExplains DEF NatInv
  <2>3. QED
    BY <2>1, <2>2
<1>7. QED
  BY <1>3, <1>4, <1>5, <1>6 DEF NatInv

\* An offer more is one of what its agent has.
LEMMA Offers ==
    ASSUME NatInv, NEW i \in FullAgents, MakeOffer(i)
    PROVE  NatInv'
<1> DEFINE cs == candidates[i]
           json == ToJson(NewOffer(cs, IceCredentials(Drawn[i])))
<1>1. /\ offers' = offers \cup {<<i, json>>}
      /\ UNCHANGED <<candidates, task, result, sent>>
  BY DEF MakeOffer
<1>2. cs \in Seq(Kept(i)) /\ IsPrefix(cs, candidates[i])
  BY PrefixOfItself DEF NatInv, NatTypeOK, FullAgents
<1>3. FromJson(json).candidates = cs
  BY ReadsWhatWasWritten
<1>4. NatTypeOK' /\ NatTasks'
  BY <1>1 DEF NatInv, NatTypeOK, NatTasks
<1>5. OffersFit'
  <2> DEFINE Fits(o) == /\ o[1] \in FullAgents
                        /\ FromJson(o[2]).candidates \in Seq(Kept(o[1]))
                        /\ IsPrefix(FromJson(o[2]).candidates, candidates[o[1]])
                        /\ o = <<o[1], ToJson(NewOffer(FromJson(o[2]).candidates,
                                                       IceCredentials(Drawn[o[1]])))>>
  <2>1. \A o \in offers : Fits(o)
    BY DEF NatInv, OffersFit
  <2> HIDE DEF json
  <2>2. <<i, json>>[1] = i /\ <<i, json>>[2] = json
    OBVIOUS
  <2>3. json = ToJson(NewOffer(FromJson(json).candidates, IceCredentials(Drawn[i])))
    BY <1>3 DEF json
  <2>4. Fits(<<i, json>>)
    BY <1>2, <1>3, <2>2, <2>3
  <2>5. \A o \in offers' : Fits(o)
    BY <1>1, <2>1, <2>4
  <2>6. QED
    BY <1>1, <2>5 DEF OffersFit
<1>6. SentFit' /\ SuccessExplained'
  BY <1>1, SentStillFits, StillExplained DEF NatInv
<1>7. QED
  BY <1>4, <1>5, <1>6 DEF NatInv

\* A reply answers a request that a server was sent.
LEMMA Answers ==
    ASSUME NatInv, NEW d \in sent, NEW attributes \in Replies, ServerAnswers(d, attributes)
    PROVE  NatInv'
<1> DEFINE e == Response(d.to, d.from, ReplyTo(d.from, attributes))
<1>1. /\ d.to \in Servers /\ d.type = BindingRequest /\ d.from \in DOMAIN SeenAs
      /\ sent' = sent \cup {e} /\ UNCHANGED <<candidates, offers, task, result>>
  BY DEF ServerAnswers
<1>2. IsResponse(e)
  BY <1>1 DEF IsResponse
<1> HIDE DEF e
<1>3. SentFit'
  BY <1>1, <1>2, SentStillFits, StillFits DEF NatInv
<1>4. NatTypeOK' /\ NatTasks' /\ OffersFit'
  BY <1>1 DEF NatInv, NatTypeOK, NatTasks, OffersFit
<1>5. SuccessExplained'
  BY <1>1, StillExplained DEF NatInv
<1>6. QED
  BY <1>3, <1>4, <1>5 DEF NatInv

-----------------------------------------------------------------------------
LEMMA NatInvNext == ASSUME NatInv, [NatNext]_natVars PROVE NatInv'
<1>t. /\ DOMAIN task = Tasks /\ DOMAIN result = Tasks
      /\ FullAgents \subseteq Agents
  BY DEF NatInv, NatTypeOK, NatTasks, FullAgents
<1>1. ASSUME NEW i \in FullAgents, NEW c \in Extra, AddCandidate(i, c) PROVE NatInv'
  BY <1>t, <1>1, Adds DEF AddCandidate, Kept
<1>2. ASSUME NEW t \in Tasks, NEW i \in Agents, GatherCandidates(t, i) PROVE NatInv'
  <2>1. \A u \in Tasks : result'[u] = result[u] \/ result'[u] = NoResult
    BY <1>t, <1>2 DEF GatherCandidates
  <2>2. DOMAIN result' = Tasks /\ NewHost(Host[i]) \in Kept(i)
    BY <1>t, <1>2 DEF GatherCandidates, Kept
  <2>3. QED
    BY <1>2, <2>1, <2>2, Adds DEF GatherCandidates
<1>3. ASSUME NEW i \in FullAgents, MakeOffer(i) PROVE NatInv'
  BY <1>3, Offers
<1>4. ASSUME NEW t \in Tasks, DiscoverPublicEndpoint(t) PROVE NatInv'
  <2>1. /\ DOMAIN result' = Tasks /\ UNCHANGED <<candidates, offers, task, sent>>
        /\ \A u \in Tasks : result'[u] = result[u] \/ result'[u] = NoResult
    BY <1>t, <1>4 DEF DiscoverPublicEndpoint
  <2>2. NatTypeOK' /\ NatTasks' /\ OffersFit'
    BY <2>1 DEF NatInv, NatTypeOK, NatTasks, OffersFit
  <2>3. SentFit' /\ SuccessExplained'
    BY <2>1, SentStillFits, StillExplained DEF NatInv
  <2>4. QED
    BY <2>2, <2>3 DEF NatInv
<1>5. ASSUME NEW t \in Tasks, NEW i \in Agents, NEW server \in Servers, Query(t, i, server)
      PROVE  NatInv'
  <2> DEFINE x == [calls |-> "query", local |-> Host[i]]
             d == Request(Host[i], server)
  <2>1. /\ task[t] = Idle /\ task' = [task EXCEPT ![t] = x]
        /\ result' = [result EXCEPT ![t] = NoResult] /\ sent' = sent \cup {d}
        /\ UNCHANGED <<candidates, offers>>
    BY <1>5 DEF Query
  <2>2. x \in Calls(t) /\ x.calls = "query" /\ x.local = Host[i]
    BY HostRange DEF Calls
  <2>3. \A u \in Tasks : task[u].calls = "query" => task[u].local # x.local
    <3>1. \A u \in Tasks : task[u].calls = "query" => task[u] # Idle
      BY DEF Idle
    <3>2. QED
      BY <1>5, <3>1 DEF Query
  <2>4. IsRequest(d)
    BY HostRange DEF Request, IsRequest
  <2> HIDE DEF x, d
  <2>5. QED
    BY <2>1, <2>2, <2>3, <2>4, Starts
<1>6. ASSUME NEW t \in Tasks, NEW i \in FullAgents, NEW c \in OfferedTo(i), TryConnect(t, i, c)
      PROVE  NatInv'
  <2> DEFINE x == [calls |-> "try", local |-> Ephemeral(t)]
             d == Request(Ephemeral(t), c.connectionAddress)
  <2>1. /\ task[t] = Idle /\ task' = [task EXCEPT ![t] = x]
        /\ result' = [result EXCEPT ![t] = NoResult] /\ sent' = sent \cup {d}
        /\ UNCHANGED <<candidates, offers>>
    BY <1>6 DEF TryConnect
  <2>2. x \in Calls(t) /\ x.calls # "query"
    BY DEF Calls
  <2>3. IsRequest(d)
    BY <1>t DEF Request, IsRequest, Sockets
  <2> HIDE DEF x, d
  <2>4. QED
    BY <2>1, <2>2, <2>3, Starts
<1>7. ASSUME NEW t \in Tasks, NEW i \in FullAgents, NEW c \in OfferedTo(i),
             PerformConnectivityCheck(t, i, c)
      PROVE  NatInv'
  <2> DEFINE x == [calls |-> "check", local |-> Host[i]]
             d == Request(Host[i], c.connectionAddress)
  <2>1. /\ task[t] = Idle /\ task' = [task EXCEPT ![t] = x]
        /\ result' = [result EXCEPT ![t] = NoResult] /\ sent' = sent \cup {d}
        /\ UNCHANGED <<candidates, offers>>
    BY <1>7 DEF PerformConnectivityCheck
  <2>2. x \in Calls(t) /\ x.calls # "query"
    BY <1>t, HostRange DEF Calls
  <2>3. IsRequest(d)
    BY <1>t, HostRange DEF Request, IsRequest
  <2> HIDE DEF x, d
  <2>4. QED
    BY <2>1, <2>2, <2>3, Starts
<1>8. ASSUME NEW t \in Tasks, NEW d \in sent, Arrives(t, d) PROVE NatInv'
  <2>1. /\ task' = [task EXCEPT ![t] = Idle] /\ UNCHANGED <<candidates, offers, sent>>
        /\ task[t] # Idle /\ Leads(d.to, task[t].local)
    BY <1>8 DEF Arrives, ArrivingAt
  <2> DEFINE read == IF task[t].calls = "query" THEN ParseResponse(d) ELSE Unread
  <2>2. result' = [result EXCEPT ![t] =
                      [of |-> task[t].calls, own |-> task[t].local, read |-> read]]
    BY <1>8 DEF Arrives
  <2> HIDE DEF read
  <2>3. /\ DOMAIN result' = Tasks /\ \A u \in Tasks : u # t => result'[u] = result[u]
        /\ result'[t].own = task[t].local
    BY <1>t, <2>2
  <2>4. QED
    BY <2>1, <2>3, Ends
<1>9. ASSUME NEW t \in Tasks, TimesOut(t) PROVE NatInv'
  BY <1>t, <1>9, Ends DEF TimesOut
<1>10. ASSUME NEW d \in sent, NEW attributes \in Replies, ServerAnswers(d, attributes)
       PROVE  NatInv'
  BY <1>10, Answers
<1>11. CASE UNCHANGED natVars
  <2>1. UNCHANGED <<candidates, offers, task, result, sent>>
    BY <1>11 DEF natVars
  <2>2. NatTypeOK' /\ NatTasks' /\ OffersFit'
    BY <2>1 DEF NatInv, NatTypeOK, NatTasks, OffersFit
  <2>3. SentFit' /\ SuccessExplained'
    BY <1>t, <2>1, SentStillFits, StillExplained DEF NatInv
  <2>4. QED
    BY <2>2, <2>3 DEF NatInv
<1>12. QED
  BY <1>1, <1>2, <1>3, <1>4, <1>5, <1>6, <1>7, <1>8, <1>9, <1>10, <1>11 DEF NatNext, CallEnds

LEMMA NatInvariant == NatSpec => []NatInv
BY NatInvInit, NatInvNext, PTL DEF NatSpec

\* Candidates are those an agent added or gathered, and no two queries have bound
\* one address (IceAgent, ice.rs; StunServer::query, stun.rs).
THEOREM NatTypeCorrect == NatSpec => []NatTypeOK
<1>1. NatInv => NatTypeOK
  BY DEF NatInv
<1>2. QED
  BY NatInvariant, <1>1, PTL

\* A call succeeds because a server was asked from its socket or somebody tried a
\* candidate that leads there, through a NAT or not, and never because the candidate
\* it tried answers, for any agents, servers, candidates and forwarding
\* (perform_connectivity_check and try_connect, ice.rs).
THEOREM SuccessIsExplained == NatSpec => []SuccessExplained
<1>1. NatInv => SuccessExplained
  BY DEF NatInv
<1>2. QED
  BY NatInvariant, <1>1, PTL

\* An offer tells of candidates its agent still has, in its order, and of its
\* username and password in base64, whatever was drawn for them (SdpMessage,
\* client.rs; IceAgent and base64_encode, ice.rs).
THEOREM OffersStayTrue == NatSpec => []OffersTell
<1>1. NatInv => OffersTell
  <2> SUFFICES ASSUME NatInv, NEW o \in offers
               PROVE  LET m == FromJson(o[2]) IN
                      /\ m.sdpType = "Offer" /\ IsPrefix(m.candidates, candidates[o[1]])
                      /\ IsBase64(m.credentials[1], Drawn[o[1]].username)
                      /\ IsBase64(m.credentials[2], Drawn[o[1]].password)
    BY DEF OffersTell
  <2> DEFINE i == o[1]
             cs == FromJson(o[2]).candidates
             credentials == IceCredentials(Drawn[i])
  <2>1. i \in FullAgents /\ IsPrefix(cs, candidates[i])
    BY DEF NatInv, OffersFit
  <2>2. o = <<i, ToJson(NewOffer(cs, credentials))>>
    BY DEF NatInv, OffersFit
  <2>3. /\ credentials[1] = Base64Encode(Drawn[i].username)
        /\ credentials[2] = Base64Encode(Drawn[i].password)
    BY DEF IceCredentials
  <2> HIDE DEF cs, credentials
  <2>4. o[2] = ToJson(NewOffer(cs, credentials))
    BY <2>2
  <2>5. /\ FromJson(o[2]).sdpType = "Offer"
        /\ FromJson(o[2]).credentials[1] = credentials[1]
        /\ FromJson(o[2]).credentials[2] = credentials[2]
    BY <2>4, ReadsWhatWasWritten
  <2>6. i \in Agents
    BY <2>1 DEF FullAgents
  <2>7. /\ IsBase64(credentials[1], Drawn[i].username)
        /\ IsBase64(credentials[2], Drawn[i].password)
    <3>1. Drawn[i].username \in Seq(0..255) /\ Drawn[i].password \in Seq(0..255)
      BY <2>6, NatAssumption
    <3> HIDE DEF i
    <3>2. QED
      BY <2>3, <3>1, EncodesBase64
  <2>8. QED
    BY <2>1, <2>5, <2>7 DEF cs
<1>2. QED
  BY NatInvariant, <1>1, PTL

-----------------------------------------------------------------------------
\* What a server writes for a socket are attributes that parse_response() reads as
\* ReadOf() says.
LEMMA RepliesRead ==
    ASSUME NEW socket \in DOMAIN SeenAs, NEW attributes \in Replies
    PROVE  LET written == ReplyTo(socket, attributes)
           IN  Mapped(Written(written)) = ReadOf(written)
<1> DEFINE R == [type : Nat, length : Nat, cut : BOOLEAN]
           seen == SeenAs[socket]
           L == Len(attributes)
           A == ReplyTo(socket, attributes)
           Seen(a) == [type |-> a.type, length |-> a.length, cut |-> a.cut,
                       ip |-> seen.ip, port |-> seen.port]
<1>1. seen.ip \in Nat \X Nat /\ seen.port \in Nat
  BY ReplyAssumption
<1>2. /\ attributes \in Seq(R)
      /\ \A n \in 1..L :
            /\ attributes[n].type = AddressAttribute => attributes[n].length = 8
            /\ attributes[n].cut => n = L /\ attributes[n].length > 0
  BY ReplyAssumption
<1>3. L \in Nat /\ \A n \in 1..L : attributes[n] \in R
  BY <1>2, LenProperties, ElementOfSeq
<1>4. A = [n \in 1..L |-> IF attributes[n].type # AddressAttribute THEN attributes[n]
                          ELSE Seen(attributes[n])]
  BY DEF ReplyTo
<1> HIDE DEF A, L, seen
<1>5. Len(A) = L
  <2> DEFINE T == {A[n] : n \in 1..L}
  <2>1. A \in [1..L -> T]
    BY <1>4
  <2> HIDE DEF T
  <2>2. QED
    BY <1>3, <2>1, FunctionIsSeq
<1>6. ASSUME NEW n \in 1..L
      PROVE  IsAttribute(A[n]) /\ (A[n].cut => n = L)
  <2> DEFINE a == attributes[n]
  <2>1. /\ a.type \in Nat /\ a.length \in Nat /\ a.cut \in BOOLEAN
        /\ a.type = AddressAttribute => a.length = 8
        /\ a.cut => n = L /\ a.length > 0
    BY <1>2, <1>3
  <2>2. A[n] = IF a.type # AddressAttribute THEN a ELSE Seen(a)
    BY <1>4
  <2> HIDE DEF a
  <2>3. CASE a.type # AddressAttribute
    BY <2>1, <2>2, <2>3 DEF IsAttribute
  <2>4. CASE a.type = AddressAttribute
    BY <1>1, <2>1, <2>2, <2>4 DEF IsAttribute, Word
  <2>5. QED
    BY <2>3, <2>4
<1>7. AreAttributes(A)
  BY <1>5, <1>6 DEF AreAttributes
<1>8. Mapped(Written(A)) = ReadOf(A)
  BY <1>3, <1>5, <1>7, MappedReads
<1>9. QED
  BY <1>8 DEF A

\* What arrives at a socket and is parsed reads as what a server wrote for that
\* socket, or is rejected.
LEMMA ReadsOwnAnswer ==
    ASSUME NatInv, NEW own \in Sockets, NEW d \in sent, Leads(d.to, own)
    PROVE  \/ ParseResponse(d) = Rejected
           \/ \E attributes \in Replies : ParseResponse(d) = ReadOf(ReplyTo(own, attributes))
<1>1. CASE IsRequest(d)
  BY <1>1 DEF IsRequest, ParseResponse, BindingRequest, BindingResponse
<1>2. CASE ~IsRequest(d)
  <2>1. PICK attributes \in Replies :
           /\ d.to \in Sockets \cap DOMAIN SeenAs
           /\ d.type = BindingResponse /\ d.body = Written(ReplyTo(d.to, attributes))
    BY <1>2, ComesFrom DEF NatInv
  <2>2. d.to = own
    BY <2>1, LeadsToItself
  <2>3. ParseResponse(d) = Mapped(Written(ReplyTo(own, attributes)))
    BY <2>1, <2>2 DEF ParseResponse
  <2>4. Mapped(Written(ReplyTo(own, attributes))) = ReadOf(ReplyTo(own, attributes))
    BY <2>1, <2>2, RepliesRead
  <2>5. QED
    BY <2>3, <2>4
<1>3. QED
  BY <1>1, <1>2

LEMMA AnswersReadNext ==
    ASSUME NatInv, AnswersRead, [NatNext]_natVars
    PROVE  AnswersRead'
<1> DEFINE Reads(s) ==
              \/ s.read = Rejected
              \/ \E attributes \in Replies : s.read = ReadOf(ReplyTo(s.own, attributes))
<1>t. /\ \A t \in Tasks : task[t] \in Calls(t)
      /\ DOMAIN result = Tasks
      /\ \A t \in Tasks : result[t].of = "query" => Reads(result[t])
  BY DEF NatInv, NatTypeOK, NatTasks, AnswersRead
<1> SUFFICES ASSUME NEW t \in Tasks, result'[t].of = "query" PROVE Reads(result'[t])
  BY DEF AnswersRead
<1>1. CASE result'[t] = result[t] \/ result'[t] = NoResult
  BY <1>t, <1>1 DEF NoResult
<1> HIDE DEF Reads
<1>2. ASSUME NEW u \in Tasks, NEW d \in sent, Arrives(u, d) PROVE Reads(result'[t])
  <2> DEFINE read == IF task[u].calls = "query" THEN ParseResponse(d) ELSE Unread
  <2>1. /\ result' = [result EXCEPT ![u] =
                         [of |-> task[u].calls, own |-> task[u].local, read |-> read]]
        /\ task[u] # Idle /\ Leads(d.to, task[u].local)
    BY <1>2 DEF Arrives, ArrivingAt
  <2>2. CASE u # t
    BY <1>1, <1>t, <2>1, <2>2
  <2>3. CASE u = t
    <3> HIDE DEF read
    <3>1. /\ result'[t].of = task[t].calls /\ result'[t].own = task[t].local
          /\ result'[t].read = read
      BY <1>t, <2>1, <2>3
    <3>2. task[t].calls = "query" /\ read = ParseResponse(d)
      BY <2>3, <3>1 DEF read
    <3>3. task[t].local \in Sockets
      BY <1>t, <2>1, <2>3, CallCases
    <3>4. \/ read = Rejected
          \/ \E attributes \in Replies : read = ReadOf(ReplyTo(task[t].local, attributes))
      BY <2>1, <2>3, <3>2, <3>3, ReadsOwnAnswer
    <3>5. QED
      BY <3>1, <3>4 DEF Reads
  <2>4. QED
    BY <2>2, <2>3
<1>3. ASSUME UNCHANGED result PROVE Reads(result'[t])
  BY <1>1, <1>3
<1>4. ASSUME NEW u \in Tasks, result' = [result EXCEPT ![u] = NoResult]
      PROVE  Reads(result'[t])
  BY <1>1, <1>t, <1>4
<1>5. CASE UNCHANGED natVars
  BY <1>3, <1>5 DEF natVars
<1>6. CASE NatNext
  <2>1. \/ UNCHANGED result
        \/ \E u \in Tasks : result' = [result EXCEPT ![u] = NoResult]
        \/ \E u \in Tasks, d \in sent : Arrives(u, d)
    BY <1>6 DEF NatNext, CallEnds, AddCandidate, MakeOffer, DiscoverPublicEndpoint, TimesOut,
                GatherCandidates, Query, TryConnect, PerformConnectivityCheck, ServerAnswers
  <2>2. QED
    BY <1>2, <1>3, <1>4, <2>1
<1>7. QED
  BY <1>5, <1>6

\* What a query makes of what it gets is what parse_response() makes of a whole reply
\* that a server wrote for the query's own socket, with the ip still disguised and
\* the type of the next attribute for a port; a request of somebody's check is never
\* read as one, whatever is lost, repeated or delayed (StunServer::query and
\* parse_response, stun.rs).
THEOREM AnswersAreRead == NatSpec => []AnswersRead
<1>1. NatInit => AnswersRead
  BY DEF NatInit, AnswersRead, NoResult
<1>2. NatInv /\ AnswersRead /\ [NatNext]_natVars => AnswersRead'
  BY AnswersReadNext
<1>3. QED
  BY NatInvariant, <1>1, <1>2, PTL DEF NatSpec

-----------------------------------------------------------------------------
\* All the candidates there are have priorities calculate_priority() made.
LEMMA KeptAreMade ==
    ASSUME NEW agent \in Agents
    PROVE  \A c \in Kept(agent) : IsMade(c)
<1> DEFINE host == NewHost(Host[agent])
           top == 65535
<1>1. host = [candidateType |-> "Host", connectionAddress |-> Host[agent],
              priority |-> CalculatePriority("Host", top, 1)]
  BY DEF NewHost, Candidate
<1>2. top \in Preferences
  BY DEF Preferences
<1> HIDE DEF host, top
<1>3. Makes("Host", CalculatePriority("Host", top, 1))
  BY <1>2 DEF Makes
<1>4. IsMade(host)
  BY <1>1, <1>3 DEF IsMade, CandidateTypes
<1>5. QED
  BY <1>4, CandidateAssumption DEF Kept, host

\* Whenever an agent chooses among the candidates of an offer, however old, it gets
\* one of the type it prefers of those both have, in whatever order each came to have
\* them (select_best_candidate, ice.rs).
THEOREM SelectionIsBest == NatSpec => []SelectsBest
<1>1. NatInv => SelectsBest
  <2> SUFFICES ASSUME NatInv, NEW agent \in FullAgents, NEW m \in OffersTo(agent)
               PROVE  IsBest(SelectBestCandidate(candidates[agent], m.candidates),
                             candidates[agent], m.candidates)
    BY DEF SelectsBest
  <2>1. PICK o \in offers : m = FromJson(o[2])
    BY DEF OffersTo
  <2> DEFINE other == o[1]
             mine == candidates[agent]
             theirs == m.candidates
             T == Kept(agent) \cup Kept(other)
  <2>2. agent \in Agents /\ other \in Agents
    BY DEF FullAgents, NatInv, OffersFit
  <2>3. mine \in Seq(Kept(agent)) /\ theirs \in Seq(Kept(other))
    BY <2>1, <2>2 DEF NatInv, NatTypeOK, OffersFit
  <2>4. \A c \in T : IsMade(c)
    BY <2>2, KeptAreMade
  <2> HIDE DEF mine, theirs, other
  <2>5. mine \in Seq(T) /\ theirs \in Seq(T)
    BY <2>3, SeqMonotonic
  <2> HIDE DEF T
  <2>6. IsBest(SelectBestCandidate(mine, theirs), mine, theirs)
    BY <2>4, <2>5, BestIsBest
  <2>7. QED
    BY <2>6 DEF mine, theirs
<1>2. QED
  BY NatInvariant, <1>1, PTL
=============================================================================
