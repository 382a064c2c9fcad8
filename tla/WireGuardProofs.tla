-------------------------- MODULE WireGuardProofs --------------------------
(* Proofs about WireGuard, for any nodes, tasks, entries and bounds. *)
EXTENDS WireGuard, SequenceTheorems, FiniteSetTheorems, TLAPS

-----------------------------------------------------------------------------
(* Indexes and their three upper bytes.                                    *)

LEMMA Moduli ==
    /\ WireBase \in Nat /\ WireBase >= 2
    /\ UpperModulus \in Nat /\ UpperModulus > 0
    /\ IndexModulus \in Nat /\ IndexModulus > 1
<1>1. WireBase \in Nat /\ WireBase >= 2
  BY WireAssumption
<1>2. WireBase * WireBase \in Nat /\ WireBase * WireBase > 0
  BY <1>1
<1>3. UpperModulus \in Nat /\ UpperModulus > 0
  <2> DEFINE square == WireBase * WireBase
  <2>1. square \in Nat /\ square > 0
    BY <1>2
  <2>2. square * WireBase \in Nat /\ square * WireBase > 0
    <3> HIDE DEF square
    <3>1. QED
      BY <1>1, <2>1
  <2>3. QED
    BY <2>2 DEF UpperModulus
<1>4. IndexModulus \in Nat /\ IndexModulus > 1
  BY <1>1, <1>3 DEF IndexModulus
<1>5. QED
  BY <1>1, <1>3, <1>4

\* What the receiver takes for the index is an index.
LEMMA ReadIndexType == ASSUME NEW index \in Indexes PROVE ReadIndex(index) \in Indexes
<1> DEFINE B == WireBase
           U == UpperModulus
           q == index \div B
<1>1. B \in Nat /\ B >= 2 /\ U \in Nat /\ U > 0 /\ index \in Nat /\ index < U * B
  BY Moduli DEF Indexes, IndexModulus
<1>2. LengthByte \in Nat /\ LengthByte <= B - 1
  BY WireAssumption
<1>3. q \in Nat /\ q * B <= index
  <2> HIDE DEF B, U
  <2>1. QED
    BY <1>1
<1> HIDE DEF B, U, q
<1>4. q < U
  <2>1. SUFFICES ASSUME q >= U PROVE FALSE
    BY <1>1, <1>3
  <2>2. q * B >= U * B
    BY <2>1, <1>1, <1>3
  <2>3. QED
    BY <2>2, <1>1, <1>3
<1>5. LengthByte * U <= (B - 1) * U
  BY <1>1, <1>2
<1>6. (B - 1) * U = U * B - U
  BY <1>1
<1>7. LengthByte * U \in Nat
  BY <1>1, <1>2
<1>8. LengthByte * U + q \in 0 .. U * B - 1
  BY <1>1, <1>3, <1>4, <1>5, <1>6, <1>7
<1>9. QED
  BY <1>8 DEF ReadIndex, Indexes, IndexModulus, B, U, q

-----------------------------------------------------------------------------
(* Processes and what they are in the middle of.                           *)

\* A process belongs to a node; receive loops are nodes, tasks are not.
LEMMA AtNode == ASSUME NEW p \in Procs PROVE At(p) \in Nodes /\ (p \in Nodes => At(p) = p)
BY TaskAssumption DEF Procs, At

LEMMA JobCases ==
    ASSUME NEW j \in Job
    PROVE  /\ j.at \in {"none", "lookup", "allocate", "transmit"}
           /\ j = NoJob <=> j.at = "none"
           /\ j.at = "lookup" => j.key \in Nodes
           /\ j.at = "allocate" => /\ j.kind \in {"initiation", "response"}
                                   /\ j.to \in Endpoints /\ j.receiver \in Indexes
           /\ j.at = "transmit" => j.msg \in Datagram
BY DEF Job, NoJob

LEMMA DatagramFields ==
    ASSUME NEW m \in Datagram
    PROVE  /\ m.kind \in {"initiation", "response"}
           /\ m.from \in Nodes /\ m.to \in Nodes
           /\ m.index \in Indexes /\ m.receiver \in Indexes
BY DEF Datagram, Initiation, Response

\* What Allocate(p) leaves p with.
Drawn(p) ==
    IF job[p].to = NoEndpoint THEN NoJob
    ELSE [at |-> "transmit",
          msg |-> [kind |-> job[p].kind, from |-> At(p), to |-> job[p].to,
                   index |-> nextIndex[At(p)], receiver |-> job[p].receiver]]

LEMMA AllocateJob ==
    ASSUME WGTypeOK, NEW p \in Procs, Allocate(p)
    PROVE  /\ job' = [job EXCEPT ![p] = Drawn(p)]
           /\ Drawn(p) \in Job
           /\ job[p].to # NoEndpoint => Drawn(p).msg \in Datagram
<1>1. job' = [job EXCEPT ![p] = Drawn(p)]
  BY DEF Allocate, Drawn
<1>2. job[p].kind \in {"initiation", "response"} /\ job[p].to \in Endpoints
      /\ job[p].receiver \in Indexes
  BY JobCases DEF Allocate, WGTypeOK
<1>3. nextIndex[At(p)] \in Indexes /\ At(p) \in Nodes
  BY AtNode DEF WGTypeOK
<1>4. CASE job[p].to = NoEndpoint
  BY <1>1, <1>4 DEF Drawn, Job
<1>5. CASE job[p].to # NoEndpoint
  <2>1. Drawn(p).msg \in Datagram
    BY <1>2, <1>3, <1>5 DEF Drawn, Datagram, Initiation, Response, Endpoints
  <2>2. QED
    BY <1>1, <1>5, <2>1 DEF Drawn, Job
<1>6. QED
  BY <1>4, <1>5

-----------------------------------------------------------------------------
(* Types and roles.                                                        *)

LEMMA WGInvInit == WGInit => WGInv
<1> SUFFICES ASSUME WGInit PROVE WGInv
  OBVIOUS
<1>1. <<>> \in Seq(Endpoints)
  BY EmptySeq
<1>2. 1 \in Indexes
  BY Moduli DEF Indexes
<1>3. WGTypeOK
  <2>1. wgPeers \in [Nodes -> [Nodes -> Seq(Endpoints)]]
    BY <1>1 DEF WGInit
  <2>2. nextIndex \in [Nodes -> Indexes]
    BY <1>2 DEF WGInit
  <2>3. QED
    BY <2>1, <2>2 DEF WGInit, WGTypeOK, Job, Procs, NoJob
<1>4. Roles
  BY DEF WGInit, Roles, NoJob
<1>5. RoomLeft
  <2>1. \A n \in Nodes : Drawers(n) = {}
    BY DEF WGInit, Drawers, NoJob
  <2>2. MaxIndex \in Nat
    BY WGBoundAssumption, Moduli DEF Indexes
  <2>3. \A n \in Nodes : nextIndex[n] = 1 /\ Cardinality(Drawers(n)) = 0
    BY <2>1, FS_EmptySet DEF WGInit
  <2>4. QED
    BY <2>2, <2>3 DEF RoomLeft
<1>6. DrawnOnce
  BY DEF WGInit, DrawnOnce, NoJob
<1>7. Accounted
  BY DEF WGInit, Accounted, NoJob, Addresses, Procs
<1>8. QED
  BY <1>3, <1>4, <1>5, <1>6, <1>7 DEF WGInv

LEMMA WGTypeNext ==
    ASSUME WGTypeOK, Roles, [WGNext]_wgVars
    PROVE  WGTypeOK' /\ Roles'
<1>m. IndexModulus \in Nat /\ IndexModulus > 1
  BY Moduli
<1>z. 0 \in Indexes
  BY <1>m DEF Indexes
<1>n. Nodes \subseteq Procs
  BY DEF Procs
<1>1. ASSUME NEW n \in Nodes, NEW peer \in Entries[n], AddPeer(n, peer)
      PROVE  WGTypeOK' /\ Roles'
  <2>1. peer.key \in Nodes /\ peer.endpoint \in Endpoints
    BY EntriesAssumption DEF WGPeer
  <2>2. Append(wgPeers[n][peer.key], peer.endpoint) \in Seq(Endpoints)
    BY <2>1, AppendProperties DEF WGTypeOK
  <2>3. wgPeers' \in [Nodes -> [Nodes -> Seq(Endpoints)]]
    BY <1>1, <2>1, <2>2 DEF AddPeer, WGTypeOK
  <2>4. known' \in [Nodes -> SUBSET Nodes]
    BY <1>1, <2>1 DEF AddPeer, WGTypeOK, Endpoints
  <2>5. QED
    BY <1>1, <2>3, <2>4 DEF AddPeer, WGTypeOK, Roles
<1>2. ASSUME NEW n \in Nodes, NEW k \in Nodes, RemovePeer(n, k)
      PROVE  WGTypeOK' /\ Roles'
  <2>1. wgPeers' \in [Nodes -> [Nodes -> Seq(Endpoints)]]
    BY <1>2, EmptySeq DEF RemovePeer, WGTypeOK
  <2>2. QED
    BY <1>2, <2>1 DEF RemovePeer, WGTypeOK, Roles
<1>3. ASSUME NEW n \in Nodes, Run(n) \/ SocketError(n)
      PROVE  WGTypeOK' /\ Roles'
  <2>1. /\ \/ running' = [running EXCEPT ![n] = TRUE]
           \/ running' = [running EXCEPT ![n] = FALSE] /\ job[n] = NoJob
        /\ UNCHANGED <<wgPeers, nextIndex, job, sent, reported, known>>
    BY <1>3, Zenon DEF Run, SocketError
  <2>2. running' \in [Nodes -> BOOLEAN]
    BY <2>1 DEF WGTypeOK
  <2>3. \A i \in Nodes : job[i] # NoJob => running'[i]
    <3>1. CASE running' = [running EXCEPT ![n] = TRUE]
      BY <3>1, Zenon DEF WGTypeOK
    <3>2. CASE running' = [running EXCEPT ![n] = FALSE] /\ job[n] = NoJob
      BY <3>2, Zenon DEF WGTypeOK
    <3>3. QED
      BY <2>1, <3>1, <3>2
  <2>4. QED
    BY <2>1, <2>2, <2>3 DEF WGTypeOK, Roles
<1>4. ASSUME NEW n \in Nodes, NEW m \in sent, AcceptInitiation(n, m)
      PROVE  WGTypeOK' /\ Roles'
  <2>1. m.from \in Endpoints /\ ReadIndex(m.index) \in Indexes
    BY ReadIndexType, DatagramFields DEF WGTypeOK, Endpoints
  <2>2. [at |-> "allocate", kind |-> "response", to |-> m.from,
         receiver |-> ReadIndex(m.index)] \in Job
    BY <2>1 DEF Job
  <2>3. QED
    BY <1>4, <1>n, <2>2 DEF AcceptInitiation, Receives, WGTypeOK, Roles
<1>5. ASSUME NEW n \in Nodes, NEW m \in sent, AcceptResponse(n, m)
      PROVE  WGTypeOK' /\ Roles'
  <2>1. m.from \in Nodes
    BY DatagramFields DEF WGTypeOK
  <2>2. QED
    BY <1>5, <2>1 DEF AcceptResponse, WGTypeOK, Roles
<1>6. ASSUME NEW t \in Tasks, NEW k \in Nodes, SendPacket(t, k) \/ InitiateHandshake(t, k)
      PROVE  WGTypeOK' /\ Roles'
  <2>1. [at |-> "lookup", key |-> k] \in Job
    BY DEF Job
  <2>2. job' = [job EXCEPT ![t] = [at |-> "lookup", key |-> k]]
        /\ UNCHANGED <<wgPeers, nextIndex, running, sent, reported, known>>
    BY <1>6 DEF SendPacket, InitiateHandshake
  <2>3. t \in Procs /\ t \notin Nodes
    BY TaskAssumption DEF Procs
  <2>4. QED
    BY <2>1, <2>2, <2>3 DEF WGTypeOK, Roles
<1>7. ASSUME NEW p \in Procs, LookUp(p) PROVE WGTypeOK' /\ Roles'
  <2>1. p \notin Nodes /\ job[p].key \in Nodes
    BY <1>7, JobCases DEF LookUp, WGTypeOK
  <2>2. wgPeers[At(p)][job[p].key] \in Seq(Endpoints)
    BY <2>1, AtNode DEF WGTypeOK
  <2>3. Head(wgPeers[At(p)][job[p].key]) \in Endpoints
    BY <1>7, <2>2, HeadTailProperties DEF LookUp
  <2> DEFINE new == [at |-> "allocate", kind |-> "initiation",
                     to |-> Head(wgPeers[At(p)][job[p].key]), receiver |-> 0]
  <2>4. new \in Job
    BY <1>z, <2>3 DEF Job
  <2>5. job' = [job EXCEPT ![p] = new]
        /\ UNCHANGED <<wgPeers, nextIndex, running, sent, reported, known>>
    BY <1>7 DEF LookUp
  <2>6. new.at = "allocate" /\ new.kind = "initiation"
    OBVIOUS
  <2> HIDE DEF new
  <2>7. QED
    BY <2>1, <2>4, <2>5, <2>6 DEF WGTypeOK, Roles
<1>8. ASSUME NEW p \in Procs, LookUpFails(p) \/ Transmit(p)
      PROVE  WGTypeOK' /\ Roles'
  <2>1. NoJob \in Job
    BY DEF Job
  <2>2. job' = [job EXCEPT ![p] = NoJob]
        /\ UNCHANGED <<wgPeers, nextIndex, running, reported, known>>
    BY <1>8 DEF LookUpFails, Transmit
  <2>3. sent' \subseteq Datagram
    BY <1>8, JobCases DEF LookUpFails, Transmit, WGTypeOK
  <2>4. QED
    BY <2>1, <2>2, <2>3 DEF WGTypeOK, Roles, NoJob
<1>9. ASSUME NEW p \in Procs, Allocate(p) PROVE WGTypeOK' /\ Roles'
  <2>1. job' = [job EXCEPT ![p] = Drawn(p)] /\ Drawn(p) \in Job
        /\ UNCHANGED <<wgPeers, running, sent, reported, known>>
    BY <1>9, AllocateJob DEF Allocate
  <2>2. nextIndex' \in [Nodes -> Indexes]
    <3>1. nextIndex[At(p)] \in Nat
      BY AtNode DEF WGTypeOK, Indexes
    <3>2. (nextIndex[At(p)] + 1) % IndexModulus \in Indexes
      BY <1>m, <3>1 DEF Indexes
    <3>3. QED
      BY <1>9, <3>2 DEF Allocate, WGTypeOK
  <2>3. Drawn(p).at \in {"none", "transmit"}
    BY DEF Drawn, NoJob
  <2>4. Drawn(p).at = "transmit" =>
           Drawn(p).msg.kind = job[p].kind /\ Drawn(p).msg.from = At(p)
    BY DEF Drawn, NoJob
  <2>5. job[p].at = "allocate" /\ job[p] # NoJob
    BY <1>9 DEF Allocate, NoJob
  <2>6. WGTypeOK'
    BY <2>1, <2>2, <2>3, <2>5 DEF WGTypeOK
  <2>7. Roles'
    BY <2>1, <2>3, <2>4, <2>5 DEF WGTypeOK, Roles
  <2>8. QED
    BY <2>6, <2>7
<1>10. CASE UNCHANGED wgVars
  BY <1>10 DEF wgVars, WGTypeOK, Roles
<1>11. QED
  BY <1>1, <1>2, <1>3, <1>4, <1>5, <1>6, <1>7, <1>8, <1>9, <1>10 DEF WGNext, Progress

-----------------------------------------------------------------------------
(* The counters stay below their bound.                                    *)

LEMMA DrawersFinite ==
    ASSUME NEW n \in Nodes
    PROVE  IsFiniteSet(Drawers(n)) /\ Cardinality(Drawers(n)) \in Nat
<1>1. IsFiniteSet(Procs)
  BY FiniteAssumption, FS_Union DEF Procs
<1>2. Drawers(n) \in SUBSET Procs
  BY DEF Drawers
<1>3. QED
  BY <1>1, <1>2, FS_Subset, FS_CardinalityType

\* A step that gives p another job moves p alone in or out of its node's drawers.
LEMMA DrawersChange ==
    ASSUME WGTypeOK, NEW p \in Procs, NEW new, job' = [job EXCEPT ![p] = new]
    PROVE  /\ \A n \in Nodes : n # At(p) => Drawers(n)' = Drawers(n)
           /\ Drawers(At(p))' = IF new.at \in {"lookup", "allocate"}
                                THEN Drawers(At(p)) \cup {p} ELSE Drawers(At(p)) \ {p}
<1>1. \A q \in Procs : job'[q] = IF q = p THEN new ELSE job[q]
  BY DEF WGTypeOK
<1>2. QED
  BY <1>1 DEF Drawers

LEMMA RoomNext ==
    ASSUME WGTypeOK, RoomLeft, [WGNext]_wgVars
    PROVE  RoomLeft'
<1>i. MaxIndex \in Nat /\ MaxIndex + 1 < IndexModulus /\ IndexModulus \in Nat
  BY WGBoundAssumption, Moduli DEF Indexes
<1>n. \A n \in Nodes : nextIndex[n] \in Nat
  BY Moduli DEF WGTypeOK, Indexes
<1>s. ASSUME UNCHANGED <<nextIndex, job>> PROVE RoomLeft'
  BY <1>s DEF RoomLeft, Drawers
\* Starting work that will draw an index.
<1>1. ASSUME NEW p \in Procs, NEW new, new.at = "lookup" \/ new.at = "allocate",
             job' = [job EXCEPT ![p] = new], UNCHANGED nextIndex, Room(At(p))
      PROVE  RoomLeft'
  <2> SUFFICES ASSUME NEW n \in Nodes
               PROVE  nextIndex[n] + Cardinality(Drawers(n)') <= MaxIndex + 1
    BY <1>1 DEF RoomLeft
  <2>1. CASE n # At(p)
    BY <1>1, <2>1, DrawersChange DEF RoomLeft
  <2>2. CASE n = At(p)
    <3> DEFINE S == Drawers(n)
    <3>1. Drawers(n)' = S \cup {p}
      BY <1>1, <2>2, DrawersChange
    <3>2. IsFiniteSet(S) /\ Cardinality(S) \in Nat
      BY DrawersFinite
    <3>3. nextIndex[n] + Cardinality(S) <= MaxIndex
      BY <1>1, <2>2 DEF Room
    <3> HIDE DEF S
    <3>4. Cardinality(S \cup {p}) = IF p \in S THEN Cardinality(S) ELSE Cardinality(S) + 1
      BY <3>2, FS_AddElement
    <3>5. QED
      BY <1>i, <1>n, <3>1, <3>2, <3>3, <3>4
  <2>3. QED
    BY <2>1, <2>2
\* Going on without drawing, or ending.
<1>2. ASSUME NEW p \in Procs, NEW new, p \in Drawers(At(p)) \/ new = NoJob,
             job' = [job EXCEPT ![p] = new], UNCHANGED nextIndex
      PROVE  RoomLeft'
  <2> SUFFICES ASSUME NEW n \in Nodes
               PROVE  nextIndex[n] + Cardinality(Drawers(n)') <= MaxIndex + 1
    BY <1>2 DEF RoomLeft
  <2>1. Drawers(n)' \in SUBSET Drawers(n)
    <3>1. new = NoJob => new.at = "none"
      BY DEF NoJob
    <3>2. CASE n # At(p)
      BY <1>2, <3>2, DrawersChange
    <3>3. CASE n = At(p)
      <4>1. CASE p \in Drawers(n)
        <5>1. \/ Drawers(n)' = Drawers(n) \cup {p}
              \/ Drawers(n)' = Drawers(n) \ {p}
          BY <1>2, <3>3, DrawersChange
        <5>2. QED
          BY <4>1, <5>1
      <4>2. CASE new = NoJob
        <5>1. Drawers(n)' = Drawers(n) \ {p}
          BY <1>2, <3>1, <3>3, <4>2, DrawersChange
        <5>2. QED
          BY <5>1
      <4>3. QED
        BY <1>2, <3>3, <4>1, <4>2
    <3>4. QED
      BY <3>2, <3>3
  <2>2. Cardinality(Drawers(n)') <= Cardinality(Drawers(n))
        /\ Cardinality(Drawers(n)') \in Nat
    BY <2>1, DrawersFinite, FS_Subset, FS_CardinalityType
  <2>3. QED
    BY <1>i, <1>n, <2>2, DrawersFinite DEF RoomLeft
<1>3. ASSUME NEW p \in Procs, Allocate(p) PROVE RoomLeft'
  <2>1. job' = [job EXCEPT ![p] = Drawn(p)] /\ Drawn(p).at \in {"none", "transmit"}
    BY <1>3, AllocateJob DEF Drawn, NoJob
  <2>2. p \in Drawers(At(p)) /\ At(p) \in Nodes
    BY <1>3, AtNode DEF Allocate, Drawers
  <2> SUFFICES ASSUME NEW n \in Nodes
               PROVE  nextIndex'[n] + Cardinality(Drawers(n)') <= MaxIndex + 1
    BY DEF RoomLeft
  <2>3. CASE n # At(p)
    <3>1. nextIndex'[n] = nextIndex[n]
      BY <1>3, <2>2, <2>3 DEF Allocate, WGTypeOK
    <3>2. QED
      BY <2>1, <2>3, <3>1, DrawersChange DEF RoomLeft
  <2>4. CASE n = At(p)
    <3>1. Drawers(n)' = Drawers(n) \ {p}
      BY <2>1, <2>4, DrawersChange
    <3>2. Cardinality(Drawers(n)') = Cardinality(Drawers(n)) - 1
          /\ Cardinality(Drawers(n)') \in Nat
      BY <2>2, <2>4, <3>1, DrawersFinite, FS_RemoveElement, FS_CardinalityType
    <3>3. nextIndex'[n] = (nextIndex[n] + 1) % IndexModulus
      BY <1>3, <2>4, <2>2 DEF Allocate, WGTypeOK
    <3>4. nextIndex[n] + Cardinality(Drawers(n)) <= MaxIndex + 1
      BY DEF RoomLeft
    <3>5. nextIndex[n] + 1 < IndexModulus
      BY <1>i, <1>n, <3>2, <3>4, DrawersFinite
    <3>6. nextIndex'[n] = nextIndex[n] + 1
      BY <1>i, <1>n, <3>3, <3>5
    <3>7. QED
      BY <1>i, <1>n, <3>2, <3>4, <3>6, DrawersFinite
  <2>5. QED
    BY <2>3, <2>4
<1>4. ASSUME NEW n \in Nodes, NEW m \in sent, AcceptInitiation(n, m) PROVE RoomLeft'
  <2> DEFINE new == [at |-> "allocate", kind |-> "response", to |-> m.from,
                     receiver |-> ReadIndex(m.index)]
  <2>1. n \in Procs /\ At(n) = n
    BY AtNode DEF Procs
  <2>2. (new.at = "lookup" \/ new.at = "allocate") /\ job' = [job EXCEPT ![n] = new]
        /\ UNCHANGED nextIndex /\ Room(At(n))
    BY <1>4, <2>1 DEF AcceptInitiation
  <2> HIDE DEF new
  <2>3. QED
    BY <1>1, <2>1, <2>2
<1>5. ASSUME NEW t \in Tasks, NEW k \in Nodes, SendPacket(t, k) \/ InitiateHandshake(t, k)
      PROVE  RoomLeft'
  <2> DEFINE new == [at |-> "lookup", key |-> k]
  <2>1. t \in Procs
    BY DEF Procs
  <2>2. (new.at = "lookup" \/ new.at = "allocate") /\ job' = [job EXCEPT ![t] = new]
        /\ UNCHANGED nextIndex /\ Room(At(t))
    BY <1>5 DEF SendPacket, InitiateHandshake
  <2> HIDE DEF new
  <2>3. QED
    BY <1>1, <2>1, <2>2
<1>6. ASSUME NEW p \in Procs, LookUp(p) PROVE RoomLeft'
  <2> DEFINE new == [at |-> "allocate", kind |-> "initiation",
                     to |-> Head(wgPeers[At(p)][job[p].key]), receiver |-> 0]
  <2>1. p \in Drawers(At(p))
    BY <1>6 DEF LookUp, Drawers
  <2>2. job' = [job EXCEPT ![p] = new] /\ UNCHANGED nextIndex
    BY <1>6 DEF LookUp
  <2> HIDE DEF new
  <2>3. QED
    BY <1>2, <2>1, <2>2
<1>7. ASSUME NEW p \in Procs, LookUpFails(p) \/ Transmit(p) PROVE RoomLeft'
  <2>1. job' = [job EXCEPT ![p] = NoJob] /\ UNCHANGED nextIndex
    BY <1>7 DEF LookUpFails, Transmit
  <2>2. QED
    BY <1>2, <2>1
<1>8. QED
  BY <1>s, <1>3, <1>4, <1>5, <1>6, <1>7
  DEF WGNext, Progress, AddPeer, RemovePeer, Run, SocketError, AcceptResponse, wgVars

-----------------------------------------------------------------------------
(* No index is drawn twice.                                                *)

LEMMA DrawnOnceNext ==
    ASSUME WGTypeOK, WGTypeOK', Roles, RoomLeft, DrawnOnce, [WGNext]_wgVars
    PROVE  DrawnOnce'
<1>s. ASSUME UNCHANGED <<nextIndex, job, sent>> PROVE DrawnOnce'
  BY <1>s DEF DrawnOnce
\* A step after which p does not hold a datagram.
<1>1. ASSUME NEW p \in Procs, NEW new, new.at # "transmit",
             job' = [job EXCEPT ![p] = new], UNCHANGED <<nextIndex, sent>>
      PROVE  DrawnOnce'
  <2>1. \A q \in Procs : job'[q].at = "transmit" => q # p /\ job'[q] = job[q]
    BY <1>1 DEF WGTypeOK
  <2>2. QED
    BY <1>1, <2>1 DEF DrawnOnce
<1>2. ASSUME NEW p \in Procs, Transmit(p) PROVE DrawnOnce'
  <2>1. \A q \in Procs : job'[q].at = "transmit" => q # p /\ job'[q] = job[q]
    BY <1>2 DEF Transmit, WGTypeOK, NoJob
  <2>2. job[p].msg.from = At(p) /\ sent' = sent \cup {job[p].msg} /\ nextIndex' = nextIndex
    BY <1>2 DEF Transmit, Roles
  <2>3. job[p].msg.index < nextIndex[At(p)]
    BY <1>2 DEF Transmit, DrawnOnce
  <2>4. \A q \in Procs : q # p /\ At(q) = At(p) /\ job[q].at = "transmit" =>
            job[q].msg.index # job[p].msg.index
    BY <1>2 DEF Transmit, DrawnOnce
  <2>5. QED
    BY <2>1, <2>2, <2>3, <2>4 DEF DrawnOnce
<1>3. ASSUME NEW p \in Procs, Allocate(p) PROVE DrawnOnce'
  <2> DEFINE n == At(p)
  <2>1. /\ job' = [job EXCEPT ![p] = Drawn(p)] /\ sent' = sent /\ n \in Nodes
        /\ \A q \in Procs : job'[q] = IF q = p THEN Drawn(p) ELSE job[q]
        /\ Drawn(p).at = "transmit" => Drawn(p).msg.index = nextIndex[n]
    BY <1>3, AllocateJob, AtNode DEF Allocate, WGTypeOK, Drawn, NoJob
  <2>2. nextIndex' = [nextIndex EXCEPT ![n] = nextIndex[n] + 1]
    <3>1. Cardinality(Drawers(n)) >= 1 /\ Cardinality(Drawers(n)) \in Nat
      <4>1. p \in Drawers(n)
        BY <1>3 DEF Allocate, Drawers
      <4>2. QED
        BY <2>1, <4>1, DrawersFinite, FS_EmptySet
    <3>2. nextIndex[n] + Cardinality(Drawers(n)) <= MaxIndex + 1
      BY <2>1 DEF RoomLeft
    <3>3. MaxIndex + 1 < IndexModulus /\ MaxIndex \in Nat /\ IndexModulus \in Nat
          /\ nextIndex[n] \in Nat
      BY <2>1, WGBoundAssumption, Moduli DEF Indexes, WGTypeOK
    <3>4. (nextIndex[n] + 1) % IndexModulus = nextIndex[n] + 1
      BY <3>1, <3>2, <3>3
    <3>5. QED
      BY <1>3, <3>4 DEF Allocate
  <2>3. \A i \in Nodes : nextIndex[i] \in Nat /\ nextIndex'[i] \in Nat
                         /\ nextIndex[i] <= nextIndex'[i]
    BY <2>1, <2>2, Moduli DEF WGTypeOK, Indexes
  <2>4. \A m \in sent : m.from \in Nodes /\ m.index \in Nat /\ m.index < nextIndex[m.from]
    BY DatagramFields, Moduli DEF WGTypeOK, DrawnOnce, Indexes
  <2>5. \A q \in Procs : job[q].at = "transmit" =>
            At(q) \in Nodes /\ job[q].msg.index \in Nat /\ job[q].msg.index < nextIndex[At(q)]
    BY AtNode, JobCases, DatagramFields, Moduli DEF WGTypeOK, DrawnOnce, Indexes
  <2>6. \A m \in sent' : m.index < nextIndex'[m.from]
    BY <2>1, <2>3, <2>4
  <2> SUFFICES ASSUME NEW q \in Procs, job'[q].at = "transmit"
               PROVE  /\ job'[q].msg.index < nextIndex'[At(q)]
                      /\ \A m \in sent : m.from = At(q) => m.index # job'[q].msg.index
                      /\ \A r \in Procs :
                            q # r /\ At(r) = At(q) /\ job'[r].at = "transmit" =>
                                job'[r].msg.index # job'[q].msg.index
    BY <2>1, <2>6 DEF DrawnOnce
  <2>7. CASE q = p
    <3>1. job'[q].msg.index = nextIndex[n] /\ nextIndex'[n] = nextIndex[n] + 1
      BY <2>1, <2>2, <2>7 DEF WGTypeOK
    <3>2. QED
      BY <2>1, <2>3, <2>4, <2>5, <2>7, <3>1
  <2>8. CASE q # p
    <3>1. job'[q] = job[q]
      BY <2>1, <2>8
    <3>2. \A r \in Procs :
              q # r /\ At(r) = At(q) /\ job'[r].at = "transmit" =>
                  job'[r].msg.index # job[q].msg.index
      <4>1. SUFFICES ASSUME NEW r \in Procs, q # r, At(r) = At(q), job'[r].at = "transmit"
                     PROVE  job'[r].msg.index # job[q].msg.index
        OBVIOUS
      <4>2. CASE r = p
        BY <2>1, <2>5, <3>1, <4>1, <4>2
      <4>3. CASE r # p
        BY <2>1, <3>1, <4>1, <4>3 DEF DrawnOnce
      <4>4. QED
        BY <4>2, <4>3
    <3>3. job[q].msg.index < nextIndex'[At(q)]
      BY <2>3, <2>5, <3>1
    <3>4. QED
      BY <3>1, <3>2, <3>3 DEF DrawnOnce
  <2>9. QED
    BY <2>7, <2>8
<1>4. ASSUME NEW n \in Nodes, NEW m \in sent, AcceptInitiation(n, m) PROVE DrawnOnce'
  <2> DEFINE new == [at |-> "allocate", kind |-> "response", to |-> m.from,
                     receiver |-> ReadIndex(m.index)]
  <2>1. n \in Procs /\ new.at # "transmit" /\ job' = [job EXCEPT ![n] = new]
        /\ UNCHANGED <<nextIndex, sent>>
    BY <1>4 DEF AcceptInitiation, Procs
  <2>2. QED
    BY <1>1, <2>1
<1>5. ASSUME NEW t \in Tasks, NEW k \in Nodes, SendPacket(t, k) \/ InitiateHandshake(t, k)
      PROVE  DrawnOnce'
  <2> DEFINE new == [at |-> "lookup", key |-> k]
  <2>1. t \in Procs /\ new.at # "transmit" /\ job' = [job EXCEPT ![t] = new]
        /\ UNCHANGED <<nextIndex, sent>>
    BY <1>5 DEF SendPacket, InitiateHandshake, Procs
  <2>2. QED
    BY <1>1, <2>1
<1>6. ASSUME NEW p \in Procs, LookUp(p) PROVE DrawnOnce'
  <2> DEFINE new == [at |-> "allocate", kind |-> "initiation",
                     to |-> Head(wgPeers[At(p)][job[p].key]), receiver |-> 0]
  <2>1. new.at # "transmit" /\ job' = [job EXCEPT ![p] = new]
        /\ UNCHANGED <<nextIndex, sent>>
    BY <1>6 DEF LookUp
  <2>2. QED
    BY <1>1, <2>1
<1>7. ASSUME NEW p \in Procs, LookUpFails(p) PROVE DrawnOnce'
  <2>1. NoJob.at # "transmit"
    BY DEF NoJob
  <2>2. QED
    BY <1>1, <1>7, <2>1 DEF LookUpFails
<1>8. QED
  BY <1>s, <1>2, <1>3, <1>4, <1>5, <1>6, <1>7
  DEF WGNext, Progress, AddPeer, RemovePeer, Run, SocketError, AcceptResponse, wgVars

-----------------------------------------------------------------------------
(* Where responses come from.                                              *)

\* An answer stays one: nothing is taken back from what was sent.
LEMMA AnswersKept ==
    ASSUME sent \subseteq sent', NEW n, NEW m, NEW receiver, Answers(n, m, receiver)
    PROVE  Answers(n, m, receiver)'
BY DEF Answers

\* A step that gives p another job, which accounts for itself.
LEMMA AccountedJob ==
    ASSUME WGTypeOK, Accounted, NEW p \in Procs, NEW new,
           job' = [job EXCEPT ![p] = new],
           UNCHANGED <<wgPeers, sent, reported, known>>,
           new.at = "allocate" => /\ new.to \in known[At(p)] \cup {NoEndpoint}
                                  /\ p \in Nodes => Answers(p, new.to, new.receiver),
           new.at = "transmit" => /\ new.msg.to \in known[At(p)]
                                  /\ p \in Nodes => Answers(p, new.msg.to, new.msg.receiver)
    PROVE  Accounted'
<1>1. \A q \in Procs : job'[q] = IF q = p THEN new ELSE job[q]
  BY DEF WGTypeOK
<1>2. Nodes \subseteq Procs
  BY DEF Procs
<1>3. \A n \in Nodes : Addresses(n)' = Addresses(n)
  BY DEF Addresses
<1>4. \A n, m, receiver : Answers(n, m, receiver) => Answers(n, m, receiver)'
  BY AnswersKept
<1>5. \A q \in Procs :
         /\ job'[q].at = "allocate" => job'[q].to \in known'[At(q)] \cup {NoEndpoint}
         /\ job'[q].at = "transmit" => job'[q].msg.to \in known'[At(q)]
  BY <1>1 DEF Accounted
<1>6. \A n \in Nodes :
         /\ job'[n].at = "allocate" => Answers(n, job'[n].to, job'[n].receiver)
         /\ job'[n].at = "transmit" => Answers(n, job'[n].msg.to, job'[n].msg.receiver)
  BY <1>1, <1>2 DEF Accounted
<1>7. QED
  BY <1>3, <1>5, <1>6 DEF Accounted, Answers

LEMMA AccountedNext ==
    ASSUME WGTypeOK, Roles, Accounted, [WGNext]_wgVars
    PROVE  Accounted'
<1>n. Nodes \subseteq Procs /\ \A n \in Nodes : At(n) = n
  BY AtNode DEF Procs
<1>s. ASSUME UNCHANGED <<wgPeers, job, sent, reported, known>> PROVE Accounted'
  BY <1>s DEF Accounted, Addresses, Answers
<1>1. ASSUME NEW n \in Nodes, NEW peer \in Entries[n], AddPeer(n, peer) PROVE Accounted'
  <2>1. peer.key \in Nodes /\ peer.endpoint \in Endpoints
    BY EntriesAssumption DEF WGPeer
  <2>2. \A i \in Nodes : known[i] \subseteq known'[i]
    BY <1>1 DEF AddPeer, WGTypeOK
  <2>3. ASSUME NEW i \in Nodes, NEW a \in Addresses(i)'
        PROVE  a \in known'[i] \cup {NoEndpoint}
    <3>1. PICK k \in Nodes : \E j \in DOMAIN wgPeers'[i][k] : a = wgPeers'[i][k][j]
      BY <2>3 DEF Addresses
    <3>2. PICK j \in DOMAIN wgPeers'[i][k] : a = wgPeers'[i][k][j]
      BY <3>1
    <3>3. CASE i = n /\ k = peer.key
      <4> DEFINE s == wgPeers[n][k]
      <4>1. s \in Seq(Endpoints) /\ wgPeers'[i][k] = Append(s, peer.endpoint)
        BY <1>1, <3>3 DEF AddPeer, WGTypeOK
      <4>2. j \in 1 .. Len(s) + 1 /\ a = IF j <= Len(s) THEN s[j] ELSE peer.endpoint
        BY <2>1, <3>2, <4>1, AppendProperties
      <4>3. CASE j \in 1 .. Len(s)
        <5>1. a \in Addresses(n)
          BY <4>1, <4>2, <4>3, LenProperties DEF Addresses
        <5>2. QED
          BY <2>2, <3>3, <5>1 DEF Accounted
      <4>4. CASE a = peer.endpoint
        BY <1>1, <2>1, <3>3, <4>4 DEF AddPeer, WGTypeOK
      <4>5. QED
        <5>1. Len(s) \in Nat
          BY <4>1, LenProperties
        <5>2. QED
          BY <4>2, <4>3, <4>4, <5>1
    <3>4. CASE ~(i = n /\ k = peer.key)
      <4>1. wgPeers'[i][k] = wgPeers[i][k]
        BY <1>1, <3>4 DEF AddPeer, WGTypeOK
      <4>2. a \in Addresses(i)
        BY <3>2, <4>1 DEF Addresses
      <4>3. QED
        BY <2>2, <4>2 DEF Accounted
    <3>5. QED
      BY <3>3, <3>4
  <2>4. \A p \in Procs : At(p) \in Nodes
    BY AtNode
  <2>5. \A m \in sent : m.from \in Nodes
    BY DatagramFields DEF WGTypeOK
  <2>6. UNCHANGED <<job, sent, reported>>
    BY <1>1 DEF AddPeer
  <2>7. QED
    BY <2>2, <2>3, <2>4, <2>5, <2>6 DEF Accounted, Answers
<1>2. ASSUME NEW n \in Nodes, NEW k \in Nodes, RemovePeer(n, k) PROVE Accounted'
  <2>1. \A i \in Nodes : Addresses(i)' \subseteq Addresses(i)
    <3>1. \A i, j \in Nodes : wgPeers'[i][j] = wgPeers[i][j] \/ wgPeers'[i][j] = <<>>
      BY <1>2 DEF RemovePeer, WGTypeOK
    <3>2. \A i, j \in Nodes : DOMAIN wgPeers'[i][j] \subseteq DOMAIN wgPeers[i][j]
      BY <3>1
    <3>3. QED
      BY <3>1, <3>2 DEF Addresses
  <2>2. QED
    BY <1>2, <2>1 DEF RemovePeer, Accounted, Answers
<1>3. ASSUME NEW t \in Tasks, NEW k \in Nodes, SendPacket(t, k) \/ InitiateHandshake(t, k)
      PROVE  Accounted'
  <2> DEFINE new == [at |-> "lookup", key |-> k]
  <2>1. /\ t \in Procs /\ new.at = "lookup" /\ job' = [job EXCEPT ![t] = new]
        /\ UNCHANGED <<wgPeers, sent, reported, known>>
    BY <1>3 DEF SendPacket, InitiateHandshake, Procs
  <2> HIDE DEF new
  <2>2. QED
    BY <2>1, AccountedJob
<1>4. ASSUME NEW p \in Procs, LookUp(p) PROVE Accounted'
  <2> DEFINE list == wgPeers[At(p)][job[p].key]
             new == [at |-> "allocate", kind |-> "initiation", to |-> Head(list), receiver |-> 0]
  <2>1. p \notin Nodes /\ job[p].key \in Nodes /\ At(p) \in Nodes
    BY <1>4, JobCases, AtNode DEF LookUp, WGTypeOK
  <2>2. list \in Seq(Endpoints) /\ list # <<>>
    BY <1>4, <2>1 DEF LookUp, WGTypeOK
  <2>3. Head(list) \in Addresses(At(p))
    <3>1. Head(list) = list[1] /\ 1 \in DOMAIN list
      <4> HIDE DEF list
      <4>1. QED
        BY <2>2
    <3>2. QED
      BY <2>1, <3>1 DEF Addresses
  <2>4. Head(list) \in known[At(p)] \cup {NoEndpoint}
    BY <2>1, <2>3 DEF Accounted
  <2>5. new.at = "allocate" /\ new.to = Head(list)
    OBVIOUS
  <2>6. job' = [job EXCEPT ![p] = new] /\ UNCHANGED <<wgPeers, sent, reported, known>>
    BY <1>4 DEF LookUp
  <2> HIDE DEF new, list
  <2>7. QED
    BY <2>1, <2>4, <2>5, <2>6, AccountedJob
<1>5. ASSUME NEW p \in Procs, LookUpFails(p) PROVE Accounted'
  <2>1. NoJob.at = "none"
    BY DEF NoJob
  <2>2. QED
    BY <1>5, <2>1, AccountedJob DEF LookUpFails
<1>6. ASSUME NEW p \in Procs, Allocate(p) PROVE Accounted'
  <2>1. /\ job' = [job EXCEPT ![p] = Drawn(p)]
        /\ UNCHANGED <<wgPeers, sent, reported, known>>
    BY <1>6, AllocateJob DEF Allocate
  <2>2. /\ Drawn(p).at # "allocate"
        /\ Drawn(p).at = "transmit" => /\ Drawn(p).msg.to = job[p].to
                                       /\ Drawn(p).msg.receiver = job[p].receiver
                                       /\ job[p].to # NoEndpoint
    BY DEF Drawn, NoJob
  <2>3. /\ job[p].to \in known[At(p)] \cup {NoEndpoint}
        /\ p \in Nodes => Answers(p, job[p].to, job[p].receiver)
    BY <1>6 DEF Allocate, Accounted
  <2>4. QED
    BY <2>1, <2>2, <2>3, AccountedJob
<1>7. ASSUME NEW p \in Procs, Transmit(p) PROVE Accounted'
  <2> DEFINE msg == job[p].msg
  <2>1. /\ msg.from = At(p) /\ msg.kind = (IF p \in Nodes THEN "response" ELSE "initiation")
        /\ msg.to \in known[At(p)]
        /\ p \in Nodes => Answers(p, msg.to, msg.receiver)
    BY <1>7 DEF Transmit, Roles, Accounted
  <2>2. /\ sent' = sent \cup {msg} /\ job' = [job EXCEPT ![p] = NoJob]
        /\ UNCHANGED <<wgPeers, reported, known>>
    BY <1>7 DEF Transmit
  <2> HIDE DEF msg
  <2>3. \A q \in Procs : job'[q] = IF q = p THEN NoJob ELSE job[q]
    BY <2>2 DEF WGTypeOK
  <2>4. \A n, m, receiver : Answers(n, m, receiver) => Answers(n, m, receiver)'
    BY <2>2, AnswersKept
  <2>5. NoJob.at = "none"
    BY DEF NoJob
  <2>6. \A n \in Nodes : Addresses(n)' = Addresses(n)
    BY <2>2 DEF Addresses
  <2>7. \A n \in Nodes :
           /\ job'[n].at = "allocate" => Answers(n, job'[n].to, job'[n].receiver)
           /\ job'[n].at = "transmit" => Answers(n, job'[n].msg.to, job'[n].msg.receiver)
    BY <1>n, <2>3, <2>5 DEF Accounted
  <2>8. \A m \in sent' : m.kind = "response" => Answers(m.from, m.to, m.receiver)
    BY <1>n, <2>1, <2>2 DEF Accounted
  <2>9. \A m \in sent' : m.to \in known'[m.from]
    BY <2>1, <2>2 DEF Accounted
  <2>10. \A q \in Procs :
            /\ job'[q].at = "allocate" => job'[q].to \in known'[At(q)] \cup {NoEndpoint}
            /\ job'[q].at = "transmit" => job'[q].msg.to \in known'[At(q)]
    BY <2>2, <2>3, <2>5 DEF Accounted
  <2>11. \A n \in Nodes : \A m \in reported'[n] :
            \E i \in sent' : i.kind = "response" /\ i.from = m /\ i.to = n
    BY <2>2 DEF Accounted
  <2>12. QED
    BY <2>2, <2>6, <2>7, <2>8, <2>9, <2>10, <2>11 DEF Accounted, Answers
<1>8. ASSUME NEW n \in Nodes, NEW m \in sent, AcceptInitiation(n, m) PROVE Accounted'
  <2> DEFINE new == [at |-> "allocate", kind |-> "response", to |-> m.from,
                     receiver |-> ReadIndex(m.index)]
  <2>1. m.from \in known[n] \cup {NoEndpoint}
    BY <1>8 DEF AcceptInitiation, Accounted
  <2>2. Answers(n, m.from, ReadIndex(m.index))
    BY <1>8 DEF AcceptInitiation, Receives, Answers
  <2>3. new.at = "allocate" /\ new.to = m.from /\ new.receiver = ReadIndex(m.index)
    OBVIOUS
  <2>4. job' = [job EXCEPT ![n] = new] /\ UNCHANGED <<wgPeers, sent, reported, known>>
    BY <1>8 DEF AcceptInitiation
  <2> HIDE DEF new
  <2>5. QED
    BY <1>n, <2>1, <2>2, <2>3, <2>4, AccountedJob
<1>9. ASSUME NEW n \in Nodes, NEW m \in sent, AcceptResponse(n, m) PROVE Accounted'
  <2>1. \A i \in Nodes : \A from \in reported'[i] :
           \E r \in sent : r.kind = "response" /\ r.from = from /\ r.to = i
    BY <1>9 DEF AcceptResponse, Receives, Accounted, WGTypeOK
  <2>2. UNCHANGED <<wgPeers, job, sent, known>>
    BY <1>9 DEF AcceptResponse
  <2>3. QED
    BY <2>1, <2>2 DEF Accounted, Addresses, Answers
<1>10. QED
  BY <1>s, <1>1, <1>2, <1>3, <1>4, <1>5, <1>6, <1>7, <1>8, <1>9
  DEF WGNext, Progress, Run, SocketError, wgVars

-----------------------------------------------------------------------------
(* The theorems.                                                           *)

LEMMA WGInvNext == WGInv /\ [WGNext]_wgVars => WGInv'
<1> SUFFICES ASSUME WGInv, [WGNext]_wgVars PROVE WGInv'
  OBVIOUS
<1>1. WGTypeOK' /\ Roles'
  BY WGTypeNext DEF WGInv
<1>2. RoomLeft'
  BY RoomNext DEF WGInv
<1>3. DrawnOnce'
  BY <1>1, DrawnOnceNext DEF WGInv
<1>4. Accounted'
  BY AccountedNext DEF WGInv
<1>5. QED
  BY <1>1, <1>2, <1>3, <1>4 DEF WGInv

LEMMA WGInvariant == WGSpec => []WGInv
<1>1. QED
  BY WGInvInit, WGInvNext, PTL DEF WGSpec

\* The variables keep their types, and a receive loop (run()) never looks a peer
\* up: it only allocates an index and sends, and only while it runs.
THEOREM WGTypeCorrect == WGSpec => []WGTypeOK
<1>1. WGInv => WGTypeOK
  BY DEF WGInv
<1>2. QED
  BY <1>1, WGInvariant, PTL

\* Until its counter wraps, which the bound excludes, a tunnel never puts an index
\* on two datagrams: allocate_sender_index() reads and moves the counter under one
\* lock, so tasks and the receive loop, which send in an order of their own, never
\* hold the same index.
THEOREM IndexesDiffer == WGSpec => IndexUsedOnce
<1>1. WGInv /\ [WGNext]_wgVars =>
        [\A p \in Procs :
           job[p].at = "transmit" /\ job'[p] = NoJob =>
               \A m \in sent : m.from = At(p) => m.index # job[p].msg.index]_wgVars
  BY DEF WGInv, DrawnOnce
<1>2. QED
  BY <1>1, WGInvariant, PTL DEF WGSpec, IndexUsedOnce

\* Every handshake response that a tunnel sends goes to an address it was given
\* and answers an initiation its addressee sent it, as handle_handshake_initiation()
\* checks the address before it answers.
THEOREM ResponsesAreAnswers == WGSpec => []ResponsesAnswer
<1>1. WGInv => ResponsesAnswer
  BY DEF WGInv, Accounted, Answers, ResponsesAnswer
<1>2. QED
  BY <1>1, WGInvariant, PTL

\* A session is reported only between tunnels that were given each other's
\* address: the response comes from a tunnel that knew the initiator, and answers
\* an initiation to an address the initiator knew.
THEOREM SessionsMutual == WGSpec => []SessionsAreMutual
<1>1. ASSUME WGInv, NEW n \in Nodes, NEW m \in reported[n]
      PROVE  m \in known[n] /\ n \in known[m]
  <2>1. PICK r \in sent : r.kind = "response" /\ r.from = m /\ r.to = n
    BY <1>1 DEF WGInv, Accounted
  <2>2. PICK i \in sent : i.kind = "initiation" /\ i.from = n /\ i.to = m
    BY <1>1, <2>1 DEF WGInv, Accounted, Answers
  <2>3. n \in known[m] /\ m \in known[n]
    BY <1>1, <2>1, <2>2 DEF WGInv, Accounted
  <2>4. QED
    BY <2>3
<1>2. WGInv => SessionsAreMutual
  BY <1>1 DEF SessionsAreMutual
<1>3. QED
  BY <1>2, WGInvariant, PTL
=============================================================================
