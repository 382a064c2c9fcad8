--------------------------- MODULE MeshNodeProofs ---------------------------
(* Proofs about MeshNode for every value of its constants. *)
EXTENDS MeshNode, SequenceTheorems, FiniteSetTheorems, TLAPS

\* A caller that is not idle has one of its two halves to do, on a key.
LEMMA PendingCases ==
    ASSUME NEW p \in Pending
    PROVE  /\ p = Idle <=> p.op = "none"
           /\ p.op \in {"none", "add", "remove"}
           /\ p # Idle => p.key \in Keys
           /\ p.op = "add" => p.endpoint \in Endpoints
BY DEF Pending, Idle

\* The configuration's entries are peers.
LEMMA ConfigEntry ==
    ASSUME NEW i \in 1 .. Len(ConfigPeers)
    PROVE  /\ ConfigPeers[i].key \in Keys
           /\ ConfigPeers[i].endpoint \in Endpoints
<1>1. ConfigPeers[i] \in Peer
  BY ConfigAssumption, ElementOfSeq
<1>2. QED
  BY <1>1 DEF Peer

\* Pushing an entry leaves the other keys alone and makes the entry the last one.
LEMMA PushProperties ==
    ASSUME wgPeers \in [Keys -> Seq(Endpoints)],
           NEW k \in Keys, NEW e \in Endpoints
    PROVE  /\ Push(k, e) \in [Keys -> Seq(Endpoints)]
           /\ Push(k, e)[k] # <<>>
           /\ Push(k, e)[k][Len(Push(k, e)[k])] = e
           /\ \A j \in Keys : j # k => Push(k, e)[j] = wgPeers[j]
<1> DEFINE s == wgPeers[k]
<1>1. s \in Seq(Endpoints)
  OBVIOUS
<1>2. /\ Append(s, e) \in Seq(Endpoints)
      /\ Append(s, e) # <<>>
      /\ Len(Append(s, e)) = Len(s) + 1
      /\ Append(s, e)[Len(s) + 1] = e
  BY <1>1, AppendProperties
<1>3. Push(k, e)[k] = Append(s, e)
  BY DEF Push
<1>4. QED
  BY <1>2, <1>3 DEF Push

-----------------------------------------------------------------------------
(* Types, the exclusion of start() and stop(), and the resources a state   *)
(* stands for.                                                             *)

LEMMA NodeInvInit == Init => NodeInv
<1> SUFFICES ASSUME Init PROVE NodeInv
  OBVIOUS
<1>1. <<>> \in Seq(Endpoints)
  BY EmptySeq
<1>2. Idle \in Pending
  BY DEF Pending
<1>3. Len(ConfigPeers) \in Nat
  BY ConfigAssumption, LenProperties
<1>4. TypeOK
  <2>1. wgPeers \in [Keys -> Seq(Endpoints)]
    BY <1>1 DEF Init, NoWgPeers
  <2>2. /\ pending \in [Callers -> Pending]
        /\ \A c \in Callers : pending[c] # Idle => pending[c].key \in KeysOf[c]
    BY <1>2 DEF Init
  <2>3. cursor \in 1 .. Len(ConfigPeers) + 1
    BY <1>3 DEF Init
  <2>4. QED
    BY <2>1, <2>2, <2>3 DEF Init, TypeOK, NodeState, Lifecycle
<1>5. Exclusive /\ StageDone /\ StateTellsResources
  BY DEF Init, Exclusive, StageDone, StateTellsResources, NoWgPeers
<1>6. QED
  BY <1>4, <1>5 DEF NodeInv

LEMMA NodeInvNext == NodeInv /\ [Next]_vars => NodeInv'
<1> SUFFICES ASSUME NodeInv, [Next]_vars PROVE NodeInv'
  OBVIOUS
<1>t. TypeOK /\ Exclusive /\ StageDone /\ StateTellsResources
  BY DEF NodeInv
<1>n. Len(ConfigPeers) \in Nat
  BY ConfigAssumption, LenProperties
<1>e. <<>> \in Seq(Endpoints)
  BY EmptySeq
<1>p. Idle \in Pending
  BY DEF Pending
<1> USE DEF Lifecycle, NodeState
<1>1. CASE Start
  BY <1>1, <1>t DEF Start, NodeInv, TypeOK, Exclusive, StageDone, StateTellsResources, AllIdle
<1>2. CASE Stop
  BY <1>2, <1>t DEF Stop, NodeInv, TypeOK, Exclusive, StageDone, StateTellsResources, AllIdle
<1>3. CASE BindTunnel
  BY <1>3, <1>t, <1>n, <1>e
     DEF BindTunnel, NoWgPeers, NodeInv, TypeOK, Exclusive, StageDone, StateTellsResources, AllIdle
<1>4. CASE BindFails
  BY <1>4, <1>t DEF BindFails, NodeInv, TypeOK, Exclusive, StageDone, StateTellsResources, AllIdle
<1>5. CASE CreateTunDevice
  BY <1>5, <1>t DEF CreateTunDevice, NodeInv, TypeOK, Exclusive, StageDone, StateTellsResources, AllIdle
<1>6. CASE AddConfigPeer
  <2>1. cursor \in 1 .. Len(ConfigPeers)
    BY <1>6, <1>t, <1>n DEF AddConfigPeer, TypeOK
  <2>2. wgPeers' \in [Keys -> Seq(Endpoints)]
    BY <1>6, <1>t, <2>1, ConfigEntry, PushProperties DEF AddConfigPeer, TypeOK
  <2>3. QED
    BY <1>6, <1>t, <1>n, <2>1, <2>2
       DEF AddConfigPeer, NodeInv, TypeOK, Exclusive, StageDone, StateTellsResources, AllIdle
<1>7. CASE StoreConfigPeer
  <2>1. cursor \in 1 .. Len(ConfigPeers)
    BY <1>7, <1>t, <1>n DEF StoreConfigPeer, StageDone, TypeOK
  <2>2. peers' \in [Keys -> Endpoints \cup {Absent}]
    BY <1>7, <1>t, <2>1, ConfigEntry DEF StoreConfigPeer, TypeOK
  <2>3. cursor' \in 1 .. Len(ConfigPeers) + 1
    BY <1>7, <1>n, <2>1 DEF StoreConfigPeer
  <2>4. QED
    BY <1>7, <1>t, <2>2, <2>3
       DEF StoreConfigPeer, NodeInv, TypeOK, Exclusive, StageDone, StateTellsResources, AllIdle
<1>8. CASE Started
  BY <1>8, <1>t DEF Started, NodeInv, TypeOK, Exclusive, StageDone, StateTellsResources, AllIdle
<1>9. CASE DropTunnel
  BY <1>9, <1>t, <1>e
     DEF DropTunnel, NoWgPeers, NodeInv, TypeOK, Exclusive, StageDone, StateTellsResources, AllIdle
<1>10. CASE DropTunDevice
  BY <1>10, <1>t DEF DropTunDevice, NodeInv, TypeOK, Exclusive, StageDone, StateTellsResources, AllIdle
<1>11. CASE Stopped
  BY <1>11, <1>t DEF Stopped, NodeInv, TypeOK, Exclusive, StageDone, StateTellsResources, AllIdle
<1>12. ASSUME NEW c \in Callers, NEW k \in KeysOf[c], NEW e \in Endpoints, AddToTunnel(c, k, e)
       PROVE  NodeInv'
  <2>1. k \in Keys
    BY KeysOfAssumption
  <2>2. wgPeers' \in [Keys -> Seq(Endpoints)]
    BY <1>12, <1>t, <2>1, PushProperties DEF AddToTunnel, TypeOK
  <2>3. ~tunnel => wgPeers' = wgPeers
    BY <1>12 DEF AddToTunnel
  <2>4. [op |-> "add", key |-> k, endpoint |-> e] \in Pending
    BY <2>1 DEF Pending
  <2>5. /\ pending' \in [Callers -> Pending]
        /\ \A d \in Callers : pending'[d] # Idle => pending'[d].key \in KeysOf[d]
    BY <1>12, <1>t, <2>4 DEF AddToTunnel, TypeOK
  <2>6. TypeOK'
    BY <1>12, <1>t, <2>2, <2>5 DEF AddToTunnel, TypeOK
  <2>7. StageDone' /\ Exclusive'
    BY <1>12, <1>t, <2>3 DEF AddToTunnel, StageDone, Exclusive
  <2>8. StateTellsResources'
    BY <1>12, <1>t, <2>3 DEF AddToTunnel, StateTellsResources, StageDone
  <2>9. QED
    BY <2>6, <2>7, <2>8 DEF NodeInv
<1>13. ASSUME NEW c \in Callers, NEW k \in KeysOf[c], RemoveFromTunnel(c, k)
       PROVE  NodeInv'
  <2>1. k \in Keys
    BY KeysOfAssumption
  <2>2. wgPeers' \in [Keys -> Seq(Endpoints)]
    BY <1>13, <1>t, <1>e DEF RemoveFromTunnel, TypeOK
  <2>3. [op |-> "remove", key |-> k] \in Pending
    BY <2>1 DEF Pending
  <2>4. /\ pending' \in [Callers -> Pending]
        /\ \A d \in Callers : pending'[d] # Idle => pending'[d].key \in KeysOf[d]
    BY <1>13, <1>t, <2>3 DEF RemoveFromTunnel, TypeOK
  <2>5. TypeOK'
    BY <1>13, <1>t, <2>2, <2>4 DEF RemoveFromTunnel, TypeOK
  <2>6. \A j \in Keys : wgPeers[j] = <<>> => wgPeers'[j] = <<>>
    BY <1>13, <1>t DEF RemoveFromTunnel, TypeOK
  <2>7. StageDone' /\ Exclusive' /\ StateTellsResources'
    BY <1>13, <1>t, <2>6 DEF RemoveFromTunnel, StageDone, Exclusive, StateTellsResources
  <2>8. QED
    BY <2>5, <2>7 DEF NodeInv
<1>14. ASSUME NEW c \in Callers, CallerStep(c)
       PROVE  NodeInv'
  <2>1. pending[c] \in Pending /\ pending[c].op # "none"
    BY <1>14, <1>t DEF CallerStep, StorePeer, ForgetPeer, TypeOK
  <2>2. pending[c] # Idle /\ pending[c].key \in Keys
    BY <2>1, PendingCases
  <2>3. peers' \in [Keys -> Endpoints \cup {Absent}]
    BY <1>14, <1>t, <2>1, <2>2, PendingCases
       DEF CallerStep, StorePeer, ForgetPeer, TypeOK
  <2>4. /\ pending' \in [Callers -> Pending]
        /\ \A d \in Callers : pending'[d] # Idle => pending'[d].key \in KeysOf[d]
    BY <1>14, <1>t, <1>p DEF CallerStep, StorePeer, ForgetPeer, TypeOK
  <2>5. lifecycle = "idle"
    BY <1>t, <2>2 DEF Exclusive, AllIdle
  <2>6. TypeOK'
    BY <1>14, <1>t, <2>3, <2>4 DEF CallerStep, StorePeer, ForgetPeer, TypeOK
  <2>7. StageDone' /\ Exclusive' /\ StateTellsResources'
    BY <1>14, <1>t, <2>5
       DEF CallerStep, StorePeer, ForgetPeer, StageDone, Exclusive, StateTellsResources
  <2>8. QED
    BY <2>6, <2>7 DEF NodeInv
<1>15. CASE UNCHANGED vars
  BY <1>15, <1>t DEF vars, NodeInv, TypeOK, Exclusive, StageDone, StateTellsResources, AllIdle
<1>16. QED
  BY <1>1, <1>2, <1>3, <1>4, <1>5, <1>6, <1>7, <1>8, <1>9, <1>10, <1>11, <1>12,
     <1>13, <1>14, <1>15 DEF Next, LifecycleStep, Call

-----------------------------------------------------------------------------
(* The tunnel's list and the node's map.                                   *)

\* While start() or stop() runs no call is half done, so only the entry
\* start() is storing is in flight.
LEMMA NobodyInFlight ==
    ASSUME NodeInv, lifecycle # "idle"
    PROVE  /\ \A c \in Callers : pending[c] = Idle
           /\ \A k \in Keys : InFlight(k) =>
                 lifecycle = "store" /\ ConfigPeers[cursor].key = k
BY DEF NodeInv, Exclusive, AllIdle, InFlight

\* Another caller's half-done call is on another key.
LEMMA OthersKeys ==
    ASSUME KeysDisjoint, TypeOK,
           NEW c \in Callers, NEW d \in Callers, c # d, pending[d] # Idle,
           NEW k \in KeysOf[c]
    PROVE  pending[d].key # k
BY DEF KeysDisjoint, TypeOK

\* A step that empties the tunnel's list while start() or stop() runs.
LEMMA DriftInvEmptied ==
    ASSUME NodeInv, lifecycle # "idle",
           wgPeers' = NoWgPeers, lifecycle' # "store", UNCHANGED pending
    PROVE  DriftInv'
<1>1. \A c \in Callers : pending'[c] = Idle
  BY NobodyInFlight
<1>2. \A k \in Keys : wgPeers'[k] = <<>>
  BY DEF NoWgPeers
<1>3. HalfDone'
  BY <1>1 DEF HalfDone, Idle
<1>4. MapHoldsLatestPush'
  BY <1>2 DEF MapHoldsLatestPush
<1>5. QED
  BY <1>3, <1>4 DEF DriftInv

\* A step that touches neither store, and neither enters nor leaves the middle
\* of an addition.
LEMMA DriftInvKept ==
    ASSUME NodeInv, DriftInv, UNCHANGED <<wgPeers, peers, pending, cursor>>,
           lifecycle' = "store" <=> lifecycle = "store"
    PROVE  DriftInv'
<1>1. HalfDone'
  BY DEF DriftInv, HalfDone, LastIs
<1>2. \A k \in Keys : InFlight(k)' <=> InFlight(k)
  BY DEF InFlight
<1>3. MapHoldsLatestPush'
  BY <1>2 DEF DriftInv, MapHoldsLatestPush
<1>4. QED
  BY <1>1, <1>3 DEF DriftInv

LEMMA DriftInvConfig ==
    ASSUME NodeInv, DriftInv, AddConfigPeer \/ StoreConfigPeer
    PROVE  DriftInv'
<1> DEFINE p == ConfigPeers[cursor]
<1>t. TypeOK /\ StageDone /\ HalfDone /\ MapHoldsLatestPush
  BY DEF NodeInv, DriftInv
<1>1. cursor \in 1 .. Len(ConfigPeers)
  <2>1. Len(ConfigPeers) \in Nat
    BY ConfigAssumption, LenProperties
  <2>2. QED
    BY <2>1, <1>t DEF AddConfigPeer, StoreConfigPeer, StageDone, TypeOK
<1>2. p.key \in Keys /\ p.endpoint \in Endpoints
  BY <1>1, ConfigEntry
<1>3. /\ \A c \in Callers : pending'[c] = Idle
      /\ \A k \in Keys : InFlight(k) => lifecycle = "store" /\ p.key = k
  BY NobodyInFlight DEF AddConfigPeer, StoreConfigPeer
<1>4. CASE AddConfigPeer
  <2>1. /\ wgPeers'[p.key] # <<>>
        /\ wgPeers'[p.key][Len(wgPeers'[p.key])] = p.endpoint
        /\ \A j \in Keys : j # p.key => wgPeers'[j] = wgPeers[j]
    BY <1>4, <1>t, <1>2, PushProperties DEF AddConfigPeer, TypeOK
  <2>2. cursor' = cursor /\ peers' = peers /\ lifecycle' = "store" /\ lifecycle = "peers"
    BY <1>4 DEF AddConfigPeer
  <2>3. HalfDone'
    BY <1>3, <2>1, <2>2 DEF HalfDone, LastIs, Idle
  <2>4. InFlight(p.key)'
    BY <2>2 DEF InFlight
  <2>5. MapHoldsLatestPush'
    BY <1>t, <1>3, <2>1, <2>2, <2>4 DEF MapHoldsLatestPush
  <2>6. QED
    BY <2>3, <2>5 DEF DriftInv
<1>5. CASE StoreConfigPeer
  <2>1. /\ wgPeers' = wgPeers /\ lifecycle' = "peers" /\ lifecycle = "store"
        /\ peers' = [peers EXCEPT ![p.key] = p.endpoint]
    BY <1>5 DEF StoreConfigPeer
  <2>2. HalfDone'
    BY <1>3, <2>1 DEF HalfDone, Idle
  <2>3. LastIs(p.key, p.endpoint)
    BY <1>t, <2>1 DEF HalfDone
  <2>4. /\ peers'[p.key] = p.endpoint
        /\ \A j \in Keys : j # p.key => peers'[j] = peers[j]
    BY <1>t, <1>2, <2>1 DEF TypeOK
  <2>5. ASSUME NEW j \in Keys, wgPeers'[j] # <<>>
        PROVE  peers'[j] = wgPeers'[j][Len(wgPeers'[j])]
    <3>1. CASE j = p.key
      BY <3>1, <2>1, <2>3, <2>4, <2>5 DEF LastIs
    <3>2. CASE j # p.key
      BY <3>2, <1>t, <1>3, <2>1, <2>4, <2>5 DEF MapHoldsLatestPush
    <3>3. QED
      BY <3>1, <3>2
  <2>6. QED
    BY <2>2, <2>5 DEF DriftInv, MapHoldsLatestPush
<1>6. QED
  BY <1>4, <1>5

LEMMA DriftInvFirstHalf ==
    ASSUME KeysDisjoint, NodeInv, DriftInv,
           NEW c \in Callers, NEW k \in KeysOf[c],
           \/ \E e \in Endpoints : AddToTunnel(c, k, e)
           \/ RemoveFromTunnel(c, k)
    PROVE  DriftInv'
<1>t. TypeOK /\ StageDone /\ HalfDone /\ MapHoldsLatestPush
  BY DEF NodeInv, DriftInv
<1>k. k \in Keys
  BY KeysOfAssumption
<1>1. /\ lifecycle = "idle" /\ lifecycle' = "idle" /\ peers' = peers
      /\ pending[c] = Idle
      /\ \A d \in Callers : d # c => pending'[d] = pending[d]
  BY <1>t DEF AddToTunnel, RemoveFromTunnel, TypeOK
<1>2. \A j \in Keys : j # k => wgPeers'[j] = wgPeers[j]
  <2>1. CASE RemoveFromTunnel(c, k)
    BY <2>1, <1>t DEF RemoveFromTunnel, TypeOK
  <2>2. ASSUME NEW e \in Endpoints, AddToTunnel(c, k, e)
        PROVE  \A j \in Keys : j # k => wgPeers'[j] = wgPeers[j]
    BY <2>2, <1>t, <1>k, PushProperties DEF AddToTunnel, TypeOK
  <2>3. QED
    BY <2>1, <2>2
<1>3. /\ pending'[c] # Idle /\ pending'[c].key = k
      /\ pending'[c].op = "add" => LastIs(k, pending[c].endpoint)'
      /\ pending'[c].op = "remove" => wgPeers'[k] = <<>>
  <2>1. CASE RemoveFromTunnel(c, k)
    <3>1. pending'[c] = [op |-> "remove", key |-> k] /\ wgPeers'[k] = <<>>
      BY <2>1, <1>t, <1>k DEF RemoveFromTunnel, TypeOK
    <3>2. QED
      BY <3>1 DEF Idle
  <2>2. CASE \E e \in Endpoints : AddToTunnel(c, k, e)
    <3> PICK e \in Endpoints : AddToTunnel(c, k, e)
      BY <2>2
    <3>1. pending'[c] = [op |-> "add", key |-> k, endpoint |-> e]
      BY <1>t DEF AddToTunnel, TypeOK
    <3>2. wgPeers'[k] # <<>> => wgPeers'[k][Len(wgPeers'[k])] = e
      <4>1. CASE tunnel
        BY <4>1, <1>t, <1>k, PushProperties DEF AddToTunnel, TypeOK
      <4>2. CASE ~tunnel
        BY <4>2, <1>t, <1>k DEF AddToTunnel, StageDone
      <4>3. QED
        BY <4>1, <4>2
    <3>3. QED
      BY <3>1, <3>2 DEF Idle, LastIs
  <2>3. QED
    BY <2>1, <2>2
<1>4. ASSUME NEW d \in Callers, d # c, pending[d] # Idle
      PROVE  pending[d].key \in Keys /\ pending[d].key # k
  BY <1>4, <1>t, OthersKeys, KeysOfAssumption DEF TypeOK
<1>5. HalfDone'
  <2>1. ASSUME NEW d \in Callers
        PROVE  /\ pending'[d].op = "add" =>
                     LastIs(pending[d].key, pending[d].endpoint)'
               /\ pending'[d].op = "remove" => wgPeers'[pending'[d].key] = <<>>
    <3>1. CASE d = c
      BY <3>1, <1>3 DEF LastIs
    <3>2. CASE d # c
      <4>1. CASE pending[d] = Idle
        BY <4>1, <3>2, <1>1 DEF Idle
      <4>2. CASE pending[d] # Idle
        BY <4>2, <3>2, <1>t, <1>1, <1>2, <1>4 DEF HalfDone, LastIs
      <4>3. QED
        BY <4>1, <4>2
    <3>3. QED
      BY <3>1, <3>2
  <2>2. QED
    BY <2>1, <1>1 DEF HalfDone
<1>6. MapHoldsLatestPush'
  <2>1. InFlight(k)'
    BY <1>3 DEF InFlight
  <2>2. ASSUME NEW j \in Keys, j # k, InFlight(j)
        PROVE  InFlight(j)'
    BY <2>2, <1>1 DEF InFlight
  <2>3. QED
    BY <2>1, <2>2, <1>t, <1>1, <1>2 DEF MapHoldsLatestPush
<1>7. QED
  BY <1>5, <1>6 DEF DriftInv

LEMMA DriftInvSecondHalf ==
    ASSUME NodeInv, DriftInv, NEW c \in Callers, CallerStep(c)
    PROVE  DriftInv'
<1> DEFINE k == pending[c].key
<1>t. TypeOK /\ HalfDone /\ MapHoldsLatestPush
  BY DEF NodeInv, DriftInv
<1>1. /\ wgPeers' = wgPeers /\ lifecycle' = lifecycle /\ cursor' = cursor
      /\ pending' = [pending EXCEPT ![c] = Idle]
      /\ pending[c].op \in {"add", "remove"}
  BY DEF CallerStep, StorePeer, ForgetPeer
<1>2. pending[c] # Idle /\ k \in Keys
  BY <1>1, <1>t, PendingCases DEF TypeOK
<1>3. /\ pending'[c] = Idle
      /\ \A d \in Callers : d # c => pending'[d] = pending[d]
  BY <1>1, <1>t DEF TypeOK
<1>4. HalfDone'
  BY <1>1, <1>3, <1>t DEF HalfDone, LastIs, Idle
<1>5. \A j \in Keys : j # k => peers'[j] = peers[j]
  BY <1>t DEF CallerStep, StorePeer, ForgetPeer, TypeOK
<1>6. wgPeers[k] # <<>> => peers'[k] = wgPeers[k][Len(wgPeers[k])]
  <2>1. CASE StorePeer(c)
    BY <2>1, <1>t, <1>2 DEF StorePeer, HalfDone, LastIs, TypeOK
  <2>2. CASE ForgetPeer(c)
    BY <2>2, <1>t DEF ForgetPeer, HalfDone
  <2>3. QED
    BY <2>1, <2>2 DEF CallerStep
<1>7. ASSUME NEW j \in Keys, j # k, InFlight(j)
      PROVE  InFlight(j)'
  BY <1>7, <1>1, <1>3 DEF InFlight
<1>8. MapHoldsLatestPush'
  BY <1>1, <1>5, <1>6, <1>7, <1>t DEF MapHoldsLatestPush
<1>9. QED
  BY <1>4, <1>8 DEF DriftInv

LEMMA DriftInvInit == Init => DriftInv
BY DEF Init, DriftInv, HalfDone, MapHoldsLatestPush, NoWgPeers, Idle

LEMMA DriftInvNext ==
    ASSUME KeysDisjoint, NodeInv, DriftInv, [Next]_vars
    PROVE  DriftInv'
<1>1. CASE BindTunnel \/ DropTunnel
  BY <1>1, DriftInvEmptied DEF BindTunnel, DropTunnel
<1>2. CASE Start \/ Stop \/ BindFails \/ CreateTunDevice \/ Started
           \/ DropTunDevice \/ Stopped \/ UNCHANGED vars
  BY <1>2, DriftInvKept
     DEF Start, Stop, BindFails, CreateTunDevice, Started, DropTunDevice, Stopped, vars
<1>3. CASE AddConfigPeer \/ StoreConfigPeer
  BY <1>3, DriftInvConfig
<1>4. ASSUME NEW c \in Callers, Call(c)
      PROVE  DriftInv'
  BY <1>4, DriftInvFirstHalf DEF Call
<1>5. ASSUME NEW c \in Callers, CallerStep(c)
      PROVE  DriftInv'
  BY <1>5, DriftInvSecondHalf
<1>6. QED
  BY <1>1, <1>2, <1>3, <1>4, <1>5 DEF Next, LifecycleStep

-----------------------------------------------------------------------------
(* What start() installs.                                                  *)

\* Counting one entry more.
LEMMA FirstEntriesStep ==
    ASSUME NEW k, NEW n \in Nat
    PROVE  /\ Cardinality(FirstEntries(k, 0)) = 0
           /\ Cardinality(FirstEntries(k, n)) \in Nat
           /\ Cardinality(FirstEntries(k, n + 1)) =
                 Cardinality(FirstEntries(k, n))
                    + (IF ConfigPeers[n + 1].key = k THEN 1 ELSE 0)
<1>1. FirstEntries(k, 0) = {}
  BY DEF FirstEntries
<1>2. IsFiniteSet(FirstEntries(k, n))
  <2>1. IsFiniteSet(1 .. n)
    BY FS_Interval
  <2>2. FirstEntries(k, n) \subseteq 1 .. n
    BY DEF FirstEntries
  <2>3. QED
    BY <2>1, <2>2, FS_Subset
<1>z. Cardinality(FirstEntries(k, 0)) = 0
  BY <1>1, FS_EmptySet, Zenon
<1>c. Cardinality(FirstEntries(k, n)) \in Nat
  BY <1>2, FS_CardinalityType
<1>3. CASE ConfigPeers[n + 1].key = k
  <2>1. FirstEntries(k, n + 1) = FirstEntries(k, n) \cup {n + 1}
    BY <1>3 DEF FirstEntries
  <2>2. n + 1 \notin FirstEntries(k, n)
    BY DEF FirstEntries
  <2>3. Cardinality(FirstEntries(k, n) \cup {n + 1}) = Cardinality(FirstEntries(k, n)) + 1
    BY <1>2, <2>2, FS_AddElement, Zenon
  <2>4. QED
    BY <1>z, <1>c, <1>3, <2>1, <2>3
<1>4. CASE ConfigPeers[n + 1].key # k
  <2>1. FirstEntries(k, n + 1) = FirstEntries(k, n)
    BY <1>4 DEF FirstEntries
  <2>2. QED
    BY <1>z, <1>c, <1>4, <2>1
<1>5. QED
  BY <1>3, <1>4

LEMMA LoadedInit == Init => Loaded
BY DEF Init, Loaded

LEMMA LoadedNext ==
    ASSUME NodeInv, Loaded, [Next]_vars
    PROVE  Loaded'
<1>t. TypeOK /\ Exclusive /\ StageDone
  BY DEF NodeInv
<1>n. Len(ConfigPeers) \in Nat
  BY ConfigAssumption, LenProperties
<1>0. \A k \in Keys : Cardinality(FirstEntries(k, 0)) = 0
  BY FirstEntriesStep
<1>1. CASE BindTunnel
  <2>1. /\ lifecycle' \in {"tun", "peers"} /\ cursor' = 1
        /\ \A k \in Keys : wgPeers'[k] = <<>> /\ Len(wgPeers'[k]) = 0
    BY <1>1 DEF BindTunnel, NoWgPeers
  <2>2. QED
    BY <2>1, <1>0 DEF Loaded, FirstEntries
<1>2. CASE CreateTunDevice
  <2>1. /\ lifecycle' = "peers" /\ cursor' = 1
        /\ \A k \in Keys : wgPeers'[k] = <<>> /\ Len(wgPeers'[k]) = 0
    BY <1>2 DEF CreateTunDevice, Loaded
  <2>2. QED
    BY <2>1, <1>0 DEF Loaded, FirstEntries
<1>3. CASE AddConfigPeer
  <2> DEFINE p == ConfigPeers[cursor]
  <2>1. cursor \in 1 .. Len(ConfigPeers) /\ cursor - 1 \in Nat /\ (cursor - 1) + 1 = cursor
    BY <1>3, <1>t, <1>n DEF AddConfigPeer, TypeOK
  <2>2. /\ p.key \in Keys /\ p.endpoint \in Endpoints
        /\ lifecycle' = "store" /\ cursor' = cursor /\ lifecycle = "peers"
        /\ wgPeers' = [wgPeers EXCEPT ![p.key] = Append(@, p.endpoint)]
    BY <1>3, <2>1, ConfigEntry DEF AddConfigPeer, Push
  <2>3. ASSUME NEW k \in Keys
        PROVE  Len(wgPeers'[k]) = Cardinality(FirstEntries(k, cursor))
    <3>1. Len(wgPeers[k]) = Cardinality(FirstEntries(k, cursor - 1))
      BY <2>2 DEF Loaded
    <3>2. Cardinality(FirstEntries(k, cursor)) =
             Cardinality(FirstEntries(k, cursor - 1)) + (IF p.key = k THEN 1 ELSE 0)
      <4> DEFINE n == cursor - 1
      <4>1. n \in Nat /\ n + 1 = cursor
        BY <2>1
      <4>2. Cardinality(FirstEntries(k, n + 1)) =
               Cardinality(FirstEntries(k, n))
                  + (IF ConfigPeers[n + 1].key = k THEN 1 ELSE 0)
        BY <4>1, FirstEntriesStep, Zenon
      <4>3. QED
        BY <4>1, <4>2
    <3>3. Cardinality(FirstEntries(k, cursor - 1)) \in Nat
      BY <2>1, FirstEntriesStep
    <3>4. Len(wgPeers'[k]) = Len(wgPeers[k]) + (IF p.key = k THEN 1 ELSE 0)
      <4>1. wgPeers[k] \in Seq(Endpoints) /\ Len(wgPeers[k]) \in Nat
        BY <1>t DEF TypeOK
      <4>2. CASE p.key = k
        BY <2>2, <4>1, <4>2, <1>t, AppendProperties DEF TypeOK
      <4>3. CASE p.key # k
        BY <2>2, <4>1, <4>3, <1>t DEF TypeOK
      <4>4. QED
        BY <4>2, <4>3
    <3>5. QED
      BY <3>1, <3>2, <3>3, <3>4
  <2>4. QED
    BY <2>2, <2>3 DEF Loaded, FirstEntries
<1>4. CASE StoreConfigPeer
  <2>1. cursor \in Nat /\ (cursor + 1) - 1 = cursor
    BY <1>t, <1>n DEF TypeOK
  <2>2. /\ lifecycle' = "peers" /\ cursor' = cursor + 1
        /\ lifecycle = "store" /\ wgPeers' = wgPeers
    BY <1>4 DEF StoreConfigPeer
  <2>3. cursor' - 1 = cursor
    BY <2>1, <2>2
  <2>4. QED
    BY <2>2, <2>3 DEF Loaded, FirstEntries
<1>5. CASE Start \/ Stop \/ BindFails \/ Started \/ DropTunnel \/ DropTunDevice \/ Stopped
  BY <1>5 DEF Start, Stop, BindFails, Started, DropTunnel, DropTunDevice, Stopped, Loaded
<1>6. ASSUME NEW c \in Callers, Call(c)
      PROVE  Loaded'
  BY <1>6 DEF Call, AddToTunnel, RemoveFromTunnel, Loaded
<1>7. ASSUME NEW c \in Callers, CallerStep(c)
      PROVE  Loaded'
  BY <1>7 DEF CallerStep, StorePeer, ForgetPeer, Loaded, FirstEntries
<1>8. CASE UNCHANGED vars
  BY <1>8 DEF vars, Loaded, FirstEntries
<1>9. QED
  BY <1>1, <1>2, <1>3, <1>4, <1>5, <1>6, <1>7, <1>8 DEF Next, LifecycleStep

\* Only Started makes a node running, and it finds the configuration loaded.
LEMMA StartInstallsConfigStep ==
    ASSUME NodeInv, Loaded, [Next]_vars, state # "Running", state' = "Running"
    PROVE  \A k \in Keys : Len(wgPeers'[k]) = Cardinality(ConfigEntries(k))
<1>t. TypeOK
  BY DEF NodeInv
<1>1. Started
  BY DEF Next, LifecycleStep, Call, CallerStep, vars, Start, Stop, BindTunnel, BindFails,
         CreateTunDevice, AddConfigPeer, StoreConfigPeer, DropTunnel, DropTunDevice,
         Stopped, AddToTunnel, RemoveFromTunnel, StorePeer, ForgetPeer
<1>2. Len(ConfigPeers) \in Nat /\ DOMAIN ConfigPeers = 1 .. Len(ConfigPeers)
  BY ConfigAssumption, LenProperties
<1>3. cursor - 1 = Len(ConfigPeers)
  BY <1>1, <1>2, <1>t DEF Started, TypeOK
<1>4. \A k : ConfigEntries(k) = FirstEntries(k, cursor - 1)
  BY <1>2, <1>3 DEF ConfigEntries, FirstEntries
<1>5. QED
  BY <1>1, <1>4 DEF Started, Loaded

-----------------------------------------------------------------------------
(* The two stores as one table.                                            *)

\* One call at most is under way on a key; its half is what settles the entry.
LEMMA Settling ==
    ASSUME NEW entry, NEW half
    PROVE  /\ Settled({}, entry) = entry
           /\ Settled({half}, entry) = IF half.op = "add" THEN half.endpoint ELSE Absent
BY DEF Settled

\* While a start or a stop runs, only the entry it is storing is owed to the map.
PromisedAlone ==
    (\A c \in Callers : pending[c] = Idle) =>
        \A k \in Keys : Promised[k] =
            IF lifecycle = "store" /\ ConfigPeers[cursor].key = k
            THEN ConfigPeers[cursor].endpoint ELSE peers[k]

LEMMA WhileAlone == PromisedAlone
<1> DEFINE storing == [op |-> "add", key |-> ConfigPeers[cursor].key,
                       endpoint |-> ConfigPeers[cursor].endpoint]
<1>1. ASSUME \A c \in Callers : pending[c] = Idle, NEW k \in Keys
      PROVE  Promised[k] = IF lifecycle = "store" /\ ConfigPeers[cursor].key = k
                           THEN ConfigPeers[cursor].endpoint ELSE peers[k]
  <2>1. Promised[k] = Settled(Owed(k), peers[k])
    BY DEF Promised
  <2>2. Owed(k) = IF lifecycle = "store" /\ ConfigPeers[cursor].key = k THEN {storing} ELSE {}
    BY <1>1 DEF Owed
  <2>3. storing.op = "add" /\ storing.endpoint = ConfigPeers[cursor].endpoint
    OBVIOUS
  <2> HIDE DEF storing
  <2>4. QED
    BY <2>1, <2>2, <2>3, Settling
<1>2. QED
  BY <1>1 DEF PromisedAlone

\* Otherwise, of a key that only c is half done with, c's half is all that is owed.
PromisedToOne ==
    lifecycle = "idle" =>
        \A c \in Callers, k \in Keys :
            (\A d \in Callers : d # c /\ pending[d] # Idle => pending[d].key # k) =>
                Promised[k] =
                    IF pending[c] # Idle /\ pending[c].key = k
                    THEN IF pending[c].op = "add" THEN pending[c].endpoint ELSE Absent
                    ELSE peers[k]

LEMMA ToOne == PromisedToOne
<1>1. ASSUME lifecycle = "idle", NEW c \in Callers, NEW k \in Keys,
             \A d \in Callers : d # c /\ pending[d] # Idle => pending[d].key # k
      PROVE  Promised[k] = IF pending[c] # Idle /\ pending[c].key = k
                           THEN IF pending[c].op = "add" THEN pending[c].endpoint ELSE Absent
                           ELSE peers[k]
  <2>1. Promised[k] = Settled(Owed(k), peers[k])
    BY DEF Promised
  <2>2. Owed(k) = IF pending[c] # Idle /\ pending[c].key = k THEN {pending[c]} ELSE {}
    BY <1>1 DEF Owed
  <2>3. QED
    BY <2>1, <2>2, Settling
<1>2. QED
  BY <1>1 DEF PromisedToOne

\* Keys nobody touches keep what they are promised.
LEMMA PromisedKept ==
    ASSUME UNCHANGED lifecycle, lifecycle = "idle",
           NEW c \in Callers, NEW j \in Keys, peers'[j] = peers[j],
           pending[c] # Idle => pending[c].key # j,
           pending'[c] # Idle => pending'[c].key # j,
           \A d \in Callers : d # c => pending'[d] = pending[d]
    PROVE  Promised'[j] = Promised[j]
<1>1. Promised[j] = Settled(Owed(j), peers[j]) /\ Promised'[j] = Settled(Owed(j)', peers'[j])
  BY DEF Promised
<1>2. Owed(j)' = Owed(j)
  <2> DEFINE S == {d \in Callers : pending[d] # Idle /\ pending[d].key = j}
  <2>1. S' = S
    OBVIOUS
  <2>2. \A d \in S : pending'[d] = pending[d]
    OBVIOUS
  <2>3. Owed(j) = {pending[d] : d \in S} /\ Owed(j)' = {pending'[d] : d \in S'}
    BY DEF Owed
  <2> HIDE DEF S
  <2>4. QED
    BY <2>1, <2>2, <2>3
<1>3. QED
  BY <1>1, <1>2

Unmoved == UNCHANGED <<tunnel, wgPeers, Promised, pending, lifecycle # "idle">>

LEMMA TableKept ==
    Unmoved => UNCHANGED Table!ptVars
BY DEF Unmoved, Table!ptVars

\* A start or a stop has the table to itself.
LEMMA TableAlone ==
    ASSUME NodeInv, Start \/ Stop \/ LifecycleStep
    PROVE  Table!PTNext \/ Unmoved
<1>t. TypeOK /\ Exclusive /\ StageDone
  BY DEF NodeInv
<1>1. /\ \A c \in Callers : pending[c] = Idle
      /\ pending' = pending
  BY <1>t, NobodyInFlight
     DEF LifecycleStep, Start, Stop, BindTunnel, BindFails, CreateTunDevice, AddConfigPeer,
         StoreConfigPeer, Started, DropTunnel, DropTunDevice, Stopped, AllIdle
<1>2. \A k \in Keys :
         /\ Promised[k] = IF lifecycle = "store" /\ ConfigPeers[cursor].key = k
                          THEN ConfigPeers[cursor].endpoint ELSE peers[k]
         /\ Promised'[k] = IF lifecycle' = "store" /\ ConfigPeers[cursor'].key = k
                           THEN ConfigPeers[cursor'].endpoint ELSE peers'[k]
  <2>1. PromisedAlone /\ PromisedAlone'
    BY WhileAlone, PTL
  <2>2. QED
    BY <1>1, <2>1 DEF PromisedAlone
<1>3. Promised = [k \in Keys |-> Promised[k]] /\ Promised' = [k \in Keys |-> Promised'[k]]
  BY DEF Promised
<1>4. CASE /\ lifecycle # "store" /\ lifecycle' # "store" /\ peers' = peers
  <2>1. Promised' = Promised
    <3>1. \A k \in Keys : Promised'[k] = Promised[k]
      BY <1>2, <1>4
    <3>2. QED
      BY <1>3, <3>1
  <2>2. CASE Start \/ Stop
    BY <1>1, <2>1, <2>2 DEF Start, Stop, Table!Begin, Table!PTNext
  <2>3. CASE BindTunnel \/ DropTunnel
    <3>1. wgPeers' = Table!Emptied /\ tunnel' \in BOOLEAN
      BY <2>3 DEF BindTunnel, DropTunnel, NoWgPeers, Table!Emptied
    <3>2. Table!Replace(tunnel')
      BY <1>1, <2>1, <2>3, <3>1 DEF BindTunnel, DropTunnel, Table!Replace
    <3>3. QED
      BY <3>1, <3>2 DEF Table!PTNext
  <2>4. CASE BindFails \/ Started \/ Stopped
    BY <1>1, <2>1, <2>4 DEF BindFails, Started, Stopped, Table!End, Table!PTNext
  <2>5. CASE CreateTunDevice \/ DropTunDevice
    BY <1>1, <2>1, <2>5 DEF CreateTunDevice, DropTunDevice, Unmoved
  <2>6. QED
    BY <1>4, <2>2, <2>3, <2>4, <2>5
       DEF LifecycleStep, AddConfigPeer, StoreConfigPeer
<1> DEFINE p == ConfigPeers[cursor]
<1>5. CASE AddConfigPeer
  <2>1. cursor \in 1 .. Len(ConfigPeers)
    <3>1. Len(ConfigPeers) \in Nat
      BY ConfigAssumption, LenProperties
    <3>2. QED
      BY <1>5, <1>t, <3>1 DEF AddConfigPeer, TypeOK
  <2>2. p.key \in Keys /\ p.endpoint \in Endpoints
    BY <2>1, ConfigEntry
  <2>3. /\ lifecycle = "peers" /\ lifecycle' = "store" /\ tunnel /\ UNCHANGED <<tunnel, peers, cursor>>
        /\ wgPeers' = [wgPeers EXCEPT ![p.key] = Append(@, p.endpoint)]
    BY <1>5, <1>t DEF AddConfigPeer, StageDone, Push
  <2>4. Promised' = [Promised EXCEPT ![p.key] = p.endpoint]
    <3>1. \A k \in Keys : Promised'[k] = IF p.key = k THEN p.endpoint ELSE Promised[k]
      BY <1>2, <2>3
    <3>2. QED
      BY <1>3, <3>1
  <2>5. Table!Load(p.key, p.endpoint)
    BY <1>1, <2>3, <2>4 DEF Table!Load, Table!Enters
  <2>6. QED
    BY <2>2, <2>5 DEF Table!PTNext
<1>6. CASE StoreConfigPeer
  <2>1. /\ lifecycle = "store" /\ lifecycle' = "peers" /\ UNCHANGED <<tunnel, wgPeers>>
        /\ peers' = [peers EXCEPT ![p.key] = p.endpoint]
    BY <1>6 DEF StoreConfigPeer
  <2>2. Promised' = Promised
    <3>1. \A k \in Keys : peers'[k] = IF p.key = k THEN p.endpoint ELSE peers[k]
      BY <1>t, <2>1 DEF TypeOK
    <3>2. \A k \in Keys : Promised'[k] = Promised[k]
      BY <1>2, <2>1, <3>1
    <3>3. QED
      BY <1>3, <3>2
  <2>3. QED
    BY <1>1, <2>1, <2>2 DEF Unmoved
<1>7. QED
  BY <1>4, <1>5, <1>6
     DEF LifecycleStep, Start, Stop, BindTunnel, BindFails, CreateTunDevice, Started,
         DropTunnel, DropTunDevice, Stopped

\* The first half of a call is the whole of it.
LEMMA TableCalled ==
    ASSUME KeysDisjoint, NodeInv, NEW c \in Callers, NEW k \in KeysOf[c],
           \/ \E e \in Endpoints : AddToTunnel(c, k, e)
           \/ RemoveFromTunnel(c, k)
    PROVE  Table!PTNext
<1>t. TypeOK
  BY DEF NodeInv
<1>k. k \in Keys
  BY KeysOfAssumption
<1>1. /\ lifecycle = "idle" /\ lifecycle' = "idle" /\ peers' = peers /\ tunnel' = tunnel
      /\ pending[c] = Idle
      /\ \A d \in Callers : d # c => pending'[d] = pending[d]
  BY <1>t DEF AddToTunnel, RemoveFromTunnel, TypeOK
<1>2. \A d \in Callers : d # c /\ pending[d] # Idle => pending[d].key # k
  BY <1>t, OthersKeys
<1>3. Promised = [j \in Keys |-> Promised[j]] /\ Promised' = [j \in Keys |-> Promised'[j]]
  BY DEF Promised
<1>4. ASSUME pending'[c] # Idle, pending'[c].key = k
      PROVE  Promised' = [Promised EXCEPT ![k] =
                IF pending'[c].op = "add" THEN pending'[c].endpoint ELSE Absent]
  <2>1. Promised'[k] = IF pending'[c].op = "add" THEN pending'[c].endpoint ELSE Absent
    <3>1. PromisedToOne'
      BY ToOne, PTL
    <3>2. QED
      BY <1>k, <1>1, <1>2, <1>4, <3>1 DEF PromisedToOne
  <2>2. \A j \in Keys : j # k => Promised'[j] = Promised[j]
    BY <1>1, <1>4, PromisedKept
  <2>3. QED
    BY <1>k, <1>3, <2>1, <2>2
<1>5. CASE RemoveFromTunnel(c, k)
  <2>1. /\ pending' = [pending EXCEPT ![c] = [op |-> "remove", key |-> k]]
        /\ wgPeers' = [wgPeers EXCEPT ![k] = <<>>]
    BY <1>5 DEF RemoveFromTunnel
  <2>2. pending'[c] = [op |-> "remove", key |-> k]
    BY <1>t, <2>1 DEF TypeOK
  <2>3. pending'[c] # Idle /\ pending'[c].key = k /\ pending'[c].op = "remove"
    BY <2>2 DEF Idle
  <2>4. Promised' = [Promised EXCEPT ![k] = Absent]
    BY <1>4, <2>3
  <2>5. Table!Remove(c, k)
    BY <1>1, <2>1, <2>4 DEF Table!Remove
  <2>6. QED
    BY <1>k, <2>5 DEF Table!PTNext
<1>6. ASSUME NEW e \in Endpoints, AddToTunnel(c, k, e)
      PROVE  Table!PTNext
  <2>1. /\ pending' = [pending EXCEPT ![c] = [op |-> "add", key |-> k, endpoint |-> e]]
        /\ wgPeers' = IF tunnel THEN [wgPeers EXCEPT ![k] = Append(@, e)] ELSE wgPeers
    BY <1>6 DEF AddToTunnel, Push
  <2>2. pending'[c] = [op |-> "add", key |-> k, endpoint |-> e]
    BY <1>t, <2>1 DEF TypeOK
  <2>3. pending'[c] # Idle /\ pending'[c].key = k /\ pending'[c].op = "add" /\ pending'[c].endpoint = e
    BY <2>2 DEF Idle
  <2>4. Promised' = [Promised EXCEPT ![k] = e]
    BY <1>4, <2>3
  <2>5. Table!Add(c, k, e)
    BY <1>1, <2>1, <2>4 DEF Table!Add, Table!Enters
  <2>6. QED
    BY <1>k, <2>5 DEF Table!PTNext
<1>7. QED
  BY <1>5, <1>6

\* Its second half changes nothing any more.
LEMMA TableReturns ==
    ASSUME KeysDisjoint, NodeInv, NEW c \in Callers, CallerStep(c)
    PROVE  Table!PTNext
<1> DEFINE k == pending[c].key
<1>t. TypeOK /\ Exclusive
  BY DEF NodeInv
<1>1. /\ wgPeers' = wgPeers /\ lifecycle' = lifecycle /\ tunnel' = tunnel
      /\ pending' = [pending EXCEPT ![c] = Idle]
      /\ pending[c].op \in {"add", "remove"}
  BY DEF CallerStep, StorePeer, ForgetPeer
<1>2. pending[c] # Idle /\ k \in Keys /\ k \in KeysOf[c]
  BY <1>1, <1>t, PendingCases DEF TypeOK
<1>3. /\ pending'[c] = Idle
      /\ \A d \in Callers : d # c => pending'[d] = pending[d]
  BY <1>1, <1>t DEF TypeOK
<1>4. lifecycle = "idle"
  BY <1>2, <1>t DEF Exclusive, AllIdle
<1>5. \A d \in Callers : d # c /\ pending[d] # Idle => pending[d].key # k
  BY <1>2, <1>t, OthersKeys
<1>6. peers' = [peers EXCEPT ![k] =
                  IF pending[c].op = "add" THEN pending[c].endpoint ELSE Absent]
  BY DEF CallerStep, StorePeer, ForgetPeer
<1>7. Promised'[k] = Promised[k]
  <2>1. PromisedToOne /\ PromisedToOne'
    BY ToOne, PTL
  <2>2. Promised[k] = IF pending[c].op = "add" THEN pending[c].endpoint ELSE Absent
    BY <1>2, <1>4, <1>5, <2>1 DEF PromisedToOne
  <2>3. Promised'[k] = peers'[k]
    BY <1>1, <1>2, <1>3, <1>4, <1>5, <2>1 DEF PromisedToOne
  <2>4. QED
    BY <1>2, <1>6, <1>t, <2>2, <2>3 DEF TypeOK
<1>8. \A j \in Keys : j # k => Promised'[j] = Promised[j]
  <2>1. \A j \in Keys : j # k => peers'[j] = peers[j]
    BY <1>6, <1>t DEF TypeOK
  <2>2. QED
    BY <1>1, <1>3, <1>4, <2>1, PromisedKept
<1>9. Promised' = Promised
  BY <1>7, <1>8 DEF Promised
<1>10. Table!Return(c)
  BY <1>1, <1>2, <1>9 DEF Table!Return
<1>11. QED
  BY <1>10 DEF Table!PTNext

LEMMA TableStep ==
    KeysDisjoint /\ NodeInv /\ [Next]_vars => [Table!PTNext]_(Table!ptVars)
<1> SUFFICES ASSUME KeysDisjoint, NodeInv, [Next]_vars
             PROVE  Table!PTNext \/ Unmoved
  BY TableKept
<1>1. CASE Start \/ Stop \/ LifecycleStep
  BY <1>1, TableAlone
<1>2. ASSUME NEW c \in Callers, Call(c)
      PROVE  Table!PTNext
  BY <1>2, TableCalled DEF Call
<1>3. ASSUME NEW c \in Callers, CallerStep(c)
      PROVE  Table!PTNext
  BY <1>3, TableReturns
<1>4. CASE UNCHANGED vars
  BY <1>4 DEF vars, Unmoved, Promised, Owed
<1>5. QED
  BY <1>1, <1>2, <1>3, <1>4 DEF Next

LEMMA TableInit == Init => Table!PTInit
<1> SUFFICES ASSUME Init PROVE Table!PTInit
  OBVIOUS
<1>1. \A k \in Keys : Promised[k] = Absent
  <2>1. PromisedAlone
    BY WhileAlone
  <2>2. QED
    BY <2>1 DEF Init, PromisedAlone
<1>2. Promised = [k \in Keys |-> Absent]
  BY <1>1 DEF Promised
<1>3. QED
  BY <1>2 DEF Init, NoWgPeers, Table!PTInit, Table!Emptied

-----------------------------------------------------------------------------
(* The theorems.                                                           *)

\* NodeInv holds in every behaviour of the node: types, the exclusion of
\* start() and stop(), what each of their stages has done.
THEOREM NodeInvariant == Spec => []NodeInv
<1>1. QED
  BY NodeInvInit, NodeInvNext, PTL DEF Spec

\* The variables keep their types, whatever the keys, callers and configuration.
THEOREM TypeCorrect == Spec => []TypeOK
<1>1. NodeInv => TypeOK
  BY DEF NodeInv
<1>2. QED
  BY <1>1, NodeInvariant, PTL

\* A running node holds its tunnel and TUN device and a stopped node holds
\* nothing, across failed starts and restarts (start(), stop()).
THEOREM StateIsTruthful == Spec => []StateTellsResources
<1>1. NodeInv => StateTellsResources
  BY DEF NodeInv
<1>2. QED
  BY <1>1, NodeInvariant, PTL

\* When no key is managed by two callers, the map agrees with the last push on
\* every key the tunnel holds and no call has half done (add_peer(), remove_peer()).
THEOREM StoresAgree ==
    ASSUME KeysDisjoint
    PROVE  Spec => []MapHoldsLatestPush
<1>1. DriftInv => MapHoldsLatestPush
  BY DEF DriftInv
<1>2. NodeInv /\ DriftInv /\ [Next]_vars => DriftInv'
  BY DriftInvNext
<1>3. QED
  BY <1>1, <1>2, DriftInvInit, NodeInvariant, PTL DEF Spec

\* The step that makes a node running leaves in the tunnel exactly the entries
\* of the configuration, each as often as it is listed (initialize_peers()).
THEOREM ConfigurationInstalled == Spec => StartInstallsConfig
<1>1. NodeInv /\ Loaded /\ [Next]_vars => Loaded'
  BY LoadedNext
<1>2. NodeInv /\ Loaded /\ [Next]_vars =>
         [state # "Running" /\ state' = "Running" =>
             \A k \in Keys : Len(wgPeers'[k]) = Cardinality(ConfigEntries(k))]_vars
  BY StartInstallsConfigStep
<1>3. QED
  BY <1>1, <1>2, LoadedInit, NodeInvariant, PTL DEF Spec, StartInstallsConfig


\* When no key is managed by two callers, add_peer() and remove_peer() are atomic:
\* the tunnel's list and the map are one table, which each call changes once, at its
\* write to the tunnel, and a start or a stop has to itself.
THEOREM CallsTakeEffectAtOnce ==
    ASSUME KeysDisjoint
    PROVE  Spec => CallsAreAtomic
<1>1. NodeInv /\ [Next]_vars => [Table!PTNext]_(Table!ptVars)
  BY TableStep
<1>2. QED
  BY <1>1, TableInit, NodeInvariant, PTL DEF Spec, CallsAreAtomic, Table!PTSpec
=============================================================================
