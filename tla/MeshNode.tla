------------------------------ MODULE MeshNode ------------------------------
(***************************************************************************)
(* The controller of one mesh node (src/src/node.rs): its lifecycle, the   *)
(* two places that hold its peers (the node's own map and the peer list of *)
(* the tunnel it owns) and the calls that change them.                     *)
(*                                                                         *)
(* start() and stop() take &mut self, so they exclude every other call;    *)
(* add_peer() and remove_peer() take &self, so any number of tasks may be  *)
(* inside them, and each awaits a lock between its write to the tunnel and *)
(* its write to the map.  Every await that separates two writes separates  *)
(* two actions here.                                                       *)
(***************************************************************************)
EXTENDS Integers, Sequences, FiniteSets

CONSTANTS
    Keys,           \* public keys
    Endpoints,      \* values of Option<SocketAddr>
    Absent,         \* "the map has no entry"
    Callers,        \* tasks that share the node and manage its peers
    KeysOf,         \* the keys each caller manages
    ConfigPeers,    \* config.peers, a list of peers
    TunEnabled,     \* config.tun.enabled
    EphemeralPort,  \* listen_addr has port 0, so a second bind can succeed
    MaxPushes       \* bound: entries of one key in the tunnel's list

Peer == [key : Keys, endpoint : Endpoints]

ASSUME AbsentAssumption == Absent \notin Endpoints
ASSUME KeysOfAssumption == KeysOf \in [Callers -> SUBSET Keys]
ASSUME ConfigAssumption == ConfigPeers \in Seq(Peer)
ASSUME FlagAssumption   == TunEnabled \in BOOLEAN /\ EphemeralPort \in BOOLEAN
ASSUME BoundAssumption  == MaxPushes \in Nat

VARIABLES
    state,      \* NodeState
    tunnel,     \* is self.tunnel Some(_)?
    wgPeers,    \* the tunnel's list: the endpoints pushed for each key, in order
    tunDevice,  \* is self.tun_device Some(_)?
    peers,      \* the node's map: endpoint of each key's PeerInfo, or Absent
    lifecycle,  \* where the running start() or stop() is, or "idle"
    cursor,     \* the config peer start() has reached
    pending     \* the second half each caller still owes, or Idle

vars == <<state, tunnel, wgPeers, tunDevice, peers, lifecycle, cursor, pending>>

NodeState == {"Starting", "Running", "Stopping", "Stopped"}
Lifecycle == {"idle", "bind", "tun", "peers", "store",
              "dropTunnel", "dropTun", "stopped"}

Idle == [op |-> "none"]
Pending == {Idle} \cup [op : {"add"}, key : Keys, endpoint : Endpoints]
                  \cup [op : {"remove"}, key : Keys]

NoWgPeers == [k \in Keys |-> <<>>]
Push(k, e) == [wgPeers EXCEPT ![k] = Append(@, e)]

\* No &self call is in progress, as the &mut self of start() and stop() requires.
AllIdle == \A c \in Callers : pending[c] = Idle

Init ==
    /\ state = "Stopped"
    /\ tunnel = FALSE
    /\ wgPeers = NoWgPeers
    /\ tunDevice = FALSE
    /\ peers = [k \in Keys |-> Absent]
    /\ lifecycle = "idle"
    /\ cursor = 1
    /\ pending = [c \in Callers |-> Idle]

-----------------------------------------------------------------------------
(* Mutated forms of the actions below.  The specification uses none of     *)
(* them; each stands for a plausible mistake that one property detects.    *)

\* The `?` after start_tunnel() is lost.
BindFailsIgnored ==
    /\ lifecycle = "bind"
    /\ cursor' = 1
    /\ lifecycle' = IF TunEnabled THEN "tun" ELSE "peers"
    /\ UNCHANGED <<state, tunnel, wgPeers, tunDevice, peers, pending>>

\* A restart keeps the peers of the tunnel it replaces.
BindTunnelKeepsPeers ==
    /\ lifecycle = "bind"
    /\ tunnel => EphemeralPort
    /\ tunnel' = TRUE
    /\ cursor' = 1
    /\ lifecycle' = IF TunEnabled THEN "tun" ELSE "peers"
    /\ UNCHANGED <<state, wgPeers, tunDevice, peers, pending>>

\* The loop over the configuration advances twice.
StoreConfigPeerSkips ==
    /\ lifecycle = "store"
    /\ peers' = [peers EXCEPT ![ConfigPeers[cursor].key] = ConfigPeers[cursor].endpoint]
    /\ cursor' = cursor + 2
    /\ lifecycle' = "peers"
    /\ UNCHANGED <<state, tunnel, wgPeers, tunDevice, pending>>

\* entry().or_insert() in place of insert().
StorePeerIfAbsent(c) ==
    /\ pending[c].op = "add"
    /\ peers' = [peers EXCEPT ![pending[c].key] =
                    IF @ = Absent THEN pending[c].endpoint ELSE @]
    /\ pending' = [pending EXCEPT ![c] = Idle]
    /\ UNCHANGED <<state, tunnel, wgPeers, tunDevice, lifecycle, cursor>>

\* Without a tunnel there is nothing to remove, and the map is left alone too.
ForgetPeerOfTunnel(c) ==
    /\ pending[c].op = "remove"
    /\ peers' = IF tunnel THEN [peers EXCEPT ![pending[c].key] = Absent] ELSE peers
    /\ pending' = [pending EXCEPT ![c] = Idle]
    /\ UNCHANGED <<state, tunnel, wgPeers, tunDevice, lifecycle, cursor>>

-----------------------------------------------------------------------------
(* start().  Nothing in it looks at the state the node is in.              *)

Start ==
    /\ lifecycle = "idle" /\ AllIdle
    /\ state' = "Starting"
    /\ lifecycle' = "bind"
    /\ UNCHANGED <<tunnel, wgPeers, tunDevice, peers, cursor, pending>>

\* The address is free, or the system picks a port: the new tunnel, with an
\* empty peer list, replaces whatever self.tunnel held.
BindTunnel ==
    /\ lifecycle = "bind"
    /\ tunnel => EphemeralPort
    /\ tunnel' = TRUE
    /\ wgPeers' = NoWgPeers
    /\ cursor' = 1
    /\ lifecycle' = IF TunEnabled THEN "tun" ELSE "peers"
    /\ UNCHANGED <<state, tunDevice, peers, pending>>

\* UdpSocket::bind fails (it must when the previous tunnel still holds the
\* address) and `?` leaves start() at once, with the state it has written.
BindFails ==
    /\ lifecycle = "bind"
    /\ lifecycle' = "idle"
    /\ UNCHANGED <<state, tunnel, wgPeers, tunDevice, peers, cursor, pending>>

\* TunDevice::new cannot fail in this build.
CreateTunDevice ==
    /\ lifecycle = "tun"
    /\ tunDevice' = TRUE
    /\ lifecycle' = "peers"
    /\ UNCHANGED <<state, tunnel, wgPeers, peers, cursor, pending>>

\* initialize_peers() calls add_peer() on each peer of the configuration.
AddConfigPeer ==
    /\ lifecycle = "peers" /\ cursor <= Len(ConfigPeers)
    /\ wgPeers' = Push(ConfigPeers[cursor].key, ConfigPeers[cursor].endpoint)
    /\ lifecycle' = "store"
    /\ UNCHANGED <<state, tunnel, tunDevice, peers, cursor, pending>>

StoreConfigPeer ==
    /\ lifecycle = "store"
    /\ peers' = [peers EXCEPT ![ConfigPeers[cursor].key] = ConfigPeers[cursor].endpoint]
    /\ cursor' = cursor + 1
    /\ lifecycle' = "peers"
    /\ UNCHANGED <<state, tunnel, wgPeers, tunDevice, pending>>

Started ==
    /\ lifecycle = "peers" /\ cursor > Len(ConfigPeers)
    /\ state' = "Running"
    /\ lifecycle' = "idle"
    /\ UNCHANGED <<tunnel, wgPeers, tunDevice, peers, cursor, pending>>

-----------------------------------------------------------------------------
(* stop().  The map of peers is left as it is.                             *)

Stop ==
    /\ lifecycle = "idle" /\ AllIdle
    /\ state' = "Stopping"
    /\ lifecycle' = "dropTunnel"
    /\ UNCHANGED <<tunnel, wgPeers, tunDevice, peers, cursor, pending>>

\* The last reference to the tunnel goes, and its socket and peer list with it.
DropTunnel ==
    /\ lifecycle = "dropTunnel"
    /\ tunnel' = FALSE
    /\ wgPeers' = NoWgPeers
    /\ lifecycle' = "dropTun"
    /\ UNCHANGED <<state, tunDevice, peers, cursor, pending>>

DropTunDevice ==
    /\ lifecycle = "dropTun"
    /\ tunDevice' = FALSE
    /\ lifecycle' = "stopped"
    /\ UNCHANGED <<state, tunnel, wgPeers, peers, cursor, pending>>

Stopped ==
    /\ lifecycle = "stopped"
    /\ state' = "Stopped"
    /\ lifecycle' = "idle"
    /\ UNCHANGED <<tunnel, wgPeers, tunDevice, peers, cursor, pending>>

-----------------------------------------------------------------------------
(* add_peer() and remove_peer(), each in two halves.                       *)

\* self.tunnel.read().await, then the push if there is a tunnel.
AddToTunnel(c, k, e) ==
    /\ lifecycle = "idle" /\ pending[c] = Idle
    /\ Len(wgPeers[k]) < MaxPushes
    /\ wgPeers' = IF tunnel THEN Push(k, e) ELSE wgPeers
    /\ pending' = [pending EXCEPT ![c] = [op |-> "add", key |-> k, endpoint |-> e]]
    /\ UNCHANGED <<state, tunnel, tunDevice, peers, lifecycle, cursor>>

\* self.peers.write().await, then the insert.
StorePeer(c) ==
    /\ pending[c].op = "add"
    /\ peers' = [peers EXCEPT ![pending[c].key] = pending[c].endpoint]
    /\ pending' = [pending EXCEPT ![c] = Idle]
    /\ UNCHANGED <<state, tunnel, wgPeers, tunDevice, lifecycle, cursor>>

\* retain() drops every entry of the key.
RemoveFromTunnel(c, k) ==
    /\ lifecycle = "idle" /\ pending[c] = Idle
    /\ wgPeers' = [wgPeers EXCEPT ![k] = <<>>]
    /\ pending' = [pending EXCEPT ![c] = [op |-> "remove", key |-> k]]
    /\ UNCHANGED <<state, tunnel, tunDevice, peers, lifecycle, cursor>>

ForgetPeer(c) ==
    /\ pending[c].op = "remove"
    /\ peers' = [peers EXCEPT ![pending[c].key] = Absent]
    /\ pending' = [pending EXCEPT ![c] = Idle]
    /\ UNCHANGED <<state, tunnel, wgPeers, tunDevice, lifecycle, cursor>>

-----------------------------------------------------------------------------
LifecycleStep ==
    \/ BindTunnel \/ BindFails \/ CreateTunDevice
    \/ AddConfigPeer \/ StoreConfigPeer \/ Started
    \/ DropTunnel \/ DropTunDevice \/ Stopped

CallerStep(c) == StorePeer(c) \/ ForgetPeer(c)

Call(c) ==
    \E k \in KeysOf[c] :
        \/ \E e \in Endpoints : AddToTunnel(c, k, e)
        \/ RemoveFromTunnel(c, k)

Next ==
    \/ Start \/ Stop \/ LifecycleStep
    \/ \E c \in Callers : Call(c) \/ CallerStep(c)

\* Only safety is stated of the node.  Its locks are not modelled: of those, only the
\* configuration's is held across awaits, and nobody ever writes to that.
Spec == Init /\ [][Next]_vars

-----------------------------------------------------------------------------
(* What holds.                                                             *)

\* The types of the variables; the in-flight halves belong to their callers.
TypeOK ==
    /\ state \in NodeState
    /\ tunnel \in BOOLEAN /\ tunDevice \in BOOLEAN
    /\ wgPeers \in [Keys -> Seq(Endpoints)]
    /\ peers \in [Keys -> Endpoints \cup {Absent}]
    /\ lifecycle \in Lifecycle
    /\ cursor \in 1 .. Len(ConfigPeers) + 1
    /\ pending \in [Callers -> Pending]
    /\ \A c \in Callers : pending[c] # Idle => pending[c].key \in KeysOf[c]

\* A node that says it is running has the tunnel and the TUN device its
\* configuration asks for, and one that says it is stopped has neither and no
\* tunnel peers: whatever calls came before, failed starts included.  Between two
\* calls of start() or stop() a node in any state, a start that failed having left
\* it Starting, holds all that a configuration asks for, an earlier run's then, or
\* nothing.
StateTellsResources ==
    /\ state = "Running" => tunnel
    /\ state = "Stopped" => ~tunnel
    /\ lifecycle = "idle" => (tunDevice <=> tunnel /\ TunEnabled)
    /\ ~tunnel => \A k \in Keys : wgPeers[k] = <<>>

\* Does some call have k half done?
InFlight(k) ==
    \/ \E c \in Callers : pending[c] # Idle /\ pending[c].key = k
    \/ lifecycle = "store" /\ ConfigPeers[cursor].key = k

\* Apart from calls half done, whatever the tunnel holds for a key the map
\* holds too, and with the endpoint pushed last: the two stores of add_peer()
\* and remove_peer(), written one after the other with an await between, do
\* not drift apart in that direction across additions, removals, restarts and
\* failed starts.  Callers that share a key break it (TunnelForgetsRemoved).
MapHoldsLatestPush ==
    \A k \in Keys :
        wgPeers[k] # <<>> /\ ~InFlight(k) => peers[k] = wgPeers[k][Len(wgPeers[k])]

\* The half that a call under way still owes to the map on k.
Owed(k) ==
    {pending[c] : c \in {d \in Callers : pending[d] # Idle /\ pending[d].key = k}}
    \cup IF lifecycle = "store" /\ ConfigPeers[cursor].key = k
         THEN {[op |-> "add", key |-> k, endpoint |-> ConfigPeers[cursor].endpoint]}
         ELSE {}

\* The map once every call under way has returned.
Settled(halves, entry) ==
    IF halves = {} THEN entry
    ELSE LET half == CHOOSE h \in halves : TRUE
         IN IF half.op = "add" THEN half.endpoint ELSE Absent
Promised == [k \in Keys |-> Settled(Owed(k), peers[k])]

Table == INSTANCE PeerTable
    WITH up <- tunnel, list <- wgPeers, map <- Promised, calls <- pending,
         busy <- lifecycle # "idle"

\* Although add_peer() and remove_peer() write to two stores with an await between
\* them, and any number of them run at once with starts, stops and failed starts
\* before and after, each takes effect on both stores at one moment, when it
\* writes to the tunnel, and never again.  Callers that share a key break it.
CallsAreAtomic == Table!PTSpec

\* How often the configuration lists k.
ConfigEntries(k) == {i \in DOMAIN ConfigPeers : ConfigPeers[i].key = k}

\* When start() reports success the tunnel holds exactly the configuration's
\* peers, each as often as it is listed: nothing of an earlier run is left in
\* it and nothing of the configuration is missing.
StartInstallsConfig ==
    [][state # "Running" /\ state' = "Running" =>
          \A k \in Keys : Len(wgPeers'[k]) = Cardinality(ConfigEntries(k))]_vars

-----------------------------------------------------------------------------
(* Why it holds: the parts of the inductive invariant.                     *)

\* start() and stop() run alone.
Exclusive == lifecycle # "idle" => AllIdle

\* What each stage of start() and stop() has already done.
StageDone ==
    /\ lifecycle \in {"bind", "tun", "peers", "store"} => state = "Starting"
    /\ lifecycle \in {"dropTunnel", "dropTun", "stopped"} => state = "Stopping"
    /\ lifecycle \in {"bind", "dropTunnel", "peers", "store"} =>
          (tunDevice <=> tunnel /\ TunEnabled)
    /\ lifecycle \in {"tun", "peers", "store"} => tunnel
    /\ lifecycle = "tun" => TunEnabled
    /\ ~TunEnabled => ~tunDevice
    /\ lifecycle \in {"dropTun", "stopped"} => ~tunnel
    /\ lifecycle = "stopped" => ~tunDevice
    /\ lifecycle = "store" => cursor <= Len(ConfigPeers)
    /\ ~tunnel => \A k \in Keys : wgPeers[k] = <<>>

LastIs(k, e) == wgPeers[k] # <<>> => wgPeers[k][Len(wgPeers[k])] = e

\* Between its halves a call still finds the tunnel as its first half left it.
HalfDone ==
    /\ \A c \in Callers :
          /\ pending[c].op = "add" => LastIs(pending[c].key, pending[c].endpoint)
          /\ pending[c].op = "remove" => wgPeers[pending[c].key] = <<>>
    /\ lifecycle = "store" =>
          LastIs(ConfigPeers[cursor].key, ConfigPeers[cursor].endpoint)

\* How often the first n entries of the configuration list k.
FirstEntries(k, n) == {i \in 1 .. n : ConfigPeers[i].key = k}

\* How much of the configuration the tunnel holds while start() adds it.
Loaded ==
    /\ lifecycle = "tun" => cursor = 1 /\ \A k \in Keys : wgPeers[k] = <<>>
    /\ lifecycle = "peers" =>
          \A k \in Keys : Len(wgPeers[k]) = Cardinality(FirstEntries(k, cursor - 1))
    /\ lifecycle = "store" =>
          \A k \in Keys : Len(wgPeers[k]) = Cardinality(FirstEntries(k, cursor))

\* No key is managed by two callers.
KeysDisjoint == \A c, d \in Callers : c # d => KeysOf[c] \cap KeysOf[d] = {}

NodeInv == TypeOK /\ Exclusive /\ StageDone /\ StateTellsResources
DriftInv == HalfDone /\ MapHoldsLatestPush

-----------------------------------------------------------------------------
(* What the source says and the code does not do.                          *)

\* node.rs:262 to 272, "Remove a peer ... from tunnel ... from peers map": when
\* no call is in progress, a key that is not in the map is not in the tunnel.
TunnelForgetsRemoved ==
    lifecycle = "idle" /\ AllIdle =>
        \A k \in Keys : peers[k] = Absent => wgPeers[k] = <<>>
=============================================================================
