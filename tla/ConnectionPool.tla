---------------------------- MODULE ConnectionPool ----------------------------
(***************************************************************************)
(* ConnectionPool of src/src/network/async_io.rs.  Every method holds the  *)
(* lock of the vector for its whole length, so each is one action; what an *)
(* entry knows of time is when it was created, not when it was last used.  *)
(***************************************************************************)
EXTENDS Naturals, Sequences, Retain

CONSTANTS
    PeerIds,            \* the peers connections are pooled for
    Endpoints,          \* their endpoints
    MaxConnections,     \* max_connections
    MaxAge              \* the 300 seconds after which an entry may be evicted

ASSUME PoolAssumption == MaxConnections \in Nat /\ MaxAge \in Nat \ {0}

VARIABLES
    pool,       \* connections: the handles in the order of the vector
    found       \* what the last call has returned

poolVars == <<pool, found>>

\* An age of MaxAge stands for every greater one.
Handle == [peerId : PeerIds, endpoint : Endpoints, age : 0..MaxAge]
Nothing == [says |-> "nothing"]
Full == [says |-> "Connection pool full"]

Young == {c \in Handle : c.age < MaxAge}
Of(p) == {c \in Handle : c.peerId = p}

PoolInit == pool = <<>> /\ found = Nothing

-----------------------------------------------------------------------------
(* Mutated forms of definitions below, which the specification does not    *)
(* use.                                                                    *)

\* A full pool makes room by its oldest entry, whatever its age.
AddConnectionEvicting(p, e) ==
    LET new == [peerId |-> p, endpoint |-> e, age |-> 0] IN
    /\ found' = Nothing
    /\ IF Len(pool) < MaxConnections THEN pool' = Append(pool, new)
       ELSE IF pool = <<>> THEN UNCHANGED pool ELSE pool' = Append(Tail(pool), new)

\* The limit is compared with > instead of >=.
AddConnectionOneMore(p, e) ==
    LET room == IF Len(pool) > MaxConnections THEN Only(pool, Young) ELSE pool IN
    IF Len(room) > MaxConnections
    THEN pool' = room /\ found' = Full
    ELSE /\ pool' = Append(room, [peerId |-> p, endpoint |-> e, age |-> 0])
         /\ found' = Nothing

-----------------------------------------------------------------------------
\* add_connection(): entries are evicted when the pool is full, and only those
\* that are MaxAge old; an entry of the same peer stays.
AddConnection(p, e) ==
    LET room == IF Len(pool) >= MaxConnections THEN Only(pool, Young) ELSE pool IN
    IF Len(room) >= MaxConnections
    THEN pool' = room /\ found' = Full
    ELSE /\ pool' = Append(room, [peerId |-> p, endpoint |-> e, age |-> 0])
         /\ found' = Nothing

\* remove_connection() takes all entries of the peer.
RemoveConnection(p) ==
    /\ pool' = Only(pool, Handle \ Of(p))
    /\ found' = Nothing

\* get_connection() returns the first entry of the peer, of whatever age.
GetConnection(p) ==
    /\ found' = LET own == Only(pool, Of(p))
                IN IF own = <<>> THEN Nothing ELSE Head(own)
    /\ UNCHANGED pool

Grow(c) == [c EXCEPT !.age = IF @ < MaxAge THEN @ + 1 ELSE @]
TimePasses ==
    /\ \E i \in 1..Len(pool) : pool[i] \in Young
    /\ pool' = [i \in 1..Len(pool) |-> Grow(pool[i])]
    /\ found' = Nothing

PoolNext ==
    \/ \E p \in PeerIds :
          \/ \E e \in Endpoints : AddConnection(p, e)
          \/ RemoveConnection(p) \/ GetConnection(p)
    \/ TimePasses

PoolSpec == PoolInit /\ [][PoolNext]_poolVars

-----------------------------------------------------------------------------
\* The types, the limit of the pool, and the oldest entries in front: the one
\* get_connection() finds is the oldest of its peer.
PoolTypeOK ==
    /\ pool \in Seq(Handle) /\ Len(pool) <= MaxConnections
    /\ found \in Handle \cup {Nothing, Full}
    /\ \A i, j \in 1..Len(pool) : i < j => pool[i].age >= pool[j].age

\* The young entries of a peer, from the oldest to the youngest.
YoungOf(p) == Only(pool, Young \cap Of(p))

\* An entry younger than MaxAge leaves the pool by a call of remove_connection()
\* for its peer or not at all: no addition, and none that is refused, takes it,
\* however full the pool.
YoungStay == [][
    \A p \in PeerIds : Len(YoungOf(p)') < Len(YoungOf(p)) =>
        RemoveConnection(p) \/ TimePasses]_poolVars
=============================================================================
