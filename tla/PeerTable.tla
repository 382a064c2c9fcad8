----------------------------- MODULE PeerTable -----------------------------
(***************************************************************************)
(* What a node promises of its peers.  A call adds or removes a peer at    *)
(* one moment, in the map of peers and in the tunnel's list at once, and   *)
(* changes neither when it returns.  A start or a stop has the table to    *)
(* itself; it may add peers, and replace the list by an empty one.         *)
(***************************************************************************)
EXTENDS Sequences

CONSTANTS Keys, Endpoints, Absent, Callers, Idle

VARIABLES
    up,     \* is there a tunnel?
    list,   \* the endpoints each key has in the tunnel, in the order of the calls
    map,    \* the endpoint of each key, or Absent
    calls,  \* the call each caller is in, or Idle
    busy    \* does a start or a stop run?

ptVars == <<up, list, map, calls, busy>>

Emptied == [k \in Keys |-> <<>>]

PTInit ==
    /\ up = FALSE /\ list = Emptied /\ map = [k \in Keys |-> Absent]
    /\ calls = [c \in Callers |-> Idle] /\ busy = FALSE

Enters(k, e) ==
    /\ list' = IF up THEN [list EXCEPT ![k] = Append(@, e)] ELSE list
    /\ map' = [map EXCEPT ![k] = e]

Add(c, k, e) ==
    /\ ~busy /\ calls[c] = Idle
    /\ Enters(k, e)
    /\ calls' = [calls EXCEPT ![c] = [op |-> "add", key |-> k, endpoint |-> e]]
    /\ UNCHANGED <<up, busy>>

Remove(c, k) ==
    /\ ~busy /\ calls[c] = Idle
    /\ list' = [list EXCEPT ![k] = <<>>]
    /\ map' = [map EXCEPT ![k] = Absent]
    /\ calls' = [calls EXCEPT ![c] = [op |-> "remove", key |-> k]]
    /\ UNCHANGED <<up, busy>>

Return(c) ==
    /\ calls[c] # Idle
    /\ calls' = [calls EXCEPT ![c] = Idle]
    /\ UNCHANGED <<up, list, map, busy>>

Begin ==
    /\ ~busy /\ \A c \in Callers : calls[c] = Idle
    /\ busy' = TRUE
    /\ UNCHANGED <<up, list, map, calls>>

Load(k, e) ==
    /\ busy /\ up
    /\ Enters(k, e)
    /\ UNCHANGED <<up, calls, busy>>

\* The map outlives the tunnel.
Replace(tunnel) ==
    /\ busy
    /\ up' = tunnel /\ list' = Emptied
    /\ UNCHANGED <<map, calls, busy>>

End ==
    /\ busy
    /\ busy' = FALSE
    /\ UNCHANGED <<up, list, map, calls>>

PTNext ==
    \/ \E c \in Callers :
          \/ \E k \in Keys : Remove(c, k) \/ \E e \in Endpoints : Add(c, k, e)
          \/ Return(c)
    \/ Begin \/ End
    \/ \E k \in Keys, e \in Endpoints : Load(k, e)
    \/ \E tunnel \in BOOLEAN : Replace(tunnel)

PTSpec == PTInit /\ [][PTNext]_ptVars
=============================================================================
