---------------------------- MODULE MCWireGuard ----------------------------
(* Instances of WireGuard for model checking. *)
EXTENDS WireGuard, TLC

CONSTANTS n1, n2, t1, t2

\* One task on each tunnel.
OneTaskEach == t1 :> n1 @@ t2 :> n2

\* Both tasks on the first tunnel.
SharedTunnel == t1 :> n1 @@ t2 :> n1

\* What the other node may be entered with: its endpoint, or none.
Full(n) == {[key |-> n, endpoint |-> n]}
Bare(n) == {[key |-> n, endpoint |-> NoEndpoint]}

FullEntries == n1 :> Full(n2) @@ n2 :> Full(n1)
SomeEntries == n1 :> (Full(n2) \cup Bare(n2)) @@ n2 :> Full(n1)
=============================================================================
