------------------------------- MODULE AsyncIO -------------------------------
(***************************************************************************)
(* The router and the pool of src/src/network/async_io.rs in one process:  *)
(* the task of the router and the callers of the pool interleave in any    *)
(* way and share nothing, each having a map and a lock of its own.         *)
(***************************************************************************)
EXTENDS PacketRouter, ConnectionPool

asyncVars == <<routerVars, poolVars>>

AsyncInit == RouterInit /\ PoolInit

AsyncNext ==
    \/ RouterNext /\ UNCHANGED poolVars
    \/ PoolNext /\ UNCHANGED routerVars

\* Nobody has to call, to send or to listen, so there is no fairness.
AsyncSpec == AsyncInit /\ [][AsyncNext]_asyncVars
=============================================================================
