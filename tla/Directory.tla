----------------------------- MODULE Directory -----------------------------
(***************************************************************************)
(* What a signaling server promises to clients that come once and stay: a  *)
(* client joins once and is never lost, looks once at everybody who has    *)
(* joined by that moment, itself included, and listens only as a member.   *)
(***************************************************************************)
CONSTANT Clients

VARIABLES
    members,    \* who has joined
    seen,       \* who has looked, and whom they saw
    listeners   \* who waits to hear of others

dirVars == <<members, seen, listeners>>

DirInit == members = {} /\ seen = {} /\ listeners = {}

Join(c) ==
    /\ c \notin members
    /\ members' = members \cup {c}
    /\ UNCHANGED <<seen, listeners>>

Look(c) ==
    /\ c \in members
    /\ \A look \in seen : look.by # c
    /\ seen' = seen \cup {[by |-> c, saw |-> members]}
    /\ UNCHANGED <<members, listeners>>

Listen(c) ==
    /\ c \in members \ listeners
    /\ listeners' = listeners \cup {c}
    /\ UNCHANGED <<members, seen>>

DirNext == \E c \in Clients : Join(c) \/ Look(c) \/ Listen(c)

DirSpec == DirInit /\ [][DirNext]_dirVars
=============================================================================
