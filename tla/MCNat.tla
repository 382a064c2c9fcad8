-------------------------------- MODULE MCNat --------------------------------
(* An instance of Nat for model checking. *)
EXTENDS Nat

CONSTANTS i, j, l, t1, t2, atI, atJ, atL, server, public

Hosts == i :> atI @@ j :> atJ @@ l :> atL

\* Two of each agent, of what types they may be; what the third has nobody reads.
Bounds == i :> 2 @@ j :> 2 @@ l :> 1

\* In the source 16 and 24 bytes.
DrawnBytes ==
    i :> [username |-> <<155>>, password |-> <<>>]
 @@ j :> [username |-> <<91, 130>>, password |-> <<>>]
 @@ l :> [username |-> <<>>, password |-> <<>>]

\* All agents are behind one NAT, which gives their sockets ports of their own, and
\* which forwards one of its ports to i.
Seen == atI :> [ip |-> <<51968, 9>>, port |-> 40001] @@ atJ :> [ip |-> <<51968, 9>>, port |-> 40002]
     @@ atL :> [ip |-> <<51968, 9>>, port |-> 40003]
     @@ Ephemeral(t1) :> [ip |-> <<51968, 9>>, port |-> 40004]
     @@ Ephemeral(t2) :> [ip |-> <<51968, 9>>, port |-> 40005]
PublicOfI == public :> atI

Attribute(type, length) == [type |-> type, length |-> length, cut |-> FALSE]
AddressWritten == Attribute(AddressAttribute, 8)
Software == Attribute(32802, 7)

\* An address at the end, behind a MAPPED-ADDRESS, which the code skips, and one
\* between an attribute that is padded and one that is cut.
SomeReplies == {
    <<Attribute(1, 8), AddressWritten>>,
    <<Software, AddressWritten, [Software EXCEPT !.cut = TRUE]>> }

\* The tasks are interchangeable.
Symmetry == Permutations(Tasks)

\* The public address of i, and a relay that is also a server.
RelayAndPublic == {NewRelay(server), NewSrflx(public, 65535)}
=============================================================================
