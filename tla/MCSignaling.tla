---------------------------- MODULE MCSignaling ----------------------------
(* Instances of Signaling for model checking. *)
EXTENDS Signaling, TLC

CONSTANTS c1, c2, c3

\* Each client connects once.
Once == [c \in Clients |-> 1]

\* One client may connect again.
FirstTwice == [c \in Clients |-> IF c = c1 THEN 2 ELSE 1]

\* Nobody sends more than Register, or only the client that connects once does.
NoSends == [c \in Clients |-> 0]
SecondSends == [c \in Clients |-> IF c = c2 THEN 1 ELSE 0]

\* The clients are interchangeable.
Symmetry == Permutations(Clients)
=============================================================================
