------------------------------ MODULE MCAsyncIO ------------------------------
(* Instances of AsyncIO for model checking. *)
EXTENDS AsyncIO, TLC

CONSTANTS a, b, x, y, p, q, e

\* Addresses and peers are interchangeable.
Symmetry == Permutations(Addresses) \cup Permutations(Data) \cup Permutations(PeerIds)
=============================================================================
