----------------------------- MODULE MCIdentity -----------------------------
(* Instances of Identity for model checking. *)
EXTENDS Identity, TLC

CONSTANTS p1, p2, home, work, homeKey, workKey, k1, k2, k3

\* meshvpn.toml and work.toml.
OwnKeyFiles == home :> homeKey @@ work :> workKey

\* The processes are interchangeable, and so are the keys.
Symmetry == Permutations(Procs) \cup Permutations(SecretKeys)
=============================================================================
