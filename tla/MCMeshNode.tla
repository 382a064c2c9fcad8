----------------------------- MODULE MCMeshNode -----------------------------
(* Instances of MeshNode for model checking. *)
EXTENDS MeshNode, TLC

CONSTANTS k1, k2, k3, e1, e2, a1, a2

\* Each caller manages keys of its own.
OwnKeys == a1 :> {k1} @@ a2 :> {k2}

\* The callers share a key.
SharedKeys == a1 :> {k1} @@ a2 :> {k1}

\* The configuration lists k1 twice, with two endpoints, and k3, which no
\* caller touches.
Config == << [key |-> k1, endpoint |-> e1],
             [key |-> k3, endpoint |-> e1],
             [key |-> k1, endpoint |-> e2] >>

NoConfig == << >>
=============================================================================
