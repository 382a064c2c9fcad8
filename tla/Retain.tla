-------------------------------- MODULE Retain --------------------------------
(***************************************************************************)
(* What Vec::retain() and Iterator::filter() leave of a sequence: the      *)
(* entries that are in a set, in their order.  A recursive function and    *)
(* not SelectSeq, so that proofs can use it.                               *)
(***************************************************************************)
EXTENDS Naturals, Sequences

\* What is left of the first entries.
Keeping(s, S) ==
    LET kept[i \in 0..Len(s)] ==
            IF i = 0 THEN <<>>
            ELSE IF s[i] \in S THEN Append(kept[i - 1], s[i]) ELSE kept[i - 1]
    IN kept

Only(s, S) == Keeping(s, S)[Len(s)]
=============================================================================
