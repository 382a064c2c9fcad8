------------------------------ MODULE ByteQueue ------------------------------
(***************************************************************************)
(* What one direction of a byte stream promises: what goes in comes out    *)
(* once, in order and without a gap, and once the stream is broken the     *)
(* reader may miss an end of what is on its way, but never a part before   *)
(* something it gets.                                                      *)
(***************************************************************************)
EXTENDS Naturals, Sequences

CONSTANT Chunks     \* what can be put at once: sequences of bytes

VARIABLES
    queue,      \* what was put and not yet taken
    delivered,  \* everything that was taken
    intact      \* FALSE once the stream is broken: nothing can be put any more

bqVars == <<queue, delivered, intact>>

BQInit == queue = <<>> /\ delivered = <<>> /\ intact = TRUE

Put(data) ==
    /\ intact
    /\ queue' = queue \o data
    /\ UNCHANGED <<delivered, intact>>

Take(n) ==
    /\ n \in 1..Len(queue)     \* at least a byte
    /\ delivered' = delivered \o SubSeq(queue, 1, n)
    /\ queue' = SubSeq(queue, n + 1, Len(queue))
    /\ UNCHANGED intact

\* The stream breaks, or, broken already, loses more of its end.
Lose(n) ==
    /\ n \in 0..Len(queue)
    /\ intact' = FALSE
    /\ queue' = SubSeq(queue, 1, n)
    /\ UNCHANGED delivered

BQNext ==
    \/ \E data \in Chunks : Put(data)
    \/ \E n \in 0..Len(queue) : Take(n) \/ Lose(n)

BQSpec == BQInit /\ [][BQNext]_bqVars
=============================================================================
