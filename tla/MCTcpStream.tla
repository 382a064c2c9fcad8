----------------------------- MODULE MCTcpStream -----------------------------
(* An instance of TcpStream for model checking. *)
EXTENDS TcpStream

\* An empty chunk, one of one byte and one of two, which splits; their bytes
\* differ.
ThreeChunks == {<<>>, <<1>>, <<2, 3>>}
=============================================================================
