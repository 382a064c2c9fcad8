------------------------------ MODULE TcpStream ------------------------------
(***************************************************************************)
(* AsyncTcpStream of src/src/network/async_io.rs: a TCP stream with a      *)
(* buffer for each direction, after connect().  Its methods take &mut self, *)
(* so at most one call runs; a call that waits for the socket is a future, *)
(* which its caller may drop.  The other end is any program that reads and *)
(* writes a TCP stream.                                                    *)
(*                                                                         *)
(* What a call moves to or from the socket is any part that fits.  Each    *)
(* direction implements a ByteQueue.                                       *)
(***************************************************************************)
EXTENDS Naturals, Sequences

CONSTANTS
    Bytes,          \* the values of a byte
    Chunks,         \* what write_all() is given, and what the peer writes
    ReadSizes,      \* the lengths of the slices read() is given
    BufferSize,     \* the capacity of read_buffer
    PipeSize,       \* what the kernels hold of each direction
    MaxBytes        \* bound on what each end writes

ASSUME StreamAssumption ==
    /\ \A data \in Chunks : data \in Seq(Bytes)
    /\ ReadSizes \subseteq Nat
    /\ BufferSize \in Nat \ {0} /\ PipeSize \in Nat \ {0} /\ MaxBytes \in Nat

VARIABLES
    open,           \* the stream is not dropped
    call,           \* the call that waits: "none", "read" or "write"
    want,           \* the length of the slice of the read() that waits
    readBuffer,     \* read_buffer
    writeBuffer,    \* write_buffer
    outgoing,       \* what the kernels hold for the peer
    incoming,       \* and for the stream
    peerOpen,       \* the peer has not closed its end
    reset,          \* the connection is broken
    sent,           \* auxiliary: all the bytes given to write_all()
    confirmed,      \* auxiliary: how many of them its Ok(()) has covered
    received,       \* auxiliary: all the bytes read() has returned
    ended,          \* auxiliary: read() has met the end and returned 0
    peerSent,       \* auxiliary: all the bytes the peer has written
    peerReceived    \* auxiliary: and read

ownVars == <<open, call, want, readBuffer, writeBuffer>>
netVars == <<outgoing, incoming, peerOpen, reset>>
auxVars == <<sent, confirmed, received, ended>>
peerVars == <<peerSent, peerReceived>>
streamVars == <<ownVars, netVars, auxVars, peerVars>>

Least(m, n) == IF m < n THEN m ELSE n
FirstOf(s, n) == SubSeq(s, 1, n)
RestOf(s, n) == SubSeq(s, n + 1, Len(s))

\* connect() has succeeded.
StreamInit ==
    /\ open = TRUE /\ peerOpen = TRUE /\ reset = FALSE
    /\ call = "none" /\ want = 0
    /\ readBuffer = <<>> /\ writeBuffer = <<>>
    /\ outgoing = <<>> /\ incoming = <<>>
    /\ sent = <<>> /\ confirmed = 0
    /\ received = <<>> /\ ended = FALSE
    /\ peerSent = <<>> /\ peerReceived = <<>>

\* Mutated form, which the specification does not use: what does not fit the
\* slice is dropped.
ReturnsAndDrops(held, n) ==
    /\ received' = received \o FirstOf(held, Least(n, Len(held)))
    /\ readBuffer' = <<>>
    /\ call' = "none" /\ want' = 0

\* read() returns as many of the bytes of `held` as fit its slice of n.
Returns(held, n) ==
    /\ received' = received \o FirstOf(held, Least(n, Len(held)))
    /\ readBuffer' = RestOf(held, Least(n, Len(held)))
    /\ call' = "none" /\ want' = 0

-----------------------------------------------------------------------------
(* Mutated forms of definitions below, which the specification does not    *)
(* use.                                                                    *)

\* read() fetches more although it still holds bytes.
AwaitReadAlways(n) ==
    /\ open /\ call = "none"
    /\ call' = "read" /\ want' = n
    /\ UNCHANGED <<open, readBuffer, writeBuffer, netVars, auxVars, peerVars>>

\* One write() instead of a loop of them.
WritesOnce(n) ==
    /\ call = "write" /\ ~reset
    /\ n \in 1..Len(writeBuffer) /\ Len(outgoing) + n <= PipeSize
    /\ outgoing' = IF peerOpen THEN outgoing \o FirstOf(writeBuffer, n) ELSE <<>>
    /\ writeBuffer' = RestOf(writeBuffer, n)
    /\ call' = "none" /\ confirmed' = Len(sent)
    /\ UNCHANGED <<open, want, readBuffer, incoming, peerOpen, reset, sent, received,
                   ended, peerVars>>

\* The bytes a failed or short write leaves are put behind the next ones.
WritesBehind(data) ==
    /\ open /\ call = "none"
    /\ Len(sent) + Len(data) <= MaxBytes
    /\ sent' = sent \o data
    /\ writeBuffer' = data \o writeBuffer
    /\ IF writeBuffer = <<>> /\ data = <<>>
       THEN call' = "none" /\ confirmed' = Len(sent)
       ELSE call' = "write" /\ UNCHANGED confirmed
    /\ UNCHANGED <<open, want, readBuffer, netVars, received, ended, peerVars>>

\* A read that waits on a broken connection is answered 0.
ReadEndsOnReset ==
    /\ call = "read" /\ incoming = <<>> /\ (~peerOpen \/ reset)
    /\ call' = "none" /\ want' = 0 /\ ended' = TRUE
    /\ UNCHANGED <<open, readBuffer, writeBuffer, netVars, sent, confirmed, received, peerVars>>

\* write_all() repeats the write that failed.
WriteFailsRepeats ==
    /\ call = "write" /\ reset
    /\ UNCHANGED streamVars

-----------------------------------------------------------------------------
(* The stream.                                                             *)

\* read() of a slice of n bytes, with bytes in the buffer: answered at once.  A
\* slice of length 0 is answered 0 and takes nothing.
ReadBuffered(n) ==
    /\ open /\ call = "none" /\ readBuffer # <<>>
    /\ Returns(readBuffer, n)
    /\ UNCHANGED <<open, writeBuffer, netVars, sent, confirmed, ended, peerVars>>

\* With an empty buffer it waits for the socket.
AwaitRead(n) ==
    /\ open /\ call = "none" /\ readBuffer = <<>>
    /\ call' = "read" /\ want' = n
    /\ UNCHANGED <<open, readBuffer, writeBuffer, netVars, auxVars, peerVars>>

\* read_buf() takes n bytes.
ReadArrives(n) ==
    /\ call = "read"
    /\ n \in 1..Least(BufferSize - Len(readBuffer), Len(incoming))
    /\ Returns(readBuffer \o FirstOf(incoming, n), want)
    /\ incoming' = RestOf(incoming, n)
    /\ UNCHANGED <<open, writeBuffer, outgoing, peerOpen, reset, sent, confirmed, ended,
                   peerVars>>

\* read_buf() takes 0, the end of the stream: Ok(0).
ReadEnds ==
    /\ call = "read" /\ incoming = <<>> /\ ~peerOpen /\ ~reset
    /\ call' = "none" /\ want' = 0 /\ ended' = TRUE
    /\ UNCHANGED <<open, readBuffer, writeBuffer, netVars, sent, confirmed, received, peerVars>>

ReadFails ==
    /\ call = "read" /\ incoming = <<>> /\ reset
    /\ call' = "none" /\ want' = 0
    /\ UNCHANGED <<open, readBuffer, writeBuffer, netVars, auxVars, peerVars>>

\* write_all() puts the data behind whatever an earlier call has left.  With
\* nothing to write at all its loop is not entered.
WriteAll(data) ==
    /\ open /\ call = "none"
    /\ Len(sent) + Len(data) <= MaxBytes
    /\ sent' = sent \o data
    /\ writeBuffer' = writeBuffer \o data
    /\ IF writeBuffer = <<>> /\ data = <<>>
       THEN call' = "none" /\ confirmed' = Len(sent)
       ELSE call' = "write" /\ UNCHANGED confirmed
    /\ UNCHANGED <<open, want, readBuffer, netVars, received, ended, peerVars>>

\* write_buf() takes n bytes; the last of them make write_all() return.  What
\* is written to a peer that has closed its end goes nowhere.
Writes(n) ==
    /\ call = "write" /\ ~reset
    /\ n \in 1..Len(writeBuffer) /\ Len(outgoing) + n <= PipeSize
    /\ outgoing' = IF peerOpen THEN outgoing \o FirstOf(writeBuffer, n) ELSE <<>>
    /\ writeBuffer' = RestOf(writeBuffer, n)
    /\ IF n = Len(writeBuffer)
       THEN call' = "none" /\ confirmed' = Len(sent)
       ELSE UNCHANGED <<call, confirmed>>
    /\ UNCHANGED <<open, want, readBuffer, incoming, peerOpen, reset, sent, received,
                   ended, peerVars>>

\* write_all() fails and leaves in write_buffer what it has not written.
WriteFails ==
    /\ call = "write" /\ reset
    /\ call' = "none"
    /\ UNCHANGED <<open, want, readBuffer, writeBuffer, netVars, auxVars, peerVars>>

\* The caller drops the future it waits for, in a select or a timeout; the
\* buffers stay as they are.
Cancel ==
    /\ call # "none"
    /\ call' = "none" /\ want' = 0
    /\ UNCHANGED <<open, readBuffer, writeBuffer, netVars, auxVars, peerVars>>

\* The stream is dropped, with its buffers.
Drop ==
    /\ open /\ call = "none"
    /\ open' = FALSE /\ readBuffer' = <<>> /\ writeBuffer' = <<>> /\ incoming' = <<>>
    /\ UNCHANGED <<call, want, outgoing, peerOpen, reset, auxVars, peerVars>>

-----------------------------------------------------------------------------
(* The peer and the network.                                               *)

\* What it writes to a stream that is dropped goes nowhere.
PeerWrites(data) ==
    /\ peerOpen /\ open /\ ~reset
    /\ Len(peerSent) + Len(data) <= MaxBytes
    /\ Len(incoming) + Len(data) <= PipeSize
    /\ peerSent' = peerSent \o data
    /\ incoming' = incoming \o data
    /\ UNCHANGED <<ownVars, outgoing, peerOpen, reset, auxVars, peerReceived>>

PeerReads(n) ==
    /\ peerOpen /\ n \in 1..Len(outgoing)
    /\ peerReceived' = peerReceived \o FirstOf(outgoing, n)
    /\ outgoing' = RestOf(outgoing, n)
    /\ UNCHANGED <<ownVars, incoming, peerOpen, reset, auxVars, peerSent>>

PeerCloses ==
    /\ peerOpen
    /\ peerOpen' = FALSE /\ outgoing' = <<>>
    /\ UNCHANGED <<ownVars, incoming, reset, auxVars, peerVars>>

\* The connection breaks, also because an end was closed with bytes unread: of
\* each direction the kernels keep a part from the front, if any.
Break(m, n) ==
    /\ ~reset
    /\ m \in 0..Len(outgoing) /\ n \in 0..Len(incoming)
    /\ reset' = TRUE
    /\ outgoing' = FirstOf(outgoing, m) /\ incoming' = FirstOf(incoming, n)
    /\ UNCHANGED <<ownVars, peerOpen, auxVars, peerVars>>

-----------------------------------------------------------------------------
WriteGoesOn == WriteFails \/ \E n \in 1..Len(writeBuffer) : Writes(n)
ReadGoesOn == ReadEnds \/ ReadFails \/ \E n \in 1..Len(incoming) : ReadArrives(n)

StreamNext ==
    \/ \E n \in ReadSizes : ReadBuffered(n) \/ AwaitRead(n)
    \/ \E data \in Chunks : WriteAll(data) \/ PeerWrites(data)
    \/ WriteGoesOn \/ ReadGoesOn \/ Cancel \/ Drop
    \/ \E n \in 1..Len(outgoing) : PeerReads(n)
    \/ PeerCloses
    \/ \E m \in 0..Len(outgoing), n \in 0..Len(incoming) : Break(m, n)

StreamSpec == StreamInit /\ [][StreamNext]_streamVars

\* The runtime polls a call whose socket is ready; nobody has to close, drop,
\* read or write.
FairStreamSpec == StreamSpec /\ WF_streamVars(WriteGoesOn) /\ WF_streamVars(ReadGoesOn)

-----------------------------------------------------------------------------
\* The types; only a stream that is not dropped has a call, and read() goes to
\* the socket with an empty buffer only, so it holds back one read_buf() at most.
StreamTypeOK ==
    /\ open \in BOOLEAN /\ peerOpen \in BOOLEAN /\ reset \in BOOLEAN /\ ended \in BOOLEAN
    /\ call \in {"none", "read", "write"} /\ want \in Nat /\ confirmed \in Nat
    /\ readBuffer \in Seq(Bytes) /\ writeBuffer \in Seq(Bytes)
    /\ outgoing \in Seq(Bytes) /\ incoming \in Seq(Bytes)
    /\ sent \in Seq(Bytes) /\ received \in Seq(Bytes)
    /\ peerSent \in Seq(Bytes) /\ peerReceived \in Seq(Bytes)
    /\ call # "none" => open
    /\ call = "read" => readBuffer = <<>> /\ want \in ReadSizes

\* What is on its way to the peer, the buffered bytes included while the stream
\* can still write them, and what is on its way to the callers of read().
ToPeer ==
    IF ~peerOpen THEN <<>>
    ELSE IF open /\ ~reset THEN outgoing \o writeBuffer ELSE outgoing
ToCaller == readBuffer \o incoming
Connected == open /\ peerOpen /\ ~reset

Out == INSTANCE ByteQueue
    WITH queue <- ToPeer, delivered <- peerReceived, intact <- Connected
In == INSTANCE ByteQueue
    WITH queue <- ToCaller, delivered <- received, intact <- Connected

\* What write_all() is given reaches the peer once and in order, whatever
\* futures are dropped half done, and once the connection breaks the peer may
\* miss an end of it only.
WritesArriveInOrder == Out!BQSpec

\* So it does from the peer to the callers of read(), whatever slices they bring.
ReadsArriveInOrder == In!BQSpec

\* On a connection that did not break every byte that an Ok(()) of write_all()
\* covers is with the peer or with the kernels: dropping the stream loses none.
ConfirmedHandedOver ==
    peerOpen /\ ~reset => confirmed <= Len(peerReceived) + Len(outgoing)

\* Once the end of the stream has made read() return 0 the callers have all
\* that the peer has written: a break or an empty buffer is not taken for the
\* end.  (The 0 that a slice of length 0 is answered says nothing.)
EndMeansAll == ended => received = peerSent

\* write_all() returns, if the pipe to the peer always has room again.
WritesEnd ==
    []<>(Len(outgoing) < PipeSize) => (call = "write" ~> call # "write")

-----------------------------------------------------------------------------
(* Why it holds: the parts of the inductive invariant.                     *)

\* While the stream can still write, every byte given to write_all() is with
\* the peer, with the kernels or in write_buffer.
NoneLost == Connected =>
    Len(sent) = Len(peerReceived) + Len(outgoing) + Len(writeBuffer)

\* While it can still read, every byte of the peer is read or on its way.
NoneMissed == open /\ ~reset => peerSent = received \o ToCaller

\* After the end there is nothing on its way.
NothingAfterEnd == ended => ~peerOpen /\ readBuffer = <<>> /\ incoming = <<>>

StreamInv ==
    /\ StreamTypeOK /\ NoneLost /\ NoneMissed
    /\ ConfirmedHandedOver /\ NothingAfterEnd /\ EndMeansAll
=============================================================================
