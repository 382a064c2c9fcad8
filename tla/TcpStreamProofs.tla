--------------------------- MODULE TcpStreamProofs ---------------------------
(***************************************************************************)
(* Theorems about TcpStream, for all chunks, slices, capacities and bounds. *)
(* Each direction of the stream implements a ByteQueue.                    *)
(***************************************************************************)
EXTENDS TcpStream, SequenceTheorems, TLAPS

-----------------------------------------------------------------------------
(* Sequences cut in two.                                                   *)

LEMMA Cut ==
    ASSUME NEW S, NEW s \in Seq(S), NEW n \in 0..Len(s)
    PROVE  /\ FirstOf(s, n) \in Seq(S) /\ Len(FirstOf(s, n)) = n
           /\ RestOf(s, n) \in Seq(S) /\ Len(RestOf(s, n)) = Len(s) - n
           /\ \A i \in 1..n : FirstOf(s, n)[i] = s[i]
           /\ \A i \in 1..(Len(s) - n) : RestOf(s, n)[i] = s[n + i]
<1>1. Len(s) \in Nat /\ \A i \in 1..Len(s) : s[i] \in S
    BY LenProperties, ElementOfSeq
<1>2. /\ FirstOf(s, n) \in Seq(S) /\ Len(FirstOf(s, n)) = n
      /\ \A i \in 1..n : FirstOf(s, n)[i] = s[i]
    <2>1. \A i \in 1..n : s[i] \in S
        BY <1>1
    <2>2. /\ SubSeq(s, 1, n) \in Seq(S)
          /\ Len(SubSeq(s, 1, n)) = IF 1 <= n THEN n - 1 + 1 ELSE 0
          /\ \A i \in 1..(n - 1 + 1) : SubSeq(s, 1, n)[i] = s[1 + i - 1]
        BY <1>1, <2>1, SubSeqProperties
    <2> QED
        BY <1>1, <2>2 DEF FirstOf
<1>3. /\ RestOf(s, n) \in Seq(S) /\ Len(RestOf(s, n)) = Len(s) - n
      /\ \A i \in 1..(Len(s) - n) : RestOf(s, n)[i] = s[n + i]
    <2>1. \A i \in (n + 1)..Len(s) : s[i] \in S
        BY <1>1
    <2>2. /\ SubSeq(s, n + 1, Len(s)) \in Seq(S)
          /\ Len(SubSeq(s, n + 1, Len(s))) = IF n + 1 <= Len(s) THEN Len(s) - (n + 1) + 1 ELSE 0
          /\ \A i \in 1..(Len(s) - (n + 1) + 1) :
                SubSeq(s, n + 1, Len(s))[i] = s[n + 1 + i - 1]
        BY <1>1, <2>1, SubSeqProperties
    <2> QED
        BY <1>1, <2>2 DEF RestOf
<1> QED
    BY <1>2, <1>3

\* How to recognise a sequence as two joined.
LEMMA Joined ==
    ASSUME NEW S, NEW s \in Seq(S), NEW t \in Seq(S), NEW u \in Seq(S),
           Len(u) = Len(s) + Len(t),
           \A i \in 1..Len(s) : u[i] = s[i],
           \A i \in 1..Len(t) : u[Len(s) + i] = t[i]
    PROVE  u = s \o t
<1>1. Len(s) \in Nat /\ Len(t) \in Nat
    BY LenProperties
<1>2. /\ s \o t \in Seq(S) /\ Len(s \o t) = Len(s) + Len(t)
      /\ \A i \in 1..(Len(s) + Len(t)) :
            (s \o t)[i] = IF i <= Len(s) THEN s[i] ELSE t[i - Len(s)]
    BY ConcatProperties
<1>3. ASSUME NEW i \in 1..Len(u) PROVE u[i] = (s \o t)[i]
    <2>1. CASE i <= Len(s)
        BY <2>1, <1>1, <1>2
    <2>2. CASE i > Len(s)
        <3>1. i - Len(s) \in 1..Len(t) /\ Len(s) + (i - Len(s)) = i
            BY <2>2, <1>1
        <3>2. u[i] = t[i - Len(s)]
            BY <3>1
        <3> QED
            BY <2>2, <3>2, <1>1, <1>2
    <2> QED
        BY <2>1, <2>2, <1>1
<1> QED
    BY <1>2, <1>3, SeqEqual

\* What a cut leaves on the left, and then what it leaves on the right.
LEMMA CutAndJoined ==
    ASSUME NEW S, NEW s \in Seq(S), NEW n \in 0..Len(s)
    PROVE  s = FirstOf(s, n) \o RestOf(s, n)
<1>1. /\ FirstOf(s, n) \in Seq(S) /\ Len(FirstOf(s, n)) = n
      /\ RestOf(s, n) \in Seq(S) /\ Len(RestOf(s, n)) = Len(s) - n
      /\ \A i \in 1..n : s[i] = FirstOf(s, n)[i]
      /\ \A i \in 1..(Len(s) - n) : s[n + i] = RestOf(s, n)[i]
    BY Cut
<1>2. Len(s) = Len(FirstOf(s, n)) + Len(RestOf(s, n))
    <2>1. Len(s) \in Nat
        BY LenProperties
    <2> QED
        BY <1>1, <2>1
<1>3. /\ \A i \in 1..Len(FirstOf(s, n)) : s[i] = FirstOf(s, n)[i]
      /\ \A i \in 1..Len(RestOf(s, n)) : s[Len(FirstOf(s, n)) + i] = RestOf(s, n)[i]
    BY <1>1
<1> HIDE DEF FirstOf, RestOf
<1> QED
    BY <1>1, <1>2, <1>3, Joined

\* A cut in the left one of two sequences joined.
LEMMA CutOnTheLeft ==
    ASSUME NEW S, NEW s \in Seq(S), NEW t \in Seq(S), NEW n \in 0..Len(s)
    PROVE  /\ n \in 0..Len(s \o t)
           /\ FirstOf(s \o t, n) = FirstOf(s, n)
           /\ RestOf(s \o t, n) = RestOf(s, n) \o t
<1>1. /\ Len(s) \in Nat /\ Len(t) \in Nat
      /\ s \o t \in Seq(S) /\ Len(s \o t) = Len(s) + Len(t)
      /\ \A i \in 1..(Len(s) + Len(t)) :
            (s \o t)[i] = IF i <= Len(s) THEN s[i] ELSE t[i - Len(s)]
    BY LenProperties, ConcatProperties
<1>2. n \in 0..Len(s \o t)
    BY <1>1
<1>3. FirstOf(s \o t, n) = FirstOf(s, n)
    <2>1. /\ FirstOf(s \o t, n) \in Seq(S) /\ Len(FirstOf(s \o t, n)) = n
          /\ FirstOf(s, n) \in Seq(S) /\ Len(FirstOf(s, n)) = n
          /\ \A i \in 1..n : FirstOf(s \o t, n)[i] = (s \o t)[i] /\ FirstOf(s, n)[i] = s[i]
        BY <1>1, <1>2, Cut
    <2>2. \A i \in 1..n : (s \o t)[i] = s[i]
        BY <1>1
    <2> QED
        BY <2>1, <2>2, SeqEqual
<1>4. RestOf(s \o t, n) = RestOf(s, n) \o t
    <2>1. /\ RestOf(s \o t, n) \in Seq(S) /\ Len(RestOf(s \o t, n)) = Len(s \o t) - n
          /\ \A i \in 1..(Len(s \o t) - n) : RestOf(s \o t, n)[i] = (s \o t)[n + i]
        BY <1>1, <1>2, Cut
    <2>2. /\ RestOf(s, n) \in Seq(S) /\ Len(RestOf(s, n)) = Len(s) - n
          /\ \A i \in 1..(Len(s) - n) : RestOf(s, n)[i] = s[n + i]
        BY Cut
    <2>3. Len(RestOf(s \o t, n)) = Len(RestOf(s, n)) + Len(t)
        BY <1>1, <2>1, <2>2
    <2>4. \A i \in 1..Len(RestOf(s, n)) : RestOf(s \o t, n)[i] = RestOf(s, n)[i]
        <3> SUFFICES ASSUME NEW i \in 1..(Len(s) - n)
                     PROVE  RestOf(s \o t, n)[i] = RestOf(s, n)[i]
            BY <2>2
        <3>1. n + i \in 1..Len(s) /\ i \in 1..(Len(s \o t) - n)
            BY <1>1
        <3> QED
            BY <3>1, <1>1, <2>1, <2>2
    <2>5. \A i \in 1..Len(t) : RestOf(s \o t, n)[Len(RestOf(s, n)) + i] = t[i]
        <3> SUFFICES ASSUME NEW i \in 1..Len(t)
                     PROVE  RestOf(s \o t, n)[(Len(s) - n) + i] = t[i]
            BY <2>2
        <3>1. /\ (Len(s) - n) + i \in 1..(Len(s \o t) - n)
              /\ n + ((Len(s) - n) + i) = Len(s) + i
              /\ Len(s) + i \in 1..(Len(s) + Len(t)) /\ ~(Len(s) + i <= Len(s))
              /\ (Len(s) + i) - Len(s) = i
            BY <1>1
        <3>2. RestOf(s \o t, n)[(Len(s) - n) + i] = (s \o t)[Len(s) + i]
            BY <3>1, <2>1
        <3> QED
            BY <3>1, <3>2, <1>1
    <2> QED
        BY <2>1, <2>2, <2>3, <2>4, <2>5, Joined
<1> QED
    BY <1>2, <1>3, <1>4

\* The first ones of two sequences joined, past the end of the left one.
LEMMA CutOnTheRight ==
    ASSUME NEW S, NEW s \in Seq(S), NEW t \in Seq(S), NEW n \in 0..Len(t)
    PROVE  /\ Len(s) + n \in 0..Len(s \o t)
           /\ FirstOf(s \o t, Len(s) + n) = s \o FirstOf(t, n)
<1>1. /\ Len(s) \in Nat /\ Len(t) \in Nat
      /\ s \o t \in Seq(S) /\ Len(s \o t) = Len(s) + Len(t)
      /\ \A i \in 1..(Len(s) + Len(t)) :
            (s \o t)[i] = IF i <= Len(s) THEN s[i] ELSE t[i - Len(s)]
    BY LenProperties, ConcatProperties
<1>2. Len(s) + n \in Nat /\ Len(s) + n \in 0..Len(s \o t)
    BY <1>1
<1>3. /\ FirstOf(s \o t, Len(s) + n) \in Seq(S)
      /\ Len(FirstOf(s \o t, Len(s) + n)) = Len(s) + n
      /\ \A i \in 1..(Len(s) + n) : FirstOf(s \o t, Len(s) + n)[i] = (s \o t)[i]
    BY <1>1, <1>2, Cut
<1>4. /\ FirstOf(t, n) \in Seq(S) /\ Len(FirstOf(t, n)) = n
      /\ \A i \in 1..n : FirstOf(t, n)[i] = t[i]
    BY Cut
<1>5. \A i \in 1..Len(s) : FirstOf(s \o t, Len(s) + n)[i] = s[i]
    BY <1>1, <1>3
<1>6. \A i \in 1..Len(FirstOf(t, n)) :
          FirstOf(s \o t, Len(s) + n)[Len(s) + i] = FirstOf(t, n)[i]
    <2> SUFFICES ASSUME NEW i \in 1..n
                 PROVE  FirstOf(s \o t, Len(s) + n)[Len(s) + i] = FirstOf(t, n)[i]
        BY <1>4
    <2>1. /\ Len(s) + i \in 1..(Len(s) + n) /\ Len(s) + i \in 1..(Len(s) + Len(t))
          /\ ~(Len(s) + i <= Len(s)) /\ (Len(s) + i) - Len(s) = i
        BY <1>1
    <2>2. FirstOf(s \o t, Len(s) + n)[Len(s) + i] = (s \o t)[Len(s) + i]
        BY <2>1, <1>3
    <2> QED
        BY <2>1, <2>2, <1>1, <1>4
<1>7. FirstOf(s \o t, Len(s) + n) = s \o FirstOf(t, n)
    BY <1>3, <1>4, <1>5, <1>6, Joined
<1> QED
    BY <1>2, <1>7

\* What read() takes from n bytes held for a slice of m.
LEMMA LeastBounds ==
    ASSUME NEW m \in Nat, NEW n \in Nat
    PROVE  Least(m, n) \in 0..n
BY DEF Least

LEMMA Reassociate ==
    \A s, t, u \in Seq(Bytes) : (s \o t) \o u = s \o (t \o u)
BY ConcatAssociative

LEMMA SomethingHeld ==
    ASSUME NEW S, NEW s \in Seq(S)
    PROVE  Len(s) \in Nat /\ (s = <<>> <=> Len(s) = 0)
BY EmptySeq, LenProperties

-----------------------------------------------------------------------------
(* Type correctness.                                                       *)

LEMMA ReturnsTypes ==
    ASSUME StreamTypeOK, NEW held \in Seq(Bytes), NEW n \in ReadSizes, Returns(held, n)
    PROVE  /\ received' \in Seq(Bytes) /\ readBuffer' \in Seq(Bytes)
           /\ call' = "none" /\ want' = 0
<1>1. n \in Nat /\ Len(held) \in Nat
    BY LenProperties, StreamAssumption
<1>2. Least(n, Len(held)) \in 0..Len(held)
    BY <1>1, LeastBounds
<1>3. /\ FirstOf(held, Least(n, Len(held))) \in Seq(Bytes)
      /\ RestOf(held, Least(n, Len(held))) \in Seq(Bytes)
    BY <1>2, Cut
<1> QED
    BY <1>3, ConcatProperties DEF Returns, StreamTypeOK

LEMMA StreamTypeNext ==
    StreamTypeOK /\ [StreamNext]_streamVars => StreamTypeOK'
<1> SUFFICES ASSUME StreamTypeOK, [StreamNext]_streamVars PROVE StreamTypeOK'
    OBVIOUS
<1> USE DEF ownVars, netVars, auxVars, peerVars
<1>0. /\ Len(readBuffer) \in Nat /\ Len(writeBuffer) \in Nat /\ Len(outgoing) \in Nat
      /\ Len(incoming) \in Nat /\ Len(sent) \in Nat
      /\ \A data \in Chunks : data \in Seq(Bytes)
      /\ ReadSizes \subseteq Nat /\ BufferSize \in Nat
    BY LenProperties, StreamAssumption DEF StreamTypeOK
<1>1. ASSUME NEW n \in ReadSizes, ReadBuffered(n) PROVE StreamTypeOK'
    <2>1. /\ received' \in Seq(Bytes) /\ readBuffer' \in Seq(Bytes)
          /\ call' = "none" /\ want' = 0
        BY <1>1, ReturnsTypes DEF StreamTypeOK, ReadBuffered
    <2> QED
        BY <1>1, <2>1 DEF StreamTypeOK, ReadBuffered
<1>2. ASSUME NEW n \in ReadSizes, AwaitRead(n) PROVE StreamTypeOK'
    BY <1>0, <1>2 DEF StreamTypeOK, AwaitRead
<1>3. ASSUME NEW n \in 1..Len(incoming), ReadArrives(n) PROVE StreamTypeOK'
    <2>1. want \in ReadSizes /\ n \in 0..Len(incoming)
        BY <1>0, <1>3 DEF StreamTypeOK, ReadArrives
    <2>2. /\ FirstOf(incoming, n) \in Seq(Bytes) /\ RestOf(incoming, n) \in Seq(Bytes)
        BY <2>1, Cut DEF StreamTypeOK
    <2>3. readBuffer \o FirstOf(incoming, n) \in Seq(Bytes)
        BY <2>2, ConcatProperties DEF StreamTypeOK
    <2>4. /\ received' \in Seq(Bytes) /\ readBuffer' \in Seq(Bytes)
          /\ call' = "none" /\ want' = 0
        BY <1>3, <2>1, <2>3, ReturnsTypes DEF ReadArrives
    <2> QED
        BY <1>3, <2>2, <2>4 DEF StreamTypeOK, ReadArrives
<1>4. CASE ReadEnds
    BY <1>4 DEF StreamTypeOK, ReadEnds
<1>5. CASE ReadFails
    BY <1>5 DEF StreamTypeOK, ReadFails
<1>6. ASSUME NEW data \in Chunks, WriteAll(data) PROVE StreamTypeOK'
    <2>1. sent \o data \in Seq(Bytes) /\ writeBuffer \o data \in Seq(Bytes)
        BY <1>0, ConcatProperties DEF StreamTypeOK
    <2> QED
        BY <1>6, <2>1 DEF StreamTypeOK, WriteAll
<1>7. ASSUME NEW n \in 1..Len(writeBuffer), Writes(n) PROVE StreamTypeOK'
    <2>1. FirstOf(writeBuffer, n) \in Seq(Bytes) /\ RestOf(writeBuffer, n) \in Seq(Bytes)
        <3>1. n \in 0..Len(writeBuffer)
            BY <1>0
        <3> QED
            BY <3>1, Cut DEF StreamTypeOK
    <2>2. outgoing \o FirstOf(writeBuffer, n) \in Seq(Bytes) /\ <<>> \in Seq(Bytes)
        BY <2>1, ConcatProperties, EmptySeq DEF StreamTypeOK
    <2> QED
        BY <1>0, <1>7, <2>1, <2>2 DEF StreamTypeOK, Writes
<1>8. CASE WriteFails
    BY <1>8 DEF StreamTypeOK, WriteFails
<1>9. CASE Cancel
    BY <1>9 DEF StreamTypeOK, Cancel
<1>10. CASE Drop
    BY <1>10, EmptySeq DEF StreamTypeOK, Drop
<1>11. ASSUME NEW data \in Chunks, PeerWrites(data) PROVE StreamTypeOK'
    <2>1. peerSent \o data \in Seq(Bytes) /\ incoming \o data \in Seq(Bytes)
        BY <1>0, ConcatProperties DEF StreamTypeOK
    <2> QED
        BY <1>11, <2>1 DEF StreamTypeOK, PeerWrites
<1>12. ASSUME NEW n \in 1..Len(outgoing), PeerReads(n) PROVE StreamTypeOK'
    <2>1. FirstOf(outgoing, n) \in Seq(Bytes) /\ RestOf(outgoing, n) \in Seq(Bytes)
        <3>1. n \in 0..Len(outgoing)
            BY <1>0
        <3> QED
            BY <3>1, Cut DEF StreamTypeOK
    <2>2. peerReceived \o FirstOf(outgoing, n) \in Seq(Bytes)
        BY <2>1, ConcatProperties DEF StreamTypeOK
    <2> QED
        BY <1>12, <2>1, <2>2 DEF StreamTypeOK, PeerReads
<1>13. CASE PeerCloses
    BY <1>13, EmptySeq DEF StreamTypeOK, PeerCloses
<1>14. ASSUME NEW m \in 0..Len(outgoing), NEW n \in 0..Len(incoming), Break(m, n)
       PROVE  StreamTypeOK'
    <2>1. FirstOf(outgoing, m) \in Seq(Bytes) /\ FirstOf(incoming, n) \in Seq(Bytes)
        BY Cut DEF StreamTypeOK
    <2> QED
        BY <1>14, <2>1 DEF StreamTypeOK, Break
<1>15. CASE UNCHANGED streamVars
    BY <1>15 DEF StreamTypeOK, streamVars
<1> QED
    BY <1>1, <1>2, <1>3, <1>4, <1>5, <1>6, <1>7, <1>8, <1>9, <1>10, <1>11, <1>12, <1>13,
       <1>14, <1>15 DEF StreamNext, WriteGoesOn, ReadGoesOn

LEMMA StreamInitTypes == StreamInit => StreamTypeOK
<1> SUFFICES ASSUME StreamInit PROVE StreamTypeOK
    OBVIOUS
<1>1. <<>> \in Seq(Bytes)
    BY EmptySeq
<1>2. open \in BOOLEAN /\ peerOpen \in BOOLEAN /\ reset \in BOOLEAN /\ ended \in BOOLEAN
    BY DEF StreamInit
<1>3. call = "none" /\ want = 0 /\ confirmed = 0
    BY DEF StreamInit
<1> QED
    BY <1>1, <1>2, <1>3 DEF StreamInit, StreamTypeOK

\* The variables keep their types, and a read() that waits has an empty buffer:
\* for all capacities and chunks (AsyncTcpStream::read, write_all).
THEOREM StreamTypeCorrect == StreamSpec => []StreamTypeOK
<1> QED
    BY StreamInitTypes, StreamTypeNext, PTL DEF StreamSpec

-----------------------------------------------------------------------------
(* What the callers of read() are given.                                   *)

\* read() takes k bytes from the front of what is on its way: of what it holds,
\* or of what it has just fetched.  A slice of length 0 takes none.
LEMMA ReturnsFront ==
    ASSUME StreamTypeOK, NEW held \in Seq(Bytes), NEW rest \in Seq(Bytes), NEW n \in ReadSizes,
           Returns(held, n), incoming' = rest, held \o rest = ToCaller
    PROVE  \E k \in 0..Len(ToCaller) :
               /\ received' = received \o FirstOf(ToCaller, k)
               /\ ToCaller' = RestOf(ToCaller, k)
<1> DEFINE k == Least(n, Len(held))
<1>1. n \in Nat /\ Len(held) \in Nat
    BY SomethingHeld, StreamAssumption
<1>2. k \in 0..Len(held)
    BY <1>1, LeastBounds
<1> HIDE DEF k
<1>3. /\ k \in 0..Len(ToCaller)
      /\ FirstOf(ToCaller, k) = FirstOf(held, k)
      /\ RestOf(ToCaller, k) = RestOf(held, k) \o rest
    BY <1>2, CutOnTheLeft
<1>4. received' = received \o FirstOf(held, k) /\ readBuffer' = RestOf(held, k)
    BY DEF Returns, k
<1>5. ToCaller' = RestOf(held, k) \o rest
    BY <1>4 DEF ToCaller
<1> QED
    BY <1>3, <1>4, <1>5

\* Each of the two ways read() returns bytes.
LEMMA ReadTakes ==
    ASSUME StreamTypeOK, NEW n \in Nat,
           \/ n \in ReadSizes /\ ReadBuffered(n)
           \/ n \in 1..Len(incoming) /\ ReadArrives(n)
    PROVE  \E k \in 0..Len(ToCaller) :
               /\ received' = received \o FirstOf(ToCaller, k)
               /\ ToCaller' = RestOf(ToCaller, k)
<1>1. CASE n \in ReadSizes /\ ReadBuffered(n)
    BY <1>1, ReturnsFront DEF ReadBuffered, netVars, StreamTypeOK, ToCaller
<1>2. CASE n \in 1..Len(incoming) /\ ReadArrives(n)
    <2>1. readBuffer = <<>> /\ want \in ReadSizes /\ incoming \in Seq(Bytes)
        BY <1>2 DEF ReadArrives, StreamTypeOK
    <2>2. n \in 0..Len(incoming)
        BY <1>2
    <2>3. /\ FirstOf(incoming, n) \in Seq(Bytes) /\ Len(FirstOf(incoming, n)) = n
          /\ RestOf(incoming, n) \in Seq(Bytes)
        BY <2>1, <2>2, Cut
    <2>4. readBuffer \o FirstOf(incoming, n) = FirstOf(incoming, n)
        BY <2>1, <2>3, ConcatEmptySeq
    <2>5. FirstOf(incoming, n) \o RestOf(incoming, n) = ToCaller
        <3>1. incoming = FirstOf(incoming, n) \o RestOf(incoming, n)
            BY <2>1, <2>2, CutAndJoined
        <3>2. ToCaller = incoming
            BY <2>1, ConcatEmptySeq DEF ToCaller
        <3> QED
            BY <3>1, <3>2
    <2>6. Returns(FirstOf(incoming, n), want) /\ incoming' = RestOf(incoming, n)
        BY <1>2, <2>4 DEF ReadArrives
    <2> QED
        BY <2>1, <2>3, <2>5, <2>6, ReturnsFront
<1> QED
    BY <1>1, <1>2

\* What a break leaves of the way to the callers is a part from its front.
LEMMA BreakKeepsFront ==
    ASSUME StreamTypeOK, NEW n \in 0..Len(incoming),
           readBuffer' = readBuffer, incoming' = FirstOf(incoming, n)
    PROVE  \E k \in 0..Len(ToCaller) : ToCaller' = FirstOf(ToCaller, k)
<1>1. /\ Len(readBuffer) + n \in 0..Len(ToCaller)
      /\ FirstOf(ToCaller, Len(readBuffer) + n) = readBuffer \o FirstOf(incoming, n)
    BY CutOnTheRight DEF StreamTypeOK, ToCaller
<1> QED
    BY <1>1 DEF ToCaller

\* A whole sequence, and none of it, are parts from the front.
LEMMA WholeAndNone ==
    ASSUME NEW S, NEW s \in Seq(S)
    PROVE  /\ Len(s) \in 0..Len(s) /\ FirstOf(s, Len(s)) = s
           /\ 0 \in 0..Len(s) /\ FirstOf(s, 0) = <<>>
<1>1. Len(s) \in Nat
    BY LenProperties
<1>2. SubSeq(s, 1, Len(s)) = s
    BY SubSeqFull
<1>3. SubSeq(s, 1, 0) = <<>>
    BY SubSeqEmpty
<1> QED
    BY <1>1, <1>2, <1>3 DEF FirstOf

\* Taking none of t and joining it to s changes neither.
LEMMA NoneTaken ==
    ASSUME NEW S, NEW s \in Seq(S), NEW t \in Seq(S)
    PROVE  s \o FirstOf(t, 0) = s /\ RestOf(t, 0) = t
<1>1. FirstOf(t, 0) = <<>> /\ 0 \in 0..Len(t)
    BY WholeAndNone
<1>2. s \o <<>> = s
    BY ConcatEmptySeq
<1>3. t = FirstOf(t, 0) \o RestOf(t, 0) /\ RestOf(t, 0) \in Seq(S)
    BY <1>1, Cut, CutAndJoined
<1>4. <<>> \o RestOf(t, 0) = RestOf(t, 0)
    BY <1>3, ConcatEmptySeq
<1> QED
    BY <1>1, <1>2, <1>3, <1>4

-----------------------------------------------------------------------------
(* The way from the peer to the callers implements a ByteQueue.            *)

LEMMA InStep ==
    StreamTypeOK /\ [StreamNext]_streamVars => [In!BQNext]_(In!bqVars)
<1> SUFFICES ASSUME StreamTypeOK, [StreamNext]_streamVars
             PROVE  In!BQNext \/ UNCHANGED <<ToCaller, received, Connected>>
    BY DEF In!bqVars
<1> USE DEF ownVars, netVars, auxVars, peerVars
<1>0. /\ ToCaller \in Seq(Bytes) /\ Len(ToCaller) \in Nat
      /\ Len(readBuffer) \in Nat /\ Len(incoming) \in Nat
      /\ Len(outgoing) \in Nat /\ Len(writeBuffer) \in Nat
    <2>1. ToCaller \in Seq(Bytes)
        BY ConcatProperties DEF StreamTypeOK, ToCaller
    <2> QED
        BY <2>1, LenProperties DEF StreamTypeOK
<1>1. ASSUME NEW n \in Nat,
             \/ n \in ReadSizes /\ ReadBuffered(n)
             \/ n \in 1..Len(incoming) /\ ReadArrives(n)
      PROVE  In!BQNext \/ UNCHANGED <<ToCaller, received, Connected>>
    <2>1. PICK k \in 0..Len(ToCaller) : /\ received' = received \o FirstOf(ToCaller, k)
                                        /\ ToCaller' = RestOf(ToCaller, k)
        BY <1>1, ReadTakes
    <2>2. Connected' = Connected
        BY <1>1 DEF ReadBuffered, ReadArrives, Connected
    <2>3. CASE k = 0
        <3>1. received' = received /\ ToCaller' = ToCaller
            BY <1>0, <2>1, <2>3, NoneTaken DEF StreamTypeOK
        <3> QED
            BY <2>2, <3>1
    <2>4. CASE k # 0
        <3>1. In!Take(k)
            BY <1>0, <2>1, <2>2, <2>4 DEF In!Take, FirstOf, RestOf
        <3> QED
            BY <2>1, <3>1 DEF In!BQNext
    <2> QED
        BY <2>3, <2>4
<1>2. ASSUME NEW data \in Chunks, PeerWrites(data) PROVE In!BQNext
    <2>1. ToCaller' = ToCaller \o data
        <3>1. data \in Seq(Bytes)
            BY StreamAssumption
        <3>2. (readBuffer \o incoming) \o data = readBuffer \o (incoming \o data)
            <4>1. readBuffer \in Seq(Bytes) /\ incoming \in Seq(Bytes)
                BY DEF StreamTypeOK
            <4> QED
                BY <3>1, <4>1, Reassociate, Zenon
        <3>3. readBuffer' = readBuffer /\ incoming' = incoming \o data
            BY <1>2 DEF PeerWrites
        <3> QED
            BY <3>2, <3>3 DEF ToCaller
    <2>2. Connected /\ Connected' = Connected /\ received' = received
        BY <1>2 DEF PeerWrites, Connected
    <2>3. In!Put(data)
        BY <2>1, <2>2 DEF In!Put
    <2> QED
        BY <2>3 DEF In!BQNext
<1>3. ASSUME Drop \/ PeerCloses \/ \E m \in 0..Len(outgoing), n \in 0..Len(incoming) : Break(m, n)
      PROVE  In!BQNext
    <2>1. \E k \in 0..Len(ToCaller) : ToCaller' = FirstOf(ToCaller, k)
        <3>1. CASE Drop
            <4>1. <<>> \o <<>> = <<>>
                BY EmptySeq, ConcatEmptySeq
            <4>2. ToCaller' = <<>>
                BY <3>1, <4>1 DEF Drop, ToCaller
            <4> QED
                BY <1>0, <4>2, WholeAndNone
        <3>2. CASE PeerCloses
            BY <1>0, <3>2, WholeAndNone DEF PeerCloses, ToCaller
        <3>3. CASE \E m \in 0..Len(outgoing), n \in 0..Len(incoming) : Break(m, n)
            BY <3>3, BreakKeepsFront DEF Break
        <3> QED
            BY <1>3, <3>1, <3>2, <3>3
    <2>2. PICK k \in 0..Len(ToCaller) : ToCaller' = FirstOf(ToCaller, k)
        BY <2>1
    <2>3. Connected' = FALSE /\ received' = received
        BY <1>3 DEF Drop, PeerCloses, Break, Connected
    <2>4. In!Lose(k)
        BY <2>2, <2>3 DEF In!Lose, FirstOf
    <2> QED
        BY <2>4 DEF In!BQNext
<1>4. ASSUME \/ \E n \in ReadSizes : AwaitRead(n)
             \/ \E data \in Chunks : WriteAll(data)
             \/ \E n \in 1..Len(writeBuffer) : Writes(n)
             \/ \E n \in 1..Len(outgoing) : PeerReads(n)
             \/ WriteFails \/ ReadEnds \/ ReadFails \/ Cancel \/ UNCHANGED streamVars
      PROVE  UNCHANGED <<ToCaller, received, Connected>>
    BY <1>4 DEF AwaitRead, WriteAll, Writes, PeerReads, WriteFails, ReadEnds, ReadFails,
                Cancel, streamVars, ToCaller, Connected
<1>5. ReadSizes \subseteq Nat
    BY StreamAssumption
<1> QED
    BY <1>0, <1>1, <1>2, <1>3, <1>4, <1>5 DEF StreamNext, WriteGoesOn, ReadGoesOn

\* The bytes of the peer reach the callers of read() once and in order, for all
\* slices, buffers and breaks (AsyncTcpStream::read).
THEOREM ReadsAreOrdered == StreamSpec => ReadsArriveInOrder
<1>1. StreamInit => In!BQInit
    <2>1. <<>> \o <<>> = <<>>
        BY EmptySeq, ConcatEmptySeq
    <2> QED
        BY <2>1 DEF StreamInit, In!BQInit, ToCaller, Connected
<1> QED
    BY <1>1, InStep, StreamTypeCorrect, PTL DEF StreamSpec, ReadsArriveInOrder, In!BQSpec

-----------------------------------------------------------------------------
(* So does the way from write_all() to the peer.                           *)

LEMMA OutStep ==
    StreamTypeOK /\ [StreamNext]_streamVars => [Out!BQNext]_(Out!bqVars)
<1> SUFFICES ASSUME StreamTypeOK, [StreamNext]_streamVars
             PROVE  Out!BQNext \/ UNCHANGED <<ToPeer, peerReceived, Connected>>
    BY DEF Out!bqVars
<1> USE DEF ownVars, netVars, auxVars, peerVars
<1>0. /\ outgoing \in Seq(Bytes) /\ writeBuffer \in Seq(Bytes)
      /\ outgoing \o writeBuffer \in Seq(Bytes) /\ <<>> \in Seq(Bytes)
      /\ Len(outgoing) \in Nat /\ Len(writeBuffer) \in Nat
      /\ ToPeer \in Seq(Bytes) /\ Len(ToPeer) \in Nat
    <2>1. /\ outgoing \in Seq(Bytes) /\ writeBuffer \in Seq(Bytes)
          /\ outgoing \o writeBuffer \in Seq(Bytes) /\ <<>> \in Seq(Bytes)
        BY ConcatProperties, EmptySeq DEF StreamTypeOK
    <2>2. ToPeer \in Seq(Bytes)
        BY <2>1 DEF ToPeer
    <2> QED
        BY <2>1, <2>2, LenProperties
<1>1. ASSUME NEW data \in Chunks, WriteAll(data)
      PROVE  Out!BQNext \/ UNCHANGED <<ToPeer, peerReceived, Connected>>
    <2>1. outgoing \o (writeBuffer \o data) = (outgoing \o writeBuffer) \o data
        <3>1. data \in Seq(Bytes)
            BY StreamAssumption
        <3> QED
            BY <1>0, <3>1, Reassociate, ZenonT(30)
    <2>2. CASE Connected
        <3>1. Out!Put(data)
            BY <1>1, <2>1, <2>2 DEF Out!Put, WriteAll, ToPeer, Connected
        <3> QED
            BY <3>1 DEF Out!BQNext
    <2>3. CASE ~Connected
        BY <1>1, <2>3 DEF WriteAll, ToPeer, Connected
    <2> QED
        BY <2>2, <2>3
<1>2. ASSUME NEW n \in 1..Len(writeBuffer), Writes(n)
      PROVE  UNCHANGED <<ToPeer, peerReceived, Connected>>
    <2>1. n \in 0..Len(writeBuffer)
        BY <1>0
    <2>2. /\ FirstOf(writeBuffer, n) \in Seq(Bytes) /\ RestOf(writeBuffer, n) \in Seq(Bytes)
          /\ writeBuffer = FirstOf(writeBuffer, n) \o RestOf(writeBuffer, n)
        BY <1>0, <2>1, Cut, CutAndJoined
    <2>3. (outgoing \o FirstOf(writeBuffer, n)) \o RestOf(writeBuffer, n)
             = outgoing \o writeBuffer
        <3>1. (outgoing \o FirstOf(writeBuffer, n)) \o RestOf(writeBuffer, n)
                 = outgoing \o (FirstOf(writeBuffer, n) \o RestOf(writeBuffer, n))
            BY <1>0, <2>2, Reassociate, ZenonT(30)
        <3> QED
            BY <2>2, <3>1, Zenon
    <2>4. open' = open /\ peerOpen' = peerOpen /\ reset' = reset /\ peerReceived' = peerReceived
        BY <1>2 DEF Writes
    <2>5. ToPeer' = ToPeer
        <3>1. CASE peerOpen
            <4>1. /\ ~reset /\ outgoing' = outgoing \o FirstOf(writeBuffer, n)
                  /\ writeBuffer' = RestOf(writeBuffer, n)
                BY <1>2, <3>1 DEF Writes
            <4>2. CASE open
                BY <2>3, <2>4, <3>1, <4>1, <4>2, Zenon DEF ToPeer
            <4>3. CASE ~open
                BY <1>2, <4>3 DEF Writes, StreamTypeOK
            <4> QED
                BY <4>2, <4>3
        <3>2. CASE ~peerOpen
            BY <2>4, <3>2 DEF ToPeer
        <3> QED
            BY <3>1, <3>2
    <2> QED
        BY <2>4, <2>5 DEF Connected
<1>3. ASSUME NEW n \in 1..Len(outgoing), PeerReads(n) PROVE Out!BQNext
    <2>1. n \in 0..Len(outgoing)
        BY <1>0
    <2>2. /\ n \in 1..Len(ToPeer) /\ FirstOf(ToPeer, n) = FirstOf(outgoing, n)
          /\ ToPeer' = RestOf(ToPeer, n)
        <3>1. /\ n \in 0..Len(outgoing \o writeBuffer)
              /\ FirstOf(outgoing \o writeBuffer, n) = FirstOf(outgoing, n)
              /\ RestOf(outgoing \o writeBuffer, n) = RestOf(outgoing, n) \o writeBuffer
            BY <1>0, <2>1, CutOnTheLeft
        <3>2. CASE open /\ ~reset
            BY <1>3, <3>1, <3>2 DEF PeerReads, ToPeer
        <3>3. CASE ~(open /\ ~reset)
            BY <1>3, <3>3 DEF PeerReads, ToPeer
        <3> QED
            BY <3>2, <3>3
    <2>3. Out!Take(n)
        BY <1>3, <2>2 DEF Out!Take, PeerReads, Connected, FirstOf, RestOf
    <2> QED
        BY <1>0, <2>2, <2>3 DEF Out!BQNext
<1>4. ASSUME Drop \/ PeerCloses \/ \E m \in 0..Len(outgoing), n \in 0..Len(incoming) : Break(m, n)
      PROVE  Out!BQNext
    <2>1. \E k \in 0..Len(ToPeer) : ToPeer' = FirstOf(ToPeer, k)
        <3>1. CASE Drop
            <4>1. /\ Len(outgoing) \in 0..Len(outgoing \o writeBuffer)
                  /\ FirstOf(outgoing \o writeBuffer, Len(outgoing)) = outgoing
                BY <1>0, CutOnTheLeft, WholeAndNone
            <4>2. /\ Len(ToPeer) \in 0..Len(ToPeer)
                  /\ FirstOf(ToPeer, Len(ToPeer)) = ToPeer
                BY <1>0, WholeAndNone
            <4>3. CASE peerOpen /\ ~reset
                BY <3>1, <4>1, <4>3 DEF Drop, ToPeer
            <4>4. CASE ~(peerOpen /\ ~reset)
                <5>1. ToPeer' = ToPeer
                    BY <3>1, <4>4 DEF Drop, ToPeer
                <5> QED
                    BY <5>1, <4>2
            <4> QED
                BY <4>3, <4>4
        <3>2. CASE PeerCloses
            <4>1. ToPeer' = <<>>
                BY <3>2 DEF PeerCloses, ToPeer
            <4> QED
                BY <1>0, <4>1, WholeAndNone
        <3>3. CASE \E m \in 0..Len(outgoing), n \in 0..Len(incoming) : Break(m, n)
            <4>1. PICK m \in 0..Len(outgoing), n \in 0..Len(incoming) : Break(m, n)
                BY <3>3
            <4>2. /\ m \in 0..Len(outgoing \o writeBuffer)
                  /\ FirstOf(outgoing \o writeBuffer, m) = FirstOf(outgoing, m)
                BY <1>0, CutOnTheLeft
            <4>3. CASE peerOpen
                BY <4>1, <4>2, <4>3 DEF Break, ToPeer
            <4>4. CASE ~peerOpen
                <5>1. ToPeer' = ToPeer
                    BY <4>1, <4>4 DEF Break, ToPeer
                <5> QED
                    BY <5>1, <1>0, WholeAndNone
            <4> QED
                BY <4>3, <4>4
        <3> QED
            BY <1>4, <3>1, <3>2, <3>3
    <2>2. PICK k \in 0..Len(ToPeer) : ToPeer' = FirstOf(ToPeer, k)
        BY <2>1
    <2>3. Connected' = FALSE /\ peerReceived' = peerReceived
        BY <1>4 DEF Drop, PeerCloses, Break, Connected
    <2>4. Out!Lose(k)
        BY <2>2, <2>3 DEF Out!Lose, FirstOf
    <2> QED
        BY <2>4 DEF Out!BQNext
<1>5. ASSUME \/ \E n \in ReadSizes : ReadBuffered(n) \/ AwaitRead(n)
             \/ \E data \in Chunks : PeerWrites(data)
             \/ \E n \in 1..Len(incoming) : ReadArrives(n)
             \/ WriteFails \/ ReadEnds \/ ReadFails \/ Cancel \/ UNCHANGED streamVars
      PROVE  UNCHANGED <<ToPeer, peerReceived, Connected>>
    BY <1>5 DEF ReadBuffered, AwaitRead, PeerWrites, ReadArrives, WriteFails, ReadEnds,
                ReadFails, Cancel, streamVars, ToPeer, Connected
<1> QED
    BY <1>1, <1>2, <1>3, <1>4, <1>5 DEF StreamNext, WriteGoesOn, ReadGoesOn

\* The bytes given to write_all() reach the peer once and in order, for all
\* chunks, short writes, dropped futures and breaks (AsyncTcpStream::write_all).
THEOREM WritesAreOrdered == StreamSpec => WritesArriveInOrder
<1>1. StreamInit => Out!BQInit
    <2>1. <<>> \o <<>> = <<>>
        BY EmptySeq, ConcatEmptySeq
    <2> QED
        BY <2>1 DEF StreamInit, Out!BQInit, ToPeer, Connected
<1> QED
    BY <1>1, OutStep, StreamTypeCorrect, PTL DEF StreamSpec, WritesArriveInOrder, Out!BQSpec

-----------------------------------------------------------------------------
(* What an answer means.                                                   *)

\* What read() returns completes what the peer has written, while nothing breaks.
LEMMA MissedByNoRead ==
    ASSUME StreamTypeOK, NoneMissed, open' = open, reset' = reset, peerSent' = peerSent,
           NEW k \in 0..Len(ToCaller),
           received' = received \o FirstOf(ToCaller, k), ToCaller' = RestOf(ToCaller, k)
    PROVE  NoneMissed'
<1>1. ToCaller \in Seq(Bytes) /\ received \in Seq(Bytes)
    BY ConcatProperties DEF StreamTypeOK, ToCaller
<1>2. /\ FirstOf(ToCaller, k) \in Seq(Bytes) /\ RestOf(ToCaller, k) \in Seq(Bytes)
      /\ ToCaller = FirstOf(ToCaller, k) \o RestOf(ToCaller, k)
    BY <1>1, Cut, CutAndJoined
<1>3. (received \o FirstOf(ToCaller, k)) \o RestOf(ToCaller, k)
         = received \o (FirstOf(ToCaller, k) \o RestOf(ToCaller, k))
    BY <1>1, <1>2, Reassociate, Zenon
<1>4. (received \o FirstOf(ToCaller, k)) \o RestOf(ToCaller, k) = received \o ToCaller
    BY <1>2, <1>3, Zenon
<1> QED
    BY <1>4 DEF NoneMissed

LEMMA StreamInvNext ==
    StreamInv /\ [StreamNext]_streamVars => StreamInv'
<1> SUFFICES ASSUME StreamInv, [StreamNext]_streamVars PROVE StreamInv'
    OBVIOUS
<1> USE DEF ownVars, netVars, auxVars, peerVars
<1>0. StreamTypeOK /\ StreamTypeOK'
    BY StreamTypeNext DEF StreamInv
<1>a. /\ Len(readBuffer) \in Nat /\ Len(writeBuffer) \in Nat /\ Len(outgoing) \in Nat
      /\ Len(incoming) \in Nat /\ Len(sent) \in Nat /\ Len(peerReceived) \in Nat
      /\ confirmed \in Nat
    BY <1>0, LenProperties DEF StreamTypeOK
<1> DEFINE Rest == NoneLost /\ NoneMissed /\ ConfirmedHandedOver /\ NothingAfterEnd /\ EndMeansAll
<1>b. Rest
    BY DEF StreamInv
<1>1. ASSUME NEW n \in Nat,
             \/ n \in ReadSizes /\ ReadBuffered(n)
             \/ n \in 1..Len(incoming) /\ ReadArrives(n)
      PROVE  Rest'
    <2>1. PICK k \in 0..Len(ToCaller) : /\ received' = received \o FirstOf(ToCaller, k)
                                        /\ ToCaller' = RestOf(ToCaller, k)
        BY <1>0, <1>1, ReadTakes
    <2>2. /\ open' = open /\ peerOpen' = peerOpen /\ reset' = reset /\ peerSent' = peerSent
          /\ ended' = ended
          /\ UNCHANGED <<sent, confirmed, outgoing, writeBuffer, peerReceived>>
        BY <1>1 DEF ReadBuffered, ReadArrives
    <2>3. NoneMissed'
        BY <1>0, <1>b, <2>1, <2>2, MissedByNoRead
    <2>4. ~ended
        <3>1. readBuffer # <<>> \/ incoming # <<>>
            BY <1>0, <1>1, SomethingHeld DEF ReadBuffered, ReadArrives, StreamTypeOK
        <3> QED
            BY <1>b, <3>1 DEF NothingAfterEnd
    <2> QED
        BY <1>b, <2>2, <2>3, <2>4
        DEF NoneLost, Connected, ConfirmedHandedOver, NothingAfterEnd, EndMeansAll
<1>2. ASSUME NEW data \in Chunks, WriteAll(data) PROVE Rest'
    <2>1. data \in Seq(Bytes) /\ Len(data) \in Nat
        BY LenProperties, StreamAssumption
    <2>2. /\ Len(sent \o data) = Len(sent) + Len(data)
          /\ Len(writeBuffer \o data) = Len(writeBuffer) + Len(data)
        BY <1>0, <2>1, ConcatProperties DEF StreamTypeOK
    <2>3. /\ Len(sent') = Len(sent) + Len(data)
          /\ Len(writeBuffer') = Len(writeBuffer) + Len(data)
          /\ UNCHANGED <<peerReceived, outgoing, open, peerOpen, reset>>
          /\ open
        BY <1>2, <2>2, Zenon DEF WriteAll
    <2>4. NoneLost'
        <3> SUFFICES ASSUME Connected
                     PROVE  Len(sent') = Len(peerReceived') + Len(outgoing') + Len(writeBuffer')
            BY <2>3 DEF NoneLost, Connected
        <3>1. Len(sent) = Len(peerReceived) + Len(outgoing) + Len(writeBuffer)
            BY <1>b DEF NoneLost
        <3>2. Len(peerReceived') = Len(peerReceived) /\ Len(outgoing') = Len(outgoing)
            BY <2>3
        <3> QED
            BY <1>a, <2>1, <2>3, <3>1, <3>2
    <2>5. ConfirmedHandedOver'
        <3> SUFFICES ASSUME peerOpen /\ ~reset
                     PROVE  confirmed' <= Len(peerReceived) + Len(outgoing)
            BY <2>3 DEF ConfirmedHandedOver
        <3>1. confirmed <= Len(peerReceived) + Len(outgoing)
            BY <1>b DEF ConfirmedHandedOver
        <3>2. Len(sent) = Len(peerReceived) + Len(outgoing) + Len(writeBuffer)
            BY <1>b, <2>3 DEF NoneLost, Connected
        <3>3. CASE writeBuffer = <<>> /\ data = <<>>
            <4>1. Len(writeBuffer) = 0 /\ confirmed' = Len(sent)
                BY <1>2, <3>3, EmptySeq DEF WriteAll
            <4> QED
                BY <1>a, <3>2, <4>1
        <3>4. CASE ~(writeBuffer = <<>> /\ data = <<>>)
            BY <1>2, <3>1, <3>4 DEF WriteAll
        <3> QED
            BY <3>3, <3>4
    <2> QED
        BY <1>2, <1>b, <2>4, <2>5
        DEF WriteAll, NoneMissed, ToCaller, NothingAfterEnd, EndMeansAll
<1>3. ASSUME NEW n \in 1..Len(writeBuffer), Writes(n) PROVE Rest'
    <2>1. n \in 0..Len(writeBuffer) /\ open /\ ~reset
        BY <1>0, <1>3, <1>a DEF Writes, StreamTypeOK
    <2>2. /\ FirstOf(writeBuffer, n) \in Seq(Bytes) /\ Len(FirstOf(writeBuffer, n)) = n
          /\ Len(RestOf(writeBuffer, n)) = Len(writeBuffer) - n
        BY <1>0, <2>1, Cut DEF StreamTypeOK
    <2>3. Len(outgoing \o FirstOf(writeBuffer, n)) = Len(outgoing) + n
        BY <1>0, <2>2, ConcatProperties DEF StreamTypeOK
    <2>4. NoneLost' /\ ConfirmedHandedOver'
        <3> SUFFICES ASSUME peerOpen
                     PROVE  /\ Len(sent') = Len(peerReceived') + Len(outgoing') + Len(writeBuffer')
                            /\ confirmed' <= Len(peerReceived') + Len(outgoing')
            BY <1>3 DEF Writes, NoneLost, Connected, ConfirmedHandedOver
        <3>1. /\ Len(sent) = Len(peerReceived) + Len(outgoing) + Len(writeBuffer)
              /\ confirmed <= Len(peerReceived) + Len(outgoing)
            BY <1>b, <2>1 DEF NoneLost, Connected, ConfirmedHandedOver
        <3>2. /\ outgoing' = outgoing \o FirstOf(writeBuffer, n)
              /\ writeBuffer' = RestOf(writeBuffer, n)
              /\ sent' = sent /\ peerReceived' = peerReceived
              /\ confirmed' = IF n = Len(writeBuffer) THEN Len(sent) ELSE confirmed
            BY <1>3 DEF Writes
        <3>3. /\ Len(outgoing') = Len(outgoing) + n
              /\ Len(writeBuffer') = Len(writeBuffer) - n
              /\ Len(sent') = Len(sent) /\ Len(peerReceived') = Len(peerReceived)
            BY <2>2, <2>3, <3>2
        <3>4. Len(sent') = Len(peerReceived') + Len(outgoing') + Len(writeBuffer')
            BY <1>a, <2>1, <3>1, <3>3
        <3>5. CASE n = Len(writeBuffer)
            <4>1. confirmed' = Len(sent)
                BY <3>2, <3>5
            <4>2. Len(sent) = Len(peerReceived) + (Len(outgoing) + n)
                BY <1>a, <3>1, <3>5
            <4> QED
                BY <1>a, <3>3, <3>4, <4>1, <4>2
        <3>6. CASE n # Len(writeBuffer)
            BY <1>a, <2>1, <3>1, <3>2, <3>3, <3>4, <3>6
        <3> QED
            BY <3>4, <3>5, <3>6
    <2> QED
        BY <1>3, <1>b, <2>4 DEF Writes, NoneMissed, ToCaller, NothingAfterEnd, EndMeansAll
<1>4. ASSUME NEW data \in Chunks, PeerWrites(data) PROVE Rest'
    <2>1. ToCaller \in Seq(Bytes) /\ received \in Seq(Bytes) /\ data \in Seq(Bytes)
        BY <1>0, ConcatProperties, StreamAssumption DEF StreamTypeOK, ToCaller
    <2>2. /\ readBuffer \in Seq(Bytes) /\ incoming \in Seq(Bytes)
          /\ readBuffer' = readBuffer /\ incoming' = incoming \o data
          /\ peerSent' = peerSent \o data /\ received' = received
          /\ open /\ ~reset
        BY <1>0, <1>4 DEF PeerWrites, StreamTypeOK
    <2>3. ToCaller' = ToCaller \o data
        <3>1. (readBuffer \o incoming) \o data = readBuffer \o (incoming \o data)
            BY <2>1, <2>2, Reassociate, Zenon
        <3> QED
            BY <2>2, <3>1 DEF ToCaller
    <2>4. (received \o ToCaller) \o data = received \o (ToCaller \o data)
        BY <2>1, Reassociate, Zenon
    <2>5. peerSent' = received' \o ToCaller'
        BY <1>b, <2>2, <2>3, <2>4 DEF NoneMissed
    <2>6. ~ended
        BY <1>4, <1>b DEF PeerWrites, NothingAfterEnd
    <2> QED
        BY <1>4, <1>b, <2>5, <2>6
        DEF PeerWrites, NoneLost, Connected, NoneMissed, ConfirmedHandedOver, NothingAfterEnd,
            EndMeansAll
<1>5. ASSUME NEW n \in 1..Len(outgoing), PeerReads(n) PROVE Rest'
    <2>1. n \in 0..Len(outgoing)
        BY <1>a
    <2>2. /\ FirstOf(outgoing, n) \in Seq(Bytes) /\ Len(FirstOf(outgoing, n)) = n
          /\ Len(RestOf(outgoing, n)) = Len(outgoing) - n
        BY <1>0, <2>1, Cut DEF StreamTypeOK
    <2>3. Len(peerReceived \o FirstOf(outgoing, n)) = Len(peerReceived) + n
        BY <1>0, <2>2, ConcatProperties DEF StreamTypeOK
    <2>4. /\ Len(peerReceived') + Len(outgoing') = Len(peerReceived) + Len(outgoing)
          /\ UNCHANGED <<sent, confirmed, writeBuffer, open, peerOpen, reset>>
        <3>1. /\ Len(peerReceived') = Len(peerReceived) + n
              /\ Len(outgoing') = Len(outgoing) - n
            BY <1>5, <2>2, <2>3, Zenon DEF PeerReads
        <3> QED
            BY <1>5, <1>a, <2>1, <3>1 DEF PeerReads
    <2>5. NoneLost' /\ ConfirmedHandedOver'
        BY <1>b, <2>4 DEF NoneLost, Connected, ConfirmedHandedOver
    <2> QED
        BY <1>5, <1>b, <2>5 DEF PeerReads, NoneMissed, ToCaller, NothingAfterEnd, EndMeansAll
<1>6. ASSUME ReadEnds PROVE Rest'
    <2>1. /\ readBuffer = <<>> /\ incoming = <<>> /\ ~peerOpen /\ ~reset /\ open
          /\ received \in Seq(Bytes)
        BY <1>0, <1>6 DEF ReadEnds, StreamTypeOK
    <2>2. <<>> \o <<>> = <<>> /\ received \o <<>> = received
        BY <2>1, EmptySeq, ConcatEmptySeq
    <2>3. received = peerSent
        BY <1>b, <2>1, <2>2 DEF NoneMissed, ToCaller
    <2> QED
        BY <1>6, <1>b, <2>1, <2>3
        DEF ReadEnds, NoneLost, Connected, NoneMissed, ToCaller, ConfirmedHandedOver,
            NothingAfterEnd, EndMeansAll
<1>7. ASSUME Drop PROVE Rest'
    BY <1>7, <1>b
    DEF Drop, NoneLost, Connected, NoneMissed, ConfirmedHandedOver, NothingAfterEnd, EndMeansAll
<1>8. ASSUME PeerCloses PROVE Rest'
    BY <1>8, <1>b
    DEF PeerCloses, NoneLost, Connected, NoneMissed, ToCaller, ConfirmedHandedOver,
        NothingAfterEnd, EndMeansAll
<1>9. ASSUME NEW m \in 0..Len(outgoing), NEW n \in 0..Len(incoming), Break(m, n) PROVE Rest'
    <2>1. incoming = <<>> => FirstOf(incoming, n) = <<>>
        <3> SUFFICES ASSUME incoming = <<>> PROVE FirstOf(incoming, n) = <<>>
            OBVIOUS
        <3>1. n = 0
            BY <1>0, SomethingHeld DEF StreamTypeOK
        <3> QED
            BY <3>1, <1>0, WholeAndNone DEF StreamTypeOK
    <2> QED
        BY <1>9, <1>b, <2>1
        DEF Break, NoneLost, Connected, NoneMissed, ConfirmedHandedOver, NothingAfterEnd,
            EndMeansAll
<1>10. ASSUME (\E n \in ReadSizes : AwaitRead(n)) \/ ReadFails \/ WriteFails \/ Cancel
                \/ UNCHANGED streamVars
       PROVE  Rest'
    <2>1. UNCHANGED <<open, readBuffer, writeBuffer, outgoing, incoming, peerOpen, reset, sent,
                      confirmed, received, ended, peerSent, peerReceived>>
        BY <1>10 DEF AwaitRead, ReadFails, WriteFails, Cancel, streamVars
    <2> QED
        BY <2>1, <1>b
        DEF NoneLost, Connected, NoneMissed, ToCaller, ConfirmedHandedOver, NothingAfterEnd,
            EndMeansAll
<1>11. ReadSizes \subseteq Nat
    BY StreamAssumption
<1>12. Rest'
    <2> HIDE DEF Rest
    <2> QED
        BY <1>a, <1>1, <1>2, <1>3, <1>4, <1>5, <1>6, <1>7, <1>8, <1>9, <1>10, <1>11
        DEF StreamNext, WriteGoesOn, ReadGoesOn
<1> QED
    BY <1>0, <1>12 DEF StreamInv

LEMMA StreamInvariant == StreamSpec => []StreamInv
<1>1. StreamInit => StreamInv
    <2> SUFFICES ASSUME StreamInit PROVE StreamInv
        OBVIOUS
    <2>1. StreamTypeOK
        BY StreamInitTypes
    <2>2. Len(<<>>) = 0 /\ <<>> \o <<>> = <<>>
        BY EmptySeq, ConcatEmptySeq
    <2> QED
        BY <2>1, <2>2
        DEF StreamInit, StreamInv, NoneLost, NoneMissed, ToCaller, ConfirmedHandedOver,
            NothingAfterEnd, EndMeansAll
<1> QED
    BY <1>1, StreamInvNext, PTL DEF StreamSpec

\* No byte that Ok(()) of write_all() covers is left in the stream's own buffer
\* (AsyncTcpStream::write_all).
THEOREM ConfirmedIsHandedOver == StreamSpec => []ConfirmedHandedOver
<1>1. StreamInv => ConfirmedHandedOver
    BY DEF StreamInv
<1> QED
    BY <1>1, StreamInvariant, PTL

\* read() returns 0 only to callers who have all the peer's bytes
\* (AsyncTcpStream::read).
THEOREM EndIsTheEnd == StreamSpec => []EndMeansAll
<1>1. StreamInv => EndMeansAll
    BY DEF StreamInv
<1> QED
    BY <1>1, StreamInvariant, PTL
=============================================================================
