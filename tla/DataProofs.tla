------------------------------ MODULE DataProofs ------------------------------
(***************************************************************************)
(* What the functions of Retain, Stun and Ice compute, for all lists,      *)
(* replies and bytes.  The theorems on induction take operators as         *)
(* parameters; here it is over sets of numbers and sets of sequences, and  *)
(* rests on the least number of a set, which WFMin of                      *)
(* WellFoundedInduction gives.                                             *)
(***************************************************************************)
EXTENDS Retain, Stun, Ice, Integers, SequenceTheorems, WellFoundedInduction, TLAPS

\* A set of numbers has a least one.
LEMMA Least == ASSUME NEW T \in SUBSET Nat, T # {}
               PROVE  \E n \in T : \A m \in T : n <= m
<1> DEFINE R == OpToRel(<, Nat)
<1>1. IsWellFoundedOn(R, Nat)
  BY NatLessThanWellFounded
<1> HIDE DEF R
<1>2. \E n \in T : \A m \in T : ~(<<m, n>> \in R)
  BY <1>1, WFMin
<1>3. \A m, n \in Nat : m < n => <<m, n>> \in R
  BY DEF R, OpToRel
<1>4. PICK n \in T : \A m \in T : ~(<<m, n>> \in R)
  BY <1>2
<1>5. ASSUME NEW m \in T PROVE n <= m
  <2>1. ~(m < n)
    BY <1>3, <1>4
  <2>2. QED
    BY <2>1
<1>6. QED
  BY <1>5

\* Induction: a set with 0 and the successors of its numbers has all of them.
LEMMA Induct == ASSUME NEW T \in SUBSET Nat, 0 \in T, \A n \in T : n + 1 \in T
                PROVE  T = Nat
<1>1. ASSUME NEW k \in Nat, k \notin T PROVE FALSE
  <2>1. PICK n \in Nat \ T : \A m \in Nat \ T : n <= m
    BY <1>1, Least
  <2>2. n # 0 /\ n - 1 \in Nat /\ ~(n <= n - 1)
    BY <2>1
  <2>3. n - 1 \in T /\ n = (n - 1) + 1
    BY <2>1, <2>2
  <2>4. QED
    BY <2>1, <2>3
<1>2. QED
  BY <1>1

\* The same for sequences that grow at the end.
LEMMA SeqInduct ==
    ASSUME NEW T, NEW Q \in SUBSET Seq(T), <<>> \in Q,
           \A s \in Q, e \in T : Append(s, e) \in Q
    PROVE  Q = Seq(T)
<1> DEFINE N == {n \in Nat : \A s \in Seq(T) : Len(s) = n => s \in Q}
<1>1. 0 \in N
  BY EmptySeq
<1>2. ASSUME NEW n \in N PROVE n + 1 \in N
  <2> SUFFICES ASSUME NEW s \in Seq(T), Len(s) = n + 1 PROVE s \in Q
    OBVIOUS
  <2>1. n \in Nat /\ s # <<>>
    BY EmptySeq
  <2>2. PICK front \in Seq(T), e \in T : s = Append(front, e)
    BY <2>1, SequenceEmptyOrAppend
  <2>3. Len(front) \in Nat /\ Len(s) = Len(front) + 1
    BY <2>2, AppendProperties, LenProperties
  <2>4. front \in Q
    BY <2>1, <2>3
  <2>5. QED
    BY <2>2, <2>4
<1> HIDE DEF N
<1>3. N = Nat
  <2>1. N \in SUBSET Nat
    BY DEF N
  <2>2. QED
    BY <1>1, <1>2, <2>1, Induct
<1>4. \A s \in Seq(T) : Len(s) \in N
  BY <1>3, LenProperties
<1>5. QED
  BY <1>4 DEF N

\* A function on the numbers can be defined step by step.
Steps(S) == [Nat \X S -> S]
Iterates(f, S, base, step) ==
    f \in [Nat -> S] /\ f[0] = base /\ \A n \in Nat : f[n + 1] = step[<<n, f[n]>>]

\* Such a function there is.
LEMMA Recursion ==
    ASSUME NEW S, NEW base, NEW step, base \in S, step \in Steps(S)
    PROVE  \E f : Iterates(f, S, base, step)
<1>0. step \in [Nat \X S -> S]
  BY DEF Steps
<1> DEFINE Fits(g, n) ==
              /\ g \in [0..n -> S] /\ g[0] = base
              /\ \A i \in 0..n : i + 1 \in 0..n => g[i + 1] = step[<<i, g[i]>>]
           N == {n \in Nat : \E g : Fits(g, n)}
<1>1. 0 \in N
  <2> DEFINE g == [i \in 0..0 |-> base]
  <2>1. g \in [0..0 -> S] /\ g[0] = base
    OBVIOUS
  <2>2. \A i \in 0..0 : ~(i + 1 \in 0..0)
    OBVIOUS
  <2> HIDE DEF g
  <2>3. Fits(g, 0)
    BY <2>1, <2>2
  <2>4. QED
    BY <2>3
<1>2. ASSUME NEW n \in N PROVE n + 1 \in N
  <2>1. n \in Nat /\ \E g : Fits(g, n)
    OBVIOUS
  <2>2. PICK g : Fits(g, n)
    BY <2>1
  <2> DEFINE last == step[<<n, g[n]>>]
             h == [i \in 0..(n + 1) |-> IF i = n + 1 THEN last ELSE g[i]]
  <2>3. last \in S /\ n \in 0..n
    BY <1>0, <2>1, <2>2
  <2>4. /\ h \in [0..(n + 1) -> S] /\ h[n + 1] = last
        /\ \A i \in 0..n : i \in 0..(n + 1) /\ h[i] = g[i]
    <3> HIDE DEF last
    <3>1. \A i \in 0..(n + 1) : i # n + 1 => i \in 0..n
      BY <2>1
    <3>2. \A i \in 0..n : i \in 0..(n + 1) /\ i # n + 1
      BY <2>1
    <3>3. n + 1 \in 0..(n + 1)
      BY <2>1
    <3>4. QED
      BY <2>2, <2>3, <3>1, <3>2, <3>3
  <2>5. ASSUME NEW i \in 0..(n + 1), i + 1 \in 0..(n + 1)
        PROVE  h[i + 1] = step[<<i, h[i]>>]
    <3>1. i \in 0..n /\ h[i] = g[i]
      BY <2>1, <2>4, <2>5
    <3>2. CASE i = n
      BY <2>4, <3>1, <3>2
    <3>3. CASE i # n
      <4>1. i + 1 \in 0..n
        BY <2>1, <3>1, <3>3
      <4>2. h[i + 1] = g[i + 1] /\ g[i + 1] = step[<<i, g[i]>>]
        BY <2>2, <2>4, <3>1, <4>1
      <4>3. QED
        BY <3>1, <4>2
    <3>4. QED
      BY <3>2, <3>3
  <2>6. h[0] = base
    BY <2>1, <2>2, <2>4
  <2> HIDE DEF h, last
  <2>7. Fits(h, n + 1)
    BY <2>4, <2>5, <2>6
  <2>8. QED
    BY <2>1, <2>7
<1>3. \A n \in Nat : \E g : Fits(g, n)
  <2>1. N \in SUBSET Nat
    OBVIOUS
  <2> HIDE DEF N
  <2>2. N = Nat
    BY <1>1, <1>2, <2>1, Induct
  <2>3. QED
    BY <2>2 DEF N
<1>4. ASSUME NEW m \in Nat, NEW n \in Nat, m <= n, NEW g, NEW h, Fits(g, m), Fits(h, n)
      PROVE  \A i \in 0..m : g[i] = h[i]
  <2> DEFINE A == {i \in Nat : i <= m => g[i] = h[i]}
  <2>1. 0 \in A
    BY <1>4
  <2>2. ASSUME NEW i \in A PROVE i + 1 \in A
    <3> SUFFICES ASSUME i + 1 <= m PROVE g[i + 1] = h[i + 1]
      OBVIOUS
    <3>1. i \in 0..m /\ i + 1 \in 0..m /\ i \in 0..n /\ i + 1 \in 0..n /\ g[i] = h[i]
      BY <1>4
    <3>2. g[i + 1] = step[<<i, g[i]>>] /\ h[i + 1] = step[<<i, h[i]>>]
      BY <1>4, <3>1
    <3>3. QED
      BY <3>1, <3>2
  <2>3. A \in SUBSET Nat
    OBVIOUS
  <2> HIDE DEF A
  <2>4. A = Nat
    BY <2>1, <2>2, <2>3, Induct
  <2>5. QED
    BY <2>4 DEF A
<1> DEFINE G(n) == CHOOSE g : Fits(g, n)
           f == [n \in Nat |-> G(n)[n]]
<1>5. \A n \in Nat : Fits(G(n), n)
  <2> HIDE DEF Fits
  <2>1. QED
    BY <1>3
<1> HIDE DEF G, N
<1>6. \A n \in Nat : f[n] = G(n)[n] /\ f[n] \in S
  <2>1. \A n \in Nat : n \in 0..n
    OBVIOUS
  <2>2. QED
    BY <1>5, <2>1
<1>7. f \in [Nat -> S] /\ f[0] = base
  BY <1>5, <1>6
<1>8. ASSUME NEW n \in Nat PROVE f[n + 1] = step[<<n, f[n]>>]
  <2>1. n \in 0..n /\ n \in 0..(n + 1) /\ n + 1 \in 0..(n + 1) /\ n <= n + 1 /\ n + 1 \in Nat
    OBVIOUS
  <2>2. G(n + 1)[n + 1] = step[<<n, G(n + 1)[n]>>]
    BY <1>5, <2>1
  <2>3. Fits(G(n), n) /\ Fits(G(n + 1), n + 1)
    BY <1>5, <2>1
  <2> HIDE DEF Fits, f
  <2>4. G(n)[n] = G(n + 1)[n]
    BY <1>4, <2>1, <2>3
  <2>5. QED
    BY <1>6, <2>1, <2>2, <2>4
<1> HIDE DEF f
<1>9. Iterates(f, S, base, step)
  BY <1>7, <1>8 DEF Iterates
<1>10. QED
  BY <1>9

-----------------------------------------------------------------------------
\* The function exists, on every part of the sequence.
LEMMA KeepingExists ==
    ASSUME NEW T, NEW s \in Seq(T), NEW S
    PROVE  \E f : f = [i \in 0..Len(s) |->
                          IF i = 0 THEN <<>>
                          ELSE IF s[i] \in S THEN Append(f[i - 1], s[i]) ELSE f[i - 1]]
<1> DEFINE Fits(f, n) ==
              f = [i \in 0..n |-> IF i = 0 THEN <<>>
                                  ELSE IF s[i] \in S THEN Append(f[i - 1], s[i]) ELSE f[i - 1]]
           N == {n \in Nat : \E f : Fits(f, n)}
<1>1. 0 \in N
  <2>1. Fits([i \in 0..0 |-> <<>>], 0)
    BY Z3T(20)
  <2>2. QED
    BY <2>1
<1>2. ASSUME NEW n \in N PROVE n + 1 \in N
  <2>1. n \in Nat /\ \E f : Fits(f, n)
    OBVIOUS
  <2>2. PICK f : Fits(f, n)
    BY <2>1
  <2> DEFINE last == IF s[n + 1] \in S THEN Append(f[n], s[n + 1]) ELSE f[n]
             g == [i \in 0..(n + 1) |-> IF i = n + 1 THEN last ELSE f[i]]
  <2>3. \A i \in 0..n : f[i] = IF i = 0 THEN <<>>
                               ELSE IF s[i] \in S THEN Append(f[i - 1], s[i]) ELSE f[i - 1]
    BY <2>2
  <2>4. /\ \A i \in 0..n : g[i] = f[i]
        /\ g[n + 1] = last
    BY <2>1
  <2>5. ASSUME NEW i \in 0..(n + 1)
        PROVE  g[i] = IF i = 0 THEN <<>>
                      ELSE IF s[i] \in S THEN Append(g[i - 1], s[i]) ELSE g[i - 1]
    <3> HIDE DEF g
    <3>1. CASE i = 0
      BY <2>1, <2>3, <2>4, <3>1
    <3>2. CASE i \in 1..n
      <4>1. i - 1 \in 0..n /\ i \in 0..n /\ i # 0
        BY <2>1, <3>2
      <4>2. g[i] = f[i] /\ g[i - 1] = f[i - 1]
        BY <2>4, <4>1
      <4>3. QED
        BY <2>3, <4>1, <4>2
    <3>3. CASE i = n + 1
      <4>1. i - 1 = n /\ n \in 0..n /\ i # 0
        BY <2>1, <3>3
      <4>2. g[i - 1] = f[n]
        BY <2>4, <4>1
      <4>3. QED
        BY <2>4, <3>3, <4>1, <4>2
    <3>4. QED
      BY <2>1, <3>1, <3>2, <3>3
  <2>6. g = [i \in 0..(n + 1) |-> g[i]]
    OBVIOUS
  <2> HIDE DEF g
  <2>7. Fits(g, n + 1)
    <3> DEFINE g1 == [i \in 0..(n + 1) |-> g[i]]
               g2 == [i \in 0..(n + 1) |->
                         IF i = 0 THEN <<>>
                         ELSE IF s[i] \in S THEN Append(g[i - 1], s[i]) ELSE g[i - 1]]
    <3>1. g1 = g2
      BY <2>5, Zenon
    <3>2. g = g1
      BY <2>6
    <3> HIDE DEF g1, g2
    <3>3. g = g2
      BY <3>1, <3>2
    <3> HIDE DEF last, N
    <3>4. QED
      BY <3>3 DEF g2
  <2> HIDE DEF Fits
  <2>8. QED
    BY <2>1, <2>7
<1>3. N = Nat
  <2>1. N \in SUBSET Nat
    OBVIOUS
  <2> HIDE DEF N
  <2>2. QED
    BY <1>1, <1>2, <2>1, Induct
<1>4. Len(s) \in N
  BY <1>3, LenProperties
<1>5. QED
  BY <1>4

\* So it does what its definition says.
LEMMA KeepingDef ==
    ASSUME NEW T, NEW s \in Seq(T), NEW S
    PROVE  /\ Keeping(s, S)[0] = <<>>
           /\ \A i \in 1..Len(s) :
                 Keeping(s, S)[i] = IF s[i] \in S THEN Append(Keeping(s, S)[i - 1], s[i])
                                    ELSE Keeping(s, S)[i - 1]
<1> DEFINE kept == Keeping(s, S)
           F(f) == [i \in 0..Len(s) |->
                       IF i = 0 THEN <<>>
                       ELSE IF s[i] \in S THEN Append(f[i - 1], s[i]) ELSE f[i - 1]]
<1>1. Len(s) \in Nat
  BY LenProperties
<1>2. kept = [i \in 0..Len(s) |->
                 IF i = 0 THEN <<>>
                 ELSE IF s[i] \in S THEN Append(kept[i - 1], s[i]) ELSE kept[i - 1]]
  <2>1. kept = CHOOSE f : f = F(f)
    BY DEF Keeping
  <2>2. \E f : f = F(f)
    BY KeepingExists, ZenonT(60)
  <2> HIDE DEF F, kept
  <2>3. kept = F(kept)
    BY <2>1, <2>2
  <2>4. QED
    BY <2>3 DEF F
<1> HIDE DEF kept, F
<1>3. kept[0] = <<>>
  BY <1>1, <1>2
<1>4. ASSUME NEW i \in 1..Len(s)
      PROVE  kept[i] = IF s[i] \in S THEN Append(kept[i - 1], s[i]) ELSE kept[i - 1]
  <2>1. i \in 0..Len(s) /\ i # 0
    BY <1>1
  <2>2. QED
    BY <1>2, <2>1
<1>5. QED
  BY <1>3, <1>4 DEF kept

\* What is left of the first entries does not depend on the others.
LEMMA KeepingFront ==
    ASSUME NEW T, NEW s \in Seq(T), NEW e \in T, NEW S
    PROVE  \A i \in 0..Len(s) : Keeping(Append(s, e), S)[i] = Keeping(s, S)[i]
<1> DEFINE t == Append(s, e)
           N == {n \in Nat : n <= Len(s) => Keeping(t, S)[n] = Keeping(s, S)[n]}
<1>1. /\ t \in Seq(T) /\ Len(t) = Len(s) + 1 /\ Len(s) \in Nat
      /\ \A i \in 1..Len(s) : t[i] = s[i]
  BY AppendProperties, LenProperties
<1> HIDE DEF t
<1>2. 0 \in N
  BY <1>1, KeepingDef
<1>3. ASSUME NEW n \in N PROVE n + 1 \in N
  <2> SUFFICES ASSUME n + 1 <= Len(s) PROVE Keeping(t, S)[n + 1] = Keeping(s, S)[n + 1]
    OBVIOUS
  <2>1. /\ n \in Nat /\ n <= Len(s) /\ (n + 1) - 1 = n
        /\ n + 1 \in 1..Len(s) /\ n + 1 \in 1..Len(t)
    BY <1>1
  <2>2. Keeping(t, S)[n] = Keeping(s, S)[n]
    BY <2>1
  <2>3. Keeping(t, S)[n + 1] = IF t[n + 1] \in S THEN Append(Keeping(t, S)[n], t[n + 1])
                               ELSE Keeping(t, S)[n]
    <3>1. \A i \in 1..Len(t) : Keeping(t, S)[i] = IF t[i] \in S THEN Append(Keeping(t, S)[i - 1], t[i])
                                                   ELSE Keeping(t, S)[i - 1]
      BY <1>1, KeepingDef
    <3> HIDE DEF N
    <3>2. QED
      BY <2>1, <3>1
  <2>4. Keeping(s, S)[n + 1] = IF s[n + 1] \in S THEN Append(Keeping(s, S)[n], s[n + 1])
                               ELSE Keeping(s, S)[n]
    BY <1>1, <2>1, KeepingDef
  <2>5. QED
    BY <1>1, <2>1, <2>2, <2>3, <2>4
<1>4. N = Nat
  <2>1. N \in SUBSET Nat
    OBVIOUS
  <2> HIDE DEF N
  <2>2. QED
    BY <1>2, <1>3, <2>1, Induct
<1>5. QED
  BY <1>1, <1>4 DEF t

\* Nothing is left of nothing.
LEMMA OnlyEmpty == ASSUME NEW S PROVE Only(<<>>, S) = <<>>
<1>1. <<>> \in Seq({}) /\ Len(<<>>) = 0
  BY EmptySeq
<1>2. Keeping(<<>>, S)[0] = <<>>
  <2>1. \A T : <<>> \in Seq(T) => Keeping(<<>>, S)[0] = <<>>
    BY KeepingDef
  <2>2. QED
    BY <1>1, <2>1, Zenon
<1>3. QED
  BY <1>1, <1>2, Zenon DEF Only

\* An entry at the end is left, at the end, if it is in the set.
LEMMA OnlyAppend ==
    ASSUME NEW T, NEW s \in Seq(T), NEW e \in T, NEW S
    PROVE  Only(Append(s, e), S) = IF e \in S THEN Append(Only(s, S), e) ELSE Only(s, S)
<1> DEFINE t == Append(s, e)
<1>1. /\ t \in Seq(T) /\ Len(t) = Len(s) + 1 /\ Len(s) \in Nat /\ t[Len(t)] = e
      /\ Len(t) - 1 = Len(s) /\ Len(t) \in 1..Len(t) /\ Len(s) \in 0..Len(s)
  BY AppendProperties, LenProperties
<1>2. Keeping(t, S)[Len(s)] = Keeping(s, S)[Len(s)]
  BY <1>1, KeepingFront
<1> HIDE DEF t
<1>3. Keeping(t, S)[Len(t)] = IF t[Len(t)] \in S THEN Append(Keeping(t, S)[Len(t) - 1], t[Len(t)])
                              ELSE Keeping(t, S)[Len(t) - 1]
  BY <1>1, KeepingDef
<1>4. QED
  BY <1>1, <1>2, <1>3 DEF Only, t

\* What is left is a part of the sequence, no longer than it and of entries of the
\* set.
LEMMA OnlyType ==
    ASSUME NEW T, NEW s \in Seq(T), NEW S
    PROVE  /\ Only(s, S) \in Seq(T) /\ Only(s, S) \in Seq(T \cap S)
           /\ Len(Only(s, S)) <= Len(s)
<1> DEFINE Q == {q \in Seq(T) : /\ Only(q, S) \in Seq(T) /\ Only(q, S) \in Seq(T \cap S)
                                /\ Len(Only(q, S)) <= Len(q)}
<1>1. <<>> \in Q
  <2>1. Only(<<>>, S) = <<>> /\ Len(<<>>) = 0
    BY OnlyEmpty, EmptySeq
  <2>2. <<>> \in Seq(T) /\ <<>> \in Seq(T \cap S)
    BY EmptySeq
  <2>3. Len(Only(<<>>, S)) <= Len(<<>>)
    BY <2>1
  <2>4. QED
    BY <2>1, <2>2, <2>3, Zenon
<1>2. ASSUME NEW q \in Q, NEW e \in T PROVE Append(q, e) \in Q
  <2> DEFINE o == Only(q, S)
  <2>1. /\ Append(q, e) \in Seq(T) /\ Len(Append(q, e)) = Len(q) + 1
        /\ Len(o) <= Len(q) /\ Len(o) \in Nat /\ Len(q) \in Nat
        /\ o \in Seq(T) /\ o \in Seq(T \cap S)
    BY AppendProperties, LenProperties
  <2>2. Only(Append(q, e), S) = IF e \in S THEN Append(o, e) ELSE o
    BY OnlyAppend
  <2> HIDE DEF o
  <2>3. CASE e \in S
    <3>1. /\ Append(o, e) \in Seq(T) /\ Append(o, e) \in Seq(T \cap S)
          /\ Len(Append(o, e)) = Len(o) + 1
      BY <2>1, <2>3, AppendProperties
    <3>2. /\ Only(Append(q, e), S) = Append(o, e)
          /\ Len(Only(Append(q, e), S)) <= Len(Append(q, e))
      BY <2>1, <2>2, <2>3, <3>1
    <3>3. QED
      BY <2>1, <3>1, <3>2
  <2>4. CASE e \notin S
    BY <2>1, <2>2, <2>4
  <2>5. QED
    BY <2>3, <2>4
<1>3. Q \in SUBSET Seq(T)
  OBVIOUS
<1> HIDE DEF Q
<1>4. Q = Seq(T)
  BY <1>1, <1>2, <1>3, SeqInduct
<1>5. QED
  BY <1>4 DEF Q

\* Nothing is lost when all of it is in the set.
LEMMA OnlyAll ==
    ASSUME NEW T, NEW s \in Seq(T), NEW S, T \subseteq S
    PROVE  Only(s, S) = s
<1> DEFINE Q == {q \in Seq(T) : Only(q, S) = q}
<1>1. <<>> \in Q
  BY OnlyEmpty, EmptySeq
<1>2. ASSUME NEW q \in Q, NEW e \in T PROVE Append(q, e) \in Q
  BY OnlyAppend, AppendProperties
<1>3. Q \in SUBSET Seq(T)
  OBVIOUS
<1> HIDE DEF Q
<1>4. Q = Seq(T)
  BY <1>1, <1>2, <1>3, SeqInduct
<1>5. QED
  BY <1>4 DEF Q

\* What a larger set has left is not missed by a smaller one.
LEMMA OnlyTwice ==
    ASSUME NEW T, NEW s \in Seq(T), NEW A, NEW B, T \cap A \subseteq B
    PROVE  Only(Only(s, B), A) = Only(s, A)
<1> DEFINE Q == {q \in Seq(T) : Only(Only(q, B), A) = Only(q, A)}
<1>1. <<>> \in Q
  BY OnlyEmpty, EmptySeq
<1>2. ASSUME NEW q \in Q, NEW e \in T PROVE Append(q, e) \in Q
  <2> DEFINE o == Only(q, B)
  <2>1. /\ Only(o, A) = Only(q, A) /\ o \in Seq(T)
        /\ Append(q, e) \in Seq(T)
    BY OnlyType, AppendProperties
  <2>2. Only(Append(q, e), B) = IF e \in B THEN Append(o, e) ELSE o
    BY OnlyAppend
  <2>3. Only(Append(q, e), A) = IF e \in A THEN Append(Only(q, A), e) ELSE Only(q, A)
    BY OnlyAppend
  <2> HIDE DEF o
  <2>4. Only(Append(o, e), A) = IF e \in A THEN Append(Only(o, A), e) ELSE Only(o, A)
    BY <2>1, OnlyAppend
  <2>5. QED
    BY <2>1, <2>2, <2>3, <2>4
<1>3. Q \in SUBSET Seq(T)
  OBVIOUS
<1> HIDE DEF Q
<1>4. Q = Seq(T)
  BY <1>1, <1>2, <1>3, SeqInduct
<1>5. QED
  BY <1>4 DEF Q

\* What is left is in the order of the sequence: what relates every entry to those
\* behind it still does.
LEMMA OnlyOrdered ==
    ASSUME NEW T, NEW s \in Seq(T), NEW S, NEW R,
           \A i, j \in 1..Len(s) : i < j => <<s[i], s[j]>> \in R
    PROVE  \A i, j \in 1..Len(Only(s, S)) :
              i < j => <<Only(s, S)[i], Only(s, S)[j]>> \in R
<1> DEFINE Ordered(q) == \A i, j \in 1..Len(q) : i < j => <<q[i], q[j]>> \in R
           Within(o, q) == \A i \in 1..Len(o) : \E j \in 1..Len(q) : o[i] = q[j]
           Q == {q \in Seq(T) : /\ Within(Only(q, S), q)
                                /\ Ordered(q) => Ordered(Only(q, S))}
<1>1. <<>> \in Q
  <2>1. Only(<<>>, S) = <<>> /\ Len(<<>>) = 0 /\ <<>> \in Seq(T)
    BY OnlyEmpty, EmptySeq
  <2>2. Within(<<>>, <<>>) /\ (Ordered(<<>>) => Ordered(<<>>))
    OBVIOUS
  <2> HIDE DEF Within, Ordered
  <2>3. Within(Only(<<>>, S), <<>>) /\ (Ordered(<<>>) => Ordered(Only(<<>>, S)))
    BY <2>1, <2>2
  <2>4. QED
    BY <2>1, <2>3, Zenon
<1>2. ASSUME NEW q \in Q, NEW e \in T PROVE Append(q, e) \in Q
  <2> DEFINE o == Only(q, S)
             r == Append(q, e)
  <2>1. q \in Seq(T) /\ o \in Seq(T) /\ Len(o) \in Nat /\ Len(q) \in Nat
    BY OnlyType, LenProperties
  <2>2. /\ r \in Seq(T) /\ Len(r) = Len(q) + 1 /\ r[Len(q) + 1] = e
        /\ \A i \in 1..Len(q) : r[i] = q[i]
    BY <2>1, AppendProperties
  <2>3. Only(r, S) = IF e \in S THEN Append(o, e) ELSE o
    BY <2>1, OnlyAppend
  <2>4. Within(o, q) /\ (Ordered(q) => Ordered(o))
    OBVIOUS
  <2> HIDE DEF o, r, Q
  <2>5. Within(o, r)
    <3> SUFFICES ASSUME NEW i \in 1..Len(o) PROVE \E j \in 1..Len(r) : o[i] = r[j]
      OBVIOUS
    <3>1. PICK j \in 1..Len(q) : o[i] = q[j]
      BY <2>4
    <3>2. j \in 1..Len(r) /\ r[j] = q[j]
      BY <2>1, <2>2
    <3>3. QED
      BY <3>1, <3>2
  <2>6. ASSUME Ordered(r) PROVE Ordered(o) /\ \A i \in 1..Len(o) : <<o[i], e>> \in R
    <3>1. \A i \in 1..Len(q) : i \in 1..Len(r) /\ i < Len(q) + 1 /\ Len(q) + 1 \in 1..Len(r)
      BY <2>1, <2>2
    <3>2. Ordered(q)
      BY <2>2, <2>6, <3>1
    <3>3. \A i \in 1..Len(q) : <<q[i], e>> \in R
      <4>1. \A i \in 1..Len(q) : <<r[i], r[Len(q) + 1]>> \in R
        BY <2>6, <3>1
      <4>2. QED
        BY <2>2, <4>1
    <3>4. QED
      BY <2>4, <3>2, <3>3
  <2>7. CASE e \notin S
    <3>1. Only(r, S) = o
      BY <2>3, <2>7
    <3> HIDE DEF Ordered, Within
    <3>2. QED
      BY <2>2, <2>5, <2>6, <3>1 DEF Q, r
  <2>8. CASE e \in S
    <3> DEFINE m == Append(o, e)
    <3>1. /\ Only(r, S) = m /\ Len(m) = Len(o) + 1 /\ m[Len(o) + 1] = e
          /\ \A i \in 1..Len(o) : m[i] = o[i]
      BY <2>1, <2>3, <2>8, AppendProperties
    <3> HIDE DEF m
    <3>2. \A i \in 1..Len(m) : i \in 1..Len(o) \/ i = Len(o) + 1
      BY <2>1, <3>1
    <3>3. Within(m, r)
      <4> SUFFICES ASSUME NEW i \in 1..Len(m) PROVE \E j \in 1..Len(r) : m[i] = r[j]
        OBVIOUS
      <4>1. CASE i \in 1..Len(o)
        BY <2>5, <3>1, <4>1
      <4>2. CASE i = Len(o) + 1
        <5>1. Len(q) + 1 \in 1..Len(r)
          BY <2>1, <2>2
        <5>2. QED
          BY <2>2, <3>1, <4>2, <5>1
      <4>3. QED
        BY <3>2, <4>1, <4>2
    <3>4. ASSUME Ordered(r) PROVE Ordered(m)
      <4> SUFFICES ASSUME NEW i \in 1..Len(m), NEW j \in 1..Len(m), i < j
                   PROVE  <<m[i], m[j]>> \in R
        OBVIOUS
      <4>1. Ordered(o) /\ \A n \in 1..Len(o) : <<o[n], e>> \in R
        BY <2>6, <3>4
      <4>2. i \in 1..Len(o)
        BY <2>1, <3>1
      <4>3. CASE j \in 1..Len(o)
        BY <3>1, <4>1, <4>2, <4>3
      <4>4. CASE j = Len(o) + 1
        BY <3>1, <4>1, <4>2, <4>4
      <4>5. QED
        BY <3>2, <4>3, <4>4
    <3> HIDE DEF Ordered, Within
    <3>5. QED
      BY <2>2, <3>1, <3>3, <3>4 DEF Q, r
  <2>9. QED
    BY <2>7, <2>8 DEF r
<1>3. Q \in SUBSET Seq(T)
  OBVIOUS
<1> HIDE DEF Q
<1>4. Q = Seq(T)
  BY <1>1, <1>2, <1>3, SeqInduct
<1>5. s \in Q
  BY <1>4
<1>6. Ordered(s) => Ordered(Only(s, S))
  BY <1>5 DEF Q
<1>7. QED
  BY <1>6

-----------------------------------------------------------------------------
(* parse_response().                                                       *)

\* One step of the walk, given what it finds behind.
WalkStep(body, p, w) ==
    IF p > Len(body) THEN Unread
    ELSE IF body[p][2] > 4 * (Len(body) - p) THEN Unread
    ELSE LET here == ValueAt(body, p)
             rest == w[p + 1 + (body[p][2] + 3) \div 4]
         IN IF here = Panic \/ rest = Unread THEN here ELSE rest

\* The length of an attribute that is not cut off leads to a place behind.
LEMMA StepsOn ==
    ASSUME NEW L \in Nat, NEW p \in Nat, p <= L, NEW length \in Nat, length <= 4 * (L - p)
    PROVE  p + 1 + (length + 3) \div 4 \in (p + 1)..(L + 1)
<1> DEFINE left == L - p
           m == (length + 3) \div 4
<1>1. left \in Nat /\ length <= 4 * left
  OBVIOUS
<1>2. m \in Nat /\ 4 * m <= length + 3
  OBVIOUS
<1> HIDE DEF left, m
<1>3. m <= left
  BY <1>1, <1>2
<1>4. p + 1 + m \in (p + 1)..(L + 1)
  BY <1>2, <1>3 DEF left
<1>5. QED
  BY <1>4 DEF m

\* It looks only behind its own place.
LEMMA WalkLooksBehind ==
    ASSUME NEW body \in Seq(Nat \X Nat), NEW p \in 1..(Len(body) + 1), NEW v, NEW w,
           \A q \in (p + 1)..(Len(body) + 1) : v[q] = w[q]
    PROVE  WalkStep(body, p, v) = WalkStep(body, p, w)
<1>1. Len(body) \in Nat
  BY LenProperties
<1>2. CASE p <= Len(body) /\ body[p][2] <= 4 * (Len(body) - p)
  <2> DEFINE q == p + 1 + (body[p][2] + 3) \div 4
  <2>1. body[p] \in Nat \X Nat
    BY <1>1, <1>2, ElementOfSeq
  <2>2. body[p][2] \in Nat
    BY <2>1
  <2>a. p \in Nat
    BY <1>1
  <2>3. q \in (p + 1)..(Len(body) + 1)
    BY <1>1, <1>2, <2>2, <2>a, StepsOn
  <2>4. v[q] = w[q]
    BY <2>3
  <2>5. QED
    BY <1>1, <1>2, <2>2, <2>4 DEF WalkStep
<1>3. CASE p > Len(body)
  BY <1>3 DEF WalkStep
<1>4. CASE p <= Len(body) /\ body[p][2] > 4 * (Len(body) - p)
  BY <1>4 DEF WalkStep
<1>5. p \in Nat /\ (p <= Len(body) => body[p][2] \in Nat)
  <2>1. p \in Nat
    BY <1>1
  <2>2. p <= Len(body) => body[p] \in Nat \X Nat
    BY <1>1, <2>1, ElementOfSeq
  <2>3. QED
    BY <2>1, <2>2
<1>6. QED
  BY <1>1, <1>2, <1>3, <1>4, <1>5

\* So the walk is what its definition says.
LEMMA WalkDef ==
    ASSUME NEW body \in Seq(Nat \X Nat)
    PROVE  \A p \in 1..(Len(body) + 1) : Walk(body)[p] = WalkStep(body, p, Walk(body))
<1> DEFINE L == Len(body)
           P == 1..(L + 1)
           V == {Unread} \cup {ValueAt(body, p) : p \in P}
           S == [P -> V]
           base == [p \in P |-> Unread]
           Next1(n, w) == [p \in P |-> IF p = L - n THEN WalkStep(body, p, w) ELSE w[p]]
           step == [x \in Nat \X S |-> Next1(x[1], x[2])]
           F(f) == [p \in P |-> WalkStep(body, p, f)]
<1>1. L \in Nat
  BY LenProperties
<1>2. \A p \in P : p \in Nat /\ p >= 1 /\ p <= L + 1
  BY <1>1
<1>3. \A p \in P, w \in S : WalkStep(body, p, w) \in V
  <2> SUFFICES ASSUME NEW p \in P, NEW w \in S PROVE WalkStep(body, p, w) \in V
    OBVIOUS
  <2>1. CASE p <= L /\ body[p][2] <= 4 * (L - p)
    <3> DEFINE q == p + 1 + (body[p][2] + 3) \div 4
    <3>1. body[p] \in Nat \X Nat
      BY <1>1, <2>1, ElementOfSeq
    <3>2. body[p][2] \in Nat
      BY <3>1
    <3>a. q \in (p + 1)..(L + 1)
      BY <1>1, <1>2, <2>1, <3>2, StepsOn
    <3>3. q \in P
      BY <1>1, <1>2, <3>a
    <3>4. w[q] \in V /\ ValueAt(body, p) \in V
      BY <3>3
    <3>5. ~(p > L) /\ ~(body[p][2] > 4 * (L - p))
      BY <1>1, <1>2, <2>1, <3>2
    <3> DEFINE x == w[q]
    <3>6. WalkStep(body, p, w) = IF ValueAt(body, p) = Panic \/ x = Unread
                                 THEN ValueAt(body, p) ELSE x
      BY <3>5, Zenon DEF WalkStep
    <3>7. QED
      BY <3>4, <3>6
  <2>2. CASE p > L
    BY <2>2 DEF WalkStep
  <2>3. CASE p <= L /\ body[p][2] > 4 * (L - p)
    BY <2>3 DEF WalkStep
  <2>4. p <= L => body[p][2] \in Nat
    <3>1. p <= L => body[p] \in Nat \X Nat
      BY <1>1, ElementOfSeq
    <3>2. QED
      BY <3>1
  <2>5. QED
    BY <1>1, <1>2, <2>1, <2>2, <2>3, <2>4
<1>4. base \in S
  OBVIOUS
<1>5. step \in Steps(S)
  <2>1. \A n \in Nat, w \in S : Next1(n, w) \in S
    <3> HIDE DEF V, P
    <3>1. QED
      BY <1>3
  <2> HIDE DEF Next1, S
  <2>2. \A x \in Nat \X S : x[1] \in Nat /\ x[2] \in S
    OBVIOUS
  <2>3. QED
    BY <2>1, <2>2 DEF Steps
<1>6. PICK f : Iterates(f, S, base, step)
  <2> HIDE DEF S, base, step
  <2>1. QED
    BY <1>4, <1>5, Recursion
<1>i. f \in [Nat -> S] /\ f[0] = base /\ \A n \in Nat : f[n + 1] = step[<<n, f[n]>>]
  <2> HIDE DEF S, base, step
  <2>1. QED
    BY <1>6 DEF Iterates
<1>7. \A n \in Nat : f[n + 1] = Next1(n, f[n]) /\ f[n] \in S
  <2> HIDE DEF S, Next1
  <2>1. QED
    BY <1>i
<1> DEFINE Done(n) == \A p \in P : p > L - n => f[n][p] = WalkStep(body, p, f[n])
           N == {n \in Nat : n <= L => Done(n)}
<1>8. 0 \in N
  <2>1. \A p \in P : p > L - 0 => p > L
    BY <1>1, <1>2
  <2>2. \A p \in P : p > L => WalkStep(body, p, f[0]) = Unread
    BY DEF WalkStep
  <2>3. \A p \in P : f[0][p] = Unread
    BY <1>i
  <2>4. Done(0)
    BY <2>1, <2>2, <2>3
  <2>5. QED
    BY <2>4
<1>9. ASSUME NEW n \in N PROVE n + 1 \in N
  <2> SUFFICES ASSUME n + 1 <= L, NEW p \in P, p > L - (n + 1)
               PROVE  f[n + 1][p] = WalkStep(body, p, f[n + 1])
    OBVIOUS
  <2>1. n \in Nat /\ n <= L /\ Done(n)
    BY <1>1
  <2> DEFINE v == f[n]
             w == f[n + 1]
  <2>2. \A q \in P : w[q] = IF q = L - n THEN WalkStep(body, q, v) ELSE v[q]
    BY <1>7, <2>1
  <2> HIDE DEF v, w
  <2>3. \A q \in (p + 1)..(L + 1) : q \in P /\ q # L - n
    BY <1>1, <1>2, <2>1
  <2>4. \A q \in (p + 1)..(L + 1) : v[q] = w[q]
    BY <2>2, <2>3
  <2>5. WalkStep(body, p, v) = WalkStep(body, p, w)
    <3>1. /\ p \in 1..(Len(body) + 1)
          /\ \A q \in (p + 1)..(Len(body) + 1) : v[q] = w[q]
      BY <2>4
    <3> HIDE DEF L, P, V, S, base, Next1, step, F, Done, N
    <3>2. QED
      BY <3>1, WalkLooksBehind, Zenon
  <2>6. CASE p = L - n
    BY <2>2, <2>5, <2>6 DEF w
  <2>7. CASE p # L - n
    <3>1. p > L - n
      BY <1>1, <1>2, <2>1, <2>7
    <3>2. v[p] = WalkStep(body, p, v)
      BY <2>1, <3>1 DEF v
    <3>3. QED
      BY <2>2, <2>5, <2>7, <3>2 DEF w
  <2>8. QED
    BY <2>6, <2>7
<1>10. Done(L)
  <2>1. N \in SUBSET Nat
    OBVIOUS
  <2> HIDE DEF N
  <2>2. N = Nat
    BY <1>8, <1>9, <2>1, Induct
  <2>3. L \in N
    BY <1>1, <2>2
  <2>4. QED
    BY <1>1, <2>3 DEF N
<1>11. \E g : g = F(g)
  <2>1. \A p \in P : f[L][p] = WalkStep(body, p, f[L])
    BY <1>1, <1>2, <1>10
  <2>2. f[L] \in [P -> V]
    BY <1>1, <1>7
  <2> HIDE DEF P, V
  <2>3. f[L] = F(f[L])
    BY <2>1, <2>2
  <2>4. QED
    BY <2>3
<1> DEFINE walk == Walk(body)
<1>12. walk = CHOOSE g : g = F(g)
  BY DEF Walk, WalkStep
<1> HIDE DEF F, walk
<1>13. walk = F(walk)
  BY <1>11, <1>12
<1>14. QED
  BY <1>13 DEF F, walk

\* FlattenSeq() puts one sequence after the other: `parts` is what the first ones
\* come to.
Parts(parts, seqs, T) ==
    /\ parts \in [0..Len(seqs) -> Seq(T)] /\ parts[0] = <<>>
    /\ \A k \in 1..Len(seqs) : parts[k] = parts[k - 1] \o seqs[k]

\* What the first ones come to is there for any sequences.
LEMMA PartsExist ==
    ASSUME NEW T, NEW seqs \in Seq(Seq(T))
    PROVE  \E parts : Parts(parts, seqs, T)
<1> DEFINE n == Len(seqs)
           S == Seq(T)
           base == <<>>
           More(k, s) == IF k < n THEN s \o seqs[k + 1] ELSE s
           step == [x \in Nat \X S |-> More(x[1], x[2])]
<1>1. n \in Nat /\ base \in S /\ \A k \in 1..n : seqs[k] \in S
  BY LenProperties, ElementOfSeq, EmptySeq
<1>2. \A k \in Nat, s \in S : More(k, s) \in S
  <2> SUFFICES ASSUME NEW k \in Nat, NEW s \in S PROVE More(k, s) \in S
    OBVIOUS
  <2>1. k < n => k + 1 \in 1..n
    BY <1>1
  <2>2. \A a, b \in S : a \o b \in S
    BY ConcatProperties
  <2> HIDE DEF S, n
  <2>3. QED
    BY <1>1, <2>1, <2>2
<1>3. step \in Steps(S)
  <2> HIDE DEF More, S
  <2>1. \A x \in Nat \X S : x[1] \in Nat /\ x[2] \in S
    OBVIOUS
  <2>2. QED
    BY <1>2, <2>1 DEF Steps
<1>4. PICK f : Iterates(f, S, base, step)
  <2> HIDE DEF S, base, step
  <2>1. QED
    BY <1>1, <1>3, Recursion
<1>5. f \in [Nat -> S] /\ f[0] = base /\ \A k \in Nat : f[k + 1] = More(k, f[k])
  <2> HIDE DEF S, base, More
  <2>1. QED
    BY <1>4 DEF Iterates
<1> DEFINE parts == [k \in 0..n |-> f[k]]
<1>6. ASSUME NEW k \in 1..n PROVE parts[k] = parts[k - 1] \o seqs[k]
  <2>1. k - 1 \in 0..n /\ k \in 0..n /\ k - 1 \in Nat /\ k - 1 < n /\ (k - 1) + 1 = k
    BY <1>1
  <2>2. f[k] = More(k - 1, f[k - 1])
    BY <1>5, <2>1
  <2>3. QED
    BY <2>1, <2>2
<1>7. parts \in [0..n -> S] /\ parts[0] = <<>>
  <2> HIDE DEF S, More
  <2>1. QED
    BY <1>1, <1>5
<1> HIDE DEF parts
<1>8. Parts(parts, seqs, T)
  BY <1>6, <1>7 DEF Parts
<1>9. QED
  BY <1>8

\* FlattenSeq() puts the sequences one behind the other.
LEMMA FlattenParts ==
    ASSUME NEW T, NEW seqs \in Seq(Seq(T)), NEW parts, Parts(parts, seqs, T)
    PROVE  FlattenSeq(seqs) = parts[Len(seqs)]
<1> DEFINE n == Len(seqs)
           F(f) == [i \in 1..n |-> IF i = 1 THEN seqs[i] ELSE f[i - 1] \o seqs[i]]
           flatten == CHOOSE f : f = F(f)
<1>1. n \in Nat /\ \A k \in 1..n : seqs[k] \in Seq(T)
  BY LenProperties, ElementOfSeq
<1>2. CASE n = 0
  <2>1. seqs = <<>>
    BY <1>2, EmptySeq
  <2>2. QED
    BY <1>2, <2>1 DEF FlattenSeq, Parts
<1>3. CASE n # 0
  <2>1. FlattenSeq(seqs) = flatten[n]
    BY <1>3 DEF FlattenSeq
  <2>2. \A k \in 1..n : parts[k] = IF k = 1 THEN seqs[k] ELSE parts[k - 1] \o seqs[k]
    <3> SUFFICES ASSUME NEW k \in 1..n
                 PROVE  parts[k] = IF k = 1 THEN seqs[k] ELSE parts[k - 1] \o seqs[k]
      OBVIOUS
    <3>1. parts[k] = parts[k - 1] \o seqs[k] /\ parts[0] = <<>>
      BY DEF Parts
    <3>2. <<>> \o seqs[k] = seqs[k]
      BY <1>1, ConcatEmptySeq
    <3>3. k = 1 => k - 1 = 0
      BY <1>1
    <3>4. QED
      BY <3>1, <3>2, <3>3
  <2> DEFINE g == [k \in 1..n |-> parts[k]]
  <2>3. \A k \in 1..n : g[k] = IF k = 1 THEN seqs[k] ELSE g[k - 1] \o seqs[k]
    <3>1. \A k \in 1..n : k # 1 => k - 1 \in 1..n
      BY <1>1
    <3>2. QED
      BY <2>2, <3>1
  <2>4. g = [k \in 1..n |-> g[k]]
    OBVIOUS
  <2> HIDE DEF g
  <2>5. g = F(g)
    <3> DEFINE g1 == [k \in 1..n |-> g[k]]
               g2 == F(g)
    <3>1. g1 = g2
      BY <2>3, Zenon
    <3> HIDE DEF g2
    <3>2. QED
      BY <2>4, <3>1 DEF g2
  <2>6. flatten = F(flatten)
    <3> HIDE DEF F
    <3>1. QED
      BY <2>5
  <2> HIDE DEF flatten
  <2>7. \A k \in 1..n : flatten[k] = IF k = 1 THEN seqs[k] ELSE flatten[k - 1] \o seqs[k]
    BY <2>6
  <2> DEFINE N == {k \in Nat : k + 1 <= n => flatten[k + 1] = parts[k + 1]}
  <2>8. 0 \in N
    <3>1. 1 \in 1..n
      BY <1>1, <1>3
    <3>2. QED
      BY <2>2, <2>7, <3>1
  <2>9. ASSUME NEW k \in N PROVE k + 1 \in N
    <3> SUFFICES ASSUME k + 1 + 1 <= n PROVE flatten[k + 1 + 1] = parts[k + 1 + 1]
      OBVIOUS
    <3> DEFINE m == k + 1 + 1
    <3>1. /\ k \in Nat /\ k + 1 <= n /\ m \in 1..n /\ m # 1 /\ m - 1 = k + 1
          /\ flatten[k + 1] = parts[k + 1]
      BY <1>1
    <3> HIDE DEF m
    <3>2. flatten[m] = parts[m]
      BY <2>2, <2>7, <3>1
    <3>3. QED
      BY <3>2 DEF m
  <2>10. flatten[n] = parts[n]
    <3>1. N \in SUBSET Nat
      OBVIOUS
    <3> HIDE DEF N
    <3>2. N = Nat
      BY <2>8, <2>9, <3>1, Induct
    <3>3. n - 1 \in Nat /\ (n - 1) + 1 = n /\ n <= n
      BY <1>1, <1>3
    <3>4. n - 1 \in N
      BY <3>2, <3>3
    <3>5. QED
      BY <3>3, <3>4 DEF N
  <2>11. QED
    BY <2>1, <2>10
<1>4. QED
  BY <1>2, <1>3

\* A part is in front of every later one.
LEMMA PartsInFront ==
    ASSUME NEW T, NEW seqs \in Seq(Seq(T)), NEW parts, Parts(parts, seqs, T),
           NEW j \in 0..Len(seqs)
    PROVE  \A k \in j..Len(seqs) :
              /\ Len(parts[j]) <= Len(parts[k])
              /\ \A q \in 1..Len(parts[j]) : parts[k][q] = parts[j][q]
<1> DEFINE n == Len(seqs)
           InFront(k) == /\ Len(parts[j]) <= Len(parts[k])
                         /\ \A q \in 1..Len(parts[j]) : parts[k][q] = parts[j][q]
           N == {i \in Nat : j + i <= n => InFront(j + i)}
<1>1. /\ n \in Nat /\ j \in Nat /\ \A k \in 1..n : seqs[k] \in Seq(T)
      /\ \A k \in 0..n : parts[k] \in Seq(T) /\ Len(parts[k]) \in Nat
  BY LenProperties, ElementOfSeq DEF Parts
<1>2. 0 \in N
  <2>1. InFront(j)
    BY <1>1
  <2>2. j + 0 = j
    BY <1>1
  <2>3. QED
    BY <2>1, <2>2
<1>3. ASSUME NEW i \in N PROVE i + 1 \in N
  <2> SUFFICES ASSUME j + (i + 1) <= n PROVE InFront(j + (i + 1))
    OBVIOUS
  <2> DEFINE k == j + i
             m == j + (i + 1)
  <2>1. k \in 0..n /\ m \in 1..n /\ m - 1 = k /\ InFront(k)
    BY <1>1
  <2>2. parts[m] = parts[k] \o seqs[m]
    BY <2>1 DEF Parts
  <2> HIDE DEF k, m
  <2>3. /\ Len(parts[m]) = Len(parts[k]) + Len(seqs[m]) /\ Len(seqs[m]) \in Nat
        /\ \A q \in 1..Len(parts[k]) : parts[m][q] = parts[k][q]
    <3> DEFINE a == parts[k]
               b == seqs[m]
    <3>1. a \in Seq(T) /\ b \in Seq(T)
      BY <1>1, <2>1
    <3>2. Len(a) \in Nat /\ Len(b) \in Nat
      BY <3>1, LenProperties
    <3> HIDE DEF a, b
    <3>3. Len(a \o b) = Len(a) + Len(b) /\ \A q \in 1..Len(a) : (a \o b)[q] = a[q]
      BY <3>1, <3>2, ConcatProperties
    <3>4. QED
      BY <2>2, <3>2, <3>3 DEF a, b
  <2>4. Len(parts[j]) \in Nat /\ Len(parts[k]) \in Nat
    BY <1>1, <2>1
  <2>5. \A q \in 1..Len(parts[j]) : q \in 1..Len(parts[k])
    BY <2>1, <2>4
  <2>6. InFront(m)
    <3> DEFINE first == Len(parts[j])
               before == Len(parts[k])
               more == Len(seqs[m])
    <3>0. first <= before /\ first \in Nat /\ before \in Nat /\ more \in Nat
      BY <2>1, <2>3, <2>4
    <3>a. Len(parts[m]) = before + more
      BY <2>3
    <3> HIDE DEF first, before, more
    <3>b. first <= Len(parts[m])
      BY <3>0, <3>a
    <3>1. Len(parts[j]) <= Len(parts[m])
      BY <3>b DEF first
    <3>2. \A q \in 1..Len(parts[j]) : parts[m][q] = parts[j][q]
      BY <2>1, <2>3, <2>5
    <3>3. QED
      BY <3>1, <3>2
  <2>7. QED
    BY <2>6 DEF m
<1>4. ASSUME NEW k \in j..n PROVE InFront(k)
  <2>1. N \in SUBSET Nat
    OBVIOUS
  <2> HIDE DEF N, InFront
  <2>2. N = Nat
    BY <1>2, <1>3, <2>1, Induct
  <2>3. k - j \in Nat /\ j + (k - j) = k /\ k <= n
    BY <1>1
  <2>4. k - j \in N
    BY <2>2, <2>3
  <2>5. QED
    BY <2>3, <2>4 DEF N
<1>5. QED
  BY <1>4

Word == Nat \X Nat

\* An attribute as a server writes it; only the last one may be cut off.
IsAttribute(a) ==
    /\ a.type \in Nat /\ a.length \in Nat /\ a.cut \in BOOLEAN
    /\ a.cut => a.length > 0
    /\ a.type = AddressAttribute => a.length = 8 /\ a.port \in Nat /\ a.ip \in Word
AreAttributes(attributes) ==
    \A i \in 1..Len(attributes) :
        IsAttribute(attributes[i]) /\ (attributes[i].cut => i = Len(attributes))

\* Its words, the header first.
AreWords(w, a) ==
    /\ w \in Seq(Word) /\ Len(w) \in Nat \ {0}
    /\ w[1] = <<a.type, a.length>>
    /\ a.cut => a.length > 4 * (Len(w) - 1)
    /\ ~a.cut => Len(w) = 1 + (a.length + 3) \div 4
    /\ ~a.cut /\ a.type = AddressAttribute => w[2] = <<IPv4, Xor2112(a.port)>> /\ w[3] = XorCookie(a.ip)

\* Flipping a bit leaves a natural number.
LEMMA FlipNat ==
    ASSUME NEW half \in Nat, NEW bit \in Nat \ {0}
    PROVE  Flip(half, bit) \in Nat
<1>1. CASE half < bit
  <2>1. half \div bit = 0
    BY <1>1
  <2>2. QED
    BY <2>1 DEF Flip
<1>2. CASE half >= bit
  BY <1>2 DEF Flip
<1>3. QED
  BY <1>1, <1>2

LEMMA XorNat ==
    ASSUME NEW half \in Nat
    PROVE  Xor2112(half) \in Nat /\ XorA442(half) \in Nat
<1> DEFINE a == Flip(Flip(Flip(half, 2), 16), 256)
           b == Flip(Flip(Flip(Flip(half, 2), 64), 1024), 8192)
<1>1. a \in Nat
  <2>1. Flip(half, 2) \in Nat
    BY FlipNat
  <2>2. Flip(Flip(half, 2), 16) \in Nat
    BY <2>1, FlipNat
  <2>3. QED
    BY <2>2, FlipNat
<1>2. b \in Nat
  <2>1. Flip(half, 2) \in Nat
    BY FlipNat
  <2>2. Flip(Flip(half, 2), 64) \in Nat
    BY <2>1, FlipNat
  <2>3. Flip(Flip(Flip(half, 2), 64), 1024) \in Nat
    BY <2>2, FlipNat
  <2>4. QED
    BY <2>3, FlipNat
<1>3. Xor2112(half) = Flip(a, 8192) /\ XorA442(half) = Flip(b, 32768)
  BY DEF Xor2112, XorA442
<1> HIDE DEF a, b
<1>4. QED
  BY <1>1, <1>2, <1>3, FlipNat

\* What Words() writes is the header and the value, padded.
LEMMA WordsOf == ASSUME NEW a, IsAttribute(a) PROVE AreWords(Words(a), a)
<1> DEFINE n == (a.length + 3) \div 4
           value == IF a.type = AddressAttribute
                    THEN << <<IPv4, Xor2112(a.port)>>, XorCookie(a.ip) >>
                    ELSE [i \in 1..n |-> Text]
           rest == IF a.cut THEN Front(value) ELSE value
           head == << <<a.type, a.length>> >>
<1>1. /\ n \in Nat /\ a.length <= 4 * n /\ 4 * n <= a.length + 3
      /\ a.cut => n > 0
  BY DEF IsAttribute
<1>2. value \in Seq(Word) /\ Len(value) = n
  <2>1. CASE a.type = AddressAttribute
    <3>1. a.port \in Nat /\ a.ip \in Word /\ n = 2
      BY <2>1 DEF IsAttribute
    <3>2. <<IPv4, Xor2112(a.port)>> \in Word /\ XorCookie(a.ip) \in Word
      BY <3>1, XorNat DEF Word, XorCookie, IPv4
    <3> HIDE DEF n
    <3>3. QED
      BY <2>1, <3>1, <3>2
  <2>2. CASE a.type # AddressAttribute
    <3>1. Text \in Word
      BY DEF Text, Word
    <3> HIDE DEF n
    <3>2. [i \in 1..n |-> Text] \in Seq(Word) /\ Len([i \in 1..n |-> Text]) = n
      BY <1>1, <3>1, IsASeq, LenProperties
    <3>3. QED
      BY <2>2, <3>2
  <2>3. QED
    BY <2>1, <2>2
<1>3. a.type = AddressAttribute => value[1] = <<IPv4, Xor2112(a.port)>> /\ value[2] = XorCookie(a.ip) /\ n = 2
  BY DEF IsAttribute
<1> HIDE DEF n, value
<1>4. rest \in Seq(Word) /\ Len(rest) = IF a.cut THEN n - 1 ELSE n
  <2>1. CASE a.cut
    <3>1. Front(value) = SubSeq(value, 1, n - 1)
      BY <1>2 DEF Front
    <3>2. SubSeq(value, 1, n - 1) \in Seq(Word) /\ Len(SubSeq(value, 1, n - 1)) = n - 1
      BY <1>1, <1>2, <2>1, SubSeqProperties
    <3>3. QED
      BY <2>1, <3>1, <3>2
  <2>2. CASE ~a.cut
    BY <1>2, <2>2
  <2>3. QED
    BY <2>1, <2>2
<1>5. Words(a) = head \o rest
  BY DEF Words, value, n
<1>6. ~a.cut => rest = value
  OBVIOUS
<1>7. head \in Seq(Word) /\ Len(head) = 1 /\ head[1] = <<a.type, a.length>>
  BY DEF IsAttribute, Word
<1> HIDE DEF rest, head
<1>8. /\ head \o rest \in Seq(Word) /\ Len(head \o rest) = 1 + Len(rest)
      /\ (head \o rest)[1] = <<a.type, a.length>>
      /\ \A i \in 1..Len(rest), m \in Nat : m = i + 1 => (head \o rest)[m] = rest[i]
  <2>1. Len(rest) \in Nat
    BY <1>4, LenProperties
  <2>2. /\ head \o rest \in Seq(Word) /\ Len(head \o rest) = Len(head) + Len(rest)
        /\ \A i \in 1..(Len(head) + Len(rest)) :
              (head \o rest)[i] = IF i <= Len(head) THEN head[i] ELSE rest[i - Len(head)]
    BY <1>4, <1>7, ConcatProperties
  <2>3. \A i \in 1..Len(rest), m \in Nat :
           m = i + 1 => m \in 1..(1 + Len(rest)) /\ ~(m <= 1) /\ m - 1 = i
    BY <2>1
  <2>4. 1 \in 1..(1 + Len(rest)) /\ 1 <= 1
    BY <2>1
  <2>5. QED
    BY <1>7, <2>2, <2>3, <2>4
<1>9. Words(a) \in Seq(Word) /\ Words(a)[1] = <<a.type, a.length>>
  BY <1>5, <1>8
<1>10. Len(Words(a)) = IF a.cut THEN n ELSE 1 + n
  BY <1>1, <1>4, <1>5, <1>8
<1>11. Len(Words(a)) \in Nat \ {0}
  BY <1>1, <1>10
<1>12. a.cut => a.length > 4 * (Len(Words(a)) - 1)
  BY <1>1, <1>10 DEF IsAttribute
<1>13. ~a.cut /\ a.type = AddressAttribute =>
          Words(a)[2] = <<IPv4, Xor2112(a.port)>> /\ Words(a)[3] = XorCookie(a.ip)
  <2> SUFFICES ASSUME ~a.cut, a.type = AddressAttribute
               PROVE  Words(a)[2] = <<IPv4, Xor2112(a.port)>> /\ Words(a)[3] = XorCookie(a.ip)
    OBVIOUS
  <2>1. Len(rest) = 2
    BY <1>3, <1>4
  <2>2. 2 = 1 + 1 /\ 3 = 2 + 1 /\ 1 \in 1..Len(rest) /\ 2 \in 1..Len(rest)
    BY <2>1
  <2>3. Words(a)[2] = rest[1] /\ Words(a)[3] = rest[2]
    BY <1>5, <1>8, <2>2
  <2>4. QED
    BY <1>3, <1>6, <2>3
<1>14. QED
  BY <1>9, <1>10, <1>11, <1>12, <1>13 DEF AreWords, n

\* Where the attributes lie in the words of a reply.
Lies(O, A, n) ==
    /\ O \in [1..(n + 1) -> Nat \ {0}] /\ O[1] = 1 /\ O[n + 1] = Len(Written(A)) + 1
    /\ \A k \in 1..n :
          /\ O[k + 1] = O[k] + Len(Words(A[k])) /\ O[k + 1] <= Len(Written(A)) + 1
          /\ \A r \in 1..Len(Words(A[k])), q \in Nat :
                q = O[k] + r - 1 => Written(A)[q] = Words(A[k])[r]

\* What a server writes lies word behind word as WordsOf says.
LEMMA WrittenLies ==
    ASSUME NEW A, NEW n \in Nat, Len(A) = n, AreAttributes(A)
    PROVE  Written(A) \in Seq(Word) /\ \E O : Lies(O, A, n)
<1> DEFINE seqs == [i \in 1..n |-> Words(A[i])]
           body == Written(A)
<1>1. \A i \in 1..n : Words(A[i]) \in Seq(Word)
  BY WordsOf DEF AreAttributes, AreWords
<1>2. seqs \in Seq(Seq(Word)) /\ Len(seqs) = n /\ \A i \in 1..n : seqs[i] = Words(A[i])
  <2> DEFINE W == Seq(Word)
  <2>1. \A i \in 1..n : Words(A[i]) \in W
    BY <1>1
  <2> HIDE DEF W
  <2>2. seqs \in Seq(W)
    BY <2>1, IsASeq
  <2>3. Len(seqs) = n
    BY <2>2, LenProperties
  <2>4. QED
    BY <2>2, <2>3 DEF W
<1>3. body = FlattenSeq(seqs)
  BY DEF Written
<1> HIDE DEF seqs, body
<1>4. PICK parts : Parts(parts, seqs, Word)
  BY <1>2, PartsExist
<1>5. body = parts[n]
  BY <1>2, <1>3, <1>4, FlattenParts
<1>6. /\ parts \in [0..n -> Seq(Word)] /\ parts[0] = <<>>
      /\ \A k \in 1..n : parts[k] = parts[k - 1] \o Words(A[k])
  BY <1>2, <1>4 DEF Parts
<1>7. \A k \in 0..n : parts[k] \in Seq(Word) /\ Len(parts[k]) \in Nat
  BY <1>6, LenProperties
<1> DEFINE O == [k \in 1..(n + 1) |-> Len(parts[k - 1]) + 1]
<1>8. /\ body \in Seq(Word) /\ O \in [1..(n + 1) -> Nat \ {0}]
      /\ O[1] = 1 /\ O[n + 1] = Len(body) + 1
  <2>1. \A k \in 1..(n + 1) : k - 1 \in 0..n
    OBVIOUS
  <2>2. O \in [1..(n + 1) -> Nat \ {0}]
    BY <1>7, <2>1
  <2>3. 1 \in 1..(n + 1) /\ n + 1 \in 1..(n + 1) /\ 1 - 1 = 0 /\ (n + 1) - 1 = n /\ n \in 0..n
    OBVIOUS
  <2>4. Len(parts[0]) = 0
    BY <1>6
  <2>5. O[1] = 1
    BY <2>3, <2>4
  <2>6. O[n + 1] = Len(body) + 1
    BY <1>5, <2>3
  <2>7. QED
    BY <1>5, <1>7, <2>2, <2>3, <2>5, <2>6
<1>9. ASSUME NEW k \in 1..n
      PROVE  /\ O[k + 1] = O[k] + Len(Words(A[k])) /\ O[k + 1] <= Len(body) + 1
             /\ \A r \in 1..Len(Words(A[k])), q \in Nat :
                   q = O[k] + r - 1 => body[q] = Words(A[k])[r]
  <2> DEFINE a == parts[k - 1]
             b == parts[k]
             w == Words(A[k])
  <2>1. /\ k \in 0..n /\ k - 1 \in 0..n /\ k \in 1..(n + 1) /\ k + 1 \in 1..(n + 1)
        /\ (k + 1) - 1 = k /\ n \in k..n
    OBVIOUS
  <2>2. O[k] = Len(a) + 1 /\ O[k + 1] = Len(b) + 1
    BY <2>1
  <2>3. a \in Seq(Word) /\ w \in Seq(Word) /\ b = a \o w
    BY <1>1, <1>6, <1>7, <2>1
  <2>4. Len(b) <= Len(body) /\ \A q \in 1..Len(b) : body[q] = b[q]
    <3>1. k \in 0..Len(seqs) /\ n \in k..Len(seqs)
      BY <1>2, <2>1
    <3> HIDE DEF O, a, w
    <3>2. QED
      BY <1>2, <1>4, <1>5, <3>1, PartsInFront
  <2> HIDE DEF O, a, b, w
  <2>5. Len(a) \in Nat /\ Len(w) \in Nat
    BY <2>3, LenProperties
  <2>6. /\ Len(b) = Len(a) + Len(w)
        /\ \A q \in 1..(Len(a) + Len(w)) : b[q] = IF q <= Len(a) THEN a[q] ELSE w[q - Len(a)]
    BY <2>3, <2>5, ConcatProperties
  <2>7. O[k + 1] = O[k] + Len(w) /\ O[k + 1] <= Len(body) + 1
    <3>1. Len(body) \in Nat
      BY <1>8, LenProperties
    <3>2. QED
      BY <2>2, <2>4, <2>5, <2>6, <3>1
  <2>8. ASSUME NEW r \in 1..Len(w), NEW q \in Nat, q = O[k] + r - 1
        PROVE  body[q] = w[r]
    <3>1. q \in 1..(Len(a) + Len(w)) /\ ~(q <= Len(a)) /\ q - Len(a) = r
      BY <2>2, <2>5, <2>8
    <3>2. b[q] = w[r]
      BY <2>6, <3>1
    <3>3. QED
      BY <2>4, <2>6, <3>1, <3>2
  <2>9. QED
    BY <2>7, <2>8 DEF w
<1> HIDE DEF O
<1>10. Lies(O, A, n)
  BY <1>8, <1>9 DEF body, Lies
<1>11. QED
  BY <1>8, <1>10 DEF body

\* parse_response() reads a whole reply as ReadOf() says.
LEMMA MappedReads ==
    ASSUME NEW A, NEW n \in Nat, Len(A) = n, AreAttributes(A)
    PROVE  Mapped(Written(A)) = ReadOf(A)
<1> DEFINE body == Written(A)
           walk == Walk(body)
<1>0. body \in Seq(Word)
  BY WrittenLies
<1>o. PICK O : Lies(O, A, n)
  BY WrittenLies
<1>1. /\ O \in [1..(n + 1) -> Nat \ {0}] /\ O[1] = 1 /\ O[n + 1] = Len(body) + 1
      /\ \A k \in 1..n :
            /\ O[k + 1] = O[k] + Len(Words(A[k]))
            /\ O[k + 1] <= Len(body) + 1
            /\ \A r \in 1..Len(Words(A[k])), q \in Nat :
                  q = O[k] + r - 1 => body[q] = Words(A[k])[r]
  BY <1>o DEF Lies
<1> HIDE DEF body
<1>2. Len(body) \in Nat
  BY <1>0, LenProperties
<1>3. \A p \in 1..(Len(body) + 1) : walk[p] = WalkStep(body, p, walk)
  BY <1>0, WalkDef DEF Word
<1>4. Mapped(body) = walk[1]
  BY DEF Mapped
<1> HIDE DEF walk
<1> DEFINE Addresses(k) == {i \in k..n : ~A[i].cut /\ A[i].type = AddressAttribute}
           Told(m) == IF m = n THEN Panic ELSE Address(XorCookie(A[m].ip), A[m + 1].type)
           Tells(k) == \/ Addresses(k) = {} /\ walk[O[k]] = Unread
                       \/ \E m \in Addresses(k) :
                             /\ \A i \in Addresses(k) : m >= i
                             /\ walk[O[k]] = Told(m)
<1>5. Tells(n + 1)
  <2>1. Addresses(n + 1) = {}
    OBVIOUS
  <2>2. Len(body) + 1 \in 1..(Len(body) + 1) /\ Len(body) + 1 > Len(body)
    BY <1>2
  <2>3. walk[Len(body) + 1] = Unread
    BY <1>3, <2>2 DEF WalkStep
  <2>4. QED
    BY <1>1, <2>1, <2>3
<1>6. /\ \A m : Told(m) # Unread
      /\ \A m : m # n => Told(m) # Panic
      /\ Unread # Panic
  <2>1. Unread # Panic
    BY DEF Unread, Panic
  <2>2. \A ip, type : Address(ip, type).says = "address"
    BY DEF Address
  <2>3. Unread.says # "address" /\ Panic.says # "address"
    BY DEF Unread, Panic
  <2>4. QED
    BY <2>1, <2>2, <2>3
<1>7. ASSUME NEW k \in 1..n, Tells(k + 1) PROVE Tells(k)
  <2> DEFINE w == Words(A[k])
             a == A[k]
             p == O[k]
             next == O[k + 1]
  <2>1. /\ IsAttribute(a) /\ (a.cut => k = n)
        /\ k \in Nat /\ k + 1 \in Nat /\ k \in 1..(n + 1) /\ k + 1 \in 1..(n + 1)
    BY DEF AreAttributes
  <2>2. p \in Nat \ {0} /\ next \in Nat \ {0} /\ next = p + Len(w) /\ next <= Len(body) + 1
    BY <1>1, <2>1
  <2>3. /\ Len(w) \in Nat \ {0} /\ w[1] = <<a.type, a.length>>
        /\ a.cut => a.length > 4 * (Len(w) - 1)
        /\ ~a.cut => Len(w) = 1 + (a.length + 3) \div 4
        /\ ~a.cut /\ a.type = AddressAttribute => w[2] = <<IPv4, Xor2112(a.port)>> /\ w[3] = XorCookie(a.ip)
    <3>1. AreWords(w, a)
      BY <2>1, WordsOf
    <3> HIDE DEF w, a
    <3>2. QED
      BY <3>1 DEF AreWords
  <2>4. \A r \in 1..Len(w), q \in Nat : q = p + r - 1 => body[q] = w[r]
    BY <1>1
  <2>5. p \in 1..Len(body) /\ p \in 1..(Len(body) + 1)
    BY <1>2, <2>2, <2>3
  <2>6. body[p] = <<a.type, a.length>>
    <3>1. 1 \in 1..Len(w) /\ p = p + 1 - 1
      BY <2>2, <2>3
    <3>2. QED
      BY <2>2, <2>3, <2>4, <3>1
  <2>7. walk[p] = WalkStep(body, p, walk)
    BY <1>3, <2>5
  <2> HIDE DEF a
  <2>8. a.type \in Nat /\ a.length \in Nat /\ a.cut \in BOOLEAN
    BY <2>1 DEF IsAttribute
  <2>9. Addresses(k) = Addresses(k + 1) \cup
                          {i \in {k} : ~a.cut /\ a.type = AddressAttribute}
    BY DEF a
  <2>10. \A i \in Addresses(k + 1) : i > k /\ i \in Nat
    BY <2>1
  <2>11. CASE a.cut
    <3>1. k = n
      BY <2>1, <2>11
    <3>2. a.length > 4 * (Len(body) - p)
      <4>1. next = Len(body) + 1
        BY <1>1, <3>1
      <4>2. Len(w) - 1 = Len(body) - p
        BY <1>2, <2>2, <2>3, <4>1
      <4>3. QED
        BY <2>3, <2>11, <4>2
    <3>3. ~(p > Len(body)) /\ body[p][2] > 4 * (Len(body) - p)
      BY <1>2, <2>5, <2>6, <3>2
    <3>4. walk[p] = Unread
      BY <2>7, <3>3, Zenon DEF WalkStep
    <3>5. Addresses(k) = {}
      <4>1. Addresses(k + 1) = {}
        BY <3>1
      <4>2. QED
        BY <2>9, <2>11, <4>1
    <3> HIDE DEF Addresses
    <3>6. QED
      BY <3>4, <3>5
  <2>12. CASE ~a.cut
    <3> DEFINE here == ValueAt(body, p)
               rest == walk[next]
    <3>1. next = p + 1 + (body[p][2] + 3) \div 4
      <4>1. body[p][2] = a.length
        BY <2>6
      <4> DEFINE m == (a.length + 3) \div 4
      <4>2. m \in Nat
        BY <2>8
      <4>3. Len(w) = 1 + m
        BY <2>3, <2>12
      <4> HIDE DEF m
      <4>4. next = p + 1 + m
        BY <2>2, <4>2, <4>3
      <4>5. QED
        BY <4>1, <4>4 DEF m
    <3>2. ~(p > Len(body)) /\ ~(body[p][2] > 4 * (Len(body) - p))
      <4>1. body[p][2] = a.length
        BY <2>6
      <4>2. p + 1 + (a.length + 3) \div 4 <= Len(body) + 1
        BY <2>2, <3>1, <4>1
      <4> DEFINE m == (a.length + 3) \div 4
      <4>m. m \in Nat /\ a.length <= 4 * m
        BY <2>8
      <4> HIDE DEF m
      <4>n. p + 1 + m <= Len(body) + 1
        BY <4>2 DEF m
      <4> DEFINE left == Len(body) - p
                 length == a.length
      <4>i. length \in Nat /\ length <= 4 * m
        BY <2>8, <4>m DEF length
      <4>j. p \in Nat
        BY <2>2, Zenon
      <4>l. left \in Int /\ m <= left
        <5> HIDE DEF p, here, rest, length
        <5>1. QED
          BY <1>2, <4>j, <4>m, <4>n DEF left
      <4> HIDE DEF left, length
      <4>o. length <= 4 * left
        BY <4>m, <4>i, <4>l
      <4>3. a.length <= 4 * (Len(body) - p)
        BY <4>o DEF left, length
      <4>4. QED
        BY <1>2, <2>5, <2>8, <4>1, <4>3
    <3>3. walk[p] = IF here = Panic \/ rest = Unread THEN here ELSE rest
      BY <2>7, <3>1, <3>2, Zenon DEF WalkStep
    <3>4. CASE a.type # AddressAttribute
      <4>1. here = Unread
        <5>1. body[p][1] # AddressAttribute
          BY <2>6, <3>4
        <5>2. QED
          BY <5>1 DEF ValueAt
      <4>2. walk[p] = rest
        BY <1>6, <3>3, <4>1
      <4>3. Addresses(k) = Addresses(k + 1)
        BY <2>9, <3>4
      <4> HIDE DEF Addresses, Told
      <4>4. QED
        BY <1>7, <4>2, <4>3
    <3>5. CASE a.type = AddressAttribute
      <4>1. Len(w) = 3 /\ next = p + 3 /\ a.length = 8
        <5>1. a.length = 8
          BY <2>1, <3>5 DEF IsAttribute
        <5>2. Len(w) = 1 + (8 + 3) \div 4
          BY <2>3, <2>12, <5>1
        <5>3. Len(w) = 3
          BY <5>2
        <5>4. QED
          BY <2>2, <5>1, <5>3
      <4>2. body[p + 1] = <<IPv4, Xor2112(a.port)>> /\ body[p + 2] = XorCookie(a.ip)
        <5>1. 2 \in 1..Len(w) /\ 3 \in 1..Len(w) /\ p + 1 = p + 2 - 1 /\ p + 2 = p + 3 - 1
              /\ p + 1 \in Nat /\ p + 2 \in Nat
          BY <2>2, <4>1
        <5>2. body[p + 1] = w[2] /\ body[p + 2] = w[3]
          BY <2>4, <5>1
        <5>3. QED
          BY <2>3, <2>12, <3>5, <5>2
      <4>3. here = IF p + 3 > Len(body) THEN Panic ELSE Address(XorCookie(a.ip), body[p + 3][1])
        <5>1. body[p][1] = AddressAttribute /\ body[p][2] >= 8 /\ body[p + 1][1] = IPv4
          BY <2>6, <3>5, <4>1, <4>2
        <5>2. QED
          BY <4>2, <5>1 DEF ValueAt
      <4>4. here = Told(k)
        <5>0. a = A[k]
          BY DEF a
        <5>1. CASE k = n
          <6>1. p + 3 > Len(body)
            BY <1>1, <1>2, <2>2, <4>1, <5>1
          <6>2. QED
            BY <4>3, <5>1, <6>1
        <5>2. CASE k # n
          <6> DEFINE v == Words(A[k + 1])
          <6>1. k + 1 \in 1..n
            BY <5>2
          <6>2. Len(v) \in Nat \ {0} /\ v[1] = <<A[k + 1].type, A[k + 1].length>>
            BY <6>1, WordsOf DEF AreAttributes, AreWords
          <6>3. /\ O[k + 1 + 1] = next + Len(v) /\ O[k + 1 + 1] <= Len(body) + 1
                /\ \A r \in 1..Len(v), q \in Nat : q = next + r - 1 => body[q] = v[r]
            BY <1>1, <6>1
          <6>4. 1 \in 1..Len(v) /\ next = next + 1 - 1 /\ ~(next > Len(body))
            BY <1>2, <2>2, <6>2, <6>3
          <6>5. body[next] = v[1]
            BY <2>2, <6>3, <6>4
          <6> HIDE DEF v, next
          <6>6. body[p + 3][1] = A[k + 1].type /\ ~(p + 3 > Len(body))
            BY <4>1, <6>2, <6>4, <6>5
          <6>7. QED
            BY <4>3, <5>0, <5>2, <6>6
        <5>3. QED
          BY <5>1, <5>2
      <4>5. Addresses(k) = Addresses(k + 1) \cup {k}
        BY <2>9, <2>12, <3>5
      <4>6. CASE Addresses(k + 1) = {}
        <5>1. rest = Unread
          BY <1>7, <4>6
        <5> HIDE DEF Addresses, Told
        <5>2. walk[p] = Told(k)
          BY <3>3, <4>4, <5>1
        <5>3. \A i \in Addresses(k) : k >= i
          BY <2>1, <4>5, <4>6
        <5>4. QED
          BY <4>5, <5>2, <5>3
      <4>7. CASE Addresses(k + 1) # {}
        <5> HIDE DEF Addresses
        <5>1. PICK m \in Addresses(k + 1) : (\A i \in Addresses(k + 1) : m >= i) /\ rest = Told(m)
          BY <1>7, <4>7
        <5>2. k # n
          BY <2>1, <4>7 DEF Addresses
        <5>3. here # Panic
          BY <1>6, <4>4, <5>2
        <5>4. walk[p] = Told(m)
          BY <1>6, <3>3, <5>1, <5>3
        <5>5. \A i \in Addresses(k) : m >= i
          BY <2>1, <2>10, <4>5, <5>1
        <5> HIDE DEF Told
        <5>6. QED
          BY <4>5, <5>1, <5>4, <5>5
      <4>8. QED
        BY <4>6, <4>7
    <3>6. QED
      BY <3>4, <3>5
  <2>13. QED
    BY <2>8, <2>11, <2>12
<1> DEFINE N == {i \in Nat : i <= n => Tells(n + 1 - i)}
<1>8. 0 \in N
  <2> HIDE DEF Tells
  <2>1. n + 1 - 0 = n + 1
    OBVIOUS
  <2>2. QED
    BY <1>5, <2>1
<1>9. ASSUME NEW i \in N PROVE i + 1 \in N
  <2> SUFFICES ASSUME i + 1 <= n PROVE Tells(n + 1 - (i + 1))
    OBVIOUS
  <2> DEFINE k == n + 1 - (i + 1)
  <2> HIDE DEF Tells
  <2>1. i \in Nat /\ k \in 1..n /\ n + 1 - i = k + 1 /\ Tells(n + 1 - i)
    OBVIOUS
  <2> HIDE DEF k
  <2>2. Tells(k)
    BY <1>7, <2>1
  <2>3. QED
    BY <2>2 DEF k
<1>10. Tells(1)
  <2>1. N \in SUBSET Nat
    OBVIOUS
  <2> HIDE DEF N, Tells
  <2>2. N = Nat
    BY <1>8, <1>9, <2>1, Induct
  <2>3. n \in N /\ n + 1 - n = 1 /\ n <= n
    BY <2>2
  <2>4. Tells(n + 1 - n)
    BY <2>3 DEF N
  <2>5. QED
    BY <2>3, <2>4
<1> DEFINE S == Addresses(1)
<1>11. ReadOf(A) = IF S = {} THEN Unread ELSE Told(Max(S))
  <2>1. S = {i \in {h \in 1..n : \A j \in 1..h : ~A[j].cut} : A[i].type = AddressAttribute}
    <3>1. \A i \in 1..n : \A j \in 1..i : j # i => ~A[j].cut
      BY DEF AreAttributes
    <3>2. \A i \in 1..n : i \in 1..i
      OBVIOUS
    <3>3. \A i \in 1..n : ~A[i].cut <=> \A j \in 1..i : ~A[j].cut
      BY <3>1, <3>2
    <3>4. QED
      BY <3>3
  <2> HIDE DEF S
  <2>2. QED
    BY <2>1 DEF ReadOf
<1>12. walk[1] = IF S = {} THEN Unread ELSE Told(Max(S))
  <2>1. S \subseteq Nat
    OBVIOUS
  <2>2. \/ S = {} /\ walk[1] = Unread
        \/ \E m \in S : (\A i \in S : m >= i) /\ walk[1] = Told(m)
    <3> HIDE DEF Addresses, Told
    <3>1. QED
      BY <1>1, <1>10
  <2> HIDE DEF S, Told
  <2>3. ASSUME NEW m \in S, \A i \in S : m >= i PROVE Max(S) = m
    <3>1. Max(S) \in S /\ \A i \in S : Max(S) >= i
      BY <2>3 DEF Max
    <3> DEFINE max == Max(S)
    <3>2. max \in Nat /\ m \in Nat /\ m >= max /\ max >= m
      BY <2>1, <2>3, <3>1
    <3> HIDE DEF max
    <3>3. max = m
      BY <3>2
    <3>4. QED
      BY <3>3 DEF max
  <2>4. QED
    BY <2>2, <2>3
<1>13. QED
  BY <1>4, <1>11, <1>12 DEF body

-----------------------------------------------------------------------------
(* More of Only(), and what sequences hold. *)

\* The elements of a sequence.
LEMMA RangeOf ==
    ASSUME NEW T, NEW s \in Seq(T)
    PROVE  /\ Range(s) \subseteq T
           /\ \A x : x \in Range(s) <=> \E i \in 1..Len(s) : s[i] = x
<1>1. DOMAIN s = 1..Len(s) /\ \A i \in 1..Len(s) : s[i] \in T
  BY LenProperties, ElementOfSeq
<1>2. QED
  BY <1>1 DEF Range

\* One more at the end.
LEMMA RangeAppend ==
    ASSUME NEW T, NEW s \in Seq(T), NEW e \in T
    PROVE  Range(Append(s, e)) = Range(s) \cup {e}
<1> DEFINE r == Append(s, e)
<1>1. /\ r \in Seq(T) /\ Len(r) = Len(s) + 1 /\ r[Len(s) + 1] = e /\ Len(s) \in Nat
      /\ \A i \in 1..Len(s) : r[i] = s[i]
  BY AppendProperties, LenProperties
<1> HIDE DEF r
<1>2. \A i \in 1..Len(r) : i \in 1..Len(s) \/ i = Len(s) + 1
  BY <1>1
<1>3. Len(s) + 1 \in 1..Len(r) /\ \A i \in 1..Len(s) : i \in 1..Len(r)
  BY <1>1
<1>4. ASSUME NEW x PROVE x \in Range(r) <=> x \in Range(s) \cup {e}
  <2>1. x \in Range(r) <=> \E i \in 1..Len(r) : r[i] = x
    BY <1>1, RangeOf
  <2>2. x \in Range(s) <=> \E i \in 1..Len(s) : s[i] = x
    BY RangeOf
  <2>3. QED
    BY <1>1, <1>2, <1>3, <2>1, <2>2
<1>5. QED
  BY <1>4 DEF r

\* What is left is what is in the set.
LEMMA OnlyRange ==
    ASSUME NEW T, NEW s \in Seq(T), NEW S
    PROVE  Range(Only(s, S)) = Range(s) \cap S
<1> DEFINE Q == {q \in Seq(T) : Range(Only(q, S)) = Range(q) \cap S}
<1>1. <<>> \in Q
  <2>1. Range(<<>>) = {}
    BY RangeOf, EmptySeq DEF Range
  <2>2. QED
    BY <2>1, OnlyEmpty, EmptySeq
<1>2. ASSUME NEW q \in Q, NEW e \in T PROVE Append(q, e) \in Q
  <2>1. q \in Seq(T) /\ Append(q, e) \in Seq(T) /\ Only(q, S) \in Seq(T)
    BY OnlyType, AppendProperties
  <2>2. Range(Append(q, e)) = Range(q) \cup {e}
    BY <2>1, RangeAppend
  <2>3. Range(Append(Only(q, S), e)) = Range(Only(q, S)) \cup {e}
    BY <2>1, RangeAppend
  <2>4. Only(Append(q, e), S) = IF e \in S THEN Append(Only(q, S), e) ELSE Only(q, S)
    BY <2>1, OnlyAppend
  <2>5. Range(Only(q, S)) = Range(q) \cap S
    OBVIOUS
  <2>6. Range(Only(Append(q, e), S)) = Range(Append(q, e)) \cap S
    BY <2>2, <2>3, <2>4, <2>5
  <2>7. QED
    BY <2>1, <2>6
<1>3. Q \in SUBSET Seq(T)
  OBVIOUS
<1> HIDE DEF Q
<1>4. Q = Seq(T)
  BY <1>1, <1>2, <1>3, SeqInduct
<1>5. QED
  BY <1>4 DEF Q

\* The head of what is left is the first entry in the set.
FirstIn(s, S, h) ==
    \E i \in 1..Len(s) : s[i] = h /\ h \in S /\ \A j \in 1..(i - 1) : s[j] \notin S

\* It is where the first is found, if any.
LEMMA OnlyHead ==
    ASSUME NEW T, NEW s \in Seq(T), NEW S
    PROVE  /\ Only(s, S) = <<>> => \A i \in 1..Len(s) : s[i] \notin S
           /\ Only(s, S) # <<>> => FirstIn(s, S, Head(Only(s, S)))
<1> DEFINE Fits(q) == /\ Only(q, S) = <<>> => \A i \in 1..Len(q) : q[i] \notin S
                      /\ Only(q, S) # <<>> => FirstIn(q, S, Head(Only(q, S)))
           Q == {q \in Seq(T) : Fits(q)}
<1>1. <<>> \in Q
  <2>1. Only(<<>>, S) = <<>> /\ <<>> \in Seq(T) /\ Len(<<>>) = 0
    BY OnlyEmpty, EmptySeq
  <2>2. Fits(<<>>)
    BY <2>1
  <2>3. QED
    BY <2>1, <2>2
<1>2. ASSUME NEW q \in Q, NEW e \in T PROVE Append(q, e) \in Q
  <2> DEFINE r == Append(q, e)
             o == Only(q, S)
             n == Len(q)
  <2>1. /\ q \in Seq(T) /\ r \in Seq(T) /\ o \in Seq(T) /\ n \in Nat
        /\ Len(r) = n + 1 /\ r[n + 1] = e /\ \A i \in 1..n : r[i] = q[i]
    <3>1. q \in Seq(T) /\ n \in Nat
      BY LenProperties
    <3>2. o \in Seq(T)
      BY <3>1, OnlyType
    <3> HIDE DEF o, Q, Fits
    <3>3. /\ r \in Seq(T) /\ Len(r) = n + 1 /\ r[n + 1] = e
          /\ \A i \in 1..n : r[i] = q[i]
      BY <3>1, AppendProperties
    <3>4. QED
      BY <3>1, <3>2, <3>3
  <2>2. Only(r, S) = IF e \in S THEN Append(o, e) ELSE o
    BY <2>1, OnlyAppend
  <2>3. Fits(q)
    OBVIOUS
  <2>4. \A i \in 1..n : i \in 1..Len(r) /\ i - 1 <= n /\ \A j \in 1..(i - 1) : j \in 1..n
    BY <2>1
  <2>5. \A i \in 1..Len(r) : i \in 1..n \/ i = n + 1
    BY <2>1
  <2> HIDE DEF r, o, n
  <2>6. CASE o # <<>>
    <3>1. PICK i \in 1..Len(q) :
             /\ q[i] = Head(o) /\ Head(o) \in S
             /\ \A j \in 1..(i - 1) : q[j] \notin S
      BY <2>3, <2>6 DEF FirstIn, o
    <3>2. i \in 1..Len(r) /\ r[i] = Head(o) /\ \A j \in 1..(i - 1) : r[j] \notin S
      BY <2>1, <2>4, <3>1 DEF n
    <3>3. FirstIn(r, S, Head(o))
      BY <3>1, <3>2 DEF FirstIn
    <3>4. Head(Append(o, e)) = Head(o) /\ Append(o, e) # <<>>
      BY <2>1, <2>6, HeadTailAppend, AppendProperties
    <3>5. Only(r, S) # <<>> /\ Head(Only(r, S)) = Head(o)
      BY <2>2, <2>6, <3>4
    <3>6. QED
      BY <2>1, <3>3, <3>5 DEF r
  <2>7. CASE o = <<>> /\ e \notin S
    <3>1. Only(r, S) = <<>>
      BY <2>2, <2>7
    <3>2. \A i \in 1..n : q[i] \notin S
      BY <2>3, <2>7 DEF n, o
    <3>3. \A i \in 1..Len(r) : r[i] \notin S
      BY <2>1, <2>5, <2>7, <3>2
    <3>4. QED
      BY <2>1, <3>1, <3>3 DEF r
  <2>8. CASE o = <<>> /\ e \in S
    <3>1. Only(r, S) = <<e>>
      BY <2>2, <2>8
    <3>2. \A i \in 1..n : r[i] \notin S
      BY <2>1, <2>3, <2>8 DEF n, o
    <3>3. n + 1 \in 1..Len(r) /\ (n + 1) - 1 = n
      BY <2>1
    <3>4. FirstIn(r, S, e)
      BY <2>1, <2>8, <3>2, <3>3 DEF FirstIn
    <3>5. Only(r, S) # <<>> /\ Head(Only(r, S)) = e
      BY <3>1
    <3>6. QED
      BY <2>1, <3>4, <3>5 DEF r
  <2>9. QED
    BY <2>6, <2>7, <2>8
<1>3. Q \in SUBSET Seq(T)
  OBVIOUS
<1> HIDE DEF Q
<1>4. Q = Seq(T)
  BY <1>1, <1>2, <1>3, SeqInduct
<1>5. QED
  BY <1>4 DEF Q

\* If the entries in the set are those in front, those are what is left.
InFront(s, S, m) == m \in 0..Len(s) /\ \A i \in 1..Len(s) : s[i] \in S <=> i <= m

\* Those are left, as they are, and a prefix.
LEMMA OnlyFront ==
    ASSUME NEW T, NEW s \in Seq(T), NEW S, NEW m, InFront(s, S, m)
    PROVE  /\ Only(s, S) \in Seq(T) /\ Len(Only(s, S)) = m
           /\ \A i \in 1..m : Only(s, S)[i] = s[i]
           /\ IsPrefix(Only(s, S), s)
<1> DEFINE L == Len(s)
           kept == Keeping(s, S)
<1>1. /\ L \in Nat /\ m \in Nat /\ m <= L /\ \A i \in 1..L : s[i] \in T
      /\ \A i \in 1..L : s[i] \in S <=> i <= m
  BY LenProperties, ElementOfSeq DEF InFront
<1>2. /\ kept[0] = <<>>
      /\ \A i \in 1..L : kept[i] = IF s[i] \in S THEN Append(kept[i - 1], s[i])
                                   ELSE kept[i - 1]
  BY KeepingDef
<1> HIDE DEF kept
<1> DEFINE Until(i) == IF i <= m THEN i ELSE m
           Fits(i) == /\ kept[i] \in Seq(T) /\ Len(kept[i]) = Until(i)
                      /\ \A j \in 1..Until(i) : kept[i][j] = s[j]
           N == {i \in Nat : i <= L => Fits(i)}
<1>3. 0 \in N
  <2>1. Until(0) = 0 /\ kept[0] \in Seq(T) /\ Len(kept[0]) = 0
    BY <1>1, <1>2, EmptySeq
  <2>2. QED
    BY <2>1
<1>4. ASSUME NEW i \in N PROVE i + 1 \in N
  <2> SUFFICES ASSUME i + 1 <= L PROVE Fits(i + 1)
    OBVIOUS
  <2>1. i \in Nat /\ i + 1 \in 1..L /\ (i + 1) - 1 = i /\ Fits(i)
    BY <1>1
  <2>2. kept[i + 1] = IF s[i + 1] \in S THEN Append(kept[i], s[i + 1]) ELSE kept[i]
    BY <1>2, <2>1
  <2>3. CASE i + 1 <= m
    <3> DEFINE k == kept[i]
               e == s[i + 1]
               r == Append(k, e)
    <3>1. kept[i + 1] = r /\ e \in T /\ k \in Seq(T) /\ Len(k) = i
          /\ \A j \in 1..i : k[j] = s[j]
      BY <1>1, <2>1, <2>2, <2>3
    <3> HIDE DEF k, e
    <3>2. r \in Seq(T) /\ Len(r) = i + 1 /\ r[i + 1] = e /\ \A j \in 1..i : r[j] = k[j]
      BY <3>1, AppendProperties
    <3> HIDE DEF r
    <3>3. \A j \in 1..(i + 1) : j \in 1..i \/ j = i + 1
      BY <2>1
    <3>4. Until(i + 1) = i + 1
      BY <2>3
    <3>5. \A j \in 1..(i + 1) : r[j] = s[j]
      BY <3>1, <3>2, <3>3 DEF e
    <3>6. QED
      BY <3>1, <3>2, <3>4, <3>5
  <2>4. CASE ~(i + 1 <= m)
    <3>1. kept[i + 1] = kept[i] /\ Until(i + 1) = m /\ Until(i) = m
      BY <1>1, <2>1, <2>2, <2>4
    <3>2. QED
      BY <2>1, <3>1
  <2>5. QED
    BY <2>3, <2>4
<1>5. Fits(L)
  <2>1. N \in SUBSET Nat
    OBVIOUS
  <2> HIDE DEF N, Fits
  <2>2. N = Nat
    BY <1>3, <1>4, <2>1, Induct
  <2>3. L \in N /\ L <= L
    BY <1>1, <2>2
  <2>4. QED
    BY <2>3 DEF N
<1> DEFINE used == kept[L]
<1>6. used \in Seq(T) /\ Len(used) = m /\ \A j \in 1..m : used[j] = s[j]
  <2>1. Until(L) = m
    BY <1>1
  <2>2. QED
    BY <1>5, <2>1
<1>7. used = Only(s, S)
  BY DEF Only, kept
<1> HIDE DEF used
<1>8. SubSeq(used, 1, m) = SubSeq(s, 1, m)
  BY <1>1, <1>6
<1>9. IsPrefix(used, s)
  BY <1>1, <1>6, <1>8 DEF IsPrefix
<1>10. QED
  BY <1>6, <1>7, <1>9

-----------------------------------------------------------------------------
(* base64_encode(). *)

\* The bits of the digits of a chunk are those of its bytes.
BitsAgree(x, y, z) ==
    /\ \A p \in 0..5 : Bit(x \div 4, p) = Bit(x, p + 2)
    /\ \A p \in 4..5 : Bit((x % 4) * 16 + y \div 16, p) = Bit(x, p - 4)
    /\ \A p \in 0..3 : Bit((x % 4) * 16 + y \div 16, p) = Bit(y, p + 4)
    /\ \A p \in 2..5 : Bit((y % 16) * 4 + z \div 64, p) = Bit(y, p - 2)
    /\ \A p \in 0..1 : Bit((y % 16) * 4 + z \div 64, p) = Bit(z, p + 6)
    /\ \A p \in 0..5 : Bit(z % 64, p) = Bit(z, p)

\* For any three bytes.
LEMMA ChunkBits ==
    ASSUME NEW x \in 0..255, NEW y \in 0..255, NEW z \in 0..255
    PROVE  BitsAgree(x, y, z)
<1>1. Bit(x \div 4, 0) = Bit(x, 2) /\ Bit(x \div 4, 1) = Bit(x, 3)
  BY DEF Bit
<1>2. Bit(x \div 4, 2) = Bit(x, 4) /\ Bit(x \div 4, 3) = Bit(x, 5)
  BY DEF Bit
<1>3. Bit(x \div 4, 4) = Bit(x, 6) /\ Bit(x \div 4, 5) = Bit(x, 7)
  BY DEF Bit
<1>4. /\ Bit((x % 4) * 16 + y \div 16, 4) = Bit(x, 0)
      /\ Bit((x % 4) * 16 + y \div 16, 5) = Bit(x, 1)
  BY DEF Bit
<1>5. /\ Bit((x % 4) * 16 + y \div 16, 0) = Bit(y, 4)
      /\ Bit((x % 4) * 16 + y \div 16, 1) = Bit(y, 5)
  BY DEF Bit
<1>6. /\ Bit((x % 4) * 16 + y \div 16, 2) = Bit(y, 6)
      /\ Bit((x % 4) * 16 + y \div 16, 3) = Bit(y, 7)
  BY DEF Bit
<1>7. /\ Bit((y % 16) * 4 + z \div 64, 2) = Bit(y, 0)
      /\ Bit((y % 16) * 4 + z \div 64, 3) = Bit(y, 1)
  BY DEF Bit
<1>8. /\ Bit((y % 16) * 4 + z \div 64, 4) = Bit(y, 2)
      /\ Bit((y % 16) * 4 + z \div 64, 5) = Bit(y, 3)
  BY DEF Bit
<1>9. /\ Bit((y % 16) * 4 + z \div 64, 0) = Bit(z, 6)
      /\ Bit((y % 16) * 4 + z \div 64, 1) = Bit(z, 7)
  BY DEF Bit
<1>10. Bit(z % 64, 0) = Bit(z, 0) /\ Bit(z % 64, 1) = Bit(z, 1)
  BY DEF Bit
<1>11. Bit(z % 64, 2) = Bit(z, 2) /\ Bit(z % 64, 3) = Bit(z, 3)
  BY DEF Bit
<1>12. Bit(z % 64, 4) = Bit(z, 4) /\ Bit(z % 64, 5) = Bit(z, 5)
  BY DEF Bit
<1>13. /\ \A p \in 0..5 : p = 0 \/ p = 1 \/ p = 2 \/ p = 3 \/ p = 4 \/ p = 5
       /\ \A p \in 4..5 : p = 4 \/ p = 5
       /\ \A p \in 0..3 : p = 0 \/ p = 1 \/ p = 2 \/ p = 3
       /\ \A p \in 2..5 : p = 2 \/ p = 3 \/ p = 4 \/ p = 5
       /\ \A p \in 0..1 : p = 0 \/ p = 1
  OBVIOUS
<1>14. \A p \in 0..5 : Bit(x \div 4, p) = Bit(x, p + 2)
  BY <1>1, <1>2, <1>3, <1>13
<1>15. \A p \in 4..5 : Bit((x % 4) * 16 + y \div 16, p) = Bit(x, p - 4)
  BY <1>4, <1>13
<1>16. \A p \in 0..3 : Bit((x % 4) * 16 + y \div 16, p) = Bit(y, p + 4)
  BY <1>5, <1>6, <1>13
<1>17. \A p \in 2..5 : Bit((y % 16) * 4 + z \div 64, p) = Bit(y, p - 2)
  BY <1>7, <1>8, <1>13
<1>18. \A p \in 0..1 : Bit((y % 16) * 4 + z \div 64, p) = Bit(z, p + 6)
  BY <1>9, <1>13
<1>19. \A p \in 0..5 : Bit(z % 64, p) = Bit(z, p)
  BY <1>10, <1>11, <1>12, <1>13
<1>20. QED
  BY <1>14, <1>15, <1>16, <1>17, <1>18, <1>19 DEF BitsAgree

\* How many digits there are, and how many of them are no padding.
DigitsOf(n) == 4 * ((n + 2) \div 3)
UsedOf(n) == DigitsOf(n) - ((3 - (n % 3)) % 3)

\* A place among the digits, and the bytes of its chunk that there are.
LEMMA DigitPlaces ==
    ASSUME NEW n \in Nat, NEW q \in Nat
    PROVE  /\ DigitsOf(n) \in Nat /\ DigitsOf(n) % 4 = 0
           /\ UsedOf(n) \in Nat /\ UsedOf(n) <= DigitsOf(n)
           /\ 4 * q + 1 <= DigitsOf(n) <=> 3 * q + 1 <= n
           /\ 4 * q + 1 <= UsedOf(n) <=> 3 * q + 1 <= n
           /\ 4 * q + 2 <= UsedOf(n) <=> 3 * q + 1 <= n
           /\ 4 * q + 3 <= UsedOf(n) <=> 3 * q + 2 <= n
           /\ 4 * q + 4 <= UsedOf(n) <=> 3 * q + 3 <= n
<1>1. PICK w \in Nat, r \in {0, 1, 2} : n - 3 * w = r
  <2>1. n \div 3 \in Nat /\ n % 3 \in {0, 1, 2}
    OBVIOUS
  <2>2. n - 3 * (n \div 3) = n % 3
    OBVIOUS
  <2>3. QED
    BY <2>1, <2>2
<1>2. CASE r = 0
  <2>1. n = 3 * w
    BY <1>1, <1>2
  <2>2. (n + 2) \div 3 = w /\ n % 3 = 0
    BY <2>1
  <2>3. DigitsOf(n) = 4 * w /\ UsedOf(n) = 4 * w
    BY <2>2 DEF DigitsOf, UsedOf
  <2>4. QED
    BY <2>1, <2>3
<1>3. CASE r = 1
  <2>1. n = 3 * w + 1
    BY <1>1, <1>3
  <2>2. (n + 2) \div 3 = w + 1 /\ n % 3 = 1
    BY <2>1
  <2>3. DigitsOf(n) = 4 * w + 4 /\ UsedOf(n) = 4 * w + 2
    BY <2>2 DEF DigitsOf, UsedOf
  <2>4. QED
    BY <2>1, <2>3
<1>4. CASE r = 2
  <2>1. n = 3 * w + 2
    BY <1>1, <1>4
  <2>2. (n + 2) \div 3 = w + 1 /\ n % 3 = 2
    BY <2>1
  <2>3. DigitsOf(n) = 4 * w + 4 /\ UsedOf(n) = 4 * w + 3
    BY <2>2 DEF DigitsOf, UsedOf
  <2>4. QED
    BY <2>1, <2>3
<1>5. QED
  BY <1>1, <1>2, <1>3, <1>4

\* The four digits of a chunk.
LEMMA ChunkDigits ==
    ASSUME NEW data \in Seq(0..255), NEW q \in Nat, 3 * q + 1 <= Len(data)
    PROVE  LET n == Len(data)
               x == ByteAt(data, 3 * q + 1)
               y == ByteAt(data, 3 * q + 2)
               z == ByteAt(data, 3 * q + 3)
           IN /\ x \in 0..255 /\ y \in 0..255 /\ z \in 0..255
              /\ Base64Digit(data, 4 * q + 1) = x \div 4
              /\ Base64Digit(data, 4 * q + 2) = (x % 4) * 16 + y \div 16
              /\ Base64Digit(data, 4 * q + 3) =
                    IF 3 * q + 2 <= n THEN (y % 16) * 4 + z \div 64 ELSE Padding
              /\ Base64Digit(data, 4 * q + 4) = IF 3 * q + 3 <= n THEN z % 64 ELSE Padding
<1> DEFINE n == Len(data)
           x == ByteAt(data, 3 * q + 1)
           y == ByteAt(data, 3 * q + 2)
           z == ByteAt(data, 3 * q + 3)
           k(d) == 3 * ((d - 1) \div 4) + 1
<1>1. n \in Nat /\ \A i \in 1..n : data[i] \in 0..255
  BY LenProperties, ElementOfSeq
<1>2. x \in 0..255 /\ y \in 0..255 /\ z \in 0..255
  BY <1>1 DEF ByteAt
<1>3. /\ x = data[3 * q + 1] /\ (3 * q + 2 <= n => y = data[3 * q + 2])
      /\ (3 * q + 3 <= n => z = data[3 * q + 3])
  BY <1>1 DEF ByteAt
<1>4. /\ (4 * q + 1) % 4 = 1 /\ (4 * q + 2) % 4 = 2 /\ (4 * q + 3) % 4 = 3
      /\ (4 * q + 4) % 4 = 0
  OBVIOUS
<1>5. /\ k(4 * q + 1) = 3 * q + 1 /\ k(4 * q + 2) = 3 * q + 1 /\ k(4 * q + 3) = 3 * q + 1
      /\ k(4 * q + 4) = 3 * q + 1
  OBVIOUS
<1>6. (3 * q + 1) + 1 = 3 * q + 2 /\ (3 * q + 1) + 2 = 3 * q + 3
  OBVIOUS
<1> DEFINE Digit(d, a) ==
              CASE d % 4 = 1 -> data[a] \div 4
                [] d % 4 = 2 -> (data[a] % 4) * 16 + ByteAt(data, a + 1) \div 16
                [] d % 4 = 3 -> IF a + 1 > n THEN Padding
                                ELSE (data[a + 1] % 16) * 4 + ByteAt(data, a + 2) \div 64
                [] d % 4 = 0 -> IF a + 2 > n THEN Padding ELSE data[a + 2] % 64
<1>7. \A d : Base64Digit(data, d) = Digit(d, k(d))
  BY DEF Base64Digit
<1> HIDE DEF k
<1>8. /\ Digit(4 * q + 1, 3 * q + 1) = data[3 * q + 1] \div 4
      /\ Digit(4 * q + 2, 3 * q + 1) =
            (data[3 * q + 1] % 4) * 16 + ByteAt(data, 3 * q + 2) \div 16
  BY <1>4, <1>6
<1>9. Digit(4 * q + 3, 3 * q + 1) =
         IF 3 * q + 2 > n THEN Padding
         ELSE (data[3 * q + 2] % 16) * 4 + ByteAt(data, 3 * q + 3) \div 64
  BY <1>4, <1>6
<1>10. Digit(4 * q + 4, 3 * q + 1) =
          IF 3 * q + 3 > n THEN Padding ELSE data[3 * q + 3] % 64
  BY <1>4, <1>6
<1> HIDE DEF Digit
<1>11. Base64Digit(data, 4 * q + 1) = x \div 4
  BY <1>3, <1>5, <1>7, <1>8
<1>12. Base64Digit(data, 4 * q + 2) = (x % 4) * 16 + y \div 16
  BY <1>3, <1>5, <1>7, <1>8
<1>13. Base64Digit(data, 4 * q + 3) =
          IF 3 * q + 2 <= n THEN (y % 16) * 4 + z \div 64 ELSE Padding
  BY <1>1, <1>3, <1>5, <1>7, <1>9
<1>14. Base64Digit(data, 4 * q + 4) = IF 3 * q + 3 <= n THEN z % 64 ELSE Padding
  BY <1>1, <1>3, <1>5, <1>7, <1>10
<1>15. QED
  BY <1>2, <1>11, <1>12, <1>13, <1>14

\* A digit is one of 0 to 63 as long as it is no padding.
LEMMA DigitKinds ==
    ASSUME NEW data \in Seq(0..255), NEW d \in 1..DigitsOf(Len(data))
    PROVE  /\ Base64Digit(data, d) \in 0..Padding
           /\ Base64Digit(data, d) \in 0..(Padding - 1) <=> d <= UsedOf(Len(data))
<1> DEFINE n == Len(data)
<1>1. n \in Nat /\ d \in Nat /\ d >= 1 /\ d <= DigitsOf(n) /\ DigitsOf(n) \in Nat
  <2>1. n \in Nat /\ DigitsOf(n) \in Nat
    BY LenProperties, DigitPlaces
  <2> HIDE DEF n
  <2>2. QED
    BY <2>1 DEF n
<1>2. PICK q \in Nat, r \in {1, 2, 3, 4} : d = 4 * q + r
  <2>1. (d - 1) \div 4 \in Nat /\ ((d - 1) % 4) + 1 \in {1, 2, 3, 4}
    BY <1>1
  <2>2. d = 4 * ((d - 1) \div 4) + (((d - 1) % 4) + 1)
    BY <1>1
  <2>3. QED
    BY <2>1, <2>2
<1> DEFINE D == DigitsOf(n)
           U == UsedOf(n)
<1>3. 4 * q + 1 <= D /\ 3 * q + 1 <= n
  <2>1. 4 * q + 1 <= D
    BY <1>1, <1>2
  <2>2. QED
    BY <1>1, <2>1, DigitPlaces
<1>4. /\ 4 * q + 1 <= U <=> 3 * q + 1 <= n
      /\ 4 * q + 2 <= U <=> 3 * q + 1 <= n
      /\ 4 * q + 3 <= U <=> 3 * q + 2 <= n
      /\ 4 * q + 4 <= U <=> 3 * q + 3 <= n
  BY <1>1, DigitPlaces
<1> DEFINE x == ByteAt(data, 3 * q + 1)
           y == ByteAt(data, 3 * q + 2)
           z == ByteAt(data, 3 * q + 3)
<1>5. /\ x \in 0..255 /\ y \in 0..255 /\ z \in 0..255
      /\ Base64Digit(data, 4 * q + 1) = x \div 4
      /\ Base64Digit(data, 4 * q + 2) = (x % 4) * 16 + y \div 16
      /\ Base64Digit(data, 4 * q + 3) =
            IF 3 * q + 2 <= n THEN (y % 16) * 4 + z \div 64 ELSE Padding
      /\ Base64Digit(data, 4 * q + 4) = IF 3 * q + 3 <= n THEN z % 64 ELSE Padding
  BY <1>3, ChunkDigits
<1> HIDE DEF x, y, z, n, U
<1> DEFINE Some == 0..(Padding - 1)
           All == 0..Padding
<1>6. /\ x \div 4 \in Some /\ (x % 4) * 16 + y \div 16 \in Some
      /\ (y % 16) * 4 + z \div 64 \in Some /\ z % 64 \in Some
  <2>1. /\ x \in Int /\ x >= 0 /\ x < 256 /\ y \in Int /\ y >= 0 /\ y < 256
        /\ z \in Int /\ z >= 0 /\ z < 256
    BY <1>5
  <2>2. /\ x \div 4 \in Int /\ x \div 4 >= 0 /\ x \div 4 < 64
        /\ z % 64 \in Int /\ z % 64 >= 0 /\ z % 64 < 64
    BY <2>1
  <2>3. LET v == (x % 4) * 16 + y \div 16 IN v \in Int /\ v >= 0 /\ v < 64
    BY <2>1
  <2>4. LET v == (y % 16) * 4 + z \div 64 IN v \in Int /\ v >= 0 /\ v < 64
    BY <2>1
  <2>5. \A v \in Int : v >= 0 /\ v < 64 => v \in Some
    BY DEF Padding
  <2> HIDE DEF Some
  <2>6. QED
    BY <2>2, <2>3, <2>4, <2>5
<1>7. Some \subseteq All /\ Padding \in All /\ Padding \notin Some
  BY DEF Padding
<1> DEFINE Fits(e) == /\ Base64Digit(data, e) \in All
                      /\ Base64Digit(data, e) \in Some <=> e <= U
<1> HIDE DEF Some, All
<1>8. Fits(4 * q + 1)
  BY <1>3, <1>4, <1>5, <1>6, <1>7
<1>9. Fits(4 * q + 2)
  BY <1>3, <1>4, <1>5, <1>6, <1>7
<1>10. Fits(4 * q + 3)
  BY <1>4, <1>5, <1>6, <1>7
<1>11. Fits(4 * q + 4)
  BY <1>4, <1>5, <1>6, <1>7
<1>12. d = 4 * q + 1 \/ d = 4 * q + 2 \/ d = 4 * q + 3 \/ d = 4 * q + 4
  BY <1>2
<1> HIDE DEF Fits
<1>13. Fits(d)
  BY <1>8, <1>9, <1>10, <1>11, <1>12
<1>14. QED
  BY <1>13 DEF Fits, U, n, Some, All

\* A place among the bits of the digits is one among those of the bytes.
Places(b, q, e) ==
    /\ e < 6 => b \div 6 = 4 * q /\ b % 6 = e
    /\ e >= 6 /\ e < 12 => b \div 6 = 4 * q + 1 /\ b % 6 = e - 6
    /\ e >= 12 /\ e < 18 => b \div 6 = 4 * q + 2 /\ b % 6 = e - 12
    /\ e >= 18 => b \div 6 = 4 * q + 3 /\ b % 6 = e - 18
    /\ e < 8 => b \div 8 = 3 * q /\ b % 8 = e
    /\ e >= 8 /\ e < 16 => b \div 8 = 3 * q + 1 /\ b % 8 = e - 8
    /\ e >= 16 => b \div 8 = 3 * q + 2 /\ b % 8 = e - 16

\* Division finds the places.
LEMMA BitPlaces ==
    ASSUME NEW q \in Nat, NEW e \in Nat, e < 24, NEW b, b = 24 * q + e
    PROVE  Places(b, q, e)
<1>1. e < 6 => b \div 6 = 4 * q /\ b % 6 = e
  OBVIOUS
<1>2. e >= 6 /\ e < 12 => b \div 6 = 4 * q + 1 /\ b % 6 = e - 6
  OBVIOUS
<1>3. e >= 12 /\ e < 18 => b \div 6 = 4 * q + 2 /\ b % 6 = e - 12
  OBVIOUS
<1>4. e >= 18 => b \div 6 = 4 * q + 3 /\ b % 6 = e - 18
  OBVIOUS
<1>5. e < 8 => b \div 8 = 3 * q /\ b % 8 = e
  OBVIOUS
<1>6. e >= 8 /\ e < 16 => b \div 8 = 3 * q + 1 /\ b % 8 = e - 8
  OBVIOUS
<1>7. e >= 16 => b \div 8 = 3 * q + 2 /\ b % 8 = e - 16
  OBVIOUS
<1>8. QED
  BY <1>1, <1>2, <1>3, <1>4, <1>5, <1>6, <1>7 DEF Places

\* The bit of a digit that is no padding is that of a byte, or 0 behind the last.
LEMMA DigitBit ==
    ASSUME NEW data \in Seq(0..255), NEW b \in Nat, b < 6 * UsedOf(Len(data))
    PROVE  Bit(Base64Digit(data, b \div 6 + 1), 5 - (b % 6)) =
              Bit(ByteAt(data, b \div 8 + 1), 7 - (b % 8))
<1> DEFINE n == Len(data)
           U == UsedOf(n)
<1>1. n \in Nat /\ U \in Nat /\ b < 6 * U
  <2>1. n \in Nat
    BY LenProperties
  <2> HIDE DEF n
  <2>2. UsedOf(n) \in Nat
    BY <2>1, DigitPlaces
  <2>3. QED
    BY <2>1, <2>2 DEF n
<1>2. PICK q \in Nat, e \in Nat : e < 24 /\ b = 24 * q + e
  <2>1. b \div 24 \in Nat /\ b % 24 \in Nat /\ b % 24 < 24
    OBVIOUS
  <2>2. b - 24 * (b \div 24) = b % 24
    OBVIOUS
  <2>3. QED
    BY <2>1, <2>2
<1> DEFINE x == ByteAt(data, 3 * q + 1)
           y == ByteAt(data, 3 * q + 2)
           z == ByteAt(data, 3 * q + 3)
           D(d) == Base64Digit(data, d)
<1>3. /\ 4 * q + 1 <= U <=> 3 * q + 1 <= n
      /\ 4 * q + 2 <= U <=> 3 * q + 1 <= n
      /\ 4 * q + 3 <= U <=> 3 * q + 2 <= n
      /\ 4 * q + 4 <= U <=> 3 * q + 3 <= n
  <2> HIDE DEF n
  <2>1. QED
    BY <1>1, DigitPlaces
<1> HIDE DEF n, U
<1>4. 4 * q + 1 <= U
  BY <1>1, <1>2
<1>5. /\ x \in 0..255 /\ y \in 0..255 /\ z \in 0..255
      /\ D(4 * q + 1) = x \div 4 /\ D(4 * q + 2) = (x % 4) * 16 + y \div 16
      /\ D(4 * q + 3) = IF 3 * q + 2 <= n THEN (y % 16) * 4 + z \div 64 ELSE Padding
      /\ D(4 * q + 4) = IF 3 * q + 3 <= n THEN z % 64 ELSE Padding
  BY <1>3, <1>4, ChunkDigits DEF n
<1> HIDE DEF x, y, z, D
<1>6. BitsAgree(x, y, z)
  <2>1. x \in 0..255 /\ y \in 0..255 /\ z \in 0..255
    BY <1>5
  <2>2. QED
    BY <2>1, ChunkBits
<1> DEFINE X == ByteAt(data, b \div 8 + 1)
           left == Bit(D(b \div 6 + 1), 5 - (b % 6))
           right == Bit(X, 7 - (b % 8))
<1>7. Places(b, q, e)
  BY <1>2, BitPlaces
<1>8. /\ e < 8 => right = Bit(x, 7 - e)
      /\ e >= 8 /\ e < 16 => right = Bit(y, 15 - e)
      /\ e >= 16 => right = Bit(z, 23 - e)
  <2>1. CASE e < 8
    <3>1. b \div 8 + 1 = 3 * q + 1 /\ 7 - (b % 8) = 7 - e
      BY <1>2, <1>7, <2>1 DEF Places
    <3>2. X = x
      BY <3>1 DEF x
    <3>3. QED
      BY <2>1, <3>1, <3>2
  <2>2. CASE e >= 8 /\ e < 16
    <3>1. b \div 8 + 1 = 3 * q + 2 /\ 7 - (b % 8) = 15 - e
      BY <1>2, <1>7, <2>2 DEF Places
    <3>2. X = y
      BY <3>1 DEF y
    <3>3. QED
      BY <2>2, <3>1, <3>2
  <2>3. CASE e >= 16
    <3>1. b \div 8 + 1 = 3 * q + 3 /\ 7 - (b % 8) = 23 - e
      BY <1>2, <1>7, <2>3 DEF Places
    <3>2. X = z
      BY <3>1 DEF z
    <3>3. QED
      BY <2>3, <3>1, <3>2
  <2>4. QED
    BY <1>2, <2>1, <2>2, <2>3
<1> HIDE DEF right
<1>9. CASE e < 6
  <2>1. b \div 6 + 1 = 4 * q + 1 /\ 5 - (b % 6) = 5 - e
    BY <1>2, <1>7, <1>9 DEF Places
  <2>2. left = Bit(x \div 4, 5 - e)
    BY <1>5, <2>1
  <2>3. 5 - e \in 0..5 /\ (5 - e) + 2 = 7 - e /\ e < 8
    BY <1>9
  <2> HIDE DEF left
  <2>4. left = Bit(x, 7 - e)
    BY <1>6, <2>2, <2>3 DEF BitsAgree
  <2>5. QED
    BY <1>8, <2>3, <2>4 DEF left, right, D
<1>10. CASE e >= 6 /\ e < 12
  <2>1. b \div 6 + 1 = 4 * q + 2 /\ 5 - (b % 6) = 11 - e
    BY <1>2, <1>7, <1>10 DEF Places
  <2>2. left = Bit((x % 4) * 16 + y \div 16, 11 - e)
    BY <1>5, <2>1
  <2> HIDE DEF left
  <2>3. CASE e < 8
    <3>1. 11 - e \in 4..5 /\ (11 - e) - 4 = 7 - e
      BY <1>10, <2>3
    <3>2. left = Bit(x, 7 - e)
      BY <1>6, <2>2, <3>1 DEF BitsAgree
    <3>3. QED
      BY <1>8, <2>3, <3>2 DEF left, right, D
  <2>4. CASE e >= 8
    <3>1. 11 - e \in 0..3 /\ (11 - e) + 4 = 15 - e /\ e < 16
      BY <1>10, <2>4
    <3>2. left = Bit(y, 15 - e)
      BY <1>6, <2>2, <3>1 DEF BitsAgree
    <3>3. QED
      BY <1>8, <2>4, <3>1, <3>2 DEF left, right, D
  <2>5. QED
    BY <2>3, <2>4
<1>11. CASE e >= 12 /\ e < 18
  <2>1. b \div 6 + 1 = 4 * q + 3 /\ 5 - (b % 6) = 17 - e
    BY <1>2, <1>7, <1>11 DEF Places
  <2>2. 4 * q + 3 <= U
    BY <1>1, <1>2, <1>11
  <2>3. left = Bit((y % 16) * 4 + z \div 64, 17 - e)
    BY <1>3, <1>5, <2>1, <2>2
  <2> HIDE DEF left
  <2>4. CASE e < 16
    <3>1. 17 - e \in 2..5 /\ (17 - e) - 2 = 15 - e /\ e >= 8
      BY <1>11, <2>4
    <3>2. left = Bit(y, 15 - e)
      BY <1>6, <2>3, <3>1 DEF BitsAgree
    <3>3. QED
      BY <1>8, <2>4, <3>1, <3>2 DEF left, right, D
  <2>5. CASE e >= 16
    <3>1. 17 - e \in 0..1 /\ (17 - e) + 6 = 23 - e
      BY <1>11, <2>5
    <3>2. left = Bit(z, 23 - e)
      BY <1>6, <2>3, <3>1 DEF BitsAgree
    <3>3. QED
      BY <1>8, <2>5, <3>2 DEF left, right, D
  <2>6. QED
    BY <2>4, <2>5
<1>12. CASE e >= 18
  <2>1. b \div 6 + 1 = 4 * q + 4 /\ 5 - (b % 6) = 23 - e
    BY <1>2, <1>7, <1>12 DEF Places
  <2>2. 4 * q + 4 <= U
    BY <1>1, <1>2, <1>12
  <2>3. left = Bit(z % 64, 23 - e)
    BY <1>3, <1>5, <2>1, <2>2
  <2>4. 23 - e \in 0..5 /\ e >= 16
    BY <1>2, <1>12
  <2> HIDE DEF left
  <2>5. left = Bit(z, 23 - e)
    BY <1>6, <2>3, <2>4 DEF BitsAgree
  <2>6. QED
    BY <1>8, <2>4, <2>5 DEF left, right, D
<1>13. QED
  BY <1>2, <1>9, <1>10, <1>11, <1>12

\* Zero has no bits.
LEMMA ZeroBit == \A p \in 0..7 : Bit(0, p) = 0
<1>1. \A p \in 0..7 : p = 0 \/ p = 1 \/ p = 2 \/ p = 3 \/ p = 4 \/ p = 5 \/ p = 6 \/ p = 7
  OBVIOUS
<1>2. Bit(0, 0) = 0 /\ Bit(0, 1) = 0 /\ Bit(0, 2) = 0 /\ Bit(0, 3) = 0
  BY DEF Bit
<1>3. Bit(0, 4) = 0 /\ Bit(0, 5) = 0 /\ Bit(0, 6) = 0 /\ Bit(0, 7) = 0
  BY DEF Bit
<1>4. QED
  BY <1>1, <1>2, <1>3

\* A function on the first numbers is a sequence.
LEMMA FunctionIsSeq ==
    ASSUME NEW T, NEW n \in Nat, NEW f \in [1..n -> T]
    PROVE  f \in Seq(T) /\ Len(f) = n
<1>1. f \in Seq(T) /\ DOMAIN f = 1..n
  BY SeqDef
<1>2. Len(f) \in Nat /\ 1..Len(f) = 1..n
  BY <1>1, LenProperties
<1>3. QED
  BY <1>1, <1>2

\* base64_encode() makes base64 of any bytes.
LEMMA EncodesBase64 ==
    ASSUME NEW data \in Seq(0..255)
    PROVE  IsBase64(Base64Encode(data), data)
<1> DEFINE n == Len(data)
           digits == Base64Encode(data)
           M == DigitsOf(n)
           U == UsedOf(n)
           S == 0..(Padding - 1)
           used == Only(digits, S)
<1>1. n \in Nat /\ M \in Nat /\ M % 4 = 0 /\ U \in Nat /\ U <= M
  <2>1. n \in Nat
    BY LenProperties
  <2> HIDE DEF n
  <2>2. QED
    BY <2>1, DigitPlaces
<1>2. \A d \in 1..M : /\ Base64Digit(data, d) \in 0..Padding
                      /\ Base64Digit(data, d) \in S <=> d <= U
  BY DigitKinds
<1>3. digits = [d \in 1..M |-> Base64Digit(data, d)]
  BY DEF Base64Encode, DigitsOf
<1> HIDE DEF n, digits, M, U, S
<1>4. /\ digits \in Seq(0..Padding) /\ Len(digits) = M
      /\ \A d \in 1..M : digits[d] = Base64Digit(data, d)
  <2>1. digits \in [1..M -> 0..Padding]
    BY <1>2, <1>3
  <2>2. digits \in Seq(0..Padding) /\ Len(digits) = M
    BY <1>1, <2>1, FunctionIsSeq
  <2>3. QED
    BY <1>3, <2>2
<1>5. /\ Len(used) = U /\ IsPrefix(used, digits)
      /\ \A i \in 1..U : used[i] = digits[i]
  <2>1. InFront(digits, S, U)
    BY <1>1, <1>2, <1>4 DEF InFront
  <2>2. QED
    BY <1>4, <2>1, OnlyFront
<1>6. Len(digits) - Len(used) = (3 - (n % 3)) % 3
  <2>1. (3 - (n % 3)) % 3 \in Int /\ M \in Int
    BY <1>1
  <2>2. U = M - ((3 - (n % 3)) % 3)
    BY DEF U, M, UsedOf
  <2> DEFINE pad == (3 - (n % 3)) % 3
  <2> HIDE DEF pad
  <2>3. M - U = pad
    BY <2>1, <2>2 DEF pad
  <2>4. QED
    BY <1>4, <1>5, <2>3 DEF pad
<1> HIDE DEF used
<1>7. ASSUME NEW b \in 0..(6 * Len(used) - 1)
      PROVE  Bit(used[b \div 6 + 1], 5 - (b % 6)) =
                IF b < 8 * n THEN Bit(data[b \div 8 + 1], 7 - (b % 8)) ELSE 0
  <2>1. b \in Nat /\ b < 6 * U
    BY <1>1, <1>5
  <2>2. b \div 6 + 1 \in 1..U
    BY <1>1, <2>1
  <2>3. b \div 6 + 1 \in 1..M
    BY <1>1, <2>2
  <2>4. used[b \div 6 + 1] = Base64Digit(data, b \div 6 + 1)
    BY <1>4, <1>5, <2>2, <2>3
  <2>5. Bit(Base64Digit(data, b \div 6 + 1), 5 - (b % 6)) =
           Bit(ByteAt(data, b \div 8 + 1), 7 - (b % 8))
    BY <2>1, DigitBit DEF U, n
  <2>6. b < 8 * n <=> b \div 8 + 1 <= n
    BY <1>1, <2>1
  <2>7. ByteAt(data, b \div 8 + 1) = IF b < 8 * n THEN data[b \div 8 + 1] ELSE 0
    BY <2>6 DEF ByteAt, n
  <2>8. 7 - (b % 8) \in 0..7
    BY <2>1
  <2>9. Bit(0, 7 - (b % 8)) = 0
    BY <2>8, ZeroBit
  <2>10. QED
    BY <2>4, <2>5, <2>7, <2>9
<1>8. Len(digits) % 4 = 0
  BY <1>1, <1>4
<1>9. QED
  BY <1>5, <1>6, <1>7, <1>8 DEF IsBase64, used, S, n, digits

-----------------------------------------------------------------------------
(* select_best_candidate(). *)

\* The type lies above the preference and the component.
LEMMA PreferenceType == \A type \in CandidateTypes : TypePreference[type] \in Nat
BY DEF CandidateTypes, TypePreference

\* So the priority is the type, the preference and 255.
LEMMA TypeOnTop ==
    ASSUME NEW type \in CandidateTypes, NEW p \in Preferences
    PROVE  /\ TypePreference[type] \in Nat
           /\ CalculatePriority(type, p, 1) = TypePreference[type] * 16777216 + p * 256 + 255
<1> DEFINE t == TypePreference[type]
<1>1. CalculatePriority(type, p, 1) = t * 2^24 + p * 2^8 + (256 - 1)
  BY DEF CalculatePriority
<1>2. t \in Nat
  BY PreferenceType
<1> HIDE DEF t
<1>3. t * 2^24 + p * 2^8 + (256 - 1) = t * 16777216 + p * 256 + 255
  BY <1>2 DEF Preferences
<1>4. QED
  BY <1>1, <1>2, <1>3 DEF t

\* The higher priority has the type that is preferred.
LEMMA MadeTells ==
    ASSUME NEW t \in CandidateTypes, NEW u \in CandidateTypes,
           NEW m, Makes(t, m), NEW n, Makes(u, n)
    PROVE  /\ m \in Nat
           /\ m >= n => TypePreference[t] >= TypePreference[u]
<1>1. PICK p \in Preferences : m = CalculatePriority(t, p, 1)
  BY DEF Makes
<1>2. PICK q \in Preferences : n = CalculatePriority(u, q, 1)
  BY DEF Makes
<1> DEFINE tc == TypePreference[t]
           td == TypePreference[u]
<1>3. m = tc * 16777216 + p * 256 + 255 /\ tc \in Nat
  BY <1>1, TypeOnTop
<1>4. n = td * 16777216 + q * 256 + 255 /\ td \in Nat
  BY <1>2, TypeOnTop
<1> HIDE DEF tc, td
<1>5. tc \in Int /\ tc >= 0 /\ td \in Int /\ td >= 0
  BY <1>3, <1>4
<1>6. p \in Int /\ p >= 0 /\ p < 65536 /\ q \in Int /\ q >= 0 /\ q < 65536
  BY DEF Preferences
<1>7. m \in Nat /\ (m >= n => tc >= td)
  BY <1>3, <1>4, <1>5, <1>6, Z3T(30)
<1>8. QED
  BY <1>7 DEF tc, td

\* The same of candidates.
LEMMA PriorityTells ==
    ASSUME NEW c, NEW d, IsMade(c), IsMade(d)
    PROVE  /\ c.priority \in Nat
           /\ c.priority >= d.priority =>
                 TypePreference[c.candidateType] >= TypePreference[d.candidateType]
  BY MadeTells DEF IsMade

\* Sorted by the priority.
Descends(s) == \A i, j \in 1..Len(s) : i < j => s[i].priority >= s[j].priority

\* What two sequences make, side by side.
LEMMA Joined ==
    ASSUME NEW T, NEW s \in Seq(T), NEW t \in Seq(T)
    PROVE  /\ s \o t \in Seq(T) /\ Len(s \o t) = Len(s) + Len(t)
           /\ \A i \in 1..(Len(s) + Len(t)) :
                 (s \o t)[i] = IF i <= Len(s) THEN s[i] ELSE t[i - Len(s)]
<1>1. Len(s) \in Nat /\ Len(t) \in Nat
  BY LenProperties
<1>2. QED
  BY <1>1, ConcatProperties

\* A candidate comes where its priority belongs.
LEMMA InsertedSorts ==
    ASSUME NEW T, \A c \in T : IsMade(c), NEW s \in Seq(T), Descends(s), NEW c \in T
    PROVE  /\ Inserted(s, c) \in Seq(T) /\ Descends(Inserted(s, c))
           /\ Range(Inserted(s, c)) = Range(s) \cup {c}
<1> DEFINE first == {d \in Range(s) : d.priority >= c.priority}
           others == Range(s) \ first
           a == Only(s, first)
           b == Only(s, others)
           ac == Append(a, c)
<1>1. \A d \in T : d.priority \in Nat
  BY PriorityTells
<1>2. /\ a \in Seq(T) /\ b \in Seq(T) /\ Range(a) = Range(s) \cap first
      /\ Range(b) = Range(s) \cap others
  BY OnlyType, OnlyRange
<1>3. Descends(a) /\ Descends(b)
  <2> DEFINE R == {z \in T \X T : z[1].priority >= z[2].priority}
  <2>1. \A i, j \in 1..Len(s) : i < j => <<s[i], s[j]>> \in R
    <3>1. \A i \in 1..Len(s) : s[i] \in T
      BY ElementOfSeq
    <3>2. QED
      BY <3>1 DEF Descends
  <2>2. \A x, y : <<x, y>> \in R => x.priority >= y.priority
    OBVIOUS
  <2> HIDE DEF R, first, others, a, b
  <2>3. ASSUME NEW S PROVE Descends(Only(s, S))
    <3>1. \A i, j \in 1..Len(Only(s, S)) : i < j => <<Only(s, S)[i], Only(s, S)[j]>> \in R
      BY <2>1, OnlyOrdered
    <3>2. QED
      BY <2>2, <3>1 DEF Descends
  <2>4. QED
    BY <2>3 DEF a, b
<1>4. Range(s) \subseteq T
  BY RangeOf
<1>5. /\ \A x \in Range(a) : x.priority >= c.priority
      /\ \A y \in Range(b) : y \in T /\ c.priority >= y.priority
  <2>1. \A y \in others : y \in T /\ ~(y.priority >= c.priority)
    BY <1>4
  <2>2. \A y \in others : c.priority >= y.priority
    BY <1>1, <2>1
  <2>3. QED
    BY <1>2, <2>1, <2>2
<1>6. Range(s) = Range(a) \cup Range(b)
  BY <1>2
<1> HIDE DEF a, b, first, others
<1>7. Inserted(s, c) = (a \o <<c>>) \o b
  BY DEF Inserted, a, b, first, others
<1>8. /\ a \o <<c>> = ac /\ ac \in Seq(T) /\ Len(a) \in Nat /\ Len(b) \in Nat
      /\ Len(ac) = Len(a) + 1 /\ ac[Len(a) + 1] = c /\ \A i \in 1..Len(a) : ac[i] = a[i]
  BY <1>2, AppendIsConcat, AppendProperties, LenProperties
<1> HIDE DEF ac
<1> DEFINE r == ac \o b
           n == Len(a) + 1
<1>9. /\ r \in Seq(T) /\ Len(r) = n + Len(b)
      /\ \A i \in 1..(n + Len(b)) : r[i] = IF i <= n THEN ac[i] ELSE b[i - n]
  <2>1. ac \in Seq(T) /\ b \in Seq(T)
    BY <1>2, <1>8
  <2>2. /\ r \in Seq(T) /\ Len(r) = Len(ac) + Len(b)
        /\ \A i \in 1..(Len(ac) + Len(b)) :
              r[i] = IF i <= Len(ac) THEN ac[i] ELSE b[i - Len(ac)]
    BY ONLY <2>1, Joined
  <2>3. Len(ac) = n
    BY <1>8
  <2> HIDE DEF r, n
  <2>4. QED
    BY <2>2, <2>3
<1>10. Range(r) = Range(s) \cup {c}
  <2>1. Range(r) = Range(ac) \cup Range(b)
    BY <1>2, <1>8, RangeConcatenation
  <2>2. Range(ac) = Range(a) \cup {c}
    BY <1>2, RangeAppend DEF ac
  <2>3. QED
    BY <1>6, <2>1, <2>2
<1>11. \A i \in 1..Len(a) : a[i] \in Range(a) /\ a[i] \in T
  BY <1>2, RangeOf
<1>12. \A i \in 1..Len(b) : b[i] \in Range(b) /\ b[i] \in T
  BY <1>2, RangeOf
<1> HIDE DEF r
<1>13. Descends(r)
  <2> SUFFICES ASSUME NEW i \in 1..Len(r), NEW j \in 1..Len(r), i < j
               PROVE  r[i].priority >= r[j].priority
    BY DEF Descends
  <2>1. CASE j <= Len(a)
    <3>1. i \in 1..Len(a) /\ j \in 1..Len(a)
      BY <1>8, <1>9, <2>1
    <3>2. r[i] = a[i] /\ r[j] = a[j]
      BY <1>8, <1>9, <3>1
    <3>3. QED
      BY <1>3, <3>1, <3>2 DEF Descends
  <2>2. CASE j = n
    <3>1. i \in 1..Len(a)
      BY <1>8, <1>9, <2>2
    <3>2. r[i] = a[i] /\ r[j] = c
      BY <1>8, <1>9, <2>2, <3>1
    <3>3. QED
      BY <1>5, <1>11, <3>1, <3>2
  <2>3. CASE j > n
    <3>1. j - n \in 1..Len(b) /\ r[j] = b[j - n]
      BY <1>8, <1>9, <2>3
    <3>2. c.priority >= r[j].priority /\ r[j] \in T
      BY <1>5, <1>12, <3>1
    <3>3. CASE i <= Len(a)
      <4>1. i \in 1..Len(a) /\ r[i] = a[i]
        BY <1>8, <1>9, <3>3
      <4>2. r[i].priority >= c.priority /\ r[i] \in T
        BY <1>5, <1>11, <4>1
      <4>3. QED
        BY <1>1, <3>2, <4>2
    <3>4. CASE i = n
      <4>1. r[i] = c
        BY <1>8, <1>9, <3>4
      <4>2. QED
        BY <3>2, <4>1
    <3>5. CASE i > n
      <4>1. i - n \in 1..Len(b) /\ r[i] = b[i - n] /\ i - n < j - n
        BY <1>8, <1>9, <3>5
      <4>2. QED
        BY <1>3, <3>1, <4>1 DEF Descends
    <3>6. QED
      BY <1>8, <1>9, <3>3, <3>4, <3>5
  <2>4. j \in Nat /\ (j <= Len(a) \/ j = n \/ j > n)
    <3>1. Len(a) \in Nat /\ Len(b) \in Nat /\ Len(r) = n + Len(b)
      BY <1>8, <1>9
    <3>2. QED
      BY <3>1
  <2>5. QED
    BY <2>1, <2>2, <2>3, <2>4
<1>14. QED
  BY <1>7, <1>8, <1>9, <1>10, <1>13 DEF r

\* The sort is what its definition says.
LEMMA SortDef ==
    ASSUME NEW T, \A c \in T : IsMade(c), NEW s \in Seq(T)
    PROVE  \E sorted : /\ sorted[0] = <<>>
                       /\ \A n \in 1..Len(s) : sorted[n] = Inserted(sorted[n - 1], s[n])
                       /\ ByPriority(s) = sorted[Len(s)]
<1> DEFINE L == Len(s)
           S == {t \in Seq(T) : Descends(t)}
           base == <<>>
           More(k, t) == IF k < L THEN Inserted(t, s[k + 1]) ELSE t
           step == [x \in Nat \X S |-> More(x[1], x[2])]
           F(g) == [n \in 0..L |-> IF n = 0 THEN <<>> ELSE Inserted(g[n - 1], s[n])]
<1>1. L \in Nat /\ \A k \in 1..L : s[k] \in T
  BY LenProperties, ElementOfSeq
<1>2. base \in S
  BY EmptySeq DEF Descends
<1>3. \A k \in Nat, t \in S : More(k, t) \in S
  <2> SUFFICES ASSUME NEW k \in Nat, NEW t \in S PROVE More(k, t) \in S
    OBVIOUS
  <2>1. k < L => s[k + 1] \in T
    BY <1>1
  <2>2. k < L => Inserted(t, s[k + 1]) \in S
    BY <2>1, InsertedSorts
  <2> HIDE DEF S
  <2>3. QED
    BY <2>2
<1>4. step \in Steps(S)
  <2> HIDE DEF More, S
  <2>1. \A x \in Nat \X S : x[1] \in Nat /\ x[2] \in S
    OBVIOUS
  <2>2. QED
    BY <1>3, <2>1 DEF Steps
<1>5. PICK f : Iterates(f, S, base, step)
  <2> HIDE DEF S, base, step
  <2>1. QED
    BY <1>2, <1>4, Recursion
<1>6. f \in [Nat -> S] /\ f[0] = base /\ \A k \in Nat : f[k + 1] = More(k, f[k])
  <2> HIDE DEF S, base, More
  <2>1. QED
    BY <1>5 DEF Iterates
<1> DEFINE g == [n \in 0..L |-> f[n]]
<1>7. \E h : h = F(h)
  <2>1. ASSUME NEW n \in 0..L
        PROVE  g[n] = IF n = 0 THEN <<>> ELSE Inserted(g[n - 1], s[n])
    <3>1. CASE n = 0
      BY <1>1, <1>6, <3>1
    <3>2. CASE n # 0
      <4>1. n - 1 \in 0..L /\ n - 1 \in Nat /\ n - 1 < L /\ (n - 1) + 1 = n
        BY <1>1, <3>2
      <4>2. f[n] = More(n - 1, f[n - 1])
        BY <1>6, <4>1
      <4> HIDE DEF S
      <4>3. QED
        BY <3>2, <4>1, <4>2
    <3>3. QED
      BY <3>1, <3>2
  <2>2. g = [n \in 0..L |-> g[n]]
    OBVIOUS
  <2> HIDE DEF g
  <2>3. g = F(g)
    <3> DEFINE g1 == [n \in 0..L |-> g[n]]
               g2 == F(g)
    <3>1. g1 = g2
      BY <2>1, Zenon
    <3> HIDE DEF g2
    <3>2. QED
      BY <2>2, <3>1 DEF g2
  <2> HIDE DEF F
  <2>4. QED
    BY <2>3
<1> DEFINE sorted == CHOOSE h : h = F(h)
<1>8. sorted = F(sorted)
  <2> HIDE DEF F
  <2>1. QED
    BY <1>7
<1>9. ByPriority(s) = sorted[L]
  BY DEF ByPriority
<1> HIDE DEF sorted, g
<1>10. sorted[0] = <<>> /\ \A n \in 1..L : sorted[n] = Inserted(sorted[n - 1], s[n])
  <2>1. 0 \in 0..L /\ \A n \in 1..L : n \in 0..L /\ n # 0
    BY <1>1
  <2>2. QED
    BY <1>8, <2>1
<1>11. QED
  BY <1>9, <1>10

\* ByPriority() sorts the candidates it is given.
LEMMA Sorts ==
    ASSUME NEW T, \A c \in T : IsMade(c), NEW s \in Seq(T)
    PROVE  /\ ByPriority(s) \in Seq(T) /\ Descends(ByPriority(s))
           /\ Range(ByPriority(s)) = Range(s)
<1> DEFINE L == Len(s)
<1>1. L \in Nat /\ \A k \in 1..L : s[k] \in T
  BY LenProperties, ElementOfSeq
<1>2. PICK sorted : /\ sorted[0] = <<>>
                    /\ \A n \in 1..L : sorted[n] = Inserted(sorted[n - 1], s[n])
                    /\ ByPriority(s) = sorted[L]
  BY SortDef
<1> DEFINE Sorted(n) == /\ sorted[n] \in Seq(T) /\ Descends(sorted[n])
                        /\ \A x : x \in Range(sorted[n]) <=> \E i \in 1..n : s[i] = x
           N == {n \in Nat : n <= L => Sorted(n)}
<1>3. 0 \in N
  <2>1. <<>> \in Seq(T) /\ Len(<<>>) = 0
    BY EmptySeq
  <2>2. Descends(<<>>)
    BY <2>1 DEF Descends
  <2>3. \A x : x \notin Range(<<>>)
    BY <2>1 DEF Range
  <2>4. Sorted(0)
    BY <1>2, <2>1, <2>2, <2>3
  <2>5. QED
    BY <2>4
<1>4. ASSUME NEW n \in N PROVE n + 1 \in N
  <2> SUFFICES ASSUME n + 1 <= L PROVE Sorted(n + 1)
    OBVIOUS
  <2>1. n \in Nat /\ Sorted(n) /\ n + 1 \in 1..L /\ (n + 1) - 1 = n
    BY <1>1
  <2>2. sorted[n + 1] = Inserted(sorted[n], s[n + 1]) /\ s[n + 1] \in T
    BY <1>1, <1>2, <2>1
  <2>3. /\ sorted[n + 1] \in Seq(T) /\ Descends(sorted[n + 1])
        /\ Range(sorted[n + 1]) = Range(sorted[n]) \cup {s[n + 1]}
    <3> DEFINE t == sorted[n]
               u == sorted[n + 1]
               e == s[n + 1]
    <3>1. t \in Seq(T) /\ Descends(t) /\ e \in T /\ u = Inserted(t, e)
      BY <2>1, <2>2
    <3> HIDE DEF t, u, e, L, Sorted, N
    <3>2. u \in Seq(T) /\ Descends(u) /\ Range(u) = Range(t) \cup {e}
      BY <3>1, InsertedSorts
    <3>3. QED
      BY <3>2 DEF t, u, e
  <2>4. \A i \in 1..(n + 1) : i \in 1..n \/ i = n + 1
    BY <2>1
  <2>5. n + 1 \in 1..(n + 1) /\ \A i \in 1..n : i \in 1..(n + 1)
    BY <2>1
  <2>6. ASSUME NEW x PROVE x \in Range(sorted[n + 1]) <=> \E i \in 1..(n + 1) : s[i] = x
    BY <2>1, <2>3, <2>4, <2>5
  <2>7. QED
    BY <2>3, <2>6
<1>5. Sorted(L)
  <2>1. N \in SUBSET Nat
    OBVIOUS
  <2> HIDE DEF N, Sorted
  <2>2. N = Nat
    BY <1>3, <1>4, <2>1, Induct
  <2>3. L \in N /\ L <= L
    BY <1>1, <2>2
  <2>4. QED
    BY <2>3 DEF N
<1>6. Range(sorted[L]) = Range(s)
  BY <1>5, RangeOf
<1>7. QED
  BY <1>2, <1>5, <1>6

\* The first of the remote candidates that have the type of c.
LEMMA OfTypeTells ==
    ASSUME NEW T, NEW c, NEW remote \in Seq(T)
    PROVE  /\ OfType(c, remote) = <<>> =>
                 \A i \in 1..Len(remote) : remote[i].candidateType # c.candidateType
           /\ OfType(c, remote) # <<>> =>
                 \E i \in 1..Len(remote) :
                    /\ remote[i] = Head(OfType(c, remote))
                    /\ remote[i].candidateType = c.candidateType
                    /\ \A j \in 1..(i - 1) : remote[j].candidateType # c.candidateType
<1> DEFINE S == {r \in Range(remote) : r.candidateType = c.candidateType}
<1>1. \A i \in 1..Len(remote) : remote[i] \in S <=> remote[i].candidateType = c.candidateType
  <2>1. \A i \in 1..Len(remote) : remote[i] \in Range(remote)
    BY RangeOf
  <2>2. QED
    BY <2>1
<1>2. \A x \in S : x.candidateType = c.candidateType
  OBVIOUS
<1>3. OfType(c, remote) = Only(remote, S)
  BY DEF OfType
<1>4. \A i \in 1..Len(remote) : \A j \in 1..(i - 1) : j \in 1..Len(remote)
  BY LenProperties
<1> HIDE DEF S
<1> DEFINE o == Only(remote, S)
<1>5. /\ o = <<>> => \A i \in 1..Len(remote) : remote[i] \notin S
      /\ o # <<>> => FirstIn(remote, S, Head(o))
  BY OnlyHead
<1> HIDE DEF o
<1>6. o = <<>> => \A i \in 1..Len(remote) : remote[i].candidateType # c.candidateType
  BY <1>1, <1>5
<1>7. ASSUME o # <<>>
      PROVE  \E i \in 1..Len(remote) :
                /\ remote[i] = Head(o) /\ remote[i].candidateType = c.candidateType
                /\ \A j \in 1..(i - 1) : remote[j].candidateType # c.candidateType
  <2>1. PICK i \in 1..Len(remote) :
           remote[i] = Head(o) /\ Head(o) \in S /\ \A j \in 1..(i - 1) : remote[j] \notin S
    BY <1>5, <1>7 DEF FirstIn
  <2>2. \A j \in 1..(i - 1) : remote[j].candidateType # c.candidateType
    BY <1>1, <1>4, <2>1
  <2>3. QED
    BY <1>2, <2>1, <2>2
<1>8. QED
  BY <1>3, <1>6, <1>7 DEF o

\* The types that a list has, host aside.
TypesOf(cs) == {cs[i].candidateType : i \in 1..Len(cs)} \ {"Host"}

\* Among candidates that calculate_priority() made the choice is the best, in
\* whatever order they were added.
LEMMA BestIsBest ==
    ASSUME NEW T, \A c \in T : IsMade(c), NEW local \in Seq(T), NEW remote \in Seq(T)
    PROVE  IsBest(SelectBestCandidate(local, remote), local, remote)
<1> DEFINE others == Only(local, NotHost(local))
           sorted == ByPriority(others)
           shared == TypesOf(local) \cap TypesOf(remote)
           have == {c \in Range(sorted) : OfType(c, remote) # <<>>}
           matching == Only(sorted, have)
           best == SelectBestCandidate(local, remote)
<1>1. others \in Seq(T) /\ Range(others) = Range(local) \cap NotHost(local)
  BY OnlyType, OnlyRange
<1>2. /\ sorted \in Seq(T) /\ Descends(sorted)
      /\ \A c : c \in Range(sorted) <=> c \in Range(local) /\ c.candidateType # "Host"
  <2>1. /\ sorted \in Seq(T) /\ Descends(sorted) /\ Range(sorted) = Range(others)
    <3> HIDE DEF others
    <3>1. QED
      BY <1>1, Sorts
  <2>2. QED
    BY <1>1, <2>1 DEF NotHost, IsHost
<1>3. best = IF matching # <<>> THEN Head(OfType(Head(matching), remote))
             ELSE IF remote # <<>> THEN Head(remote) ELSE NoCandidate
  BY DEF SelectBestCandidate, FirstMatch
<1> HIDE DEF others, sorted, best
<1>4. /\ Len(local) \in Nat /\ Len(remote) \in Nat /\ Len(sorted) \in Nat
      /\ remote # <<>> => Head(remote) = remote[1] /\ 1 \in 1..Len(remote)
  <2>1. Len(local) \in Nat /\ Len(remote) \in Nat /\ Len(sorted) \in Nat
    BY <1>2, LenProperties
  <2>2. remote # <<>> => Len(remote) # 0
    BY EmptySeq
  <2>3. QED
    BY <2>1, <2>2
\* Who has a type both sides have is among those that are tried and have a match.
<1>5. ASSUME NEW t \in shared
      PROVE  \E m \in 1..Len(sorted) : sorted[m] \in have /\ sorted[m].candidateType = t
  <2>1. PICK a \in 1..Len(local) : local[a].candidateType = t /\ t # "Host"
    BY <1>5 DEF TypesOf
  <2>2. PICK b \in 1..Len(remote) : remote[b].candidateType = t
    BY <1>5 DEF TypesOf
  <2>3. local[a] \in Range(local)
    BY <2>1, RangeOf
  <2>4. local[a] \in Range(sorted)
    BY <1>2, <2>1, <2>3
  <2>5. PICK m \in 1..Len(sorted) : sorted[m] = local[a]
    BY <1>2, <2>4, RangeOf
  <2>6. OfType(local[a], remote) # <<>>
    BY <2>1, <2>2, OfTypeTells
  <2>7. QED
    BY <2>1, <2>4, <2>5, <2>6
<1>6. /\ matching = <<>> => \A m \in 1..Len(sorted) : sorted[m] \notin have
      /\ matching # <<>> => FirstIn(sorted, have, Head(matching))
  <2> HIDE DEF have
  <2>1. QED
    BY <1>2, OnlyHead
<1>7. CASE matching = <<>>
  <2>1. shared = {}
    BY <1>5, <1>6, <1>7
  <2>2. best = IF remote # <<>> THEN remote[1] ELSE NoCandidate
    BY <1>3, <1>4, <1>7
  <2>3. QED
    BY <2>1, <2>2 DEF IsBest, TypesOf, best
<1>8. CASE matching # <<>>
  <2> DEFINE h == Head(matching)
  <2>1. PICK k \in 1..Len(sorted) :
           sorted[k] = h /\ h \in have /\ \A m \in 1..(k - 1) : sorted[m] \notin have
    BY <1>6, <1>8 DEF FirstIn
  <2>2. h \in Range(local) /\ h.candidateType # "Host" /\ OfType(h, remote) # <<>>
    BY <1>2, <2>1
  <2> HIDE DEF h
  <2>3. PICK i \in 1..Len(remote) :
           /\ remote[i] = Head(OfType(h, remote))
           /\ remote[i].candidateType = h.candidateType
           /\ \A j \in 1..(i - 1) : remote[j].candidateType # h.candidateType
    BY <2>2, OfTypeTells
  <2>4. best = remote[i] /\ best.candidateType = h.candidateType
    BY <1>3, <1>8, <2>3 DEF h
  <2>5. h.candidateType \in shared
    <3>1. PICK a \in 1..Len(local) : local[a] = h
      BY <2>2, RangeOf
    <3>2. QED
      BY <2>2, <2>3, <3>1 DEF TypesOf
  <2>6. ASSUME NEW t \in shared
        PROVE  TypePreference[t] <= TypePreference[h.candidateType]
    <3>1. PICK m \in 1..Len(sorted) : sorted[m] \in have /\ sorted[m].candidateType = t
      BY <1>5
    <3>2. ~(m < k) /\ k \in Nat /\ m \in Nat
      BY <1>4, <2>1, <3>1
    <3>3. sorted[k] \in T /\ sorted[m] \in T
      BY <1>2, ElementOfSeq
    <3>4. IsMade(h) /\ IsMade(sorted[m])
      BY <2>1, <3>3
    <3>5. TypePreference[t] \in Nat /\ TypePreference[h.candidateType] \in Nat
      BY <3>1, <3>4, PreferenceType DEF IsMade
    <3>6. CASE m = k
      BY <2>1, <3>1, <3>5, <3>6
    <3>7. CASE k < m
      <4>1. sorted[k].priority >= sorted[m].priority
        BY <1>2, <3>7 DEF Descends
      <4>2. TypePreference[h.candidateType] >= TypePreference[t]
        BY <2>1, <3>1, <3>4, <4>1, PriorityTells
      <4>3. QED
        BY <3>5, <4>2
    <3>8. QED
      BY <3>2, <3>6, <3>7
  <2>7. remote # <<>>
    BY <2>3, <1>4, EmptySeq
  <2>8. QED
    BY <2>3, <2>4, <2>5, <2>6, <2>7 DEF IsBest, TypesOf, best
<1>9. QED
  BY <1>7, <1>8
=============================================================================
