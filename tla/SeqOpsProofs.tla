---------------------------- MODULE SeqOpsProofs ----------------------------
(***************************************************************************)
(* Induction, and lemmas about sequences that are put together and taken   *)
(* apart, for the proofs about the codec, the tables, the PDUs and Wire.   *)
(***************************************************************************)
EXTENDS SeqOps, SequenceTheorems, NaturalsInduction, WellFoundedInduction, TLAPS

\* Induction over the natural numbers, through the least counterexample.
LEMMA Induction ==
    ASSUME NEW S, 0 \in S, \A n \in Nat : n \in S => n + 1 \in S
    PROVE  Nat \subseteq S
<1> DEFINE T == {n \in Nat : n \notin S}
<1> SUFFICES ASSUME T # {} PROVE FALSE
    OBVIOUS
<1>1. IsWellFoundedOn(OpToRel(<, Nat), Nat)
    BY NatLessThanWellFounded
<1>2. PICK x \in T : \A y \in T : ~(<<y, x>> \in OpToRel(<, Nat))
    BY <1>1, WFMin
<1>3. \A y \in T : ~(y < x)
    BY <1>2 DEF OpToRel
<1>4. x # 0
    OBVIOUS
<1>5. x - 1 \in Nat /\ x - 1 \in S
    BY <1>3, <1>4
<1> QED
    BY <1>5

\* A set of natural numbers has a least one.
LEMMA LeastExists ==
    ASSUME NEW T, T \subseteq Nat, T # {}
    PROVE  \E n \in T : \A j \in T : n <= j
<1>1. IsWellFoundedOn(OpToRel(<, Nat), Nat)
    BY NatLessThanWellFounded
<1>2. PICK x \in T : \A y \in T : ~(<<y, x>> \in OpToRel(<, Nat))
    BY <1>1, WFMin
<1>3. \A y \in T : ~(y < x)
    BY <1>2 DEF OpToRel
<1> QED
    BY <1>3

\* What Min is.
LEMMA LeastIs ==
    ASSUME NEW I, NEW n \in I, \A j \in I : j \in Int /\ n <= j
    PROVE  Min(I) = n
BY DEF Min

-----------------------------------------------------------------------------
(* Sequences put together. *)

\* FlattenSeq puts the sequences together from the left.
Flattens(f, seqs) ==
    f = [i \in 1 .. Len(seqs) |-> IF i = 1 THEN seqs[i] ELSE f[i - 1] \o seqs[i]]

\* Its recursion has a solution.
LEMMA FlattensExists ==
    ASSUME NEW X, NEW seqs \in Seq(Seq(X))
    PROVE  \E f : Flattens(f, seqs)
<1> DEFINE Eq(f, m) == f = [i \in 1 .. m |-> IF i = 1 THEN seqs[i] ELSE f[i - 1] \o seqs[i]]
           S == {m \in Nat : \E f : Eq(f, m)}
<1>1. 0 \in S
  <2> DEFINE f == [i \in 1 .. 0 |-> <<>>]
  <2>1. Eq(f, 0)
      OBVIOUS
  <2> HIDE DEF f, Eq
  <2>2. \E g : Eq(g, 0)
      BY <2>1
  <2> QED
      BY <2>2
<1>2. ASSUME NEW m \in Nat, m \in S
      PROVE  m + 1 \in S
  <2>1. PICK f : Eq(f, m)
      BY <1>2
  <2> DEFINE g == [i \in 1 .. m + 1 |->
                      IF i <= m THEN f[i] ELSE IF m = 0 THEN seqs[i] ELSE f[m] \o seqs[i]]
  <2>2. ASSUME NEW i \in 1 .. m + 1
        PROVE  g[i] = IF i = 1 THEN seqs[i] ELSE g[i - 1] \o seqs[i]
    <3>1. CASE i <= m
      <4>1. f[i] = IF i = 1 THEN seqs[i] ELSE f[i - 1] \o seqs[i]
        <5>1. i \in 1 .. m
            BY <3>1
        <5> QED
            BY <2>1, <5>1
      <4>2. g[i] = f[i] /\ (i # 1 => g[i - 1] = f[i - 1])
          BY <3>1
      <4> QED
          BY <4>1, <4>2
    <3>2. CASE i = m + 1
      <4>1. m # 0 => g[m] = f[m]
          OBVIOUS
      <4> QED
          BY <3>2, <4>1
    <3> QED
        BY <3>1, <3>2
  <2>3. Eq(g, m + 1)
      BY <2>2
  <2> HIDE DEF g, Eq
  <2>4. \E h : Eq(h, m + 1)
      BY <2>3
  <2> QED
      BY <2>4
<1>3. Nat \subseteq S
  <2> HIDE DEF S
  <2> QED
      BY <1>1, <1>2, Induction
<1>4. \E f : Eq(f, Len(seqs))
  <2>1. Len(seqs) \in Nat
      OBVIOUS
  <2> QED
      BY <1>3, <2>1
<1> QED
    BY <1>4 DEF Flattens

\* What FlattenSeq makes of the first i sequences, for every i.
LEMMA Flattening ==
    ASSUME NEW X, NEW seqs \in Seq(Seq(X))
    PROVE  \E fl \in [0 .. Len(seqs) -> Seq(X)] :
               /\ fl[0] = <<>>
               /\ \A i \in 1 .. Len(seqs) : fl[i] = fl[i - 1] \o seqs[i]
               /\ FlattenSeq(seqs) = fl[Len(seqs)]
<1>0. Len(seqs) \in Nat /\ \A i \in 1 .. Len(seqs) : seqs[i] \in Seq(X)
    OBVIOUS
<1>1. CASE Len(seqs) = 0
  <2> DEFINE fl == [i \in 0 .. Len(seqs) |-> <<>>]
  <2>1. FlattenSeq(seqs) = <<>>
      BY <1>1 DEF FlattenSeq
  <2>2. fl \in [0 .. Len(seqs) -> Seq(X)] /\ fl[0] = <<>> /\ fl[Len(seqs)] = <<>>
      BY <1>1
  <2>3. \A i \in 1 .. Len(seqs) : fl[i] = fl[i - 1] \o seqs[i]
      BY <1>1
  <2> HIDE DEF fl
  <2> QED
      BY <2>1, <2>2, <2>3
<1>2. CASE Len(seqs) # 0
  <2> DEFINE f == CHOOSE f : Flattens(f, seqs)
             fl == [i \in 0 .. Len(seqs) |-> IF i = 0 THEN <<>> ELSE f[i]]
  <2>1. Flattens(f, seqs)
      BY FlattensExists
  <2>2. FlattenSeq(seqs) = f[Len(seqs)]
      BY <1>2 DEF FlattenSeq, Flattens
  <2> HIDE DEF f
  <2>3. ASSUME NEW i \in 1 .. Len(seqs)
        PROVE  f[i] = IF i = 1 THEN seqs[i] ELSE f[i - 1] \o seqs[i]
      BY <2>1 DEF Flattens
  <2> DEFINE S == {m \in Nat : m < Len(seqs) => f[m + 1] \in Seq(X)}
  <2>4. 0 \in S
    <3>1. 1 \in 1 .. Len(seqs)
        BY <1>0, <1>2
    <3>2. f[1] = seqs[1]
        BY <2>3, <3>1
    <3>3. f[0 + 1] \in Seq(X)
        BY <1>0, <3>1, <3>2
    <3> QED
        BY <3>3
  <2>5. ASSUME NEW m \in Nat, m \in S
        PROVE  m + 1 \in S
    <3> SUFFICES ASSUME m + 1 < Len(seqs) PROVE f[(m + 1) + 1] \in Seq(X)
        OBVIOUS
    <3>1. f[m + 1] \in Seq(X) /\ seqs[m + 2] \in Seq(X)
        BY <1>0, <2>5
    <3>2. f[m + 2] = f[m + 1] \o seqs[m + 2]
      <4>1. m + 2 \in 1 .. Len(seqs) /\ m + 2 # 1 /\ (m + 2) - 1 = m + 1
          BY <1>0
      <4> QED
          BY <2>3, <4>1
    <3>3. (m + 1) + 1 = m + 2
        OBVIOUS
    <3> QED
        BY <3>1, <3>2, <3>3, ConcatProperties
  <2>6. Nat \subseteq S
    <3> HIDE DEF S
    <3> QED
        BY <2>4, <2>5, Induction
  <2>7. ASSUME NEW i \in 1 .. Len(seqs)
        PROVE  f[i] \in Seq(X)
    <3>1. i - 1 \in Nat /\ i - 1 < Len(seqs) /\ (i - 1) + 1 = i
        BY <1>0
    <3> QED
        BY <2>6, <3>1
  <2>8. fl \in [0 .. Len(seqs) -> Seq(X)]
    <3>1. \A i \in 0 .. Len(seqs) : (IF i = 0 THEN <<>> ELSE f[i]) \in Seq(X)
        BY <1>0, <2>7
    <3> QED
        BY <3>1
  <2>9. ASSUME NEW i \in 1 .. Len(seqs)
        PROVE  fl[i] = fl[i - 1] \o seqs[i]
    <3>1. CASE i = 1
      <4>1. fl[i] = seqs[1] /\ fl[i - 1] = <<>>
          BY <1>0, <2>3, <3>1
      <4>2. <<>> \o seqs[1] = seqs[1]
          BY <1>0, <3>1, ConcatEmptySeq
      <4> QED
          BY <3>1, <4>1, <4>2
    <3>2. CASE i # 1
      <4>1. fl[i] = f[i] /\ fl[i - 1] = f[i - 1]
          BY <1>0, <3>2
      <4> QED
          BY <2>3, <3>2, <4>1
    <3> QED
        BY <3>1, <3>2
  <2>10. fl[0] = <<>> /\ fl[Len(seqs)] = f[Len(seqs)]
      BY <1>0, <1>2
  <2> HIDE DEF fl
  <2> QED
      BY <2>2, <2>8, <2>9, <2>10
<1> QED
    BY <1>1, <1>2

\* Concatenation is associative.
LEMMA Associative ==
    ASSUME NEW X, NEW a \in Seq(X), NEW b \in Seq(X), NEW c \in Seq(X)
    PROVE  (a \o b) \o c = a \o (b \o c)
OBVIOUS

\* A function on 1 .. n is a sequence.
LEMMA FunctionIsSeq ==
    ASSUME NEW X, NEW n \in Nat, NEW f \in [1 .. n -> X]
    PROVE  f \in Seq(X) /\ Len(f) = n
OBVIOUS

\* A sequence that begins with another one still does so when more is put after it.
Begins(X, a, x) == \E rest \in Seq(X) : x = a \o rest

\* What a sequence begins with does not depend on what follows.
LEMMA BeginsStill ==
    ASSUME NEW X, NEW a \in Seq(X), NEW x, Begins(X, a, x), NEW c \in Seq(X)
    PROVE  Begins(X, a, x \o c)
<1>1. PICK r \in Seq(X) : x = a \o r
    BY DEF Begins
<1> DEFINE rest == r \o c
<1>2. rest \in Seq(X)
    BY ConcatProperties
<1>3. x \o c = a \o rest
    BY <1>1, Associative
<1> HIDE DEF rest
<1> QED
    BY <1>2, <1>3 DEF Begins

\* What was put together from the first sequences is the beginning of all of it.
LEMMA FlatteningGoesOn ==
    ASSUME NEW X, NEW n \in Nat, NEW seqs \in [1 .. n -> Seq(X)], NEW fl \in [0 .. n -> Seq(X)],
           \A i \in 1 .. n : fl[i] = fl[i - 1] \o seqs[i],
           NEW m \in 0 .. n
    PROVE  Begins(X, fl[m], fl[n])
<1> DEFINE P(k) == m + k <= n => Begins(X, fl[m], fl[m + k])
           S == {k \in Nat : P(k)}
<1>1. P(0)
  <2>1. fl[m + 0] = fl[m] \o <<>> /\ <<>> \in Seq(X)
      BY ConcatEmptySeq
  <2> QED
      BY <2>1 DEF Begins
<1>2. ASSUME NEW k \in Nat, P(k)
      PROVE  P(k + 1)
  <2> SUFFICES ASSUME m + (k + 1) <= n
               PROVE  Begins(X, fl[m], fl[m + (k + 1)])
      OBVIOUS
  <2>1. Begins(X, fl[m], fl[m + k])
      BY <1>2
  <2>2. m + (k + 1) \in 1 .. n /\ (m + (k + 1)) - 1 = m + k
      OBVIOUS
  <2>3. fl[m + (k + 1)] = fl[m + k] \o seqs[m + (k + 1)]
      BY <2>2
  <2>4. seqs[m + (k + 1)] \in Seq(X) /\ fl[m] \in Seq(X)
      BY <2>2
  <2> QED
      BY <2>1, <2>3, <2>4, BeginsStill
<1>3. Nat \subseteq S
  <2> HIDE DEF P
  <2>1. 0 \in S /\ \A k \in Nat : k \in S => k + 1 \in S
      BY <1>1, <1>2
  <2> HIDE DEF S
  <2> QED
      BY <2>1, Induction
<1>4. n - m \in Nat /\ m + (n - m) = n /\ m + (n - m) <= n
    OBVIOUS
<1> QED
    BY <1>3, <1>4

\* Two tables, one after the other.
LEMMA TwoTables ==
    ASSUME NEW X, NEW a \in Seq(X), NEW b \in Seq(X)
    PROVE  /\ a \o b \in Seq(X) /\ Len(a \o b) = Len(a) + Len(b)
           /\ \A i \in 1 .. Len(a) : (a \o b)[i] = a[i]
           /\ \A i \in 1 .. Len(b) : (a \o b)[Len(a) + i] = b[i]
OBVIOUS

-----------------------------------------------------------------------------
(* Parts of sequences of integers. *)

\* A part of a sequence of integers, element by element.
LEMMA SubSeqIs ==
    ASSUME NEW s \in Seq(Int), NEW m \in Nat, NEW n \in Nat, 1 <= m, m <= n + 1, n <= Len(s)
    PROVE  /\ SubSeq(s, m, n) \in Seq(Int) /\ Len(SubSeq(s, m, n)) = n - m + 1
           /\ \A i \in 1 .. n - m + 1 : SubSeq(s, m, n)[i] = s[m + i - 1]
<1>1. SubSeq(s, m, n) \in Seq(Int)
    OBVIOUS
<1>2. Len(SubSeq(s, m, n)) = n - m + 1
    OBVIOUS
<1>3. \A i \in 1 .. n - m + 1 : SubSeq(s, m, n)[i] = s[m + i - 1]
    OBVIOUS
<1> QED
    BY <1>1, <1>2, <1>3

\* Two neighbours.
LEMMA TwoOf ==
    ASSUME NEW s \in Seq(Int), NEW i \in 1 .. Len(s) - 1
    PROVE  SubSeq(s, i, i + 1) = <<s[i], s[i + 1]>>
<1> DEFINE sub == SubSeq(s, i, i + 1)
<1>0. i \in Nat /\ i + 1 \in Nat /\ 1 <= i /\ i <= (i + 1) + 1 /\ i + 1 <= Len(s) /\ (i + 1) - i + 1 = 2
    OBVIOUS
<1>1. sub \in Seq(Int) /\ Len(sub) = 2 /\ \A k \in 1 .. 2 : sub[k] = s[i + k - 1]
    BY <1>0, SubSeqIs
<1> HIDE DEF sub
<1>2. sub[1] = s[i] /\ sub[2] = s[i + 1]
  <2>1. i + 1 - 1 = i /\ i + 2 - 1 = i + 1 /\ 1 \in 1 .. 2 /\ 2 \in 1 .. 2
      OBVIOUS
  <2> QED
      BY <1>1, <2>1
<1>3. sub = <<sub[1], sub[2]>>
    BY <1>1
<1> QED
    BY <1>2, <1>3 DEF sub

\* s is a and b put together.
Joined(s, a, b) == a \in Seq(Int) /\ b \in Seq(Int) /\ s = a \o b

\* What Joined says, element by element.
LEMMA JoinedIs ==
    ASSUME NEW a, NEW b, NEW s, Joined(s, a, b)
    PROVE  /\ a \in Seq(Int) /\ b \in Seq(Int) /\ s \in Seq(Int)
           /\ Len(a) \in Nat /\ Len(b) \in Nat /\ Len(s) = Len(a) + Len(b)
           /\ \A i \in 1 .. Len(a) : s[i] = a[i]
           /\ \A i \in 1 .. Len(b) : s[Len(a) + i] = b[i]
BY DEF Joined

\* The lengths of the parts.
LEMMA JoinedTyped ==
    ASSUME NEW a, NEW b, NEW s, Joined(s, a, b)
    PROVE  /\ a \in Seq(Int) /\ b \in Seq(Int) /\ s \in Seq(Int)
           /\ Len(a) \in Nat /\ Len(b) \in Nat /\ Len(s) = Len(a) + Len(b)
BY JoinedIs, Zenon

\* An element of the first part.
LEMMA JoinedFirst ==
    ASSUME NEW a, NEW b, NEW s, Joined(s, a, b), NEW i \in 1 .. Len(a)
    PROVE  s[i] = a[i]
BY DEF Joined

\* An element of the second part.
LEMMA JoinedSecond ==
    ASSUME NEW a, NEW b, NEW s, Joined(s, a, b), NEW i \in 1 .. Len(b)
    PROVE  s[Len(a) + i] = b[i]
BY DEF Joined

\* Any part of a sequence that is known element by element.
LEMMA PartIs ==
    ASSUME NEW s \in Seq(Int), NEW b \in Seq(Int), NEW k \in Nat, k + Len(b) <= Len(s),
           \A i \in 1 .. Len(b) : s[k + i] = b[i]
    PROVE  SubSeq(s, k + 1, k + Len(b)) = b
<1> DEFINE m == k + 1
           n == k + Len(b)
           sub == SubSeq(s, m, n)
<1>3. m \in Nat /\ n \in Nat /\ 1 <= m /\ m <= n + 1 /\ n <= Len(s) /\ n - m + 1 = Len(b)
    OBVIOUS
<1>4. /\ sub \in Seq(Int) /\ Len(sub) = n - m + 1
      /\ \A i \in 1 .. n - m + 1 : sub[i] = s[m + i - 1]
  <2> HIDE DEF m, n
  <2> QED
      BY <1>3, SubSeqIs
<1> HIDE DEF sub
<1>5. \A i \in 1 .. Len(b) : sub[i] = b[i]
  <2>1. \A i \in 1 .. Len(b) : m + i - 1 = k + i
      OBVIOUS
  <2> QED
      BY <1>3, <1>4, <2>1
<1>6. sub = b
    BY <1>3, <1>4, <1>5, SeqEqual
<1> QED
    BY <1>6 DEF sub

\* Each part is what SubSeq takes out.
LEMMA JoinedParts ==
    ASSUME NEW a, NEW b, NEW s, Joined(s, a, b)
    PROVE  SubSeq(s, 1, Len(a)) = a /\ SubSeq(s, Len(a) + 1, Len(s)) = b
<1>1. /\ a \in Seq(Int) /\ b \in Seq(Int) /\ s \in Seq(Int)
      /\ Len(a) \in Nat /\ Len(b) \in Nat /\ Len(s) = Len(a) + Len(b)
      /\ \A i \in 1 .. Len(a) : s[i] = a[i]
      /\ \A i \in 1 .. Len(b) : s[Len(a) + i] = b[i]
    BY JoinedIs
<1>2. SubSeq(s, Len(a) + 1, Len(a) + Len(b)) = b
  <2>1. Len(a) + Len(b) <= Len(s)
      BY <1>1
  <2> QED
      BY <1>1, <2>1, PartIs, Zenon
<1>3. SubSeq(s, 0 + 1, 0 + Len(a)) = a
  <2>1. 0 \in Nat /\ 0 + Len(a) <= Len(s) /\ \A i \in 1 .. Len(a) : s[0 + i] = a[i]
      BY <1>1
  <2> QED
      BY <1>1, <2>1, PartIs
<1> QED
    BY <1>1, <1>2, <1>3

\* Concatenation is associative.
LEMMA ConcatAgain ==
    ASSUME NEW a \in Seq(Int), NEW b \in Seq(Int), NEW c \in Seq(Int)
    PROVE  (a \o b) \o c = a \o (b \o c) /\ a \o b \in Seq(Int) /\ b \o c \in Seq(Int)
<1>1. (a \o b) \o c = a \o (b \o c)
    BY Associative, SMTT(30)
<1>2. a \o b \in Seq(Int)
    OBVIOUS
<1>3. b \o c \in Seq(Int)
    OBVIOUS
<1> QED
    BY <1>1, <1>2, <1>3, Zenon

\* Three parts, from the left to the right.
LEMMA JoinedRight ==
    ASSUME NEW a, NEW b, NEW c, NEW ab, NEW bc, NEW s,
           Joined(ab, a, b), Joined(bc, b, c), Joined(s, ab, c)
    PROVE  Joined(s, a, bc)
<1>1. a \in Seq(Int) /\ b \in Seq(Int) /\ c \in Seq(Int)
    BY JoinedIs
<1>2. s = (a \o b) \o c /\ bc = b \o c
    BY DEF Joined
<1>3. (a \o b) \o c = a \o (b \o c) /\ b \o c \in Seq(Int)
    BY <1>1, ConcatAgain, SMTT(30)
<1>4. s = a \o bc /\ bc \in Seq(Int)
    BY <1>2, <1>3, Zenon
<1> QED
    BY <1>1, <1>4, Zenon DEF Joined

\* Three parts, from the right to the left.
LEMMA JoinedLeft ==
    ASSUME NEW a, NEW b, NEW c, NEW ab, NEW bc, NEW s,
           Joined(ab, a, b), Joined(bc, b, c), Joined(s, a, bc)
    PROVE  Joined(s, ab, c)
<1>1. a \in Seq(Int) /\ b \in Seq(Int) /\ c \in Seq(Int)
    BY JoinedIs
<1>2. s = a \o (b \o c) /\ ab = a \o b
    BY DEF Joined
<1>3. (a \o b) \o c = a \o (b \o c) /\ a \o b \in Seq(Int)
    BY <1>1, ConcatAgain, SMTT(30)
<1>4. s = ab \o c /\ ab \in Seq(Int)
    BY <1>2, <1>3, Zenon
<1> QED
    BY <1>1, <1>4, Zenon DEF Joined
=============================================================================
