---------------------------- MODULE CodecProofs -----------------------------
(***************************************************************************)
(* GSM7BitCodec.decode undoes encode, for every text and error handler, and*)
(* the searches in the tables of ids and statuses answer for every code of *)
(* 32 bits.                                                                *)
(*                                                                         *)
(* The recursive definitions are reasoned about in two steps: the          *)
(* recursion has a solution, and any solution has the property, both by    *)
(* induction with the property as a set.                                   *)
(***************************************************************************)
EXTENDS Codec, Lookup, SeqOpsProofs, FiniteSetTheorems

(* decode: from the end of the bytes to their beginning. *)

\* What decode makes of the bytes from i on, if f is what it makes of those after.
DecodeAt(f, bytes, i) ==
    IF i > Len(bytes) THEN <<>>
    ELSE IF bytes[i] # Escape THEN <<BasicAt(bytes[i])>> \o f[i + 1]
    ELSE IF i = Len(bytes) THEN <<Raised>>
    ELSE <<ExtensionAt(bytes[i + 1])>> \o f[i + 2]

Decodes(f, bytes) == f = [i \in 1 .. Len(bytes) + 1 |-> DecodeAt(f, bytes, i)]

\* Its recursion has a solution.
LEMMA DecodesExists ==
    ASSUME NEW bytes \in Seq(Int)
    PROVE  \E f : Decodes(f, bytes)
<1> DEFINE n == Len(bytes)
           Eq(f, k) == f = [i \in n + 1 - k .. n + 1 |-> DecodeAt(f, bytes, i)]
           S == {k \in Nat : k <= n => \E f : Eq(f, k)}
<1>0. n \in Nat
    OBVIOUS
<1>1. 0 \in S
  <2> DEFINE f == [i \in n + 1 .. n + 1 |-> <<>>]
  <2>1. Eq(f, 0)
      BY <1>0 DEF DecodeAt
  <2> HIDE DEF f, Eq
  <2>2. \E g : Eq(g, 0)
      BY <2>1
  <2> QED
      BY <2>2
<1>2. ASSUME NEW k \in Nat, k \in S
      PROVE  k + 1 \in S
  <2> SUFFICES ASSUME k + 1 <= n PROVE \E g : Eq(g, k + 1)
      OBVIOUS
  <2>1. PICK f : Eq(f, k)
      BY <1>0, <1>2
  <2> DEFINE g == [i \in n + 1 - (k + 1) .. n + 1 |->
                      IF i = n - k THEN DecodeAt(f, bytes, i) ELSE f[i]]
  <2>2. ASSUME NEW i \in n + 1 - (k + 1) .. n + 1
        PROVE  g[i] = DecodeAt(g, bytes, i)
    <3>1. \A j \in n + 1 - k .. n + 1 : g[j] = f[j]
        BY <1>0
    <3>2. g[i] = DecodeAt(f, bytes, i)
      <4>1. CASE i = n - k
          BY <4>1
      <4>2. CASE i # n - k
        <5>1. i \in n + 1 - k .. n + 1
            BY <1>0, <4>2
        <5>2. f[i] = DecodeAt(f, bytes, i)
            BY <2>1, <5>1
        <5> QED
            BY <4>2, <5>2
      <4> QED
          BY <4>1, <4>2
    <3>3. i <= n => g[i + 1] = f[i + 1]
        BY <1>0, <3>1
    <3>4. i < n => g[i + 2] = f[i + 2]
        BY <1>0, <3>1
    <3> HIDE DEF g
    <3> QED
        BY <1>0, <3>2, <3>3, <3>4 DEF DecodeAt
  <2>3. Eq(g, k + 1)
      BY <2>2
  <2> HIDE DEF g, Eq
  <2> QED
      BY <2>3
<1>3. Nat \subseteq S
  <2> HIDE DEF S
  <2> QED
      BY <1>1, <1>2, Induction
<1>4. PICK f : Eq(f, n)
    BY <1>0, <1>3
<1>5. n + 1 - n = 1
    BY <1>0
<1> QED
    BY <1>4, <1>5 DEF Decodes

\* What decode may return: characters, and Raised.
Decoded == {BasicAt(b) : b \in Int} \cup {ExtensionAt(b) : b \in Int} \cup {Raised}

\* Every solution yields sequences.
LEMMA DecodesTyped ==
    ASSUME NEW bytes \in Seq(Int), NEW f, Decodes(f, bytes)
    PROVE  \A i \in 1 .. Len(bytes) + 1 : f[i] \in Seq(Decoded)
<1> DEFINE n == Len(bytes)
           P(k) == \A i \in 1 .. n + 1 : i >= n + 1 - k => f[i] \in Seq(Decoded)
           S == {k \in Nat : P(k)}
<1>0. n \in Nat /\ n = Len(bytes) /\ \A i \in 1 .. n + 1 : f[i] = DecodeAt(f, bytes, i)
    BY DEF Decodes
<1> HIDE DEF n
<1>1. P(0)
  <2>1. f[n + 1] = <<>>
    <3>1. f[n + 1] = DecodeAt(f, bytes, n + 1)
        BY <1>0
    <3>2. n + 1 > Len(bytes)
        BY <1>0
    <3> QED
        BY <3>1, <3>2 DEF DecodeAt
  <2>2. \A i \in 1 .. n + 1 : i >= n + 1 - 0 => i = n + 1
      BY <1>0
  <2>3. <<>> \in Seq(Decoded)
      OBVIOUS
  <2> QED
      BY <2>1, <2>2, <2>3
<1>2. ASSUME NEW k \in Nat, P(k)
      PROVE  P(k + 1)
  <2> SUFFICES ASSUME NEW i \in 1 .. n + 1, i >= n + 1 - (k + 1)
               PROVE  f[i] \in Seq(Decoded)
      OBVIOUS
  <2>1. f[i] = DecodeAt(f, bytes, i)
      BY <1>0
  <2>2. CASE i > n
    <3>1. f[i] = <<>>
        BY <1>0, <2>1, <2>2 DEF DecodeAt
    <3> QED
        BY <3>1
  <2>3. CASE i <= n /\ bytes[i] # Escape
    <3>1. f[i + 1] \in Seq(Decoded)
      <4>1. i + 1 \in 1 .. n + 1 /\ i + 1 >= n + 1 - k
          BY <1>0, <2>3
      <4> QED
          BY <1>2, <4>1
    <3>2. <<BasicAt(bytes[i])>> \in Seq(Decoded)
      <4>1. bytes[i] \in Int
          BY <1>0, <2>3
      <4>2. BasicAt(bytes[i]) \in Decoded
          BY <4>1 DEF Decoded
      <4> QED
          BY <4>2
    <3>3. f[i] = <<BasicAt(bytes[i])>> \o f[i + 1]
      <4>1. ~(i > Len(bytes)) /\ bytes[i] # Escape
          BY <1>0, <2>3
      <4> QED
          BY <2>1, <4>1, Zenon DEF DecodeAt
    <3> QED
        BY <3>1, <3>2, <3>3, ConcatProperties
  <2>4. CASE i = n /\ bytes[i] = Escape
    <3>1. f[i] = <<Raised>>
      <4>1. ~(i > Len(bytes)) /\ bytes[i] = Escape /\ i = Len(bytes)
          BY <1>0, <2>4
      <4> QED
          BY <2>1, <4>1, Zenon DEF DecodeAt
    <3> QED
        BY <3>1 DEF Decoded
  <2>5. CASE i < n /\ bytes[i] = Escape
    <3>1. f[i + 2] \in Seq(Decoded)
      <4>1. i + 2 \in 1 .. n + 1 /\ i + 2 >= n + 1 - k
          BY <1>0, <2>5
      <4> QED
          BY <1>2, <4>1
    <3>2. <<ExtensionAt(bytes[i + 1])>> \in Seq(Decoded)
      <4>1. bytes[i + 1] \in Int
          BY <1>0, <2>5
      <4>2. ExtensionAt(bytes[i + 1]) \in Decoded
          BY <4>1 DEF Decoded
      <4> QED
          BY <4>2
    <3>3. f[i] = <<ExtensionAt(bytes[i + 1])>> \o f[i + 2]
      <4>1. ~(i > Len(bytes)) /\ i # Len(bytes) /\ bytes[i] = Escape
          BY <1>0, <2>5
      <4> QED
          BY <2>1, <4>1, Zenon DEF DecodeAt
    <3> QED
        BY <3>1, <3>2, <3>3, ConcatProperties
  <2> QED
      BY <1>0, <2>2, <2>3, <2>4, <2>5
<1>3. Nat \subseteq S
  <2> HIDE DEF P
  <2>1. 0 \in S /\ \A k \in Nat : k \in S => k + 1 \in S
      BY <1>1, <1>2
  <2> HIDE DEF S
  <2> QED
      BY <2>1, Induction
<1>4. P(n)
    BY <1>0, <1>3
<1> QED
    BY <1>0, <1>4

\* What it makes of the bytes from a place on depends on those bytes only.
LEMMA DecodesShift ==
    ASSUME NEW bytes \in Seq(Int), NEW rest \in Seq(Int), NEW m \in Nat,
           Len(bytes) = m + Len(rest), \A i \in 1 .. Len(rest) : bytes[m + i] = rest[i],
           NEW f, Decodes(f, bytes), NEW g, Decodes(g, rest)
    PROVE  \A i \in 1 .. Len(rest) + 1 : f[m + i] = g[i]
<1> DEFINE n == Len(rest)
           P(k) == \A i \in 1 .. n + 1 : i >= n + 1 - k => f[m + i] = g[i]
           S == {k \in Nat : P(k)}
<1>0. /\ n \in Nat /\ Len(bytes) = m + n /\ Len(rest) = n
      /\ \A i \in 1 .. n + 1 : g[i] = DecodeAt(g, rest, i)
      /\ \A i \in 1 .. (m + n) + 1 : f[i] = DecodeAt(f, bytes, i)
  <2>1. n \in Nat /\ Len(bytes) = m + n
      OBVIOUS
  <2>2. \A i \in 1 .. n + 1 : g[i] = DecodeAt(g, rest, i)
      BY DEF Decodes
  <2>3. \A i \in 1 .. Len(bytes) + 1 : f[i] = DecodeAt(f, bytes, i)
      BY DEF Decodes
  <2> QED
      BY <2>1, <2>2, <2>3
<1> HIDE DEF n
<1>1. P(0)
  <2>0. \A i \in 1 .. n + 1 : i >= n + 1 - 0 => i = n + 1
      BY <1>0
  <2>1. f[m + (n + 1)] = DecodeAt(f, bytes, m + (n + 1)) /\ g[n + 1] = DecodeAt(g, rest, n + 1)
      BY <1>0
  <2>2. f[m + (n + 1)] = g[n + 1]
      BY <1>0, <2>1 DEF DecodeAt
  <2> QED
      BY <2>0, <2>2
<1>2. ASSUME NEW k \in Nat, P(k)
      PROVE  P(k + 1)
  <2> SUFFICES ASSUME NEW i \in 1 .. n + 1, i >= n + 1 - (k + 1)
               PROVE  f[m + i] = g[i]
      OBVIOUS
  <2>1. f[m + i] = DecodeAt(f, bytes, m + i) /\ g[i] = DecodeAt(g, rest, i)
      BY <1>0
  <2>2. i <= n => f[(m + i) + 1] = g[i + 1]
    <3> SUFFICES ASSUME i <= n PROVE f[(m + i) + 1] = g[i + 1]
        OBVIOUS
    <3>1. i + 1 \in 1 .. n + 1 /\ i + 1 >= n + 1 - k /\ m + (i + 1) = (m + i) + 1
        BY <1>0
    <3> QED
        BY <1>2, <3>1
  <2>3. i < n => f[(m + i) + 2] = g[i + 2]
    <3> SUFFICES ASSUME i < n PROVE f[(m + i) + 2] = g[i + 2]
        OBVIOUS
    <3>1. i + 2 \in 1 .. n + 1 /\ i + 2 >= n + 1 - k /\ m + (i + 2) = (m + i) + 2
        BY <1>0
    <3> QED
        BY <1>2, <3>1
  <2>4. /\ i <= n => bytes[m + i] = rest[i]
        /\ i < n => bytes[(m + i) + 1] = rest[i + 1]
    <3>1. i <= n => i \in 1 .. n
        BY <1>0
    <3>2. i < n => i + 1 \in 1 .. n /\ m + (i + 1) = (m + i) + 1
        BY <1>0
    <3> QED
        BY <1>0, <3>1, <3>2
  <2>5. /\ m + i > Len(bytes) <=> i > n
        /\ m + i = Len(bytes) <=> i = n
      BY <1>0
  <2>6. CASE i > n
      BY <1>0, <2>1, <2>5, <2>6 DEF DecodeAt
  <2>7. CASE i <= n /\ rest[i] # Escape
    <3>1. ~(m + i > Len(bytes)) /\ ~(i > Len(rest)) /\ bytes[m + i] = rest[i]
        BY <1>0, <2>4, <2>5, <2>7
    <3>2. f[m + i] = <<BasicAt(bytes[m + i])>> \o f[(m + i) + 1]
        BY <2>1, <2>7, <3>1 DEF DecodeAt
    <3>3. g[i] = <<BasicAt(rest[i])>> \o g[i + 1]
        BY <2>1, <2>7, <3>1 DEF DecodeAt
    <3> QED
        BY <2>2, <2>7, <3>1, <3>2, <3>3
  <2>8. CASE i = n /\ rest[i] = Escape
      BY <1>0, <2>1, <2>4, <2>5, <2>8 DEF DecodeAt
  <2>9. CASE i < n /\ rest[i] = Escape
    <3>1. /\ ~(m + i > Len(bytes)) /\ ~(m + i = Len(bytes)) /\ ~(i > Len(rest)) /\ ~(i = Len(rest))
          /\ bytes[m + i] = rest[i] /\ bytes[(m + i) + 1] = rest[i + 1]
        BY <1>0, <2>4, <2>5, <2>9
    <3>2. f[m + i] = <<ExtensionAt(bytes[(m + i) + 1])>> \o f[(m + i) + 2]
        BY <2>1, <2>9, <3>1 DEF DecodeAt
    <3>3. g[i] = <<ExtensionAt(rest[i + 1])>> \o g[i + 2]
        BY <2>1, <2>9, <3>1 DEF DecodeAt
    <3> QED
        BY <2>3, <2>9, <3>1, <3>2, <3>3
  <2> QED
      BY <1>0, <2>6, <2>7, <2>8, <2>9
<1>3. Nat \subseteq S
  <2> HIDE DEF P
  <2>1. 0 \in S /\ \A k \in Nat : k \in S => k + 1 \in S
      BY <1>1, <1>2
  <2> HIDE DEF S
  <2> QED
      BY <2>1, Induction
<1>4. P(n)
    BY <1>0, <1>3
<1> QED
    BY <1>0, <1>4

\* decode is what a solution of its recursion says of the first byte.
LEMMA DecodeIs ==
    ASSUME NEW bytes \in Seq(Int)
    PROVE  \E f : Decodes(f, bytes) /\ decode(bytes) = f[1] /\ decode(bytes) \in Seq(Decoded)
<1> DEFINE f == CHOOSE f : Decodes(f, bytes)
<1>1. Decodes(f, bytes)
    BY DecodesExists
<1>2. decode(bytes) = f[1]
    BY DEF decode, Decodes, DecodeAt
<1> HIDE DEF f
<1>3. f[1] \in Seq(Decoded)
  <2>1. 1 \in 1 .. Len(bytes) + 1
      OBVIOUS
  <2> QED
      BY <1>1, <2>1, DecodesTyped
<1> QED
    BY <1>1, <1>2, <1>3

\* The end of what is decoded is the end of the bytes, decoded.
LEMMA DecodeRest ==
    ASSUME NEW bytes \in Seq(Int), NEW rest \in Seq(Int), NEW m \in Nat,
           Len(bytes) = m + Len(rest), \A i \in 1 .. Len(rest) : bytes[m + i] = rest[i]
    PROVE  \E f : /\ decode(bytes) = f[1] /\ f[m + 1] = decode(rest)
                  /\ \A i \in 1 .. Len(bytes) + 1 : f[i] = DecodeAt(f, bytes, i)
<1>1. PICK f : Decodes(f, bytes) /\ decode(bytes) = f[1]
    BY DecodeIs
<1>2. PICK g : Decodes(g, rest) /\ decode(rest) = g[1]
    BY DecodeIs
<1>3. f[m + 1] = g[1]
  <2>1. 1 \in 1 .. Len(rest) + 1
      OBVIOUS
  <2> QED
      BY <1>1, <1>2, <2>1, DecodesShift
<1>4. \A i \in 1 .. Len(bytes) + 1 : f[i] = DecodeAt(f, bytes, i)
    BY <1>1 DEF Decodes
<1> QED
    BY <1>1, <1>2, <1>3, <1>4

\* decode of nothing.
LEMMA DecodeEmpty ==
    decode(<<>>) = <<>>
<1>1. <<>> \in Seq(Int)
    OBVIOUS
<1>2. PICK f : Decodes(f, <<>>) /\ decode(<<>>) = f[1]
    BY <1>1, DecodeIs
<1> QED
    BY <1>2 DEF Decodes, DecodeAt

\* decode of a byte that is not the escape: one character of the basic set.
LEMMA DecodeBasic ==
    ASSUME NEW b \in Int, b # Escape, NEW rest \in Seq(Int)
    PROVE  decode(<<b>> \o rest) = <<BasicAt(b)>> \o decode(rest)
<1> DEFINE bytes == <<b>> \o rest
<1>1. /\ bytes \in Seq(Int) /\ Len(bytes) = 1 + Len(rest) /\ bytes[1] = b
      /\ \A i \in 1 .. Len(rest) : bytes[1 + i] = rest[i]
    OBVIOUS
<1> HIDE DEF bytes
<1>2. PICK f : /\ decode(bytes) = f[1] /\ f[1 + 1] = decode(rest)
               /\ \A i \in 1 .. Len(bytes) + 1 : f[i] = DecodeAt(f, bytes, i)
  <2>1. 1 \in Nat
      OBVIOUS
  <2> QED
      BY <1>1, <2>1, DecodeRest, Zenon
<1>3. f[1] = DecodeAt(f, bytes, 1) /\ ~(1 > Len(bytes))
    BY <1>1, <1>2
<1>4. f[1] = <<BasicAt(b)>> \o f[1 + 1]
    BY <1>1, <1>3 DEF DecodeAt
<1> QED
    BY <1>2, <1>4 DEF bytes

\* decode of an escape and a byte: one character of the extension.
LEMMA DecodeExtension ==
    ASSUME NEW b \in Int, NEW rest \in Seq(Int)
    PROVE  decode(<<Escape, b>> \o rest) = <<ExtensionAt(b)>> \o decode(rest)
<1> DEFINE bytes == <<Escape, b>> \o rest
<1>1. /\ bytes \in Seq(Int) /\ Len(bytes) = 2 + Len(rest) /\ bytes[1] = Escape /\ bytes[1 + 1] = b
      /\ \A i \in 1 .. Len(rest) : bytes[2 + i] = rest[i]
    BY DEF Escape
<1> HIDE DEF bytes
<1>2. PICK f : /\ decode(bytes) = f[1] /\ f[2 + 1] = decode(rest)
               /\ \A i \in 1 .. Len(bytes) + 1 : f[i] = DecodeAt(f, bytes, i)
  <2>1. 2 \in Nat
      OBVIOUS
  <2> QED
      BY <1>1, <2>1, DecodeRest, Zenon
<1>3. f[1] = DecodeAt(f, bytes, 1) /\ ~(1 > Len(bytes)) /\ ~(1 = Len(bytes)) /\ 1 + 2 = 2 + 1
    BY <1>1, <1>2
<1>4. f[1] = <<ExtensionAt(b)>> \o f[1 + 2]
    BY <1>1, <1>3 DEF DecodeAt
<1> QED
    BY <1>2, <1>3, <1>4 DEF bytes

\* No character is decoded as the escape after an escape.
LEMMA DecodeEscape ==
    ASSUME NEW rest \in Seq(Int)
    PROVE  /\ decode(<<Escape>> \o rest) \in Seq(Decoded)
           /\ decode(<<Escape>> \o rest) # <<>> /\ decode(<<Escape>> \o rest)[1] # "ESC"
<1>0. ASSUME NEW b PROVE ExtensionAt(b) # "ESC"
    BY DEF ExtensionAt, gsm_extension
<1>1. CASE rest = <<>>
  <2>1. <<Escape>> \o rest = <<Escape>> /\ <<Escape>> \in Seq(Int)
      BY <1>1 DEF Escape
  <2>2. PICK f : Decodes(f, <<Escape>>) /\ decode(<<Escape>>) = f[1] /\ decode(<<Escape>>) \in Seq(Decoded)
      BY <2>1, DecodeIs
  <2>3. f[1] = <<Raised>>
      BY <2>2 DEF Decodes, DecodeAt
  <2>4. <<Raised>> # <<>> /\ <<Raised>>[1] # "ESC"
      BY DEF Raised
  <2> QED
      BY <2>1, <2>2, <2>3, <2>4, Zenon
<1>2. CASE rest # <<>>
  <2> DEFINE b == rest[1]
             after == Tail(rest)
  <2>1. b \in Int /\ after \in Seq(Int) /\ <<Escape>> \o rest = <<Escape, b>> \o after
      BY <1>2 DEF Escape
  <2> HIDE DEF b, after
  <2>2. decode(<<Escape>> \o rest) = <<ExtensionAt(b)>> \o decode(after)
      BY <2>1, DecodeExtension
  <2>3. decode(after) \in Seq(Decoded)
      BY <2>1, DecodeIs
  <2>4. ExtensionAt(b) \in Decoded
      BY <2>1 DEF Decoded
  <2> HIDE DEF Decoded
  <2>5. ASSUME NEW x \in Decoded, NEW y \in Seq(Decoded)
        PROVE  <<x>> \o y \in Seq(Decoded) /\ (<<x>> \o y)[1] = x /\ <<x>> \o y # <<>>
      OBVIOUS
  <2> QED
      BY <1>0, <2>2, <2>3, <2>4, <2>5
<1> QED
    BY <1>1, <1>2

-----------------------------------------------------------------------------
(* One character at a time. *)

\* The codes of a set are its own, although the other set uses them too.
LEMMA CharacterCodes ==
    /\ \A c \in gsm_basic_charset : Code(c) \in Int /\ BasicAt(Code(c)) = c
    /\ \A c \in gsm_extension : Code(c) \in Int /\ ExtensionAt(Code(c)) = c
    /\ \A c \in gsm_basic_charset : Code(c) = Escape <=> c = "ESC"
<1>a. Code("?") = 63
    BY DEF Code
<1>b. Code("paren") = 40
    BY DEF Code
<1>c. Code("e") = 101
    BY DEF Code
<1>d. Code("grave") = 95
    BY DEF Code
<1>e. Code("ESC") = 27
    BY DEF Code, Escape
<1>f. Code("brace") = 40
    BY DEF Code
<1>g. Code("euro") = 101
    BY DEF Code
<1>1. \A c \in gsm_basic_charset : Code(c) \in Int /\ BasicAt(Code(c)) = c
  <2>1. \A c, d \in gsm_basic_charset : Code(c) = Code(d) => c = d
      BY <1>a, <1>b, <1>c, <1>d, <1>e DEF gsm_basic_charset
  <2>2. \A c \in gsm_basic_charset : Code(c) \in Int
      BY <1>a, <1>b, <1>c, <1>d, <1>e DEF gsm_basic_charset
  <2> QED
      BY <2>1, <2>2 DEF BasicAt
<1>2. \A c \in gsm_extension : Code(c) \in Int /\ ExtensionAt(Code(c)) = c
  <2>1. \A c, d \in gsm_extension : Code(c) = Code(d) => c = d
      BY <1>f, <1>g DEF gsm_extension
  <2>2. \A c \in gsm_extension : Code(c) \in Int
      BY <1>f, <1>g DEF gsm_extension
  <2> QED
      BY <2>1, <2>2 DEF ExtensionAt
<1>3. \A c \in gsm_basic_charset : Code(c) = Escape <=> c = "ESC"
    BY <1>a, <1>b, <1>c, <1>d, <1>e DEF gsm_basic_charset, Escape
<1> QED
    BY <1>1, <1>2, <1>3

\* All that decode and Readable may hold.
Output == Decoded \cup Characters

\* What decode returns.
LEMMA DecodeTyped ==
    ASSUME NEW bytes \in Seq(Int)
    PROVE  decode(bytes) \in Seq(Output)
<1>1. decode(bytes) \in Seq(Decoded)
    BY DecodeIs
<1>2. Decoded \subseteq Output
    BY DEF Output
<1> HIDE DEF Output, Decoded
<1> QED
    BY <1>1, <1>2

\* What encode makes of one character, and what is to be read of it.
LEMMA CharacterTyped ==
    ASSUME NEW c \in Characters, NEW errors
    PROVE  EncodeCharacter(c, errors) \in Seq(Int) /\ ReadableCharacter(c, errors) \in Seq(Output)
<1>1. EncodeCharacter(c, errors) \in Seq(Int)
    BY CharacterCodes DEF EncodeCharacter, _handle_encode_error, Escape, gsm_basic_charset
<1>2. "?" \in Output /\ c \in Output
    BY DEF Output, Characters, gsm_basic_charset
<1> HIDE DEF Output
<1>3. ReadableCharacter(c, errors) \in Seq(Output)
    BY <1>2 DEF ReadableCharacter
<1> QED
    BY <1>1, <1>3

\* What one character's bytes are read as, whatever follows them.
LEMMA CharacterReadsBack ==
    ASSUME NEW c \in Characters, c # "ESC", NEW errors, NEW rest \in Seq(Int)
    PROVE  decode(EncodeCharacter(c, errors) \o rest) = ReadableCharacter(c, errors) \o decode(rest)
<1>0. decode(rest) \in Seq(Output)
    BY DecodeTyped
<1>1. CASE c \in gsm_basic_charset
  <2>1. EncodeCharacter(c, errors) = <<Code(c)>>
      BY <1>1 DEF EncodeCharacter, gsm_basic_charset, gsm_extension
  <2>2. ReadableCharacter(c, errors) = <<c>>
      BY <1>1 DEF ReadableCharacter, Unknown, gsm_basic_charset
  <2>3. Code(c) \in Int /\ Code(c) # Escape /\ BasicAt(Code(c)) = c
      BY <1>1, CharacterCodes
  <2>4. decode(<<Code(c)>> \o rest) = <<BasicAt(Code(c))>> \o decode(rest)
      BY <2>3, DecodeBasic, Zenon
  <2> QED
      BY <2>1, <2>2, <2>3, <2>4, Zenon
<1>2. CASE c \in gsm_extension
  <2>1. EncodeCharacter(c, errors) = <<Escape, Code(c)>>
      BY <1>2 DEF EncodeCharacter, gsm_basic_charset, gsm_extension
  <2>2. ReadableCharacter(c, errors) = <<c>>
      BY <1>2 DEF ReadableCharacter, Unknown, gsm_extension
  <2>3. Code(c) \in Int /\ ExtensionAt(Code(c)) = c
      BY <1>2, CharacterCodes
  <2>4. decode(<<Escape, Code(c)>> \o rest) = <<ExtensionAt(Code(c))>> \o decode(rest)
      BY <2>3, DecodeExtension, Zenon
  <2> QED
      BY <2>1, <2>2, <2>3, <2>4, Zenon
<1>3. CASE c = Unknown
  <2>0. c \notin gsm_basic_charset \cup gsm_extension
      BY <1>3 DEF Unknown, gsm_basic_charset, gsm_extension
  <2>1. CASE errors = "replace"
    <3>1. EncodeCharacter(c, errors) = <<Code("?")>>
        BY <2>0, <2>1 DEF EncodeCharacter, _handle_encode_error
    <3>2. ReadableCharacter(c, errors) = <<"?">>
        BY <1>3, <2>1 DEF ReadableCharacter
    <3>3. Code("?") \in Int /\ Code("?") # Escape /\ BasicAt(Code("?")) = "?"
        BY CharacterCodes DEF gsm_basic_charset
    <3> QED
        BY <3>1, <3>2, <3>3, DecodeBasic
  <2>2. CASE errors # "replace"
    <3>1. EncodeCharacter(c, errors) = <<>>
        BY <2>0, <2>2 DEF EncodeCharacter, _handle_encode_error
    <3>2. ReadableCharacter(c, errors) = <<>>
        BY <1>3, <2>2 DEF ReadableCharacter
    <3>3. <<>> \o rest = rest /\ <<>> \o decode(rest) = decode(rest)
        BY <1>0
    <3> QED
        BY <3>1, <3>2, <3>3
  <2> QED
      BY <2>1, <2>2
<1> QED
    BY <1>1, <1>2, <1>3 DEF Characters

-----------------------------------------------------------------------------
(* The whole text. *)

\* The bytes of the first m characters, and what is read of them, if no escape is
\* among these.
ReadsBackTo(text, m, bytes, read) ==
    (\A i \in 1 .. m : text[i] # "ESC") =>
        \A rest \in Seq(Int) : decode(bytes \o rest) = read \o decode(rest)

\* What follows the bytes is read after what is read of them.
ReadsAs(bytes, read) == \A rest \in Seq(Int) : decode(bytes \o rest) = read \o decode(rest)

\* Concatenation of what decode returns is associative.
LEMMA OutputAgain ==
    ASSUME NEW a \in Seq(Output), NEW b \in Seq(Output), NEW c \in Seq(Output)
    PROVE  (a \o b) \o c = a \o (b \o c)
OBVIOUS

\* One character more is encoded, and read.
LEMMA OneMoreCharacter ==
    ASSUME NEW text \in Seq(Characters), NEW errors, NEW m \in Nat, m + 1 <= Len(text),
           NEW bytes \in Seq(Int), NEW read \in Seq(Output),
           ReadsBackTo(text, m, bytes, read)
    PROVE  ReadsBackTo(text, m + 1, bytes \o EncodeCharacter(text[m + 1], errors),
                       read \o ReadableCharacter(text[m + 1], errors))
<1> DEFINE c == text[m + 1]
           e == EncodeCharacter(c, errors)
           r == ReadableCharacter(c, errors)
<1>0. c \in Characters /\ m + 1 \in 1 .. m + 1
    OBVIOUS
<1>1. e \in Seq(Int) /\ r \in Seq(Output)
    BY <1>0, CharacterTyped
<1>7. ASSUME NEW d \in Seq(Output) PROVE (read \o r) \o d = read \o (r \o d)
  <2> HIDE DEF r
  <2> QED
      BY <1>1, OutputAgain, Zenon
<1> SUFFICES ASSUME \A i \in 1 .. m + 1 : text[i] # "ESC", NEW rest \in Seq(Int)
             PROVE  decode((bytes \o e) \o rest) = (read \o r) \o decode(rest)
    BY DEF ReadsBackTo
<1>2. c # "ESC" /\ \A i \in 1 .. m : text[i] # "ESC"
    BY <1>0
<1>3. decode(e \o rest) = r \o decode(rest)
    BY <1>0, <1>2, CharacterReadsBack
<1>4. \A rst \in Seq(Int) : decode(bytes \o rst) = read \o decode(rst)
    BY <1>2 DEF ReadsBackTo
<1> HIDE DEF c, e, r
<1>5. (bytes \o e) \o rest = bytes \o (e \o rest) /\ e \o rest \in Seq(Int)
  <2>1. (bytes \o e) \o rest = bytes \o (e \o rest)
      BY <1>1, ConcatAgain, Zenon
  <2>2. e \o rest \in Seq(Int)
      BY <1>1, ConcatAgain, Zenon
  <2> QED
      BY <2>1, <2>2
<1>6. decode(rest) \in Seq(Output)
    BY DecodeTyped
<1>8. decode(bytes \o (e \o rest)) = read \o decode(e \o rest)
    BY <1>4, <1>5
<1> QED
    BY <1>3, <1>5, <1>6, <1>7, <1>8

\* For every text and error handler: what the two flattened sequences are, piece by piece.
LEMMA TextPieces ==
    ASSUME NEW text \in Seq(Characters), NEW errors
    PROVE  \E be \in [0 .. Len(text) -> Seq(Int)], rd \in [0 .. Len(text) -> Seq(Output)] :
               /\ be[0] = <<>> /\ rd[0] = <<>>
               /\ \A i \in 1 .. Len(text) :
                      /\ be[i] = be[i - 1] \o EncodeCharacter(text[i], errors)
                      /\ rd[i] = rd[i - 1] \o ReadableCharacter(text[i], errors)
                      /\ EncodeCharacter(text[i], errors) \in Seq(Int)
                      /\ ReadableCharacter(text[i], errors) \in Seq(Output)
               /\ encode(text, errors) = be[Len(text)]
               /\ Readable(text, errors) = rd[Len(text)]
               /\ \A m \in 0 .. Len(text) : /\ Begins(Int, be[m], be[Len(text)])
                                           /\ Begins(Output, rd[m], rd[Len(text)])
<1> DEFINE n == Len(text)
           es == [i \in DOMAIN text |-> EncodeCharacter(text[i], errors)]
           rs == [i \in DOMAIN text |-> ReadableCharacter(text[i], errors)]
<1>0. n \in Nat /\ n = Len(text) /\ DOMAIN text = 1 .. n /\ \A i \in 1 .. n : text[i] \in Characters
    OBVIOUS
<1>1. \A i \in 1 .. n : EncodeCharacter(text[i], errors) \in Seq(Int) /\ ReadableCharacter(text[i], errors) \in Seq(Output)
    BY <1>0, CharacterTyped
<1>2. encode(text, errors) = FlattenSeq(es) /\ Readable(text, errors) = FlattenSeq(rs)
    BY DEF encode, Readable
<1> HIDE DEF n
<1>3. /\ es \in [1 .. n -> Seq(Int)] /\ es \in Seq(Seq(Int)) /\ Len(es) = n
      /\ \A i \in 1 .. n : es[i] = EncodeCharacter(text[i], errors)
  <2>1. es \in [1 .. n -> Seq(Int)] /\ \A i \in 1 .. n : es[i] = EncodeCharacter(text[i], errors)
      BY <1>0, <1>1
  <2> HIDE DEF es
  <2> QED
      BY <1>0, <2>1, FunctionIsSeq
<1>4. /\ rs \in [1 .. n -> Seq(Output)] /\ rs \in Seq(Seq(Output)) /\ Len(rs) = n
      /\ \A i \in 1 .. n : rs[i] = ReadableCharacter(text[i], errors)
  <2>1. rs \in [1 .. n -> Seq(Output)] /\ \A i \in 1 .. n : rs[i] = ReadableCharacter(text[i], errors)
      BY <1>0, <1>1
  <2> HIDE DEF rs
  <2> QED
      BY <1>0, <2>1, FunctionIsSeq
<1> HIDE DEF es, rs
<1>5. PICK be \in [0 .. n -> Seq(Int)] :
          /\ be[0] = <<>> /\ FlattenSeq(es) = be[n]
          /\ \A i \in 1 .. n : be[i] = be[i - 1] \o es[i]
    BY <1>3, Flattening
<1>6. PICK rd \in [0 .. n -> Seq(Output)] :
          /\ rd[0] = <<>> /\ FlattenSeq(rs) = rd[n]
          /\ \A i \in 1 .. n : rd[i] = rd[i - 1] \o rs[i]
    BY <1>4, Flattening
<1>7. \A m \in 0 .. n : Begins(Int, be[m], be[n])
    BY <1>0, <1>3, <1>5, FlatteningGoesOn, Zenon
<1>8. \A m \in 0 .. n : Begins(Output, rd[m], rd[n])
    BY <1>0, <1>4, <1>6, FlatteningGoesOn, Zenon
<1>9. \A i \in 1 .. n : /\ be[i] = be[i - 1] \o EncodeCharacter(text[i], errors)
                        /\ rd[i] = rd[i - 1] \o ReadableCharacter(text[i], errors)
    BY <1>3, <1>4, <1>5, <1>6
<1> QED
    BY <1>0, <1>1, <1>2, <1>5, <1>6, <1>7, <1>8, <1>9

\* An escape in the text: from there on the bytes are not read as the text is.
LEMMA EscapeIsLost ==
    ASSUME NEW bytes \in Seq(Int), NEW read \in Seq(Output),
           ReadsAs(bytes, read), NEW all, Begins(Int, bytes \o <<Escape>>, all),
           NEW allread, Begins(Output, read \o <<"ESC">>, allread)
    PROVE  decode(all) # allread
<1>1. PICK rest \in Seq(Int) : all = (bytes \o <<Escape>>) \o rest
    BY DEF Begins
<1>2. PICK after \in Seq(Output) : allread = (read \o <<"ESC">>) \o after
    BY DEF Begins
<1> DEFINE d == decode(<<Escape>> \o rest)
<1>3. d \in Seq(Output) /\ d # <<>> /\ d[1] # "ESC"
  <2>1. <<Escape>> \o rest \in Seq(Int)
      BY DEF Escape
  <2> QED
      BY <2>1, DecodeEscape, DecodeTyped
<1>4. decode(all) = read \o d
  <2>1. (bytes \o <<Escape>>) \o rest = bytes \o (<<Escape>> \o rest) /\ <<Escape>> \o rest \in Seq(Int)
      BY DEF Escape
  <2>2. decode(bytes \o (<<Escape>> \o rest)) = read \o d
      BY <2>1, Zenon DEF ReadsAs
  <2> QED
      BY <1>1, <2>1, <2>2, Zenon
<1> HIDE DEF d
<1> DEFINE k == Len(read) + 1
<1>5. (read \o d)[k] = d[1]
    BY <1>3
<1>6. ((read \o <<"ESC">>) \o after)[k] = "ESC"
  <2>1. "ESC" \in Output
      BY DEF Output, Characters, gsm_basic_charset
  <2> HIDE DEF Output
  <2>2. read \o <<"ESC">> \in Seq(Output) /\ Len(read \o <<"ESC">>) = k /\ (read \o <<"ESC">>)[k] = "ESC"
      BY <2>1
  <2> DEFINE re == read \o <<"ESC">>
  <2> HIDE DEF re, k
  <2>3. k \in Nat /\ k > 0 /\ re \in Seq(Output) /\ Len(re) = k /\ re[k] = "ESC"
      BY <2>2 DEF re, k
  <2>4. (re \o after)[k] = "ESC"
      BY <2>3
  <2> QED
      BY <2>4 DEF re
<1> QED
    BY <1>2, <1>3, <1>4, <1>5, <1>6

\* A text in the GSM alphabet, of any length and under every error handler that does not
\* raise, is decoded to what it was (unknown characters gone or "?") if the escape
\* character is not in it, and only then: GSM7BitCodec.encode and decode.
THEOREM GsmCodec ==
    ASSUME NEW text \in Seq(Characters), NEW errors
    PROVE  decode(encode(text, errors)) = Readable(text, errors) <=> "ESC" \notin Range(text)
<1> DEFINE n == Len(text)
<1>1. PICK be \in [0 .. n -> Seq(Int)], rd \in [0 .. n -> Seq(Output)] :
               /\ be[0] = <<>> /\ rd[0] = <<>>
               /\ \A i \in 1 .. n :
                      /\ be[i] = be[i - 1] \o EncodeCharacter(text[i], errors)
                      /\ rd[i] = rd[i - 1] \o ReadableCharacter(text[i], errors)
                      /\ EncodeCharacter(text[i], errors) \in Seq(Int)
                      /\ ReadableCharacter(text[i], errors) \in Seq(Output)
               /\ encode(text, errors) = be[n]
               /\ Readable(text, errors) = rd[n]
               /\ \A m \in 0 .. n : Begins(Int, be[m], be[n]) /\ Begins(Output, rd[m], rd[n])
    BY TextPieces
<1>2. n \in Nat /\ n = Len(text) /\ ("ESC" \notin Range(text) <=> \A i \in 1 .. n : text[i] # "ESC")
    BY DEF Range
<1> HIDE DEF n
<1> DEFINE P(m) == m <= n => ReadsBackTo(text, m, be[m], rd[m])
           S == {m \in Nat : P(m)}
<1>3. P(0)
  <2>1. ASSUME NEW rest \in Seq(Int) PROVE decode(<<>> \o rest) = <<>> \o decode(rest)
    <3>1. <<>> \o rest = rest
        OBVIOUS
    <3>2. decode(rest) \in Seq(Output)
        BY DecodeTyped
    <3> HIDE DEF Output
    <3>3. <<>> \o decode(rest) = decode(rest)
        BY <3>2
    <3> QED
        BY <3>1, <3>3
  <2> QED
      BY <1>1, <2>1 DEF ReadsBackTo
<1>4. ASSUME NEW m \in Nat, P(m)
      PROVE  P(m + 1)
  <2> SUFFICES ASSUME m + 1 <= n PROVE ReadsBackTo(text, m + 1, be[m + 1], rd[m + 1])
      OBVIOUS
  <2>1. m + 1 \in 1 .. n /\ (m + 1) - 1 = m /\ m \in 0 .. n
      BY <1>2
  <2>2. /\ be[m + 1] = be[m] \o EncodeCharacter(text[m + 1], errors)
        /\ rd[m + 1] = rd[m] \o ReadableCharacter(text[m + 1], errors)
      BY <1>1, <2>1
  <2>3. be[m] \in Seq(Int) /\ rd[m] \in Seq(Output) /\ ReadsBackTo(text, m, be[m], rd[m])
    <3>1. be[m] \in Seq(Int) /\ rd[m] \in Seq(Output)
        BY <2>1, Zenon
    <3>2. m <= n
        BY <1>2, <2>1
    <3> QED
        BY <1>4, <3>1, <3>2, Zenon
  <2>4. m + 1 <= Len(text)
      BY <1>2
  <2> QED
      BY <2>2, <2>3, <2>4, OneMoreCharacter
<1>5. \A m \in 0 .. n : ReadsBackTo(text, m, be[m], rd[m])
  <2>1. Nat \subseteq S
    <3> HIDE DEF P
    <3>1. 0 \in S /\ \A k \in Nat : k \in S => k + 1 \in S
        BY <1>3, <1>4
    <3> HIDE DEF S
    <3> QED
        BY <3>1, Induction
  <2>2. \A m \in 0 .. n : m \in Nat /\ m <= n
      BY <1>2
  <2> QED
      BY <2>1, <2>2
<1> HIDE DEF P, S
<1>6. ASSUME \A i \in 1 .. n : text[i] # "ESC"
      PROVE  decode(encode(text, errors)) = Readable(text, errors)
  <2>1. n \in 0 .. n /\ be[n] \in Seq(Int) /\ rd[n] \in Seq(Output) /\ <<>> \in Seq(Int)
      BY <1>2
  <2>2. decode(be[n] \o <<>>) = rd[n] \o decode(<<>>)
      BY <1>5, <1>6, <2>1 DEF ReadsBackTo
  <2>3. be[n] \o <<>> = be[n] /\ rd[n] \o <<>> = rd[n]
      BY <2>1
  <2> QED
      BY <1>1, <2>2, <2>3, DecodeEmpty
<1>7. ASSUME decode(encode(text, errors)) = Readable(text, errors)
      PROVE  \A i \in 1 .. n : text[i] # "ESC"
  <2> DEFINE Q(m) == m <= n => \A i \in 1 .. m : text[i] # "ESC"
             T == {m \in Nat : Q(m)}
  <2>1. Q(0)
      OBVIOUS
  <2>2. ASSUME NEW m \in Nat, Q(m), m + 1 <= n
        PROVE  text[m + 1] # "ESC"
    <3> SUFFICES ASSUME text[m + 1] = "ESC" PROVE FALSE
        OBVIOUS
    <3>1. m + 1 \in 1 .. n /\ (m + 1) - 1 = m /\ m \in 0 .. n /\ m + 1 \in 0 .. n /\ m <= n
        BY <1>2, <2>2
    <3>2. EncodeCharacter("ESC", errors) = <<Escape>> /\ ReadableCharacter("ESC", errors) = <<"ESC">>
      <4>1. "ESC" \in gsm_basic_charset /\ "ESC" \notin gsm_extension /\ "ESC" # Unknown
          BY DEF gsm_basic_charset, gsm_extension, Unknown
      <4>2. Code("ESC") = Escape
          BY <4>1, CharacterCodes
      <4> QED
          BY <4>1, <4>2 DEF EncodeCharacter, ReadableCharacter
    <3>3. be[m + 1] = be[m] \o <<Escape>> /\ rd[m + 1] = rd[m] \o <<"ESC">>
        BY <1>1, <3>1, <3>2
    <3>4. \A rest \in Seq(Int) : decode(be[m] \o rest) = rd[m] \o decode(rest)
        BY <1>5, <2>2, <3>1 DEF ReadsBackTo
    <3>5. be[m] \in Seq(Int) /\ rd[m] \in Seq(Output)
        BY <3>1
    <3>6. Begins(Int, be[m + 1], be[n]) /\ Begins(Output, rd[m + 1], rd[n])
        BY <1>1, <3>1
    <3>7. decode(be[n]) # rd[n]
      <4> DEFINE b == be[m]
                 r == rd[m]
      <4>1. b \in Seq(Int) /\ r \in Seq(Output)
          BY <3>5
      <4>2. ReadsAs(b, r)
          BY <3>4 DEF ReadsAs
      <4>3. Begins(Int, b \o <<Escape>>, be[n]) /\ Begins(Output, r \o <<"ESC">>, rd[n])
          BY <3>3, <3>6, Zenon
      <4> HIDE DEF b, r
      <4> QED
          BY <4>1, <4>2, <4>3, EscapeIsLost, Zenon
    <3> QED
        BY <1>1, <1>7, <3>7
  <2>3. ASSUME NEW m \in Nat, Q(m)
        PROVE  Q(m + 1)
    <3> SUFFICES ASSUME m + 1 <= n, NEW i \in 1 .. m + 1 PROVE text[i] # "ESC"
        OBVIOUS
    <3>1. CASE i = m + 1
        BY <2>2, <2>3, <3>1
    <3>2. CASE i # m + 1
      <4>1. i \in 1 .. m /\ m <= n
          BY <1>2, <3>2
      <4> QED
          BY <2>3, <4>1
    <3> QED
        BY <3>1, <3>2
  <2>4. Nat \subseteq T
    <3> HIDE DEF Q
    <3>1. 0 \in T /\ \A k \in Nat : k \in T => k + 1 \in T
        BY <2>1, <2>3
    <3> HIDE DEF T
    <3> QED
        BY <3>1, Induction
  <2>5. Q(n)
      BY <1>2, <2>4
  <2> QED
      BY <1>2, <2>5
<1> QED
    BY <1>2, <1>6, <1>7

-----------------------------------------------------------------------------
(* The table of command ids. *)

\* The codes of 32 bits.
IsCode(code) == \E b \in {0, 1}, n \in 0 .. Last31 : code = <<b, n>>

\* The last code is beyond the last range that ends before it.
LEMMA TableBound == Last31 \in Nat /\ Last31 > 66304
BY SMT DEF Last31

\* The ids with a name of their own, and the table as its parts.
DefinedIds == HandledIds \o OtherIds

\* The table of ids, entry by entry.
LEMMA IdsTable ==
    /\ Len(HandledIds) = 11 /\ Len(OtherIds) = 21 /\ Len(ReservedIds) = 13 /\ Len(command_ids) = 45
    /\ \A i \in 1 .. 11 : command_ids[i] = HandledIds[i]
    /\ \A i \in 1 .. 21 : command_ids[11 + i] = OtherIds[i]
    /\ \A i \in 1 .. 13 : command_ids[32 + i] = ReservedIds[i]
    /\ Range(DefinedIds) = {command_ids[i] : i \in 1 .. 32}
<1> DEFINE X == Range(HandledIds) \cup Range(OtherIds) \cup Range(ReservedIds)
<1>1. HandledIds \in Seq(Range(HandledIds)) /\ Len(HandledIds) = 11
    BY DEF HandledIds, Range
<1>2. OtherIds \in Seq(Range(OtherIds)) /\ Len(OtherIds) = 21
    BY DEF OtherIds, Range
<1>3. ReservedIds \in Seq(Range(ReservedIds)) /\ Len(ReservedIds) = 13
    BY DEF ReservedIds, Range
<1>4. HandledIds \in Seq(X) /\ OtherIds \in Seq(X) /\ ReservedIds \in Seq(X)
    BY <1>1, <1>2, <1>3
<1> HIDE DEF X
<1>5. /\ DefinedIds \in Seq(X) /\ Len(DefinedIds) = 11 + 21
      /\ \A i \in 1 .. 11 : DefinedIds[i] = HandledIds[i]
      /\ \A i \in 1 .. 21 : DefinedIds[11 + i] = OtherIds[i]
  <2>1. /\ DefinedIds \in Seq(X) /\ Len(DefinedIds) = Len(HandledIds) + Len(OtherIds)
        /\ \A i \in 1 .. Len(HandledIds) : DefinedIds[i] = HandledIds[i]
        /\ \A i \in 1 .. Len(OtherIds) : DefinedIds[Len(HandledIds) + i] = OtherIds[i]
      BY <1>4, TwoTables DEF DefinedIds
  <2> QED
      BY <1>1, <1>2, <2>1, Zenon
<1>6. command_ids = DefinedIds \o ReservedIds
    BY Zenon DEF command_ids, DefinedIds
<1>7. /\ Len(command_ids) = (11 + 21) + 13
      /\ \A i \in 1 .. (11 + 21) : command_ids[i] = DefinedIds[i]
      /\ \A i \in 1 .. 13 : command_ids[(11 + 21) + i] = ReservedIds[i]
  <2>1. /\ Len(command_ids) = Len(DefinedIds) + Len(ReservedIds)
        /\ \A i \in 1 .. Len(DefinedIds) : command_ids[i] = DefinedIds[i]
        /\ \A i \in 1 .. Len(ReservedIds) : command_ids[Len(DefinedIds) + i] = ReservedIds[i]
    <3>1. DefinedIds \in Seq(X) /\ ReservedIds \in Seq(X)
        BY <1>4, <1>5
    <3> QED
        BY <1>6, <3>1, TwoTables
  <2> QED
      BY <1>3, <1>5, <2>1, Zenon
<1>8. 11 + 21 = 32 /\ 32 + 13 = 45
    OBVIOUS
<1>9. \A i \in 1 .. 32 : command_ids[i] = DefinedIds[i]
    BY <1>7, <1>8
<1>10. /\ \A i \in 1 .. 11 : i \in 1 .. 32
       /\ \A i \in 1 .. 21 : 11 + i \in 1 .. 32
    OBVIOUS
<1>11. \A i \in 1 .. 11 : command_ids[i] = HandledIds[i]
    BY <1>5, <1>9, <1>10, Zenon
<1>12. \A i \in 1 .. 21 : command_ids[11 + i] = OtherIds[i]
    BY <1>5, <1>9, <1>10, Zenon
<1>13. Range(DefinedIds) = {command_ids[i] : i \in 1 .. 32}
  <2>1. DOMAIN DefinedIds = 1 .. 32
      BY <1>5, <1>8
  <2> QED
      BY <1>9, <2>1, Zenon DEF Range
<1> QED
    BY <1>1, <1>2, <1>3, <1>7, <1>8, <1>11, <1>12, <1>13

\* A defined id matches its own code only, and no two have the same code.
LEMMA DefinedOnce ==
    /\ \A i \in 1 .. 32 : command_ids[i].first = command_ids[i].last /\ IsCode(command_ids[i].first)
    /\ \A i, j \in 1 .. 32 : command_ids[i].first = command_ids[j].first => i = j
<1> DEFINE H(i) == HandledIds[i].first
           O(i) == OtherIds[i].first
<1>a. \A i \in 1 .. 11 : HandledIds[i].last = H(i)
    BY DEF HandledIds, One
<1>b. \A i \in 1 .. 21 : OtherIds[i].last = O(i)
    BY DEF OtherIds, One
<1> DEFINE Small == {0, 1} \X (0 .. 300)
<1>c. \A k \in 0 .. 300 : Request(k) \in Small /\ Response(k) \in Small
    BY DEF Request, Response
<1>1. \A i \in 1 .. 11 : H(i) \in Small
  <2>1. \A i \in 1 .. 11 : \E k \in {0, 4, 5, 6, 9, 21} : H(i) \in {Request(k), Response(k)}
      BY DEF HandledIds, One
  <2>2. \A k \in {0, 4, 5, 6, 9, 21} : k \in 0 .. 300
      OBVIOUS
  <2> HIDE DEF H, Small
  <2> QED
      BY <1>c, <2>1, <2>2
<1>2. \A i \in 1 .. 21 : O(i) \in Small
  <2>1. \A i \in 1 .. 21 : \E k \in {1, 2, 3, 7, 8, 10, 11, 33, 256, 257, 258, 259} : O(i) \in {Request(k), Response(k)}
      BY DEF OtherIds, One
  <2>2. \A k \in {1, 2, 3, 7, 8, 10, 11, 33, 256, 257, 258, 259} : k \in 0 .. 300
      OBVIOUS
  <2> HIDE DEF O, Small
  <2> QED
      BY <1>c, <2>1, <2>2
<1>3. \A i \in 1 .. 11 : \A j \in 1 .. 11 : H(i) = H(j) => i = j
    BY SMTT(90) DEF HandledIds, One, Request, Response
<1>4. \A i \in 1 .. 21 : \A j \in 1 .. 21 : O(i) = O(j) => i = j
    BY SMTT(90) DEF OtherIds, One, Request, Response
<1>5. \A i \in 1 .. 11 : \A j \in 1 .. 21 : H(i) # O(j)
    BY SMTT(90) DEF HandledIds, OtherIds, One, Request, Response
<1> DEFINE C(i) == command_ids[i].first
<1>6. \A i \in 1 .. 11 : C(i) = H(i) /\ command_ids[i].last = H(i)
    BY <1>a, IdsTable, Zenon
<1>7. \A i \in 1 .. 21 : C(11 + i) = O(i) /\ command_ids[11 + i].last = O(i)
    BY <1>b, IdsTable, Zenon
<1>8. \A i \in 1 .. 32 : i \in 1 .. 11 \/ (i - 11 \in 1 .. 21 /\ i = 11 + (i - 11))
    OBVIOUS
<1>9. \A i \in 1 .. 32 : C(i) = command_ids[i].last /\ IsCode(C(i))
  <2>0. \A c \in {0, 1} \X (0 .. 300) : IsCode(c)
      BY TableBound DEF IsCode
  <2>1. \A i \in 1 .. 11 : IsCode(H(i))
      BY <1>1, <2>0, Zenon
  <2>2. \A i \in 1 .. 21 : IsCode(O(i))
      BY <1>2, <2>0, Zenon
  <2> QED
      BY <1>6, <1>7, <1>8, <2>1, <2>2, Zenon
<1>10. ASSUME NEW i \in 1 .. 32, NEW j \in 1 .. 32, C(i) = C(j) PROVE i = j
  <2> HIDE DEF H, O, C
  <2>1. CASE i \in 1 .. 11 /\ j \in 1 .. 11
      BY <1>3, <1>6, <1>10, <2>1, Zenon
  <2>2. CASE i \in 1 .. 11 /\ j \notin 1 .. 11
      BY <1>5, <1>6, <1>7, <1>8, <1>10, <2>2, Zenon
  <2>3. CASE i \notin 1 .. 11 /\ j \in 1 .. 11
      BY <1>5, <1>6, <1>7, <1>8, <1>10, <2>3, Zenon
  <2>4. CASE i \notin 1 .. 11 /\ j \notin 1 .. 11
    <3>1. i - 11 = j - 11
      <4>1. i - 11 \in 1 .. 21 /\ j - 11 \in 1 .. 21 /\ C(i) = O(i - 11) /\ C(j) = O(j - 11)
          BY <1>7, <1>8, <2>4, Zenon
      <4> QED
          BY <1>4, <1>10, <4>1, Zenon
    <3> QED
        BY <3>1
  <2> QED
      BY <2>1, <2>2, <2>3, <2>4
<1> QED
    BY <1>9, <1>10

\* An entry is one of the three tables'.
LEMMA EntryOf ==
    ASSUME NEW i \in 1 .. 45
    PROVE  \/ \E j \in 1 .. 11 : command_ids[i] = HandledIds[j]
           \/ \E j \in 1 .. 21 : command_ids[i] = OtherIds[j]
           \/ \E j \in 1 .. 13 : command_ids[i] = ReservedIds[j]
<1>1. CASE i <= 11
  <2>1. i \in 1 .. 11
      BY <1>1
  <2> QED
      BY <2>1, IdsTable, Zenon
<1>2. CASE 11 < i /\ i <= 32
  <2> DEFINE j == i - 11
  <2>1. j \in 1 .. 21 /\ i = 11 + j
      BY <1>2
  <2> HIDE DEF j
  <2>2. command_ids[11 + j] = OtherIds[j]
      BY <2>1, IdsTable, Zenon
  <2> QED
      BY <2>1, <2>2, Zenon
<1>3. CASE 32 < i
  <2> DEFINE j == i - 32
  <2>1. j \in 1 .. 13 /\ i = 32 + j
      BY <1>3
  <2> HIDE DEF j
  <2>2. command_ids[32 + j] = ReservedIds[j]
      BY <2>1, IdsTable, Zenon
  <2> QED
      BY <2>1, <2>2, Zenon
<1> QED
    BY <1>1, <1>2, <1>3

\* No entry is called none.
LEMMA NamesAreNames == \A i \in 1 .. 45 : command_ids[i].name # None
<1>1. \A i \in 1 .. 11 : HandledIds[i].name # None
    BY DEF HandledIds, One, None
<1>2. \A i \in 1 .. 21 : OtherIds[i].name # None
    BY DEF OtherIds, One, None
<1>3. \A i \in 1 .. 13 : ReservedIds[i].name # None
    BY DEF ReservedIds, Many, None
<1> QED
    BY <1>1, <1>2, <1>3, EntryOf, Zenon

\* The search finds the first entry that matches, if one does.
LEMMA SearchFinds ==
    ASSUME NEW code, \E i \in 1 .. 45 : Matches(command_ids[i], code)
    PROVE  \E i \in 1 .. 45 : /\ Matches(command_ids[i], code)
                              /\ \A j \in 1 .. 45 : Matches(command_ids[j], code) => i <= j
                              /\ _search_by_command_id_code(code) = command_ids[i].name
<1> DEFINE I == {j \in 1 .. Len(command_ids) : Matches(command_ids[j], code)}
<1>1. Len(command_ids) = 45
    BY IdsTable
<1>2. I \subseteq Nat /\ I # {} /\ \A j \in I : j # 0 /\ j \in Int
    BY <1>1
<1>3. \A j : j \in I <=> j \in 1 .. 45 /\ Matches(command_ids[j], code)
    BY <1>1
<1>4. PICK i \in I : \A j \in I : i <= j
  <2> HIDE DEF I
  <2> QED
      BY <1>2, LeastExists
<1>5. SelectInSeq(command_ids, LAMBDA e : Matches(e, code)) = IF I = {} THEN 0 ELSE Min(I)
    BY Zenon DEF SelectInSeq
<1> HIDE DEF I
<1>6. Min(I) = i
    BY <1>2, <1>4, LeastIs
<1>7. SelectInSeq(command_ids, LAMBDA e : Matches(e, code)) = i
    BY <1>2, <1>5, <1>6, Zenon
<1>8. _search_by_command_id_code(code) = command_ids[i].name
    BY <1>2, <1>4, <1>7, Zenon DEF _search_by_command_id_code
<1> QED
    BY <1>3, <1>4, <1>8, Zenon

\* The search finds nothing if no entry matches.
LEMMA SearchFails ==
    ASSUME NEW code, \A j \in 1 .. 45 : ~Matches(command_ids[j], code)
    PROVE  _search_by_command_id_code(code) = None
<1> DEFINE I == {j \in 1 .. Len(command_ids) : Matches(command_ids[j], code)}
<1>1. Len(command_ids) = 45
    BY IdsTable
<1>2. I = {}
    BY <1>1
<1>3. SelectInSeq(command_ids, LAMBDA e : Matches(e, code)) = 0
    BY <1>2, Zenon DEF SelectInSeq
<1> QED
    BY <1>3, Zenon DEF _search_by_command_id_code

\* A single value matches itself only.
LEMMA SingleMatches ==
    ASSUME NEW e, e.first = e.last, IsCode(e.first), NEW code, IsCode(code)
    PROVE  Matches(e, code) <=> e.first = code
<1>1. PICK b \in {0, 1}, n \in 0 .. Last31 : e.first = <<b, n>>
    BY DEF IsCode
<1>2. PICK c \in {0, 1}, m \in 0 .. Last31 : code = <<c, m>>
    BY DEF IsCode
<1>3. Matches(e, code) <=> NoMore(<<b, n>>, <<c, m>>) /\ NoMore(<<c, m>>, <<b, n>>)
    BY <1>1, <1>2, Zenon DEF Matches
<1>4. b \in Int /\ n \in Int /\ c \in Int /\ m \in Int
    BY TableBound
<1>5. NoMore(<<b, n>>, <<c, m>>) /\ NoMore(<<c, m>>, <<b, n>>) <=> b = c /\ n = m
    BY <1>4 DEF NoMore
<1>6. <<b, n>> = <<c, m>> <=> b = c /\ n = m
    OBVIOUS
<1> QED
    BY <1>1, <1>2, <1>3, <1>5, <1>6, Zenon

\* The ids below query_sm's are not in the table.
LEMMA NoneMatches ==
    ASSUME NEW i \in 1 .. 45, NEW k \in 0 .. 2
    PROVE  ~Matches(command_ids[i], Request(k))
<1> DEFINE P(e) == e.first[1] = 1 \/ (e.first[1] = 0 /\ e.first[2] \in Nat /\ e.first[2] >= 3)
<1>1. \A j \in 1 .. 11 : P(HandledIds[j])
    BY SMTT(90) DEF HandledIds, One, Request, Response
<1>2. \A j \in 1 .. 21 : P(OtherIds[j])
    BY SMTT(90) DEF OtherIds, One, Request, Response
<1>3. \A j \in 1 .. 13 : P(ReservedIds[j])
    BY SMTT(90) DEF ReservedIds, Many, Request, Response
<1>4. P(command_ids[i])
  <2> HIDE DEF P
  <2> QED
      BY <1>1, <1>2, <1>3, EntryOf, Zenon
<1>5. ~NoMore(command_ids[i].first, <<0, k>>)
    BY <1>4 DEF NoMore
<1> QED
    BY <1>5, Zenon DEF Matches, Request

\* Every other id is: a single value, or within a range.
LEMMA SomeMatches ==
    ASSUME NEW code, IsCode(code), code \notin {Request(0), Request(1), Request(2)}
    PROVE  \E i \in 1 .. 45 : Matches(command_ids[i], code)
<1>1. PICK b \in {0, 1}, n \in 0 .. Last31 : code = <<b, n>>
    BY DEF IsCode
<1>0. n \in Nat /\ Last31 \in Nat /\ Last31 > 66304 /\ n <= Last31
    BY TableBound
<1> DEFINE R(j) == ReservedIds[j]
<1>2. ASSUME NEW j \in 1 .. 13, Matches(ReservedIds[j], <<b, n>>)
      PROVE  \E i \in 1 .. 45 : Matches(command_ids[i], <<b, n>>)
  <2> DEFINE i == 32 + j
  <2>1. i \in 1 .. 45
      OBVIOUS
  <2>2. command_ids[i] = ReservedIds[j]
      BY IdsTable, Zenon
  <2> HIDE DEF i
  <2> QED
      BY <1>2, <2>1, <2>2, Zenon
<1>3. ASSUME NEW j \in 1 .. 11, Matches(HandledIds[j], <<b, n>>)
      PROVE  \E i \in 1 .. 45 : Matches(command_ids[i], <<b, n>>)
  <2>1. j \in 1 .. 45
      OBVIOUS
  <2>2. command_ids[j] = HandledIds[j]
      BY IdsTable, Zenon
  <2> QED
      BY <1>3, <2>1, <2>2, Zenon
<1>4. ASSUME NEW j \in 1 .. 21, Matches(OtherIds[j], <<b, n>>)
      PROVE  \E i \in 1 .. 45 : Matches(command_ids[i], <<b, n>>)
  <2> DEFINE i == 11 + j
  <2>1. i \in 1 .. 45
      OBVIOUS
  <2>2. command_ids[i] = OtherIds[j]
      BY IdsTable, Zenon
  <2> HIDE DEF i
  <2> QED
      BY <1>4, <2>1, <2>2, Zenon
<1>5. CASE b = 1
  <2>1. ReservedIds[7].first = <<0, 66304>> /\ ReservedIds[7].last = <<1, Last31>>
      BY SMTT(90) DEF ReservedIds, Many, Request, Response
  <2>2. Matches(ReservedIds[7], <<b, n>>)
      BY <1>0, <1>5, <2>1 DEF Matches, NoMore
  <2> QED
      BY <1>1, <1>2, <2>2
<1>6. CASE b = 0
  <2>0. n >= 3
      BY <1>0, <1>1, <1>6 DEF Request
  <2>1. CASE n >= 66304
    <3>1. ReservedIds[7].first = <<0, 66304>> /\ ReservedIds[7].last = <<1, Last31>>
        BY SMTT(90) DEF ReservedIds, Many, Request, Response
    <3>2. Matches(ReservedIds[7], <<b, n>>)
        BY <1>0, <1>6, <2>1, <3>1 DEF Matches, NoMore
    <3> QED
        BY <1>1, <1>2, <3>2
  <2>2. CASE n < 66304 /\ n >= 12 /\ n \notin {21, 33, 256, 257, 258, 259}
    <3>1. \E j \in {1, 3, 5, 8, 10, 12} : Matches(ReservedIds[j], <<b, n>>)
      <4>1. /\ ReservedIds[1].first = <<0, 12>> /\ ReservedIds[1].last = <<0, 20>>
            /\ ReservedIds[3].first = <<0, 22>> /\ ReservedIds[3].last = <<0, 32>>
            /\ ReservedIds[5].first = <<0, 34>> /\ ReservedIds[5].last = <<0, 255>>
            /\ ReservedIds[8].first = <<0, 65536>> /\ ReservedIds[8].last = <<0, 66047>>
            /\ ReservedIds[10].first = <<0, 260>> /\ ReservedIds[10].last = <<0, 65535>>
            /\ ReservedIds[12].first = <<0, 66048>> /\ ReservedIds[12].last = <<0, 66303>>
          BY SMTT(90) DEF ReservedIds, Many, Request
      <4> QED
          BY <1>0, <1>6, <2>2, <4>1 DEF Matches, NoMore
    <3>2. \A j \in {1, 3, 5, 8, 10, 12} : j \in 1 .. 13
        OBVIOUS
    <3> QED
        BY <1>1, <1>2, <3>1, <3>2, Zenon
  <2>3. CASE n \in {4, 5, 6, 9, 21}
    <3>1. \E j \in 1 .. 11 : HandledIds[j].first = <<0, n>> /\ HandledIds[j].last = <<0, n>>
        BY <2>3 DEF HandledIds, One, Request
    <3>2. NoMore(<<b, n>>, <<b, n>>)
        BY <1>0, <1>6 DEF NoMore
    <3>3. \E j \in 1 .. 11 : Matches(HandledIds[j], <<b, n>>)
        BY <1>6, <3>1, <3>2, Zenon DEF Matches
    <3> QED
        BY <1>1, <1>3, <3>3, Zenon
  <2>4. CASE n \in {3, 7, 8, 10, 11, 33, 256, 257, 258, 259}
    <3>1. \E j \in 1 .. 21 : OtherIds[j].first = <<0, n>> /\ OtherIds[j].last = <<0, n>>
        BY <2>4 DEF OtherIds, One, Request
    <3>2. NoMore(<<b, n>>, <<b, n>>)
        BY <1>0, <1>6 DEF NoMore
    <3>3. \E j \in 1 .. 21 : Matches(OtherIds[j], <<b, n>>)
        BY <1>6, <3>1, <3>2, Zenon DEF Matches
    <3> QED
        BY <1>1, <1>4, <3>3, Zenon
  <2> QED
      BY <1>0, <2>0, <2>1, <2>2, <2>3, <2>4
<1> QED
    BY <1>5, <1>6

\* What the search of an id of 32 bits finds: a defined id by its name, some name for every
\* other but the three below query_sm's.
THEOREM EveryIdNamed ==
    ASSUME NEW code, IsCode(code)
    PROVE  /\ \A e \in Range(DefinedIds) : e.first = code => _search_by_command_id_code(code) = e.name
           /\ _search_by_command_id_code(code) = None <=> code \in {Request(0), Request(1), Request(2)}
<1>1. ASSUME NEW e \in Range(DefinedIds), e.first = code
      PROVE  _search_by_command_id_code(code) = e.name
  <2>1. PICK i \in 1 .. 32 : e = command_ids[i]
      BY IdsTable
  <2>2. e.first = e.last /\ IsCode(e.first)
      BY <2>1, DefinedOnce, Zenon
  <2>3. Matches(command_ids[i], code) /\ i \in 1 .. 45
    <3>1. Matches(e, code)
        BY <1>1, <2>2, SingleMatches
    <3> QED
        BY <2>1, <3>1
  <2>4. PICK j \in 1 .. 45 : /\ Matches(command_ids[j], code)
                             /\ \A m \in 1 .. 45 : Matches(command_ids[m], code) => j <= m
                             /\ _search_by_command_id_code(code) = command_ids[j].name
      BY <2>3, SearchFinds, Zenon
  <2>5. j \in 1 .. 32
    <3>1. j <= i
        BY <2>3, <2>4, Zenon
    <3> QED
        BY <3>1
  <2>6. command_ids[j].first = command_ids[j].last /\ IsCode(command_ids[j].first)
      BY <2>5, DefinedOnce, Zenon
  <2>7. command_ids[j].first = code
      BY <2>4, <2>6, SingleMatches
  <2>8. i = j
      BY <1>1, <2>1, <2>5, <2>7, DefinedOnce, Zenon
  <2> QED
      BY <2>1, <2>4, <2>8
<1>2. ASSUME code \in {Request(0), Request(1), Request(2)}
      PROVE  _search_by_command_id_code(code) = None
  <2>1. PICK k \in 0 .. 2 : code = Request(k)
      BY <1>2
  <2>2. \A j \in 1 .. 45 : ~Matches(command_ids[j], code)
      BY <2>1, NoneMatches, Zenon
  <2> QED
      BY <2>2, SearchFails
<1>3. ASSUME code \notin {Request(0), Request(1), Request(2)}
      PROVE  _search_by_command_id_code(code) # None
  <2>1. \E i \in 1 .. 45 : Matches(command_ids[i], code)
      BY <1>3, SomeMatches
  <2>2. PICK j \in 1 .. 45 : _search_by_command_id_code(code) = command_ids[j].name
      BY <2>1, SearchFinds, Zenon
  <2> QED
      BY <2>2, NamesAreNames, Zenon
<1> QED
    BY <1>1, <1>2, <1>3, Zenon

-----------------------------------------------------------------------------
(* The table of statuses. *)

\* The statuses: single values, ranges, and all the codes from 1280.
StatusValues ==
    0 .. 21 \cup {51, 52} \cup 64 .. 69 \cup {72, 73} \cup 80 .. 85 \cup {88}
    \cup 97 .. 103 \cup 192 .. 196 \cup {254, 255}

StatusRanges ==
    {<<22, 50>>, <<53, 63>>, <<70, 71>>, <<86, 87>>, <<89, 96>>, <<104, 191>>,
     <<197, 253>>, <<256, 1023>>, <<1024, 1279>>}

LastRange == Many(1280, Request(1280), Response(Last31))

\* Where the last range begins.
RestFrom == 1280

\* The numbers of the status entries, each entry given by its bounds.
Within(n, lo, hi) == lo <= n /\ n <= hi

StatusBounds == {<<v, v>> : v \in StatusValues} \cup StatusRanges

StatusEntry(r) == Many(r[1], Request(r[1]), Request(r[2]))

\* The table of statuses, by the bounds of its entries.
LEMMA StatusTable == command_statuses = {StatusEntry(r) : r \in StatusBounds} \cup {LastRange}
<1>1. {One(n, Request(n)) : n \in StatusValues} = {StatusEntry(r) : r \in {<<v, v>> : v \in StatusValues}}
  <2>1. \A v : One(v, Request(v)) = StatusEntry(<<v, v>>)
      BY DEF StatusEntry, One, Many
  <2> QED
      BY <2>1, Zenon
<1>2. command_statuses = {One(n, Request(n)) : n \in StatusValues} \cup {StatusEntry(r) : r \in StatusRanges}
                         \cup {LastRange}
    BY Zenon DEF command_statuses, Status, StatusValues, StatusRanges, StatusEntry, LastRange
<1> QED
    BY <1>1, <1>2, Zenon DEF StatusBounds

\* What the bounds are.
LEMMA BoundsTyped ==
    ASSUME NEW r \in StatusBounds
    PROVE  /\ r = <<r[1], r[2]>> /\ r[1] \in Nat /\ r[2] \in Nat /\ r[1] < RestFrom /\ r[2] < RestFrom
           /\ StatusEntry(r).first = <<0, r[1]>> /\ StatusEntry(r).last = <<0, r[2]>>
<1>1. CASE r \in {<<v, v>> : v \in StatusValues}
    BY <1>1 DEF StatusValues, StatusEntry, Many, Request, RestFrom
<1>2. CASE r \in StatusRanges
    BY <1>2 DEF StatusRanges, StatusEntry, Many, Request, RestFrom
<1> QED
    BY <1>1, <1>2 DEF StatusBounds

\* No number is within the bounds of two entries, and those below 1280 that are within
\* none are 74 to 79.
LEMMA BoundsApart ==
    ASSUME NEW r \in StatusBounds, NEW s \in StatusBounds, NEW n \in Nat,
           Within(n, r[1], r[2]), Within(n, s[1], s[2])
    PROVE  r = s
<1>1. ASSUME NEW v \in StatusValues, NEW q \in StatusRanges PROVE ~Within(v, q[1], q[2])
    BY <1>1 DEF StatusValues, StatusRanges, Within
<1>2. ASSUME NEW v \in StatusValues, Within(n, v, v) PROVE v = n
    BY <1>2 DEF StatusValues, Within
<1>3. CASE r \in StatusRanges /\ s \in StatusRanges
    BY <1>3 DEF StatusRanges, Within
<1>4. CASE r \in {<<v, v>> : v \in StatusValues}
  <2>1. PICK v \in StatusValues : r = <<v, v>>
      BY <1>4
  <2>2. v = n
      BY <1>2, <2>1
  <2>3. s \notin StatusRanges
      BY <1>1, <2>2
  <2>4. PICK w \in StatusValues : s = <<w, w>>
      BY <2>3 DEF StatusBounds
  <2> QED
      BY <1>2, <2>1, <2>2, <2>4
<1>5. CASE r \in StatusRanges /\ s \in {<<v, v>> : v \in StatusValues}
  <2>1. PICK v \in StatusValues : s = <<v, v>>
      BY <1>5
  <2>2. v = n
      BY <1>2, <2>1
  <2> QED
      BY <1>1, <1>5, <2>2
<1> QED
    BY <1>3, <1>4, <1>5 DEF StatusBounds

\* The numbers that are within the bounds of some entry.
LEMMA BoundsCover ==
    ASSUME NEW n \in Nat
    PROVE  (\E r \in StatusBounds : Within(n, r[1], r[2])) <=> n < RestFrom /\ n \notin 74 .. 79
<1>1. (\E v \in StatusValues : n = v) \/ (\E q \in StatusRanges : Within(n, q[1], q[2]))
          <=> n < RestFrom /\ n \notin 74 .. 79
  <2>1. (\E q \in StatusRanges : Within(n, q[1], q[2])) <=>
            \/ n \in 22 .. 50 \/ n \in 53 .. 63 \/ n \in 70 .. 71 \/ n \in 86 .. 87 \/ n \in 89 .. 96
            \/ n \in 104 .. 191 \/ n \in 197 .. 253 \/ n \in 256 .. 1023 \/ n \in 1024 .. 1279
      BY DEF StatusRanges, Within
  <2>2. (\E v \in StatusValues : n = v) <=> n \in StatusValues
      OBVIOUS
  <2> QED
      BY <2>1, <2>2 DEF StatusValues, RestFrom
<1>2. ASSUME NEW v \in StatusValues PROVE Within(n, v, v) <=> n = v
    BY <1>2 DEF StatusValues, Within
<1>3. (\E r \in {<<v, v>> : v \in StatusValues} : Within(n, r[1], r[2])) <=> (\E v \in StatusValues : n = v)
  <2>1. \A v : Within(n, <<v, v>>[1], <<v, v>>[2]) <=> Within(n, v, v)
      OBVIOUS
  <2> QED
      BY <1>2, <2>1, Zenon
<1> QED
    BY <1>1, <1>3, Zenon DEF StatusBounds

\* The codes that match an entry of the table.
LEMMA StatusMatches ==
    ASSUME NEW r \in StatusBounds, NEW b \in {0, 1}, NEW n \in Nat
    PROVE  Matches(StatusEntry(r), <<b, n>>) <=> b = 0 /\ Within(n, r[1], r[2])
<1> DEFINE e == StatusEntry(r)
<1>1. e.first = <<0, r[1]>> /\ e.last = <<0, r[2]>> /\ r[1] \in Nat /\ r[2] \in Nat
    BY BoundsTyped, Zenon
<1> HIDE DEF e
<1>2. Matches(e, <<b, n>>) <=> b = 0 /\ Within(n, r[1], r[2])
    BY <1>1 DEF Matches, NoMore, Within
<1> QED
    BY <1>2 DEF e

\* The codes that match the last range.
LEMMA LastMatches ==
    ASSUME NEW b \in {0, 1}, NEW n \in 0 .. Last31
    PROVE  Matches(LastRange, <<b, n>>) <=> b = 1 \/ n >= RestFrom
<1> DEFINE e == LastRange
<1>1. e.first = <<0, RestFrom>> /\ e.last = <<1, Last31>>
    BY DEF LastRange, Many, Request, Response, RestFrom
<1>2. n \in Nat /\ Last31 \in Nat /\ n <= Last31
    BY TableBound
<1> HIDE DEF e
<1>3. Matches(e, <<b, n>>) <=> b = 1 \/ n >= RestFrom
    BY <1>1, <1>2 DEF Matches, NoMore, RestFrom
<1> QED
    BY <1>3 DEF e

\* The search of a status finds one entry for every code of 32 bits, or none for 74 to 79.
THEOREM EveryStatusOnce ==
    ASSUME NEW code, IsCode(code)
    PROVE  /\ Cardinality(_search_by_command_status_value(code)) <= 1
           /\ _search_by_command_status_value(code) = {} <=> code \in {Request(n) : n \in 74 .. 79}
<1> DEFINE found == _search_by_command_status_value(code)
<1>1. PICK b \in {0, 1}, n \in 0 .. Last31 : code = <<b, n>>
    BY DEF IsCode
<1>2. n \in Nat /\ n \in Int
    BY TableBound
<1>3. \A e : e \in found <=> \/ \E r \in StatusBounds : e = StatusEntry(r) /\ b = 0 /\ Within(n, r[1], r[2])
                             \/ e = LastRange /\ (b = 1 \/ n >= RestFrom)
  <2>1. \A e : e \in found <=> \/ \E r \in StatusBounds : e = StatusEntry(r) /\ Matches(e, <<b, n>>)
                               \/ e = LastRange /\ Matches(e, <<b, n>>)
      BY <1>1, StatusTable, Zenon DEF _search_by_command_status_value
  <2>2. \A r \in StatusBounds : Matches(StatusEntry(r), <<b, n>>) <=> b = 0 /\ Within(n, r[1], r[2])
      BY <1>2, StatusMatches, Zenon
  <2>3. Matches(LastRange, <<b, n>>) <=> b = 1 \/ n >= RestFrom
      BY LastMatches, Zenon
  <2>4. \A e : (\E r \in StatusBounds : e = StatusEntry(r) /\ Matches(e, <<b, n>>)) <=>
               \E r \in StatusBounds : e = StatusEntry(r) /\ b = 0 /\ Within(n, r[1], r[2])
      BY <2>2, Zenon
  <2>5. \A e : e = LastRange /\ Matches(e, <<b, n>>) <=> e = LastRange /\ (b = 1 \/ n >= RestFrom)
      BY <2>3, Zenon
  <2> HIDE DEF found
  <2> QED
      BY <2>1, <2>4, <2>5, Zenon
<1> HIDE DEF found
<1>4. (\E r \in StatusBounds : Within(n, r[1], r[2])) <=> n < RestFrom /\ n \notin 74 .. 79
    BY <1>2, BoundsCover
<1>5. RestFrom \in Nat /\ RestFrom > 79
    BY DEF RestFrom
<1>6. found = {} <=> code \in {Request(m) : m \in 74 .. 79}
  <2>1. found = {} <=> b = 0 /\ n \in 74 .. 79
    <3>0. found = {} <=> ~(b = 1 \/ n >= RestFrom) /\ ~(b = 0 /\ \E r \in StatusBounds : Within(n, r[1], r[2]))
      <4>1. found = {} <=> \A e : e \notin found
          OBVIOUS
      <4> QED
          BY <1>3, <4>1, Zenon
    <3>1. found = {} <=> ~(b = 1 \/ n >= RestFrom) /\ ~(b = 0 /\ n < RestFrom /\ n \notin 74 .. 79)
        BY <1>4, <3>0
    <3> QED
        BY <1>2, <1>5, <3>1
  <2>2. b = 0 /\ n \in 74 .. 79 <=> code \in {Request(m) : m \in 74 .. 79}
      BY <1>1 DEF Request
  <2> QED
      BY <2>1, <2>2
<1>7. ASSUME NEW e \in found, NEW f \in found PROVE e = f
  <2>1. CASE b = 1 \/ n >= RestFrom
    <3>1. ~(b = 0 /\ \E r \in StatusBounds : Within(n, r[1], r[2]))
        BY <1>2, <1>4, <1>5, <2>1
    <3>2. e = LastRange /\ f = LastRange
        BY <1>3, <1>7, <3>1, Zenon
    <3> QED
        BY <3>2
  <2>2. CASE ~(b = 1 \/ n >= RestFrom)
    <3>1. PICK r \in StatusBounds : e = StatusEntry(r) /\ Within(n, r[1], r[2])
        BY <1>3, <2>2, Zenon
    <3>2. PICK s \in StatusBounds : f = StatusEntry(s) /\ Within(n, s[1], s[2])
        BY <1>3, <2>2, Zenon
    <3>3. r = s
        BY <1>2, <3>1, <3>2, BoundsApart
    <3> QED
        BY <3>1, <3>2, <3>3
  <2> QED
      BY <2>1, <2>2
<1>8. Cardinality(found) <= 1
  <2>1. CASE found = {}
      BY <2>1, FS_EmptySet
  <2>2. CASE found # {}
    <3>0. PICK e \in found : TRUE
        BY <2>2
    <3>1. found = {e}
        BY <1>7, <3>0
    <3>2. Cardinality({e}) = 1
        BY FS_Singleton
    <3> QED
        BY <3>1, <3>2
  <2> QED
      BY <2>1, <2>2
<1> QED
    BY <1>6, <1>8 DEF found

-----------------------------------------------------------------------------
(* The codes that Wire looks up. *)

\* The codes around the bounds of entries are codes of 32 bits.
LEMMA AroundCodes ==
    ASSUME NEW entries, \A e \in entries : IsCode(e.first) /\ IsCode(e.last),
           NEW code \in CodesAround(entries)
    PROVE  IsCode(code)
<1>1. ASSUME NEW c, IsCode(c), NEW d \in Around(c) PROVE IsCode(d)
  <2>1. PICK b \in {0, 1}, n \in 0 .. Last31 : c = <<b, n>>
      BY <1>1 DEF IsCode
  <2>2. n \in Nat /\ Last31 \in Nat
      BY TableBound
  <2>3. c[1] = b /\ c[2] = n
      BY <2>1
  <2>4. \/ d = c
        \/ n > 0 /\ d = <<b, n - 1>>
        \/ n < Last31 /\ d = <<b, n + 1>>
      BY <1>1, <2>3, Zenon DEF Around
  <2>5. n > 0 => n - 1 \in 0 .. Last31
      BY <2>2
  <2>6. n < Last31 => n + 1 \in 0 .. Last31
      BY <2>2
  <2> QED
      BY <2>1, <2>4, <2>5, <2>6, Zenon DEF IsCode
<1> QED
    BY <1>1, Zenon DEF CodesAround

\* The bounds of the entries for ids are codes of 32 bits.
LEMMA IdsAreCodes ==
    ASSUME NEW e \in Range(command_ids)
    PROVE  IsCode(e.first) /\ IsCode(e.last)
<1>1. PICK i \in 1 .. 45 : e = command_ids[i]
    BY IdsTable DEF Range
<1>2. CASE i \in 1 .. 32
    BY <1>1, <1>2, DefinedOnce
<1>3. CASE i \notin 1 .. 32
  <2> DEFINE j == i - 32
  <2>1. j \in 1 .. 13 /\ i = 32 + j
      BY <1>3
  <2> HIDE DEF j
  <2>2. e = ReservedIds[j]
      BY <1>1, <2>1, IdsTable, Zenon
  <2> DEFINE Pair(c) == c = <<c[1], c[2]>> /\ c[1] \in {0, 1} /\ c[2] \in Nat
  <2>3. \A m \in 1 .. 13 : Pair(ReservedIds[m].first) /\ ReservedIds[m].first[2] <= 66304
      BY SMTT(90) DEF ReservedIds, Many, Request, Response
  <2>4. \A m \in 1 .. 13 : Pair(ReservedIds[m].last) /\ (ReservedIds[m].last[2] <= 66304 \/ ReservedIds[m].last[2] = Last31)
      BY TableBound, SMTT(90) DEF ReservedIds, Many, Request, Response
  <2>5. \A c : Pair(c) /\ c[2] \in 0 .. Last31 => IsCode(c)
      BY Zenon DEF IsCode
  <2> HIDE DEF Pair
  <2>6. Pair(ReservedIds[j].first) /\ ReservedIds[j].first[2] \in 0 .. Last31
      BY <2>1, <2>3, TableBound DEF Pair
  <2>7. Pair(ReservedIds[j].last) /\ ReservedIds[j].last[2] \in 0 .. Last31
      BY <2>1, <2>4, TableBound DEF Pair
  <2> QED
      BY <2>2, <2>5, <2>6, <2>7, Zenon
<1> QED
    BY <1>2, <1>3

\* The bounds of the entries for statuses are codes of 32 bits.
LEMMA StatusesAreCodes ==
    ASSUME NEW e \in command_statuses
    PROVE  IsCode(e.first) /\ IsCode(e.last)
<1>1. ASSUME NEW n \in Nat, n <= RestFrom PROVE IsCode(<<0, n>>)
  <2>1. n \in 0 .. Last31
      BY <1>1, TableBound DEF RestFrom
  <2> QED
      BY <2>1, Zenon DEF IsCode
<1>2. CASE e = LastRange
  <2>1. e.first = <<0, RestFrom>> /\ e.last = <<1, Last31>>
      BY <1>2 DEF LastRange, Many, Request, Response, RestFrom
  <2>2. Last31 \in 0 .. Last31
      BY TableBound
  <2>3. IsCode(<<1, Last31>>)
      BY <2>2, Zenon DEF IsCode
  <2>4. RestFrom \in Nat /\ RestFrom <= RestFrom
      BY DEF RestFrom
  <2>5. IsCode(<<0, RestFrom>>)
      BY <1>1, <2>4, Zenon
  <2> QED
      BY <2>1, <2>3, <2>5, Zenon
<1>3. ASSUME NEW r \in StatusBounds, e = StatusEntry(r) PROVE IsCode(e.first) /\ IsCode(e.last)
  <2>1. /\ e.first = <<0, r[1]>> /\ e.last = <<0, r[2]>> /\ r[1] \in Nat /\ r[2] \in Nat
        /\ r[1] < RestFrom /\ r[2] < RestFrom
      BY <1>3, BoundsTyped, Zenon
  <2>2. r[1] <= RestFrom /\ r[2] <= RestFrom
      BY <2>1 DEF RestFrom
  <2>3. IsCode(<<0, r[1]>>) /\ IsCode(<<0, r[2]>>)
      BY <1>1, <2>1, <2>2, Zenon
  <2> QED
      BY <2>1, <2>3, Zenon
<1> QED
    BY <1>2, <1>3, StatusTable, Zenon
=============================================================================
