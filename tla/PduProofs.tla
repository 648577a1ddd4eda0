----------------------------- MODULE PduProofs ------------------------------
(***************************************************************************)
(* The SMSC reads what the client builds, for every message that fits, and *)
(* the client finds the id in what the SMSC reports.                       *)
(***************************************************************************)
EXTENDS Smsc, SeqOpsProofs

(* Numbers in octets. *)

\* A number packed in one octet.
LEMMA OneOctet ==
    ASSUME NEW n \in Nat
    PROVE  /\ Pack(n, 1) \in Seq(Nat) /\ Len(Pack(n, 1)) = 1
           /\ Fits(n, 1) => n < Byte /\ Pack(n, 1) = <<n>>
BY PduAssumption DEF Pack, Fits

\* A number packed in two octets.
LEMMA TwoOctets ==
    ASSUME NEW n \in Nat
    PROVE  /\ Pack(n, 2) \in Seq(Nat) /\ Len(Pack(n, 2)) = 2
           /\ n < Byte => Pack(n, 2) = <<0, n>>
           /\ Fits(n, 2) => Pack(n, 2)[1] * Byte + Pack(n, 2)[2] = n
<1> DEFINE q == n \div Byte
<1>1. Byte \in Nat /\ Byte > 8
    BY PduAssumption
<1>2. q \in Nat /\ q % Byte \in Nat /\ n % Byte \in Nat /\ Pack(n, 2) = <<q % Byte, n % Byte>>
    BY <1>1 DEF Pack
<1>3. n < Byte => q = 0 /\ n % Byte = n /\ 0 % Byte = 0
    BY <1>1
<1>4. Fits(n, 2) => q % Byte = q
    BY <1>1 DEF Fits
<1>5. n % Byte = n - Byte * q
  <2> HIDE DEF q
  <2>1. q = n \div Byte
      BY DEF q
  <2> QED
      BY <1>1, <1>2, <2>1
<1> HIDE DEF q
<1>6. q * Byte + (n - Byte * q) = n
    BY <1>1, <1>2
<1>7. /\ n < Byte => Pack(n, 2) = <<0, n>>
      /\ Fits(n, 2) => Pack(n, 2)[1] = q /\ Pack(n, 2)[2] = n - Byte * q
    BY <1>2, <1>3, <1>4, <1>5
<1>8. Pack(n, 2) \in Seq(Nat) /\ Len(Pack(n, 2)) = 2
  <2>1. ASSUME NEW a \in Nat, NEW b \in Nat PROVE <<a, b>> \in Seq(Nat) /\ Len(<<a, b>>) = 2
      OBVIOUS
  <2> QED
      BY <1>2, <2>1
<1> QED
    BY <1>6, <1>7, <1>8

-----------------------------------------------------------------------------
(* The search for a receipted_message_id. *)

Tag == <<0, ReceiptTag>>

\* The tag, packed.
LEMMA TagPacked == Pack(ReceiptTag, 2) = Tag
BY PduAssumption, TwoOctets DEF Tag

\* Where the tag is.
LEMMA TagPlaces ==
    ASSUME NEW body \in Seq(Int), NEW i
    PROVE  i \in Places(body, Pack(ReceiptTag, 2)) <=>
               i \in 1 .. Len(body) - 1 /\ body[i] = 0 /\ body[i + 1] = ReceiptTag
<1>1. Len(Tag) = 2 /\ Tag[1] = 0 /\ Tag[2] = ReceiptTag
    BY DEF Tag
<1>2. Len(body) - Len(Tag) + 1 = Len(body) - 1 /\ \A j \in Int : j + Len(Tag) - 1 = j + 1
    BY <1>1
<1>3. ASSUME i \in 1 .. Len(body) - 1
      PROVE  SubSeq(body, i, i + 1) = Tag <=> body[i] = 0 /\ body[i + 1] = ReceiptTag
  <2>1. SubSeq(body, i, i + 1) = <<body[i], body[i + 1]>>
      BY <1>3, TwoOf
  <2>2. \A x, y : <<x, y>> = Tag <=> x = 0 /\ y = ReceiptTag
      BY DEF Tag
  <2> QED
      BY <2>1, <2>2
<1>4. Places(body, Tag) = {j \in 1 .. Len(body) - 1 : SubSeq(body, j, j + 1) = Tag}
  <2>1. \A j \in 1 .. Len(body) - 1 : j + Len(Tag) - 1 = j + 1
      BY <1>2
  <2> QED
      BY <1>2, <2>1, Zenon DEF Places
<1> QED
    BY <1>3, <1>4, TagPacked

\* The least place is the first.
LEMMA FirstPlaceIs ==
    ASSUME NEW body, NEW octets, NEW p \in Places(body, octets),
           \A j \in Places(body, octets) : j \in Int /\ p <= j
    PROVE  FirstPlace(body, octets) = p
<1> DEFINE P == Places(body, octets)
<1>1. p \in P /\ \A j \in P : j \in Int /\ p <= j
    OBVIOUS
<1>2. FirstPlace(body, octets) = CHOOSE i \in P : \A j \in P : i <= j
    BY DEF FirstPlace
<1> HIDE DEF P
<1> QED
    BY <1>1, <1>2

\* How a receipted_message_id is spelt.
LEMMA ReceiptSpelt ==
    ASSUME NEW id \in Seq(Int)
    PROVE  \E head \in Seq(Int) : /\ Len(head) = 4 /\ head[1] = 0 /\ head[2] = ReceiptTag
                                  /\ Joined(ReceiptTlv(id), head, id \o NUL)
<1> DEFINE p == Pack(Len(id) + 1, 2)
           head == Tag \o p
           hi == head \o id
           text == id \o NUL
<1>1. p \in Seq(Int) /\ Len(p) = 2
  <2>1. Len(id) + 1 \in Nat
      OBVIOUS
  <2> HIDE DEF p
  <2>2. p \in Seq(Nat) /\ Len(p) = 2
      BY <2>1, TwoOctets DEF p
  <2> QED
      BY <2>2
<1>2. Tag \in Seq(Int) /\ Len(Tag) = 2 /\ Tag[1] = 0 /\ Tag[2] = ReceiptTag /\ NUL \in Seq(Int)
    BY PduAssumption DEF Tag, NUL
<1> HIDE DEF p
<1>3. head \in Seq(Int) /\ Len(head) = 4 /\ head[1] = 0 /\ head[2] = ReceiptTag
  <2>1. Joined(head, Tag, p)
      BY <1>1, <1>2 DEF Joined
  <2> HIDE DEF head
  <2>2. head \in Seq(Int) /\ Len(head) = Len(Tag) + Len(p) /\ \A i \in 1 .. Len(Tag) : head[i] = Tag[i]
      BY <2>1, JoinedIs, SMT
  <2> QED
      BY <1>1, <1>2, <2>2
<1> HIDE DEF head
<1>4. Joined(hi, head, id) /\ Joined(text, id, NUL)
    BY <1>2, <1>3 DEF Joined
<1>5. hi \in Seq(Int)
    BY <1>4, JoinedIs, Zenon
<1>6. ReceiptTlv(id) = hi \o NUL
    BY TagPacked DEF ReceiptTlv, hi, head, p
<1> HIDE DEF hi, text
<1>7. Joined(ReceiptTlv(id), hi, NUL)
    BY <1>2, <1>5, <1>6, Zenon DEF Joined
<1>8. Joined(ReceiptTlv(id), head, text)
    BY <1>4, <1>7, JoinedRight, SMT
<1> QED
    BY <1>3, <1>8 DEF text

\* Where the tag and the text of the last option are in a body.
LEMMA ReceiptBody ==
    ASSUME NEW start, NEW id \in Seq(Int), NEW body, Joined(body, start, ReceiptTlv(id))
    PROVE  /\ body \in Seq(Int) /\ Len(start) \in Nat /\ Len(body) = Len(start) + 5 + Len(id)
           /\ body[Len(start) + 1] = 0 /\ body[Len(start) + 2] = ReceiptTag
           /\ SubSeq(body, Len(start) + 5, Len(body)) = id \o NUL
<1> DEFINE tlvs == ReceiptTlv(id)
           text == id \o NUL
<1>1. PICK head \in Seq(Int) : /\ Len(head) = 4 /\ head[1] = 0 /\ head[2] = ReceiptTag
                               /\ Joined(tlvs, head, text)
    BY ReceiptSpelt
<1>2. Len(text) = Len(id) + 1 /\ Len(id) \in Nat
    BY DEF NUL
<1> DEFINE a == start \o head
<1>3. Joined(body, start, tlvs)
    OBVIOUS
<1>4. start \in Seq(Int)
    BY <1>3, JoinedIs, Zenon
<1>5. Joined(a, start, head)
    BY <1>4 DEF Joined
<1> HIDE DEF a, text, tlvs
<1>6. Joined(body, a, text)
    BY <1>1, <1>3, <1>5, JoinedLeft, Zenon
<1>7. /\ Len(a) = Len(start) + 4 /\ Len(start) \in Nat
      /\ a[Len(start) + 1] = 0 /\ a[Len(start) + 2] = ReceiptTag
  <2>1. /\ Len(a) = Len(start) + Len(head) /\ Len(start) \in Nat
        /\ \A i \in 1 .. Len(head) : a[Len(start) + i] = head[i]
      BY <1>5, JoinedIs, SMT
  <2> QED
      BY <1>1, <2>1
<1>8. /\ body \in Seq(Int) /\ Len(body) = Len(a) + Len(text)
      /\ \A i \in 1 .. Len(a) : body[i] = a[i]
    BY <1>6, JoinedIs, SMT
<1>9. body[Len(start) + 1] = 0 /\ body[Len(start) + 2] = ReceiptTag
  <2>1. Len(start) + 1 \in 1 .. Len(a) /\ Len(start) + 2 \in 1 .. Len(a)
      BY <1>7
  <2> QED
      BY <1>7, <1>8, <2>1, Zenon
<1>10. SubSeq(body, Len(a) + 1, Len(body)) = text
    BY <1>6, JoinedParts, Zenon
<1>11. Len(a) + 1 = Len(start) + 5 /\ Len(body) = Len(start) + 5 + Len(id)
    BY <1>2, <1>7, <1>8
<1> QED
    BY <1>7, <1>8, <1>9, <1>10, <1>11 DEF text

\* Of a deliver_sm that ends in a receipted_message_id, and does not spell its tag before,
\* the id found is the one of the submit_sm_resp.
LEMMA ReceiptFound ==
    ASSUME NEW start, NEW id \in Seq(Int), Len(id) < MaxIdLen,
           NEW body, Joined(body, start, ReceiptTlv(id)),
           \A i \in Places(body, Pack(ReceiptTag, 2)) : ~(i <= Len(start))
    PROVE  ReceiptedIds(body) = {SmscMessageId(id \o NUL)}
<1> DEFINE n == Len(start)
           P == Places(body, Pack(ReceiptTag, 2))
<1>1. /\ body \in Seq(Int) /\ Len(body) = n + 5 + Len(id) /\ body[n + 1] = 0 /\ body[n + 2] = ReceiptTag
      /\ SubSeq(body, n + 5, Len(body)) = id \o NUL
    BY ReceiptBody
<1>2. n \in Nat /\ Len(id) \in Nat /\ MaxIdLen \in Nat
    BY PduAssumption, ReceiptBody
<1>3. \A i \in P : i \in Int /\ ~(i <= n)
  <2>1. \A i \in P : i \in 1 .. Len(body) - 1
      BY <1>1, TagPlaces, Zenon
  <2> QED
      BY <2>1
<1>4. n + 1 \in P
  <2>1. n + 1 \in 1 .. Len(body) - 1 /\ (n + 1) + 1 = n + 2
    <3> HIDE DEF n
    <3>1. Len(body) = n + 5 + Len(id)
        BY <1>1
    <3> QED
        BY <1>2, <3>1
  <2> QED
      BY <1>1, <2>1, TagPlaces
<1> HIDE DEF n
<1>5. \A j \in P : j \in Int /\ n + 1 <= j
    BY <1>2, <1>3
<1>6. FirstPlace(body, Pack(ReceiptTag, 2)) = n + 1
    BY <1>4, <1>5, FirstPlaceIs
<1>7. Slice(body, (n + 1) + 4, (n + 1) + 3 + MaxIdLen) = id \o NUL
  <2>1. ~((n + 1) + 3 + MaxIdLen < Len(body)) /\ (n + 1) + 4 = n + 5
      BY <1>1, <1>2
  <2> QED
      BY <1>1, <2>1 DEF Slice
<1>8. Places(body, Pack(ReceiptTag, 2)) # {}
    BY <1>4
<1> QED
    BY <1>6, <1>7, <1>8 DEF ReceiptedIds, SmscMessageId

-----------------------------------------------------------------------------
(* Mandatory fields. *)

\* The values of a field: a text has no NUL in it.
FieldValue(name) == IF name \in TextFields THEN Seq(Nat \ {0}) ELSE {<<v>> : v \in Nat}

\* A field is a sequence of octets.
LEMMA FieldTyped ==
    ASSUME NEW name, NEW value \in FieldValue(name)
    PROVE  Field(name, value) \in Seq(Int)
<1>1. CASE name \in TextFields
  <2>1. value \in Seq(Int)
      BY <1>1 DEF FieldValue
  <2>2. value \o <<0>> \in Seq(Int)
      BY <2>1
  <2> QED
      BY <1>1, <2>2 DEF Field, NUL
<1>2. CASE name \notin TextFields
  <2>1. PICK v \in Nat : value = <<v>>
      BY <1>2 DEF FieldValue
  <2>2. value[1] \in Nat /\ Field(name, value) = Pack(value[1], 1)
      BY <1>2, <2>1 DEF Field
  <2>3. Pack(value[1], 1) \in Seq(Nat)
      BY <2>2, OneOctet
  <2> QED
      BY <2>2, <2>3
<1> QED
    BY <1>1, <1>2

\* The fields, one after the other.
LEMMA MandatoryPieces ==
    ASSUME NEW X, NEW order \in Seq(X), NEW fields,
           \A i \in 1 .. Len(order) : fields[order[i]] \in FieldValue(order[i])
    PROVE  \E fl \in [0 .. Len(order) -> Seq(Int)] :
               /\ fl[0] = <<>> /\ Mandatory(order, fields) = fl[Len(order)]
               /\ \A i \in 1 .. Len(order) : Joined(fl[i], fl[i - 1], Field(order[i], fields[order[i]]))
<1> DEFINE n == Len(order)
           parts == [i \in DOMAIN order |-> Field(order[i], fields[order[i]])]
<1>0. n \in Nat /\ n = Len(order) /\ DOMAIN order = 1 .. n
    OBVIOUS
<1>1. \A i \in 1 .. n : Field(order[i], fields[order[i]]) \in Seq(Int)
    BY FieldTyped
<1>2. Mandatory(order, fields) = FlattenSeq(parts)
    BY DEF Mandatory
<1> HIDE DEF n
<1>3. parts \in [1 .. n -> Seq(Int)] /\ \A i \in 1 .. n : parts[i] = Field(order[i], fields[order[i]])
    BY <1>0, <1>1
<1> HIDE DEF parts
<1>4. parts \in Seq(Seq(Int)) /\ Len(parts) = n
    BY <1>0, <1>3, FunctionIsSeq
<1>5. PICK fl \in [0 .. n -> Seq(Int)] :
          /\ fl[0] = <<>> /\ FlattenSeq(parts) = fl[n]
          /\ \A i \in 1 .. n : fl[i] = fl[i - 1] \o parts[i]
    BY <1>4, Flattening
<1>6. ASSUME NEW i \in 1 .. n
      PROVE  Joined(fl[i], fl[i - 1], Field(order[i], fields[order[i]]))
  <2>1. i - 1 \in 0 .. n
      BY <1>0
  <2>2. fl[i - 1] \in Seq(Int) /\ fl[i] = fl[i - 1] \o parts[i] /\ parts[i] = Field(order[i], fields[order[i]])
      BY <1>3, <1>5, <2>1
  <2> QED
      BY <1>1, <2>2, Zenon DEF Joined
<1> QED
    BY <1>0, <1>2, <1>5, <1>6

\* So are the mandatory fields.
LEMMA MandatoryTyped ==
    ASSUME NEW X, NEW order \in Seq(X), NEW fields,
           \A i \in 1 .. Len(order) : fields[order[i]] \in FieldValue(order[i])
    PROVE  Mandatory(order, fields) \in Seq(Int)
<1>1. PICK fl \in [0 .. Len(order) -> Seq(Int)] : Mandatory(order, fields) = fl[Len(order)]
    BY MandatoryPieces
<1>2. Len(order) \in 0 .. Len(order)
    OBVIOUS
<1> QED
    BY <1>1, <1>2

-----------------------------------------------------------------------------
(* The SMSC's reader. *)

\* The first NUL is the one that ends the text.
LEMMA FirstNul ==
    ASSUME NEW value \in Seq(Nat \ {0}), NEW s \in Seq(Int), Len(s) > Len(value),
           \A i \in 1 .. Len(value) : s[i] = value[i], s[Len(value) + 1] = 0
    PROVE  SelectInSeq(s, LAMBDA b : b = 0) = Len(value) + 1
<1> DEFINE I == {i \in 1 .. Len(s) : s[i] = 0}
           n == Len(value) + 1
<1>1. n \in Nat /\ n \in I
    OBVIOUS
<1>2. \A i \in I : i \in Int /\ n <= i
  <2>1. \A i \in 1 .. Len(value) : value[i] # 0
      OBVIOUS
  <2>2. ASSUME NEW i \in 1 .. Len(s), s[i] = 0 PROVE n <= i
    <3>1. i \notin 1 .. Len(value)
        BY <2>1, <2>2
    <3> QED
        BY <3>1
  <2> QED
      BY <2>2
<1>3. SelectInSeq(s, LAMBDA b : b = 0) = IF I # {} THEN Min(I) ELSE 0
    BY DEF SelectInSeq
<1> HIDE DEF I, n
<1>4. Min(I) = n
    BY <1>1, <1>2, LeastIs
<1> QED
    BY <1>1, <1>3, <1>4 DEF n

\* One field is read as what it was, and the rest is left.
LEMMA ReadFieldBack ==
    ASSUME NEW name, NEW value \in FieldValue(name), FieldFits(name, value),
           NEW read, NEW rest, Joined(read.rest, Field(name, value), rest)
    PROVE  ReadField(read, name) = [fields |-> With(read.fields, name, value), rest |-> rest]
<1> DEFINE s == read.rest
<1>1. Joined(s, Field(name, value), rest)
    OBVIOUS
<1>2. CASE name \in TextFields
  <2> DEFINE f == value \o <<0>>
  <2>1. value \in Seq(Nat \ {0}) /\ value \in Seq(Int) /\ Field(name, value) = f
      BY <1>2 DEF FieldValue, Field, NUL
  <2>2. Joined(f, value, <<0>>) /\ Len(f) = Len(value) + 1 /\ f[Len(value) + 1] = 0 /\ Len(value) \in Nat
      BY <2>1 DEF Joined
  <2> HIDE DEF f, s
  <2>3. Joined(s, f, rest)
      BY <1>1, <2>1
  <2>4. /\ s \in Seq(Int) /\ Len(s) = Len(f) + Len(rest) /\ Len(rest) \in Nat
        /\ SubSeq(s, 1, Len(f)) = f /\ SubSeq(s, Len(f) + 1, Len(s)) = rest
      BY <2>3, JoinedTyped, JoinedParts, Zenon
  <2>5. \A i \in 1 .. Len(f) : s[i] = f[i]
      BY <2>3, JoinedFirst
  <2>6. \A i \in 1 .. Len(value) : f[i] = value[i]
      BY <2>2, JoinedFirst
  <2>7. \A i \in 1 .. Len(value) : s[i] = value[i]
      BY <2>2, <2>5, <2>6
  <2>8. s[Len(value) + 1] = 0 /\ Len(s) > Len(value)
      BY <2>2, <2>4, <2>5
  <2>9. SelectInSeq(s, LAMBDA b : b = 0) = Len(value) + 1
      BY <2>1, <2>4, <2>7, <2>8, FirstNul
  <2>10. SubSeq(s, 0 + 1, 0 + Len(value)) = value
    <3>1. 0 \in Nat /\ 0 + Len(value) <= Len(s) /\ \A i \in 1 .. Len(value) : s[0 + i] = value[i]
        BY <2>2, <2>7, <2>8
    <3> QED
        BY <2>1, <2>4, <3>1, PartIs
  <2>11. SubSeq(s, 1, (Len(value) + 1) - 1) = value /\ Rest(s, Len(value) + 1) = rest
    <3>1. 0 + 1 = 1 /\ 0 + Len(value) = (Len(value) + 1) - 1
        BY <2>2
    <3> QED
        BY <2>2, <2>4, <2>10, <3>1 DEF Rest
  <2>12. ReadField(read, name) = [fields |-> With(read.fields, name, SubSeq(s, 1, (Len(value) + 1) - 1)),
                                  rest |-> Rest(s, Len(value) + 1)]
      BY <1>2, <2>9 DEF ReadField, s
  <2> QED
      BY <2>11, <2>12
<1>3. CASE name \notin TextFields
  <2>1. PICK v \in Nat : value = <<v>>
      BY <1>3 DEF FieldValue
  <2>2. value[1] = v /\ Fits(v, 1)
      BY <1>3, <2>1 DEF FieldFits
  <2>3. Field(name, value) = <<v>>
      BY <1>3, <2>2, OneOctet DEF Field
  <2>4. Joined(s, value, rest) /\ Len(value) = 1
      BY <1>1, <2>1, <2>3
  <2> HIDE DEF s
  <2>5. SubSeq(s, 1, Len(value)) = value /\ SubSeq(s, Len(value) + 1, Len(s)) = rest
      BY <2>4, JoinedParts, Zenon
  <2>6. SubSeq(s, 1, 1) = value /\ Rest(s, 1) = rest
      BY <2>4, <2>5 DEF Rest
  <2>7. ReadField(read, name) = [fields |-> With(read.fields, name, SubSeq(s, 1, 1)), rest |-> Rest(s, 1)]
      BY <1>3 DEF ReadField, s
  <2> QED
      BY <2>6, <2>7
<1> QED
    BY <1>2, <1>3

\* What Read has after i fields, if r is what it had before each.
ReadAt(r, order, body, i) ==
    IF i = 0 THEN [fields |-> NoEntries, rest |-> body] ELSE ReadField(r[i - 1], order[i])

Reads(r, order, body) == r = [i \in 0 .. Len(order) |-> ReadAt(r, order, body, i)]

\* Its recursion has a solution.
LEMMA ReadsExists ==
    ASSUME NEW order, NEW body, Len(order) \in Nat
    PROVE  \E r : Reads(r, order, body)
<1> DEFINE n == Len(order)
           Eq(r, k) == r = [i \in 0 .. k |-> ReadAt(r, order, body, i)]
           S == {k \in Nat : \E r : Eq(r, k)}
<1>1. 0 \in S
  <2> DEFINE r == [i \in 0 .. 0 |-> [fields |-> NoEntries, rest |-> body]]
  <2>1. Eq(r, 0)
      BY DEF ReadAt
  <2> HIDE DEF r, Eq
  <2>2. \E q : Eq(q, 0)
      BY <2>1
  <2> QED
      BY <2>2
<1>2. ASSUME NEW k \in Nat, k \in S
      PROVE  k + 1 \in S
  <2>1. PICK r : Eq(r, k)
      BY <1>2
  <2> DEFINE q == [i \in 0 .. k + 1 |-> IF i = k + 1 THEN ReadAt(r, order, body, i) ELSE r[i]]
  <2>2. ASSUME NEW i \in 0 .. k + 1
        PROVE  q[i] = ReadAt(q, order, body, i)
    <3>1. \A j \in 0 .. k : q[j] = r[j]
        OBVIOUS
    <3>2. q[i] = ReadAt(r, order, body, i)
      <4>1. CASE i = k + 1
          BY <4>1
      <4>2. CASE i # k + 1
        <5>1. i \in 0 .. k
            BY <4>2
        <5>2. r[i] = ReadAt(r, order, body, i)
            BY <2>1, <5>1
        <5> QED
            BY <4>2, <5>2
      <4> QED
          BY <4>1, <4>2
    <3>3. i # 0 => q[i - 1] = r[i - 1]
        BY <3>1
    <3> HIDE DEF q
    <3> QED
        BY <3>2, <3>3 DEF ReadAt
  <2>3. Eq(q, k + 1)
      BY <2>2
  <2> HIDE DEF q, Eq
  <2> QED
      BY <2>3
<1>3. Nat \subseteq S
  <2> HIDE DEF S
  <2> QED
      BY <1>1, <1>2, Induction
<1>4. PICK r : Eq(r, n)
    BY <1>3
<1> QED
    BY <1>4 DEF Reads

\* Read is what a solution of its recursion says of the last field.
LEMMA ReadIs ==
    ASSUME NEW order, NEW body, Len(order) \in Nat
    PROVE  \E r : /\ Read(order, body) = r[Len(order)]
                  /\ \A i \in 0 .. Len(order) : r[i] = ReadAt(r, order, body, i)
<1> DEFINE r == CHOOSE r : Reads(r, order, body)
<1>1. Reads(r, order, body)
    BY ReadsExists
<1>2. Read(order, body) = r[Len(order)]
    BY DEF Read, Reads, ReadAt
<1> HIDE DEF r
<1>3. \A i \in 0 .. Len(order) : r[i] = ReadAt(r, order, body, i)
    BY <1>1 DEF Reads
<1> QED
    BY <1>2, <1>3

\* The fields of some names.
Some(fields, names) == [n \in names |-> fields[n]]

FirstNames(order, k) == {order[j] : j \in 1 .. k}

\* One field more has been read.
LEMMA OneMoreName ==
    ASSUME NEW order, NEW k \in Nat, NEW fields
    PROVE  With(Some(fields, FirstNames(order, k)), order[k + 1], fields[order[k + 1]])
               = Some(fields, FirstNames(order, k + 1))
<1> DEFINE D == FirstNames(order, k)
           E == FirstNames(order, k + 1)
           name == order[k + 1]
<1>1. E = D \cup {name}
  <2>1. \A j \in 1 .. k + 1 : j \in 1 .. k \/ j = k + 1
      OBVIOUS
  <2>2. \A j \in 1 .. k : j \in 1 .. k + 1
      OBVIOUS
  <2>3. k + 1 \in 1 .. k + 1
      OBVIOUS
  <2> QED
      BY <2>1, <2>2, <2>3 DEF FirstNames
<1> HIDE DEF D, E, name
<1>2. With(Some(fields, D), name, fields[name]) = [n \in D \cup {name} |-> fields[n]]
    BY DEF With, Some
<1>3. With(Some(fields, D), name, fields[name]) = Some(fields, E)
    BY <1>1, <1>2 DEF Some
<1> QED
    BY <1>3 DEF D, E, name

\* What was put together from the fields is read as the fields, whatever follows.
LEMMA FieldsRead ==
    ASSUME NEW X, NEW order \in Seq(X), NEW fields,
           \A i \in 1 .. Len(order) : fields[order[i]] \in FieldValue(order[i]),
           MandatoryFits(order, fields),
           NEW rest, NEW body, Joined(body, Mandatory(order, fields), rest)
    PROVE  Read(order, body) = [fields |-> Some(fields, FirstNames(order, Len(order))), rest |-> rest]
<1> DEFINE n == Len(order)
           F(i) == Field(order[i], fields[order[i]])
<1>0. n \in Nat /\ n = Len(order) /\ DOMAIN order = 1 .. n
    OBVIOUS
<1>1. PICK fl \in [0 .. n -> Seq(Int)] :
               /\ fl[0] = <<>> /\ Mandatory(order, fields) = fl[n]
               /\ \A i \in 1 .. n : Joined(fl[i], fl[i - 1], F(i))
    BY MandatoryPieces
<1>2. PICK r : /\ Read(order, body) = r[n]
               /\ \A i \in 0 .. n : r[i] = ReadAt(r, order, body, i)
    BY <1>0, ReadIs
<1>3. \A i \in 1 .. n : fields[order[i]] \in FieldValue(order[i]) /\ FieldFits(order[i], fields[order[i]])
    BY <1>0 DEF MandatoryFits
<1> HIDE DEF n
<1> DEFINE P(k) == k <= n => \A q : Joined(body, fl[k], q) =>
                       r[k] = [fields |-> Some(fields, FirstNames(order, k)), rest |-> q]
           S == {k \in Nat : P(k)}
<1>4. P(0)
  <2> SUFFICES ASSUME NEW q, Joined(body, <<>>, q)
               PROVE  r[0] = [fields |-> Some(fields, FirstNames(order, 0)), rest |-> q]
      BY <1>1
  <2>1. q = body
      BY DEF Joined
  <2>2. r[0] = [fields |-> NoEntries, rest |-> body]
    <3>1. 0 \in 0 .. n
        BY <1>0
    <3> QED
        BY <1>2, <3>1 DEF ReadAt
  <2>3. Some(fields, FirstNames(order, 0)) = NoEntries
    <3>1. FirstNames(order, 0) = {}
        BY DEF FirstNames
    <3> QED
        BY <3>1 DEF Some, NoEntries
  <2> QED
      BY <2>1, <2>2, <2>3
<1>5. ASSUME NEW k \in Nat, P(k)
      PROVE  P(k + 1)
  <2> SUFFICES ASSUME k + 1 <= n, NEW q, Joined(body, fl[k + 1], q)
               PROVE  r[k + 1] = [fields |-> Some(fields, FirstNames(order, k + 1)), rest |-> q]
      OBVIOUS
  <2>1. k + 1 \in 1 .. n /\ (k + 1) - 1 = k /\ k <= n /\ k + 1 \in 0 .. n /\ k + 1 # 0
      BY <1>0
  <2> DEFINE f == F(k + 1)
             fq == f \o q
  <2>2. Joined(fl[k + 1], fl[k], f)
      BY <1>1, <2>1
  <2> HIDE DEF f
  <2>3. Joined(fq, f, q)
    <3>1. f \in Seq(Int) /\ q \in Seq(Int)
        BY <2>2, JoinedTyped, Zenon
    <3> QED
        BY <3>1, Zenon DEF Joined
  <2> HIDE DEF fq
  <2>4. Joined(body, fl[k], fq)
      BY <2>2, <2>3, JoinedRight
  <2>5. r[k] = [fields |-> Some(fields, FirstNames(order, k)), rest |-> fq]
      BY <1>5, <2>1, <2>4
  <2>6. r[k + 1] = ReadField(r[k], order[k + 1])
      BY <1>2, <2>1 DEF ReadAt
  <2>7. r[k].rest = fq /\ r[k].fields = Some(fields, FirstNames(order, k))
      BY <2>5
  <2>8. ReadField(r[k], order[k + 1])
            = [fields |-> With(r[k].fields, order[k + 1], fields[order[k + 1]]), rest |-> q]
    <3>1. /\ fields[order[k + 1]] \in FieldValue(order[k + 1])
          /\ FieldFits(order[k + 1], fields[order[k + 1]])
        BY <1>3, <2>1
    <3>2. Joined(r[k].rest, Field(order[k + 1], fields[order[k + 1]]), q)
        BY <2>3, <2>7 DEF f
    <3> QED
        BY <3>1, <3>2, ReadFieldBack
  <2> QED
      BY <2>6, <2>7, <2>8, OneMoreName
<1>6. Nat \subseteq S
  <2> HIDE DEF P
  <2>1. 0 \in S /\ \A k \in Nat : k \in S => k + 1 \in S
      BY <1>4, <1>5
  <2> HIDE DEF S
  <2> QED
      BY <2>1, Induction
<1>7. P(n)
    BY <1>0, <1>6
<1> QED
    BY <1>0, <1>1, <1>2, <1>7

-----------------------------------------------------------------------------
(* Messages, and their JSON form. *)

OptionValue(name) == IF name \in TextOptions THEN Seq(Nat) ELSE {<<v>> : v \in Nat}

\* What SubmitSM makes: all the mandatory fields, with the data_coding of the encoding,
\* and some options, alert_on_message_delivery among them.
IsMessage(m) ==
    /\ m = [fields |-> m.fields, options |-> m.options, encoding |-> m.encoding, short_message |-> m.short_message]
    /\ m.fields = [n \in Range(SubmitOrder) |-> m.fields[n]]
    /\ \A n \in Range(SubmitOrder) : m.fields[n] \in FieldValue(n)
    /\ m.fields["data_coding"] = AnInt(_find_data_coding(m.encoding))
    /\ m.options = [o \in DOMAIN m.options |-> m.options[o]]
    /\ DOMAIN m.options \subseteq Options /\ "alert_on_message_delivery" \in DOMAIN m.options
    /\ \A o \in DOMAIN m.options : m.options[o] \in OptionValue(o)
    /\ m.short_message \in Seq(Nat)

\* The names of mandatory fields and of options are apart.
LEMMA FieldNames ==
    /\ "data_coding" \in Range(SubmitOrder) /\ "data_coding" \notin Options
    /\ SubmitFields \cup {"data_coding"} = Range(SubmitOrder) /\ "data_coding" \notin SubmitFields
    /\ Range(SubmitOrder) \cap Options = {} /\ "alert_on_message_delivery" \in Options
<1>1. SubmitOrder[15] = "data_coding" /\ 15 \in DOMAIN SubmitOrder
    BY DEF SubmitOrder
<1>2. "data_coding" \in Range(SubmitOrder)
    BY <1>1 DEF Range
<1>3. Options = {"source_port", "message_payload", "callback_num", "callback_num_pres_ind",
                 "alert_on_message_delivery"}
    BY DEF Options, OptionOrder, Range
<1>4. \A i \in DOMAIN SubmitOrder : SubmitOrder[i] \notin Options
    BY <1>3 DEF SubmitOrder
<1> QED
    BY <1>2, <1>3, <1>4 DEF SubmitFields, Range

\* SubmitSM makes a message.
LEMMA SubmitSMIs ==
    ASSUME NEW f, f = [n \in SubmitFields |-> f[n]], \A n \in SubmitFields : f[n] \in FieldValue(n),
           NEW o, o = [n \in DOMAIN o |-> o[n]], DOMAIN o \subseteq Options,
           \A n \in DOMAIN o : o[n] \in OptionValue(n),
           NEW e \in Encodings, NEW sm \in Seq(Nat)
    PROVE  IsMessage(SubmitSM(f, o, e, sm))
<1> DEFINE dc == AnInt(_find_data_coding(e))
           m == SubmitSM(f, o, e, sm)
           alert == "alert_on_message_delivery"
<1>1. /\ m = [fields |-> With(f, "data_coding", dc), options |-> WithDefault(o, alert, <<0>>),
              encoding |-> e, short_message |-> sm]
    BY DEF SubmitSM, AnInt
<1>2. dc \in FieldValue("data_coding")
    BY DEF AnInt, _find_data_coding, Encodings, FieldValue, TextFields
<1>3. DOMAIN f = SubmitFields
    OBVIOUS
<1>4. With(f, "data_coding", dc) = [n \in Range(SubmitOrder) |-> IF n = "data_coding" THEN dc ELSE f[n]]
    BY <1>3, FieldNames DEF With
<1>5. \A n \in Range(SubmitOrder) : With(f, "data_coding", dc)[n] \in FieldValue(n)
    BY <1>2, <1>4, FieldNames
<1>6. <<0>> \in OptionValue(alert)
    BY DEF OptionValue, TextOptions
<1> DEFINE w == WithDefault(o, alert, <<0>>)
<1>7. /\ w = [n \in DOMAIN w |-> w[n]] /\ DOMAIN w \subseteq Options /\ alert \in DOMAIN w
      /\ \A n \in DOMAIN w : w[n] \in OptionValue(n)
  <2>1. CASE alert \in DOMAIN o
    <3>1. w = o
        BY <2>1 DEF WithDefault
    <3> HIDE DEF w
    <3> QED
        BY <2>1, <3>1
  <2>2. CASE alert \notin DOMAIN o
    <3>1. w = [n \in DOMAIN o \cup {alert} |-> IF n = alert THEN <<0>> ELSE o[n]]
        BY <2>2 DEF WithDefault, With
    <3> HIDE DEF w
    <3>2. alert \in Options
        BY FieldNames
    <3> HIDE DEF alert
    <3> QED
        BY <1>6, <3>1, <3>2
  <2> QED
      BY <2>1, <2>2
<1> HIDE DEF w
<1>8. /\ m.fields = With(f, "data_coding", dc) /\ m.options = w /\ m.encoding = e /\ m.short_message = sm
      /\ m = [fields |-> m.fields, options |-> m.options, encoding |-> m.encoding, short_message |-> m.short_message]
    BY <1>1 DEF w
<1>9. m.fields["data_coding"] = dc /\ m.fields = [n \in Range(SubmitOrder) |-> m.fields[n]]
    BY <1>4, <1>8, FieldNames
<1> HIDE DEF m
<1> QED
    BY <1>5, <1>7, <1>8, <1>9, Zenon DEF IsMessage, m

\* Every message that has been JSON is the message it was: SubmitSM.to_json and
\* SubmitSM.from_json, which finds the data_coding again from the encoding.
THEOREM JsonRoundTrip ==
    ASSUME NEW m, IsMessage(m)
    PROVE  from_json(to_json(m)) = m
<1> DEFINE F == Range(SubmitOrder)
           mf == m.fields
           mo == m.options
           item == to_json(m).item
           fs == [n \in DOMAIN item \ Options |-> item[n]]
           os == [n \in DOMAIN item \cap Options |-> item[n]]
           alert == "alert_on_message_delivery"
<1>1. /\ mf = [n \in F |-> mf[n]] /\ DOMAIN mf = F /\ mf["data_coding"] = AnInt(_find_data_coding(m.encoding))
      /\ mo = [o \in DOMAIN mo |-> mo[o]] /\ DOMAIN mo \subseteq Options /\ alert \in DOMAIN mo
      /\ m = [fields |-> mf, options |-> mo, encoding |-> m.encoding, short_message |-> m.short_message]
    BY DEF IsMessage
<1>2. item = [n \in (F \cup DOMAIN mo) \ {"data_coding"} |-> IF n \in DOMAIN mo THEN mo[n] ELSE mf[n]]
    BY <1>1 DEF to_json
<1>3. /\ to_json(m).encoding = m.encoding /\ to_json(m).short_message = m.short_message
    BY DEF to_json
<1>4. from_json(to_json(m)) = SubmitSM(fs, os, m.encoding, m.short_message)
    BY <1>3 DEF from_json
<1> HIDE DEF item, mf, mo, F
<1>5. fs = [n \in F \ {"data_coding"} |-> mf[n]]
    BY <1>1, <1>2, FieldNames DEF F
<1>6. os = mo
  <2>1. DOMAIN item \cap Options = DOMAIN mo
      BY <1>1, <1>2, FieldNames DEF F
  <2>2. \A n \in DOMAIN mo : item[n] = mo[n]
      BY <1>1, <1>2, <2>1
  <2> QED
      BY <1>1, <2>1, <2>2
<1> HIDE DEF fs, os
<1>7. With(fs, "data_coding", AnInt(_find_data_coding(m.encoding))) = mf
    BY <1>1, <1>5, FieldNames DEF With, F
<1>8. WithDefault(os, alert, AnInt(0)) = mo
    BY <1>1, <1>6 DEF WithDefault
<1> QED
    BY <1>1, <1>4, <1>7, <1>8 DEF SubmitSM

-----------------------------------------------------------------------------
(* The options of a submit_sm, one after the other. *)

\* NAME_to_TAG and its inverse.
LEMMA TagIs ==
    ASSUME NEW i \in 1 .. 5
    PROVE  tag(OptionOrder[i]) = Byte + i /\ Pack(tag(OptionOrder[i]), 2) = <<1, i>>
<1>0. Byte \in Nat /\ Byte > 8
    BY PduAssumption
<1> DEFINE I == {j \in 1 .. Len(OptionOrder) : OptionOrder[j] = OptionOrder[i]}
<1>1. Len(OptionOrder) = 5 /\ \A j \in 1 .. 5 : OptionOrder[j] = OptionOrder[i] => j = i
    BY DEF OptionOrder
<1>2. i \in I /\ \A j \in I : j \in Int /\ i <= j
    BY <1>1
<1>3. Min(I) = i
  <2> HIDE DEF I
  <2> QED
      BY <1>2, LeastIs
<1>4. I # {}
    BY <1>2
<1>5. tag(OptionOrder[i]) = Byte + i
    BY <1>3, <1>4 DEF tag, SelectInSeq
<1>6. (Byte + i) \div Byte = 1 /\ (Byte + i) % Byte = i /\ 1 % Byte = 1
    BY <1>0
<1> QED
    BY <1>5, <1>6 DEF Pack

Payload(name, value) ==
    CASE name \in TextOptions -> value \o NUL
      [] name = "alert_on_message_delivery" -> <<>>
      [] OTHER -> Pack(value[1], Octets(name))

TlvHeader(i, value) == <<1, i>> \o Pack(length(OptionOrder[i], value), 2)

\* An option is a header and a payload.
LEMMA TlvPieces ==
    ASSUME NEW i \in 1 .. 5, NEW value \in OptionValue(OptionOrder[i])
    PROVE  /\ tlv(OptionOrder[i], value) \in Seq(Nat)
           /\ length(OptionOrder[i], value) \in Nat
           /\ Payload(OptionOrder[i], value) \in Seq(Nat)
           /\ TlvHeader(i, value) \in Seq(Nat) /\ Len(TlvHeader(i, value)) = 4
           /\ Joined(tlv(OptionOrder[i], value), TlvHeader(i, value), Payload(OptionOrder[i], value))
<1> DEFINE name == OptionOrder[i]
           n == length(name, value)
           payload == Payload(name, value)
           header == TlvHeader(i, value)
<1>1. "alert_on_message_delivery" \notin TextOptions
    BY DEF TextOptions
<1>2. n \in Nat /\ payload \in Seq(Nat)
  <2>1. CASE name \in TextOptions
    <3>1. value \in Seq(Nat) /\ Len(value) \in Nat
        BY <2>1 DEF OptionValue
    <3>2. n = Len(value) /\ payload = value \o <<0>>
        BY <1>1, <2>1 DEF length, Payload, NUL
    <3>3. value \o <<0>> \in Seq(Nat)
        BY <3>1
    <3> QED
        BY <3>1, <3>2, <3>3
  <2>2. CASE name = "alert_on_message_delivery"
    <3>1. n = 0 /\ payload = <<>>
        BY <1>1, <2>2 DEF length, Payload
    <3> QED
        BY <3>1
  <2>3. CASE name \notin TextOptions /\ name # "alert_on_message_delivery"
    <3>1. n = Octets(name) /\ payload = Pack(value[1], Octets(name))
        BY <2>3 DEF length, Payload
    <3>2. value[1] \in Nat
        BY <2>3 DEF OptionValue
    <3>3. Pack(value[1], 1) \in Seq(Nat) /\ Pack(value[1], 2) \in Seq(Nat)
        BY <3>2, OneOctet, TwoOctets
    <3>4. Octets(name) = 1 \/ Octets(name) = 2
        BY DEF Octets
    <3> HIDE DEF name
    <3> QED
        BY <3>1, <3>3, <3>4
  <2> QED
      BY <2>1, <2>2, <2>3
<1>3. tlv(name, value) = (<<1, i>> \o Pack(n, 2)) \o payload
    BY TagIs DEF tlv, Payload
<1> HIDE DEF n, payload, name
<1>4. Pack(n, 2) \in Seq(Nat) /\ Len(Pack(n, 2)) = 2
    BY <1>2, TwoOctets
<1>5. header = <<1, i>> \o Pack(n, 2)
    BY DEF TlvHeader, n, name
<1>6. header \in Seq(Nat) /\ Len(header) = 4
  <2>1. ASSUME NEW a \in Seq(Nat), Len(a) = 2, NEW p \in Seq(Nat), Len(p) = 2
        PROVE  a \o p \in Seq(Nat) /\ Len(a \o p) = 4
    <3>1. a \o p \in Seq(Nat) /\ Len(a \o p) = Len(a) + Len(p)
        BY ConcatProperties, Zenon
    <3> QED
        BY <2>1, <3>1
  <2>2. <<1, i>> \in Seq(Nat) /\ Len(<<1, i>>) = 2
      OBVIOUS
  <2> QED
      BY <1>4, <1>5, <2>1, <2>2, Zenon
<1> HIDE DEF header
<1>7. tlv(name, value) = header \o payload
    BY <1>3, <1>5
<1>8. header \o payload \in Seq(Nat) /\ header \in Seq(Int) /\ payload \in Seq(Int)
    BY <1>2, <1>6
<1> QED
    BY <1>2, <1>6, <1>7, <1>8 DEF Joined, header, n, payload, name

\* The bytes of the options that are sent, of those before each of them, and so on.
LEMMA OptionPieces ==
    ASSUME NEW options, \A o \in DOMAIN options : options[o] \in OptionValue(o)
    PROVE  \E fl \in [0 .. 5 -> Seq(Nat)] :
               /\ fl[0] = <<>> /\ OptionalParams(options) = fl[5]
               /\ \A i \in 1 .. 5 : Joined(fl[i], fl[i - 1], OptionalParam(OptionOrder[i], options))
<1> DEFINE parts == [i \in DOMAIN OptionOrder |-> OptionalParam(OptionOrder[i], options)]
<1>1. DOMAIN OptionOrder = 1 .. 5
    BY DEF OptionOrder
<1>2. \A i \in 1 .. 5 : OptionalParam(OptionOrder[i], options) \in Seq(Nat)
  <2> SUFFICES ASSUME NEW i \in 1 .. 5
               PROVE  OptionalParam(OptionOrder[i], options) \in Seq(Nat)
      OBVIOUS
  <2>1. CASE OptionOrder[i] \in Sent(options)
    <3>1. options[OptionOrder[i]] \in OptionValue(OptionOrder[i])
        BY <2>1 DEF Sent
    <3>2. tlv(OptionOrder[i], options[OptionOrder[i]]) \in Seq(Nat)
        BY <3>1, TlvPieces
    <3> QED
        BY <2>1, <3>2 DEF OptionalParam
  <2>2. CASE OptionOrder[i] \notin Sent(options)
      BY <2>2 DEF OptionalParam
  <2> QED
      BY <2>1, <2>2
<1>3. OptionalParams(options) = FlattenSeq(parts)
    BY DEF OptionalParams
<1>4. parts \in [1 .. 5 -> Seq(Nat)] /\ \A i \in 1 .. 5 : parts[i] = OptionalParam(OptionOrder[i], options)
    BY <1>1, <1>2
<1> HIDE DEF parts
<1>5. parts \in Seq(Seq(Nat)) /\ Len(parts) = 5
  <2>1. 5 \in Nat /\ parts \in [1 .. 5 -> Seq(Nat)]
      BY <1>4
  <2> QED
      BY <2>1, FunctionIsSeq
<1>6. PICK fl \in [0 .. 5 -> Seq(Nat)] :
          /\ fl[0] = <<>> /\ FlattenSeq(parts) = fl[5]
          /\ \A i \in 1 .. 5 : fl[i] = fl[i - 1] \o parts[i]
  <2>1. \E fl \in [0 .. Len(parts) -> Seq(Nat)] :
            /\ fl[0] = <<>>
            /\ \A i \in 1 .. Len(parts) : fl[i] = fl[i - 1] \o parts[i]
            /\ FlattenSeq(parts) = fl[Len(parts)]
      BY <1>5, Flattening, Zenon
  <2> QED
      BY <1>5, <2>1, Zenon
<1>7. ASSUME NEW i \in 1 .. 5
      PROVE  Joined(fl[i], fl[i - 1], OptionalParam(OptionOrder[i], options))
  <2>0. i - 1 \in 0 .. 5
      OBVIOUS
  <2>1. fl[i - 1] \in Seq(Nat) /\ parts[i] \in Seq(Nat)
      BY <1>4, <2>0, Zenon
  <2>2. \A a \in Seq(Nat) : a \in Seq(Int)
      OBVIOUS
  <2> QED
      BY <1>4, <1>6, <2>1, <2>2, Zenon DEF Joined
<1> QED
    BY <1>3, <1>6, <1>7

\* After the mandatory fields the reader finds the short_message and the options.
LEMMA MessageRead ==
    ASSUME NEW sm \in Seq(Nat), Len(sm) < Byte, NEW op \in Seq(Int), NEW rest, NEW sop,
           Joined(sop, sm, op), Joined(rest, Pack(Len(sm), 1), sop)
    PROVE  /\ rest[1] = Len(sm)
           /\ SubSeq(rest, 2, Len(sm) + 1) = sm
           /\ Rest(rest, Len(sm) + 1) = op
<1> DEFINE n == Len(sm)
           p == Pack(n, 1)
           psm == p \o sm
<1>0. n \in Nat /\ p = <<n>> /\ Len(p) = 1 /\ p[1] = n
  <2>1. n \in Nat /\ Fits(n, 1)
      BY DEF Fits
  <2>2. p = <<n>>
      BY <2>1, OneOctet
  <2> QED
      BY <2>1, <2>2
<1>1. sm \in Seq(Int) /\ p \in Seq(Int)
  <2>1. \A a \in Seq(Nat) : a \in Seq(Int)
      OBVIOUS
  <2>2. p \in Seq(Nat)
      BY <1>0, OneOctet
  <2> QED
      BY <2>1, <2>2, Zenon
<1>2. Joined(psm, p, sm)
    BY <1>1, Zenon DEF Joined
<1> HIDE DEF psm, p
<1>3. Joined(rest, p, sop)
    BY DEF p
<1>4. Joined(rest, psm, op)
    BY <1>2, <1>3, JoinedLeft
<1>5. Len(psm) = 1 + n
    BY <1>0, <1>2, JoinedTyped
<1>6. rest[1] = n
  <2>1. 1 \in 1 .. Len(p)
      BY <1>0
  <2>2. rest[1] = p[1]
      BY <1>3, <2>1, JoinedFirst
  <2> QED
      BY <1>0, <2>2, Zenon
<1>7. SubSeq(rest, Len(psm) + 1, Len(rest)) = op /\ SubSeq(rest, 1, Len(psm)) = psm
    BY <1>4, JoinedParts
<1>8. Rest(rest, n + 1) = op
  <2>1. n + 1 = Len(psm) /\ (n + 1) + 1 = Len(psm) + 1
      BY <1>0, <1>5
  <2> QED
      BY <1>7, <2>1 DEF Rest
<1>9. SubSeq(rest, 2, n + 1) = sm
  <2>1. rest \in Seq(Int) /\ Len(rest) = 1 + Len(sop) /\ Len(sop) = n + Len(op) /\ Len(op) \in Nat
    <3>1. rest \in Seq(Int) /\ Len(rest) = Len(p) + Len(sop)
        BY <1>3, JoinedTyped, Zenon
    <3>2. Len(sop) = n + Len(op) /\ Len(op) \in Nat
        BY JoinedTyped, Zenon
    <3> QED
        BY <1>0, <3>1, <3>2
  <2>2. ASSUME NEW i \in 1 .. n PROVE rest[1 + i] = sm[i]
    <3>1. i \in 1 .. Len(sop) /\ Len(p) + i = 1 + i
        BY <1>0, <2>1
    <3>2. rest[Len(p) + i] = sop[i]
        BY <1>3, <3>1, JoinedSecond
    <3>3. sop[i] = sm[i]
        BY JoinedFirst, Zenon
    <3> QED
        BY <3>1, <3>2, <3>3
  <2>3. 1 \in Nat /\ 1 + Len(sm) <= Len(rest) /\ 1 + 1 = 2 /\ 1 + Len(sm) = n + 1
      BY <1>0, <2>1
  <2>4. SubSeq(rest, 1 + 1, 1 + Len(sm)) = sm
      BY <1>1, <2>1, <2>2, <2>3, PartIs
  <2> QED
      BY <2>3, <2>4
<1> QED
    BY <1>6, <1>8, <1>9

\* What _build_submit_sm_pdu puts in a PDU the SMSC reads as the message: the fields and
\* the short_message as they are, and the bytes of the options; for every message.
THEOREM SubmitRead ==
    ASSUME NEW m, IsMessage(m), SubmitFits(m), NEW s
    PROVE  ReadSubmit(_build_submit_sm_pdu(m, s).body)
               = [fields |-> m.fields, short_message |-> m.short_message, options |-> OptionalParams(m.options)]
<1> DEFINE man == Mandatory(SubmitOrder, m.fields)
           sm == m.short_message
           p == Pack(Len(sm), 1)
           op == OptionalParams(m.options)
           mp == man \o p
           mps == mp \o sm
           body == mps \o op
           sop == sm \o op
           rest == p \o sop
<1>1. _build_submit_sm_pdu(m, s).body = body
    BY DEF _build_submit_sm_pdu, PDU
<1>2. /\ m.fields = [n \in Range(SubmitOrder) |-> m.fields[n]]
      /\ \A n \in Range(SubmitOrder) : m.fields[n] \in FieldValue(n)
      /\ \A o \in DOMAIN m.options : m.options[o] \in OptionValue(o)
      /\ sm \in Seq(Nat) /\ Len(sm) \in Nat
    BY DEF IsMessage
<1>3. MandatoryFits(SubmitOrder, m.fields) /\ Len(sm) < Byte
    BY DEF SubmitFits, Fits
<1>4. SubmitOrder \in Seq(Range(SubmitOrder))
    BY DEF SubmitOrder, Range
<1>5. \A i \in 1 .. Len(SubmitOrder) : SubmitOrder[i] \in Range(SubmitOrder)
    BY <1>4
<1>6. \A i \in 1 .. Len(SubmitOrder) : m.fields[SubmitOrder[i]] \in FieldValue(SubmitOrder[i])
    BY <1>2, <1>5
<1>7. man \in Seq(Int)
    BY <1>4, <1>6, MandatoryTyped
<1>8. op \in Seq(Int)
  <2>1. op \in Seq(Nat)
    <3>1. PICK fl \in [0 .. 5 -> Seq(Nat)] : OptionalParams(m.options) = fl[5]
        BY <1>2, OptionPieces
    <3> QED
        BY <3>1
  <2> QED
      BY <2>1
<1>9. p \in Seq(Int) /\ sm \in Seq(Int)
  <2>1. p \in Seq(Nat)
      BY <1>2, OneOctet
  <2> QED
      BY <1>2, <2>1
<1> HIDE DEF man, sm, op, p
<1>10. \A a, b : a \in Seq(Int) /\ b \in Seq(Int) => a \o b \in Seq(Int) /\ Joined(a \o b, a, b)
    BY DEF Joined
<1>11. /\ Joined(mp, man, p) /\ Joined(mps, mp, sm) /\ Joined(body, mps, op)
       /\ Joined(sop, sm, op) /\ Joined(rest, p, sop)
    BY <1>7, <1>8, <1>9, <1>10, Zenon
<1> HIDE DEF mp, mps, body, sop, rest
<1>12. Joined(body, mp, sop)
    BY <1>11, JoinedRight
<1>13. Joined(body, man, rest)
    BY <1>11, <1>12, JoinedRight
<1>14. Read(SmppSubmit, body) = [fields |-> m.fields, rest |-> rest]
  <2>1. SmppSubmit = SubmitOrder
      BY DEF SmppSubmit, SubmitOrder
  <2>2. Read(SubmitOrder, body)
            = [fields |-> Some(m.fields, FirstNames(SubmitOrder, Len(SubmitOrder))), rest |-> rest]
      BY <1>3, <1>4, <1>6, <1>13, FieldsRead DEF man
  <2>3. FirstNames(SubmitOrder, Len(SubmitOrder)) = Range(SubmitOrder)
      BY <1>4 DEF FirstNames, Range
  <2>4. Some(m.fields, Range(SubmitOrder)) = m.fields
      BY <1>2 DEF Some
  <2> QED
      BY <2>1, <2>2, <2>3, <2>4
<1>15. rest[1] = Len(sm) /\ SubSeq(rest, 2, Len(sm) + 1) = sm /\ Rest(rest, Len(sm) + 1) = op
    BY <1>2, <1>3, <1>8, <1>11, MessageRead DEF p
<1>16. ReadSubmit(body) = [fields |-> m.fields, short_message |-> sm, options |-> op]
  <2> DEFINE read == Read(SmppSubmit, body)
  <2>1. read.rest = rest /\ read.fields = m.fields
      BY <1>14
  <2> HIDE DEF read
  <2>2. ReadSubmit(body) = [fields |-> read.fields, short_message |-> SubSeq(read.rest, 2, read.rest[1] + 1),
                            options |-> Rest(read.rest, read.rest[1] + 1)]
      BY Zenon DEF ReadSubmit, read
  <2> QED
      BY <1>15, <2>1, <2>2, Zenon
<1> QED
    BY <1>1, <1>16 DEF sm, op

\* The SMSC reads every bind_transceiver that is built as the fields it was built from,
\* and nothing is left: Client.tranceiver_bind.
THEOREM BindRead ==
    ASSUME NEW f, f = [n \in Range(BindOrder) |-> f[n]], \A n \in Range(BindOrder) : f[n] \in FieldValue(n),
           BindFits(f), NEW s
    PROVE  Read(SmppBind, tranceiver_bind(f, s).body) = [fields |-> f, rest |-> <<>>]
<1> DEFINE body == Mandatory(BindOrder, f)
<1>1. tranceiver_bind(f, s).body = body
    BY DEF tranceiver_bind, PDU
<1>2. BindOrder \in Seq(Range(BindOrder))
    BY DEF BindOrder, Range
<1>3. \A i \in 1 .. Len(BindOrder) : BindOrder[i] \in Range(BindOrder)
    BY <1>2
<1>4. \A i \in 1 .. Len(BindOrder) : f[BindOrder[i]] \in FieldValue(BindOrder[i])
    BY <1>3
<1>5. body \in Seq(Int)
    BY <1>2, <1>4, MandatoryTyped
<1> HIDE DEF body
<1>6. Joined(body, body, <<>>)
    BY <1>5 DEF Joined
<1>7. MandatoryFits(BindOrder, f)
    BY DEF BindFits
<1>8. Read(BindOrder, body) = [fields |-> Some(f, FirstNames(BindOrder, Len(BindOrder))), rest |-> <<>>]
    BY <1>2, <1>4, <1>6, <1>7, FieldsRead DEF body
<1>9. FirstNames(BindOrder, Len(BindOrder)) = Range(BindOrder) /\ SmppBind = BindOrder
  <2>1. FirstNames(BindOrder, Len(BindOrder)) = Range(BindOrder)
      BY <1>2 DEF FirstNames, Range
  <2>2. SmppBind = BindOrder
      BY DEF SmppBind, BindOrder
  <2> QED
      BY <2>1, <2>2
<1>10. Some(f, Range(BindOrder)) = f
    BY DEF Some
<1> QED
    BY <1>1, <1>8, <1>9, <1>10

-----------------------------------------------------------------------------
(* A reader of options, from the end of the bytes to their beginning. *)

OptionName(bytes, i) == OptionOrder[Unpack(SubSeq(bytes, i, i + 1)) - Byte]

OptionKnown(bytes, i) == i + 3 <= Len(bytes) /\ Unpack(SubSeq(bytes, i, i + 1)) - Byte \in DOMAIN OptionOrder

OptionSize(bytes, i) == Unpack(SubSeq(bytes, i + 2, i + 3))

OptionOver(bytes, more, i) ==
    i + 4 + OptionSize(bytes, i) + IF OptionName(bytes, i) \in TextOptions THEN more ELSE 0

Malformed == <<"malformed", <<>>>>

\* Whether the reader goes on at i, and with what it has read.
ReadsOn(bytes, more, i) ==
    i # Len(bytes) + 1 /\ ~(~OptionKnown(bytes, i) \/ OptionOver(bytes, more, i) > Len(bytes) + 1)

OptionRead(bytes, i) == <<OptionName(bytes, i), SubSeq(bytes, i + 4, i + 3 + OptionSize(bytes, i))>>

OptionsAt(f, bytes, more, i) ==
    IF i = Len(bytes) + 1 THEN {}
    ELSE IF ~OptionKnown(bytes, i) \/ OptionOver(bytes, more, i) > Len(bytes) + 1 THEN {Malformed}
    ELSE {OptionRead(bytes, i)} \cup f[OptionOver(bytes, more, i)]

OptionsFrom(f, bytes, more) == f = [i \in 1 .. Len(bytes) + 1 |-> OptionsAt(f, bytes, more, i)]

\* Two octets, unpacked.
LEMMA UnpackIs ==
    ASSUME NEW bytes \in Seq(Nat), NEW i \in 1 .. Len(bytes) - 1
    PROVE  /\ Unpack(SubSeq(bytes, i, i + 1)) = bytes[i] * Byte + bytes[i + 1]
           /\ Unpack(SubSeq(bytes, i, i + 1)) \in Nat
<1>1. bytes \in Seq(Int)
    OBVIOUS
<1>2. SubSeq(bytes, i, i + 1) = <<bytes[i], bytes[i + 1]>>
    BY <1>1, TwoOf
<1>3. bytes[i] \in Nat /\ bytes[i + 1] \in Nat
    OBVIOUS
<1>4. Byte \in Nat
    BY PduAssumption
<1>5. \A x, y : Unpack(<<x, y>>) = x * Byte + y
    BY DEF Unpack
<1>6. \A x, y \in Nat : x * Byte + y \in Nat
    BY <1>4
<1>7. Unpack(SubSeq(bytes, i, i + 1)) = bytes[i] * Byte + bytes[i + 1]
    BY <1>2, <1>5
<1> QED
    BY <1>3, <1>6, <1>7

\* The reader never goes back.
LEMMA OverGoesOn ==
    ASSUME NEW bytes \in Seq(Nat), NEW more \in Nat, NEW i \in 1 .. Len(bytes) + 1, ReadsOn(bytes, more, i)
    PROVE  OptionOver(bytes, more, i) \in i + 4 .. Len(bytes) + 1 /\ OptionSize(bytes, i) \in Nat
<1>1. i + 3 <= Len(bytes)
    BY DEF ReadsOn, OptionKnown
<1>2. i + 2 \in 1 .. Len(bytes) - 1 /\ (i + 2) + 1 = i + 3
    BY <1>1
<1>3. OptionSize(bytes, i) \in Nat
    BY <1>2, UnpackIs DEF OptionSize
<1>4. OptionOver(bytes, more, i) \in Nat /\ OptionOver(bytes, more, i) >= i + 4
    BY <1>3 DEF OptionOver
<1> QED
    BY <1>3, <1>4 DEF ReadsOn

\* Its recursion has a solution.
LEMMA OptionsExist ==
    ASSUME NEW bytes \in Seq(Nat), NEW more \in Nat
    PROVE  \E f : OptionsFrom(f, bytes, more)
<1> DEFINE n == Len(bytes)
           Eq(f, k) == f = [i \in n + 1 - k .. n + 1 |-> OptionsAt(f, bytes, more, i)]
           S == {k \in Nat : k <= n => \E f : Eq(f, k)}
<1>0. n \in Nat
    OBVIOUS
<1>1. 0 \in S
  <2> DEFINE f == [i \in n + 1 .. n + 1 |-> {}]
  <2>1. Eq(f, 0)
    <3>1. \A i \in n + 1 .. n + 1 : i = Len(bytes) + 1
        BY <1>0
    <3>2. \A i \in n + 1 .. n + 1 : OptionsAt(f, bytes, more, i) = {}
        BY <3>1, Zenon DEF OptionsAt, ReadsOn
    <3>3. n + 1 - 0 = n + 1
        BY <1>0
    <3> QED
        BY <3>2, <3>3
  <2> HIDE DEF f, Eq
  <2>2. \E g : Eq(g, 0)
      BY <2>1
  <2> QED
      BY <2>2
<1>2. ASSUME NEW k \in Nat, k \in S
      PROVE  k + 1 \in S
  <2> SUFFICES ASSUME k + 1 <= n PROVE \E g : Eq(g, k + 1)
      OBVIOUS
  <2>1. PICK f : Eq(f, k)
      BY <1>0, <1>2
  <2> DEFINE g == [i \in n + 1 - (k + 1) .. n + 1 |->
                      IF i = n - k THEN OptionsAt(f, bytes, more, i) ELSE f[i]]
  <2>2. ASSUME NEW i \in n + 1 - (k + 1) .. n + 1
        PROVE  g[i] = OptionsAt(g, bytes, more, i)
    <3>1. \A j \in n + 1 - k .. n + 1 : g[j] = f[j]
        BY <1>0
    <3>2. g[i] = OptionsAt(f, bytes, more, i)
      <4>1. CASE i = n - k
          BY <4>1
      <4>2. CASE i # n - k
        <5>1. i \in n + 1 - k .. n + 1
            BY <1>0, <4>2
        <5>2. f[i] = OptionsAt(f, bytes, more, i)
            BY <2>1, <5>1
        <5> QED
            BY <4>2, <5>2
      <4> QED
          BY <4>1, <4>2
    <3>3. ReadsOn(bytes, more, i) => g[OptionOver(bytes, more, i)] = f[OptionOver(bytes, more, i)]
      <4>1. i \in 1 .. Len(bytes) + 1
          BY <1>0
      <4>2. ReadsOn(bytes, more, i) => OptionOver(bytes, more, i) \in i + 4 .. Len(bytes) + 1
          BY <4>1, OverGoesOn, Zenon
      <4>3. \A j \in i + 4 .. Len(bytes) + 1 : j \in n + 1 - k .. n + 1
          BY <1>0
      <4> QED
          BY <3>1, <4>2, <4>3, Zenon
    <3> HIDE DEF g
    <3> QED
        BY <3>2, <3>3, Zenon DEF OptionsAt, ReadsOn
  <2>3. Eq(g, k + 1)
      BY <2>2
  <2> HIDE DEF g, Eq
  <2> QED
      BY <2>3
<1>3. Nat \subseteq S
  <2> HIDE DEF S
  <2> QED
      BY <1>1, <1>2, Induction
<1>4. PICK f : Eq(f, n)
    BY <1>0, <1>3
<1>5. n + 1 - n = 1
    BY <1>0
<1> QED
    BY <1>4, <1>5 DEF OptionsFrom

Solves(f, bytes, more) == \A i \in 1 .. Len(bytes) + 1 : f[i] = OptionsAt(f, bytes, more, i)

\* ReadOptions is what a solution of its recursion says of the first byte.
LEMMA OptionsIs ==
    ASSUME NEW bytes \in Seq(Nat), NEW more \in Nat
    PROVE  \E f : ReadOptions(bytes, more) = f[1] /\ Solves(f, bytes, more)
<1> DEFINE f == CHOOSE f : OptionsFrom(f, bytes, more)
<1>1. OptionsFrom(f, bytes, more)
    BY OptionsExist
<1>2. ReadOptions(bytes, more) = f[1]
    BY DEF ReadOptions, OptionsFrom, OptionsAt, OptionKnown, OptionOver, OptionRead, OptionName, OptionSize, Malformed
<1> HIDE DEF f
<1>3. Solves(f, bytes, more)
    BY <1>1 DEF OptionsFrom, Solves
<1> QED
    BY <1>2, <1>3

\* After m octets of bytes the rest begins.
Ends(bytes, m, rest) == Len(bytes) = m + Len(rest) /\ \A i \in 1 .. Len(rest) : bytes[m + i] = rest[i]

\* A part of a sequence is the same part of what it is the end of.
LEMMA PartOfEnd ==
    ASSUME NEW bytes \in Seq(Int), NEW rest \in Seq(Int), NEW m \in Nat,
           Ends(bytes, m, rest)
    PROVE  \A i, j \in Nat : 1 <= i /\ i <= j + 1 /\ j <= Len(rest) =>
               SubSeq(bytes, m + i, m + j) = SubSeq(rest, i, j)
<1> SUFFICES ASSUME NEW i \in Nat, NEW j \in Nat, 1 <= i, i <= j + 1, j <= Len(rest)
             PROVE  SubSeq(bytes, m + i, m + j) = SubSeq(rest, i, j)
    OBVIOUS
<1> DEFINE n == j - i + 1
           mi == m + i
           mj == m + j
           a == SubSeq(bytes, mi, mj)
           b == SubSeq(rest, i, j)
<1>0. /\ n \in Nat /\ Len(rest) \in Nat /\ mi \in Nat /\ mj \in Nat
      /\ 1 <= mi /\ mi <= mj + 1 /\ mj <= Len(bytes)
      /\ mj - mi + 1 = n
    BY DEF Ends
<1>1. a \in Seq(Int) /\ Len(a) = n /\ \A k \in 1 .. n : a[k] = bytes[mi + k - 1]
  <2> HIDE DEF mi, mj, n
  <2> QED
      BY <1>0, SubSeqIs
<1>2. b \in Seq(Int) /\ Len(b) = n /\ \A k \in 1 .. n : b[k] = rest[i + k - 1]
    BY SubSeqIs
<1>3. \A k \in 1 .. n : i + k - 1 \in 1 .. Len(rest) /\ (m + i) + k - 1 = m + (i + k - 1)
    OBVIOUS
<1> HIDE DEF a, b, n
<1>4. \A k \in 1 .. n : a[k] = b[k]
    BY <1>0, <1>1, <1>2, <1>3 DEF Ends
<1>5. a = b
  <2>1. Len(a) = Len(b) /\ \A k \in 1 .. Len(a) : a[k] = b[k]
      BY <1>1, <1>2, <1>4
  <2> QED
      BY <1>1, <1>2, <2>1, SeqEqual
<1> QED
    BY <1>5 DEF a, b

\* What the reader sees in the end of a sequence, and in the sequence.
LEMMA OptionsShift ==
    ASSUME NEW bytes \in Seq(Nat), NEW rest \in Seq(Nat), NEW m \in Nat, NEW more \in Nat,
           Ends(bytes, m, rest),
           NEW i \in 1 .. Len(rest) + 1
    PROVE  /\ ReadsOn(bytes, more, m + i) <=> ReadsOn(rest, more, i)
           /\ ReadsOn(rest, more, i) =>
                  /\ OptionRead(bytes, m + i) = OptionRead(rest, i)
                  /\ OptionOver(bytes, more, m + i) = m + OptionOver(rest, more, i)
<1>0. /\ Len(rest) \in Nat /\ i \in Nat /\ m + i \in Nat /\ ((m + i) + 3 <= Len(bytes) <=> i + 3 <= Len(rest))
      /\ (m + i = Len(bytes) + 1 <=> i = Len(rest) + 1) /\ Len(bytes) = m + Len(rest)
  <2>1. Len(bytes) = m + Len(rest)
      BY Zenon DEF Ends
  <2>2. Len(rest) \in Nat /\ i \in Nat /\ m + i \in Nat
      OBVIOUS
  <2>3. \A k, n \in Nat : ((m + k) + 3 <= m + n <=> k + 3 <= n) /\ (m + k = (m + n) + 1 <=> k = n + 1)
      OBVIOUS
  <2> DEFINE b == m + Len(rest)
  <2>4. ((m + i) + 3 <= b <=> i + 3 <= Len(rest)) /\ (m + i = b + 1 <=> i = Len(rest) + 1)
      BY <2>2, <2>3, Zenon
  <2>5. Len(bytes) = b
      BY <2>1
  <2> HIDE DEF b
  <2>6. ((m + i) + 3 <= Len(bytes) <=> i + 3 <= Len(rest)) /\ (m + i = Len(bytes) + 1 <=> i = Len(rest) + 1)
      BY <2>4, <2>5, Zenon
  <2> QED
      BY <2>1, <2>2, <2>6, Zenon
<1>1. CASE i + 3 <= Len(rest)
  <2>0. \A x, y \in Nat : 1 <= x /\ x <= y + 1 /\ y <= Len(rest) =>
            SubSeq(bytes, m + x, m + y) = SubSeq(rest, x, y)
    <3>1. bytes \in Seq(Int) /\ rest \in Seq(Int)
        OBVIOUS
    <3> QED
        BY <3>1, PartOfEnd, ZenonT(30)
  <2>1. SubSeq(bytes, m + i, (m + i) + 1) = SubSeq(rest, i, i + 1)
    <3> DEFINE j == i + 1
    <3>1. j \in Nat /\ i <= j + 1 /\ j <= Len(rest) /\ m + j = (m + i) + 1 /\ 1 <= i
        BY <1>0, <1>1
    <3> HIDE DEF j
    <3>2. SubSeq(bytes, m + i, m + j) = SubSeq(rest, i, j)
        BY <1>0, <2>0, <3>1, Zenon
    <3> QED
        BY <3>1, <3>2 DEF j
  <2>2. SubSeq(bytes, (m + i) + 2, (m + i) + 3) = SubSeq(rest, i + 2, i + 3)
    <3> DEFINE j == i + 2
               k == i + 3
    <3>1. /\ j \in Nat /\ k \in Nat /\ 1 <= j /\ j <= k + 1 /\ k <= Len(rest)
          /\ m + j = (m + i) + 2 /\ m + k = (m + i) + 3
        BY <1>0, <1>1
    <3> HIDE DEF j, k
    <3>2. SubSeq(bytes, m + j, m + k) = SubSeq(rest, j, k)
        BY <2>0, <3>1, Zenon
    <3> QED
        BY <3>1, <3>2 DEF j, k
  <2>3. OptionSize(bytes, m + i) = OptionSize(rest, i) /\ OptionName(bytes, m + i) = OptionName(rest, i)
      BY <2>1, <2>2, Zenon DEF OptionSize, OptionName
  <2>4. OptionKnown(bytes, m + i) <=> OptionKnown(rest, i)
      BY <1>0, <1>1, <2>1 DEF OptionKnown
  <2> DEFINE size == OptionSize(rest, i)
             plus == IF OptionName(rest, i) \in TextOptions THEN more ELSE 0
  <2>5. size \in Nat /\ plus \in Nat
    <3>1. i + 2 \in 1 .. Len(rest) - 1 /\ (i + 2) + 1 = i + 3
        BY <1>0, <1>1
    <3>2. size \in Nat
        BY <3>1, UnpackIs DEF OptionSize
    <3> QED
        BY <3>2
  <2>6. OptionOver(rest, more, i) = i + 4 + size + plus /\ OptionOver(bytes, more, m + i) = (m + i) + 4 + size + plus
      BY <2>3, Zenon DEF OptionOver
  <2> HIDE DEF plus, size
  <2>7. /\ OptionOver(bytes, more, m + i) = m + OptionOver(rest, more, i)
        /\ OptionOver(bytes, more, m + i) > Len(bytes) + 1 <=> OptionOver(rest, more, i) > Len(rest) + 1
    <3>1. OptionOver(bytes, more, m + i) = m + OptionOver(rest, more, i)
        BY <1>0, <2>5, <2>6
    <3>2. OptionOver(bytes, more, m + i) > Len(bytes) + 1 <=> OptionOver(rest, more, i) > Len(rest) + 1
        BY <1>0, <2>5, <2>6
    <3> QED
        BY <3>1, <3>2
  <2>8. ReadsOn(bytes, more, m + i) <=> ReadsOn(rest, more, i)
      BY <1>0, <2>4, <2>7, Zenon DEF ReadsOn
  <2>9. ASSUME ReadsOn(rest, more, i) PROVE OptionRead(bytes, m + i) = OptionRead(rest, i)
    <3>1. ~(OptionOver(rest, more, i) > Len(rest) + 1)
        BY <2>9 DEF ReadsOn
    <3> DEFINE j == i + 4
               k == i + 3 + size
    <3>2. /\ j \in Nat /\ k \in Nat /\ 1 <= j /\ j <= k + 1 /\ k <= Len(rest)
          /\ m + j = (m + i) + 4 /\ m + k = (m + i) + 3 + size
        BY <1>0, <2>5, <2>6, <3>1
    <3> HIDE DEF j, k
    <3>3. SubSeq(bytes, m + j, m + k) = SubSeq(rest, j, k)
        BY <2>0, <3>2, Zenon
    <3>4. SubSeq(bytes, (m + i) + 4, (m + i) + 3 + size) = SubSeq(rest, i + 4, i + 3 + size)
        BY <3>2, <3>3 DEF j, k
    <3> QED
        BY <2>3, <3>4, Zenon DEF OptionRead, size
  <2> QED
      BY <2>7, <2>8, <2>9
<1>2. CASE ~(i + 3 <= Len(rest))
    BY <1>0, <1>2, Zenon DEF ReadsOn, OptionKnown
<1> QED
    BY <1>1, <1>2

\* What is read from some place on depends on the bytes from there on only.
LEMMA OptionsOfEnd ==
    ASSUME NEW bytes \in Seq(Nat), NEW rest \in Seq(Nat), NEW m \in Nat, NEW more \in Nat,
           Ends(bytes, m, rest), NEW f, Solves(f, bytes, more), NEW g, Solves(g, rest, more)
    PROVE  \A i \in 1 .. Len(rest) + 1 : f[m + i] = g[i]
<1> DEFINE n == Len(rest)
           P(k) == \A i \in 1 .. n + 1 : i >= n + 1 - k => f[m + i] = g[i]
           S == {k \in Nat : P(k)}
<1>0. n \in Nat /\ Len(rest) = n /\ Len(bytes) = m + n
    BY Zenon, LenProperties DEF Ends
<1>1. ASSUME NEW i \in 1 .. n + 1,
             ReadsOn(rest, more, i) => f[m + OptionOver(rest, more, i)] = g[OptionOver(rest, more, i)]
      PROVE  f[m + i] = g[i]
  <2>1. m + i \in 1 .. Len(bytes) + 1 /\ (m + i = Len(bytes) + 1 <=> i = Len(rest) + 1)
      BY <1>0
  <2>2. f[m + i] = OptionsAt(f, bytes, more, m + i) /\ g[i] = OptionsAt(g, rest, more, i)
      BY <2>1, Zenon DEF Solves
  <2>3. /\ ReadsOn(bytes, more, m + i) <=> ReadsOn(rest, more, i)
        /\ ReadsOn(rest, more, i) =>
               /\ OptionRead(bytes, m + i) = OptionRead(rest, i)
               /\ OptionOver(bytes, more, m + i) = m + OptionOver(rest, more, i)
      BY OptionsShift, Zenon
  <2>4. CASE ReadsOn(rest, more, i)
      BY <1>1, <2>2, <2>3, <2>4, Zenon DEF OptionsAt, ReadsOn
  <2>5. CASE ~ReadsOn(rest, more, i)
      BY <2>1, <2>2, <2>3, <2>5, Zenon DEF OptionsAt, ReadsOn
  <2> QED
      BY <2>4, <2>5
<1>2. ASSUME NEW i \in 1 .. n + 1, ReadsOn(rest, more, i)
      PROVE  OptionOver(rest, more, i) \in i + 4 .. n + 1
    BY <1>2, OverGoesOn, Zenon
<1> HIDE DEF n
<1>3. P(0)
  <2> SUFFICES ASSUME NEW i \in 1 .. n + 1, i >= n + 1 - 0 PROVE f[m + i] = g[i]
      OBVIOUS
  <2>1. i + 4 .. n + 1 = {}
      BY <1>0
  <2> QED
      BY <1>1, <1>2, <2>1, Zenon
<1>4. ASSUME NEW k \in Nat, P(k)
      PROVE  P(k + 1)
  <2> SUFFICES ASSUME NEW i \in 1 .. n + 1, i >= n + 1 - (k + 1) PROVE f[m + i] = g[i]
      OBVIOUS
  <2>1. \A j \in i + 4 .. n + 1 : j \in 1 .. n + 1 /\ j >= n + 1 - k
      BY <1>0
  <2>2. \A j \in i + 4 .. n + 1 : f[m + j] = g[j]
      BY <1>4, <2>1
  <2> QED
      BY <1>1, <1>2, <2>2, Zenon
<1>5. Nat \subseteq S
  <2> HIDE DEF P
  <2>1. 0 \in S /\ \A k \in Nat : k \in S => k + 1 \in S
      BY <1>3, <1>4
  <2> HIDE DEF S
  <2> QED
      BY <2>1, Induction
<1>6. P(n)
    BY <1>0, <1>5
<1> QED
    BY <1>0, <1>6 DEF n

\* The first option is read, and then what follows it.
LEMMA OptionsStep ==
    ASSUME NEW bytes \in Seq(Nat), NEW rest \in Seq(Nat), NEW m \in Nat, NEW more \in Nat,
           Ends(bytes, m, rest), ReadsOn(bytes, more, 1), OptionOver(bytes, more, 1) = m + 1
    PROVE  ReadOptions(bytes, more) = {OptionRead(bytes, 1)} \cup ReadOptions(rest, more)
<1>1. PICK f : ReadOptions(bytes, more) = f[1] /\ Solves(f, bytes, more)
    BY OptionsIs
<1>2. PICK g : ReadOptions(rest, more) = g[1] /\ Solves(g, rest, more)
    BY OptionsIs
<1>3. 1 \in 1 .. Len(rest) + 1 /\ 1 \in 1 .. Len(bytes) + 1
    OBVIOUS
<1>4. f[m + 1] = g[1]
  <2>1. \A i \in 1 .. Len(rest) + 1 : f[m + i] = g[i]
      BY <1>1, <1>2, OptionsOfEnd
  <2> QED
      BY <1>3, <2>1, Zenon
<1>5. f[1] = OptionsAt(f, bytes, more, 1)
    BY <1>1, <1>3 DEF Solves
<1>6. OptionsAt(f, bytes, more, 1) = {OptionRead(bytes, 1)} \cup f[m + 1]
    BY Zenon DEF OptionsAt, ReadsOn
<1> QED
    BY <1>1, <1>2, <1>4, <1>5, <1>6

\* Of no bytes no option is read.
LEMMA NothingToRead ==
    ASSUME NEW more \in Nat
    PROVE  ReadOptions(<<>>, more) = {}
<1>1. <<>> \in Seq(Nat) /\ Len(<<>>) = 0
    OBVIOUS
<1>2. PICK f : ReadOptions(<<>>, more) = f[1] /\ Solves(f, <<>>, more)
    BY <1>1, OptionsIs
<1>3. 1 \in 1 .. Len(<<>>) + 1 /\ 1 = Len(<<>>) + 1
    BY <1>1
<1>4. f[1] = OptionsAt(f, <<>>, more, 1)
    BY <1>2, <1>3, Zenon DEF Solves
<1> QED
    BY <1>2, <1>3, <1>4, Zenon DEF OptionsAt

\* What an option's bytes say of its value, and what follows that.
Said(name, value) ==
    CASE name \in TextOptions -> value
      [] name = "alert_on_message_delivery" -> <<>>
      [] OTHER -> Pack(value[1], Octets(name))

After(name) == IF name \in TextOptions THEN NUL ELSE <<>>

\* A payload is what the Length counts, and the NUL of a text.
LEMMA PayloadPieces ==
    ASSUME NEW i \in 1 .. 5, NEW value \in OptionValue(OptionOrder[i])
    PROVE  /\ Joined(Payload(OptionOrder[i], value), Said(OptionOrder[i], value), After(OptionOrder[i]))
           /\ Len(Said(OptionOrder[i], value)) = length(OptionOrder[i], value)
<1> DEFINE name == OptionOrder[i]
           said == Said(name, value)
<1>1. "alert_on_message_delivery" \notin TextOptions
    BY DEF TextOptions
<1>2. \A a \in Seq(Nat) : a \in Seq(Int) /\ a \o <<>> = a
    OBVIOUS
<1>3. <<>> \in Seq(Int) /\ <<0>> \in Seq(Int) /\ <<>> \o <<>> = <<>> /\ Len(<<>>) = 0
    OBVIOUS
<1>4. CASE name \in TextOptions
  <2>1. value \in Seq(Nat)
      BY <1>4 DEF OptionValue
  <2>2. Payload(name, value) = value \o <<0>> /\ said = value /\ After(name) = <<0>> /\ length(name, value) = Len(value)
      BY <1>1, <1>4 DEF Payload, Said, After, NUL, length
  <2> QED
      BY <1>2, <1>3, <2>1, <2>2, Zenon DEF Joined
<1>5. CASE name = "alert_on_message_delivery"
  <2>1. Payload(name, value) = <<>> /\ said = <<>> /\ After(name) = <<>> /\ length(name, value) = 0
      BY <1>1, <1>5 DEF Payload, Said, After, length
  <2> QED
      BY <1>3, <2>1, Zenon DEF Joined
<1>6. CASE name \notin TextOptions /\ name # "alert_on_message_delivery"
  <2>1. value[1] \in Nat
      BY <1>6 DEF OptionValue
  <2>2. /\ Payload(name, value) = Pack(value[1], Octets(name)) /\ said = Pack(value[1], Octets(name))
        /\ After(name) = <<>> /\ length(name, value) = Octets(name)
      BY <1>6 DEF Payload, Said, After, length
  <2>3. Pack(value[1], Octets(name)) \in Seq(Nat) /\ Len(Pack(value[1], Octets(name))) = Octets(name)
    <3>1. Octets(name) = 1 \/ Octets(name) = 2
        BY DEF Octets
    <3> HIDE DEF name
    <3> QED
        BY <2>1, <3>1, OneOctet, TwoOctets
  <2> QED
      BY <1>2, <1>3, <2>2, <2>3, Zenon DEF Joined
<1> QED
    BY <1>4, <1>5, <1>6

\* The tag and the Length in the header of an option.
LEMMA HeaderIs ==
    ASSUME NEW i \in 1 .. 5, NEW value \in OptionValue(OptionOrder[i]), Fits(length(OptionOrder[i], value), 2)
    PROVE  /\ TlvHeader(i, value)[1] = 1 /\ TlvHeader(i, value)[2] = i
           /\ TlvHeader(i, value)[3] * Byte + TlvHeader(i, value)[4] = length(OptionOrder[i], value)
<1> DEFINE n == length(OptionOrder[i], value)
           p == Pack(n, 2)
           h == TlvHeader(i, value)
<1>1. n \in Nat
    BY TlvPieces
<1>2. p \in Seq(Nat) /\ Len(p) = 2 /\ p[1] * Byte + p[2] = n
    BY <1>1, TwoOctets
<1>3. h = <<1, i>> \o p
    BY DEF TlvHeader
<1> HIDE DEF n, p, h
<1>4. Joined(h, <<1, i>>, p)
  <2>1. <<1, i>> \in Seq(Int) /\ p \in Seq(Int)
      BY <1>2
  <2> QED
      BY <1>3, <2>1, Zenon DEF Joined
<1>5. /\ Len(<<1, i>>) = 2 /\ <<1, i>>[1] = 1 /\ <<1, i>>[2] = i
      /\ 1 \in 1 .. Len(<<1, i>>) /\ 2 \in 1 .. Len(<<1, i>>)
    OBVIOUS
<1>6. h[1] = 1 /\ h[2] = i
    BY <1>4, <1>5, JoinedFirst
<1>7. h[3] = p[1] /\ h[4] = p[2]
  <2> DEFINE t == <<1, i>>
  <2>1. 1 \in 1 .. Len(p) /\ 2 \in 1 .. Len(p) /\ Len(t) + 1 = 3 /\ Len(t) + 2 = 4 /\ Joined(h, t, p)
      BY <1>2, <1>4
  <2> HIDE DEF t
  <2>2. h[Len(t) + 1] = p[1] /\ h[Len(t) + 2] = p[2]
      BY <2>1, JoinedSecond
  <2> QED
      BY <2>1, <2>2
<1> QED
    BY <1>2, <1>6, <1>7 DEF n, h

\* The second part is the end.
LEMMA JoinedEnds ==
    ASSUME NEW a, NEW b, NEW s \in Seq(Nat), Joined(s, a, b)
    PROVE  /\ Len(a) \in Nat /\ b \in Seq(Nat) /\ Ends(s, Len(a), b)
<1>1. /\ a \in Seq(Int) /\ b \in Seq(Int)
      /\ Len(a) \in Nat /\ Len(b) \in Nat /\ Len(s) = Len(a) + Len(b)
    BY JoinedTyped, Zenon
<1>2. \A i \in 1 .. Len(b) : s[Len(a) + i] = b[i]
    BY JoinedSecond
<1>3. \A i \in 1 .. Len(b) : b[i] \in Nat
  <2>1. \A i \in 1 .. Len(b) : Len(a) + i \in 1 .. Len(s)
      BY <1>1
  <2>2. \A i \in 1 .. Len(s) : s[i] \in Nat
      OBVIOUS
  <2> QED
      BY <1>2, <2>1, <2>2
<1>4. b \in Seq(Nat)
  <2>1. b \in [1 .. Len(b) -> Nat]
      BY <1>1, <1>3
  <2>2. Len(b) \in Nat
      BY <1>1
  <2> QED
      BY <2>1, <2>2, FunctionIsSeq
<1> QED
    BY <1>1, <1>2, <1>4 DEF Ends

\* What the reader makes of the first option.
LEMMA FirstOption ==
    ASSUME NEW i \in 1 .. 5, NEW value \in OptionValue(OptionOrder[i]), TlvFits(OptionOrder[i], value),
           NEW bytes \in Seq(Nat), NEW rest, Joined(bytes, tlv(OptionOrder[i], value), rest)
    PROVE  /\ OptionKnown(bytes, 1) /\ OptionName(bytes, 1) = OptionOrder[i]
           /\ OptionSize(bytes, 1) \in Nat
           /\ Len(tlv(OptionOrder[i], value)) = 4 + OptionSize(bytes, 1) + Len(After(OptionOrder[i]))
           /\ OptionRead(bytes, 1) = <<OptionOrder[i], Said(OptionOrder[i], value)>>
<1> DEFINE name == OptionOrder[i]
           n == length(name, value)
           t == tlv(name, value)
           h == TlvHeader(i, value)
           said == Said(name, value)
           p == Payload(name, value)
<1>0. Byte \in Nat
    BY PduAssumption
<1>1. n \in Nat /\ Len(h) = 4 /\ Joined(t, h, p)
    BY TlvPieces
<1>2. Joined(p, said, After(name)) /\ Len(said) = n
    BY PayloadPieces
<1>3. h[1] = 1 /\ h[2] = i /\ h[3] * Byte + h[4] = n
  <2>1. Fits(n, 2)
      BY DEF TlvFits
  <2> QED
      BY <2>1, HeaderIs
<1>4. Joined(bytes, t, rest)
    OBVIOUS
<1> HIDE DEF name, n, t, h, said, p
<1>5. /\ Len(t) = 4 + n + Len(After(name)) /\ Len(After(name)) \in Nat
      /\ Len(bytes) = Len(t) + Len(rest) /\ Len(rest) \in Nat /\ said \in Seq(Int)
  <2>1. Len(t) = Len(h) + Len(p) /\ Len(p) = Len(said) + Len(After(name)) /\ Len(After(name)) \in Nat
      BY <1>1, <1>2, JoinedTyped, Zenon
  <2>2. Len(bytes) = Len(t) + Len(rest) /\ Len(rest) \in Nat /\ said \in Seq(Int)
      BY <1>2, <1>4, JoinedTyped, Zenon
  <2>3. \A x \in Nat : 4 + (n + x) = 4 + n + x
      BY <1>1
  <2>4. Len(t) = 4 + (n + Len(After(name)))
      BY <1>1, <1>2, <2>1, Zenon
  <2> QED
      BY <2>1, <2>2, <2>3, <2>4, Zenon
<1>a. \A j \in 1 .. Len(t) : bytes[j] = t[j]
    BY <1>4, JoinedFirst
<1>e. Joined(t, h, p)
    BY <1>1
<1>b. \A j \in 1 .. Len(h) : t[j] = h[j]
    BY <1>e, JoinedFirst
<1>c. \A j \in 1 .. Len(p) : t[Len(h) + j] = p[j]
    BY <1>e, JoinedSecond
<1>d. \A j \in 1 .. Len(said) : p[j] = said[j]
    BY <1>2, JoinedFirst
<1>6. ASSUME NEW j \in 1 .. 4 PROVE bytes[j] = h[j]
  <2>1. j \in 1 .. Len(h) /\ j \in 1 .. Len(t)
      BY <1>1, <1>5
  <2>2. bytes[j] = t[j]
      BY <1>a, <2>1, Zenon
  <2>3. t[j] = h[j]
      BY <1>b, <2>1, Zenon
  <2> QED
      BY <2>2, <2>3
<1>7. ASSUME NEW j \in 1 .. n PROVE bytes[4 + j] = said[j]
  <2>1. j \in 1 .. Len(said) /\ j \in 1 .. Len(p) /\ 4 + j \in 1 .. Len(t)
    <3>1. Len(p) = Len(said) + Len(After(name))
        BY <1>2, JoinedTyped, Zenon
    <3> QED
        BY <1>1, <1>2, <1>5, <3>1, SMTT(20)
  <2>2. bytes[4 + j] = t[4 + j]
      BY <1>a, <2>1, Zenon
  <2>3. t[Len(h) + j] = p[j]
      BY <1>c, <2>1, Zenon
  <2>4. p[j] = said[j]
      BY <1>d, <2>1, Zenon
  <2> QED
      BY <1>1, <2>2, <2>3, <2>4
<1>8. 1 \in 1 .. Len(bytes) - 1 /\ 3 \in 1 .. Len(bytes) - 1 /\ 1 + 3 <= Len(bytes)
    BY <1>1, <1>5
<1>9. Unpack(SubSeq(bytes, 1, 1 + 1)) = Byte + i /\ Unpack(SubSeq(bytes, 1 + 2, 1 + 3)) = n
  <2>1. bytes[1] = 1 /\ bytes[2] = i /\ bytes[3] = h[3] /\ bytes[4] = h[4]
      BY <1>3, <1>6
  <2>2. Unpack(SubSeq(bytes, 1, 1 + 1)) = bytes[1] * Byte + bytes[1 + 1]
      BY <1>8, UnpackIs
  <2>3. Unpack(SubSeq(bytes, 3, 3 + 1)) = bytes[3] * Byte + bytes[3 + 1]
      BY <1>8, UnpackIs
  <2>4. 1 * Byte + i = Byte + i /\ 1 + 1 = 2 /\ 1 + 2 = 3 /\ 3 + 1 = 4 /\ 1 + 3 = 4
      BY <1>0
  <2> QED
      BY <1>3, <2>1, <2>2, <2>3, <2>4
<1>10. (Byte + i) - Byte = i /\ i \in DOMAIN OptionOrder
    BY <1>0 DEF OptionOrder
<1>11. OptionKnown(bytes, 1) /\ OptionName(bytes, 1) = name /\ OptionSize(bytes, 1) = n
    BY <1>8, <1>9, <1>10, Zenon DEF OptionKnown, OptionName, OptionSize, name
<1>12. SubSeq(bytes, 1 + 4, 1 + 3 + n) = said
  <2>1. bytes \in Seq(Int) /\ 4 \in Nat /\ 4 + Len(said) <= Len(bytes) /\ 4 + 1 = 1 + 4 /\ 4 + Len(said) = 1 + 3 + n
      BY <1>1, <1>2, <1>5
  <2>2. \A j \in 1 .. Len(said) : bytes[4 + j] = said[j]
      BY <1>2, <1>7
  <2>3. SubSeq(bytes, 4 + 1, 4 + Len(said)) = said
      BY <1>5, <2>1, <2>2, PartIs
  <2> QED
      BY <2>1, <2>3
<1>13. OptionRead(bytes, 1) = <<name, said>>
    BY <1>11, <1>12, Zenon DEF OptionRead
<1> QED
    BY <1>1, <1>5, <1>11, <1>13 DEF name, n, t, said

And(read, others) == {read} \cup others

\* A reader that knows what follows a value reads the first option and goes on.
LEMMA OptionReadOn ==
    ASSUME NEW i \in 1 .. 5, NEW value \in OptionValue(OptionOrder[i]), TlvFits(OptionOrder[i], value),
           NEW bytes \in Seq(Nat), NEW rest, Joined(bytes, tlv(OptionOrder[i], value), rest),
           NEW more \in Nat, OptionOrder[i] \in TextOptions => more = 1
    PROVE  /\ rest \in Seq(Nat)
           /\ ReadOptions(bytes, more) = And(<<OptionOrder[i], Said(OptionOrder[i], value)>>, ReadOptions(rest, more))
<1> DEFINE name == OptionOrder[i]
           n == Len(tlv(name, value))
           size == OptionSize(bytes, 1)
           plus == IF name \in TextOptions THEN more ELSE 0
<1>1. /\ OptionKnown(bytes, 1) /\ OptionName(bytes, 1) = name /\ size \in Nat
      /\ n = 4 + size + Len(After(name)) /\ OptionRead(bytes, 1) = <<name, Said(name, value)>>
    BY FirstOption, Zenon
<1>2. n \in Nat /\ rest \in Seq(Nat) /\ Ends(bytes, n, rest)
    BY JoinedEnds, Zenon
<1>3. plus = Len(After(name)) /\ plus \in Nat
    BY DEF After, NUL
<1>4. OptionOver(bytes, more, 1) = 1 + 4 + size + plus
    BY <1>1, Zenon DEF OptionOver
<1>5. Len(bytes) = n + Len(rest) /\ Len(rest) \in Nat
    BY <1>2, LenProperties, Zenon DEF Ends
<1> HIDE DEF name, size, n, plus
<1>6. OptionOver(bytes, more, 1) = n + 1
    BY <1>1, <1>3, <1>4
<1>7. ReadsOn(bytes, more, 1)
  <2>1. 1 # Len(bytes) + 1 /\ ~(n + 1 > Len(bytes) + 1)
      BY <1>1, <1>2, <1>3, <1>5
  <2> QED
      BY <1>1, <1>6, <2>1, Zenon DEF ReadsOn
<1>8. ReadOptions(bytes, more) = {OptionRead(bytes, 1)} \cup ReadOptions(rest, more)
    BY <1>2, <1>6, <1>7, OptionsStep
<1> QED
    BY <1>1, <1>2, <1>8 DEF name, And

\* The bytes begin with an option.
Begun(bytes, n, value, rest) ==
    /\ n \in Options /\ value \in OptionValue(n) /\ TlvFits(n, value)
    /\ bytes \in Seq(Nat) /\ Joined(bytes, tlv(n, value), rest)

\* The first option is read, if it is no text or its NUL is counted, and then the others.
LEMMA BegunReadOn ==
    ASSUME NEW n, NEW value, NEW bytes, NEW rest, Begun(bytes, n, value, rest),
           NEW more \in Nat, n \in TextOptions => more = 1
    PROVE  ReadOptions(bytes, more) = And(<<n, Said(n, value)>>, ReadOptions(rest, more))
<1>1. PICK i \in 1 .. 5 : n = OptionOrder[i]
    BY DEF Begun, Options, OptionOrder, Range
<1>2. /\ value \in OptionValue(OptionOrder[i]) /\ TlvFits(OptionOrder[i], value) /\ bytes \in Seq(Nat)
      /\ Joined(bytes, tlv(OptionOrder[i], value), rest) /\ (OptionOrder[i] \in TextOptions => more = 1)
    BY <1>1, Zenon DEF Begun
<1>3. ReadOptions(bytes, more) = And(<<OptionOrder[i], Said(OptionOrder[i], value)>>, ReadOptions(rest, more))
    BY <1>2, OptionReadOn, ZenonT(30)
<1> QED
    BY <1>1, <1>3, Zenon

Pieces(fl, options) ==
    /\ fl \in [0 .. 5 -> Seq(Nat)] /\ fl[0] = <<>> /\ OptionalParams(options) = fl[5]
    /\ \A i \in 1 .. 5 : Joined(fl[i], fl[i - 1], OptionalParam(OptionOrder[i], options))

\* The options are values of their kinds and can be packed.
Sendable(options) ==
    /\ \A o \in DOMAIN options : options[o] \in OptionValue(o)
    /\ \A o \in Sent(options) : TlvFits(o, options[o])

\* What the first options that are sent say, and whether a reader can go on after them.
FirstSaid(options, k) == {<<o, Said(o, options[o])>> : o \in FirstNames(OptionOrder, k) \cap Sent(options)}

Follows(options, more, k) == more = 1 \/ FirstNames(OptionOrder, k) \cap Sent(options) \cap TextOptions = {}

\* What the first k + 1 options say, from what the first k say.
LEMMA OneMoreSaid ==
    ASSUME NEW options, NEW k \in 0 .. 4
    PROVE  /\ FirstNames(OptionOrder, k + 1) = FirstNames(OptionOrder, k) \cup {OptionOrder[k + 1]}
           /\ OptionOrder[k + 1] \in Sent(options) =>
                  FirstSaid(options, k + 1)
                      = FirstSaid(options, k) \cup {<<OptionOrder[k + 1], Said(OptionOrder[k + 1], options[OptionOrder[k + 1]])>>}
           /\ OptionOrder[k + 1] \notin Sent(options) => FirstSaid(options, k + 1) = FirstSaid(options, k)
<1>1. FirstNames(OptionOrder, k + 1) = FirstNames(OptionOrder, k) \cup {OptionOrder[k + 1]}
  <2>1. \A j : j \in 1 .. k + 1 <=> j \in 1 .. k \/ j = k + 1
      OBVIOUS
  <2> QED
      BY <2>1, Zenon DEF FirstNames
<1> DEFINE n == OptionOrder[k + 1]
           A == FirstNames(OptionOrder, k)
<1>2. FirstNames(OptionOrder, k + 1) = A \cup {n}
    BY <1>1
<1> HIDE DEF n, A
<1>3. n \in Sent(options) => FirstSaid(options, k + 1) = FirstSaid(options, k) \cup {<<n, Said(n, options[n])>>}
    BY <1>2, Zenon DEF FirstSaid, A
<1>4. n \notin Sent(options) => FirstSaid(options, k + 1) = FirstSaid(options, k)
  <2>1. n \notin Sent(options) => (A \cup {n}) \cap Sent(options) = A \cap Sent(options)
      OBVIOUS
  <2> QED
      BY <1>2, <2>1, Zenon DEF FirstSaid, A
<1> QED
    BY <1>1, <1>3, <1>4 DEF n

ReadTo(bytes, more, first, said) ==
    \A q : Joined(bytes, first, q) => ReadOptions(bytes, more) = said \cup ReadOptions(q, more)

\* Options that the reader can follow are read, whatever comes after them.
LEMMA FirstOptionsRead ==
    ASSUME NEW options, Sendable(options), NEW fl, Pieces(fl, options),
           NEW bytes \in Seq(Nat), NEW more \in Nat, NEW k \in 0 .. 5
    PROVE  Follows(options, more, k) => ReadTo(bytes, more, fl[k], FirstSaid(options, k))
<1> DEFINE P(x) == x <= 5 /\ Follows(options, more, x) =>
                       \A q : Joined(bytes, fl[x], q) =>
                           ReadOptions(bytes, more) = FirstSaid(options, x) \cup ReadOptions(q, more)
           S == {x \in Nat : P(x)}
<1>1. P(0)
  <2> SUFFICES ASSUME NEW q, Joined(bytes, fl[0], q)
               PROVE  ReadOptions(bytes, more) = FirstSaid(options, 0) \cup ReadOptions(q, more)
      OBVIOUS
  <2>1. fl[0] = <<>>
      BY DEF Pieces
  <2>2. bytes = q
      BY <2>1 DEF Joined
  <2>3. FirstNames(OptionOrder, 0) = {}
      BY DEF FirstNames
  <2>4. FirstSaid(options, 0) = {}
      BY <2>3, Zenon DEF FirstSaid
  <2> QED
      BY <2>2, <2>4
<1>2. ASSUME NEW x \in Nat, P(x)
      PROVE  P(x + 1)
  <2> SUFFICES ASSUME x + 1 <= 5, Follows(options, more, x + 1), NEW q, Joined(bytes, fl[x + 1], q)
               PROVE  ReadOptions(bytes, more) = FirstSaid(options, x + 1) \cup ReadOptions(q, more)
      OBVIOUS
  <2>0. x <= 5 /\ x \in 0 .. 4 /\ x + 1 \in 1 .. 5 /\ (x + 1) - 1 = x
      OBVIOUS
  <2> DEFINE n == OptionOrder[x + 1]
             v == options[n]
             part == OptionalParam(n, options)
             pq == part \o q
  <2>1. Joined(fl[x + 1], fl[x], part)
      BY <2>0, Zenon DEF Pieces
  <2>2. Follows(options, more, x) /\ (n \in Sent(options) /\ n \in TextOptions => more = 1)
      BY <2>0, OneMoreSaid DEF Follows
  <2> HIDE DEF part
  <2>3. Joined(pq, part, q)
    <3>1. part \in Seq(Int) /\ q \in Seq(Int)
        BY <2>1, JoinedTyped, Zenon
    <3> QED
        BY <3>1, Zenon DEF Joined
  <2> HIDE DEF pq
  <2>4. Joined(bytes, fl[x], pq)
      BY <2>1, <2>3, JoinedRight
  <2>5. ReadOptions(bytes, more) = FirstSaid(options, x) \cup ReadOptions(pq, more)
      BY <1>2, <2>0, <2>2, <2>4, Zenon
  <2>6. CASE n \notin Sent(options)
    <3>1. part = <<>>
        BY <2>6, Zenon DEF OptionalParam, part
    <3>2. pq = q
        BY <2>3, <3>1 DEF Joined
    <3>3. FirstSaid(options, x + 1) = FirstSaid(options, x)
        BY <2>0, <2>6, OneMoreSaid, Zenon
    <3> QED
        BY <2>5, <3>2, <3>3, Zenon
  <2>7. CASE n \in Sent(options)
    <3>1. part = tlv(n, v)
        BY <2>7, Zenon DEF OptionalParam, part
    <3>2. v \in OptionValue(n) /\ TlvFits(n, v)
        BY <2>7, Zenon DEF Sendable, Sent
    <3>3. pq \in Seq(Nat)
        BY <2>4, JoinedEnds, Zenon
    <3>4. Joined(pq, tlv(n, v), q)
        BY <2>3, <3>1
    <3>5. ReadOptions(pq, more) = And(<<n, Said(n, v)>>, ReadOptions(q, more))
      <4>1. n \in Options /\ (n \in TextOptions => more = 1)
          BY <2>2, <2>7, Zenon DEF Sent
      <4> HIDE DEF n, v
      <4>2. Begun(pq, n, v, q)
          BY <3>2, <3>3, <3>4, <4>1, Zenon DEF Begun
      <4> QED
          BY <4>1, <4>2, BegunReadOn
    <3>6. FirstSaid(options, x + 1) = FirstSaid(options, x) \cup {<<n, Said(n, v)>>}
        BY <2>0, <2>7, OneMoreSaid, Zenon
    <3> HIDE DEF n, v
    <3> QED
        BY <2>5, <3>5, <3>6 DEF And
  <2> QED
      BY <2>6, <2>7
<1>3. Nat \subseteq S
  <2> HIDE DEF P
  <2>1. 0 \in S /\ \A x \in Nat : x \in S => x + 1 \in S
      BY <1>1, <1>2
  <2> HIDE DEF S
  <2> QED
      BY <2>1, Induction
<1>4. k \in Nat /\ k <= 5
    OBVIOUS
<1>5. P(k)
    BY <1>3, <1>4
<1> QED
    BY <1>4, <1>5 DEF ReadTo

\* The SMSC reads all options that are sent and nothing else if it knows of the NUL at
\* the end of a text, and by the Length alone where no text is sent:
\* Client._build_submit_sm_optional_params_pdu and state.OptionalTag, for every choice of
\* options and values that can be packed.
THEOREM OptionsRead ==
    ASSUME NEW options, Sendable(options)
    PROVE  /\ ReadOptions(OptionalParams(options), 1) = Wanted(options)
           /\ Sent(options) \cap TextOptions = {} => ReadOptions(OptionalParams(options), 0) = Wanted(options)
<1>1. PICK fl : Pieces(fl, options)
  <2>1. PICK fl \in [0 .. 5 -> Seq(Nat)] :
             /\ fl[0] = <<>> /\ OptionalParams(options) = fl[5]
             /\ \A i \in 1 .. 5 : Joined(fl[i], fl[i - 1], OptionalParam(OptionOrder[i], options))
      BY OptionPieces DEF Sendable
  <2> QED
      BY <2>1, Zenon DEF Pieces
<1>2. OptionalParams(options) = fl[5] /\ fl[5] \in Seq(Nat)
    BY <1>1 DEF Pieces
<1>3. Joined(fl[5], fl[5], <<>>)
    BY <1>2 DEF Joined
<1>4. FirstNames(OptionOrder, 5) = Options
  <2>1. DOMAIN OptionOrder = 1 .. 5
      BY DEF OptionOrder
  <2> QED
      BY <2>1, Zenon DEF FirstNames, Options, Range
<1>5. Options \cap Sent(options) = Sent(options)
    BY DEF Sent
<1>6. FirstSaid(options, 5) = Wanted(options)
  <2>1. Wanted(options) = {<<o, Said(o, options[o])>> : o \in Sent(options)}
      BY DEF Wanted, Said
  <2> QED
      BY <1>4, <1>5, <2>1, Zenon DEF FirstSaid
<1>7. ASSUME NEW more \in Nat, Follows(options, more, 5)
      PROVE  ReadOptions(fl[5], more) = Wanted(options)
  <2>1. 5 \in 0 .. 5
      OBVIOUS
  <2>2. ReadTo(fl[5], more, fl[5], FirstSaid(options, 5))
      BY <1>1, <1>2, <1>7, <2>1, FirstOptionsRead
  <2>3. ReadOptions(fl[5], more) = FirstSaid(options, 5) \cup ReadOptions(<<>>, more)
      BY <1>3, <2>2, Zenon DEF ReadTo
  <2> QED
      BY <1>6, <2>3, NothingToRead
<1>8. ReadOptions(fl[5], 1) = Wanted(options)
  <2>1. 1 \in Nat /\ Follows(options, 1, 5)
      BY DEF Follows
  <2> QED
      BY <1>7, <2>1
<1>9. ASSUME Sent(options) \cap TextOptions = {} PROVE ReadOptions(fl[5], 0) = Wanted(options)
  <2>1. 0 \in Nat /\ Follows(options, 0, 5)
      BY <1>9 DEF Follows
  <2> QED
      BY <1>7, <2>1
<1> QED
    BY <1>2, <1>8, <1>9
=============================================================================
