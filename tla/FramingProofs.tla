--------------------------- MODULE FramingProofs ---------------------------
(***************************************************************************)
(* Proofs about Framing, for every header length, read size, set of body   *)
(* lengths, number of PDUs and number of connections: the types, and that  *)
(* what is handed to _parse_response_pdu from one connection is that       *)
(* connection's PDUs.                                                      *)
(***************************************************************************)
EXTENDS Framing, NaturalsInduction, WellFoundedInduction, TLAPS

\* A PDU is being put together, and its header came from connection c.
Holding == stage \in {"body", "bodynap", "parse"}
HeaderFrom(c) == Holding /\ header[1][1] = c

\* The header in hand is HeaderLen bytes in a row of one connection, which is not newer
\* than the StreamReader awaited, and that is not newer than client.reader.
HeaderInHand ==
    /\ on <= reader
    /\ Holding => \E h \in Conns, x \in Nat :
                     h <= on /\ header = [k \in 1 .. HeaderLen |-> <<h, x + k>>]

\* What was handed on from connection c: its PDUs 1 .. n, in order.
HandedOn(c, n) ==
    /\ \A i \in DOMAIN frames :
          From(c, frames[i]) =>
              \E p \in 1 .. n :
                  /\ frames[i] = PduBytes(c, p)
                  /\ \A q \in 1 .. MaxPdus :
                        (\E j \in 1 .. i - 1 : frames[j] = PduBytes(c, q)) <=> q < p
    /\ \A p \in 1 .. n : \E i \in DOMAIN frames : frames[i] = PduBytes(c, p)

\* Where connection c is: between PDU n and the next one;
Between(c, n) == taken[c] = Total[n] /\ ~HeaderFrom(c)

\* with the beginning of PDU n + 1 in hand;
Reading(c, n) ==
    /\ Holding /\ n < MaxPdus
    /\ header = [k \in 1 .. HeaderLen |-> <<c, Total[n] + k>>]
    /\ body = [k \in 1 .. Len(body) |-> <<c, Total[n] + HeaderLen + k>>]
    /\ taken[c] = Total[n] + HeaderLen + Len(body)
    /\ MSGLEN = bodies[n + 1]

\* left by receive_data, which will not read from it again, with the rest of its last PDU
\* taken from another connection;
Left(c) ==
    /\ c < reader
    /\ stage \in {"header", "body"} => on # c
    /\ HeaderFrom(c) => \E k \in DOMAIN body : body[k][1] # c

\* or at its end, in the middle of a header.
Spent(c) == taken[c] = arrived[c] /\ net[c] # "up" /\ ~HeaderFrom(c)

Whereabouts(c) ==
    \E n \in 0 .. MaxPdus :
        /\ HandedOn(c, n)
        /\ Between(c, n) \/ Reading(c, n) \/ Left(c) \/ Spent(c) \/ stage = "done"

FramingInv ==
    /\ TypeOK
    /\ HeaderInHand
    /\ \A c \in Conns \ tainted : Whereabouts(c)
-----------------------------------------------------------------------------
(* Induction, through the least counterexample, and the ends of the PDUs.  *)

\* Induction over the natural numbers, with the property as a set.
LEMMA Induction ==
    ASSUME NEW S, 0 \in S, \A n \in Nat : n \in S => n + 1 \in S
    PROVE  Nat \subseteq S
<1> DEFINE T == {n \in Nat : n \notin S}
<1> SUFFICES ASSUME T # {} PROVE FALSE
    OBVIOUS
<1>1. IsWellFoundedOn(OpToRel(<, Nat), Nat)
    BY NatLessThanWellFounded
<1>2. PICK x \in T : \A y \in T : ~(<<y, x>> \in OpToRel(<, Nat))
    BY <1>1, WFMin
<1>3. \A y \in T : ~(y < x)
    BY <1>2 DEF OpToRel
<1>4. x # 0
    OBVIOUS
<1>5. x - 1 \in Nat /\ x - 1 \in S
    BY <1>3, <1>4
<1> QED
    BY <1>5

\* The recursive definition of Total has a solution.
LEMMA TotalDefined ==
    ASSUME bodies \in [1 .. MaxPdus -> Lengths]
    PROVE  Total = [p \in 0 .. MaxPdus |->
                       IF p = 0 THEN 0 ELSE Total[p - 1] + HeaderLen + bodies[p]]
<1> USE FramingAssumption
<1> DEFINE Eq(t, m) == t = [p \in 0 .. m |-> IF p = 0 THEN 0 ELSE t[p - 1] + HeaderLen + bodies[p]]
           S == {m \in Nat : \E t : Eq(t, m)}
<1>1. 0 \in S
  <2> DEFINE t == [p \in 0 .. 0 |-> 0]
  <2>1. Eq(t, 0)
      OBVIOUS
  <2> QED
      BY <2>1
<1>2. ASSUME NEW m \in Nat, m \in S
      PROVE  m + 1 \in S
  <2>1. PICK t : Eq(t, m)
      BY <1>2
  <2> DEFINE u == [p \in 0 .. m + 1 |->
                      IF p <= m THEN t[p] ELSE t[m] + HeaderLen + bodies[m + 1]]
  <2>2. ASSUME NEW p \in 0 .. m + 1
        PROVE  u[p] = IF p = 0 THEN 0 ELSE u[p - 1] + HeaderLen + bodies[p]
      BY <2>1
  <2>3. Eq(u, m + 1)
      BY <2>2
  <2> HIDE DEF u, Eq
  <2>4. \E v : Eq(v, m + 1)
      BY <2>3
  <2> QED
      BY <2>4
<1>3. Nat \subseteq S
  <2> HIDE DEF S
  <2> QED
      BY <1>1, <1>2, Induction
<1>4. \E t : Eq(t, MaxPdus)
    BY <1>3
<1> QED
    BY <1>4 DEF Total

\* Where the PDUs of a connection end: each after the one before it, by its own length.
LEMMA TotalFacts ==
    ASSUME bodies \in [1 .. MaxPdus -> Lengths]
    PROVE  /\ Total \in [0 .. MaxPdus -> Nat]
           /\ Total[0] = 0
           /\ \A p \in 1 .. MaxPdus : Total[p] = Total[p - 1] + HeaderLen + bodies[p]
           /\ \A p, q \in 0 .. MaxPdus : p <= q => Total[p] <= Total[q]
           /\ \A p, q \in 0 .. MaxPdus : p < q => Total[p] + HeaderLen <= Total[q]
<1> USE FramingAssumption
<1>1. /\ Total[0] = 0
      /\ \A p \in 1 .. MaxPdus : Total[p] = Total[p - 1] + HeaderLen + bodies[p]
      /\ DOMAIN Total = 0 .. MaxPdus
      /\ Total = [p \in 0 .. MaxPdus |-> Total[p]]
  <2> DEFINE F == [p \in 0 .. MaxPdus |->
                      IF p = 0 THEN 0 ELSE Total[p - 1] + HeaderLen + bodies[p]]
  <2>1. Total = F
      BY TotalDefined
  <2>2. DOMAIN F = 0 .. MaxPdus /\ F[0] = 0 /\ F = [p \in 0 .. MaxPdus |-> F[p]]
      OBVIOUS
  <2>3. ASSUME NEW p \in 1 .. MaxPdus
        PROVE  F[p] = Total[p - 1] + HeaderLen + bodies[p]
      OBVIOUS
  <2> HIDE DEF F
  <2> QED
      BY <2>1, <2>2, <2>3
<1>2. \A p \in 1 .. MaxPdus : bodies[p] \in Nat
    OBVIOUS
<1> DEFINE S == {m \in Nat : m <= MaxPdus =>
                    \A p \in 0 .. m : Total[p] \in Nat /\ Total[p] <= Total[m]}
<1>3. 0 \in S
    BY <1>1
<1>4. ASSUME NEW m \in Nat, m \in S
      PROVE  m + 1 \in S
  <2> SUFFICES ASSUME m + 1 <= MaxPdus, NEW p \in 0 .. m + 1
               PROVE  Total[p] \in Nat /\ Total[p] <= Total[m + 1]
      OBVIOUS
  <2>1. \A r \in 0 .. m : Total[r] \in Nat /\ Total[r] <= Total[m]
      BY <1>4
  <2>2. m + 1 \in 1 .. MaxPdus /\ (m + 1) - 1 = m /\ m \in 0 .. m
      OBVIOUS
  <2>3. Total[m + 1] = Total[m] + HeaderLen + bodies[m + 1] /\ bodies[m + 1] \in Nat
      BY <1>1, <1>2, <2>2
  <2>4. Total[m] \in Nat /\ Total[m + 1] \in Nat /\ Total[m] <= Total[m + 1]
      BY <2>1, <2>2, <2>3
  <2>5. CASE p = m + 1
      BY <2>4, <2>5
  <2>6. CASE p \in 0 .. m
      BY <2>1, <2>4, <2>6
  <2> QED
      BY <2>5, <2>6
<1>5. Nat \subseteq S
  <2> HIDE DEF S
  <2> QED
      BY <1>3, <1>4, Induction
<1>6. \A q \in 0 .. MaxPdus : \A p \in 0 .. q : Total[p] \in Nat /\ Total[p] <= Total[q]
    BY <1>5
<1>7. Total \in [0 .. MaxPdus -> Nat]
  <2>1. \A p \in 0 .. MaxPdus : Total[p] \in Nat
      BY <1>6
  <2> QED
      BY <1>1, <2>1
<1>8. ASSUME NEW p \in 0 .. MaxPdus, NEW q \in 0 .. MaxPdus, p < q
      PROVE  Total[p] + HeaderLen <= Total[q]
  <2>1. q \in 1 .. MaxPdus /\ q - 1 \in 0 .. MaxPdus /\ p \in 0 .. q - 1 /\ q - 1 \in 0 .. q - 1
      BY <1>8
  <2>2. Total[p] \in Nat /\ Total[p] <= Total[q - 1] /\ Total[q - 1] \in Nat
      BY <2>1, <1>6
  <2>3. Total[q] = Total[q - 1] + HeaderLen + bodies[q] /\ bodies[q] \in Nat
      BY <2>1, <1>1, <1>2
  <2> QED
      BY <2>2, <2>3
<1>9. \A p, q \in 0 .. MaxPdus : p <= q => Total[p] <= Total[q]
    BY <1>6
<1> QED
    BY <1>1, <1>7, <1>8, <1>9
\* Total depends on the SMSC's PDUs only.
LEMMA TotalUnchanged ==
    ASSUME UNCHANGED bodies
    PROVE  Total' = Total
BY DEF Total

\* n bytes in a row of a connection.
LEMMA RunOfBytes ==
    ASSUME NEW c \in Conns, NEW x \in Nat, NEW n \in Nat, NEW run,
           run = [k \in 1 .. n |-> <<c, x + k>>]
    PROVE  /\ run \in Seq(Conns \X Nat)
           /\ Len(run) = n
           /\ \A k \in 1 .. n : run[k] = <<c, x + k>>
OBVIOUS

\* A PDU of connection c is HeaderLen bytes or more, all from c, and no other PDU of c.
LEMMA PduFacts ==
    ASSUME bodies \in [1 .. MaxPdus -> Lengths], NEW c \in Conns, NEW p \in 1 .. MaxPdus
    PROVE  /\ Len(PduBytes(c, p)) = HeaderLen + bodies[p]
           /\ PduBytes(c, p) \in Seq(Conns \X Nat)
           /\ From(c, PduBytes(c, p))
           /\ \A q \in 1 .. MaxPdus : PduBytes(c, p) = PduBytes(c, q) => p = q
<1> USE FramingAssumption
<1>1. /\ bodies[p] \in Nat
      /\ Total \in [0 .. MaxPdus -> Nat]
      /\ \A q, r \in 0 .. MaxPdus : q < r => Total[q] + HeaderLen <= Total[r]
    BY TotalFacts
<1>2. ASSUME NEW r \in 1 .. MaxPdus
      PROVE  /\ r - 1 \in 0 .. MaxPdus /\ Total[r - 1] \in Nat
             /\ bodies[r] \in Nat /\ HeaderLen + bodies[r] \in Nat \ {0}
  <2>1. r - 1 \in 0 .. MaxPdus
      OBVIOUS
  <2>2. bodies[r] \in Nat
      OBVIOUS
  <2> QED
      BY <1>1, <2>1, <2>2
<1>3. ASSUME NEW r \in 1 .. MaxPdus
      PROVE  /\ PduBytes(c, r) \in Seq(Conns \X Nat)
             /\ Len(PduBytes(c, r)) = HeaderLen + bodies[r]
             /\ PduBytes(c, r)[1] = <<c, Total[r - 1] + 1>>
  <2> DEFINE n == HeaderLen + bodies[r]
             x == Total[r - 1]
  <2>1. PduBytes(c, r) = [k \in 1 .. n |-> <<c, x + k>>] /\ n \in Nat /\ x \in Nat /\ 1 \in 1 .. n
      BY <1>2 DEF PduBytes
  <2> HIDE DEF n, x
  <2>2. /\ PduBytes(c, r) \in Seq(Conns \X Nat)
        /\ Len(PduBytes(c, r)) = n
        /\ PduBytes(c, r)[1] = <<c, x + 1>>
      BY <2>1, RunOfBytes
  <2> QED
      BY <2>2 DEF n, x
<1>4. From(c, PduBytes(c, p))
    BY DEF From, PduBytes
<1>5. ASSUME NEW q \in 1 .. MaxPdus, PduBytes(c, p) = PduBytes(c, q)
      PROVE  p = q
  <2>1. Total[p - 1] = Total[q - 1]
    <3>1. <<c, Total[p - 1] + 1>> = <<c, Total[q - 1] + 1>>
        BY <1>3, <1>5
    <3>2. Total[p - 1] \in Nat /\ Total[q - 1] \in Nat
        BY <1>2
    <3> QED
        BY <3>1, <3>2
  <2>2. ~(p - 1 < q - 1) /\ ~(q - 1 < p - 1)
      BY <1>1, <1>2, <2>1
  <2> QED
      BY <2>2
<1> QED
    BY <1>3, <1>4, <1>5

\* The header of a PDU is its first HeaderLen bytes.
LEMMA PduHeader ==
    ASSUME bodies \in [1 .. MaxPdus -> Lengths], NEW c \in Conns, NEW p \in 1 .. MaxPdus
    PROVE  SubSeq(PduBytes(c, p), 1, HeaderLen) = [k \in 1 .. HeaderLen |-> <<c, Total[p - 1] + k>>]
<1> USE FramingAssumption
<1>1. bodies[p] \in Nat
    OBVIOUS
<1>2. Len(PduBytes(c, p)) = HeaderLen + bodies[p] /\ PduBytes(c, p) \in Seq(Conns \X Nat)
    BY PduFacts
<1>3. ASSUME NEW k \in 1 .. HeaderLen
      PROVE  PduBytes(c, p)[k] = <<c, Total[p - 1] + k>>
  <2>1. k \in 1 .. HeaderLen + bodies[p]
      BY <1>1
  <2> QED
      BY <2>1 DEF PduBytes
<1>4. /\ SubSeq(PduBytes(c, p), 1, HeaderLen) \in Seq(Conns \X Nat)
      /\ Len(SubSeq(PduBytes(c, p), 1, HeaderLen)) = HeaderLen
      /\ \A k \in 1 .. HeaderLen : SubSeq(PduBytes(c, p), 1, HeaderLen)[k] = PduBytes(c, p)[k]
    BY <1>1, <1>2
<1> QED
    BY <1>3, <1>4
-----------------------------------------------------------------------------
(* The types.                                                              *)

\* Connections are numbers.
LEMMA ConnsAreNumbers ==
    ASSUME TypeOK
    PROVE  reader \in Nat /\ on \in Nat /\ Conns \subseteq Nat
<1>1. reader \in Conns /\ on \in Conns
    BY DEF TypeOK
<1> QED
    BY <1>1 DEF Conns

\* What a read of n bytes returns.
LEMMA NextBytesFacts ==
    ASSUME TypeOK, NEW c \in Conns, NEW n \in Nat
    PROVE  /\ NextBytes(c, n) \in Seq(Conns \X Nat)
           /\ Len(NextBytes(c, n)) = n
           /\ \A k \in 1 .. n : NextBytes(c, n)[k] = <<c, taken[c] + k>>
<1>1. taken[c] \in Nat
    BY DEF TypeOK
<1> QED
    BY <1>1, RunOfBytes DEF NextBytes

\* A chunk is at least a byte, and no more than is buffered and than the PDU still needs.
LEMMA ChunkFacts ==
    ASSUME TypeOK, stage = "body", Buffered(on) > 0
    PROVE  /\ ChunkLength \in Nat \ {0}
           /\ ChunkLength <= Buffered(on)
           /\ Len(body) + ChunkLength <= MSGLEN
<1>1. /\ on \in Conns /\ taken[on] \in Nat /\ arrived[on] \in Int
      /\ MSGLEN \in Int /\ Len(body) \in Nat /\ Len(body) < MSGLEN
      /\ MaxRead \in Nat \ {0}
    BY FramingAssumption DEF TypeOK, Garbage
<1>2. MSGLEN - Len(body) \in Nat \ {0} /\ Buffered(on) \in Nat \ {0}
    BY <1>1 DEF Buffered
<1> QED
    BY <1>1, <1>2 DEF ChunkLength, Smallest
\* The lengths a header may give are integers.
LEMMA BodyLengthTyped ==
    ASSUME TypeOK, NEW bytes, NEW n \in BodyLength(bytes)
    PROVE  n \in Garbage
<1>1. \A p \in HeaderOf(bytes) : bodies[p] \in Lengths
    BY DEF TypeOK, HeaderOf
<1> QED
    BY <1>1 DEF BodyLength, Garbage

\* Every step of receive_data, of the network and of the other coroutines keeps the types.
LEMMA TypeStep ==
    ASSUME TypeOK, [Next]_vars
    PROVE  TypeOK'
<1> USE FramingAssumption
<1>0. /\ reader \in Conns /\ on \in Conns /\ MSGLEN \in Int /\ Len(body) \in Nat
      /\ \A c \in Conns : arrived[c] \in Nat /\ taken[c] \in Nat /\ taken[c] <= arrived[c]
      /\ Total[MaxPdus] \in Nat
      /\ bodies \in [1 .. MaxPdus -> Lengths]
  <2>1. bodies \in [1 .. MaxPdus -> Lengths]
      BY DEF TypeOK
  <2>2. Total[MaxPdus] \in Nat
      BY <2>1, TotalFacts
  <2>3. \A c \in Conns : arrived[c] \in Nat /\ taken[c] \in Nat /\ taken[c] <= arrived[c]
      BY <2>2 DEF TypeOK
  <2>4. MSGLEN \in Int
      BY DEF TypeOK, Garbage
  <2>5. reader \in Conns /\ on \in Conns /\ Len(body) \in Nat
      BY DEF TypeOK
  <2> QED
      BY <2>1, <2>2, <2>3, <2>4, <2>5
<1>1. UNCHANGED bodies /\ Total' = Total
  <2>1. UNCHANGED bodies
      BY DEF Next, Receiving, vars, streams, receive_data, receive_nap_over, receive_header,
         receive_incomplete, receive_disconnected, receive_error, receive_backoff_over,
         receive_chunk, receive_chunk_error, receive_bodynap_over, receive_parse, arrive,
         network_failure, reconnect, shutdown, shutdown_disconnects
  <2> QED
      BY <2>1, TotalUnchanged
<1> USE DEF streams, session, parsing, Await
<1>2. CASE receive_data
    BY <1>1, <1>2 DEF receive_data, TypeOK, Stages, Garbage
<1>3. CASE receive_nap_over
  <2>1. reader' \in Conns
      BY <1>0, <1>3 DEF receive_nap_over, Conns
  <2> QED
      BY <1>1, <1>3, <2>1 DEF receive_nap_over, TypeOK, Stages, Garbage
<1>4. CASE receive_header
  <2>1. /\ header' \in Seq(Conns \X Nat)
        /\ MSGLEN' \in Garbage /\ body' = <<>>
        /\ stage' = IF MSGLEN' > 0 THEN "body" ELSE "parse"
      BY <1>0, <1>4, NextBytesFacts, BodyLengthTyped DEF receive_header
  <2>2. taken' \in [Conns -> Nat] /\ \A c \in Conns : taken'[c] <= arrived[c]
    <3>1. taken' = [taken EXCEPT ![on] = @ + HeaderLen] /\ taken \in [Conns -> Nat]
        BY <1>4 DEF receive_header, TypeOK
    <3>2. taken[on] + HeaderLen <= arrived[on]
        BY <1>0, <1>4 DEF receive_header, Buffered
    <3>3. ASSUME NEW c \in Conns
          PROVE  taken'[c] \in Nat /\ taken'[c] <= arrived[c]
        BY <1>0, <3>1, <3>2
    <3> QED
        BY <3>1, <3>3
  <2>3. /\ body' \in Seq(Conns \X Nat) /\ MSGLEN' \in Int
        /\ stage' \in {"body", "bodynap"} => Len(body') < MSGLEN'
        /\ stage' = "parse" => Len(body') = IF MSGLEN' > 0 THEN MSGLEN' ELSE 0
        /\ stage' \in Stages
      BY <2>1 DEF Garbage, Stages
  <2>4. on' \in Conns /\ UNCHANGED <<arrived, net, session, frames, tainted>>
      BY <1>0, <1>4 DEF receive_header
  <2> QED
      BY <1>1, <2>1, <2>2, <2>3, <2>4 DEF TypeOK
<1>5. CASE receive_incomplete
  <2>1. taken' = [taken EXCEPT ![on] = arrived[on]] /\ UNCHANGED arrived
      BY <1>5 DEF receive_incomplete
  <2>2. taken' \in [Conns -> Nat] /\ \A c \in Conns : taken'[c] <= arrived'[c]
    <3>1. taken \in [Conns -> Nat]
        BY DEF TypeOK
    <3>2. ASSUME NEW c \in Conns
          PROVE  taken'[c] \in Nat /\ taken'[c] <= arrived[c]
        BY <1>0, <2>1, <3>1
    <3> QED
        BY <2>1, <3>1, <3>2
  <2> QED
      BY <1>1, <1>5, <2>2 DEF receive_incomplete, TypeOK, Stages, Garbage
<1>6. CASE receive_error
    BY <1>1, <1>6 DEF receive_error, AfterNothing, TypeOK, Stages, Garbage
<1>7. CASE receive_backoff_over
    BY <1>1, <1>7 DEF receive_backoff_over, TypeOK, Stages, Garbage
<1>8. CASE receive_chunk
  <2>1. /\ ChunkLength \in Nat \ {0}
        /\ ChunkLength <= Buffered(on)
        /\ Len(body) + ChunkLength <= MSGLEN
      BY <1>8, ChunkFacts DEF receive_chunk
  <2>2. /\ NextBytes(on, ChunkLength) \in Seq(Conns \X Nat)
        /\ Len(NextBytes(on, ChunkLength)) = ChunkLength
      BY <1>0, <2>1, NextBytesFacts
  <2>3. body' \in Seq(Conns \X Nat) /\ Len(body') = Len(body) + ChunkLength
    <3>1. body \in Seq(Conns \X Nat) /\ body' = body \o NextBytes(on, ChunkLength)
        BY <1>8 DEF receive_chunk, TypeOK
    <3> QED
        BY <2>2, <3>1
  <2>4. taken' \in [Conns -> Nat] /\ \A c \in Conns : taken'[c] <= arrived[c]
    <3>1. taken' = [taken EXCEPT ![on] = @ + ChunkLength] /\ taken \in [Conns -> Nat]
        BY <1>8 DEF receive_chunk, TypeOK
    <3>2. taken[on] + ChunkLength <= arrived[on]
        BY <1>0, <2>1 DEF Buffered
    <3>3. ASSUME NEW c \in Conns
          PROVE  taken'[c] \in Nat /\ taken'[c] <= arrived[c]
        BY <1>0, <2>1, <3>1, <3>2
    <3> QED
        BY <3>1, <3>3
  <2>5. /\ stage' \in {"body", "bodynap"} => Len(body') < MSGLEN
        /\ stage' = "parse" => Len(body') = IF MSGLEN > 0 THEN MSGLEN ELSE 0
        /\ stage' \in {"body", "parse"}
    <3>1. stage' = IF Len(body') >= MSGLEN THEN "parse" ELSE "body"
        BY <1>8 DEF receive_chunk, Complete
    <3>2. Len(body') \in Nat /\ Len(body') <= MSGLEN /\ MSGLEN > 0
        BY <1>0, <2>1, <2>3
    <3> QED
        BY <1>0, <3>1, <3>2
  <2> QED
      BY <1>0, <1>1, <1>8, <2>3, <2>4, <2>5 DEF receive_chunk, TypeOK, Stages, Garbage
<1>9. CASE receive_chunk_error
    BY <1>1, <1>9 DEF receive_chunk_error, TypeOK, Stages, Garbage
<1>10. CASE receive_bodynap_over
    BY <1>1, <1>10 DEF receive_bodynap_over, TypeOK, Stages, Garbage
<1>11. CASE receive_parse
  <2>1. header \o body \in Seq(Conns \X Nat)
      BY DEF TypeOK
  <2>2. frames' \in Seq(Seq(Conns \X Nat))
    <3>1. frames \in Seq(Seq(Conns \X Nat)) /\ frames' = Append(frames, header \o body)
        BY <1>11 DEF receive_parse, TypeOK
    <3> QED
        BY <2>1, <3>1
  <2> QED
      BY <1>1, <1>11, <2>2 DEF receive_parse, TypeOK, Stages, Garbage
<1>12. ASSUME NEW c \in Conns, arrive(c) \/ network_failure(c)
       PROVE  TypeOK'
  <2>1. CASE arrive(c)
    <3>1. arrived \in [Conns -> 0 .. Total[MaxPdus]] /\ arrived' = [arrived EXCEPT ![c] = @ + 1]
        BY <2>1 DEF arrive, TypeOK
    <3>2. arrived[c] < Total[MaxPdus] /\ UNCHANGED taken
        BY <2>1 DEF arrive
    <3>3. /\ arrived' \in [Conns -> 0 .. Total[MaxPdus]]
          /\ \A d \in Conns : taken'[d] <= arrived'[d]
        BY <1>0, <3>1, <3>2
    <3> QED
        BY <1>1, <2>1, <3>3 DEF arrive, TypeOK, Garbage
  <2>2. CASE network_failure(c)
      BY <1>1, <2>2 DEF network_failure, TypeOK, Garbage
  <2> QED
      BY <1>12, <2>1, <2>2
<1>13. CASE reconnect
  <2>1. reader' \in Conns
      BY <1>0, <1>13 DEF reconnect, Conns
  <2> QED
      BY <1>1, <1>13, <2>1 DEF reconnect, TypeOK, Garbage
<1>14. CASE shutdown \/ shutdown_disconnects
    BY <1>1, <1>14 DEF shutdown, shutdown_disconnects, TypeOK, Garbage
<1>15. CASE UNCHANGED vars
    BY <1>1, <1>15 DEF vars, TypeOK, Garbage
<1>16. CASE receive_disconnected
    BY <1>1, <1>16 DEF receive_disconnected, AfterNothing, TypeOK, Stages, Garbage
<1> QED
    BY <1>2, <1>3, <1>4, <1>5, <1>6, <1>7, <1>8, <1>9, <1>10, <1>11, <1>12, <1>13, <1>14, <1>15, <1>16
       DEF Next, Receiving
\* The types hold at the start.
LEMMA InitTyped ==
    ASSUME Init
    PROVE  TypeOK
<1>1. bodies \in [1 .. MaxPdus -> Lengths]
    BY DEF Init
<1>2. Total[MaxPdus] \in Nat
    BY <1>1, TotalFacts, FramingAssumption
<1>3. <<>> \in Seq(Conns \X Nat) /\ <<>> \in Seq(Seq(Conns \X Nat)) /\ 1 \in Conns
    BY FramingAssumption DEF Conns
<1>4. /\ arrived \in [Conns -> 0 .. Total[MaxPdus]]
      /\ taken \in [Conns -> Nat] /\ \A c \in Conns : taken[c] <= arrived[c]
    BY <1>2 DEF Init
<1> QED
    BY <1>3, <1>4 DEF Init, TypeOK, Stages

\* The types hold in every reachable state, whatever the lengths and the limits:
\* a PDU in hand is never longer than its header says, and never parsed before it is whole.
THEOREM TypeCorrect == Spec => []TypeOK
<1>1. Init => TypeOK
    BY InitTyped
<1>2. TypeOK /\ [Next]_vars => TypeOK'
    BY TypeStep
<1> QED
    BY <1>1, <1>2, PTL DEF Spec
-----------------------------------------------------------------------------
(* The header in hand.                                                     *)

\* Every step keeps the header in hand a run of bytes of one connection.
LEMMA HeaderStep ==
    ASSUME TypeOK, HeaderInHand, [Next]_vars
    PROVE  HeaderInHand'
<1> USE FramingAssumption DEF streams, session, parsing, Await
<1>0. reader \in Conns /\ on \in Conns /\ on <= reader /\ reader \in Nat /\ on \in Nat
    BY DEF TypeOK, HeaderInHand, Conns
<1>1. CASE receive_header
  <2>1. header' = [k \in 1 .. HeaderLen |-> <<on, taken[on] + k>>] /\ taken[on] \in Nat
      BY <1>0, <1>1 DEF receive_header, NextBytes, TypeOK
  <2>2. on' = reader /\ UNCHANGED reader
      BY <1>1 DEF receive_header
  <2>3. on <= on' /\ on' <= reader'
      BY <1>0, <2>2
  <2>4. \E h \in Conns, x \in Nat : h <= on' /\ header' = [k \in 1 .. HeaderLen |-> <<h, x + k>>]
      BY <1>0, <2>1, <2>3
  <2> QED
      BY <2>3, <2>4 DEF HeaderInHand
<1>2. CASE receive_chunk
  <2>1. UNCHANGED <<header, reader>> /\ Holding /\ on' = reader
      BY <1>2 DEF receive_chunk, Holding
  <2>2. PICK h \in Conns, x \in Nat :
            h <= on /\ header = [k \in 1 .. HeaderLen |-> <<h, x + k>>]
      BY <2>1 DEF HeaderInHand
  <2>3. h <= on' /\ on' <= reader'
      BY <1>0, <2>1, <2>2 DEF Conns
  <2> QED
      BY <2>1, <2>2, <2>3 DEF HeaderInHand
<1>3. CASE receive_bodynap_over
  <2>1. UNCHANGED <<header, reader>> /\ Holding /\ on' = reader
      BY <1>3 DEF receive_bodynap_over, Holding
  <2>2. PICK h \in Conns, x \in Nat :
            h <= on /\ header = [k \in 1 .. HeaderLen |-> <<h, x + k>>]
      BY <2>1 DEF HeaderInHand
  <2>3. h <= on' /\ on' <= reader'
      BY <1>0, <2>1, <2>2 DEF Conns
  <2> QED
      BY <2>1, <2>2, <2>3 DEF HeaderInHand
<1>4. ASSUME \/ receive_nap_over \/ reconnect
      PROVE  HeaderInHand'
  <2>1. reader' = reader \/ reader' = reader + 1
      BY <1>4 DEF receive_nap_over, reconnect
  <2>2. UNCHANGED <<header, on>> /\ (Holding' => Holding)
      BY <1>4 DEF receive_nap_over, reconnect, Holding
  <2>3. on' <= reader'
      BY <1>0, <2>1, <2>2
  <2> QED
      BY <2>2, <2>3 DEF HeaderInHand
<1>5. ASSUME \/ receive_data \/ receive_incomplete \/ receive_disconnected \/ receive_error
             \/ receive_backoff_over \/ receive_chunk_error \/ receive_parse
             \/ shutdown \/ shutdown_disconnects \/ UNCHANGED vars
             \/ \E c \in Conns : arrive(c) \/ network_failure(c)
      PROVE  HeaderInHand'
  <2>1. UNCHANGED <<header, reader>> /\ (Holding' => Holding)
      BY <1>5 DEF receive_data, receive_incomplete, receive_disconnected, receive_error, AfterNothing,
         receive_backoff_over, receive_chunk_error, receive_parse, shutdown, shutdown_disconnects,
         arrive, network_failure, vars, Holding
  <2>2. on' = on \/ (on' = reader /\ ~Holding')
      BY <1>5 DEF receive_data, receive_incomplete, receive_disconnected, receive_error, AfterNothing,
         receive_backoff_over, receive_chunk_error, receive_parse, shutdown, shutdown_disconnects,
         arrive, network_failure, vars, Holding
  <2>3. on' <= reader'
      BY <1>0, <2>1, <2>2
  <2>4. CASE on' = on
      BY <2>1, <2>3, <2>4 DEF HeaderInHand
  <2>5. CASE ~Holding'
      BY <2>3, <2>5 DEF HeaderInHand
  <2> QED
      BY <2>2, <2>4, <2>5
<1> QED
    BY <1>1, <1>2, <1>3, <1>4, <1>5 DEF Next, Receiving
-----------------------------------------------------------------------------
(* Where each connection is.                                               *)

\* What was handed on depends on the frames only.
LEMMA HandedOnUnchanged ==
    ASSUME UNCHANGED <<bodies, frames>>, NEW c, NEW n, HandedOn(c, n)
    PROVE  HandedOn(c, n)'
<1>1. Total' = Total
    BY TotalUnchanged
<1>2. \A p : PduBytes(c, p)' = PduBytes(c, p)
    BY <1>1 DEF PduBytes
<1>3. (\A p \in 1 .. n : \E i \in DOMAIN frames : frames[i] = PduBytes(c, p))'
    BY <1>2 DEF HandedOn
<1>4. ASSUME NEW i \in DOMAIN frames, From(c, frames[i])
      PROVE  \E p \in 1 .. n :
                 /\ frames[i] = PduBytes(c, p)'
                 /\ \A q \in 1 .. MaxPdus :
                       (\E j \in 1 .. i - 1 : frames[j] = PduBytes(c, q)') <=> q < p
  <2>1. PICK p \in 1 .. n :
            /\ frames[i] = PduBytes(c, p)
            /\ \A q \in 1 .. MaxPdus :
                  (\E j \in 1 .. i - 1 : frames[j] = PduBytes(c, q)) <=> q < p
      BY <1>4 DEF HandedOn
  <2> QED
      BY <1>2, <2>1
<1> QED
    BY <1>3, <1>4 DEF HandedOn, From

\* Steps that take and hand on no bytes: waiting, giving up, the network, the other
\* coroutines.  They leave every connection where it is, or receive_data is done.
QuietStep ==
    /\ UNCHANGED <<bodies, taken, header, body, MSGLEN, frames, tainted>>
    /\ reader' = reader \/ reader' = reader + 1
    /\ stage = "done" => stage' = "done"
    /\ stage' # "done" => (Holding' <=> Holding)
    /\ stage' \in {"header", "body"} => on' = reader \/ (stage' = stage /\ on' = on)
    /\ \A c \in Conns : net[c] # "up" => net'[c] # "up" /\ arrived'[c] = arrived[c]

\* The quiet steps are all but the four that move bytes.
LEMMA QuietSteps ==
    ASSUME TypeOK, [Next]_vars
    PROVE  QuietStep \/ receive_header \/ receive_incomplete \/ receive_chunk \/ receive_parse
<1> USE DEF streams, session, parsing, Await, QuietStep, Holding
<1>1. CASE receive_data
    BY <1>1 DEF receive_data
<1>2. CASE receive_nap_over
    BY <1>2 DEF receive_nap_over
<1>3. CASE receive_error
    BY <1>3 DEF receive_error, AfterNothing
<1>4. CASE receive_backoff_over
    BY <1>4 DEF receive_backoff_over
<1>5. CASE receive_chunk_error
    BY <1>5 DEF receive_chunk_error
<1>6. CASE receive_bodynap_over
    BY <1>6 DEF receive_bodynap_over
<1>7. ASSUME NEW c \in Conns, arrive(c)
      PROVE  QuietStep
    BY <1>7 DEF arrive, TypeOK
<1>8. ASSUME NEW c \in Conns, network_failure(c)
      PROVE  QuietStep
    BY <1>8 DEF network_failure, TypeOK
<1>9. CASE reconnect
    BY <1>9 DEF reconnect
<1>10. CASE shutdown \/ shutdown_disconnects
    BY <1>10 DEF shutdown, shutdown_disconnects
<1>11. CASE UNCHANGED vars
    BY <1>11 DEF vars
<1>12. CASE receive_disconnected
    BY <1>12 DEF receive_disconnected, AfterNothing
<1> QED
    BY <1>1, <1>2, <1>3, <1>4, <1>5, <1>6, <1>7, <1>8, <1>9, <1>10, <1>11, <1>12 DEF Next, Receiving

\* A quiet step leaves a connection where it is.
LEMMA QuietWhereabouts ==
    ASSUME TypeOK, QuietStep, NEW c \in Conns, Whereabouts(c)
    PROVE  Whereabouts(c)'
<1>1. PICK n \in 0 .. MaxPdus :
          /\ HandedOn(c, n)
          /\ Between(c, n) \/ Reading(c, n) \/ Left(c) \/ Spent(c) \/ stage = "done"
    BY DEF Whereabouts
<1>2. Total' = Total /\ UNCHANGED <<bodies, taken, header, body, MSGLEN, frames>>
    BY TotalUnchanged DEF QuietStep
<1>3. HandedOn(c, n)'
    BY <1>1, <1>2, HandedOnUnchanged
<1>4. CASE stage' = "done"
    BY <1>3, <1>4 DEF Whereabouts
<1>5. CASE stage' # "done"
  <2>1. (Holding' <=> Holding) /\ (HeaderFrom(c)' <=> HeaderFrom(c)) /\ stage # "done"
      BY <1>2, <1>5 DEF QuietStep, HeaderFrom
  <2>2. CASE Between(c, n)
      BY <1>2, <1>3, <2>1, <2>2 DEF Between, Whereabouts
  <2>3. CASE Reading(c, n)
      BY <1>2, <1>3, <2>1, <2>3 DEF Reading, Whereabouts
  <2>4. CASE Left(c)
    <3>0. c \in Nat /\ reader \in Nat /\ c < reader
        BY <2>4, ConnsAreNumbers DEF Left
    <3>1. c < reader' /\ (stage' \in {"header", "body"} => on' # c)
        BY <2>4, <3>0 DEF QuietStep, Left
    <3>2. Left(c)'
        BY <1>2, <2>1, <2>4, <3>1 DEF Left
    <3> QED
        BY <1>3, <3>2 DEF Whereabouts
  <2>5. CASE Spent(c)
      BY <1>2, <1>3, <2>1, <2>5 DEF QuietStep, Spent, Whereabouts
  <2> QED
      BY <1>1, <2>1, <2>2, <2>3, <2>4, <2>5
<1> QED
    BY <1>4, <1>5
\* A header is read: it is the header of the next PDU of the connection it came from.
LEMMA HeaderWhereabouts ==
    ASSUME TypeOK, HeaderInHand, receive_header, NEW c \in Conns, Whereabouts(c)
    PROVE  Whereabouts(c)'
<1> USE FramingAssumption DEF streams, session, parsing, Await
<1>1. PICK n \in 0 .. MaxPdus :
          /\ HandedOn(c, n)
          /\ Between(c, n) \/ Reading(c, n) \/ Left(c) \/ Spent(c) \/ stage = "done"
    BY DEF Whereabouts
<1>2. Total' = Total /\ UNCHANGED <<bodies, arrived, net, reader, frames>> /\ on' = reader
    BY TotalUnchanged DEF receive_header
<1>3. HandedOn(c, n)'
    BY <1>1, <1>2, HandedOnUnchanged
<1>4. /\ on \in Conns /\ taken[on] \in Nat /\ arrived[on] \in Nat /\ taken[on] + HeaderLen <= arrived[on]
      /\ arrived[on] <= Total[MaxPdus] /\ Total[MaxPdus] \in Nat
  <2>1. Total[MaxPdus] \in Nat
      BY TotalFacts DEF TypeOK
  <2>2. on \in Conns /\ taken[on] \in Nat /\ arrived[on] \in 0 .. Total[MaxPdus]
      BY DEF TypeOK
  <2> QED
      BY <2>1, <2>2 DEF receive_header, Buffered
<1>5. /\ header' = [k \in 1 .. HeaderLen |-> <<on, taken[on] + k>>]
      /\ body' = <<>> /\ Holding' /\ ~Holding /\ stage = "header"
      /\ taken' = [taken EXCEPT ![on] = @ + HeaderLen] /\ taken \in [Conns -> Nat]
      /\ header'[1] = <<on, taken[on] + 1>>
  <2>1. header' = [k \in 1 .. HeaderLen |-> <<on, taken[on] + k>>]
      BY DEF receive_header, NextBytes
  <2>2. header'[1] = <<on, taken[on] + 1>>
      BY <2>1
  <2> QED
      BY <2>1, <2>2 DEF receive_header, Holding, TypeOK
<1>6. CASE on = c
  <2>1. ~Reading(c, n) /\ ~Left(c) /\ stage # "done"
      BY <1>5, <1>6 DEF Reading, Left
  <2>2. ~Spent(c)
      BY <1>4, <1>6 DEF Spent
  <2>3. taken[c] = Total[n]
      BY <1>1, <2>1, <2>2 DEF Between
  <2>4. n < MaxPdus /\ n + 1 \in 1 .. MaxPdus
      BY <1>4, <1>6, <2>3
  <2>5. HeaderOf(header') = {n + 1}
    <3> DEFINE Run(x) == [k \in 1 .. HeaderLen |-> <<c, x + k>>]
    <3>1. bodies \in [1 .. MaxPdus -> Lengths]
        BY DEF TypeOK
    <3>2. ASSUME NEW p \in 1 .. MaxPdus
          PROVE  header' = SubSeq(PduBytes(on, p), 1, HeaderLen) <=> Total[n] = Total[p - 1]
      <4>1. SubSeq(PduBytes(on, p), 1, HeaderLen) = Run(Total[p - 1]) /\ header' = Run(Total[n])
          BY <1>5, <1>6, <2>3, <3>1, PduHeader
      <4>2. p - 1 \in 0 .. MaxPdus /\ Total[n] \in Nat /\ Total[p - 1] \in Nat
        <5>1. p - 1 \in 0 .. MaxPdus /\ n \in 0 .. MaxPdus
            OBVIOUS
        <5> QED
            BY <3>1, <5>1, TotalFacts
      <4>3. Run(Total[p - 1])[1] = <<c, Total[p - 1] + 1>> /\ Run(Total[n])[1] = <<c, Total[n] + 1>>
        <5>1. 1 \in 1 .. HeaderLen
            OBVIOUS
        <5> QED
            BY <5>1
      <4> HIDE DEF Run
      <4>4. ASSUME Run(Total[p - 1]) = Run(Total[n])
            PROVE  Total[n] = Total[p - 1]
        <5>1. <<c, Total[p - 1] + 1>> = <<c, Total[n] + 1>>
            BY <4>3, <4>4
        <5> QED
            BY <4>2, <5>1
      <4> QED
          BY <4>1, <4>4
    <3>3. ASSUME NEW p \in 1 .. MaxPdus
          PROVE  Total[n] = Total[p - 1] <=> p = n + 1
      <4>1. p - 1 \in 0 .. MaxPdus /\ n \in 0 .. MaxPdus
          OBVIOUS
      <4>2. p - 1 # n => Total[p - 1] # Total[n]
          BY <3>1, <4>1, TotalFacts
      <4>3. p = n + 1 => p - 1 = n
          OBVIOUS
      <4> QED
          BY <4>1, <4>2, <4>3
    <3> QED
        BY <2>4, <3>2, <3>3 DEF HeaderOf
  <2>6. MSGLEN' = bodies[n + 1]
      BY <2>5 DEF receive_header, BodyLength
  <2>7. taken'[c] = Total[n] + HeaderLen /\ Len(body') = 0 /\ body' = [k \in 1 .. 0 |-> <<c, Total[n] + HeaderLen + k>>]
      BY <1>5, <1>6, <2>3
  <2>8. Reading(c, n)'
      BY <1>2, <1>5, <1>6, <2>3, <2>4, <2>6, <2>7 DEF Reading
  <2> QED
      BY <1>3, <2>8 DEF Whereabouts
<1>7. CASE on # c
  <2>1. ~HeaderFrom(c)' /\ ~Reading(c, n) /\ taken'[c] = taken[c] /\ stage # "done"
      BY <1>5, <1>7 DEF HeaderFrom, Reading
  <2>2. CASE Between(c, n)
      BY <1>2, <1>3, <2>1, <2>2 DEF Between, Whereabouts
  <2>3. CASE Left(c)
    <3>0. c \in Nat /\ reader \in Nat /\ c < reader
        BY <2>3, ConnsAreNumbers DEF Left
    <3>1. c < reader' /\ on' # c
        BY <1>2, <3>0
    <3>2. Left(c)'
        BY <2>1, <3>1 DEF Left
    <3> QED
        BY <1>3, <3>2 DEF Whereabouts
  <2>4. CASE Spent(c)
      BY <1>2, <1>3, <2>1, <2>4 DEF Spent, Whereabouts
  <2> QED
      BY <1>1, <2>1, <2>2, <2>3, <2>4
<1> QED
    BY <1>6, <1>7

\* A connection closed in the middle of a header: what there was is gone, and there is no more.
LEMMA IncompleteWhereabouts ==
    ASSUME TypeOK, receive_incomplete, NEW c \in Conns, Whereabouts(c)
    PROVE  Whereabouts(c)'
<1> USE DEF streams, session, parsing, Await
<1>1. PICK n \in 0 .. MaxPdus :
          /\ HandedOn(c, n)
          /\ Between(c, n) \/ Reading(c, n) \/ Left(c) \/ Spent(c) \/ stage = "done"
    BY DEF Whereabouts
<1>2. Total' = Total /\ UNCHANGED <<bodies, arrived, net, reader, frames>>
    BY TotalUnchanged DEF receive_incomplete
<1>3. HandedOn(c, n)'
    BY <1>1, <1>2, HandedOnUnchanged
<1>4. /\ ~Holding /\ ~Holding' /\ stage = "header" /\ stage' \notin {"header", "body"}
      /\ taken' = [taken EXCEPT ![on] = arrived[on]] /\ taken \in [Conns -> Nat] /\ net[on] = "eof"
      /\ ~HeaderFrom(c)'
    BY DEF receive_incomplete, Holding, HeaderFrom, TypeOK
<1>5. CASE on = c
    BY <1>2, <1>3, <1>4, <1>5 DEF Spent, Whereabouts
<1>6. CASE on # c
  <2>1. taken'[c] = taken[c] /\ ~Reading(c, n)
      BY <1>4, <1>6 DEF Reading
  <2>2. CASE Between(c, n)
      BY <1>2, <1>3, <1>4, <2>1, <2>2 DEF Between, Whereabouts
  <2>3. CASE Left(c)
      BY <1>2, <1>3, <1>4, <2>3 DEF Left, Whereabouts
  <2>4. CASE Spent(c)
      BY <1>2, <1>3, <1>4, <2>1, <2>4 DEF Spent, Whereabouts
  <2> QED
      BY <1>1, <1>4, <2>1, <2>2, <2>3, <2>4
<1> QED
    BY <1>5, <1>6
\* A chunk is read: the PDU in hand grows by bytes of its own connection, or that
\* connection is left and the one read from is tainted.
LEMMA ChunkWhereabouts ==
    ASSUME TypeOK, HeaderInHand, receive_chunk, NEW c \in Conns, c \notin tainted', Whereabouts(c)
    PROVE  Whereabouts(c)'
<1> USE FramingAssumption DEF streams, session, parsing, Await
<1>1. PICK n \in 0 .. MaxPdus :
          /\ HandedOn(c, n)
          /\ Between(c, n) \/ Reading(c, n) \/ Left(c) \/ Spent(c) \/ stage = "done"
    BY DEF Whereabouts
<1>2. /\ Total' = Total /\ on' = reader
      /\ UNCHANGED <<bodies, arrived, net, reader, frames, header, MSGLEN>>
    BY TotalUnchanged DEF receive_chunk
<1>3. HandedOn(c, n)'
    BY <1>1, <1>2, HandedOnUnchanged
<1>4. ChunkLength \in Nat \ {0}
    BY ChunkFacts DEF receive_chunk
<1> DEFINE chunk == NextBytes(on, ChunkLength)
<1>5. /\ on \in Conns /\ taken[on] \in Nat
      /\ chunk \in Seq(Conns \X Nat) /\ Len(chunk) = ChunkLength
      /\ \A k \in 1 .. ChunkLength : chunk[k] = <<on, taken[on] + k>>
    BY <1>4, NextBytesFacts DEF TypeOK
<1> HIDE DEF chunk
<1>6. body \in Seq(Conns \X Nat) /\ body' = body \o chunk /\ stage = "body" /\ Holding /\ Holding'
    BY DEF receive_chunk, TypeOK, chunk, Holding
<1>7. taken' = [taken EXCEPT ![on] = @ + ChunkLength] /\ taken \in [Conns -> Nat]
    BY DEF receive_chunk, TypeOK
<1>8. /\ body' \in Seq(Conns \X Nat) /\ Len(body') = Len(body) + ChunkLength /\ Len(body) \in Nat
      /\ \A k \in 1 .. Len(body) : body'[k] = body[k]
      /\ \A k \in 1 .. ChunkLength : body'[Len(body) + k] = <<on, taken[on] + k>>
    BY <1>4, <1>5, <1>6
<1>9. HeaderFrom(c)' <=> HeaderFrom(c)
    BY <1>2, <1>6 DEF HeaderFrom
<1>10. CASE on = c
  <2>1. HeaderFrom(c)
      BY <1>6, <1>10 DEF receive_chunk, HeaderFrom
  <2>2. Reading(c, n)
      BY <1>1, <1>6, <1>10, <2>1 DEF Between, Left, Spent
  <2>3. Total[n] \in Nat
      BY TotalFacts DEF TypeOK
  <2>4. taken'[c] = Total[n] + HeaderLen + Len(body')
    <3>1. taken'[c] = taken[c] + ChunkLength
        BY <1>7, <1>10
    <3>2. taken[c] = Total[n] + HeaderLen + Len(body)
        BY <2>2 DEF Reading
    <3> QED
        BY <1>4, <1>8, <2>3, <3>1, <3>2
  <2>5. ASSUME NEW k \in 1 .. Len(body')
        PROVE  body'[k] = <<c, Total[n] + HeaderLen + k>>
    <3>1. CASE k <= Len(body)
      <4>1. body = [j \in 1 .. Len(body) |-> <<c, Total[n] + HeaderLen + j>>]
          BY <2>2 DEF Reading
      <4>2. k \in 1 .. Len(body)
          BY <1>8, <3>1
      <4> QED
          BY <1>8, <4>1, <4>2
    <3>2. CASE k > Len(body)
      <4>1. k - Len(body) \in 1 .. ChunkLength /\ Len(body) + (k - Len(body)) = k
          BY <1>4, <1>8, <3>2
      <4>2. body'[k] = <<on, taken[on] + (k - Len(body))>>
          BY <1>8, <4>1
      <4>3. taken[on] + (k - Len(body)) = Total[n] + HeaderLen + k
        <5>1. taken[on] = Total[n] + HeaderLen + Len(body)
            BY <1>10, <2>2 DEF Reading
        <5> QED
            BY <1>8, <2>3, <5>1
      <4> QED
          BY <1>10, <4>2, <4>3
    <3> QED
        BY <1>8, <3>1, <3>2
  <2>6. body' = [k \in 1 .. Len(body') |-> <<c, Total[n] + HeaderLen + k>>]
      BY <1>8, <2>5
  <2>7. Reading(c, n)'
      BY <1>2, <1>6, <2>2, <2>4, <2>6 DEF Reading
  <2> QED
      BY <1>3, <2>7 DEF Whereabouts
<1>11. CASE on # c
  <2>1. taken'[c] = taken[c] /\ stage # "done"
      BY <1>6, <1>7, <1>11
  <2>2. CASE Between(c, n)
      BY <1>2, <1>3, <1>9, <2>1, <2>2 DEF Between, Whereabouts
  <2>3. CASE Reading(c, n)
    <3>1. header[1] = <<c, Total[n] + 1>>
        BY <2>3 DEF Reading
    <3>2. PICK h \in Conns, x \in Nat :
              h <= on /\ header = [k \in 1 .. HeaderLen |-> <<h, x + k>>]
        BY <1>6 DEF HeaderInHand
    <3>3. header[1] = <<h, x + 1>>
        BY <3>2
    <3>4. h = c
        BY <3>1, <3>3
    <3>5. c < reader /\ on' # c
      <4>1. on <= reader /\ h <= on
          BY <3>2 DEF HeaderInHand
      <4> QED
          BY <1>2, <1>11, <3>4, <4>1, ConnsAreNumbers
    <3>6. Len(body) + 1 \in DOMAIN body' /\ body'[Len(body) + 1][1] # c
      <4>1. DOMAIN body' = 1 .. Len(body) + ChunkLength /\ 1 \in 1 .. ChunkLength
          BY <1>4, <1>8
      <4>2. body'[Len(body) + 1] = <<on, taken[on] + 1>>
          BY <1>8, <4>1
      <4> QED
          BY <1>4, <1>8, <1>11, <4>1, <4>2
    <3>7. Left(c)'
        BY <1>2, <3>5, <3>6 DEF Left
    <3> QED
        BY <1>3, <3>7 DEF Whereabouts
  <2>4. CASE Left(c)
    <3>0. c \in Nat /\ reader \in Nat /\ c < reader
        BY <2>4, ConnsAreNumbers DEF Left
    <3>1. c < reader' /\ on' # c
        BY <1>2, <3>0
    <3>2. HeaderFrom(c)' => \E k \in DOMAIN body' : body'[k][1] # c
      <4> SUFFICES ASSUME HeaderFrom(c)' PROVE \E k \in DOMAIN body' : body'[k][1] # c
          OBVIOUS
      <4>1. PICK k \in DOMAIN body : body[k][1] # c
          BY <1>9, <2>4 DEF Left
      <4>2. k \in 1 .. Len(body) /\ k \in DOMAIN body'
          BY <1>4, <1>6, <1>8
      <4> QED
          BY <1>8, <4>1, <4>2
    <3>3. Left(c)'
        BY <3>1, <3>2 DEF Left
    <3> QED
        BY <1>3, <3>3 DEF Whereabouts
  <2>5. CASE Spent(c)
      BY <1>2, <1>3, <1>9, <2>1, <2>5 DEF Spent, Whereabouts
  <2> QED
      BY <1>1, <2>1, <2>2, <2>3, <2>4, <2>5
<1> QED
    BY <1>10, <1>11
\* A frame is handed on: the next PDU of the connection it was read from, or a frame that
\* is not from c alone.
LEMMA ParseWhereabouts ==
    ASSUME TypeOK, HeaderInHand, receive_parse, NEW c \in Conns, Whereabouts(c)
    PROVE  Whereabouts(c)'
<1> USE FramingAssumption DEF streams, session, parsing, Await
<1>1. PICK n \in 0 .. MaxPdus :
          /\ HandedOn(c, n)
          /\ Between(c, n) \/ Reading(c, n) \/ Left(c) \/ Spent(c) \/ stage = "done"
    BY DEF Whereabouts
<1>2. /\ Total' = Total
      /\ UNCHANGED <<bodies, taken, arrived, net, reader, header, body, MSGLEN, tainted>>
      /\ stage = "parse" /\ Holding /\ ~Holding' /\ ~HeaderFrom(c)' /\ stage' = "loop"
    BY TotalUnchanged DEF receive_parse, Holding, HeaderFrom
<1>3. \A p : PduBytes(c, p)' = PduBytes(c, p)
    BY <1>2 DEF PduBytes
<1> DEFINE frame == header \o body
<1>4. /\ header \in Seq(Conns \X Nat) /\ body \in Seq(Conns \X Nat)
      /\ frames \in Seq(Seq(Conns \X Nat)) /\ frame \in Seq(Conns \X Nat)
      /\ Len(frame) = Len(header) + Len(body)
      /\ \A k \in 1 .. Len(header) : frame[k] = header[k]
      /\ \A k \in 1 .. Len(body) : frame[Len(header) + k] = body[k]
    BY DEF TypeOK
<1> HIDE DEF frame
<1>5. frames' = Append(frames, frame)
    BY DEF receive_parse, frame
<1>6. /\ Len(frames) \in Nat /\ Len(frames') = Len(frames) + 1 /\ DOMAIN frames' = 1 .. Len(frames) + 1
      /\ DOMAIN frames = 1 .. Len(frames)
      /\ frames'[Len(frames) + 1] = frame
      /\ \A i \in 1 .. Len(frames) : frames'[i] = frames[i]
    BY <1>4, <1>5
<1>7. PICK h \in Conns, x \in Nat : header = [k \in 1 .. HeaderLen |-> <<h, x + k>>]
    BY <1>2 DEF HeaderInHand
<1>8. Len(header) = HeaderLen /\ header[1] = <<h, x + 1>> /\ 1 \in 1 .. Len(header)
  <2>1. HeaderLen \in Nat /\ 1 \in 1 .. HeaderLen
      OBVIOUS
  <2> QED
      BY <1>7, <2>1, RunOfBytes
<1> DEFINE Nth(i, p) ==
               /\ frames'[i] = PduBytes(c, p)
               /\ \A q \in 1 .. MaxPdus :
                     (\E j \in 1 .. i - 1 : frames'[j] = PduBytes(c, q)) <=> q < p
<1>old. ASSUME NEW i \in 1 .. Len(frames), From(c, frames'[i])
        PROVE  \E p \in 1 .. n : Nth(i, p)
  <2>1. frames'[i] = frames[i] /\ \A j \in 1 .. i - 1 : frames'[j] = frames[j]
      BY <1>6
  <2>2. PICK p \in 1 .. n :
            /\ frames[i] = PduBytes(c, p)
            /\ \A q \in 1 .. MaxPdus :
                  (\E j \in 1 .. i - 1 : frames[j] = PduBytes(c, q)) <=> q < p
      BY <1>1, <1>6, <1>old, <2>1 DEF HandedOn
  <2> QED
      BY <2>1, <2>2
<1>seen. \A p \in 1 .. n : \E i \in 1 .. Len(frames) : frames'[i] = PduBytes(c, p)
    BY <1>1, <1>6 DEF HandedOn
<1>all. ASSUME NEW m \in 0 .. MaxPdus,
               \A i \in 1 .. Len(frames) + 1 : From(c, frames'[i]) => \E p \in 1 .. m : Nth(i, p),
               \A p \in 1 .. m : \E i \in 1 .. Len(frames) + 1 : frames'[i] = PduBytes(c, p)
        PROVE  HandedOn(c, m)'
  <2>1. (\A p \in 1 .. m : \E i \in DOMAIN frames : frames[i] = PduBytes(c, p))'
    <3>1. ASSUME NEW p \in 1 .. m
          PROVE  \E i \in DOMAIN frames' : frames'[i] = PduBytes(c, p)'
      <4>1. PICK i \in 1 .. Len(frames) + 1 : frames'[i] = PduBytes(c, p)
          BY <1>all
      <4> QED
          BY <1>3, <1>6, <4>1
    <3> QED
        BY <3>1
  <2>2. ASSUME NEW i \in DOMAIN frames', From(c, frames'[i])
        PROVE  \E p \in 1 .. m :
                   /\ frames'[i] = PduBytes(c, p)'
                   /\ \A q \in 1 .. MaxPdus :
                         (\E j \in 1 .. i - 1 : frames'[j] = PduBytes(c, q)') <=> q < p
    <3>1. PICK p \in 1 .. m : Nth(i, p)
        BY <1>6, <1>all, <2>2
    <3> QED
        BY <1>3, <3>1
  <2> QED
      BY <2>1, <2>2 DEF HandedOn, From
<1>9. ASSUME ~From(c, frame)
      PROVE  HandedOn(c, n)'
  <2>1. ASSUME NEW i \in 1 .. Len(frames) + 1, From(c, frames'[i])
        PROVE  \E p \in 1 .. n : Nth(i, p)
    <3>1. i \in 1 .. Len(frames)
        BY <1>6, <1>9, <2>1
    <3> QED
        BY <1>old, <2>1, <3>1
  <2>2. \A p \in 1 .. n : \E i \in 1 .. Len(frames) + 1 : frames'[i] = PduBytes(c, p)
      BY <1>6, <1>seen
  <2> HIDE DEF Nth
  <2> QED
      BY <1>all, <2>1, <2>2
<1>10. CASE Reading(c, n)
  <2>0. /\ bodies \in [1 .. MaxPdus -> Lengths] /\ Total[n] \in Nat
        /\ n + 1 \in 1 .. MaxPdus /\ n + 1 \in 0 .. MaxPdus /\ (n + 1) - 1 = n
        /\ bodies[n + 1] \in Nat /\ Len(body) = bodies[n + 1]
    <3>1. bodies \in [1 .. MaxPdus -> Lengths] /\ Total[n] \in Nat
        BY TotalFacts DEF TypeOK
    <3>2. n + 1 \in 1 .. MaxPdus
        BY <1>10 DEF Reading
    <3>3. bodies[n + 1] \in Nat
        BY <3>1, <3>2
    <3>4. MSGLEN = bodies[n + 1] /\ Len(body) = IF MSGLEN > 0 THEN MSGLEN ELSE 0
        BY <1>2, <1>10 DEF Reading, TypeOK
    <3> QED
        BY <3>1, <3>2, <3>3, <3>4
  <2>1. frame = PduBytes(c, n + 1)
    <3>1. /\ header = [k \in 1 .. HeaderLen |-> <<c, Total[n] + k>>]
          /\ body = [k \in 1 .. Len(body) |-> <<c, Total[n] + HeaderLen + k>>]
        BY <1>10 DEF Reading
    <3>2. Len(frame) = HeaderLen + bodies[n + 1] /\ DOMAIN frame = 1 .. HeaderLen + bodies[n + 1]
        BY <1>4, <1>8, <2>0
    <3>3. ASSUME NEW k \in 1 .. HeaderLen + bodies[n + 1]
          PROVE  frame[k] = <<c, Total[n] + k>>
      <4>1. CASE k <= HeaderLen
        <5>1. k \in 1 .. HeaderLen
            BY <4>1
        <5> QED
            BY <1>4, <1>8, <3>1, <5>1
      <4>2. CASE k > HeaderLen
        <5>1. k - HeaderLen \in 1 .. Len(body) /\ HeaderLen + (k - HeaderLen) = k
            BY <2>0, <4>2
        <5>2. frame[k] = body[k - HeaderLen]
            BY <1>4, <1>8, <5>1
        <5>3. body[k - HeaderLen] = <<c, Total[n] + HeaderLen + (k - HeaderLen)>>
            BY <3>1, <5>1
        <5>4. Total[n] + HeaderLen + (k - HeaderLen) = Total[n] + k
            BY <2>0
        <5> QED
            BY <5>2, <5>3, <5>4
      <4> QED
          BY <2>0, <4>1, <4>2
    <3>4. frame = [k \in 1 .. HeaderLen + bodies[n + 1] |-> <<c, Total[n] + k>>]
        BY <1>4, <3>2, <3>3
    <3> QED
        BY <2>0, <3>4 DEF PduBytes
  <2>2. HandedOn(c, n + 1)'
    <3>1. ASSUME NEW i \in 1 .. Len(frames) + 1, From(c, frames'[i])
          PROVE  \E p \in 1 .. n + 1 : Nth(i, p)
      <4>1. CASE i \in 1 .. Len(frames)
        <5> HIDE DEF Nth
        <5> QED
            BY <1>old, <3>1, <4>1
      <4>2. CASE i = Len(frames) + 1
        <5>1. frames'[i] = PduBytes(c, n + 1) /\ i - 1 = Len(frames)
            BY <1>6, <2>1, <4>2
        <5>2. ASSUME NEW q \in 1 .. MaxPdus, q < n + 1
              PROVE  \E j \in 1 .. Len(frames) : frames'[j] = PduBytes(c, q)
            BY <1>seen, <5>2
        <5>3. ASSUME NEW q \in 1 .. MaxPdus, NEW j \in 1 .. Len(frames), frames'[j] = PduBytes(c, q)
              PROVE  q < n + 1
          <6>1. From(c, frames'[j])
              BY <2>0, <5>3, PduFacts
          <6>2. PICK p \in 1 .. n : frames'[j] = PduBytes(c, p)
              BY <1>old, <6>1
          <6>3. p \in 1 .. MaxPdus /\ PduBytes(c, p) = PduBytes(c, q)
              BY <5>3, <6>2
          <6>4. p = q
              BY <2>0, <6>3, PduFacts
          <6> QED
              BY <6>2, <6>4
        <5>4. Nth(i, n + 1)
            BY <5>1, <5>2, <5>3
        <5> HIDE DEF Nth
        <5> QED
            BY <2>0, <5>4
      <4> QED
          BY <1>6, <4>1, <4>2
    <3>2. ASSUME NEW p \in 1 .. n + 1
          PROVE  \E i \in 1 .. Len(frames) + 1 : frames'[i] = PduBytes(c, p)
      <4>1. CASE p = n + 1
          BY <1>6, <2>1, <4>1
      <4>2. CASE p \in 1 .. n
          BY <1>6, <1>seen, <4>2
      <4> QED
          BY <4>1, <4>2
    <3> HIDE DEF Nth
    <3> QED
        BY <1>all, <2>0, <3>1, <3>2
  <2>3. taken'[c] = Total'[n + 1]
    <3>1. Total[n + 1] = Total[(n + 1) - 1] + HeaderLen + bodies[n + 1]
        BY <2>0, TotalFacts
    <3>2. taken[c] = Total[n] + HeaderLen + Len(body)
        BY <1>10 DEF Reading
    <3> QED
        BY <1>2, <2>0, <3>1, <3>2
  <2> QED
      BY <1>2, <2>0, <2>2, <2>3 DEF Between, Whereabouts
<1>11. CASE ~Reading(c, n)
  <2>1. ~From(c, frame)
    <3>1. CASE ~HeaderFrom(c)
      <4>1. frame[1][1] # c /\ 1 \in DOMAIN frame
          BY <1>2, <1>4, <1>8, <3>1 DEF HeaderFrom
      <4> QED
          BY <4>1 DEF From
    <3>2. CASE HeaderFrom(c)
      <4>1. Left(c)
          BY <1>1, <1>2, <1>11, <3>2 DEF Between, Spent
      <4>2. PICK k \in DOMAIN body : body[k][1] # c
          BY <3>2, <4>1 DEF Left
      <4>3. k \in 1 .. Len(body) /\ Len(header) + k \in DOMAIN frame
        <5>1. Len(body) \in Nat /\ Len(header) \in Nat /\ DOMAIN body = 1 .. Len(body)
            BY <1>4
        <5>2. DOMAIN frame = 1 .. Len(header) + Len(body)
            BY <1>4
        <5> QED
            BY <4>2, <5>1, <5>2
      <4> QED
          BY <1>4, <4>2, <4>3 DEF From
    <3> QED
        BY <3>1, <3>2
  <2>2. HandedOn(c, n)'
      BY <1>9, <2>1
  <2>3. CASE Between(c, n)
      BY <1>2, <2>2, <2>3 DEF Between, Whereabouts
  <2>4. CASE Left(c)
      BY <1>2, <2>2, <2>4 DEF Left, Whereabouts
  <2>5. CASE Spent(c)
      BY <1>2, <2>2, <2>5 DEF Spent, Whereabouts
  <2> QED
      BY <1>1, <1>2, <1>11, <2>3, <2>4, <2>5
<1> QED
    BY <1>10, <1>11
\* Every step keeps the invariant.
LEMMA FramingStep ==
    ASSUME FramingInv, [Next]_vars
    PROVE  FramingInv'
<1>1. TypeOK /\ HeaderInHand
    BY DEF FramingInv
<1>2. TypeOK' /\ HeaderInHand'
    BY <1>1, TypeStep, HeaderStep
<1>3. ASSUME NEW c \in Conns, c \notin tainted'
      PROVE  Whereabouts(c)'
  <2>1. c \notin tainted
    <3>1. tainted \subseteq tainted'
        BY <1>1, QuietSteps
           DEF QuietStep, receive_header, receive_incomplete, receive_chunk, receive_parse, parsing
    <3> QED
        BY <1>3, <3>1
  <2>2. Whereabouts(c)
      BY <2>1 DEF FramingInv
  <2> QED
      BY <1>1, <1>3, <2>2, QuietSteps, QuietWhereabouts, HeaderWhereabouts,
         IncompleteWhereabouts, ChunkWhereabouts, ParseWhereabouts
<1> QED
    BY <1>2, <1>3 DEF FramingInv

\* Whatever the network does and whenever the connection is replaced, the frames
\* handed to _parse_response_pdu from a connection that did not have to finish a PDU of
\* the one before it are that connection's PDUs, whole, in order, none skipped, none twice.
THEOREM FramesExact == Spec => []FramesAreExact
<1>1. Init => FramingInv
  <2> SUFFICES ASSUME Init PROVE FramingInv
      OBVIOUS
  <2>1. TypeOK
      BY InitTyped
  <2>2. on <= reader /\ ~Holding
      BY DEF Init, Holding
  <2>3. ASSUME NEW c \in Conns
        PROVE  Whereabouts(c)
    <3>1. Total[0] = 0
        BY TotalFacts DEF Init
    <3>2. HandedOn(c, 0)
        BY DEF Init, HandedOn
    <3>3. Between(c, 0)
        BY <2>2, <3>1 DEF Init, Between, HeaderFrom
    <3> QED
        BY <3>2, <3>3, FramingAssumption DEF Whereabouts
  <2> QED
      BY <2>1, <2>2, <2>3 DEF FramingInv, HeaderInHand
<1>2. FramingInv /\ [Next]_vars => FramingInv'
    BY FramingStep
<1>3. FramingInv => FramesAreExact
  <2> SUFFICES ASSUME FramingInv, NEW c \in Conns \ tainted, NEW i \in DOMAIN frames,
                      From(c, frames[i])
               PROVE  \E p \in 1 .. MaxPdus :
                          /\ frames[i] = PduBytes(c, p)
                          /\ \A q \in 1 .. MaxPdus :
                                (\E j \in 1 .. i - 1 : frames[j] = PduBytes(c, q)) <=> q < p
      BY DEF FramesAreExact
  <2>1. PICK n \in 0 .. MaxPdus : HandedOn(c, n)
      BY DEF FramingInv, Whereabouts
  <2>2. PICK p \in 1 .. n :
            /\ frames[i] = PduBytes(c, p)
            /\ \A q \in 1 .. MaxPdus :
                  (\E j \in 1 .. i - 1 : frames[j] = PduBytes(c, q)) <=> q < p
      BY <2>1 DEF HandedOn
  <2>3. p \in 1 .. MaxPdus
      BY FramingAssumption
  <2> QED
      BY <2>2, <2>3
<1> QED
    BY <1>1, <1>2, <1>3, PTL DEF Spec
=============================================================================
