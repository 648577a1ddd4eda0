----------------------------- MODULE WireProofs -----------------------------
(***************************************************************************)
(* What Wire's runs check holds whatever the sizes are: of an octet, of    *)
(* texts and ids, and of the log buffer.  Every call is checked            *)
(* where it is made, from what CodecProofs and PduProofs prove for all     *)
(* arguments, not for Wire's choices of them alone.                        *)
(***************************************************************************)
EXTENDS Wire, PduProofs, CodecProofs

-----------------------------------------------------------------------------
(* The breach handler. *)

\* The records the handler is given.
Record == [number : Nat, levelno : Int]

\* The buffer is to since what shown is to due.
BufferInvariant ==
    /\ buffer \in Seq(Record) /\ since \in Seq(Record)
    /\ shown \in Seq(Record) /\ due \in Seq(Record)
    /\ isDeque \in BOOLEAN /\ flushMakesList \in BOOLEAN
    /\ emitted \in Nat
    /\ EndOf(buffer, since)
    /\ buffer = since \/ Len(buffer) >= capacity
    /\ isDeque => Len(buffer) <= capacity
    /\ BreachShowsTheLast

\* A record appended to both sequences, or the first of the shorter one dropped.
LEMMA EndKept ==
  ASSUME NEW part \in Seq(Record), NEW whole \in Seq(Record), EndOf(part, whole), NEW r \in Record
  PROVE  /\ EndOf(Append(part, r), Append(whole, r))
         /\ part # <<>> => EndOf(Tail(part), whole)
  <1>1. /\ Len(part) \in Nat /\ Len(whole) \in Nat
        /\ Len(Append(part, r)) = Len(part) + 1 /\ Len(Append(whole, r)) = Len(whole) + 1
    OBVIOUS
  <1>2. /\ \A i \in 1 .. Len(part) : Append(part, r)[i] = part[i]
        /\ \A i \in 1 .. Len(whole) : Append(whole, r)[i] = whole[i]
        /\ Append(part, r)[Len(part) + 1] = r /\ Append(whole, r)[Len(whole) + 1] = r
    OBVIOUS
  <1>3. EndOf(Append(part, r), Append(whole, r))
    <2> DEFINE p == Append(part, r)
               w == Append(whole, r)
    <2>1. Len(p) = Len(part) + 1 /\ Len(w) = Len(whole) + 1 /\ Len(p) <= Len(w)
      BY <1>1 DEF EndOf
    <2>2. ASSUME NEW i \in 1 .. Len(p) PROVE p[i] = w[Len(w) - Len(p) + i]
      <3>1. CASE i = Len(part) + 1
        BY <1>1, <1>2, <2>1, <3>1
      <3>2. CASE i \in 1 .. Len(part)
        <4>1. Len(whole) - Len(part) + i \in 1 .. Len(whole) /\ Len(w) - Len(p) = Len(whole) - Len(part)
          BY <1>1, <2>1, <3>2 DEF EndOf
        <4>2. p[i] = part[i] /\ part[i] = whole[Len(whole) - Len(part) + i]
          BY <1>2, <3>2 DEF EndOf
        <4>3. QED
          BY <1>2, <4>1, <4>2
      <3>3. QED
        BY <1>1, <2>1, <2>2, <3>1, <3>2
    <2>3. QED
      BY <2>1, <2>2 DEF EndOf
  <1>4. ASSUME part # <<>> PROVE EndOf(Tail(part), whole)
    <2>1. Len(Tail(part)) = Len(part) - 1 /\ Len(part) > 0
      BY <1>4
    <2>2. \A i \in 1 .. Len(part) - 1 : Tail(part)[i] = part[i + 1]
      BY <1>4
    <2> DEFINE t == Tail(part)
    <2>3. Len(t) = Len(part) - 1 /\ \A i \in 1 .. Len(t) : t[i] = part[i + 1]
      BY <1>1, <2>1, <2>2
    <2> HIDE DEF t
    <2>4. ASSUME NEW i \in 1 .. Len(t) PROVE t[i] = whole[Len(whole) - Len(t) + i]
      <3>1. i + 1 \in 1 .. Len(part) /\ Len(whole) - Len(part) + (i + 1) = Len(whole) - Len(t) + i
        BY <1>1, <2>3
      <3>2. part[i + 1] = whole[Len(whole) - Len(part) + (i + 1)]
        BY <3>1 DEF EndOf
      <3>3. QED
        BY <2>3, <3>1, <3>2
    <2>5. Len(t) <= Len(whole)
      BY <1>1, <2>3 DEF EndOf
    <2>6. QED
      BY <2>4, <2>5 DEF EndOf, t
  <1>5. QED
    BY <1>3, <1>4

\* What a record makes of the buffer, whether or not it is severe.
LEMMA BufferedEnds ==
  ASSUME BufferInvariant, NEW r \in Record
  PROVE  /\ Buffered(r) \in Seq(Record) /\ Logged(since, r) \in Seq(Record)
         /\ EndOf(Buffered(r), Logged(since, r))
         /\ Buffered(r) = Logged(since, r) \/ Len(Buffered(r)) >= capacity
         /\ isDeque => Len(Buffered(r)) <= capacity
  <1> USE LogAssumption
  <1>0. buffer \in Seq(Record) /\ since \in Seq(Record) /\ EndOf(buffer, since)
    BY DEF BufferInvariant
  <1>1. CASE ~(r.levelno >= targetLevel)
    <2>1. Logged(buffer, r) = buffer /\ Logged(since, r) = since
      BY <1>1 DEF Logged
    <2>2. Buffered(r) = buffer
      BY <2>1 DEF Buffered, BufferInvariant
    <2>3. QED
      BY <2>1, <2>2 DEF BufferInvariant
  <1>2. CASE r.levelno >= targetLevel
    <2> DEFINE b == Append(buffer, r)
               s == Append(since, r)
    <2>1. Logged(buffer, r) = b /\ Logged(since, r) = s
      BY <1>2 DEF Logged
    <2>2. b \in Seq(Record) /\ s \in Seq(Record) /\ Len(b) = Len(buffer) + 1 /\ b # <<>> /\ EndOf(b, s)
      BY <1>0, EndKept
    <2>3. buffer = since => b = s
      OBVIOUS
    <2>4. CASE isDeque /\ Len(b) > capacity
      <3>1. Buffered(r) = Tail(b)
        BY <2>1, <2>4 DEF Buffered
      <3>2. Tail(b) \in Seq(Record) /\ Len(Tail(b)) = Len(buffer) /\ EndOf(Tail(b), s)
        <4>1. Tail(b) \in Seq(Record) /\ Len(Tail(b)) = Len(buffer)
          BY <1>0, <2>2
        <4> HIDE DEF b, s
        <4>2. EndOf(Tail(b), s)
          BY <2>2, EndKept
        <4>3. QED
          BY <4>1, <4>2
      <3>3. Len(buffer) = capacity
        BY <1>0, <2>2, <2>4 DEF BufferInvariant
      <3>4. QED
        BY <2>1, <2>2, <3>1, <3>2, <3>3
    <2>5. CASE ~(isDeque /\ Len(b) > capacity)
      <3>1. Buffered(r) = b
        BY <2>1, <2>5 DEF Buffered
      <3>2. Len(b) >= capacity \/ b = s
        BY <1>0, <2>2, <2>3 DEF BufferInvariant
      <3>3. isDeque => Len(b) <= capacity
        BY <2>2, <2>5
      <3>4. QED
        BY <2>1, <2>2, <3>1, <3>2, <3>3
    <2>6. QED
      BY <2>4, <2>5
  <1>3. QED
    BY <1>1, <1>2

\* A flush hands on what the buffer and since have become.
LEMMA FlushEnds ==
  ASSUME BufferInvariant, NEW b \in Seq(Record), NEW s \in Seq(Record), EndOf(b, s), flush(b, s),
         b = s \/ Len(b) >= capacity, isDeque => Len(b) <= capacity,
         UNCHANGED flushMakesList, emitted' \in Nat
  PROVE  BufferInvariant'
  <1>1. <<>> \in Seq(Record) /\ EndOf(<<>>, <<>>) /\ Len(<<>>) <= capacity
    BY LogAssumption DEF EndOf
  <1>2. BreachShowsTheLast'
    BY DEF flush, BreachShowsTheLast, BufferInvariant
  <1>3. isDeque' \in BOOLEAN
    BY DEF flush, BufferInvariant
  <1>4. QED
    BY <1>1, <1>2, <1>3 DEF flush, BufferInvariant

\* For every capacity, a breach shows the records that led to it.
LEMMA HandlerShows == LogSpec => []BreachShowsTheLast
  <1>1. LogInit => BufferInvariant
    BY LogAssumption DEF LogInit, BufferInvariant, BreachShowsTheLast, EndOf
  <1>2. BufferInvariant /\ [LogNext]_log_vars => BufferInvariant'
    <2> SUFFICES ASSUME BufferInvariant, [LogNext]_log_vars PROVE BufferInvariant'
      OBVIOUS
    <2>1. CASE emit
      <3>1. PICK levelno \in LogLevels :
               LET record == [number |-> emitted + 1, levelno |-> levelno]
               IN  IF shouldFlush(record)
                   THEN flush(Buffered(record), Logged(since, record))
                   ELSE /\ buffer' = Buffered(record)
                        /\ since' = Logged(since, record)
                        /\ UNCHANGED <<isDeque, shown, due>>
        BY <2>1 DEF emit
      <3> DEFINE record == [number |-> emitted + 1, levelno |-> levelno]
      <3>2. record \in Record
        BY LogAssumption DEF Record, BufferInvariant
      <3>3. emitted' \in Nat /\ UNCHANGED flushMakesList
        BY <2>1 DEF emit, BufferInvariant
      <3> HIDE DEF record
      <3>4. CASE shouldFlush(record)
        <4>1. flush(Buffered(record), Logged(since, record))
          BY <3>1, <3>4 DEF record
        <4>2. QED
          BY <3>2, <3>3, <4>1, BufferedEnds, FlushEnds
      <3>5. CASE ~shouldFlush(record)
        <4>1. /\ buffer' = Buffered(record) /\ since' = Logged(since, record)
              /\ UNCHANGED <<isDeque, shown, due>>
          BY <3>1, <3>5 DEF record
        <4>2. QED
          BY <3>2, <3>3, <4>1, BufferedEnds DEF BufferInvariant, BreachShowsTheLast
      <3>6. QED
        BY <3>4, <3>5
    <2>2. CASE close
      <3>1. CASE flushOnClose
        BY <2>2, <3>1, FlushEnds DEF close, BufferInvariant
      <3>2. CASE ~flushOnClose
        BY <2>2, <3>2 DEF close, BufferInvariant, BreachShowsTheLast
      <3>3. QED
        BY <3>1, <3>2
    <2>3. CASE UNCHANGED log_vars
      BY <2>3 DEF log_vars, BufferInvariant, BreachShowsTheLast
    <2>4. QED
      BY <2>1, <2>2, <2>3 DEF LogNext
  <1>3. BufferInvariant => BreachShowsTheLast
    BY DEF BufferInvariant
  <1>4. QED
    BY <1>1, <1>2, <1>3, PTL DEF LogSpec

\* The calls leave the handler alone.
LEMMA WireLogs == Spec => LogSpec
  <1>1. Init => LogInit
    BY DEF Init
  <1>2. [Next]_<<call, log_vars>> => [LogNext]_log_vars
    BY DEF Next
  <1>3. QED
    BY <1>1, <1>2, PTL DEF Spec, LogSpec

\* Beside everything else that logs, a breach shows the records that led to it.
THEOREM BreachShown == Spec => []BreachShowsTheLast
BY WireLogs, HandlerShows

-----------------------------------------------------------------------------
(* Calls. *)

\* A step makes a call, forgets the last one or leaves it as it is.
LEMMA CallStep ==
    ASSUME [Next]_<<call, log_vars>>
    PROVE  call' = call \/ call' = Idle \/ Call
BY DEF Next, call_over

\* The calls that build a PDU, and the others, by the name of the call.
LEMMA Calls ==
    ASSUME Call
    PROVE  \/ build_bind /\ call'.op = "bind_transceiver"
           \/ build_submit /\ call'.op = "submit_sm"
           \/ receive_report /\ call'.op = "deliver_sm" /\ "pdu" \notin DOMAIN call'
           \/ find_command /\ call'.op = "command_id" /\ "pdu" \notin DOMAIN call'
           \/ find_status /\ call'.op = "command_status" /\ "pdu" \notin DOMAIN call'
           \/ gsm_encode /\ call'.op = "encode" /\ "pdu" \notin DOMAIN call'
<1>1. CASE build_bind
    BY <1>1 DEF build_bind, Built
<1>2. CASE build_submit
    BY <1>2 DEF build_submit, Built
<1>3. CASE receive_report
  <2>1. PICK answered, id, start, body, after, found :
            call' = [op |-> "deliver_sm", answered |-> answered, id |-> id, start |-> start, body |-> body,
                     after |-> after, found |-> found]
      BY <1>3, ZenonT(40) DEF receive_report
  <2> QED
      BY <1>3, <2>1
<1>4. CASE find_command
    BY <1>4 DEF find_command
<1>5. CASE find_status
    BY <1>5 DEF find_status
<1>6. CASE gsm_encode
  <2>1. PICK text, errors, ok, bytes :
            call' = [op |-> "encode", text |-> text, errors |-> errors, ok |-> ok, bytes |-> bytes]
      BY <1>6, Zenon DEF gsm_encode
  <2> QED
      BY <1>6, <2>1
<1> QED
    BY <1>1, <1>2, <1>3, <1>4, <1>5, <1>6 DEF Call

-----------------------------------------------------------------------------
(* The GSM alphabet. *)

\* A text of any length, encoded and decoded, is what it was, but for the escape
\* character: GSM7BitCodec.encode and decode, under every error handler.
THEOREM GsmAlphabet == Spec => []GsmReadsBack
<1>1. Init => GsmReadsBack
    BY DEF Init, Idle, GsmReadsBack
<1>2. GsmReadsBack /\ [Next]_<<call, log_vars>> => GsmReadsBack'
  <2> SUFFICES ASSUME GsmReadsBack, [Next]_<<call, log_vars>>
               PROVE  GsmReadsBack'
      OBVIOUS
  <2>1. CASE call' = call \/ call' = Idle
      BY <2>1 DEF GsmReadsBack, Idle
  <2>2. CASE Call /\ ~gsm_encode
      BY <2>2, Calls DEF GsmReadsBack
  <2>3. CASE gsm_encode
    <3>0. PICK n \in 0 .. MaxText : \E text \in [1 .. n -> Characters],
                     errors \in {"strict", "ignore", "replace", "other"} :
              call' = [op |-> "encode", text |-> text, errors |-> errors,
                       ok |-> ~EncodeRaises(text, errors), bytes |-> encode(text, errors)]
        BY <2>3 DEF gsm_encode
    <3>1. PICK text \in [1 .. n -> Characters], errors \in {"strict", "ignore", "replace", "other"} :
              call' = [op |-> "encode", text |-> text, errors |-> errors,
                       ok |-> ~EncodeRaises(text, errors), bytes |-> encode(text, errors)]
        BY <3>0
    <3>2. text \in Seq(Characters)
        BY WireAssumption, FunctionIsSeq
    <3>3. call'.text = text /\ call'.errors = errors /\ call'.bytes = encode(text, errors)
        BY <3>1
    <3> QED
        BY <3>2, <3>3, GsmCodec DEF GsmReadsBack
  <2> QED
      BY <2>1, <2>2, <2>3, CallStep DEF Call
<1> QED
    BY <1>1, <1>2, PTL DEF Spec

-----------------------------------------------------------------------------
(* Delivery reports. *)

\* Wire's choices are such values.
LEMMA ChoicesTyped ==
    ASSUME NEW names, NEW f \in FieldChoices(names)
    PROVE  f = [n \in names |-> f[n]] /\ DOMAIN f = names /\ \A n \in names : f[n] \in FieldValue(n)
<1>0. Byte \in Nat /\ Byte > 8
    BY PduAssumption
<1>a. <<>> \in Seq(Nat \ {0}) /\ <<5, 6>> \in Seq(Nat \ {0}) /\ <<5, Byte>> \in Seq(Nat \ {0})
    BY <1>0
<1>b. <<0>> \in {<<v>> : v \in Nat} /\ <<5>> \in {<<v>> : v \in Nat}
    OBVIOUS
<1>c. <<Byte - 1>> \in {<<v>> : v \in Nat} /\ <<Byte>> \in {<<v>> : v \in Nat}
  <2>1. Byte - 1 \in Nat
      BY <1>0
  <2> QED
      BY <1>0, <2>1
<1>1. ASSUME NEW n PROVE Empty(n) \in FieldValue(n)
    BY <1>a, <1>b, Zenon DEF Empty, FieldValue, AnInt
<1>2. ASSUME NEW n, NEW v \in Values(n) PROVE v \in FieldValue(n)
    BY <1>a, <1>b, <1>c, Zenon DEF Values, FieldValue, AnInt
<1>3. PICK name \in names : f \in {[n \in names |-> IF n = name THEN v ELSE Empty(n)] : v \in Values(name)}
    BY DEF FieldChoices
<1>4. PICK v \in Values(name) : f = [n \in names |-> IF n = name THEN v ELSE Empty(n)]
    BY <1>3
<1> QED
    BY <1>1, <1>2, <1>4

\* Wire's other option: its tag, Length and value.
LEMMA OtherTlvIs ==
    ASSUME NEW o \in OtherTlvs
    PROVE  /\ o \in Seq(Int)
           /\ o = <<>> \/ /\ Len(o) = 5 /\ o[1] = 1 /\ o[2] = 7
                           /\ o[3] = 0 /\ o[4] = 1 /\ o[5] = 2
<1>1. CASE o = <<>>
    BY <1>1
<1>2. CASE o # <<>>
  <2>0. Byte \in Nat /\ Byte > 8
      BY PduAssumption
  <2>1. (Byte + 7) \div Byte = 1 /\ 1 % Byte = 1 /\ (Byte + 7) % Byte = 7
      BY <2>0
  <2>2. 1 \div Byte = 0 /\ 0 % Byte = 0
      BY <2>0
  <2>3. Pack(Byte + 7, 2) = <<1, 7>> /\ Pack(1, 2) = <<0, 1>>
      BY <2>1, <2>2 DEF Pack
  <2> DEFINE four == <<1, 7>> \o <<0, 1>>
  <2>4. o = four \o <<2>>
      BY <1>2, <2>3 DEF OtherTlvs
  <2>5. four \in Seq(Int) /\ Len(four) = 4 /\ four[1] = 1 /\ four[2] = 7 /\ four[3] = 0 /\ four[4] = 1
    <3>1. Joined(four, <<1, 7>>, <<0, 1>>) /\ Len(<<1, 7>>) = 2 /\ Len(<<0, 1>>) = 2
        BY DEF Joined
    <3> QED
        BY <3>1
  <2> HIDE DEF four
  <2> DEFINE last == <<2>>
  <2>6. Joined(o, four, last) /\ Len(last) = 1 /\ last[1] = 2
      BY <2>4, <2>5 DEF Joined
  <2> HIDE DEF last
  <2>7. /\ o \in Seq(Int) /\ Len(o) = Len(four) + Len(last)
        /\ \A i \in 1 .. Len(four) : o[i] = four[i]
    <3>1. o \in Seq(Int) /\ Len(o) = Len(four) + Len(last)
        BY <2>6, JoinedTyped, Zenon
    <3>2. \A i \in 1 .. Len(four) : o[i] = four[i]
        BY <2>6, JoinedFirst
    <3> QED
        BY <3>1, <3>2
  <2>8. Len(o) = 5 /\ o[5] = 2
    <3>1. \A i \in 1 .. Len(last) : o[Len(four) + i] = last[i]
        BY <2>6, JoinedSecond
    <3>2. 1 \in 1 .. Len(last) /\ Len(four) + 1 = 5
        BY <2>5, <2>6
    <3>3. o[Len(four) + 1] = last[1]
        BY <3>1, <3>2, Zenon
    <3> QED
        BY <2>5, <2>6, <2>7, <3>2, <3>3
  <2>9. o[1] = 1 /\ o[2] = 7 /\ o[3] = 0 /\ o[4] = 1
      BY <2>5, <2>7
  <2> QED
      BY <2>7, <2>8, <2>9
<1> QED
    BY <1>1, <1>2

\* Of a deliver_sm without a receipted_message_id, that does not spell its tag, no id is
\* found.
LEMMA NoReceipt ==
    ASSUME NEW start, NEW after \in OtherTlvs, NEW body, Joined(body, start, after),
           \A i \in Places(body, Pack(ReceiptTag, 2)) : ~(i <= Len(start))
    PROVE  ReceiptedIds(body) = {}
<1> DEFINE n == Len(start)
<1>1. /\ after \in Seq(Int)
      /\ after = <<>> \/ /\ Len(after) = 5 /\ after[1] = 1 /\ after[2] = 7
                         /\ after[3] = 0 /\ after[4] = 1 /\ after[5] = 2
    BY OtherTlvIs
<1>2. /\ body \in Seq(Int) /\ n \in Nat /\ Len(body) = n + Len(after)
      /\ \A i \in 1 .. Len(after) : body[n + i] = after[i]
    BY JoinedIs, SMT
<1>3. ReceiptTag \in Int /\ ReceiptTag # 1
    BY PduAssumption
<1>4. ASSUME NEW i \in Places(body, Pack(ReceiptTag, 2))
      PROVE  FALSE
  <2>1. i \in 1 .. Len(body) - 1 /\ body[i] = 0 /\ body[i + 1] = ReceiptTag
      BY <1>2, <1>4, TagPlaces
  <2>2. i > n
      BY <1>2, <2>1
  <2> HIDE DEF n
  <2>3. CASE after = <<>>
      BY <1>2, <2>1, <2>2, <2>3
  <2>4. CASE Len(after) = 5
    <3>1. i = n + 1 \/ i = n + 2 \/ i = n + 3 \/ i = n + 4
        BY <1>2, <2>1, <2>2, <2>4
    <3>2. body[n + 1] = after[1] /\ body[n + 2] = after[2] /\ body[n + 3] = after[3] /\ body[n + 4] = after[4]
        BY <1>2, <2>4
    <3>3. (n + 3) + 1 = n + 4
        BY <1>2
    <3>4. after # <<>>
        BY <2>4
    <3>5. body[n + 1] # 0 /\ body[n + 2] # 0 /\ body[(n + 3) + 1] # ReceiptTag
      <4>1. after[1] = 1 /\ after[2] = 7 /\ after[4] = 1
          BY <1>1, <3>4, Zenon
      <4> QED
          BY <1>3, <3>2, <3>3, <4>1
    <3>6. body[n + 4] # 0
      <4>1. after[4] = 1
          BY <1>1, <3>4, Zenon
      <4> QED
          BY <3>2, <4>1
    <3> QED
        BY <2>1, <3>1, <3>5, <3>6, Zenon
  <2> QED
      BY <1>1, <2>3, <2>4
<1> QED
    BY <1>4 DEF ReceiptedIds

\* And all that comes before the receipted_message_id.
LEMMA StartTyped ==
    ASSUME NEW f \in DeliverFields, NEW m \in DeliverMessages, NEW before \in OtherTlvs
    PROVE  DeliverStart(f, m) \o before \in Seq(Int)
<1>1. f \in FieldChoices(SubmitFields \cup {"data_coding"})
    BY DEF DeliverFields
<1>2. SubmitOrder \in Seq(Range(SubmitOrder))
    BY DEF SubmitOrder, Range
<1>3. \A i \in 1 .. Len(SubmitOrder) : SubmitOrder[i] \in SubmitFields \cup {"data_coding"}
    BY <1>2 DEF SubmitFields, Range
<1>4. \A i \in 1 .. Len(SubmitOrder) : f[SubmitOrder[i]] \in FieldValue(SubmitOrder[i])
    BY <1>1, <1>3, ChoicesTyped
<1>5. Mandatory(SubmitOrder, f) \in Seq(Int)
    BY <1>2, <1>4, MandatoryTyped
<1>6. m \in Seq(Int)
  <2>1. CASE m \in {Repeat(5, n) : n \in 0 .. ReceiptTag + 1}
      BY <2>1, PduAssumption DEF Repeat
  <2>2. CASE m = <<5, 0>> \o Pack(ReceiptTag, 2)
    <3>1. <<0, ReceiptTag>> \in Seq(Int) /\ <<5, 0>> \in Seq(Int)
        BY PduAssumption
    <3>2. m = <<5, 0>> \o <<0, ReceiptTag>>
        BY <2>2, TagPacked, Zenon DEF Tag
    <3> QED
        BY <3>1, <3>2
  <2> QED
      BY <2>1, <2>2 DEF DeliverMessages
<1>7. Pack(Len(m), 1) \in Seq(Int)
  <2>1. Len(m) \in Nat
      BY <1>6
  <2>2. Pack(Len(m), 1) \in Seq(Nat)
      BY <2>1, OneOctet
  <2> HIDE DEF DeliverMessages
  <2> QED
      BY <2>2
<1>8. before \in Seq(Int)
    BY OtherTlvIs
<1>9. ASSUME NEW a \in Seq(Int), NEW b \in Seq(Int), NEW c \in Seq(Int), NEW d \in Seq(Int)
      PROVE  (a \o b \o c) \o d \in Seq(Int)
    OBVIOUS
<1> QED
    BY <1>5, <1>6, <1>7, <1>8, <1>9, Zenon DEF DeliverStart

\* A delivery report is matched with its message, whatever the ids and the octets before
\* the receipted_message_id, on the two conditions of ReportIsMatched: the search in
\* command_handlers, for ids of every length below MaxIdLen.
THEOREM ReportMatched == Spec => []ReportIsMatched
<1>1. Init => ReportIsMatched
    BY DEF Init, Idle, ReportIsMatched
<1>2. ReportIsMatched /\ [Next]_<<call, log_vars>> => ReportIsMatched'
  <2> SUFFICES ASSUME ReportIsMatched, [Next]_<<call, log_vars>>
               PROVE  ReportIsMatched'
      OBVIOUS
  <2>1. CASE call' = call \/ call' = Idle
      BY <2>1 DEF ReportIsMatched, Idle
  <2>2. CASE Call /\ ~receive_report
      BY <2>2, Calls DEF ReportIsMatched
  <2>3. CASE receive_report
    <3>1. PICK f \in DeliverFields, m \in DeliverMessages, id \in Ids, before \in OtherTlvs, after \in OtherTlvs :
              LET start == DeliverStart(f, m) \o before
                  receipt == IF id = <<>> THEN <<>> ELSE ReceiptTlv(id)
              IN  call' = [op |-> "deliver_sm", answered |-> SmscMessageId(id \o NUL), id |-> id,
                           start |-> start, body |-> start \o receipt \o after, after |-> after,
                           found |-> ReceiptedIds(start \o receipt \o after)]
        BY <2>3 DEF receive_report
    <3> DEFINE start == DeliverStart(f, m) \o before
               receipt == IF id = <<>> THEN <<>> ELSE ReceiptTlv(id)
               body == (start \o receipt) \o after
    <3>2. start \in Seq(Int) /\ after \in Seq(Int)
        BY StartTyped, OtherTlvIs
    <3> HIDE DEF start
    <3>3. call' = [op |-> "deliver_sm", answered |-> SmscMessageId(id \o NUL), id |-> id,
                   start |-> start, body |-> body, after |-> after, found |-> ReceiptedIds(body)]
        BY <3>1 DEF start
    <3>4. id \in Seq(Int)
      <4>1. CASE id = <<>>
          BY <4>1
      <4>2. CASE id \in UNION {[1 .. n -> {ReceiptTag, 9}] : n \in 1 .. MaxIdLen}
        <5>1. PICK n \in 1 .. MaxIdLen : id \in [1 .. n -> {ReceiptTag, 9}]
            BY <4>2
        <5>2. n \in Nat /\ id \in [1 .. n -> Int]
            BY <5>1, PduAssumption
        <5> QED
            BY <5>2
      <4> QED
          BY <4>1, <4>2 DEF Ids
    <3>5. ReceiptTlv(id) \in Seq(Int)
        BY <3>4, ReceiptSpelt, JoinedIs
    <3>6. id # <<>> /\ after = <<>> => Joined(body, start, ReceiptTlv(id))
      <4> SUFFICES ASSUME id # <<>>, after = <<>> PROVE Joined(body, start, ReceiptTlv(id))
          OBVIOUS
      <4>1. body = (start \o ReceiptTlv(id)) \o <<>>
          OBVIOUS
      <4>2. ASSUME NEW x \in Seq(Int), NEW y \in Seq(Int) PROVE (x \o y) \o <<>> = x \o y
          OBVIOUS
      <4> QED
          BY <3>2, <3>5, <4>1, <4>2, Zenon DEF Joined
    <3>7. id = <<>> => Joined(body, start, after)
      <4>1. ASSUME NEW x \in Seq(Int) PROVE x \o <<>> = x
          OBVIOUS
      <4> QED
          BY <3>2, <4>1 DEF Joined
    <3> HIDE DEF body
    <3>8. /\ call'.op = "deliver_sm" /\ call'.answered = SmscMessageId(id \o NUL) /\ call'.id = id
          /\ call'.start = start /\ call'.body = body /\ call'.after = after /\ call'.found = ReceiptedIds(body)
        BY <3>3
    <3> SUFFICES ASSUME {i \in Places(body, Pack(ReceiptTag, 2)) : i <= Len(start)} = {}
                 PROVE  /\ id # <<>> /\ after = <<>> /\ Len(id) < MaxIdLen =>
                                ReceiptedIds(body) = {SmscMessageId(id \o NUL)}
                        /\ id = <<>> => ReceiptedIds(body) = {}
        BY <3>8, Zenon DEF ReportIsMatched
    <3>9. \A i \in Places(body, Pack(ReceiptTag, 2)) : ~(i <= Len(start))
        OBVIOUS
    <3> QED
        BY <3>4, <3>6, <3>7, <3>9, ReceiptFound, NoReceipt
  <2> QED
      BY <2>1, <2>2, <2>3, CallStep DEF Call
<1> QED
    BY <1>1, <1>2, PTL DEF Spec

-----------------------------------------------------------------------------
(* Messages. *)

\* Wire's options are options.
LEMMA OptionChoicesTyped ==
    ASSUME NEW o \in OptionChoices
    PROVE  /\ o = [n \in DOMAIN o |-> o[n]] /\ DOMAIN o \subseteq Options
           /\ \A n \in DOMAIN o : o[n] \in OptionValue(n)
<1>0. Byte \in Nat /\ Byte > 8 /\ Byte + 2 \in Nat /\ Byte * Byte \in Nat
    BY PduAssumption
<1>1. Options = {"source_port", "message_payload", "callback_num", "callback_num_pres_ind",
                 "alert_on_message_delivery"}
    BY DEF Options, OptionOrder, Range
<1>2. PICK given \in SUBSET Options :
          o \in {f \in [given -> UNION {OptionValues(n) : n \in given}] : \A n \in given : f[n] \in OptionValues(n)}
    BY DEF OptionChoices
<1>3. o = [n \in given |-> o[n]] /\ DOMAIN o = given /\ \A n \in given : o[n] \in OptionValues(n)
    BY <1>2
<1>4. ASSUME NEW n \in Options, NEW v \in OptionValues(n)
      PROVE  v \in OptionValue(n)
  <2>1. CASE n = "source_port"
      BY <1>0, <1>4, <2>1 DEF OptionValues, OptionValue, TextOptions, AnInt
  <2>2. CASE n = "message_payload"
    <3>1. Repeat(5, Byte) \in Seq(Nat) /\ <<>> \in Seq(Nat) /\ <<5, 6>> \in Seq(Nat)
        BY <1>0 DEF Repeat
    <3>2. v \in {<<>>, <<5, 6>>, Repeat(5, Byte)}
        BY <1>4, <2>2 DEF OptionValues
    <3>3. OptionValue(n) = Seq(Nat)
        BY <2>2 DEF OptionValue, TextOptions
    <3> QED
        BY <3>1, <3>2, <3>3
  <2>3. CASE n = "callback_num"
    <3>1. v = <<9>>
        BY <1>4, <2>3 DEF OptionValues
    <3>2. <<9>> \in Seq(Nat) /\ OptionValue(n) = Seq(Nat)
        BY <2>3 DEF OptionValue, TextOptions
    <3> QED
        BY <3>1, <3>2
  <2>4. CASE n = "callback_num_pres_ind"
      BY <1>0, <1>4, <2>4 DEF OptionValues, OptionValue, TextOptions, AnInt
  <2>5. CASE n = "alert_on_message_delivery"
      BY <1>4, <2>5 DEF OptionValues, OptionValue, TextOptions, AnInt
  <2> QED
      BY <1>1, <2>1, <2>2, <2>3, <2>4, <2>5
<1> QED
    BY <1>2, <1>3, <1>4

\* Wire's messages are messages.
LEMMA MessagesTyped ==
    ASSUME NEW m \in Messages
    PROVE  IsMessage(m)
<1>0. Byte \in Nat /\ Byte > 8 /\ Byte - 1 \in Nat
    BY PduAssumption
<1>1. ASSUME NEW sm \in ShortMessages PROVE sm \in Seq(Nat)
  <2>1. Repeat(5, Byte) \in Seq(Nat) /\ Repeat(5, Byte - 1) \in Seq(Nat)
      BY <1>0 DEF Repeat
  <2>2. <<>> \in Seq(Nat) /\ <<0>> \in Seq(Nat) /\ <<5, 0>> \in Seq(Nat)
      OBVIOUS
  <2> QED
      BY <1>1, <2>1, <2>2 DEF ShortMessages
<1>2. CASE \E f \in FieldChoices(SubmitFields), o \in {NoEntries, With(NoEntries, "callback_num", <<9>>)},
              e \in Encodings, sm \in ShortMessages : m = SubmitSM(f, o, e, sm)
  <2>1. PICK f \in FieldChoices(SubmitFields), o \in {NoEntries, With(NoEntries, "callback_num", <<9>>)},
             e \in Encodings, sm \in ShortMessages : m = SubmitSM(f, o, e, sm)
      BY <1>2
  <2>2. f = [n \in SubmitFields |-> f[n]] /\ \A n \in SubmitFields : f[n] \in FieldValue(n)
      BY ChoicesTyped
  <2>3. /\ o = [n \in DOMAIN o |-> o[n]] /\ DOMAIN o \subseteq Options
        /\ \A n \in DOMAIN o : o[n] \in OptionValue(n)
    <3>1. CASE o = NoEntries
        BY <3>1 DEF NoEntries
    <3>2. CASE o = With(NoEntries, "callback_num", <<9>>)
      <4>1. o = [n \in {"callback_num"} |-> <<9>>]
          BY <3>2 DEF With, NoEntries
      <4>2. <<9>> \in OptionValue("callback_num")
          BY DEF OptionValue, TextOptions
      <4>3. "callback_num" \in Options
          BY DEF Options, OptionOrder, Range
      <4> QED
          BY <4>1, <4>2, <4>3
    <3> QED
        BY <3>1, <3>2
  <2> QED
      BY <1>1, <2>1, <2>2, <2>3, SubmitSMIs
<1>3. CASE \E o \in OptionChoices, sm \in ShortMessages :
              m = SubmitSM([n \in SubmitFields |-> Empty(n)], o, "gsm0338", sm)
  <2>1. PICK o \in OptionChoices, sm \in ShortMessages :
             m = SubmitSM([n \in SubmitFields |-> Empty(n)], o, "gsm0338", sm)
      BY <1>3
  <2> DEFINE f == [n \in SubmitFields |-> Empty(n)]
  <2>2. f = [n \in SubmitFields |-> f[n]] /\ \A n \in SubmitFields : f[n] \in FieldValue(n)
    <3>1. ASSUME NEW n PROVE Empty(n) \in FieldValue(n)
      <4>1. <<>> \in Seq(Nat \ {0}) /\ <<0>> \in {<<v>> : v \in Nat}
          OBVIOUS
      <4> QED
          BY <4>1, Zenon DEF Empty, FieldValue, AnInt
    <3> QED
        BY <3>1
  <2>3. /\ o = [n \in DOMAIN o |-> o[n]] /\ DOMAIN o \subseteq Options
        /\ \A n \in DOMAIN o : o[n] \in OptionValue(n)
      BY OptionChoicesTyped
  <2>4. "gsm0338" \in Encodings
      BY DEF Encodings
  <2> HIDE DEF f
  <2> QED
      BY <1>1, <2>1, <2>2, <2>3, <2>4, SubmitSMIs DEF f
<1> QED
    BY <1>2, <1>3 DEF Messages

\* What build_submit calls: a message, as it is or after JSON, which makes no difference.
LEMMA SubmitCall ==
    ASSUME build_submit
    PROVE  \E m \in Messages : \E s, ok :
               /\ call' = [op |-> "submit_sm", message |-> m, ok |-> ok, pdu |-> _build_submit_sm_pdu(m, s)]
               /\ IsMessage(m) /\ (ok => SubmitFits(m))
<1>1. PICK m \in Messages, s \in {1, max_sequence_number + 1}, json \in BOOLEAN :
          LET dequeued == IF json THEN from_json(to_json(m)) ELSE m
          IN  Built("submit_sm", m, SubmitFits(dequeued) /\ Numbered(s), _build_submit_sm_pdu(dequeued, s))
    BY DEF build_submit
<1>2. IsMessage(m)
    BY MessagesTyped
<1>3. (IF json THEN from_json(to_json(m)) ELSE m) = m
    BY <1>2, JsonRoundTrip
<1>4. Built("submit_sm", m, SubmitFits(m) /\ Numbered(s), _build_submit_sm_pdu(m, s))
    BY <1>1, <1>3
<1> QED
    BY <1>2, <1>4 DEF Built

\* The SMSC reads the fields of a bind_transceiver and of a submit_sm and the
\* short_message as the user gave them, by way of JSON or not: Client.tranceiver_bind and
\* Client._build_submit_sm_pdu, after the broker's SubmitSM.from_json.
THEOREM FieldsSurvive == Spec => []FieldsReadBack
<1>1. Init => FieldsReadBack
    BY DEF Init, Idle, FieldsReadBack
<1>2. FieldsReadBack /\ [Next]_<<call, log_vars>> => FieldsReadBack'
  <2> SUFFICES ASSUME FieldsReadBack, [Next]_<<call, log_vars>>
               PROVE  FieldsReadBack'
      OBVIOUS
  <2>1. CASE call' = call \/ call' = Idle
    <3>1. CASE call' = call
        BY <3>1, Zenon DEF FieldsReadBack
    <3>2. CASE call' = Idle
        BY <3>2 DEF FieldsReadBack, Idle
    <3> QED
        BY <2>1, <3>1, <3>2
  <2>2. CASE build_bind
    <3>1. PICK f \in FieldChoices(Range(BindOrder)), s \in {1, max_sequence_number, max_sequence_number + 1} :
              Built("bind_transceiver", f, BindFits(f) /\ Numbered(s), tranceiver_bind(f, s))
        BY <2>2 DEF build_bind
    <3>2. /\ call'.op = "bind_transceiver" /\ call'.message = f
          /\ call'.pdu = tranceiver_bind(f, s) /\ (call'.ok => BindFits(f))
        BY <3>1 DEF Built
    <3>3. BindFits(f) => Read(SmppBind, tranceiver_bind(f, s).body) = [fields |-> f, rest |-> <<>>]
      <4>1. f = [n \in Range(BindOrder) |-> f[n]] /\ \A n \in Range(BindOrder) : f[n] \in FieldValue(n)
          BY ChoicesTyped
      <4> QED
          BY <4>1, BindRead
    <3> QED
        BY <3>2, <3>3 DEF FieldsReadBack
  <2>3. CASE build_submit
    <3>1. PICK m \in Messages : \E s, ok :
              /\ call' = [op |-> "submit_sm", message |-> m, ok |-> ok, pdu |-> _build_submit_sm_pdu(m, s)]
              /\ IsMessage(m) /\ (ok => SubmitFits(m))
        BY <2>3, SubmitCall
    <3>2. PICK s, ok :
              /\ call' = [op |-> "submit_sm", message |-> m, ok |-> ok, pdu |-> _build_submit_sm_pdu(m, s)]
              /\ IsMessage(m) /\ (ok => SubmitFits(m))
        BY <3>1
    <3>3. /\ call'.op = "submit_sm" /\ call'.message = m
          /\ call'.pdu = _build_submit_sm_pdu(m, s) /\ (call'.ok => SubmitFits(m))
        BY <3>2
    <3>4. SubmitFits(m) =>
              /\ ReadSubmit(_build_submit_sm_pdu(m, s).body).fields = m.fields
              /\ ReadSubmit(_build_submit_sm_pdu(m, s).body).short_message = m.short_message
      <4>1. SubmitFits(m) =>
                ReadSubmit(_build_submit_sm_pdu(m, s).body)
                    = [fields |-> m.fields, short_message |-> m.short_message, options |-> OptionalParams(m.options)]
          BY <3>2, SubmitRead, Zenon
      <4> QED
          BY <4>1
    <3> QED
        BY <3>3, <3>4 DEF FieldsReadBack
  <2>4. CASE Call /\ ~build_bind /\ ~build_submit
      BY <2>4, Calls DEF FieldsReadBack
  <2> QED
      BY <2>1, <2>2, <2>3, <2>4, CallStep
<1> QED
    BY <1>1, <1>2, PTL DEF Spec

\* The SMSC reads the options of every submit_sm that the client builds, by way of JSON
\* or not; one that goes by the Length alone reads them where no text is sent.
THEOREM OptionsSurvive == Spec => []OptionsReadBack
<1>1. Init => OptionsReadBack
    BY DEF Init, Idle, OptionsReadBack
<1>2. OptionsReadBack /\ [Next]_<<call, log_vars>> => OptionsReadBack'
  <2> SUFFICES ASSUME OptionsReadBack, [Next]_<<call, log_vars>>
               PROVE  OptionsReadBack'
      OBVIOUS
  <2>1. CASE call' = call \/ call' = Idle
      BY <2>1 DEF OptionsReadBack, Idle
  <2>2. CASE build_submit
    <3>1. PICK m \in Messages : \E s, ok :
              /\ call' = [op |-> "submit_sm", message |-> m, ok |-> ok, pdu |-> _build_submit_sm_pdu(m, s)]
              /\ IsMessage(m) /\ (ok => SubmitFits(m))
        BY <2>2, SubmitCall
    <3>2. PICK s, ok :
              /\ call' = [op |-> "submit_sm", message |-> m, ok |-> ok, pdu |-> _build_submit_sm_pdu(m, s)]
              /\ IsMessage(m) /\ (ok => SubmitFits(m))
        BY <3>1
    <3>3. /\ call'.op = "submit_sm" /\ call'.message = m
          /\ call'.pdu = _build_submit_sm_pdu(m, s) /\ (call'.ok => SubmitFits(m))
        BY <3>2
    <3>4. ASSUME SubmitFits(m)
          PROVE  /\ ReadSubmit(_build_submit_sm_pdu(m, s).body).options = OptionalParams(m.options)
                 /\ Sendable(m.options)
      <4>1. ReadSubmit(_build_submit_sm_pdu(m, s).body)
                = [fields |-> m.fields, short_message |-> m.short_message, options |-> OptionalParams(m.options)]
          BY <3>2, <3>4, SubmitRead, Zenon
      <4>2. ReadSubmit(_build_submit_sm_pdu(m, s).body).options = OptionalParams(m.options)
          BY <4>1
      <4>3. Sendable(m.options)
          BY <3>2, <3>4, Zenon DEF Sendable, IsMessage, SubmitFits
      <4> QED
          BY <4>2, <4>3
    <3>5. ASSUME SubmitFits(m)
          PROVE  LET bytes == ReadSubmit(_build_submit_sm_pdu(m, s).body).options
                 IN  /\ ReadOptions(bytes, 1) = Wanted(m.options)
                     /\ Sent(m.options) \cap TextOptions = {} => ReadOptions(bytes, 0) = Wanted(m.options)
        BY <3>4, <3>5, OptionsRead
    <3> QED
        BY <3>3, <3>5 DEF OptionsReadBack
  <2>3. CASE Call /\ ~build_submit
      BY <2>3, Calls DEF OptionsReadBack
  <2> QED
      BY <2>1, <2>2, <2>3, CallStep
<1> QED
    BY <1>1, <1>2, PTL DEF Spec

-----------------------------------------------------------------------------
(* Codes. *)

\* Whatever code around the bounds of the tables' entries the client looks up, a defined
\* id has its name, only the ids 0, 1 and 2 have none, and a status is in one entry, or
\* in none from 74 to 79.
THEOREM CodesNamed == Spec => []CodesAreNamed
<1>1. Init => CodesAreNamed
    BY DEF Init, Idle, CodesAreNamed
<1>2. CodesAreNamed /\ [Next]_<<call, log_vars>> => CodesAreNamed'
  <2> SUFFICES ASSUME CodesAreNamed, [Next]_<<call, log_vars>>
               PROVE  CodesAreNamed'
      OBVIOUS
  <2>1. CASE call' = call \/ call' = Idle
      BY <2>1 DEF CodesAreNamed, Idle
  <2>2. CASE Call /\ ~find_command /\ ~find_status
      BY <2>2, Calls DEF CodesAreNamed
  <2>3. CASE find_command
    <3>1. PICK code \in CodesAround(Range(command_ids)) :
              call' = [op |-> "command_id", code |-> code, name |-> _search_by_command_id_code(code)]
        BY <2>3, Zenon DEF find_command
    <3>2. IsCode(code)
      <4>1. \A e \in Range(command_ids) : IsCode(e.first) /\ IsCode(e.last)
          BY IdsAreCodes, Zenon
      <4> QED
          BY <4>1, AroundCodes, Zenon
    <3>3. call'.op = "command_id" /\ call'.code = code /\ call'.name = _search_by_command_id_code(code)
        BY <3>1
    <3>4. /\ \A e \in Range(DefinedIds) : e.first = code => _search_by_command_id_code(code) = e.name
          /\ _search_by_command_id_code(code) = None <=> code \in {Request(0), Request(1), Request(2)}
        BY <3>2, EveryIdNamed
    <3>5. call'.op # "command_status"
        BY <3>3
    <3> QED
        BY <3>3, <3>4, <3>5, Zenon DEF CodesAreNamed, DefinedIds
  <2>4. CASE find_status
    <3>1. PICK code \in CodesAround(command_statuses) :
              call' = [op |-> "command_status", code |-> code,
                       entries |-> _search_by_command_status_value(code)]
        BY <2>4, Zenon DEF find_status
    <3>2. IsCode(code)
      <4>1. \A e \in command_statuses : IsCode(e.first) /\ IsCode(e.last)
          BY StatusesAreCodes, Zenon
      <4> QED
          BY <4>1, AroundCodes, Zenon
    <3>3. /\ call'.op = "command_status" /\ call'.code = code
          /\ call'.entries = _search_by_command_status_value(code)
        BY <3>1
    <3>4. /\ Cardinality(_search_by_command_status_value(code)) <= 1
          /\ _search_by_command_status_value(code) = {} <=> code \in {Request(n) : n \in 74 .. 79}
        BY <3>2, EveryStatusOnce
    <3>5. call'.op # "command_id"
        BY <3>3
    <3> QED
        BY <3>3, <3>4, <3>5, Zenon DEF CodesAreNamed
  <2> QED
      BY <2>1, <2>2, <2>3, <2>4, CallStep
<1> QED
    BY <1>1, <1>2, PTL DEF Spec
=============================================================================
