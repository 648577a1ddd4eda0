-------------------------------- MODULE Wire ---------------------------------
(***************************************************************************)
(* What the client puts on the wire and what it makes of what it reads, one *)
(* call at a time: a PDU is built and the SMSC reads it, the ids of a       *)
(* message are taken from the SMSC's PDUs, codes are looked up, a text is   *)
(* encoded; and what is logged.  The parts share no state, so that each is  *)
(* looked at with the others at rest.                                       *)
(***************************************************************************)
EXTENDS Smsc, Codec, Lookup, BreachHandler, FiniteSets

CONSTANT
    MaxText         \* bound: characters of an encoded text

ASSUME WireAssumption == MaxText \in Nat

VARIABLE
    call            \* the last call: its name, arguments and result

Idle == [op |-> "idle"]

Init ==
    /\ call = Idle
    /\ LogInit
-----------------------------------------------------------------------------
(* Arguments: one field at a time is not empty, options come together. *)

Repeat(b, n) == [i \in 1 .. n |-> b]
Empty(name) == IF name \in TextFields THEN <<>> ELSE AnInt(0)
Values(name) ==
    IF name \in TextFields THEN {<<>>, <<5, 6>>, <<5, Byte>>}
    ELSE {AnInt(5), AnInt(Byte - 1), AnInt(Byte)}

FieldChoices(names) ==
    UNION {{[n \in names |-> IF n = name THEN v ELSE Empty(n)] : v \in Values(name)} : name \in names}

OptionValues(name) ==
    CASE name = "source_port" -> {AnInt(0), AnInt(Byte + 2), AnInt(Byte * Byte)}
      [] name = "message_payload" -> {<<>>, <<5, 6>>, Repeat(5, Byte)}
      [] name = "callback_num" -> {<<9>>}
      [] name = "callback_num_pres_ind" -> {AnInt(0), AnInt(9), AnInt(Byte)}
      [] name = "alert_on_message_delivery" -> {AnInt(0), AnInt(1)}

OptionChoices ==
    UNION {{f \in [given -> UNION {OptionValues(o) : o \in given}] : \A o \in given : f[o] \in OptionValues(o)} :
               given \in SUBSET Options}

ShortMessages == {<<>>, <<0>>, <<5, 0>>, Repeat(5, Byte - 1), Repeat(5, Byte)}

Messages ==
    {SubmitSM(f, o, e, m) : f \in FieldChoices(SubmitFields), o \in {NoEntries, With(NoEntries, "callback_num", <<9>>)},
                            e \in Encodings, m \in ShortMessages}
    \cup {SubmitSM([n \in SubmitFields |-> Empty(n)], o, "gsm0338", m) : o \in OptionChoices, m \in ShortMessages}
-----------------------------------------------------------------------------
Built(command, message, fits, pdu) ==
    call' = [op |-> command, message |-> message, ok |-> fits, pdu |-> pdu]

build_bind ==
    \E f \in FieldChoices(Range(BindOrder)), s \in {1, max_sequence_number, max_sequence_number + 1} :
        Built("bind_transceiver", f, BindFits(f) /\ Numbered(s), tranceiver_bind(f, s))

\* A SubmitSM comes from a broker as it is or by way of JSON.
build_submit ==
    \E m \in Messages, s \in {1, max_sequence_number + 1}, json \in BOOLEAN :
        LET dequeued == IF json THEN from_json(to_json(m)) ELSE m
        IN  Built("submit_sm", m, SubmitFits(dequeued) /\ Numbered(s), _build_submit_sm_pdu(dequeued, s))

(* The SMSC answers with the id of a message and later reports on it.  Its    *)
(* deliver_sm ends in options: one before the receipted_message_id, the       *)
(* receipted_message_id itself, if there is one, and one after it.            *)

OtherTlvs == {<<>>, Pack(Byte + 7, 2) \o Pack(1, 2) \o <<2>>}
DeliverFields == {f \in FieldChoices(SubmitFields \cup {"data_coding"}) : MandatoryFits(SubmitOrder, f)}
DeliverMessages == {Repeat(5, n) : n \in 0 .. ReceiptTag + 1} \cup {<<5, 0>> \o Pack(ReceiptTag, 2)}
Ids == {<<>>} \cup UNION {[1 .. n -> {ReceiptTag, 9}] : n \in 1 .. MaxIdLen}

DeliverStart(f, m) == Mandatory(SubmitOrder, f) \o Pack(Len(m), 1) \o m
receive_report ==
    \E f \in DeliverFields, m \in DeliverMessages, id \in Ids, before \in OtherTlvs, after \in OtherTlvs :
        LET start == DeliverStart(f, m) \o before
            receipt == IF id = <<>> THEN <<>> ELSE ReceiptTlv(id)
        IN  call' = [op |-> "deliver_sm", answered |-> SmscMessageId(id \o NUL), id |-> id,
                     start |-> start, body |-> start \o receipt \o after, after |-> after,
                     found |-> ReceiptedIds(start \o receipt \o after)]

find_command ==
    \E code \in CodesAround(Range(command_ids)) :
        call' = [op |-> "command_id", code |-> code, name |-> _search_by_command_id_code(code)]

find_status ==
    \E code \in CodesAround(command_statuses) :
        call' = [op |-> "command_status", code |-> code, entries |-> _search_by_command_status_value(code)]

gsm_encode ==
    \E n \in 0 .. MaxText : \E text \in [1 .. n -> Characters],
       errors \in {"strict", "ignore", "replace", "other"} :
        call' = [op |-> "encode", text |-> text, errors |-> errors,
                 ok |-> ~EncodeRaises(text, errors), bytes |-> encode(text, errors)]

Call == build_bind \/ build_submit \/ receive_report \/ find_command \/ find_status \/ gsm_encode

call_over ==
    /\ call # Idle
    /\ call' = Idle

Next ==
    \/ call = Idle /\ emitted = 0 /\ Call /\ UNCHANGED log_vars
    \/ call_over /\ UNCHANGED log_vars
    \/ call = Idle /\ LogNext /\ UNCHANGED call

Spec == Init /\ [][Next]_<<call, log_vars>>
-----------------------------------------------------------------------------
\* The SMSC reads the fields of a bind_transceiver and of a submit_sm and the
\* short_message as the user gave them, whether or not the message has been JSON in a
\* broker meanwhile.
FieldsReadBack ==
    /\ call.op = "bind_transceiver" /\ call.ok =>
           Read(SmppBind, call.pdu.body) = [fields |-> call.message, rest |-> <<>>]
    /\ call.op = "submit_sm" /\ call.ok =>
           LET read == ReadSubmit(call.pdu.body)
           IN  /\ read.fields = call.message.fields
               /\ read.short_message = call.message.short_message

\* The SMSC reads the options, but for those that are 0, "" or False, which are not sent,
\* if it knows that a NUL which the Length does not count ends a text.  An SMSC that goes
\* by the Length reads them if no text is among them.
OptionsReadBack ==
    call.op = "submit_sm" /\ call.ok =>
        LET options == call.message.options
            bytes == ReadSubmit(call.pdu.body).options
        IN  /\ ReadOptions(bytes, 1) = Wanted(options)
            /\ Sent(options) \cap TextOptions = {} => ReadOptions(bytes, 0) = Wanted(options)

\* A delivery report is matched with the message it is about, the id in the
\* submit_sm_resp with the one in the deliver_sm, if the receipted_message_id is the last
\* option and its tag is not also spelt by two octets before it; and a deliver_sm without
\* it is matched with none, on the same condition.
ReportIsMatched ==
    call.op = "deliver_sm" =>
        LET spelt == {i \in Places(call.body, Pack(ReceiptTag, 2)) : i <= Len(call.start)}
        IN  spelt = {} =>
                /\ call.id # <<>> /\ call.after = <<>> /\ Len(call.id) < MaxIdLen =>
                       call.found = {call.answered}
                /\ call.id = <<>> => call.found = {}

\* A command that SMPP defines has its own name, although reserved ranges cover its id
\* too, and a status is one entry of its table or none, so that the order of the table
\* does not matter; what is in no table is no command or status of SMPP 3.4 that an SMSC
\* sends.
CodesAreNamed ==
    /\ call.op = "command_id" =>
           /\ \A e \in Range(HandledIds \o OtherIds) : e.first = call.code => call.name = e.name
           /\ call.name = None <=> call.code \in {Request(0), Request(1), Request(2)}
    /\ call.op = "command_status" =>
           /\ Cardinality(call.entries) <= 1
           /\ call.entries = {} <=> call.code \in {Request(n) : n \in 74 .. 79}

\* A text in the GSM alphabet is decoded to what it was, each character of the extension
\* by its own code although the basic set uses that code too, and unknown characters as
\* the error handler leaves them; not so the escape character itself, which is in the
\* basic set.
GsmReadsBack ==
    call.op = "encode" /\ call.ok =>
        (decode(call.bytes) = Readable(call.text, call.errors) <=> "ESC" \notin Range(call.text))
=============================================================================
