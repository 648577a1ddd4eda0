--------------------------------- MODULE Pdu ---------------------------------
(***************************************************************************)
(* The bytes of naz's PDUs: naz.protocol.SubmitSM and its JSON form, the    *)
(* PDUs that naz.Client builds, naz.state.OptionalTag, and the search for   *)
(* a receipted_message_id in a deliver_sm.                                  *)
(*                                                                          *)
(* Every value is a sequence of numbers: a text its characters (none of     *)
(* which is NUL), an int n the sequence <<n>>, TRUE <<1>>, FALSE <<0>>.     *)
(***************************************************************************)
EXTENDS Integers, Sequences, SeqOps

CONSTANTS
    Byte,           \* how many values an octet has: 256
    MaxIdLen,       \* the longest receipted_message_id: 65
    ReceiptTag,     \* OptionalTag.NAME_to_TAG["receipted_message_id"]: 0x001E
    max_sequence_number

ASSUME PduAssumption ==
    /\ Byte \in Nat /\ Byte > 8
    /\ ReceiptTag \in 2 .. Byte - 1
    /\ MaxIdLen \in Nat \ {0}
    /\ max_sequence_number \in Nat

AnInt(n) == <<n>>
NUL == <<0>>
Truthy(value) == value \notin {<<>>, AnInt(0)}

\* A dictionary without entries, one with one more entry, and one where an entry that is missing has a default.
NoEntries == [n \in {} |-> <<>>]
With(f, name, value) == [n \in DOMAIN f \cup {name} |-> IF n = name THEN value ELSE f[n]]
WithDefault(f, name, value) == IF name \in DOMAIN f THEN f ELSE With(f, name, value)
-----------------------------------------------------------------------------
\* struct.pack with a big-endian unsigned int of one octet or two, and whether it raises.
Fits(n, octets) == n < IF octets = 1 THEN Byte ELSE Byte * Byte
Pack(n, octets) == IF octets = 1 THEN <<n % Byte>> ELSE <<(n \div Byte) % Byte, n % Byte>>
Unpack(bytes) == bytes[1] * Byte + bytes[2]

\* str.encode("ascii"), with characters from Byte on as the ones that are not ASCII.
IsAscii(text) == \A i \in DOMAIN text : text[i] < Byte

\* SmppDataCoding, some of it: encoding to data_coding.
Encodings == {"gsm0338", "latin_1", "ucs2"}
_find_data_coding(encoding) ==
    CASE encoding = "gsm0338" -> 0 [] encoding = "latin_1" -> 3 [] encoding = "ucs2" -> 8
-----------------------------------------------------------------------------
\* Mandatory fields, in the order in which the code puts them in the body.
BindOrder == <<"system_id", "password", "system_type", "interface_version", "addr_ton",
    "addr_npi", "address_range">>

SubmitOrder == <<"service_type", "source_addr_ton", "source_addr_npi", "source_addr",
    "dest_addr_ton", "dest_addr_npi", "destination_addr", "esm_class", "protocol_id",
    "priority_flag", "schedule_delivery_time", "validity_period", "registered_delivery",
    "replace_if_present_flag", "data_coding", "sm_default_msg_id">>

\* What the user gives of a submit_sm's: the data_coding follows from the encoding.
SubmitFields == Range(SubmitOrder) \ {"data_coding"}

\* C-octet strings; the other fields are ints of one octet.
TextFields == {"system_id", "password", "system_type", "address_range", "service_type",
    "source_addr", "destination_addr", "schedule_delivery_time", "validity_period"}

FieldFits(name, value) == IF name \in TextFields THEN IsAscii(value) ELSE Fits(value[1], 1)
Field(name, value) == IF name \in TextFields THEN value \o NUL ELSE Pack(value[1], 1)

Mandatory(order, fields) == FlattenSeq([i \in DOMAIN order |-> Field(order[i], fields[order[i]])])
MandatoryFits(order, fields) == \A i \in DOMAIN order : FieldFits(order[i], fields[order[i]])
-----------------------------------------------------------------------------
(* naz.state.OptionalTag: one option of each kind that a SubmitSM can carry. *)

OptionOrder == <<"source_port", "message_payload", "callback_num", "callback_num_pres_ind",
    "alert_on_message_delivery">>
Options == Range(OptionOrder)
TextOptions == {"message_payload", "callback_num"}
Octets(name) == IF name = "source_port" THEN 2 ELSE 1

\* NAME_to_TAG: numbers of two octets.
tag(name) == Byte + SelectInSeq(OptionOrder, LAMBDA o : o = name)

length(name, value) ==
    CASE name \in TextOptions -> Len(value)
      [] name = "alert_on_message_delivery" -> 0
      [] OTHER -> Octets(name)

\* Mutant: the value of every int has one octet.
tlv_narrow(name, value) ==
    Pack(tag(name), 2) \o Pack(length(name, value), 2) \o
        CASE name \in TextOptions -> value \o NUL
          [] name = "alert_on_message_delivery" -> <<>>
          [] OTHER -> Pack(value[1], 1)

tlv(name, value) ==
    Pack(tag(name), 2) \o Pack(length(name, value), 2) \o
        CASE name \in TextOptions -> value \o NUL
          [] name = "alert_on_message_delivery" -> <<>>
          [] OTHER -> Pack(value[1], Octets(name))

TlvFits(name, value) ==
    /\ Fits(length(name, value), 2)
    /\ CASE name \in TextOptions -> IsAscii(value)
         [] name = "alert_on_message_delivery" -> TRUE
         [] OTHER -> Fits(value[1], Octets(name))

\* _build_submit_sm_optional_params_pdu: an option that is 0, "" or False is left out.
Sent(options) == {o \in Options \cap DOMAIN options : Truthy(options[o])}
OptionalParam(name, options) == IF name \in Sent(options) THEN tlv(name, options[name]) ELSE <<>>
OptionalParams(options) ==
    FlattenSeq([i \in DOMAIN OptionOrder |-> OptionalParam(OptionOrder[i], options)])
-----------------------------------------------------------------------------
(* naz.protocol.SubmitSM: mandatory fields, options that are not None, the    *)
(* encoding and the short_message as its encoder leaves it.                   *)

SubmitSM(fields, options, encoding, short_message) ==
    [fields |-> With(fields, "data_coding", AnInt(_find_data_coding(encoding))),
     options |-> WithDefault(options, "alert_on_message_delivery", AnInt(0)),
     encoding |-> encoding, short_message |-> short_message]

\* One flat dictionary of fields and options, without the data_coding.
to_json(m) ==
    [item |-> [n \in (DOMAIN m.fields \cup DOMAIN m.options) \ {"data_coding"} |->
                   IF n \in DOMAIN m.options THEN m.options[n] ELSE m.fields[n]],
     encoding |-> m.encoding, short_message |-> m.short_message]

from_json(j) ==
    SubmitSM([n \in DOMAIN j.item \ Options |-> j.item[n]],
             [n \in DOMAIN j.item \cap Options |-> j.item[n]], j.encoding, j.short_message)
-----------------------------------------------------------------------------
(* What Client builds.  A header is four ints of four octets. *)

HeaderLen == 16

PDU(command, sequence_number, body) ==
    [header |-> [command_length |-> HeaderLen + Len(body), command_id |-> command,
                 command_status |-> 0, sequence_number |-> sequence_number],
     body |-> body]

\* A request of the client's is refused if the sequence_generator hands out too large a
\* number; a response echoes the number of the SMSC's request.
Numbered(sequence_number) == sequence_number <= max_sequence_number

BindFits(fields) == MandatoryFits(BindOrder, fields)
tranceiver_bind(fields, sequence_number) ==
    PDU("bind_transceiver", sequence_number, Mandatory(BindOrder, fields))

\* Mutant: the length of the short_message wraps instead.
SubmitFits_unchecked(m) ==
    /\ MandatoryFits(SubmitOrder, m.fields)
    /\ \A o \in Sent(m.options) : TlvFits(o, m.options[o])

\* _build_submit_sm_pdu does not raise.
SubmitFits(m) ==
    /\ MandatoryFits(SubmitOrder, m.fields)
    /\ Fits(Len(m.short_message), 1)
    /\ \A o \in Sent(m.options) : TlvFits(o, m.options[o])

_build_submit_sm_pdu(m, sequence_number) ==
    PDU("submit_sm", sequence_number,
        Mandatory(SubmitOrder, m.fields) \o Pack(Len(m.short_message), 1) \o m.short_message
            \o OptionalParams(m.options))

-----------------------------------------------------------------------------
(* The id of a message, as command_handlers takes it from a submit_sm_resp and *)
(* from a deliver_sm: there, what follows the first place in the body where    *)
(* the two octets of the tag are.  NULs are taken out.                         *)

WithoutNul(bytes) == SelectSeq(bytes, LAMBDA b : b # 0)
SmscMessageId(body) == WithoutNul(body)

Places(body, octets) ==
    {i \in 1 .. Len(body) - Len(octets) + 1 : SubSeq(body, i, i + Len(octets) - 1) = octets}
FirstPlace(body, octets) ==
    CHOOSE i \in Places(body, octets) : \A j \in Places(body, octets) : i <= j
Slice(body, first, last) == SubSeq(body, first, IF last < Len(body) THEN last ELSE Len(body))

\* Mutant: the Length is not skipped.
ReceiptedIds_length(body) ==
    IF Places(body, Pack(ReceiptTag, 2)) = {} THEN {}
    ELSE LET place == FirstPlace(body, Pack(ReceiptTag, 2))
         IN  {WithoutNul(Slice(body, place + 2, place + 1 + MaxIdLen))}

\* The ids found: none or one.
ReceiptedIds(body) ==
    IF Places(body, Pack(ReceiptTag, 2)) = {} THEN {}
    ELSE LET place == FirstPlace(body, Pack(ReceiptTag, 2))
         IN  {WithoutNul(Slice(body, place + 4, place + 3 + MaxIdLen))}
=============================================================================
