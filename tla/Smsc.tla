-------------------------------- MODULE Smsc ---------------------------------
(***************************************************************************)
(* The other side of the wire: how an SMSC reads a PDU, by section 4 of the *)
(* SMPP document, and the option by which it names the message a delivery   *)
(* report is about.                                                         *)
(***************************************************************************)
EXTENDS Pdu

SmppBind == <<"system_id", "password", "system_type", "interface_version", "addr_ton",
    "addr_npi", "address_range">>
SmppSubmit == <<"service_type", "source_addr_ton", "source_addr_npi", "source_addr",
    "dest_addr_ton", "dest_addr_npi", "destination_addr", "esm_class", "protocol_id",
    "priority_flag", "schedule_delivery_time", "validity_period", "registered_delivery",
    "replace_if_present_flag", "data_coding", "sm_default_msg_id">>

Rest(bytes, n) == SubSeq(bytes, n + 1, Len(bytes))
ReadField(read, name) ==
    LET n == IF name \in TextFields THEN SelectInSeq(read.rest, LAMBDA b : b = 0) ELSE 1
        value == IF name \in TextFields THEN SubSeq(read.rest, 1, n - 1) ELSE SubSeq(read.rest, 1, 1)
    IN  [fields |-> With(read.fields, name, value), rest |-> Rest(read.rest, n)]
Read(order, body) ==
    LET read[i \in 0 .. Len(order)] ==
            IF i = 0 THEN [fields |-> NoEntries, rest |-> body] ELSE ReadField(read[i - 1], order[i])
    IN  read[Len(order)]

\* A submit_sm: mandatory fields, short_message and the bytes of the options.
ReadSubmit(body) ==
    LET read == Read(SmppSubmit, body)
        sm_length == read.rest[1]
    IN  [fields |-> read.fields, short_message |-> SubSeq(read.rest, 2, sm_length + 1),
         options |-> Rest(read.rest, sm_length + 1)]

\* Options by their Tag and Length, with so many octets more in a text than its Length
\* says; <<"malformed">> if the last one ends beyond the body.
ReadOptions(bytes, more) ==
    LET name(i) == OptionOrder[Unpack(SubSeq(bytes, i, i + 1)) - Byte]
        known(i) == i + 3 <= Len(bytes) /\ Unpack(SubSeq(bytes, i, i + 1)) - Byte \in DOMAIN OptionOrder
        size(i) == Unpack(SubSeq(bytes, i + 2, i + 3))
        over(i) == i + 4 + size(i) + IF name(i) \in TextOptions THEN more ELSE 0
        from[i \in 1 .. Len(bytes) + 1] ==
            IF i = Len(bytes) + 1 THEN {}
            ELSE IF ~known(i) \/ over(i) > Len(bytes) + 1 THEN {<<"malformed", <<>>>>}
            ELSE {<<name(i), SubSeq(bytes, i + 4, i + 3 + size(i))>>} \cup from[over(i)]
    IN  from[1]

\* What an option's bytes say of its value.
Wanted(options) ==
    {<<o, CASE o \in TextOptions -> options[o]
            [] o = "alert_on_message_delivery" -> <<>>
            [] OTHER -> Pack(options[o][1], Octets(o))>> : o \in Sent(options)}
-----------------------------------------------------------------------------
\* A receipted_message_id: a C-octet string.
ReceiptTlv(id) == Pack(ReceiptTag, 2) \o Pack(Len(id) + 1, 2) \o id \o NUL
=============================================================================
