-------------------------------- MODULE Lookup -------------------------------
(***************************************************************************)
(* The tables of SMPP codes and Client's searches in them.  A code of 32    *)
(* bits is a pair: its highest bit, which marks the id of a response, and   *)
(* the 31 others.                                                           *)
(***************************************************************************)
EXTENDS Integers, Sequences, SeqOps

Last31 == 2147483647
Request(n) == <<0, n>>
Response(n) == <<1, n>>
NoMore(a, b) == a[1] < b[1] \/ (a[1] = b[1] /\ a[2] <= b[2])

One(name, code) == [name |-> name, first |-> code, last |-> code]
Many(name, first, last) == [name |-> name, first |-> first, last |-> last]

\* Client.command_ids, in the order of the dictionary.
HandledIds == <<
    One("bind_transceiver", Request(9)), One("bind_transceiver_resp", Response(9)),
    One("unbind", Request(6)), One("unbind_resp", Response(6)),
    One("submit_sm", Request(4)), One("submit_sm_resp", Response(4)),
    One("deliver_sm", Request(5)), One("deliver_sm_resp", Response(5)),
    One("enquire_link", Request(21)), One("enquire_link_resp", Response(21)),
    One("generic_nack", Response(0)) >>

OtherIds == <<
    One("bind_receiver_resp", Response(1)), One("bind_transmitter_resp", Response(2)),
    One("query_sm", Request(3)), One("query_sm_resp", Response(3)),
    One("replace_sm", Request(7)), One("replace_sm_resp", Response(7)),
    One("cancel_sm", Request(8)), One("cancel_sm_resp", Response(8)),
    One("submit_multi", Request(33)), One("submit_multi_resp", Response(33)),
    One("outbind", Request(11)), One("alert_notification", Request(258)),
    One("data_sm", Request(259)), One("data_sm_resp", Response(259)),
    One("reserved_a", Request(10)), One("reserved_b", Response(10)),
    One("reserved_c", Request(256)), One("reserved_d", Response(256)),
    One("reserved_e", Request(257)), One("reserved_f", Response(257)),
    One("reserved_g", Response(258)) >>

ReservedIds == <<
    Many("reserved_list_a", Request(12), Request(20)),
    Many("reserved_list_b", Response(11), Response(20)),
    Many("reserved_list_c", Request(22), Request(32)),
    Many("reserved_list_d", Response(22), Response(32)),
    Many("reserved_list_e", Request(34), Request(255)),
    Many("reserved_list_f", Response(34), Response(255)),
    Many("reserved_list_g", Request(66304), Response(Last31)),
    Many("reserved_list_h", Request(65536), Request(66047)),
    Many("reserved_list_i", Response(65536), Response(66047)),
    Many("reserved_for_smpp_extension_a", Request(260), Request(65535)),
    Many("reserved_for_smpp_extension_b", Response(260), Response(65535)),
    Many("reserved_for_smsc_vendor_a", Request(66048), Request(66303)),
    Many("reserved_for_smsc_vendor_b", Response(66048), Response(66303)) >>

\* Mutant: the reserved ranges come first.
command_ids_reserved == ReservedIds \o HandledIds \o OtherIds

command_ids == HandledIds \o OtherIds \o ReservedIds

\* SmppCommandStatus: single values and ranges.  A status goes by its value; its code and
\* its description, which are for the log, are left out.
Status(values) == {One(n, Request(n)) : n \in values}

command_statuses ==
    Status(0 .. 21 \cup {51, 52} \cup 64 .. 69 \cup {72, 73} \cup 80 .. 85 \cup {88}
           \cup 97 .. 103 \cup 192 .. 196 \cup {254, 255})
    \cup {Many(r[1], Request(r[1]), Request(r[2])) :
              r \in {<<22, 50>>, <<53, 63>>, <<70, 71>>, <<86, 87>>, <<89, 96>>, <<104, 191>>,
                     <<197, 253>>, <<256, 1023>>, <<1024, 1279>>}}
    \cup {Many(1280, Request(1280), Response(Last31))}

Matches(entry, code) == NoMore(entry.first, code) /\ NoMore(code, entry.last)

None == "none"

\* The first entry that matches.
_search_by_command_id_code(code) ==
    LET i == SelectInSeq(command_ids, LAMBDA e : Matches(e, code))
    IN  IF i = 0 THEN None ELSE command_ids[i].name

\* Every entry that matches: the order of the table does not matter if there is one.
_search_by_command_status_value(code) == {e \in command_statuses : Matches(e, code)}

\* Codes around every bound of an entry.
Around(code) ==
    {code} \cup (IF code[2] > 0 THEN {<<code[1], code[2] - 1>>} ELSE {})
           \cup (IF code[2] < Last31 THEN {<<code[1], code[2] + 1>>} ELSE {})
CodesAround(entries) == UNION {Around(e.first) \cup Around(e.last) : e \in entries}
=============================================================================
