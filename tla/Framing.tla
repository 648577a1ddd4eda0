------------------------------ MODULE Framing ------------------------------
(***************************************************************************)
(* Client.receive_data at the level of bytes: how PDUs are cut out of the  *)
(* streams of the connections.  readexactly takes a header from the        *)
(* client.reader of the moment, the loop below it takes the rest of the    *)
(* PDU in chunks, each from the client.reader of its own moment, and other *)
(* coroutines replace client.reader while receive_data is suspended.       *)
(*                                                                         *)
(* A byte is named by its place: <<c, i>> is the i-th byte of connection   *)
(* c.  Connections are numbered in the order they are made.                *)
(***************************************************************************)
EXTENDS Integers, Sequences

CONSTANTS
    HeaderLen,    \* _header_pdu_length
    MaxRead,      \* the 2048 of reader.read
    Lengths,      \* the lengths a body may have
    MaxPdus,      \* PDUs the SMSC sends on a connection
    MaxConns      \* bound: connections made

ASSUME FramingAssumption ==
    /\ HeaderLen \in Nat \ {0} /\ MaxRead \in Nat \ {0} /\ MaxConns \in Nat \ {0}
    /\ Lengths \subseteq Nat /\ MaxPdus \in Nat

Conns == 1 .. MaxConns

VARIABLES
    bodies,            \* bodies[p]: the body length of the p-th PDU of every connection
    arrived, taken,    \* bytes of each connection that reached, and left, its StreamReader
    net,               \* "up", "eof" (the SMSC closed its side) or "lost"
    reader, bound,     \* client.reader; the session is BOUND_TRX
    SHOULD_SHUT_DOWN,
    stage, on,         \* where receive_data is, and the StreamReader it awaits
    header, body,      \* the bytes in hand
    MSGLEN,
    frames,            \* what was handed to _parse_response_pdu
    tainted            \* connections that had bytes taken for a PDU of another one

streams == <<bodies, arrived, taken, net>>
session == <<reader, bound, SHOULD_SHUT_DOWN>>
parsing == <<header, body, MSGLEN, frames, tainted>>
vars == <<streams, session, stage, on, parsing>>

\* The bytes of the first p PDUs of a connection, and those of PDU p of connection c.
Total[p \in 0 .. MaxPdus] == IF p = 0 THEN 0 ELSE Total[p - 1] + HeaderLen + bodies[p]
PduBytes(c, p) ==
    [k \in 1 .. HeaderLen + bodies[p] |-> <<c, Total[p - 1] + k>>]
Pdus(c) == [p \in 1 .. MaxPdus |-> PduBytes(c, p)]

Buffered(c) == arrived[c] - taken[c]
NextBytes(c, n) == [k \in 1 .. n |-> <<c, taken[c] + k>>]

\* What bytes that are no header may say: a length as good as any, or none at all.
Garbage == Lengths \cup {-HeaderLen}

Stages == {"loop", "nap", "header", "disconnect", "backoff", "body", "bodynap", "parse", "done"}

TypeOK ==
    /\ bodies \in [1 .. MaxPdus -> Lengths]
    /\ arrived \in [Conns -> 0 .. Total[MaxPdus]]
    /\ taken \in [Conns -> Nat] /\ \A c \in Conns : taken[c] <= arrived[c]
    /\ net \in [Conns -> {"up", "eof", "lost"}]
    /\ reader \in Conns /\ on \in Conns
    /\ bound \in BOOLEAN /\ SHOULD_SHUT_DOWN \in BOOLEAN
    /\ stage \in Stages
    /\ header \in Seq(Conns \X Nat) /\ body \in Seq(Conns \X Nat)
    /\ frames \in Seq(Seq(Conns \X Nat))
    /\ MSGLEN \in Garbage \cup {0}
    /\ stage \in {"body", "bodynap"} => Len(body) < MSGLEN
    /\ stage = "parse" => Len(body) = IF MSGLEN > 0 THEN MSGLEN ELSE 0
    /\ tainted \subseteq Conns

Init ==
    /\ bodies \in [1 .. MaxPdus -> Lengths]
    /\ arrived = [c \in Conns |-> 0]
    /\ taken = [c \in Conns |-> 0]
    /\ net = [c \in Conns |-> "up"]
    /\ reader = 1 /\ on = 1
    /\ bound = TRUE
    /\ SHOULD_SHUT_DOWN = FALSE
    /\ stage = "loop"
    /\ header = <<>> /\ body = <<>> /\ MSGLEN = 0
    /\ frames = <<>>
    /\ tainted = {}
-----------------------------------------------------------------------------
(* receive_data                                                            *)

Await(place, c) == stage' = place /\ on' = c

\* Mutant: the reader is looked up once.
receive_data_stale ==
    /\ stage = "loop"
    /\ \/ SHOULD_SHUT_DOWN /\ Await("done", on)
       \/ ~SHOULD_SHUT_DOWN /\ ~bound /\ Await("nap", on)
       \/ ~SHOULD_SHUT_DOWN /\ bound /\ Await("header", on)
    /\ UNCHANGED <<streams, session, parsing>>

receive_data ==
    /\ stage = "loop"
    /\ \/ SHOULD_SHUT_DOWN /\ Await("done", on)
       \/ ~SHOULD_SHUT_DOWN /\ ~bound /\ Await("nap", on)
       \/ ~SHOULD_SHUT_DOWN /\ bound /\ Await("header", reader)
    /\ UNCHANGED <<streams, session, parsing>>

\* re_establish_conn_bind after the sleep: on to the next connection, or it fails.
receive_nap_over ==
    /\ stage = "nap"
    /\ Await("loop", on)
    /\ \/ ~SHOULD_SHUT_DOWN /\ reader < MaxConns /\ reader' = reader + 1 /\ bound' = TRUE
       \/ bound' = FALSE /\ UNCHANGED reader
    /\ UNCHANGED <<streams, SHOULD_SHUT_DOWN, parsing>>

\* The PDUs of connection on whose header these bytes are.
HeaderOf(bytes) == {p \in 1 .. MaxPdus : bytes = SubSeq(PduBytes(on, p), 1, HeaderLen)}

\* command_length - _header_pdu_length: what the SMSC wrote if the bytes really are a
\* header, otherwise anything.
BodyLength(bytes) ==
    IF HeaderOf(bytes) = {} THEN Garbage ELSE {bodies[p] : p \in HeaderOf(bytes)}

receive_header ==
    /\ stage = "header"
    /\ net[on] # "lost" /\ Buffered(on) >= HeaderLen
    /\ header' = NextBytes(on, HeaderLen)
    /\ body' = <<>>
    /\ taken' = [taken EXCEPT ![on] = @ + HeaderLen]
    /\ MSGLEN' \in BodyLength(header')
    /\ Await(IF MSGLEN' > 0 THEN "body" ELSE "parse", reader)
    /\ UNCHANGED <<bodies, arrived, net, session, frames, tainted>>

AfterNothing == Await(IF SHOULD_SHUT_DOWN THEN "done" ELSE "backoff", on)

\* IncompleteReadError: what there was is gone; disconnect.
receive_incomplete ==
    /\ stage = "header"
    /\ net[on] = "eof" /\ Buffered(on) < HeaderLen
    /\ taken' = [taken EXCEPT ![on] = arrived[on]]
    /\ Await("disconnect", on)
    /\ UNCHANGED <<bodies, arrived, net, session, parsing>>

\* _unbind_and_disconnect is over; the session is, unless a drain or the eof failed.
receive_disconnected ==
    /\ stage = "disconnect"
    /\ bound' \in {FALSE, bound}
    /\ AfterNothing
    /\ UNCHANGED <<streams, reader, SHOULD_SHUT_DOWN, parsing>>

receive_error ==
    /\ stage = "header"
    /\ net[on] = "lost"
    /\ AfterNothing
    /\ UNCHANGED <<streams, session, parsing>>

\* Sleep for _retry_after; how long is left open.
receive_backoff_over ==
    /\ stage = "backoff"
    /\ Await("loop", on)
    /\ UNCHANGED <<streams, session, parsing>>

Smallest(a, b, c) == IF a <= b /\ a <= c THEN a ELSE IF b <= c THEN b ELSE c

\* Mutant: as much as there is.
ChunkLength_all == Smallest(MaxRead, MaxRead, Buffered(on))

\* reader.read(min(MSGLEN - bytes_recd, 2048)) returns what is buffered, up to that.
ChunkLength == Smallest(MSGLEN - Len(body), MaxRead, Buffered(on))

\* Mutant: the frame is complete one byte early.
Complete_early(bytes) == Len(bytes) >= MSGLEN - 1

Complete(bytes) == Len(bytes) >= MSGLEN

receive_chunk ==
    /\ stage = "body"
    /\ net[on] # "lost" /\ Buffered(on) > 0
    /\ body' = body \o NextBytes(on, ChunkLength)
    /\ taken' = [taken EXCEPT ![on] = @ + ChunkLength]
    /\ tainted' = IF header[1][1] = on THEN tainted ELSE tainted \cup {on}
    /\ Await(IF Complete(body') THEN "parse" ELSE "body", reader)
    /\ UNCHANGED <<bodies, arrived, net, session, header, MSGLEN, frames>>

\* An empty chunk or a ConnectionError: sleep, and read on from client.reader.
receive_chunk_error ==
    /\ stage = "body"
    /\ net[on] = "lost" \/ (net[on] = "eof" /\ Buffered(on) = 0)
    /\ Await(IF SHOULD_SHUT_DOWN THEN "done" ELSE "bodynap", on)
    /\ UNCHANGED <<streams, session, parsing>>

receive_bodynap_over ==
    /\ stage = "bodynap"
    /\ Await("body", reader)
    /\ UNCHANGED <<streams, session, parsing>>

receive_parse ==
    /\ stage = "parse"
    /\ frames' = Append(frames, header \o body)
    /\ Await("loop", on)
    /\ UNCHANGED <<streams, session, header, body, MSGLEN, tainted>>
-----------------------------------------------------------------------------
(* The network and the other coroutines.                                   *)

arrive(c) ==
    /\ c <= reader /\ net[c] = "up"
    /\ arrived[c] < Total[MaxPdus]
    /\ arrived' = [arrived EXCEPT ![c] = @ + 1]
    /\ UNCHANGED <<bodies, taken, net, session, stage, on, parsing>>

network_failure(c) ==
    /\ c <= reader
    /\ \/ net[c] = "up" /\ net' = [net EXCEPT ![c] = "eof"]
       \/ net[c] # "lost" /\ net' = [net EXCEPT ![c] = "lost"]
    /\ UNCHANGED <<bodies, arrived, taken, session, stage, on, parsing>>

\* enquire_link or tranceiver_bind re-establishes, perhaps in an attempt that was under
\* way when shutdown was called; the old connection is left as it is.
reconnect ==
    /\ reader < MaxConns
    /\ reader' = reader + 1
    /\ bound' = TRUE
    /\ UNCHANGED <<streams, SHOULD_SHUT_DOWN, stage, on, parsing>>

shutdown ==
    /\ ~SHOULD_SHUT_DOWN
    /\ SHOULD_SHUT_DOWN' = TRUE
    /\ UNCHANGED <<streams, reader, bound, stage, on, parsing>>

\* The disconnect of shutdown succeeds.
shutdown_disconnects ==
    /\ SHOULD_SHUT_DOWN
    /\ bound' = FALSE
    /\ UNCHANGED <<streams, reader, SHOULD_SHUT_DOWN, stage, on, parsing>>

Receiving ==
    \/ receive_data \/ receive_nap_over \/ receive_header \/ receive_incomplete
    \/ receive_disconnected \/ receive_error \/ receive_backoff_over \/ receive_chunk
    \/ receive_chunk_error \/ receive_bodynap_over \/ receive_parse

Next ==
    \/ Receiving
    \/ \E c \in Conns : arrive(c) \/ network_failure(c)
    \/ reconnect \/ shutdown \/ shutdown_disconnects

Spec == Init /\ [][Next]_vars

\* The event loop serves receive_data; an abandoned connection, which nobody answers on
\* any more, is closed by its SMSC.
FairSpec ==
    /\ Spec
    /\ WF_vars(Receiving)
    /\ \A c \in Conns : WF_vars(c # reader /\ network_failure(c))
-----------------------------------------------------------------------------
\* The frames whose bytes all came from connection c.
From(c, f) == \A k \in DOMAIN f : f[k][1] = c
FramesOf(c) == SelectSeq(frames, LAMBDA f : From(c, f))

\* However the bytes arrive and whenever the connection is lost or replaced, what is
\* handed to _parse_response_pdu from one connection is its PDUs, whole, in order, none
\* skipped and none twice, unless the connection had to finish a PDU of the one before
\* it: a frame from c is a PDU of c, and those handed on before it are the ones before it.
FramesAreExact ==
    \A c \in Conns \ tainted : \A i \in DOMAIN frames :
        From(c, frames[i]) =>
            \E p \in 1 .. MaxPdus :
                /\ frames[i] = PduBytes(c, p)
                /\ \A q \in 1 .. MaxPdus :
                      (\E j \in 1 .. i - 1 : frames[j] = PduBytes(c, q)) <=> q < p

\* PDUs that have arrived are handed on, even if receive_data was still waiting on the
\* connection before; short of a shutdown or the loss of the connection, of the session
\* or of the frame boundaries.
FramesAreHandedOn ==
    \A c \in Conns :
        (reader = c /\ bound /\ arrived[c] = Total[MaxPdus])
            ~> \/ FramesOf(c) = Pdus(c)
               \/ reader # c \/ ~bound \/ net[c] = "lost" \/ c \in tainted
               \/ SHOULD_SHUT_DOWN

\* CHANGELOG, v0.6.6: naz closes the connection when it cannot read a whole header, "to
\* ensure that naz behaves correctly and does not enter into an inconsistent state":
\* what is parsed is always one PDU of one connection.
StaysConsistent ==
    \A k \in DOMAIN frames : \E c \in Conns, p \in 1 .. MaxPdus : frames[k] = PduBytes(c, p)
=============================================================================
