------------------------------- MODULE Client -------------------------------
(***************************************************************************)
(* The session core of naz.Client (naz/client.py): the coroutines that the *)
(* command line tool hands to asyncio.gather, sharing one session state,   *)
(* one reader/writer pair and one drain lock.                              *)
(*                                                                         *)
(* asyncio is cooperative.  A coroutine keeps control until it reaches an  *)
(* await that really suspends: a sleep, open_connection, a read, a drain,  *)
(* a taken lock, an empty queue.  The variable running names the coroutine *)
(* in control, so every action below is a piece of straight-line code and  *)
(* nobody else, not even the network, moves between two pieces that have   *)
(* no suspension between them.  How long a sleep or a connection attempt   *)
(* lasts is left open.                                                     *)
(***************************************************************************)
EXTENDS Naturals, Sequences

CONSTANTS
    Tasks,        \* the coroutines the application runs, a subset of AllTasks
    Conns,        \* bound: the connections the SMSC accepts, one identity for each
    NoConn,       \* Python's None in client.reader and client.writer
    NoTask,       \* the event loop is in control; the drain lock is free
    Fragile,      \* the connections that may be taken down while they are client.writer
    SmscPdus,     \* the kinds of PDU the SMSC sends to the client
    MaxMessages,  \* bound: how many times the application calls send_message
    MaxQueue      \* SimpleBroker's maxsize

AllTasks == {"connect", "bind", "dequeue", "receive", "enquire", "shutdown"}

\* naz.state.SmppSessionState
SmppSessionState == {"OPEN", "BOUND_TRX", "CLOSED"}

\* The members of naz.state.SmppCommand that the client sends, or handles when
\* it receives them; "other" stands for every command it only logs.
SmppCommand ==
    {"bind_transceiver", "bind_transceiver_resp", "unbind", "unbind_resp",
     "submit_sm", "submit_sm_resp", "deliver_sm", "deliver_sm_resp",
     "enquire_link", "enquire_link_resp", "other"}

ASSUME ClientAssumption ==
    /\ Tasks \subseteq AllTasks
    /\ NoTask \notin AllTasks
    /\ NoConn \notin Conns
    /\ Fragile \subseteq Conns
    /\ SmscPdus \subseteq SmppCommand
    /\ MaxMessages \in Nat
    /\ MaxQueue \in Nat \ {0}

\* _unbind_and_disconnect is kept on the stack of pending sends like a command.
Disconnect == "disconnect"

\* A PDU; id tells the application's messages apart and is 0 in all others.
Pdu == [kind : SmppCommand \cup {Disconnect}, id : Nat]
Of(kind) == [kind |-> kind, id |-> 0]
Idle == Of("other")       \* no PDU in hand
SubmitSM(n) == [kind |-> "submit_sm", id |-> n]

\* Where a coroutine can be suspended, and where it can be while in control.
Suspended == {"idle", "connecting", "lock", "drain", "nap", "sleep", "fetch",
              "read", "body", "bodynap", "linger", "done", "crashed"}
InControl == {"loop", "gate", "send", "reest", "rebind", "write", "return",
              "handle", "noheader", "disc", "drain"}
Labels == Suspended \cup InControl
-----------------------------------------------------------------------------
VARIABLES
    current_session_state,
    SHOULD_SHUT_DOWN,
    reader, writer,     \* client.reader, client.writer
    drain_lock,         \* the coroutine that holds client.drain_lock
    broker,             \* the queue inside SimpleBroker
    running,            \* the coroutine in control
    pc,                 \* where each coroutine is
    cmd,                \* the PDU each coroutine is sending or handling
    todo,               \* its enclosing send_data calls that will still write
    conn,               \* the connection each coroutine is awaiting on
    net,                \* what has become of each connection
    finSent,            \* connections on which write_eof was called
    first,              \* the kind of the first PDU written on each connection
    bindSent,           \* connections on which a bind_transceiver was written
    loaded,             \* connections whose write buffer may be above its high-water mark
    older,              \* the attempts to connect that were under way at the start of each nap
    submitted,          \* how many messages the application has submitted
    written             \* ids of the messages written, in order

session == <<current_session_state, reader, writer>>
network == <<net, finSent, first, bindSent, loaded, older>>
control == <<running, pc, cmd, todo, conn>>
queues == <<broker, submitted, written>>
vars == <<session, SHOULD_SHUT_DOWN, drain_lock, network, control, queues>>

TypeOK ==
    /\ current_session_state \in SmppSessionState
    /\ SHOULD_SHUT_DOWN \in BOOLEAN
    /\ reader \in Conns \cup {NoConn}
    /\ writer \in Conns \cup {NoConn}
    /\ drain_lock \in Tasks \cup {NoTask}
    /\ broker \in Seq(Pdu)
    /\ running \in Tasks \cup {NoTask}
    /\ pc \in [Tasks -> Labels]
    /\ cmd \in [Tasks -> Pdu]
    /\ todo \in [Tasks -> Seq(Pdu)]
    /\ conn \in [Tasks -> Conns \cup {NoConn}]
    /\ net \in [Conns -> {"free", "up", "eof", "lost"}]
    /\ finSent \in SUBSET Conns
    /\ first \in [Conns -> SmppCommand \cup {"none"}]
    /\ bindSent \in SUBSET Conns
    /\ loaded \in SUBSET Conns
    /\ older \in [Tasks -> SUBSET Tasks]
    /\ submitted \in Nat
    /\ written \in Seq(Nat)

\* asyncio.gather starts the coroutines in order.  The session is CLOSED, so
\* each of them runs to the same first suspension in every execution: connect
\* and tranceiver_bind (through send_data and re_establish_conn_bind) to
\* open_connection, the three loops to their first sleep.
FirstAwait(t) ==
    CASE t \in {"connect", "bind"} -> "connecting"
      [] t \in {"dequeue", "receive", "enquire"} -> "nap"
      [] t = "shutdown" -> "idle"

\* The attempts to connect that are under way.
Attempts == {t \in Tasks : pc[t] = "connecting"}

Init ==
    /\ current_session_state = "CLOSED"
    /\ SHOULD_SHUT_DOWN = FALSE
    /\ reader = NoConn
    /\ writer = NoConn
    /\ drain_lock = NoTask
    /\ broker = <<>>
    /\ running = NoTask
    /\ pc = [t \in Tasks |-> FirstAwait(t)]
    /\ cmd = [t \in Tasks |-> Idle]
    /\ todo = [t \in Tasks |-> <<>>]
    /\ conn = [t \in Tasks |-> NoConn]
    /\ net = [c \in Conns |-> "free"]
    /\ finSent = {}
    /\ first = [c \in Conns |-> "none"]
    /\ bindSent = {}
    /\ loaded = {}
    /\ older = [t \in Tasks |-> Attempts]
    /\ submitted = 0
    /\ written = <<>>
-----------------------------------------------------------------------------
(* Control flow of the coroutines.                                         *)

\* The coroutines asyncio.gather waits for.  An exception that one of them does
\* not catch ends naz-cli, and so does the return of all of them; shutdown is
\* started by a signal handler, outside gather.
Gathered == Tasks \ {"shutdown"}
ProgramOver ==
    \/ \E t \in Gathered : pc[t] = "crashed"
    \/ \A t \in Gathered : pc[t] = "done"

In(t, label) == t \in Tasks /\ running = t /\ pc[t] = label

Resume(t, label) ==
    /\ t \in Tasks
    /\ running = NoTask
    /\ ~ProgramOver
    /\ pc[t] = label

\* t goes on at label without giving up control.
Goto(t, label) ==
    /\ pc' = [pc EXCEPT ![t] = label]
    /\ running' = t

\* t suspends (or ends) at label and the event loop takes over.
Await(t, label) ==
    /\ pc' = [pc EXCEPT ![t] = label]
    /\ running' = NoTask

\* The PDU t has in hand, the sends it will come back to, the connection it awaits on.
Take(t, pdu) == cmd' = [cmd EXCEPT ![t] = pdu]
Stack(t, pdus) == todo' = [todo EXCEPT ![t] = pdus]
WaitOn(t, c) == conn' = [conn EXCEPT ![t] = c]

\* An exception nobody catches: AttributeError on a writer that is None, RuntimeError
\* on one that has written its eof.
Crash(t) == Await(t, "crashed")

Closing(c) == net[c] = "lost"     \* writer.transport.is_closing()
-----------------------------------------------------------------------------
(* connect, tranceiver_bind, re_establish_conn_bind                        *)

\* An attempt lasts at most socket_timeout and a nap lasts socket_timeout, so a nap
\* outlasts the attempts that were under way when it began.
Nap(t) ==
    /\ Await(t, "nap")
    /\ older' = [older EXCEPT ![t] = Attempts]

NapOver(t) == Resume(t, "nap") /\ older[t] = {}

AfterConnect(t) ==
    /\ older' = [u \in Tasks |-> older[u] \ {t}]
    /\ IF t = "connect" THEN Await(t, "done") ELSE Goto(t, "rebind")

\* Mutants: a session that counts as bound is left as it is; connected counts as bound.
UseConnection_keepsBound(c) ==
    /\ reader' = c
    /\ writer' = c
    /\ current_session_state' = IF current_session_state = "BOUND_TRX" THEN "BOUND_TRX" ELSE "OPEN"

UseConnection_bound(c) ==
    /\ reader' = c
    /\ writer' = c
    /\ current_session_state' = "BOUND_TRX"

UseConnection(c) ==
    /\ reader' = c
    /\ writer' = c
    /\ current_session_state' = "OPEN"

connect(t) ==
    /\ Resume(t, "connecting")
    /\ \E c \in Conns :
          /\ net[c] = "free"
          /\ net' = [net EXCEPT ![c] = "up"]
          /\ UseConnection(c)
    /\ AfterConnect(t)
    /\ UNCHANGED <<SHOULD_SHUT_DOWN, drain_lock, finSent, first, bindSent, loaded, cmd, todo, conn, queues>>

\* Refused, unreachable, or not answered within socket_timeout: only logged.
connect_error(t) ==
    /\ Resume(t, "connecting")
    /\ AfterConnect(t)
    /\ UNCHANGED <<session, SHOULD_SHUT_DOWN, drain_lock, net, finSent, first, bindSent, loaded, cmd, todo,
                   conn, queues>>

\* Mutant: without the test of SHOULD_SHUT_DOWN.
re_establish_unchecked(t) ==
    /\ In(t, "reest")
    /\ current_session_state' = "CLOSED"
    /\ Await(t, "connecting")
    /\ UNCHANGED <<SHOULD_SHUT_DOWN, reader, writer, drain_lock, network, cmd, todo, conn, queues>>

re_establish_conn_bind(t) ==
    /\ In(t, "reest")
    /\ current_session_state' = "CLOSED"
    /\ IF SHOULD_SHUT_DOWN THEN Goto(t, "return") ELSE Await(t, "connecting")
    /\ UNCHANGED <<SHOULD_SHUT_DOWN, reader, writer, drain_lock, network, cmd, todo, conn, queues>>

\* The second half of re_establish_conn_bind: bind if the session is OPEN, whoever
\* opened it.
tranceiver_bind(t) ==
    /\ In(t, "rebind")
    /\ IF current_session_state = "OPEN"
          THEN /\ Take(t, Of("bind_transceiver"))
               /\ Goto(t, "send")
          ELSE /\ Goto(t, "return")
               /\ UNCHANGED cmd
    /\ UNCHANGED <<session, SHOULD_SHUT_DOWN, drain_lock, network, todo, conn, queues>>
-----------------------------------------------------------------------------
(* send_data                                                               *)

\* Mutant: only a missing writer counts.
ConnectionGone_missingOnly == writer = NoConn

ConnectionGone == writer = NoConn \/ (writer # NoConn /\ Closing(writer))

\* The checks of the session state and of the transport.  In a CLOSED session the
\* PDU is dropped and only the connection is re-established; on a connection that
\* is closing the PDU is kept on the stack and written afterwards.
send_data(t) ==
    /\ In(t, "send")
    /\ \/ /\ current_session_state = "CLOSED"
          /\ Goto(t, "reest")
          /\ UNCHANGED todo
       \/ /\ current_session_state = "OPEN"
          /\ cmd[t].kind \notin {"enquire_link", "bind_transceiver"}
          /\ Goto(t, "return")
          /\ UNCHANGED todo
       \/ /\ \/ current_session_state = "BOUND_TRX"
             \/ /\ current_session_state = "OPEN"
                /\ cmd[t].kind \in {"enquire_link", "bind_transceiver"}
          /\ IF ConnectionGone
                THEN /\ Stack(t, <<cmd[t]>> \o todo[t])
                     /\ Goto(t, "reest")
                ELSE /\ Goto(t, "write")
                     /\ UNCHANGED todo
    /\ UNCHANGED <<session, SHOULD_SHUT_DOWN, drain_lock, network, cmd, conn, queues>>

\* await writer.drain() by the holder of the lock.  It suspends while the write buffer
\* is above its high-water mark, which a bind_transceiver alone does not fill, and to
\* let a lost connection be noticed; otherwise it returns at once.
Drain(t) ==
    IF writer = NoConn
       THEN Crash(t) /\ UNCHANGED <<drain_lock, conn>>
       ELSE /\ drain_lock' = t
            /\ WaitOn(t, writer)
            /\ IF writer \in loaded' \/ Closing(writer) THEN Await(t, "drain") ELSE Goto(t, "drain")

\* Mutant: drain without the lock.
LockAndDrain_unlocked(t) == Drain(t)

\* async with drain_lock: a free lock nobody waits for is taken at once.
LockAndDrain(t) ==
    IF drain_lock = NoTask /\ \A u \in Tasks : pc[u] # "lock"
       THEN Drain(t)
       ELSE Await(t, "lock") /\ UNCHANGED <<drain_lock, conn>>

\* Bytes written on a transport that is closing are discarded by asyncio; after
\* write_eof, closing or not, they raise.
write(t) ==
    /\ In(t, "write")
    /\ \/ /\ writer \in finSent \cup {NoConn}
          /\ Crash(t)
          /\ UNCHANGED <<first, bindSent, loaded, written, drain_lock, conn>>
       \/ /\ writer \notin finSent \cup {NoConn}
          /\ Closing(writer)
          /\ UNCHANGED <<first, bindSent, loaded, written>>
          /\ LockAndDrain(t)
       \/ /\ writer \notin finSent \cup {NoConn}
          /\ ~Closing(writer)
          /\ first' = [first EXCEPT ![writer] = IF @ = "none" THEN cmd[t].kind ELSE @]
          /\ IF cmd[t].kind = "bind_transceiver"
                THEN bindSent' = bindSent \cup {writer} /\ UNCHANGED loaded
                ELSE loaded' = loaded \cup {writer} /\ UNCHANGED bindSent
          /\ written' = IF cmd[t].kind = "submit_sm" THEN Append(written, cmd[t].id) ELSE written
          /\ LockAndDrain(t)
    /\ UNCHANGED <<session, SHOULD_SHUT_DOWN, net, finSent, older, cmd, todo, broker, submitted>>

acquire_drain_lock(t) ==
    /\ Resume(t, "lock")
    /\ drain_lock = NoTask
    /\ UNCHANGED <<session, SHOULD_SHUT_DOWN, network, cmd, todo, queues>>
    /\ Drain(t)

\* t is in writer.drain(), suspended or not.
InDrain(t) == In(t, "drain") \/ Resume(t, "drain")

\* What follows a completed _unbind_and_disconnect, and a completed send_data or
\* re_establish_conn_bind that no other send_data encloses.
AfterDisconnect(t) ==
    IF t = "shutdown" THEN Await(t, "linger") ELSE Goto(t, "noheader")

AfterSend(t) ==
    CASE t \in {"dequeue", "receive"} -> Goto(t, "loop")
      [] t = "enquire" -> Await(t, "sleep")
      [] OTHER -> Await(t, "done")

\* write_eof, then the writer and the state are reset.  Mutants: the state is not; it is one
\* that SmppSessionState does not have.
CloseWriter_keepsState ==
    /\ finSent' = finSent \cup {writer}
    /\ writer' = NoConn
    /\ UNCHANGED current_session_state

CloseWriter_unbound ==
    /\ finSent' = finSent \cup {writer}
    /\ writer' = NoConn
    /\ current_session_state' = "UNBOUND"

CloseWriter ==
    /\ finSent' = finSent \cup {writer}
    /\ writer' = NoConn
    /\ current_session_state' = "CLOSED"

\* The drain is over and the lock is free again.  A bind that was drained makes the
\* session BOUND_TRX; in _unbind_and_disconnect the half-close, the reset of the
\* writer and of the state follow (nobody has reset them under the lock, so that there
\* is a writer).
drained(t) ==
    /\ InDrain(t)
    /\ ~Closing(conn[t])
    /\ drain_lock' = NoTask
    /\ WaitOn(t, NoConn)
    /\ IF cmd[t].kind = Disconnect
          THEN /\ CloseWriter
               /\ AfterDisconnect(t)
               /\ UNCHANGED reader
          ELSE /\ current_session_state' = IF cmd[t].kind = "bind_transceiver" THEN "BOUND_TRX"
                                           ELSE current_session_state
               /\ Goto(t, "return")
               /\ UNCHANGED <<reader, writer, finSent>>
    /\ UNCHANGED <<SHOULD_SHUT_DOWN, net, first, bindSent, loaded, older, cmd, todo, queues>>

\* write_eof raises OSError (ENOTCONN), for a reset that the event loop has not come to
\* yet, or will not, having stopped reading at the eof of the SMSC.  The transport counts
\* its eof as written all the same.  The exception is logged; the writer and the state stay.
write_eof_error(t) ==
    /\ InDrain(t)
    /\ ~Closing(conn[t])
    /\ cmd[t].kind = Disconnect
    /\ writer \in Fragile \ finSent
    /\ ~Closing(writer)
    /\ finSent' = finSent \cup {writer}
    /\ drain_lock' = NoTask
    /\ WaitOn(t, NoConn)
    /\ AfterDisconnect(t)
    /\ UNCHANGED <<session, SHOULD_SHUT_DOWN, net, first, bindSent, loaded, older, cmd, todo, queues>>

\* Mutants: what a failed drain may have lost is written again; a failed disconnect
\* is tried again.
AfterDrainError_writesAgain(t) ==
    IF cmd[t].kind = Disconnect THEN AfterDisconnect(t) ELSE Goto(t, "write")

AfterDrainError_disconnectsAgain(t) ==
    IF cmd[t].kind = Disconnect THEN Goto(t, "disc") ELSE Goto(t, "return")

AfterDrainError(t) ==
    IF cmd[t].kind = Disconnect THEN AfterDisconnect(t) ELSE Goto(t, "return")

\* The drain raised ConnectionError: caught and logged.
drain_error(t) ==
    /\ InDrain(t)
    /\ Closing(conn[t])
    /\ drain_lock' = NoTask
    /\ WaitOn(t, NoConn)
    /\ AfterDrainError(t)
    /\ UNCHANGED <<session, SHOULD_SHUT_DOWN, network, cmd, todo, queues>>

\* Mutant: the sends that wait for the connection are forgotten.
returned_forgets(t) ==
    /\ In(t, "return")
    /\ AfterSend(t)
    /\ Take(t, Idle)
    /\ Stack(t, <<>>)
    /\ UNCHANGED <<session, SHOULD_SHUT_DOWN, drain_lock, network, conn, queues>>

\* re_establish_conn_bind or send_data returns to its caller: the enclosing
\* send_data goes on to write, the enclosing _unbind_and_disconnect to drain.
returned(t) ==
    /\ In(t, "return")
    /\ UNCHANGED <<session, SHOULD_SHUT_DOWN, network, queues>>
    /\ IF todo[t] = <<>>
          THEN /\ AfterSend(t)
               /\ Take(t, Idle)
               /\ UNCHANGED <<todo, drain_lock, conn>>
          ELSE /\ Take(t, Head(todo[t]))
               /\ Stack(t, Tail(todo[t]))
               /\ IF Head(todo[t]).kind = Disconnect
                     THEN LockAndDrain(t)
                     ELSE Goto(t, "write") /\ UNCHANGED <<drain_lock, conn>>
-----------------------------------------------------------------------------
(* enquire_link                                                            *)

\* The start-up sleep is repeated until the session is bound; nothing else ends it.
enquire_link_start ==
    /\ NapOver("enquire")
    /\ current_session_state = "BOUND_TRX"
    /\ Goto("enquire", "loop")
    /\ UNCHANGED <<session, SHOULD_SHUT_DOWN, drain_lock, network, cmd, todo, conn, queues>>

enquire_link ==
    /\ In("enquire", "loop")
    /\ IF SHOULD_SHUT_DOWN
          THEN Await("enquire", "done") /\ UNCHANGED cmd
          ELSE /\ Take("enquire", Of("enquire_link"))
               /\ Goto("enquire", "send")
    /\ UNCHANGED <<session, SHOULD_SHUT_DOWN, drain_lock, network, todo, conn, queues>>

\* A sleep after which a loop starts over: enquire_link_interval, throttle_delay, the
\* back-off after a failed dequeue or after a read that brought nothing.
slept(t) ==
    /\ Resume(t, "sleep")
    /\ Goto(t, "loop")
    /\ UNCHANGED <<session, SHOULD_SHUT_DOWN, drain_lock, network, cmd, todo, conn, queues>>
-----------------------------------------------------------------------------
(* dequeue_messages                                                        *)

dequeue_messages ==
    /\ In("dequeue", "loop")
    /\ \/ SHOULD_SHUT_DOWN /\ Await("dequeue", "done") /\ UNCHANGED older
       \/ ~SHOULD_SHUT_DOWN /\ current_session_state # "BOUND_TRX" /\ Nap("dequeue")
       \/ /\ ~SHOULD_SHUT_DOWN /\ current_session_state = "BOUND_TRX"
          /\ Goto("dequeue", "gate") /\ UNCHANGED older
    /\ UNCHANGED <<session, SHOULD_SHUT_DOWN, drain_lock, net, finSent, first, bindSent, loaded, cmd, todo,
                   conn, queues>>

\* The inner sleep is repeated until the session is bound; SHOULD_SHUT_DOWN is not
\* looked at.
dequeue_awaits_bound ==
    /\ NapOver("dequeue")
    /\ current_session_state = "BOUND_TRX"
    /\ Goto("dequeue", "gate")
    /\ UNCHANGED <<session, SHOULD_SHUT_DOWN, drain_lock, network, cmd, todo, conn, queues>>

\* allow_request says no and the loop sleeps for throttle_delay, or it says yes and
\* the loop waits for the rate limiter and then for a message.
dequeue_gate ==
    /\ In("dequeue", "gate")
    /\ Await("dequeue", "sleep") \/ Await("dequeue", "fetch")
    /\ UNCHANGED <<session, SHOULD_SHUT_DOWN, drain_lock, network, cmd, todo, conn, queues>>

\* broker.dequeue returns and the PDU is built.
dequeue_message ==
    /\ Resume("dequeue", "fetch")
    /\ broker # <<>>
    /\ broker' = Tail(broker)
    /\ Take("dequeue", Head(broker))
    /\ Goto("dequeue", "send")
    /\ UNCHANGED <<session, SHOULD_SHUT_DOWN, drain_lock, network, todo, conn, submitted, written>>

\* The PDU of a message cannot be built (text its encoding cannot express, a parameter
\* that does not fit its field): logged, and the message is gone.
build_error ==
    /\ Resume("dequeue", "fetch")
    /\ broker # <<>> /\ Head(broker).kind = "submit_sm"
    /\ broker' = Tail(broker)
    /\ Goto("dequeue", "loop")
    /\ UNCHANGED <<session, SHOULD_SHUT_DOWN, drain_lock, network, cmd, todo, conn, submitted, written>>

\* A broker that is a remote service fails to answer.
dequeue_error ==
    /\ Resume("dequeue", "fetch")
    /\ IF SHOULD_SHUT_DOWN THEN Await("dequeue", "done") ELSE Await("dequeue", "sleep")
    /\ UNCHANGED <<session, SHOULD_SHUT_DOWN, drain_lock, network, cmd, todo, conn, queues>>
-----------------------------------------------------------------------------
(* receive_data, command_handlers                                          *)

receive_data ==
    /\ In("receive", "loop")
    /\ \/ SHOULD_SHUT_DOWN /\ Await("receive", "done") /\ UNCHANGED <<older, conn>>
       \/ /\ ~SHOULD_SHUT_DOWN /\ current_session_state # "BOUND_TRX"
          /\ Nap("receive") /\ UNCHANGED conn
       \/ /\ ~SHOULD_SHUT_DOWN /\ current_session_state = "BOUND_TRX"
          /\ WaitOn("receive", reader)
          /\ Await("receive", "read") /\ UNCHANGED older
    /\ UNCHANGED <<session, SHOULD_SHUT_DOWN, drain_lock, net, finSent, first, bindSent, loaded, cmd, todo,
                   queues>>

\* The sleep of an unbound session is over: re-establish, whatever the state is now.
receive_nap_over ==
    /\ NapOver("receive")
    /\ Goto("receive", "reest")
    /\ UNCHANGED <<session, SHOULD_SHUT_DOWN, drain_lock, network, cmd, todo, conn, queues>>

HasBody(kind) == kind \in {"bind_transceiver_resp", "submit_sm_resp", "deliver_sm", "other"}

\* readexactly returns a header.  The body may have to be waited for; it is read from
\* client.reader as it is then.  An SMSC answers a bind only where one was sent.
receive_header ==
    /\ Resume("receive", "read")
    /\ net[conn["receive"]] \in {"up", "eof"}
    /\ \E kind \in SmscPdus :
          /\ kind = "bind_transceiver_resp" => conn["receive"] \in bindSent
          /\ Take("receive", Of(kind))
          /\ \/ /\ Goto("receive", "handle")
                /\ WaitOn("receive", NoConn)
             \/ /\ HasBody(kind)
                /\ Await("receive", "body")
                /\ WaitOn("receive", reader)
    /\ UNCHANGED <<session, SHOULD_SHUT_DOWN, drain_lock, network, todo, queues>>

\* IncompleteReadError: the stream ended.  Disconnect, and reconnect later.
receive_incomplete ==
    /\ Resume("receive", "read")
    /\ net[conn["receive"]] \in {"eof", "lost"}
    /\ WaitOn("receive", NoConn)
    /\ Goto("receive", "disc")
    /\ UNCHANGED <<session, SHOULD_SHUT_DOWN, drain_lock, network, cmd, todo, queues>>

\* Any other connection error is only logged.
receive_error ==
    /\ Resume("receive", "read")
    /\ net[conn["receive"]] = "lost"
    /\ WaitOn("receive", NoConn)
    /\ Goto("receive", "noheader")
    /\ UNCHANGED <<session, SHOULD_SHUT_DOWN, drain_lock, network, cmd, todo, queues>>

receive_nothing ==
    /\ In("receive", "noheader")
    /\ IF SHOULD_SHUT_DOWN THEN Await("receive", "done") ELSE Await("receive", "sleep")
    /\ UNCHANGED <<session, SHOULD_SHUT_DOWN, drain_lock, network, cmd, todo, conn, queues>>

\* A chunk of the body arrives: the last one, or one after which the next is read
\* from the client.reader of that moment.
receive_chunk ==
    /\ Resume("receive", "body")
    /\ net[conn["receive"]] \in {"up", "eof"}
    /\ \/ Goto("receive", "handle") /\ WaitOn("receive", NoConn)
       \/ Await("receive", "body") /\ WaitOn("receive", reader)
    /\ UNCHANGED <<session, SHOULD_SHUT_DOWN, drain_lock, network, cmd, todo, queues>>

receive_chunk_error ==
    /\ Resume("receive", "body")
    /\ net[conn["receive"]] \in {"eof", "lost"}
    /\ WaitOn("receive", NoConn)
    /\ IF SHOULD_SHUT_DOWN THEN Await("receive", "done") ELSE Await("receive", "bodynap")
    /\ UNCHANGED <<session, SHOULD_SHUT_DOWN, drain_lock, network, cmd, todo, queues>>

receive_bodynap_over ==
    /\ Resume("receive", "bodynap")
    /\ WaitOn("receive", reader)
    /\ Await("receive", "body")
    /\ UNCHANGED <<session, SHOULD_SHUT_DOWN, drain_lock, network, cmd, todo, queues>>

\* broker.enqueue inside send_message, deliver_sm_resp and enquire_link_resp: a full
\* queue raises, the exception is logged and the PDU is gone.
Enqueue(pdu) ==
    broker' = IF Len(broker) < MaxQueue THEN Append(broker, pdu) ELSE broker

\* Answers of the client that queue behind the messages, and one that does not.
deliver_sm_resp == Enqueue(Of("deliver_sm_resp"))
enquire_link_resp == Enqueue(Of("enquire_link_resp"))
unbind_resp ==
    /\ Take("receive", Of("unbind_resp"))
    /\ Goto("receive", "send")

\* The handler of one received PDU.  Its status may be unknown (nothing is done), an
\* error, or ESME_ROK; the latter two differ for a bind_transceiver_resp.
command_handlers ==
    /\ In("receive", "handle")
    /\ LET kind == cmd["receive"].kind
           handled == Take("receive", Idle) /\ Goto("receive", "loop")
       IN  \/ handled /\ UNCHANGED <<current_session_state, broker>>
           \/ /\ kind = "bind_transceiver_resp"
              /\ current_session_state' = "BOUND_TRX"
              /\ handled /\ UNCHANGED broker
           \/ kind = "unbind" /\ unbind_resp /\ UNCHANGED <<current_session_state, broker>>
           \/ kind = "deliver_sm" /\ deliver_sm_resp /\ handled /\ UNCHANGED current_session_state
           \/ kind = "enquire_link" /\ enquire_link_resp /\ handled /\ UNCHANGED current_session_state
    /\ UNCHANGED <<reader, writer, SHOULD_SHUT_DOWN, drain_lock, network, todo, conn,
                   submitted, written>>
-----------------------------------------------------------------------------
(* unbind, _unbind_and_disconnect, shutdown                                *)

unbind(t) ==
    /\ Take(t, Of("unbind"))
    /\ Goto(t, "send")

\* set_write_buffer_limits needs a writer; then unbind, and the drain that ends in
\* drained, write_eof_error or drain_error.
unbind_and_disconnect(t) ==
    /\ In(t, "disc")
    /\ IF writer = NoConn
          THEN Crash(t) /\ UNCHANGED <<cmd, todo>>
          ELSE unbind(t) /\ Stack(t, <<Of(Disconnect)>>)
    /\ UNCHANGED <<session, SHOULD_SHUT_DOWN, drain_lock, network, conn, queues>>

shutdown ==
    /\ Resume("shutdown", "idle")
    /\ SHOULD_SHUT_DOWN' = TRUE
    /\ Goto("shutdown", "disc")
    /\ UNCHANGED <<session, drain_lock, network, cmd, todo, conn, queues>>

\* The sleep of drain_duration is over.
shutdown_end ==
    /\ Resume("shutdown", "linger")
    /\ Await("shutdown", "done")
    /\ UNCHANGED <<session, SHOULD_SHUT_DOWN, drain_lock, network, cmd, todo, conn, queues>>
-----------------------------------------------------------------------------
(* The application and the network.                                        *)

send_message ==
    /\ running = NoTask
    /\ ~ProgramOver
    /\ submitted < MaxMessages
    /\ submitted' = submitted + 1
    /\ Enqueue(SubmitSM(submitted + 1))
    /\ UNCHANGED <<session, SHOULD_SHUT_DOWN, drain_lock, network, control, written>>

\* The SMSC closes its side (eof; the transport stays usable for writing), or the
\* connection breaks (lost).
network_failure(c) ==
    /\ running = NoTask
    /\ ~ProgramOver
    /\ c \in Fragile \/ c # writer
    /\ \/ net[c] = "up" /\ net' = [net EXCEPT ![c] = "eof"]
       \/ net[c] \in {"up", "eof"} /\ net' = [net EXCEPT ![c] = "lost"]
    /\ UNCHANGED <<session, SHOULD_SHUT_DOWN, drain_lock, finSent, first, bindSent, loaded, older, control, queues>>
-----------------------------------------------------------------------------
Connecting(t) == connect(t) \/ connect_error(t)
Draining(t) == drained(t) \/ write_eof_error(t) \/ drain_error(t)
Sending(t) ==
    \/ re_establish_conn_bind(t) \/ tranceiver_bind(t) \/ send_data(t) \/ write(t)
    \/ acquire_drain_lock(t) \/ returned(t) \/ unbind_and_disconnect(t) \/ slept(t)
Enquiring == enquire_link_start \/ enquire_link
Dequeuing == dequeue_messages \/ dequeue_awaits_bound \/ dequeue_gate \/ dequeue_message \/ build_error
Receiving ==
    \/ receive_data \/ receive_nap_over \/ receive_nothing \/ receive_bodynap_over
    \/ receive_incomplete \/ receive_error \/ receive_chunk_error \/ command_handlers

\* The steps the event loop owes coroutine t.
Step(t) ==
    \/ Connecting(t) \/ Draining(t) \/ Sending(t)
    \/ t = "enquire" /\ Enquiring
    \/ t = "dequeue" /\ Dequeuing
    \/ t = "receive" /\ Receiving
    \/ t = "shutdown" /\ shutdown_end

\* What the SMSC, the application, the operator, the broker's service and the network
\* decide.
Environment ==
    \/ receive_header \/ receive_chunk \/ dequeue_error \/ send_message \/ shutdown
    \/ \E c \in Conns : network_failure(c)

Next == (\E t \in Tasks : Step(t)) \/ Environment

Spec == Init /\ [][Next]_vars

\* The event loop serves its callbacks in order, so a coroutine that is ready again and
\* again gets its turn; open_connection ends within socket_timeout; a drain ends when
\* the peer reads or the connection breaks.
LoopFairness == \A t \in Tasks : SF_vars(Step(t))

\* The SMSC can be reached: of attempts made again and again one succeeds.
SmscReachable == SF_vars(\E t \in Tasks : connect(t))

FairSpec == Spec /\ LoopFairness /\ SmscReachable
-----------------------------------------------------------------------------
(* Properties.                                                             *)

\* No two coroutines are inside writer.drain() at the same time (issue 114, the reason
\* for drain_lock): whoever drains holds the lock, whoever holds the lock drains.
DrainExclusive == \A t \in Tasks : pc[t] = "drain" <=> drain_lock = t

\* A session that is OPEN has a writer, and so has one that is BOUND_TRX unless the
\* client is shutting down: the state and the writer are reset together, under the
\* drain lock, so that no bind can complete in between.
SessionHasWriter ==
    /\ current_session_state = "OPEN" => writer # NoConn
    /\ current_session_state = "BOUND_TRX" => writer # NoConn \/ SHOULD_SHUT_DOWN

\* A BOUND_TRX session is bound where it writes: a bind_transceiver has gone out on the
\* connection that client.writer is now, not only on one that has been replaced while
\* the bind was waiting for the drain lock.
BoundOnWriter == current_session_state = "BOUND_TRX" => writer \in bindSent \cup {NoConn}

\* Messages reach the network in the order the application submitted them, and each at
\* most once, however often the connection is lost and re-established.
AtMostOnceInOrder ==
    \A i, j \in 1 .. Len(written) : i < j => written[i] < written[j]

\* Where every connection is opened by re_establish_conn_bind, the first PDU written
\* on a connection is a bind_transceiver.
BindComesFirst ==
    "connect" \in Tasks \/ \A c \in Conns : first[c] \in {"none", "bind_transceiver"}

\* Once shutdown has begun and the connection attempts that were under way are over,
\* no coroutine starts another one and the session is never opened again
\* (the SHOULD_SHUT_DOWN test in re_establish_conn_bind covers every caller).
ShutdownIsFinal ==
    [][SHOULD_SHUT_DOWN /\ Attempts = {}
          => Attempts' = {} /\ (current_session_state' = "OPEN" => current_session_state = "OPEN")]_vars

\* What recovery from a lost connection leads to: a session bound on a live connection
\* (or the end of the client, or of the connections the bound Conns allows for).
Bound ==
    /\ current_session_state = "BOUND_TRX"
    /\ writer \in bindSent \ finSent
    /\ net[writer] # "lost"
Exhausted ==
    /\ \A c \in Conns : net[c] # "free"
    /\ current_session_state = "CLOSED" \/ ConnectionGone
Recovery == Bound \/ SHOULD_SHUT_DOWN \/ ProgramOver \/ Exhausted

\* A lost connection leads to a re-connect and a re-bind once enquire_link, on which the
\* client relies to notice a dead connection, has got past its start-up sleep.
Reconnects == (pc["enquire"] # "nap" /\ writer # NoConn /\ Closing(writer)) ~> Recovery

\* shutdown gets through its unbind, its drain and its sleep, whatever the other
\* coroutines are doing; it ends early only by an exception or with the program.
ShutdownEnds ==
    SHOULD_SHUT_DOWN ~> (pc["shutdown"] \in {"done", "crashed"} \/ ProgramOver)
=============================================================================
