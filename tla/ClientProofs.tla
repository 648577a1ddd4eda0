---------------------------- MODULE ClientProofs ----------------------------
(***************************************************************************)
(* Safety of the session core, for every set of coroutines, every set of   *)
(* connections and any number of messages.                                  *)
(***************************************************************************)
EXTENDS Client, TLAPS

USE DEF Crash, In, Resume

-----------------------------------------------------------------------------
(* The sets of strings, records and coroutines, and the elementary updates. *)

\* The places where a coroutine can be.
LEMMA LabelFacts ==
    /\ "idle" \in Labels /\ "connecting" \in Labels /\ "lock" \in Labels /\ "drain" \in Labels
    /\ "nap" \in Labels /\ "sleep" \in Labels /\ "fetch" \in Labels /\ "read" \in Labels
    /\ "body" \in Labels /\ "bodynap" \in Labels /\ "linger" \in Labels /\ "done" \in Labels
    /\ "crashed" \in Labels /\ "loop" \in Labels /\ "gate" \in Labels /\ "send" \in Labels
    /\ "reest" \in Labels /\ "rebind" \in Labels /\ "write" \in Labels /\ "return" \in Labels
    /\ "handle" \in Labels /\ "noheader" \in Labels /\ "disc" \in Labels
  BY DEF Labels, Suspended, InControl

\* The commands, and that _unbind_and_disconnect is not one of them.
LEMMA CommandFacts ==
    /\ "bind_transceiver" \in SmppCommand /\ "bind_transceiver_resp" \in SmppCommand
    /\ "unbind" \in SmppCommand /\ "unbind_resp" \in SmppCommand
    /\ "submit_sm" \in SmppCommand /\ "submit_sm_resp" \in SmppCommand
    /\ "deliver_sm" \in SmppCommand /\ "deliver_sm_resp" \in SmppCommand
    /\ "enquire_link" \in SmppCommand /\ "enquire_link_resp" \in SmppCommand
    /\ "other" \in SmppCommand
    /\ Disconnect \notin SmppCommand
  BY DEF SmppCommand, Disconnect

\* What the constructors of PDUs yield.
LEMMA PduFacts ==
    /\ \A kind \in SmppCommand \cup {Disconnect} : Of(kind) \in Pdu /\ Of(kind).kind = kind
    /\ \A n \in Nat : SubmitSM(n) \in Pdu /\ SubmitSM(n).kind = "submit_sm"
    /\ Idle \in Pdu /\ Idle.kind = "other"
    /\ \A p \in Pdu : p.kind \in SmppCommand \cup {Disconnect} /\ p.id \in Nat
  BY CommandFacts DEF Pdu, Of, Idle, SubmitSM

\* No coroutine is mistaken for a lock that is free.
LEMMA TaskFacts == NoTask \notin Tasks
  BY ClientAssumption, Zenon DEF AllTasks

\* TypeOK in groups: what belongs to one coroutine, the session, the network, the queues.
ControlTypes == running \in Tasks \cup {NoTask} /\ pc \in [Tasks -> Labels]
CmdTypes == cmd \in [Tasks -> Pdu]
TodoTypes == todo \in [Tasks -> Seq(Pdu)]
ConnTypes == conn \in [Tasks -> Conns \cup {NoConn}]
LockTypes == drain_lock \in Tasks \cup {NoTask}
FlagTypes == SHOULD_SHUT_DOWN \in BOOLEAN

SessionTypes ==
    /\ current_session_state \in SmppSessionState
    /\ reader \in Conns \cup {NoConn}
    /\ writer \in Conns \cup {NoConn}

NetTypes == net \in [Conns -> {"free", "up", "eof", "lost"}]
WireTypes ==
    /\ finSent \in SUBSET Conns
    /\ first \in [Conns -> SmppCommand \cup {"none"}]
    /\ bindSent \in SUBSET Conns
    /\ loaded \in SUBSET Conns
OlderTypes == older \in [Tasks -> SUBSET Tasks]

BrokerTypes == broker \in Seq(Pdu)
MessageTypes == submitted \in Nat /\ written \in Seq(Nat)

Typed ==
    /\ ControlTypes /\ CmdTypes /\ TodoTypes /\ ConnTypes /\ LockTypes /\ FlagTypes
    /\ SessionTypes /\ NetTypes /\ WireTypes /\ OlderTypes /\ BrokerTypes /\ MessageTypes

\* The groups make up TypeOK.
LEMMA TypeGroups == (TypeOK <=> Typed) /\ (TypeOK <=> Typed)'
  BY DEF TypeOK, Typed, ControlTypes, CmdTypes, TodoTypes, ConnTypes, LockTypes, FlagTypes, SessionTypes,
     NetTypes, WireTypes, OlderTypes, BrokerTypes, MessageTypes

\* What an action leaves alone keeps its type.
LEMMA Stays ==
  ASSUME Typed
  PROVE  /\ UNCHANGED cmd => CmdTypes'
         /\ UNCHANGED todo => TodoTypes'
         /\ UNCHANGED conn => ConnTypes'
         /\ UNCHANGED drain_lock => LockTypes'
         /\ UNCHANGED SHOULD_SHUT_DOWN => FlagTypes'
         /\ UNCHANGED session => SessionTypes'
         /\ UNCHANGED network => NetTypes' /\ WireTypes' /\ OlderTypes'
         /\ UNCHANGED net => NetTypes'
         /\ UNCHANGED <<finSent, first, bindSent, loaded>> => WireTypes'
         /\ UNCHANGED older => OlderTypes'
         /\ UNCHANGED queues => BrokerTypes' /\ MessageTypes'
         /\ UNCHANGED broker => BrokerTypes'
         /\ UNCHANGED <<submitted, written>> => MessageTypes'
  BY DEF Typed, CmdTypes, TodoTypes, ConnTypes, LockTypes, FlagTypes, SessionTypes, NetTypes, WireTypes,
     OlderTypes, BrokerTypes, MessageTypes, session, network, queues

\* Goto and Await move one coroutine and no other.
LEMMA Moves ==
  ASSUME TypeOK, NEW t \in Tasks, NEW l, Goto(t, l) \/ Await(t, l)
  PROVE  pc'[t] = l /\ \A u \in Tasks : u # t => pc'[u] = pc[u]
  BY DEF TypeOK, Goto, Await

\* A move to a label keeps the program counters typed.
LEMMA MovesTyped ==
  ASSUME Typed, NEW t \in Tasks, NEW l \in Labels, Goto(t, l) \/ Await(t, l)
  PROVE  ControlTypes'
  BY DEF Typed, ControlTypes, Goto, Await

\* The PDU in hand that changes is that of one coroutine.
LEMMA Takes ==
  ASSUME TypeOK, NEW t \in Tasks, NEW p, Take(t, p)
  PROVE  cmd'[t] = p /\ \A u \in Tasks : u # t => cmd'[u] = cmd[u]
  BY DEF TypeOK, Take

\* A PDU taken in hand keeps the PDUs in hand typed.
LEMMA TakesTyped ==
  ASSUME Typed, NEW t \in Tasks, NEW p \in Pdu, Take(t, p)
  PROVE  CmdTypes'
  BY DEF Typed, CmdTypes, Take

\* A stack that is replaced is that of one coroutine.
LEMMA Stacks ==
  ASSUME TypeOK, NEW t \in Tasks, NEW ps, Stack(t, ps)
  PROVE  todo'[t] = ps /\ \A u \in Tasks : u # t => todo'[u] = todo[u]
  BY DEF TypeOK, Stack

\* A stack of PDUs keeps the stacks typed.
LEMMA StacksTyped ==
  ASSUME Typed, NEW t \in Tasks, NEW ps \in Seq(Pdu), Stack(t, ps)
  PROVE  TodoTypes'
  BY DEF Typed, TodoTypes, Stack

\* Awaiting on a connection, or on none, keeps the awaited connections typed.
LEMMA WaitsTyped ==
  ASSUME Typed, NEW t \in Tasks, NEW c \in Conns \cup {NoConn}, WaitOn(t, c)
  PROVE  ConnTypes'
  BY DEF Typed, ConnTypes, WaitOn

\* The connections an action may wait on.
LEMMA ConnFacts ==
  ASSUME Typed
  PROVE  NoConn \in Conns \cup {NoConn} /\ reader \in Conns \cup {NoConn} /\ writer \in Conns \cup {NoConn}
  BY DEF Typed, SessionTypes

\* What awaiting the drain does: t ends up in drain, waiting for the lock, or crashed.
LEMMA Drains ==
  ASSUME TypeOK, NEW t \in Tasks, LockAndDrain(t) \/ Drain(t)
  PROVE  /\ pc'[t] \in {"lock", "drain", "crashed"}
         /\ \A u \in Tasks : u # t => pc'[u] = pc[u]
  <1>1. \E l \in {"lock", "drain", "crashed"} : Goto(t, l) \/ Await(t, l)
    BY DEF LockAndDrain, Drain
  <1>2. QED
    BY <1>1, Moves

\* It keeps the types of the control, of the awaited connections and of the lock.
LEMMA DrainsTyped ==
  ASSUME Typed, NEW t \in Tasks, LockAndDrain(t) \/ Drain(t)
  PROVE  ControlTypes' /\ ConnTypes' /\ LockTypes'
  <1>1. \E l \in {"lock", "drain", "crashed"} : Goto(t, l) \/ Await(t, l)
    BY DEF LockAndDrain, Drain
  <1>2. ControlTypes'
    BY <1>1, MovesTyped, LabelFacts
  <1>3. UNCHANGED conn \/ WaitOn(t, writer)
    BY DEF LockAndDrain, Drain
  <1>4. ConnTypes'
    BY <1>3, Stays, WaitsTyped, ConnFacts
  <1>5. drain_lock' \in {t, drain_lock}
    BY DEF LockAndDrain, Drain
  <1>6. QED
    BY <1>2, <1>4, <1>5 DEF Typed, LockTypes
-----------------------------------------------------------------------------
(* Type correctness.                                                       *)

\* The PDUs proper: everything but _unbind_and_disconnect.
SmppPdus == {p \in Pdu : p.kind # Disconnect}

\* What is on a coroutine's stack, and in the broker.  Only receive_data and shutdown ever
\* disconnect, the latter once it has set SHOULD_SHUT_DOWN, and _unbind_and_disconnect is
\* never taken for a PDU to be written.
Frames ==
    /\ broker \in Seq(SmppPdus)
    /\ \A t \in Tasks :
          /\ pc[t] \in {"send", "write"} => cmd[t].kind # Disconnect
          /\ pc[t] = "disc" => t \in {"receive", "shutdown"}
          /\ t \notin {"receive", "shutdown"} =>
                cmd[t].kind # Disconnect /\ todo[t] \in Seq(SmppPdus)
          /\ t = "shutdown" /\ pc[t] # "idle" => SHOULD_SHUT_DOWN

\* Nobody resets the writer while a drain is under way.
LockedWriter == drain_lock # NoTask => writer # NoConn

\* Which of the constructors yield a PDU proper.
LEMMA SmppPduFacts ==
    /\ \A kind \in SmppCommand : Of(kind) \in SmppPdus
    /\ \A n \in Nat : SubmitSM(n) \in SmppPdus
    /\ Idle \in SmppPdus
    /\ \A p \in Pdu : p \in SmppPdus <=> p.kind # Disconnect
    /\ \A p \in SmppPdus : p \in Pdu
  BY PduFacts, CommandFacts DEF SmppPdus

\* The coroutines start, in a CLOSED session, with nothing in hand.
LEMMA TypeInit == Init => TypeOK /\ Frames
  <1> SUFFICES ASSUME Init PROVE TypeOK /\ Frames
    OBVIOUS
  <1>1. pc \in [Tasks -> Labels] /\ \A t \in Tasks : pc[t] \in {"connecting", "nap", "idle"}
    BY ClientAssumption, LabelFacts DEF Init, FirstAwait, AllTasks
  <1>2. cmd \in [Tasks -> Pdu] /\ todo \in [Tasks -> Seq(Pdu)] /\ conn \in [Tasks -> Conns \cup {NoConn}]
    BY PduFacts DEF Init
  <1>3. older \in [Tasks -> SUBSET Tasks]
    BY DEF Init, Attempts
  <1>4. net \in [Conns -> {"free", "up", "eof", "lost"}] /\ first \in [Conns -> SmppCommand \cup {"none"}]
    BY DEF Init
  <1>5. /\ finSent \in SUBSET Conns /\ bindSent \in SUBSET Conns /\ loaded \in SUBSET Conns
        /\ broker \in Seq(Pdu) /\ broker \in Seq(SmppPdus) /\ written \in Seq(Nat)
    BY DEF Init
  <1>6. current_session_state \in SmppSessionState /\ SHOULD_SHUT_DOWN \in BOOLEAN /\ submitted \in Nat
    BY Zenon DEF Init, SmppSessionState
  <1>7. /\ reader = NoConn /\ writer = NoConn /\ drain_lock = NoTask /\ running = NoTask
        /\ \A t \in Tasks : cmd[t].kind # Disconnect /\ todo[t] \in Seq(SmppPdus)
    BY PduFacts, CommandFacts DEF Init
  <1>8. TypeOK
    BY <1>1, <1>2, <1>3, <1>4, <1>5, <1>6, <1>7 DEF TypeOK
  <1>9. \A t \in Tasks : t = "shutdown" => pc[t] = "idle"
    BY DEF Init, FirstAwait
  <1>10. Frames
    BY <1>1, <1>5, <1>7, <1>9 DEF Frames
  <1>11. QED
    BY <1>8, <1>10

\* Every action keeps the types; a half-close (write_eof) needs the writer that the lock
\* keeps in place, a write the PDU proper that Frames promises.
LEMMA TypeStep ==
  ASSUME Typed, Frames, DrainExclusive, LockedWriter, [Next]_vars
  PROVE  Typed'
  <1> USE LabelFacts, Stays, MovesTyped DEF Typed
  <1>1. ASSUME NEW t \in Tasks, Connecting(t) PROVE Typed'
    <2>1. ControlTypes'
      BY <1>1, Zenon DEF Connecting, connect, connect_error, AfterConnect
    <2>2. OlderTypes'
      BY <1>1, Zenon DEF Connecting, connect, connect_error, AfterConnect, OlderTypes
    <2>3. CASE connect(t)
      <3>1. NetTypes' /\ SessionTypes'
        BY <2>3, Zenon DEF connect, UseConnection, NetTypes, SessionTypes, SmppSessionState
      <3>2. QED
        BY <2>1, <2>2, <2>3, <3>1, Zenon DEF connect
    <2>4. CASE connect_error(t)
      BY <2>1, <2>2, <2>4 DEF connect_error
    <2>5. QED
      BY <1>1, <2>3, <2>4, Zenon DEF Connecting
  <1>2. ASSUME NEW t \in Tasks, re_establish_conn_bind(t) PROVE Typed'
    <2>1. SessionTypes'
      BY <1>2, Zenon DEF re_establish_conn_bind, SessionTypes, SmppSessionState
    <2>2. QED
      BY <1>2, <2>1 DEF re_establish_conn_bind
  <1>3. ASSUME NEW t \in Tasks, tranceiver_bind(t) PROVE Typed'
    <2>1. CmdTypes'
      BY <1>3, TakesTyped, PduFacts, CommandFacts, Zenon DEF tranceiver_bind
    <2>2. QED
      BY <1>3, <2>1 DEF tranceiver_bind
  <1>4. ASSUME NEW t \in Tasks, send_data(t) PROVE Typed'
    <2>1. <<cmd[t]>> \o todo[t] \in Seq(Pdu)
      BY DEF CmdTypes, TodoTypes
    <2>2. TodoTypes'
      BY <1>4, <2>1, StacksTyped, Zenon DEF send_data
    <2>3. ControlTypes'
      BY <1>4, Zenon DEF send_data
    <2>4. QED
      BY <1>4, <2>2, <2>3, Zenon DEF send_data
  <1>5. ASSUME NEW t \in Tasks, write(t) PROVE Typed'
    <2>1. cmd[t].kind \in SmppCommand /\ cmd[t].id \in Nat
      BY <1>5, PduFacts, Zenon DEF write, CmdTypes, Frames
    <2>2. ControlTypes' /\ ConnTypes' /\ LockTypes'
      BY <1>5, DrainsTyped, Zenon DEF write
    <2>3. CASE UNCHANGED <<first, bindSent, loaded, written>>
      BY <1>5, <2>2, <2>3, Zenon DEF write
    <2>4. CASE writer \notin finSent \cup {NoConn} /\ ~Closing(writer)
      <3>1. writer \in Conns
        BY <2>4 DEF SessionTypes
      <3>2. first' \in [Conns -> SmppCommand \cup {"none"}]
        BY <1>5, <2>1, <2>4, <3>1, Zenon DEF write, WireTypes
      <3>3. bindSent' \in SUBSET Conns /\ loaded' \in SUBSET Conns /\ finSent' \in SUBSET Conns
        <4>1. /\ bindSent' \in {bindSent, bindSent \cup {writer}}
              /\ loaded' \in {loaded, loaded \cup {writer}}
              /\ finSent' = finSent
          BY <1>5, <2>4, Zenon DEF write
        <4>2. QED
          BY <3>1, <4>1, Zenon DEF WireTypes
      <3>4. Append(written, cmd[t].id) \in Seq(Nat)
        BY <2>1 DEF MessageTypes
      <3>5. MessageTypes'
        BY <1>5, <2>4, <3>4, Zenon DEF write, MessageTypes
      <3>6. WireTypes'
        BY <3>2, <3>3, Zenon DEF WireTypes
      <3>7. QED
        BY <1>5, <2>2, <3>5, <3>6, Zenon DEF write
    <2>5. QED
      BY <1>5, <2>3, <2>4, Zenon DEF write
  <1>6. ASSUME NEW t \in Tasks, acquire_drain_lock(t) PROVE Typed'
    BY <1>6, DrainsTyped, Zenon DEF acquire_drain_lock
  <1>7. ASSUME NEW t \in Tasks, returned(t) PROVE Typed'
    <2>1. CASE todo[t] = <<>>
      <3>1. ControlTypes'
        BY <1>7, <2>1 DEF returned, AfterSend
      <3>2. CmdTypes'
        BY <1>7, <2>1, TakesTyped, PduFacts, Zenon DEF returned
      <3>3. QED
        BY <1>7, <2>1, <3>1, <3>2, Zenon DEF returned
    <2>2. CASE todo[t] # <<>>
      <3>1. Head(todo[t]) \in Pdu /\ Tail(todo[t]) \in Seq(Pdu)
        BY <2>2 DEF TodoTypes
      <3>2. CmdTypes' /\ TodoTypes'
        BY <1>7, <2>2, <3>1, TakesTyped, StacksTyped, Zenon DEF returned
      <3>3. ControlTypes' /\ ConnTypes' /\ LockTypes'
        BY <1>7, <2>2, DrainsTyped, Zenon DEF returned
      <3>4. QED
        BY <1>7, <3>2, <3>3, Zenon DEF returned
    <2>3. QED
      BY <2>1, <2>2, Zenon
  <1>8. ASSUME NEW t \in Tasks, unbind_and_disconnect(t) PROVE Typed'
    <2>1. <<Of(Disconnect)>> \in Seq(Pdu) /\ Of("unbind") \in Pdu
      BY PduFacts, CommandFacts
    <2>2. CmdTypes' /\ TodoTypes'
      BY <1>8, <2>1, TakesTyped, StacksTyped, Zenon DEF unbind_and_disconnect, unbind
    <2>3. QED
      BY <1>8, <2>2, Zenon DEF unbind_and_disconnect, unbind
  <1>9. ASSUME NEW t \in Tasks, slept(t) PROVE Typed'
    BY <1>9, Zenon DEF slept
  <1>10. ASSUME NEW t \in Tasks, drained(t) PROVE Typed'
    <2>1. writer \in Conns
      BY <1>10, TaskFacts, Zenon DEF drained, InDrain, DrainExclusive, LockedWriter, SessionTypes
    <2>2. ControlTypes' /\ ConnTypes'
      BY <1>10, WaitsTyped, ConnFacts, Zenon DEF drained, AfterDisconnect
    <2>3. SessionTypes'
      BY <1>10, Zenon DEF drained, CloseWriter, SessionTypes, SmppSessionState
    <2>4. WireTypes'
      BY <1>10, <2>1, Zenon DEF drained, CloseWriter, WireTypes
    <2>5. LockTypes'
      BY <1>10, Zenon DEF drained, LockTypes
    <2>6. QED
      BY <1>10, <2>2, <2>3, <2>4, <2>5, Zenon DEF drained
  <1>11. ASSUME NEW t \in Tasks, drain_error(t) \/ write_eof_error(t) PROVE Typed'
    <2>1. ControlTypes' /\ ConnTypes'
      BY <1>11, WaitsTyped, ConnFacts, Zenon DEF drain_error, write_eof_error, AfterDrainError, AfterDisconnect
    <2>2. LockTypes'
      BY <1>11, Zenon DEF drain_error, write_eof_error, LockTypes
    <2>3. CASE drain_error(t)
      BY <2>1, <2>2, <2>3, Zenon DEF drain_error
    <2>4. CASE write_eof_error(t)
      <3>1. WireTypes'
        BY <2>4, ClientAssumption, Zenon DEF write_eof_error, WireTypes
      <3>2. QED
        BY <2>1, <2>2, <2>4, <3>1, Zenon DEF write_eof_error
    <2>5. QED
      BY <1>11, <2>3, <2>4
  <1>12. CASE Enquiring
    <2>1. CmdTypes'
      BY <1>12, TakesTyped, PduFacts, CommandFacts, Zenon DEF Enquiring, enquire_link_start, enquire_link, NapOver
    <2>2. QED
      BY <1>12, <2>1, Zenon DEF Enquiring, enquire_link_start, enquire_link, NapOver
  <1>13. ASSUME NEW t \in Tasks, Nap(t) PROVE OlderTypes'
    <2>1. Attempts \in SUBSET Tasks
      BY DEF Attempts
    <2>2. QED
      BY <1>13, <2>1, Zenon DEF Nap, OlderTypes
  <1>14. CASE Dequeuing
    <2>1. CASE dequeue_messages
      <3>1. OlderTypes'
        BY <2>1, <1>13, Zenon DEF dequeue_messages
      <3>2. QED
        BY <2>1, <3>1, Zenon DEF dequeue_messages, Nap
    <2>2. CASE dequeue_awaits_bound \/ dequeue_gate
      BY <2>2, Zenon DEF dequeue_awaits_bound, dequeue_gate, NapOver
    <2>3. CASE dequeue_message
      <3>1. Head(broker) \in Pdu /\ BrokerTypes'
        BY <2>3 DEF BrokerTypes, dequeue_message
      <3>2. QED
        BY <2>3, <3>1, TakesTyped, Zenon DEF dequeue_message
    <2>4. CASE build_error
      <3>1. BrokerTypes'
        BY <2>4 DEF BrokerTypes, build_error
      <3>2. QED
        BY <2>4, <3>1, Zenon DEF build_error
    <2>5. QED
      BY <1>14, <2>1, <2>2, <2>3, <2>4, Zenon DEF Dequeuing
  <1>15. CASE Receiving
    <2> USE WaitsTyped, ConnFacts
    <2>1. CASE receive_data
      <3>1. OlderTypes'
        BY <2>1, <1>13, Zenon DEF receive_data
      <3>2. QED
        BY <2>1, <3>1, Zenon DEF receive_data, Nap
    <2>2. CASE receive_nap_over \/ receive_nothing \/ receive_bodynap_over
      BY <2>2, Zenon DEF receive_nap_over, receive_nothing, receive_bodynap_over, NapOver
    <2>3. CASE receive_incomplete \/ receive_error \/ receive_chunk_error
      BY <2>3, Zenon DEF receive_incomplete, receive_error, receive_chunk_error
    <2>4. CASE command_handlers
      <3>1. \A kind \in SmppCommand : Enqueue(Of(kind)) => BrokerTypes'
        BY PduFacts, SMTT(20) DEF Enqueue, BrokerTypes
      <3>2. BrokerTypes'
        BY <2>4, <3>1, CommandFacts, Zenon DEF command_handlers, deliver_sm_resp, enquire_link_resp
      <3>3. SessionTypes'
        BY <2>4, Zenon DEF command_handlers, SessionTypes, SmppSessionState
      <3>4. CmdTypes'
        BY <2>4, TakesTyped, PduFacts, CommandFacts, Zenon DEF command_handlers, unbind_resp
      <3>5. QED
        BY <2>4, <3>2, <3>3, <3>4, Zenon DEF command_handlers, unbind_resp
    <2>5. QED
      BY <1>15, <2>1, <2>2, <2>3, <2>4, Zenon DEF Receiving
  <1>16. CASE shutdown_end \/ dequeue_error
    BY <1>16, Zenon DEF shutdown_end, dequeue_error
  <1>17. CASE receive_header
    <2>1. CmdTypes'
      BY <1>17, TakesTyped, PduFacts, ClientAssumption, Zenon DEF receive_header
    <2>2. QED
      BY <1>17, <2>1, WaitsTyped, ConnFacts, Zenon DEF receive_header
  <1>18. CASE receive_chunk
    BY <1>18, WaitsTyped, ConnFacts, Zenon DEF receive_chunk
  <1>19. CASE send_message
    <2>1. BrokerTypes' /\ MessageTypes'
      BY <1>19, PduFacts DEF send_message, Enqueue, BrokerTypes, MessageTypes
    <2>2. QED
      BY <1>19, <2>1, Zenon DEF send_message, control, ControlTypes
  <1>20. CASE shutdown
    BY <1>20, Zenon DEF shutdown, FlagTypes
  <1>21. ASSUME NEW c \in Conns, network_failure(c) PROVE Typed'
    <2>1. NetTypes'
      BY <1>21, Zenon DEF network_failure, NetTypes
    <2>2. QED
      BY <1>21, <2>1, Zenon DEF network_failure, control, ControlTypes
  <1>22. CASE UNCHANGED vars
    BY <1>22, Zenon DEF vars, control, ControlTypes
  <1>23. QED
    BY Zenon, <1>1, <1>2, <1>3, <1>4, <1>5, <1>6, <1>7, <1>8, <1>9, <1>10, <1>11, <1>12, <1>14, <1>15, <1>16,
       <1>17, <1>18, <1>19, <1>20, <1>21, <1>22
       DEF Next, Step, Environment, Draining, Sending

USE DEF session, network, control, queues
-----------------------------------------------------------------------------
(* The drain lock and the writer.                                          *)

\* The only actions that touch the session state, the reader or the writer.
LEMMA SessionSteps ==
  ASSUME [Next]_vars
  PROVE  \/ \E t \in Tasks : connect(t) \/ re_establish_conn_bind(t) \/ drained(t)
         \/ command_handlers
         \/ UNCHANGED session
  <1>1. ASSUME NEW t \in Tasks, Sending(t), ~re_establish_conn_bind(t) PROVE UNCHANGED session
    BY <1>1, Zenon DEF Sending, tranceiver_bind, send_data, write, acquire_drain_lock, returned,
       unbind_and_disconnect, slept
  <1>2. ASSUME NEW t \in Tasks, connect_error(t) \/ write_eof_error(t) \/ drain_error(t) PROVE UNCHANGED session
    BY <1>2, Zenon DEF connect_error, write_eof_error, drain_error
  <1>3. Enquiring \/ Dequeuing \/ shutdown_end => UNCHANGED session
    BY Zenon DEF Enquiring, enquire_link_start, enquire_link, Dequeuing, dequeue_messages, dequeue_awaits_bound,
       dequeue_gate, dequeue_message, build_error, shutdown_end
  <1>4. Receiving => command_handlers \/ UNCHANGED session
    BY Zenon DEF Receiving, receive_data, receive_nap_over, receive_nothing, receive_bodynap_over,
       receive_incomplete, receive_error, receive_chunk_error
  <1>5. Environment => UNCHANGED session
    BY Zenon DEF Environment, receive_header, receive_chunk, dequeue_error, send_message, shutdown, network_failure
  <1>6. QED
    BY <1>1, <1>2, <1>3, <1>4, <1>5 DEF Next, Step, Connecting, Draining, Sending, vars

\* Pushing, queueing and popping keep the elements of a sequence in a set.
LEMMA SequenceFacts ==
  ASSUME NEW S, NEW s \in Seq(S)
  PROVE  /\ \A x \in S : <<x>> \o s \in Seq(S) /\ Append(s, x) \in Seq(S)
         /\ s # <<>> => Head(s) \in S /\ Tail(s) \in Seq(S)
  OBVIOUS

\* A step of t that leaves the broker, t's PDU and its stack alone.
LEMMA QuietStep ==
  ASSUME TypeOK, Frames, NEW t \in Tasks, NEW l,
         UNCHANGED <<broker, cmd, todo>>, SHOULD_SHUT_DOWN => SHOULD_SHUT_DOWN',
         Goto(t, l) \/ Await(t, l),
         l \in {"send", "write"} => cmd[t].kind # Disconnect,
         l = "disc" => t \in {"receive", "shutdown"},
         t = "shutdown" => pc[t] # "idle" \/ SHOULD_SHUT_DOWN'
  PROVE  Frames'
  BY Moves DEF Frames

\* A step of t that leaves the frames of the others alone.
LEMMA OneFrame ==
  ASSUME Frames, NEW t \in Tasks, broker' \in Seq(SmppPdus), UNCHANGED SHOULD_SHUT_DOWN,
         \A u \in Tasks : u # t => pc'[u] = pc[u] /\ cmd'[u] = cmd[u] /\ todo'[u] = todo[u],
         pc'[t] \in {"send", "write"} => cmd'[t].kind # Disconnect,
         pc'[t] # "disc",
         t \notin {"receive", "shutdown"} => cmd'[t].kind # Disconnect /\ todo'[t] \in Seq(SmppPdus),
         t = "shutdown" => pc[t] # "idle"
  PROVE  Frames'
  BY Zenon DEF Frames

\* Every action keeps the stacks and the broker in order.
LEMMA FramesStep ==
  ASSUME TypeOK, Frames, [Next]_vars
  PROVE  Frames'
  <1>1. ASSUME NEW t \in Tasks, Connecting(t) PROVE Frames'
    BY <1>1, QuietStep DEF Connecting, connect, connect_error, AfterConnect
  <1>2. ASSUME NEW t \in Tasks, re_establish_conn_bind(t) \/ slept(t) \/ drain_error(t) \/ write_eof_error(t)
        PROVE  Frames'
    BY <1>2, QuietStep DEF re_establish_conn_bind, slept, drain_error, write_eof_error, InDrain, AfterDrainError,
       AfterDisconnect
  <1>3. ASSUME NEW t \in Tasks, drained(t) PROVE Frames'
    BY <1>3, QuietStep, Zenon DEF drained, InDrain, AfterDisconnect
  <1>4. ASSUME NEW t \in Tasks, tranceiver_bind(t) PROVE Frames'
    <2>1. CASE current_session_state = "OPEN"
      <3>1. /\ pc'[t] = "send" /\ cmd'[t] = Of("bind_transceiver")
            /\ \A u \in Tasks : u # t => pc'[u] = pc[u] /\ cmd'[u] = cmd[u]
        BY <1>4, <2>1, Moves, Takes, Zenon DEF tranceiver_bind
      <3>2. cmd'[t].kind # Disconnect
        BY <3>1, PduFacts, CommandFacts
      <3>3. QED
        BY <1>4, <3>1, <3>2, OneFrame, Zenon DEF tranceiver_bind, Frames
    <2>2. CASE current_session_state # "OPEN"
      BY <1>4, <2>2, QuietStep DEF tranceiver_bind
    <2>3. QED
      BY <2>1, <2>2
  <1>5. ASSUME NEW t \in Tasks, send_data(t) PROVE Frames'
    <2>1. cmd[t] \in Pdu /\ todo[t] \in Seq(Pdu) /\ cmd[t].kind # Disconnect
      BY <1>5, Zenon DEF TypeOK, send_data, Frames
    <2>2. /\ <<cmd[t]>> \o todo[t] \in Seq(Pdu)
          /\ todo[t] \in Seq(SmppPdus) => <<cmd[t]>> \o todo[t] \in Seq(SmppPdus)
      BY <2>1, SmppPduFacts, SequenceFacts, Zenon
    <2>3. CASE UNCHANGED todo
      <3>1. Goto(t, "reest") \/ Goto(t, "return") \/ Goto(t, "write")
        BY <1>5, Zenon DEF send_data
      <3>2. QED
        BY <1>5, <2>1, <2>3, <3>1, QuietStep, Zenon DEF send_data
    <2>4. CASE Stack(t, <<cmd[t]>> \o todo[t]) /\ Goto(t, "reest")
      <3>1. /\ pc'[t] = "reest" /\ todo'[t] = <<cmd[t]>> \o todo[t]
            /\ \A u \in Tasks : u # t => pc'[u] = pc[u] /\ todo'[u] = todo[u]
        <4>1. pc'[t] = "reest" /\ \A u \in Tasks : u # t => pc'[u] = pc[u]
          BY <2>4, Moves, Zenon
        <4>2. todo'[t] = <<cmd[t]>> \o todo[t] /\ \A u \in Tasks : u # t => todo'[u] = todo[u]
          BY <2>2, <2>4, Stacks, Zenon
        <4>3. QED
          BY <4>1, <4>2
      <3>2. UNCHANGED <<cmd, broker, SHOULD_SHUT_DOWN>> /\ pc[t] = "send"
        BY <1>5, Zenon DEF send_data
      <3>3. broker' \in Seq(SmppPdus) /\ (t \notin {"receive", "shutdown"} => todo[t] \in Seq(SmppPdus))
        BY <3>2 DEF Frames
      <3>4. QED
        BY <2>1, <2>2, <3>1, <3>2, <3>3, OneFrame, Zenon
    <2>5. QED
      BY <1>5, <2>3, <2>4, Zenon DEF send_data
  <1>6. ASSUME NEW t \in Tasks, write(t) \/ acquire_drain_lock(t) PROVE Frames'
    <2>1. /\ pc'[t] \in {"lock", "drain", "crashed"}
          /\ \A u \in Tasks : u # t => pc'[u] = pc[u]
      BY <1>6, Drains, Moves, Zenon DEF write, acquire_drain_lock
    <2>2. UNCHANGED <<broker, cmd, todo, SHOULD_SHUT_DOWN>> /\ pc[t] \in {"write", "lock"}
      BY <1>6, Zenon DEF write, acquire_drain_lock
    <2>3. /\ broker' \in Seq(SmppPdus)
          /\ t \notin {"receive", "shutdown"} => cmd'[t].kind # Disconnect /\ todo'[t] \in Seq(SmppPdus)
      BY <2>2, Zenon DEF Frames
    <2>4. \A u \in Tasks : cmd'[u] = cmd[u] /\ todo'[u] = todo[u]
      BY <2>2, Zenon
    <2>5. pc'[t] \notin {"send", "write", "disc"} /\ pc[t] # "idle"
      BY <2>1, <2>2
    <2>6. QED
      BY <2>1, <2>2, <2>3, <2>4, <2>5, OneFrame, Zenon
  <1>7. ASSUME NEW t \in Tasks, returned(t) PROVE Frames'
    <2>1. CASE todo[t] = <<>>
      <3>1. \E l \in {"loop", "sleep", "done"} : Goto(t, l) \/ Await(t, l)
        BY <1>7, <2>1 DEF returned, AfterSend
      <3>2. /\ pc'[t] \in {"loop", "sleep", "done"} /\ cmd'[t].kind # Disconnect
            /\ \A u \in Tasks : u # t => pc'[u] = pc[u] /\ cmd'[u] = cmd[u]
        <4>1. cmd'[t] = Idle /\ \A u \in Tasks : u # t => cmd'[u] = cmd[u]
          BY <1>7, <2>1, Takes, Zenon DEF returned
        <4>2. cmd'[t].kind # Disconnect
          BY <4>1, PduFacts, CommandFacts, Zenon
        <4>3. pc'[t] \in {"loop", "sleep", "done"} /\ \A u \in Tasks : u # t => pc'[u] = pc[u]
          BY <3>1, Moves
        <4>4. QED
          BY <4>1, <4>2, <4>3, Zenon
      <3>3. QED
        BY <1>7, <2>1, <3>2, OneFrame, Zenon DEF returned, Frames
    <2>2. CASE todo[t] # <<>>
      <3>1. /\ Head(todo[t]) \in Pdu /\ Tail(todo[t]) \in Seq(Pdu)
            /\ todo[t] \in Seq(SmppPdus) => Head(todo[t]) \in SmppPdus /\ Tail(todo[t]) \in Seq(SmppPdus)
        BY <2>2, SequenceFacts DEF TypeOK
      <3>2. /\ pc'[t] \in {"lock", "drain", "crashed", "write"}
            /\ pc'[t] = "write" => Head(todo[t]).kind # Disconnect
            /\ \A u \in Tasks : u # t => pc'[u] = pc[u]
        BY <1>7, <2>2, Drains, Moves, Zenon DEF returned
      <3>3. QED
        <4>1. /\ cmd'[t] = Head(todo[t]) /\ todo'[t] = Tail(todo[t])
              /\ \A u \in Tasks : u # t => cmd'[u] = cmd[u] /\ todo'[u] = todo[u]
          BY <1>7, <2>2, <3>1, Takes, Stacks, ZenonT(40) DEF returned
        <4>2. UNCHANGED <<broker, SHOULD_SHUT_DOWN>> /\ pc[t] = "return"
          BY <1>7, Zenon DEF returned
        <4>3. /\ broker' \in Seq(SmppPdus)
              /\ t \notin {"receive", "shutdown"} => cmd'[t].kind # Disconnect /\ todo'[t] \in Seq(SmppPdus)
          BY <3>1, <4>1, <4>2, SmppPduFacts, Zenon DEF Frames
        <4>4. QED
          BY <3>2, <4>1, <4>2, <4>3, OneFrame, Zenon
    <2>3. QED
      BY <2>1, <2>2
  <1>8. ASSUME NEW t \in Tasks, unbind_and_disconnect(t) PROVE Frames'
    <2>1. <<Of(Disconnect)>> \in Seq(Pdu) /\ Of("unbind") \in Pdu /\ Of("unbind").kind # Disconnect
      BY PduFacts, CommandFacts
    <2>2. QED
      <3>1. CASE Await(t, "crashed") /\ UNCHANGED <<cmd, todo>>
        BY <1>8, <3>1, QuietStep DEF unbind_and_disconnect
      <3>2. CASE unbind(t) /\ Stack(t, <<Of(Disconnect)>>)
        <4>1. /\ pc'[t] = "send" /\ cmd'[t] = Of("unbind")
              /\ \A u \in Tasks : u # t => pc'[u] = pc[u] /\ cmd'[u] = cmd[u] /\ todo'[u] = todo[u]
          <5>1. \A u \in Tasks : u # t => todo'[u] = todo[u]
            BY <2>1, <3>2, Stacks, Zenon
          <5>2. pc'[t] = "send" /\ \A u \in Tasks : u # t => pc'[u] = pc[u]
            BY <3>2, Moves, Zenon DEF unbind
          <5>3. cmd'[t] = Of("unbind") /\ \A u \in Tasks : u # t => cmd'[u] = cmd[u]
            BY <2>1, <3>2, Takes, Zenon DEF unbind
          <5>4. QED
            BY <5>1, <5>2, <5>3, Zenon
        <4>2. /\ UNCHANGED SHOULD_SHUT_DOWN /\ broker' \in Seq(SmppPdus)
              /\ pc[t] = "disc" /\ t \in {"receive", "shutdown"}
          BY <1>8 DEF unbind_and_disconnect, Frames
        <4>3. QED
          BY <2>1, <4>1, <4>2, OneFrame, Zenon
      <3>3. QED
        BY <1>8, <3>1, <3>2 DEF unbind_and_disconnect
  <1>9. CASE Enquiring
    <2>1. CASE enquire_link_start
      BY <2>1, QuietStep, Zenon DEF enquire_link_start, NapOver
    <2>2. CASE enquire_link
      <3>1. CASE SHOULD_SHUT_DOWN
        BY <2>2, <3>1, QuietStep DEF enquire_link
      <3>2. CASE ~SHOULD_SHUT_DOWN
        <4>1. /\ pc'["enquire"] = "send" /\ cmd'["enquire"].kind # Disconnect
              /\ \A u \in Tasks : u # "enquire" => pc'[u] = pc[u] /\ cmd'[u] = cmd[u]
          <5>1. cmd'["enquire"] = Of("enquire_link") /\ \A u \in Tasks : u # "enquire" => cmd'[u] = cmd[u]
            BY <2>2, <3>2, Takes, Zenon DEF enquire_link
          <5>2. pc'["enquire"] = "send" /\ \A u \in Tasks : u # "enquire" => pc'[u] = pc[u]
            BY <2>2, <3>2, Moves, Zenon DEF enquire_link
          <5>3. Of("enquire_link").kind # Disconnect
            BY PduFacts, CommandFacts
          <5>4. QED
            BY <5>1, <5>2, <5>3, Zenon
        <4>2. QED
          BY <2>2, <4>1, OneFrame, Zenon DEF enquire_link, Frames
      <3>3. QED
        BY <3>1, <3>2
    <2>3. QED
      BY <1>9, <2>1, <2>2 DEF Enquiring
  <1>10. CASE Dequeuing
    <2>1. CASE dequeue_messages \/ dequeue_awaits_bound \/ dequeue_gate
      BY <2>1, QuietStep DEF dequeue_messages, dequeue_awaits_bound, dequeue_gate, Nap, NapOver
    <2>2. CASE dequeue_message \/ build_error
      <3>1. Head(broker) \in SmppPdus /\ Tail(broker) \in Seq(SmppPdus)
        BY <2>2, SequenceFacts, Zenon DEF dequeue_message, build_error, Frames
      <3>2. CASE dequeue_message
        BY <3>2, <3>1, Moves, Takes, SmppPduFacts DEF dequeue_message, Frames
      <3>3. CASE build_error
        BY <3>3, <3>1, Moves DEF build_error, Frames
      <3>4. QED
        BY <2>2, <3>2, <3>3
    <2>3. QED
      BY <1>10, <2>1, <2>2 DEF Dequeuing
  <1>11. CASE Receiving
    <2>1. CASE command_handlers
      <3>1. \A kind \in SmppCommand : Enqueue(Of(kind)) => broker' \in Seq(SmppPdus)
        BY SequenceFacts, SmppPduFacts DEF Enqueue, Frames
      <3>2. broker' \in Seq(SmppPdus)
        BY <2>1, <3>1, CommandFacts, Zenon DEF command_handlers, deliver_sm_resp, enquire_link_resp, Frames
      <3>3. QED
        <4>1. /\ pc'["receive"] \in {"loop", "send"} /\ cmd'["receive"].kind # Disconnect
              /\ \A u \in Tasks : u # "receive" => pc'[u] = pc[u] /\ cmd'[u] = cmd[u]
          <5>1. \/ Take("receive", Idle) /\ Goto("receive", "loop")
                \/ Take("receive", Of("unbind_resp")) /\ Goto("receive", "send")
            BY <2>1, Zenon DEF command_handlers, unbind_resp
          <5>2. Idle.kind # Disconnect /\ Of("unbind_resp").kind # Disconnect
            BY PduFacts, CommandFacts
          <5>3. cmd'["receive"].kind # Disconnect /\ \A u \in Tasks : u # "receive" => cmd'[u] = cmd[u]
            BY <2>1, <5>1, <5>2, Takes, Zenon DEF command_handlers
          <5>4. pc'["receive"] \in {"loop", "send"} /\ \A u \in Tasks : u # "receive" => pc'[u] = pc[u]
            BY <2>1, <5>1, Moves, Zenon DEF command_handlers
          <5>5. QED
            BY <5>3, <5>4, Zenon
        <4>2. QED
          BY <2>1, <3>2, <4>1, OneFrame, Zenon DEF command_handlers, Frames
    <2>2. CASE receive_data \/ receive_nap_over \/ receive_nothing \/ receive_bodynap_over
      BY <2>2, QuietStep DEF receive_data, receive_nap_over, receive_nothing, receive_bodynap_over, Nap, NapOver
    <2>3. CASE receive_incomplete \/ receive_error \/ receive_chunk_error
      <3>1. \E l \in {"disc", "noheader", "done", "bodynap"} : Goto("receive", l) \/ Await("receive", l)
        BY <2>3, Zenon DEF receive_incomplete, receive_error, receive_chunk_error
      <3>2. "receive" \in Tasks /\ UNCHANGED <<broker, cmd, todo, SHOULD_SHUT_DOWN>>
        BY <2>3, Zenon DEF receive_incomplete, receive_error, receive_chunk_error
      <3>3. QED
        BY <3>1, <3>2, QuietStep
    <2>4. QED
      BY <1>11, <2>1, <2>2, <2>3 DEF Receiving
  <1>12. CASE shutdown_end \/ shutdown
    BY <1>12, QuietStep DEF shutdown_end, shutdown
  <1>13. CASE receive_header
    <2>1. \A u \in Tasks : u # "receive" => cmd'[u] = cmd[u]
      BY <1>13, Takes, Zenon DEF receive_header
    <2>2. pc'["receive"] \in {"handle", "body"} /\ \A u \in Tasks : u # "receive" => pc'[u] = pc[u]
      BY <1>13, Moves, Zenon DEF receive_header
    <2>3. "receive" \in Tasks /\ UNCHANGED <<broker, todo, SHOULD_SHUT_DOWN>>
      BY <1>13, Zenon DEF receive_header
    <2>4. pc'["receive"] \notin {"send", "write", "disc"} /\ broker' \in Seq(SmppPdus)
      BY <2>2, <2>3 DEF Frames
    <2>5. QED
      BY <2>1, <2>2, <2>3, <2>4, OneFrame, Zenon
  <1>14. CASE receive_chunk \/ dequeue_error
    <2>1. CASE receive_chunk
      BY <2>1, QuietStep DEF receive_chunk
    <2>2. CASE dequeue_error
      BY <2>2, QuietStep DEF dequeue_error
    <2>3. QED
      BY <1>14, <2>1, <2>2
  <1>15. CASE send_message
    <2>1. broker' \in Seq(SmppPdus)
      BY <1>15, SequenceFacts, SmppPduFacts DEF send_message, Enqueue, Frames, TypeOK
    <2>2. QED
      BY <1>15, <2>1, Zenon DEF send_message, Frames
  <1>16. CASE (\E c \in Conns : network_failure(c)) \/ UNCHANGED vars
    BY <1>16 DEF network_failure, vars, Frames
  <1>17. QED
    BY <1>1, <1>2, <1>3, <1>4, <1>5, <1>6, <1>7, <1>8, <1>9, <1>10, <1>11, <1>12, <1>13, <1>14, <1>15, <1>16
       DEF Next, Step, Environment, Draining, Sending

\* A step of t outside the drain.
LEMMA DryStep ==
  ASSUME TypeOK, DrainExclusive, NEW t \in Tasks, NEW l,
         Goto(t, l) \/ Await(t, l), pc[t] # "drain", l # "drain", UNCHANGED drain_lock
  PROVE  DrainExclusive'
  BY Moves, Zenon DEF DrainExclusive

\* Taking the lock: it is free, or t queues behind its holder.
LEMMA TakesLock ==
  ASSUME TypeOK, DrainExclusive, LockedWriter, NEW t \in Tasks, pc[t] # "drain", UNCHANGED writer,
         LockAndDrain(t) \/ (drain_lock = NoTask /\ Drain(t))
  PROVE  DrainExclusive' /\ LockedWriter'
  <1>1. CASE Await(t, "lock") /\ UNCHANGED <<drain_lock, conn>>
    BY <1>1, DryStep DEF LockedWriter
  <1>2. CASE drain_lock = NoTask /\ Drain(t)
    <2>1. CASE writer = NoConn
      BY <1>2, <2>1, DryStep, Zenon DEF Drain, LockedWriter
    <2>2. CASE writer # NoConn
      <3>1. drain_lock' = t /\ pc'[t] = "drain" /\ \A u \in Tasks : u # t => pc'[u] = pc[u]
        BY <1>2, <2>2, Moves, Zenon DEF Drain
      <3>2. QED
        BY <1>2, <2>2, <3>1, TaskFacts, Zenon DEF DrainExclusive, LockedWriter
    <2>3. QED
      BY <2>1, <2>2
  <1>3. QED
    BY <1>1, <1>2 DEF LockAndDrain

\* Leaving the drain: the lock is free again.
LEMMA FreesLock ==
  ASSUME TypeOK, DrainExclusive, NEW t \in Tasks, NEW l, pc[t] = "drain",
         Goto(t, l) \/ Await(t, l), l # "drain", drain_lock' = NoTask
  PROVE  DrainExclusive' /\ LockedWriter'
  BY Moves, TaskFacts, Zenon DEF DrainExclusive, LockedWriter

\* Where the steps of one coroutine's own loop lead.
OwnLabels == {"loop", "done", "send", "nap", "gate", "sleep", "fetch", "disc", "read", "reest", "handle",
              "body", "noheader", "bodynap"}

\* Such a step neither begins nor ends a drain, and begins no attempt to connect.
LEMMA OwnMoves ==
  ASSUME \/ Enquiring \/ Dequeuing \/ dequeue_error \/ shutdown \/ shutdown_end
         \/ Receiving \/ receive_header \/ receive_chunk
  PROVE  \E t \in Tasks, l \in OwnLabels : (Goto(t, l) \/ Await(t, l)) /\ pc[t] # "drain"
  <1> USE DEF OwnLabels
  <1>1. CASE Enquiring \/ Dequeuing \/ dequeue_error \/ shutdown \/ shutdown_end
    BY <1>1, Zenon DEF Enquiring, Dequeuing, enquire_link_start, enquire_link, dequeue_messages, NapOver, Nap,
       dequeue_awaits_bound, dequeue_gate, dequeue_message, build_error, dequeue_error, shutdown, shutdown_end
  <1>2. CASE Receiving \/ receive_header \/ receive_chunk
    BY <1>2, Zenon DEF Receiving, receive_data, receive_nap_over, receive_nothing, receive_bodynap_over, Nap, NapOver,
       receive_incomplete, receive_error, receive_chunk_error, command_handlers, unbind_resp, receive_header,
       receive_chunk
  <1>3. QED
    BY <1>1, <1>2

\* Every action keeps the lock in step with who drains, and the writer in place under it.
LEMMA DrainStep ==
  ASSUME TypeOK, DrainExclusive, LockedWriter, [Next]_vars
  PROVE  DrainExclusive' /\ LockedWriter'
  <1>1. ASSUME NEW t \in Tasks, write(t) \/ acquire_drain_lock(t) \/ returned(t)
        PROVE  DrainExclusive' /\ LockedWriter'
    <2>1. CASE LockAndDrain(t) \/ (drain_lock = NoTask /\ Drain(t))
      BY <1>1, <2>1, TakesLock, Zenon DEF write, acquire_drain_lock, returned
    <2>2. CASE /\ UNCHANGED drain_lock
               /\ \E l \in {"crashed", "write", "loop", "sleep", "done"} : Goto(t, l) \/ Await(t, l)
      BY <1>1, <2>2, DryStep, Zenon DEF write, acquire_drain_lock, returned, LockedWriter
    <2>3. QED
      BY <1>1, <2>1, <2>2 DEF write, acquire_drain_lock, returned, AfterSend
  <1>2. ASSUME NEW t \in Tasks, Draining(t) PROVE DrainExclusive' /\ LockedWriter'
    <2>1. pc[t] = "drain" /\ drain_lock' = NoTask
      BY <1>2, Zenon DEF Draining, drained, write_eof_error, drain_error, InDrain
    <2>2. \E l \in {"linger", "noheader", "return"} : Goto(t, l) \/ Await(t, l)
      BY <1>2, Zenon DEF Draining, drained, write_eof_error, drain_error, AfterDrainError, AfterDisconnect
    <2>3. QED
      BY <2>1, <2>2, FreesLock
  <1>3. CASE UNCHANGED drain_lock /\ UNCHANGED writer /\ UNCHANGED pc
    BY <1>3 DEF DrainExclusive, LockedWriter
  <1>4. ASSUME NEW t \in Tasks, Connecting(t) PROVE DrainExclusive' /\ LockedWriter'
    <2>1. DrainExclusive'
      BY <1>4, DryStep, Zenon DEF Connecting, connect, connect_error, AfterConnect
    <2>2. LockedWriter'
      BY <1>4, ClientAssumption, Zenon DEF Connecting, connect, connect_error, UseConnection, LockedWriter
    <2>3. QED
      BY <2>1, <2>2
  <1>5. ASSUME NEW t \in Tasks,
               \/ re_establish_conn_bind(t) \/ tranceiver_bind(t) \/ send_data(t)
               \/ unbind_and_disconnect(t) \/ slept(t)
        PROVE  DrainExclusive' /\ LockedWriter'
    <2>1. \E l \in {"return", "connecting", "send", "reest", "write", "crashed", "loop"} : Goto(t, l) \/ Await(t, l)
      BY <1>5, Zenon DEF re_establish_conn_bind, tranceiver_bind, send_data, unbind_and_disconnect, unbind, slept
    <2>2. UNCHANGED <<drain_lock, writer>> /\ pc[t] # "drain"
      BY <1>5, Zenon DEF re_establish_conn_bind, tranceiver_bind, send_data, unbind_and_disconnect, slept
    <2>3. QED
      BY <2>1, <2>2, DryStep DEF LockedWriter
  <1>6. CASE \/ Enquiring \/ Dequeuing \/ dequeue_error \/ shutdown \/ shutdown_end
             \/ Receiving \/ receive_header \/ receive_chunk
    <2>1. \E t \in Tasks, l \in OwnLabels : (Goto(t, l) \/ Await(t, l)) /\ pc[t] # "drain"
      BY <1>6, OwnMoves
    <2>2. Enquiring \/ Dequeuing \/ dequeue_error \/ shutdown \/ shutdown_end => UNCHANGED <<drain_lock, writer>>
      BY Zenon DEF Enquiring, Dequeuing, enquire_link_start, enquire_link, dequeue_messages,
         dequeue_awaits_bound, dequeue_gate, dequeue_message, build_error, dequeue_error, shutdown, shutdown_end
    <2>3. Receiving \/ receive_header \/ receive_chunk => UNCHANGED <<drain_lock, writer>>
      BY Zenon DEF Receiving, receive_data, receive_nap_over, receive_nothing, receive_bodynap_over,
         receive_incomplete, receive_error, receive_chunk_error, command_handlers, receive_header, receive_chunk
    <2>4. UNCHANGED <<drain_lock, writer>>
      BY <1>6, <2>2, <2>3
    <2>5. QED
      BY <2>1, <2>4, DryStep DEF OwnLabels, LockedWriter
  <1>7. send_message \/ (\E c \in Conns : network_failure(c)) \/ UNCHANGED vars
           => UNCHANGED drain_lock /\ UNCHANGED writer /\ UNCHANGED pc
    BY Zenon DEF send_message, network_failure, vars
  <1>8. QED
    BY <1>1, <1>2, <1>3, <1>4, <1>5, <1>6, <1>7, Zenon DEF Next, Step, Environment, Sending
-----------------------------------------------------------------------------
(* The session and its writer.                                             *)

\* While receive_data reads, or handles what it read, there is a writer: only it and
\* shutdown reset the writer.
Reads == {"read", "body", "bodynap", "handle"}
ReceiverHasWriter ==
    "receive" \in Tasks /\ pc["receive"] \in Reads => writer # NoConn \/ SHOULD_SHUT_DOWN

\* SHOULD_SHUT_DOWN is never reset.
LEMMA ShutdownStays ==
  ASSUME TypeOK, [Next]_vars
  PROVE  SHOULD_SHUT_DOWN => SHOULD_SHUT_DOWN'
  <1>1. ASSUME NEW t \in Tasks, Connecting(t) \/ Draining(t) \/ Sending(t) PROVE UNCHANGED SHOULD_SHUT_DOWN
    BY <1>1, Zenon DEF Connecting, connect, connect_error, Draining, drained, write_eof_error, drain_error, Sending,
       re_establish_conn_bind, tranceiver_bind, send_data, write, acquire_drain_lock, returned,
       unbind_and_disconnect, slept
  <1>2. Enquiring \/ Dequeuing \/ shutdown_end => UNCHANGED SHOULD_SHUT_DOWN
    BY Zenon DEF Enquiring, enquire_link_start, enquire_link, Dequeuing, dequeue_messages, dequeue_awaits_bound,
       dequeue_gate, dequeue_message, build_error, shutdown_end
  <1>3. Receiving => UNCHANGED SHOULD_SHUT_DOWN
    BY Zenon DEF Receiving, receive_data, receive_nap_over, receive_nothing, receive_bodynap_over,
       receive_incomplete, receive_error, receive_chunk_error, command_handlers
  <1>4. Environment => UNCHANGED SHOULD_SHUT_DOWN \/ SHOULD_SHUT_DOWN'
    BY Zenon DEF Environment, receive_header, receive_chunk, dequeue_error, send_message, shutdown, network_failure
  <1>5. QED
    BY <1>1, <1>2, <1>3, <1>4, Zenon DEF Next, Step, vars

\* The steps any coroutine may take never lead into a read, and to a new attempt to connect
\* only when the client is not shutting down.
LEMMA SharedMoves ==
  ASSUME TypeOK, NEW t \in Tasks, Connecting(t) \/ Draining(t) \/ Sending(t)
  PROVE  /\ pc'[t] \notin Reads
         /\ pc'[t] = "connecting" => ~SHOULD_SHUT_DOWN
         /\ \A u \in Tasks : u # t => pc'[u] = pc[u]
  <1> USE DEF Reads
  <1>1. CASE Connecting(t) \/ Draining(t)
    <2>1. \E l \in {"done", "rebind", "linger", "noheader", "return"} : Goto(t, l) \/ Await(t, l)
      BY <1>1, Zenon DEF Connecting, connect, connect_error, AfterConnect, Draining, drained, write_eof_error, drain_error,
         AfterDrainError, AfterDisconnect
    <2>2. QED
      BY <2>1, Moves, Zenon
  <1>2. CASE write(t) \/ acquire_drain_lock(t) \/ returned(t)
    <2>1. CASE LockAndDrain(t) \/ Drain(t)
      BY <2>1, Drains, Zenon
    <2>2. CASE \E l \in {"crashed", "write", "loop", "sleep", "done"} : Goto(t, l) \/ Await(t, l)
      BY <2>2, Moves, Zenon
    <2>3. QED
      BY <1>2, <2>1, <2>2 DEF write, acquire_drain_lock, returned, AfterSend
  <1>3. CASE \/ re_establish_conn_bind(t) \/ tranceiver_bind(t) \/ send_data(t)
             \/ unbind_and_disconnect(t) \/ slept(t)
    <2>1. \E l \in {"return", "connecting", "send", "reest", "write", "crashed", "loop"} :
              (Goto(t, l) \/ Await(t, l)) /\ (l = "connecting" => ~SHOULD_SHUT_DOWN)
      BY <1>3, Zenon DEF re_establish_conn_bind, tranceiver_bind, send_data, unbind_and_disconnect, unbind, slept
    <2>2. QED
      BY <2>1, Moves, Zenon
  <1>4. QED
    BY <1>1, <1>2, <1>3, Zenon DEF Sending

\* receive_data starts to read only in a session that is bound.
LEMMA ReadsBegin ==
  ASSUME TypeOK, [Next]_vars, "receive" \in Tasks, pc'["receive"] \in Reads
  PROVE  pc["receive"] \in Reads \/ (current_session_state = "BOUND_TRX" /\ UNCHANGED writer)
  <1> USE DEF Reads
  <1>1. ASSUME NEW t \in Tasks, Connecting(t) \/ Draining(t) \/ Sending(t) PROVE pc["receive"] \in Reads
    BY <1>1, SharedMoves
  <1>2. CASE Enquiring \/ Dequeuing \/ dequeue_error \/ shutdown \/ shutdown_end
    <2>1. \E t \in Tasks \ {"receive"}, l \in {"loop", "done", "send", "nap", "gate", "sleep", "fetch", "disc"} :
              Goto(t, l) \/ Await(t, l)
      BY <1>2, Zenon DEF Enquiring, Dequeuing, enquire_link_start, enquire_link, dequeue_messages, NapOver, Nap,
         dequeue_awaits_bound, dequeue_gate, dequeue_message, build_error, dequeue_error, shutdown, shutdown_end
    <2>2. QED
      BY <2>1, Moves
  <1>3. CASE receive_data
    BY <1>3, Moves DEF receive_data, Nap
  <1>4. CASE receive_nap_over \/ receive_nothing \/ receive_incomplete \/ receive_error \/ command_handlers
    <2>1. \E l \in {"done", "reest", "disc", "noheader", "sleep", "loop", "send"} :
              Goto("receive", l) \/ Await("receive", l)
      BY <1>4, Zenon DEF receive_nap_over, receive_nothing, receive_incomplete, receive_error, command_handlers, unbind_resp
    <2>2. QED
      BY <2>1, Moves
  <1>5. CASE receive_bodynap_over \/ receive_chunk_error \/ receive_header \/ receive_chunk
    BY <1>5, Zenon DEF receive_bodynap_over, receive_chunk_error, receive_header, receive_chunk
  <1>6. send_message \/ (\E c \in Conns : network_failure(c)) \/ UNCHANGED vars => UNCHANGED pc
    BY Zenon DEF send_message, network_failure, vars
  <1>7. QED
    BY <1>1, <1>2, <1>3, <1>4, <1>5, <1>6, Zenon DEF Next, Step, Environment, Receiving

\* The session keeps its writer: it is reset only together with the state (CloseWriter), and
\* receive_data, whose bind_transceiver_resp handler sets BOUND_TRX, reads only while there is one.
LEMMA WriterStep ==
  ASSUME TypeOK, Frames, DrainExclusive, LockedWriter, SessionHasWriter, ReceiverHasWriter, [Next]_vars
  PROVE  SessionHasWriter' /\ ReceiverHasWriter'
  <1>1. ASSUME NEW t \in Tasks, connect(t) PROVE SessionHasWriter' /\ ReceiverHasWriter'
    BY <1>1, ClientAssumption, Zenon DEF connect, UseConnection, SessionHasWriter, ReceiverHasWriter
  <1>2. ASSUME NEW t \in Tasks, drained(t) PROVE SessionHasWriter' /\ ReceiverHasWriter'
    <2>1. writer # NoConn /\ pc[t] = "drain"
      BY <1>2, TaskFacts, Zenon DEF drained, InDrain, DrainExclusive, LockedWriter
    <2>2. CASE cmd[t].kind # Disconnect
      BY <1>2, <2>1, <2>2, Zenon DEF drained, SessionHasWriter, ReceiverHasWriter
    <2>3. CASE cmd[t].kind = Disconnect
      <3>1. t = "receive" \/ (t = "shutdown" /\ SHOULD_SHUT_DOWN')
        BY <1>2, <2>1, <2>3, ShutdownStays DEF Frames
      <3>2. SessionHasWriter'
        BY <1>2, <2>3, Zenon DEF drained, CloseWriter, SessionHasWriter
      <3>3. pc'[t] \notin Reads
        BY <1>2, SharedMoves, Zenon DEF Draining
      <3>4. QED
        BY <3>1, <3>2, <3>3, Zenon DEF ReceiverHasWriter
    <2>4. QED
      BY <2>2, <2>3
  <1>3. CASE UNCHANGED writer /\ (current_session_state' \in {"CLOSED", current_session_state} \/ command_handlers)
    <2>1. ReceiverHasWriter'
      BY <1>3, ReadsBegin, ShutdownStays, Zenon DEF ReceiverHasWriter, SessionHasWriter
    <2>2. CASE current_session_state' \in {"CLOSED", current_session_state}
      BY <1>3, <2>1, <2>2, ShutdownStays DEF SessionHasWriter
    <2>3. CASE command_handlers
      <3>1. "receive" \in Tasks /\ pc["receive"] \in Reads
        BY <2>3, Zenon DEF command_handlers, Reads
      <3>2. current_session_state' \in {current_session_state, "BOUND_TRX"}
        BY <2>3, Zenon DEF command_handlers
      <3>3. QED
        BY <1>3, <2>1, <3>1, <3>2, ShutdownStays, Zenon DEF ReceiverHasWriter, SessionHasWriter
    <2>4. QED
      BY <1>3, <2>1, <2>2, <2>3
  <1>4. ASSUME NEW t \in Tasks, re_establish_conn_bind(t)
        PROVE  UNCHANGED writer /\ current_session_state' = "CLOSED"
    BY <1>4, Zenon DEF re_establish_conn_bind
  <1>5. command_handlers => UNCHANGED writer
    BY Zenon DEF command_handlers
  <1>6. QED
    BY <1>1, <1>2, <1>3, <1>4, <1>5, SessionSteps
-----------------------------------------------------------------------------
(* Connections that are done with, and shutdown.                           *)

\* A connection that is, or was half-closed as, client.writer is never handed out again.
UsedConnections == \A c \in Conns : c \in finSent \/ c = writer => net[c] # "free"

\* Only connect makes a connection client.writer, and it is a new one; only client.writer is
\* half-closed.
LEMMA UsedStep ==
  ASSUME TypeOK, DrainExclusive, LockedWriter, UsedConnections, [Next]_vars
  PROVE  UsedConnections'
  <1>1. ASSUME NEW t \in Tasks, connect(t) PROVE UsedConnections'
    BY <1>1, Zenon DEF connect, UseConnection, UsedConnections, TypeOK
  <1>2. ASSUME NEW t \in Tasks, drained(t) \/ write_eof_error(t) PROVE UsedConnections'
    <2>1. writer \in Conns
      BY <1>2, TaskFacts, Zenon DEF drained, write_eof_error, InDrain, DrainExclusive, LockedWriter, TypeOK
    <2>2. /\ writer' \in {writer, NoConn} /\ net' = net
          /\ finSent' \in {finSent, finSent \cup {writer}}
      BY <1>2, Zenon DEF drained, write_eof_error, CloseWriter
    <2>3. QED
      BY <2>1, <2>2, ClientAssumption DEF UsedConnections
  <1>3. ASSUME NEW c \in Conns, network_failure(c) PROVE UsedConnections'
    BY <1>3, Zenon DEF network_failure, UsedConnections, TypeOK
  <1>4. CASE UNCHANGED <<writer, finSent, net>>
    BY <1>4 DEF UsedConnections
  <1>5. ASSUME NEW t \in Tasks, connect_error(t) \/ drain_error(t) \/ Sending(t)
        PROVE  UNCHANGED <<writer, finSent, net>>
    BY <1>5, Zenon DEF connect_error, drain_error, Sending, re_establish_conn_bind, tranceiver_bind, send_data, write,
       acquire_drain_lock, returned, unbind_and_disconnect, slept
  <1>6. Enquiring \/ Dequeuing \/ shutdown_end => UNCHANGED <<writer, finSent, net>>
    BY Zenon DEF Enquiring, enquire_link_start, enquire_link, Dequeuing, dequeue_messages, dequeue_awaits_bound,
       dequeue_gate, dequeue_message, build_error, shutdown_end
  <1>7. Receiving => UNCHANGED <<writer, finSent, net>>
    BY Zenon DEF Receiving, receive_data, receive_nap_over, receive_nothing, receive_bodynap_over,
       receive_incomplete, receive_error, receive_chunk_error, command_handlers
  <1>8. Environment => UNCHANGED <<writer, finSent, net>> \/ \E c \in Conns : network_failure(c)
    BY Zenon DEF Environment, receive_header, receive_chunk, dequeue_error, send_message, shutdown
  <1>9. QED
    BY <1>1, <1>2, <1>3, <1>4, <1>5, <1>6, <1>7, <1>8, Zenon DEF Next, Step, Connecting, Draining, vars

\* A new attempt to connect begins only when the client is not shutting down.
LEMMA AttemptsBegin ==
  ASSUME TypeOK, [Next]_vars, NEW u \in Tasks, pc'[u] = "connecting"
  PROVE  pc[u] = "connecting" \/ ~SHOULD_SHUT_DOWN
  <1>1. ASSUME NEW t \in Tasks, Connecting(t) \/ Draining(t) \/ Sending(t)
        PROVE  pc[u] = "connecting" \/ ~SHOULD_SHUT_DOWN
    BY <1>1, SharedMoves, Zenon
  <1>2. ASSUME \/ Enquiring \/ Dequeuing \/ dequeue_error \/ shutdown \/ shutdown_end
               \/ Receiving \/ receive_header \/ receive_chunk
        PROVE  pc[u] = "connecting"
    BY <1>2, OwnMoves, Moves, Zenon DEF OwnLabels
  <1>3. send_message \/ (\E c \in Conns : network_failure(c)) \/ UNCHANGED vars => pc[u] = "connecting"
    BY Zenon DEF send_message, network_failure, vars
  <1>4. CASE \E t \in Tasks : Step(t)
    BY <1>1, <1>2, <1>4 DEF Step
  <1>5. QED
    BY <1>2, <1>3, <1>4, Zenon DEF Next, Environment

-----------------------------------------------------------------------------
(* The theorems.                                                           *)

\* The inductive invariant.
Inv ==
    /\ TypeOK
    /\ Frames
    /\ DrainExclusive
    /\ LockedWriter
    /\ SessionHasWriter
    /\ ReceiverHasWriter
    /\ UsedConnections

\* Inv holds when the coroutines start.
LEMMA InvInit == Init => Inv
  <1> SUFFICES ASSUME Init PROVE Inv
    OBVIOUS
  <1>1. TypeOK /\ Frames
    BY TypeInit
  <1>2. \A t \in Tasks : pc[t] \in {"connecting", "nap", "idle"}
    BY ClientAssumption DEF Init, FirstAwait, AllTasks
  <1>3. DrainExclusive /\ LockedWriter /\ ReceiverHasWriter
    BY <1>2, TaskFacts, Zenon DEF Init, DrainExclusive, LockedWriter, ReceiverHasWriter, Reads
  <1>4. SessionHasWriter /\ UsedConnections
    BY ClientAssumption, Zenon DEF Init, SessionHasWriter, UsedConnections
  <1>5. QED
    BY <1>1, <1>3, <1>4 DEF Inv

\* Inv is inductive.
LEMMA InvStep == Inv /\ [Next]_vars => Inv'
  BY TypeGroups, TypeStep, FramesStep, DrainStep, WriterStep, UsedStep DEF Inv

\* Inv is an invariant of the session core.
LEMMA InvHolds == Spec => []Inv
  BY InvInit, InvStep, PTL DEF Spec

\* Every variable of the session core keeps its type: in particular the state is always
\* one that SmppSessionState has, and no connection but a real one is ever half-closed.
THEOREM ClientTypeCorrect == Spec => []TypeOK
  <1>1. Inv => TypeOK
    BY DEF Inv
  <1>2. QED
    BY <1>1, InvHolds, PTL

\* drain_lock does what issue 114 needs, for any number of coroutines: at most one of
\* them is inside writer.drain(), and it is the one that holds the lock.
THEOREM DrainIsExclusive == Spec => []DrainExclusive
  <1>1. Inv => DrainExclusive
    BY DEF Inv
  <1>2. QED
    BY <1>1, InvHolds, PTL

\* An OPEN session always has a writer, and a BOUND_TRX one has until shutdown begins,
\* whichever coroutines connect, bind, disconnect and re-connect.
THEOREM SessionAlwaysHasWriter == Spec => []SessionHasWriter
  <1>1. Inv => SessionHasWriter
    BY DEF Inv
  <1>2. QED
    BY <1>1, InvHolds, PTL

\* The test of SHOULD_SHUT_DOWN in re_establish_conn_bind is enough: once the attempts
\* under way at shutdown are over nobody connects and the session is not opened again.
THEOREM ShutdownStaysFinal == Spec => ShutdownIsFinal
  <1>1. Inv /\ [Next]_vars =>
          [SHOULD_SHUT_DOWN /\ Attempts = {}
             => Attempts' = {} /\ (current_session_state' = "OPEN" => current_session_state = "OPEN")]_vars
    <2> SUFFICES ASSUME Inv, [Next]_vars, SHOULD_SHUT_DOWN, Attempts = {}
                 PROVE  Attempts' = {} /\ (current_session_state' = "OPEN" => current_session_state = "OPEN")
      OBVIOUS
    <2>1. Attempts' = {}
      BY AttemptsBegin DEF Inv, Attempts
    <2>2. ASSUME NEW t \in Tasks, connect(t) PROVE FALSE
      BY <2>2, Zenon DEF connect, Attempts
    <2>3. ASSUME NEW t \in Tasks, re_establish_conn_bind(t) \/ drained(t)
          PROVE  current_session_state' = "OPEN" => current_session_state = "OPEN"
      BY <2>3, Zenon DEF re_establish_conn_bind, drained, CloseWriter
    <2>4. command_handlers => current_session_state' \in {current_session_state, "BOUND_TRX"}
      BY Zenon DEF command_handlers
    <2>5. QED
      BY <2>1, <2>2, <2>3, <2>4, SessionSteps
  <1>2. QED
    BY <1>1, InvHolds, PTL DEF Spec, ShutdownIsFinal
-----------------------------------------------------------------------------
(* A connection is bound before anything else is written on it.             *)

\* A connection on which no bind has been written.
NewWriter == writer # NoConn /\ writer \notin bindSent

\* It is in the hands of the coroutine that made it, which keeps control until its bind is
\* written: nobody else comes between connect and the bind in re_establish_conn_bind.
Held ==
    /\ running \in Tasks
    /\ \/ pc[running] = "rebind"
       \/ pc[running] \in {"send", "write"} /\ cmd[running] = Of("bind_transceiver")
    /\ current_session_state = "OPEN"
    /\ net[writer] = "up" /\ writer \notin finSent

\* Every new connection is, but for the one of the connect coroutine, which binds nothing.
NewIsOwned == NewWriter => Held

\* The first PDU on a connection is a bind, and that bind is on record.
BindsFirst ==
    \A c \in Conns : /\ first[c] \in {"none", "bind_transceiver"}
                     /\ c \in bindSent <=> first[c] # "none"

\* The steps that send nothing happen where every connection in use has had its bind.
LEMMA ElseWhere ==
  ASSUME Next,
         ~\E t \in Tasks : connect(t) \/ tranceiver_bind(t) \/ send_data(t) \/ write(t)
  PROVE  /\ running = NoTask \/ pc[running] \notin {"rebind", "send", "write"}
         /\ UNCHANGED <<first, bindSent>>
         /\ writer' \in {writer, NoConn}
  <1> DEFINE Out == running = NoTask \/ pc[running] \notin {"rebind", "send", "write"}
  <1>1. ASSUME NEW t \in Tasks, connect_error(t) PROVE Out /\ UNCHANGED <<first, bindSent, writer>>
    BY <1>1 DEF connect_error
  <1>2. ASSUME NEW t \in Tasks, Draining(t)
        PROVE  Out /\ UNCHANGED <<first, bindSent>> /\ writer' \in {writer, NoConn}
    BY <1>2 DEF Draining, drained, write_eof_error, drain_error, InDrain, CloseWriter
  <1>3. ASSUME NEW t \in Tasks, Sending(t) PROVE Out /\ UNCHANGED <<first, bindSent, writer>>
    BY <1>3 DEF Sending, re_establish_conn_bind, acquire_drain_lock, returned, unbind_and_disconnect, slept
  <1>4. CASE Enquiring \/ Dequeuing \/ dequeue_error \/ shutdown \/ shutdown_end
    BY <1>4 DEF Enquiring, enquire_link_start, enquire_link, Dequeuing, dequeue_messages, dequeue_awaits_bound,
       dequeue_gate, dequeue_message, build_error, dequeue_error, shutdown, shutdown_end, NapOver
  <1>5. CASE Receiving \/ receive_header \/ receive_chunk
    BY <1>5 DEF Receiving, receive_data, receive_nap_over, receive_nothing, receive_bodynap_over, receive_incomplete,
       receive_error, receive_chunk_error, command_handlers, receive_header, receive_chunk, NapOver
  <1>6. CASE send_message \/ \E c \in Conns : network_failure(c)
    BY <1>6 DEF send_message, network_failure
  <1>7. QED
    BY <1>1, <1>2, <1>3, <1>4, <1>5, <1>6 DEF Next, Step, Environment, Connecting

\* The coroutine that made a connection writes its bind before anybody else moves.
LEMMA HeldStep ==
  ASSUME TypeOK, NewWriter, Held, [Next]_vars
  PROVE  NewWriter' => Held'
  <1>1. ASSUME NEW t \in Tasks, tranceiver_bind(t) PROVE Held'
    <2>1. running = t /\ UNCHANGED <<session, net, finSent>>
      BY <1>1, Zenon DEF tranceiver_bind, network
    <2>2. running' = t /\ pc'[t] = "send" /\ cmd'[t] = Of("bind_transceiver")
      BY <1>1, Moves, Takes, Zenon DEF tranceiver_bind, Goto, Held
    <2>3. QED
      BY <2>1, <2>2 DEF Held, session
  <1>2. ASSUME NEW t \in Tasks, send_data(t) PROVE Held'
    <2>1. running = t /\ pc[t] = "send" /\ UNCHANGED <<session, net, finSent, cmd>>
      BY <1>2, Zenon DEF send_data, network
    <2>2. cmd[t] = Of("bind_transceiver") /\ current_session_state = "OPEN" /\ net[writer] = "up"
      BY <2>1 DEF Held
    <2>3. cmd[t].kind = "bind_transceiver" /\ ~ConnectionGone
      BY <2>2, PduFacts, CommandFacts DEF ConnectionGone, Closing, NewWriter
    <2>4. Goto(t, "write")
      BY <1>2, <2>2, <2>3 DEF send_data
    <2>5. running' = t /\ pc'[t] = "write" /\ cmd'[t] = Of("bind_transceiver")
      BY <2>1, <2>2, <2>4, Moves, Zenon DEF Goto
    <2>6. QED
      BY <2>1, <2>2, <2>5 DEF Held, session
  <1>3. ASSUME NEW t \in Tasks, write(t) PROVE ~NewWriter'
    <2>1. running = t /\ pc[t] = "write" /\ UNCHANGED <<session, net>>
      BY <1>3, Zenon DEF write
    <2>2. cmd[t].kind = "bind_transceiver" /\ ~Closing(writer) /\ writer \notin finSent \cup {NoConn}
      BY <2>1, PduFacts, CommandFacts DEF Held, NewWriter, Closing
    <2>3. bindSent' = bindSent \cup {writer}
      BY <1>3, <2>2 DEF write
    <2>4. QED
      BY <2>1, <2>3 DEF NewWriter, session
  <1>4. ASSUME NEW t \in Tasks, connect(t) PROVE FALSE
    BY <1>4, TaskFacts DEF connect, Held
  <1>5. ASSUME Next, ~\E t \in Tasks : connect(t) \/ tranceiver_bind(t) \/ send_data(t) \/ write(t) PROVE FALSE
    BY <1>5, ElseWhere, TaskFacts DEF Held
  <1>6. CASE UNCHANGED vars
    BY <1>6 DEF vars, Held, session, control, network
  <1>7. QED
    BY <1>1, <1>2, <1>3, <1>4, <1>5, <1>6

\* Every step keeps a new connection in the hands of its maker until its bind is written.
LEMMA BindStep ==
  ASSUME TypeOK, UsedConnections, "connect" \notin Tasks, NewIsOwned, BindsFirst, [Next]_vars
  PROVE  NewIsOwned' /\ BindsFirst'
  <1>1. ASSUME NEW t \in Tasks, connect(t) PROVE NewIsOwned' /\ BindsFirst'
    <2>1. PICK c \in Conns : /\ writer' = c /\ current_session_state' = "OPEN"
                            /\ net[c] = "free" /\ net' = [net EXCEPT ![c] = "up"]
      BY <1>1 DEF connect, UseConnection
    <2>2. pc'[t] = "rebind" /\ running' = t /\ UNCHANGED <<first, bindSent, finSent>>
      BY <1>1, Moves DEF connect, AfterConnect, Goto
    <2>3. net'[c] = "up" /\ c \notin finSent
      BY <2>1 DEF TypeOK, UsedConnections
    <2>4. QED
      BY <2>1, <2>2, <2>3, Zenon DEF NewIsOwned, NewWriter, Held, BindsFirst
  <1>2. ASSUME NEW t \in Tasks, write(t) PROVE NewIsOwned' /\ BindsFirst'
    <2>1. running = t /\ pc[t] = "write" /\ UNCHANGED writer
      BY <1>2, Zenon DEF write, session
    <2>2. NewWriter => cmd[t].kind = "bind_transceiver" /\ ~Closing(writer) /\ writer \notin finSent
      BY <2>1, PduFacts, CommandFacts DEF NewIsOwned, Held, Closing
    <2>3. CASE writer \in finSent \cup {NoConn} \/ Closing(writer)
      <3>1. UNCHANGED <<first, bindSent>>
        BY <1>2, <2>3, Zenon DEF write
      <3>2. QED
        BY <2>1, <2>2, <2>3, <3>1 DEF NewIsOwned, NewWriter, BindsFirst
    <2>4. CASE writer \notin finSent \cup {NoConn} /\ ~Closing(writer)
      <3>1. /\ first' = [first EXCEPT ![writer] = IF @ = "none" THEN cmd[t].kind ELSE @]
            /\ bindSent' = IF cmd[t].kind = "bind_transceiver" THEN bindSent \cup {writer} ELSE bindSent
        BY <1>2, <2>4 DEF write
      <3>2. writer \in Conns /\ writer \in bindSent'
        BY <2>2, <2>4, <3>1 DEF TypeOK, NewWriter
      <3>3. NewIsOwned'
        BY <2>1, <3>2 DEF NewIsOwned, NewWriter
      <3>4. BindsFirst'
        BY <2>2, <2>4, <3>1, <3>2 DEF BindsFirst, NewWriter, TypeOK
      <3>5. QED
        BY <3>3, <3>4
    <2>5. QED
      BY <2>3, <2>4
  <1>3. CASE /\ UNCHANGED <<first, bindSent>>
             /\ writer' \in {writer, NoConn}
    <2>1. BindsFirst'
      BY <1>3 DEF BindsFirst
    <2>2. NewIsOwned'
      BY <1>3, HeldStep DEF NewIsOwned, NewWriter
    <2>3. QED
      BY <2>1, <2>2
  <1>4. ASSUME NEW t \in Tasks, tranceiver_bind(t) \/ send_data(t)
        PROVE  UNCHANGED <<first, bindSent, writer>>
    BY <1>4, Zenon DEF tranceiver_bind, send_data, network, session
  <1>5. CASE UNCHANGED vars
    BY <1>3, <1>5 DEF vars, network, session
  <1>6. QED
    BY <1>1, <1>2, <1>3, <1>4, <1>5, ElseWhere

\* There is no connection when the coroutines start.
LEMMA BindInit == Init => NewIsOwned /\ BindsFirst
  BY DEF Init, NewIsOwned, NewWriter, BindsFirst

\* Both invariants hold throughout where connect is not among the coroutines.
LEMMA BindHolds == Spec => []("connect" \in Tasks \/ (NewIsOwned /\ BindsFirst))
  <1>1. Inv /\ ("connect" \in Tasks \/ (NewIsOwned /\ BindsFirst)) /\ [Next]_vars
          => ("connect" \in Tasks \/ (NewIsOwned /\ BindsFirst))'
    BY BindStep DEF Inv
  <1>2. QED
    BY <1>1, BindInit, InvHolds, PTL DEF Spec

\* Where connections are opened by re_establish_conn_bind, nothing is written on any of
\* them before its bind_transceiver, however many coroutines share the writer.
THEOREM BindFirst == Spec => []BindComesFirst
  <1>1. ("connect" \in Tasks \/ (NewIsOwned /\ BindsFirst)) => BindComesFirst
    BY DEF BindsFirst, BindComesFirst
  <1>2. QED
    BY <1>1, BindHolds, PTL

-----------------------------------------------------------------------------
(* A session counts as bound only where it is.                              *)

\* The steps of a coroutine that touch nothing of the others.
Alone(t) ==
    \A u \in Tasks : u # t => /\ pc'[u] = pc[u] /\ cmd'[u] = cmd[u]
                              /\ todo'[u] = todo[u] /\ conn'[u] = conn[u]

\* Which variables of the control change, and where they are changed.
LEMMA Touches ==
  ASSUME TypeOK, NEW t \in Tasks, NEW l, Goto(t, l) \/ Await(t, l),
         UNCHANGED cmd \/ \E p : Take(t, p),
         UNCHANGED todo \/ \E ps : Stack(t, ps),
         UNCHANGED conn \/ \E c : WaitOn(t, c)
  PROVE  Alone(t) /\ pc'[t] = l
  <1>1. \A u \in Tasks : u # t => conn'[u] = conn[u]
    BY DEF WaitOn, TypeOK
  <1>2. \A u \in Tasks : u # t => cmd'[u] = cmd[u]
    BY Takes
  <1>3. \A u \in Tasks : u # t => todo'[u] = todo[u]
    BY Stacks
  <1>4. QED
    BY <1>1, <1>2, <1>3, Moves DEF Alone

\* Every step is one coroutine's, and no step that is not leaves the control.
LEMMA SharedAlone ==
  ASSUME TypeOK, NEW t \in Tasks, Connecting(t) \/ Draining(t) \/ Sending(t)
  PROVE  Alone(t)
  <1>1. CASE Connecting(t)
    BY <1>1, Touches, Zenon DEF Connecting, connect, connect_error, AfterConnect
  <1>2. CASE Draining(t)
    BY <1>2, Touches, Zenon DEF Draining, drained, write_eof_error, drain_error, AfterDrainError, AfterDisconnect
  <1>3. ASSUME LockAndDrain(t) \/ Drain(t), UNCHANGED cmd \/ \E p : Take(t, p), UNCHANGED todo \/ \E ps : Stack(t, ps)
        PROVE  Alone(t)
    <2>1. \E l \in {"lock", "drain", "crashed"} : Goto(t, l) \/ Await(t, l)
      BY <1>3 DEF LockAndDrain, Drain
    <2>2. UNCHANGED conn \/ WaitOn(t, writer)
      BY <1>3 DEF LockAndDrain, Drain
    <2>3. QED
      BY <1>3, <2>1, <2>2, Touches, Zenon
  <1>4. CASE write(t)
    BY <1>3, <1>4, Touches, Zenon DEF write
  <1>5. CASE acquire_drain_lock(t)
    BY <1>3, <1>5, Zenon DEF acquire_drain_lock
  <1>6. CASE returned(t)
    <2>1. \E l \in {"write", "loop", "sleep", "done"} : AfterSend(t) => Goto(t, l) \/ Await(t, l)
      BY DEF AfterSend
    <2>2. QED
      BY <1>3, <1>6, <2>1, Touches, Zenon DEF returned
  <1>7. CASE re_establish_conn_bind(t) \/ tranceiver_bind(t) \/ send_data(t) \/ unbind_and_disconnect(t) \/ slept(t)
    BY <1>7, Touches, Zenon DEF re_establish_conn_bind, tranceiver_bind, send_data, unbind_and_disconnect, unbind, slept
  <1>8. QED
    BY <1>1, <1>2, <1>4, <1>5, <1>6, <1>7 DEF Sending

LEMMA OwnAlone ==
  ASSUME TypeOK
  PROVE  /\ Enquiring => "enquire" \in Tasks /\ Alone("enquire") /\ pc'["enquire"] \in OwnLabels
         /\ Dequeuing \/ dequeue_error => "dequeue" \in Tasks /\ Alone("dequeue") /\ pc'["dequeue"] \in OwnLabels
         /\ Receiving \/ receive_header \/ receive_chunk =>
               "receive" \in Tasks /\ Alone("receive") /\ pc'["receive"] \in OwnLabels
         /\ shutdown \/ shutdown_end => "shutdown" \in Tasks /\ Alone("shutdown") /\ pc'["shutdown"] \in OwnLabels
  <1> USE DEF OwnLabels
  <1>1. ASSUME Enquiring PROVE "enquire" \in Tasks /\ Alone("enquire") /\ pc'["enquire"] \in OwnLabels
    BY <1>1, Touches, Zenon DEF Enquiring, enquire_link_start, enquire_link, NapOver
  <1>2. ASSUME Dequeuing \/ dequeue_error PROVE "dequeue" \in Tasks /\ Alone("dequeue") /\ pc'["dequeue"] \in OwnLabels
    BY <1>2, Touches, Zenon DEF Dequeuing, dequeue_messages, dequeue_awaits_bound, dequeue_gate, dequeue_message,
       build_error, dequeue_error, NapOver, Nap
  <1>3. ASSUME Receiving PROVE "receive" \in Tasks /\ Alone("receive") /\ pc'["receive"] \in OwnLabels
    BY <1>3, Touches, Zenon DEF Receiving, receive_data, receive_nap_over, receive_nothing, receive_bodynap_over,
       Nap, NapOver, receive_incomplete, receive_error, receive_chunk_error, command_handlers, unbind_resp
  <1>4. ASSUME receive_header \/ receive_chunk
        PROVE  "receive" \in Tasks /\ Alone("receive") /\ pc'["receive"] \in OwnLabels
    BY <1>4, Touches, Zenon DEF receive_header, receive_chunk
  <1>5. ASSUME shutdown \/ shutdown_end PROVE "shutdown" \in Tasks /\ Alone("shutdown") /\ pc'["shutdown"] \in OwnLabels
    BY <1>5, Touches, Zenon DEF shutdown, shutdown_end
  <1>6. QED
    BY <1>1, <1>2, <1>3, <1>4, <1>5

-----------------------------------------------------------------------------
\* Where it is in nobody's hands the connect coroutine made it, and nobody is about to
\* take the session for bound: no bind on an earlier connection is still to be drained,
\* and no answer to one to be handled.
Harmless(t) ==
    cmd[t].kind = "bind_transceiver" =>
       /\ pc[t] = "drain" => conn[t] \in Conns /\ Closing(conn[t])
       /\ pc[t] = "lock" => Closing(writer)
Quiet ==
    /\ current_session_state # "BOUND_TRX"
    /\ "receive" \in Tasks => pc["receive"] \notin Reads
    /\ \A t \in Tasks : Harmless(t)
NewIsSafe == NewWriter => Held \/ Quiet

\* A lost connection stays lost.
LEMMA LostStays ==
  ASSUME TypeOK, [Next]_vars, NEW c \in Conns, Closing(c)
  PROVE  Closing(c)'
  <1>1. ASSUME NEW t \in Tasks, connect(t) PROVE net'[c] = "lost"
    BY <1>1 DEF connect, Closing, TypeOK
  <1>2. ASSUME NEW d \in Conns, network_failure(d) PROVE net'[c] = "lost"
    BY <1>2 DEF network_failure, Closing, TypeOK
  <1>3. UNCHANGED net \/ (\E t \in Tasks : connect(t)) \/ \E d \in Conns : network_failure(d)
    <2>1. ASSUME NEW t \in Tasks, connect_error(t) \/ Draining(t) \/ Sending(t) PROVE UNCHANGED net
      BY <2>1, Zenon DEF connect_error, Draining, drained, write_eof_error, drain_error, Sending, re_establish_conn_bind, tranceiver_bind,
         send_data, write, acquire_drain_lock, returned, unbind_and_disconnect, slept, network
    <2>2. Enquiring \/ Dequeuing \/ dequeue_error \/ shutdown \/ shutdown_end \/ send_message => UNCHANGED net
      BY Zenon DEF Enquiring, Dequeuing, enquire_link_start, enquire_link, dequeue_messages, network,
         dequeue_awaits_bound, dequeue_gate, dequeue_message, build_error, dequeue_error, shutdown, shutdown_end, send_message
    <2>3. Receiving \/ receive_header \/ receive_chunk => UNCHANGED net
      BY Zenon DEF Receiving, receive_data, receive_nap_over, receive_nothing, receive_bodynap_over, network,
         receive_incomplete, receive_error, receive_chunk_error, command_handlers, receive_header, receive_chunk
    <2>4. QED
      BY <2>1, <2>2, <2>3, Zenon DEF Next, Step, Environment, Connecting, vars, network
  <1>4. QED
    BY <1>1, <1>2, <1>3 DEF Closing

\* What a step leaves of the coroutines that do not take it.
LEMMA OthersHarmless ==
  ASSUME TypeOK, [Next]_vars, NEW t \in Tasks, Alone(t), \A u \in Tasks : Harmless(u), writer # NoConn, UNCHANGED writer
  PROVE  \A u \in Tasks : u # t => Harmless(u)'
  <1> SUFFICES ASSUME NEW u \in Tasks, u # t PROVE Harmless(u)'
    OBVIOUS
  <1>1. pc'[u] = pc[u] /\ cmd'[u] = cmd[u] /\ conn'[u] = conn[u] /\ Harmless(u)
    BY DEF Alone
  <1>2. Closing(writer) => Closing(writer)'
    BY LostStays DEF TypeOK
  <1>3. conn[u] \in Conns => (net[conn[u]] = "lost" => net'[conn[u]] = "lost")
    BY LostStays DEF Closing
  <1>4. QED
    BY <1>1, <1>2, <1>3 DEF Harmless, Closing

\* A step of t that waits for no drain.
LEMMA QuietMove ==
  ASSUME TypeOK, [Next]_vars, Quiet, NEW t \in Tasks, Alone(t), pc'[t] \notin {"drain", "lock"},
         writer # NoConn, UNCHANGED writer, current_session_state' # "BOUND_TRX"
  PROVE  Quiet'
  <1>1. Harmless(t)'
    BY DEF Harmless
  <1>2. \A u \in Tasks : Harmless(u)'
    BY <1>1, OthersHarmless DEF Quiet
  <1>3. "receive" \in Tasks => pc'["receive"] \notin Reads
    BY ReadsBegin, Zenon DEF Quiet
  <1>4. QED
    BY <1>2, <1>3 DEF Quiet

\* A step of t that goes to drain, or to wait for the lock, with a PDU that is no bind or
\* on a connection that is lost.
LEMMA QuietDrain ==
  ASSUME TypeOK, [Next]_vars, Quiet, NEW t \in Tasks, Alone(t), LockAndDrain(t) \/ Drain(t),
         writer # NoConn, UNCHANGED <<writer, current_session_state>>,
         cmd'[t].kind = "bind_transceiver" => Closing(writer)
  PROVE  Quiet'
  <1>1. writer \in Conns
    BY DEF TypeOK
  <1>2. Closing(writer) => Closing(writer)'
    BY <1>1, LostStays
  <1>3. pc'[t] = "drain" => conn'[t] = writer
    BY DEF LockAndDrain, Drain, WaitOn, Goto, Await, TypeOK
  <1>4. Harmless(t)'
    BY <1>1, <1>2, <1>3 DEF Harmless, Closing
  <1>5. \A u \in Tasks : Harmless(u)'
    BY <1>4, OthersHarmless DEF Quiet
  <1>6. "receive" \in Tasks => pc'["receive"] \notin Reads
    BY ReadsBegin, Zenon DEF Quiet
  <1>7. QED
    BY <1>5, <1>6 DEF Quiet

\* Every step leaves a quiet connection quiet, or without a writer, or bound; but for
\* connect, which replaces it.
LEMMA QuietKept ==
  ASSUME TypeOK, [Next]_vars, NewWriter, Quiet, \A t \in Tasks : ~connect(t)
  PROVE  NewWriter' => Quiet'
  <1>1. writer # NoConn /\ writer \in Conns
    BY DEF NewWriter, TypeOK
  <1>2. ASSUME NEW t \in Tasks, connect_error(t) \/ re_establish_conn_bind(t) \/ tranceiver_bind(t) \/ send_data(t)
                 \/ unbind_and_disconnect(t) \/ slept(t)
        PROVE  Quiet'
    <2>1. Alone(t)
      BY <1>2, SharedAlone DEF Connecting, Sending
    <2>2. pc'[t] \notin {"drain", "lock"}
      <3> DEFINE To(l) == Goto(t, l) \/ Await(t, l)
      <3>1. connect_error(t) => To("done") \/ To("rebind")
        BY Zenon DEF connect_error, AfterConnect
      <3>2. re_establish_conn_bind(t) => To("return") \/ To("connecting")
        BY Zenon DEF re_establish_conn_bind
      <3>3. tranceiver_bind(t) \/ unbind_and_disconnect(t) => To("send") \/ To("return") \/ To("crashed")
        BY Zenon DEF tranceiver_bind, unbind_and_disconnect, unbind
      <3>4. send_data(t) \/ slept(t) => To("reest") \/ To("return") \/ To("write") \/ To("loop")
        BY Zenon DEF send_data, slept
      <3>5. \A l : To(l) => pc'[t] = l
        BY Moves
      <3> HIDE DEF To
      <3>6. QED
        BY <1>2, <3>1, <3>2, <3>3, <3>4, <3>5
    <2>3. UNCHANGED writer /\ current_session_state' \in {current_session_state, "CLOSED"}
      BY <1>2, Zenon DEF connect_error, re_establish_conn_bind, tranceiver_bind, send_data,
         unbind_and_disconnect, slept, session
    <2>4. QED
      BY <1>1, <2>1, <2>2, <2>3, QuietMove DEF Quiet
  <1>3. ASSUME NEW t \in Tasks, write(t), NewWriter' PROVE Quiet'
    <2>1. Alone(t)
      BY <1>3, SharedAlone DEF Sending
    <2>2. UNCHANGED <<writer, current_session_state, cmd>>
      BY <1>3, Zenon DEF write, session
    <2>3. CASE writer \in finSent
      <3>1. pc'[t] = "crashed"
        BY <1>1, <1>3, <2>3, Moves, Zenon DEF write, Crash
      <3>2. QED
        BY <1>1, <2>1, <2>2, <3>1, QuietMove DEF Quiet
    <2>4. CASE writer \notin finSent
      <3>1. LockAndDrain(t)
        BY <1>1, <1>3, <2>4, Zenon DEF write
      <3>2. cmd[t].kind = "bind_transceiver" => Closing(writer)
        BY <1>1, <1>3, <2>2, <2>4 DEF write, NewWriter
      <3>3. QED
        BY <1>1, <2>1, <2>2, <3>1, <3>2, QuietDrain
    <2>5. QED
      BY <2>3, <2>4
  <1>4. ASSUME NEW t \in Tasks, acquire_drain_lock(t) PROVE Quiet'
    <2>1. Alone(t)
      BY <1>4, SharedAlone DEF Sending
    <2>2. UNCHANGED <<writer, current_session_state, cmd>> /\ Drain(t) /\ pc[t] = "lock"
      BY <1>4, Zenon DEF acquire_drain_lock, session
    <2>3. cmd[t].kind = "bind_transceiver" => Closing(writer)
      BY <2>2 DEF Quiet, Harmless
    <2>4. QED
      BY <1>1, <2>1, <2>2, <2>3, QuietDrain
  <1>5. ASSUME NEW t \in Tasks, returned(t) PROVE Quiet'
    <2>1. Alone(t)
      BY <1>5, SharedAlone DEF Sending
    <2>2. UNCHANGED <<writer, current_session_state>>
      BY <1>5, Zenon DEF returned, session
    <2>3. CASE todo[t] = <<>>
      <3>1. pc'[t] \in {"loop", "sleep", "done"}
        BY <1>5, <2>3, Moves DEF returned, AfterSend
      <3>2. QED
        BY <1>1, <2>1, <2>2, <3>1, QuietMove DEF Quiet
    <2>4. CASE todo[t] # <<>> /\ Head(todo[t]).kind = Disconnect
      <3>1. LockAndDrain(t) /\ Take(t, Head(todo[t]))
        BY <1>5, <2>4, Zenon DEF returned
      <3>2. cmd'[t].kind # "bind_transceiver"
        BY <2>4, <3>1, Takes, CommandFacts
      <3>3. QED
        BY <1>1, <2>1, <2>2, <3>1, <3>2, QuietDrain
    <2>5. CASE todo[t] # <<>> /\ Head(todo[t]).kind # Disconnect
      <3>1. pc'[t] = "write"
        BY <1>5, <2>5, Moves, Zenon DEF returned
      <3>2. QED
        BY <1>1, <2>1, <2>2, <3>1, QuietMove DEF Quiet
    <2>6. QED
      BY <2>3, <2>4, <2>5
  <1>6. ASSUME NEW t \in Tasks, Draining(t), NewWriter' PROVE Quiet'
    <2>1. Alone(t)
      BY <1>6, SharedAlone
    <2>2. pc[t] = "drain" /\ pc'[t] \notin {"drain", "lock"}
      <3> DEFINE To(l) == Goto(t, l) \/ Await(t, l)
      <3>1. pc[t] = "drain"
        BY <1>6, Zenon DEF Draining, drained, write_eof_error, drain_error, InDrain
      <3>2. To("linger") \/ To("noheader") \/ To("return")
        BY <1>6, Zenon DEF Draining, drained, write_eof_error, drain_error, AfterDrainError, AfterDisconnect
      <3>3. \A l : To(l) => pc'[t] = l
        BY Moves
      <3> HIDE DEF To
      <3>4. QED
        BY <3>1, <3>2, <3>3
    <2>3. UNCHANGED writer /\ current_session_state' = current_session_state
      <3>1. CASE drained(t)
        <4>1. cmd[t].kind # "bind_transceiver"
          BY <2>2, <3>1 DEF drained, Quiet, Harmless
        <4>2. cmd[t].kind # Disconnect
          BY <1>6, <3>1 DEF drained, CloseWriter, NewWriter
        <4>3. QED
          BY <3>1, <4>1, <4>2, Zenon DEF drained
      <3>2. CASE write_eof_error(t) \/ drain_error(t)
        BY <3>2, Zenon DEF write_eof_error, drain_error, session
      <3>3. QED
        BY <1>6, <3>1, <3>2 DEF Draining
    <2>4. QED
      BY <1>1, <2>1, <2>2, <2>3, QuietMove DEF Quiet
  <1>7. ASSUME \/ Enquiring \/ Dequeuing \/ dequeue_error \/ shutdown \/ shutdown_end
               \/ Receiving \/ receive_header \/ receive_chunk
        PROVE  Quiet'
    <2>1. PICK t \in Tasks : Alone(t) /\ pc'[t] \in OwnLabels
      BY <1>7, OwnAlone
    <2>2. ~command_handlers
      BY DEF command_handlers, Quiet, Reads
    <2>3. UNCHANGED session
      BY <1>7, <2>2, Zenon DEF Enquiring, enquire_link_start, enquire_link, Dequeuing, dequeue_messages,
         dequeue_awaits_bound, dequeue_gate, dequeue_message, build_error, shutdown_end, Receiving, receive_data,
         receive_nap_over, receive_nothing, receive_bodynap_over, receive_incomplete, receive_error,
         receive_chunk_error, receive_header, receive_chunk, dequeue_error, shutdown
    <2>4. pc'[t] \notin {"drain", "lock"}
      BY <2>1, Zenon DEF OwnLabels
    <2>5. QED
      BY <1>1, <2>1, <2>3, <2>4, QuietMove DEF Quiet, session
  <1>8. ASSUME send_message \/ (\E c \in Conns : network_failure(c)) \/ UNCHANGED vars PROVE Quiet'
    <2>1. UNCHANGED <<writer, current_session_state, pc, cmd, conn>>
      BY <1>8, Zenon DEF send_message, network_failure, vars, session, control
    <2>2. Closing(writer) => Closing(writer)'
      BY <1>1, <2>1, LostStays DEF Closing
    <2>3. \A u \in Tasks : conn[u] \in Conns => (net[conn[u]] = "lost" => net'[conn[u]] = "lost")
      BY LostStays DEF Closing
    <2>4. \A u \in Tasks : Harmless(u)'
      BY <2>1, <2>2, <2>3 DEF Quiet, Harmless, Closing
    <2>5. QED
      BY <2>1, <2>4 DEF Quiet
  <1>9. QED
    BY <1>2, <1>3, <1>4, <1>5, <1>6, <1>7, <1>8 DEF Next, Step, Environment, Connecting, Sending

-----------------------------------------------------------------------------
\* shutdown sends no bind: re_establish_conn_bind, which it may get to by way of
\* send_data, finds SHOULD_SHUT_DOWN set.
NoBinds == {p \in Pdu : p.kind # "bind_transceiver"}
ShutdownBindsNothing ==
    "shutdown" \in Tasks =>
       /\ pc["shutdown"] \notin {"connecting", "rebind"}
       /\ cmd["shutdown"] \in NoBinds
       /\ todo["shutdown"] \in Seq(NoBinds)

\* It holds when the coroutines start.
LEMMA NoBindInit == Init => ShutdownBindsNothing
  <1> SUFFICES ASSUME Init, "shutdown" \in Tasks PROVE ShutdownBindsNothing
    BY DEF ShutdownBindsNothing
  <1>1. pc["shutdown"] = "idle" /\ cmd["shutdown"] = Idle /\ todo["shutdown"] = <<>>
    BY DEF Init, FirstAwait
  <1>2. QED
    <2>1. Idle \in NoBinds
      BY PduFacts DEF NoBinds
    <2>2. <<>> \in Seq(NoBinds)
      OBVIOUS
    <2>3. QED
      BY <1>1, <2>1, <2>2 DEF ShutdownBindsNothing

\* Its steps keep to that.
LEMMA NoBindStep ==
  ASSUME TypeOK, Frames, ShutdownBindsNothing, [Next]_vars
  PROVE  ShutdownBindsNothing'
  <1> SUFFICES ASSUME "shutdown" \in Tasks PROVE ShutdownBindsNothing'
    BY DEF ShutdownBindsNothing
  <1> DEFINE t == "shutdown"
  <1>1. pc[t] \notin {"connecting", "rebind"} /\ cmd[t] \in NoBinds /\ todo[t] \in Seq(NoBinds)
    BY DEF ShutdownBindsNothing
  <1>2. Idle \in NoBinds /\ Of("unbind") \in NoBinds /\ Of(Disconnect) \in NoBinds
    BY PduFacts, CommandFacts DEF NoBinds
  <1>3. ASSUME NEW u \in Tasks, u # t, Alone(u) PROVE ShutdownBindsNothing'
    BY <1>1, <1>3 DEF Alone, ShutdownBindsNothing
  <1>4. CASE Draining(t) \/ slept(t)
    <2>1. pc'[t] \notin {"connecting", "rebind"}
      <3> DEFINE To(l) == Goto(t, l) \/ Await(t, l)
      <3>1. To("linger") \/ To("noheader") \/ To("return") \/ To("loop")
        BY <1>4, Zenon DEF Draining, drained, write_eof_error, drain_error, AfterDrainError, AfterDisconnect, slept
      <3>2. \A l : To(l) => pc'[t] = l
        BY Moves
      <3> HIDE DEF To
      <3>3. QED
        BY <3>1, <3>2
    <2>2. UNCHANGED <<cmd, todo>>
      BY <1>4, Zenon DEF Draining, drained, write_eof_error, drain_error, slept
    <2>3. QED
      BY <1>1, <2>1, <2>2 DEF ShutdownBindsNothing
  <1>5. CASE re_establish_conn_bind(t)
    <2>1. SHOULD_SHUT_DOWN
      BY <1>5 DEF re_establish_conn_bind, Frames
    <2>2. pc'[t] = "return" /\ UNCHANGED <<cmd, todo>>
      BY <1>5, <2>1, Moves, Zenon DEF re_establish_conn_bind
    <2>3. QED
      BY <1>1, <2>2 DEF ShutdownBindsNothing
  <1>6. CASE send_data(t)
    <2>1. pc'[t] \in {"reest", "return", "write"} /\ UNCHANGED cmd
      BY <1>6, Moves, Zenon DEF send_data
    <2>2. UNCHANGED todo \/ Stack(t, <<cmd[t]>> \o todo[t])
      BY <1>6, Zenon DEF send_data
    <2>3. todo'[t] \in Seq(NoBinds)
      BY <1>1, <2>2, SequenceFacts, Stacks
    <2>4. QED
      BY <1>1, <2>1, <2>3 DEF ShutdownBindsNothing
  <1>7. CASE write(t) \/ acquire_drain_lock(t)
    <2>1. pc'[t] \in {"lock", "drain", "crashed"}
      BY <1>7, Drains, Moves DEF write, acquire_drain_lock
    <2>2. UNCHANGED <<cmd, todo>>
      BY <1>7, Zenon DEF write, acquire_drain_lock
    <2>3. QED
      BY <1>1, <2>1, <2>2 DEF ShutdownBindsNothing
  <1>8. CASE returned(t)
    <2>1. CASE todo[t] = <<>>
      <3>1. pc'[t] = "done"
        BY <1>8, <2>1, Moves DEF returned, AfterSend
      <3>2. Take(t, Idle) /\ UNCHANGED todo
        BY <1>8, <2>1, Zenon DEF returned
      <3>3. cmd'[t] = Idle
        BY <3>2, Takes
      <3>4. QED
        BY <1>1, <1>2, <3>1, <3>2, <3>3 DEF ShutdownBindsNothing
    <2>2. CASE todo[t] # <<>>
      <3>1. pc'[t] \in {"lock", "drain", "crashed", "write"}
        BY <1>8, <2>2, Drains, Moves, Zenon DEF returned
      <3>2. cmd'[t] = Head(todo[t]) /\ todo'[t] = Tail(todo[t])
        BY <1>8, <2>2, Takes, Stacks, Zenon DEF returned
      <3>3. Head(todo[t]) \in NoBinds /\ Tail(todo[t]) \in Seq(NoBinds)
        BY <1>1, <2>2, SequenceFacts
      <3>4. QED
        BY <3>1, <3>2, <3>3 DEF ShutdownBindsNothing
    <2>3. QED
      BY <2>1, <2>2
  <1>9. CASE unbind_and_disconnect(t)
    <2>1. pc'[t] \in {"crashed", "send"}
      BY <1>9, Moves, Zenon DEF unbind_and_disconnect, unbind
    <2>2. \/ UNCHANGED <<cmd, todo>>
          \/ cmd'[t] = Of("unbind") /\ todo'[t] = <<Of(Disconnect)>>
      BY <1>9, Takes, Stacks, Zenon DEF unbind_and_disconnect, unbind
    <2>3. <<Of(Disconnect)>> \in Seq(NoBinds)
      BY <1>2
    <2>4. QED
      BY <1>1, <1>2, <2>1, <2>2, <2>3 DEF ShutdownBindsNothing
  <1>10. CASE shutdown \/ shutdown_end
    <2>1. pc'[t] \in {"disc", "done"} /\ UNCHANGED <<cmd, todo>>
      BY <1>10, Moves, Zenon DEF shutdown, shutdown_end
    <2>2. QED
      BY <1>1, <2>1 DEF ShutdownBindsNothing
  <1>11. CASE send_message \/ (\E c \in Conns : network_failure(c)) \/ UNCHANGED vars
    <2>1. UNCHANGED <<pc, cmd, todo>>
      BY <1>11, Zenon DEF send_message, network_failure, vars, control
    <2>2. QED
      BY <1>1, <2>1 DEF ShutdownBindsNothing
  <1>12. ~Connecting(t) /\ ~tranceiver_bind(t)
    BY <1>1 DEF Connecting, connect, connect_error, tranceiver_bind
  <1>13. ASSUME NEW u \in Tasks, Connecting(u) \/ Draining(u) \/ Sending(u) PROVE ShutdownBindsNothing'
    BY <1>3, <1>4, <1>5, <1>6, <1>7, <1>8, <1>9, <1>12, <1>13, SharedAlone DEF Sending
  <1>14. ASSUME \/ Enquiring \/ Dequeuing \/ dequeue_error \/ Receiving \/ receive_header \/ receive_chunk
         PROVE  ShutdownBindsNothing'
    BY <1>3, <1>14, OwnAlone
  <1>15. QED
    BY <1>10, <1>11, <1>13, <1>14 DEF Next, Step, Environment
-----------------------------------------------------------------------------
\* While the connect coroutine waits for its connection, the loops are in their first
\* naps, which outlast it, shutdown cannot get past a missing writer before there is one,
\* and tranceiver_bind, once it has a connection, binds it without a suspension.
Loops == {"dequeue", "receive", "enquire"}
Unstarted == "shutdown" \in Tasks => pc["shutdown"] \in {"idle", "disc", "crashed"}
Fresh == loaded = {} /\ drain_lock = NoTask /\ Unstarted
Ready == Fresh /\ writer \notin finSent \cup {NoConn} /\ net[writer] = "up"

BindConnecting == pc["bind"] = "connecting" /\ writer = NoConn /\ current_session_state = "CLOSED" /\ Fresh
BindInControl ==
    /\ running = "bind"
    /\ \/ pc["bind"] = "rebind" /\ (current_session_state = "OPEN" => Ready)
       \/ /\ pc["bind"] \in {"send", "write"} /\ cmd["bind"] = Of("bind_transceiver")
          /\ current_session_state = "OPEN" /\ Ready
       \/ pc["bind"] = "drain" /\ cmd["bind"] = Of("bind_transceiver")
       \/ pc["bind"] = "return"

BindAlone ==
    "bind" \in Tasks =>
       /\ BindConnecting \/ BindInControl \/ pc["bind"] = "done"
       /\ todo["bind"] = <<>>
LoopsNap == \A t \in Tasks \cap Loops : pc[t] = "nap" /\ "connect" \in older[t]

ConnectsOnce ==
    "connect" \in Tasks =>
       /\ pc["connect"] \in {"connecting", "done"}
       /\ pc["connect"] = "connecting" => LoopsNap /\ BindAlone

\* It holds when the coroutines start.
LEMMA OnceInit == Init => ConnectsOnce
  <1> SUFFICES ASSUME Init, "connect" \in Tasks PROVE ConnectsOnce
    BY DEF ConnectsOnce
  <1>1. pc["connect"] = "connecting"
    BY DEF Init, FirstAwait
  <1>2. "connect" \in Attempts
    BY <1>1 DEF Attempts
  <1>3. LoopsNap
    BY <1>2 DEF Init, FirstAwait, LoopsNap, Loops
  <1>4. Unstarted
    BY DEF Init, FirstAwait, Unstarted
  <1>5. BindAlone
    BY <1>4 DEF Init, FirstAwait, BindAlone, BindConnecting, Fresh
  <1>6. QED
    BY <1>1, <1>3, <1>5 DEF ConnectsOnce

\* Who can move while connect waits.
LEMMA EarlySteps ==
  ASSUME TypeOK, LoopsNap, "connect" \in Tasks, pc["connect"] = "connecting", [Next]_vars
  PROVE  \/ Connecting("connect")
         \/ "bind" \in Tasks /\ (Connecting("bind") \/ Draining("bind") \/ Sending("bind"))
         \/ "shutdown" \in Tasks /\ (Connecting("shutdown") \/ Draining("shutdown") \/ Sending("shutdown"))
         \/ shutdown \/ shutdown_end
         \/ send_message \/ (\E c \in Conns : network_failure(c)) \/ UNCHANGED vars
  <1>1. ASSUME NEW t \in Tasks, pc[t] = "nap" PROVE ~Connecting(t) /\ ~Draining(t) /\ ~Sending(t)
    BY <1>1, Zenon DEF Connecting, connect, connect_error, Draining, drained, write_eof_error, drain_error, InDrain, Sending,
       re_establish_conn_bind, tranceiver_bind, send_data, write, acquire_drain_lock, returned, unbind_and_disconnect, slept
  <1>2. ASSUME NEW t \in Tasks, pc[t] = "connecting" PROVE ~Draining(t) /\ ~Sending(t)
    BY <1>2, Zenon DEF Draining, drained, write_eof_error, drain_error, InDrain, Sending,
       re_establish_conn_bind, tranceiver_bind, send_data, write, acquire_drain_lock, returned, unbind_and_disconnect, slept
  <1>3. ~Enquiring
    BY DEF Enquiring, enquire_link_start, enquire_link, NapOver, LoopsNap, Loops
  <1>4. ~Dequeuing /\ ~dequeue_error
    BY DEF Dequeuing, dequeue_messages, dequeue_awaits_bound, dequeue_gate, dequeue_message, build_error, dequeue_error,
       NapOver, LoopsNap, Loops
  <1>5. ~Receiving /\ ~receive_header /\ ~receive_chunk
    BY DEF Receiving, receive_data, receive_nap_over, receive_nothing, receive_bodynap_over, receive_incomplete,
       receive_error, receive_chunk_error, command_handlers, receive_header, receive_chunk, NapOver, LoopsNap, Loops
  <1>6. \A t \in Tasks : t \in Loops \/ t \in {"connect", "bind", "shutdown"}
    BY ClientAssumption DEF Loops, AllTasks
  <1>7. ASSUME NEW t \in Tasks, Connecting(t) \/ Draining(t) \/ Sending(t)
        PROVE  \/ t = "connect" /\ Connecting(t)
               \/ t \in {"bind", "shutdown"}
    BY <1>1, <1>2, <1>6, <1>7 DEF LoopsNap
  <1>8. QED
    BY <1>3, <1>4, <1>5, <1>7 DEF Next, Step, Environment

\* The steps of shutdown and of the environment leave tranceiver_bind as it is.
LEMMA BindUndisturbed ==
  ASSUME TypeOK, BindAlone, ShutdownBindsNothing,
         \/ "shutdown" \in Tasks /\ (Connecting("shutdown") \/ Draining("shutdown") \/ Sending("shutdown"))
         \/ shutdown \/ shutdown_end
         \/ send_message \/ (\E c \in Conns : network_failure(c)) \/ UNCHANGED vars
  PROVE  BindAlone'
  <1> SUFFICES ASSUME "bind" \in Tasks PROVE BindAlone'
    BY DEF BindAlone
  <1>1. /\ pc'["bind"] = pc["bind"] /\ cmd'["bind"] = cmd["bind"] /\ todo'["bind"] = todo["bind"]
    <2>1. CASE "shutdown" \in Tasks /\ Alone("shutdown")
      BY <2>1 DEF Alone
    <2>2. CASE send_message \/ (\E c \in Conns : network_failure(c)) \/ UNCHANGED vars
      BY <2>2, Zenon DEF send_message, network_failure, vars, control
    <2>3. QED
      BY <2>1, <2>2, SharedAlone, OwnAlone
  <1>2. CASE pc["bind"] = "done"
    BY <1>1, <1>2 DEF BindAlone
  <1>3. CASE UNCHANGED vars
    BY <1>3 DEF vars, session, network, control, BindAlone, BindConnecting, BindInControl, Ready, Fresh, Unstarted
  <1>4. CASE BindInControl /\ ~UNCHANGED vars
    <2>1. running = "bind"
      BY <1>4 DEF BindInControl
    <2>2. FALSE
      BY <1>4, <2>1, TaskFacts, Zenon DEF Connecting, connect, connect_error, Draining, drained, write_eof_error, drain_error, InDrain, Sending,
         re_establish_conn_bind, tranceiver_bind, send_data, write, acquire_drain_lock, returned, unbind_and_disconnect,
         slept, shutdown, shutdown_end, send_message, network_failure
    <2>3. QED
      BY <2>2
  <1>5. CASE BindConnecting
    <2>1. CASE send_message \/ \E c \in Conns : network_failure(c)
      <3>1. UNCHANGED <<pc, writer, current_session_state, loaded, drain_lock>>
        BY <2>1, Zenon DEF send_message, network_failure, session, control, network
      <3>2. QED
        BY <1>1, <1>5, <3>1 DEF BindConnecting, BindAlone, Fresh, Unstarted
    <2>2. CASE shutdown
      <3>1. pc'["shutdown"] = "disc" /\ UNCHANGED <<writer, current_session_state, loaded, drain_lock>>
        BY <2>2, Moves, Zenon DEF shutdown, session, network
      <3>2. QED
        BY <1>1, <1>5, <3>1 DEF BindConnecting, BindAlone, Fresh, Unstarted
    <2>3. CASE "shutdown" \in Tasks /\ unbind_and_disconnect("shutdown")
      <3>1. Crash("shutdown") /\ UNCHANGED <<writer, current_session_state, loaded, drain_lock>>
        BY <1>5, <2>3, Zenon DEF unbind_and_disconnect, BindConnecting, session, network
      <3>2. pc'["shutdown"] = "crashed"
        BY <2>3, <3>1, Moves
      <3>3. QED
        BY <1>1, <1>5, <3>1, <3>2 DEF BindConnecting, BindAlone, Fresh, Unstarted
    <2>4. ASSUME "shutdown" \in Tasks,
                 \/ shutdown_end \/ Connecting("shutdown") \/ Draining("shutdown")
                 \/ Sending("shutdown") /\ ~unbind_and_disconnect("shutdown")
          PROVE  FALSE
      <3>1. pc["shutdown"] \in {"idle", "disc", "crashed"}
        BY <1>5, <2>4 DEF BindConnecting, Fresh, Unstarted
      <3>2. QED
        BY <2>4, <3>1, Zenon DEF Connecting, connect, connect_error, Draining, drained, write_eof_error, drain_error, InDrain, Sending,
         re_establish_conn_bind, tranceiver_bind, send_data, write, acquire_drain_lock, returned, slept, shutdown_end
    <2>5. QED
      BY <1>3, <2>1, <2>2, <2>3, <2>4 DEF shutdown_end
  <1>6. QED
    BY <1>2, <1>3, <1>4, <1>5 DEF BindAlone

\* tranceiver_bind goes from its connection to the end of the drain without a suspension.
LEMMA BindProceeds ==
  ASSUME TypeOK, UsedConnections, LoopsNap, BindAlone, "connect" \in Tasks, pc["connect"] = "connecting",
         "bind" \in Tasks, Connecting("bind") \/ Draining("bind") \/ Sending("bind")
  PROVE  BindAlone'
  <1> DEFINE t == "bind"
  <1>1. todo[t] = <<>>
    BY DEF BindAlone
  <1>2. Alone(t)
    BY SharedAlone
  <1>3. Unstarted => Unstarted'
    BY <1>2 DEF Alone, Unstarted
  <1>4. pc[t] # "done"
    BY Zenon DEF Connecting, connect, connect_error, Draining, drained, write_eof_error, drain_error, InDrain, Sending,
       re_establish_conn_bind, tranceiver_bind, send_data, write, acquire_drain_lock, returned, unbind_and_disconnect, slept
  <1>5. CASE BindConnecting
    <2>1. Connecting(t)
      BY <1>5, Zenon DEF BindConnecting, Draining, drained, write_eof_error, drain_error, InDrain, Sending,
         re_establish_conn_bind, tranceiver_bind, send_data, write, acquire_drain_lock, returned, unbind_and_disconnect, slept
    <2>2. Goto(t, "rebind") /\ UNCHANGED <<loaded, drain_lock, todo>>
      BY <2>1, Zenon DEF Connecting, connect, connect_error, AfterConnect
    <2>3. pc'[t] = "rebind" /\ running' = t
      BY <2>2, Moves DEF Goto
    <2>4. CASE connect(t)
      <3>1. PICK c \in Conns : writer' = c /\ net[c] = "free" /\ net' = [net EXCEPT ![c] = "up"]
        BY <2>4 DEF connect, UseConnection
      <3>2. UNCHANGED finSent
        BY <2>4, Zenon DEF connect
      <3>3. writer' \notin finSent' \cup {NoConn} /\ net'[writer'] = "up"
        BY <3>1, <3>2, ClientAssumption DEF TypeOK, UsedConnections
      <3>4. QED
        BY <1>1, <1>3, <1>5, <2>2, <2>3, <3>3 DEF BindAlone, BindConnecting, BindInControl, Ready, Fresh
    <2>5. CASE connect_error(t)
      <3>1. UNCHANGED current_session_state
        BY <2>5, Zenon DEF connect_error, session
      <3>2. current_session_state' # "OPEN"
        BY <1>5, <3>1 DEF BindConnecting
      <3>3. QED
        BY <1>1, <2>2, <2>3, <3>2 DEF BindAlone, BindInControl
    <2>6. QED
      BY <2>1, <2>4, <2>5 DEF Connecting
  <1>6. CASE BindInControl /\ pc[t] = "rebind"
    <2>1. tranceiver_bind(t) /\ UNCHANGED <<session, loaded, net, finSent, drain_lock, todo>>
      BY <1>6, Zenon DEF Connecting, connect, connect_error, Draining, drained, write_eof_error, drain_error, InDrain, Sending, network,
         re_establish_conn_bind, tranceiver_bind, send_data, write, acquire_drain_lock, returned, unbind_and_disconnect, slept
    <2>2. CASE current_session_state = "OPEN"
      <3>1. Take(t, Of("bind_transceiver")) /\ Goto(t, "send")
        BY <2>1, <2>2, Zenon DEF tranceiver_bind
      <3>2. pc'[t] = "send" /\ running' = t /\ cmd'[t] = Of("bind_transceiver")
        BY <3>1, Moves, Takes DEF Goto
      <3>3. Ready'
        BY <1>3, <1>6, <2>1, <2>2 DEF BindInControl, Ready, Fresh, session
      <3>4. QED
        BY <1>1, <2>1, <2>2, <3>2, <3>3 DEF BindAlone, BindInControl, session
    <2>3. CASE current_session_state # "OPEN"
      <3>1. Goto(t, "return")
        BY <2>1, <2>3, Zenon DEF tranceiver_bind
      <3>2. pc'[t] = "return" /\ running' = t
        BY <3>1, Moves DEF Goto
      <3>3. QED
        BY <1>1, <2>1, <3>2 DEF BindAlone, BindInControl
    <2>4. QED
      BY <2>2, <2>3
  <1>7. CASE BindInControl /\ pc[t] = "send"
    <2>1. send_data(t) /\ UNCHANGED <<session, loaded, net, finSent, drain_lock, cmd>>
      BY <1>7, Zenon DEF Connecting, connect, connect_error, Draining, drained, write_eof_error, drain_error, InDrain, Sending, network,
         re_establish_conn_bind, tranceiver_bind, send_data, write, acquire_drain_lock, returned, unbind_and_disconnect, slept
    <2>2. cmd[t] = Of("bind_transceiver") /\ current_session_state = "OPEN" /\ Ready
      BY <1>7 DEF BindInControl
    <2>3. cmd[t].kind = "bind_transceiver" /\ ~ConnectionGone
      BY <2>2, PduFacts, CommandFacts DEF ConnectionGone, Closing, Ready
    <2>4. Goto(t, "write") /\ UNCHANGED todo
      BY <2>1, <2>2, <2>3 DEF send_data
    <2>5. pc'[t] = "write" /\ running' = t
      BY <2>4, Moves DEF Goto
    <2>6. Ready'
      BY <1>3, <2>1, <2>2 DEF Ready, Fresh, session
    <2>7. QED
      BY <1>1, <2>1, <2>2, <2>4, <2>5, <2>6 DEF BindAlone, BindInControl, session
  <1>8. CASE BindInControl /\ pc[t] = "write"
    <2>1. write(t) /\ UNCHANGED <<writer, net, cmd, todo>>
      BY <1>8, Zenon DEF Connecting, connect, connect_error, Draining, drained, write_eof_error, drain_error, InDrain, Sending, session,
         re_establish_conn_bind, tranceiver_bind, send_data, write, acquire_drain_lock, returned, unbind_and_disconnect, slept
    <2>2. cmd[t] = Of("bind_transceiver") /\ Ready
      BY <1>8 DEF BindInControl
    <2>3. /\ cmd[t].kind = "bind_transceiver" /\ writer \notin finSent \cup {NoConn} /\ ~Closing(writer)
          /\ loaded = {} /\ drain_lock = NoTask
      BY <2>2, PduFacts, CommandFacts DEF Closing, Ready, Fresh
    <2>4. loaded' = {} /\ LockAndDrain(t)
      BY <2>1, <2>3 DEF write
    <2>5. \A u \in Tasks : pc[u] # "lock"
      <3>1. \A u \in Tasks : u \in Loops \/ u \in {"connect", "bind", "shutdown"}
        BY ClientAssumption DEF Loops, AllTasks
      <3>2. "shutdown" \in Tasks => pc["shutdown"] # "lock"
        BY <2>2 DEF Ready, Fresh, Unstarted
      <3>3. QED
        BY <1>8, <3>1, <3>2 DEF LoopsNap
    <2>6. Goto(t, "drain")
      BY <2>3, <2>4, <2>5 DEF LockAndDrain, Drain, Closing
    <2>7. pc'[t] = "drain" /\ running' = t
      BY <2>6, Moves DEF Goto
    <2>8. QED
      BY <1>1, <2>1, <2>2, <2>7 DEF BindAlone, BindInControl
  <1>9. CASE BindInControl /\ pc[t] = "drain"
    <2>1. Draining(t) /\ UNCHANGED todo
      BY <1>9, Zenon DEF Connecting, connect, connect_error, Draining, drained, write_eof_error, drain_error, InDrain, Sending,
         re_establish_conn_bind, tranceiver_bind, send_data, write, acquire_drain_lock, returned, unbind_and_disconnect, slept
    <2>2. cmd[t].kind # Disconnect
      <3>1. Of("bind_transceiver").kind = "bind_transceiver" /\ "bind_transceiver" # Disconnect
        BY PduFacts, CommandFacts
      <3>2. cmd[t] = Of("bind_transceiver")
        BY <1>9 DEF BindInControl
      <3>3. QED
        BY <3>1, <3>2
    <2>3. Goto(t, "return")
      BY <2>1, <2>2, Zenon DEF Draining, drained, write_eof_error, drain_error, AfterDrainError
    <2>4. pc'[t] = "return" /\ running' = t
      BY <2>3, Moves DEF Goto
    <2>5. QED
      BY <1>1, <2>1, <2>4 DEF BindAlone, BindInControl
  <1>10. CASE BindInControl /\ pc[t] = "return"
    <2>1. returned(t)
      BY <1>10, Zenon DEF Connecting, connect, connect_error, Draining, drained, write_eof_error, drain_error, InDrain, Sending,
         re_establish_conn_bind, tranceiver_bind, send_data, write, acquire_drain_lock, returned, unbind_and_disconnect, slept
    <2>2. AfterSend(t) /\ UNCHANGED todo
      BY <1>1, <2>1, Zenon DEF returned
    <2>3. pc'[t] = "done"
      BY <2>2, Moves DEF AfterSend
    <2>4. QED
      BY <1>1, <2>2, <2>3 DEF BindAlone
  <1>11. QED
    BY <1>4, <1>5, <1>6, <1>7, <1>8, <1>9, <1>10 DEF BindAlone, BindInControl

\* connect connects once, and until then the others are as described.
LEMMA OnceStep ==
  ASSUME TypeOK, UsedConnections, ShutdownBindsNothing, ConnectsOnce, [Next]_vars
  PROVE  ConnectsOnce'
  <1> SUFFICES ASSUME "connect" \in Tasks PROVE ConnectsOnce'
    BY DEF ConnectsOnce
  <1>1. CASE pc["connect"] = "done"
    <2>1. \A t \in Tasks : Connecting(t) \/ Draining(t) \/ Sending(t) => t # "connect"
      BY <1>1, Zenon DEF Connecting, connect, connect_error, Draining, drained, write_eof_error, drain_error, InDrain, Sending,
         re_establish_conn_bind, tranceiver_bind, send_data, write, acquire_drain_lock, returned, unbind_and_disconnect, slept
    <2>2. pc'["connect"] = "done"
      <3>1. ASSUME NEW t \in Tasks, t # "connect", Alone(t) PROVE pc'["connect"] = "done"
        BY <1>1, <3>1 DEF Alone
      <3>2. CASE send_message \/ (\E c \in Conns : network_failure(c)) \/ UNCHANGED vars
        BY <1>1, <3>2, Zenon DEF send_message, network_failure, vars, control
      <3>3. CASE \/ Enquiring \/ Dequeuing \/ dequeue_error \/ Receiving \/ receive_header \/ receive_chunk
                 \/ shutdown \/ shutdown_end
        BY <3>1, <3>3, OwnAlone
      <3>4. QED
        BY <2>1, <3>1, <3>2, <3>3, SharedAlone DEF Next, Step, Environment
    <2>3. QED
      BY <2>2 DEF ConnectsOnce
  <1>2. CASE pc["connect"] = "connecting" /\ Connecting("connect")
    <2>1. Await("connect", "done")
      BY <1>2, Zenon DEF Connecting, connect, connect_error, AfterConnect
    <2>2. pc'["connect"] = "done"
      BY <2>1, Moves
    <2>3. QED
      BY <2>2 DEF ConnectsOnce
  <1>3. CASE pc["connect"] = "connecting" /\ ~Connecting("connect")
    <2>1. LoopsNap /\ BindAlone
      BY <1>3 DEF ConnectsOnce
    <2>2. \/ "bind" \in Tasks /\ (Connecting("bind") \/ Draining("bind") \/ Sending("bind"))
          \/ "shutdown" \in Tasks /\ (Connecting("shutdown") \/ Draining("shutdown") \/ Sending("shutdown"))
          \/ shutdown \/ shutdown_end
          \/ send_message \/ (\E c \in Conns : network_failure(c)) \/ UNCHANGED vars
      BY <1>3, <2>1, EarlySteps
    <2>3. BindAlone'
      BY <1>3, <2>1, <2>2, BindProceeds, BindUndisturbed
    <2>4. \A u \in Tasks : u \notin {"bind", "shutdown"} => pc'[u] = pc[u]
      <3>1. CASE send_message \/ (\E c \in Conns : network_failure(c)) \/ UNCHANGED vars
        BY <3>1, Zenon DEF send_message, network_failure, vars, control
      <3>2. CASE "bind" \in Tasks /\ Alone("bind")
        BY <3>2 DEF Alone
      <3>3. CASE "shutdown" \in Tasks /\ Alone("shutdown")
        BY <3>3 DEF Alone
      <3>4. QED
        BY <2>2, <3>1, <3>2, <3>3, SharedAlone, OwnAlone
    <2>5. \A u \in Tasks : "connect" \in older[u] => "connect" \in older'[u]
      <3>1. ASSUME NEW t \in Tasks, t # "connect", Connecting(t)
            PROVE  \A u \in Tasks : "connect" \in older[u] => "connect" \in older'[u]
        BY <3>1 DEF Connecting, connect, connect_error, AfterConnect
      <3>2. ASSUME NEW t \in Tasks, Draining(t) \/ Sending(t) PROVE UNCHANGED older
        BY <3>2, Zenon DEF Draining, drained, write_eof_error, drain_error, Sending, network,
           re_establish_conn_bind, tranceiver_bind, send_data, write, acquire_drain_lock, returned,
           unbind_and_disconnect, slept
      <3>3. ASSUME shutdown \/ shutdown_end \/ send_message \/ (\E c \in Conns : network_failure(c)) \/ UNCHANGED vars
            PROVE  UNCHANGED older
        BY <3>3, Zenon DEF shutdown, shutdown_end, send_message, network_failure, vars, network
      <3>4. QED
        BY <2>2, <3>1, <3>2, <3>3
    <2>6. LoopsNap'
      BY <2>1, <2>4, <2>5 DEF LoopsNap, Loops
    <2>7. QED
      BY <1>3, <2>3, <2>4, <2>6 DEF ConnectsOnce
  <1>4. QED
    BY <1>1, <1>2, <1>3 DEF ConnectsOnce

\* The connection that connect makes finds everybody quiet.
LEMMA ConnectIsQuiet ==
  ASSUME TypeOK, ShutdownBindsNothing, ConnectsOnce, "connect" \in Tasks, connect("connect")
  PROVE  Quiet'
  <1>1. /\ pc["connect"] = "connecting" /\ running = NoTask /\ LoopsNap /\ BindAlone
        /\ UNCHANGED <<cmd, conn>> /\ current_session_state' = "OPEN" /\ Await("connect", "done")
    BY Zenon DEF connect, UseConnection, AfterConnect, ConnectsOnce
  <1>2. \A u \in Tasks : pc'[u] = "done" \/ pc'[u] = pc[u]
    BY <1>1, Moves
  <1>3. \A u \in Tasks : u \in Loops \/ u \in {"connect", "bind", "shutdown"}
    BY ClientAssumption DEF Loops, AllTasks
  <1>4. ASSUME NEW u \in Tasks PROVE Harmless(u)'
    <2>1. CASE u \in Loops
      BY <1>1, <1>2, <2>1 DEF LoopsNap, Harmless
    <2>2. CASE u = "connect"
      BY <1>1, <1>2, <2>2 DEF Harmless
    <2>3. CASE u = "bind"
      <3>1. pc[u] \in {"connecting", "done"}
        BY <1>1, <2>3, ClientAssumption DEF BindAlone, BindConnecting, BindInControl, AllTasks
      <3>2. QED
        BY <1>2, <3>1 DEF Harmless
    <2>4. CASE u = "shutdown"
      BY <1>1, <2>4 DEF ShutdownBindsNothing, NoBinds, Harmless
    <2>5. QED
      BY <1>3, <2>1, <2>2, <2>3, <2>4
  <1>5. "receive" \in Tasks => pc'["receive"] \notin Reads
    BY <1>1, <1>2 DEF LoopsNap, Loops, Reads
  <1>6. QED
    BY <1>1, <1>4, <1>5 DEF Quiet

\* Every step leaves a connection without a bind in hand, or everybody quiet.
LEMMA SafeStep ==
  ASSUME TypeOK, UsedConnections, ShutdownBindsNothing, ConnectsOnce, NewIsSafe, [Next]_vars
  PROVE  NewIsSafe'
  <1>1. ASSUME NEW t \in Tasks, connect(t) PROVE NewIsSafe'
    <2>1. CASE t = "connect"
      BY <1>1, <2>1, ConnectIsQuiet DEF NewIsSafe
    <2>2. CASE t # "connect"
      <3>1. PICK c \in Conns : /\ writer' = c /\ current_session_state' = "OPEN"
                              /\ net[c] = "free" /\ net' = [net EXCEPT ![c] = "up"]
        BY <1>1 DEF connect, UseConnection
      <3>2. pc'[t] = "rebind" /\ running' = t /\ UNCHANGED finSent
        BY <1>1, <2>2, Moves DEF connect, AfterConnect, Goto
      <3>3. net'[c] = "up" /\ c \notin finSent
        BY <3>1 DEF TypeOK, UsedConnections
      <3>4. QED
        BY <3>1, <3>2, <3>3 DEF NewIsSafe, Held
    <2>3. QED
      BY <2>1, <2>2
  <1>2. ASSUME \A t \in Tasks : ~connect(t), ~NewWriter PROVE ~NewWriter'
    <2>1. writer' \in {writer, NoConn}
      <3>1. ASSUME NEW t \in Tasks, re_establish_conn_bind(t) \/ drained(t) PROVE writer' \in {writer, NoConn}
        BY <3>1, Zenon DEF re_establish_conn_bind, drained, CloseWriter
      <3>2. command_handlers => writer' = writer
        BY Zenon DEF command_handlers
      <3>3. QED
        BY <1>2, <3>1, <3>2, SessionSteps DEF session
    <2>2. bindSent \subseteq bindSent'
      <3>1. ASSUME NEW t \in Tasks, write(t) PROVE bindSent \subseteq bindSent'
        BY <3>1, Zenon DEF write
      <3>2. ASSUME NEW t \in Tasks, tranceiver_bind(t) \/ send_data(t) PROVE UNCHANGED bindSent
        BY <3>2, Zenon DEF tranceiver_bind, send_data, network
      <3>3. UNCHANGED vars => UNCHANGED bindSent
        BY Zenon DEF vars, network
      <3>4. QED
        BY <1>2, <3>1, <3>2, <3>3, ElseWhere
    <2>3. QED
      BY <1>2, <2>1, <2>2 DEF NewWriter
  <1>3. ASSUME \A t \in Tasks : ~connect(t), NewWriter PROVE NewIsSafe'
    BY <1>3, HeldStep, QuietKept DEF NewIsSafe
  <1>4. QED
    BY <1>1, <1>2, <1>3 DEF NewIsSafe

\* A BOUND_TRX session is bound on the connection it writes to, for every set of
\* coroutines, connect and shutdown included.
THEOREM BoundWhereItWrites == Spec => []BoundOnWriter
  <1>1. Init => ShutdownBindsNothing /\ ConnectsOnce /\ NewIsSafe
    BY NoBindInit, OnceInit DEF Init, NewIsSafe, NewWriter
  <1>2. Inv /\ ShutdownBindsNothing /\ ConnectsOnce /\ NewIsSafe /\ [Next]_vars
          => (ShutdownBindsNothing /\ ConnectsOnce /\ NewIsSafe)'
    BY NoBindStep, OnceStep, SafeStep DEF Inv
  <1>3. NewIsSafe => BoundOnWriter
    BY DEF NewIsSafe, NewWriter, Held, Quiet, BoundOnWriter
  <1>4. QED
    BY <1>1, <1>2, <1>3, InvHolds, PTL DEF Spec
=============================================================================
