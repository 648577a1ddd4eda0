------------------------ MODULE ClientChannelProofs ------------------------
(***************************************************************************)
(* The client implements the channel, and the channel keeps the order, for *)
(* every set of coroutines and connections and any number of messages.     *)
(***************************************************************************)
EXTENDS ClientChannel, ClientProofs

USE DEF Crash, In, Resume, session, network, control, queues

-----------------------------------------------------------------------------
(* What is carried from the broker to the wire.                            *)

Answers == {Of("deliver_sm_resp"), Of("enquire_link_resp")}
Messages == {p \in Pdu : p.kind = "submit_sm"}
Carried == Answers \cup Messages

\* The PDUs that are no message of the application.
OwnPdus == {p \in Pdu : p.kind # "submit_sm"}

\* Where send_data has the PDU in hand, and where dequeue_messages has nothing to send.
Sends == {"send", "write"}
AtRest == {"loop", "gate", "fetch", "sleep", "nap"}

\* A stack with at most one PDU of the broker, below the binds that have to go first; and
\* that PDU.
Sound(stack) == \A i \in 1 .. Len(stack) : Queued(stack[i]) => i = Len(stack) /\ stack[i] \in Carried
Kept(stack) == IF stack # <<>> /\ Queued(stack[Len(stack)]) THEN stack[Len(stack)] ELSE Idle

\* No coroutine but dequeue_messages ever sends a message of the application.
OthersSend ==
    \A t \in Tasks \ {"dequeue"} :
       /\ pc[t] \in Sends => cmd[t].kind # "submit_sm"
       /\ todo[t] \in Seq(OwnPdus)

\* dequeue_messages has at most one PDU of the broker in hand: what it is about to send or
\* write, or else the last on its stack.
OneInHand ==
    "dequeue" \in Tasks =>
       /\ Queued(cmd["dequeue"]) => cmd["dequeue"] \in Carried
       /\ Sound(todo["dequeue"])
       /\ Queued(cmd["dequeue"]) /\ pc["dequeue"] \in Sends => todo["dequeue"] = <<>>
       /\ pc["dequeue"] \in AtRest => todo["dequeue"] = <<>>

Cargo == broker \in Seq(Carried) /\ OthersSend /\ OneInHand

\* Which PDUs are carried.
LEMMA CarriedFacts ==
    /\ \A p \in Carried : p \in Pdu /\ Queued(p) /\ (p \in Answers <=> p.kind # "submit_sm")
    /\ \A n \in Nat : SubmitSM(n) \in Carried
    /\ Of("deliver_sm_resp") \in Answers /\ Of("enquire_link_resp") \in Answers
    /\ Answers \subseteq Carried
    /\ \A p : Queued(p) => p # Idle
    /\ ~Queued(Idle) /\ ~Queued(Of("bind_transceiver"))
  <1>1. \A n \in Nat : SubmitSM(n) \in Carried
    BY PduFacts DEF Carried, Messages
  <1>2. \A p : Queued(p) => p # Idle
    BY PduFacts DEF Queued
  <1>3. Answers \subseteq Carried /\ Of("deliver_sm_resp") \in Answers /\ Of("enquire_link_resp") \in Answers
    BY DEF Answers, Carried
  <1>4. \A p \in Carried : p \in Pdu /\ Queued(p) /\ (p \in Answers <=> p.kind # "submit_sm")
    BY PduFacts, CommandFacts DEF Answers, Carried, Messages, Queued
  <1>5. ~Queued(Idle) /\ ~Queued(Of("bind_transceiver"))
    BY PduFacts, CommandFacts DEF Queued
  <1>6. QED
    BY <1>1, <1>2, <1>3, <1>4, <1>5

\* Which are not.
LEMMA OwnFacts ==
    /\ \A p \in OwnPdus : p \in Pdu /\ p.kind # "submit_sm"
    /\ \A p \in Pdu : p.kind # "submit_sm" => p \in OwnPdus
    /\ Idle \in OwnPdus /\ Of("bind_transceiver") \in OwnPdus /\ Of("unbind") \in OwnPdus
    /\ Of("unbind_resp") \in OwnPdus /\ Of("enquire_link") \in OwnPdus /\ Of(Disconnect) \in OwnPdus
  BY PduFacts, CommandFacts DEF OwnPdus, Disconnect

\* A PDU put on the stack.
LEMMA Pushed ==
  ASSUME NEW s \in Seq(Pdu), NEW p \in Pdu
  PROVE  /\ ~Queued(p) /\ Sound(s) => Sound(<<p>> \o s) /\ Kept(<<p>> \o s) = Kept(s)
         /\ s = <<>> /\ p \in Carried => Sound(<<p>> \o s) /\ Kept(<<p>> \o s) = p
  <1>1. /\ <<p>> \o s \in Seq(Pdu) /\ Len(<<p>> \o s) = Len(s) + 1 /\ <<p>> \o s # <<>>
        /\ (<<p>> \o s)[1] = p
        /\ \A i \in 2 .. Len(s) + 1 : (<<p>> \o s)[i] = s[i - 1]
    OBVIOUS
  <1>2. Len(s) \in Nat /\ (s = <<>> <=> Len(s) = 0)
    OBVIOUS
  <1> HIDE DEF Carried
  <1>3. ASSUME ~Queued(p), Sound(s) PROVE Sound(<<p>> \o s) /\ Kept(<<p>> \o s) = Kept(s)
    BY <1>1, <1>2, <1>3 DEF Sound, Kept
  <1>4. ASSUME s = <<>>, p \in Carried PROVE Sound(<<p>> \o s) /\ Kept(<<p>> \o s) = p
    BY <1>1, <1>2, <1>4, CarriedFacts DEF Sound, Kept
  <1>5. QED
    BY <1>3, <1>4

\* A PDU taken off the stack.
LEMMA Popped ==
  ASSUME NEW s \in Seq(Pdu), s # <<>>, Sound(s)
  PROVE  /\ Sound(Tail(s))
         /\ Queued(Head(s)) => Tail(s) = <<>> /\ Head(s) \in Carried /\ Kept(s) = Head(s)
         /\ ~Queued(Head(s)) => Kept(Tail(s)) = Kept(s)
  <1> DEFINE r == Tail(s)
  <1>1. /\ r \in Seq(Pdu) /\ Len(r) = Len(s) - 1 /\ Head(s) = s[1] /\ Len(s) \in Nat \ {0}
        /\ \A i \in 1 .. Len(s) - 1 : r[i] = s[i + 1]
    OBVIOUS
  <1> HIDE DEF r
  <1>2. Len(r) = 0 <=> r = <<>>
    BY <1>1
  <1>3. Sound(r)
    <2> SUFFICES ASSUME NEW i \in 1 .. Len(r), Queued(r[i]) PROVE i = Len(r) /\ r[i] \in Carried
      BY DEF Sound
    <2>1. i + 1 \in 1 .. Len(s) /\ r[i] = s[i + 1]
      BY <1>1
    <2>2. QED
      BY <1>1, <2>1 DEF Sound
  <1>4. Queued(Head(s)) => r = <<>> /\ Head(s) \in Carried /\ Kept(s) = Head(s)
    <2>1. 1 \in 1 .. Len(s)
      BY <1>1
    <2>2. QED
      BY <1>1, <1>2, <2>1 DEF Sound, Kept
  <1>5. ~Queued(Head(s)) => Kept(r) = Kept(s)
    BY <1>1, <1>2 DEF Kept
  <1>6. QED
    BY <1>3, <1>4, <1>5 DEF r

\* The empty stack keeps nothing.
LEMMA Bottom == Sound(<<>>) /\ Kept(<<>>) = Idle
  BY DEF Sound, Kept

\* The hand, now and after a step.
LEMMA Hands ==
    /\ "dequeue" \notin Tasks => InHand = Idle
    /\ "dequeue" \in Tasks =>
          /\ Queued(cmd["dequeue"]) /\ pc["dequeue"] \in Sends => InHand = cmd["dequeue"]
          /\ ~(Queued(cmd["dequeue"]) /\ pc["dequeue"] \in Sends) => InHand = Kept(todo["dequeue"])
  BY DEF InHand, Kept, Sends

\* The hand after a step, from the variables after it.
LEMMA NextHands ==
    /\ "dequeue" \notin Tasks => InHand' = Idle
    /\ "dequeue" \in Tasks =>
          /\ Queued(cmd'["dequeue"]) /\ pc'["dequeue"] \in Sends => InHand' = cmd'["dequeue"]
          /\ ~(Queued(cmd'["dequeue"]) /\ pc'["dequeue"] \in Sends) => InHand' = Kept(todo'["dequeue"])
  BY DEF InHand, Kept, Sends

\* The client starts with an empty channel.
LEMMA PathInit == Init => Path!Init
  BY ClientAssumption DEF Init, Path!Init, InHand, Queued, Healthy, Idle, Of, FirstAwait

\* Nothing is queued or in hand when the coroutines start.
LEMMA CargoInit == Init => Cargo
  <1> SUFFICES ASSUME Init PROVE Cargo
    OBVIOUS
  <1>1. \A t \in Tasks : pc[t] \notin Sends /\ cmd[t] = Idle /\ todo[t] = <<>>
    BY ClientAssumption DEF Init, FirstAwait, AllTasks, Sends
  <1>2. <<>> \in Seq(Carried) /\ <<>> \in Seq(OwnPdus)
    OBVIOUS
  <1>3. broker = <<>>
    BY DEF Init
  <1>4. QED
    BY <1>1, <1>2, <1>3, CarriedFacts, Bottom, Zenon DEF Cargo, OthersSend, OneInHand
-----------------------------------------------------------------------------
(* Every step of the client is a step of the channel.                      *)

\* The queue, the hand and the wire are left alone.
Still == UNCHANGED <<submitted, broker, InHand, written>>

\* A step of another coroutine.
LEMMA OtherStep ==
  ASSUME Cargo, NEW t \in Tasks, t # "dequeue",
         \A u \in Tasks : u # t => pc'[u] = pc[u] /\ cmd'[u] = cmd[u] /\ todo'[u] = todo[u],
         pc'[t] \in Sends => cmd'[t].kind # "submit_sm",
         todo'[t] \in Seq(OwnPdus)
  PROVE  OthersSend' /\ OneInHand' /\ InHand' = InHand
  <1>1. OthersSend'
    BY Zenon DEF Cargo, OthersSend
  <1>2. OneInHand'
    BY Zenon DEF Cargo, OneInHand
  <1>3. InHand' = InHand
    BY Hands, NextHands, Zenon
  <1>4. QED
    BY <1>1, <1>2, <1>3

\* A step of dequeue_messages.
LEMMA DequeueStep ==
  ASSUME Cargo, "dequeue" \in Tasks, OneInHand',
         \A u \in Tasks : u # "dequeue" => pc'[u] = pc[u] /\ cmd'[u] = cmd[u] /\ todo'[u] = todo[u]
  PROVE  OthersSend' /\ OneInHand'
  BY Zenon DEF Cargo, OthersSend

\* A step that sends nothing and leaves the PDUs where they are.
LEMMA StillStep ==
  ASSUME TypeOK, Cargo, NEW t \in Tasks, NEW l, Goto(t, l) \/ Await(t, l),
         UNCHANGED <<cmd, todo>>, pc[t] \notin Sends, l \notin Sends,
         t = "dequeue" /\ l \in AtRest => pc[t] \in AtRest
  PROVE  OthersSend' /\ OneInHand' /\ InHand' = InHand
  <1>1. pc'[t] = l /\ \A u \in Tasks : u # t => pc'[u] = pc[u]
    BY Moves
  <1>2. CASE t # "dequeue"
    BY <1>1, <1>2, OtherStep, Zenon DEF Cargo, OthersSend
  <1>3. CASE t = "dequeue"
    <2>1. OneInHand'
      BY <1>1, <1>3, Zenon DEF Cargo, OneInHand
    <2>2. InHand' = InHand
      BY <1>1, <1>3, Hands, NextHands, Zenon
    <2>3. QED
      BY <1>1, <1>3, <2>1, <2>2, DequeueStep, Zenon
  <1>4. QED
    BY <1>2, <1>3

\* connect, the end of a drain, a sleep: nothing is sent.
LEMMA StillSends ==
  ASSUME TypeOK, Frames, Cargo, NEW t \in Tasks,
         \/ Connecting(t) \/ Draining(t) \/ re_establish_conn_bind(t) \/ acquire_drain_lock(t) \/ slept(t)
  PROVE  OthersSend' /\ OneInHand' /\ Still
  <1>1. UNCHANGED <<cmd, todo, queues>>
    BY Zenon DEF Connecting, connect, connect_error, Draining, drained, write_eof_error, drain_error,
       re_establish_conn_bind, acquire_drain_lock, slept
  <1>2. CASE Connecting(t)
    <2>1. pc[t] = "connecting" /\ \E l \in {"done", "rebind"} : Goto(t, l) \/ Await(t, l)
      BY <1>2 DEF Connecting, connect, connect_error, AfterConnect
    <2>2. QED
      BY <1>1, <2>1, StillStep DEF Still, Sends, AtRest
  <1>3. CASE Draining(t)
    <2>1. pc[t] = "drain" /\ \E l \in {"return", "noheader", "linger"} : Goto(t, l) \/ Await(t, l)
      BY <1>3 DEF Draining, drained, write_eof_error, drain_error, InDrain, AfterDrainError, AfterDisconnect
    <2>2. QED
      BY <1>1, <2>1, StillStep DEF Still, Sends, AtRest
  <1>4. CASE re_establish_conn_bind(t)
    <2>1. pc[t] = "reest" /\ \E l \in {"return", "connecting"} : Goto(t, l) \/ Await(t, l)
      BY <1>4 DEF re_establish_conn_bind
    <2>2. QED
      BY <1>1, <2>1, StillStep DEF Still, Sends, AtRest
  <1>5. CASE acquire_drain_lock(t)
    <2>1. pc[t] = "lock" /\ \E l \in {"drain", "crashed"} : Goto(t, l) \/ Await(t, l)
      BY <1>5 DEF acquire_drain_lock, Drain
    <2>2. QED
      BY <1>1, <2>1, StillStep DEF Still, Sends, AtRest
  <1>6. CASE slept(t)
    BY <1>1, <1>6, StillStep DEF slept, Still, Sends, AtRest
  <1>7. QED
    BY <1>2, <1>3, <1>4, <1>5, <1>6

\* A bind is sent on top of what is kept.
LEMMA BindSteps ==
  ASSUME TypeOK, Cargo, NEW t \in Tasks, tranceiver_bind(t)
  PROVE  OthersSend' /\ OneInHand' /\ Still
  <1>1. pc[t] = "rebind" /\ UNCHANGED <<todo, queues>>
    BY Zenon DEF tranceiver_bind
  <1>2. CASE current_session_state # "OPEN"
    BY <1>1, <1>2, StillStep DEF tranceiver_bind, Still, Sends, AtRest
  <1>3. CASE current_session_state = "OPEN"
    <2>1. /\ pc'[t] = "send" /\ cmd'[t] = Of("bind_transceiver")
          /\ \A u \in Tasks : u # t => pc'[u] = pc[u] /\ cmd'[u] = cmd[u]
      BY <1>3, Moves, Takes, Zenon DEF tranceiver_bind
    <2>2. CASE t # "dequeue"
      <3>1. cmd'[t].kind # "submit_sm"
        BY <2>1, OwnFacts, Zenon
      <3>2. QED
        BY <1>1, <2>1, <2>2, <3>1, OtherStep, Zenon DEF Cargo, OthersSend, Still
    <2>3. CASE t = "dequeue"
      <3>1. pc[t] \notin Sends /\ pc'[t] \notin AtRest
        BY <1>1, <2>1 DEF Sends, AtRest
      <3>2. OneInHand'
        BY <1>1, <2>1, <2>3, <3>1, CarriedFacts, Zenon DEF Cargo, OneInHand
      <3>3. InHand' = InHand
        BY <1>1, <2>1, <2>3, <3>1, CarriedFacts, Hands, NextHands, Zenon
      <3>4. QED
        BY <1>1, <2>1, <2>3, <3>2, <3>3, DequeueStep, Zenon DEF Still
    <2>4. QED
      BY <2>2, <2>3
  <1>4. QED
    BY <1>2, <1>3

\* send_data keeps the PDU, on the stack or in hand, unless the session is not bound.
LEMMA SendSteps ==
  ASSUME TypeOK, Cargo, NEW t \in Tasks, send_data(t)
  PROVE  OthersSend' /\ OneInHand' /\ (Still \/ Path!Drop)
  <1>1. pc[t] = "send" /\ UNCHANGED <<session, cmd, queues>> /\ pc[t] \in Sends
    BY DEF send_data, Sends
  <1>2. cmd[t] \in Pdu /\ todo[t] \in Seq(Pdu)
    BY DEF TypeOK
  <1>3. CASE UNCHANGED todo /\ Goto(t, "write")
    <2>1. pc'[t] = "write" /\ \A u \in Tasks : u # t => pc'[u] = pc[u]
      BY <1>3, Moves, Zenon
    <2>2. pc'[t] \in Sends /\ pc'[t] \notin AtRest
      BY <2>1 DEF Sends, AtRest
    <2>3. CASE t # "dequeue"
      BY <1>1, <1>3, <2>1, <2>3, OtherStep, Zenon DEF Cargo, OthersSend, Still
    <2>4. CASE t = "dequeue"
      <3>1. OneInHand'
        BY <1>1, <1>3, <2>2, <2>4, Zenon DEF Cargo, OneInHand
      <3>2. InHand' = InHand
        BY <1>1, <1>3, <2>2, <2>4, Hands, NextHands, Zenon
      <3>3. QED
        BY <1>1, <1>3, <2>1, <2>4, <3>1, <3>2, DequeueStep, Zenon DEF Still
    <2>5. QED
      BY <2>3, <2>4
  <1>4. CASE current_session_state # "BOUND_TRX" /\ UNCHANGED todo /\ (Goto(t, "reest") \/ Goto(t, "return"))
    <2>1. pc'[t] \in {"reest", "return"} /\ \A u \in Tasks : u # t => pc'[u] = pc[u]
      BY <1>4, Moves
    <2>2. pc'[t] \notin Sends /\ pc'[t] \notin AtRest
      BY <2>1 DEF Sends, AtRest
    <2>3. CASE t # "dequeue"
      BY <1>1, <1>4, <2>1, <2>2, <2>3, OtherStep, Zenon DEF Cargo, OthersSend, Still
    <2>4. CASE t = "dequeue"
      <3>1. OneInHand'
        BY <1>1, <1>4, <2>2, <2>4, Zenon DEF Cargo, OneInHand
      <3>2. CASE ~Queued(cmd[t])
        <4>1. InHand' = InHand
          BY <1>1, <1>4, <2>2, <2>4, <3>2, Hands, NextHands, Zenon
        <4>2. QED
          BY <1>1, <1>4, <2>1, <2>4, <3>1, <4>1, DequeueStep, Zenon DEF Still
      <3>3. CASE Queued(cmd[t])
        <4>1. InHand = cmd[t] /\ InHand' = Idle
          BY <1>1, <1>4, <2>2, <2>4, <3>3, Hands, NextHands, Bottom, Zenon DEF Cargo, OneInHand
        <4>2. InHand # Idle /\ ~Healthy
          BY <1>4, <3>3, <4>1, CarriedFacts, Zenon DEF Healthy
        <4>3. Path!Drop
          BY <1>1, <4>1, <4>2, Zenon DEF Path!Drop
        <4>4. QED
          BY <1>1, <1>4, <2>1, <2>4, <3>1, <4>3, DequeueStep, Zenon
      <3>4. QED
        BY <3>2, <3>3
    <2>5. QED
      BY <2>3, <2>4
  <1>5. CASE Stack(t, <<cmd[t]>> \o todo[t]) /\ Goto(t, "reest")
    <2>1. /\ pc'[t] = "reest" /\ todo'[t] = <<cmd[t]>> \o todo[t]
          /\ \A u \in Tasks : u # t => pc'[u] = pc[u] /\ todo'[u] = todo[u]
      <3>1. pc'[t] = "reest" /\ \A u \in Tasks : u # t => pc'[u] = pc[u]
        BY <1>5, Moves, Zenon
      <3>2. todo'[t] = <<cmd[t]>> \o todo[t] /\ \A u \in Tasks : u # t => todo'[u] = todo[u]
        BY <1>5, Stacks, Zenon
      <3>3. QED
        BY <3>1, <3>2
    <2>2. pc'[t] \notin Sends /\ pc'[t] \notin AtRest
      BY <2>1 DEF Sends, AtRest
    <2>3. CASE t # "dequeue"
      <3>1. cmd[t] \in OwnPdus /\ todo[t] \in Seq(OwnPdus)
        BY <1>1, <1>2, <2>3, OwnFacts, Zenon DEF Cargo, OthersSend
      <3>2. todo'[t] \in Seq(OwnPdus)
        BY <2>1, <3>1, SequenceFacts, Zenon
      <3>3. QED
        BY <1>1, <2>1, <2>2, <2>3, <3>2, OtherStep, Zenon DEF Still
    <2>4. CASE t = "dequeue"
      <3>1. Sound(todo'[t]) /\ Kept(todo'[t]) = InHand
        <4>1. CASE Queued(cmd[t])
          BY <1>1, <1>2, <2>1, <2>4, <4>1, Pushed, Hands, Zenon DEF Cargo, OneInHand
        <4>2. CASE ~Queued(cmd[t])
          BY <1>1, <1>2, <2>1, <2>4, <4>2, Pushed, Hands, Zenon DEF Cargo, OneInHand
        <4>3. QED
          BY <4>1, <4>2
      <3>2. OneInHand'
        BY <1>1, <2>2, <2>4, <3>1, Zenon DEF Cargo, OneInHand
      <3>3. InHand' = InHand
        BY <2>2, <2>4, <3>1, NextHands, Zenon
      <3>4. QED
        BY <1>1, <2>1, <2>4, <3>2, <3>3, DequeueStep, Zenon DEF Still
    <2>5. QED
      BY <2>3, <2>4
  <1>6. QED
    BY <1>3, <1>4, <1>5 DEF send_data

\* The PDU in hand goes out, or is lost with the connection; what others write is no message.
LEMMA WriteSteps ==
  ASSUME TypeOK, Cargo, NEW t \in Tasks, write(t)
  PROVE  OthersSend' /\ OneInHand' /\ (Still \/ Path!Deliver \/ Path!Drop)
  <1>1. pc[t] = "write" /\ pc[t] \in Sends /\ UNCHANGED <<session, net, cmd, todo, broker, submitted>>
    BY DEF write, Sends
  <1>2. /\ pc'[t] \in {"lock", "drain", "crashed"}
        /\ \A u \in Tasks : u # t => pc'[u] = pc[u]
    BY Drains, Moves, Zenon DEF write
  <1>3. pc'[t] \notin Sends /\ pc'[t] \notin AtRest
    BY <1>2 DEF Sends, AtRest
  <1>4. \/ writer \in finSent \cup {NoConn} /\ UNCHANGED written
        \/ writer \notin finSent \cup {NoConn} /\ Closing(writer) /\ UNCHANGED written
        \/ written' = IF cmd[t].kind = "submit_sm" THEN Append(written, cmd[t].id) ELSE written
    BY Zenon DEF write
  <1>5. CASE t # "dequeue"
    <2>1. UNCHANGED written
      BY <1>1, <1>4, <1>5, Zenon DEF Cargo, OthersSend
    <2>2. QED
      BY <1>1, <1>2, <1>3, <1>5, <2>1, OtherStep, Zenon DEF Cargo, OthersSend, Still
  <1>6. CASE t = "dequeue"
    <2>1. OneInHand'
      BY <1>1, <1>3, <1>6, Zenon DEF Cargo, OneInHand
    <2>2. OthersSend'
      BY <1>1, <1>2, <1>6, <2>1, DequeueStep, Zenon
    <2>3. CASE ~Queued(cmd[t])
      <3>1. InHand' = InHand
        BY <1>1, <1>3, <1>6, <2>3, Hands, NextHands, Zenon
      <3>2. cmd[t].kind # "submit_sm"
        BY <2>3 DEF Queued
      <3>3. QED
        BY <1>1, <1>4, <2>1, <2>2, <3>1, <3>2, Zenon DEF Still
    <2>4. CASE Queued(cmd[t])
      <3>1. InHand = cmd[t] /\ InHand' = Idle /\ cmd[t] \in Carried
        BY <1>1, <1>3, <1>6, <2>4, Hands, NextHands, Bottom, Zenon DEF Cargo, OneInHand
      <3>2. InHand # Idle
        BY <2>4, <3>1, CarriedFacts, Zenon
      <3>3. CASE (writer \in finSent \cup {NoConn} \/ Closing(writer)) /\ UNCHANGED written
        <4>1. ~Healthy
          BY <3>3, Zenon DEF Healthy
        <4>2. Path!Drop
          BY <1>1, <3>1, <3>2, <3>3, <4>1, Zenon DEF Path!Drop
        <4>3. QED
          BY <2>1, <2>2, <4>2
      <3>4. CASE written' = IF cmd[t].kind = "submit_sm" THEN Append(written, cmd[t].id) ELSE written
        <4>1. InHand \in Answers <=> cmd[t].kind # "submit_sm"
          BY <3>1, CarriedFacts, Zenon
        <4>2. Path!Deliver
          BY <1>1, <3>1, <3>2, <3>4, <4>1, Zenon DEF Path!Deliver, Answers
        <4>3. QED
          BY <2>1, <2>2, <4>2
      <3>5. QED
        BY <1>4, <3>3, <3>4, Zenon
    <2>5. QED
      BY <2>3, <2>4
  <1>7. QED
    BY <1>5, <1>6

\* The enclosing send_data goes on with the PDU it kept.
LEMMA ReturnSteps ==
  ASSUME TypeOK, Frames, Cargo, NEW t \in Tasks, returned(t)
  PROVE  OthersSend' /\ OneInHand' /\ Still
  <1>1. pc[t] = "return" /\ pc[t] \notin Sends /\ UNCHANGED queues
    BY DEF returned, Sends
  <1>2. CASE todo[t] = <<>>
    <2>1. \E l \in {"loop", "sleep", "done"} : Goto(t, l) \/ Await(t, l)
      BY <1>2 DEF returned, AfterSend
    <2>2. pc'[t] \in {"loop", "sleep", "done"} /\ \A u \in Tasks : u # t => pc'[u] = pc[u]
      BY <2>1, Moves
    <2>3. /\ cmd'[t] = Idle /\ \A u \in Tasks : u # t => cmd'[u] = cmd[u]
          /\ UNCHANGED todo
      <3>1. Take(t, Idle) /\ UNCHANGED todo
        BY <1>2 DEF returned
      <3>2. QED
        BY <3>1, Takes, Zenon
    <2>4. pc'[t] \notin Sends
      BY <2>2 DEF Sends
    <2>5. CASE t # "dequeue"
      BY <1>1, <2>2, <2>3, <2>4, <2>5, OtherStep, Zenon DEF Cargo, OthersSend, Still
    <2>6. CASE t = "dequeue"
      <3>1. OneInHand'
        BY <1>2, <2>3, <2>4, <2>6, CarriedFacts, Zenon DEF Cargo, OneInHand
      <3>2. InHand' = InHand
        BY <1>1, <2>3, <2>4, <2>6, Hands, NextHands, Zenon
      <3>3. QED
        BY <1>1, <2>2, <2>3, <2>6, <3>1, <3>2, DequeueStep, Zenon DEF Still
    <2>7. QED
      BY <2>5, <2>6
  <1>3. CASE todo[t] # <<>>
    <2>1. /\ Head(todo[t]) \in Pdu /\ todo[t] \in Seq(Pdu)
          /\ todo[t] \in Seq(OwnPdus) => Head(todo[t]) \in OwnPdus /\ Tail(todo[t]) \in Seq(OwnPdus)
          /\ todo[t] \in Seq(SmppPdus) => Head(todo[t]) \in SmppPdus
      BY <1>3, SequenceFacts DEF TypeOK
    <2>2. /\ cmd'[t] = Head(todo[t]) /\ todo'[t] = Tail(todo[t])
          /\ \A u \in Tasks : u # t => cmd'[u] = cmd[u] /\ todo'[u] = todo[u]
      BY <1>3, <2>1, Takes, Stacks, ZenonT(40) DEF returned
    <2>3. \A u \in Tasks : u # t => pc'[u] = pc[u]
      BY <1>3, Drains, Moves, Zenon DEF returned
    <2>4. CASE t # "dequeue"
      <3>1. cmd'[t].kind # "submit_sm" /\ todo'[t] \in Seq(OwnPdus)
        BY <2>1, <2>2, <2>4, OwnFacts, Zenon DEF Cargo, OthersSend
      <3>2. QED
        BY <1>1, <2>2, <2>3, <2>4, <3>1, OtherStep, Zenon DEF Still
    <2>5. CASE t = "dequeue"
      <3>1. Head(todo[t]).kind # Disconnect
        <4>1. t \notin {"receive", "shutdown"}
          BY <2>5
        <4>2. QED
          BY <2>1, <4>1, SmppPduFacts, Zenon DEF Frames
      <3>2. pc'[t] = "write"
        BY <1>3, <3>1, Moves, Zenon DEF returned
      <3>3. pc'[t] \in Sends /\ pc'[t] \notin AtRest
        BY <3>2 DEF Sends, AtRest
      <3>4. Sound(todo[t]) /\ InHand = Kept(todo[t])
        BY <1>1, <2>5, Hands, Zenon DEF Cargo, OneInHand
      <3>5. /\ Sound(todo'[t])
            /\ Queued(cmd'[t]) => todo'[t] = <<>> /\ cmd'[t] \in Carried /\ InHand = cmd'[t]
            /\ ~Queued(cmd'[t]) => InHand = Kept(todo'[t])
        BY <1>3, <2>1, <2>2, <3>4, Popped, Zenon
      <3>6. OneInHand'
        BY <2>5, <3>3, <3>5, Zenon DEF OneInHand
      <3>7. InHand' = InHand
        BY <2>5, <3>3, <3>5, NextHands, Zenon
      <3>8. QED
        BY <1>1, <2>2, <2>3, <2>5, <3>6, <3>7, DequeueStep, Zenon DEF Still
    <2>6. QED
      BY <2>4, <2>5
  <1>4. QED
    BY <1>2, <1>3

\* enquire_link, receive_data and shutdown send PDUs of their own.
LEMMA OwnSteps ==
  ASSUME TypeOK, Frames, Cargo,
         \/ \E t \in Tasks : unbind_and_disconnect(t)
         \/ Enquiring \/ shutdown \/ shutdown_end \/ receive_header \/ receive_chunk
         \/ Receiving /\ ~command_handlers
  PROVE  OthersSend' /\ OneInHand' /\ Still
  <1>1. ASSUME NEW t \in Tasks, unbind_and_disconnect(t) PROVE OthersSend' /\ OneInHand' /\ Still
    <2>1. t \in {"receive", "shutdown"} /\ t # "dequeue" /\ UNCHANGED queues
      BY <1>1 DEF unbind_and_disconnect, Frames
    <2>2. CASE Await(t, "crashed") /\ UNCHANGED <<cmd, todo>>
      BY <1>1, <2>1, <2>2, StillStep DEF unbind_and_disconnect, Still, Sends, AtRest
    <2>3. CASE unbind(t) /\ Stack(t, <<Of(Disconnect)>>)
      <3>1. pc'[t] = "send" /\ \A u \in Tasks : u # t => pc'[u] = pc[u]
        BY <2>3, Moves, Zenon DEF unbind
      <3>2. cmd'[t] = Of("unbind") /\ \A u \in Tasks : u # t => cmd'[u] = cmd[u]
        BY <2>3, Takes, Zenon DEF unbind
      <3>3. todo'[t] = <<Of(Disconnect)>> /\ \A u \in Tasks : u # t => todo'[u] = todo[u]
        BY <2>3, Stacks, Zenon
      <3>4. cmd'[t].kind # "submit_sm" /\ todo'[t] \in Seq(OwnPdus)
        BY <3>2, <3>3, OwnFacts
      <3>5. QED
        BY <2>1, <3>1, <3>2, <3>3, <3>4, OtherStep, Zenon DEF Still
    <2>4. QED
      BY <1>1, <2>2, <2>3 DEF unbind_and_disconnect
  <1>2. CASE Enquiring
    <2>1. "enquire" \in Tasks /\ UNCHANGED <<todo, queues>> /\ "enquire" # "dequeue"
      BY <1>2 DEF Enquiring, enquire_link_start, enquire_link, NapOver
    <2>2. CASE Take("enquire", Of("enquire_link")) /\ Goto("enquire", "send")
      <3>1. pc'["enquire"] = "send" /\ \A u \in Tasks : u # "enquire" => pc'[u] = pc[u]
        BY <2>1, <2>2, Moves, Zenon
      <3>2. cmd'["enquire"] = Of("enquire_link") /\ \A u \in Tasks : u # "enquire" => cmd'[u] = cmd[u]
        BY <2>1, <2>2, Takes, Zenon
      <3>3. cmd'["enquire"].kind # "submit_sm"
        BY <3>2, OwnFacts, Zenon
      <3>4. QED
        BY <2>1, <3>1, <3>2, <3>3, OtherStep, Zenon DEF Cargo, OthersSend, Still
    <2>3. CASE ~(Take("enquire", Of("enquire_link")) /\ Goto("enquire", "send"))
      <3>1. /\ pc["enquire"] \in {"nap", "loop"} /\ UNCHANGED cmd
            /\ \E l \in {"loop", "done"} : Goto("enquire", l) \/ Await("enquire", l)
        BY <1>2, <2>3 DEF Enquiring, enquire_link_start, enquire_link, NapOver
      <3>2. QED
        BY <2>1, <3>1, StillStep DEF Still, Sends, AtRest
    <2>4. QED
      BY <2>2, <2>3
  <1>3. CASE shutdown \/ shutdown_end
    <2>1. /\ "shutdown" \in Tasks /\ UNCHANGED <<cmd, todo, queues>>
          /\ pc["shutdown"] \in {"idle", "linger"}
          /\ \E l \in {"disc", "done"} : Goto("shutdown", l) \/ Await("shutdown", l)
      BY <1>3 DEF shutdown, shutdown_end
    <2>2. QED
      BY <2>1, StillStep DEF Still, Sends, AtRest
  <1>4. CASE receive_header
    <2>1. "receive" \in Tasks /\ UNCHANGED <<todo, queues>> /\ "receive" # "dequeue"
      BY <1>4 DEF receive_header
    <2>2. \A u \in Tasks : u # "receive" => cmd'[u] = cmd[u]
      BY <1>4, <2>1, Takes, Zenon DEF receive_header
    <2>3. pc'["receive"] \in {"handle", "body"} /\ \A u \in Tasks : u # "receive" => pc'[u] = pc[u]
      BY <1>4, <2>1, Moves, Zenon DEF receive_header
    <2>4. pc'["receive"] \notin Sends
      BY <2>3 DEF Sends
    <2>5. QED
      BY <2>1, <2>2, <2>3, <2>4, OtherStep, Zenon DEF Cargo, OthersSend, Still
  <1>5. CASE receive_chunk \/ (Receiving /\ ~command_handlers)
    <2>1. "receive" \in Tasks /\ UNCHANGED <<cmd, todo, queues>>
      BY <1>5, Zenon DEF Receiving, receive_data, receive_nap_over, receive_nothing, receive_bodynap_over, NapOver,
         receive_incomplete, receive_error, receive_chunk_error, receive_chunk
    <2>2. pc["receive"] \in {"loop", "nap", "noheader", "bodynap", "read", "body"}
      BY <1>5 DEF Receiving, receive_data, receive_nap_over, receive_nothing, receive_bodynap_over, NapOver,
         receive_incomplete, receive_error, receive_chunk_error, receive_chunk
    <2>3. \E l \in {"done", "nap", "read", "reest", "sleep", "body", "disc", "noheader", "bodynap", "handle"} :
             Goto("receive", l) \/ Await("receive", l)
      BY <1>5, Zenon DEF Receiving, receive_data, receive_nap_over, receive_nothing, receive_bodynap_over, NapOver, Nap,
         receive_incomplete, receive_error, receive_chunk_error, receive_chunk
    <2>4. QED
      BY <2>1, <2>2, <2>3, StillStep DEF Still, Sends, AtRest
  <1>6. QED
    BY <1>1, <1>2, <1>3, <1>4, <1>5

\* A PDU queued, or refused by a full queue.
LEMMA QueueSteps ==
  ASSUME Cargo, NEW p \in Carried, Enqueue(p)
  PROVE  broker' \in Seq(Carried)
  BY SequenceFacts DEF Cargo, Enqueue

\* The handlers answer through the queue, or with a PDU that is no message.
LEMMA HandlerSteps ==
  ASSUME TypeOK, Cargo, command_handlers
  PROVE  Cargo' /\ (Still \/ Path!Answer)
  <1>1. "receive" \in Tasks /\ UNCHANGED <<todo, submitted, written>> /\ "receive" # "dequeue"
    BY DEF command_handlers
  <1>2. \/ Take("receive", Idle) /\ Goto("receive", "loop")
        \/ Take("receive", Of("unbind_resp")) /\ Goto("receive", "send")
    BY Zenon DEF command_handlers, unbind_resp
  <1>3. cmd'["receive"] \in {Idle, Of("unbind_resp")} /\ \A u \in Tasks : u # "receive" => cmd'[u] = cmd[u]
    BY <1>1, <1>2, Takes, Zenon
  <1>4. \A u \in Tasks : u # "receive" => pc'[u] = pc[u]
    BY <1>1, <1>2, Moves, Zenon
  <1>5. cmd'["receive"].kind # "submit_sm"
    BY <1>3, OwnFacts, Zenon
  <1>6. OthersSend' /\ OneInHand' /\ InHand' = InHand
    BY <1>1, <1>3, <1>4, <1>5, OtherStep, Zenon DEF Cargo, OthersSend
  <1>7. CASE UNCHANGED broker
    BY <1>1, <1>6, <1>7, Zenon DEF Cargo, Still
  <1>8. ASSUME NEW p \in Answers, Enqueue(p) PROVE Cargo' /\ Path!Answer
    <2>1. broker' \in Seq(Carried)
      BY <1>8, CarriedFacts, QueueSteps, Zenon
    <2>2. Path!Answer
      BY <1>1, <1>6, <1>8 DEF Path!Answer, Path!Offer, Enqueue, Answers
    <2>3. QED
      BY <1>6, <2>1, <2>2 DEF Cargo
  <1>9. QED
    BY <1>7, <1>8, CarriedFacts, Zenon DEF command_handlers, deliver_sm_resp, enquire_link_resp

\* dequeue_messages takes the next PDU with nothing in hand.
LEMMA DequeueSteps ==
  ASSUME TypeOK, Cargo, Dequeuing \/ dequeue_error
  PROVE  Cargo' /\ (Still \/ Path!TakeInHand \/ Path!Reject)
  <1>1. "dequeue" \in Tasks /\ UNCHANGED <<todo, submitted, written>>
    BY DEF Dequeuing, dequeue_messages, dequeue_awaits_bound, dequeue_gate, dequeue_message, build_error,
       dequeue_error, NapOver
  <1>2. CASE dequeue_messages \/ dequeue_awaits_bound \/ dequeue_gate \/ dequeue_error
    <2>1. /\ UNCHANGED <<cmd, broker>> /\ pc["dequeue"] \in {"loop", "nap", "gate", "fetch"}
          /\ \E l \in {"done", "nap", "gate", "sleep", "fetch"} : Goto("dequeue", l) \/ Await("dequeue", l)
      BY <1>2 DEF dequeue_messages, dequeue_awaits_bound, dequeue_gate, dequeue_error, Nap, NapOver
    <2>2. OthersSend' /\ OneInHand' /\ InHand' = InHand
      BY <1>1, <2>1, StillStep DEF Sends, AtRest
    <2>3. QED
      BY <1>1, <2>1, <2>2 DEF Cargo, Still
  <1>3. CASE dequeue_message \/ build_error
    <2>1. /\ broker # <<>> /\ broker' = Tail(broker) /\ pc["dequeue"] = "fetch"
      BY <1>3 DEF dequeue_message, build_error
    <2>2. Head(broker) \in Carried /\ broker' \in Seq(Carried)
      BY <2>1, SequenceFacts DEF Cargo
    <2>3. pc["dequeue"] \notin Sends /\ todo["dequeue"] = <<>>
      BY <1>1, <2>1 DEF Sends, AtRest, Cargo, OneInHand
    <2>4. InHand = Idle
      BY <1>1, <2>3, Hands, Bottom, Zenon
    <2>5. CASE dequeue_message
      <3>1. pc'["dequeue"] = "send" /\ \A u \in Tasks : u # "dequeue" => pc'[u] = pc[u]
        BY <1>1, <2>5, Moves, Zenon DEF dequeue_message
      <3>2. cmd'["dequeue"] = Head(broker) /\ \A u \in Tasks : u # "dequeue" => cmd'[u] = cmd[u]
        BY <1>1, <2>5, Takes, Zenon DEF dequeue_message
      <3>3. pc'["dequeue"] \in Sends /\ pc'["dequeue"] \notin AtRest
        BY <3>1 DEF Sends, AtRest
      <3>4. InHand' = Head(broker)
        BY <1>1, <2>2, <3>2, <3>3, NextHands, CarriedFacts, Zenon
      <3>5. OneInHand'
        BY <1>1, <2>2, <2>3, <3>2, <3>3, Zenon DEF Cargo, OneInHand
      <3>6. OthersSend'
        BY <1>1, <3>1, <3>2, <3>5, DequeueStep, Zenon
      <3>7. Path!TakeInHand
        BY <1>1, <2>1, <2>4, <3>4 DEF Path!TakeInHand
      <3>8. QED
        BY <2>2, <3>5, <3>6, <3>7 DEF Cargo
    <2>6. CASE build_error
      <3>1. UNCHANGED cmd /\ Goto("dequeue", "loop") /\ Head(broker).kind = "submit_sm"
        BY <2>6 DEF build_error
      <3>2. OthersSend' /\ OneInHand' /\ InHand' = InHand
        BY <1>1, <2>1, <3>1, StillStep DEF Sends, AtRest
      <3>3. Head(broker) \notin Answers
        BY <2>2, <3>1, CarriedFacts, Zenon
      <3>4. Path!Reject
        BY <1>1, <2>1, <2>4, <3>2, <3>3 DEF Path!Reject, Answers
      <3>5. QED
        BY <2>2, <3>2, <3>4 DEF Cargo
    <2>7. QED
      BY <1>3, <2>5, <2>6
  <1>4. QED
    BY <1>2, <1>3 DEF Dequeuing

\* The application and the network.
LEMMA OuterSteps ==
  ASSUME TypeOK, Cargo, send_message \/ (\E c \in Conns : network_failure(c)) \/ UNCHANGED vars
  PROVE  Cargo' /\ (Still \/ Path!Submit)
  <1>1. UNCHANGED <<pc, cmd, todo, written>>
    BY DEF send_message, network_failure, vars
  <1>2. OthersSend' /\ OneInHand' /\ InHand' = InHand
    BY <1>1, Hands, NextHands, Zenon DEF Cargo, OthersSend, OneInHand
  <1>3. CASE send_message
    <2>1. submitted + 1 \in Nat
      BY DEF TypeOK
    <2>2. broker' \in Seq(Carried)
      BY <1>3, <2>1, CarriedFacts, QueueSteps, Zenon DEF send_message
    <2>3. Path!Submit
      BY <1>1, <1>2, <1>3 DEF send_message, Path!Submit, Path!Offer, Enqueue
    <2>4. QED
      BY <1>2, <2>2, <2>3 DEF Cargo
  <1>4. CASE (\E c \in Conns : network_failure(c)) \/ UNCHANGED vars
    BY <1>1, <1>2, <1>4 DEF network_failure, vars, Cargo, Still
  <1>5. QED
    BY <1>3, <1>4

\* Every step keeps the cargo in place and is a step of the channel.
LEMMA CargoStep ==
  ASSUME TypeOK, Frames, Cargo, [Next]_vars
  PROVE  Cargo' /\ Path!Next
  <1>1. Healthy' \in BOOLEAN
    BY DEF Healthy
  <1>2. /\ Cargo'
        /\ \/ Path!Submit \/ Path!Answer \/ Path!TakeInHand \/ Path!Reject \/ Path!Deliver \/ Path!Drop
           \/ Still
    <2>1. ASSUME OthersSend', OneInHand', UNCHANGED broker PROVE Cargo'
      BY <2>1 DEF Cargo
    <2>2. Still \/ Path!Drop \/ Path!Deliver => UNCHANGED broker
      BY DEF Still, Path!Drop, Path!Deliver
    <2>3. ASSUME NEW t \in Tasks, Connecting(t) \/ Draining(t) \/ (Sending(t) /\ ~unbind_and_disconnect(t))
          PROVE  OthersSend' /\ OneInHand' /\ (Still \/ Path!Deliver \/ Path!Drop)
      BY <2>3, StillSends, BindSteps, SendSteps, WriteSteps, ReturnSteps, Zenon DEF Sending
    <2>4. QED
      BY <2>1, <2>2, <2>3, OwnSteps, HandlerSteps, DequeueSteps, OuterSteps, Zenon DEF Next, Step, Environment, Sending
  <1>3. QED
    BY <1>1, <1>2 DEF Path!Next, Path!channel, Still

\* The client is a channel from send_message to the network, for any number of messages,
\* connections and failures of theirs.
THEOREM ClientImplementsChannel == Spec => ImplementsChannel
  <1>1. Init => Inv /\ Cargo /\ Path!Init
    BY InvInit, CargoInit, PathInit
  <1>2. Inv /\ Cargo /\ [Next]_vars => Inv' /\ Cargo' /\ Path!Next
    BY InvStep, CargoStep DEF Inv
  <1>3. QED
    BY <1>1, <1>2, PTL DEF Spec, ImplementsChannel, Path!Spec
-----------------------------------------------------------------------------
(* The channel keeps the order.                                            *)

IsMessage(pdu) == pdu.kind = "submit_sm"

\* What was written came before what is in hand, that before what is queued, and all of it
\* before what is still to be submitted.
WrittenInOrder == AtMostOnceInOrder /\ \A i \in 1 .. Len(written) : written[i] <= submitted

HandInOrder ==
    IsMessage(InHand) =>
       InHand.id <= submitted /\ \A i \in 1 .. Len(written) : written[i] < InHand.id

QueuedInOrder(k) ==
    IsMessage(broker[k]) =>
       /\ broker[k].id <= submitted
       /\ \A i \in 1 .. Len(written) : written[i] < broker[k].id
       /\ IsMessage(InHand) => InHand.id < broker[k].id
       /\ \A j \in 1 .. Len(broker) : j < k /\ IsMessage(broker[j]) => broker[j].id < broker[k].id

InOrder == WrittenInOrder /\ HandInOrder /\ \A k \in 1 .. Len(broker) : QueuedInOrder(k)

\* What can be in hand.
LEMMA HandCarried ==
  ASSUME TypeOK, Cargo
  PROVE  InHand = Idle \/ InHand \in Carried
  <1>1. CASE "dequeue" \in Tasks /\ todo["dequeue"] # <<>>
    <2>1. Len(todo["dequeue"]) \in 1 .. Len(todo["dequeue"])
      <3>1. todo["dequeue"] \in Seq(Pdu)
        BY <1>1 DEF TypeOK
      <3>2. QED
        BY <1>1, <3>1
    <2>2. QED
      BY <1>1, <2>1, Hands DEF Cargo, OneInHand, Sound, Kept
  <1>2. CASE "dequeue" \in Tasks /\ todo["dequeue"] = <<>>
    BY <1>2, Hands, Bottom DEF Cargo, OneInHand
  <1>3. QED
    BY <1>1, <1>2, Hands

\* The queue after a step at either end.
LEMMA QueueFacts ==
  ASSUME NEW q \in Seq(Pdu), NEW p \in Pdu
  PROVE  /\ Len(Append(q, p)) = Len(q) + 1 /\ Append(q, p)[Len(q) + 1] = p
         /\ \A i \in 1 .. Len(q) : Append(q, p)[i] = q[i]
         /\ q # <<>> => /\ Len(Tail(q)) = Len(q) - 1 /\ Head(q) = q[1] /\ 1 \in 1 .. Len(q)
                        /\ \A i \in 1 .. Len(q) - 1 : Tail(q)[i] = q[i + 1]
         /\ Len(q) \in Nat
  OBVIOUS

\* Idle is no message, nor is an answer; SubmitSM makes one.
LEMMA MessageFacts ==
    /\ ~IsMessage(Idle) /\ \A p \in Answers : ~IsMessage(p)
    /\ \A n \in Nat : IsMessage(SubmitSM(n)) /\ SubmitSM(n).id = n
    /\ \A p \in Carried : p \notin Answers => IsMessage(p)
    /\ \A p \in Carried \cup {Idle} : p \in Pdu /\ p.id \in Nat
  <1>1. ~IsMessage(Idle) /\ \A n \in Nat : IsMessage(SubmitSM(n)) /\ SubmitSM(n).id = n
    BY PduFacts DEF IsMessage, SubmitSM
  <1>2. \A p \in Answers : ~IsMessage(p)
    BY CarriedFacts, Zenon DEF IsMessage
  <1>3. \A p \in Carried : p \notin Answers => IsMessage(p)
    BY CarriedFacts, Zenon DEF IsMessage
  <1>4. \A p \in Carried \cup {Idle} : p \in Pdu /\ p.id \in Nat
    BY CarriedFacts, PduFacts
  <1>5. QED
    BY <1>1, <1>2, <1>3, <1>4

\* Every step of the channel keeps the order.
LEMMA OrderStep ==
  ASSUME TypeOK, TypeOK', Cargo, Cargo', InOrder, Path!Next
  PROVE  InOrder'
  <1>0. /\ broker \in Seq(Pdu) /\ written \in Seq(Nat) /\ submitted \in Nat
        /\ \A k \in 1 .. Len(broker) : broker[k] \in Carried /\ broker[k] \in Pdu /\ broker[k].id \in Nat
        /\ InHand \in Carried \cup {Idle} /\ InHand \in Pdu /\ InHand.id \in Nat
        /\ Len(written) \in Nat /\ Len(broker) \in Nat
        /\ \A i \in 1 .. Len(written) : written[i] \in Nat
    <2>1. broker \in Seq(Pdu) /\ written \in Seq(Nat) /\ submitted \in Nat
      BY DEF TypeOK
    <2>2. broker \in Seq(Carried)
      BY DEF Cargo
    <2>3. \A k \in 1 .. Len(broker) : broker[k] \in Carried
      BY <2>2
    <2>4. \A k \in 1 .. Len(broker) : broker[k] \in Pdu /\ broker[k].id \in Nat
      BY <2>3, MessageFacts
    <2>5. InHand \in Carried \cup {Idle}
      BY HandCarried
    <2>6. InHand \in Pdu /\ InHand.id \in Nat
      BY <2>5, MessageFacts
    <2>7. /\ Len(written) \in Nat /\ Len(broker) \in Nat
          /\ \A i \in 1 .. Len(written) : written[i] \in Nat
      BY <2>1
    <2>8. QED
      BY <2>1, <2>3, <2>4, <2>5, <2>6, <2>7
  <1>1. CASE Path!Submit \/ Path!Answer
    <2>1. PICK p \in Carried :
             /\ broker' = IF Len(broker) < MaxQueue THEN Append(broker, p) ELSE broker
             /\ UNCHANGED <<InHand, written>>
             /\ submitted' \in Nat /\ submitted' >= submitted
             /\ IsMessage(p) => p.id = submitted + 1 /\ submitted' = submitted + 1
      <3>1. CASE Path!Submit
        BY <1>0, <3>1, CarriedFacts, MessageFacts DEF Path!Submit, Path!Offer
      <3>2. CASE Path!Answer
        BY <1>0, <3>2, CarriedFacts, MessageFacts DEF Path!Answer, Path!Offer, Answers
      <3>3. QED
        BY <1>1, <3>1, <3>2
    <2>0. WrittenInOrder' /\ HandInOrder'
      BY <1>0, <2>1 DEF InOrder, WrittenInOrder, HandInOrder, AtMostOnceInOrder
    <2>2. CASE broker' = broker
      <3>1. ASSUME NEW k \in 1 .. Len(broker) PROVE QueuedInOrder(k)'
        BY <1>0, <2>1, <2>2, <3>1 DEF InOrder, QueuedInOrder
      <3>2. QED
        BY <2>0, <2>2, <3>1 DEF InOrder
    <2>3. CASE broker' = Append(broker, p)
      <3>1. /\ Len(broker') = Len(broker) + 1 /\ broker'[Len(broker) + 1] = p
            /\ \A i \in 1 .. Len(broker) : broker'[i] = broker[i]
        BY <1>0, <2>1, <2>3, MessageFacts, QueueFacts
      <3>2. ASSUME NEW k \in 1 .. Len(broker) PROVE QueuedInOrder(k)'
        BY <1>0, <2>1, <3>1, <3>2, SMTT(30) DEF InOrder, QueuedInOrder
      <3>3. ASSUME NEW n \in Nat, n = Len(broker) + 1 PROVE QueuedInOrder(n)'
        <4>1. SUFFICES ASSUME IsMessage(p)
                       PROVE  /\ p.id <= submitted'
                              /\ \A i \in 1 .. Len(written) : written[i] < p.id
                              /\ IsMessage(InHand) => InHand.id < p.id
                              /\ \A k \in 1 .. Len(broker) : IsMessage(broker[k]) => broker[k].id < p.id
          <5>1. broker'[n] = p /\ written' = written /\ InHand' = InHand
            BY <2>1, <3>1, <3>3
          <5>2. \A j \in 1 .. Len(broker') : j < n => j \in 1 .. Len(broker) /\ broker'[j] = broker[j]
            BY <1>0, <3>1, <3>3
          <5>3. QED
            BY <5>1, <5>2 DEF QueuedInOrder
        <4>2. p.id = submitted + 1 /\ submitted' = submitted + 1
          BY <2>1, <4>1
        <4>3. QED
          BY <1>0, <4>2 DEF InOrder, WrittenInOrder, HandInOrder, QueuedInOrder
      <3>4. \A k \in 1 .. Len(broker') : k \in 1 .. Len(broker) \/ (k \in Nat /\ k = Len(broker) + 1)
        BY <1>0, <3>1
      <3>5. QED
        BY <2>0, <3>2, <3>3, <3>4 DEF InOrder
    <2>4. QED
      BY <2>1, <2>2, <2>3
  <1>2. CASE Path!TakeInHand \/ Path!Reject
    <2>1. /\ broker # <<>> /\ broker' = Tail(broker) /\ UNCHANGED <<submitted, written>>
          /\ InHand' = Head(broker) \/ (InHand' = InHand /\ InHand = Idle)
      BY <1>2 DEF Path!TakeInHand, Path!Reject
    <2>2. /\ Len(broker') = Len(broker) - 1 /\ Head(broker) = broker[1] /\ 1 \in 1 .. Len(broker)
          /\ \A i \in 1 .. Len(broker) - 1 : broker'[i] = broker[i + 1]
      BY <1>0, <2>1, QueueFacts
    <2>3. WrittenInOrder'
      BY <2>1 DEF InOrder, WrittenInOrder, AtMostOnceInOrder
    <2>4. HandInOrder'
      <3>1. CASE InHand' = broker[1]
        <4>1. QueuedInOrder(1)
          BY <2>2 DEF InOrder
        <4>2. QED
          BY <2>1, <3>1, <4>1 DEF HandInOrder, QueuedInOrder
      <3>2. CASE InHand' = Idle
        BY <3>2, MessageFacts DEF HandInOrder
      <3>3. QED
        BY <2>1, <2>2, <3>1, <3>2
    <2>5. ASSUME NEW k \in 1 .. Len(broker) - 1 PROVE QueuedInOrder(k)'
      <3>1. k + 1 \in 1 .. Len(broker) /\ broker'[k] = broker[k + 1] /\ 1 < k + 1
        BY <1>0, <2>2
      <3>2. QueuedInOrder(k + 1)
        BY <3>1 DEF InOrder
      <3>3. IsMessage(broker[k + 1]) /\ IsMessage(InHand') => InHand'.id < broker[k + 1].id
        BY <2>1, <2>2, <3>1, <3>2, MessageFacts DEF QueuedInOrder
      <3>4. ASSUME NEW j \in 1 .. Len(broker'), j < k, IsMessage(broker'[j]), IsMessage(broker[k + 1])
            PROVE  broker'[j].id < broker[k + 1].id
        <4>1. j + 1 \in 1 .. Len(broker) /\ j + 1 < k + 1 /\ broker'[j] = broker[j + 1]
          BY <1>0, <2>2, <3>4
        <4>2. QED
          BY <3>2, <3>4, <4>1 DEF QueuedInOrder
      <3>5. QED
        BY <2>1, <3>1, <3>2, <3>3, <3>4 DEF QueuedInOrder
    <2>6. QED
      BY <2>2, <2>3, <2>4, <2>5 DEF InOrder
  <1>3. CASE Path!Deliver
    <2>1. /\ InHand' = Idle /\ UNCHANGED <<submitted, broker>>
          /\ \/ UNCHANGED written
             \/ IsMessage(InHand) /\ written' = Append(written, InHand.id)
      BY <1>0, <1>3, MessageFacts DEF Path!Deliver, Answers
    <2>2. CASE UNCHANGED written
      BY <1>0, <2>1, <2>2, MessageFacts DEF InOrder, WrittenInOrder, HandInOrder, QueuedInOrder, AtMostOnceInOrder
    <2>3. CASE IsMessage(InHand) /\ written' = Append(written, InHand.id)
      <3>1. /\ Len(written') = Len(written) + 1 /\ written'[Len(written) + 1] = InHand.id
            /\ \A i \in 1 .. Len(written) : written'[i] = written[i]
        BY <1>0, <2>3
      <3>2. \A i \in 1 .. Len(written') : i = Len(written) + 1 \/ i \in 1 .. Len(written)
        BY <1>0, <3>1
      <3>3. InHand.id <= submitted /\ \A i \in 1 .. Len(written) : written[i] < InHand.id /\ written[i] <= submitted
        BY <2>3 DEF InOrder, HandInOrder, WrittenInOrder
      <3>4. \A i \in 1 .. Len(written') : written'[i] <= submitted'
        BY <2>1, <3>1, <3>2, <3>3
      <3>5. AtMostOnceInOrder'
        <4>1. \A i, j \in 1 .. Len(written') : i < j => i \in 1 .. Len(written)
          BY <1>0, <3>1
        <4>2. ASSUME NEW i \in 1 .. Len(written'), NEW j \in 1 .. Len(written'), i < j
              PROVE  written'[i] < written'[j]
          <5>1. CASE j = Len(written) + 1
            BY <3>1, <3>3, <4>1, <4>2, <5>1
          <5>2. CASE j \in 1 .. Len(written)
            BY <3>1, <4>1, <4>2, <5>2 DEF InOrder, WrittenInOrder, AtMostOnceInOrder
          <5>3. QED
            BY <3>2, <5>1, <5>2
        <4>3. QED
          BY <4>2 DEF AtMostOnceInOrder
      <3>6. HandInOrder'
        BY <2>1, MessageFacts DEF HandInOrder
      <3>7. ASSUME NEW k \in 1 .. Len(broker) PROVE QueuedInOrder(k)'
        <4>1. QueuedInOrder(k)
          BY DEF InOrder
        <4>2. QED
          BY <2>1, <2>3, <3>1, <3>2, <4>1, MessageFacts DEF QueuedInOrder
      <3>8. QED
        BY <2>1, <3>4, <3>5, <3>6, <3>7 DEF InOrder, WrittenInOrder
    <2>4. QED
      BY <2>1, <2>2, <2>3
  <1>4. CASE Path!Drop
    BY <1>0, <1>4, MessageFacts DEF Path!Drop, InOrder, WrittenInOrder, HandInOrder, QueuedInOrder, AtMostOnceInOrder
  <1>5. CASE UNCHANGED <<submitted, broker, InHand, written>>
    BY <1>5 DEF InOrder, WrittenInOrder, HandInOrder, QueuedInOrder, AtMostOnceInOrder
  <1>6. QED
    BY <1>1, <1>2, <1>3, <1>4, <1>5 DEF Path!Next, Path!channel

\* Messages reach the network in the order they were submitted and at most once, however
\* many of them there are and however often the connection is lost.
THEOREM MessagesInOrder == Spec => []AtMostOnceInOrder
  <1>1. Init => Inv /\ Cargo /\ InOrder
    <2>1. Init => written = <<>> /\ broker = <<>> /\ Path!Init
      BY PathInit DEF Init
    <2>2. Path!Init => InHand = Idle
      BY DEF Path!Init
    <2>3. Init => InOrder
      BY <2>1, <2>2, MessageFacts DEF InOrder, WrittenInOrder, HandInOrder, QueuedInOrder, AtMostOnceInOrder
    <2>4. QED
      BY <2>3, InvInit, CargoInit
  <1>2. Inv /\ Cargo /\ InOrder /\ [Next]_vars => Inv' /\ Cargo' /\ InOrder'
    BY InvStep, CargoStep, OrderStep DEF Inv
  <1>3. InOrder => AtMostOnceInOrder
    BY DEF InOrder, WrittenInOrder
  <1>4. QED
    BY <1>1, <1>2, <1>3, PTL DEF Spec
=============================================================================
