------------------------------ MODULE Channel ------------------------------
(***************************************************************************)
(* What naz promises an application of the path from send_message to the   *)
(* network, whatever happens to the connection: a bounded first-in         *)
(* first-out queue, one PDU in hand, and no loss except                    *)
(*   - of what is submitted while the queue is full,                       *)
(*   - of a message whose PDU cannot be built,                             *)
(*   - of the one PDU in hand, and only while the link is not healthy.     *)
(* Client is shown to implement this specification (ClientChannel).        *)
(***************************************************************************)
EXTENDS Naturals, Sequences

CONSTANTS
    Capacity,     \* how many PDUs the queue holds
    Answers,      \* the PDUs the client queues of its own accord
    Message(_),   \* the PDU of the application's n-th message
    None          \* nothing in hand

VARIABLES
    submitted,    \* how many messages the application has submitted
    queue, hand,
    wire,         \* the ids of the messages that went out, in order
    healthy       \* the session is bound on a connection that can be written to

channel == <<submitted, queue, hand, wire>>

Init ==
    /\ submitted = 0
    /\ queue = <<>>
    /\ hand = None
    /\ wire = <<>>
    /\ healthy = FALSE

Offer(pdu) == queue' = IF Len(queue) < Capacity THEN Append(queue, pdu) ELSE queue

Submit ==
    /\ submitted' = submitted + 1
    /\ Offer(Message(submitted + 1))
    /\ UNCHANGED <<hand, wire>>

Answer ==
    /\ \E pdu \in Answers : Offer(pdu)
    /\ UNCHANGED <<submitted, hand, wire>>

TakeInHand ==
    /\ queue # <<>> /\ hand = None
    /\ hand' = Head(queue)
    /\ queue' = Tail(queue)
    /\ UNCHANGED <<submitted, wire>>

\* The PDU cannot be built.
Reject ==
    /\ queue # <<>> /\ hand = None
    /\ Head(queue) \notin Answers
    /\ queue' = Tail(queue)
    /\ UNCHANGED <<submitted, hand, wire>>

Deliver ==
    /\ hand # None
    /\ hand' = None
    /\ wire' = IF hand \in Answers THEN wire ELSE Append(wire, hand.id)
    /\ UNCHANGED <<submitted, queue>>

Drop ==
    /\ hand # None
    /\ ~healthy
    /\ hand' = None
    /\ UNCHANGED <<submitted, queue, wire>>

\* The link changes as it likes, together with any of the above or alone.
Next ==
    /\ healthy' \in BOOLEAN
    /\ \/ Submit \/ Answer \/ TakeInHand \/ Reject \/ Deliver \/ Drop
       \/ UNCHANGED channel

Spec == Init /\ [][Next]_<<channel, healthy>>
=============================================================================
