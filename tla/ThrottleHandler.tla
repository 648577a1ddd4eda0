--------------------------- MODULE ThrottleHandler ---------------------------
(***************************************************************************)
(* naz.throttle.SimpleThrottleHandler together with its two callers: the   *)
(* gate in Client.dequeue_messages, which asks allow_request before each   *)
(* request and sleeps throttle_delay when it is denied, and                *)
(* Client.command_handlers, which counts every PDU that arrives.           *)
(* Time advances in ticks.                                                 *)
(***************************************************************************)
EXTENDS Naturals

CONSTANTS
    sampling_period, throttle_wait,  \* in ticks
    sample_size,
    deny_request_at,                 \* in hundredths of a percent
    MaxInFlight,                     \* bound: requests the SMSC has not answered yet
    MaxResponses                     \* bound: responses counted between two resets

ASSUME ThrottleAssumption ==
    /\ sampling_period \in Nat \ {0} /\ throttle_wait \in Nat \ {0}
    /\ sample_size \in Nat \ {0} /\ deny_request_at \in Nat
    /\ MaxInFlight \in Nat /\ MaxResponses \in Nat

VARIABLES
    NON_throttle_responses, throttle_responses,
    since_update,   \* now - updated_at; counts no further than it matters
    gate,           \* the dequeue loop: "ask", "send" a request, or "wait" after a denial
    timer,          \* what is left of the throttle_delay sleep
    in_flight,      \* requests sent and not answered
    denied_for      \* how long requests have been denied since the last throttled response;
                    \* counts no further than it matters

throttle_vars == <<NON_throttle_responses, throttle_responses, since_update, gate, timer,
                   in_flight, denied_for>>

Total == NON_throttle_responses + throttle_responses
Longest == sampling_period + 1                         \* "more than sampling_period"
LongestDenial == sampling_period + 2 * throttle_wait

ThrottleTypeOK ==
    /\ NON_throttle_responses \in 0 .. MaxResponses
    /\ throttle_responses \in 0 .. MaxResponses
    /\ since_update \in 0 .. Longest
    /\ gate \in {"ask", "send", "wait"}
    /\ timer \in 0 .. throttle_wait
    /\ in_flight \in 0 .. MaxInFlight
    /\ denied_for \in 0 .. LongestDenial + 1

ThrottleInit ==
    /\ NON_throttle_responses = 0 /\ throttle_responses = 0
    /\ since_update = 0
    /\ gate = "ask"
    /\ timer = 0
    /\ in_flight = 0
    /\ denied_for = 0
-----------------------------------------------------------------------------
\* a / b rounded to the nearest integer, ties to even, as Python's round.
RoundedQuotient(a, b) ==
    LET q == a \div b
        r == a % b
    IN  IF 2 * r > b \/ (2 * r = b /\ q % 2 = 1) THEN q + 1 ELSE q

\* In hundredths of a percent: round(throttled / total * 100, 2).
percent_throttles ==
    IF Total < sample_size THEN 0 ELSE RoundedQuotient(10000 * throttle_responses, Total)

\* Mutant: the counters are never reset.
ResetIfStale_never == UNCHANGED <<NON_throttle_responses, throttle_responses, since_update>>

ResetIfStale ==
    IF since_update > sampling_period
       THEN /\ NON_throttle_responses' = 0 /\ throttle_responses' = 0
            /\ since_update' = 0
       ELSE UNCHANGED <<NON_throttle_responses, throttle_responses, since_update>>

\* Mutant: the wait is doubled.
Deny_doubles == gate' = "wait" /\ timer' = 2 * throttle_wait

Deny == gate' = "wait" /\ timer' = throttle_wait

\* The percentage is taken before the reset.
allow_request ==
    /\ gate = "ask"
    /\ ResetIfStale
    /\ IF percent_throttles > deny_request_at
          THEN Deny /\ UNCHANGED denied_for
          ELSE gate' = "send" /\ denied_for' = 0 /\ UNCHANGED timer
    /\ UNCHANGED in_flight

throttle_delay ==
    /\ gate = "wait" /\ timer = 0
    /\ gate' = "ask"
    /\ UNCHANGED <<NON_throttle_responses, throttle_responses, since_update, timer, in_flight,
                   denied_for>>

AtMost(n, max) == IF n > max THEN max ELSE n

\* The request leaves, after however long the rate limiter and the broker took; those
\* beyond MaxInFlight are never answered.
send_request ==
    /\ gate = "send"
    /\ in_flight' = AtMost(in_flight + 1, MaxInFlight)
    /\ gate' = "ask"
    /\ UNCHANGED <<NON_throttle_responses, throttle_responses, since_update, timer, denied_for>>

\* No request leaves after all: the broker failed, the PDU could not be built, the
\* session was lost meanwhile.
no_request ==
    /\ gate = "send"
    /\ gate' = "ask"
    /\ UNCHANGED <<NON_throttle_responses, throttle_responses, since_update, timer, in_flight,
                   denied_for>>

\* A PDU with status ESME_RTHROTTLED or ESME_RMSGQFUL: the answer to a request, or to a
\* PDU that is sent without asking (an enquire_link, a bind), or one of the SMSC's own.
throttled ==
    /\ Total < MaxResponses
    /\ throttle_responses' = throttle_responses + 1
    /\ in_flight' \in {in_flight, in_flight - 1} \cap Nat
    /\ denied_for' = 0
    /\ UNCHANGED <<NON_throttle_responses, since_update, gate, timer>>

\* Any other PDU: an answer, or a request of the SMSC's own.
not_throttled ==
    /\ Total < MaxResponses
    /\ NON_throttle_responses' = NON_throttle_responses + 1
    /\ in_flight' \in {in_flight, in_flight - 1} \cap Nat
    /\ UNCHANGED <<throttle_responses, since_update, gate, timer, denied_for>>

\* Time does not pass a sleep that is over; it may pass before a question, while the
\* session is not bound.
throttle_tick ==
    /\ gate = "wait" => timer > 0
    /\ since_update' = AtMost(since_update + 1, Longest)
    /\ timer' = IF gate = "wait" THEN timer - 1 ELSE timer
    /\ denied_for' = IF gate = "wait" THEN AtMost(denied_for + 1, LongestDenial + 1) ELSE denied_for
    /\ UNCHANGED <<NON_throttle_responses, throttle_responses, gate, in_flight>>

ThrottleNext ==
    \/ allow_request \/ throttle_delay \/ send_request \/ no_request
    \/ throttled \/ not_throttled \/ throttle_tick

ThrottleSpec == ThrottleInit /\ [][ThrottleNext]_throttle_vars

\* The loop and the clock go on.
ThrottleFairSpec ==
    /\ ThrottleSpec
    /\ WF_throttle_vars(allow_request) /\ WF_throttle_vars(throttle_delay)
    /\ WF_throttle_vars(throttle_tick)
-----------------------------------------------------------------------------
\* A denial lifts: with no new throttled response, dequeue_messages is let through
\* again within the rest of the sampling period and two waits.
DenialIsBounded == denied_for <= LongestDenial

\* The status of a throttled SMSC comes, from some point on, only in answer to requests
\* that the gate let through.
OnlyRequestsThrottled == <>[][throttled => in_flight' < in_flight]_throttle_vars

\* However many requests are still to be answered as throttled, a denied one is allowed
\* in the end, unless the SMSC keeps answering something else in this way: its answers
\* to enquire_link count as well, and may keep the gate shut for ever.
DenialLifts == OnlyRequestsThrottled => (gate = "wait" ~> gate = "send")
=============================================================================
