-------------------------------- MODULE Gate --------------------------------
(***************************************************************************)
(* One turn of the loop in Client.dequeue_messages, with everything that   *)
(* may hold a message back: the throttle handler decides whether a request *)
(* may be sent, the rate limiter when, the broker which, and only then is  *)
(* it sent.  Handler, limiter and loop share one clock.                    *)
(*                                                                         *)
(* The decision of allow_request is taken before three awaits (limit,      *)
(* broker.dequeue, send_data), during which responses keep arriving.       *)
(***************************************************************************)
EXTENDS ThrottleHandler, RateLimiter

CONSTANTS
    MaxWaiting    \* bound: messages in the broker

ASSUME GateAssumption == MaxWaiting \in Nat

VARIABLES
    stage,        \* what the loop awaits once it has been allowed to send
    waiting,      \* messages in the broker
    left,         \* left[i]: how long ago the i-th last request left the client; counts no further
                  \* than it matters
    late          \* requests sent since the percentage of throttled responses rose above the limit;
                  \* counts no further than it matters

gate_vars == <<throttle_vars, limiter_vars, stage, waiting, left, late>>

Stages == {"top", "limit", "fetch", "send", "backoff"}
TooMany == 2
PerSecond == send_rate \div Fraction      \* whole messages per second
Recent == 1 .. PerSecond + 1

GateTypeOK ==
    /\ ThrottleTypeOK
    /\ LimiterTypeOK
    /\ stage \in Stages
    /\ stage = "top" <=> gate # "send"
    /\ waiting \in 0 .. MaxWaiting
    /\ left \in [Recent -> 0 .. Second]
    /\ late \in 0 .. TooMany

GateInit ==
    /\ ThrottleInit
    /\ LimiterInit
    /\ stage = "top"
    /\ waiting = 0
    /\ left = [i \in Recent |-> Second]
    /\ late = 0
-----------------------------------------------------------------------------
Denying == percent_throttles > deny_request_at

\* late counts the requests that leave while allow_request would say no.
Watch(requests) == late' = IF Denying' THEN AtMost(late + requests, TooMany) ELSE 0

\* Ask the throttle handler.
gate_ask ==
    /\ allow_request
    /\ stage' = IF gate' = "send" THEN "limit" ELSE "top"
    /\ Watch(0)
    /\ UNCHANGED <<limiter_vars, waiting, left>>

\* Sleep for throttle_delay.
gate_denied ==
    /\ throttle_delay
    /\ Watch(0)
    /\ UNCHANGED <<limiter_vars, stage, waiting, left>>

\* Await the rate limiter.
gate_limit ==
    /\ stage = "limit"
    /\ limit \/ limit_resumes
    /\ stage' = IF limiter' = "idle" THEN "fetch" ELSE "limit"
    /\ UNCHANGED <<throttle_vars, waiting, left, late>>

\* broker.dequeue returns.
gate_fetch ==
    /\ stage = "fetch"
    /\ waiting > 0
    /\ waiting' = waiting - 1
    /\ stage' = "send"
    /\ UNCHANGED <<throttle_vars, limiter_vars, left, late>>

\* broker.dequeue fails: sleep for _retry_after (how long is left open), start over.
\* Mutant: the loop is left.
gate_fetch_error_ends ==
    /\ stage = "fetch"
    /\ stage' = "top"
    /\ UNCHANGED <<throttle_vars, limiter_vars, waiting, left, late>>

gate_fetch_error ==
    /\ stage = "fetch"
    /\ stage' = "backoff"
    /\ UNCHANGED <<throttle_vars, limiter_vars, waiting, left, late>>

gate_backoff_over ==
    /\ stage = "backoff"
    /\ no_request
    /\ stage' = "top"
    /\ Watch(0)
    /\ UNCHANGED <<limiter_vars, waiting, left>>

Record == left' = [i \in Recent |-> IF i = 1 THEN 0 ELSE left[i - 1]]

\* The request leaves, or its PDU cannot be built or sent.
Leave ==
    /\ send_request
    /\ Record
    /\ Watch(1)

\* Mutant: the permission serves for the next request as well.
gate_send_unasked ==
    /\ stage = "send"
    /\ in_flight' = AtMost(in_flight + 1, MaxInFlight)
    /\ UNCHANGED <<NON_throttle_responses, throttle_responses, since_update, gate, timer, denied_for>>
    /\ Record
    /\ Watch(1)
    /\ stage' = "limit"
    /\ UNCHANGED <<limiter_vars, waiting>>

gate_send ==
    /\ stage = "send"
    /\ \/ Leave
       \/ no_request /\ Watch(0) /\ UNCHANGED left
    /\ stage' = "top"
    /\ UNCHANGED <<limiter_vars, waiting>>

\* The SMSC answers; the application submits.
gate_response ==
    /\ throttled \/ not_throttled
    /\ Watch(0)
    /\ UNCHANGED <<limiter_vars, stage, waiting, left>>

gate_enqueue ==
    /\ waiting < MaxWaiting
    /\ waiting' = waiting + 1
    /\ UNCHANGED <<throttle_vars, limiter_vars, stage, left, late>>

gate_tick ==
    /\ throttle_tick
    /\ limiter_tick
    /\ left' = [i \in Recent |-> Smaller(left[i] + 1, Second)]
    /\ UNCHANGED <<stage, waiting, late>>

GateLoop ==
    gate_ask \/ gate_denied \/ gate_limit \/ gate_backoff_over \/ gate_send

GateNext ==
    \/ GateLoop \/ gate_fetch \/ gate_fetch_error
    \/ gate_response \/ gate_enqueue \/ gate_tick

GateSpec == GateInit /\ [][GateNext]_gate_vars

\* The loop and the clock go on, and a broker that is asked again and again answers.
GateFairSpec ==
    GateSpec /\ WF_gate_vars(GateLoop) /\ WF_gate_vars(gate_tick) /\ SF_gate_vars(gate_fetch)
-----------------------------------------------------------------------------
\* In no span of one second do more than send_rate requests leave the client.  Requests
\* are spaced where they are let through, not where they leave, and the broker may hold
\* one up; it is the refill that waits until the bucket is short, and the sleep that
\* follows it, which keep the requests apart.
RateIsRespected == left[PerSecond + 1] >= Second

\* A permission to send may be stale when the request leaves, but only one is: at most
\* one request leaves from when the responses of the SMSC call for a stop until
\* allow_request would say yes again.
OneLateRequest == late <= 1

\* A message in the broker is taken from it in the end, however often requests are
\* throttled and held back and however often the broker fails, on the condition of
\* DenialLifts.
MessagesLeave == OnlyRequestsThrottled => (waiting > 0 ~> (stage = "send" \/ waiting = 0))
=============================================================================
