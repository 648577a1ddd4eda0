----------------------------- MODULE RateLimiter -----------------------------
(***************************************************************************)
(* naz.ratelimiter.SimpleRateLimiter, called by Client.dequeue_messages     *)
(* before each request.  A second has Second ticks.  send_rate is given in  *)
(* Fraction-ths of a message per second, so that tokens, a float in the     *)
(* code, is a whole number of (Fraction * Second)-ths of a token.           *)
(***************************************************************************)
EXTENDS Naturals

CONSTANTS send_rate, Fraction, Second

ASSUME RateAssumption ==
    send_rate \in Nat \ {0} /\ Fraction \in Nat \ {0} /\ Second \in Nat \ {0}

VARIABLES
    tokens,
    since_refill,    \* now - updated_at; counts no further than it matters
    limiter,         \* "idle", or "limited": suspended in the sleep inside limit
    delay            \* what is left of that sleep

limiter_vars == <<tokens, since_refill, limiter, delay>>

One == Fraction * Second               \* one token
max_tokens == send_rate * Second
delay_for_tokens == Second
LongestRefill == One + Second          \* beyond this the bucket is full anyway

LimiterTypeOK ==
    /\ tokens \in 0 .. max_tokens
    /\ since_refill \in 0 .. LongestRefill
    /\ limiter \in {"idle", "limited"}
    /\ delay \in 0 .. delay_for_tokens

LimiterInit ==
    /\ tokens = max_tokens
    /\ since_refill = 0
    /\ limiter = "idle"
    /\ delay = 0

Smaller(a, b) == IF a < b THEN a ELSE b
-----------------------------------------------------------------------------
\* Mutant: the bucket overflows.
_add_new_tokens_unbounded ==
    LET new_tokens == since_refill * send_rate IN
    IF new_tokens > One
       THEN tokens' = tokens + new_tokens /\ since_refill' = 0
       ELSE UNCHANGED <<tokens, since_refill>>

\* Mutant: the update is recorded, the new tokens are not.
_add_new_tokens_none ==
    IF since_refill * send_rate > One
       THEN since_refill' = 0 /\ UNCHANGED tokens
       ELSE UNCHANGED <<tokens, since_refill>>

_add_new_tokens ==
    LET new_tokens == since_refill * send_rate IN
    IF new_tokens > One
       THEN tokens' = Smaller(tokens + new_tokens, max_tokens) /\ since_refill' = 0
       ELSE UNCHANGED <<tokens, since_refill>>

\* limit returns.
LetThrough ==
    /\ tokens >= One
    /\ tokens' = tokens - One
    /\ limiter' = "idle"
    /\ UNCHANGED <<since_refill, delay>>

\* Mutant: tokens are added, and used without a sleep.
Hold_withoutSleep ==
    /\ tokens < One
    /\ _add_new_tokens
    /\ delay' = 0
    /\ limiter' = "limited"

\* Too few tokens: add those that have accrued, sleep, look again.
Hold ==
    /\ tokens < One
    /\ _add_new_tokens
    /\ delay' = delay_for_tokens
    /\ limiter' = "limited"

limit == limiter = "idle" /\ (LetThrough \/ Hold)

limit_resumes == limiter = "limited" /\ delay = 0 /\ (LetThrough \/ Hold)

\* A sleep may end late, so time may pass it.
limiter_tick ==
    /\ since_refill' = Smaller(since_refill + 1, LongestRefill)
    /\ delay' = IF delay > 0 THEN delay - 1 ELSE 0
    /\ UNCHANGED <<tokens, limiter>>

LimiterNext == limit \/ limit_resumes \/ limiter_tick

LimiterSpec == LimiterInit /\ [][LimiterNext]_limiter_vars

\* The clock runs and a sleep that is over ends.
LimiterFairSpec == LimiterSpec /\ WF_limiter_vars(limiter_tick) /\ WF_limiter_vars(limit_resumes)
-----------------------------------------------------------------------------
\* A call of limit returns, provided that the rate is at least one message a second: a
\* smaller bucket never holds the whole token that limit waits for.
LimitReturns == send_rate >= Fraction => (limiter = "limited" ~> limiter = "idle")
=============================================================================
