----------------------------- MODULE Correlation -----------------------------
(***************************************************************************)
(* naz.sequence.SimpleSequenceGenerator and naz.correlater.SimpleCorrelater *)
(* as Client uses them: each request takes the next sequence number and is  *)
(* put in the store; its response is looked up by that number; the SMSC's   *)
(* id for a message, brought by submit_sm_resp, is stored in turn and       *)
(* looked up when a deliver_sm reports on that message.                     *)
(* Time advances in ticks.                                                  *)
(***************************************************************************)
EXTENDS Integers, FiniteSets, Functions

CONSTANTS
    min_sequence_number, max_sequence_number,
    max_ttl,        \* in ticks
    MaxRequests     \* bound: requests made; request n carries log_id n

ASSUME CorrelationAssumption ==
    /\ min_sequence_number \in Nat /\ max_sequence_number \in Nat
    /\ min_sequence_number < max_sequence_number
    /\ max_ttl \in Nat
    /\ MaxRequests \in Nat

SequenceNumbers == min_sequence_number .. max_sequence_number
Requests == 1 .. MaxRequests
NoLogId == 0                                     \* the empty log_id

\* A key of the store is a sequence number or the SMSC's id for a message; the SMSC
\* names the message of request n by n.
Seq(n) == <<"sequence_number", n>>
SmscId(n) == <<"smsc_message_id", n>>
Keys == {Seq(s) : s \in SequenceNumbers} \cup {SmscId(n) : n \in Requests}

VARIABLES
    sequence_number,
    store,          \* a function from some of Keys to [log_id, age]
    requests,       \* how many requests have been made
    open,           \* requests without a response: from request to [seq, age]
    reports         \* messages whose delivery report is due: from request to the log_id
                    \* found for the submit_sm_resp and its age

vars == <<sequence_number, store, requests, open, reports>>

Old == max_ttl + 1                               \* "older than max_ttl"
Item == [log_id : Requests \cup {NoLogId}, age : 0 .. Old]

TypeOK ==
    /\ sequence_number \in SequenceNumbers
    /\ DOMAIN store \subseteq Keys /\ Range(store) \subseteq Item
    /\ requests \in 0 .. MaxRequests
    /\ DOMAIN open \subseteq Requests
    /\ Range(open) \subseteq [seq : SequenceNumbers, age : 0 .. Old]
    /\ DOMAIN reports \subseteq Requests /\ Range(reports) \subseteq Item

Empty == [x \in {} |-> x]

Init ==
    /\ sequence_number = min_sequence_number
    /\ store = Empty
    /\ requests = 0
    /\ open = Empty
    /\ reports = Empty
-----------------------------------------------------------------------------
Updated(f, x, y) == [z \in DOMAIN f \cup {x} |-> IF z = x THEN y ELSE f[z]]
Without(f, x) == Restrict(f, DOMAIN f \ {x})

\* Mutants: it does not wrap; it wraps one number too early.
next_sequence_unbounded == sequence_number + 1

next_sequence_short ==
    IF sequence_number = max_sequence_number - 1 THEN min_sequence_number ELSE sequence_number + 1

next_sequence ==
    IF sequence_number = max_sequence_number THEN min_sequence_number ELSE sequence_number + 1

\* Mutant: nothing is ever deleted.
_delete_after_ttl_nothing(items) == items

\* Mutant: what is max_ttl old goes too.
_delete_after_ttl_early(items) == Restrict(items, {k \in DOMAIN items : items[k].age < max_ttl})

_delete_after_ttl(items) == Restrict(items, {k \in DOMAIN items : items[k].age <= max_ttl})

\* put stores, then collects the garbage; get looks up, then collects the garbage.
put(items, key, log_id) == _delete_after_ttl(Updated(items, key, [log_id |-> log_id, age |-> 0]))
Found(key) == IF key \in DOMAIN store THEN store[key].log_id ELSE NoLogId
get(items) == _delete_after_ttl(items)

\* A request is built: bind_transceiver, enquire_link, unbind or submit_sm.
request ==
    /\ requests < MaxRequests
    /\ requests' = requests + 1
    /\ sequence_number' = next_sequence
    /\ store' = put(store, Seq(next_sequence), requests + 1)
    /\ open' = Updated(open, requests + 1, [seq |-> next_sequence, age |-> 0])
    /\ UNCHANGED reports

\* A response that is not a submit_sm_resp, or a submit_sm_resp whose status is unknown.
response(n) ==
    /\ n \in DOMAIN open
    /\ open' = Without(open, n)
    /\ store' = get(store)
    /\ UNCHANGED <<sequence_number, requests, reports>>

\* submit_sm_resp: the lookup, and the put under the SMSC's id of what was found.
submit_sm_resp(n) ==
    /\ n \in DOMAIN open
    /\ open' = Without(open, n)
    /\ store' = put(get(store), SmscId(n), Found(Seq(open[n].seq)))
    /\ reports' = Updated(reports, n, [log_id |-> Found(Seq(open[n].seq)), age |-> 0])
    /\ UNCHANGED <<sequence_number, requests>>

\* enquire_link, unbind or another request of the SMSC's own: looked up by the SMSC's
\* sequence number.
smsc_request ==
    /\ store' = get(store)
    /\ UNCHANGED <<sequence_number, requests, open, reports>>

\* deliver_sm with a receipted_message_id.  The first lookup, before the handler has
\* read the body, is of the key None and finds nothing.
deliver_sm(n) ==
    /\ n \in DOMAIN reports
    /\ reports' = Without(reports, n)
    /\ store' = get(get(store))
    /\ UNCHANGED <<sequence_number, requests, open>>

Older(f) == [k \in DOMAIN f |-> [f[k] EXCEPT !.age = IF @ = Old THEN Old ELSE @ + 1]]

tick ==
    /\ store' = Older(store)
    /\ open' = Older(open)
    /\ reports' = Older(reports)
    /\ UNCHANGED <<sequence_number, requests>>

Next ==
    \/ request \/ smsc_request \/ tick
    \/ \E n \in Requests : response(n) \/ submit_sm_resp(n) \/ deliver_sm(n)

Spec == Init /\ [][Next]_vars
-----------------------------------------------------------------------------
\* The number of requests after which sequence numbers come round again.
Window == max_sequence_number - min_sequence_number + 1

\* A response that comes within max_ttl of its request, and before the sequence numbers
\* have come round, is correlated with the log_id of that request.
ResponsesFindTheirRequest ==
    \A n \in DOMAIN open :
        open[n].age <= max_ttl /\ requests - n < Window => Found(Seq(open[n].seq)) = n

\* A delivery report that comes within max_ttl of the submit_sm_resp is correlated with
\* what that submit_sm_resp was correlated with.
ReportsFindTheirMessage ==
    \A n \in DOMAIN reports :
        reports[n].age <= max_ttl => Found(SmscId(n)) = reports[n].log_id

\* The store does not grow without limit: after a put or a get it holds nothing older
\* than max_ttl (a store that only ages is not touched by the client).
GarbageIsCollected ==
    [][store' # store => store' = Older(store) \/ \A k \in DOMAIN store' : store'[k].age <= max_ttl]_vars
=============================================================================
