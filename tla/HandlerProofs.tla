---------------------------- MODULE HandlerProofs ----------------------------
(***************************************************************************)
(* The handlers that Client is given: the sequence generator and the        *)
(* correlater, and the throttle handler and the rate limiter with the loop  *)
(* of dequeue_messages that asks them.                                      *)
(***************************************************************************)
EXTENDS Correlation, Gate, TLAPS

-----------------------------------------------------------------------------
(* Responses and delivery reports are correlated with the right request for  *)
(* every range of sequence numbers and every max_ttl, also when the numbers  *)
(* wrap around while requests are still open.                                *)

USE CorrelationAssumption

Holds(items, key, log_id, age) == key \in DOMAIN items /\ items[key] = [log_id |-> log_id, age |-> age]

Types ==
    /\ sequence_number \in SequenceNumbers
    /\ requests \in 0 .. MaxRequests
    /\ DOMAIN store \subseteq Keys /\ \A k \in DOMAIN store : store[k] \in Item
    /\ DOMAIN open \subseteq 1 .. requests
    /\ \A n \in DOMAIN open : open[n] \in [seq : SequenceNumbers, age : 0 .. Old]
    /\ DOMAIN reports \subseteq Requests /\ \A n \in DOMAIN reports : reports[n] \in Item

\* Where the numbers have not come round since request n, n's number is as far behind the
\* generator's as there were requests since, counting round the range at most once.
Numbering ==
    \A n \in DOMAIN open : requests - n < Window =>
        \/ open[n].seq = sequence_number - (requests - n)
        \/ open[n].seq = sequence_number - (requests - n) + Window

\* The store holds what open requests and due reports need, as old as they are.
Stored ==
    /\ \A n \in DOMAIN open :
           open[n].age <= max_ttl /\ requests - n < Window => Holds(store, Seq(open[n].seq), n, open[n].age)
    /\ \A n \in DOMAIN reports :
           reports[n].age <= max_ttl => Holds(store, SmscId(n), reports[n].log_id, reports[n].age)

CorrelationInvariant == Types /\ Numbering /\ Stored
-----------------------------------------------------------------------------
\* The keys after an item is stored.
LEMMA DomainUpdated ==
  ASSUME NEW f, NEW x, NEW y
  PROVE  /\ \A z : z \in DOMAIN Updated(f, x, y) <=> z \in DOMAIN f \/ z = x
         /\ Updated(f, x, y)[x] = y
         /\ \A z \in DOMAIN f : z # x => Updated(f, x, y)[z] = f[z]
  BY DEF Updated

\* The keys after one is dropped.
LEMMA DomainWithout ==
  ASSUME NEW f, NEW x
  PROVE  /\ \A z : z \in DOMAIN Without(f, x) <=> z \in DOMAIN f /\ z # x
         /\ \A z \in DOMAIN f : z # x => Without(f, x)[z] = f[z]
  BY DEF Without, Restrict

\* Collecting garbage keeps exactly what is at most max_ttl old.
LEMMA Collected ==
  ASSUME NEW items
  PROVE  /\ \A k : k \in DOMAIN _delete_after_ttl(items) <=> k \in DOMAIN items /\ items[k].age <= max_ttl
         /\ \A k \in DOMAIN items : items[k].age <= max_ttl => _delete_after_ttl(items)[k] = items[k]
  BY DEF _delete_after_ttl, Restrict

\* So does put, but for the new item.
LEMMA PutKeeps ==
  ASSUME NEW items, NEW key, NEW log_id, NEW item, item = [log_id |-> log_id, age |-> 0]
  PROVE  /\ \A k : k \in DOMAIN put(items, key, log_id) <=>
                       k = key \/ (k \in DOMAIN items /\ items[k].age <= max_ttl)
         /\ put(items, key, log_id)[key] = item
         /\ \A k \in DOMAIN items : k # key /\ items[k].age <= max_ttl =>
                put(items, key, log_id)[k] = items[k]
  <1> DEFINE new == Updated(items, key, item)
  <1>1. /\ \A z : z \in DOMAIN new <=> z \in DOMAIN items \/ z = key
        /\ new[key] = item
        /\ \A z \in DOMAIN items : z # key => new[z] = items[z]
    BY DEF Updated
  <1>2. item.age <= max_ttl
    OBVIOUS
  <1>3. put(items, key, log_id) = _delete_after_ttl(new)
    BY DEF put
  <1> HIDE DEF new
  <1>4. /\ \A k : k \in DOMAIN put(items, key, log_id) <=> k \in DOMAIN new /\ new[k].age <= max_ttl
        /\ \A k \in DOMAIN new : new[k].age <= max_ttl => put(items, key, log_id)[k] = new[k]
    BY <1>3, Collected
  <1>5. QED
    BY <1>1, <1>2, <1>4

\* A tick leaves the items and makes each older.
LEMMA OlderItems ==
  ASSUME NEW f, \A k \in DOMAIN f : f[k] \in Item
  PROVE  /\ DOMAIN Older(f) = DOMAIN f
         /\ \A k \in DOMAIN f : /\ Older(f)[k] \in Item
                                /\ Older(f)[k].log_id = f[k].log_id
                                /\ Older(f)[k].age = IF f[k].age = Old THEN Old ELSE f[k].age + 1
  BY DEF Older, Old, Item

\* A tick leaves the open requests and makes each older.
LEMMA OlderOpen ==
  ASSUME NEW f, \A k \in DOMAIN f : f[k] \in [seq : SequenceNumbers, age : 0 .. Old]
  PROVE  /\ DOMAIN Older(f) = DOMAIN f
         /\ \A k \in DOMAIN f : /\ Older(f)[k] \in [seq : SequenceNumbers, age : 0 .. Old]
                                /\ Older(f)[k].seq = f[k].seq
                                /\ Older(f)[k].age = IF f[k].age = Old THEN Old ELSE f[k].age + 1
  BY DEF Older, Old

\* The two kinds of keys do not meet.
LEMMA Keyed ==
  /\ \A s, t : Seq(s) = Seq(t) => s = t
  /\ \A s, t : SmscId(s) = SmscId(t) => s = t
  /\ \A s, t : Seq(s) # SmscId(t)
  BY DEF Seq, SmscId
-----------------------------------------------------------------------------
\* The store after a get.
LEMMA GetStore ==
  ASSUME Types, store' = get(store)
  PROVE  /\ DOMAIN store' \subseteq Keys /\ \A k \in DOMAIN store' : store'[k] \in Item
         /\ \A key, log_id, age : age <= max_ttl /\ Holds(store, key, log_id, age) => Holds(store', key, log_id, age)
  <1>1. /\ \A k : k \in DOMAIN store' <=> k \in DOMAIN store /\ store[k].age <= max_ttl
        /\ \A k \in DOMAIN store : store[k].age <= max_ttl => store'[k] = store[k]
    BY Collected DEF get
  <1>2. QED
    BY <1>1 DEF Types, Holds

\* The store after a put, before which garbage may have been collected.
LEMMA PutStore ==
  ASSUME Types, NEW key \in Keys, NEW log_id \in Requests \cup {NoLogId}, NEW items,
         \A k \in DOMAIN items : k \in DOMAIN store /\ items[k] = store[k],
         \A k \in DOMAIN store : store[k].age <= max_ttl => k \in DOMAIN items,
         store' = put(items, key, log_id)
  PROVE  /\ DOMAIN store' \subseteq Keys /\ \A k \in DOMAIN store' : store'[k] \in Item
         /\ Holds(store', key, log_id, 0)
         /\ \A k, l, age : k # key /\ age <= max_ttl /\ Holds(store, k, l, age) => Holds(store', k, l, age)
  <1> DEFINE item == [log_id |-> log_id, age |-> 0]
  <1>1. /\ \A k : k \in DOMAIN store' <=> k = key \/ (k \in DOMAIN items /\ items[k].age <= max_ttl)
        /\ store'[key] = item
        /\ \A k \in DOMAIN items : k # key /\ items[k].age <= max_ttl => store'[k] = items[k]
    BY PutKeeps
  <1>2. item \in Item
    BY DEF Item, Old
  <1>3. QED
    BY <1>1, <1>2 DEF Types, Holds

\* A lookup yields the log_id of a request, or none.
LEMMA FoundType == ASSUME Types, NEW key PROVE Found(key) \in Requests \cup {NoLogId}
  BY DEF Types, Found, Item

\* The generator stays in its range and moves on by one, or round to the start.
LEMMA NextNumber ==
  ASSUME Types
  PROVE  /\ next_sequence \in SequenceNumbers
         /\ \/ next_sequence = sequence_number + 1
            \/ next_sequence = min_sequence_number /\ sequence_number = max_sequence_number
  BY DEF Types, next_sequence, SequenceNumbers

\* Numbers that have not come round differ.
LEMMA FreshNumber ==
  ASSUME Types, Numbering, NEW n \in DOMAIN open, (requests + 1) - n < Window
  PROVE  /\ open[n].seq # next_sequence
         /\ \/ open[n].seq = next_sequence - ((requests + 1) - n)
            \/ open[n].seq = next_sequence - ((requests + 1) - n) + Window
  <1>1. n \in 1 .. requests /\ requests \in Nat /\ open[n].seq \in min_sequence_number .. max_sequence_number
        /\ sequence_number \in min_sequence_number .. max_sequence_number
    BY DEF Types, SequenceNumbers
  <1>2. \/ open[n].seq = sequence_number - (requests - n)
        \/ open[n].seq = sequence_number - (requests - n) + Window
    BY <1>1 DEF Numbering, Window
  <1>3. QED
    BY <1>1, <1>2, NextNumber DEF Window

\* A request keeps the invariant: its number may be one used before.
LEMMA RequestStep == ASSUME CorrelationInvariant, request PROVE CorrelationInvariant'
  <1> USE DEF CorrelationInvariant
  <1> DEFINE m == requests + 1
             o == [seq |-> next_sequence, age |-> 0]
  <1>1. /\ m \in Requests /\ m \notin DOMAIN open /\ requests' = m /\ m \in Nat
        /\ sequence_number' = next_sequence /\ reports' = reports
    BY DEF request, Types, Requests
  <1>2. /\ \A n : n \in DOMAIN open' <=> n \in DOMAIN open \/ n = m
        /\ open'[m] = o
        /\ \A n \in DOMAIN open : open'[n] = open[n]
    <2>1. open' = Updated(open, m, o)
      BY DEF request
    <2>2. QED
      BY <1>1, <2>1, DomainUpdated
  <1>3. o \in [seq : SequenceNumbers, age : 0 .. Old] /\ o.seq = next_sequence /\ o.age = 0
    BY NextNumber DEF Old
  <1>4. Seq(next_sequence) \in Keys
    BY NextNumber DEF Keys
  <1>5. /\ DOMAIN store' \subseteq Keys /\ \A k \in DOMAIN store' : store'[k] \in Item
        /\ Holds(store', Seq(next_sequence), m, 0)
        /\ \A k, l, age : k # Seq(next_sequence) /\ age <= max_ttl /\ Holds(store, k, l, age) => Holds(store', k, l, age)
    <2>1. store' = put(store, Seq(next_sequence), m)
      BY DEF request
    <2>2. QED
      BY <1>1, <1>4, <2>1, PutStore
  <1> HIDE DEF o
  <1>6. Types'
    BY <1>1, <1>2, <1>3, <1>5, NextNumber DEF Types, Requests
  <1>7. Numbering'
    <2> SUFFICES ASSUME NEW n \in DOMAIN open', m - n < Window
                 PROVE  \/ open'[n].seq = next_sequence - (m - n)
                        \/ open'[n].seq = next_sequence - (m - n) + Window
      BY <1>1 DEF Numbering, Window
    <2>1. CASE n = m
      BY <1>1, <1>2, <1>3, <2>1, NextNumber DEF SequenceNumbers
    <2>2. CASE n # m
      <3>1. n \in DOMAIN open /\ open'[n] = open[n]
        BY <1>2, <2>2
      <3>2. Types /\ Numbering /\ (requests + 1) - n < Window
        OBVIOUS
      <3>3. QED
        BY <3>1, <3>2, FreshNumber
    <2>3. QED
      BY <2>1, <2>2
  <1>8. Stored'
    <2>1. ASSUME NEW n \in DOMAIN open', open'[n].age <= max_ttl, m - n < Window
          PROVE  Holds(store', Seq(open'[n].seq), n, open'[n].age)
      <3>1. CASE n = m
        BY <1>2, <1>3, <1>5, <3>1
      <3>2. CASE n # m
        <4>1. n \in DOMAIN open /\ open'[n] = open[n] /\ open[n].seq # next_sequence
          <5>1. n \in DOMAIN open /\ open'[n] = open[n]
            BY <1>2, <3>2
          <5>2. Types /\ Numbering /\ (requests + 1) - n < Window
            BY <2>1
          <5>3. QED
            BY <5>1, <5>2, FreshNumber
        <4>2. Holds(store, Seq(open[n].seq), n, open[n].age)
          <5>1. n \in Nat /\ requests \in Nat
            BY <4>1 DEF Types
          <5>2. requests - n < Window
            BY <2>1, <5>1 DEF Window
          <5>3. QED
            BY <2>1, <4>1, <5>2 DEF Stored
        <4>3. Seq(open[n].seq) # Seq(next_sequence)
          BY <4>1, Keyed
        <4>4. QED
          BY <1>5, <2>1, <4>1, <4>2, <4>3
      <3>3. QED
        BY <3>1, <3>2
    <2>2. ASSUME NEW n \in DOMAIN reports, reports[n].age <= max_ttl
          PROVE  Holds(store', SmscId(n), reports[n].log_id, reports[n].age)
      BY <1>1, <1>5, <2>2, Keyed DEF Stored
    <2>3. QED
      BY <1>1, <2>1, <2>2 DEF Stored
  <1>9. QED
    BY <1>6, <1>7, <1>8

\* A step that makes no request, answers request n at most and only collects garbage.
LEMMA GetStep ==
  ASSUME CorrelationInvariant, store' = get(store), UNCHANGED <<sequence_number, requests>>,
         open' = open \/ \E n : open' = Without(open, n),
         reports' = reports \/ \E n : reports' = Without(reports, n)
  PROVE  CorrelationInvariant'
  <1> USE DEF CorrelationInvariant
  <1>1. /\ DOMAIN store' \subseteq Keys /\ \A k \in DOMAIN store' : store'[k] \in Item
        /\ \A k, l, age : age <= max_ttl /\ Holds(store, k, l, age) => Holds(store', k, l, age)
    BY GetStore
  <1>2. \A n \in DOMAIN open' : n \in DOMAIN open /\ open'[n] = open[n]
    BY DomainWithout
  <1>3. \A n \in DOMAIN reports' : n \in DOMAIN reports /\ reports'[n] = reports[n]
    BY DomainWithout
  <1>4. Types'
    BY <1>1, <1>2, <1>3 DEF Types
  <1>5. Numbering'
    BY <1>2 DEF Numbering
  <1>6. Stored'
    BY <1>1, <1>2, <1>3 DEF Stored
  <1>7. QED
    BY <1>4, <1>5, <1>6

\* A submit_sm_resp keeps the invariant, with what its report will need.
LEMMA SubmitSmRespStep ==
  ASSUME CorrelationInvariant, NEW n \in Requests, submit_sm_resp(n) PROVE CorrelationInvariant'
  <1> USE DEF CorrelationInvariant
  <1> DEFINE found == Found(Seq(open[n].seq))
             due == [log_id |-> found, age |-> 0]
  <1>1. found \in Requests \cup {NoLogId} /\ SmscId(n) \in Keys
    BY FoundType DEF Keys
  <1>2. due \in Item /\ due.log_id = found /\ due.age = 0
    BY <1>1 DEF Item, Old
  <1>3. /\ open' = Without(open, n) /\ reports' = Updated(reports, n, due)
        /\ store' = put(get(store), SmscId(n), found)
        /\ UNCHANGED <<sequence_number, requests>>
    BY DEF submit_sm_resp
  <1> HIDE DEF found, due
  <1>4. /\ \A m \in DOMAIN open' : m \in DOMAIN open /\ open'[m] = open[m]
        /\ \A m : m \in DOMAIN reports' <=> m \in DOMAIN reports \/ m = n
        /\ reports'[n] = due
        /\ \A m \in DOMAIN reports : m # n => reports'[m] = reports[m]
    BY <1>3, DomainWithout, DomainUpdated
  <1>5. /\ \A k \in DOMAIN get(store) : k \in DOMAIN store /\ get(store)[k] = store[k]
        /\ \A k \in DOMAIN store : store[k].age <= max_ttl => k \in DOMAIN get(store)
    BY Collected DEF get
  <1>6. /\ DOMAIN store' \subseteq Keys /\ \A k \in DOMAIN store' : store'[k] \in Item
        /\ Holds(store', SmscId(n), found, 0)
        /\ \A k, l, age : k # SmscId(n) /\ age <= max_ttl /\ Holds(store, k, l, age) => Holds(store', k, l, age)
    BY <1>1, <1>3, <1>5, PutStore
  <1>7. Types'
    BY <1>2, <1>3, <1>4, <1>6 DEF Types
  <1>8. Numbering'
    BY <1>3, <1>4 DEF Numbering
  <1>9. Stored'
    <2>1. ASSUME NEW m \in DOMAIN open', open'[m].age <= max_ttl, requests - m < Window
          PROVE  Holds(store', Seq(open'[m].seq), m, open'[m].age)
      BY <1>4, <1>6, <2>1, Keyed DEF Stored
    <2>2. ASSUME NEW m \in DOMAIN reports', reports'[m].age <= max_ttl
          PROVE  Holds(store', SmscId(m), reports'[m].log_id, reports'[m].age)
      <3>1. CASE m = n
        BY <1>2, <1>4, <1>6, <3>1
      <3>2. CASE m # n
        BY <1>4, <1>6, <2>2, <3>2, Keyed DEF Stored
      <3>3. QED
        BY <3>1, <3>2
    <2>3. QED
      BY <1>3, <2>1, <2>2 DEF Stored
  <1>10. QED
    BY <1>7, <1>8, <1>9

\* The passing of time keeps the invariant.
LEMMA TickStep == ASSUME CorrelationInvariant, tick PROVE CorrelationInvariant'
  <1> USE DEF CorrelationInvariant
  <1>0. store' = Older(store) /\ open' = Older(open) /\ reports' = Older(reports)
        /\ UNCHANGED <<sequence_number, requests>>
    BY DEF tick
  <1>1. /\ DOMAIN store' = DOMAIN store
        /\ \A k \in DOMAIN store : /\ store'[k] \in Item /\ store'[k].log_id = store[k].log_id
                                   /\ store'[k].age = IF store[k].age = Old THEN Old ELSE store[k].age + 1
    BY <1>0, OlderItems DEF Types
  <1>2. /\ DOMAIN reports' = DOMAIN reports
        /\ \A k \in DOMAIN reports : /\ reports'[k] \in Item /\ reports'[k].log_id = reports[k].log_id
                                     /\ reports'[k].age = IF reports[k].age = Old THEN Old ELSE reports[k].age + 1
    BY <1>0, OlderItems DEF Types
  <1>3. /\ DOMAIN open' = DOMAIN open
        /\ \A k \in DOMAIN open : /\ open'[k] \in [seq : SequenceNumbers, age : 0 .. Old]
                                  /\ open'[k].seq = open[k].seq
                                  /\ open'[k].age = IF open[k].age = Old THEN Old ELSE open[k].age + 1
    BY <1>0, OlderOpen DEF Types
  <1>4. Types'
    BY <1>0, <1>1, <1>2, <1>3 DEF Types
  <1>5. Numbering'
    BY <1>0, <1>3 DEF Numbering
  <1>6. ASSUME NEW k, NEW l, NEW age \in 0 .. Old, NEW older,
               older = (IF age = Old THEN Old ELSE age + 1), Holds(store, k, l, age)
        PROVE  Holds(store', k, l, older)
    <2>1. store'[k] \in Item /\ store'[k].log_id = l /\ store'[k].age = older
      BY <1>1, <1>6 DEF Holds
    <2>2. QED
      BY <1>1, <1>6, <2>1 DEF Holds, Item
  <1>7. Stored'
    <2>1. ASSUME NEW n \in DOMAIN open, open'[n].age <= max_ttl, requests - n < Window
          PROVE  Holds(store', Seq(open[n].seq), n, open'[n].age)
      <3>1. open[n].age \in 0 .. Old /\ open[n].age <= max_ttl
        BY <1>3, <2>1 DEF Types, Old
      <3>2. Holds(store, Seq(open[n].seq), n, open[n].age)
        BY <2>1, <3>1 DEF Stored
      <3>3. QED
        BY <1>3, <1>6, <3>1, <3>2
    <2>2. ASSUME NEW n \in DOMAIN reports, reports'[n].age <= max_ttl
          PROVE  Holds(store', SmscId(n), reports[n].log_id, reports'[n].age)
      <3>1. reports[n].age \in 0 .. Old /\ reports[n].age <= max_ttl
        BY <1>2, <2>2 DEF Types, Item, Old
      <3>2. Holds(store, SmscId(n), reports[n].log_id, reports[n].age)
        BY <2>2, <3>1 DEF Stored
      <3>3. QED
        BY <1>2, <1>6, <3>1, <3>2
    <2>3. QED
      BY <1>0, <1>2, <1>3, <2>1, <2>2 DEF Stored
  <1>8. QED
    BY <1>4, <1>5, <1>7

\* A second get at the same moment finds nothing more to collect.
LEMMA GetTwice == get(get(store)) = get(store)
  <1>1. /\ \A k : k \in DOMAIN get(store) <=> k \in DOMAIN store /\ store[k].age <= max_ttl
        /\ \A k \in DOMAIN store : store[k].age <= max_ttl => get(store)[k] = store[k]
    BY Collected DEF get
  <1>2. get(get(store)) = [k \in {j \in DOMAIN get(store) : get(store)[j].age <= max_ttl} |-> get(store)[k]]
    BY DEF get, _delete_after_ttl, Restrict
  <1>3. get(store) = [k \in DOMAIN get(store) |-> get(store)[k]]
    BY DEF get, _delete_after_ttl, Restrict
  <1>4. {j \in DOMAIN get(store) : get(store)[j].age <= max_ttl} = DOMAIN get(store)
    BY <1>1
  <1>5. QED
    BY <1>2, <1>3, <1>4

\* The invariant holds of an empty store.
LEMMA CorrelationInit == Init => CorrelationInvariant
  <1>1. DOMAIN Empty = {}
    BY DEF Empty
  <1>2. QED
    BY <1>1 DEF Init, CorrelationInvariant, Types, Numbering, Stored, SequenceNumbers

\* Every step keeps the invariant.
LEMMA CorrelationStep == CorrelationInvariant /\ [Next]_vars => CorrelationInvariant'
  <1> SUFFICES ASSUME CorrelationInvariant, [Next]_vars PROVE CorrelationInvariant'
    OBVIOUS
  <1>1. CASE request
    BY <1>1, RequestStep
  <1>2. CASE smsc_request
    BY <1>2, GetStep DEF smsc_request
  <1>3. CASE tick
    BY <1>3, TickStep
  <1>4. ASSUME NEW n \in Requests, response(n) PROVE CorrelationInvariant'
    BY <1>4, GetStep DEF response
  <1>5. ASSUME NEW n \in Requests, submit_sm_resp(n) PROVE CorrelationInvariant'
    BY <1>5, SubmitSmRespStep
  <1>6. ASSUME NEW n \in Requests, deliver_sm(n) PROVE CorrelationInvariant'
    BY <1>6, GetStep, GetTwice DEF deliver_sm
  <1>7. CASE UNCHANGED vars
    BY <1>7 DEF vars, CorrelationInvariant, Types, Numbering, Stored, Holds
  <1>8. QED
    BY <1>1, <1>2, <1>3, <1>4, <1>5, <1>6, <1>7 DEF Next

\* What the store holds under a key is what get returns.
LEMMA FoundIfHeld == \A k, l, age : Holds(store, k, l, age) => Found(k) = l
  BY DEF Holds, Found

\* The invariant holds throughout.
THEOREM CorrelationInvariance == Spec => []CorrelationInvariant
  BY CorrelationInit, CorrelationStep, PTL DEF Spec

\* The generator stays in its range and the store holds items under its two kinds of keys.
THEOREM CorrelationTypeCorrect == Spec => []TypeOK
  <1>1. CorrelationInvariant => TypeOK
    <2> SUFFICES ASSUME Types PROVE TypeOK
      BY DEF CorrelationInvariant
    <2>1. DOMAIN open \subseteq Requests
      BY DEF Types, Requests
    <2>2. QED
      BY <2>1 DEF Types, TypeOK, Range
  <1>2. QED
    BY <1>1, CorrelationInvariance, PTL

\* Whatever the range of sequence numbers and however often it has been gone through, a
\* response in time is given the log_id of its request.
THEOREM ResponsesFound == Spec => []ResponsesFindTheirRequest
  <1>1. CorrelationInvariant => ResponsesFindTheirRequest
    BY FoundIfHeld DEF CorrelationInvariant, Stored, ResponsesFindTheirRequest
  <1>2. QED
    BY <1>1, CorrelationInvariance, PTL

\* A delivery report in time is given the log_id that the submit_sm_resp was given.
THEOREM ReportsFound == Spec => []ReportsFindTheirMessage
  <1>1. CorrelationInvariant => ReportsFindTheirMessage
    BY FoundIfHeld DEF CorrelationInvariant, Stored, ReportsFindTheirMessage
  <1>2. QED
    BY <1>1, CorrelationInvariance, PTL

\* Every call of put or get leaves the store without items older than max_ttl.
THEOREM GarbageCollected == Spec => GarbageIsCollected
  <1> DEFINE Clean == store' # store => store' = Older(store) \/ \A k \in DOMAIN store' : store'[k].age <= max_ttl
  <1>1. [Next]_vars => [Clean]_vars
    <2>1. ASSUME NEW items, store' = _delete_after_ttl(items) PROVE Clean
      BY <2>1, Collected
    <2>2. request \/ smsc_request => Clean
      BY <2>1 DEF request, smsc_request, put, get
    <2>3. \A n \in Requests : response(n) \/ submit_sm_resp(n) \/ deliver_sm(n) => Clean
      BY <2>1 DEF response, submit_sm_resp, deliver_sm, put, get
    <2>4. tick => Clean
      BY DEF tick
    <2>5. QED
      BY <2>2, <2>3, <2>4 DEF Next
  <1>2. QED
    BY <1>1, PTL DEF Spec, GarbageIsCollected
-----------------------------------------------------------------------------
(* The loop of dequeue_messages uses the throttle handler and the rate       *)
(* limiter as they allow, whatever their parameters and however long the     *)
(* broker takes; so what is proved of the handler alone holds in the loop,   *)
(* and a permission to send goes stale for one request at most.              *)

HIDE CorrelationAssumption

(* SimpleThrottleHandler by itself: it never denies requests for longer than *)
(* the rest of the sampling period and two waits.                            *)

USE ThrottleAssumption

\* A denial goes through two phases.  Until the counters are reset it is not older than
\* they are, but for the last wait; after the reset no throttled response is left, and
\* the next question is answered yes.
BeforeReset ==
    /\ denied_for <= since_update \/ since_update = Longest
    /\ denied_for + timer <= sampling_period + throttle_wait

AfterReset ==
    /\ throttle_responses = 0
    /\ denied_for + timer <= LongestDenial

DenialInvariant ==
    /\ ThrottleTypeOK
    /\ gate # "wait" => timer = 0
    /\ BeforeReset \/ AfterReset

\* Nothing of something is nothing per cent.
LEMMA NothingRounded == ASSUME NEW b \in Nat \ {0} PROVE RoundedQuotient(0, b) = 0
  <1>1. 0 \div b = 0 /\ 0 % b = 0
    OBVIOUS
  <1>2. QED
    BY <1>1 DEF RoundedQuotient

\* Without a throttled response nothing is denied.
LEMMA NoneThrottled == ThrottleTypeOK /\ throttle_responses = 0 => percent_throttles = 0
  <1> SUFFICES ASSUME ThrottleTypeOK, throttle_responses = 0, ~(Total < sample_size)
               PROVE  RoundedQuotient(10000 * throttle_responses, Total) = 0
    BY DEF percent_throttles
  <1>1. Total \in Nat \ {0} /\ 10000 * throttle_responses = 0
    BY DEF ThrottleTypeOK, Total
  <1>2. QED
    BY <1>1, NothingRounded

\* The handler starts with nothing denied.
LEMMA DenialInit == ThrottleInit => DenialInvariant
  BY DEF ThrottleInit, DenialInvariant, ThrottleTypeOK, BeforeReset, Longest, LongestDenial

\* Every step keeps the denial within its bound.
LEMMA DenialStep == DenialInvariant /\ [ThrottleNext]_throttle_vars => DenialInvariant'
  <1> SUFFICES ASSUME DenialInvariant, [ThrottleNext]_throttle_vars PROVE DenialInvariant'
    OBVIOUS
  <1> USE DEF DenialInvariant, ThrottleTypeOK, BeforeReset, AfterReset, Longest, LongestDenial, Total
  <1>1. CASE allow_request
    <2>1. CASE percent_throttles > deny_request_at
      <3>1. throttle_responses # 0 /\ BeforeReset
        BY <2>1, NoneThrottled
      <3>2. QED
        BY <1>1, <2>1, <3>1 DEF allow_request, ResetIfStale, Deny
    <2>2. CASE ~(percent_throttles > deny_request_at)
      BY <1>1, <2>2 DEF allow_request, ResetIfStale
    <2>3. QED
      BY <2>1, <2>2
  <1>2. CASE throttle_delay
    BY <1>2 DEF throttle_delay
  <1>3. CASE send_request
    BY <1>3 DEF send_request, AtMost
  <1>4. CASE throttled
    BY <1>4 DEF throttled
  <1>5. CASE not_throttled
    BY <1>5 DEF not_throttled
  <1>6. CASE throttle_tick
    BY <1>6 DEF throttle_tick, AtMost
  <1>7. CASE no_request
    BY <1>7 DEF no_request
  <1>8. CASE UNCHANGED throttle_vars
    BY <1>8 DEF throttle_vars
  <1>9. QED
    BY <1>1, <1>2, <1>3, <1>4, <1>5, <1>6, <1>7, <1>8 DEF ThrottleNext

\* The counters of the handler, its timer and the requests in flight stay in their
\* ranges, whatever the SMSC answers and however many requests are denied.
THEOREM ThrottleTypeCorrect == ThrottleSpec => []ThrottleTypeOK
  <1>1. DenialInvariant => ThrottleTypeOK
    BY DEF DenialInvariant
  <1>2. QED
    BY <1>1, DenialInit, DenialStep, PTL DEF ThrottleSpec

\* Once the throttled responses stop, the gate of dequeue_messages opens again within
\* the rest of the sampling period and two waits.
THEOREM DenialBounded == ThrottleSpec => []DenialIsBounded
  <1>1. DenialInvariant => DenialIsBounded
    BY DEF DenialInvariant, ThrottleTypeOK, BeforeReset, AfterReset, DenialIsBounded, LongestDenial
  <1>2. QED
    BY <1>1, DenialInit, DenialStep, PTL DEF ThrottleSpec
-----------------------------------------------------------------------------
(* The handler in the loop.                                                  *)

USE RateAssumption, GateAssumption

\* Each step of the loop is a step of the handler, or leaves it alone.
LEMMA HandlerStep == [GateNext]_gate_vars => [ThrottleNext]_throttle_vars
  <1> SUFFICES ASSUME [GateNext]_gate_vars PROVE [ThrottleNext]_throttle_vars
    OBVIOUS
  <1> USE DEF throttle_vars, ThrottleNext
  <1>1. CASE gate_ask
    BY <1>1 DEF gate_ask
  <1>2. CASE gate_denied
    BY <1>2 DEF gate_denied
  <1>3. CASE gate_limit
    BY <1>3 DEF gate_limit
  <1>4. CASE gate_backoff_over
    BY <1>4 DEF gate_backoff_over
  <1>5. CASE gate_send
    BY <1>5 DEF gate_send, Leave
  <1>6. CASE gate_fetch
    BY <1>6 DEF gate_fetch
  <1>7. CASE gate_fetch_error
    BY <1>7 DEF gate_fetch_error
  <1>8. CASE gate_response
    BY <1>8 DEF gate_response
  <1>9. CASE gate_enqueue
    BY <1>9 DEF gate_enqueue
  <1>10. CASE gate_tick
    BY <1>10 DEF gate_tick
  <1>11. CASE UNCHANGED gate_vars
    BY <1>11 DEF gate_vars
  <1>12. QED
    BY <1>1, <1>2, <1>3, <1>4, <1>5, <1>6, <1>7, <1>8, <1>9, <1>10, <1>11 DEF GateNext, GateLoop

\* Likewise of the limiter.
LEMMA LimiterStep == [GateNext]_gate_vars => [LimiterNext]_limiter_vars
  <1> SUFFICES ASSUME [GateNext]_gate_vars PROVE [LimiterNext]_limiter_vars
    OBVIOUS
  <1>1. CASE gate_limit
    BY <1>1 DEF gate_limit, LimiterNext
  <1>2. CASE gate_tick
    BY <1>2 DEF gate_tick, LimiterNext
  <1>3. CASE gate_ask \/ gate_denied \/ gate_backoff_over \/ gate_send
    BY <1>3 DEF gate_ask, gate_denied, gate_backoff_over, gate_send
  <1>4. CASE gate_fetch \/ gate_fetch_error \/ gate_response \/ gate_enqueue
    BY <1>4 DEF gate_fetch, gate_fetch_error, gate_response, gate_enqueue
  <1>5. CASE UNCHANGED gate_vars
    BY <1>5 DEF gate_vars
  <1>6. QED
    BY <1>1, <1>2, <1>3, <1>4, <1>5 DEF GateNext, GateLoop

\* dequeue_messages is one of the callers that ThrottleHandler allows for.
LEMMA LoopAsks == GateSpec => ThrottleSpec
  <1>1. GateInit => ThrottleInit
    BY DEF GateInit
  <1>2. QED
    BY <1>1, HandlerStep, PTL DEF GateSpec, ThrottleSpec

\* In the loop, with the limiter and the broker between permission and request, the gate
\* opens again within the rest of the sampling period and two waits.
THEOREM GateDenialBounded == GateSpec => []DenialIsBounded
  BY LoopAsks, DenialBounded, PTL
-----------------------------------------------------------------------------
\* The limiter keeps its bucket in range.
LEMMA LimiterTypes == LimiterTypeOK /\ [LimiterNext]_limiter_vars => LimiterTypeOK'
  <1> SUFFICES ASSUME LimiterTypeOK, [LimiterNext]_limiter_vars PROVE LimiterTypeOK'
    OBVIOUS
  <1> USE DEF LimiterTypeOK
  <1>0. /\ One \in Nat \ {0} /\ max_tokens \in Nat /\ LongestRefill \in Nat
        /\ delay_for_tokens \in Nat /\ since_refill * send_rate \in Nat
    BY DEF One, max_tokens, LongestRefill, delay_for_tokens
  <1>1. CASE LetThrough
    BY <1>0, <1>1 DEF LetThrough
  <1>2. CASE Hold
    BY <1>0, <1>2 DEF Hold, _add_new_tokens, Smaller
  <1>3. CASE limiter_tick
    BY <1>0, <1>3 DEF limiter_tick, Smaller
  <1>4. CASE UNCHANGED limiter_vars
    BY <1>4 DEF limiter_vars
  <1>5. QED
    BY <1>1, <1>2, <1>3, <1>4 DEF LimiterNext, limit, limit_resumes

\* The stage follows what the handler said.  While a request is on its way to the wire,
\* none has left against the handler's advice: the permission came when there was nothing
\* against it.
LateStage ==
    /\ stage \in Stages
    /\ stage = "top" <=> gate # "send"
    /\ waiting \in 0 .. MaxWaiting
    /\ left \in [Recent -> 0 .. Second]
    /\ late \in {0, 1}
    /\ gate = "send" => late = 0

\* The window of a second, and the indices of the requests remembered in it.
LEMMA RecentTypes == PerSecond \in Nat /\ Recent = 1 .. PerSecond + 1 /\ Second \in Nat
  BY DEF PerSecond, Recent

\* Every step keeps the count of late requests in step with the stage of the loop.
LEMMA LateStep == DenialInvariant /\ LateStage /\ [GateNext]_gate_vars => LateStage'
  <1> SUFFICES ASSUME DenialInvariant, LateStage, [GateNext]_gate_vars PROVE LateStage'
    OBVIOUS
  <1> USE DEF LateStage, Stages, throttle_vars
  <1>0. gate \in {"ask", "send", "wait"}
    BY DEF DenialInvariant, ThrottleTypeOK
  <1>1. CASE gate_ask
    <2>1. CASE gate' = "send"
      <3>1. ~Denying'
        <4>1. ~Denying
          BY <1>1, <2>1 DEF gate_ask, allow_request, Deny, Denying
        <4>2. CASE since_update > sampling_period
          <5>1. NON_throttle_responses' = 0 /\ throttle_responses' = 0
            BY <1>1, <4>2 DEF gate_ask, allow_request, ResetIfStale
          <5>2. QED
            BY <5>1 DEF Denying, percent_throttles, Total
        <4>3. CASE ~(since_update > sampling_period)
          <5>1. UNCHANGED <<NON_throttle_responses, throttle_responses>>
            BY <1>1, <4>3 DEF gate_ask, allow_request, ResetIfStale
          <5>2. QED
            BY <4>1, <5>1 DEF Denying, percent_throttles, Total
        <4>4. QED
          BY <4>2, <4>3
      <3>2. QED
        BY <1>1, <2>1, <3>1 DEF gate_ask, Watch
    <2>2. CASE gate' # "send"
      <3>1. late' \in {0, 1}
        BY <1>1 DEF gate_ask, Watch, AtMost, TooMany
      <3>2. gate = "ask"
        BY <1>1 DEF gate_ask, allow_request
      <3>3. QED
        BY <1>1, <2>2, <3>1, <3>2 DEF gate_ask
    <2>3. QED
      BY <2>1, <2>2
  <1>2. CASE gate_denied
    <2>1. late' \in {0, 1}
      BY <1>2 DEF gate_denied, Watch, AtMost, TooMany
    <2>2. QED
      BY <1>2, <2>1 DEF gate_denied, throttle_delay
  <1>3. CASE gate_limit
    BY <1>3 DEF gate_limit
  <1>4. CASE gate_backoff_over
    <2>1. late' \in {0, 1}
      BY <1>4 DEF gate_backoff_over, Watch, AtMost, TooMany
    <2>2. QED
      BY <1>4, <2>1 DEF gate_backoff_over, no_request
  <1>5. CASE gate_send
    <2>1. gate = "send" /\ gate' = "ask"
      BY <1>5 DEF gate_send, Leave, send_request, no_request
    <2>2. late' \in {0, 1}
      BY <1>5, <2>1 DEF gate_send, Leave, Watch, AtMost, TooMany
    <2>3. left' \in [Recent -> 0 .. Second]
      BY <1>5, RecentTypes DEF gate_send, Leave, Record
    <2>4. QED
      BY <1>5, <2>1, <2>2, <2>3 DEF gate_send
  <1>6. CASE gate_fetch
    BY <1>6 DEF gate_fetch
  <1>7. CASE gate_fetch_error
    BY <1>7 DEF gate_fetch_error
  <1>8. CASE gate_response
    <2>1. late' \in {0, 1} /\ (late = 0 => late' = 0)
      BY <1>8 DEF gate_response, Watch, AtMost, TooMany
    <2>2. gate' = gate
      BY <1>8 DEF gate_response, throttled, not_throttled
    <2>3. QED
      BY <1>8, <2>1, <2>2 DEF gate_response
  <1>9. CASE gate_enqueue
    BY <1>9 DEF gate_enqueue
  <1>10. CASE gate_tick
    <2>1. left' \in [Recent -> 0 .. Second]
      BY <1>10, RecentTypes DEF gate_tick, Smaller
    <2>2. QED
      BY <1>10, <2>1 DEF gate_tick, throttle_tick
  <1>11. CASE UNCHANGED gate_vars
    BY <1>11 DEF gate_vars
  <1>12. QED
    BY <1>1, <1>2, <1>3, <1>4, <1>5, <1>6, <1>7, <1>8, <1>9, <1>10, <1>11 DEF GateNext, GateLoop

\* No request is late when the loop starts.
LEMMA LateInit == GateInit => LateStage
  BY RecentTypes DEF GateInit, ThrottleInit, LateStage, Stages

\* The stages of the loop, the bucket and the counters stay in their ranges.
THEOREM GateTypeCorrect == GateSpec => []GateTypeOK
  <1>1. GateInit => DenialInvariant /\ LimiterTypeOK /\ LateStage
    <2>1. LimiterInit => LimiterTypeOK
      BY DEF LimiterInit, LimiterTypeOK, max_tokens, LongestRefill, delay_for_tokens, One
    <2>2. QED
      BY <2>1, DenialInit, LateInit DEF GateInit
  <1>2. DenialInvariant /\ LimiterTypeOK /\ LateStage /\ [GateNext]_gate_vars
            => (DenialInvariant /\ LimiterTypeOK /\ LateStage)'
    BY HandlerStep, LimiterStep, DenialStep, LimiterTypes, LateStep
  <1>3. DenialInvariant /\ LimiterTypeOK /\ LateStage => GateTypeOK
    BY DEF DenialInvariant, LateStage, GateTypeOK, TooMany
  <1>4. QED
    BY <1>1, <1>2, <1>3, PTL DEF GateSpec

\* However responses and requests interleave, one request at most leaves between the
\* response that calls for a stop and the stop.
THEOREM OneLate == GateSpec => []OneLateRequest
  <1>1. GateInit => DenialInvariant /\ LateStage
    BY DenialInit, LateInit DEF GateInit
  <1>2. DenialInvariant /\ LateStage /\ [GateNext]_gate_vars => (DenialInvariant /\ LateStage)'
    BY HandlerStep, DenialStep, LateStep
  <1>3. LateStage => OneLateRequest
    BY DEF LateStage, OneLateRequest
  <1>4. QED
    BY <1>1, <1>2, <1>3, PTL DEF GateSpec
-----------------------------------------------------------------------------
(* The rate.  Each of the last i requests has cost a token that has not come    *)
(* back, or is a second old: tokens come back only when the bucket is short,    *)
(* and then no request leaves for a second.                                     *)

\* The token of a request that has been let through and has not left.
Pending == IF stage \in {"fetch", "send", "backoff"} THEN One ELSE 0

Paid(i) == i * One + Pending + tokens <= max_tokens

RateInvariant ==
    /\ LimiterTypeOK
    /\ LateStage
    /\ limiter = "limited" => stage = "limit" /\ \A i \in Recent : left[i] + delay >= Second
    /\ limiter = "idle" => Pending + tokens <= max_tokens /\ \A i \in Recent : left[i] >= Second \/ Paid(i)
    /\ RateIsRespected

\* A token, a full bucket and a second are numbers.
LEMMA BucketTypes == One \in Nat \ {0} /\ max_tokens \in Nat /\ Second \in Nat \ {0}
  BY DEF One, max_tokens

\* The bucket does not hold the tokens of one request more than a second's.
LEMMA BucketIsSmall == (PerSecond + 1) * One > max_tokens
  <1>1. send_rate < (PerSecond + 1) * Fraction
    BY DEF PerSecond
  <1>2. \A a, b, c \in Nat : a < b /\ c > 0 => a * c < b * c
    OBVIOUS
  <1>3. send_rate * Second < ((PerSecond + 1) * Fraction) * Second
    BY <1>1, <1>2, RecentTypes
  <1>4. ((PerSecond + 1) * Fraction) * Second = (PerSecond + 1) * One
    BY RecentTypes DEF One
  <1>5. QED
    BY <1>3, <1>4 DEF max_tokens

\* A step that lets no request leave and leaves the bucket alone keeps requests paid.
LEMMA StillPaid ==
  ASSUME RateInvariant, LateStage', UNCHANGED <<limiter_vars, left>>, Pending' <= Pending,
         limiter = "idle" \/ stage' = stage
  PROVE  RateInvariant'
  <1>1. Pending \in Nat /\ Pending' \in Nat
    BY BucketTypes DEF Pending
  <1>2. tokens' = tokens /\ limiter' = limiter /\ delay' = delay /\ tokens \in Nat
    BY DEF limiter_vars, RateInvariant, LimiterTypeOK
  <1>3. ASSUME NEW i \in Recent, Paid(i) PROVE Paid(i)'
    <2>1. i * One \in Nat
      BY BucketTypes, RecentTypes
    <2>2. QED
      BY <1>1, <1>2, <1>3, <2>1, BucketTypes DEF Paid
  <1>4. LimiterTypeOK' /\ RateIsRespected'
    BY DEF RateInvariant, RateIsRespected, LimiterTypeOK, limiter_vars
  <1>5. limiter = "idle" => Pending' + tokens' <= max_tokens
    <2>1. \A a, b, c, d \in Nat : a + c <= d /\ b <= a => b + c <= d
      OBVIOUS
    <2>2. limiter = "idle" => Pending + tokens <= max_tokens
      BY DEF RateInvariant
    <2>3. QED
      BY <1>1, <1>2, <2>1, <2>2, BucketTypes
  <1>6. limiter = "idle" => \A i \in Recent : left'[i] >= Second \/ Paid(i)'
    BY <1>2, <1>3 DEF RateInvariant
  <1>7. QED
    BY <1>2, <1>4, <1>5, <1>6 DEF RateInvariant

\* Every step keeps each request of the last second paid for by a token.
LEMMA RateStep ==
  ASSUME RateInvariant, DenialInvariant, [GateNext]_gate_vars PROVE RateInvariant'
  <1>0. LateStage' /\ LimiterTypeOK'
    BY LateStep, LimiterStep, LimiterTypes DEF RateInvariant
  <1>1. CASE gate_ask \/ gate_denied \/ gate_backoff_over
    <2>1. stage # "limit" /\ limiter = "idle"
      BY <1>1 DEF gate_ask, gate_denied, gate_backoff_over, allow_request, throttle_delay,
                  RateInvariant, LateStage, LimiterTypeOK
    <2>2. Pending' <= Pending
      BY <1>1, BucketTypes DEF gate_ask, gate_denied, gate_backoff_over, Pending
    <2>3. QED
      BY <1>0, <1>1, <2>1, <2>2, StillPaid DEF gate_ask, gate_denied, gate_backoff_over
  <1>2. CASE gate_fetch \/ gate_fetch_error
    <2>1. stage # "limit" /\ limiter = "idle"
      BY <1>2 DEF gate_fetch, gate_fetch_error, RateInvariant, LimiterTypeOK
    <2>2. Pending' <= Pending
      BY <1>2, BucketTypes DEF gate_fetch, gate_fetch_error, Pending
    <2>3. QED
      BY <1>0, <1>2, <2>1, <2>2, StillPaid DEF gate_fetch, gate_fetch_error
  <1>3. CASE gate_response \/ gate_enqueue
    <2>1. stage' = stage /\ Pending' <= Pending
      BY <1>3, BucketTypes DEF gate_response, gate_enqueue, Pending
    <2>2. QED
      BY <1>0, <1>3, <2>1, StillPaid DEF gate_response, gate_enqueue
  <1>4. CASE gate_limit
    <2> USE BucketTypes, RecentTypes
    <2>1. stage = "limit" /\ Pending = 0 /\ left' = left
      BY <1>4 DEF gate_limit, Pending
    <2>2. CASE LetThrough
      <3>1. Pending' = One /\ tokens' = tokens - One /\ limiter' = "idle"
        BY <1>4, <2>2 DEF gate_limit, LetThrough, Pending
      <3>2. CASE limiter = "idle"
        <4>1. \A i \in Recent : Paid(i) => Paid(i)'
          BY <2>1, <3>1 DEF Paid, RateInvariant, LimiterTypeOK
        <4>2. QED
          BY <1>0, <2>1, <3>1, <3>2, <4>1, SMTT(20) DEF RateInvariant, LimiterTypeOK, RateIsRespected
      <3>3. CASE limiter = "limited"
        <4>1. delay = 0
          BY <1>4, <3>3 DEF gate_limit, limit, limit_resumes
        <4>2. \A i \in Recent : left'[i] >= Second
          BY <2>1, <3>3, <4>1 DEF RateInvariant, LateStage
        <4>3. QED
          BY <1>0, <2>1, <3>1, <4>2 DEF RateInvariant, LimiterTypeOK, RateIsRespected
      <3>4. QED
        BY <3>2, <3>3 DEF RateInvariant, LimiterTypeOK
    <2>3. CASE Hold
      <3>1. limiter' = "limited" /\ delay' = Second /\ stage' = "limit"
        BY <1>4, <2>3 DEF gate_limit, Hold, delay_for_tokens
      <3>2. \A i \in Recent : left'[i] + delay' >= Second
        BY <2>1, <3>1 DEF RateInvariant, LateStage
      <3>3. QED
        BY <1>0, <2>1, <3>1, <3>2 DEF RateInvariant, RateIsRespected
    <2>4. QED
      BY <1>4, <2>2, <2>3 DEF gate_limit, limit, limit_resumes
  <1>5. CASE gate_send
    <2> USE BucketTypes, RecentTypes
    <2>1. /\ limiter = "idle" /\ Pending = One /\ Pending' = 0
          /\ UNCHANGED <<tokens, limiter, delay, since_refill>>
      BY <1>5 DEF gate_send, limiter_vars, Pending, RateInvariant, LimiterTypeOK
    <2>2. CASE Leave
      <3>1. left' = [i \in Recent |-> IF i = 1 THEN 0 ELSE left[i - 1]]
        BY <2>2 DEF Leave, Record
      <3>2. \A i \in Recent : i # 1 => i - 1 \in Recent /\ (Paid(i - 1) => Paid(i)')
        BY <2>1 DEF Paid, RateInvariant, LimiterTypeOK
      <3>3. Paid(1)'
        BY <2>1 DEF Paid, RateInvariant, LimiterTypeOK
      <3>4. \A i \in Recent : left'[i] >= Second \/ Paid(i)'
        BY <2>1, <3>1, <3>2, <3>3 DEF RateInvariant
      <3>5. ~Paid(PerSecond + 1)'
        BY <2>1, BucketIsSmall DEF Paid, RateInvariant, LimiterTypeOK
      <3>6. RateIsRespected'
        BY <3>4, <3>5 DEF RateIsRespected
      <3>7. QED
        BY <1>0, <2>1, <3>4, <3>6 DEF RateInvariant, LimiterTypeOK
    <2>3. CASE UNCHANGED left
      BY <1>0, <2>1, <2>3, StillPaid DEF limiter_vars
    <2>4. QED
      BY <1>5, <2>2, <2>3 DEF gate_send
  <1>6. CASE gate_tick
    <2> USE BucketTypes, RecentTypes
    <2>1. /\ left' = [i \in Recent |-> Smaller(left[i] + 1, Second)]
          /\ delay' = (IF delay > 0 THEN delay - 1 ELSE 0)
          /\ UNCHANGED <<tokens, limiter, stage>>
      BY <1>6 DEF gate_tick, limiter_tick
    <2>2. \A i \in Recent : (left[i] >= Second => left'[i] >= Second) /\ (left[i] + delay >= Second => left'[i] + delay' >= Second)
      BY <2>1 DEF Smaller, RateInvariant, LateStage, LimiterTypeOK
    <2>3. Pending' = Pending /\ \A i \in Recent : Paid(i)' <=> Paid(i)
      BY <2>1 DEF Pending, Paid
    <2>4. RateIsRespected'
      BY <2>2 DEF RateInvariant, RateIsRespected
    <2>5. QED
      BY <1>0, <2>1, <2>2, <2>3, <2>4 DEF RateInvariant
  <1>7. CASE UNCHANGED gate_vars
    BY <1>7 DEF gate_vars, RateInvariant, LimiterTypeOK, LateStage, RateIsRespected, Paid, Pending, limiter_vars, throttle_vars
  <1>8. QED
    BY <1>1, <1>2, <1>3, <1>4, <1>5, <1>6, <1>7 DEF GateNext, GateLoop

\* However the broker delays requests that have been let through, no more than send_rate
\* of them leave the client in a second.
THEOREM RateRespected == GateSpec => []RateIsRespected
  <1>1. GateInit => DenialInvariant /\ RateInvariant
    <2> SUFFICES ASSUME GateInit PROVE DenialInvariant /\ RateInvariant
      OBVIOUS
    <2>1. LimiterTypeOK /\ LateStage /\ DenialInvariant
      BY LateInit, DenialInit DEF GateInit, LimiterInit, LimiterTypeOK, max_tokens, LongestRefill,
                                  delay_for_tokens, One
    <2>2. Pending = 0 /\ limiter = "idle" /\ tokens = max_tokens /\ \A i \in Recent : left[i] = Second
      BY DEF GateInit, LimiterInit, Pending
    <2>3. RateIsRespected
      BY <2>2, RecentTypes, BucketTypes DEF RateIsRespected
    <2>4. QED
      BY <2>1, <2>2, <2>3, BucketTypes DEF RateInvariant
  <1>2. DenialInvariant /\ RateInvariant /\ [GateNext]_gate_vars => (DenialInvariant /\ RateInvariant)'
    BY HandlerStep, DenialStep, RateStep
  <1>3. RateInvariant => RateIsRespected
    BY DEF RateInvariant
  <1>4. QED
    BY <1>1, <1>2, <1>3, PTL DEF GateSpec
=============================================================================
