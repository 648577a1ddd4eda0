# Verification of naz

TLA+ models of [naz](https://github.com/komuw/naz), an asynchronous SMPP client
for Python, with TLC configurations that check them on small instances and
TLAPS proofs of the main safety properties for all instances. Paths such as
`client.py:1504` are relative to `src/naz/`, others to `src/`.

## The system

| Part | State | Operations | Modelled in |
|---|---|---|---|
| `client.Client`, session core | `current_session_state`, `reader`, `writer`, `drain_lock`, `SHOULD_SHUT_DOWN` | `connect`, `tranceiver_bind`, `re_establish_conn_bind`, `send_data`, `enquire_link`, `dequeue_messages`, `receive_data`, `command_handlers`, `send_message`, `unbind`, `_unbind_and_disconnect`, `shutdown` | `Client` |
| `broker.SimpleBroker` | a bounded `asyncio.Queue` | `enqueue`, `dequeue` | `Client` (`broker`) |
| `throttle.SimpleThrottleHandler` | two counters and `updated_at` | `throttled`, `not_throttled`, `allow_request`, `throttle_delay` | `ThrottleHandler` |
| `ratelimiter.SimpleRateLimiter` | `tokens`, `updated_at` | `limit`, `_add_new_tokens` | `RateLimiter` |
| `sequence.SimpleSequenceGenerator` | `sequence_number` | `next_sequence` | `Correlation` |
| `correlater.SimpleCorrelater` | `store` | `put`, `get`, `_delete_after_ttl` | `Correlation` |
| reading of the stream (`receive_data`) | the bytes in hand | `readexactly`, the loop over chunks | `Framing` |
| the loop of `dequeue_messages` | where it waits, its count of retries | asks throttle handler, rate limiter and broker, sends | `Gate` (with its time), `Client` (with the session) |
| PDU layout, `protocol`, `state.OptionalTag` | – | building, parsing, JSON | `Pdu` (the SMSC's side: `Smsc`), `Wire` |
| command and status lookup | – | – | `Lookup`, `Wire` |
| `codec.GSM7BitCodec` | – | `encode`, `decode` | `Codec`, `Wire` |
| `log.BreachHandler` | `buffer` | `emit`, `flush`, `close` | `BreachHandler`, `Wire` |
| `naz-cli` (`cli/cli.py`) | – | starts the coroutines, ends with them | `Client` (`Init`, `ProgramOver`) |
| `hooks`, `log.SimpleLogger`, argument validation, `_retry_after` | none | – | not modelled |

How they interact: `naz-cli` hands `connect`, `tranceiver_bind`,
`dequeue_messages`, `receive_data` and `enquire_link` to `asyncio.gather`; a
signal handler starts `shutdown`. All of them write through `send_data`, which
re-establishes the connection when it finds it gone. `dequeue_messages` asks
the throttle handler, then the rate limiter, then the broker, and sends.
`receive_data` reads a header and a body from `client.reader` and calls
`command_handlers`, which tells the throttle handler of the status, may set
the session to `BOUND_TRX`, and puts the client's answers on the broker. The
builders of PDUs take a sequence number and put the request in the correlater;
`_parse_response_pdu` and the `submit_sm_resp` and `deliver_sm` handlers look
it up.

What makes it hard: six coroutines share one session, and most methods test a
piece of shared state, await something, and go on as if the test still held.
Connections end, break silently, or are refused; any coroutine may replace the
connection while others hold PDUs for it; a coroutine may wait for the drain
lock while the writer under it is replaced or removed; a shutdown arrives at any
of these points. In the helpers, counters are reset by time, numbers wrap
around, entries expire, and a bucket has fractional tokens. `PROJECT.json` lists
each hazard at its line, with the properties that cover it.

## Modules

### Client

`asyncio` is cooperative, so between two suspending awaits a coroutine runs
alone. The variable `running` names the coroutine in control (`NoTask`: the
event loop); `pc` says where each coroutine is. The labels in `Suspended` are
real suspension points (a sleep, `open_connection`, a read, a drain, a taken
lock, an empty queue, or the end), those in `InControl` are points between two
pieces of straight-line code. An `await` that does not suspend (a free lock, a
drain below the high-water mark) keeps control. `Resume(t, l)` is the event
loop waking a coroutine, `In(t, l)` a coroutine going on.

| Model | Code |
|---|---|
| `current_session_state`, `SHOULD_SHUT_DOWN`, `reader`, `writer` | the attributes of `Client`; `NoConn` is `None` |
| `drain_lock` | who holds the `asyncio.Lock` of issue 114 |
| `broker` | the queue inside `SimpleBroker`; `MaxQueue` is its `maxsize` |
| `cmd`, `todo`, `conn` | a coroutine's PDU in hand, the enclosing `send_data` calls (or `_unbind_and_disconnect`) that will still write, the connection it awaits on |
| `net`, `finSent`, `first`, `bindSent`, `loaded` | per connection: its fate; whether `write_eof` was called; the first PDU written; whether a bind was written; whether its write buffer may be full |
| `older` | the attempts to connect under way when a nap began: an attempt lasts at most `socket_timeout` and a nap lasts `socket_timeout` |
| `submitted`, `written` | the application's messages: how many, and those put on the wire in order |

Actions have the names of the methods. A method with suspension points is one
action for each piece: `send_data` is `send_data`, `write`,
`acquire_drain_lock`, `drained` or `drain_error`, and `returned`;
`re_establish_conn_bind` is that action, then `connect` or `connect_error`, then
`tranceiver_bind`. A PDU is a kind and an id. `connect_error`,
`dequeue_error`, `build_error`, `receive_error`, `receive_chunk_error`,
`write_eof_error` are the exceptions the code catches; `Crash` is the two it does not
(`AttributeError` on a writer that is `None`, `RuntimeError` of a write after
`write_eof`). `write_eof_error` leaves the writer and the session state as they were,
since both are reset after `write_eof` in the same `try`. `network_failure` ends or breaks a
connection whenever the event loop is in control.

`Client` also fixes what the library does (external): bytes written on a
closing transport are discarded; `drain` raises `ConnectionError` on one; `write` after
`write_eof` raises. Two things are coarser than in `asyncio`: the drain lock goes to any
of its waiters, not to the first, and a connection on which more than a bind was written
may be above its high-water mark from then on. Both add interleavings and take none away.

### Channel and ClientChannel

`Channel` is what an application may rely on from `send_message` to the network,
with no coroutines, locks or connections in it: a bounded first-in first-out
queue, one PDU in hand, and no loss but of what is submitted to a full queue, of
a message whose PDU cannot be built, and of the one in hand while the link is not
healthy. `ClientChannel` gives the refinement mapping: the queue is the broker;
the PDU in hand is the one `dequeue_messages` holds from `broker.dequeue` until
`writer.write`, which, while a lost connection is re-established, is at the bottom
of its stack; the link is healthy while the session is bound, the transport not closing and its eof
not written. `ImplementsChannel` says that every execution of `Client` is one of
`Channel`.

### Framing

`receive_data` byte by byte. A byte is named by its place `<<c, i>>`, the i-th of
connection c, so that a frame shows where each of its bytes came from. Bytes arrive in
any portions; `receive_header` is `readexactly`, `receive_chunk` one turn of the
loop below it, each on the `client.reader` of its own moment; `reconnect` is any
other coroutine replacing it. The session is reduced to whether it is bound; a
disconnect, of `receive_data` or of `shutdown`, takes its time and may fail, which leaves
the session bound.

### ThrottleHandler, RateLimiter, Gate

Time is discrete; ages and timers stop counting where larger values make no
difference. `ThrottleHandler` holds the handler together with its two callers, the
gate of `dequeue_messages` and the status report of `command_handlers`. `throttled` is
called for any PDU with a throttling status, an answer to `enquire_link` included,
whether or not a request is under way. The percentage is rounded as Python rounds, in hundredths of a percent. `RateLimiter`
counts tokens in fractions small enough for every value `tokens` takes to be whole.
`Gate` composes the two with the broker, its failures and the back-off after them,
on one clock: one turn of the loop is `gate_ask` (or `gate_denied`), `gate_limit`,
`gate_fetch` (or `gate_fetch_error`, `gate_backoff_over`) and `gate_send`, with
responses arriving in between.

### Correlation

The sequence generator and the correlater the way `Client` calls them: put on each
request, get on each PDU received, put under the SMSC's id on `submit_sm_resp`, get
by that id on `deliver_sm`.

### Pdu, Smsc, Codec, Lookup, BreachHandler and Wire

`Pdu` has the bytes of `bind_transceiver` and `submit_sm`, field by field in the order of
the code, with the checks that raise; an octet has `Byte` values. `Smsc` is the reference
it is held against: `Read` and `ReadOptions` read a PDU as SMPP 3.4 lays it out.
`Codec` is the GSM codec over one character of each kind (`"paren"` and `"brace"` stand
for the two characters whose codes differ by the escape only), `Lookup` the complete tables of command ids
and statuses and the searches in them, a status being its value (TLC's integers have 32 bits with a sign, so a
code is its highest bit and the other 31). `BreachHandler` is the ring buffer of log
records; whether `flush` clears it or puts a list in its place depends on the version
of Python and is chosen in `LogInit`. `Wire` makes one call at a time to each and
keeps its arguments and result. The parts of `Wire` share no state, and each moves only
with the others at rest.

`SeqOps` has the two operators on sequences all of them use. They are those of
`SequencesExt`, which is not extended because it brings `Bags` with it, and with `Bags`
in the context the proofs take ten times as long.

### MCClient, ClientClaims and the proof modules

`MCClient` adds the symmetry of connections (used only where all of them are
fragile and no liveness is checked). `ClientClaims` states what comments and
docstrings say of the session core and the code does not do. `*Proofs` hold the
theorems of the module they are named after; `HandlerProofs` has those of `Correlation`,
`ThrottleHandler`, `RateLimiter` and `Gate`.

## Runs

| Run | Shows | Distinct states |
|---|---|---|
| `client_messages` | `connect` and `tranceiver_bind` racing as in `naz-cli`, `dequeue_messages` and `receive_data`, two messages and the client's own answers through a queue of one, two connections that may each end or break at any suspension point, an SMSC that unbinds: one drain at a time (`DrainExclusive`), state and writer agree (`SessionHasWriter`), a bound session is bound on its current connection (`BoundOnWriter`), messages are written in order and at most once (`AtMostOnceInOrder`), and the path of messages is a `Channel` (`ImplementsChannel`) | 959 000 |
| `client_session` | `tranceiver_bind`, `receive_data`, `enquire_link` and a shutdown at any moment: state and writer agree (`SessionHasWriter`), a bind comes first on every connection (`BindComesFirst`), a connection lost after `enquire_link` has started leads to a bound session on a live one, unless shutdown begins (`Reconnects`); shutdown ends (`ShutdownEnds`) and is final (`ShutdownIsFinal`) | 90 000 |
| `gate` | 2.5 messages a second, half of the responses throttled being too many: a denial ends within `sampling_period + 2 * throttle_wait` of the last throttled response (`DenialIsBounded`) and always ends, where in the end only requests are throttled (`DenialLifts`); never more than `send_rate` requests leave in a second (`RateIsRespected`), at most one on a permission that has become stale (`OneLateRequest`); `limit` returns (`LimitReturns`) and a waiting message is taken in the end (`MessagesLeave`) | 136 000 |
| `correlation` | two sequence numbers, four requests: responses (`ResponsesFindTheirRequest`) and reports (`ReportsFindTheirMessage`) in time find their `log_id`; expired items go at the next put or get (`GarbageIsCollected`) | 308 000 |
| `framing` | two connections of two PDUs each, bodies of 0 and 3 bytes read in chunks of at most 2: PDUs are cut out whole and in order (`FramesAreExact`) and handed on in the end (`FramesAreHandedOn`), unless their connection had to finish a PDU of the one before | 600 000 |
| `pdus` | the SMSC reads back fields (`FieldsReadBack`) and options (`OptionsReadBack`); reports are matched (`ReportIsMatched`); commands have the right names, and no two statuses claim a value (`CodesAreNamed`); GSM texts are decoded to what they were (`GsmReadsBack`); a severe log record brings the last ones before it with it (`BreachShowsTheLast`) | 144 000 |

Some properties carry the exact limit of what the code does rather than what one
might wish: `GsmReadsBack` is an equivalence, `CodesAreNamed` lists the codes without a
name, `OptionsReadBack`, `ReportIsMatched` and `FramesAreExact` name the case in which
they fail. Those limits are under *What the code does not do*.

Bounds. Two connections are what it takes for one to be lost and replaced while
someone still holds the other; `claims_open` has a third, so that a replacement can be
replaced. In `client_session` the second does not break, and an execution in which both
were used up by abandoning a live one (`Exhausted`) counts as recovered, for the program
would get another. Two messages can be swapped or repeated, and a queue of one makes the
second, and the client's answers, meet a full queue. The coroutine sets differ from run
to run to keep each within three minutes; no run has all six at once (`connect` and
`dequeue_messages` never meet `enquire_link` or `shutdown` in a passing run), which the
theorems make up for where there is one. `sample_size`, the
sampling period and the number of sequence numbers are as small as lets a counter pass
its threshold, a period end during a denial, and a number be reused while its first
user still waits. In `Framing` a body of three bytes takes two chunks, so that the
reader can change inside it, and a PDU with no body lies next to it. In `pdus` a
sixteen-valued octet lets lengths and fields reach and pass its limit; six records
overrun a buffer of two between two flushes and after one. Only `Gate` has a
deadlock check: with finitely many connections, requests, PDUs or log records the others
come to an end.

Fairness. The event loop serves ready callbacks in order, an attempt to
connect ends within `socket_timeout`, sleeps end: strong fairness for the steps
of each coroutine (`LoopFairness`; strong because a lock, or control itself, may
be taken between two moments at which a coroutine is ready). For a coroutine inside
`writer.drain()` this says that the peer reads in the end or the connection breaks: the
code has no timeout there, and an SMSC that keeps a full connection open without reading
stops `ShutdownEnds` and `Reconnects`. Nothing is assumed of the SMSC's answers, the
application, the broker's service or the operator.
`FairSpec` also has an SMSC that can be reached (`SmscReachable`), and `Reconnects`
needs a bound on how many connections break (`Fragile`): a client whose every connection
breaks at once is never bound for long. In `Gate` the clock runs, the loop goes on
when a sleep is over, and a broker that is asked again and again answers. `DenialLifts`
and `MessagesLeave` are conditional on `OnlyRequestsThrottled`: in the end only answers to
requests that were let through have a throttling status. An SMSC that gives it to answers
to `enquire_link` keeps the gate shut for as long as it does. In `Framing` the event loop serves `receive_data`, and a connection
that was replaced, on which nobody answers any more, is closed by its SMSC in the end:
`readexactly` on it has no timeout, so without that `FramesAreHandedOn` fails.

### What the code does not do

| Run | The text | The behaviour |
|---|---|---|
| `claims_reestablish` | `client.py:1328` "the only reason this method is called is because connection has closed" | `receive_data` naps because the session is unbound and re-establishes after the nap without looking again, abandoning a connection another coroutine has bound meanwhile |
| `claims_crash` | `client.py:1469` "we do not want naz-cli to exit" | a coroutine that waited for the drain lock finds `self.writer` reset to `None`; the `AttributeError` is caught nowhere and ends `asyncio.gather` |
| `claims_eof` | `CHANGELOG.md:13` "Bugfix - RuntimeError: Cannot call `write()` after `write_eof()`" | `write_eof` raises `OSError` after the transport has recorded the eof; `self.writer` and the state are not reset, and the next `send_data` writes on it |
| `claims_open` | `client.py:1452` only bind commands are allowed while OPEN | the state is tested before a reconnection and the message written after it, in a session that is OPEN |
| `claims_ends` | `client.py:2317` "Cleanly shutdown this client" | the inner wait of `dequeue_messages` for a bound session does not look at `SHOULD_SHUT_DOWN` and never ends |
| `framing_consistent` | `CHANGELOG.md:89` "does not enter into an inconsistent state" | the connection is replaced in the middle of a body, and the rest of the PDU is taken from the first bytes of the new one |

`claims_crash` needs only two coroutines here because of the coarser drain lock and
buffer (see *Client*). In `asyncio`, where waiters are served in turn and a drain below
the mark does not suspend, the disconnecting coroutine suspends before its `write_eof`
only behind another waiter, so it takes one coroutine more, which the program has.

Seen while modelling, without a run of its own. Of the session:
- the message `dequeue_messages` has in hand when the session is closed is dropped
  (`client.py:1404`); `Channel` allows for it;
- a connection that breaks while `receive_data` is inside a body and `enquire_link`
  still in its start-up sleep is noticed by nobody, which is why `Reconnects` starts
  after that sleep.

Of the helpers:
- below one message a second the bucket cannot hold a whole token and `limit` never
  returns: `LimitReturns` is conditional on the rate;
- `allow_request` decides on counters that may be much older than `sampling_period`;
- `get` returns an expired item that no sweep has met yet;
- retries wait 2 minutes at first, where the docstring of `_retry_after` says "1min, 2min,
  4min, 8min, 16min, 32min, 16min, 16min, 16min ..." (`client.py:557`);
- an answer to `enquire_link` with a throttling status counts as a throttled request and,
  unlike those, keeps coming while requests are denied;
- after the first `flush`, in versions of Python where `MemoryHandler.flush` assigns a
  new list (`tests/test_logger.py` expects `[]`), the ring buffer of `BreachHandler` is
  an unbounded list, where `log.py:230` has "the maximum number of log records to store in
  the ring buffer" and `log.py:258` a maximum that "will always be ==" 1000 records.
  `BreachShowsTheLast` is about which records are shown and says nothing of how many are
  kept.

Of the bytes:
- the Length of a text option leaves out the NUL that ends its value, where `state.py:648`
  has "The Length field indicates the length of the Value field in octets" and the
  example at `state.py:443` counts the NUL; a reader that goes by it loses its place at
  the next option. Options that are 0, `""` or `False`
  are not sent;
- a `deliver_sm` is taken for the report of a wrong message when the two octets of the
  tag occur earlier in it (a message of 30 octets, after the zero before `sm_length`) or
  another option follows the id;
- the status 0x34, `ESME_RINVDLNAME`, has the code `"ESME_RINVNUMDESTS"` of its neighbour
  (`state.py:161`);
- command ids 0, 1 and 2 and statuses 0x4A to 0x4F have no name; some reserved ranges of
  command ids lie within others and are never returned;
- the escape character is in the basic GSM set and is not decoded to itself; at the end
  of a text it makes `decode` raise.

## Proofs

All theorems are for every value of the constants their modules assume, and TLC
evaluates each assumption in a run:

| Assumption | What it asks |
|---|---|
| `ClientAssumption` | types; `None` is no connection and "nobody" no coroutine |
| `ThrottleAssumption`, `RateAssumption`, `GateAssumption` | types; periods, waits, sizes and rates are not zero |
| `CorrelationAssumption` | types; there are at least two sequence numbers |
| `LogAssumption`, `WireAssumption` | types |
| `FramingAssumption` | types; a header and a read are of at least one byte, and there is a connection |
| `PduAssumption` | types; an octet has more than eight values (the code has 256), and the tag of a `receipted_message_id` is a number in one octet, other than 0 and 1 (the code has 30): packed in two octets it is then a zero and something that is neither a zero nor a length of one |

### ClientProofs

`ClientTypeCorrect`, `DrainIsExclusive`, `SessionAlwaysHasWriter` and
`ShutdownStaysFinal`, for every subset of the six coroutines,
every set of connections and fragile connections, every set of SMSC commands, every
number of messages and queue size. None of the four is inductive alone; `Inv` adds
- `Frames`: what the stacks hold. Only `receive_data` and `shutdown` ever
  disconnect, `shutdown` only after setting `SHOULD_SHUT_DOWN`, and
  `_unbind_and_disconnect` is never mistaken for a PDU to be written;
- `LockedWriter`: nobody resets the writer while the lock is held. The half-close
  in `drained` happens under the lock, so there is a writer to half-close (this
  is what keeps `finSent` a set of connections, hence the types), and a bind
  that is drained sets `BOUND_TRX` only while there is a writer;
- `ReceiverHasWriter`: while `receive_data` reads or handles, there is a writer
  or a shutdown is on. It begins to read in a bound session; the only others
  that could take the writer away are itself, which is not reading then, and
  `shutdown`. The `bind_transceiver_resp` handler, which sets `BOUND_TRX` long
  after the read began, needs this;
- `UsedConnections`: a connection that is or was the writer, or whose eof is written, is
  not handed out again.

The step proofs have one step per action. `EXCEPT` updates are hidden behind
pointwise lemmas (`Moves`, `Takes`, `Stacks`, `Drains`); that a move, a PDU
taken or a stack keeps its group of types is `MovesTyped`, `TakesTyped`, `StacksTyped`,
`WaitsTyped`. `SessionSteps` names the four actions that touch the session at all, and
reduces the rest to stuttering.

`BindFirst` (the first PDU on a connection is a bind) is for clients whose connections
are all opened by `re_establish_conn_bind`: beside a `connect` coroutine, whose connection
is OPEN with nobody's bind on it yet, `send_data` lets an `enquire_link` go first.
`NewIsOwned` says why it holds: a new connection is `Held` by the coroutine in control,
which goes from `connect` to writing the bind without a suspension, so nobody else can
write on it before.

`BoundWhereItWrites` (a `BOUND_TRX` session has a bind on the connection it writes to) is
for every subset of the coroutines, `connect` and `shutdown` included. A connection of the
`connect` coroutine is held by nobody, so `NewIsSafe` allows for a second case: it is held,
or everything is `Quiet`. The session is not bound, `receive_data` is not reading, so no
answer to an earlier bind will be handled, and a bind that is still to be drained is on a
connection that was lost, so its drain raises and does not set `BOUND_TRX`. That this is
so when `connect` gets its connection is `ConnectsOnce`: until then the loops are in their
first naps, which outlast the attempt, and `tranceiver_bind`, if it already had a
connection, wrote and drained its bind without a suspension. `ShutdownBindsNothing` adds
that `shutdown`, which may get to `re_establish_conn_bind` through `send_data`, never binds.

### ClientChannelProofs

`ClientImplementsChannel` is the refinement. On top of `Inv` it needs `Cargo`: no
coroutine but `dequeue_messages` ever sends a message of the application
(`OthersSend`), and that one holds at most one PDU of the broker, either about to be
sent, with nothing on its stack, or at the bottom of the stack, below the binds that go
first (`OneInHand`). `MessagesInOrder` then looks at the channel only: `InOrder` (what
was written came before what is in hand, that before what is queued, all before what is
still to be submitted) is preserved by each step of `Channel`.

### HandlerProofs

`ResponsesFound`, `ReportsFound`, `GarbageCollected` rest on `Numbering` (a request made
less than a full round ago has the number that many places behind the generator, so two
such requests differ) and `Stored` (the store holds what open requests and due reports
need, exactly as old as they are).

`DenialBounded` follows from an invariant with two phases: until the counters are reset
a denial is not older than they are, but for the last wait; after the reset no
throttled response is left and the next question is answered yes. `LoopAsks` shows each
step of the loop to be a step of the handler or to leave it alone, so `GateDenialBounded`
costs one line. `OneLate` holds because a request
becomes late only between `allow_request` and its departure, and the next one has to
ask (`LateStage`). `RateRespected` is by counting tokens (`RateInvariant`): each request
of the last second, and one on its way, is paid for from a single bucket, since the
bucket is refilled only where it is short of a token, and each refill is followed by a
sleep of a second, after which every earlier request is out of the last second.

### FramingProofs

`FramesExact`, for every header length, read size, set of body lengths, number of PDUs and
number of connections. `FramingInv` says of each connection that did not have to finish a
PDU of another one where it is (`Whereabouts`): its first n PDUs were handed on, each once
and in order, and it is between PDU n and the next, or the bytes in hand are exactly the
beginning of PDU n + 1, or it was left for good with its last PDU finished from elsewhere,
or it ended in the middle of a header. Four actions move bytes and have a lemma each; the
others are `QuietStep`s.

### SeqOpsProofs, CodecProofs, PduProofs and WireProofs

The properties of `Wire` are about folds and recursive functions on sequences. `SeqOpsProofs`
has induction over the natural numbers with the property as a set (`Induction`, by way of a
least counterexample; the library's own takes an operator), and what `FlattenSeq` and
`SelectInSeq` return. Each recursive function is treated in two steps: the recursion has a
solution (`...Exists`), and every solution has the property.

The main results are about all arguments and do not mention `Wire`:
- `GsmCodec`: every text of every length is decoded to what it was, up to the error
  handler, exactly if there is no escape in it. The bytes of a text are put together
  one character at a time and `DecodesShift` cuts the first off again;
- `EveryIdNamed`, `EveryStatusOnce`: the searches answer as stated for all 2^32 codes;
- `SubmitRead`, `BindRead`, `JsonRoundTrip`: whatever passes the checks, the SMSC reads
  back, by way of JSON or not;
- `OptionsRead`: a reader that knows of the uncounted NUL reads all options that were sent;
  one that goes by the Length does where no text is among them.

`WireProofs` brings them to the properties that the run `pdus` checks
(`FieldsSurvive`, `OptionsSurvive`, `ReportMatched`, `CodesNamed`, `GsmAlphabet`), by one
step per call. `ReportMatched` adds that the tag's first place in the body is where the
option begins, unless it is spelt before it.
`BreachShown` rests on `BufferInvariant`: the buffer is the end of what was logged since the
last flush, all of it or at least `capacity`.

### Only model-checked

Liveness (`ShutdownEnds`, `Reconnects`, `DenialLifts`, `LimitReturns`, `MessagesLeave`,
`FramesAreHandedOn`), which the proof system cannot treat. Every invariant, action property
and refinement that a passing run checks is also a theorem.

## Not modelled

- `SimpleLogger` and the wording of log records; the heartbeat of `BreachHandler`, which
  is off by default and bypasses its buffer.
- Hooks: `SimpleHook` logs, and exceptions of a user's hook are caught where it is called.
- Argument validation in constructors, which raises or changes nothing; parsing of
  arguments and loading of the client in `naz-cli`.
- `UCS2Codec`, which delegates to Python, and the error handlers of `decode`, which bytes
  made by `encode` cannot reach.
- `_retry_after`: how long a back-off lasts is left open in every module.
- The PDUs that are a header, or a header and a zero; they are sent by actions of `Client`.
- The code strings and descriptions of statuses, which are only logged.
- The length of sleeps in `Client`, except that a nap outlasts earlier attempts; time is
  in `Gate`.
- A second termination signal (a second `shutdown`).
- `messages_delivered` and `effective_send_rate` of the rate limiter, which are only
  logged; `hook_metadata`, always stored with `log_id`.
