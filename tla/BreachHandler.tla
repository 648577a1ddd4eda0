--------------------------- MODULE BreachHandler ---------------------------
(***************************************************************************)
(* naz.log.BreachHandler: log records wait in a ring buffer and are handed *)
(* to the target when a severe one arrives.                                *)
(*                                                                         *)
(* The buffer is a deque with a maxlen.  emit is the handler's own, flush  *)
(* and close are those of logging.handlers.MemoryHandler.  Depending on    *)
(* the version of Python flush clears the buffer or puts a new list in its *)
(* place: tests/test_logger.py expects a list.  heartbeatInterval is None, *)
(* the default, so that _heartbeat does nothing.                           *)
(***************************************************************************)
EXTENDS Integers, Sequences

CONSTANTS
    capacity, flushLevel, targetLevel, flushOnClose,
    LogLevels,    \* the levels of the records
    MaxRecords    \* bound: records emitted

ASSUME LogAssumption ==
    /\ capacity \in Nat /\ MaxRecords \in Nat
    /\ flushLevel \in Int /\ targetLevel \in Int /\ LogLevels \subseteq Int
    /\ flushOnClose \in BOOLEAN

VARIABLES
    buffer,
    flushMakesList,  \* flush puts a list in the place of the deque
    isDeque,         \* the buffer still is the deque that __init__ made
    closed,
    emitted,         \* how many records there were
    since,           \* those of targetLevel since the last flush
    shown, due       \* what the last flush gave to the target, and what since was then

log_vars == <<buffer, flushMakesList, isDeque, closed, emitted, since, shown, due>>

LogInit ==
    /\ buffer = <<>> /\ since = <<>> /\ shown = <<>> /\ due = <<>>
    /\ isDeque = TRUE /\ flushMakesList \in BOOLEAN
    /\ closed = FALSE
    /\ emitted = 0

Logged(records, record) == IF record.levelno >= targetLevel THEN Append(records, record) ELSE records

\* Mutant: a full buffer takes no more.
Buffered_full(record) ==
    IF isDeque /\ Len(buffer) >= capacity THEN buffer ELSE Logged(buffer, record)

\* deque.append drops the oldest beyond maxlen.
Buffered(record) ==
    LET appended == Logged(buffer, record)
    IN  IF isDeque /\ Len(appended) > capacity THEN Tail(appended) ELSE appended

flush(records, logged) ==
    /\ shown' = records /\ due' = logged
    /\ buffer' = <<>> /\ since' = <<>>
    /\ isDeque' = (isDeque /\ ~flushMakesList)

shouldFlush(record) == record.levelno >= flushLevel

emit ==
    /\ ~closed
    /\ emitted < MaxRecords
    /\ emitted' = emitted + 1
    /\ \E levelno \in LogLevels :
          LET record == [number |-> emitted + 1, levelno |-> levelno]
          IN  IF shouldFlush(record)
              THEN flush(Buffered(record), Logged(since, record))
              ELSE /\ buffer' = Buffered(record)
                   /\ since' = Logged(since, record)
                   /\ UNCHANGED <<isDeque, shown, due>>
    /\ UNCHANGED <<flushMakesList, closed>>

\* logging.shutdown, when the program ends.
close ==
    /\ ~closed
    /\ closed' = TRUE
    /\ IF flushOnClose THEN flush(buffer, since) ELSE UNCHANGED <<buffer, isDeque, since, shown, due>>
    /\ UNCHANGED <<flushMakesList, emitted>>

LogNext == emit \/ close

LogSpec == LogInit /\ [][LogNext]_log_vars

EndOf(part, whole) ==
    /\ Len(part) <= Len(whole)
    /\ \A i \in 1 .. Len(part) : part[i] = whole[Len(whole) - Len(part) + i]

\* A breach shows the records that led to it: the last ones logged since the breach before,
\* each once and in order, the severe one included where targetLevel lets it in; all of
\* them, or at least as many as the capacity.
BreachShowsTheLast ==
    /\ EndOf(shown, due)
    /\ shown = due \/ Len(shown) >= capacity
=============================================================================
