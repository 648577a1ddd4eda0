---------------------------- MODULE ClientClaims ----------------------------
(***************************************************************************)
(* What the comments, docstrings and changelog of naz say of the session   *)
(* core, stated over Client.  Each of these is refuted by a run.           *)
(***************************************************************************)
EXTENDS Client

\* re_establish_conn_bind: "the only reason this method is called is because connection
\* has closed" (naz/client.py:1328).
OnlyCalledWhenConnectionClosed ==
    \A t \in Tasks : In(t, "reest") => writer = NoConn \/ Closing(writer)

\* send_data: "do not raise, we do not want naz-cli to exit" (naz/client.py:1469): no
\* coroutine under asyncio.gather ends by an exception for want of a writer.
\* The drain lock of Client is not first come first served and a loaded connection stays
\* loaded, so that two coroutines are enough to get here.  asyncio serves the waiters of a
\* lock in turn, and there it takes a third that waits in front.
NoCrashWithoutWriter == \A t \in Gathered : pc[t] = "crashed" => writer # NoConn

\* send_data: only the bind commands "are allowed by SMPP spec to be sent" while the
\* session is OPEN (naz/client.py:1452): no message of the application goes out then.
NoMessageWhileOpen ==
    [][written' # written => current_session_state = "BOUND_TRX"]_vars

\* "Bugfix - RuntimeError: Cannot call `write()` after `write_eof()`" (CHANGELOG.md:13): no
\* coroutine comes to writer.write on a connection whose eof is written.
NeverWritesAfterEof == \A t \in Tasks : In(t, "write") => writer \notin finSent

\* shutdown: "Cleanly shutdown this client" (naz/client.py:2317): the coroutines end.
ShutdownEndsProgram == SHOULD_SHUT_DOWN ~> ProgramOver
=============================================================================
