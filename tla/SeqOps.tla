-------------------------------- MODULE SeqOps -------------------------------
(***************************************************************************)
(* The two operators on sequences that the codec, the PDUs and the tables   *)
(* use, with the names and the meaning they have in SequencesExt.  They are *)
(* here because SequencesExt extends Bags, and with Bags in the context     *)
(* tlapm takes ten times as long over every obligation.                     *)
(***************************************************************************)
EXTENDS Integers, Sequences, FiniteSetsExt, Functions

\* The sequences put together: bytes.join.
FlattenSeq(seqs) ==
    IF Len(seqs) = 0 THEN <<>>
    ELSE LET joined[i \in 1 .. Len(seqs)] == IF i = 1 THEN seqs[i] ELSE joined[i - 1] \o seqs[i]
         IN  joined[Len(seqs)]

\* The place of the first element that passes the test, 0 if none does: bytes.index.
SelectInSeq(s, Test(_)) ==
    LET passing == {i \in 1 .. Len(s) : Test(s[i])}
    IN  IF passing = {} THEN 0 ELSE Min(passing)
=============================================================================
