------------------------------ MODULE LineFile ------------------------------
(***************************************************************************)
(* An append-only file of JSON lines, as its bytes matter: a sequence of   *)
(* lines, each a record or Torn (text no JSON parser accepts), the last    *)
(* one possibly without its newline.  Both programs that keep such a file  *)
(* write open(path, "a").write(json + "\n") and skip lines they cannot     *)
(* parse: tests/collect_chunked.py its ledger, incident-analyzer its       *)
(* evidence.                                                               *)
(***************************************************************************)
EXTENDS Naturals, Sequences

CONSTANT Torn   \* a line no reader can parse

EmptyFile == [lines |-> << >>, open |-> FALSE]

\* The text lands after whatever the file ends with.  After a line without
\* newline it is glued to it, and readers then skip the whole line.
Put(f, line, open) ==
    [lines |-> IF f.open
               THEN [f.lines EXCEPT ![Len(f.lines)] = Torn]
               ELSE Append(f.lines, line),
     open  |-> open]

AppendRec(f, r) == Put(f, r, FALSE)

\* What a writer that dies or fails inside the write may leave: all of the
\* record but its newline, or a part of it.
Damaged(f, r) == {Put(f, r, TRUE), Put(f, Torn, TRUE)}

\* The lines a reader keeps.
Readable(f) == { i \in DOMAIN f.lines : f.lines[i] # Torn }
=============================================================================
