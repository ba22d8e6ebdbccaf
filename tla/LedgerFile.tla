----------------------------- MODULE LedgerFile -----------------------------
(***************************************************************************)
(* The ledger of tests/collect_chunked.py: what its lines hold and how     *)
(* they are read.                                                          *)
(*                                                                         *)
(* Chunk identifiers carry a time stamp, so they are never reused and sort *)
(* by t_start: they are the numbers 1 .. MaxChunks.  Lines other programs  *)
(* put in a shared ledger have no chunk_id, are filtered by every reader   *)
(* and left out.                                                           *)
(***************************************************************************)
EXTENDS LineFile, FiniteSets, FiniteSetsExt

CONSTANT MaxChunks   \* bound: chunks opened in a behaviour

ASSUME MaxChunksAssumption == MaxChunks \in Nat

Chunks == 1 .. MaxChunks

Statuses == {"valid", "gap", "aborted", "low_quality"}

StartRec(c) == [event |-> "start", chunk |-> c]
EndRec(c, status, t_end, hours) ==
    [event |-> "end", chunk |-> c, status |-> status,
     t_end |-> t_end, hours |-> hours]
ExportRec(c) == [event |-> "export", chunk |-> c]

Record == { StartRec(c) : c \in Chunks }
             \cup { ExportRec(c) : c \in Chunks }
             \cup [event : {"end"}, chunk : Chunks, status : Statuses,
                   t_end : Nat, hours : Nat]

ASSUME TornAssumption == Torn \notin Record

File == [lines : Seq(Record \cup {Torn}), open : BOOLEAN]

-----------------------------------------------------------------------------
(* Reading: records(), chunks(), valid_hours().  Records of one chunk are  *)
(* merged in file order, a later one overriding the fields it has; only    *)
(* "end" records carry status, t_end and hours.                            *)

At(f, c) == { i \in Readable(f) : f.lines[i].chunk = c }

EndsAt(f, c) == { i \in At(f, c) : f.lines[i].event = "end" }

Known(f) == { c \in Chunks : At(f, c) # {} }

Closed(f) == { c \in Chunks : EndsAt(f, c) # {} }

Orphans(f) == Known(f) \ Closed(f)

LastEnd(f, c) == f.lines[Max(EndsAt(f, c))]

ValidChunks(f) == { c \in Closed(f) : LastEnd(f, c).status = "valid" }

ValidHours(f) == MapThenSumSet(LAMBDA c : LastEnd(f, c).hours, ValidChunks(f))
=============================================================================
