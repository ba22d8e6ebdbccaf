----------------------------- MODULE ChunkBook ------------------------------
(***************************************************************************)
(* What the chunk ledger promises (tests/collect_chunked.py, lines 7-31):  *)
(* chunks are opened one at a time, and each is closed with one verdict,   *)
(* which never changes.                                                    *)
(***************************************************************************)
EXTENDS Naturals

CONSTANTS Chunks, Statuses

VARIABLE book

Init == book = [c \in Chunks |-> "none"]

Open(c) ==
    /\ \A d \in Chunks : d >= c => book[d] = "none"
    /\ \A d \in Chunks : book[d] # "open"
    /\ book' = [book EXCEPT ![c] = "open"]

Close(c) ==
    /\ book[c] = "open"
    /\ \E s \in Statuses : book' = [book EXCEPT ![c] = s]

Next == \E c \in Chunks : Open(c) \/ Close(c)

Spec == Init /\ [][Next]_book
=============================================================================
