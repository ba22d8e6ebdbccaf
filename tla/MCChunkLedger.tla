--------------------------- MODULE MCChunkLedger ----------------------------
(***************************************************************************)
(* Small instances of ChunkLedger for TLC.                                 *)
(***************************************************************************)
EXTENDS ChunkLedger

MCPlans == { {"kill", "signal"}, {"kill", "tear", "signal", "report"} }
MCTears == { {"kill", "tear"} }
MCSignals == { {"signal"} }
=============================================================================
