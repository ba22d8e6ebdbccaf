------------------------- MODULE MCIncidentAnalyzer -------------------------
(***************************************************************************)
(* One notification with alerts of every kind, two of them to be recorded, *)
(* and one with nothing to record; a second handler takes a retry, or a    *)
(* risk score.                                                             *)
(***************************************************************************)
EXTENDS IncidentAnalyzer, TLC

CONSTANTS group, quiet

MCNotifs == {group, quiet}
MCPayload == group :> <<"firing", "health", "resolved", "firing">>
          @@ quiet :> <<"resolved", "health">>
MCPlans == { {"crash", "timeout"}, {"crash", "tear", "full"} }
=============================================================================
