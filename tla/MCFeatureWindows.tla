-------------------------- MODULE MCFeatureWindows --------------------------
(* Two chunks of five seconds, three lines: an attacker seen through a token, *)
(* through a cookie whose session the BFF may or may not name, and through a  *)
(* trace id; a run that lasts across the border of the chunks.                *)
EXTENDS ShadowScore, BolaDataset

Kind(stream, user, via, sid, tid, obj, pair, signs) ==
    [stream |-> stream, user |-> user, via |-> via, sid |-> sid, tid |-> tid,
     svc |-> "gw", obj |-> obj, pair |-> pair, signs |-> signs]

MCKinds ==
    {Kind("opa", "mal", "jwt", NoOne, "t1", "own", "p1", {"location", "deny"}),
     Kind("opa", "mal", "jwt", NoOne, "t1", "vic", "p1", {"location"}),
     Kind("opa", "mal", "cookie", "s1", "t2", "vic", "p2", {"location"}),
     Kind("envoy", "mal", "none", NoOne, "t2", "vic", NoOne, {"location", "deny"}),
     Kind("bff", "mal", "none", "s1", NoOne, NoOne, NoOne, {})}

Run(id, class, scenario, t0, t1, victims) ==
    [id |-> id, class |-> class, scenario |-> scenario, entity |-> "mal", t0 |-> t0, t1 |-> t1,
     victims |-> victims]

MCRuns ==
    {Run("R1", "attack", "bola", 3, 7, {"vic"}),
     Run("R2", "attack", "bola", 1, 1, {}),
     Run("R3", "attack", "access_denied_spike", 8, 8, {}),
     Run("R4", "benign_noise", "bola", 9, 10, {})}
=============================================================================
