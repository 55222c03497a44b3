------------------------------ MODULE MCAlerts ------------------------------
(* An issue created in one project and one that regresses in another. *)
EXTENDS Alerts, TLC

CONSTANTS i1, i2, p1, p2

MCKind == i1 :> "created" @@ i2 :> "regressed"
MCOf   == i1 :> p1 @@ i2 :> p2
=============================================================================
