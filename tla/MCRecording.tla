---------------------------- MODULE MCRecording ----------------------------
(***************************************************************************)
(* The two records of what was forecast.  The recorder of predictions: one  *)
(* Gameweek, two forecast stages; the final stage closes MinLead before     *)
(* the deadline, so a capture that takes long meets the publication margin. *)
(* The risk history: two leagues, one of them with two series.  They do     *)
(* not touch, so a behaviour is of one of them.                            *)
(***************************************************************************)
EXTENDS Recording, RiskHistory

VARIABLE part    \* which of the two this behaviour is of

TwoStages == {"update", "final"}
StageOpens  == [s \in TwoStages |-> IF s = "update" THEN 4 ELSE 3]
StageCloses == [s \in TwoStages |-> IF s = "update" THEN 3 ELSE 2]
StageRank   == [s \in TwoStages |-> IF s = "update" THEN 1 ELSE 0]
Announced   == [g \in Gameweeks |-> 3 + g]

RiskOutlooks == {[group |-> "g", series |-> "x"], [group |-> "g", series |-> "y"], [group |-> "h", series |-> "x"]}

RecordsInit == part \in {"recorder", "history"} /\ Init /\ RiskInit

RecordsNext ==
    \/ part = "recorder" /\ Next /\ UNCHANGED <<part, riskVars>>
    \/ part = "history" /\ RiskNext /\ UNCHANGED <<part, vars>>

RecordsSpec == RecordsInit /\ [][RecordsNext]_<<part, vars, riskVars>>
=============================================================================
