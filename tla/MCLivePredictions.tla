------------------------- MODULE MCLivePredictions -------------------------
(* Two Gameweeks; the first closes at 2, the second at 3. *)
EXTENDS LivePredictions

Closing == [g \in Gameweeks |-> g + 1]
Both == {"build", "other"}
=============================================================================
