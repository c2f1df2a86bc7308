------------------------- MODULE MCAnalysisService -------------------------
(* A small instance of AnalysisService: every lock stripe collides. *)
EXTENDS AnalysisService, TLC

OneStripe == {"s"}
CollidingFetch == [l \in Leagues |-> "s"]
CollidingAnalysis == [k \in (0..MaxGen) \X Variants |-> "s"]
CollidingOutlook == [k \in (0..MaxGen) \X Cond |-> "s"]
Symmetry == Permutations(Clients) \cup Permutations(Leagues)
=============================================================================
