----------------------------- MODULE MCLeaguePage -----------------------------
(* LeaguePage with interchangeable managers and conditions.                *)
EXTENDS LeaguePage, TLC

\* The address names a league, with or without its season, or nothing.
MCLinks ==
    {[ask |-> [league |-> NoLeague, gameweek |-> "now", rule |-> "include"], view |-> "overview"]}
    \cup {[ask |-> [league |-> l, gameweek |-> "now", rule |-> "include"], view |-> v] :
           l \in Leagues, v \in {"overview", "analytics"}}

PageSymmetry == Permutations(Managers)
=============================================================================
