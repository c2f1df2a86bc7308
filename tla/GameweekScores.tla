--------------------------- MODULE GameweekScores ---------------------------
(***************************************************************************)
(* One Gameweek of one league: matches are played in any order, players    *)
(* appear, score and are booked, and at any moment someone may ask for an  *)
(* analysis.  What an analysis says of a state is in Scoring; a report is  *)
(* what was said then, and the properties hold it against what happens     *)
(* afterwards.                                                             *)
(*                                                                         *)
(* Points are small numbers: Low..High stands for the envelope -10..35 of  *)
(* what a player may still add after a report.  Official corrections of a  *)
(* finished match and the official totals of a final event are left out.   *)
(***************************************************************************)
EXTENDS Scoring, Functions

CONSTANTS
    Teams,
    Lineups,         \* of a manager: what he may have picked
    Starts,          \* how far the Gameweek may be when the model starts
    Swings,          \* changes of a player's points by one event
    Points           \* a bound of the model: points a player may have

Kinds == {"unseen", "carded", "played"}

ASSUME EnvelopeAssumption == Low \in Int /\ High \in Int /\ Low <= 0 /\ 0 <= High
ASSUME PlayerAssumption ==
    /\ Position \in [Players -> {"GK", "DEF", "MID", "FWD"}]
    /\ Team \in [Players -> Teams]
    /\ IsFiniteSet(Managers)
    /\ Points \subseteq Int /\ Swings \subseteq Int
ASSUME StartAssumption ==
    \A s \in Starts :
        /\ s.finished \subseteq Fixtures
        /\ s.seen \in [Players -> Kinds] /\ s.points \in [Players -> Int]
        /\ \A p \in Players : s.seen[p] = "unseen" => s.points[p] = 0

\* What FPL accepts at the deadline: two goalkeepers, five defenders, five
\* midfielders and three forwards, the first eleven in a legal formation.
LegalEntry(x) ==
    /\ x.picks \in [1..15 -> Players] /\ IsInjective(x.picks)
    /\ Count(Squad(x), "GK") = 2 /\ Count(Squad(x), "DEF") = 5
    /\ Count(Squad(x), "MID") = 5 /\ Count(Squad(x), "FWD") = 3
    /\ ValidFormation(Starters(x))
    /\ x.captain \in Starters(x) /\ x.vice \in Starters(x) \ {x.captain}
    /\ x.chip \in {"none", "3xc", "bboost"} /\ x.hit \in Nat

ASSUME PickAssumption == \A m \in Managers : \A x \in Lineups[m] : LegalEntry(x)

VARIABLES
    lineup,          \* the picks of each manager, fixed at the deadline
    finished,        \* the matches that are over
    seen,            \* of a player: one of Kinds
    points,          \* the points awarded so far
    report           \* the last analysis

vars == <<lineup, finished, seen, points, report>>

\* The state (models.py: LeagueState) as it is.
Now == [finished |-> finished, seen |-> seen, points |-> points]

Analysis(g) ==
    [bounds |-> [m \in Managers |-> Bounds(g, lineup[m])],
     score |-> [m \in Managers |-> Score(g, lineup[m])],
     weight |-> [m \in Managers |-> RemainingMultipliers(g, lineup[m])],
     conditional |-> {m \in Managers : Conditional(g, lineup[m])},
     unsettled |-> {m \in Managers : Unsettled(g, lineup[m])},
     state |-> g]

Init ==
    /\ lineup \in [Managers -> UNION {Lineups[m] : m \in Managers}]
    /\ \A m \in Managers : lineup[m] \in Lineups[m]
    /\ \E s \in Starts : finished = s.finished /\ seen = s.seen /\ points = s.points
    /\ report = Analysis(Now)

Analyse ==
    /\ report' = Analysis(Now)
    /\ UNCHANGED <<lineup, finished, seen, points>>

\* The envelope that a report is made for, and the bound of the model.
Allowed(p, n) == n - report.state.points[p] \in Low..High /\ n \in Points

Play(p, d) ==
    /\ Unfinished(Now, p) /\ Allowed(p, points[p] + d)
    /\ seen' = [seen EXCEPT ![p] = "played"]
    /\ points' = [points EXCEPT ![p] = @ + d]
    /\ UNCHANGED <<lineup, finished, report>>

\* A booking of one who has no minutes.
Book(p, d) ==
    /\ Unfinished(Now, p) /\ ~Appeared(Now, p) /\ d < 0 /\ Allowed(p, points[p] + d)
    /\ seen' = [seen EXCEPT ![p] = "carded"]
    /\ points' = [points EXCEPT ![p] = @ + d]
    /\ UNCHANGED <<lineup, finished, report>>

Finish(f) ==
    /\ f \notin finished
    /\ finished' = finished \cup {f}
    /\ UNCHANGED <<lineup, seen, points, report>>

Next ==
    \/ Analyse
    \/ \E p \in Players, d \in Swings : Play(p, d) \/ Book(p, d)
    \/ \E f \in Fixtures : Finish(f)

Spec == Init /\ [][Next]_vars

-----------------------------------------------------------------------------
(* Properties                                                              *)

Over == finished = Fixtures
Within(score, bounds) == score \in bounds.lower..bounds.upper
ScoreNow(m) == Score(Now, lineup[m])

(***************************************************************************)
(* The variables have their types, a player without an appearance has no   *)
(* points, and the report says what the code says of the state it names.   *)
(***************************************************************************)
TypeOK ==
    /\ \A m \in Managers : lineup[m] \in Lineups[m]
    /\ finished \subseteq Fixtures
    /\ seen \in [Players -> Kinds]
    /\ points \in [Players -> Int]
    /\ \A p \in Players : seen[p] = "unseen" => points[p] = 0
    /\ report = Analysis(report.state)

\* The official rule for one bench slot: who has appeared comes on for an absent
\* starter if that leaves a legal eleven.  s is the eleven and who is still absent in it.
Offer(x, s, i, available) ==
    LET makes == {p \in s.out : ValidFormation((s.eleven \ {p}) \cup {Pick(x, i)})}
        p == CHOOSE q \in makes : TRUE
    IN  IF i \in available /\ makes # {}
        THEN [eleven |-> (s.eleven \ {p}) \cup {Pick(x, i)}, out |-> s.out \ {p}]
        ELSE s

\* The bench slots in their order.
ByBenchOrder(g, x) ==
    LET available == Available(g, x)
        none == [eleven |-> Starters(x), out |-> Missing(g, x)]
    IN  Offer(x, Offer(x, Offer(x, Offer(x, none, 12, available), 13, available), 14, available),
              15, available).eleven

(***************************************************************************)
(* The search for the most substitutions, earliest slots first, brings on  *)
(* exactly the players that the official rule brings on slot by slot, and  *)
(* leaves a legal eleven (substitutions.py: _outfield_substitution_plan).  *)
(***************************************************************************)
SubstitutesByBenchOrder ==
    \A m \in Managers :
        LET x == lineup[m]
            counted == Counted(Now, x)
        IN  x.chip # "bboost" =>
                /\ ValidFormation(counted)
                /\ {p \in counted \ Starters(x) : Outfield(p)} = ByBenchOrder(Now, x) \ Starters(x)

(***************************************************************************)
(* The bounds of a report enclose every later score, if nobody on the      *)
(* bench could still change confirmed substitutions when it was made       *)
(* (safety.py: conservative_score_bounds).                                 *)
(***************************************************************************)
BoundsHold ==
    \A m \in Managers \ report.unsettled : Within(ScoreNow(m), report.bounds[m])

(***************************************************************************)
(* A manager called safe does not finish last, under the tie rule that was *)
(* asked for (safety.py: assess_safety; scoring.py: last_ids).             *)
(***************************************************************************)
SafeNeverLast ==
    Over /\ report.unsettled = {} =>
        \A ties \in BOOLEAN :
            Safe(report.bounds, ties) \cap LastIds([m \in Managers |-> ScoreNow(m)], ties) = {}

\* What the players whose matches were not over at the report have added since, at its weights.
Added(m) ==
    LET then == report.state
    IN  Total([p \in Players |->
            IF Unfinished(then, p) THEN report.weight[m][p] * (points[p] - then.points[p]) ELSE 0],
            lineup[m])

(***************************************************************************)
(* A comparison without the caveat about pending starters decides the      *)
(* matter: a finishes at (or strictly below) b just if b's remaining       *)
(* points at the multipliers shown exceed a's by what was required         *)
(* (comparison.py: compare_managers).                                      *)
(***************************************************************************)
ComparisonDecides ==
    Over => \A a, b \in Managers \ (report.conditional \cup report.unsettled), ties \in BOOLEAN :
        LET behind == IF ties THEN ScoreNow(a) <= ScoreNow(b) ELSE ScoreNow(a) < ScoreNow(b)
        IN  a # b => (behind <=> Added(b) - Added(a) >= Required(report.score[a] - report.score[b], ties))

\* What an analysis says of the order of the managers comes true: who is safe, and what it
\* takes to finish behind another (safety.py:107, comparison.py:26), with or without ties.
VerdictsHold == SafeNeverLast /\ ComparisonDecides

(***************************************************************************)
(* README.md:131 "Why safe? explains the score bound and the opponent who  *)
(* guarantees safety; already-scored bench/captaincy points are included   *)
(* when they may move": the bounds enclose every later score, always.      *)
(***************************************************************************)
EnvelopeHolds ==
    \A m \in Managers : Within(ScoreNow(m), report.bounds[m])
=============================================================================
