--------------------------- MODULE OutcomeCatalog ---------------------------
(***************************************************************************)
(* What a scenario may say of one player in one unfinished match           *)
(* (scenarios.py), the points it adds (points.py), and which outcomes of   *)
(* several players can happen in the same match.                           *)
(*                                                                         *)
(* The label of an outcome is a set of tags, one for each phrase the code  *)
(* looks for in it; "sheet" is "clean sheet" without "loses".  Costs are   *)
(* in tenths.  Season statistics and injuries, which only move the costs,  *)
(* are left out.                                                           *)
(*                                                                         *)
(* A match is [started, clock, goals], goals of each of its two teams; the *)
(* player's part in it so far is a record like NoStats, the categories an  *)
(* outcome cannot move left out.                                           *)
(***************************************************************************)
EXTENDS Integers, FiniteSets, FiniteSetsExt

NoStats == [minutes |-> 0, clean |-> 0, conceded |-> 0, saves |-> 0, yellow |-> 0, red |-> 0]

ByPosition(gk, def, mid, fwd) ==
    [pos \in {"GK", "DEF", "MID", "FWD"} |->
        CASE pos = "GK" -> gk [] pos = "DEF" -> def [] pos = "MID" -> mid [] pos = "FWD" -> fwd]

GoalPoints == ByPosition(10, 6, 5, 4)
CleanSheetPoints == ByPosition(4, 4, 1, 0)
GoalCost == ByPosition(60, 28, 18, 16)
Defensive(pos) == pos \in {"GK", "DEF"}

\* event_points, of what an outcome adds (goals, assists, ...) to the statistics s.
EventPoints(pos, s, goals, assists, own, missed, saved) ==
    (IF s.minutes >= 60 THEN 2 ELSE IF s.minutes > 0 THEN 1 ELSE 0)
    + GoalPoints[pos] * goals + 3 * assists
    + (IF s.minutes >= 60 THEN CleanSheetPoints[pos] * s.clean ELSE 0)
    - (IF Defensive(pos) THEN s.conceded \div 2 ELSE 0)
    + (IF pos = "GK" THEN s.saves \div 3 ELSE 0)
    + 5 * saved - 2 * missed - s.yellow - 3 * s.red - 2 * own

(***************************************************************************)
(* The vocabulary.  An entry has its tags, the minutes added, the cost,    *)
(* the least goals of the player's team and of the opponent from now on,   *)
(* and the most that the opponent may have in the end.                     *)
(***************************************************************************)
NoLimit == 99                \* no limit on the opponent's goals

E(tags, minutes, cost, own, opp, max) ==
    [tags |-> tags, minutes |-> minutes, cost |-> cost, own |-> own, opp |-> opp, max |-> max]
Plain(tags, cost, own, opp) == E(tags, 60, cost, own, opp, NoLimit)
Clean(tags, cost, own) == E(tags \cup {"sheet"}, 60, cost, own, 0, 0)

Bench(pos) == {E({"brief"}, 1, IF Defensive(pos) THEN 9 ELSE 8, 0, 0, NoLimit),
               E({"absent"}, 0, 13, 0, 0, NoLimit)}

OfDefenders(pos) ==
    {Plain({"baseline"}, 0, 0, 1), Clean({}, 11, 0), Plain({"assist"}, 18, 1, 1),
     Plain({"goal"}, GoalCost[pos], 1, 1), Clean({"goal"}, GoalCost[pos] + 11, 1),
     Plain({"goal", "assist"}, GoalCost[pos] + 17, 2, 1), Plain({"red"}, 35, 0, 1),
     Plain({"concedes"}, 10, 0, 2), Plain({"concedes"}, 16, 0, 3), Clean({"assist"}, 29, 1),
     Plain({"two assists"}, 42, 2, 1), Plain({"miss"}, 40, 0, 1)}
    \cup (IF pos = "DEF" THEN {Plain({"brace"}, 62, 2, 1)}
          ELSE {Plain({"save"}, 40, 0, 1), Clean({"save"}, 51, 0)})

AttacksOf(pos) ==
    IF pos = "MID"
    THEN {[tags |-> {"assist"}, cost |-> 15, own |-> 1], [tags |-> {"goal"}, cost |-> 18, own |-> 1],
          [tags |-> {"goal", "assist"}, cost |-> 31, own |-> 2],
          [tags |-> {"two assists"}, cost |-> 34, own |-> 2],
          [tags |-> {"brace"}, cost |-> 42, own |-> 2], [tags |-> {"hat-trick"}, cost |-> 72, own |-> 3]}
    ELSE {[tags |-> {"assist"}, cost |-> 15, own |-> 1], [tags |-> {"goal"}, cost |-> 16, own |-> 1],
          [tags |-> {"goal", "assist"}, cost |-> 29, own |-> 2],
          [tags |-> {"two assists"}, cost |-> 33, own |-> 2],
          [tags |-> {"brace"}, cost |-> 38, own |-> 2], [tags |-> {"hat-trick"}, cost |-> 65, own |-> 3]}

\* A midfielder's return comes with a goal against, or with a clean sheet.
OfMidfielders ==
    {Plain({"baseline"}, 0, 0, 1), Clean({}, 10, 0), Plain({"miss"}, 30, 0, 1), Plain({"red"}, 35, 0, 1),
     E({"red"}, 1, 36, 0, 0, NoLimit), E({"assist", "miss"}, 1, 48, 1, 0, NoLimit)}
    \cup {Plain(a.tags, a.cost, a.own, 1) : a \in AttacksOf("MID")}
    \cup {Clean(a.tags, a.cost + 10, a.own) : a \in AttacksOf("MID")}

OfForwards ==
    {Plain({"baseline"}, 0, 0, 0), Plain({"miss"}, 30, 0, 0), Plain({"red"}, 35, 0, 0)}
    \cup {Plain(a.tags, a.cost, a.own, 0) : a \in AttacksOf("FWD")}

Pregame(pos) ==
    LET against == IF pos = "FWD" THEN 0 ELSE 1 IN
    Bench(pos)
    \cup {Plain({"booked"}, 8, 0, against), Plain({"own goal"}, 42, 0, 1)}
    \cup (IF pos = "FWD" THEN {} ELSE {Clean({"booked"}, 19, 0)})
    \cup (IF Defensive(pos) THEN {} ELSE {Plain({"brace", "assist"}, 58, 3, against)})
    \cup CASE Defensive(pos) -> OfDefenders(pos)
           [] pos = "MID" -> OfMidfielders
           [] pos = "FWD" -> OfForwards

\* A player without minutes in a match that has started is not thought to reach 60.
Entering(pos) ==
    {E({"absent", "baseline"}, 0, 0, 0, 0, NoLimit), E({"on"}, 1, 7, 0, 0, NoLimit),
     E({"on", "assist"}, 1, 18, 1, 0, NoLimit), E({"on", "goal"}, 1, GoalCost[pos] + 5, 1, 0, NoLimit),
     E({"on", "red"}, 1, 35, 0, 0, NoLimit)}
    \cup (IF pos = "GK" THEN {E({"on", "save"}, 1, 45, 0, 0, NoLimit)} ELSE {})

\* A player on the pitch: the rest of his match, with the clean sheet kept or lost.
Playing(pos, minutes, against) ==
    LET clean == against = 0 /\ CleanSheetPoints[pos] # 0
        max == IF clean THEN 0 ELSE NoLimit
        left == IF minutes < 60 THEN 60 - minutes ELSE 0
        Live(tags, cost, own) == E(tags, left, cost, own, 0, max)
        attacks == {Live({"assist"}, 14, 1), Live({"goal"}, GoalCost[pos], 1),
                    Live({"goal", "assist"}, GoalCost[pos] + 15, 2),
                    Live({"two assists"}, 33, 2), Live({"brace"}, 2 * GoalCost[pos] + 5, 2)}
    IN attacks
       \cup {Live({"baseline"} \cup (IF clean THEN {"sheet"} ELSE {}), 0, 0),
             Live({"booked", "sheet"}, 8, 0), Live({"miss"}, 30, 0),
             E({"red"}, 0, 34, 0, 0, max), E({"own goal"}, left, 42, 0, 1, NoLimit)}
       \cup (IF clean THEN {E({"loses"}, left, 9, 0, 1, NoLimit)}
                           \cup {[a EXCEPT !.tags = @ \cup {"loses"}, !.max = NoLimit, !.opp = 1,
                                           !.cost = @ + 9] : a \in attacks}
             ELSE {})
       \cup (IF minutes < 60 THEN {E({"leaves"}, 0, 8, 0, 0, NoLimit)} ELSE {})
       \cup (IF minutes < 60 /\ pos = "MID" THEN {E({"assist", "miss", "leaves"}, 0, 48, 1, 0, NoLimit)} ELSE {})
       \cup (IF Defensive(pos) THEN {} ELSE {Live({"hat-trick"}, 75, 3)})
       \cup (IF pos = "GK" THEN {Live({"save"}, 40, 0)} ELSE {})

\* A defensive outcome assumes no goal against that it does not mention, but for
\* a return that comes with the loss of the clean sheet.
Limited(e, pos, match, against) ==
    IF Defensive(pos) /\ e.max = NoLimit /\ ("loses" \in e.tags => e.own = 0)
       /\ (e.minutes >= 60 \/ (match.started /\ e.tags \cap {"absent", "on"} = {}))
    THEN [e EXCEPT !.max = against + e.opp] ELSE e

Goals(e) == IF "hat-trick" \in e.tags THEN 3 ELSE IF "brace" \in e.tags THEN 2
            ELSE IF "goal" \in e.tags THEN 1 ELSE 0
Assists(e) == IF "two assists" \in e.tags THEN 2 ELSE IF "assist" \in e.tags THEN 1 ELSE 0
Has(e, tag) == IF tag \in e.tags THEN 1 ELSE 0

\* Whatever is too long for the rest of the match is cut short to it.
Fitting(values, minutes, remaining) ==
    {e \in {IF e.minutes > remaining /\ minutes > 0
            THEN [e EXCEPT !.minutes = remaining,
                           !.tags = IF "baseline" \in @ THEN @ \ {"sheet"} ELSE @]
            ELSE e : e \in values} :
        e.minutes <= remaining /\ (remaining > 0 \/ Goals(e) + Assists(e) = 0)}

\* No minutes, goals or assists after a red card, and no second booking.
Possible(e, s) ==
    /\ s.red = 0 \/ (Goals(e) = 0 /\ Assists(e) = 0 /\ e.minutes = 0)
    /\ s.yellow = 0 \/ "booked" \notin e.tags

\* The statistics after the outcome, but for the goals and the like.
After(e, s) ==
    LET minutes == s.minutes + e.minutes
        conceded == s.conceded + e.opp
    IN [minutes |-> minutes, conceded |-> conceded,
        clean |-> IF minutes >= 60 /\ (e.max = 0 \/ (s.minutes > 0 /\ conceded = 0 /\ "sheet" \in e.tags))
                  THEN 1 ELSE 0,
        saves |-> s.saves + Has(e, "save"),
        yellow |-> s.yellow + Has(e, "booked"), red |-> IF "red" \in e.tags THEN 1 ELSE s.red]

\* The points an outcome adds: the new score less the one already awarded.
Delta(e, pos, s) ==
    EventPoints(pos, After(e, s), Goals(e), Assists(e), Has(e, "own goal"), Has(e, "miss"), Has(e, "save"))
    - EventPoints(pos, s, 0, 0, 0, 0, 0)

\* A clean sheet, or its loss, is one event for all the defenders of a team.
Shared(e, match) ==
    IF ~match.started /\ e.max = 0 THEN "clean" ELSE IF "loses" \in e.tags THEN "loss" ELSE "none"

SharedCost(e, pos, match) ==
    CASE Shared(e, match) = "clean" -> Min({e.cost, IF pos = "MID" THEN 10 ELSE 11})
      [] Shared(e, match) = "loss" -> Min({e.cost, 9})
      [] OTHER -> 0

Outcome(e, pos, match, s) ==
    [tags |-> e.tags \ {"baseline"}, baseline |-> "baseline" \in e.tags,
     points |-> Delta(e, pos, s), minutes |-> e.minutes, cost |-> e.cost,
     own |-> e.own, opp |-> e.opp, max |-> e.max, goals |-> Goals(e), assists |-> Assists(e),
     ownGoals |-> Has(e, "own goal"), shared |-> Shared(e, match),
     sharedCost |-> SharedCost(e, pos, match)]

OffPitch == E({"baseline", "off"}, 0, 0, 0, 0, NoLimit)

\* outcome_catalog, with the checks of its caller on the minutes left and on the baseline.
WithBaseline(values) ==
    IF \E e \in values : "baseline" \in e.tags THEN values
    ELSE {IF e.tags = {"leaves"} THEN [e EXCEPT !.tags = @ \cup {"baseline"}, !.cost = 0] ELSE e : e \in values}

Vocabulary(pos, match, against, s) ==
    LET remaining == IF match.clock < 90 THEN 90 - match.clock ELSE 0
        off == 0 < s.minutes /\ s.minutes < match.clock - 2 /\ s.red = 0
        raw == IF ~match.started THEN Pregame(pos)
               ELSE IF s.minutes = 0 THEN Entering(pos) ELSE Playing(pos, s.minutes, against)
        limited == {Limited(e, pos, match, against) : e \in raw}
    IN IF ~match.started THEN limited
       ELSE IF off THEN {OffPitch}
       ELSE WithBaseline({e \in Fitting(limited, s.minutes, remaining) : Possible(e, s)})

\* Nothing is added or taken away from who has left the pitch.
Catalog(pos, match, against, s) ==
    {[Outcome(e, pos, match, s) EXCEPT !.points = IF "off" \in e.tags THEN 0 ELSE @] :
        e \in Vocabulary(pos, match, against, s)}

(***************************************************************************)
(* Outcomes of several players, as [player's team, opponent, match, goals  *)
(* of both so far, outcome] records: football_consistent.                  *)
(***************************************************************************)
SumOf(stories, Value(_)) == MapThenSumSet(Value, stories)

Credited(stories, team) ==
    SumOf({x \in stories : <<x.match, x.team>> = team}, LAMBDA x : x.outcome.goals)
    + SumOf({x \in stories : <<x.match, x.opponent>> = team}, LAMBDA x : x.outcome.ownGoals)

CreditedAssists(stories, team) ==
    SumOf({x \in stories : <<x.match, x.team>> = team}, LAMBDA x : x.outcome.assists)

\* Goals that a team must have in the end.
Minimum(stories, team) ==
    Max({x.goals[x.team] + x.outcome.own : x \in {y \in stories : <<y.match, y.team>> = team}}
        \cup {x.goals[x.opponent] + x.outcome.opp : x \in {y \in stories : <<y.match, y.opponent>> = team}}
        \cup {x.goals[team[2]] + Max({Credited(stories, team), CreditedAssists(stories, team)}) :
                 x \in {y \in stories : team \in {<<y.match, y.team>>, <<y.match, y.opponent>>}}})

Consistent(stories) ==
    \A x \in stories : x.outcome.max = NoLimit \/ Minimum(stories, <<x.match, x.opponent>>) <= x.outcome.max
=============================================================================
