------------------------------ MODULE Scoring -------------------------------
(***************************************************************************)
(* What the state of a Gameweek says of a manager: his effective squad     *)
(* (substitutions.py), his score (scoring.py), the bounds of his final     *)
(* score (safety.py) and how he compares with another (comparison.py).     *)
(*                                                                         *)
(* As in the code these are functions of a state and of a manager's picks. *)
(* A state g is [finished, seen, points]: the matches that are over, of    *)
(* each player whether he is "unseen", "carded" (without minutes) or has   *)
(* "played", and his points.  An entry x is [picks, captain, vice, chip,   *)
(* hit], its picks in squad order.                                         *)
(***************************************************************************)
EXTENDS Integers, FiniteSets

CONSTANTS
    Players, Managers,
    Position,        \* of a player: "GK", "DEF", "MID" or "FWD"
    Team,            \* of a player
    Fixtures,        \* the Gameweek's matches, each the set of its two teams
    Low, High        \* a player's remaining points

-----------------------------------------------------------------------------
(* Substitutions and captaincy                                             *)

Complete(g, t) == \A f \in Fixtures : t \in f => f \in g.finished
Unfinished(g, p) == ~Complete(g, Team[p])

Appeared(g, p) == g.seen[p] # "unseen"
ConfirmedAbsent(g, p) == ~Appeared(g, p) /\ ~Unfinished(g, p)

Pick(x, i) == x.picks[i]
Squad(x) == {Pick(x, i) : i \in 1..15}
Starters(x) == {Pick(x, i) : i \in 1..11}
BenchSlots == 12..15
Outfield(p) == Position[p] # "GK"

Count(xi, pos) == Cardinality({p \in xi : Position[p] = pos})
ValidFormation(xi) ==
    /\ Count(xi, "GK") = 1
    /\ Count(xi, "DEF") \in 3..5
    /\ Count(xi, "MID") \in 2..5
    /\ Count(xi, "FWD") \in 1..3

Missing(g, x) == {p \in Starters(x) : Outfield(p) /\ ConfirmedAbsent(g, p)}
Available(g, x) == {i \in BenchSlots : Outfield(Pick(x, i)) /\ Appeared(g, Pick(x, i))}

\* The eleven after the bench slots `in` have replaced the starters `out`.
Eleven(x, in, out) == (Starters(x) \ out) \cup {Pick(x, i) : i \in in}

Plans(g, x) ==
    {plan \in (SUBSET Available(g, x)) \X (SUBSET Missing(g, x)) :
        /\ Cardinality(plan[1]) = Cardinality(plan[2])
        /\ ValidFormation(Eleven(x, plan[1], plan[2]))}

Lowest(S) == CHOOSE i \in S : \A j \in S : i <= j

\* Mutant: the slots compared without the minus sign.
PreferredLater(a, b) ==
    \/ a = b
    \/ Cardinality(a) > Cardinality(b)
    \/ Cardinality(a) = Cardinality(b) /\ Lowest((a \cup b) \ (a \cap b)) \in b

\* More substitutions first, then the earlier bench slots.
Preferred(a, b) ==
    \/ a = b
    \/ Cardinality(a) > Cardinality(b)
    \/ Cardinality(a) = Cardinality(b) /\ Lowest((a \cup b) \ (a \cap b)) \in a

SubstitutionPlan(g, x) ==
    LET plans == Plans(g, x)
    IN  CHOOSE plan \in plans : \A other \in plans : Preferred(plan[1], other[1])

\* The goalkeepers are exchanged apart from the others.
Goalkeeper(g, x) ==
    LET first == CHOOSE p \in Starters(x) : ~Outfield(p)
        second == CHOOSE p \in Squad(x) \ Starters(x) : ~Outfield(p)
    IN  IF ConfirmedAbsent(g, first) /\ Appeared(g, second) THEN second ELSE first

\* The players whose points count.
Counted(g, x) ==
    IF x.chip = "bboost" THEN Squad(x)
    ELSE LET plan == SubstitutionPlan(g, x)
         IN  {p \in Eleven(x, plan[1], plan[2]) : Outfield(p)} \cup {Goalkeeper(g, x)}

CaptainMultiplier(x) == IF x.chip = "3xc" THEN 3 ELSE 2

TakesOver(g, x) ==
    /\ g.seen[x.captain] # "played" /\ ~Unfinished(g, x.captain)
    /\ g.seen[x.vice] = "played"

Doubled(g, x) ==
    IF g.seen[x.captain] = "played" THEN {x.captain}
    ELSE IF TakesOver(g, x) THEN {x.vice} ELSE {}

\* effective_multipliers: of every player, 0 for those not in the squad.
Multipliers(g, x) ==
    LET counted == Counted(g, x)
        doubled == Doubled(g, x)
    IN  [p \in Players |->
            IF p \notin counted THEN 0 ELSE IF p \in doubled THEN CaptainMultiplier(x) ELSE 1]

Total(f, x) ==
    LET sum[i \in 0..15] == IF i = 0 THEN 0 ELSE sum[i - 1] + f[Pick(x, i)]
    IN  sum[15]

Score(g, x) ==
    LET weight == Multipliers(g, x)
    IN  Total([p \in Players |-> weight[p] * g.points[p]], x) - x.hit

-----------------------------------------------------------------------------
(* Safety bounds                                                           *)

\* A starter who may still play, or a captain who may still get minutes.
Pending(g, x) ==
    \E p \in Starters(x) :
        /\ ~Appeared(g, p) \/ (p = x.captain /\ g.seen[p] # "played")
        /\ Unfinished(g, p)

Armband(x) == {x.captain, x.vice}
MaximumMultiplier(x, p) == IF p \in Armband(x) THEN CaptainMultiplier(x) ELSE 1

\* Mutant: only the armband moves points already scored.
MovableCaptaincy(g, x) == IF Pending(g, x) THEN Armband(x) ELSE {}

\* Whose points, already scored, an absence may add or take away.
Movable(g, x) == IF Pending(g, x) THEN Armband(x) \cup (Squad(x) \ Starters(x)) ELSE {}

\* The changes of the score that moving them can make: none, losing them,
\* or counting them at the most.
Moves(g, x) ==
    LET current == Multipliers(g, x)
        movable == Movable(g, x)
    IN  [p \in Players |->
            IF p \in movable
            THEN {0, -current[p] * g.points[p], (MaximumMultiplier(x, p) - current[p]) * g.points[p]}
            ELSE {0}]

Greatest(S) == CHOOSE a \in S : \A b \in S : b <= a

Swing(g, x, envelope) ==
    Total([p \in Players |->
        IF Unfinished(g, p) THEN envelope * MaximumMultiplier(x, p) ELSE 0], x)

Bounds(g, x) ==
    LET moves == Moves(g, x)
        score == Score(g, x)
    IN  [lower |-> score + Swing(g, x, Low) + Total([p \in Players |-> Lowest(moves[p])], x),
         upper |-> score + Swing(g, x, High) + Total([p \in Players |-> Greatest(moves[p])], x)]

\* Mutant: a tie is taken for a guarantee under either rule.
BelowOrTied(upper, lower, ties) == upper <= lower

\* Whether an opponent bounded by upper ends below a manager bounded by lower.
Below(upper, lower, ties) == IF ties THEN upper < lower ELSE upper <= lower

\* Who is safe by these bounds.
Safe(bounds, ties) ==
    {m \in Managers : \E other \in Managers \ {m} :
        Below(bounds[other].upper, bounds[m].lower, ties)}

LastIds(score, ties) ==
    LET tied == {m \in Managers : \A x \in Managers : score[m] <= score[x]}
    IN  IF ties \/ Cardinality(tied) = 1 THEN tied ELSE {}

\* A confirmed substitution that somebody else on the bench may still take.
SubstituteOpen(g, x) ==
    /\ x.chip # "bboost"
    /\ \E p \in Starters(x), q \in Squad(x) \ Starters(x) :
          /\ Outfield(p) = Outfield(q)
          /\ ConfirmedAbsent(g, p) /\ ~Appeared(g, q) /\ Unfinished(g, q)

\* An armband that may still pass to a vice-captain booked without minutes.
ArmbandOpen(g, x) == g.seen[x.vice] = "carded" /\ Unfinished(g, x.vice)

\* Managers of whom Pending may say no although points already scored can move.
Unsettled(g, x) == ~Pending(g, x) /\ (SubstituteOpen(g, x) \/ ArmbandOpen(g, x))

-----------------------------------------------------------------------------
(* Comparison                                                              *)

\* The multipliers that the remaining points will have: a captain who has yet
\* to play counts as one already.
RemainingMultipliers(g, x) ==
    [Multipliers(g, x) EXCEPT
        ![x.captain] = IF @ > 0 /\ g.seen[x.captain] # "played" /\ Unfinished(g, x.captain)
                       THEN CaptainMultiplier(x) ELSE @]

\* Managers of whom the comparison says "assumes the pending starters play".
Conditional(g, x) == \E p \in Starters(x) : g.seen[p] # "played" /\ Unfinished(g, p)

\* Mutant: a tie is enough although only a sole last place counts.
RequiredForTie(gap, ties) == gap

\* What b must add more than a for a to finish at, or strictly below, b.
Required(gap, ties) == gap + (IF ties THEN 0 ELSE 1)
=============================================================================
