----------------------------- MODULE RouteSearch -----------------------------
(***************************************************************************)
(* The search for ways in which a manager can still finish last            *)
(* (solver.py), and what the analysis says when it ends (analysis.py).     *)
(*                                                                         *)
(* Every unfinished match of an owned player is a slot with its outcomes   *)
(* (OutcomeCatalog).  Who appears decides the multipliers, so that there   *)
(* is a plan for each set of players who appear, and the scores are linear *)
(* in a plan.  The plans are searched best-first, a node fixing the        *)
(* outcomes of the slots that matter; the other slots are completed to     *)
(* something that can happen in football.                                  *)
(*                                                                         *)
(* A league is a Gameweek at the moment of the question.  Which slots get  *)
(* all their outcomes when there are too many is chosen freely (the code   *)
(* ranks them by exposure), and so is where the budget of nodes runs out.  *)
(* Costs of nodes are in tenths, of routes in hundredths.                  *)
(***************************************************************************)
EXTENDS OutcomeCatalog, SequencesExt

CONSTANTS
    Players, Teams, Managers, Position, Team, Fixtures, Lineups, Low, High,
                     \* as in Scoring and GameweekScores
    Leagues,         \* [lineup, finished, seen, points, stats, match]
    Limits,          \* how many examples may be asked for
    Breadths,        \* how many slots may get all their outcomes
    MaxLineups,      \* plans
    MaxCuts          \* a bound of the model: completions that are given up

VARIABLES
    league, candidate, ties, limit,      \* the question
    focus,           \* the slots with all their outcomes
    plans,           \* a sequence
    allPlans,        \* nothing has been left out so far
    heap, reached,   \* nodes to visit, nodes ever put on the heap
    results,         \* routes found, one for each signature
    cuts, phase      \* "asked", "searching" or "ended"

vars == <<league, candidate, ties, limit, focus, plans, allPlans, heap, reached, results, cuts, phase>>

\* The league as it is, and once all is over, with these appearances and points.
Now == [finished |-> league.finished, seen |-> league.seen, points |-> league.points]
Final(sn, pt) == [finished |-> Fixtures, seen |-> sn, points |-> pt]

Rules == INSTANCE Scoring

-----------------------------------------------------------------------------
(* Slots and their outcomes (build_variables)                              *)

Owned == UNION {Rules!Squad(league.lineup[m]) : m \in Managers}
Slots == {x \in Owned \X (Fixtures \ league.finished) : Team[x[1]] \in x[2]}
SlotsOf(p) == {x \in Slots : x[1] = p}
Opponent(x) == CHOOSE t \in x[2] : t # Team[x[1]]
Match(x) == league.match[x[2]]
Stats(x) == IF x \in DOMAIN league.stats THEN league.stats[x] ELSE NoStats

CatalogOf(x) == Catalog(Position[x[1]], Match(x), Match(x).goals[Opponent(x)], Stats(x))

\* A clean sheet is paid for once, not by each teammate.
IndividualCost(o) == Max({0, o.cost - o.sharedCost})

\* The elements of S in a sequence, ties in any order.
Sorted(S, Before(_, _)) ==
    FoldSet(LAMBDA x, s : SelectSeq(s, LAMBDA y : ~Before(x, y)) \o <<x>> \o SelectSeq(s, LAMBDA y : Before(x, y)),
            <<>>, S)

Ordered(outcomes) ==
    Sorted(outcomes, LAMBDA a, b :
        \/ IndividualCost(a) < IndividualCost(b)
        \/ IndividualCost(a) = IndividualCost(b) /\ a.cost < b.cost)

\* A slot that is not searched still has its baseline.
Options(x) == IF x \in focus THEN CatalogOf(x) ELSE {CHOOSE o \in CatalogOf(x) : o.baseline}

-----------------------------------------------------------------------------
(* Plans (_lineup_plans)                                                   *)

Appeared(p) == league.seen[p] # "unseen"

Forced == {p \in Owned : SlotsOf(p) # {} /\
              (Appeared(p) \/ \E x \in SlotsOf(p) : \A o \in Options(x) : o.minutes > 0)}
Optional == {p \in Owned \ Forced : \E x \in SlotsOf(p) : \E o \in Options(x) : o.minutes > 0}

\* Fewer absences first.
Patterns ==
    LET absences == Sorted(SUBSET Optional, LAMBDA a, b : Cardinality(a) < Cardinality(b))
    IN  [i \in 1..Min({MaxLineups, Len(absences)}) |-> Forced \cup (Optional \ absences[i])]

SeenWith(appearing) == [p \in Players |-> IF p \in appearing THEN "played" ELSE league.seen[p]]

Domain(x, appearing) ==
    {o \in Options(x) :
        IF x[1] \notin appearing THEN o.minutes = 0
        ELSE Appeared(x[1]) \/ Cardinality(SlotsOf(x[1])) > 1 \/ o.minutes > 0}

SumOver(S, Value(_)) == MapThenSumSet(Value, S)
Target == IF ties THEN 0 ELSE -1
Opponents == Managers \ {candidate}

\* The candidate's lead over m is gap[m], and weight[m] of what the players add.
Least(d, w, x) == Min({w[x[1]] * o.points : o \in d[x]})

\* Outcomes that no opponent's best case allows are struck out until none is left.
RECURSIVE Narrowed(_, _, _)
Narrowed(d, gap, weight) ==
    LET total == [m \in Opponents |-> gap[m] + SumOver(Slots, LAMBDA x : Least(d, weight[m], x))]
        next == [x \in Slots |-> {o \in d[x] : \A m \in Opponents :
                    total[m] - Least(d, weight[m], x) + weight[m][x[1]] * o.points <= Target}]
    IN  IF \E x \in Slots : d[x] = {} THEN [x \in Slots |-> {}]
        ELSE IF next = d THEN d ELSE Narrowed(next, gap, weight)

\* Slots that can change an inequality still open, or the closest one.
Pivotal(d, gap, weight) ==
    LET base == [m \in Opponents |-> gap[m] +
                    SumOver(Slots, LAMBDA x : weight[m][x[1]] * Head(d[x]).points)]
        open == {m \in Opponents :
                    \/ \A other \in Opponents : base[other] <= base[m]
                    \/ gap[m] + SumOver(Slots, LAMBDA x :
                           Max({weight[m][x[1]] * o.points : o \in ToSet(d[x])})) > Target}
    IN  {x \in Slots : Len(d[x]) > 1 /\ \E m \in open : weight[m][x[1]] # 0}

PlanOf(appearing) ==
    LET sn == SeenWith(appearing)
        multiplier == [m \in Managers |-> Rules!Multipliers(Final(sn, league.points), league.lineup[m])]
        base == [m \in Managers |-> Rules!Score(Final(sn, league.points), league.lineup[m])]
        gap == [m \in Opponents |-> base[candidate] - base[m]]
        weight == [m \in Opponents |-> [p \in Players |-> multiplier[candidate][p] - multiplier[m][p]]]
        narrow == Narrowed([x \in Slots |-> Domain(x, appearing)], gap, weight)
        d == [x \in Slots |-> Ordered(narrow[x])]
    IN  [appearing |-> appearing, multiplier |-> multiplier, domains |-> d,
         pivotal |-> IF \E x \in Slots : narrow[x] = {} THEN {} ELSE Pivotal(d, gap, weight)]

Feasible(plan) == \A x \in Slots : plan.domains[x] # <<>>

-----------------------------------------------------------------------------
(* Nodes, and the completion of a node (_complete_outcomes)                *)

Node(i, at) == [plan |-> i, at |-> at]
FirstNode(plan, i) == Node(i, [x \in plan.pivotal |-> 1])

NodeCost(n) ==
    SumOver(Slots, LAMBDA x :
        IndividualCost(plans[n.plan].domains[x][IF x \in DOMAIN n.at THEN n.at[x] ELSE 1]))

Neighbours(n) ==
    {Node(n.plan, [n.at EXCEPT ![x] = @ + 1]) :
        x \in {y \in DOMAIN n.at : n.at[y] < Len(plans[n.plan].domains[y])}}

Stories(chosen) ==
    {[player |-> x[1], match |-> x[2], team |-> Team[x[1]], opponent |-> Opponent(x),
      goals |-> Match(x).goals, outcome |-> chosen[x]] : x \in DOMAIN chosen}

Appearing(route) ==
    {x[1] : x \in {y \in DOMAIN route : route[y].minutes > 0}}
        \cup {x[1] : x \in {y \in DOMAIN route : Appeared(y[1])}}

\* Mutant: what each player does is not held against the others.
RECURSIVE Combined(_, _, _)
Combined(plan, chosen, pending) ==
    IF pending = {} THEN IF Appearing(chosen) = plan.appearing THEN {chosen} ELSE {}
    ELSE LET x == CHOOSE y \in pending : \A z \in pending : Len(plan.domains[y]) <= Len(plan.domains[z])
         IN  FoldLeft(LAMBDA found, o :
                 IF found # {} THEN found
                 ELSE Combined(plan, [y \in DOMAIN chosen \cup {x} |-> IF y = x THEN o ELSE chosen[y]],
                               pending \ {x}),
                 {}, plan.domains[x])

\* The first completion that can happen, in a set, or the empty set.
RECURSIVE Completed(_, _, _)
Completed(plan, chosen, pending) ==
    IF ~Consistent(Stories(chosen)) THEN {}
    ELSE IF pending = {} THEN IF Appearing(chosen) = plan.appearing THEN {chosen} ELSE {}
    ELSE LET x == CHOOSE y \in pending : \A z \in pending : Len(plan.domains[y]) <= Len(plan.domains[z])
         IN  FoldLeft(LAMBDA found, o :
                 IF found # {} THEN found
                 ELSE Completed(plan, [y \in DOMAIN chosen \cup {x} |-> IF y = x THEN o ELSE chosen[y]],
                                pending \ {x}),
                 {}, plan.domains[x])

RoutesOf(n) ==
    LET plan == plans[n.plan]
    IN  Completed(plan, [x \in DOMAIN n.at |-> plan.domains[x][n.at[x]]], Slots \ DOMAIN n.at)

-----------------------------------------------------------------------------
(* Routes: their scores, costs and signatures                              *)

\* projected_scores, by the scorer of the live table.
Scores(route) ==
    LET Of(p) == {x \in DOMAIN route : x[1] = p}
        sn == SeenWith({x[1] : x \in {y \in DOMAIN route : route[y].minutes > 0}})
        pt == [p \in Players |-> league.points[p] + SumOver(Of(p), LAMBDA x : route[x].points)]
    IN  [m \in Managers |-> Rules!Score(Final(sn, pt), league.lineup[m])]

\* _finishes_last.
FinishesLast(scores) ==
    \A m \in Opponents : IF ties THEN scores[candidate] <= scores[m] ELSE scores[candidate] < scores[m]

\* route_key: what a route is about, bookings and minutes left out.
RouteKey(o) ==
    LET said == o.tags \cup (IF o.max = 0 THEN {"clean"} ELSE {}) \cup {"appearance"}
        order == <<"own goal", "save", "miss", "red", "loses", "clean", "absent", "appearance">>
        first == Head(SelectSeq(order, LAMBDA kind : kind \in said))
    IN  IF o.goals + o.assists > 0 /\ first # "own goal"
        THEN <<"attack", o.goals, o.assists, o.max = 0>> ELSE <<first, 0, 0, FALSE>>

\* scenario_cost: an event shared by teammates counts once, and every change
\* beyond the first makes a route less plausible.
RouteCost(route) ==
    LET Event(x) == <<x[2], Team[x[1]], route[x].shared>>
        sharing == {x \in DOMAIN route : route[x].shared # "none"}
        events == {Event(x) : x \in sharing}
        pure == {x \in sharing : RouteKey(route[x])[1] \in {"clean", "loses"} /\ "booked" \notin route[x].tags}
        changed == Cardinality({x \in DOMAIN route \ pure : ~route[x].baseline}) + Cardinality(events)
    IN  10 * SumOver(DOMAIN route, LAMBDA x : IndividualCost(route[x]))
        + 10 * SumOver(events, LAMBDA e : Max({route[x].sharedCost : x \in {y \in sharing : Event(y) = e}}))
        + 35 * Max({0, changed - 1})

\* _diversity_signature: what matters to the candidate and the next lowest.
Signature(route, scores, plan) ==
    LET nearest == {m \in Opponents : \A other \in Opponents : scores[m] <= scores[other]}
        entries == {candidate} \cup nearest
        exposed == [m \in Managers |-> Rules!RemainingMultipliers(Now, league.lineup[m])]
        Differs(f, p) == Cardinality({f[m][p] : m \in entries}) > 1
        material == {x \in DOMAIN route :
            /\ ~route[x].baseline
            /\ Differs(plan.multiplier, x[1]) \/ ("absent" \in route[x].tags /\ Differs(exposed, x[1]))
            /\ RouteKey(route[x])[1] # "appearance"}
    IN  {<<x, RouteKey(route[x])>> : x \in material}

-----------------------------------------------------------------------------
(* The search (solve_candidate)                                            *)

\* Nobody is searched for who is safe (assess_safety).
SafeBy(m) ==
    LET bounds == [k \in Managers |-> Rules!Bounds(Now, league.lineup[k])]
    IN  \E other \in Opponents : Rules!Below(bounds[other].upper, bounds[m].lower, ties)

Init ==
    /\ league \in Leagues /\ candidate \in Managers /\ ties \in BOOLEAN /\ limit \in Limits
    /\ \E breadth \in Breadths : focus \in kSubset(Min({breadth, Cardinality(Slots)}), Slots)
    /\ ~SafeBy(candidate)
    /\ plans = <<>> /\ allPlans = FALSE /\ heap = {} /\ reached = {} /\ results = {}
    /\ cuts = 0 /\ phase = "asked"

CardedWithoutMinutes == \E p \in Owned : league.seen[p] = "carded"

\* The pattern of a player booked without minutes is not understood.
Decline ==
    /\ phase = "asked" /\ CardedWithoutMinutes
    /\ phase' = "ended"
    /\ UNCHANGED <<league, candidate, ties, limit, focus, plans, allPlans, heap, reached, results, cuts>>

Found(route, cost, scores, signature) ==
    [route |-> route, cost |-> cost, scores |-> scores, signature |-> signature]

\* Nothing is left to happen to anybody's players.
Settled ==
    /\ phase = "asked" /\ ~CardedWithoutMinutes /\ Slots = {}
    /\ LET scores == Scores(<<>>)
       IN  results' = IF FinishesLast(scores) THEN {Found(<<>>, 0, scores, {})} ELSE {}
    /\ allPlans' = TRUE /\ phase' = "ended"
    /\ UNCHANGED <<league, candidate, ties, limit, focus, plans, heap, reached, cuts>>

Prepare ==
    /\ phase = "asked" /\ ~CardedWithoutMinutes /\ Slots # {}
    /\ plans' = SelectSeq([i \in DOMAIN Patterns |-> PlanOf(Patterns[i])], Feasible)
    /\ allPlans' = (Len(Patterns) = Cardinality(SUBSET Optional))
    /\ heap' = {FirstNode(plans'[i], i) : i \in DOMAIN plans'}
    /\ reached' = heap'
    /\ phase' = "searching"
    /\ UNCHANGED <<league, candidate, ties, limit, focus, results, cuts>>

\* The cost of the last of the examples asked for.
Costs == Sorted(results, LAMBDA a, b : a.cost < b.cost)
Lowest == Min({NodeCost(n) : n \in heap})

\* Mutant: enough examples are enough.
EnoughFound == heap # {} /\ Cardinality(results) >= limit

\* Nothing that is left can be cheaper than the examples.
Enough == heap # {} /\ Cardinality(results) >= limit /\ 10 * Lowest >= Costs[limit].cost

\* Another route: of those with its signature the cheapest is kept.
With(found) ==
    LET same == {r \in results : r.signature = found.signature}
    IN  IF same = {} THEN results \cup {found}
        ELSE IF \E r \in same : found.cost < r.cost THEN (results \ same) \cup {found} ELSE results

\* Mutant: a completion that was given up is taken for one that does not exist.
Forgives(cut) == allPlans

StillComplete(cut) == allPlans /\ ~cut

\* The cheapest node; `cut` says that its completion ran out of nodes.
Visit(cut) ==
    /\ phase = "searching" /\ heap # {} /\ ~Enough
    /\ cut => cuts < MaxCuts
    /\ LET n == CHOOSE x \in heap : NodeCost(x) = Lowest /\
                   \A y \in heap : NodeCost(y) = Lowest => x.plan <= y.plan
           routes == IF cut THEN {} ELSE RoutesOf(n)
           last == {r \in routes : FinishesLast(Scores(r))}
           new == Neighbours(n) \ reached
       IN  /\ results' = IF last = {} THEN results
                         ELSE LET r == CHOOSE x \in last : TRUE
                              IN  With(Found(r, RouteCost(r), Scores(r), Signature(r, Scores(r), plans[n.plan])))
           /\ heap' = (heap \ {n}) \cup new
           /\ reached' = reached \cup new
    /\ allPlans' = StillComplete(cut)
    /\ cuts' = IF cut THEN cuts + 1 ELSE cuts
    /\ UNCHANGED <<league, candidate, ties, limit, focus, plans, phase>>

\* The heap is empty, or there are enough examples, or the nodes are spent, which
\* may happen at any moment.
End ==
    /\ phase = "searching"
    /\ phase' = "ended"
    /\ UNCHANGED <<league, candidate, ties, limit, focus, plans, allPlans, heap, reached, results, cuts>>

Next == Decline \/ Settled \/ Prepare \/ (\E cut \in BOOLEAN : Visit(cut)) \/ End
Spec == Init /\ [][Next]_vars

-----------------------------------------------------------------------------
(* What is said of it                                                      *)

Shown == SubSeq(Costs, 1, Min({limit, Cardinality(results)}))
Exhausted == heap = {} /\ allPlans

\* _status, of one who is not safe.
Status ==
    IF results # {} THEN "can_finish_last"
    ELSE IF Exhausted /\ focus = Slots THEN "no_modelled_path" ELSE "unresolved"

-----------------------------------------------------------------------------
(* Properties                                                              *)

\* Every way of giving each slot one of all its outcomes.
Everything ==
    FoldSet(LAMBDA x, routes : {r @@ (x :> o) : r \in routes, o \in CatalogOf(x)}, {<<>>}, Slots)

(* "`NO MODELLED PATH` means the bounded vocabulary was exhausted"         *)
(* (README.md:140): no outcomes that can happen together make the          *)
(* candidate last, however the lineups were split into plans, the domains  *)
(* narrowed, and the slots that do not matter left aside.                  *)
NoPathIsTrue ==
    phase = "ended" /\ Status = "no_modelled_path" =>
        \A route \in Everything : ~(Consistent(Stories(route)) /\ FinishesLast(Scores(route)))

\* A final score with which every outcome of the route comes true.
Fits(route, match, score) ==
    LET added == [t \in match |-> score[t] - league.match[match].goals[t]]
        here == {x \in DOMAIN route : x[2] = match}
    IN  /\ \A x \in here :
            /\ added[Team[x[1]]] >= route[x].own
            /\ added[Opponent(x)] >= route[x].opp
            /\ score[Opponent(x)] <= route[x].max
        /\ \A t \in match :
            /\ SumOver({x \in here : Team[x[1]] = t}, LAMBDA x : route[x].goals)
               + SumOver({x \in here : Team[x[1]] # t}, LAMBDA x : route[x].ownGoals) <= added[t]
            /\ SumOver({x \in here : Team[x[1]] = t}, LAMBDA x : route[x].assists) <= added[t]

(***************************************************************************)
(* Every example is football: each match can end with one score for which  *)
(* all that the example says of its players is true together               *)
(* (scenarios.py: football_consistent; solver.py: _complete_outcomes).     *)
(***************************************************************************)
RoutesFitAScore ==
    \A r \in results : \A match \in {x[2] : x \in DOMAIN r.route} :
        \E score \in [match -> 0..7] : Fits(r.route, match, score)

\* Nodes that have not been visited, on the heap or not yet reached.
Unvisited ==
    heap \cup (UNION {{Node(i, at) : at \in
                  {f \in [plans[i].pivotal -> 1..25] :
                      \A x \in plans[i].pivotal : f[x] <= Len(plans[i].domains[x])}} :
                  i \in DOMAIN plans} \ reached)

(***************************************************************************)
(* The cost of a node is a lower bound for all that is behind it           *)
(* (ranking.py:7): when the search stops because it has enough examples,   *)
(* nothing it did not visit would have given a cheaper one.                *)
(***************************************************************************)
CheapestFirst ==
    phase = "ended" /\ Enough =>
        \A n \in Unvisited : \A route \in RoutesOf(n) :
            FinishesLast(Scores(route)) => RouteCost(route) >= Costs[limit].cost

(***************************************************************************)
(* What a search says is true: without a path there is none; the examples  *)
(* given are possible and, when it stopped at enough of them, none that it *)
(* did not visit is cheaper (analysis.py: _status; solver.py:              *)
(* solve_candidate).                                                       *)
(***************************************************************************)
SearchIsTrue == NoPathIsTrue /\ RoutesFitAScore /\ CheapestFirst
=============================================================================
