---------------------------- MODULE SquadPlanner ----------------------------
(***************************************************************************)
(* The planning of a private squad (assistant/optimisation.py and the      *)
(* lineup, transfer, search and chip handlers of assistant/service.py).    *)
(*                                                                         *)
(* A forecast gives for each Gameweek of its horizon the joint samples of  *)
(* what all players do, or says that the Gameweek is unknown.  A lineup is *)
(* worth the sum of its scores over the samples; the optimiser does not    *)
(* score every lineup on every sample but groups the samples by who        *)
(* appears.  Sums stand for the means: the number of samples of a          *)
(* Gameweek is the same for all its lineups.                               *)
(*                                                                         *)
(* One session: its plans are kept, the oldest leaving first, until they   *)
(* expire or the squad is loaded again.  The forecast is replaced by the   *)
(* next one between two requests; PrivateAssistant has what may happen     *)
(* within one.                                                             *)
(***************************************************************************)
EXTENDS Integers, FiniteSets, Sequences, FiniteSetsExt, SequencesExt

CONSTANTS
    Players, Position, Club, Price,
    Loaded,          \* the squad of fifteen: [picks, captain, vice]
    Forecasts,       \* a sequence of functions from Gameweeks to samples or Unknown
    Unknown,
    Contenders,      \* bound of the model: who is tried as captain and vice-captain by BestScore
    Rests,           \* bound of the model: the three outfield players that may rest together
    Windows,         \* the chips still to be played: [chip, first, last]
    Outgoing, Incoming, \* bound of the model: who is offered for whom
    Funds, Selling,  \* bank balances; selling prices that may be entered
    Allowances,      \* free transfers
    MaxPlans, MaxFree, Shortlist

ASSUME PlayerAssumption ==
    /\ Players \subseteq Nat /\ IsFiniteSet(Players)
    /\ Position \in [Players -> {"GK", "DEF", "MID", "FWD"}]
    /\ DOMAIN Club = Players /\ Price \in [Players -> Nat]
ASSUME ForecastAssumption ==
    \A i \in DOMAIN Forecasts : \A g \in DOMAIN Forecasts[i] : Forecasts[i][g] # Unknown =>
        \A k \in DOMAIN Forecasts[i][g] :
            LET s == Forecasts[i][g][k]
            IN  \A p \in Players \ (s.played \cup s.carded) : s.points[p] = 0

VARIABLES
    forecast,        \* which one is shared now
    plans,           \* a sequence of [key, plan]
    todo,            \* the claims that the request has still to work out
    answer           \* the claims it has worked out, each with its gain

vars == <<forecast, plans, todo, answer>>

-----------------------------------------------------------------------------
(* Lineups and their shared score                                          *)

\* The rules of substitutions.py on one lineup, all matches over.
Shared == INSTANCE Scoring WITH
    Managers <- {"me"}, Team <- Club, Fixtures <- {}, Low <- 0, High <- 0
AllOver(sn, pt) == [finished |-> {}, seen |-> sn, points |-> pt]

Among(S, pos) == {p \in S : Position[p] = pos}
Squad == ToSet(Loaded.picks)
Listed(S) == FoldSet(LAMBDA p, s : Append(s, p), <<>>, S)

Legal(xi) ==
    /\ Cardinality(Among(xi, "GK")) = 1
    /\ Cardinality(Among(xi, "DEF")) \in 3..5
    /\ Cardinality(Among(xi, "MID")) \in 2..5
    /\ Cardinality(Among(xi, "FWD")) \in 1..3

ValidSquad(S) ==
    /\ S \subseteq Players /\ Cardinality(S) = 15
    /\ Cardinality(Among(S, "GK")) = 2
    /\ Cardinality(Among(S, "DEF")) = 5
    /\ Cardinality(Among(S, "MID")) = 5
    /\ \A c \in {Club[p] : p \in S} : Cardinality({p \in S : Club[p] = c}) <= 3

\* make_lineup: a lineup as the picks of a manager.
Picks(x, chip) ==
    [picks |-> Listed(x.starters) \o x.bench, captain |-> x.captain, vice |-> x.vice,
     chip |-> chip, hit |-> 0]

SumOf(samples, Value(_)) == FoldLeft(LAMBDA t, s : t + Value(s), 0, samples)

Appeared(s) == s.played \cup s.carded
SeenIn(s) == [p \in Players |->
    IF p \in s.played THEN "played" ELSE IF p \in s.carded THEN "carded" ELSE "unseen"]

\* evaluate: the shared score of the lineup, sample by sample.
Evaluate(x, samples, chip) ==
    LET me == Picks(x, chip)
    IN  SumOf(samples, LAMBDA s : Shared!Score(AllOver(SeenIn(s), s.points), me))

-----------------------------------------------------------------------------
(* The optimiser                                                           *)

Mean(p, samples) == SumOf(samples, LAMBDA s : s.points[p])

\* Mutant: who has minutes, not who appears.
MasksOfMinutes(S, samples) == {samples[k].played \cap S : k \in DOMAIN samples}

\* Samples in which the same players of the squad appear.
Masks(S, samples) == {Appeared(samples[k]) \cap S : k \in DOMAIN samples}
GroupTotal(S, mask, p, samples) ==
    SumOf(samples, LAMBDA s : IF Appeared(s) \cap S = mask THEN s.points[p] ELSE 0)

\* The players of the bench that come on.  Only how many are missing in each
\* position matters: the first ones stand for them.
BenchFlags(xi, bench, mask) ==
    LET missing(pos) == Cardinality(Among(xi, pos) \ mask)
        absent == {p \in xi : Position[p] # "GK" /\
                      Cardinality({q \in Among(xi, Position[p]) : q < p}) < missing(Position[p])}
        others == ToSet(Tail(bench))
        sn == [p \in Players |->
                  IF p \in (xi \ absent) \cup (others \cap mask) THEN "played" ELSE "unseen"]
        x == [starters |-> xi, bench |-> bench, captain |-> 0, vice |-> 0]
    IN  IF absent = {} \/ others \cap mask = {} THEN {}
        ELSE others \cap Shared!Counted(AllOver(sn, [p \in Players |-> 0]), Picks(x, "none"))

\* What the bench adds in the samples of one group.
Bonus(S, xi, bench, mask, samples) ==
    LET goalkeeper == CHOOSE p \in xi : Position[p] = "GK"
        second == IF goalkeeper \notin mask THEN {Head(bench)} \cap mask ELSE {}
    IN  MapThenSumSet(LAMBDA p : GroupTotal(S, mask, p, samples), second \cup BenchFlags(xi, bench, mask))

BaseScore(S, xi, bench, samples, chip) ==
    IF chip = "bboost" THEN MapThenSumSet(LAMBDA p : Mean(p, samples), S)
    ELSE MapThenSumSet(LAMBDA p : Mean(p, samples), xi)
         + MapThenSumSet(LAMBDA mask : Bonus(S, xi, bench, mask, samples), Masks(S, samples))

\* What the armband adds: the captain's points, or the vice-captain's.
PairValue(c, v, samples) ==
    SumOf(samples, LAMBDA s : IF c \in s.played THEN s.points[c]
                              ELSE IF v \in s.played THEN s.points[v] ELSE 0)

\* Mutant: by the mean of the captain alone.
MeanKey(pair, samples) == <<Mean(pair[1], samples), Mean(pair[2], samples), -pair[1], -pair[2]>>

CaptainKey(pair, samples) ==
    <<PairValue(pair[1], pair[2], samples), Mean(pair[2], samples), Mean(pair[1], samples),
      -pair[1], -pair[2]>>

Below(a, b) == \E i \in DOMAIN a : a[i] < b[i] /\ \A j \in 1..(i - 1) : a[j] = b[j]

\* The element of S with the greatest key.
Best(S, KeyOf(_)) ==
    LET keyed == {[of |-> x, key |-> KeyOf(x)] : x \in S}
    IN  (CHOOSE x \in keyed : \A y \in keyed : ~Below(x.key, y.key)).of

Armband(xi, samples) ==
    Best({x \in xi \X xi : x[1] # x[2]}, LAMBDA x : CaptainKey(x, samples))

Orders(rest) == {s \in [1..3 -> rest] : IsInjective(s)}
Elevens(S) ==
    {xi \in {S \ (rest \cup {g}) : rest \in {r \in Rests : r \subseteq S}, g \in Among(S, "GK")} : Legal(xi)}
Benches(S, xi) ==
    LET rest == S \ xi
    IN  {Listed(Among(rest, "GK")) \o s : s \in Orders(rest \ Among(rest, "GK"))}

Worth(x, S, samples, chip) ==
    BaseScore(S, x.starters, x.bench, samples, chip)
    + (IF chip = "3xc" THEN 2 ELSE 1) * PairValue(x.captain, x.vice, samples)

\* One candidate for each eleven and order of its bench.
Candidates(S, samples) ==
    UNION {LET pair == Armband(xi, samples)
           IN  {[starters |-> xi, bench |-> b, captain |-> pair[1], vice |-> pair[2]] : b \in Benches(S, xi)}
           : xi \in Elevens(S)}

Optimise(S, samples, chip) ==
    LET best == Best(Candidates(S, samples), LAMBDA x : <<Worth(x, S, samples, chip)>>)
    IN  [lineup |-> best, expected |-> Evaluate(best, samples, chip)]

-----------------------------------------------------------------------------
(* Plans kept for the session (optimal)                                    *)

Samples(i, g) == Forecasts[i][g]
Known(i, g) == g \in DOMAIN Forecasts[i] /\ Samples(i, g) # Unknown
Gameweeks == UNION {DOMAIN Forecasts[i] : i \in DOMAIN Forecasts}

\* Single transfers are what the model asks for.
After(moves) == (Squad \ {x[1] : x \in moves}) \cup {x[2] : x \in moves}
Squads == {Squad} \cup {S \in {After({x}) : x \in Outgoing \X Incoming} : ValidSquad(S)}

Open(chip, g) == \E w \in Windows : w.chip = chip /\ g \in w.first..w.last

Requests ==
    {k \in [forecast : DOMAIN Forecasts, squad : Squads, gameweek : Gameweeks, chip : {"none", "bboost", "3xc"}] :
        Known(k.forecast, k.gameweek) /\ (k.chip # "none" => k.squad = Squad /\ Open(k.chip, k.gameweek))}
Request(S, g, chip) == [forecast |-> forecast, squad |-> S, gameweek |-> g, chip |-> chip]

Optimal == <<>> @@ [k \in Requests |-> Optimise(k.squad, Samples(k.forecast, k.gameweek), k.chip)]

\* Mutant: the squad is not part of the key.
SquadlessKey(k) == [k EXCEPT !.squad = Squad]

Key(k) == k

\* The plans once k has its own: the oldest makes room for a new one.
Keeping(kept, k) ==
    IF \E x \in ToSet(kept) : x.key = Key(k) THEN kept
    ELSE Append(IF Len(kept) >= MaxPlans THEN Tail(kept) ELSE kept,
                [key |-> Key(k), expected |-> Optimal[k].expected])

Expected(kept, k) == (CHOOSE x \in ToSet(kept) : x.key = Key(k)).expected

-----------------------------------------------------------------------------
(* Requests                                                                *)

Init == forecast = 1 /\ plans = <<>> /\ todo = <<>> /\ answer = {}

Begin(claims) ==
    /\ todo = <<>>
    /\ todo' = claims /\ answer' = {}
    /\ UNCHANGED <<forecast, plans>>

\* A claim: the gain of a plan over the best one of the loaded squad, or over
\* the loaded lineup itself, less a cost.
Claim(k, than, cost) == [request |-> k, than |-> than, cost |-> cost]
Base(k) == [k EXCEPT !.squad = Squad, !.chip = "none"]

Current == [starters |-> ToSet(SubSeq(Loaded.picks, 1, 11)), bench |-> SubSeq(Loaded.picks, 12, 15),
            captain |-> Loaded.captain, vice |-> Loaded.vice]
Loadeds(k) == Evaluate(Current, Samples(k.forecast, k.gameweek), "none")

\* The next claim of the request: the plan before and the plan after, either
\* kept or made now (optimal).
Plan ==
    /\ todo # <<>>
    /\ LET c == Head(todo)
           first == IF c.than = "current" THEN plans ELSE Keeping(plans, Base(c.request))
       IN  \E before \in {IF c.than = "current" THEN Loadeds(c.request) ELSE Expected(first, Base(c.request))} :
           \E kept \in {Keeping(first, c.request)} :
               /\ plans' = kept
               /\ answer' = answer \cup
                    {[claim |-> c, gain |-> Expected(kept, c.request) - before - c.cost]}
    /\ todo' = Tail(todo)
    /\ UNCHANGED forecast

Horizon == SetToSortSeq(DOMAIN Forecasts[forecast], LAMBDA a, b : a < b)
KnownWeeks == SelectSeq(Horizon, LAMBDA g : Known(forecast, g))

\* What the best lineup of a Gameweek gains over the loaded one.
Lineup(g) ==
    /\ Known(forecast, g)
    /\ Begin(<<Claim(Request(Squad, g, "none"), "current", 0)>>)

\* The points of the extra transfers, in each sample of the first Gameweek.
Hit(moves, free, g) ==
    IF g = Head(Horizon) THEN 4 * Max({0, Cardinality(moves) - free}) * Len(Samples(forecast, g)) ELSE 0

Compared(moves, free) ==
    LET Of(g) == Claim(Request(After(moves), g, "none"), "plan", Hit(moves, free, g))
    IN  [i \in DOMAIN KnownWeeks |-> Of(KnownWeeks[i])]

\* What a player may be sold for, entered by the user.
Affordable(moves, bank, selling) ==
    /\ \A x \in moves : selling <= Price[x[1]]
    /\ bank + Cardinality(moves) * selling >= MapThenSumSet(LAMBDA x : Price[x[2]], moves)

Transfers(moves, bank, free, selling) ==
    /\ free \in 0..MaxFree
    /\ ValidSquad(After(moves))
    /\ Affordable(moves, bank, selling)
    /\ Begin(Compared(moves, free))

\* The best legal eleven by means, its best player counted twice.
Screened(S, g) ==
    LET samples == Samples(forecast, g)
        value(xi) == MapThenSumSet(LAMBDA p : Mean(p, samples), xi) + Max({Mean(p, samples) : p \in xi})
        top(pos, n) == {p \in Among(S, pos) :
            Cardinality({q \in Among(S, pos) :
                \/ Mean(q, samples) > Mean(p, samples)
                \/ Mean(q, samples) = Mean(p, samples) /\ q < p}) < n}
    IN  Max({value(top("GK", 1) \cup top("DEF", f[1]) \cup top("MID", f[2]) \cup top("FWD", 10 - f[1] - f[2])) :
             f \in {h \in (3..5) \X (2..5) : 10 - h[1] - h[2] \in 1..3}})

\* One player out: the best few replacements by that screening are compared.
Search(out, bank, free, selling, length) ==
    LET weeks == SubSeq(Horizon, 1, Min({length, Len(Horizon)}))
        score(q) == FoldLeft(LAMBDA t, g : t + Screened(After({<<out, q>>}), g), 0, weeks)
        eligible == {q \in Incoming : /\ Position[q] = Position[out]
                                      /\ Price[q] <= bank + selling
                                      /\ ValidSquad(After({<<out, q>>}))}
        scores == [q \in eligible |-> score(q)]
        best == SetToSortSeq(eligible, LAMBDA a, b : scores[a] > scores[b] \/ (scores[a] = scores[b] /\ a < b))
        short == SubSeq(best, 1, Min({Shortlist, Len(best)}))
    IN  /\ free \in 0..MaxFree /\ selling <= Price[out] /\ ValidSquad(Squad)
        /\ \A i \in DOMAIN weeks : Known(forecast, weeks[i])
        /\ Begin(Compared({}, free) \o FlattenSeq([i \in DOMAIN short |-> Compared({<<out, short[i]>>}, free)]))

\* What each chip would gain in each Gameweek of a window that is still open.
Chips ==
    LET open == {x \in {"bboost", "3xc"} \X ToSet(KnownWeeks) : Open(x[1], x[2])}
        asked == SetToSortSeq(open, LAMBDA a, b : a[2] < b[2] \/ (a[2] = b[2] /\ a[1] = "bboost"))
    IN  Begin([i \in DOMAIN asked |-> Claim(Request(Squad, asked[i][2], asked[i][1]), "plan", 0)])

\* The squad is loaded again, or its plans expire.
Forget == todo = <<>> /\ plans' = <<>> /\ UNCHANGED <<forecast, todo, answer>>

Refresh ==
    /\ todo = <<>> /\ forecast + 1 \in DOMAIN Forecasts
    /\ forecast' = forecast + 1
    /\ UNCHANGED <<plans, todo, answer>>

Next ==
    \/ \E g \in Gameweeks : Lineup(g)
    \/ \E out \in Outgoing, bank \in Funds, free \in Allowances, selling \in Selling :
          \/ \E in \in Incoming : Transfers({<<out, in>>}, bank, free, selling)
          \/ \E length \in {1, 3} : Search(out, bank, free, selling, length)
    \/ Chips \/ Plan
    \/ Forget
    \/ Refresh

Spec == Init /\ [][Next]_vars

-----------------------------------------------------------------------------
(* Properties                                                              *)

Reconciled == <<>> @@ [k \in Requests |->
    LET samples == Samples(k.forecast, k.gameweek)
    IN  \A x \in Candidates(k.squad, samples) :
            Worth(x, k.squad, samples, k.chip) = Evaluate(x, samples, k.chip)]

(***************************************************************************)
(* For every lineup that was compared for an answer, the value by groups   *)
(* of samples is the sum of its shared scores, sample by sample            *)
(* (optimisation.py: "Grouping samples by appearance pattern is an exact   *)
(* computational shortcut").                                               *)
(***************************************************************************)
GroupsReconcile == \A x \in answer : Reconciled[x.claim.request]

\* The most that any lineup scores, whoever wears the armbands.
BestScore == <<>> @@ [k \in Requests |->
    LET samples == Samples(k.forecast, k.gameweek)
    IN  Max(UNION {UNION {{Evaluate([starters |-> xi, bench |-> b, captain |-> c, vice |-> v], samples, k.chip)
                           : v \in (xi \cap Contenders) \ {c}} : c \in xi \cap Contenders, b \in Benches(k.squad, xi)} : xi \in Elevens(k.squad)})]

(***************************************************************************)
(* What an answer claims is gained by a lineup, transfers or a chip is the *)
(* difference of the best shared scores there are, less the hit, on one    *)
(* forecast, whatever plans were kept (optimisation.py: optimise;          *)
(* assistant/service.py: optimal, transfers, chips).                       *)
(***************************************************************************)
GainsAreReal ==
    \A x \in answer :
        LET k == x.claim.request
        IN  x.gain = BestScore[k] - x.claim.cost -
                (IF x.claim.than = "plan" THEN BestScore[Base(k)] ELSE Loadeds(k))

(***************************************************************************)
(* What is compared for an answer is scored as it would be sample by       *)
(* sample, and what the answer says is gained is so (optimisation.py:      *)
(* LineupOptimiser; assistant/service.py: optimal, transfers, chips).      *)
(***************************************************************************)
PlansAreReal == GroupsReconcile /\ GainsAreReal
=============================================================================
