--------------------------- MODULE LeagueOutlook ----------------------------
(***************************************************************************)
(* The forecast of a league (forecast.py: outlook, and the accumulator     *)
(* LiveIntelligence of intelligence.py): joint samples of the matches that *)
(* are not over are drawn one after the other, scored for every manager,   *)
(* and counted.  Multipliers are kept by who appeared and who played, for  *)
(* the final scores and for each group of matches of the timeline.         *)
(*                                                                         *)
(* A sample comes from FixtureForecast and is one of Outcomes here: of     *)
(* each match its score and the statistics of its players, with the points *)
(* they make.  All managers have as many samples, so sums stand for means. *)
(***************************************************************************)
EXTENDS Integers, FiniteSets, Sequences, FiniteSetsExt, SequencesExt

CONSTANTS
    Managers, Players, Position, Team,
    Entry,           \* of a manager: his number
    Squads,          \* of a manager: [picks, captain, vice, chip, hit]
    Fixtures,        \* the matches that are not over, numbered
    Sides,           \* of a match: <<home, away>>
    Kickoff,         \* of a match: a time, or NoTime
    Clocks,          \* of a match: the minutes played
    Standing,        \* of a match: [home, away] so far
    NoTime,
    Duration,        \* two hours
    Present,         \* of a player: [points, minutes, carded] so far
    Recorded,        \* of a match: the statistics of its players so far
    Outcomes,        \* the samples: of a match [home, away, stats]
    Simulations,     \* how many are drawn
    MaxTimeline, MinGroup, Close, MaxWatched, MaxCandidates, MaxSheets, Full

\* What the constants must be; MCLeagueForecast assumes it.
OutlookConstants ==
    /\ {Simulations, MaxTimeline, MinGroup, Close, MaxWatched, MaxCandidates, MaxSheets, Full, Duration} \subseteq Nat
    /\ Simulations > 0 /\ IsFiniteSet(Managers) /\ Managers # {} /\ IsInjective(Entry)
    /\ Fixtures \subseteq Nat /\ IsFiniteSet(Fixtures)
    /\ \A x \in Outcomes : DOMAIN x = Fixtures

VARIABLES
    ties,            \* whether every tied last manager counts
    candidates,      \* the events examined
    draws,           \* the samples so far
    cache,           \* of a manager: multipliers by who appeared and who played
    multipliers,     \* of each sample, those of every manager
    finals,          \* of each sample, the scores
    counted, outright, tied, \* of a manager: in how many samples he was last
    groupCache,      \* the cache of each group of the timeline
    checkpoints      \* of each sample, the scores after each group

outlookVars == <<ties, candidates, draws, cache, multipliers, finals, counted, outright, tied, groupCache, checkpoints>>

-----------------------------------------------------------------------------
(* Scores                                                                  *)

Old(f, p) == IF p \in DOMAIN Recorded[f] THEN Recorded[f][p]
             ELSE [points |-> 0, minutes |-> 0, carded |-> FALSE, goals |-> 0, assists |-> 0]
Delta(x, f, p) == IF p \in DOMAIN x[f].stats THEN x[f].stats[p].points - Old(f, p).points ELSE 0

\* What is known now, with the matches fs as the sample has them.
Scores(x, fs) ==
    [p \in Players |->
        LET mine == {f \in fs : p \in DOMAIN x[f].stats}
        IN  [points |-> Present[p].points + MapThenSumSet(LAMBDA f : Delta(x, f, p), mine),
             minutes |-> Present[p].minutes
                + MapThenSumSet(LAMBDA f : x[f].stats[p].minutes - Old(f, p).minutes, mine),
             carded |-> Present[p].carded \/ \E f \in mine : x[f].stats[p].carded]]

Seen(sc) == [p \in Players |-> IF sc[p].minutes > 0 THEN "played" ELSE IF sc[p].carded THEN "carded" ELSE "unseen"]
Squad(m) == ToSet(Squads[m].picks)
\* Mutant: a booked player without minutes is taken for one who played.
KeyOfAppearances(m, sc) == {p \in Squad(m) : Seen(sc)[p] # "unseen"}
Key(m, sc) == <<{p \in Squad(m) : Seen(sc)[p] # "unseen"}, {p \in Squad(m) : Seen(sc)[p] = "played"}>>

\* The rules of substitutions.py, the matches `done` over and the others not.
Rules == INSTANCE Scoring WITH
    Fixtures <- {ToSet(Sides[f]) : f \in Fixtures}, Low <- 0, High <- 0
StateOf(sc, done) ==
    [finished |-> {ToSet(Sides[f]) : f \in done}, seen |-> Seen(sc), points |-> [p \in Players |-> sc[p].points]]

Fresh(m, sc, done) == Rules!Multipliers(StateOf(sc, done), Squads[m])
Resolved(known, m, sc, done) ==
    IF Key(m, sc) \in DOMAIN known THEN known[Key(m, sc)] ELSE Fresh(m, sc, done)
Worth(m, weight, sc) == MapThenSumSet(LAMBDA p : weight[p] * sc[p].points, Squad(m)) - Squads[m].hit

\* Mutant: whoever shares last place is last, whatever was asked.
LastIdsTied(score, all) == {m \in Managers : \A x \in Managers : score[m] <= score[x]}

LastIds(score, all) ==
    LET bottom == {m \in Managers : \A x \in Managers : score[m] <= score[x]}
    IN  IF all \/ Cardinality(bottom) = 1 THEN bottom ELSE {}

\* The league as it stands, pending players still to come.
Live == Scores([f \in Fixtures |-> [stats |-> <<>>]], {})
Current == [m \in Managers |-> Worth(m, Fresh(m, Live, {}), Live)]

-----------------------------------------------------------------------------
(* Groups of matches, and the events to watch                              *)

ByNumber(S) == SelectSeq([i \in 1..Max(S \cup {0}) |-> i], LAMBDA i : i \in S)

\* Matches that overlap are one group; without all times there is one group.
Groups ==
    LET byKickoff == SortSeq(ByNumber(Fixtures), LAMBDA f, g :
                        Kickoff[f] < Kickoff[g] \/ (Kickoff[f] = Kickoff[g] /\ f < g))
        Add(s, f) ==
            [groups |-> IF s.groups = <<>> \/ Kickoff[f] >= s.end THEN Append(s.groups, {f})
                        ELSE [s.groups EXCEPT ![Len(s.groups)] = @ \cup {f}],
             end |-> Max({s.end, Kickoff[f] + Duration})]
    IN  IF Fixtures = {} THEN <<>>
        ELSE IF \E f \in Fixtures : Kickoff[f] = NoTime THEN <<Fixtures>>
        ELSE FoldLeft(Add, [groups |-> <<>>, end |-> 0], byKickoff).groups
OverAfter(i) == UNION {Groups[j] : j \in 1..i}

\* Four times the weight a player is expected to have.
Weight(m, p) ==
    LET s == Squads[m]
    IN  IF p \notin Squad(m) THEN 0
        ELSE IF p = s.captain THEN (IF s.chip = "3xc" THEN 12 ELSE 8)
        ELSE IF s.chip = "bboost" \/ \E i \in 1..11 : s.picks[i] = p THEN 4 ELSE 1
Spread(of, S) == Max({of[m] : m \in S}) - Min({of[m] : m \in S})

\* The eight lowest now.
Lowest(score) ==
    LET order == SetToSortSeq(Managers, LAMBDA m, k :
                    score[m] < score[k] \/ (score[m] = score[k] /\ Entry[m] < Entry[k]))
    IN  {order[i] : i \in 1..Min({8, Len(order)})}

Owned == UNION {Squad(m) : m \in Managers}
Upto(s, n) == SubSeq(s, 1, Min({n, Len(s)}))

\* The players that weigh most differently in that contest.
Watched(leverage) ==
    Upto(SortSeq(ByNumber(Owned), LAMBDA p, q :
            leverage[p] > leverage[q] \/ (leverage[p] = leverage[q] /\ p < q)), MaxWatched)

Involved(f, p) == Team[p] \in ToSet(Sides[f])
Started(f) == Clocks[f] > 0
Against(f, t, score) == IF t = Sides[f][1] THEN score[f].away ELSE score[f].home

Event(f, kind, of) == [fixture |-> f, kind |-> kind, of |-> of]
EventsOf(f, p) ==
    IF ~Involved(f, p) \/ Clocks[f] >= Full \/ (Started(f) /\ p \notin DOMAIN Recorded[f]) THEN <<>>
    ELSE <<Event(f, "goal", p), Event(f, "blank", p)>>
         \o (IF Old(f, p).minutes = 0 /\ ~Old(f, p).carded THEN <<Event(f, "substitute", p)>> ELSE <<>>)
CleanSheets(f, teams) ==
    LET clean == SelectSeq(Sides[f], LAMBDA t : Clocks[f] < Full /\ Against(f, t, Standing) = 0 /\ t \in teams)
    IN  [i \in DOMAIN clean |-> Event(f, "clean_sheet", clean[i])]

\* The events whose association with last place is examined.
CandidatesOf(score) ==
    LET lowest == Lowest(score)
        leverage == [p \in Owned |-> Spread([m \in lowest |-> Weight(m, p)], lowest)]
        watched == Watched(leverage)
        teams == {Team[watched[i]] : i \in DOMAIN watched}
        weighing == SelectSeq(watched, LAMBDA p : leverage[p] > 0)
        order == ByNumber(Fixtures)
        sheets == FlattenSeq([j \in DOMAIN order |-> CleanSheets(order[j], teams)])
        players == FlattenSeq([i \in DOMAIN weighing |->
                        FlattenSeq([j \in DOMAIN order |-> EventsOf(order[j], weighing[i])])])
    IN  Upto(Upto(sheets, MaxSheets) \o players, MaxCandidates)

\* Whether the event c is part of the sample x.
Happened(c, x) ==
    LET new == x[c.fixture].stats[c.of]
        old == Old(c.fixture, c.of)
    IN  IF c.kind = "clean_sheet" THEN Against(c.fixture, c.of, x) = 0
        ELSE /\ c.of \in DOMAIN x[c.fixture].stats
             /\ CASE c.kind = "goal" -> new.goals > old.goals
                  [] c.kind = "blank" -> new.goals = old.goals /\ new.assists = old.assists
                  [] c.kind = "substitute" -> new.minutes > 0 /\ new.start > 0

-----------------------------------------------------------------------------
(* One sample after the other                                              *)

Init ==
    /\ ties \in BOOLEAN /\ candidates = CandidatesOf(Current)
    /\ draws = <<>> /\ multipliers = <<>> /\ finals = <<>> /\ checkpoints = <<>>
    /\ cache = [m \in Managers |-> <<>>]
    /\ groupCache = [i \in DOMAIN Groups |-> [m \in Managers |-> <<>>]]
    /\ counted = [m \in Managers |-> 0] /\ outright = counted /\ tied = counted

Learnt(known, m, sc, done) == (Key(m, sc) :> Resolved(known, m, sc, done)) @@ known

\* The scores after group i: matches of later groups as they are now.
After(x, i) == Scores(x, IF i < Len(Groups) THEN OverAfter(i) ELSE Fixtures)

Checkpoint(x, final) ==
    IF Len(checkpoints) >= MaxTimeline THEN UNCHANGED <<groupCache, checkpoints>>
    ELSE LET inner == 1..(Len(Groups) - 1)
         IN  /\ groupCache' = [i \in DOMAIN Groups |-> [m \in Managers |->
                    IF i \in inner THEN Learnt(groupCache[i][m], m, After(x, i), OverAfter(i))
                    ELSE groupCache[i][m]]]
             /\ checkpoints' = Append(checkpoints, [i \in DOMAIN Groups |-> [m \in Managers |->
                    IF i \in inner
                    THEN Worth(m, Resolved(groupCache[i][m], m, After(x, i), OverAfter(i)), After(x, i))
                    ELSE final[m]]])

Tally(count, S) == [m \in Managers |-> count[m] + IF m \in S THEN 1 ELSE 0]

Draw(x) ==
    /\ Len(draws) < IF Fixtures = {} THEN 1 ELSE Simulations
    /\ LET sc == Scores(x, Fixtures)
           weight == [m \in Managers |-> Resolved(cache[m], m, sc, Fixtures)]
           final == [m \in Managers |-> Worth(m, weight[m], sc)]
           bottom == LastIds(final, TRUE)
       IN  /\ draws' = Append(draws, x)
           /\ cache' = [m \in Managers |-> Learnt(cache[m], m, sc, Fixtures)]
           /\ multipliers' = Append(multipliers, weight)
           /\ finals' = Append(finals, final)
           /\ counted' = Tally(counted, LastIds(final, ties))
           /\ outright' = Tally(outright, IF Cardinality(bottom) = 1 THEN bottom ELSE {})
           /\ tied' = Tally(tied, IF Cardinality(bottom) > 1 THEN bottom ELSE {})
           /\ Checkpoint(x, final)
    /\ UNCHANGED <<ties, candidates>>

Next == \E x \in Outcomes : Draw(x)
Spec == Init /\ [][Next]_outlookVars

-----------------------------------------------------------------------------
(* What is reported                                                        *)

N == Len(draws)
Sum(m) == MapThenSumSet(LAMBDA k : finals[k][m], 1..N)
ByScore(S) == SetToSortSeq(S, LAMBDA m, k : Sum(m) < Sum(k) \/ (Sum(m) = Sum(k) /\ Entry[m] < Entry[k]))
Gap(m) == Sum(m) - Min({Sum(x) : x \in Managers})
ProjectedBottom == {m \in Managers : Gap(m) = 0}
Risk(m) == IF 4 * counted[m] >= N THEN "high" ELSE IF 20 * counted[m] >= N THEN "moderate" ELSE "low"

\* The first and the ninth tenth of a sequence.
Quantile(values, tenth) == SortSeq(values, <)[1 + ((Len(values) - 1) * tenth) \div 10]
Width(values) == Quantile(values, 9) - Quantile(values, 1)

\* The contest at the bottom: close in the mean, or last in one sample of a
\* hundred; at least the two lowest.
Near == {m \in Managers : Gap(m) <= Close * N \/ 100 * counted[m] >= N}
Contenders ==
    IF Cardinality(Near) >= 2 THEN Near
    ELSE LET order == ByScore(Managers) IN {order[i] : i \in 1..Min({2, Len(order)})}

Exposure(p) == [m \in Managers |-> MapThenSumSet(LAMBDA k : multipliers[k][m][p], 1..N)]
Gains(p) == [k \in 1..N |-> Scores(draws[k], Fixtures)[p].points - Present[p].points]
Remaining == {p \in Owned : \E f \in Fixtures : Involved(f, p)}

\* Who gains by a player: more, or less, exposed to him than the contest is.
Helped(p) ==
    {m \in Contenders : Cardinality(Contenders) * Exposure(p)[m] > MapThenSumSet(LAMBDA x : Exposure(p)[x], Contenders)}
BlankHelped(p) ==
    {m \in Contenders : Cardinality(Contenders) * Exposure(p)[m] < MapThenSumSet(LAMBDA x : Exposure(p)[x], Contenders)}
Swing(p) == Width(Gains(p)) * Spread(Exposure(p), Contenders)
Decisive == {p \in Remaining : 20 * Spread(Exposure(p), Contenders) >= N /\ 2 * Swing(p) >= N}

\* What a match adds to a manager's score in sample k.
Contribution(k, f, m) == MapThenSumSet(LAMBDA p : Delta(draws[k], f, p) * multipliers[k][m][p], Squad(m))

\* In how many samples m was last, of those in which the event happened or not.
LastIn(m, c, happened) ==
    Cardinality({k \in 1..N : m \in LastIds(finals[k], ties) /\ Happened(c, draws[k]) = happened})
HowOften(c, happened) == Cardinality({k \in 1..N : Happened(c, draws[k]) = happened})

\* By how much the event changes the risk of m, times both numbers of samples;
\* shown if it is two points in a hundred and three standard errors.
Change(m, c) == LastIn(m, c, TRUE) * HowOften(c, FALSE) - LastIn(m, c, FALSE) * HowOften(c, TRUE)
Abs(x) == IF x < 0 THEN -x ELSE x
Shown(m, c) ==
    LET a == LastIn(m, c, TRUE)
        b == LastIn(m, c, FALSE)
        with == HowOften(c, TRUE)
        without == HowOften(c, FALSE)
    IN  /\ 50 * Abs(Change(m, c)) >= with * N
        /\ Change(m, c) * Change(m, c) * with * without
              >= 9 * (a * (with - a) * (without ^ 3) + b * (without - b) * (with ^ 3))
Dangerous ==
    {i \in DOMAIN candidates :
        LET c == candidates[i]
        IN  /\ HowOften(c, TRUE) >= MinGroup /\ HowOften(c, FALSE) >= MinGroup
            /\ \E m \in Near : Shown(m, c)}
Benefits(c) == {m \in Near : Shown(m, c) /\ Change(m, c) < 0}
Vulnerable(c) == {m \in Near : Shown(m, c) /\ Change(m, c) > 0}

-----------------------------------------------------------------------------
(* Properties                                                              *)

\* The samples are scored as each would be on its own: kept multipliers are
\* those of this sample, what the matches contribute and what was there before
\* add up to the score, and last places are counted by the rule asked for.
SamplesCounted ==
    /\ \A k \in 1..N, m \in Managers :
          LET sc == Scores(draws[k], Fixtures)
          IN  /\ finals[k][m] = Worth(m, Fresh(m, sc, Fixtures), sc)
              /\ finals[k][m] = MapThenSumSet(LAMBDA f : Contribution(k, f, m), Fixtures)
                    + Worth(m, multipliers[k][m], Present)
    /\ LET all == MapThenSumSet(LAMBDA m : counted[m], Managers)
       IN  IF ties THEN all >= N /\ \A m \in Managers : counted[m] = outright[m] + tied[m]
           ELSE all <= N /\ counted = outright

\* Groups follow each other without overlap.  Whoever has no player left in
\* later matches has his final score after a group, and so has everyone after
\* the last one.
TimelineHolds ==
    /\ UNION ToSet(Groups) = Fixtures
    /\ \A i, j \in DOMAIN Groups : i < j =>
          \A f \in Groups[i], g \in Groups[j] : Kickoff[f] + Duration <= Kickoff[g]
    /\ \A k \in DOMAIN checkpoints, i \in DOMAIN Groups, m \in Managers :
          (\A p \in Squad(m), f \in Fixtures \ OverAfter(i) : ~Involved(f, p))
             => checkpoints[k][i][m] = finals[k][m]

\* The contest holds everyone projected last and everyone of some risk; a player
\* is decisive only if his points help some of them and his blank others, nobody
\* both; and nobody is both safer and in more danger by one event.
ContestHolds ==
    /\ ProjectedBottom \subseteq Contenders /\ Cardinality(Contenders) >= Min({2, Cardinality(Managers)})
    /\ \A m \in Managers : Risk(m) # "low" => m \in Contenders
    /\ \A p \in Decisive : Helped(p) # {} /\ BlankHelped(p) # {} /\ Helped(p) \cap BlankHelped(p) = {}
    /\ \A i \in Dangerous : Benefits(candidates[i]) \cap Vulnerable(candidates[i]) = {}

\* forecast.py: outlook; intelligence.py: LiveIntelligence.
OutlookAgrees == N > 0 => SamplesCounted /\ TimelineHolds /\ ContestHolds
=============================================================================
