-------------------------- MODULE FixtureForecast ---------------------------
(***************************************************************************)
(* One draw of one unfinished match (forecasting/simulation.py): a set of  *)
(* conditions is accepted or refused, then for each team everyone gets a   *)
(* window of minutes on the pitch, then the goals are drawn, some of them  *)
(* for the players that the conditions name.  What the simulator takes     *)
(* from its random generator is chosen freely here: probabilities, and     *)
(* with them bonus points, saves and cards, are left out.                  *)
(*                                                                         *)
(* Windows are <<from, until>>, minute `until` excluded; <<Full, Full>> is *)
(* nobody's.  Players outside Players are anonymous: they fill what the    *)
(* windows leave of the eleven.                                            *)
(***************************************************************************)
EXTENDS Integers, FiniteSets, Sequences, FiniteSetsExt, SequencesExt

CONSTANTS
    Home, Away, Nobody, Unknown,
    Players, Team, Keepers,
    StartRate,       \* of a player: how likely he starts, as a rank
    StartMinutes,    \* of a player: how long he may stay on when he starts
    CameoMinutes,    \* of a player: how long he may stay when he comes on; may be empty
    DefaultCameos, LateStarts, \* durations and entries of a player without such a history
    Full, Grace, Long, Side, MaxSubs, MaxReturns, MaxScore,
    Cases,           \* what may be asked: [match, rules]
    MaxGoals         \* bound of the model: goals drawn for one team

\* What the constants must be; MCLeagueForecast assumes it.
SimulatorConstants ==
    /\ Players \subseteq Nat /\ IsFiniteSet(Players)
    /\ Team \in [Players -> {Home, Away}] /\ Keepers \subseteq Players
    /\ {Full, Grace, Long, Side, MaxSubs, MaxReturns, MaxScore, MaxGoals} \subseteq Nat
    /\ \A p \in Players : StartMinutes[p] # {} /\ StartMinutes[p] \cup CameoMinutes[p] \subseteq 1..Full
    /\ DefaultCameos \subseteq 1..Full /\ LateStarts \subseteq 0..(Full - 1)

VARIABLES
    match,           \* what is observed: [finished, started, elapsed, score, minutes, stats, sheet]
    rules,           \* the conditions: [kind, of, value, home, away]
    stage,           \* how far the draw is
    side,            \* the team it is at
    windows,         \* of the players decided so far
    starters, reserves, substitutes,
    goals,           \* the new goals of the side still to be drawn: <<scorer, assister>>
    events           \* the new goals: [team, scorer, assister, minute]

drawVars == <<match, rules, stage, side, windows, starters, reserves, substitutes, goals, events>>

BothTeams == {Home, Away}
Opponent(t) == IF t = Home THEN Away ELSE Home
Of(t) == {p \in Players : Team[p] = t}

-----------------------------------------------------------------------------
(* What is observed                                                        *)

Live(p) == p \in DOMAIN match.stats
Named(p) == p \in DOMAIN match.sheet
Status(p) == IF Named(p) THEN match.sheet[p].status ELSE Unknown

Observed(p) ==
    IF Live(p) THEN match.stats[p].minutes
    ELSE IF p \in DOMAIN match.minutes THEN match.minutes[p] ELSE 0

Old(p) ==
    IF Live(p) THEN match.stats[p]
    ELSE [minutes |-> Observed(p), goals |-> 0, assists |-> 0, conceded |-> 0, booked |-> FALSE, red |-> FALSE]

Clock ==
    IF match.started THEN Min({Full, Max({match.elapsed} \cup {Observed(p) : p \in Players})}) ELSE 0

\* He trails the clock: substituted, or a substitute himself.
Trails(p) == Observed(p) > 0 /\ Observed(p) < Clock - Grace

CameOn(p) == Named(p) /\ match.sheet[p].on # Unknown
WentOff(p) == Named(p) /\ match.sheet[p].off # Unknown /\ match.sheet[p].off <= Clock
OnPitch(p) == CameOn(p) /\ match.sheet[p].off = Unknown

-----------------------------------------------------------------------------
(* Conditions                                                              *)

Returns == {"goal", "assist"}
Takes == Returns \cup {"minutes", "substitute"}
PlayerKinds == Takes \cup {"blank", "dnp"}
TeamKinds == {"clean_sheet", "lose_clean_sheet"}

Has(kind, of) == \E c \in rules : c.kind = kind /\ c.of = of
HasAny(kinds, of) == \E c \in rules : c.kind \in kinds /\ c.of = of
Value(kind, of) == (CHOOSE c \in rules : c.kind = kind /\ c.of = of).value

Scored == Has("score", Nobody)
Fixed(t) ==
    LET c == CHOOSE c \in rules : c.kind = "score"
    IN  IF t = Home THEN c.home ELSE c.away

Required(t) == {p \in Of(t) : HasAny(Takes, p)}

\* The target, the value and the uniqueness of one condition.
BadCondition(c) ==
    \/ match.finished
    \/ c.kind \in PlayerKinds /\ c.of \notin Players
    \/ c.kind \in TeamKinds /\ c.of \notin BothTeams
    \/ c.kind \in Returns /\ c.value \notin 1..MaxReturns
    \/ c.kind \in {"minutes", "substitute"} /\ c.value \notin 1..Full
    \/ c.kind = "score" /\ ~({c.home, c.away} \subseteq 0..MaxScore)
    \/ \E d \in rules \ {c} : d.kind = c.kind /\ d.of = c.of

\* What contradicts one player's record, or another condition on him.
LiveConflict(p) ==
    /\ match.started /\ HasAny(Takes, p)
    /\ \/ WentOff(p)
       \/ Old(p).red
       \/ Trails(p) /\ ~Has("minutes", p) /\ ~OnPitch(p)
       \/ /\ HasAny(Returns, p) /\ Trails(p) /\ ~OnPitch(p)
          /\ ~(Has("minutes", p) /\ Value("minutes", p) > Observed(p))
       \/ Clock >= Full
PlayerConflict(p) ==
    \/ Has("dnp", p) /\ (Observed(p) > 0 \/ Old(p).booked \/ Old(p).red \/ HasAny(Takes, p))
    \/ Has("blank", p) /\ HasAny(Returns, p)
    \/ Has("minutes", p) /\ Value("minutes", p) \notin Observed(p)..(Observed(p) + Full - Clock)
    \/ /\ Has("substitute", p)
       /\ Observed(p) > 0 \/ Has("minutes", p) \/ Value("substitute", p) > Full - Clock
    \/ LiveConflict(p)
    \/ match.started /\ ~Live(p) /\ HasAny(Takes \cup {"dnp"}, p)

-----------------------------------------------------------------------------
(* Windows, and who scores for whom                                        *)

On(p, w, m) == w[p][1] <= m /\ m < w[p][2]
Crowded(S) == Cardinality(S) > Side \/ Cardinality(S \cap Keepers) > 1

\* The widest window that the conditions leave a player.
PotentialWindow(p) ==
    LET first == IF Observed(p) > 0 THEN Max({0, Clock - Observed(p)}) ELSE Clock
        forced == IF match.started /\ Observed(p) = 0 THEN Full - Value("minutes", p)
                  ELSE IF Observed(p) > 0 THEN first ELSE 0
    IN  IF Has("substitute", p) THEN <<Full - Value("substitute", p), Full>>
        ELSE IF Has("minutes", p) THEN <<forced, forced + Value("minutes", p)>>
        ELSE <<first, Full>>

ById(S) == SelectSeq([i \in 1..Max(Players) |-> i], LAMBDA i : i \in S)

\* The players of t that a kind of condition names, once for each return.
Selected(kind, t) ==
    LET ids == ById({p \in Of(t) : Has(kind, p)})
    IN  FlattenSeq([i \in DOMAIN ids |-> [k \in 1..Value(kind, ids[i]) |-> ids[i]]])

\* Which goal and which assist can be of one event.
Fits(t, w) ==
    LET scorers == Selected("goal", t)
        assisters == Selected("assist", t)
        Share(p, q) == p # q /\ Max({Clock, w[p][1], w[q][1]}) < Min({w[p][2], w[q][2]})
    IN  {<<g, a>> \in (DOMAIN scorers) \X (DOMAIN assisters) : Share(scorers[g], assisters[a])}

\* Mutant: a goal gets the first assist that is free, and none is moved for it.
FirstFree(fits, n, g, a, path) ==
    LET free == {b \in a..n : <<g, b>> \in fits /\ path.goalOf[b] = 0}
    IN  IF free = {} THEN path ELSE [path EXCEPT !.goalOf[Min(free)] = g]

\* An augmenting path from goal g through the n assists, from the a-th on.
RECURSIVE Augment(_, _, _, _, _)
Augment(fits, n, g, a, path) ==
    IF a > n THEN [path EXCEPT !.found = FALSE]
    ELSE IF a \in path.visited \/ <<g, a>> \notin fits THEN Augment(fits, n, g, a + 1, path)
    ELSE LET here == [path EXCEPT !.visited = @ \cup {a}]
             freed == IF here.goalOf[a] = 0 THEN [here EXCEPT !.found = TRUE]
                      ELSE Augment(fits, n, here.goalOf[a], 1, here)
         IN  IF freed.found THEN [freed EXCEPT !.goalOf[a] = g]
             ELSE Augment(fits, n, g, a + 1, freed)

\* The goals that the conditions need: each named goal, with an assist when one
\* can be of it, and the assists left over, whose scorer is still open.
ReturnPairs(t, w) ==
    LET scorers == Selected("goal", t)
        assisters == Selected("assist", t)
        n == Len(assisters)
        Extend(matched, g) ==
            Augment(Fits(t, w), n, g, 1, [visited |-> {}, goalOf |-> matched, found |-> FALSE]).goalOf
        goalOf == FoldLeft(Extend, [a \in 1..n |-> 0], [g \in DOMAIN scorers |-> g])
        AssisterOf(g) == IF \E a \in 1..n : goalOf[a] = g
                         THEN assisters[CHOOSE a \in 1..n : goalOf[a] = g] ELSE Nobody
        left == SelectSeq([a \in 1..n |-> a], LAMBDA a : goalOf[a] = 0)
    IN  [g \in DOMAIN scorers |-> <<scorers[g], AssisterOf(g)>>]
            \o [i \in DOMAIN left |-> <<Nobody, assisters[left[i]]>>]

\* What contradicts the score of one team, or its lineup.
TeamConflict(t) ==
    LET lose == Has("lose_clean_sheet", Opponent(t))
        scorers == Len(Selected("goal", t))
        assisters == Len(Selected("assist", t))
        potential == [p \in Of(t) |-> PotentialWindow(p)]
    IN  \/ /\ Has("clean_sheet", Opponent(t))
           /\ match.score[t] > 0 \/ scorers > 0 \/ assisters > 0 \/ lose \/ (Scored /\ Fixed(t) > 0)
        \/ /\ Scored
           /\ \/ Fixed(t) < match.score[t] + Max({scorers, assisters})
              \/ lose /\ Fixed(t) = 0
              \/ Fixed(t) - match.score[t] < Len(ReturnPairs(t, potential))
        \/ \E q \in Of(t) : Crowded({p \in Required(t) : On(p, potential, potential[q][1])})
        \/ Cardinality({p \in Of(t) : Has("substitute", p)}) > MaxSubs

Contradictory ==
    (\E c \in rules : BadCondition(c)) \/ (\E p \in Players : PlayerConflict(p)) \/ (\E t \in BothTeams : TeamConflict(t))

-----------------------------------------------------------------------------
(* The question                                                            *)

Init ==
    /\ \E c \in Cases : match = c.match /\ rules = c.rules
    /\ stage = "asked" /\ side = Home
    /\ windows = <<>> /\ starters = {} /\ reserves = <<>> /\ substitutes = 0
    /\ goals = <<>> /\ events = <<>>

At(s) == stage = s /\ UNCHANGED <<match, rules>>
Conflict == stage' = "conflict" /\ UNCHANGED <<side, windows, starters, reserves, substitutes, goals, events>>

Refuse ==
    /\ At("asked") /\ Contradictory
    /\ stage' = "refused"
    /\ UNCHANGED <<side, windows, starters, reserves, substitutes, goals, events>>

\* A match that is over is not drawn.
Accept ==
    /\ At("asked") /\ ~match.finished /\ ~Contradictory
    /\ stage' = "windows"
    /\ UNCHANGED <<side, windows, starters, reserves, substitutes, goals, events>>

-----------------------------------------------------------------------------
(* Windows: everyone in turn, then the eleven, then the bench              *)

Undecided == Of(side) \ (DOMAIN windows \cup starters \cup ToSet(reserves))
Deciding(p) == At("windows") /\ Undecided # {} /\ p = Min(Undecided)

NotInSquad(p) == Status(p) = "absent" /\ Observed(p) = 0
Out(p) == Has("dnp", p) \/ NotInSquad(p)

Place(p, w) ==
    /\ windows' = (p :> w) @@ windows
    /\ UNCHANGED <<stage, side, starters, reserves, substitutes, goals, events>>
Start(p) ==
    /\ starters' = starters \cup {p}
    /\ UNCHANGED <<stage, side, windows, reserves, substitutes, goals, events>>
SitOut(p) ==
    /\ reserves' = Append(reserves, p)
    /\ UNCHANGED <<stage, side, windows, starters, substitutes, goals, events>>

\* How long a player of a match under way may be on the pitch.
Usual(p) ==
    LET first == Max({0, Clock - Observed(p)})
        last == IF Old(p).red \/ Trails(p) THEN Clock ELSE Full
    IN  IF Named(p) /\ ~Old(p).red /\ WentOff(p) THEN <<first, Clock>>
        ELSE IF CameOn(p) /\ ~Old(p).red /\ match.sheet[p].on <= Clock THEN <<match.sheet[p].on, Full>>
        ELSE <<first, last>>
Entering == IF Clock < Full
            THEN {<<Min({Full - 1, Clock + k}), Full>> : k \in 1..Max({1, Full - Clock})} ELSE {<<Clock, Full>>}
Possible(p) ==
    LET u == Usual(p)
        required == p \in Required(Team[p])
    IN  IF Observed(p) = 0 /\ ~Old(p).red /\ ~CameOn(p)
        THEN Entering \cup (IF required THEN {} ELSE {<<Clock, Clock>>})
        ELSE IF u[2] > Clock /\ ~required THEN {u} \cup {<<u[1], e>> : e \in Clock..Full}
        ELSE {u}
LiveWindows(p) ==
    IF ~Live(p) THEN {<<Clock, Clock>>}
    ELSE IF Has("substitute", p) THEN {<<Full - Value("substitute", p), Full>>}
    ELSE IF ~Has("minutes", p) THEN Possible(p)
    ELSE IF Observed(p) > 0 THEN {<<w[1], w[1] + Value("minutes", p)>> : w \in Possible(p)}
    ELSE {<<Full - Value("minutes", p), Full>>}

\* A bench player who must come on.
Durations(p) ==
    IF Has("minutes", p) THEN {Value("minutes", p)}
    ELSE IF CameoMinutes[p] # {} THEN CameoMinutes[p] ELSE DefaultCameos

NotAppearing(p) ==
    Deciding(p) /\ Out(p) /\ (Has("dnp", p) \/ p \notin Required(side)) /\ Place(p, <<Full, Full>>)
AbsentRequired(p) ==
    Deciding(p) /\ ~Has("dnp", p) /\ NotInSquad(p) /\ p \in Required(side) /\ Conflict
UnderWay(p) ==
    /\ Deciding(p) /\ ~Out(p) /\ match.started
    /\ \E w \in LiveWindows(p) : Place(p, w)

Upcoming(p) == Deciding(p) /\ ~Out(p) /\ ~match.started
SelectedCameo(p) ==
    Upcoming(p) /\ Has("substitute", p) /\ Place(p, <<Full - Value("substitute", p), Full>>)
RequiredBench(p) ==
    /\ Upcoming(p) /\ ~Has("substitute", p) /\ Status(p) = "bench" /\ p \in Required(side)
    /\ \E d \in Durations(p) : Place(p, <<Full - d, Full>>)
\* Unless he is required or confirmed, chance decides.
StartOrNot(p) ==
    /\ Upcoming(p) /\ ~Has("substitute", p) /\ ~(Status(p) = "bench" /\ p \in Required(side))
    /\ \/ Status(p) # "bench" /\ Start(p)
       \/ Status(p) # "starter" /\ p \notin Required(side) /\ SitOut(p)

\* Required players first, then confirmed ones, then by rate.
Rank(p) == <<IF p \in Required(Team[p]) THEN 0 ELSE 1, IF Named(p) THEN 0 ELSE 1, -StartRate[p], p>>
Before(p, q) == \E i \in 1..4 : Rank(p)[i] < Rank(q)[i] /\ \A j \in 1..(i - 1) : Rank(p)[j] = Rank(q)[j]
Sorted(S) == SortSeq(ById(S), Before)
Upto(s, n) == SubSeq(s, 1, Min({n, Len(s)}))
Beyond(s, n) == SubSeq(s, n + 1, Len(s))

\* Mutant: a scorer may leave before the one who assists him comes on.
EndsAnywhere(p) == IF Has("minutes", p) THEN {Value("minutes", p)} ELSE StartMinutes[p]

\* A scorer stays until the last selected scorer or assister may have come on.
Ends(p) ==
    LET latest == Max({PotentialWindow(q)[1] : q \in {r \in Of(side) : HasAny(Returns, r)}})
        late == {e \in StartMinutes[p] : e > latest}
    IN  IF Has("minutes", p) THEN {Value("minutes", p)}
        ELSE IF ~HasAny(Returns, p) THEN StartMinutes[p]
        ELSE IF late # {} THEN late ELSE {Full}

LineUp ==
    /\ At("windows") /\ Undecided = {} /\ ~match.started
    /\ LET keepers == Sorted(starters \cap Keepers)
           field == Sorted((starters \ Keepers) \cup ToSet(Upto(keepers, 1)))
           eleven == ToSet(Upto(field, Side))
       IN  /\ reserves' = reserves \o Beyond(keepers, 1) \o Beyond(field, Side)
           /\ \E end \in [eleven -> 1..Full] :
                 /\ \A p \in eleven : end[p] \in Ends(p)
                 /\ windows' = [p \in eleven |-> <<0, end[p]>>] @@ windows
    /\ stage' = "bench"
    /\ UNCHANGED <<side, starters, substitutes, goals, events>>

MayEnter(p, m) ==
    LET on == {q \in Of(side) \cap DOMAIN windows : On(q, windows, m)}
    IN  Cardinality(on) < Side /\ ~(p \in Keepers /\ on \cap Keepers # {})
EntryMinutes(p) == IF CameoMinutes[p] # {} THEN {Full - d : d \in CameoMinutes[p]} ELSE LateStarts

ComeOn(m) ==
    /\ At("bench") /\ reserves # <<>> /\ substitutes < MaxSubs
    /\ LET p == Head(reserves)
       IN  m \in EntryMinutes(p) /\ MayEnter(p, m) /\ windows' = (p :> <<m, Full>>) @@ windows
    /\ reserves' = Tail(reserves) /\ substitutes' = substitutes + 1
    /\ UNCHANGED <<stage, side, starters, goals, events>>
StayOff ==
    /\ At("bench") /\ reserves # <<>>
    /\ windows' = (Head(reserves) :> <<Full, Full>>) @@ windows
    /\ reserves' = Tail(reserves)
    /\ UNCHANGED <<stage, side, starters, substitutes, goals, events>>

\* Who keeps his place, of those on the pitch at m, in order of rank.
Retained(S) ==
    FoldLeft(LAMBDA kept, p : IF Crowded(kept \cup {p}) THEN kept ELSE kept \cup {p}, {}, Sorted(S))
Displaced(w, m) == LET on == {p \in Of(side) : On(p, w, m)} IN on \ Retained(on)
Boundaries ==
    SetToSortSeq({m \in {Clock} \cup UNION {{windows[p][1], windows[p][2]} : p \in Of(side)} :
                     Clock <= m /\ m < Full}, <)
Truncate(w, m) ==
    [p \in DOMAIN w |-> IF p \in Displaced(w, m) THEN <<w[p][1], Max({w[p][1], m})>> ELSE w[p]]
\* The windows before the first boundary, at the second, and so on.
Truncated(n) == FoldLeft(Truncate, windows, Upto(Boundaries, n))
Clash == \E n \in DOMAIN Boundaries : Displaced(Truncated(n - 1), Boundaries[n]) \cap Required(side) # {}

Placed ==
    \/ stage = "bench" /\ reserves = <<>>
    \/ stage = "windows" /\ match.started /\ Undecided = {}
Resolve ==
    /\ Placed /\ UNCHANGED <<match, rules>>
    /\ \/ Clash /\ Conflict
       \/ /\ ~Clash
          /\ windows' = Truncated(Len(Boundaries))
          /\ side' = Opponent(side) /\ stage' = IF side = Home THEN "windows" ELSE "score"
          /\ starters' = {} /\ reserves' = <<>> /\ substitutes' = 0
          /\ UNCHANGED <<goals, events>>

-----------------------------------------------------------------------------
(* Goals                                                                   *)

Pairs == ReturnPairs(side, windows)
Least == Max({Len(Pairs), IF Has("lose_clean_sheet", Opponent(side)) /\ match.score[side] = 0 THEN 1 ELSE 0})
Counts ==
    IF Scored THEN {Fixed(side) - match.score[side]}
    ELSE IF Has("clean_sheet", Opponent(side)) THEN {0}
    ELSE {Max({Least, k}) : k \in IF Clock < Full THEN 0..MaxGoals ELSE {0}}

TooFew(n) == Scored /\ n < Least
TooLate(n) == Clock >= Full /\ n > 0

Score ==
    /\ At("score")
    /\ \/ \E n \in Counts : (TooFew(n) \/ TooLate(n)) /\ Conflict
       \/ \E n \in Counts :
             /\ ~TooFew(n) /\ ~TooLate(n)
             /\ goals' = [i \in 1..n |-> IF i <= Len(Pairs) THEN Pairs[i] ELSE <<Nobody, Nobody>>]
             /\ stage' = "goals"
             /\ UNCHANGED <<side, windows, starters, reserves, substitutes, events>>

Minutes(goal) ==
    LET named == {goal[1], goal[2]} \ {Nobody}
    IN  Max({Clock} \cup {windows[p][1] : p \in named})..(Min({Full} \cup {windows[p][2] : p \in named}) - 1)

\* Who may be drawn for a goal or an assist at minute m: players on the pitch
\* whose returns the conditions leave open, or an anonymous team-mate.
Slots(m) ==
    LET on == {p \in Of(side) : On(p, windows, m)}
        off == {p \in Of(side) : Old(p).red}
    IN  Max({0, Side - Cardinality(off) - Cardinality(on)})
\* Mutant: who has the goals he was to score may score another.
AllocateAnyone(kind, m, but) ==
    {p \in Of(side) : ~Has("blank", p) /\ p # but /\ On(p, windows, m)}
        \cup (IF Slots(m) > 0 THEN {Nobody} ELSE {})

Allocate(kind, m, but) ==
    {p \in Of(side) : /\ ~HasAny({"blank", kind}, p) /\ p # but
                      /\ On(p, windows, m)}
        \cup (IF Slots(m) > 0 THEN {Nobody} ELSE {})

Scorers(goal, m) == IF goal[1] # Nobody THEN {goal[1]} ELSE Allocate("goal", m, goal[2])
Assisters(goal, scorer, m) ==
    IF goal[2] # Nobody THEN {goal[2]} ELSE {Nobody} \cup Allocate("assist", m, scorer)

Goal ==
    /\ At("goals") /\ goals # <<>>
    /\ \/ \E m \in Minutes(Head(goals)) : \E s \in Scorers(Head(goals), m) :
             \E a \in Assisters(Head(goals), s, m) :
                /\ events' = Append(events, [team |-> side, scorer |-> s, assister |-> a, minute |-> m])
                /\ goals' = Tail(goals)
                /\ UNCHANGED <<stage, side, windows, starters, reserves, substitutes>>
       \/ Minutes(Head(goals)) = {} /\ Conflict
       \/ \E m \in Minutes(Head(goals)) : Scorers(Head(goals), m) = {} /\ Conflict

Whistle ==
    /\ At("goals") /\ goals = <<>>
    /\ side' = Opponent(side) /\ stage' = IF side = Home THEN "score" ELSE "done"
    /\ UNCHANGED <<windows, starters, reserves, substitutes, goals, events>>

Next ==
    \/ Refuse \/ Accept
    \/ \E p \in Players :
          \/ NotAppearing(p) \/ AbsentRequired(p) \/ UnderWay(p)
          \/ SelectedCameo(p) \/ RequiredBench(p) \/ StartOrNot(p)
    \/ LineUp
    \/ \E m \in 0..(Full - 1) : ComeOn(m)
    \/ StayOff \/ Resolve \/ Score \/ Goal \/ Whistle

Spec == Init /\ [][Next]_drawVars

-----------------------------------------------------------------------------
(* The match that was drawn                                                *)

Total(t) == match.score[t] + Cardinality({i \in DOMAIN events : events[i].team = t})

Final(p) ==
    LET from == windows[p][1]
        until == windows[p][2]
        minutes == IF match.started THEN Observed(p) + Max({0, until - Max({Clock, from})})
                   ELSE Max({Observed(p), until - from})
        conceded == Old(p).conceded
            + Cardinality({i \in DOMAIN events : /\ events[i].team # Team[p]
                                                 /\ On(p, windows, events[i].minute) \/ Old(p).red})
    IN  [minutes |-> minutes,
         goals |-> Old(p).goals + Cardinality({i \in DOMAIN events : events[i].scorer = p}),
         assists |-> Old(p).assists + Cardinality({i \in DOMAIN events : events[i].assister = p}),
         conceded |-> conceded,
         cleanSheet |-> minutes >= Long /\ conceded = 0]

\* The two feeds tell the same of a player who came on: the minute of the one,
\* and the minutes of the other.
FeedsAgree(p) == CameOn(p) => match.sheet[p].on + Observed(p) = Clock

\* What a condition asks of the match.
Fulfilled(c) ==
    CASE c.kind = "goal" -> Final(c.of).goals = Old(c.of).goals + c.value
      [] c.kind = "assist" -> Final(c.of).assists = Old(c.of).assists + c.value
      [] c.kind = "blank" -> Final(c.of).goals = Old(c.of).goals /\ Final(c.of).assists = Old(c.of).assists
      [] c.kind = "dnp" -> Final(c.of).minutes = 0
      [] c.kind = "minutes" -> FeedsAgree(c.of) => Final(c.of).minutes = c.value
      [] c.kind = "substitute" -> Final(c.of).minutes = c.value /\ windows[c.of][2] = Full
      [] c.kind = "clean_sheet" -> Total(Opponent(c.of)) = 0
      [] c.kind = "lose_clean_sheet" -> Total(Opponent(c.of)) > 0
      [] c.kind = "score" -> Total(Home) = c.home /\ Total(Away) = c.away

\* The match is one that can be played from where it stands: no minute has too
\* many players or two goalkeepers of a side on the pitch, every new goal falls
\* in the time left, its scorer and assister are two players of that side on the
\* pitch at that minute who were not sent off, and an anonymous scorer has a
\* place among the eleven.
Playable ==
    /\ \A t \in BothTeams : \A m \in Clock..(Full - 1) : ~Crowded({p \in Of(t) : On(p, windows, m)})
    /\ \A i \in DOMAIN events :
          LET e == events[i]
              named == {e.scorer, e.assister} \ {Nobody}
          IN  /\ Clock <= e.minute /\ e.minute < Full
              /\ e.scorer # Nobody => e.scorer # e.assister
              /\ named \subseteq {p \in Of(e.team) : On(p, windows, e.minute) /\ ~Old(p).red}
              /\ e.scorer = Nobody =>
                    Cardinality({p \in Of(e.team) : On(p, windows, e.minute) \/ Old(p).red}) < Side

\* As few goals as the named scorers and assisters allow, over all ways to join
\* an assist to a goal.
FewestGoals(t) ==
    LET fits == Fits(t, windows)
        Joined == {M \in SUBSET fits : \A x, y \in M : x[1] = y[1] <=> x[2] = y[2]}
    IN  Len(Selected("goal", t)) + Len(Selected("assist", t)) - Max({Cardinality(M) : M \in Joined})

\* What is left to the draw although it may fail there: a named player whose
\* minutes are still chance - one on the bench, or one without minutes in a match
\* under way -, who is not in the squad, has no time left for his return, or is
\* given other minutes by each feed; a match out of time; and a side of which
\* those who may still score need not be on the pitch.
Excused ==
    \/ \E p \in Required(Home) \cup Required(Away) :
          \/ Status(p) \in {"bench", "absent"}
          \/ match.started /\ Observed(p) = 0 /\ ~HasAny({"minutes", "substitute"}, p)
          \/ HasAny(Returns, p) /\ PotentialWindow(p)[2] <= Clock
          \/ ~FeedsAgree(p)
    \/ Clock >= Full
    \/ \E t \in BothTeams : Cardinality({p \in Of(t) : HasAny(Returns \cup {"blank"}, p) \/ Old(p).red}) >= Side

\* FORECASTING.md:135: a match drawn under accepted conditions fulfils each of
\* them exactly and can be played (_add, _validate, _windows, sample_fixture);
\* _return_pairs finds the fewest goals that do; and what was accepted is
\* refused later only for the reasons of Excused.
ForecastHonest ==
    /\ stage = "done" => Playable /\ \A c \in rules : Fulfilled(c)
    /\ stage \in {"score", "goals"} => Len(Pairs) = FewestGoals(side)
    /\ stage = "conflict" => Excused
=============================================================================
