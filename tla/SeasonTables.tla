---------------------------- MODULE SeasonTables ----------------------------
(***************************************************************************)
(* The statistics of a season (analytics/calculations.py): from the score  *)
(* lists of a league's managers the table of each completed Gameweek and   *)
(* of each manager, and from the final squads behind those scores who      *)
(* contributed what.                                                       *)
(*                                                                         *)
(* Scores and squads become known in any order, and some never do.  Each   *)
(* statistic is an operator on what is known; means, medians, quartiles,   *)
(* percentages and their rounding are left out.                            *)
(***************************************************************************)
EXTENDS Integers, FiniteSets, FiniteSetsExt

CONSTANTS
    Members, Weeks,          \* of the league; the completed Gameweeks
    Rows,                    \* of a week: [raw, hits], what a score list may say of it
    Selections,              \* final squads, as FPL publishes them
    PositionIn,              \* of a player; NoPosition when the catalogue lacks him
    NoPosition,
    SquadSize, Starting,     \* fifteen, of whom eleven start
    MaxDetails               \* bound of the model: final squads verified

VARIABLES
    rows,            \* <<member, week>> -> [raw, hits], for the scores published
    details          \* <<member, week>> -> what was made of the final squad

tableVars == <<rows, details>>

\* A sum over the domain of a function.
Sum(f) == MapThenSumSet(LAMBDA x : f[x], DOMAIN f)

-----------------------------------------------------------------------------
(* The weeks (season_summary)                                              *)

WithScore(g) == {m \in Members : <<m, g>> \in DOMAIN rows}
Score(m, g) == rows[<<m, g>>].raw - rows[<<m, g>>].hits

\* Ranks, and who is last, only for weeks with everybody's score.
Full(g) == WithScore(g) = Members

\* How many have less, or more, than m.
Behind(m, g) == {x \in WithScore(g) : Score(x, g) < Score(m, g)}
Ahead(m, g) == {x \in WithScore(g) : Score(x, g) > Score(m, g)}

Rank(m, g) == 1 + Cardinality(Ahead(m, g))

\* The score at place i from below, every manager counting.
Place(i, g) ==
    CHOOSE s \in {Score(m, g) : m \in WithScore(g)} :
        /\ Cardinality({m \in WithScore(g) : Score(m, g) < s}) < i
        /\ Cardinality({m \in WithScore(g) : Score(m, g) <= s}) >= i

IsLast(m, g) == Score(m, g) = Place(1, g)

\* Mutant: the third-lowest of the different scores.
ThirdDistinct(m, g) ==
    Cardinality({Score(x, g) : x \in Behind(m, g)}) < 3

BottomThree(m, g) == Score(m, g) <= Place(Min({3, Cardinality(WithScore(g))}), g)

Margin(g) == Place(2, g) - Place(1, g)
HasMargin(g) == Full(g) /\ Cardinality(Members) > 1

-----------------------------------------------------------------------------
(* The managers (season_summary, head_to_head)                             *)

History(m) == {g \in Weeks : <<m, g>> \in DOMAIN rows}
Ranked(m) == {g \in History(m) : Full(g)}

Total(m, weeks) == Sum([g \in weeks |-> Score(m, g)])
Cumulative(m, g) == Total(m, {h \in History(m) : h <= g})

TimesLast(m) == {g \in Ranked(m) : IsLast(m, g)}
TimesBottomThree(m) == {g \in Ranked(m) : BottomThree(m, g)}
Wins(m) == {g \in Ranked(m) : Rank(m, g) = 1}
Escapes(m) == {Score(m, g) - Place(1, g) : g \in Ranked(m) \ TimesLast(m)}
Losses(m) == {Margin(g) : g \in {h \in TimesLast(m) : HasMargin(h)}}

Common(a, b) == History(a) \cap History(b)
Better(a, b) == {g \in Common(a, b) : Score(a, g) > Score(b, g)}

Largest(S) == IF S = {} THEN 0 ELSE Max(S)
HeadToHead(a, b) ==
    [common |-> Common(a, b), a_wins |-> Better(a, b), b_wins |-> Better(b, a),
     largest_a |-> Largest({Score(a, g) - Score(b, g) : g \in Better(a, b)}),
     largest_b |-> Largest({Score(b, g) - Score(a, g) : g \in Better(b, a)}),
     a_points |-> Total(a, Common(a, b)), b_points |-> Total(b, Common(a, b))]

-----------------------------------------------------------------------------
(* Final squads (scoring_detail)                                           *)

\* A selection: the points its history names, the chip, and of each player
\* [slot, multiplier, captain, points].
Counted(x, p) == x.players[p].points * x.players[p].multiplier

Complete(x) ==
    /\ Cardinality(DOMAIN x.players) = SquadSize
    /\ \E p \in DOMAIN x.players : x.players[p].captain
AddsUp(x) == Sum([p \in DOMAIN x.players |-> Counted(x, p)]) = x.points

Benched(x) == {p \in DOMAIN x.players : x.players[p].slot > Starting}
Doubled(x) == {p \in DOMAIN x.players : x.players[p].multiplier > 1}
First(x, S) == CHOOSE p \in S : \A q \in S : x.players[p].slot <= x.players[q].slot

\* Mutant: a bench player who came on is unused all the same.
UnusedOfBench(x) ==
    IF x.chip = "bboost" THEN 0 ELSE Sum([p \in Benched(x) |-> x.players[p].points])

Unused(x) ==
    IF x.chip = "bboost" THEN 0
    ELSE Sum([p \in {q \in Benched(x) : x.players[q].multiplier = 0} |-> x.players[p].points])

Boost(x) ==
    IF x.chip = "bboost" THEN Sum([p \in Benched(x) |-> Counted(x, p)]) ELSE 0

\* What the armband added, to the first player whose points were doubled.
CaptainAdditional(x) ==
    IF Doubled(x) = {} THEN 0
    ELSE LET p == First(x, Doubled(x)) IN x.players[p].points * (x.players[p].multiplier - 1)

Additional(x, p) == x.players[p].points * Max({0, x.players[p].multiplier - 1})

Positioned(x) == \A p \in DOMAIN x.players : PositionIn[p] # NoPosition
OfPosition(x, pos) ==
    Sum([p \in {q \in DOMAIN x.players : PositionIn[q] = pos} |-> Counted(x, p)])

Detail(x) ==
    [raw |-> x.points, chip |-> x.chip, unused |-> Unused(x), boost |-> Boost(x),
     captain |-> First(x, {p \in DOMAIN x.players : x.players[p].captain}),
     additional |-> CaptainAdditional(x),
     positions |-> IF Positioned(x) THEN [pos \in {"GK", "DEF", "MID", "FWD"} |-> OfPosition(x, pos)] ELSE <<>>,
     players |-> [p \in DOMAIN x.players |->
        [points |-> Counted(x, p), base |-> x.players[p].points, additional |-> Additional(x, p),
         scoring |-> x.players[p].multiplier > 0]]]

-----------------------------------------------------------------------------
(* The season with its squads (enrich_season)                              *)

WithDetail(g) == {m \in WithScore(g) : <<m, g>> \in DOMAIN details}
VerifiedOf(m) == {g \in History(m) : <<m, g>> \in DOMAIN details}

Owned(p, g) == {m \in WithDetail(g) : p \in DOMAIN details[<<m, g>>].players}
Captains(p, g) == {m \in WithDetail(g) : details[<<m, g>>].captain = p}

SumDetails(D, Value(_)) == Sum([k \in D |-> Value(details[k])])
WithPlayer(p) == {k \in DOMAIN details : p \in DOMAIN details[k].players}

Contribution(p) ==
    [points |-> SumDetails(WithPlayer(p), LAMBDA d : d.players[p].points),
     appearances |-> Cardinality({k \in WithPlayer(p) : details[k].players[p].scoring}),
     captaincies |-> Cardinality({k \in WithPlayer(p) : details[k].captain = p}),
     additional |-> SumDetails(WithPlayer(p), LAMBDA d : d.players[p].additional)]
Contributors == UNION {DOMAIN details[k].players : k \in DOMAIN details}

Of(m) == {<<m, g>> : g \in VerifiedOf(m)}
ManagerTotals(m) ==
    [bench |-> SumDetails(Of(m), LAMBDA d : d.unused),
     boost |-> SumDetails(Of(m), LAMBDA d : d.boost),
     additional |-> SumDetails(Of(m), LAMBDA d : d.additional),
     captains |-> {details[k].captain : k \in Of(m)},
     positions |-> [pos \in {"GK", "DEF", "MID", "FWD"} |->
        SumDetails({k \in Of(m) : details[k].positions # <<>>}, LAMBDA d : d.positions[pos])]]

SeasonTotals ==
    [bench |-> SumDetails(DOMAIN details, LAMBDA d : d.unused),
     additional |-> SumDetails(DOMAIN details, LAMBDA d : d.additional)]

-----------------------------------------------------------------------------
(* The squads of this Gameweek (current_squads), those that are known      *)

Owners(squads, p) == {m \in DOMAIN squads : p \in DOMAIN squads[m].players}
AnyOwned(squads) == UNION {DOMAIN squads[m].players : m \in DOMAIN squads}
Starters(squads, p) == {m \in Owners(squads, p) : squads[m].players[p].slot <= Starting}

CurrentSquads(squads) ==
    [p \in AnyOwned(squads) |->
        [owners |-> Owners(squads, p), starting |-> Starters(squads, p),
         bench |-> Owners(squads, p) \ Starters(squads, p),
         captains |-> {m \in Owners(squads, p) : squads[m].players[p].captain},
         weight |-> Sum([m \in Owners(squads, p) |-> squads[m].players[p].multiplier])]]

Overlap(squads, a, b) ==
    LET of(m) == DOMAIN squads[m].players
    IN  [shared |-> of(a) \cap of(b), only_a |-> of(a) \ of(b), only_b |-> of(b) \ of(a)]

-----------------------------------------------------------------------------
\* What FPL publishes of a squad: one captain at most, and points that are not counted are
\* those of the bench without Bench Boost, or none.
LegalSelection(x) ==
    /\ x.points \in Int /\ IsFiniteSet(DOMAIN x.players)
    /\ \A p \in DOMAIN x.players :
          /\ x.players[p] \in [slot : Nat, multiplier : Nat, captain : BOOLEAN, points : Int]
          /\ x.players[p].multiplier = 0 /\ x.players[p].points # 0 =>
                 p \in Benched(x) /\ x.chip # "bboost"
    /\ \A p, q \in DOMAIN x.players : x.players[p].captain /\ x.players[q].captain => p = q

LegalConstants ==
    /\ Members # {} /\ IsFiniteSet(Members) /\ Weeks \subseteq Nat /\ IsFiniteSet(Weeks)
    /\ \A g \in Weeks : Rows[g] \subseteq [raw : Int, hits : Nat]
    /\ \A x \in Selections : LegalSelection(x)
    /\ SquadSize \in Nat /\ Starting \in Nat /\ MaxDetails \in Nat

TablesInit == rows = <<>> /\ details = <<>>

With(f, k, v) == [x \in DOMAIN f \cup {k} |-> IF x = k THEN v ELSE f[x]]

\* The score list of m has the week.
PublishScore(m, g, row) ==
    /\ <<m, g>> \notin DOMAIN rows
    /\ rows' = With(rows, <<m, g>>, row)
    /\ UNCHANGED details

\* The final squad of a score, if it is complete and adds up to it.
Verify(m, g, x) ==
    /\ <<m, g>> \in DOMAIN rows \ DOMAIN details
    /\ Cardinality(DOMAIN details) < MaxDetails
    /\ x.points = rows[<<m, g>>].raw
    /\ Complete(x) /\ AddsUp(x)
    /\ details' = With(details, <<m, g>>, Detail(x))
    /\ UNCHANGED rows

TablesNext ==
    \E m \in Members, g \in Weeks :
        \/ \E row \in Rows[g] : PublishScore(m, g, row)
        \/ \E x \in Selections : Verify(m, g, x)

TablesSpec == TablesInit /\ [][TablesNext]_tableVars

-----------------------------------------------------------------------------
(* Properties                                                              *)

(***************************************************************************)
(* The columns of the table agree.  In a week with everybody's score       *)
(* somebody is last, the bottom three are those with fewer than three      *)
(* others below them, the margin is the least escape when one manager      *)
(* alone is last and nothing when there are more; a manager's times last   *)
(* and escapes make up his ranked weeks; a comparison of two managers is   *)
(* the mirror of the one with the names exchanged, whose points its wins   *)
(* explain ("Ties share competition rank. Every tied lowest scorer counts as last. *)
(* Bottom three includes ties at the third-lowest score").                 *)
(***************************************************************************)
ColumnsAgree ==
    /\ \A g \in Weeks : Full(g) =>
        LET last == {m \in Members : g \in TimesLast(m)}
        IN  /\ last # {} /\ \A m \in last : Behind(m, g) = {}
            /\ {m \in Members : g \in TimesBottomThree(m)} = {m \in Members : Cardinality(Behind(m, g)) < 3}
            /\ HasMargin(g) => Margin(g) =
                   IF Cardinality(last) > 1 THEN 0
                   ELSE Min({Score(m, g) - Place(1, g) : m \in Members \ last})
            /\ \A m \in Members : Rank(m, g) = Cardinality(Members) + 1 - Cardinality(Behind(m, g))
                                  - Cardinality({x \in Members : Score(x, g) = Score(m, g)})
    /\ \A m \in Members :
        /\ \A g \in Weeks : ~Full(g) => g \notin TimesLast(m) \cup TimesBottomThree(m) \cup Wins(m)
        /\ Escapes(m) = {} <=> TimesLast(m) = Ranked(m)
        /\ \A e \in Escapes(m) : e > 0
        /\ History(m) # {} => Cumulative(m, Max(History(m))) = Total(m, History(m))
        /\ \A l \in Losses(m) : l >= 0
    /\ \A a, b \in Members :
        LET ab == HeadToHead(a, b)
            ba == HeadToHead(b, a)
        IN  /\ ab.a_wins = ba.b_wins /\ ab.largest_a = ba.largest_b /\ ab.a_points = ba.b_points
            /\ ab.a_points - ab.b_points \in
                   -(ab.largest_b * Cardinality(ab.b_wins))..(ab.largest_a * Cardinality(ab.a_wins))

(***************************************************************************)
(* Whatever has been verified so far, the players' contributions add up to *)
(* the official scores they come from; every squad has one captain and its *)
(* full number of owners; what was left on the bench is what the squad     *)
(* scored and the score did not count; and the season's totals are those   *)
(* of its managers (scoring_detail, enrich_season).                        *)
(***************************************************************************)
ContributionsAddUp ==
    LET all(Value(_)) == Sum([p \in Contributors |-> Value(p)])
        raw == SumDetails(DOMAIN details, LAMBDA d : d.raw)
        bases == SumDetails(DOMAIN details, LAMBDA d : Sum([p \in DOMAIN d.players |-> d.players[p].base]))
    IN  /\ all(LAMBDA p : Contribution(p).points) = raw
        /\ all(LAMBDA p : Contribution(p).captaincies) = Cardinality(DOMAIN details)
        /\ raw - all(LAMBDA p : Contribution(p).additional) + SeasonTotals.bench = bases
        /\ \A g \in Weeks :
              /\ all(LAMBDA p : Cardinality(Owned(p, g))) = SquadSize * Cardinality(WithDetail(g))
              /\ all(LAMBDA p : Cardinality(Captains(p, g))) = Cardinality(WithDetail(g))
        /\ SeasonTotals.bench = Sum([m \in Members |-> ManagerTotals(m).bench])
        /\ SeasonTotals.additional = Sum([m \in Members |-> ManagerTotals(m).additional])

\* Of squads that are known, nobody's player is lost or counted twice, and what
\* two managers share are the players both of them own.
SquadsAddUp(squads) ==
    LET records == CurrentSquads(squads)
        all(Value(_)) == Sum([p \in DOMAIN records |-> Value(p)])
        each(Value(_)) == Sum([m \in DOMAIN squads |-> Value(m)])
    IN  /\ all(LAMBDA p : Cardinality(records[p].starting) + Cardinality(records[p].bench))
               = each(LAMBDA m : Cardinality(DOMAIN squads[m].players))
        /\ all(LAMBDA p : records[p].weight)
               = each(LAMBDA m : Sum([p \in DOMAIN squads[m].players |-> squads[m].players[p].multiplier]))
        /\ all(LAMBDA p : Cardinality(records[p].captains)) = Cardinality({m \in DOMAIN squads :
               \E p \in DOMAIN squads[m].players : squads[m].players[p].captain})
        /\ \A a, b \in DOMAIN squads : a # b =>
              LET o == Overlap(squads, a, b)
              IN  /\ \A p \in DOMAIN records : p \in o.shared <=> {a, b} \subseteq records[p].owners
                  /\ Cardinality(o.shared) + Cardinality(o.only_a) = Cardinality(DOMAIN squads[a].players)

(***************************************************************************)
(* What has been published and verified so far is shown without a gap: the *)
(* columns agree, the contributions add up, and, before a score is known,   *)
(* so do the squads of the Gameweek, of whichever managers.                 *)
(***************************************************************************)
TablesAgree ==
    /\ ColumnsAgree /\ ContributionsAddUp
    /\ rows = <<>> => \A known \in SUBSET Members : Cardinality(known) <= 2 =>
                          \A squads \in [known -> Selections] : SquadsAddUp(squads)
=============================================================================
