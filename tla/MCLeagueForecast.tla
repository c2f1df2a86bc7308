--------------------------- MODULE MCLeagueForecast ---------------------------
(***************************************************************************)
(* The parts that answer questions on a Gameweek: snapshot, lineups and    *)
(* search (MCRouteSearch), the draw of one match (FixtureForecast) and the *)
(* forecast of a league made of such draws (LeagueOutlook).  A behaviour   *)
(* is of one of them.                                                      *)
(***************************************************************************)
EXTENDS MCRouteSearch

CONSTANTS
    Home, Away, Nobody, Untold, NoTime
VARIABLES
    match, rules, drawStage, side, windows, starters, reserves, substitutes, goals, events,
    tiesCount, candidates, draws, cache, multipliers, finals, lastIn, outright, tied, groupCache, checkpoints

-----------------------------------------------------------------------------
(* A match of four minutes between sides of three, with one substitution:  *)
(* five players of one club and one of the other are known.                *)

Rule(kind, of, value) == [kind |-> kind, of |-> of, value |-> value, home |-> 0, away |-> 0]
Ending(h, a) == [kind |-> "score", of |-> Nobody, value |-> 1, home |-> h, away |-> a]

PlaysFor == [p \in 1..6 |-> IF p = 6 THEN Away ELSE Home]
RateOf == [p \in 1..6 |-> CASE p = 4 -> 9 [] p = 3 -> 1 [] OTHER -> 5]
StayOf == [p \in 1..6 |-> IF p \in {2, 3} THEN {2, 4} ELSE {4}]
CameoOf == [p \in 1..6 |-> IF p \in {2, 4} THEN {1, 3} ELSE {}]

Unplayed == [finished |-> FALSE, started |-> FALSE, elapsed |-> 0, score |-> (Home :> 0 @@ Away :> 0),
             minutes |-> <<>>, stats |-> <<>>, sheet |-> <<>>]
Sheet(status, on, off) == [status |-> status, on |-> on, off |-> off]
PlayerLine(minutes, g, a, c, red) ==
    [minutes |-> minutes, goals |-> g, assists |-> a, conceded |-> c, booked |-> FALSE, red |-> red]
Announced == [Unplayed EXCEPT !.sheet =
    1 :> Sheet("starter", 0, Untold) @@ 2 :> Sheet("starter", 0, Untold)
        @@ 3 :> Sheet("bench", Untold, Untold) @@ 4 :> Sheet("absent", Untold, Untold)]
\* MatchTwo of four minutes played.
Running == [Unplayed EXCEPT !.started = TRUE, !.elapsed = 2, !.score = (Home :> 1 @@ Away :> 0),
    !.stats = 1 :> PlayerLine(2, 0, 0, 0, FALSE) @@ 2 :> PlayerLine(2, 1, 0, 0, FALSE)
              @@ 3 :> PlayerLine(0, 0, 0, 0, FALSE)
              @@ 4 :> PlayerLine(2, 0, 1, 0, TRUE) @@ 5 :> PlayerLine(0, 0, 0, 0, FALSE)
              @@ 6 :> PlayerLine(2, 0, 0, 1, FALSE)]
\* MatchThree played: 2 went off, 3 came on for him, nothing is known of 6.
LateOn == [Unplayed EXCEPT !.started = TRUE, !.elapsed = 3, !.minutes = (6 :> 3),
    !.stats = 1 :> PlayerLine(3, 0, 0, 0, FALSE) @@ 2 :> PlayerLine(1, 0, 0, 0, FALSE)
              @@ 3 :> PlayerLine(1, 0, 0, 0, FALSE)
              @@ 4 :> PlayerLine(3, 0, 0, 0, FALSE) @@ 5 :> PlayerLine(0, 0, 0, 0, FALSE)]
Followed == [LateOn EXCEPT !.sheet = 2 :> Sheet("starter", 0, 1) @@ 3 :> Sheet("bench", 2, Untold)]
Finished == [LateOn EXCEPT !.elapsed = 4]

\* The minutes of the two feeds do not agree on 1.
Crossed == [Running EXCEPT !.sheet = 1 :> Sheet("starter", 1, Untold), !.stats[5].red = FALSE]

AskedOf(m, rs) == {[match |-> m, rules |-> r] : r \in rs}
Questions ==
    AskedOf(Unplayed,
      {{Ending(1, 0)}, {Rule("goal", 2, 1), Rule("assist", 3, 1), Rule("substitute", 3, 1), Ending(1, 0)},
       {Rule("goal", 2, 1), Rule("minutes", 2, 2), Rule("assist", 3, 1), Rule("substitute", 3, 1), Ending(1, 0)},
       {Rule("goal", 2, 1), Rule("goal", 3, 1), Rule("assist", 1, 1), Rule("assist", 3, 1), Rule("clean_sheet", Home, 1)},
       {Rule("goal", 2, 1), Rule("assist", 2, 1), Ending(1, 0)},
       {Rule("goal", 3, 1), Rule("minutes", 3, 2), Rule("assist", 2, 1), Ending(1, 0)},
       {Rule("clean_sheet", Home, 1), Rule("lose_clean_sheet", Away, 1), Rule("dnp", 2, 1), Rule("blank", 3, 1)},
       {Rule("clean_sheet", Home, 1), Rule("goal", 6, 1)}, {Rule("dnp", 2, 1), Rule("goal", 2, 1)},
       {Rule("substitute", 2, 1), Rule("substitute", 3, 1)}, {Rule("minutes", 1, 4), Rule("goal", 5, 1)},
       {Rule("goal", p, 1) : p \in 1..4}, {Rule("goal", 2, 1), Rule("goal", 2, 2)}, {Rule("goal", 9, 1)}})
    \cup AskedOf(Announced,
      {{Rule("goal", 3, 1), Ending(2, 0)}, {Rule("assist", 4, 1)},
       {Rule("minutes", 3, 2), Rule("goal", 1, 1), Ending(1, 0)},
       {Rule("goal", 2, 1), Rule("assist", 3, 1), Rule("minutes", 2, 2), Ending(1, 0)}})
    \cup AskedOf(Running,
      {{Ending(2, 0)}, {Rule("goal", 3, 1), Rule("assist", 2, 1), Ending(2, 0)}, {Rule("goal", 4, 1)},
       {Rule("minutes", 2, 3), Rule("substitute", 3, 1), Rule("goal", 2, 1), Rule("assist", 3, 1)},
       {Rule("substitute", 3, 2), Rule("goal", 5, 1)}, {Rule("minutes", 2, 2), Rule("goal", 2, 1)},
       {Rule("clean_sheet", Home, 1), Rule("dnp", 3, 1), Rule("minutes", 1, 2)}, {Ending(0, 0)},
       {Rule("blank", p, 1) : p \in 1..5} \cup {Ending(2, 0)}})
    \cup AskedOf(LateOn,
      {{Ending(1, 0)}, {Rule("goal", 3, 1)}, {Rule("minutes", 3, 2), Rule("goal", 3, 1)}, {Rule("goal", 6, 1)},
       {Rule("lose_clean_sheet", Home, 1)}})
    \cup AskedOf(Followed,
      {{Rule("goal", 3, 1)}, {Rule("minutes", 3, 2)}, {Rule("goal", 2, 1)}, {Rule("minutes", 2, 1)}})
    \cup AskedOf(Crossed, {{Rule("minutes", 1, 3), Rule("substitute", 5, 1)}})
    \cup AskedOf(Finished, {{Rule("goal", 1, 1)}, {Rule("lose_clean_sheet", Away, 1)}})
    \cup AskedOf([LateOn EXCEPT !.finished = TRUE], {{Rule("blank", 2, 1)}, {}})

Draw == INSTANCE FixtureForecast WITH
    Unknown <- Untold, stage <- drawStage, Players <- 1..6, Cases <- Questions,
    Team <- PlaysFor, Keepers <- {1, 5}, StartRate <- RateOf, StartMinutes <- StayOf, CameoMinutes <- CameoOf, DefaultCameos <- {1, 2}, LateStarts <- {3},
    Full <- 4, Grace <- 1, Long <- 3, Side <- 3, MaxSubs <- 1, MaxReturns <- 2,
    MaxScore <- 2, MaxGoals <- 1

-----------------------------------------------------------------------------
(* A league of three over three matches: one under way, one that overlaps  *)
(* it, and a later one in which club 1 plays again.                        *)

PlaysAs == [p \in 1..17 |->
    CASE p \in {1, 15} -> "GK" [] p \in 2..6 -> "DEF"
      [] p \in 7..11 \cup {16, 17} -> "MID" [] OTHER -> "FWD"]
ClubIn == [p \in 1..17 |->
    CASE p \in {1, 14, 15} -> 0 [] p = 17 -> 1 [] p \in 2..7 -> 2
      [] p \in 8..10 -> 3 [] p \in 11..13 -> 4 [] p = 16 -> 5]

\* Only bob has players of clubs 1 and 5.
League ==
    "ann" :> PicksOf(12, 8, 0)
    @@ "bob" :> [PicksOf(9, 13, 0) EXCEPT !.picks = <<15, 2, 3, 4, 5, 7, 16, 9, 17, 13, 14, 1, 6, 10, 12>>]
    @@ "cat" :> [PicksOf(8, 12, 4) EXCEPT !.chip = "3xc"]
EntryOf == "ann" :> 1 @@ "bob" :> 2 @@ "cat" :> 3
Round == 1 :> <<1, 2>> @@ 2 :> <<3, 4>> @@ 3 :> <<5, 1>>
Times == 1 :> 0 @@ 2 :> 1 @@ 3 :> 3
Played == 1 :> 1 @@ 2 :> 0 @@ 3 :> 0
NilNil == [home |-> 0, away |-> 0]
SoFar == 1 :> [home |-> 0, away |-> 1] @@ 2 :> NilNil @@ 3 :> NilNil

Stat(points, minutes, g, start) ==
    [points |-> points, minutes |-> minutes, carded |-> FALSE, goals |-> g, assists |-> 0, start |-> start]
Rested == Stat(0, 0, 0, 2)
BookedOnly == [Rested EXCEPT !.points = -1, !.carded = TRUE]
Total(points, minutes) == [points |-> points, minutes |-> minutes, carded |-> FALSE]
Already == [p \in 1..17 |->
    CASE p = 2 -> Total(5, 1) [] ClubIn[p] \in {1, 2} /\ p # 2 -> Total(1, 1)
      [] ClubIn[p] = 0 -> Total(2, 2) [] OTHER -> Total(0, 0)]
KnownLine == [f \in 1..3 |->
    IF f = 1 THEN [p \in (2..7) \cup {17} |-> IF p = 2 THEN Stat(5, 1, 1, 0) ELSE Stat(1, 1, 0, 0)] ELSE <<>>]

\* All of the match play and make two points, except some.
Ended(f, home, away, others) ==
    [home |-> home, away |-> away,
     stats |-> others @@ [p \in {q \in 1..17 : ClubIn[q] \in ToSet(Round[f])} |->
                    IF f = 1 /\ p = 2 THEN Stat(6, 2, 1, 0) ELSE Stat(2, 2, 0, 0)]]
Quiet == Ended(1, 0, 1, <<>>)
Scored == Ended(1, 1, 2, 3 :> Stat(8, 2, 1, 0) @@ 7 :> Stat(7, 2, 1, 0))
Benched == Ended(2, 0, 2, 12 :> Stat(9, 2, 2, 0) @@ 8 :> BookedOnly @@ 9 :> Rested)
Absent == Ended(2, 0, 1, 12 :> BookedOnly @@ 9 :> Rested @@ 13 :> Stat(5, 1, 1, 1)
                        @@ 8 :> Stat(4, 2, 0, 0))
Returned == Ended(3, 0, 0, <<>>)
Winner == Ended(3, 1, 0, 16 :> Stat(6, 2, 1, 0) @@ 17 :> Rested)
Joint ==
    {1 :> x[1] @@ 2 :> x[2] @@ 3 :> x[3] :
        x \in {<<Quiet, Benched, Returned>>, <<Quiet, Absent, Winner>>, <<Scored, Absent, Returned>>,
               <<Scored, Benched, Winner>>}}

Outlook == INSTANCE LeagueOutlook WITH
    Managers <- {"ann", "bob", "cat"}, Players <- 1..17, Position <- PlaysAs, Team <- ClubIn,
    Entry <- EntryOf, Squads <- League,
    Fixtures <- {1, 2, 3}, Sides <- Round, Kickoff <- Times, Clocks <- Played, Standing <- SoFar,
    Duration <- 2, Present <- Already, Recorded <- KnownLine, Outcomes <- Joint, Simulations <- 3,
    MaxTimeline <- 1, MinGroup <- 1, Close <- 3, MaxWatched <- 6, MaxCandidates <- 12, MaxSheets <- 2, Full <- 2,
    ties <- tiesCount, counted <- lastIn

ASSUME ForecastAssumption == Draw!SimulatorConstants /\ Outlook!OutlookConstants

-----------------------------------------------------------------------------

partsVars == <<part, searchVars, snapshotVars, feedVars>>
drawVars == <<match, rules, drawStage, side, windows, starters, reserves, substitutes, goals, events>>
outlookVars ==
    <<tiesCount, candidates, draws, cache, multipliers, finals, lastIn, outright, tied, groupCache, checkpoints>>

\* A match that is over, of which nothing is asked; and a league of which nothing is drawn.
NoDraw == Draw!Init /\ match.finished /\ rules = {}
NoOutlook == Outlook!Init /\ ~tiesCount
NoParts == FeedInit /\ NoSearch /\ NoSnapshot

LeagueInit ==
    \/ PartsInit /\ NoDraw /\ NoOutlook
    \/ part = "draw" /\ NoParts /\ Draw!Init /\ NoOutlook
    \/ part = "outlook" /\ NoParts /\ NoDraw /\ Outlook!Init

InParts == part \notin {"draw", "outlook"} /\ UNCHANGED <<drawVars, outlookVars>>
InDraw == part = "draw" /\ UNCHANGED <<partsVars, outlookVars>>
InOutlook == part = "outlook" /\ UNCHANGED <<partsVars, drawVars>>

LeagueNext ==
    \/ InParts /\ PartsNext
    \/ InDraw /\ Draw!Refuse
    \/ InDraw /\ Draw!Accept
    \/ \E p \in 1..6 :
          \/ InDraw /\ Draw!NotAppearing(p)
          \/ InDraw /\ Draw!AbsentRequired(p)
          \/ InDraw /\ Draw!UnderWay(p)
          \/ InDraw /\ Draw!SelectedCameo(p)
          \/ InDraw /\ Draw!RequiredBench(p)
          \/ InDraw /\ Draw!StartOrNot(p)
    \/ InDraw /\ Draw!LineUp
    \/ \E m \in 0..3 : InDraw /\ Draw!ComeOn(m)
    \/ InDraw /\ Draw!StayOff
    \/ InDraw /\ Draw!Resolve
    \/ InDraw /\ Draw!Score
    \/ InDraw /\ Draw!Goal
    \/ InDraw /\ Draw!Whistle
    \/ \E x \in Joint : InOutlook /\ Outlook!Draw(x)

LeagueSpec == LeagueInit /\ [][LeagueNext]_<<partsVars, drawVars, outlookVars>>

\* FixtureForecast: what is drawn under accepted conditions fulfils them and can be played.
ForecastHonest == Draw!ForecastHonest

\* LeagueOutlook: samples, timeline and contest are scored and counted alike.
OutlookAgrees == Outlook!OutlookAgrees
=============================================================================
