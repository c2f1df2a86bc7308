--------------------------- MODULE MCFigures --------------------------------
(***************************************************************************)
(* The two parts that only calculate, SquadPlanner and SeasonTables, each  *)
(* while the other has not begun.                                          *)
(***************************************************************************)
EXTENDS SquadPlanner, SeasonTables

\* The squad of GameweekScores, and two midfielders who may come.
PositionOf == [p \in 1..17 |->
    CASE p \in {1, 15} -> "GK" [] p \in 2..6 -> "DEF"
      [] p \in 7..11 \cup {16, 17} -> "MID" [] OTHER -> "FWD"]
ClubOf == [p \in 1..17 |-> (p + 1) \div 3]
PriceOf == [p \in 1..17 |-> CASE p = 16 -> 7 [] p = 17 -> 8 [] OTHER -> 6]
LoadedSquad == [picks |-> <<1, 2, 3, 4, 7, 8, 9, 10, 12, 13, 14, 15, 11, 5, 6>>, captain |-> 12, vice |-> 8]

\* Who may rest; the second would leave two defenders.
Rested == {{5, 6, 11}, {4, 5, 6}, {6, 10, 14}, {5, 6, 16}}

\* All play, except some; some are only booked.
Sample(absent, booked, points) ==
    [played |-> (1..17) \ (absent \cup booked), carded |-> booked,
     points |-> [p \in 1..17 |->
        IF p \in absent THEN 0 ELSE IF p \in booked THEN -1
        ELSE IF p \in DOMAIN points THEN points[p] ELSE 2]]

\* The captain, a defender and the goalkeeper are missing in some samples, and
\* the bench of one sample scores less than nothing.
FirstSamples == <<Sample({12}, {}, 8 :> 6 @@ 16 :> 9),
                  Sample({1, 4, 9}, {12}, 11 :> -1 @@ 5 :> 4 @@ 15 :> 3),
                  Sample({1, 3}, {5}, 12 :> 13 @@ 6 :> 5)>>
Second == <<Sample({10}, {}, 7 :> 8), Sample({2, 16}, {}, 12 :> 4 @@ 5 :> 3)>>
Renewed == <<Sample({7, 3}, {8}, 13 :> 9), Sample({7, 3}, {12}, 16 :> 5 @@ 5 :> 1)>>

Horizons == <<1 :> FirstSamples @@ 2 :> Second, 2 :> Renewed @@ 3 :> "unknown">>
OpenWindows == {[chip |-> "bboost", first |-> 1, last |-> 1], [chip |-> "3xc", first |-> 1, last |-> 3]}

-----------------------------------------------------------------------------
\* A league of four, two weeks and squads of three with one player on the bench.
Pick(slot, multiplier, captain, points) ==
    [slot |-> slot, multiplier |-> multiplier, captain |-> captain, points |-> points]
Final(chip, points, a, b, c) ==
    [chip |-> chip, points |-> points, players |-> 1 :> a @@ 2 :> b @@ 3 :> c]

\* A captain who played; a substitute who came on while the vice-captain took
\* over; Bench Boost; Triple Captain; a squad that does not add up; one with a
\* player missing and one without a captain.
Finals ==
    {Final("none", 5, Pick(1, 2, TRUE, 2), Pick(2, 1, FALSE, 1), Pick(3, 0, FALSE, 4)),
     Final("none", 5, Pick(3, 0, TRUE, 0), Pick(1, 2, FALSE, 1), Pick(2, 1, FALSE, 3)),
     Final("none", 3, Pick(1, 0, TRUE, 0), Pick(2, 2, FALSE, 1), Pick(3, 1, FALSE, 1)),
     Final("bboost", 5, Pick(1, 1, FALSE, -1), Pick(2, 2, TRUE, 2), Pick(3, 1, FALSE, 2)),
     Final("3xc", 5, Pick(1, 1, FALSE, -1), Pick(2, 3, TRUE, 2), Pick(3, 0, FALSE, 6)),
     Final("none", 3, Pick(1, 2, TRUE, 2), Pick(2, 1, FALSE, 1), Pick(3, 0, FALSE, 4)),
     Final("none", 3, Pick(1, 1, FALSE, 2), Pick(2, 1, FALSE, 1), Pick(3, 0, FALSE, 4)),
     [chip |-> "none", points |-> 3, players |-> 1 :> Pick(1, 2, TRUE, 1) @@ 2 :> Pick(2, 1, FALSE, 1)]}
Published == <<{[raw |-> 5, hits |-> 0], [raw |-> 5, hits |-> 4], [raw |-> 3, hits |-> 0]},
               {[raw |-> 3, hits |-> 0]}>>
Anyone == Permutations(Members)
PositionsKnown == 1 :> "GK" @@ 2 :> "DEF" @@ 3 :> NoPosition

ASSUME SeasonAssumption == LegalConstants

FiguresInit == Init /\ TablesInit

Planning == rows = <<>> /\ UNCHANGED tableVars
Tabling == plans = <<>> /\ todo = <<>> /\ answer = {} /\ forecast = 1 /\ UNCHANGED vars

\* SquadPlanner's Next and that of SeasonTables.
FiguresNext ==
    \/ \E g \in Gameweeks : Planning /\ Lineup(g)
    \/ \E out \in Outgoing, bank \in Funds, free \in Allowances, selling \in Selling :
          \/ \E in \in Incoming : Planning /\ Transfers({<<out, in>>}, bank, free, selling)
          \/ \E length \in {1, 3} : Planning /\ Search(out, bank, free, selling, length)
    \/ Planning /\ Chips
    \/ Planning /\ Plan
    \/ Planning /\ Forget
    \/ Planning /\ Refresh
    \/ \E m \in Members, g \in Weeks :
          \/ \E row \in Rows[g] : Tabling /\ PublishScore(m, g, row)
          \/ \E x \in Selections : Tabling /\ Verify(m, g, x)

FiguresSpec == FiguresInit /\ [][FiguresNext]_<<vars, tableVars>>
=============================================================================
