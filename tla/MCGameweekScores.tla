-------------------------- MODULE MCGameweekScores --------------------------
EXTENDS GameweekScores

\* Two goalkeepers, five defenders, five midfielders and three forwards.
PositionOf == [p \in 1..15 |->
    IF p \in {1, 15} THEN "GK" ELSE IF p \in 2..6 THEN "DEF" ELSE IF p \in 7..11 THEN "MID" ELSE "FWD"]

\* Starter 8, captain or vice 12, and the bench 11 may have matches to come;
\* those of all the others are over.
TeamOf == [p \in 1..15 |->
    IF p = 8 THEN "a" ELSE IF p = 11 THEN "b" ELSE IF p = 12 THEN "c" ELSE "z"]
Matches == {{"a", "y"}, {"b", "c"}, {"z", "x"}}
Clubs == UNION Matches

StartOf(absent, later) ==
    [finished |-> {{"z", "x"}},
     seen |-> [p \in 1..15 |-> IF p \in absent \cup later THEN "unseen" ELSE "played"],
     points |-> [p \in 1..15 |->
        IF p \in absent \cup later THEN 0 ELSE IF p = 5 THEN 4 ELSE 1]]

\* The goalkeeper did not play; or neither did defender 4, whom only another
\* defender can replace, and 12 has begun.
Begun == {StartOf({1}, {8, 11, 12}), StartOf({1, 4}, {8, 11})}

\* The fifteen of tests/helpers.py, in squad order.
Picks == <<1, 2, 3, 4, 7, 8, 9, 10, 12, 13, 14, 15, 11, 5, 6>>
PicksOf(captain, vice, chip, hit) ==
    [picks |-> Picks, captain |-> captain, vice |-> vice, chip |-> chip, hit |-> hit]
Picked == <<{PicksOf(12, 7, "none", 0)}, {PicksOf(8, 12, "3xc", 2), PicksOf(12, 8, "bboost", 0)}>>

Least == -1
Most == 2
Changes == {-1, 2}
Reachable == {-2, -1, 1, 2}
=============================================================================
