---------------------------- MODULE MCRouteSearch ----------------------------
(***************************************************************************)
(* A league comes from a snapshot, to which the lineup feed adds, and goes  *)
(* into a search.  The snapshot is put together while the Gameweek goes on, *)
(* the search is of a league that stands still, so a behaviour is of one    *)
(* of the three.                                                           *)
(***************************************************************************)
EXTENDS RouteSearch, LeagueFeeds

VARIABLE part       \* which of the three this behaviour is of

\* The fifteen of tests/helpers.py; 8 plays for a, 2 for y, 11 for b and 12 for
\* c, which has two matches.  The matches of all the others are over.
PositionOf == [p \in 1..15 |->
    IF p \in {1, 15} THEN "GK" ELSE IF p \in 2..6 THEN "DEF" ELSE IF p \in 7..11 THEN "MID" ELSE "FWD"]
TeamOf == [p \in 1..15 |->
    IF p = 8 THEN "a" ELSE IF p = 2 THEN "y" ELSE IF p = 11 THEN "b" ELSE IF p = 12 THEN "c" ELSE "z"]
AY == {"a", "y"}
BC == {"b", "c"}
CV == {"c", "v"}
UW == {"u", "w"}
Games == {AY, BC, CV, UW, {"z", "x"}}
Sides == UNION Games

Picks == <<1, 2, 3, 4, 7, 8, 9, 10, 12, 13, 14, 15, 11, 5, 6>>
PicksOf(captain, vice, hit) ==
    [picks |-> Picks, captain |-> captain, vice |-> vice, chip |-> "none", hit |-> hit]
Picked == <<{}, {}>>

Minutes(m, clean) == [NoStats EXCEPT !.minutes = m, !.clean = clean]
Live(clock, f, goals) == [started |-> TRUE, clock |-> clock, goals |-> [t \in f |-> goals[t]]]
Ahead(f) == [started |-> FALSE, clock |-> 0, goals |-> [t \in f |-> 0]]
NoGoals == [t \in Sides |-> 0]

\* The players in `unseen` have yet to appear; the others have two points each.
Moment(pair, unseen, stats, match) ==
    [lineup |-> pair, finished |-> Games \ DOMAIN match,
     seen |-> [p \in 1..15 |-> IF p \in unseen THEN "unseen" ELSE "played"],
     points |-> [p \in 1..15 |-> IF p \in unseen THEN 0 ELSE 2],
     stats |-> stats, match |-> match]

\* Stoppage time of a goalless match between an attacker and a defender, each
\* captain of one manager; the same a quarter of an hour before the end, with
\* the second manager behind; and the forward yet to come on in a match of his.
Rivals(hit) == <<PicksOf(8, 12, 0), PicksOf(2, 12, hit)>>
InPlay(clock, minutes, goals, clean) ==
    [stats |-> << 8, AY >> :> Minutes(minutes, clean) @@ << 2, AY >> :> Minutes(minutes, clean),
     match |-> AY :> Live(clock, AY, goals)]
Stoppage == LET x == InPlay(90, 90, NoGoals, 1) IN Moment(Rivals(8), {}, x.stats, x.match)
Late == LET x == InPlay(75, 75, [NoGoals EXCEPT !["y"] = 1], 0) IN Moment(Rivals(4), {}, x.stats, x.match)
Distant == [Late EXCEPT !.lineup = <<PicksOf(8, 12, 12), PicksOf(2, 12, 0)>>]
Three == LET x == InPlay(90, 88, NoGoals, 1)
         IN  Moment(Rivals(0), {12}, x.stats, x.match @@ CV :> Live(85, CV, NoGoals))

\* A forward and captain who may not play, and the midfielder on the bench.
Armbands(hit) == <<PicksOf(12, 7, 0), PicksOf(7, 12, hit)>>
Upcoming == Moment(Armbands(4), {11, 12}, <<>>, BC :> Ahead(BC))
Double == Moment(Armbands(0), {11, 12}, <<>>, BC :> Live(70, BC, NoGoals) @@ CV :> Ahead(CV))

\* Too many who may come on: not all their patterns are planned.
Entrants == Moment(Armbands(4), {8, 11, 12}, <<>>, AY :> Live(85, AY, NoGoals) @@ BC :> Live(85, BC, NoGoals))

Booked == [Double EXCEPT !.seen[12] = "carded", !.points[12] = -1]
Unowned == Moment(Rivals(4), {}, <<>>, UW :> Ahead(UW))

Asked == {Stoppage, Late, Distant, Three, Upcoming, Double, Entrants, Booked, Unowned}
Least10 == -10

\* p has two matches in the first Gameweek, q has one.
Weeks == <<{"m1", "m2"}, {"m3"}>>
ClubsOf == [m1 |-> {"a", "b"}, m2 |-> {"c", "a"}, m3 |-> {"b", "a"}]
ClubOfPlayer == [p |-> "a", q |-> "b"]
Joining == <<1, 2, 3>>
FirstSquad == <<1, 1, 2>>

\* Teams of two with one or two in reserve: substitutions, one of a substitute, one that nobody
\* can make, one after ninety minutes; nobody, one team, or the same team twice, which changes
\* between its entries; an answer of another match, which names a player for both teams.
ListOf(t, first, reserves) == [team |-> t, first |-> first, reserves |-> reserves]
Said(entries, changes) == [right |-> TRUE, entries |-> entries, changes |-> changes]
Change(minute, a, b) == [minute |-> minute, pair |-> <<a, b>>]
BothSides == <<ListOf(1, {"a", "b"}, {"c", "d"}), ListOf(2, {"x", "y"}, {"z"})>>
SameTwice == <<ListOf(1, {"a", "b"}, {"c", "d"}), ListOf(1, {"x", "y"}, {"z"})>>
SaidOf ==
    {Said(BothSides, <<Change(46, "a", "c"), Change(60, "z", "x"), Change(70, "c", "d")>>),
     Said(BothSides, <<Change(50, "a", "c"), Change(60, "a", "d")>>),
     Said(<<ListOf(1, {"a", "b"}, {"c", "d"})>>, <<Change(50, "b", "c"), Change(95, "a", "d")>>),
     Said(SameTwice, <<Change(46, "a", "z"), Change(60, "x", "d")>>),
     Said(<<>>, <<>>),
     [Said(<<ListOf(1, {"a", "b"}, {}), ListOf(2, {"x", "a"}, {})>>, <<>>) EXCEPT !.right = FALSE]}
AskedFor == [games : {<<"m2", "m1">>, <<"m3", "m1", "m2">>}, started : {{}, {"m1", "m2"}}]

searchVars == vars

NoSearch ==
    /\ league = Stoppage /\ candidate = 1 /\ ties = FALSE /\ limit = 2 /\ focus = {}
    /\ plans = <<>> /\ allPlans = FALSE /\ heap = {} /\ reached = {} /\ results = {}
    /\ cuts = 0 /\ phase = "asked"

NoSnapshot == Snapshot!Init /\ wanted = 0 /\ cap = Unlimited /\ table = <<>> /\ season = <<>>

PartsInit ==
    \/ /\ part = "search" /\ Init
       /\ NoSnapshot /\ FeedInit
    \/ part = "snapshot" /\ Snapshot!Init /\ NoSearch /\ FeedInit
    \/ part = "lineups" /\ FeedInit /\ NoSearch /\ NoSnapshot

InSearch == part = "search" /\ UNCHANGED <<part, snapshotVars, feedVars>>

\* What happens at FPL after a snapshot failed is of no interest.
InSnapshot == part = "snapshot" /\ ended \in {"no", "done"} /\ UNCHANGED <<part, searchVars, feedVars>>

InFeed == part = "lineups" /\ UNCHANGED <<part, searchVars, snapshotVars>>

\* The matches are played while a caller without a limit asks for the first Gameweek
\* of a league of one, and nothing else goes on: what is asked, the standings and the
\* matches do not touch.
InMatch == InSnapshot /\ table = <<1>> /\ moves = 0 /\ cap = Unlimited /\ wanted = 1

\* Two of the three that a player can do something in.
FewSeen(x) == Cardinality({y \in DOMAIN did : did[y] # "unseen"} \cup {x}) <= 2

InLeague == InSnapshot /\ ended = "no" /\ \A f \in {"m1", "m2"} : stage[f] = "ahead"

PartsNext ==
    \/ InSearch /\ Decline
    \/ InSearch /\ Settled
    \/ InSearch /\ Prepare
    \/ \E cut \in BOOLEAN : InSearch /\ Visit(cut)
    \/ InSearch /\ End
    \/ \E f \in {"m1", "m2"} :
          \/ InMatch /\ Snapshot!KickOff(f)
          \/ InMatch /\ Snapshot!Whistle(f)
    \/ \E x \in DOMAIN did : InMatch /\ FewSeen(x) /\ Snapshot!Happens(x)
    \/ InSnapshot /\ ended = "no" /\ Snapshot!Process
    \/ InSnapshot /\ ended = "no" /\ Snapshot!Deadline
    \/ \E i \in DOMAIN table :
          \/ InLeague /\ Snapshot!Overtake(i)
          \/ InLeague /\ Snapshot!Leave(i)
    \/ \E m \in {1, 2, 3} : InLeague /\ Snapshot!Join(m)
    \/ InSnapshot /\ Snapshot!ReadBootstrap
    \/ InSnapshot /\ Snapshot!NotViewable
    \/ InSnapshot /\ Snapshot!ReadStandings
    \/ InSnapshot /\ Snapshot!LeagueTooLarge
    \/ InSnapshot /\ Snapshot!ReadPicks
    \/ InSnapshot /\ Snapshot!NoSquad
    \/ InSnapshot /\ Snapshot!ReadFixtures
    \/ \E fails \in BOOLEAN : InSnapshot /\ Snapshot!ReadSeason(fails)
    \/ \E explained \in SUBSET DOMAIN did : InSnapshot /\ Snapshot!ReadLive(explained)
    \/ \E status \in {403, 404, 500} : InLeague /\ Snapshot!RequestFails(status)
    \/ InLeague /\ Snapshot!Expire
    \/ InFeed /\ FeedNext

PartsSpec == PartsInit /\ [][PartsNext]_<<part, searchVars, snapshotVars, feedVars>>
=============================================================================
