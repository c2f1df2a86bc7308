--------------------------- MODULE LeagueSnapshot ---------------------------
(***************************************************************************)
(* One snapshot is many requests (src/src/fpl_forfeit/api.py), and FPL goes *)
(* on between them: matches kick off and end, players come on and are       *)
(* booked, managers overtake each other, a Gameweek is processed and the    *)
(* next one begins.  What FPL serves is external; it is modelled as the     *)
(* client uses it.  Points are the ones for minutes and for a booking; names, *)
(* prices, goals and the other categories are left out.                     *)
(***************************************************************************)
EXTENDS Integers, FiniteSetsExt, SequencesExt

CONSTANTS
    Gameweeks, Matches, MatchesIn,  \* MatchesIn[g]: the matches of a Gameweek
    Clubs,                          \* Clubs[f]: the two of a match
    Roster, ClubOf,                 \* players, and the club of each
    Entries, FirstWeek,             \* managers in a sequence, the Gameweek of their first squad
    PageSize,                       \* rows of a page of the standings
    Caps,                           \* the limits on managers that callers set
    Unlimited,                      \* the limit of a caller without one
    MaxMoves                        \* changes of the standings

VARIABLES
    stage,      \* match -> "ahead", "live", "over"
    did,        \* what each player did in each match
    processed,  \* Gameweeks whose results FPL has processed
    current,    \* the Gameweek that is_current, 0 before the first
    table,      \* the members of the league, in their order
    moves,      \* how often that changed
    wanted, cap,    \* what the caller asks for; no Gameweek: 0
    at,         \* the number of the request
    ended,      \* how the snapshot ended, "no" if it has not
    turn,       \* the page of the standings, then the row of the picks
    season,     \* the season's matches, cached for an hour
    got         \* the parts of the snapshot, and what was so when they were read

worldVars == <<stage, did, processed, current, table, moves>>
vars == <<worldVars, wanted, cap, at, ended, turn, season, got>>

NoSeason == <<>>
Involved(p, f) == ClubOf[p] \in Clubs[f]
Pairs == {x \in Roster \X Matches : Involved(x[1], x[2])}

\* A minute for whoever comes on, a point for it and one off for a booking.
Minutes(d) == IF d \in {"on", "booked"} THEN 1 ELSE 0
Bookings(d) == IF d \in {"carded", "booked"} THEN 1 ELSE 0

\* The sum over S of numbers that are 0 or 1.
Count(S, n(_)) == Cardinality({x \in S : n(x) = 1})

\* The Gameweeks and their matches, the pages of FPL, and callers whose limit
\* is a page (service.py:30) or who set none (api.py:325).
LegalConstants ==
    /\ Gameweeks \subseteq Nat \ {0} /\ Gameweeks # {}
    /\ IsFiniteSet(Matches) /\ \A g \in Gameweeks : MatchesIn[g] \subseteq Matches
    /\ PageSize \in Nat \ {0} /\ \A c \in Caps : c = Unlimited \/ c \in 0..PageSize
    /\ Entries \in Seq(Range(Entries))

-----------------------------------------------------------------------------
(* FPL                                                                     *)

KickOff(f) ==
    /\ stage[f] = "ahead" /\ current # 0 /\ f \in MatchesIn[current]
    /\ stage' = [stage EXCEPT ![f] = "live"]
    /\ UNCHANGED <<did, processed, current, table, moves, wanted, cap, at, ended, turn, season, got>>

Whistle(f) ==
    /\ stage[f] = "live"
    /\ stage' = [stage EXCEPT ![f] = "over"]
    /\ UNCHANGED <<did, processed, current, table, moves, wanted, cap, at, ended, turn, season, got>>

Becomes(d) == CASE d = "unseen" -> {"on", "carded"} [] d \in {"on", "carded"} -> {"booked"} [] OTHER -> {}

Happens(x) ==
    /\ stage[x[2]] = "live"
    /\ \E d \in Becomes(did[x]) : did' = [did EXCEPT ![x] = d]
    /\ UNCHANGED <<stage, processed, current, table, moves, wanted, cap, at, ended, turn, season, got>>

\* The results are final: autosubs and armbands are in the picks.
Process ==
    /\ current \notin processed \cup {0}
    /\ \A f \in MatchesIn[current] : stage[f] = "over"
    /\ processed' = processed \cup {current}
    /\ UNCHANGED <<stage, did, current, table, moves, wanted, cap, at, ended, turn, season, got>>

Deadline ==
    /\ current + 1 \in Gameweeks /\ current \in processed \cup {0}
    /\ current' = current + 1
    /\ UNCHANGED <<stage, did, processed, table, moves, wanted, cap, at, ended, turn, season, got>>

Overtake(i) ==
    /\ i + 1 \in DOMAIN table /\ moves < MaxMoves
    /\ table' = [table EXCEPT ![i] = table[i + 1], ![i + 1] = table[i]]
    /\ moves' = moves + 1
    /\ UNCHANGED <<stage, did, processed, current, wanted, cap, at, ended, turn, season, got>>

Leave(i) ==
    /\ i \in DOMAIN table /\ moves < MaxMoves
    /\ table' = RemoveAt(table, i) /\ moves' = moves + 1
    /\ UNCHANGED <<stage, did, processed, current, wanted, cap, at, ended, turn, season, got>>

Join(m) ==
    /\ m \notin Range(table) /\ moves < MaxMoves
    /\ table' = Append(table, m) /\ moves' = moves + 1
    /\ UNCHANGED <<stage, did, processed, current, wanted, cap, at, ended, turn, season, got>>

-----------------------------------------------------------------------------
(* fetch_snapshot                                                          *)

\* Mutant: the players' scores are asked for before the matches.
LiveFirst == <<"bootstrap", "standings", "picks", "live", "fixtures", "season">>

Requests == <<"bootstrap", "standings", "picks", "fixtures", "season", "live">>

Doing(request) == ended = "no" /\ Requests[at] = request
OnTo(parts) ==
    /\ got' = [part \in DOMAIN got |-> IF part \in DOMAIN parts THEN parts[part] ELSE got[part]]
    /\ IF at = Len(Requests) THEN ended' = "done" /\ UNCHANGED at ELSE at' = at + 1 /\ UNCHANGED ended

Ends(reason) == ended' = reason /\ UNCHANGED <<worldVars, wanted, cap, at, turn, season, got>>

\* _current_gameweek
CurrentGameweek ==
    IF current # 0 THEN current ELSE IF processed # {} THEN Max(processed) ELSE Min(Gameweeks)

Asked == IF wanted = 0 THEN CurrentGameweek ELSE wanted
IsHistorical == Asked # CurrentGameweek

ReadBootstrap ==
    /\ Doing("bootstrap")
    /\ IsHistorical => Asked \in processed
    /\ OnTo([gameweek |-> Asked, historical |-> IsHistorical, final |-> Asked \in processed])
    /\ UNCHANGED <<worldVars, wanted, cap, turn, season>>

NotViewable == Doing("bootstrap") /\ IsHistorical /\ Asked \notin processed /\ Ends("unavailable")

\* The rows of this page, and whether there are more behind it.
Block == SubSeq(table, PageSize * (turn - 1) + 1, Min({PageSize * turn, Len(table)}))
HasNext == Len(table) > PageSize * turn

\* Mutant: a league of exactly as many rows as are allowed has no more pages.
Exceeds(rows) == Len(rows) > cap

TooLarge(rows) == Len(rows) > cap \/ (HasNext /\ Len(rows) >= cap)

ReadStandings ==
    LET rows == got.standings \o Block
    IN  /\ Doing("standings") /\ ~TooLarge(rows)
        /\ IF HasNext
           THEN turn' = turn + 1 /\ UNCHANGED <<at, ended>>
           ELSE IF rows = <<>> THEN ended' = "not_found" /\ UNCHANGED <<at, turn>>
           ELSE turn' = 1 /\ at' = at + 1 /\ UNCHANGED ended
        /\ got' = [got EXCEPT !.standings = rows, !.tables = @ \cup {table}]
        /\ UNCHANGED <<worldVars, wanted, cap, season>>

LeagueTooLarge == Doing("standings") /\ TooLarge(got.standings \o Block) /\ Ends("too_large")

\* A squad is public after the deadline of its Gameweek, if its manager had one.
Public(m) == FirstWeek[m] <= got.gameweek /\ got.gameweek <= current
Row == got.standings[turn]

ReadPicks ==
    /\ Doing("picks") /\ Public(Row)
    /\ got' = [got EXCEPT !.picks =
                 [m \in DOMAIN @ \cup {Row} |-> IF m = Row THEN got.gameweek \in processed ELSE @[m]]]
    /\ IF turn = Len(got.standings) THEN at' = at + 1 /\ UNCHANGED turn ELSE turn' = turn + 1 /\ UNCHANGED at
    /\ UNCHANGED <<worldVars, wanted, cap, ended, season>>

NoSquad == Doing("picks") /\ ~Public(Row) /\ Ends("unavailable")

ReadFixtures ==
    /\ Doing("fixtures")
    /\ OnTo([fixtures |-> [f \in MatchesIn[got.gameweek] |-> stage[f]]])
    /\ UNCHANGED <<worldVars, wanted, cap, turn, season>>

\* The Gameweek's own feed replaces what the season's says of its matches.
Merged(all) == [f \in DOMAIN all |-> IF f \in DOMAIN got.fixtures THEN got.fixtures[f] ELSE all[f]]

ReadSeason(fails) ==
    /\ Doing("season")
    /\ fails => season = NoSeason
    /\ season' = IF season # NoSeason \/ fails THEN season ELSE stage
    /\ OnTo([season |-> IF season' = NoSeason THEN NoSeason ELSE Merged(season')])
    /\ UNCHANGED <<worldVars, wanted, cap, turn>>

\* The explanation of what a player did in a match may be missing.
ReadLive(explained) ==
    /\ Doing("live")
    /\ explained \subseteq {x \in Pairs : x[2] \in MatchesIn[got.gameweek] /\ stage[x[2]] # "ahead"}
    /\ OnTo([live |-> [x \in {y \in Pairs : y[2] \in MatchesIn[got.gameweek]} |-> did[x]],
             explained |-> explained])
    /\ UNCHANGED <<worldVars, wanted, cap, turn, season>>

\* _get: what FPL or the connection answers instead.
ErrorOf(status) == CASE status = 404 -> "not_found" [] status = 403 -> "refused" [] OTHER -> "failed"

RequestFails(status) ==
    /\ ended = "no" /\ ~Doing("season")
    /\ Ends(IF Doing("picks") /\ status = 404 THEN "unavailable" ELSE ErrorOf(status))

Expire ==
    /\ season # NoSeason
    /\ season' = NoSeason
    /\ UNCHANGED <<worldVars, wanted, cap, at, ended, turn, got>>

Nothing ==
    [gameweek |-> 0, historical |-> FALSE, final |-> FALSE, standings |-> <<>>, tables |-> {}, picks |-> <<>>,
     fixtures |-> <<>>, season |-> NoSeason, live |-> <<>>, explained |-> {}]

Init ==
    /\ stage = [f \in Matches |-> "ahead"] /\ did = [x \in Pairs |-> "unseen"]
    /\ processed = {} /\ current = 0 /\ moves = 0
    /\ table \in {SubSeq(Entries, 1, n) : n \in 0..Len(Entries)}
    /\ wanted \in 0..Max(Gameweeks) + 1 /\ cap \in Caps
    /\ at = 1 /\ ended = "no" /\ turn = 1 /\ season \in {NoSeason, stage} /\ got = Nothing

Next ==
    \/ \E f \in Matches : KickOff(f) \/ Whistle(f)
    \/ \E x \in Pairs : Happens(x)
    \/ Process \/ Deadline
    \/ \E i \in DOMAIN table : Overtake(i) \/ Leave(i)
    \/ \E m \in Range(Entries) : Join(m)
    \/ ReadBootstrap \/ NotViewable
    \/ ReadStandings \/ LeagueTooLarge
    \/ ReadPicks \/ NoSquad
    \/ ReadFixtures
    \/ \E fails \in BOOLEAN : ReadSeason(fails)
    \/ \E explained \in SUBSET Pairs : ReadLive(explained)
    \/ \E status \in {403, 404, 500} : RequestFails(status)
    \/ Expire

Spec == Init /\ [][Next]_vars

-----------------------------------------------------------------------------
(* state_from_snapshot                                                     *)

Complete == ended = "done"
Rows(p) == {x \in DOMAIN got.live : x[1] = p}
Started(f) == got.fixtures[f] # "ahead"
Playing(f) == got.fixtures[f] = "live"
Schedule(p) == {f \in DOMAIN got.fixtures : Involved(p, f)}

\* live_scores: the totals of the Gameweek.
MinutesLive(x) == Minutes(got.live[x])
BookingsLive(x) == Bookings(got.live[x])
TotalMinutes(p) == Count(Rows(p), MinutesLive)
TotalPoints(p) == Count(Rows(p), MinutesLive) - Count(Rows(p), BookingsLive)

\* fixture_minutes: explained, or the total of a player with one match.
OnlyMatch(x) == Schedule(x[1]) = {x[2]} /\ Started(x[2])
Observed == got.explained \cup {x \in DOMAIN got.live : OnlyMatch(x)}
MinutesIn(x) == IF OnlyMatch(x) THEN TotalMinutes(x[1]) ELSE MinutesLive(x)

Explained(p) == Rows(p) \cap got.explained
ExplainedMinutes(p) == Count(Rows(p) \cap Observed, MinutesIn)
ExplainedPoints(p) == Count(Explained(p), MinutesLive) - Count(Explained(p), BookingsLive)

\* Mutant: only the minutes must be accounted for.
MinutesAccounted(p) == TotalMinutes(p) = ExplainedMinutes(p)

AccountedFor(p) == TotalMinutes(p) = ExplainedMinutes(p) /\ TotalPoints(p) = ExplainedPoints(p)

\* The matches in progress in which a player is known to have done nothing yet.
ConfirmedZeros ==
    {x \in DOMAIN got.live \ Observed : Playing(x[2]) /\ AccountedFor(x[1])}

\* _gameweek_payload, results that are final and the picks they are taken from.
AllOver == \A f \in DOMAIN got.fixtures : got.fixtures[f] = "over"
StatusComplete == got.final \/ (DOMAIN got.fixtures # {} /\ AllOver)

\* Mutant: the picks of a Gameweek are final when its matches are over.
OverIsOfficial == StatusComplete

OfficialMultipliers == got.historical \/ got.final

\* The managers of the state, in the order of the standings, with their picks.
StateManagers == [i \in DOMAIN got.standings |->
                [entry |-> got.standings[i], official |-> got.picks[got.standings[i]]]]

\* parse_players: season_team_matches
Begun(t) == Cardinality({f \in DOMAIN got.fixtures : t \in Clubs[f] /\ Started(f)})
MatchesOf(t) == Cardinality({f \in DOMAIN got.season : t \in Clubs[f] /\ got.season[f] # "ahead"})

\* parse_appearance_history: of a player's matches those that the season has over.
HistoryOf(p) == {f \in DOMAIN got.season : Involved(p, f) /\ got.season[f] = "over"}

-----------------------------------------------------------------------------
(* Properties                                                              *)

(***************************************************************************)
(* What a snapshot calls settled is settled although its parts were read    *)
(* one after the other: what it says of the players of a match that is      *)
(* over, which decides their autosubs, can no longer change; and picks that *)
(* are taken for official (analysis.py:313) are the ones FPL processed, of  *)
(* a Gameweek whose matches are over in the snapshot too.                   *)
(***************************************************************************)
SettledIsSettled ==
    Complete =>
        /\ \A x \in DOMAIN got.live : got.fixtures[x[2]] = "over" => got.live[x] = did[x]
        /\ got.season # NoSeason => \A t \in UNION Range(Clubs) : MatchesOf(t) >= Begun(t)
        /\ \A p \in Roster : \A f \in HistoryOf(p) : stage[f] = "over"
        /\ OfficialMultipliers => AllOver /\ \A i \in DOMAIN StateManagers : StateManagers[i].official

(***************************************************************************)
(* A confirmed zero is true (api.py:669): whichever explanations FPL leaves *)
(* out, a player who is said not to have appeared in a match of a double    *)
(* Gameweek has neither played in it nor been booked.                       *)
(***************************************************************************)
ZeroIsTrue == Complete => \A x \in ConfirmedZeros : got.live[x] = "unseen"

(***************************************************************************)
(* A league that a caller limits is the whole league as it was at one      *)
(* moment (api.py:348), although managers overtake each other, join and    *)
(* leave between two pages; read without a limit it may not be.            *)
(***************************************************************************)
LeagueReadWhole == Complete /\ cap # Unlimited => got.standings \in got.tables

(* What a snapshot says stands, although it is many requests.              *)
SnapshotTrue == SettledIsSettled /\ ZeroIsTrue /\ LeagueReadWhole
=============================================================================
