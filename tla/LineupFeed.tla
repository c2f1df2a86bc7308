----------------------------- MODULE LineupFeed -----------------------------
(***************************************************************************)
(* The optional source of confirmed lineups (lineups.py).  The jobs of     *)
(* several leagues ask for their matches, one job at a time; what the       *)
(* provider answers is kept for ten minutes, and its requests are counted   *)
(* against the budget of a day.  A day may end at any moment.  What is made *)
(* of an answer is an operator: who started, who was on the bench, and the  *)
(* minutes at which the substitutions took them off and on.                 *)
(*                                                                          *)
(* The provider is external.  Of the checks of an answer those on its       *)
(* league, kickoff and mapping, and on a player listed twice in one list,   *)
(* are one: it is right or it is not.                                       *)
(***************************************************************************)
EXTENDS Integers, FiniteSets, FiniteSetsExt, Functions, Sequences

CONSTANTS
    Jobs,
    Mapped,         \* the matches the mapping file knows
    Budget,         \* min(90, max(1, daily_limit))
    AtOnce,         \* three matches of a state are looked at
    Wanted,         \* [games, started]: what a league's state asks for, in order, and has under way
    Answers,        \* [right, entries, changes]: what may be said of a match, its entries
                    \* [team, first, reserves] and its substitutions in the order of their minutes
    LineupSize,     \* eleven
    KnownIds,       \* the provider's players that are mapped
    NoJob,
    MaxDays         \* a bound of the model

ASSUME BudgetAssumption == Budget \in Nat \ {0} /\ LineupSize \in Nat
ASSUME AnswerAssumption ==
    \A a \in Answers :
        /\ a.entries \in Seq(Range(a.entries))
        /\ \A e \in Range(a.entries) : IsFiniteSet(e.first)
        /\ a.changes \in Seq(Range(a.changes))
        /\ \A x \in Range(a.changes) : x.minute \in Int /\ DOMAIN x.pair = {1, 2}
        /\ \A i, j \in DOMAIN a.changes : i <= j => a.changes[i].minute <= a.changes[j].minute

VARIABLES
    asks,       \* job -> the matches left for it, in order; <<>> when it has none
    underway,   \* job -> those of them that have started
    holder,     \* the job that has the lock, NoJob if none
    call,       \* of the match at hand: 0 not looked up, then which request is due
    counted,    \* requests counted in the budget and not made yet: one or none
    day, countDay, calls,   \* today, the day of the budget, its requests
    arrived,    \* the requests that have reached the provider today
    kept        \* match -> its answer, for ten minutes

feedVars == <<asks, underway, holder, call, counted, day, countDay, calls, arrived, kept>>

-----------------------------------------------------------------------------
(* normalise_lineups                                                       *)

\* Each entry of an answer, of which there may be none, is checked for itself: its team, which is
\* one of the two of the match, and a complete list of starters.  Nobody is named twice.
MatchTeams == {1, 2}
Listed(e) == e.first \cup e.reserves
EntriesOf(a, t) == {i \in DOMAIN a.entries : a.entries[i].team = t}
CompleteLists(a) ==
    /\ \A e \in Range(a.entries) :
          e.team \in MatchTeams /\ Cardinality(e.first) = LineupSize /\ e.first \cap e.reserves = {}
    /\ \A i, j \in DOMAIN a.entries : i # j => Listed(a.entries[i]) \cap Listed(a.entries[j]) = {}

\* Everybody an answer names of a team, and in all.
NamedFor(a, t) == UNION {Listed(a.entries[i]) : i \in EntriesOf(a, t)}
Participants(a) == UNION {Listed(e) : e \in Range(a.entries)}
Starting(a) == UNION {e.first : e \in Range(a.entries)}

\* The substitutions of the first ninety minutes; the others are passed over.
Counts(x) == x.minute \in 0..90

Out(field, x) == IF x.pair[1] \in field THEN x.pair[1] ELSE x.pair[2]
In(field, x) == IF x.pair[1] \in field THEN x.pair[2] ELSE x.pair[1]

\* Mutant: two of one team, whether or not one of them is on the field.
SameTeam(a, field, x) == \E t \in MatchTeams : Range(x.pair) \subseteq NamedFor(a, t)

\* Both are of one team, and one of them is on the field and the other is not.
Resolves(a, field, x) ==
    /\ \E t \in MatchTeams : Range(x.pair) \subseteq NamedFor(a, t)
    /\ (x.pair[1] \in field) # (x.pair[2] \in field)

\* Who is on the field after the first n events.
FieldAfter(a) ==
    LET field[n \in 0..Len(a.changes)] ==
            IF n = 0 THEN Starting(a)
            ELSE LET x == a.changes[n]
                 IN  IF Counts(x)
                     THEN (field[n - 1] \ {Out(field[n - 1], x)}) \cup {In(field[n - 1], x)}
                     ELSE field[n - 1]
    IN  field

Made(a) == {n \in DOMAIN a.changes : Counts(a.changes[n])}

Accepted(a) ==
    /\ a.right /\ CompleteLists(a)
    /\ \A n \in Made(a) : Resolves(a, FieldAfter(a)[n - 1], a.changes[n])

\* The substitutions that took p off and on.
WentOff(a, p) == {n \in Made(a) : Out(FieldAfter(a)[n - 1], a.changes[n]) = p}
CameOn(a, p) == {n \in Made(a) : In(FieldAfter(a)[n - 1], a.changes[n]) = p}

\* The last minute of them, -1 if there is none; a starter came on at 0.
OffMinute(a, p) == Max({-1} \cup {a.changes[n].minute : n \in WentOff(a, p)})
OnMinute(a, p) ==
    Max({IF p \in Starting(a) THEN 0 ELSE -1} \cup {a.changes[n].minute : n \in CameOn(a, p)})

\* What is confirmed, of the players that are mapped.
Appearances(a) ==
    [p \in Participants(a) \cap KnownIds |->
        [status |-> IF p \in Starting(a) THEN "starter" ELSE "bench",
         on |-> OnMinute(a, p), off |-> OffMinute(a, p)]]

-----------------------------------------------------------------------------
(* enrich                                                                  *)

FeedInit ==
    /\ asks = [j \in Jobs |-> <<>>] /\ underway = [j \in Jobs |-> {}]
    /\ holder = NoJob /\ call = 0 /\ counted = 0
    /\ day = 1 /\ countDay = 0 /\ calls = 0 /\ arrived = 0 /\ kept = <<>>

FirstOf(games) == SubSeq(games, 1, IF Len(games) > AtOnce THEN AtOnce ELSE Len(games))

\* A league's state has these matches to ask for.
Enrich(j, games, started) ==
    /\ asks[j] = <<>> /\ games # <<>>
    /\ asks' = [asks EXCEPT ![j] = FirstOf(games)]
    /\ underway' = [underway EXCEPT ![j] = started]
    /\ UNCHANGED <<holder, call, counted, day, countDay, calls, arrived, kept>>

Lock(j) ==
    /\ holder = NoJob /\ asks[j] # <<>>
    /\ holder' = j /\ call' = 0
    /\ UNCHANGED <<asks, underway, counted, day, countDay, calls, arrived, kept>>

Game == Head(asks[holder])

\* On to the next match, or the lock is given up.
Done ==
    /\ asks' = [asks EXCEPT ![holder] = Tail(@)]
    /\ holder' = IF Len(asks[holder]) = 1 THEN NoJob ELSE holder
    /\ call' = 0 /\ counted' = 0
    /\ UNCHANGED underway

\* The match is not mapped, or its answer is there.
LookUp ==
    /\ holder # NoJob /\ call = 0
    /\ IF Game \in Mapped \ DOMAIN kept THEN call' = 1 /\ UNCHANGED <<asks, underway, holder, counted>> ELSE Done
    /\ UNCHANGED <<day, countDay, calls, arrived, kept>>

UsedToday == IF countDay = day THEN calls ELSE 0

\* Mutant: one request too many.
UpToBudget == UsedToday <= Budget

Affordable == UsedToday < Budget

\* _get, up to the request.
Reserve ==
    /\ holder # NoJob /\ call > 0 /\ counted = 0
    /\ Affordable
    /\ calls' = UsedToday + 1 /\ countDay' = day /\ counted' = 1
    /\ UNCHANGED <<asks, underway, holder, call, day, arrived, kept>>

Refuse ==
    /\ holder # NoJob /\ call > 0 /\ counted = 0
    /\ ~Affordable
    /\ Done
    /\ calls' = UsedToday /\ countDay' = day
    /\ UNCHANGED <<day, arrived, kept>>

\* The match itself, its lineups and, once it has started, its substitutions.
Requests == IF Game \in underway[holder] THEN 3 ELSE 2

Ask(fails) ==
    /\ holder # NoJob /\ counted = 1
    /\ arrived' = arrived + 1
    /\ IF fails THEN Done /\ UNCHANGED kept
       ELSE IF call < Requests
       THEN call' = call + 1 /\ counted' = 0 /\ UNCHANGED <<asks, underway, holder, kept>>
       ELSE \E a \in Answers :
               kept' = [g \in DOMAIN kept \cup {Game} |-> IF g = Game THEN a ELSE kept[g]] /\ Done
    /\ UNCHANGED <<day, countDay, calls>>

\* The next day; the provider counts from nothing.
Midnight ==
    /\ day < MaxDays
    /\ day' = day + 1 /\ arrived' = 0
    /\ UNCHANGED <<asks, underway, holder, call, counted, countDay, calls, kept>>

Expire(g) ==
    /\ kept' = [h \in DOMAIN kept \ {g} |-> kept[h]]
    /\ UNCHANGED <<asks, underway, holder, call, counted, day, countDay, calls, arrived>>

FeedNext ==
    \/ \E j \in Jobs : Lock(j) \/ \E w \in Wanted : Enrich(j, w.games, w.started)
    \/ LookUp \/ Reserve \/ Refuse \/ Midnight
    \/ \E fails \in BOOLEAN : Ask(fails)
    \/ \E g \in DOMAIN kept : Expire(g)

FeedSpec == FeedInit /\ [][FeedNext]_feedVars

-----------------------------------------------------------------------------
(* Properties                                                              *)

(***************************************************************************)
(* "At most 90 requests/day per process" (LIVE_INTELLIGENCE.md:138),       *)
(* whatever fails and however many leagues ask, as the provider counts     *)
(* them: only one request that was counted before midnight may arrive      *)
(* after it.                                                               *)
(***************************************************************************)
BudgetKept == arrived <= Budget + 1

(***************************************************************************)
(* However its substitutions go, a lineup that is accepted leaves as many  *)
(* of a team on the field as it lists starters of it, eleven for each of   *)
(* its entries; and a player it confirms is there exactly if the last      *)
(* thing that happened to him was to come on (lineups.py:92), unless he    *)
(* went off and came on in one minute.                                     *)
(***************************************************************************)
OnFieldAsListed ==
    \A g \in {g \in DOMAIN kept : Accepted(kept[g])} :
        LET a == kept[g]
            field == FieldAfter(a)[Len(a.changes)]
            told == Appearances(a)
        IN  /\ \A t \in MatchTeams :
                   Cardinality(field \cap NamedFor(a, t)) = LineupSize * Cardinality(EntriesOf(a, t))
            /\ \A p \in DOMAIN told :
                   told[p].on # told[p].off \/ told[p].on = -1 => (p \in field <=> told[p].on > told[p].off)
=============================================================================
