----------------------------- MODULE LeagueFeeds -----------------------------
(***************************************************************************)
(* What an analysis is made from: a snapshot of a league, beside the        *)
(* lineups of the matches, which the same job may ask for.  The two share   *)
(* no state.                                                                *)
(***************************************************************************)
EXTENDS LineupFeed

CONSTANTS
    Gameweeks, Matches, MatchesIn, Clubs, Roster, ClubOf, Entries, FirstWeek,
    PageSize, Caps, Unlimited, MaxMoves      \* as in LeagueSnapshot

VARIABLES
    stage, did, processed, current, table, moves, wanted, cap, at, ended, turn, season, got

snapshotVars == <<stage, did, processed, current, table, moves, wanted, cap, at, ended, turn, season, got>>

Snapshot == INSTANCE LeagueSnapshot

ASSUME SnapshotAssumption == Snapshot!LegalConstants

\* LeagueSnapshot: what is over or official in a snapshot cannot change any more, a player
\* confirmed not to have appeared has not, and a limited league is the whole league of one
\* moment.
SnapshotTrue == Snapshot!SnapshotTrue
=============================================================================
