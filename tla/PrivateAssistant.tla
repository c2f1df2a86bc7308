-------------------------- MODULE PrivateAssistant --------------------------
(***************************************************************************)
(* Private requests from the boundary in (assistant/web.py) through the    *)
(* shared forecast and the session's squad (assistant/service.py) to the   *)
(* boundary out, composed with SessionStore.                               *)
(*                                                                         *)
(* The middleware lets a request in when its session is live, and looks    *)
(* again before the answer leaves.  In between the handler runs in a       *)
(* worker thread, so other requests, sign-ins, a logout, a refresh and     *)
(* time all come between any two of its steps.  A handler reads the shared *)
(* forecast several times: each call of optimal() reads it again.          *)
(*                                                                         *)
(* A forecast is [catalogue, first]: which download of the FPL catalogue   *)
(* it simulates and the deadline of its first Gameweek.  The plans cache   *)
(* is left out: its key names the download and the squad, so it answers    *)
(* what computing afresh would.  Component-model planning is left out too. *)
(***************************************************************************)
EXTENDS SessionStore, Sequences

CONSTANTS
    Requests, NoOne,        \* request slots; nobody holds service.lock
    Deadlines,              \* the published Gameweek deadlines
    ForecastTTL, SquadTTL, MaxSquads,
    MaxDownloads            \* bound of the model

ASSUME HolderAssumption == NoOne \notin Requests
ASSUME TokenAssumption == Tokens # {}
ASSUME DeadlineAssumption == Deadlines \subseteq Nat
ASSUME CacheAssumption ==
    ForecastTTL \in Nat /\ SquadTTL \in Nat /\ MaxSquads \in Nat \ {0} /\ MaxDownloads \in Nat

VARIABLES
    req,             \* what each request has still to do, and what it read
    lock,            \* the holder of service.lock, while it downloads
    forecasts,       \* the shared forecast: a cache of one
    squads,          \* session -> its loaded public squad
    downloads,       \* how many catalogue downloads have begun
    refreshedAt      \* history: downloads when the last refresh cleared

appVars == <<req, lock, forecasts, squads, downloads, refreshedAt>>
vars == <<authVars, appVars>>

\* The steps of each handler.  "read" and "plan" are calls of
\* statistical_forecast(); a "plan" uses it for the Gameweek and the players
\* chosen from the first one.
Lineup == <<"snapshot", "read", "plan", "plan">>
Load == <<"read", "squad", "snapshot", "read">>
Handlers == {Lineup, Load, <<"refresh">>, <<"clear", "logout">>}

Forecast == [catalogue : Nat, first : Deadlines]

Request == [pc : {"idle", "run", "failed", "answered"},
            handler : Seq({"snapshot", "read", "plan", "squad", "refresh", "clear", "logout"}),
            token : Tokens, seen : Seq(Forecast), floor : Nat]

Idle == [pc |-> "idle", handler |-> <<>>, token |-> CHOOSE t \in Tokens : TRUE,
         seen |-> <<>>, floor |-> 0]

At(r, step) ==
    /\ req[r].pc = "run" /\ req[r].handler # <<>> /\ Head(req[r].handler) = step

\* The request with its next step done.
Advance(r) == [req EXCEPT ![r].handler = Tail(@)]

AdvanceSeeing(r, f) == [req EXCEPT ![r].handler = Tail(@), ![r].seen = Append(@, f)]

\* An exception ends the handler; the error answer still meets the boundary.
Abort(r) == [req EXCEPT ![r].handler = <<>>, ![r].pc = "failed"]

Reading(r) == At(r, "read") \/ At(r, "plan")

\* A plan on another forecast than the first may lack its Gameweek or players.
AfterReading(r, f) ==
    {AdvanceSeeing(r, f)} \cup
    (IF At(r, "plan") /\ f # req[r].seen[1] THEN {Abort(r)} ELSE {})

-----------------------------------------------------------------------------
(* The boundary                                                            *)

Enter(r, t, h) ==
    /\ req[r].pc = "idle" /\ Require(t)
    /\ req' = [req EXCEPT ![r] = [pc |-> "run", handler |-> h, token |-> t,
                                  seen |-> <<>>, floor |-> refreshedAt]]
    /\ UNCHANGED <<lock, forecasts, squads, downloads, refreshedAt>>

\* Mutant: the session is looked up only on the way in.
PermittedOnEntry(r) == TRUE

Permitted(r) == req[r].token \in LiveTokens

\* The answer leaves with what the handler read.
Answer(r) ==
    /\ req[r].pc = "run" /\ req[r].handler = <<>> /\ Permitted(r)
    /\ Lookup(req[r].token)
    /\ req' = [req EXCEPT ![r].pc = "answered"]
    /\ UNCHANGED <<lock, forecasts, squads, downloads, refreshedAt>>

\* The middleware's 401, or the handler's own error.
Refuse(r) ==
    /\ \/ req[r].pc = "run" /\ req[r].handler = <<>> /\ ~Permitted(r)
       \/ req[r].pc = "failed"
    /\ Lookup(req[r].token)
    /\ req' = [req EXCEPT ![r] = Idle]
    /\ UNCHANGED <<lock, forecasts, squads, downloads, refreshedAt>>

Close(r) ==
    /\ req[r].pc = "answered"
    /\ req' = [req EXCEPT ![r] = Idle]
    /\ UNCHANGED <<authVars, lock, forecasts, squads, downloads, refreshedAt>>

-----------------------------------------------------------------------------
(* The shared forecast                                                     *)

\* Usable: not expired, and its first Gameweek can still be planned.
Usable == Holds(forecasts, 0, now) /\ forecasts[0].value.first > now

ReadCached(r) ==
    /\ Reading(r) /\ lock = NoOne /\ Usable
    /\ req' \in AfterReading(r, forecasts[0].value)
    /\ UNCHANGED <<authVars, lock, forecasts, squads, downloads, refreshedAt>>

BeginDownload(r) ==
    /\ Reading(r) /\ lock = NoOne /\ ~Usable /\ downloads < MaxDownloads
    /\ lock' = r /\ downloads' = downloads + 1
    /\ forecasts' = AfterGet(forecasts, 0, now)
    /\ UNCHANGED <<authVars, req, squads, refreshedAt>>

Future == {d \in Deadlines : d > now}

Downloaded(r) ==
    /\ lock = r
    /\ \E first \in Future :
          /\ \A d \in Future : first <= d
          /\ LET f == [catalogue |-> downloads, first |-> first]
             IN  /\ forecasts' = AfterSet(forecasts, 0, f, now, ForecastTTL, 1)
                 /\ req' \in AfterReading(r, f)
    /\ lock' = NoOne
    /\ UNCHANGED <<authVars, squads, downloads, refreshedAt>>

\* Mutant: an error leaves the lock taken.
DownloadFailsLocked(r) ==
    /\ lock = r
    /\ req' = Abort(r)
    /\ UNCHANGED <<authVars, lock, forecasts, squads, downloads, refreshedAt>>

\* FPL is down, or publishes no future deadline.
DownloadFails(r) ==
    /\ lock = r
    /\ req' = Abort(r) /\ lock' = NoOne
    /\ UNCHANGED <<authVars, forecasts, squads, downloads, refreshedAt>>

\* Mutant: refresh does not wait for a download in progress.
MayRefreshAnyTime == TRUE

MayRefresh == lock = NoOne

RefreshForecast(r) ==
    /\ At(r, "refresh") /\ MayRefresh
    /\ forecasts' = EmptyCache
    /\ refreshedAt' = downloads
    /\ req' = Advance(r)
    /\ UNCHANGED <<authVars, lock, squads, downloads>>

-----------------------------------------------------------------------------
(* The session's squad                                                     *)

ReadSnapshot(r) ==
    /\ At(r, "snapshot")
    /\ req' = IF Holds(squads, req[r].token, now) THEN Advance(r) ELSE Abort(r)
    /\ squads' = AfterGet(squads, req[r].token, now)
    /\ UNCHANGED <<authVars, lock, forecasts, downloads, refreshedAt>>

StoreSquad(r) ==
    /\ At(r, "squad")
    /\ squads' = AfterSet(squads, req[r].token, 0, now, SquadTTL, MaxSquads)
    /\ req' = Advance(r)
    /\ UNCHANGED <<authVars, lock, forecasts, downloads, refreshedAt>>

SquadFails(r) ==
    /\ At(r, "squad")
    /\ req' = Abort(r)
    /\ UNCHANGED <<authVars, lock, forecasts, squads, downloads, refreshedAt>>

ClearSession(r) ==
    /\ At(r, "clear")
    /\ squads' = AfterDelete(squads, req[r].token)
    /\ req' = Advance(r)
    /\ UNCHANGED <<authVars, lock, forecasts, downloads, refreshedAt>>

\* The answer to a logout carries nothing: the request is over.
RevokeSession(r) ==
    /\ At(r, "logout")
    /\ Logout(req[r].token)
    /\ req' = [req EXCEPT ![r] = Idle]
    /\ UNCHANGED <<lock, forecasts, squads, downloads, refreshedAt>>

-----------------------------------------------------------------------------

AppInit ==
    /\ Init
    /\ req = [r \in Requests |-> Idle] /\ lock = NoOne
    /\ forecasts = EmptyCache /\ squads = EmptyCache
    /\ downloads = 0 /\ refreshedAt = 0

Step(r) ==
    \/ \E t \in DOMAIN used, h \in Handlers : Enter(r, t, h)
    \/ Answer(r) \/ Refuse(r) \/ Close(r)
    \/ ReadCached(r) \/ BeginDownload(r) \/ Downloaded(r) \/ DownloadFails(r)
    \/ RefreshForecast(r)
    \/ ReadSnapshot(r) \/ StoreSquad(r) \/ SquadFails(r)
    \/ ClearSession(r) \/ RevokeSession(r)

AppNext ==
    \/ \E r \in Requests : Step(r)
    \/ \E l \in Logins : SignIn(l) /\ UNCHANGED appVars
    \/ \E t \in DOMAIN used : Lookup(t) /\ UNCHANGED appVars
    \/ Tick /\ UNCHANGED appVars

AppSpec == AppInit /\ [][AppNext]_vars

-----------------------------------------------------------------------------

(* Every variable has its type, and whoever holds the lock is at a read.   *)
AppTypeOK ==
    /\ TypeOK
    /\ req \in [Requests -> Request]
    /\ lock \in Requests \cup {NoOne}
    /\ lock # NoOne => Reading(lock)
    /\ CacheOf(forecasts, {0}, Forecast, 1)
    /\ CacheOf(squads, Tokens, {0}, MaxSquads)
    /\ downloads \in 0..MaxDownloads /\ refreshedAt \in 0..downloads

Answers(r) == req[r].pc # "answered" /\ req'[r].pc = "answered"

(* "A session revoked/expired while a long plan was computing cannot       *)
(* receive its result" (web.py:104): whatever happened while the handler   *)
(* ran, an answer leaves only for a session that has not been logged out,  *)
(* is not past its absolute end, and was active within the idle time.      *)
RevokedGetsNothing ==
    [][\A r \in Requests : Answers(r) =>
          LET u == used[req[r].token]
          IN  /\ ~u.out
              /\ now < u.opened + SessionSeconds
              /\ now < u.last + IdleSeconds]_vars

(* A request that enters after a refresh has finished plans on a catalogue *)
(* whose download began after that refresh: a download that was already    *)
(* running cannot put its older catalogue back.                            *)
FreshAfterRefresh ==
    \A r \in Requests : \A i \in 1..Len(req[r].seen) :
        req[r].seen[i].catalogue > req[r].floor

(* "Same shared outcomes and FPL scoring for both lineups" (the note       *)
(* lineup() sends with expected_gain): the squad's current lineup, scored  *)
(* on the first forecast the handler reads, and the optimal one, scored on *)
(* the second, come from one forecast.                                     *)
SharedOutcomes ==
    \A r \in Requests :
        req[r].pc = "answered" /\ Len(req[r].seen) = 3 => req[r].seen[1] = req[r].seen[2]
=============================================================================
