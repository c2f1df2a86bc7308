-------------------------- MODULE LivePredictions --------------------------
(***************************************************************************)
(* The private predictions (assistant/ml_inference.py: LiveML) and their   *)
(* archive.  One background thread at a time downloads every player's      *)
(* history with a few workers, predicts, publishes what it predicted for   *)
(* the current generation, and records it with CaptureArchive.             *)
(*                                                                         *)
(* A generation is a download of the catalogue.  The planner               *)
(* (assistant/service.py) keeps the official snapshot of the newest        *)
(* download and the newest forecast; it asks with that forecast (a request *)
(* with an older one finds no snapshot and changes nothing), and may       *)
(* download anew at any time: after a refresh, an expiry or a passed       *)
(* deadline.                                                               *)
(***************************************************************************)
EXTENDS CaptureArchive

CONSTANTS
    Players, Builders,       \* the roster, in order; numbers for background threads
    Workers,                 \* max_workers of a build
    OutageErrors,            \* failures without a success that trip the circuit
    HistoryTTL,
    MaxDownloads, MaxEvents      \* bounds of the model

ASSUME WorkersAssumption == Workers \in Nat \ {0} /\ OutageErrors \in Nat \ {0}
ASSUME WriterAssumption == "build" \in Writers
ASSUME BoundsAssumption ==
    /\ HistoryTTL \in Nat /\ MaxDownloads \in Nat /\ MaxEvents \in Nat
    /\ Players \subseteq Nat /\ Builders \subseteq Nat /\ IsFiniteSet(Players)

VARIABLES
    catalogues,      \* of each download the Gameweeks to forecast and those it calls final
    snapshot,        \* the download that is the official snapshot, 0 for none
    latest,          \* the download of the planner's newest forecast, 0 for none
    generation,      \* the generation predictions are shown for, 0 for none
    running, state,  \* the flag and the status shown
    rows,            \* the published predictions: at most one set of them
    component,       \* the generation of the component forecast, 0 for none
    historyCache,    \* <<player, finished matches>> -> history
    builds,          \* the background threads at work
    refreshes,       \* history: how many refreshes there were
    events           \* bounds how much happens around the builds

planner == <<catalogues, snapshot, latest>>
memory == <<generation, running, state, rows, component, historyCache, builds>>
vars == <<archiveVars, planner, memory, refreshes, events>>

\* When a history was retrieved, and how many refreshes came before it was asked for.
History == [at : 0..MaxTime, asked : 0..MaxEvents]

\* What a thread has of a player: nothing yet, a request under way, an error, a history.
Task == [pc : {"queued", "asking", "failed", "have"}, history : History]
Queued == [pc |-> "queued", history |-> [at |-> 0, asked |-> 0]]
NoTask == [p \in Players |-> Queued]

Build == [pc : {"histories", "publish", "recording", "end"},
          gen : 1..MaxDownloads, snapshot : 1..MaxDownloads, since : 0..MaxEvents,
          task : [Players -> Task], at : 0..MaxTime, stale : BOOLEAN]

\* The Gameweeks whose deadline is still to come.
Ahead == {g \in Gameweeks : Deadline[g] > now}

Finished(g) == catalogues[g].final
Active(b) == b \in DOMAIN builds
In(b, step) == Active(b) /\ builds[b].pc = step
Have(b) == {p \in Players : builds[b].task[p].pc = "have"}
FailedIn(b) == {p \in Players : builds[b].task[p].pc = "failed"}
Asking(b) == {p \in Players : builds[b].task[p].pc = "asking"}
Settled(b) == Have(b) \cup FailedIn(b) = Players

Event == events < MaxEvents /\ events' = events + 1

-----------------------------------------------------------------------------
(* The planner's side                                                      *)

\* The catalogue is downloaded, which replaces the official snapshot, and then
\* forecast, unless no deadline is to come or the forecast fails.
Download ==
    /\ Len(catalogues) < MaxDownloads
    /\ catalogues' = Append(catalogues, [ahead |-> Ahead, final |-> final])
    /\ snapshot' = Len(catalogues')
    /\ \/ Ahead # {} /\ latest' = snapshot'
       \/ UNCHANGED latest
    /\ UNCHANGED <<archiveVars, generation, running, state, rows, component, historyCache, builds,
                   refreshes, events>>

Renewed == generation # latest

\* Mutant: the previous generation's rows stay until the next ones are there.
RowsOnRequestKept == rows

RowsOnRequest == IF Renewed THEN {} ELSE rows

\* request(): a new generation starts empty; a thread is started unless one runs.
Request ==
    LET status == IF Renewed THEN "loading" ELSE state
        starts == ~running /\ status = "loading"
    IN  /\ latest # 0
        /\ generation' = latest /\ state' = status
        /\ rows' = RowsOnRequest
        /\ component' = IF Renewed THEN 0 ELSE component
        /\ running' = (running \/ starts)
        /\ \/ starts /\ \E b \in Builders :
                 /\ ~Active(b) /\ \A c \in Builders : c < b => Active(c)
                 /\ builds' = With(builds, b,
                        [pc |-> "histories", gen |-> latest, snapshot |-> snapshot,
                         since |-> refreshes, task |-> NoTask, at |-> 0, stale |-> FALSE])
           \/ ~starts /\ UNCHANGED builds
        /\ UNCHANGED <<archiveVars, planner, historyCache, refreshes, events>>

\* Mutant: a refresh declares the running build gone.
RunningAfterRefreshCleared == FALSE

RunningAfterRefresh == running

\* refresh(): the forecast is dropped too, so the next reader downloads.
Invalidate ==
    /\ Event /\ refreshes' = refreshes + 1
    /\ rows' = {} /\ historyCache' = <<>> /\ component' = 0 /\ generation' = 0
    /\ running' = RunningAfterRefresh
    /\ UNCHANGED <<archiveVars, planner, state, builds>>

-----------------------------------------------------------------------------
(* The background thread                                                   *)

Set(b, p, task) == builds' = [builds EXCEPT ![b].task[p] = task]

Free(b) == Cardinality(Asking(b)) < Workers
Outage(b) == Have(b) = {} /\ Cardinality(FailedIn(b)) >= OutageErrors

Key(b, p) == <<p, Finished(builds[b].snapshot)>>
Cached(b, p) == Key(b, p) \in DOMAIN historyCache /\ now - historyCache[Key(b, p)].at < HistoryTTL

\* A worker takes the next player: after an outage it gives up, a recent history
\* of the same finished matches is used, or FPL is asked.
Take(b, p) ==
    /\ In(b, "histories") /\ builds[b].task[p].pc = "queued" /\ Free(b)
    /\ \A q \in Players : q < p => builds[b].task[q].pc # "queued"
    /\ \/ Outage(b) /\ Set(b, p, [Queued EXCEPT !.pc = "failed"])
       \/ /\ ~Outage(b) /\ Cached(b, p)
          /\ Set(b, p, [pc |-> "have", history |-> historyCache[Key(b, p)]])
       \/ /\ ~Outage(b) /\ ~Cached(b, p)
          /\ Set(b, p, [pc |-> "asking", history |-> [at |-> 0, asked |-> refreshes]])
    /\ UNCHANGED <<archiveVars, planner, generation, running, state, rows, component,
                   historyCache, refreshes, events>>

\* The answer goes into the cache there is by then.
Receive(b, p) ==
    /\ Active(b) /\ builds[b].task[p].pc = "asking"
    /\ LET history == [builds[b].task[p].history EXCEPT !.at = now]
       IN  /\ Set(b, p, [pc |-> "have", history |-> history])
           /\ historyCache' = With(historyCache, Key(b, p), history)
    /\ UNCHANGED <<archiveVars, planner, generation, running, state, rows, component,
                   refreshes, events>>

HistoryFails(b, p) ==
    /\ Active(b) /\ builds[b].task[p].pc = "asking"
    /\ Set(b, p, [Queued EXCEPT !.pc = "failed"])
    /\ UNCHANGED <<archiveVars, planner, generation, running, state, rows, component,
                   historyCache, refreshes, events>>

\* Predictions for every player.  Of the histories only this is kept: whether one
\* was asked for before a refresh that the thread was started after.
Predict(b) ==
    /\ In(b, "histories") /\ Settled(b)
    /\ builds' = [builds EXCEPT ![b].pc = "publish", ![b].at = now, ![b].task = NoTask,
                   ![b].stale =
                       \E p \in Have(b) : builds[b].task[p].history.asked < builds[b].since]
    /\ UNCHANGED <<archiveVars, planner, generation, running, state, rows, component,
                   historyCache, refreshes, events>>

\* Any other exception: predictions are unavailable for this generation.
BuildFails(b) ==
    /\ In(b, "histories") /\ (Settled(b) \/ builds[b].task = NoTask)
    /\ builds' = [builds EXCEPT ![b].pc = "end", ![b].task = NoTask]
    /\ IF builds[b].gen = generation
       THEN rows' = {} /\ state' = "unavailable"
       ELSE UNCHANGED <<rows, state>>
    /\ UNCHANGED <<archiveVars, planner, generation, running, component, historyCache,
                   refreshes, events>>

\* Mutant: whatever was built is published.
SupersededNever(b) == FALSE

Superseded(b) == builds[b].gen # generation

Drop(b) ==
    /\ In(b, "publish") /\ Superseded(b)
    /\ builds' = [builds EXCEPT ![b].pc = "end"]
    /\ UNCHANGED <<archiveVars, planner, generation, running, state, rows, component,
                   historyCache, refreshes, events>>

\* Published under the lock, with a component forecast unless that failed, then
\* recorded as of when it was generated.
Publish(b) ==
    /\ In(b, "publish") /\ ~Superseded(b)
    /\ rows' = {[gen |-> builds[b].gen, stale |-> builds[b].stale]}
    /\ component' \in {builds[b].gen, 0}
    /\ state' = "ready"
    /\ builds' = [builds EXCEPT ![b].pc = "recording"]
    /\ BeginRecord("build", [by |-> "build", at |-> builds[b].at,
                             first |-> Min(catalogues[builds[b].gen].ahead)],
                   Finished(builds[b].snapshot))
    /\ UNCHANGED <<now, final, captures, indexes, actuals>>
    /\ UNCHANGED <<planner, generation, running, historyCache, refreshes, events>>

\* Mutant: the flag is cleared only by the build whose result counts.
RunningAfterOfCurrent(b) == running /\ builds[b].gen # generation

RunningAfter(b) == FALSE

\* With what was recorded, or without anything to record.
Finish(b) ==
    /\ \/ In(b, "recording") /\ Leave("build")
       \/ In(b, "end") /\ UNCHANGED archiveVars
    /\ running' = RunningAfter(b)
    /\ builds' = [x \in DOMAIN builds \ {b} |-> builds[x]]
    /\ UNCHANGED <<planner, generation, state, rows, component, historyCache, refreshes,
                   events>>

Step(b) ==
    \/ \E p \in Players : Take(b, p) \/ Receive(b, p) \/ HistoryFails(b, p)
    \/ Predict(b) \/ BuildFails(b) \/ Drop(b) \/ Publish(b) \/ Finish(b)

-----------------------------------------------------------------------------
(* The other writers, and events                                          *)

Elsewhere == UNCHANGED <<planner, memory, refreshes>>
Outside == Elsewhere /\ UNCHANGED events

\* The scheduler records official points by the official snapshot, whether or not
\* it could be forecast.
Schedule(w) ==
    /\ ~Working(w) /\ Event
    /\ snapshot # 0 /\ BeginFinalize(w, Finished(snapshot))
    /\ UNCHANGED <<now, final, captures, indexes, actuals>> /\ Elsewhere

\* The command downloads and predicts for itself, then records.
RunCommand(w) ==
    /\ ~Working(w) /\ Event
    /\ Ahead # {} /\ BeginRecord(w, [by |-> w, at |-> now, first |-> Min(Ahead)], final)
    /\ UNCHANGED <<now, final, captures, indexes, actuals>> /\ Elsewhere

\* The host stops the application; its threads and memory are gone.
Crash ==
    /\ Event
    /\ snapshot' = 0 /\ latest' = 0 /\ generation' = 0 /\ running' = FALSE /\ state' = "idle"
    /\ rows' = {} /\ component' = 0 /\ historyCache' = <<>> /\ builds' = <<>>
    /\ writing' = Without(DOMAIN writing)
    /\ UNCHANGED <<now, final, captures, indexes, actuals, catalogues, refreshes>>

Init ==
    /\ ArchiveInit
    /\ catalogues = <<>> /\ snapshot = 0 /\ latest = 0
    /\ generation = 0 /\ running = FALSE /\ state = "idle" /\ rows = {} /\ component = 0 /\ historyCache = <<>> /\ builds = <<>>
    /\ refreshes = 0 /\ events = 0

Next ==
    \/ Download \/ Request \/ Invalidate
    \/ \E b \in Builders : Step(b)
    \/ \E w \in Writers \ {"build"} : Schedule(w) \/ RunCommand(w) \/ (Leave(w) /\ Outside)
    \/ \E w \in Writers : Write(w) /\ Outside
    \/ Crash
    \/ (Tick \/ \E g \in Gameweeks : BecomeFinal(g)) /\ Outside

Spec == Init /\ [][Next]_vars

\* Threads run on, and the page polls while predictions are loading.
FairSpec ==
    /\ Spec
    /\ \A b \in Builders : WF_vars(Step(b))
    /\ WF_vars(Write("build") /\ Outside)
    /\ WF_vars(state = "loading" /\ Request)

-----------------------------------------------------------------------------
(* Properties                                                              *)

(***************************************************************************)
(* The variables have their types, and no more histories than the workers  *)
(* are being downloaded, over all threads (LIVE_INFERENCE.md: "uses at     *)
(* most four history workers").                                            *)
(***************************************************************************)
TypeOK ==
    /\ ArchiveTypeOK
    /\ snapshot \in 0..Len(catalogues) /\ latest \in 0..snapshot /\ generation \in 0..latest
    /\ running \in BOOLEAN /\ state \in {"idle", "loading", "ready", "unavailable"}
    /\ component \in 0..latest
    /\ \A k \in DOMAIN historyCache : historyCache[k] \in History
    /\ DOMAIN builds \subseteq Builders /\ \A b \in DOMAIN builds : builds[b] \in Build
    /\ \A b \in DOMAIN builds : Cardinality(Asking(b)) <= Workers

(***************************************************************************)
(* At most one build is at work, also while refreshes and new generations  *)
(* come and go, and the flag says whether there is one (ml_inference.py:   *)
(* "One coalesced four-worker history job").                               *)
(***************************************************************************)
OneBuild == Cardinality(DOMAIN builds) = (IF running THEN 1 ELSE 0)

(***************************************************************************)
(* What is shown as ready was built from the generation it is shown for:   *)
(* rows and component forecast, whatever superseded builds still return    *)
(* (ml_inference.py:268-274; test_live_ridge.py: "refresh discards old     *)
(* jobs and never mixes forecast generations").                            *)
(***************************************************************************)
NeverMixed ==
    /\ \A r \in rows : r.gen = generation /\ state = "ready"
    /\ component # 0 => component = generation /\ rows # {}
    /\ state = "ready" /\ generation # 0 => rows # {}

(***************************************************************************)
(* Predictions do not stay "loading": a page that polls sees them settle,  *)
(* also when builds fail or are superseded while another is wanted.        *)
(***************************************************************************)
Settles == state = "loading" ~> state # "loading"

(***************************************************************************)
(* LIVE_INFERENCE.md:94: "Official histories cache for up to six hours     *)
(* unless finished fixtures change; explicit Refresh invalidates them":    *)
(* no prediction of a build started after a refresh rests on a history     *)
(* that was asked for before it.                                           *)
(***************************************************************************)
RefreshInvalidates == \A r \in rows : ~r.stale
=============================================================================
