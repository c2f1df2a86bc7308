---------------------------- MODULE PrivatePage ------------------------------
(***************************************************************************)
(* The private page in the browser: frontend/src/assistant.js.  Whatever   *)
(* the reader starts is one run(): a script of requests, each sent when    *)
(* the one before it is answered.  Beside it run the poll of the           *)
(* match-history status and the check of the session every minute.         *)
(*                                                                         *)
(* The browser has one cookie for all its tabs, this page its own CSRF     *)
(* nonce; another tab may sign in, load a squad or sign out, and sessions  *)
(* end.  As in LeaguePage an aborted request, and the run or poll that     *)
(* awaits it, ends in the action that aborts it; a request is served when  *)
(* it is answered, with the cookie it was sent with.                       *)
(*                                                                         *)
(* Not here: drawing, sorting and filters, which player is swapped or      *)
(* moved, the details of a player, the texts.  Transfers, their search and *)
(* chips are one plan.                                                     *)
(***************************************************************************)
EXTENDS Naturals, FiniteSets, Sequences

CONSTANTS
    Sessions, NoSession,     \* supply of sessions: each is opened once
    Teams, NoTeam,           \* public squads that can be loaded
    Horizons, Models,        \* what the two selects offer
    HorizonAtFirst, ModelAtFirst, \* and where they stand at first
    Nothing,                 \* null
    MaxPolls, MaxEvents      \* bounds: status requests at once; what the reader and the others do

ASSUME PageAssumption ==
    /\ NoSession \notin Sessions /\ NoTeam \notin Teams /\ Nothing \notin [team : Teams, session : Sessions]
    /\ HorizonAtFirst \in Horizons /\ ModelAtFirst \in Models
    /\ MaxPolls \in Nat \ {0} /\ MaxEvents \in Nat

VARIABLES
    csrf,        \* state.csrf, named by its session; the workspace shows while it is set
    shown,       \* state.predictions, squad, lineup, and the plan on the page
    horizon, model,   \* where the selects stand
    tasks,       \* what awaits an answer: runs, polls, checks
    timer,       \* mlPoll is set
    cookie,      \* the session the browser's cookie names
    live, opened,     \* the server's sessions; those there have been
    loaded,      \* the server's squads: the team each session loaded
    told,        \* another tab's "logout" is under way to this one
    unanswered,  \* history: selects whose last change no answer has met
    elsewhere,   \* history: the session's squad may not be the one this page was told of
    events

server == <<cookie, live, opened, loaded, told>>
selects == <<horizon, model>>
ghosts == <<unanswered, elsewhere>>
pageVars == <<csrf, shown, selects, tasks, timer, server, ghosts, events>>

Blank == [predictions |-> Nothing, squad |-> Nothing, lineup |-> Nothing, plan |-> Nothing]

Runs == {"access", "login", "logout", "refresh", "horizon", "model", "squad", "draft", "plan"}

\* The requests of each script; a "model" run or a refresh goes on to the lineup
\* only when there is a squad.
Script(kind) ==
    CASE kind = "access" -> <<"session">>
      [] kind = "refresh" ->
            IF shown.squad = Nothing THEN <<"refresh", "predictions">>
                                     ELSE <<"refresh", "predictions", "squad", "lineup">>
      [] kind = "horizon" -> <<"predictions">>
      [] kind = "model" -> IF shown.squad = Nothing THEN <<>> ELSE <<"lineup">>
      [] kind = "squad" -> <<"squad", "lineup">>
      [] kind = "poll" -> <<"status">>
      [] kind = "check" -> <<"session">>
      [] OTHER -> <<kind>>

\* A request as it is sent: api() and loadPredictions() read the selects then.
Task(kind, n, script, holds, team) ==
    [kind |-> kind, n |-> n, script |-> script, holds |-> holds, team |-> team,
     sent |-> [cookie |-> cookie, csrf |-> csrf, horizon |-> horizon, model |-> model], latest |-> FALSE]

Running == {t \in tasks : t.kind \in Runs}
Busy == Running # {}
Locked == \E t \in tasks : t.holds         \* the controls of the workspace are disabled
Loads(ts) == {t \in ts : t.latest}

\* The request a script has reached: loading predictions takes over predictionRevision.
Sent(t, ts) ==
    IF t.script = <<>> THEN ts
    ELSE IF Head(t.script) = "predictions"
    THEN {[u EXCEPT !.latest = FALSE] : u \in ts} \cup {[t EXCEPT !.latest = TRUE]}
    ELSE ts \cup {[t EXCEPT !.latest = FALSE]}

\* What is on the page once the request is sent: loadLineup() takes the lineup away.
Before(t, s) ==
    IF t.script # <<>> /\ Head(t.script) = "lineup" THEN [s EXCEPT !.lineup = Nothing] ELSE s

\* What the middleware asks of a request: only session and login are public, writing needs the nonce.
Public(step) == step \in {"session", "login"}
Writes(step) == step \in {"logout", "refresh", "squad", "draft", "plan"}
Authorised(t) == t.sent.cookie \in live
Matching(t) == Writes(Head(t.script)) => t.sent.csrf = t.sent.cookie

\* Requests this page will see no answer of: the server may have served a squad's all the same.
Unseen(ts) ==
    \/ UNCHANGED <<loaded, elsewhere>>
    \/ \E t \in ts :
          /\ Head(t.script) = "squad" /\ Authorised(t) /\ Matching(t)
          /\ loaded' = [loaded EXCEPT ![t.sent.cookie] = t.team] /\ elsewhere' = TRUE

NothingAborted(ts) == ts         \* mutant: requests under way are left alone
Aborted(ts) == {}

PageInit ==
    /\ csrf = NoSession /\ shown = Blank /\ horizon = HorizonAtFirst /\ model = ModelAtFirst
    /\ cookie \in Sessions \cup {NoSession}
    /\ live = {cookie} \ {NoSession} /\ opened = live
    /\ loaded = [s \in Sessions |-> NoTeam]
    /\ timer = FALSE /\ told = FALSE /\ unanswered = {} /\ elsewhere = FALSE /\ events = 0
    /\ tasks = {Task("access", 1, <<"session">>, TRUE, NoTeam)}

(***************************************************************************)
(* What the reader does.                                                   *)
(***************************************************************************)
Event == events < MaxEvents /\ events' = events + 1

Start(kind, team, s, ts, h, m) ==
    LET t == [Task(kind, 1, Script(kind), ~Locked, team) EXCEPT !.sent.horizon = h, !.sent.model = m]
    IN  tasks' = Sent(t, ts) /\ shown' = Before(t, s)

\* run() without interrupt: nothing while another run goes on.
Do(kind, team) ==
    /\ Event /\ ~Busy
    /\ Start(kind, team, shown, tasks, horizon, model)
    /\ UNCHANGED <<csrf, selects, timer, server, ghosts>>

Login == csrf = NoSession /\ Do("login", NoTeam)
Refresh ==
    csrf # NoSession /\ Do("refresh", IF shown.squad = Nothing THEN NoTeam ELSE shown.squad.team)
LoadSquad(team) == csrf # NoSession /\ Do("squad", team)

\* A draft of the lineup shown, a plan for the squad shown.
Draft == shown.lineup # Nothing /\ Do("draft", shown.lineup.team)
Plan == shown.squad # Nothing /\ Do("plan", NoTeam)

\* A select that is not disabled changes; while another run goes on nothing follows.
ChangeHorizon(h) ==
    /\ Event /\ csrf # NoSession /\ ~Locked /\ h # horizon
    /\ horizon' = h /\ model' = model
    /\ IF Busy THEN UNCHANGED <<tasks, shown>> ELSE Start("horizon", NoTeam, shown, tasks, h, model)
    /\ unanswered' = IF Busy THEN unanswered \cup {"horizon"} ELSE unanswered
    /\ UNCHANGED <<csrf, timer, server, elsewhere>>

KeptPlan == shown      \* mutant: the plan made with the other model stays
WithoutPlan == [shown EXCEPT !.plan = Nothing]

ChangeModel(m) ==
    /\ Event /\ csrf # NoSession /\ ~Locked /\ m # model
    /\ model' = m /\ horizon' = horizon
    /\ IF Busy THEN UNCHANGED <<tasks, shown>> ELSE Start("model", NoTeam, WithoutPlan, tasks, horizon, m)
    /\ unanswered' = IF Busy THEN unanswered \cup {"model"} ELSE unanswered \ {"model"}
    /\ UNCHANGED <<csrf, timer, server, elsewhere>>

\* Logging out interrupts: every other request is aborted, its run's controls are enabled again.
SignOut ==
    /\ Event /\ csrf # NoSession
    /\ Start("logout", NoTeam, shown, Aborted(tasks), horizon, model)
    /\ Unseen(tasks)
    /\ unanswered' = IF Loads(tasks) = {} THEN unanswered ELSE unanswered \cup {"horizon"}
    /\ UNCHANGED <<csrf, selects, timer, cookie, live, opened, told>>

(***************************************************************************)
(* Answers.                                                                *)
(***************************************************************************)
\* clearPrivate(), apart from the requests under way.
Clear ==
    /\ csrf' = NoSession /\ shown' = Blank /\ timer' = FALSE
    /\ horizon' = HorizonAtFirst /\ model' = ModelAtFirst
    /\ unanswered' = {} /\ elsewhere' = FALSE

\* 401: the page forgets everything.
Unauthorised(t) ==
    /\ ~Public(Head(t.script)) /\ ~Authorised(t)
    /\ Clear /\ tasks' = Aborted(tasks \ {t})
    /\ UNCHANGED <<server, events>>

\* The network, FPL, a refused nonce or a wrong passcode: the run ends with a message, the poll ends.
Failed(t) ==
    /\ tasks' = tasks \ {t}
    /\ Unseen({t})
    /\ unanswered' = IF t.latest THEN unanswered \cup {"horizon"} ELSE unanswered
    /\ UNCHANGED <<csrf, shown, selects, timer, cookie, live, opened, told, events>>

Served(t, step) ==
    /\ Head(t.script) = step
    /\ Public(step) \/ (Authorised(t) /\ Matching(t))

\* The rest of the script, sent with the cookie, nonce and selects of now.
Continue(t, s) ==
    LET u == Task(t.kind, t.n, Tail(t.script), t.holds, t.team)
    IN  tasks' = Sent(u, tasks \ {t}) /\ shown' = Before(u, s)

\* unlock(): the page takes the session's nonce and loads the predictions.
Unlock(t, session) ==
    /\ csrf' = session
    /\ tasks' = Sent([t EXCEPT !.script = <<"predictions">>,
                               !.sent = [cookie |-> cookie', csrf |-> session, horizon |-> horizon, model |-> model]],
                     tasks \ {t})

CheckedAccess(t) ==
    /\ t.kind = "access" /\ Served(t, "session")
    /\ cookie' = cookie
    /\ IF Authorised(t) THEN Unlock(t, t.sent.cookie) ELSE tasks' = tasks \ {t} /\ csrf' = csrf
    /\ UNCHANGED <<shown, selects, timer, live, opened, loaded, told, ghosts, events>>

CheckedSession(t) ==
    /\ t.kind = "check" /\ Served(t, "session")
    /\ IF Authorised(t)
       THEN tasks' = tasks \ {t} /\ UNCHANGED <<csrf, shown, selects, timer, ghosts>>
       ELSE Clear /\ tasks' = Aborted(tasks \ {t})
    /\ UNCHANGED <<server, events>>

LoggedIn(t) ==
    /\ Served(t, "login")
    /\ \E s \in Sessions \ opened :
          cookie' = s /\ live' = live \cup {s} /\ opened' = opened \cup {s} /\ Unlock(t, s)
    /\ UNCHANGED <<shown, selects, timer, loaded, told, ghosts, events>>

LoggedOut(t) ==
    /\ Served(t, "logout")
    /\ live' = live \ {t.sent.cookie} /\ loaded' = [loaded EXCEPT ![t.sent.cookie] = NoTeam]
    /\ cookie' = NoSession
    /\ Clear /\ tasks' = Aborted(tasks \ {t})
    /\ UNCHANGED <<opened, told, events>>

Refreshed(t) ==
    /\ Served(t, "refresh")
    /\ Continue(t, shown)
    /\ UNCHANGED <<csrf, selects, timer, server, ghosts, events>>

AnyRevision(t) == TRUE      \* mutant: an answer that has been superseded is shown
NotSuperseded(t) == t.latest

\* mlProgress() with the status in the answer; only "loading" sets the timer again.
Predicted(t) ==
    /\ Served(t, "predictions")
    /\ IF NotSuperseded(t)
       THEN /\ Continue(t, [shown EXCEPT !.predictions = [horizon |-> t.sent.horizon]])
            /\ timer' \in BOOLEAN
            /\ unanswered' = IF t.sent.horizon = horizon THEN unanswered \ {"horizon"} ELSE unanswered
       ELSE Continue(t, shown) /\ UNCHANGED <<timer, unanswered>>
    /\ UNCHANGED <<csrf, selects, server, elsewhere, events>>

\* "ready" loads the predictions again; "loading" sets the timer, up to the 120th time.
Progressed(t) ==
    /\ Served(t, "status")
    /\ \/ tasks' = Sent(Task("poll", t.n, <<"predictions">>, FALSE, NoTeam), tasks \ {t})
          /\ UNCHANGED timer
       \/ timer' \in BOOLEAN /\ tasks' = tasks \ {t}
    /\ UNCHANGED <<csrf, shown, selects, server, ghosts, events>>

\* clearAccountPlans() goes with a newly loaded squad.
SquadLoaded(t) ==
    /\ Served(t, "squad")
    /\ loaded' = [loaded EXCEPT ![t.sent.cookie] = t.team]
    /\ Continue(t, [WithoutPlan EXCEPT !.squad = [team |-> t.team, session |-> t.sent.cookie]])
    /\ elsewhere' = FALSE
    /\ UNCHANGED <<csrf, selects, timer, cookie, live, opened, told, unanswered, events>>

Figure(t) == [team |-> loaded[t.sent.cookie], model |-> t.sent.model, session |-> t.sent.cookie]

LineupShown(t) ==
    /\ \/ Served(t, "lineup") /\ loaded[t.sent.cookie] # NoTeam
       \/ Served(t, "draft") /\ loaded[t.sent.cookie] = t.team
    /\ Continue(t, [shown EXCEPT !.lineup = Figure(t)])
    /\ UNCHANGED <<csrf, selects, timer, server, ghosts, events>>

PlanShown(t) ==
    /\ Served(t, "plan")
    /\ loaded[t.sent.cookie] # NoTeam
    /\ Continue(t, [shown EXCEPT !.plan = Figure(t)])
    /\ UNCHANGED <<csrf, selects, timer, server, ghosts, events>>

(***************************************************************************)
(* The timers, the other tab, the server.                                  *)
(***************************************************************************)
Poll ==
    /\ timer /\ timer' = FALSE
    /\ \E n \in 1..MaxPolls :
          /\ ~\E t \in tasks : t.kind = "poll" /\ t.n = n
          /\ tasks' = tasks \cup {Task("poll", n, Script("poll"), FALSE, NoTeam)}
    /\ UNCHANGED <<csrf, shown, selects, server, ghosts, events>>

Check ==
    /\ csrf # NoSession /\ ~\E t \in tasks : t.kind = "check"
    /\ tasks' = tasks \cup {Task("check", 1, Script("check"), FALSE, NoTeam)}
    /\ UNCHANGED <<csrf, shown, selects, timer, server, ghosts, events>>

\* pageshow from the back/forward cache: cleared, and checked unless a run was going on.
Restore ==
    /\ Event
    /\ Clear
    /\ tasks' = IF Busy THEN Aborted(tasks)
                ELSE Aborted(tasks) \cup
                     {[Task("access", 1, <<"session">>, TRUE, NoTeam) EXCEPT
                        !.sent.csrf = NoSession, !.sent.horizon = HorizonAtFirst, !.sent.model = ModelAtFirst]}
    /\ UNCHANGED server

Told ==
    /\ told /\ told' = FALSE
    /\ Clear /\ tasks' = Aborted(tasks)
    /\ UNCHANGED <<cookie, live, opened, loaded, events>>

OtherSignsIn ==
    /\ Event
    /\ \E s \in Sessions \ opened :
          cookie' = s /\ live' = live \cup {s} /\ opened' = opened \cup {s}
    /\ UNCHANGED <<csrf, shown, selects, tasks, timer, loaded, told, ghosts>>

OtherLoadsSquad(team) ==
    /\ Event /\ cookie \in live
    /\ loaded' = [loaded EXCEPT ![cookie] = team]
    /\ elsewhere' = (elsewhere \/ cookie = csrf)
    /\ UNCHANGED <<csrf, shown, selects, tasks, timer, cookie, live, opened, told, unanswered>>

OtherSignsOut ==
    /\ Event /\ cookie \in live
    /\ live' = live \ {cookie} /\ loaded' = [loaded EXCEPT ![cookie] = NoTeam]
    /\ cookie' = NoSession /\ told' = TRUE
    /\ UNCHANGED <<csrf, shown, selects, tasks, timer, opened, ghosts>>

\* Idle, expired, pushed out by a newer login, or the server started again.
SessionEnds ==
    /\ Event
    /\ \E s \in live : live' = live \ {s} /\ loaded' = [loaded EXCEPT ![s] = NoTeam]
    /\ UNCHANGED <<csrf, shown, selects, tasks, timer, cookie, opened, told, ghosts>>

-----------------------------------------------------------------------------
Answered(t) ==
    \/ Unauthorised(t) \/ Failed(t) \/ CheckedAccess(t) \/ CheckedSession(t)
    \/ LoggedIn(t) \/ LoggedOut(t) \/ Refreshed(t) \/ Predicted(t) \/ Progressed(t)
    \/ SquadLoaded(t) \/ LineupShown(t) \/ PlanShown(t)

PageNext ==
    \/ Login \/ Refresh \/ Draft \/ Plan \/ SignOut
    \/ \E team \in Teams : LoadSquad(team) \/ OtherLoadsSquad(team)
    \/ \E h \in Horizons : ChangeHorizon(h)
    \/ \E m \in Models : ChangeModel(m)
    \/ \E t \in tasks : Answered(t)
    \/ Poll \/ Check \/ Restore \/ Told
    \/ OtherSignsIn \/ OtherSignsOut \/ SessionEnds

PageSpec == PageInit /\ [][PageNext]_pageVars

-----------------------------------------------------------------------------
(* "aborts browser requests and clears personal DOM/state"                 *)
(* (ASSISTANT.md:69): however a sign-out, a 401, the minute's check,       *)
(* another tab's notice or a restored page meets requests under way,       *)
(* nothing private is on a locked page afterwards, and nothing loaded in   *)
(* one session appears in the next.                                        *)
LockedShowsNothing ==
    /\ csrf = NoSession => shown = Blank
    /\ shown.squad # Nothing => shown.squad.session = csrf

(* With no load under way, the predictions are those of the horizon that   *)
(* is selected, whichever of a poll's, a refresh's and the reader's loads  *)
(* came back first; lineup and plan were made with the model selected and  *)
(* for the squad shown.  Excepted are a change whose load failed or was    *)
(* interrupted, one made while a sign-out was under way, a squad that the  *)
(* session has from another tab or from a request never answered, and what *)
(* came by the cookie of another tab's session.                            *)
SelectionShown ==
    /\ shown.predictions # Nothing /\ Loads(tasks) = {} /\ "horizon" \notin unanswered
          => shown.predictions.horizon = horizon
    /\ \A figure \in {shown.lineup, shown.plan} \ {Nothing} :
          /\ "model" \notin unanswered => figure.model = model
          /\ figure.session = csrf /\ ~elsewhere
                => shown.squad # Nothing /\ figure.team = shown.squad.team
=============================================================================
