----------------------------- MODULE LeaguePage -----------------------------
(***************************************************************************)
(* The public league page in the browser: frontend/src/app.js (what is     *)
(* asked for and what is shown) with frontend/src/outlook.js (the forecast *)
(* and the conditions the reader adds to it).                              *)
(*                                                                         *)
(* The page runs one event handler at a time; its requests are answered in *)
(* any order, fail or time out.  A request that is aborted fails in the    *)
(* same task, after the handler that aborted it: what its own handler then *)
(* does, behind the checks of generation, revision and controller, is part *)
(* of the aborting action, and the request leaves the set at once.         *)
(* ForfeitOutlook.cancel's revision is that removal.                       *)
(*                                                                         *)
(* Not here: what the views draw, the address bar, remembered leagues and  *)
(* how many scenarios are asked for.  The service is the set of answers it *)
(* may give; analytics.js beyond the season's first answer is SeasonPage.  *)
(***************************************************************************)
EXTENDS Naturals, FiniteSets

CONSTANTS
    Leagues, Demo, NoLeague,     \* demoMode and leagueId: at most one of them is set
    Managers,                    \* the candidates, whose status is not "safe"
    Pairs, NoPair,               \* two managers to compare; NoPair is the same one twice
    Conditions,                  \* what the explorer lets the reader assume
    NoData, Unreadable,          \* data that is null, or {}: a 200 whose body was cut off
    Links,                       \* what the address of the page may ask for
    MaxEvents, MaxServed         \* bounds: what the reader and the timer do, updates of the service

ASSUME BoundsAssumption == MaxEvents \in Nat /\ MaxServed \in Nat
ASSUME LeaguesAssumption == NoLeague \notin Leagues \cup {Demo} /\ NoPair \notin Pairs
ASSUME LinksAssumption ==
    Links \subseteq [ask : [league : Leagues \cup {Demo, NoLeague}, gameweek : {"now", "past"},
                           rule : {"include", "strict"}], view : {"overview", "analytics"}]

VARIABLES
    ask,             \* leagueId or demoMode, gameweek, tieRule
    view, page,      \* "overview" stands for every view that is not the season's
    hidden,          \* document.hidden
    generation,
    refreshOff,      \* the Refresh button is disabled
    timer,           \* refreshTimer is set
    data,            \* the summary shown
    cards,           \* data.managers: the scenarios found (their source, 0 for none), search
    hydrate,         \* hydrateScenarios of this generation: whom it awaits, who is left
    outlook,         \* outlook.js: baseline, conditions, modified, loading, scenarioLoading
    comparison,      \* the comparison panel, the key of its last request and what it shows
    requests,        \* in flight, not aborted
    refreshFailed,   \* history: the last refresh failed and the previous update stayed
    served,          \* the newest update of the service
    events           \* bounds what the reader and the timer do

pageVars == <<ask, view, page, hidden, refreshOff, timer, generation>>
details == <<cards, hydrate, outlook, comparison>>
vars == <<pageVars, data, details, requests, refreshFailed, served, events>>

Real(d) == d \notin {NoData, Unreadable}
Statuses == {"early", "live", "complete"}     \* early: scenario_search_state is "broad"
NoCard == [found |-> 0, loading |-> FALSE, error |-> "none"]
NotHydrating == [waits |-> {}, left |-> {}]
NoOutlook == [baseline |-> 0, loading |-> FALSE, conditions |-> {},
              modified |-> 0, under |-> {}, adjusting |-> FALSE]

Open == page = "analysis" /\ view = "overview" /\ Real(data)

Init ==
    /\ \E link \in Links : ask = link.ask /\ view = link.view
    /\ page = "booting" /\ hidden = FALSE /\ events = 0
    /\ generation = 0 /\ refreshOff = FALSE /\ timer = FALSE
    /\ data = NoData /\ cards = [m \in Managers |-> NoCard] /\ hydrate = NotHydrating
    /\ outlook = NoOutlook
    /\ comparison = [open |-> FALSE, pair |-> CHOOSE p \in Pairs : TRUE, key |-> <<0, NoPair>>,
                     shown |-> "none", source |-> 0, league |-> NoLeague]
    /\ requests = {} /\ refreshFailed = FALSE /\ served = 1

(***************************************************************************)
(* Requests, and what every rendering does.                                *)
(***************************************************************************)
Request(kind, about, d, g) ==
    [kind |-> kind, gen |-> g, ask |-> ask, background |-> FALSE, about |-> about,
     source |-> IF Real(d) THEN d.source ELSE 0]

Of(rs, kinds) == {r \in rs : r.kind \in kinds}
Asked(m, rs) == \E r \in rs : r.kind = "scenarios" /\ r.about = {m}

\* A comparison that is aborted while it is the panel's own shows the error and forgets its key.
Interrupted ==
    IF Of(requests, {"compare"}) = {} THEN comparison
    ELSE [comparison EXCEPT !.key = <<0, NoPair>>, !.shown = "error"]

CompareKeyOfPair(g, pair) == <<1, pair>>     \* mutant: the generation is left out
CompareKey(g, pair) == <<g, pair>>

\* renderComparison: an open panel asks again when its key is a new one.
Rendered(c, rs, d, g) ==
    IF ~c.open \/ c.key = CompareKey(g, c.pair) THEN [panel |-> c, requests |-> rs]
    ELSE LET rest == rs \ Of(rs, {"compare"}) IN
         IF c.pair = NoPair
         THEN [panel |-> [c EXCEPT !.key = <<0, NoPair>>, !.shown = "choose"], requests |-> rest]
         ELSE [panel |-> [c EXCEPT !.key = CompareKey(g, c.pair), !.shown = "waiting"],
               requests |-> rest \cup {Request("compare", {c.pair}, d, g)}]

Render(c, rs, d, g) ==
    LET next == Rendered(c, rs, d, g) IN comparison' = next.panel /\ requests' = next.requests

\* scheduleRefresh; with unreadable data it throws once the old timer is cleared.
Scheduled(d, v, a, h) ==
    v # "analytics" /\ a.league # Demo /\ Real(d) /\ d.status = "live" /\ ~h

\* The loop of hydrateScenarios up to its next await: a manager whose scenarios are asked for
\* already is joined, not asked again.
HydrateSteps(left, cs, rs, d, g) ==
    LET wanted == {m \in left : cs[m].found = 0}
        Next(m) == [waits |-> {m}, left |-> wanted \ {m}]
    IN IF wanted = {} THEN {[hydrate |-> NotHydrating, cards |-> cs, requests |-> rs]}
       ELSE {IF Asked(m, rs) THEN [hydrate |-> Next(m), cards |-> cs, requests |-> rs]
             ELSE [hydrate |-> Next(m), cards |-> [cs EXCEPT ![m].loading = TRUE, ![m].error = "none"],
                   requests |-> rs \cup {Request("scenarios", {m}, d, g)}] : m \in wanted}

(***************************************************************************)
(* Loading a league.                                                       *)
(***************************************************************************)
LoadSeason(a) ==
    /\ generation' = generation + 1 /\ ask' = [a EXCEPT !.gameweek = "now"] /\ view' = "analytics" /\ page' = "analysis"
    /\ refreshOff' = TRUE /\ timer' = FALSE /\ hydrate' = NotHydrating /\ comparison' = Interrupted
    \* with unreadable data the league's name throws before the season is asked for
    /\ requests' = IF data = Unreadable THEN {}
                   ELSE {[Request("season", {}, data, generation') EXCEPT !.ask = ask']}
    /\ UNCHANGED <<hidden, data, cards, outlook, refreshFailed, served>>

\* loadAnalysis: supersede and abort whatever is under way, then ask for the summary.
LoadSummary(a, v, background) ==
    /\ generation' = generation + 1 /\ ask' = a /\ view' = v /\ timer' = FALSE /\ refreshOff' = TRUE
    /\ page' = IF background THEN page ELSE "loading"
    /\ hydrate' = NotHydrating /\ comparison' = Interrupted
    /\ requests' = {[Request("summary", {}, data, generation') EXCEPT
                        !.ask = a, !.background = background, !.source = served]}
    /\ UNCHANGED <<hidden, data, cards, outlook, refreshFailed, served>>

Load(a, v, background) ==
    IF v = "analytics" /\ a.league # Demo THEN LoadSeason(a) ELSE LoadSummary(a, v, background)

\* The summary is shown, then ForfeitOutlook.start, scheduleRefresh and hydrateScenarios run.
\* Until the forecast with its risks is there, the projection that came with the summary stands
\* in for it, and the explorer can be used.
Started(d) == [NoOutlook EXCEPT !.baseline = d.source, !.loading = d.status # "complete"]

Install(r, d) ==
    LET rest == requests \ ({r} \cup Of(requests, {"outlook", "what-if"}))
        shown == Rendered(comparison, rest, d, generation)
        forecast == IF d.status = "complete" /\ ask.league = Demo THEN {}
                    ELSE {Request("outlook", {}, d, generation)}
    IN /\ data' = d /\ page' = "analysis" /\ outlook' = Started(d)
       /\ timer' = Scheduled(d, view, ask, hidden) /\ refreshOff' = FALSE /\ refreshFailed' = FALSE
       /\ comparison' = shown.panel
       /\ \E step \in HydrateSteps(IF d.status = "live" THEN Managers ELSE {},
                                   [m \in Managers |-> NoCard], shown.requests \cup forecast,
                                   d, generation) :
              hydrate' = step.hydrate /\ cards' = step.cards /\ requests' = step.requests
       /\ UNCHANGED <<ask, view, hidden, generation, served>>

SummaryArrives(r) ==
    /\ r.kind = "summary" /\ r.gen = generation
    /\ \E status \in Statuses, source \in r.source..served :
           Install(r, [league |-> r.ask.league, gameweek |-> r.ask.gameweek, rule |-> r.ask.rule,
                       source |-> source, status |-> status])

ShowsErrorWithoutData(r, d) == d = NoData     \* mutant: not only for a background refresh
ShowsError(r, d) == ~r.background \/ d = NoData

\* An error, a time-out, or a 200 whose body cannot be read: that one is stored as {} first.
SummaryFails(r) ==
    /\ r.kind = "summary" /\ r.gen = generation
    /\ data' \in {data, Unreadable}
    /\ IF ShowsError(r, data')
       THEN page' = "error" /\ UNCHANGED <<refreshFailed, timer>>
       ELSE /\ refreshFailed' = TRUE /\ timer' = Scheduled(data', view, ask, hidden)
            /\ UNCHANGED page
    /\ refreshOff' = FALSE /\ requests' = requests \ {r}
    /\ UNCHANGED <<ask, view, hidden, generation, details, served>>

SeasonEnds(r) ==
    /\ r.kind = "season" /\ r.gen = generation
    /\ refreshOff' = FALSE /\ requests' = requests \ {r}
    /\ UNCHANGED <<ask, view, page, hidden, timer, generation, data, details, refreshFailed, served>>

(***************************************************************************)
(* What the reader asks for.                                               *)
(***************************************************************************)
Boot ==
    /\ page = "booting" /\ UNCHANGED events
    /\ IF ask.league = NoLeague
       THEN page' = "landing" /\ UNCHANGED <<ask, view, hidden, generation, refreshOff, timer, data,
                                             details, requests, refreshFailed, served>>
       ELSE Load(ask, view, FALSE)

Choose(league) == [ask EXCEPT !.league = league, !.gameweek = "now"]

Submit == page = "landing" /\ \E l \in Leagues : Load(Choose(l), "overview", FALSE)

OpenDemo == page # "booting" /\ Load(Choose(Demo), "overview", FALSE)

\* changeLeague aborts the load and its details, not the comparison.
ChangeLeague ==
    /\ \/ page \in {"analysis", "error"}
       \/ page = "loading" /\ ask.league = Demo
    /\ generation' = generation + 1 /\ ask' = Choose(NoLeague) /\ view' = "overview" /\ page' = "landing"
    /\ timer' = FALSE /\ data' = NoData /\ hydrate' = NotHydrating
    /\ requests' = Of(requests, {"compare"})
    /\ UNCHANGED <<hidden, refreshOff, cards, outlook, comparison, refreshFailed, served>>

\* The tie rule is in the header: it can be chosen on every page.
ChooseRule ==
    \E rule \in {"include", "strict"} \ {ask.rule} :
        LET a == [ask EXCEPT !.rule = rule] IN
        /\ page # "booting"
        /\ IF data # NoData THEN Load(a, view, FALSE)
           ELSE ask' = a /\ UNCHANGED <<view, page, hidden, refreshOff, timer, generation, data,
                                        details, requests, refreshFailed, served>>

ChooseGameweek ==
    /\ Open /\ ask.league # Demo
    /\ \E gw \in {"now", "past"} \ {data.gameweek} : Load([ask EXCEPT !.gameweek = gw], "overview", FALSE)

Refresh == page = "analysis" /\ ~refreshOff /\ Load(ask, view, TRUE)

Retry == page = "error" /\ ask.league # NoLeague
         /\ \E gw \in {ask.gameweek, "now"} : Load([ask EXCEPT !.gameweek = gw], view, FALSE)

\* A timer of 90 seconds and more, set after a load began, outlives that load.
TimerFires == timer /\ Of(requests, {"summary"}) = {} /\ Load(ask, view, TRUE)

SwitchView ==
    /\ page = "analysis"
    /\ \/ view = "overview" /\ ask.league # Demo /\ LoadSeason(ask)
       \/ view = "analytics" /\ ask.league # Demo /\ Load(ask, "overview", FALSE)
       \/ /\ ask.league = Demo /\ view' \in {"overview", "analytics"} \ {view}
          /\ timer' = IF view' = "analytics" THEN FALSE ELSE timer
          /\ IF view' = "overview" /\ Real(data) THEN Render(comparison, requests, data, generation)
             ELSE UNCHANGED <<comparison, requests>>
          /\ UNCHANGED <<ask, page, hidden, refreshOff, generation, data, cards, hydrate, outlook,
                         refreshFailed, served>>

SwitchTab ==
    /\ page # "booting" /\ hidden' = ~hidden
    /\ timer' = (~hidden' /\ Scheduled(data, view, ask, hidden'))
    /\ UNCHANGED <<ask, view, page, refreshOff, generation, data, details, requests, refreshFailed, served>>

(***************************************************************************)
(* The scenarios of one manager.                                           *)
(***************************************************************************)
LoadScenarios(m) ==
    /\ ~Asked(m, requests)
    /\ cards' = [cards EXCEPT ![m].loading = TRUE, ![m].error = "none"]
    /\ Render(comparison, requests \cup {Request("scenarios", {m}, data, generation)}, data, generation)
    /\ UNCHANGED <<pageVars, data, hydrate, outlook, refreshFailed, served>>

\* "Show more", "Retry", "Generate", or choosing a manager whose scenarios are missing.
AskScenarios ==
    /\ Open /\ data.status # "complete"
    /\ \E m \in Managers :
          \/ ~cards[m].loading /\ cards[m].error = "expired" /\ Load(ask, view, TRUE)
          \/ ~cards[m].loading /\ cards[m].error # "expired" /\ LoadScenarios(m)
          \/ cards[m].found = 0 /\ data.status # "early" /\ LoadScenarios(m)

\* The card an answer leaves: scenarios of another source than the scores are refused.
FoundCardUnchecked(r, d) == [NoCard EXCEPT !.found = r.source]     \* mutant: any source
FoundCard(r, d) ==
    IF r.source = d.source THEN [NoCard EXCEPT !.found = r.source] ELSE [NoCard EXCEPT !.error = "expired"]

Answers(m, r, d) ==
    {FoundCard(r, d)} \cup {[cards[m] EXCEPT !.loading = FALSE, !.error = e] : e \in {"failed", "expired"}}

ScenariosArrive(r) ==
    /\ r.kind = "scenarios" /\ r.gen = generation
    /\ \E m \in r.about :
          IF Real(data)
          THEN \E card \in Answers(m, r, data) :
                LET cs == [cards EXCEPT ![m] = card]
                    rest == requests \ {r}
                    steps == IF m \in hydrate.waits THEN HydrateSteps(hydrate.left, cs, rest, data, generation)
                             ELSE {[hydrate |-> hydrate, cards |-> cs, requests |-> rest]}
                IN \E step \in steps :
                      /\ hydrate' = step.hydrate /\ cards' = step.cards
                      /\ Render(comparison, step.requests, data, generation)
          ELSE /\ requests' = requests \ {r} /\ hydrate' = NotHydrating
               /\ UNCHANGED <<cards, comparison>>
    /\ UNCHANGED <<pageVars, data, outlook, refreshFailed, served>>

(***************************************************************************)
(* The forecast, the conditions added to it and the comparison.            *)
(***************************************************************************)
\* refresh() of outlook.js
Refreshed(rs) ==
    IF view = "overview" /\ Real(data) THEN Render(comparison, rs, data, generation)
    ELSE requests' = rs /\ UNCHANGED comparison

OfTheScores(r) == Real(data) /\ r.source = data.source

OutlookArrives(r) ==
    /\ r.kind = "outlook" /\ r.gen = generation
    /\ \/ outlook' = [outlook EXCEPT !.loading = FALSE]
       \/ /\ OfTheScores(r) /\ data.status # "complete"
          /\ outlook' = [outlook EXCEPT !.loading = FALSE, !.baseline = r.source]
    /\ Refreshed(requests \ {r})
    /\ UNCHANGED <<pageVars, data, cards, hydrate, refreshFailed, served>>

\* recalculate: forget the last result, abort its request, ask for the new list.
RecalculatingKeeping(conditions) ==     \* mutant: the last result stays until the next
    [outlook EXCEPT !.conditions = conditions, !.adjusting = conditions # {}]
Recalculating(conditions) ==
    [outlook EXCEPT !.conditions = conditions, !.modified = 0, !.under = {}, !.adjusting = conditions # {}]

Recalculate ==
    /\ Open /\ data.status # "complete"
    /\ \E conditions \in SUBSET Conditions \ {outlook.conditions} :
          LET rest == requests \ Of(requests, {"what-if"}) IN
          /\ outlook' = Recalculating(conditions)
          /\ Render(comparison, IF conditions = {} THEN rest
                                ELSE rest \cup {Request("what-if", conditions, data, generation)},
                    data, generation)
    /\ UNCHANGED <<pageVars, data, cards, hydrate, refreshFailed, served>>

WhatIfArrives(r) ==
    /\ r.kind = "what-if" /\ r.gen = generation
    /\ \/ outlook' = [outlook EXCEPT !.adjusting = FALSE]
       \/ /\ OfTheScores(r)
          /\ outlook' = [outlook EXCEPT !.adjusting = FALSE, !.modified = r.source, !.under = r.about]
    /\ Refreshed(requests \ {r})
    /\ UNCHANGED <<pageVars, data, cards, hydrate, refreshFailed, served>>

ChangePanel ==
    /\ Open
    /\ \/ Render([comparison EXCEPT !.open = ~comparison.open], requests, data, generation)
       \/ /\ comparison.open
          /\ \E pair \in (Pairs \cup {NoPair}) \ {comparison.pair} :
                Render([comparison EXCEPT !.pair = pair], requests, data, generation)
    /\ UNCHANGED <<pageVars, data, cards, hydrate, outlook, refreshFailed, served>>

\* No generation is checked here: the controller is.
ComparisonArrives(r) ==
    /\ r.kind = "compare"
    /\ comparison' \in {[comparison EXCEPT !.shown = "result", !.source = r.source, !.league = r.ask.league],
                        [comparison EXCEPT !.shown = "error", !.key = <<0, NoPair>>]}
    /\ requests' = requests \ {r}
    /\ UNCHANGED <<pageVars, data, cards, hydrate, outlook, refreshFailed, served>>

\* External: the service shows a newer update.
Serve == served < MaxServed /\ served' = served + 1
         /\ UNCHANGED <<pageVars, data, details, requests, refreshFailed, events>>

Answer(r) ==
    SummaryArrives(r) \/ SummaryFails(r) \/ SeasonEnds(r) \/ ScenariosArrive(r)
    \/ OutlookArrives(r) \/ WhatIfArrives(r) \/ ComparisonArrives(r)

Reader ==
    Submit \/ OpenDemo \/ ChangeLeague \/ ChooseRule \/ ChooseGameweek \/ Refresh \/ Retry
    \/ SwitchView \/ SwitchTab \/ AskScenarios \/ Recalculate \/ ChangePanel

Event == events < MaxEvents /\ events' = events + 1 /\ (Reader \/ TimerFires)

AnyAnswer == UNCHANGED events /\ \E r \in requests : Answer(r)

Next == Boot \/ AnyAnswer \/ Event \/ Serve

\* Scripts run and every request ends: each has a time-out of 60 or 90 seconds.
Spec == Init /\ [][Next]_vars /\ WF_vars(Boot) /\ WF_vars(AnyAnswer)
(***************************************************************************)
(* Properties.                                                             *)
(***************************************************************************)
\* What is shown is what was asked for, and all of it is of one update: the scores, every
\* manager's scenarios, the forecast and the result of the conditions, whatever the order in
\* which their answers came (app.js:171-186, 251-262; outlook.js:27-36).
OnePicture ==
    Open => /\ data.league = ask.league /\ data.gameweek = ask.gameweek
            /\ {cards[m].found : m \in Managers} \cup {outlook.baseline, outlook.modified}
                  \subseteq {0, data.source}

\* A what-if result stands beside the conditions it was computed for, never beside others
\* (outlook.js:252-274).
ResultOfTheConditions == outlook.modified # 0 => outlook.under = outlook.conditions

\* The comparison shown is of the two managers selected, in the league shown (app.js:501-540).
ComparisonOfTheSelection ==
    Open /\ comparison.open /\ comparison.shown = "result" =>
        comparison.key[2] = comparison.pair /\ comparison.league = data.league

\* Neither kind of answer, of conditions or of a selection, is shown beside another question.
AnswersTheQuestion == ResultOfTheConditions /\ ComparisonOfTheSelection

\* The page comes to rest: it does not stay on the loading screen, and the Refresh button of a
\* page with readable data comes back (app.js:135-205, 660-688).
Busy == page = "loading" \/ (page = "analysis" /\ refreshOff /\ data # Unreadable)
Settles == Busy ~> ~Busy

\* index.html:42 says of the tie rule chosen in Settings: "This rule applies to live analysis
\* and scenarios."  So the analysis shown is of the rule selected.
RuleApplies == Open => data.rule = ask.rule
=============================================================================
