# FPL Scenario Analyser: specifications, model checking and proofs

This directory holds TLA+ models of the FPL Scenario Analyser (`src/src/fpl_forfeit`, `src/ml`,
`src/frontend`), the configurations that check them with TLC, and TLAPS proofs of their central
properties. It is meant to be read beside the code: each definition names, in `PROJECT.json`
(`map`), the lines it stands for.

1. [The system](#the-system): parts, state, interactions, what is hard
2. [The modules](#the-modules): which module models what, and how it corresponds to the code
3. [The runs](#the-runs): what each check shows, its bounds, and why they are enough
4. [Fairness](#fairness)
5. [Disagreements found](#disagreements-found)
6. [The proofs](#the-proofs)
7. [What is not modelled](#what-is-not-modelled), and [the plan](#the-plan)

## The system

One Python process (FastAPI under uvicorn, handlers in a thread pool) answers a static browser
client; it keeps everything in memory except an optional sqlite file and an optional directory of
captures. FPL's public API is the only source of data. A separate scheduled job, the *recorder*,
runs in GitHub Actions and keeps its records as GitHub releases.

| Part | State it keeps | Operations | Talks to | Hard behaviour |
|---|---|---|---|---|
| Expiring cache `cache.py` | dict of values with expiry, in insertion order | `get`, `set`, `delete` | used by nearly everything | expiry at the edge, FIFO eviction, an overwrite keeps its place |
| Analysis service `service.py` | five caches (snapshots, generations, states, analyses, outlooks), three families of striped locks | `analyse_league`, `compare`, `forecast` | API client, enrichment, risk history | coalescing, re-checks under locks, answers pinned to a *generation*, a recursive baseline, eviction |
| Forecast enrichment `forecasting/service.py` | jobs of player histories, one frozen enrichment per generation, 48 slots | `prime`, `prepare` | API client (3 worker threads) | freeze against late jobs, slots, failed jobs, eviction |
| Risk history `history.py` | sqlite table of observations | `append`, `record`, `read` | analysis service | duplicate observations, pruning, contemporaneity |
| API client `api.py` | a one-entry cache of season fixtures, the latest snapshots | `fetch_snapshot`, `forecast_snapshot`, ... | FPL over curl | one snapshot is many requests; retries; refusals |
| Private sessions `assistant/auth.py` | sessions, sign-in attempts per address and overall, two hashing slots | `login`, `get`, `require`, `logout` | private API | sliding windows, bounded tables, eviction, idle and absolute expiry |
| Private API and planner `assistant/web.py`, `assistant/service.py` | one shared forecast, squads, plans, the official snapshot, one lock | routes behind `private_boundary`; refresh, squad, lineup, transfers, logout | sessions, API client, live predictions | a session that ends while a handler runs; refresh against a download in progress; several reads in one request |
| Live predictions `assistant/ml_inference.py` | generation, rows, status, a running flag, history cache | `request`, `build`, `invalidate`, `player`, `components` | planner, archive, API client | a superseded build, failures, one build at a time |
| Capture archive `assistant/prospective.py` | files: captures, indexes, actuals | `record`, `finalize`, scheduler | live predictions | a crash between two files; never overwriting |
| Prospective recorder `ml/recording/` | GitHub releases (drafts, assets, published), local bundles | `run`, `publish`, `finish_draft`, `recover`, `evaluate` | GitHub, FPL | retried calls, crashes, deadlines that move, an operator |
| Season analytics `analytics/` | six caches, at most two background jobs, 32 + 16 locks | `summary`, `detail_status`, `section`, `_enrich` | API client, analysis service | coalesced jobs, budgets, partial results |
| Scores, autosubs, safety `scoring.py`, `substitutions.py`, `safety.py`, `comparison.py` | none (pure) | effective multipliers, score bounds, safe managers, comparisons | analysis, scenarios, forecasts | provisional substitutions while fixtures are unfinished |
| Scenario search `solver.py`, `scenarios.py`, `points.py`, `analysis.py` | none (pure) | bounded search for routes to last place | analysis service | pruning that must not lose routes; statuses that must not overclaim |
| Confirmed lineups `lineups.py` | answers of ten minutes, a count of the day's requests | `enrich` | an optional provider, enrichment | a budget shared by jobs, counted before the request; lists of substitutions that do not add up |
| Squad optimisation `assistant/optimisation.py` | plans kept per session | lineups, transfers, search, chips | planner | scores taken from groups of samples; cached optima |
| Forecast simulation `forecast.py`, `forecasting/`, `intelligence.py` | none (pure, seeded) | conditions accepted or refused, matches drawn, samples scored and counted, horizon forecasts | analysis service, planner | conditions that exclude each other; substitutions of every sample and of every group of matches, from kept multipliers |
| Browser client `frontend/src/*.js` | page state, request generations, timers | load, refresh, poll, sign in | public and private API | answers out of order, aborted requests, polls without end, other tabs |
| ML training `ml/` | files | offline scripts | none | sequential |

Words used throughout: a *generation* is one download of a league (or of the football catalogue),
named by its `fetched_at`; a client quotes it back as `source`. A *stripe* is one of the fixed
number of locks a key is hashed to. A *slot* of the recorder is a Gameweek and a stage, and is one
release tag.

What makes each part correct:

* **Cache**: an expired value is never returned; the bound holds; the oldest insertion goes first.
* **Analysis service**: an answer is computed from the generation it names, and when the client
  named one, from that one; simultaneous refreshes download once; an answer is not older than the
  cache's lifetime allows; a generation a client was given remains available for ten minutes or
  until the table overflows; locks are released; every request ends.
* **Enrichment**: all outlooks of one generation use the same inputs, none of which tells of a match
  that was still open in it; a player's history is asked for once, and few are pending.
* **Sessions**: no address and not everyone together exceeds the sign-in limits in any window, also
  when the bounded table of addresses is full; only recent, recently used, not logged-out sessions
  are accepted; a status poll extends nothing.
* **Private API**: an answer leaves only for a session that is still live then; what a request plans
  with after a refresh was downloaded after it; one answer is made of one forecast.
* **Scores and safety**: substitutions are those of the official rule at every moment; the bounds
  contain every score that can still come; a manager called safe does not finish last, with or
  without ties; what a comparison requires decides the order of the two.
* **Snapshot**: what is reported as final or as confirmed absent stays so; a league that is shown whole
  is the league of one moment.
* **Scenario search**: a route that is shown can happen and puts the manager last; "no modelled path"
  is said only when there is none; the cheapest route comes first.
* **Lineups**: the provider's daily budget is kept; accepted substitutions leave as many
  of a team on the field as started, eleven per entry of the answer, be it of both teams, of one or of none.
* **Optimisation**: grouping the samples changes no decision; a gain that is promised is real.
* **Forecast**: a match drawn under conditions that were accepted fulfils every one of them and is a
  match that can be played; samples, timeline and contest are scored and counted alike.
* **Season analytics**: details stand beside the scores they add up to; one job per question, few in
  all; the tables agree with each other.
* **Risk history**: pruning removes nothing that a reading would serve.
* **Pages**: what is shown is of one update and answers what is selected; a signed-out page is empty;
  loading and polling end.
* **Recorder**: a forecast is published before its deadline (with its lead), is the original
  candidate of its slot, and is never replaced; a run that reports success left no slot missing;
  the evaluation uses no capture that was late for the deadline that counted; one stuck draft does
  not stop other slots.

## The modules

| Module | Models | Lines of code it stands for |
|---|---|---|
| `TTLCache` | the expiring cache: a value is a function from keys to `[value, expires, rank]`, `rank` being the position in the Python dict | `cache.py` |
| `AnalysisService` | the request threads of `AnalysisService` for live leagues, with the caches, locks, downloads, enrichment freeze and recording | `service.py`, parts of `api.py`, `forecasting/service.py`, `history.py` |
| `ForecastEnricher` | the history and lineup jobs behind an enrichment: slots, workers, failures, and the freeze of a generation | `forecasting/service.py`, `player_history` and `parse_appearance_history` of `api.py` |
| `Recording` | scheduled runs, the GitHub store and the operator, and which captures the evaluation uses | `ml/recording/` |
| `SessionStore` | sessions and rate limits | `assistant/auth.py` |
| `PrivateAssistant` | composes `SessionStore` with the private boundary, the planner's shared forecast and its lock, squads, refresh, logout | `assistant/web.py`, `assistant/service.py` |
| `Scoring` | what a state of a Gameweek says of a squad, as functions of both: substitutions, captaincy, scores, score bounds, comparisons | `substitutions.py`, `safety.py`, `scoring.py`, `comparison.py`, parts of `exposures.py`, `models.py` |
| `GameweekScores` | EXTENDS `Scoring`: one Gameweek while matches are played, and a report made at some moment of it | parts of `analysis.py`, `comparison.py`, `models.py` |
| `CaptureArchive` | the directory of captures and its concurrent writers | `assistant/prospective.py` |
| `LivePredictions` | EXTENDS `CaptureArchive`: background builds, refreshes and the polling page, with a build as one of the archive's writers | `assistant/ml_inference.py`, parts of `assistant/service.py` |
| `RiskHistory` | the table of observations: recorded out of order, pruned by one order, read in another | `history.py`, `prediction_record` of `evaluation.py` |
| `LeagueSnapshot` | one snapshot as many requests while FPL goes on, and the state made of it | `api.py`, parts of `analysis.py` |
| `LeagueFeeds` | composes `LeagueSnapshot` and `LineupFeed` | |
| `LineupFeed` | jobs that ask the lineup provider, its budget, and the minutes made of an answer | `lineups.py` |
| `OutcomeCatalog` | what may happen to one player in one match, its points, and what can happen together | `scenarios.py`, `points.py` |
| `RouteSearch` | EXTENDS `OutcomeCatalog`: the search for routes to last place and its verdict | `solver.py`, `ranking.py`, parts of `analysis.py` |
| `FixtureForecast` | one draw of one match: conditions, windows on the pitch, goals | `forecasting/simulation.py`, `forecasting/models.py` |
| `LeagueOutlook` | a league's forecast: samples scored by every manager's substitutions, counted, grouped in time, and the contest at the bottom | `forecast.py`, `intelligence.py` |
| `SquadPlanner` | lineups, transfers, the search, chips and kept plans of one session | `assistant/optimisation.py`, the planning handlers of `assistant/service.py` |
| `SeasonTables` | the tables and contributions of a season, as scores and squads become known | `analytics/calculations.py` |
| `SeasonAnalytics` | summaries, caches and background jobs, with corrections by FPL | `analytics/service.py` |
| `JobBoard` | abstract: what a reader of background jobs is promised; `SeasonAnalytics` implements it | |
| `SeasonPage` | EXTENDS `SeasonAnalytics`: the season view that asks it and polls it | `frontend/src/analytics.js` |
| `LeaguePage` | the public page with its scenarios, comparison, forecast and what-if | `frontend/src/app.js`, `outlook.js` |
| `PrivatePage` | the private page: runs, polls, session checks, other tabs | `frontend/src/assistant.js` |
| `MC*` | constants, symmetry, and what composes modules for TLC | |
| `TTLCacheTheorems` | facts about the cache's operators | |
| `AnalysisServiceProofs`, `PrivateAssistantProofs`, `RecordingProofs`, `LivePredictionsProofs`, `GameweekProofs`, `LeaguePageProofs`, `SeasonPageProofs` | theorems | |

How they compose: `PrivateAssistant` is `SessionStore` with the planner above it, `LivePredictions` the
archive with the builds above it, `SeasonPage` the analytics with its page. `GameweekScores`, `RouteSearch`,
`LeagueOutlook` and `SquadPlanner` all score squads by `Scoring`, the first by extending it, the others by an
instance on their own states (a node of the search, a sample). Some MC modules put parts that do not touch each other beside each other in one run; there a
behaviour is of one part, chosen at first, and the run's question is asked of each: `MCForecasts`
(`AnalysisService`, `ForecastEnricher`), `MCRecording` (`Recording`, `RiskHistory`), `MCPrivateAssistant`
(`PrivateAssistant`, `PrivatePage`), `MCRouteSearch` (`RouteSearch`, and `LeagueFeeds`, which has `LineupFeed` and an instance of `LeagueSnapshot`), `MCLeagueForecast` (`MCRouteSearch`, and `FixtureForecast` and `LeagueOutlook` as instances) and
`MCFigures` (`SquadPlanner`, `SeasonTables`).

**Time** is a bounded counter `now` moved by `Tick`; TTLs and windows are small constants of the same
unit. Comparisons keep the code's strictness (`expires > now`, `at > now - Window`), which is where
the off-by-one hazards are.

**AnalysisService.** `Threads` are handler threads; `pc[c]` names the next lock, read or write of the
handler's code, and `work[c]` its local variables. An action runs up to the next point at which other
threads matter: an acquisition of a lock, a cache read outside a lock, an external call. So
`AnalyseCurrent` and `AnalyseSource` are `analyse_league` up to the first cache test; `AcquireFetch`
takes the stripe and re-tests; `FetchReturns` is the return of `fetch_snapshot` with the first of the two `set` calls, and
`RetainGeneration` the second (two steps on purpose: `service.py:98`); `LookupAnalysis`,
`AcquireAnalysis` and `FinishAnalysis` are the second half; `CompareRead` and `CompareFetchReturns` the
comparison; `Forecast`, `Prepare`, `Baseline`, `AcquireOutlook` and `FinishOutlook` the outlook with
its recursive baseline on the same thread. Each call that can raise under a lock or between two has a failing exit:
`FetchFails` (the download), `AnalysisFails` (a state that cannot be made, a manager who is not in the league),
`PrepareFails` (a history that cannot be read) and `OutlookFails` (a `ScenarioConflict` met while drawing, of the
baseline as well, which refuses the conditional request that asked for it). A *generation* is a number; the
FPL download hands out the next one or raises. Enrichment is a number too: which history jobs
were done when the generation was frozen. Cache operators (`Holds`, `Put`, ...) are `TTLCache`'s.

**ForecastEnricher** opens up that number. A thread's `Call` is an analysis, which only primes, or an
outlook, which primes and freezes. Priming holds one lock (`primer`) from `LockJobs` to `Primed` and
leaves jobs in the executor's queue: `Look` takes a slot if the player has no job, `Submit` gives it to
one. Jobs are run by `Take`, end by `Finish` or `Fail`, and give their slot back in `Release`, a step
later. `Enter` gives out what is frozen or picks up the squad's jobs, `Collect` reads those that are
done after at most two seconds (which jobs are is up to the other actions), and `Freeze` adds the
lineups and stores the result. A history is the set of matches that had begun when it was
downloaded, a generation the set that was over in its snapshot; so what a late history could tell of
the future is in the model. `Expire` lets any entry of the four caches go. A history that is done and cannot be read
(`AnalysisService.PrepareFails`) is left out here: nothing is frozen then and the call ends.

**Recording.** `releases` is what GitHub holds, `bundles` what is on the runner's or operator's disk;
`pc` walks through one `run()` in its textual order: recover drafts, the due slot, capture, publish,
actuals, heartbeat, report. Every GitHub call may fail before or after its effect (a time-out), as
long as the budget `MaxFaults` lasts; `Crash` ends a job anywhere; the actor
`Operator` may run the documented recovery (`Recover`) and remove a draft (`RemoveDraft`). FPL may move a deadline that has not passed
(`MoveDeadline`), which takes from the same budget.

**SessionStore.** `attempts` is the table of addresses (a set of attempts per address; the deque's
order is by time and nothing reads it otherwise), `globalAttempts` the global deque, `login[l]` the
place of a login thread: `charged`, `hashing` (holding a slot), `issue`. `used` and `charged` are
history: what was ever issued or charged, so properties do not depend on what the store remembers.

**PrivateAssistant** EXTENDS `SessionStore` and adds the requests `req`. A request passes
`private_boundary` (`Enter`), runs its handler's steps, and leaves through the second check (`Answer`
or `Refuse`). The forecast is a record with the download it came from; the service lock is held by
the request that downloads. Its specification implies `SessionStore`'s (theorem
`BoundaryRefinesStore`).

**GameweekScores.** The analysis code is pure, so its functions are operators on the state of the
Gameweek: which matches are over (`finished`), who appeared (`seen`: `carded` is a booking without
minutes, which counts as an appearance but not for captaincy), and who has how many `points`. The
environment moves this state: `Play`, `Book`, `Finish`. `Analyse` stores what an analysis says at
that moment (`report`): bounds, scores, remaining exposures, who is conditional; the report keeps
the state it was made from, so that a proof can say it is the `Analysis` of that state. The invariants
compare the last report with the present, so with every future of it. `SubstitutionPlan` chooses
among all legal plans as the code's search does; `ByBenchOrder`, the reference it is compared with,
walks along the bench as the official rule is worded and is no translation of the code. `Unsettled`
names the two situations in which the code's test for a pending lineup is wrong (see
[below](#disagreements-found)); `BoundsHold` is claimed outside them, `EnvelopeHolds` everywhere.

**CaptureArchive** is a module of state and steps without a specification of its own: `captures`,
`indexes` and `actuals` are the files by name, `writing[w]` where a writer is in `record()` (`Check`,
`Link`, `WriteIndex`) and `finalize()` (`Scan`, then `Collect` and `WriteActual` for each Gameweek).
The only way a file comes to be is `Published`, the hard link that fails if the name is taken. A
capture's content is its writer and the time it was made, enough to tell one from another.

**LivePredictions** adds the planner's `snapshot` and newest forecast (`latest`), and `LiveML`:
`Request` is the page's or scheduler's call, `builds` the background threads (a set of them, so that
"one at a time" is a property and not an assumption), `Take`, `Receive` and `HistoryFails` the
history workers in the order of the roster, `Predict`, `Publish`, `Drop`, `BuildFails` and `Finish` the
rest of the thread between its two acquisitions of the lock. `asked`, `since`, `stale` and `refreshes`
are history for one property. The archive's writers are the build thread and one other, which is the
scheduler or the recording command; `Crash` removes everything but the files.

**RiskHistory.** `Record` makes an observation of a generation of the scores that is at most `Cached`
old, `Append` stores it (`INSERT OR IGNORE`, then both deletions), `Unrecorded` is a refusal or a
locked database. `Read` and `Since` are the reading and what its changes are relative to. `saved` is
history: everything ever stored.

**LeagueSnapshot.** Each request of `fetch_snapshot` is an action in the code's order
(`ReadBootstrap`, `ReadStandings` page by page, `ReadPicks` manager by manager, `ReadFixtures`,
`ReadSeason`, `ReadLive`), with the refusals between them. What FPL serves is the rest: matches kick
off and end, players come on and are booked, the Gameweek is processed, the deadline passes, the table
moves. `got` is what the client has; `state_from_snapshot` and the status of the analysis are
operators on it. A match gives a player at most one minute and one booking, so sums of them are counts (`Count`).
`LegalConstants` says what the constants are: a limit a caller sets is at most a page of the standings
(50 and 50 in `service.py:30` and at FPL).

**LineupFeed.** `Enrich`, `Lock`, `LookUp`, `Reserve` or `Refuse`, `Ask`, `Done` are the job's loop under
its lock; the count of the day is written before the request is sent, `Midnight` may come at any
moment, `Expire` ends the ten minutes of an answer. `Accepted` and `Appearances` are
`normalise_lineups`: the entries of an answer, of which there may be none, are checked each for itself (`CompleteLists`:
a team of the match, eleven starters, nobody named twice); that there are two of them, or of two teams, is not asked, so
a lineup of one team, or one of a team listed twice, is accepted. `FieldAfter` plays the changes that count (`Made`) one
after the other. What holds of the field afterwards is said by team (`NamedFor`) and number of entries (`EntriesOf`). A
player who went off and came on in the same minute is left out of the second half of `OnFieldAsListed`: his minutes do
not tell which came first.

**OutcomeCatalog and RouteSearch.** An outcome is its set of tags, its points and its cost. `Consistent`
decides which outcomes of several players fit into one score of their match. A search is
`Prepare` (slots, patterns of appearance, plans with linear scores), then `Visit` per node of the heap,
and `End` with the verdict; `Decline` and `Settled` are the early returns. The budget is a choice: it may
run out at any node (`cut`), or within one completion, `MaxCuts` times. `SearchIsTrue` compares the
verdict with all combinations of outcomes, which the code does not enumerate (`NoPathIsTrue`), and asks
of the routes that they fit a score and come cheapest first.

**FixtureForecast.** `Refuse` and `Accept` are the validation of the conditions (`_add`, `_validate`). The draw goes team
by team: everyone is decided in turn (one action per case of `_windows` and `_live_window`), then `LineUp`
takes the eleven, `ComeOn` and `StayOff` the bench, `Resolve` joins goals and assists by augmenting paths
(`_return_pairs`), `Score` and `Goal` draw what is left, `Whistle` goes to the other team. What the code takes from its
random generator is chosen freely among the outcomes it can take; probabilities are left out, and with them
bonus points, saves and cards. A team or scorer for whom no outcome is left ends in `conflict`, as the
code's `ConditionConflict` does.

**LeagueOutlook.** `Draw` is one round of the loop of `outlook`: a joint sample is scored for every manager with
the multipliers kept under who appeared and who played (`Resolved`), counted for last places, and scored
again after every group of matches (`Checkpoint`). A sample is one of a given set. What `LiveIntelligence`
reports is defined on the state: `Contenders`, `Decisive`, `Dangerous`. Means are sums, since all managers have as many
samples; shares and errors are compared by multiplying out.

**SquadPlanner.** Handlers are actions (`Lineup`, `Transfers`, `Search`, `Chips`, `Plan`, `Forget`,
`Refresh`); a forecast is a list of joint samples per Gameweek. `PlansAreReal` holds the grouped
score of the code against scoring each sample with `Scoring`, and what a plan promises against that.

**SeasonTables.** Two variables hold what is known: `rows`, the scores published of a manager's Gameweek, and
`details`, what `scoring_detail` makes of the final squad behind one. `PublishScore` and `Verify` add to them in any order; each
column of the tables is an operator on them that reads what the code reads, and sums are `Sum` over the domain of
a function. `LegalSelection` is what FPL publishes of a final squad: one captain at most, and who does not count
and yet has points is on the bench, without Bench Boost.

**SeasonAnalytics and SeasonPage.** `threads` are the requests the service is serving, by lock and read
as in `AnalysisService`; `workers` are the background jobs, whose items are fetched and verified in any
order. The page's actions (`Open`, `Choose`, `Recheck`, `Leave`, `PageForgets`) make requests of the same
`threads`, and a stranger makes others. An item is a manager's Gameweek; what FPL corrects gets a new
version, and everything downloaded carries the version it had.

**LeaguePage** and **PrivatePage**. A page runs one handler at a time, so an action is a handler from one
`await` to the next. `requests` (or `tasks`) are the answers awaited, and any may come next, fail, or
time out. An aborted request fails in the same task, so its removal is part of the action that aborts
it. `shown`, `cards`, `outlook` and `comparison` are what the reader sees. The explorer works from the moment a summary is
shown, with the projection that came with it (`Started`): a what-if (`Recalculate`) can be asked while the risk outlook is
still under way, and after it failed.

Mutants: a few definitions in each module are marked `Mutant` and are used by nothing. Each states a
plausible slip in the definition that follows it; the property named in `PROJECT.json` fails when it
takes the definition's place, so no property holds for want of anything to break.

## The runs

| Run | Properties | Question |
|---|---|---|
| `service` | `FetchesCoalesced`, `AnswersFromNamedSource`, `RefreshIsFresh`, `SourceRetained`, `EnrichmentSound` | Two threads, two leagues, all requests, every download able to fail; and the enrichment: one per generation, of bounded work, without hindsight |
| `service_live` | `EveryRequestAnswered` | Does every request end, also the recursive baseline when both locks collide, and whatever raises under a lock? |
| `recording` | `PublishedInTime`, `OriginalCandidate`, `HonestSuccess`, `EvaluatedFairly`, `NewestServed` | One Gameweek, three runs, one failure, crash or moved deadline anywhere, an operator; and the risk history of two leagues |
| `session_store` | `AttemptLimits`, `AcceptedSessions` | Sign-ins from more addresses than fit, sessions in every stage |
| `private_assistant` | `RevokedGetsNothing`, `FreshAfterRefresh`, `LockedShowsNothing`, `SelectionShown` | On the server: two concurrent requests of a session that may end, refreshes, failures. In the browser: a reader, another tab, a session that ends, answers in any order |
| `gameweek` | `SubstitutesByBenchOrder`, `BoundsHold`, `VerdictsHold` (`SafeNeverLast` and `ComparisonDecides`) | Does what an analysis says of the final scores come true, in whatever order matches end and players appear? |
| `unsafe_bounds` | `EnvelopeHolds` (violated) | Do the bounds contain every later score, also with all starters settled? |
| `live_predictions` | `OneBuild`, `NeverMixed`, `IndexesMatch`, `NeverOverwritten`, `Settles` | Two generations, builds that fail or are superseded, concurrent writers of the archive, a crash |
| `browser` | `OnePicture`, `AnswersTheQuestion`, `Settles` | The public page: is everything shown of one update and of what is selected, and does loading end? |
| `season` | `DetailsReconcile`, `ShownIsSelected`, `Coalesced`, `PollEnds` | A reader and a stranger while results are corrected, caches expire, downloads fail and workers crash |
| `routes` | `SearchIsTrue`, `SnapshotTrue`, `BudgetKept`, `OnFieldAsListed`, `ForecastHonest`, `OutlookAgrees` | What a search and a forecast are given - snapshot and lineups - and whether what they say is so |
| `figures` | `PlansAreReal`, `TablesAgree` | Do the shortcuts of the planner and the tables of a season give the figures they stand for? |

Bounds, and why they are enough:

* `service`: two threads and two leagues, with all stripes equal (`OneStripe`), the worst case of
  hashing; caches of one or two entries so that eviction and expiry happen next to each other;
  three generations, so that a cached, a retained and a newer one exist together; three calls and
  one tick. A defect of coalescing or pinning needs two threads, two generations and one expiry. The
  leagues and threads are symmetric and declared so; the liveness run has no symmetry. The enrichment:
  two threads, two leagues that share a player, one match that begins before the first snapshot or
  not at all, two generations, two jobs, two slots, one worker and three calls or expiries. Hindsight needs
  a job, a generation before the final whistle and one after it; two enrichments of one generation
  need two threads and a job that ends between them; a doubled job needs two primers.
* `recording`: one Gameweek, two forecast stages and the actuals, three runs, one fault: a first run
  that fails, a second that continues, a third that sees what the second left. The risk history: two
  leagues of which one has two series, five observations, `Keep` 4, `Overall` 5, `Serve` 2, `Delay` and
  `Cached` 1: both deletions and the limit of a reading bite, in every order of making and storing. That
  `Keep >= Serve + Delay + Cached` is an assumption which TLC evaluates; the code's numbers satisfy it
  (1,000 against 240 and what ten minutes bring).
* `session_store`: five addresses, a table of four, a global limit of three, one attempt per address
  and a window of two: the table can be filled by live attempts only if the limits allow it. The
  addresses are symmetric. Two tokens and room for one session make every new login an eviction.
* `live_predictions`: two downloads, so that one generation supersedes another; two players and one
  worker, so that one history is under way while another waits and an outage cuts the rest short; two
  Gameweeks, one of which can close and be final before the second build, and two hours that fall
  into one bucket. One event (`MaxEvents`) among refresh, scheduler, command and crash: each races
  with builds and downloads at every point, two of them do not meet. With two events the safety properties
  were checked once, too (3.8 million states).
* `private_assistant`: two requests, because every property relates one request to at most one other
  action; two downloads; a forecast's lifetime of two and deadlines at 2 and 9 (one in reach, one
  not). The page: two sessions, two squads, two horizons and two models, so that each can be confused
  with the other; four events of the reader and others, one poll at a time.
* `browser`: one league and the demo (the other league is the demo: what is confused is the same), two
  managers, one pair to compare, one condition, three events, two updates of the scores.
* `season`: one league whose single item is corrected, forgotten and failed; two threads, one for the
  page and one for a stranger; two sections; two events. One job: the second of the code's two only
  serves another league. `SeasonPageProofs` has any number of each.
* `routes`: nine Gameweeks of two managers, each chosen for a case of the search: stoppage time, two
  players of one match, a captain who may not play, a double Gameweek, a booking without minutes, too
  many who may come on, nobody owned in the open match. Breadths of 2 and 3 and four lineups make every cap
  bite; the unlimited case is the comparison with all combinations. The snapshot: three managers, pages
  of two (FPL: 50), two Gameweeks, caps of 1, 2 and none, two moves of the table. Matches are played while a
  league of one is read, the table moves while they stand still: what each touches the other does not
  read. The lineups: two jobs, two mapped matches and one unmapped, a budget of two, two days, six
  answers, with teams of two that start: both teams, one, none, one of them twice with substitutes of its other
  entry, a substitution nobody can make, and one of another match. The draw: a match of four minutes
  between sides of three, six known players, one substitution; some forty sets of conditions on it before the match, with announced lineups, at half time
  with a player sent off, with one minute to go, and with both feeds, agreeing or not: each refusal
  and each case of a window occurs. The outlook: three managers, three matches of which two overlap, three
  samples of four, with absences, bookings without minutes, ties, a triple captain; caps of one draw of the
  timeline and of two clean sheets, so that each of the code's cuts is made.
* `figures`: the squad of `gameweek`, six candidates for captaincy, three legal benches with two
  keepers, one player out and two in, samples with absent captains, keepers and defenders; a second
  forecast with an unknown Gameweek. A league of four over two weeks with squads of three, in every
  order of what becomes known, ties, chips, a vice-captain and squads that do not add up included.

* `gameweek`: the squad of fifteen of the repository's tests, so that formations are the real ones;
  two managers, one with the triple captain and a hit or with the bench boost. Three players whose
  matches end separately: a captain or vice-captain, a starter, and the first outfield substitute;
  or, with a defender and the goalkeeper already absent, a starter and that substitute. Each absence,
  handover and substitution of the code occurs, in every order, before and after a report. The
  envelope -10..35 is scaled to -1..2: the bounds are linear in it.

`MaxGen`, `MaxTime`, `MaxCalls`, `MaxFaults`, `MaxAttempts`, `MaxDownloads`, `MaxEvents`, `MaxServed`, `MaxPolls`,
`MaxGens`, `MaxJobs`, `MaxMoves`, `MaxCuts`, `MaxDays`, `MaxRecords` and `MaxDetails` only bound the exploration; they occur in guards
and nowhere else. Deadlock checking is off where the bounds end
every behaviour.

## Fairness

`service_live`, `live_predictions`, `browser` and `season` check liveness. `AnalysisService`'s `FairSpec` asks weak fairness of each thread's next step:
Python's scheduler runs every runnable thread, a lock that is free is granted to some waiter, and an
FPL call returns or fails (curl runs with a time limit). The number of requests is finite, so weak
fairness of a waiting thread is enough: a lock cannot be taken for ever by others. Nothing is
assumed about time passing or FPL answering.

`LivePredictions`' `FairSpec` asks it of each background thread (runnable until its work ends; calls and
disk writes return or raise), and of `Request` while the status is "loading": the page polls every
2.5 seconds then, up to 120 times (`assistant.js:106-112`), and the scheduler asks every half hour for
as long as the process lives. A refresh, a download or a crash is never assumed to happen.

`LeaguePage`'s `Spec` asks weak fairness of the page's start and of some answer: every request of the
page has a time-out of 60 or 90 seconds that aborts it, and the browser runs the handlers of what has
ended. Nothing is assumed about the reader, the timer of the refresh or the service. `SeasonPage`'s
asks it of each thread's service and answer, of the workers' steps and of the poll that is due: threads
of the pool run, downloads have time-outs, a job has a budget after which its items give up, and a
browser's timer fires. `Recheck`, `Forget` and corrections are never assumed to happen.

## Disagreements found

Checked by a run that TLC must find violated:

* **Bounds that a settled lineup leaves** (`unsafe_bounds`). Points already scored are included in the
  bounds "when they may move", which the code tests on the starters alone. With an absent starter's
  match over and a later bench player already in for him, an earlier bench player whose match is still
  to come can take the place; the substitute's points are lost and the score falls below the lower
  bound, so "safe" may be said of a manager who finishes last. The same happens with a vice-captain
  who was booked without minutes and may still get some.

Stated in the modules, shown violated by TLC when asked, and in no run: the definition can be put
in place of the properties of the configuration named.

* **A frozen enrichment can thaw** (`AnalysisService`, `EnrichmentFrozen`, `AnalysisService.cfg`).
  `forecasting/service.py` says that it freezes enriched inputs per public source generation; the frozen
  inputs are kept in a FIFO of their own, filled in the order outlooks are asked for. Others can push
  an entry out while the generation and its baseline outlook are still cached; a what-if then compares
  a baseline of one enrichment with conditions on another.
* **An incomplete draft blocks later actuals** (`Recording`, `DraftsNeverBlock`, `Recording.cfg` with
  `Gameweeks = {1, 2}` and `MaxTime = 7`). `run.py`
  promises the contrary in the comment at line 233; but the loop over actuals stops, with its first
  `StorageError`, at a Gameweek whose draft is incomplete, in every later run.
* **Two forecasts in one lineup answer** (`PrivateAssistant`, `SharedOutcomes`). The answer says both
  lineups were scored on the same shared outcomes; they are read from the cache separately, and a
  refresh, an expiry or a deadline can come between.
* **A refresh that old histories survive** (`LivePredictions`, `RefreshInvalidates`). `LIVE_INFERENCE.md`
  says that an explicit refresh invalidates the cached histories. It empties the cache; a download that
  a running build began before it is stored into the new cache when it ends, and serves builds started
  after the refresh.
* **A rule that is not yet applied** (`LeaguePage`, `RuleApplies`). `index.html:42` says that the tie rule
  chosen applies to the analysis. When the request for it fails in the background, the old analysis
  stays beside the new choice; and a rule chosen while the first load is under way is not asked for, so
  that the answer for the old one is shown beside it.
* **Details that do not follow** (`SeasonPage`, `DetailsFollow`). The page counts verified squads and then
  draws the section; an un-enriched answer that was under way is cached for 90 seconds and drawn again
  (`analytics.js:99`).

Noted while modelling and built into the models, harmless or a matter of taste:

* A finished analytics job may be started again (`service.py:228-236`); a partial result counts as "ready"
  and bars a new job for five minutes; after a correction, picks cached for 24 hours disagree with the
  scores and the item stays unverified; two rechecks start two chains of polls (the model has one).
* A history job that ends between the test of line 76 and the count of line 89 of `forecasting/service.py`
  is neither used nor pending, so the counts reported do not add up. A failed job stays in the cache
  of jobs, so its player is not asked for again for six hours; and a job may be given the client's own
  copy of six hours, so that a history is up to twelve hours old.
* On the league page a 200 whose body is cut off is stored as empty data before it fails
  (`app.js:174-179`); a comparison opened during a background refresh asks about the old update and is
  not asked again; after a failed background refresh the scenario cards keep their loading state.
* On the private page a horizon or model chosen while a sign-out is under way is refused and stays
  unanswered if the sign-out fails (`assistant.js:66-75`; `unanswered` marks it); coming back to the page
  while it is busy checks nothing, against `ASSISTANT.md:70`; another tab's squad replaces this one's, so
  that lineups of it may appear here (`elsewhere`); a failed poll ends polling.
* The lineup budget is counted before the request, so a request that straddles midnight is one above the
  budget of the new day (`BudgetKept` allows one); matches that failed are asked again by every enrichment;
  a substitute taken off may be brought on again, which the code accepts and the model does not offer.
* Conditions that were accepted can be refused while matches are drawn (`Excused` of `FixtureForecast`): a player named
  for a return who is on the bench gets minutes by chance, and may have none in common with the scorer he has to
  assist under a fixed score; one without minutes in a match under way, or not in the squad, may not come
  on; a match may have no time left; everyone who may score may be excluded. Selected minutes are not exact when the two
  feeds disagree on when a player came on (`FeedsAgree`).
* `transfers()` and `chips()` read the forecast once, `optimal()` inside them again. `README.md:127` says that
  official points are always retained; `_official_deltas` moves them while they are provisional. The
  comment at `scenarios.py:51-53` does not hold of the outcomes "return but loses the clean sheet".

## The proofs

TLC's runs are small; the following hold for all values of the constants that satisfy the named
assumptions (positive bounds and TTLs, a `None` outside the values, and so on; each is stated at
the constants it restricts).

* `TTLCacheTheorems`: what `Put`, `Keep` and look-up return and preserve: keys, types, expiry, size, and
  the order of insertion (an overwritten key keeps its place, a new one is last, eviction takes the first).
* `AnalysisServiceProofs`, in three parts.
  `SourceInvariant`: the inductive invariant `SourceInv` = type correctness,
  *cached under its key* (whatever a cache holds under a key naming a generation was computed from
  that generation) and *thread invariant* (a thread between a read and its answer carries values of
  the generation it will name). The last two are needed because the property speaks of answers only,
  and an answer is made several steps after the read. From it: `TypeCorrect`, `NamedSource`
  (`AnswersFromNamedSource`) and `FreshRefresh` (`RefreshIsFresh`). On it rest `LocksWithWorkers`
  (`LocksHeldByWorkers`: a stripe is held exactly by the thread inside its section, which every failing exit leaves too), from which
  `CoalescedFetches` (`FetchesCoalesced`), and `SourcesRetained` (`SourceRetained`). The last has its own
  inductive invariant `RetainInv`: generations are retained once each, an entry that is there has
  the deadline it was given, entries stand in the order in which they were retained, and one that is
  neither expired nor followed by `GenCap` others is there. The order is what makes the eviction of the
  *first* entry the eviction of the *oldest*.
  `EnrichmentIsSound` (`EnrichmentSound`) from `EnricherInv`. Its `PoolInv` counts: free slots, slots held by
  jobs and the slot between `Look` and `Submit` add up to all slots, and whoever is there holds the lock, so a player
  looked up has no job until he is given one. Its `FrozenInv` says that one thread at a time freezes a generation
  and that the histories it holds are of matches that were over in it.
* `PrivateAssistantProofs`, in three parts.
  `AuthInvariant`. The inductive part is that the queues lose no attempt that
  still counts: the addresses with counting attempts are at most as many as the global queue allows,
  fewer than the table holds, so the eviction at `auth.py:143` only ever meets addresses that may go.
  It needs `MaxAddresses > GlobalLimit` (256 > 20 in the code). From it `AddressesLimited`,
  `EveryoneLimited`, together `AttemptsLimited` (`AttemptLimits`), `SessionsAccepted`, `AuthTypeCorrect`.
  `BoundaryRefinesStore` (each step of the composition is a step of
  `SessionStore` or leaves it unchanged), so the store's theorems carry over; `AppInvariant` on top
  (requests carry a token that was issued; forecasts a request holds come from downloads that began
  after the refresh it counts from; the lock's holder is at a read), and from it `AppTypeCorrect`,
  `NothingAfterRevocation` (`RevokedGetsNothing`) and `FreshPlans` (`FreshAfterRefresh`).
  `PageInvariant` of the page in the browser: every request under way was sent with the page's token and selection, or what it
  answers is marked; one of each kind is the latest; a page without a session waits for one answer at
  most. From it `NothingPrivateLeft` (`LockedShowsNothing`) and `SelectionIsShown` (`SelectionShown`).
* `RecordingProofs`, in two parts. `RecordingInvariant`: `IInv` says what every actor holds at every
  position of its run. Only the runner creates a draft, and only for a tag that has none; the
  operator works on candidates of runs that have ended; so the copy of a release an actor works from
  agrees with GitHub on every asset it saw complete, and what is patched to "published" is what was
  checked. It also follows what a run found or wanted until that is published or an error is reported.
  From it `ForecastsPublishedInTime` (`PublishedInTime`), `CandidatesNotExchanged` (`OriginalCandidate`),
  `SuccessIsHonest` (`HonestSuccess`), `EvaluationIsFair` (`EvaluatedFairly`) and `TypeCorrect`.
  `NewestAreServed` (`NewestServed`): the table is pruned by the time of recording and read by the time of the
  scores. What was deleted had `Keep` newer recordings in its group, all of which are stored; at most `Cached`
  of the `Keep` newest have scores newer than the reading asks for and at most `Delay` have scores older than what
  was deleted; the `Serve` that remain fill the reading. It is a counting argument on cardinalities.
* `LivePredictionsProofs`: `Invariant`, the inductive invariant `Inv` of the archive and the predictions.
  Its archive part says that a writer about to write an index holds the very capture that was
  published under the index's name; without it, `IndexesMatch` is not inductive, since the index is
  written a step after the capture. Its other part says that while a build may still publish for the
  generation shown, nothing is shown and the status is "loading", and that the flag stands for the one
  thread there is; `NeverMixed` needs it when that build fails or publishes. From it `TypeCorrect`,
  `SingleBuild` (`OneBuild`), `GenerationsApart` (`NeverMixed`), `IndexOfCapture` (`IndexesMatch`).
  `ArchiveOnlyGrows` (`NeverOverwritten`) follows from the steps alone.
* `LeaguePageProofs`: `PageInvariant`. The page checks each answer against what it shows at that
  moment, so the invariant is about the state between the checks: what the generation says of a request
  in flight (`RequestsInv`), which question a comparison under way or shown belongs to (`PanelInv`), and for which screens the
  summary held is the one asked for (`SummaryInv`), the season's screen included, from which the demo
  comes back without asking. From it `OneUpdateShown` (`OnePicture`) and `NoAnswerToAnotherQuestion`
  (`AnswersTheQuestion`).
* `SeasonPageProofs`: `SeasonInvariant`, the conjunction of `VersionsInv` (every entry that is kept,
  answered or being verified has, item by item, no detail or that of its key; a thread that has not read
  its summary holds none) and `BoardInv` (keys of jobs and workers correspond, one worker each, and
  `done` counts the worker's items). The first is stronger than `DetailsReconcile` in that it holds of
  the workers' squads as well, from which the kept entries are made. From it `DetailsAlwaysReconcile`
  and `JobsServed`; and `BoardRefined`: each step of the service, the page and the reader is a step of
  `JobBoard` or leaves the board unchanged. The second part is needed there, since the abstract board
  knows no worker and only the worker's items show that a step advances below the total.
  `DrawnIsSelected` (`ShownIsSelected`) from `DrawnInv`: an answer that will be drawn is of the section
  selected, and an idle thread owes none.
  *Statistics*: `TablesInvariant` (`TablesInv`: each row is one a score list may name, each detail is made of a complete squad
  that adds up and belongs to a row), and from it `TablesAlwaysAgree` (`TablesAgree`). A sum takes its elements in an
  order `CHOOSE` picks. That the order is immaterial is a well-founded induction on the subsets of a finite set, in the
  form of a least counterexample (`Subsets`), which needs no operator as a parameter; then what is related by pairs adds up
  to the same by either side (`AddedAcross`, `CountedAcross`): points by squad and by player, owners by
  squad and by player, benches by manager and in all. For the places, the scores not above the value at place *i* are at
  least *i* and those below it fewer, which decides who is last, in the bottom three, and the margin.
* `GameweekProofs`, in four parts. *Substitutions*: `SubstitutesFollowTheRule` (`SubstitutesByBenchOrder`). The code searches
  all sets of bench slots for the largest, then earliest; the official rule goes slot by slot. `PlanCounts` shows that only
  how many each line can give up matters, so that sets of slots that can come are closed under subsets
  (`Downward`) and a smaller one can take a slot of a larger one (`Exchange`): a matroid, in which the greedy choice
  is the best (`GreedyIsBest`).
  *Reports*: `GameweekInvariant` (`HistoryInv`). A report is compared with what happens later, so the invariant keeps
  the moment it was made of: the report says what the code says of that moment, and no finished match reopened,
  no player who had appeared is unseen again, points moved only in matches that were not over and within the envelope.
  Without it, nothing relates a report to the state at the end. From it `BoundsAlwaysHold` (`BoundsHold`) and
  `VerdictsComeTrue` (`VerdictsHold`); a total over fifteen picks is written out (`TotalIs`) and compared pick by pick.
  *Lineups*: `BudgetNeverExceeded` (`BudgetKept`) from `BudgetInv`: what the provider has seen today
  and what is counted but not yet asked is at most today's count and one. `LineupsAddUp` (`OnFieldAsListed`) from `KeptInv`:
  `FieldIs` shows that the recursive function of `FieldAfter` exists, `CountedByEntry` counts the starters of a team
  entry by entry, `AsListedKept` that a change of the field keeps the number of each team, and `FieldHistory` that who
  is on the field after each change is who the minutes say.
  *Snapshots*: `SnapshotInvariant` (`SnapshotInv`) says of each request what it has read that still holds while FPL goes
  on: the Gameweek called official was processed (`OfficialInv`), a limited league is on its first page or was read from
  one table (`LeagueInv`), matches read as over are over (`FixturesInv`, `SeasonInv`), so that scores read after them do
  not change (`LiveInv`); the order of the last two requests is what the proof rests on. From it `SnapshotsAreTrue`
  (`SnapshotTrue`). That a confirmed zero is true (`ZerosAreTrue`) is a count: the rows left out have neither minute nor
  booking when the totals agree.

The assumptions worth knowing, all evaluated by TLC: `MaxAddresses > GlobalLimit`; `SnapTTL <= GenTTL`
(`service.py` takes the larger); `MinLead > 1`; `Keep >= Serve + Delay + Cached` (`RetentionAssumption`; `history.py` keeps 1,000 and serves
240); a budget of the lineup provider that is positive; squads with two goalkeepers, five defenders, five midfielders and
three forwards, a legal eleven among them and an armband within (`PickAssumption`); an answer's changes ordered by
minute, and its entries a sequence of finite lists (`AnswerAssumption`; `normalise_lineups` sorts the changes); a caller's limit of at most a page (`SnapshotAssumption`); final
squads as FPL publishes them (`SeasonAssumption`). One assumption
is a guard and not an `ASSUME`: in `Recording` FPL declares a Gameweek final only after every deadline it ever
announced for it.

Only model-checked, and why:

* *Liveness* (`EveryRequestAnswered`, `Settles` twice, `PollEnds`): out of the prover's reach.
* *Recursion over data*: `SearchIsTrue`, `PlansAreReal`, `ForecastHonest` and `OutlookAgrees` speak of searches, orders and folds
  over sequences whose value for every input needs an induction on an operator of the model, which the
  library's theorems do not offer the provers. `RouteSearch` and `FixtureForecast` declare recursive operators, too.

The disagreement of `unsafe_bounds` is a counterexample and needs no proof.

## What is not modelled

* **Numbers**: probabilities, projections, horizon statistics, ridge regression, features. Where the services and
  the planner use a forecast it is an opaque value that is equal when its inputs are, or a set of samples;
  how a sample comes to be is `FixtureForecast`, how samples become risks `LeagueOutlook`, and the two meet
  in no run: the outlook's samples are given.
* **FPL, GitHub, sqlite, the lineup provider, the file system, password hashing** are external: modelled
  as the outcomes the code distinguishes.
* **Demo mode, command line, wording, validation of parameters, drawing**: no state that outlives a call
  (the demo is a league that always answers in `LeaguePage`).
* **Training and offline evaluation**: sequential scripts.
* Within modelled parts: season statistics and minutes in the costs of outcomes; which slots the search
  fills when there are too many (chosen freely, where the code ranks by exposure); ties of cost
  (arbitrary); names, goal rates and the revalidation of confirmed appearances in a snapshot; statistics
  (medians, percentages) of the season's tables; planning with the component model; the monthly
  heartbeat's commit; a manager chosen in the season's views, and the pair of the head-to-head
  (`SeasonPage.Choose` asks for a section, again with "Try again", and its answers are kept by section); a worker thread
  of the analytics that cannot be started (`analytics/service.py:256`), whose job would stay on the board with nobody
  to do it; a forecast exchanged within a request of the planner (`SquadPlanner.Refresh` comes between requests; that
  it is read more than once is `SharedOutcomes` of `PrivateAssistant`).

## The plan

Done: the modules above, and for every safety property a run checks a theorem, except those listed under
"only model-checked". Left:

1. An abstract register of generations that `AnalysisService` implements, and one of slots for `Recording`.
