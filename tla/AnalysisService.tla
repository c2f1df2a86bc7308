--------------------------- MODULE AnalysisService ---------------------------
(***************************************************************************)
(* The public service behind /api/league, /api/compare and /api/forecast:  *)
(* request threads that share one process's caches and striped locks.      *)
(*                                                                         *)
(* A league here is a (league_id, gameweek) pair.  A generation is one     *)
(* fetched snapshot, named by its fetched_at; generations are numbered in  *)
(* the order they were fetched and 0 means none.  What the analysis, the   *)
(* simulation and the comparison compute is a function of the state they   *)
(* are given, so a result is represented by the generation (and, for an    *)
(* outlook, the enrichment) it was computed from.                          *)
(*                                                                         *)
(* A thread's calls on one cache are single steps, because the cache holds *)
(* its own lock; a generation lock of the enricher makes prepare() one     *)
(* step of the generation it prepares.                                     *)
(***************************************************************************)
EXTENDS TTLCache, Sequences

CONSTANTS
    Clients,         \* request threads
    Leagues,         \* (league_id, gameweek) pairs
    Variants,        \* (settings, include_scenarios, candidate_id) combinations
    Conditions,      \* canonical, non-empty condition tuples
    NoCondition,     \* the empty condition tuple
    NoLeague,        \* an idle thread's league
    NoClient,        \* holder of a free lock
    FetchStripes, AnalysisStripes, OutlookStripes,
    FetchStripe, AnalysisStripe, OutlookStripe,            \* hash(key) % len(locks)
    SnapTTL, GenTTL,                                       \* seconds, in units of a Tick
    SnapCap, GenCap, AnalysisCap, EnrichCap, OutlookCap,   \* max_items of the caches
    MaxGen, MaxTime, MaxCalls                              \* bounds of the model

ASSUME BoundAssumption ==
    /\ {SnapTTL, GenTTL, SnapCap, GenCap, AnalysisCap, EnrichCap, OutlookCap}
           \subseteq Nat \ {0}
    /\ {MaxGen, MaxTime, MaxCalls} \subseteq Nat
ASSUME TTLAssumption == SnapTTL <= GenTTL      \* max(ttl, SCENARIO_SOURCE_TTL_SECONDS)
ASSUME NoneAssumption ==
    NoClient \notin Clients /\ NoCondition \notin Conditions /\ NoLeague \notin Leagues
ASSUME StripeAssumption ==
    /\ FetchStripe \in [Leagues -> FetchStripes]
    /\ AnalysisStripe \in [(0..MaxGen) \X Variants -> AnalysisStripes]
    /\ OutlookStripe \in [(0..MaxGen) \X (Conditions \cup {NoCondition}) -> OutlookStripes]

VARIABLES
    now,           \* monotonic()
    born,          \* [league, at] of each snapshot fetched so far, by generation
    retained,      \* [gen, at] in the order _generations received them
    told,          \* generations some response has named
    snapshots, generations, analyses, outlooks,   \* the service's caches
    enriched,      \* ForecastEnricher.generations
    primed, ready, \* leagues whose history jobs are submitted, and those done
    history,       \* generation -> enrichment of the outlook recorded for it
    fetchLock, analysisLock, outlookLock,         \* stripe -> holder
    pc, work,      \* each thread's position and its local variables
    reply,         \* the response the last step gave, if it gave one
    calls          \* requests sent so far

caches   == <<snapshots, generations, analyses, outlooks, enriched>>
locks    == <<fetchLock, analysisLock, outlookLock>>
upstream == <<now, born, primed, ready>>
seen     == <<retained, told>>
vars == <<upstream, seen, caches, history, locks, pc, work, reply, calls>>

-----------------------------------------------------------------------------
Gens    == 1..Len(born)
NoGen   == 0
NoBase  == [gen |-> NoGen, enr |-> FALSE]
NoWork  == [op |-> "none", league |-> NoLeague, source |-> NoGen, variant |-> 0,
            cond |-> NoCondition, start |-> 0, gen |-> NoGen,
            inBase |-> FALSE, enr |-> FALSE, ownEnr |-> FALSE, base |-> NoBase]
NoReply == [kind |-> "none", op |-> "none", source |-> NoGen, start |-> 0,
            gen |-> NoGen, enr |-> FALSE, base |-> NoBase]

\* Mutant: the analysis cache key forgets fetched_at.
AnalysisKeyWithoutSource(g, v) == <<NoGen, v>>

AnalysisKey(g, v) == <<g, v>>
OutlookKey(g, c)  == <<g, c>>

\* The conditions of the outlook the thread is working on: forecast() calls
\* itself without conditions to get a conditional outlook's baseline.
Wanted(r) == IF work[r].inBase THEN NoCondition ELSE work[r].cond
KeyOfAnalysis(r) == AnalysisKey(work[r].gen, work[r].variant)
KeyOfOutlook(r)  == OutlookKey(work[r].gen, Wanted(r))

Goto(r, label) == pc' = [pc EXCEPT ![r] = label]

Answer(r, w, kind, g, e, b) ==
    /\ Goto(r, "idle")
    /\ work' = [work EXCEPT ![r] = NoWork]
    /\ reply' = [kind |-> kind, op |-> w.op, source |-> w.source, start |-> w.start,
                 gen |-> g, enr |-> e, base |-> b]

Silent == reply' = NoReply

Refuse(r, w, kind) == Answer(r, w, kind, NoGen, FALSE, NoBase) /\ UNCHANGED told

\* A response to analyse names its generation; compare goes on instead.
AnalysisReady(r, value) ==
    IF work[r].op = "compare"
    THEN Goto(r, "compareRead") /\ Silent /\ UNCHANGED <<work, told>>
    ELSE Answer(r, work[r], "ok", value, FALSE, NoBase) /\ told' = told \cup {value}

\* An outlook is the answer, or the baseline of the conditional one to come.
OutlookReady(r, value) ==
    IF work[r].inBase
    THEN /\ Goto(r, "outlookWait")
         /\ work' = [work EXCEPT ![r] = [@ EXCEPT !.inBase = FALSE, !.enr = work[r].ownEnr,
                                            !.base = [gen |-> value.gen, enr |-> value.enr]]]
         /\ Silent /\ UNCHANGED told
    ELSE Answer(r, work[r], "ok", value.gen, value.enr, value.base) /\ UNCHANGED told

-----------------------------------------------------------------------------
Init ==
    /\ now = 0 /\ born = <<>> /\ retained = <<>> /\ told = {}
    /\ snapshots = EmptyCache /\ generations = EmptyCache /\ analyses = EmptyCache
    /\ outlooks = EmptyCache /\ enriched = EmptyCache
    /\ primed = {} /\ ready = {} /\ history = EmptyCache
    /\ fetchLock = [s \in FetchStripes |-> NoClient]
    /\ analysisLock = [s \in AnalysisStripes |-> NoClient]
    /\ outlookLock = [s \in OutlookStripes |-> NoClient]
    /\ pc = [r \in Clients |-> "idle"]
    /\ work = [r \in Clients |-> NoWork]
    /\ reply = NoReply
    /\ calls = 0

Arrive(r) == /\ pc[r] = "idle" /\ calls < MaxCalls
             /\ calls' = calls + 1

\* A refresh, or the first half of a comparison: the current snapshot if it is
\* still fresh, else the league's fetch lock.
AnalyseCurrent(r, op, l, v) ==
    LET w == [NoWork EXCEPT !.op = op, !.league = l, !.variant = v, !.start = now]
    IN  /\ Arrive(r)
        /\ IF Holds(snapshots, l, now)
           THEN /\ Goto(r, "derive")
                /\ work' = [work EXCEPT ![r] = [w EXCEPT !.gen = snapshots[l].value]]
           ELSE Goto(r, "fetchWait") /\ work' = [work EXCEPT ![r] = w]
        /\ snapshots' = AfterGet(snapshots, l, now)
        /\ Silent
        /\ UNCHANGED <<upstream, seen, generations, analyses, outlooks, enriched, history,
                       locks>>

\* A request that names the scores it was shown: that generation or a 409.
AnalyseSource(r, g, v) ==
    LET l == born[g].league
        w == [NoWork EXCEPT !.op = "analyse", !.league = l, !.source = g,
                            !.variant = v]
    IN  /\ Arrive(r)
        /\ generations' = AfterGet(generations, <<l, g>>, now)
        /\ IF Holds(generations, <<l, g>>, now)
           THEN /\ Goto(r, "derive")
                /\ work' = [work EXCEPT ![r] =
                                [w EXCEPT !.gen = generations[<<l, g>>].value]]
                /\ Silent
                /\ UNCHANGED told
           ELSE Refuse(r, w, "gone")
        /\ UNCHANGED <<upstream, retained, snapshots, analyses, outlooks, enriched,
                       history, locks>>

\* Mutant: the snapshot is not looked up again under the lock.
AcquireFetchUnchecked(r) ==
    /\ pc[r] = "fetchWait" /\ fetchLock[FetchStripe[work[r].league]] = NoClient
    /\ Goto(r, "fetching")
    /\ fetchLock' = [fetchLock EXCEPT ![FetchStripe[work[r].league]] = r]
    /\ Silent
    /\ UNCHANGED <<upstream, seen, caches, history, analysisLock, outlookLock, work,
                   calls>>

\* Coalesce simultaneous refreshes: look again once the lock is held.
AcquireFetch(r) ==
    LET l == work[r].league
        s == FetchStripe[l]
    IN  /\ pc[r] = "fetchWait" /\ fetchLock[s] = NoClient
        /\ IF Holds(snapshots, l, now)
           THEN /\ Goto(r, "derive")
                /\ work' = [work EXCEPT ![r].gen = snapshots[l].value]
                /\ UNCHANGED fetchLock
           ELSE /\ Goto(r, "fetching")
                /\ fetchLock' = [fetchLock EXCEPT ![s] = r]
                /\ UNCHANGED work
        /\ snapshots' = AfterGet(snapshots, l, now)
        /\ Silent /\ UNCHANGED <<upstream, seen, generations, analyses, outlooks,
                                 enriched, history, analysisLock, outlookLock, calls>>

NewGeneration == Len(born) + 1

\* client.fetch_snapshot() returns a snapshot of league l.
Fetch(l) == /\ NewGeneration <= MaxGen
            /\ born' = Append(born, [league |-> l, at |-> now])

\* The new snapshot is the current one before its generation is retained.
FetchReturns(r) ==
    LET l == work[r].league
    IN  /\ pc[r] = "fetching"
        /\ Fetch(l)
        /\ snapshots' = AfterSet(snapshots, l, NewGeneration, now, SnapTTL, SnapCap)
        /\ work' = [work EXCEPT ![r].gen = NewGeneration]
        /\ Goto(r, "storing")
        /\ Silent /\ UNCHANGED <<now, primed, ready, seen, generations, analyses,
                                 outlooks, enriched, history, locks, calls>>

RetainGeneration(r) ==
    LET l == work[r].league
        g == work[r].gen
    IN  /\ pc[r] = "storing"
        /\ generations' = AfterSet(generations, <<l, g>>, g, now, GenTTL, GenCap)
        /\ retained' = Append(retained, [gen |-> g, at |-> now])
        /\ fetchLock' = [fetchLock EXCEPT ![FetchStripe[l]] = NoClient]
        /\ Goto(r, "derive")
        /\ Silent /\ UNCHANGED <<upstream, told, snapshots, analyses, outlooks, enriched,
                                 history, analysisLock, outlookLock, work, calls>>

\* Mutant: the exception leaves the fetch lock held.
FetchFailsHoldingLock(r) ==
    /\ pc[r] = "fetching"
    /\ Refuse(r, work[r], "error")
    /\ UNCHANGED <<upstream, retained, caches, history, locks, calls>>

\* The official API is unreachable or refuses: the exception frees the lock.
FetchFails(r) ==
    /\ pc[r] = "fetching"
    /\ fetchLock' = [fetchLock EXCEPT ![FetchStripe[work[r].league]] = NoClient]
    /\ Refuse(r, work[r], "error")
    /\ UNCHANGED <<upstream, retained, caches, history, analysisLock, outlookLock, calls>>

-----------------------------------------------------------------------------
LookupAnalysis(r) ==
    LET k == KeyOfAnalysis(r)
    IN  /\ pc[r] = "derive"
        /\ analyses' = AfterGet(analyses, k, now)
        /\ IF Holds(analyses, k, now)
           THEN AnalysisReady(r, analyses[k].value)
           ELSE Goto(r, "analysisWait") /\ Silent /\ UNCHANGED <<work, told>>
        /\ UNCHANGED <<upstream, retained, snapshots, generations, outlooks, enriched,
                       history, locks, calls>>

AcquireAnalysis(r) ==
    LET k == KeyOfAnalysis(r)
        s == AnalysisStripe[k]
    IN  /\ pc[r] = "analysisWait" /\ analysisLock[s] = NoClient
        /\ analyses' = AfterGet(analyses, k, now)
        /\ IF Holds(analyses, k, now)
           THEN AnalysisReady(r, analyses[k].value) /\ UNCHANGED analysisLock
           ELSE /\ Goto(r, "analysing")
                /\ analysisLock' = [analysisLock EXCEPT ![s] = r]
                /\ Silent /\ UNCHANGED <<work, told>>
        /\ UNCHANGED <<upstream, retained, snapshots, generations, outlooks, enriched,
                       history, fetchLock, outlookLock, calls>>

FreeAnalysis(r) ==
    analysisLock' = [analysisLock EXCEPT ![AnalysisStripe[KeyOfAnalysis(r)]] = NoClient]

\* prime() submits the history jobs; the result is computed and cached.
FinishAnalysis(r) ==
    /\ pc[r] = "analysing"
    /\ primed' = primed \cup {work[r].league}
    /\ analyses' = AfterSet(analyses, KeyOfAnalysis(r), work[r].gen, now, SnapTTL,
                            AnalysisCap)
    /\ FreeAnalysis(r)
    /\ AnalysisReady(r, work[r].gen)
    /\ UNCHANGED <<now, born, ready, retained, snapshots, generations, outlooks, enriched,
                   history, fetchLock, outlookLock, calls>>

\* The state cannot be made of the snapshot, or "That manager is not in this league", after
\* prime(): the exception frees the lock and caches nothing.
AnalysisFails(r) ==
    /\ pc[r] = "analysing"
    /\ \/ UNCHANGED primed
       \/ work[r].op = "analyse" /\ primed' = primed \cup {work[r].league}
    /\ FreeAnalysis(r)
    /\ Refuse(r, work[r], "error")
    /\ UNCHANGED <<now, born, ready, retained, caches, history, fetchLock, outlookLock,
                   calls>>

\* compare() reads the current snapshot again, and fetches once more (neither
\* coalesced nor cached) when it expired or was evicted meanwhile.
CompareRead(r) ==
    LET l == work[r].league
    IN  /\ pc[r] = "compareRead"
        /\ snapshots' = AfterGet(snapshots, l, now)
        /\ IF Holds(snapshots, l, now)
           THEN Answer(r, work[r], "ok", snapshots[l].value, FALSE, NoBase)
           ELSE Goto(r, "compareFetch") /\ Silent /\ UNCHANGED work
        /\ UNCHANGED <<upstream, seen, generations, analyses, outlooks, enriched, history,
                       locks, calls>>

CompareFetchReturns(r) ==
    /\ pc[r] = "compareFetch"
    /\ Fetch(work[r].league)
    /\ Answer(r, work[r], "ok", NewGeneration, FALSE, NoBase)
    /\ UNCHANGED <<now, primed, ready, seen, caches, history, locks, calls>>

\* The second fetch fails, or a manager to compare is not in the league.
CompareFails(r) ==
    /\ \/ pc[r] = "compareFetch"
       \/ pc[r] = "compareRead" /\ Holds(snapshots, work[r].league, now)
    /\ Refuse(r, work[r], "error")
    /\ UNCHANGED <<upstream, retained, caches, history, locks, calls>>

-----------------------------------------------------------------------------
\* forecast() with or without conditions: the generation must still be there;
\* a cached outlook for the same key is the answer.
Forecast(r, g, c) ==
    LET l == born[g].league
        k == OutlookKey(g, c)
        w == [NoWork EXCEPT !.op = "forecast", !.league = l, !.source = g, !.cond = c,
                            !.gen = g]
    IN  /\ Arrive(r)
        /\ generations' = AfterGet(generations, <<l, g>>, now)
        /\ IF ~Holds(generations, <<l, g>>, now)
           THEN Refuse(r, w, "gone") /\ UNCHANGED outlooks
           ELSE /\ outlooks' = AfterGet(outlooks, k, now)
                /\ UNCHANGED told
                /\ IF Holds(outlooks, k, now)
                   THEN LET o == outlooks[k].value
                        IN  Answer(r, w, "ok", o.gen, o.enr, o.base)
                   ELSE /\ Goto(r, "prepare")
                        /\ work' = [work EXCEPT ![r] = w]
                        /\ Silent
        /\ UNCHANGED <<upstream, retained, snapshots, analyses, enriched, history, locks>>

EnrichKey(l, g) == <<l, g>>

\* What prepare() returns: the enrichment frozen for this generation, or one
\* made of the history jobs that are done by now.
Enrichment(l, g) ==
    IF Holds(enriched, EnrichKey(l, g), now) THEN enriched[EnrichKey(l, g)].value
    ELSE l \in ready

\* prepare() primes, then freezes the enrichment of a generation that has none.
\* A conditional request then validates its conditions and turns to its baseline.
Prepare(r) ==
    LET l == work[r].league
        g == work[r].gen
        e == Enrichment(l, g)
    IN  /\ pc[r] = "prepare"
        /\ primed' = primed \cup {l}
        /\ enriched' = IF Holds(enriched, EnrichKey(l, g), now) THEN enriched
                       ELSE AfterSet(enriched, EnrichKey(l, g), e, now, GenTTL, EnrichCap)
        /\ \/ /\ Wanted(r) = NoCondition
              /\ Goto(r, "outlookWait")
              /\ work' = [work EXCEPT ![r].enr = e]
              /\ Silent /\ UNCHANGED told
           \/ /\ Wanted(r) # NoCondition
              /\ Goto(r, "baseline")
              /\ work' = [work EXCEPT ![r] = [@ EXCEPT !.ownEnr = e, !.inBase = TRUE]]
              /\ Silent /\ UNCHANGED told
           \/ /\ Wanted(r) # NoCondition
              /\ Refuse(r, work[r], "conflict")
        /\ UNCHANGED <<now, born, ready, retained, snapshots, generations, analyses,
                       outlooks, history, locks, calls>>

\* A history that is done cannot be read: nothing is frozen.
PrepareFails(r) ==
    /\ pc[r] = "prepare"
    /\ primed' = primed \cup {work[r].league}
    /\ Refuse(r, work[r], "error")
    /\ UNCHANGED <<now, born, ready, retained, caches, history, locks, calls>>

\* The recursive call: its own generation check and its own cached answer.
Baseline(r) ==
    LET l == work[r].league
        g == work[r].gen
        k == KeyOfOutlook(r)
    IN  /\ pc[r] = "baseline"
        /\ generations' = AfterGet(generations, <<l, g>>, now)
        /\ IF ~Holds(generations, <<l, g>>, now)
           THEN Refuse(r, work[r], "gone") /\ UNCHANGED outlooks
           ELSE /\ outlooks' = AfterGet(outlooks, k, now)
                /\ IF Holds(outlooks, k, now)
                   THEN OutlookReady(r, outlooks[k].value)
                   ELSE Goto(r, "prepare") /\ Silent /\ UNCHANGED <<work, told>>
        /\ UNCHANGED <<upstream, retained, snapshots, analyses, enriched, history, locks,
                       calls>>

AcquireOutlook(r) ==
    LET k == KeyOfOutlook(r)
        s == OutlookStripe[k]
    IN  /\ pc[r] = "outlookWait" /\ outlookLock[s] = NoClient
        /\ outlooks' = AfterGet(outlooks, k, now)
        /\ IF Holds(outlooks, k, now)
           THEN OutlookReady(r, outlooks[k].value) /\ UNCHANGED outlookLock
           ELSE /\ Goto(r, "simulating")
                /\ outlookLock' = [outlookLock EXCEPT ![s] = r]
                /\ Silent /\ UNCHANGED <<work, told>>
        /\ UNCHANGED <<upstream, retained, snapshots, generations, analyses, enriched,
                       history, fetchLock, analysisLock, calls>>

\* INSERT OR IGNORE: the first outlook recorded for a generation stays.
Recorded(g, e) ==
    IF g \in DOMAIN history THEN history
    ELSE [x \in DOMAIN history \cup {g} |-> IF x = g THEN e ELSE history[x]]

\* The simulation ends; an unconditional outlook goes into the risk history
\* (or could not be recorded), the outlook into the cache.
FinishOutlook(r) ==
    LET k == KeyOfOutlook(r)
        o == [gen |-> work[r].gen, enr |-> work[r].enr, base |-> work[r].base]
    IN  /\ pc[r] = "simulating"
        /\ \/ Wanted(r) = NoCondition /\ history' = Recorded(o.gen, o.enr)
           \/ UNCHANGED history
        /\ outlooks' = AfterSet(outlooks, k, o, now, GenTTL, OutlookCap)
        /\ outlookLock' = [outlookLock EXCEPT ![OutlookStripe[k]] = NoClient]
        /\ OutlookReady(r, o)
        /\ UNCHANGED <<upstream, retained, snapshots, generations, analyses, enriched,
                       fetchLock, analysisLock, calls>>

\* Mutant: the exception leaves the outlook lock held.
OutlookFailsHoldingLock(r) ==
    /\ pc[r] = "simulating"
    /\ Refuse(r, work[r], "conflict")
    /\ UNCHANGED <<upstream, retained, caches, history, locks, calls>>

\* A draw contradicts the match or the conditions: ScenarioConflict leaves the guarded
\* section, nothing is cached, and the request is refused, the conditional one whose
\* baseline this was included.
OutlookFails(r) ==
    /\ pc[r] = "simulating"
    /\ outlookLock' = [outlookLock EXCEPT ![OutlookStripe[KeyOfOutlook(r)]] = NoClient]
    /\ Refuse(r, work[r], "conflict")
    /\ UNCHANGED <<upstream, retained, caches, history, fetchLock, analysisLock, calls>>

-----------------------------------------------------------------------------
\* A background history job finishes; a failed one never becomes ready.
JobCompletes(l) ==
    /\ l \in primed \ ready
    /\ ready' = ready \cup {l}
    /\ Silent /\ UNCHANGED <<now, born, primed, seen, caches, history, locks, pc, work,
                             calls>>

Tick == /\ now < MaxTime
        /\ now' = now + 1
        /\ Silent /\ UNCHANGED <<born, primed, ready, seen, caches, history, locks, pc,
                                 work, calls>>

Request(r) ==
    \/ \E l \in Leagues, v \in Variants : AnalyseCurrent(r, "analyse", l, v)
    \/ \E l \in Leagues, v \in Variants : AnalyseCurrent(r, "compare", l, v)
    \/ \E g \in told, v \in Variants : AnalyseSource(r, g, v)
    \/ \E g \in told, c \in Conditions \cup {NoCondition} : Forecast(r, g, c)

Step(r) ==
    \/ AcquireFetch(r) \/ FetchReturns(r) \/ RetainGeneration(r) \/ FetchFails(r)
    \/ LookupAnalysis(r) \/ AcquireAnalysis(r) \/ FinishAnalysis(r) \/ AnalysisFails(r)
    \/ CompareRead(r) \/ CompareFetchReturns(r) \/ CompareFails(r)
    \/ Prepare(r) \/ PrepareFails(r) \/ Baseline(r)
    \/ AcquireOutlook(r) \/ FinishOutlook(r) \/ OutlookFails(r)

Next == \/ \E r \in Clients : Request(r) \/ Step(r)
        \/ \E l \in Leagues : JobCompletes(l)
        \/ Tick

Spec == Init /\ [][Next]_vars

\* Threads are scheduled, every upstream call ends (the client has timeouts)
\* and every computation is bounded.
FairSpec == Spec /\ \A r \in Clients : WF_vars(Step(r))
-----------------------------------------------------------------------------
(* Properties. *)

Generation == 0..MaxGen
Time == 0..MaxTime
Cond == Conditions \cup {NoCondition}
Base == [gen : Generation, enr : BOOLEAN]
Outlook == [gen : Generation, enr : BOOLEAN, base : Base]
Labels == {"idle", "fetchWait", "fetching", "storing", "derive", "analysisWait",
           "analysing", "compareRead", "compareFetch", "prepare", "baseline",
           "outlookWait", "simulating"}
Work == [op : {"none", "analyse", "compare", "forecast"}, league : Leagues \cup {NoLeague},
         source : Generation, variant : Variants \cup {0}, cond : Cond, start : Time,
         gen : Generation, inBase : BOOLEAN, enr : BOOLEAN, ownEnr : BOOLEAN, base : Base]
Reply == [kind : {"none", "ok", "gone", "error", "conflict"},
          op : {"none", "analyse", "compare", "forecast"}, source : Generation,
          start : Time, gen : Generation, enr : BOOLEAN, base : Base]

ScoresOK ==
    /\ now \in Time
    /\ born \in Seq([league : Leagues, at : Time]) /\ Len(born) <= MaxGen
    /\ retained \in Seq([gen : Generation, at : Time])
    /\ told \subseteq Gens
    /\ primed \subseteq Leagues /\ ready \subseteq primed
    /\ DOMAIN history \subseteq Gens

CachesOK ==
    /\ CacheOf(snapshots, Leagues, Generation, SnapCap)
    /\ CacheOf(generations, Leagues \X Generation, Generation, GenCap)
    /\ CacheOf(analyses, Generation \X Variants, Generation, AnalysisCap)
    /\ CacheOf(outlooks, Generation \X Cond, Outlook, OutlookCap)
    /\ CacheOf(enriched, Leagues \X Generation, BOOLEAN, EnrichCap)

LocksOK ==
    /\ fetchLock \in [FetchStripes -> Clients \cup {NoClient}]
    /\ analysisLock \in [AnalysisStripes -> Clients \cup {NoClient}]
    /\ outlookLock \in [OutlookStripes -> Clients \cup {NoClient}]

ThreadsOK ==
    /\ pc \in [Clients -> Labels]
    /\ work \in [Clients -> Work]
    /\ reply \in Reply
    /\ calls \in 0..MaxCalls

\* Types of all variables; no cache exceeds its max_items, and no response or recorded
\* risk names a generation that was never fetched.
TypeOK == ScoresOK /\ CachesOK /\ LocksOK /\ ThreadsOK

\* Every cached value belongs to its key: a snapshot to its generation, whose fetch
\* began its lifetime; a result to the generation it was computed from.
SnapshotsKeyed ==
    \A l \in DOMAIN snapshots :
        LET g == snapshots[l].value
        IN  g \in Gens /\ snapshots[l].expires = born[g].at + SnapTTL
GenerationsKeyed ==
    \A k \in DOMAIN generations : k[2] \in Gens /\ generations[k].value = k[2]
AnalysesKeyed ==
    \A k \in DOMAIN analyses : k[1] \in Gens /\ analyses[k].value = k[1]
OutlooksKeyed ==
    \A k \in DOMAIN outlooks :
        /\ k[1] \in Gens /\ outlooks[k].value.gen = k[1]
        /\ outlooks[k].value.base.gen \in {NoGen, k[1]}
CachedUnderItsKey == SnapshotsKeyed /\ GenerationsKeyed /\ AnalysesKeyed /\ OutlooksKeyed

Refreshing == {"fetchWait", "fetching", "compareRead", "compareFetch"}
Deriving == {"storing", "derive", "analysisWait", "analysing"}
Forecasting == {"prepare", "baseline", "outlookWait", "simulating"}

\* What a thread in the middle of a request has in hand.
ThreadInv(r) ==
    LET w == work[r]
    IN  /\ w.start <= now
        /\ pc[r] # "idle" => w.league \in Leagues
        /\ pc[r] \in Refreshing \cup Deriving => w.variant \in Variants
        /\ pc[r] \in Refreshing => w.source = NoGen
        /\ w.op = "compare" => w.source = NoGen
        /\ pc[r] \in Deriving =>
               /\ w.gen \in Gens
               /\ IF w.source = NoGen THEN w.start < born[w.gen].at + SnapTTL
                  ELSE w.gen = w.source
        /\ pc[r] \in Forecasting =>
               /\ w.gen \in Gens /\ w.source = w.gen
               /\ w.base.gen \in {NoGen, w.gen}

\* The strengthening that makes the source and freshness properties inductive.
SourceInv == TypeOK /\ CachedUnderItsKey /\ \A r \in Clients : ThreadInv(r)

Fetching == {"fetching", "storing"}

\* "Coalesce simultaneous refreshes of the same league instead of duplicating FPL
\* calls" (service.py:92): one refresh of a league fetches at a time, and never while
\* a fresh snapshot of it is cached.
FetchesCoalesced ==
    \A r \in Clients :
        /\ pc[r] = "fetching" => ~Holds(snapshots, work[r].league, now)
        /\ \A q \in Clients \ {r} :
               {pc[r], pc[q]} \subseteq Fetching => work[r].league # work[q].league

\* "An expired generation must never silently fetch new scores" (service.py:222) and
\* a late request "must not mix an old candidate result with a freshly refreshed league
\* summary" (service.py:106): what answers a request that named a source was computed
\* from that source, its baseline included.
AnswersFromNamedSource ==
    (reply.kind = "ok" /\ reply.source # NoGen)
        => reply.gen = reply.source /\ reply.base.gen \in {NoGen, reply.source}

\* A refresh never shows scores that were older than the cache's TTL when it was asked
\* for, however long it then waited for locks.
RefreshIsFresh ==
    (reply.kind = "ok" /\ reply.source = NoGen)
        => reply.start < born[reply.gen].at + SnapTTL

\* "Source generations are retained for 10 minutes (at most 32 in memory)" (README.md):
\* from the moment it is retained, a generation can be named until it expires or that
\* many newer ones arrived.
SourceRetained ==
    \A i \in 1..Len(retained) :
        LET g == retained[i].gen
        IN  (now < retained[i].at + GenTTL /\ Len(retained) - i < GenCap)
                => Holds(generations, <<born[g].league, g>>, now)

\* A stripe is held by exactly the thread working under it, so every way out of the
\* guarded section, the exceptional ones included, frees it.
HoldsItsLocks(r) ==
    /\ \A s \in FetchStripes :
           fetchLock[s] = r <=> pc[r] \in Fetching /\ FetchStripe[work[r].league] = s
    /\ \A s \in AnalysisStripes :
           analysisLock[s] = r <=> pc[r] = "analysing" /\ AnalysisStripe[KeyOfAnalysis(r)] = s
    /\ \A s \in OutlookStripes :
           outlookLock[s] = r <=> pc[r] = "simulating" /\ OutlookStripe[KeyOfOutlook(r)] = s
LocksHeldByWorkers == \A r \in Clients : HoldsItsLocks(r)

\* Every request is answered: no lock is left held and no thread waits for a stripe it
\* holds itself, although the stripes of different keys collide.
EveryRequestAnswered ==
    \A r \in Clients : pc[r] # "idle" ~> pc[r] = "idle"

\* "freeze enriched inputs per public source generation" (forecasting/service.py:1): a
\* conditional outlook and the baseline its changes are measured from see the same inputs.
EnrichmentFrozen ==
    (reply.kind = "ok" /\ reply.base # NoBase) => reply.base.enr = reply.enr
=============================================================================
