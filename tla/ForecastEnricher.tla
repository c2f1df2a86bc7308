-------------------------- MODULE ForecastEnricher --------------------------
(***************************************************************************)
(* The background histories of players and the enrichment made of them     *)
(* (forecasting/service.py), which AnalysisService knows only as done or    *)
(* not done.  Analyses prime a generation: they leave jobs for the players  *)
(* who matter most.  Forecasts prime it and freeze it with what is there    *)
(* two seconds later.                                                       *)
(*                                                                          *)
(* FPL is external: a history has a row for each match that has begun when  *)
(* it is downloaded, which may be long after the generation it enriches.    *)
(* What is in a row, what a lineup job finds (LineupFeed) and the counts of  *)
(* jobs requested and pending that go with an enrichment are left out.      *)
(***************************************************************************)
EXTENDS Naturals, Sequences, FiniteSets, SequencesExt

CONSTANTS
    Threads, Nobody,   \* request threads
    Squad,      \* league -> its players, captains first, then by minutes
    Matches,
    Played,     \* player -> his matches
    AtMost,     \* 12 players of a generation are primed,
    Slots,      \* 48 histories may be pending
    Workers,    \* and three jobs run
    MaxGens, MaxJobs, MaxEvents    \* bounds of the model

ASSUME EnricherAssumption == Slots \in Nat /\ Nobody \notin Threads

VARIABLES
    stage,      \* match -> ahead, live or over
    gens,       \* the generations: [league, over, closed]
    client,     \* FPLClient._player_histories: player -> rows
    jobs,       \* player -> the number of his job
    lineupJobs, \* generation -> the number of its job
    futures,    \* the jobs in the order of submission: [of, status, rows, slot]
    free,       \* slots
    primer,     \* who holds the lock of the jobs
    frozen,     \* generation -> enrichment
    requests,      \* thread -> [pc, gen, prepares, left, found, used]
    given,      \* generation -> enrichments given out since it was last frozen (of the model)
    events      \* requests and expiries

enricherVars == <<stage, gens, client, jobs, lineupJobs, futures, free, primer, frozen, requests, given, events>>

Idle == [pc |-> "idle", gen |-> 0, prepares |-> FALSE, left |-> <<>>, found |-> <<>>, used |-> <<>>]

EnricherInit ==
    /\ stage = [f \in Matches |-> "ahead"] /\ gens = <<>> /\ client = <<>>
    /\ jobs = <<>> /\ lineupJobs = <<>> /\ futures = <<>> /\ free = Slots
    /\ primer = Nobody /\ frozen = <<>> /\ requests = [t \in Threads |-> Idle]
    /\ given = <<>> /\ events = 0

world == <<stage, gens>>
pool == <<client, futures, free>>
kept == <<jobs, lineupJobs, frozen>>

Without(f, x) == [y \in DOMAIN f \ {x} |-> f[y]]
Set(f, x, v) == [y \in DOMAIN f \cup {x} |-> IF y = x THEN v ELSE f[y]]

Event == events < MaxEvents /\ events' = events + 1

At(t, where) == requests[t].pc = where
GoesTo(t, where) == requests' = [requests EXCEPT ![t].pc = where]

-----------------------------------------------------------------------------
(* FPL and the clock.                                                      *)

KickOff(f) == stage[f] = "ahead" /\ stage' = [stage EXCEPT ![f] = "live"]
              /\ UNCHANGED <<gens, pool, kept, primer, requests, given, events>>
Whistle(f) == stage[f] = "live" /\ stage' = [stage EXCEPT ![f] = "over"]
              /\ UNCHANGED <<gens, pool, kept, primer, requests, given, events>>

Over == {f \in Matches : stage[f] = "over"}

\* A snapshot is downloaded; of a Gameweek that is over it may be final.
Download(l) ==
    /\ Len(gens) < MaxGens
    /\ \E closed \in {FALSE, Over = Matches} :
          gens' = Append(gens, [league |-> l, over |-> Over, closed |-> closed])
    /\ given' = Append(given, {})
    /\ UNCHANGED <<stage, pool, kept, primer, requests, events>>

\* Six hours or ten minutes pass; a job ends long before.
Ended(n) == futures[n].status \in {"done", "failed"}
Expire ==
    /\ Event
    /\ \/ \E p \in DOMAIN jobs : Ended(jobs[p]) /\ jobs' = Without(jobs, p)
                                 /\ UNCHANGED <<client, lineupJobs, frozen, given>>
       \/ \E p \in DOMAIN client : client' = Without(client, p)
                                   /\ UNCHANGED <<jobs, lineupJobs, frozen, given>>
       \/ \E g \in DOMAIN lineupJobs : Ended(lineupJobs[g]) /\ lineupJobs' = Without(lineupJobs, g)
                                       /\ UNCHANGED <<client, jobs, frozen, given>>
       \/ \E g \in DOMAIN frozen : frozen' = Without(frozen, g) /\ given' = [given EXCEPT ![g] = {}]
                                   /\ UNCHANGED <<client, jobs, lineupJobs>>
    /\ UNCHANGED <<world, futures, free, primer, requests>>

-----------------------------------------------------------------------------
(* prime                                                                   *)

Relevant(g) ==
    LET order == SelectSeq(Squad[gens[g].league], LAMBDA p : Played[p] \ gens[g].over # {})
    IN  SubSeq(order, 1, IF Len(order) > AtMost THEN AtMost ELSE Len(order))

\* An analysis primes, a forecast goes on to freeze; nothing is primed for what is final.
Call(t, g, prepares) ==
    /\ Event /\ At(t, "idle") /\ (prepares \/ ~gens[g].closed)
    /\ requests' = [requests EXCEPT ![t] =
          [pc |-> IF gens[g].closed THEN "freeze" ELSE "prime", gen |-> g, prepares |-> prepares,
           left |-> IF gens[g].closed THEN <<>> ELSE Relevant(g), found |-> <<>>, used |-> <<>>]]
    /\ UNCHANGED <<world, pool, kept, primer, given>>

\* Mutant: the jobs are looked up without the lock.
UnlockedJobs(t) == TRUE

LockFree(t) == primer = Nobody

LockJobs(t) ==
    /\ At(t, "prime") /\ LockFree(t)
    /\ primer' = t /\ GoesTo(t, "look")
    /\ UNCHANGED <<world, pool, kept, given, events>>

\* The next player has a job, or gets a slot, or is passed over.
Look(t) ==
    /\ At(t, "look") /\ requests[t].left # <<>>
    /\ LET p == Head(requests[t].left)
       IN  IF p \notin DOMAIN jobs /\ free > 0
           THEN free' = free - 1 /\ GoesTo(t, "submit")
           ELSE requests' = [requests EXCEPT ![t].left = Tail(@)] /\ UNCHANGED free
    /\ UNCHANGED <<world, client, futures, kept, primer, given, events>>

Job(of, slot) == [of |-> of, status |-> "queued", rows |-> {}, slot |-> slot]

Submit(t) ==
    /\ At(t, "submit") /\ Len(futures) < MaxJobs
    /\ LET p == Head(requests[t].left)
       IN  /\ futures' = Append(futures, Job(p, TRUE))
           /\ jobs' = Set(jobs, p, Len(futures'))
    /\ requests' = [requests EXCEPT ![t].pc = "look", ![t].left = Tail(@)]
    /\ UNCHANGED <<world, client, free, lineupJobs, frozen, primer, given, events>>

\* The lineups of a generation are asked for once, when there is a provider.
Primed(t) ==
    /\ At(t, "look") /\ requests[t].left = <<>>
    /\ \/ UNCHANGED <<futures, lineupJobs>>
       \/ /\ requests[t].gen \notin DOMAIN lineupJobs /\ Len(futures) < MaxJobs
          /\ futures' = Append(futures, Job(Nobody, FALSE))
          /\ lineupJobs' = Set(lineupJobs, requests[t].gen, Len(futures'))
    /\ primer' = Nobody
    /\ GoesTo(t, IF requests[t].prepares THEN "freeze" ELSE "idle")
    /\ UNCHANGED <<world, client, free, jobs, frozen, given, events>>

-----------------------------------------------------------------------------
(* The executor.                                                           *)

Running == {n \in DOMAIN futures : futures[n].status = "running"}

\* A worker takes the first job that waits.
Take(n) ==
    /\ futures[n].status = "queued" /\ \A m \in 1..(n - 1) : futures[m].status # "queued"
    /\ Cardinality(Running) < Workers
    /\ futures' = [futures EXCEPT ![n].status = "running"]
    /\ UNCHANGED <<world, client, free, kept, primer, requests, given, events>>

Rows(p) == {f \in Played[p] : stage[f] # "ahead"}

\* player_history, from the client's cache or from FPL; the lineups.
Finish(n) ==
    /\ n \in Running
    /\ LET p == futures[n].of
           rows == IF p = Nobody THEN {} ELSE IF p \in DOMAIN client THEN client[p] ELSE Rows(p)
       IN  /\ futures' = [futures EXCEPT ![n] = [of |-> p, status |-> "done", rows |-> rows, slot |-> @.slot]]
           /\ client' = IF p = Nobody THEN client ELSE Set(client, p, rows)
    /\ UNCHANGED <<world, free, kept, primer, requests, given, events>>

Fail(n) ==
    /\ n \in Running /\ futures[n].of \notin DOMAIN client
    /\ futures' = [futures EXCEPT ![n].status = "failed"]
    /\ UNCHANGED <<world, client, free, kept, primer, requests, given, events>>

\* The callback of an ended job, whether it was done or failed.
Release(n) ==
    /\ Ended(n) /\ futures[n].slot
    /\ free' = free + 1 /\ futures' = [futures EXCEPT ![n].slot = FALSE]
    /\ UNCHANGED <<world, client, kept, primer, requests, given, events>>

-----------------------------------------------------------------------------
(* prepare, once it has primed                                             *)

Freezing == {t \in Threads : requests[t].pc \in {"wait", "collected"}}

\* Mutant: whoever comes first does not keep others out.
AnyoneFreezes(g) == TRUE

GenerationFree(g) == \A t \in Freezing : requests[t].gen # g

GiveOut(t, e) ==
    /\ given' = [given EXCEPT ![requests[t].gen] = @ \cup {e}]
    /\ requests' = [requests EXCEPT ![t] = Idle]

\* What is frozen is given out; otherwise the squad's jobs are picked up.
Enter(t) ==
    LET g == requests[t].gen
        owned == ToSet(Squad[gens[g].league]) \cap DOMAIN jobs
    IN  /\ At(t, "freeze") /\ GenerationFree(g)
        /\ IF g \in DOMAIN frozen THEN GiveOut(t, frozen[g])
           ELSE /\ requests' = [requests EXCEPT ![t].pc = "wait", ![t].found = [p \in owned |-> jobs[p]]]
                /\ UNCHANGED given
        /\ UNCHANGED <<world, pool, kept, primer, events>>

\* Mutant: what has been played by now is used.
WholeHistory(g, rows) == rows

\* parse_appearance_history: the matches that were over in the generation.
HistoryOf(g, rows) == rows \cap gens[g].over

\* All jobs have ended or two seconds are over: what is done is used.
Collect(t) ==
    LET done == {p \in DOMAIN requests[t].found : futures[requests[t].found[p]].status = "done"}
    IN  /\ At(t, "wait")
        /\ requests' = [requests EXCEPT ![t].pc = "collected", ![t].used =
              [p \in done |-> HistoryOf(requests[t].gen, futures[requests[t].found[p]].rows)]]
        /\ UNCHANGED <<world, pool, kept, primer, given, events>>

\* With the lineups, if they have come, the enrichment is frozen.
Freeze(t) ==
    LET g == requests[t].gen
        e == [histories |-> requests[t].used,
              lineups |-> g \in DOMAIN lineupJobs /\ futures[lineupJobs[g]].status = "done"]
    IN  /\ At(t, "collected")
        /\ frozen' = Set(frozen, g, e)
        /\ GiveOut(t, e)
        /\ UNCHANGED <<world, pool, jobs, lineupJobs, primer, events>>

-----------------------------------------------------------------------------
EnricherNext ==
    \/ \E f \in Matches : KickOff(f) \/ Whistle(f)
    \/ \E l \in DOMAIN Squad : Download(l)
    \/ Expire
    \/ \E t \in Threads :
          \/ \E g \in DOMAIN gens, prepares \in BOOLEAN : Call(t, g, prepares)
          \/ LockJobs(t) \/ Look(t) \/ Submit(t) \/ Primed(t)
          \/ Enter(t) \/ Collect(t) \/ Freeze(t)
    \/ \E n \in DOMAIN futures : Take(n) \/ Finish(n) \/ Fail(n) \/ Release(n)

EnricherSpec == EnricherInit /\ [][EnricherNext]_enricherVars

-----------------------------------------------------------------------------
(***************************************************************************)
(* "Only fixtures completed in the original source generation enter        *)
(* histories" (LIVE_INTELLIGENCE.md:28), although a history may have been   *)
(* downloaded later, by another generation of another league.              *)
(***************************************************************************)
NoHindsight ==
    \A g \in DOMAIN gens : \A e \in given[g] :
        \A p \in DOMAIN e.histories : e.histories[p] \subseteq gens[g].over

\* While a generation is frozen, all who ask get one enrichment, however many ask for it
\* first at once and whatever jobs end meanwhile (service.py:62-65).
OneEnrichment == \A g \in DOMAIN gens : Cardinality(given[g]) <= 1

\* "... at most 48 pending history jobs bound work across leagues" (LIVE_INTELLIGENCE.md:24), and
\* two leagues or threads that need a player share his job (service.py:48-55).
Pending(n) == ~Ended(n) /\ futures[n].of # Nobody
WorkBounded ==
    /\ Cardinality({n \in DOMAIN futures : Pending(n)}) <= Slots
    /\ \A m, n \in DOMAIN futures :
          Pending(m) /\ Pending(n) /\ futures[m].of = futures[n].of => m = n

\* An enrichment is of its generation, the same for all, and made of bounded work.
EnrichmentSound == NoHindsight /\ OneEnrichment /\ WorkBounded
=============================================================================
