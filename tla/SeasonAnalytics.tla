-------------------------- MODULE SeasonAnalytics --------------------------
(***************************************************************************)
(* Season analytics of one league (analytics/service.py): the summary, the *)
(* background jobs that verify the final squads behind its scores, and the *)
(* caches they read and write.                                             *)
(*                                                                         *)
(* An item is a manager's Gameweek.  FPL corrects results after the fact:  *)
(* official[i] is the version of item i that FPL serves now, and whatever  *)
(* was downloaded is known by the version it had then.  A score list       *)
(* without an item (its manager's history could not be fetched, or has no  *)
(* such week) has version 0 for it.  The scores are part of the key of a   *)
(* job and of its result.                                                  *)
(*                                                                         *)
(* Every cache entry may expire or be evicted at any moment: Forget.       *)
(* Under the striped locks a resource is downloaded by one thread while    *)
(* the others wait, so a download with its cache.set is one step; so is    *)
(* the building of a summary under the lock of its league.  Statistics are *)
(* SeasonTables.                                                           *)
(***************************************************************************)
EXTENDS Naturals, FiniteSets

CONSTANTS
    Items,                   \* manager-Gameweeks of the league
    Threads,                 \* request threads
    MaxJobs,                 \* MAX_ACTIVE_JOBS
    MaxEvents                \* bounds corrections, expiries and reader's actions

ASSUME SeasonAssumption == MaxJobs \in Nat /\ MaxEvents \in Nat /\ IsFiniteSet(Items)

VARIABLES
    official,        \* external: the version FPL serves
    scores,          \* _histories: the version cached of each item's score, 0 for none
    picks,           \* _historical: the version of the final squads, 0 for none
    live,            \* _historical: the versions of the Gameweek's player totals, 0 for none
    summaries,       \* _summaries: the score lists cached, at most one
    results, partial,        \* [key, details]
    jobs,            \* _jobs: key -> [done, total]
    workers,         \* the background threads
    threads,         \* requests being served
    events

caches == <<scores, picks, live, summaries>>
served == <<results, partial>>
serviceVars == <<official, caches, served, jobs, workers, threads>>

Versions == 0..(MaxEvents + 1)
Keys == [Items -> Versions]
None == [i \in Items |-> 0]
Scored(key) == {i \in Items : key[i] # 0}

Idle == [pc |-> "idle", kind |-> "details", for |-> "nobody", key |-> None, details |-> None,
         status |-> "none", polls |-> FALSE]

ServiceInit ==
    /\ official = [i \in Items |-> 1] /\ scores = None /\ picks = None /\ live = None
    /\ summaries = {} /\ results = {} /\ partial = {} /\ jobs = [k \in {} |-> 0]
    /\ workers = {} /\ threads = [t \in Threads |-> Idle] /\ events = 0

Entries(cache, key) == {e \in cache : e.key = key}
Put(cache, entry) == (cache \ Entries(cache, entry.key)) \cup {entry}

\* results.get(key) or partial.get(key)
Enriched(key) == IF Entries(results, key) # {} THEN Entries(results, key) ELSE Entries(partial, key)

(***************************************************************************)
(* Requests: the summary first, then the details' status or a section.     *)
(***************************************************************************)
\* What a build of the summary can find of each item: cached, downloaded now, or nothing.
Lists == {key \in Keys : \A i \in Items : IF scores[i] # 0 THEN key[i] = scores[i]
                                          ELSE key[i] \in {0, official[i]}}

Summarise(t) ==
    /\ threads[t].pc = "summary"
    /\ \E key \in IF summaries # {} THEN summaries ELSE Lists :
          /\ summaries' = {key}
          /\ scores' = IF summaries # {} THEN scores
                       ELSE [i \in Items |-> IF key[i] # 0 THEN key[i] ELSE scores[i]]
          /\ threads' = [threads EXCEPT ![t].key = key, ![t].pc = "read"]
    /\ UNCHANGED <<official, picks, live, served, jobs, workers, events>>

SummaryFails(t) ==
    /\ threads[t].pc = "summary" /\ summaries = {}
    /\ threads' = [threads EXCEPT ![t].pc = "reply", ![t].status = "error"]
    /\ UNCHANGED <<official, caches, served, jobs, workers, events>>

\* section(): the enriched season under this key, or the plain one.
Section(key) == [details |-> IF Enriched(key) = {} THEN None ELSE (CHOOSE e \in Enriched(key) : TRUE).details,
                 status |-> IF Enriched(key) = {} THEN "plain" ELSE "detailed"]

ReadSection(t) ==
    /\ threads[t].pc = "read" /\ threads[t].kind # "details"
    /\ LET answer == Section(threads[t].key) IN
       threads' = [threads EXCEPT ![t].pc = "reply", ![t].details = answer.details,
                                  ![t].status = answer.status]
    /\ UNCHANGED <<official, caches, served, jobs, workers, events>>

\* detail_status(): the results are read before the jobs are locked.
ReadStatus(t) ==
    /\ threads[t].pc = "read" /\ threads[t].kind = "details"
    /\ threads' = IF Enriched(threads[t].key) # {}
                  THEN [threads EXCEPT ![t].pc = "reply", ![t].status = "ready"]
                  ELSE [threads EXCEPT ![t].pc = "lock"]
    /\ UNCHANGED <<official, caches, served, jobs, workers, events>>

NewJob(key) == [key |-> key, pc |-> "begin", crashed |-> FALSE,
                squad |-> None, details |-> None, done |-> {}]

Opened(key) ==
    [k \in DOMAIN jobs \cup {key} |->
        IF k = key THEN [done |-> 0, total |-> Cardinality(Scored(key))] ELSE jobs[k]]

Known(key) == key \in DOMAIN jobs
BusyAbove == Cardinality(DOMAIN jobs) > MaxJobs
Busy == Cardinality(DOMAIN jobs) >= MaxJobs

StartOrWait(t) ==
    LET key == threads[t].key
        Reply(status) == threads' = [threads EXCEPT ![t].pc = "reply", ![t].status = status]
    IN /\ threads[t].pc = "lock"
       /\ \/ Known(key) /\ Reply("loading") /\ UNCHANGED <<jobs, workers>>
          \/ /\ ~Known(key) /\ Busy
             /\ Reply("busy") /\ UNCHANGED <<jobs, workers>>
          \/ /\ ~Known(key) /\ ~Busy
             /\ jobs' = Opened(key) /\ workers' = workers \cup {NewJob(key)}
             /\ Reply("loading")
       /\ UNCHANGED <<official, caches, served, events>>

(***************************************************************************)
(* A background job (_enrich).  Its items go through a pool of threads.    *)
(***************************************************************************)
Replace(w, v) == workers' = (workers \ {w}) \cup {v}

\* The catalogue is needed first; without it the job fails as a whole.
BeginJob(w) ==
    /\ w.pc = "begin"
    /\ \E crashed \in BOOLEAN :
          Replace(w, [w EXCEPT !.pc = IF crashed THEN "assemble" ELSE "work", !.crashed = crashed])
    /\ UNCHANGED <<official, caches, served, jobs, threads, events>>

Fetched(cached, now) == IF cached # 0 THEN cached ELSE now

\* The final squad of an item: cached for a day, or downloaded.
FetchSquad(w, i) ==
    /\ w.pc = "work" /\ i \in Scored(w.key) \ w.done /\ w.squad[i] = 0
    /\ picks' = [picks EXCEPT ![i] = Fetched(picks[i], official[i])]
    /\ Replace(w, [w EXCEPT !.squad[i] = picks'[i]])
    /\ UNCHANGED <<official, scores, live, summaries, served, jobs, threads, events>>

ReconcilesSquad(w, i, totals) == totals[i] = w.squad[i]

\* The squad's points must be the score listed, and the players' totals must add up to it.
Reconciles(w, i, totals) == w.squad[i] = w.key[i] /\ totals[i] = w.squad[i]

Advanced(w) == jobs' = [jobs EXCEPT ![w.key].done = @ + 1]

VerifyItem(w, i) ==
    /\ w.pc = "work" /\ i \in Scored(w.key) \ w.done /\ w.squad[i] # 0
    /\ LET totals == IF live # None THEN live ELSE official IN
       /\ live' = totals
       /\ Replace(w, [w EXCEPT !.done = @ \cup {i},
                               !.details[i] = IF Reconciles(w, i, totals) THEN w.squad[i] ELSE 0])
    /\ Advanced(w)
    /\ UNCHANGED <<official, scores, picks, summaries, served, threads, events>>

\* No time left or no answer; an unexpected exception makes the job fail as a whole, and the
\* items that no thread has begun are not tried.
GiveUpItem(w, i) ==
    /\ w.pc = "work" /\ i \in Scored(w.key) \ w.done
    /\ \E crashed \in {w.crashed, TRUE} :
          Replace(w, [w EXCEPT !.done = @ \cup {i}, !.crashed = crashed])
    /\ Advanced(w)
    /\ UNCHANGED <<official, caches, served, threads, events>>

Verified(w) == [key |-> w.key, details |-> IF w.crashed THEN None ELSE w.details]
Flawed(w) == w.crashed \/ \E i \in Scored(w.key) : w.details[i] = 0

PublishVerified(w) ==
    /\ w.pc = "assemble" \/ (w.pc = "work" /\ (w.crashed \/ w.done = Scored(w.key)))
    /\ IF w.crashed THEN UNCHANGED served
       ELSE IF Flawed(w) THEN partial' = Put(partial, Verified(w)) /\ UNCHANGED results
       ELSE results' = Put(results, Verified(w)) /\ UNCHANGED partial
    /\ Replace(w, [w EXCEPT !.pc = "end"])
    /\ UNCHANGED <<official, caches, jobs, threads, events>>

Publish(w) ==
    /\ w.pc = "assemble" \/ (w.pc = "work" /\ (w.crashed \/ w.done = Scored(w.key)))
    /\ IF Flawed(w) THEN partial' = Put(partial, Verified(w)) /\ UNCHANGED results
       ELSE results' = Put(results, Verified(w)) /\ UNCHANGED partial
    /\ Replace(w, [w EXCEPT !.pc = "end"])
    /\ UNCHANGED <<official, caches, jobs, threads, events>>

EndJob(w) ==
    /\ w.pc = "end" /\ workers' = workers \ {w}
    /\ jobs' = [k \in DOMAIN jobs \ {w.key} |-> jobs[k]]
    /\ UNCHANGED <<official, caches, served, threads, events>>

(***************************************************************************)
(* Around the service.                                                     *)
(***************************************************************************)
Event == events < MaxEvents /\ events' = events + 1

Correct(i) ==
    /\ Event /\ official' = [official EXCEPT ![i] = @ + 1]
    /\ UNCHANGED <<caches, served, jobs, workers, threads>>

Forget ==
    /\ Event
    /\ \/ \E i \in Items : scores[i] # 0 /\ scores' = [scores EXCEPT ![i] = 0]
                           /\ UNCHANGED <<picks, live, summaries, served>>
       \/ \E i \in Items : picks[i] # 0 /\ picks' = [picks EXCEPT ![i] = 0]
                           /\ UNCHANGED <<scores, live, summaries, served>>
       \/ live # None /\ live' = None /\ UNCHANGED <<scores, picks, summaries, served>>
       \/ summaries # {} /\ summaries' = {} /\ UNCHANGED <<scores, picks, live, served>>
       \/ \E e \in results : results' = results \ {e} /\ UNCHANGED <<caches, partial>>
       \/ \E e \in partial : partial' = partial \ {e} /\ UNCHANGED <<caches, results>>
    /\ UNCHANGED <<official, jobs, workers, threads>>

Serve(t) == Summarise(t) \/ SummaryFails(t) \/ ReadSection(t) \/ ReadStatus(t) \/ StartOrWait(t)

Work(w) ==
    \/ BeginJob(w) \/ Publish(w) \/ EndJob(w)
    \/ \E i \in Items : FetchSquad(w, i) \/ VerifyItem(w, i) \/ GiveUpItem(w, i)

World == Forget \/ \E i \in Items : Correct(i)

(***************************************************************************)
(* Properties.                                                             *)
(***************************************************************************)
\* A detail that is kept or answered has the version of the score it stands beside: corrections
\* between the score list, the squad and the players' totals never mix (service.py:271-293).
DetailsReconcile ==
    \A e \in results \cup partial \cup {threads[t] : t \in Threads} :
        \A i \in Items : e.details[i] \in {0, e.key[i]}

\* The board of jobs is the one promised: one job of a key, at most MaxJobs, progress that never
\* goes back or beyond its total (service.py:51, 236-259, 294-296, 322-324).
Board == INSTANCE JobBoard WITH board <- jobs
Coalesced == Board!Spec

\* Every job on the board has its one thread, so none can occupy its place for ever
\* (service.py:254-258, 322-324).
JobsHaveWorkers ==
    /\ {w.key : w \in workers} = DOMAIN jobs
    /\ \A v, w \in workers : v.key = w.key => v = w
=============================================================================
