-------------------------- MODULE SeasonPageProofs --------------------------
(***************************************************************************)
(* What the season view shows of verified squads, the board of background  *)
(* jobs, and the statistics of the season, for any league, number of       *)
(* threads and of jobs.                                                    *)
(*                                                                         *)
(* The statistics are sums and places.  A sum over a finite set takes its  *)
(* elements in an order that CHOOSE picks; the lemmas on sums show that    *)
(* the order is immaterial, so that what is added up by squad can be added *)
(* up by player, by week or by manager as well.                            *)
(***************************************************************************)
EXTENDS SeasonPage, SeasonTables, FiniteSetTheorems, WellFoundedInduction, TLAPS

Vector == [Items -> Nat]

Request ==
    [pc : {"idle", "summary", "read", "lock", "reply"},
     kind : Sections \cup {"summary", "details"},
     for : {"nobody", "open", "poll", "sum", "view", "older"},
     key : Vector, details : Vector,
     status : {"none", "error", "plain", "detailed", "ready", "loading", "busy"},
     polls : BOOLEAN]

Entry == [key : Vector, details : Vector]

Worker ==
    [key : Vector, pc : {"begin", "work", "assemble", "end"}, crashed : BOOLEAN,
     squad : Vector, details : Vector, done : SUBSET Items]

\* What is verified has the version of the score it belongs to.
Matching(e) == \A i \in Items : e.details[i] \in {0, e.key[i]}

\* A request that has not been given its summary holds no details.
RequestsOK(pool) ==
    /\ pool \in [Threads -> Request]
    /\ \A t \in Threads : Matching(pool[t]) /\ (pool[t].pc = "summary" => pool[t].details = None)

ServiceOK ==
    /\ official \in Vector /\ scores \in Vector /\ picks \in Vector /\ live \in Vector
    /\ summaries \subseteq Vector
    /\ results \subseteq Entry /\ partial \subseteq Entry
    /\ \A e \in results \cup partial : Matching(e)
    /\ workers \subseteq Worker
    /\ \A w \in workers : Matching(w)

VersionsInv == ServiceOK /\ RequestsOK(threads) /\ section \in Sections \cup {"summary"}

-----------------------------------------------------------------------------
(* The pool of requests.                                                   *)

LEMMA NoneIsVector == None \in Vector
BY DEF None, Vector

LEMMA IdleIsRequest == Idle \in Request /\ Matching(Idle)
BY NoneIsVector DEF Idle, Request, Matching, None

\* A request is made, or its thread freed.
LEMMA AskedOK ==
    ASSUME NEW pool, RequestsOK(pool), NEW t \in Threads,
           NEW kind \in Sections \cup {"summary", "details"},
           NEW for \in {"nobody", "open", "poll", "sum", "view", "older"}, NEW polls \in BOOLEAN
    PROVE  RequestsOK(Asked(pool, t, kind, for, polls))
<1> DEFINE x == [Idle EXCEPT !.pc = "summary", !.kind = kind, !.for = for, !.polls = polls]
<1>1. x \in Request /\ x.details = None /\ x.key = None
  BY NoneIsVector DEF Idle, Request
<1>2. Matching(x)
  BY <1>1 DEF Matching, None
<1>3. Asked(pool, t, kind, for, polls) = [pool EXCEPT ![t] = x]
  BY DEF Asked
<1> HIDE DEF x
<1> QED
  BY <1>1, <1>2, <1>3 DEF RequestsOK

LEMMA FreedOK ==
    ASSUME RequestsOK(threads), NEW t \in Threads
    PROVE  RequestsOK(Freed(t))
<1>1. Idle.pc = "idle"
  BY DEF Idle
<1> QED
  BY <1>1, IdleIsRequest DEF RequestsOK, Freed

\* What is done to requests by the page does not touch what they hold.
LEMMA SameHeld ==
    ASSUME NEW pool, RequestsOK(pool), NEW next, next \in [Threads -> Request],
           \A t \in Threads : next[t].key = pool[t].key /\ next[t].details = pool[t].details
                              /\ next[t].pc = pool[t].pc
    PROVE  RequestsOK(next)
BY DEF RequestsOK, Matching

LEMMA AbortedOK ==
    ASSUME RequestsOK(threads)
    PROVE  RequestsOK(Aborted)
<1>1. ASSUME NEW t \in Threads
      PROVE  /\ [threads[t] EXCEPT !.for = "nobody", !.polls = FALSE] \in Request
             /\ [threads[t] EXCEPT !.for = "nobody", !.polls = FALSE].key = threads[t].key
             /\ [threads[t] EXCEPT !.for = "nobody", !.polls = FALSE].details = threads[t].details
             /\ [threads[t] EXCEPT !.for = "nobody", !.polls = FALSE].pc = threads[t].pc
  <2>1. threads[t] \in Request
    BY DEF RequestsOK
  <2> QED
    BY <2>1 DEF Request
<1> QED
  BY <1>1, SameHeld DEF Aborted

LEMMA SupersededOK ==
    ASSUME NEW pool, RequestsOK(pool)
    PROVE  RequestsOK(Superseded(pool))
<1>1. ASSUME NEW t \in Threads
      PROVE  /\ [pool[t] EXCEPT !.for = "older"] \in Request
             /\ [pool[t] EXCEPT !.for = "older"].key = pool[t].key
             /\ [pool[t] EXCEPT !.for = "older"].details = pool[t].details
             /\ [pool[t] EXCEPT !.for = "older"].pc = pool[t].pc
             /\ pool[t] \in Request
  <2>1. pool[t] \in Request
    BY DEF RequestsOK
  <2> QED
    BY <2>1 DEF Request
<1> QED
  BY <1>1, SameHeld DEF Superseded

LEMMA SelectSectionOK ==
    ASSUME NEW s \in Sections \cup {"summary"}, NEW t \in Threads, NEW pool, RequestsOK(pool),
           NEW now, NEW cache, NEW polls \in BOOLEAN,
           SelectSection(s, t, pool, now, cache, polls)
    PROVE  RequestsOK(threads') /\ section' = s
<1>1. RequestsOK(Superseded(pool))
  BY SupersededOK
<1>2. RequestsOK(Asked(Superseded(pool), t, s, "view", polls))
  BY <1>1, AskedOK
<1> QED
  BY <1>1, <1>2 DEF SelectSection

-----------------------------------------------------------------------------
(* A step of the page or its reader.                                       *)

ServerUntouched == UNCHANGED <<official, caches, served, jobs, workers>>
SectionOK == section \in Sections \cup {"summary"}

LEMMA PageStep ==
    ASSUME RequestsOK(threads), SectionOK, Page \/ Reader
    PROVE  ServerUntouched /\ RequestsOK(threads)' /\ SectionOK'
<1> USE DEF ServerUntouched, SectionOK
<1>1. ASSUME NEW t \in Threads PROVE RequestsOK(Freed(t))
  BY FreedOK
<1>2. ASSUME NEW t \in Threads, NEW s \in Sections \cup {"summary"}, NEW fresh \in BOOLEAN, Open(t, fresh, s)
      PROVE  ServerUntouched /\ RequestsOK(threads)' /\ SectionOK'
  <2>1. ServerUntouched
    BY <1>2 DEF Open
  <2>2. RequestsOK(Asked(Aborted, t, "summary", "open", FALSE))
    BY AbortedOK, AskedOK
  <2>3. CASE SelectSection(s, t, Aborted, summary', kept, TRUE)
    <3>1. RequestsOK(threads') /\ section' = s
      BY <2>3, AbortedOK, SelectSectionOK
    <3> QED
      BY <2>1, <3>1 DEF RequestsOK
  <2>4. CASE section' = s /\ threads' = Asked(Aborted, t, "summary", "open", FALSE)
    BY <2>1, <2>2, <2>4 DEF RequestsOK
  <2> QED
    BY <1>2, <2>3, <2>4 DEF Open
<1>3. CASE Leave
  <2>1. threads' = Aborted /\ section' = section /\ ServerUntouched
    BY <1>3 DEF Leave
  <2> QED
    BY <2>1, AbortedOK DEF RequestsOK
<1>4. ASSUME NEW t \in Threads, NEW s \in Sections \cup {"summary"}, Choose(t, s)
      PROVE  ServerUntouched /\ RequestsOK(threads)' /\ SectionOK'
  <2>1. ServerUntouched
    BY <1>4 DEF Choose
  <2>2. CASE SelectSection(s, t, threads, summary, kept, FALSE)
    <3>1. RequestsOK(threads') /\ section' = s
      BY <2>2, SelectSectionOK
    <3> QED
      BY <2>1, <3>1 DEF RequestsOK
  <2>3. CASE section' = s /\ threads' = Superseded(threads)
    BY <2>1, <2>3, SupersededOK DEF RequestsOK
  <2> QED
    BY <1>4, <2>2, <2>3 DEF Choose
<1>5. CASE Recheck \/ PageForgets
  BY <1>5 DEF Recheck, PageForgets, RequestsOK
<1>6. ASSUME NEW t \in Threads, Stranger(t) \/ PollDetails(t)
      PROVE  ServerUntouched /\ RequestsOK(threads)' /\ SectionOK'
  <2>1. RequestsOK(Asked(threads, t, "details", "nobody", FALSE)) /\ RequestsOK(Asked(threads, t, "details", "poll", FALSE))
    BY AskedOK
  <2>2. /\ ServerUntouched /\ section' = section
        /\ \/ threads' = Asked(threads, t, "details", "nobody", FALSE)
           \/ threads' = Asked(threads, t, "details", "poll", FALSE)
    BY <1>6 DEF Stranger, PollDetails, pageVars
  <2> QED
    BY <2>1, <2>2 DEF RequestsOK
<1>7. ASSUME NEW t \in Threads, Unheard(t) \/ SectionCame(t)
      PROVE  ServerUntouched /\ RequestsOK(threads)' /\ SectionOK'
  <2>1. threads' = Freed(t) /\ ServerUntouched /\ section' = section
    BY <1>7 DEF Unheard, SectionCame, Replied, pageVars
  <2> QED
    BY <1>1, <2>1 DEF RequestsOK
<1>8. ASSUME NEW t \in Threads, SummaryCame(t) \/ FreshSummaryCame(t)
      PROVE  ServerUntouched /\ RequestsOK(threads)' /\ SectionOK'
  <2>1. ServerUntouched
    BY <1>8 DEF SummaryCame, FreshSummaryCame, Replied
  <2>2. \/ SelectSection(section, t, Freed(t), summary', kept', TRUE)
        \/ SelectSection(section, t, Freed(t), summary', kept', FALSE)
    BY <1>8 DEF SummaryCame, FreshSummaryCame
  <2>3. RequestsOK(threads') /\ section' = section
    BY <1>1, <2>2, SelectSectionOK
  <2> QED
    BY <2>1, <2>3 DEF RequestsOK
<1>9. ASSUME NEW t \in Threads, StatusCame(t)
      PROVE  ServerUntouched /\ RequestsOK(threads)' /\ SectionOK'
  <2>1. ServerUntouched /\ section' = section
    BY <1>9 DEF StatusCame, Replied
  <2>2. threads' = Freed(t) \/ threads' = Asked(threads, t, "summary", "sum", FALSE)
    BY <1>9 DEF StatusCame
  <2>3. RequestsOK(Asked(threads, t, "summary", "sum", FALSE))
    BY AskedOK
  <2> QED
    BY <1>1, <2>1, <2>2, <2>3 DEF RequestsOK
<1>10. ASSUME NEW t \in Threads, RequestFails(t)
       PROVE  ServerUntouched /\ RequestsOK(threads)' /\ SectionOK'
  <2> DEFINE cut == [threads EXCEPT ![t].for = "nobody", ![t].polls = FALSE]
  <2>1. ServerUntouched /\ section' = section
    BY <1>10 DEF RequestFails
  <2>2. threads' = Freed(t) \/ threads' = cut
    BY <1>10 DEF RequestFails
  <2>3. threads \in [Threads -> Request]
    BY DEF RequestsOK
  <2>4. /\ cut \in [Threads -> Request]
        /\ \A u \in Threads : cut[u].key = threads[u].key /\ cut[u].details = threads[u].details
                                /\ cut[u].pc = threads[u].pc
    <3> DEFINE x == [threads[t] EXCEPT !.for = "nobody", !.polls = FALSE]
    <3>1. threads[t] \in Request
      BY <2>3
    <3>2. x \in Request /\ x.key = threads[t].key /\ x.details = threads[t].details /\ x.pc = threads[t].pc
      BY <3>1 DEF Request
    <3>3. cut = [threads EXCEPT ![t] = x]
      BY <2>3
    <3> HIDE DEF x, cut
    <3> QED
      BY <2>3, <3>2, <3>3
  <2>5. RequestsOK(cut)
    BY <2>4, SameHeld
  <2> HIDE DEF cut
  <2> QED
    BY <1>1, <2>1, <2>2, <2>5 DEF RequestsOK
<1> QED
  BY <1>2, <1>3, <1>4, <1>5, <1>6, <1>7, <1>8, <1>9, <1>10 DEF Page, Reader, Answered

-----------------------------------------------------------------------------
(* A step of the service.                                                  *)

LEMMA UpdatedOK ==
    ASSUME RequestsOK(threads), NEW t \in Threads, NEW x \in Request, Matching(x), x.pc # "summary"
    PROVE  RequestsOK([threads EXCEPT ![t] = x])
BY DEF RequestsOK

\* A thread serves its request, and the caches of scores and summaries stay well-formed.
LEMMA ServeStep ==
    ASSUME VersionsInv, NEW t \in Threads, Serve(t)
    PROVE  /\ UNCHANGED <<official, picks, live, served>>
           /\ scores' \in Vector /\ summaries' \subseteq Vector /\ RequestsOK(threads')
<1>1. threads[t] \in Request /\ Matching(threads[t]) /\ threads \in [Threads -> Request]
  BY DEF VersionsInv, RequestsOK
<1>2. CASE Summarise(t)
  <2>1. PICK key \in IF summaries # {} THEN summaries ELSE Lists :
          /\ summaries' = {key}
          /\ scores' = IF summaries # {} THEN scores
                       ELSE [i \in Items |-> IF key[i] # 0 THEN key[i] ELSE scores[i]]
          /\ threads' = [threads EXCEPT ![t].key = key, ![t].pc = "read"]
    BY <1>2 DEF Summarise
  <2>2. key \in Vector
    BY DEF VersionsInv, ServiceOK, Lists, Keys, Versions, Vector
  <2>3. scores' \in Vector
    BY <2>1, <2>2 DEF VersionsInv, ServiceOK, Vector
  <2> DEFINE x == [threads[t] EXCEPT !.key = key, !.pc = "read"]
  <2>4. threads[t].details = None
    BY <1>2 DEF Summarise, VersionsInv, RequestsOK
  <2>5. x \in Request /\ x.key = key /\ x.details = None /\ x.pc = "read"
    BY <1>1, <2>2, <2>4 DEF Request
  <2>6. Matching(x)
    BY <2>5 DEF Matching, None
  <2>7. threads' = [threads EXCEPT ![t] = x]
    BY <2>1, <1>1
  <2> HIDE DEF x
  <2>8. RequestsOK(threads')
    BY <2>5, <2>6, <2>7, UpdatedOK DEF VersionsInv
  <2> QED
    BY <1>2, <2>1, <2>2, <2>3, <2>8 DEF Summarise
<1>3. ASSUME NEW status \in {"error", "ready", "loading", "busy"},
             threads' = [threads EXCEPT ![t].pc = "reply", ![t].status = status]
      PROVE  RequestsOK(threads')
  <2> DEFINE x == [threads[t] EXCEPT !.pc = "reply", !.status = status]
  <2>1. x \in Request /\ x.key = threads[t].key /\ x.details = threads[t].details /\ x.pc = "reply"
    BY <1>1 DEF Request
  <2>2. Matching(x)
    BY <1>1, <2>1 DEF Matching
  <2>3. threads' = [threads EXCEPT ![t] = x]
    BY <1>1, <1>3
  <2> HIDE DEF x
  <2> QED
    BY <2>1, <2>2, <2>3, UpdatedOK DEF VersionsInv
<1>4. CASE SummaryFails(t)
  BY <1>3, <1>4 DEF SummaryFails, caches, VersionsInv, ServiceOK
<1>5. CASE ReadSection(t)
  <2> DEFINE answer == Section(threads[t].key)
  <2> DEFINE x == [threads[t] EXCEPT !.pc = "reply", !.details = answer.details, !.status = answer.status]
  <2>1. /\ answer.details \in Vector /\ answer.status \in {"plain", "detailed"}
        /\ \A i \in Items : answer.details[i] \in {0, threads[t].key[i]}
    <3>1. CASE Enriched(threads[t].key) = {}
      BY <3>1, NoneIsVector DEF Section, None
    <3>2. CASE Enriched(threads[t].key) # {}
      <4> DEFINE e == CHOOSE e \in Enriched(threads[t].key) : TRUE
      <4>1. e \in Enriched(threads[t].key)
        BY <3>2
      <4>2. e \in results \cup partial /\ e.key = threads[t].key
        BY <4>1 DEF Enriched, Entries
      <4>3. e.details \in Vector /\ Matching(e)
        BY <4>2 DEF VersionsInv, ServiceOK, Entry
      <4>4. answer = [details |-> e.details, status |-> "detailed"]
        BY <3>2 DEF Section
      <4> HIDE DEF e, answer
      <4> QED
        BY <4>2, <4>3, <4>4 DEF Matching
    <3> QED
      BY <3>1, <3>2
  <2>2. threads' = [threads EXCEPT ![t] = x]
    BY <1>1, <1>5 DEF ReadSection
  <2> HIDE DEF answer
  <2>3. x \in Request /\ x.key = threads[t].key /\ x.details = answer.details /\ x.pc = "reply"
    BY <1>1, <2>1 DEF Request
  <2>4. Matching(x)
    BY <2>1, <2>3 DEF Matching
  <2> HIDE DEF x
  <2>5. RequestsOK(threads')
    BY <2>2, <2>3, <2>4, UpdatedOK DEF VersionsInv
  <2> QED
    BY <1>5, <2>5 DEF ReadSection, caches, VersionsInv, ServiceOK
<1>6. CASE ReadStatus(t)
  <2>1. CASE threads' = [threads EXCEPT ![t].pc = "reply", ![t].status = "ready"]
    BY <1>3, <1>6, <2>1 DEF ReadStatus, caches, VersionsInv, ServiceOK
  <2>2. CASE threads' = [threads EXCEPT ![t].pc = "lock"]
    <3> DEFINE x == [threads[t] EXCEPT !.pc = "lock"]
    <3>1. x \in Request /\ x.key = threads[t].key /\ x.details = threads[t].details /\ x.pc = "lock"
      BY <1>1 DEF Request
    <3>2. Matching(x)
      BY <1>1, <3>1 DEF Matching
    <3>3. threads' = [threads EXCEPT ![t] = x]
      BY <1>1, <2>2
    <3> HIDE DEF x
    <3>4. RequestsOK(threads')
      BY <3>1, <3>2, <3>3, UpdatedOK DEF VersionsInv
    <3> QED
      BY <1>6, <3>4 DEF ReadStatus, caches, VersionsInv, ServiceOK
  <2> QED
    BY <1>6, <2>1, <2>2 DEF ReadStatus
<1>7. CASE StartOrWait(t)
  <2>1. \/ threads' = [threads EXCEPT ![t].pc = "reply", ![t].status = "loading"]
        \/ threads' = [threads EXCEPT ![t].pc = "reply", ![t].status = "busy"]
    BY <1>7 DEF StartOrWait
  <2>2. RequestsOK(threads')
    BY <1>3, <2>1
  <2> QED
    BY <1>7, <2>2 DEF StartOrWait, caches, VersionsInv, ServiceOK
<1> QED
  BY <1>2, <1>4, <1>5, <1>6, <1>7 DEF Serve

-----------------------------------------------------------------------------
(* The board of jobs.                                                      *)

\* Every job has its one thread, and says how much of its work is done.
BoardInv ==
    /\ IsFiniteSet(DOMAIN jobs)
    /\ jobs = [k \in DOMAIN jobs |-> jobs[k]]
    /\ DOMAIN jobs = {w.key : w \in workers}
    /\ \A v, w \in workers : v.key = w.key => v = w
    /\ \A w \in workers :
          /\ w.done \subseteq Scored(w.key)
          /\ jobs[w.key] = [done |-> Cardinality(w.done), total |-> Cardinality(Scored(w.key))]

LEMMA ScoredFinite ==
    ASSUME NEW key
    PROVE  IsFiniteSet(Scored(key)) /\ Cardinality(Scored(key)) \in Nat
BY SeasonAssumption, FS_Subset, FS_CardinalityType DEF Scored

\* A thread goes on with its job; nothing more is done.
LEMMA Replaced ==
    ASSUME BoardInv, NEW w \in workers, NEW v, v.key = w.key, v.done = w.done,
           Replace(w, v), jobs' = jobs
    PROVE  BoardInv'
<1>1. workers' = (workers \ {w}) \cup {v}
  BY DEF Replace
<1>2. {u.key : u \in workers'} = {u.key : u \in workers}
  BY <1>1
<1>3. \A u \in workers' : \A x \in workers' : u.key = x.key => u = x
  BY <1>1 DEF BoardInv
<1>4. \A u \in workers' :
          /\ u.done \subseteq Scored(u.key)
          /\ jobs[u.key] = [done |-> Cardinality(u.done), total |-> Cardinality(Scored(u.key))]
  BY <1>1 DEF BoardInv
<1> QED
  BY <1>2, <1>3, <1>4 DEF BoardInv, Scored

\* One item more is done.
LEMMA AdvanceStep ==
    ASSUME BoardInv, NEW w \in workers, NEW v, NEW i \in Scored(w.key) \ w.done,
           v.key = w.key, v.done = w.done \cup {i}, Replace(w, v), Advanced(w)
    PROVE  BoardInv' /\ Board!Next
<1>1. workers' = (workers \ {w}) \cup {v} /\ jobs' = [jobs EXCEPT ![w.key].done = @ + 1]
  BY DEF Replace, Advanced
<1>2. /\ w.key \in DOMAIN jobs /\ w.done \subseteq Scored(w.key)
      /\ jobs[w.key] = [done |-> Cardinality(w.done), total |-> Cardinality(Scored(w.key))]
  BY DEF BoardInv
<1>3. IsFiniteSet(w.done) /\ Cardinality(w.done) \in Nat
  BY <1>2, ScoredFinite, FS_Subset, FS_CardinalityType
<1>4. Cardinality(v.done) = Cardinality(w.done) + 1 /\ IsFiniteSet(v.done) /\ v.done \subseteq Scored(w.key)
  BY <1>2, <1>3, FS_AddElement
<1>5. Cardinality(v.done) <= Cardinality(Scored(w.key))
  BY <1>4, ScoredFinite, FS_Subset
<1>6. jobs[w.key].done < jobs[w.key].total
  BY <1>2, <1>3, <1>4, <1>5, ScoredFinite
<1>7. Board!Next
  BY <1>1, <1>2, <1>6 DEF Board!Next, Board!Advance
<1>8. DOMAIN jobs' = DOMAIN jobs
  BY <1>1
<1>9. jobs'[w.key] = [done |-> Cardinality(v.done), total |-> Cardinality(Scored(v.key))]
  BY <1>1, <1>2, <1>4
<1>10. \A k \in DOMAIN jobs \ {w.key} : jobs'[k] = jobs[k]
  BY <1>1
<1>11. {u.key : u \in workers'} = {u.key : u \in workers}
  BY <1>1
<1>12. \A u \in workers' : \A x \in workers' : u.key = x.key => u = x
  BY <1>1 DEF BoardInv
<1>13. \A u \in workers' :
          /\ u.done \subseteq Scored(u.key)
          /\ jobs'[u.key] = [done |-> Cardinality(u.done), total |-> Cardinality(Scored(u.key))]
  <2> SUFFICES ASSUME NEW u \in workers'
               PROVE  /\ u.done \subseteq Scored(u.key)
                      /\ jobs'[u.key] = [done |-> Cardinality(u.done), total |-> Cardinality(Scored(u.key))]
    OBVIOUS
  <2>1. CASE u = v
    BY <2>1, <1>4, <1>9
  <2>2. CASE u # v
    <3>1. u \in workers /\ u # w
      BY <2>2, <1>1
    <3>2. u.key # w.key /\ u.key \in DOMAIN jobs
      BY <3>1 DEF BoardInv
    <3> QED
      BY <3>1, <3>2, <1>10 DEF BoardInv
  <2> QED
    BY <2>1, <2>2
<1>14. jobs' = [k \in DOMAIN jobs' |-> jobs'[k]]
  BY <1>1
<1> QED
  BY <1>7, <1>8, <1>11, <1>12, <1>13, <1>14 DEF BoardInv, Scored

\* A job that is not on the board, which has room, is opened with its thread.
LEMMA OpenStep ==
    ASSUME BoardInv, NEW key, ~Known(key), ~Busy,
           jobs' = Opened(key), workers' = workers \cup {NewJob(key)}
    PROVE  BoardInv' /\ Board!Next
<1> DEFINE entry == [done |-> 0, total |-> Cardinality(Scored(key))]
<1>1. jobs' = [k \in DOMAIN jobs \cup {key} |-> IF k = key THEN entry ELSE jobs[k]]
  BY DEF Opened
<1>2. key \notin DOMAIN jobs /\ Cardinality(DOMAIN jobs) \in Nat /\ ~(Cardinality(DOMAIN jobs) >= MaxJobs)
  BY FS_CardinalityType DEF Known, Busy, BoardInv
<1>3. Cardinality(DOMAIN jobs) < MaxJobs
  BY <1>2, SeasonAssumption
<1>4. DOMAIN jobs' = DOMAIN jobs \cup {key} /\ jobs'[key] = entry
      /\ \A k \in DOMAIN jobs : jobs'[k] = jobs[k]
  BY <1>1, <1>2
<1>5. Board!Open
  <2>1. key \in DOMAIN jobs' \ DOMAIN jobs
    BY <1>2, <1>4
  <2>2. jobs'[key].done = 0 /\ jobs'[key].total \in Nat
    BY <1>4, ScoredFinite
  <2>3. jobs' = [j \in DOMAIN jobs \cup {key} |-> IF j = key THEN jobs'[key] ELSE jobs[j]]
    BY <1>1, <1>4
  <2>4. Board!Cardinality(DOMAIN jobs) = Cardinality(DOMAIN jobs)
    BY DEF Cardinality, Board!Cardinality
  <2> QED
    BY <2>1, <2>2, <2>3, <2>4, <1>3 DEF Board!Open
<1>6. NewJob(key).key = key /\ NewJob(key).done = {}
  BY DEF NewJob
<1>7. IsFiniteSet(DOMAIN jobs')
  <2>1. IsFiniteSet(DOMAIN jobs)
    BY DEF BoardInv
  <2>2. IsFiniteSet(DOMAIN jobs \cup {key})
    BY <2>1, FS_AddElement
  <2> QED
    BY <2>2, <1>4
<1>8. {w.key : w \in workers'} = {w.key : w \in workers} \cup {key}
  BY <1>6
<1>9. \A w \in workers : w.key # key
  BY <1>2 DEF BoardInv
<1>10. \A v \in workers' : \A w \in workers' : v.key = w.key => v = w
  BY <1>6, <1>9 DEF BoardInv
<1>11. \A w \in workers' :
          /\ w.done \subseteq Scored(w.key)
          /\ jobs'[w.key] = [done |-> Cardinality(w.done), total |-> Cardinality(Scored(w.key))]
  <2>1. \A w \in workers :
          /\ w.done \subseteq Scored(w.key)
          /\ jobs'[w.key] = [done |-> Cardinality(w.done), total |-> Cardinality(Scored(w.key))]
    BY <1>4 DEF BoardInv
  <2>2. Cardinality({}) = 0
    BY FS_EmptySet
  <2> QED
    BY <2>1, <2>2, <1>4, <1>6
<1>12. jobs' = [k \in DOMAIN jobs' |-> jobs'[k]]
  BY <1>1
<1>13. DOMAIN jobs' = {w.key : w \in workers'}
  BY <1>4, <1>8 DEF BoardInv
<1> QED
  BY <1>5, <1>7, <1>10, <1>11, <1>12, <1>13 DEF BoardInv, Scored, Board!Next

\* A thread ends, and its job leaves the board.
LEMMA CloseStep ==
    ASSUME BoardInv, NEW w \in workers, EndJob(w)
    PROVE  BoardInv' /\ Board!Next
<1>1. workers' = workers \ {w} /\ jobs' = [k \in DOMAIN jobs \ {w.key} |-> jobs[k]]
  BY DEF EndJob
<1>2. w.key \in DOMAIN jobs
  BY DEF BoardInv
<1>3. Board!Next
  BY <1>1, <1>2 DEF Board!Next, Board!Close
<1>4. IsFiniteSet(DOMAIN jobs')
  BY <1>1, FS_Subset DEF BoardInv
<1>5. \A u \in workers' : u \in workers /\ u.key # w.key /\ u.key \in DOMAIN jobs'
  BY <1>1 DEF BoardInv
<1>6. DOMAIN jobs' = {u.key : u \in workers'}
  BY <1>1, <1>5 DEF BoardInv
<1>7. \A u \in workers' : jobs'[u.key] = jobs[u.key]
  BY <1>1, <1>5
<1>8. jobs' = [k \in DOMAIN jobs' |-> jobs'[k]]
  BY <1>1
<1> QED
  BY <1>3, <1>4, <1>5, <1>6, <1>7, <1>8 DEF BoardInv, Scored

-----------------------------------------------------------------------------
(* Both invariants through every step.                                     *)

LEMMA VectorUpdate ==
    ASSUME NEW v \in Vector, NEW i \in Items, NEW n \in Nat
    PROVE  [v EXCEPT ![i] = n] \in Vector
BY DEF Vector

\* A thread of a job with v in its place keeps the service's data well-formed.
LEMMA WorkerReplaced ==
    ASSUME ServiceOK, NEW w \in workers, NEW v \in Worker, Matching(v), Replace(w, v)
    PROVE  workers' \subseteq Worker /\ \A u \in workers' : Matching(u)
BY DEF ServiceOK, Replace

LEMMA WorkStep ==
    ASSUME VersionsInv, BoardInv, NEW w \in workers, Work(w)
    PROVE  /\ ServiceOK' /\ UNCHANGED threads
           /\ BoardInv' /\ [Board!Next]_jobs
<1>1. ServiceOK /\ w \in Worker /\ Matching(w)
  BY DEF VersionsInv, ServiceOK
<1>2. CASE BeginJob(w)
  <2>1. PICK crashed \in BOOLEAN :
          Replace(w, [w EXCEPT !.pc = IF crashed THEN "assemble" ELSE "work", !.crashed = crashed])
    BY <1>2 DEF BeginJob
  <2> DEFINE v == [w EXCEPT !.pc = IF crashed THEN "assemble" ELSE "work", !.crashed = crashed]
  <2>2. v \in Worker /\ v.key = w.key /\ v.done = w.done /\ v.details = w.details
    BY <1>1 DEF Worker
  <2>3. Matching(v) /\ Replace(w, v)
    BY <1>1, <2>1, <2>2 DEF Matching
  <2>4. UNCHANGED <<official, scores, picks, live, summaries, results, partial, threads, jobs>>
    BY <1>2 DEF BeginJob, caches, served
  <2> HIDE DEF v
  <2>5. BoardInv'
    BY <2>2, <2>3, <2>4, Replaced
  <2> QED
    BY <1>1, <2>2, <2>3, <2>4, <2>5, WorkerReplaced DEF ServiceOK
<1>3. CASE Publish(w)
  <2> DEFINE v == [w EXCEPT !.pc = "end"]
  <2>1. v \in Worker /\ v.key = w.key /\ v.done = w.done /\ v.details = w.details
    BY <1>1 DEF Worker
  <2>2. Matching(v) /\ Replace(w, v)
    BY <1>1, <1>3, <2>1 DEF Matching, Publish
  <2>3. UNCHANGED <<official, scores, picks, live, summaries, threads, jobs>>
    BY <1>3 DEF Publish, caches
  <2>4. Verified(w) \in Entry /\ Matching(Verified(w))
    <3>1. w.key \in Vector /\ w.details \in Vector
      BY <1>1 DEF Worker
    <3>2. CASE w.crashed
      BY <3>1, <3>2, NoneIsVector DEF Verified, Entry, Matching, None
    <3>3. CASE ~w.crashed
      BY <1>1, <3>1, <3>3 DEF Verified, Entry, Matching
    <3> QED
      BY <3>2, <3>3
  <2>5. /\ results' \subseteq results \cup {Verified(w)}
        /\ partial' \subseteq partial \cup {Verified(w)}
    BY <1>3 DEF Publish, Put
  <2> HIDE DEF v
  <2>6. BoardInv'
    BY <2>1, <2>2, <2>3, Replaced
  <2>7. results' \subseteq Entry /\ partial' \subseteq Entry /\ \A e \in results' \cup partial' : Matching(e)
    BY <1>1, <2>4, <2>5 DEF ServiceOK
  <2> QED
    BY <1>1, <2>1, <2>2, <2>3, <2>6, <2>7, WorkerReplaced DEF ServiceOK
<1>4. CASE EndJob(w)
  <2>1. UNCHANGED <<official, scores, picks, live, summaries, results, partial, threads>> /\ workers' \subseteq workers
    BY <1>4 DEF EndJob, caches, served
  <2>2. BoardInv' /\ Board!Next
    BY <1>4, CloseStep
  <2> QED
    BY <1>1, <2>1, <2>2 DEF ServiceOK
<1>5. ASSUME NEW i \in Items, FetchSquad(w, i)
      PROVE  ServiceOK' /\ UNCHANGED threads /\ BoardInv' /\ [Board!Next]_jobs
  <2>1. UNCHANGED <<official, scores, live, summaries, results, partial, threads, jobs>>
    BY <1>5 DEF FetchSquad, served
  <2>2. Fetched(picks[i], official[i]) \in Nat
    BY <1>1 DEF ServiceOK, Vector, Fetched
  <2>3. picks' \in Vector /\ picks'[i] \in Nat
    BY <1>1, <1>5, <2>2, VectorUpdate DEF FetchSquad, ServiceOK, Vector
  <2> DEFINE v == [w EXCEPT !.squad[i] = picks'[i]]
  <2>4. v \in Worker /\ v.key = w.key /\ v.done = w.done /\ v.details = w.details
    BY <1>1, <2>3 DEF Worker, Vector
  <2>5. Matching(v) /\ Replace(w, v)
    BY <1>1, <1>5, <2>4 DEF Matching, FetchSquad
  <2> HIDE DEF v
  <2>6. BoardInv'
    BY <2>1, <2>4, <2>5, Replaced
  <2> QED
    BY <1>1, <2>1, <2>3, <2>4, <2>5, <2>6, WorkerReplaced DEF ServiceOK
<1>6. ASSUME NEW i \in Items, VerifyItem(w, i)
      PROVE  ServiceOK' /\ UNCHANGED threads /\ BoardInv' /\ [Board!Next]_jobs
  <2> DEFINE totals == IF live # None THEN live ELSE official
  <2> DEFINE n == IF Reconciles(w, i, totals) THEN w.squad[i] ELSE 0
  <2> DEFINE v == [w EXCEPT !.done = @ \cup {i}, !.details[i] = n]
  <2>1. /\ UNCHANGED <<official, scores, picks, summaries, results, partial, threads>>
        /\ live' = totals /\ Replace(w, v) /\ Advanced(w) /\ i \in Scored(w.key) \ w.done
    BY <1>6 DEF VerifyItem, served
  <2>2. live' \in Vector
    BY <1>1, <2>1 DEF ServiceOK
  <2>3. n \in {0, w.key[i]} /\ n \in Nat
    BY <1>1 DEF Reconciles, Worker, Vector
  <2> HIDE DEF n
  <2>4. /\ v \in Worker /\ v.key = w.key /\ v.done = w.done \cup {i}
        /\ v.details = [w.details EXCEPT ![i] = n]
    BY <1>1, <2>3 DEF Worker, Vector
  <2>5. w.details \in Vector
    BY <1>1 DEF Worker
  <2> HIDE DEF v, totals
  <2>6. Matching(v)
    BY <1>1, <2>3, <2>4, <2>5 DEF Matching, Vector
  <2>7. BoardInv' /\ Board!Next
    BY <2>1, <2>4, AdvanceStep
  <2> QED
    BY <1>1, <2>1, <2>2, <2>4, <2>6, <2>7, WorkerReplaced DEF ServiceOK
<1>7. ASSUME NEW i \in Items, GiveUpItem(w, i)
      PROVE  ServiceOK' /\ UNCHANGED threads /\ BoardInv' /\ [Board!Next]_jobs
  <2>1. PICK crashed \in {w.crashed, TRUE} :
          Replace(w, [w EXCEPT !.done = @ \cup {i}, !.crashed = crashed])
    BY <1>7 DEF GiveUpItem
  <2> DEFINE v == [w EXCEPT !.done = @ \cup {i}, !.crashed = crashed]
  <2>2. /\ UNCHANGED <<official, scores, picks, live, summaries, results, partial, threads>>
        /\ Advanced(w) /\ i \in Scored(w.key) \ w.done /\ Replace(w, v)
    BY <1>7, <2>1 DEF GiveUpItem, caches, served
  <2>3. w.crashed \in BOOLEAN /\ crashed \in BOOLEAN
    BY <1>1 DEF Worker
  <2>4. v \in Worker /\ v.key = w.key /\ v.done = w.done \cup {i} /\ v.details = w.details
    BY <1>1, <2>3 DEF Worker
  <2>5. Matching(v)
    BY <1>1, <2>4 DEF Matching
  <2> HIDE DEF v
  <2>6. BoardInv' /\ Board!Next
    BY <2>2, <2>4, AdvanceStep
  <2> QED
    BY <1>1, <2>2, <2>4, <2>5, <2>6, WorkerReplaced DEF ServiceOK
<1> QED
  BY <1>2, <1>3, <1>4, <1>5, <1>6, <1>7 DEF Work

\* Nothing happens to the jobs.
LEMMA BoardUntouched ==
    ASSUME BoardInv, UNCHANGED <<jobs, workers>>
    PROVE  BoardInv' /\ [Board!Next]_jobs
BY DEF BoardInv, Scored

LEMMA ServeBoard ==
    ASSUME VersionsInv, BoardInv, NEW t \in Threads, Serve(t)
    PROVE  /\ BoardInv' /\ [Board!Next]_jobs
           /\ workers' \subseteq Worker /\ \A w \in workers' : Matching(w)
<1>1. workers \subseteq Worker /\ \A w \in workers : Matching(w)
  BY DEF VersionsInv, ServiceOK
<1>2. CASE UNCHANGED <<jobs, workers>>
  BY <1>1, <1>2, BoardUntouched
<1>3. CASE StartOrWait(t) /\ ~UNCHANGED <<jobs, workers>>
  <2> DEFINE key == threads[t].key
  <2>1. ~Known(key) /\ ~Busy /\ jobs' = Opened(key) /\ workers' = workers \cup {NewJob(key)}
    BY <1>3 DEF StartOrWait
  <2>2. key \in Vector
    BY DEF VersionsInv, RequestsOK, Request
  <2> HIDE DEF key
  <2>3. BoardInv' /\ Board!Next
    BY <2>1, OpenStep
  <2>4. NewJob(key) \in Worker /\ Matching(NewJob(key))
    BY <2>2, NoneIsVector DEF NewJob, Worker, Matching, None
  <2> QED
    BY <1>1, <2>1, <2>3, <2>4
<1> QED
  BY <1>2, <1>3 DEF Serve, Summarise, SummaryFails, ReadSection, ReadStatus

LEMMA WorldStep ==
    ASSUME ServiceOK, World
    PROVE  ServiceOK' /\ UNCHANGED <<jobs, workers, threads>>
<1>1. ASSUME NEW i \in Items, Correct(i) PROVE ServiceOK' /\ UNCHANGED <<jobs, workers, threads>>
  <2>1. official' \in Vector
    BY <1>1 DEF Correct, ServiceOK, Vector
  <2> QED
    BY <1>1, <2>1 DEF Correct, ServiceOK, caches, served
<1>2. CASE Forget
  <2>1. UNCHANGED <<official, jobs, workers, threads>>
    BY <1>2 DEF Forget
  <2>2. scores' \in Vector /\ picks' \in Vector /\ live' \in Vector
    BY <1>2, VectorUpdate, NoneIsVector DEF Forget, ServiceOK, caches
  <2>3. summaries' \subseteq summaries /\ results' \subseteq results /\ partial' \subseteq partial
    BY <1>2 DEF Forget, caches, served
  <2> QED
    BY <2>1, <2>2, <2>3 DEF ServiceOK
<1> QED
  BY <1>1, <1>2 DEF World

LEMMA Step ==
    ASSUME VersionsInv, BoardInv, [Next]_vars
    PROVE  VersionsInv' /\ BoardInv' /\ [Board!Next]_jobs
<1>1. ServiceOK /\ RequestsOK(threads) /\ SectionOK
  BY DEF VersionsInv, SectionOK
<1>2. ASSUME NEW t \in Threads, Serve(t), UNCHANGED pageVars
      PROVE  VersionsInv' /\ BoardInv' /\ [Board!Next]_jobs
  <2>1. /\ UNCHANGED <<official, picks, live, results, partial>>
        /\ scores' \in Vector /\ summaries' \subseteq Vector /\ RequestsOK(threads')
    BY <1>2, ServeStep DEF served
  <2>2. /\ BoardInv' /\ [Board!Next]_jobs
        /\ workers' \subseteq Worker /\ \A w \in workers' : Matching(w)
    BY <1>2, ServeBoard
  <2>3. ServiceOK'
    BY <1>1, <2>1, <2>2 DEF ServiceOK
  <2> QED
    BY <1>1, <1>2, <2>1, <2>2, <2>3 DEF VersionsInv, RequestsOK, SectionOK, pageVars
<1>3. ASSUME NEW w \in workers, Work(w), UNCHANGED pageVars
      PROVE  VersionsInv' /\ BoardInv' /\ [Board!Next]_jobs
  <2>1. ServiceOK' /\ threads' = threads /\ BoardInv' /\ [Board!Next]_jobs
    BY <1>3, WorkStep
  <2> QED
    BY <1>1, <1>3, <2>1 DEF VersionsInv, RequestsOK, SectionOK, pageVars
<1>4. CASE World /\ UNCHANGED pageVars
  <2>1. ServiceOK' /\ UNCHANGED <<jobs, workers, threads>>
    BY <1>1, <1>4, WorldStep
  <2>2. BoardInv' /\ [Board!Next]_jobs
    BY <2>1, BoardUntouched
  <2> QED
    BY <1>1, <1>4, <2>1, <2>2 DEF VersionsInv, RequestsOK, SectionOK, pageVars
<1>5. CASE Page \/ Reader
  <2>1. ServerUntouched /\ RequestsOK(threads)' /\ SectionOK'
    BY <1>1, <1>5, PageStep
  <2>2. ServiceOK'
    BY <1>1, <2>1 DEF ServerUntouched, ServiceOK, caches, served
  <2>3. BoardInv' /\ [Board!Next]_jobs
    BY <2>1, BoardUntouched DEF ServerUntouched
  <2> QED
    BY <2>1, <2>2, <2>3 DEF VersionsInv, SectionOK
<1>6. CASE UNCHANGED vars
  <2>1. UNCHANGED <<official, scores, picks, live, summaries, results, partial, jobs, workers, threads, section>>
    BY <1>6 DEF vars, serviceVars, caches, served, pageVars
  <2>2. BoardInv' /\ [Board!Next]_jobs
    BY <2>1, BoardUntouched
  <2> QED
    BY <1>1, <2>1, <2>2 DEF VersionsInv, ServiceOK, RequestsOK, SectionOK
<1> QED
  BY <1>2, <1>3, <1>4, <1>5, <1>6 DEF Next, Service

-----------------------------------------------------------------------------
(* What is drawn.                                                          *)

\* Requests the drawing waits for.
Drawing == {"view", "open"}

\* The answer that will be drawn is of the section selected, and no idle thread owes one.
AwaitedOK(pool, s) ==
    \A t \in Threads : /\ pool[t].pc = "idle" => pool[t].for \notin Drawing
                       /\ pool[t].for = "view" => pool[t].kind = s

DrawnInv == AwaitedOK(threads, section) /\ ShownIsSelected

\* A step that leaves the drawing and what it waits for alone.
LEMMA QuietStep ==
    ASSUME DrawnInv, UNCHANGED <<phase, summary, section, content>>,
           \A u \in Threads :
              \/ /\ threads'[u].for = threads[u].for /\ threads'[u].kind = threads[u].kind
                 /\ threads'[u].pc = "idle" => threads[u].pc = "idle"
              \/ threads[u].for \notin Drawing /\ threads'[u].for \notin Drawing
    PROVE  DrawnInv'
<1>1. AwaitedOK(threads, section)'
  BY DEF DrawnInv, AwaitedOK, Drawing
<1>2. \A u \in Threads : threads[u].for \in {"view", "open"} => threads'[u].for \in {"view", "open"}
  BY DEF Drawing
<1>3. ShownIsSelected'
  BY <1>2 DEF DrawnInv, ShownIsSelected
<1> QED
  BY <1>1, <1>3 DEF DrawnInv

\* The selection of a section draws it or asks for it; earlier selections no longer count.
LEMMA SelectionDrawn ==
    ASSUME NEW s, NEW t \in Threads, NEW pool, RequestsOK(pool),
           \A u \in Threads : pool[u].pc = "idle" => pool[u].for \notin Drawing,
           NEW now, now # {}, NEW cache, NEW polls, SelectSection(s, t, pool, now, cache, polls)
    PROVE  /\ section' = s /\ AwaitedOK(threads', s)
           /\ content'.of \in {s, "loading", "error"}
           /\ content' = Loading => \E u \in Threads : threads'[u].for \in {"view", "open"}
<1> DEFINE next == Superseded(pool)
           x == [Idle EXCEPT !.pc = "summary", !.kind = s, !.for = "view", !.polls = polls]
<1>1. section' = s
  BY DEF SelectSection
<1>2. next \in [Threads -> Request] /\ DOMAIN next = Threads
  BY SupersededOK DEF RequestsOK
<1>3. ASSUME NEW u \in Threads
      PROVE  next[u].for # "view" /\ (next[u].pc = "idle" => next[u].for \notin Drawing)
  <2>1. pool[u] \in Request
    BY DEF RequestsOK
  <2>2. next[u] = IF pool[u].for = "view" THEN [pool[u] EXCEPT !.for = "older"] ELSE pool[u]
    BY DEF Superseded
  <2>3. next[u].pc = pool[u].pc /\ next[u].for = (IF pool[u].for = "view" THEN "older" ELSE pool[u].for)
    BY <2>1, <2>2 DEF Request
  <2> QED
    BY <2>3 DEF Drawing
<1>4. x.for = "view" /\ x.kind = s /\ x.pc = "summary"
  BY DEF Idle
<1>5. Asked(next, t, s, "view", polls) = [next EXCEPT ![t] = x]
  BY DEF Asked
<1> HIDE DEF next, x
<1>6. CASE s = "summary" \/ Kept(cache, s) # {}
  <2> DEFINE drawn == IF s = "summary" THEN now ELSE Kept(cache, s)
  <2>1. content' = [of |-> s, answers |-> drawn] /\ threads' = next
    BY <1>6 DEF SelectSection, next
  <2>2. drawn # {}
    BY <1>6
  <2> HIDE DEF drawn
  <2>3. content'.of = s /\ content'.answers # Loading.answers
    BY <2>1, <2>2 DEF Loading
  <2>4. AwaitedOK(threads', s)
    BY <1>3, <2>1 DEF AwaitedOK
  <2> QED
    BY <1>1, <2>3, <2>4
<1>7. CASE ~(s = "summary" \/ Kept(cache, s) # {})
  <2>1. content' = Loading /\ threads' = [next EXCEPT ![t] = x]
    BY <1>5, <1>7 DEF SelectSection, next
  <2>2. threads'[t] = x /\ \A u \in Threads : u # t => threads'[u] = next[u]
    BY <1>2, <2>1
  <2>3. AwaitedOK(threads', s)
    BY <1>3, <1>4, <2>2 DEF AwaitedOK
  <2>4. content'.of = "loading"
    BY <2>1 DEF Loading
  <2> QED
    BY <1>1, <1>4, <2>2, <2>3, <2>4
<1> QED
  BY <1>6, <1>7

\* One thread is freed, the others stay.
LEMMA ThreadFreed ==
    ASSUME RequestsOK(threads), NEW t \in Threads
    PROVE  /\ Freed(t)[t] = Idle /\ Idle.for = "nobody" /\ \A u \in Threads \ {t} : Freed(t)[u] = threads[u]
           /\ RequestsOK(Freed(t))
BY FreedOK DEF Freed, RequestsOK, Idle

LEMMA NobodyAwaited ==
    ASSUME RequestsOK(threads)
    PROVE  \A u \in Threads : Aborted[u].for = "nobody" /\ Aborted[u].pc = threads[u].pc
<1> SUFFICES ASSUME NEW u \in Threads PROVE Aborted[u].for = "nobody" /\ Aborted[u].pc = threads[u].pc
  OBVIOUS
<1>1. threads[u] \in Request
  BY DEF RequestsOK
<1> QED
  BY <1>1 DEF Aborted, Request

\* A section selected on a page that has a summary.
LEMMA SelectedDrawn ==
    ASSUME NEW s, NEW t \in Threads, NEW pool, RequestsOK(pool),
           \A u \in Threads : pool[u].pc = "idle" => pool[u].for \notin Drawing,
           NEW now, now # {}, NEW cache, NEW polls, SelectSection(s, t, pool, now, cache, polls)
    PROVE  DrawnInv'
BY SelectionDrawn DEF DrawnInv, ShownIsSelected

LEMMA ReaderDraws ==
    ASSUME RequestsOK(threads), DrawnInv, Reader
    PROVE  DrawnInv'
<1>0. \A u \in Threads : threads[u].pc = "idle" => threads[u].for \notin Drawing
  BY DEF DrawnInv, AwaitedOK
<1>1. CASE Leave
  <2>1. phase' = "closed" /\ threads' = Aborted
    BY <1>1 DEF Leave
  <2> QED
    BY <2>1, NobodyAwaited DEF DrawnInv, AwaitedOK, ShownIsSelected, Drawing
<1>2. CASE Recheck
  BY <1>2, QuietStep DEF Recheck
<1>3. CASE PageForgets
  BY <1>3, QuietStep DEF PageForgets
<1>4. ASSUME NEW t \in Threads, Stranger(t)
      PROVE  DrawnInv'
  <2>1. UNCHANGED <<phase, summary, section, content>> /\ threads[t].pc = "idle"
        /\ threads' = Asked(threads, t, "details", "nobody", FALSE)
    BY <1>4 DEF Stranger, IsNext, IsIdle, pageVars
  <2>2. threads'[t].for = "nobody" /\ \A u \in Threads \ {t} : threads'[u] = threads[u]
    BY <2>1 DEF Asked, Idle, RequestsOK
  <2> QED
    BY <1>0, <2>1, <2>2, QuietStep DEF Drawing
<1>5. ASSUME NEW t \in Threads, NEW s \in Sections \cup {"summary"}, Choose(t, s)
      PROVE  DrawnInv'
  <2>1. CASE summary # {}
    <3>1. SelectSection(s, t, threads, summary, kept, FALSE)
      BY <1>5, <2>1 DEF Choose
    <3> QED
      BY <1>0, <2>1, <3>1, SelectedDrawn
  <2>2. CASE summary = {}
    <3>1. section' = s /\ threads' = Superseded(threads) /\ summary' = {}
      BY <1>5, <2>2 DEF Choose
    <3>2. ASSUME NEW u \in Threads
          PROVE  threads'[u].for # "view" /\ (threads'[u].pc = "idle" => threads'[u].for \notin Drawing)
      <4>1. threads[u] \in Request
        BY DEF RequestsOK
      <4>2. threads'[u] = IF threads[u].for = "view" THEN [threads[u] EXCEPT !.for = "older"] ELSE threads[u]
        BY <3>1 DEF Superseded
      <4>3. threads'[u].pc = threads[u].pc
            /\ threads'[u].for = (IF threads[u].for = "view" THEN "older" ELSE threads[u].for)
        BY <4>1, <4>2 DEF Request
      <4> QED
        BY <1>0, <4>3 DEF Drawing
    <3> QED
      BY <3>1, <3>2 DEF DrawnInv, AwaitedOK, ShownIsSelected
  <2> QED
    BY <2>1, <2>2
<1>6. ASSUME NEW t \in Threads, NEW fresh \in BOOLEAN, NEW s \in Sections \cup {"summary"}, Open(t, fresh, s)
      PROVE  DrawnInv'
  <2>1. \A u \in Threads : Aborted[u].pc = "idle" => Aborted[u].for \notin Drawing
    BY NobodyAwaited DEF Drawing
  <2>2. CASE ~fresh /\ Kept(kept, "summary") # {}
    <3>1. summary' = Kept(kept, "summary") /\ SelectSection(s, t, Aborted, summary', kept, TRUE)
      BY <1>6, <2>2 DEF Open
    <3> QED
      BY <2>1, <2>2, <3>1, AbortedOK, SelectedDrawn
  <2>3. CASE ~(~fresh /\ Kept(kept, "summary") # {})
    <3>1. phase' = "loading" /\ section' = s /\ threads' = Asked(Aborted, t, "summary", "open", FALSE)
      BY <1>6, <2>3 DEF Open
    <3>2. /\ threads'[t].for = "open" /\ threads'[t].pc = "summary"
          /\ \A u \in Threads \ {t} : threads'[u] = Aborted[u]
      BY <3>1, AbortedOK DEF Asked, Idle, RequestsOK
    <3>3. AwaitedOK(threads', s)
      BY <3>2, NobodyAwaited DEF AwaitedOK, Drawing
    <3> QED
      BY <3>1, <3>3 DEF DrawnInv, ShownIsSelected
  <2> QED
    BY <2>2, <2>3
<1> QED
  BY <1>1, <1>2, <1>3, <1>4, <1>5, <1>6 DEF Reader

LEMMA PageDraws ==
    ASSUME RequestsOK(threads), DrawnInv, Page
    PROVE  DrawnInv'
<1>0. \A u \in Threads : threads[u].pc = "idle" => threads[u].for \notin Drawing
  BY DEF DrawnInv, AwaitedOK
<1>1. ASSUME NEW t \in Threads, PollDetails(t)
      PROVE  DrawnInv'
  <2>1. UNCHANGED <<phase, summary, section, content>> /\ threads[t].pc = "idle"
        /\ threads' = Asked(threads, t, "details", "poll", FALSE)
    BY <1>1 DEF PollDetails, IsNext, IsIdle
  <2>2. threads'[t].for = "poll" /\ \A u \in Threads \ {t} : threads'[u] = threads[u]
    BY <2>1 DEF Asked, Idle, RequestsOK
  <2> QED
    BY <1>0, <2>1, <2>2, QuietStep DEF Drawing
<1>2. ASSUME NEW t \in Threads, Unheard(t)
      PROVE  DrawnInv'
  <2>1. UNCHANGED <<phase, summary, section, content>> /\ threads[t].for = "nobody" /\ threads' = Freed(t)
    BY <1>2 DEF Unheard, Replied, pageVars
  <2> QED
    BY <2>1, ThreadFreed, QuietStep DEF Drawing
<1>3. ASSUME NEW t \in Threads, SummaryCame(t)
      PROVE  DrawnInv'
  <2>1. summary' = {Answer(t)} /\ SelectSection(section, t, Freed(t), summary', kept', TRUE)
    BY <1>3 DEF SummaryCame
  <2>2. \A u \in Threads : Freed(t)[u].pc = "idle" => Freed(t)[u].for \notin Drawing
    BY <1>0, ThreadFreed DEF Drawing
  <2>3. summary' # {}
    BY <2>1
  <2> QED
    BY <2>1, <2>2, <2>3, ThreadFreed, SelectedDrawn
<1>4. ASSUME NEW t \in Threads, StatusCame(t)
      PROVE  DrawnInv'
  <2>1. UNCHANGED <<phase, summary, section, content>> /\ threads[t].for = "poll"
        /\ threads' \in {Freed(t), Asked(threads, t, "summary", "sum", FALSE)}
    BY <1>4 DEF StatusCame, Replied
  <2>2. CASE threads' = Freed(t)
    BY <2>1, <2>2, ThreadFreed, QuietStep DEF Drawing
  <2>3. CASE threads' = Asked(threads, t, "summary", "sum", FALSE)
    <3>1. threads'[t].for = "sum" /\ \A u \in Threads \ {t} : threads'[u] = threads[u]
      BY <2>3 DEF Asked, Idle, RequestsOK
    <3> QED
      BY <2>1, <3>1, QuietStep DEF Drawing
  <2> QED
    BY <2>1, <2>2, <2>3
<1>5. ASSUME NEW t \in Threads, FreshSummaryCame(t)
      PROVE  DrawnInv'
  <2>1. summary' = {Answer(t)} /\ SelectSection(section, t, Freed(t), summary', kept', FALSE)
    BY <1>5 DEF FreshSummaryCame
  <2>2. \A u \in Threads : Freed(t)[u].pc = "idle" => Freed(t)[u].for \notin Drawing
    BY <1>0, ThreadFreed DEF Drawing
  <2>3. summary' # {}
    BY <2>1
  <2> QED
    BY <2>1, <2>2, <2>3, ThreadFreed, SelectedDrawn
<1>6. ASSUME NEW t \in Threads, SectionCame(t)
      PROVE  DrawnInv'
  <2>1. /\ UNCHANGED <<phase, summary, section>> /\ threads' = Freed(t)
        /\ threads[t].for \in {"view", "older"}
        /\ content' = IF Current(t) THEN [of |-> threads[t].kind, answers |-> {Answer(t)}] ELSE content
    BY <1>6 DEF SectionCame, Replied
  <2>2. CASE threads[t].for = "older"
    <3>1. content' = content
      BY <2>1, <2>2 DEF Current
    <3> QED
      BY <2>1, <2>2, <3>1, ThreadFreed, QuietStep DEF Drawing
  <2>3. CASE threads[t].for = "view"
    <3>1. content' = [of |-> threads[t].kind, answers |-> {Answer(t)}] /\ threads[t].kind = section
      BY <2>1, <2>3 DEF Current, DrawnInv, AwaitedOK
    <3>2. content'.of = section /\ content'.answers # Loading.answers
      BY <3>1 DEF Loading
    <3>3. AwaitedOK(threads', section')
      BY <2>1, ThreadFreed DEF DrawnInv, AwaitedOK, Drawing
    <3> QED
      BY <2>1, <3>2, <3>3 DEF DrawnInv, ShownIsSelected
  <2> QED
    BY <2>1, <2>2, <2>3
<1>7. ASSUME NEW t \in Threads, RequestFails(t)
      PROVE  DrawnInv'
  <2>1. /\ UNCHANGED <<summary, section>>
        /\ content' = IF threads[t].for = "open" \/ Current(t) THEN Failure ELSE content
        /\ phase' = IF threads[t].for = "open" THEN "failed" ELSE phase
        /\ \/ threads' = Freed(t)
           \/ /\ threads[t].pc # "idle"
              /\ threads' = [threads EXCEPT ![t].for = "nobody", ![t].polls = FALSE]
    BY <1>7 DEF RequestFails, IsIdle
  <2>2. threads'[t].for = "nobody" /\ \A u \in Threads \ {t} : threads'[u] = threads[u]
    <3>1. threads[t] \in Request /\ DOMAIN threads = Threads
      BY DEF RequestsOK
    <3> QED
      BY <2>1, <3>1, ThreadFreed DEF Request
  <2>3. CASE threads[t].for \in Drawing
    <3>1. content' = Failure
      BY <2>1, <2>3 DEF Drawing, Current
    <3>2. content'.of = "error" /\ content'.of # Loading.of
      BY <3>1 DEF Failure, Loading
    <3>3. AwaitedOK(threads', section')
      BY <2>1, <2>2 DEF DrawnInv, AwaitedOK, Drawing
    <3> QED
      BY <3>2, <3>3 DEF DrawnInv, ShownIsSelected
  <2>4. CASE threads[t].for \notin Drawing
    <3>1. UNCHANGED <<phase, summary, section, content>>
      BY <2>1, <2>4 DEF Drawing, Current
    <3> QED
      BY <2>2, <2>4, <3>1, QuietStep DEF Drawing
  <2> QED
    BY <2>3, <2>4
<1> QED
  BY <1>1, <1>2, <1>3, <1>4, <1>5, <1>6, <1>7 DEF Page, Answered

\* The service answers a request; whose it is does not change.
LEMMA ServeDraws ==
    ASSUME RequestsOK(threads), DrawnInv, NEW t \in Threads, Serve(t), UNCHANGED pageVars
    PROVE  DrawnInv'
<1>1. UNCHANGED <<phase, summary, section, content>>
  BY DEF pageVars
<1>2. threads[t] \in Request /\ DOMAIN threads = Threads
  BY DEF RequestsOK
<1>3. /\ threads'[t].for = threads[t].for /\ threads'[t].kind = threads[t].kind /\ threads'[t].pc # "idle"
      /\ \A u \in Threads \ {t} : threads'[u] = threads[u]
  <2>1. CASE Summarise(t)
    BY <1>2, <2>1 DEF Summarise, Request
  <2>2. CASE SummaryFails(t)
    BY <1>2, <2>2 DEF SummaryFails, Request
  <2>3. CASE ReadSection(t)
    BY <1>2, <2>3 DEF ReadSection, Request
  <2>4. CASE ReadStatus(t)
    BY <1>2, <2>4 DEF ReadStatus, Request
  <2>5. CASE StartOrWait(t)
    BY <1>2, <2>5 DEF StartOrWait, Request
  <2> QED
    BY <2>1, <2>2, <2>3, <2>4, <2>5 DEF Serve
<1> QED
  BY <1>1, <1>3, QuietStep

LEMMA DrawnStep ==
    ASSUME RequestsOK(threads), DrawnInv, [Next]_vars
    PROVE  DrawnInv'
<1>1. CASE \E t \in Threads : Serve(t) /\ UNCHANGED pageVars
  BY <1>1, ServeDraws
<1>2. ASSUME NEW w \in workers, Work(w), UNCHANGED pageVars
      PROVE  DrawnInv'
  <2>1. threads' = threads
    BY <1>2 DEF Work, BeginJob, Publish, EndJob, FetchSquad, VerifyItem, GiveUpItem
  <2> QED
    BY <1>2, <2>1, QuietStep DEF pageVars
<1>3. CASE World /\ UNCHANGED pageVars
  <2>1. threads' = threads
    BY <1>3 DEF World, Forget, Correct
  <2> QED
    BY <1>3, <2>1, QuietStep DEF pageVars
<1>4. CASE Page
  BY <1>4, PageDraws
<1>5. CASE Reader
  BY <1>5, ReaderDraws
<1>6. CASE UNCHANGED vars
  BY <1>6, QuietStep DEF vars, serviceVars, pageVars
<1> QED
  BY <1>1, <1>2, <1>3, <1>4, <1>5, <1>6 DEF Next, Service

LEMMA Start == Init => VersionsInv /\ BoardInv /\ Board!Init
<1> SUFFICES ASSUME Init PROVE VersionsInv /\ BoardInv /\ Board!Init
  OBVIOUS
<1>1. /\ official = [i \in Items |-> 1] /\ scores = None /\ picks = None /\ live = None
      /\ summaries = {} /\ results = {} /\ partial = {} /\ jobs = [k \in {} |-> 0]
      /\ workers = {} /\ threads = [t \in Threads |-> Idle] /\ section = "summary"
  BY DEF Init, ServiceInit, PageInit
<1>2. Idle.pc = "idle"
  BY DEF Idle
<1>3. RequestsOK(threads)
  BY <1>1, <1>2, IdleIsRequest DEF RequestsOK
<1>4. ServiceOK
  BY <1>1, NoneIsVector DEF ServiceOK, Vector
<1>5. DOMAIN jobs = {}
  BY <1>1
<1>6. IsFiniteSet(DOMAIN jobs)
  BY <1>5, FS_EmptySet
<1>7. BoardInv
  BY <1>1, <1>5, <1>6 DEF BoardInv
<1>8. Board!Init
  BY <1>1 DEF Board!Init
<1> QED
  BY <1>1, <1>3, <1>4, <1>7, <1>8 DEF VersionsInv

\* The inductive invariant: what is kept, answered and verified is of the version it stands
\* beside, and each job has its one thread and counts what that has done.
THEOREM SeasonInvariant == Spec => [](VersionsInv /\ BoardInv)
BY Start, Step, PTL DEF Spec

\* Corrections between the score list, the squads and the players' totals never mix in what is
\* kept or answered (analytics/service.py:271-293), for any league and any corrections.
THEOREM DetailsAlwaysReconcile == Spec => []DetailsReconcile
<1>1. VersionsInv => DetailsReconcile
  BY DEF VersionsInv, ServiceOK, RequestsOK, Matching, DetailsReconcile
<1> QED
  BY <1>1, SeasonInvariant, PTL

\* The service with its page implements the board of jobs: at most MaxJobs of them and one of a
\* key, however requests race, progress that never goes back or beyond its total
\* (analytics/service.py:51, 236-259, 294-296, 322-324).
THEOREM BoardRefined == Spec => Coalesced
<1>1. VersionsInv /\ BoardInv /\ [Next]_vars => [Board!Next]_jobs
  BY Step
<1> QED
  BY <1>1, Start, SeasonInvariant, PTL DEF Spec, Coalesced, Board!Spec

\* Every job on the board has exactly one thread.
THEOREM JobsServed == Spec => []JobsHaveWorkers
<1>1. BoardInv => JobsHaveWorkers
  BY DEF BoardInv, JobsHaveWorkers
<1> QED
  BY <1>1, SeasonInvariant, PTL

\* What is drawn belongs to the section selected, whatever the order in which the answers of
\* several clicks come and whichever of them fail, and a section is drawn as loading only while
\* its answer is awaited (analytics.js:141-171).
THEOREM DrawnIsSelected == Spec => []ShownIsSelected
<1>1. Init => DrawnInv
  <2> SUFFICES ASSUME Init PROVE DrawnInv
    OBVIOUS
  <2>1. phase = "closed" /\ \A t \in Threads : threads[t] = Idle
    BY DEF Init, ServiceInit, PageInit
  <2> QED
    BY <2>1 DEF DrawnInv, AwaitedOK, ShownIsSelected, Drawing, Idle
<1>2. VersionsInv /\ DrawnInv /\ [Next]_vars => DrawnInv'
  BY DrawnStep DEF VersionsInv
<1>3. DrawnInv => ShownIsSelected
  BY DEF DrawnInv
<1> QED
  BY <1>1, <1>2, <1>3, SeasonInvariant, PTL DEF Spec

-----------------------------------------------------------------------------
(* Sums.  A sum over S takes one element after the other, in an order that  *)
(* CHOOSE decides; these lemmas say that the order does not matter.         *)

One(T) == CHOOSE x \in T : TRUE
SumsOn(F, f, S) ==
    F = [T \in SUBSET S |-> IF T = {} THEN 0 ELSE f[One(T)] + F[T \ {One(T)}]]
Added(f, S) == (CHOOSE F : SumsOn(F, f, S))[S]

\* A set of subsets of a finite S that has T whenever it has all smaller ones has S.
LEMMA Subsets ==
    ASSUME NEW S, IsFiniteSet(S), NEW P,
           \A T \in SUBSET S : (\A U \in SUBSET T : U # T => U \in P) => T \in P
    PROVE  S \in P
<1> DEFINE bad == {T \in FiniteSubsetsOf(S) : T \notin P}
<1>1. SUFFICES ASSUME S \notin P PROVE FALSE
  OBVIOUS
<1>2. \A T \in SUBSET S : T \in FiniteSubsetsOf(S)
  BY FS_Subset DEF FiniteSubsetsOf
<1>3. S \in bad
  BY <1>1, <1>2
<1>4. PICK T \in bad : \A U \in bad : ~(<<U, T>> \in StrictSubsetOrdering(S))
  <2>1. bad \subseteq FiniteSubsetsOf(S)
    OBVIOUS
  <2>2. bad # {}
    BY <1>3
  <2>3. IsWellFoundedOn(StrictSubsetOrdering(S), FiniteSubsetsOf(S))
    BY FS_StrictSubsetOrderingWellFounded
  <2> DEFINE order == StrictSubsetOrdering(S)
             all == FiniteSubsetsOf(S)
  <2>5. IsWellFoundedOn(order, all) /\ bad \subseteq all
    BY <2>1, <2>3
  <2> HIDE DEF bad, order, all
  <2>6. \E T \in bad : \A U \in bad : ~(<<U, T>> \in order)
    BY <2>2, <2>5, WFMin
  <2>4. \E T \in bad : \A U \in bad : ~(<<U, T>> \in StrictSubsetOrdering(S))
    BY <2>6 DEF order
  <2> QED
    BY <2>4, Zenon
<1>5. T \in SUBSET S
  BY DEF FiniteSubsetsOf
<1>6. \A U \in SUBSET T : U # T => U \in P
  BY <1>2, <1>4, <1>5 DEF StrictSubsetOrdering
<1> QED
  BY <1>5, <1>6

\* Two such functions agree where both are defined.
LEMMA SumsAgree ==
    ASSUME NEW f, NEW g, NEW S, NEW R, IsFiniteSet(S), S \subseteq R, \A x \in S : f[x] = g[x],
           NEW F, NEW G, SumsOn(F, f, R), SumsOn(G, g, S)
    PROVE  F[S] = G[S]
<1> DEFINE P == {T \in SUBSET S : F[T] = G[T]}
<1>1. ASSUME NEW T \in SUBSET S, \A U \in SUBSET T : U # T => U \in P PROVE T \in P
  <2>1. CASE T = {}
    BY <2>1 DEF SumsOn
  <2>2. CASE T # {}
    <3>1. One(T) \in T
      BY <2>2 DEF One
    <3>2. T \ {One(T)} \in P
      BY <1>1, <3>1
    <3>3. F[T] = f[One(T)] + F[T \ {One(T)}] /\ G[T] = g[One(T)] + G[T \ {One(T)}]
      BY <2>2 DEF SumsOn
    <3> QED
      BY <3>1, <3>2, <3>3
  <2> QED
    BY <2>1, <2>2
<1>2. S \in P
  <2> HIDE DEF P
  <2> QED
    BY <1>1, Subsets
<1> QED
  BY <1>2

LEMMA SumsExist ==
    ASSUME NEW f, NEW S, IsFiniteSet(S)
    PROVE  \E F : SumsOn(F, f, S)
<1> DEFINE P == {T \in SUBSET S : \E F : SumsOn(F, f, T)}
<1>1. ASSUME NEW T \in SUBSET S, \A U \in SUBSET T : U # T => U \in P PROVE T \in P
  <2> DEFINE H == [U \in SUBSET T |-> Added(f, U)]
             G == [U \in SUBSET T |-> IF U = {} THEN 0 ELSE f[One(U)] + H[U \ {One(U)}]]
  <2>1. ASSUME NEW U \in SUBSET T, U # T PROVE SumsOn(CHOOSE F : SumsOn(F, f, U), f, U)
    BY <1>1, <2>1
  <2>2. ASSUME NEW U \in SUBSET T, U # T PROVE H[U] = G[U]
    <3> DEFINE F == CHOOSE F : SumsOn(F, f, U)
    <3>1. SumsOn(F, f, U)
      BY <2>1, <2>2
    <3>2. H[U] = F[U]
      BY DEF Added
    <3> HIDE DEF F
    <3>3. F[U] = IF U = {} THEN 0 ELSE f[One(U)] + F[U \ {One(U)}]
      BY <3>1 DEF SumsOn
    <3>4. ASSUME U # {} PROVE F[U \ {One(U)}] = H[U \ {One(U)}]
      <4> DEFINE V == U \ {One(U)}
                 E == CHOOSE E : SumsOn(E, f, V)
      <4>1. V \in SUBSET T /\ V # T /\ V \subseteq U /\ IsFiniteSet(V)
        BY <2>2, FS_Subset
      <4>2. SumsOn(E, f, V)
        BY <2>1, <4>1
      <4>3. H[V] = E[V]
        BY <4>1 DEF Added
      <4> HIDE DEF E, V
      <4>4. F[V] = E[V]
        BY <3>1, <4>1, <4>2, SumsAgree
      <4> QED
        BY <4>3, <4>4 DEF V
    <3> QED
      BY <3>2, <3>3, <3>4
  <2>3. SumsOn(G, f, T)
    <3>1. \A U \in SUBSET T : U # {} => One(U) \in U
      BY DEF One
    <3>2. \A U \in SUBSET T : U # {} => H[U \ {One(U)}] = G[U \ {One(U)}]
      BY <2>2, <3>1
    <3> QED
      BY <3>2 DEF SumsOn
  <2> QED
    BY <2>3
<1>2. S \in P
  <2> HIDE DEF P
  <2> QED
    BY <1>1, Subsets
<1> QED
  BY <1>2

LEMMA AddedStep ==
    ASSUME NEW f, NEW S, IsFiniteSet(S)
    PROVE  Added(f, S) = IF S = {} THEN 0 ELSE f[One(S)] + Added(f, S \ {One(S)})
<1> DEFINE F == CHOOSE F : SumsOn(F, f, S)
           V == S \ {One(S)}
           E == CHOOSE E : SumsOn(E, f, V)
<1>1. SumsOn(F, f, S)
  BY SumsExist
<1>2. IsFiniteSet(V)
  BY FS_Subset
<1>3. SumsOn(E, f, V)
  BY <1>2, SumsExist
<1>4. Added(f, S) = F[S] /\ Added(f, V) = E[V]
  BY DEF Added
<1> HIDE DEF F, E
<1>5. F[V] = E[V]
  BY <1>1, <1>2, <1>3, SumsAgree
<1> QED
  BY <1>1, <1>4, <1>5 DEF SumsOn

\* A sum depends on nothing but the values.
LEMMA SameAdded ==
    ASSUME NEW f, NEW g, NEW S, IsFiniteSet(S), \A x \in S : f[x] = g[x]
    PROVE  Added(f, S) = Added(g, S)
<1> DEFINE F == CHOOSE F : SumsOn(F, f, S)
           G == CHOOSE G : SumsOn(G, g, S)
<1>1. SumsOn(F, f, S) /\ SumsOn(G, g, S)
  BY SumsExist
<1>2. Added(f, S) = F[S] /\ Added(g, S) = G[S]
  BY DEF Added
<1> HIDE DEF F, G
<1> QED
  BY <1>1, <1>2, SumsAgree

LEMMA SumIs ==
    ASSUME NEW f
    PROVE  Sum(f) = Added(f, DOMAIN f)
BY DEF Sum, MapThenSumSet, MapThenFoldSet, Added, SumsOn, One

\* Sums of integers are integers,
LEMMA AddedInt ==
    ASSUME NEW f, NEW S, IsFiniteSet(S), \A x \in S : f[x] \in Int
    PROVE  Added(f, S) \in Int
<1> DEFINE P == {T \in SUBSET S : Added(f, T) \in Int}
<1>1. ASSUME NEW T \in SUBSET S, \A U \in SUBSET T : U # T => U \in P PROVE T \in P
  <2>1. IsFiniteSet(T)
    BY FS_Subset
  <2>2. T = {} \/ One(T) \in T
    BY DEF One
  <2>3. T # {} => Added(f, T \ {One(T)}) \in Int
    BY <1>1, <2>2
  <2> QED
    BY <2>1, <2>2, <2>3, AddedStep
<1>2. S \in P
  <2> HIDE DEF P
  <2> QED
    BY <1>1, Subsets
<1> QED
  BY <1>2

\* and any element may be taken first.
LEMMA AddedFirst ==
    ASSUME NEW f, NEW S, IsFiniteSet(S), \A x \in S : f[x] \in Int, NEW e \in S
    PROVE  Added(f, S) = f[e] + Added(f, S \ {e})
<1> DEFINE P == {T \in SUBSET S : \A x \in T : Added(f, T) = f[x] + Added(f, T \ {x})}
<1>1. ASSUME NEW T \in SUBSET S, \A U \in SUBSET T : U # T => U \in P PROVE T \in P
  <2> SUFFICES ASSUME NEW x \in T PROVE Added(f, T) = f[x] + Added(f, T \ {x})
    OBVIOUS
  <2> DEFINE o == One(T)
             A == Added(f, T \ {o})
             B == Added(f, T \ {x})
             C == Added(f, (T \ {o}) \ {x})
  <2>1. o \in T
    BY DEF One
  <2>2. IsFiniteSet(T) /\ IsFiniteSet((T \ {o}) \ {x})
    BY FS_Subset
  <2>3. Added(f, T) = f[o] + A
    BY <2>2, AddedStep
  <2>4. CASE x = o
    BY <2>3, <2>4
  <2>5. CASE x # o
    <3>1. A = f[x] + C
      <4>1. T \ {o} \in P /\ x \in T \ {o}
        BY <1>1, <2>1, <2>5
      <4> QED
        BY <4>1
    <3>2. B = f[o] + Added(f, (T \ {x}) \ {o})
      <4>1. T \ {x} \in P /\ o \in T \ {x}
        BY <1>1, <2>1, <2>5
      <4> QED
        BY <4>1
    <3>3. (T \ {x}) \ {o} = (T \ {o}) \ {x}
      OBVIOUS
    <3>4. C \in Int /\ f[x] \in Int /\ f[o] \in Int
      BY <2>1, <2>2, AddedInt
    <3> HIDE DEF A, B, C, o
    <3>5. Added(f, T) = f[x] + B
      BY <2>3, <3>1, <3>2, <3>3, <3>4 DEF C
    <3> QED
      BY <3>5 DEF B
  <2> QED
    BY <2>4, <2>5
<1>2. S \in P
  <2> HIDE DEF P
  <2> QED
    BY <1>1, Subsets
<1> QED
  BY <1>2

\* Sets that grow one element at a time: a set of subsets that has the empty one and, with
\* each, every larger one by an element, has all.
LEMMA Growing ==
    ASSUME NEW S, IsFiniteSet(S), NEW P, {} \in P,
           \A T \in SUBSET S : \A x \in T : T \ {x} \in P => T \in P
    PROVE  S \in P
<1>1. ASSUME NEW T \in SUBSET S, \A U \in SUBSET T : U # T => U \in P PROVE T \in P
  <2>1. CASE T = {}
    BY <2>1
  <2>2. ASSUME NEW x \in T PROVE T \in P
    <3>1. T \ {x} \in P
      BY <1>1, <2>2
    <3> QED
      BY <3>1
  <2> QED
    BY <2>1, <2>2
<1> QED
  BY <1>1, Subsets

LEMMA AddedEmpty == \A f : Added(f, {}) = 0
BY FS_EmptySet, AddedStep

\* The sum of sums.
LEMMA AddedPlus ==
    ASSUME NEW f, NEW g, NEW h, NEW S, IsFiniteSet(S),
           \A x \in S : f[x] = g[x] + h[x] /\ g[x] \in Int /\ h[x] \in Int
    PROVE  Added(f, S) = Added(g, S) + Added(h, S)
<1> DEFINE P == {T \in SUBSET S : Added(f, T) = Added(g, T) + Added(h, T)}
<1>1. {} \in P
  BY AddedEmpty
<1>2. ASSUME NEW T \in SUBSET S, NEW x \in T, T \ {x} \in P PROVE T \in P
  <2> DEFINE F == Added(f, T \ {x})
             G == Added(g, T \ {x})
             H == Added(h, T \ {x})
  <2>1. IsFiniteSet(T) /\ IsFiniteSet(T \ {x}) /\ \A y \in T : f[y] \in Int /\ g[y] \in Int /\ h[y] \in Int
    BY FS_Subset
  <2>2. Added(f, T) = f[x] + F /\ Added(g, T) = g[x] + G /\ Added(h, T) = h[x] + H
    BY <2>1, AddedFirst
  <2>3. F \in Int /\ G \in Int /\ H \in Int
    BY <2>1, AddedInt
  <2>4. F = G + H
    BY <1>2
  <2>5. f[x] = g[x] + h[x] /\ g[x] \in Int /\ h[x] \in Int
    OBVIOUS
  <2> HIDE DEF F, G, H
  <2> QED
    BY <2>2, <2>3, <2>4, <2>5
<1>3. S \in P
  <2> HIDE DEF P
  <2> QED
    BY <1>1, <1>2, Growing
<1> QED
  BY <1>3

\* What is nothing outside a part of S adds up over the part.
LEMMA AddedPart ==
    ASSUME NEW f, NEW S, IsFiniteSet(S), NEW R \in SUBSET S,
           \A x \in S : f[x] \in Int /\ (x \notin R => f[x] = 0)
    PROVE  Added(f, S) = Added(f, R)
<1> DEFINE P == {T \in SUBSET S : Added(f, T) = Added(f, T \cap R)}
<1>1. {} \in P
  BY AddedEmpty
<1>2. ASSUME NEW T \in SUBSET S, NEW x \in T, T \ {x} \in P PROVE T \in P
  <2>1. IsFiniteSet(T) /\ IsFiniteSet(T \ {x}) /\ IsFiniteSet(T \cap R) /\ \A y \in T : f[y] \in Int
    BY FS_Subset
  <2>2. Added(f, T) = f[x] + Added(f, T \ {x}) /\ Added(f, T \ {x}) \in Int
    BY <2>1, AddedFirst, AddedInt
  <2>3. CASE x \in R
    <3>1. Added(f, T \cap R) = f[x] + Added(f, (T \cap R) \ {x})
      BY <2>1, <2>3, AddedFirst
    <3>2. (T \cap R) \ {x} = (T \ {x}) \cap R
      OBVIOUS
    <3> QED
      BY <1>2, <2>2, <3>1, <3>2
  <2>4. CASE x \notin R
    <3>1. T \cap R = (T \ {x}) \cap R /\ f[x] = 0
      BY <2>4
    <3>2. Added(f, T \ {x}) = Added(f, T \cap R)
      BY <1>2, <3>1
    <3> QED
      BY <2>2, <3>1, <3>2
  <2> QED
    BY <2>3, <2>4
<1>3. S \in P
  <2> HIDE DEF P
  <2> QED
    BY <1>1, <1>2, Growing
<1>4. S \cap R = R
  OBVIOUS
<1> QED
  BY <1>3, <1>4

\* The same number for each element.
LEMMA AddedSame ==
    ASSUME NEW f, NEW S, IsFiniteSet(S), NEW c \in Int, \A x \in S : f[x] = c
    PROVE  Added(f, S) = c * Cardinality(S)
<1> DEFINE P == {T \in SUBSET S : Added(f, T) = c * Cardinality(T)}
<1>1. {} \in P
  BY AddedEmpty, FS_EmptySet
<1>2. ASSUME NEW T \in SUBSET S, NEW x \in T, T \ {x} \in P PROVE T \in P
  <2> DEFINE n == Cardinality(T \ {x})
  <2>1. IsFiniteSet(T) /\ IsFiniteSet(T \ {x}) /\ n \in Nat
    BY FS_Subset, FS_CardinalityType
  <2>2. Cardinality(T) = n + 1
    BY <2>1, FS_RemoveElement, FS_CardinalityType
  <2>3. Added(f, T) = c + c * n
    <3>1. Added(f, T) = f[x] + Added(f, T \ {x}) /\ f[x] = c
      BY <2>1, AddedFirst
    <3> QED
      BY <1>2, <3>1
  <2> HIDE DEF n
  <2>4. c + c * n = c * (n + 1)
    BY <2>1
  <2> QED
    BY <2>2, <2>3, <2>4
<1>3. S \in P
  <2> HIDE DEF P
  <2> QED
    BY <1>1, <1>2, Growing
<1> QED
  BY <1>3

\* Sums are ordered as their values.
LEMMA AddedOrder ==
    ASSUME NEW f, NEW g, NEW S, IsFiniteSet(S),
           \A x \in S : f[x] \in Int /\ g[x] \in Int /\ f[x] <= g[x]
    PROVE  Added(f, S) <= Added(g, S)
<1> DEFINE P == {T \in SUBSET S : Added(f, T) <= Added(g, T)}
<1>1. {} \in P
  BY AddedEmpty
<1>2. ASSUME NEW T \in SUBSET S, NEW x \in T, T \ {x} \in P PROVE T \in P
  <2> DEFINE F == Added(f, T \ {x})
             G == Added(g, T \ {x})
  <2>1. IsFiniteSet(T) /\ IsFiniteSet(T \ {x})
    BY FS_Subset
  <2>2. Added(f, T) = f[x] + F /\ Added(g, T) = g[x] + G /\ F \in Int /\ G \in Int
    BY <2>1, AddedFirst, AddedInt
  <2>3. F <= G /\ f[x] \in Int /\ g[x] \in Int /\ f[x] <= g[x]
    BY <1>2
  <2> HIDE DEF F, G
  <2> QED
    BY <2>2, <2>3
<1>3. S \in P
  <2> HIDE DEF P
  <2> QED
    BY <1>1, <1>2, Growing
<1> QED
  BY <1>3

\* A table of integers by rows and by columns; h[x] is the sum of row[x] over R.
Table(row, column, S, R) ==
    \A x \in S, y \in R : row[x][y] \in Int /\ column[y][x] = row[x][y]
SumsOf(h, row, S, R) == \A x \in S : h[x] = Added(row[x], R)

\* A table adds up to the same by rows and by columns.
LEMMA AddedTwice ==
    ASSUME NEW S, NEW R, IsFiniteSet(S), IsFiniteSet(R), NEW row, NEW column,
           NEW h, NEW g, Table(row, column, S, R), SumsOf(h, row, S, R), SumsOf(g, column, R, S)
    PROVE  Added(h, S) = Added(g, R)
<1> USE DEF Table, SumsOf
<1> DEFINE part(T) == [y \in R |-> Added(column[y], T)]
           P == {T \in SUBSET S : Added(h, T) = Added(part(T), R)}
<1>1. {} \in P
  <2>1. \A y \in R : part({})[y] = 0
    BY AddedEmpty
  <2>2. Added(part({}), R) = 0 * Cardinality(R) /\ Cardinality(R) \in Nat
    <3> HIDE DEF part
    <3> QED
      BY <2>1, AddedSame, FS_CardinalityType
  <2> QED
    BY <2>2, AddedEmpty
<1>2. ASSUME NEW T \in SUBSET S, NEW x \in T, T \ {x} \in P PROVE T \in P
  <2>1. IsFiniteSet(T) /\ IsFiniteSet(T \ {x})
    BY FS_Subset
  <2>2. \A z \in S : h[z] \in Int
    BY AddedInt
  <2>3. Added(h, T) = Added(row[x], R) + Added(h, T \ {x})
    BY <2>1, <2>2, AddedFirst
  <2> DEFINE all == part(T)
             others == part(T \ {x})
  <2>4. \A y \in R : all[y] = row[x][y] + others[y] /\ row[x][y] \in Int /\ others[y] \in Int
    <3> TAKE y \in R
    <3>1. \A z \in T : column[y][z] \in Int
      OBVIOUS
    <3>2. Added(column[y], T) = column[y][x] + Added(column[y], T \ {x}) /\ Added(column[y], T \ {x}) \in Int
      BY <2>1, <3>1, AddedFirst, AddedInt
    <3> QED
      BY <3>2
  <2>5. Added(all, R) = Added(row[x], R) + Added(others, R)
    <3> HIDE DEF all, others
    <3> QED
      BY <2>4, AddedPlus
  <2> QED
    BY <1>2, <2>3, <2>5
<1>3. S \in P
  <2> HIDE DEF P
  <2> QED
    BY <1>1, <1>2, Growing
<1>4. Added(part(S), R) = Added(g, R)
  <2>1. \A y \in R : part(S)[y] = g[y]
    OBVIOUS
  <2> HIDE DEF part
  <2> QED
    BY <2>1, SameAdded
<1> QED
  BY <1>3, <1>4

-----------------------------------------------------------------------------
(* The columns of the table.                                                *)

\* A finite set of integers has a least and a greatest element.
LEMMA Extremes ==
    ASSUME NEW S, IsFiniteSet(S), S \subseteq Int, S # {}
    PROVE  /\ \E n \in S : \A k \in S : n <= k
           /\ \E n \in S : \A k \in S : k <= n
           /\ Min(S) \in S /\ \A k \in S : Min(S) <= k
           /\ Max(S) \in S /\ \A k \in S : k <= Max(S)
<1> DEFINE P == {T \in SUBSET S : T # {} => (\E n \in T : \A k \in T : n <= k) /\ (\E n \in T : \A k \in T : k <= n)}
<1>1. {} \in P
  OBVIOUS
<1>2. ASSUME NEW T \in SUBSET S, NEW x \in T, T \ {x} \in P PROVE T \in P
  <2>1. CASE T \ {x} = {}
    <3>1. T = {x} /\ x \in Int
      BY <2>1
    <3> QED
      BY <3>1
  <2>2. CASE T \ {x} # {}
    <3>1. PICK low \in T \ {x} : \A k \in T \ {x} : low <= k
      BY <1>2, <2>2
    <3>2. PICK high \in T \ {x} : \A k \in T \ {x} : k <= high
      BY <1>2, <2>2
    <3>3. low \in Int /\ high \in Int /\ x \in Int /\ T \subseteq Int
      OBVIOUS
    <3>4. \E n \in T : \A k \in T : n <= k
      <4>1. CASE low <= x
        BY <3>1, <4>1
      <4>2. CASE x <= low
        BY <3>1, <3>3, <4>2
      <4>3. low <= x \/ x <= low
        BY <3>3
      <4> QED
        BY <4>1, <4>2, <4>3
    <3>5. \E n \in T : \A k \in T : k <= n
      <4>1. CASE x <= high
        BY <3>2, <4>1
      <4>2. CASE high <= x
        BY <3>2, <3>3, <4>2
      <4>3. high <= x \/ x <= high
        BY <3>3
      <4> QED
        BY <4>1, <4>2, <4>3
    <3> QED
      BY <3>4, <3>5
  <2> QED
    BY <2>1, <2>2
<1>3. S \in P
  <2> HIDE DEF P
  <2> QED
    BY <1>1, <1>2, Growing
<1>4. (\E n \in S : \A k \in S : n <= k) /\ (\E n \in S : \A k \in S : k <= n)
  BY <1>3
<1>5. (\E n \in S : \A k \in S : k >= n) /\ (\E n \in S : \A k \in S : n >= k)
  BY <1>4
<1>6. /\ Min(S) \in S /\ \A k \in S : Min(S) <= k
      /\ Max(S) \in S /\ \A k \in S : k <= Max(S)
  BY <1>4, <1>5 DEF Min, Max
<1> QED
  BY <1>4, <1>6

\* What has been published is what a score list may say, and a detail is made of a complete
\* squad that adds up, behind a score that is known.
TablesInv ==
    /\ \A k \in DOMAIN rows : k \in Members \X Weeks /\ rows[k] \in Rows[k[2]]
    /\ DOMAIN details \subseteq DOMAIN rows
    /\ \A k \in DOMAIN details : \E x \in Selections :
          Complete(x) /\ AddsUp(x) /\ details[k] = Detail(x)

LEMMA ScoreFacts ==
    ASSUME LegalConstants, TablesInv
    PROVE  /\ \A k \in DOMAIN rows : k[1] \in Members /\ k[2] \in Weeks /\ k = <<k[1], k[2]>>
           /\ \A k \in DOMAIN rows : rows[k].raw \in Int /\ rows[k].hits \in Int
           /\ \A m, g : <<m, g>> \in DOMAIN rows => m \in Members /\ g \in Weeks /\ Score(m, g) \in Int
           /\ \A g : IsFiniteSet(WithScore(g)) /\ WithScore(g) \subseteq Members
           /\ \A g : \A m \in WithScore(g) : Score(m, g) \in Int
<1>1. \A k \in DOMAIN rows : k[1] \in Members /\ k[2] \in Weeks /\ k = <<k[1], k[2]>>
  BY DEF TablesInv
<1>2. \A k \in DOMAIN rows : rows[k].raw \in Int /\ rows[k].hits \in Int
  <2> TAKE k \in DOMAIN rows
  <2>1. rows[k] \in Rows[k[2]] /\ k[2] \in Weeks
    BY <1>1 DEF TablesInv
  <2>2. rows[k] \in [raw : Int, hits : Nat]
    BY <2>1 DEF LegalConstants
  <2> QED
    BY <2>2
<1>3. ASSUME NEW m, NEW g, <<m, g>> \in DOMAIN rows
      PROVE  m \in Members /\ g \in Weeks /\ Score(m, g) \in Int
  <2>1. <<m, g>>[1] = m /\ <<m, g>>[2] = g
    OBVIOUS
  <2>2. Score(m, g) \in Int
    BY <1>2, <1>3 DEF Score
  <2> QED
    BY <1>1, <1>3, <2>1, <2>2, Zenon
<1>4. ASSUME NEW g PROVE IsFiniteSet(WithScore(g)) /\ WithScore(g) \subseteq Members
  BY FS_Subset DEF LegalConstants, WithScore
<1>5. ASSUME NEW g, NEW m \in WithScore(g) PROVE Score(m, g) \in Int
  BY <1>3, <1>5 DEF WithScore
<1> QED
  BY <1>1, <1>2, <1>3, <1>4, <1>5

Scores(g) == {Score(m, g) : m \in WithScore(g)}
Below(s, g) == {m \in WithScore(g) : Score(m, g) < s}
UpTo(s, g) == {m \in WithScore(g) : Score(m, g) <= s}
AtPlace(s, i, g) == s \in Scores(g) /\ Cardinality(Below(s, g)) < i /\ Cardinality(UpTo(s, g)) >= i

LEMMA ScoresFinite ==
    ASSUME LegalConstants, TablesInv, NEW g
    PROVE  /\ IsFiniteSet(Scores(g)) /\ Scores(g) \subseteq Int
           /\ \A s : /\ IsFiniteSet(Below(s, g)) /\ Cardinality(Below(s, g)) \in Nat
                     /\ IsFiniteSet(UpTo(s, g)) /\ Cardinality(UpTo(s, g)) \in Nat
           /\ Cardinality(WithScore(g)) \in Nat
<1>1. IsFiniteSet(WithScore(g)) /\ \A m \in WithScore(g) : Score(m, g) \in Int
  BY ScoreFacts
<1>2. IsFiniteSet(Scores(g))
  <2> DEFINE f == [m \in WithScore(g) |-> Score(m, g)]
  <2>1. f \in Surjection(WithScore(g), Scores(g))
    BY DEF Surjection, Scores
  <2> QED
    BY <1>1, <2>1, FS_Surjection
<1>3. \A s : Below(s, g) \in SUBSET WithScore(g) /\ UpTo(s, g) \in SUBSET WithScore(g)
  BY DEF Below, UpTo
<1> QED
  BY <1>1, <1>2, <1>3, FS_Subset, FS_CardinalityType DEF Scores

\* There is one score at each place.
LEMMA PlaceUnique ==
    ASSUME LegalConstants, TablesInv, NEW g, NEW i \in Int, NEW s, NEW t,
           AtPlace(s, i, g), AtPlace(t, i, g)
    PROVE  s = t
<1>1. ASSUME NEW a, NEW b, AtPlace(a, i, g), AtPlace(b, i, g), a < b PROVE FALSE
  <2>1. a \in Int /\ b \in Int
    BY <1>1, ScoresFinite DEF AtPlace
  <2>2. UpTo(a, g) \subseteq Below(b, g)
    BY <1>1, <2>1, ScoreFacts DEF UpTo, Below
  <2>3. Cardinality(UpTo(a, g)) <= Cardinality(Below(b, g))
    BY <2>2, ScoresFinite, FS_Subset
  <2> QED
    BY <1>1, <2>3, ScoresFinite DEF AtPlace
<1>2. s \in Int /\ t \in Int
  BY ScoresFinite DEF AtPlace
<1> QED
  BY <1>1, <1>2

LEMMA PlaceIs ==
    ASSUME LegalConstants, TablesInv, NEW g, NEW i \in 1..Cardinality(WithScore(g))
    PROVE  AtPlace(Place(i, g), i, g)
<1> DEFINE W == WithScore(g)
           low == {s \in Scores(g) : Cardinality(Below(s, g)) < i}
<1>1. /\ IsFiniteSet(W) /\ \A m \in W : Score(m, g) \in Int
      /\ IsFiniteSet(Scores(g)) /\ Scores(g) \subseteq Int
  BY ScoreFacts, ScoresFinite
<1>2. W # {} /\ i \in Nat /\ i <= Cardinality(W) /\ 0 < i
  BY <1>1, FS_EmptySet, ScoresFinite
<1>3. low # {}
  <2>1. PICK s \in Scores(g) : \A k \in Scores(g) : s <= k
    BY <1>1, <1>2, Extremes DEF Scores
  <2>2. Below(s, g) = {}
    BY <1>1, <2>1 DEF Below, Scores
  <2> QED
    BY <1>2, <2>2, FS_EmptySet
<1>4. PICK s \in low : \A k \in low : k <= s
  <2>1. IsFiniteSet(low) /\ low \subseteq Int
    BY <1>1, FS_Subset
  <2> HIDE DEF low
  <2> QED
    BY <1>3, <2>1, Extremes
<1>5. Cardinality(UpTo(s, g)) >= i
  <2> DEFINE more == {k \in Scores(g) : s < k}
  <2>1. CASE more = {}
    <3>1. UpTo(s, g) = W
      BY <1>1, <2>1 DEF UpTo, Scores
    <3> QED
      BY <1>2, <3>1, ScoresFinite
  <2>2. CASE more # {}
    <3>1. IsFiniteSet(more) /\ more \subseteq Int
      BY <1>1, FS_Subset
    <3>2. PICK t \in more : \A k \in more : t <= k
      <4> HIDE DEF more
      <4> QED
        BY <2>2, <3>1, Extremes
    <3>3. Below(t, g) = UpTo(s, g)
      <4>1. \A m \in W : Score(m, g) \in Scores(g)
        BY DEF Scores
      <4>2. \A m \in W : Score(m, g) < t <=> Score(m, g) <= s
        <5> TAKE m \in W
        <5>1. Score(m, g) \in Int /\ s \in Int /\ t \in Int /\ s < t
          BY <1>1
        <5>2. s < Score(m, g) => t <= Score(m, g)
          BY <3>2, <4>1
        <5> QED
          BY <5>1, <5>2
      <4> QED
        BY <4>2 DEF Below, UpTo
    <3>4. t \notin low
      BY <1>1, <1>4
    <3> QED
      BY <1>2, <3>3, <3>4, ScoresFinite
  <2> QED
    BY <2>1, <2>2
<1>6. \E t \in Scores(g) : Cardinality(Below(t, g)) < i /\ Cardinality(UpTo(t, g)) >= i
  BY <1>5
<1> QED
  BY <1>6 DEF Place, AtPlace, Scores, Below, UpTo

\* In a week with everybody's score every manager is ranked.
LEMMA FullWeek ==
    ASSUME LegalConstants, TablesInv, NEW g \in Weeks, Full(g)
    PROVE  /\ WithScore(g) = Members /\ Cardinality(Members) \in Nat \ {0}
           /\ \A m \in Members : g \in Ranked(m) /\ Score(m, g) \in Int /\ Score(m, g) \in Scores(g)
<1>1. WithScore(g) = Members /\ IsFiniteSet(Members) /\ Members # {}
  BY DEF Full, LegalConstants
<1>2. Cardinality(Members) \in Nat \ {0}
  BY <1>1, FS_EmptySet, FS_CardinalityType
<1>3. ASSUME NEW m \in Members PROVE g \in Ranked(m) /\ Score(m, g) \in Int /\ Score(m, g) \in Scores(g)
  <2>1. m \in WithScore(g)
    BY <1>1
  <2> QED
    BY <2>1, ScoreFacts DEF WithScore, Ranked, History, Scores
<1> QED
  BY <1>1, <1>2, <1>3

LEMMA LowestScore ==
    ASSUME LegalConstants, TablesInv, NEW g \in Weeks, Full(g)
    PROVE  /\ Place(1, g) \in Scores(g) /\ Place(1, g) \in Int /\ AtPlace(Place(1, g), 1, g)
           /\ \A m \in Members : Place(1, g) <= Score(m, g)
           /\ \A m \in Members : IsLast(m, g) <=> Behind(m, g) = {}
           /\ \A m \in Members : g \in TimesLast(m) <=> Score(m, g) = Place(1, g)
<1>1. /\ WithScore(g) = Members /\ 1 \in 1..Cardinality(WithScore(g))
      /\ \A m \in Members : Score(m, g) \in Int /\ g \in Ranked(m)
  BY FullWeek
<1> DEFINE s == Place(1, g)
<1>2. AtPlace(s, 1, g) /\ s \in Scores(g) /\ s \in Int
  BY <1>1, PlaceIs, ScoresFinite DEF AtPlace
<1>3. Below(s, g) = {}
  <2>1. Cardinality(Below(s, g)) = 0
    BY <1>2, ScoresFinite DEF AtPlace
  <2> QED
    BY <2>1, ScoresFinite, FS_EmptySet
<1> HIDE DEF s
<1>4. \A m \in Members : s <= Score(m, g)
  BY <1>1, <1>2, <1>3 DEF Below
<1>5. PICK w \in Members : s = Score(w, g)
  BY <1>1, <1>2 DEF Scores
<1>6. \A m \in Members : Score(m, g) = s <=> Behind(m, g) = {}
  BY <1>1, <1>2, <1>4, <1>5 DEF Behind
<1> QED
  BY <1>1, <1>2, <1>4, <1>6 DEF IsLast, TimesLast, s

LEMMA BottomIs ==
    ASSUME LegalConstants, TablesInv, NEW g \in Weeks, Full(g), NEW m \in Members
    PROVE  BottomThree(m, g) <=> Cardinality(Behind(m, g)) < 3
<1> DEFINE n == Cardinality(WithScore(g))
           i == Min({3, n})
           s == Place(i, g)
           c == Score(m, g)
<1>1. /\ WithScore(g) = Members /\ IsFiniteSet(Members) /\ n \in Nat \ {0}
      /\ \A k \in Members : Score(k, g) \in Int
  BY FullWeek DEF LegalConstants
<1>2. i \in 1..n /\ i <= 3 /\ (i = 3 \/ i = n)
  <2> HIDE DEF n
  <2>1. IsFiniteSet({3, n}) /\ {3, n} \subseteq Int
    <3>1. IsFiniteSet({3} \cup {n})
      <4>1. IsFiniteSet({3})
        BY FS_Singleton
      <4> QED
        BY <4>1, FS_AddElement
    <3>2. {3} \cup {n} = {3, n}
      OBVIOUS
    <3> QED
      BY <1>1, <3>1, <3>2
  <2>2. Min({3, n}) \in {3, n} /\ \A k \in {3, n} : Min({3, n}) <= k
    BY <2>1, Extremes
  <2> QED
    BY <1>1, <2>2
<1> HIDE DEF i
<1>3. AtPlace(s, i, g) /\ s \in Int
  BY <1>2, PlaceIs, ScoresFinite DEF AtPlace
<1> HIDE DEF s
<1>4. Behind(m, g) = Below(c, g) /\ Cardinality(Below(c, g)) \in Nat /\ c \in Int
  BY <1>1, ScoresFinite DEF Behind, Below
<1>5. ASSUME c <= s PROVE Cardinality(Behind(m, g)) < 3
  <2>1. Below(c, g) \subseteq Below(s, g)
    BY <1>1, <1>3, <1>4, <1>5 DEF Below
  <2>2. Cardinality(Below(c, g)) <= Cardinality(Below(s, g)) /\ Cardinality(Below(s, g)) \in Nat
    BY <2>1, ScoresFinite, FS_Subset
  <2> QED
    BY <1>2, <1>3, <1>4, <2>2 DEF AtPlace
<1>6. ASSUME s < c PROVE Cardinality(Behind(m, g)) >= 3
  <2>1. UpTo(s, g) \subseteq Below(c, g) /\ m \notin UpTo(s, g)
    BY <1>1, <1>3, <1>4, <1>6 DEF Below, UpTo
  <2>2. Cardinality(UpTo(s, g)) <= Cardinality(Below(c, g)) /\ Cardinality(UpTo(s, g)) \in Nat
    BY <2>1, ScoresFinite, FS_Subset
  <2>3. Cardinality(UpTo(s, g)) >= i
    BY <1>3 DEF AtPlace
  <2>4. i # n
    <3>1. UpTo(s, g) \in SUBSET Members /\ UpTo(s, g) # Members
      BY <1>1, <2>1 DEF UpTo
    <3>2. Cardinality(UpTo(s, g)) <= n /\ Cardinality(UpTo(s, g)) # n
      BY <1>1, <3>1, FS_Subset
    <3> QED
      BY <1>1, <2>2, <2>3, <3>2
  <2> QED
    BY <1>2, <1>4, <2>2, <2>3, <2>4
<1> QED
  BY <1>3, <1>4, <1>5, <1>6 DEF BottomThree, s, i

LEMMA RankIs ==
    ASSUME LegalConstants, TablesInv, NEW g \in Weeks, Full(g), NEW m \in Members
    PROVE  Rank(m, g) = Cardinality(Members) + 1 - Cardinality(Behind(m, g))
                          - Cardinality({x \in Members : Score(x, g) = Score(m, g)})
<1> DEFINE same == {x \in Members : Score(x, g) = Score(m, g)}
           behind == Behind(m, g)
           ahead == Ahead(m, g)
<1>1. /\ WithScore(g) = Members /\ IsFiniteSet(Members)
      /\ \A x \in Members : Score(x, g) \in Int
  BY FullWeek DEF LegalConstants
<1>2. /\ Members = (behind \cup ahead) \cup same /\ behind \cap ahead = {}
      /\ (behind \cup ahead) \cap same = {}
  BY <1>1 DEF Behind, Ahead
<1>3. IsFiniteSet(behind) /\ IsFiniteSet(ahead) /\ IsFiniteSet(same) /\ IsFiniteSet(behind \cup ahead)
  BY <1>1, <1>2, FS_Subset
<1>4. /\ Cardinality(behind) \in Nat /\ Cardinality(ahead) \in Nat /\ Cardinality(same) \in Nat
      /\ Cardinality(behind \cup ahead) \in Nat /\ Cardinality({}) = 0
  BY <1>3, FS_CardinalityType, FS_EmptySet
<1> HIDE DEF behind, ahead, same
<1>5. Cardinality(behind \cup ahead) = Cardinality(behind) + Cardinality(ahead) - Cardinality({})
  BY <1>2, <1>3, FS_Union
<1>6. Cardinality(Members) = Cardinality(behind \cup ahead) + Cardinality(same) - Cardinality({})
  BY <1>2, <1>3, FS_Union
<1>7. Rank(m, g) = 1 + Cardinality(ahead)
  BY DEF Rank, ahead
<1>8. Rank(m, g) = Cardinality(Members) + 1 - Cardinality(behind) - Cardinality(same)
  BY <1>4, <1>5, <1>6, <1>7
<1> QED
  BY <1>8 DEF behind, same

LEMMA MarginIs ==
    ASSUME LegalConstants, TablesInv, NEW g \in Weeks, HasMargin(g)
    PROVE  LET last == {m \in Members : g \in TimesLast(m)}
           IN  /\ Margin(g) \in Int /\ Margin(g) >= 0
               /\ Margin(g) = IF Cardinality(last) > 1 THEN 0
                              ELSE Min({Score(m, g) - Place(1, g) : m \in Members \ last})
<1> DEFINE last == {m \in Members : g \in TimesLast(m)}
           a == Place(1, g)
           b == Place(2, g)
<1>1. /\ Full(g) /\ WithScore(g) = Members /\ IsFiniteSet(Members) /\ 2 \in 1..Cardinality(Members)
      /\ \A m \in Members : Score(m, g) \in Int /\ Score(m, g) \in Scores(g)
  BY FullWeek DEF HasMargin, LegalConstants
<1>2. /\ AtPlace(a, 1, g) /\ a \in Int /\ \A m \in Members : a <= Score(m, g)
      /\ \A m \in Members : m \in last <=> Score(m, g) = a
  BY <1>1, LowestScore
<1>3. AtPlace(b, 2, g) /\ b \in Int /\ b \in Scores(g)
  BY <1>1, PlaceIs, ScoresFinite DEF AtPlace
<1> HIDE DEF a, b
<1>4. a <= b
  BY <1>1, <1>2, <1>3 DEF Scores
<1>5. last = UpTo(a, g) /\ IsFiniteSet(last) /\ Cardinality(last) \in Nat
  <2>1. last = UpTo(a, g)
    BY <1>1, <1>2 DEF UpTo
  <2> QED
    BY <2>1, ScoresFinite
<1> HIDE DEF last
<1>6. CASE Cardinality(last) > 1
  <2>1. AtPlace(a, 2, g)
    BY <1>2, <1>5, <1>6, ScoresFinite DEF AtPlace
  <2>2. a = b
    BY <1>3, <2>1, PlaceUnique
  <2> QED
    BY <1>2, <1>6, <2>2 DEF Margin, a, b, last
<1>7. CASE ~(Cardinality(last) > 1)
  <2> DEFINE others == {Score(m, g) - a : m \in Members \ last}
  <2>1. a # b
    <3>1. a # b \/ AtPlace(a, 2, g)
      BY <1>3
    <3> QED
      BY <1>5, <1>7, <3>1, ScoresFinite DEF AtPlace
  <2>2. b - a \in others
    <3>1. PICK m \in Members : b = Score(m, g)
      BY <1>1, <1>3 DEF Scores
    <3> QED
      BY <1>2, <2>1, <3>1
  <2>3. ASSUME NEW m \in Members \ last PROVE b <= Score(m, g)
    <3>1. SUFFICES ASSUME Score(m, g) < b PROVE FALSE
      BY <1>1, <1>3
    <3>2. PICK w \in last : TRUE
      BY <1>1, <1>2, LowestScore DEF AtPlace, Scores
    <3>3. {m, w} \subseteq Below(b, g) /\ m # w
      BY <1>1, <1>2, <1>3, <1>4, <2>1, <2>3, <3>1 DEF Below, last
    <3>4. IsFiniteSet({m, w}) /\ Cardinality({m, w}) = 2
      <4>1. IsFiniteSet({m}) /\ Cardinality({m}) = 1 /\ w \notin {m}
        BY <3>3, FS_Singleton
      <4>2. IsFiniteSet({m} \cup {w}) /\ Cardinality({m} \cup {w}) = 2
        BY <4>1, FS_AddElement
      <4>3. {m} \cup {w} = {m, w}
        OBVIOUS
      <4> QED
        BY <4>2, <4>3
    <3>5. 2 <= Cardinality(Below(b, g))
      BY <3>3, <3>4, ScoresFinite, FS_Subset
    <3> QED
      BY <1>3, <3>5, ScoresFinite DEF AtPlace
  <2>4. \A k \in others : b - a <= k /\ k \in Int
    BY <1>1, <1>2, <1>3, <2>3
  <2>5. Min(others) = b - a
    <3> HIDE DEF others
    <3>1. Min(others) \in others /\ \A k \in others : Min(others) <= k
      BY <2>2, <2>4 DEF Min
    <3> QED
      BY <1>2, <1>3, <2>2, <2>4, <3>1
  <2> QED
    BY <1>2, <1>3, <1>4, <1>7, <2>5 DEF Margin, a, b, last
<1> QED
  BY <1>6, <1>7

LEMMA ManagersAgree ==
    ASSUME LegalConstants, TablesInv, NEW m \in Members
    PROVE  /\ \A g \in Weeks : ~Full(g) => g \notin TimesLast(m) \cup TimesBottomThree(m) \cup Wins(m)
           /\ Escapes(m) = {} <=> TimesLast(m) = Ranked(m)
           /\ \A e \in Escapes(m) : e > 0
           /\ History(m) # {} => Cumulative(m, Max(History(m))) = Total(m, History(m))
           /\ \A l \in Losses(m) : l >= 0
<1>1. \A g \in Weeks : ~Full(g) => g \notin TimesLast(m) \cup TimesBottomThree(m) \cup Wins(m)
  BY DEF TimesLast, TimesBottomThree, Wins, Ranked
<1>2. Escapes(m) = {} <=> TimesLast(m) = Ranked(m)
  <2>1. TimesLast(m) \subseteq Ranked(m)
    BY DEF TimesLast
  <2> QED
    BY <2>1 DEF Escapes
<1>3. \A g \in Ranked(m) : g \in Weeks /\ Full(g)
  BY DEF Ranked, History
<1>4. ASSUME NEW e \in Escapes(m) PROVE e > 0
  <2>1. PICK g \in Ranked(m) \ TimesLast(m) : e = Score(m, g) - Place(1, g)
    BY DEF Escapes
  <2>2. g \in Weeks /\ Full(g)
    BY <1>3
  <2>3. Place(1, g) \in Int /\ Place(1, g) <= Score(m, g) /\ Score(m, g) # Place(1, g) /\ Score(m, g) \in Int
    BY <2>1, <2>2, LowestScore, FullWeek
  <2> QED
    BY <2>1, <2>3
<1>5. ASSUME History(m) # {} PROVE Cumulative(m, Max(History(m))) = Total(m, History(m))
  <2>1. IsFiniteSet(History(m)) /\ History(m) \subseteq Int
    <3>1. History(m) \in SUBSET Weeks /\ IsFiniteSet(Weeks) /\ Weeks \subseteq Int
      BY DEF History, LegalConstants
    <3> QED
      BY <3>1, FS_Subset
  <2>2. \A g \in History(m) : g <= Max(History(m))
    BY <1>5, <2>1, Extremes
  <2>3. {h \in History(m) : h <= Max(History(m))} = History(m)
    BY <2>2
  <2> QED
    BY <2>3 DEF Cumulative
<1>6. ASSUME NEW l \in Losses(m) PROVE l >= 0
  <2>1. PICK g \in TimesLast(m) : HasMargin(g) /\ l = Margin(g)
    BY DEF Losses
  <2>2. g \in Weeks
    BY <1>3 DEF TimesLast
  <2> QED
    BY <2>1, <2>2, MarginIs
<1> QED
  BY <1>1, <1>2, <1>4, <1>5, <1>6

LEMMA LargestIs ==
    ASSUME LegalConstants, TablesInv, NEW a \in Members, NEW b \in Members
    PROVE  LET l == Largest({Score(a, g) - Score(b, g) : g \in Better(a, b)})
           IN  l \in Int /\ \A g \in Better(a, b) : Score(a, g) - Score(b, g) <= l
<1> DEFINE S == {Score(a, g) - Score(b, g) : g \in Better(a, b)}
<1>1. \A g \in Better(a, b) : Score(a, g) \in Int /\ Score(b, g) \in Int
  BY ScoreFacts DEF Better, Common, History
<1>2. IsFiniteSet(Better(a, b))
  BY FS_Subset DEF Better, Common, History, LegalConstants
<1>3. IsFiniteSet(S) /\ S \subseteq Int
  <2> DEFINE f == [g \in Better(a, b) |-> Score(a, g) - Score(b, g)]
  <2>1. f \in Surjection(Better(a, b), S)
    BY DEF Surjection
  <2> QED
    BY <1>1, <1>2, <2>1, FS_Surjection
<1>4. S # {} => Max(S) \in S /\ \A k \in S : k <= Max(S)
  BY <1>3, Extremes
<1> QED
  BY <1>3, <1>4 DEF Largest

\* What one manager has more than another over the weeks both played is at most his largest
\* win, as often as he won.
LEMMA AheadAtMost ==
    ASSUME LegalConstants, TablesInv, NEW a \in Members, NEW b \in Members
    PROVE  LET l == Largest({Score(a, g) - Score(b, g) : g \in Better(a, b)})
           IN  /\ Total(a, Common(a, b)) \in Int /\ Total(b, Common(a, b)) \in Int
               /\ Cardinality(Better(a, b)) \in Nat /\ l \in Int /\ l * Cardinality(Better(a, b)) \in Int
               /\ Total(a, Common(a, b)) - Total(b, Common(a, b)) <= l * Cardinality(Better(a, b))
<1> DEFINE l == Largest({Score(a, g) - Score(b, g) : g \in Better(a, b)})
           C == Common(a, b)
           W == Better(a, b)
           A == [g \in C |-> Score(a, g)]
           B == [g \in C |-> Score(b, g)]
           D == [g \in C |-> Score(a, g) - Score(b, g)]
           U == [g \in C |-> IF g \in W THEN l ELSE 0]
<1>1. \A g \in C : Score(a, g) \in Int /\ Score(b, g) \in Int
  BY ScoreFacts DEF Common, History
<1>2. IsFiniteSet(C) /\ IsFiniteSet(W) /\ W \in SUBSET C /\ Cardinality(W) \in Nat
  BY FS_Subset, FS_CardinalityType DEF Better, Common, History, LegalConstants
<1>3. l \in Int /\ \A g \in W : Score(a, g) - Score(b, g) <= l
  BY LargestIs
<1>4. \A g \in C : g \notin W => Score(a, g) <= Score(b, g)
  BY <1>1 DEF Better
<1> HIDE DEF l, C, W
<1>5. \A g \in C : /\ A[g] = D[g] + B[g] /\ A[g] \in Int /\ D[g] \in Int /\ B[g] \in Int
                    /\ U[g] \in Int /\ D[g] <= U[g] /\ (g \notin W => U[g] = 0) /\ (g \in W => U[g] = l)
  BY <1>1, <1>3, <1>4
<1>6. Total(a, C) = Added(A, C) /\ Total(b, C) = Added(B, C)
  BY SumIs DEF Total
<1> HIDE DEF A, B, D, U
<1>7. /\ Added(A, C) = Added(D, C) + Added(B, C)
      /\ Added(A, C) \in Int /\ Added(B, C) \in Int /\ Added(D, C) \in Int
  BY <1>2, <1>5, AddedPlus, AddedInt
<1>8. Added(D, C) <= Added(U, C)
  BY <1>2, <1>5, AddedOrder
<1>9. Added(U, C) = Added(U, W)
  BY <1>2, <1>5, AddedPart
<1>10. Added(U, W) = l * Cardinality(W) /\ Added(U, W) \in Int
  <2>1. \A g \in W : U[g] = l /\ U[g] \in Int
    BY <1>2, <1>5
  <2> QED
    BY <1>2, <1>3, <2>1, AddedSame, AddedInt
<1>11. Total(a, C) - Total(b, C) <= l * Cardinality(W)
  BY <1>6, <1>7, <1>8, <1>9, <1>10
<1> QED
  BY <1>2, <1>3, <1>6, <1>7, <1>10, <1>11 DEF l, C, W

LEMMA ColumnsHold ==
    ASSUME LegalConstants, TablesInv
    PROVE  ColumnsAgree
<1>1. ASSUME NEW g \in Weeks, Full(g)
      PROVE  LET last == {m \in Members : g \in TimesLast(m)}
             IN  /\ last # {} /\ \A m \in last : Behind(m, g) = {}
                 /\ {m \in Members : g \in TimesBottomThree(m)} = {m \in Members : Cardinality(Behind(m, g)) < 3}
                 /\ HasMargin(g) => Margin(g) =
                        IF Cardinality(last) > 1 THEN 0
                        ELSE Min({Score(m, g) - Place(1, g) : m \in Members \ last})
                 /\ \A m \in Members : Rank(m, g) = Cardinality(Members) + 1 - Cardinality(Behind(m, g))
                                       - Cardinality({x \in Members : Score(x, g) = Score(m, g)})
  <2> DEFINE last == {m \in Members : g \in TimesLast(m)}
  <2>1. last # {} /\ \A m \in last : Behind(m, g) = {}
    <3>1. PICK m \in Members : Score(m, g) = Place(1, g)
      BY <1>1, LowestScore, FullWeek DEF Scores
    <3>2. \A w \in Members : g \in TimesLast(w) <=> Score(w, g) = Place(1, g)
      BY <1>1, LowestScore
    <3>3. \A w \in Members : IsLast(w, g) <=> Behind(w, g) = {}
      BY <1>1, LowestScore
    <3> QED
      BY <3>1, <3>2, <3>3 DEF IsLast
  <2>2. {m \in Members : g \in TimesBottomThree(m)} = {m \in Members : Cardinality(Behind(m, g)) < 3}
    BY <1>1, BottomIs, FullWeek DEF TimesBottomThree
  <2>3. HasMargin(g) => Margin(g) =
            IF Cardinality(last) > 1 THEN 0 ELSE Min({Score(m, g) - Place(1, g) : m \in Members \ last})
    BY MarginIs
  <2>4. \A m \in Members : Rank(m, g) = Cardinality(Members) + 1 - Cardinality(Behind(m, g))
                                       - Cardinality({x \in Members : Score(x, g) = Score(m, g)})
    BY <1>1, RankIs
  <2> QED
    BY <2>1, <2>2, <2>3, <2>4
<1>2. ASSUME NEW a \in Members, NEW b \in Members
      PROVE  LET ab == HeadToHead(a, b)
                 ba == HeadToHead(b, a)
             IN  /\ ab.a_wins = ba.b_wins /\ ab.largest_a = ba.largest_b /\ ab.a_points = ba.b_points
                 /\ ab.a_points - ab.b_points \in
                        -(ab.largest_b * Cardinality(ab.b_wins))..(ab.largest_a * Cardinality(ab.a_wins))
  <2>1. Common(a, b) = Common(b, a)
    BY DEF Common
  <2> DEFINE la == Largest({Score(a, g) - Score(b, g) : g \in Better(a, b)})
             lb == Largest({Score(b, g) - Score(a, g) : g \in Better(b, a)})
             A == Total(a, Common(a, b))
             B == Total(b, Common(a, b))
             H == la * Cardinality(Better(a, b))
             L == lb * Cardinality(Better(b, a))
  <2>2. A \in Int /\ B \in Int /\ H \in Int /\ A - B <= H
    BY AheadAtMost
  <2>3. L \in Int /\ B - A <= L
    BY <2>1, AheadAtMost
  <2>4. A - B \in (-L)..H
    <3> HIDE DEF A, B, H, L
    <3> QED
      BY <2>2, <2>3
  <2>5. /\ HeadToHead(a, b).a_wins = Better(a, b) /\ HeadToHead(a, b).b_wins = Better(b, a)
        /\ HeadToHead(a, b).largest_a = la /\ HeadToHead(a, b).largest_b = lb
        /\ HeadToHead(a, b).a_points = A /\ HeadToHead(a, b).b_points = B
    BY DEF HeadToHead
  <2>6. /\ HeadToHead(b, a).b_wins = Better(a, b) /\ HeadToHead(b, a).largest_b = la
        /\ HeadToHead(b, a).b_points = A
    BY <2>1 DEF HeadToHead
  <2> QED
    BY <2>4, <2>5, <2>6
<1> QED
  BY <1>1, <1>2, ManagersAgree DEF ColumnsAgree

-----------------------------------------------------------------------------
(* The contributions.                                                       *)

LEMMA AddedOne ==
    ASSUME NEW f, NEW x, f[x] \in Int
    PROVE  Added(f, {x}) = f[x]
<1>1. IsFiniteSet({x}) /\ {x} \ {x} = {}
  BY FS_Singleton
<1>2. Added(f, {x}) = f[x] + Added(f, {x} \ {x})
  BY <1>1, AddedFirst
<1> QED
  BY <1>1, <1>2, AddedEmpty

\* A relation of K and C: D[k] is what k is related to, E[p] what is related to p.  Values of
\* its pairs add up to the same by k and by p.
Related(K, C, D, E) ==
    /\ \A k \in K : D[k] \subseteq C
    /\ \A p \in C : E[p] \subseteq K
    /\ \A k \in K, p \in C : p \in D[k] <=> k \in E[p]
PairValues(row, column, K, D) ==
    \A k \in K : \A p \in D[k] : row[k][p] \in Int /\ column[p][k] = row[k][p]
SumsOver(h, row, K, D) == \A k \in K : h[k] = Added(row[k], D[k])

LEMMA AddedAcross ==
    ASSUME NEW K, NEW C, IsFiniteSet(K), IsFiniteSet(C), NEW D, NEW E, Related(K, C, D, E),
           NEW row, NEW column, PairValues(row, column, K, D),
           NEW h, NEW g, SumsOver(h, row, K, D), SumsOver(g, column, C, E)
    PROVE  Added(h, K) = Added(g, C)
<1> USE DEF Related, PairValues, SumsOver
<1> DEFINE rows0 == [k \in K |-> [p \in C |-> IF p \in D[k] THEN row[k][p] ELSE 0]]
           columns0 == [p \in C |-> [k \in K |-> IF p \in D[k] THEN row[k][p] ELSE 0]]
<1>1. \A k \in K, p \in C : rows0[k][p] \in Int /\ columns0[p][k] = rows0[k][p]
  OBVIOUS
<1>2. ASSUME NEW k \in K PROVE h[k] = Added(rows0[k], C)
  <2> DEFINE r == rows0[k]
  <2>1. D[k] \in SUBSET C /\ IsFiniteSet(D[k])
    BY FS_Subset
  <2>2. /\ \A p \in C : r[p] \in Int /\ (p \notin D[k] => r[p] = 0)
        /\ \A p \in D[k] : r[p] = row[k][p]
    OBVIOUS
  <2> HIDE DEF r
  <2>3. Added(r, C) = Added(r, D[k])
    BY <2>1, <2>2, AddedPart
  <2>4. Added(r, D[k]) = Added(row[k], D[k])
    BY <2>1, <2>2, SameAdded
  <2> QED
    BY <2>3, <2>4 DEF r
<1>3. ASSUME NEW p \in C PROVE g[p] = Added(columns0[p], K)
  <2> DEFINE c == columns0[p]
  <2>1. E[p] \in SUBSET K /\ IsFiniteSet(E[p])
    BY FS_Subset
  <2>2. /\ \A k \in K : c[k] \in Int /\ (k \notin E[p] => c[k] = 0)
        /\ \A k \in E[p] : c[k] = column[p][k]
    OBVIOUS
  <2> HIDE DEF c
  <2>3. Added(c, K) = Added(c, E[p])
    BY <2>1, <2>2, AddedPart
  <2>4. Added(c, E[p]) = Added(column[p], E[p])
    BY <2>1, <2>2, SameAdded
  <2> QED
    BY <2>3, <2>4 DEF c
<1>4. Table(rows0, columns0, K, C) /\ SumsOf(h, rows0, K, C) /\ SumsOf(g, columns0, C, K)
  BY <1>1, <1>2, <1>3 DEF Table, SumsOf
<1> HIDE DEF rows0, columns0, Related, PairValues, SumsOver
<1> QED
  BY <1>4, AddedTwice

\* The same for pairs that are only counted.
LEMMA CountedAcross ==
    ASSUME NEW K, NEW C, IsFiniteSet(K), IsFiniteSet(C), NEW D, NEW E, Related(K, C, D, E),
           NEW h, \A k \in K : h[k] = Cardinality(D[k]),
           NEW g, \A p \in C : g[p] = Cardinality(E[p])
    PROVE  Added(h, K) = Added(g, C)
<1> DEFINE row == [k \in K |-> [p \in C |-> 1]]
           column == [p \in C |-> [k \in K |-> 1]]
<1>0. \A k \in K, p \in C : row[k][p] = 1 /\ column[p][k] = 1
  OBVIOUS
<1> HIDE DEF row, column
<1> USE DEF Related
<1>1. \A k \in K : \A p \in D[k] : row[k][p] = 1 /\ row[k][p] \in Int /\ column[p][k] = row[k][p]
  BY <1>0
<1>2. \A p \in C : \A k \in E[p] : column[p][k] = 1
  BY <1>0
<1>3. ASSUME NEW k \in K PROVE h[k] = Added(row[k], D[k])
  <2>1. IsFiniteSet(D[k]) /\ Cardinality(D[k]) \in Nat
    BY FS_Subset, FS_CardinalityType
  <2>2. Added(row[k], D[k]) = 1 * Cardinality(D[k])
    BY <1>1, <2>1, AddedSame
  <2> QED
    BY <2>1, <2>2
<1>4. ASSUME NEW p \in C PROVE g[p] = Added(column[p], E[p])
  <2>1. IsFiniteSet(E[p]) /\ Cardinality(E[p]) \in Nat
    BY FS_Subset, FS_CardinalityType
  <2>2. Added(column[p], E[p]) = 1 * Cardinality(E[p])
    BY <1>2, <2>1, AddedSame
  <2> QED
    BY <2>1, <2>2
<1>5. PairValues(row, column, K, D) /\ SumsOver(h, row, K, D) /\ SumsOver(g, column, C, E)
  BY <1>1, <1>3, <1>4 DEF PairValues, SumsOver
<1> HIDE DEF Related
<1> QED
  BY <1>5, AddedAcross

LEMMA FirstIs ==
    ASSUME NEW x, LegalSelection(x), NEW S, S \subseteq DOMAIN x.players, S # {}
    PROVE  First(x, S) \in S
<1> DEFINE T == {x.players[p].slot : p \in S}
<1>1. IsFiniteSet(S) /\ \A p \in S : x.players[p].slot \in Nat
  BY FS_Subset DEF LegalSelection
<1>2. IsFiniteSet(T) /\ T \subseteq Int /\ T # {}
  <2> DEFINE f == [p \in S |-> x.players[p].slot]
  <2>1. f \in Surjection(S, T)
    BY DEF Surjection
  <2> QED
    BY <1>1, <2>1, FS_Surjection
<1>3. PICK t \in T : \A k \in T : t <= k
  <2> HIDE DEF T
  <2> QED
    BY <1>2, Extremes
<1>4. \E p \in S : \A q \in S : x.players[p].slot <= x.players[q].slot
  BY <1>3
<1> QED
  BY <1>4 DEF First

\* Of one player: what counted is his points, what the armband added, less what stayed unused.
LEMMA PointsSplit ==
    ASSUME NEW x, LegalSelection(x), NEW p \in DOMAIN x.players
    PROVE  /\ x.players[p].points \in Int /\ Counted(x, p) \in Int /\ Additional(x, p) \in Int
           /\ Counted(x, p) + (IF p \in Benched(x) /\ x.players[p].multiplier = 0 /\ x.chip # "bboost"
                               THEN x.players[p].points ELSE 0)
                = x.players[p].points + Additional(x, p)
<1> DEFINE b == x.players[p].points
           n == x.players[p].multiplier
           e == Max({0, n - 1})
<1>1. b \in Int /\ n \in Nat
  BY DEF LegalSelection
<1>2. n = 0 /\ b # 0 => p \in Benched(x) /\ x.chip # "bboost"
  BY DEF LegalSelection
<1> HIDE DEF b, n
<1>3. e = IF n = 0 THEN 0 ELSE n - 1
  <2>1. IsFiniteSet({0}) /\ {0} \cup {n - 1} = {0, n - 1}
    BY FS_Singleton
  <2>2. IsFiniteSet({0, n - 1}) /\ {0, n - 1} \subseteq Int
    BY <1>1, <2>1, FS_AddElement
  <2>3. e \in {0, n - 1} /\ \A k \in {0, n - 1} : k <= e
    BY <2>2, Extremes
  <2> QED
    BY <1>1, <2>3
<1> HIDE DEF e
<1>4. b * n \in Int /\ b * e \in Int
  <2>1. e \in Int
    BY <1>1, <1>3
  <2> QED
    BY <1>1, <2>1
<1>5. CASE n = 0
  <2>1. b * n = 0 /\ b * e = 0
    BY <1>1, <1>3, <1>5
  <2>2. Counted(x, p) = 0 /\ Additional(x, p) = 0
    BY <2>1 DEF Counted, Additional, b, n, e
  <2>3. (IF p \in Benched(x) /\ n = 0 /\ x.chip # "bboost" THEN b ELSE 0) = b
    BY <1>2, <1>5
  <2> QED
    BY <1>1, <2>2, <2>3 DEF b, n
<1>6. CASE n # 0
  <2>1. b * n = b + b * (n - 1)
    BY <1>1
  <2> QED
    BY <1>1, <1>3, <1>4, <1>6, <2>1 DEF Counted, Additional, b, n, e
<1> QED
  BY <1>5, <1>6

\* Of a final squad that is complete and adds up: its points, by player.
LEMMA DetailIs ==
    ASSUME NEW x, LegalSelection(x), Complete(x), AddsUp(x)
    PROVE  LET d == Detail(x)
               dom == DOMAIN d.players
           IN  /\ IsFiniteSet(dom) /\ Cardinality(dom) = SquadSize /\ d.captain \in dom
               /\ d.raw \in Int /\ d.unused \in Int /\ d.additional \in Int
               /\ \A p \in dom : /\ d.players[p].points \in Int /\ d.players[p].base \in Int
                                 /\ d.players[p].additional \in Int
               /\ Sum([p \in dom |-> d.players[p].points]) = d.raw
               /\ Sum([p \in dom |-> d.players[p].base]) + Sum([p \in dom |-> d.players[p].additional])
                      = d.raw + d.unused
<1> DEFINE dom == DOMAIN x.players
           out == {q \in Benched(x) : x.players[q].multiplier = 0}
           points == [p \in dom |-> Counted(x, p)]
           bases == [p \in dom |-> x.players[p].points]
           extra == [p \in dom |-> Additional(x, p)]
           rest == [p \in dom |->
                      IF p \in Benched(x) /\ x.players[p].multiplier = 0 /\ x.chip # "bboost"
                      THEN x.players[p].points ELSE 0]
           both == [p \in dom |-> points[p] + rest[p]]
           left == [p \in out |-> x.players[p].points]
<1>1. IsFiniteSet(dom) /\ Cardinality(dom) = SquadSize
  BY DEF LegalSelection, Complete
<1>2. \A p \in dom : /\ x.players[p].points \in Int /\ Counted(x, p) \in Int /\ Additional(x, p) \in Int
                     /\ x.players[p].multiplier \in Nat
  BY PointsSplit DEF LegalSelection
<1>3. First(x, {p \in dom : x.players[p].captain}) \in dom
  <2>1. {p \in dom : x.players[p].captain} # {} /\ {p \in dom : x.players[p].captain} \subseteq dom
    BY DEF Complete
  <2> QED
    BY <2>1, FirstIs
<1>4. CaptainAdditional(x) \in Int
  <2>1. CASE Doubled(x) = {}
    BY <2>1 DEF CaptainAdditional
  <2>2. CASE Doubled(x) # {}
    <3>1. First(x, Doubled(x)) \in dom
      BY <2>2, FirstIs DEF Doubled
    <3>2. CaptainAdditional(x) = x.players[First(x, Doubled(x))].points
                                  * (x.players[First(x, Doubled(x))].multiplier - 1)
      BY <2>2 DEF CaptainAdditional
    <3> QED
      BY <1>2, <3>1, <3>2
  <2> QED
    BY <2>1, <2>2
<1>5. /\ out \in SUBSET dom /\ IsFiniteSet(out)
      /\ \A p \in dom : rest[p] \in Int /\ (p \notin out => rest[p] = 0)
      /\ \A p \in out : left[p] \in Int /\ (x.chip # "bboost" => rest[p] = left[p])
                        /\ (x.chip = "bboost" => rest[p] = 0)
  BY <1>1, <1>2, FS_Subset DEF Benched
<1>6. Unused(x) = Added(rest, dom)
  <2>1. Added(rest, dom) = Added(rest, out)
    <3> HIDE DEF rest, dom, out
    <3> QED
      BY <1>1, <1>5, AddedPart
  <2>2. CASE x.chip = "bboost"
    <3>1. Added(rest, out) = 0 * Cardinality(out) /\ Cardinality(out) \in Nat
      <4> HIDE DEF rest, dom, out
      <4> QED
        BY <1>5, <2>2, AddedSame, FS_CardinalityType
    <3> QED
      BY <2>1, <2>2, <3>1 DEF Unused
  <2>3. CASE x.chip # "bboost"
    <3>1. Added(rest, out) = Added(left, out)
      <4> HIDE DEF rest, left, dom, out
      <4> QED
        BY <1>5, <2>3, SameAdded
    <3>2. Unused(x) = Sum(left)
      BY <2>3 DEF Unused
    <3>3. DOMAIN left = out
      OBVIOUS
    <3> HIDE DEF rest, left, dom, out
    <3> QED
      BY <2>1, <3>1, <3>2, <3>3, SumIs
  <2> QED
    BY <2>2, <2>3
<1>7. /\ \A p \in dom : /\ both[p] = points[p] + rest[p] /\ both[p] = bases[p] + extra[p]
                        /\ points[p] \in Int /\ rest[p] \in Int /\ bases[p] \in Int /\ extra[p] \in Int
      /\ DOMAIN points = dom /\ DOMAIN bases = dom /\ DOMAIN extra = dom
  BY <1>2, <1>5, PointsSplit
<1>8. Sum(points) = x.points
  BY DEF AddsUp
<1>9. Sum(bases) + Sum(extra) = x.points + Unused(x)
  <2> HIDE DEF points, rest, both, bases, extra, dom
  <2>1. Added(both, dom) = Added(points, dom) + Added(rest, dom)
    BY <1>1, <1>7, AddedPlus
  <2>2. Added(both, dom) = Added(bases, dom) + Added(extra, dom)
    BY <1>1, <1>7, AddedPlus
  <2> QED
    BY <1>6, <1>7, <1>8, <2>1, <2>2, SumIs
<1>10. x.points \in Int /\ Unused(x) \in Int
  <2>1. Added(rest, dom) \in Int
    <3> HIDE DEF rest, dom
    <3> QED
      BY <1>1, <1>7, AddedInt
  <2> QED
    BY <1>6, <2>1 DEF LegalSelection
<1> DEFINE d == Detail(x)
<1>11. /\ DOMAIN d.players = dom /\ d.captain = First(x, {p \in dom : x.players[p].captain})
       /\ d.raw = x.points /\ d.unused = Unused(x) /\ d.additional = CaptainAdditional(x)
       /\ \A p \in dom : /\ d.players[p].points = Counted(x, p) /\ d.players[p].base = x.players[p].points
                         /\ d.players[p].additional = Additional(x, p)
  BY DEF Detail
<1> HIDE DEF d
<1>12. /\ [p \in DOMAIN d.players |-> d.players[p].points] = points
       /\ [p \in DOMAIN d.players |-> d.players[p].base] = bases
       /\ [p \in DOMAIN d.players |-> d.players[p].additional] = extra
  BY <1>11
<1> HIDE DEF points, bases, extra, dom
<1> QED
  BY <1>1, <1>2, <1>3, <1>4, <1>8, <1>9, <1>10, <1>11, <1>12 DEF d

\* The same of what is stored of a verified squad.
LEMMA StoredIs ==
    ASSUME LegalConstants, TablesInv, NEW k \in DOMAIN details
    PROVE  LET d == details[k]
               dom == DOMAIN d.players
           IN  /\ IsFiniteSet(dom) /\ Cardinality(dom) = SquadSize /\ d.captain \in dom
               /\ d.raw \in Int /\ d.unused \in Int /\ d.additional \in Int
               /\ \A p \in dom : /\ d.players[p].points \in Int /\ d.players[p].base \in Int
                                 /\ d.players[p].additional \in Int
               /\ Sum([p \in dom |-> d.players[p].points]) = d.raw
               /\ Sum([p \in dom |-> d.players[p].base]) + Sum([p \in dom |-> d.players[p].additional])
                      = d.raw + d.unused
<1>1. PICK x \in Selections : Complete(x) /\ AddsUp(x) /\ details[k] = Detail(x)
  BY DEF TablesInv
<1>2. LegalSelection(x)
  BY DEF LegalConstants
<1> QED
  BY <1>1, <1>2, DetailIs

LEMMA StoredFinite ==
    ASSUME LegalConstants, TablesInv
    PROVE  /\ IsFiniteSet(DOMAIN details) /\ IsFiniteSet(Contributors)
           /\ \A k \in DOMAIN details : /\ k[1] \in Members /\ k[2] \in Weeks /\ k = <<k[1], k[2]>>
                                        /\ k \in DOMAIN rows
           /\ \A k \in DOMAIN details : DOMAIN details[k].players \subseteq Contributors
<1>1. \A k \in DOMAIN details : /\ k[1] \in Members /\ k[2] \in Weeks /\ k = <<k[1], k[2]>>
                                /\ k \in DOMAIN rows /\ k \in Members \X Weeks
  BY DEF TablesInv
<1>2. IsFiniteSet(DOMAIN details)
  <2>1. IsFiniteSet(Members \X Weeks)
    BY FS_Product DEF LegalConstants
  <2>2. DOMAIN details \in SUBSET (Members \X Weeks)
    BY <1>1
  <2> QED
    BY <2>1, <2>2, FS_Subset
<1>3. IsFiniteSet(Contributors)
  <2> DEFINE S == {DOMAIN details[k].players : k \in DOMAIN details}
             f == [k \in DOMAIN details |-> DOMAIN details[k].players]
  <2>1. f \in Surjection(DOMAIN details, S)
    BY DEF Surjection
  <2>2. IsFiniteSet(S)
    BY <1>2, <2>1, FS_Surjection
  <2>3. \A T \in S : IsFiniteSet(T)
    BY StoredIs
  <2> HIDE DEF S
  <2>4. IsFiniteSet(UNION S)
    BY <2>2, <2>3, FS_UNION
  <2> QED
    BY <2>4 DEF Contributors, S
<1>4. \A k \in DOMAIN details : DOMAIN details[k].players \subseteq Contributors
  BY DEF Contributors
<1> QED
  BY <1>1, <1>2, <1>3, <1>4

\* By squad and by player: what the players' contributions come from.
LEMMA PointsAddUp ==
    ASSUME LegalConstants, TablesInv
    PROVE  LET raw == SumDetails(DOMAIN details, LAMBDA d : d.raw)
               bases == SumDetails(DOMAIN details, LAMBDA d : Sum([p \in DOMAIN d.players |-> d.players[p].base]))
           IN  /\ Sum([p \in Contributors |-> Contribution(p).points]) = raw
               /\ raw - Sum([p \in Contributors |-> Contribution(p).additional]) + SeasonTotals.bench = bases
<1> DEFINE K == DOMAIN details
           C == Contributors
           raws == [k \in K |-> details[k].raw]
           unused == [k \in K |-> details[k].unused]
           base == [k \in K |-> Sum([p \in DOMAIN details[k].players |-> details[k].players[p].base])]
           extra == [k \in K |-> Sum([p \in DOMAIN details[k].players |-> details[k].players[p].additional])]
           both == [k \in K |-> details[k].raw + details[k].unused]
           pointsOf == [p \in C |-> Contribution(p).points]
           extraOf == [p \in C |-> Contribution(p).additional]
           Points == [k \in K |-> [p \in DOMAIN details[k].players |-> details[k].players[p].points]]
           PointsBy == [p \in C |-> [k \in WithPlayer(p) |-> details[k].players[p].points]]
           Extra == [k \in K |-> [p \in DOMAIN details[k].players |-> details[k].players[p].additional]]
           ExtraBy == [p \in C |-> [k \in WithPlayer(p) |-> details[k].players[p].additional]]
           D == [k \in K |-> DOMAIN details[k].players]
           E == [p \in C |-> WithPlayer(p)]
<1>1. IsFiniteSet(K) /\ IsFiniteSet(C)
  BY StoredFinite
<1>2. /\ \A k \in K : \A p \in DOMAIN details[k].players :
            /\ p \in C /\ k \in WithPlayer(p)
            /\ Points[k][p] = details[k].players[p].points /\ Points[k][p] \in Int
            /\ Extra[k][p] = details[k].players[p].additional /\ Extra[k][p] \in Int
            /\ PointsBy[p][k] = Points[k][p] /\ ExtraBy[p][k] = Extra[k][p]
      /\ \A k \in K : DOMAIN Points[k] = DOMAIN details[k].players /\ DOMAIN Extra[k] = DOMAIN details[k].players
      /\ \A p \in C : DOMAIN PointsBy[p] = WithPlayer(p) /\ DOMAIN ExtraBy[p] = WithPlayer(p)
  BY StoredIs DEF Contributors, WithPlayer
<1>3. ASSUME NEW k \in K
      PROVE  /\ raws[k] = Added(Points[k], DOMAIN details[k].players)
             /\ extra[k] = Added(Extra[k], DOMAIN details[k].players)
             /\ raws[k] \in Int /\ unused[k] \in Int /\ base[k] \in Int /\ extra[k] \in Int
             /\ base[k] + extra[k] = raws[k] + unused[k]
  <2> DEFINE dom == DOMAIN details[k].players
             bs == [p \in dom |-> details[k].players[p].base]
  <2>1. /\ raws[k] = Sum(Points[k]) /\ extra[k] = Sum(Extra[k]) /\ base[k] = Sum(bs)
        /\ raws[k] \in Int /\ unused[k] \in Int /\ base[k] + extra[k] = raws[k] + unused[k]
    BY StoredIs
  <2>2. IsFiniteSet(dom) /\ \A p \in dom : bs[p] \in Int
    BY StoredIs
  <2>3. Sum(bs) = Added(bs, dom) /\ Sum(Points[k]) = Added(Points[k], dom) /\ Sum(Extra[k]) = Added(Extra[k], dom)
    <3>1. DOMAIN bs = dom /\ DOMAIN Points[k] = dom /\ DOMAIN Extra[k] = dom
      OBVIOUS
    <3> HIDE DEF bs, Points, Extra, dom
    <3> QED
      BY <3>1, SumIs
  <2>4. Added(bs, dom) \in Int /\ Added(Extra[k], dom) \in Int
    <3>1. \A p \in dom : Extra[k][p] \in Int
      BY <1>2
    <3> HIDE DEF bs, Extra, dom
    <3> QED
      BY <2>2, <3>1, AddedInt
  <2> HIDE DEF raws, unused, base, extra, Points, Extra, bs
  <2> QED
    BY <2>1, <2>3, <2>4
<1>4. \A p \in C : pointsOf[p] = Added(PointsBy[p], WithPlayer(p)) /\ extraOf[p] = Added(ExtraBy[p], WithPlayer(p))
  <2> TAKE p \in C
  <2>1. pointsOf[p] = Sum(PointsBy[p]) /\ extraOf[p] = Sum(ExtraBy[p])
    BY DEF Contribution, SumDetails
  <2>2. DOMAIN PointsBy[p] = WithPlayer(p) /\ DOMAIN ExtraBy[p] = WithPlayer(p)
    BY <1>2
  <2> HIDE DEF pointsOf, extraOf, PointsBy, ExtraBy
  <2> QED
    BY <2>1, <2>2, SumIs
<1>5. /\ SumDetails(K, LAMBDA d : d.raw) = Sum(raws) /\ SeasonTotals.bench = Sum(unused)
      /\ SumDetails(K, LAMBDA d : Sum([p \in DOMAIN d.players |-> d.players[p].base])) = Sum(base)
  BY DEF SumDetails, SeasonTotals
<1>6. /\ DOMAIN raws = K /\ DOMAIN unused = K /\ DOMAIN base = K /\ DOMAIN pointsOf = C /\ DOMAIN extraOf = C
      /\ \A k \in K : both[k] = raws[k] + unused[k]
  OBVIOUS
<1>7. /\ Related(K, C, D, E) /\ PairValues(Points, PointsBy, K, D) /\ PairValues(Extra, ExtraBy, K, D)
      /\ SumsOver(raws, Points, K, D) /\ SumsOver(extra, Extra, K, D)
      /\ SumsOver(pointsOf, PointsBy, C, E) /\ SumsOver(extraOf, ExtraBy, C, E)
  <2>1. /\ \A k \in K : D[k] = DOMAIN details[k].players /\ D[k] \subseteq C
        /\ \A p \in C : E[p] = WithPlayer(p)
    BY StoredFinite
  <2>2. Related(K, C, D, E)
    BY <2>1 DEF Related, WithPlayer
  <2> HIDE DEF raws, extra, pointsOf, extraOf, Points, PointsBy, Extra, ExtraBy, D, E, C
  <2>3. PairValues(Points, PointsBy, K, D) /\ PairValues(Extra, ExtraBy, K, D)
    BY <1>2, <2>1 DEF PairValues
  <2>4. SumsOver(raws, Points, K, D) /\ SumsOver(extra, Extra, K, D)
    BY <1>3, <2>1 DEF SumsOver
  <2>5. SumsOver(pointsOf, PointsBy, C, E) /\ SumsOver(extraOf, ExtraBy, C, E)
    BY <1>4, <2>1 DEF SumsOver
  <2> QED
    BY <2>2, <2>3, <2>4, <2>5
<1> HIDE DEF raws, unused, base, extra, both, pointsOf, extraOf, Points, PointsBy, Extra, ExtraBy, D, E
<1>8. Added(pointsOf, C) = Added(raws, K) /\ Added(extraOf, C) = Added(extra, K)
  <2> HIDE DEF K, C
  <2>1. Added(raws, K) = Added(pointsOf, C)
    BY <1>1, <1>7, AddedAcross
  <2>2. Added(extra, K) = Added(extraOf, C)
    BY <1>1, <1>7, AddedAcross
  <2> QED
    BY <2>1, <2>2
<1>9. /\ Added(both, K) = Added(raws, K) + Added(unused, K)
      /\ Added(both, K) = Added(base, K) + Added(extra, K)
      /\ Added(raws, K) \in Int /\ Added(unused, K) \in Int /\ Added(base, K) \in Int /\ Added(extra, K) \in Int
  BY <1>1, <1>3, <1>6, AddedPlus, AddedInt
<1>10. /\ Sum(raws) = Added(raws, K) /\ Sum(unused) = Added(unused, K) /\ Sum(base) = Added(base, K)
       /\ Sum(pointsOf) = Added(pointsOf, C) /\ Sum(extraOf) = Added(extraOf, C)
  BY <1>6, SumIs
<1>11. /\ Sum(pointsOf) = Sum(raws)
       /\ Sum(raws) - Sum(extraOf) + Sum(unused) = Sum(base)
  <2> HIDE DEF K, C
  <2> QED
    BY <1>8, <1>9, <1>10
<1> QED
  BY <1>5, <1>11 DEF pointsOf, extraOf

\* Every verified squad has one captain and the full number of players, in each Gameweek.
LEMMA OwnersAddUp ==
    ASSUME LegalConstants, TablesInv, NEW g \in Weeks
    PROVE  /\ Sum([p \in Contributors |-> Cardinality(Owned(p, g))]) = SquadSize * Cardinality(WithDetail(g))
           /\ Sum([p \in Contributors |-> Cardinality(Captains(p, g))]) = Cardinality(WithDetail(g))
<1> DEFINE K == WithDetail(g)
           C == Contributors
           squad == [m \in K |-> DOMAIN details[<<m, g>>].players]
           captain == [m \in K |-> {details[<<m, g>>].captain}]
           owners == [p \in C |-> Owned(p, g)]
           captains == [p \in C |-> Captains(p, g)]
           size == [m \in K |-> SquadSize]
           one == [m \in K |-> 1]
           owned == [p \in C |-> Cardinality(Owned(p, g))]
           led == [p \in C |-> Cardinality(Captains(p, g))]
<1>1. \A m \in K : <<m, g>> \in DOMAIN details
  BY DEF WithDetail
<1>2. IsFiniteSet(K) /\ IsFiniteSet(C) /\ Cardinality(K) \in Nat
  <2>1. K \in SUBSET WithScore(g)
    BY DEF WithDetail
  <2> QED
    BY <2>1, ScoreFacts, StoredFinite, FS_Subset, FS_CardinalityType
<1>3. /\ \A m \in K : /\ IsFiniteSet(squad[m]) /\ Cardinality(squad[m]) = SquadSize /\ squad[m] \subseteq C
                      /\ captain[m] \subseteq C
  BY <1>1, StoredIs, StoredFinite
<1>4. Related(K, C, squad, owners)
  BY <1>3 DEF Related, Owned
<1>5. Related(K, C, captain, captains)
  BY <1>3 DEF Related, Captains
<1>6. \A m \in K : size[m] = Cardinality(squad[m]) /\ size[m] = SquadSize
  BY <1>3
<1>7. \A m \in K : one[m] = Cardinality(captain[m]) /\ one[m] = 1
  BY FS_Singleton
<1>8. /\ \A p \in C : owned[p] = Cardinality(owners[p]) /\ led[p] = Cardinality(captains[p])
      /\ DOMAIN owned = C /\ DOMAIN led = C
  OBVIOUS
<1> HIDE DEF K, C, squad, captain, owners, captains, size, one, owned, led
<1>9. Added(size, K) = Added(owned, C)
  BY <1>2, <1>4, <1>6, <1>8, CountedAcross
<1>10. Added(one, K) = Added(led, C)
  BY <1>2, <1>5, <1>7, <1>8, CountedAcross
<1>11. SquadSize \in Int
  BY DEF LegalConstants
<1>12. Added(size, K) = SquadSize * Cardinality(K)
  BY <1>2, <1>6, <1>11, AddedSame
<1>13. Added(one, K) = 1 * Cardinality(K)
  BY <1>2, <1>7, AddedSame
<1>14. Sum(owned) = SquadSize * Cardinality(K) /\ Sum(led) = Cardinality(K)
  <2>1. Sum(owned) = Added(owned, C) /\ Sum(led) = Added(led, C)
    BY <1>8, SumIs
  <2>2. 1 * Cardinality(K) = Cardinality(K)
    BY <1>2
  <2> QED
    BY <1>9, <1>10, <1>12, <1>13, <2>1, <2>2
<1> QED
  BY <1>14 DEF owned, led, K, C

LEMMA CaptainciesAddUp ==
    ASSUME LegalConstants, TablesInv
    PROVE  Sum([p \in Contributors |-> Contribution(p).captaincies]) = Cardinality(DOMAIN details)
<1> DEFINE K == DOMAIN details
           C == Contributors
           captain == [k \in K |-> {details[k].captain}]
           captains == [p \in C |-> {k \in WithPlayer(p) : details[k].captain = p}]
           one == [k \in K |-> 1]
           led == [p \in C |-> Contribution(p).captaincies]
<1>1. IsFiniteSet(K) /\ IsFiniteSet(C) /\ Cardinality(K) \in Nat
  BY StoredFinite, FS_CardinalityType
<1>2. \A k \in K : details[k].captain \in DOMAIN details[k].players /\ captain[k] \subseteq C
  BY StoredIs, StoredFinite
<1>3. Related(K, C, captain, captains)
  BY <1>2 DEF Related, WithPlayer
<1>4. \A k \in K : one[k] = Cardinality(captain[k]) /\ one[k] = 1
  BY FS_Singleton
<1>5. DOMAIN led = C /\ \A p \in C : led[p] = Cardinality(captains[p])
  BY DEF Contribution
<1> HIDE DEF K, C, captain, captains, one, led
<1>6. Added(one, K) = Added(led, C)
  BY <1>1, <1>3, <1>4, <1>5, CountedAcross
<1>7. Added(one, K) = 1 * Cardinality(K)
  BY <1>1, <1>4, AddedSame
<1>8. Sum(led) = Cardinality(K)
  <2>1. Sum(led) = Added(led, C)
    BY <1>5, SumIs
  <2>2. 1 * Cardinality(K) = Cardinality(K)
    BY <1>1
  <2> QED
    BY <1>6, <1>7, <2>1, <2>2
<1> QED
  BY <1>8 DEF led, K, C

\* A value of each verified squad adds up to the same by manager.
LEMMA ByManager ==
    ASSUME LegalConstants, TablesInv, NEW v, \A k \in DOMAIN details : v[k] \in Int, DOMAIN v = DOMAIN details,
           NEW f, \A m \in Members : f[m] = Added(v, Of(m)), DOMAIN f = Members
    PROVE  Sum(v) = Sum(f)
<1> DEFINE K == DOMAIN details
           who == [k \in K |-> {k[1]}]
           of == [m \in Members |-> Of(m)]
           row == [k \in K |-> [m \in {k[1]} |-> v[k]]]
           column == [m \in Members |-> v]
<1>1. IsFiniteSet(K) /\ IsFiniteSet(Members)
  BY StoredFinite DEF LegalConstants
<1>2. \A m \in Members, k \in K : k[1] = m <=> k \in Of(m)
  <2> TAKE m \in Members, k \in K
  <2>1. k = <<k[1], k[2]>> /\ k[2] \in Weeks /\ k \in DOMAIN rows
    BY StoredFinite
  <2>2. ASSUME k[1] = m PROVE k \in Of(m)
    <3>1. k[2] \in VerifiedOf(m)
      BY <2>1, <2>2 DEF VerifiedOf, History
    <3> QED
      BY <2>1, <2>2, <3>1 DEF Of
  <2>3. ASSUME k \in Of(m) PROVE k[1] = m
    <3>1. PICK g \in VerifiedOf(m) : k = <<m, g>>
      BY <2>3 DEF Of
    <3> QED
      BY <3>1
  <2> QED
    BY <2>2, <2>3
<1>3. Related(K, Members, who, of)
  <2>1. \A m \in Members : Of(m) \subseteq K
    BY DEF Of, VerifiedOf
  <2>2. \A k \in K : k[1] \in Members
    BY StoredFinite
  <2> QED
    BY <1>2, <2>1, <2>2 DEF Related
<1>4. PairValues(row, column, K, who)
  <2>1. \A k \in K : k[1] \in Members
    BY StoredFinite
  <2> QED
    BY <2>1 DEF PairValues
<1>5. SumsOver(v, row, K, who)
  <2>1. ASSUME NEW k \in K PROVE v[k] = Added(row[k], who[k])
    <3> DEFINE r == row[k]
    <3>1. r[k[1]] = v[k] /\ who[k] = {k[1]}
      OBVIOUS
    <3> HIDE DEF r
    <3>2. Added(r, {k[1]}) = v[k]
      BY <3>1, AddedOne
    <3> QED
      BY <3>1, <3>2 DEF r
  <2> QED
    BY <2>1 DEF SumsOver
<1>6. SumsOver(f, column, Members, of)
  BY DEF SumsOver
<1> HIDE DEF who, of, row, column
<1>7. Added(v, K) = Added(f, Members)
  <2> HIDE DEF K
  <2> QED
    BY <1>1, <1>3, <1>4, <1>5, <1>6, AddedAcross
<1> QED
  BY <1>7, SumIs

LEMMA ContributionsHold ==
    ASSUME LegalConstants, TablesInv
    PROVE  ContributionsAddUp
<1> DEFINE K == DOMAIN details
<1>1. ASSUME NEW v, DOMAIN v = K, \A k \in K : v[k] \in Int, NEW f, DOMAIN f = Members,
             NEW part, \A m \in Members : f[m] = Sum(part[m]),
             \A m \in Members : DOMAIN part[m] = Of(m) /\ \A k \in Of(m) : part[m][k] = v[k]
      PROVE  Sum(v) = Sum(f)
  <2>1. ASSUME NEW m \in Members PROVE f[m] = Added(v, Of(m))
    <3>1. IsFiniteSet(Of(m))
      <4>1. Of(m) \in SUBSET K
        BY DEF Of, VerifiedOf
      <4> QED
        BY <4>1, StoredFinite, FS_Subset
    <3>2. f[m] = Added(part[m], Of(m))
      BY <1>1, SumIs
    <3>3. Added(part[m], Of(m)) = Added(v, Of(m))
      BY <1>1, <3>1, SameAdded
    <3> QED
      BY <3>2, <3>3
  <2> QED
    BY <1>1, <2>1, ByManager
<1>2. SeasonTotals.bench = Sum([m \in Members |-> ManagerTotals(m).bench])
  <2> DEFINE v == [k \in K |-> details[k].unused]
             f == [m \in Members |-> ManagerTotals(m).bench]
             part == [m \in Members |-> [k \in Of(m) |-> details[k].unused]]
  <2>1. DOMAIN v = K /\ DOMAIN f = Members /\ \A k \in K : v[k] \in Int
    BY StoredIs
  <2>2. \A m \in Members : /\ f[m] = Sum(part[m]) /\ DOMAIN part[m] = Of(m)
                           /\ \A k \in Of(m) : part[m][k] = v[k]
    BY DEF ManagerTotals, SumDetails, Of, VerifiedOf
  <2>3. SeasonTotals.bench = Sum(v)
    BY DEF SeasonTotals, SumDetails
  <2> HIDE DEF v, f, part, K
  <2>4. Sum(v) = Sum(f)
    BY <1>1, <2>1, <2>2
  <2> QED
    BY <2>3, <2>4 DEF f
<1>3. SeasonTotals.additional = Sum([m \in Members |-> ManagerTotals(m).additional])
  <2> DEFINE v == [k \in K |-> details[k].additional]
             f == [m \in Members |-> ManagerTotals(m).additional]
             part == [m \in Members |-> [k \in Of(m) |-> details[k].additional]]
  <2>1. DOMAIN v = K /\ DOMAIN f = Members /\ \A k \in K : v[k] \in Int
    BY StoredIs
  <2>2. \A m \in Members : /\ f[m] = Sum(part[m]) /\ DOMAIN part[m] = Of(m)
                           /\ \A k \in Of(m) : part[m][k] = v[k]
    BY DEF ManagerTotals, SumDetails, Of, VerifiedOf
  <2>3. SeasonTotals.additional = Sum(v)
    BY DEF SeasonTotals, SumDetails
  <2> HIDE DEF v, f, part, K
  <2>4. Sum(v) = Sum(f)
    BY <1>1, <2>1, <2>2
  <2> QED
    BY <2>3, <2>4 DEF f
<1> QED
  BY <1>2, <1>3, PointsAddUp, OwnersAddUp, CaptainciesAddUp DEF ContributionsAddUp

-----------------------------------------------------------------------------
(* The squads of the Gameweek.                                              *)

LEMMA SquadsFinite ==
    ASSUME LegalConstants, NEW known \in SUBSET Members, NEW squads \in [known -> Selections]
    PROVE  /\ IsFiniteSet(known) /\ IsFiniteSet(AnyOwned(squads))
           /\ \A m \in known : /\ IsFiniteSet(DOMAIN squads[m].players)
                               /\ DOMAIN squads[m].players \subseteq AnyOwned(squads)
                               /\ LegalSelection(squads[m])
<1>1. IsFiniteSet(known)
  BY FS_Subset DEF LegalConstants
<1>2. \A m \in known : LegalSelection(squads[m]) /\ IsFiniteSet(DOMAIN squads[m].players)
  BY DEF LegalConstants, LegalSelection
<1>3. IsFiniteSet(AnyOwned(squads))
  <2> DEFINE S == {DOMAIN squads[m].players : m \in known}
             f == [m \in known |-> DOMAIN squads[m].players]
  <2>1. f \in Surjection(known, S)
    BY DEF Surjection
  <2>2. IsFiniteSet(S)
    BY <1>1, <2>1, FS_Surjection
  <2>3. \A T \in S : IsFiniteSet(T)
    BY <1>2
  <2>4. AnyOwned(squads) = UNION S
    BY DEF AnyOwned
  <2> HIDE DEF S
  <2> QED
    BY <2>2, <2>3, <2>4, FS_UNION
<1> QED
  BY <1>1, <1>2, <1>3 DEF AnyOwned

LEMMA SquadsHold ==
    ASSUME LegalConstants, NEW known \in SUBSET Members, NEW squads \in [known -> Selections]
    PROVE  SquadsAddUp(squads)
<1> DEFINE C == AnyOwned(squads)
           records == CurrentSquads(squads)
           squad == [m \in known |-> DOMAIN squads[m].players]
           owners == [p \in C |-> Owners(squads, p)]
<1>1. /\ IsFiniteSet(known) /\ IsFiniteSet(C) /\ DOMAIN squads = known /\ DOMAIN records = C
      /\ \A m \in known : /\ IsFiniteSet(squad[m]) /\ squad[m] \subseteq C /\ LegalSelection(squads[m])
                          /\ squad[m] = DOMAIN squads[m].players
  BY SquadsFinite DEF CurrentSquads
<1>2. \A p \in C : /\ records[p].owners = Owners(squads, p) /\ records[p].starting = Starters(squads, p)
                   /\ records[p].bench = Owners(squads, p) \ Starters(squads, p)
                   /\ records[p].captains = {m \in Owners(squads, p) : squads[m].players[p].captain}
                   /\ records[p].weight = Sum([m \in Owners(squads, p) |-> squads[m].players[p].multiplier])
  BY DEF CurrentSquads
<1>3. /\ \A p \in C : owners[p] = Owners(squads, p) /\ owners[p] \subseteq known
      /\ \A m \in known, p \in C : m \in owners[p] <=> p \in squad[m]
  BY <1>1 DEF Owners
<1> HIDE DEF records, squad, owners, C
<1>4. Related(known, C, squad, owners)
  BY <1>1, <1>3 DEF Related
<1>5. Sum([p \in C |-> Cardinality(records[p].starting) + Cardinality(records[p].bench)])
        = Sum([m \in known |-> Cardinality(DOMAIN squads[m].players)])
  <2> DEFINE placed == [p \in C |-> Cardinality(records[p].starting) + Cardinality(records[p].bench)]
             size == [m \in known |-> Cardinality(DOMAIN squads[m].players)]
  <2>1. ASSUME NEW p \in C PROVE placed[p] = Cardinality(owners[p])
    <3> DEFINE A == Starters(squads, p)
               B == Owners(squads, p) \ Starters(squads, p)
    <3>1. A \cup B = owners[p] /\ A \cap B = {} /\ IsFiniteSet(owners[p])
      BY <1>1, <1>3, FS_Subset DEF Starters
    <3>2. IsFiniteSet(A) /\ IsFiniteSet(B)
      BY <3>1, FS_Subset
    <3>3. placed[p] = Cardinality(A) + Cardinality(B)
      BY <1>2
    <3> HIDE DEF A, B, placed
    <3>4. Cardinality(A \cup B) = Cardinality(A) + Cardinality(B) - Cardinality(A \cap B)
      BY <3>2, FS_Union
    <3>5. Cardinality(A) \in Nat /\ Cardinality(B) \in Nat /\ Cardinality(A \cap B) = 0
      BY <3>1, <3>2, FS_CardinalityType, FS_EmptySet
    <3>6. Cardinality(A \cup B) = Cardinality(owners[p])
      BY <3>1
    <3>7. placed[p] = Cardinality(A \cup B)
      BY <3>3, <3>4, <3>5, SMT
    <3> QED
      BY <3>6, <3>7
  <2>2. \A m \in known : size[m] = Cardinality(squad[m])
    BY <1>1
  <2>3. DOMAIN placed = C /\ DOMAIN size = known
    OBVIOUS
  <2> HIDE DEF placed, size
  <2>4. Added(size, known) = Added(placed, C)
    BY <1>1, <1>4, <2>1, <2>2, CountedAcross
  <2>5. Sum(placed) = Sum(size)
    BY <2>3, <2>4, SumIs
  <2> QED
    BY <2>5 DEF placed, size
<1>6. Sum([p \in C |-> records[p].weight])
        = Sum([m \in known |-> Sum([p \in DOMAIN squads[m].players |-> squads[m].players[p].multiplier])])
  <2> DEFINE row == [m \in known |-> [p \in DOMAIN squads[m].players |-> squads[m].players[p].multiplier]]
             column == [p \in C |-> [m \in Owners(squads, p) |-> squads[m].players[p].multiplier]]
             weight == [p \in C |-> records[p].weight]
             given == [m \in known |-> Sum([p \in DOMAIN squads[m].players |-> squads[m].players[p].multiplier])]
  <2>1. \A m \in known : \A p \in squad[m] : /\ p \in C /\ m \in Owners(squads, p)
                                             /\ squads[m].players[p].multiplier \in Int
    BY <1>1, <1>3 DEF LegalSelection
  <2>2. \A m \in known : \A p \in squad[m] : row[m][p] \in Int /\ column[p][m] = row[m][p]
    BY <1>1, <2>1
  <2>3. PairValues(row, column, known, squad)
    BY <2>2 DEF PairValues
  <2>4. ASSUME NEW m \in known PROVE given[m] = Added(row[m], squad[m])
    <3>1. given[m] = Sum(row[m]) /\ DOMAIN row[m] = squad[m]
      BY <1>1
    <3> HIDE DEF given, row
    <3> QED
      BY <3>1, SumIs
  <2>5. ASSUME NEW p \in C PROVE weight[p] = Added(column[p], owners[p])
    <3>1. weight[p] = Sum(column[p]) /\ DOMAIN column[p] = owners[p]
      BY <1>2, <1>3
    <3> HIDE DEF weight, column
    <3> QED
      BY <3>1, SumIs
  <2>6. DOMAIN weight = C /\ DOMAIN given = known
    OBVIOUS
  <2> HIDE DEF row, column, weight, given
  <2>7. SumsOver(given, row, known, squad) /\ SumsOver(weight, column, C, owners)
    BY <2>4, <2>5 DEF SumsOver
  <2>8. Added(given, known) = Added(weight, C)
    BY <1>1, <1>4, <2>3, <2>7, AddedAcross
  <2>9. Sum(weight) = Sum(given)
    BY <2>6, <2>8, SumIs
  <2> QED
    BY <2>9 DEF weight, given
<1>7. Sum([p \in C |-> Cardinality(records[p].captains)])
        = Cardinality({m \in known : \E p \in DOMAIN squads[m].players : squads[m].players[p].captain})
  <2> DEFINE leaders(m) == {p \in DOMAIN squads[m].players : squads[m].players[p].captain}
             captain == [m \in known |-> leaders(m)]
             captains == [p \in C |-> {m \in Owners(squads, p) : squads[m].players[p].captain}]
             led == [p \in C |-> Cardinality(records[p].captains)]
             one == [m \in known |-> Cardinality(leaders(m))]
             having == {m \in known : \E p \in DOMAIN squads[m].players : squads[m].players[p].captain}
  <2>1. Related(known, C, captain, captains)
    <3>1. \A m \in known : captain[m] = leaders(m) /\ leaders(m) \subseteq C
      BY <1>1
    <3>2. \A p \in C : captains[p] \subseteq known
      BY <1>3
    <3>3. \A m \in known, p \in C : p \in leaders(m) <=> m \in captains[p]
      BY <1>1, <1>3
    <3> QED
      BY <3>1, <3>2, <3>3 DEF Related
  <2>2. \A m \in known : one[m] = Cardinality(captain[m])
    OBVIOUS
  <2>3. \A p \in C : led[p] = Cardinality(captains[p])
    BY <1>2
  <2>4. ASSUME NEW m \in known
        PROVE  one[m] \in Int /\ (m \in having => one[m] = 1) /\ (m \notin having => one[m] = 0)
    <3>1. CASE m \in having
      <4>1. PICK c \in DOMAIN squads[m].players : squads[m].players[c].captain
        BY <3>1
      <4>2. leaders(m) = {c}
        BY <1>1, <4>1 DEF LegalSelection
      <4>3. one[m] = Cardinality(leaders(m))
        OBVIOUS
      <4>4. Cardinality({c}) = 1
        BY FS_Singleton
      <4>5. one[m] = 1
        BY <4>2, <4>3, <4>4, Zenon
      <4> HIDE DEF one
      <4> QED
        BY <3>1, <4>5
    <3>2. CASE m \notin having
      <4>1. leaders(m) = {}
        BY <3>2
      <4> QED
        BY <3>2, <4>1, FS_EmptySet
    <3> QED
      BY <3>1, <3>2
  <2>5. having \in SUBSET known /\ IsFiniteSet(having) /\ Cardinality(having) \in Nat
    BY <1>1, FS_Subset, FS_CardinalityType
  <2>6. DOMAIN led = C
    OBVIOUS
  <2> HIDE DEF captain, captains, led, one, having
  <2>7. Added(one, known) = Added(led, C)
    BY <1>1, <2>1, <2>2, <2>3, CountedAcross
  <2>8. Added(one, known) = Added(one, having)
    BY <1>1, <2>4, <2>5, AddedPart
  <2>9. Added(one, having) = 1 * Cardinality(having)
    <3>1. \A m \in having : one[m] = 1
      BY <2>4, <2>5
    <3> QED
      BY <2>5, <3>1, AddedSame
  <2>10. Sum(led) = Added(led, C) /\ 1 * Cardinality(having) = Cardinality(having)
    BY <2>5, <2>6, SumIs
  <2>11. Sum(led) = Cardinality(having)
    BY <2>7, <2>8, <2>9, <2>10
  <2> QED
    BY <2>11 DEF led, having
<1>8. ASSUME NEW a \in known, NEW b \in known
      PROVE  LET o == Overlap(squads, a, b)
             IN  /\ \A p \in C : p \in o.shared <=> {a, b} \subseteq records[p].owners
                 /\ Cardinality(o.shared) + Cardinality(o.only_a) = Cardinality(DOMAIN squads[a].players)
  <2> DEFINE A == squad[a]
             B == squad[b]
  <2>1. Overlap(squads, a, b).shared = A \cap B /\ Overlap(squads, a, b).only_a = A \ B
    BY <1>1 DEF Overlap
  <2>2. ASSUME NEW p \in C PROVE p \in A \cap B <=> {a, b} \subseteq records[p].owners
    <3>1. records[p].owners = owners[p]
      BY <1>2, <1>3, Zenon
    <3>2. (a \in owners[p] <=> p \in A) /\ (b \in owners[p] <=> p \in B)
      BY <1>3
    <3> HIDE DEF A, B
    <3>3. {a, b} \subseteq owners[p] <=> a \in owners[p] /\ b \in owners[p]
      BY Zenon
    <3> QED
      BY <3>1, <3>2, <3>3, Zenon
  <2>3. Cardinality(A \ B) = Cardinality(A) - Cardinality(A \cap B) /\ IsFiniteSet(A \cap B) /\ IsFiniteSet(A)
    BY <1>1, FS_Difference, FS_Subset
  <2>4. Cardinality(A) \in Nat /\ Cardinality(A \cap B) \in Nat
    BY <2>3, FS_CardinalityType
  <2>5. A = DOMAIN squads[a].players
    BY <1>1
  <2> HIDE DEF A, B
  <2>6. Cardinality(A \cap B) + Cardinality(A \ B) = Cardinality(A)
    BY <2>3, <2>4
  <2> QED
    BY <2>1, <2>2, <2>5, <2>6
<1>9. records = CurrentSquads(squads) /\ DOMAIN records = C /\ DOMAIN squads = known
  BY <1>1 DEF records
<1> QED
  BY <1>5, <1>6, <1>7, <1>8, <1>9 DEF SquadsAddUp

-----------------------------------------------------------------------------
(* Scores and squads become known.                                          *)

LEMMA TablesStart == TablesInit => TablesInv
<1>1. DOMAIN <<>> = {}
  OBVIOUS
<1> QED
  BY <1>1 DEF TablesInit, TablesInv

LEMMA TablesStep ==
    ASSUME TablesInv, [TablesNext]_tableVars
    PROVE  TablesInv'
<1>1. CASE UNCHANGED tableVars
  BY <1>1 DEF tableVars, TablesInv, Complete, AddsUp, Detail
<1>2. ASSUME NEW m \in Members, NEW g \in Weeks, NEW row \in Rows[g], PublishScore(m, g, row)
      PROVE  TablesInv'
  <2>1. rows' = With(rows, <<m, g>>, row) /\ details' = details /\ <<m, g>> \notin DOMAIN rows
    BY <1>2 DEF PublishScore
  <2>2. /\ DOMAIN rows' = DOMAIN rows \cup {<<m, g>>} /\ rows'[<<m, g>>] = row
        /\ \A k \in DOMAIN rows : rows'[k] = rows[k]
    BY <2>1 DEF With
  <2>3. <<m, g>> \in Members \X Weeks /\ <<m, g>>[2] = g
    OBVIOUS
  <2> QED
    BY <2>1, <2>2, <2>3 DEF TablesInv
<1>3. ASSUME NEW m \in Members, NEW g \in Weeks, NEW x \in Selections, Verify(m, g, x)
      PROVE  TablesInv'
  <2>1. /\ details' = With(details, <<m, g>>, Detail(x)) /\ rows' = rows /\ <<m, g>> \in DOMAIN rows
        /\ Complete(x) /\ AddsUp(x)
    BY <1>3 DEF Verify
  <2>2. /\ DOMAIN details' = DOMAIN details \cup {<<m, g>>} /\ details'[<<m, g>>] = Detail(x)
        /\ \A k \in DOMAIN details : k # <<m, g>> => details'[k] = details[k]
    BY <2>1 DEF With
  <2> QED
    BY <2>1, <2>2 DEF TablesInv
<1> QED
  BY <1>1, <1>2, <1>3 DEF TablesNext

LEMMA TablesFromInv ==
    ASSUME LegalConstants, TablesInv
    PROVE  TablesAgree
<1>1. \A known \in SUBSET Members : \A squads \in [known -> Selections] : SquadsAddUp(squads)
  BY SquadsHold
<1> QED
  BY <1>1, ColumnsHold, ContributionsHold DEF TablesAgree

\* Whatever has been published and verified, in whatever order: TablesInv is inductive
\* (season_summary, scoring_detail).
THEOREM TablesInvariant == TablesSpec => []TablesInv
<1>1. TablesInit => TablesInv
  BY TablesStart
<1>2. TablesInv /\ [TablesNext]_tableVars => TablesInv'
  BY TablesStep
<1> QED
  BY <1>1, <1>2, PTL DEF TablesSpec

\* Whatever has been published and verified, the columns of the tables agree, and the contributions
\* and the squads of the Gameweek add up (season_summary, enrich_season, current_squads).
THEOREM TablesAlwaysAgree ==
    ASSUME LegalConstants
    PROVE  TablesSpec => []TablesAgree
<1>1. TablesInv => TablesAgree
  BY TablesFromInv
<1> QED
  BY <1>1, TablesInvariant, PTL
=============================================================================
