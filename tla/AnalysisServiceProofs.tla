------------------------ MODULE AnalysisServiceProofs ------------------------
(***************************************************************************)
(* Proofs about AnalysisService for every number of clients, leagues,      *)
(* stripes and cache sizes.  SourceInv is the inductive invariant: what is *)
(* cached belongs to its key and what a thread has in hand belongs to its  *)
(* request.  The source, freshness, lock and coalescing properties follow  *)
(* from it, step by step.  The second part is about ForecastEnricher, for  *)
(* any threads, leagues, players and slots: EnricherInv.                   *)
(***************************************************************************)
EXTENDS AnalysisService, ForecastEnricher, TTLCacheTheorems

-----------------------------------------------------------------------------
(* Facts about single entries, records and moves of one thread. *)

\* A key a lookup finds is a key of the cache, and its value has the cache's type.
LEMMA FoundValue ==
    ASSUME NEW c, NEW K, NEW V, NEW cap \in Nat, CacheOf(c, K, V, cap), NEW k, NEW t,
           Holds(c, k, t)
    PROVE  k \in DOMAIN c /\ k \in K /\ c[k].value \in V /\ c[k].expires > t
BY DEF CacheOf, Entry, Holds, LiveKeys

\* The capacities and lifetimes are positive, the times of the model natural.
LEMMA Bounds ==
    /\ {SnapCap, GenCap, AnalysisCap, EnrichCap, OutlookCap} \subseteq Nat \ {0}
    /\ SnapTTL \in Nat \ {0} /\ GenTTL \in Nat \ {0}
    /\ MaxGen \in Nat /\ MaxTime \in Nat /\ MaxCalls \in Nat
    /\ Time \subseteq Nat /\ Generation \subseteq Nat
    /\ NoGen \in Generation /\ NoBase \in Base /\ 0 \in Time
BY BoundAssumption DEF Time, Generation, NoGen, NoBase, Base

\* An idle thread's locals are well typed.
LEMMA NoWorkType == NoWork \in Work
BY Bounds DEF NoWork, Work, Cond

\* The response of a step that answers nobody is well typed.
LEMMA NoReplyType == NoReply \in Reply
BY Bounds DEF NoReply, Reply

\* Numbered generations are generations.
LEMMA GensType ==
    ASSUME ScoresOK
    PROVE  Gens \subseteq Generation /\ Gens \subseteq Nat \ {0} /\ Len(born) \in Nat
           /\ (\A g \in Gens : born[g].league \in Leagues /\ born[g].at \in Time)
<1> DEFINE Snapshot == [league : Leagues, at : Time]
<1>1. born \in Seq(Snapshot) /\ Len(born) <= MaxGen
  BY DEF ScoresOK
<1> HIDE DEF Snapshot
<1>2. Len(born) \in Nat /\ \A g \in Gens : born[g] \in Snapshot
  BY <1>1 DEF Gens
<1>3. \A g \in Gens : born[g].league \in Leagues /\ born[g].at \in Time
  BY <1>2 DEF Snapshot
<1>4. Gens \subseteq Generation /\ Gens \subseteq Nat \ {0}
  BY <1>1, <1>2, Bounds DEF Gens, Generation
<1> QED
  BY <1>2, <1>3, <1>4

\* A fetch appends one snapshot and keeps the earlier ones.
LEMMA FetchEffect ==
    ASSUME ScoresOK, NEW l \in Leagues, Fetch(l), now' = now
    PROVE  /\ born' \in Seq([league : Leagues, at : Time]) /\ Len(born') <= MaxGen
           /\ Gens \subseteq Gens' /\ NewGeneration \in Gens'
           /\ NewGeneration \in Generation
           /\ \A g \in Gens : born'[g] = born[g]
           /\ born'[NewGeneration] = [league |-> l, at |-> now]
BY Bounds DEF ScoresOK, Fetch, NewGeneration, Gens, Generation

\* A thread that does not move keeps its part of the invariant while snapshots arrive
\* and time passes.
LEMMA Carry ==
    ASSUME SourceInv, NEW q \in Clients, pc'[q] = pc[q], work'[q] = work[q],
           now' \in Nat, now' >= now, Gens \subseteq Gens',
           \A g \in Gens : born'[g] = born[g]
    PROVE  ThreadInv(q)'
<1>1. work[q].start \in Nat /\ now \in Nat
  BY Bounds DEF SourceInv, TypeOK, ThreadsOK, Work, ScoresOK
<1>2. work'[q].start <= now'
  BY <1>1 DEF SourceInv, ThreadInv
<1> QED
  BY <1>2 DEF SourceInv, ThreadInv

\* Giving an answer leaves the thread idle.
LEMMA AnswerEffect ==
    ASSUME SourceInv, NEW r \in Clients, NEW w \in Work,
           NEW kind \in {"ok", "gone", "error", "conflict"}, NEW g \in Generation,
           NEW e \in BOOLEAN, NEW b \in Base, Answer(r, w, kind, g, e, b),
           now' = now, Gens \subseteq Gens', \A x \in Gens : born'[x] = born[x]
    PROVE  /\ pc' \in [Clients -> Labels] /\ work' \in [Clients -> Work]
           /\ reply' \in Reply
           /\ \A q \in Clients : ThreadInv(q)'
<1>1. pc' \in [Clients -> Labels] /\ work' \in [Clients -> Work] /\ reply' \in Reply
  <2>1. reply' \in Reply
    BY DEF Answer, Reply, Work
  <2>2. pc' \in [Clients -> Labels]
    BY DEF Answer, Goto, SourceInv, TypeOK, ThreadsOK, Labels
  <2>3. work' \in [Clients -> Work]
    BY NoWorkType DEF Answer, SourceInv, TypeOK, ThreadsOK
  <2> QED
    BY <2>1, <2>2, <2>3
<1>2. ThreadInv(r)'
  <2>1. pc'[r] = "idle" /\ work'[r] = NoWork
    BY DEF Answer, Goto, SourceInv, TypeOK, ThreadsOK
  <2>2. now' \in Nat
    BY Bounds DEF SourceInv, TypeOK, ScoresOK
  <2> QED
    BY <2>1, <2>2 DEF ThreadInv, NoWork, Refreshing, Deriving, Forecasting
<1>3. ASSUME NEW q \in Clients \ {r} PROVE ThreadInv(q)'
  <2>1. pc'[q] = pc[q] /\ work'[q] = work[q]
    BY DEF Answer, Goto, SourceInv, TypeOK, ThreadsOK
  <2>2. now' \in Nat /\ now' >= now
    BY Bounds DEF SourceInv, TypeOK, ScoresOK
  <2> QED
    BY <2>1, <2>2, Carry
<1> QED
  BY <1>1, <1>2, <1>3

\* Moving one thread on with new locals: the others keep their part.
LEMMA MoveEffect ==
    ASSUME SourceInv, NEW r \in Clients, NEW w \in Work, NEW label \in Labels,
           Goto(r, label), work' = [work EXCEPT ![r] = w], Silent, ThreadInv(r)',
           now' = now, Gens \subseteq Gens', \A x \in Gens : born'[x] = born[x]
    PROVE  /\ pc' \in [Clients -> Labels] /\ work' \in [Clients -> Work]
           /\ reply' \in Reply
           /\ \A q \in Clients : ThreadInv(q)'
<1>1. pc' \in [Clients -> Labels] /\ work' \in [Clients -> Work] /\ reply' \in Reply
  BY NoReplyType DEF Goto, Silent, SourceInv, TypeOK, ThreadsOK
<1>2. ASSUME NEW q \in Clients \ {r} PROVE ThreadInv(q)'
  <2>1. pc'[q] = pc[q] /\ work'[q] = work[q]
    BY DEF Goto, SourceInv, TypeOK, ThreadsOK
  <2>2. now' \in Nat /\ now' >= now
    BY Bounds DEF SourceInv, TypeOK, ScoresOK
  <2> QED
    BY <2>1, <2>2, Carry
<1> QED
  BY <1>1, <1>2

-----------------------------------------------------------------------------
(* What a lookup leaves of each cache. *)

\* Time stands still and every fetched snapshot stays what it was.
Settled == now' = now /\ Gens \subseteq Gens' /\ \A g \in Gens : born'[g] = born[g]

\* A lookup in _snapshots, or none.
LEMMA SnapshotsLookup ==
    ASSUME SourceInv, Settled, NEW k,
           snapshots' = snapshots \/ snapshots' = AfterGet(snapshots, k, now)
    PROVE  CacheOf(snapshots', Leagues, Generation, SnapCap) /\ SnapshotsKeyed'
<1>1. CacheOf(snapshots, Leagues, Generation, SnapCap) /\ SnapCap \in Nat
  BY Bounds DEF SourceInv, TypeOK, CachesOK
<1>2. /\ CacheOf(snapshots', Leagues, Generation, SnapCap)
      /\ \A l \in DOMAIN snapshots' : /\ l \in DOMAIN snapshots
                                      /\ snapshots'[l].value = snapshots[l].value
                                      /\ snapshots'[l].expires = snapshots[l].expires
  BY <1>1, AfterGetEntries
<1> QED
  BY <1>2 DEF SourceInv, CachedUnderItsKey, SnapshotsKeyed, Settled

\* A lookup in _generations, or none.
LEMMA GenerationsLookup ==
    ASSUME SourceInv, Settled, NEW k,
           generations' = generations \/ generations' = AfterGet(generations, k, now)
    PROVE  CacheOf(generations', Leagues \X Generation, Generation, GenCap)
           /\ GenerationsKeyed'
<1>1. CacheOf(generations, Leagues \X Generation, Generation, GenCap) /\ GenCap \in Nat
  BY Bounds DEF SourceInv, TypeOK, CachesOK
<1>2. /\ CacheOf(generations', Leagues \X Generation, Generation, GenCap)
      /\ \A x \in DOMAIN generations' : /\ x \in DOMAIN generations
                                        /\ generations'[x].value = generations[x].value
  BY <1>1, AfterGetEntries
<1> QED
  BY <1>2 DEF SourceInv, CachedUnderItsKey, GenerationsKeyed, Settled

\* A lookup in _analyses, or none.
LEMMA AnalysesLookup ==
    ASSUME SourceInv, Settled, NEW k,
           analyses' = analyses \/ analyses' = AfterGet(analyses, k, now)
    PROVE  CacheOf(analyses', Generation \X Variants, Generation, AnalysisCap)
           /\ AnalysesKeyed'
<1>1. CacheOf(analyses, Generation \X Variants, Generation, AnalysisCap)
      /\ AnalysisCap \in Nat
  BY Bounds DEF SourceInv, TypeOK, CachesOK
<1>2. /\ CacheOf(analyses', Generation \X Variants, Generation, AnalysisCap)
      /\ \A x \in DOMAIN analyses' : /\ x \in DOMAIN analyses
                                     /\ analyses'[x].value = analyses[x].value
  BY <1>1, AfterGetEntries
<1> QED
  BY <1>2 DEF SourceInv, CachedUnderItsKey, AnalysesKeyed, Settled

\* A lookup in _outlooks, or none.
LEMMA OutlooksLookup ==
    ASSUME SourceInv, Settled, NEW k,
           outlooks' = outlooks \/ outlooks' = AfterGet(outlooks, k, now)
    PROVE  CacheOf(outlooks', Generation \X Cond, Outlook, OutlookCap) /\ OutlooksKeyed'
<1>1. CacheOf(outlooks, Generation \X Cond, Outlook, OutlookCap) /\ OutlookCap \in Nat
  BY Bounds DEF SourceInv, TypeOK, CachesOK
<1>2. /\ CacheOf(outlooks', Generation \X Cond, Outlook, OutlookCap)
      /\ \A x \in DOMAIN outlooks' : /\ x \in DOMAIN outlooks
                                     /\ outlooks'[x].value = outlooks[x].value
  BY <1>1, AfterGetEntries
<1> QED
  BY <1>2 DEF SourceInv, CachedUnderItsKey, OutlooksKeyed, Settled

\* What a step that only looks things up leaves of all the caches.
LEMMA LookupsKeepCaches ==
    ASSUME SourceInv, Settled, NEW k1, NEW k2, NEW k3, NEW k4,
           snapshots' = snapshots \/ snapshots' = AfterGet(snapshots, k1, now),
           generations' = generations \/ generations' = AfterGet(generations, k2, now),
           analyses' = analyses \/ analyses' = AfterGet(analyses, k3, now),
           outlooks' = outlooks \/ outlooks' = AfterGet(outlooks, k4, now),
           enriched' = enriched
    PROVE  CachesOK' /\ CachedUnderItsKey'
<1>1. CacheOf(enriched', Leagues \X Generation, BOOLEAN, EnrichCap)
  BY DEF SourceInv, TypeOK, CachesOK
<1> QED
  BY <1>1, SnapshotsLookup, GenerationsLookup, AnalysesLookup, OutlooksLookup
     DEF CachesOK, CachedUnderItsKey

\* A step that fetches nothing and lets no time pass.
LEMMA ScoresKept ==
    ASSUME ScoresOK, UNCHANGED <<now, born, retained>>, told' \subseteq Gens,
           primed' \subseteq Leagues, ready' \subseteq primed', DOMAIN history' \subseteq Gens
    PROVE  ScoresOK' /\ Settled
BY DEF ScoresOK, Settled, Gens

\* The parts of the invariant, for the steps below.
LEMMA Parts ==
    ASSUME SourceInv
    PROVE  /\ ScoresOK /\ CachesOK /\ LocksOK /\ ThreadsOK
           /\ told \subseteq Gens /\ primed \subseteq Leagues /\ ready \subseteq primed
           /\ DOMAIN history \subseteq Gens
           /\ \A r \in Clients : work[r] \in Work /\ ThreadInv(r)
           /\ now \in Nat
BY Bounds DEF SourceInv, TypeOK, ScoresOK, ThreadsOK

-----------------------------------------------------------------------------
(* Every action keeps SourceInv. *)

\* A refresh or comparison arrives: a hit has the snapshot's generation in hand.
LEMMA AnalyseCurrentStep ==
    ASSUME SourceInv, NEW r \in Clients, NEW op \in {"analyse", "compare"},
           NEW l \in Leagues, NEW v \in Variants, AnalyseCurrent(r, op, l, v)
    PROVE  SourceInv'
<1> DEFINE w == [NoWork EXCEPT !.op = op, !.league = l, !.variant = v, !.start = now]
           hit == [w EXCEPT !.gen = snapshots[l].value]
<1>1. ScoresOK' /\ Settled
  BY Parts, ScoresKept DEF AnalyseCurrent, upstream, seen
<1>2. CachesOK' /\ CachedUnderItsKey'
  BY <1>1, LookupsKeepCaches DEF AnalyseCurrent
<1>3. LocksOK' /\ calls' \in 0..MaxCalls
  BY Parts, Bounds DEF LocksOK, ThreadsOK, AnalyseCurrent, Arrive, locks
<1>4. w \in Work
  BY Parts, NoWorkType DEF Work, NoWork, ScoresOK
<1>5. now \in Nat /\ now <= now
  BY Parts
<1>6. CASE Holds(snapshots, l, now)
  <2>1. /\ snapshots[l].value \in Generation /\ l \in DOMAIN snapshots
        /\ snapshots[l].expires > now
    BY <1>6, Parts, Bounds, FoundValue DEF CachesOK
  <2>2. hit \in Work
    BY <1>4, <2>1 DEF Work
  <2>3. /\ snapshots[l].value \in Gens
        /\ now < born[snapshots[l].value].at + SnapTTL
    BY <2>1, <1>5 DEF SourceInv, CachedUnderItsKey, SnapshotsKeyed
  <2>4. Goto(r, "derive") /\ work' = [work EXCEPT ![r] = hit] /\ Silent
    BY <1>6 DEF AnalyseCurrent
  <2>5. pc'[r] = "derive" /\ work'[r] = hit
    BY <2>4, Parts DEF Goto, ThreadsOK
  <2>6. hit.start = now /\ hit.league = l /\ hit.variant = v /\ hit.source = NoGen
        /\ hit.gen = snapshots[l].value
    BY DEF NoWork
  <2>7. ThreadInv(r)'
    BY <1>1, <1>5, <2>3, <2>5, <2>6
       DEF ThreadInv, Settled, Refreshing, Deriving, Forecasting
  <2> HIDE DEF hit
  <2>8. pc' \in [Clients -> Labels] /\ work' \in [Clients -> Work] /\ reply' \in Reply
        /\ \A q \in Clients : ThreadInv(q)'
    BY <1>1, <2>2, <2>4, <2>7, MoveEffect DEF Settled, Labels
  <2> QED
    BY <1>1, <1>2, <1>3, <2>8 DEF SourceInv, TypeOK, ThreadsOK
<1>7. CASE ~Holds(snapshots, l, now)
  <2>1. Goto(r, "fetchWait") /\ work' = [work EXCEPT ![r] = w] /\ Silent
    BY <1>7 DEF AnalyseCurrent
  <2>2. pc'[r] = "fetchWait" /\ work'[r] = w
    BY <2>1, Parts DEF Goto, ThreadsOK
  <2>3. w.start = now /\ w.league = l /\ w.variant = v /\ w.source = NoGen
    BY DEF NoWork
  <2>4. ThreadInv(r)'
    BY <1>1, <1>5, <2>2, <2>3 DEF ThreadInv, Settled, Refreshing, Deriving, Forecasting
  <2> HIDE DEF w
  <2>5. pc' \in [Clients -> Labels] /\ work' \in [Clients -> Work] /\ reply' \in Reply
        /\ \A q \in Clients : ThreadInv(q)'
    BY <1>1, <1>4, <2>1, <2>4, MoveEffect DEF Settled, Labels
  <2> QED
    BY <1>1, <1>2, <1>3, <2>5 DEF SourceInv, TypeOK, ThreadsOK
<1> QED
  BY <1>6, <1>7

\* A request for a named source arrives: it has that generation in hand or is refused.
LEMMA AnalyseSourceStep ==
    ASSUME SourceInv, NEW r \in Clients, NEW g \in told, NEW v \in Variants,
           AnalyseSource(r, g, v)
    PROVE  SourceInv'
<1> DEFINE l == born[g].league
           w == [NoWork EXCEPT !.op = "analyse", !.league = l, !.source = g, !.variant = v]
           hit == [w EXCEPT !.gen = generations[<<l, g>>].value]
<1>1. g \in Gens /\ g \in Generation /\ g # NoGen /\ l \in Leagues
  BY Parts, GensType DEF NoGen
<1>2. told' = told
  BY DEF AnalyseSource, Refuse
<1>3. ScoresOK' /\ Settled
  BY <1>2, Parts, ScoresKept DEF AnalyseSource, upstream
<1>4. CachesOK' /\ CachedUnderItsKey'
  BY <1>3, LookupsKeepCaches DEF AnalyseSource
<1>5. LocksOK' /\ calls' \in 0..MaxCalls
  BY Parts, Bounds DEF LocksOK, ThreadsOK, AnalyseSource, Arrive, locks
<1>6. w \in Work
  BY <1>1, NoWorkType DEF Work, NoWork
<1>7. CASE Holds(generations, <<l, g>>, now)
  <2>1. generations[<<l, g>>].value \in Generation /\ <<l, g>> \in DOMAIN generations
    BY <1>7, Parts, Bounds, FoundValue DEF CachesOK
  <2>2. generations[<<l, g>>].value = g
    BY <2>1 DEF SourceInv, CachedUnderItsKey, GenerationsKeyed
  <2>3. hit \in Work
    BY <1>6, <2>1 DEF Work
  <2>4. Goto(r, "derive") /\ work' = [work EXCEPT ![r] = hit] /\ Silent
    BY <1>7 DEF AnalyseSource
  <2>5. pc'[r] = "derive" /\ work'[r] = hit
    BY <2>4, Parts DEF Goto, ThreadsOK
  <2>6. hit.start = 0 /\ hit.league = l /\ hit.variant = v /\ hit.source = g
        /\ hit.gen = g /\ hit.op = "analyse"
    BY <2>2 DEF NoWork
  <2>7. now' \in Nat
    BY <1>3, Bounds DEF ScoresOK
  <2>8. ThreadInv(r)'
    BY <1>1, <1>3, <2>5, <2>6, <2>7
       DEF ThreadInv, Settled, Refreshing, Deriving, Forecasting
  <2> HIDE DEF hit
  <2>9. pc' \in [Clients -> Labels] /\ work' \in [Clients -> Work] /\ reply' \in Reply
        /\ \A q \in Clients : ThreadInv(q)'
    BY <1>3, <2>3, <2>4, <2>8, MoveEffect DEF Settled, Labels
  <2> QED
    BY <1>3, <1>4, <1>5, <2>9 DEF SourceInv, TypeOK, ThreadsOK
<1>8. CASE ~Holds(generations, <<l, g>>, now)
  <2>1. Answer(r, w, "gone", NoGen, FALSE, NoBase)
    BY <1>8 DEF AnalyseSource, Refuse
  <2> HIDE DEF w
  <2>2. pc' \in [Clients -> Labels] /\ work' \in [Clients -> Work] /\ reply' \in Reply
        /\ \A q \in Clients : ThreadInv(q)'
    BY <1>3, <1>6, <2>1, Bounds, AnswerEffect DEF Settled
  <2> QED
    BY <1>3, <1>4, <1>5, <2>2 DEF SourceInv, TypeOK, ThreadsOK
<1> QED
  BY <1>7, <1>8

\* The fetch lock is taken, or the snapshot another thread fetched is used.
LEMMA AcquireFetchStep ==
    ASSUME SourceInv, NEW r \in Clients, AcquireFetch(r)
    PROVE  SourceInv'
<1> DEFINE l == work[r].league
           hit == [work[r] EXCEPT !.gen = snapshots[l].value]
<1>1. ScoresOK' /\ Settled
  BY Parts, ScoresKept DEF AcquireFetch, upstream, seen
<1>2. CachesOK' /\ CachedUnderItsKey'
  BY <1>1, LookupsKeepCaches DEF AcquireFetch
<1>3. LocksOK' /\ calls' \in 0..MaxCalls
  BY Parts DEF LocksOK, ThreadsOK, AcquireFetch
<1>4. /\ l \in Leagues /\ work[r].variant \in Variants /\ work[r].source = NoGen
      /\ work[r].start <= now /\ work[r].start \in Nat
  BY Parts, Bounds DEF ThreadInv, Refreshing, Deriving, AcquireFetch, Work
<1>5. CASE Holds(snapshots, l, now)
  <2>1. /\ snapshots[l].value \in Generation /\ l \in DOMAIN snapshots
        /\ snapshots[l].expires > now
    BY <1>5, Parts, Bounds, FoundValue DEF CachesOK
  <2>2. hit \in Work
    BY Parts, <2>1 DEF Work
  <2>3. snapshots[l].value \in Gens /\ born[snapshots[l].value].at \in Nat
    BY <2>1, Parts, GensType, Bounds DEF SourceInv, CachedUnderItsKey, SnapshotsKeyed
  <2>4. snapshots[l].expires = born[snapshots[l].value].at + SnapTTL
    BY <2>1 DEF SourceInv, CachedUnderItsKey, SnapshotsKeyed
  <2>5. work[r].start < born[snapshots[l].value].at + SnapTTL
    BY <1>4, <2>1, <2>3, <2>4, Parts, Bounds
  <2>6. Goto(r, "derive") /\ work' = [work EXCEPT ![r] = hit] /\ Silent
    BY <1>5 DEF AcquireFetch
  <2>7. pc'[r] = "derive" /\ work'[r] = hit
    BY <2>6, Parts DEF Goto, ThreadsOK
  <2>8. /\ hit.start = work[r].start /\ hit.league = l /\ hit.variant = work[r].variant
        /\ hit.source = NoGen /\ hit.gen = snapshots[l].value
    BY <1>4, Parts DEF Work
  <2>9. ThreadInv(r)'
    BY <1>1, <1>4, <2>3, <2>5, <2>7, <2>8
       DEF ThreadInv, Settled, Refreshing, Deriving, Forecasting
  <2> HIDE DEF hit
  <2>10. pc' \in [Clients -> Labels] /\ work' \in [Clients -> Work] /\ reply' \in Reply
         /\ \A q \in Clients : ThreadInv(q)'
    BY <1>1, <2>2, <2>6, <2>9, MoveEffect DEF Settled, Labels
  <2> QED
    BY <1>1, <1>2, <1>3, <2>10 DEF SourceInv, TypeOK, ThreadsOK
<1>6. CASE ~Holds(snapshots, l, now)
  <2>1. Goto(r, "fetching") /\ work' = work /\ Silent
    BY <1>6 DEF AcquireFetch
  <2>2. pc'[r] = "fetching" /\ work'[r] = work[r] /\ work' = [work EXCEPT ![r] = work[r]]
    BY <2>1, Parts DEF Goto, ThreadsOK
  <2>3. ThreadInv(r)'
    BY <1>1, <1>4, <2>2 DEF ThreadInv, Settled, Refreshing, Deriving, Forecasting
  <2>4. pc' \in [Clients -> Labels] /\ work' \in [Clients -> Work] /\ reply' \in Reply
        /\ \A q \in Clients : ThreadInv(q)'
    BY <1>1, <2>1, <2>2, <2>3, Parts, MoveEffect DEF Settled, Labels
  <2> QED
    BY <1>1, <1>2, <1>3, <2>4 DEF SourceInv, TypeOK, ThreadsOK
<1> QED
  BY <1>5, <1>6

\* A thread that goes on with the locals it had.
LEMMA SameWorkMove ==
    ASSUME SourceInv, NEW r \in Clients, NEW label \in Labels, Goto(r, label),
           work' = work, Silent, Settled,
           \/ {pc[r], label} \subseteq Refreshing
           \/ {pc[r], label} \subseteq Deriving
           \/ {pc[r], label} \subseteq Forecasting
           \/ pc[r] \in Deriving /\ label \in Refreshing /\ work[r].op = "compare"
    PROVE  /\ pc' \in [Clients -> Labels] /\ work' \in [Clients -> Work]
           /\ reply' \in Reply
           /\ \A q \in Clients : ThreadInv(q)'
<1>1. pc'[r] = label /\ work'[r] = work[r] /\ work' = [work EXCEPT ![r] = work[r]]
  BY Parts DEF Goto, ThreadsOK
<1>2. pc[r] # "idle" /\ label # "idle"
  BY DEF Refreshing, Deriving, Forecasting
<1>3. ThreadInv(r)'
  BY <1>1, <1>2, Parts DEF ThreadInv, Settled, Refreshing, Deriving, Forecasting
<1> QED
  BY <1>1, <1>3, Parts, MoveEffect DEF Settled

\* The snapshot arrives: a new generation, current under its league.
LEMMA FetchReturnsStep ==
    ASSUME SourceInv, NEW r \in Clients, FetchReturns(r)
    PROVE  SourceInv'
<1> DEFINE l == work[r].league
           w == [work[r] EXCEPT !.gen = NewGeneration]
<1>1. /\ l \in Leagues /\ work[r].variant \in Variants /\ work[r].source = NoGen
      /\ work[r].start <= now /\ work[r].start \in Nat
  BY Parts, Bounds DEF ThreadInv, Refreshing, Deriving, FetchReturns, Work
<1>2. /\ born' \in Seq([league : Leagues, at : Time]) /\ Len(born') <= MaxGen
      /\ Gens \subseteq Gens' /\ NewGeneration \in Gens' /\ NewGeneration \in Generation
      /\ born'[NewGeneration].at = now
      /\ Settled
  <2>1. Fetch(l) /\ now' = now /\ ScoresOK
    BY Parts DEF FetchReturns
  <2>2. /\ born' \in Seq([league : Leagues, at : Time]) /\ Len(born') <= MaxGen
        /\ Gens \subseteq Gens' /\ NewGeneration \in Gens'
        /\ NewGeneration \in Generation
        /\ \A g \in Gens : born'[g] = born[g]
        /\ born'[NewGeneration] = [league |-> l, at |-> now]
    BY <1>1, <2>1, FetchEffect
  <2> QED
    BY <2>1, <2>2 DEF Settled
<1>3. ScoresOK'
  <2>1. retained' \in Seq([gen : Generation, at : Time])
    BY Parts DEF ScoresOK, FetchReturns, seen
  <2>2. now' \in Time /\ told' \subseteq Gens' /\ primed' \subseteq Leagues
        /\ ready' \subseteq primed' /\ DOMAIN history' \subseteq Gens'
    BY <1>2, Parts DEF ScoresOK, FetchReturns, seen
  <2> QED
    BY <1>2, <2>1, <2>2 DEF ScoresOK
<1>4. CachesOK' /\ CachedUnderItsKey'
  <2>1. snapshots' = AfterSet(snapshots, l, NewGeneration, now, SnapTTL, SnapCap)
    BY DEF FetchReturns
  <2>2. /\ CacheOf(snapshots', Leagues, Generation, SnapCap)
        /\ snapshots'[l].value = NewGeneration /\ snapshots'[l].expires = now + SnapTTL
        /\ \A x \in DOMAIN snapshots' \ {l} :
               /\ x \in LiveKeys(snapshots, now)
               /\ snapshots'[x].value = snapshots[x].value
               /\ snapshots'[x].expires = snapshots[x].expires
    <3>1. /\ CacheOf(snapshots, Leagues, Generation, SnapCap) /\ SnapCap \in Nat \ {0}
          /\ now \in Nat /\ SnapTTL \in Nat
      BY Parts, Bounds DEF CachesOK
    <3>2. l \in Leagues /\ NewGeneration \in Generation
      BY <1>1, <1>2
    <3> DEFINE g == NewGeneration
    <3>3. g \in Generation
      BY <3>2
    <3> HIDE DEF l, g
    <3> DEFINE new == AfterSet(snapshots, l, g, now, SnapTTL, SnapCap)
    <3>4. CacheOf(new, Leagues, Generation, SnapCap)
          /\ Stores(new, snapshots, l, g, now, SnapTTL)
      BY <3>1, <3>2, <3>3, AfterSetStores
    <3>5. snapshots' = new
      BY <2>1 DEF g
    <3> HIDE DEF new
    <3> QED
      BY <3>4, <3>5 DEF Stores, g
  <2>3. SnapshotsKeyed'
    <3>1. SnapshotsKeyed
      BY DEF SourceInv, CachedUnderItsKey
    <3>2. ASSUME NEW x \in DOMAIN snapshots' \ {l}
          PROVE  /\ snapshots'[x].value \in Gens'
                 /\ snapshots'[x].expires = born'[snapshots'[x].value].at + SnapTTL
      BY <1>2, <2>2, <3>1 DEF SnapshotsKeyed, LiveKeys, Settled
    <3> QED
      BY <1>2, <2>2, <3>2 DEF SnapshotsKeyed
  <2>4. CacheOf(generations', Leagues \X Generation, Generation, GenCap)
        /\ GenerationsKeyed'
    BY <1>2, GenerationsLookup DEF FetchReturns
  <2>5. CacheOf(analyses', Generation \X Variants, Generation, AnalysisCap)
        /\ AnalysesKeyed'
    BY <1>2, AnalysesLookup DEF FetchReturns
  <2>6. CacheOf(outlooks', Generation \X Cond, Outlook, OutlookCap) /\ OutlooksKeyed'
    BY <1>2, OutlooksLookup DEF FetchReturns
  <2>7. CacheOf(enriched', Leagues \X Generation, BOOLEAN, EnrichCap)
    BY Parts DEF CachesOK, FetchReturns
  <2> QED
    BY <2>2, <2>3, <2>4, <2>5, <2>6, <2>7 DEF CachesOK, CachedUnderItsKey
<1>5. LocksOK' /\ calls' \in 0..MaxCalls
  BY Parts DEF LocksOK, ThreadsOK, FetchReturns, locks
<1>6. w \in Work
  BY <1>2, Parts DEF Work
<1>7. Goto(r, "storing") /\ work' = [work EXCEPT ![r] = w] /\ Silent
  BY DEF FetchReturns
<1>8. pc'[r] = "storing" /\ work'[r] = w
  BY <1>7, Parts DEF Goto, ThreadsOK
<1>9. /\ w.start = work[r].start /\ w.league = l /\ w.variant = work[r].variant
      /\ w.source = NoGen /\ w.gen = NewGeneration
  BY <1>1, Parts DEF Work
<1>10. work[r].start < now + SnapTTL
  BY <1>1, Parts, Bounds
<1>11. ThreadInv(r)'
  BY <1>1, <1>2, <1>8, <1>9, <1>10
     DEF ThreadInv, Settled, Refreshing, Deriving, Forecasting
<1> HIDE DEF w
<1>12. pc' \in [Clients -> Labels] /\ work' \in [Clients -> Work] /\ reply' \in Reply
       /\ \A q \in Clients : ThreadInv(q)'
  BY <1>2, <1>6, <1>7, <1>11, MoveEffect DEF Settled, Labels
<1> QED
  BY <1>3, <1>4, <1>5, <1>12 DEF SourceInv, TypeOK, ThreadsOK

\* The part of the invariant about threads, without the request budget.
ThreadsFine ==
    /\ pc' \in [Clients -> Labels] /\ work' \in [Clients -> Work] /\ reply' \in Reply
    /\ \A q \in Clients : ThreadInv(q)'

\* Refusing a request leaves its thread idle and names no generation.
LEMMA RefuseEffect ==
    ASSUME SourceInv, NEW r \in Clients, NEW w \in Work,
           NEW kind \in {"gone", "error", "conflict"}, Refuse(r, w, kind), Settled
    PROVE  ThreadsFine /\ told' = told
<1>1. Answer(r, w, kind, NoGen, FALSE, NoBase) /\ told' = told
  BY DEF Refuse
<1> QED
  BY <1>1, Bounds, AnswerEffect DEF ThreadsFine, Settled

\* A result is the answer of an analysis; a comparison goes on with it.
LEMMA AnalysisReadyEffect ==
    ASSUME SourceInv, NEW r \in Clients, pc[r] \in Deriving, NEW value \in Gens,
           AnalysisReady(r, value), Settled
    PROVE  ThreadsFine /\ told' \subseteq Gens
<1>1. CASE work[r].op = "compare"
  BY <1>1, Parts, SameWorkMove DEF AnalysisReady, ThreadsFine, Labels, Refreshing
<1>2. CASE work[r].op # "compare"
  <2>1. Answer(r, work[r], "ok", value, FALSE, NoBase) /\ told' = told \cup {value}
    BY <1>2 DEF AnalysisReady
  <2>2. value \in Generation
    BY Parts, GensType
  <2> QED
    BY <2>1, <2>2, Parts, Bounds, AnswerEffect DEF ThreadsFine, Settled
<1> QED
  BY <1>1, <1>2

\* What a deriving thread knows of its analysis key.
LEMMA AnalysisKeyInHand ==
    ASSUME SourceInv, NEW r \in Clients, pc[r] \in Deriving
    PROVE  /\ work[r].gen \in Gens /\ work[r].gen \in Generation /\ work[r].league \in Leagues
           /\ KeyOfAnalysis(r) \in Generation \X Variants
           /\ KeyOfAnalysis(r)[1] = work[r].gen
           /\ Holds(analyses, KeyOfAnalysis(r), now) =>
                  analyses[KeyOfAnalysis(r)].value = work[r].gen
<1>1. /\ work[r].gen \in Gens /\ work[r].variant \in Variants
      /\ work[r].league \in Leagues
  BY Parts DEF ThreadInv, Deriving
<1>2. work[r].gen \in Generation
  BY <1>1, Parts, GensType
<1>3. KeyOfAnalysis(r) = <<work[r].gen, work[r].variant>>
  BY DEF KeyOfAnalysis, AnalysisKey
<1>4. ASSUME Holds(analyses, KeyOfAnalysis(r), now)
      PROVE  analyses[KeyOfAnalysis(r)].value = work[r].gen
  <2>1. KeyOfAnalysis(r) \in DOMAIN analyses
    BY <1>4 DEF Holds, LiveKeys
  <2> QED
    BY <1>3, <2>1 DEF SourceInv, CachedUnderItsKey, AnalysesKeyed
<1> QED
  BY <1>1, <1>2, <1>3, <1>4

\* The generation is retained under its name and the fetch lock freed.
LEMMA RetainGenerationStep ==
    ASSUME SourceInv, NEW r \in Clients, RetainGeneration(r)
    PROVE  SourceInv'
<1> DEFINE l == work[r].league
           g == work[r].gen
<1>1. g \in Gens /\ g \in Generation /\ l \in Leagues /\ pc[r] = "storing"
  BY AnalysisKeyInHand DEF RetainGeneration, Deriving
<1>2. Settled /\ ScoresOK'
  <2>1. retained' \in Seq([gen : Generation, at : Time])
    BY <1>1, Parts DEF ScoresOK, RetainGeneration
  <2> QED
    BY <2>1, Parts DEF Settled, ScoresOK, RetainGeneration, upstream, Gens
<1>3. /\ CacheOf(generations', Leagues \X Generation, Generation, GenCap)
      /\ GenerationsKeyed'
  <2>1. generations' = AfterSet(generations, <<l, g>>, g, now, GenTTL, GenCap)
    BY DEF RetainGeneration
  <2>2. /\ CacheOf(generations, Leagues \X Generation, Generation, GenCap)
        /\ GenCap \in Nat \ {0} /\ now \in Nat /\ GenTTL \in Nat
    BY Parts, Bounds DEF CachesOK
  <2>3. <<l, g>> \in Leagues \X Generation
    BY <1>1
  <2>4. /\ CacheOf(generations', Leagues \X Generation, Generation, GenCap)
        /\ generations'[<<l, g>>].value = g
        /\ \A x \in DOMAIN generations' \ {<<l, g>>} :
               /\ x \in LiveKeys(generations, now)
               /\ generations'[x].value = generations[x].value
    <3> DEFINE key == <<l, g>>
               K == Leagues \X Generation
    <3>1. /\ key \in K /\ CacheOf(generations, K, Generation, GenCap)
          /\ generations' = AfterSet(generations, key, g, now, GenTTL, GenCap)
      BY <2>1, <2>2, <2>3
    <3> HIDE DEF key, K, g
    <3> DEFINE new == AfterSet(generations, key, g, now, GenTTL, GenCap)
    <3>3. CacheOf(new, K, Generation, GenCap) /\ Stores(new, generations, key, g, now, GenTTL)
      BY <1>1, <2>2, <3>1, AfterSetStores
    <3> HIDE DEF new
    <3>4. generations' = new
      BY <3>1 DEF new
    <3>2. /\ CacheOf(generations', K, Generation, GenCap)
          /\ generations'[key].value = g
          /\ \A x \in DOMAIN generations' \ {key} :
                 /\ x \in LiveKeys(generations, now)
                 /\ generations'[x].value = generations[x].value
      BY <3>3, <3>4 DEF Stores
    <3> QED
      BY <3>2 DEF key, K
  <2>5. GenerationsKeyed
    BY DEF SourceInv, CachedUnderItsKey
  <2> QED
    BY <1>1, <1>2, <2>4, <2>5 DEF GenerationsKeyed, LiveKeys, Settled
<1>4. CachesOK' /\ CachedUnderItsKey'
  <2>1. CacheOf(snapshots', Leagues, Generation, SnapCap) /\ SnapshotsKeyed'
    BY <1>2, SnapshotsLookup DEF RetainGeneration
  <2>2. CacheOf(analyses', Generation \X Variants, Generation, AnalysisCap)
        /\ AnalysesKeyed'
    BY <1>2, AnalysesLookup DEF RetainGeneration
  <2>3. CacheOf(outlooks', Generation \X Cond, Outlook, OutlookCap) /\ OutlooksKeyed'
    BY <1>2, OutlooksLookup DEF RetainGeneration
  <2>4. CacheOf(enriched', Leagues \X Generation, BOOLEAN, EnrichCap)
    BY Parts DEF CachesOK, RetainGeneration
  <2> QED
    BY <1>3, <2>1, <2>2, <2>3, <2>4 DEF CachesOK, CachedUnderItsKey
<1>5. LocksOK' /\ calls' \in 0..MaxCalls
  BY Parts DEF LocksOK, ThreadsOK, RetainGeneration
<1>6. ThreadsFine
  BY <1>1, <1>2, SameWorkMove DEF RetainGeneration, ThreadsFine, Labels, Deriving
<1> QED
  BY <1>2, <1>4, <1>5, <1>6 DEF SourceInv, TypeOK, ThreadsOK, ThreadsFine

\* A failed fetch.
LEMMA FetchFailsStep ==
    ASSUME SourceInv, NEW r \in Clients, FetchFails(r)
    PROVE  SourceInv'
<1>1. Settled
  BY DEF FetchFails, upstream, Settled, Gens
<1>2. ThreadsFine /\ told' = told
  BY <1>1, Parts, RefuseEffect DEF FetchFails
<1>3. ScoresOK'
  BY <1>2, Parts, ScoresKept DEF FetchFails, upstream
<1>4. CachesOK' /\ CachedUnderItsKey'
  BY <1>1, LookupsKeepCaches DEF FetchFails, caches
<1>5. LocksOK' /\ calls' \in 0..MaxCalls
  BY Parts DEF LocksOK, ThreadsOK, FetchFails
<1> QED
  BY <1>2, <1>3, <1>4, <1>5 DEF SourceInv, TypeOK, ThreadsOK, ThreadsFine

\* The first look for a cached result.
LEMMA LookupAnalysisStep ==
    ASSUME SourceInv, NEW r \in Clients, LookupAnalysis(r)
    PROVE  SourceInv'
<1> DEFINE k == KeyOfAnalysis(r)
<1>1. Settled /\ pc[r] \in Deriving
  BY DEF LookupAnalysis, upstream, Settled, Gens, Deriving
<1>2. ThreadsFine /\ told' \subseteq Gens
  <2>1. CASE Holds(analyses, k, now)
    BY <1>1, <2>1, AnalysisKeyInHand, AnalysisReadyEffect DEF LookupAnalysis
  <2>2. CASE ~Holds(analyses, k, now)
    BY <1>1, <2>2, Parts, SameWorkMove DEF LookupAnalysis, ThreadsFine, Labels, Deriving
  <2> QED
    BY <2>1, <2>2
<1>3. ScoresOK'
  BY <1>2, Parts, ScoresKept DEF LookupAnalysis, upstream
<1>4. CachesOK' /\ CachedUnderItsKey'
  BY <1>1, LookupsKeepCaches DEF LookupAnalysis
<1>5. LocksOK' /\ calls' \in 0..MaxCalls
  BY Parts DEF LocksOK, ThreadsOK, LookupAnalysis, locks
<1> QED
  BY <1>2, <1>3, <1>4, <1>5 DEF SourceInv, TypeOK, ThreadsOK, ThreadsFine

\* The second look, under the analysis lock.
LEMMA AcquireAnalysisStep ==
    ASSUME SourceInv, NEW r \in Clients, AcquireAnalysis(r)
    PROVE  SourceInv'
<1> DEFINE k == KeyOfAnalysis(r)
<1>1. Settled /\ pc[r] \in Deriving
  BY DEF AcquireAnalysis, upstream, Settled, Gens, Deriving
<1>2. ThreadsFine /\ told' \subseteq Gens
  <2>1. CASE Holds(analyses, k, now)
    BY <1>1, <2>1, AnalysisKeyInHand, AnalysisReadyEffect DEF AcquireAnalysis
  <2>2. CASE ~Holds(analyses, k, now)
    BY <1>1, <2>2, Parts, SameWorkMove DEF AcquireAnalysis, ThreadsFine, Labels, Deriving
  <2> QED
    BY <2>1, <2>2
<1>3. ScoresOK'
  BY <1>2, Parts, ScoresKept DEF AcquireAnalysis, upstream
<1>4. CachesOK' /\ CachedUnderItsKey'
  BY <1>1, LookupsKeepCaches DEF AcquireAnalysis
<1>5. LocksOK' /\ calls' \in 0..MaxCalls
  BY Parts DEF LocksOK, ThreadsOK, AcquireAnalysis
<1> QED
  BY <1>2, <1>3, <1>4, <1>5 DEF SourceInv, TypeOK, ThreadsOK, ThreadsFine

\* The analysis ends and is cached under its generation.
LEMMA FinishAnalysisStep ==
    ASSUME SourceInv, NEW r \in Clients, FinishAnalysis(r)
    PROVE  SourceInv'
<1> DEFINE k == KeyOfAnalysis(r)
           g == work[r].gen
<1>1. Settled /\ pc[r] \in Deriving
  BY DEF FinishAnalysis, Settled, Gens, Deriving
<1>2. /\ g \in Gens /\ g \in Generation /\ work[r].league \in Leagues
      /\ k \in Generation \X Variants /\ k[1] = g
  BY <1>1, AnalysisKeyInHand
<1>3. ThreadsFine /\ told' \subseteq Gens
  BY <1>1, <1>2, AnalysisReadyEffect DEF FinishAnalysis
<1>4. ScoresOK'
  BY <1>2, <1>3, Parts, ScoresKept DEF FinishAnalysis
<1>5. CacheOf(analyses', Generation \X Variants, Generation, AnalysisCap) /\ AnalysesKeyed'
  <2>1. analyses' = AfterSet(analyses, k, g, now, SnapTTL, AnalysisCap)
    BY DEF FinishAnalysis
  <2>2. /\ CacheOf(analyses, Generation \X Variants, Generation, AnalysisCap)
        /\ AnalysisCap \in Nat \ {0} /\ now \in Nat /\ SnapTTL \in Nat
    BY Parts, Bounds DEF CachesOK
  <2>3. /\ CacheOf(analyses', Generation \X Variants, Generation, AnalysisCap)
        /\ analyses'[k].value = g
        /\ \A x \in DOMAIN analyses' \ {k} : /\ x \in LiveKeys(analyses, now)
                                             /\ analyses'[x].value = analyses[x].value
    <3> DEFINE K == Generation \X Variants
    <3>1. k \in K /\ g \in Generation /\ CacheOf(analyses, K, Generation, AnalysisCap)
      BY <1>2, <2>2
    <3> HIDE DEF k, K, g
    <3> DEFINE new == AfterSet(analyses, k, g, now, SnapTTL, AnalysisCap)
    <3>2. CacheOf(new, K, Generation, AnalysisCap)
          /\ Stores(new, analyses, k, g, now, SnapTTL)
      BY <2>2, <3>1, AfterSetStores
    <3>3. analyses' = new
      BY <2>1
    <3> HIDE DEF new
    <3> QED
      BY <3>2, <3>3 DEF K, Stores
  <2>4. AnalysesKeyed
    BY DEF SourceInv, CachedUnderItsKey
  <2> QED
    BY <1>1, <1>2, <2>3, <2>4 DEF AnalysesKeyed, LiveKeys, Settled
<1>6. CachesOK' /\ CachedUnderItsKey'
  <2>1. CacheOf(snapshots', Leagues, Generation, SnapCap) /\ SnapshotsKeyed'
    BY <1>1, SnapshotsLookup DEF FinishAnalysis
  <2>2. CacheOf(generations', Leagues \X Generation, Generation, GenCap)
        /\ GenerationsKeyed'
    BY <1>1, GenerationsLookup DEF FinishAnalysis
  <2>3. CacheOf(outlooks', Generation \X Cond, Outlook, OutlookCap) /\ OutlooksKeyed'
    BY <1>1, OutlooksLookup DEF FinishAnalysis
  <2>4. CacheOf(enriched', Leagues \X Generation, BOOLEAN, EnrichCap)
    BY Parts DEF CachesOK, FinishAnalysis
  <2> QED
    BY <1>5, <2>1, <2>2, <2>3, <2>4 DEF CachesOK, CachedUnderItsKey
<1>7. LocksOK' /\ calls' \in 0..MaxCalls
  BY Parts DEF LocksOK, ThreadsOK, FinishAnalysis, FreeAnalysis
<1> QED
  BY <1>3, <1>4, <1>6, <1>7 DEF SourceInv, TypeOK, ThreadsOK, ThreadsFine

\* The analysis fails.
LEMMA AnalysisFailsStep ==
    ASSUME SourceInv, NEW r \in Clients, AnalysisFails(r)
    PROVE  SourceInv'
<1>1. Settled /\ pc[r] \in Deriving
  BY DEF AnalysisFails, Settled, Gens, Deriving
<1>2. ThreadsFine /\ told' = told
  BY <1>1, Parts, RefuseEffect DEF AnalysisFails
<1>3. ScoresOK'
  BY <1>1, <1>2, Parts, AnalysisKeyInHand, ScoresKept DEF AnalysisFails
<1>4. CachesOK' /\ CachedUnderItsKey'
  BY <1>1, LookupsKeepCaches DEF AnalysisFails, caches
<1>5. LocksOK' /\ calls' \in 0..MaxCalls
  BY Parts DEF LocksOK, ThreadsOK, AnalysisFails, FreeAnalysis
<1> QED
  BY <1>2, <1>3, <1>4, <1>5 DEF SourceInv, TypeOK, ThreadsOK, ThreadsFine

\* compare() has the current snapshot, or goes on to fetch one.
LEMMA CompareReadStep ==
    ASSUME SourceInv, NEW r \in Clients, CompareRead(r)
    PROVE  SourceInv'
<1> DEFINE l == work[r].league
<1>1. Settled
  BY DEF CompareRead, upstream, Settled, Gens
<1>2. ThreadsFine
  <2>1. CASE Holds(snapshots, l, now)
    <3>1. snapshots[l].value \in Generation
      BY <2>1, Parts, Bounds, FoundValue DEF CachesOK
    <3>2. Answer(r, work[r], "ok", snapshots[l].value, FALSE, NoBase)
      BY <2>1 DEF CompareRead
    <3> QED
      BY <1>1, <3>1, <3>2, Parts, Bounds, AnswerEffect DEF ThreadsFine, Settled
  <2>2. CASE ~Holds(snapshots, l, now)
    BY <1>1, <2>2, Parts, SameWorkMove DEF CompareRead, ThreadsFine, Labels, Refreshing
  <2> QED
    BY <2>1, <2>2
<1>3. ScoresOK'
  BY Parts, ScoresKept DEF CompareRead, upstream, seen
<1>4. CachesOK' /\ CachedUnderItsKey'
  BY <1>1, LookupsKeepCaches DEF CompareRead
<1>5. LocksOK' /\ calls' \in 0..MaxCalls
  BY Parts DEF LocksOK, ThreadsOK, CompareRead, locks
<1> QED
  BY <1>2, <1>3, <1>4, <1>5 DEF SourceInv, TypeOK, ThreadsOK, ThreadsFine

\* compare() answers from a snapshot it keeps to itself.
LEMMA CompareFetchReturnsStep ==
    ASSUME SourceInv, NEW r \in Clients, CompareFetchReturns(r)
    PROVE  SourceInv'
<1> DEFINE l == work[r].league
<1>1. l \in Leagues
  BY Parts DEF ThreadInv, Refreshing, CompareFetchReturns
<1>2. /\ born' \in Seq([league : Leagues, at : Time]) /\ Len(born') <= MaxGen
      /\ Gens \subseteq Gens' /\ NewGeneration \in Generation
      /\ Settled
  <2>1. Fetch(l) /\ now' = now /\ ScoresOK
    BY Parts DEF CompareFetchReturns
  <2>2. /\ born' \in Seq([league : Leagues, at : Time]) /\ Len(born') <= MaxGen
        /\ Gens \subseteq Gens' /\ NewGeneration \in Generation
        /\ \A g \in Gens : born'[g] = born[g]
    BY <1>1, <2>1, FetchEffect
  <2> QED
    BY <2>1, <2>2 DEF Settled
<1>3. ThreadsFine
  <2>1. Answer(r, work[r], "ok", NewGeneration, FALSE, NoBase)
    BY DEF CompareFetchReturns
  <2> QED
    BY <1>2, <2>1, Parts, Bounds, AnswerEffect DEF ThreadsFine, Settled
<1>4. ScoresOK'
  <2>1. /\ now' \in Time /\ told' \subseteq Gens' /\ primed' \subseteq Leagues
        /\ ready' \subseteq primed' /\ DOMAIN history' \subseteq Gens'
        /\ retained' \in Seq([gen : Generation, at : Time])
    BY <1>2, Parts DEF ScoresOK, CompareFetchReturns, seen
  <2> QED
    BY <1>2, <2>1 DEF ScoresOK
<1>5. CachesOK' /\ CachedUnderItsKey'
  BY <1>2, LookupsKeepCaches DEF CompareFetchReturns, caches
<1>6. LocksOK' /\ calls' \in 0..MaxCalls
  BY Parts DEF LocksOK, ThreadsOK, CompareFetchReturns, locks
<1> QED
  BY <1>3, <1>4, <1>5, <1>6 DEF SourceInv, TypeOK, ThreadsOK, ThreadsFine

\* compare() cannot fetch.
LEMMA CompareFailsStep ==
    ASSUME SourceInv, NEW r \in Clients, CompareFails(r)
    PROVE  SourceInv'
<1>1. Settled
  BY DEF CompareFails, upstream, Settled, Gens
<1>2. ThreadsFine /\ told' = told
  BY <1>1, Parts, RefuseEffect DEF CompareFails
<1>3. ScoresOK'
  BY <1>2, Parts, ScoresKept DEF CompareFails, upstream
<1>4. CachesOK' /\ CachedUnderItsKey'
  BY <1>1, LookupsKeepCaches DEF CompareFails, caches
<1>5. LocksOK' /\ calls' \in 0..MaxCalls
  BY Parts DEF LocksOK, ThreadsOK, CompareFails, locks
<1> QED
  BY <1>2, <1>3, <1>4, <1>5 DEF SourceInv, TypeOK, ThreadsOK, ThreadsFine

-----------------------------------------------------------------------------
(* The forecast actions. *)

\* A cached outlook that is found has the type and the generation of its key.
LEMMA FoundOutlook ==
    ASSUME SourceInv, NEW k, Holds(outlooks, k, now)
    PROVE  /\ outlooks[k].value \in Outlook
           /\ outlooks[k].value.gen = k[1]
           /\ outlooks[k].value.base.gen \in {NoGen, k[1]}
<1>1. k \in DOMAIN outlooks /\ outlooks[k].value \in Outlook
  BY Parts, Bounds, FoundValue DEF CachesOK
<1> QED
  BY <1>1 DEF SourceInv, CachedUnderItsKey, OutlooksKeyed

\* What a forecasting thread knows of its generation and its outlook key.
LEMMA ForecastInHand ==
    ASSUME SourceInv, NEW r \in Clients, pc[r] \in Forecasting
    PROVE  /\ work[r].gen \in Gens /\ work[r].gen \in Generation
           /\ work[r].source = work[r].gen /\ work[r].league \in Leagues
           /\ work[r].base \in Base /\ work[r].base.gen \in {NoGen, work[r].gen}
           /\ work[r].enr \in BOOLEAN
           /\ KeyOfOutlook(r) \in Generation \X Cond
           /\ KeyOfOutlook(r)[1] = work[r].gen
<1>1. /\ work[r].gen \in Gens /\ work[r].source = work[r].gen
      /\ work[r].league \in Leagues /\ work[r].base.gen \in {NoGen, work[r].gen}
  BY Parts DEF ThreadInv, Forecasting
<1>2. work[r].gen \in Generation
  BY <1>1, Parts, GensType
<1>3. Wanted(r) \in Cond /\ work[r].base \in Base /\ work[r].enr \in BOOLEAN
  BY Parts DEF Wanted, Work, Cond
<1> QED
  BY <1>1, <1>2, <1>3 DEF KeyOfOutlook, OutlookKey

\* Moving a forecasting thread on with locals that keep its generation.
LEMMA ForecastMove ==
    ASSUME SourceInv, NEW r \in Clients, pc[r] \in Forecasting, NEW w \in Work,
           NEW label \in Forecasting, Goto(r, label), work' = [work EXCEPT ![r] = w],
           Silent, Settled, w.start = work[r].start, w.league = work[r].league,
           w.gen = work[r].gen, w.source = work[r].source, w.op = work[r].op,
           w.base.gen \in {NoGen, w.gen}
    PROVE  ThreadsFine
<1>1. pc'[r] = label /\ work'[r] = w /\ label \in Labels
  BY Parts DEF Goto, ThreadsOK, Forecasting, Labels
<1>2. ThreadInv(r)'
  <2>1. label # "idle" /\ label \notin Refreshing \cup Deriving
    BY DEF Refreshing, Deriving, Forecasting
  <2>2. /\ w.start <= now /\ w.league \in Leagues /\ w.gen \in Gens /\ w.source = w.gen
        /\ w.op = "compare" => w.source = NoGen
    BY Parts, ForecastInHand DEF ThreadInv
  <2> QED
    BY <1>1, <2>1, <2>2 DEF ThreadInv, Settled
<1> QED
  BY <1>1, <1>2, MoveEffect DEF ThreadsFine, Settled

\* A finished outlook is the answer or the baseline of the outlook to come.
LEMMA OutlookReadyEffect ==
    ASSUME SourceInv, NEW r \in Clients, pc[r] \in Forecasting, NEW o \in Outlook,
           o.gen = work[r].gen, OutlookReady(r, o), Settled
    PROVE  ThreadsFine /\ told' = told
<1> DEFINE w == [work[r] EXCEPT !.inBase = FALSE, !.enr = work[r].ownEnr,
                                !.base = [gen |-> o.gen, enr |-> o.enr]]
<1>1. CASE work[r].inBase
  <2>1. /\ Goto(r, "outlookWait") /\ work' = [work EXCEPT ![r] = w]
        /\ Silent /\ told' = told
    BY <1>1 DEF OutlookReady
  <2>2. w \in Work
    <3> DEFINE b == [gen |-> o.gen, enr |-> o.enr]
    <3>1. b \in Base
      BY DEF Base, Outlook
    <3>2. work[r] \in Work
      BY Parts
    <3> HIDE DEF b
    <3>3. [work[r] EXCEPT !.inBase = FALSE, !.enr = work[r].ownEnr, !.base = b] \in Work
      BY <3>1, <3>2 DEF Work
    <3> QED
      BY <3>3 DEF b
  <2>3. /\ w.start = work[r].start /\ w.league = work[r].league /\ w.gen = work[r].gen
        /\ w.source = work[r].source /\ w.op = work[r].op /\ w.base.gen = o.gen
    BY Parts DEF Work
  <2> HIDE DEF w
  <2> QED
    BY <2>1, <2>2, <2>3, ForecastMove DEF Forecasting
<1>2. CASE ~work[r].inBase
  <2>1. Answer(r, work[r], "ok", o.gen, o.enr, o.base) /\ told' = told
    BY <1>2 DEF OutlookReady
  <2>2. o.gen \in Generation /\ o.enr \in BOOLEAN /\ o.base \in Base
    BY DEF Outlook
  <2> QED
    BY <2>1, <2>2, Parts, AnswerEffect DEF ThreadsFine, Settled
<1> QED
  BY <1>1, <1>2

\* A forecast request arrives.
LEMMA ForecastStep ==
    ASSUME SourceInv, NEW r \in Clients, NEW g \in told, NEW c \in Cond, Forecast(r, g, c)
    PROVE  SourceInv'
<1> DEFINE l == born[g].league
           k == OutlookKey(g, c)
           w == [NoWork EXCEPT !.op = "forecast", !.league = l, !.source = g, !.cond = c,
                               !.gen = g]
<1>1. g \in Gens /\ g \in Generation /\ g # NoGen /\ l \in Leagues
  BY Parts, GensType DEF NoGen
<1>2. Settled
  BY DEF Forecast, upstream, Settled, Gens
<1>3. w \in Work
  BY <1>1, NoWorkType DEF Work, NoWork
<1>4. ThreadsFine /\ told' = told
  <2>1. CASE ~Holds(generations, <<l, g>>, now)
    <3>1. Refuse(r, w, "gone")
      BY <2>1 DEF Forecast
    <3> HIDE DEF w
    <3> QED
      BY <1>2, <1>3, <3>1, RefuseEffect
  <2>2. CASE Holds(generations, <<l, g>>, now) /\ Holds(outlooks, k, now)
    <3>1. outlooks[k].value \in Outlook
      BY <2>2, FoundOutlook
    <3>2. /\ Answer(r, w, "ok", outlooks[k].value.gen, outlooks[k].value.enr,
                    outlooks[k].value.base)
          /\ told' = told
      BY <2>2 DEF Forecast
    <3> HIDE DEF w, k
    <3> QED
      BY <1>2, <1>3, <3>1, <3>2, AnswerEffect DEF ThreadsFine, Settled, Outlook
  <2>3. CASE Holds(generations, <<l, g>>, now) /\ ~Holds(outlooks, k, now)
    <3>1. /\ Goto(r, "prepare") /\ work' = [work EXCEPT ![r] = w] /\ Silent
          /\ told' = told
      BY <2>3 DEF Forecast
    <3>2. pc'[r] = "prepare" /\ work'[r] = w
      BY <3>1, Parts DEF Goto, ThreadsOK
    <3>3. /\ w.start = 0 /\ w.league = l /\ w.source = g /\ w.gen = g
          /\ w.op = "forecast" /\ w.base.gen = NoGen
      BY DEF NoWork, NoBase
    <3>4. now' \in Nat
      BY Parts, <1>2 DEF Settled
    <3>5. ThreadInv(r)'
      BY <1>1, <1>2, <3>2, <3>3, <3>4
         DEF ThreadInv, Settled, Refreshing, Deriving, Forecasting
    <3> HIDE DEF w
    <3> QED
      BY <1>2, <1>3, <3>1, <3>5, MoveEffect DEF ThreadsFine, Settled, Labels
  <2> QED
    BY <2>1, <2>2, <2>3
<1>5. ScoresOK'
  BY <1>4, Parts, ScoresKept DEF Forecast, upstream
<1>6. CachesOK' /\ CachedUnderItsKey'
  <2>1. outlooks' = outlooks \/ outlooks' = AfterGet(outlooks, k, now)
    BY DEF Forecast
  <2>2. generations' = AfterGet(generations, <<l, g>>, now)
    BY DEF Forecast
  <2>3. UNCHANGED <<snapshots, analyses, enriched>>
    BY DEF Forecast
  <2> HIDE DEF k
  <2> QED
    BY <1>2, <2>1, <2>2, <2>3, LookupsKeepCaches
<1>7. LocksOK' /\ calls' \in 0..MaxCalls
  BY Parts, Bounds DEF LocksOK, ThreadsOK, Forecast, Arrive, locks
<1> QED
  BY <1>4, <1>5, <1>6, <1>7 DEF SourceInv, TypeOK, ThreadsOK, ThreadsFine
\* prepare() hands the thread its enrichment and may freeze it.
LEMMA PrepareStep ==
    ASSUME SourceInv, NEW r \in Clients, Prepare(r)
    PROVE  SourceInv'
<1> DEFINE l == work[r].league
           g == work[r].gen
           e == Enrichment(l, g)
           plain == [work[r] EXCEPT !.enr = e]
           conditional == [work[r] EXCEPT !.ownEnr = e, !.inBase = TRUE]
<1>1. pc[r] \in Forecasting /\ Settled
  BY DEF Prepare, Settled, Gens, Forecasting
<1>2. g \in Generation /\ l \in Leagues /\ work[r] \in Work
      /\ work[r].base.gen \in {NoGen, g}
  BY <1>1, Parts, ForecastInHand
<1>3. e \in BOOLEAN
  <2> DEFINE k == EnrichKey(l, g)
  <2>1. CASE Holds(enriched, k, now)
    <3>1. enriched[k].value \in BOOLEAN
      <4>1. CacheOf(enriched, Leagues \X Generation, BOOLEAN, EnrichCap)
            /\ EnrichCap \in Nat
        BY Parts, Bounds DEF CachesOK
      <4> HIDE DEF k
      <4> QED
        BY <2>1, <4>1, FoundValue
    <3> QED
      BY <2>1, <3>1 DEF Enrichment
  <2>2. CASE ~Holds(enriched, k, now)
    BY <2>2 DEF Enrichment
  <2> QED
    BY <2>1, <2>2
<1>4. ThreadsFine /\ told' = told
  <2>1. CASE /\ Goto(r, "outlookWait") /\ work' = [work EXCEPT ![r] = plain]
             /\ Silent /\ UNCHANGED told
    <3> HIDE DEF e
    <3>1. plain \in Work
      BY <1>2, <1>3 DEF Work
    <3>2. /\ plain.start = work[r].start /\ plain.league = work[r].league
          /\ plain.gen = work[r].gen /\ plain.source = work[r].source
          /\ plain.op = work[r].op /\ plain.base = work[r].base
      BY <1>2 DEF Work
    <3> HIDE DEF plain
    <3> QED
      BY <1>1, <1>2, <2>1, <3>1, <3>2, ForecastMove DEF Forecasting
  <2>2. CASE /\ Goto(r, "baseline") /\ work' = [work EXCEPT ![r] = conditional]
             /\ Silent /\ UNCHANGED told
    <3> HIDE DEF e
    <3>1. conditional \in Work
      BY <1>2, <1>3 DEF Work
    <3>2. /\ conditional.start = work[r].start /\ conditional.league = work[r].league
          /\ conditional.gen = work[r].gen /\ conditional.source = work[r].source
          /\ conditional.op = work[r].op /\ conditional.base = work[r].base
      BY <1>2 DEF Work
    <3> HIDE DEF conditional
    <3> QED
      BY <1>1, <1>2, <2>2, <3>1, <3>2, ForecastMove DEF Forecasting
  <2>3. CASE Refuse(r, work[r], "conflict")
    BY <1>1, <1>2, <2>3, RefuseEffect
  <2> QED
    BY <2>1, <2>2, <2>3 DEF Prepare
<1>5. ScoresOK'
  BY <1>2, <1>4, Parts, ScoresKept DEF Prepare
<1>6. CacheOf(enriched', Leagues \X Generation, BOOLEAN, EnrichCap)
  <2>1. /\ CacheOf(enriched, Leagues \X Generation, BOOLEAN, EnrichCap)
        /\ EnrichCap \in Nat \ {0} /\ now \in Nat /\ GenTTL \in Nat
    BY Parts, Bounds DEF CachesOK
  <2> DEFINE k == EnrichKey(l, g)
             K == Leagues \X Generation
             new == AfterSet(enriched, k, e, now, GenTTL, EnrichCap)
  <2>2. enriched' = enriched \/ enriched' = new
    BY DEF Prepare
  <2>3. k \in K /\ CacheOf(enriched, K, BOOLEAN, EnrichCap)
    BY <1>2, <2>1 DEF EnrichKey
  <2>4. CacheOf(new, K, BOOLEAN, EnrichCap)
    <3> HIDE DEF k, K, e
    <3> QED
      BY <1>3, <2>1, <2>3, AfterSetStores
  <2> QED
    BY <2>2, <2>3, <2>4
<1>7. CachesOK' /\ CachedUnderItsKey'
  <2>1. CacheOf(snapshots', Leagues, Generation, SnapCap) /\ SnapshotsKeyed'
    BY <1>1, SnapshotsLookup DEF Prepare
  <2>2. CacheOf(generations', Leagues \X Generation, Generation, GenCap)
        /\ GenerationsKeyed'
    BY <1>1, GenerationsLookup DEF Prepare
  <2>3. CacheOf(outlooks', Generation \X Cond, Outlook, OutlookCap) /\ OutlooksKeyed'
    BY <1>1, OutlooksLookup DEF Prepare
  <2>4. CacheOf(analyses', Generation \X Variants, Generation, AnalysisCap)
        /\ AnalysesKeyed'
    BY <1>1, AnalysesLookup DEF Prepare
  <2> QED
    BY <1>6, <2>1, <2>2, <2>3, <2>4 DEF CachesOK, CachedUnderItsKey
<1>8. LocksOK' /\ calls' \in 0..MaxCalls
  BY Parts DEF LocksOK, ThreadsOK, Prepare, locks
<1> QED
  BY <1>4, <1>5, <1>7, <1>8 DEF SourceInv, TypeOK, ThreadsOK, ThreadsFine

\* A forecasting thread moves on with its locals as they are.
LEMMA ForecastStay ==
    ASSUME SourceInv, NEW r \in Clients, pc[r] \in Forecasting, NEW label \in Forecasting,
           Goto(r, label), UNCHANGED <<work, told>>, Silent, Settled
    PROVE  ThreadsFine /\ told' = told
<1> DEFINE w == work[r]
<1>1. w \in Work /\ w.base.gen \in {NoGen, w.gen}
  BY Parts, ForecastInHand
<1>2. work' = [work EXCEPT ![r] = w]
  BY Parts DEF ThreadsOK
<1> QED
  BY <1>1, <1>2, ForecastMove

\* The recursive call for the baseline.
LEMMA BaselineStep ==
    ASSUME SourceInv, NEW r \in Clients, Baseline(r)
    PROVE  SourceInv'
<1> DEFINE l == work[r].league
           g == work[r].gen
           k == KeyOfOutlook(r)
<1>1. pc[r] \in Forecasting /\ Settled
  BY DEF Baseline, upstream, Settled, Gens, Forecasting
<1>2. k[1] = g
  BY <1>1, ForecastInHand
<1>3. ThreadsFine /\ told' = told
  <2>1. CASE ~Holds(generations, <<l, g>>, now)
    BY <1>1, <2>1, Parts, RefuseEffect DEF Baseline
  <2>2. CASE Holds(generations, <<l, g>>, now) /\ Holds(outlooks, k, now)
    <3>1. outlooks[k].value \in Outlook /\ outlooks[k].value.gen = g
      BY <1>2, <2>2, FoundOutlook
    <3>2. OutlookReady(r, outlooks[k].value)
      BY <2>2 DEF Baseline
    <3> HIDE DEF k
    <3> QED
      BY <1>1, <3>1, <3>2, OutlookReadyEffect
  <2>3. CASE Holds(generations, <<l, g>>, now) /\ ~Holds(outlooks, k, now)
    <3>1. Goto(r, "prepare") /\ Silent /\ UNCHANGED <<work, told>>
      BY <2>3 DEF Baseline
    <3> QED
      BY <1>1, <3>1, ForecastStay DEF Forecasting
  <2> QED
    BY <2>1, <2>2, <2>3
<1>4. ScoresOK'
  BY <1>3, Parts, ScoresKept DEF Baseline, upstream
<1>5. CachesOK' /\ CachedUnderItsKey'
  <2>1. outlooks' = outlooks \/ outlooks' = AfterGet(outlooks, k, now)
    BY DEF Baseline
  <2> QED
    BY <1>1, <2>1, LookupsKeepCaches DEF Baseline
<1>6. LocksOK' /\ calls' \in 0..MaxCalls
  BY Parts DEF LocksOK, ThreadsOK, Baseline, locks
<1> QED
  BY <1>3, <1>4, <1>5, <1>6 DEF SourceInv, TypeOK, ThreadsOK, ThreadsFine

\* The outlook lock is held: somebody else's outlook, or a simulation of one's own.
LEMMA AcquireOutlookStep ==
    ASSUME SourceInv, NEW r \in Clients, AcquireOutlook(r)
    PROVE  SourceInv'
<1> DEFINE k == KeyOfOutlook(r)
<1>1. pc[r] \in Forecasting /\ Settled
  BY DEF AcquireOutlook, upstream, Settled, Gens, Forecasting
<1>2. k[1] = work[r].gen
  BY <1>1, ForecastInHand
<1>3. ThreadsFine /\ told' = told
  <2>1. CASE Holds(outlooks, k, now)
    <3>1. outlooks[k].value \in Outlook /\ outlooks[k].value.gen = work[r].gen
      BY <1>2, <2>1, FoundOutlook
    <3>2. OutlookReady(r, outlooks[k].value)
      BY <2>1 DEF AcquireOutlook
    <3> HIDE DEF k
    <3> QED
      BY <1>1, <3>1, <3>2, OutlookReadyEffect
  <2>2. CASE ~Holds(outlooks, k, now)
    <3>1. Goto(r, "simulating") /\ Silent /\ UNCHANGED <<work, told>>
      BY <2>2 DEF AcquireOutlook
    <3> QED
      BY <1>1, <3>1, ForecastStay DEF Forecasting
  <2> QED
    BY <2>1, <2>2
<1>4. ScoresOK'
  BY <1>3, Parts, ScoresKept DEF AcquireOutlook, upstream
<1>5. CachesOK' /\ CachedUnderItsKey'
  BY <1>1, LookupsKeepCaches DEF AcquireOutlook
<1>6. LocksOK' /\ calls' \in 0..MaxCalls
  BY Parts DEF LocksOK, ThreadsOK, AcquireOutlook
<1> QED
  BY <1>3, <1>4, <1>5, <1>6 DEF SourceInv, TypeOK, ThreadsOK, ThreadsFine

\* The simulation ends: its outlook is recorded and cached under its generation.
LEMMA FinishOutlookStep ==
    ASSUME SourceInv, NEW r \in Clients, FinishOutlook(r)
    PROVE  SourceInv'
<1> DEFINE k == KeyOfOutlook(r)
           o == [gen |-> work[r].gen, enr |-> work[r].enr, base |-> work[r].base]
<1>1. pc[r] \in Forecasting /\ Settled
  BY DEF FinishOutlook, upstream, Settled, Gens, Forecasting
<1>2. /\ work[r].gen \in Gens /\ k \in Generation \X Cond /\ k[1] = work[r].gen
      /\ o.gen = work[r].gen /\ o.base = work[r].base
      /\ work[r].base.gen \in {NoGen, work[r].gen}
  BY <1>1, ForecastInHand
<1>3. o \in Outlook
  BY <1>1, ForecastInHand DEF Outlook
<1>4. ThreadsFine /\ told' = told
  <2>1. OutlookReady(r, o)
    BY DEF FinishOutlook
  <2> HIDE DEF o
  <2> QED
    BY <1>1, <1>2, <1>3, <2>1, OutlookReadyEffect
<1>5. ScoresOK'
  <2>1. DOMAIN history' \subseteq Gens
    BY <1>2, Parts DEF FinishOutlook, Recorded
  <2> QED
    BY <1>4, <2>1, Parts, ScoresKept DEF FinishOutlook, upstream
<1>6. CacheOf(outlooks', Generation \X Cond, Outlook, OutlookCap) /\ OutlooksKeyed'
  <2> DEFINE K == Generation \X Cond
             new == AfterSet(outlooks, k, o, now, GenTTL, OutlookCap)
  <2>1. outlooks' = new
    BY DEF FinishOutlook
  <2>2. /\ CacheOf(outlooks, K, Outlook, OutlookCap)
        /\ OutlookCap \in Nat \ {0} /\ now \in Nat /\ GenTTL \in Nat
    BY Parts, Bounds DEF CachesOK
  <2>3. k \in K
    BY <1>2
  <2>4. /\ CacheOf(new, K, Outlook, OutlookCap)
        /\ new[k].value = o
        /\ \A x \in DOMAIN new \ {k} : /\ x \in LiveKeys(outlooks, now)
                                       /\ new[x].value = outlooks[x].value
    <3> HIDE DEF K
    <3>1. o \in Outlook /\ k \in K /\ now \in Nat /\ GenTTL \in Nat
      BY <1>3, <2>2, <2>3
    <3> HIDE DEF k, o
    <3>2. CacheOf(new, K, Outlook, OutlookCap)
          /\ Stores(new, outlooks, k, o, now, GenTTL)
      BY <2>2, <3>1, AfterSetStores
    <3> HIDE DEF new
    <3> QED
      BY <3>2 DEF Stores
  <2>5. OutlooksKeyed /\ LiveKeys(outlooks, now) \subseteq DOMAIN outlooks
    BY DEF SourceInv, CachedUnderItsKey, LiveKeys
  <2>6. \A x \in DOMAIN new : /\ x[1] \in Gens /\ new[x].value.gen = x[1]
                              /\ new[x].value.base.gen \in {NoGen, x[1]}
    <3> HIDE DEF k, K, o, new
    <3> QED
      BY <1>2, <2>4, <2>5 DEF OutlooksKeyed
  <2> QED
    BY <1>1, <2>1, <2>4, <2>6 DEF OutlooksKeyed, Settled
<1>7. CachesOK' /\ CachedUnderItsKey'
  <2>1. CacheOf(snapshots', Leagues, Generation, SnapCap) /\ SnapshotsKeyed'
    BY <1>1, SnapshotsLookup DEF FinishOutlook
  <2>2. CacheOf(generations', Leagues \X Generation, Generation, GenCap)
        /\ GenerationsKeyed'
    BY <1>1, GenerationsLookup DEF FinishOutlook
  <2>3. CacheOf(analyses', Generation \X Variants, Generation, AnalysisCap)
        /\ AnalysesKeyed'
    BY <1>1, AnalysesLookup DEF FinishOutlook
  <2>4. CacheOf(enriched', Leagues \X Generation, BOOLEAN, EnrichCap)
    BY Parts DEF CachesOK, FinishOutlook
  <2> QED
    BY <1>6, <2>1, <2>2, <2>3, <2>4 DEF CachesOK, CachedUnderItsKey
<1>8. LocksOK' /\ calls' \in 0..MaxCalls
  BY Parts DEF LocksOK, ThreadsOK, FinishOutlook
<1> QED
  BY <1>4, <1>5, <1>7, <1>8 DEF SourceInv, TypeOK, ThreadsOK, ThreadsFine

\* A history job completes: only ready grows.
LEMMA JobCompletesStep ==
    ASSUME SourceInv, NEW l \in Leagues, JobCompletes(l)
    PROVE  SourceInv'
<1>1. Settled
  BY DEF JobCompletes, Settled, Gens
<1>2. UNCHANGED <<locks, caches, pc, work, calls, told, history>> /\ reply' = NoReply
  BY DEF JobCompletes, seen, Silent
<1>3. ScoresOK'
  BY Parts, ScoresKept DEF JobCompletes, seen
<1>4. CachesOK' /\ CachedUnderItsKey'
  BY <1>1, <1>2, LookupsKeepCaches DEF caches
<1>5. LocksOK' /\ ThreadsOK'
  BY <1>2, Parts, NoReplyType DEF LocksOK, ThreadsOK, locks
<1>6. ASSUME NEW r \in Clients PROVE ThreadInv(r)'
  BY <1>1, <1>2, Parts, Carry DEF Settled
<1> QED
  BY <1>3, <1>4, <1>5, <1>6 DEF SourceInv, TypeOK

\* Time passes: entries expire where they are.
LEMMA TickStep ==
    ASSUME SourceInv, Tick
    PROVE  SourceInv'
<1>1. /\ now' \in Time /\ now' \in Nat /\ now' >= now
      /\ UNCHANGED <<born, locks, caches, pc, work, calls, told, history>>
      /\ reply' = NoReply
  BY Parts, Bounds DEF Tick, seen, Silent, Time, ScoresOK
<1>2. ScoresOK'
  BY <1>1, Parts DEF Tick, seen, ScoresOK, Gens
<1>3. CachesOK' /\ CachedUnderItsKey'
  BY <1>1, Parts DEF caches, SourceInv, CachesOK, CachedUnderItsKey, SnapshotsKeyed,
                     GenerationsKeyed, AnalysesKeyed, OutlooksKeyed, Gens
<1>4. LocksOK' /\ ThreadsOK'
  BY <1>1, Parts, NoReplyType DEF LocksOK, ThreadsOK, locks
<1>5. ASSUME NEW r \in Clients PROVE ThreadInv(r)'
  BY <1>1, Carry DEF Gens
<1> QED
  BY <1>2, <1>3, <1>4, <1>5 DEF SourceInv, TypeOK

\* A step that changes nothing.
LEMMA StutterStep ==
    ASSUME SourceInv, UNCHANGED vars
    PROVE  SourceInv'
<1>1. /\ UNCHANGED <<upstream, seen, caches, history, locks, pc, work, reply, calls>>
      /\ UNCHANGED <<now, born, retained, told, primed, ready>>
  BY DEF vars, upstream, seen
<1>2. ScoresOK' /\ CachesOK' /\ LocksOK' /\ ThreadsOK'
  BY <1>1, Parts DEF caches, locks, ScoresOK, CachesOK, LocksOK, ThreadsOK, Gens
<1>3. CachedUnderItsKey'
  BY <1>1 DEF caches, SourceInv, CachedUnderItsKey, SnapshotsKeyed, GenerationsKeyed,
              AnalysesKeyed, OutlooksKeyed, Gens
<1>4. ASSUME NEW r \in Clients PROVE ThreadInv(r)'
  BY <1>1, Parts DEF ThreadInv, Gens
<1> QED
  BY <1>2, <1>3, <1>4 DEF SourceInv, TypeOK

\* The invariant holds when the server starts.
LEMMA InitSourceInv ==
    ASSUME Init
    PROVE  SourceInv
<1>1. ASSUME NEW K, NEW V, NEW cap \in Nat \ {0}
      PROVE  CacheOf(EmptyCache, K, V, cap) /\ DOMAIN EmptyCache = {}
  <2>1. DOMAIN EmptyCache = {} /\ IsFiniteSet({}) /\ Cardinality({}) = 0
    BY FS_EmptySet DEF EmptyCache
  <2>2. EmptyCache \in [DOMAIN EmptyCache -> Entry(V)]
    BY DEF EmptyCache
  <2> QED
    BY <2>1, <2>2 DEF CacheOf
<1>2. /\ born = <<>> /\ retained = <<>> /\ Len(born) = 0 /\ Gens = {} /\ now = 0
  BY DEF Init, Gens
<1>3. ScoresOK
  <2>1. /\ born \in Seq([league : Leagues, at : Time]) /\ Len(born) <= MaxGen
        /\ retained \in Seq([gen : Generation, at : Time])
    BY <1>2, Bounds
  <2>2. now \in Time /\ told = {} /\ primed = {} /\ ready = {}
    BY <1>2, Bounds DEF Init
  <2>3. DOMAIN history = {}
    BY DEF Init, EmptyCache
  <2> QED
    BY <2>1, <2>2, <2>3 DEF ScoresOK
<1>4. CachesOK /\ CachedUnderItsKey
  <2>1. CachesOK
    BY <1>1, Bounds DEF Init, CachesOK
  <2>2. /\ DOMAIN snapshots = {} /\ DOMAIN generations = {} /\ DOMAIN analyses = {}
        /\ DOMAIN outlooks = {}
    BY DEF Init, EmptyCache
  <2> QED
    BY <2>1, <2>2 DEF CachedUnderItsKey, SnapshotsKeyed, GenerationsKeyed, AnalysesKeyed,
                      OutlooksKeyed
<1>5. LocksOK
  BY DEF Init, LocksOK
<1>6. ThreadsOK
  BY Bounds, NoWorkType, NoReplyType DEF Init, ThreadsOK, Labels
<1>7. ASSUME NEW r \in Clients PROVE ThreadInv(r)
  <2>1. pc[r] = "idle" /\ work[r] = NoWork
    BY DEF Init
  <2> QED
    BY <1>2, <2>1 DEF ThreadInv, NoWork, Refreshing, Deriving, Forecasting
<1> QED
  BY <1>3, <1>4, <1>5, <1>6, <1>7 DEF SourceInv, TypeOK

\* A forecast that cannot be prepared primes the league and is refused.
LEMMA PrepareFailsStep ==
    ASSUME SourceInv, NEW r \in Clients, PrepareFails(r)
    PROVE  SourceInv'
<1>1. Settled /\ pc[r] \in Forecasting
  BY DEF PrepareFails, Settled, Gens, Forecasting
<1>2. ThreadsFine /\ told' = told
  BY <1>1, Parts, RefuseEffect DEF PrepareFails
<1>3. ScoresOK'
  BY <1>1, <1>2, Parts, ForecastInHand, ScoresKept DEF PrepareFails
<1>4. CachesOK' /\ CachedUnderItsKey'
  BY <1>1, LookupsKeepCaches DEF PrepareFails, caches
<1>5. LocksOK' /\ calls' \in 0..MaxCalls
  BY Parts DEF LocksOK, ThreadsOK, PrepareFails, locks
<1> QED
  BY <1>2, <1>3, <1>4, <1>5 DEF SourceInv, TypeOK, ThreadsOK, ThreadsFine

\* A simulation that fails leaves nothing behind.
LEMMA OutlookFailsStep ==
    ASSUME SourceInv, NEW r \in Clients, OutlookFails(r)
    PROVE  SourceInv'
<1>1. Settled
  BY DEF OutlookFails, upstream, Settled, Gens
<1>2. ThreadsFine /\ told' = told
  BY <1>1, Parts, RefuseEffect DEF OutlookFails
<1>3. ScoresOK'
  BY <1>2, Parts, ScoresKept DEF OutlookFails, upstream
<1>4. CachesOK' /\ CachedUnderItsKey'
  BY <1>1, LookupsKeepCaches DEF OutlookFails, caches
<1>5. LocksOK' /\ calls' \in 0..MaxCalls
  BY Parts DEF LocksOK, ThreadsOK, OutlookFails
<1> QED
  BY <1>2, <1>3, <1>4, <1>5 DEF SourceInv, TypeOK, ThreadsOK, ThreadsFine

\* Whatever the program does keeps the invariant.
LEMMA NextSourceInv ==
    ASSUME SourceInv, [Next]_vars
    PROVE  SourceInv'
<1>1. ASSUME NEW r \in Clients, Request(r) PROVE SourceInv'
  BY <1>1, AnalyseCurrentStep, AnalyseSourceStep, ForecastStep DEF Request, Cond
<1>2. ASSUME NEW r \in Clients, Step(r) PROVE SourceInv'
  BY <1>2, AcquireFetchStep, FetchReturnsStep, RetainGenerationStep, FetchFailsStep,
     LookupAnalysisStep, AcquireAnalysisStep, FinishAnalysisStep, AnalysisFailsStep,
     CompareReadStep, CompareFetchReturnsStep, CompareFailsStep,
     PrepareStep, PrepareFailsStep, BaselineStep, AcquireOutlookStep, FinishOutlookStep,
     OutlookFailsStep DEF Step
<1> QED
  BY <1>1, <1>2, JobCompletesStep, TickStep, StutterStep DEF Next

\* At any time every cached value belongs to its key, and every thread's work to the
\* request it serves: what was cached for one generation is never used for another.
THEOREM SourceInvariant == Spec => []SourceInv
<1>1. Init => SourceInv
  BY InitSourceInv
<1>2. SourceInv /\ [Next]_vars => SourceInv'
  BY NextSourceInv
<1> QED
  BY <1>1, <1>2, PTL DEF Spec

\* No cache outgrows its max_items, and only fetched generations are ever named.
THEOREM TypeCorrect == Spec => []TypeOK
<1>1. SourceInv => TypeOK
  BY DEF SourceInv
<1> QED
  BY <1>1, SourceInvariant, PTL

-----------------------------------------------------------------------------
(* What the responses say: each is right in the step that gives it. *)

RepliesFine == AnswersFromNamedSource /\ RefreshIsFresh

\* A step that answers nobody, or only with a refusal.
LEMMA NoNewReply ==
    ASSUME reply'.kind # "ok"
    PROVE  RepliesFine'
BY DEF RepliesFine, AnswersFromNamedSource, RefreshIsFresh

\* A refusal's kind is not "ok", nor is that of a step without a response.
LEMMA QuietReply ==
    ASSUME NEW r, NEW w, NEW kind \in {"gone", "error", "conflict"},
           Silent \/ Refuse(r, w, kind)
    PROVE  RepliesFine'
<1>1. reply'.kind # "ok"
  BY DEF Silent, NoReply, Refuse, Answer
<1> QED
  BY <1>1, NoNewReply

\* Answering with a generation that belongs to the request.
LEMMA RightReply ==
    ASSUME NEW r, NEW w, NEW g, NEW e, NEW b, Answer(r, w, "ok", g, e, b),
           w.source # NoGen => g = w.source /\ b.gen \in {NoGen, w.source},
           w.source = NoGen => w.start < born'[g].at + SnapTTL
    PROVE  RepliesFine'
<1>1. /\ reply'.source = w.source /\ reply'.start = w.start /\ reply'.gen = g
      /\ reply'.base = b
  BY DEF Answer
<1> QED
  BY <1>1 DEF RepliesFine, AnswersFromNamedSource, RefreshIsFresh

\* An analysis answers with the generation in hand.
LEMMA AnalysisReadyReply ==
    ASSUME SourceInv, NEW r \in Clients, pc[r] \in Deriving, Settled,
           AnalysisReady(r, work[r].gen)
    PROVE  RepliesFine'
<1> DEFINE g == work[r].gen
<1>1. CASE work[r].op = "compare"
  BY <1>1, QuietReply DEF AnalysisReady
<1>2. CASE work[r].op # "compare"
  <2>1. Answer(r, work[r], "ok", g, FALSE, NoBase)
    BY <1>2 DEF AnalysisReady
  <2>2. /\ g \in Gens
        /\ work[r].source = NoGen => work[r].start < born[g].at + SnapTTL
        /\ work[r].source # NoGen => g = work[r].source
    BY Parts DEF ThreadInv
  <2>3. born'[g] = born[g] /\ NoBase.gen = NoGen
    BY <2>2 DEF Settled, NoBase
  <2> QED
    BY <2>1, <2>2, <2>3, RightReply
<1> QED
  BY <1>1, <1>2

\* A cached analysis is that of the generation in hand.
LEMMA FoundAnalysis ==
    ASSUME SourceInv, NEW r \in Clients, pc[r] \in Deriving,
           Holds(analyses, KeyOfAnalysis(r), now)
    PROVE  analyses[KeyOfAnalysis(r)].value = work[r].gen
<1> DEFINE k == KeyOfAnalysis(r)
<1>1. k \in DOMAIN analyses
  BY DEF Holds, LiveKeys
<1>2. k[1] = work[r].gen
  BY AnalysisKeyInHand
<1> QED
  BY <1>1, <1>2 DEF SourceInv, CachedUnderItsKey, AnalysesKeyed

\* An outlook answers with the source the request named, or is a baseline.
LEMMA OutlookReadyReply ==
    ASSUME SourceInv, NEW r \in Clients, pc[r] \in Forecasting, NEW o \in Outlook,
           o.gen = work[r].gen, o.base.gen \in {NoGen, work[r].gen}, OutlookReady(r, o)
    PROVE  RepliesFine'
<1>1. CASE work[r].inBase
  BY <1>1, QuietReply DEF OutlookReady
<1>2. CASE ~work[r].inBase
  <2>1. Answer(r, work[r], "ok", o.gen, o.enr, o.base)
    BY <1>2 DEF OutlookReady
  <2>2. work[r].source = work[r].gen /\ work[r].source # NoGen
    BY Parts, GensType, ForecastInHand DEF NoGen
  <2> QED
    BY <2>1, <2>2, RightReply
<1> QED
  BY <1>1, <1>2

\* A cached outlook found while forecasting is of the generation in hand.
LEMMA FoundOutlookReply ==
    ASSUME SourceInv, NEW r \in Clients, pc[r] \in Forecasting,
           Holds(outlooks, KeyOfOutlook(r), now),
           OutlookReady(r, outlooks[KeyOfOutlook(r)].value)
    PROVE  RepliesFine'
<1> DEFINE k == KeyOfOutlook(r)
           o == outlooks[k].value
<1>1. o \in Outlook /\ o.gen = k[1] /\ o.base.gen \in {NoGen, k[1]}
  BY FoundOutlook
<1>2. k[1] = work[r].gen
  BY ForecastInHand
<1> HIDE DEF k
<1>3. OutlookReady(r, o)
  BY DEF k
<1> HIDE DEF o
<1> QED
  BY <1>1, <1>2, <1>3, OutlookReadyReply

\* A forecast that hits the cache answers at once.
LEMMA ForecastReply ==
    ASSUME SourceInv, NEW r \in Clients, NEW g \in told, NEW c \in Cond, Forecast(r, g, c)
    PROVE  RepliesFine'
<1> DEFINE l == born[g].league
           k == OutlookKey(g, c)
           w == [NoWork EXCEPT !.op = "forecast", !.league = l, !.source = g, !.cond = c,
                               !.gen = g]
<1>1. g # NoGen /\ w.source = g /\ k[1] = g
  BY Parts, GensType DEF NoGen, NoWork, OutlookKey
<1>2. CASE ~Holds(generations, <<l, g>>, now)
  BY <1>2, QuietReply DEF Forecast
<1>3. CASE Holds(generations, <<l, g>>, now) /\ Holds(outlooks, k, now)
  <2> DEFINE o == outlooks[k].value
  <2>1. o.gen = g /\ o.base.gen \in {NoGen, g}
    <3> HIDE DEF k
    <3> QED
      BY <1>1, <1>3, FoundOutlook
  <2>2. Answer(r, w, "ok", o.gen, o.enr, o.base)
    BY <1>3 DEF Forecast
  <2> HIDE DEF o, w
  <2> QED
    BY <1>1, <2>1, <2>2, RightReply
<1>4. CASE Holds(generations, <<l, g>>, now) /\ ~Holds(outlooks, k, now)
  BY <1>4, QuietReply DEF Forecast
<1> QED
  BY <1>2, <1>3, <1>4

\* A comparison answers from the snapshot it looks up, still fresh.
LEMMA CompareReadReply ==
    ASSUME SourceInv, NEW r \in Clients, CompareRead(r)
    PROVE  RepliesFine'
<1> DEFINE l == work[r].league
           g == snapshots[l].value
<1>1. CASE Holds(snapshots, l, now)
  <2>1. Answer(r, work[r], "ok", g, FALSE, NoBase) /\ born' = born
    BY <1>1 DEF CompareRead, upstream
  <2>2. work[r].source = NoGen /\ work[r].start <= now /\ work[r].start \in Nat
    BY Parts, Bounds DEF ThreadInv, Refreshing, CompareRead, Work
  <2>3. l \in DOMAIN snapshots /\ snapshots[l].expires > now
    BY <1>1 DEF Holds, LiveKeys
  <2>4. snapshots[l].expires = born[g].at + SnapTTL /\ g \in Gens
    BY <2>3 DEF SourceInv, CachedUnderItsKey, SnapshotsKeyed
  <2>5. born[g].at \in Nat /\ SnapTTL \in Nat /\ now \in Nat
    BY <2>4, Parts, GensType, Bounds
  <2>6. work[r].start < born[g].at + SnapTTL
    BY <2>2, <2>3, <2>4, <2>5
  <2> QED
    BY <2>1, <2>2, <2>6, RightReply
<1>2. CASE ~Holds(snapshots, l, now)
  BY <1>2, QuietReply DEF CompareRead
<1> QED
  BY <1>1, <1>2

\* A comparison that fetches answers from what it has just fetched.
LEMMA CompareFetchReply ==
    ASSUME SourceInv, NEW r \in Clients, CompareFetchReturns(r)
    PROVE  RepliesFine'
<1> DEFINE l == work[r].league
<1>1. l \in Leagues /\ work[r].source = NoGen /\ work[r].start <= now
      /\ work[r].start \in Nat /\ now \in Nat
  BY Parts, Bounds DEF ThreadInv, Refreshing, CompareFetchReturns, Work
<1>2. born'[NewGeneration] = [league |-> l, at |-> now]
  BY <1>1, Parts, FetchEffect DEF CompareFetchReturns
<1>3. work[r].start < born'[NewGeneration].at + SnapTTL
  BY <1>1, <1>2, Bounds
<1>4. Answer(r, work[r], "ok", NewGeneration, FALSE, NoBase)
  BY DEF CompareFetchReturns
<1> QED
  BY <1>1, <1>3, <1>4, RightReply

\* Every step leaves the last response right.
LEMMA NextReplies ==
    ASSUME SourceInv, RepliesFine, [Next]_vars
    PROVE  RepliesFine'
<1>1. ASSUME NEW r \in Clients, Request(r) PROVE RepliesFine'
  <2>1. ASSUME NEW op, NEW l, NEW v, AnalyseCurrent(r, op, l, v) PROVE RepliesFine'
    BY <2>1, QuietReply DEF AnalyseCurrent
  <2>2. ASSUME NEW g, NEW v, AnalyseSource(r, g, v) PROVE RepliesFine'
    BY <2>2, QuietReply DEF AnalyseSource
  <2> QED
    BY <1>1, <2>1, <2>2, ForecastReply DEF Request, Cond
<1>2. ASSUME NEW r \in Clients, Step(r) PROVE RepliesFine'
  <2>1. CASE AcquireFetch(r) \/ FetchReturns(r) \/ RetainGeneration(r) \/ FetchFails(r)
    BY <2>1, QuietReply DEF AcquireFetch, FetchReturns, RetainGeneration, FetchFails
  <2>2. CASE LookupAnalysis(r)
    <3>1. pc[r] \in Deriving /\ Settled
      BY <2>2 DEF LookupAnalysis, upstream, Settled, Gens, Deriving
    <3> QED
      BY <2>2, <3>1, QuietReply, FoundAnalysis, AnalysisReadyReply DEF LookupAnalysis
  <2>3. CASE AcquireAnalysis(r)
    <3>1. pc[r] \in Deriving /\ Settled
      BY <2>3 DEF AcquireAnalysis, upstream, Settled, Gens, Deriving
    <3> QED
      BY <2>3, <3>1, QuietReply, FoundAnalysis, AnalysisReadyReply DEF AcquireAnalysis
  <2>4. CASE FinishAnalysis(r)
    <3>1. pc[r] \in Deriving /\ Settled
      BY <2>4 DEF FinishAnalysis, Settled, Gens, Deriving
    <3> QED
      BY <2>4, <3>1, AnalysisReadyReply DEF FinishAnalysis
  <2>5. CASE AnalysisFails(r) \/ CompareFails(r) \/ PrepareFails(r) \/ OutlookFails(r)
    BY <2>5, QuietReply DEF AnalysisFails, CompareFails, PrepareFails, OutlookFails
  <2>6. CASE Prepare(r)
    BY <2>6, QuietReply DEF Prepare
  <2>7. CASE Baseline(r)
    <3>1. pc[r] \in Forecasting
      BY <2>7 DEF Baseline, Forecasting
    <3> QED
      BY <2>7, <3>1, QuietReply, FoundOutlookReply DEF Baseline
  <2>8. CASE AcquireOutlook(r)
    <3>1. pc[r] \in Forecasting
      BY <2>8 DEF AcquireOutlook, Forecasting
    <3> QED
      BY <2>8, <3>1, QuietReply, FoundOutlookReply DEF AcquireOutlook
  <2>9. CASE FinishOutlook(r)
    <3> DEFINE o == [gen |-> work[r].gen, enr |-> work[r].enr, base |-> work[r].base]
    <3>1. pc[r] \in Forecasting
      BY <2>9 DEF FinishOutlook, Forecasting
    <3>2. o \in Outlook /\ o.gen = work[r].gen /\ o.base.gen \in {NoGen, work[r].gen}
      BY <3>1, ForecastInHand DEF Outlook
    <3>3. OutlookReady(r, o)
      BY <2>9 DEF FinishOutlook
    <3> HIDE DEF o
    <3> QED
      BY <3>1, <3>2, <3>3, OutlookReadyReply
  <2> QED
    BY <1>2, <2>1, <2>2, <2>3, <2>4, <2>5, <2>6, <2>7, <2>8, <2>9, CompareReadReply,
       CompareFetchReply DEF Step
<1>3. CASE (\E l \in Leagues : JobCompletes(l)) \/ Tick
  BY <1>3, QuietReply DEF JobCompletes, Tick
<1>4. CASE UNCHANGED vars
  BY <1>4 DEF vars, upstream, RepliesFine, AnswersFromNamedSource, RefreshIsFresh
<1> QED
  BY <1>1, <1>2, <1>3, <1>4 DEF Next

LEMMA RepliesInvariant == Spec => []RepliesFine
<1>1. Init => RepliesFine
  <2>1. Init => reply.kind # "ok"
    BY DEF Init, NoReply
  <2> QED
    BY <2>1 DEF RepliesFine, AnswersFromNamedSource, RefreshIsFresh
<1>2. SourceInv /\ RepliesFine /\ [Next]_vars => RepliesFine'
  BY NextReplies
<1> QED
  BY <1>1, <1>2, SourceInvariant, PTL DEF Spec

\* A request that names the source it was shown is answered from that source, its
\* baseline included, or refused: never from other scores.
THEOREM NamedSource == Spec => []AnswersFromNamedSource
<1>1. RepliesFine => AnswersFromNamedSource
  BY DEF RepliesFine
<1> QED
  BY <1>1, RepliesInvariant, PTL

\* A refresh is answered from scores that were within the TTL when it was sent, whatever
\* it waited for.
THEOREM FreshRefresh == Spec => []RefreshIsFresh
<1>1. RepliesFine => RefreshIsFresh
  BY DEF RepliesFine
<1> QED
  BY <1>1, RepliesInvariant, PTL

-----------------------------------------------------------------------------
(* The striped locks, for every number of clients and stripes and however  *)
(* keys collide on them: a stripe is held by exactly the thread working    *)
(* under it, hence one refresh of a league fetches at a time, and only     *)
(* while no fresh snapshot of it is cached.                                *)


\* The positions under a lock.
Working == Fetching \cup {"analysing", "simulating"}

\* Only r moves.
OnlyMoves(r) ==
    \A q \in Clients \ {r} : pc'[q] = pc[q] /\ work'[q] = work[q]

\* The other threads keep their locks when r takes or frees one.
LEMMA OthersKeepLocks ==
    ASSUME NEW r \in Clients, LocksHeldByWorkers, OnlyMoves(r),
           \A s \in FetchStripes : fetchLock'[s] # fetchLock[s] =>
               {fetchLock[s], fetchLock'[s]} \subseteq {r, NoClient},
           \A s \in AnalysisStripes : analysisLock'[s] # analysisLock[s] =>
               {analysisLock[s], analysisLock'[s]} \subseteq {r, NoClient},
           \A s \in OutlookStripes : outlookLock'[s] # outlookLock[s] =>
               {outlookLock[s], outlookLock'[s]} \subseteq {r, NoClient}
    PROVE  \A q \in Clients \ {r} : HoldsItsLocks(q)'
<1> TAKE q \in Clients \ {r}
<1>1. pc'[q] = pc[q] /\ work'[q] = work[q] /\ q # NoClient /\ q # r
  BY NoneAssumption DEF OnlyMoves
<1>2. HoldsItsLocks(q)
  BY DEF LocksHeldByWorkers
<1>3. /\ \A s \in FetchStripes : fetchLock'[s] = q <=> fetchLock[s] = q
      /\ \A s \in AnalysisStripes : analysisLock'[s] = q <=> analysisLock[s] = q
      /\ \A s \in OutlookStripes : outlookLock'[s] = q <=> outlookLock[s] = q
  BY <1>1
<1>4. KeyOfAnalysis(q)' = KeyOfAnalysis(q) /\ KeyOfOutlook(q)' = KeyOfOutlook(q)
  BY <1>1 DEF KeyOfAnalysis, AnalysisKey, KeyOfOutlook, OutlookKey, Wanted
<1> QED
  BY <1>1, <1>2, <1>3, <1>4 DEF HoldsItsLocks

\* A thread outside the guarded sections holds nothing, and a thread that moves between
\* two positions outside them leaves the locks alone.
LEMMA OutsideStep ==
    ASSUME NEW r \in Clients, LocksHeldByWorkers, OnlyMoves(r), UNCHANGED locks,
           pc[r] \notin Working, pc'[r] \notin Working
    PROVE  LocksHeldByWorkers'
<1>1. \A q \in Clients \ {r} : HoldsItsLocks(q)'
  BY OthersKeepLocks DEF locks
<1>2. HoldsItsLocks(r)'
  BY DEF LocksHeldByWorkers, HoldsItsLocks, Working, Fetching, locks
<1> QED
  BY <1>1, <1>2 DEF LocksHeldByWorkers

\* Where the moves of one thread lead.
LEMMA GotoMoves ==
    ASSUME ThreadsOK, NEW r \in Clients, NEW label, Goto(r, label),
           NEW w, work' = [work EXCEPT ![r] = w]
    PROVE  OnlyMoves(r) /\ pc'[r] = label /\ work'[r] = w
BY DEF ThreadsOK, Goto, OnlyMoves

LEMMA StayMoves ==
    ASSUME ThreadsOK, NEW r \in Clients, NEW label, Goto(r, label), UNCHANGED work
    PROVE  OnlyMoves(r) /\ pc'[r] = label /\ work'[r] = work[r]
BY DEF ThreadsOK, Goto, OnlyMoves

LEMMA AnswerMoves ==
    ASSUME ThreadsOK, NEW r \in Clients, NEW w, NEW kind, NEW g, NEW e, NEW b,
           Answer(r, w, kind, g, e, b) \/ Refuse(r, w, kind)
    PROVE  OnlyMoves(r) /\ pc'[r] = "idle"
BY GotoMoves DEF Refuse, Answer

LEMMA AnalysisReadyMoves ==
    ASSUME ThreadsOK, NEW r \in Clients, NEW value, AnalysisReady(r, value)
    PROVE  OnlyMoves(r) /\ pc'[r] \notin Working
<1>1. OnlyMoves(r) /\ pc'[r] \in {"idle", "compareRead"}
  BY StayMoves, AnswerMoves DEF AnalysisReady
<1> QED
  BY <1>1 DEF Working, Fetching

LEMMA OutlookReadyMoves ==
    ASSUME ThreadsOK, NEW r \in Clients, NEW value, OutlookReady(r, value)
    PROVE  OnlyMoves(r) /\ pc'[r] \notin Working
<1>1. CASE work[r].inBase
  <2> DEFINE w == [work[r] EXCEPT !.inBase = FALSE, !.enr = work[r].ownEnr,
                                  !.base = [gen |-> value.gen, enr |-> value.enr]]
  <2>1. Goto(r, "outlookWait") /\ work' = [work EXCEPT ![r] = w]
    BY <1>1 DEF OutlookReady
  <2> HIDE DEF w
  <2>2. OnlyMoves(r) /\ pc'[r] = "outlookWait"
    BY <2>1, GotoMoves
  <2> QED
    BY <2>2 DEF Working, Fetching
<1>2. CASE ~work[r].inBase
  <2>1. Answer(r, work[r], "ok", value.gen, value.enr, value.base)
    BY <1>2 DEF OutlookReady
  <2> QED
    BY <2>1, AnswerMoves DEF Working, Fetching
<1> QED
  BY <1>1, <1>2

-----------------------------------------------------------------------------
(* Steps outside the guarded sections. *)

\* Requests arrive at idle threads and leave them waiting or idle.
LEMMA RequestMoves ==
    ASSUME ThreadsOK, NEW r \in Clients, Request(r)
    PROVE  /\ pc[r] = "idle" /\ UNCHANGED locks /\ now' = now
           /\ OnlyMoves(r) /\ pc'[r] \in {"derive", "fetchWait", "prepare", "idle"}
<1>1. ASSUME NEW op, NEW l, NEW v, AnalyseCurrent(r, op, l, v)
      PROVE  /\ pc[r] = "idle" /\ UNCHANGED locks /\ now' = now
             /\ OnlyMoves(r) /\ pc'[r] \in {"derive", "fetchWait"}
  BY <1>1 DEF AnalyseCurrent, Arrive, Goto, ThreadsOK, OnlyMoves, upstream
<1>2. ASSUME NEW g, NEW v, AnalyseSource(r, g, v)
      PROVE  /\ pc[r] = "idle" /\ UNCHANGED locks /\ now' = now
             /\ OnlyMoves(r) /\ pc'[r] \in {"derive", "idle"}
  <2>1. pc[r] = "idle" /\ UNCHANGED locks /\ now' = now
    BY <1>2 DEF AnalyseSource, Arrive, upstream
  <2>2. OnlyMoves(r) /\ pc'[r] \in {"derive", "idle"}
    BY <1>2, AnswerMoves DEF AnalyseSource, Goto, ThreadsOK, OnlyMoves
  <2> QED
    BY <2>1, <2>2
<1>3. ASSUME NEW g, NEW c, Forecast(r, g, c)
      PROVE  /\ pc[r] = "idle" /\ UNCHANGED locks /\ now' = now
             /\ OnlyMoves(r) /\ pc'[r] \in {"prepare", "idle"}
  <2>1. pc[r] = "idle" /\ UNCHANGED locks /\ now' = now
    BY <1>3 DEF Forecast, Arrive, upstream
  <2> DEFINE l == born[g].league
             w == [NoWork EXCEPT !.op = "forecast", !.league = l, !.source = g,
                                 !.cond = c, !.gen = g]
             o == outlooks[OutlookKey(g, c)].value
  <2>2. \/ Refuse(r, w, "gone")
        \/ Answer(r, w, "ok", o.gen, o.enr, o.base)
        \/ Goto(r, "prepare") /\ work' = [work EXCEPT ![r] = w]
    BY <1>3 DEF Forecast
  <2> HIDE DEF w, o
  <2> QED
    BY <2>1, <2>2, AnswerMoves, GotoMoves
<1> QED
  BY <1>1, <1>2, <1>3 DEF Request

LEMMA RequestLocks ==
    ASSUME SourceInv, LocksHeldByWorkers, NEW r \in Clients, Request(r)
    PROVE  LocksHeldByWorkers'
<1>1. /\ pc[r] = "idle" /\ UNCHANGED locks /\ OnlyMoves(r)
      /\ pc'[r] \in {"derive", "fetchWait", "prepare", "idle"}
  BY Parts, RequestMoves
<1> QED
  BY <1>1, OutsideStep DEF Working, Fetching

\* Steps that neither take nor free a lock, of threads that hold none.
Quiet(r) ==
    \/ LookupAnalysis(r) \/ CompareRead(r) \/ CompareFetchReturns(r)
    \/ CompareFails(r) \/ Prepare(r) \/ PrepareFails(r) \/ Baseline(r)

LEMMA QuietMoves ==
    ASSUME ThreadsOK, NEW r \in Clients, Quiet(r)
    PROVE  /\ pc[r] \notin Working /\ UNCHANGED locks /\ now' = now
           /\ OnlyMoves(r) /\ pc'[r] \notin Working
<1>1. ThreadsOK
  OBVIOUS
<1>2. pc[r] \notin Working /\ UNCHANGED locks /\ now' = now
  BY DEF Quiet, upstream, LookupAnalysis, CompareRead, CompareFetchReturns, CompareFails, Prepare,
         PrepareFails, Baseline, Working, Fetching
<1>3. OnlyMoves(r) /\ pc'[r] \notin Working
  <2>1. CASE LookupAnalysis(r)
    <3>1. CASE Holds(analyses, KeyOfAnalysis(r), now)
      <4>1. AnalysisReady(r, analyses[KeyOfAnalysis(r)].value)
        BY <2>1, <3>1 DEF LookupAnalysis
      <4> QED
        BY <1>1, <4>1, AnalysisReadyMoves
    <3>2. CASE ~Holds(analyses, KeyOfAnalysis(r), now)
      <4>1. Goto(r, "analysisWait") /\ UNCHANGED work
        BY <2>1, <3>2 DEF LookupAnalysis
      <4> QED
        BY <1>1, <4>1, StayMoves DEF Working, Fetching
    <3> QED
      BY <3>1, <3>2
  <2>2. CASE CompareRead(r)
    <3> DEFINE g == snapshots[work[r].league].value
    <3>1. CASE Holds(snapshots, work[r].league, now)
      <4>1. Answer(r, work[r], "ok", g, FALSE, NoBase)
        BY <2>2, <3>1 DEF CompareRead
      <4> HIDE DEF g
      <4>2. OnlyMoves(r) /\ pc'[r] = "idle"
        BY <1>1, <4>1, AnswerMoves
      <4> QED
        BY <4>2 DEF Working, Fetching
    <3>2. CASE ~Holds(snapshots, work[r].league, now)
      <4>1. Goto(r, "compareFetch") /\ UNCHANGED work
        BY <2>2, <3>2 DEF CompareRead
      <4> QED
        BY <1>1, <4>1, StayMoves DEF Working, Fetching
    <3> QED
      BY <3>1, <3>2
  <2>3. CASE CompareFetchReturns(r) \/ CompareFails(r) \/ PrepareFails(r)
    BY <1>1, <2>3, AnswerMoves
       DEF CompareFetchReturns, CompareFails, PrepareFails, Working, Fetching
  <2>4. CASE Prepare(r)
    <3> DEFINE e == Enrichment(work[r].league, work[r].gen)
               plain == [work[r] EXCEPT !.enr = e]
               conditional == [work[r] EXCEPT !.ownEnr = e, !.inBase = TRUE]
    <3>1. \/ Goto(r, "outlookWait") /\ work' = [work EXCEPT ![r] = plain]
          \/ Goto(r, "baseline") /\ work' = [work EXCEPT ![r] = conditional]
          \/ Refuse(r, work[r], "conflict")
      <4> HIDE DEF e
      <4>1. /\ [work EXCEPT ![r].enr = e] = [work EXCEPT ![r] = plain]
            /\ [work EXCEPT ![r] = [@ EXCEPT !.ownEnr = e, !.inBase = TRUE]]
                   = [work EXCEPT ![r] = conditional]
        BY <1>1 DEF ThreadsOK
      <4> QED
        BY <2>4, <4>1 DEF Prepare, e
    <3> HIDE DEF plain, conditional
    <3>2. OnlyMoves(r) /\ pc'[r] \in {"outlookWait", "baseline", "idle"}
      BY <1>1, <3>1, GotoMoves, AnswerMoves
    <3> QED
      BY <3>2 DEF Working, Fetching
  <2>5. CASE Baseline(r)
    <3>1. \/ Refuse(r, work[r], "gone")
          \/ OutlookReady(r, outlooks[KeyOfOutlook(r)].value)
          \/ Goto(r, "prepare") /\ UNCHANGED work
      BY <2>5 DEF Baseline
    <3> QED
      BY <1>1, <3>1, AnswerMoves, OutlookReadyMoves, StayMoves DEF Working, Fetching
  <2> QED
    BY <2>1, <2>2, <2>3, <2>4, <2>5 DEF Quiet
<1> QED
  BY <1>2, <1>3

LEMMA QuietLocks ==
    ASSUME SourceInv, LocksHeldByWorkers, NEW r \in Clients, Quiet(r)
    PROVE  LocksHeldByWorkers'
BY Parts, QuietMoves, OutsideStep

-----------------------------------------------------------------------------
(* Steps that take or free a lock. *)

\* The fetch lock is taken, or not needed after all.
LEMMA AcquireFetchLocks ==
    ASSUME SourceInv, LocksHeldByWorkers, NEW r \in Clients, AcquireFetch(r)
    PROVE  LocksHeldByWorkers'
<1> DEFINE l == work[r].league
           stripe == FetchStripe[l]
<1>1. /\ pc[r] = "fetchWait" /\ UNCHANGED <<analysisLock, outlookLock>>
      /\ fetchLock[stripe] = NoClient
  BY DEF AcquireFetch
<1>2. stripe \in FetchStripes
  BY <1>1, Parts, StripeAssumption DEF ThreadInv, Refreshing
<1>3. CASE Holds(snapshots, l, now)
  <2>1. OnlyMoves(r) /\ pc'[r] = "derive" /\ UNCHANGED locks
    BY <1>1, <1>3, Parts DEF AcquireFetch, Goto, ThreadsOK, OnlyMoves, locks
  <2> QED
    BY <1>1, <2>1, OutsideStep DEF Working, Fetching
<1>4. CASE ~Holds(snapshots, l, now)
  <2>1. /\ Goto(r, "fetching") /\ UNCHANGED work
        /\ fetchLock' = [fetchLock EXCEPT ![stripe] = r]
    BY <1>4 DEF AcquireFetch
  <2>2. OnlyMoves(r) /\ pc'[r] = "fetching" /\ work'[r] = work[r]
    BY <2>1, Parts, StayMoves
  <2>3. \A s \in FetchStripes : fetchLock'[s] = IF s = stripe THEN r ELSE fetchLock[s]
    BY <1>2, <2>1, Parts DEF LocksOK
  <2>4. \A q \in Clients \ {r} : HoldsItsLocks(q)'
    BY <1>1, <2>2, <2>3, OthersKeepLocks
  <2>5. HoldsItsLocks(r)'
    <3>1. HoldsItsLocks(r)
      BY DEF LocksHeldByWorkers
    <3> QED
      BY <1>1, <2>2, <2>3, <3>1 DEF HoldsItsLocks, Fetching
  <2> QED
    BY <2>4, <2>5 DEF LocksHeldByWorkers
<1> QED
  BY <1>3, <1>4

\* The fetched snapshot is stored under the lock.
LEMMA FetchReturnsLocks ==
    ASSUME SourceInv, LocksHeldByWorkers, NEW r \in Clients, FetchReturns(r)
    PROVE  LocksHeldByWorkers'
<1>1. /\ pc[r] = "fetching" /\ pc'[r] = "storing" /\ OnlyMoves(r) /\ UNCHANGED locks
      /\ work'[r].league = work[r].league
  BY Parts DEF FetchReturns, Goto, ThreadsOK, OnlyMoves
<1>2. \A q \in Clients \ {r} : HoldsItsLocks(q)'
  BY <1>1, OthersKeepLocks DEF locks
<1>3. HoldsItsLocks(r)'
  BY <1>1 DEF LocksHeldByWorkers, HoldsItsLocks, Fetching, locks
<1> QED
  BY <1>2, <1>3 DEF LocksHeldByWorkers

\* The generation is retained and the fetch lock freed, or the fetch fails.
LEMMA FreeFetchLocks ==
    ASSUME SourceInv, LocksHeldByWorkers, NEW r \in Clients,
           RetainGeneration(r) \/ FetchFails(r)
    PROVE  LocksHeldByWorkers'
<1> DEFINE stripe == FetchStripe[work[r].league]
<1>1. /\ pc[r] \in Fetching /\ UNCHANGED <<analysisLock, outlookLock>>
      /\ fetchLock' = [fetchLock EXCEPT ![stripe] = NoClient]
  BY DEF RetainGeneration, FetchFails, Fetching
<1>2. pc[r] # "idle" /\ pc[r] \in Refreshing \cup Deriving
  BY <1>1 DEF Fetching, Refreshing, Deriving
<1>3. stripe \in FetchStripes
  BY <1>2, Parts, StripeAssumption DEF ThreadInv
<1>4. OnlyMoves(r) /\ pc'[r] \in {"derive", "idle"}
  BY Parts, StayMoves, AnswerMoves DEF RetainGeneration, FetchFails
<1>5. HoldsItsLocks(r)
  BY DEF LocksHeldByWorkers
<1>6. \A s \in FetchStripes : fetchLock'[s] = IF s = stripe THEN NoClient ELSE fetchLock[s]
  BY <1>1, <1>3, Parts DEF LocksOK
<1>7. \A q \in Clients \ {r} : HoldsItsLocks(q)'
  <2>1. fetchLock[stripe] = r
    BY <1>1, <1>3, <1>5 DEF HoldsItsLocks
  <2> QED
    BY <1>1, <1>4, <1>6, <2>1, OthersKeepLocks
<1>8. HoldsItsLocks(r)'
  BY <1>1, <1>4, <1>5, <1>6, NoneAssumption DEF HoldsItsLocks, Fetching
<1> QED
  BY <1>7, <1>8 DEF LocksHeldByWorkers

\* The analysis lock is taken, or somebody else's analysis is found.
LEMMA AcquireAnalysisLocks ==
    ASSUME SourceInv, LocksHeldByWorkers, NEW r \in Clients, AcquireAnalysis(r)
    PROVE  LocksHeldByWorkers'
<1> DEFINE k == KeyOfAnalysis(r)
           stripe == AnalysisStripe[k]
<1>1. /\ pc[r] = "analysisWait" /\ UNCHANGED <<fetchLock, outlookLock>>
      /\ analysisLock[stripe] = NoClient
  BY DEF AcquireAnalysis
<1>2. stripe \in AnalysisStripes
  <2>1. k \in Generation \X Variants
    BY <1>1, AnalysisKeyInHand DEF Deriving
  <2> QED
    BY <2>1, StripeAssumption DEF Generation
<1>3. CASE Holds(analyses, k, now)
  <2>1. AnalysisReady(r, analyses[k].value) /\ UNCHANGED locks
    BY <1>1, <1>3 DEF AcquireAnalysis, locks
  <2>2. OnlyMoves(r) /\ pc'[r] \notin Working
    BY <2>1, Parts, AnalysisReadyMoves
  <2> QED
    BY <1>1, <2>1, <2>2, OutsideStep DEF Working, Fetching
<1>4. CASE ~Holds(analyses, k, now)
  <2>1. /\ Goto(r, "analysing") /\ UNCHANGED work
        /\ analysisLock' = [analysisLock EXCEPT ![stripe] = r]
    BY <1>4 DEF AcquireAnalysis
  <2>2. OnlyMoves(r) /\ pc'[r] = "analysing" /\ work'[r] = work[r]
    BY <2>1, Parts, StayMoves
  <2>3. \A s \in AnalysisStripes :
            analysisLock'[s] = IF s = stripe THEN r ELSE analysisLock[s]
    BY <1>2, <2>1, Parts DEF LocksOK
  <2>4. \A q \in Clients \ {r} : HoldsItsLocks(q)'
    BY <1>1, <2>2, <2>3, OthersKeepLocks
  <2>5. HoldsItsLocks(r)'
    <3>1. HoldsItsLocks(r)
      BY DEF LocksHeldByWorkers
    <3>2. KeyOfAnalysis(r)' = k
      BY <2>2 DEF KeyOfAnalysis, AnalysisKey
    <3> HIDE DEF k
    <3> QED
      BY <1>1, <2>2, <2>3, <3>1, <3>2 DEF HoldsItsLocks, Fetching
  <2> QED
    BY <2>4, <2>5 DEF LocksHeldByWorkers
<1> QED
  BY <1>3, <1>4

\* The analysis ends, or fails: either way the lock is freed.
LEMMA FreeAnalysisLocks ==
    ASSUME SourceInv, LocksHeldByWorkers, NEW r \in Clients,
           FinishAnalysis(r) \/ AnalysisFails(r)
    PROVE  LocksHeldByWorkers'
<1> DEFINE k == KeyOfAnalysis(r)
           stripe == AnalysisStripe[k]
<1>1. /\ pc[r] = "analysing" /\ UNCHANGED <<fetchLock, outlookLock>>
      /\ analysisLock' = [analysisLock EXCEPT ![stripe] = NoClient]
  BY DEF FinishAnalysis, AnalysisFails, FreeAnalysis
<1>2. stripe \in AnalysisStripes
  <2>1. k \in Generation \X Variants
    BY <1>1, AnalysisKeyInHand DEF Deriving
  <2> QED
    BY <2>1, StripeAssumption DEF Generation
<1>3. OnlyMoves(r) /\ pc'[r] \notin Working
  <2>1. AnalysisReady(r, work[r].gen) \/ Refuse(r, work[r], "error")
    BY DEF FinishAnalysis, AnalysisFails
  <2> QED
    BY <2>1, Parts, AnalysisReadyMoves, AnswerMoves DEF Working, Fetching
<1>4. HoldsItsLocks(r)
  BY DEF LocksHeldByWorkers
<1>5. \A s \in AnalysisStripes :
          analysisLock'[s] = IF s = stripe THEN NoClient ELSE analysisLock[s]
  BY <1>1, <1>2, Parts DEF LocksOK
<1>6. \A q \in Clients \ {r} : HoldsItsLocks(q)'
  <2>1. analysisLock[stripe] = r
    BY <1>1, <1>2, <1>4 DEF HoldsItsLocks
  <2> QED
    BY <1>1, <1>3, <1>5, <2>1, OthersKeepLocks
<1>7. HoldsItsLocks(r)'
  <2> HIDE DEF k
  <2> QED
    BY <1>1, <1>3, <1>4, <1>5, NoneAssumption DEF HoldsItsLocks, Fetching, Working, k
<1> QED
  BY <1>6, <1>7 DEF LocksHeldByWorkers

\* The outlook lock is taken, or somebody else's outlook is found.
LEMMA AcquireOutlookLocks ==
    ASSUME SourceInv, LocksHeldByWorkers, NEW r \in Clients, AcquireOutlook(r)
    PROVE  LocksHeldByWorkers'
<1> DEFINE k == KeyOfOutlook(r)
           stripe == OutlookStripe[k]
<1>1. /\ pc[r] = "outlookWait" /\ UNCHANGED <<fetchLock, analysisLock>>
      /\ outlookLock[stripe] = NoClient
  BY DEF AcquireOutlook
<1>2. stripe \in OutlookStripes
  <2>1. k \in Generation \X Cond
    BY <1>1, ForecastInHand DEF Forecasting
  <2> QED
    BY <2>1, StripeAssumption DEF Generation, Cond
<1>3. CASE Holds(outlooks, k, now)
  <2>1. OutlookReady(r, outlooks[k].value) /\ UNCHANGED locks
    BY <1>1, <1>3 DEF AcquireOutlook, locks
  <2>2. OnlyMoves(r) /\ pc'[r] \notin Working
    BY <2>1, Parts, OutlookReadyMoves
  <2> QED
    BY <1>1, <2>1, <2>2, OutsideStep DEF Working, Fetching
<1>4. CASE ~Holds(outlooks, k, now)
  <2>1. /\ Goto(r, "simulating") /\ UNCHANGED work
        /\ outlookLock' = [outlookLock EXCEPT ![stripe] = r]
    BY <1>4 DEF AcquireOutlook
  <2>2. OnlyMoves(r) /\ pc'[r] = "simulating" /\ work'[r] = work[r]
    BY <2>1, Parts, StayMoves
  <2>3. \A s \in OutlookStripes :
            outlookLock'[s] = IF s = stripe THEN r ELSE outlookLock[s]
    BY <1>2, <2>1, Parts DEF LocksOK
  <2>4. \A q \in Clients \ {r} : HoldsItsLocks(q)'
    BY <1>1, <2>2, <2>3, OthersKeepLocks
  <2>5. HoldsItsLocks(r)'
    <3>1. HoldsItsLocks(r)
      BY DEF LocksHeldByWorkers
    <3>2. KeyOfOutlook(r)' = k
      BY <2>2 DEF KeyOfOutlook, OutlookKey, Wanted
    <3> HIDE DEF k
    <3> QED
      BY <1>1, <2>2, <2>3, <3>1, <3>2 DEF HoldsItsLocks, Fetching
  <2> QED
    BY <2>4, <2>5 DEF LocksHeldByWorkers
<1> QED
  BY <1>3, <1>4

\* The simulation ends or fails: either way its lock is freed.
LEMMA FreeOutlookLocks ==
    ASSUME SourceInv, LocksHeldByWorkers, NEW r \in Clients,
           FinishOutlook(r) \/ OutlookFails(r)
    PROVE  LocksHeldByWorkers'
<1> DEFINE k == KeyOfOutlook(r)
           stripe == OutlookStripe[k]
           o == [gen |-> work[r].gen, enr |-> work[r].enr, base |-> work[r].base]
<1>1. /\ pc[r] = "simulating" /\ UNCHANGED <<fetchLock, analysisLock>>
      /\ outlookLock' = [outlookLock EXCEPT ![stripe] = NoClient]
  BY DEF FinishOutlook, OutlookFails
<1>2. stripe \in OutlookStripes
  <2>1. k \in Generation \X Cond
    BY <1>1, ForecastInHand DEF Forecasting
  <2> QED
    BY <2>1, StripeAssumption DEF Generation, Cond
<1>3. OnlyMoves(r) /\ pc'[r] \notin Working
  <2>1. OutlookReady(r, o) \/ Refuse(r, work[r], "conflict")
    BY DEF FinishOutlook, OutlookFails
  <2> HIDE DEF o
  <2> QED
    BY <2>1, Parts, OutlookReadyMoves, AnswerMoves DEF Working, Fetching
<1>4. HoldsItsLocks(r)
  BY DEF LocksHeldByWorkers
<1>5. \A s \in OutlookStripes :
          outlookLock'[s] = IF s = stripe THEN NoClient ELSE outlookLock[s]
  BY <1>1, <1>2, Parts DEF LocksOK
<1>6. \A q \in Clients \ {r} : HoldsItsLocks(q)'
  <2>1. outlookLock[stripe] = r
    BY <1>1, <1>2, <1>4 DEF HoldsItsLocks
  <2> QED
    BY <1>1, <1>3, <1>5, <2>1, OthersKeepLocks
<1>7. HoldsItsLocks(r)'
  <2> HIDE DEF k
  <2> QED
    BY <1>1, <1>3, <1>4, <1>5, NoneAssumption DEF HoldsItsLocks, Fetching, Working, k
<1> QED
  BY <1>6, <1>7 DEF LocksHeldByWorkers

\* Every step keeps the locks with their workers.
LEMMA NextLocks ==
    ASSUME SourceInv, LocksHeldByWorkers, [Next]_vars
    PROVE  LocksHeldByWorkers'
<1>1. ASSUME NEW r \in Clients, Step(r) PROVE LocksHeldByWorkers'
  BY <1>1, QuietLocks, AcquireFetchLocks, FetchReturnsLocks, FreeFetchLocks,
     AcquireAnalysisLocks, FreeAnalysisLocks, AcquireOutlookLocks, FreeOutlookLocks
     DEF Step, Quiet
<1>2. ASSUME UNCHANGED <<locks, pc, work>> PROVE LocksHeldByWorkers'
  BY <1>2 DEF LocksHeldByWorkers, HoldsItsLocks, locks, KeyOfAnalysis, AnalysisKey,
              KeyOfOutlook, OutlookKey, Wanted
<1>3. ASSUME (\E l \in Leagues : JobCompletes(l)) \/ Tick \/ UNCHANGED vars
      PROVE  UNCHANGED <<locks, pc, work>>
  BY <1>3 DEF JobCompletes, Tick, vars
<1> QED
  BY <1>1, <1>2, <1>3, RequestLocks DEF Next

\* At any time each stripe is held by exactly the thread working under it: no way out of
\* a guarded section, an exception included, leaves its lock behind.
THEOREM LocksWithWorkers == Spec => []LocksHeldByWorkers
<1>1. Init => LocksHeldByWorkers
  BY NoneAssumption DEF Init, LocksHeldByWorkers, HoldsItsLocks, Fetching
<1>2. SourceInv /\ LocksHeldByWorkers /\ [Next]_vars => LocksHeldByWorkers'
  BY NextLocks
<1> QED
  BY <1>1, <1>2, SourceInvariant, PTL DEF Spec

-----------------------------------------------------------------------------
(* Coalescing: the fetch lock is what keeps two refreshes of a league apart. *)

\* While one thread fetches a league, no other does.
FetchesApart ==
    \A r, q \in Clients :
        r # q /\ {pc[r], pc[q]} \subseteq Fetching => work[r].league # work[q].league

\* A thread fetches only what is not cached.
FetchesMissing ==
    \A r \in Clients : pc[r] = "fetching" => ~Holds(snapshots, work[r].league, now)

LEMMA LocksKeepFetchesApart ==
    ASSUME SourceInv, LocksHeldByWorkers
    PROVE  FetchesApart
<1> SUFFICES ASSUME NEW r \in Clients, NEW q \in Clients, r # q, pc[r] \in Fetching,
                    pc[q] \in Fetching, work[r].league = work[q].league
             PROVE  FALSE
  BY DEF FetchesApart
<1> DEFINE stripe == FetchStripe[work[r].league]
<1>1. stripe \in FetchStripes
  <2>1. pc[r] \in Refreshing \cup Deriving /\ pc[r] # "idle"
    BY DEF Fetching, Refreshing, Deriving
  <2> QED
    BY <2>1, Parts, StripeAssumption DEF ThreadInv
<1>2. fetchLock[stripe] = r /\ fetchLock[stripe] = q
  BY <1>1 DEF LocksHeldByWorkers, HoldsItsLocks
<1> QED
  BY <1>2

\* A lookup removes entries, it adds none.
LEMMA AfterGetHolds ==
    ASSUME NEW c, NEW K, NEW V, NEW cap \in Nat, CacheOf(c, K, V, cap), NEW k, NEW x,
           NEW t, Holds(AfterGet(c, k, t), x, t)
    PROVE  Holds(c, x, t)
<1>1. x \in DOMAIN AfterGet(c, k, t) /\ AfterGet(c, k, t)[x].expires > t
  BY DEF Holds, LiveKeys
<1>2. x \in DOMAIN c /\ AfterGet(c, k, t)[x].expires = c[x].expires
  BY <1>1, AfterGetEntries
<1> QED
  BY <1>1, <1>2 DEF Holds, LiveKeys

\* Steps that store no snapshot and start no fetch.
LEMMA MissingKept ==
    ASSUME SourceInv, FetchesMissing, now' = now, NEW k,
           snapshots' = snapshots \/ snapshots' = AfterGet(snapshots, k, now),
           \A q \in Clients : pc'[q] = "fetching" =>
               pc[q] = "fetching" /\ work'[q].league = work[q].league
    PROVE  FetchesMissing'
<1> SUFFICES ASSUME NEW q \in Clients, pc'[q] = "fetching",
                    Holds(snapshots', work'[q].league, now')
             PROVE  FALSE
  BY DEF FetchesMissing
<1>1. pc[q] = "fetching" /\ work'[q].league = work[q].league
  OBVIOUS
<1>2. CacheOf(snapshots, Leagues, Generation, SnapCap) /\ SnapCap \in Nat
  BY Parts, Bounds DEF CachesOK
<1>3. Holds(snapshots, work[q].league, now)
  BY <1>1, <1>2, AfterGetHolds
<1> QED
  BY <1>1, <1>3 DEF FetchesMissing

\* A thread that moves elsewhere fetches nothing.
LEMMA MissingElsewhere ==
    ASSUME SourceInv, FetchesMissing, now' = now, NEW r \in Clients, OnlyMoves(r),
           pc'[r] # "fetching", NEW k,
           snapshots' = snapshots \/ snapshots' = AfterGet(snapshots, k, now)
    PROVE  FetchesMissing'
BY MissingKept DEF OnlyMoves

\* The lock holder fetches what it has just missed; what it stores is not what another
\* thread fetches.
LEMMA FetchStepMissing ==
    ASSUME SourceInv, FetchesApart, FetchesMissing, NEW r \in Clients,
           AcquireFetch(r) \/ FetchReturns(r)
    PROVE  FetchesMissing'
<1> DEFINE l == work[r].league
<1>1. CASE AcquireFetch(r) /\ Holds(snapshots, l, now)
  <2>1. /\ OnlyMoves(r) /\ pc'[r] = "derive" /\ now' = now
        /\ snapshots' = AfterGet(snapshots, l, now)
    BY <1>1, Parts DEF AcquireFetch, Goto, ThreadsOK, OnlyMoves, upstream
  <2> QED
    BY <2>1, MissingElsewhere
<1>2. CASE AcquireFetch(r) /\ ~Holds(snapshots, l, now)
  <2>1. Goto(r, "fetching") /\ UNCHANGED work /\ now' = now
        /\ snapshots' = AfterGet(snapshots, l, now)
    BY <1>2 DEF AcquireFetch, upstream
  <2>2. OnlyMoves(r) /\ pc'[r] = "fetching" /\ work'[r] = work[r]
    BY <2>1, Parts, StayMoves
  <2>3. CacheOf(snapshots, Leagues, Generation, SnapCap) /\ SnapCap \in Nat
    BY Parts, Bounds DEF CachesOK
  <2>4. ASSUME NEW q \in Clients, pc'[q] = "fetching"
        PROVE  ~Holds(snapshots, work'[q].league, now)
    BY <1>2, <2>2, <2>4 DEF OnlyMoves, FetchesMissing
  <2>5. ASSUME NEW q \in Clients, pc'[q] = "fetching"
        PROVE  ~Holds(snapshots', work'[q].league, now')
    BY <2>1, <2>3, <2>4, <2>5, AfterGetHolds
  <2> QED
    BY <2>5 DEF FetchesMissing
<1>3. CASE FetchReturns(r)
  <2>1. /\ pc[r] = "fetching" /\ pc'[r] = "storing" /\ OnlyMoves(r) /\ now' = now
        /\ snapshots' = AfterSet(snapshots, l, NewGeneration, now, SnapTTL, SnapCap)
    BY <1>3, Parts DEF FetchReturns, Goto, ThreadsOK, OnlyMoves
  <2>2. /\ CacheOf(snapshots, Leagues, Generation, SnapCap) /\ SnapCap \in Nat \ {0}
        /\ now \in Nat /\ SnapTTL \in Nat
    BY Parts, Bounds DEF CachesOK
  <2>3. l \in Leagues /\ NewGeneration \in Generation
    BY <1>3, <2>1, Parts, FetchEffect DEF ThreadInv, Refreshing, FetchReturns
  <2> DEFINE new == AfterSet(snapshots, l, NewGeneration, now, SnapTTL, SnapCap)
  <2>4. \A x \in DOMAIN new \ {l} : x \in LiveKeys(snapshots, now)
    <3> DEFINE g == NewGeneration
    <3>1. g \in Generation
      BY <2>3
    <3> HIDE DEF l, g
    <3>2. Stores(AfterSet(snapshots, l, g, now, SnapTTL, SnapCap), snapshots, l, g, now,
                 SnapTTL)
      BY <2>2, <2>3, <3>1, AfterSetStores
    <3> QED
      BY <3>2 DEF g, Stores
  <2>5. ASSUME NEW q \in Clients, pc'[q] = "fetching"
        PROVE  ~Holds(snapshots', work'[q].league, now')
    <3>1. q # r /\ pc[q] = "fetching" /\ work'[q] = work[q]
      BY <2>1, <2>5 DEF OnlyMoves
    <3>2. work[q].league # l /\ ~Holds(snapshots, work[q].league, now)
      BY <2>1, <3>1 DEF FetchesApart, FetchesMissing, Fetching
    <3>3. work[q].league \notin DOMAIN new
      BY <2>4, <3>2 DEF Holds
    <3>4. snapshots' = new
      BY <2>1
    <3> QED
      BY <3>1, <3>3, <3>4 DEF Holds, LiveKeys
  <2> QED
    BY <2>5 DEF FetchesMissing
<1> QED
  BY <1>1, <1>2, <1>3

\* No step lets a thread fetch what is cached.
LEMMA NextMissing ==
    ASSUME SourceInv, LocksHeldByWorkers, FetchesMissing, [Next]_vars
    PROVE  FetchesMissing'
<1>0. ThreadsOK /\ FetchesApart
  BY Parts, LocksKeepFetchesApart
<1>1. ASSUME NEW r \in Clients, Request(r) PROVE FetchesMissing'
  <2>1. OnlyMoves(r) /\ pc'[r] # "fetching" /\ now' = now
    BY <1>0, <1>1, RequestMoves
  <2>2. PICK k : snapshots' = snapshots \/ snapshots' = AfterGet(snapshots, k, now)
    BY <1>1 DEF Request, AnalyseCurrent, AnalyseSource, Forecast
  <2> QED
    BY <2>1, <2>2, MissingElsewhere
<1>2. ASSUME NEW r \in Clients, Step(r) PROVE FetchesMissing'
  <2>1. CASE Quiet(r)
    <3>1. OnlyMoves(r) /\ pc'[r] # "fetching" /\ now' = now
      BY <1>0, <2>1, QuietMoves DEF Working, Fetching
    <3>2. PICK k : snapshots' = snapshots \/ snapshots' = AfterGet(snapshots, k, now)
      BY <2>1 DEF Quiet, caches, LookupAnalysis, CompareRead, CompareFetchReturns,
                  CompareFails, Prepare, PrepareFails, Baseline
    <3> QED
      BY <3>1, <3>2, MissingElsewhere
  <2>2. CASE AcquireFetch(r) \/ FetchReturns(r)
    BY <1>0, <2>2, FetchStepMissing
  <2>3. CASE RetainGeneration(r) \/ FetchFails(r)
    <3>1. OnlyMoves(r) /\ pc'[r] # "fetching" /\ now' = now /\ snapshots' = snapshots
      BY <1>0, <2>3, StayMoves, AnswerMoves DEF RetainGeneration, FetchFails, caches, upstream
    <3> QED
      BY <3>1, MissingElsewhere
  <2>4. CASE FinishAnalysis(r) \/ AnalysisFails(r)
    <3>1. AnalysisReady(r, work[r].gen) \/ Refuse(r, work[r], "error")
      BY <2>4 DEF FinishAnalysis, AnalysisFails
    <3>2. OnlyMoves(r) /\ pc'[r] # "fetching"
      BY <1>0, <3>1, AnalysisReadyMoves, AnswerMoves DEF Working, Fetching
    <3>3. now' = now /\ snapshots' = snapshots
      BY <2>4 DEF FinishAnalysis, AnalysisFails, caches
    <3> QED
      BY <3>2, <3>3, MissingElsewhere
  <2>5. CASE FinishOutlook(r)
    <3> DEFINE o == [gen |-> work[r].gen, enr |-> work[r].enr, base |-> work[r].base]
    <3>1. OutlookReady(r, o) /\ now' = now /\ snapshots' = snapshots
      BY <2>5 DEF FinishOutlook, upstream
    <3> HIDE DEF o
    <3>2. OnlyMoves(r) /\ pc'[r] # "fetching"
      BY <1>0, <3>1, OutlookReadyMoves DEF Working, Fetching
    <3> QED
      BY <3>1, <3>2, MissingElsewhere
  <2>8. CASE OutlookFails(r)
    <3>1. OnlyMoves(r) /\ pc'[r] # "fetching" /\ now' = now /\ snapshots' = snapshots
      BY <1>0, <2>8, AnswerMoves DEF OutlookFails, caches, upstream
    <3> QED
      BY <3>1, MissingElsewhere
  <2>6. CASE AcquireAnalysis(r)
    <3>1. now' = now /\ snapshots' = snapshots
      BY <2>6 DEF AcquireAnalysis, upstream
    <3>2. CASE Holds(analyses, KeyOfAnalysis(r), now)
      <4>1. AnalysisReady(r, analyses[KeyOfAnalysis(r)].value)
        BY <2>6, <3>2 DEF AcquireAnalysis
      <4>2. OnlyMoves(r) /\ pc'[r] # "fetching"
        BY <1>0, <4>1, AnalysisReadyMoves DEF Working, Fetching
      <4> QED
        BY <3>1, <4>2, MissingElsewhere
    <3>3. CASE ~Holds(analyses, KeyOfAnalysis(r), now)
      <4>1. Goto(r, "analysing") /\ UNCHANGED work
        BY <2>6, <3>3 DEF AcquireAnalysis
      <4>2. OnlyMoves(r) /\ pc'[r] # "fetching"
        BY <1>0, <4>1, StayMoves
      <4> QED
        BY <3>1, <4>2, MissingElsewhere
    <3> QED
      BY <3>2, <3>3
  <2>7. CASE AcquireOutlook(r)
    <3>1. now' = now /\ snapshots' = snapshots
      BY <2>7 DEF AcquireOutlook, upstream
    <3>2. CASE Holds(outlooks, KeyOfOutlook(r), now)
      <4>1. OutlookReady(r, outlooks[KeyOfOutlook(r)].value)
        BY <2>7, <3>2 DEF AcquireOutlook
      <4>2. OnlyMoves(r) /\ pc'[r] # "fetching"
        BY <1>0, <4>1, OutlookReadyMoves DEF Working, Fetching
      <4> QED
        BY <3>1, <4>2, MissingElsewhere
    <3>3. CASE ~Holds(outlooks, KeyOfOutlook(r), now)
      <4>1. Goto(r, "simulating") /\ UNCHANGED work
        BY <2>7, <3>3 DEF AcquireOutlook
      <4>2. OnlyMoves(r) /\ pc'[r] # "fetching"
        BY <1>0, <4>1, StayMoves
      <4> QED
        BY <3>1, <4>2, MissingElsewhere
    <3> QED
      BY <3>2, <3>3
  <2> QED
    BY <1>2, <2>1, <2>2, <2>3, <2>4, <2>5, <2>6, <2>7, <2>8 DEF Step, Quiet
<1>3. ASSUME NEW l \in Leagues, JobCompletes(l) PROVE FetchesMissing'
  BY <1>3 DEF JobCompletes, caches, FetchesMissing
<1>4. ASSUME Tick PROVE FetchesMissing'
  <2>1. UNCHANGED <<snapshots, pc, work>> /\ now' = now + 1 /\ now \in Nat
    BY <1>4, Parts DEF Tick, caches
  <2>2. \A l \in DOMAIN snapshots : snapshots[l].expires \in Nat
    BY Parts DEF CachesOK, CacheOf, Entry
  <2> QED
    BY <2>1, <2>2 DEF FetchesMissing, Holds, LiveKeys
<1>5. ASSUME UNCHANGED vars PROVE FetchesMissing'
  BY <1>5 DEF vars, caches, upstream, FetchesMissing
<1> QED
  BY <1>1, <1>2, <1>3, <1>4, <1>5 DEF Next

\* Simultaneous refreshes of a league are coalesced into one fetch, and a fresh snapshot
\* is never fetched again by a refresh.
THEOREM CoalescedFetches == Spec => []FetchesCoalesced
<1>1. Init => FetchesMissing
  BY DEF Init, FetchesMissing
<1>2. SourceInv /\ LocksHeldByWorkers /\ FetchesMissing /\ [Next]_vars => FetchesMissing'
  BY NextMissing
<1>3. SourceInv /\ LocksHeldByWorkers /\ FetchesMissing => FetchesCoalesced
  BY LocksKeepFetchesApart DEF FetchesApart, FetchesMissing, FetchesCoalesced
<1> QED
  BY <1>1, <1>2, <1>3, SourceInvariant, LocksWithWorkers, PTL DEF Spec

-----------------------------------------------------------------------------
(* Retention: a generation leaves _generations only when it expires or     *)
(* when as many newer ones came as the cache holds.  Generations enter the *)
(* cache in the order of retained, each once, so the dict's order is that  *)
(* order, and eviction takes the first of it.                              *)

KeyAt(i) == <<born[retained[i].gen].league, retained[i].gen>>
Positions == 1..Len(retained)

RetainedOnce ==
    /\ \A i \in Positions : retained[i].gen \in Gens
    /\ \A i, j \in Positions : retained[i].gen = retained[j].gen => i = j

\* What a thread is about to retain is new.
StoringNew ==
    \A r \in Clients : pc[r] = "storing" =>
        /\ born[work[r].gen].league = work[r].league
        /\ \A i \in Positions : retained[i].gen # work[r].gen
        /\ \A q \in Clients : pc[q] = "storing" /\ work[q].gen = work[r].gen => q = r

KeysRetained ==
    \A k \in DOMAIN generations : \E i \in Positions :
        k = KeyAt(i) /\ generations[k].expires = retained[i].at + GenTTL

\* The dict's order is the order of retention.
InOrder ==
    \A i, j \in Positions :
        i < j /\ KeyAt(i) \in DOMAIN generations /\ KeyAt(j) \in DOMAIN generations
            => generations[KeyAt(i)].rank < generations[KeyAt(j)].rank

\* A generation that has not expired is there, unless that many newer ones are.
StillThere ==
    \A i \in Positions : now < retained[i].at + GenTTL /\ Len(retained) - i < GenCap
                             => KeyAt(i) \in DOMAIN generations

RetainInv == RetainedOnce /\ StoringNew /\ KeysRetained /\ InOrder /\ StillThere

\* The entry of a retained generation has the deadline it was given.
LEMMA RetainedDeadline ==
    ASSUME RetainInv, NEW i \in Positions, KeyAt(i) \in DOMAIN generations
    PROVE  generations[KeyAt(i)].expires = retained[i].at + GenTTL
<1>1. PICK j \in Positions : KeyAt(i) = KeyAt(j) /\ generations[KeyAt(i)].expires = retained[j].at + GenTTL
  BY DEF RetainInv, KeysRetained
<1>2. retained[i].gen = retained[j].gen
  BY <1>1 DEF KeyAt
<1> QED
  BY <1>1, <1>2 DEF RetainInv, RetainedOnce

\* Types of what the argument is about.
LEMMA RetentionTypes ==
    ASSUME SourceInv
    PROVE  /\ Len(retained) \in Nat /\ \A i \in Positions : retained[i].gen \in Generation /\ retained[i].at \in Nat
           /\ CacheOf(generations, Leagues \X Generation, Generation, GenCap)
           /\ GenCap \in Nat \ {0} /\ GenTTL \in Nat /\ now \in Nat
<1>1. retained \in Seq([gen : Generation, at : Time]) /\ now \in Nat
  BY Parts DEF ScoresOK
<1>2. Len(retained) \in Nat /\ \A i \in Positions : retained[i] \in [gen : Generation, at : Time]
  <2> DEFINE Item == [gen : Generation, at : Time]
  <2>1. retained \in Seq(Item)
    BY <1>1
  <2> HIDE DEF Item
  <2>2. Len(retained) \in Nat /\ \A i \in Positions : retained[i] \in Item
    BY <2>1 DEF Positions
  <2> QED
    BY <2>2 DEF Item
<1>3. \A i \in Positions : retained[i].gen \in Generation /\ retained[i].at \in Time
  BY <1>2
<1>4. GenCap \in Nat \ {0} /\ GenTTL \in Nat
  BY Bounds
<1>5. Time \subseteq Nat
  BY Bounds DEF Time
<1> QED
  BY <1>1, <1>2, <1>3, <1>4, <1>5, Parts DEF CachesOK

\* Steps that retain nothing and fetch nothing to retain; a lookup drops only what has expired.
LEMMA RetentionKept ==
    ASSUME SourceInv, RetainInv, retained' = retained, now' \in Nat, now' >= now,
           Gens \subseteq Gens', \A g \in Gens : born'[g] = born[g], StoringNew',
           NEW k, generations' = generations \/ (now' = now /\ generations' = AfterGet(generations, k, now))
    PROVE  RetainInv'
<1>0. Positions' = Positions /\ \A i \in Positions : retained[i].gen \in Gens
  BY DEF Positions, RetainInv, RetainedOnce
<1>1. \A i \in Positions : KeyAt(i)' = KeyAt(i)
  BY <1>0 DEF KeyAt
<1>2. RetainedOnce'
  BY <1>0 DEF RetainInv, RetainedOnce
<1>4. /\ \A x \in DOMAIN generations' : x \in DOMAIN generations /\ generations'[x].expires = generations[x].expires
      /\ \A a, b \in DOMAIN generations' : generations[a].rank < generations[b].rank
                                              => generations'[a].rank < generations'[b].rank
      /\ LiveKeys(generations, now') \subseteq DOMAIN generations'
  <2>1. CASE generations' = generations
    BY <2>1 DEF LiveKeys
  <2>2. CASE now' = now /\ generations' = AfterGet(generations, k, now)
    BY <2>2, RetentionTypes, AfterGetEntries, AfterGetOrder
  <2> QED
    BY <2>1, <2>2
<1>5. KeysRetained'
  <2> SUFFICES ASSUME NEW x \in DOMAIN generations'
               PROVE  \E i \in Positions : x = KeyAt(i)' /\ generations'[x].expires = retained[i].at + GenTTL
    BY <1>0 DEF KeysRetained
  <2>1. PICK i \in Positions : x = KeyAt(i) /\ generations[x].expires = retained[i].at + GenTTL
    BY <1>4 DEF RetainInv, KeysRetained
  <2> QED
    BY <1>1, <1>4, <2>1
<1>6. InOrder'
  <2> SUFFICES ASSUME NEW i \in Positions, NEW j \in Positions, i < j,
                      KeyAt(i)' \in DOMAIN generations', KeyAt(j)' \in DOMAIN generations'
               PROVE  generations'[KeyAt(i)'].rank < generations'[KeyAt(j)'].rank
    BY <1>0 DEF InOrder
  <2>1. KeyAt(i)' = KeyAt(i) /\ KeyAt(j)' = KeyAt(j)
    BY <1>1
  <2>2. generations[KeyAt(i)].rank < generations[KeyAt(j)].rank
    BY <1>4, <2>1 DEF RetainInv, InOrder
  <2> QED
    BY <1>4, <2>1, <2>2
<1>7. StillThere'
  <2> SUFFICES ASSUME NEW i \in Positions, now' < retained[i].at + GenTTL, Len(retained) - i < GenCap
               PROVE  KeyAt(i)' \in DOMAIN generations'
    BY <1>0 DEF StillThere
  <2>1. retained[i].at \in Nat /\ now \in Nat /\ GenTTL \in Nat
    BY RetentionTypes
  <2>2. KeyAt(i) \in DOMAIN generations
    BY <2>1 DEF RetainInv, StillThere
  <2>3. KeyAt(i) \in LiveKeys(generations, now')
    BY <2>1, <2>2, RetainedDeadline DEF LiveKeys
  <2> QED
    BY <1>1, <1>4, <2>3
<1> QED
  BY <1>2, <1>5, <1>6, <1>7 DEF RetainInv

\* A set that a function on i..n covers has n - i + 1 elements at most.
LEMMA CoveredByInterval ==
    ASSUME NEW L, NEW n \in Nat, NEW i \in 1..n, NEW f, DOMAIN f = 1..n,
           \A y \in L : \E j \in i..n : f[j] = y
    PROVE  Cardinality(L) <= n - i + 1
<1> DEFINE J == {j \in i..n : f[j] \in L}
           h == [j \in J |-> f[j]]
<1>1. IsFiniteSet(i..n) /\ Cardinality(i..n) = n - i + 1
  BY FS_Interval
<1>2. J \in SUBSET (i..n)
  OBVIOUS
<1>3. IsFiniteSet(J) /\ Cardinality(J) <= n - i + 1
  <2> HIDE DEF J
  <2> QED
    BY <1>1, <1>2, FS_Subset
<1>4. h \in Surjection(J, L)
  BY DEF Surjection
<1>5. IsFiniteSet(L) /\ Cardinality(L) <= Cardinality(J)
  <2> HIDE DEF J, h
  <2> QED
    BY <1>3, <1>4, FS_Surjection
<1>6. Cardinality(L) \in Nat /\ Cardinality(J) \in Nat
  <2> HIDE DEF J
  <2> QED
    BY <1>3, <1>5, FS_CardinalityType
<1> HIDE DEF J
<1> QED
  BY <1>3, <1>5, <1>6

\* An entry that precedes every live one has as many newer ones as there are others.
LEMMA NewerThanOldest ==
    ASSUME SourceInv, RetainInv, NEW i \in Positions, KeyAt(i) \in LiveKeys(generations, now),
           \A y \in LiveKeys(generations, now) : generations[KeyAt(i)].rank <= generations[y].rank
    PROVE  Cardinality(LiveKeys(generations, now)) <= Len(retained) - i + 1
<1> DEFINE f == [j \in Positions |-> KeyAt(j)]
           L == LiveKeys(generations, now)
<1>1. L \subseteq DOMAIN generations
  BY DEF LiveKeys
<1>2. \A y \in DOMAIN generations : generations[y].rank \in Nat
  BY RetentionTypes DEF CacheOf, Entry
<1>3. ASSUME NEW y \in L PROVE \E j \in i..Len(retained) : f[j] = y
  <2>1. PICK j \in Positions : y = KeyAt(j)
    BY <1>1 DEF RetainInv, KeysRetained
  <2>2. ~(j < i)
    BY <1>1, <1>2, <2>1 DEF RetainInv, InOrder
  <2>3. j \in i..Len(retained)
    BY <2>2, RetentionTypes DEF Positions
  <2> QED
    BY <2>1, <2>3
<1>4. Len(retained) \in Nat /\ i \in 1..Len(retained) /\ DOMAIN f = 1..Len(retained)
  BY RetentionTypes DEF Positions
<1> HIDE DEF f
<1> QED
  BY <1>3, <1>4, CoveredByInterval DEF L

\* Retaining a new generation puts it last and evicts only the oldest of a full cache.
LEMMA RetentionStored ==
    ASSUME SourceInv, RetainInv, NEW r \in Clients, RetainGeneration(r)
    PROVE  RetainInv'
<1> DEFINE l == work[r].league
           g == work[r].gen
           n == Len(retained)
           key == <<l, g>>
           new == AfterSet(generations, key, g, now, GenTTL, GenCap)
<1>1. /\ pc[r] = "storing" /\ generations' = new /\ born' = born /\ now' = now
      /\ retained' = Append(retained, [gen |-> g, at |-> now])
      /\ Goto(r, "derive") /\ UNCHANGED work
  BY DEF RetainGeneration, upstream
<1>2. l \in Leagues /\ g \in Generation /\ g \in Gens /\ born[g].league = l
  <2>1. ThreadInv(r) /\ pc[r] \in Deriving /\ pc[r] # "idle"
    BY <1>1, Parts DEF Deriving
  <2>2. l \in Leagues /\ g \in Gens
    BY <2>1 DEF ThreadInv
  <2>3. born[g].league = l
    BY <1>1 DEF RetainInv, StoringNew
  <2>4. g \in Generation
    BY <2>2, Parts, Bounds DEF ScoresOK, Gens, Generation
  <2> QED
    BY <2>2, <2>3, <2>4
<1>3. /\ n \in Nat /\ \A i \in Positions : retained[i].gen \in Generation /\ retained[i].at \in Nat
      /\ CacheOf(generations, Leagues \X Generation, Generation, GenCap)
      /\ GenCap \in Nat \ {0} /\ GenTTL \in Nat /\ now \in Nat
  BY RetentionTypes
<1>4. /\ Positions' = Positions \cup {n + 1}
      /\ \A i \in Positions : retained'[i] = retained[i] /\ i \in 1..n
      /\ retained'[n + 1] = [gen |-> g, at |-> now] /\ Len(retained') = n + 1
  <2> DEFINE Item == [gen : Generation, at : Time]
             item == [gen |-> g, at |-> now]
  <2>1. retained \in Seq(Item) /\ item \in Item
    BY <1>2, Parts DEF ScoresOK
  <2>2. retained' = Append(retained, item)
    BY <1>1
  <2> HIDE DEF Item, item
  <2>3. /\ Len(retained') = n + 1 /\ retained'[n + 1] = item
        /\ \A i \in 1..n : retained'[i] = retained[i]
    BY <2>1, <2>2
  <2> QED
    BY <2>3, <1>3 DEF Positions, item
<1>5. /\ \A i \in Positions : KeyAt(i)' = KeyAt(i)
      /\ \A i \in Positions' : i = n + 1 => KeyAt(i)' = key
  BY <1>1, <1>2, <1>4 DEF KeyAt
<1>6. key \in Leagues \X Generation /\ key \notin DOMAIN generations
  <2>1. ASSUME key \in DOMAIN generations PROVE FALSE
    <3>1. PICK i \in Positions : key = KeyAt(i)
      BY <2>1 DEF RetainInv, KeysRetained
    <3>2. retained[i].gen = g
      BY <3>1 DEF KeyAt
    <3> QED
      BY <1>1, <3>2 DEF RetainInv, StoringNew
  <2> QED
    BY <1>2, <2>1
<1> HIDE DEF l, g, key, n
<1>7. Stores(new, generations, key, g, now, GenTTL)
  BY <1>2, <1>3, <1>6, AfterSetStores
<1>8. /\ \A a, b \in DOMAIN new \ {key} : generations[a].rank < generations[b].rank
                                             => new[a].rank < new[b].rank
      /\ \A a \in DOMAIN new \ {key} : new[a].rank < new[key].rank
      /\ \A x \in LiveKeys(generations, now) \ DOMAIN new :
            /\ Cardinality(LiveKeys(generations, now)) >= GenCap
            /\ \A y \in LiveKeys(generations, now) : generations[x].rank <= generations[y].rank
  BY <1>2, <1>3, <1>6, AfterSetOrder
<1> HIDE DEF new
<1>9. \A i \in Positions : KeyAt(i) # key
  <2>1. ASSUME NEW i \in Positions, KeyAt(i) = key PROVE FALSE
    <3>1. retained[i].gen = g
      BY <2>1 DEF KeyAt, key
    <3> QED
      BY <1>1, <3>1 DEF RetainInv, StoringNew, g
  <2> QED
    BY <2>1
<1>10. RetainedOnce'
  <2>1. Gens' = Gens
    BY <1>1 DEF Gens
  <2>2. \A i \in Positions : retained[i].gen # g
    BY <1>1 DEF RetainInv, StoringNew, g
  <2> QED
    BY <1>2, <1>4, <2>1, <2>2 DEF RetainInv, RetainedOnce
<1>11. StoringNew'
  <2> SUFFICES ASSUME NEW q \in Clients, pc'[q] = "storing"
               PROVE  /\ born'[work'[q].gen].league = work'[q].league
                      /\ \A i \in Positions' : retained'[i].gen # work'[q].gen
                      /\ \A p \in Clients : pc'[p] = "storing" /\ work'[p].gen = work'[q].gen => p = q
    BY DEF StoringNew
  <2>1. \A p \in Clients : pc'[p] = "storing" => p # r /\ pc[p] = "storing" /\ work'[p] = work[p]
    BY <1>1, Parts DEF Goto, ThreadsOK
  <2>2. q # r /\ pc[q] = "storing" /\ work'[q] = work[q]
    BY <2>1
  <2>3. work[q].gen # g
    BY <1>1, <2>2 DEF RetainInv, StoringNew, g
  <2>4. \A i \in Positions : retained[i].gen # work[q].gen
    BY <2>2 DEF RetainInv, StoringNew
  <2>5. \A i \in Positions' : retained'[i].gen # work[q].gen
    BY <1>4, <2>3, <2>4
  <2>6. \A p \in Clients : pc[p] = "storing" /\ work[p].gen = work[q].gen => p = q
    BY <2>2 DEF RetainInv, StoringNew
  <2>7. born[work[q].gen].league = work[q].league
    BY <2>2 DEF RetainInv, StoringNew
  <2> QED
    BY <1>1, <2>1, <2>2, <2>5, <2>6, <2>7
<1>12. KeysRetained'
  <2> SUFFICES ASSUME NEW x \in DOMAIN new
               PROVE  \E i \in Positions' : x = KeyAt(i)' /\ new[x].expires = retained'[i].at + GenTTL
    BY <1>1 DEF KeysRetained
  <2>1. CASE x = key
    <3>1. PICK i \in Positions' : i = n + 1
      BY <1>4
    <3>2. KeyAt(i)' = key /\ retained'[i] = [gen |-> g, at |-> now]
      BY <1>4, <1>5, <3>1
    <3> QED
      BY <1>7, <2>1, <3>2 DEF Stores
  <2>2. CASE x # key
    <3>1. x \in DOMAIN generations /\ new[x].expires = generations[x].expires
      BY <1>7, <2>2 DEF Stores, LiveKeys
    <3>2. PICK i \in Positions : x = KeyAt(i) /\ generations[x].expires = retained[i].at + GenTTL
      BY <3>1 DEF RetainInv, KeysRetained
    <3> QED
      BY <1>4, <1>5, <3>1, <3>2
  <2> QED
    BY <2>1, <2>2
<1>13. InOrder'
  <2> SUFFICES ASSUME NEW i \in Positions', NEW j \in Positions', i < j,
                      KeyAt(i)' \in DOMAIN new, KeyAt(j)' \in DOMAIN new
               PROVE  new[KeyAt(i)'].rank < new[KeyAt(j)'].rank
    BY <1>1 DEF InOrder
  <2>1. i \in Positions /\ KeyAt(i)' = KeyAt(i) /\ KeyAt(i) # key
    BY <1>3, <1>4, <1>5, <1>9 DEF Positions, n
  <2>2. CASE j = n + 1
    BY <1>5, <1>8, <2>1, <2>2
  <2>3. CASE j \in Positions
    <3>1. KeyAt(j)' = KeyAt(j) /\ KeyAt(j) # key
      BY <1>5, <1>9, <2>3
    <3>2. KeyAt(i) \in DOMAIN generations /\ KeyAt(j) \in DOMAIN generations
      BY <1>7, <2>1, <3>1 DEF Stores, LiveKeys
    <3>3. generations[KeyAt(i)].rank < generations[KeyAt(j)].rank
      BY <2>1, <2>3, <3>2 DEF RetainInv, InOrder
    <3> QED
      BY <1>8, <2>1, <3>1, <3>3
  <2> QED
    BY <1>4, <2>2, <2>3
<1>14. StillThere'
  <2> SUFFICES ASSUME NEW i \in Positions', now' < retained'[i].at + GenTTL,
                      Len(retained') - i < GenCap
               PROVE  KeyAt(i)' \in DOMAIN generations'
    BY DEF StillThere
  <2>0. now < retained'[i].at + GenTTL /\ n + 1 - i < GenCap /\ generations' = new
    <3>1. now < retained'[i].at + GenTTL /\ generations' = new
      BY <1>1
    <3>2. n + 1 - i < GenCap
      <4>1. i \in Nat
        BY <1>3, <1>4 DEF Positions
      <4>2. Len(retained') = n + 1
        BY <1>4
      <4> HIDE DEF Positions
      <4> QED
        BY <1>3, <4>1, <4>2
    <3> QED
      BY <3>1, <3>2
  <2>1. CASE i = n + 1
    BY <1>5, <1>7, <2>0, <2>1 DEF Stores
  <2>2. CASE i \in Positions
    <3>1. retained'[i] = retained[i] /\ KeyAt(i)' = KeyAt(i) /\ i \in Nat
      BY <1>4, <1>5, <2>2 DEF Positions
    <3>2. KeyAt(i) \in DOMAIN generations
      BY <1>3, <2>0, <2>2, <3>1 DEF RetainInv, StillThere, n
    <3>3. KeyAt(i) \in LiveKeys(generations, now)
      BY <1>3, <2>0, <2>2, <3>1, <3>2, RetainedDeadline DEF LiveKeys
    <3>4. ASSUME KeyAt(i) \notin DOMAIN new PROVE FALSE
      <4>1. /\ Cardinality(LiveKeys(generations, now)) >= GenCap
            /\ \A y \in LiveKeys(generations, now) : generations[KeyAt(i)].rank <= generations[y].rank
        BY <1>8, <3>3, <3>4
      <4>2. Cardinality(LiveKeys(generations, now)) <= n - i + 1
        BY <2>2, <3>3, <4>1, NewerThanOldest DEF n
      <4>3. Cardinality(LiveKeys(generations, now)) \in Nat
        <5>1. IsFiniteSet(LiveKeys(generations, now))
          BY <1>3, FS_Subset DEF CacheOf, LiveKeys
        <5> QED
          BY <5>1, FS_CardinalityType
      <4> QED
        BY <1>3, <2>0, <3>1, <4>1, <4>2, <4>3
    <3> QED
      BY <2>0, <3>1, <3>4
  <2> QED
    BY <1>4, <2>1, <2>2
<1> QED
  BY <1>10, <1>11, <1>12, <1>13, <1>14 DEF RetainInv

\* A fetched generation is a new one.
LEMMA RetentionFetched ==
    ASSUME SourceInv, RetainInv, NEW r \in Clients, FetchReturns(r)
    PROVE  RetainInv'
<1> DEFINE l == work[r].league
<1>1. /\ pc[r] = "fetching" /\ Fetch(l) /\ now' = now
      /\ generations' = generations /\ retained' = retained
      /\ OnlyMoves(r) /\ work'[r].gen = NewGeneration /\ work'[r].league = l
  BY Parts DEF FetchReturns, Goto, ThreadsOK, OnlyMoves, seen, Work
<1>2. l \in Leagues /\ ScoresOK /\ now \in Nat
  BY <1>1, Parts DEF ThreadInv
<1>3. /\ Gens \subseteq Gens' /\ \A g \in Gens : born'[g] = born[g]
      /\ NewGeneration \notin Gens
      /\ born'[NewGeneration] = [league |-> l, at |-> now]
  <2>1. NewGeneration \notin Gens
    BY <1>2 DEF ScoresOK, NewGeneration, Gens
  <2> HIDE DEF l
  <2> QED
    BY <1>1, <1>2, <2>1, FetchEffect
<1>4. StoringNew'
  <2>1. \A i \in Positions : retained[i].gen \in Gens
    BY DEF RetainInv, RetainedOnce
  <2>2. ASSUME NEW q \in Clients \ {r}, pc'[q] = "storing"
        PROVE  /\ pc[q] = "storing" /\ work'[q] = work[q] /\ work[q].gen \in Gens
               /\ work[q].gen # NewGeneration
    <3>1. pc[q] = "storing" /\ work'[q] = work[q]
      BY <1>1, <2>2 DEF OnlyMoves
    <3> QED
      BY <1>3, <3>1, Parts DEF ThreadInv, Deriving
  <2> SUFFICES ASSUME NEW q \in Clients, pc'[q] = "storing"
               PROVE  /\ born'[work'[q].gen].league = work'[q].league
                      /\ \A i \in Positions : retained[i].gen # work'[q].gen
                      /\ \A p \in Clients : pc'[p] = "storing" /\ work'[p].gen = work'[q].gen => p = q
    BY <1>1 DEF StoringNew, Positions
  <2>3. CASE q = r
    <3>1. born'[work'[q].gen].league = work'[q].league
      BY <1>1, <1>3, <2>3
    <3>2. \A i \in Positions : retained[i].gen # work'[q].gen
      BY <1>1, <1>3, <2>1, <2>3
    <3>3. \A p \in Clients : pc'[p] = "storing" /\ work'[p].gen = work'[q].gen => p = q
      BY <1>1, <2>2, <2>3
    <3> QED
      BY <3>1, <3>2, <3>3
  <2>4. CASE q # r
    <3>1. /\ pc[q] = "storing" /\ work'[q] = work[q] /\ work[q].gen \in Gens
          /\ work[q].gen # NewGeneration
      BY <2>2, <2>4
    <3>2. /\ born[work[q].gen].league = work[q].league
          /\ \A i \in Positions : retained[i].gen # work[q].gen
          /\ \A p \in Clients : pc[p] = "storing" /\ work[p].gen = work[q].gen => p = q
      BY <3>1 DEF RetainInv, StoringNew
    <3>3. ASSUME NEW p \in Clients, pc'[p] = "storing", work'[p].gen = work'[q].gen PROVE p = q
      <4>1. p # r
        BY <1>1, <3>1, <3>3
      <4>2. pc[p] = "storing" /\ work'[p] = work[p]
        BY <2>2, <3>3, <4>1
      <4> QED
        BY <3>1, <3>2, <3>3, <4>2
    <3> QED
      BY <1>3, <3>1, <3>2, <3>3
  <2> QED
    BY <2>3, <2>4
<1> HIDE DEF l
<1>5. now' \in Nat /\ now' >= now
  BY <1>1, <1>2
<1> QED
  BY <1>1, <1>3, <1>4, <1>5, RetentionKept

\* Steps with which no thread comes to have a generation to retain.
LEMMA RetentionQuiet ==
    ASSUME SourceInv, RetainInv, retained' = retained, now' \in Nat, now' >= now,
           Gens \subseteq Gens', \A g \in Gens : born'[g] = born[g],
           \A q \in Clients : pc'[q] = "storing" => pc[q] = "storing" /\ work'[q] = work[q],
           NEW k, generations' = generations \/ (now' = now /\ generations' = AfterGet(generations, k, now))
    PROVE  RetainInv'
<1>1. \A r \in Clients : pc[r] = "storing" => work[r].gen \in Gens
  BY Parts DEF ThreadInv, Deriving
<1>2. Positions' = Positions
  BY DEF Positions
<1>3. StoringNew'
  BY <1>1, <1>2 DEF RetainInv, StoringNew
<1> QED
  BY <1>3, RetentionKept

\* Such a step of one thread.
LEMMA RetentionElsewhere ==
    ASSUME SourceInv, RetainInv, retained' = retained, now' = now, NEW r \in Clients,
           OnlyMoves(r), pc'[r] # "storing",
           Gens \subseteq Gens', \A g \in Gens : born'[g] = born[g],
           NEW k, generations' = generations \/ generations' = AfterGet(generations, k, now)
    PROVE  RetainInv'
<1>1. now' \in Nat /\ now' >= now
  BY Parts
<1>2. \A q \in Clients : pc'[q] = "storing" => pc[q] = "storing" /\ work'[q] = work[q]
  BY DEF OnlyMoves
<1> QED
  BY <1>1, <1>2, RetentionQuiet

\* Every step keeps it.
LEMMA NextRetained ==
    ASSUME SourceInv, RetainInv, [Next]_vars
    PROVE  RetainInv'
<1>0. ThreadsOK
  BY Parts
<1>1. ASSUME NEW r \in Clients, Request(r) PROVE RetainInv'
  <2>1. OnlyMoves(r) /\ pc'[r] # "storing" /\ now' = now
    BY <1>0, <1>1, RequestMoves
  <2>2. retained' = retained /\ born' = born
    BY <1>1 DEF Request, AnalyseCurrent, AnalyseSource, Forecast, seen, upstream
  <2>3. PICK k : generations' = generations \/ generations' = AfterGet(generations, k, now)
    BY <1>1 DEF Request, AnalyseCurrent, AnalyseSource, Forecast
  <2>4. Gens' = Gens
    BY <2>2 DEF Gens
  <2> QED
    BY <2>1, <2>2, <2>3, <2>4, RetentionElsewhere
<1>2. ASSUME NEW r \in Clients, Step(r) PROVE RetainInv'
  <2>1. CASE RetainGeneration(r)
    BY <2>1, RetentionStored
  <2>2. CASE FetchReturns(r)
    BY <2>2, RetentionFetched
  <2>3. ASSUME OnlyMoves(r), pc'[r] # "storing", now' = now, retained' = retained,
               born' = born, generations' = generations
        PROVE  RetainInv'
    <3>1. Gens' = Gens
      BY <2>3 DEF Gens
    <3> QED
      BY <2>3, <3>1, RetentionElsewhere
  <2>4. CASE Quiet(r)
    <3>1. OnlyMoves(r) /\ pc'[r] # "storing" /\ now' = now
      BY <1>0, <2>4, QuietMoves DEF Working, Fetching
    <3>2. /\ retained' = retained
          /\ \E k : generations' = generations \/ generations' = AfterGet(generations, k, now)
      <4>1. CASE LookupAnalysis(r) \/ CompareRead(r) \/ CompareFetchReturns(r)
        BY <4>1 DEF LookupAnalysis, CompareRead, CompareFetchReturns, caches, seen
      <4>2. CASE CompareFails(r)
        BY <4>2 DEF CompareFails, caches
      <4>3. CASE Prepare(r) \/ PrepareFails(r)
        BY <4>3 DEF Prepare, PrepareFails, caches
      <4>4. CASE Baseline(r)
        BY <4>4 DEF Baseline
      <4> QED
        BY <2>4, <4>1, <4>2, <4>3, <4>4 DEF Quiet
    <3>3. Gens \subseteq Gens' /\ \A g \in Gens : born'[g] = born[g]
      <4>1. CASE CompareFetchReturns(r)
        <5>1. work[r].league \in Leagues /\ Fetch(work[r].league) /\ ScoresOK
          BY <4>1, Parts DEF CompareFetchReturns, ThreadInv
        <5> QED
          BY <3>1, <5>1, FetchEffect
      <4>2. CASE born' = born
        BY <4>2 DEF Gens
      <4> QED
        BY <2>4, <4>1, <4>2 DEF Quiet, LookupAnalysis, CompareRead, CompareFails, Prepare,
                                PrepareFails, Baseline, upstream
    <3> QED
      BY <3>1, <3>2, <3>3, RetentionElsewhere
  <2>5. CASE AcquireFetch(r)
    <3>1. now' = now /\ retained' = retained /\ born' = born /\ generations' = generations
      BY <2>5 DEF AcquireFetch, upstream, seen
    <3>2. OnlyMoves(r) /\ pc'[r] # "storing"
      BY <1>0, <2>5 DEF AcquireFetch, Goto, ThreadsOK, OnlyMoves
    <3> QED
      BY <2>3, <3>1, <3>2
  <2>6. CASE FetchFails(r) \/ OutlookFails(r)
    <3>1. OnlyMoves(r) /\ pc'[r] # "storing"
      BY <1>0, <2>6, AnswerMoves DEF FetchFails, OutlookFails
    <3> QED
      BY <2>3, <2>6, <3>1 DEF FetchFails, OutlookFails, caches, upstream
  <2>7. CASE FinishAnalysis(r) \/ AnalysisFails(r)
    <3>1. AnalysisReady(r, work[r].gen) \/ Refuse(r, work[r], "error")
      BY <2>7 DEF FinishAnalysis, AnalysisFails
    <3>2. OnlyMoves(r) /\ pc'[r] # "storing"
      BY <1>0, <3>1, AnalysisReadyMoves, AnswerMoves DEF Working, Fetching
    <3>3. now' = now /\ retained' = retained /\ born' = born /\ generations' = generations
      BY <2>7 DEF FinishAnalysis, AnalysisFails, caches
    <3> QED
      BY <2>3, <3>2, <3>3
  <2>8. CASE FinishOutlook(r)
    <3> DEFINE o == [gen |-> work[r].gen, enr |-> work[r].enr, base |-> work[r].base]
    <3>1. /\ OutlookReady(r, o)
          /\ now' = now /\ retained' = retained /\ born' = born /\ generations' = generations
      BY <2>8 DEF FinishOutlook, upstream
    <3> HIDE DEF o
    <3>2. OnlyMoves(r) /\ pc'[r] # "storing"
      BY <1>0, <3>1, OutlookReadyMoves DEF Working, Fetching
    <3> QED
      BY <2>3, <3>1, <3>2
  <2>9. CASE AcquireAnalysis(r)
    <3>1. now' = now /\ retained' = retained /\ born' = born /\ generations' = generations
      BY <2>9 DEF AcquireAnalysis, upstream
    <3>2. OnlyMoves(r) /\ pc'[r] # "storing"
      <4>1. CASE AnalysisReady(r, analyses[KeyOfAnalysis(r)].value)
        BY <1>0, <4>1, AnalysisReadyMoves DEF Working, Fetching
      <4>2. CASE Goto(r, "analysing") /\ UNCHANGED work
        BY <1>0, <4>2, StayMoves
      <4> QED
        BY <2>9, <4>1, <4>2 DEF AcquireAnalysis
    <3> QED
      BY <2>3, <3>1, <3>2
  <2>10. CASE AcquireOutlook(r)
    <3>1. now' = now /\ retained' = retained /\ born' = born /\ generations' = generations
      BY <2>10 DEF AcquireOutlook, upstream
    <3>2. OnlyMoves(r) /\ pc'[r] # "storing"
      <4>1. CASE OutlookReady(r, outlooks[KeyOfOutlook(r)].value)
        BY <1>0, <4>1, OutlookReadyMoves DEF Working, Fetching
      <4>2. CASE Goto(r, "simulating") /\ UNCHANGED work
        BY <1>0, <4>2, StayMoves
      <4> QED
        BY <2>10, <4>1, <4>2 DEF AcquireOutlook
    <3> QED
      BY <2>3, <3>1, <3>2
  <2> QED
    BY <1>2, <2>1, <2>2, <2>4, <2>5, <2>6, <2>7, <2>8, <2>9, <2>10 DEF Step, Quiet
<1>3. ASSUME NEW l \in Leagues, JobCompletes(l) PROVE RetainInv'
  <2>1. UNCHANGED <<now, born, retained, generations, pc, work>>
    BY <1>3 DEF JobCompletes, caches, seen
  <2>2. Gens' = Gens /\ now' \in Nat /\ now' >= now
    BY <2>1, Parts DEF Gens
  <2> QED
    BY <2>1, <2>2, RetentionQuiet
<1>4. ASSUME Tick PROVE RetainInv'
  <2>1. UNCHANGED <<born, retained, generations, pc, work>> /\ now' = now + 1
    BY <1>4 DEF Tick, caches, seen
  <2>2. Gens' = Gens /\ now' \in Nat /\ now' >= now
    BY <2>1, Parts DEF Gens
  <2> QED
    BY <2>1, <2>2, RetentionQuiet
<1>5. ASSUME UNCHANGED vars PROVE RetainInv'
  <2>1. UNCHANGED <<now, born, retained, generations, pc, work>>
    BY <1>5 DEF vars, caches, upstream, seen
  <2>2. Gens' = Gens /\ now' \in Nat /\ now' >= now
    BY <2>1, Parts DEF Gens
  <2> QED
    BY <2>1, <2>2, RetentionQuiet
<1> QED
  BY <1>1, <1>2, <1>3, <1>4, <1>5 DEF Next

\* A generation can be named for as long as the README promises: until it expires, or
\* until as many newer ones came as the cache holds.
THEOREM SourcesRetained == Spec => []SourceRetained
<1>1. Init => RetainInv
  BY DEF Init, RetainInv, RetainedOnce, StoringNew, KeysRetained, InOrder, StillThere,
         Positions, EmptyCache
<1>2. SourceInv /\ RetainInv /\ [Next]_vars => RetainInv'
  BY NextRetained
<1>3. SourceInv /\ RetainInv => SourceRetained
  <2> SUFFICES ASSUME SourceInv, RetainInv, NEW i \in Positions,
                      now < retained[i].at + GenTTL, Len(retained) - i < GenCap
               PROVE  Holds(generations, KeyAt(i), now)
    BY DEF SourceRetained, Positions, KeyAt
  <2>1. KeyAt(i) \in DOMAIN generations
    BY DEF RetainInv, StillThere
  <2>2. generations[KeyAt(i)].expires = retained[i].at + GenTTL
    BY <2>1, RetainedDeadline
  <2> QED
    BY <2>1, <2>2 DEF Holds, LiveKeys
<1> QED
  BY <1>1, <1>2, <1>3, SourceInvariant, PTL DEF Spec

-----------------------------------------------------------------------------
(* The enrichment: what its threads and jobs hold (ForecastEnricher).      *)

IsSeq(s) == \E S : s \in Seq(S)

Statuses == {"queued", "running", "done", "failed"}
IsJob(x) ==
    /\ x = [of |-> x.of, status |-> x.status, rows |-> x.rows, slot |-> x.slot]
    /\ x.status \in Statuses /\ x.slot \in BOOLEAN

Places == {"idle", "prime", "look", "submit", "freeze", "wait", "collected"}
IsCall(x) ==
    /\ x = [pc |-> x.pc, gen |-> x.gen, prepares |-> x.prepares, left |-> x.left,
            found |-> x.found, used |-> x.used]
    /\ x.pc \in Places

\* The shape of the state.
ShapeInv ==
    /\ IsSeq(gens) /\ IsSeq(given) /\ IsSeq(futures) /\ Len(given) = Len(gens)
    /\ \A n \in DOMAIN futures : IsJob(futures[n])
    /\ requests = [t \in Threads |-> requests[t]]
    /\ \A t \in Threads : /\ IsCall(requests[t])
                          /\ ~At(t, "idle") => requests[t].gen \in DOMAIN gens
    /\ DOMAIN frozen \subseteq DOMAIN gens

Jobbing == {"look", "submit"}
Held == {n \in DOMAIN futures : futures[n].slot}
Reserved == IF \E t \in Threads : At(t, "submit") THEN 1 ELSE 0

\* One thread at a time looks for jobs, and what has no slot yet has one set aside.
PoolInv ==
    /\ \A t \in Threads : requests[t].pc \in Jobbing => primer = t
    /\ \A t \in Threads : At(t, "submit") => Head(requests[t].left) \notin DOMAIN jobs
    /\ free \in Nat /\ free + Cardinality(Held) + Reserved = Slots
    /\ \A p \in DOMAIN jobs : jobs[p] \in DOMAIN futures
    /\ \A n \in DOMAIN futures :
          Pending(n) => /\ futures[n].slot /\ futures[n].of \in DOMAIN jobs
                        /\ jobs[futures[n].of] = n

Fair(g, histories) == \A p \in DOMAIN histories : histories[p] \subseteq gens[g].over

\* One thread at a time freezes a generation, from what was over in it, and what it gives
\* out afterwards is what it froze.
FrozenInv ==
    /\ \A t \in Freezing : requests[t].gen \notin DOMAIN frozen
    /\ \A t, u \in Freezing : requests[t].gen = requests[u].gen => t = u
    /\ \A t \in Freezing : At(t, "collected") => Fair(requests[t].gen, requests[t].used)
    /\ \A g \in DOMAIN frozen : Fair(g, frozen[g].histories)
    /\ \A g \in DOMAIN given :
          given[g] \subseteq (IF g \in DOMAIN frozen THEN {frozen[g]} ELSE {})

EnricherInv == ShapeInv /\ PoolInv /\ FrozenInv

\* Sequences of anything grow and change.
LEMMA Grown ==
    ASSUME NEW s, IsSeq(s), NEW e
    PROVE  /\ IsSeq(Append(s, e)) /\ Len(s) \in Nat
           /\ DOMAIN s = 1..Len(s) /\ DOMAIN Append(s, e) = DOMAIN s \cup {Len(s) + 1}
           /\ Len(Append(s, e)) = Len(s) + 1 /\ Len(s) + 1 \notin DOMAIN s
           /\ \A n \in DOMAIN s : Append(s, e)[n] = s[n]
           /\ Append(s, e)[Len(s) + 1] = e
<1>1. PICK S : s \in Seq(S)
  BY DEF IsSeq
<1> DEFINE T == S \cup {e}
<1>2. s \in Seq(T) /\ e \in T
  BY <1>1
<1> HIDE DEF T
<1>3. Append(s, e) \in Seq(T)
  BY <1>2
<1> QED
  BY <1>2, <1>3 DEF IsSeq

LEMMA Changed ==
    ASSUME NEW s, IsSeq(s), NEW n \in DOMAIN s, NEW e
    PROVE  /\ IsSeq([s EXCEPT ![n] = e]) /\ Len([s EXCEPT ![n] = e]) = Len(s)
           /\ DOMAIN [s EXCEPT ![n] = e] = DOMAIN s
           /\ [s EXCEPT ![n] = e][n] = e
           /\ \A m \in DOMAIN s : m # n => [s EXCEPT ![n] = e][m] = s[m]
<1>1. PICK S : s \in Seq(S)
  BY DEF IsSeq
<1> DEFINE T == S \cup {e}
<1>2. s \in Seq(T) /\ e \in T
  BY <1>1
<1> HIDE DEF T
<1>3. [s EXCEPT ![n] = e] \in Seq(T)
  BY <1>2
<1> QED
  BY <1>2, <1>3 DEF IsSeq

\* The parts of a call that changes.
LEMMA CallChanged ==
    ASSUME NEW y, IsCall(y), NEW b
    PROVE /\ [y EXCEPT !.pc = b] = [pc |-> b, gen |-> y.gen, prepares |-> y.prepares,
                                    left |-> y.left, found |-> y.found, used |-> y.used]
          /\ [y EXCEPT !.left = b] = [pc |-> y.pc, gen |-> y.gen, prepares |-> y.prepares,
                                      left |-> b, found |-> y.found, used |-> y.used]
          /\ [y EXCEPT !.found = b] = [pc |-> y.pc, gen |-> y.gen, prepares |-> y.prepares,
                                       left |-> y.left, found |-> b, used |-> y.used]
          /\ [y EXCEPT !.used = b] = [pc |-> y.pc, gen |-> y.gen, prepares |-> y.prepares,
                                      left |-> y.left, found |-> y.found, used |-> b]
<1>1. PICK g, h, i, j, k, l : y = [pc |-> g, gen |-> h, prepares |-> i, left |-> j, found |-> k, used |-> l]
  BY DEF IsCall
<1>2. [y EXCEPT !.pc = b] = [pc |-> b, gen |-> h, prepares |-> i, left |-> j, found |-> k, used |-> l]
  BY <1>1
<1>3. [y EXCEPT !.left = b] = [pc |-> g, gen |-> h, prepares |-> i, left |-> b, found |-> k, used |-> l]
  BY <1>1
<1>4. [y EXCEPT !.found = b] = [pc |-> g, gen |-> h, prepares |-> i, left |-> j, found |-> b, used |-> l]
  BY <1>1
<1>5. [y EXCEPT !.used = b] = [pc |-> g, gen |-> h, prepares |-> i, left |-> j, found |-> k, used |-> b]
  BY <1>1
<1> QED
  BY <1>1, <1>2, <1>3, <1>4, <1>5

LEMMA PlaceAndLeft ==
    ASSUME ShapeInv, NEW t \in Threads, NEW a, NEW b,
           requests' = [requests EXCEPT ![t].pc = a, ![t].left = b]
    PROVE  requests' = [requests EXCEPT ![t] =
              [pc |-> a, gen |-> requests[t].gen, prepares |-> requests[t].prepares,
               left |-> b, found |-> requests[t].found, used |-> requests[t].used]]
<1>0. t \in DOMAIN requests /\ IsCall(requests[t])
  BY DEF ShapeInv
<1>1. PICK y : y = [requests[t] EXCEPT !.pc = a]
  OBVIOUS
<1>2. y = [pc |-> a, gen |-> requests[t].gen, prepares |-> requests[t].prepares,
           left |-> requests[t].left, found |-> requests[t].found, used |-> requests[t].used]
  BY <1>0, <1>1, CallChanged
<1>3. PICK s : s = [requests EXCEPT ![t] = y]
  OBVIOUS
<1>4. s[t] = y /\ DOMAIN s = DOMAIN requests
  BY <1>0, <1>3
<1>5. requests' = [s EXCEPT ![t].left = b]
  BY <1>1, <1>3
<1>6. requests' = [s EXCEPT ![t] = [y EXCEPT !.left = b]]
  BY <1>4, <1>5
<1>7. [y EXCEPT !.left = b] = [pc |-> a, gen |-> requests[t].gen, prepares |-> requests[t].prepares,
                              left |-> b, found |-> requests[t].found, used |-> requests[t].used]
  BY <1>2
<1> QED
  BY <1>3, <1>4, <1>6, <1>7

LEMMA PlaceAndFound ==
    ASSUME ShapeInv, NEW t \in Threads, NEW a, NEW b,
           requests' = [requests EXCEPT ![t].pc = a, ![t].found = b]
    PROVE  requests' = [requests EXCEPT ![t] =
              [pc |-> a, gen |-> requests[t].gen, prepares |-> requests[t].prepares,
               left |-> requests[t].left, found |-> b, used |-> requests[t].used]]
<1>0. t \in DOMAIN requests /\ IsCall(requests[t])
  BY DEF ShapeInv
<1>1. PICK y : y = [requests[t] EXCEPT !.pc = a]
  OBVIOUS
<1>2. y = [pc |-> a, gen |-> requests[t].gen, prepares |-> requests[t].prepares,
           left |-> requests[t].left, found |-> requests[t].found, used |-> requests[t].used]
  BY <1>0, <1>1, CallChanged
<1>3. PICK s : s = [requests EXCEPT ![t] = y]
  OBVIOUS
<1>4. s[t] = y /\ DOMAIN s = DOMAIN requests
  BY <1>0, <1>3
<1>5. requests' = [s EXCEPT ![t].found = b]
  BY <1>1, <1>3
<1>6. requests' = [s EXCEPT ![t] = [y EXCEPT !.found = b]]
  BY <1>4, <1>5
<1>7. [y EXCEPT !.found = b] = [pc |-> a, gen |-> requests[t].gen, prepares |-> requests[t].prepares,
                              left |-> requests[t].left, found |-> b, used |-> requests[t].used]
  BY <1>2
<1> QED
  BY <1>3, <1>4, <1>6, <1>7

LEMMA PlaceAndUsed ==
    ASSUME ShapeInv, NEW t \in Threads, NEW a, NEW b,
           requests' = [requests EXCEPT ![t].pc = a, ![t].used = b]
    PROVE  requests' = [requests EXCEPT ![t] =
              [pc |-> a, gen |-> requests[t].gen, prepares |-> requests[t].prepares,
               left |-> requests[t].left, found |-> requests[t].found, used |-> b]]
<1>0. t \in DOMAIN requests /\ IsCall(requests[t])
  BY DEF ShapeInv
<1>1. PICK y : y = [requests[t] EXCEPT !.pc = a]
  OBVIOUS
<1>2. y = [pc |-> a, gen |-> requests[t].gen, prepares |-> requests[t].prepares,
           left |-> requests[t].left, found |-> requests[t].found, used |-> requests[t].used]
  BY <1>0, <1>1, CallChanged
<1>3. PICK s : s = [requests EXCEPT ![t] = y]
  OBVIOUS
<1>4. s[t] = y /\ DOMAIN s = DOMAIN requests
  BY <1>0, <1>3
<1>5. requests' = [s EXCEPT ![t].used = b]
  BY <1>1, <1>3
<1>6. requests' = [s EXCEPT ![t] = [y EXCEPT !.used = b]]
  BY <1>4, <1>5
<1>7. [y EXCEPT !.used = b] = [pc |-> a, gen |-> requests[t].gen, prepares |-> requests[t].prepares,
                              left |-> requests[t].left, found |-> requests[t].found, used |-> b]
  BY <1>2
<1> QED
  BY <1>3, <1>4, <1>6, <1>7

\* A thread moves on, and the others stay.
LEMMA Moved ==
    ASSUME ShapeInv, NEW t \in Threads, NEW x, IsCall(x), requests' = [requests EXCEPT ![t] = x]
    PROVE  /\ requests' = [u \in Threads |-> requests'[u]]
           /\ requests'[t] = x /\ \A u \in Threads \ {t} : requests'[u] = requests[u]
           /\ \A u \in Threads : IsCall(requests'[u])
BY DEF ShapeInv

\* A job becomes another, and the others stay.
LEMMA Turned ==
    ASSUME ShapeInv, NEW n \in DOMAIN futures, NEW x, IsJob(x), futures' = [futures EXCEPT ![n] = x]
    PROVE  /\ IsSeq(futures') /\ DOMAIN futures' = DOMAIN futures
           /\ futures'[n] = x /\ \A m \in DOMAIN futures \ {n} : futures'[m] = futures[m]
           /\ \A m \in DOMAIN futures' : IsJob(futures'[m])
<1>1. IsSeq(futures) /\ \A m \in DOMAIN futures : IsJob(futures[m])
  BY DEF ShapeInv
<1>2. /\ IsSeq(futures') /\ DOMAIN futures' = DOMAIN futures
      /\ futures'[n] = x /\ \A m \in DOMAIN futures : m # n => futures'[m] = futures[m]
  BY <1>1, Changed
<1> QED
  BY <1>1, <1>2

\* A job is submitted, the last.
LEMMA Added ==
    ASSUME ShapeInv, NEW x, IsJob(x), futures' = Append(futures, x)
    PROVE  /\ IsSeq(futures') /\ DOMAIN futures' = DOMAIN futures \cup {Len(futures')}
           /\ Len(futures') \notin DOMAIN futures
           /\ futures'[Len(futures')] = x /\ \A m \in DOMAIN futures : futures'[m] = futures[m]
           /\ \A m \in DOMAIN futures' : IsJob(futures'[m])
<1>1. IsSeq(futures) /\ \A m \in DOMAIN futures : IsJob(futures[m])
  BY DEF ShapeInv
<1>2. /\ IsSeq(futures') /\ DOMAIN futures' = DOMAIN futures \cup {Len(futures')}
      /\ Len(futures') \notin DOMAIN futures
      /\ futures'[Len(futures')] = x /\ \A m \in DOMAIN futures : futures'[m] = futures[m]
  <2>1. Len(futures') = Len(futures) + 1
    BY <1>1, Grown
  <2> QED
    BY <1>1, <2>1, Grown
<1> QED
  BY <1>1, <1>2

\* The shape, when the requests move and nothing grows.
LEMMA ShapeKept ==
    ASSUME ShapeInv, gens' = gens, NEW t \in Threads, NEW x, IsCall(x),
           requests' = [requests EXCEPT ![t] = x],
           x.pc # "idle" => x.gen \in DOMAIN gens,
           futures' = futures \/ (IsSeq(futures') /\ \A m \in DOMAIN futures' : IsJob(futures'[m])),
           IsSeq(given'), Len(given') = Len(given),
           DOMAIN frozen' \subseteq DOMAIN gens
    PROVE  ShapeInv'
<1>1. /\ requests' = [u \in Threads |-> requests'[u]]
      /\ requests'[t] = x /\ \A u \in Threads \ {t} : requests'[u] = requests[u]
      /\ \A u \in Threads : IsCall(requests'[u])
  BY Moved
<1>2. \A u \in Threads : requests'[u].pc # "idle" => requests'[u].gen \in DOMAIN gens
  BY <1>1 DEF ShapeInv, At
<1>3. IsSeq(futures') /\ \A m \in DOMAIN futures' : IsJob(futures'[m])
  BY DEF ShapeInv
<1> QED
  BY <1>1, <1>2, <1>3 DEF ShapeInv, At

\* Nothing of the pool changes while threads outside it move.
LEMMA PoolKept ==
    ASSUME PoolInv, UNCHANGED <<futures, free, jobs, primer>>,
           \A u \in Threads : /\ requests'[u].pc \in Jobbing <=> requests[u].pc \in Jobbing
                              /\ requests[u].pc \in Jobbing => requests'[u] = requests[u]
    PROVE  PoolInv'
<1>1. \A u \in Threads : At(u, "submit")' <=> At(u, "submit")
  BY DEF At, Jobbing
<1>2. Reserved' = Reserved /\ Held' = Held
  BY <1>1 DEF Reserved, Held
<1>3. \A n : Pending(n)' <=> Pending(n)
  BY DEF Pending, Ended
<1> QED
  BY <1>1, <1>2, <1>3 DEF PoolInv, Jobbing, At

\* Nothing is frozen or given out, and nobody comes to freeze.
LEMMA FrozenKept ==
    ASSUME FrozenInv, UNCHANGED <<gens, frozen, given>>,
           \A u \in Threads : requests'[u].pc \in {"wait", "collected"} => requests'[u] = requests[u]
    PROVE  FrozenInv'
<1>1. \A u \in Freezing' : u \in Freezing /\ requests'[u] = requests[u]
  BY DEF Freezing
<1> QED
  BY <1>1 DEF FrozenInv, Fair, At

\* The parts of a job that changes.
LEMMA JobChanged ==
    ASSUME NEW y, IsJob(y), NEW a
    PROVE  /\ [y EXCEPT !.status = a] = [of |-> y.of, status |-> a, rows |-> y.rows, slot |-> y.slot]
           /\ [y EXCEPT !.slot = a] = [of |-> y.of, status |-> y.status, rows |-> y.rows, slot |-> a]
<1>1. PICK k, l, m, n : y = [of |-> k, status |-> l, rows |-> m, slot |-> n]
  BY DEF IsJob
<1>2. [y EXCEPT !.status = a] = [of |-> k, status |-> a, rows |-> m, slot |-> n]
  BY <1>1
<1>3. [y EXCEPT !.slot = a] = [of |-> k, status |-> l, rows |-> m, slot |-> a]
  BY <1>1
<1> QED
  BY <1>1, <1>2, <1>3

\* The shape, when one job turns.
LEMMA ShapeTurned ==
    ASSUME ShapeInv, NEW n \in DOMAIN futures, NEW x, IsJob(x), futures' = [futures EXCEPT ![n] = x],
           UNCHANGED <<gens, requests, given, frozen>>
    PROVE  ShapeInv'
<1>1. IsSeq(futures') /\ \A m \in DOMAIN futures' : IsJob(futures'[m])
  BY Turned
<1> QED
  BY <1>1 DEF ShapeInv, At

\* The pool, when one job is taken or ends.
LEMMA PoolTurned ==
    ASSUME ShapeInv, PoolInv, NEW n \in DOMAIN futures, NEW x, IsJob(x),
           futures' = [futures EXCEPT ![n] = x],
           x.of = futures[n].of, x.slot = futures[n].slot,
           x.status \in {"done", "failed"} \/ ~Ended(n),
           UNCHANGED <<free, jobs, primer, requests>>
    PROVE  PoolInv'
<1>1. /\ DOMAIN futures' = DOMAIN futures
      /\ futures'[n] = x /\ \A m \in DOMAIN futures \ {n} : futures'[m] = futures[m]
  BY Turned
<1>2. \A m \in DOMAIN futures' : futures'[m].of = futures[m].of /\ futures'[m].slot = futures[m].slot
  BY <1>1
<1>3. Held' = Held /\ Reserved' = Reserved
  BY <1>1, <1>2 DEF Held, Reserved, At
<1>4. \A m \in DOMAIN futures' : Pending(m)' => Pending(m)
  BY <1>1, <1>2 DEF Pending, Ended
<1>5. \A m \in DOMAIN futures' :
          Pending(m)' => /\ futures'[m].slot /\ futures'[m].of \in DOMAIN jobs
                         /\ jobs[futures'[m].of] = m
  BY <1>1, <1>2, <1>4 DEF PoolInv
<1> QED
  BY <1>1, <1>3, <1>5 DEF PoolInv, At

\* What holds a slot is finite, and one more or one less counts.
LEMMA HeldCounts ==
    ASSUME ShapeInv
    PROVE  IsFiniteSet(Held) /\ Cardinality(Held) \in Nat /\ Held \subseteq DOMAIN futures
<1>1. DOMAIN futures = 1..Len(futures) /\ Len(futures) \in Nat
  BY Grown DEF ShapeInv
<1>2. IsFiniteSet(1..Len(futures))
  BY <1>1, FS_Interval
<1>3. Held \subseteq 1..Len(futures)
  BY <1>1 DEF Held
<1> QED
  BY <1>1, <1>2, <1>3, FS_Subset, FS_CardinalityType

-----------------------------------------------------------------------------
(* Each step keeps the enrichment sound. *)

LEMMA TakeSound ==
    ASSUME EnricherInv, NEW n \in DOMAIN futures, Take(n) PROVE EnricherInv'
<1> DEFINE x == [of |-> futures[n].of, status |-> "running", rows |-> futures[n].rows,
                 slot |-> futures[n].slot]
<1>1. IsJob(futures[n])
  BY DEF EnricherInv, ShapeInv
<1>2. [futures[n] EXCEPT !.status = "running"] = x
  BY <1>1, JobChanged
<1>3. futures' = [futures EXCEPT ![n] = x]
  BY <1>2 DEF Take
<1>4. IsJob(x) /\ x.of = futures[n].of /\ x.slot = futures[n].slot
  BY <1>1 DEF IsJob, Statuses
<1>5. ~Ended(n)
  BY DEF Take, Ended
<1> HIDE DEF x
<1>6. UNCHANGED <<gens, requests, given, frozen, free, jobs, primer>>
  BY DEF Take, world, kept
<1>7. ShapeInv'
  BY <1>3, <1>4, <1>6, ShapeTurned DEF EnricherInv
<1>8. PoolInv'
  BY <1>3, <1>4, <1>5, <1>6, PoolTurned DEF EnricherInv
<1>9. FrozenInv'
  BY <1>6, FrozenKept DEF EnricherInv
<1> QED
  BY <1>7, <1>8, <1>9 DEF EnricherInv

LEMMA FinishSound ==
    ASSUME EnricherInv, NEW n \in DOMAIN futures, Finish(n) PROVE EnricherInv'
<1>0. PICK rows : futures' = [futures EXCEPT ![n] = [of |-> futures[n].of, status |-> "done",
                                                     rows |-> rows, slot |-> futures[n].slot]]
  BY DEF Finish
<1> DEFINE x == [of |-> futures[n].of, status |-> "done", rows |-> rows,
                 slot |-> futures[n].slot]
<1>1. IsJob(futures[n])
  BY DEF EnricherInv, ShapeInv
<1>3. futures' = [futures EXCEPT ![n] = x]
  BY <1>0
<1>4. IsJob(x) /\ x.of = futures[n].of /\ x.slot = futures[n].slot
  BY <1>1 DEF IsJob, Statuses
<1>5. x.status \in {"done", "failed"}
  OBVIOUS
<1> HIDE DEF x
<1>6. UNCHANGED <<gens, requests, given, frozen, free, jobs, primer>>
  BY DEF Finish, world, kept
<1>7. ShapeInv'
  BY <1>3, <1>4, <1>6, ShapeTurned DEF EnricherInv
<1>8. PoolInv'
  BY <1>3, <1>4, <1>5, <1>6, PoolTurned DEF EnricherInv
<1>9. FrozenInv'
  BY <1>6, FrozenKept DEF EnricherInv
<1> QED
  BY <1>7, <1>8, <1>9 DEF EnricherInv

LEMMA FailSound ==
    ASSUME EnricherInv, NEW n \in DOMAIN futures, Fail(n) PROVE EnricherInv'
<1> DEFINE x == [of |-> futures[n].of, status |-> "failed", rows |-> futures[n].rows,
                 slot |-> futures[n].slot]
<1>1. IsJob(futures[n])
  BY DEF EnricherInv, ShapeInv
<1>2. [futures[n] EXCEPT !.status = "failed"] = x
  BY <1>1, JobChanged
<1>3. futures' = [futures EXCEPT ![n] = x]
  BY <1>2 DEF Fail
<1>4. IsJob(x) /\ x.of = futures[n].of /\ x.slot = futures[n].slot
  BY <1>1 DEF IsJob, Statuses
<1>5. x.status \in {"done", "failed"}
  OBVIOUS
<1> HIDE DEF x
<1>6. UNCHANGED <<gens, requests, given, frozen, free, jobs, primer>>
  BY DEF Fail, world, kept
<1>7. ShapeInv'
  BY <1>3, <1>4, <1>6, ShapeTurned DEF EnricherInv
<1>8. PoolInv'
  BY <1>3, <1>4, <1>5, <1>6, PoolTurned DEF EnricherInv
<1>9. FrozenInv'
  BY <1>6, FrozenKept DEF EnricherInv
<1> QED
  BY <1>7, <1>8, <1>9 DEF EnricherInv

\* A slot is given back once, by the job that held it.
LEMMA ReleaseSound ==
    ASSUME EnricherInv, NEW n \in DOMAIN futures, Release(n) PROVE EnricherInv'
<1> DEFINE x == [of |-> futures[n].of, status |-> futures[n].status, rows |-> futures[n].rows,
                 slot |-> FALSE]
<1>1. IsJob(futures[n])
  BY DEF EnricherInv, ShapeInv
<1>2. [futures[n] EXCEPT !.slot = FALSE] = x
  BY <1>1, JobChanged
<1>3. futures' = [futures EXCEPT ![n] = x]
  BY <1>2 DEF Release
<1>4. IsJob(x) /\ x.of = futures[n].of /\ x.status = futures[n].status /\ x.slot = FALSE
  BY <1>1 DEF IsJob
<1> HIDE DEF x
<1>6. UNCHANGED <<gens, requests, given, frozen, jobs, primer>> /\ free' = free + 1
      /\ Ended(n) /\ futures[n].slot
  BY DEF Release, world, kept
<1>7. ShapeInv'
  BY <1>3, <1>4, <1>6, ShapeTurned DEF EnricherInv
<1>8. PoolInv'
  <2>1. /\ DOMAIN futures' = DOMAIN futures
        /\ futures'[n] = x /\ \A m \in DOMAIN futures \ {n} : futures'[m] = futures[m]
    BY <1>3, <1>4, Turned DEF EnricherInv
  <2>2. Held' = Held \ {n} /\ n \in Held
    BY <1>4, <1>6, <2>1 DEF Held
  <2>3. Reserved' = Reserved
    BY <1>6 DEF Reserved, At
  <2>4. Cardinality(Held') = Cardinality(Held) - 1 /\ Cardinality(Held) \in Nat
    BY <2>2, HeldCounts, FS_RemoveElement DEF EnricherInv
  <2>5. Reserved \in Nat
    BY DEF Reserved
  <2>6. free' \in Nat /\ free' + Cardinality(Held') + Reserved' = Slots
    BY <1>6, <2>3, <2>4, <2>5 DEF EnricherInv, PoolInv
  <2>7. \A m \in DOMAIN futures' : Pending(m)' => m # n /\ Pending(m) /\ futures'[m] = futures[m]
    BY <1>4, <1>6, <2>1 DEF Pending, Ended
  <2>8. \A m \in DOMAIN futures' :
            Pending(m)' => /\ futures'[m].slot /\ futures'[m].of \in DOMAIN jobs
                           /\ jobs[futures'[m].of] = m
    BY <2>1, <2>7 DEF EnricherInv, PoolInv
  <2> QED
    BY <1>6, <2>1, <2>6, <2>8 DEF EnricherInv, PoolInv, At
<1>9. FrozenInv'
  BY <1>6, FrozenKept DEF EnricherInv
<1> QED
  BY <1>7, <1>8, <1>9 DEF EnricherInv

\* Whoever looks for jobs does so alone.
LEMMA Alone ==
    ASSUME PoolInv, NEW t \in Threads, requests[t].pc \in Jobbing
    PROVE  primer = t /\ \A u \in Threads \ {t} : requests[u].pc \notin Jobbing
BY DEF PoolInv

\* The parts of a thread that goes to another place.
LEMMA Gone ==
    ASSUME ShapeInv, NEW t \in Threads, NEW where \in Places, GoesTo(t, where),
           ~At(t, "idle"), gens' = gens
    PROVE  \E x : /\ IsCall(x) /\ requests' = [requests EXCEPT ![t] = x]
                  /\ x.pc = where /\ x.gen = requests[t].gen /\ x.left = requests[t].left
                  /\ x.gen \in DOMAIN gens
<1> DEFINE x == [pc |-> where, gen |-> requests[t].gen, prepares |-> requests[t].prepares,
                 left |-> requests[t].left, found |-> requests[t].found, used |-> requests[t].used]
<1>1. IsCall(requests[t])
  BY DEF ShapeInv
<1>2. [requests[t] EXCEPT !.pc = where] = x
  BY <1>1, CallChanged
<1>3. requests' = [requests EXCEPT ![t] = x]
  BY <1>2 DEF GoesTo
<1>4. IsCall(x)
  BY DEF IsCall
<1>5. x.pc = where /\ x.gen = requests[t].gen /\ x.left = requests[t].left
  OBVIOUS
<1>6. x.gen \in DOMAIN gens
  BY DEF ShapeInv
<1> QED
  BY <1>3, <1>4, <1>5, <1>6

LEMMA LockJobsSound ==
    ASSUME EnricherInv, NEW t \in Threads, LockJobs(t) PROVE EnricherInv'
<1>1. UNCHANGED <<gens, futures, given, frozen, free, jobs>> /\ primer = Nobody /\ primer' = t
      /\ At(t, "prime") /\ GoesTo(t, "look")
  BY DEF LockJobs, LockFree, world, pool, kept
<1>2. PICK x : /\ IsCall(x) /\ requests' = [requests EXCEPT ![t] = x]
               /\ x.pc = "look" /\ x.gen \in DOMAIN gens
  BY <1>1, Gone DEF EnricherInv, Places, At
<1>3. requests'[t] = x /\ \A u \in Threads \ {t} : requests'[u] = requests[u]
  BY <1>2, Moved DEF EnricherInv
<1>4. ShapeInv'
  BY <1>1, <1>2, ShapeKept DEF EnricherInv, ShapeInv
<1>5. \A u \in Threads : requests[u].pc \notin Jobbing
  BY <1>1, EnricherAssumption DEF EnricherInv, PoolInv
<1>6. \A u \in Threads : ~At(u, "submit") /\ ~At(u, "submit")'
  BY <1>2, <1>3, <1>5 DEF At, Jobbing
<1>7. Reserved' = Reserved /\ Held' = Held
  BY <1>1, <1>6 DEF Reserved, Held
<1>8. \A n : Pending(n)' <=> Pending(n)
  BY <1>1 DEF Pending, Ended
<1>9. PoolInv'
  <2>1. \A u \in Threads : requests'[u].pc \in Jobbing => primer' = u
    BY <1>1, <1>3, <1>5
  <2> QED
    BY <1>1, <1>6, <1>7, <1>8, <2>1 DEF EnricherInv, PoolInv
<1>10. FrozenInv'
  BY <1>1, <1>2, <1>3, FrozenKept DEF EnricherInv
<1> QED
  BY <1>4, <1>9, <1>10 DEF EnricherInv

LEMMA LookSound ==
    ASSUME EnricherInv, NEW t \in Threads, Look(t) PROVE EnricherInv'
<1> DEFINE p == Head(requests[t].left)
<1>1. UNCHANGED <<gens, futures, given, frozen, jobs, primer>> /\ At(t, "look")
  BY DEF Look, world, kept
<1>2. primer = t /\ \A u \in Threads \ {t} : requests[u].pc \notin Jobbing
  BY <1>1, Alone DEF EnricherInv, At, Jobbing
<1>3. /\ Held' = Held
      /\ \A n : Pending(n)' <=> Pending(n)
  BY <1>1 DEF Held, Pending, Ended
<1>4. CASE p \notin DOMAIN jobs /\ free > 0
  <2>1. free' = free - 1 /\ GoesTo(t, "submit")
    BY <1>4 DEF Look
  <2>2. PICK x : /\ IsCall(x) /\ requests' = [requests EXCEPT ![t] = x]
                 /\ x.pc = "submit" /\ x.left = requests[t].left /\ x.gen \in DOMAIN gens
    BY <1>1, <2>1, Gone DEF EnricherInv, Places, At
  <2>3. requests'[t] = x /\ \A u \in Threads \ {t} : requests'[u] = requests[u]
    BY <2>2, Moved DEF EnricherInv
  <2>4. ShapeInv'
    BY <1>1, <2>2, ShapeKept DEF EnricherInv, ShapeInv
  <2>5. \A u \in Threads : At(u, "submit")' => u = t
    BY <1>2, <2>3 DEF At, Jobbing
  <2>6. Reserved = 0 /\ Reserved' = 1
    <3>1. At(t, "submit")'
      BY <2>2, <2>3 DEF At
    <3>2. \A u \in Threads : ~At(u, "submit")
      BY <1>1, <1>2 DEF At, Jobbing
    <3> QED
      BY <3>1, <3>2 DEF Reserved
  <2>7. free' \in Nat /\ free' + Cardinality(Held') + Reserved' = Slots
    BY <1>3, <1>4, <2>1, <2>6, HeldCounts DEF EnricherInv, PoolInv
  <2>8. \A u \in Threads : At(u, "submit")' => Head(requests'[u].left) \notin DOMAIN jobs'
    BY <1>1, <1>4, <2>2, <2>3, <2>5
  <2>9. \A u \in Threads : requests'[u].pc \in Jobbing => primer' = u
    BY <1>1, <1>2, <2>3
  <2>10. PoolInv'
    BY <1>1, <1>3, <2>7, <2>8, <2>9 DEF EnricherInv, PoolInv
  <2>11. FrozenInv'
    BY <1>1, <2>2, <2>3, FrozenKept DEF EnricherInv
  <2> QED
    BY <2>4, <2>10, <2>11 DEF EnricherInv
<1>5. CASE ~(p \notin DOMAIN jobs /\ free > 0)
  <2> DEFINE x == [pc |-> requests[t].pc, gen |-> requests[t].gen, prepares |-> requests[t].prepares,
                   left |-> Tail(requests[t].left), found |-> requests[t].found,
                   used |-> requests[t].used]
  <2>1. requests' = [requests EXCEPT ![t].left = Tail(requests[t].left)] /\ free' = free
    BY <1>5 DEF Look
  <2>2. IsCall(requests[t])
    BY DEF EnricherInv, ShapeInv
  <2>3. [requests[t] EXCEPT !.left = Tail(requests[t].left)] = x
    BY <2>2, CallChanged
  <2>4. requests' = [requests EXCEPT ![t] = x]
    BY <2>1, <2>3
  <2>5. IsCall(x) /\ x.pc = "look" /\ x.gen \in DOMAIN gens
    BY <1>1, <2>2 DEF IsCall, At, EnricherInv, ShapeInv
  <2> HIDE DEF x
  <2>6. requests'[t] = x /\ \A u \in Threads \ {t} : requests'[u] = requests[u]
    BY <2>4, <2>5, Moved DEF EnricherInv
  <2>7. ShapeInv'
    BY <1>1, <2>4, <2>5, ShapeKept DEF EnricherInv, ShapeInv
  <2>8. \A u \in Threads : ~At(u, "submit") /\ ~At(u, "submit")'
    BY <1>1, <1>2, <2>5, <2>6 DEF At, Jobbing
  <2>9. Reserved' = Reserved
    BY <2>8 DEF Reserved
  <2>10. \A u \in Threads : requests'[u].pc \in Jobbing => primer' = u
    BY <1>1, <1>2, <2>6
  <2>11. PoolInv'
    BY <1>1, <1>3, <2>1, <2>8, <2>9, <2>10 DEF EnricherInv, PoolInv
  <2>12. FrozenInv'
    BY <1>1, <2>5, <2>6, FrozenKept DEF EnricherInv
  <2> QED
    BY <2>7, <2>11, <2>12 DEF EnricherInv
<1> QED
  BY <1>4, <1>5

\* The slot set aside is the new job's, and nobody else's job is for this player.
LEMMA SubmitSound ==
    ASSUME EnricherInv, NEW t \in Threads, Submit(t) PROVE EnricherInv'
<1> DEFINE p == Head(requests[t].left)
           x == [pc |-> "look", gen |-> requests[t].gen, prepares |-> requests[t].prepares,
                 left |-> Tail(requests[t].left), found |-> requests[t].found,
                 used |-> requests[t].used]
           y == Job(p, TRUE)
           n == Len(futures')
<1>1. /\ UNCHANGED <<gens, given, frozen, free, primer>> /\ At(t, "submit")
      /\ futures' = Append(futures, y) /\ jobs' = Set(jobs, p, n)
  BY DEF Submit, world
<1>2. requests' = [requests EXCEPT ![t].pc = "look", ![t].left = Tail(requests[t].left)]
  BY DEF Submit
<1>3. t \in DOMAIN requests /\ IsCall(requests[t]) /\ requests[t].gen \in DOMAIN gens
  BY <1>1 DEF EnricherInv, ShapeInv, At
<1>4. requests' = [requests EXCEPT ![t] = x]
  BY <1>2, PlaceAndLeft DEF EnricherInv
<1>5. IsCall(x) /\ x.pc = "look" /\ x.gen \in DOMAIN gens
  BY <1>3 DEF IsCall, Places
<1>6. IsJob(y) /\ y.of = p /\ y.slot
  BY DEF IsJob, Job, Statuses
<1> HIDE DEF x, y
<1>7. requests'[t] = x /\ \A u \in Threads \ {t} : requests'[u] = requests[u]
  BY <1>4, <1>5, Moved DEF EnricherInv
<1>8. /\ IsSeq(futures') /\ DOMAIN futures' = DOMAIN futures \cup {n} /\ n \notin DOMAIN futures
      /\ futures'[n] = y /\ \A m \in DOMAIN futures : futures'[m] = futures[m]
      /\ \A m \in DOMAIN futures' : IsJob(futures'[m])
  BY <1>1, <1>6, Added DEF EnricherInv
<1>9. ShapeInv'
  BY <1>1, <1>4, <1>5, <1>8, ShapeKept DEF EnricherInv, ShapeInv
<1>10. primer = t /\ \A u \in Threads \ {t} : requests[u].pc \notin Jobbing
  BY <1>1, Alone DEF EnricherInv, At, Jobbing
<1>11. p \notin DOMAIN jobs
  BY <1>1 DEF EnricherInv, PoolInv
<1> HIDE DEF p, n
<1>12. DOMAIN jobs' = DOMAIN jobs \cup {p} /\ jobs'[p] = n /\ \A q \in DOMAIN jobs : jobs'[q] = jobs[q]
  BY <1>1, <1>11 DEF Set
<1>13. PoolInv'
  <2>1. Held' = Held \cup {n} /\ n \notin Held
    BY <1>6, <1>8 DEF Held
  <2>2. Cardinality(Held') = Cardinality(Held) + 1 /\ Cardinality(Held) \in Nat
    BY <2>1, HeldCounts, FS_AddElement DEF EnricherInv
  <2>3. \A u \in Threads : ~At(u, "submit")'
    BY <1>5, <1>7, <1>10 DEF At, Jobbing
  <2>4. Reserved = 1 /\ Reserved' = 0
    BY <1>1, <2>3 DEF Reserved
  <2>5. free' \in Nat /\ free' + Cardinality(Held') + Reserved' = Slots
    BY <1>1, <2>2, <2>4 DEF EnricherInv, PoolInv
  <2>6. \A u \in Threads : requests'[u].pc \in Jobbing => primer' = u
    BY <1>1, <1>7, <1>10
  <2>7. \A q \in DOMAIN jobs' : jobs'[q] \in DOMAIN futures'
    BY <1>8, <1>12 DEF EnricherInv, PoolInv
  <2>8. \A m \in DOMAIN futures : Pending(m)' <=> Pending(m)
    BY <1>8 DEF Pending, Ended
  <2>9. ASSUME NEW m \in DOMAIN futures', Pending(m)'
        PROVE  /\ futures'[m].slot /\ futures'[m].of \in DOMAIN jobs'
               /\ jobs'[futures'[m].of] = m
    <3>1. CASE m = n
      BY <1>6, <1>8, <1>12, <3>1
    <3>2. CASE m # n
      <4>1. m \in DOMAIN futures /\ Pending(m) /\ futures'[m] = futures[m]
        BY <1>8, <2>8, <2>9, <3>2
      <4> QED
        BY <1>12, <4>1 DEF EnricherInv, PoolInv
    <3> QED
      BY <3>1, <3>2
  <2> QED
    BY <2>3, <2>5, <2>6, <2>7, <2>9 DEF PoolInv
<1>14. FrozenInv'
  BY <1>1, <1>5, <1>7, FrozenKept DEF EnricherInv
<1> QED
  BY <1>9, <1>13, <1>14 DEF EnricherInv

LEMMA PrimedSound ==
    ASSUME EnricherInv, NEW t \in Threads, Primed(t) PROVE EnricherInv'
<1> DEFINE where == IF requests[t].prepares THEN "freeze" ELSE "idle"
           y == Job(Nobody, FALSE)
           n == Len(futures')
<1>1. /\ UNCHANGED <<gens, given, frozen, free, jobs>> /\ At(t, "look") /\ primer' = Nobody
      /\ GoesTo(t, where)
  BY DEF Primed, world
<1>2. futures' = futures \/ futures' = Append(futures, y)
  BY DEF Primed
<1>3. IsJob(y) /\ y.of = Nobody /\ ~y.slot
  BY DEF IsJob, Job, Statuses
<1>4. where \in Places /\ where \notin {"look", "submit", "wait", "collected"}
  BY DEF Places
<1> HIDE DEF where, y
<1>5. PICK x : /\ IsCall(x) /\ requests' = [requests EXCEPT ![t] = x]
               /\ x.pc = where /\ x.gen \in DOMAIN gens
  BY <1>1, <1>4, Gone DEF EnricherInv, At
<1>6. requests'[t] = x /\ \A u \in Threads \ {t} : requests'[u] = requests[u]
  BY <1>5, Moved DEF EnricherInv
<1>7. \/ futures' = futures
      \/ /\ IsSeq(futures') /\ DOMAIN futures' = DOMAIN futures \cup {n} /\ n \notin DOMAIN futures
         /\ futures'[n] = y /\ \A m \in DOMAIN futures : futures'[m] = futures[m]
         /\ \A m \in DOMAIN futures' : IsJob(futures'[m])
  BY <1>2, <1>3, Added DEF EnricherInv
<1>8. ShapeInv'
  BY <1>1, <1>5, <1>7, ShapeKept DEF EnricherInv, ShapeInv
<1>9. primer = t /\ \A u \in Threads \ {t} : requests[u].pc \notin Jobbing
  BY <1>1, Alone DEF EnricherInv, At, Jobbing
<1> HIDE DEF n
<1>10. PoolInv'
  <2>1. \A m \in DOMAIN futures' : (futures'[m].slot \/ Pending(m)') =>
            m \in DOMAIN futures /\ futures'[m] = futures[m]
    BY <1>3, <1>7 DEF Pending
  <2>2. \A m \in DOMAIN futures : m \in DOMAIN futures' /\ futures'[m] = futures[m]
    BY <1>7
  <2>3. Held' = Held
    BY <2>1, <2>2 DEF Held
  <2>4. \A u \in Threads : requests'[u].pc \notin Jobbing
    BY <1>4, <1>5, <1>6, <1>9 DEF Jobbing
  <2>5. \A u \in Threads : ~At(u, "submit")' /\ ~At(u, "submit")
    BY <1>1, <1>9, <2>4 DEF At, Jobbing
  <2>6. Reserved' = Reserved
    BY <2>5 DEF Reserved
  <2>7. \A q \in DOMAIN jobs' : jobs'[q] \in DOMAIN futures'
    BY <1>1, <2>2 DEF EnricherInv, PoolInv
  <2>8. ASSUME NEW m \in DOMAIN futures', Pending(m)'
        PROVE  /\ futures'[m].slot /\ futures'[m].of \in DOMAIN jobs'
               /\ jobs'[futures'[m].of] = m
    <3>1. m \in DOMAIN futures /\ futures'[m] = futures[m]
      BY <2>1, <2>8
    <3>2. Pending(m)
      BY <2>8, <3>1 DEF Pending, Ended
    <3> QED
      BY <1>1, <3>1, <3>2 DEF EnricherInv, PoolInv
  <2> QED
    BY <1>1, <2>3, <2>4, <2>5, <2>6, <2>7, <2>8 DEF EnricherInv, PoolInv
<1>11. FrozenInv'
  BY <1>1, <1>4, <1>5, <1>6, FrozenKept DEF EnricherInv
<1> QED
  BY <1>8, <1>10, <1>11 DEF EnricherInv

LEMMA CallSound ==
    ASSUME EnricherInv, NEW t \in Threads, NEW g \in DOMAIN gens, NEW prepares, Call(t, g, prepares)
    PROVE  EnricherInv'
<1> DEFINE where == IF gens[g].closed THEN "freeze" ELSE "prime"
<1>1. UNCHANGED <<gens, futures, given, frozen, free, jobs, primer>> /\ At(t, "idle")
  BY DEF Call, world, pool, kept
<1>2. PICK left : requests' = [requests EXCEPT ![t] =
          [pc |-> where, gen |-> g, prepares |-> prepares, left |-> left, found |-> <<>>, used |-> <<>>]]
  BY DEF Call
<1> DEFINE x == [pc |-> where, gen |-> g, prepares |-> prepares, left |-> left,
                 found |-> <<>>, used |-> <<>>]
<1>4. requests' = [requests EXCEPT ![t] = x]
  BY <1>2
<1>5. IsCall(x) /\ x.gen = g /\ x.pc \in {"freeze", "prime"}
  BY DEF IsCall, Places
<1> HIDE DEF x, where
<1>6. requests'[t] = x /\ \A u \in Threads \ {t} : requests'[u] = requests[u]
  BY <1>4, <1>5, Moved DEF EnricherInv
<1>7. ShapeInv'
  BY <1>1, <1>4, <1>5, ShapeKept DEF EnricherInv, ShapeInv
<1>8. \A u \in Threads : /\ requests'[u].pc \in Jobbing <=> requests[u].pc \in Jobbing
                         /\ requests[u].pc \in Jobbing => requests'[u] = requests[u]
  BY <1>1, <1>5, <1>6 DEF Jobbing, At
<1>9. PoolInv'
  BY <1>1, <1>8, PoolKept DEF EnricherInv
<1>10. FrozenInv'
  BY <1>1, <1>5, <1>6, FrozenKept DEF EnricherInv
<1> QED
  BY <1>7, <1>9, <1>10 DEF EnricherInv

\* Whoever is given an enrichment is done.
LEMMA GivenOut ==
    ASSUME ShapeInv, NEW t \in Threads, NEW e, GiveOut(t, e), requests[t].gen \in DOMAIN gens
    PROVE  /\ requests' = [requests EXCEPT ![t] = Idle] /\ IsCall(Idle) /\ Idle.pc = "idle"
           /\ requests'[t] = Idle /\ \A u \in Threads \ {t} : requests'[u] = requests[u]
           /\ IsSeq(given') /\ Len(given') = Len(given) /\ DOMAIN given' = DOMAIN given
           /\ given'[requests[t].gen] = given[requests[t].gen] \cup {e}
           /\ \A g \in DOMAIN given : g # requests[t].gen => given'[g] = given[g]
<1>1. /\ requests' = [requests EXCEPT ![t] = Idle]
      /\ given' = [given EXCEPT ![requests[t].gen] = given[requests[t].gen] \cup {e}]
  BY DEF GiveOut
<1>2. IsCall(Idle) /\ Idle.pc = "idle"
  BY DEF Idle, IsCall, Places
<1>3. requests'[t] = Idle /\ \A u \in Threads \ {t} : requests'[u] = requests[u]
  BY <1>1, <1>2, Moved
<1>4. IsSeq(given) /\ requests[t].gen \in DOMAIN given
  <2>1. IsSeq(given) /\ IsSeq(gens) /\ Len(given) = Len(gens)
    BY DEF ShapeInv
  <2>2. DOMAIN given = 1..Len(given) /\ DOMAIN gens = 1..Len(gens)
    BY <2>1, Grown
  <2> QED
    BY <2>1, <2>2
<1>5. /\ IsSeq(given') /\ Len(given') = Len(given) /\ DOMAIN given' = DOMAIN given
      /\ given'[requests[t].gen] = given[requests[t].gen] \cup {e}
      /\ \A g \in DOMAIN given : g # requests[t].gen => given'[g] = given[g]
  <2>1. PICK g, v : g = requests[t].gen /\ v = given[g] \cup {e}
    OBVIOUS
  <2>2. given' = [given EXCEPT ![g] = v] /\ g \in DOMAIN given
    BY <1>1, <1>4, <2>1
  <2>3. /\ IsSeq(given') /\ Len(given') = Len(given) /\ DOMAIN given' = DOMAIN given
        /\ given'[g] = v
        /\ \A h \in DOMAIN given : h # g => given'[h] = given[h]
    BY <1>4, <2>2, Changed
  <2> QED
    BY <2>1, <2>3
<1> QED
  BY <1>1, <1>2, <1>3, <1>5

\* What is frozen is given out again; nobody else freezes what a thread comes to freeze.
LEMMA EnterSound ==
    ASSUME EnricherInv, NEW t \in Threads, Enter(t) PROVE EnricherInv'
<1> DEFINE g == requests[t].gen
<1>1. UNCHANGED <<gens, futures, frozen, free, jobs, primer>> /\ At(t, "freeze") /\ GenerationFree(g)
  BY DEF Enter, world, pool, kept
<1>2. g \in DOMAIN gens
  BY <1>1 DEF EnricherInv, ShapeInv, At
<1>3. CASE g \in DOMAIN frozen
  <2>1. GiveOut(t, frozen[g])
    BY <1>3 DEF Enter
  <2>2. /\ requests' = [requests EXCEPT ![t] = Idle] /\ IsCall(Idle) /\ Idle.pc = "idle"
        /\ requests'[t] = Idle /\ \A u \in Threads \ {t} : requests'[u] = requests[u]
        /\ IsSeq(given') /\ Len(given') = Len(given) /\ DOMAIN given' = DOMAIN given
        /\ given'[g] = given[g] \cup {frozen[g]}
        /\ \A h \in DOMAIN given : h # g => given'[h] = given[h]
    BY <1>2, <2>1, GivenOut DEF EnricherInv
  <2>3. ShapeInv'
    <3>1. DOMAIN frozen' \subseteq DOMAIN gens
      BY <1>1 DEF EnricherInv, ShapeInv
    <3> QED
      BY <1>1, <2>2, <3>1, ShapeKept DEF EnricherInv
  <2>4. \A u \in Threads : /\ requests'[u].pc \in Jobbing <=> requests[u].pc \in Jobbing
                           /\ requests[u].pc \in Jobbing => requests'[u] = requests[u]
    BY <1>1, <2>2 DEF Jobbing, At
  <2>5. PoolInv'
    BY <1>1, <2>4, PoolKept DEF EnricherInv
  <2>6. \A u \in Freezing' : u \in Freezing /\ requests'[u] = requests[u]
    BY <2>2 DEF Freezing
  <2>7. \A h \in DOMAIN given' :
            given'[h] \subseteq (IF h \in DOMAIN frozen' THEN {frozen'[h]} ELSE {})
    BY <1>1, <1>3, <2>2 DEF EnricherInv, FrozenInv
  <2>8. FrozenInv'
    BY <1>1, <2>6, <2>7 DEF EnricherInv, FrozenInv, Fair, At
  <2> QED
    BY <2>3, <2>5, <2>8 DEF EnricherInv
<1>4. CASE g \notin DOMAIN frozen
  <2>1. PICK found : requests' = [requests EXCEPT ![t].pc = "wait", ![t].found = found]
    BY <1>4 DEF Enter
  <2> DEFINE x == [pc |-> "wait", gen |-> requests[t].gen, prepares |-> requests[t].prepares,
                   left |-> requests[t].left, found |-> found, used |-> requests[t].used]
  <2>2. requests' = [requests EXCEPT ![t] = x] /\ given' = given
    <3>1. requests' = [requests EXCEPT ![t] = x]
      BY <2>1, PlaceAndFound DEF EnricherInv
    <3>2. given' = given
      BY <1>4 DEF Enter
    <3> QED
      BY <3>1, <3>2
  <2>3. IsCall(x) /\ x.gen = g /\ x.pc = "wait"
    BY DEF IsCall, Places
  <2> HIDE DEF x
  <2>4. requests'[t] = x /\ \A u \in Threads \ {t} : requests'[u] = requests[u]
    BY <2>2, <2>3, Moved DEF EnricherInv
  <2>5. ShapeInv'
    BY <1>1, <1>2, <2>2, <2>3, ShapeKept DEF EnricherInv, ShapeInv
  <2>6. \A u \in Threads : /\ requests'[u].pc \in Jobbing <=> requests[u].pc \in Jobbing
                           /\ requests[u].pc \in Jobbing => requests'[u] = requests[u]
    BY <1>1, <2>3, <2>4 DEF Jobbing, At
  <2>7. PoolInv'
    BY <1>1, <2>6, PoolKept DEF EnricherInv
  <2>8. \A u \in Freezing' : u # t => u \in Freezing /\ requests'[u] = requests[u] /\ requests[u].gen # g
    BY <1>1, <2>4 DEF Freezing, GenerationFree
  <2>9. FrozenInv'
    <3>1. \A u \in Freezing' : requests'[u].gen \notin DOMAIN frozen
      BY <1>4, <2>3, <2>4, <2>8 DEF EnricherInv, FrozenInv
    <3>2. \A u, v \in Freezing' : requests'[u].gen = requests'[v].gen => u = v
      BY <2>3, <2>4, <2>8 DEF EnricherInv, FrozenInv
    <3>3. \A u \in Freezing' : At(u, "collected")' => Fair(requests'[u].gen, requests'[u].used)
      BY <2>3, <2>4, <2>8 DEF EnricherInv, FrozenInv, At
    <3> QED
      BY <1>1, <2>2, <3>1, <3>2, <3>3 DEF EnricherInv, FrozenInv, Fair
  <2> QED
    BY <2>5, <2>7, <2>9 DEF EnricherInv
<1> QED
  BY <1>3, <1>4

\* Of a history that may have been downloaded later, what was over in the generation.
LEMMA CollectSound ==
    ASSUME EnricherInv, NEW t \in Threads, Collect(t) PROVE EnricherInv'
<1> DEFINE g == requests[t].gen
           done == {p \in DOMAIN requests[t].found : futures[requests[t].found[p]].status = "done"}
           used == [p \in done |-> HistoryOf(g, futures[requests[t].found[p]].rows)]
           x == [pc |-> "collected", gen |-> requests[t].gen, prepares |-> requests[t].prepares,
                 left |-> requests[t].left, found |-> requests[t].found, used |-> used]
<1>1. UNCHANGED <<gens, futures, given, frozen, free, jobs, primer>> /\ At(t, "wait")
  BY DEF Collect, world, pool, kept
<1>2. requests' = [requests EXCEPT ![t].pc = "collected", ![t].used = used]
  BY DEF Collect
<1>3. Fair(g, used)
  BY DEF Fair, HistoryOf
<1> HIDE DEF used
<1>4. requests' = [requests EXCEPT ![t] = x]
  BY <1>2, PlaceAndUsed DEF EnricherInv
<1>5. IsCall(x) /\ x.gen = g /\ x.pc = "collected" /\ x.used = used /\ g \in DOMAIN gens
  BY <1>1 DEF IsCall, Places, EnricherInv, ShapeInv, At
<1> HIDE DEF x
<1>6. requests'[t] = x /\ \A u \in Threads \ {t} : requests'[u] = requests[u]
  BY <1>4, <1>5, Moved DEF EnricherInv
<1>7. ShapeInv'
  BY <1>1, <1>4, <1>5, ShapeKept DEF EnricherInv, ShapeInv
<1>8. \A u \in Threads : /\ requests'[u].pc \in Jobbing <=> requests[u].pc \in Jobbing
                         /\ requests[u].pc \in Jobbing => requests'[u] = requests[u]
  BY <1>1, <1>5, <1>6 DEF Jobbing, At
<1>9. PoolInv'
  BY <1>1, <1>8, PoolKept DEF EnricherInv
<1>10. t \in Freezing /\ \A u \in Freezing' : u \in Freezing /\ requests'[u].gen = requests[u].gen
  BY <1>1, <1>5, <1>6 DEF Freezing, At
<1>11. \A u \in Freezing' : At(u, "collected")' => Fair(requests'[u].gen, requests'[u].used)
  <2>1. Fair(requests'[t].gen, requests'[t].used)
    BY <1>3, <1>5, <1>6
  <2>2. \A u \in Freezing : u # t /\ At(u, "collected")' => Fair(requests'[u].gen, requests'[u].used)
    BY <1>6 DEF EnricherInv, FrozenInv, At, Freezing
  <2> QED
    BY <1>10, <2>1, <2>2
<1>12. FrozenInv'
  BY <1>1, <1>10, <1>11 DEF EnricherInv, FrozenInv, Fair
<1> QED
  BY <1>7, <1>9, <1>12 DEF EnricherInv

\* Nobody was given another enrichment of this generation while it was not frozen.
LEMMA FreezeSound ==
    ASSUME EnricherInv, NEW t \in Threads, Freeze(t) PROVE EnricherInv'
<1> DEFINE g == requests[t].gen
           e == [histories |-> requests[t].used,
                 lineups |-> g \in DOMAIN lineupJobs /\ futures[lineupJobs[g]].status = "done"]
<1>1. /\ UNCHANGED <<gens, futures, free, jobs, primer>> /\ At(t, "collected")
      /\ frozen' = Set(frozen, g, e) /\ GiveOut(t, e)
  BY DEF Freeze, world, pool
<1>2. g \in DOMAIN gens /\ t \in Freezing
  BY <1>1 DEF EnricherInv, ShapeInv, At, Freezing
<1>3. g \notin DOMAIN frozen /\ Fair(g, e.histories)
  BY <1>1, <1>2 DEF EnricherInv, FrozenInv
<1> HIDE DEF e
<1>4. /\ requests' = [requests EXCEPT ![t] = Idle] /\ IsCall(Idle) /\ Idle.pc = "idle"
      /\ requests'[t] = Idle /\ \A u \in Threads \ {t} : requests'[u] = requests[u]
      /\ IsSeq(given') /\ Len(given') = Len(given) /\ DOMAIN given' = DOMAIN given
      /\ given'[g] = given[g] \cup {e}
      /\ \A h \in DOMAIN given : h # g => given'[h] = given[h]
  BY <1>1, <1>2, GivenOut DEF EnricherInv
<1>5. /\ DOMAIN frozen' = DOMAIN frozen \cup {g} /\ frozen'[g] = e
      /\ \A h \in DOMAIN frozen : h # g => frozen'[h] = frozen[h]
  BY <1>1 DEF Set
<1>6. ShapeInv'
  <2>1. DOMAIN frozen' \subseteq DOMAIN gens
    BY <1>2, <1>5 DEF EnricherInv, ShapeInv
  <2> QED
    BY <1>1, <1>4, <2>1, ShapeKept DEF EnricherInv
<1>7. \A u \in Threads : /\ requests'[u].pc \in Jobbing <=> requests[u].pc \in Jobbing
                         /\ requests[u].pc \in Jobbing => requests'[u] = requests[u]
  BY <1>1, <1>4 DEF Jobbing, At
<1>8. PoolInv'
  BY <1>1, <1>7, PoolKept DEF EnricherInv
<1>9. \A u \in Freezing' : u \in Freezing /\ u # t /\ requests'[u] = requests[u] /\ requests[u].gen # g
  BY <1>2, <1>4 DEF Freezing, EnricherInv, FrozenInv
<1>10. FrozenInv'
  <2>1. \A u \in Freezing' : requests'[u].gen \notin DOMAIN frozen'
    BY <1>5, <1>9 DEF EnricherInv, FrozenInv
  <2>2. \A u, v \in Freezing' : requests'[u].gen = requests'[v].gen => u = v
    BY <1>9 DEF EnricherInv, FrozenInv
  <2>3. \A u \in Freezing' : At(u, "collected")' => Fair(requests'[u].gen, requests'[u].used)
    BY <1>9 DEF EnricherInv, FrozenInv, At
  <2>4. \A h \in DOMAIN frozen' : Fair(h, frozen'[h].histories)
    BY <1>3, <1>5 DEF EnricherInv, FrozenInv
  <2>5. \A h \in DOMAIN given' :
            given'[h] \subseteq (IF h \in DOMAIN frozen' THEN {frozen'[h]} ELSE {})
    BY <1>3, <1>4, <1>5 DEF EnricherInv, FrozenInv
  <2> QED
    BY <1>1, <2>1, <2>2, <2>3, <2>4, <2>5 DEF FrozenInv, Fair
<1> QED
  BY <1>6, <1>8, <1>10 DEF EnricherInv

\* The matches, the client's cache and the lineup jobs are not part of it.
LEMMA ElsewhereSound ==
    ASSUME EnricherInv, UNCHANGED <<gens, futures, requests, given, frozen, free, jobs, primer>>
    PROVE  EnricherInv'
<1>1. ShapeInv'
  BY DEF EnricherInv, ShapeInv, At
<1>2. PoolInv'
  BY PoolKept DEF EnricherInv
<1>3. FrozenInv'
  BY FrozenKept DEF EnricherInv
<1> QED
  BY <1>1, <1>2, <1>3 DEF EnricherInv

LEMMA DownloadSound ==
    ASSUME EnricherInv, NEW l, Download(l) PROVE EnricherInv'
<1>1. PICK e : gens' = Append(gens, e)
  BY DEF Download
<1>2. UNCHANGED <<futures, requests, frozen, free, jobs, primer>> /\ given' = Append(given, {})
  BY DEF Download, pool, kept
<1>3. IsSeq(gens) /\ IsSeq(given) /\ Len(given) = Len(gens)
  BY DEF EnricherInv, ShapeInv
<1>4. /\ IsSeq(gens') /\ DOMAIN gens' = DOMAIN gens \cup {Len(gens) + 1}
      /\ Len(gens') = Len(gens) + 1 /\ Len(gens) + 1 \notin DOMAIN gens
      /\ \A g \in DOMAIN gens : gens'[g] = gens[g]
  BY <1>1, <1>3, Grown
<1>5. /\ IsSeq(given') /\ DOMAIN given' = DOMAIN given \cup {Len(given) + 1}
      /\ Len(given') = Len(given) + 1
      /\ \A g \in DOMAIN given : given'[g] = given[g]
      /\ given'[Len(given) + 1] = {}
  BY <1>2, <1>3, Grown
<1>6. ShapeInv'
  <2>1. \A t \in Threads : ~At(t, "idle")' => requests'[t].gen \in DOMAIN gens'
    BY <1>2, <1>4 DEF EnricherInv, ShapeInv, At
  <2>2. DOMAIN frozen' \subseteq DOMAIN gens'
    BY <1>2, <1>4 DEF EnricherInv, ShapeInv
  <2> QED
    BY <1>2, <1>3, <1>4, <1>5, <2>1, <2>2 DEF EnricherInv, ShapeInv
<1>7. PoolInv'
  BY <1>2, PoolKept DEF EnricherInv
<1>8. FrozenInv'
  <2>1. Freezing' = Freezing /\ \A t \in Freezing : requests[t].gen \in DOMAIN gens
    BY <1>2 DEF Freezing, EnricherInv, ShapeInv, At
  <2>2. \A t \in Freezing : At(t, "collected") => Fair(requests[t].gen, requests[t].used)'
    BY <1>2, <1>4, <2>1 DEF EnricherInv, FrozenInv, Fair
  <2>3. \A g \in DOMAIN frozen : Fair(g, frozen[g].histories)'
    BY <1>2, <1>4 DEF EnricherInv, ShapeInv, FrozenInv, Fair
  <2>4. \A g \in DOMAIN given' :
            given'[g] \subseteq (IF g \in DOMAIN frozen' THEN {frozen'[g]} ELSE {})
    BY <1>2, <1>5 DEF EnricherInv, FrozenInv
  <2> QED
    BY <1>2, <2>1, <2>2, <2>3, <2>4 DEF EnricherInv, FrozenInv, At
<1> QED
  BY <1>6, <1>7, <1>8 DEF EnricherInv

\* A job that has ended is forgotten, and so is what was frozen with all it gave.
LEMMA ExpireSound ==
    ASSUME EnricherInv, Expire PROVE EnricherInv'
<1>1. UNCHANGED <<gens, futures, free, primer, requests>>
  BY DEF Expire, world
<1>2. CASE UNCHANGED <<jobs, frozen, given>>
  BY <1>1, <1>2, ElsewhereSound
<1>3. CASE \E p \in DOMAIN jobs : Ended(jobs[p]) /\ jobs' = Without(jobs, p)
                                  /\ UNCHANGED <<client, lineupJobs, frozen, given>>
  <2>1. PICK p \in DOMAIN jobs : Ended(jobs[p]) /\ jobs' = Without(jobs, p) /\ UNCHANGED <<frozen, given>>
    BY <1>3
  <2>2. DOMAIN jobs' = DOMAIN jobs \ {p} /\ \A q \in DOMAIN jobs' : jobs'[q] = jobs[q]
    BY <2>1 DEF Without
  <2>3. ShapeInv'
    BY <1>1, <2>1 DEF EnricherInv, ShapeInv, At
  <2>4. Held' = Held /\ Reserved' = Reserved /\ \A n : Pending(n)' <=> Pending(n)
    BY <1>1 DEF Held, Reserved, Pending, Ended, At
  <2>5. \A t \in Threads : At(t, "submit")' => Head(requests'[t].left) \notin DOMAIN jobs'
    BY <1>1, <2>2 DEF EnricherInv, PoolInv, At
  <2>6. \A q \in DOMAIN jobs' : jobs'[q] \in DOMAIN futures'
    BY <1>1, <2>2 DEF EnricherInv, PoolInv
  <2>7. ASSUME NEW n \in DOMAIN futures, Pending(n)
        PROVE  /\ futures[n].slot /\ futures[n].of \in DOMAIN jobs'
               /\ jobs'[futures[n].of] = n
    <3>1. futures[n].slot /\ futures[n].of \in DOMAIN jobs /\ jobs[futures[n].of] = n
      BY <2>7 DEF EnricherInv, PoolInv
    <3>2. futures[n].of # p
      BY <2>1, <2>7, <3>1 DEF Pending
    <3> QED
      BY <2>2, <3>1, <3>2
  <2>8. PoolInv'
    BY <1>1, <2>4, <2>5, <2>6, <2>7 DEF EnricherInv, PoolInv
  <2>9. FrozenInv'
    BY <1>1, <2>1, FrozenKept DEF EnricherInv
  <2> QED
    BY <2>3, <2>8, <2>9 DEF EnricherInv
<1>4. CASE \E g \in DOMAIN frozen : frozen' = Without(frozen, g) /\ given' = [given EXCEPT ![g] = {}]
                                    /\ UNCHANGED <<client, jobs, lineupJobs>>
  <2>1. PICK g \in DOMAIN frozen : /\ frozen' = Without(frozen, g)
                                   /\ given' = [given EXCEPT ![g] = {}] /\ jobs' = jobs
    BY <1>4
  <2>2. DOMAIN frozen' = DOMAIN frozen \ {g} /\ \A h \in DOMAIN frozen' : frozen'[h] = frozen[h]
    BY <2>1 DEF Without
  <2>3. IsSeq(given) /\ g \in DOMAIN given
    <3>1. IsSeq(given) /\ IsSeq(gens) /\ Len(given) = Len(gens) /\ g \in DOMAIN gens
      BY <2>1 DEF EnricherInv, ShapeInv
    <3>2. DOMAIN given = 1..Len(given) /\ DOMAIN gens = 1..Len(gens)
      BY <3>1, Grown
    <3> QED
      BY <3>1, <3>2
  <2>4. /\ IsSeq(given') /\ Len(given') = Len(given) /\ DOMAIN given' = DOMAIN given
        /\ given'[g] = {} /\ \A h \in DOMAIN given : h # g => given'[h] = given[h]
    BY <2>1, <2>3, Changed
  <2>5. ShapeInv'
    BY <1>1, <2>2, <2>4 DEF EnricherInv, ShapeInv, At
  <2>6. PoolInv'
    BY <1>1, <2>1, PoolKept DEF EnricherInv
  <2>7. Freezing' = Freezing
    BY <1>1 DEF Freezing
  <2>8. \A h \in DOMAIN given' :
            given'[h] \subseteq (IF h \in DOMAIN frozen' THEN {frozen'[h]} ELSE {})
    BY <2>2, <2>4 DEF EnricherInv, FrozenInv
  <2>9. FrozenInv'
    BY <1>1, <2>2, <2>7, <2>8 DEF EnricherInv, FrozenInv, Fair, At
  <2> QED
    BY <2>5, <2>6, <2>9 DEF EnricherInv
<1> QED
  BY <1>2, <1>3, <1>4 DEF Expire

LEMMA EnricherStart ==
    ASSUME EnricherInit PROVE EnricherInv
<1>1. IsSeq(<<>>)
  <2>1. <<>> \in Seq({})
    OBVIOUS
  <2> QED
    BY <2>1 DEF IsSeq
<1>2. IsCall(Idle) /\ Idle.pc = "idle"
  BY DEF Idle, IsCall, Places
<1>3. DOMAIN gens = {} /\ DOMAIN futures = {} /\ DOMAIN frozen = {} /\ DOMAIN jobs = {}
      /\ DOMAIN given = {} /\ \A t \in Threads : requests[t] = Idle
  BY DEF EnricherInit
<1>4. ShapeInv
  BY <1>1, <1>2, <1>3 DEF EnricherInit, ShapeInv, At
<1>5. Held = {} /\ Reserved = 0
  BY <1>2, <1>3 DEF Held, Reserved, At
<1>6. PoolInv
  BY <1>2, <1>3, <1>5, FS_EmptySet, EnricherAssumption DEF EnricherInit, PoolInv, At, Jobbing
<1>7. Freezing = {}
  BY <1>2, <1>3 DEF Freezing
<1>8. FrozenInv
  BY <1>3, <1>7 DEF FrozenInv
<1> QED
  BY <1>4, <1>6, <1>8 DEF EnricherInv

LEMMA EnricherStep ==
    ASSUME EnricherInv, [EnricherNext]_enricherVars PROVE EnricherInv'
<1>1. ASSUME NEW f, KickOff(f) \/ Whistle(f) PROVE EnricherInv'
  BY <1>1, ElsewhereSound DEF KickOff, Whistle, pool, kept
<1>2. ASSUME NEW t \in Threads, LockJobs(t) \/ Look(t) \/ Submit(t) \/ Primed(t) \/ Enter(t)
                                \/ Collect(t) \/ Freeze(t)
      PROVE  EnricherInv'
  BY <1>2, LockJobsSound, LookSound, SubmitSound, PrimedSound, EnterSound, CollectSound, FreezeSound
<1>3. ASSUME NEW n \in DOMAIN futures, Take(n) \/ Finish(n) \/ Fail(n) \/ Release(n)
      PROVE  EnricherInv'
  BY <1>3, TakeSound, FinishSound, FailSound, ReleaseSound
<1>4. CASE UNCHANGED enricherVars
  BY <1>4, ElsewhereSound DEF enricherVars
<1> QED
  BY <1>1, <1>2, <1>3, <1>4, DownloadSound, ExpireSound, CallSound DEF EnricherNext

\* What the invariant says of the threads and jobs is what the property asks.
LEMMA InvIsSound ==
    ASSUME EnricherInv PROVE EnrichmentSound
<1>1. DOMAIN given = DOMAIN gens
  <2>1. IsSeq(given) /\ IsSeq(gens) /\ Len(given) = Len(gens)
    BY DEF EnricherInv, ShapeInv
  <2> QED
    BY <2>1, Grown
<1>2. NoHindsight
  BY <1>1 DEF NoHindsight, EnricherInv, FrozenInv, Fair
<1>3. OneEnrichment
  <2>1. ASSUME NEW g \in DOMAIN gens PROVE Cardinality(given[g]) <= 1
    <3>1. given[g] = {} \/ \E e : given[g] = {e}
      BY <1>1 DEF EnricherInv, FrozenInv
    <3> QED
      BY <3>1, FS_EmptySet, FS_Singleton
  <2> QED
    BY <2>1 DEF OneEnrichment
<1>4. WorkBounded
  <2>1. {n \in DOMAIN futures : Pending(n)} \subseteq Held
    BY DEF Held, EnricherInv, PoolInv
  <2>2. IsFiniteSet(Held) /\ Cardinality(Held) \in Nat
    BY HeldCounts DEF EnricherInv
  <2>3. Cardinality(Held) <= Slots
    BY <2>2, EnricherAssumption DEF EnricherInv, PoolInv, Reserved
  <2>4. /\ Cardinality({n \in DOMAIN futures : Pending(n)}) \in Nat
        /\ Cardinality({n \in DOMAIN futures : Pending(n)}) <= Cardinality(Held)
    <3>1. IsFiniteSet({n \in DOMAIN futures : Pending(n)})
      BY <2>1, <2>2, FS_Subset
    <3> QED
      BY <2>1, <2>2, <3>1, FS_Subset, FS_CardinalityType
  <2>5. \A m, n \in DOMAIN futures : Pending(m) /\ Pending(n) /\ futures[m].of = futures[n].of => m = n
    BY DEF EnricherInv, PoolInv
  <2> QED
    BY <2>2, <2>3, <2>4, <2>5, EnricherAssumption DEF WorkBounded
<1> QED
  BY <1>2, <1>3, <1>4 DEF EnrichmentSound

\* The threads of one league or of many, however they meet and whatever jobs end, fail or
\* expire meanwhile: an enrichment is made only of matches that were over in its generation,
\* all who ask for it get the same, and at most Slots histories are pending, one of a player
\* (forecasting/service.py prime and prepare).
THEOREM EnrichmentIsSound == EnricherSpec => []EnrichmentSound
<1>1. EnricherInit => EnricherInv
  BY EnricherStart
<1>2. EnricherInv /\ [EnricherNext]_enricherVars => EnricherInv'
  BY EnricherStep
<1>3. EnricherInv => EnrichmentSound
  BY InvIsSound
<1> QED
  BY <1>1, <1>2, <1>3, PTL DEF EnricherSpec
=============================================================================
