------------------------ MODULE LivePredictionsProofs ------------------------
(***************************************************************************)
(* The archive of captures and the predictions that are recorded in it,    *)
(* for any writers, players, threads and bounds: files are published once  *)
(* and for all, each index belongs to its capture, one build runs at a     *)
(* time, and what is shown was built from the generation it is shown for.  *)
(***************************************************************************)
EXTENDS LivePredictions, FiniteSetTheorems, WellFoundedInduction, TLAPS

-----------------------------------------------------------------------------
(* Sets of numbers and finite maps                                         *)

\* Every set of Gameweeks has a first one.
LEMMA LeastExists ==
    ASSUME NEW S, S \subseteq Nat, S # {}
    PROVE  \E x \in S : \A y \in S : x <= y
<1>1. PICK x \in S : \A y \in S : ~ (<<y, x>> \in OpToRel(<, Nat))
  BY WFMin, NatLessThanWellFounded, Zenon
<1>2. ASSUME NEW y \in S PROVE x <= y
  <2>1. ~ (y < x)
    BY <1>1 DEF OpToRel
  <2> QED
    BY <2>1
<1> QED
  BY <1>2

LEMMA MinIsElement ==
    ASSUME NEW S, S \subseteq Gameweeks, S # {}
    PROVE  Min(S) \in S
<1>1. \E x \in S : \A y \in S : x <= y
  BY LeastExists, CalendarAssumption
<1> QED
  BY <1>1 DEF Min

\* Publishing keeps every file there is.
LEMMA PublishedFacts ==
    ASSUME NEW f, NEW k, NEW v
    PROVE  /\ Extends(Published(f, k, v), f)
           /\ DOMAIN Published(f, k, v) = DOMAIN f \cup {k}
           /\ k \notin DOMAIN f => Published(f, k, v)[k] = v
           /\ \A x \in DOMAIN Published(f, k, v) : x \in DOMAIN f \/ (x = k /\ k \notin DOMAIN f)
<1>1. CASE k \in DOMAIN f
  BY <1>1 DEF Published, Extends
<1>2. CASE k \notin DOMAIN f
  <2>1. Published(f, k, v) = With(f, k, v)
    BY <1>2 DEF Published
  <2>2. /\ DOMAIN With(f, k, v) = DOMAIN f \cup {k}
        /\ With(f, k, v)[k] = v
        /\ \A x \in DOMAIN f \ {k} : With(f, k, v)[x] = f[x]
    BY DEF With
  <2>3. Extends(With(f, k, v), f)
    BY <1>2, <2>2 DEF Extends
  <2> QED
    BY <1>2, <2>1, <2>2, <2>3
<1> QED
  BY <1>1, <1>2

LEMMA ExtendsReflexive == \A f : Extends(f, f)
BY DEF Extends

LEMMA ExtendsTransitive ==
    ASSUME NEW f, NEW g, NEW h, Extends(h, g), Extends(g, f)
    PROVE  Extends(h, f)
BY DEF Extends

-----------------------------------------------------------------------------
(* The archive                                                             *)

\* A writer holds a capture for as long as it is about to publish one, writes the
\* index of its own capture only, and a Gameweek's points only when there is one.
WriterOK(r) ==
    /\ r \in Writing
    /\ r.pc \in {"check", "link", "index"} => r.capture # {}
    /\ r.pc = "index" =>
           \A c \in r.capture : Name(c) \in DOMAIN captures /\ captures[Name(c)] = c
    /\ r.pc = "fetched" => r.todo # {}

WritersOK == \A w \in DOMAIN writing : w \in Writers /\ WriterOK(writing[w])

ArchiveInv == ArchiveTypeOK /\ WritersOK /\ IndexesMatch

\* One writer's move keeps the others', for captures are only added.
LEMMA WritersStep ==
    ASSUME WritersOK, Extends(captures', captures), NEW w \in Writers,
           DOMAIN writing' \subseteq DOMAIN writing \cup {w},
           \A x \in DOMAIN writing' \ {w} : writing'[x] = writing[x],
           w \in DOMAIN writing' => WriterOK(writing[w])'
    PROVE  WritersOK'
<1> SUFFICES ASSUME NEW x \in DOMAIN writing', x # w
             PROVE  x \in Writers /\ WriterOK(writing[x])'
  BY DEF WritersOK
<1>1. x \in DOMAIN writing /\ writing'[x] = writing[x] /\ WriterOK(writing[x]) /\ x \in Writers
  BY DEF WritersOK
<1> QED
  BY <1>1 DEF WriterOK, Extends

\* How one writer moves on: to another step, or with another record.
LEMMA MoveFacts ==
    ASSUME NEW w \in DOMAIN writing, writing[w] \in Writing,
           NEW step \in {"check", "link", "index", "scan", "collect", "fetched", "done"},
           Move(w, step)
    PROVE  /\ DOMAIN writing' = DOMAIN writing
           /\ \A x \in DOMAIN writing \ {w} : writing'[x] = writing[x]
           /\ writing'[w] \in Writing /\ writing'[w].pc = step
           /\ writing'[w].capture = writing[w].capture /\ writing'[w].seen = writing[w].seen
           /\ writing'[w].todo = writing[w].todo
BY DEF Move, Writing

LEMMA ItsCapture ==
    ASSUME NEW w \in DOMAIN writing, WriterOK(writing[w]), writing[w].pc \in {"check", "link", "index"}
    PROVE  Its(w) \in Capture /\ writing[w].capture = {Its(w)}
BY DEF WriterOK, Writing, Its

LEMMA CheckKeeps ==
    ASSUME ArchiveInv, NEW w \in Writers, Check(w)
    PROVE  ArchiveInv'
<1>1. w \in DOMAIN writing /\ writing[w].pc = "check" /\ WriterOK(writing[w])
  BY DEF Check, At, Working, ArchiveInv, WritersOK
<1>2. PICK step \in {"link", "scan", "done"} : Move(w, step)
  BY DEF Check
<1>3. /\ DOMAIN writing' = DOMAIN writing
      /\ \A x \in DOMAIN writing \ {w} : writing'[x] = writing[x]
      /\ writing'[w] \in Writing /\ writing'[w].pc = step
      /\ writing'[w].capture = writing[w].capture
  BY <1>1, <1>2, MoveFacts DEF WriterOK
<1>4. WriterOK(writing[w])'
  BY <1>1, <1>3 DEF WriterOK
<1>5. UNCHANGED <<now, final, captures, indexes, actuals>>
  BY DEF Check
<1>6. WritersOK'
  BY <1>3, <1>4, <1>5, WritersStep, ExtendsReflexive DEF ArchiveInv
<1> QED
  BY <1>3, <1>5, <1>6 DEF ArchiveInv, ArchiveTypeOK, WritersOK, WriterOK, IndexesMatch

LEMMA LinkKeeps ==
    ASSUME ArchiveInv, NEW w \in Writers, Link(w)
    PROVE  ArchiveInv'
<1> DEFINE c == Its(w)
<1>1. w \in DOMAIN writing /\ writing[w].pc = "link" /\ WriterOK(writing[w])
  BY DEF Link, At, Working, ArchiveInv, WritersOK
<1>2. c \in Capture /\ writing[w].capture = {c}
  BY <1>1, ItsCapture
<1>3. PICK step \in {"scan", "index"} :
          Move(w, step) /\ (step = "index" => Name(c) \notin DOMAIN captures)
  BY DEF Link
<1>4. /\ DOMAIN writing' = DOMAIN writing
      /\ \A x \in DOMAIN writing \ {w} : writing'[x] = writing[x]
      /\ writing'[w] \in Writing /\ writing'[w].pc = step
      /\ writing'[w].capture = writing[w].capture
  BY <1>1, <1>3, MoveFacts DEF WriterOK
<1>5. captures' = Published(captures, Name(c), c) /\ UNCHANGED <<now, final, indexes, actuals>>
  BY DEF Link
<1>6. /\ Extends(captures', captures)
      /\ DOMAIN captures' = DOMAIN captures \cup {Name(c)}
      /\ Name(c) \notin DOMAIN captures => captures'[Name(c)] = c
  BY <1>5, PublishedFacts
<1>7. WriterOK(writing[w])'
  BY <1>1, <1>2, <1>3, <1>4, <1>6 DEF WriterOK
<1>8. WritersOK'
  BY <1>4, <1>6, <1>7, WritersStep DEF ArchiveInv
<1>9. \A k \in DOMAIN captures' : captures'[k] \in Capture /\ Name(captures'[k]) = k
  <2> TAKE k \in DOMAIN captures'
  <2>1. CASE k \in DOMAIN captures
    BY <2>1, <1>6 DEF Extends, ArchiveInv, ArchiveTypeOK
  <2>2. CASE k \notin DOMAIN captures
    BY <2>2, <1>2, <1>6
  <2> QED
    BY <2>1, <2>2
<1>10. ArchiveTypeOK'
  BY <1>4, <1>5, <1>8, <1>9 DEF ArchiveInv, ArchiveTypeOK, WritersOK, WriterOK, Name, Hour
<1>11. IndexesMatch'
  BY <1>5, <1>6, ExtendsTransitive DEF ArchiveInv, IndexesMatch
<1> QED
  BY <1>8, <1>10, <1>11 DEF ArchiveInv

LEMMA WriteIndexKeeps ==
    ASSUME ArchiveInv, NEW w \in Writers, WriteIndex(w)
    PROVE  ArchiveInv'
<1> DEFINE c == Its(w)
<1>1. w \in DOMAIN writing /\ writing[w].pc = "index" /\ WriterOK(writing[w])
  BY DEF WriteIndex, At, Working, ArchiveInv, WritersOK
<1>2. c \in Capture /\ writing[w].capture = {c}
  BY <1>1, ItsCapture
<1>3. Name(c) \in DOMAIN captures /\ captures[Name(c)] = c
  BY <1>1, <1>2 DEF WriterOK
<1>4. Move(w, "scan") /\ UNCHANGED <<now, final, captures, actuals>>
      /\ indexes' = Published(indexes, Name(c), c)
  BY DEF WriteIndex
<1>5. /\ DOMAIN writing' = DOMAIN writing
      /\ \A x \in DOMAIN writing \ {w} : writing'[x] = writing[x]
      /\ writing'[w] \in Writing /\ writing'[w].pc = "scan"
  BY <1>1, <1>4, MoveFacts DEF WriterOK
<1>6. WriterOK(writing[w])'
  BY <1>5 DEF WriterOK
<1>7. WritersOK'
  BY <1>4, <1>5, <1>6, WritersStep, ExtendsReflexive DEF ArchiveInv
<1>8. IndexesMatch'
  <2>1. /\ Extends(indexes', indexes)
        /\ DOMAIN indexes' = DOMAIN indexes \cup {Name(c)}
        /\ Name(c) \notin DOMAIN indexes => indexes'[Name(c)] = c
    BY <1>4, PublishedFacts
  <2>2. Extends(captures, indexes)
    BY DEF ArchiveInv, IndexesMatch
  <2> QED
    BY <2>1, <2>2, <1>3, <1>4 DEF IndexesMatch, Extends
<1> QED
  BY <1>4, <1>5, <1>7, <1>8 DEF ArchiveInv, ArchiveTypeOK, WritersOK, WriterOK

LEMMA ScanKeeps ==
    ASSUME ArchiveInv, NEW w \in Writers, Scan(w)
    PROVE  ArchiveInv'
<1> DEFINE r == [pc |-> "collect", capture |-> {}, seen |-> {},
                 todo |-> Tracked \cap writing[w].seen]
<1>1. w \in DOMAIN writing
  BY DEF Scan, At, Working
<1>2. writing' = With(writing, w, r) /\ UNCHANGED <<now, final, captures, indexes, actuals>>
  BY DEF Scan
<1>3. r \in Writing
  BY DEF Writing, Tracked
<1>4. /\ DOMAIN writing' = DOMAIN writing /\ writing'[w] = r
      /\ \A x \in DOMAIN writing \ {w} : writing'[x] = writing[x]
  BY <1>1, <1>2 DEF With
<1>5. WriterOK(writing[w])'
  BY <1>3, <1>4 DEF WriterOK
<1>6. WritersOK'
  BY <1>2, <1>4, <1>5, WritersStep, ExtendsReflexive DEF ArchiveInv
<1> QED
  BY <1>2, <1>6 DEF ArchiveInv, ArchiveTypeOK, WritersOK, WriterOK, IndexesMatch

LEMMA CollectKeeps ==
    ASSUME ArchiveInv, NEW w \in Writers, Collect(w)
    PROVE  ArchiveInv'
<1>1. w \in DOMAIN writing /\ WriterOK(writing[w])
  BY DEF Collect, At, Working, ArchiveInv, WritersOK
<1>2. UNCHANGED <<now, final, captures, indexes, actuals>>
  BY DEF Collect
<1>3. /\ DOMAIN writing' = DOMAIN writing
      /\ \A x \in DOMAIN writing \ {w} : writing'[x] = writing[x]
      /\ WriterOK(writing[w])'
  <2>1. CASE Move(w, "done")
    BY <1>1, <2>1, MoveFacts DEF WriterOK
  <2>2. CASE ~ Move(w, "done")
    <3> DEFINE due == writing[w].todo \ DOMAIN actuals
    <3>1. due # {} /\ writing' = [writing EXCEPT ![w].pc = "fetched", ![w].todo = due]
      BY <2>2 DEF Collect
    <3>2. due \subseteq Gameweeks
      BY <1>1 DEF WriterOK, Writing
    <3> HIDE DEF due
    <3>3. writing'[w] \in Writing /\ writing'[w].pc = "fetched" /\ writing'[w].todo = due
      BY <1>1, <3>1, <3>2 DEF WriterOK, Writing
    <3> QED
      BY <1>1, <3>1, <3>3 DEF WriterOK
  <2> QED
    BY <2>1, <2>2
<1>4. WritersOK'
  BY <1>2, <1>3, WritersStep, ExtendsReflexive DEF ArchiveInv
<1> QED
  BY <1>2, <1>4 DEF ArchiveInv, ArchiveTypeOK, WritersOK, WriterOK, IndexesMatch

LEMMA WriteActualKeeps ==
    ASSUME ArchiveInv, NEW w \in Writers, WriteActual(w)
    PROVE  ArchiveInv'
<1> DEFINE g == Min(writing[w].todo)
<1>1. w \in DOMAIN writing /\ WriterOK(writing[w]) /\ writing[w].pc = "fetched"
  BY DEF WriteActual, At, Working, ArchiveInv, WritersOK
<1>2. g \in Gameweeks
  BY <1>1, MinIsElement DEF WriterOK, Writing
<1>3. /\ actuals' = Published(actuals, g, w) /\ UNCHANGED <<now, final, captures, indexes>>
      /\ writing' = [writing EXCEPT ![w].pc = "collect", ![w].todo = @ \ {g}]
  BY DEF WriteActual
<1> HIDE DEF g
<1>4. DOMAIN actuals' = DOMAIN actuals \cup {g}
  BY <1>3, PublishedFacts
<1>5. /\ DOMAIN writing' = DOMAIN writing
      /\ \A x \in DOMAIN writing \ {w} : writing'[x] = writing[x]
      /\ writing'[w] \in Writing /\ writing'[w].pc = "collect"
  BY <1>1, <1>3 DEF WriterOK, Writing
<1>6. WriterOK(writing[w])'
  BY <1>5 DEF WriterOK
<1>7. WritersOK'
  BY <1>3, <1>5, <1>6, WritersStep, ExtendsReflexive DEF ArchiveInv
<1> QED
  BY <1>2, <1>3, <1>4, <1>7 DEF ArchiveInv, ArchiveTypeOK, WritersOK, WriterOK, IndexesMatch

\* What a writer does keeps the archive in order.
LEMMA WriteKeeps ==
    ASSUME ArchiveInv, NEW w \in Writers, Write(w)
    PROVE  ArchiveInv'
BY CheckKeeps, LinkKeeps, WriteIndexKeeps, ScanKeeps, CollectKeeps, WriteActualKeeps DEF Write

\* So does a writer that begins, whatever its input, or one that leaves.
LEMMA BeginRecordKeeps ==
    ASSUME ArchiveInv, NEW w \in Writers, NEW c \in Capture, NEW seen \in SUBSET Gameweeks,
           BeginRecord(w, c, seen), UNCHANGED <<now, final, captures, indexes, actuals>>
    PROVE  ArchiveInv'
<1> DEFINE r == [pc |-> "check", capture |-> {c}, seen |-> seen, todo |-> {}]
<1>1. r \in Writing
  BY DEF Writing
<1>2. /\ DOMAIN writing' = DOMAIN writing \cup {w} /\ writing'[w] = r
      /\ \A x \in DOMAIN writing' \ {w} : writing'[x] = writing[x]
  BY DEF BeginRecord, With
<1>3. WriterOK(writing[w])'
  BY <1>1, <1>2 DEF WriterOK
<1>4. WritersOK'
  BY <1>2, <1>3, WritersStep, ExtendsReflexive DEF ArchiveInv
<1> QED
  BY <1>4 DEF ArchiveInv, ArchiveTypeOK, WritersOK, WriterOK, IndexesMatch

LEMMA BeginFinalizeKeeps ==
    ASSUME ArchiveInv, NEW w \in Writers, NEW seen \in SUBSET Gameweeks,
           BeginFinalize(w, seen), UNCHANGED <<now, final, captures, indexes, actuals>>
    PROVE  ArchiveInv'
<1> DEFINE r == [pc |-> "scan", capture |-> {}, seen |-> seen, todo |-> {}]
<1>1. r \in Writing
  BY DEF Writing
<1>2. /\ DOMAIN writing' = DOMAIN writing \cup {w} /\ writing'[w] = r
      /\ \A x \in DOMAIN writing' \ {w} : writing'[x] = writing[x]
  BY DEF BeginFinalize, With
<1>3. WriterOK(writing[w])'
  BY <1>1, <1>2 DEF WriterOK
<1>4. WritersOK'
  BY <1>2, <1>3, WritersStep, ExtendsReflexive DEF ArchiveInv
<1> QED
  BY <1>4 DEF ArchiveInv, ArchiveTypeOK, WritersOK, WriterOK, IndexesMatch

LEMMA WithoutKeeps ==
    ASSUME ArchiveInv, NEW ws, writing' = Without(ws),
           UNCHANGED <<now, final, captures, indexes, actuals>>
    PROVE  ArchiveInv'
<1>1. /\ DOMAIN writing' \subseteq DOMAIN writing
      /\ \A x \in DOMAIN writing' : writing'[x] = writing[x]
  BY DEF Without
<1>2. WritersOK'
  BY <1>1 DEF ArchiveInv, WritersOK, WriterOK
<1> QED
  BY <1>2 DEF ArchiveInv, ArchiveTypeOK, WritersOK, WriterOK, IndexesMatch

LEMMA OutsideKeeps ==
    ASSUME ArchiveInv, Tick \/ \E g \in Gameweeks : BecomeFinal(g)
    PROVE  ArchiveInv'
<1>1. now' \in 0..MaxTime /\ final' \subseteq Gameweeks
      /\ UNCHANGED <<captures, indexes, actuals, writing>>
  BY BucketAssumption DEF Tick, BecomeFinal, ArchiveInv, ArchiveTypeOK
<1> QED
  BY <1>1 DEF ArchiveInv, ArchiveTypeOK, WritersOK, WriterOK, IndexesMatch

LEMMA ArchiveUnchanged ==
    ASSUME ArchiveInv, UNCHANGED archiveVars
    PROVE  ArchiveInv'
BY DEF ArchiveInv, ArchiveTypeOK, WritersOK, WriterOK, IndexesMatch, archiveVars

LEMMA ArchiveStarts ==
    ASSUME ArchiveInit
    PROVE  ArchiveInv
BY BucketAssumption DEF ArchiveInit, ArchiveInv, ArchiveTypeOK, WritersOK, IndexesMatch, Extends

-----------------------------------------------------------------------------
(* The predictions                                                         *)

Catalogue == [ahead : SUBSET Gameweeks, final : SUBSET Gameweeks]

\* There is a forecast for generations only that had a deadline to come.
PlannerOK ==
    /\ catalogues \in Seq(Catalogue) /\ Len(catalogues) <= MaxDownloads
    /\ snapshot \in 0..Len(catalogues) /\ latest \in 0..snapshot /\ generation \in 0..latest
    /\ latest # 0 => catalogues[latest].ahead # {}
    /\ events \in 0..MaxEvents /\ refreshes \in 0..events

MemoryOK ==
    /\ running \in BOOLEAN /\ state \in {"idle", "loading", "ready", "unavailable"}
    /\ component \in 0..latest
    /\ \A k \in DOMAIN historyCache : historyCache[k] \in History

\* As long as a build may still publish for the generation shown, nothing is shown.
Pending(r) ==
    r.pc \in {"histories", "publish"} /\ r.gen = generation =>
        state = "loading" /\ rows = {} /\ component = 0

BuildOK(r) ==
    /\ r \in Build
    /\ r.gen <= Len(catalogues) /\ r.snapshot <= Len(catalogues)
    /\ catalogues[r.gen].ahead # {}
    /\ Cardinality({p \in Players : r.task[p].pc = "asking"}) <= Workers
    /\ Pending(r)

BuildsOK == \A b \in DOMAIN builds : BuildOK(builds[b])

\* The flag stands for the one thread there may be.
Single ==
    /\ DOMAIN builds \subseteq Builders
    /\ running <=> DOMAIN builds # {}
    /\ \A b, c \in DOMAIN builds : b = c

LiveInv == PlannerOK /\ MemoryOK /\ Single /\ BuildsOK /\ NeverMixed

\* The inductive invariant.
Inv == ArchiveInv /\ LiveInv

LEMMA InvImplies ==
    ASSUME Inv
    PROVE  TypeOK /\ OneBuild /\ NeverMixed /\ IndexesMatch
<1>1. TypeOK
  BY DEF Inv, LiveInv, PlannerOK, MemoryOK, Single, BuildsOK, BuildOK, ArchiveInv, TypeOK, Asking
<1>2. OneBuild
  <2>1. CASE running
    <3>1. PICK b : DOMAIN builds = {b}
      BY <2>1 DEF Inv, LiveInv, Single
    <3> QED
      BY <2>1, <3>1, FS_Singleton DEF OneBuild
  <2>2. CASE ~running
    <3>1. DOMAIN builds = {}
      BY <2>2 DEF Inv, LiveInv, Single
    <3> QED
      BY <2>2, <3>1, FS_EmptySet DEF OneBuild
  <2> QED
    BY <2>1, <2>2
<1> QED
  BY <1>1, <1>2 DEF Inv, LiveInv, ArchiveInv

LEMMA InitInv == Init => Inv
<1> SUFFICES ASSUME Init PROVE Inv
  OBVIOUS
<1>1. ArchiveInv
  BY ArchiveStarts DEF Init
<1>2. PlannerOK
  BY BoundsAssumption DEF Init, PlannerOK
<1>3. MemoryOK
  <2>1. component \in 0..latest /\ state = "idle" /\ historyCache = <<>>
    BY DEF Init
  <2>2. running \in BOOLEAN
    BY Zenon DEF Init
  <2>3. \A k \in DOMAIN historyCache : historyCache[k] \in History
    BY <2>1
  <2> QED
    BY <2>1, <2>2, <2>3 DEF MemoryOK
<1>4. Single /\ BuildsOK
  BY DEF Init, Single, BuildsOK
<1>5. NeverMixed
  BY DEF Init, NeverMixed
<1> QED
  BY <1>1, <1>2, <1>3, <1>4, <1>5 DEF Inv, LiveInv

\* One thread's record changes, and the rest of what its invariant speaks of suits it.
LEMMA BuildStep ==
    ASSUME Single, NEW b \in DOMAIN builds, DOMAIN builds' = DOMAIN builds,
           BuildOK(builds[b])', UNCHANGED running
    PROVE  Single' /\ BuildsOK'
<1>1. \A c \in DOMAIN builds' : c = b
  BY DEF Single
<1> QED
  BY <1>1 DEF Single, BuildsOK

\* Nothing of the predictions changes but the counter of events.
LEMMA ElsewhereKeeps ==
    ASSUME LiveInv, Elsewhere, events' \in 0..MaxEvents, refreshes \in 0..events'
    PROVE  LiveInv'
<1>1. UNCHANGED <<catalogues, snapshot, latest, generation, running, state, rows, component,
                  historyCache, builds, refreshes>>
  BY DEF Elsewhere, planner, memory
<1>2. PlannerOK'
  BY <1>1 DEF LiveInv, PlannerOK
<1> QED
  BY <1>1, <1>2 DEF LiveInv, MemoryOK, Single, BuildsOK, BuildOK, Pending, NeverMixed

LEMMA EventFacts ==
    ASSUME PlannerOK, Event
    PROVE  events' \in 0..MaxEvents /\ events' = events + 1 /\ refreshes \in 0..events'
BY BoundsAssumption DEF PlannerOK, Event

-----------------------------------------------------------------------------
(* The planner's steps                                                     *)

LEMMA DownloadKeeps ==
    ASSUME Inv, Download
    PROVE  Inv'
<1> DEFINE new == [ahead |-> Ahead, final |-> final]
<1>1. /\ UNCHANGED <<generation, running, state, rows, component, historyCache, builds, refreshes,
                     events>>
      /\ UNCHANGED archiveVars
      /\ catalogues' = Append(catalogues, new) /\ snapshot' = Len(catalogues')
      /\ Len(catalogues) < MaxDownloads
      /\ (Ahead # {} /\ latest' = snapshot') \/ UNCHANGED latest
  BY DEF Download
<1>2. new \in Catalogue
  BY DEF Catalogue, Ahead, Inv, ArchiveInv, ArchiveTypeOK
<1>3. catalogues \in Seq(Catalogue) /\ Len(catalogues) \in Nat
  BY DEF Inv, LiveInv, PlannerOK
<1>4. /\ catalogues' \in Seq(Catalogue) /\ Len(catalogues') = Len(catalogues) + 1
      /\ \A g \in 1..Len(catalogues) : catalogues'[g] = catalogues[g]
      /\ catalogues'[Len(catalogues')].ahead = Ahead
  BY <1>1, <1>2, <1>3
<1>5. PlannerOK' /\ latest <= latest'
  BY <1>1, <1>3, <1>4, BoundsAssumption DEF Inv, LiveInv, PlannerOK
<1>6. MemoryOK'
  BY <1>1, <1>5 DEF Inv, LiveInv, PlannerOK, MemoryOK
<1>7. BuildsOK'
  <2> SUFFICES ASSUME NEW b \in DOMAIN builds PROVE BuildOK(builds[b])'
    BY <1>1 DEF BuildsOK
  <2>1. BuildOK(builds[b]) /\ builds'[b] = builds[b]
    BY <1>1 DEF Inv, LiveInv, BuildsOK
  <2>2. builds[b].gen \in 1..Len(catalogues) /\ builds[b].snapshot \in Nat
    BY <1>3, <2>1, BoundsAssumption DEF BuildOK, Build
  <2> QED
    BY <1>1, <1>3, <1>4, <2>1, <2>2 DEF BuildOK, Pending
<1>8. ArchiveInv'
  BY <1>1, ArchiveUnchanged DEF Inv
<1> QED
  BY <1>1, <1>5, <1>6, <1>7, <1>8 DEF Inv, LiveInv, Single, NeverMixed

LEMMA NewBuildOK ==
    ASSUME Inv, latest # 0, NEW r,
           r = [pc |-> "histories", gen |-> latest, snapshot |-> snapshot, since |-> refreshes,
                task |-> NoTask, at |-> 0, stale |-> FALSE]
    PROVE  /\ r \in Build /\ r.gen <= Len(catalogues) /\ r.snapshot <= Len(catalogues)
           /\ catalogues[r.gen].ahead # {}
           /\ Cardinality({p \in Players : r.task[p].pc = "asking"}) <= Workers
<1>1. NoTask \in [Players -> Task]
  BY BucketAssumption, BoundsAssumption DEF NoTask, Queued, Task, History
<1>2. /\ latest \in 1..MaxDownloads /\ snapshot \in 1..MaxDownloads /\ refreshes \in 0..MaxEvents
      /\ latest <= Len(catalogues) /\ snapshot <= Len(catalogues)
  BY BoundsAssumption DEF Inv, LiveInv, PlannerOK
<1>3. r \in Build
  BY <1>1, <1>2, BucketAssumption DEF Build
<1>4. {p \in Players : r.task[p].pc = "asking"} = {}
  BY DEF NoTask, Queued
<1>5. Cardinality({p \in Players : r.task[p].pc = "asking"}) <= Workers
  BY <1>4, FS_EmptySet, WorkersAssumption
<1> QED
  BY <1>2, <1>3, <1>5 DEF Inv, LiveInv, PlannerOK

LEMMA RequestKeeps ==
    ASSUME Inv, Request
    PROVE  Inv'
<1> DEFINE status == IF Renewed THEN "loading" ELSE state
           starts == ~running /\ status = "loading"
           new == [pc |-> "histories", gen |-> latest, snapshot |-> snapshot,
                   since |-> refreshes, task |-> NoTask, at |-> 0, stale |-> FALSE]
<1>1. /\ UNCHANGED <<catalogues, snapshot, latest, historyCache, refreshes, events>>
      /\ UNCHANGED archiveVars /\ latest # 0
      /\ generation' = latest /\ state' = status
      /\ rows' = IF Renewed THEN {} ELSE rows
      /\ component' = IF Renewed THEN 0 ELSE component
      /\ running' = (running \/ starts)
  BY DEF Request, planner, RowsOnRequest
<1>2. \/ starts /\ \E b \in Builders : b \notin DOMAIN builds /\ builds' = With(builds, b, new)
      \/ ~starts /\ UNCHANGED builds
  BY DEF Request, Active
<1>3. ArchiveInv'
  BY <1>1, ArchiveUnchanged DEF Inv
<1>4. PlannerOK'
  BY <1>1 DEF Inv, LiveInv, PlannerOK
<1>5. MemoryOK'
  BY <1>1 DEF Inv, LiveInv, PlannerOK, MemoryOK
<1>6. NeverMixed'
  BY <1>1 DEF Inv, LiveInv, NeverMixed, Renewed
<1>7. Renewed \/ state = "loading" => state' = "loading" /\ rows' = {} /\ component' = 0
  <2>1. CASE Renewed
    BY <1>1, <2>1
  <2>2. CASE ~Renewed /\ state = "loading"
    <3>1. generation # 0 /\ rows = {}
      BY <1>1, <2>2 DEF Renewed, Inv, LiveInv, NeverMixed
    <3>2. component = 0
      BY <3>1 DEF Inv, LiveInv, NeverMixed
    <3> QED
      BY <1>1, <2>2, <3>1, <3>2
  <2> QED
    BY <2>1, <2>2
<1>8. \A b \in DOMAIN builds : BuildOK(builds[b])' \/ builds'[b] # builds[b]
  <2> SUFFICES ASSUME NEW b \in DOMAIN builds, builds'[b] = builds[b]
               PROVE  BuildOK(builds[b])'
    OBVIOUS
  <2>1. BuildOK(builds[b])
    BY DEF Inv, LiveInv, BuildsOK
  <2>2. Pending(builds[b])'
    BY <1>1, <1>7, <2>1 DEF BuildOK, Pending, Renewed
  <2> QED
    BY <1>1, <2>1, <2>2 DEF BuildOK
<1>9. Single' /\ BuildsOK'
  <2>1. CASE ~starts
    <3>1. UNCHANGED <<builds, running>>
      BY <1>1, <1>2, <2>1 DEF Inv, LiveInv, MemoryOK
    <3> QED
      BY <1>8, <3>1 DEF Inv, LiveInv, Single, BuildsOK
  <2>2. CASE starts
    <3>1. PICK b \in Builders : builds' = With(builds, b, new)
      BY <1>2, <2>2
    <3>2. DOMAIN builds = {} /\ running'
      BY <1>1, <2>2 DEF Inv, LiveInv, Single
    <3>3. DOMAIN builds' = {b} /\ builds'[b] = new
      BY <3>1, <3>2 DEF With
    <3>4. Renewed \/ state = "loading"
      BY <2>2
    <3>5. BuildOK(builds[b])'
      BY <1>1, <1>7, <3>3, <3>4, NewBuildOK DEF BuildOK, Pending
    <3> QED
      BY <3>2, <3>3, <3>5 DEF Single, BuildsOK
  <2> QED
    BY <2>1, <2>2
<1> QED
  BY <1>3, <1>4, <1>5, <1>6, <1>9 DEF Inv, LiveInv

LEMMA InvalidateKeeps ==
    ASSUME Inv, Invalidate
    PROVE  Inv'
<1>1. /\ UNCHANGED <<archiveVars, catalogues, snapshot, latest, state, builds, running>>
      /\ refreshes' = refreshes + 1 /\ rows' = {} /\ historyCache' = <<>>
      /\ component' = 0 /\ generation' = 0
  BY DEF Invalidate, planner, RunningAfterRefresh
<1>2. PlannerOK'
  BY <1>1, EventFacts DEF Invalidate, Inv, LiveInv, PlannerOK
<1>3. MemoryOK'
  BY <1>1, <1>2 DEF Inv, LiveInv, MemoryOK, PlannerOK
<1>4. BuildsOK'
  <2> SUFFICES ASSUME NEW b \in DOMAIN builds PROVE BuildOK(builds[b])'
    BY <1>1 DEF BuildsOK
  <2>1. BuildOK(builds[b])
    BY DEF Inv, LiveInv, BuildsOK
  <2>2. builds[b].gen # 0
    BY <2>1, BoundsAssumption DEF BuildOK, Build
  <2> QED
    BY <1>1, <2>1, <2>2 DEF BuildOK, Pending
<1> QED
  BY <1>1, <1>2, <1>3, <1>4, ArchiveUnchanged DEF Inv, LiveInv, Single, NeverMixed

-----------------------------------------------------------------------------
(* The background thread's steps                                           *)

\* What a worker does for one player, if it asks only when a worker is free.
LEMMA SetKeeps ==
    ASSUME BuildsOK, Single, NEW b \in DOMAIN builds, NEW p \in Players, NEW task \in Task,
           Set(b, p, task), task.pc = "asking" => Free(b),
           UNCHANGED <<catalogues, generation, state, rows, component, running>>
    PROVE  Single' /\ BuildsOK'
<1> DEFINE asks == {q \in Players : builds[b].task[q].pc = "asking"}
           asks2 == {q \in Players : builds'[b].task[q].pc = "asking"}
<1>1. BuildOK(builds[b]) /\ builds[b] \in Build
  BY DEF BuildsOK, BuildOK
<1>2. /\ DOMAIN builds' = DOMAIN builds /\ builds'[b] \in Build
      /\ builds'[b].pc = builds[b].pc /\ builds'[b].gen = builds[b].gen
      /\ builds'[b].snapshot = builds[b].snapshot
      /\ builds'[b].task = [builds[b].task EXCEPT ![p] = task]
  BY <1>1 DEF Set, Build
<1>3. IsFiniteSet(asks) /\ Cardinality(asks) \in Nat /\ Cardinality(asks) <= Workers
  <2>1. IsFiniteSet(asks)
    BY FS_Subset, BoundsAssumption
  <2> QED
    BY <1>1, <2>1, FS_CardinalityType DEF BuildOK
<1>4. Cardinality(asks2) <= Workers
  <2>1. builds[b].task \in [Players -> Task]
    BY <1>1 DEF Build
  <2>2. CASE task.pc = "asking"
    <3>1. asks2 = asks \cup {p}
      BY <1>2, <2>1, <2>2
    <3>2. Cardinality(asks) < Workers
      BY <2>2 DEF Free, Asking
    <3> HIDE DEF asks, asks2
    <3>3. Cardinality(asks2) = Cardinality(asks) \/ Cardinality(asks2) = Cardinality(asks) + 1
      BY <1>3, <3>1, FS_AddElement
    <3> QED
      BY <1>3, <3>2, <3>3, WorkersAssumption
  <2>3. CASE task.pc # "asking"
    <3>1. asks2 \subseteq asks
      BY <1>2, <2>1, <2>3
    <3>2. Cardinality(asks2) <= Cardinality(asks) /\ Cardinality(asks2) \in Nat
      BY <1>3, <3>1, FS_Subset, FS_CardinalityType
    <3> QED
      BY <1>3, <3>2, WorkersAssumption
  <2> QED
    BY <2>2, <2>3
<1>5. BuildOK(builds[b])'
  BY <1>1, <1>2, <1>4 DEF BuildOK, Pending
<1> QED
  BY <1>2, <1>5, BuildStep

LEMMA QueuedTasks ==
    ASSUME Inv
    PROVE  /\ Queued \in Task /\ [Queued EXCEPT !.pc = "failed"] \in Task
           /\ [at |-> 0, asked |-> refreshes] \in History
           /\ [pc |-> "asking", history |-> [at |-> 0, asked |-> refreshes]] \in Task
<1>1. 0 \in 0..MaxTime /\ 0 \in 0..MaxEvents /\ refreshes \in 0..MaxEvents
  BY BucketAssumption, BoundsAssumption DEF Inv, LiveInv, PlannerOK
<1>2. [at |-> 0, asked |-> 0] \in History /\ [at |-> 0, asked |-> refreshes] \in History
  BY <1>1 DEF History
<1> QED
  BY <1>2 DEF Queued, Task

LEMMA TakeKeeps ==
    ASSUME Inv, NEW b \in Builders, NEW p \in Players, Take(b, p)
    PROVE  Inv'
<1>1. /\ b \in DOMAIN builds /\ Free(b)
      /\ UNCHANGED archiveVars
      /\ UNCHANGED <<catalogues, snapshot, latest, generation, running, state, rows, component,
                     historyCache, refreshes, events>>
  BY DEF Take, In, Active, planner
<1>2. \E task \in Task : Set(b, p, task)
  <2>1. CASE Outage(b) /\ Set(b, p, [Queued EXCEPT !.pc = "failed"])
    BY <2>1, QueuedTasks
  <2>2. CASE Cached(b, p) /\ Set(b, p, [pc |-> "have", history |-> historyCache[Key(b, p)]])
    <3>1. historyCache[Key(b, p)] \in History
      BY <2>2 DEF Cached, Inv, LiveInv, MemoryOK
    <3>2. [pc |-> "have", history |-> historyCache[Key(b, p)]] \in Task
      BY <3>1 DEF Task
    <3> QED
      BY <2>2, <3>2
  <2>3. CASE Set(b, p, [pc |-> "asking", history |-> [at |-> 0, asked |-> refreshes]])
    BY <2>3, QueuedTasks
  <2> QED
    BY <2>1, <2>2, <2>3 DEF Take
<1>3. Single' /\ BuildsOK'
  BY <1>1, <1>2, SetKeeps DEF Inv, LiveInv
<1> QED
  BY <1>1, <1>3, ArchiveUnchanged DEF Inv, LiveInv, PlannerOK, MemoryOK, NeverMixed

LEMMA ReceiveKeeps ==
    ASSUME Inv, NEW b \in Builders, NEW p \in Players, Receive(b, p)
    PROVE  Inv'
<1> DEFINE history == [builds[b].task[p].history EXCEPT !.at = now]
           task == [pc |-> "have", history |-> history]
<1>1. /\ b \in DOMAIN builds /\ Set(b, p, task)
      /\ UNCHANGED archiveVars
      /\ UNCHANGED <<catalogues, snapshot, latest, generation, running, state, rows, component,
                     refreshes, events>>
      /\ historyCache' = With(historyCache, Key(b, p), history)
  BY DEF Receive, Active, planner
<1>2. history \in History
  <2>1. builds[b].task[p].history \in History
    BY <1>1 DEF Inv, LiveInv, BuildsOK, BuildOK, Build, Task
  <2>2. now \in 0..MaxTime
    BY DEF Inv, ArchiveInv, ArchiveTypeOK
  <2> QED
    BY <2>1, <2>2 DEF History
<1> HIDE DEF history
<1>3. task \in Task /\ task.pc # "asking"
  BY <1>2 DEF Task
<1>4. Single' /\ BuildsOK'
  BY <1>1, <1>3, SetKeeps DEF Inv, LiveInv
<1>5. \A k \in DOMAIN historyCache' : historyCache'[k] \in History
  BY <1>1, <1>2 DEF With, Inv, LiveInv, MemoryOK
<1> QED
  BY <1>1, <1>4, <1>5, ArchiveUnchanged DEF Inv, LiveInv, PlannerOK, MemoryOK, NeverMixed

LEMMA HistoryFailsKeeps ==
    ASSUME Inv, NEW b \in Builders, NEW p \in Players, HistoryFails(b, p)
    PROVE  Inv'
<1>1. /\ b \in DOMAIN builds /\ Set(b, p, [Queued EXCEPT !.pc = "failed"])
      /\ UNCHANGED archiveVars
      /\ UNCHANGED <<catalogues, snapshot, latest, generation, running, state, rows, component,
                     historyCache, refreshes, events>>
  BY DEF HistoryFails, Active, planner
<1>2. [Queued EXCEPT !.pc = "failed"] \in Task /\ [Queued EXCEPT !.pc = "failed"].pc = "failed"
  BY QueuedTasks DEF Queued
<1>3. Single' /\ BuildsOK'
  BY <1>1, <1>2, SetKeeps DEF Inv, LiveInv
<1> QED
  BY <1>1, <1>3, ArchiveUnchanged DEF Inv, LiveInv, PlannerOK, MemoryOK, NeverMixed

\* The other steps of a thread leave it without a download under way, or as it is.
LEMMA NobodyAsks ==
    ASSUME NEW r, r.task = NoTask
    PROVE  Cardinality({p \in Players : r.task[p].pc = "asking"}) <= Workers
<1> DEFINE asks == {p \in Players : r.task[p].pc = "asking"}
<1>1. asks = {}
  BY DEF NoTask, Queued
<1> HIDE DEF asks
<1>2. Cardinality(asks) = 0
  BY <1>1, FS_EmptySet
<1>3. Cardinality(asks) <= Workers
  BY <1>2, WorkersAssumption
<1> QED
  BY <1>3 DEF asks

LEMMA NoTaskType ==
    ASSUME Inv
    PROVE  NoTask \in [Players -> Task]
BY QueuedTasks DEF NoTask

LEMMA PredictKeeps ==
    ASSUME Inv, NEW b \in Builders, Predict(b)
    PROVE  Inv'
<1> DEFINE old == \E p \in Have(b) : builds[b].task[p].history.asked < builds[b].since
<1>1. /\ b \in DOMAIN builds /\ builds[b].pc = "histories"
      /\ UNCHANGED archiveVars
      /\ UNCHANGED <<catalogues, snapshot, latest, generation, running, state, rows, component,
                     historyCache, refreshes, events>>
      /\ builds' = [builds EXCEPT ![b].pc = "publish", ![b].at = now, ![b].task = NoTask,
                        ![b].stale = old]
  BY DEF Predict, In, Active, planner
<1> HIDE DEF old
<1>2. BuildOK(builds[b]) /\ builds[b] \in Build
  BY <1>1 DEF Inv, LiveInv, BuildsOK, BuildOK
<1>3. now \in 0..MaxTime
  BY DEF Inv, ArchiveInv, ArchiveTypeOK
<1>4. old \in BOOLEAN
  BY Zenon DEF old
<1>5. /\ DOMAIN builds' = DOMAIN builds
      /\ builds'[b].gen = builds[b].gen /\ builds'[b].snapshot = builds[b].snapshot
      /\ builds'[b].task = NoTask /\ builds'[b].pc = "publish"
      /\ builds'[b] \in Build
  BY <1>1, <1>2, <1>3, <1>4, NoTaskType DEF Build
<1>6. BuildOK(builds[b])'
  BY <1>1, <1>2, <1>5, NobodyAsks DEF BuildOK, Pending
<1>7. Single' /\ BuildsOK'
  BY <1>1, <1>5, <1>6, BuildStep DEF Inv, LiveInv
<1> QED
  BY <1>1, <1>7, ArchiveUnchanged DEF Inv, LiveInv, PlannerOK, MemoryOK, NeverMixed

LEMMA BuildFailsKeeps ==
    ASSUME Inv, NEW b \in Builders, BuildFails(b)
    PROVE  Inv'
<1>1. /\ b \in DOMAIN builds /\ builds[b].pc = "histories"
      /\ UNCHANGED archiveVars
      /\ UNCHANGED <<catalogues, snapshot, latest, generation, running, component,
                     historyCache, refreshes, events>>
      /\ builds' = [builds EXCEPT ![b].pc = "end", ![b].task = NoTask]
      /\ IF builds[b].gen = generation THEN rows' = {} /\ state' = "unavailable"
         ELSE UNCHANGED <<rows, state>>
  BY DEF BuildFails, In, Active, planner
<1>2. BuildOK(builds[b]) /\ builds[b] \in Build
  BY <1>1 DEF Inv, LiveInv, BuildsOK, BuildOK
<1>3. /\ DOMAIN builds' = DOMAIN builds
      /\ builds'[b].gen = builds[b].gen /\ builds'[b].snapshot = builds[b].snapshot
      /\ builds'[b].task = NoTask /\ builds'[b].pc = "end"
      /\ builds'[b] \in Build
  BY <1>1, <1>2, NoTaskType DEF Build
<1>4. BuildOK(builds[b])'
  BY <1>1, <1>2, <1>3, NobodyAsks DEF BuildOK, Pending
<1>5. Single' /\ BuildsOK'
  BY <1>1, <1>3, <1>4, BuildStep DEF Inv, LiveInv
<1>6. MemoryOK'
  BY <1>1 DEF Inv, LiveInv, MemoryOK
<1>7. NeverMixed'
  <2>1. CASE builds[b].gen = generation
    <3>1. component = 0
      BY <1>1, <1>2, <2>1 DEF BuildOK, Pending
    <3> QED
      BY <1>1, <2>1, <3>1 DEF NeverMixed
  <2>2. CASE builds[b].gen # generation
    BY <1>1, <2>2 DEF Inv, LiveInv, NeverMixed
  <2> QED
    BY <2>1, <2>2
<1> QED
  BY <1>1, <1>5, <1>6, <1>7, ArchiveUnchanged DEF Inv, LiveInv, PlannerOK

LEMMA DropKeeps ==
    ASSUME Inv, NEW b \in Builders, Drop(b)
    PROVE  Inv'
<1>1. /\ b \in DOMAIN builds
      /\ UNCHANGED archiveVars
      /\ UNCHANGED <<catalogues, snapshot, latest, generation, running, state, rows, component,
                     historyCache, refreshes, events>>
      /\ builds' = [builds EXCEPT ![b].pc = "end"]
  BY DEF Drop, In, Active, planner
<1>2. BuildOK(builds[b]) /\ builds[b] \in Build
  BY <1>1 DEF Inv, LiveInv, BuildsOK, BuildOK
<1>3. /\ DOMAIN builds' = DOMAIN builds
      /\ builds'[b].gen = builds[b].gen /\ builds'[b].snapshot = builds[b].snapshot
      /\ builds'[b].task = builds[b].task /\ builds'[b].pc = "end"
      /\ builds'[b] \in Build
  BY <1>1, <1>2 DEF Build
<1>4. BuildOK(builds[b])'
  BY <1>1, <1>2, <1>3 DEF BuildOK, Pending
<1>5. Single' /\ BuildsOK'
  BY <1>1, <1>3, <1>4, BuildStep DEF Inv, LiveInv
<1> QED
  BY <1>1, <1>5, ArchiveUnchanged DEF Inv, LiveInv, PlannerOK, MemoryOK, NeverMixed

LEMMA PublishKeeps ==
    ASSUME Inv, NEW b \in Builders, Publish(b)
    PROVE  Inv'
<1> DEFINE c == [by |-> "build", at |-> builds[b].at,
                 first |-> Min(catalogues[builds[b].gen].ahead)]
           seen == Finished(builds[b].snapshot)
<1>1. /\ b \in DOMAIN builds
      /\ UNCHANGED <<now, final, captures, indexes, actuals>>
      /\ UNCHANGED <<catalogues, snapshot, latest, generation, running, historyCache, refreshes,
                     events>>
      /\ builds' = [builds EXCEPT ![b].pc = "recording"]
      /\ builds[b].gen = generation
      /\ rows' = {[gen |-> builds[b].gen, stale |-> builds[b].stale]}
      /\ component' \in {builds[b].gen, 0} /\ state' = "ready"
      /\ BeginRecord("build", c, seen)
  BY DEF Publish, In, Active, planner, Superseded
<1>2. BuildOK(builds[b]) /\ builds[b] \in Build
  BY <1>1 DEF Inv, LiveInv, BuildsOK, BuildOK
<1>3. /\ DOMAIN builds' = DOMAIN builds
      /\ builds'[b].gen = builds[b].gen /\ builds'[b].snapshot = builds[b].snapshot
      /\ builds'[b].task = builds[b].task /\ builds'[b].pc = "recording"
      /\ builds'[b] \in Build
  BY <1>1, <1>2 DEF Build
<1>4. BuildOK(builds[b])'
  BY <1>1, <1>2, <1>3 DEF BuildOK, Pending
<1>5. Single' /\ BuildsOK'
  BY <1>1, <1>3, <1>4, BuildStep DEF Inv, LiveInv
<1>6. /\ catalogues[builds[b].gen] \in Catalogue /\ catalogues[builds[b].snapshot] \in Catalogue
      /\ catalogues[builds[b].gen].ahead # {} /\ generation # 0
  BY <1>1, <1>2, BoundsAssumption DEF Inv, LiveInv, PlannerOK, BuildOK, Build
<1>7. c \in Capture /\ seen \in SUBSET Gameweeks
  <2>1. Min(catalogues[builds[b].gen].ahead) \in Gameweeks
    BY <1>6, MinIsElement DEF Catalogue
  <2> QED
    BY <1>2, <1>6, <2>1, WriterAssumption DEF Capture, Build, Finished, Catalogue
<1> HIDE DEF c, seen
<1>8. ArchiveInv'
  BY <1>1, <1>7, BeginRecordKeeps, WriterAssumption DEF Inv
<1>9. MemoryOK'
  BY <1>1 DEF Inv, LiveInv, PlannerOK, MemoryOK
<1>10. NeverMixed'
  BY <1>1 DEF NeverMixed
<1> QED
  BY <1>1, <1>5, <1>8, <1>9, <1>10 DEF Inv, LiveInv, PlannerOK

LEMMA FinishKeeps ==
    ASSUME Inv, NEW b \in Builders, Finish(b)
    PROVE  Inv'
<1>1. /\ b \in DOMAIN builds /\ running' = FALSE
      /\ Leave("build") \/ UNCHANGED archiveVars
      /\ UNCHANGED <<catalogues, snapshot, latest, generation, state, rows, component,
                     historyCache, refreshes, events>>
      /\ builds' = [x \in DOMAIN builds \ {b} |-> builds[x]]
  BY DEF Finish, In, Active, planner, RunningAfter
<1>2. DOMAIN builds' = {}
  BY <1>1 DEF Inv, LiveInv, Single
<1>3. Single' /\ BuildsOK'
  BY <1>1, <1>2 DEF Single, BuildsOK
<1>4. ArchiveInv'
  BY <1>1, ArchiveUnchanged, WithoutKeeps DEF Leave, Inv
<1>5. running' \in BOOLEAN
  BY <1>1, Zenon
<1> QED
  BY <1>1, <1>3, <1>4, <1>5 DEF Inv, LiveInv, PlannerOK, MemoryOK, NeverMixed

LEMMA StepKeeps ==
    ASSUME Inv, NEW b \in Builders, Step(b)
    PROVE  Inv'
BY TakeKeeps, ReceiveKeeps, HistoryFailsKeeps, PredictKeeps, BuildFailsKeeps, DropKeeps,
   PublishKeeps, FinishKeeps DEF Step

-----------------------------------------------------------------------------
(* Everything else                                                         *)

LEMMA ScheduleKeeps ==
    ASSUME Inv, NEW w \in Writers, Schedule(w)
    PROVE  Inv'
<1> DEFINE seen == Finished(snapshot)
<1>1. /\ Event /\ Elsewhere /\ snapshot # 0 /\ BeginFinalize(w, seen)
      /\ UNCHANGED <<now, final, captures, indexes, actuals>>
  BY DEF Schedule
<1>2. seen \in SUBSET Gameweeks
  <2>1. catalogues[snapshot] \in Catalogue
    BY <1>1 DEF Inv, LiveInv, PlannerOK
  <2> QED
    BY <2>1 DEF Finished, Catalogue
<1> HIDE DEF seen
<1>3. ArchiveInv'
  BY <1>1, <1>2, BeginFinalizeKeeps DEF Inv
<1> QED
  BY <1>1, <1>3, EventFacts, ElsewhereKeeps DEF Inv, LiveInv

LEMMA RunCommandKeeps ==
    ASSUME Inv, NEW w \in Writers, RunCommand(w)
    PROVE  Inv'
<1> DEFINE c == [by |-> w, at |-> now, first |-> Min(Ahead)]
<1>1. /\ Event /\ Elsewhere /\ Ahead # {} /\ BeginRecord(w, c, final)
      /\ UNCHANGED <<now, final, captures, indexes, actuals>>
  BY DEF RunCommand
<1>2. c \in Capture /\ final \in SUBSET Gameweeks
  <2>1. Min(Ahead) \in Gameweeks
    BY <1>1, MinIsElement DEF Ahead
  <2> QED
    BY <2>1 DEF Capture, Inv, ArchiveInv, ArchiveTypeOK
<1> HIDE DEF c
<1>3. ArchiveInv'
  BY <1>1, <1>2, BeginRecordKeeps DEF Inv
<1> QED
  BY <1>1, <1>3, EventFacts, ElsewhereKeeps DEF Inv, LiveInv

LEMMA CrashKeeps ==
    ASSUME Inv, Crash
    PROVE  Inv'
<1>1. /\ Event /\ writing' = Without(DOMAIN writing)
      /\ UNCHANGED <<now, final, captures, indexes, actuals, catalogues, refreshes>>
      /\ snapshot' = 0 /\ latest' = 0 /\ generation' = 0 /\ running' = FALSE /\ state' = "idle"
      /\ rows' = {} /\ component' = 0 /\ historyCache' = <<>> /\ builds' = <<>>
  BY DEF Crash
<1>2. ArchiveInv'
  BY <1>1, WithoutKeeps DEF Inv
<1>3. PlannerOK'
  BY <1>1, EventFacts DEF Inv, LiveInv, PlannerOK
<1>4. running' \in BOOLEAN
  BY <1>1, Zenon
<1>5. MemoryOK'
  BY <1>1, <1>4 DEF MemoryOK
<1>6. Single' /\ BuildsOK'
  BY <1>1 DEF Single, BuildsOK
<1>7. NeverMixed'
  BY <1>1 DEF NeverMixed
<1> QED
  BY <1>2, <1>3, <1>5, <1>6, <1>7 DEF Inv, LiveInv

LEMMA OutsideLeaves ==
    ASSUME Inv, Outside
    PROVE  LiveInv'
BY ElsewhereKeeps DEF Outside, Inv, LiveInv, PlannerOK

LEMMA NextInv == Inv /\ [Next]_vars => Inv'
<1> SUFFICES ASSUME Inv, [Next]_vars PROVE Inv'
  OBVIOUS
<1>1. CASE Download
  BY <1>1, DownloadKeeps
<1>2. CASE Request
  BY <1>2, RequestKeeps
<1>3. CASE Invalidate
  BY <1>3, InvalidateKeeps
<1>4. ASSUME NEW b \in Builders, Step(b) PROVE Inv'
  BY <1>4, StepKeeps
<1>5. ASSUME NEW w \in Writers \ {"build"}, Schedule(w) \/ RunCommand(w) PROVE Inv'
  BY <1>5, ScheduleKeeps, RunCommandKeeps
<1>6. ASSUME NEW w \in Writers, Leave(w), Outside PROVE Inv'
  BY <1>6, WithoutKeeps, OutsideLeaves DEF Leave, Inv
<1>7. ASSUME NEW w \in Writers, Write(w), Outside PROVE Inv'
  BY <1>7, WriteKeeps, OutsideLeaves DEF Inv
<1>8. CASE Crash
  BY <1>8, CrashKeeps
<1>9. CASE (Tick \/ \E g \in Gameweeks : BecomeFinal(g)) /\ Outside
  BY <1>9, OutsideKeeps, OutsideLeaves DEF Inv
<1>10. CASE UNCHANGED vars
  <2>1. UNCHANGED archiveVars /\ Elsewhere /\ UNCHANGED events
    BY <1>10 DEF vars, Elsewhere
  <2> QED
    BY <2>1, ArchiveUnchanged, OutsideLeaves DEF Inv, Outside
<1> QED
  BY <1>1, <1>2, <1>3, <1>4, <1>5, <1>6, <1>7, <1>8, <1>9, <1>10 DEF Next

\* No step takes away from the archive; no invariant is needed for that.
LEMMA NextExtends ==
    ASSUME [Next]_vars
    PROVE  Extends(captures', captures) /\ Extends(indexes', indexes) /\ Extends(actuals', actuals)
<1>1. CASE UNCHANGED <<captures, indexes, actuals>>
  BY <1>1, ExtendsReflexive
<1>2. ASSUME NEW w \in Writers, Write(w)
      PROVE  /\ Extends(captures', captures) /\ Extends(indexes', indexes)
             /\ Extends(actuals', actuals)
  <2>1. \/ UNCHANGED <<captures, indexes, actuals>>
        \/ captures' = Published(captures, Name(Its(w)), Its(w)) /\ UNCHANGED <<indexes, actuals>>
        \/ indexes' = Published(indexes, Name(Its(w)), Its(w)) /\ UNCHANGED <<captures, actuals>>
        \/ actuals' = Published(actuals, Min(writing[w].todo), w) /\ UNCHANGED <<captures, indexes>>
    BY <1>2 DEF Write, Check, Link, WriteIndex, Scan, Collect, WriteActual
  <2>2. \A f, k, v : Extends(Published(f, k, v), f)
    BY PublishedFacts
  <2> QED
    BY <2>1, <2>2, ExtendsReflexive
<1>3. ASSUME NEW b \in Builders, Step(b) PROVE UNCHANGED <<captures, indexes, actuals>>
  BY <1>3 DEF Step, Take, Receive, HistoryFails, Predict, BuildFails, Drop, Publish, Finish, Leave,
              archiveVars
<1>4. ASSUME NEW w \in Writers, Schedule(w) \/ RunCommand(w) \/ Leave(w)
      PROVE  UNCHANGED <<captures, indexes, actuals>>
  BY <1>4 DEF Schedule, RunCommand, Leave
<1>5. CASE Download \/ Request \/ Invalidate \/ Crash \/ UNCHANGED vars
  <2>1. UNCHANGED <<captures, indexes, actuals>>
    BY <1>5 DEF Download, Request, Invalidate, Crash, vars, archiveVars
  <2> QED
    BY <1>1, <2>1
<1>6. ASSUME Tick \/ \E g \in Gameweeks : BecomeFinal(g)
      PROVE  UNCHANGED <<captures, indexes, actuals>>
  BY <1>6 DEF Tick, BecomeFinal
<1> QED
  BY <1>1, <1>2, <1>3, <1>4, <1>5, <1>6 DEF Next

-----------------------------------------------------------------------------
(* Theorems                                                                *)

(***************************************************************************)
(* The inductive invariant: the archive's (each writer about to write an   *)
(* index holds the capture that was published under its name), and the     *)
(* predictions' (as long as a build may publish for the generation shown,  *)
(* nothing is shown, and there is no other build).                         *)
(***************************************************************************)
THEOREM Invariant == Spec => []Inv
<1>1. Inv /\ [Next]_vars => Inv'
  BY NextInv
<1> QED
  BY <1>1, InitInv, PTL DEF Spec

(***************************************************************************)
(* Type correctness, and no more histories under way than there are        *)
(* workers, for any roster (ml_inference.py:237).                          *)
(***************************************************************************)
THEOREM TypeCorrect == Spec => []TypeOK
BY Invariant, InvImplies, PTL

(***************************************************************************)
(* There is never a second build, whatever refreshes, generations and      *)
(* failures come (ml_inference.py:197-205, 326-328).                       *)
(***************************************************************************)
THEOREM SingleBuild == Spec => []OneBuild
BY Invariant, InvImplies, PTL

(***************************************************************************)
(* What is shown as ready belongs to the generation it is shown for        *)
(* (ml_inference.py:268-274, 366-370).                                     *)
(***************************************************************************)
THEOREM GenerationsApart == Spec => []NeverMixed
BY Invariant, InvImplies, PTL

(***************************************************************************)
(* The index of a capture was written by the writer whose capture it is,   *)
(* for any number of writers and crashes (prospective.py:136-148).         *)
(***************************************************************************)
THEOREM IndexOfCapture == Spec => []IndexesMatch
BY Invariant, InvImplies, PTL

(***************************************************************************)
(* No file of the archive is ever replaced or removed (prospective.py:     *)
(* 32-47).                                                                 *)
(***************************************************************************)
THEOREM ArchiveOnlyGrows == Spec => NeverOverwritten
<1>1. [Next]_vars => [Extends(captures', captures) /\ Extends(indexes', indexes)
                      /\ Extends(actuals', actuals)]_archiveVars
  BY NextExtends
<1> QED
  BY <1>1, PTL DEF Spec, NeverOverwritten
=============================================================================
