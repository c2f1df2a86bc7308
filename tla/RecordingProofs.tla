-------------------------- MODULE RecordingProofs --------------------------
(***************************************************************************)
(* What holds of the prospective recorder for every season, stage table    *)
(* and number of runs and faults: a release holds the candidate that       *)
(* reserved it and is published in time, a run without an error left        *)
(* nothing behind, and what was evaluated stays the best capture.           *)
(*                                                                         *)
(* The induction rests on who may hold what.  Only the runner creates      *)
(* drafts, and only of a tag that has none; the operator works on          *)
(* candidates of runs that have ended; so the listing an actor works from   *)
(* agrees with GitHub on every asset it saw complete.                      *)
(*                                                                         *)
(* And of the risk history, for any leagues, limits and delays: deleting   *)
(* by the time of recording takes nothing that a reading by the time of    *)
(* the scores would serve.  What was deleted had Keep newer recordings in  *)
(* its group.  Of the Keep newest of those, which are all stored, at most  *)
(* Cached have scores newer than the reading asks for and at most Delay    *)
(* have scores older than what was deleted; the Serve that remain fill the *)
(* reading.                                                                *)
(***************************************************************************)
EXTENDS Recording, RiskHistory, FiniteSetTheorems, WellFoundedInduction, TLAPS

-----------------------------------------------------------------------------
(* The inductive invariant. *)

Asset == Bundle \cup {NoBundle, Partial}
Release == [twin : {0, 1, 2}, gw : Gameweeks \cup {0}, stage : Stages \cup {Actual},
            draft : BOOLEAN, note : Bundle \cup {NoBundle}, asset : Asset,
            assetAt : 0..MaxTime, publishedAt : 0..MaxTime]
Job == [phase : {"none", "recover", "slot", "actuals", "operator"},
        deadline : [Gameweeks -> 1..MaxTime], final : SUBSET Gameweeks,
        drafts : SUBSET Release, resumed : SUBSET Release,
        slot : (Gameweeks \X Stages) \cup {NoSlot}, todo : SUBSET Bundle,
        wanted : SUBSET Gameweeks, reserved : SUBSET Gameweeks,
        bundle : Bundle \cup {NoBundle}, release : Release, checkedAt : 0..MaxTime,
        news : SUBSET Gameweeks, errors : BOOLEAN, calm : BOOLEAN]

\* The calendar, and the types of the program's variables.
TypeInv ==
    /\ now \in 0..MaxTime /\ runs \in 0..MaxRuns /\ faults \in 0..MaxFaults
    /\ deadline \in [Gameweeks -> 1..MaxTime] /\ latest \in [Gameweeks -> 1..MaxTime]
    /\ final \subseteq Gameweeks
    /\ releases \subseteq Release /\ bundles \subseteq Bundle
    /\ pc \in [Actors -> Labels] /\ job \in [Actors -> Job]

\* A Gameweek is final after every deadline it ever had.
CalendarInv ==
    \A g \in Gameweeks : deadline[g] <= latest[g] /\ (g \in final => latest[g] < now)

\* What a candidate knows: a forecast is older than its deadline, which was announced,
\* and official points are of a final Gameweek.
Sound(b) ==
    /\ b \in Bundle /\ b.run <= runs
    /\ IF IsForecast(b) THEN b.captured < b.deadline /\ b.deadline <= latest[b.gw]
       ELSE b.gw \in final

\* A release or a copy of one: it holds nothing, a part, or what reserved it.
WellFormed(x) ==
    /\ x.twin \in {1, 2} /\ Sound(x.note)
    /\ x.gw = x.note.gw /\ x.stage = x.note.stage
    /\ x.asset \in {NoBundle, Partial, x.note}

Prompt(x) ==
    x.note.stage # Actual => x.assetAt < x.note.deadline /\ x.publishedAt < x.note.deadline

ReleasesInv ==
    /\ \A b \in bundles : Sound(b)
    /\ \A x \in releases : WellFormed(x) /\ (~x.draft => x.asset = x.note /\ Prompt(x))
    /\ \A x, y \in releases : x.gw = y.gw /\ x.stage = y.stage => x.note = y.note
    /\ \A x, y \in releases : x.note = y.note /\ x.twin = y.twin => x = y

\* GitHub still holds the asset a copy shows complete, unless the release is gone.
Agrees(c) ==
    /\ WellFormed(c)
    /\ IsBundle(c.asset) => \A y \in Current(c) : y.asset = c.asset /\ y.assetAt = c.assetAt

Filling   == {"upload", "confirm", "find"}
Finishing == {"finish", "patch"}
Making    == {"publish", "create"} \cup Filling

\* What an actor holds at a position, whichever it is.
Holds(a) ==
    LET j == job[a]
        b == job[a].bundle
    IN  /\ pc[a] = "idle" => j = NoJob
        /\ pc[a] \in Making \cup Finishing => Sound(b)
        /\ pc[a] = "create" => Tagged(b.gw, b.stage) = {}
        /\ pc[a] \in Filling => \A x \in Tagged(b.gw, b.stage) : x.note = b
        /\ pc[a] \in Finishing => Agrees(j.release) /\ j.release.note = b
        /\ pc[a] = "patch" =>
               /\ IsBundle(j.release.asset) /\ Valid(j.release, b)
               /\ j.checkedAt <= now /\ now <= j.checkedAt + 1
               /\ IsForecast(b) => b.deadline - j.checkedAt >= MinLead

\* Where the runner can be, and what it knows there.
RunnerInv ==
    LET j == job[Runner]
    IN  /\ pc[Runner] # "idle" => runs > 0 /\ j.phase \in {"recover", "slot", "actuals"}
        /\ pc[Runner] \in {"capture", "predict", "actuals"} => j.phase = "slot"
        /\ pc[Runner] \in Making => j.phase \in {"slot", "actuals"} /\ j.bundle.run = runs
        /\ pc[Runner] = "nextActual" => j.phase = "actuals"
        /\ pc[Runner] = "recover" => j.phase = "recover"
        /\ j.phase # "recover" => j.drafts = {}
        /\ j.phase # "actuals" => j.wanted = {} /\ j.todo = {}
        /\ \A x \in j.drafts : Agrees(x) /\ x.asset = x.note
        /\ \A b \in j.todo : Sound(b) /\ b.run = runs /\ b.stage = Actual
        /\ pc[Runner] = "capture" => j.slot # NoSlot
        /\ pc[Runner] = "predict" =>
               /\ j.bundle \in Bundle /\ j.bundle.run = runs /\ j.bundle.stage # Actual
               /\ j.bundle.deadline <= latest[j.bundle.gw]
        /\ j.final \subseteq final /\ j.news \subseteq final

\* The operator works on what a run that has ended left over.
OperatorInv ==
    LET b == job[Operator].bundle
    IN  /\ pc[Operator] \in {"idle", "upload", "find", "finish", "patch"}
        /\ pc[Operator] # "idle" => LeftOver(b) /\ job[Operator].phase = "operator"
        /\ pc[Operator] \in Filling => Tagged(b.gw, b.stage) # {}

\* While no error is reported, what a run found or wanted is published or in hand.
ProgressInv ==
    LET j == job[Runner]
        inHand(p) == j.phase = p /\ pc[Runner] \in {"predict"} \cup Making \cup Finishing
    IN  /\ pc[Runner] = "report" => j.errors
        /\ ~j.errors =>
              /\ \A x \in j.resumed :
                     IsPublished(x.gw, x.stage) \/ x \in j.drafts
                     \/ (inHand("recover") /\ x = j.release)
              /\ j.slot # NoSlot =>
                     IsPublished(j.slot[1], j.slot[2])
                     \/ pc[Runner] = "capture"
                     \/ (inHand("slot") /\ j.slot = <<j.bundle.gw, j.bundle.stage>>)
              /\ \A g \in j.wanted :
                     IsPublished(g, Actual) \/ (\E b \in j.todo : b.gw = g)
                     \/ (inHand("actuals") /\ j.bundle.gw = g /\ j.bundle.stage = Actual)

\* What was evaluated: of a Gameweek that is final, so that nothing can be published for
\* it in time any more.
EvaluatedInv ==
    \A e \in evaluated :
        /\ e.capture \in Bundle /\ e.capture.stage # Actual /\ e.capture.gw \in final

Core ==
    /\ TypeInv /\ CalendarInv /\ ReleasesInv /\ \A a \in Actors : Holds(a)
    /\ RunnerInv /\ OperatorInv /\ ProgressInv
IInv == Core /\ EvaluatedInv /\ HonestSuccess /\ EvaluatedFairly

-----------------------------------------------------------------------------
(* Types. *)

LEMMA Bounds == MaxTime \in Nat /\ MaxRuns \in Nat /\ MaxFaults \in Nat /\ Gameweeks \subseteq Nat \ {0}
  BY RecordingBounds, GameweekAssumption

LEMMA Blank ==
  /\ NoBundle \notin Bundle /\ Partial \notin Bundle /\ NoRelease \in Release /\ NoJob \in Job
  /\ NoSlot \notin Gameweeks \X Stages
  <1>1. NoBundle \notin Bundle /\ Partial \notin Bundle
    BY Bounds DEF NoBundle, Partial, Bundle
  <1>2. NoRelease \in Release
    BY Bounds DEF NoRelease, Release, Asset
  <1>3. NoJob \in Job
    BY <1>2, Bounds, CalendarAssumption DEF NoJob, Job
  <1>4. NoSlot \notin Gameweeks \X Stages
    BY Bounds DEF NoSlot
  <1> QED BY <1>1, <1>2, <1>3, <1>4

\* An actor goes on with a job.
LEMMA StepEffect ==
  ASSUME TypeInv, NEW a \in Actors, NEW label \in Labels, NEW j \in Job,
         Goto(a, label), job' = [job EXCEPT ![a] = j]
  PROVE  /\ pc' \in [Actors -> Labels] /\ job' \in [Actors -> Job]
         /\ pc'[a] = label /\ job'[a] = j
         /\ \A o \in Actors : o # a => pc'[o] = pc[o] /\ job'[o] = job[o]
  BY DEF TypeInv, Goto

\* An actor that ends a call is where it goes on, with nothing in hand.
LEMMA EndsEffect ==
  ASSUME TypeInv, NEW a \in Actors, NEW j \in Job, NEW good \in BOOLEAN, Ends(a, j, good)
  PROVE  /\ pc' \in [Actors -> Labels] /\ job' \in [Actors -> Job]
         /\ pc'[a] = Resume(a, good)
         /\ \A o \in Actors : o # a => pc'[o] = pc[o] /\ job'[o] = job[o]
         /\ Resume(a, good) = "idle" => job'[a] = NoJob
         /\ Resume(a, good) # "idle" =>
                /\ job'[a].phase = j.phase /\ job'[a].deadline = j.deadline
                /\ job'[a].final = j.final /\ job'[a].drafts = j.drafts
                /\ job'[a].resumed = j.resumed /\ job'[a].slot = j.slot
                /\ job'[a].todo = j.todo /\ job'[a].wanted = j.wanted
                /\ job'[a].news = j.news /\ job'[a].errors = j.errors
  <1> DEFINE J == [j EXCEPT !.bundle = NoBundle, !.release = NoRelease, !.checkedAt = 0]
  <1>0. 0 \in 0..MaxTime /\ NoBundle \in Bundle \cup {NoBundle} /\ NoRelease \in Release
    BY Blank, Bounds
  <1>1. J \in Job
    BY <1>0 DEF Job
  <1>2. Resume(a, good) \in Labels
    BY DEF Resume, Labels
  <1>3. /\ J.phase = j.phase /\ J.deadline = j.deadline /\ J.final = j.final
        /\ J.drafts = j.drafts /\ J.resumed = j.resumed /\ J.slot = j.slot
        /\ J.todo = j.todo /\ J.wanted = j.wanted /\ J.news = j.news /\ J.errors = j.errors
    BY DEF Job
  <1>4. job' = [job EXCEPT ![a] = IF Resume(a, good) = "idle" THEN NoJob ELSE J]
    BY DEF Ends
  <1>5. pc' = [pc EXCEPT ![a] = Resume(a, good)]
    BY DEF Ends, Goto
  <1> HIDE DEF J
  <1> QED BY <1>1, <1>2, <1>3, <1>4, <1>5, Blank DEF TypeInv

-----------------------------------------------------------------------------
(* What an actor that does not move relies on.                             *)

\* Nothing is taken back: runs are numbered, deadlines announced, Gameweeks final.
Steady ==
    /\ TypeInv /\ TypeInv' /\ runs <= runs' /\ final \subseteq final'
    /\ \A g \in Gameweeks : latest[g] <= latest'[g]

\* No draft is created, and a complete asset is never changed.
Evolved ==
    \A y \in releases' : \E x \in releases :
        /\ y.note = x.note /\ y.twin = x.twin /\ y.gw = x.gw /\ y.stage = x.stage
        /\ IsBundle(x.asset) => y.asset = x.asset /\ y.assetAt = x.assetAt

\* What is published stays as it is.
Preserved == \A x \in releases : ~x.draft => x \in releases'

\* No tag loses its last release.
Remains == \A x \in releases : \E y \in releases' : y.gw = x.gw /\ y.stage = x.stage

LEMMA SoundKept ==
  ASSUME Steady, NEW b, Sound(b)
  PROVE  /\ b \in Bundle /\ b.run <= runs'
         /\ IF IsForecast(b) THEN b.captured < b.deadline /\ b.deadline <= latest'[b.gw]
            ELSE b.gw \in final'
  <1>1. b \in Bundle /\ b.gw \in Gameweeks /\ b.deadline \in Int /\ b.run \in Int
    BY Bounds DEF Sound, Bundle
  <1>2. latest[b.gw] \in Int /\ latest'[b.gw] \in Int /\ latest[b.gw] <= latest'[b.gw]
    <2>1. latest \in [Gameweeks -> 1..MaxTime] /\ latest' \in [Gameweeks -> 1..MaxTime]
      BY DEF Steady, TypeInv
    <2>2. 1..MaxTime \subseteq Int
      BY Bounds
    <2> QED BY <1>1, <2>1, <2>2 DEF Steady
  <1>3. runs \in Int /\ runs' \in Int /\ runs <= runs'
    BY Bounds DEF Steady, TypeInv
  <1> QED BY <1>1, <1>2, <1>3 DEF Sound, Steady

LEMMA AgreesKept ==
  ASSUME Steady, Evolved, NEW c, Agrees(c)
  PROVE  Agrees(c)'
  <1>1. WellFormed(c)'
    BY SoundKept DEF Agrees, WellFormed, Sound
  <1>2. ASSUME IsBundle(c.asset), NEW y \in releases', y.note = c.note, y.twin = c.twin
        PROVE  y.asset = c.asset /\ y.assetAt = c.assetAt
    <2>1. PICK x \in releases :
              /\ y.note = x.note /\ y.twin = x.twin
              /\ IsBundle(x.asset) => y.asset = x.asset /\ y.assetAt = x.assetAt
      BY <1>2 DEF Evolved
    <2>2. x.asset = c.asset /\ x.assetAt = c.assetAt
      BY <1>2, <2>1 DEF Agrees, Current
    <2> QED BY <1>2, <2>1, <2>2
  <1> QED BY <1>1, <1>2 DEF Agrees, Current

LEMMA PublishedKept ==
  ASSUME Preserved, NEW g, NEW s, IsPublished(g, s)
  PROVE  IsPublished(g, s)'
  BY DEF Preserved, IsPublished, Tagged

\* An actor at rest keeps what it holds.
LEMMA HoldsKept ==
  ASSUME Steady, Evolved, NEW o \in Actors, Holds(o), pc'[o] = pc[o], job'[o] = job[o],
         pc[o] = "patch" => now <= now' /\ now' <= job[o].checkedAt + 1
  PROVE  Holds(o)'
  <1>1. pc[o] \in Making \cup Finishing => Sound(job[o].bundle)'
    BY SoundKept DEF Holds, Sound
  <1>2. pc[o] = "create" => Tagged(job[o].bundle.gw, job[o].bundle.stage)' = {}
    BY DEF Holds, Tagged, Evolved
  <1>3. pc[o] \in Filling =>
            \A x \in Tagged(job[o].bundle.gw, job[o].bundle.stage)' : x.note = job[o].bundle
    BY DEF Holds, Tagged, Evolved
  <1>4. pc[o] \in Finishing => Agrees(job[o].release)'
    BY AgreesKept DEF Holds, Agrees, WellFormed, Current, Sound
  <1>5. pc[o] = "patch" => job[o].checkedAt <= now' /\ now' <= job[o].checkedAt + 1
    BY Bounds DEF Holds, Steady, TypeInv, Job
  <1> QED BY <1>1, <1>2, <1>3, <1>4, <1>5 DEF Holds

LEMMA RunnerKept ==
  ASSUME Steady, Evolved, RunnerInv, runs' = runs, pc'[Runner] = pc[Runner],
         job'[Runner] = job[Runner]
  PROVE  RunnerInv'
  <1> DEFINE j == job[Runner]
  <1>1. \A x \in j.drafts : Agrees(x)' /\ x.asset = x.note
    BY AgreesKept DEF RunnerInv
  <1>2. \A b \in j.todo : Sound(b)' /\ b.run = runs /\ b.stage = Actual
    BY SoundKept DEF RunnerInv, Sound
  <1>3. pc[Runner] = "predict" =>
            /\ j.bundle \in Bundle /\ j.bundle.run = runs /\ j.bundle.stage # Actual
            /\ j.bundle.deadline <= latest'[j.bundle.gw]
    <2> SUFFICES ASSUME pc[Runner] = "predict" PROVE j.bundle.deadline <= latest'[j.bundle.gw]
      BY DEF RunnerInv
    <2>1. j.bundle.gw \in Gameweeks /\ j.bundle.deadline \in Int
      BY Bounds DEF RunnerInv, Bundle
    <2>2. latest \in [Gameweeks -> 1..MaxTime] /\ latest' \in [Gameweeks -> 1..MaxTime]
      BY DEF Steady, TypeInv
    <2>3. 1..MaxTime \subseteq Int
      BY Bounds
    <2> QED BY <2>1, <2>2, <2>3 DEF Steady, RunnerInv
  <1> QED BY <1>1, <1>2, <1>3 DEF RunnerInv, Steady

LEMMA ProgressKept ==
  ASSUME Preserved, ProgressInv, pc'[Runner] = pc[Runner], job'[Runner] = job[Runner]
  PROVE  ProgressInv'
  <1>1. \A g, s : IsPublished(g, s) => IsPublished(g, s)'
    BY PublishedKept
  <1> QED BY <1>1 DEF ProgressInv

\* The run that left the operator's candidate over does not come back.
LEMMA OperatorKept ==
  ASSUME Steady, Remains, OperatorInv, Holds(Operator), pc'[Operator] = pc[Operator],
         job'[Operator] = job[Operator],
         pc[Runner] = "idle" => pc'[Runner] = "idle" \/ runs < runs'
  PROVE  OperatorInv'
  <1> DEFINE b == job[Operator].bundle
  <1>1. pc[Operator] # "idle" => LeftOver(b)'
    <2> SUFFICES ASSUME pc[Operator] # "idle" PROVE LeftOver(b)'
      OBVIOUS
    <2>1. b \in Bundle /\ b.run <= runs /\ LeftOver(b)
      BY DEF OperatorInv, Holds, Making, Filling, Finishing, Sound
    <2>2. b.run \in Int /\ runs \in Int /\ runs' \in Int /\ runs <= runs'
      BY <2>1, Bounds DEF Steady, TypeInv, Bundle
    <2> QED BY <2>1, <2>2 DEF LeftOver
  <1>2. pc[Operator] \in Filling => Tagged(b.gw, b.stage)' # {}
    BY DEF OperatorInv, Remains, Tagged
  <1> QED BY <1>1, <1>2 DEF OperatorInv

LEMMA CalendarSteady ==
  ASSUME TypeInv, TypeInv', UNCHANGED <<official, runs>>
  PROVE  Steady
  <1>1. latest \in [Gameweeks -> 1..MaxTime] /\ 1..MaxTime \subseteq Int /\ runs \in Int
    BY Bounds DEF TypeInv
  <1> QED BY <1>1 DEF Steady, official

\* A step of one actor that leaves GitHub and the calendar alone.
LEMMA QuietStep ==
  ASSUME Core, NEW a \in Actors, UNCHANGED <<now, official, releases, runs>>,
         bundles' \subseteq Bundle, \A b \in bundles' : Sound(b), faults' \in 0..MaxFaults,
         pc' \in [Actors -> Labels], job' \in [Actors -> Job],
         \A o \in Actors : o # a => pc'[o] = pc[o] /\ job'[o] = job[o],
         Holds(a)',
         a = Runner => pc[Runner] # "idle" /\ RunnerInv' /\ ProgressInv',
         a = Operator => OperatorInv'
  PROVE  Core'
  <1>1. TypeInv'
    BY DEF Core, TypeInv, official
  <1>2. Steady
    BY <1>1, CalendarSteady DEF Core
  <1>3. Evolved /\ Preserved /\ Remains
    BY DEF Evolved, Preserved, Remains
  <1>4. CalendarInv'
    BY DEF Core, CalendarInv, official
  <1>5. ReleasesInv'
    BY DEF Core, ReleasesInv, WellFormed, Sound, Prompt, official
  <1>6. ASSUME NEW o \in Actors, o # a PROVE Holds(o)'
    <2>1. pc[o] = "patch" => now <= now' /\ now' <= job[o].checkedAt + 1
      BY Bounds DEF Core, Holds, TypeInv
    <2> QED BY <1>2, <1>3, <1>6, <2>1, HoldsKept DEF Core
  <1>7. RunnerInv' /\ ProgressInv'
    BY <1>2, <1>3, RunnerKept, ProgressKept DEF Core, Actors
  <1>8. OperatorInv'
    BY <1>2, <1>3, OperatorKept DEF Core, Actors, Runner, Operator
  <1> QED BY <1>1, <1>4, <1>5, <1>6, <1>7, <1>8 DEF Core

\* An actor with nothing in hand, at a position that needs nothing.
Resting == {"idle", "recover", "actuals", "nextActual", "report"}

\* The runner after a call: it goes on with what it knows and nothing in hand.
LEMMA RunnerEnds ==
  ASSUME Core, Steady, runs' = runs, pc[Runner] # "idle", NEW j \in Job, NEW good \in BOOLEAN,
         Ends(Runner, j, good), j.phase = job[Runner].phase, j.drafts = job[Runner].drafts,
         j.wanted = job[Runner].wanted, j.todo = job[Runner].todo,
         j.final \subseteq final, j.news \subseteq final,
         \A x \in job[Runner].drafts : Agrees(x)'
  PROVE  /\ Holds(Runner)' /\ RunnerInv' /\ pc'[Runner] \in Resting \ {"idle"}
         /\ j.errors => ProgressInv'
  <1>1. TypeInv /\ Runner \in Actors /\ RunnerInv
    BY DEF Core, Actors
  <1>2. job[Runner].phase \in {"recover", "slot", "actuals"}
    BY <1>1 DEF RunnerInv
  <1>3. /\ pc'[Runner] = Resume(Runner, good)
        /\ Resume(Runner, good) \in {"recover", "actuals", "nextActual", "report"}
        /\ job[Runner].phase = "recover" => Resume(Runner, good) = "recover"
        /\ job[Runner].phase = "slot" => Resume(Runner, good) = "actuals"
        /\ job[Runner].phase = "actuals" => Resume(Runner, good) \in {"nextActual", "report"}
    BY <1>1, <1>2, EndsEffect DEF Resume
  <1>4. /\ job'[Runner].phase = j.phase /\ job'[Runner].final = j.final
        /\ job'[Runner].drafts = j.drafts /\ job'[Runner].todo = j.todo
        /\ job'[Runner].wanted = j.wanted /\ job'[Runner].news = j.news
        /\ job'[Runner].errors = j.errors
    BY <1>1, <1>3, EndsEffect
  <1>5. Holds(Runner)'
    BY <1>3 DEF Holds, Making, Filling, Finishing
  <1>6. \A b \in j.todo : Sound(b)' /\ b.run = runs /\ b.stage = Actual
    BY <1>1, SoundKept DEF RunnerInv, Sound
  <1>7. RunnerInv'
    BY <1>1, <1>2, <1>3, <1>4, <1>6 DEF RunnerInv, Making, Filling, Steady
  <1>8. j.errors => ProgressInv'
    BY <1>4 DEF ProgressInv
  <1> QED BY <1>3, <1>4, <1>5, <1>7, <1>8 DEF Resting

LEMMA OperatorEnds ==
  ASSUME Core, pc[Operator] # "idle", NEW j \in Job, NEW good \in BOOLEAN,
         Ends(Operator, j, good)
  PROVE  Holds(Operator)' /\ OperatorInv'
  <1>1. TypeInv /\ Operator \in Actors /\ job[Operator].phase = "operator"
    BY DEF Core, Actors, OperatorInv
  <1>2. pc'[Operator] = "idle" /\ job'[Operator] = NoJob
    BY <1>1, EndsEffect DEF Resume
  <1> QED BY <1>2 DEF Holds, OperatorInv, Making, Filling, Finishing

\* A failure is an end with an error.
LEMMA FailureEnds ==
  ASSUME TypeInv, NEW a \in Actors, Fails(a) \/ Breaks(a)
  PROVE  \E j \in Job :
            /\ Ends(a, j, FALSE) /\ j.errors /\ j.phase = job[a].phase
            /\ j.drafts = job[a].drafts /\ j.wanted = job[a].wanted /\ j.todo = job[a].todo
            /\ j.final = job[a].final /\ j.news = job[a].news
  <1>1. job[a] \in Job
    BY DEF TypeInv
  <1>2. CASE Fails(a)
    <2> DEFINE J == [job[a] EXCEPT !.errors = TRUE]
    <2>1. Ends(a, J, FALSE)
      BY <1>2 DEF Fails
    <2>2. /\ J \in Job /\ J.errors /\ J.phase = job[a].phase /\ J.drafts = job[a].drafts
          /\ J.wanted = job[a].wanted /\ J.todo = job[a].todo
          /\ J.final = job[a].final /\ J.news = job[a].news
      BY <1>1 DEF Job
    <2> HIDE DEF J
    <2> QED BY <2>1, <2>2
  <1>3. CASE Breaks(a)
    <2> DEFINE J == [job[a] EXCEPT !.errors = TRUE, !.calm = FALSE]
    <2>1. Ends(a, J, FALSE)
      BY <1>3 DEF Breaks
    <2>2. /\ J \in Job /\ J.errors /\ J.phase = job[a].phase /\ J.drafts = job[a].drafts
          /\ J.wanted = job[a].wanted /\ J.todo = job[a].todo
          /\ J.final = job[a].final /\ J.news = job[a].news
      BY <1>1 DEF Job
    <2> HIDE DEF J
    <2> QED BY <2>1, <2>2
  <1> QED BY <1>2, <1>3

\* An actor gives up: an error, or the operator's command ends.
LEMMA GivesUp ==
  ASSUME Core, NEW a \in Actors, pc[a] # "idle", Fails(a) \/ Breaks(a),
         UNCHANGED <<now, official, releases, runs>>,
         bundles' \subseteq Bundle, \A b \in bundles' : Sound(b), faults' \in 0..MaxFaults
  PROVE  Core'
  <1>1. PICK j \in Job :
            /\ Ends(a, j, FALSE) /\ j.errors /\ j.phase = job[a].phase
            /\ j.drafts = job[a].drafts /\ j.wanted = job[a].wanted /\ j.todo = job[a].todo
            /\ j.final = job[a].final /\ j.news = job[a].news
    BY FailureEnds DEF Core
  <1>2. /\ pc' \in [Actors -> Labels] /\ job' \in [Actors -> Job]
        /\ \A o \in Actors : o # a => pc'[o] = pc[o] /\ job'[o] = job[o]
    BY <1>1, EndsEffect DEF Core
  <1>3. TypeInv' /\ Steady
    <2>1. TypeInv'
      BY <1>2 DEF Core, TypeInv, official
    <2> QED BY <2>1, CalendarSteady DEF Core
  <1>4. CASE a = Runner
    <2>1. Evolved
      BY DEF Evolved
    <2>2. \A x \in job[Runner].drafts : Agrees(x)'
      BY <1>3, <2>1, AgreesKept DEF Core, RunnerInv
    <2>3. j.final \subseteq final /\ j.news \subseteq final
      BY <1>1, <1>4 DEF Core, RunnerInv
    <2>4. Holds(Runner)' /\ RunnerInv' /\ ProgressInv'
      BY <1>1, <1>3, <1>4, <2>2, <2>3, RunnerEnds
    <2> QED BY <1>2, <1>4, <2>4, QuietStep DEF Runner, Operator
  <1>5. CASE a = Operator
    <2>1. Holds(Operator)' /\ OperatorInv'
      BY <1>1, <1>5, OperatorEnds
    <2> QED BY <1>2, <1>5, <2>1, QuietStep DEF Runner, Operator
  <1> QED BY <1>4, <1>5 DEF Actors

\* A step of the runner alone.
LEMMA RunnerStep ==
  ASSUME Core, NEW label \in Labels, NEW j \in Job, pc[Runner] # "idle", Local,
         releases' = releases, bundles' \subseteq Bundle, \A b \in bundles' : Sound(b),
         faults' \in 0..MaxFaults, Goto(Runner, label), job' = [job EXCEPT ![Runner] = j],
         Holds(Runner)', RunnerInv', ProgressInv'
  PROVE  Core'
  <1>1. TypeInv /\ Runner \in Actors /\ Runner # Operator
    BY DEF Core, Actors, Runner, Operator
  <1>2. /\ pc' \in [Actors -> Labels] /\ job' \in [Actors -> Job]
        /\ \A o \in Actors : o # Runner => pc'[o] = pc[o] /\ job'[o] = job[o]
    BY <1>1, StepEffect
  <1> QED BY <1>1, <1>2, QuietStep DEF Local

\* The runner resumes the drafts its run found uploaded, as it saw them.
LEMMA ResumeDraftStep ==
  ASSUME Core, NEW a \in Actors, ResumeDraft(a)
  PROVE  Core'
  <1>1. /\ a = Runner /\ pc[Runner] = "recover" /\ Goto(Runner, "finish")
        /\ Local /\ UNCHANGED <<releases, bundles, faults>>
    BY DEF ResumeDraft
  <1>2. job[a] \in Job /\ Runner \in Actors /\ TypeInv
    BY DEF Core, TypeInv, Actors
  <1>3. PICK x \in job[a].drafts :
            job' = [job EXCEPT ![a] = [job[a] EXCEPT !.drafts = job[a].drafts \ {x}, !.release = x,
                                                     !.bundle = x.asset]]
    BY Zenon DEF ResumeDraft
  <1> DEFINE j == [job[a] EXCEPT !.drafts = job[a].drafts \ {x}, !.release = x,
                                 !.bundle = x.asset]
  <1>4. job' = [job EXCEPT ![a] = j]
    BY <1>3
  <1>5. x \in Release /\ Agrees(x) /\ x.asset = x.note /\ x.note \in Bundle /\ Sound(x.note)
    BY <1>1, <1>2 DEF Job, Core, RunnerInv, Agrees, WellFormed, Sound
  <1>6. /\ j \in Job /\ j.drafts = job[a].drafts \ {x} /\ j.release = x
        /\ j.bundle = x.asset /\ j.phase = job[a].phase /\ j.final = job[a].final
        /\ j.todo = job[a].todo /\ j.wanted = job[a].wanted
        /\ j.news = job[a].news /\ j.errors = job[a].errors
        /\ j.slot = job[a].slot /\ j.resumed = job[a].resumed
    BY <1>2, <1>5 DEF Job
  <1> HIDE DEF j
  <1>7. "finish" \in Labels
    BY DEF Labels
  <1>8. pc'[Runner] = "finish" /\ job'[Runner] = j
    BY <1>1, <1>2, <1>4, <1>6, <1>7, StepEffect
  <1>9. Holds(Runner)'
    BY <1>1, <1>5, <1>6, <1>8
       DEF Holds, Making, Filling, Finishing, Agrees, WellFormed, Sound, Current, Local, official
  <1>10. RunnerInv'
    BY <1>1, <1>6, <1>8
       DEF Core, RunnerInv, Making, Filling, Agrees, WellFormed, Sound, Current, Local, official
  <1>11. ProgressInv'
    BY <1>1, <1>6, <1>8
       DEF Core, RunnerInv, ProgressInv, Making, Filling, Finishing, IsPublished, Tagged
  <1>12. bundles' \subseteq Bundle /\ (\A b \in bundles' : Sound(b)) /\ faults' \in 0..MaxFaults
    BY <1>1 DEF Core, TypeInv, ReleasesInv
  <1> QED BY <1>1, <1>4, <1>6, <1>7, <1>9, <1>10, <1>11, <1>12, RunnerStep

LEMMA DueSlotType ==
  ASSUME NEW d, NEW t
  PROVE  DueSlot(d, t) \in (Gameweeks \X Stages) \cup {NoSlot}
  <1>1. DueSlots(d, t) \subseteq Gameweeks \X Stages
    BY DEF DueSlots
  <1> QED BY <1>1 DEF DueSlot

\* The due slot is looked for when every draft the run found has been resumed.
LEMMA CheckSlotStep ==
  ASSUME Core, NEW a \in Actors, CheckSlot(a)
  PROVE  Core'
  <1> DEFINE slot == DueSlot(job[a].deadline, now)
             j == [job[a] EXCEPT !.phase = "slot", !.slot = slot]
             e == [j EXCEPT !.errors = TRUE]
  <1>1. /\ a = Runner /\ pc[Runner] = "recover" /\ job[a].drafts = {}
        /\ Local /\ UNCHANGED <<releases, bundles, faults>>
    BY DEF CheckSlot
  <1>2. job[a] \in Job /\ Runner \in Actors /\ TypeInv
    BY DEF Core, TypeInv, Actors
  <1>3. slot \in (Gameweeks \X Stages) \cup {NoSlot}
    BY DueSlotType
  <1>4. \/ slot = NoSlot /\ Goto(a, "actuals") /\ job' = [job EXCEPT ![a] = j]
        \/ Goto(a, "actuals") /\ job' = [job EXCEPT ![a] = e]
        \/ slot # NoSlot /\ Goto(a, "capture") /\ job' = [job EXCEPT ![a] = j]
    BY DEF CheckSlot
  <1> HIDE DEF slot
  <1>5. /\ j \in Job /\ j.phase = "slot" /\ j.slot = slot /\ j.drafts = job[a].drafts
        /\ j.final = job[a].final /\ j.todo = job[a].todo /\ j.wanted = job[a].wanted
        /\ j.news = job[a].news /\ j.errors = job[a].errors /\ j.resumed = job[a].resumed
    BY <1>2, <1>3 DEF Job
  <1> HIDE DEF j
  <1>6. /\ e \in Job /\ e.phase = "slot" /\ e.drafts = job[a].drafts /\ e.errors
        /\ e.final = job[a].final /\ e.todo = job[a].todo /\ e.wanted = job[a].wanted
        /\ e.news = job[a].news
    BY <1>5 DEF Job
  <1> HIDE DEF e
  <1>7. {"actuals", "capture"} \subseteq Labels
    BY DEF Labels
  <1>8. bundles' \subseteq Bundle /\ (\A b \in bundles' : Sound(b)) /\ faults' \in 0..MaxFaults
    BY <1>1 DEF Core, TypeInv, ReleasesInv
  <1>9. ASSUME NEW label \in {"actuals", "capture"}, NEW J \in {j, e},
               Goto(a, label), job' = [job EXCEPT ![a] = J],
               label = "capture" => slot # NoSlot /\ J = j,
               label = "actuals" => slot = NoSlot \/ J = e
        PROVE  Core'
    <2>1. pc'[Runner] = label /\ job'[Runner] = J
      BY <1>1, <1>2, <1>5, <1>6, <1>7, <1>9, StepEffect
    <2>2. Holds(Runner)'
      BY <1>9, <2>1 DEF Holds, Making, Filling, Finishing
    <2>3. RunnerInv'
      BY <1>1, <1>5, <1>6, <1>9, <2>1 DEF Core, RunnerInv, Making, Filling, Local, official
    <2>4. ProgressInv'
      BY <1>1, <1>5, <1>6, <1>9, <2>1
         DEF Core, RunnerInv, ProgressInv, Making, Filling, Finishing, IsPublished, Tagged
    <2> QED BY <1>1, <1>5, <1>6, <1>7, <1>8, <1>9, <2>2, <2>3, <2>4, RunnerStep
  <1> QED BY <1>4, <1>9

\* Only the runner captures, collects and reports.
LEMMA RunnersAlone ==
  ASSUME Core, NEW a \in Actors, pc[a] \notin {"idle", "upload", "find", "finish", "patch"}
  PROVE  a = Runner /\ pc[Runner] # "idle"
  BY DEF Core, OperatorInv, Actors

LEMMA FaultBound ==
  ASSUME TypeInv, Fault
  PROVE  faults' \in 0..MaxFaults
  BY Bounds DEF TypeInv, Fault

LEMMA CaptureFetchStep ==
  ASSUME Core, NEW a \in Actors, CaptureFetch(a)
  PROVE  Core'
  <1>1. a = Runner /\ pc[Runner] = "capture"
    BY RunnersAlone DEF CaptureFetch
  <1>2. job[a] \in Job /\ Runner \in Actors /\ TypeInv
    BY DEF Core, TypeInv, Actors
  <1>3. Local /\ UNCHANGED <<releases, bundles>>
    BY DEF CaptureFetch
  <1>4. bundles' \subseteq Bundle /\ (\A b \in bundles' : Sound(b))
    BY <1>3 DEF Core, TypeInv, ReleasesInv
  <1>5. CASE (Fails(a) /\ UNCHANGED faults) \/ Breaks(a)
    <2>1. faults' \in 0..MaxFaults
      BY <1>2, <1>5, FaultBound DEF Breaks, TypeInv
    <2> QED BY <1>1, <1>2, <1>3, <1>4, <1>5, <2>1, GivesUp DEF Local
  <1>6. CASE /\ Goto(a, "predict") /\ UNCHANGED faults
             /\ job' = [job EXCEPT ![a].bundle =
                           [gw |-> job[a].slot[1], stage |-> job[a].slot[2], run |-> runs,
                            captured |-> now, deadline |-> deadline[job[a].slot[1]]]]
    <2> DEFINE b == [gw |-> job[a].slot[1], stage |-> job[a].slot[2], run |-> runs,
                     captured |-> now, deadline |-> deadline[job[a].slot[1]]]
               j == [job[a] EXCEPT !.bundle = b]
    <2>1. job[a].slot \in Gameweeks \X Stages
      BY <1>1, <1>2 DEF Core, RunnerInv, Job
    <2>2. b \in Bundle /\ b.stage # Actual /\ b.run = runs /\ b.deadline = deadline[b.gw]
      <3>1. runs \in 1..MaxRuns /\ now \in 0..MaxTime
        BY <1>1, <1>2, Bounds DEF Core, RunnerInv, TypeInv
      <3>2. deadline[job[a].slot[1]] \in 0..MaxTime
        <4>1. deadline \in [Gameweeks -> 1..MaxTime] /\ job[a].slot[1] \in Gameweeks
          BY <1>2, <2>1 DEF TypeInv
        <4>2. deadline[job[a].slot[1]] \in 1..MaxTime
          BY <4>1
        <4> QED BY <4>2, Bounds
      <3> QED BY <2>1, <3>1, <3>2, StageAssumption DEF Bundle
    <2>3. b.deadline <= latest[b.gw] /\ job[a].slot = <<b.gw, b.stage>>
      BY <2>1, <2>2 DEF Core, CalendarInv, Bundle
    <2>4. job' = [job EXCEPT ![a] = j] /\ Goto(a, "predict")
      BY <1>6
    <2> HIDE DEF b
    <2>5. /\ j \in Job /\ j.phase = job[a].phase /\ j.slot = job[a].slot /\ j.bundle = b
          /\ j.drafts = job[a].drafts /\ j.final = job[a].final /\ j.todo = job[a].todo
          /\ j.wanted = job[a].wanted /\ j.news = job[a].news /\ j.errors = job[a].errors
          /\ j.resumed = job[a].resumed
      BY <1>2, <2>2 DEF Job
    <2> HIDE DEF j
    <2>6. "predict" \in Labels
      BY DEF Labels
    <2>7. pc'[Runner] = "predict" /\ job'[Runner] = j
      BY <1>1, <1>2, <2>4, <2>5, <2>6, StepEffect
    <2>8. Holds(Runner)'
      BY <2>7 DEF Holds, Making, Filling, Finishing
    <2>9. RunnerInv'
      BY <1>1, <1>3, <2>2, <2>3, <2>5, <2>7
         DEF Core, RunnerInv, Making, Filling, Local, official, Agrees, WellFormed, Sound, Current
    <2>10. ProgressInv'
      BY <1>1, <1>3, <2>2, <2>3, <2>5, <2>7
         DEF Core, RunnerInv, ProgressInv, Making, Filling, Finishing, IsPublished, Tagged
    <2>11. faults' \in 0..MaxFaults
      BY <1>2, <1>6 DEF TypeInv
    <2> QED BY <1>1, <1>3, <1>4, <2>4, <2>5, <2>6, <2>8, <2>9, <2>10, <2>11, RunnerStep
  <1> QED BY <1>5, <1>6 DEF CaptureFetch

LEMMA SameJob ==
  ASSUME TypeInv, job' = job, NEW a \in Actors
  PROVE  job' = [job EXCEPT ![a] = job[a]] /\ job[a] \in Job
  BY DEF TypeInv

\* A forecast that is complete before its deadline becomes a candidate.
LEMMA CaptureDoneStep ==
  ASSUME Core, NEW a \in Actors, CaptureDone(a)
  PROVE  Core'
  <1>1. a = Runner /\ pc[Runner] = "predict"
    BY RunnersAlone DEF CaptureDone
  <1>2. job[a] \in Job /\ Runner \in Actors /\ TypeInv
    BY DEF Core, TypeInv, Actors
  <1>3. Local /\ releases' = releases
    BY DEF CaptureDone
  <1> DEFINE b == [job[a].bundle EXCEPT !.captured = now]
             j == [job[a] EXCEPT !.bundle = b]
  <1>4. CASE (Fails(a) /\ UNCHANGED <<bundles, faults>>) \/ (Breaks(a) /\ UNCHANGED bundles)
    <2>1. faults' \in 0..MaxFaults
      BY <1>2, <1>4, FaultBound DEF Breaks, TypeInv
    <2>2. bundles' \subseteq Bundle /\ (\A c \in bundles' : Sound(c))
      BY <1>4 DEF Core, TypeInv, ReleasesInv
    <2> QED BY <1>1, <1>2, <1>3, <1>4, <2>1, <2>2, GivesUp DEF Local
  <1>5. CASE /\ now < b.deadline /\ bundles' = bundles \cup {b} /\ UNCHANGED faults
             /\ Goto(a, "publish") /\ job' = [job EXCEPT ![a].bundle = b]
    <2>1. /\ job[a].bundle \in Bundle /\ job[a].bundle.run = runs
          /\ job[a].bundle.stage # Actual
          /\ job[a].bundle.deadline <= latest[job[a].bundle.gw]
      BY <1>1 DEF Core, RunnerInv
    <2>2. now \in 0..MaxTime /\ runs \in Int
      BY <1>2, Bounds DEF TypeInv
    <2>3. /\ b \in Bundle /\ b.run = runs /\ b.captured = now /\ b.gw = job[a].bundle.gw
          /\ b.stage = job[a].bundle.stage /\ b.deadline = job[a].bundle.deadline
      BY <2>1, <2>2 DEF Bundle
    <2>4. job' = [job EXCEPT ![a] = j] /\ Goto(a, "publish") /\ bundles' = bundles \cup {b}
          /\ now < b.deadline /\ faults' = faults
      BY <1>5
    <2> HIDE DEF b
    <2>5. Sound(b)
      BY <2>1, <2>2, <2>3, <2>4 DEF Sound, IsForecast
    <2>6. /\ j \in Job /\ j.phase = job[a].phase /\ j.slot = job[a].slot /\ j.bundle = b
          /\ j.drafts = job[a].drafts /\ j.final = job[a].final /\ j.todo = job[a].todo
          /\ j.wanted = job[a].wanted /\ j.news = job[a].news /\ j.errors = job[a].errors
          /\ j.resumed = job[a].resumed
      BY <1>2, <2>3 DEF Job
    <2> HIDE DEF j
    <2>7. "publish" \in Labels
      BY DEF Labels
    <2>8. pc'[Runner] = "publish" /\ job'[Runner] = j
      BY <1>1, <1>2, <2>4, <2>6, <2>7, StepEffect
    <2>9. Holds(Runner)'
      BY <1>3, <2>5, <2>6, <2>8 DEF Holds, Making, Filling, Finishing, Sound, Local, official
    <2>10. RunnerInv'
      BY <1>1, <1>3, <2>3, <2>6, <2>8
         DEF Core, RunnerInv, Making, Filling, Local, official, Agrees, WellFormed, Sound, Current
    <2>11. ProgressInv'
      BY <1>1, <1>3, <2>3, <2>6, <2>8
         DEF Core, RunnerInv, ProgressInv, Making, Filling, Finishing, IsPublished, Tagged
    <2>12. /\ bundles' \subseteq Bundle /\ (\A c \in bundles' : Sound(c))
           /\ faults' \in 0..MaxFaults
      BY <2>3, <2>4, <2>5 DEF Core, TypeInv, ReleasesInv
    <2> QED BY <1>1, <1>3, <2>4, <2>6, <2>7, <2>9, <2>10, <2>11, <2>12, RunnerStep
  <1> QED BY <1>4, <1>5 DEF CaptureDone

LEMMA LookupFound ==
  ASSUME NEW g, NEW s
  PROVE  /\ Lookup(g, s) \subseteq Tagged(g, s) /\ Lookup(g, s) \subseteq releases
         /\ Lookup(g, s) = {} => Tagged(g, s) = {}
  BY DEF Lookup, Tagged, IsPublished

LEMMA PublishStep ==
  ASSUME Core, NEW a \in Actors, Publish(a)
  PROVE  Core'
  <1>1. a = Runner /\ pc[Runner] = "publish"
    BY RunnersAlone DEF Publish
  <1>2. job[a] \in Job /\ Runner \in Actors /\ TypeInv
    BY DEF Core, TypeInv, Actors
  <1>3. Local /\ UNCHANGED <<releases, bundles, faults>>
    BY DEF Publish
  <1>4. bundles' \subseteq Bundle /\ (\A b \in bundles' : Sound(b)) /\ faults' \in 0..MaxFaults
    BY <1>3 DEF Core, TypeInv, ReleasesInv
  <1>5. CASE Fails(a)
    BY <1>1, <1>2, <1>3, <1>4, <1>5, GivesUp DEF Local
  <1>6. CASE /\ Lookup(job[a].bundle.gw, job[a].bundle.stage) = {}
             /\ Goto(a, "create") /\ UNCHANGED job
    <2>1. "create" \in Labels /\ job' = [job EXCEPT ![a] = job[a]]
      BY <1>2, <1>6, SameJob DEF Labels
    <2>2. pc'[Runner] = "create" /\ job'[Runner] = job[a]
      BY <1>1, <1>2, <1>6, <2>1, StepEffect
    <2>3. Tagged(job[a].bundle.gw, job[a].bundle.stage) = {}
      BY <1>6, LookupFound
    <2>4. Holds(Runner)'
      BY <1>1, <1>2, <1>3, <2>2, <2>3
         DEF Core, Holds, Making, Filling, Finishing, Sound, Local, official, Tagged
    <2>5. RunnerInv'
      BY <1>1, <1>3, <2>2
         DEF Core, RunnerInv, Making, Filling, Local, official, Agrees, WellFormed, Sound, Current
    <2>6. ProgressInv'
      BY <1>1, <1>3, <2>2
         DEF Core, RunnerInv, ProgressInv, Making, Filling, Finishing, IsPublished, Tagged
    <2> QED BY <1>1, <1>2, <1>3, <1>4, <1>6, <2>1, <2>4, <2>5, <2>6, RunnerStep
  <1> QED BY <1>5, <1>6 DEF Publish

LEMMA ConfirmStep ==
  ASSUME Core, NEW a \in Actors, Confirm(a)
  PROVE  Core'
  <1>1. a = Runner /\ pc[Runner] = "confirm"
    BY RunnersAlone DEF Confirm
  <1>2. job[a] \in Job /\ Runner \in Actors /\ TypeInv
    BY DEF Core, TypeInv, Actors
  <1>3. Local /\ UNCHANGED <<releases, bundles, faults>>
    BY DEF Confirm
  <1>4. bundles' \subseteq Bundle /\ (\A b \in bundles' : Sound(b)) /\ faults' \in 0..MaxFaults
    BY <1>3 DEF Core, TypeInv, ReleasesInv
  <1>5. CASE Fails(a)
    BY <1>1, <1>2, <1>3, <1>4, <1>5, GivesUp DEF Local
  <1>6. CASE Goto(a, "find") /\ UNCHANGED job
    <2>1. "find" \in Labels /\ job' = [job EXCEPT ![a] = job[a]]
      BY <1>2, <1>6, SameJob DEF Labels
    <2>2. pc'[Runner] = "find" /\ job'[Runner] = job[a]
      BY <1>1, <1>2, <1>6, <2>1, StepEffect
    <2>4. Holds(Runner)'
      BY <1>1, <1>2, <1>3, <2>2
         DEF Core, Holds, Making, Filling, Finishing, Sound, Local, official, Tagged
    <2>5. RunnerInv'
      BY <1>1, <1>3, <2>2
         DEF Core, RunnerInv, Making, Filling, Local, official, Agrees, WellFormed, Sound, Current
    <2>6. ProgressInv'
      BY <1>1, <1>3, <2>2
         DEF Core, RunnerInv, ProgressInv, Making, Filling, Finishing, IsPublished, Tagged
    <2> QED BY <1>1, <1>2, <1>3, <1>4, <1>6, <2>1, <2>4, <2>5, <2>6, RunnerStep
  <1> QED BY <1>5, <1>6 DEF Confirm

\* The operator's command ends, or is killed.
LEMMA OperatorStops ==
  ASSUME Core, Goto(Operator, "idle"), job' = [job EXCEPT ![Operator] = NoJob],
         UNCHANGED <<now, official, releases, bundles, runs>>, faults' \in 0..MaxFaults
  PROVE  Core'
  <1>1. Operator \in Actors /\ Operator # Runner /\ TypeInv /\ "idle" \in Labels
    BY DEF Core, Actors, Operator, Runner, Labels
  <1>2. /\ pc' \in [Actors -> Labels] /\ job' \in [Actors -> Job]
        /\ pc'[Operator] = "idle" /\ job'[Operator] = NoJob
        /\ \A o \in Actors : o # Operator => pc'[o] = pc[o] /\ job'[o] = job[o]
    BY <1>1, Blank, StepEffect
  <1>3. Holds(Operator)' /\ OperatorInv'
    BY <1>2 DEF Holds, OperatorInv, Making, Filling, Finishing
  <1>4. bundles' \subseteq Bundle /\ (\A b \in bundles' : Sound(b))
    BY DEF Core, TypeInv, ReleasesInv
  <1> QED BY <1>1, <1>2, <1>3, <1>4, QuietStep

LEMMA UploadRefusedStep ==
  ASSUME Core, NEW a \in Actors, UploadRefused(a)
  PROVE  Core'
  <1>1. pc[a] = "upload" /\ Local /\ UNCHANGED <<releases, bundles, faults>>
    BY DEF UploadRefused
  <1>2. job[a] \in Job /\ Runner \in Actors /\ TypeInv
    BY DEF Core, TypeInv, Actors
  <1>3. bundles' \subseteq Bundle /\ (\A b \in bundles' : Sound(b)) /\ faults' \in 0..MaxFaults
    BY <1>1 DEF Core, TypeInv, ReleasesInv
  <1>4. CASE a = Runner
    <2>1. "confirm" \in Labels /\ Goto(a, "confirm") /\ job' = [job EXCEPT ![a] = job[a]]
      BY <1>2, <1>4, SameJob DEF Labels, UploadRefused
    <2>2. pc'[Runner] = "confirm" /\ job'[Runner] = job[a]
      BY <1>2, <1>4, <2>1, StepEffect
    <2>4. Holds(Runner)'
      BY <1>1, <1>2, <1>4, <2>2
         DEF Core, Holds, Making, Filling, Finishing, Sound, Local, official, Tagged
    <2>5. RunnerInv'
      BY <1>1, <1>4, <2>2
         DEF Core, RunnerInv, Making, Filling, Local, official, Agrees, WellFormed, Sound, Current
    <2>6. ProgressInv'
      BY <1>1, <1>4, <2>2
         DEF Core, RunnerInv, ProgressInv, Making, Filling, Finishing, IsPublished, Tagged
    <2> QED BY <1>1, <1>2, <1>3, <1>4, <2>1, <2>4, <2>5, <2>6, RunnerStep
  <1>5. CASE a # Runner
    <2>1. a = Operator /\ Goto(a, "idle") /\ job' = [job EXCEPT ![a] = NoJob]
      BY <1>5 DEF UploadRefused, Actors
    <2> QED BY <1>1, <1>3, <2>1, OperatorStops DEF Local
  <1> QED BY <1>4, <1>5

\* A step of either actor within the work on a bundle.
LEMMA WorkStep ==
  ASSUME Core, NEW a \in Actors, NEW label \in Finishing, NEW j \in Job, Local,
         pc[a] \in {"find"} \cup Finishing,
         UNCHANGED <<releases, bundles>>, faults' \in 0..MaxFaults, Goto(a, label),
         job' = [job EXCEPT ![a] = j], Holds(a)',
         j.phase = job[a].phase, j.slot = job[a].slot, j.bundle = job[a].bundle,
         j.drafts = job[a].drafts, j.final = job[a].final, j.todo = job[a].todo,
         j.wanted = job[a].wanted, j.news = job[a].news, j.errors = job[a].errors,
         j.resumed = job[a].resumed,
         j.release = job[a].release \/ pc[a] = "find"
  PROVE  Core'
  <1>1. TypeInv /\ label \in Labels
    BY DEF Core, Finishing, Labels
  <1>2. /\ pc' \in [Actors -> Labels] /\ job' \in [Actors -> Job]
        /\ pc'[a] = label /\ job'[a] = j
        /\ \A o \in Actors : o # a => pc'[o] = pc[o] /\ job'[o] = job[o]
    BY <1>1, StepEffect
  <1>3. bundles' \subseteq Bundle /\ (\A b \in bundles' : Sound(b))
    BY DEF Core, TypeInv, ReleasesInv
  <1>4. CASE a = Runner
    <2>1. RunnerInv'
      BY <1>2, <1>4
         DEF Core, RunnerInv, Making, Filling, Finishing, Local, official, Agrees, WellFormed,
             Sound, Current
    <2>2. ProgressInv'
      BY <1>2, <1>4
         DEF Core, RunnerInv, ProgressInv, Making, Filling, Finishing, IsPublished, Tagged
    <2>3. pc[Runner] # "idle" /\ Runner # Operator
      BY <1>4 DEF Finishing, Runner, Operator
    <2> QED BY <1>2, <1>3, <1>4, <2>1, <2>2, <2>3, QuietStep DEF Local
  <1>5. CASE a = Operator
    <2>1. OperatorInv'
      BY <1>2, <1>5 DEF Core, OperatorInv, LeftOver, Local, Finishing, Filling, Actors, Runner, Operator
    <2>2. Runner # Operator
      BY DEF Runner, Operator
    <2> QED BY <1>2, <1>3, <1>5, <2>1, <2>2, QuietStep DEF Local
  <1> QED BY <1>4, <1>5 DEF Actors

LEMMA FindDraftStep ==
  ASSUME Core, NEW a \in Actors, FindDraft(a)
  PROVE  Core'
  <1> DEFINE b == job[a].bundle
  <1>1. pc[a] = "find" /\ Local /\ UNCHANGED <<releases, bundles, faults>>
    BY DEF FindDraft
  <1>2. job[a] \in Job /\ TypeInv
    BY DEF Core, TypeInv, Actors
  <1>3. bundles' \subseteq Bundle /\ (\A c \in bundles' : Sound(c)) /\ faults' \in 0..MaxFaults
    BY <1>1 DEF Core, TypeInv, ReleasesInv
  <1>4. CASE Fails(a)
    BY <1>1, <1>3, <1>4, GivesUp DEF Local
  <1>5. CASE \E x \in Lookup(b.gw, b.stage) :
                 Goto(a, "finish") /\ job' = [job EXCEPT ![a].release = x]
    <2>1. PICK x \in Lookup(b.gw, b.stage) :
              Goto(a, "finish") /\ job' = [job EXCEPT ![a].release = x]
      BY <1>5
    <2> DEFINE j == [job[a] EXCEPT !.release = x]
    <2>2. x \in releases /\ x \in Tagged(b.gw, b.stage) /\ x \in Release
      BY LookupFound DEF Core, TypeInv
    <2>3. x.note = b /\ Sound(b)
      BY <1>1, <2>2 DEF Core, Holds, Making, Filling
    <2>4. Agrees(x)
      BY <2>2 DEF Core, ReleasesInv, Agrees, Current
    <2>5. job' = [job EXCEPT ![a] = j] /\ Goto(a, "finish")
      BY <2>1
    <2>6. /\ j \in Job /\ j.phase = job[a].phase /\ j.slot = job[a].slot /\ j.bundle = b
          /\ j.drafts = job[a].drafts /\ j.final = job[a].final /\ j.todo = job[a].todo
          /\ j.wanted = job[a].wanted /\ j.news = job[a].news /\ j.errors = job[a].errors
          /\ j.resumed = job[a].resumed /\ j.release = x
      BY <1>2, <2>2 DEF Job
    <2> HIDE DEF j
    <2>7. pc'[a] = "finish" /\ job'[a] = j
      BY <1>2, <2>5, <2>6, StepEffect DEF Labels
    <2>8. Holds(a)'
      BY <1>1, <2>3, <2>4, <2>6, <2>7
         DEF Holds, Making, Filling, Finishing, Sound, Agrees, WellFormed, Current, Local, official
    <2> QED BY <1>1, <1>3, <2>5, <2>6, <2>8, WorkStep DEF Finishing
  <1> QED BY <1>4, <1>5 DEF FindDraft

\* A complete asset is published only with the margin that a publication may take.
LEMMA FinishStep ==
  ASSUME Core, NEW a \in Actors, Finish(a)
  PROVE  Core'
  <1> DEFINE x == job[a].release
             b == job[a].bundle
             j == [job[a] EXCEPT !.checkedAt = now]
  <1>1. pc[a] = "finish" /\ Local /\ UNCHANGED <<releases, bundles>>
    BY DEF Finish
  <1>2. job[a] \in Job /\ TypeInv /\ now \in 0..MaxTime /\ now \in Int
    BY Bounds DEF Core, TypeInv, Actors
  <1>3. bundles' \subseteq Bundle /\ (\A c \in bundles' : Sound(c))
    BY <1>1 DEF Core, TypeInv, ReleasesInv
  <1>4. CASE (Fails(a) /\ UNCHANGED faults) \/ Breaks(a)
    <2>1. faults' \in 0..MaxFaults
      BY <1>2, <1>4, FaultBound DEF Breaks, TypeInv
    <2> QED BY <1>1, <1>3, <1>4, <2>1, GivesUp DEF Local
  <1>5. CASE /\ IsBundle(x.asset) /\ Valid(x, x.asset) /\ InTime(x.asset)
             /\ Goto(a, "patch") /\ job' = [job EXCEPT ![a].checkedAt = now] /\ UNCHANGED faults
    <2>1. Agrees(x) /\ x.note = b /\ Sound(b)
      BY <1>1 DEF Core, Holds, Making, Finishing
    <2>2. x.asset = b
      BY <1>5, <2>1 DEF Agrees, WellFormed, IsBundle
    <2>3. job' = [job EXCEPT ![a] = j] /\ Goto(a, "patch") /\ faults' \in 0..MaxFaults
      BY <1>2, <1>5 DEF TypeInv
    <2>4. /\ j \in Job /\ j.phase = job[a].phase /\ j.slot = job[a].slot /\ j.bundle = b
          /\ j.drafts = job[a].drafts /\ j.final = job[a].final /\ j.todo = job[a].todo
          /\ j.wanted = job[a].wanted /\ j.news = job[a].news /\ j.errors = job[a].errors
          /\ j.resumed = job[a].resumed /\ j.release = x /\ j.checkedAt = now
      BY <1>2 DEF Job
    <2> HIDE DEF j
    <2>5. pc'[a] = "patch" /\ job'[a] = j
      BY <1>2, <2>3, <2>4, StepEffect DEF Labels
    <2>6. Agrees(x)' /\ Sound(b)'
      BY <1>1, <2>1, <2>4, <2>5 DEF Sound, Agrees, WellFormed, Current, Local, official
    <2>7. now' = now /\ (IsForecast(b) => b.deadline - now >= MinLead)
      BY <1>1, <1>5, <2>2 DEF Local, InTime
    <2>8. Holds(a)'
      BY <1>1, <1>2, <1>5, <2>1, <2>2, <2>4, <2>5, <2>7
         DEF Holds, Making, Filling, Finishing, Sound, Agrees, WellFormed, Current, Local,
             official, Valid, IsForecast
    <2> QED BY <1>1, <2>3, <2>4, <2>8, WorkStep DEF Finishing
  <1> QED BY <1>4, <1>5 DEF Finish

\* Every set of numbers has a least one.
LEMMA LeastExists ==
  ASSUME NEW S, S \subseteq Nat, S # {}
  PROVE  \E x \in S : \A y \in S : x <= y
  <1>1. PICK x \in S : \A y \in S : ~ (<<y, x>> \in OpToRel(<, Nat))
    BY WFMin, NatLessThanWellFounded, Zenon
  <1>2. ASSUME NEW y \in S PROVE x <= y
    <2>1. ~ (y < x)
      BY <1>1 DEF OpToRel
    <2> QED BY <2>1
  <1> QED BY <1>2

LEMMA FirstType ==
  ASSUME NEW todo \in SUBSET Bundle, todo # {}
  PROVE  First(todo) \in todo
  <1> DEFINE S == {b.gw : b \in todo}
  <1>1. S \subseteq Nat /\ S # {}
    BY Bounds DEF Bundle
  <1>2. PICK n \in S : \A m \in S : n <= m
    BY <1>1, LeastExists
  <1>3. PICK b \in todo : n = b.gw
    OBVIOUS
  <1>4. \A c \in todo : b.gw <= c.gw
    BY <1>2, <1>3
  <1> QED BY <1>4 DEF First

LEMMA NextActualStep ==
  ASSUME Core, NEW a \in Actors, NextActual(a)
  PROVE  Core'
  <1> DEFINE b == First(job[a].todo)
             j == [job[a] EXCEPT !.bundle = b, !.todo = job[a].todo \ {b}]
  <1>1. a = Runner /\ pc[Runner] = "nextActual"
    BY RunnersAlone DEF NextActual
  <1>2. job[a] \in Job /\ Runner \in Actors /\ TypeInv
    BY DEF Core, TypeInv, Actors
  <1>3. Local /\ UNCHANGED <<releases, bundles, faults>>
    BY DEF NextActual
  <1>4. bundles' \subseteq Bundle /\ (\A c \in bundles' : Sound(c)) /\ faults' \in 0..MaxFaults
    BY <1>3 DEF Core, TypeInv, ReleasesInv
  <1>5. CASE Fails(a)
    BY <1>1, <1>2, <1>3, <1>4, <1>5, GivesUp DEF Local
  <1>6. CASE Goto(a, "publish") /\ job' = [job EXCEPT ![a] = j]
    <2>1. job[a].todo \in SUBSET Bundle /\ job[a].todo # {}
      BY <1>2 DEF NextActual, Job
    <2>2. b \in job[a].todo /\ b \in Bundle
      BY <2>1, FirstType
    <2>3. Sound(b) /\ b.run = runs /\ b.stage = Actual
      BY <1>1, <2>2 DEF Core, RunnerInv
    <2>4. Goto(a, "publish") /\ job' = [job EXCEPT ![a] = j] /\ "publish" \in Labels
      BY <1>6 DEF Labels
    <2> HIDE DEF b
    <2>5. /\ j \in Job /\ j.phase = job[a].phase /\ j.slot = job[a].slot /\ j.bundle = b
          /\ j.drafts = job[a].drafts /\ j.final = job[a].final
          /\ j.todo = job[a].todo \ {b}
          /\ j.wanted = job[a].wanted /\ j.news = job[a].news /\ j.errors = job[a].errors
          /\ j.resumed = job[a].resumed
      BY <1>2, <2>2 DEF Job
    <2> HIDE DEF j
    <2>6. pc'[Runner] = "publish" /\ job'[Runner] = j
      BY <1>1, <1>2, <2>4, <2>5, StepEffect
    <2>7. Holds(Runner)'
      BY <1>3, <2>3, <2>5, <2>6 DEF Holds, Making, Filling, Finishing, Sound, Local, official
    <2>8. RunnerInv'
      BY <1>1, <1>3, <2>3, <2>5, <2>6
         DEF Core, RunnerInv, Making, Filling, Local, official, Agrees, WellFormed, Sound, Current
    <2>9. ProgressInv'
      BY <1>1, <1>3, <2>2, <2>3, <2>5, <2>6
         DEF Core, RunnerInv, ProgressInv, Making, Filling, Finishing, IsPublished, Tagged
    <2> QED BY <1>1, <1>3, <1>4, <2>4, <2>5, <2>7, <2>8, <2>9, RunnerStep
  <1> QED BY <1>5, <1>6 DEF NextActual

\* The points that are collected are of Gameweeks that are final.
LEMMA CollectActualsStep ==
  ASSUME Core, NEW a \in Actors, CollectActuals(a)
  PROVE  Core'
  <1> DEFINE wanted == {g \in Tracked : g \in job[a].final /\ ~IsPublished(g, Actual)}
             reserved == {g \in wanted : Tagged(g, Actual) # {}}
             made == {ActualOf(g, job[a].deadline) : g \in wanted}
             j == [job[a] EXCEPT !.phase = "actuals", !.todo = made, !.wanted = wanted,
                                 !.reserved = reserved]
             e == [job[a] EXCEPT !.errors = TRUE, !.calm = FALSE]
  <1>1. a = Runner /\ pc[Runner] = "actuals"
    BY RunnersAlone DEF CollectActuals
  <1>2. job[a] \in Job /\ Runner \in Actors /\ TypeInv
    BY DEF Core, TypeInv, Actors
  <1>3. Local /\ releases' = releases
    BY DEF CollectActuals
  <1>4. CASE /\ Fault /\ Goto(a, "report") /\ job' = [job EXCEPT ![a] = e] /\ UNCHANGED bundles
    <2>1. faults' \in 0..MaxFaults /\ "report" \in Labels
      BY <1>2, <1>4, FaultBound DEF Labels
    <2>2. /\ e \in Job /\ e.phase = job[a].phase /\ e.drafts = job[a].drafts /\ e.errors
          /\ e.final = job[a].final /\ e.todo = job[a].todo /\ e.wanted = job[a].wanted
          /\ e.news = job[a].news
      BY <1>2 DEF Job
    <2> HIDE DEF e
    <2>3. pc'[Runner] = "report" /\ job'[Runner] = e
      BY <1>1, <1>2, <1>4, <2>1, <2>2, StepEffect
    <2>4. Holds(Runner)' /\ ProgressInv'
      BY <2>2, <2>3 DEF Holds, Making, Filling, Finishing, ProgressInv
    <2>5. RunnerInv'
      BY <1>1, <1>3, <2>2, <2>3 DEF Core, RunnerInv, Making, Filling, Local, official
    <2>6. bundles' \subseteq Bundle /\ (\A c \in bundles' : Sound(c))
      BY <1>4 DEF Core, TypeInv, ReleasesInv
    <2> QED BY <1>1, <1>3, <1>4, <2>1, <2>2, <2>4, <2>5, <2>6, RunnerStep
  <1>5. CASE /\ bundles' = bundles \cup made /\ Goto(a, "nextActual")
             /\ job' = [job EXCEPT ![a] = j] /\ UNCHANGED faults
    <2>1. wanted \subseteq Gameweeks /\ wanted \subseteq final
      BY <1>1 DEF Tracked, Core, RunnerInv
    <2>2. ASSUME NEW g \in wanted
          PROVE  LET b == ActualOf(g, job[a].deadline)
                 IN  b \in Bundle /\ Sound(b) /\ b.run = runs /\ b.stage = Actual /\ b.gw = g
      <3> DEFINE b == ActualOf(g, job[a].deadline)
      <3>1. runs \in 1..MaxRuns /\ now \in 0..MaxTime /\ runs \in Int
        BY <1>1, <1>2, Bounds DEF Core, RunnerInv, TypeInv
      <3>2. job[a].deadline[g] \in 0..MaxTime
        <4>1. job[a].deadline \in [Gameweeks -> 1..MaxTime] /\ g \in Gameweeks
          BY <1>2, <2>1 DEF Job
        <4>2. job[a].deadline[g] \in 1..MaxTime
          BY <4>1
        <4> QED BY <4>2, Bounds
      <3>3. b \in Bundle /\ b.run = runs /\ b.stage = Actual /\ b.gw = g
        BY <2>1, <3>1, <3>2 DEF ActualOf, Bundle
      <3> QED BY <2>1, <3>1, <3>3 DEF Sound, IsForecast
    <2>3. /\ made \subseteq Bundle
          /\ \A b \in made : Sound(b) /\ b.run = runs /\ b.stage = Actual
          /\ \A g \in wanted : \E b \in made : b.gw = g
      BY <2>2
    <2>4. reserved \subseteq Gameweeks /\ "nextActual" \in Labels
      BY <2>1 DEF Labels
    <2>5. /\ Goto(a, "nextActual") /\ job' = [job EXCEPT ![a] = j]
          /\ bundles' = bundles \cup made /\ faults' \in 0..MaxFaults
      BY <1>2, <1>5 DEF TypeInv
    <2> HIDE DEF made, wanted, reserved
    <2>6. /\ j \in Job /\ j.phase = "actuals" /\ j.slot = job[a].slot
          /\ j.drafts = job[a].drafts /\ j.final = job[a].final
          /\ j.todo = made /\ j.wanted = wanted
          /\ j.news = job[a].news /\ j.errors = job[a].errors /\ j.resumed = job[a].resumed
      BY <1>2, <2>1, <2>3, <2>4 DEF Job
    <2> HIDE DEF j
    <2>7. pc'[Runner] = "nextActual" /\ job'[Runner] = j
      BY <1>1, <1>2, <2>4, <2>5, <2>6, StepEffect
    <2>8. Holds(Runner)'
      BY <2>7 DEF Holds, Making, Filling, Finishing
    <2>9. RunnerInv'
      BY <1>1, <1>3, <2>3, <2>6, <2>7
         DEF Core, RunnerInv, Making, Filling, Local, official, Agrees, WellFormed, Sound, Current
    <2>10. ProgressInv'
      BY <1>1, <1>3, <2>3, <2>6, <2>7
         DEF Core, RunnerInv, ProgressInv, Making, Filling, Finishing, IsPublished, Tagged
    <2>11. bundles' \subseteq Bundle /\ (\A c \in bundles' : Sound(c))
      BY <2>3, <2>5 DEF Core, TypeInv, ReleasesInv
    <2> QED BY <1>1, <1>3, <2>4, <2>5, <2>6, <2>8, <2>9, <2>10, <2>11, RunnerStep
  <1> QED BY <1>4, <1>5 DEF CollectActuals

\* A run ends, or is killed: nothing of it is left but the releases.
LEMMA RunnerStops ==
  ASSUME Core, pc[Runner] # "idle", Goto(Runner, "idle"), job' = [job EXCEPT ![Runner] = NoJob],
         UNCHANGED <<now, official, releases, bundles, runs>>, faults' \in 0..MaxFaults
  PROVE  Core'
  <1>1. Runner \in Actors /\ Operator # Runner /\ TypeInv /\ "idle" \in Labels
    BY DEF Core, Actors, Operator, Runner, Labels
  <1>2. /\ pc' \in [Actors -> Labels] /\ job' \in [Actors -> Job]
        /\ pc'[Runner] = "idle" /\ job'[Runner] = NoJob
        /\ \A o \in Actors : o # Runner => pc'[o] = pc[o] /\ job'[o] = job[o]
    BY <1>1, Blank, StepEffect
  <1>3. /\ NoJob.phase = "none" /\ NoJob.drafts = {} /\ NoJob.wanted = {} /\ NoJob.todo = {}
        /\ NoJob.final = {} /\ NoJob.news = {} /\ NoJob.resumed = {} /\ NoJob.slot = NoSlot
    BY DEF NoJob
  <1>4. Holds(Runner)' /\ RunnerInv' /\ ProgressInv'
    BY <1>2, <1>3 DEF Holds, RunnerInv, ProgressInv, Making, Filling, Finishing
  <1>5. bundles' \subseteq Bundle /\ (\A b \in bundles' : Sound(b))
    BY DEF Core, TypeInv, ReleasesInv
  <1> QED BY <1>1, <1>2, <1>4, <1>5, QuietStep

LEMMA ReportStep ==
  ASSUME Core, NEW a \in Actors, Report(a)
  PROVE  Core'
  <1>1. a = Runner /\ pc[Runner] \in {"report", "nextActual"}
    BY RunnersAlone DEF Report
  <1>2. job[a] \in Job /\ Runner \in Actors /\ TypeInv
    BY DEF Core, TypeInv, Actors
  <1>3. UNCHANGED <<now, official, releases, bundles, evaluated, runs>>
    BY DEF Report
  <1>4. faults' \in 0..MaxFaults
    BY <1>2, FaultBound DEF Report, TypeInv
  <1>5. \/ Goto(a, "idle") /\ job' = [job EXCEPT ![a] = NoJob]
        \/ ~job[a].errors /\ Goto(a, "evaluate") /\ job' = job
    BY DEF Report
  <1>6. CASE Goto(a, "idle") /\ job' = [job EXCEPT ![a] = NoJob]
    BY <1>1, <1>3, <1>4, <1>6, RunnerStops
  <1>7. CASE ~job[a].errors /\ Goto(a, "evaluate") /\ job' = job
    <2>1. "evaluate" \in Labels /\ job' = [job EXCEPT ![a] = job[a]]
      BY <1>2, <1>7, SameJob DEF Labels
    <2>2. /\ pc' \in [Actors -> Labels] /\ job' \in [Actors -> Job]
          /\ pc'[Runner] = "evaluate" /\ job'[Runner] = job[a]
          /\ \A o \in Actors : o # Runner => pc'[o] = pc[o] /\ job'[o] = job[o]
      BY <1>1, <1>2, <1>7, <2>1, StepEffect
    <2>3. Holds(Runner)'
      BY <2>2 DEF Holds, Making, Filling, Finishing
    <2>4. RunnerInv'
      BY <1>1, <1>3, <2>2
         DEF Core, RunnerInv, Making, Filling, official, Agrees, WellFormed, Sound, Current
    <2>5. ProgressInv'
      BY <1>1, <1>3, <2>2
         DEF Core, RunnerInv, ProgressInv, Making, Filling, Finishing, IsPublished, Tagged
    <2>6. bundles' \subseteq Bundle /\ (\A b \in bundles' : Sound(b)) /\ Runner # Operator
      BY <1>3 DEF Core, TypeInv, ReleasesInv, Runner, Operator
    <2> QED BY <1>1, <1>2, <1>3, <1>4, <2>2, <2>3, <2>4, <2>5, <2>6, QuietStep
  <1> QED BY <1>5, <1>6, <1>7

LEMMA EvaluateStep ==
  ASSUME Core, NEW a \in Actors, Evaluate(a)
  PROVE  Core'
  <1>1. a = Runner /\ pc[Runner] = "evaluate"
    BY RunnersAlone DEF Evaluate
  <1>2. /\ UNCHANGED <<now, official, releases, bundles, runs, faults>>
        /\ Goto(a, "idle") /\ job' = [job EXCEPT ![a] = NoJob]
    BY DEF Evaluate
  <1>3. faults' \in 0..MaxFaults
    BY <1>2 DEF Core, TypeInv
  <1> QED BY <1>1, <1>2, <1>3, RunnerStops

LEMMA CrashStep ==
  ASSUME Core, NEW a \in Actors, Crash(a)
  PROVE  Core'
  <1>1. faults' \in 0..MaxFaults
    BY FaultBound DEF Core, Crash
  <1>2. /\ pc[a] # "idle" /\ Goto(a, "idle") /\ job' = [job EXCEPT ![a] = NoJob]
        /\ UNCHANGED <<now, official, releases, bundles, runs>>
    BY DEF Crash, Local
  <1> QED BY <1>1, <1>2, RunnerStops, OperatorStops DEF Actors

\* The operator takes a candidate left over, whose draft is still there and empty.
LEMMA RecoverStep ==
  ASSUME Core, NEW a \in Actors, Recover(a)
  PROVE  Core'
  <1>1. /\ a = Operator /\ pc[a] = "idle" /\ Goto(a, "upload")
        /\ Local /\ UNCHANGED <<releases, bundles, faults>>
    BY DEF Recover
  <1>2. TypeInv /\ Operator \in Actors /\ Operator # Runner /\ "upload" \in Labels
    BY DEF Core, Actors, Operator, Runner, Labels
  <1>3. PICK b \in bundles :
            /\ LeftOver(b)
            /\ \E x \in Lookup(b.gw, b.stage) : OriginalOf(x, b)
            /\ job' = [job EXCEPT ![a] = [NoJob EXCEPT !.phase = "operator", !.bundle = b]]
    BY DEF Recover
  <1> DEFINE j == [NoJob EXCEPT !.phase = "operator", !.bundle = b]
  <1>4. Sound(b) /\ b \in Bundle
    BY DEF Core, ReleasesInv, TypeInv
  <1>5. j \in Job /\ j.phase = "operator" /\ j.bundle = b
    BY <1>4, Blank DEF Job
  <1>6. job' = [job EXCEPT ![a] = j]
    BY <1>3
  <1> HIDE DEF j
  <1>7. /\ pc' \in [Actors -> Labels] /\ job' \in [Actors -> Job]
        /\ pc'[Operator] = "upload" /\ job'[Operator] = j
        /\ \A o \in Actors : o # Operator => pc'[o] = pc[o] /\ job'[o] = job[o]
    BY <1>1, <1>2, <1>5, <1>6, StepEffect
  <1>8. PICK x \in Tagged(b.gw, b.stage) : x.note = b
    BY <1>3, LookupFound DEF OriginalOf
  <1>9. \A y \in Tagged(b.gw, b.stage) : y.note = b
    BY <1>8 DEF Core, ReleasesInv, Tagged
  <1>10. Holds(Operator)'
    BY <1>1, <1>4, <1>5, <1>7, <1>9
       DEF Holds, Making, Filling, Finishing, Sound, Local, official, Tagged
  <1>11. OperatorInv'
    BY <1>1, <1>2, <1>3, <1>5, <1>7, <1>8
       DEF OperatorInv, LeftOver, Filling, Tagged, Local, Actors, Runner, Operator
  <1>12. bundles' \subseteq Bundle /\ (\A c \in bundles' : Sound(c)) /\ faults' \in 0..MaxFaults
    BY <1>1 DEF Core, TypeInv, ReleasesInv
  <1> QED BY <1>1, <1>2, <1>7, <1>10, <1>11, <1>12, QuietStep DEF Local

-----------------------------------------------------------------------------
(* The calendar and the clock. *)

\* A step of the calendar or of the clock.
LEMMA OfficialStep ==
  ASSUME Core, TypeInv', Steady, CalendarInv', UNCHANGED <<releases, bundles, pc, job, runs>>,
         \A a \in Actors : pc[a] = "patch" => now <= now' /\ now' <= job[a].checkedAt + 1
  PROVE  Core'
  <1>1. Evolved /\ Preserved /\ Remains
    BY DEF Evolved, Preserved, Remains
  <1>2. ReleasesInv'
    <2>1. \A b \in bundles : Sound(b)'
      BY SoundKept DEF Core, ReleasesInv, Sound
    <2>2. \A x \in releases : WellFormed(x)'
      BY SoundKept DEF Core, ReleasesInv, Sound, WellFormed
    <2> QED BY <2>1, <2>2 DEF Core, ReleasesInv, Prompt
  <1>3. \A a \in Actors : Holds(a)'
    BY <1>1, HoldsKept DEF Core
  <1>4. RunnerInv' /\ ProgressInv' /\ OperatorInv'
    BY <1>1, RunnerKept, ProgressKept, OperatorKept DEF Core, Actors
  <1> QED BY <1>2, <1>3, <1>4 DEF Core

LEMMA PatchingInTime ==
  ASSUME Core
  PROVE  \A a \in Actors : pc[a] = "patch" => now <= now /\ now <= job[a].checkedAt + 1
  BY Bounds DEF Core, Holds, TypeInv

\* A deadline that has passed for good is not moved.
LEMMA MoveDeadlineStep ==
  ASSUME Core, MoveDeadline
  PROVE  Core'
  <1>1. PICK g \in Gameweeks, t \in (now + 1)..MaxTime :
            /\ deadline[g] > now
            /\ deadline' = [deadline EXCEPT ![g] = t]
            /\ latest' = [latest EXCEPT ![g] = IF t > latest[g] THEN t ELSE latest[g]]
    BY DEF MoveDeadline
  <1>2. UNCHANGED <<now, final, releases, bundles, pc, job, runs>> /\ Fault
    BY DEF MoveDeadline
  <1>3. /\ now \in Nat /\ MaxTime \in Nat /\ runs \in Nat /\ 1..MaxTime \subseteq Int
        /\ deadline \in [Gameweeks -> 1..MaxTime] /\ latest \in [Gameweeks -> 1..MaxTime]
    BY Bounds DEF Core, TypeInv
  <1>4. t \in 1..MaxTime
    BY <1>3
  <1>5. deadline' \in [Gameweeks -> 1..MaxTime] /\ latest' \in [Gameweeks -> 1..MaxTime]
    BY <1>1, <1>3, <1>4
  <1>6. faults' \in 0..MaxFaults
    BY <1>2, FaultBound DEF Core
  <1>7. TypeInv'
    BY <1>2, <1>5, <1>6 DEF Core, TypeInv
  <1>8. \A h \in Gameweeks : latest[h] <= latest'[h] /\ deadline'[h] <= latest'[h]
    BY <1>1, <1>3, <1>4 DEF Core, CalendarInv
  <1>9. g \notin final
    BY <1>1, <1>3 DEF Core, CalendarInv
  <1>10. CalendarInv'
    BY <1>1, <1>2, <1>3, <1>8, <1>9 DEF Core, CalendarInv
  <1>11. Steady
    BY <1>2, <1>3, <1>7, <1>8 DEF Core, Steady
  <1> QED BY <1>2, <1>7, <1>10, <1>11, PatchingInTime, OfficialStep

LEMMA BecomeFinalStep ==
  ASSUME Core, BecomeFinal
  PROVE  Core'
  <1>1. UNCHANGED <<now, deadline, latest, releases, bundles, pc, job, runs, faults>>
    BY DEF BecomeFinal
  <1>2. PICK g \in Gameweeks \ final : latest[g] < now /\ final' = final \cup {g}
    BY DEF BecomeFinal
  <1>3. TypeInv'
    BY <1>1, <1>2 DEF Core, TypeInv
  <1>4. latest \in [Gameweeks -> 1..MaxTime] /\ 1..MaxTime \subseteq Int /\ runs \in Int
    BY Bounds DEF Core, TypeInv
  <1>5. Steady
    BY <1>1, <1>2, <1>3, <1>4 DEF Core, Steady
  <1>6. CalendarInv'
    BY <1>1, <1>2 DEF Core, CalendarInv
  <1> QED BY <1>1, <1>3, <1>5, <1>6, PatchingInTime, OfficialStep

\* A publication gives up before a second unit of time has passed.
LEMMA TickStep ==
  ASSUME Core, Tick
  PROVE  Core'
  <1>1. /\ now < MaxTime /\ now' = now + 1
        /\ UNCHANGED <<official, releases, bundles, pc, job, runs, faults>>
        /\ \A a \in Actors : pc[a] = "patch" => now <= job[a].checkedAt
    BY DEF Tick
  <1>2. now \in Nat /\ MaxTime \in Nat
    BY Bounds DEF Core, TypeInv
  <1>3. TypeInv'
    BY <1>1, <1>2 DEF Core, TypeInv, official
  <1>4. Steady
    BY <1>1, <1>3, CalendarSteady DEF Core
  <1>5. latest \in [Gameweeks -> 1..MaxTime] /\ 1..MaxTime \subseteq Int
    BY Bounds DEF Core, TypeInv
  <1>6. CalendarInv'
    BY <1>1, <1>2, <1>5 DEF Core, CalendarInv, official
  <1>7. \A a \in Actors : job[a].checkedAt \in Int
    BY <1>2 DEF Core, TypeInv, Job
  <1>8. \A a \in Actors : pc[a] = "patch" => now <= now' /\ now' <= job[a].checkedAt + 1
    BY <1>1, <1>2, <1>7
  <1> QED BY <1>1, <1>3, <1>4, <1>6, <1>8, OfficialStep

\* A run takes the calendar as it is and copies of the drafts that are complete.
LEMMA StartStep ==
  ASSUME Core, Start
  PROVE  Core'
  <1> DEFINE uploaded == {x \in releases : x.draft /\ IsBundle(x.asset)}
             j == [NoJob EXCEPT !.phase = "recover", !.deadline = deadline, !.final = final,
                                !.drafts = uploaded, !.resumed = uploaded]
  <1>1. /\ pc[Runner] = "idle" /\ runs < MaxRuns /\ runs' = runs + 1 /\ Goto(Runner, "recover")
        /\ UNCHANGED <<now, official, releases, bundles, faults>>
        /\ job' = [job EXCEPT ![Runner] = j]
    BY DEF Start
  <1>2. Runner \in Actors /\ TypeInv /\ runs \in Nat /\ MaxRuns \in Nat
    BY Bounds DEF Core, Actors, TypeInv
  <1>3. uploaded \subseteq Release /\ deadline \in [Gameweeks -> 1..MaxTime] /\ final \subseteq Gameweeks
    BY <1>2 DEF TypeInv
  <1>4. \A x \in uploaded : Agrees(x) /\ x.asset = x.note
    BY DEF Core, ReleasesInv, Agrees, Current, WellFormed, IsBundle
  <1>5. /\ NoJob.slot = NoSlot /\ NoJob.todo = {} /\ NoJob.wanted = {} /\ NoJob.news = {}
    BY DEF NoJob
  <1> HIDE DEF uploaded
  <1>6. /\ j \in Job /\ j.phase = "recover" /\ j.final = final /\ j.drafts = uploaded
        /\ j.resumed = uploaded /\ j.slot = NoSlot /\ j.todo = {} /\ j.wanted = {}
        /\ j.news = {}
    BY <1>3, <1>5, Blank DEF Job
  <1>7. job' = [job EXCEPT ![Runner] = j]
    BY <1>1
  <1> HIDE DEF j
  <1>8. "recover" \in Labels
    BY DEF Labels
  <1>9. /\ pc' \in [Actors -> Labels] /\ job' \in [Actors -> Job]
        /\ pc'[Runner] = "recover" /\ job'[Runner] = j
        /\ \A o \in Actors : o # Runner => pc'[o] = pc[o] /\ job'[o] = job[o]
    BY <1>1, <1>2, <1>6, <1>7, <1>8, StepEffect
  <1>10. TypeInv'
    BY <1>1, <1>2, <1>9 DEF TypeInv, official
  <1>11. Steady
    <2>1. latest \in [Gameweeks -> 1..MaxTime] /\ 1..MaxTime \subseteq Int
      BY Bounds DEF Core, TypeInv
    <2> QED BY <1>1, <1>2, <1>10, <2>1 DEF Steady, official
  <1>12. Evolved /\ Preserved /\ Remains
    BY <1>1 DEF Evolved, Preserved, Remains
  <1>13. CalendarInv'
    BY <1>1 DEF Core, CalendarInv, official
  <1>14. ReleasesInv'
    <2>1. \A b \in bundles : Sound(b)'
      BY <1>11, SoundKept DEF Core, ReleasesInv, Sound
    <2>2. \A x \in releases : WellFormed(x)'
      BY <1>11, SoundKept DEF Core, ReleasesInv, Sound, WellFormed
    <2> QED BY <1>1, <2>1, <2>2 DEF Core, ReleasesInv, Prompt, official
  <1>15. ASSUME NEW o \in Actors PROVE Holds(o)'
    <2>1. CASE o = Runner
      BY <1>9, <2>1 DEF Holds, Making, Filling, Finishing
    <2>2. CASE o # Runner
      <3>1. pc'[o] = pc[o] /\ job'[o] = job[o] /\ Holds(o)
        BY <1>9, <2>2 DEF Core
      <3>2. pc[o] = "patch" => now <= now' /\ now' <= job[o].checkedAt + 1
        BY <1>1, PatchingInTime
      <3> QED BY <1>11, <1>12, <3>1, <3>2, HoldsKept
    <2> QED BY <2>1, <2>2
  <1>16. RunnerInv'
    <2>1. \A x \in uploaded : Agrees(x)'
      BY <1>4, <1>11, <1>12, AgreesKept
    <2> QED BY <1>1, <1>2, <1>4, <1>6, <1>9, <2>1 DEF RunnerInv, Making, Filling, official
  <1>17. ProgressInv'
    BY <1>6, <1>9 DEF ProgressInv
  <1>18. OperatorInv'
    <2>1. Operator # Runner /\ Operator \in Actors /\ runs < runs'
      BY <1>1, <1>2 DEF Operator, Runner, Actors
    <2>2. Holds(Operator) /\ OperatorInv
      BY <2>1 DEF Core
    <2>3. pc'[Operator] = pc[Operator] /\ job'[Operator] = job[Operator]
      BY <1>9, <2>1
    <2> QED BY <1>11, <1>12, <2>1, <2>2, <2>3, OperatorKept
  <1> QED BY <1>10, <1>13, <1>14, <1>15, <1>16, <1>17, <1>18 DEF Core

-----------------------------------------------------------------------------
(* What changes GitHub. *)

\* A release that gets an asset or is published.
LEMMA Replaced ==
  ASSUME Core, NEW x \in releases, NEW y \in Release, releases' = Replace(x, y),
         y.note = x.note, y.twin = x.twin, y.gw = x.gw, y.stage = x.stage,
         IsBundle(x.asset) => y.asset = x.asset /\ y.assetAt = x.assetAt,
         x.draft \/ y = x, y.asset \in {NoBundle, Partial, y.note},
         ~y.draft => y.asset = y.note /\ Prompt(y),
         UNCHANGED <<official, runs>>, bundles' \subseteq bundles
  PROVE  /\ ReleasesInv' /\ Evolved /\ Preserved /\ Remains
         /\ releases' \subseteq Release /\ bundles' \subseteq Bundle
  <1>1. releases' = (releases \ {x}) \cup {y}
    BY DEF Replace
  <1>2. Evolved /\ Preserved /\ Remains
    BY <1>1 DEF Evolved, Preserved, Remains
  <1>3. releases' \subseteq Release /\ bundles' \subseteq Bundle
    BY <1>1 DEF Core, TypeInv
  <1>4. WellFormed(y)
    BY DEF Core, ReleasesInv, WellFormed
  <1>5. ReleasesInv'
    <2>1. \A b \in bundles' : Sound(b)'
      BY DEF Core, ReleasesInv, Sound, official
    <2>2. \A z \in releases' : WellFormed(z)'
      BY <1>1, <1>4 DEF Core, ReleasesInv, WellFormed, Sound, official
    <2>3. \A z \in releases' : ~z.draft => z.asset = z.note /\ Prompt(z)
      BY <1>1 DEF Core, ReleasesInv
    <2>4. \A z, w \in releases' : z.gw = w.gw /\ z.stage = w.stage => z.note = w.note
      BY <1>1 DEF Core, ReleasesInv
    <2>5. \A z, w \in releases' : z.note = w.note /\ z.twin = w.twin => z = w
      BY <1>1 DEF Core, ReleasesInv
    <2> QED BY <2>1, <2>2, <2>3, <2>4, <2>5 DEF ReleasesInv, Prompt
  <1> QED BY <1>2, <1>3, <1>5

\* A step of one actor that changes releases without creating or removing one.
LEMMA ChangeStep ==
  ASSUME Core, NEW a \in Actors, UNCHANGED <<now, official, runs>>, ReleasesInv',
         Evolved, Preserved, Remains, releases' \subseteq Release, bundles' \subseteq Bundle,
         faults' \in 0..MaxFaults, pc' \in [Actors -> Labels], job' \in [Actors -> Job],
         \A o \in Actors : o # a => pc'[o] = pc[o] /\ job'[o] = job[o],
         Holds(a)',
         a = Runner => pc[Runner] # "idle" /\ RunnerInv' /\ ProgressInv',
         a = Operator => OperatorInv'
  PROVE  Core'
  <1>1. TypeInv'
    BY DEF Core, TypeInv, official
  <1>2. Steady
    BY <1>1, CalendarSteady DEF Core
  <1>3. CalendarInv'
    BY DEF Core, CalendarInv, official
  <1>4. ASSUME NEW o \in Actors, o # a PROVE Holds(o)'
    <2>1. pc[o] = "patch" => now <= now' /\ now' <= job[o].checkedAt + 1
      BY PatchingInTime
    <2> QED BY <1>2, <1>4, <2>1, HoldsKept DEF Core
  <1>5. Runner # Operator /\ Runner \in Actors /\ Operator \in Actors
    BY DEF Runner, Operator, Actors
  <1>6. RunnerInv' /\ ProgressInv'
    BY <1>2, <1>5, RunnerKept, ProgressKept DEF Core, Actors
  <1>7. OperatorInv'
    BY <1>2, <1>5, OperatorKept DEF Core, Actors
  <1> QED BY <1>1, <1>3, <1>4, <1>6, <1>7 DEF Core

\* An upload, complete or cut off, is of the bundle that reserved the draft.
LEMMA UploadEffect ==
  ASSUME Core, NEW a \in Actors, Upload(a)
  PROVE  /\ ReleasesInv' /\ Evolved /\ Preserved /\ Remains
         /\ releases' \subseteq Release /\ bundles' \subseteq Bundle
  <1> DEFINE b == job[a].bundle
  <1>1. UNCHANGED <<official, runs>> /\ bundles' = bundles /\ pc[a] = "upload"
    BY DEF Upload, Local, Stored
  <1>2. PICK x \in Lookup(b.gw, b.stage) :
            \/ releases' = releases
            \/ x.asset = NoBundle /\ releases' = Replace(x, [x EXCEPT !.asset = b, !.assetAt = now])
            \/ /\ x.asset = NoBundle
               /\ releases' = Replace(x, [x EXCEPT !.asset = Partial, !.assetAt = now])
    BY DEF Upload, Stored
  <1>3. x \in releases /\ x \in Release /\ x.note = b /\ b \in Bundle /\ now \in 0..MaxTime
    BY <1>1, LookupFound DEF Core, TypeInv, Holds, Making, Filling, Sound
  <1>4. CASE releases' = releases
    BY <1>1, <1>4
       DEF Core, TypeInv, ReleasesInv, Evolved, Preserved, Remains, WellFormed, Sound, Prompt, official
  <1>5. CASE /\ x.asset = NoBundle
             /\ \E asset \in {b, Partial} :
                    releases' = Replace(x, [x EXCEPT !.asset = asset, !.assetAt = now])
    <2>1. PICK asset \in {b, Partial} :
              releases' = Replace(x, [x EXCEPT !.asset = asset, !.assetAt = now])
      BY <1>5
    <2> DEFINE y == [x EXCEPT !.asset = asset, !.assetAt = now]
    <2>2. asset \in Asset
      BY <1>3 DEF Asset
    <2>3. /\ y \in Release /\ y.note = x.note /\ y.twin = x.twin /\ y.gw = x.gw
          /\ y.stage = x.stage /\ y.draft = x.draft /\ y.asset = asset
      BY <1>3, <2>2 DEF Release
    <2>4. x.draft
      BY <1>3, <1>5, Blank DEF Core, ReleasesInv
    <2>5. ~IsBundle(x.asset)
      BY <1>5 DEF IsBundle
    <2>6. releases' = Replace(x, y)
      BY <2>1
    <2> HIDE DEF y
    <2> QED BY <1>1, <1>3, <2>3, <2>4, <2>5, <2>6, Replaced
  <1> QED BY <1>2, <1>4, <1>5

LEMMA UploadStep ==
  ASSUME Core, NEW a \in Actors, Upload(a)
  PROVE  Core'
  <1> DEFINE b == job[a].bundle
  <1>1. /\ ReleasesInv' /\ Evolved /\ Preserved /\ Remains
        /\ releases' \subseteq Release /\ bundles' \subseteq Bundle
    BY UploadEffect
  <1>2. Local /\ pc[a] = "upload" /\ TypeInv /\ job[a] \in Job
    BY DEF Upload, Core, TypeInv
  <1>3. faults' \in 0..MaxFaults
    BY <1>2, FaultBound DEF Upload, TypeInv
  <1>4. \/ Goto(a, "find") /\ job' = job
        \/ a = Runner /\ Goto(a, "confirm") /\ job' = [job EXCEPT ![a].calm = FALSE]
        \/ a # Runner /\ Goto(a, "idle") /\ job' = [job EXCEPT ![a] = NoJob]
    BY DEF Upload
  <1>5. \A x \in releases' : x.gw = b.gw /\ x.stage = b.stage => x.note = b
    BY <1>1, <1>2 DEF Core, Holds, Filling, Tagged, Evolved
  <1>6. Tagged(b.gw, b.stage) # {} => \E x \in releases' : x.gw = b.gw /\ x.stage = b.stage
    BY <1>1 DEF Remains, Tagged
  <1>7. CASE a # Runner /\ Goto(a, "idle") /\ job' = [job EXCEPT ![a] = NoJob]
    <2>1. a = Operator /\ "idle" \in Labels
      BY <1>7 DEF Actors, Labels
    <2>2. /\ pc' \in [Actors -> Labels] /\ job' \in [Actors -> Job]
          /\ pc'[a] = "idle" /\ job'[a] = NoJob
          /\ \A o \in Actors : o # a => pc'[o] = pc[o] /\ job'[o] = job[o]
      BY <1>2, <1>7, <2>1, Blank, StepEffect
    <2>3. Holds(a)' /\ OperatorInv'
      BY <2>1, <2>2 DEF Holds, OperatorInv, Making, Filling, Finishing
    <2> QED BY <1>1, <1>2, <1>3, <1>7, <2>2, <2>3, ChangeStep DEF Local
  <1>8. ASSUME NEW label \in {"find", "confirm"}, NEW j \in Job, Goto(a, label),
               job' = [job EXCEPT ![a] = j], label = "confirm" => a = Runner,
               j.phase = job[a].phase, j.slot = job[a].slot, j.bundle = job[a].bundle,
               j.drafts = job[a].drafts, j.final = job[a].final, j.todo = job[a].todo,
               j.wanted = job[a].wanted, j.news = job[a].news, j.errors = job[a].errors,
               j.resumed = job[a].resumed
        PROVE  Core'
    <2>1. label \in Labels
      BY DEF Labels
    <2>2. /\ pc' \in [Actors -> Labels] /\ job' \in [Actors -> Job]
          /\ pc'[a] = label /\ job'[a] = j
          /\ \A o \in Actors : o # a => pc'[o] = pc[o] /\ job'[o] = job[o]
      BY <1>2, <1>8, <2>1, StepEffect
    <2>3. Holds(a)'
      BY <1>2, <1>5, <1>8, <2>2
         DEF Core, Holds, Making, Filling, Finishing, Sound, Local, official, Tagged
    <2>4. a = Runner => RunnerInv'
      BY <1>2, <1>8, <2>2 DEF Core, RunnerInv, Making, Filling, Local, official, Sound
    <2>5. a = Runner => ProgressInv'
      <3>1. \A g, s : IsPublished(g, s) => IsPublished(g, s)'
        BY <1>1, PublishedKept
      <3> QED BY <1>2, <1>8, <2>2, <3>1
              DEF Core, RunnerInv, ProgressInv, Making, Filling, Finishing
    <2>6. a = Operator => OperatorInv'
      BY <1>2, <1>6, <1>8, <2>2
         DEF Core, OperatorInv, LeftOver, Filling, Local, Actors, Runner, Operator, Tagged
    <2> QED BY <1>1, <1>2, <1>3, <2>2, <2>3, <2>4, <2>5, <2>6, ChangeStep DEF Local
  <1>9. CASE Goto(a, "find") /\ job' = job
    BY <1>2, <1>8, <1>9, SameJob
  <1>10. CASE a = Runner /\ Goto(a, "confirm") /\ job' = [job EXCEPT ![a].calm = FALSE]
    <2> DEFINE j == [job[a] EXCEPT !.calm = FALSE]
    <2>1. job' = [job EXCEPT ![a] = j] /\ Goto(a, "confirm") /\ a = Runner
      BY <1>10
    <2>2. /\ j \in Job /\ j.phase = job[a].phase /\ j.slot = job[a].slot
          /\ j.bundle = job[a].bundle /\ j.drafts = job[a].drafts /\ j.final = job[a].final
          /\ j.todo = job[a].todo /\ j.wanted = job[a].wanted /\ j.news = job[a].news
          /\ j.errors = job[a].errors /\ j.resumed = job[a].resumed
      BY <1>2 DEF Job
    <2> HIDE DEF j
    <2> QED BY <1>8, <2>1, <2>2
  <1> QED BY <1>4, <1>7, <1>9, <1>10

\* What is published was uploaded, and is published, before its deadline.
LEMMA PatchEffect ==
  ASSUME Core, NEW a \in Actors, pc[a] = "patch", NEW y \in Current(job[a].release),
         UNCHANGED <<now, official, runs>>, Published(Replace(y, PublishedAs(y)), y)
  PROVE  /\ ReleasesInv' /\ Evolved /\ Preserved /\ Remains
         /\ releases' \subseteq Release /\ bundles' \subseteq bundles /\ bundles' \subseteq Bundle
         /\ y.gw = job[a].bundle.gw /\ y.stage = job[a].bundle.stage
         /\ y.note = job[a].bundle /\ IsPublished(y.gw, y.stage)'
         /\ IsForecast(y.note) => now < y.note.deadline
  <1> DEFINE b == job[a].bundle
             x == job[a].release
             z == PublishedAs(y)
  <1>1. /\ Agrees(x) /\ x.note = b /\ Sound(b) /\ IsBundle(x.asset) /\ Valid(x, b)
        /\ now <= job[a].checkedAt + 1
        /\ IsForecast(b) => b.deadline - job[a].checkedAt >= MinLead
    BY DEF Core, Holds, Making, Finishing
  <1>2. y \in releases /\ y \in Release /\ y.note = b /\ WellFormed(y)
    BY <1>1 DEF Current, Core, TypeInv, ReleasesInv
  <1>3. y.asset = b /\ y.assetAt = x.assetAt
    BY <1>1 DEF Agrees, Valid
  <1>4. now \in 0..MaxTime /\ job[a].checkedAt \in 0..MaxTime /\ 0..MaxTime \subseteq Int
    BY Bounds DEF Core, TypeInv, Job
  <1>5. IsForecast(b) => y.assetAt < b.deadline /\ now < b.deadline
    <2>1. b.deadline \in Int
      BY <1>1, <1>4 DEF Sound, Bundle
    <2> QED BY <1>1, <1>3, <1>4, <2>1, LeadAssumption DEF Valid
  <1>6. CASE y.draft
    <2>1. z = [y EXCEPT !.draft = FALSE, !.publishedAt = now]
      BY <1>6 DEF PublishedAs
    <2>2. /\ z \in Release /\ z.note = y.note /\ z.twin = y.twin /\ z.gw = y.gw
          /\ z.stage = y.stage /\ z.asset = y.asset /\ z.assetAt = y.assetAt
          /\ ~z.draft /\ z.publishedAt = now
      BY <1>2, <1>4, <2>1 DEF Release
    <2>3. Prompt(z)
      BY <1>2, <1>5, <2>2 DEF Prompt, IsForecast
    <2>4. releases' = Replace(y, z) /\ bundles' \subseteq bundles
      BY DEF Published
    <2> HIDE DEF z
    <2>5. /\ ReleasesInv' /\ Evolved /\ Preserved /\ Remains
          /\ releases' \subseteq Release /\ bundles' \subseteq Bundle
      BY <1>2, <1>3, <1>6, <2>2, <2>3, <2>4, Replaced
    <2>6. IsPublished(y.gw, y.stage)'
      BY <2>2, <2>4 DEF Replace, IsPublished, Tagged
    <2> QED BY <1>2, <1>5, <2>4, <2>5, <2>6 DEF WellFormed
  <1>7. CASE ~y.draft
    <2>1. z = y
      BY <1>7 DEF PublishedAs
    <2>2. releases' = Replace(y, y) /\ bundles' \subseteq bundles
      BY <2>1 DEF Published
    <2>3. Prompt(y)
      BY <1>2, <1>7 DEF Core, ReleasesInv
    <2>4. /\ ReleasesInv' /\ Evolved /\ Preserved /\ Remains
          /\ releases' \subseteq Release /\ bundles' \subseteq Bundle
      BY <1>2, <1>3, <2>2, <2>3, Replaced
    <2>5. IsPublished(y.gw, y.stage)'
      BY <1>2, <1>7, <2>2 DEF Replace, IsPublished, Tagged
    <2> QED BY <1>2, <1>5, <2>2, <2>4, <2>5 DEF WellFormed
  <1> QED BY <1>6, <1>7

\* An actor whose call has changed releases ends it.
LEMMA EndsAfter ==
  ASSUME Core, NEW a \in Actors, pc[a] \in Making \cup Finishing,
         UNCHANGED <<now, official, runs>>, ReleasesInv',
         Evolved, Preserved, Remains, releases' \subseteq Release, bundles' \subseteq Bundle,
         faults' \in 0..MaxFaults, NEW j \in Job, NEW good \in BOOLEAN, Ends(a, j, good),
         j.phase = job[a].phase, j.drafts = job[a].drafts, j.wanted = job[a].wanted,
         j.todo = job[a].todo, a = Runner => j.final \subseteq final /\ j.news \subseteq final,
         a = Runner /\ ~j.errors => ProgressInv'
  PROVE  Core'
  <1>1. /\ pc' \in [Actors -> Labels] /\ job' \in [Actors -> Job]
        /\ \A o \in Actors : o # a => pc'[o] = pc[o] /\ job'[o] = job[o]
    BY EndsEffect DEF Core
  <1>2. TypeInv' /\ Steady
    <2>1. TypeInv'
      BY <1>1 DEF Core, TypeInv, official
    <2> QED BY <2>1, CalendarSteady DEF Core
  <1>3. pc[a] # "idle" /\ Runner # Operator
    BY DEF Making, Filling, Finishing, Runner, Operator
  <1>4. CASE a = Runner
    <2>1. \A x \in job[Runner].drafts : Agrees(x)'
      BY <1>2, AgreesKept DEF Core, RunnerInv
    <2>2. Holds(Runner)' /\ RunnerInv' /\ (j.errors => ProgressInv')
      BY <1>2, <1>3, <1>4, <2>1, RunnerEnds
    <2> QED BY <1>1, <1>3, <1>4, <2>2, ChangeStep
  <1>5. CASE a = Operator
    <2>1. Holds(Operator)' /\ OperatorInv'
      BY <1>3, <1>5, OperatorEnds
    <2> QED BY <1>1, <1>3, <1>5, <2>1, ChangeStep
  <1> QED BY <1>4, <1>5 DEF Actors

LEMMA PatchStep ==
  ASSUME Core, NEW a \in Actors, Patch(a)
  PROVE  Core'
  <1> DEFINE b == job[a].bundle
             x == job[a].release
  <1>1. pc[a] = "patch" /\ Local /\ TypeInv /\ job[a] \in Job
    BY DEF Patch, Core, TypeInv
  <1>2. UNCHANGED <<now, official, runs>> /\ pc[a] \in Making \cup Finishing /\ pc[a] # "idle"
    BY <1>1 DEF Local, Finishing
  <1>3. faults' \in 0..MaxFaults
    BY <1>1, FaultBound DEF Patch, Breaks, TypeInv
  <1>4. CASE UNCHANGED <<releases, bundles>> /\ (Fails(a) \/ Breaks(a))
    <2>1. bundles' \subseteq Bundle /\ (\A c \in bundles' : Sound(c))
      BY <1>4 DEF Core, TypeInv, ReleasesInv
    <2> QED BY <1>2, <1>3, <1>4, <2>1, GivesUp
  <1>5. CASE UNCHANGED <<releases, bundles>> /\ job[a].phase = "recover" /\ Goto(a, "idle")
             /\ job' = [job EXCEPT ![a] = NoJob]
    BY <1>2, <1>3, <1>5, RunnerStops, OperatorStops DEF Actors
  <1>6. CASE \E y \in Current(x) :
                 /\ Published(Replace(y, PublishedAs(y)), y)
                 /\ Succeeds(a) \/ Fails(a) \/ Breaks(a)
    <2>1. PICK y \in Current(x) :
              /\ Published(Replace(y, PublishedAs(y)), y)
              /\ Succeeds(a) \/ Fails(a) \/ Breaks(a)
      BY <1>6
    <2>2. /\ ReleasesInv' /\ Evolved /\ Preserved /\ Remains
          /\ releases' \subseteq Release /\ bundles' \subseteq Bundle
          /\ y.gw = b.gw /\ y.stage = b.stage /\ y.note = b /\ IsPublished(y.gw, y.stage)'
      BY <1>1, <1>2, <2>1, PatchEffect
    <2>3. a = Runner => job[a].final \subseteq final /\ job[a].news \subseteq final
      BY DEF Core, RunnerInv
    <2>4. CASE Fails(a) \/ Breaks(a)
      <3>1. PICK j \in Job :
                /\ Ends(a, j, FALSE) /\ j.errors /\ j.phase = job[a].phase
                /\ j.drafts = job[a].drafts /\ j.wanted = job[a].wanted
                /\ j.todo = job[a].todo /\ j.final = job[a].final /\ j.news = job[a].news
        BY <1>1, <2>4, FailureEnds
      <3> QED BY <1>2, <1>3, <2>2, <2>3, <3>1, EndsAfter
    <2>5. CASE Succeeds(a)
      <3> DEFINE more == IF IsForecast(b) THEN {} ELSE {b.gw}
                 j == [job[a] EXCEPT !.news = job[a].news \cup more]
      <3>1. Sound(b) /\ more \subseteq final /\ more \subseteq Gameweeks
        BY <1>1 DEF Core, Holds, Making, Finishing, Sound, TypeInv
      <3>2. Ends(a, j, TRUE)
        BY <2>5 DEF Succeeds
      <3> HIDE DEF more
      <3>3. /\ j \in Job /\ j.phase = job[a].phase /\ j.slot = job[a].slot
            /\ j.drafts = job[a].drafts /\ j.final = job[a].final /\ j.todo = job[a].todo
            /\ j.wanted = job[a].wanted /\ j.news = job[a].news \cup more
            /\ j.errors = job[a].errors /\ j.resumed = job[a].resumed
        BY <1>1, <3>1 DEF Job
      <3> HIDE DEF j
      <3>4. ASSUME a = Runner, ~j.errors PROVE ProgressInv'
        <4>1. job[a].phase \in {"recover", "slot", "actuals"}
          BY <1>2, <3>4 DEF Core, RunnerInv
        <4>2. /\ pc'[a] = Resume(a, TRUE)
              /\ pc'[a] \in {"recover", "actuals", "nextActual"}
          BY <1>1, <3>2, <3>3, <4>1, EndsEffect DEF Resume
        <4>3. /\ job'[a].phase = j.phase /\ job'[a].drafts = j.drafts
              /\ job'[a].resumed = j.resumed /\ job'[a].slot = j.slot
              /\ job'[a].todo = j.todo /\ job'[a].wanted = j.wanted
              /\ job'[a].errors = j.errors
          BY <1>1, <3>2, <3>3, <4>2, EndsEffect
        <4>4. \A g, s : IsPublished(g, s) => IsPublished(g, s)'
          BY <2>2, PublishedKept
        <4>5. x.gw = b.gw /\ x.stage = b.stage
          BY <1>1 DEF Core, Holds, Finishing, Agrees, WellFormed
        <4>6. ASSUME NEW z \in job[a].resumed
              PROVE  IsPublished(z.gw, z.stage)' \/ z \in job[a].drafts
          BY <1>1, <2>2, <3>3, <3>4, <4>4, <4>5 DEF Core, ProgressInv
        <4>7. job[a].slot # NoSlot =>
                  \/ IsPublished(job[a].slot[1], job[a].slot[2])
                  \/ job[a].slot = <<b.gw, b.stage>>
          BY <1>1, <3>3, <3>4 DEF Core, ProgressInv
        <4>8. \A g \in job[a].wanted :
                  IsPublished(g, Actual) \/ (\E c \in job[a].todo : c.gw = g)
                  \/ (b.gw = g /\ b.stage = Actual)
          BY <1>1, <3>3, <3>4 DEF Core, ProgressInv
        <4>9. \A z \in job'[a].resumed : IsPublished(z.gw, z.stage)' \/ z \in job'[a].drafts
          BY <3>3, <4>3, <4>6
        <4>10. (job[a].slot # NoSlot => IsPublished(job[a].slot[1], job[a].slot[2]))'
          <5>1. ASSUME job[a].slot # NoSlot
                PROVE  IsPublished(job[a].slot[1], job[a].slot[2])
                       \/ (job[a].slot[1] = y.gw /\ job[a].slot[2] = y.stage)
            BY <2>2, <4>7, <5>1
          <5> QED BY <2>2, <3>3, <4>3, <4>4, <5>1 DEF IsPublished, Tagged
        <4>11. \A g \in job'[a].wanted :
                   IsPublished(g, Actual)' \/ \E c \in job'[a].todo : c.gw = g
          BY <2>2, <3>3, <4>3, <4>4, <4>8 DEF IsPublished, Tagged
        <4> QED BY <3>3, <3>4, <4>2, <4>3, <4>9, <4>10, <4>11 DEF ProgressInv, IsPublished, Tagged
      <3>5. a = Runner => j.final \subseteq final /\ j.news \subseteq final
        BY <2>3, <3>1, <3>3
      <3> QED BY <1>2, <1>3, <2>2, <3>2, <3>3, <3>4, <3>5, EndsAfter
    <2> QED BY <2>1, <2>4, <2>5
  <1> QED BY <1>4, <1>5, <1>6 DEF Patch

\* Only an unfinished draft is removed, while the operator does nothing else.
LEMMA RemoveDraftStep ==
  ASSUME Core, RemoveDraft
  PROVE  Core'
  <1>1. /\ pc[Operator] = "idle" /\ UNCHANGED <<now, official, bundles, pc, job, runs, faults>>
    BY DEF RemoveDraft, Local, Stored
  <1>2. PICK x \in releases : x.draft /\ releases' = releases \ {x}
    BY DEF RemoveDraft, Stored
  <1>3. Evolved /\ Preserved
    BY <1>2 DEF Evolved, Preserved
  <1>4. TypeInv' /\ Steady
    <2>1. TypeInv'
      BY <1>1, <1>2 DEF Core, TypeInv, official
    <2> QED BY <1>1, <2>1, CalendarSteady DEF Core
  <1>5. CalendarInv'
    BY <1>1 DEF Core, CalendarInv, official
  <1>6. ReleasesInv'
    BY <1>1, <1>2 DEF Core, ReleasesInv, WellFormed, Sound, Prompt, official
  <1>7. ASSUME NEW o \in Actors PROVE Holds(o)'
    <2>1. pc[o] = "patch" => now <= now' /\ now' <= job[o].checkedAt + 1
      BY <1>1, PatchingInTime
    <2> QED BY <1>1, <1>3, <1>4, <2>1, HoldsKept DEF Core
  <1>8. RunnerInv' /\ ProgressInv'
    BY <1>1, <1>3, <1>4, RunnerKept, ProgressKept DEF Core
  <1>9. OperatorInv'
    BY <1>1 DEF Core, OperatorInv, Filling
  <1> QED BY <1>4, <1>5, <1>6, <1>7, <1>8, <1>9 DEF Core

\* New drafts are of a tag that had none, and of a run that no one else works for.
LEMMA CreatedEffect ==
  ASSUME Core, pc[Runner] = "create", NEW twins \in SUBSET {1, 2},
         releases' = releases \cup {Draft(job[Runner].bundle, t) : t \in twins},
         UNCHANGED <<now, official, bundles, runs>>, faults' \in 0..MaxFaults,
         pc' \in [Actors -> Labels], job' \in [Actors -> Job],
         pc'[Operator] = pc[Operator], job'[Operator] = job[Operator]
  PROVE  /\ TypeInv' /\ Steady /\ CalendarInv' /\ ReleasesInv' /\ Preserved
         /\ Holds(Operator)' /\ OperatorInv'
         /\ \A x \in releases' : x.gw = job[Runner].bundle.gw /\ x.stage = job[Runner].bundle.stage
                                     => x.note = job[Runner].bundle
  <1> DEFINE b == job[Runner].bundle
             made == {Draft(b, t) : t \in twins}
             c == job[Operator].bundle
  <1>1. /\ Sound(b) /\ b \in Bundle /\ Tagged(b.gw, b.stage) = {} /\ b.run = runs
        /\ Holds(Operator) /\ OperatorInv /\ pc[Runner] # "idle" /\ Runner # Operator
    BY DEF Core, Holds, RunnerInv, Making, Sound, Actors, Runner, Operator
  <1>2. ASSUME NEW x \in made
        PROVE  /\ x.twin \in {1, 2} /\ x.gw = b.gw /\ x.stage = b.stage /\ x.note = b
               /\ x.draft /\ x.asset = NoBundle /\ x \in Release
    <2>1. PICK t \in twins : x = [NoRelease EXCEPT !.twin = t, !.gw = b.gw, !.stage = b.stage,
                                                   !.note = b]
      BY DEF Draft
    <2>2. NoRelease \in Release /\ NoRelease.draft /\ NoRelease.asset = NoBundle
      BY Blank DEF NoRelease
    <2>3. t \in {1, 2} /\ b.gw \in Gameweeks /\ b.stage \in Stages \cup {Actual}
      BY <1>1 DEF Bundle
    <2> QED BY <1>1, <2>1, <2>2, <2>3 DEF Release
  <1>3. \A x, y \in made : x.twin = y.twin => x = y
    BY DEF Draft
  <1>4. releases' = releases \cup made
    OBVIOUS
  <1>5. \A x \in releases : x.note # b /\ ~(x.gw = b.gw /\ x.stage = b.stage)
    BY <1>1 DEF Core, ReleasesInv, WellFormed, Tagged
  <1> HIDE DEF made
  <1>6. ReleasesInv'
    <2>1. \A x \in releases' : WellFormed(x)'
      BY <1>1, <1>2, <1>4 DEF Core, ReleasesInv, WellFormed, Sound, official
    <2>2. \A x \in releases' : ~x.draft => x.asset = x.note /\ Prompt(x)
      BY <1>2, <1>4 DEF Core, ReleasesInv
    <2>3. \A x, y \in releases' : x.gw = y.gw /\ x.stage = y.stage => x.note = y.note
      BY <1>2, <1>4, <1>5 DEF Core, ReleasesInv
    <2>4. \A x, y \in releases' : x.note = y.note /\ x.twin = y.twin => x = y
      BY <1>2, <1>3, <1>4, <1>5 DEF Core, ReleasesInv
    <2>5. \A x \in bundles' : Sound(x)'
      BY DEF Core, ReleasesInv, Sound, official
    <2> QED BY <2>1, <2>2, <2>3, <2>4, <2>5 DEF ReleasesInv, Prompt
  <1>7. Preserved /\ Remains /\ CalendarInv'
    BY <1>4 DEF Preserved, Remains, Core, CalendarInv, official
  <1>8. TypeInv' /\ Steady /\ OperatorInv'
    <2>1. TypeInv'
      BY <1>2, <1>4 DEF Core, TypeInv, official
    <2>2. Steady
      BY <2>1, CalendarSteady DEF Core
    <2> QED BY <1>1, <1>7, <2>1, <2>2, OperatorKept
  <1>9. pc[Operator] # "idle" => Sound(c) /\ c.run < runs /\ c # b
    BY <1>1 DEF Holds, OperatorInv, LeftOver, Making, Filling, Finishing, Sound, Bundle
  <1>10. Holds(Operator)'
    <2>1. pc[Operator] \in Making \cup Finishing => Sound(c)'
      BY <1>1 DEF Holds, Sound, official
    <2>2. pc[Operator] # "create"
      BY <1>1 DEF OperatorInv
    <2>3. pc[Operator] \in Filling =>
              \A x \in releases' : x.gw = c.gw /\ x.stage = c.stage => x.note = c
      <3> SUFFICES ASSUME pc[Operator] \in Filling, NEW x \in releases', x.gw = c.gw,
                          x.stage = c.stage
                   PROVE  x.note = c
        OBVIOUS
      <3>1. PICK y \in releases : y.gw = c.gw /\ y.stage = c.stage
        BY <1>1 DEF OperatorInv, Tagged
      <3>2. x \in releases
        BY <1>2, <1>4, <1>5, <3>1
      <3> QED BY <1>1, <3>2 DEF Holds, Tagged
    <2>4. pc[Operator] \in Finishing => Agrees(job[Operator].release)'
      <3> SUFFICES ASSUME pc[Operator] \in Finishing PROVE Agrees(job[Operator].release)'
        OBVIOUS
      <3>1. /\ Agrees(job[Operator].release) /\ job[Operator].release.note = c
            /\ c # b
        BY <1>1, <1>9 DEF Holds, Finishing
      <3>2. \A y \in releases' : y.note = c => y \in releases
        BY <1>2, <1>4, <3>1
      <3> QED BY <3>1, <3>2 DEF Agrees, WellFormed, Sound, Current, official
    <2> QED BY <1>1, <2>1, <2>2, <2>3, <2>4 DEF Holds, Tagged
  <1>11. \A x \in releases' : x.gw = b.gw /\ x.stage = b.stage => x.note = b
    BY <1>2, <1>4, <1>5
  <1> QED BY <1>6, <1>7, <1>8, <1>10, <1>11

LEMMA CreateDraftStep ==
  ASSUME Core, NEW a \in Actors, CreateDraft(a)
  PROVE  Core'
  <1> DEFINE b == job[a].bundle
  <1>1. a = Runner /\ pc[Runner] = "create" /\ Runner # Operator /\ Operator \in Actors
    BY RunnersAlone DEF CreateDraft, Runner, Operator, Actors
  <1>2. job[a] \in Job /\ Runner \in Actors /\ TypeInv
    BY DEF Core, TypeInv, Actors
  <1>3. Local /\ bundles' = bundles
    BY DEF CreateDraft, Stored
  <1>4. UNCHANGED <<now, official, bundles, runs>> /\ faults' \in 0..MaxFaults
    BY <1>2, <1>3, FaultBound DEF CreateDraft, Breaks, Local, TypeInv
  <1>5. CASE Breaks(a) /\ UNCHANGED <<releases, bundles>>
    <2>1. bundles' \subseteq Bundle /\ (\A c \in bundles' : Sound(c))
      BY <1>5 DEF Core, TypeInv, ReleasesInv
    <2> QED BY <1>1, <1>2, <1>4, <1>5, <2>1, GivesUp
  <1>6. CASE Breaks(a) /\ releases' = releases \cup {Draft(b, 1)}
    <2>1. PICK j \in Job :
              /\ Ends(a, j, FALSE) /\ j.errors /\ j.phase = job[a].phase
              /\ j.drafts = job[a].drafts /\ j.wanted = job[a].wanted /\ j.todo = job[a].todo
              /\ j.final = job[a].final /\ j.news = job[a].news
      BY <1>2, <1>6, FailureEnds
    <2>2. /\ pc' \in [Actors -> Labels] /\ job' \in [Actors -> Job]
          /\ \A o \in Actors : o # a => pc'[o] = pc[o] /\ job'[o] = job[o]
      BY <1>2, <2>1, EndsEffect
    <2>3. {1} \in SUBSET {1, 2} /\ releases' = releases \cup {Draft(b, t) : t \in {1}}
      BY <1>6
    <2>4. /\ TypeInv' /\ Steady /\ CalendarInv' /\ ReleasesInv' /\ Preserved
          /\ Holds(Operator)' /\ OperatorInv'
      BY <1>1, <1>4, <2>2, <2>3, CreatedEffect
    <2>5. job[Runner].drafts = {}
      BY <1>1 DEF Core, RunnerInv, Making
    <2>6. Holds(Runner)' /\ RunnerInv' /\ ProgressInv'
      <3>1. j.final \subseteq final /\ j.news \subseteq final
        BY <1>1, <2>1 DEF Core, RunnerInv
      <3> QED BY <1>1, <1>4, <2>1, <2>4, <2>5, <3>1, RunnerEnds
    <2> QED BY <2>4, <2>6 DEF Core, Actors
  <1>7. ASSUME NEW twins \in SUBSET {1, 2}, releases' = releases \cup {Draft(b, t) : t \in twins},
               NEW j \in Job, Goto(a, "upload"), job' = [job EXCEPT ![a] = j],
               j.phase = job[a].phase, j.slot = job[a].slot, j.bundle = b,
               j.drafts = job[a].drafts, j.final = job[a].final, j.todo = job[a].todo,
               j.wanted = job[a].wanted, j.news = job[a].news, j.errors = job[a].errors,
               j.resumed = job[a].resumed
        PROVE  Core'
    <2>1. "upload" \in Labels
      BY DEF Labels
    <2>2. /\ pc' \in [Actors -> Labels] /\ job' \in [Actors -> Job]
          /\ pc'[a] = "upload" /\ job'[a] = j
          /\ \A o \in Actors : o # a => pc'[o] = pc[o] /\ job'[o] = job[o]
      BY <1>2, <1>7, <2>1, StepEffect
    <2>3. /\ TypeInv' /\ Steady /\ CalendarInv' /\ ReleasesInv' /\ Preserved
          /\ Holds(Operator)' /\ OperatorInv'
          /\ \A x \in releases' : x.gw = b.gw /\ x.stage = b.stage => x.note = b
      BY <1>1, <1>4, <1>7, <2>2, CreatedEffect
    <2>4. Holds(Runner)'
      BY <1>1, <1>4, <1>7, <2>2, <2>3
         DEF Core, Holds, Making, Filling, Finishing, Sound, official, Tagged
    <2>5. RunnerInv'
      BY <1>1, <1>4, <1>7, <2>2 DEF Core, RunnerInv, Making, Filling, official, Sound
    <2>6. ProgressInv'
      <3>1. \A g, s : IsPublished(g, s) => IsPublished(g, s)'
        BY <2>3, PublishedKept
      <3> QED BY <1>1, <1>7, <2>2, <3>1
              DEF Core, RunnerInv, ProgressInv, Making, Filling, Finishing
    <2> QED BY <1>1, <2>3, <2>4, <2>5, <2>6 DEF Core, Actors
  <1>8. CASE Goto(a, "upload") /\ releases' = releases \cup {Draft(b, 1)} /\ job' = job
    <2>1. {1} \in SUBSET {1, 2} /\ releases' = releases \cup {Draft(b, t) : t \in {1}}
      BY <1>8
    <2> QED BY <1>2, <1>7, <1>8, <2>1, SameJob
  <1>9. CASE /\ Goto(a, "upload") /\ releases' = releases \cup {Draft(b, 1), Draft(b, 2)}
             /\ job' = [job EXCEPT ![a].calm = FALSE]
    <2> DEFINE j == [job[a] EXCEPT !.calm = FALSE]
    <2>1. {1, 2} \in SUBSET {1, 2} /\ releases' = releases \cup {Draft(b, t) : t \in {1, 2}}
      BY <1>9
    <2>2. job' = [job EXCEPT ![a] = j] /\ Goto(a, "upload")
      BY <1>9
    <2>3. /\ j \in Job /\ j.phase = job[a].phase /\ j.slot = job[a].slot
          /\ j.bundle = job[a].bundle /\ j.drafts = job[a].drafts /\ j.final = job[a].final
          /\ j.todo = job[a].todo /\ j.wanted = job[a].wanted /\ j.news = job[a].news
          /\ j.errors = job[a].errors /\ j.resumed = job[a].resumed
      BY <1>2 DEF Job
    <2> HIDE DEF j
    <2> QED BY <1>7, <2>1, <2>2, <2>3
  <1> QED BY <1>3, <1>5, <1>6, <1>8, <1>9 DEF CreateDraft, Stored

-----------------------------------------------------------------------------
(* The induction. *)

LEMMA CoreInit == Init => Core
  <1> SUFFICES ASSUME Init PROVE Core
    OBVIOUS
  <1>1. TypeInv
    <2>1. FirstDeadlines \in [Gameweeks -> 1..MaxTime] /\ 0 \in 0..MaxTime /\ 0 \in 0..MaxRuns
          /\ 0 \in 0..MaxFaults /\ "idle" \in Labels
      BY CalendarAssumption, Bounds DEF Labels
    <2> QED BY <2>1, Blank DEF Init, TypeInv
  <1>2. CalendarInv
    <2>1. FirstDeadlines \in [Gameweeks -> 1..MaxTime] /\ 1..MaxTime \subseteq Int
      BY CalendarAssumption, Bounds
    <2> QED BY <2>1 DEF Init, CalendarInv
  <1>3. \A a \in Actors : pc[a] = "idle" /\ job[a] = NoJob
    BY DEF Init
  <1>4. /\ NoJob.phase = "none" /\ NoJob.drafts = {} /\ NoJob.wanted = {} /\ NoJob.todo = {}
        /\ NoJob.final = {} /\ NoJob.news = {} /\ NoJob.resumed = {} /\ NoJob.slot = NoSlot
    BY DEF NoJob
  <1>5. ReleasesInv
    BY DEF Init, ReleasesInv
  <1>6. \A a \in Actors : Holds(a)
    BY <1>3 DEF Holds, Making, Filling, Finishing
  <1>7. RunnerInv /\ OperatorInv /\ ProgressInv
    BY <1>3, <1>4 DEF RunnerInv, OperatorInv, ProgressInv, Making, Filling, Finishing, Actors
  <1> QED BY <1>1, <1>2, <1>5, <1>6, <1>7 DEF Core

LEMMA CoreStep == Core /\ [Next]_vars => Core'
  <1> SUFFICES ASSUME Core, [Next]_vars PROVE Core'
    OBVIOUS
  <1>1. CASE UNCHANGED vars
    BY <1>1 DEF vars, official, Core, TypeInv, CalendarInv, ReleasesInv, Sound, WellFormed, Prompt,
                Holds, RunnerInv, OperatorInv, ProgressInv, Agrees, Current, Tagged, IsPublished,
                Valid, IsForecast, LeftOver
  <1>2. CASE Next
    <2>1. ASSUME NEW a \in Actors,
                 \/ ResumeDraft(a) \/ CheckSlot(a) \/ CaptureFetch(a) \/ CaptureDone(a)
                 \/ Publish(a) \/ CreateDraft(a) \/ Upload(a) \/ UploadRefused(a)
                 \/ Confirm(a) \/ FindDraft(a) \/ Finish(a) \/ Patch(a)
                 \/ CollectActuals(a) \/ NextActual(a) \/ Report(a) \/ Evaluate(a)
                 \/ Crash(a) \/ Recover(a)
          PROVE  Core'
      BY <2>1, ResumeDraftStep, CheckSlotStep, CaptureFetchStep, CaptureDoneStep, PublishStep,
         CreateDraftStep, UploadStep, UploadRefusedStep, ConfirmStep, FindDraftStep, FinishStep,
         PatchStep, CollectActualsStep, NextActualStep, ReportStep, EvaluateStep, CrashStep,
         RecoverStep
    <2> QED BY <1>2, <2>1, StartStep, RemoveDraftStep, MoveDeadlineStep, BecomeFinalStep, TickStep
            DEF Next, RunStep
  <1> QED BY <1>1, <1>2

\* Every step but a report leaves none.
LEMMA Silent ==
  ASSUME Next, \A a \in Actors : ~Report(a)
  PROVE  ~report'.ok
  <1>1. report' = NoReport
    <2>1. ASSUME Start \/ RemoveDraft \/ MoveDeadline \/ BecomeFinal \/ Tick
          PROVE  report' = NoReport
      BY <2>1 DEF Start, RemoveDraft, MoveDeadline, BecomeFinal, Tick, Local
    <2>2. ASSUME NEW a \in Actors,
                 \/ ResumeDraft(a) \/ CheckSlot(a) \/ CaptureFetch(a) \/ CaptureDone(a)
                 \/ Publish(a) \/ CreateDraft(a) \/ Upload(a) \/ UploadRefused(a)
          PROVE  report' = NoReport
      BY <2>2 DEF ResumeDraft, CheckSlot, CaptureFetch, CaptureDone, Publish, CreateDraft, Upload,
                  UploadRefused, Local
    <2>3. ASSUME NEW a \in Actors,
                 \/ Confirm(a) \/ FindDraft(a) \/ Finish(a) \/ Patch(a)
                 \/ CollectActuals(a) \/ NextActual(a) \/ Evaluate(a) \/ Crash(a) \/ Recover(a)
          PROVE  report' = NoReport
      BY <2>3 DEF Confirm, FindDraft, Finish, Patch, CollectActuals, NextActual, Evaluate, Crash,
                  Recover, Local
    <2> QED BY <2>1, <2>2, <2>3 DEF Next, RunStep
  <1> QED BY <1>1 DEF NoReport

\* A report without an error is of a run that has published all it found and wanted.
LEMMA HonestStep == Core /\ HonestSuccess /\ [Next]_vars => HonestSuccess'
  <1> SUFFICES ASSUME Core, HonestSuccess, [Next]_vars PROVE HonestSuccess'
    OBVIOUS
  <1>1. CASE UNCHANGED vars
    BY <1>1 DEF vars, HonestSuccess, IsPublished, Tagged
  <1>2. CASE Next /\ \A a \in Actors : ~Report(a)
    BY <1>2, Silent DEF HonestSuccess
  <1>3. CASE \E a \in Actors : Report(a)
    <2>1. PICK a \in Actors : Report(a)
      BY <1>3
    <2> DEFINE closed == {g \in Gameweeks \ Acknowledged : job[a].deadline[g] <= now}
    <2>2. /\ a = Runner /\ releases' = releases
          /\ pc[a] = "report" \/ (pc[a] = "nextActual" /\ job[a].todo = {})
      BY <2>1, RunnersAlone DEF Report
    <2>3. PICK errors \in BOOLEAN, calm \in {job[a].calm, FALSE} :
              /\ report' = [done |-> TRUE, ok |-> ~errors, calm |-> calm,
                            wanted |-> job[a].wanted, reserved |-> job[a].reserved,
                            slot |-> job[a].slot, resumed |-> job[a].resumed,
                            closed |-> closed]
              /\ ~errors => ~job[a].errors /\ \A g \in closed : \E s \in Stages : IsPublished(g, s)
      <3>1. job[a].errors \in BOOLEAN
        BY DEF Core, TypeInv, Job
      <3>2. CASE Fault
        BY <2>1, <3>1, <3>2 DEF Report
      <3>3. CASE ~Fault
        BY <2>1, <3>1, <3>3 DEF Report
      <3> QED BY <3>2, <3>3
    <2>4. CASE errors
      BY <2>3, <2>4 DEF HonestSuccess
    <2>5. CASE ~errors
      <3>1. /\ ~job[Runner].errors /\ pc[Runner] = "nextActual" /\ job[Runner].todo = {}
            /\ job[Runner].drafts = {}
        BY <2>2, <2>3, <2>5 DEF Core, ProgressInv, RunnerInv
      <3>2. /\ \A x \in job[Runner].resumed : IsPublished(x.gw, x.stage)
            /\ job[Runner].slot # NoSlot => IsPublished(job[Runner].slot[1], job[Runner].slot[2])
            /\ \A g \in job[Runner].wanted : IsPublished(g, Actual)
        BY <3>1 DEF Core, ProgressInv, Making, Filling, Finishing
      <3>3. \A g, s : IsPublished(g, s)' <=> IsPublished(g, s)
        BY <2>2 DEF IsPublished, Tagged
      <3>4. /\ report'.resumed = job[Runner].resumed /\ report'.slot = job[Runner].slot
            /\ report'.wanted = job[Runner].wanted /\ report'.closed = closed
        BY <2>2, <2>3
      <3>5. \A g \in closed : \E s \in Stages : IsPublished(g, s)
        BY <2>3, <2>5
      <3> HIDE DEF closed
      <3> QED BY <2>2, <3>2, <3>4, <3>5 DEF HonestSuccess, IsPublished, Tagged
    <2> QED BY <2>4, <2>5
  <1> QED BY <1>1, <1>2, <1>3 DEF Next, RunStep

\* No capture of a Gameweek that is final is published any more.
LEMMA NothingBetter ==
  ASSUME Core, Next, NEW x \in releases', ~x.draft, x.stage # Actual, x.gw \in final
  PROVE  \E z \in releases : ~z.draft /\ z.gw = x.gw /\ z.stage = x.stage
  <1>1. CASE releases' = releases
    BY <1>1
  <1>2. CASE RemoveDraft
    BY <1>2 DEF RemoveDraft, Stored
  <1>3. ASSUME NEW a \in Actors, CreateDraft(a)
        PROVE  x \in releases
    <2>1. \A t \in {1, 2} : Draft(job[a].bundle, t).draft
      BY Blank DEF Draft, NoRelease, Release
    <2> QED BY <1>3, <2>1 DEF CreateDraft, Stored
  <1>4. ASSUME NEW a \in Actors, Upload(a)
        PROVE  \E z \in releases : ~z.draft /\ z.gw = x.gw /\ z.stage = x.stage
    <2>1. PICK y \in Lookup(job[a].bundle.gw, job[a].bundle.stage), asset \in {job[a].bundle, Partial} :
              \/ releases' = releases
              \/ releases' = Replace(y, [y EXCEPT !.asset = asset, !.assetAt = now])
      BY <1>4 DEF Upload, Stored
    <2>2. y \in releases /\ y \in Release
      BY LookupFound DEF Core, TypeInv
    <2> DEFINE z == [y EXCEPT !.asset = asset, !.assetAt = now]
    <2>3. z.draft = y.draft /\ z.gw = y.gw /\ z.stage = y.stage
      BY <2>2 DEF Release
    <2>4. releases' = releases \/ releases' = Replace(y, z)
      BY <2>1
    <2> HIDE DEF z
    <2> QED BY <2>2, <2>3, <2>4 DEF Replace
  <1>5. ASSUME NEW a \in Actors, Patch(a)
        PROVE  \E z \in releases : ~z.draft /\ z.gw = x.gw /\ z.stage = x.stage
    <2> SUFFICES ASSUME NEW y \in Current(job[a].release), y.draft,
                        Published(Replace(y, PublishedAs(y)), y)
                 PROVE  x \in releases
      BY <1>1, <1>5 DEF Patch, Published, PublishedAs, Replace, Current
    <2>1. pc[a] = "patch" /\ UNCHANGED <<now, official, runs>>
      BY <1>5 DEF Patch, Local
    <2>2. IsForecast(y.note) => now < y.note.deadline
      BY <2>1, PatchEffect
    <2>3. y \in releases /\ y \in Release /\ WellFormed(y)
      BY DEF Current, Core, TypeInv, ReleasesInv
    <2> DEFINE z == PublishedAs(y)
    <2>4. z.gw = y.gw /\ z.stage = y.stage
      BY <2>3 DEF PublishedAs, Release
    <2>5. releases' = Replace(y, z)
      BY DEF Published
    <2> HIDE DEF z
    <2>6. SUFFICES ASSUME x = z PROVE FALSE
      BY <2>5 DEF Replace
    <2>7. /\ y.note \in Bundle /\ y.note.gw \in final /\ y.note.deadline <= latest[y.note.gw]
          /\ now < y.note.deadline
      BY <2>2, <2>3, <2>4, <2>6 DEF WellFormed, Sound, IsForecast
    <2>8. latest[y.note.gw] < now
      BY <2>7 DEF Core, CalendarInv, Bundle
    <2>9. /\ latest \in [Gameweeks -> 1..MaxTime] /\ 1..MaxTime \subseteq Int
          /\ 0..MaxTime \subseteq Int /\ now \in Int
      BY Bounds DEF Core, TypeInv
    <2>10. latest[y.note.gw] \in Int /\ y.note.deadline \in Int
      BY <2>7, <2>9 DEF Bundle
    <2> QED BY <2>7, <2>8, <2>9, <2>10
  <1>6. \/ releases' = releases \/ RemoveDraft
        \/ \E a \in Actors : CreateDraft(a) \/ Upload(a) \/ Patch(a)
    <2>1. ASSUME NEW a \in Actors,
                 \/ ResumeDraft(a) \/ CheckSlot(a) \/ CaptureFetch(a) \/ CaptureDone(a)
                 \/ Publish(a) \/ UploadRefused(a) \/ Confirm(a) \/ FindDraft(a) \/ Finish(a)
          PROVE  releases' = releases
      BY <2>1 DEF ResumeDraft, CheckSlot, CaptureFetch, CaptureDone, Publish, UploadRefused,
                  Confirm, FindDraft, Finish
    <2>2. ASSUME NEW a \in Actors,
                 \/ CollectActuals(a) \/ NextActual(a) \/ Report(a) \/ Evaluate(a)
                 \/ Crash(a) \/ Recover(a)
          PROVE  releases' = releases
      BY <2>2 DEF CollectActuals, NextActual, Report, Evaluate, Crash, Recover
    <2>3. ASSUME Start \/ MoveDeadline \/ BecomeFinal \/ Tick
          PROVE  releases' = releases
      BY <2>3 DEF Start, MoveDeadline, BecomeFinal, Tick
    <2> QED BY <2>1, <2>2, <2>3 DEF Next, RunStep
  <1> QED BY <1>1, <1>2, <1>3, <1>4, <1>5, <1>6

\* The best capture of a Gameweek is one, and no other is of a better stage.
LEMMA BestOf ==
  ASSUME Core, NEW g, Captures(g) # {}
  PROVE  Best(g) \in Captures(g) /\ \A y \in Captures(g) : Rank[Best(g).stage] <= Rank[y.stage]
  <1> DEFINE S == {Rank[x.stage] : x \in Captures(g)}
  <1>1. \A x \in Captures(g) : x.stage \in Stages
    BY DEF Captures, Core, ReleasesInv, WellFormed, Sound, Bundle
  <1>2. S \subseteq Nat /\ S # {}
    BY <1>1, StageAssumption
  <1>3. PICK n \in S : \A m \in S : n <= m
    BY <1>2, LeastExists
  <1>4. PICK x \in Captures(g) : n = Rank[x.stage]
    OBVIOUS
  <1>5. \A y \in Captures(g) : Rank[x.stage] <= Rank[y.stage]
    BY <1>3, <1>4
  <1> QED BY <1>5 DEF Best

LEMMA Unevaluated ==
  ASSUME Next, \A a \in Actors : ~Evaluate(a)
  PROVE  evaluated' = evaluated
  <1>1. ASSUME Start \/ RemoveDraft \/ MoveDeadline \/ BecomeFinal \/ Tick
        PROVE  evaluated' = evaluated
    BY <1>1 DEF Start, RemoveDraft, MoveDeadline, BecomeFinal, Tick, Local
  <1>2. ASSUME NEW a \in Actors,
               \/ ResumeDraft(a) \/ CheckSlot(a) \/ CaptureFetch(a) \/ CaptureDone(a)
               \/ Publish(a) \/ CreateDraft(a) \/ Upload(a) \/ UploadRefused(a)
        PROVE  evaluated' = evaluated
    BY <1>2 DEF ResumeDraft, CheckSlot, CaptureFetch, CaptureDone, Publish, CreateDraft, Upload,
                UploadRefused, Local
  <1>3. ASSUME NEW a \in Actors,
               \/ Confirm(a) \/ FindDraft(a) \/ Finish(a) \/ Patch(a)
               \/ CollectActuals(a) \/ NextActual(a) \/ Report(a) \/ Crash(a) \/ Recover(a)
        PROVE  evaluated' = evaluated
    BY <1>3 DEF Confirm, FindDraft, Finish, Patch, CollectActuals, NextActual, Report, Crash,
                Recover, Local
  <1> QED BY <1>1, <1>2, <1>3 DEF Next, RunStep

LEMMA FinalKept ==
  ASSUME Core, [Next]_vars
  PROVE  final \subseteq final'
  <1>1. CASE UNCHANGED vars
    BY <1>1 DEF vars, official
  <1>2. ASSUME Start \/ RemoveDraft \/ MoveDeadline \/ BecomeFinal \/ Tick
        PROVE  final \subseteq final'
    BY <1>2 DEF Start, RemoveDraft, MoveDeadline, BecomeFinal, Tick, Local, official
  <1>3. ASSUME NEW a \in Actors,
               \/ ResumeDraft(a) \/ CheckSlot(a) \/ CaptureFetch(a) \/ CaptureDone(a)
               \/ Publish(a) \/ CreateDraft(a) \/ Upload(a) \/ UploadRefused(a)
        PROVE  final \subseteq final'
    BY <1>3 DEF ResumeDraft, CheckSlot, CaptureFetch, CaptureDone, Publish, CreateDraft, Upload,
                UploadRefused, Local, official
  <1>4. ASSUME NEW a \in Actors,
               \/ Confirm(a) \/ FindDraft(a) \/ Finish(a) \/ Patch(a) \/ CollectActuals(a)
               \/ NextActual(a) \/ Report(a) \/ Evaluate(a) \/ Crash(a) \/ Recover(a)
        PROVE  final \subseteq final'
    BY <1>4 DEF Confirm, FindDraft, Finish, Patch, CollectActuals, NextActual, Report, Evaluate,
                Crash, Recover, Local, official
  <1> QED BY <1>1, <1>2, <1>3, <1>4 DEF Next, RunStep

\* What is evaluated is the best of what was published, and stays it.
LEMMA EvaluatedStep ==
  Core /\ EvaluatedInv /\ EvaluatedFairly /\ [Next]_vars => EvaluatedInv' /\ EvaluatedFairly'
  <1> SUFFICES ASSUME Core, EvaluatedInv, EvaluatedFairly, [Next]_vars
               PROVE  EvaluatedInv' /\ EvaluatedFairly'
    OBVIOUS
  <1>1. final \subseteq final'
    BY FinalKept
  <1>2. CASE UNCHANGED vars
    BY <1>2 DEF vars, official, EvaluatedInv, EvaluatedFairly, Captures
  <1>3. CASE Next /\ \A a \in Actors : ~Evaluate(a)
    <2>1. evaluated' = evaluated
      BY <1>3, Unevaluated
    <2>2. EvaluatedInv'
      BY <1>1, <2>1 DEF EvaluatedInv
    <2>3. ASSUME NEW e \in evaluated, NEW x \in releases', ~x.draft, x.gw = e.capture.gw,
                 x.stage # Actual
          PROVE  Rank[e.capture.stage] <= Rank[x.stage]
      <3>1. x.gw \in final
        BY <2>3 DEF EvaluatedInv
      <3>2. PICK z \in releases : ~z.draft /\ z.gw = x.gw /\ z.stage = x.stage
        BY <1>3, <2>3, <3>1, NothingBetter
      <3> QED BY <2>3, <3>2 DEF EvaluatedFairly, Captures
    <2> QED BY <2>1, <2>2, <2>3 DEF EvaluatedFairly, Captures
  <1>4. ASSUME NEW a \in Actors, Evaluate(a)
        PROVE  EvaluatedInv' /\ EvaluatedFairly'
    <2> DEFINE fair == {g \in job[a].news : /\ IsPublished(g, Actual) /\ Captures(g) # {}
                                            /\ Fair(Best(g).asset, ActualFor(g).asset.deadline)}
    <2>1. a = Runner /\ releases' = releases
      BY <1>4, RunnersAlone DEF Evaluate
    <2>2. evaluated' = evaluated \cup
              {[capture |-> Best(g).asset, deadline |-> ActualFor(g).asset.deadline] : g \in fair}
      BY <1>4 DEF Evaluate
    <2>3. ASSUME NEW e \in evaluated'
          PROVE  /\ e.capture \in Bundle /\ e.capture.stage # Actual /\ e.capture.gw \in final
                 /\ e.capture.captured < e.capture.deadline /\ e.capture.captured < e.deadline
                 /\ \A x \in Captures(e.capture.gw) : Rank[e.capture.stage] <= Rank[x.stage]
      <3>1. CASE e \in evaluated
        BY <3>1 DEF EvaluatedInv, EvaluatedFairly
      <3>2. CASE e \notin evaluated
        <4>1. PICK g \in fair : e = [capture |-> Best(g).asset,
                                     deadline |-> ActualFor(g).asset.deadline]
          BY <2>2, <2>3, <3>2
        <4>2. /\ Best(g) \in Captures(g)
              /\ \A y \in Captures(g) : Rank[Best(g).stage] <= Rank[y.stage]
          BY BestOf
        <4>3. Best(g) \in releases /\ ~Best(g).draft /\ Best(g).gw = g /\ Best(g).stage # Actual
          BY <4>2 DEF Captures
        <4>4. /\ Best(g).asset \in Bundle /\ Best(g).asset.gw = g
              /\ Best(g).asset.stage = Best(g).stage
          BY <4>3 DEF Core, ReleasesInv, WellFormed, Sound
        <4>5. g \in final
          BY <2>1 DEF Core, RunnerInv
        <4>6. Best(g).asset.captured < Best(g).asset.deadline
              /\ Best(g).asset.captured < ActualFor(g).asset.deadline
          BY DEF Fair
        <4>7. e.capture = Best(g).asset /\ e.deadline = ActualFor(g).asset.deadline
          BY <4>1
        <4> QED BY <4>2, <4>3, <4>4, <4>5, <4>6, <4>7
      <3> QED BY <3>1, <3>2
    <2> QED BY <1>1, <2>1, <2>3 DEF EvaluatedInv, EvaluatedFairly, Captures
  <1> QED BY <1>2, <1>3, <1>4

-----------------------------------------------------------------------------
(* The theorems. *)

\* The inductive invariant: who holds what, and what is published when.
THEOREM RecordingInvariant == Spec => []IInv
  <1>1. Init => IInv
    <2>1. Init => EvaluatedInv /\ HonestSuccess /\ EvaluatedFairly
      BY DEF Init, EvaluatedInv, HonestSuccess, EvaluatedFairly, NoReport
    <2> QED BY <2>1, CoreInit DEF IInv
  <1>2. IInv /\ [Next]_vars => IInv'
    BY CoreStep, HonestStep, EvaluatedStep DEF IInv
  <1> QED BY <1>1, <1>2, PTL DEF Spec

\* Types, and that only a complete bundle of its own tag is ever published (github.py).
THEOREM TypeCorrect == Spec => []TypeOK
  <1>1. IInv => TypeOK
    <2> SUFFICES ASSUME Core PROVE TypeOK
      BY DEF IInv
    <2>1. ASSUME NEW x \in releases PROVE ReleaseOK(x)
      <3>1. x \in Release /\ WellFormed(x) /\ (~x.draft => x.asset = x.note)
        BY DEF Core, TypeInv, ReleasesInv
      <3> QED BY <3>1 DEF ReleaseOK, Release, WellFormed, Sound
    <2>2. \A a \in Actors : job[a].bundle \in Bundle \cup {NoBundle}
      BY DEF Core, TypeInv, Job
    <2> QED BY <2>1, <2>2 DEF Core, TypeInv, TypeOK
  <1> QED BY <1>1, RecordingInvariant, PTL

\* Whoever publishes, the forecast was complete, uploaded and published before the
\* deadline it knew, whatever fails and however long the calls take.
THEOREM ForecastsPublishedInTime == Spec => []PublishedInTime
  <1>1. IInv => PublishedInTime
    BY DEF IInv, Core, ReleasesInv, WellFormed, Sound, IsForecast, Prompt, PublishedInTime
  <1> QED BY <1>1, RecordingInvariant, PTL

\* A release never holds another candidate than the one that reserved it.
THEOREM CandidatesNotExchanged == Spec => []OriginalCandidate
  <1>1. IInv => OriginalCandidate
    BY DEF IInv, Core, ReleasesInv, WellFormed, IsBundle, OriginalCandidate
  <1> QED BY <1>1, RecordingInvariant, PTL

\* A run that reports success has left nothing behind.
THEOREM SuccessIsHonest == Spec => []HonestSuccess
  <1>1. IInv => HonestSuccess
    BY DEF IInv
  <1> QED BY <1>1, RecordingInvariant, PTL

\* What was compared with the points precedes both deadlines and stays the best stage.
THEOREM EvaluationIsFair == Spec => []EvaluatedFairly
  <1>1. IInv => EvaluatedFairly
    BY DEF IInv
  <1> QED BY <1>1, RecordingInvariant, PTL

-----------------------------------------------------------------------------
(* The risk history                                                        *)

-----------------------------------------------------------------------------
(* The first n of a finite set by an order                                 *)

\* The members of L that are above p, by the order R.
Above(L, R, p) == {q \in L : <<q, p>> \in R}

\* The members of L that fewer than n members of L are above.
Top(L, R, n) == {p \in L : Cardinality(Above(L, R, p)) < n}

LEMMA AboveFinite ==
    ASSUME NEW L, NEW R, IsFiniteSet(L), NEW p
    PROVE  /\ IsFiniteSet(Above(L, R, p)) /\ Above(L, R, p) \subseteq L
           /\ Cardinality(Above(L, R, p)) \in Nat
<1>1. Above(L, R, p) \in SUBSET L
  BY DEF Above
<1> QED
  BY <1>1, FS_Subset, FS_CardinalityType

\* A finite set has a member with the fewest above it.
LEMMA FewestAbove ==
    ASSUME NEW L, NEW R, IsFiniteSet(L), NEW B \in SUBSET L, B # {}
    PROVE  \E b \in B : \A c \in B : Cardinality(Above(L, R, b)) <= Cardinality(Above(L, R, c))
<1> DEFINE Counts == {Cardinality(Above(L, R, b)) : b \in B}
<1>1. \A b \in B : Cardinality(Above(L, R, b)) \in Nat
  BY AboveFinite
<1>2. Counts \in SUBSET Nat /\ Counts # {}
  BY <1>1
<1>3. PICK m \in Counts : \A c \in Counts : m <= c
  <2> HIDE DEF Counts
  <2> QED
    BY <1>2, LeastExists
<1>4. PICK b \in B : m = Cardinality(Above(L, R, b))
  BY <1>3
<1> QED
  BY <1>3, <1>4

\* If there are n members there are n first ones.
LEMMA TopIsFull ==
    ASSUME NEW L, IsFiniteSet(L), NEW R, NEW n \in Nat, Cardinality(L) >= n,
           \A x \in L : <<x, x>> \notin R,
           \A x, y, z \in L : <<x, y>> \in R /\ <<y, z>> \in R => <<x, z>> \in R
    PROVE  Cardinality(Top(L, R, n)) >= n
<1> DEFINE B == {p \in L : ~(Cardinality(Above(L, R, p)) < n)}
<1>0. \A p \in L : IsFiniteSet(Above(L, R, p)) /\ Cardinality(Above(L, R, p)) \in Nat
  BY AboveFinite
<1>1. CASE B = {}
  <2>1. Top(L, R, n) = L
    BY <1>1 DEF Top
  <2> QED
    BY <2>1
<1>2. CASE B # {}
  <2>1. PICK b \in B : \A c \in B : Cardinality(Above(L, R, b)) <= Cardinality(Above(L, R, c))
    <3>1. B \in SUBSET L
      OBVIOUS
    <3> HIDE DEF B
    <3> QED
      BY <1>2, <3>1, FewestAbove
  <2>2. b \in L /\ Cardinality(Above(L, R, b)) >= n
    BY <1>0
  <2>3. Above(L, R, b) \subseteq Top(L, R, n)
    <3> SUFFICES ASSUME NEW x \in Above(L, R, b), x \notin Top(L, R, n) PROVE FALSE
      OBVIOUS
    <3>1. x \in L /\ <<x, b>> \in R
      BY DEF Above
    <3>2. x \in B
      BY <3>1 DEF Top
    <3>3. Above(L, R, x) \in SUBSET Above(L, R, b)
      BY <2>2, <3>1 DEF Above
    <3>4. Cardinality(Above(L, R, x)) = Cardinality(Above(L, R, b)) => Above(L, R, x) = Above(L, R, b)
      BY <3>3, <2>2, <1>0, FS_Subset
    <3>5. Cardinality(Above(L, R, x)) <= Cardinality(Above(L, R, b))
      BY <3>3, <2>2, <1>0, FS_Subset
    <3>6. Cardinality(Above(L, R, x)) = Cardinality(Above(L, R, b))
      <4> HIDE DEF B
      <4> QED
        BY <2>1, <2>2, <3>1, <3>2, <3>5, <1>0
    <3>7. x \in Above(L, R, b) /\ x \notin Above(L, R, x)
      BY <3>1 DEF Above
    <3> QED
      BY <3>4, <3>6, <3>7
  <2>4. IsFiniteSet(Top(L, R, n))
    <3>1. Top(L, R, n) \in SUBSET L
      BY DEF Top
    <3> QED
      BY <3>1, FS_Subset
  <2>5. Cardinality(Above(L, R, b)) <= Cardinality(Top(L, R, n))
    <3>1. Above(L, R, b) \in SUBSET Top(L, R, n)
      BY <2>3
    <3> QED
      BY <3>1, <2>4, FS_Subset
  <2>6. Cardinality(Top(L, R, n)) \in Nat
    BY <2>4, FS_CardinalityType
  <2> QED
    BY <2>2, <2>5, <2>6, <1>0
<1> QED
  BY <1>1, <1>2

-----------------------------------------------------------------------------
(* The inductive invariant                                                 *)

Newer(o) == {p \in saved : p.recorded > o.recorded}
NewerOfGroup(o) == {p \in OfGroup(saved, o.group) : p.recorded > o.recorded}

\* Every observation is recorded at a moment of its own, of scores a generation still had.
RecordsInv ==
    /\ moment \in 0..MaxRecords
    /\ IsFiniteSet(saved) /\ rows \subseteq saved /\ making \cap saved = {}
    /\ \A o \in making \cup saved :
          /\ o.recorded \in 1..moment /\ o.source \in Nat
          /\ o.source <= o.recorded /\ o.recorded - Cached <= o.source
    /\ \A o \in saved : Contemporary(o)
    /\ \A o, p \in making \cup saved : o.recorded = p.recorded => o = p

\* What is no longer stored had enough newer ones.
PruningInv ==
    \A o \in saved \ rows :
        \/ Cardinality(NewerOfGroup(o)) >= Keep
        \/ Cardinality(Newer(o)) >= Overall

HistoryInv == RecordsInv /\ PruningInv

LEMMA Limits ==
    /\ Keep \in Nat /\ Overall \in Nat /\ Serve \in Nat /\ Delay \in Nat /\ Cached \in Nat /\ MaxRecords \in Nat
    /\ Keep >= Serve + Delay + Cached
BY RetentionAssumption

\* A set that something larger and finite includes is not larger.
LEMMA AtLeast ==
    ASSUME NEW S, NEW T, IsFiniteSet(T), S \subseteq T, NEW n \in Nat, Cardinality(S) >= n
    PROVE  Cardinality(T) >= n
<1>1. S \in SUBSET T
  OBVIOUS
<1>2. Cardinality(S) <= Cardinality(T) /\ IsFiniteSet(S)
  BY <1>1, FS_Subset
<1>3. Cardinality(S) \in Nat /\ Cardinality(T) \in Nat
  BY <1>2, FS_CardinalityType
<1> QED
  BY <1>2, <1>3

LEMMA RecordStep ==
    ASSUME HistoryInv, NEW f \in Outlooks, NEW source \in (moment + 1 - Cached)..(moment + 1),
           source >= 0, Record(f, source)
    PROVE  HistoryInv'
<1> DEFINE o == [group |-> f.group, source |-> source, series |-> f.series, recorded |-> moment + 1]
<1>1. /\ moment' = moment + 1 /\ moment < MaxRecords /\ making' = making \cup {o}
      /\ rows' = rows /\ saved' = saved
  BY DEF Record
<1>2. moment \in Nat /\ moment <= MaxRecords
  BY Limits DEF HistoryInv, RecordsInv
<1>3. o.recorded = moment + 1 /\ o.source = source
  OBVIOUS
<1>4. o \notin saved /\ \A p \in making \cup saved : p.recorded # o.recorded
  BY <1>2, <1>3 DEF HistoryInv, RecordsInv
<1>5. PruningInv'
  BY <1>1 DEF HistoryInv, PruningInv, Newer, NewerOfGroup, OfGroup
<1>6. RecordsInv'
  <2> HIDE DEF o
  <2>1. /\ moment' \in 0..MaxRecords /\ IsFiniteSet(saved') /\ rows' \subseteq saved'
        /\ making' \cap saved' = {}
    BY <1>1, <1>2, <1>4, Limits DEF HistoryInv, RecordsInv
  <2>2. ASSUME NEW p \in making' \cup saved'
        PROVE  /\ p.recorded \in 1..moment' /\ p.source \in Nat
               /\ p.source <= p.recorded /\ p.recorded - Cached <= p.source
    <3>1. CASE p = o
      BY <3>1, <1>1, <1>2, <1>3, Limits
    <3>2. CASE p \in making \cup saved
      BY <3>2, <1>1, <1>2, Limits DEF HistoryInv, RecordsInv
    <3> QED
      BY <3>1, <3>2, <1>1
  <2>3. \A p \in saved' : Contemporary(p)
    BY <1>1 DEF HistoryInv, RecordsInv
  <2>4. \A p, q \in making' \cup saved' : p.recorded = q.recorded => p = q
    BY <1>1, <1>4 DEF HistoryInv, RecordsInv
  <2> QED
    BY <2>1, <2>2, <2>3, <2>4 DEF RecordsInv, Contemporary
<1> QED
  BY <1>5, <1>6 DEF HistoryInv

LEMMA UnrecordedStep ==
    ASSUME HistoryInv, NEW o \in making, Unrecorded(o)
    PROVE  HistoryInv'
<1>1. making' \subseteq making /\ moment' = moment /\ rows' = rows /\ saved' = saved
  BY DEF Unrecorded
<1>2. PruningInv'
  BY <1>1 DEF HistoryInv, PruningInv, Newer, NewerOfGroup, OfGroup
<1>3. RecordsInv'
  BY <1>1 DEF HistoryInv, RecordsInv, Contemporary
<1> QED
  BY <1>2, <1>3 DEF HistoryInv

\* What Newest leaves out has that many newer ones in the set it is taken from.
LEMMA LeftOut ==
    ASSUME NEW S, IsFiniteSet(S), NEW n \in Nat, NEW x \in S \ Newest(S, n)
    PROVE  Cardinality({p \in S : p.recorded > x.recorded}) >= n
<1>1. {p \in S : p.recorded > x.recorded} \in SUBSET S
  OBVIOUS
<1>2. Cardinality({p \in S : p.recorded > x.recorded}) \in Nat
  BY <1>1, FS_Subset, FS_CardinalityType
<1> QED
  BY <1>2 DEF Newest

LEMMA AppendStep ==
    ASSUME HistoryInv, NEW o \in making, Append(o)
    PROVE  HistoryInv'
<1> DEFINE Ins == Inserted(o)
           G == OfGroup(Ins, o.group)
           X == (Ins \ G) \cup Newest(G, Keep)
<1>1. /\ making' = making \ {o} /\ Contemporary(o) /\ moment' = moment
      /\ rows' = Newest(X, Overall) /\ saved' = saved \cup (Ins \ rows)
  BY DEF Append, Pruned
<1>2. rows \subseteq Ins /\ Ins \subseteq rows \cup {o}
  BY DEF Inserted
<1>3. saved \subseteq saved' /\ saved' \subseteq saved \cup {o} /\ Ins \subseteq saved'
  BY <1>1, <1>2 DEF HistoryInv, RecordsInv
<1>4. G \subseteq Ins /\ X \subseteq Ins /\ rows' \subseteq X
  BY <1>1 DEF OfGroup, Newest
<1>5. IsFiniteSet(saved')
  <2>1. IsFiniteSet(saved \cup {o})
    BY FS_AddElement DEF HistoryInv, RecordsInv
  <2>2. saved' \in SUBSET (saved \cup {o})
    BY <1>3
  <2> QED
    BY <2>1, <2>2, FS_Subset
<1>6. IsFiniteSet(G) /\ IsFiniteSet(X)
  <2>1. G \in SUBSET saved' /\ X \in SUBSET saved'
    BY <1>3, <1>4
  <2> HIDE DEF G, X
  <2> QED
    BY <2>1, <1>5, FS_Subset
<1>7. RecordsInv'
  <2> HIDE DEF Ins, G, X
  <2>1. making' \cap saved' = {} /\ making' \cup saved' \subseteq making \cup saved
    BY <1>1, <1>3 DEF HistoryInv, RecordsInv
  <2>2. rows' \subseteq saved' /\ IsFiniteSet(saved') /\ moment' \in 0..MaxRecords
    BY <1>1, <1>3, <1>4, <1>5 DEF HistoryInv, RecordsInv
  <2>3. \A p \in saved' : p.recorded - p.source \in 0..Delay
    BY <1>1, <1>3 DEF HistoryInv, RecordsInv, Contemporary
  <2>4. ASSUME NEW p \in making' \cup saved'
        PROVE  /\ p.recorded \in 1..moment' /\ p.source \in Nat
               /\ p.source <= p.recorded /\ p.recorded - Cached <= p.source
    BY <1>1, <2>1, <2>4 DEF HistoryInv, RecordsInv
  <2>5. \A p, q \in making' \cup saved' : p.recorded = q.recorded => p = q
    BY <2>1 DEF HistoryInv, RecordsInv
  <2> QED
    BY <2>1, <2>2, <2>3, <2>4, <2>5 DEF RecordsInv, Contemporary
<1>8. ASSUME NEW x \in saved' \ rows'
      PROVE  \/ Cardinality(NewerOfGroup(x)') >= Keep
             \/ Cardinality(Newer(x)') >= Overall
  <2>1. /\ IsFiniteSet(Newer(x)') /\ IsFiniteSet(NewerOfGroup(x)')
    <3>1. Newer(x)' \in SUBSET saved' /\ NewerOfGroup(x)' \in SUBSET saved'
      BY DEF Newer, NewerOfGroup, OfGroup
    <3> QED
      BY <3>1, <1>5, FS_Subset
  <2>2. CASE x \in saved \ rows
    <3>1. Newer(x) \subseteq Newer(x)' /\ NewerOfGroup(x) \subseteq NewerOfGroup(x)'
      BY <1>3 DEF Newer, NewerOfGroup, OfGroup
    <3>2. Cardinality(NewerOfGroup(x)) >= Keep \/ Cardinality(Newer(x)) >= Overall
      BY <2>2 DEF HistoryInv, PruningInv
    <3> QED
      BY <2>1, <3>1, <3>2, Limits, AtLeast
  <2>3. CASE x \in G \ Newest(G, Keep)
    <3>1. Cardinality({p \in G : p.recorded > x.recorded}) >= Keep
      <4> HIDE DEF G
      <4> QED
        BY <1>6, <2>3, Limits, LeftOut
    <3>2. {p \in G : p.recorded > x.recorded} \subseteq NewerOfGroup(x)'
      BY <2>3, <1>3 DEF NewerOfGroup, OfGroup
    <3> QED
      BY <2>1, <3>1, <3>2, Limits, AtLeast
  <2>4. CASE x \in X
    <3>1. Cardinality({p \in X : p.recorded > x.recorded}) >= Overall
      <4> HIDE DEF X
      <4> QED
        BY <1>1, <1>6, <2>4, Limits, LeftOut
    <3>2. {p \in X : p.recorded > x.recorded} \subseteq Newer(x)'
      <4> HIDE DEF X
      <4> QED
        BY <1>3, <1>4 DEF Newer
    <3> QED
      BY <2>1, <3>1, <3>2, Limits, AtLeast
  <2>5. x \in saved \ rows \/ x \in Ins
    BY <1>1, <1>2
  <2> QED
    BY <2>2, <2>3, <2>4, <2>5
<1>9. PruningInv'
  BY <1>8 DEF PruningInv
<1> QED
  BY <1>7, <1>9 DEF HistoryInv

-----------------------------------------------------------------------------
(* Readings                                                                *)

Asked(g, upTo) == {o \in OfGroup(rows, g) : o.source <= upTo}

LEMMA AskedFinite ==
    ASSUME RecordsInv, NEW g, NEW upTo
    PROVE  IsFiniteSet(Asked(g, upTo)) /\ Asked(g, upTo) \subseteq saved /\ Read(g, upTo) \subseteq Asked(g, upTo)
<1>1. Asked(g, upTo) \in SUBSET saved
  BY DEF Asked, OfGroup, RecordsInv
<1>2. IsFiniteSet(Asked(g, upTo))
  BY <1>1, FS_Subset DEF RecordsInv
<1> QED
  BY <1>1, <1>2 DEF Read, Asked

\* What is asked for and not read has Serve later ones in the reading.
LEMMA ReadingIsFull ==
    ASSUME RecordsInv, NEW g, NEW upTo, NEW o \in saved,
           Cardinality({p \in Asked(g, upTo) : Later(p, o)}) >= Serve
    PROVE  Cardinality({p \in Read(g, upTo) : Later(p, o)}) >= Serve
<1> DEFINE A == Asked(g, upTo)
           L == {p \in A : Later(p, o)}
           R == {e \in A \X A : Later(e[1], e[2])}
<1>1. IsFiniteSet(A) /\ A \subseteq saved
  BY AskedFinite
<1>2. IsFiniteSet(L)
  <2>1. L \in SUBSET A
    OBVIOUS
  <2> HIDE DEF A, L
  <2> QED
    BY <1>1, <2>1, FS_Subset
<1>3. \A x \in saved : x.source \in Nat /\ x.recorded \in Nat
  BY DEF RecordsInv
<1>4. \A x \in L : <<x, x>> \notin R
  <2> HIDE DEF A
  <2> QED
    BY <1>1, <1>3 DEF Later
<1>5. \A x, y, z \in L : <<x, y>> \in R /\ <<y, z>> \in R => <<x, z>> \in R
  <2> HIDE DEF A
  <2> QED
    BY <1>1, <1>3 DEF Later
<1>6. Cardinality(Top(L, R, Serve)) >= Serve
  <2>1. Cardinality(L) >= Serve
    OBVIOUS
  <2> HIDE DEF L, R
  <2> QED
    BY <1>2, <1>4, <1>5, <2>1, Limits, TopIsFull
<1>7. ASSUME NEW p \in Top(L, R, Serve)
      PROVE  p \in {q \in Read(g, upTo) : Later(q, o)}
  <2>1. p \in L /\ Cardinality(Above(L, R, p)) < Serve
    BY DEF Top
  <2>2. Above(L, R, p) = {q \in A : Later(q, p)}
    <3> HIDE DEF A
    <3>1. \A q \in A : Later(q, p) => Later(q, o)
      BY <1>1, <1>3, <2>1 DEF Later
    <3> QED
      BY <2>1, <3>1 DEF Above
  <2>3. p \in Read(g, upTo)
    BY <2>1, <2>2 DEF Read, Asked
  <2> QED
    BY <2>1, <2>3
<1>8. IsFiniteSet({q \in Read(g, upTo) : Later(q, o)})
  <2>1. {q \in Read(g, upTo) : Later(q, o)} \in SUBSET A
    BY AskedFinite
  <2> HIDE DEF A
  <2> QED
    BY <1>1, <2>1, FS_Subset
<1>9. Top(L, R, Serve) \subseteq {q \in Read(g, upTo) : Later(q, o)}
  BY <1>7
<1> QED
  BY <1>6, <1>8, <1>9, Limits, AtLeast

\* Observations recorded within an interval are no more than its moments.
LEMMA RecordedWithin ==
    ASSUME RecordsInv, NEW S \in SUBSET saved, NEW a \in Int, NEW b \in Int, NEW n \in Nat,
           \A o \in S : o.recorded \in a..b, b - a + 1 <= n
    PROVE  Cardinality(S) <= n
<1> DEFINE f == [o \in S |-> o.recorded]
<1>1. f \in Injection(S, a..b)
  BY DEF Injection, IsInjective, RecordsInv
<1>2. IsFiniteSet(a..b) /\ Cardinality(a..b) = IF a > b THEN 0 ELSE b - a + 1
  BY FS_Interval
<1>3. Cardinality(S) <= Cardinality(a..b)
  <2> HIDE DEF f
  <2> QED
    BY <1>1, <1>2, FS_Injection
<1>4. Cardinality(S) \in Nat
  BY FS_Subset, FS_CardinalityType DEF RecordsInv
<1> QED
  BY <1>2, <1>3, <1>4

\* Of what is newer than an observation deleted of its group, Keep are stored.
LEMMA NewestStored ==
    ASSUME HistoryInv, NEW o \in saved, Cardinality(NewerOfGroup(o)) >= Keep,
           ~(Cardinality(Newer(o)) >= Overall)
    PROVE  \E T \in SUBSET rows : /\ T \subseteq NewerOfGroup(o)
                                  /\ IsFiniteSet(T) /\ Cardinality(T) >= Keep
<1> DEFINE K == NewerOfGroup(o)
           R == {e \in K \X K : e[1].recorded > e[2].recorded}
           T == Top(K, R, Keep)
<1>1. IsFiniteSet(saved) /\ \A x \in saved : x.recorded \in Nat
  BY DEF HistoryInv, RecordsInv
<1>2. IsFiniteSet(K) /\ K \subseteq saved
  <2>1. K \in SUBSET saved
    BY DEF NewerOfGroup, OfGroup
  <2> HIDE DEF K
  <2> QED
    BY <1>1, <2>1, FS_Subset
<1>3. Cardinality(T) >= Keep
  <2> HIDE DEF K
  <2>1. \A x \in K : <<x, x>> \notin R
    BY <1>1, <1>2
  <2>2. \A x, y, z \in K : <<x, y>> \in R /\ <<y, z>> \in R => <<x, z>> \in R
    BY <1>1, <1>2
  <2>3. Cardinality(K) >= Keep
    BY DEF K
  <2> HIDE DEF R
  <2> QED
    BY <1>2, <2>1, <2>2, <2>3, Limits, TopIsFull
<1>4. T \in SUBSET K
  BY DEF Top
<1>5. IsFiniteSet(T)
  <2> HIDE DEF T, K
  <2> QED
    BY <1>2, <1>4, FS_Subset
<1>6. ASSUME NEW p \in T, p \notin rows PROVE FALSE
  <2>1. p \in K /\ p \in saved \ rows /\ Cardinality(Above(K, R, p)) < Keep
    BY <1>2, <1>4, <1>6 DEF Top
  <2>2. p.recorded > o.recorded /\ p.group = o.group
    BY <2>1 DEF NewerOfGroup, OfGroup
  <2>3. CASE Cardinality(NewerOfGroup(p)) >= Keep
    <3>1. NewerOfGroup(p) = Above(K, R, p)
      BY <1>1, <2>1, <2>2 DEF NewerOfGroup, OfGroup, Above
    <3> HIDE DEF K, R
    <3>2. Cardinality(Above(K, R, p)) \in Nat
      BY <1>2, AboveFinite
    <3> QED
      BY <2>1, <2>3, <3>1, <3>2, Limits
  <2>4. CASE Cardinality(Newer(p)) >= Overall
    <3>1. Newer(p) \subseteq Newer(o)
      BY <1>1, <2>1, <2>2 DEF Newer
    <3>2. IsFiniteSet(Newer(o))
      <4>1. Newer(o) \in SUBSET saved
        BY DEF Newer
      <4> QED
        BY <1>1, <4>1, FS_Subset
    <3> QED
      BY <2>4, <3>1, <3>2, Limits, AtLeast
  <2> QED
    BY <2>1, <2>3, <2>4 DEF HistoryInv, PruningInv
<1> QED
  BY <1>3, <1>4, <1>5, <1>6

\* Of those, Serve are asked for and later.
LEMMA DeletedIsLate ==
    ASSUME HistoryInv, NEW g, NEW upTo \in (moment - Cached)..moment,
           NEW o \in OfGroup(saved, g), o.source <= upTo, o \notin rows,
           ~(Cardinality(Newer(o)) >= Overall)
    PROVE  Cardinality({p \in Asked(g, upTo) : Later(p, o)}) >= Serve
<1> DEFINE E == {p \in Asked(g, upTo) : Later(p, o)}
<1>1. /\ o \in saved /\ o.group = g /\ IsFiniteSet(saved) /\ rows \subseteq saved
      /\ moment \in Nat /\ upTo \in Int /\ moment - Cached <= upTo
  BY Limits DEF OfGroup, HistoryInv, RecordsInv
<1>2. \A x \in saved : /\ x.recorded \in Nat /\ x.source \in Nat /\ x.recorded <= moment
                       /\ x.source <= x.recorded /\ x.recorded - x.source <= Delay
  BY Limits, <1>1 DEF HistoryInv, RecordsInv, Contemporary
<1>3. Cardinality(NewerOfGroup(o)) >= Keep
  BY <1>1 DEF HistoryInv, PruningInv
<1>4. PICK T \in SUBSET rows : T \subseteq NewerOfGroup(o) /\ IsFiniteSet(T) /\ Cardinality(T) >= Keep
  BY <1>1, <1>3, NewestStored
<1> DEFINE Ahead == {p \in T : p.source > upTo}
           Behind == {p \in T : p.source < o.source}
<1>5. T \subseteq saved /\ \A p \in T : p \in rows /\ p.group = g /\ p.recorded > o.recorded
  BY <1>1, <1>4 DEF NewerOfGroup, OfGroup
<1>6. Cardinality(Ahead) <= Cached
  <2>1. \A p \in Ahead : p.recorded \in (upTo + 1)..moment
    BY <1>1, <1>2, <1>5
  <2>2. Ahead \in SUBSET saved /\ moment - (upTo + 1) + 1 <= Cached
    BY <1>1, <1>5, Limits
  <2> HIDE DEF Ahead
  <2> QED
    BY <1>1, <2>1, <2>2, Limits, RecordedWithin DEF HistoryInv
<1>7. Cardinality(Behind) <= Delay
  <2> DEFINE a == o.recorded + 1
             b == o.recorded + Delay
  <2>1. \A p \in Behind : p.recorded \in a..b
    BY <1>1, <1>2, <1>5, Limits
  <2>2. Behind \in SUBSET saved /\ b - a + 1 <= Delay
    BY <1>1, <1>2, <1>5, Limits
  <2>3. a \in Int /\ b \in Int
    BY <1>1, <1>2, Limits
  <2> HIDE DEF Behind, a, b
  <2> QED
    BY <2>1, <2>2, <2>3, Limits, RecordedWithin DEF HistoryInv
<1>8. (T \ Ahead) \ Behind \subseteq E
  BY <1>1, <1>2, <1>5 DEF Asked, OfGroup, Later
<1>9. Cardinality((T \ Ahead) \ Behind) >= Serve
  <2>1. Ahead \in SUBSET T /\ Behind \in SUBSET T
    OBVIOUS
  <2> HIDE DEF Ahead, Behind
  <2>2. /\ IsFiniteSet(T \ Ahead) /\ Cardinality(T \ Ahead) = Cardinality(T) - Cardinality(T \cap Ahead)
    BY <1>4, FS_Difference
  <2>3. Cardinality((T \ Ahead) \ Behind) = Cardinality(T \ Ahead) - Cardinality((T \ Ahead) \cap Behind)
    BY <2>2, FS_Difference
  <2>7. Cardinality(T \cap Ahead) = Cardinality(Ahead)
    <3>1. T \cap Ahead = Ahead
      BY <2>1
    <3> QED
      BY <3>1
  <2>4. IsFiniteSet(Behind) /\ IsFiniteSet(Ahead)
    BY <1>4, <2>1, FS_Subset
  <2>5. Cardinality((T \ Ahead) \cap Behind) <= Cardinality(Behind)
    <3>1. (T \ Ahead) \cap Behind \in SUBSET Behind
      OBVIOUS
    <3> QED
      BY <2>4, <3>1, FS_Subset
  <2>6. /\ Cardinality(T) \in Nat /\ Cardinality(Ahead) \in Nat /\ Cardinality(Behind) \in Nat
        /\ Cardinality((T \ Ahead) \cap Behind) \in Nat
    <3>1. IsFiniteSet((T \ Ahead) \cap Behind)
      BY <2>2, FS_Intersection
    <3> QED
      BY <1>4, <2>4, <3>1, FS_CardinalityType
  <2> DEFINE t == Cardinality(T)
             d == Cardinality((T \ Ahead) \ Behind)
             e == Cardinality((T \ Ahead) \cap Behind)
             h == Cardinality(Ahead)
             k == Cardinality(Behind)
  <2>8. /\ t \in Nat /\ e \in Nat /\ h \in Nat /\ k \in Nat /\ t >= Keep
        /\ h <= Cached /\ k <= Delay /\ e <= k /\ d = t - h - e
    BY <1>4, <1>6, <1>7, <2>2, <2>3, <2>5, <2>6, <2>7
  <2> HIDE DEF t, d, e, h, k
  <2>9. d >= Serve
    BY <2>8, Limits
  <2> QED
    BY <2>9 DEF d
<1>10. IsFiniteSet(E)
  <2>1. E \in SUBSET saved
    BY AskedFinite DEF HistoryInv
  <2> HIDE DEF E
  <2> QED
    BY <1>1, <2>1, FS_Subset
<1> HIDE DEF Ahead, Behind
<1> QED
  BY <1>8, <1>9, <1>10, Limits, AtLeast

\* What is stored, asked for and not read gives way.
LEMMA UnreadGivesWay ==
    ASSUME HistoryInv, NEW g, NEW upTo \in (moment - Cached)..moment,
           NEW o \in OfGroup(saved, g), o.source <= upTo, o \notin Read(g, upTo)
    PROVE  GivesWay(o, Read(g, upTo))
<1>1. o \in saved /\ RecordsInv
  BY DEF OfGroup, HistoryInv
<1>2. CASE o \in rows
  <2>1. o \in Asked(g, upTo)
    BY <1>2 DEF Asked, OfGroup
  <2>2. ~(Cardinality({p \in Asked(g, upTo) : Later(p, o)}) < Serve)
    BY <2>1 DEF Read, Asked
  <2>3. Cardinality({p \in Asked(g, upTo) : Later(p, o)}) \in Nat
    <3>1. IsFiniteSet(Asked(g, upTo))
      BY <1>1, AskedFinite
    <3>2. {p \in Asked(g, upTo) : Later(p, o)} \in SUBSET Asked(g, upTo)
      OBVIOUS
    <3> QED
      BY <3>1, <3>2, FS_Subset, FS_CardinalityType
  <2> QED
    BY <1>1, <2>2, <2>3, Limits, ReadingIsFull DEF GivesWay
<1>3. CASE o \notin rows
  <2>1. CASE Cardinality(Newer(o)) >= Overall
    BY <2>1 DEF GivesWay, Newer
  <2>2. CASE ~(Cardinality(Newer(o)) >= Overall)
    BY <1>1, <1>3, <2>2, DeletedIsLate, ReadingIsFull DEF GivesWay
  <2> QED
    BY <2>1, <2>2
<1> QED
  BY <1>2, <1>3

\* So no observation was between one that is read and the one its changes are since.
LEMMA NothingBetween ==
    ASSUME HistoryInv, NEW g, NEW upTo \in (moment - Cached)..moment,
           NEW o \in Read(g, upTo), NEW p \in Since(o, Read(g, upTo)),
           NEW q \in OfGroup(saved, g), q.series = o.series, Later(o, q), Later(q, p)
    PROVE  Cardinality(Newer(q)) >= Overall
<1> DEFINE reading == Read(g, upTo)
           E == {r \in Asked(g, upTo) : Later(r, p)}
<1>1. /\ RecordsInv /\ IsFiniteSet(Asked(g, upTo)) /\ Asked(g, upTo) \subseteq saved
      /\ reading \subseteq Asked(g, upTo)
  BY AskedFinite DEF HistoryInv
<1>2. p \in reading /\ q \in saved /\ o \in saved /\ p \in saved /\ o.source <= upTo
  BY <1>1 DEF Since, OfGroup, Asked
<1>3. \A x \in saved : x.source \in Nat /\ x.recorded \in Nat
  BY <1>1 DEF RecordsInv
<1>4. q \notin reading
  BY <1>2, <1>3 DEF Since, Later
<1>5. q.source <= upTo
  <2>1. upTo \in Int /\ q.source <= o.source
    BY <1>2, <1>3 DEF Later
  <2> QED
    BY <1>2, <1>3, <2>1
<1>6. GivesWay(q, reading)
  BY <1>4, <1>5, UnreadGivesWay
<1>7. CASE Cardinality({r \in reading : Later(r, q)}) >= Serve
  <2>1. {r \in reading : Later(r, q)} \subseteq E
    BY <1>1, <1>2, <1>3 DEF Later
  <2>2. E \in SUBSET Asked(g, upTo)
    OBVIOUS
  <2>3. IsFiniteSet(E) /\ Cardinality(E) \in Nat
    <3> HIDE DEF E
    <3> QED
      BY <1>1, <2>2, FS_Subset, FS_CardinalityType
  <2>4. Cardinality(E) >= Serve
    <3> HIDE DEF E
    <3> QED
      BY <1>7, <2>1, <2>3, Limits, AtLeast
  <2>5. Cardinality(E) < Serve
    BY <1>2 DEF Read, Asked
  <2> HIDE DEF E
  <2> QED
    BY <2>3, <2>4, <2>5, Limits
<1> QED
  BY <1>6, <1>7 DEF GivesWay, Newer

-----------------------------------------------------------------------------
(* What holds of every behaviour                                           *)

\* Nothing a reading would serve was deleted, whatever order the observations were stored in.
THEOREM ReadingsAreComplete == HistoryInv => NewestServed
<1> SUFFICES ASSUME HistoryInv, NEW f \in Outlooks, NEW upTo \in (moment - Cached)..moment
             PROVE  /\ \A o \in OfGroup(saved, f.group) :
                          o.source <= upTo /\ o \notin Read(f.group, upTo) => GivesWay(o, Read(f.group, upTo))
                    /\ \A o \in Read(f.group, upTo) : \A p \in Since(o, Read(f.group, upTo)) :
                         \A q \in OfGroup(saved, f.group) :
                           q.series = o.series /\ Later(o, q) /\ Later(q, p) => Cardinality(Newer(q)) >= Overall
  BY DEF NewestServed, Newer
<1> QED
  BY UnreadGivesWay, NothingBetween

\* The newest observations a generation could be compared with are served: every reading of a
\* generation still cached is complete, and a change is since the observation just before.
THEOREM NewestAreServed == RiskSpec => []NewestServed
<1>1. RiskInit => HistoryInv
  BY Limits, FS_EmptySet DEF RiskInit, HistoryInv, RecordsInv, PruningInv, Contemporary
<1>2. HistoryInv /\ [RiskNext]_riskVars => HistoryInv'
  <2> SUFFICES ASSUME HistoryInv, [RiskNext]_riskVars PROVE HistoryInv'
    OBVIOUS
  <2>1. CASE UNCHANGED riskVars
    BY <2>1 DEF riskVars, HistoryInv, RecordsInv, PruningInv, Contemporary, Newer, NewerOfGroup, OfGroup
  <2>2. CASE RiskNext
    BY <2>2, RecordStep, AppendStep, UnrecordedStep DEF RiskNext
  <2> QED
    BY <2>1, <2>2
<1> QED
  BY <1>1, <1>2, ReadingsAreComplete, PTL DEF RiskSpec
=============================================================================
