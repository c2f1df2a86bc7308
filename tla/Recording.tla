----------------------------- MODULE Recording -----------------------------
(***************************************************************************)
(* The prospective recorder (ml/recording): a scheduled, serialised job    *)
(* that captures forecasts before each deadline and official points after  *)
(* it, and keeps both in GitHub releases; and the operator who may run     *)
(* "recover" with a retained candidate, or remove an unfinished draft,     *)
(* while the job runs.                                                     *)
(*                                                                         *)
(* A bundle is named by the run that made it, its Gameweek and its stage,  *)
(* so equality of bundles is equality of their SHA-256.  Time is in units  *)
(* of the longest a publication call can take before it gives up (three    *)
(* attempts of 90 seconds).  GitHub is external: creating, uploading and   *)
(* publishing may fail before or after taking effect, and a retried POST   *)
(* may create a second draft of a tag.                                     *)
(***************************************************************************)
EXTENDS Integers, FiniteSets, FiniteSetsExt

CONSTANTS
    Gameweeks,          \* the season's Gameweeks from first_gameweek on
    Stages,             \* forecast stages of config.json
    Opens, Closes,      \* stage -> lead at which its window opens and closes
    Rank,               \* stage -> place in evaluation_priority, 0 the best
    MinLead,            \* minimum_publish_lead_seconds
    Acknowledged,       \* FPL_ACKNOWLEDGED_MISSING_GWS
    Actual,             \* the stage of official-final points
    FirstDeadlines,     \* the deadlines announced at the start
    MaxTime, MaxRuns, MaxFaults                \* bounds of the model

ASSUME GameweekAssumption == Gameweeks \subseteq Nat \ {0} /\ IsFiniteSet(Gameweeks)
ASSUME StageAssumption ==
    /\ Actual \notin Stages
    /\ Opens \in [Stages -> Nat] /\ Closes \in [Stages -> Nat] /\ Rank \in [Stages -> Nat]
    /\ \A s \in Stages : Closes[s] < Opens[s]
    /\ \A s, t \in Stages : Rank[s] = Rank[t] => s = t
ASSUME LeadAssumption == MinLead \in Nat /\ MinLead > 1
ASSUME CalendarAssumption == FirstDeadlines \in [Gameweeks -> 1..MaxTime]
ASSUME RecordingBounds == {MaxTime, MaxRuns, MaxFaults} \subseteq Nat

VARIABLES
    now,
    deadline, final,   \* what the official API says: deadlines, officially final GWs
    latest,            \* the latest deadline each Gameweek was ever announced with
    releases,          \* what GitHub holds
    bundles,           \* candidates of slots not yet published, which may be retained
    pc, job,           \* position and local variables of the runner and the operator
    report,            \* what the last step reported, if a run ended in it
    evaluated,         \* the captures compared with official-final points
    runs, faults

official == <<deadline, latest, final>>
vars == <<now, official, releases, bundles, pc, job, report, evaluated, runs, faults>>

-----------------------------------------------------------------------------
Runner   == "runner"
Operator == "operator"
Actors   == {Runner, Operator}

NoBundle == [gw |-> 0, stage |-> Actual, run |-> 0, captured |-> 0, deadline |-> 0]
Partial  == [NoBundle EXCEPT !.run = -1]      \* an asset whose state is not "uploaded"
IsBundle(asset) == asset \notin {NoBundle, Partial}

NoRelease == [twin |-> 0, gw |-> 0, stage |-> Actual, draft |-> TRUE, note |-> NoBundle,
              asset |-> NoBundle, assetAt |-> 0, publishedAt |-> 0]
NoSlot == <<0, Actual>>
NoJob == [phase |-> "none", deadline |-> FirstDeadlines, final |-> {}, drafts |-> {},
          resumed |-> {}, slot |-> NoSlot, todo |-> {}, wanted |-> {},
          reserved |-> {},
          bundle |-> NoBundle, release |-> NoRelease, checkedAt |-> 0, news |-> {},
          errors |-> FALSE, calm |-> TRUE]
NoReport == [done |-> FALSE, ok |-> FALSE, calm |-> FALSE, wanted |-> {}, reserved |-> {},
             slot |-> NoSlot,
             resumed |-> {}, closed |-> {}]

Tagged(gw, stage) == {x \in releases : x.gw = gw /\ x.stage = stage}
IsPublished(gw, stage) == \E x \in Tagged(gw, stage) : ~x.draft

\* release(tag): the published release, else some draft the listing shows.
Lookup(gw, stage) ==
    IF IsPublished(gw, stage) THEN {x \in Tagged(gw, stage) : ~x.draft}
    ELSE Tagged(gw, stage)

\* The first Gameweek whose deadline is to come, 0 at the end of the season.
Upcoming(d, t) ==
    LET future == {g \in Gameweeks : d[g] > t} IN IF future = {} THEN 0 ELSE Min(future)

\* due_slot(): the stage whose window the time left falls in, unless it is published.
DueSlots(d, t) ==
    {s \in ({Upcoming(d, t)} \cap Gameweeks) \X Stages :
        LET lead == d[s[1]] - t
        IN  Closes[s[2]] < lead /\ lead <= Opens[s[2]] /\ ~IsPublished(s[1], s[2])}
DueSlot(d, t) ==
    IF DueSlots(d, t) = {} THEN NoSlot ELSE CHOOSE s \in DueSlots(d, t) : TRUE

IsForecast(b) == b.stage # Actual

\* The horizon a capture forecasts: its own Gameweek and the later ones.
Tracked == {g \in Gameweeks : \E x \in releases : ~x.draft /\ x.stage # Actual /\ x.gw <= g}

Goto(a, label) == pc' = [pc EXCEPT ![a] = label]

\* Where run() goes on after a call it guards, and recover after any.
Resume(a, good) ==
    CASE job[a].phase = "recover" -> "recover"
      [] job[a].phase = "slot"    -> "actuals"
      [] job[a].phase = "actuals" -> IF good THEN "nextActual" ELSE "report"
      [] OTHER -> "idle"

Ends(a, j, good) ==
    /\ Goto(a, Resume(a, good))
    /\ job' = [job EXCEPT ![a] = IF Resume(a, good) = "idle" THEN NoJob
                                 ELSE [j EXCEPT !.bundle = NoBundle, !.release = NoRelease,
                                                !.checkedAt = 0]]

\* Mutant: a caught error is not added to the report.
FailsSilently(a) == Ends(a, job[a], FALSE)

\* The code refuses to go on: report["errors"] gets one more.
Fails(a) == Ends(a, [job[a] EXCEPT !.errors = TRUE], FALSE)

Succeeds(a) ==
    Ends(a, [job[a] EXCEPT !.news = @ \cup (IF IsForecast(job[a].bundle) THEN {}
                                            ELSE {job[a].bundle.gw})], TRUE)

\* A disturbance from outside: a failure, a crash or a moved deadline.
Fault == faults < MaxFaults /\ faults' = faults + 1

\* An external call fails, its retries included.
Breaks(a) == Fault /\ Ends(a, [job[a] EXCEPT !.errors = TRUE, !.calm = FALSE], FALSE)

Local == UNCHANGED <<now, official, evaluated, runs>> /\ report' = NoReport
Stored(rs) == releases' = rs /\ UNCHANGED bundles

\* A candidate of a published slot is of no use any more.
Published(rs, x) == releases' = rs /\ bundles' = {b \in bundles : b.gw # x.gw \/ b.stage # x.stage}

-----------------------------------------------------------------------------
Init ==
    /\ now = 0 /\ deadline = FirstDeadlines /\ latest = FirstDeadlines /\ final = {}
    /\ releases = {} /\ bundles = {}
    /\ pc = [a \in Actors |-> "idle"] /\ job = [a \in Actors |-> NoJob]
    /\ report = NoReport /\ evaluated = {}
    /\ runs = 0 /\ faults = 0

\* A run begins: the calendar it will use throughout, and the uploaded drafts.
Start ==
    LET uploaded == {x \in releases : x.draft /\ IsBundle(x.asset)}
    IN  /\ pc[Runner] = "idle" /\ runs < MaxRuns
        /\ runs' = runs + 1
        /\ Goto(Runner, "recover")
        /\ job' = [job EXCEPT ![Runner] =
                      [NoJob EXCEPT !.phase = "recover", !.deadline = deadline, !.final = final,
                                    !.drafts = uploaded, !.resumed = uploaded]]
        /\ report' = NoReport
        /\ UNCHANGED <<now, official, releases, bundles, evaluated, faults>>

\* The listing is a copy: another actor may change or remove the draft meanwhile.
ResumeDraft(a) ==
    /\ a = Runner /\ pc[a] = "recover"
    /\ \E x \in job[a].drafts :
           job' = [job EXCEPT ![a] = [job[a] EXCEPT !.drafts = @ \ {x}, !.release = x,
                                                    !.bundle = x.asset]]
    /\ Goto(a, "finish")
    /\ Local /\ UNCHANGED <<releases, bundles, faults>>

\* The slot due by the calendar of the run's start; a draft that holds it is an error.
CheckSlot(a) ==
    LET slot == DueSlot(job[a].deadline, now)
        j == [job[a] EXCEPT !.phase = "slot", !.slot = slot]
    IN  /\ a = Runner /\ pc[a] = "recover" /\ job[a].drafts = {}
        /\ IF slot = NoSlot
           THEN Goto(a, "actuals") /\ job' = [job EXCEPT ![a] = j]
           ELSE IF Lookup(slot[1], slot[2]) # {}
           THEN Goto(a, "actuals") /\ job' = [job EXCEPT ![a] = [j EXCEPT !.errors = TRUE]]
           ELSE Goto(a, "capture") /\ job' = [job EXCEPT ![a] = j]
        /\ Local /\ UNCHANGED <<releases, bundles, faults>>

\* The forecast fetches its own snapshot, whose first Gameweek must be the slot's.
CaptureFetch(a) ==
    LET gw == job[a].slot[1]
    IN  /\ pc[a] = "capture"
        /\ \/ /\ Upcoming(deadline, now) = gw
              /\ Goto(a, "predict")
              /\ job' = [job EXCEPT ![a].bundle =
                            [gw |-> gw, stage |-> job[a].slot[2], run |-> runs,
                             captured |-> now, deadline |-> deadline[gw]]]
              /\ UNCHANGED faults
           \/ /\ Upcoming(deadline, now) # gw
              /\ Fails(a) /\ UNCHANGED faults
           \/ Breaks(a)
        /\ Local /\ UNCHANGED <<releases, bundles>>

\* The forecast is complete; create_bundle() refuses it from the deadline on.
CaptureDone(a) ==
    LET b == [job[a].bundle EXCEPT !.captured = now]
    IN  /\ pc[a] = "predict"
        /\ \/ /\ now < b.deadline
              /\ bundles' = bundles \cup {b}
              /\ Goto(a, "publish") /\ job' = [job EXCEPT ![a].bundle = b]
              /\ UNCHANGED faults
           \/ now >= b.deadline /\ Fails(a) /\ UNCHANGED <<bundles, faults>>
           \/ Breaks(a) /\ UNCHANGED bundles
        /\ Local /\ UNCHANGED releases

InTime(b) == IsForecast(b) => b.deadline - now >= MinLead

\* publish(): an earlier release of the tag, or too little time, refuses the bundle.
Publish(a) ==
    LET b == job[a].bundle
    IN  /\ pc[a] = "publish"
        /\ IF Lookup(b.gw, b.stage) # {} \/ ~InTime(b) THEN Fails(a)
           ELSE Goto(a, "create") /\ UNCHANGED job
        /\ Local /\ UNCHANGED <<releases, bundles, faults>>

Draft(b, twin) == [NoRelease EXCEPT !.twin = twin, !.gw = b.gw, !.stage = b.stage,
                                    !.note = b]

\* POST: the draft reserves the slot for the bundle's hash.  A timed-out attempt that
\* was retried leaves two, and an error after the effect is resolved by a lookup.
CreateDraft(a) ==
    LET b == job[a].bundle
    IN  /\ pc[a] = "create"
        /\ \/ Goto(a, "upload") /\ Stored(releases \cup {Draft(b, 1)})
              /\ UNCHANGED <<job, faults>>
           \/ Goto(a, "upload") /\ Stored(releases \cup {Draft(b, 1), Draft(b, 2)})
              /\ Fault /\ job' = [job EXCEPT ![a].calm = FALSE]
           \/ Breaks(a) /\ Stored(releases \cup {Draft(b, 1)})
           \/ Breaks(a) /\ UNCHANGED <<releases, bundles>>
        /\ Local

Replace(x, y) == (releases \ {x}) \cup {y}

\* gh release upload, without --clobber: a draft that has an asset keeps it.
Upload(a) ==
    LET b == job[a].bundle
    IN  /\ pc[a] = "upload"
        /\ \E x \in Lookup(b.gw, b.stage) :
              LET stored == Replace(x, [x EXCEPT !.asset = b, !.assetAt = now])
              IN  \/ /\ x.asset = NoBundle /\ Stored(stored)
                     /\ Goto(a, "find") /\ UNCHANGED <<job, faults>>
                  \/ /\ Fault
                     /\ \/ x.asset = NoBundle /\ Stored(stored)
                        \/ /\ x.asset = NoBundle
                           /\ Stored(Replace(x, [x EXCEPT !.asset = Partial, !.assetAt = now]))
                        \/ UNCHANGED <<releases, bundles>>
                     /\ IF a = Runner
                        THEN Goto(a, "confirm") /\ job' = [job EXCEPT ![a].calm = FALSE]
                        ELSE Goto(a, "idle") /\ job' = [job EXCEPT ![a] = NoJob]
        /\ Local

\* Another actor's asset, or no release of the tag any more.
UploadRefused(a) ==
    LET b == job[a].bundle
    IN  /\ pc[a] = "upload"
        /\ \/ Lookup(b.gw, b.stage) = {}
           \/ \E x \in Lookup(b.gw, b.stage) : x.asset # NoBundle
        /\ IF a = Runner THEN Goto(a, "confirm") /\ UNCHANGED job
           ELSE Goto(a, "idle") /\ job' = [job EXCEPT ![a] = NoJob]
        /\ Local /\ UNCHANGED <<releases, bundles, faults>>

\* validate_release(): the asset is the bundle and, for a forecast, was there in time.
Valid(x, b) == x.asset = b /\ (IsForecast(b) => x.assetAt < b.deadline)

\* After a failed upload the runner looks whether the bundle got there.
Confirm(a) ==
    LET b == job[a].bundle
    IN  /\ pc[a] = "confirm"
        /\ \/ /\ \E x \in Lookup(b.gw, b.stage) : Valid(x, b)
              /\ Goto(a, "find") /\ UNCHANGED job
           \/ /\ \A x \in Lookup(b.gw, b.stage) : ~Valid(x, b)
              /\ Fails(a)
        /\ Local /\ UNCHANGED <<releases, bundles, faults>>

FindDraft(a) ==
    LET b == job[a].bundle
    IN  /\ pc[a] = "find"
        /\ \/ \E x \in Lookup(b.gw, b.stage) :
                  Goto(a, "finish") /\ job' = [job EXCEPT ![a].release = x]
           \/ Lookup(b.gw, b.stage) = {} /\ Fails(a)
        /\ Local /\ UNCHANGED <<releases, bundles, faults>>

\* Mutant: no margin is left for the publication itself.
FinishWithoutLead(a) ==
    LET x == job[a].release
    IN  /\ pc[a] = "finish" /\ IsBundle(x.asset)
        /\ IF Valid(x, x.asset)
           THEN Goto(a, "patch") /\ job' = [job EXCEPT ![a].checkedAt = now]
           ELSE Fails(a)
        /\ Local /\ UNCHANGED <<releases, bundles, faults>>

\* finish_draft(): the asset is complete, downloads intact, and there is time left.
Finish(a) ==
    LET x == job[a].release
    IN  /\ pc[a] = "finish"
        /\ \/ /\ IsBundle(x.asset) /\ Valid(x, x.asset) /\ InTime(x.asset)
              /\ Goto(a, "patch") /\ job' = [job EXCEPT ![a].checkedAt = now]
              /\ UNCHANGED faults
           \/ /\ ~(IsBundle(x.asset) /\ Valid(x, x.asset) /\ InTime(x.asset))
              /\ Fails(a) /\ UNCHANGED faults
           \/ Breaks(a)
        /\ Local /\ UNCHANGED <<releases, bundles>>

Current(x) == {y \in releases : y.note = x.note /\ y.twin = x.twin}
PublishedAs(x) == IF x.draft THEN [x EXCEPT !.draft = FALSE, !.publishedAt = now] ELSE x
InTimeAs(x) == IsForecast(x.asset) => x.publishedAt < x.asset.deadline

\* PATCH, then a look at the published release.  GitHub refuses a second release of
\* a tag; a draft removed meanwhile is a 404, which the recovery loop does not catch.
Patch(a) ==
    LET x == job[a].release
    IN  /\ pc[a] = "patch"
        /\ \/ \E y \in Current(x) :
                 /\ y.draft => ~IsPublished(x.gw, x.stage)
                 /\ Published(Replace(y, PublishedAs(y)), y)
                 /\ \/ InTimeAs(PublishedAs(y)) /\ Succeeds(a) /\ UNCHANGED faults
                    \/ ~InTimeAs(PublishedAs(y)) /\ Fails(a) /\ UNCHANGED faults
                    \/ Breaks(a)
           \/ /\ \E y \in Current(x) : y.draft /\ IsPublished(x.gw, x.stage)
              /\ Fails(a) /\ UNCHANGED <<releases, bundles, faults>>
           \/ Breaks(a) /\ UNCHANGED <<releases, bundles>>
           \/ /\ Current(x) = {}
              /\ IF job[a].phase = "recover"
                 THEN Goto(a, "idle") /\ job' = [job EXCEPT ![a] = NoJob]
                 ELSE Fails(a)
              /\ UNCHANGED <<releases, bundles, faults>>
        /\ Local

-----------------------------------------------------------------------------
ActualOf(gw, d) == [gw |-> gw, stage |-> Actual, run |-> runs, captured |-> now,
                    deadline |-> d[gw]]

\* Official points of the Gameweeks some published forecast covers, that are final by
\* the run's calendar and not yet published.
CollectActuals(a) ==
    LET wanted == {g \in Tracked : g \in job[a].final /\ ~IsPublished(g, Actual)}
        reserved == {g \in wanted : Tagged(g, Actual) # {}}
        made == {ActualOf(g, job[a].deadline) : g \in wanted}
    IN  /\ pc[a] = "actuals"
        /\ \/ /\ bundles' = bundles \cup made
              /\ Goto(a, "nextActual")
              /\ job' = [job EXCEPT ![a] = [job[a] EXCEPT !.phase = "actuals", !.todo = made,
                                   !.wanted = wanted, !.reserved = reserved]]
              /\ UNCHANGED faults
           \/ /\ Fault /\ Goto(a, "report")
              /\ job' = [job EXCEPT ![a] = [job[a] EXCEPT !.errors = TRUE, !.calm = FALSE]]
              /\ UNCHANGED bundles
        /\ Local /\ UNCHANGED releases

First(todo) == CHOOSE b \in todo : \A c \in todo : b.gw <= c.gw

\* In Gameweek order; a draft that reserves one ends the whole loop.
NextActual(a) ==
    LET b == First(job[a].todo)
    IN  /\ pc[a] = "nextActual" /\ job[a].todo # {}
        /\ \/ /\ \E x \in Lookup(b.gw, Actual) : x.draft
              /\ Fails(a)
           \/ /\ ~\E x \in Lookup(b.gw, Actual) : x.draft
              /\ Goto(a, "publish")
              /\ job' = [job EXCEPT ![a] = [job[a] EXCEPT !.bundle = b, !.todo = @ \ {b}]]
        /\ Local /\ UNCHANGED <<releases, bundles, faults>>

\* The heartbeat, the last listing and the Gameweeks that passed without any capture.
Report(a) ==
    LET closed == {g \in Gameweeks \ Acknowledged : job[a].deadline[g] <= now}
        gaps == {g \in closed : \A s \in Stages : ~IsPublished(g, s)}
        says(errors, calm) ==
            /\ report' = [done |-> TRUE, ok |-> ~errors, calm |-> calm,
                          wanted |-> job[a].wanted, reserved |-> job[a].reserved,
                          slot |-> job[a].slot,
                          resumed |-> job[a].resumed, closed |-> closed]
            /\ IF errors \/ job[a].news = {}
               THEN Goto(a, "idle") /\ job' = [job EXCEPT ![a] = NoJob]
               ELSE Goto(a, "evaluate") /\ UNCHANGED job
    IN  /\ pc[a] = "report" \/ (pc[a] = "nextActual" /\ job[a].todo = {})
        /\ \/ says(job[a].errors \/ gaps # {}, job[a].calm) /\ UNCHANGED faults
           \/ Fault /\ says(TRUE, FALSE)
        /\ UNCHANGED <<now, official, releases, bundles, evaluated, runs>>

\* Mutant: only the deadline the capture knew counts.
FairToCapture(b, d) == b.captured < b.deadline

\* "A subsequently changed deadline cannot silently legitimise a late capture."
Fair(b, d) == b.captured < b.deadline /\ b.captured < d

Captures(gw) == {x \in releases : ~x.draft /\ x.gw = gw /\ x.stage # Actual}
Best(gw) == CHOOSE x \in Captures(gw) : \A y \in Captures(gw) : Rank[x.stage] <= Rank[y.stage]
ActualFor(gw) == CHOOSE x \in Tagged(gw, Actual) : ~x.draft

\* The workflow's next step, after a run without errors: the best stage of each
\* Gameweek this run made final, if it was captured before both deadlines.
Evaluate(a) ==
    LET matched == {g \in job[a].news : IsPublished(g, Actual) /\ Captures(g) # {}}
        fair == {g \in matched : Fair(Best(g).asset, ActualFor(g).asset.deadline)}
    IN  /\ pc[a] = "evaluate"
        /\ evaluated' = evaluated \cup
               {[capture |-> Best(g).asset, deadline |-> ActualFor(g).asset.deadline] :
                    g \in fair}
        /\ Goto(a, "idle") /\ job' = [job EXCEPT ![a] = NoJob]
        /\ report' = NoReport
        /\ UNCHANGED <<now, official, releases, bundles, runs, faults>>

\* The runner is killed: a new one starts with nothing but the releases.
Crash(a) ==
    /\ pc[a] # "idle" /\ Fault
    /\ Goto(a, "idle") /\ job' = [job EXCEPT ![a] = NoJob]
    /\ Local /\ UNCHANGED <<releases, bundles>>

-----------------------------------------------------------------------------
\* Mutant: any retained candidate of the tag fills an empty draft.
OriginalOfTag(x, b) == x.draft /\ x.asset = NoBundle

\* recover: the empty draft that reserved exactly this candidate.
OriginalOf(x, b) == x.draft /\ x.asset = NoBundle /\ x.note = b

\* What the operator handles is left over: its run has ended.
LeftOver(b) == b.run < runs \/ pc[Runner] = "idle"

Recover(a) ==
    /\ a = Operator /\ pc[a] = "idle"
    /\ \E b \in bundles :
           /\ LeftOver(b)
           /\ IsForecast(b) => now < b.deadline
           /\ \E x \in Lookup(b.gw, b.stage) : OriginalOf(x, b)
           /\ job' = [job EXCEPT ![a] = [NoJob EXCEPT !.phase = "operator", !.bundle = b]]
    /\ Goto(a, "upload")
    /\ Local /\ UNCHANGED <<releases, bundles, faults>>

\* "Incomplete or expired drafts may be removed manually", by the one operator.
RemoveDraft ==
    /\ pc[Operator] = "idle"
    /\ \E x \in releases :
           /\ LeftOver(x.note)
           /\ x.draft /\ (IsBundle(x.asset) => ~InTime(x.asset))
           /\ Stored(releases \ {x})
    /\ Local /\ UNCHANGED <<pc, job, faults>>

-----------------------------------------------------------------------------
\* FPL moves a deadline that is still to come, Gameweeks staying in order.
MoveDeadline ==
    /\ Fault
    /\ \E g \in Gameweeks, t \in (now + 1)..MaxTime :
           /\ deadline[g] > now
           /\ \A h \in Gameweeks : (h < g => deadline[h] < t) /\ (h > g => t < deadline[h])
           /\ deadline' = [deadline EXCEPT ![g] = t]
           /\ latest' = [latest EXCEPT ![g] = IF t > @ THEN t ELSE @]
    /\ report' = NoReport
    /\ UNCHANGED <<now, final, releases, bundles, pc, job, evaluated, runs>>

\* Finished and checked, days after the deadline: not before any deadline that was ever
\* announced for it, had it been moved forward, would have passed as well.
BecomeFinal ==
    /\ \E g \in Gameweeks \ final :
           latest[g] < now /\ final' = final \cup {g}
    /\ report' = NoReport
    /\ UNCHANGED <<now, deadline, latest, releases, bundles, pc, job, evaluated, runs, faults>>

\* A unit of time only passes where a call can take it: while no run is on, in a
\* capture, in an upload, in a download and in a publication, which gives up within one.
Waiting == {"idle", "predict", "upload", "finish", "patch"}
Tick ==
    /\ now < MaxTime
    /\ \A a \in Actors :
           pc[a] \in Waiting /\ (pc[a] = "patch" => now <= job[a].checkedAt)
    /\ now' = now + 1
    /\ report' = NoReport
    /\ UNCHANGED <<official, releases, bundles, pc, job, evaluated, runs, faults>>

RunStep == \/ Start
           \/ \E a \in Actors :
                 \/ ResumeDraft(a) \/ CheckSlot(a) \/ CaptureFetch(a) \/ CaptureDone(a)
                 \/ Publish(a) \/ CreateDraft(a) \/ Upload(a) \/ UploadRefused(a)
                 \/ Confirm(a) \/ FindDraft(a) \/ Finish(a) \/ Patch(a)
                 \/ CollectActuals(a) \/ NextActual(a) \/ Report(a) \/ Evaluate(a)
                 \/ Crash(a) \/ Recover(a)

Next == RunStep \/ RemoveDraft \/ MoveDeadline \/ BecomeFinal \/ Tick

Spec == Init /\ [][Next]_vars
-----------------------------------------------------------------------------
(* Properties. *)

Bundle == [gw : Gameweeks, stage : Stages \cup {Actual}, run : 1..MaxRuns,
           captured : 0..MaxTime, deadline : 0..MaxTime]
Labels == {"idle", "recover", "capture", "predict", "publish", "create", "upload",
           "confirm", "find", "finish", "patch", "actuals", "nextActual", "report",
           "evaluate"}

\* Only a complete asset is ever published, and only a bundle of its own tag.
ReleaseOK(x) ==
    /\ x.twin \in {1, 2} /\ x.draft \in BOOLEAN
    /\ x.note \in Bundle /\ x.note.gw = x.gw /\ x.note.stage = x.stage
    /\ x.asset \in Bundle \cup {NoBundle, Partial}
    /\ x.assetAt \in 0..MaxTime /\ x.publishedAt \in 0..MaxTime
    /\ ~x.draft => x.asset \in Bundle /\ x.asset.gw = x.gw /\ x.asset.stage = x.stage

\* Types of all variables; a published release has a complete asset of its own tag.
TypeOK ==
    /\ now \in 0..MaxTime /\ deadline \in [Gameweeks -> 1..MaxTime] /\ final \subseteq Gameweeks
    /\ \A x \in releases : ReleaseOK(x)
    /\ bundles \subseteq Bundle
    /\ pc \in [Actors -> Labels]
    /\ \A a \in Actors : job[a].bundle \in Bundle \cup {NoBundle}
    /\ runs \in 0..MaxRuns /\ faults \in 0..MaxFaults

\* "Both the original forecast completion and GitHub's asset/publication timestamps must
\* precede its stored deadline" (PROSPECTIVE_RECORDING.md): whoever publishes, whatever
\* draft, however long the upload and the publication take.
PublishedInTime ==
    \A x \in releases :
        (~x.draft /\ x.stage # Actual) =>
            /\ x.asset.captured < x.asset.deadline
            /\ x.assetAt < x.asset.deadline /\ x.publishedAt < x.asset.deadline

\* "They cannot be exchanged for a newer prediction" (PROSPECTIVE_RECORDING.md): what a
\* release holds is the candidate whose hash reserved it, through crashes, ambiguous
\* uploads and manual recovery.
OriginalCandidate ==
    \A x \in releases : IsBundle(x.asset) => x.asset = x.note

\* A run that reports no error left nothing behind: the drafts it found uploaded, the
\* slot that was due and the final points it wanted are published, and every closed
\* Gameweek has a capture or an acknowledged gap.
HonestSuccess ==
    report.ok =>
        /\ \A x \in report.resumed : IsPublished(x.gw, x.stage)
        /\ report.slot # NoSlot => IsPublished(report.slot[1], report.slot[2])
        /\ \A g \in report.wanted : IsPublished(g, Actual)
        /\ \A g \in report.closed : \E s \in Stages : IsPublished(g, s)

\* "Selection is fixed by capture stage, never by target outcomes" (evaluate.py:26): what
\* was compared precedes the deadline it knew and the final one, and stays the best stage
\* of its Gameweek: nothing better can be published once points are known.
EvaluatedFairly ==
    \A e \in evaluated :
        /\ e.capture.captured < e.capture.deadline /\ e.capture.captured < e.deadline
        /\ \A x \in Captures(e.capture.gw) : Rank[e.capture.stage] <= Rank[x.stage]

\* "An incomplete draft never blocks later slots/actuals" (run.py:233): a run in which
\* nothing external failed publishes every final Gameweek's points, the ones an earlier
\* run left reserved by a draft aside.
DraftsNeverBlock ==
    (report.done /\ report.calm) =>
        \A g \in report.wanted \ report.reserved : IsPublished(g, Actual)
=============================================================================
