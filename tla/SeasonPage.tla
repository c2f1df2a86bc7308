----------------------------- MODULE SeasonPage -----------------------------
(***************************************************************************)
(* The season view of the browser (analytics.js), on top of the service    *)
(* that answers it.  The page asks for the summary, then for the selected  *)
(* section, then for the state of the details until they are ready, and    *)
(* then for the summary and the section again.                             *)
(*                                                                         *)
(* A request is a thread of the service; "for" says what the page will do  *)
(* with its answer: open, poll, sum (the summary after the details became  *)
(* ready), view (the section selected), older (a section superseded since: *)
(* its answer is cached and not shown), nobody (aborted, or a stranger's). *)
(* The 90 s of the page's cache are an event, and so is each step of its   *)
(* reader.  One league is followed; leaving it empties state.summary.      *)
(***************************************************************************)
EXTENDS SeasonAnalytics

CONSTANT Sections        \* the sections that need a request of their own

VARIABLES
    phase,           \* closed, loading, shown, failed
    summary,         \* state.summary, at most one answer
    section,         \* state.section
    content,         \* what is drawn: "loading", "error", or the answers and their section
    kept,            \* state.cache: answers, none of the details
    poll             \* off, first, due, asking, summing, ready, failed, slow

pageVars == <<phase, summary, section, content, kept, poll>>
vars == <<serviceVars, events, pageVars>>

Loading == [of |-> "loading", answers |-> {}]
Failure == [of |-> "error", answers |-> {}]

PageInit ==
    /\ phase = "closed" /\ summary = {} /\ section = "summary" /\ content = Loading
    /\ kept = {} /\ poll = "off"

\* Of an answer the page's properties ask whether it has the verified squads.
Answer(t) == [kind |-> threads[t].kind, status |-> threads[t].status]
Kept(cache, kind) == {a \in cache : a.kind = kind}
Keep(answer) == {a \in kept : a.kind # answer.kind} \cup {answer}

Asked(pool, t, kind, for, polls) ==
    [pool EXCEPT ![t] = [Idle EXCEPT !.pc = "summary", !.kind = kind, !.for = for, !.polls = polls]]
Freed(t) == [threads EXCEPT ![t] = Idle]

\* cancel(): every request of the page is aborted; the service does not notice.
Aborted == [t \in Threads |-> [threads[t] EXCEPT !.for = "nobody", !.polls = FALSE]]

\* ++state.viewToken
Superseded(pool) == [t \in Threads |-> IF pool[t].for = "view" THEN [pool[t] EXCEPT !.for = "older"]
                                                               ELSE pool[t]]

\* selectSection(s) with thread t free to ask: drawn at once from the summary or the cache,
\* or asked for.  Only open() waits for it before it polls.
SelectSection(s, t, pool, now, cache, polls) ==
    /\ section' = s
    /\ IF s = "summary" \/ Kept(cache, s) # {}
       THEN /\ content' = [of |-> s, answers |-> IF s = "summary" THEN now ELSE Kept(cache, s)]
            /\ threads' = Superseded(pool)
       ELSE content' = Loading /\ threads' = Asked(Superseded(pool), t, s, "view", polls)

(***************************************************************************)
(* The reader.                                                             *)
(***************************************************************************)
\* The next request gets one of the idle threads; it does not matter which.
IsIdle(t) == threads[t].pc = "idle"
IsNext(t) == IsIdle(t) /\ t = CHOOSE u \in Threads : IsIdle(u)

\* open(): a summary still in the cache draws the section at once.
Open(t, fresh, s) ==
    /\ Event /\ IsNext(t)
    /\ IF ~fresh /\ Kept(kept, "summary") # {}
       THEN /\ phase' = "shown" /\ summary' = Kept(kept, "summary")
            /\ SelectSection(s, t, Aborted, summary', kept, TRUE)
            /\ poll' = IF content' = Loading THEN "first" ELSE "due"
       ELSE /\ phase' = "loading" /\ section' = s /\ content' = Loading /\ poll' = "off"
            /\ threads' = Asked(Aborted, t, "summary", "open", FALSE)
            /\ UNCHANGED summary
    /\ UNCHANGED <<official, caches, served, jobs, workers, kept>>

\* cancel(): the reader goes back to the live view, or to another league.
Leave ==
    /\ Event /\ phase # "closed"
    /\ phase' = "closed" /\ summary' \in {summary, {}} /\ poll' = "off" /\ threads' = Aborted
    /\ UNCHANGED <<official, caches, served, jobs, workers, section, content, kept>>

\* A click on a section, the one that is shown included ("Try again"); before
\* the summary has come it only selects.
Choose(t, s) ==
    /\ Event /\ phase # "closed" /\ IsNext(t)
    /\ IF summary # {} THEN SelectSection(s, t, threads, summary, kept, FALSE)
       ELSE section' = s /\ threads' = Superseded(threads) /\ UNCHANGED content
    /\ UNCHANGED <<official, caches, served, jobs, workers, phase, summary, kept, poll>>

\* "Check progress" or "Retry detail".
Recheck ==
    /\ Event /\ poll \in {"slow", "failed"} /\ poll' = "due"
    /\ UNCHANGED <<official, caches, served, jobs, workers, threads, phase, summary, section,
                   content, kept>>

\* Somebody else looks at the same league.
Stranger(t) ==
    /\ Event /\ IsNext(t)
    /\ threads' = Asked(threads, t, "details", "nobody", FALSE)
    /\ UNCHANGED <<official, caches, served, jobs, workers, pageVars>>

PageForgets ==
    /\ Event /\ \E a \in kept : kept' = kept \ {a}
    /\ UNCHANGED <<official, caches, served, jobs, workers, threads, phase, summary, section,
                   content, poll>>

(***************************************************************************)
(* The page: its timer and the answers.                                    *)
(***************************************************************************)
PollDetails(t) ==
    /\ poll = "due" /\ IsNext(t)
    /\ poll' = "asking" /\ threads' = Asked(threads, t, "details", "poll", FALSE)
    /\ UNCHANGED <<official, caches, served, jobs, workers, events, phase, summary, section,
                   content, kept>>

Replied(t, for) ==
    /\ threads[t].pc = "reply" /\ threads[t].for = for /\ threads[t].status # "error"
    /\ UNCHANGED <<official, caches, served, jobs, workers, events>>

Unheard(t) == Replied(t, "nobody") /\ threads' = Freed(t) /\ UNCHANGED pageVars

SummaryCame(t) ==
    /\ Replied(t, "open")
    /\ phase' = "shown" /\ summary' = {Answer(t)} /\ kept' = Keep(Answer(t))
    /\ SelectSection(section, t, Freed(t), summary', kept', TRUE)
    /\ poll' = IF content' = Loading THEN "first" ELSE "due"

\* ready: the cached answers are forgotten, and the summary is asked for again.
\* Otherwise the page polls on, unless five minutes have passed.
StatusCame(t) ==
    /\ Replied(t, "poll")
    /\ IF threads[t].status = "ready"
       THEN /\ kept' = {} /\ poll' = "summing"
            /\ threads' = Asked(threads, t, "summary", "sum", FALSE)
       ELSE /\ poll' \in {"due", "slow"}
            /\ threads' = Freed(t) /\ UNCHANGED kept
    /\ UNCHANGED <<phase, summary, section, content>>

\* The progress line has said the number of verified squads since "ready".
FreshSummaryCame(t) ==
    /\ Replied(t, "sum")
    /\ summary' = {Answer(t)} /\ kept' = Keep(Answer(t)) /\ poll' = "ready"
    /\ SelectSection(section, t, Freed(t), summary', kept', FALSE)
    /\ UNCHANGED phase

PollAfterFirst(t) == poll' = IF threads[t].polls THEN "due" ELSE poll

EveryAnswer(t) == TRUE
\* Only the answer to the last selection is drawn.
Current(t) == threads[t].for = "view"

SectionCame(t) ==
    /\ Replied(t, "view") \/ Replied(t, "older")
    /\ kept' = Keep(Answer(t))
    /\ content' = IF Current(t) THEN [of |-> threads[t].kind, answers |-> {Answer(t)}] ELSE content
    /\ threads' = Freed(t) /\ PollAfterFirst(t)
    /\ UNCHANGED <<phase, summary, section>>

\* No answer in 90 s, a broken connection (an event), or an error of the service.
RequestFails(t) ==
    LET for == threads[t].for
        failed == threads[t].pc = "reply" /\ threads[t].status = "error"
    IN /\ \/ failed /\ threads' = Freed(t) /\ UNCHANGED events
          \/ /\ ~failed /\ ~IsIdle(t) /\ for # "nobody" /\ Event
             /\ threads' = [threads EXCEPT ![t].for = "nobody", ![t].polls = FALSE]
       /\ content' = IF for = "open" \/ Current(t) THEN Failure ELSE content
       /\ phase' = IF for = "open" THEN "failed" ELSE phase
       /\ poll' = IF for \in {"poll", "sum"} THEN "failed"
                  ELSE IF threads[t].polls THEN "due" ELSE poll
       /\ UNCHANGED <<official, caches, served, jobs, workers, summary, section, kept>>

(***************************************************************************)
(* The whole.                                                              *)
(***************************************************************************)
Reader ==
    \/ Leave \/ Recheck \/ PageForgets
    \/ \E t \in Threads : Stranger(t) \/ \E s \in Sections \cup {"summary"} :
          Choose(t, s) \/ \E fresh \in BOOLEAN : Open(t, fresh, s)

Answered(t) ==
    \/ Unheard(t) \/ SummaryCame(t) \/ StatusCame(t) \/ FreshSummaryCame(t) \/ SectionCame(t)
    \/ RequestFails(t)

Service ==
    \/ (\E t \in Threads : Serve(t)) /\ UNCHANGED pageVars
    \/ (\E w \in workers : Work(w)) /\ UNCHANGED pageVars
    \/ World /\ UNCHANGED pageVars

Page == \E t \in Threads : PollDetails(t) \/ Answered(t)

Init == ServiceInit /\ PageInit
Next == Service \/ Page \/ Reader

\* Threads run, a worker's step is never put off for ever, and the browser handles its timer
\* and its answers; nothing is promised of the reader, of corrections and of expiries.
Spec ==
    /\ Init /\ [][Next]_vars
    /\ \A t \in Threads : WF_vars(Serve(t) /\ UNCHANGED pageVars) /\ WF_vars(Answered(t))
    /\ WF_vars((\E w \in workers : Work(w)) /\ UNCHANGED pageVars)
    /\ WF_vars(\E t \in Threads : PollDetails(t))

(***************************************************************************)
(* Properties.                                                             *)
(***************************************************************************)
\* What is drawn belongs to the section selected, whatever order the answers of several
\* clicks come in, and a section whose request is gone is not drawn as loading for ever
\* (analytics.js:141-171).
ShownIsSelected ==
    (phase = "shown" /\ summary # {}) =>
        /\ content.of \in {section, "loading", "error"}
        /\ content = Loading => \E t \in Threads : threads[t].for \in {"view", "open"}

\* "A failed worker must never leave the UI polling an orphaned loading job"
\* (service.py:316): a page that polls comes to an end of it, however the job went.
PollEnds == poll \in {"due", "asking", "summing"} ~> poll \notin {"due", "asking", "summing"}

\* "Scores load first; detailed squads follow." (analytics.js:74): once the page has said how
\* many squads are verified and nothing is under way, the section it draws is the verified one.
DetailsFollow ==
    (poll = "ready" /\ content.of \in Sections) =>
        \A a \in content.answers : a.status = "detailed"
=============================================================================
