--------------------------- MODULE CaptureArchive ---------------------------
(***************************************************************************)
(* The directory of forecast captures (assistant/prospective.py), written  *)
(* by several writers at once: the application's build thread, its         *)
(* half-hourly scheduler, and the recording command in a process of its    *)
(* own.  A capture is two files, published one after the other; the second *)
(* one, the index, makes its Gameweeks tracked, that is, has their points  *)
(* recorded once they are official.                                        *)
(*                                                                         *)
(* A file is published by linking a finished temporary file to its name,   *)
(* which fails if the name is taken.  A capture's name holds its first     *)
(* Gameweek and its hour, rounded down to a bucket far from the deadline.  *)
(* What a capture contains is its source and when it was made.             *)
(***************************************************************************)
EXTENDS Integers, FiniteSets, FiniteSetsExt, Sequences

CONSTANTS
    Writers,
    Gameweeks, Deadline,     \* Gameweeks 1, 2, ... and when each closes
    Bucket, Near,            \* hours of a bucket; where buckets become hourly
    MaxTime                  \* bound of the model

ASSUME CalendarAssumption ==
    /\ Gameweeks \subseteq Nat \ {0} /\ Deadline \in [Gameweeks -> Nat]
    /\ \A g, h \in Gameweeks : g < h => Deadline[g] < Deadline[h]
ASSUME BucketAssumption == Bucket \in Nat \ {0} /\ Near \in Nat /\ MaxTime \in Nat

VARIABLES
    now,
    final,           \* the Gameweeks that are officially final
    captures,        \* name -> the capture that has it
    indexes,         \* name -> the capture that the index was written for
    actuals,         \* Gameweek -> the writer that recorded its points
    writing          \* what each writer is about

archiveVars == <<now, final, captures, indexes, actuals, writing>>

\* The Gameweeks from `first` on, captured by a writer at some time.
Capture == [by : Writers, at : 0..MaxTime, first : Gameweeks]

Hour(c) == IF Deadline[c.first] - c.at < Near THEN c.at ELSE (c.at \div Bucket) * Bucket
Name(c) == <<c.first, Hour(c)>>

Tracked == {g \in Gameweeks : \E k \in DOMAIN indexes : g >= indexes[k].first}

With(f, k, v) == [x \in DOMAIN f \cup {k} |-> IF x = k THEN v ELSE f[x]]

\* Mutant: renaming to a name replaces the file that has it.
Replaced(files, k, v) == With(files, k, v)

\* Linking to a name leaves the file that has it.
Published(files, k, v) == IF k \in DOMAIN files THEN files ELSE With(files, k, v)

-----------------------------------------------------------------------------
(* A writer's record() and finalize()                                      *)

\* A writer at work, done when it ended or failed: the capture it records, if any,
\* what its bootstrap says of final Gameweeks, and those still to be recorded.
Writing == [pc : {"check", "link", "index", "scan", "collect", "fetched", "done"},
            capture : {{}} \cup {{c} : c \in Capture},
            seen : SUBSET Gameweeks, todo : SUBSET Gameweeks]

Working(w) == w \in DOMAIN writing
At(w, step) == Working(w) /\ writing[w].pc = step
Move(w, step) == writing' = [writing EXCEPT ![w].pc = step]
Its(w) == CHOOSE c \in writing[w].capture : TRUE

\* The writer's calls of record() and finalize(), or of finalize() only.
BeginRecord(w, c, seen) ==
    writing' = With(writing, w, [pc |-> "check", capture |-> {c}, seen |-> seen, todo |-> {}])
BeginFinalize(w, seen) ==
    writing' = With(writing, w, [pc |-> "scan", capture |-> {}, seen |-> seen, todo |-> {}])

\* Inputs and forecast must precede the deadline; a name that is taken is kept;
\* the disk or its limit may refuse.
Check(w) ==
    /\ At(w, "check")
    /\ \/ Its(w).at >= Deadline[Its(w).first] /\ Move(w, "done")
       \/ /\ Its(w).at < Deadline[Its(w).first]
          /\ IF Name(Its(w)) \in DOMAIN captures THEN Move(w, "scan")
             ELSE Move(w, "link") \/ Move(w, "done")
    /\ UNCHANGED <<now, final, captures, indexes, actuals>>

\* Mutant: who lost the race for the capture writes the index nevertheless.
LinkThenIndex(w) ==
    /\ At(w, "link")
    /\ captures' = Published(captures, Name(Its(w)), Its(w))
    /\ Move(w, "index")
    /\ UNCHANGED <<now, final, indexes, actuals>>

Link(w) ==
    /\ At(w, "link")
    /\ captures' = Published(captures, Name(Its(w)), Its(w))
    /\ Move(w, IF Name(Its(w)) \in DOMAIN captures THEN "scan" ELSE "index")
    /\ UNCHANGED <<now, final, indexes, actuals>>

WriteIndex(w) ==
    /\ At(w, "index")
    /\ indexes' = Published(indexes, Name(Its(w)), Its(w))
    /\ Move(w, "scan")
    /\ UNCHANGED <<now, final, captures, actuals>>

\* The tracked Gameweeks that the bootstrap calls final.
Scan(w) ==
    /\ At(w, "scan")
    /\ writing' = With(writing, w, [pc |-> "collect", capture |-> {}, seen |-> {},
                                    todo |-> Tracked \cap writing[w].seen])
    /\ UNCHANGED <<now, final, captures, indexes, actuals>>

\* In order, those without a file are downloaded; when there is none, or at a
\* failure, the work ends.
Collect(w) ==
    /\ At(w, "collect")
    /\ LET due == writing[w].todo \ DOMAIN actuals
       IN  \/ Move(w, "done")
           \/ /\ due # {}
              /\ writing' = [writing EXCEPT ![w].pc = "fetched", ![w].todo = due]
    /\ UNCHANGED <<now, final, captures, indexes, actuals>>

WriteActual(w) ==
    /\ At(w, "fetched")
    /\ LET g == Min(writing[w].todo)
       IN  /\ actuals' = Published(actuals, g, w)
           /\ writing' = [writing EXCEPT ![w].pc = "collect", ![w].todo = @ \ {g}]
    /\ UNCHANGED <<now, final, captures, indexes>>

Write(w) == Check(w) \/ Link(w) \/ WriteIndex(w) \/ Scan(w) \/ Collect(w) \/ WriteActual(w)

Without(ws) == [w \in DOMAIN writing \ ws |-> writing[w]]

Leave(w) ==
    /\ At(w, "done") /\ writing' = Without({w})
    /\ UNCHANGED <<now, final, captures, indexes, actuals>>

\* FPL declares a Gameweek finished and checked, at some time after its deadline.
BecomeFinal(g) ==
    /\ g \notin final /\ Deadline[g] <= now
    /\ final' = final \cup {g}
    /\ UNCHANGED <<now, captures, indexes, actuals, writing>>

Tick ==
    /\ now < MaxTime /\ now' = now + 1
    /\ UNCHANGED <<final, captures, indexes, actuals, writing>>

ArchiveInit ==
    /\ now = 0 /\ final = {}
    /\ captures = <<>> /\ indexes = <<>> /\ actuals = <<>> /\ writing = <<>>

-----------------------------------------------------------------------------
(* Properties                                                              *)

ArchiveTypeOK ==
    /\ now \in 0..MaxTime /\ final \subseteq Gameweeks
    /\ DOMAIN writing \subseteq Writers /\ \A w \in DOMAIN writing : writing[w] \in Writing
    /\ \A k \in DOMAIN captures : captures[k] \in Capture /\ Name(captures[k]) = k
    /\ DOMAIN actuals \subseteq Gameweeks

(***************************************************************************)
(* What has been recorded is never replaced or removed, whoever writes     *)
(* (LIVE_INFERENCE.md: "Existing captures are never overwritten, including *)
(* across processes"; prospective.py: immutable).                          *)
(***************************************************************************)
Extends(new, old) == DOMAIN old \subseteq DOMAIN new /\ \A k \in DOMAIN old : new[k] = old[k]
NeverOverwritten ==
    [][Extends(captures', captures) /\ Extends(indexes', indexes) /\ Extends(actuals', actuals)]_archiveVars

(***************************************************************************)
(* An index belongs to the capture of its name, although the two files are *)
(* published apart and by the winner of a race (prospective.py:136-148).   *)
(***************************************************************************)
IndexesMatch == Extends(captures, indexes)
=============================================================================
