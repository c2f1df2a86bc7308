----------------------------- MODULE RiskHistory -----------------------------
(***************************************************************************)
(* The durable record of forecasts (history.py).  A forecast of a           *)
(* generation of the scores is made into an observation, which is stored    *)
(* later and, with others under way, in another order; the oldest by the    *)
(* time of recording are deleted.  A reading serves the newest by the time  *)
(* of their scores.  The two orders differ, and a reading may ask for the   *)
(* generation it shows and not for the newest.                              *)
(*                                                                          *)
(* A series is what observations must share to be compared: model, seed,    *)
(* samples, tie rule and members.  The figures of an observation are left   *)
(* out; SQLite is external: a write may find it locked.                     *)
(***************************************************************************)
EXTENDS Integers, FiniteSets, FiniteSetsExt

CONSTANTS
    Outlooks,       \* the forecasts that are asked for: [group, series], a group a league's Gameweek
    Keep,           \* 1,000 observations of a group are kept, far more than Serve + Delay + Cached,
    Overall,        \* 30,000 altogether,
    Serve,          \* 240 are served,
    Delay,          \* and one is recorded at most 600 seconds after its scores
    Cached,         \* how long a generation can be forecast
    MaxRecords      \* a bound of the model, which records one observation in a unit of time

\* More is kept than can be recorded while a generation can still be read, beyond what
\* is served: 1,000 against 240 and what ten minutes bring.
ASSUME RetentionAssumption ==
    /\ {Keep, Overall, Serve, Delay, Cached, MaxRecords} \subseteq Nat
    /\ Keep >= Serve + Delay + Cached

VARIABLES
    moment,     \* the last moment an observation was recorded at
    making,     \* observations not stored yet
    rows,       \* the table: [group, source, series, recorded]
    saved       \* what was ever stored (of the model)

riskVars == <<moment, making, rows, saved>>

RiskInit == moment = 0 /\ making = {} /\ rows = {} /\ saved = {}

-----------------------------------------------------------------------------
(* Those of `observations` that ORDER BY recorded DESC OFFSET n leaves.    *)
Newest(observations, n) ==
    {o \in observations : Cardinality({p \in observations : p.recorded > o.recorded}) < n}

OfGroup(observations, g) == {o \in observations : o.group = g}

(* INSERT OR IGNORE, of one source one observation of a series.            *)
Inserted(o) ==
    IF \E p \in rows : p.group = o.group /\ p.source = o.source /\ p.series = o.series
    THEN rows ELSE rows \cup {o}

(* The DELETE for the group, then the DELETE for all.                      *)
PrunedOfAll(observations, g) ==
    Newest((observations \ OfGroup(observations, g)) \cup Newest(observations, Keep), Overall)
Pruned(observations, g) ==
    Newest((observations \ OfGroup(observations, g)) \cup Newest(OfGroup(observations, g), Keep), Overall)

Contemporary(o) == o.recorded - o.source \in 0..Delay

(* prediction_record: a forecast that was not cached has been made.        *)
Record(f, source) ==
    /\ moment < MaxRecords
    /\ moment' = moment + 1
    /\ making' = making \cup {[group |-> f.group, source |-> source, series |-> f.series, recorded |-> moment + 1]}
    /\ UNCHANGED <<rows, saved>>

(* append                                                                  *)
Append(o) ==
    /\ making' = making \ {o}
    /\ Contemporary(o)
    /\ rows' = Pruned(Inserted(o), o.group)
    /\ saved' = saved \cup (Inserted(o) \ rows)
    /\ UNCHANGED moment

(* append refuses it, or cannot write; the forecast is answered with a     *)
(* warning.                                                                *)
Unrecorded(o) == making' = making \ {o} /\ UNCHANGED <<moment, rows, saved>>

RiskNext ==
    \/ \E f \in Outlooks, source \in (moment + 1 - Cached)..(moment + 1) : source >= 0 /\ Record(f, source)
    \/ \E o \in making : Append(o) \/ Unrecorded(o)

RiskSpec == RiskInit /\ [][RiskNext]_riskVars

-----------------------------------------------------------------------------
(* read                                                                    *)

Later(o, p) == \/ o.source > p.source
               \/ o.source = p.source /\ o.recorded > p.recorded

(* ORDER BY source DESC, recorded DESC LIMIT 240                           *)
Read(g, upTo) ==
    LET asked == {o \in OfGroup(rows, g) : o.source <= upTo}
    IN  {o \in asked : Cardinality({p \in asked : Later(p, o)}) < Serve}

(* What the changes of an observation of a reading are changes since: the  *)
(* one before it in its series, if there is one.                           *)
Since(o, reading) ==
    LET before == {p \in reading : p.series = o.series /\ Later(o, p)}
    IN  {p \in before : \A q \in before : q = p \/ Later(p, q)}

-----------------------------------------------------------------------------
(* What is stored and not served gives way to newer scores, or to the      *)
(* newest of all leagues: the deletion, which goes by the time of           *)
(* recording, takes nothing that a reading of a generation still cached     *)
(* would serve.                                                            *)
GivesWay(o, reading) ==
    \/ Cardinality({p \in reading : Later(p, o)}) >= Serve
    \/ Cardinality({p \in saved : p.recorded > o.recorded}) >= Overall

(* So a change is since the observation that came before it, not since an  *)
(* earlier one (history.py:86-91 and 117-133, LIVE_INTELLIGENCE.md:95).    *)
NewestServed ==
    \A f \in Outlooks, upTo \in (moment - Cached)..moment :
        LET reading == Read(f.group, upTo)
        IN  /\ \A o \in OfGroup(saved, f.group) :
                   o.source <= upTo /\ o \notin reading => GivesWay(o, reading)
            /\ \A o \in reading : \A p \in Since(o, reading) : \A q \in OfGroup(saved, f.group) :
                   q.series = o.series /\ Later(o, q) /\ Later(q, p) =>
                       Cardinality({s \in saved : s.recorded > q.recorded}) >= Overall
=============================================================================
