---------------------------- MODULE MCForecasts -----------------------------
(***************************************************************************)
(* The request threads of AnalysisService, and ForecastEnricher, which it   *)
(* knows as done or not done.  A behaviour is of one of the two.            *)
(***************************************************************************)
EXTENDS MCAnalysisService, ForecastEnricher

VARIABLE part       \* which of the two this behaviour is of

\* Two leagues share a player, who has the second place in one and the first in the other.
SquadOf == [l \in {"x", "y"} |-> IF l = "x" THEN <<"p", "q">> ELSE <<"q">>]
PlayedOf == [p \in {"p", "q"} |-> {"m"}]

InService == part = "service" /\ UNCHANGED <<part, enricherVars>>
InEnricher == part = "enricher" /\ UNCHANGED <<part, vars>>

ForecastsInit == part \in {"service", "enricher"} /\ Init /\ EnricherInit

\* The match begins before the first snapshot, which is of league x, or not at all.
ForecastsNext ==
    \/ InService /\ Next
    \/ InEnricher /\ gens = <<>> /\ KickOff("m")
    \/ InEnricher /\ Whistle("m")
    \/ \E l \in {"x", "y"} : InEnricher /\ (gens = <<>> => l = "x") /\ Download(l)
    \/ InEnricher /\ Expire
    \/ \E t \in Threads :
          \/ \E g \in DOMAIN gens, prepares \in BOOLEAN : InEnricher /\ Call(t, g, prepares)
          \/ InEnricher /\ LockJobs(t)
          \/ InEnricher /\ Look(t)
          \/ InEnricher /\ Submit(t)
          \/ InEnricher /\ Primed(t)
          \/ InEnricher /\ Enter(t)
          \/ InEnricher /\ Collect(t)
          \/ InEnricher /\ Freeze(t)
    \/ \E n \in DOMAIN futures :
          \/ InEnricher /\ Take(n)
          \/ InEnricher /\ Finish(n)
          \/ InEnricher /\ Fail(n)
          \/ InEnricher /\ Release(n)

ForecastsSpec == ForecastsInit /\ [][ForecastsNext]_<<part, vars, enricherVars>>

AllSymmetry == Symmetry \cup Permutations(Threads)
=============================================================================
