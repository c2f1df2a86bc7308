------------------------- MODULE MCPrivateAssistant -------------------------
(***************************************************************************)
(* The two sides of the private assistant: its requests on the server and  *)
(* its page in a browser.  Each is explored with what it knows of the      *)
(* other (the page: answers, refusals and the end of its session; the      *)
(* server: requests of a session in any order), so a behaviour is of one.  *)
(***************************************************************************)
EXTENDS PrivateAssistant, PrivatePage, TLC

VARIABLE side       \* which of the two this behaviour is of

SidesInit ==
    /\ side \in {"server", "page"} /\ AppInit /\ PageInit
    /\ side = "server" => cookie = NoSession

OnServer == side = "server" /\ UNCHANGED <<side, pageVars>>
OnPage == side = "page" /\ UNCHANGED <<side, vars>>

\* AppNext and PageNext.
SidesNext ==
    \/ \E r \in Requests : OnServer /\ Step(r)
    \/ \E l \in Logins : OnServer /\ SignIn(l) /\ UNCHANGED appVars
    \/ \E t \in DOMAIN used : OnServer /\ Lookup(t) /\ UNCHANGED appVars
    \/ OnServer /\ Tick /\ UNCHANGED appVars
    \/ OnPage /\ Login
    \/ OnPage /\ Refresh
    \/ OnPage /\ Draft
    \/ OnPage /\ Plan
    \/ OnPage /\ SignOut
    \/ \E team \in Teams : OnPage /\ LoadSquad(team)
    \/ \E h \in Horizons : OnPage /\ ChangeHorizon(h)
    \/ \E m \in Models : OnPage /\ ChangeModel(m)
    \/ \E t \in tasks :
          \/ OnPage /\ Unauthorised(t)
          \/ OnPage /\ Failed(t)
          \/ OnPage /\ CheckedAccess(t)
          \/ OnPage /\ CheckedSession(t)
          \/ OnPage /\ LoggedIn(t)
          \/ OnPage /\ LoggedOut(t)
          \/ OnPage /\ Refreshed(t)
          \/ OnPage /\ Predicted(t)
          \/ OnPage /\ Progressed(t)
          \/ OnPage /\ SquadLoaded(t)
          \/ OnPage /\ LineupShown(t)
          \/ OnPage /\ PlanShown(t)
    \/ OnPage /\ Poll
    \/ OnPage /\ Check
    \/ OnPage /\ Restore
    \/ OnPage /\ Told
    \/ OnPage /\ OtherSignsIn
    \/ \E team \in Teams : OnPage /\ OtherLoadsSquad(team)
    \/ OnPage /\ OtherSignsOut
    \/ OnPage /\ SessionEnds

SidesSpec == SidesInit /\ [][SidesNext]_<<side, vars, pageVars>>

Interchangeable ==
    Permutations(Requests) \cup Permutations(Sessions) \cup Permutations(Teams)
=============================================================================
