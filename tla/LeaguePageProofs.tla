-------------------------- MODULE LeaguePageProofs --------------------------
(***************************************************************************)
(* Proofs about the league page (LeaguePage), for every set of leagues,    *)
(* managers, pairs and conditions: what is shown is of one update, and no  *)
(* answer stands beside another question.                                  *)
(*                                                                         *)
(* The page checks each answer against what it shows, so most of the       *)
(* invariant is about the state between the checks: what the generation    *)
(* says of a request in flight (RequestsInv), which question a comparison  *)
(* under way or shown belongs to (PanelInv), and for which screens the     *)
(* summary held is the one asked for (SummaryInv), the season's included,  *)
(* from which the demo comes back without asking.                          *)
(***************************************************************************)
EXTENDS LeaguePage, TLAPS

Names == Leagues \cup {Demo, NoLeague}
Asks == [league : Names, gameweek : {"now", "past"}, rule : {"include", "strict"}]
Summaries == [league : Names, gameweek : {"now", "past"}, rule : {"include", "strict"},
              source : Nat, status : Statuses]
Card == [found : Nat, loading : BOOLEAN, error : {"none", "failed", "expired"}]
Cards == [Managers -> Card]
Forecast == [baseline : Nat, loading : BOOLEAN, conditions : SUBSET Conditions,
             modified : Nat, under : SUBSET Conditions, adjusting : BOOLEAN]
\* The pair selected before the reader chooses one is arbitrary when there is none.
Selection == Pairs \cup {NoPair, CHOOSE p \in Pairs : TRUE}
Panel == [open : BOOLEAN, pair : Selection, key : Nat \X Selection,
          shown : {"none", "choose", "waiting", "result", "error"}, source : Nat, league : Names]
Kinds == {"summary", "season", "scenarios", "outlook", "what-if", "compare"}
IsRequest(r) == r.kind \in Kinds /\ r.gen \in Nat /\ r.ask \in Asks /\ r.source \in Nat

TypesInv ==
    /\ ask \in Asks /\ generation \in Nat /\ served \in Nat
    /\ Real(data) => data \in Summaries
    /\ cards \in Cards /\ outlook \in Forecast /\ comparison \in Panel

\* The summary held is the one asked for wherever it is, or comes to be without a load, on screen.
SummaryInv ==
    page = "analysis" /\ Real(data) /\ (view = "overview" \/ ask.league = Demo) =>
        data.league = ask.league /\ data.gameweek = ask.gameweek

\* Cards and forecast are of the update held, on screen or not.
SourceInv ==
    Real(data) => /\ \A m \in Managers : cards[m].found \in {0, data.source}
                  /\ outlook.baseline \in {0, data.source} /\ outlook.modified \in {0, data.source}

\* A summary of this generation is the one asked for, and a what-if request in flight is of the
\* conditions that are set.
RequestsOK(rs, a, g, conditions) ==
    \A r \in rs :
        /\ IsRequest(r)
        /\ r.kind = "summary" /\ r.gen = g => r.ask.league = a.league /\ r.ask.gameweek = a.gameweek
        /\ r.kind = "what-if" => r.about = conditions
RequestsInv == RequestsOK(requests, ask, generation, outlook.conditions)

\* One comparison at most is in flight, the one of the panel's key.  One that outlived its generation did
\* so when the reader left the league, and nothing can be shown before it is gone.
ComparesOK(c, rs, a, g, d) ==
    \A r \in rs : r.kind = "compare" =>
        /\ c.key[1] = r.gen /\ \A q \in rs : q.kind = "compare" => q = r
        /\ r.gen = g => r.ask.league = a.league
        /\ r.gen # g => d = NoData /\ \A q \in rs : q.kind # "summary"

\* The key is of the pair selected while an answer to it is on its way or shown.
KeyOK(c, rs) ==
    c.shown = "result" \/ (\E r \in rs : r.kind = "compare") => c.key[2] = c.pair

\* A result of this generation is of the league asked for.
ResultOK(c, a, g) ==
    c.key[1] <= g /\ (c.shown = "result" /\ c.key[1] = g => c.league = a.league)

PanelInv ==
    /\ ComparesOK(comparison, requests, ask, generation, data)
    /\ KeyOK(comparison, requests)
    /\ ResultOK(comparison, ask, generation)
    /\ Open /\ comparison.open /\ comparison.shown = "result" => comparison.league = data.league

PageInv ==
    /\ TypesInv /\ SummaryInv /\ SourceInv /\ RequestsInv /\ PanelInv
    /\ ResultOfTheConditions

(***************************************************************************)
(* What the prover does not see by itself.                                 *)
(***************************************************************************)
\* Every request of the page is one of the kinds it tells apart.
LEMMA RequestTyped ==
    ASSUME NEW kind \in Kinds, NEW about, NEW d, Real(d) => d \in Summaries, NEW g \in Nat, ask \in Asks
    PROVE  LET r == Request(kind, about, d, g) IN
           /\ IsRequest(r) /\ r.kind = kind /\ r.gen = g /\ r.ask = ask /\ r.about = about
  BY DEF Request, IsRequest, Summaries

\* Rendering keeps the panel and its requests in order, and leaves an open panel with no result
\* but one of this generation.  The pair may just have been changed, in a panel that is open.
LEMMA RenderedOK ==
    ASSUME NEW c \in Panel, NEW rs, NEW d, NEW g \in Nat, NEW conditions, ask \in Asks,
           Real(d) => d \in Summaries,
           RequestsOK(rs, ask, g, conditions), ComparesOK(c, rs, ask, g, d), ResultOK(c, ask, g),
           c.open \/ KeyOK(c, rs)
    PROVE  LET next == Rendered(c, rs, d, g) IN
           /\ next.panel \in Panel
           /\ RequestsOK(next.requests, ask, g, conditions)
           /\ ComparesOK(next.panel, next.requests, ask, g, d)
           /\ KeyOK(next.panel, next.requests)
           /\ ResultOK(next.panel, ask, g)
           /\ next.panel.open /\ next.panel.shown = "result" => next.panel.league = ask.league
           /\ \A r : r.kind # "compare" => (r \in next.requests <=> r \in rs)
<1> DEFINE next == Rendered(c, rs, d, g)
           rest == rs \ Of(rs, {"compare"})
           r0 == Request("compare", {c.pair}, d, g)
           Kept == ~c.open \/ c.key = CompareKey(g, c.pair)
<1>0. c.open \in BOOLEAN /\ c.pair \in Selection /\ c.key \in Nat \X Selection /\ c.league \in Names
      /\ NoPair \in Selection /\ c.shown \in {"none", "choose", "waiting", "result", "error"}
  BY DEF Panel, Selection
<1>1. rest \subseteq rs /\ (\A r \in rest : r.kind # "compare")
      /\ \A r : r.kind # "compare" => (r \in rest <=> r \in rs)
  BY DEF Of
<1>2. CASE Kept
  <2>1. next.panel = c /\ next.requests = rs
    BY <1>2 DEF Rendered
  <2>2. KeyOK(c, rs)
    BY <1>2, <1>0 DEF CompareKey, KeyOK
  <2>3. c.open /\ c.shown = "result" => c.league = ask.league
    BY <1>2, <1>0 DEF CompareKey, ResultOK
  <2> QED BY <2>1, <2>2, <2>3
<1>3. CASE ~Kept /\ c.pair = NoPair
  <2> DEFINE p == [c EXCEPT !.key = <<0, NoPair>>, !.shown = "choose"]
  <2>1. next.panel = p /\ next.requests = rest
    BY <1>3 DEF Rendered
  <2>2. p \in Panel /\ p.shown = "choose" /\ p.key = <<0, NoPair>>
    BY <1>0 DEF Panel
  <2> HIDE DEF p, rest
  <2>3. RequestsOK(rest, ask, g, conditions)
    BY <1>1 DEF RequestsOK
  <2>4. ComparesOK(p, rest, ask, g, d) /\ KeyOK(p, rest) /\ ResultOK(p, ask, g)
    BY <1>1, <2>2 DEF ComparesOK, KeyOK, ResultOK
  <2>5. p.shown # "result"
    BY <2>2
  <2> QED BY <2>1, <2>2, <2>3, <2>4, <2>5, <1>1
<1>4. CASE ~Kept /\ c.pair # NoPair
  <2> DEFINE p == [c EXCEPT !.key = CompareKey(g, c.pair), !.shown = "waiting"]
             with == rest \cup {r0}
  <2>1. next.panel = p /\ next.requests = with
    BY <1>4 DEF Rendered
  <2>2. p \in Panel /\ p.shown = "waiting" /\ p.key = <<g, c.pair>> /\ p.pair = c.pair
    BY <1>0 DEF Panel, CompareKey
  <2>3. IsRequest(r0) /\ r0.kind = "compare" /\ r0.gen = g /\ r0.ask = ask
    BY <1>0, RequestTyped DEF Kinds
  <2>4. \A r \in with : r \in rest \/ r = r0
    OBVIOUS
  <2>5. \A r : r \in rest => r \in with
    OBVIOUS
  <2> HIDE DEF p, rest, r0, with
  <2>6. RequestsOK(with, ask, g, conditions)
    BY <1>1, <2>3, <2>4 DEF RequestsOK
  <2>7. ComparesOK(p, with, ask, g, d)
    BY <1>1, <2>2, <2>3, <2>4 DEF ComparesOK
  <2>8. KeyOK(p, with) /\ ResultOK(p, ask, g) /\ p.shown # "result"
    BY <1>1, <2>2 DEF KeyOK, ResultOK
  <2>9. \A r : r.kind # "compare" => (r \in with <=> r \in rs)
    BY <1>1, <2>3, <2>4, <2>5
  <2> QED BY <2>1, <2>2, <2>6, <2>7, <2>8, <2>9
<1> QED BY <1>2, <1>3, <1>4

\* Where there is no comparison, the panel's requests are in order.
LEMMA NoCompares ==
    ASSUME NEW c, NEW rs, NEW a, NEW g, NEW d, \A r \in rs : r.kind # "compare"
    PROVE  ComparesOK(c, rs, a, g, d) /\ (c.shown # "result" => KeyOK(c, rs))
  BY DEF ComparesOK, KeyOK

\* Aborting the comparisons leaves the panel with a result only if it had one, and no result is
\* of a generation that has only begun.
LEMMA InterruptedOK ==
    ASSUME PageInv
    PROVE  /\ Interrupted \in Panel
           /\ Interrupted.open = comparison.open
           /\ Interrupted.shown = "result" =>
                 comparison.shown = "result" /\ Interrupted.key = comparison.key
                 /\ Interrupted.pair = comparison.pair /\ Interrupted.league = comparison.league
           /\ \A a : ResultOK(Interrupted, a, generation + 1)
<1> DEFINE p == [comparison EXCEPT !.key = <<0, NoPair>>, !.shown = "error"]
<1>1. comparison \in Panel /\ generation \in Nat
  BY DEF PageInv, TypesInv
<1>2. comparison.key[1] \in Nat /\ comparison.key[1] <= generation
  BY <1>1 DEF PageInv, PanelInv, ResultOK, Panel
<1>3. p \in Panel /\ p.shown = "error" /\ p.open = comparison.open /\ p.key = <<0, NoPair>>
  BY <1>1 DEF Panel, Selection
<1>4. Interrupted \in {comparison, p}
  BY DEF Interrupted
<1> HIDE DEF p
<1>5. \A a : ResultOK(comparison, a, generation + 1) /\ ResultOK(p, a, generation + 1)
  BY <1>1, <1>2, <1>3 DEF ResultOK
<1> QED BY <1>1, <1>3, <1>4, <1>5

\* What every load does to the page: the next generation begins with a single request, the
\* data stays, and the screen keeps showing it only if the question stays.
LEMMA LoadStep ==
    ASSUME PageInv, NEW a \in Asks, ask' = a, generation' = generation + 1, served' = served,
           comparison' = Interrupted, UNCHANGED <<data, cards, outlook>>,
           \A r \in requests' : /\ IsRequest(r) /\ r.kind \in {"summary", "season"}
                                /\ r.ask.league = a.league /\ r.ask.gameweek = a.gameweek,
           \/ page' # "analysis"
           \/ view' # "overview" /\ a.league # Demo
           \/ page' = page /\ view' = view /\ a = ask
    PROVE  PageInv'
<1>1. TypesInv'
  BY InterruptedOK DEF PageInv, TypesInv, Real
<1>2. SummaryInv'
  BY DEF PageInv, SummaryInv, Real
<1>3. SourceInv'
  BY DEF PageInv, SourceInv, Real
<1>4. RequestsInv'
  BY DEF RequestsInv, RequestsOK
<1>5. PanelInv'
  <2>1. \A r \in requests' : r.kind # "compare"
    OBVIOUS
  <2>2. ComparesOK(comparison, requests, ask, generation, data)'
    BY <2>1 DEF ComparesOK
  <2>3. KeyOK(comparison, requests)'
    BY <2>1, InterruptedOK DEF KeyOK, PageInv, PanelInv
  <2>4. ResultOK(comparison, ask, generation)'
    BY InterruptedOK
  <2>5. Open' => Open
    BY DEF Open, Real
  <2>6. (Open /\ comparison.open /\ comparison.shown = "result" => comparison.league = data.league)'
    BY <2>5, InterruptedOK DEF PageInv, PanelInv
  <2> QED BY <2>2, <2>3, <2>4, <2>6 DEF PanelInv
<1>6. ResultOfTheConditions'
  BY DEF PageInv, ResultOfTheConditions
<1> QED BY <1>1, <1>2, <1>3, <1>4, <1>5, <1>6 DEF PageInv

\* The data's source is a number wherever it is used.
LEMMA SeasonLoaded ==
    ASSUME PageInv, NEW a \in Asks, a.league # Demo, LoadSeason(a)
    PROVE  PageInv'
<1> DEFINE now == [a EXCEPT !.gameweek = "now"]
           r0 == [Request("season", {}, data, generation') EXCEPT !.ask = now]
<1>1. now \in Asks /\ now.league = a.league
  BY DEF Asks
<1>2. generation' \in Nat /\ ask \in Asks /\ (Real(data) => data \in Summaries)
  BY DEF LoadSeason, PageInv, TypesInv
<1>3. IsRequest(r0) /\ r0.kind = "season" /\ r0.ask = now
  BY <1>1, <1>2 DEF Request, IsRequest, Kinds, Summaries
<1>4. requests' \subseteq {r0}
  BY DEF LoadSeason
<1>5. ask' = now /\ view' = "analytics" /\ generation' = generation + 1 /\ served' = served
      /\ comparison' = Interrupted /\ UNCHANGED <<data, cards, outlook>>
  BY DEF LoadSeason
<1> HIDE DEF now, r0
<1>6. \A r \in requests' : /\ IsRequest(r) /\ r.kind \in {"summary", "season"}
                           /\ r.ask.league = now.league /\ r.ask.gameweek = now.gameweek
  BY <1>3, <1>4
<1> QED BY <1>1, <1>5, <1>6, LoadStep

LEMMA SummaryLoaded ==
    ASSUME PageInv, NEW a \in Asks, NEW v, NEW background \in BOOLEAN, LoadSummary(a, v, background),
           background => a = ask /\ v = view
    PROVE  PageInv'
<1> DEFINE r0 == [Request("summary", {}, data, generation') EXCEPT
                     !.ask = a, !.background = background, !.source = served]
<1>1. generation' \in Nat /\ ask \in Asks /\ served \in Nat
  BY DEF LoadSummary, PageInv, TypesInv
<1>2. IsRequest(r0) /\ r0.kind = "summary" /\ r0.ask = a
  BY <1>1 DEF Request, IsRequest, Kinds
<1>3. requests' = {r0}
  BY DEF LoadSummary
<1>4. /\ ask' = a /\ view' = v /\ generation' = generation + 1 /\ served' = served
      /\ comparison' = Interrupted /\ UNCHANGED <<data, cards, outlook>>
      /\ page' = IF background THEN page ELSE "loading"
  BY DEF LoadSummary, details
<1> HIDE DEF r0
<1>5. \A r \in requests' : /\ IsRequest(r) /\ r.kind \in {"summary", "season"}
                           /\ r.ask.league = a.league /\ r.ask.gameweek = a.gameweek
  BY <1>2, <1>3
<1>6. \/ page' # "analysis"
      \/ page' = page /\ view' = view /\ a = ask
  BY <1>4
<1> QED BY <1>4, <1>5, <1>6, LoadStep

LEMMA Loaded ==
    ASSUME PageInv, NEW a \in Asks, NEW v, NEW background \in BOOLEAN, Load(a, v, background),
           background => a = ask /\ v = view
    PROVE  PageInv'
  BY SeasonLoaded, SummaryLoaded DEF Load

\* Requests that end, and details asked for, leave the panel as it was.
LEMMA Related ==
    ASSUME NEW c, NEW rs, NEW rs2, NEW a, NEW g, NEW d, ComparesOK(c, rs, a, g, d),
           \A r \in rs2 : r \in rs \/ r.kind \in {"scenarios", "outlook", "what-if"}
    PROVE  ComparesOK(c, rs2, a, g, d) /\ (KeyOK(c, rs) => KeyOK(c, rs2))
  BY DEF ComparesOK, KeyOK

\* A step within a generation: either the panel is rendered, perhaps with the reader's change
\* (c), or it stays as it is.
LEMMA DetailStep ==
    ASSUME PageInv, UNCHANGED <<ask, generation, served>>, Real(data') => data' \in Summaries,
           cards' \in Cards, outlook' \in Forecast,
           SummaryInv', SourceInv', ResultOfTheConditions',
           NEW c \in Panel, NEW rs,
           RequestsOK(rs, ask, generation, outlook'.conditions),
           ComparesOK(c, rs, ask, generation, data'), ResultOK(c, ask, generation),
           c.open \/ KeyOK(c, rs),
           \/ /\ comparison' = Rendered(c, rs, data', generation).panel
              /\ \A r \in requests' : \/ r \in Rendered(c, rs, data', generation).requests
                                      \/ IsRequest(r) /\ r.kind \in {"scenarios", "outlook"}
           \/ /\ comparison' = c /\ requests' = rs /\ KeyOK(c, rs)
              /\ Open' /\ c.open /\ c.shown = "result" => c.league = data'.league
    PROVE  PageInv'
<1> DEFINE next == Rendered(c, rs, data', generation)
<1>0. generation \in Nat /\ ask \in Asks /\ served \in Nat
  BY DEF PageInv, TypesInv
<1>1. CASE /\ comparison' = next.panel
           /\ \A r \in requests' : \/ r \in next.requests
                                   \/ IsRequest(r) /\ r.kind \in {"scenarios", "outlook"}
  <2>1. /\ next.panel \in Panel
        /\ RequestsOK(next.requests, ask, generation, outlook'.conditions)
        /\ ComparesOK(next.panel, next.requests, ask, generation, data')
        /\ KeyOK(next.panel, next.requests)
        /\ ResultOK(next.panel, ask, generation)
        /\ next.panel.open /\ next.panel.shown = "result" => next.panel.league = ask.league
    BY <1>0, RenderedOK
  <2> HIDE DEF next
  <2>2. TypesInv'
    BY <1>0, <1>1, <2>1 DEF TypesInv
  <2>3. RequestsInv'
    BY <1>1, <2>1 DEF RequestsInv, RequestsOK
  <2>4. ComparesOK(next.panel, requests', ask, generation, data') /\ KeyOK(next.panel, requests')
    BY <1>1, <2>1, Related
  <2>5. Open' => data'.league = ask.league
    BY DEF Open, SummaryInv
  <2>6. PanelInv'
    BY <1>1, <2>1, <2>4, <2>5 DEF PanelInv
  <2> QED BY <2>2, <2>3, <2>6 DEF PageInv
<1>2. CASE /\ comparison' = c /\ requests' = rs /\ KeyOK(c, rs)
           /\ Open' /\ c.open /\ c.shown = "result" => c.league = data'.league
  <2>1. TypesInv' /\ RequestsInv' /\ PanelInv'
    BY <1>0, <1>2 DEF TypesInv, RequestsInv, PanelInv
  <2> QED BY <2>1 DEF PageInv
<1> QED BY <1>1, <1>2

\* What the invariant says of the panel, as a rendering needs it.
LEMMA PanelFacts ==
    ASSUME PageInv
    PROVE  /\ comparison \in Panel /\ ResultOK(comparison, ask, generation)
           /\ ComparesOK(comparison, requests, ask, generation, data)
           /\ KeyOK(comparison, requests)
           /\ RequestsOK(requests, ask, generation, outlook.conditions)
           /\ generation \in Nat /\ ask \in Asks /\ served \in Nat
           /\ Real(data) => data \in Summaries
           /\ cards \in Cards /\ outlook \in Forecast
  BY DEF PageInv, TypesInv, PanelInv, RequestsInv

\* A detail step on the same screen: the data and the question stay.
LEMMA SameScreen ==
    ASSUME PageInv, UNCHANGED <<pageVars, data, served>>,
           cards' \in Cards, outlook' \in Forecast, SourceInv', ResultOfTheConditions',
           NEW rs, \A r \in rs : r \in requests \/ r.kind \in {"scenarios", "outlook", "what-if"},
           RequestsOK(rs, ask, generation, outlook'.conditions),
           \/ Render(comparison, rs, data, generation)
           \/ comparison' = comparison /\ requests' = rs
    PROVE  PageInv'
<1>1. UNCHANGED <<ask, view, page, hidden, refreshOff, timer, generation, data, served>>
  BY DEF pageVars
<1>2. SummaryInv'
  BY <1>1 DEF PageInv, SummaryInv, Real
<1>3. ComparesOK(comparison, rs, ask, generation, data') /\ KeyOK(comparison, rs)
  BY <1>1, PanelFacts, Related
<1>4. Open' /\ comparison.open /\ comparison.shown = "result" => comparison.league = data'.league
  BY <1>1 DEF PageInv, PanelInv, Open, Real
<1>5. Real(data') => data' \in Summaries
  BY <1>1, PanelFacts
<1>6. CASE Render(comparison, rs, data, generation)
  <2>1. /\ comparison' = Rendered(comparison, rs, data', generation).panel
        /\ requests' = Rendered(comparison, rs, data', generation).requests
    BY <1>1, <1>6 DEF Render
  <2> QED BY <1>1, <1>2, <1>3, <1>5, <2>1, PanelFacts, DetailStep
<1>7. CASE comparison' = comparison /\ requests' = rs
  BY <1>1, <1>2, <1>3, <1>4, <1>5, <1>7, PanelFacts, DetailStep
<1> QED BY <1>6, <1>7

(***************************************************************************)
(* The reader's actions.                                                   *)
(***************************************************************************)
LEMMA AskWith ==
    ASSUME ask \in Asks, NEW l \in Names, NEW gw \in {"now", "past"}, NEW rule \in {"include", "strict"}
    PROVE  /\ Choose(l) \in Asks /\ Choose(l).league = l
           /\ [ask EXCEPT !.gameweek = gw] \in Asks
           /\ LET a == [ask EXCEPT !.rule = rule] IN
              a \in Asks /\ a.league = ask.league /\ a.gameweek = ask.gameweek
  BY DEF Asks, Choose

LEMMA ChangeLeagueStep == ASSUME PageInv, ChangeLeague PROVE PageInv'
<1>1. /\ generation' = generation + 1 /\ ask' = Choose(NoLeague) /\ page' = "landing" /\ data' = NoData
      /\ requests' = Of(requests, {"compare"}) /\ UNCHANGED <<cards, outlook, comparison, served>>
  BY DEF ChangeLeague
<1>2. ask' \in Asks
  BY <1>1, PanelFacts, AskWith DEF Names
<1>3. /\ TypesInv' /\ SummaryInv' /\ SourceInv' /\ ResultOfTheConditions' /\ ~Open'
  BY <1>1, <1>2, PanelFacts DEF PageInv, TypesInv, SummaryInv, SourceInv, ResultOfTheConditions, Real, Open
<1>4. \A r \in requests' : r \in requests /\ r.kind = "compare"
  BY <1>1 DEF Of
<1>5. RequestsInv'
  BY <1>1, <1>4, PanelFacts DEF RequestsInv, RequestsOK
<1>6. comparison.key[1] \in Nat /\ comparison.key[1] <= generation /\ generation \in Nat
  BY PanelFacts DEF ResultOK, Panel
<1>7. ResultOK(comparison, ask, generation)'
  BY <1>1, <1>6 DEF ResultOK
<1>8. KeyOK(comparison, requests)'
  BY <1>1, <1>4, PanelFacts DEF KeyOK
<1>9. ComparesOK(comparison, requests, ask, generation, data)'
  BY <1>1, <1>4, <1>6, PanelFacts DEF ComparesOK
<1> QED BY <1>3, <1>5, <1>7, <1>8, <1>9 DEF PageInv, PanelInv

LEMMA ChooseRuleStep == ASSUME PageInv, ChooseRule PROVE PageInv'
<1>1. PICK rule \in {"include", "strict"} :
         LET a == [ask EXCEPT !.rule = rule] IN
         IF data # NoData THEN Load(a, view, FALSE)
         ELSE ask' = a /\ UNCHANGED <<view, page, hidden, refreshOff, timer, generation, data,
                                      details, requests, refreshFailed, served>>
  BY DEF ChooseRule
<1> DEFINE a == [ask EXCEPT !.rule = rule]
<1>2. a \in Asks /\ a.league = ask.league /\ a.gameweek = ask.gameweek
  BY PanelFacts, AskWith DEF Names, Asks
<1>3. CASE data # NoData
  BY <1>1, <1>2, <1>3, Loaded
<1>4. CASE data = NoData
  <2>1. /\ ask' = a /\ page' = page /\ view' = view /\ generation' = generation /\ data' = data
        /\ cards' = cards /\ outlook' = outlook /\ comparison' = comparison
        /\ requests' = requests /\ served' = served
    BY <1>1, <1>4 DEF details
  <2> HIDE DEF a
  <2>2. TypesInv' /\ SummaryInv' /\ SourceInv' /\ ResultOfTheConditions' /\ ~Open'
    BY <1>2, <1>4, <2>1, PanelFacts
       DEF PageInv, TypesInv, SummaryInv, SourceInv, ResultOfTheConditions, Real, Open
  <2>3. RequestsInv'
    BY <1>2, <2>1, PanelFacts DEF RequestsInv, RequestsOK
  <2>4. ComparesOK(comparison, requests, ask, generation, data)'
    BY <1>2, <2>1, PanelFacts DEF ComparesOK
  <2>5. ResultOK(comparison, ask, generation)' /\ KeyOK(comparison, requests)'
    BY <1>2, <2>1, PanelFacts DEF ResultOK, KeyOK
  <2> QED BY <2>2, <2>3, <2>4, <2>5 DEF PageInv, PanelInv
<1> QED BY <1>3, <1>4

\* A view change that loads nothing is the demo's: its summary is the one asked for in both views.
LEMMA SwitchViewStep == ASSUME PageInv, SwitchView PROVE PageInv'
<1>1. CASE view = "overview" /\ ask.league # Demo /\ LoadSeason(ask)
  BY <1>1, PanelFacts, SeasonLoaded
<1>2. CASE Load(ask, "overview", FALSE)
  BY <1>2, PanelFacts, Loaded
<1>3. CASE /\ ask.league = Demo /\ view' \in {"overview", "analytics"}
           /\ IF view' = "overview" /\ Real(data) THEN Render(comparison, requests, data, generation)
              ELSE UNCHANGED <<comparison, requests>>
           /\ UNCHANGED <<ask, page, hidden, refreshOff, generation, data, cards, hydrate, outlook,
                          refreshFailed, served>>
           /\ page = "analysis"
  <2>1. /\ SummaryInv' /\ SourceInv' /\ ResultOfTheConditions'
        /\ Real(data') => data' \in Summaries
    BY <1>3, PanelFacts DEF PageInv, SummaryInv, SourceInv, ResultOfTheConditions, Real
  <2>2. CASE view' = "overview" /\ Real(data)
    <3>1. /\ comparison' = Rendered(comparison, requests, data', generation).panel
          /\ requests' = Rendered(comparison, requests, data', generation).requests
      BY <1>3, <2>2 DEF Render
    <3> QED BY <1>3, <2>1, <3>1, PanelFacts, DetailStep
  <2>3. CASE ~(view' = "overview" /\ Real(data))
    <3>1. ~Open' /\ comparison' = comparison /\ requests' = requests
      BY <1>3, <2>3 DEF Open, Real
    <3> QED BY <1>3, <2>1, <3>1, PanelFacts, DetailStep
  <2> QED BY <2>2, <2>3
<1> QED BY <1>1, <1>2, <1>3 DEF SwitchView

LEMMA SwitchTabStep == ASSUME PageInv, SwitchTab PROVE PageInv'
<1>1. /\ UNCHANGED <<ask, view, page, generation, data, cards, outlook, comparison, requests, served>>
  BY DEF SwitchTab, details
<1> QED BY <1>1 DEF PageInv, TypesInv, SummaryInv, SourceInv, RequestsInv, PanelInv, Open, Real,
               ResultOfTheConditions

LEMMA LoadScenariosStep == ASSUME PageInv, NEW m \in Managers, LoadScenarios(m) PROVE PageInv'
<1> DEFINE r0 == Request("scenarios", {m}, data, generation)
           rs == requests \cup {r0}
<1>1. IsRequest(r0) /\ r0.kind = "scenarios"
  BY PanelFacts, RequestTyped DEF Kinds
<1>2. /\ cards' = [cards EXCEPT ![m].loading = TRUE, ![m].error = "none"]
      /\ Render(comparison, rs, data, generation) /\ UNCHANGED <<pageVars, data, outlook, served>>
  BY DEF LoadScenarios
<1>3. cards' \in Cards /\ \A n \in Managers : cards'[n].found = cards[n].found
  BY <1>2, PanelFacts DEF Card, Cards
<1>4. SourceInv' /\ ResultOfTheConditions'
  BY <1>2, <1>3 DEF PageInv, SourceInv, ResultOfTheConditions, Real
<1>5. RequestsOK(rs, ask, generation, outlook'.conditions)
  BY <1>1, <1>2, PanelFacts DEF RequestsOK
<1>6. \A r \in rs : r \in requests \/ r.kind \in {"scenarios", "outlook", "what-if"}
  BY <1>1
<1> HIDE DEF rs
<1> QED BY <1>2, <1>3, <1>4, <1>5, <1>6, PanelFacts, SameScreen

LEMMA AskScenariosStep == ASSUME PageInv, AskScenarios PROVE PageInv'
<1>1. CASE Load(ask, view, TRUE)
  BY <1>1, PanelFacts, Loaded
<1>2. CASE \E m \in Managers : LoadScenarios(m)
  BY <1>2, LoadScenariosStep
<1> QED BY <1>1, <1>2 DEF AskScenarios

LEMMA RecalculateStep == ASSUME PageInv, Recalculate PROVE PageInv'
<1>1. PICK conditions \in SUBSET Conditions :
         LET rest == requests \ Of(requests, {"what-if"}) IN
         /\ outlook' = Recalculating(conditions)
         /\ Render(comparison, IF conditions = {} THEN rest
                               ELSE rest \cup {Request("what-if", conditions, data, generation)},
                   data, generation)
  BY DEF Recalculate
<1> DEFINE rest == requests \ Of(requests, {"what-if"})
           r0 == Request("what-if", conditions, data, generation)
           rs == IF conditions = {} THEN rest ELSE rest \cup {r0}
<1>2. UNCHANGED <<pageVars, data, cards, served>>
  BY DEF Recalculate
<1>3. outlook' \in Forecast /\ outlook'.conditions = conditions /\ outlook'.modified = 0
      /\ outlook'.baseline = outlook.baseline
  BY <1>1, PanelFacts DEF Recalculating, Forecast
<1>4. IsRequest(r0) /\ r0.kind = "what-if" /\ r0.about = conditions
  BY PanelFacts, RequestTyped DEF Kinds
<1>5. \A r \in rest : r \in requests /\ r.kind # "what-if"
  BY DEF Of
<1>6. \A r \in rs : r \in rest \/ r = r0
  OBVIOUS
<1>7. Render(comparison, rs, data, generation)
  BY <1>1
<1> HIDE DEF rs, rest, r0
<1>8. RequestsOK(rs, ask, generation, outlook'.conditions)
  BY <1>3, <1>4, <1>5, <1>6, PanelFacts DEF RequestsOK
<1>9. \A r \in rs : r \in requests \/ r.kind \in {"scenarios", "outlook", "what-if"}
  BY <1>4, <1>5, <1>6
<1>10. SourceInv' /\ ResultOfTheConditions'
  BY <1>2, <1>3 DEF PageInv, SourceInv, ResultOfTheConditions, Real
<1>11. cards' \in Cards
  BY <1>2, PanelFacts
<1> QED BY <1>2, <1>3, <1>7, <1>8, <1>9, <1>10, <1>11, SameScreen

\* Opening the panel, or changing its pair, asks again unless the last result is of this generation.
LEMMA ChangePanelStep == ASSUME PageInv, ChangePanel PROVE PageInv'
<1>1. UNCHANGED <<pageVars, data, cards, hydrate, outlook, refreshFailed, served>>
  BY DEF ChangePanel
<1>2. /\ UNCHANGED <<ask, generation, served, data>> /\ cards' \in Cards /\ outlook' \in Forecast
      /\ Real(data') => data' \in Summaries
      /\ outlook' = outlook
  BY <1>1, PanelFacts DEF pageVars
<1>3. SummaryInv' /\ SourceInv' /\ ResultOfTheConditions'
  BY <1>1 DEF pageVars, PageInv, SummaryInv, SourceInv, ResultOfTheConditions, Real
<1>4. ASSUME NEW c \in Panel, Render(c, requests, data, generation), c.key = comparison.key,
             c.shown = comparison.shown, c.league = comparison.league,
             c.open \/ c.pair = comparison.pair
      PROVE  PageInv'
  <2>1. /\ comparison' = Rendered(c, requests, data', generation).panel
        /\ requests' = Rendered(c, requests, data', generation).requests
    BY <1>2, <1>4 DEF Render
  <2>2. ResultOK(c, ask, generation) /\ (c.open \/ KeyOK(c, requests))
    BY <1>4, PanelFacts DEF ResultOK, KeyOK
  <2>3. ComparesOK(c, requests, ask, generation, data')
    BY <1>2, <1>4, PanelFacts DEF ComparesOK
  <2>4. RequestsOK(requests, ask, generation, outlook'.conditions)
    BY <1>2, PanelFacts
  <2> QED BY <1>2, <1>3, <2>1, <2>2, <2>3, <2>4, DetailStep
<1>5. CASE Render([comparison EXCEPT !.open = ~comparison.open], requests, data, generation)
  <2> DEFINE c == [comparison EXCEPT !.open = ~comparison.open]
  <2>1. /\ c \in Panel /\ c.key = comparison.key /\ c.shown = comparison.shown
        /\ c.league = comparison.league /\ c.pair = comparison.pair
    BY PanelFacts DEF Panel
  <2>2. Render(c, requests, data, generation)
    BY <1>5
  <2> HIDE DEF c
  <2> QED BY <1>4, <2>1, <2>2
<1>6. CASE comparison.open /\ \E pair \in Pairs \cup {NoPair} :
              Render([comparison EXCEPT !.pair = pair], requests, data, generation)
  <2>1. PICK pair \in Pairs \cup {NoPair} :
              Render([comparison EXCEPT !.pair = pair], requests, data, generation)
    BY <1>6
  <2> DEFINE c == [comparison EXCEPT !.pair = pair]
  <2>2. /\ c \in Panel /\ c.key = comparison.key /\ c.shown = comparison.shown
        /\ c.league = comparison.league /\ c.open = comparison.open
    BY PanelFacts DEF Panel, Selection
  <2>3. Render(c, requests, data, generation)
    BY <2>1
  <2> HIDE DEF c
  <2> QED BY <1>4, <1>6, <2>2, <2>3
<1> QED BY <1>5, <1>6 DEF ChangePanel

(***************************************************************************)
(* The answers.                                                            *)
(***************************************************************************)
LEMMA SeasonEndsStep == ASSUME PageInv, NEW r \in requests, SeasonEnds(r) PROVE PageInv'
<1>1. /\ UNCHANGED <<ask, view, page, generation, data, cards, outlook, comparison, served>>
      /\ requests' = requests \ {r}
  BY DEF SeasonEnds, details
<1>2. RequestsInv' /\ ComparesOK(comparison, requests, ask, generation, data)' /\ KeyOK(comparison, requests)'
  BY <1>1, PanelFacts DEF RequestsInv, RequestsOK, ComparesOK, KeyOK
<1> QED BY <1>1, <1>2 DEF PageInv, TypesInv, SummaryInv, SourceInv, PanelInv, Open, Real, ResultOK,
               ResultOfTheConditions

\* A comparison answers the panel's own key, whatever became of the generation.
LEMMA ComparisonArrivesStep == ASSUME PageInv, NEW r \in requests, ComparisonArrives(r) PROVE PageInv'
<1> DEFINE found == [comparison EXCEPT !.shown = "result", !.source = r.source, !.league = r.ask.league]
           failed == [comparison EXCEPT !.shown = "error", !.key = <<0, NoPair>>]
<1>1. /\ UNCHANGED <<pageVars, data, cards, outlook, served>>
      /\ requests' = requests \ {r} /\ r.kind = "compare" /\ comparison' \in {found, failed}
  BY DEF ComparisonArrives
<1>2. UNCHANGED <<ask, view, page, generation>>
  BY <1>1 DEF pageVars
<1>3. IsRequest(r) /\ generation \in Nat
  BY PanelFacts DEF RequestsOK
<1>4. r.ask.league \in Names /\ r.source \in Nat /\ r.gen \in Nat
  BY <1>3 DEF IsRequest, Asks
<1>5. /\ found \in Panel /\ found.key = comparison.key /\ found.pair = comparison.pair
      /\ found.league = r.ask.league /\ found.open = comparison.open
  BY <1>4, PanelFacts DEF Panel
<1>6. failed \in Panel /\ failed.key = <<0, NoPair>> /\ failed.shown = "error"
  BY PanelFacts DEF Panel, Selection
<1> HIDE DEF found, failed
<1>7. /\ comparison.key[1] = r.gen /\ (r.gen = generation => r.ask.league = ask.league)
      /\ r.gen # generation => data = NoData
      /\ comparison.key[2] = comparison.pair
      /\ comparison.key[1] <= generation
  BY <1>1, PanelFacts DEF ComparesOK, KeyOK, ResultOK
<1>8. Open => data.league = ask.league
  BY DEF PageInv, SummaryInv, Open
<1>9. Open => r.gen = generation
  BY <1>7 DEF Open, Real
<1>10. \A c : ComparesOK(comparison, requests, ask, generation, data) /\ c.key = comparison.key
          => ComparesOK(c, requests', ask, generation, data)
  BY <1>1 DEF ComparesOK
<1>11. TypesInv' /\ SummaryInv' /\ SourceInv' /\ ResultOfTheConditions' /\ RequestsInv'
  BY <1>1, <1>2, <1>5, <1>6, PanelFacts
     DEF PageInv, TypesInv, SummaryInv, SourceInv, ResultOfTheConditions, Real, RequestsInv, RequestsOK
<1>12. CASE comparison' = found
  <2>1. ResultOK(comparison, ask, generation)'
    BY <1>2, <1>5, <1>7, <1>12 DEF ResultOK
  <2>2. KeyOK(comparison, requests)'
    BY <1>5, <1>7, <1>12 DEF KeyOK
  <2>3. ComparesOK(comparison, requests, ask, generation, data)'
    BY <1>1, <1>2, <1>5, <1>10, <1>12, PanelFacts
  <2>4. Open' => comparison'.league = data'.league
    BY <1>1, <1>2, <1>5, <1>7, <1>8, <1>9, <1>12 DEF Open, Real
  <2> QED BY <1>11, <2>1, <2>2, <2>3, <2>4 DEF PageInv, PanelInv
<1>13. CASE comparison' = failed
  <2>1. \A q \in requests' : q.kind # "compare"
    BY <1>1, PanelFacts DEF ComparesOK
  <2>2. ComparesOK(comparison, requests, ask, generation, data)' /\ KeyOK(comparison, requests)'
    BY <1>6, <1>13, <2>1 DEF ComparesOK, KeyOK
  <2>3. ResultOK(comparison, ask, generation)'
    BY <1>2, <1>3, <1>6, <1>13 DEF ResultOK
  <2> QED BY <1>6, <1>11, <1>13, <2>2, <2>3 DEF PageInv, PanelInv
<1> QED BY <1>1, <1>12, <1>13

LEMMA OutlookArrivesStep == ASSUME PageInv, NEW r \in requests, OutlookArrives(r) PROVE PageInv'
<1> DEFINE rs == requests \ {r}
<1>1. /\ UNCHANGED <<pageVars, data, cards, served>> /\ Refreshed(rs)
      /\ \/ outlook' = [outlook EXCEPT !.loading = FALSE]
         \/ /\ OfTheScores(r)
            /\ outlook' = [outlook EXCEPT !.loading = FALSE, !.baseline = r.source]
  BY DEF OutlookArrives
<1>2. r.source \in Nat
  BY PanelFacts DEF RequestsOK, IsRequest
<1>3. /\ outlook' \in Forecast /\ outlook'.conditions = outlook.conditions
      /\ outlook'.modified = outlook.modified /\ outlook'.under = outlook.under
      /\ outlook'.baseline = outlook.baseline \/ (OfTheScores(r) /\ outlook'.baseline = r.source)
  BY <1>1, <1>2, PanelFacts DEF Forecast
<1>4. SourceInv'
  BY <1>1, <1>3 DEF PageInv, SourceInv, OfTheScores, Real
<1>5. ResultOfTheConditions'
  BY <1>3 DEF PageInv, ResultOfTheConditions
<1>6. cards' \in Cards
  BY <1>1, PanelFacts
<1>7. RequestsOK(rs, ask, generation, outlook'.conditions)
  BY <1>3, PanelFacts DEF RequestsOK
<1>8. Render(comparison, rs, data, generation) \/ (comparison' = comparison /\ requests' = rs)
  BY <1>1 DEF Refreshed
<1> QED BY <1>1, <1>3, <1>4, <1>5, <1>6, <1>7, <1>8, SameScreen

\* The request in flight is of the conditions that are set, so its result is.
LEMMA WhatIfArrivesStep == ASSUME PageInv, NEW r \in requests, WhatIfArrives(r) PROVE PageInv'
<1> DEFINE rs == requests \ {r}
<1>1. /\ UNCHANGED <<pageVars, data, cards, served>> /\ Refreshed(rs) /\ r.kind = "what-if"
      /\ \/ outlook' = [outlook EXCEPT !.adjusting = FALSE]
         \/ /\ OfTheScores(r)
            /\ outlook' = [outlook EXCEPT !.adjusting = FALSE, !.modified = r.source, !.under = r.about]
  BY DEF WhatIfArrives
<1>2. r.source \in Nat /\ r.about = outlook.conditions
  BY <1>1, PanelFacts DEF RequestsOK, IsRequest
<1>3. /\ outlook' \in Forecast /\ outlook'.conditions = outlook.conditions
      /\ outlook'.baseline = outlook.baseline
      /\ \/ outlook'.modified = outlook.modified /\ outlook'.under = outlook.under
         \/ OfTheScores(r) /\ outlook'.modified = r.source /\ outlook'.under = outlook.conditions
  <2>1. CASE outlook' = [outlook EXCEPT !.adjusting = FALSE]
    BY <2>1, PanelFacts DEF Forecast
  <2>2. CASE /\ OfTheScores(r)
             /\ outlook' = [outlook EXCEPT !.adjusting = FALSE, !.modified = r.source, !.under = r.about]
    <3>1. outlook.conditions \in SUBSET Conditions
      BY PanelFacts DEF Forecast
    <3>2. outlook' = [outlook EXCEPT !.adjusting = FALSE, !.modified = r.source,
                                     !.under = outlook.conditions]
      BY <1>2, <2>2
    <3> QED BY <1>2, <2>2, <3>1, <3>2, PanelFacts DEF Forecast
  <2> QED BY <1>1, <2>1, <2>2
<1>4. SourceInv'
  BY <1>1, <1>3 DEF PageInv, SourceInv, OfTheScores, Real
<1>5. ResultOfTheConditions'
  BY <1>3 DEF PageInv, ResultOfTheConditions
<1>6. cards' \in Cards
  BY <1>1, PanelFacts
<1>7. RequestsOK(rs, ask, generation, outlook'.conditions)
  BY <1>3, PanelFacts DEF RequestsOK
<1>8. Render(comparison, rs, data, generation) \/ (comparison' = comparison /\ requests' = rs)
  BY <1>1 DEF Refreshed
<1> QED BY <1>1, <1>3, <1>4, <1>5, <1>6, <1>7, <1>8, SameScreen

\* Asking for the next manager's scenarios finds none, and adds one request at most.
LEMMA HydrateOK ==
    ASSUME NEW left, NEW cs \in Cards, NEW rs, NEW d, NEW g \in Nat,
           ask \in Asks, Real(d) => d \in Summaries, NEW step \in HydrateSteps(left, cs, rs, d, g)
    PROVE  /\ step.cards \in Cards /\ \A m \in Managers : step.cards[m].found = cs[m].found
           /\ \A r \in step.requests : r \in rs \/ (IsRequest(r) /\ r.kind = "scenarios")
<1> DEFINE wanted == {m \in left : cs[m].found = 0}
           next(m) == [waits |-> {m}, left |-> wanted \ {m}]
           joined(m) == [hydrate |-> next(m), cards |-> cs, requests |-> rs]
           r0(m) == Request("scenarios", {m}, d, g)
           asked(m) == [hydrate |-> next(m), cards |-> [cs EXCEPT ![m].loading = TRUE, ![m].error = "none"],
                        requests |-> rs \cup {r0(m)}]
<1>1. \/ step = [hydrate |-> NotHydrating, cards |-> cs, requests |-> rs]
      \/ \E m \in wanted : step \in {joined(m), asked(m)}
  BY DEF HydrateSteps
<1>2. ASSUME NEW m PROVE IsRequest(r0(m)) /\ r0(m).kind = "scenarios"
  BY RequestTyped DEF Kinds
<1>3. ASSUME NEW m, step = asked(m)
      PROVE  /\ step.cards \in Cards /\ \A n \in Managers : step.cards[n].found = cs[n].found
             /\ \A r \in step.requests : r \in rs \/ (IsRequest(r) /\ r.kind = "scenarios")
  <2>1. step.cards = [cs EXCEPT ![m].loading = TRUE, ![m].error = "none"] /\ step.requests = rs \cup {r0(m)}
    BY <1>3
  <2>2. ASSUME NEW n \in Managers
        PROVE  step.cards[n] \in Card /\ step.cards[n].found = cs[n].found
    <3>1. cs[n] \in Card /\ step.cards[n] \in {cs[n], [cs[n] EXCEPT !.loading = TRUE, !.error = "none"]}
      BY <2>1 DEF Cards
    <3> QED BY <3>1 DEF Card
  <2>4. step.cards \in Cards
    <3>1. DOMAIN step.cards = Managers /\ step.cards = [n \in Managers |-> step.cards[n]]
      BY <2>1 DEF Cards
    <3> QED BY <2>2, <3>1 DEF Cards
  <2>3. \A r \in step.requests : r \in rs \/ r = r0(m)
    BY <2>1
  <2> HIDE DEF r0
  <2> QED BY <1>2, <2>2, <2>3, <2>4
<1>4. ASSUME NEW m, step = joined(m)
      PROVE  step.cards = cs /\ step.requests = rs
  BY <1>4
<1>5. CASE step = [hydrate |-> NotHydrating, cards |-> cs, requests |-> rs]
  BY <1>5
<1> HIDE DEF joined, asked
<1>6. CASE \E m \in wanted : step \in {joined(m), asked(m)}
  <2>1. PICK m : step = joined(m) \/ step = asked(m)
    BY <1>6
  <2> QED BY <1>3, <1>4, <2>1
<1> QED BY <1>1, <1>5, <1>6

\* What a manager's card becomes: scenarios of the update held, the last ones, or none.
LEMMA CardOK ==
    ASSUME PageInv, Real(data), NEW r \in requests, NEW m, NEW card \in Answers(m, r, data)
    PROVE  LET cs == [cards EXCEPT ![m] = card] IN
           /\ cs \in Cards
           /\ \A n \in Managers : cs[n].found \in {0, data.source}
<1> DEFINE cs == [cards EXCEPT ![m] = card]
<1>1. /\ r.source \in Nat /\ cards \in Cards
      /\ \A n \in Managers : cards[n] \in Card /\ cards[n].found \in {0, data.source}
  BY PanelFacts DEF RequestsOK, IsRequest, PageInv, SourceInv, Cards
<1>2. CASE m \in Managers
  <2>1. \/ card = FoundCard(r, data)
        \/ \E e \in {"failed", "expired"} : card = [cards[m] EXCEPT !.loading = FALSE, !.error = e]
    BY DEF Answers
  <2>2. CASE card = FoundCard(r, data)
    <3>1. card \in Card /\ card.found \in {0, data.source}
      BY <1>1, <2>2 DEF FoundCard, NoCard, Card
    <3> QED BY <1>1, <3>1 DEF Cards
  <2>3. CASE \E e \in {"failed", "expired"} : card = [cards[m] EXCEPT !.loading = FALSE, !.error = e]
    <3>1. card \in Card /\ card.found \in {0, data.source}
      <4>1. cards[m] \in Card /\ cards[m].found \in {0, data.source}
        BY <1>1, <1>2
      <4> QED BY <4>1, <2>3 DEF Card
    <3> QED BY <1>1, <3>1 DEF Cards
  <2> QED BY <2>1, <2>2, <2>3
<1>3. CASE m \notin Managers
  <2>1. cs = cards
    BY <1>1, <1>3 DEF Cards
  <2> QED BY <1>1, <2>1
<1> QED BY <1>2, <1>3

LEMMA ScenariosArriveStep == ASSUME PageInv, NEW r \in requests, ScenariosArrive(r) PROVE PageInv'
<1> DEFINE rest == requests \ {r}
<1>1. UNCHANGED <<pageVars, data, outlook, served>>
  BY DEF ScenariosArrive
<1>2. /\ outlook' \in Forecast /\ outlook'.conditions = outlook.conditions /\ ResultOfTheConditions'
      /\ RequestsOK(rest, ask, generation, outlook'.conditions)
  BY <1>1, PanelFacts DEF PageInv, ResultOfTheConditions, RequestsOK
<1>3. PICK m \in r.about :
          IF Real(data)
          THEN \E card \in Answers(m, r, data) :
                LET cs == [cards EXCEPT ![m] = card]
                    steps == IF m \in hydrate.waits THEN HydrateSteps(hydrate.left, cs, rest, data, generation)
                             ELSE {[hydrate |-> hydrate, cards |-> cs, requests |-> rest]}
                IN \E step \in steps :
                      /\ hydrate' = step.hydrate /\ cards' = step.cards
                      /\ Render(comparison, step.requests, data, generation)
          ELSE /\ requests' = rest /\ hydrate' = NotHydrating
               /\ UNCHANGED <<cards, comparison>>
  BY DEF ScenariosArrive
<1>4. CASE Real(data)
  <2>1. PICK card \in Answers(m, r, data) :
                LET cs == [cards EXCEPT ![m] = card]
                    steps == IF m \in hydrate.waits THEN HydrateSteps(hydrate.left, cs, rest, data, generation)
                             ELSE {[hydrate |-> hydrate, cards |-> cs, requests |-> rest]}
                IN \E step \in steps :
                      /\ hydrate' = step.hydrate /\ cards' = step.cards
                      /\ Render(comparison, step.requests, data, generation)
    BY <1>3, <1>4
  <2> DEFINE cs == [cards EXCEPT ![m] = card]
  <2>2. /\ cs \in Cards
        /\ \A n \in Managers : cs[n].found \in {0, data.source}
    BY <1>4, CardOK
  <2>3. PICK step : /\ cards' = step.cards /\ Render(comparison, step.requests, data, generation)
                    /\ \/ step \in HydrateSteps(hydrate.left, cs, rest, data, generation)
                       \/ step = [hydrate |-> hydrate, cards |-> cs, requests |-> rest]
    BY <2>1
  <2> HIDE DEF cs, rest
  <2>4. /\ step.cards \in Cards /\ \A n \in Managers : step.cards[n].found = cs[n].found
        /\ \A q \in step.requests : q \in rest \/ (IsRequest(q) /\ q.kind = "scenarios")
    <3>1. CASE step \in HydrateSteps(hydrate.left, cs, rest, data, generation)
      <4>0. cs \in Cards /\ generation \in Nat /\ ask \in Asks /\ (Real(data) => data \in Summaries)
        BY <2>2, PanelFacts
      <4>1. step.cards \in Cards /\ \A n \in Managers : step.cards[n].found = cs[n].found
        BY <4>0, <3>1, HydrateOK
      <4>2. \A q \in step.requests : q \in rest \/ (IsRequest(q) /\ q.kind = "scenarios")
        BY <4>0, <3>1, HydrateOK
      <4> QED BY <4>1, <4>2
    <3>2. CASE step = [hydrate |-> hydrate, cards |-> cs, requests |-> rest]
      BY <2>2, <3>2
    <3> QED BY <2>3, <3>1, <3>2
  <2>5. SourceInv'
    BY <1>1, <2>2, <2>3, <2>4 DEF PageInv, SourceInv, Real
  <2>6. RequestsOK(step.requests, ask, generation, outlook'.conditions)
    BY <1>2, <2>4 DEF RequestsOK
  <2>7. \A q \in step.requests : q \in requests \/ q.kind \in {"scenarios", "outlook", "what-if"}
    BY <2>4 DEF rest
  <2> QED BY <1>1, <1>2, <2>3, <2>4, <2>5, <2>6, <2>7, SameScreen
<1>5. CASE ~Real(data)
  <2>1. requests' = rest /\ UNCHANGED <<cards, comparison>>
    BY <1>3, <1>5
  <2>2. SourceInv' /\ cards' \in Cards
    BY <1>1, <1>5, <2>1, PanelFacts DEF SourceInv, Real
  <2>3. \A q \in rest : q \in requests \/ q.kind \in {"scenarios", "outlook", "what-if"}
    OBVIOUS
  <2> QED BY <1>1, <1>2, <2>1, <2>2, <2>3, SameScreen
<1> QED BY <1>4, <1>5

\* A summary is shown with nothing found under it, and what is still compared is of its own
\* generation: a comparison older than that would exclude the request that is answered.
LEMMA InstallStep ==
    ASSUME PageInv, NEW r \in requests, r.kind = "summary", r.gen = generation, NEW d \in Summaries,
           d.league = r.ask.league, d.gameweek = r.ask.gameweek, Install(r, d)
    PROVE  PageInv'
<1> DEFINE rest == requests \ ({r} \cup Of(requests, {"outlook", "what-if"}))
           shown == Rendered(comparison, rest, d, generation)
           r0 == Request("outlook", {}, d, generation)
           forecast == IF d.status = "complete" /\ ask.league = Demo THEN {} ELSE {r0}
           hydrated == HydrateSteps(IF d.status = "live" THEN Managers ELSE {},
                                    [m \in Managers |-> NoCard], shown.requests \cup forecast,
                                    d, generation)
<1>1. /\ data' = d /\ outlook' = Started(d) /\ comparison' = shown.panel
      /\ UNCHANGED <<ask, view, hidden, generation, served>>
      /\ \E step \in hydrated : hydrate' = step.hydrate /\ cards' = step.cards /\ requests' = step.requests
  BY DEF Install
<1>2. PICK step \in hydrated : cards' = step.cards /\ requests' = step.requests
  BY <1>1
<1>3. IsRequest(r0) /\ r0.kind = "outlook"
  BY PanelFacts, RequestTyped DEF Kinds
<1>4. [m \in Managers |-> NoCard] \in Cards
  BY DEF Cards, Card, NoCard
<1>5. /\ step.cards \in Cards
      /\ \A m \in Managers : step.cards[m].found = [n \in Managers |-> NoCard][m].found
      /\ \A q \in step.requests :
            q \in shown.requests \cup forecast \/ (IsRequest(q) /\ q.kind = "scenarios")
  <2>1. generation \in Nat /\ ask \in Asks /\ (Real(d) => d \in Summaries)
    BY PanelFacts
  <2> HIDE DEF shown, forecast
  <2> QED BY <1>4, <2>1, HydrateOK
<1>6. \A m \in Managers : cards'[m].found = 0
  BY <1>2, <1>5 DEF NoCard
<1>7. outlook' \in Forecast /\ outlook'.modified = 0 /\ outlook'.baseline = d.source
  BY <1>1 DEF Started, NoOutlook, Forecast, Summaries
<1>8. SourceInv' /\ ResultOfTheConditions'
  BY <1>1, <1>6, <1>7 DEF SourceInv, ResultOfTheConditions
<1>9. r.ask.league = ask.league /\ r.ask.gameweek = ask.gameweek
  BY PanelFacts DEF RequestsOK
<1>10. SummaryInv'
  BY <1>1, <1>9 DEF SummaryInv
<1>11. \A q \in rest : q \in requests /\ q.kind # "what-if"
  BY DEF Of
<1>12. \A q \in requests' : q \in shown.requests \/ (IsRequest(q) /\ q.kind \in {"scenarios", "outlook"})
  <2>1. \A q \in forecast : q = r0
    OBVIOUS
  <2>2. \A q \in requests' : q \in shown.requests \/ q \in forecast \/ (IsRequest(q) /\ q.kind = "scenarios")
    BY <1>2, <1>5
  <2> HIDE DEF shown, forecast, r0
  <2> QED BY <1>3, <2>1, <2>2
<1>13. RequestsOK(rest, ask, generation, outlook'.conditions)
  BY <1>11, PanelFacts DEF RequestsOK
<1>14. KeyOK(comparison, rest)
  BY <1>11, PanelFacts DEF KeyOK
<1>15. ComparesOK(comparison, rest, ask, generation, data')
  <2>1. \A q \in requests : q.kind = "compare" => q.gen = generation
    BY PanelFacts DEF ComparesOK
  <2> QED BY <1>11, <2>1, PanelFacts DEF ComparesOK
<1>16. cards' \in Cards /\ (Real(data') => data' \in Summaries)
  BY <1>1, <1>2, <1>5
<1>17. comparison' = Rendered(comparison, rest, data', generation).panel
       /\ shown = Rendered(comparison, rest, data', generation)
  BY <1>1
<1> HIDE DEF rest
<1> QED BY <1>1, <1>7, <1>8, <1>10, <1>12, <1>13, <1>14, <1>15, <1>16, <1>17, PanelFacts, DetailStep

LEMMA SummaryArrivesStep == ASSUME PageInv, NEW r \in requests, SummaryArrives(r) PROVE PageInv'
<1>1. PICK status \in Statuses, source \in r.source..served :
         Install(r, [league |-> r.ask.league, gameweek |-> r.ask.gameweek, rule |-> r.ask.rule,
                     source |-> source, status |-> status])
  BY DEF SummaryArrives
<1> DEFINE d == [league |-> r.ask.league, gameweek |-> r.ask.gameweek, rule |-> r.ask.rule,
                 source |-> source, status |-> status]
<1>2. r.ask \in Asks /\ r.source \in Nat /\ r.source..served \subseteq Nat
  BY PanelFacts DEF RequestsOK, IsRequest
<1>3. d \in Summaries /\ d.league = r.ask.league /\ d.gameweek = r.ask.gameweek
  BY <1>2 DEF Summaries, Asks
<1>4. r.kind = "summary" /\ r.gen = generation
  BY DEF SummaryArrives
<1>5. Install(r, d)
  BY <1>1
<1> HIDE DEF d
<1> QED BY <1>3, <1>4, <1>5, InstallStep

\* A summary that fails leaves the data or makes it unreadable.
LEMMA SummaryFailsStep == ASSUME PageInv, NEW r \in requests, SummaryFails(r) PROVE PageInv'
<1>1. /\ UNCHANGED <<ask, view, generation, cards, outlook, comparison, served>>
      /\ requests' = requests \ {r} /\ data' \in {data, Unreadable}
      /\ r.kind = "summary" /\ r.gen = generation /\ page' \in {page, "error"}
  BY DEF SummaryFails, details
<1>2. Real(data') => data' = data
  BY <1>1 DEF Real
<1>3. TypesInv' /\ SummaryInv' /\ SourceInv' /\ ResultOfTheConditions'
  BY <1>1, <1>2 DEF PageInv, TypesInv, SummaryInv, SourceInv, ResultOfTheConditions
<1>4. \A q \in requests' : q \in requests
  BY <1>1
<1>5. RequestsInv' /\ KeyOK(comparison, requests)' /\ ResultOK(comparison, ask, generation)'
  BY <1>1, <1>4, PanelFacts DEF RequestsInv, RequestsOK, KeyOK, ResultOK
<1>6. \A q \in requests : q.kind = "compare" => q.gen = generation
  BY <1>1, PanelFacts DEF ComparesOK
<1>7. ComparesOK(comparison, requests, ask, generation, data)'
  BY <1>1, <1>4, <1>6, PanelFacts DEF ComparesOK
<1>8. Open' => Open /\ data' = data
  BY <1>1, <1>2 DEF Open
<1>9. (Open /\ comparison.open /\ comparison.shown = "result" => comparison.league = data.league)'
  BY <1>1, <1>8 DEF PageInv, PanelInv
<1> QED BY <1>3, <1>5, <1>7, <1>9 DEF PageInv, PanelInv

LEMMA AnswerStep == ASSUME PageInv, NEW r \in requests, Answer(r) PROVE PageInv'
<1>1. CASE SummaryArrives(r)
  BY <1>1, SummaryArrivesStep
<1>2. CASE SummaryFails(r)
  BY <1>2, SummaryFailsStep
<1>3. CASE SeasonEnds(r)
  BY <1>3, SeasonEndsStep
<1>4. CASE ScenariosArrive(r)
  BY <1>4, ScenariosArriveStep
<1>5. CASE OutlookArrives(r)
  BY <1>5, OutlookArrivesStep
<1>6. CASE WhatIfArrives(r)
  BY <1>6, WhatIfArrivesStep
<1>7. CASE ComparisonArrives(r)
  BY <1>7, ComparisonArrivesStep
<1> QED BY <1>1, <1>2, <1>3, <1>4, <1>5, <1>6, <1>7 DEF Answer

LEMMA BootStep == ASSUME PageInv, Boot PROVE PageInv'
<1>1. CASE ask.league = NoLeague
  <2>1. page' = "landing" /\ UNCHANGED <<ask, view, generation, data, cards, outlook, comparison,
                                         requests, served>>
    BY <1>1 DEF Boot, details
  <2> QED BY <2>1 DEF PageInv, TypesInv, SummaryInv, SourceInv, RequestsInv, PanelInv, Open, Real,
                      ResultOfTheConditions
<1>2. CASE ask.league # NoLeague
  BY <1>2, PanelFacts, Loaded DEF Boot
<1> QED BY <1>1, <1>2

LEMMA ReaderStep == ASSUME PageInv, Reader \/ TimerFires PROVE PageInv'
<1>1. CASE Submit
  <2>1. PICK l \in Leagues : Load(Choose(l), "overview", FALSE)
    BY <1>1 DEF Submit
  <2> QED BY <2>1, PanelFacts, AskWith, Loaded DEF Names
<1>2. CASE OpenDemo
  BY <1>2, PanelFacts, AskWith, Loaded DEF Names, OpenDemo
<1>3. CASE ChangeLeague
  BY <1>3, ChangeLeagueStep
<1>4. CASE ChooseRule
  BY <1>4, ChooseRuleStep
<1>5. CASE ChooseGameweek
  <2>1. PICK gw \in {"now", "past"} : Load([ask EXCEPT !.gameweek = gw], "overview", FALSE)
    BY <1>5 DEF ChooseGameweek
  <2>2. [ask EXCEPT !.gameweek = gw] \in Asks
    BY PanelFacts, AskWith DEF Names
  <2> QED BY <2>1, <2>2, Loaded
<1>6. CASE Refresh
  BY <1>6, PanelFacts, Loaded DEF Refresh
<1>7. CASE Retry
  <2>1. PICK gw \in {ask.gameweek, "now"} : Load([ask EXCEPT !.gameweek = gw], view, FALSE)
    BY <1>7 DEF Retry
  <2>2. gw \in {"now", "past"}
    BY PanelFacts DEF Asks
  <2>3. [ask EXCEPT !.gameweek = gw] \in Asks
    BY <2>2, PanelFacts, AskWith DEF Names
  <2> QED BY <2>1, <2>3, Loaded
<1>8. CASE SwitchView
  BY <1>8, SwitchViewStep
<1>9. CASE SwitchTab
  BY <1>9, SwitchTabStep
<1>10. CASE AskScenarios
  BY <1>10, AskScenariosStep
<1>11. CASE Recalculate
  BY <1>11, RecalculateStep
<1>12. CASE ChangePanel
  BY <1>12, ChangePanelStep
<1>13. CASE TimerFires
  BY <1>13, PanelFacts, Loaded DEF TimerFires
<1> QED BY <1>1, <1>2, <1>3, <1>4, <1>5, <1>6, <1>7, <1>8, <1>9, <1>10, <1>11, <1>12, <1>13 DEF Reader

LEMMA Start == Init => PageInv
<1> SUFFICES ASSUME Init PROVE PageInv
  OBVIOUS
<1>1. PICK link \in Links : ask = link.ask
  BY DEF Init
<1>2. link.ask \in Asks
  BY LinksAssumption DEF Asks, Names
<1>3. comparison \in Panel /\ comparison.shown = "none" /\ comparison.key = <<0, NoPair>>
  BY DEF Init, Panel, Selection, Names
<1>4. TypesInv
  BY <1>1, <1>2, <1>3 DEF Init, TypesInv, Real, Cards, Card, NoCard, NoOutlook, Forecast
<1>5. SummaryInv /\ SourceInv /\ RequestsInv /\ ResultOfTheConditions
  BY DEF Init, SummaryInv, SourceInv, RequestsInv, RequestsOK, Real, NoOutlook, ResultOfTheConditions
<1>6. PanelInv
  BY <1>3 DEF Init, PanelInv, ComparesOK, KeyOK, ResultOK
<1> QED BY <1>4, <1>5, <1>6 DEF PageInv

(***************************************************************************)
(* The theorems.                                                           *)
(***************************************************************************)
\* The invariant of the page: its types, what the requests in flight are of, whose the panel's
\* answer is, and for which screens the summary held is the one asked for.
THEOREM PageInvariant == Spec => []PageInv
<1>1. PageInv /\ [Next]_vars => PageInv'
  <2> SUFFICES ASSUME PageInv, [Next]_vars PROVE PageInv'
    OBVIOUS
  <2>1. CASE Boot
    BY <2>1, BootStep
  <2>2. CASE AnyAnswer
    BY <2>2, AnswerStep DEF AnyAnswer
  <2>3. CASE Event
    BY <2>3, ReaderStep DEF Event
  <2>4. CASE Serve
    <3>1. served' \in Nat
      BY <2>4, PanelFacts DEF Serve
    <3> QED BY <2>4, <3>1 DEF Serve, pageVars, details, PageInv, TypesInv, SummaryInv, SourceInv,
                             RequestsInv, PanelInv, Open, Real, ResultOfTheConditions
  <2>5. CASE UNCHANGED vars
    BY <2>5 DEF vars, pageVars, details, PageInv, TypesInv, SummaryInv, SourceInv,
                RequestsInv, PanelInv, Open, Real, ResultOfTheConditions
  <2> QED BY <2>1, <2>2, <2>3, <2>4, <2>5 DEF Next
<1> QED BY Start, <1>1, PTL DEF Spec

\* What is shown is what was asked for, and the scores, the scenarios of every manager, the
\* forecast and the result of the conditions are all of one update of the service, whatever the
\* order of the answers (app.js:171-186, 251-262; outlook.js:27-36).
THEOREM OneUpdateShown == Spec => []OnePicture
<1>1. PageInv => OnePicture
  <2> SUFFICES ASSUME PageInv, Open PROVE OnePicture
    BY DEF OnePicture
  <2>1. data.league = ask.league /\ data.gameweek = ask.gameweek
    BY DEF PageInv, SummaryInv, Open
  <2>2. /\ \A m \in Managers : cards[m].found \in {0, data.source}
        /\ outlook.baseline \in {0, data.source} /\ outlook.modified \in {0, data.source}
    BY DEF PageInv, SourceInv, Open
  <2> QED BY <2>1, <2>2 DEF OnePicture
<1> QED BY <1>1, PageInvariant, PTL

\* A what-if result stands beside its own conditions and a comparison beside its own pair and
\* league (outlook.js:252-274; app.js:501-540).
THEOREM NoAnswerToAnotherQuestion == Spec => []AnswersTheQuestion
<1>1. PageInv => AnswersTheQuestion
  <2> SUFFICES ASSUME PageInv PROVE AnswersTheQuestion
    OBVIOUS
  <2>1. ComparisonOfTheSelection
    BY DEF PageInv, PanelInv, KeyOK, ComparisonOfTheSelection
  <2> QED BY <2>1 DEF PageInv, AnswersTheQuestion
<1> QED BY <1>1, PageInvariant, PTL

=============================================================================
