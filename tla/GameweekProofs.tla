-------------------------- MODULE GameweekProofs ---------------------------
(***************************************************************************)
(* What is said of a Gameweek, for any legal squads, fixtures, envelope    *)
(* and number of managers: the substitutions that Scoring searches for are *)
(* the ones of the official rule, and the bounds, the safety and the       *)
(* comparisons of GameweekScores come true.  And what it is said from: for *)
(* any answers of the provider, the budget and the lineups of LineupFeed,  *)
(* and for any league and season, the snapshot of LeagueSnapshot.          *)
(*                                                                         *)
(* Substitutions.  Only the lower limits of the three lines matter.  A set *)
(* of bench slots can come if it is no larger than what the lines can give *)
(* up, and such sets are a matroid: subsets of one can come (Downward),    *)
(* and a smaller one can take a slot of a larger one (Exchange).  So the   *)
(* slots taken one after the other are the most, and the earliest.         *)
(*                                                                         *)
(* Bounds.  A settled manager's multipliers stay as they are; a pending    *)
(* one's move only points the bounds call movable; the rest is arithmetic, *)
(* player by player, and sums of fifteen.                                  *)
(***************************************************************************)
EXTENDS GameweekScores, LeagueFeeds, FiniteSetTheorems, SequenceTheorems, WellFoundedInduction, TLAPS

\* A total is the sum over the fifteen picks: the recursive function of Total exists and is this.
LEMMA TotalIs ==
    ASSUME NEW x, NEW f
    PROVE  Total(f, x) =
            0 + f[Pick(x, 1)] + f[Pick(x, 2)] + f[Pick(x, 3)] + f[Pick(x, 4)] + f[Pick(x, 5)]
              + f[Pick(x, 6)] + f[Pick(x, 7)] + f[Pick(x, 8)] + f[Pick(x, 9)] + f[Pick(x, 10)]
              + f[Pick(x, 11)] + f[Pick(x, 12)] + f[Pick(x, 13)] + f[Pick(x, 14)] + f[Pick(x, 15)]
<1> DEFINE s0 == 0
<1> DEFINE s1 == s0 + f[Pick(x, 1)]
<1> DEFINE s2 == s1 + f[Pick(x, 2)]
<1> DEFINE s3 == s2 + f[Pick(x, 3)]
<1> DEFINE s4 == s3 + f[Pick(x, 4)]
<1> DEFINE s5 == s4 + f[Pick(x, 5)]
<1> DEFINE s6 == s5 + f[Pick(x, 6)]
<1> DEFINE s7 == s6 + f[Pick(x, 7)]
<1> DEFINE s8 == s7 + f[Pick(x, 8)]
<1> DEFINE s9 == s8 + f[Pick(x, 9)]
<1> DEFINE s10 == s9 + f[Pick(x, 10)]
<1> DEFINE s11 == s10 + f[Pick(x, 11)]
<1> DEFINE s12 == s11 + f[Pick(x, 12)]
<1> DEFINE s13 == s12 + f[Pick(x, 13)]
<1> DEFINE s14 == s13 + f[Pick(x, 14)]
<1> DEFINE s15 == s14 + f[Pick(x, 15)]
<1> DEFINE Sums(F) == F = [i \in 0..15 |-> IF i = 0 THEN 0 ELSE F[i - 1] + f[Pick(x, i)]]
<1> DEFINE W == [i \in 0..15 |->
           IF i = 0 THEN 0 ELSE IF i = 1 THEN s1 ELSE IF i = 2 THEN s2 ELSE IF i = 3 THEN s3
           ELSE IF i = 4 THEN s4 ELSE IF i = 5 THEN s5 ELSE IF i = 6 THEN s6 ELSE IF i = 7 THEN s7
           ELSE IF i = 8 THEN s8 ELSE IF i = 9 THEN s9 ELSE IF i = 10 THEN s10 ELSE IF i = 11 THEN s11
           ELSE IF i = 12 THEN s12 ELSE IF i = 13 THEN s13 ELSE IF i = 14 THEN s14 ELSE s15]
<1>1. Sums(W)
  BY Z3
<1> DEFINE F == CHOOSE F : Sums(F)
<1>2. Sums(F)
  BY <1>1
<1> HIDE DEF F
<1>3. Total(f, x) = F[15]
  BY DEF Total, F
<1>4. F[0] = 0 /\ \A i \in 1..15 : F[i] = F[i - 1] + f[Pick(x, i)]
  BY <1>2
<1> HIDE DEF Sums, W
<1>5. /\ F[1] = F[0] + f[Pick(x, 1)] /\ F[2] = F[1] + f[Pick(x, 2)] /\ F[3] = F[2] + f[Pick(x, 3)]
      /\ F[4] = F[3] + f[Pick(x, 4)] /\ F[5] = F[4] + f[Pick(x, 5)] /\ F[6] = F[5] + f[Pick(x, 6)]
      /\ F[7] = F[6] + f[Pick(x, 7)] /\ F[8] = F[7] + f[Pick(x, 8)] /\ F[9] = F[8] + f[Pick(x, 9)]
      /\ F[10] = F[9] + f[Pick(x, 10)] /\ F[11] = F[10] + f[Pick(x, 11)] /\ F[12] = F[11] + f[Pick(x, 12)]
      /\ F[13] = F[12] + f[Pick(x, 13)] /\ F[14] = F[13] + f[Pick(x, 14)] /\ F[15] = F[14] + f[Pick(x, 15)]
  BY <1>4
<1> QED
  BY <1>3, <1>4, <1>5

-----------------------------------------------------------------------------
StateOK(g) ==
    /\ g.seen \in [Players -> Kinds] /\ g.points \in [Players -> Int]
    /\ \A p \in Players : g.seen[p] = "unseen" => g.points[p] = 0

\* What may have become of the state g.
Later(g, h) ==
    /\ g.finished \subseteq h.finished
    /\ \A p \in Players :
        /\ Unfinished(g, p) \/ (h.seen[p] = g.seen[p] /\ h.points[p] = g.points[p])
        /\ g.seen[p] = "played" => h.seen[p] = "played"
        /\ Appeared(g, p) => Appeared(h, p)
        /\ h.points[p] - g.points[p] \in Low..High

\* The picks of an entry are different players, its starters, captain and vice-captain among them.
LEMMA SquadFacts ==
    ASSUME NEW x, LegalEntry(x)
    PROVE  /\ \A i \in 1..15 : Pick(x, i) \in Squad(x)
           /\ Squad(x) \subseteq Players /\ Starters(x) \subseteq Squad(x)
           /\ \A i, j \in 1..15 : Pick(x, i) = Pick(x, j) => i = j
           /\ x.captain \in Starters(x) /\ x.vice \in Starters(x) /\ x.captain # x.vice
<1>1. x.picks \in [1..15 -> Players] /\ IsInjective(x.picks)
  BY DEF LegalEntry
<1>2. \A i, j \in 1..15 : x.picks[i] = x.picks[j] => i = j
  BY <1>1 DEF IsInjective
<1> QED
  BY <1>1, <1>2 DEF LegalEntry, Squad, Starters, Pick

\* Totals of integers are integers,
LEMMA TotalInt ==
    ASSUME NEW x, LegalEntry(x), NEW f, \A p \in Squad(x) : f[p] \in Int
    PROVE  Total(f, x) \in Int
BY TotalIs, SquadFacts

\* and as ordered as what they sum,
LEMMA TotalOrder ==
    ASSUME NEW x, LegalEntry(x), NEW f, NEW h,
           \A p \in Squad(x) : f[p] \in Int /\ h[p] \in Int /\ f[p] <= h[p]
    PROVE  Total(f, x) <= Total(h, x)
<1> DEFINE F(i) == f[Pick(x, i)]
           H(i) == h[Pick(x, i)]
<1>1. \A i \in 1..15 : F(i) \in Int /\ H(i) \in Int /\ F(i) <= H(i)
  BY SquadFacts
<1> DEFINE F5 == 0 + F(1) + F(2) + F(3) + F(4) + F(5)
           H5 == 0 + H(1) + H(2) + H(3) + H(4) + H(5)
           F10 == F5 + F(6) + F(7) + F(8) + F(9) + F(10)
           H10 == H5 + H(6) + H(7) + H(8) + H(9) + H(10)
           F15 == F10 + F(11) + F(12) + F(13) + F(14) + F(15)
           H15 == H10 + H(11) + H(12) + H(13) + H(14) + H(15)
<1>2. Total(f, x) = F15 /\ Total(h, x) = H15
  BY TotalIs
<1> HIDE DEF F, H
<1>6. /\ F(1) \in Int /\ F(2) \in Int /\ F(3) \in Int /\ F(4) \in Int /\ F(5) \in Int
       /\ F(6) \in Int /\ F(7) \in Int /\ F(8) \in Int /\ F(9) \in Int /\ F(10) \in Int
       /\ F(11) \in Int /\ F(12) \in Int /\ F(13) \in Int /\ F(14) \in Int /\ F(15) \in Int
       /\ H(1) \in Int /\ H(2) \in Int /\ H(3) \in Int /\ H(4) \in Int /\ H(5) \in Int
       /\ H(6) \in Int /\ H(7) \in Int /\ H(8) \in Int /\ H(9) \in Int /\ H(10) \in Int
       /\ H(11) \in Int /\ H(12) \in Int /\ H(13) \in Int /\ H(14) \in Int /\ H(15) \in Int
       /\ F(1) <= H(1) /\ F(2) <= H(2) /\ F(3) <= H(3) /\ F(4) <= H(4) /\ F(5) <= H(5)
       /\ F(6) <= H(6) /\ F(7) <= H(7) /\ F(8) <= H(8) /\ F(9) <= H(9) /\ F(10) <= H(10)
       /\ F(11) <= H(11) /\ F(12) <= H(12) /\ F(13) <= H(13) /\ F(14) <= H(14) /\ F(15) <= H(15)
  BY <1>1
<1>3. F5 \in Int /\ H5 \in Int /\ F5 <= H5
  BY <1>6
<1> HIDE DEF F5, H5
<1>4. F10 \in Int /\ H10 \in Int /\ F10 <= H10
  BY <1>6, <1>3
<1> HIDE DEF F10, H10
<1>5. F15 \in Int /\ H15 \in Int /\ F15 <= H15
  BY <1>6, <1>4
<1> HIDE DEF F15, H15
<1> QED
  BY <1>2, <1>5

\* and add up.
LEMMA TotalSum ==
    ASSUME NEW x, LegalEntry(x), NEW f, NEW h, NEW k,
           \A p \in Squad(x) : f[p] \in Int /\ h[p] \in Int /\ k[p] = f[p] + h[p]
    PROVE  Total(k, x) = Total(f, x) + Total(h, x)
<1> DEFINE F(i) == f[Pick(x, i)]
           H(i) == h[Pick(x, i)]
           K(i) == k[Pick(x, i)]
<1>1. \A i \in 1..15 : F(i) \in Int /\ H(i) \in Int /\ K(i) = F(i) + H(i)
  BY SquadFacts
<1> DEFINE F5 == 0 + F(1) + F(2) + F(3) + F(4) + F(5)
           H5 == 0 + H(1) + H(2) + H(3) + H(4) + H(5)
           K5 == 0 + K(1) + K(2) + K(3) + K(4) + K(5)
           F10 == F5 + F(6) + F(7) + F(8) + F(9) + F(10)
           H10 == H5 + H(6) + H(7) + H(8) + H(9) + H(10)
           K10 == K5 + K(6) + K(7) + K(8) + K(9) + K(10)
           F15 == F10 + F(11) + F(12) + F(13) + F(14) + F(15)
           H15 == H10 + H(11) + H(12) + H(13) + H(14) + H(15)
           K15 == K10 + K(11) + K(12) + K(13) + K(14) + K(15)
<1>2. Total(f, x) = F15 /\ Total(h, x) = H15 /\ Total(k, x) = K15
  BY TotalIs
<1> HIDE DEF F, H, K
<1>6. /\ F(1) \in Int /\ F(2) \in Int /\ F(3) \in Int /\ F(4) \in Int /\ F(5) \in Int
       /\ F(6) \in Int /\ F(7) \in Int /\ F(8) \in Int /\ F(9) \in Int /\ F(10) \in Int
       /\ F(11) \in Int /\ F(12) \in Int /\ F(13) \in Int /\ F(14) \in Int /\ F(15) \in Int
       /\ H(1) \in Int /\ H(2) \in Int /\ H(3) \in Int /\ H(4) \in Int /\ H(5) \in Int
       /\ H(6) \in Int /\ H(7) \in Int /\ H(8) \in Int /\ H(9) \in Int /\ H(10) \in Int
       /\ H(11) \in Int /\ H(12) \in Int /\ H(13) \in Int /\ H(14) \in Int /\ H(15) \in Int
       /\ K(1) = F(1) + H(1) /\ K(2) = F(2) + H(2) /\ K(3) = F(3) + H(3)
       /\ K(4) = F(4) + H(4) /\ K(5) = F(5) + H(5) /\ K(6) = F(6) + H(6)
       /\ K(7) = F(7) + H(7) /\ K(8) = F(8) + H(8) /\ K(9) = F(9) + H(9)
       /\ K(10) = F(10) + H(10) /\ K(11) = F(11) + H(11) /\ K(12) = F(12) + H(12)
       /\ K(13) = F(13) + H(13) /\ K(14) = F(14) + H(14) /\ K(15) = F(15) + H(15)
  BY <1>1
<1>3. F5 \in Int /\ H5 \in Int /\ K5 = F5 + H5
  BY <1>6
<1> HIDE DEF F5, H5, K5
<1>4. F10 \in Int /\ H10 \in Int /\ K10 = F10 + H10
  BY <1>6, <1>3
<1> HIDE DEF F10, H10, K10
<1>5. F15 \in Int /\ H15 \in Int /\ K15 = F15 + H15
  BY <1>6, <1>4
<1> HIDE DEF F15, H15, K15
<1> QED
  BY <1>2, <1>5

\* Matches that are to come were to come before.
LEMMA UnfinishedBefore ==
    ASSUME NEW g, NEW h, Later(g, h), NEW p, Unfinished(h, p)
    PROVE  Unfinished(g, p)
BY DEF Later, Unfinished, Complete

\* Without a pending starter no starter becomes or stops being absent.
LEMMA AbsenceKept ==
    ASSUME NEW x, LegalEntry(x), NEW g, NEW h, Later(g, h), ~Pending(g, x), NEW p \in Starters(x)
    PROVE  ConfirmedAbsent(h, p) <=> ConfirmedAbsent(g, p)
<1>1. p \in Players
  BY SquadFacts
<1>2. CASE Appeared(g, p)
  BY <1>1, <1>2 DEF Later, ConfirmedAbsent
<1>3. CASE ~Appeared(g, p)
  <2>1. ~Unfinished(g, p)
    BY <1>3 DEF Pending
  <2>2. ~Unfinished(h, p)
    BY <2>1, UnfinishedBefore
  <2> QED
    BY <1>1, <2>1, <2>2 DEF Later, ConfirmedAbsent, Appeared
<1> QED
  BY <1>2, <1>3

\* Whoever has the armband keeps it if neither captain nor vice-captain can still change it.
LEMMA CaptaincyKept ==
    ASSUME NEW x, LegalEntry(x), NEW g, NEW h, StateOK(g), StateOK(h), Later(g, h),
           ~Pending(g, x), ~ArmbandOpen(g, x)
    PROVE  Doubled(h, x) = Doubled(g, x)
<1>1. x.captain \in Players /\ x.vice \in Players /\ x.captain \in Starters(x) /\ x.vice \in Starters(x)
  BY SquadFacts
<1>2. CASE g.seen[x.captain] = "played"
  BY <1>1, <1>2 DEF Doubled, Later
<1>3. CASE g.seen[x.captain] # "played"
  <2>1. ~Unfinished(g, x.captain)
    BY <1>1, <1>3 DEF Pending
  <2>2. ~Unfinished(h, x.captain) /\ h.seen[x.captain] = g.seen[x.captain]
    BY <1>1, <2>1, UnfinishedBefore DEF Later
  <2>3. h.seen[x.vice] = "played" <=> g.seen[x.vice] = "played"
    <3>1. g.seen[x.vice] \in Kinds
      BY <1>1 DEF StateOK
    <3>2. CASE g.seen[x.vice] = "played"
      BY <1>1, <3>2 DEF Later
    <3>3. CASE g.seen[x.vice] = "carded"
      BY <1>1, <3>3 DEF Later, ArmbandOpen
    <3>4. CASE g.seen[x.vice] = "unseen"
      BY <1>1, <3>4 DEF Later, Pending, Appeared
    <3> QED
      BY <3>1, <3>2, <3>3, <3>4 DEF Kinds
  <2> QED
    BY <1>3, <2>1, <2>2, <2>3 DEF Doubled, TakesOver
<1> QED
  BY <1>2, <1>3

\* There are fifteen players in a squad and eleven starters.
LEMMA SquadFinite ==
    ASSUME NEW x, LegalEntry(x)
    PROVE  /\ IsFiniteSet(Squad(x)) /\ Cardinality(Squad(x)) = 15
           /\ IsFiniteSet(Starters(x)) /\ Cardinality(Starters(x)) = 11
<1>1. x.picks \in [1..15 -> Players] /\ \A i, j \in 1..15 : x.picks[i] = x.picks[j] => i = j
  BY DEF LegalEntry, IsInjective
<1>2. ASSUME NEW n \in 1..15
      PROVE  LET S == {Pick(x, i) : i \in 1..n} IN IsFiniteSet(S) /\ Cardinality(S) = n
  <2> DEFINE S == {Pick(x, i) : i \in 1..n}
             f == [i \in 1..n |-> x.picks[i]]
  <2>1. f \in Bijection(1..n, S)
    <3>0. 1..n \subseteq 1..15
      OBVIOUS
    <3>1. f \in [1..n -> S] /\ \A i, j \in 1..n : f[i] = f[j] => i = j
      BY <1>1, <3>0, Zenon DEF Pick
    <3>2. \A p \in S : \E i \in 1..n : f[i] = p
      BY DEF Pick
    <3> QED
      BY <3>1, <3>2 DEF Bijection, Injection, Surjection, IsInjective
  <2>0. n \in Int /\ n >= 1
    OBVIOUS
  <2>2. IsFiniteSet(1..n) /\ Cardinality(1..n) = n
    BY <2>0, FS_Interval
  <2> QED
    BY <2>1, <2>2, FS_Bijection DEF ExistsBijection
<1> QED
  BY <1>2 DEF Squad, Starters

\* Exactly one starter is a goalkeeper,
LEMMA FirstGoalkeeper ==
    ASSUME NEW x, LegalEntry(x)
    PROVE  \E p \in Starters(x) : ~Outfield(p) /\ \A q \in Starters(x) : ~Outfield(q) => q = p
<1> DEFINE S == {p \in Starters(x) : Position[p] = "GK"}
<1>1. IsFiniteSet(S) /\ Cardinality(S) = 1
  BY SquadFinite, FS_Subset DEF LegalEntry, ValidFormation, Count
<1>2. PICK p : S = {p}
  BY <1>1, FS_Singleton
<1> QED
  BY <1>2 DEF Outfield

\* and one of the bench.
LEMMA SecondGoalkeeper ==
    ASSUME NEW x, LegalEntry(x)
    PROVE  \E p \in Squad(x) \ Starters(x) :
             ~Outfield(p) /\ \A q \in Squad(x) \ Starters(x) : ~Outfield(q) => q = p
<1> DEFINE S == {p \in Squad(x) : Position[p] = "GK"}
           T == {p \in Starters(x) : Position[p] = "GK"}
<1>1. IsFiniteSet(S) /\ Cardinality(S) = 2 /\ Cardinality(T) = 1
  BY SquadFinite, FS_Subset DEF LegalEntry, ValidFormation, Count
<1>2. T = S \cap T
  BY SquadFacts
<1>3. IsFiniteSet(S \ T) /\ Cardinality(S \ T) = 1
  BY <1>1, <1>2, FS_Difference
<1>4. PICK p : S \ T = {p}
  <2> HIDE DEF S, T
  <2> QED
    BY <1>3, FS_Singleton
<1> QED
  BY <1>4 DEF Outfield

-----------------------------------------------------------------------------
(* Substitutions                                                           *)

Lines == {"DEF", "MID", "FWD"}
Fewest(k) == IF k = "DEF" THEN 3 ELSE IF k = "MID" THEN 2 ELSE 1
\* How many starters a line can spare, how many of a line come on.
Spare(x, k) == Count(Starters(x), k) - Fewest(k)
Entering(x, in, k) == Cardinality({i \in in : Position[Pick(x, i)] = k})

\* An available slot is one of the bench, of an outfield player who does not start.
LEMMA SlotFacts ==
    ASSUME NEW x, LegalEntry(x), NEW g, NEW i \in Available(g, x)
    PROVE  /\ i \in 12..15 /\ Pick(x, i) \in Squad(x) \ Starters(x)
           /\ Position[Pick(x, i)] \in Lines /\ Outfield(Pick(x, i))
<1>1. i \in 12..15 /\ Outfield(Pick(x, i))
  BY DEF Available, BenchSlots
<1>2. i \in 1..15 /\ i \notin 1..11
  BY <1>1
<1>3. Pick(x, i) \in Squad(x) /\ Pick(x, i) \in Players
  BY <1>2, SquadFacts
<1>4. Pick(x, i) \notin Starters(x)
  <2>1. \A j \in 1..11 : j \in 1..15
    OBVIOUS
  <2> QED
    BY <1>2, <2>1, SquadFacts DEF Starters
<1> QED
  BY <1>1, <1>3, <1>4, PlayerAssumption DEF Lines, Outfield

\* A missing player starts in one of the three lines.
LEMMA MissingFacts ==
    ASSUME NEW x, LegalEntry(x), NEW g, NEW p \in Missing(g, x)
    PROVE  p \in Starters(x) /\ p \in Players /\ Position[p] \in Lines
BY SquadFacts, PlayerAssumption DEF Missing, Lines, Outfield

\* Both are few.
LEMMA FiniteSides ==
    ASSUME NEW x, LegalEntry(x), NEW g
    PROVE  IsFiniteSet(Available(g, x)) /\ IsFiniteSet(Missing(g, x))
<1>1. IsFiniteSet(12..15)
  BY FS_Interval, 12 \in Int, 15 \in Int, Zenon
<1> QED
  BY <1>1, SquadFinite, FS_Subset DEF Available, BenchSlots, Missing

\* How many a line has of starters and of the squad.
LEMMA SquadLines ==
    ASSUME NEW x, LegalEntry(x), NEW k \in Lines
    PROVE  /\ Spare(x, k) \in Nat /\ Count(Starters(x), k) \in Nat
           /\ Count(Squad(x), k) = IF k = "FWD" THEN 3 ELSE 5
<1>1. Count(Starters(x), k) \in Nat
  BY SquadFinite, FS_Subset, FS_CardinalityType DEF Count
<1> QED
  BY <1>1 DEF Lines, Spare, Fewest, LegalEntry, ValidFormation

\* The players of one line after the substitutions.
LEMMA CountEleven ==
    ASSUME NEW x, LegalEntry(x), NEW g, NEW in \in SUBSET Available(g, x), NEW out \in SUBSET Missing(g, x),
           NEW k \in Lines
    PROVE  /\ Count(Eleven(x, in, out), k) = Count(Starters(x), k) - Count(out, k) + Entering(x, in, k)
           /\ Count(out, k) \in Nat /\ Entering(x, in, k) \in Nat
           /\ Count(Eleven(x, in, out), k) <= Count(Squad(x), k)
<1> DEFINE At(S) == {p \in S : Position[p] = k}
           slots == {i \in in : Position[Pick(x, i)] = k}
           new == {Pick(x, i) : i \in slots}
           f == [i \in slots |-> Pick(x, i)]
<1>1. IsFiniteSet(At(Starters(x))) /\ IsFiniteSet(At(out)) /\ IsFiniteSet(slots) /\ IsFiniteSet(At(Squad(x)))
  BY SquadFinite, FiniteSides, FS_Subset
<1>2. \A i \in in : i \in 1..15 /\ Pick(x, i) \in Squad(x) \ Starters(x)
  <2>1. \A i \in in : i \in 12..15 /\ Pick(x, i) \in Squad(x) \ Starters(x)
    BY SlotFacts
  <2> QED
    BY <2>1
<1>3. f \in Bijection(slots, new)
  <2>1. f \in [slots -> new] /\ \A i, j \in slots : f[i] = f[j] => i = j
    BY <1>2, SquadFacts
  <2>2. \A p \in new : \E i \in slots : f[i] = p
    OBVIOUS
  <2> QED
    BY <2>1, <2>2 DEF Bijection, Injection, Surjection, IsInjective
<1>4. IsFiniteSet(new) /\ Cardinality(new) = Cardinality(slots)
  BY <1>1, <1>3, FS_Bijection DEF ExistsBijection
<1>5. At(Eleven(x, in, out)) = (At(Starters(x)) \ At(out)) \cup new
  BY DEF Eleven
<1>6. (At(Starters(x)) \ At(out)) \cap new = {}
  BY <1>2
<1>7. At(Starters(x)) \cap At(out) = At(out)
  BY DEF Missing
<1>8. At(Eleven(x, in, out)) \subseteq At(Squad(x))
  BY <1>2, SquadFacts DEF Eleven
<1> DEFINE S == At(Starters(x))
           T == At(out)
           E == At(Eleven(x, in, out))
           Q == At(Squad(x))
<1>9. /\ Count(Eleven(x, in, out), k) = Cardinality(E) /\ Count(Starters(x), k) = Cardinality(S)
      /\ Count(out, k) = Cardinality(T) /\ Entering(x, in, k) = Cardinality(slots)
      /\ Count(Squad(x), k) = Cardinality(Q)
  BY DEF Count, Entering
<1>10. /\ IsFiniteSet(S) /\ IsFiniteSet(T) /\ IsFiniteSet(slots) /\ IsFiniteSet(Q) /\ E \subseteq Q
       /\ E = (S \ T) \cup new /\ (S \ T) \cap new = {} /\ S \cap T = T
  BY <1>1, <1>5, <1>6, <1>7, <1>8
<1> HIDE DEF S, T, E, Q, slots, new, f
<1>11. IsFiniteSet(S \ T) /\ Cardinality(S \ T) = Cardinality(S) - Cardinality(T)
  BY <1>10, FS_Difference
<1>12. Cardinality(E) = Cardinality(S \ T) + Cardinality(new) - Cardinality((S \ T) \cap new)
  BY <1>4, <1>10, <1>11, FS_Union
<1>13. Cardinality((S \ T) \cap new) = 0
  BY <1>10, FS_EmptySet
<1>14. Cardinality(E) <= Cardinality(Q)
  BY <1>10, FS_Subset
<1>15. Cardinality(S) \in Nat /\ Cardinality(T) \in Nat /\ Cardinality(slots) \in Nat
  BY <1>10, FS_CardinalityType
<1> QED
  BY <1>4, <1>9, <1>11, <1>12, <1>13, <1>14, <1>15

\* The goalkeeper is no part of it.
LEMMA OneGoalkeeper ==
    ASSUME NEW x, LegalEntry(x), NEW g, NEW in \in SUBSET Available(g, x), NEW out \in SUBSET Missing(g, x)
    PROVE  Count(Eleven(x, in, out), "GK") = 1
<1>1. \A i \in in : Position[Pick(x, i)] # "GK"
  BY SlotFacts DEF Lines
<1>2. \A p \in out : Position[p] # "GK"
  BY MissingFacts DEF Lines
<1>3. {p \in Eleven(x, in, out) : Position[p] = "GK"} = {p \in Starters(x) : Position[p] = "GK"}
  BY <1>1, <1>2 DEF Eleven
<1> QED
  BY <1>3 DEF Count, LegalEntry, ValidFormation

\* Only the lower limits of the lines matter: a squad has no more than the upper ones.
LEMMA FormationIff ==
    ASSUME NEW x, LegalEntry(x), NEW g, NEW in \in SUBSET Available(g, x), NEW out \in SUBSET Missing(g, x)
    PROVE  ValidFormation(Eleven(x, in, out))
           <=> \A k \in Lines : Count(out, k) <= Spare(x, k) + Entering(x, in, k)
<1> DEFINE E == Eleven(x, in, out)
<1>1. ASSUME NEW k \in Lines
      PROVE  /\ Count(E, k) \in Int /\ Count(E, k) <= (IF k = "FWD" THEN 3 ELSE 5)
             /\ Count(E, k) >= Fewest(k) <=> Count(out, k) <= Spare(x, k) + Entering(x, in, k)
  <2>1. Fewest(k) \in Nat
    BY DEF Fewest
  <2> QED
    BY <2>1, CountEleven, SquadLines DEF Spare
<1>2. ValidFormation(E) <=> \A k \in Lines : Count(E, k) >= Fewest(k)
  <2>1. Count(E, "GK") = 1
    BY OneGoalkeeper
  <2>2. "DEF" \in Lines /\ "MID" \in Lines /\ "FWD" \in Lines
    BY DEF Lines
  <2> HIDE DEF E
  <2>3. /\ Count(E, "DEF") \in Int /\ Count(E, "DEF") <= 5
        /\ Count(E, "MID") \in Int /\ Count(E, "MID") <= 5
        /\ Count(E, "FWD") \in Int /\ Count(E, "FWD") <= 3
    BY <1>1, <2>2
  <2>4. Fewest("DEF") = 3 /\ Fewest("MID") = 2 /\ Fewest("FWD") = 1
    BY DEF Fewest
  <2> QED
    BY <2>1, <2>3, <2>4 DEF ValidFormation, Lines
<1> QED
  BY <1>1, <1>2

\* A finite set in three parts that do not meet.
LEMMA ThreeParts ==
    ASSUME NEW S, IsFiniteSet(S), NEW A, NEW B, NEW C, S = A \cup B \cup C,
           A \cap B = {}, A \cap C = {}, B \cap C = {}
    PROVE  /\ Cardinality(S) = Cardinality(A) + Cardinality(B) + Cardinality(C)
           /\ Cardinality(A) \in Nat /\ Cardinality(B) \in Nat /\ Cardinality(C) \in Nat
<1>1. IsFiniteSet(A) /\ IsFiniteSet(B) /\ IsFiniteSet(C)
  BY FS_Subset
<1>2. Cardinality({}) = 0
  BY FS_EmptySet
<1>3. Cardinality(A) \in Nat /\ Cardinality(B) \in Nat /\ Cardinality(C) \in Nat
  BY <1>1, FS_CardinalityType
<1>4. IsFiniteSet(A \cup B) /\ Cardinality(A \cup B) = Cardinality(A) + Cardinality(B) - Cardinality({})
  BY <1>1, FS_Union
<1>5. Cardinality(A \cup B) = Cardinality(A) + Cardinality(B)
  BY <1>2, <1>3, <1>4
<1>6. (A \cup B) \cap C = {}
  OBVIOUS
<1>7. Cardinality(S) = Cardinality(A \cup B) + Cardinality(C) - Cardinality({})
  BY <1>1, <1>4, <1>6, FS_Union
<1> QED
  BY <1>2, <1>3, <1>5, <1>7

\* Who comes on, counted line by line,
LEMMA EnteringByLine ==
    ASSUME NEW x, LegalEntry(x), NEW g, NEW in \in SUBSET Available(g, x)
    PROVE  /\ Cardinality(in) = Entering(x, in, "DEF") + Entering(x, in, "MID") + Entering(x, in, "FWD")
           /\ \A k \in Lines : Entering(x, in, k) \in Nat
<1> DEFINE At(k) == {i \in in : Position[Pick(x, i)] = k}
<1>1. IsFiniteSet(in)
  BY FiniteSides, FS_Subset
<1>2. \A i \in in : Position[Pick(x, i)] \in Lines
  BY SlotFacts
<1>3. in = At("DEF") \cup At("MID") \cup At("FWD")
  BY <1>2 DEF Lines
<1>4. At("DEF") \cap At("MID") = {} /\ At("DEF") \cap At("FWD") = {} /\ At("MID") \cap At("FWD") = {}
  OBVIOUS
<1>5. \A k \in Lines : Entering(x, in, k) = Cardinality(At(k))
  BY DEF Entering
<1> HIDE DEF At
<1> QED
  BY <1>1, <1>3, <1>4, <1>5, ThreeParts DEF Lines

\* and who leaves, of each line no more than are missing.
LEMMA LeavingByLine ==
    ASSUME NEW x, LegalEntry(x), NEW g, NEW out \in SUBSET Missing(g, x)
    PROVE  /\ Cardinality(out) = Count(out, "DEF") + Count(out, "MID") + Count(out, "FWD")
           /\ \A k \in Lines : Count(out, k) \in Nat /\ Count(out, k) <= Count(Missing(g, x), k)
           /\ \A k \in Lines : Count(Missing(g, x), k) \in Nat
<1> DEFINE At(S, k) == {p \in S : Position[p] = k}
<1>1. IsFiniteSet(out) /\ IsFiniteSet(Missing(g, x))
  BY FiniteSides, FS_Subset
<1>2. \A p \in out : Position[p] \in Lines
  BY MissingFacts
<1>3. out = At(out, "DEF") \cup At(out, "MID") \cup At(out, "FWD")
  BY <1>2 DEF Lines
<1>4. /\ At(out, "DEF") \cap At(out, "MID") = {} /\ At(out, "DEF") \cap At(out, "FWD") = {}
      /\ At(out, "MID") \cap At(out, "FWD") = {}
  OBVIOUS
<1>5. ASSUME NEW k \in Lines
      PROVE  /\ Count(out, k) = Cardinality(At(out, k)) /\ Count(Missing(g, x), k) = Cardinality(At(Missing(g, x), k))
             /\ IsFiniteSet(At(Missing(g, x), k)) /\ At(out, k) \subseteq At(Missing(g, x), k)
  BY <1>1, FS_Subset DEF Count
<1> HIDE DEF At
<1>6. \A k \in Lines : Count(out, k) <= Count(Missing(g, x), k) /\ Count(Missing(g, x), k) \in Nat
  BY <1>5, FS_Subset, FS_CardinalityType
<1> QED
  BY <1>1, <1>3, <1>4, <1>5, <1>6, ThreeParts DEF Lines

\* How many of a line can leave at most when the slots in come on, and whether
\* that makes room for all of them.
Smaller(a, b) == IF a <= b THEN a ELSE b
Room(g, x, in, k) == Smaller(Count(Missing(g, x), k), Spare(x, k) + Entering(x, in, k))
CanCome(g, x, in) ==
    Cardinality(in) <= Room(g, x, in, "DEF") + Room(g, x, in, "MID") + Room(g, x, in, "FWD")

\* The figures of a line are natural numbers.
LEMMA RoomFacts ==
    ASSUME NEW x, LegalEntry(x), NEW g, NEW in \in SUBSET Available(g, x), NEW k \in Lines
    PROVE  /\ Count(Missing(g, x), k) \in Nat /\ Spare(x, k) \in Nat /\ Entering(x, in, k) \in Nat
           /\ Room(g, x, in, k) \in Nat
<1>1. Count(Missing(g, x), k) \in Nat
  BY LeavingByLine
<1>2. Spare(x, k) \in Nat /\ Entering(x, in, k) \in Nat
  BY SquadLines, EnteringByLine
<1> QED
  BY <1>1, <1>2 DEF Room, Smaller

\* Whatever a plan brings on can come.
LEMMA PlanCan ==
    ASSUME NEW x, LegalEntry(x), NEW g, NEW in \in SUBSET Available(g, x), NEW out \in SUBSET Missing(g, x),
           Cardinality(in) = Cardinality(out), ValidFormation(Eleven(x, in, out))
    PROVE  CanCome(g, x, in)
<1>1. ASSUME NEW k \in Lines
      PROVE  Count(out, k) \in Nat /\ Room(g, x, in, k) \in Nat /\ Count(out, k) <= Room(g, x, in, k)
  <2>1. Count(out, k) <= Spare(x, k) + Entering(x, in, k)
    BY FormationIff
  <2> QED
    BY <2>1, LeavingByLine, RoomFacts DEF Room, Smaller
<1> QED
  BY <1>1, LeavingByLine DEF CanCome, Lines

\* More slots bring on more of a line.
LEMMA EnteringGrows ==
    ASSUME NEW x, LegalEntry(x), NEW g, NEW some \in SUBSET Available(g, x), NEW in \in SUBSET some,
           NEW k \in Lines
    PROVE  Entering(x, in, k) <= Entering(x, some, k)
<1> DEFINE At(S) == {i \in S : Position[Pick(x, i)] = k}
<1>1. IsFiniteSet(At(some)) /\ At(in) \subseteq At(some)
  BY FiniteSides, FS_Subset
<1> HIDE DEF At
<1>2. Cardinality(At(in)) <= Cardinality(At(some))
  BY <1>1, FS_Subset
<1> QED
  BY <1>2 DEF Entering, At

\* Fewer can come if more can.
LEMMA Downward ==
    ASSUME NEW x, LegalEntry(x), NEW g, NEW some \in SUBSET Available(g, x), NEW in \in SUBSET some,
           CanCome(g, x, some)
    PROVE  CanCome(g, x, in)
<1>1. ASSUME NEW k \in Lines
      PROVE  /\ Room(g, x, some, k) \in Nat /\ Room(g, x, in, k) \in Nat
             /\ Entering(x, some, k) \in Nat /\ Entering(x, in, k) \in Nat
             /\ Room(g, x, some, k) - Entering(x, some, k) <= Room(g, x, in, k) - Entering(x, in, k)
  <2> DEFINE M == Count(Missing(g, x), k)
             n == Entering(x, some, k)
             i == Entering(x, in, k)
             s == Spare(x, k)
  <2>1. M \in Nat /\ s \in Nat /\ n \in Nat /\ i \in Nat /\ Room(g, x, some, k) \in Nat /\ Room(g, x, in, k) \in Nat
    BY RoomFacts
  <2>2. i <= n
    BY EnteringGrows
  <2>3. Room(g, x, some, k) = Smaller(M, s + n) /\ Room(g, x, in, k) = Smaller(M, s + i)
    BY DEF Room
  <2> HIDE DEF M, n, i, s
  <2>4. Smaller(M, s + n) - n <= Smaller(M, s + i) - i
    BY <2>1, <2>2 DEF Smaller
  <2> QED
    BY <2>1, <2>3, <2>4 DEF n, i
<1>2. Cardinality(some) = Entering(x, some, "DEF") + Entering(x, some, "MID") + Entering(x, some, "FWD")
  BY EnteringByLine
<1>3. in \in SUBSET Available(g, x)
  OBVIOUS
<1>4. Cardinality(in) = Entering(x, in, "DEF") + Entering(x, in, "MID") + Entering(x, in, "FWD")
  BY <1>3, EnteringByLine
<1>5. "DEF" \in Lines /\ "MID" \in Lines /\ "FWD" \in Lines
  BY DEF Lines
<1>6. /\ Room(g, x, some, "DEF") - Entering(x, some, "DEF") <= Room(g, x, in, "DEF") - Entering(x, in, "DEF")
      /\ Room(g, x, some, "MID") - Entering(x, some, "MID") <= Room(g, x, in, "MID") - Entering(x, in, "MID")
      /\ Room(g, x, some, "FWD") - Entering(x, some, "FWD") <= Room(g, x, in, "FWD") - Entering(x, in, "FWD")
      /\ \A k \in {"DEF", "MID", "FWD"} :
            /\ Room(g, x, some, k) \in Nat /\ Room(g, x, in, k) \in Nat
            /\ Entering(x, some, k) \in Nat /\ Entering(x, in, k) \in Nat
  BY <1>1, <1>5
<1> QED
  BY <1>2, <1>4, <1>6 DEF CanCome

\* One more slot adds one to the line of its player,
LEMMA EnteringAdd ==
    ASSUME NEW x, LegalEntry(x), NEW g, NEW in \in SUBSET Available(g, x),
           NEW i \in Available(g, x) \ in, NEW k \in Lines
    PROVE  Entering(x, in \cup {i}, k) = Entering(x, in, k) + (IF Position[Pick(x, i)] = k THEN 1 ELSE 0)
<1> DEFINE At(S) == {j \in S : Position[Pick(x, j)] = k}
<1>1. IsFiniteSet(At(in)) /\ i \notin At(in)
  BY FiniteSides, FS_Subset
<1>2. At(in \cup {i}) = IF Position[Pick(x, i)] = k THEN At(in) \cup {i} ELSE At(in)
  OBVIOUS
<1> HIDE DEF At
<1>3. Cardinality(At(in \cup {i})) = Cardinality(At(in)) + (IF Position[Pick(x, i)] = k THEN 1 ELSE 0)
  <2>1. CASE Position[Pick(x, i)] = k
    BY <1>1, <1>2, <2>1, FS_AddElement
  <2>2. CASE ~(Position[Pick(x, i)] = k)
    BY <1>1, <1>2, <2>2, FS_CardinalityType
  <2> QED
    BY <2>1, <2>2
<1> QED
  BY <1>3 DEF Entering, At

\* and one more who leaves one to his.
LEMMA LeavingAdd ==
    ASSUME NEW x, LegalEntry(x), NEW g, NEW out \in SUBSET Missing(g, x),
           NEW p \in Missing(g, x) \ out, NEW k \in Lines
    PROVE  Count(out \cup {p}, k) = Count(out, k) + (IF Position[p] = k THEN 1 ELSE 0)
<1> DEFINE At(S) == {q \in S : Position[q] = k}
<1>1. IsFiniteSet(At(out)) /\ p \notin At(out)
  BY FiniteSides, FS_Subset
<1>2. At(out \cup {p}) = IF Position[p] = k THEN At(out) \cup {p} ELSE At(out)
  OBVIOUS
<1> HIDE DEF At
<1>3. Cardinality(At(out \cup {p})) = Cardinality(At(out)) + (IF Position[p] = k THEN 1 ELSE 0)
  <2>1. CASE Position[p] = k
    BY <1>1, <1>2, <2>1, FS_AddElement
  <2>2. CASE ~(Position[p] = k)
    BY <1>1, <1>2, <2>2, FS_CardinalityType
  <2> QED
    BY <2>1, <2>2
<1> QED
  BY <1>3 DEF Count, At

\* Whoever left before, somebody can leave for i if there is room for i.
LEMMA SomebodyLeaves ==
    ASSUME NEW x, LegalEntry(x), NEW g, NEW in \in SUBSET Available(g, x), NEW out \in SUBSET Missing(g, x),
           Cardinality(in) = Cardinality(out), ValidFormation(Eleven(x, in, out)),
           NEW i \in Available(g, x) \ in, CanCome(g, x, in \cup {i})
    PROVE  \E p \in Missing(g, x) \ out : ValidFormation(Eleven(x, in \cup {i}, out \cup {p}))
<1> DEFINE more == in \cup {i}
<1> SUFFICES ASSUME \A p \in Missing(g, x) \ out : ~ValidFormation(Eleven(x, more, out \cup {p}))
             PROVE  FALSE
  OBVIOUS
<1>1. more \in SUBSET Available(g, x)
  OBVIOUS
<1>2. ASSUME NEW k \in Lines
      PROVE  Room(g, x, more, k) \in Nat /\ Count(out, k) \in Nat /\ Room(g, x, more, k) <= Count(out, k)
  <2>1. /\ Count(out, k) \in Nat /\ Count(Missing(g, x), k) \in Nat /\ Count(out, k) <= Count(Missing(g, x), k)
        /\ Spare(x, k) \in Nat /\ Entering(x, in, k) \in Nat /\ Entering(x, more, k) \in Nat
        /\ Room(g, x, more, k) \in Nat
    BY <1>1, LeavingByLine, RoomFacts
  <2>2. CASE Count(out, k) = Count(Missing(g, x), k)
    BY <2>1, <2>2 DEF Room, Smaller
  <2>3. CASE Count(out, k) < Count(Missing(g, x), k)
    <3>1. PICK p \in Missing(g, x) \ out : Position[p] = k
      <4>1. {q \in out : Position[q] = k} # {q \in Missing(g, x) : Position[q] = k}
        BY <2>1, <2>3 DEF Count
      <4> QED
        BY <4>1
    <3>2. out \cup {p} \in SUBSET Missing(g, x)
      OBVIOUS
    <3>3. PICK l \in Lines : ~(Count(out \cup {p}, l) <= Spare(x, l) + Entering(x, more, l))
      BY <1>1, <3>2, FormationIff
    <3>4. /\ Count(out \cup {p}, l) = Count(out, l) + (IF k = l THEN 1 ELSE 0)
          /\ Entering(x, more, l) = Entering(x, in, l) + (IF Position[Pick(x, i)] = l THEN 1 ELSE 0)
      BY <3>1, LeavingAdd, EnteringAdd
    <3>5. Count(out, l) <= Spare(x, l) + Entering(x, in, l)
      BY FormationIff
    <3>6. Count(out, l) \in Nat /\ Spare(x, l) \in Nat /\ Entering(x, in, l) \in Nat
      BY LeavingByLine, RoomFacts
    <3>7. k = l
      BY <3>3, <3>4, <3>5, <3>6
    <3>8. Spare(x, k) + Entering(x, more, k) <= Count(out, k)
      BY <2>1, <3>3, <3>4, <3>7
    <3> QED
      BY <2>1, <3>8 DEF Room, Smaller
  <2> QED
    BY <2>1, <2>2, <2>3
<1>3. /\ Cardinality(more) = Cardinality(in) + 1 /\ Cardinality(in) \in Nat
      /\ Cardinality(out) = Count(out, "DEF") + Count(out, "MID") + Count(out, "FWD")
  <2>1. IsFiniteSet(in)
    BY FiniteSides, FS_Subset
  <2> QED
    BY <2>1, FS_AddElement, FS_CardinalityType, LeavingByLine
<1>4. /\ Room(g, x, more, "DEF") \in Nat /\ Count(out, "DEF") \in Nat /\ Room(g, x, more, "DEF") <= Count(out, "DEF")
      /\ Room(g, x, more, "MID") \in Nat /\ Count(out, "MID") \in Nat /\ Room(g, x, more, "MID") <= Count(out, "MID")
      /\ Room(g, x, more, "FWD") \in Nat /\ Count(out, "FWD") \in Nat /\ Room(g, x, more, "FWD") <= Count(out, "FWD")
  BY <1>2 DEF Lines
<1> QED
  BY <1>3, <1>4 DEF CanCome

\* The exchange property: a smaller set that can come leaves room for one of a larger set.
LEMMA Exchange ==
    ASSUME NEW x, LegalEntry(x), NEW g, NEW A \in SUBSET Available(g, x), NEW B \in SUBSET Available(g, x),
           CanCome(g, x, A), CanCome(g, x, B), Cardinality(A) < Cardinality(B)
    PROVE  \E i \in B \ A : CanCome(g, x, A \cup {i})
<1> DEFINE M(k) == Count(Missing(g, x), k)
           s(k) == Spare(x, k)
           a(k) == Entering(x, A, k)
           b(k) == Entering(x, B, k)
           R(k) == Smaller(M(k), s(k) + a(k))
           More(k) == Smaller(M(k), s(k) + a(k) + 1)
<1>1. \A k \in Lines : M(k) \in Nat /\ s(k) \in Nat /\ a(k) \in Nat /\ b(k) \in Nat
  BY RoomFacts
<1>2. /\ Cardinality(A) = a("DEF") + a("MID") + a("FWD")
      /\ Cardinality(B) = b("DEF") + b("MID") + b("FWD")
  BY EnteringByLine
<1>3. /\ a("DEF") + a("MID") + a("FWD") <= R("DEF") + R("MID") + R("FWD")
      /\ b("DEF") + b("MID") + b("FWD") <=
            Smaller(M("DEF"), s("DEF") + b("DEF")) + Smaller(M("MID"), s("MID") + b("MID"))
            + Smaller(M("FWD"), s("FWD") + b("FWD"))
  BY <1>2 DEF CanCome, Room
<1>4. \/ b("DEF") > a("DEF") /\ a("DEF") + a("MID") + a("FWD") + 1 <= More("DEF") + R("MID") + R("FWD")
      \/ b("MID") > a("MID") /\ a("DEF") + a("MID") + a("FWD") + 1 <= R("DEF") + More("MID") + R("FWD")
      \/ b("FWD") > a("FWD") /\ a("DEF") + a("MID") + a("FWD") + 1 <= R("DEF") + R("MID") + More("FWD")
  <2>1. /\ M("DEF") \in Nat /\ s("DEF") \in Nat /\ a("DEF") \in Nat /\ b("DEF") \in Nat
        /\ M("MID") \in Nat /\ s("MID") \in Nat /\ a("MID") \in Nat /\ b("MID") \in Nat
        /\ M("FWD") \in Nat /\ s("FWD") \in Nat /\ a("FWD") \in Nat /\ b("FWD") \in Nat
    BY <1>1 DEF Lines
  <2>2. a("DEF") + a("MID") + a("FWD") < b("DEF") + b("MID") + b("FWD")
    BY <1>2
  <2> HIDE DEF M, s, a, b
  <2> QED
    BY <1>3, <2>1, <2>2 DEF Smaller
<1>5. PICK k \in Lines : /\ b(k) > a(k)
                         /\ a("DEF") + a("MID") + a("FWD") + 1 <=
                              (IF k = "DEF" THEN More("DEF") ELSE R("DEF"))
                              + (IF k = "MID" THEN More("MID") ELSE R("MID"))
                              + (IF k = "FWD" THEN More("FWD") ELSE R("FWD"))
  BY <1>4 DEF Lines
<1>6. PICK i \in B \ A : Position[Pick(x, i)] = k
  <2> DEFINE At(S) == {j \in S : Position[Pick(x, j)] = k}
  <2>1. IsFiniteSet(At(A))
    BY FiniteSides, FS_Subset
  <2>2. Cardinality(At(B)) > Cardinality(At(A))
    BY <1>5 DEF Entering
  <2>3. ~(At(B) \subseteq At(A))
    <3> HIDE DEF At
    <3> QED
      BY <2>1, <2>2, FS_Subset, FS_CardinalityType
  <2> QED
    BY <2>3
<1>7. i \in Available(g, x) \ A
  OBVIOUS
<1>8. ASSUME NEW l \in Lines
      PROVE  Room(g, x, A \cup {i}, l) = IF k = l THEN More(l) ELSE R(l)
  <2>1. Entering(x, A \cup {i}, l) = a(l) + (IF k = l THEN 1 ELSE 0)
    BY <1>6, <1>7, EnteringAdd
  <2> QED
    BY <1>1, <2>1 DEF Room
<1>9. Cardinality(A \cup {i}) = a("DEF") + a("MID") + a("FWD") + 1
  <2>1. IsFiniteSet(A)
    BY FiniteSides, FS_Subset
  <2> QED
    BY <1>2, <2>1, FS_AddElement
<1>10. CanCome(g, x, A \cup {i})
  <2>1. "DEF" \in Lines /\ "MID" \in Lines /\ "FWD" \in Lines
    BY DEF Lines
  <2>2. /\ Room(g, x, A \cup {i}, "DEF") = (IF k = "DEF" THEN More("DEF") ELSE R("DEF"))
        /\ Room(g, x, A \cup {i}, "MID") = (IF k = "MID" THEN More("MID") ELSE R("MID"))
        /\ Room(g, x, A \cup {i}, "FWD") = (IF k = "FWD" THEN More("FWD") ELSE R("FWD"))
    BY <1>8, <2>1
  <2> HIDE DEF M, s, a, b, R, More
  <2> QED
    BY <1>5, <1>9, <2>2 DEF CanCome
<1> QED
  BY <1>10

\* How far the slots up to n have been gone through: s is the eleven and who is still
\* absent in it, in the slots that came on, each of which could.
Stage(g, x, s, in, n) ==
    /\ in \subseteq Available(g, x) /\ \A i \in in : i <= n
    /\ s.out \subseteq Missing(g, x)
    /\ s.eleven = Eleven(x, in, Missing(g, x) \ s.out)
    /\ Cardinality(in) = Cardinality(Missing(g, x) \ s.out)
    /\ ValidFormation(s.eleven)
    /\ \A i \in Available(g, x) \ in : i <= n => ~CanCome(g, x, {j \in in : j < i} \cup {i})

NobodyYet(g, x) == [eleven |-> Starters(x), out |-> Missing(g, x)]

\* Before the first slot nobody has come on.
LEMMA FirstStage ==
    ASSUME NEW x, LegalEntry(x), NEW g
    PROVE  Stage(g, x, NobodyYet(g, x), {}, 11)
<1>1. \A i \in Available(g, x) : ~(i <= 11)
  BY DEF Available, BenchSlots
<1>2. Missing(g, x) \ Missing(g, x) = {} /\ Eleven(x, {}, {}) = Starters(x)
  BY DEF Eleven
<1>3. ValidFormation(Starters(x))
  BY DEF LegalEntry
<1> QED
  BY <1>1, <1>2, <1>3 DEF Stage, NobodyYet

\* One more slot.
LEMMA NextStage ==
    ASSUME NEW x, LegalEntry(x), NEW g, NEW s, NEW n \in 11..14, NEW in, Stage(g, x, s, in, n)
    PROVE  \E more : Stage(g, x, Offer(x, s, n + 1, Available(g, x)), more, n + 1)
<1> DEFINE i == n + 1
           out == Missing(g, x) \ s.out
           makes == {p \in s.out : ValidFormation((s.eleven \ {p}) \cup {Pick(x, i)})}
<1>1. /\ in \in SUBSET Available(g, x) /\ out \in SUBSET Missing(g, x) /\ s.out \subseteq Missing(g, x)
      /\ \A j \in in : j \in 12..15 /\ j <= n
      /\ s.eleven = Eleven(x, in, out) /\ Cardinality(in) = Cardinality(out) /\ ValidFormation(s.eleven)
      /\ \A j \in Available(g, x) \ in : j <= n => ~CanCome(g, x, {l \in in : l < j} \cup {j})
  BY DEF Stage, Available, BenchSlots
<1>2. i \notin in /\ i \in Int /\ n \in Int
  BY <1>1
<1>3. \A j \in Available(g, x) : j \in Int /\ (j <= i <=> j <= n \/ j = i)
  BY DEF Available, BenchSlots
<1>4. CASE i \notin Available(g, x)
  <2>1. Offer(x, s, i, Available(g, x)) = s
    BY <1>4 DEF Offer
  <2>2. Stage(g, x, s, in, i)
    BY <1>1, <1>3, <1>4 DEF Stage
  <2> QED
    BY <2>1, <2>2
<1>5. CASE i \in Available(g, x)
  <2>1. \A p \in Missing(g, x) \ out : (s.eleven \ {p}) \cup {Pick(x, i)} = Eleven(x, in \cup {i}, out \cup {p})
    <3>1. \A j \in in : Pick(x, j) \notin Starters(x)
      BY <1>1, SlotFacts
    <3>2. Pick(x, i) \notin Starters(x)
      BY <1>5, SlotFacts
    <3>3. Missing(g, x) \subseteq Starters(x)
      BY DEF Missing
    <3> QED
      BY <1>1, <3>1, <3>2, <3>3 DEF Eleven
  <2>2. s.out = Missing(g, x) \ out
    BY <1>1
  <2>3. makes = {p \in Missing(g, x) \ out : ValidFormation(Eleven(x, in \cup {i}, out \cup {p}))}
    BY <2>1, <2>2
  <2>4. CASE makes = {}
    <3>1. ~CanCome(g, x, in \cup {i})
      <4>1. i \in Available(g, x) \ in
        BY <1>2, <1>5
      <4>2. \A p \in Missing(g, x) \ out : ~ValidFormation(Eleven(x, in \cup {i}, out \cup {p}))
        BY <2>3, <2>4
      <4> HIDE DEF i, out
      <4> QED
        BY <1>1, <4>1, <4>2, SomebodyLeaves
    <3>2. {j \in in : j < i} = in
      BY <1>1, <1>2
    <3>3. Offer(x, s, i, Available(g, x)) = s
      BY <2>4 DEF Offer
    <3>4. Stage(g, x, s, in, i)
      BY <1>1, <1>3, <3>1, <3>2 DEF Stage
    <3> QED
      BY <3>3, <3>4
  <2>5. CASE makes # {}
    <3> DEFINE p == CHOOSE q \in makes : TRUE
               t == Offer(x, s, i, Available(g, x))
    <3>1. p \in makes
      BY <2>5
    <3>2. t = [eleven |-> (s.eleven \ {p}) \cup {Pick(x, i)}, out |-> s.out \ {p}]
      BY <1>5, <2>5 DEF Offer
    <3> HIDE DEF p, t, makes
    <3>3. p \in Missing(g, x) \ out /\ ValidFormation(Eleven(x, in \cup {i}, out \cup {p}))
      BY <2>3, <3>1
    <3>4. t.eleven = Eleven(x, in \cup {i}, out \cup {p}) /\ t.out = s.out \ {p}
      BY <2>1, <3>2, <3>3
    <3>5. Missing(g, x) \ t.out = out \cup {p}
      BY <1>1, <3>3, <3>4
    <3>6. Cardinality(in \cup {i}) = Cardinality(out \cup {p})
      <4>1. IsFiniteSet(in) /\ IsFiniteSet(out)
        BY <1>1, FiniteSides, FS_Subset
      <4>2. p \notin out
        BY <3>3
      <4> HIDE DEF i, out
      <4>3. /\ Cardinality(in \cup {i}) = Cardinality(in) + 1
            /\ Cardinality(out \cup {p}) = Cardinality(out) + 1
        BY <1>2, <4>1, <4>2, FS_AddElement
      <4> QED
        BY <1>1, <4>3
    <3>7. ASSUME NEW j \in Available(g, x) \ (in \cup {i}), j <= i
          PROVE  ~CanCome(g, x, {l \in in \cup {i} : l < j} \cup {j})
      <4>1. j <= n /\ j \in Int
        BY <1>3, <3>7
      <4>2. {l \in in \cup {i} : l < j} = {l \in in : l < j}
        BY <1>1, <1>2, <4>1
      <4> QED
        BY <1>1, <4>1, <4>2
    <3>8. Stage(g, x, t, in \cup {i}, i)
      <4>1. in \cup {i} \subseteq Available(g, x) /\ \A j \in in \cup {i} : j <= i
        BY <1>1, <1>2, <1>5
      <4>2. t.out \subseteq Missing(g, x)
        BY <1>1, <3>4
      <4> HIDE DEF i, out
      <4> QED
        BY <3>3, <3>4, <3>5, <3>6, <3>7, <4>1, <4>2 DEF Stage
    <3> QED
      BY <3>8 DEF t
  <2> QED
    BY <2>4, <2>5
<1> QED
  BY <1>4, <1>5

\* The bench order ends in such a stage.
LEMMA LastStage ==
    ASSUME NEW x, LegalEntry(x), NEW g
    PROVE  \E s, in : Stage(g, x, s, in, 15) /\ s.eleven = ByBenchOrder(g, x)
<1> DEFINE A == Available(g, x)
           s1 == Offer(x, NobodyYet(g, x), 12, A)
           s2 == Offer(x, s1, 13, A)
           s3 == Offer(x, s2, 14, A)
           s4 == Offer(x, s3, 15, A)
<1>0. 12 = 11 + 1 /\ 13 = 12 + 1 /\ 14 = 13 + 1 /\ 15 = 14 + 1
  OBVIOUS
<1>1. PICK a : Stage(g, x, s1, a, 12)
  BY <1>0, FirstStage, NextStage, 11 \in 11..14
<1>2. PICK b : Stage(g, x, s2, b, 13)
  BY <1>0, <1>1, NextStage, 12 \in 11..14
<1>3. PICK c : Stage(g, x, s3, c, 14)
  BY <1>0, <1>2, NextStage, 13 \in 11..14
<1>4. PICK d : Stage(g, x, s4, d, 15)
  BY <1>0, <1>3, NextStage, 14 \in 11..14
<1>5. s4.eleven = ByBenchOrder(g, x)
  BY DEF ByBenchOrder, NobodyYet
<1> QED
  BY <1>4, <1>5

\* A set of slots has a lowest one.
LEMMA LowestIn ==
    ASSUME NEW S \in SUBSET (12..15), S # {}
    PROVE  Lowest(S) \in S /\ \A j \in S : Lowest(S) <= j
<1>1. \E i \in S : \A j \in S : i <= j
  <2>1. CASE 12 \in S
    BY <2>1
  <2>2. CASE 12 \notin S /\ 13 \in S
    BY <2>2
  <2>3. CASE 12 \notin S /\ 13 \notin S /\ 14 \in S
    BY <2>3
  <2>4. CASE 12 \notin S /\ 13 \notin S /\ 14 \notin S
    <3>1. S = {15}
      <4>1. \A j \in S : j = 12 \/ j = 13 \/ j = 14 \/ j = 15
        OBVIOUS
      <4> QED
        BY <2>4, <4>1
    <3> QED
      BY <3>1
  <2> QED
    BY <2>1, <2>2, <2>3, <2>4
<1> QED
  BY <1>1 DEF Lowest

\* The slots that come on in bench order are the ones that the search prefers.
LEMMA GreedyIsBest ==
    ASSUME NEW x, LegalEntry(x), NEW g, NEW s, NEW in, Stage(g, x, s, in, 15),
           NEW plan \in Plans(g, x)
    PROVE  Preferred(in, plan[1])
<1> DEFINE B == plan[1]
<1>1. /\ in \in SUBSET Available(g, x) /\ CanCome(g, x, in)
      /\ \A i \in Available(g, x) \ in : ~CanCome(g, x, {j \in in : j < i} \cup {i})
  <2>1. Missing(g, x) \ s.out \in SUBSET Missing(g, x) /\ in \in SUBSET Available(g, x)
    BY DEF Stage
  <2>2. \A i \in Available(g, x) : i <= 15
    BY DEF Available, BenchSlots
  <2> QED
    BY <2>1, <2>2, PlanCan DEF Stage
<1>2. B \in SUBSET Available(g, x) /\ CanCome(g, x, B)
  <2>1. /\ plan[1] \in SUBSET Available(g, x) /\ plan[2] \in SUBSET Missing(g, x)
        /\ Cardinality(plan[1]) = Cardinality(plan[2]) /\ ValidFormation(Eleven(x, plan[1], plan[2]))
    BY DEF Plans
  <2> QED
    BY <2>1, PlanCan
<1>3. Available(g, x) \subseteq 12..15
  BY DEF Available, BenchSlots
<1>4. IsFiniteSet(in) /\ IsFiniteSet(B)
  BY <1>1, <1>2, FiniteSides, FS_Subset
<1>5. Cardinality(in) \in Nat /\ Cardinality(B) \in Nat
  BY <1>4, FS_CardinalityType
<1> HIDE DEF B
<1>6. Cardinality(B) <= Cardinality(in)
  <2> SUFFICES ASSUME Cardinality(in) < Cardinality(B) PROVE FALSE
    BY <1>5
  <2>1. PICK i \in B \ in : CanCome(g, x, in \cup {i})
    BY <1>1, <1>2, Exchange
  <2>2. in \cup {i} \in SUBSET Available(g, x) /\ {j \in in : j < i} \cup {i} \in SUBSET (in \cup {i})
    BY <1>1, <1>2
  <2>3. CanCome(g, x, {j \in in : j < i} \cup {i})
    BY <2>1, <2>2, Downward
  <2> QED
    BY <1>1, <1>2, <2>3
<1>7. ASSUME Cardinality(in) = Cardinality(B), in # B
      PROVE  Lowest((in \cup B) \ (in \cap B)) \in in
  <2> DEFINE D == (in \cup B) \ (in \cap B)
             L == Lowest(D)
  <2>1. D # {} /\ D \in SUBSET (12..15)
    BY <1>1, <1>2, <1>3, <1>7
  <2>2. L \in D /\ \A j \in D : L <= j
    BY <2>1, LowestIn
  <2> SUFFICES ASSUME L \notin in PROVE FALSE
    OBVIOUS
  <2>3. L \in B \ in
    BY <2>2
  <2>4. \A j \in in : j < L => j \in B
    <3>1. \A j \in in : j \in Int
      BY <1>1, <1>3
    <3>2. L \in Int
      BY <1>2, <1>3, <2>3
    <3>3. \A j \in in : j \notin B => L <= j
      BY <2>2
    <3> HIDE DEF D, L
    <3> QED
      BY <3>1, <3>2, <3>3
  <2> HIDE DEF D, L
  <2>5. {j \in in : j < L} \cup {L} \in SUBSET B
    BY <2>3, <2>4
  <2>6. CanCome(g, x, {j \in in : j < L} \cup {L})
    BY <1>2, <2>5, Downward
  <2> QED
    BY <1>1, <1>2, <2>3, <2>6
<1>8. Preferred(in, B)
  <2>1. CASE in = B
    BY <2>1 DEF Preferred
  <2>2. CASE Cardinality(in) = Cardinality(B) /\ in # B
    BY <1>7, <2>2 DEF Preferred
  <2>3. CASE Cardinality(in) > Cardinality(B)
    BY <2>3 DEF Preferred
  <2> QED
    BY <1>5, <1>6, <2>1, <2>2, <2>3
<1> QED
  BY <1>8 DEF B

\* No two sets of slots are preferred to each other.
LEMMA PreferredOnce ==
    ASSUME NEW a \in SUBSET (12..15), NEW b \in SUBSET (12..15), Preferred(a, b), Preferred(b, a)
    PROVE  a = b
<1> SUFFICES ASSUME a # b PROVE FALSE
  OBVIOUS
<1>1. IsFiniteSet(a) /\ IsFiniteSet(b)
  <2>1. IsFiniteSet(12..15)
    BY FS_Interval, 12 \in Int, 15 \in Int, Zenon
  <2> QED
    BY <2>1, FS_Subset
<1>2. Cardinality(a) \in Nat /\ Cardinality(b) \in Nat
  BY <1>1, FS_CardinalityType
<1> DEFINE D == (a \cup b) \ (a \cap b)
<1>3. (b \cup a) \ (b \cap a) = D /\ D # {} /\ D \in SUBSET (12..15)
  OBVIOUS
<1>4. Lowest(D) \in a /\ Lowest(D) \in b
  BY <1>2, <1>3 DEF Preferred
<1>5. Lowest(D) \in D
  BY <1>3, LowestIn
<1> QED
  BY <1>4, <1>5

\* The plan that the search finds brings on the slots of the bench order.
LEMMA PlanIsGreedy ==
    ASSUME NEW x, LegalEntry(x), NEW g, NEW s, NEW in, Stage(g, x, s, in, 15)
    PROVE  SubstitutionPlan(g, x) \in Plans(g, x) /\ SubstitutionPlan(g, x)[1] = in
<1> DEFINE mine == <<in, Missing(g, x) \ s.out>>
           plan == SubstitutionPlan(g, x)
<1>1. mine \in Plans(g, x) /\ mine[1] = in
  BY DEF Stage, Plans
<1>2. \A other \in Plans(g, x) : Preferred(mine[1], other[1])
  BY <1>1, GreedyIsBest
<1>3. plan \in Plans(g, x) /\ \A other \in Plans(g, x) : Preferred(plan[1], other[1])
  BY <1>1, <1>2 DEF SubstitutionPlan
<1>4. Preferred(in, plan[1]) /\ Preferred(plan[1], in)
  BY <1>1, <1>2, <1>3
<1>5. in \in SUBSET (12..15) /\ plan[1] \in SUBSET (12..15)
  BY <1>1, <1>3 DEF Plans, Available, BenchSlots
<1> QED
  BY <1>3, <1>4, <1>5, PreferredOnce

\* There always is a plan, the search finds one.
LEMMA PlanIsPlan ==
    ASSUME NEW x, LegalEntry(x), NEW g
    PROVE  SubstitutionPlan(g, x) \in Plans(g, x)
BY LastStage, PlanIsGreedy

\* Without a pending starter the same starters stay missing.
LEMMA MissingKept ==
    ASSUME NEW x, LegalEntry(x), NEW g, NEW h, Later(g, h), ~Pending(g, x)
    PROVE  Missing(h, x) = Missing(g, x)
BY AbsenceKept DEF Missing

\* Nobody is missing, so that nobody comes on.
LEMMA NobodyComesOn ==
    ASSUME NEW x, LegalEntry(x), NEW g, Missing(g, x) = {}
    PROVE  /\ SubstitutionPlan(g, x)[1] = {} /\ SubstitutionPlan(g, x)[2] = {}
<1> DEFINE plan == SubstitutionPlan(g, x)
<1>1. plan \in Plans(g, x)
  BY PlanIsPlan
<1>2. plan[1] \subseteq Available(g, x) /\ plan[2] = {} /\ Cardinality(plan[1]) = Cardinality(plan[2])
  BY <1>1 DEF Plans
<1>3. IsFiniteSet(12..15)
  BY FS_Interval, 12 \in Int, 15 \in Int, Zenon
<1>4. IsFiniteSet(plan[1])
  BY <1>2, <1>3, FS_Subset DEF Available, BenchSlots
<1> QED
  BY <1>2, <1>4, FS_EmptySet

\* Without a substitution that is open the same goalkeeper counts,
LEMMA GoalkeeperKept ==
    ASSUME NEW x, LegalEntry(x), NEW g, NEW h, Later(g, h), ~Pending(g, x),
           ~SubstituteOpen(g, x), x.chip # "bboost"
    PROVE  Goalkeeper(h, x) = Goalkeeper(g, x)
<1> DEFINE first == CHOOSE p \in Starters(x) : ~Outfield(p)
           second == CHOOSE p \in Squad(x) \ Starters(x) : ~Outfield(p)
<1>1. first \in Starters(x) /\ ~Outfield(first)
  BY FirstGoalkeeper
<1>2. second \in Squad(x) \ Starters(x) /\ ~Outfield(second)
  BY SecondGoalkeeper
<1> HIDE DEF first, second
<1>3. ConfirmedAbsent(h, first) <=> ConfirmedAbsent(g, first)
  BY <1>1, AbsenceKept
<1>4. ASSUME ConfirmedAbsent(g, first)
      PROVE  Appeared(h, second) <=> Appeared(g, second)
  <2>1. Appeared(g, second) \/ ~Unfinished(g, second)
    BY <1>1, <1>2, <1>4 DEF SubstituteOpen, Outfield
  <2>2. second \in Players
    BY <1>2, SquadFacts
  <2> QED
    BY <2>1, <2>2 DEF Later, Appeared
<1> QED
  BY <1>3, <1>4 DEF Goalkeeper, first, second

\* the same slots are available if anybody is missing,
LEMMA AvailableKept ==
    ASSUME NEW x, LegalEntry(x), NEW g, NEW h, Later(g, h), ~SubstituteOpen(g, x), x.chip # "bboost",
           Missing(g, x) # {}
    PROVE  Available(h, x) = Available(g, x)
<1>1. PICK p \in Starters(x) : Outfield(p) /\ ConfirmedAbsent(g, p)
  BY DEF Missing
<1>2. ASSUME NEW i \in BenchSlots, Outfield(Pick(x, i))
      PROVE  Appeared(h, Pick(x, i)) <=> Appeared(g, Pick(x, i))
  <2>1. i \in 1..15 /\ i \notin 1..11
    BY DEF BenchSlots
  <2>2. Pick(x, i) \in Squad(x) \ Starters(x) /\ Pick(x, i) \in Players
    BY <2>1, SquadFacts DEF Starters
  <2>3. Appeared(g, Pick(x, i)) \/ ~Unfinished(g, Pick(x, i))
    BY <1>1, <1>2, <2>2 DEF SubstituteOpen
  <2> QED
    BY <2>2, <2>3 DEF Later, Appeared
<1> QED
  BY <1>2 DEF Available

\* and so the same players count.
LEMMA CountedKept ==
    ASSUME NEW x, LegalEntry(x), NEW g, NEW h, Later(g, h), ~Pending(g, x), ~SubstituteOpen(g, x)
    PROVE  Counted(h, x) = Counted(g, x)
<1>1. CASE x.chip = "bboost"
  BY <1>1 DEF Counted
<1>2. CASE x.chip # "bboost"
  <2>1. Goalkeeper(h, x) = Goalkeeper(g, x) /\ Missing(h, x) = Missing(g, x)
    BY <1>2, GoalkeeperKept, MissingKept
  <2>2. CASE Missing(g, x) = {}
    BY <1>2, <2>1, <2>2, NobodyComesOn DEF Counted
  <2>3. CASE Missing(g, x) # {}
    <3>1. Plans(h, x) = Plans(g, x)
      BY <1>2, <2>1, <2>3, AvailableKept DEF Plans
    <3>2. SubstitutionPlan(h, x) = SubstitutionPlan(g, x)
      BY <3>1 DEF SubstitutionPlan
    <3> QED
      BY <1>2, <2>1, <3>2 DEF Counted
  <2> QED
    BY <2>2, <2>3
<1> QED
  BY <1>1, <1>2

\* Of a settled manager without pending starters nothing moves any more.
LEMMA MultipliersKept ==
    ASSUME NEW x, LegalEntry(x), NEW g, NEW h, StateOK(g), StateOK(h), Later(g, h),
           ~Pending(g, x), ~Unsettled(g, x)
    PROVE  Multipliers(h, x) = Multipliers(g, x)
<1>1. ~SubstituteOpen(g, x) /\ ~ArmbandOpen(g, x)
  BY DEF Unsettled
<1>2. Counted(h, x) = Counted(g, x) /\ Doubled(h, x) = Doubled(g, x)
  BY <1>1, CountedKept, CaptaincyKept
<1> QED
  BY <1>2 DEF Multipliers

\* A multiplier is at most what the bounds take for the maximum.
LEMMA WeightsBounded ==
    ASSUME NEW x, LegalEntry(x), NEW g, NEW p \in Players
    PROVE  /\ Multipliers(g, x)[p] \in 0..3 /\ MaximumMultiplier(x, p) \in 1..3
           /\ Multipliers(g, x)[p] <= MaximumMultiplier(x, p)
<1>1. Doubled(g, x) \subseteq Armband(x)
  BY DEF Doubled, Armband
<1> QED
  BY <1>1 DEF Multipliers, MaximumMultiplier, CaptainMultiplier

\* A starter who has appeared counts once, whatever happens, unless he may wear the armband.
LEMMA StarterCounts ==
    ASSUME NEW x, LegalEntry(x), NEW g, NEW p \in Starters(x) \ Armband(x), Appeared(g, p)
    PROVE  Multipliers(g, x)[p] = 1
<1>1. p \in Players /\ p \in Squad(x)
  BY SquadFacts
<1>2. p \notin Doubled(g, x)
  BY DEF Doubled, Armband
<1>3. p \in Counted(g, x)
  <2>1. CASE x.chip = "bboost"
    BY <1>1, <2>1 DEF Counted
  <2>2. CASE x.chip # "bboost"
    <3>1. SubstitutionPlan(g, x)[2] \subseteq Missing(g, x)
      BY PlanIsPlan DEF Plans
    <3>2. CASE Outfield(p)
      BY <2>2, <3>1, <3>2 DEF Counted, Eleven, Missing, ConfirmedAbsent
    <3>3. CASE ~Outfield(p)
      <4>1. p = CHOOSE q \in Starters(x) : ~Outfield(q)
        BY <3>3, FirstGoalkeeper
      <4>2. Goalkeeper(g, x) = p
        BY <4>1 DEF Goalkeeper, ConfirmedAbsent
      <4> QED
        BY <2>2, <4>2 DEF Counted
    <3> QED
      BY <3>2, <3>3
  <2> QED
    BY <2>1, <2>2
<1> QED
  BY <1>1, <1>2, <1>3 DEF Multipliers

\* What a player adds to his score is within the envelope at his maximum multiplier.
LEMMA ScaleBound ==
    ASSUME NEW w \in 0..3, NEW max \in 1..3, w <= max, NEW d \in Low..High
    PROVE  /\ Low * max \in Int /\ High * max \in Int /\ w * d \in Int
           /\ Low * max <= w * d /\ w * d <= High * max
<1>1. Low \in Int /\ High \in Int /\ Low <= 0 /\ 0 <= High /\ d \in Int
  BY EnvelopeAssumption
<1>2. /\ w = 0 \/ w = 1 \/ w = 2 \/ w = 3
      /\ max = 1 \/ max = 2 \/ max = 3
  OBVIOUS
<1> QED
  BY <1>1, <1>2

\* The least and the greatest of three numbers.
LEMMA Extremes ==
    ASSUME NEW a \in Int, NEW b \in Int, NEW c \in Int
    PROVE  LET S == {a, b, c}
           IN  /\ Lowest(S) \in Int /\ Lowest(S) <= a /\ Lowest(S) <= b /\ Lowest(S) <= c
               /\ Greatest(S) \in Int /\ a <= Greatest(S) /\ b <= Greatest(S) /\ c <= Greatest(S)
<1> DEFINE S == {a, b, c}
<1>1. \E i \in S : \A j \in S : i <= j
  OBVIOUS
<1>2. \E i \in S : \A j \in S : j <= i
  OBVIOUS
<1>3. Lowest(S) \in S /\ \A j \in S : Lowest(S) <= j
  BY <1>1 DEF Lowest
<1>4. Greatest(S) \in S /\ \A j \in S : j <= Greatest(S)
  BY <1>2 DEF Greatest
<1> QED
  BY <1>3, <1>4

\* Whatever multiplier he ends with, the points he had move by no more than the bounds say.
LEMMA MoveBound ==
    ASSUME NEW w \in 0..3, NEW v \in 0..3, NEW max \in 1..3, w <= max, v <= max, NEW a \in Int
    PROVE  LET S == {0, -w * a, (max - w) * a}
           IN  /\ Lowest(S) \in Int /\ Lowest(S) <= (v - w) * a
               /\ Greatest(S) \in Int /\ (v - w) * a <= Greatest(S)
<1> DEFINE b == -w * a
           c == (max - w) * a
           d == (v - w) * a
<1>1. b \in Int /\ c \in Int /\ d \in Int /\ ((b <= d /\ d <= c) \/ (b >= d /\ d >= c))
  <2>1. /\ w = 0 \/ w = 1 \/ w = 2 \/ w = 3
        /\ v = 0 \/ v = 1 \/ v = 2 \/ v = 3
        /\ max = 1 \/ max = 2 \/ max = 3
    OBVIOUS
  <2> QED
    BY <2>1
<1> HIDE DEF b, c, d
<1>2. /\ Lowest({0, b, c}) \in Int /\ Lowest({0, b, c}) <= b /\ Lowest({0, b, c}) <= c
      /\ Greatest({0, b, c}) \in Int /\ b <= Greatest({0, b, c}) /\ c <= Greatest({0, b, c})
  BY <1>1, 0 \in Int, Extremes, Zenon
<1>3. Lowest({0, b, c}) <= d /\ d <= Greatest({0, b, c})
  BY <1>1, <1>2
<1> QED
  BY <1>2, <1>3 DEF b, c, d

\* Final points are the points he had, what moved of them and what he added.
LEMMA Distribute ==
    ASSUME NEW w \in 0..3, NEW v \in 0..3, NEW a \in Int, NEW b \in Int
    PROVE  /\ w * a \in Int /\ v * b \in Int /\ (v - w) * a \in Int /\ v * (b - a) \in Int
           /\ v * b = w * a + (v - w) * a + v * (b - a)
<1>1. /\ w = 0 \/ w = 1 \/ w = 2 \/ w = 3
      /\ v = 0 \/ v = 1 \/ v = 2 \/ v = 3
  OBVIOUS
<1> QED
  BY <1>1

\* Points already scored are moved only by those the bounds call movable.
LEMMA OnlyMovableMove ==
    ASSUME NEW x, LegalEntry(x), NEW g, NEW h, StateOK(g), StateOK(h), Later(g, h), ~Unsettled(g, x),
           NEW p \in Squad(x), p \notin Movable(g, x), g.points[p] # 0
    PROVE  Multipliers(h, x)[p] = Multipliers(g, x)[p]
<1>1. CASE ~Pending(g, x)
  BY <1>1, MultipliersKept
<1>2. CASE Pending(g, x)
  <2>1. p \in Starters(x) \ Armband(x) /\ p \in Players
    BY <1>2, SquadFacts DEF Movable
  <2>2. Appeared(g, p) /\ Appeared(h, p)
    BY <2>1 DEF StateOK, Appeared, Later
  <2> QED
    BY <2>1, <2>2, StarterCounts
<1> QED
  BY <1>1, <1>2

\* What the bounds allow to move of one player.
LEMMA MovesAre ==
    ASSUME NEW x, LegalEntry(x), NEW g, NEW p \in Players
    PROVE  /\ p \in Movable(g, x) =>
                Moves(g, x)[p] = {0, -Multipliers(g, x)[p] * g.points[p],
                                  (MaximumMultiplier(x, p) - Multipliers(g, x)[p]) * g.points[p]}
           /\ p \notin Movable(g, x) => Moves(g, x)[p] = {0, 0, 0}
BY DEF Moves

\* The bounds enclose what one player will contribute (safety.py: conservative_score_bounds).
LEMMA PointsEnclosed ==
    ASSUME NEW x, LegalEntry(x), NEW g, NEW h, StateOK(g), StateOK(h), Later(g, h), ~Unsettled(g, x),
           NEW p \in Squad(x)
    PROVE  LET w == Multipliers(g, x)[p] * g.points[p]
               v == Multipliers(h, x)[p] * h.points[p]
               Rest(envelope) == IF Unfinished(g, p) THEN envelope * MaximumMultiplier(x, p) ELSE 0
               shifts == Moves(g, x)[p]
           IN  /\ w \in Int /\ v \in Int /\ Rest(Low) \in Int /\ Rest(High) \in Int
               /\ Lowest(shifts) \in Int /\ Greatest(shifts) \in Int
               /\ w + Rest(Low) + Lowest(shifts) <= v /\ v <= w + Rest(High) + Greatest(shifts)
<1> DEFINE w == Multipliers(g, x)[p]
           v == Multipliers(h, x)[p]
           max == MaximumMultiplier(x, p)
           a == g.points[p]
           b == h.points[p]
           Rest(envelope) == IF Unfinished(g, p) THEN envelope * max ELSE 0
           shifts == Moves(g, x)[p]
<1>1. p \in Players /\ a \in Int /\ b \in Int
  BY SquadFacts DEF StateOK
<1>2. w \in 0..3 /\ v \in 0..3 /\ max \in 1..3 /\ w <= max /\ v <= max
  BY <1>1, WeightsBounded
<1>3. b - a \in Low..High /\ (Unfinished(g, p) \/ b - a = 0)
  BY <1>1 DEF Later
<1>4. /\ Rest(Low) \in Int /\ Rest(High) \in Int /\ v * (b - a) \in Int
      /\ Rest(Low) <= v * (b - a) /\ v * (b - a) <= Rest(High)
  <2> HIDE DEF w, v, max, a, b
  <2>1. CASE Unfinished(g, p)
    BY <1>2, <1>3, <2>1, ScaleBound
  <2>2. CASE ~Unfinished(g, p)
    <3>1. b - a = 0 /\ v * 0 = 0
      BY <1>2, <1>3, <2>2
    <3> QED
      BY <2>2, <3>1
  <2> QED
    BY <2>1, <2>2
<1>5. /\ Lowest(shifts) \in Int /\ Greatest(shifts) \in Int /\ (v - w) * a \in Int
      /\ Lowest(shifts) <= (v - w) * a /\ (v - w) * a <= Greatest(shifts)
  <2>0. (v - w) * a \in Int
    BY <1>1, <1>2, Distribute
  <2>1. CASE p \in Movable(g, x)
    <3>1. shifts = {0, -w * a, (max - w) * a}
      BY <1>1, <2>1, MovesAre
    <3> HIDE DEF w, v, max, a, shifts
    <3> QED
      BY <1>1, <1>2, <2>0, <3>1, MoveBound
  <2>2. CASE p \notin Movable(g, x)
    <3>1. shifts = {0, 0, 0}
      BY <1>1, <2>2, MovesAre
    <3>2. v = w \/ a = 0
      BY <2>2, OnlyMovableMove
    <3> HIDE DEF w, v, max, a, shifts
    <3>3. (v - w) * a = 0
      BY <1>1, <1>2, <3>2
    <3>4. Lowest({0, 0, 0}) = 0 /\ Greatest({0, 0, 0}) = 0
      BY DEF Lowest, Greatest
    <3> QED
      BY <3>1, <3>3, <3>4
  <2> QED
    BY <2>1, <2>2
<1>6. w * a \in Int /\ v * b \in Int /\ v * b = w * a + (v - w) * a + v * (b - a)
  <2> HIDE DEF w, v, a, b
  <2> QED
    BY <1>1, <1>2, Distribute
<1> DEFINE A == w * a
           B == v * b
           C == (v - w) * a
           D == v * (b - a)
           RL == Rest(Low)
           RH == Rest(High)
           ML == Lowest(shifts)
           MH == Greatest(shifts)
<1>7. /\ A \in Int /\ B \in Int /\ C \in Int /\ D \in Int /\ RL \in Int /\ RH \in Int
      /\ ML \in Int /\ MH \in Int /\ RL <= D /\ D <= RH /\ ML <= C /\ C <= MH /\ B = A + C + D
  BY <1>4, <1>5, <1>6
<1>8. A + RL + ML <= B /\ B <= A + RH + MH
  <2> HIDE DEF A, B, C, D, RL, RH, ML, MH
  <2> QED
    BY <1>7
<1> QED
  BY <1>7, <1>8

\* The bounds enclose what the score may become.
LEMMA ScoreEnclosed ==
    ASSUME NEW x, LegalEntry(x), NEW g, NEW h, StateOK(g), StateOK(h), Later(g, h), ~Unsettled(g, x)
    PROVE  /\ Bounds(g, x).lower \in Int /\ Bounds(g, x).upper \in Int
           /\ Within(Score(h, x), Bounds(g, x))
<1> DEFINE W == [p \in Players |-> Multipliers(g, x)[p] * g.points[p]]
           V == [p \in Players |-> Multipliers(h, x)[p] * h.points[p]]
           R(envelope) == [p \in Players |->
                IF Unfinished(g, p) THEN envelope * MaximumMultiplier(x, p) ELSE 0]
           RL == R(Low)
           RH == R(High)
           ML == [p \in Players |-> Lowest(Moves(g, x)[p])]
           MH == [p \in Players |-> Greatest(Moves(g, x)[p])]
           AL == [p \in Players |-> W[p] + RL[p]]
           AH == [p \in Players |-> W[p] + RH[p]]
           BL == [p \in Players |-> AL[p] + ML[p]]
           BH == [p \in Players |-> AH[p] + MH[p]]
<1>1. ASSUME NEW p \in Squad(x)
      PROVE  /\ W[p] \in Int /\ V[p] \in Int /\ RL[p] \in Int /\ RH[p] \in Int
             /\ ML[p] \in Int /\ MH[p] \in Int
             /\ W[p] + RL[p] + ML[p] <= V[p] /\ V[p] <= W[p] + RH[p] + MH[p]
  <2>1. p \in Players
    BY SquadFacts
  <2> QED
    BY <2>1, PointsEnclosed
<1>2. ASSUME NEW p \in Squad(x)
      PROVE  /\ AL[p] = W[p] + RL[p] /\ AH[p] = W[p] + RH[p]
             /\ BL[p] = AL[p] + ML[p] /\ BH[p] = AH[p] + MH[p]
  <2>1. p \in Players
    BY SquadFacts
  <2> QED
    BY <2>1
<1>3. /\ Score(h, x) = Total(V, x) - x.hit /\ Score(g, x) = Total(W, x) - x.hit
      /\ Bounds(g, x).lower = Score(g, x) + Total(RL, x) + Total(ML, x)
      /\ Bounds(g, x).upper = Score(g, x) + Total(RH, x) + Total(MH, x)
  BY DEF Score, Bounds, Swing
<1> HIDE DEF W, V, R, RL, RH, ML, MH, AL, AH, BL, BH
<1>4. /\ Total(W, x) \in Int /\ Total(V, x) \in Int /\ Total(RL, x) \in Int /\ Total(RH, x) \in Int
      /\ Total(ML, x) \in Int /\ Total(MH, x) \in Int /\ x.hit \in Int
  BY <1>1, TotalInt DEF LegalEntry
<1>5. \A p \in Squad(x) : /\ AL[p] \in Int /\ AH[p] \in Int /\ BL[p] \in Int /\ BH[p] \in Int
                          /\ BL[p] <= V[p] /\ V[p] <= BH[p]
  BY <1>1, <1>2
<1>6. Total(AL, x) = Total(W, x) + Total(RL, x) /\ Total(AH, x) = Total(W, x) + Total(RH, x)
  BY <1>1, <1>2, TotalSum
<1>7. Total(BL, x) = Total(AL, x) + Total(ML, x) /\ Total(BH, x) = Total(AH, x) + Total(MH, x)
  BY <1>1, <1>2, <1>5, TotalSum
<1>8. Total(BL, x) <= Total(V, x) /\ Total(V, x) <= Total(BH, x)
  BY <1>1, <1>5, TotalOrder
<1> QED
  BY <1>3, <1>4, <1>6, <1>7, <1>8 DEF Within

\* The score to come is the score and what is added at the weights of the comparison (comparison.py).
LEMMA AddedIs ==
    ASSUME NEW x, LegalEntry(x), NEW g, NEW h, StateOK(g), StateOK(h), Later(g, h), ~Unsettled(g, x),
           ~Conditional(g, x)
    PROVE  LET added == [p \in Players |->
                   IF Unfinished(g, p) THEN RemainingMultipliers(g, x)[p] * (h.points[p] - g.points[p])
                   ELSE 0]
           IN  /\ Total(added, x) \in Int /\ Score(g, x) \in Int
               /\ Score(h, x) = Score(g, x) + Total(added, x)
<1> DEFINE W == [p \in Players |-> Multipliers(g, x)[p] * g.points[p]]
           V == [p \in Players |-> Multipliers(h, x)[p] * h.points[p]]
           added == [p \in Players |->
                   IF Unfinished(g, p) THEN RemainingMultipliers(g, x)[p] * (h.points[p] - g.points[p])
                   ELSE 0]
<1>1. ~Pending(g, x)
  BY DEF Pending, Conditional, Appeared
<1>2. Multipliers(h, x) = Multipliers(g, x)
  BY <1>1, MultipliersKept
<1>3. RemainingMultipliers(g, x) = Multipliers(g, x)
  <2>1. ~(g.seen[x.captain] # "played" /\ Unfinished(g, x.captain)) /\ x.captain \in Players
    BY SquadFacts DEF Conditional
  <2> QED
    BY <2>1 DEF RemainingMultipliers, Multipliers
<1>4. ASSUME NEW p \in Squad(x)
      PROVE  W[p] \in Int /\ V[p] \in Int /\ added[p] \in Int /\ V[p] = W[p] + added[p]
  <2> DEFINE w == Multipliers(g, x)[p]
             a == g.points[p]
             b == h.points[p]
  <2>1. p \in Players /\ a \in Int /\ b \in Int /\ w \in 0..3
    BY SquadFacts, WeightsBounded DEF StateOK
  <2>2. /\ W[p] = w * a /\ V[p] = w * b
        /\ added[p] = IF Unfinished(g, p) THEN w * (b - a) ELSE 0
        /\ Unfinished(g, p) \/ b = a
    BY <1>2, <1>3, <2>1 DEF Later
  <2> HIDE DEF w, a, b, W, V, added
  <2>3. w * a \in Int /\ w * b \in Int /\ w * (b - a) \in Int /\ w * b = w * a + w * (b - a)
    <3>1. w = 0 \/ w = 1 \/ w = 2 \/ w = 3
      BY <2>1
    <3> QED
      BY <2>1, <3>1
  <2> QED
    BY <2>2, <2>3
<1>5. Score(h, x) = Total(V, x) - x.hit /\ Score(g, x) = Total(W, x) - x.hit
  BY DEF Score
<1> HIDE DEF W, V, added
<1>6. Total(V, x) = Total(W, x) + Total(added, x)
  BY <1>4, TotalSum
<1>7. Total(W, x) \in Int /\ Total(added, x) \in Int /\ x.hit \in Int
  BY <1>4, TotalInt DEF LegalEntry
<1>8. Total(added, x) \in Int /\ Score(g, x) \in Int /\ Score(h, x) = Score(g, x) + Total(added, x)
  BY <1>5, <1>6, <1>7
<1> QED
  BY <1>8 DEF added

\* A score is an integer.
LEMMA ScoreInt ==
    ASSUME NEW x, LegalEntry(x), NEW g, StateOK(g)
    PROVE  Score(g, x) \in Int
<1> DEFINE W == [p \in Players |-> Multipliers(g, x)[p] * g.points[p]]
<1>1. ASSUME NEW p \in Squad(x)
      PROVE  W[p] \in Int
  <2>1. p \in Players /\ g.points[p] \in Int /\ Multipliers(g, x)[p] \in 0..3
    BY SquadFacts, WeightsBounded DEF StateOK
  <2> QED
    BY <2>1
<1>2. Score(g, x) = Total(W, x) - x.hit
  BY DEF Score
<1> HIDE DEF W
<1> QED
  BY <1>1, <1>2, TotalInt DEF LegalEntry

-----------------------------------------------------------------------------
(* The Gameweek                                                            *)

\* The report says what the code says of its state, of which the present one is a later one.
HistoryInv ==
    /\ \A m \in Managers : lineup[m] \in Lineups[m]
    /\ StateOK(Now) /\ StateOK(report.state)
    /\ report = Analysis(report.state)
    /\ Later(report.state, Now)

\* Every manager has a legal entry.
LEMMA LegalLineup ==
    ASSUME HistoryInv, NEW m \in Managers
    PROVE  LegalEntry(lineup[m])
BY PickAssumption DEF HistoryInv

\* Nothing has happened at the moment of a report.
LEMMA NowLater ==
    ASSUME NEW g, StateOK(g)
    PROVE  Later(g, g)
BY EnvelopeAssumption DEF StateOK, Later

\* Initially the report is of this moment,
LEMMA HistoryInit == Init => HistoryInv
<1> SUFFICES ASSUME Init PROVE HistoryInv
  OBVIOUS
<1>1. StateOK(Now)
  BY StartAssumption DEF Init, Now, StateOK
<1>2. report.state = Now /\ report = Analysis(Now)
  BY DEF Init, Analysis
<1> QED
  BY <1>1, <1>2, NowLater DEF Init, HistoryInv

\* and every step keeps it a report of an earlier one.
LEMMA HistoryStep == HistoryInv /\ [Next]_vars => HistoryInv'
<1> SUFFICES ASSUME HistoryInv, [Next]_vars PROVE HistoryInv'
  OBVIOUS
<1>1. CASE Analyse
  <2>1. Now' = Now /\ lineup' = lineup /\ report' = Analysis(Now)
    BY <1>1 DEF Analyse, Now
  <2>2. report'.state = Now /\ Analysis(Now)' = Analysis(Now)
    BY <2>1 DEF Analysis
  <2> QED
    BY <2>1, <2>2, NowLater DEF HistoryInv
<1>2. ASSUME NEW p \in Players, NEW d \in Swings, Play(p, d) \/ Book(p, d)
      PROVE  HistoryInv'
  <2>1. UNCHANGED <<lineup, finished, report>> /\ Unfinished(Now, p) /\ Allowed(p, points[p] + d)
    BY <1>2 DEF Play, Book
  <2>2. /\ seen \in [Players -> Kinds] /\ points \in [Players -> Int] /\ d \in Int
        /\ \A q \in Players : seen[q] = "unseen" => points[q] = 0
    BY PlayerAssumption DEF HistoryInv, StateOK, Now
  <2>3. PICK k \in {"carded", "played"} :
            /\ seen' = [seen EXCEPT ![p] = k]
            /\ seen[p] = "played" => k = "played"
    BY <1>2 DEF Play, Book, Appeared, Now
  <2>4. points' = [points EXCEPT ![p] = @ + d]
    BY <1>2 DEF Play, Book
  <2>5. StateOK(Now')
    BY <2>2, <2>3, <2>4 DEF StateOK, Now, Kinds
  <2>6. Later(report.state, Now')
    <3>1. Later(report.state, Now)
      BY DEF HistoryInv
    <3>2. Unfinished(report.state, p)
      BY <2>1, <3>1, UnfinishedBefore
    <3>3. (points[p] + d) - report.state.points[p] \in Low..High
      BY <2>1 DEF Allowed
    <3>4. \A q \in Players \ {p} : seen'[q] = seen[q] /\ points'[q] = points[q]
      BY <2>2, <2>3, <2>4
    <3>5. seen'[p] = k /\ points'[p] = points[p] + d
      BY <2>2, <2>3, <2>4
    <3> DEFINE g == report.state
    <3> HIDE DEF g
    <3>6. Later(g, Now) /\ Unfinished(g, p) /\ (points[p] + d) - g.points[p] \in Low..High
      BY <3>1, <3>2, <3>3 DEF g
    <3>7. /\ Now.finished = finished /\ Now.seen = seen /\ Now.points = points
          /\ Now'.finished = finished /\ Now'.seen = seen' /\ Now'.points = points'
      BY <2>1 DEF Now
    <3>8. ASSUME NEW q \in Players
          PROVE  /\ Unfinished(g, q) \/ (seen'[q] = g.seen[q] /\ points'[q] = g.points[q])
                 /\ g.seen[q] = "played" => seen'[q] = "played"
                 /\ g.seen[q] # "unseen" => seen'[q] # "unseen"
                 /\ points'[q] - g.points[q] \in Low..High
      <4>1. /\ Unfinished(g, q) \/ (seen[q] = g.seen[q] /\ points[q] = g.points[q])
            /\ g.seen[q] = "played" => seen[q] = "played"
            /\ g.seen[q] # "unseen" => seen[q] # "unseen"
            /\ points[q] - g.points[q] \in Low..High
        BY <3>6, <3>7 DEF Later, Appeared
      <4>2. CASE q # p
        BY <3>4, <4>1, <4>2
      <4>3. CASE q = p
        BY <2>3, <3>5, <3>6, <4>1, <4>3
      <4> QED
        BY <4>2, <4>3
    <3>9. Later(g, Now')
      BY <3>6, <3>7, <3>8 DEF Later, Appeared
    <3> QED
      BY <3>9 DEF g
  <2>7. Analysis(report.state)' = Analysis(report.state)
    BY <2>1 DEF Analysis
  <2> QED
    BY <2>1, <2>5, <2>6, <2>7 DEF HistoryInv
<1>3. ASSUME NEW f \in Fixtures, Finish(f)
      PROVE  HistoryInv'
  <2>1. UNCHANGED <<lineup, seen, points, report>> /\ finished' = finished \cup {f}
    BY <1>3 DEF Finish
  <2>2. StateOK(Now') /\ Later(report.state, Now')
    BY <2>1 DEF HistoryInv, StateOK, Later, Now, Appeared
  <2>3. Analysis(report.state)' = Analysis(report.state)
    BY <2>1 DEF Analysis
  <2> QED
    BY <2>1, <2>2, <2>3 DEF HistoryInv
<1>4. CASE UNCHANGED vars
  <2>1. Analysis(report.state)' = Analysis(report.state) /\ Now' = Now
    BY <1>4 DEF vars, Analysis, Now
  <2> QED
    BY <1>4, <2>1 DEF vars, HistoryInv
<1> QED
  BY <1>1, <1>2, <1>3, <1>4 DEF Next

\* The bounds of a report enclose the scores of every later moment.
LEMMA BoundsFromHistory == HistoryInv => BoundsHold
<1> SUFFICES ASSUME HistoryInv, NEW m \in Managers \ report.unsettled
             PROVE  Within(ScoreNow(m), report.bounds[m])
  BY DEF BoundsHold
<1>1. LegalEntry(lineup[m])
  BY LegalLineup
<1>2. report.bounds[m] = Bounds(report.state, lineup[m]) /\ ~Unsettled(report.state, lineup[m])
  BY DEF HistoryInv, Analysis
<1> QED
  BY <1>1, <1>2, ScoreEnclosed DEF HistoryInv, ScoreNow

\* Somebody with a bound below a manager's ends behind him, so he is not last.
LEMMA SafeFromHistory == HistoryInv => SafeNeverLast
<1> SUFFICES ASSUME HistoryInv, report.unsettled = {}, NEW ties \in BOOLEAN,
                    NEW m \in Safe(report.bounds, ties),
                    m \in LastIds([k \in Managers |-> ScoreNow(k)], ties)
             PROVE  FALSE
  BY DEF SafeNeverLast
<1> DEFINE score == [k \in Managers |-> ScoreNow(k)]
           tied == {k \in Managers : \A o \in Managers : score[k] <= score[o]}
<1>1. PICK other \in Managers \ {m} :
          Below(report.bounds[other].upper, report.bounds[m].lower, ties)
  BY DEF Safe
<1>2. m \in Managers /\ m \in tied /\ (ties \/ Cardinality(tied) = 1)
  BY DEF LastIds, Safe
<1>3. \A k \in Managers : Within(score[k], report.bounds[k])
  BY BoundsFromHistory DEF BoundsHold
<1>4. \A k \in Managers : score[k] \in Int
  BY LegalLineup, ScoreInt DEF HistoryInv, ScoreNow
<1>5. \A k \in Managers : report.bounds[k].lower <= score[k] /\ score[k] <= report.bounds[k].upper
  BY <1>3, <1>4 DEF Within
<1>6. ASSUME NEW k \in Managers
      PROVE  report.bounds[k].lower \in Int /\ report.bounds[k].upper \in Int
  <2>1. report.bounds[k] = Bounds(report.state, lineup[k]) /\ ~Unsettled(report.state, lineup[k])
    BY DEF HistoryInv, Analysis
  <2> QED
    BY <2>1, LegalLineup, ScoreEnclosed DEF HistoryInv
<1>7. IF ties THEN score[other] < score[m] ELSE score[other] <= score[m]
  BY <1>1, <1>2, <1>4, <1>5, <1>6 DEF Below
<1>8. score[m] <= score[other]
  BY <1>2
<1>9. ~ties /\ score[m] = score[other]
  BY <1>2, <1>4, <1>7, <1>8
<1>10. other \in tied
  BY <1>2, <1>9
<1>11. IsFiniteSet(tied)
  BY PlayerAssumption, FS_Subset
<1>12. PICK k : tied = {k}
  <2> HIDE DEF tied
  <2> QED
    BY <1>2, <1>9, <1>11, FS_Singleton
<1> QED
  BY <1>1, <1>2, <1>10, <1>12

\* What both add at the weights shown decides who ends behind whom.
LEMMA ComparisonFromHistory == HistoryInv => ComparisonDecides
<1> SUFFICES ASSUME HistoryInv,
                    NEW a \in Managers \ (report.conditional \cup report.unsettled),
                    NEW b \in Managers \ (report.conditional \cup report.unsettled),
                    NEW ties \in BOOLEAN
             PROVE  (IF ties THEN ScoreNow(a) <= ScoreNow(b) ELSE ScoreNow(a) < ScoreNow(b))
                    <=> Added(b) - Added(a) >= Required(report.score[a] - report.score[b], ties)
  BY DEF ComparisonDecides
<1>1. ASSUME NEW m \in Managers \ (report.conditional \cup report.unsettled)
      PROVE  /\ Added(m) \in Int /\ report.score[m] \in Int
             /\ ScoreNow(m) = report.score[m] + Added(m)
  <2>1. /\ ~Conditional(report.state, lineup[m]) /\ ~Unsettled(report.state, lineup[m])
        /\ report.score[m] = Score(report.state, lineup[m])
        /\ report.weight[m] = RemainingMultipliers(report.state, lineup[m])
    BY DEF HistoryInv, Analysis
  <2>2. Now.points = points
    BY DEF Now
  <2> DEFINE g == report.state
             x == lineup[m]
             h == Now
  <2>3. LegalEntry(x) /\ StateOK(g) /\ StateOK(h) /\ Later(g, h)
    BY LegalLineup DEF HistoryInv
  <2>4. /\ Added(m) = Total([p \in Players |->
               IF Unfinished(g, p) THEN RemainingMultipliers(g, x)[p] * (h.points[p] - g.points[p])
               ELSE 0], x)
        /\ ScoreNow(m) = Score(h, x)
    BY <2>1, <2>2 DEF Added, ScoreNow
  <2>5. ~Conditional(g, x) /\ ~Unsettled(g, x) /\ report.score[m] = Score(g, x)
    BY <2>1
  <2> HIDE DEF g, x, h
  <2> QED
    BY <2>3, <2>4, <2>5, AddedIs
<1> QED
  BY <1>1 DEF Required

\* The search brings on whom the bench order brings on, and leaves a legal eleven.
LEMMA SubstitutesFromRule ==
    ASSUME NEW x, LegalEntry(x), NEW g, x.chip # "bboost"
    PROVE  /\ ValidFormation(Counted(g, x))
           /\ {p \in Counted(g, x) \ Starters(x) : Outfield(p)} = ByBenchOrder(g, x) \ Starters(x)
<1> DEFINE plan == SubstitutionPlan(g, x)
           first == CHOOSE p \in Starters(x) : ~Outfield(p)
           second == CHOOSE p \in Squad(x) \ Starters(x) : ~Outfield(p)
           keeper == Goalkeeper(g, x)
           eleven == Eleven(x, plan[1], plan[2])
           on == {Pick(x, i) : i \in plan[1]}
<1>1. PICK s, in : Stage(g, x, s, in, 15) /\ s.eleven = ByBenchOrder(g, x)
  BY LastStage
<1>2. plan \in Plans(g, x) /\ plan[1] = in
  BY <1>1, PlanIsGreedy
<1>3. plan[1] \in SUBSET Available(g, x) /\ plan[2] \in SUBSET Missing(g, x) /\ ValidFormation(eleven)
  BY <1>2 DEF Plans
<1>4. /\ first \in Starters(x) /\ ~Outfield(first)
      /\ second \in Squad(x) \ Starters(x) /\ ~Outfield(second)
  BY FirstGoalkeeper, SecondGoalkeeper
<1>5. keeper = first \/ keeper = second
  BY DEF Goalkeeper
<1>6. \A p \in on : p \notin Starters(x) /\ Outfield(p)
  BY <1>3, SlotFacts
<1>7. Counted(g, x) = {p \in eleven : Outfield(p)} \cup {keeper}
  BY DEF Counted
<1>8. eleven = (Starters(x) \ plan[2]) \cup on
  BY DEF Eleven
<1> HIDE DEF plan, first, second, keeper, eleven
<1>9. ~Outfield(keeper)
  BY <1>4, <1>5
<1>10. {p \in Counted(g, x) \ Starters(x) : Outfield(p)} = on
  <2> HIDE DEF on
  <2> QED
    BY <1>6, <1>7, <1>8, <1>9
<1>11. ByBenchOrder(g, x) \ Starters(x) = on
  <2>1. s.eleven = (Starters(x) \ (Missing(g, x) \ s.out)) \cup on
    BY <1>1, <1>2 DEF Stage, Eleven
  <2> HIDE DEF on
  <2> QED
    BY <1>1, <1>6, <2>1
<1>12. ValidFormation(Counted(g, x))
  <2>1. ASSUME NEW k \in Lines
        PROVE  Count(Counted(g, x), k) = Count(eleven, k)
    <3>1. {p \in Counted(g, x) : Position[p] = k} = {p \in eleven : Position[p] = k}
      BY <1>7, <1>9 DEF Lines, Outfield
    <3> QED
      BY <3>1 DEF Count
  <2>2. {p \in Counted(g, x) : Position[p] = "GK"} = {keeper}
    BY <1>7, <1>9 DEF Outfield
  <2>3. Count(Counted(g, x), "GK") = 1
    BY <2>2, FS_Singleton DEF Count
  <2> QED
    BY <1>3, <2>1, <2>3 DEF ValidFormation, Lines
<1> QED
  BY <1>10, <1>11, <1>12

-----------------------------------------------------------------------------
(* Theorems                                                                *)

\* A report says what the code says of a moment that is past, and what has happened since then is
\* possible: matches end, appearances stay, points stay within the envelope and change in open matches only.
THEOREM GameweekInvariant == Spec => []HistoryInv
  BY HistoryInit, HistoryStep, PTL DEF Spec

\* The search of substitutions.py (_outfield_substitution_plan), the most substitutions and of those
\* the earliest slots, brings on exactly whom the official rule brings on slot by slot, whatever
\* legal squad, formation and appearances, and leaves a legal eleven.
THEOREM SubstitutesFollowTheRule == Spec => []SubstitutesByBenchOrder
<1>1. HistoryInv => SubstitutesByBenchOrder
  BY LegalLineup, SubstitutesFromRule DEF SubstitutesByBenchOrder
<1> QED
  BY <1>1, GameweekInvariant, PTL

\* The bounds of safety.py (conservative_score_bounds) enclose every later score of every manager
\* about whom the code's test for pending starters is right, for any squads, fixtures and envelope.
THEOREM BoundsAlwaysHold == Spec => []BoundsHold
  BY GameweekInvariant, BoundsFromHistory, PTL

\* A manager called safe (safety.py: assess_safety) never finishes last, and what a comparison
\* requires (comparison.py: compare_managers) decides who finishes behind, with ties or without.
THEOREM VerdictsComeTrue == Spec => []VerdictsHold
<1>1. HistoryInv => VerdictsHold
  BY SafeFromHistory, ComparisonFromHistory DEF VerdictsHold
<1> QED
  BY <1>1, GameweekInvariant, PTL

-----------------------------------------------------------------------------
(* The lineup feed: its budget                                             *)

\* The count is of today or of an earlier day.  What the provider has seen
\* today, and what is counted and still to come, was counted today, except one
\* request that was counted before midnight.
BudgetInv ==
    /\ day \in Nat /\ countDay \in Nat /\ countDay <= day
    /\ calls \in Nat /\ calls <= Budget
    /\ arrived \in Nat /\ counted \in {0, 1}
    /\ arrived + counted <= UsedToday + 1

\* In the end the provider has seen the counted requests and one more.
LEMMA BudgetFromInv ==
    ASSUME BudgetInv
    PROVE  BudgetKept
BY BudgetAssumption DEF BudgetInv, BudgetKept, UsedToday

\* A match is left: a counted request that is not made any more is no debt.
LEMMA DoneKeeps ==
    ASSUME BudgetInv, Done, UNCHANGED <<day, countDay, calls, arrived>>
    PROVE  BudgetInv'
<1>1. counted' = 0 /\ day' = day /\ countDay' = countDay /\ calls' = calls /\ arrived' = arrived
  BY DEF Done
<1> QED
  BY <1>1 DEF BudgetInv, UsedToday

\* Every step of the feed keeps the budget.
LEMMA BudgetStep ==
    ASSUME BudgetInv, [FeedNext]_feedVars
    PROVE  BudgetInv'
<1> USE BudgetAssumption DEF BudgetInv, UsedToday
<1>1. ASSUME NEW j \in Jobs, Lock(j) PROVE BudgetInv'
  BY <1>1 DEF Lock
<1>2. ASSUME NEW j \in Jobs, NEW w \in Wanted, Enrich(j, w.games, w.started) PROVE BudgetInv'
  BY <1>2 DEF Enrich
<1>3. CASE LookUp
  <2>1. CASE Done
    BY <1>3, <2>1, DoneKeeps DEF LookUp
  <2>2. CASE UNCHANGED counted
    BY <1>3, <2>2 DEF LookUp
  <2> QED
    BY <1>3, <2>1, <2>2 DEF LookUp
<1>4. CASE Reserve
  BY <1>4 DEF Reserve, Affordable
<1>5. CASE Refuse
  <2>1. counted' = 0 /\ day' = day /\ arrived' = arrived /\ calls' = UsedToday /\ countDay' = day
    BY <1>5 DEF Refuse, Done
  <2> QED
    BY <2>1
<1>6. ASSUME NEW fails \in BOOLEAN, Ask(fails) PROVE BudgetInv'
  <2>1. counted = 1 /\ arrived' = arrived + 1 /\ UNCHANGED <<day, countDay, calls>>
    BY <1>6 DEF Ask
  <2>2. counted' = 0
    BY <1>6 DEF Ask, Done
  <2> QED
    BY <2>1, <2>2
<1>7. CASE Midnight
  BY <1>7 DEF Midnight
<1>8. ASSUME NEW g \in DOMAIN kept, Expire(g) PROVE BudgetInv'
  BY <1>8 DEF Expire
<1>9. CASE UNCHANGED feedVars
  BY <1>9 DEF feedVars
<1> QED
  BY <1>1, <1>2, <1>3, <1>4, <1>5, <1>6, <1>7, <1>8, <1>9 DEF FeedNext

\* "At most 90 requests/day per process" (LIVE_INTELLIGENCE.md:138), whatever the budget, the
\* jobs and the failures: one request more may reach the provider, counted the day before.
THEOREM BudgetNeverExceeded == FeedSpec => []BudgetKept
<1>1. FeedInit => BudgetInv
  BY BudgetAssumption DEF FeedInit, BudgetInv, UsedToday
<1>2. BudgetInv /\ [FeedNext]_feedVars => BudgetInv'
  BY BudgetStep
<1>3. BudgetInv => BudgetKept
  BY BudgetFromInv
<1> QED
  BY <1>1, <1>2, <1>3, PTL DEF FeedSpec

-----------------------------------------------------------------------------
(* The lineup feed: who is on the field                                    *)

\* Every set of numbers has a least one.
LEMMA LeastOf ==
    ASSUME NEW S \in SUBSET Nat, S # {}
    PROVE  \E n \in S : \A k \in S : n <= k
<1>1. PICK n \in S : \A k \in S : ~(<<k, n>> \in OpToRel(<, Nat))
  BY WFMin, NatLessThanWellFounded, Zenon
<1>2. ASSUME NEW k \in S PROVE n <= k
  <2>1. ~(k < n)
    BY <1>1 DEF OpToRel
  <2> QED
    BY <2>1
<1> QED
  BY <1>2

\* A minute of the first ninety is a number.
LEMMA MinuteIs ==
    ASSUME NEW t, t \in 0..90
    PROVE  t \in Int /\ t >= 0
OBVIOUS

\* A set of minutes has a last one.
LEMMA LastMinute ==
    ASSUME NEW S, S \subseteq -1..90, S # {}
    PROVE  Max(S) \in S /\ \A t \in S : t <= Max(S)
<1> DEFINE left == {90 - t : t \in S}
<1>1. left \in SUBSET Nat /\ left # {}
  <2>1. \A t \in S : 90 - t \in Nat
    OBVIOUS
  <2> QED
    BY <2>1
<1>2. PICK n \in left : \A k \in left : n <= k
  BY <1>1, LeastOf
<1>3. PICK t \in S : n = 90 - t
  OBVIOUS
<1>4. \A u \in S : u <= t
  <2> TAKE u \in S
  <2>1. 90 - u \in left
    OBVIOUS
  <2>2. 90 - t <= 90 - u
    BY <1>2, <1>3, <2>1
  <2>3. t \in Int /\ u \in Int
    OBVIOUS
  <2> HIDE DEF left
  <2> QED
    BY <2>2, <2>3
<1>5. \E u \in S : \A v \in S : u >= v
  BY <1>4
<1>6. Max(S) \in S /\ \A v \in S : Max(S) >= v
  BY <1>5 DEF Max
<1> QED
  BY <1>6

After(field, x) == IF Counts(x) THEN (field \ {Out(field, x)}) \cup {In(field, x)} ELSE field

\* The events of an answer are a sequence in the order of their minutes.
LEMMA ChangesAre ==
    ASSUME NEW a \in Answers
    PROVE  /\ Len(a.changes) \in Nat /\ DOMAIN a.changes = 1..Len(a.changes)
           /\ \A n \in 1..Len(a.changes) : a.changes[n].minute \in Int /\ DOMAIN a.changes[n].pair = {1, 2}
           /\ \A i, j \in 1..Len(a.changes) : i <= j => a.changes[i].minute <= a.changes[j].minute
<1>1. /\ a.changes \in Seq(Range(a.changes))
      /\ \A x \in Range(a.changes) : x.minute \in Int /\ DOMAIN x.pair = {1, 2}
      /\ \A i, j \in DOMAIN a.changes : i <= j => a.changes[i].minute <= a.changes[j].minute
  BY AnswerAssumption
<1>2. Len(a.changes) \in Nat /\ DOMAIN a.changes = 1..Len(a.changes)
  BY <1>1
<1>3. \A n \in DOMAIN a.changes : a.changes[n] \in Range(a.changes)
  BY DEF Range
<1> QED
  BY <1>1, <1>2, <1>3

\* The recursive definition is met: one event after the other.
LEMMA FieldIs ==
    ASSUME NEW a \in Answers
    PROVE  /\ FieldAfter(a)[0] = Starting(a)
           /\ \A n \in 1..Len(a.changes) : FieldAfter(a)[n] = After(FieldAfter(a)[n - 1], a.changes[n])
<1> DEFINE N == Len(a.changes)
           Sat(F, m) == F = [n \in 0..m |-> IF n = 0 THEN Starting(a) ELSE After(F[n - 1], a.changes[n])]
           bad == {m \in 0..N : ~ \E F : Sat(F, m)}
<1>1. N \in Nat
  BY ChangesAre
<1>2. \E F : Sat(F, N)
  <2> SUFFICES ASSUME bad # {} PROVE FALSE
    BY <1>1
  <2>1. PICK m \in bad : \A k \in bad : m <= k
    <3>1. bad \in SUBSET Nat
      BY <1>1
    <3> QED
      BY <3>1, LeastOf
  <2>2. m # 0
    <3> DEFINE F0 == [n \in 0..0 |-> Starting(a)]
    <3>1. Sat(F0, 0)
      OBVIOUS
    <3> HIDE DEF F0, Sat
    <3> QED
      BY <3>1
  <2>3. m - 1 \in 0..N /\ m - 1 \notin bad /\ m \in Nat
    <3> HIDE DEF Sat
    <3> QED
      BY <1>1, <2>1, <2>2
  <2>4. PICK F : Sat(F, m - 1)
    BY <2>3
  <2> DEFINE G == [n \in 0..m |-> IF n < m THEN F[n] ELSE After(F[m - 1], a.changes[m])]
  <2>5. Sat(G, m)
    <3>1. ASSUME NEW n \in 0..m
          PROVE  G[n] = IF n = 0 THEN Starting(a) ELSE After(G[n - 1], a.changes[n])
      <4>1. CASE n = m
        <5>1. m - 1 \in 0..m /\ m - 1 < m /\ ~(m < m)
          BY <2>2, <2>3
        <5>2. G[m - 1] = F[m - 1] /\ G[m] = After(F[m - 1], a.changes[m])
          BY <2>3, <5>1
        <5> QED
          BY <2>2, <4>1, <5>2
      <4>2. CASE n # m
        <5>1. n < m /\ n \in 0..(m - 1)
          BY <2>3, <4>2
        <5>2. G[n] = F[n]
          BY <5>1
        <5>3. F[n] = IF n = 0 THEN Starting(a) ELSE After(F[n - 1], a.changes[n])
          BY <2>4, <5>1
        <5>4. n # 0 => n - 1 \in 0..m /\ n - 1 < m
          BY <2>3, <5>1
        <5>5. n # 0 => G[n - 1] = F[n - 1]
          BY <5>4
        <5> QED
          BY <5>2, <5>3, <5>5
      <4> QED
        BY <4>1, <4>2
    <3> QED
      BY <3>1
  <2> HIDE DEF G, Sat
  <2> QED
    BY <2>1, <2>5
<1> DEFINE F == CHOOSE F : Sat(F, N)
<1>3. Sat(F, N)
  <2> HIDE DEF Sat
  <2> QED
    BY <1>2
<1>4. FieldAfter(a) = F
  BY DEF FieldAfter, After
<1> HIDE DEF F
<1>5. F[0] = Starting(a) /\ \A n \in 1..N : F[n] = After(F[n - 1], a.changes[n])
  BY <1>1, <1>3
<1> QED
  BY <1>4, <1>5

\* One of a team goes off and another of it comes on.
LEMMA ResolvedPair ==
    ASSUME NEW a, NEW field, NEW x, DOMAIN x.pair = {1, 2}, Resolves(a, field, x)
    PROVE  /\ Out(field, x) \in field /\ In(field, x) \notin field
           /\ \E t \in MatchTeams : {Out(field, x), In(field, x)} \subseteq NamedFor(a, t)
<1>1. PICK t \in MatchTeams : x.pair[1] \in NamedFor(a, t) /\ x.pair[2] \in NamedFor(a, t)
  BY DEF Resolves, Range
<1>2. (x.pair[1] \in field) # (x.pair[2] \in field)
  BY DEF Resolves
<1>3. CASE x.pair[1] \in field
  BY <1>1, <1>2, <1>3 DEF Out, In
<1>4. CASE x.pair[1] \notin field
  <2>1. x.pair[2] \in field
    BY <1>2, <1>4
  <2> QED
    BY <1>1, <1>4, <2>1 DEF Out, In
<1> QED
  BY <1>3, <1>4

\* One element for another leaves as many.
LEMMA Exchanged ==
    ASSUME NEW S, IsFiniteSet(S), NEW o \in S, NEW i, i \notin S
    PROVE  IsFiniteSet((S \ {o}) \cup {i}) /\ Cardinality((S \ {o}) \cup {i}) = Cardinality(S)
<1>1. IsFiniteSet(S \ {o}) /\ Cardinality(S \ {o}) = Cardinality(S) - 1
  BY FS_RemoveElement
<1>2. i \notin S \ {o}
  OBVIOUS
<1>3. IsFiniteSet((S \ {o}) \cup {i}) /\ Cardinality((S \ {o}) \cup {i}) = Cardinality(S \ {o}) + 1
  BY <1>1, <1>2, FS_AddElement
<1>4. Cardinality(S) \in Nat
  BY FS_CardinalityType
<1> QED
  BY <1>1, <1>3, <1>4

\* What the events before the n-th do not change.
AsListed(a, field) ==
    \A c \in MatchTeams :
        /\ IsFiniteSet(field \cap NamedFor(a, c))
        /\ Cardinality(field \cap NamedFor(a, c)) = LineupSize * Cardinality(EntriesOf(a, c))

\* Nobody is named for both teams.
LEMMA OneTeamEach ==
    ASSUME NEW a, CompleteLists(a), NEW c \in MatchTeams, NEW t \in MatchTeams, c # t
    PROVE  NamedFor(a, c) \cap NamedFor(a, t) = {}
<1> SUFFICES ASSUME NEW p, p \in NamedFor(a, c), p \in NamedFor(a, t)
             PROVE  FALSE
  OBVIOUS
<1>1. PICK i \in EntriesOf(a, c) : p \in Listed(a.entries[i])
  BY DEF NamedFor
<1>2. PICK j \in EntriesOf(a, t) : p \in Listed(a.entries[j])
  BY DEF NamedFor
<1>3. i # j /\ i \in DOMAIN a.entries /\ j \in DOMAIN a.entries
  BY DEF EntriesOf
<1> QED
  BY <1>1, <1>2, <1>3 DEF CompleteLists

\* An event leaves as many of each team, as one of the same team comes on for one who goes off.
LEMMA AsListedKept ==
    ASSUME NEW a, CompleteLists(a), NEW field, AsListed(a, field), NEW x, DOMAIN x.pair = {1, 2},
           Counts(x) => Resolves(a, field, x)
    PROVE  AsListed(a, After(field, x))
<1>1. CASE ~Counts(x)
  BY <1>1 DEF After
<1>2. CASE Counts(x)
  <2> DEFINE o == Out(field, x)
             i == In(field, x)
  <2>1. o \in field /\ i \notin field /\ \E t \in MatchTeams : {o, i} \subseteq NamedFor(a, t)
    BY <1>2, ResolvedPair
  <2>2. After(field, x) = (field \ {o}) \cup {i}
    BY <1>2 DEF After
  <2> HIDE DEF o, i
  <2>3. ASSUME NEW c \in MatchTeams
        PROVE  /\ IsFiniteSet(After(field, x) \cap NamedFor(a, c))
               /\ Cardinality(After(field, x) \cap NamedFor(a, c)) = LineupSize * Cardinality(EntriesOf(a, c))
    <3> DEFINE mine == field \cap NamedFor(a, c)
    <3>1. o \in NamedFor(a, c) <=> i \in NamedFor(a, c)
      BY <2>1, OneTeamEach
    <3>2. IsFiniteSet(mine) /\ Cardinality(mine) = LineupSize * Cardinality(EntriesOf(a, c))
      BY DEF AsListed
    <3>3. CASE o \in NamedFor(a, c)
      <4>1. /\ After(field, x) \cap NamedFor(a, c) = (mine \ {o}) \cup {i}
            /\ o \in mine /\ i \notin mine
        BY <2>1, <2>2, <3>1, <3>3
      <4> HIDE DEF mine
      <4>2. /\ IsFiniteSet((mine \ {o}) \cup {i})
            /\ Cardinality((mine \ {o}) \cup {i}) = Cardinality(mine)
        BY <3>2, <4>1, Exchanged
      <4> QED
        BY <3>2, <4>1, <4>2
    <3>4. CASE o \notin NamedFor(a, c)
      <4>1. After(field, x) \cap NamedFor(a, c) = mine
        BY <2>2, <3>1, <3>4
      <4> QED
        BY <3>2, <4>1
    <3> QED
      BY <3>3, <3>4
  <2> QED
    BY <2>3 DEF AsListed
<1> QED
  BY <1>1, <1>2

\* The entries of an answer are a sequence of sets.
LEMMA EntriesAre ==
    ASSUME NEW a \in Answers
    PROVE  /\ Len(a.entries) \in Nat /\ DOMAIN a.entries = 1..Len(a.entries)
           /\ \A i \in 1..Len(a.entries) : a.entries[i] \in Range(a.entries) /\ IsFiniteSet(a.entries[i].first)
<1>1. a.entries \in Seq(Range(a.entries)) /\ \A e \in Range(a.entries) : IsFiniteSet(e.first)
  BY AnswerAssumption
<1>2. Len(a.entries) \in Nat /\ DOMAIN a.entries = 1..Len(a.entries)
  BY <1>1
<1>3. \A i \in DOMAIN a.entries : a.entries[i] \in Range(a.entries)
  BY DEF Range
<1> QED
  BY <1>1, <1>2, <1>3

\* One more of as many.
LEMMA OneEntryMore ==
    ASSUME NEW n \in Nat, NEW k \in Nat
    PROVE  n * (k + 1) = n * k + n
OBVIOUS

\* Those the first m entries of a team name to start are as many as there are such entries, times eleven.
LEMMA CountedByEntry ==
    ASSUME NEW a \in Answers, CompleteLists(a), NEW c \in MatchTeams, NEW m \in 0..Len(a.entries)
    PROVE  LET some == {i \in 1..m : a.entries[i].team = c}
               all == UNION {a.entries[i].first : i \in some}
           IN  /\ IsFiniteSet(some) /\ IsFiniteSet(all)
               /\ Cardinality(all) = LineupSize * Cardinality(some)
<1> DEFINE N == Len(a.entries)
           Some(n) == {i \in 1..n : a.entries[i].team = c}
           All(n) == UNION {a.entries[i].first : i \in Some(n)}
           Good(n) == /\ IsFiniteSet(Some(n)) /\ IsFiniteSet(All(n))
                      /\ Cardinality(All(n)) = LineupSize * Cardinality(Some(n))
           bad == {n \in 0..N : ~Good(n)}
<1>1. N \in Nat /\ DOMAIN a.entries = 1..N
  BY EntriesAre
<1>2. Good(0)
  <2>1. Some(0) = {} /\ All(0) = {}
    OBVIOUS
  <2>2. LineupSize * 0 = 0
    BY BudgetAssumption
  <2> QED
    BY <2>1, <2>2, FS_EmptySet
<1>3. ASSUME NEW n \in 1..N, Good(n - 1)
      PROVE  Good(n)
  <2> DEFINE old == All(n - 1)
             new == a.entries[n].first
  <2>1. \A i \in 1..n : i \in 1..(n - 1) \/ i = n
    BY <1>1
  <2>2. n \in 1..n /\ n \notin 1..(n - 1) /\ \A i \in 1..(n - 1) : i \in 1..n /\ i \in 1..N
    BY <1>1
  <2>3. CASE a.entries[n].team # c
    <3>1. Some(n) = Some(n - 1)
      BY <2>1, <2>2, <2>3
    <3> QED
      BY <1>3, <3>1
  <2>4. CASE a.entries[n].team = c
    <3>1. Some(n) = Some(n - 1) \cup {n} /\ n \notin Some(n - 1)
      BY <2>1, <2>2, <2>4
    <3>2. All(n) = old \cup new
      BY <3>1
    <3>3. IsFiniteSet(new) /\ Cardinality(new) = LineupSize
      BY EntriesAre DEF CompleteLists
    <3>4. old \cap new = {}
      <4> SUFFICES ASSUME NEW p, p \in old, p \in new PROVE FALSE
        OBVIOUS
      <4>1. PICK i \in Some(n - 1) : p \in a.entries[i].first
        OBVIOUS
      <4>2. i # n /\ i \in DOMAIN a.entries /\ n \in DOMAIN a.entries
        BY <1>1, <2>2
      <4>3. p \in Listed(a.entries[i]) /\ p \in Listed(a.entries[n])
        BY <4>1 DEF Listed
      <4> QED
        BY <4>2, <4>3 DEF CompleteLists
    <3> HIDE DEF new, Some, All
    <3>5. IsFiniteSet(Some(n)) /\ Cardinality(Some(n)) = Cardinality(Some(n - 1)) + 1
      BY <1>3, <3>1, FS_AddElement
    <3>6. /\ IsFiniteSet(All(n))
          /\ Cardinality(All(n)) = Cardinality(old) + LineupSize - 0
      <4>1. Cardinality(old \cap new) = 0
        BY <3>4, FS_EmptySet
      <4>2. IsFiniteSet(All(n - 1))
        BY <1>3 DEF Good
      <4> HIDE DEF Good
      <4> QED
        BY <3>2, <3>3, <4>1, <4>2, FS_Union
    <3>7. Cardinality(Some(n - 1)) \in Nat /\ LineupSize \in Nat
      BY <1>3, BudgetAssumption, FS_CardinalityType
    <3>8. LineupSize * (Cardinality(Some(n - 1)) + 1) = LineupSize * Cardinality(Some(n - 1)) + LineupSize
      BY <3>7, OneEntryMore
    <3>9. Cardinality(old) = LineupSize * Cardinality(Some(n - 1)) /\ Cardinality(old) \in Nat
      BY <1>3, FS_CardinalityType
    <3> QED
      BY <3>5, <3>6, <3>7, <3>8, <3>9
  <2> QED
    BY <2>3, <2>4
<1> HIDE DEF Good
<1>4. bad = {}
  <2> SUFFICES ASSUME bad # {} PROVE FALSE
    OBVIOUS
  <2>1. bad \in SUBSET Nat
    BY <1>1
  <2>2. PICK n \in bad : \A k \in bad : n <= k
    BY <2>1, LeastOf
  <2>3. n # 0
    BY <1>2, <2>2
  <2>4. n \in 1..N /\ n - 1 \in 0..N /\ n - 1 \notin bad
    BY <1>1, <2>2, <2>3
  <2> QED
    BY <1>3, <2>2, <2>4
<1> QED
  BY <1>4 DEF Good

\* At kickoff there are as many of a team as its entries list starters.
LEMMA AsListedAtKickoff ==
    ASSUME NEW a \in Answers, CompleteLists(a)
    PROVE  AsListed(a, Starting(a))
<1> SUFFICES ASSUME NEW c \in MatchTeams
             PROVE  /\ IsFiniteSet(Starting(a) \cap NamedFor(a, c))
                    /\ Cardinality(Starting(a) \cap NamedFor(a, c)) = LineupSize * Cardinality(EntriesOf(a, c))
  BY DEF AsListed
<1> DEFINE all == UNION {a.entries[i].first : i \in EntriesOf(a, c)}
<1>1. EntriesOf(a, c) = {i \in 1..Len(a.entries) : a.entries[i].team = c} /\ Len(a.entries) \in 0..Len(a.entries)
  BY EntriesAre DEF EntriesOf
<1>2. IsFiniteSet(all) /\ Cardinality(all) = LineupSize * Cardinality(EntriesOf(a, c))
  BY <1>1, CountedByEntry
<1>3. Starting(a) \cap NamedFor(a, c) = all
  <2>1. ASSUME NEW p, p \in all PROVE p \in Starting(a) /\ p \in NamedFor(a, c)
    <3>1. PICK i \in EntriesOf(a, c) : p \in a.entries[i].first
      BY <2>1
    <3>2. a.entries[i] \in Range(a.entries) /\ p \in Listed(a.entries[i])
      BY <3>1, EntriesAre DEF EntriesOf, Listed
    <3> QED
      BY <3>1, <3>2 DEF Starting, NamedFor
  <2>2. ASSUME NEW p, p \in Starting(a), p \in NamedFor(a, c) PROVE p \in all
    <3>1. PICK j \in DOMAIN a.entries : p \in a.entries[j].first
      BY <2>2 DEF Starting, Range
    <3>2. PICK i \in EntriesOf(a, c) : p \in Listed(a.entries[i])
      BY <2>2 DEF NamedFor
    <3>3. p \in Listed(a.entries[j]) /\ i \in DOMAIN a.entries
      BY <3>1 DEF Listed, EntriesOf
    <3>4. i = j
      BY <3>2, <3>3 DEF CompleteLists
    <3> QED
      BY <3>1, <3>2, <3>4
  <2> HIDE DEF all
  <2> QED
    BY <2>1, <2>2
<1> QED
  BY <1>2, <1>3

\* The minutes at which the first n events took p off and on; -1 for never.
OffBy(a, p, n) == {-1} \cup {a.changes[k].minute : k \in {k \in WentOff(a, p) : k <= n}}
OnBy(a, p, n) ==
    {IF p \in Starting(a) THEN 0 ELSE -1} \cup {a.changes[k].minute : k \in {k \in CameOn(a, p) : k <= n}}

\* Who is on the field came on last, who is not went off last or never came.
LastThing(a, p, n) ==
    /\ p \in FieldAfter(a)[n] => \E t \in OnBy(a, p, n) : t >= 0 /\ \A u \in OffBy(a, p, n) : u <= t
    /\ p \notin FieldAfter(a)[n] => \E t \in OffBy(a, p, n) : \A u \in OnBy(a, p, n) : u <= t

\* An event adds its minute, the latest so far, for the one who goes off and the one who comes on.
LEMMA MinutesGrow ==
    ASSUME NEW a \in Answers, NEW p, NEW n \in 1..Len(a.changes)
    PROVE  LET x == a.changes[n]
               before == FieldAfter(a)[n - 1]
           IN  /\ OffBy(a, p, n) = OffBy(a, p, n - 1) \cup
                    (IF Counts(x) /\ Out(before, x) = p THEN {x.minute} ELSE {})
               /\ OnBy(a, p, n) = OnBy(a, p, n - 1) \cup
                    (IF Counts(x) /\ In(before, x) = p THEN {x.minute} ELSE {})
               /\ \A t \in OffBy(a, p, n - 1) \cup OnBy(a, p, n - 1) :
                     t \in -1..90 /\ (Counts(x) => t <= x.minute)
<1> DEFINE N == Len(a.changes)
<1>1. N \in Nat /\ DOMAIN a.changes = 1..N
  BY ChangesAre
<1>2. \A k \in 1..N : (k <= n <=> k <= n - 1 \/ k = n)
  BY <1>1
<1>3. Made(a) = {k \in 1..N : Counts(a.changes[k])}
  BY <1>1 DEF Made
<1>4. n \in 1..N /\ ~(n <= n - 1)
  BY <1>1
<1> DEFINE OffAt(k) == Counts(a.changes[k]) /\ Out(FieldAfter(a)[k - 1], a.changes[k]) = p
           OnAt(k) == Counts(a.changes[k]) /\ In(FieldAfter(a)[k - 1], a.changes[k]) = p
           start == IF p \in Starting(a) THEN 0 ELSE -1
<1>5. \A m : /\ OffBy(a, p, m) = {-1} \cup {a.changes[k].minute : k \in {k \in 1..N : k <= m /\ OffAt(k)}}
             /\ OnBy(a, p, m) = {start} \cup {a.changes[k].minute : k \in {k \in 1..N : k <= m /\ OnAt(k)}}
  BY <1>3 DEF OffBy, OnBy, WentOff, CameOn
<1>6. ASSUME NEW k \in 1..N, k <= n - 1, Counts(a.changes[k])
      PROVE  /\ a.changes[k].minute \in -1..90
             /\ Counts(a.changes[n]) => a.changes[k].minute <= a.changes[n].minute
  <2>1. k <= n
    BY <1>1, <1>6
  <2>2. a.changes[k].minute <= a.changes[n].minute
    BY <1>4, <2>1, ChangesAre
  <2>3. a.changes[k].minute \in 0..90
    BY <1>6 DEF Counts
  <2> QED
    BY <2>2, <2>3
<1>7. start \in -1..90 /\ (Counts(a.changes[n]) => start <= a.changes[n].minute /\ -1 <= a.changes[n].minute)
  <2> DEFINE t == a.changes[n].minute
  <2>1. Counts(a.changes[n]) => t \in 0..90
    BY DEF Counts
  <2> HIDE DEF t
  <2>2. ASSUME Counts(a.changes[n]) PROVE 0 <= t /\ -1 <= t
    <3>1. t \in 0..90
      BY <2>1, <2>2
    <3> QED
      BY <3>1
  <2>3. start = 0 \/ start = -1
    OBVIOUS
  <2> HIDE DEF start
  <2>4. start \in -1..90
    BY <2>3
  <2> QED
    BY <2>2, <2>3, <2>4 DEF t
<1> QED
  <2> HIDE DEF start
  <2>1. OffBy(a, p, n) = OffBy(a, p, n - 1) \cup (IF OffAt(n) THEN {a.changes[n].minute} ELSE {})
    <3> HIDE DEF OffAt
    <3> QED
      BY <1>2, <1>4, <1>5
  <2>2. OnBy(a, p, n) = OnBy(a, p, n - 1) \cup (IF OnAt(n) THEN {a.changes[n].minute} ELSE {})
    <3> HIDE DEF OnAt
    <3> QED
      BY <1>2, <1>4, <1>5
  <2> DEFINE Fits(t) == t \in -1..90 /\ (Counts(a.changes[n]) => t <= a.changes[n].minute)
  <2>5. Fits(start) /\ Fits(-1)
    BY <1>7
  <2>6. ASSUME NEW k \in 1..N, k <= n - 1, Counts(a.changes[k])
        PROVE  Fits(a.changes[k].minute)
    BY <1>6, <2>6
  <2> HIDE DEF Fits
  <2>3. \A t \in OffBy(a, p, n - 1) : Fits(t)
    BY <1>5, <2>5, <2>6
  <2>4. \A t \in OnBy(a, p, n - 1) : Fits(t)
    BY <1>5, <2>5, <2>6
  <2> USE DEF Fits
  <2> QED
    BY <2>1, <2>2, <2>3, <2>4

\* Minutes are of the first ninety, or the -1 of never.
LEMMA MinutesAre ==
    ASSUME NEW a, NEW p, NEW n
    PROVE  /\ OffBy(a, p, n) \subseteq -1..90 /\ OffBy(a, p, n) # {}
           /\ OnBy(a, p, n) \subseteq -1..90 /\ OnBy(a, p, n) # {}
<1>1. \A k \in Made(a) : a.changes[k].minute \in -1..90
  <2>1. \A k \in Made(a) : a.changes[k].minute \in 0..90
    BY DEF Made, Counts
  <2>2. \A t \in 0..90 : t \in -1..90
    OBVIOUS
  <2> QED
    BY <2>1, <2>2
<1>2. -1 \in -1..90 /\ 0 \in -1..90
  OBVIOUS
<1> QED
  BY <1>1, <1>2 DEF OffBy, OnBy, WentOff, CameOn

\* At kickoff the starters are on the field.
LEMMA LastThingFirst ==
    ASSUME NEW a \in Answers, NEW p
    PROVE  LastThing(a, p, 0)
<1>1. p \in FieldAfter(a)[0] <=> p \in Starting(a)
  BY FieldIs
<1>2. \A k \in Made(a) : ~(k <= 0)
  BY ChangesAre DEF Made
<1>3. OffBy(a, p, 0) = {-1} /\ OnBy(a, p, 0) = {IF p \in Starting(a) THEN 0 ELSE -1}
  BY <1>2 DEF OffBy, OnBy, WentOff, CameOn
<1> QED
  BY <1>1, <1>3 DEF LastThing

\* And each event is the last thing that happened to the two of it.
LEMMA LastThingNext ==
    ASSUME NEW a \in Answers, NEW p, NEW n \in 1..Len(a.changes), LastThing(a, p, n - 1),
           Counts(a.changes[n]) => Resolves(a, FieldAfter(a)[n - 1], a.changes[n])
    PROVE  LastThing(a, p, n)
<1> DEFINE x == a.changes[n]
           f == FieldAfter(a)[n - 1]
           o == Out(f, x)
           i == In(f, x)
           off == OffBy(a, p, n - 1)
           on == OnBy(a, p, n - 1)
<1>1. /\ OffBy(a, p, n) = off \cup (IF Counts(x) /\ o = p THEN {x.minute} ELSE {})
      /\ OnBy(a, p, n) = on \cup (IF Counts(x) /\ i = p THEN {x.minute} ELSE {})
      /\ \A t \in off \cup on : t \in -1..90 /\ (Counts(x) => t <= x.minute)
  BY MinutesGrow
<1>2. FieldAfter(a)[n] = IF Counts(x) THEN (f \ {o}) \cup {i} ELSE f
  BY FieldIs DEF After
<1>3. Counts(x) => o \in f /\ i \notin f
  <2>1. DOMAIN x.pair = {1, 2}
    BY ChangesAre
  <2> QED
    BY <2>1, ResolvedPair
<1>4. ASSUME Counts(x) PROVE x.minute \in Int /\ x.minute >= 0
  <2> DEFINE t == x.minute
  <2>1. t \in 0..90
    BY <1>4 DEF Counts
  <2> HIDE DEF t
  <2>2. t \in Int /\ t >= 0
    BY <2>1, MinuteIs
  <2> QED
    BY <2>2 DEF t
<1>5. /\ p \in f => \E t \in on : t >= 0 /\ \A u \in off : u <= t
      /\ p \notin f => \E t \in off : \A u \in on : u <= t
  BY DEF LastThing
<1> HIDE DEF x, f, o, i, off, on
<1>6. CASE Counts(x) /\ o = p
  <2>1. /\ p \notin FieldAfter(a)[n] /\ OnBy(a, p, n) = on /\ x.minute \in OffBy(a, p, n)
        /\ \A u \in on : u <= x.minute
    BY <1>1, <1>2, <1>3, <1>6
  <2> QED
    BY <2>1 DEF LastThing
<1>7. CASE Counts(x) /\ i = p
  <2>1. /\ p \in FieldAfter(a)[n] /\ OffBy(a, p, n) = off /\ x.minute \in OnBy(a, p, n)
        /\ x.minute >= 0 /\ \A u \in off : u <= x.minute
    BY <1>1, <1>2, <1>3, <1>4, <1>7
  <2> QED
    BY <2>1 DEF LastThing
<1>8. CASE ~(Counts(x) /\ (o = p \/ i = p))
  <2>1. /\ p \in FieldAfter(a)[n] <=> p \in f
        /\ OffBy(a, p, n) = off /\ OnBy(a, p, n) = on
    BY <1>1, <1>2, <1>8
  <2> QED
    BY <1>5, <2>1 DEF LastThing
<1> QED
  BY <1>6, <1>7, <1>8

\* Of an accepted answer, after any number of its events.
LEMMA FieldHistory ==
    ASSUME NEW a \in Answers, Accepted(a), NEW m \in 0..Len(a.changes)
    PROVE  AsListed(a, FieldAfter(a)[m]) /\ \A p \in Participants(a) : LastThing(a, p, m)
<1> DEFINE N == Len(a.changes)
           Good(n) == AsListed(a, FieldAfter(a)[n]) /\ \A p \in Participants(a) : LastThing(a, p, n)
           bad == {n \in 0..N : ~Good(n)}
<1>1. N \in Nat /\ DOMAIN a.changes = 1..N
  BY ChangesAre
<1>2. CompleteLists(a) /\ \A n \in Made(a) : Resolves(a, FieldAfter(a)[n - 1], a.changes[n])
  BY DEF Accepted
<1>3. Good(0)
  BY <1>2, AsListedAtKickoff, LastThingFirst, FieldIs
<1>4. ASSUME NEW n \in 1..N, Good(n - 1)
      PROVE  Good(n)
  <2>1. Counts(a.changes[n]) => Resolves(a, FieldAfter(a)[n - 1], a.changes[n])
    BY <1>1, <1>2 DEF Made
  <2>2. \A p \in Participants(a) : LastThing(a, p, n)
    BY <1>4, <2>1, LastThingNext
  <2>3. DOMAIN a.changes[n].pair = {1, 2}
    BY ChangesAre
  <2>4. FieldAfter(a)[n] = After(FieldAfter(a)[n - 1], a.changes[n])
    BY FieldIs
  <2>5. AsListed(a, FieldAfter(a)[n])
    BY <1>2, <1>4, <2>1, <2>3, <2>4, AsListedKept
  <2> QED
    BY <2>2, <2>5
<1> HIDE DEF Good
<1>5. bad = {}
  <2> SUFFICES ASSUME bad # {} PROVE FALSE
    OBVIOUS
  <2>1. bad \in SUBSET Nat
    BY <1>1
  <2>2. PICK n \in bad : \A k \in bad : n <= k
    BY <2>1, LeastOf
  <2>3. n # 0
    BY <1>3, <2>2
  <2>4. n \in 1..N /\ n - 1 \in 0..N /\ n - 1 \notin bad
    BY <1>1, <2>2, <2>3
  <2> QED
    BY <1>4, <2>2, <2>4
<1> QED
  BY <1>5 DEF Good

\* In the end as many of each team are there, those whose last minute is the one they came on.
LEMMA AcceptedAddsUp ==
    ASSUME NEW a \in Answers, Accepted(a)
    PROVE  LET field == FieldAfter(a)[Len(a.changes)]
           IN  /\ \A c \in MatchTeams :
                     Cardinality(field \cap NamedFor(a, c)) = LineupSize * Cardinality(EntriesOf(a, c))
               /\ \A p \in Participants(a) :
                     OnMinute(a, p) # OffMinute(a, p) \/ OnMinute(a, p) = -1
                     => (p \in field <=> OnMinute(a, p) > OffMinute(a, p))
<1> DEFINE N == Len(a.changes)
           field == FieldAfter(a)[N]
<1>1. N \in 0..N /\ DOMAIN a.changes = 1..N /\ N \in Nat
  BY ChangesAre
<1>2. AsListed(a, field) /\ \A p \in Participants(a) : LastThing(a, p, N)
  BY <1>1, FieldHistory
<1>3. ASSUME NEW p \in Participants(a)
      PROVE  OnMinute(a, p) # OffMinute(a, p) \/ OnMinute(a, p) = -1
             => (p \in field <=> OnMinute(a, p) > OffMinute(a, p))
  <2> DEFINE on == Max(OnBy(a, p, N))
             off == Max(OffBy(a, p, N))
  <2>1. OnMinute(a, p) = on /\ OffMinute(a, p) = off
    <3>1. \A k \in WentOff(a, p) \cup CameOn(a, p) : k <= N
      BY <1>1 DEF Made, WentOff, CameOn
    <3>2. /\ {k \in WentOff(a, p) : k <= N} = WentOff(a, p)
          /\ {k \in CameOn(a, p) : k <= N} = CameOn(a, p)
      BY <3>1
    <3>3. /\ OnBy(a, p, N) = {IF p \in Starting(a) THEN 0 ELSE -1} \cup {a.changes[k].minute : k \in CameOn(a, p)}
          /\ OffBy(a, p, N) = {-1} \cup {a.changes[k].minute : k \in WentOff(a, p)}
      BY <3>2 DEF OnBy, OffBy
    <3> QED
      BY <3>3 DEF OnMinute, OffMinute
  <2>2. /\ on \in OnBy(a, p, N) /\ \A t \in OnBy(a, p, N) : t <= on
        /\ off \in OffBy(a, p, N) /\ \A t \in OffBy(a, p, N) : t <= off
    BY MinutesAre, LastMinute
  <2>3. OnBy(a, p, N) \subseteq -1..90 /\ OffBy(a, p, N) \subseteq -1..90
    BY MinutesAre
  <2> HIDE DEF on, off
  <2>4. /\ p \in field => \E t \in OnBy(a, p, N) : t >= 0 /\ \A u \in OffBy(a, p, N) : u <= t
        /\ p \notin field => \E t \in OffBy(a, p, N) : \A u \in OnBy(a, p, N) : u <= t
    BY <1>2 DEF LastThing
  <2> HIDE DEF field, N
  <2>5. on \in Int /\ off \in Int
    BY <2>2, <2>3
  <2>6. ASSUME p \in field PROVE on >= 0 /\ off <= on
    <3>1. PICK t \in OnBy(a, p, N) : t >= 0 /\ \A u \in OffBy(a, p, N) : u <= t
      BY <2>4, <2>6
    <3>2. t \in Int /\ t <= on /\ off <= t
      BY <2>2, <2>3, <3>1
    <3> QED
      BY <2>5, <3>1, <3>2
  <2>7. ASSUME p \notin field PROVE on <= off
    <3>1. PICK t \in OffBy(a, p, N) : \A u \in OnBy(a, p, N) : u <= t
      BY <2>4, <2>7
    <3>2. t \in Int /\ t <= off /\ on <= t
      BY <2>2, <2>3, <3>1
    <3> QED
      BY <2>5, <3>2
  <2> QED
    BY <2>1, <2>5, <2>6, <2>7
<1>4. \A c \in MatchTeams : Cardinality(field \cap NamedFor(a, c)) = LineupSize * Cardinality(EntriesOf(a, c))
  BY <1>2 DEF AsListed
<1> QED
  BY <1>3, <1>4

\* What is kept is an answer.
KeptInv == \A g \in DOMAIN kept : kept[g] \in Answers

\* Only answers are kept.
LEMMA KeptStep ==
    ASSUME KeptInv, [FeedNext]_feedVars
    PROVE  KeptInv'
<1>1. CASE kept' = kept
  BY <1>1 DEF KeptInv
<1>2. ASSUME NEW a \in Answers, kept' = [g \in DOMAIN kept \cup {Game} |-> IF g = Game THEN a ELSE kept[g]]
      PROVE  KeptInv'
  BY <1>2 DEF KeptInv
<1>3. ASSUME NEW g \in DOMAIN kept, Expire(g)
      PROVE  KeptInv'
  BY <1>3 DEF KeptInv, Expire
<1>4. ASSUME NEW fails \in BOOLEAN, Ask(fails)
      PROVE  KeptInv'
  BY <1>1, <1>2, <1>4 DEF Ask
<1>5. CASE LookUp \/ Reserve \/ Refuse \/ Midnight
  BY <1>1, <1>5 DEF LookUp, Reserve, Refuse, Midnight
<1>6. ASSUME NEW j \in Jobs, Lock(j) \/ \E w \in Wanted : Enrich(j, w.games, w.started)
      PROVE  KeptInv'
  BY <1>1, <1>6 DEF Lock, Enrich
<1>7. CASE UNCHANGED feedVars
  BY <1>1, <1>7 DEF feedVars
<1> QED
  BY <1>3, <1>4, <1>5, <1>6, <1>7 DEF FeedNext

\* However many entries an accepted lineup has, of whichever of the two teams, its substitutions
\* leave as many of a team on the field as it lists starters of it, and the minutes it confirms of
\* a player say whether he is among them (lineups.py: normalise_lineups), whatever the answers.
THEOREM LineupsAddUp == FeedSpec => []OnFieldAsListed
<1>1. FeedInit => KeptInv
  BY DEF FeedInit, KeptInv
<1>2. KeptInv /\ [FeedNext]_feedVars => KeptInv'
  BY KeptStep
<1>3. KeptInv => OnFieldAsListed
  <2> SUFFICES ASSUME KeptInv, NEW g \in DOMAIN kept, Accepted(kept[g])
               PROVE  LET a == kept[g]
                          field == FieldAfter(a)[Len(a.changes)]
                          told == Appearances(a)
                      IN  /\ \A t \in MatchTeams :
                                Cardinality(field \cap NamedFor(a, t)) = LineupSize * Cardinality(EntriesOf(a, t))
                          /\ \A p \in DOMAIN told :
                                told[p].on # told[p].off \/ told[p].on = -1
                                => (p \in field <=> told[p].on > told[p].off)
    BY DEF OnFieldAsListed
  <2>1. kept[g] \in Answers
    BY DEF KeptInv
  <2> QED
    BY <2>1, AcceptedAddsUp DEF Appearances
<1> QED
  BY <1>1, <1>2, <1>3, PTL DEF FeedSpec

-----------------------------------------------------------------------------
(* A snapshot, which is many requests                                      *)

PlayedOut(f) == stage[f] = "over"

\* What holds of FPL: only the matches of Gameweeks under way are played, and
\* results are processed when all are over.
WorldInv ==
    /\ stage \in [Matches -> {"ahead", "live", "over"}]
    /\ did \in [Snapshot!Pairs -> {"unseen", "on", "carded", "booked"}]
    /\ processed \subseteq Gameweeks
    /\ current \in Gameweeks \cup {0}
    /\ current = 0 => processed = {}
    /\ \A g \in processed : \A f \in MatchesIn[g] : PlayedOut(f)
    /\ table \in Seq(Range(Entries))
    /\ cap \in Caps

\* Which Gameweek is read, and that one called official was processed before.
OfficialInv ==
    /\ at \in 1..6 /\ turn \in Nat \ {0}
    /\ DOMAIN got = DOMAIN Snapshot!Nothing
    /\ at = 1 => got = Snapshot!Nothing /\ turn = 1
    /\ at > 1 => got.gameweek \in Gameweeks
    /\ got.historical \/ got.final => got.gameweek \in processed

\* A limited league is on its first page, or was read from one table.
LeagueInv ==
    /\ got.standings \in Seq(Range(Entries))
    /\ cap # Unlimited /\ at = 2 => got.standings = <<>> /\ turn = 1
    /\ cap # Unlimited /\ at > 2 => got.standings \in got.tables

\* The picks of the rows before this one, processed if the Gameweek is official.
PicksInv ==
    /\ at < 3 => got.picks = <<>>
    /\ at = 3 => turn \in DOMAIN got.standings
                 /\ \A i \in DOMAIN got.standings : i < turn => got.standings[i] \in DOMAIN got.picks
    /\ at > 3 => \A i \in DOMAIN got.standings : got.standings[i] \in DOMAIN got.picks
    /\ got.historical \/ got.final => \A m \in DOMAIN got.picks : got.picks[m] = TRUE

\* Matches read as over are, and all are if the Gameweek is official.
FixturesInv ==
    at > 4 =>
        /\ DOMAIN got.fixtures = MatchesIn[got.gameweek]
        /\ \A f \in MatchesIn[got.gameweek] : got.fixtures[f] = "over" => PlayedOut(f)
        /\ got.historical \/ got.final => \A f \in MatchesIn[got.gameweek] : got.fixtures[f] = "over"

\* The season kept and the one read are of all matches; the one read has the
\* Gameweek's own feed in it.
SeasonInv ==
    /\ season # Snapshot!NoSeason => DOMAIN season = Matches
    /\ \A f \in DOMAIN season : season[f] = "over" => PlayedOut(f)
    /\ at > 5 =>
        /\ \A f \in DOMAIN got.season : got.season[f] = "over" => PlayedOut(f)
        /\ got.season # Snapshot!NoSeason =>
            DOMAIN got.season = Matches /\ \A f \in DOMAIN got.fixtures : got.season[f] = got.fixtures[f]

\* What players did in matches read as over is what they did.
LiveInv ==
    ended = "done" =>
        /\ at = 6
        /\ DOMAIN got.live = {y \in Snapshot!Pairs : y[2] \in MatchesIn[got.gameweek]}
        /\ got.explained \subseteq DOMAIN got.live
        /\ \A x \in DOMAIN got.live : got.live[x] \in {"unseen", "on", "carded", "booked"}
        /\ \A x \in DOMAIN got.live : got.fixtures[x[2]] = "over" => got.live[x] = did[x]

SnapshotInv == WorldInv /\ OfficialInv /\ LeagueInv /\ PicksInv /\ FixturesInv /\ SeasonInv /\ LiveInv

\* The operators that LeagueSnapshot takes from the standard modules are those.
LEMMA SameOperators ==
    /\ \A S : Snapshot!IsFiniteSet(S) <=> IsFiniteSet(S)
    /\ \A S : Snapshot!Cardinality(S) = Cardinality(S)
    /\ \A f : Snapshot!Range(f) = Range(f)
<1>1. \A S : Snapshot!IsFiniteSet(S) <=> IsFiniteSet(S)
  BY DEF Snapshot!IsFiniteSet, IsFiniteSet
<1>2. \A S : Snapshot!Cardinality(S) = Cardinality(S)
  BY DEF Snapshot!Cardinality, Cardinality
<1>3. \A f : Snapshot!Range(f) = Range(f)
  BY DEF Snapshot!Range, Range
<1> QED
  BY <1>1, <1>2, <1>3

\* The request that is being made is the one its number says.
LEMMA RequestIs ==
    ASSUME at \in 1..6
    PROVE  /\ Snapshot!Doing("bootstrap") <=> ended = "no" /\ at = 1
           /\ Snapshot!Doing("standings") <=> ended = "no" /\ at = 2
           /\ Snapshot!Doing("picks") <=> ended = "no" /\ at = 3
           /\ Snapshot!Doing("fixtures") <=> ended = "no" /\ at = 4
           /\ Snapshot!Doing("season") <=> ended = "no" /\ at = 5
           /\ Snapshot!Doing("live") <=> ended = "no" /\ at = 6
           /\ Len(Snapshot!Requests) = 6
  BY DEF Snapshot!Doing, Snapshot!Requests

\* Before the first deadline the Gameweek is the first, later the one under way.
LEMMA GameweekRead ==
    ASSUME Snapshot!LegalConstants, WorldInv
    PROVE  Snapshot!CurrentGameweek \in Gameweeks
<1>1. CASE current # 0
  BY <1>1 DEF Snapshot!CurrentGameweek, WorldInv
<1>2. CASE current = 0
  <2>1. PICK n \in Gameweeks : \A k \in Gameweeks : n <= k
    BY LeastOf DEF Snapshot!LegalConstants
  <2>2. Snapshot!Min(Gameweeks) \in Gameweeks
    BY <2>1 DEF Snapshot!Min
  <2> QED
    BY <1>2, <2>2 DEF Snapshot!CurrentGameweek, WorldInv
<1> QED
  BY <1>1, <1>2

\* FPL's own steps: matches go on, and what is over or processed stays so.
GoesOn ==
    /\ \A f \in Matches : PlayedOut(f) => PlayedOut(f)'
    /\ \A x \in Snapshot!Pairs : PlayedOut(x[2]) => did'[x] = did[x]
    /\ processed \subseteq processed'
    /\ UNCHANGED <<wanted, cap, at, ended, turn, season, got>>

\* What a snapshot has read stays right while FPL goes on.
LEMMA SnapshotStandsStill ==
    ASSUME Snapshot!LegalConstants, SnapshotInv, WorldInv', GoesOn
    PROVE  SnapshotInv'
<1>1. OfficialInv'
  BY DEF OfficialInv, SnapshotInv, GoesOn
<1>2. LeagueInv' /\ PicksInv'
  BY DEF LeagueInv, PicksInv, SnapshotInv, GoesOn
<1>3. at > 1 => MatchesIn[got.gameweek] \subseteq Matches
  BY DEF OfficialInv, SnapshotInv, Snapshot!LegalConstants
<1>4. FixturesInv'
  BY <1>3 DEF FixturesInv, SnapshotInv, GoesOn, OfficialInv
<1>5. SeasonInv'
  <2>1. ASSUME season # Snapshot!NoSeason PROVE DOMAIN season = Matches
    BY <2>1 DEF SeasonInv, SnapshotInv
  <2>2. \A f \in DOMAIN season : f \in Matches
    BY <2>1 DEF Snapshot!NoSeason
  <2>3. at > 5 => \A f \in DOMAIN got.season : f \in Matches
    BY DEF SeasonInv, SnapshotInv, Snapshot!NoSeason
  <2> QED
    BY <2>2, <2>3 DEF SeasonInv, SnapshotInv, GoesOn
<1>6. LiveInv'
  <2> SUFFICES ASSUME ended = "done" PROVE LiveInv'
    BY DEF LiveInv, GoesOn
  <2>1. \A x \in DOMAIN got.live : x \in Snapshot!Pairs /\ x[2] \in MatchesIn[got.gameweek] /\ x[2] \in Matches
    BY <1>3 DEF LiveInv, SnapshotInv
  <2>2. \A x \in DOMAIN got.live : got.fixtures[x[2]] = "over" => PlayedOut(x[2])
    BY <2>1 DEF LiveInv, FixturesInv, SnapshotInv
  <2> QED
    BY <2>1, <2>2 DEF LiveInv, SnapshotInv, GoesOn
<1> QED
  BY <1>1, <1>2, <1>4, <1>5, <1>6 DEF SnapshotInv

\* Every step of FPL is of that kind.
LEMMA WorldStep ==
    ASSUME Snapshot!LegalConstants, SnapshotInv,
           \/ \E f \in Matches : Snapshot!KickOff(f) \/ Snapshot!Whistle(f)
           \/ \E x \in Snapshot!Pairs : Snapshot!Happens(x)
           \/ Snapshot!Process \/ Snapshot!Deadline
           \/ \E i \in DOMAIN table : Snapshot!Overtake(i) \/ Snapshot!Leave(i)
           \/ \E m \in Range(Entries) : Snapshot!Join(m)
    PROVE  SnapshotInv'
<1> USE DEF WorldInv, GoesOn, PlayedOut
<1>0. WorldInv
  BY DEF SnapshotInv
<1>1. ASSUME NEW f \in Matches, Snapshot!KickOff(f) PROVE WorldInv' /\ GoesOn
  <2>1. /\ stage' = [stage EXCEPT ![f] = "live"] /\ stage[f] = "ahead"
        /\ UNCHANGED <<did, processed, current, table, cap>>
    BY <1>1 DEF Snapshot!KickOff
  <2>2. GoesOn
    BY <1>0, <1>1, <2>1 DEF Snapshot!KickOff
  <2>3. \A g \in processed : \A h \in MatchesIn[g] : h \in Matches
    BY <1>0 DEF Snapshot!LegalConstants
  <2> QED
    BY <1>0, <2>1, <2>2, <2>3
<1>2. ASSUME NEW f \in Matches, Snapshot!Whistle(f) PROVE WorldInv' /\ GoesOn
  <2>1. /\ stage' = [stage EXCEPT ![f] = "over"]
        /\ UNCHANGED <<did, processed, current, table, cap>>
    BY <1>2 DEF Snapshot!Whistle
  <2>2. GoesOn
    BY <1>0, <1>2, <2>1 DEF Snapshot!Whistle
  <2>3. \A g \in processed : \A h \in MatchesIn[g] : h \in Matches
    BY <1>0 DEF Snapshot!LegalConstants
  <2> QED
    BY <1>0, <2>1, <2>2, <2>3
<1>3. ASSUME NEW x \in Snapshot!Pairs, Snapshot!Happens(x) PROVE WorldInv' /\ GoesOn
  <2>1. PICK d \in {"on", "carded", "booked"} : did' = [did EXCEPT ![x] = d]
    BY <1>3 DEF Snapshot!Happens, Snapshot!Becomes
  <2>2. stage[x[2]] = "live" /\ UNCHANGED <<stage, processed, current, table, wanted, cap, at, ended, turn, season, got>>
    BY <1>3 DEF Snapshot!Happens
  <2>3. ASSUME NEW y \in Snapshot!Pairs, PlayedOut(y[2]) PROVE did'[y] = did[y]
    <3>1. y # x
      BY <2>2, <2>3
    <3> QED
      BY <1>0, <2>1, <3>1
  <2>4. GoesOn
    BY <2>2, <2>3
  <2>5. did' \in [Snapshot!Pairs -> {"unseen", "on", "carded", "booked"}]
    BY <1>0, <2>1
  <2> QED
    BY <1>0, <2>2, <2>4, <2>5 DEF Snapshot!Pairs
<1>4. ASSUME Snapshot!Process PROVE WorldInv' /\ GoesOn
  BY <1>0, <1>4 DEF Snapshot!Process
<1>5. ASSUME Snapshot!Deadline PROVE WorldInv' /\ GoesOn
  BY <1>0, <1>5 DEF Snapshot!Deadline, Snapshot!LegalConstants
<1>6. ASSUME NEW i \in DOMAIN table, Snapshot!Overtake(i) PROVE WorldInv' /\ GoesOn
  <2>1. /\ table' = [table EXCEPT ![i] = table[i + 1], ![i + 1] = table[i]] /\ i + 1 \in DOMAIN table
        /\ UNCHANGED <<stage, did, processed, current, cap>>
    BY <1>6 DEF Snapshot!Overtake
  <2>2. table' \in Seq(Range(Entries))
    BY <1>0, <2>1
  <2>3. GoesOn
    BY <1>6 DEF Snapshot!Overtake
  <2> QED
    BY <1>0, <2>1, <2>2, <2>3
<1>7. ASSUME NEW i \in DOMAIN table, Snapshot!Leave(i) PROVE WorldInv' /\ GoesOn
  <2>1. /\ table' = Snapshot!RemoveAt(table, i)
        /\ UNCHANGED <<stage, did, processed, current, cap>>
    BY <1>7 DEF Snapshot!Leave
  <2>2. table' \in Seq(Range(Entries))
    BY <1>0, <2>1 DEF Snapshot!RemoveAt
  <2>3. GoesOn
    BY <1>7 DEF Snapshot!Leave
  <2> QED
    BY <1>0, <2>1, <2>2, <2>3
<1>8. ASSUME NEW m \in Range(Entries), Snapshot!Join(m) PROVE WorldInv' /\ GoesOn
  BY <1>0, <1>8 DEF Snapshot!Join
<1>9. WorldInv' /\ GoesOn
  BY <1>1, <1>2, <1>3, <1>4, <1>5, <1>6, <1>7, <1>8
<1> QED
  BY <1>9, SnapshotStandsStill

\* A request leaves FPL as it is.
LEMMA WorldStands ==
    ASSUME WorldInv, UNCHANGED Snapshot!worldVars, cap' = cap
    PROVE  WorldInv'
  BY DEF WorldInv, Snapshot!worldVars, Snapshot!Pairs, PlayedOut

\* A request that answers parts of the snapshot leaves the others, and the next is made.
LEMMA Answered ==
    ASSUME OfficialInv, NEW parts, Snapshot!OnTo(parts)
    PROVE  /\ DOMAIN got' = DOMAIN Snapshot!Nothing
           /\ \A part \in DOMAIN got : got'[part] = IF part \in DOMAIN parts THEN parts[part] ELSE got[part]
           /\ at < 6 => at' = at + 1 /\ ended' = ended
           /\ at = 6 => at' = at /\ ended' = "done"
<1>1. /\ DOMAIN got' = DOMAIN Snapshot!Nothing
      /\ \A part \in DOMAIN got : got'[part] = IF part \in DOMAIN parts THEN parts[part] ELSE got[part]
  BY DEF Snapshot!OnTo, OfficialInv
<1>2. at \in 1..6 /\ Len(Snapshot!Requests) = 6
  BY RequestIs DEF OfficialInv
<1>3. /\ at < 6 => at' = at + 1 /\ ended' = ended
      /\ at = 6 => at' = at /\ ended' = "done"
  BY <1>2 DEF Snapshot!OnTo
<1> QED
  BY <1>1, <1>3

\* The first request: only the Gameweek under way and processed ones are read.
LEMMA BootstrapStep ==
    ASSUME Snapshot!LegalConstants, SnapshotInv, Snapshot!ReadBootstrap
    PROVE  SnapshotInv'
<1> DEFINE parts == [gameweek |-> Snapshot!Asked, historical |-> Snapshot!IsHistorical, final |-> Snapshot!Asked \in processed]
<1>1. WorldInv /\ OfficialInv /\ LeagueInv /\ PicksInv /\ SeasonInv /\ LiveInv
  BY DEF SnapshotInv
<1>2. at = 1 /\ ended = "no" /\ got = Snapshot!Nothing /\ turn = 1
  BY <1>1, RequestIs DEF OfficialInv, Snapshot!ReadBootstrap
<1>3. Snapshot!OnTo(parts) /\ UNCHANGED <<Snapshot!worldVars, wanted, cap, turn, season>>
  BY DEF Snapshot!ReadBootstrap
<1>4. /\ DOMAIN got' = DOMAIN Snapshot!Nothing
      /\ \A part \in DOMAIN got : got'[part] = IF part \in DOMAIN parts THEN parts[part] ELSE got[part]
      /\ at' = 2 /\ ended' = "no"
  BY <1>1, <1>2, <1>3, Answered
<1>5. /\ got'.gameweek = Snapshot!Asked /\ got'.historical = Snapshot!IsHistorical
      /\ got'.final = (Snapshot!Asked \in processed)
      /\ got'.standings = <<>> /\ got'.picks = <<>>
  BY <1>2, <1>4 DEF Snapshot!Nothing
<1>6. Snapshot!IsHistorical => Snapshot!Asked \in processed
  BY DEF Snapshot!ReadBootstrap
<1>7. Snapshot!Asked \in Gameweeks
  <2>1. CASE Snapshot!IsHistorical
    BY <2>1, <1>1, <1>6 DEF WorldInv
  <2>2. CASE ~Snapshot!IsHistorical
    BY <2>2, <1>1, GameweekRead DEF Snapshot!IsHistorical
  <2> QED
    BY <2>1, <2>2
<1>8. WorldInv' /\ processed' = processed /\ cap' = cap /\ turn' = 1 /\ season' = season /\ stage' = stage
  BY <1>1, <1>2, <1>3, WorldStands DEF Snapshot!worldVars
<1>9. OfficialInv'
  <2>1. got'.historical \/ got'.final => got'.gameweek \in processed'
    BY <1>5, <1>6, <1>8, Zenon
  <2>2. at' \in 1..6 /\ at' # 1 /\ turn' \in Nat \ {0} /\ got'.gameweek \in Gameweeks
    BY <1>4, <1>5, <1>7, <1>8
  <2> QED
    BY <1>4, <2>1, <2>2 DEF OfficialInv
<1>10. LeagueInv' /\ PicksInv' /\ FixturesInv' /\ SeasonInv' /\ LiveInv'
  BY <1>1, <1>4, <1>5, <1>8 DEF LeagueInv, PicksInv, FixturesInv, SeasonInv, LiveInv, PlayedOut
<1> QED
  BY <1>8, <1>9, <1>10 DEF SnapshotInv

\* A page that is not the last has as many rows as a page; the last of the first
\* page is the whole table.
LEMMA FirstPage ==
    ASSUME Snapshot!LegalConstants, WorldInv, turn = 1
    PROVE  /\ Snapshot!HasNext => Len(Snapshot!Block) = PageSize
           /\ ~Snapshot!HasNext => Snapshot!Block = table
<1>1. table \in Seq(Range(Entries)) /\ PageSize \in Nat \ {0} /\ Len(table) \in Nat
  BY DEF Snapshot!LegalConstants, WorldInv
<1>4. PageSize * (turn - 1) + 1 = 1
  BY <1>1
<1>2. CASE Snapshot!HasNext
  <2>1. Snapshot!Min({PageSize * turn, Len(table)}) = PageSize
    BY <1>1, <1>2 DEF Snapshot!HasNext, Snapshot!Min
  <2>2. Snapshot!Block = SubSeq(table, 1, PageSize)
    BY <1>4, <2>1 DEF Snapshot!Block
  <2> QED
    BY <1>1, <1>2, <2>2 DEF Snapshot!HasNext
<1>3. CASE ~Snapshot!HasNext
  <2>1. Snapshot!Min({PageSize * turn, Len(table)}) = Len(table)
    BY <1>1, <1>3 DEF Snapshot!HasNext, Snapshot!Min
  <2>2. Snapshot!Block = SubSeq(table, 1, Len(table))
    BY <1>4, <2>1 DEF Snapshot!Block
  <2> QED
    BY <1>1, <1>3, <2>2
<1> QED
  BY <1>2, <1>3

\* A page is a part of the table.
LEMMA BlockIs ==
    ASSUME Snapshot!LegalConstants, WorldInv, OfficialInv
    PROVE  Snapshot!Block \in Seq(Range(Entries))
<1>1. /\ table \in Seq(Range(Entries)) /\ PageSize \in Nat \ {0} /\ turn \in Nat \ {0}
      /\ Len(table) \in Nat
  BY DEF Snapshot!LegalConstants, WorldInv, OfficialInv
<1> DEFINE first == PageSize * (turn - 1) + 1
<1>2. PageSize * (turn - 1) \in Nat /\ PageSize * turn \in Nat
  BY <1>1
<1>3. first \in Nat \ {0}
  BY <1>2
<1>4. PICK last \in Nat : last = Snapshot!Min({PageSize * turn, Len(table)}) /\ last <= Len(table)
  BY <1>1, <1>2 DEF Snapshot!Min
<1>5. Snapshot!Block = SubSeq(table, first, last)
  BY <1>4 DEF Snapshot!Block
<1> HIDE DEF first
<1>6. \A i \in first..last : table[i] \in Range(Entries)
  BY <1>1, <1>3, <1>4
<1>7. first \in Int /\ last \in Int
  BY <1>3
<1> QED
  BY <1>5, <1>6, <1>7, SubSeqProperties, Zenon

\* A page of the standings: a league within a limit is on the first.
LEMMA StandingsStep ==
    ASSUME Snapshot!LegalConstants, SnapshotInv, Snapshot!ReadStandings
    PROVE  SnapshotInv'
<1> DEFINE rows == got.standings \o Snapshot!Block
<1>1. WorldInv /\ OfficialInv /\ LeagueInv /\ PicksInv /\ SeasonInv /\ LiveInv
  BY DEF SnapshotInv
<1>2. at = 2 /\ ended = "no"
  BY <1>1, RequestIs DEF OfficialInv, Snapshot!ReadStandings
<1>3. /\ got' = [got EXCEPT !.standings = rows, !.tables = @ \cup {table}]
      /\ UNCHANGED <<Snapshot!worldVars, wanted, cap, season>>
      /\ ~Snapshot!TooLarge(rows)
      /\ \/ Snapshot!HasNext /\ turn' = turn + 1 /\ at' = 2 /\ ended' = "no"
         \/ ~Snapshot!HasNext /\ rows = <<>> /\ ended' = "not_found" /\ at' = 2 /\ turn' = turn
         \/ ~Snapshot!HasNext /\ rows # <<>> /\ ended' = "no" /\ at' = 3 /\ turn' = 1
  BY <1>2 DEF Snapshot!ReadStandings
<1>4. WorldInv' /\ processed' = processed /\ cap' = cap /\ season' = season /\ stage' = stage
  BY <1>1, <1>3, WorldStands DEF Snapshot!worldVars
<1>5. rows \in Seq(Range(Entries))
  BY <1>1, BlockIs DEF LeagueInv
<1>6. /\ DOMAIN got' = DOMAIN Snapshot!Nothing
      /\ got'.gameweek = got.gameweek /\ got'.historical = got.historical /\ got'.final = got.final
      /\ got'.standings = rows /\ got'.tables = got.tables \cup {table} /\ got'.picks = got.picks
  BY <1>1, <1>3 DEF OfficialInv, Snapshot!Nothing
<1>7. OfficialInv'
  <2>1. turn' \in Nat \ {0}
    BY <1>1, <1>3 DEF OfficialInv
  <2> QED
    BY <1>1, <1>2, <1>3, <1>4, <1>6, <2>1 DEF OfficialInv
<1>8. LeagueInv'
  <2>1. SUFFICES ASSUME cap # Unlimited PROVE LeagueInv'
    BY <1>4, <1>5, <1>6 DEF LeagueInv
  <2>2. got.standings = <<>> /\ turn = 1 /\ cap \in 0..PageSize
    BY <1>1, <1>2, <2>1 DEF LeagueInv, WorldInv, Snapshot!LegalConstants
  <2>3. rows = Snapshot!Block
    BY <1>1, <2>2, BlockIs
  <2>4. ~Snapshot!HasNext
    <3>1. ASSUME Snapshot!HasNext PROVE FALSE
      <4>1. Len(rows) = PageSize
        BY <1>1, <2>2, <2>3, <3>1, FirstPage
      <4>2. Snapshot!TooLarge(rows)
        BY <2>2, <3>1, <4>1 DEF Snapshot!TooLarge, Snapshot!LegalConstants
      <4> QED
        BY <1>3, <4>2
    <3> QED
      BY <3>1
  <2>5. rows = table
    BY <1>1, <2>2, <2>3, <2>4, FirstPage
  <2>6. CASE rows = <<>>
    BY <1>3, <1>4, <1>5, <1>6, <2>2, <2>4, <2>6 DEF LeagueInv
  <2>7. CASE rows # <<>>
    BY <1>3, <1>4, <1>5, <1>6, <2>4, <2>5, <2>7 DEF LeagueInv
  <2> QED
    BY <2>6, <2>7
<1>9. PicksInv'
  <2>1. got'.picks = <<>>
    BY <1>1, <1>2, <1>6 DEF PicksInv
  <2>2. at' = 3 => turn' = 1 /\ turn' \in DOMAIN got'.standings
    BY <1>3, <1>5, <1>6
  <2> QED
    BY <1>3, <1>5, <1>6, <2>1, <2>2 DEF PicksInv
<1>10. FixturesInv' /\ SeasonInv' /\ LiveInv'
  BY <1>1, <1>3, <1>4 DEF FixturesInv, SeasonInv, LiveInv, PlayedOut
<1> QED
  BY <1>4, <1>7, <1>8, <1>9, <1>10 DEF SnapshotInv

\* The picks of one row.
LEMMA PicksStep ==
    ASSUME Snapshot!LegalConstants, SnapshotInv, Snapshot!ReadPicks
    PROVE  SnapshotInv'
<1> DEFINE row == got.standings[turn]
<1> DEFINE official == got.gameweek \in processed
<1>1. WorldInv /\ OfficialInv /\ LeagueInv /\ PicksInv /\ SeasonInv /\ LiveInv
  BY DEF SnapshotInv
<1>2. at = 3 /\ ended = "no"
  BY <1>1, RequestIs DEF OfficialInv, Snapshot!ReadPicks
<1>3. /\ got' = [got EXCEPT !.picks = [m \in DOMAIN @ \cup {row} |-> IF m = row THEN official ELSE @[m]]]
      /\ UNCHANGED <<Snapshot!worldVars, wanted, cap, ended, season>>
      /\ \/ turn = Len(got.standings) /\ at' = 4 /\ turn' = turn
         \/ turn # Len(got.standings) /\ at' = 3 /\ turn' = turn + 1
  BY <1>2 DEF Snapshot!ReadPicks, Snapshot!Row
<1>4. WorldInv' /\ processed' = processed /\ cap' = cap /\ season' = season /\ stage' = stage
  BY <1>1, <1>3, WorldStands DEF Snapshot!worldVars
<1>5. /\ DOMAIN got' = DOMAIN Snapshot!Nothing
      /\ got'.gameweek = got.gameweek /\ got'.historical = got.historical /\ got'.final = got.final
      /\ got'.standings = got.standings /\ got'.tables = got.tables
      /\ got'.picks = [m \in DOMAIN got.picks \cup {row} |-> IF m = row THEN official ELSE got.picks[m]]
  BY <1>1, <1>3 DEF OfficialInv, Snapshot!Nothing
<1>6. turn \in DOMAIN got.standings /\ got.standings \in Seq(Range(Entries))
  BY <1>1, <1>2 DEF PicksInv, LeagueInv
<1>7. OfficialInv'
  <2>1. at' \in 1..6 /\ at' # 1 /\ turn' \in Nat \ {0}
    BY <1>1, <1>3 DEF OfficialInv
  <2> QED
    BY <1>1, <1>2, <1>4, <1>5, <2>1 DEF OfficialInv
<1>8. LeagueInv'
  BY <1>1, <1>2, <1>3, <1>4, <1>5 DEF LeagueInv
<1>9. PicksInv'
  <2>1. \A i \in DOMAIN got.standings : i < turn \/ i = turn => got.standings[i] \in DOMAIN got'.picks
    BY <1>1, <1>2, <1>5 DEF PicksInv
  <2>2. at' = 3 => turn' \in DOMAIN got.standings
                   /\ \A i \in DOMAIN got.standings : i < turn' => got.standings[i] \in DOMAIN got'.picks
    BY <1>3, <1>6, <2>1
  <2>3. at' > 3 => \A i \in DOMAIN got.standings : got.standings[i] \in DOMAIN got'.picks
    BY <1>3, <1>6, <2>1
  <2>4. got.historical \/ got.final => official
    BY <1>1 DEF OfficialInv
  <2>5. got.historical \/ got.final => \A m \in DOMAIN got'.picks : got'.picks[m] = TRUE
    BY <1>1, <1>5, <2>4 DEF PicksInv
  <2>6. at' \in {3, 4}
    BY <1>3
  <2>7. got'.historical \/ got'.final => \A m \in DOMAIN got'.picks : got'.picks[m] = TRUE
    BY <1>5, <2>5
  <2>8. /\ at' = 3 => turn' \in DOMAIN got'.standings
                       /\ \A i \in DOMAIN got'.standings : i < turn' => got'.standings[i] \in DOMAIN got'.picks
        /\ at' > 3 => \A i \in DOMAIN got'.standings : got'.standings[i] \in DOMAIN got'.picks
    BY <1>5, <2>2, <2>3
  <2> QED
    BY <2>6, <2>7, <2>8 DEF PicksInv
<1>10. FixturesInv' /\ SeasonInv' /\ LiveInv'
  BY <1>1, <1>2, <1>3, <1>4 DEF FixturesInv, SeasonInv, LiveInv, PlayedOut
<1> QED
  BY <1>4, <1>7, <1>8, <1>9, <1>10 DEF SnapshotInv

\* The matches: of a processed Gameweek all are over.
LEMMA FixturesStep ==
    ASSUME Snapshot!LegalConstants, SnapshotInv, Snapshot!ReadFixtures
    PROVE  SnapshotInv'
<1> DEFINE parts == [fixtures |-> [f \in MatchesIn[got.gameweek] |-> stage[f]]]
<1>1. WorldInv /\ OfficialInv /\ LeagueInv /\ PicksInv /\ SeasonInv /\ LiveInv
  BY DEF SnapshotInv
<1>2. at = 4 /\ ended = "no"
  BY <1>1, RequestIs DEF OfficialInv, Snapshot!ReadFixtures
<1>3. Snapshot!OnTo(parts) /\ UNCHANGED <<Snapshot!worldVars, wanted, cap, turn, season>>
  BY DEF Snapshot!ReadFixtures
<1>4. /\ DOMAIN got' = DOMAIN Snapshot!Nothing
      /\ \A part \in DOMAIN got : got'[part] = IF part \in DOMAIN parts THEN parts[part] ELSE got[part]
      /\ at' = 5 /\ ended' = "no"
  BY <1>1, <1>2, <1>3, Answered
<1>5. /\ got'.gameweek = got.gameweek /\ got'.historical = got.historical /\ got'.final = got.final
      /\ got'.standings = got.standings /\ got'.tables = got.tables /\ got'.picks = got.picks
      /\ got'.fixtures = [f \in MatchesIn[got.gameweek] |-> stage[f]]
  BY <1>1, <1>4 DEF Snapshot!Nothing, OfficialInv
<1>6. WorldInv' /\ processed' = processed /\ cap' = cap /\ turn' = turn /\ season' = season /\ stage' = stage
  BY <1>1, <1>3, WorldStands DEF Snapshot!worldVars
<1>7. OfficialInv' /\ LeagueInv' /\ PicksInv'
  BY <1>1, <1>2, <1>4, <1>5, <1>6 DEF OfficialInv, LeagueInv, PicksInv
<1>8. FixturesInv'
  <2>1. got.historical \/ got.final => \A f \in MatchesIn[got.gameweek] : PlayedOut(f)
    BY <1>1 DEF OfficialInv, WorldInv
  <2> QED
    BY <1>5, <1>6, <2>1 DEF FixturesInv, PlayedOut
<1>9. SeasonInv' /\ LiveInv'
  BY <1>1, <1>4, <1>6 DEF SeasonInv, LiveInv, PlayedOut
<1> QED
  BY <1>6, <1>7, <1>8, <1>9 DEF SnapshotInv

\* The season, kept or read, with the feed of the Gameweek in it.
LEMMA SeasonStep ==
    ASSUME Snapshot!LegalConstants, SnapshotInv, NEW fails, Snapshot!ReadSeason(fails)
    PROVE  SnapshotInv'
<1> DEFINE all == IF season' = Snapshot!NoSeason THEN Snapshot!NoSeason ELSE Snapshot!Merged(season')
<1> DEFINE parts == [season |-> all]
<1>1. WorldInv /\ OfficialInv /\ LeagueInv /\ PicksInv /\ FixturesInv /\ SeasonInv /\ LiveInv
  BY DEF SnapshotInv
<1>2. at = 5 /\ ended = "no"
  BY <1>1, RequestIs DEF OfficialInv, Snapshot!ReadSeason
<1>3. /\ Snapshot!OnTo(parts) /\ UNCHANGED <<Snapshot!worldVars, wanted, cap, turn>>
      /\ season' = IF season # Snapshot!NoSeason \/ fails THEN season ELSE stage
  BY DEF Snapshot!ReadSeason
<1>4. /\ DOMAIN got' = DOMAIN Snapshot!Nothing
      /\ \A part \in DOMAIN got : got'[part] = IF part \in DOMAIN parts THEN parts[part] ELSE got[part]
      /\ at' = 6 /\ ended' = "no"
  BY <1>1, <1>2, <1>3, Answered
<1>5. /\ got'.gameweek = got.gameweek /\ got'.historical = got.historical /\ got'.final = got.final
      /\ got'.standings = got.standings /\ got'.tables = got.tables /\ got'.picks = got.picks
      /\ got'.fixtures = got.fixtures /\ got'.season = all
  BY <1>1, <1>4 DEF Snapshot!Nothing, OfficialInv
<1>6. WorldInv' /\ processed' = processed /\ cap' = cap /\ turn' = turn /\ stage' = stage
  BY <1>1, <1>3, WorldStands DEF Snapshot!worldVars
<1>7. OfficialInv' /\ LeagueInv' /\ PicksInv'
  BY <1>1, <1>2, <1>4, <1>5, <1>6 DEF OfficialInv, LeagueInv, PicksInv
<1>8. FixturesInv'
  BY <1>1, <1>2, <1>5, <1>6 DEF FixturesInv, PlayedOut
<1>9. SeasonInv'
  <2>1. /\ season' # Snapshot!NoSeason => DOMAIN season' = Matches
        /\ \A f \in DOMAIN season' : season'[f] = "over" => PlayedOut(f)
    BY <1>1, <1>3 DEF SeasonInv, WorldInv, PlayedOut
  <2>2. CASE season' = Snapshot!NoSeason
    BY <1>5, <1>6, <2>1, <2>2 DEF SeasonInv, Snapshot!NoSeason, PlayedOut
  <2>3. CASE season' # Snapshot!NoSeason
    <3>1. got'.season = [f \in Matches |-> IF f \in DOMAIN got.fixtures THEN got.fixtures[f] ELSE season'[f]]
      BY <1>5, <2>1, <2>3 DEF Snapshot!Merged
    <3>2. /\ DOMAIN got.fixtures = MatchesIn[got.gameweek]
          /\ \A f \in DOMAIN got.fixtures : got.fixtures[f] = "over" => PlayedOut(f)
      BY <1>1, <1>2 DEF FixturesInv
    <3>3. DOMAIN got.fixtures \subseteq Matches
      <4>1. got.gameweek \in Gameweeks
        BY <1>1, <1>2 DEF OfficialInv
      <4> QED
        BY <3>2, <4>1 DEF Snapshot!LegalConstants
    <3> QED
      BY <1>5, <1>6, <2>1, <2>3, <3>1, <3>2, <3>3 DEF SeasonInv, PlayedOut
  <2> QED
    BY <2>2, <2>3
<1>10. LiveInv'
  BY <1>4 DEF LiveInv
<1> QED
  BY <1>6, <1>7, <1>8, <1>9, <1>10 DEF SnapshotInv

\* The scores: asked for after the matches, so what was read as over has not changed since.
LEMMA LiveStep ==
    ASSUME Snapshot!LegalConstants, SnapshotInv, NEW explained, Snapshot!ReadLive(explained)
    PROVE  SnapshotInv'
<1> DEFINE live == [x \in {y \in Snapshot!Pairs : y[2] \in MatchesIn[got.gameweek]} |-> did[x]]
<1> DEFINE parts == [live |-> live, explained |-> explained]
<1>1. WorldInv /\ OfficialInv /\ LeagueInv /\ PicksInv /\ FixturesInv /\ SeasonInv /\ LiveInv
  BY DEF SnapshotInv
<1>2. at = 6 /\ ended = "no"
  BY <1>1, RequestIs DEF OfficialInv, Snapshot!ReadLive
<1>3. /\ Snapshot!OnTo(parts) /\ UNCHANGED <<Snapshot!worldVars, wanted, cap, turn, season>>
      /\ explained \subseteq {y \in Snapshot!Pairs : y[2] \in MatchesIn[got.gameweek]}
  BY DEF Snapshot!ReadLive
<1>4. /\ DOMAIN got' = DOMAIN Snapshot!Nothing
      /\ \A part \in DOMAIN got : got'[part] = IF part \in DOMAIN parts THEN parts[part] ELSE got[part]
      /\ at' = 6 /\ ended' = "done"
  BY <1>1, <1>2, <1>3, Answered
<1>5. /\ got'.gameweek = got.gameweek /\ got'.historical = got.historical /\ got'.final = got.final
      /\ got'.standings = got.standings /\ got'.tables = got.tables /\ got'.picks = got.picks
      /\ got'.fixtures = got.fixtures /\ got'.season = got.season
      /\ got'.live = live /\ got'.explained = explained
  BY <1>1, <1>4 DEF Snapshot!Nothing, OfficialInv
<1>6. WorldInv' /\ UNCHANGED <<processed, cap, turn, season, stage, did>>
  BY <1>1, <1>3, WorldStands DEF Snapshot!worldVars
<1>7. OfficialInv' /\ LeagueInv' /\ PicksInv'
  BY <1>1, <1>2, <1>4, <1>5, <1>6 DEF OfficialInv, LeagueInv, PicksInv
<1>8. FixturesInv' /\ SeasonInv'
  BY <1>1, <1>2, <1>4, <1>5, <1>6 DEF FixturesInv, SeasonInv, PlayedOut
<1>9. LiveInv'
  BY <1>1, <1>3, <1>4, <1>5, <1>6 DEF LiveInv, WorldInv, Snapshot!Pairs, Snapshot!Involved
<1> QED
  BY <1>6, <1>7, <1>8, <1>9 DEF SnapshotInv

\* A snapshot that fails keeps what it has.
LEMMA EndStep ==
    ASSUME SnapshotInv, ended = "no", NEW reason, reason # "done", Snapshot!Ends(reason)
    PROVE  SnapshotInv'
<1>1. ended' = reason /\ UNCHANGED <<Snapshot!worldVars, wanted, cap, at, turn, season, got>>
  BY DEF Snapshot!Ends
<1>2. WorldInv' /\ UNCHANGED <<processed, cap, season, stage, did>>
  BY <1>1, WorldStands DEF SnapshotInv, Snapshot!worldVars
<1>3. OfficialInv' /\ LeagueInv' /\ PicksInv'
  BY <1>1, <1>2 DEF SnapshotInv, OfficialInv, LeagueInv, PicksInv
<1>4. FixturesInv' /\ SeasonInv'
  BY <1>1, <1>2 DEF SnapshotInv, FixturesInv, SeasonInv, PlayedOut
<1> QED
  BY <1>1, <1>2, <1>3, <1>4 DEF SnapshotInv, LiveInv

\* The season expires.
LEMMA ExpireStep ==
    ASSUME SnapshotInv, Snapshot!Expire
    PROVE  SnapshotInv'
<1>1. season' = <<>> /\ UNCHANGED <<Snapshot!worldVars, wanted, cap, at, ended, turn, got>>
  BY DEF Snapshot!Expire, Snapshot!NoSeason
<1>2. WorldInv' /\ UNCHANGED <<processed, cap, stage, did>>
  BY <1>1, WorldStands DEF SnapshotInv, Snapshot!worldVars
<1>3. OfficialInv' /\ LeagueInv' /\ PicksInv'
  BY <1>1, <1>2 DEF SnapshotInv, OfficialInv, LeagueInv, PicksInv
<1>4. FixturesInv' /\ SeasonInv' /\ LiveInv'
  BY <1>1, <1>2 DEF SnapshotInv, FixturesInv, SeasonInv, LiveInv, PlayedOut, Snapshot!NoSeason, Snapshot!Pairs
<1> QED
  BY <1>2, <1>3, <1>4 DEF SnapshotInv

\* Nothing has been read.
LEMMA SnapshotInit ==
    ASSUME Snapshot!LegalConstants, Snapshot!Init
    PROVE  SnapshotInv
<1>1. WorldInv
  <2>1. PICK n \in 0..Len(Entries) : table = SubSeq(Entries, 1, n)
    BY DEF Snapshot!Init
  <2>2. \A i \in 1..n : Entries[i] \in Range(Entries)
    BY SameOperators DEF Snapshot!LegalConstants, Range
  <2>3. Len(Entries) \in Nat
    BY DEF Snapshot!LegalConstants
  <2>4. 1 \in Int /\ n \in Int
    BY <2>1, <2>3
  <2>5. table \in Seq(Range(Entries))
    BY <2>1, <2>2, <2>4, SubSeqProperties, Zenon
  <2> QED
    BY <2>5 DEF Snapshot!Init, WorldInv
<1>2. OfficialInv /\ LeagueInv /\ PicksInv /\ FixturesInv /\ LiveInv
  BY DEF Snapshot!Init, OfficialInv, LeagueInv, PicksInv, FixturesInv, LiveInv, Snapshot!Nothing
<1>3. SeasonInv
  BY DEF Snapshot!Init, SeasonInv, Snapshot!NoSeason
<1> QED
  BY <1>1, <1>2, <1>3 DEF SnapshotInv

\* Every step of FPL and of the client keeps the invariant.
LEMMA SnapshotStep ==
    ASSUME Snapshot!LegalConstants, SnapshotInv, [Snapshot!Next]_Snapshot!vars
    PROVE  SnapshotInv'
<1>0. ASSUME UNCHANGED Snapshot!vars PROVE SnapshotInv'
  <2>1. UNCHANGED <<Snapshot!worldVars, wanted, cap, at, ended, turn, season, got>>
    BY <1>0 DEF Snapshot!vars
  <2>2. WorldInv' /\ GoesOn
    BY <2>1, WorldStands DEF SnapshotInv, GoesOn, Snapshot!worldVars, PlayedOut
  <2> QED
    BY <2>2, SnapshotStandsStill
<1>1. ASSUME \/ \E f \in Matches : Snapshot!KickOff(f) \/ Snapshot!Whistle(f)
             \/ \E x \in Snapshot!Pairs : Snapshot!Happens(x)
             \/ Snapshot!Process \/ Snapshot!Deadline
             \/ \E i \in DOMAIN table : Snapshot!Overtake(i) \/ Snapshot!Leave(i)
             \/ \E m \in Snapshot!Range(Entries) : Snapshot!Join(m)
      PROVE  SnapshotInv'
  BY <1>1, WorldStep, SameOperators
<1>2. ASSUME Snapshot!NotViewable \/ Snapshot!LeagueTooLarge \/ Snapshot!NoSquad PROVE SnapshotInv'
  BY <1>2, EndStep DEF Snapshot!NotViewable, Snapshot!LeagueTooLarge, Snapshot!NoSquad, Snapshot!Doing
<1>3. ASSUME NEW status \in {403, 404, 500}, Snapshot!RequestFails(status) PROVE SnapshotInv'
  <2>1. PICK reason \in {"unavailable", "not_found", "refused", "failed"} : Snapshot!Ends(reason)
    BY <1>3 DEF Snapshot!RequestFails, Snapshot!ErrorOf
  <2>2. ended = "no"
    BY <1>3 DEF Snapshot!RequestFails
  <2> QED
    BY <2>1, <2>2, EndStep
<1> QED
  BY <1>0, <1>1, <1>2, <1>3, BootstrapStep, StandingsStep, PicksStep, FixturesStep, SeasonStep, LiveStep,
     ExpireStep DEF Snapshot!Next

\* A player with one match is never said not to have appeared in it; for the others the
\* rows left out have neither a minute nor a booking, or the totals would differ.
LEMMA ZerosAreTrue ==
    ASSUME Snapshot!LegalConstants, SnapshotInv
    PROVE  Snapshot!ZeroIsTrue
<1> SUFFICES ASSUME ended = "done", NEW x \in Snapshot!ConfirmedZeros PROVE got.live[x] = "unseen"
  BY DEF Snapshot!ZeroIsTrue, Snapshot!Complete
<1> DEFINE p == x[1]
<1> DEFINE rows == Snapshot!Rows(p)
<1> DEFINE told == rows \cap got.explained
<1> DEFINE OnField(S) == {y \in S : got.live[y] \in {"on", "booked"}}
<1> DEFINE Carded(S) == {y \in S : got.live[y] \in {"carded", "booked"}}
<1>1. /\ at = 6 /\ got.gameweek \in Gameweeks
      /\ DOMAIN got.live = {y \in Snapshot!Pairs : y[2] \in MatchesIn[got.gameweek]}
      /\ DOMAIN got.fixtures = MatchesIn[got.gameweek]
      /\ \A y \in DOMAIN got.live : got.live[y] \in {"unseen", "on", "carded", "booked"}
  BY DEF SnapshotInv, LiveInv, FixturesInv, OfficialInv
<1>2. /\ x \in DOMAIN got.live /\ x \notin Snapshot!Observed
      /\ Snapshot!TotalMinutes(p) = Snapshot!ExplainedMinutes(p)
      /\ Snapshot!TotalPoints(p) = Snapshot!ExplainedPoints(p)
  BY DEF Snapshot!ConfirmedZeros, Snapshot!AccountedFor
<1>3. x \in rows /\ x \notin told
  BY <1>2 DEF Snapshot!Rows, Snapshot!Observed
<1>4. \A y \in rows : ~Snapshot!OnlyMatch(y)
  <2>1. SUFFICES ASSUME NEW y \in rows, Snapshot!OnlyMatch(y) PROVE FALSE
    OBVIOUS
  <2>2. y \in DOMAIN got.live /\ y[1] = p
    BY DEF Snapshot!Rows
  <2>3. x[2] \in Snapshot!Schedule(p)
    BY <1>1, <1>2 DEF Snapshot!Schedule, Snapshot!Pairs
  <2>4. x[2] = y[2]
    BY <2>1, <2>2, <2>3 DEF Snapshot!OnlyMatch
  <2>5. x = y
    BY <1>1, <1>2, <2>2, <2>4 DEF Snapshot!Pairs
  <2> QED
    BY <1>2, <2>1, <2>2, <2>5 DEF Snapshot!Observed
<1>5. rows \cap Snapshot!Observed = told
  BY <1>4 DEF Snapshot!Observed, Snapshot!Rows
<1>6. \A y \in rows : /\ Snapshot!MinutesLive(y) = 1 <=> got.live[y] \in {"on", "booked"}
                      /\ Snapshot!BookingsLive(y) = 1 <=> got.live[y] \in {"carded", "booked"}
                      /\ Snapshot!MinutesIn(y) = Snapshot!MinutesLive(y)
  BY <1>4 DEF Snapshot!MinutesLive, Snapshot!BookingsLive, Snapshot!MinutesIn, Snapshot!Minutes, Snapshot!Bookings
<1> HIDE DEF rows, told
<1>7. /\ Snapshot!TotalMinutes(p) = Cardinality(OnField(rows))
      /\ Snapshot!ExplainedMinutes(p) = Cardinality(OnField(told))
      /\ Snapshot!TotalPoints(p) = Cardinality(OnField(rows)) - Cardinality(Carded(rows))
      /\ Snapshot!ExplainedPoints(p) = Cardinality(OnField(told)) - Cardinality(Carded(told))
  <2>0. told \subseteq rows
    BY DEF told
  <2>1. /\ {y \in rows : Snapshot!MinutesLive(y) = 1} = OnField(rows)
        /\ {y \in told : Snapshot!MinutesIn(y) = 1} = OnField(told)
        /\ {y \in told : Snapshot!MinutesLive(y) = 1} = OnField(told)
        /\ {y \in rows : Snapshot!BookingsLive(y) = 1} = Carded(rows)
        /\ {y \in told : Snapshot!BookingsLive(y) = 1} = Carded(told)
    BY <1>6, <2>0
  <2>2. rows = Snapshot!Rows(p) /\ told = Snapshot!Explained(p)
    BY DEF rows, told, Snapshot!Explained
  <2>3. Snapshot!TotalMinutes(p) = Cardinality(OnField(rows))
    BY <2>1, <2>2, SameOperators DEF Snapshot!TotalMinutes, Snapshot!Count
  <2>4. Snapshot!ExplainedMinutes(p) = Cardinality(OnField(told))
    BY <1>5, <2>1, <2>2, SameOperators DEF Snapshot!ExplainedMinutes, Snapshot!Count
  <2>5. Snapshot!TotalPoints(p) = Cardinality(OnField(rows)) - Cardinality(Carded(rows))
    BY <2>1, <2>2, SameOperators DEF Snapshot!TotalPoints, Snapshot!Count
  <2>6. Snapshot!ExplainedPoints(p) = Cardinality(OnField(told)) - Cardinality(Carded(told))
    BY <2>1, <2>2, SameOperators DEF Snapshot!ExplainedPoints, Snapshot!Count
  <2> QED
    BY <2>3, <2>4, <2>5, <2>6
<1>8. IsFiniteSet(rows) /\ told \subseteq rows
  <2>1. IsFiniteSet(Matches)
    BY SameOperators DEF Snapshot!LegalConstants
  <2>2. IsFiniteSet({p} \X Matches)
    BY <2>1, FS_Singleton, FS_Product
  <2>3. rows \subseteq {p} \X Matches
    BY <1>1 DEF rows, Snapshot!Rows, Snapshot!Pairs
  <2> QED
    BY <2>2, <2>3, FS_Subset DEF told
<1>9. /\ IsFiniteSet(OnField(rows)) /\ OnField(told) \subseteq OnField(rows)
      /\ IsFiniteSet(Carded(rows)) /\ Carded(told) \subseteq Carded(rows)
  BY <1>8, FS_Subset
<1>10. /\ Cardinality(OnField(rows)) \in Nat /\ Cardinality(OnField(told)) \in Nat
       /\ Cardinality(Carded(rows)) \in Nat /\ Cardinality(Carded(told)) \in Nat
  BY <1>9, FS_Subset, FS_CardinalityType
<1>11. /\ Cardinality(OnField(rows)) = Cardinality(OnField(told))
       /\ Cardinality(Carded(rows)) = Cardinality(Carded(told))
  <2>1. Cardinality(OnField(rows)) = Cardinality(OnField(told))
    BY <1>2, <1>7, Zenon
  <2>2. Cardinality(OnField(rows)) - Cardinality(Carded(rows)) = Cardinality(OnField(told)) - Cardinality(Carded(told))
    BY <1>2, <1>7, Zenon
  <2> HIDE DEF OnField, Carded
  <2> QED
    BY <2>1, <2>2, <1>10
<1>12. OnField(told) = OnField(rows) /\ Carded(told) = Carded(rows)
  BY <1>9, <1>11, FS_Subset
<1>13. x \notin OnField(rows) /\ x \notin Carded(rows)
  BY <1>3, <1>12
<1> QED
  BY <1>1, <1>2, <1>3, <1>13

\* A complete snapshot stands.
LEMMA SnapshotFromInv ==
    ASSUME Snapshot!LegalConstants, SnapshotInv
    PROVE  Snapshot!SnapshotTrue
<1> SUFFICES ASSUME ended = "done" PROVE Snapshot!SettledIsSettled /\ Snapshot!LeagueReadWhole
  BY ZerosAreTrue DEF Snapshot!SnapshotTrue, Snapshot!SettledIsSettled, Snapshot!LeagueReadWhole, Snapshot!Complete
<1>1. WorldInv /\ OfficialInv /\ LeagueInv /\ PicksInv /\ FixturesInv /\ SeasonInv /\ LiveInv /\ at = 6
  BY DEF SnapshotInv, LiveInv
<1>2. DOMAIN got.fixtures = MatchesIn[got.gameweek] /\ DOMAIN got.fixtures \subseteq Matches
  <2>1. got.gameweek \in Gameweeks
    BY <1>1 DEF OfficialInv
  <2>2. DOMAIN got.fixtures = MatchesIn[got.gameweek]
    BY <1>1 DEF FixturesInv
  <2> QED
    BY <2>1, <2>2 DEF Snapshot!LegalConstants
<1>3. \A x \in DOMAIN got.live : got.fixtures[x[2]] = "over" => got.live[x] = did[x]
  BY <1>1 DEF LiveInv
<1>4. ASSUME got.season # Snapshot!NoSeason, NEW t PROVE Snapshot!MatchesOf(t) >= Snapshot!Begun(t)
  <2> DEFINE all == {f \in DOMAIN got.season : t \in Clubs[f] /\ got.season[f] # "ahead"}
  <2> DEFINE begun == {f \in DOMAIN got.fixtures : t \in Clubs[f] /\ Snapshot!Started(f)}
  <2>1. DOMAIN got.season = Matches /\ \A f \in DOMAIN got.fixtures : got.season[f] = got.fixtures[f]
    BY <1>1, <1>4 DEF SeasonInv
  <2>2. begun \subseteq all
    BY <1>2, <2>1 DEF Snapshot!Started
  <2>3. IsFiniteSet(Matches)
    BY SameOperators DEF Snapshot!LegalConstants
  <2>4. IsFiniteSet(all)
    BY <2>1, <2>3, FS_Subset
  <2>5. Cardinality(begun) <= Cardinality(all) /\ Cardinality(begun) \in Nat /\ Cardinality(all) \in Nat
    BY <2>2, <2>4, FS_Subset, FS_CardinalityType
  <2> QED
    BY <2>5, SameOperators DEF Snapshot!MatchesOf, Snapshot!Begun
<1>5. \A p \in Roster : \A f \in Snapshot!HistoryOf(p) : stage[f] = "over"
  BY <1>1 DEF Snapshot!HistoryOf, SeasonInv, PlayedOut
<1>6. ASSUME Snapshot!OfficialMultipliers
      PROVE  Snapshot!AllOver /\ \A i \in DOMAIN Snapshot!StateManagers : Snapshot!StateManagers[i].official
  <2>1. got.historical \/ got.final
    BY <1>6 DEF Snapshot!OfficialMultipliers
  <2>2. Snapshot!AllOver
    BY <1>1, <1>2, <2>1 DEF FixturesInv, Snapshot!AllOver
  <2>3. \A i \in DOMAIN got.standings : got.picks[got.standings[i]] = TRUE
    BY <1>1, <2>1 DEF PicksInv
  <2> QED
    BY <2>2, <2>3 DEF Snapshot!StateManagers
<1>7. Snapshot!SettledIsSettled
  BY <1>3, <1>4, <1>5, <1>6 DEF Snapshot!SettledIsSettled
<1>8. Snapshot!LeagueReadWhole
  BY <1>1 DEF LeagueInv, Snapshot!LeagueReadWhole
<1> QED
  BY <1>7, <1>8

\* The inductive invariant of fetch_snapshot (api.py:320): what each request has read
\* still holds of FPL, which goes on meanwhile.
THEOREM SnapshotInvariant ==
    ASSUME Snapshot!LegalConstants
    PROVE  Snapshot!Spec => []SnapshotInv
<1>1. Snapshot!Init => SnapshotInv
  BY SnapshotInit
<1>2. SnapshotInv /\ [Snapshot!Next]_Snapshot!vars => SnapshotInv'
  BY SnapshotStep
<1> QED
  BY <1>1, <1>2, PTL DEF Snapshot!Spec

\* SnapshotTrue, for any number of matches, players, managers and pages: what a snapshot
\* calls over, official or a confirmed zero can no longer change, and a league read within
\* a limit of one page is the league of one moment.
THEOREM SnapshotsAreTrue ==
    ASSUME Snapshot!LegalConstants
    PROVE  Snapshot!Spec => []SnapshotTrue
<1>1. SnapshotInv => SnapshotTrue
  BY SnapshotFromInv DEF SnapshotTrue
<1> QED
  BY <1>1, SnapshotInvariant, PTL
=============================================================================
