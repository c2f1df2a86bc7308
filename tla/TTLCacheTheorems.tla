-------------------------- MODULE TTLCacheTheorems --------------------------
(***************************************************************************)
(* What the operations of a TTLCache keep and return, for any keys,        *)
(* values, lifetime and capacity.  The theorems about the services that    *)
(* own caches cite these and never open the operators.                     *)
(***************************************************************************)
EXTENDS TTLCache, FiniteSetTheorems, WellFoundedInduction, TLAPS

\* A non-empty finite set of cached keys has an oldest one, so eviction is defined.
LEMMA OldestExists ==
    ASSUME NEW c, NEW S, IsFiniteSet(S), S # {}, \A k \in S : c[k].rank \in Nat
    PROVE  Oldest(c, S) \in S
<1> DEFINE Below(k) == {x \in S : c[x].rank < c[k].rank}
           Sets == {Below(k) : k \in S}
<1>1. \A k \in S : Below(k) \in FiniteSubsetsOf(S)
  <2> SUFFICES ASSUME NEW k \in S PROVE Below(k) \in FiniteSubsetsOf(S)
    OBVIOUS
  <2>1. Below(k) \in SUBSET S
    OBVIOUS
  <2>2. IsFiniteSet(Below(k))
    BY <2>1, FS_Subset
  <2> QED
    BY <2>1, <2>2 DEF FiniteSubsetsOf
<1>2. Sets \subseteq FiniteSubsetsOf(S) /\ Sets # {}
  BY <1>1
<1>3. PICK m \in Sets : \A y \in Sets : <<y, m>> \notin StrictSubsetOrdering(S)
  <2> HIDE DEF Sets
  <2> QED
    BY <1>2, FS_StrictSubsetOrderingWellFounded, WFMin
<1>4. PICK k \in S : m = Below(k)
  BY <1>3
<1>5. \A x \in S : c[k].rank <= c[x].rank
  <2> SUFFICES ASSUME NEW x \in S, c[x].rank < c[k].rank PROVE FALSE
    OBVIOUS
  <2>1. Below(x) \subseteq Below(k)
    OBVIOUS
  <2>2. x \in Below(k) /\ x \notin Below(x)
    OBVIOUS
  <2>3. <<Below(x), m>> \in StrictSubsetOrdering(S)
    BY <1>4, <2>1, <2>2 DEF StrictSubsetOrdering
  <2> QED
    BY <1>3, <2>3
<1> QED
  BY <1>5 DEF Oldest

\* Keeping some keys keeps a well-formed cache, and the kept keys' values and deadlines.
LEMMA KeepEntries ==
    ASSUME NEW c, NEW K, NEW V, NEW cap \in Nat, CacheOf(c, K, V, cap),
           NEW S \in SUBSET (DOMAIN c)
    PROVE  /\ CacheOf(Keep(c, S), K, V, cap)
           /\ DOMAIN Keep(c, S) = S
           /\ \A k \in S : /\ Keep(c, S)[k].value = c[k].value
                           /\ Keep(c, S)[k].expires = c[k].expires
<1>1. IsFiniteSet(S) /\ Cardinality(S) <= cap
  <2>1. IsFiniteSet(DOMAIN c) /\ Cardinality(DOMAIN c) <= cap
    BY DEF CacheOf
  <2>2. IsFiniteSet(S) /\ Cardinality(S) <= Cardinality(DOMAIN c)
    BY <2>1, FS_Subset
  <2> QED
    BY <2>1, <2>2, FS_CardinalityType
<1>2. \A k \in S : /\ Keep(c, S)[k] \in Entry(V)
                   /\ Keep(c, S)[k].value = c[k].value
                   /\ Keep(c, S)[k].expires = c[k].expires
  <2> SUFFICES ASSUME NEW k \in S
               PROVE  /\ Keep(c, S)[k] \in Entry(V)
                      /\ Keep(c, S)[k].value = c[k].value
                      /\ Keep(c, S)[k].expires = c[k].expires
    OBVIOUS
  <2> DEFINE T == {x \in S : c[x].rank < c[k].rank}
  <2>1. Cardinality(T) \in Nat
    <3>1. T \in SUBSET S
      OBVIOUS
    <3>2. IsFiniteSet(T)
      BY <1>1, <3>1, FS_Subset
    <3> QED
      BY <3>2, FS_CardinalityType
  <2>2. Keep(c, S)[k] = [c[k] EXCEPT !.rank = Cardinality(T)]
    BY DEF Keep
  <2>3. c[k] \in Entry(V)
    BY DEF CacheOf
  <2> HIDE DEF T
  <2> QED
    BY <2>1, <2>2, <2>3 DEF Entry
<1>3. DOMAIN Keep(c, S) = S
  BY DEF Keep
<1>4. Keep(c, S) \in [S -> Entry(V)]
  <2>1. Keep(c, S) = [k \in S |-> Keep(c, S)[k]]
    BY DEF Keep
  <2> QED
    BY <1>2, <2>1
<1>5. S \subseteq K
  BY DEF CacheOf
<1> QED
  BY <1>1, <1>2, <1>3, <1>4, <1>5 DEF CacheOf

\* get() keeps a well-formed cache, adds nothing and changes no value or deadline.
LEMMA AfterGetEntries ==
    ASSUME NEW c, NEW K, NEW V, NEW cap \in Nat, CacheOf(c, K, V, cap), NEW k, NEW now
    PROVE  /\ CacheOf(AfterGet(c, k, now), K, V, cap)
           /\ \A x \in DOMAIN AfterGet(c, k, now) :
                  /\ x \in DOMAIN c
                  /\ AfterGet(c, k, now)[x].value = c[x].value
                  /\ AfterGet(c, k, now)[x].expires = c[x].expires
<1>1. CASE k \in DOMAIN c /\ ~Holds(c, k, now)
  <2>1. AfterGet(c, k, now) = Keep(c, DOMAIN c \ {k})
    BY <1>1 DEF AfterGet
  <2>2. DOMAIN c \ {k} \in SUBSET (DOMAIN c)
    OBVIOUS
  <2> QED
    BY <2>1, <2>2, KeepEntries
<1>2. CASE ~(k \in DOMAIN c /\ ~Holds(c, k, now))
  BY <1>2 DEF AfterGet
<1> QED
  BY <1>1, <1>2

\* new is c with v stored under k: every other entry is a live one of c, unchanged but
\* for its place.
Stores(new, c, k, v, now, ttl) ==
    /\ k \in DOMAIN new
    /\ new[k].value = v
    /\ new[k].expires = now + ttl
    /\ \A x \in DOMAIN new \ {k} : /\ x \in LiveKeys(c, now)
                                   /\ new[x].value = c[x].value
                                   /\ new[x].expires = c[x].expires

\* set() keeps a well-formed cache and stores the value.
LEMMA AfterSetStores ==
    ASSUME NEW c, NEW K, NEW V, NEW cap \in Nat \ {0}, CacheOf(c, K, V, cap),
           NEW k \in K, NEW v \in V, NEW now \in Nat, NEW ttl \in Nat
    PROVE  /\ CacheOf(AfterSet(c, k, v, now, ttl, cap), K, V, cap)
           /\ Stores(AfterSet(c, k, v, now, ttl, cap), c, k, v, now, ttl)
<1> DEFINE live == LiveKeys(c, now)
           stay == Retained(c, k, now, cap)
           kept == Keep(c, stay)
           new == AfterSet(c, k, v, now, ttl, cap)
<1>1. /\ live \in SUBSET (DOMAIN c) /\ IsFiniteSet(live)
      /\ Cardinality(live) \in Nat /\ Cardinality(live) <= cap
  <2>1. live \in SUBSET (DOMAIN c) /\ IsFiniteSet(DOMAIN c) /\ Cardinality(DOMAIN c) <= cap
    BY DEF LiveKeys, CacheOf
  <2>2. IsFiniteSet(live) /\ Cardinality(live) <= Cardinality(DOMAIN c)
    BY <2>1, FS_Subset
  <2> QED
    BY <2>1, <2>2, FS_CardinalityType
<1>2. /\ stay \in SUBSET live /\ IsFiniteSet(stay)
      /\ Cardinality(stay) \in Nat
      /\ Cardinality(stay) <= cap
      /\ k \notin stay => Cardinality(stay) < cap
  <2>1. CASE k \notin live /\ Cardinality(live) >= cap
    <3>1. stay = live \ {Oldest(c, live)}
      BY <2>1 DEF Retained
    <3>2. \A x \in live : c[x].rank \in Nat
      BY <1>1 DEF CacheOf, Entry
    <3>3. live # {}
      BY <2>1, FS_EmptySet
    <3>4. Oldest(c, live) \in live
      BY <1>1, <3>2, <3>3, OldestExists
    <3>5. IsFiniteSet(stay) /\ Cardinality(stay) = Cardinality(live) - 1
      BY <1>1, <3>1, <3>4, FS_RemoveElement
    <3>6. stay \in SUBSET live
      BY <3>1
    <3>7. Cardinality(stay) \in Nat
      BY <3>5, FS_CardinalityType
    <3> HIDE DEF live, stay
    <3> QED
      BY <1>1, <3>5, <3>6, <3>7
  <2>2. CASE ~(k \notin live /\ Cardinality(live) >= cap)
    <3>1. stay = live
      BY <2>2 DEF Retained
    <3> HIDE DEF live, stay
    <3> QED
      BY <1>1, <2>2, <3>1
  <2> QED
    BY <2>1, <2>2
<1>3. /\ CacheOf(kept, K, V, cap) /\ DOMAIN kept = stay
      /\ \A x \in stay : kept[x].value = c[x].value /\ kept[x].expires = c[x].expires
  BY <1>1, <1>2, KeepEntries
<1>4. DOMAIN new = stay \cup {k}
  BY DEF AfterSet
<1>5. \A x \in stay \ {k} : new[x] = kept[x]
  BY DEF AfterSet
<1>6. /\ new[k].value = v /\ new[k].expires = now + ttl
      /\ new[k] = [value |-> v, expires |-> now + ttl,
                   rank |-> IF k \in stay THEN kept[k].rank ELSE Cardinality(stay)]
  BY DEF AfterSet
<1>7. new = [x \in stay \cup {k} |-> new[x]]
  BY DEF AfterSet
<1> HIDE DEF live, stay, kept, new
<1>8. \A x \in stay \cup {k} : new[x] \in Entry(V)
  <2>1. \A x \in stay : kept[x] \in Entry(V)
    BY <1>3 DEF CacheOf
  <2>2. new[k] \in Entry(V)
    BY <1>2, <1>6, <2>1 DEF Entry
  <2> QED
    BY <1>5, <2>1, <2>2
<1>9. stay \cup {k} \subseteq K
  BY <1>3 DEF CacheOf
<1>10. IsFiniteSet(stay \cup {k}) /\ Cardinality(stay \cup {k}) <= cap
  <2>1. /\ IsFiniteSet(stay \cup {k})
        /\ Cardinality(stay \cup {k}) =
               IF k \in stay THEN Cardinality(stay) ELSE Cardinality(stay) + 1
    BY <1>2, FS_AddElement
  <2> QED
    BY <1>2, <2>1
<1>11. CacheOf(new, K, V, cap)
  BY <1>4, <1>7, <1>8, <1>9, <1>10 DEF CacheOf
<1>12. \A x \in DOMAIN new \ {k} :
          x \in live /\ new[x].value = c[x].value /\ new[x].expires = c[x].expires
  BY <1>2, <1>3, <1>4, <1>5
<1> QED
  BY <1>4, <1>6, <1>11, <1>12 DEF new, live, Stores

-----------------------------------------------------------------------------
(* The order of insertion. *)

\* Eviction takes an entry that none precedes.
LEMMA OldestPrecedes ==
    ASSUME NEW c, NEW S, IsFiniteSet(S), S # {}, \A k \in S : c[k].rank \in Nat
    PROVE  \A x \in S : c[Oldest(c, S)].rank <= c[x].rank
<1> DEFINE Ranks == {c[k].rank : k \in S}
<1>1. Ranks \subseteq Nat /\ Ranks # {}
  OBVIOUS
<1>2. PICK m \in Ranks : \A y \in Ranks : <<y, m>> \notin OpToRel(<, Nat)
  <2> HIDE DEF Ranks
  <2> QED
    BY <1>1, NatLessThanWellFounded, WFMin, Zenon
<1>3. \A y \in Ranks : m <= y
  <2> SUFFICES ASSUME NEW y \in Ranks PROVE m <= y
    OBVIOUS
  <2>1. y \in Nat /\ m \in Nat /\ <<y, m>> \notin OpToRel(<, Nat)
    BY <1>1, <1>2
  <2> QED
    BY <2>1 DEF OpToRel
<1>4. PICK k \in S : m = c[k].rank
  BY <1>2
<1>5. \A x \in S : c[k].rank <= c[x].rank
  BY <1>3, <1>4
<1> QED
  BY <1>5 DEF Oldest

\* The keys that stay keep their order, and their ranks count them.
LEMMA KeepOrder ==
    ASSUME NEW c, NEW K, NEW V, NEW cap \in Nat, CacheOf(c, K, V, cap), NEW S \in SUBSET (DOMAIN c)
    PROVE  /\ \A a, b \in S : c[a].rank < c[b].rank => Keep(c, S)[a].rank < Keep(c, S)[b].rank
           /\ \A a \in S : Keep(c, S)[a].rank < Cardinality(S)
<1> DEFINE Before(k) == {x \in S : c[x].rank < c[k].rank}
<1>1. IsFiniteSet(S)
  BY FS_Subset DEF CacheOf
<1>2. \A k \in S : c[k] \in Entry(V)
  BY DEF CacheOf
<1>3. \A k \in S : c[k].rank \in Nat
  BY <1>2 DEF Entry
<1>4. ASSUME NEW k \in S
      PROVE  Keep(c, S)[k].rank = Cardinality(Before(k))
  <2>1. Keep(c, S)[k] = [c[k] EXCEPT !.rank = Cardinality(Before(k))]
    BY DEF Keep
  <2>2. c[k] \in Entry(V)
    BY <1>2
  <2> HIDE DEF Before
  <2> QED
    BY <2>1, <2>2 DEF Entry
<1>5. ASSUME NEW A \in SUBSET S, NEW B \in SUBSET A, NEW x \in A, x \notin B
      PROVE  Cardinality(B) < Cardinality(A)
  <2>1. IsFiniteSet(A)
    BY <1>1, FS_Subset
  <2>2. B \in SUBSET A /\ B # A
    BY <1>5
  <2>3. IsFiniteSet(B) /\ Cardinality(B) <= Cardinality(A) /\ (Cardinality(A) = Cardinality(B) => A = B)
    BY <2>1, <2>2, FS_Subset
  <2>4. Cardinality(A) \in Nat /\ Cardinality(B) \in Nat
    BY <2>1, <2>3, FS_CardinalityType
  <2> QED
    BY <2>2, <2>3, <2>4
<1>6. ASSUME NEW a \in S, NEW b \in S, c[a].rank < c[b].rank
      PROVE  Cardinality(Before(a)) < Cardinality(Before(b))
  <2>1. Before(b) \in SUBSET S /\ Before(a) \in SUBSET Before(b) /\ a \in Before(b) /\ a \notin Before(a)
    BY <1>3, <1>6
  <2> HIDE DEF Before
  <2> QED
    BY <1>5, <2>1
<1>7. ASSUME NEW a \in S PROVE Cardinality(Before(a)) < Cardinality(S)
  <2>1. Before(a) \in SUBSET S /\ a \notin Before(a)
    BY <1>3
  <2> HIDE DEF Before
  <2> QED
    BY <1>5, <2>1
<1> HIDE DEF Before
<1> QED
  BY <1>6, <1>7, <1>4

\* A lookup keeps the order, and every entry that is not expired.
LEMMA AfterGetOrder ==
    ASSUME NEW c, NEW K, NEW V, NEW cap \in Nat, CacheOf(c, K, V, cap), NEW k, NEW now
    PROVE  /\ \A a, b \in DOMAIN AfterGet(c, k, now) :
                 c[a].rank < c[b].rank => AfterGet(c, k, now)[a].rank < AfterGet(c, k, now)[b].rank
           /\ LiveKeys(c, now) \subseteq DOMAIN AfterGet(c, k, now)
<1>1. CASE k \in DOMAIN c /\ ~Holds(c, k, now)
  <2> DEFINE S == DOMAIN c \ {k}
  <2>1. AfterGet(c, k, now) = Keep(c, S)
    BY <1>1 DEF AfterGet
  <2>2. S \in SUBSET (DOMAIN c) /\ LiveKeys(c, now) \subseteq S
    BY <1>1 DEF Holds, LiveKeys
  <2> HIDE DEF S
  <2>3. DOMAIN Keep(c, S) = S
    BY DEF Keep
  <2>4. \A a, b \in S : c[a].rank < c[b].rank => Keep(c, S)[a].rank < Keep(c, S)[b].rank
    BY <2>2, KeepOrder
  <2> QED
    BY <2>1, <2>2, <2>3, <2>4
<1>2. CASE ~(k \in DOMAIN c /\ ~Holds(c, k, now))
  BY <1>2 DEF AfterGet, LiveKeys
<1> QED
  BY <1>1, <1>2

\* Storing a new key puts it last and keeps the order of the others; a live entry goes only
\* from a full cache and only if no live one precedes it.
LEMMA AfterSetOrder ==
    ASSUME NEW c, NEW K, NEW V, NEW cap \in Nat \ {0}, CacheOf(c, K, V, cap),
           NEW k \in K, k \notin DOMAIN c, NEW v \in V, NEW now \in Nat, NEW ttl \in Nat,
           NEW new, new = AfterSet(c, k, v, now, ttl, cap)
    PROVE  /\ \A a, b \in DOMAIN new \ {k} : c[a].rank < c[b].rank => new[a].rank < new[b].rank
           /\ \A a \in DOMAIN new \ {k} : new[a].rank < new[k].rank
           /\ \A x \in LiveKeys(c, now) \ DOMAIN new :
                 /\ Cardinality(LiveKeys(c, now)) >= cap
                 /\ \A y \in LiveKeys(c, now) : c[x].rank <= c[y].rank
<1> DEFINE live == LiveKeys(c, now)
           stay == Retained(c, k, now, cap)
           kept == Keep(c, stay)
<1>1. /\ live \in SUBSET (DOMAIN c) /\ stay \in SUBSET live /\ k \notin stay /\ IsFiniteSet(live)
  BY FS_Subset DEF LiveKeys, Retained, CacheOf
<1>2. /\ DOMAIN new = stay \cup {k} /\ \A x \in stay : new[x] = kept[x]
      /\ new[k].rank = Cardinality(stay)
  BY <1>1 DEF AfterSet
<1>3. /\ \A a, b \in stay : c[a].rank < c[b].rank => kept[a].rank < kept[b].rank
      /\ \A a \in stay : kept[a].rank < Cardinality(stay)
  <2>1. stay \in SUBSET (DOMAIN c)
    BY <1>1
  <2> HIDE DEF stay
  <2> QED
    BY <2>1, KeepOrder
<1>4. ASSUME NEW x \in live \ stay
      PROVE  Cardinality(live) >= cap /\ \A y \in live : c[x].rank <= c[y].rank
  <2>1. Cardinality(live) >= cap /\ x = Oldest(c, live)
    BY <1>4 DEF Retained
  <2>2. \A y \in live : c[y].rank \in Nat
    BY <1>1 DEF CacheOf, Entry
  <2>3. live # {}
    BY <1>4
  <2> HIDE DEF live
  <2> QED
    BY <1>1, <2>1, <2>2, <2>3, OldestPrecedes
<1> HIDE DEF kept, stay
<1>5. DOMAIN new \ {k} = stay
  BY <1>1, <1>2
<1> QED
  BY <1>1, <1>2, <1>3, <1>4, <1>5

=============================================================================
