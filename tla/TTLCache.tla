------------------------------ MODULE TTLCache ------------------------------
(***************************************************************************)
(* The bounded, expiring mapping every cache of the program is: a lookup   *)
(* never returns an expired value, a store first drops what has expired    *)
(* and then, if a new key finds the cache full, the entry that has been in *)
(* the dict longest.  Overwriting a key keeps its place in that order.     *)
(*                                                                         *)
(* A cache is a function from the keys present to entries                  *)
(*   [value, expires, rank]                                                *)
(* where rank is the key's position in the dict's insertion order (0 is    *)
(* the oldest).  Every operation holds the cache's own lock, so each is    *)
(* one step of the modules that use these operators.                       *)
(***************************************************************************)
EXTENDS Integers, FiniteSets

EmptyCache == [k \in {} |-> 0]

Entry(V) == [value : V, expires : Nat, rank : Nat]

\* A cache maps at most cap keys of K to values of V.
CacheOf(c, K, V, cap) ==
    /\ c \in [DOMAIN c -> Entry(V)]
    /\ DOMAIN c \subseteq K
    /\ IsFiniteSet(DOMAIN c) /\ Cardinality(DOMAIN c) <= cap

\* Mutant: an entry still counts at the instant it expires.
LiveKeysAtExpiry(c, now) == {k \in DOMAIN c : c[k].expires >= now}

\* The keys a lookup at time now would find: expires_at <= now is expired.
LiveKeys(c, now) == {k \in DOMAIN c : c[k].expires > now}

Holds(c, k, now) == k \in LiveKeys(c, now)

\* What is left when only the keys of S stay: the order closes up.
Keep(c, S) ==
    [k \in S |-> [c[k] EXCEPT !.rank = Cardinality({x \in S : c[x].rank < c[k].rank})]]

\* Mutant: the newest entry makes room.
Newest(c, S) == CHOOSE k \in S : \A x \in S : c[k].rank >= c[x].rank

Oldest(c, S) == CHOOSE k \in S : \A x \in S : c[k].rank <= c[x].rank

\* get() also deletes the one entry it finds expired.
AfterGet(c, k, now) ==
    IF k \in DOMAIN c /\ ~Holds(c, k, now) THEN Keep(c, DOMAIN c \ {k}) ELSE c

\* The keys that stay when k is stored: the expired go first, then the
\* oldest one if k is new and the rest still fill the cache.
Retained(c, k, now, cap) ==
    LET live == LiveKeys(c, now)
    IN  IF k \notin live /\ Cardinality(live) >= cap
        THEN live \ {Oldest(c, live)}
        ELSE live

AfterSet(c, k, v, now, ttl, cap) ==
    LET stay == Retained(c, k, now, cap)
        kept == Keep(c, stay)
    IN  [x \in stay \cup {k} |->
            IF x # k THEN kept[x]
            ELSE [value   |-> v,
                  expires |-> now + ttl,
                  rank    |-> IF k \in stay THEN kept[k].rank ELSE Cardinality(stay)]]

AfterDelete(c, k) == Keep(c, DOMAIN c \ {k})
=============================================================================
