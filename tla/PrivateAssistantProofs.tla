----------------------- MODULE PrivateAssistantProofs -----------------------
(***************************************************************************)
(* The store of sessions, the boundary that uses it and the page in the    *)
(* browser, in this order.                                                 *)
(*                                                                         *)
(* For any limits, windows, addresses and tokens: no window of sign-ins    *)
(* exceeds its limits, although the table of addresses is bounded, and a   *)
(* session the store accepts is a recent, recently used, not logged out    *)
(* login.  The limits are inductive only with what the queues hold: every  *)
(* charged attempt that still counts is in the queue of its address and in *)
(* the queue of all.  What could break that is the trimming of the address *)
(* table; it never happens, because after a purge each address of the      *)
(* table owns an attempt of the last Window seconds, and there are fewer   *)
(* of those than GlobalLimit when one more is let through.                 *)
(*                                                                         *)
(* For any requests, deadlines and lifetimes: the boundary drives the      *)
(* store only as its specification allows, an answer leaves only for a     *)
(* session that is live and not logged out, and a request that entered     *)
(* after a refresh plans on a newer catalogue.  The last is inductive with *)
(* two facts about the lock: the cached forecast, and the download in      *)
(* progress, both began after the last refresh.  Refresh waits for the     *)
(* lock, so there is then no download.                                     *)
(*                                                                         *)
(* For any sessions, squads, horizons and models, and however requests and *)
(* answers interleave: a locked page shows nothing private, and what is    *)
(* shown is what is selected.  Inductive with what each request under way  *)
(* was sent with: the nonce of the page, and the selection or one that is  *)
(* marked as unanswered.                                                   *)
(***************************************************************************)
EXTENDS PrivateAssistant, PrivatePage, TTLCacheTheorems

-----------------------------------------------------------------------------
(* The store                                                               *)


\* The queues are within their limits and lose nothing that still counts.
QueueInv ==
    /\ IsFiniteSet(charged) /\ \A x \in charged : x.id < Cardinality(charged)
    /\ IsFiniteSet(globalAttempts) /\ Cardinality(globalAttempts) <= GlobalLimit
    /\ InWindow \subseteq globalAttempts
    /\ \A a \in DOMAIN attempts :
          /\ IsFiniteSet(attempts[a]) /\ Cardinality(attempts[a]) <= PerAddress
          /\ attempts[a] \subseteq {x \in charged : x.address = a}
    /\ \A x \in InWindow : x.address \in DOMAIN attempts /\ x \in attempts[x.address]

\* A stored session agrees with its history.
SessionInv ==
    \A t \in DOMAIN sessions :
        /\ sessions[t].expires = used[t].opened + SessionSeconds
        /\ sessions[t].value = used[t].last
        /\ ~used[t].out

AuthInv == TypeOK /\ IsFiniteSet(Hashing) /\ QueueInv /\ SessionInv

-----------------------------------------------------------------------------
(* The sign-in queues                                                      *)

\* After a purge the table of addresses is no larger than the queue of all.
LEMMA PurgedSmall ==
    ASSUME TypeOK, QueueInv
    PROVE  /\ IsFiniteSet(Recent(globalAttempts))
           /\ IsFiniteSet(DOMAIN Purged)
           /\ Cardinality(DOMAIN Purged) <= Cardinality(Recent(globalAttempts))
<1> DEFINE f == [a \in DOMAIN Purged |-> CHOOSE x \in Recent(attempts[a]) : TRUE]
<1>1. IsFiniteSet(Recent(globalAttempts))
  <2>1. Recent(globalAttempts) \in SUBSET globalAttempts
    BY DEF Recent
  <2> QED
    BY <2>1, FS_Subset DEF QueueInv
<1>2. \A a \in DOMAIN Purged :
        f[a] \in Recent(globalAttempts) /\ f[a].address = a
  <2> SUFFICES ASSUME NEW a \in DOMAIN Purged
               PROVE  f[a] \in Recent(globalAttempts) /\ f[a].address = a
    OBVIOUS
  <2>1. a \in DOMAIN attempts /\ Recent(attempts[a]) # {}
    BY DEF Purged
  <2>2. f[a] \in Recent(attempts[a])
    BY <2>1
  <2>3. f[a] \in charged /\ f[a].address = a /\ f[a].at > now - Window
    BY <2>1, <2>2 DEF Recent, QueueInv
  <2> QED
    BY <2>3 DEF InWindow, QueueInv, Recent
<1>3. f \in Injection(DOMAIN Purged, Recent(globalAttempts))
  <2>1. f \in [DOMAIN Purged -> Recent(globalAttempts)]
    BY <1>2
  <2>2. \A a, b \in DOMAIN Purged : f[a] = f[b] => a = b
    <3> HIDE DEF f
    <3> QED
      BY <1>2
  <2> HIDE DEF f
  <2> QED
    BY <2>1, <2>2 DEF Injection, IsInjective
<1> QED
  BY <1>1, <1>3, FS_Injection

\* When a sign-in is let through, no address is dropped from the table.
LEMMA NeverTrimmed ==
    ASSUME TypeOK, QueueInv, NEW a \in Addresses, ~Refused(a)
    PROVE  Trimmed(Queues(a)) = {Queues(a)}
<1>1. IsFiniteSet(DOMAIN Purged)
      /\ Cardinality(DOMAIN Purged) <= Cardinality(Recent(globalAttempts))
      /\ IsFiniteSet(Recent(globalAttempts))
  BY PurgedSmall
<1>2. Cardinality(DOMAIN Purged) \in Nat /\ Cardinality(Recent(globalAttempts)) \in Nat
  BY <1>1, FS_CardinalityType
<1>3. Cardinality(Recent(globalAttempts)) < GlobalLimit
  BY <1>2, LimitAssumption DEF Refused
<1>4. DOMAIN Queues(a) = DOMAIN Purged \cup {a}
  BY DEF Queues
<1>5. Cardinality(DOMAIN Queues(a)) <= Cardinality(DOMAIN Purged) + 1
      /\ Cardinality(DOMAIN Queues(a)) \in Nat
  <2>1. Cardinality(DOMAIN Purged \cup {a}) =
          IF a \in DOMAIN Purged THEN Cardinality(DOMAIN Purged)
          ELSE Cardinality(DOMAIN Purged) + 1
    BY <1>1, FS_AddElement
  <2> QED
    BY <2>1, <1>2, <1>4
<1>6. ~(Cardinality(DOMAIN Queues(a)) > MaxAddresses)
  BY <1>1, <1>2, <1>3, <1>5, AddressesAssumption, LimitAssumption
<1> QED
  BY <1>6 DEF Trimmed

\* What a purge leaves: within the limits, and everything that still counts.
LEMMA QueueFacts ==
    ASSUME TypeOK, QueueInv, NEW a \in Addresses
    PROVE  /\ Queues(a) \in [DOMAIN Queues(a) -> SUBSET Attempt]
           /\ a \in DOMAIN Queues(a) /\ DOMAIN Queues(a) \subseteq Addresses
           /\ \A b \in DOMAIN Queues(a) :
                 /\ IsFiniteSet(Queues(a)[b]) /\ Cardinality(Queues(a)[b]) <= PerAddress
                 /\ Queues(a)[b] \subseteq {x \in charged : x.address = b}
           /\ \A x \in InWindow : x.address \in DOMAIN Queues(a) /\ x \in Queues(a)[x.address]
           /\ IsFiniteSet(Recent(globalAttempts))
           /\ Cardinality(Recent(globalAttempts)) <= GlobalLimit
           /\ InWindow \subseteq Recent(globalAttempts)
           /\ Recent(globalAttempts) \subseteq charged
<1>1. DOMAIN Queues(a) = DOMAIN Purged \cup {a} /\ DOMAIN Purged \subseteq DOMAIN attempts
  BY DEF Queues, Purged
<1>2. \A b \in DOMAIN Queues(a) :
        /\ IsFiniteSet(Queues(a)[b]) /\ Cardinality(Queues(a)[b]) <= PerAddress
        /\ Queues(a)[b] \subseteq {x \in charged : x.address = b}
  <2> SUFFICES ASSUME NEW b \in DOMAIN Queues(a)
               PROVE  /\ IsFiniteSet(Queues(a)[b]) /\ Cardinality(Queues(a)[b]) <= PerAddress
                      /\ Queues(a)[b] \subseteq {x \in charged : x.address = b}
    OBVIOUS
  <2>1. CASE b \in DOMAIN Purged
    <3>1. Queues(a)[b] = Recent(attempts[b]) /\ b \in DOMAIN attempts
      BY <2>1, <1>1 DEF Queues, Purged
    <3>2. Recent(attempts[b]) \in SUBSET attempts[b]
      BY DEF Recent
    <3>3. IsFiniteSet(attempts[b]) /\ Cardinality(attempts[b]) <= PerAddress
          /\ attempts[b] \subseteq {x \in charged : x.address = b}
      BY <3>1 DEF QueueInv
    <3>4. IsFiniteSet(Recent(attempts[b]))
          /\ Cardinality(Recent(attempts[b])) <= Cardinality(attempts[b])
      BY <3>2, <3>3, FS_Subset
    <3> QED
      BY <3>1, <3>2, <3>3, <3>4, FS_CardinalityType, LimitAssumption
  <2>2. CASE b \notin DOMAIN Purged
    <3>1. Queues(a)[b] = {}
      BY <2>2, <1>1 DEF Queues
    <3> QED
      BY <3>1, FS_EmptySet, LimitAssumption
  <2> QED
    BY <2>1, <2>2
<1>3. \A x \in InWindow : x.address \in DOMAIN Queues(a) /\ x \in Queues(a)[x.address]
  <2> SUFFICES ASSUME NEW x \in InWindow
               PROVE  x.address \in DOMAIN Queues(a) /\ x \in Queues(a)[x.address]
    OBVIOUS
  <2>1. x.address \in DOMAIN attempts /\ x \in Recent(attempts[x.address])
    BY DEF QueueInv, InWindow, Recent
  <2>2. x.address \in DOMAIN Purged /\ Purged[x.address] = Recent(attempts[x.address])
    BY <2>1 DEF Purged
  <2> QED
    BY <2>1, <2>2 DEF Queues
<1>4. IsFiniteSet(Recent(globalAttempts))
      /\ Cardinality(Recent(globalAttempts)) <= GlobalLimit
  <2>1. Recent(globalAttempts) \in SUBSET globalAttempts
    BY DEF Recent
  <2>2. IsFiniteSet(Recent(globalAttempts))
        /\ Cardinality(Recent(globalAttempts)) <= Cardinality(globalAttempts)
    BY <2>1, FS_Subset DEF QueueInv
  <2> QED
    BY <2>2, FS_CardinalityType, LimitAssumption DEF QueueInv
<1>5. InWindow \subseteq Recent(globalAttempts) /\ Recent(globalAttempts) \subseteq charged
  BY DEF QueueInv, InWindow, Recent, TypeOK
<1>6. Queues(a) \in [DOMAIN Queues(a) -> SUBSET Attempt]
  <2>1. Queues(a) = [b \in DOMAIN Queues(a) |-> Queues(a)[b]]
    BY DEF Queues
  <2>2. \A b \in DOMAIN Queues(a) : Queues(a)[b] \in SUBSET Attempt
    BY <1>2 DEF TypeOK
  <2> QED
    BY <2>1, <2>2
<1> QED
  BY <1>1, <1>2, <1>3, <1>4, <1>5, <1>6 DEF TypeOK

\* Sign-ins, and time, keep the queues exact.
LEMMA QueueStep ==
    ASSUME TypeOK, QueueInv, [Next]_authVars
    PROVE  QueueInv'
<1> DEFINE Counting == UNCHANGED <<now, attempts, globalAttempts, charged>>
<1>1. ASSUME Counting PROVE QueueInv'
  BY <1>1 DEF QueueInv, InWindow
<1>2. ASSUME NEW l \in Logins, NEW a \in Addresses, RefuseLogin(l, a) PROVE QueueInv'
  <2>1. attempts' = Queues(a) /\ globalAttempts' = Recent(globalAttempts)
        /\ charged' = charged /\ now' = now
    BY <1>2 DEF RefuseLogin
  <2>2. InWindow' = InWindow
    BY <2>1 DEF InWindow
  <2> QED
    BY <2>1, <2>2, QueueFacts DEF QueueInv
<1>3. ASSUME NEW l \in Logins, NEW a \in Addresses, ChargeLogin(l, a) PROVE QueueInv'
  <2> DEFINE x == [id |-> Cardinality(charged), address |-> a, at |-> now]
             Q == Queues(a)
  <2>1. Trimmed(Q) = {Q}
    BY <1>3, NeverTrimmed DEF ChargeLogin
  <2>2. /\ attempts' = [b \in DOMAIN Q |-> IF b = a THEN Q[b] \cup {x} ELSE Q[b]]
        /\ globalAttempts' = Recent(globalAttempts) \cup {x}
        /\ charged' = charged \cup {x} /\ now' = now /\ ~Refused(a)
    BY <1>3, <2>1 DEF ChargeLogin
  <2>3. /\ a \in DOMAIN Q
        /\ \A b \in DOMAIN Q :
              /\ IsFiniteSet(Q[b]) /\ Cardinality(Q[b]) <= PerAddress
              /\ Q[b] \subseteq {y \in charged : y.address = b}
        /\ \A y \in InWindow : y.address \in DOMAIN Q /\ y \in Q[y.address]
        /\ IsFiniteSet(Recent(globalAttempts))
        /\ Cardinality(Recent(globalAttempts)) <= GlobalLimit
        /\ InWindow \subseteq Recent(globalAttempts)
        /\ Recent(globalAttempts) \subseteq charged
    BY QueueFacts
  <2>4. IsFiniteSet(charged') /\ \A y \in charged' : y.id < Cardinality(charged')
    <3>1. IsFiniteSet(charged) /\ Cardinality(charged) \in Nat
      BY FS_CardinalityType DEF QueueInv
    <3>2. x \notin charged
      BY <3>1 DEF QueueInv
    <3>3. IsFiniteSet(charged') /\ Cardinality(charged') = Cardinality(charged) + 1
      BY <2>2, <3>1, <3>2, FS_AddElement
    <3>4. \A y \in charged : y.id \in Nat /\ y.id < Cardinality(charged)
      BY DEF QueueInv, TypeOK, Attempt
    <3>5. x.id = Cardinality(charged)
      OBVIOUS
    <3> HIDE DEF x
    <3>6. SUFFICES ASSUME NEW y \in charged' PROVE y.id < Cardinality(charged')
      BY <3>3
    <3>7. y \in charged \/ y = x
      BY <2>2
    <3> QED
      BY <3>1, <3>3, <3>4, <3>5, <3>7
  <2>5. Cardinality(Q[a]) \in Nat /\ Cardinality(Recent(globalAttempts)) \in Nat
    BY <2>3, FS_CardinalityType
  <2>6. Cardinality(Q[a]) < PerAddress /\ Cardinality(Recent(globalAttempts)) < GlobalLimit
    BY <2>2, <2>5, LimitAssumption DEF Refused
  <2>7. IsFiniteSet(Q[a] \cup {x}) /\ Cardinality(Q[a] \cup {x}) <= PerAddress
    <3>1. IsFiniteSet(Q[a] \cup {x})
          /\ Cardinality(Q[a] \cup {x}) =
               IF x \in Q[a] THEN Cardinality(Q[a]) ELSE Cardinality(Q[a]) + 1
      <4> HIDE DEF x, Q
      <4> QED
        BY <2>3, FS_AddElement
    <3> QED
      BY <3>1, <2>5, <2>6, LimitAssumption
  <2>8. IsFiniteSet(globalAttempts') /\ Cardinality(globalAttempts') <= GlobalLimit
    <3>1. IsFiniteSet(globalAttempts')
          /\ Cardinality(globalAttempts') =
               IF x \in Recent(globalAttempts) THEN Cardinality(Recent(globalAttempts))
               ELSE Cardinality(Recent(globalAttempts)) + 1
      <4> HIDE DEF x, Q
      <4> QED
        BY <2>2, <2>3, FS_AddElement
    <3> QED
      BY <3>1, <2>5, <2>6, LimitAssumption
  <2>9. InWindow' \subseteq InWindow \cup {x}
    BY <2>2 DEF InWindow
  <2>10. x.address = a
    OBVIOUS
  <2>11. \A b \in DOMAIN attempts' :
          /\ IsFiniteSet(attempts'[b]) /\ Cardinality(attempts'[b]) <= PerAddress
          /\ attempts'[b] \subseteq {y \in charged' : y.address = b}
    <3> HIDE DEF x, Q
    <3> QED
      BY <2>2, <2>3, <2>7, <2>10
  <2>12. \A y \in InWindow' : y.address \in DOMAIN attempts' /\ y \in attempts'[y.address]
    <3> HIDE DEF x, Q
    <3> QED
      BY <2>2, <2>3, <2>9, <2>10
  <2>13. InWindow' \subseteq globalAttempts'
    <3> HIDE DEF x
    <3> QED
      BY <2>2, <2>3, <2>9
  <2> QED
    BY <2>4, <2>8, <2>11, <2>12, <2>13 DEF QueueInv
<1>4. ASSUME Tick PROVE QueueInv'
  <2>1. UNCHANGED <<attempts, globalAttempts, charged>> /\ now' = now + 1
    BY <1>4 DEF Tick
  <2>2. InWindow' \subseteq InWindow
    <3>1. now \in Nat /\ Window \in Nat /\ \A y \in charged : y.at \in Nat
      BY WindowAssumption DEF TypeOK, Attempt
    <3> QED
      BY <2>1, <3>1 DEF InWindow
  <2> QED
    BY <2>1, <2>2 DEF QueueInv
<1>5. ASSUME NEW l \in Logins, SignIn(l) PROVE QueueInv'
  <2>1. CASE \E a \in Addresses : RefuseLogin(l, a) \/ ChargeLogin(l, a)
    BY <2>1, <1>2, <1>3
  <2>2. CASE AcquireSlot(l) \/ CheckPassword(l) \/ OpenSession(l)
    BY <2>2, <1>1 DEF AcquireSlot, CheckPassword, OpenSession
  <2> QED
    BY <1>5, <2>1, <2>2 DEF SignIn
<1>6. ASSUME NEW t \in DOMAIN used, Require(t) \/ Lookup(t) \/ Logout(t) PROVE QueueInv'
  BY <1>6, <1>1 DEF Require, Lookup, Logout
<1> QED
  BY <1>1, <1>4, <1>5, <1>6 DEF Next, authVars

-----------------------------------------------------------------------------
(* Sessions                                                                *)

\* What SessionStep keeps: the sessions part of TypeOK, and SessionInv.
SessionsOK ==
    /\ CacheOf(sessions, Tokens, Nat, MaxSessions)
    /\ DOMAIN sessions \subseteq DOMAIN used
    /\ used \in [DOMAIN used -> [opened : Nat, last : Nat, out : BOOLEAN]]
    /\ SessionInv

\* A store on some of the sessions, as they were.
Kin(c) ==
    /\ CacheOf(c, Tokens, Nat, MaxSessions)
    /\ DOMAIN c \subseteq DOMAIN sessions
    /\ \A t \in DOMAIN c : c[t].value = sessions[t].value /\ c[t].expires = sessions[t].expires

LEMMA KeepIsKin ==
    ASSUME CacheOf(sessions, Tokens, Nat, MaxSessions), NEW T \in SUBSET (DOMAIN sessions)
    PROVE  Kin(Keep(sessions, T)) /\ DOMAIN Keep(sessions, T) = T
<1>1. MaxSessions \in Nat
  BY LimitAssumption
<1> QED
  BY <1>1, KeepEntries DEF Kin

\* A login finds a free place in the store it leaves.
LEMMA RoomForOne ==
    ASSUME CacheOf(sessions, Tokens, Nat, MaxSessions)
    PROVE  Kin(Kept) /\ Cardinality(DOMAIN Kept) + 1 <= MaxSessions
           /\ Cardinality(DOMAIN Kept) \in Nat
<1>1. LiveTokens \in SUBSET (DOMAIN sessions)
  BY DEF LiveTokens
<1>2. IsFiniteSet(LiveTokens) /\ Cardinality(LiveTokens) <= MaxSessions
      /\ Cardinality(LiveTokens) \in Nat
  <2>1. IsFiniteSet(DOMAIN sessions) /\ Cardinality(DOMAIN sessions) <= MaxSessions
    BY DEF CacheOf
  <2>2. IsFiniteSet(LiveTokens) /\ Cardinality(LiveTokens) <= Cardinality(DOMAIN sessions)
    BY <1>1, <2>1, FS_Subset
  <2> QED
    BY <2>1, <2>2, FS_CardinalityType, LimitAssumption
<1>3. CASE Cardinality(LiveTokens) >= MaxSessions
  <2>1. LiveTokens # {}
    BY <1>2, <1>3, FS_EmptySet, LimitAssumption
  <2>2. \A k \in LiveTokens : sessions[k].rank \in Nat
    BY <1>1 DEF CacheOf, Entry
  <2>3. Oldest(sessions, LiveTokens) \in LiveTokens
    BY <1>2, <2>1, <2>2, OldestExists
  <2> DEFINE T == LiveTokens \ {Oldest(sessions, LiveTokens)}
  <2>4. IsFiniteSet(T) /\ Cardinality(T) = Cardinality(LiveTokens) - 1
    BY <1>2, <2>3, FS_RemoveElement
  <2>5. Kept = Keep(sessions, T) /\ T \in SUBSET (DOMAIN sessions)
    BY <1>1, <1>3 DEF Kept
  <2>6. Kin(Keep(sessions, T)) /\ DOMAIN Keep(sessions, T) = T
    BY <2>5, KeepIsKin
  <2>7. Cardinality(T) \in Nat
    BY <2>4, FS_CardinalityType
  <2> HIDE DEF T
  <2> QED
    BY <1>2, <2>4, <2>5, <2>6, <2>7, LimitAssumption
<1>4. CASE ~(Cardinality(LiveTokens) >= MaxSessions)
  <2>1. Kept = Keep(sessions, LiveTokens)
    BY <1>4 DEF Kept, PurgedSessions
  <2>2. Kin(Keep(sessions, LiveTokens)) /\ DOMAIN Keep(sessions, LiveTokens) = LiveTokens
    BY <1>1, KeepIsKin
  <2> QED
    BY <1>2, <1>4, <2>1, <2>2, LimitAssumption
<1> QED
  BY <1>3, <1>4

\* Lookups, requests, logouts and logins keep sessions and history in agreement.
LEMMA SessionStep ==
    ASSUME now \in Nat, SessionsOK, [Next]_authVars
    PROVE  SessionsOK'
<1> USE LimitAssumption
<1>1. ASSUME UNCHANGED <<sessions, used>> PROVE SessionsOK'
  BY <1>1 DEF SessionsOK, SessionInv, CacheOf
<1>2. /\ Kin(PurgedSessions) /\ DOMAIN PurgedSessions = LiveTokens
      /\ LiveTokens \subseteq DOMAIN sessions
  BY KeepIsKin DEF SessionsOK, PurgedSessions, LiveTokens
<1>3. ASSUME NEW l \in Logins, OpenSession(l) PROVE SessionsOK'
  <2>1. PICK t \in Tokens \ DOMAIN used :
          /\ sessions' = [x \in DOMAIN Kept \cup {t} |->
                IF x # t THEN Kept[x]
                ELSE [value |-> now, expires |-> now + SessionSeconds,
                      rank |-> Cardinality(DOMAIN Kept)]]
          /\ used' = [x \in DOMAIN used \cup {t} |->
                IF x # t THEN used[x] ELSE [opened |-> now, last |-> now, out |-> FALSE]]
    BY <1>3 DEF OpenSession
  <2>2. Kin(Kept) /\ Cardinality(DOMAIN Kept) + 1 <= MaxSessions
        /\ Cardinality(DOMAIN Kept) \in Nat
    BY RoomForOne DEF SessionsOK
  <2>3. t \notin DOMAIN Kept
    BY <2>2 DEF Kin, SessionsOK
  <2>4. IsFiniteSet(DOMAIN sessions') /\ Cardinality(DOMAIN sessions') <= MaxSessions
    <3>1. IsFiniteSet(DOMAIN Kept)
      BY <2>2 DEF Kin, CacheOf
    <3>2. IsFiniteSet(DOMAIN Kept \cup {t})
          /\ Cardinality(DOMAIN Kept \cup {t}) = Cardinality(DOMAIN Kept) + 1
      BY <2>3, <3>1, FS_AddElement
    <3> QED
      BY <2>1, <2>2, <3>2
  <2>5. sessions' \in [DOMAIN sessions' -> Entry(Nat)] /\ DOMAIN sessions' \subseteq Tokens
    <3>1. Kept \in [DOMAIN Kept -> Entry(Nat)] /\ DOMAIN Kept \subseteq Tokens
      BY <2>2 DEF Kin, CacheOf
    <3>2. [value |-> now, expires |-> now + SessionSeconds,
           rank |-> Cardinality(DOMAIN Kept)] \in Entry(Nat)
      BY <2>2, ExpiryAssumption DEF Entry
    <3> QED
      BY <2>1, <3>1, <3>2
  <2>6. CacheOf(sessions', Tokens, Nat, MaxSessions)
    BY <2>4, <2>5 DEF CacheOf
  <2>7. DOMAIN sessions' \subseteq DOMAIN used'
        /\ used' \in [DOMAIN used' -> [opened : Nat, last : Nat, out : BOOLEAN]]
    BY <2>1, <2>2 DEF Kin, SessionsOK
  <2>8. SessionInv'
    <3> SUFFICES ASSUME NEW x \in DOMAIN sessions'
                 PROVE  /\ sessions'[x].expires = used'[x].opened + SessionSeconds
                        /\ sessions'[x].value = used'[x].last
                        /\ ~used'[x].out
      BY DEF SessionInv
    <3>1. CASE x = t
      BY <2>1, <3>1
    <3>2. CASE x # t
      <4>1. x \in DOMAIN Kept /\ x \in DOMAIN sessions /\ x \in DOMAIN used
        BY <2>1, <2>2, <3>2 DEF Kin, SessionsOK
      <4>2. sessions'[x] = Kept[x] /\ used'[x] = used[x]
        BY <2>1, <3>2, <4>1
      <4>3. Kept[x].value = sessions[x].value /\ Kept[x].expires = sessions[x].expires
        BY <2>2, <4>1 DEF Kin
      <4> QED
        BY <4>1, <4>2, <4>3 DEF SessionsOK, SessionInv
    <3> QED
      BY <3>1, <3>2
  <2> QED
    BY <2>6, <2>7, <2>8 DEF SessionsOK
<1>4. ASSUME NEW t \in DOMAIN used, Require(t) PROVE SessionsOK'
  <2>1. /\ sessions' = [x \in LiveTokens |->
              IF x = t THEN [PurgedSessions[x] EXCEPT !.value = now] ELSE PurgedSessions[x]]
        /\ used' = [used EXCEPT ![t].last = now]
    BY <1>4 DEF Require, AfterLookup
  <2>2. /\ PurgedSessions \in [LiveTokens -> Entry(Nat)] /\ LiveTokens \subseteq Tokens
        /\ IsFiniteSet(LiveTokens) /\ Cardinality(LiveTokens) <= MaxSessions
    BY <1>2 DEF Kin, CacheOf
  <2>3. CacheOf(sessions', Tokens, Nat, MaxSessions)
    BY <2>1, <2>2 DEF CacheOf, Entry
  <2>4. \A x \in LiveTokens :
          /\ sessions'[x].expires = sessions[x].expires
          /\ sessions'[x].value = IF x = t THEN now ELSE sessions[x].value
    BY <2>1, <2>2, <1>2 DEF Kin, Entry
  <2>5. DOMAIN sessions' = LiveTokens /\ LiveTokens \subseteq DOMAIN used
    BY <2>1, <1>2 DEF SessionsOK
  <2>6. \A x \in DOMAIN used :
          /\ used'[x].opened = used[x].opened /\ used'[x].out = used[x].out
          /\ used'[x].last = IF x = t THEN now ELSE used[x].last
    BY <2>1 DEF SessionsOK
  <2>7. DOMAIN used' = DOMAIN used
        /\ used' \in [DOMAIN used' -> [opened : Nat, last : Nat, out : BOOLEAN]]
    BY <2>1 DEF SessionsOK
  <2> QED
    BY <1>2, <2>3, <2>4, <2>5, <2>6, <2>7 DEF SessionsOK, SessionInv
<1>5. ASSUME NEW t \in DOMAIN used, Lookup(t) PROVE SessionsOK'
  <2>1. sessions' = [x \in LiveTokens |-> PurgedSessions[x]] /\ used' = used
    BY <1>5 DEF Lookup, AfterLookup
  <2>2. sessions' = PurgedSessions
    BY <2>1, <1>2 DEF Kin, CacheOf
  <2> QED
    BY <1>2, <2>1, <2>2 DEF SessionsOK, SessionInv, Kin
<1>6. ASSUME NEW t \in DOMAIN used, Logout(t) PROVE SessionsOK'
  <2> DEFINE T == DOMAIN sessions \ {t}
  <2>0. SUFFICES ASSUME t \in DOMAIN sessions PROVE SessionsOK'
    BY <1>6, <1>1 DEF Logout, Without, LiveTokens
  <2>1. sessions' = Keep(sessions, T)
        /\ (used' = used \/ used' = [used EXCEPT ![t].out = TRUE])
    BY <1>6, <2>0 DEF Logout, Without
  <2>2. Kin(Keep(sessions, T)) /\ DOMAIN Keep(sessions, T) = T
    BY KeepIsKin DEF SessionsOK
  <2>3. \A x \in DOMAIN used \ {t} : used'[x] = used[x]
    BY <2>1 DEF SessionsOK
  <2>4. DOMAIN used' = DOMAIN used
        /\ used' \in [DOMAIN used' -> [opened : Nat, last : Nat, out : BOOLEAN]]
    BY <2>1 DEF SessionsOK
  <2> QED
    BY <2>1, <2>2, <2>3, <2>4 DEF SessionsOK, SessionInv, Kin
<1>7. ASSUME NEW l \in Logins, SignIn(l) PROVE SessionsOK'
  BY <1>7, <1>1, <1>3 DEF SignIn, RefuseLogin, ChargeLogin, AcquireSlot, CheckPassword
<1> QED
  BY <1>1, <1>4, <1>5, <1>6, <1>7 DEF Next, Tick, authVars

-----------------------------------------------------------------------------
(* The theorems                                                            *)

\* The rest of the type invariant: the clock, the queues and the login threads.
SignInOK ==
    /\ now \in 0..MaxTime
    /\ attempts \in [DOMAIN attempts -> SUBSET Attempt]
    /\ DOMAIN attempts \subseteq Addresses
    /\ globalAttempts \subseteq charged
    /\ login \in [Logins -> {"idle", "charged", "hashing", "issue"}]
    /\ IsFiniteSet(Hashing) /\ Cardinality(Hashing) <= HashSlots
    /\ charged \subseteq Attempt

LEMMA Parts == AuthInv <=> SignInOK /\ QueueInv /\ SessionsOK
BY DEF AuthInv, TypeOK, SignInOK, SessionsOK

\* A thread that leaves the hashing state frees a slot; one that enters found one.
LEMMA SlotStep ==
    ASSUME SignInOK, NEW l \in Logins, NEW s \in {"idle", "charged", "hashing", "issue"},
           login' = [login EXCEPT ![l] = s], s = "hashing" => SlotFree
    PROVE  /\ login' \in [Logins -> {"idle", "charged", "hashing", "issue"}]
           /\ IsFiniteSet(Hashing') /\ Cardinality(Hashing') <= HashSlots
<1> USE LimitAssumption
<1>1. login \in [Logins -> {"idle", "charged", "hashing", "issue"}]
      /\ IsFiniteSet(Hashing) /\ Cardinality(Hashing) <= HashSlots /\ Cardinality(Hashing) \in Nat
  BY FS_CardinalityType DEF SignInOK
<1>2. CASE s = "hashing"
  <2>1. Hashing' = Hashing \cup {l}
    BY <1>1, <1>2 DEF Hashing
  <2>2. IsFiniteSet(Hashing \cup {l})
        /\ Cardinality(Hashing \cup {l}) =
             IF l \in Hashing THEN Cardinality(Hashing) ELSE Cardinality(Hashing) + 1
    BY <1>1, FS_AddElement
  <2>3. Cardinality(Hashing) < HashSlots
    BY <1>2 DEF SlotFree
  <2>4. Cardinality(Hashing \cup {l}) <= HashSlots
    BY <1>1, <2>2, <2>3
  <2> QED
    BY <1>1, <2>1, <2>2, <2>4
<1>3. CASE s # "hashing"
  <2>1. Hashing' \in SUBSET Hashing
    BY <1>1, <1>3 DEF Hashing
  <2>2. IsFiniteSet(Hashing') /\ Cardinality(Hashing') <= Cardinality(Hashing)
    BY <1>1, <2>1, FS_Subset
  <2> QED
    BY <1>1, <2>2, FS_CardinalityType
<1> QED
  BY <1>2, <1>3

LEMMA SignInStep ==
    ASSUME TypeOK, IsFiniteSet(Hashing), QueueInv, [Next]_authVars
    PROVE  SignInOK'
<1>0. SignInOK /\ now \in Nat
  BY BoundAssumption DEF SignInOK, TypeOK
<1>1. ASSUME UNCHANGED <<now, attempts, globalAttempts, charged, login>> PROVE SignInOK'
  BY <1>0, <1>1 DEF SignInOK, Hashing
<1>2. ASSUME NEW l \in Logins, NEW a \in Addresses, RefuseLogin(l, a) PROVE SignInOK'
  <2>1. attempts' = Queues(a) /\ globalAttempts' = Recent(globalAttempts)
        /\ UNCHANGED <<now, charged, login>>
    BY <1>2 DEF RefuseLogin
  <2> QED
    BY <1>0, <2>1, QueueFacts DEF SignInOK, Hashing
<1>3. ASSUME NEW l \in Logins, NEW a \in Addresses, ChargeLogin(l, a) PROVE SignInOK'
  <2> DEFINE x == [id |-> Cardinality(charged), address |-> a, at |-> now]
             Q == Queues(a)
  <2>1. Trimmed(Q) = {Q}
    BY <1>3, NeverTrimmed DEF ChargeLogin
  <2>2. /\ attempts' = [b \in DOMAIN Q |-> IF b = a THEN Q[b] \cup {x} ELSE Q[b]]
        /\ globalAttempts' = Recent(globalAttempts) \cup {x}
        /\ charged' = charged \cup {x} /\ now' = now
        /\ login' = [login EXCEPT ![l] = "charged"]
    BY <1>3, <2>1 DEF ChargeLogin
  <2>3. x \in Attempt
    BY <1>0, FS_CardinalityType DEF Attempt, QueueInv
  <2>4. Q \in [DOMAIN Q -> SUBSET Attempt] /\ DOMAIN Q \subseteq Addresses
        /\ Recent(globalAttempts) \subseteq charged
    BY QueueFacts
  <2>5. /\ login' \in [Logins -> {"idle", "charged", "hashing", "issue"}]
        /\ IsFiniteSet(Hashing') /\ Cardinality(Hashing') <= HashSlots
    BY <1>0, <2>2, SlotStep
  <2> HIDE DEF x, Q
  <2> QED
    BY <1>0, <2>2, <2>3, <2>4, <2>5 DEF SignInOK
<1>4. ASSUME NEW l \in Logins, AcquireSlot(l) \/ CheckPassword(l) \/ OpenSession(l)
      PROVE  SignInOK'
  <2>1. UNCHANGED <<now, attempts, globalAttempts, charged>>
    BY <1>4 DEF AcquireSlot, CheckPassword, OpenSession
  <2>2. \E s \in {"idle", "hashing", "issue"} :
          login' = [login EXCEPT ![l] = s] /\ (s = "hashing" => SlotFree)
    BY <1>4 DEF AcquireSlot, CheckPassword, OpenSession
  <2>3. /\ login' \in [Logins -> {"idle", "charged", "hashing", "issue"}]
        /\ IsFiniteSet(Hashing') /\ Cardinality(Hashing') <= HashSlots
    BY <1>0, <2>2, SlotStep
  <2> QED
    BY <1>0, <2>1, <2>3 DEF SignInOK
<1>5. ASSUME Tick PROVE SignInOK'
  <2>1. now' \in 0..MaxTime /\ UNCHANGED <<attempts, globalAttempts, charged, login>>
    BY <1>0, <1>5, BoundAssumption DEF Tick, SignInOK
  <2> QED
    BY <1>0, <2>1 DEF SignInOK, Hashing
<1>6. ASSUME NEW l \in Logins, SignIn(l) PROVE SignInOK'
  BY <1>6, <1>2, <1>3, <1>4 DEF SignIn
<1>7. ASSUME NEW t \in DOMAIN used, Require(t) \/ Lookup(t) \/ Logout(t) PROVE SignInOK'
  BY <1>7, <1>1 DEF Require, Lookup, Logout
<1> QED
  BY <1>1, <1>5, <1>6, <1>7 DEF Next, authVars

\* The inductive invariant.
THEOREM AuthInvariant == Spec => []AuthInv
<1>1. Init => AuthInv
  <2> SUFFICES ASSUME Init PROVE AuthInv
    OBVIOUS
  <2>1. now \in 0..MaxTime
    BY BoundAssumption DEF Init
  <2>2. CacheOf(sessions, Tokens, Nat, MaxSessions) /\ DOMAIN sessions = {} /\ DOMAIN used = {}
    BY FS_EmptySet, LimitAssumption DEF Init, EmptyCache, CacheOf
  <2>3. Hashing = {}
    BY DEF Init, Hashing
  <2>4. SignInOK
    BY <2>1, <2>3, FS_EmptySet, LimitAssumption DEF Init, SignInOK
  <2>5. QueueInv
    BY FS_EmptySet, LimitAssumption DEF Init, QueueInv, InWindow
  <2>6. SessionsOK
    BY <2>2 DEF Init, SessionsOK, SessionInv
  <2> QED
    BY <2>4, <2>5, <2>6, Parts
<1>2. AuthInv /\ [Next]_authVars => AuthInv'
  <2> SUFFICES ASSUME AuthInv, [Next]_authVars PROVE AuthInv'
    OBVIOUS
  <2>1. SignInOK /\ QueueInv /\ SessionsOK /\ TypeOK /\ now \in Nat
    BY Parts, BoundAssumption DEF AuthInv, TypeOK
  <2>2. SignInOK' /\ QueueInv' /\ SessionsOK'
    BY <2>1, SignInStep, QueueStep, SessionStep DEF AuthInv
  <2> QED
    BY <2>2 DEF SignInOK, SessionsOK, AuthInv, TypeOK
<1> QED
  BY <1>1, <1>2, PTL DEF Spec

\* Every variable keeps its type, and no more sessions or password checks exist at
\* once than the limits allow.
THEOREM AuthTypeCorrect == Spec => []TypeOK
<1>1. AuthInv => TypeOK
  BY DEF AuthInv
<1> QED
  BY <1>1, AuthInvariant, PTL

\* No address gets more attempts through in a window than its limit.
THEOREM AddressesLimited == Spec => []AddressLimit
<1>1. AuthInv => AddressLimit
  <2> SUFFICES ASSUME AuthInv, NEW a \in Addresses
               PROVE  Cardinality({x \in InWindow : x.address = a}) <= PerAddress
    BY DEF AddressLimit
  <2> DEFINE mine == {x \in InWindow : x.address = a}
  <2>1. CASE mine = {}
    BY <2>1, FS_EmptySet, LimitAssumption
  <2>2. CASE mine # {}
    <3>1. a \in DOMAIN attempts /\ mine \in SUBSET attempts[a]
      BY <2>2 DEF AuthInv, QueueInv
    <3>2. IsFiniteSet(attempts[a]) /\ Cardinality(attempts[a]) <= PerAddress
      BY <3>1 DEF AuthInv, QueueInv
    <3>3. IsFiniteSet(mine) /\ Cardinality(mine) <= Cardinality(attempts[a])
      BY <3>1, <3>2, FS_Subset
    <3> QED
      BY <3>2, <3>3, FS_CardinalityType, LimitAssumption
  <2> QED
    BY <2>1, <2>2
<1> QED
  BY <1>1, AuthInvariant, PTL

\* Nor do all addresses together get more through than the global limit.
THEOREM EveryoneLimited == Spec => []GlobalLimitKept
<1>1. AuthInv => GlobalLimitKept
  <2> SUFFICES ASSUME AuthInv PROVE Cardinality(InWindow) <= GlobalLimit
    BY DEF GlobalLimitKept
  <2>1. InWindow \in SUBSET globalAttempts /\ IsFiniteSet(globalAttempts)
        /\ Cardinality(globalAttempts) <= GlobalLimit
    BY DEF AuthInv, QueueInv
  <2>2. IsFiniteSet(InWindow) /\ Cardinality(InWindow) <= Cardinality(globalAttempts)
    BY <2>1, FS_Subset
  <2> QED
    BY <2>1, <2>2, FS_CardinalityType, LimitAssumption
<1> QED
  BY <1>1, AuthInvariant, PTL

\* A session the store accepts was opened, and last used, recently enough, and not
\* logged out.
LEMMA AcceptedFromInv == AuthInv => AcceptedSessions
<1> SUFFICES ASSUME AuthInv, NEW t \in LiveTokens
             PROVE  /\ now < used[t].opened + SessionSeconds
                    /\ now < used[t].last + IdleSeconds
                    /\ ~used[t].out
  BY DEF AcceptedSessions
<1>1. t \in DOMAIN sessions /\ sessions[t].expires > now
      /\ sessions[t].value + IdleSeconds > now
  BY DEF LiveTokens, Alive
<1>2. sessions[t].expires = used[t].opened + SessionSeconds
      /\ sessions[t].value = used[t].last /\ ~used[t].out
  BY <1>1 DEF AuthInv, SessionInv
<1>3. used[t].opened \in Nat /\ used[t].last \in Nat /\ now \in Nat
  BY <1>1, BoundAssumption DEF AuthInv, TypeOK
<1> QED
  BY <1>1, <1>2, <1>3, ExpiryAssumption

\* Both limits hold together.
THEOREM AttemptsLimited == Spec => []AttemptLimits
<1>1. AddressLimit /\ GlobalLimitKept => AttemptLimits
  BY DEF AttemptLimits
<1> QED
  BY <1>1, AddressesLimited, EveryoneLimited, PTL

\* Every session accepted is a live one of its user.
THEOREM SessionsAccepted == Spec => []AcceptedSessions
BY AcceptedFromInv, AuthInvariant, PTL

-----------------------------------------------------------------------------
(* The boundary                                                            *)


\* What holds of one request, given the opened sessions and the last refresh.
Sound(q, granted, last) ==
    /\ q \in Request
    /\ q.pc # "idle" => q.token \in granted
    /\ q.floor <= last
    /\ \A i \in 1..Len(q.seen) : q.seen[i].catalogue > q.floor

RequestsSound ==
    /\ req \in [Requests -> Request]
    /\ \A r \in Requests : Sound(req[r], DOMAIN used, refreshedAt)

\* What is cached or being downloaded began after the last refresh.
ForecastsFresh ==
    /\ CacheOf(forecasts, {0}, Forecast, 1)
    /\ \A k \in DOMAIN forecasts : forecasts[k].value.catalogue > refreshedAt
    /\ downloads \in 0..MaxDownloads /\ refreshedAt \in 0..downloads
    /\ lock \in Requests \cup {NoOne}
    /\ lock # NoOne => Reading(lock) /\ downloads > refreshedAt

AppInv ==
    /\ AuthInv /\ RequestsSound /\ ForecastsFresh
    /\ CacheOf(squads, Tokens, {0}, MaxSquads)

-----------------------------------------------------------------------------
(* The requests                                                            *)

LEMMA IdleSound ==
    ASSUME NEW granted, NEW last \in Nat
    PROVE  Sound(Idle, granted, last)
<1>1. (CHOOSE t \in Tokens : TRUE) \in Tokens
  BY TokenAssumption
<1>2. <<>> \in Seq(Forecast) /\ Len(<<>>) = 0
  OBVIOUS
<1>3. Idle \in Request
  BY <1>1, <1>2 DEF Idle, Request
<1> QED
  BY <1>2, <1>3 DEF Idle, Sound

\* The ways a handler goes on.
LEMMA AdvanceSound ==
    ASSUME NEW q, NEW granted, NEW last, Sound(q, granted, last), q.handler # <<>>
    PROVE  Sound([q EXCEPT !.handler = Tail(@)], granted, last)
<1>1. Tail(q.handler) \in
        Seq({"snapshot", "read", "plan", "squad", "refresh", "clear", "logout"})
  BY DEF Sound, Request
<1> QED
  BY <1>1 DEF Sound, Request

LEMMA AbortSound ==
    ASSUME NEW q, NEW granted, NEW last, Sound(q, granted, last), q.pc # "idle"
    PROVE  Sound([q EXCEPT !.handler = <<>>, !.pc = "failed"], granted, last)
<1>1. <<>> \in Seq({"snapshot", "read", "plan", "squad", "refresh", "clear", "logout"})
  OBVIOUS
<1> QED
  BY <1>1 DEF Sound, Request

LEMMA SeeSound ==
    ASSUME NEW q, NEW granted, NEW last \in Nat, Sound(q, granted, last), q.handler # <<>>,
           NEW f \in Forecast, f.catalogue > last
    PROVE  Sound([q EXCEPT !.handler = Tail(@), !.seen = Append(@, f)], granted, last)
<1> DEFINE p == [q EXCEPT !.handler = Tail(@), !.seen = Append(@, f)]
<1>1. q \in Request /\ q.floor <= last /\ q.floor \in Nat /\ q.seen \in Seq(Forecast)
  BY DEF Sound, Request
<1>2. Tail(q.handler) \in
        Seq({"snapshot", "read", "plan", "squad", "refresh", "clear", "logout"})
  BY <1>1 DEF Request
<1>3. Append(q.seen, f) \in Seq(Forecast)
  BY <1>1
<1>4. p \in Request
  BY <1>1, <1>2, <1>3 DEF Request
<1>5. p.seen = Append(q.seen, f) /\ p.floor = q.floor /\ p.pc = q.pc /\ p.token = q.token
  BY <1>1 DEF Request
<1>6. \A i \in 1..Len(p.seen) : p.seen[i].catalogue > p.floor
  <2> SUFFICES ASSUME NEW i \in 1..Len(Append(q.seen, f))
               PROVE  Append(q.seen, f)[i].catalogue > q.floor
    BY <1>5
  <2>1. CASE i = Len(q.seen) + 1
    <3>1. Append(q.seen, f)[i] = f
      BY <1>1, <2>1
    <3> QED
      BY <3>1, <1>1 DEF Forecast
  <2>2. CASE i # Len(q.seen) + 1
    <3>1. i \in 1..Len(q.seen) /\ Append(q.seen, f)[i] = q.seen[i]
      BY <1>1, <2>2
    <3> QED
      BY <3>1 DEF Sound
  <2> QED
    BY <2>1, <2>2
<1> HIDE DEF p
<1>7. Sound(p, granted, last)
  BY <1>1, <1>4, <1>5, <1>6 DEF Sound
<1> QED
  BY <1>7 DEF p

-----------------------------------------------------------------------------
(* The boundary drives the session store                                   *)

\* Each step of the assistant is a step of SessionStore, or none.
LEMMA StoreStep ==
    ASSUME RequestsSound, [AppNext]_vars
    PROVE  [Next]_authVars
<1>1. ASSUME NEW r \in Requests, Step(r) PROVE [Next]_authVars
  <2>1. req[r].pc # "idle" => req[r].token \in DOMAIN used
    BY DEF RequestsSound, Sound
  <2>2. CASE \E t \in DOMAIN used, h \in Handlers : Enter(r, t, h)
    BY <2>2 DEF Enter, Next
  <2>3. CASE Answer(r) \/ Refuse(r) \/ RevokeSession(r)
    BY <2>1, <2>3 DEF Answer, Refuse, RevokeSession, At, Next
  <2>4. CASE Close(r) \/ ReadCached(r) \/ BeginDownload(r) \/ Downloaded(r)
             \/ DownloadFails(r) \/ RefreshForecast(r) \/ ReadSnapshot(r)
             \/ StoreSquad(r) \/ SquadFails(r) \/ ClearSession(r)
    BY <2>4 DEF Close, ReadCached, BeginDownload, Downloaded, DownloadFails,
                RefreshForecast, ReadSnapshot, StoreSquad, SquadFails, ClearSession
  <2> QED
    BY <1>1, <2>2, <2>3, <2>4 DEF Step
<1>2. CASE \E l \in Logins : SignIn(l) /\ UNCHANGED appVars
  BY <1>2 DEF Next
<1>3. CASE \E t \in DOMAIN used : Lookup(t) /\ UNCHANGED appVars
  BY <1>3 DEF Next
<1>4. CASE Tick /\ UNCHANGED appVars
  BY <1>4 DEF Next
<1>5. CASE UNCHANGED vars
  BY <1>5 DEF vars
<1> QED
  BY <1>1, <1>2, <1>3, <1>4, <1>5 DEF AppNext

\* Sessions are never forgotten by the history.
LEMMA UsedGrows ==
    ASSUME TypeOK, [Next]_authVars
    PROVE  DOMAIN used \subseteq DOMAIN used'
<1>1. ASSUME NEW l \in Logins, SignIn(l) PROVE DOMAIN used \subseteq DOMAIN used'
  BY <1>1 DEF SignIn, RefuseLogin, ChargeLogin, AcquireSlot, CheckPassword, OpenSession
<1>2. ASSUME NEW t \in DOMAIN used, Require(t) \/ Lookup(t) \/ Logout(t)
      PROVE  DOMAIN used \subseteq DOMAIN used'
  BY <1>2 DEF Require, Lookup, Logout, TypeOK
<1>3. CASE Tick \/ UNCHANGED authVars
  BY <1>3 DEF Tick, authVars
<1> QED
  BY <1>1, <1>2, <1>3 DEF Next

LEMMA AuthKept ==
    ASSUME AuthInv, [Next]_authVars
    PROVE  AuthInv'
<1>1. SignInOK /\ QueueInv /\ SessionsOK /\ TypeOK /\ now \in Nat
  BY Parts, BoundAssumption DEF AuthInv, TypeOK
<1>2. SignInOK' /\ QueueInv' /\ SessionsOK'
  BY <1>1, SignInStep, QueueStep, SessionStep DEF AuthInv
<1> QED
  BY <1>2 DEF SignInOK, SessionsOK, AuthInv, TypeOK

\* Requests stay sound when the history grows and the last refresh moves on.
LEMMA SoundLater ==
    ASSUME NEW q, NEW granted, NEW last \in Nat, Sound(q, granted, last),
           NEW granted2, granted \subseteq granted2, NEW last2 \in Nat, last <= last2
    PROVE  Sound(q, granted2, last2)
BY DEF Sound, Request

\* If a step gives request r a sound record and leaves the others, all are sound.
LEMMA OneSound ==
    ASSUME AppInv, NEW r \in Requests, NEW q,
           req' = [req EXCEPT ![r] = q],
           DOMAIN used \subseteq DOMAIN used', refreshedAt' \in Nat, refreshedAt <= refreshedAt',
           Sound(q, DOMAIN used', refreshedAt')
    PROVE  RequestsSound'
<1>1. req' \in [Requests -> Request]
  BY DEF AppInv, RequestsSound, Sound
<1>2. ASSUME NEW s \in Requests PROVE Sound(req'[s], DOMAIN used', refreshedAt')
  <2>1. CASE s = r
    BY <2>1 DEF AppInv, RequestsSound
  <2>2. CASE s # r
    <3>1. req'[s] = req[s]
      BY <2>2 DEF AppInv, RequestsSound
    <3>2. Sound(req[s], DOMAIN used, refreshedAt) /\ refreshedAt \in Nat
      BY DEF AppInv, RequestsSound, ForecastsFresh
    <3>3. Sound(req[s], DOMAIN used', refreshedAt')
      BY <3>2, SoundLater
    <3> QED
      BY <3>1, <3>3
  <2> QED
    BY <2>1, <2>2
<1> QED
  BY <1>1, <1>2 DEF RequestsSound

\* What a step of request r leaves it with.
LEMMA OneMoves ==
    ASSUME AppInv, NEW r \in Requests, Step(r)
    PROVE  /\ refreshedAt' \in Nat /\ refreshedAt <= refreshedAt'
           /\ \E q : req' = [req EXCEPT ![r] = q] /\ Sound(q, DOMAIN used', refreshedAt')
<1>1. /\ req \in [Requests -> Request] /\ Sound(req[r], DOMAIN used, refreshedAt)
      /\ refreshedAt \in Nat /\ downloads \in Nat /\ refreshedAt <= downloads
      /\ req[r] \in Request
  BY DEF AppInv, RequestsSound, ForecastsFresh, Sound
<1>2. DOMAIN used \subseteq DOMAIN used'
  <2>1. [AppNext]_vars
    BY DEF AppNext
  <2>2. RequestsSound /\ TypeOK
    BY DEF AppInv, AuthInv
  <2> QED
    BY <2>1, <2>2, StoreStep, UsedGrows
<1>3. Sound(req[r], DOMAIN used', refreshedAt)
  BY <1>1, <1>2, SoundLater
<1> DEFINE Moves == /\ refreshedAt' \in Nat /\ refreshedAt <= refreshedAt'
                    /\ \E q : req' = [req EXCEPT ![r] = q]
                              /\ Sound(q, DOMAIN used', refreshedAt')
<1>0. ASSUME NEW q, req' = [req EXCEPT ![r] = q], Sound(q, DOMAIN used', refreshedAt'),
             refreshedAt' = refreshedAt \/ refreshedAt' = downloads
      PROVE  Moves
  <2>1. refreshedAt' \in Nat /\ refreshedAt <= refreshedAt'
    BY <1>0, <1>1
  <2>2. \E p : req' = [req EXCEPT ![r] = p] /\ Sound(p, DOMAIN used', refreshedAt')
    <3> WITNESS q
    <3> QED
      BY <1>0
  <2> QED
    BY <2>1, <2>2
<1> HIDE DEF Moves
<1>4. ASSUME NEW t \in DOMAIN used, NEW h \in Handlers, Enter(r, t, h) PROVE Moves
  <2> DEFINE q == [pc |-> "run", handler |-> h, token |-> t, seen |-> <<>>, floor |-> refreshedAt]
  <2>1. req' = [req EXCEPT ![r] = q] /\ refreshedAt' = refreshedAt /\ t \in LiveTokens
    BY <1>4 DEF Enter, Require
  <2>2. t \in Tokens
    BY <2>1 DEF LiveTokens, AppInv, AuthInv, TypeOK, CacheOf
  <2>3. h \in Seq({"snapshot", "read", "plan", "squad", "refresh", "clear", "logout"})
    <3>1. h = <<"snapshot", "read", "plan", "plan">> \/ h = <<"read", "squad", "snapshot", "read">>
          \/ h = <<"refresh">> \/ h = <<"clear", "logout">>
      BY DEF Handlers, Lineup, Load
    <3> DEFINE Steps == {"snapshot", "read", "plan", "squad", "refresh", "clear", "logout"}
    <3>2. <<"snapshot", "read", "plan", "plan">> \in Seq(Steps)
      OBVIOUS
    <3>3. <<"read", "squad", "snapshot", "read">> \in Seq(Steps)
      OBVIOUS
    <3>4. <<"refresh">> \in Seq(Steps) /\ <<"clear", "logout">> \in Seq(Steps)
      OBVIOUS
    <3> QED
      BY <3>1, <3>2, <3>3, <3>4
  <2>4. <<>> \in Seq(Forecast) /\ Len(<<>>) = 0
    OBVIOUS
  <2>5. q \in Request
    BY <1>1, <2>2, <2>3, <2>4 DEF Request
  <2>6. Sound(q, DOMAIN used', refreshedAt')
    BY <1>1, <1>2, <2>1, <2>4, <2>5 DEF Sound
  <2> HIDE DEF q
  <2> QED
    BY <1>0, <2>1, <2>6
<1>5. ASSUME Refuse(r) \/ Close(r) \/ RevokeSession(r) PROVE Moves
  <2>1. req' = [req EXCEPT ![r] = Idle] /\ refreshedAt' = refreshedAt
    BY <1>5 DEF Refuse, Close, RevokeSession
  <2>2. Sound(Idle, DOMAIN used', refreshedAt')
    BY <1>1, <2>1, IdleSound
  <2> QED
    BY <1>0, <2>1, <2>2
<1>6. ASSUME Answer(r) PROVE Moves
  <2>1. req' = [req EXCEPT ![r] = [req[r] EXCEPT !.pc = "answered"]]
        /\ refreshedAt' = refreshedAt /\ req[r].pc = "run"
    BY <1>1, <1>6 DEF Answer
  <2>2. Sound([req[r] EXCEPT !.pc = "answered"], DOMAIN used', refreshedAt')
    BY <1>3, <2>1 DEF Sound, Request
  <2> QED
    BY <1>0, <2>1, <2>2
<1> DEFINE advanced == [req[r] EXCEPT !.handler = Tail(@)]
           aborted == [req[r] EXCEPT !.handler = <<>>, !.pc = "failed"]
           seeing(f) == [req[r] EXCEPT !.handler = Tail(@), !.seen = Append(@, f)]
<1>7. /\ Advance(r) = [req EXCEPT ![r] = advanced]
      /\ Abort(r) = [req EXCEPT ![r] = aborted]
      /\ \A f : AdvanceSeeing(r, f) = [req EXCEPT ![r] = seeing(f)]
  BY <1>1 DEF Advance, Abort, AdvanceSeeing, Request
<1>8. \A step : At(r, step) => req[r].handler # <<>> /\ req[r].pc = "run"
  BY DEF At
<1>9. ASSUME NEW f \in Forecast, f.catalogue > refreshedAt, Reading(r),
             req' \in AfterReading(r, f), refreshedAt' = refreshedAt
      PROVE  Moves
  <2>1. req' = [req EXCEPT ![r] = seeing(f)] \/ req' = [req EXCEPT ![r] = aborted]
    BY <1>7, <1>9 DEF AfterReading
  <2>2. req[r].handler # <<>> /\ req[r].pc = "run"
    BY <1>8, <1>9 DEF Reading
  <2>3. Sound(seeing(f), DOMAIN used', refreshedAt')
    BY <1>1, <1>3, <1>9, <2>2, SeeSound
  <2>4. Sound(aborted, DOMAIN used', refreshedAt')
    BY <1>3, <1>9, <2>2, AbortSound
  <2> HIDE DEF seeing, aborted
  <2> QED
    BY <1>0, <1>9, <2>1, <2>3, <2>4
<1>10. ASSUME ReadCached(r) PROVE Moves
  <2>1. 0 \in DOMAIN forecasts /\ Reading(r) /\ refreshedAt' = refreshedAt
        /\ req' \in AfterReading(r, forecasts[0].value)
    BY <1>10 DEF ReadCached, Usable, Holds, LiveKeys
  <2>2. forecasts[0].value \in Forecast /\ forecasts[0].value.catalogue > refreshedAt
    BY <2>1 DEF AppInv, ForecastsFresh, CacheOf, Entry
  <2> QED
    BY <1>9, <2>1, <2>2
<1>11. ASSUME Downloaded(r) PROVE Moves
  <2>1. PICK first \in Future :
          req' \in AfterReading(r, [catalogue |-> downloads, first |-> first])
    BY <1>11 DEF Downloaded
  <2>2. lock = r /\ refreshedAt' = refreshedAt
    BY <1>11 DEF Downloaded
  <2>3. downloads > refreshedAt /\ Reading(r)
    BY <2>2, HolderAssumption DEF AppInv, ForecastsFresh
  <2>4. [catalogue |-> downloads, first |-> first] \in Forecast
    BY <1>1 DEF Future, Forecast
  <2> QED
    BY <1>9, <2>1, <2>2, <2>3, <2>4
<1>12. ASSUME BeginDownload(r) PROVE Moves
  <2>1. req' = [req EXCEPT ![r] = req[r]] /\ refreshedAt' = refreshedAt
    BY <1>1, <1>12 DEF BeginDownload
  <2> QED
    BY <1>0, <1>3, <2>1
<1>13. ASSUME RefreshForecast(r) PROVE Moves
  <2>1. req' = Advance(r) /\ refreshedAt' = downloads /\ req[r].handler # <<>>
    BY <1>8, <1>13 DEF RefreshForecast
  <2>2. Sound(req[r], DOMAIN used', refreshedAt')
    BY <1>1, <1>3, <2>1, SoundLater
  <2>3. Sound(advanced, DOMAIN used', refreshedAt')
    BY <2>1, <2>2, AdvanceSound
  <2> QED
    BY <1>0, <1>7, <2>1, <2>3
<1>14. ASSUME ReadSnapshot(r) \/ StoreSquad(r) \/ SquadFails(r) \/ ClearSession(r)
              \/ DownloadFails(r)
       PROVE  Moves
  <2>1. (req' = Advance(r) \/ req' = Abort(r)) /\ refreshedAt' = refreshedAt
    BY <1>14 DEF ReadSnapshot, StoreSquad, SquadFails, ClearSession, DownloadFails
  <2>2. req[r].handler # <<>> /\ req[r].pc = "run"
    <3>1. CASE ~DownloadFails(r)
      BY <1>8, <1>14, <3>1 DEF ReadSnapshot, StoreSquad, SquadFails, ClearSession
    <3>2. CASE DownloadFails(r)
      <4>1. Reading(r)
        BY <3>2, HolderAssumption DEF DownloadFails, AppInv, ForecastsFresh
      <4> QED
        BY <1>8, <4>1 DEF Reading
    <3> QED
      BY <3>1, <3>2
  <2>3. Sound(advanced, DOMAIN used', refreshedAt')
    BY <1>3, <2>1, <2>2, AdvanceSound
  <2>4. Sound(aborted, DOMAIN used', refreshedAt')
    BY <1>3, <2>1, <2>2, AbortSound
  <2> HIDE DEF advanced, aborted
  <2> QED
    BY <1>0, <1>7, <2>1, <2>3, <2>4
<1>15. Moves
  BY <1>4, <1>5, <1>6, <1>10, <1>11, <1>12, <1>13, <1>14 DEF Step
<1> QED
  BY <1>15 DEF Moves

-----------------------------------------------------------------------------
(* The lock and the caches                                                 *)

\* While r steps, another holder of the lock stays at its read.
LEMMA HolderStays ==
    ASSUME AppInv, NEW r \in Requests, Step(r), lock # NoOne, lock # r, lock' = lock
    PROVE  Reading(lock)'
<1>1. lock \in Requests /\ Reading(lock)
  BY DEF AppInv, ForecastsFresh
<1>2. PICK q : req' = [req EXCEPT ![r] = q]
  BY OneMoves
<1>3. req'[lock] = req[lock]
  BY <1>1, <1>2 DEF AppInv, RequestsSound
<1> QED
  BY <1>1, <1>3 DEF Reading, At

LEMMA FreshStep ==
    ASSUME AppInv, NEW r \in Requests, Step(r)
    PROVE  ForecastsFresh'
<1> USE CacheAssumption
<1>1. /\ CacheOf(forecasts, {0}, Forecast, 1)
      /\ \A k \in DOMAIN forecasts : forecasts[k].value.catalogue > refreshedAt
      /\ downloads \in 0..MaxDownloads /\ refreshedAt \in 0..downloads
      /\ lock \in Requests \cup {NoOne}
      /\ lock # NoOne => Reading(lock) /\ downloads > refreshedAt
  BY DEF AppInv, ForecastsFresh
<1>2. now \in Nat
  BY BoundAssumption DEF AppInv, AuthInv, TypeOK
<1>3. Reading(r) => req[r].pc = "run" /\ req[r].handler # <<>>
                    /\ Head(req[r].handler) \in {"read", "plan"}
  BY DEF Reading, At
<1>4. ASSUME UNCHANGED <<lock, forecasts, downloads, refreshedAt>>, lock # r
      PROVE  ForecastsFresh'
  <2>1. lock # NoOne => Reading(lock)'
    BY <1>4, HolderStays
  <2> QED
    BY <1>1, <1>4, <2>1 DEF ForecastsFresh, Reading, At
<1>5. CASE (\E t \in DOMAIN used, h \in Handlers : Enter(r, t, h)) \/ Answer(r)
           \/ Refuse(r) \/ Close(r)
  <2>1. lock # r
    BY <1>1, <1>3, <1>5, HolderAssumption DEF Enter, Answer, Refuse, Close
  <2> QED
    BY <1>4, <1>5, <2>1 DEF Enter, Answer, Refuse, Close
<1>6. CASE ReadSnapshot(r) \/ StoreSquad(r) \/ SquadFails(r) \/ ClearSession(r)
           \/ RevokeSession(r) \/ ReadCached(r)
  <2>1. lock # r
    BY <1>1, <1>3, <1>6, HolderAssumption
       DEF ReadSnapshot, StoreSquad, SquadFails, ClearSession, RevokeSession, ReadCached, At
  <2> QED
    BY <1>4, <1>6, <2>1
       DEF ReadSnapshot, StoreSquad, SquadFails, ClearSession, RevokeSession, ReadCached
<1>7. CASE BeginDownload(r)
  <2>1. /\ lock = NoOne /\ lock' = r /\ downloads' = downloads + 1 /\ downloads < MaxDownloads
        /\ forecasts' = AfterGet(forecasts, 0, now) /\ UNCHANGED <<req, refreshedAt>>
        /\ Reading(r)
    BY <1>7 DEF BeginDownload
  <2>2. /\ CacheOf(forecasts', {0}, Forecast, 1)
        /\ \A k \in DOMAIN forecasts' :
              k \in DOMAIN forecasts /\ forecasts'[k].value = forecasts[k].value
    BY <1>1, <2>1, AfterGetEntries
  <2>3. Reading(lock)'
    BY <2>1 DEF Reading, At
  <2>4. downloads' \in 0..MaxDownloads /\ refreshedAt' \in 0..downloads' /\ lock' \in Requests
        /\ downloads' > refreshedAt'
    BY <1>1, <2>1
  <2>5. \A k \in DOMAIN forecasts' : forecasts'[k].value.catalogue > refreshedAt'
    BY <1>1, <2>1, <2>2
  <2> QED
    BY <2>2, <2>3, <2>4, <2>5 DEF ForecastsFresh
<1>8. CASE Downloaded(r)
  <2>1. PICK first \in Future :
          forecasts' = AfterSet(forecasts, 0, [catalogue |-> downloads, first |-> first],
                                now, ForecastTTL, 1)
    BY <1>8 DEF Downloaded
  <2> DEFINE f == [catalogue |-> downloads, first |-> first]
  <2>2. lock = r /\ lock' = NoOne /\ UNCHANGED <<downloads, refreshedAt>>
    BY <1>8 DEF Downloaded
  <2>3. f \in Forecast /\ downloads > refreshedAt
    BY <1>1, <2>2, HolderAssumption DEF Forecast, Future
  <2>4. f.catalogue = downloads
    OBVIOUS
  <2> HIDE DEF f
  <2>5. forecasts' = AfterSet(forecasts, 0, f, now, ForecastTTL, 1)
    BY <2>1 DEF f
  <2>6. CacheOf(forecasts', {0}, Forecast, 1)
        /\ Stores(forecasts', forecasts, 0, f, now, ForecastTTL)
    BY <1>1, <1>2, <2>3, <2>5, AfterSetStores
  <2>7. \A k \in DOMAIN forecasts' : forecasts'[k].value = f
    BY <2>6 DEF CacheOf, Stores
  <2> QED
    BY <1>1, <2>2, <2>3, <2>4, <2>6, <2>7 DEF ForecastsFresh
<1>9. CASE DownloadFails(r)
  <2>1. lock' = NoOne /\ UNCHANGED <<forecasts, downloads, refreshedAt>>
    BY <1>9 DEF DownloadFails
  <2> QED
    BY <1>1, <2>1 DEF ForecastsFresh
<1>10. CASE RefreshForecast(r)
  <2>1. lock = NoOne /\ forecasts' = EmptyCache /\ refreshedAt' = downloads
        /\ UNCHANGED <<lock, downloads>>
    BY <1>10 DEF RefreshForecast, MayRefresh
  <2>2. CacheOf(EmptyCache, {0}, Forecast, 1) /\ DOMAIN EmptyCache = {}
    BY FS_EmptySet DEF EmptyCache, CacheOf
  <2> QED
    BY <1>1, <2>1, <2>2 DEF ForecastsFresh
<1> QED
  BY <1>5, <1>6, <1>7, <1>8, <1>9, <1>10 DEF Step

LEMMA SquadsStep ==
    ASSUME AppInv, NEW r \in Requests, Step(r)
    PROVE  CacheOf(squads, Tokens, {0}, MaxSquads)'
<1> USE CacheAssumption
<1>1. CacheOf(squads, Tokens, {0}, MaxSquads) /\ req[r] \in Request /\ now \in Nat
  BY BoundAssumption DEF AppInv, AuthInv, TypeOK, RequestsSound
<1>2. req[r].token \in Tokens
  BY <1>1 DEF Request
<1>3. CASE ReadSnapshot(r)
  BY <1>1, <1>3, AfterGetEntries DEF ReadSnapshot
<1>4. CASE StoreSquad(r)
  <2>1. squads' = AfterSet(squads, req[r].token, 0, now, SquadTTL, MaxSquads)
    BY <1>4 DEF StoreSquad
  <2> QED
    BY <1>1, <1>2, <2>1, AfterSetStores
<1>5. CASE ClearSession(r)
  <2>1. squads' = Keep(squads, DOMAIN squads \ {req[r].token})
    BY <1>5 DEF ClearSession, AfterDelete
  <2>2. CacheOf(Keep(squads, DOMAIN squads \ {req[r].token}), Tokens, {0}, MaxSquads)
    BY <1>1, KeepEntries
  <2> QED
    BY <2>1, <2>2
<1>6. CASE UNCHANGED squads
  BY <1>1, <1>6
<1> QED
  BY <1>3, <1>4, <1>5, <1>6
     DEF Step, Enter, Answer, Refuse, Close, ReadCached, BeginDownload, Downloaded,
         DownloadFails, RefreshForecast, SquadFails, RevokeSession

-----------------------------------------------------------------------------
(* The theorems                                                            *)

LEMMA AppInitially == AppInit => AppInv
<1> SUFFICES ASSUME AppInit PROVE AppInv
  OBVIOUS
<1>1. AuthInv
  <2>1. now \in 0..MaxTime
    BY BoundAssumption DEF AppInit, Init
  <2>2. CacheOf(sessions, Tokens, Nat, MaxSessions) /\ DOMAIN sessions = {} /\ DOMAIN used = {}
    BY FS_EmptySet, LimitAssumption DEF AppInit, Init, EmptyCache, CacheOf
  <2>3. Hashing = {}
    BY DEF AppInit, Init, Hashing
  <2>4. SignInOK
    BY <2>1, <2>3, FS_EmptySet, LimitAssumption DEF AppInit, Init, SignInOK
  <2>5. QueueInv
    BY FS_EmptySet, LimitAssumption DEF AppInit, Init, QueueInv, InWindow
  <2>6. SessionsOK
    BY <2>2 DEF AppInit, Init, SessionsOK, SessionInv
  <2> QED
    BY <2>4, <2>5, <2>6, Parts
<1>2. RequestsSound
  <2>1. Sound(Idle, DOMAIN used, 0)
    BY IdleSound
  <2>2. req = [r \in Requests |-> Idle] /\ refreshedAt = 0
    BY DEF AppInit
  <2> QED
    BY <2>1, <2>2 DEF RequestsSound, Sound
<1>3. CacheOf(EmptyCache, {0}, Forecast, 1) /\ CacheOf(EmptyCache, Tokens, {0}, MaxSquads)
      /\ DOMAIN EmptyCache = {}
  BY FS_EmptySet, CacheAssumption DEF EmptyCache, CacheOf
<1> QED
  BY <1>1, <1>2, <1>3, CacheAssumption DEF AppInit, AppInv, ForecastsFresh

LEMMA AppStep ==
    ASSUME AppInv, [AppNext]_vars
    PROVE  AppInv'
<1>1. [Next]_authVars
  BY StoreStep DEF AppInv
<1>2. AuthInv'
  BY <1>1, AuthKept DEF AppInv
<1>3. DOMAIN used \subseteq DOMAIN used'
  BY <1>1, UsedGrows DEF AppInv, AuthInv
<1>4. ASSUME NEW r \in Requests, Step(r) PROVE AppInv'
  <2>1. PICK q : req' = [req EXCEPT ![r] = q] /\ Sound(q, DOMAIN used', refreshedAt')
    BY <1>4, OneMoves
  <2>2. refreshedAt' \in Nat /\ refreshedAt <= refreshedAt'
    BY <1>4, OneMoves
  <2>3. RequestsSound'
    BY <1>3, <2>1, <2>2, OneSound
  <2>4. ForecastsFresh' /\ CacheOf(squads, Tokens, {0}, MaxSquads)'
    BY <1>4, FreshStep, SquadsStep
  <2> QED
    BY <1>2, <2>3, <2>4 DEF AppInv
<1>5. ASSUME UNCHANGED appVars PROVE AppInv'
  <2>1. \A r \in Requests : Sound(req[r], DOMAIN used', refreshedAt)
    <3> SUFFICES ASSUME NEW r \in Requests PROVE Sound(req[r], DOMAIN used', refreshedAt)
      OBVIOUS
    <3>1. Sound(req[r], DOMAIN used, refreshedAt) /\ refreshedAt \in Nat
      BY DEF AppInv, RequestsSound, ForecastsFresh
    <3> QED
      BY <1>3, <3>1, SoundLater
  <2>2. RequestsSound'
    BY <1>5, <2>1 DEF AppInv, RequestsSound, appVars
  <2> QED
    BY <1>2, <1>5, <2>2 DEF AppInv, ForecastsFresh, appVars, Reading, At
<1> QED
  BY <1>4, <1>5 DEF AppNext, vars

\* The inductive invariant.
THEOREM AppInvariant == AppSpec => []AppInv
<1>1. AppInit => AppInv
  BY AppInitially
<1>2. AppInv /\ [AppNext]_vars => AppInv'
  BY AppStep
<1> QED
  BY <1>1, <1>2, PTL DEF AppSpec

\* The boundary and the handlers use the session store only as SessionStore says.
THEOREM BoundaryRefinesStore == AppSpec => Spec
<1>1. AppInit => Init
  BY DEF AppInit
<1>2. AppInv /\ [AppNext]_vars => [Next]_authVars
  BY StoreStep DEF AppInv
<1> QED
  BY <1>1, <1>2, AppInvariant, PTL DEF AppSpec, Spec

\* Every variable keeps its type, and the lock's holder is at a read.
THEOREM AppTypeCorrect == AppSpec => []AppTypeOK
<1>1. AppInv => AppTypeOK
  BY DEF AppInv, AppTypeOK, AuthInv, RequestsSound, ForecastsFresh
<1> QED
  BY <1>1, AppInvariant, PTL

\* A request plans on catalogues newer than the last refresh before it entered.
THEOREM FreshPlans == AppSpec => []FreshAfterRefresh
<1>1. AppInv => FreshAfterRefresh
  BY DEF AppInv, RequestsSound, Sound, FreshAfterRefresh
<1> QED
  BY <1>1, AppInvariant, PTL

\* Only the boundary's second look lets an answer out.
LEMMA OnlyAnswer ==
    ASSUME AppInv, [AppNext]_vars, NEW r \in Requests, Answers(r)
    PROVE  Answer(r)
<1>1. req \in [Requests -> Request] /\ req[r].pc # "answered" /\ req'[r].pc = "answered"
  BY DEF AppInv, RequestsSound, Answers
<1>2. PICK s \in Requests : Step(s)
  BY <1>1 DEF AppNext, vars, appVars
<1>3. s = r
  <2>1. PICK q : req' = [req EXCEPT ![s] = q]
    BY <1>2, OneMoves
  <2> QED
    BY <1>1, <2>1
<1>4. Advance(r)[r].pc = req[r].pc /\ Abort(r)[r].pc = "failed"
      /\ \A f : AdvanceSeeing(r, f)[r].pc = req[r].pc
  BY <1>1 DEF Advance, Abort, AdvanceSeeing, Request
<1>5. \A f : req' \in AfterReading(r, f) => req'[r].pc # "answered"
  BY <1>1, <1>4 DEF AfterReading
<1>6. ~(ReadCached(r) \/ Downloaded(r))
  <2>1. ReadCached(r) => req' \in AfterReading(r, forecasts[0].value)
    BY DEF ReadCached
  <2>2. Downloaded(r) => \E first \in Future :
          req' \in AfterReading(r, [catalogue |-> downloads, first |-> first])
    BY DEF Downloaded
  <2> HIDE DEF AfterReading
  <2> QED
    BY <1>1, <1>5, <2>1, <2>2
<1>7. ~(\E t \in DOMAIN used, h \in Handlers : Enter(r, t, h))
  BY <1>1 DEF Enter
<1>8. ~(Refuse(r) \/ Close(r) \/ RevokeSession(r))
  BY <1>1 DEF Refuse, Close, RevokeSession, Idle
<1>9. ~(BeginDownload(r) \/ DownloadFails(r) \/ RefreshForecast(r) \/ ReadSnapshot(r)
        \/ StoreSquad(r) \/ SquadFails(r) \/ ClearSession(r))
  BY <1>1, <1>4 DEF BeginDownload, DownloadFails, RefreshForecast, ReadSnapshot, StoreSquad,
                    SquadFails, ClearSession
<1> QED
  BY <1>2, <1>3, <1>6, <1>7, <1>8, <1>9 DEF Step

\* No answer leaves for a session that was logged out or has run out.
THEOREM NothingAfterRevocation == AppSpec => RevokedGetsNothing
<1>1. AppInv /\ [AppNext]_vars =>
        [\A r \in Requests : Answers(r) =>
            LET u == used[req[r].token]
            IN  /\ ~u.out
                /\ now < u.opened + SessionSeconds
                /\ now < u.last + IdleSeconds]_vars
  <2> SUFFICES ASSUME AppInv, [AppNext]_vars, NEW r \in Requests, Answers(r)
               PROVE  /\ ~used[req[r].token].out
                      /\ now < used[req[r].token].opened + SessionSeconds
                      /\ now < used[req[r].token].last + IdleSeconds
    OBVIOUS
  <2>1. req[r].token \in LiveTokens
    BY OnlyAnswer DEF Answer, Permitted
  <2>2. AcceptedSessions
    BY AcceptedFromInv DEF AppInv
  <2> QED
    BY <2>1, <2>2 DEF AcceptedSessions
<1> QED
  BY <1>1, AppInvariant, PTL DEF AppSpec, RevokedGetsNothing

-----------------------------------------------------------------------------
(* The page: its inductive invariant                                       *)

Either(S, nothing) == S \cup {nothing}
FigureT == [team : Teams, model : Models, session : Sessions]
Page == [predictions : Either([horizon : Horizons], Nothing),
         squad : Either([team : Teams, session : Sessions], Nothing),
         lineup : Either(FigureT, Nothing), plan : Either(FigureT, Nothing)]

\* The requests a task has still to send.
WithSquad == {<<"refresh", "predictions", "squad", "lineup">>, <<"predictions", "squad", "lineup">>, <<"squad", "lineup">>}
OfSquad == {<<"lineup">>, <<"draft">>, <<"plan">>}
Access == {<<"session">>, <<"login">>}
Scripts == WithSquad \cup OfSquad \cup Access \cup
           {<<"logout">>, <<"refresh", "predictions">>, <<"predictions">>, <<"status">>}

RequestT == [cookie : Sessions \cup {NoSession}, csrf : Sessions \cup {NoSession}, horizon : Horizons, model : Models]
TaskOf(scripts) == [kind : Runs \cup {"poll", "check"}, n : Nat, script : scripts, holds : BOOLEAN,
                    team : Teams \cup {NoTeam}, sent : RequestT, latest : BOOLEAN]
ToSend == TaskOf(Scripts \cup {<<>>})

\* What holds of a request under way: it was sent in the session of the page, what it asks for
\* is what is selected, or the change of the selection is unanswered.
Fits(t, c, h, m, squad, un) ==
    /\ t \in TaskOf(Scripts)
    /\ t.sent.csrf = c
    /\ c = NoSession => t.kind \in {"access", "login"} /\ t.script \in Access
    /\ c # NoSession => t.script # <<"login">> /\ ~(t.kind = "access" /\ t.script = <<"session">>)
    /\ t.latest => Head(t.script) = "predictions" /\ (t.sent.horizon = h \/ "horizon" \in un)
    /\ t.script \in OfSquad => t.kind \in Runs /\ squad # Nothing /\ (t.sent.model = m \/ "model" \in un)
    /\ t.script \in WithSquad => t.kind \in Runs
    /\ t.script \in WithSquad \cup {<<"draft">>} => t.team \in Teams

OneLatest(ts) == \A t, u \in ts : t.latest /\ u.latest => t = u

ServerTypes ==
    /\ cookie \in Sessions \cup {NoSession} /\ live \subseteq Sessions /\ opened \subseteq Sessions
    /\ loaded \in [Sessions -> Teams \cup {NoTeam}]

PageTypes ==
    /\ csrf \in Sessions \cup {NoSession} /\ horizon \in Horizons /\ model \in Models /\ shown \in Page
    /\ timer \in BOOLEAN /\ elsewhere \in BOOLEAN
    /\ ServerTypes

TasksInv ==
    /\ \A t \in tasks : Fits(t, csrf, horizon, model, shown.squad, unanswered)
    /\ OneLatest(tasks)
    /\ csrf = NoSession => ~timer /\ \A t, u \in tasks : t = u

\* The squad is the one the server has for the session, unless that came from elsewhere.
SquadInv ==
    /\ shown.squad = Nothing => shown.lineup = Nothing /\ shown.plan = Nothing
    /\ shown.squad # Nothing /\ ~elsewhere => loaded[csrf] \in {shown.squad.team, NoTeam}

PageInv == PageTypes /\ TasksInv /\ SquadInv /\ LockedShowsNothing /\ SelectionShown

\* The scripts, step by step.
LEMMA Scripted ==
    ASSUME NEW s \in Scripts
    PROVE  /\ s # <<>> /\ Tail(s) \in Scripts \cup {<<>>} /\ Tail(s) \notin Access \cup {<<"draft">>}
           /\ s \in Access <=> Head(s) \in {"session", "login"}
           /\ Head(s) = "session" <=> s = <<"session">>
           /\ Head(s) = "login" <=> s = <<"login">>
           /\ Head(s) = "draft" <=> s = <<"draft">>
           /\ Head(s) = "squad" => s \in WithSquad /\ Tail(s) = <<"lineup">>
           /\ Head(s) \in {"lineup", "draft", "plan"} <=> s \in OfSquad
           /\ s \in OfSquad \cup Access \cup {<<"status">>, <<"logout">>} => Tail(s) = <<>>
           /\ Tail(s) \in OfSquad => Head(s) = "squad"
           /\ Tail(s) \in WithSquad => s \in WithSquad
           /\ Tail(s) \in WithSquad \cup {<<"predictions">>} <=> Head(s) = "refresh" \/ s = <<"predictions", "squad", "lineup">>
           /\ Head(s) = "status" => s = <<"status">>
           /\ Head(s) = "logout" => s = <<"logout">>
<1> USE DEF WithSquad, OfSquad, Access, Scripts
<1>1. CASE s = <<"session">>
  <2>1. Head(s) = "session" /\ Tail(s) = <<>>
    BY <1>1
  <2> QED
    BY <1>1, <2>1
<1>2. CASE s = <<"login">>
  <2>1. Head(s) = "login" /\ Tail(s) = <<>>
    BY <1>2
  <2> QED
    BY <1>2, <2>1
<1>3. CASE s = <<"logout">>
  <2>1. Head(s) = "logout" /\ Tail(s) = <<>>
    BY <1>3
  <2> QED
    BY <1>3, <2>1
<1>4. CASE s = <<"refresh", "predictions">>
  <2>1. Head(s) = "refresh" /\ Tail(s) = <<"predictions">>
    BY <1>4
  <2> QED
    BY <1>4, <2>1
<1>5. CASE s = <<"refresh", "predictions", "squad", "lineup">>
  <2>1. Head(s) = "refresh" /\ Tail(s) = <<"predictions", "squad", "lineup">>
    BY <1>5
  <2> QED
    BY <1>5, <2>1
<1>6. CASE s = <<"predictions">>
  <2>1. Head(s) = "predictions" /\ Tail(s) = <<>>
    BY <1>6
  <2> QED
    BY <1>6, <2>1
<1>7. CASE s = <<"predictions", "squad", "lineup">>
  <2>1. Head(s) = "predictions" /\ Tail(s) = <<"squad", "lineup">>
    BY <1>7
  <2> QED
    BY <1>7, <2>1
<1>8. CASE s = <<"squad", "lineup">>
  <2>1. Head(s) = "squad" /\ Tail(s) = <<"lineup">>
    BY <1>8
  <2> QED
    BY <1>8, <2>1
<1>9. CASE s = <<"lineup">>
  <2>1. Head(s) = "lineup" /\ Tail(s) = <<>>
    BY <1>9
  <2> QED
    BY <1>9, <2>1
<1>10. CASE s = <<"draft">>
  <2>1. Head(s) = "draft" /\ Tail(s) = <<>>
    BY <1>10
  <2> QED
    BY <1>10, <2>1
<1>11. CASE s = <<"plan">>
  <2>1. Head(s) = "plan" /\ Tail(s) = <<>>
    BY <1>11
  <2> QED
    BY <1>11, <2>1
<1>12. CASE s = <<"status">>
  <2>1. Head(s) = "status" /\ Tail(s) = <<>>
    BY <1>12
  <2> QED
    BY <1>12, <2>1
<1> QED
  BY <1>1, <1>2, <1>3, <1>4, <1>5, <1>6, <1>7, <1>8, <1>9, <1>10, <1>11, <1>12

\* Only a refresh goes on to the predictions, only a squad to the lineup.
LEMMA ScriptedOn ==
    ASSUME NEW s \in Scripts
    PROVE  /\ Head(s) = "refresh" => Tail(s) # <<>> /\ Head(Tail(s)) = "predictions"
           /\ Head(s) # "refresh" => Tail(s) = <<>> \/ Head(Tail(s)) # "predictions"
           /\ Head(s) = "squad" => Tail(s) # <<>> /\ Head(Tail(s)) = "lineup"
           /\ Head(s) # "squad" => Tail(s) = <<>> \/ Head(Tail(s)) # "lineup"
<1> USE DEF WithSquad, OfSquad, Access, Scripts
<1>1. CASE s = <<"session">>
  <2>1. Head(s) = "session" /\ Tail(s) = <<>>
    BY <1>1
  <2> QED
    BY <1>1, <2>1
<1>2. CASE s = <<"login">>
  <2>1. Head(s) = "login" /\ Tail(s) = <<>>
    BY <1>2
  <2> QED
    BY <1>2, <2>1
<1>3. CASE s = <<"logout">>
  <2>1. Head(s) = "logout" /\ Tail(s) = <<>>
    BY <1>3
  <2> QED
    BY <1>3, <2>1
<1>4. CASE s = <<"refresh", "predictions">>
  <2>1. Head(s) = "refresh" /\ Tail(s) = <<"predictions">>
    BY <1>4
  <2> QED
    BY <1>4, <2>1
<1>5. CASE s = <<"refresh", "predictions", "squad", "lineup">>
  <2>1. Head(s) = "refresh" /\ Tail(s) = <<"predictions", "squad", "lineup">>
    BY <1>5
  <2> QED
    BY <1>5, <2>1
<1>6. CASE s = <<"predictions">>
  <2>1. Head(s) = "predictions" /\ Tail(s) = <<>>
    BY <1>6
  <2> QED
    BY <1>6, <2>1
<1>7. CASE s = <<"predictions", "squad", "lineup">>
  <2>1. Head(s) = "predictions" /\ Tail(s) = <<"squad", "lineup">>
    BY <1>7
  <2> QED
    BY <1>7, <2>1
<1>8. CASE s = <<"squad", "lineup">>
  <2>1. Head(s) = "squad" /\ Tail(s) = <<"lineup">>
    BY <1>8
  <2> QED
    BY <1>8, <2>1
<1>9. CASE s = <<"lineup">>
  <2>1. Head(s) = "lineup" /\ Tail(s) = <<>>
    BY <1>9
  <2> QED
    BY <1>9, <2>1
<1>10. CASE s = <<"draft">>
  <2>1. Head(s) = "draft" /\ Tail(s) = <<>>
    BY <1>10
  <2> QED
    BY <1>10, <2>1
<1>11. CASE s = <<"plan">>
  <2>1. Head(s) = "plan" /\ Tail(s) = <<>>
    BY <1>11
  <2> QED
    BY <1>11, <2>1
<1>12. CASE s = <<"status">>
  <2>1. Head(s) = "status" /\ Tail(s) = <<>>
    BY <1>12
  <2> QED
    BY <1>12, <2>1
<1> QED
  BY <1>1, <1>2, <1>3, <1>4, <1>5, <1>6, <1>7, <1>8, <1>9, <1>10, <1>11, <1>12

-----------------------------------------------------------------------------
(* Sending a request                                                       *)

\* A request that may be sent.
Ready(t, c, h, m, squad, un) ==
    t.script # <<>> =>
        /\ Fits([t EXCEPT !.latest = FALSE], c, h, m, squad, un)
        /\ Head(t.script) = "predictions" => t.sent.horizon = h \/ "horizon" \in un

\* Loading predictions takes over the revision, and a request beside it may have been the latest.
TakesOver(t) == t.script # <<>> /\ Head(t.script) = "predictions"
FitsBeside(u, t, c, h, m, squad, un) ==
    \/ Fits(u, c, h, m, squad, un)
    \/ TakesOver(t) /\ u \in TaskOf(Scripts) /\ Fits([u EXCEPT !.latest = FALSE], c, h, m, squad, un)

LEMMA LatestSet ==
    ASSUME NEW scripts, NEW t \in TaskOf(scripts), NEW b \in BOOLEAN
    PROVE  /\ [t EXCEPT !.latest = b] \in TaskOf(scripts)
           /\ [t EXCEPT !.latest = b].latest = b
           /\ [t EXCEPT !.latest = b].kind = t.kind
           /\ [t EXCEPT !.latest = b].script = t.script
           /\ [t EXCEPT !.latest = b].team = t.team
           /\ [t EXCEPT !.latest = b].sent = t.sent
BY DEF TaskOf

LEMMA FitsNotLatest ==
    ASSUME NEW c, NEW h, NEW m, NEW squad, NEW un, NEW t, Fits(t, c, h, m, squad, un)
    PROVE  Fits([t EXCEPT !.latest = FALSE], c, h, m, squad, un)
<1>1. t \in TaskOf(Scripts)
  BY DEF Fits
<1>2. FALSE \in BOOLEAN
  OBVIOUS
<1> DEFINE u == [t EXCEPT !.latest = FALSE]
<1>3. /\ u \in TaskOf(Scripts) /\ u.latest = FALSE /\ u.kind = t.kind
      /\ u.script = t.script /\ u.team = t.team /\ u.sent = t.sent
  BY <1>1, <1>2, LatestSet
<1> HIDE DEF u
<1>4. Fits(u, c, h, m, squad, un)
  BY <1>3 DEF Fits
<1> QED
  BY <1>4 DEF u

LEMMA SentFits ==
    ASSUME NEW c, NEW h, NEW m, NEW squad, NEW un, NEW ts, NEW t \in ToSend,
           \A u \in ts : FitsBeside(u, t, c, h, m, squad, un), OneLatest(ts),
           Ready(t, c, h, m, squad, un)
    PROVE  /\ \A u \in Sent(t, ts) : Fits(u, c, h, m, squad, un)
           /\ OneLatest(Sent(t, ts))
           /\ TakesOver(t) => Loads(Sent(t, ts)) # {}
           /\ ~TakesOver(t) => Loads(Sent(t, ts)) = Loads(ts)
           /\ ts = {} => \A u, v \in Sent(t, ts) : u = v
<1> DEFINE off == [t EXCEPT !.latest = FALSE]
           on == [t EXCEPT !.latest = TRUE]
<1>1. /\ off.latest = FALSE /\ on.latest = TRUE /\ on.kind = t.kind /\ on.script = t.script
      /\ on.team = t.team /\ on.sent = t.sent /\ off.kind = t.kind /\ off.script = t.script
      /\ off.team = t.team /\ off.sent = t.sent
  BY LatestSet DEF ToSend
<1>2. CASE t.script = <<>>
  BY <1>2 DEF Sent, TakesOver, FitsBeside
<1>3. CASE t.script # <<>> /\ Head(t.script) # "predictions"
  <2>1. Sent(t, ts) = ts \cup {off} /\ Fits(off, c, h, m, squad, un)
    BY <1>3 DEF Sent, Ready
  <2> HIDE DEF off
  <2> QED
    BY <1>1, <1>3, <2>1 DEF OneLatest, Loads, TakesOver, FitsBeside
<1>4. CASE t.script # <<>> /\ Head(t.script) = "predictions"
  <2> DEFINE rest == {[u EXCEPT !.latest = FALSE] : u \in ts}
  <2>1. Sent(t, ts) = rest \cup {on} /\ Fits(off, c, h, m, squad, un)
    BY <1>4 DEF Sent, Ready
  <2>2. \A u \in rest : Fits(u, c, h, m, squad, un) /\ ~u.latest
    <3> SUFFICES ASSUME NEW u \in ts
                 PROVE  /\ Fits([u EXCEPT !.latest = FALSE], c, h, m, squad, un)
                        /\ ~[u EXCEPT !.latest = FALSE].latest
      OBVIOUS
    <3>1. u \in TaskOf(Scripts)
      BY DEF Fits, FitsBeside
    <3>2. Fits([u EXCEPT !.latest = FALSE], c, h, m, squad, un)
      BY FitsNotLatest DEF FitsBeside
    <3> QED
      BY <3>1, <3>2, LatestSet
  <2>3. Fits(on, c, h, m, squad, un)
    <3>1. on \in TaskOf(Scripts)
      <4>1. t \in TaskOf(Scripts)
        <5>1. off \in TaskOf(Scripts) /\ off.script = t.script
          BY <1>1, <2>1 DEF Fits
        <5>2. t.script \in Scripts
          <6> HIDE DEF off
          <6> QED
            BY <5>1 DEF TaskOf
        <5> QED
          BY <5>2 DEF ToSend, TaskOf
      <4> QED
        BY <4>1, LatestSet
    <3>2. t.sent.horizon = h \/ "horizon" \in un
      BY <1>4 DEF Ready
    <3> HIDE DEF on, off
    <3> QED
      BY <1>1, <1>4, <2>1, <3>1, <3>2 DEF Fits
  <2>4. ts = {} => rest = {}
    OBVIOUS
  <2> HIDE DEF on, off, rest
  <2> QED
    BY <1>1, <1>4, <2>1, <2>2, <2>3, <2>4 DEF OneLatest, Loads, TakesOver
<1> QED
  BY <1>2, <1>3, <1>4

\* The task of a new run, with what it reads when it starts.
LEMMA TaskType ==
    ASSUME PageTypes, NEW kind \in Runs \cup {"poll", "check"}, NEW n \in Nat,
           NEW script \in Scripts \cup {<<>>}, NEW holds \in BOOLEAN, NEW team \in Teams \cup {NoTeam}
    PROVE  /\ Task(kind, n, script, holds, team) \in ToSend
           /\ Task(kind, n, script, holds, team).kind = kind
           /\ Task(kind, n, script, holds, team).script = script
           /\ Task(kind, n, script, holds, team).team = team
           /\ Task(kind, n, script, holds, team).latest = FALSE
           /\ Task(kind, n, script, holds, team).sent.csrf = csrf
           /\ Task(kind, n, script, holds, team).sent.cookie = cookie
           /\ Task(kind, n, script, holds, team).sent.horizon = horizon
           /\ Task(kind, n, script, holds, team).sent.model = model
BY DEF Task, ToSend, TaskOf, RequestT, PageTypes, ServerTypes

-----------------------------------------------------------------------------
(* What the steps have in common                                           *)

LEMMA FitsStill ==
    ASSUME NEW c, NEW h, NEW m, NEW squad, NEW un, NEW t, Fits(t, c, h, m, squad, un),
           NEW squad2, NEW un2, squad2 = Nothing => squad = Nothing, un \subseteq un2
    PROVE  Fits(t, c, h, m, squad2, un2)
BY DEF Fits

\* Requests end or the server changes, and the page shows what it did.
LEMMA QuietStep ==
    ASSUME PageInv, tasks' \subseteq tasks, UNCHANGED <<csrf, shown, horizon, model>>,
           unanswered \subseteq unanswered', elsewhere => elsewhere',
           Loads(tasks') = {} => Loads(tasks) = {} \/ "horizon" \in unanswered',
           csrf = NoSession => ~timer', timer' \in BOOLEAN, elsewhere' \in BOOLEAN, ServerTypes',
           shown.squad # Nothing /\ ~elsewhere' => loaded'[csrf] \in {shown.squad.team, NoTeam}
    PROVE  PageInv'
<1>1. PageTypes'
  BY DEF PageInv, PageTypes
<1>2. TasksInv'
  <2>1. \A t \in tasks' : Fits(t, csrf, horizon, model, shown.squad, unanswered')
    <3> SUFFICES ASSUME NEW t \in tasks' PROVE Fits(t, csrf, horizon, model, shown.squad, unanswered')
      OBVIOUS
    <3>1. Fits(t, csrf, horizon, model, shown.squad, unanswered)
      BY DEF PageInv, TasksInv
    <3> QED
      BY <3>1, FitsStill
  <2> QED
    BY <2>1 DEF PageInv, TasksInv, OneLatest
<1>3. SquadInv'
  BY DEF PageInv, SquadInv
<1>4. LockedShowsNothing' /\ SelectionShown'
  BY DEF PageInv, LockedShowsNothing, SelectionShown
<1> QED
  BY <1>1, <1>2, <1>3, <1>4 DEF PageInv

\* The page forgets; at most it asks whether it may open again.
LEMMA ClearStep ==
    ASSUME Clear, ServerTypes',
           \A t, u \in tasks' : t = u,
           \A t \in tasks' : Fits(t, csrf', horizon', model', shown'.squad, unanswered') /\ ~t.latest
    PROVE  PageInv'
<1>1. csrf' = NoSession /\ shown' = Blank /\ timer' = FALSE /\ elsewhere' = FALSE
  BY DEF Clear
<1>2. Blank \in Page /\ Blank.squad = Nothing /\ Blank.lineup = Nothing /\ Blank.plan = Nothing /\ Blank.predictions = Nothing
  BY DEF Blank, Page, Either
<1>3. PageTypes'
  BY <1>1, <1>2, PageAssumption DEF PageTypes, Clear
<1>4. TasksInv'
  BY <1>1 DEF TasksInv, OneLatest
<1>5. SquadInv' /\ LockedShowsNothing' /\ SelectionShown'
  BY <1>1, <1>2 DEF SquadInv, LockedShowsNothing, SelectionShown
<1> QED
  BY <1>3, <1>4, <1>5 DEF PageInv

\* What a request of a locked page is.
LEMMA LockedTask ==
    ASSUME PageInv, NEW t \in tasks
    PROVE  /\ t \in TaskOf(Scripts) /\ t.sent.csrf = csrf
           /\ csrf = NoSession => t.kind \in {"access", "login"} /\ Head(t.script) \in {"session", "login"} /\ tasks = {t}
           /\ csrf # NoSession => Head(t.script) # "login" /\ ~(t.kind = "access" /\ Head(t.script) = "session")
<1>1. Fits(t, csrf, horizon, model, shown.squad, unanswered) /\ t.script \in Scripts
  BY DEF PageInv, TasksInv, Fits, TaskOf
<1> QED
  BY <1>1, Scripted DEF PageInv, TasksInv, Fits

\* A run goes on with the requests left, under what the page shows by then.
LEMMA ContinueStep ==
    ASSUME PageInv, NEW t \in tasks, NEW s \in Page, Continue(t, s), csrf # NoSession,
           csrf' = csrf, horizon' = horizon, model' = model, ServerTypes',
           timer' \in BOOLEAN, elsewhere' \in BOOLEAN,
           s.squad = Nothing => shown.squad = Nothing,
           Head(t.script) = "squad" => s.squad # Nothing,
           \A u \in tasks \ {t} : Fits(u, csrf, horizon, model, s.squad, unanswered')
    PROVE  /\ TasksInv' /\ PageTypes'
           /\ shown' = Before([script |-> Tail(t.script)], s)
           /\ Head(t.script) = "refresh" => Loads(tasks') # {}
           /\ Head(t.script) # "refresh" => Loads(tasks') = Loads(tasks \ {t})
<1> DEFINE u == Task(t.kind, t.n, Tail(t.script), t.holds, t.team)
<1>1. /\ t \in TaskOf(Scripts) /\ t.script \in Scripts
      /\ Fits(t, csrf, horizon, model, shown.squad, unanswered)
  BY DEF PageInv, TasksInv, Fits, TaskOf
<1>2. /\ t.kind \in Runs \cup {"poll", "check"} /\ t.n \in Nat /\ t.holds \in BOOLEAN
      /\ t.team \in Teams \cup {NoTeam} /\ Tail(t.script) \in Scripts \cup {<<>>}
  BY <1>1, Scripted DEF TaskOf
<1>3. /\ u \in ToSend /\ u.kind = t.kind /\ u.script = Tail(t.script) /\ u.team = t.team
      /\ u.latest = FALSE /\ u.sent.csrf = csrf /\ u.sent.horizon = horizon /\ u.sent.model = model
  <2>1. PageTypes
    BY DEF PageInv
  <2> QED
    BY <1>2, <2>1 DEF Task, ToSend, TaskOf, RequestT, PageTypes, ServerTypes
<1>4. tasks' = Sent(u, tasks \ {t}) /\ shown' = Before(u, s)
  BY DEF Continue
<1> HIDE DEF u
<1>5. Ready(u, csrf, horizon, model, s.squad, unanswered')
  <2> SUFFICES ASSUME u.script # <<>>
               PROVE  Fits([u EXCEPT !.latest = FALSE], csrf, horizon, model, s.squad, unanswered')
    BY <1>3 DEF Ready
  <2>1. Tail(t.script) \in Scripts
    BY <1>2, <1>3
  <2>2. u \in TaskOf(Scripts)
    BY <1>3, <2>1 DEF ToSend, TaskOf
  <2>3. /\ Tail(t.script) \notin Access \cup {<<"draft">>}
        /\ Tail(t.script) \in OfSquad => Head(t.script) = "squad" /\ t.script \in WithSquad
        /\ Tail(t.script) \in WithSquad => t.script \in WithSquad
    BY <1>1, Scripted
  <2>4. t.script \in WithSquad => t.team \in Teams
    BY <1>1 DEF Fits
  <2>5. Tail(t.script) \in OfSquad \cup WithSquad => t.kind \in Runs
    BY <1>1, <2>3 DEF Fits
  <2>6. Fits(u, csrf, horizon, model, s.squad, unanswered')
    BY <1>3, <2>2, <2>3, <2>4, <2>5 DEF Fits, Access
  <2> QED
    BY <2>6, FitsNotLatest
<1>6. OneLatest(tasks \ {t})
  BY DEF PageInv, TasksInv, OneLatest
<1>7. /\ \A v \in tasks' : Fits(v, csrf, horizon, model, s.squad, unanswered')
      /\ OneLatest(tasks')
      /\ TakesOver(u) => Loads(tasks') # {}
      /\ ~TakesOver(u) => Loads(tasks') = Loads(tasks \ {t})
  <2> DEFINE ts == tasks \ {t}
  <2>1. \A v \in ts : FitsBeside(v, u, csrf, horizon, model, s.squad, unanswered')
    BY DEF FitsBeside
  <2>2. OneLatest(ts) /\ tasks' = Sent(u, ts)
    BY <1>4, <1>6
  <2> HIDE DEF ts
  <2>3. /\ \A v \in Sent(u, ts) : Fits(v, csrf, horizon, model, s.squad, unanswered')
        /\ OneLatest(Sent(u, ts))
        /\ TakesOver(u) => Loads(Sent(u, ts)) # {}
        /\ ~TakesOver(u) => Loads(Sent(u, ts)) = Loads(ts)
    <3>1. /\ u \in ToSend /\ \A v \in ts : FitsBeside(v, u, csrf, horizon, model, s.squad, unanswered')
          /\ OneLatest(ts) /\ Ready(u, csrf, horizon, model, s.squad, unanswered')
      BY <1>3, <1>5, <2>1, <2>2
    <3>2. \A v \in Sent(u, ts) : Fits(v, csrf, horizon, model, s.squad, unanswered')
      BY <3>1, SentFits
    <3>3. OneLatest(Sent(u, ts))
      BY <3>1, SentFits
    <3>4. TakesOver(u) => Loads(Sent(u, ts)) # {}
      BY <3>1, SentFits
    <3>5. ~TakesOver(u) => Loads(Sent(u, ts)) = Loads(ts)
      BY <3>1, SentFits
    <3> QED
      BY <3>2, <3>3, <3>4, <3>5
  <2> QED
    BY <2>2, <2>3 DEF ts
<1>8. shown'.squad = s.squad /\ shown' \in Page
  BY <1>4 DEF Before, Page, Either
<1>9. TasksInv' /\ PageTypes'
  BY <1>7, <1>8 DEF TasksInv, PageInv, PageTypes, OneLatest
<1>10. /\ Head(t.script) = "refresh" => Tail(t.script) # <<>> /\ Head(Tail(t.script)) = "predictions"
       /\ Head(t.script) # "refresh" => Tail(t.script) = <<>> \/ Head(Tail(t.script)) # "predictions"
  BY <1>1, ScriptedOn
<1>11. Before(u, s) = Before([script |-> Tail(t.script)], s)
  BY <1>3 DEF Before
<1> QED
  BY <1>3, <1>4, <1>7, <1>9, <1>10, <1>11 DEF TakesOver

-----------------------------------------------------------------------------
(* What the reader does                                                    *)

\* The script of each run.
LEMMA ScriptOf ==
    ASSUME NEW kind \in Runs \ {"access"}
    PROVE  /\ Script(kind) \in Scripts \cup {<<>>} /\ Script(kind) # <<"session">>
           /\ Script(kind) = <<>> <=> kind = "model" /\ shown.squad = Nothing
           /\ Script(kind) = <<"login">> <=> kind = "login"
           /\ Script(kind) = <<"draft">> <=> kind = "draft"
           /\ Script(kind) # <<>> => (Head(Script(kind)) = "predictions" <=> kind = "horizon")
           /\ Script(kind) # <<>> => (Head(Script(kind)) = "lineup" <=> kind = "model")
           /\ Script(kind) \in OfSquad => kind \in {"draft", "plan"} \/ (kind = "model" /\ shown.squad # Nothing)
           /\ Script(kind) \in WithSquad => kind = "squad" \/ (kind = "refresh" /\ shown.squad # Nothing)
<1> USE DEF WithSquad, OfSquad, Access, Scripts
<1>1. CASE kind = "login"
  <2>1. Script(kind) = <<"login">>
    BY <1>1 DEF Script
  <2>2. Head(Script(kind)) = "login"
    BY <2>1
  <2> QED
    BY <1>1, <2>1, <2>2
<1>2. CASE kind = "logout"
  <2>1. Script(kind) = <<"logout">>
    BY <1>2 DEF Script
  <2>2. Head(Script(kind)) = "logout"
    BY <2>1
  <2> QED
    BY <1>2, <2>1, <2>2
<1>3. CASE kind = "refresh" /\ shown.squad = Nothing
  <2>1. Script(kind) = <<"refresh", "predictions">>
    BY <1>3 DEF Script
  <2>2. Head(Script(kind)) = "refresh"
    BY <2>1
  <2> QED
    BY <1>3, <2>1, <2>2
<1>4. CASE kind = "refresh" /\ shown.squad # Nothing
  <2>1. Script(kind) = <<"refresh", "predictions", "squad", "lineup">>
    BY <1>4 DEF Script
  <2>2. Head(Script(kind)) = "refresh"
    BY <2>1
  <2> QED
    BY <1>4, <2>1, <2>2
<1>5. CASE kind = "horizon"
  <2>1. Script(kind) = <<"predictions">>
    BY <1>5 DEF Script
  <2>2. Head(Script(kind)) = "predictions"
    BY <2>1
  <2> QED
    BY <1>5, <2>1, <2>2
<1>6. CASE kind = "model" /\ shown.squad = Nothing
  <2>1. Script(kind) = <<>>
    BY <1>6 DEF Script
  <2>2. <<>> \notin {<<"login">>, <<"draft">>, <<"session">>} /\ <<>> \notin OfSquad /\ <<>> \notin WithSquad
    OBVIOUS
  <2> HIDE DEF WithSquad, OfSquad, Access, Scripts
  <2> QED
    BY <1>6, <2>1, <2>2
<1>7. CASE kind = "model" /\ shown.squad # Nothing
  <2>1. Script(kind) = <<"lineup">>
    BY <1>7 DEF Script
  <2>2. Head(Script(kind)) = "lineup"
    BY <2>1
  <2> QED
    BY <1>7, <2>1, <2>2
<1>8. CASE kind = "squad"
  <2>1. Script(kind) = <<"squad", "lineup">>
    BY <1>8 DEF Script
  <2>2. Head(Script(kind)) = "squad"
    BY <2>1
  <2> QED
    BY <1>8, <2>1, <2>2
<1>9. CASE kind = "draft"
  <2>1. Script(kind) = <<"draft">>
    BY <1>9 DEF Script
  <2>2. Head(Script(kind)) = "draft"
    BY <2>1
  <2> QED
    BY <1>9, <2>1, <2>2
<1>10. CASE kind = "plan"
  <2>1. Script(kind) = <<"plan">>
    BY <1>10 DEF Script
  <2>2. Head(Script(kind)) = "plan"
    BY <2>1
  <2> QED
    BY <1>10, <2>1, <2>2
<1> QED
  BY <1>1, <1>2, <1>3, <1>4, <1>5, <1>6, <1>7, <1>8, <1>9, <1>10 DEF Runs

\* A run starts; the selects stand at h and m.
LEMMA StartStep ==
    ASSUME PageInv, NEW kind \in Runs \ {"access"}, NEW team \in Teams \cup {NoTeam}, NEW s \in Page,
           NEW ts, ts \subseteq tasks, NEW h \in Horizons, NEW m \in Models,
           Start(kind, team, s, ts, h, m), csrf' = csrf, horizon' = h, model' = m, timer' = timer,
           ServerTypes', elsewhere' \in BOOLEAN, s.squad = shown.squad,
           kind = "login" <=> csrf = NoSession, csrf = NoSession => ts = {},
           kind \in {"draft", "plan"} => shown.squad # Nothing,
           kind \in {"squad", "draft"} => team \in Teams,
           kind = "refresh" /\ shown.squad # Nothing => team \in Teams,
           \A u \in ts : FitsBeside(u, [script |-> Script(kind)], csrf, h, m, shown.squad, unanswered')
    PROVE  /\ TasksInv' /\ PageTypes'
           /\ shown' = Before([script |-> Script(kind)], s)
           /\ kind = "horizon" => Loads(tasks') # {}
           /\ kind # "horizon" => Loads(tasks') = Loads(ts)
<1> DEFINE t == [Task(kind, 1, Script(kind), ~Locked, team) EXCEPT !.sent.horizon = h, !.sent.model = m]
           squad == shown.squad
<1>1. Script(kind) \in Scripts \cup {<<>>} /\ Locked \in BOOLEAN /\ kind \in Runs
  BY ScriptOf DEF Locked
<1>2. /\ t \in ToSend /\ t.kind = kind /\ t.script = Script(kind) /\ t.team = team
      /\ t.latest = FALSE /\ t.sent.csrf = csrf /\ t.sent.horizon = h /\ t.sent.model = m
  <2>1. PageTypes
    BY DEF PageInv
  <2> HIDE DEF Script, Locked
  <2> QED
    BY <1>1, <2>1 DEF Task, ToSend, TaskOf, RequestT, PageTypes, ServerTypes
<1>3. tasks' = Sent(t, ts) /\ shown' = Before(t, s)
  BY DEF Start
<1> HIDE DEF t, squad
<1>4. Ready(t, csrf, h, m, squad, unanswered')
  <2> SUFFICES ASSUME t.script # <<>>
               PROVE  Fits([t EXCEPT !.latest = FALSE], csrf, h, m, squad, unanswered')
    BY <1>2 DEF Ready
  <2>1. t \in TaskOf(Scripts) /\ Script(kind) \in Scripts
    BY <1>1, <1>2 DEF ToSend, TaskOf
  <2>2. csrf = NoSession => kind = "login" /\ Script(kind) \in Access
    BY ScriptOf DEF Access
  <2>3. csrf # NoSession => Script(kind) # <<"login">>
    BY ScriptOf
  <2>4. Script(kind) \in OfSquad => squad # Nothing
    BY ScriptOf DEF squad
  <2>5. Script(kind) \in WithSquad \cup {<<"draft">>} => team \in Teams
    BY ScriptOf
  <2>6. Fits(t, csrf, h, m, squad, unanswered')
    BY <1>1, <1>2, <2>1, <2>2, <2>3, <2>4, <2>5 DEF Fits
  <2> QED
    BY <2>6, FitsNotLatest
<1>5. OneLatest(ts) /\ \A u \in ts : FitsBeside(u, t, csrf, h, m, squad, unanswered')
  BY <1>2 DEF PageInv, TasksInv, OneLatest, squad, FitsBeside, TakesOver
<1>6. \A u \in Sent(t, ts) : Fits(u, csrf, h, m, squad, unanswered')
  BY <1>2, <1>4, <1>5, SentFits
<1>7. OneLatest(Sent(t, ts))
  BY <1>2, <1>4, <1>5, SentFits
<1>8. TakesOver(t) => Loads(Sent(t, ts)) # {}
  BY <1>2, <1>4, <1>5, SentFits
<1>9. ~TakesOver(t) => Loads(Sent(t, ts)) = Loads(ts)
  BY <1>2, <1>4, <1>5, SentFits
<1>10. ts = {} => \A u, v \in Sent(t, ts) : u = v
  BY <1>2, <1>4, <1>5, SentFits
<1>11. shown'.squad = squad /\ shown' \in Page
  BY <1>3 DEF Before, Page, Either, squad
<1>12. TasksInv'
  <2>1. \A u \in tasks' : Fits(u, csrf', horizon', model', shown'.squad, unanswered')
    BY <1>3, <1>6, <1>11
  <2>2. OneLatest(tasks')
    BY <1>3, <1>7
  <2>3. csrf' = NoSession => ~timer' /\ \A u, v \in tasks' : u = v
    BY <1>3, <1>10 DEF PageInv, TasksInv
  <2> QED
    BY <2>1, <2>2, <2>3 DEF TasksInv, OneLatest
<1>13. PageTypes'
  BY <1>11 DEF PageInv, PageTypes
<1>14. (kind = "horizon" => Loads(tasks') # {}) /\ (kind # "horizon" => Loads(tasks') = Loads(ts))
  BY <1>2, <1>3, <1>8, <1>9, ScriptOf DEF TakesOver
<1>15. shown' = Before([script |-> Script(kind)], s)
  BY <1>2, <1>3 DEF Before
<1> QED
  BY <1>12, <1>13, <1>14, <1>15

\* Before() takes nothing away but the lineup.
LEMMA BeforeKeeps ==
    ASSUME NEW script, NEW s \in Page
    PROVE  LET b == Before([script |-> script], s)
           IN  /\ b \in Page /\ b.predictions = s.predictions /\ b.squad = s.squad /\ b.plan = s.plan
               /\ b.lineup \in {s.lineup, Nothing}
               /\ script # <<>> /\ Head(script) = "lineup" => b.lineup = Nothing
               /\ script = <<>> \/ Head(script) # "lineup" => b = s
BY DEF Before, Page, Either

\* A run that changes no select and does not ask for the lineup alone.
LEMMA DoStep ==
    ASSUME PageInv, NEW kind \in {"login", "refresh", "squad", "draft", "plan"},
           NEW team \in Teams \cup {NoTeam}, Do(kind, team),
           kind = "login" <=> csrf = NoSession,
           kind \in {"draft", "plan"} => shown.squad # Nothing,
           kind \in {"squad", "draft"} => team \in Teams,
           kind = "refresh" /\ shown.squad # Nothing => team \in Teams
    PROVE  PageInv'
<1>1. /\ ~Busy /\ Start(kind, team, shown, tasks, horizon, model) /\ kind \in Runs \ {"access"}
      /\ UNCHANGED <<csrf, horizon, model, timer, cookie, live, opened, loaded, told, unanswered, elsewhere>>
  BY DEF Do, selects, server, ghosts, Runs
<1>2. csrf = NoSession => tasks = {}
  <2> SUFFICES ASSUME csrf = NoSession, NEW t \in tasks PROVE FALSE
    OBVIOUS
  <2>1. t.kind \in Runs
    BY LockedTask DEF Runs
  <2> QED
    BY <1>1, <2>1 DEF Busy, Running
<1>3. PageTypes /\ ServerTypes' /\ shown \in Page /\ horizon \in Horizons /\ model \in Models /\ elsewhere' \in BOOLEAN
  BY <1>1 DEF PageInv, PageTypes, ServerTypes
<1>4. \A u \in tasks : FitsBeside(u, [script |-> Script(kind)], csrf, horizon, model, shown.squad, unanswered')
  BY <1>1 DEF PageInv, TasksInv, FitsBeside
<1>5. /\ TasksInv' /\ PageTypes' /\ Loads(tasks') = Loads(tasks)
      /\ shown' = Before([script |-> Script(kind)], shown)
  BY <1>1, <1>2, <1>3, <1>4, StartStep
<1>6. shown' = shown
  <2>1. Script(kind) = <<>> \/ Head(Script(kind)) # "lineup"
    BY <1>1, ScriptOf
  <2> QED
    BY <1>3, <1>5, <2>1, BeforeKeeps
<1>7. SquadInv' /\ LockedShowsNothing' /\ SelectionShown'
  BY <1>1, <1>5, <1>6 DEF PageInv, SquadInv, LockedShowsNothing, SelectionShown
<1> QED
  BY <1>5, <1>7 DEF PageInv

\* What is shown of a squad, a lineup, a plan.
LEMMA ShownTypes ==
    ASSUME PageInv
    PROVE  /\ shown \in Page /\ csrf \in Sessions \cup {NoSession} /\ NoSession \notin Sessions /\ NoTeam \notin Teams
           /\ shown.squad # Nothing => shown.squad.team \in Teams /\ shown.squad.session = csrf /\ csrf \in Sessions
           /\ shown.lineup # Nothing => shown.lineup.team \in Teams /\ shown.squad # Nothing
           /\ shown.plan # Nothing => shown.squad # Nothing
           /\ csrf = NoSession => shown.squad = Nothing /\ shown.lineup = Nothing /\ shown.plan = Nothing
<1>1. shown \in Page /\ csrf \in Sessions \cup {NoSession}
  BY DEF PageInv, PageTypes
<1>2. shown.squad \in [team : Teams, session : Sessions] \cup {Nothing} /\ shown.lineup \in FigureT \cup {Nothing}
  BY <1>1 DEF Page, Either
<1>3. csrf = NoSession => shown.squad = Nothing /\ shown.lineup = Nothing /\ shown.plan = Nothing
  BY DEF PageInv, LockedShowsNothing, Blank
<1>4. shown.squad # Nothing => shown.squad.session = csrf
  BY DEF PageInv, LockedShowsNothing
<1> QED
  BY <1>1, <1>2, <1>3, <1>4, PageAssumption DEF PageInv, SquadInv, FigureT

LEMMA ReaderRuns ==
    ASSUME PageInv, Login \/ Refresh \/ (\E team \in Teams : LoadSquad(team)) \/ Draft \/ Plan
    PROVE  PageInv'
<1>1. CASE Login
  BY <1>1, DoStep DEF Login
<1>2. CASE Refresh
  <2>1. (IF shown.squad = Nothing THEN NoTeam ELSE shown.squad.team) \in Teams \cup {NoTeam}
    BY ShownTypes
  <2>2. shown.squad # Nothing => (IF shown.squad = Nothing THEN NoTeam ELSE shown.squad.team) \in Teams
    BY ShownTypes
  <2> QED
    BY <1>2, <2>1, <2>2, DoStep DEF Refresh
<1>3. CASE \E team \in Teams : LoadSquad(team)
  BY <1>3, DoStep DEF LoadSquad
<1>4. CASE Draft
  <2>1. shown.lineup.team \in Teams /\ shown.squad # Nothing /\ csrf # NoSession
    BY <1>4, ShownTypes DEF Draft
  <2> QED
    BY <1>4, <2>1, DoStep DEF Draft
<1>5. CASE Plan
  <2>1. csrf # NoSession
    BY <1>5, ShownTypes DEF Plan
  <2> QED
    BY <1>5, <2>1, DoStep DEF Plan
<1> QED
  BY <1>1, <1>2, <1>3, <1>4, <1>5

LEMMA ChangeHorizonStep ==
    ASSUME PageInv, NEW h \in Horizons, ChangeHorizon(h)
    PROVE  PageInv'
<1>1. /\ csrf # NoSession /\ horizon' = h
      /\ UNCHANGED <<csrf, model, timer, cookie, live, opened, loaded, told, elsewhere>>
  BY DEF ChangeHorizon, server
<1>2. /\ ServerTypes' /\ shown \in Page /\ model \in Models /\ elsewhere' \in BOOLEAN
      /\ \A u \in tasks : Fits(u, csrf, horizon, model, shown.squad, unanswered)
  BY <1>1 DEF PageInv, PageTypes, ServerTypes, TasksInv
<1>3. CASE Busy
  <2>1. tasks' = tasks /\ shown' = shown /\ unanswered' = unanswered \cup {"horizon"}
    BY <1>3 DEF ChangeHorizon
  <2>2. \A u \in tasks : Fits(u, csrf, h, model, shown.squad, unanswered')
    <3> SUFFICES ASSUME NEW u \in tasks PROVE Fits(u, csrf, h, model, shown.squad, unanswered')
      OBVIOUS
    <3>1. Fits(u, csrf, horizon, model, shown.squad, unanswered)
      BY <1>2
    <3> QED
      BY <2>1, <3>1 DEF Fits
  <2>3. PageTypes' /\ TasksInv'
    BY <1>1, <1>2, <2>1, <2>2 DEF PageInv, PageTypes, TasksInv, OneLatest
  <2>4. SquadInv' /\ LockedShowsNothing' /\ SelectionShown'
    BY <1>1, <2>1 DEF PageInv, SquadInv, LockedShowsNothing, SelectionShown
  <2> QED
    BY <2>3, <2>4 DEF PageInv
<1>4. CASE ~Busy
  <2>1. Start("horizon", NoTeam, shown, tasks, h, model) /\ unanswered' = unanswered
    BY <1>4 DEF ChangeHorizon
  <2>2. TakesOver([script |-> Script("horizon")])
    BY DEF TakesOver, Script
  <2>3. \A u \in tasks : FitsBeside(u, [script |-> Script("horizon")], csrf, h, model, shown.squad, unanswered')
    <3> SUFFICES ASSUME NEW u \in tasks
                 PROVE  u \in TaskOf(Scripts) /\ Fits([u EXCEPT !.latest = FALSE], csrf, h, model, shown.squad, unanswered')
      BY <2>2 DEF FitsBeside
    <3> DEFINE v == [u EXCEPT !.latest = FALSE]
    <3>1. Fits(v, csrf, horizon, model, shown.squad, unanswered) /\ u \in TaskOf(Scripts)
      <4>1. Fits(u, csrf, horizon, model, shown.squad, unanswered)
        BY <1>2
      <4>2. Fits(v, csrf, horizon, model, shown.squad, unanswered)
        BY <4>1, FitsNotLatest
      <4> QED
        BY <4>1, <4>2 DEF Fits
    <3>2. v.latest = FALSE
      BY <3>1, LatestSet
    <3> HIDE DEF v
    <3>3. Fits(v, csrf, h, model, shown.squad, unanswered')
      BY <2>1, <3>1, <3>2 DEF Fits
    <3> QED
      BY <3>1, <3>3 DEF v
  <2>4. "horizon" \in Runs \ {"access"}
    BY DEF Runs
  <2>5. TasksInv' /\ PageTypes' /\ shown' = Before([script |-> Script("horizon")], shown) /\ Loads(tasks') # {}
    BY <1>1, <1>2, <2>1, <2>3, <2>4, StartStep
  <2>6. shown' = shown
    <3>1. Head(Script("horizon")) = "predictions"
      BY DEF Script
    <3> QED
      BY <1>2, <2>5, <3>1, BeforeKeeps
  <2>7. SquadInv' /\ LockedShowsNothing' /\ SelectionShown'
    BY <1>1, <2>1, <2>5, <2>6 DEF PageInv, SquadInv, LockedShowsNothing, SelectionShown
  <2> QED
    BY <2>5, <2>7 DEF PageInv
<1> QED
  BY <1>3, <1>4

LEMMA ChangeModelStep ==
    ASSUME PageInv, NEW m \in Models, ChangeModel(m)
    PROVE  PageInv'
<1>1. /\ csrf # NoSession /\ model' = m
      /\ UNCHANGED <<csrf, horizon, timer, cookie, live, opened, loaded, told, elsewhere>>
  BY DEF ChangeModel, server
<1>2. /\ ServerTypes' /\ shown \in Page /\ horizon \in Horizons /\ elsewhere' \in BOOLEAN
      /\ \A u \in tasks : Fits(u, csrf, horizon, model, shown.squad, unanswered)
  BY <1>1 DEF PageInv, PageTypes, ServerTypes, TasksInv
<1>3. CASE Busy
  <2>1. tasks' = tasks /\ shown' = shown /\ unanswered' = unanswered \cup {"model"}
    BY <1>3 DEF ChangeModel
  <2>2. \A u \in tasks : Fits(u, csrf, horizon, m, shown.squad, unanswered')
    <3> SUFFICES ASSUME NEW u \in tasks PROVE Fits(u, csrf, horizon, m, shown.squad, unanswered')
      OBVIOUS
    <3>1. Fits(u, csrf, horizon, model, shown.squad, unanswered)
      BY <1>2
    <3> QED
      BY <2>1, <3>1 DEF Fits
  <2>3. PageTypes' /\ TasksInv'
    BY <1>1, <1>2, <2>1, <2>2 DEF PageInv, PageTypes, TasksInv, OneLatest
  <2>4. SquadInv' /\ LockedShowsNothing' /\ SelectionShown'
    BY <1>1, <2>1 DEF PageInv, SquadInv, LockedShowsNothing, SelectionShown
  <2> QED
    BY <2>3, <2>4 DEF PageInv
<1>4. CASE ~Busy
  <2>1. Start("model", NoTeam, WithoutPlan, tasks, horizon, m) /\ unanswered' = unanswered \ {"model"}
    BY <1>4 DEF ChangeModel
  <2>2. \A u \in tasks : Fits(u, csrf, horizon, m, shown.squad, unanswered')
    <3> SUFFICES ASSUME NEW u \in tasks PROVE Fits(u, csrf, horizon, m, shown.squad, unanswered')
      OBVIOUS
    <3>1. Fits(u, csrf, horizon, model, shown.squad, unanswered) /\ u.kind \notin Runs
      BY <1>2, <1>4 DEF Busy, Running
    <3> QED
      BY <2>1, <3>1 DEF Fits
  <2>3. /\ WithoutPlan \in Page /\ WithoutPlan.squad = shown.squad /\ WithoutPlan.plan = Nothing
        /\ WithoutPlan.predictions = shown.predictions /\ WithoutPlan.lineup = shown.lineup
    BY <1>2 DEF WithoutPlan, Page, Either
  <2>4. "model" \in Runs \ {"access"}
    BY DEF Runs
  <2>5. \A u \in tasks : FitsBeside(u, [script |-> Script("model")], csrf, horizon, m, shown.squad, unanswered')
    BY <2>2 DEF FitsBeside
  <2>6. /\ TasksInv' /\ PageTypes' /\ shown' = Before([script |-> Script("model")], WithoutPlan)
        /\ Loads(tasks') = Loads(tasks)
    BY <1>1, <1>2, <2>1, <2>3, <2>4, <2>5, StartStep
  <2>7. /\ shown'.squad = shown.squad /\ shown'.plan = Nothing /\ shown'.predictions = shown.predictions
        /\ shown'.lineup = Nothing
    <3>1. CASE shown.squad = Nothing
      <4>1. shown.lineup = Nothing
        BY <3>1 DEF PageInv, SquadInv
      <4> QED
        BY <2>3, <2>6, <4>1, BeforeKeeps
    <3>2. CASE shown.squad # Nothing
      <4>1. Script("model") # <<>> /\ Head(Script("model")) = "lineup"
        BY <3>2, <2>4, ScriptOf
      <4> QED
        BY <2>3, <2>6, <4>1, BeforeKeeps
    <3> QED
      BY <3>1, <3>2
  <2>8. SquadInv' /\ LockedShowsNothing' /\ SelectionShown'
    BY <1>1, <2>1, <2>6, <2>7 DEF PageInv, SquadInv, LockedShowsNothing, SelectionShown
  <2> QED
    BY <2>6, <2>8 DEF PageInv
<1> QED
  BY <1>3, <1>4

\* What the server does with the requests nobody hears of again.
LEMMA UnseenEffect ==
    ASSUME PageInv, NEW ts, ts \subseteq tasks, Unseen(ts)
    PROVE  /\ loaded' \in [Sessions -> Teams \cup {NoTeam}] /\ elsewhere' \in BOOLEAN
           /\ (elsewhere => elsewhere') /\ (~elsewhere' => loaded' = loaded)
<1>1. loaded \in [Sessions -> Teams \cup {NoTeam}] /\ elsewhere \in BOOLEAN
  BY DEF PageInv, PageTypes, ServerTypes
<1>2. ASSUME NEW t \in ts PROVE t.team \in Teams \cup {NoTeam}
  BY LockedTask DEF TaskOf
<1> QED
  BY <1>1, <1>2 DEF Unseen

LEMMA SignOutStep ==
    ASSUME PageInv, SignOut
    PROVE  PageInv'
<1>1. /\ csrf # NoSession /\ Start("logout", NoTeam, shown, {}, horizon, model) /\ Unseen(tasks)
      /\ unanswered' = IF Loads(tasks) = {} THEN unanswered ELSE unanswered \cup {"horizon"}
      /\ UNCHANGED <<csrf, horizon, model, timer, cookie, live, opened, told>>
  BY DEF SignOut, Aborted, selects
<1>2. ServerTypes' /\ elsewhere' \in BOOLEAN /\ (elsewhere => elsewhere') /\ (~elsewhere' => loaded' = loaded)
  BY <1>1, UnseenEffect DEF PageInv, PageTypes, ServerTypes
<1>3. shown \in Page /\ horizon \in Horizons /\ model \in Models /\ "logout" \in Runs \ {"access"}
  BY DEF PageInv, PageTypes, Runs
<1>4. TasksInv' /\ PageTypes' /\ shown' = Before([script |-> Script("logout")], shown)
  <2>1. {} \subseteq tasks /\ \A u \in {} : FitsBeside(u, [script |-> Script("logout")], csrf, horizon, model, shown.squad, unanswered')
    OBVIOUS
  <2> QED
    BY <1>1, <1>2, <1>3, <2>1, StartStep
<1>5. shown' = shown
  <2>1. Head(Script("logout")) # "lineup"
    BY DEF Script
  <2>2. Script("logout") = <<>> \/ Head(Script("logout")) # "lineup"
    BY <2>1
  <2> QED
    BY <1>3, <1>4, <2>2, BeforeKeeps
<1>6. SquadInv' /\ LockedShowsNothing' /\ SelectionShown'
  BY <1>1, <1>2, <1>5 DEF PageInv, SquadInv, LockedShowsNothing, SelectionShown
<1> QED
  BY <1>4, <1>6 DEF PageInv

-----------------------------------------------------------------------------
(* Answers                                                                 *)

LEMMA ClearedEmpty ==
    ASSUME Clear, ServerTypes', tasks' = {}
    PROVE  PageInv'
BY ClearStep

LEMMA UnauthorisedStep ==
    ASSUME PageInv, NEW t \in tasks, Unauthorised(t)
    PROVE  PageInv'
<1>1. Clear /\ tasks' = {} /\ UNCHANGED server
  BY DEF Unauthorised, Aborted
<1>2. ServerTypes'
  BY <1>1 DEF PageInv, PageTypes, ServerTypes, server
<1> QED
  BY <1>1, <1>2, ClearedEmpty

LEMMA FailedStep ==
    ASSUME PageInv, NEW t \in tasks, Failed(t)
    PROVE  PageInv'
<1>1. /\ tasks' = tasks \ {t} /\ Unseen({t})
      /\ unanswered' = IF t.latest THEN unanswered \cup {"horizon"} ELSE unanswered
      /\ UNCHANGED <<csrf, shown, horizon, model, timer, cookie, live, opened, told>>
  BY DEF Failed, selects
<1>2. ServerTypes' /\ elsewhere' \in BOOLEAN /\ (elsewhere => elsewhere') /\ (~elsewhere' => loaded' = loaded)
  BY <1>1, UnseenEffect DEF PageInv, PageTypes, ServerTypes
<1>3. Loads(tasks') = {} => Loads(tasks) = {} \/ "horizon" \in unanswered'
  BY <1>1 DEF Loads
<1>4. shown.squad # Nothing /\ ~elsewhere' => loaded'[csrf] \in {shown.squad.team, NoTeam}
  BY <1>2 DEF PageInv, SquadInv
<1>5. (csrf = NoSession => ~timer') /\ timer' \in BOOLEAN
  BY <1>1 DEF PageInv, TasksInv, PageTypes
<1> QED
  BY <1>1, <1>2, <1>3, <1>4, <1>5, QuietStep

\* Nothing the page knows of changes but that requests end; none of them loads predictions.
LEMMA ServerStep ==
    ASSUME PageInv, tasks' \subseteq tasks, Loads(tasks') = Loads(tasks),
           UNCHANGED <<csrf, shown, horizon, model, timer, unanswered>>, ServerTypes',
           elsewhere' \in BOOLEAN, elsewhere => elsewhere',
           shown.squad # Nothing /\ ~elsewhere' => loaded'[csrf] \in {loaded[csrf], NoTeam}
    PROVE  PageInv'
<1>1. (csrf = NoSession => ~timer') /\ timer' \in BOOLEAN
  BY DEF PageInv, TasksInv, PageTypes
<1>2. shown.squad # Nothing /\ ~elsewhere' => loaded'[csrf] \in {shown.squad.team, NoTeam}
  BY DEF PageInv, SquadInv
<1> QED
  BY <1>1, <1>2, QuietStep

\* A request that is not for the predictions is not the latest load of them.
LEMMA NotLoading ==
    ASSUME PageInv, NEW t \in tasks, Head(t.script) # "predictions"
    PROVE  ~t.latest /\ Loads(tasks \ {t}) = Loads(tasks)
<1>1. ~t.latest
  <2>1. Fits(t, csrf, horizon, model, shown.squad, unanswered)
    BY DEF PageInv, TasksInv
  <2> QED
    BY <2>1 DEF Fits
<1> QED
  BY <1>1 DEF Loads

\* The page opens with the nonce of a session.
LEMMA UnlockStep ==
    ASSUME PageInv, NEW t \in tasks, NEW s \in Sessions, csrf = NoSession, Unlock(t, s),
           UNCHANGED <<shown, horizon, model, timer, unanswered, elsewhere>>, ServerTypes'
    PROVE  PageInv'
<1> DEFINE u == [t EXCEPT !.script = <<"predictions">>,
                          !.sent = [cookie |-> cookie', csrf |-> s, horizon |-> horizon, model |-> model]]
<1>1. /\ t \in TaskOf(Scripts) /\ tasks = {t} /\ shown = Blank /\ s # NoSession
      /\ horizon \in Horizons /\ model \in Models /\ cookie' \in Sessions \cup {NoSession}
      /\ timer \in BOOLEAN /\ elsewhere \in BOOLEAN /\ t.kind \in {"access", "login"}
  BY LockedTask, PageAssumption DEF PageInv, LockedShowsNothing, PageTypes, ServerTypes
<1>2. /\ u \in TaskOf({<<"predictions">>}) /\ u.script = <<"predictions">> /\ u.sent.csrf = s
      /\ u.sent.horizon = horizon /\ u.sent.model = model /\ u.kind = t.kind
  BY <1>1 DEF TaskOf, RequestT
<1>3. tasks' = Sent(u, {}) /\ csrf' = s
  BY <1>1 DEF Unlock
<1> HIDE DEF u
<1>4. Fits([u EXCEPT !.latest = FALSE], s, horizon, model, shown.squad, unanswered)
  <2> DEFINE v == [u EXCEPT !.latest = FALSE]
  <2>1. /\ v \in TaskOf({<<"predictions">>}) /\ v.script = <<"predictions">> /\ v.sent.csrf = s
        /\ v.latest = FALSE /\ v.kind = t.kind
    BY <1>2, LatestSet
  <2>2. <<"predictions">> \in Scripts /\ <<"predictions">> \notin OfSquad /\ <<"predictions">> \notin WithSquad
        /\ <<"predictions">> \notin {<<"login">>, <<"session">>, <<"draft">>}
    BY DEF Scripts, OfSquad, WithSquad, Access
  <2> HIDE DEF v
  <2>3. v \in TaskOf(Scripts)
    BY <2>1, <2>2 DEF TaskOf
  <2>4. Fits(v, s, horizon, model, shown.squad, unanswered)
    BY <1>1, <2>1, <2>2, <2>3 DEF Fits
  <2> QED
    BY <2>4 DEF v
<1>5. /\ u \in ToSend /\ Ready(u, s, horizon, model, shown.squad, unanswered) /\ TakesOver(u)
  BY <1>2, <1>4 DEF ToSend, TaskOf, Ready, TakesOver, Scripts
<1>6. OneLatest({}) /\ \A v \in {} : FitsBeside(v, u, s, horizon, model, shown.squad, unanswered)
  BY DEF OneLatest
<1>7. \A v \in Sent(u, {}) : Fits(v, s, horizon, model, shown.squad, unanswered)
  BY <1>5, <1>6, SentFits
<1>8. OneLatest(Sent(u, {}))
  BY <1>5, <1>6, SentFits
<1>9. Loads(Sent(u, {})) # {}
  BY <1>5, <1>6, SentFits
<1>10. TasksInv'
  BY <1>1, <1>3, <1>7, <1>8 DEF TasksInv, OneLatest
<1>11. PageTypes'
  BY <1>1, <1>3 DEF PageInv, PageTypes
<1>12. SquadInv' /\ LockedShowsNothing' /\ SelectionShown'
  BY <1>1, <1>3, <1>9 DEF SquadInv, LockedShowsNothing, SelectionShown, Blank
<1> QED
  BY <1>10, <1>11, <1>12 DEF PageInv

LEMMA CheckedAccessStep ==
    ASSUME PageInv, NEW t \in tasks, CheckedAccess(t)
    PROVE  PageInv'
<1>1. /\ t.kind = "access" /\ Head(t.script) = "session" /\ csrf = NoSession
      /\ UNCHANGED <<shown, horizon, model, timer, cookie, live, opened, loaded, unanswered, elsewhere>>
  BY LockedTask DEF CheckedAccess, Served, selects, ghosts
<1>2. ServerTypes' /\ elsewhere \in BOOLEAN
  BY <1>1 DEF PageInv, PageTypes, ServerTypes
<1>3. CASE Authorised(t)
  <2>1. t.sent.cookie \in Sessions /\ Unlock(t, t.sent.cookie)
    BY <1>3 DEF CheckedAccess, Authorised, PageInv, PageTypes, ServerTypes
  <2> QED
    BY <1>1, <1>2, <2>1, UnlockStep
<1>4. CASE ~Authorised(t)
  <2>1. tasks' = tasks \ {t} /\ csrf' = csrf
    BY <1>4 DEF CheckedAccess
  <2> QED
    BY <1>1, <1>2, <2>1, NotLoading, ServerStep
<1> QED
  BY <1>3, <1>4

LEMMA CheckedSessionStep ==
    ASSUME PageInv, NEW t \in tasks, CheckedSession(t)
    PROVE  PageInv'
<1>1. Head(t.script) = "session" /\ UNCHANGED <<cookie, live, opened, loaded>>
  BY DEF CheckedSession, Served, server
<1>2. ServerTypes'
  BY <1>1 DEF PageInv, PageTypes, ServerTypes
<1>3. CASE Authorised(t)
  <2>1. tasks' = tasks \ {t} /\ UNCHANGED <<csrf, shown, horizon, model, timer, unanswered, elsewhere>>
    BY <1>3 DEF CheckedSession, selects, ghosts
  <2>2. elsewhere \in BOOLEAN
    BY DEF PageInv, PageTypes
  <2> QED
    BY <1>1, <1>2, <2>1, <2>2, NotLoading, ServerStep
<1>4. CASE ~Authorised(t)
  BY <1>2, <1>4, ClearedEmpty DEF CheckedSession, Aborted
<1> QED
  BY <1>3, <1>4

LEMMA LoggedInStep ==
    ASSUME PageInv, NEW t \in tasks, LoggedIn(t)
    PROVE  PageInv'
<1>1. /\ Head(t.script) = "login" /\ csrf = NoSession
      /\ UNCHANGED <<shown, horizon, model, timer, loaded, unanswered, elsewhere>>
  BY LockedTask DEF LoggedIn, Served, selects, ghosts
<1>2. PICK s \in Sessions \ opened : cookie' = s /\ live' = live \cup {s} /\ opened' = opened \cup {s} /\ Unlock(t, s)
  BY DEF LoggedIn
<1>3. ServerTypes'
  BY <1>1, <1>2 DEF PageInv, PageTypes, ServerTypes
<1> QED
  BY <1>1, <1>2, <1>3, UnlockStep

LEMMA LoggedOutStep ==
    ASSUME PageInv, NEW t \in tasks, LoggedOut(t)
    PROVE  PageInv'
<1>1. /\ live' = live \ {t.sent.cookie} /\ loaded' = [loaded EXCEPT ![t.sent.cookie] = NoTeam]
      /\ cookie' = NoSession /\ opened' = opened /\ Clear /\ tasks' = {}
  BY DEF LoggedOut, Aborted
<1>2. ServerTypes'
  BY <1>1 DEF PageInv, PageTypes, ServerTypes
<1> QED
  BY <1>1, <1>2, ClearedEmpty

\* What a request for the predictions, a squad, a lineup or a plan is.
LEMMA OpenTask ==
    ASSUME PageInv, NEW t \in tasks, Head(t.script) \notin {"session", "login"}
    PROVE  /\ csrf \in Sessions /\ csrf # NoSession /\ t.script \in Scripts
           /\ Fits(t, csrf, horizon, model, shown.squad, unanswered)
<1>1. Fits(t, csrf, horizon, model, shown.squad, unanswered)
  BY DEF PageInv, TasksInv
<1>2. t.script \in Scripts
  BY <1>1 DEF Fits, TaskOf
<1>3. csrf # NoSession
  BY LockedTask
<1> QED
  BY <1>1, <1>2, <1>3, ShownTypes

LEMMA RefreshedStep ==
    ASSUME PageInv, NEW t \in tasks, Refreshed(t)
    PROVE  PageInv'
<1>1. /\ Head(t.script) = "refresh" /\ Continue(t, shown)
      /\ UNCHANGED <<csrf, horizon, model, timer, cookie, live, opened, loaded, unanswered, elsewhere>>
  BY DEF Refreshed, Served, selects, server, ghosts
<1>2. ServerTypes' /\ timer' \in BOOLEAN /\ elsewhere' \in BOOLEAN /\ shown \in Page
  BY <1>1 DEF PageInv, PageTypes, ServerTypes
<1>3. csrf # NoSession /\ t.script \in Scripts
  BY <1>1, OpenTask
<1>4. \A u \in tasks \ {t} : Fits(u, csrf, horizon, model, shown.squad, unanswered')
  BY <1>1 DEF PageInv, TasksInv
<1>5. TasksInv' /\ PageTypes' /\ shown' = Before([script |-> Tail(t.script)], shown) /\ Loads(tasks') # {}
  BY <1>1, <1>2, <1>3, <1>4, ContinueStep
<1>6. shown' = shown
  <2>1. Tail(t.script) = <<>> \/ Head(Tail(t.script)) # "lineup"
    BY <1>1, <1>3, ScriptedOn
  <2> QED
    BY <1>2, <1>5, <2>1, BeforeKeeps
<1>7. SquadInv' /\ LockedShowsNothing' /\ SelectionShown'
  BY <1>1, <1>5, <1>6 DEF PageInv, SquadInv, LockedShowsNothing, SelectionShown
<1> QED
  BY <1>5, <1>7 DEF PageInv

LEMMA PredictedStep ==
    ASSUME PageInv, NEW t \in tasks, Predicted(t)
    PROVE  PageInv'
<1>1. /\ Head(t.script) = "predictions"
      /\ UNCHANGED <<csrf, horizon, model, cookie, live, opened, loaded, elsewhere>>
  BY DEF Predicted, Served, selects, server
<1>2. ServerTypes' /\ elsewhere' \in BOOLEAN /\ shown \in Page /\ timer \in BOOLEAN
  BY <1>1 DEF PageInv, PageTypes, ServerTypes
<1>3. /\ csrf # NoSession /\ t.script \in Scripts
      /\ Fits(t, csrf, horizon, model, shown.squad, unanswered)
  BY <1>1, OpenTask
<1>4. Tail(t.script) = <<>> \/ Head(Tail(t.script)) # "lineup"
  BY <1>1, <1>3, ScriptedOn
<1>5. CASE t.latest
  <2> DEFINE s == [shown EXCEPT !.predictions = [horizon |-> t.sent.horizon]]
  <2>1. /\ Continue(t, s) /\ timer' \in BOOLEAN
        /\ unanswered' = IF t.sent.horizon = horizon THEN unanswered \ {"horizon"} ELSE unanswered
    BY <1>5 DEF Predicted, NotSuperseded
  <2>2. t.sent.horizon \in Horizons /\ (t.sent.horizon = horizon \/ "horizon" \in unanswered)
    BY <1>3, <1>5 DEF Fits, TaskOf, RequestT
  <2>3. /\ s \in Page /\ s.squad = shown.squad /\ s.lineup = shown.lineup /\ s.plan = shown.plan
        /\ s.predictions = [horizon |-> t.sent.horizon]
    BY <1>2, <2>2 DEF Page, Either
  <2> HIDE DEF s
  <2>4. \A u \in tasks \ {t} : Fits(u, csrf, horizon, model, s.squad, unanswered')
    <3> SUFFICES ASSUME NEW u \in tasks \ {t} PROVE Fits(u, csrf, horizon, model, s.squad, unanswered')
      OBVIOUS
    <3>1. Fits(u, csrf, horizon, model, shown.squad, unanswered) /\ ~u.latest
      BY <1>5 DEF PageInv, TasksInv, OneLatest
    <3> QED
      BY <2>1, <2>3, <3>1 DEF Fits
  <2>5. TasksInv' /\ PageTypes' /\ shown' = Before([script |-> Tail(t.script)], s)
    BY <1>1, <1>2, <1>3, <2>1, <2>3, <2>4, ContinueStep
  <2>6. shown' = s
    BY <1>4, <2>3, <2>5, BeforeKeeps
  <2>7. SquadInv' /\ LockedShowsNothing'
    BY <1>1, <1>3, <2>3, <2>6 DEF PageInv, SquadInv, LockedShowsNothing
  <2>8. SelectionShown'
    BY <1>1, <2>1, <2>2, <2>3, <2>6 DEF PageInv, SelectionShown
  <2> QED
    BY <2>5, <2>7, <2>8 DEF PageInv
<1>6. CASE ~t.latest
  <2>1. Continue(t, shown) /\ timer' = timer /\ unanswered' = unanswered
    BY <1>6 DEF Predicted, NotSuperseded
  <2>2. \A u \in tasks \ {t} : Fits(u, csrf, horizon, model, shown.squad, unanswered')
    BY <2>1 DEF PageInv, TasksInv
  <2>3. /\ TasksInv' /\ PageTypes' /\ shown' = Before([script |-> Tail(t.script)], shown)
        /\ Loads(tasks') = Loads(tasks \ {t})
    BY <1>1, <1>2, <1>3, <2>1, <2>2, ContinueStep
  <2>4. shown' = shown /\ Loads(tasks') = Loads(tasks)
    <3>1. shown' = shown
      BY <1>2, <1>4, <2>3, BeforeKeeps
    <3>2. Loads(tasks \ {t}) = Loads(tasks)
      BY <1>6 DEF Loads
    <3> QED
      BY <2>3, <3>1, <3>2
  <2>5. SquadInv' /\ LockedShowsNothing' /\ SelectionShown'
    BY <1>1, <2>1, <2>4 DEF PageInv, SquadInv, LockedShowsNothing, SelectionShown
  <2> QED
    BY <2>3, <2>5 DEF PageInv
<1> QED
  BY <1>5, <1>6

LEMMA ProgressedStep ==
    ASSUME PageInv, NEW t \in tasks, Progressed(t)
    PROVE  PageInv'
<1>1. /\ Head(t.script) = "status"
      /\ UNCHANGED <<csrf, shown, horizon, model, cookie, live, opened, loaded, unanswered, elsewhere>>
  BY DEF Progressed, Served, selects, server, ghosts
<1>2. /\ ServerTypes' /\ elsewhere' \in BOOLEAN /\ PageTypes /\ csrf # NoSession
      /\ t.n \in Nat /\ timer \in BOOLEAN
  BY <1>1, OpenTask DEF PageInv, PageTypes, ServerTypes, Fits, TaskOf
<1> DEFINE u == Task("poll", t.n, <<"predictions">>, FALSE, NoTeam)
<1>3. CASE tasks' = Sent(u, tasks \ {t}) /\ UNCHANGED timer
  <2>1. /\ u \in TaskOf({<<"predictions">>}) /\ u.kind = "poll" /\ u.script = <<"predictions">>
        /\ u.sent.csrf = csrf /\ u.sent.horizon = horizon /\ u.latest = FALSE
    BY <1>2 DEF Task, TaskOf, RequestT, PageTypes, ServerTypes
  <2> HIDE DEF u
  <2>2. <<"predictions">> \in Scripts /\ <<"predictions">> \notin OfSquad /\ <<"predictions">> \notin WithSquad
        /\ <<"predictions">> \notin {<<"login">>, <<"session">>, <<"draft">>}
    BY DEF Scripts, OfSquad, WithSquad, Access
  <2>3. u \in TaskOf(Scripts) /\ u \in ToSend
    BY <2>1, <2>2 DEF TaskOf, ToSend
  <2>4. Fits(u, csrf, horizon, model, shown.squad, unanswered)
    BY <1>2, <2>1, <2>2, <2>3 DEF Fits
  <2>5. Ready(u, csrf, horizon, model, shown.squad, unanswered) /\ TakesOver(u)
    BY <2>1, <2>4, FitsNotLatest DEF Ready, TakesOver
  <2> DEFINE ts == tasks \ {t}
  <2>6. OneLatest(ts) /\ \A v \in ts : FitsBeside(v, u, csrf, horizon, model, shown.squad, unanswered)
    BY DEF PageInv, TasksInv, OneLatest, FitsBeside
  <2>7. tasks' = Sent(u, ts)
    BY <1>3
  <2> HIDE DEF ts
  <2>8. \A v \in Sent(u, ts) : Fits(v, csrf, horizon, model, shown.squad, unanswered)
    BY <2>3, <2>5, <2>6, SentFits
  <2>9. OneLatest(Sent(u, ts))
    BY <2>3, <2>5, <2>6, SentFits
  <2>10. Loads(Sent(u, ts)) # {}
    BY <2>3, <2>5, <2>6, SentFits
  <2>11. TasksInv'
    BY <1>1, <1>2, <2>7, <2>8, <2>9 DEF TasksInv, OneLatest
  <2>12. PageTypes'
    BY <1>1, <1>2, <1>3 DEF PageTypes
  <2>13. SquadInv' /\ LockedShowsNothing' /\ SelectionShown'
    BY <1>1, <2>7, <2>10 DEF PageInv, SquadInv, LockedShowsNothing, SelectionShown
  <2> QED
    BY <2>11, <2>12, <2>13 DEF PageInv
<1>4. CASE timer' \in BOOLEAN /\ tasks' = tasks \ {t}
  <2>1. Loads(tasks') = Loads(tasks)
    BY <1>1, <1>4, NotLoading
  <2>2. shown.squad # Nothing /\ ~elsewhere' => loaded'[csrf] \in {shown.squad.team, NoTeam}
    BY <1>1 DEF PageInv, SquadInv
  <2> QED
    BY <1>1, <1>2, <1>4, <2>1, <2>2, QuietStep
<1> QED
  BY <1>3, <1>4 DEF Progressed

LEMMA SquadLoadedStep ==
    ASSUME PageInv, NEW t \in tasks, SquadLoaded(t)
    PROVE  PageInv'
<1> DEFINE s == [WithoutPlan EXCEPT !.squad = [team |-> t.team, session |-> t.sent.cookie]]
<1>1. /\ Head(t.script) = "squad" /\ Authorised(t) /\ Matching(t)
      /\ loaded' = [loaded EXCEPT ![t.sent.cookie] = t.team] /\ Continue(t, s) /\ elsewhere' = FALSE
      /\ UNCHANGED <<csrf, horizon, model, timer, cookie, live, opened, unanswered>>
  BY DEF SquadLoaded, Served, Public, selects
<1>2. /\ csrf # NoSession /\ csrf \in Sessions /\ t.script \in Scripts
      /\ Fits(t, csrf, horizon, model, shown.squad, unanswered)
  BY <1>1, OpenTask
<1>3. t.team \in Teams /\ t.sent.cookie = csrf
  <2>1. t.script \in WithSquad
    BY <1>1, <1>2, Scripted
  <2> QED
    BY <1>1, <1>2, <2>1 DEF Fits, Matching, Writes
<1>4. ServerTypes' /\ timer' \in BOOLEAN /\ shown \in Page /\ loaded \in [Sessions -> Teams \cup {NoTeam}]
  BY <1>1, <1>3 DEF PageInv, PageTypes, ServerTypes
<1>5. /\ s \in Page /\ s.squad = [team |-> t.team, session |-> csrf] /\ s.plan = Nothing
      /\ s.predictions = shown.predictions
  BY <1>2, <1>3, <1>4 DEF WithoutPlan, Page, Either
<1> HIDE DEF s
<1>6. s.squad # Nothing
  BY <1>2, <1>3, <1>5, PageAssumption
<1>7. \A u \in tasks \ {t} : Fits(u, csrf, horizon, model, s.squad, unanswered')
  <2> SUFFICES ASSUME NEW u \in tasks \ {t} PROVE Fits(u, csrf, horizon, model, s.squad, unanswered')
    OBVIOUS
  <2>1. Fits(u, csrf, horizon, model, shown.squad, unanswered)
    BY DEF PageInv, TasksInv
  <2> QED
    BY <1>1, <1>6, <2>1 DEF Fits
<1>8. /\ TasksInv' /\ PageTypes' /\ shown' = Before([script |-> Tail(t.script)], s)
      /\ Loads(tasks') = Loads(tasks \ {t})
  BY <1>1, <1>2, <1>4, <1>5, <1>6, <1>7, ContinueStep
<1>9. Tail(t.script) # <<>> /\ Head(Tail(t.script)) = "lineup"
  BY <1>1, <1>2, ScriptedOn
<1>10. /\ shown'.squad = s.squad /\ shown'.plan = Nothing /\ shown'.lineup = Nothing
      /\ shown'.predictions = shown.predictions
  BY <1>5, <1>8, <1>9, BeforeKeeps
<1>11. Loads(tasks') = Loads(tasks)
  BY <1>1, <1>8, NotLoading
<1>12. SquadInv'
  BY <1>1, <1>2, <1>3, <1>4, <1>5, <1>10 DEF SquadInv
<1>13. LockedShowsNothing'
  BY <1>1, <1>2, <1>5, <1>10 DEF LockedShowsNothing
<1>14. SelectionShown'
  BY <1>1, <1>10, <1>11 DEF PageInv, SelectionShown
<1> QED
  BY <1>8, <1>12, <1>13, <1>14 DEF PageInv

\* A lineup or plan of the session's squad is shown.
LEMMA FigureStep ==
    ASSUME PageInv, NEW t \in tasks, NEW s \in Page, t.script \in OfSquad, Continue(t, s),
           Figure(t).session \in Sessions, Figure(t).team \in Teams,
           UNCHANGED <<csrf, horizon, model, timer, cookie, live, opened, loaded, unanswered, elsewhere>>,
           s.squad = shown.squad, s.predictions = shown.predictions,
           s.lineup \in {shown.lineup, Figure(t)}, s.plan \in {shown.plan, Figure(t)}
    PROVE  PageInv'
<1>1. /\ t.script \in Scripts /\ Head(t.script) \in {"lineup", "draft", "plan"} /\ Tail(t.script) = <<>>
  BY Scripted DEF Scripts
<1>2. csrf # NoSession /\ csrf \in Sessions /\ Fits(t, csrf, horizon, model, shown.squad, unanswered)
  BY <1>1, OpenTask
<1>3. shown.squad # Nothing /\ (t.sent.model = model \/ "model" \in unanswered)
  BY <1>2 DEF Fits
<1>4. ServerTypes' /\ timer' \in BOOLEAN /\ elsewhere' \in BOOLEAN
  BY DEF PageInv, PageTypes, ServerTypes
<1>5. \A u \in tasks \ {t} : Fits(u, csrf, horizon, model, s.squad, unanswered')
  BY DEF PageInv, TasksInv
<1>6. /\ TasksInv' /\ PageTypes' /\ shown' = Before([script |-> Tail(t.script)], s)
      /\ Loads(tasks') = Loads(tasks \ {t})
  BY <1>1, <1>2, <1>4, <1>5, ContinueStep
<1>7. shown' = s /\ Loads(tasks') = Loads(tasks)
  <2>1. shown' = s
    BY <1>1, <1>6, BeforeKeeps
  <2>2. Head(t.script) # "predictions"
    BY <1>1
  <2> QED
    BY <1>6, <2>1, <2>2, NotLoading
<1>8. SquadInv' /\ LockedShowsNothing'
  BY <1>2, <1>3, <1>7 DEF PageInv, SquadInv, LockedShowsNothing
<1>9. /\ Figure(t).model = t.sent.model
      /\ Figure(t).session = csrf /\ ~elsewhere => Figure(t).team = shown.squad.team
  <2>1. Figure(t).team = loaded[t.sent.cookie] /\ Figure(t).session = t.sent.cookie /\ Figure(t).model = t.sent.model
    BY DEF Figure
  <2> QED
    BY <1>3, <2>1, ShownTypes DEF PageInv, SquadInv
<1>10. SelectionShown'
  <2>1. ASSUME NEW figure \in {s.lineup, s.plan} \ {Nothing}
        PROVE  /\ "model" \notin unanswered => figure.model = model
               /\ figure.session = csrf /\ ~elsewhere => figure.team = shown.squad.team
    <3>1. CASE figure = Figure(t)
      BY <1>3, <1>9, <3>1
    <3>2. CASE figure \in {shown.lineup, shown.plan} \ {Nothing}
      BY <3>2 DEF PageInv, SelectionShown
    <3> QED
      BY <3>1, <3>2
  <2> QED
    BY <1>3, <1>7, <2>1 DEF PageInv, SelectionShown
<1> QED
  BY <1>6, <1>8, <1>10 DEF PageInv

LEMMA LineupShownStep ==
    ASSUME PageInv, NEW t \in tasks, LineupShown(t)
    PROVE  PageInv'
<1> DEFINE s == [shown EXCEPT !.lineup = Figure(t)]
<1>1. /\ Head(t.script) \in {"lineup", "draft"} /\ Authorised(t) /\ Continue(t, s)
      /\ UNCHANGED <<csrf, horizon, model, timer, cookie, live, opened, loaded, unanswered, elsewhere>>
  BY DEF LineupShown, Served, Public, selects, server, ghosts
<1>2. t.script \in Scripts /\ Fits(t, csrf, horizon, model, shown.squad, unanswered)
  BY <1>1, OpenTask
<1>3. t.script \in OfSquad /\ (Head(t.script) = "draft" => t.team \in Teams)
  <2>1. t.script \in OfSquad /\ (Head(t.script) = "draft" => t.script = <<"draft">>)
    BY <1>1, <1>2, Scripted
  <2> QED
    BY <1>2, <2>1 DEF Fits
<1>4. /\ t.sent.cookie \in Sessions /\ loaded \in [Sessions -> Teams \cup {NoTeam}] /\ shown \in Page
      /\ t.sent.model \in Models
  BY <1>1, <1>2 DEF Authorised, PageInv, PageTypes, ServerTypes, Fits, TaskOf, RequestT
<1>5. loaded[t.sent.cookie] \in Teams
  BY <1>3, <1>4, ShownTypes DEF LineupShown, Served
<1>6. Figure(t) \in FigureT /\ Figure(t).session \in Sessions /\ Figure(t).team \in Teams
  BY <1>4, <1>5 DEF Figure, FigureT
<1>7. /\ s \in Page /\ s.squad = shown.squad /\ s.predictions = shown.predictions
      /\ s.lineup = Figure(t) /\ s.plan = shown.plan
  BY <1>4, <1>6 DEF Page, Either
<1> HIDE DEF s
<1> QED
  BY <1>1, <1>3, <1>6, <1>7, FigureStep

LEMMA PlanShownStep ==
    ASSUME PageInv, NEW t \in tasks, PlanShown(t)
    PROVE  PageInv'
<1> DEFINE s == [shown EXCEPT !.plan = Figure(t)]
<1>1. /\ Head(t.script) = "plan" /\ Authorised(t) /\ Continue(t, s) /\ loaded[t.sent.cookie] # NoTeam
      /\ UNCHANGED <<csrf, horizon, model, timer, cookie, live, opened, loaded, unanswered, elsewhere>>
  BY DEF PlanShown, Served, Public, selects, server, ghosts
<1>2. t.script \in Scripts /\ Fits(t, csrf, horizon, model, shown.squad, unanswered)
  BY <1>1, OpenTask
<1>3. t.script \in OfSquad
  BY <1>1, <1>2, Scripted
<1>4. /\ t.sent.cookie \in Sessions /\ loaded \in [Sessions -> Teams \cup {NoTeam}] /\ shown \in Page
      /\ t.sent.model \in Models
  BY <1>1, <1>2 DEF Authorised, PageInv, PageTypes, ServerTypes, Fits, TaskOf, RequestT
<1>5. loaded[t.sent.cookie] \in Teams
  BY <1>1, <1>4
<1>6. Figure(t) \in FigureT /\ Figure(t).session \in Sessions /\ Figure(t).team \in Teams
  BY <1>4, <1>5 DEF Figure, FigureT
<1>7. /\ s \in Page /\ s.squad = shown.squad /\ s.predictions = shown.predictions
      /\ s.lineup = shown.lineup /\ s.plan = Figure(t)
  BY <1>4, <1>6 DEF Page, Either
<1> HIDE DEF s
<1> QED
  BY <1>1, <1>3, <1>6, <1>7, FigureStep

-----------------------------------------------------------------------------
(* The timers, the other tab, the server                                   *)

\* A request beside the runs that loads nothing.
LEMMA BesideStep ==
    ASSUME PageInv, csrf # NoSession, NEW kind \in {"poll", "check"}, NEW n \in Nat,
           NEW script \in {<<"status">>, <<"session">>}, kind = "poll" => script = <<"status">>,
           tasks' = tasks \cup {Task(kind, n, script, FALSE, NoTeam)},
           timer' \in BOOLEAN,
           UNCHANGED <<csrf, shown, horizon, model, cookie, live, opened, loaded, unanswered, elsewhere>>
    PROVE  PageInv'
<1> DEFINE u == Task(kind, n, script, FALSE, NoTeam)
<1>1. PageTypes /\ PageTypes'
  BY DEF PageInv, PageTypes, ServerTypes
<1>2. /\ u \in TaskOf({<<"status">>, <<"session">>}) /\ u.kind = kind /\ u.script = script
      /\ u.sent.csrf = csrf /\ u.latest = FALSE
  BY <1>1 DEF Task, TaskOf, RequestT, PageTypes, ServerTypes
<1> HIDE DEF u
<1>3. script \in Scripts /\ script \notin OfSquad /\ script \notin WithSquad
      /\ script \notin {<<"login">>, <<"draft">>}
  BY DEF Scripts, OfSquad, WithSquad, Access
<1>4. u \in TaskOf(Scripts)
  BY <1>2, <1>3 DEF TaskOf
<1>5. Fits(u, csrf, horizon, model, shown.squad, unanswered)
  BY <1>2, <1>3, <1>4 DEF Fits
<1>6. tasks' = tasks \cup {u}
  BY DEF u
<1>7. TasksInv' /\ Loads(tasks') = Loads(tasks)
  BY <1>2, <1>5, <1>6 DEF PageInv, TasksInv, OneLatest, Loads
<1>8. SquadInv' /\ LockedShowsNothing' /\ SelectionShown'
  BY <1>7 DEF PageInv, SquadInv, LockedShowsNothing, SelectionShown
<1> QED
  BY <1>1, <1>7, <1>8 DEF PageInv

LEMMA PollStep ==
    ASSUME PageInv, Poll
    PROVE  PageInv'
<1>1. PICK n \in 1..MaxPolls : tasks' = tasks \cup {Task("poll", n, <<"status">>, FALSE, NoTeam)}
  BY DEF Poll, Script
<1>2. n \in Nat
  BY PageAssumption
<1>3. csrf # NoSession
  BY DEF Poll, PageInv, TasksInv
<1> QED
  BY <1>1, <1>2, <1>3, BesideStep DEF Poll, selects, server, ghosts

LEMMA CheckStep ==
    ASSUME PageInv, Check
    PROVE  PageInv'
<1>1. tasks' = tasks \cup {Task("check", 1, <<"session">>, FALSE, NoTeam)}
  BY DEF Check, Script
<1>2. timer' \in BOOLEAN
  BY DEF Check, PageInv, PageTypes
<1> QED
  BY <1>1, <1>2, BesideStep DEF Check, selects, server, ghosts

LEMMA RestoreStep ==
    ASSUME PageInv, Restore
    PROVE  PageInv'
<1> DEFINE u == [Task("access", 1, <<"session">>, TRUE, NoTeam) EXCEPT
                   !.sent.csrf = NoSession, !.sent.horizon = HorizonAtFirst, !.sent.model = ModelAtFirst]
<1>1. Clear /\ UNCHANGED <<cookie, live, opened, loaded>> /\ tasks' \in {{}, {u}}
  BY DEF Restore, server, Aborted
<1>2. PageTypes /\ ServerTypes'
  BY <1>1 DEF PageInv, PageTypes, ServerTypes
<1>3. /\ u \in TaskOf({<<"session">>}) /\ u.kind = "access" /\ u.script = <<"session">>
      /\ u.sent.csrf = NoSession /\ u.latest = FALSE
  BY <1>2, PageAssumption DEF Task, TaskOf, RequestT, PageTypes, ServerTypes, Runs
<1> HIDE DEF u
<1>4. csrf' = NoSession
  BY <1>1 DEF Clear
<1>5. Fits(u, csrf', horizon', model', shown'.squad, unanswered')
  <2>1. <<"session">> \in Access /\ <<"session">> \in Scripts /\ <<"session">> \notin OfSquad
        /\ <<"session">> \notin WithSquad /\ <<"session">> # <<"draft">>
    BY DEF Access, Scripts, OfSquad, WithSquad
  <2>2. u \in TaskOf(Scripts)
    BY <1>3, <2>1 DEF TaskOf
  <2> QED
    BY <1>3, <1>4, <2>1, <2>2 DEF Fits
<1> QED
  BY <1>1, <1>2, <1>3, <1>5, ClearStep

LEMMA ElsewhereStep ==
    ASSUME PageInv, OtherSignsIn \/ (\E team \in Teams : OtherLoadsSquad(team)) \/ OtherSignsOut \/ SessionEnds
    PROVE  PageInv'
<1>1. /\ ServerTypes /\ elsewhere \in BOOLEAN /\ csrf \in Sessions \cup {NoSession}
      /\ shown.squad # Nothing => csrf \in Sessions
  BY ShownTypes DEF PageInv, PageTypes
<1>2. tasks' = tasks /\ UNCHANGED <<csrf, shown, horizon, model, timer, unanswered>>
  BY DEF OtherSignsIn, OtherLoadsSquad, OtherSignsOut, SessionEnds, selects, ghosts
<1>3. CASE OtherSignsIn
  <2>1. ServerTypes' /\ elsewhere' = elsewhere /\ loaded' = loaded
    BY <1>1, <1>3 DEF OtherSignsIn, ServerTypes, ghosts
  <2> QED
    BY <1>1, <1>2, <2>1, ServerStep
<1>4. CASE \E team \in Teams : OtherLoadsSquad(team)
  <2>1. PICK team \in Teams : OtherLoadsSquad(team)
    BY <1>4
  <2>2. ServerTypes'
    BY <1>1, <2>1 DEF OtherLoadsSquad, ServerTypes
  <2>3. elsewhere' = (elsewhere \/ cookie = csrf) /\ loaded' = [loaded EXCEPT ![cookie] = team]
    BY <2>1 DEF OtherLoadsSquad
  <2>4. shown.squad # Nothing /\ ~elsewhere' => loaded'[csrf] = loaded[csrf]
    BY <1>1, <2>3 DEF ServerTypes
  <2>5. elsewhere' \in BOOLEAN /\ (elsewhere => elsewhere')
    BY <1>1, <2>3
  <2> QED
    BY <1>2, <2>2, <2>4, <2>5, ServerStep
<1>5. CASE OtherSignsOut
  <2>1. ServerTypes' /\ elsewhere' = elsewhere
    BY <1>1, <1>5 DEF OtherSignsOut, ServerTypes, ghosts
  <2>2. shown.squad # Nothing => loaded'[csrf] \in {loaded[csrf], NoTeam}
    BY <1>1, <1>5 DEF OtherSignsOut, ServerTypes
  <2> QED
    BY <1>1, <1>2, <2>1, <2>2, ServerStep
<1>6. CASE SessionEnds
  <2>1. PICK s \in live : live' = live \ {s} /\ loaded' = [loaded EXCEPT ![s] = NoTeam]
    BY <1>6 DEF SessionEnds
  <2>2. ServerTypes' /\ elsewhere' = elsewhere
    BY <1>1, <1>6, <2>1 DEF SessionEnds, ServerTypes, ghosts
  <2>3. shown.squad # Nothing => loaded'[csrf] \in {loaded[csrf], NoTeam}
    BY <1>1, <2>1 DEF ServerTypes
  <2> QED
    BY <1>1, <1>2, <2>2, <2>3, ServerStep
<1> QED
  BY <1>3, <1>4, <1>5, <1>6

LEMMA PageStarts == PageInit => PageInv
<1> SUFFICES ASSUME PageInit PROVE PageInv
  OBVIOUS
<1> DEFINE u == Task("access", 1, <<"session">>, TRUE, NoTeam)
<1>1. /\ csrf = NoSession /\ shown = Blank /\ horizon = HorizonAtFirst /\ model = ModelAtFirst
      /\ cookie \in Sessions \cup {NoSession} /\ live = {cookie} \ {NoSession} /\ opened = live
      /\ loaded = [s \in Sessions |-> NoTeam] /\ timer = FALSE /\ elsewhere = FALSE /\ tasks = {u}
  BY DEF PageInit
<1>2. Blank \in Page /\ Blank.squad = Nothing /\ Blank.lineup = Nothing /\ Blank.plan = Nothing /\ Blank.predictions = Nothing
  BY DEF Blank, Page, Either
<1>3. PageTypes
  <2>1. ServerTypes
    BY <1>1 DEF ServerTypes
  <2> QED
    BY <1>1, <1>2, <2>1, PageAssumption DEF PageTypes
<1>4. /\ u \in TaskOf({<<"session">>}) /\ u.kind = "access" /\ u.script = <<"session">>
      /\ u.sent.csrf = NoSession /\ u.latest = FALSE
  BY <1>1, <1>3 DEF Task, TaskOf, RequestT, PageTypes, ServerTypes, Runs
<1> HIDE DEF u
<1>5. Fits(u, csrf, horizon, model, shown.squad, unanswered)
  <2>1. <<"session">> \in Access /\ <<"session">> \in Scripts /\ <<"session">> \notin OfSquad
        /\ <<"session">> \notin WithSquad /\ <<"session">> # <<"draft">>
    BY DEF Access, Scripts, OfSquad, WithSquad
  <2>2. u \in TaskOf(Scripts)
    BY <1>4, <2>1 DEF TaskOf
  <2> QED
    BY <1>1, <1>4, <2>1, <2>2 DEF Fits
<1>6. TasksInv
  BY <1>1, <1>5 DEF TasksInv, OneLatest
<1>7. SquadInv /\ LockedShowsNothing /\ SelectionShown
  BY <1>1, <1>2 DEF SquadInv, LockedShowsNothing, SelectionShown
<1> QED
  BY <1>3, <1>6, <1>7 DEF PageInv

LEMMA AnsweredStep ==
    ASSUME PageInv, NEW t \in tasks, Answered(t)
    PROVE  PageInv'
BY UnauthorisedStep, FailedStep, CheckedAccessStep, CheckedSessionStep, LoggedInStep, LoggedOutStep,
   RefreshedStep, PredictedStep, ProgressedStep, SquadLoadedStep, LineupShownStep, PlanShownStep DEF Answered

LEMMA PageStays == PageInv /\ [PageNext]_pageVars => PageInv'
<1> SUFFICES ASSUME PageInv, [PageNext]_pageVars PROVE PageInv'
  OBVIOUS
<1>1. CASE Login \/ Refresh \/ Draft \/ Plan \/ \E team \in Teams : LoadSquad(team)
  BY <1>1, ReaderRuns
<1>2. CASE SignOut
  BY <1>2, SignOutStep
<1>3. CASE \E h \in Horizons : ChangeHorizon(h)
  BY <1>3, ChangeHorizonStep
<1>4. CASE \E m \in Models : ChangeModel(m)
  BY <1>4, ChangeModelStep
<1>5. CASE \E t \in tasks : Answered(t)
  BY <1>5, AnsweredStep
<1>6. CASE Poll \/ Check \/ Restore
  BY <1>6, PollStep, CheckStep, RestoreStep
<1>7. CASE Told
  <2>1. Clear /\ tasks' = {} /\ UNCHANGED <<cookie, live, opened, loaded>>
    BY <1>7 DEF Told, Aborted
  <2>2. ServerTypes'
    BY <2>1 DEF PageInv, PageTypes, ServerTypes
  <2> QED
    BY <2>1, <2>2, ClearedEmpty
<1>8. CASE OtherSignsIn \/ (\E team \in Teams : OtherLoadsSquad(team)) \/ OtherSignsOut \/ SessionEnds
  BY <1>8, ElsewhereStep
<1>9. CASE UNCHANGED pageVars
  BY <1>9 DEF pageVars, selects, server, ghosts, PageInv, PageTypes, ServerTypes, TasksInv, OneLatest,
              SquadInv, LockedShowsNothing, SelectionShown, Loads
<1> QED
  BY <1>1, <1>2, <1>3, <1>4, <1>5, <1>6, <1>7, <1>8, <1>9 DEF PageNext

\* The inductive invariant of the page.
THEOREM PageInvariant == PageSpec => []PageInv
BY PageStarts, PageStays, PTL DEF PageSpec

\* However requests, sign-outs, notices of other tabs and restored pages interleave, a locked page
\* shows nothing private and no squad outlives its session.
THEOREM NothingPrivateLeft == PageSpec => []LockedShowsNothing
<1>1. PageInv => LockedShowsNothing
  BY DEF PageInv
<1> QED
  BY <1>1, PageInvariant, PTL

\* Predictions, lineup and plan are those of the horizon, model and squad selected, whichever
\* answers come first.
THEOREM SelectionIsShown == PageSpec => []SelectionShown
<1>1. PageInv => SelectionShown
  BY DEF PageInv
<1> QED
  BY <1>1, PageInvariant, PTL
=============================================================================
