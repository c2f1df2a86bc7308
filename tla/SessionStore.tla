---------------------------- MODULE SessionStore ----------------------------
(***************************************************************************)
(* Private sign-in: assistant/auth.py.  A login is charged against two     *)
(* sliding windows (per client address and for everyone), then needs one   *)
(* of a few password-hashing slots, then opens a session that ends after   *)
(* an idle time or an absolute time, at a logout, or when a newer login    *)
(* needs its place.                                                        *)
(*                                                                         *)
(* Every public method holds the store's lock, so each is one step; a      *)
(* login is several, because it hashes the password outside the lock.      *)
(* Reading the clock and taking the lock next to it is one step here.      *)
(***************************************************************************)
EXTENDS TTLCache

CONSTANTS
    Addresses, Logins,      \* client addresses; threads that serve a login
    Tokens,                 \* supply of session tokens: each is drawn once
    SessionSeconds, IdleSeconds, Window,
    PerAddress, GlobalLimit, MaxAddresses, HashSlots, MaxSessions,
    MaxTime, MaxAttempts    \* bounds of the model: clock and charged logins

ASSUME WindowAssumption == Window \in Nat \ {0}
ASSUME ExpiryAssumption ==
    IdleSeconds \in Nat \ {0} /\ SessionSeconds \in Nat /\ IdleSeconds <= SessionSeconds
ASSUME LimitAssumption ==
    /\ PerAddress \in Nat \ {0} /\ GlobalLimit \in Nat \ {0}
    /\ HashSlots \in Nat \ {0} /\ MaxSessions \in Nat \ {0}
ASSUME BoundAssumption == MaxTime \in Nat
\* 256 against 20 in the code.
ASSUME AddressesAssumption == MaxAddresses \in Nat /\ MaxAddresses > GlobalLimit

VARIABLES
    now,
    sessions,        \* live tokens -> [value, expires, rank]; value is last_seen
    attempts,        \* address -> its queue, as a set of attempts
    globalAttempts,  \* the queue of all attempts, as a set
    login,           \* what each login thread has still to do
    charged,         \* history: every attempt that was let through
    used             \* history: token -> [opened, last, out] of its session

authVars == <<now, sessions, attempts, globalAttempts, login, charged, used>>

Attempt == [id : Nat, address : Addresses, at : Nat]

-----------------------------------------------------------------------------
(* Sign-in                                                                 *)

\* The attempts of a queue that still count.
Recent(q) == {x \in q : x.at > now - Window}

\* Mutant: an address whose attempts have all expired keeps its (empty) queue.
PurgedKeepingEmpty == [a \in DOMAIN attempts |-> Recent(attempts[a])]

Purged == [a \in {b \in DOMAIN attempts : Recent(attempts[b]) # {}} |-> Recent(attempts[a])]

\* setdefault: the address has a queue now, perhaps an empty one.
Queues(a) ==
    [b \in DOMAIN Purged \cup {a} |-> IF b \in DOMAIN Purged THEN Purged[b] ELSE {}]

\* Mutant: the two limits guard each other.
RefusedByBoth(a) ==
    /\ Cardinality(Queues(a)[a]) >= PerAddress
    /\ Cardinality(Recent(globalAttempts)) >= GlobalLimit

Refused(a) ==
    \/ Cardinality(Queues(a)[a]) >= PerAddress
    \/ Cardinality(Recent(globalAttempts)) >= GlobalLimit

\* The queues left when there are too many: the dict's first key goes, its
\* count with it.  Dict order is not kept here, so any key may be the first.
Trimmed(q) ==
    IF Cardinality(DOMAIN q) > MaxAddresses
    THEN {[b \in DOMAIN q \ {k} |-> q[b]] : k \in DOMAIN q}
    ELSE {q}

RefuseLogin(l, a) ==
    /\ login[l] = "idle" /\ Refused(a)
    /\ attempts' = Queues(a)
    /\ globalAttempts' = Recent(globalAttempts)
    /\ UNCHANGED <<now, sessions, login, charged, used>>

ChargeLogin(l, a) ==
    /\ login[l] = "idle" /\ ~Refused(a)
    /\ Cardinality(charged) < MaxAttempts
    /\ LET x == [id |-> Cardinality(charged), address |-> a, at |-> now]
       IN  /\ \E q \in Trimmed(Queues(a)) :
                 attempts' = [b \in DOMAIN q |-> IF b = a THEN q[b] \cup {x} ELSE q[b]]
           /\ globalAttempts' = Recent(globalAttempts) \cup {x}
           /\ charged' = charged \cup {x}
    /\ login' = [login EXCEPT ![l] = "charged"]
    /\ UNCHANGED <<now, sessions, used>>

Hashing == {l \in Logins : login[l] = "hashing"}

SlotFree == Cardinality(Hashing) < HashSlots

\* Both hashing slots busy: refused, though the attempt has been charged.
AcquireSlot(l) ==
    /\ login[l] = "charged"
    /\ login' = [login EXCEPT ![l] = IF SlotFree THEN "hashing" ELSE "idle"]
    /\ UNCHANGED <<now, sessions, attempts, globalAttempts, charged, used>>

CheckPassword(l) ==
    /\ login[l] = "hashing"
    /\ \E next \in {"issue", "idle"} : login' = [login EXCEPT ![l] = next]
    /\ UNCHANGED <<now, sessions, attempts, globalAttempts, charged, used>>

-----------------------------------------------------------------------------
(* Sessions                                                                *)

Alive(t) == sessions[t].expires > now /\ sessions[t].value + IdleSeconds > now

LiveTokens == {t \in DOMAIN sessions : Alive(t)}

PurgedSessions == Keep(sessions, LiveTokens)

\* Mutant: a login never evicts.
KeptAll == PurgedSessions

\* The session that gives way to a new one: the oldest login.
Kept ==
    IF Cardinality(LiveTokens) >= MaxSessions
    THEN Keep(sessions, LiveTokens \ {Oldest(sessions, LiveTokens)})
    ELSE PurgedSessions

OpenSession(l) ==
    /\ login[l] = "issue"
    /\ \E t \in Tokens \ DOMAIN used :
          /\ sessions' = [x \in DOMAIN Kept \cup {t} |->
                IF x # t THEN Kept[x]
                ELSE [value |-> now, expires |-> now + SessionSeconds,
                      rank |-> Cardinality(DOMAIN Kept)]]
          /\ used' = [x \in DOMAIN used \cup {t} |->
                IF x # t THEN used[x] ELSE [opened |-> now, last |-> now, out |-> FALSE]]
    /\ login' = [login EXCEPT ![l] = "idle"]
    /\ UNCHANGED <<now, attempts, globalAttempts, charged>>

\* Mutant: a lookup always extends the idle time.
AfterTouchingLookup(t, touch) ==
    [x \in LiveTokens |->
        IF x = t THEN [PurgedSessions[x] EXCEPT !.value = now] ELSE PurgedSessions[x]]

\* get(token, touch): what the store holds afterwards.
AfterLookup(t, touch) ==
    [x \in LiveTokens |->
        IF x = t /\ touch THEN [PurgedSessions[x] EXCEPT !.value = now] ELSE PurgedSessions[x]]

\* require(): a private request with a live session extends its idle time,
\* before its CSRF header is looked at.
Require(t) ==
    /\ t \in LiveTokens
    /\ sessions' = AfterLookup(t, TRUE)
    /\ used' = [used EXCEPT ![t].last = now]
    /\ UNCHANGED <<now, attempts, globalAttempts, login, charged>>

\* A status check, or a request whose session is over.
Lookup(t) ==
    /\ sessions' = AfterLookup(t, FALSE)
    /\ UNCHANGED <<now, attempts, globalAttempts, login, charged, used>>

\* logout() pops the token, if it is there, and purges nothing.
Without(t) ==
    IF t \in DOMAIN sessions THEN Keep(sessions, DOMAIN sessions \ {t}) ELSE sessions

Logout(t) ==
    /\ sessions' = Without(t)
    /\ used' = IF t \in LiveTokens THEN [used EXCEPT ![t].out = TRUE] ELSE used
    /\ UNCHANGED <<now, attempts, globalAttempts, login, charged>>

Tick ==
    /\ now < MaxTime
    /\ now' = now + 1
    /\ UNCHANGED <<sessions, attempts, globalAttempts, login, charged, used>>

-----------------------------------------------------------------------------

Init ==
    /\ now = 0 /\ sessions = EmptyCache
    /\ attempts = [a \in {} |-> {}] /\ globalAttempts = {}
    /\ login = [l \in Logins |-> "idle"]
    /\ charged = {} /\ used = [t \in {} |-> 0]

SignIn(l) ==
    \/ \E a \in Addresses : RefuseLogin(l, a) \/ ChargeLogin(l, a)
    \/ AcquireSlot(l) \/ CheckPassword(l) \/ OpenSession(l)

Next ==
    \/ \E l \in Logins : SignIn(l)
    \/ \E t \in DOMAIN used : Require(t) \/ Lookup(t) \/ Logout(t)
    \/ Tick

Spec == Init /\ [][Next]_authVars

-----------------------------------------------------------------------------

(* Every variable has its type; there are never more sessions, nor more    *)
(* password checks at once, than their limits.                             *)
TypeOK ==
    /\ now \in 0..MaxTime
    /\ CacheOf(sessions, Tokens, Nat, MaxSessions)
    /\ attempts \in [DOMAIN attempts -> SUBSET Attempt]
    /\ DOMAIN attempts \subseteq Addresses
    /\ globalAttempts \subseteq charged
    /\ login \in [Logins -> {"idle", "charged", "hashing", "issue"}]
    /\ Cardinality(Hashing) <= HashSlots
    /\ charged \subseteq Attempt
    /\ DOMAIN sessions \subseteq DOMAIN used
    /\ used \in [DOMAIN used -> [opened : Nat, last : Nat, out : BOOLEAN]]

\* The charged attempts of the last Window seconds.
InWindow == {x \in charged : x.at > now - Window}

(* "Login allows five attempts per client address ... per ten minutes"     *)
(* (ASSISTANT.md:63): although the table of addresses is itself bounded    *)
(* and drops an address, count and all, when it is full, no address ever   *)
(* gets more than PerAddress attempts through in a window.  Refused        *)
(* attempts of other addresses must not be able to push one out.           *)
AddressLimit ==
    \A a \in Addresses : Cardinality({x \in InWindow : x.address = a}) <= PerAddress

(* "... and twenty globally per ten minutes": whatever the mix of          *)
(* addresses and the order in which their threads take the lock.           *)
GlobalLimitKept == Cardinality(InWindow) <= GlobalLimit

(* Both hold together: what one limit lets pass is charged to the other.   *)
AttemptLimits == AddressLimit /\ GlobalLimitKept

(* A session the store would accept now belongs to a login of the last     *)
(* SessionSeconds, made a private request (or logged in) within the last   *)
(* IdleSeconds - status checks do not count - and has not been logged out. *)
AcceptedSessions ==
    \A t \in LiveTokens :
        /\ now < used[t].opened + SessionSeconds
        /\ now < used[t].last + IdleSeconds
        /\ ~used[t].out
=============================================================================
