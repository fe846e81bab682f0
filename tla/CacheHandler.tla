---------------------------- MODULE CacheHandler ----------------------------
(***************************************************************************)
(* Cached data of the agent's tables (agent/helpers/cache_handler.c):      *)
(* loaded when a request needs them, kept for a while, and released by an  *)
(* alarm that all caches share and that runs only while it is needed.      *)
(*                                                                         *)
(* Requests may be delegated, so that the calls for several of them, and   *)
(* the alarms, come in any order.  Time is in units of which the alarm     *)
(* waits Frequency; alarms are run when they are due (SnmpAlarm).          *)
(***************************************************************************)
EXTENDS Integers, FiniteSets

CONSTANTS Caches,           \* the list of caches
          Timeout,          \* of every cache; -1: expired at once
          Flags,            \* its flags, without their prefix NETSNMP_CACHE_
          HasFree,          \* caches with a free_cache hook
          Requests,
          Frequency,        \* CACHE_RELEASE_FREQUENCY
          MaxCacheTime      \* bound

ASSUME CacheAssumption ==
    /\ Frequency \in Nat \ {0} /\ MaxCacheTime \in Nat
    /\ \A c \in Caches : Timeout[c] \in (IF "AUTO_RELOAD" \in Flags[c] THEN {} ELSE {-1})
                                           \cup (Nat \ {0})
    /\ HasFree \subseteq Caches
    /\ \A c \in Caches \ HasFree : "DONT_INVALIDATE_ON_SET" \in Flags[c]

VARIABLES valid, expired,   \* caches that are
          stamp,            \* timestampM of every cache
          outstanding,      \* cache_outstanding_valid
          release,          \* when release_cached_resources is due, or Never
          reload,           \* when the reload of a cache is due, or Never
          used,             \* caches inserted into each request
          cacheClock

cacheVars == <<valid, expired, stamp, outstanding, release, reload, used, cacheClock>>

Never == MaxCacheTime + Frequency + 1

CacheInit ==
    /\ valid \in SUBSET {c \in Caches : "PRELOAD" \in Flags[c]} /\ expired = {}
    /\ stamp = [c \in Caches |-> 0]
    /\ outstanding = \E c \in valid : "DONT_FREE_EXPIRED" \notin Flags[c]
    /\ release = IF outstanding THEN Frequency ELSE Never
    /\ reload = [c \in Caches |-> IF "AUTO_RELOAD" \in Flags[c] THEN Timeout[c] ELSE Never]
    /\ used = [r \in Requests |-> {}]
    /\ cacheClock = 0

-----------------------------------------------------------------------------
\* netsnmp_cache_check_expired
Expired(c) ==
    c \in expired \/ c \notin valid \/ Timeout[c] = -1 \/ cacheClock - stamp[c] >= Timeout[c]

\* The time of the last use, or of the last load.
Marked(c, touched) ==
    IF touched \/ "RESET_TIMER_ON_USE" \in Flags[c]
    THEN [stamp EXCEPT ![c] = cacheClock] ELSE stamp

\* _cache_load of an expired or invalid cache, by a hook that succeeds or not
\* (`lapsed': its expired flag was set just before); the first valid cache
\* starts the alarm that releases.
Load(c, ok, lapsed) ==
    /\ valid' = IF ok THEN valid \cup {c} ELSE valid \ {c}
    /\ expired' = IF ok THEN expired \ {c} ELSE IF lapsed THEN expired \cup {c} ELSE expired
    /\ IF ok /\ ~outstanding /\ "DONT_FREE_EXPIRED" \notin Flags[c]
       THEN outstanding' = TRUE /\ release' = cacheClock + Frequency
       ELSE UNCHANGED <<outstanding, release>>

\* netsnmp_cache_helper_handler for GET, GETNEXT and RESERVE1: a cache is
\* touched once in a request, unless it has become invalid meanwhile.
Use(r, c) ==
    /\ IF (c \in used[r] /\ c \in valid) \/ ~Expired(c)
       THEN stamp' = Marked(c, FALSE) /\ UNCHANGED <<valid, expired, outstanding, release>>
       ELSE \E ok \in BOOLEAN : Load(c, ok, c \in valid) /\ stamp' = Marked(c, ok)
    /\ used' = [used EXCEPT ![r] = @ \cup {c}]
    /\ UNCHANGED <<reload, cacheClock>>

\* The same for COMMIT.
Commit(r, c) ==
    /\ c \in used[r]
    /\ valid' = IF "DONT_INVALIDATE_ON_SET" \in Flags[c] THEN valid ELSE valid \ {c}
    /\ stamp' = Marked(c, FALSE)
    /\ UNCHANGED <<expired, outstanding, release, reload, used, cacheClock>>

EndRequest(r) ==
    /\ used[r] # {}
    /\ used' = [used EXCEPT ![r] = {}]
    /\ UNCHANGED <<valid, expired, stamp, outstanding, release, reload, cacheClock>>

\* _timer_reload
Reload(c, ok) ==
    /\ reload[c] <= cacheClock
    /\ reload' = [reload EXCEPT ![c] = cacheClock + Timeout[c]]
    /\ Load(c, ok, TRUE)
    /\ stamp' = IF ok THEN [stamp EXCEPT ![c] = cacheClock] ELSE stamp
    /\ UNCHANGED <<used, cacheClock>>

Looked == {c \in valid : "DONT_AUTO_RELEASE" \notin Flags[c]}

\* Mutant: the alarm goes on only when nothing was released.
ActiveUnlessReleased == Looked # {} /\ \A c \in Looked : ~Expired(c)

Active == \E c \in Looked : ~Expired(c)

\* release_cached_resources
Release ==
    LET old == {c \in Looked : Expired(c)}
    IN  /\ release <= cacheClock
        /\ expired' = expired \cup old
        /\ valid' = valid \ {c \in old \cap HasFree : "DONT_FREE_EXPIRED" \notin Flags[c]}
        /\ outstanding' = Active
        /\ release' = IF Active THEN cacheClock + Frequency ELSE Never
        /\ UNCHANGED <<stamp, reload, used, cacheClock>>

CacheTick ==
    /\ cacheClock < MaxCacheTime
    /\ release > cacheClock /\ \A c \in Caches : reload[c] > cacheClock
    /\ cacheClock' = cacheClock + 1
    /\ UNCHANGED <<valid, expired, stamp, outstanding, release, reload, used>>

CacheNext ==
    \/ \E c \in Caches : \/ \E r \in Requests : Use(r, c) \/ Commit(r, c)
                         \/ \E ok \in BOOLEAN : Reload(c, ok)
    \/ \E r \in Requests : EndRequest(r)
    \/ Release \/ CacheTick

CacheSpec == CacheInit /\ [][CacheNext]_cacheVars

-----------------------------------------------------------------------------
(* Properties.                                                             *)

\* Whatever other caches with other flags do to the alarm they share: what the
\* agent may release is released one round of the alarm after its timeout, at the
\* latest, when nobody uses it any more.
UnusedIsReleased ==
    \A c \in valid \cap HasFree :
        Flags[c] \cap {"DONT_FREE_EXPIRED", "DONT_AUTO_RELEASE"} = {} =>
            cacheClock - stamp[c] <= (IF Timeout[c] = -1 THEN 0 ELSE Timeout[c]) + Frequency

=============================================================================
