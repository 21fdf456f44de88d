---------------------------- MODULE VerdictCache ----------------------------
(***************************************************************************)
(* The cache of "not revoked" verdicts of the reader of presented tokens   *)
(* (internal/presentedcred, revoked).  The authority is asked outside the  *)
(* lock: two presentations of one token may both miss, one may be told     *)
(* "revoked" while the other, told "not revoked" before, has still to      *)
(* write.  now is the clock of the process.                                *)
(***************************************************************************)
EXTENDS Integers, FiniteSets

CONSTANTS
    Tokens,
    Requests,           \* presentations served at one time
    VerdictTTL,         \* RevocationCacheTTL
    MaxCached,          \* maxCachedVerdicts
    MaxNow              \* bound on the clock

\* What New demands of the settings; and something is presented.
CacheLimits ==
    /\ VerdictTTL \in Nat \ {0} /\ MaxCached \in Nat \ {0} /\ MaxNow \in Nat
    /\ Tokens # {}

VARIABLES
    now,
    revoked,            \* the tokens the revocation authority refuses (external)
    revokedAt,          \* token -> when it last became revoked (history)
    cache,              \* token -> until when it counts as not revoked; 0: no entry
    req                 \* request -> where its question is

authority == <<revoked, revokedAt>>
vars == <<now, authority, cache, req>>

Steps == {"idle", "cached", "ask", "cleared", "accepted", "refused", "unavailable"}

TypeOK ==
    /\ now \in Nat
    /\ revoked \subseteq Tokens /\ revokedAt \in [Tokens -> Nat]
    /\ cache \in [Tokens -> Nat]
    /\ req \in [Requests -> [pc : Steps, token : Tokens, at : Nat]]

Idle == [pc |-> "idle", token |-> CHOOSE t \in Tokens : TRUE, at |-> 0]

Init ==
    /\ now = 0
    /\ revoked = {} /\ revokedAt = [t \in Tokens |-> 0]
    /\ cache = [t \in Tokens |-> 0]
    /\ req = [r \in Requests |-> Idle]

-----------------------------------------------------------------------------
(* The authority.  A token refused for an unconfirmed address is restored  *)
(* with the address.                                                       *)

Revoke(t) ==
    /\ t \notin revoked
    /\ revoked' = revoked \cup {t}
    /\ revokedAt' = [revokedAt EXCEPT ![t] = now]
    /\ UNCHANGED <<now, cache, req>>

Restore(t) ==
    /\ t \in revoked
    /\ revoked' = revoked \ {t}
    /\ UNCHANGED <<now, revokedAt, cache, req>>

-----------------------------------------------------------------------------
(* revoked.                                                                *)

At(r, pc) == req[r].pc = pc
Goto(r, pc) == req' = [req EXCEPT ![r].pc = pc]
Answered(r) == req[r].pc \in {"idle", "accepted", "refused", "unavailable"}
Before(at, until) == at < until
Cached(t) == cache[t] # 0

\* The token has passed its other checks; the clock is read before the lock.
Begin(r, t) ==
    /\ Answered(r)
    /\ req' = [req EXCEPT ![r] = [pc |-> "cached", token |-> t, at |-> now]]
    /\ UNCHANGED <<now, authority, cache>>

CacheHit(r) ==
    /\ At(r, "cached")
    /\ Cached(req[r].token) /\ Before(req[r].at, cache[req[r].token])
    /\ Goto(r, "accepted")
    /\ UNCHANGED <<now, authority, cache>>

\* An expired verdict is dropped and the authority is asked outside the lock.
CacheMiss(r) ==
    /\ At(r, "cached")
    /\ ~(Cached(req[r].token) /\ Before(req[r].at, cache[req[r].token]))
    /\ cache' = [cache EXCEPT ![req[r].token] = 0]
    /\ Goto(r, "ask")
    /\ UNCHANGED <<now, authority>>

AskAuthority(r) ==
    /\ At(r, "ask")
    /\ Goto(r, IF req[r].token \in revoked THEN "refused" ELSE "cleared")
    /\ UNCHANGED <<now, authority, cache>>

AuthorityFails(r) ==
    /\ At(r, "ask")
    /\ Goto(r, "unavailable")
    /\ UNCHANGED <<now, authority, cache>>

Entries(c) == {t \in Tokens : c[t] # 0}
Alive(at) == [t \in Tokens |-> IF Before(at, cache[t]) THEN cache[t] ELSE 0]
IsFull(c) == Cardinality(Entries(c)) >= MaxCached

\* Mutant: only expired verdicts leave a full cache.
PrunedOfExpired(at) == Alive(at)

\* pruneLocked: expired verdicts leave; if that is not enough, all of them do.
Pruned(at) == IF IsFull(Alive(at)) THEN [t \in Tokens |-> 0] ELSE Alive(at)

\* Mutant: the verdict's lifetime starts when it is written.
UntilFromWriting(r) == now + VerdictTTL

\* The verdict's lifetime starts at the clock read before the authority was asked.
Until(r) == req[r].at + VerdictTTL

StoreVerdict(r) ==
    /\ At(r, "cleared")
    /\ LET kept == IF IsFull(cache) THEN Pruned(req[r].at) ELSE cache
       IN cache' = [kept EXCEPT ![req[r].token] = Until(r)]
    /\ Goto(r, "accepted")
    /\ UNCHANGED <<now, authority>>

-----------------------------------------------------------------------------
Tick ==
    /\ now < MaxNow
    /\ now' = now + 1
    /\ UNCHANGED <<authority, cache, req>>

\* The process restarts with nothing (New).
Restart ==
    /\ cache' = [t \in Tokens |-> 0]
    /\ req' = [r \in Requests |-> Idle]
    /\ UNCHANGED <<now, authority>>

Judge(r) ==
    \/ \E t \in Tokens : Begin(r, t)
    \/ CacheHit(r) \/ CacheMiss(r)
    \/ AskAuthority(r) \/ AuthorityFails(r) \/ StoreVerdict(r)

Next ==
    \/ Tick \/ Restart
    \/ \E t \in Tokens : Revoke(t) \/ Restore(t)
    \/ \E r \in Requests : Judge(r)

Spec == Init /\ [][Next]_vars

-----------------------------------------------------------------------------
(* Properties.                                                             *)

In(pcs) == {r \in Requests : req[r].pc \in pcs}
Call(r) == [caller |-> r, subject |-> req[r].token, at |-> req[r].at]

\* The question whether a token is revoked, answered from a copy.
VerdictWindow == INSTANCE StalenessWindow WITH
    Subjects <- Tokens, Callers <- Requests, Window <- VerdictTTL,
    valid <- Tokens \ revoked, lastValid <- revokedAt,
    asked <- {Call(r) : r \in In({"cached", "ask", "cleared"})},
    granted <- {Call(r) : r \in In({"accepted"})}

\* A token revoked VerdictTTL before it is presented is refused, whatever other
\* presentations have written into the cache meanwhile: the cache implements the
\* window of VerdictTTL over the revocation authority.
VerdictsAreRecent == VerdictWindow!Spec

\* The cache, filled by whoever presents tokens, stays within its limit.
CacheIsBounded == Cardinality(Entries(cache)) <= MaxCached
=============================================================================
