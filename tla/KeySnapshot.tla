---------------------------- MODULE KeySnapshot ----------------------------
(***************************************************************************)
(* The snapshot of the published key set that the reader of presented      *)
(* tokens keeps (internal/presentedcred, keySnapshot).  The registry is    *)
(* asked outside the lock, so look-ups overtake each other between reading *)
(* the clock, reading the registry and writing what was read.  now is the  *)
(* clock of the process.                                                   *)
(***************************************************************************)
EXTENDS Integers

CONSTANTS
    Keys,
    Requests,           \* look-ups served at one time
    KeySetTTL, ForcedInterval,
    MaxNow              \* bound on the clock

\* What New demands of the settings; and something is presented.
SnapshotLimits ==
    /\ KeySetTTL \in Nat \ {0} /\ ForcedInterval \in Nat \ {0}
    /\ MaxNow \in Nat /\ Keys # {}

VARIABLES
    now,
    published,          \* the key registry (external)
    publishedAt,        \* key -> when it was published (history)
    withdrawnAt,        \* key -> when it was withdrawn (history)
    keys, keysTakenAt,  \* the snapshot, and the moment it is dated by
    lastForced,
    forcedFailed,       \* has the refresh that set lastForced failed (history)
    req                 \* request -> where its look-up is

registry == <<published, publishedAt, withdrawnAt>>
snapshot == <<keys, keysTakenAt, lastForced, forcedFailed>>
vars == <<now, registry, snapshot, req>>

NoMoment == -1

Steps == {"idle", "snapshot", "fetch", "fetched", "missing", "found", "unknown",
          "unavailable"}

Look == [pc : Steps, key : Keys, at : Nat, forced : BOOLEAN, set : SUBSET Keys]

TypeOK ==
    /\ now \in Nat
    /\ published \subseteq Keys
    /\ publishedAt \in [Keys -> Nat \cup {NoMoment}]
    /\ withdrawnAt \in [Keys -> Nat]
    /\ keys \subseteq Keys
    /\ keysTakenAt \in Nat \cup {NoMoment} /\ lastForced \in Nat \cup {NoMoment}
    /\ forcedFailed \in BOOLEAN
    /\ req \in [Requests -> Look]

Asking(k) == [pc |-> "snapshot", key |-> k, at |-> now, forced |-> FALSE, set |-> {}]

Idle == [pc |-> "idle", key |-> CHOOSE k \in Keys : TRUE, at |-> 0,
         forced |-> FALSE, set |-> {}]

Init ==
    /\ now = 0
    /\ published \in SUBSET Keys
    /\ publishedAt = [k \in Keys |-> IF k \in published THEN 0 ELSE NoMoment]
    /\ withdrawnAt = [k \in Keys |-> 0]
    /\ keys = {} /\ keysTakenAt = NoMoment
    /\ lastForced = NoMoment /\ forcedFailed = FALSE
    /\ req = [r \in Requests |-> Idle]

-----------------------------------------------------------------------------
(* The registry: a key enters the published set once and leaves for good.  *)

Publish(k) ==
    /\ publishedAt[k] = NoMoment
    /\ published' = published \cup {k}
    /\ publishedAt' = [publishedAt EXCEPT ![k] = now]
    /\ UNCHANGED <<now, withdrawnAt, snapshot, req>>

Withdraw(k) ==
    /\ k \in published
    /\ published' = published \ {k}
    /\ withdrawnAt' = [withdrawnAt EXCEPT ![k] = now]
    /\ UNCHANGED <<now, publishedAt, snapshot, req>>

-----------------------------------------------------------------------------
(* keySnapshot, and the look-up of verify around it.                       *)

At(r, pc) == req[r].pc = pc
Goto(r, pc) == req' = [req EXCEPT ![r].pc = pc]
Answered(r) == req[r].pc \in {"idle", "found", "unknown", "unavailable"}

\* verify begins: the clock is read before the lock is taken.
Begin(r, k) ==
    /\ Answered(r)
    /\ req' = [req EXCEPT ![r] = Asking(k)]
    /\ UNCHANGED <<now, registry, snapshot>>

\* The key is not in the set at hand: keySnapshot once more, forced.
BeginForced(r) ==
    /\ At(r, "missing")
    /\ req' = [req EXCEPT ![r] = [Asking(@.key) EXCEPT !.forced = TRUE]]
    /\ UNCHANGED <<now, registry, snapshot>>

Fresh(r) == keysTakenAt # NoMoment /\ req[r].at - keysTakenAt < KeySetTTL

\* Mutant: an unknown key waits for the lifetime of the snapshot.
ThrottledByTTL(r) == lastForced # NoMoment /\ req[r].at - lastForced < KeySetTTL

\* A forced refresh has begun less than ForcedInterval ago.
Throttled(r) == lastForced # NoMoment /\ req[r].at - lastForced < ForcedInterval

\* Where the look-up of the key goes with a set.
Looked(r, set) ==
    IF req[r].key \in set THEN "found"
    ELSE IF req[r].forced THEN "unknown" ELSE "missing"

Servable(r) == Fresh(r) /\ (req[r].forced => Throttled(r))

\* The snapshot is given out under the lock.
UseSnapshot(r) ==
    /\ At(r, "snapshot") /\ Servable(r)
    /\ Goto(r, Looked(r, keys))
    /\ UNCHANGED <<now, registry, snapshot>>

\* Or the lock is released and the registry is asked.
Refresh(r) ==
    /\ At(r, "snapshot") /\ ~Servable(r)
    /\ lastForced' = IF req[r].forced THEN req[r].at ELSE lastForced
    /\ forcedFailed' = IF req[r].forced THEN FALSE ELSE forcedFailed
    /\ Goto(r, "fetch")
    /\ UNCHANGED <<now, registry, keys, keysTakenAt>>

\* PublishedSet answers with what is published at this moment.
Fetch(r) ==
    /\ At(r, "fetch")
    /\ req' = [req EXCEPT ![r].pc = "fetched", ![r].set = published]
    /\ UNCHANGED <<now, registry, snapshot>>

\* PublishedSet fails: the caller is answered that nothing can be judged.
FetchFails(r) ==
    /\ At(r, "fetch")
    /\ Goto(r, "unavailable")
    /\ forcedFailed' = (forcedFailed \/ (req[r].forced /\ lastForced = req[r].at))
    /\ UNCHANGED <<now, registry, keys, keysTakenAt, lastForced>>

\* Mutant: the snapshot is dated when it is written.
TakenWhenWritten(r) == now

\* The snapshot is dated by the clock read before the registry was asked.
TakenAt(r) == req[r].at

\* The last to come back overwrites the snapshot, also a newer one.
StoreSnapshot(r) ==
    /\ At(r, "fetched")
    /\ keys' = req[r].set /\ keysTakenAt' = TakenAt(r)
    /\ req' = [req EXCEPT ![r].pc = Looked(r, req[r].set), ![r].set = {}]
    /\ UNCHANGED <<now, registry, lastForced, forcedFailed>>

-----------------------------------------------------------------------------
Tick ==
    /\ now < MaxNow
    /\ now' = now + 1
    /\ UNCHANGED <<registry, snapshot, req>>

\* The process restarts with nothing (New).
Restart ==
    /\ keys' = {} /\ keysTakenAt' = NoMoment
    /\ lastForced' = NoMoment /\ forcedFailed' = FALSE
    /\ req' = [r \in Requests |-> Idle]
    /\ UNCHANGED <<now, registry>>

Verify(r) ==
    \/ \E k \in Keys : Begin(r, k)
    \/ BeginForced(r) \/ UseSnapshot(r) \/ Refresh(r)
    \/ Fetch(r) \/ FetchFails(r) \/ StoreSnapshot(r)

Next ==
    \/ Tick \/ Restart
    \/ \E k \in Keys : Publish(k) \/ Withdraw(k)
    \/ \E r \in Requests : Verify(r)

Spec == Init /\ [][Next]_vars

-----------------------------------------------------------------------------
(* Properties.                                                             *)

In(pcs) == {r \in Requests : req[r].pc \in pcs}
Call(r) == [caller |-> r, subject |-> req[r].key, at |-> req[r].at]

\* A look-up, as a question answered from a copy of the registry.
KeyWindow == INSTANCE StalenessWindow WITH
    Subjects <- Keys, Callers <- Requests, Window <- KeySetTTL,
    valid <- published, lastValid <- withdrawnAt,
    asked <- {Call(r) : r \in In({"snapshot", "fetch", "fetched"})},
    granted <- {Call(r) : r \in In({"found"})}

\* A key that left the published set verifies nothing that is presented KeySetTTL
\* later, however slowly an older reading of the set comes back and overwrites a
\* newer one: keySnapshot implements the window of KeySetTTL over the registry.
KeysAreRecent == KeyWindow!Spec

\* A rotation is seen: a key published before its forced look-up is taken for an
\* unknown one only on the snapshot at hand, when another forced refresh has begun
\* less than ForcedInterval before, and never on a reading of the registry by the
\* request itself.
RotationIsSeen ==
    [][\A r \in Requests :
          (/\ ~At(r, "unknown") /\ At(r, "unknown")'
           /\ req[r].key \in published /\ publishedAt[req[r].key] < req[r].at)
          => /\ At(r, "snapshot")
             /\ lastForced # NoMoment /\ lastForced > req[r].at - ForcedInterval]_vars

\* A registry that could not be read is not an unknown key: a published key is never
\* taken for an unknown one on the strength of a refresh that failed.
\* The code does not keep this: see section 7 of the README.
UnreadableIsNotUnknown ==
    [][\A r \in Requests :
          (At(r, "snapshot") /\ At(r, "unknown")' /\ req[r].key \in published)
          => ~forcedFailed]_vars
=============================================================================
