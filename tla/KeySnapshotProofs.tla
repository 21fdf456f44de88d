------------------------- MODULE KeySnapshotProofs -------------------------
(***************************************************************************)
(* Proofs about KeySnapshot, for any keys, any number of look-ups at one   *)
(* time and any settings New accepts: a rotation is seen, and the snapshot *)
(* implements StalenessWindow over the registry.                           *)
(***************************************************************************)
EXTENDS KeySnapshot, TLAPS

\* A reading dated d may hold key k: it is published, or still was at d.
StoodAt(k, d) == k \in published \/ withdrawnAt[k] >= d

\* Moments are read from the clock before they are used.
MomentsInv ==
    /\ \A r \in Requests : req[r].at <= now
    /\ keysTakenAt <= now

\* A reading of the registry, in a look-up's hands or in the snapshot, holds nothing
\* that was withdrawn before the moment it is dated by.
RecentInv ==
    /\ \A r \in Requests : req[r].pc = "fetched" =>
          \A k \in req[r].set : StoodAt(k, req[r].at)
    /\ \A k \in keys : StoodAt(k, keysTakenAt)

\* A reading in a look-up's hands holds every key published before it was asked for.
CompleteInv ==
    \A r \in Requests : req[r].pc = "fetched" =>
       \A k \in published : publishedAt[k] < req[r].at => k \in req[r].set

IInv == TypeOK /\ MomentsInv /\ RecentInv /\ CompleteInv

\* What a look-up keeps between its steps.
LEMMA GotoFacts ==
    ASSUME TypeOK, NEW r \in Requests, NEW pc \in Steps, Goto(r, pc)
    PROVE  /\ req' \in [Requests -> Look]
           /\ req'[r].pc = pc /\ req'[r].key = req[r].key /\ req'[r].at = req[r].at
           /\ req'[r].set = req[r].set
           /\ \A s \in Requests \ {r} : req'[s] = req[s]
BY DEF TypeOK, Goto, Look

LEMMA FetchFacts ==
    ASSUME TypeOK, NEW r \in Requests, Fetch(r)
    PROVE  /\ req' \in [Requests -> Look]
           /\ req'[r].pc = "fetched" /\ req'[r].key = req[r].key /\ req'[r].at = req[r].at
           /\ req'[r].set = published
           /\ \A s \in Requests \ {r} : req'[s] = req[s]
BY DEF TypeOK, Fetch, Look, Steps

LEMMA LookedFacts ==
    ASSUME NEW r \in Requests, NEW set
    PROVE  /\ Looked(r, set) \in {"found", "unknown", "missing"}
           /\ Looked(r, set) = "found" => req[r].key \in set
           /\ Looked(r, set) = "unknown" => req[r].key \notin set /\ req[r].forced
BY DEF Looked

LEMMA StoreFacts ==
    ASSUME TypeOK, NEW r \in Requests, StoreSnapshot(r)
    PROVE  /\ req' \in [Requests -> Look]
           /\ req'[r].pc = Looked(r, req[r].set)
           /\ req'[r].key = req[r].key /\ req'[r].at = req[r].at
           /\ \A s \in Requests \ {r} : req'[s] = req[s]
<1>1. Looked(r, req[r].set) \in Steps
  BY LookedFacts DEF Steps
<1> QED
  BY <1>1 DEF TypeOK, StoreSnapshot, Look

\* A look-up that begins, or begins again with a forced refresh, has the moment of the
\* clock.
LEMMA BeginFacts ==
    ASSUME TypeOK, NEW r \in Requests, NEW k \in Keys,
           Begin(r, k) \/ (BeginForced(r) /\ k = req[r].key)
    PROVE  /\ req' \in [Requests -> Look]
           /\ req'[r].pc = "snapshot" /\ req'[r].key = k /\ req'[r].at = now
           /\ \A s \in Requests \ {r} : req'[s] = req[s]
<1>1. Asking(k) \in Look /\ Asking(k).pc = "snapshot" /\ Asking(k).key = k /\ Asking(k).at = now
  BY DEF Asking, Look, Steps, TypeOK
<1>2. CASE Begin(r, k)
  BY <1>1, <1>2 DEF TypeOK, Begin
<1>3. CASE BeginForced(r) /\ k = req[r].key
  <2>1. req' = [req EXCEPT ![r] = [Asking(k) EXCEPT !.forced = TRUE]]
    BY <1>3 DEF BeginForced
  <2>2. /\ [Asking(k) EXCEPT !.forced = TRUE] \in Look
        /\ [Asking(k) EXCEPT !.forced = TRUE].pc = "snapshot"
        /\ [Asking(k) EXCEPT !.forced = TRUE].key = k
        /\ [Asking(k) EXCEPT !.forced = TRUE].at = now
    BY DEF Asking, Look, Steps, TypeOK
  <2> QED
    BY <2>1, <2>2 DEF TypeOK
<1> QED
  BY <1>2, <1>3

LEMMA IdleFacts ==
    ASSUME SnapshotLimits
    PROVE  Idle \in Look /\ Idle.pc = "idle" /\ Idle.at = 0
<1>1. (CHOOSE k \in Keys : TRUE) \in Keys
  BY DEF SnapshotLimits
<1> QED
  BY <1>1 DEF Idle, Steps, Look
-----------------------------------------------------------------------------
(* The readings of the registry.                                           *)

LEMMA InitInv == SnapshotLimits /\ Init => IInv
<1> SUFFICES ASSUME SnapshotLimits, Init PROVE IInv
  OBVIOUS
<1>1. /\ req \in [Requests -> Look]
      /\ \A r \in Requests : req[r].pc = "idle" /\ req[r].at = 0
  BY IdleFacts DEF Init
<1>2. TypeOK
  BY <1>1 DEF Init, TypeOK, NoMoment
<1>3. MomentsInv
  BY <1>1 DEF Init, MomentsInv, NoMoment
<1>4. RecentInv /\ CompleteInv
  BY <1>1 DEF Init, RecentInv, CompleteInv
<1> QED
  BY <1>2, <1>3, <1>4 DEF IInv

\* What a step of look-up r may do to the invariant: the registry and the clock stay,
\* the other look-ups stay, and what is read or written stood when it is dated.
LEMMA CallKeeps ==
    ASSUME IInv, NEW r \in Requests, UNCHANGED <<now, registry>>,
           req' \in [Requests -> Look], \A s \in Requests \ {r} : req'[s] = req[s],
           req'[r].at <= now,
           req'[r].pc = "fetched" => req'[r].set = published,
           lastForced' \in Nat \cup {NoMoment}, forcedFailed' \in BOOLEAN,
           \/ keys' = keys /\ keysTakenAt' = keysTakenAt
           \/ /\ req[r].pc = "fetched"
              /\ keys' = req[r].set /\ keysTakenAt' = req[r].at
    PROVE  IInv'
<1> USE DEF registry
<1>0. /\ TypeOK /\ now \in Nat /\ req[r].at \in Nat /\ req[r].set \subseteq Keys
      /\ req[r].at <= now /\ keysTakenAt <= now
  BY DEF IInv, TypeOK, Look, MomentsInv
<1>1. TypeOK'
  BY <1>0 DEF TypeOK
<1>2. MomentsInv'
  <2>1. keysTakenAt' <= now
    BY <1>0
  <2> QED
    BY <1>0, <2>1 DEF IInv, MomentsInv
<1>3. ASSUME NEW s \in Requests, req'[s].pc = "fetched"
      PROVE  /\ \A k \in req'[s].set : StoodAt(k, req[s].at)'
             /\ \A k \in published' : publishedAt'[k] < req'[s].at => k \in req'[s].set
  <2>1. CASE s = r
    BY <1>3, <2>1 DEF StoodAt
  <2>2. CASE s # r
    <3>1. req'[s] = req[s]
      BY <2>2
    <3> QED
      BY <1>3, <3>1 DEF IInv, RecentInv, CompleteInv, StoodAt
  <2> QED
    BY <2>1, <2>2
<1>4. ASSUME NEW k \in keys' PROVE StoodAt(k, keysTakenAt)'
  BY <1>4 DEF IInv, RecentInv, StoodAt
<1> QED
  BY <1>1, <1>2, <1>3, <1>4 DEF IInv, RecentInv, CompleteInv

LEMMA NextInv == SnapshotLimits /\ IInv /\ [Next]_vars => IInv'
<1> SUFFICES ASSUME SnapshotLimits, IInv, [Next]_vars PROVE IInv'
  OBVIOUS
<1>0. /\ TypeOK /\ now \in Nat
      /\ \A r \in Requests : req[r].at <= now /\ req[r].key \in Keys /\ req[r].at \in Nat
      /\ \A r \in Requests : req[r].set \subseteq Keys
      /\ keysTakenAt \in Int /\ keysTakenAt <= now
      /\ lastForced \in Nat \cup {NoMoment} /\ forcedFailed \in BOOLEAN
  BY DEF IInv, TypeOK, MomentsInv, Look, NoMoment
<1>1. CASE Tick
  <2>1. now' = now + 1 /\ UNCHANGED <<published, publishedAt, withdrawnAt, keys, keysTakenAt,
                                      lastForced, forcedFailed, req>>
    BY <1>1 DEF Tick, registry, snapshot
  <2>2. TypeOK' /\ MomentsInv'
    BY <1>0, <2>1 DEF IInv, TypeOK, MomentsInv
  <2> QED
    BY <2>1, <2>2 DEF IInv, RecentInv, CompleteInv, StoodAt
<1>2. CASE Restart
  <2>1. /\ req' \in [Requests -> Look]
        /\ \A r \in Requests : req'[r].pc = "idle" /\ req'[r].at = 0
        /\ keys' = {} /\ keysTakenAt' = NoMoment /\ lastForced' = NoMoment
        /\ forcedFailed' = FALSE
        /\ UNCHANGED <<now, published, publishedAt, withdrawnAt>>
    BY <1>2, IdleFacts DEF Restart, registry
  <2>2. TypeOK'
    BY <1>0, <2>1 DEF TypeOK
  <2> QED
    BY <1>0, <2>1, <2>2 DEF IInv, MomentsInv, RecentInv, CompleteInv, NoMoment
<1>3. ASSUME NEW k \in Keys, Publish(k) PROVE IInv'
  <2>1. /\ published' = published \cup {k}
        /\ UNCHANGED <<now, withdrawnAt, keys, keysTakenAt, lastForced, forcedFailed, req>>
        /\ publishedAt' \in [Keys -> Nat \cup {NoMoment}] /\ publishedAt'[k] = now
        /\ \A j \in Keys \ {k} : publishedAt'[j] = publishedAt[j]
    BY <1>0, <1>3 DEF Publish, TypeOK, snapshot
  <2>2. TypeOK' /\ MomentsInv'
    BY <2>1 DEF IInv, TypeOK, MomentsInv
  <2>3. RecentInv'
    BY <2>1 DEF IInv, RecentInv, StoodAt
  <2>4. ASSUME NEW r \in Requests, req[r].pc = "fetched", NEW j \in published',
               publishedAt'[j] < req[r].at
        PROVE  j \in req[r].set
    <3>1. j # k
      BY <1>0, <2>1, <2>4
    <3>2. j \in published /\ j \in Keys /\ publishedAt[j] < req[r].at
      BY <1>0, <2>1, <2>4, <3>1 DEF TypeOK
    <3> QED
      BY <2>4, <3>2 DEF IInv, CompleteInv
  <2> QED
    BY <2>1, <2>2, <2>3, <2>4 DEF IInv, CompleteInv
<1>4. ASSUME NEW k \in Keys, Withdraw(k) PROVE IInv'
  <2>1. /\ published' = published \ {k}
        /\ UNCHANGED <<now, publishedAt, keys, keysTakenAt, lastForced, forcedFailed, req>>
        /\ withdrawnAt' \in [Keys -> Nat] /\ withdrawnAt'[k] = now
        /\ \A j \in Keys \ {k} : withdrawnAt'[j] = withdrawnAt[j]
    BY <1>0, <1>4 DEF Withdraw, TypeOK, snapshot
  <2>2. TypeOK' /\ MomentsInv'
    BY <2>1 DEF IInv, TypeOK, MomentsInv
  <2>3. ASSUME NEW j \in Keys, NEW d \in Int, d <= now, StoodAt(j, d) PROVE StoodAt(j, d)'
    BY <1>0, <2>1, <2>3 DEF StoodAt
  <2>4. RecentInv'
    <3>1. ASSUME NEW r \in Requests, req[r].pc = "fetched", NEW j \in req[r].set
          PROVE  StoodAt(j, req[r].at)'
      <4>1. j \in Keys /\ StoodAt(j, req[r].at)
        BY <1>0, <3>1 DEF IInv, RecentInv
      <4> QED
        BY <1>0, <2>1, <2>3, <4>1
    <3>2. ASSUME NEW j \in keys PROVE StoodAt(j, keysTakenAt)'
      <4>1. j \in Keys /\ StoodAt(j, keysTakenAt)
        BY <1>0, <3>2 DEF IInv, RecentInv, TypeOK
      <4> QED
        BY <1>0, <2>1, <2>3, <4>1
    <3> QED
      BY <2>1, <3>1, <3>2 DEF RecentInv
  <2>5. CompleteInv'
    BY <2>1 DEF IInv, CompleteInv
  <2> QED
    BY <2>2, <2>4, <2>5 DEF IInv
<1>5. ASSUME NEW r \in Requests, Verify(r) PROVE IInv'
  <2>1. ASSUME NEW k \in Keys, Begin(r, k) \/ (BeginForced(r) /\ k = req[r].key) PROVE IInv'
    <3>1. /\ req' \in [Requests -> Look] /\ req'[r].pc # "fetched" /\ req'[r].at <= now
          /\ \A s \in Requests \ {r} : req'[s] = req[s]
      BY <1>0, <2>1, BeginFacts
    <3>2. UNCHANGED <<now, registry, keys, keysTakenAt, lastForced, forcedFailed>>
      BY <2>1 DEF Begin, BeginForced, snapshot
    <3> QED
      BY <1>0, <3>1, <3>2, CallKeeps
  <2>2. ASSUME NEW pc \in Steps \ {"fetched"}, Goto(r, pc), UNCHANGED <<now, registry>>,
               UNCHANGED <<keys, keysTakenAt>>, lastForced' \in Nat \cup {NoMoment},
               forcedFailed' \in BOOLEAN
        PROVE  IInv'
    BY <1>0, <2>2, GotoFacts, CallKeeps
  <2>3. CASE UseSnapshot(r)
    <3>1. Looked(r, keys) \in Steps \ {"fetched"}
      BY LookedFacts DEF Steps
    <3> QED
      BY <1>0, <2>2, <2>3, <3>1 DEF UseSnapshot, snapshot
  <2>4. CASE Refresh(r)
    <3>1. lastForced' \in Nat \cup {NoMoment} /\ forcedFailed' \in BOOLEAN
      BY <1>0, <2>4 DEF Refresh
    <3> QED
      BY <2>2, <2>4, <3>1 DEF Refresh, Steps
  <2>5. CASE Fetch(r)
    <3>1. UNCHANGED <<now, registry, keys, keysTakenAt, lastForced, forcedFailed>>
      BY <2>5 DEF Fetch, snapshot
    <3> QED
      BY <1>0, <2>5, <3>1, FetchFacts, CallKeeps
  <2>6. CASE FetchFails(r)
    <3>1. lastForced' \in Nat \cup {NoMoment} /\ forcedFailed' \in BOOLEAN
      BY <1>0, <2>6 DEF FetchFails
    <3> QED
      BY <2>2, <2>6, <3>1 DEF FetchFails, Steps
  <2>7. CASE StoreSnapshot(r)
    <3>1. /\ UNCHANGED <<now, registry, lastForced, forcedFailed>>
          /\ req[r].pc = "fetched" /\ keys' = req[r].set /\ keysTakenAt' = req[r].at
      BY <2>7 DEF StoreSnapshot, At, TakenAt
    <3>2. req'[r].pc # "fetched" /\ req'[r].at <= now
      BY <1>0, <2>7, StoreFacts, LookedFacts
    <3> QED
      BY <1>0, <2>7, <3>1, <3>2, StoreFacts, CallKeeps
  <2> QED
    BY <1>0, <1>5, <2>1, <2>3, <2>4, <2>5, <2>6, <2>7 DEF Verify
<1>6. CASE UNCHANGED vars
  BY <1>6 DEF vars, registry, snapshot, IInv, TypeOK, MomentsInv, RecentInv, CompleteInv, StoodAt
<1> QED
  BY <1>1, <1>2, <1>3, <1>4, <1>5, <1>6 DEF Next

\* A reading of the registry, in a look-up's hands or in the snapshot, stood when it is
\* dated; in a look-up's hands it is complete as well.
THEOREM SnapshotInvariant == SnapshotLimits => (Spec => []IInv)
<1> SUFFICES ASSUME SnapshotLimits PROVE Spec => []IInv
  OBVIOUS
<1> QED
  BY InitInv, NextInv, PTL DEF Spec
-----------------------------------------------------------------------------
(* Rotation.                                                               *)

\* A look-up becomes "unknown" in two places only: with the snapshot at hand, and with
\* the set it has read itself.
LEMMA UnknownComesFrom ==
    ASSUME SnapshotLimits, TypeOK, [Next]_vars, NEW r \in Requests,
           req[r].pc # "unknown", req'[r].pc = "unknown"
    PROVE  \/ UseSnapshot(r) /\ Looked(r, keys) = "unknown"
           \/ StoreSnapshot(r) /\ Looked(r, req[r].set) = "unknown"
<1>1. CASE Restart
  BY <1>1, IdleFacts DEF Restart
<1>2. ASSUME NEW s \in Requests, Verify(s)
      PROVE  \/ UseSnapshot(r) /\ Looked(r, keys) = "unknown"
             \/ StoreSnapshot(r) /\ Looked(r, req[r].set) = "unknown"
  <2>0. \A q \in Requests : req[q].key \in Keys
    BY DEF TypeOK, Look
  <2>1. ASSUME NEW k \in Keys, Begin(s, k) \/ (BeginForced(s) /\ k = req[s].key) PROVE FALSE
    BY <2>1, BeginFacts
  <2>2. ASSUME NEW pc \in Steps, Goto(s, pc) PROVE s = r /\ pc = "unknown"
    BY <2>2, GotoFacts
  <2>3. CASE Refresh(s)
    BY <2>2, <2>3 DEF Refresh, Steps
  <2>4. CASE FetchFails(s)
    BY <2>2, <2>4 DEF FetchFails, Steps
  <2>5. CASE Fetch(s)
    BY <2>5, FetchFacts
  <2>6. CASE UseSnapshot(s)
    <3>1. Looked(s, keys) \in Steps
      BY LookedFacts DEF Steps
    <3>2. s = r /\ Looked(s, keys) = "unknown"
      BY <2>2, <2>6, <3>1 DEF UseSnapshot
    <3> QED
      BY <2>6, <3>2
  <2>7. CASE StoreSnapshot(s)
    <3>1. s = r /\ Looked(s, req[s].set) = "unknown"
      BY <2>7, StoreFacts
    <3> QED
      BY <2>7, <3>1
  <2> QED
    BY <1>2, <2>0, <2>1, <2>3, <2>4, <2>5, <2>6, <2>7 DEF Verify
<1>3. CASE Tick \/ UNCHANGED vars
  BY <1>3 DEF Tick, vars
<1>4. ASSUME NEW k \in Keys, Publish(k) \/ Withdraw(k) PROVE FALSE
  BY <1>4 DEF Publish, Withdraw
<1> QED
  BY <1>1, <1>2, <1>3, <1>4 DEF Next

\* A key published before its forced look-up is taken for an unknown one only on the
\* snapshot at hand, inside the interval of another forced refresh; a look-up that reads
\* the registry itself finds it.
THEOREM RotationSeen == SnapshotLimits => (Spec => RotationIsSeen)
<1> SUFFICES ASSUME SnapshotLimits PROVE Spec => RotationIsSeen
  OBVIOUS
<1> DEFINE Seen(r) ==
             (/\ ~At(r, "unknown") /\ At(r, "unknown")'
              /\ req[r].key \in published /\ publishedAt[req[r].key] < req[r].at)
             => /\ At(r, "snapshot")
                /\ lastForced # NoMoment /\ lastForced > req[r].at - ForcedInterval
<1>1. IInv /\ [Next]_vars => [\A r \in Requests : Seen(r)]_vars
  <2> SUFFICES ASSUME IInv, [Next]_vars, NEW r \in Requests,
                      req[r].pc # "unknown", req'[r].pc = "unknown",
                      req[r].key \in published, publishedAt[req[r].key] < req[r].at
               PROVE  /\ req[r].pc = "snapshot"
                      /\ lastForced # NoMoment /\ lastForced > req[r].at - ForcedInterval
    BY DEF At
  <2>0. TypeOK /\ req[r].at \in Nat
    BY DEF IInv, TypeOK, Look
  <2>1. CASE UseSnapshot(r) /\ Looked(r, keys) = "unknown"
    <3>1. req[r].forced /\ req[r].pc = "snapshot" /\ Throttled(r)
      BY <2>1, LookedFacts DEF UseSnapshot, Servable, At
    <3>2. lastForced \in Int /\ ForcedInterval \in Int
      BY <2>0 DEF TypeOK, NoMoment, SnapshotLimits
    <3> QED
      BY <2>0, <3>1, <3>2 DEF Throttled
  <2>2. CASE StoreSnapshot(r) /\ Looked(r, req[r].set) = "unknown"
    <3>1. req[r].pc = "fetched" /\ req[r].key \notin req[r].set
      BY <2>2, LookedFacts DEF StoreSnapshot, At
    <3> QED
      BY <3>1 DEF IInv, CompleteInv
  <2> QED
    BY <2>0, <2>1, <2>2, UnknownComesFrom
<1>2. Spec => []IInv
  BY SnapshotInvariant
<1> QED
  BY <1>1, <1>2, PTL DEF Spec, RotationIsSeen
-----------------------------------------------------------------------------
(* The window.                                                             *)

UnderWay == {"snapshot", "fetch", "fetched"}
Asked == {Call(r) : r \in In(UnderWay)}
Granted == {Call(r) : r \in In({"found"})}

\* Calls are told apart by their callers.
LEMMA CallsOf ==
    ASSUME NEW x
    PROVE  /\ x \in Asked <=> \E r \in Requests : req[r].pc \in UnderWay /\ x = Call(r)
           /\ x \in Granted <=> \E r \in Requests : req[r].pc = "found" /\ x = Call(r)
BY DEF Asked, Granted, In

LEMMA CallIsUnique == \A r, s \in Requests : Call(r) = Call(s) => r = s
BY DEF Call

\* A step of one look-up that keeps its key and its moment moves that call, or grants it,
\* or ends it.
LEMMA MovedCall ==
    ASSUME NEW r \in Requests, req'[r].key = req[r].key, req'[r].at = req[r].at,
           \A s \in Requests \ {r} : req'[s] = req[s],
           req[r].pc \in UnderWay
    PROVE  /\ req'[r].pc \in UnderWay => Asked' = Asked /\ Granted' = Granted
           /\ req'[r].pc = "found" =>
                 /\ Call(r) \in Asked
                 /\ Asked' = Asked \ {Call(r)} /\ Granted' = Granted \cup {Call(r)}
           /\ req'[r].pc \in {"missing", "unknown", "unavailable"} =>
                 Asked' \subseteq Asked /\ Granted' \subseteq Granted
<1>1. \A s \in Requests : Call(s)' = Call(s) /\ (s # r => req'[s].pc = req[s].pc)
  BY DEF Call
<1>2. \A x : /\ x \in Asked <=> \E s \in Requests : req[s].pc \in UnderWay /\ x = Call(s)
             /\ x \in Granted <=> \E s \in Requests : req[s].pc = "found" /\ x = Call(s)
  BY CallsOf
<1>3. \A x : /\ x \in Asked' <=> \E s \in Requests : req'[s].pc \in UnderWay /\ x = Call(s)
             /\ x \in Granted' <=> \E s \in Requests : req'[s].pc = "found" /\ x = Call(s)
  BY <1>1 DEF Asked, Granted, In
<1>4. /\ req[r].pc # "found" /\ "found" \notin UnderWay
      /\ "missing" \notin UnderWay /\ "unknown" \notin UnderWay /\ "unavailable" \notin UnderWay
  BY DEF UnderWay
<1>5. ASSUME req'[r].pc \in UnderWay PROVE Asked' = Asked /\ Granted' = Granted
  <2>1. \A x : (x \in Asked' <=> x \in Asked) /\ (x \in Granted' <=> x \in Granted)
    BY <1>1, <1>2, <1>3, <1>4, <1>5
  <2> QED
    BY <2>1
<1>6. ASSUME req'[r].pc = "found"
      PROVE  Call(r) \in Asked /\ Asked' = Asked \ {Call(r)} /\ Granted' = Granted \cup {Call(r)}
  <2>1. \A x : x \in Asked' <=> x \in Asked /\ x # Call(r)
    BY <1>1, <1>2, <1>3, <1>4, <1>6, CallIsUnique
  <2>2. \A x : x \in Granted' <=> x \in Granted \/ x = Call(r)
    BY <1>1, <1>2, <1>3, <1>4, <1>6
  <2>3. Call(r) \in Asked
    BY <1>2
  <2> QED
    BY <2>1, <2>2, <2>3
<1>7. ASSUME req'[r].pc \in {"missing", "unknown", "unavailable"}
      PROVE  Asked' \subseteq Asked /\ Granted' \subseteq Granted
  <2>1. \A x : (x \in Asked' => x \in Asked) /\ (x \in Granted' => x \in Granted)
    BY <1>1, <1>2, <1>3, <1>4, <1>7
  <2> QED
    BY <2>1
<1> QED
  BY <1>5, <1>6, <1>7

\* A new call, or a forced one, replaces whatever its caller had.
LEMMA NewCall ==
    ASSUME TypeOK, NEW r \in Requests, NEW k \in Keys,
           Begin(r, k) \/ (BeginForced(r) /\ k = req[r].key)
    PROVE  /\ Asked' = {x \in Asked : x.caller # r}
                          \cup {[caller |-> r, subject |-> k, at |-> now]}
           /\ Granted' = {x \in Granted : x.caller # r}
<1>1. /\ req'[r].pc = "snapshot" /\ \A s \in Requests \ {r} : req'[s] = req[s]
      /\ Call(r)' = [caller |-> r, subject |-> k, at |-> now]
  BY BeginFacts DEF Call
<1>2. \A s \in Requests \ {r} : Call(s)' = Call(s) /\ req'[s].pc = req[s].pc
  BY <1>1 DEF Call
<1>3. \A s \in Requests : Call(s).caller = s
  BY DEF Call
<1>4. \A x : /\ x \in Asked' <=> \E s \in Requests : req'[s].pc \in UnderWay /\ x = Call(s)'
             /\ x \in Granted' <=> \E s \in Requests : req'[s].pc = "found" /\ x = Call(s)'
  BY DEF Asked, Granted, In
<1>5. \A x : /\ x \in Asked <=> \E s \in Requests : req[s].pc \in UnderWay /\ x = Call(s)
             /\ x \in Granted <=> \E s \in Requests : req[s].pc = "found" /\ x = Call(s)
  BY CallsOf
<1>6. "snapshot" \in UnderWay
  BY DEF UnderWay
<1>7. \A x : x \in Asked' <=> \/ x \in Asked /\ x.caller # r
                            \/ x = [caller |-> r, subject |-> k, at |-> now]
  BY <1>1, <1>2, <1>3, <1>4, <1>5, <1>6
<1>8. \A x : x \in Granted' <=> x \in Granted /\ x.caller # r
  BY <1>1, <1>2, <1>3, <1>4, <1>5
<1> QED
  BY <1>7, <1>8

LEMMA WindowInit == SnapshotLimits /\ Init => KeyWindow!Init
<1> SUFFICES ASSUME SnapshotLimits, Init PROVE KeyWindow!Init
  OBVIOUS
<1>1. \A r \in Requests : req[r].pc = "idle"
  BY IdleFacts DEF Init
<1>2. Asked = {} /\ Granted = {}
  BY <1>1 DEF Asked, Granted, In, UnderWay
<1> QED
  BY <1>2 DEF Init, KeyWindow!Init, Asked, Granted, UnderWay

LEMMA WindowNext == SnapshotLimits /\ IInv /\ [Next]_vars => [KeyWindow!Next]_KeyWindow!vars
<1> SUFFICES ASSUME SnapshotLimits, IInv, [Next]_vars PROVE [KeyWindow!Next]_KeyWindow!vars
  OBVIOUS
<1>0. /\ TypeOK /\ KeySetTTL \in Nat \ {0} /\ keysTakenAt \in Int
      /\ \A r \in Requests : req[r].key \in Keys /\ req[r].at \in Nat
      /\ withdrawnAt \in [Keys -> Nat]
  BY DEF IInv, TypeOK, SnapshotLimits, Look, NoMoment
<1>1. ASSUME UNCHANGED req PROVE Asked' = Asked /\ Granted' = Granted
  BY <1>1 DEF Asked, Granted, In, Call
<1>2. ASSUME UNCHANGED <<now, registry>>, Asked' \subseteq Asked, Granted' \subseteq Granted
      PROVE  KeyWindow!Next
  <2>1. KeyWindow!Forget
    BY <1>2 DEF registry, KeyWindow!Forget, Asked, Granted, UnderWay
  <2> QED
    BY <2>1 DEF KeyWindow!Next
<1>3. CASE Tick
  <2>1. KeyWindow!Tick
    BY <1>1, <1>3 DEF Tick, registry, KeyWindow!Tick, Asked, Granted, UnderWay
  <2> QED
    BY <2>1 DEF KeyWindow!Next
<1>4. CASE Restart
  <2>1. \A r \in Requests : req'[r].pc = "idle"
    BY <1>4, IdleFacts DEF Restart
  <2>2. Asked' = {} /\ Granted' = {}
    BY <2>1 DEF Asked, Granted, In, UnderWay
  <2> QED
    BY <1>2, <1>4, <2>2 DEF Restart
<1>5. ASSUME NEW k \in Keys, Publish(k) PROVE KeyWindow!Next
  <2>1. KeyWindow!Validate(k)
    BY <1>1, <1>5 DEF Publish, KeyWindow!Validate, Asked, Granted, UnderWay
  <2> QED
    BY <2>1 DEF KeyWindow!Next
<1>6. ASSUME NEW k \in Keys, Withdraw(k) PROVE KeyWindow!Next
  <2>1. KeyWindow!Invalidate(k)
    BY <1>1, <1>6 DEF Withdraw, KeyWindow!Invalidate, Asked, Granted, UnderWay
  <2> QED
    BY <2>1 DEF KeyWindow!Next
<1>7. ASSUME NEW r \in Requests, Verify(r) PROVE [KeyWindow!Next]_KeyWindow!vars
  <2>1. ASSUME NEW k \in Keys, Begin(r, k) \/ (BeginForced(r) /\ k = req[r].key)
        PROVE  KeyWindow!Next
    <3>1. UNCHANGED <<now, published, withdrawnAt>>
      BY <2>1 DEF Begin, BeginForced, registry
    <3>2. KeyWindow!Ask(r, k)
      BY <1>0, <2>1, <3>1, NewCall
      DEF KeyWindow!Ask, KeyWindow!Others, Asked, Granted, UnderWay
    <3> QED
      BY <3>2 DEF KeyWindow!Next
  <2>2. ASSUME UNCHANGED <<now, registry>>, Asked' = Asked, Granted' = Granted
        PROVE  UNCHANGED KeyWindow!vars
    BY <2>2 DEF registry, KeyWindow!vars, Asked, Granted, UnderWay
  \* A look-up that ends with a set that stood at a moment inside the window.
  <2>3. ASSUME NEW set, NEW d \in Int, UNCHANGED <<now, registry>>, req[r].pc \in UnderWay,
               req'[r].pc = Looked(r, set), req'[r].key = req[r].key, req'[r].at = req[r].at,
               \A s \in Requests \ {r} : req'[s] = req[s],
               \A k \in set : StoodAt(k, d), req[r].at - d < KeySetTTL
        PROVE  KeyWindow!Next
    <3>1. CASE Looked(r, set) = "found"
      <4>1. /\ Call(r) \in Asked
            /\ Asked' = Asked \ {Call(r)} /\ Granted' = Granted \cup {Call(r)}
        BY <2>3, <3>1, MovedCall
      <4>2. StoodAt(req[r].key, d)
        BY <2>3, <3>1, LookedFacts
      <4>3. req[r].key \in published \/ withdrawnAt[req[r].key] > req[r].at - KeySetTTL
        BY <1>0, <2>3, <4>2 DEF StoodAt
      <4>4. KeyWindow!Recent(Call(r))
        BY <4>3 DEF KeyWindow!Recent, Call
      <4>5. KeyWindow!Grant(Call(r))
        BY <2>3, <4>1, <4>4 DEF registry, KeyWindow!Grant, Asked, Granted, UnderWay
      <4> QED
        BY <4>1, <4>5 DEF KeyWindow!Next, Asked, UnderWay
    <3>2. CASE Looked(r, set) \in {"missing", "unknown"}
      BY <1>2, <2>3, <3>2, MovedCall
    <3> QED
      BY <3>1, <3>2, LookedFacts
  <2>4. CASE UseSnapshot(r)
    <3>1. /\ req[r].pc = "snapshot" /\ Goto(r, Looked(r, keys)) /\ UNCHANGED <<now, registry>>
          /\ req[r].at - keysTakenAt < KeySetTTL
      BY <2>4 DEF UseSnapshot, Servable, Fresh, At
    <3>2. Looked(r, keys) \in Steps /\ req[r].pc \in UnderWay
      BY <3>1, LookedFacts DEF Steps, UnderWay
    <3>3. \A k \in keys : StoodAt(k, keysTakenAt)
      BY DEF IInv, RecentInv
    <3>4. /\ req'[r].pc = Looked(r, keys) /\ req'[r].key = req[r].key /\ req'[r].at = req[r].at
          /\ \A s \in Requests \ {r} : req'[s] = req[s]
      BY <1>0, <3>1, <3>2, GotoFacts
    <3> QED
      BY <1>0, <2>3, <3>1, <3>2, <3>3, <3>4
  <2>5. CASE StoreSnapshot(r)
    <3>1. req[r].pc = "fetched" /\ UNCHANGED <<now, registry>>
      BY <2>5 DEF StoreSnapshot, At
    <3>2. req[r].pc \in UnderWay /\ req[r].at - req[r].at < KeySetTTL
      BY <1>0, <3>1 DEF UnderWay
    <3>3. \A k \in req[r].set : StoodAt(k, req[r].at)
      BY <3>1 DEF IInv, RecentInv
    <3>4. /\ req'[r].pc = Looked(r, req[r].set)
          /\ req'[r].key = req[r].key /\ req'[r].at = req[r].at
          /\ \A s \in Requests \ {r} : req'[s] = req[s]
      BY <1>0, <2>5, StoreFacts
    <3>5. req[r].at \in Int
      BY <1>0
    <3> QED
      BY <2>3, <3>1, <3>2, <3>3, <3>4, <3>5
  <2>6. CASE Refresh(r) \/ Fetch(r)
    <3>1. /\ req[r].pc \in UnderWay /\ UNCHANGED <<now, registry>>
      BY <2>6 DEF Refresh, Fetch, At, UnderWay
    <3>2. /\ req'[r].pc \in UnderWay /\ req'[r].key = req[r].key /\ req'[r].at = req[r].at
          /\ \A s \in Requests \ {r} : req'[s] = req[s]
      BY <1>0, <2>6, GotoFacts, FetchFacts DEF Refresh, Steps, UnderWay
    <3>3. Asked' = Asked /\ Granted' = Granted
      BY <3>1, <3>2, MovedCall
    <3> QED
      BY <2>2, <3>1, <3>3
  <2>7. CASE FetchFails(r)
    <3>1. /\ req[r].pc \in UnderWay /\ UNCHANGED <<now, registry>>
          /\ Goto(r, "unavailable") /\ "unavailable" \in Steps
      BY <2>7 DEF FetchFails, At, UnderWay, Steps
    <3>2. Asked' \subseteq Asked /\ Granted' \subseteq Granted
      BY <1>0, <3>1, GotoFacts, MovedCall
    <3> QED
      BY <1>2, <3>1, <3>2
  <2> QED
    BY <1>0, <1>7, <2>1, <2>4, <2>5, <2>6, <2>7 DEF Verify
<1>8. CASE UNCHANGED vars
  BY <1>1, <1>8 DEF vars, registry, KeyWindow!vars, Asked, Granted, UnderWay
<1> QED
  BY <1>3, <1>4, <1>5, <1>6, <1>7, <1>8 DEF Next

\* keySnapshot implements the window of KeySetTTL over the registry: a key that left the
\* published set verifies nothing presented KeySetTTL later, however late an older
\* reading comes back and overwrites a newer one.
THEOREM SnapshotImplementsTheWindow == SnapshotLimits => (Spec => KeysAreRecent)
<1> SUFFICES ASSUME SnapshotLimits PROVE Spec => KeysAreRecent
  OBVIOUS
<1>1. Spec => []IInv
  BY SnapshotInvariant
<1>2. Init => KeyWindow!Init
  BY WindowInit
<1>3. IInv /\ [Next]_vars => [KeyWindow!Next]_KeyWindow!vars
  BY WindowNext
<1> QED
  BY <1>1, <1>2, <1>3, PTL DEF Spec, KeysAreRecent, KeyWindow!Spec
=============================================================================
