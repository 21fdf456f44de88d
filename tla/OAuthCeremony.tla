--------------------------- MODULE OAuthCeremony ----------------------------
(***************************************************************************)
(* One authorization code of the own OAuth ceremony, the family issued     *)
(* from it and the session it was issued in.                               *)
(*                                                                         *)
(* The foundation's engine (external) drives an exchange through the       *)
(* service's vaults: fetch what is presented, consume or rotate it, issue  *)
(* the access token, store the pair; rows that were fetched alive and are  *)
(* not touched by the conditional write are read as a simultaneous replay, *)
(* and a replay revokes the family.  The steps here are the statements of  *)
(* those transactions, with the row locks they keep until their end:       *)
(* statements of the READ COMMITTED level judge the rows as committed when *)
(* the lock is granted, and what a transaction wrote becomes visible when  *)
(* it commits.                                                             *)
(***************************************************************************)
EXTENDS Naturals, FiniteSets

CONSTANTS
    Requests,   \* concurrent calls of the token endpoint
    MaxGen      \* bound: generations of the refresh token

ASSUME GenerationsAssumption == MaxGen \in Nat

VARIABLES
    session,    \* the session row
    cut,        \* a cut-off of the person covers the session
    family,     \* the family row
    reason,     \* why the family was revoked
    code,       \* the authorization code's own mark
    codeExpired,
    refresh,    \* the refresh tokens' own marks, by generation
    expired,    \* generations past their time limit
    granting,   \* the transaction that issues the code holds the session
    ending,     \* the transaction that ends the session holds it
    pairs,      \* history: pairs answered to a presentation of the code
    req         \* calls in progress

vars == <<session, cut, family, reason, code, codeExpired, refresh, expired,
          granting, ending, pairs, req>>

Gens == 0 .. MaxGen
Idle == [phase |-> "idle", gen |-> 0]
Phases == {"idle", "fetched", "consumed", "recorded", "refetched", "reissued",
           "locked", "replay", "rereplay"}

FamilyLive == family = "live"

\* The generated column active: the row's own mark and the family's liveness.
CodeActive == code = "active" /\ FamilyLive
\* Mutant: only the family's liveness is judged.
RefreshActiveByFamily(g) == refresh[g] # "none" /\ FamilyLive

RefreshActive(g) == refresh[g] = "active" /\ FamilyLive

\* FOR KEY SHARE on the family, kept to the end of the transaction by an
\* exchange that consumed the code and by a rotation that locked its token.
\* Mutant: the consumption is committed at once and holds nothing.
RotationsHoldFamily == {r \in Requests : req[r].phase = "locked"}

FamilyHolders ==
    {r \in Requests : req[r].phase \in {"consumed", "recorded", "locked"}}

\* The row of the code, kept by the exchange that consumed it.
\* Mutant: the consumption does not keep the row.
CodeHoldersNone == {}

CodeHolders == {r \in Requests : req[r].phase \in {"consumed", "recorded"}}
RefreshHolders(g) ==
    {r \in Requests : req[r].phase = "locked" /\ req[r].gen = g}

\* The update of the family's key by an end of the session not yet committed.
FamilyLocked == ending = "swept live"

TypeOK ==
    /\ session \in {"live", "ended"}
    /\ cut \in BOOLEAN
    /\ family \in {"none", "live", "revoked"}
    /\ reason \in {"", "replay", "session-end"}
    /\ (reason # "" <=> family = "revoked")
    /\ code \in {"none", "active", "redeemed"}
    /\ codeExpired \in BOOLEAN
    /\ refresh \in [Gens -> {"none", "active", "rotated"}]
    /\ expired \subseteq Gens
    /\ granting \in BOOLEAN
    /\ ending \in {"no", "marked", "swept", "swept live"}
    /\ pairs \in Nat
    /\ req \in [Requests -> [phase : Phases, gen : Gens]]

Init ==
    /\ session = "live"
    /\ cut = FALSE
    /\ family = "none"
    /\ reason = ""
    /\ code = "none"
    /\ codeExpired = FALSE
    /\ refresh = [g \in Gens |-> "none"]
    /\ expired = {}
    /\ granting = FALSE
    /\ ending = "no"
    /\ pairs = 0
    /\ req = [r \in Requests |-> Idle]

Enter(r, phase) == req' = [req EXCEPT ![r] = [phase |-> phase, gen |-> @.gen]]
Leave(r) == req' = [req EXCEPT ![r] = Idle]

-----------------------------------------------------------------------------
(* The session and what ends it. *)

\* IssueAuthorizationCode: the session is locked FOR SHARE ...
\* Mutant: the session is not locked against its end.
GrantLockFree == code = "none" /\ ~granting

GrantLock == code = "none" /\ ~granting /\ ending = "no"

GrantBegin ==
    /\ GrantLock
    /\ granting' = TRUE
    /\ UNCHANGED <<session, cut, family, reason, code, codeExpired, refresh,
                   expired, ending, pairs, req>>

\* ... and the family and the code are inserted if the session is still live.
Grantable == session = "live" /\ ~cut

GrantCommit ==
    /\ granting
    /\ granting' = FALSE
    /\ IF Grantable
       THEN family' = "live" /\ code' = "active"
       ELSE UNCHANGED <<family, code>>
    /\ UNCHANGED <<session, cut, reason, codeExpired, refresh, expired, ending,
                   pairs, req>>

\* EndSession and the other ends: the row is marked, which waits for its share
\* holders, and then the families of the session are revoked.
EndBegin ==
    /\ session = "live" /\ ending = "no" /\ ~granting
    /\ ending' = "marked"
    /\ UNCHANGED <<session, cut, family, reason, code, codeExpired, refresh,
                   expired, granting, pairs, req>>

\* revokeFamiliesOfSessionsTx: a fresh snapshot, an update of the family's key
\* that waits for the holders of the family.
EndSweep ==
    /\ ending = "marked"
    /\ FamilyLive => FamilyHolders = {}
    /\ ending' = IF FamilyLive THEN "swept live" ELSE "swept"
    /\ UNCHANGED <<session, cut, family, reason, code, codeExpired, refresh,
                   expired, granting, pairs, req>>

EndCommit ==
    /\ ending \in {"swept", "swept live"}
    /\ ending' = "no"
    /\ session' = "ended"
    /\ IF FamilyLocked
       THEN family' = "revoked" /\ reason' = "session-end"
       ELSE UNCHANGED <<family, reason>>
    /\ UNCHANGED <<cut, code, codeExpired, refresh, expired, granting, pairs, req>>

\* A crash or a failed statement rolls these transactions back.
GrantAbort ==
    /\ granting /\ granting' = FALSE
    /\ UNCHANGED <<session, cut, family, reason, code, codeExpired, refresh,
                   expired, ending, pairs, req>>
EndAbort ==
    /\ ending # "no" /\ ending' = "no"
    /\ UNCHANGED <<session, cut, family, reason, code, codeExpired, refresh,
                   expired, granting, pairs, req>>

\* A cut-off that covers the session is committed; it locks none of these rows.
CutOff ==
    /\ ~cut /\ cut' = TRUE
    /\ UNCHANGED <<session, family, reason, code, codeExpired, refresh, expired,
                   granting, ending, pairs, req>>

ExpireCode ==
    /\ code # "none" /\ ~codeExpired
    /\ codeExpired' = TRUE
    /\ UNCHANGED <<session, cut, family, reason, code, refresh, expired,
                   granting, ending, pairs, req>>

ExpireRefresh(g) ==
    /\ refresh[g] # "none" /\ g \notin expired
    /\ expired' = expired \cup {g}
    /\ UNCHANGED <<session, cut, family, reason, code, codeExpired, refresh,
                   granting, ending, pairs, req>>

-----------------------------------------------------------------------------
(* Exchange of the code. *)

\* FetchAuthorizationCode: consumed, not live, or live.
FetchCode(r) ==
    /\ req[r] = Idle /\ code # "none"
    /\ IF code = "redeemed" THEN Enter(r, "replay")
       ELSE /\ CodeActive /\ ~codeExpired /\ ~cut
            /\ Enter(r, "fetched")
    /\ UNCHANGED <<session, cut, family, reason, code, codeExpired, refresh,
                   expired, granting, ending, pairs>>

\* adjudicatePresented of a row the conditional write did not touch: a cut-off is
\* told from a replay, and nothing else is.
\* Mutant: no reason is told from a replay.
CutOffToldNever(active) == FALSE

CutOffTold(active) == active /\ cut

\* consumeCodeTx: the conditional write.
Consumable == CodeActive /\ ~codeExpired /\ ~cut

ConsumeCode(r) ==
    /\ req[r].phase = "fetched"
    /\ CodeHolders = {} /\ ~FamilyLocked
    /\ IF Consumable THEN Enter(r, "consumed")
       ELSE IF CutOffTold(CodeActive) THEN Leave(r)
       ELSE Enter(r, "replay")
    /\ UNCHANGED <<session, cut, family, reason, code, codeExpired, refresh,
                   expired, granting, ending, pairs>>

\* IssueAccessToken in the request's transaction: the rule of issuance, the
\* signature and the record, which the family's key refuses when it is revoked.
IssueForCode(r) ==
    /\ req[r].phase = "consumed"
    /\ ~cut /\ FamilyLive
    /\ Enter(r, "recorded")
    /\ UNCHANGED <<session, cut, family, reason, code, codeExpired, refresh,
                   expired, granting, ending, pairs>>

\* StoreRefreshToken of the first generation and the only commit.
CommitPair(r) ==
    /\ req[r].phase = "recorded"
    /\ code' = "redeemed"
    /\ refresh' = [refresh EXCEPT ![0] = "active"]
    /\ pairs' = pairs + 1
    /\ Leave(r)
    /\ UNCHANGED <<session, cut, family, reason, codeExpired, expired, granting,
                   ending>>

\* The proof does not match, the rule refuses or a store call fails: settle keeps
\* the consumption past the refused issuance.
\* Mutant: the settlement is left to the unit of work, which may not have begun.
SettleRecorded(r) ==
    /\ req[r].phase = "recorded"
    /\ code' = "redeemed"
    /\ Leave(r)
    /\ UNCHANGED <<session, cut, family, reason, codeExpired, refresh, expired,
                   granting, ending, pairs>>

Settle(r) ==
    /\ req[r].phase \in {"consumed", "recorded"}
    /\ code' = "redeemed"
    /\ Leave(r)
    /\ UNCHANGED <<session, cut, family, reason, codeExpired, refresh, expired,
                   granting, ending, pairs>>

-----------------------------------------------------------------------------
(* Rotation of the refresh token. *)

FetchRefresh(r, g) ==
    /\ req[r] = Idle /\ FamilyLive
    /\ \/ /\ refresh[g] = "rotated"
          /\ req' = [req EXCEPT ![r] = [phase |-> "rereplay", gen |-> g]]
       \/ /\ refresh[g] = "active" /\ g \notin expired /\ ~cut
          /\ g < MaxGen
          /\ req' = [req EXCEPT ![r] = [phase |-> "refetched", gen |-> g]]
    /\ UNCHANGED <<session, cut, family, reason, code, codeExpired, refresh,
                   expired, granting, ending, pairs>>

\* IssueAccessToken with a transaction of its own, before the unit of work.
IssueForRefresh(r) ==
    /\ req[r].phase = "refetched"
    /\ ~FamilyLocked
    /\ IF ~cut /\ FamilyLive THEN Enter(r, "reissued") ELSE Leave(r)
    /\ UNCHANGED <<session, cut, family, reason, code, codeExpired, refresh,
                   expired, granting, ending, pairs>>

\* RotateRefreshToken: the family's lock, then the token's row with the condition.
RotateRefresh(r) ==
    LET g == req[r].gen IN
    /\ req[r].phase = "reissued"
    /\ RefreshHolders(g) = {} /\ ~FamilyLocked
    /\ IF RefreshActive(g) /\ g \notin expired /\ ~cut THEN Enter(r, "locked")
       ELSE IF CutOffTold(RefreshActive(g)) THEN Leave(r)
       ELSE Enter(r, "rereplay")
    /\ UNCHANGED <<session, cut, family, reason, code, codeExpired, refresh,
                   expired, granting, ending, pairs>>

\* StoreRefreshToken in a rotation: the token is wrapped, its successor inserted.
\* A cut-off committed after the lock refuses it here.  The term of the token is compared
\* again too, but with now(), the start of the same transaction, as under the lock: the
\* answer cannot have changed.
StoreSuccessor(r) ==
    LET g == req[r].gen IN
    /\ req[r].phase = "locked"
    /\ refresh' = IF RefreshActive(g) /\ ~cut
                  THEN [refresh EXCEPT ![g] = "rotated", ![g + 1] = "active"]
                  ELSE refresh
    /\ Leave(r)
    /\ UNCHANGED <<session, cut, family, reason, code, codeExpired, expired,
                   granting, ending, pairs>>

-----------------------------------------------------------------------------
\* The engine revokes the family of a replay: RevokeFamily, an update of the key
\* that waits for every holder of the family.
RevokeReplayed(r) ==
    /\ req[r].phase \in {"replay", "rereplay"}
    /\ ~FamilyLocked
    /\ FamilyLive => FamilyHolders = {}
    /\ IF FamilyLive
       THEN family' = "revoked" /\ reason' = "replay"
       ELSE UNCHANGED <<family, reason>>
    /\ Leave(r)
    /\ UNCHANGED <<session, cut, code, codeExpired, refresh, expired, granting,
                   ending, pairs>>

\* The call is refused before it holds anything, or its process stops and its
\* transaction is rolled back whole: the code it consumed is active again.
Abandon(r) ==
    /\ req[r] # Idle
    /\ Leave(r)
    /\ UNCHANGED <<session, cut, family, reason, code, codeExpired, refresh,
                   expired, granting, ending, pairs>>

Proceed(r) ==
    \/ ConsumeCode(r) \/ IssueForCode(r) \/ CommitPair(r) \/ Settle(r)
    \/ IssueForRefresh(r) \/ RotateRefresh(r) \/ StoreSuccessor(r)
    \/ RevokeReplayed(r)
Start(r) == FetchCode(r) \/ \E g \in Gens : FetchRefresh(r, g)

Next ==
    \/ GrantBegin \/ GrantCommit \/ GrantAbort
    \/ EndBegin \/ EndSweep \/ EndCommit \/ EndAbort
    \/ CutOff \/ ExpireCode
    \/ \E g \in Gens : ExpireRefresh(g)
    \/ \E r \in Requests : Start(r) \/ Proceed(r) \/ Abandon(r)

Spec == Init /\ [][Next]_vars

\* A started transaction runs on: the engine calls the next port, the statement
\* that waits for a row gets it in turn.
FairSpec ==
    /\ Spec
    /\ \A r \in Requests : SF_vars(Proceed(r))
    /\ WF_vars(GrantCommit) /\ SF_vars(EndSweep) /\ WF_vars(EndCommit)

-----------------------------------------------------------------------------
(* Properties. *)

\* A code yields one pair, however many calls present it at the same time and
\* whichever of them stop half way (oauth_ceremony_repo.go exchangeCodeSQL).
OnePairPerCode == pairs <= 1

\* A family has one refresh token that can be rotated
\* (oauth_ceremony_vaults.go RotateRefreshToken, StoreRefreshToken).
OneLiveGeneration == Cardinality({g \in Gens : RefreshActive(g)}) <= 1

\* Nothing issued in a session outlives its end: not the family a concurrent
\* issue of the code was inserting, nor what a concurrent exchange was storing
\* (oauth_ceremony_repo.go IssueAuthorizationCode, revokeFamiliesOfSessionsTx).
EndedSessionHoldsNothing == session = "ended" => ~FamilyLive

\* The exchange that consumed the code is not undone by those that come after
\* it: until it has committed its family stays alive, although every later
\* presentation wants it revoked (oauth_ceremony_vaults.go OpenRequest).
ConsumerIsServed == CodeHolders # {} => FamilyLive

\* What is called a replay was used, or belongs to a family revoked already: a
\* record that was cut off or whose session ended while the call was under way does
\* not cost the person the whole family (oauth_ceremony_repo.go
\* adjudicatePresented).  A record past its time limit is exempt: the code does not
\* tell it from a used one.
ReplayIsOfTheUsed ==
    \A r \in Requests :
        FamilyLive =>
            /\ req[r].phase = "replay" => code = "redeemed" \/ codeExpired
            /\ req[r].phase = "rereplay" =>
                 refresh[req[r].gen] = "rotated" \/ req[r].gen \in expired

\* No call and no end of a session waits forever for rows the others hold.
NobodyWaitsForever ==
    /\ \A r \in Requests : req[r] # Idle ~> req[r] = Idle
    /\ ending # "no" ~> ending = "no"
=============================================================================
