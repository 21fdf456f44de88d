-------------------------- MODULE MCPresentedToken --------------------------
(***************************************************************************)
(* What decides about a presented token, for TLC: the cut-offs of its      *)
(* owner, and the two copies the reader answers from.  The three share no  *)
(* variable and every property is about one of them, so a behaviour runs   *)
(* one of them, chosen at the start, and leaves the others as they began.  *)
(* The snapshot is instantiated with its proofs, for the theorems of       *)
(* PresentedTokenProofs; TLC does not look at those.                       *)
(***************************************************************************)
EXTENDS TokenRevocation

CONSTANTS
    Readers,            \* presentations served at one time
    PublishedKeys, KeySetTTL, ForcedInterval, MaxKeyNow,
    Tokens, VerdictTTL, MaxCached, MaxVerdictNow

VARIABLES
    part,               \* the part this behaviour runs
    keyNow, published, publishedAt, withdrawnAt, keys, keysTakenAt, lastForced,
    forcedFailed, keyReq,
    verdictNow, revoked, revokedAt, cache, verdictReq

snapshotVars == <<keyNow, published, publishedAt, withdrawnAt, keys, keysTakenAt,
                  lastForced, forcedFailed, keyReq>>
verdictVars == <<verdictNow, revoked, revokedAt, cache, verdictReq>>

Snapshot == INSTANCE KeySnapshotProofs WITH
    Keys <- PublishedKeys, Requests <- Readers, MaxNow <- MaxKeyNow,
    now <- keyNow, req <- keyReq

Verdicts == INSTANCE VerdictCache WITH
    Requests <- Readers, MaxNow <- MaxVerdictNow,
    now <- verdictNow, req <- verdictReq

ASSUME ReaderAssumption == Snapshot!SnapshotLimits /\ Verdicts!CacheLimits

PartsInit ==
    /\ part \in {"cut-offs", "snapshot", "verdicts"}
    /\ Init
    /\ Snapshot!Init /\ (part # "snapshot" => published = {})
    /\ Verdicts!Init
    /\ part # "cut-offs" => cred = CHOOSE f \in [Credentials -> {NoRow(o) : o \in Owners}] : TRUE

PartsNext ==
    \/ part = "cut-offs" /\ Next /\ UNCHANGED <<part, snapshotVars, verdictVars>>
    \/ part = "snapshot" /\ Snapshot!Next /\ UNCHANGED <<part, vars, verdictVars>>
    \/ part = "verdicts" /\ Verdicts!Next /\ UNCHANGED <<part, vars, snapshotVars>>

PartsSpec == PartsInit /\ [][PartsNext]_<<part, vars, snapshotVars, verdictVars>>

-----------------------------------------------------------------------------
\* A key that left the published set verifies nothing that is presented KeySetTTL
\* later: keySnapshot implements the staleness window of KeySetTTL.
KeysAreRecent == Snapshot!KeysAreRecent

\* A key published before its forced look-up is unknown only inside the interval of
\* another forced refresh (keySnapshot).
RotationIsSeen == Snapshot!RotationIsSeen

\* A token revoked VerdictTTL before it is presented is refused: the verdict cache
\* implements the staleness window of VerdictTTL.
VerdictsAreRecent == Verdicts!VerdictsAreRecent

\* The verdict cache stays within its limit (pruneLocked).
CacheIsBounded == Verdicts!CacheIsBounded
=============================================================================
