------------------------ MODULE SigningKeysProofs ------------------------
(***************************************************************************)
(* Proofs about SigningKeys, for any number of keys, replicas, operators   *)
(* and signing calls and any limits that satisfy KeystoreAssumption.       *)
(*                                                                         *)
(* The invariant says of every process what its local variables promise    *)
(* about the table they were read from earlier, however the table moved    *)
(* since.  KeyMove names the moves a row can make; what a process remembers *)
(* is shown to survive every one of them.                                  *)
(***************************************************************************)
EXTENDS SigningKeys, TLAPS

\* A key waiting for its hand-over is no older than the hand-over's context.
YoungHandover(p) ==
    pc[p] = "handover" =>
        /\ new[p] \in Keys
        /\ state[new[p]] # "NONE"
        /\ state[new[p]] = "PUBLISHED" => age[new[p]] <= held[p]

NamedKeys(p) ==
    /\ pc[p] = "abandon" => new[p] \in Keys
    /\ pc[p] = "retire" => old[p] \in Keys

\* What a sweep remembers stays true of the rows that have not moved on.
StrandedAreOld(p) ==
    \A k \in strand[p] :
        /\ state[k] # "NONE"
        /\ state[k] = "PUBLISHED" => age[k] + Skew >= StrandedAfter

ExpiredAreOld(p) ==
    \A k \in expired[p] :
        /\ state[k] \in {"RETIRED", "REMOVED", "COMPROMISED"}
        /\ state[k] = "RETIRED" => age[k] + Skew >= RemovalGrace

RotationIsDue(p) ==
    pc[p] \in {"generate", "handover"} /\ why[p] = "pass" =>
        /\ old[p] \in Keys
        /\ state[old[p]] \notin {"NONE", "PUBLISHED"}
        /\ state[old[p]] = "ACTIVE" => Due(old[p], Skew)

ProcInv(p) ==
    /\ YoungHandover(p)
    /\ NamedKeys(p)
    /\ StrandedAreOld(p)
    /\ ExpiredAreOld(p)
    /\ RotationIsDue(p)

Verifiable(k) == state[k] \in {"ACTIVE", "RETIRED", "COMPROMISED"}

\* A key held by a signing call was retired no longer ago than the call lasts.
HoldersAreFresh ==
    \A c \in Issuers : holds[c] # NoKey =>
        /\ Verifiable(holds[c])
        /\ state[holds[c]] = "RETIRED" => age[holds[c]] <= HandoverLimit + wait[c]

\* What is left of a token's life and the age of its key's retirement add up to
\* less than the removal grace.
LifeIsCovered ==
    \A k \in Keys : life[k] > 0 =>
        /\ Verifiable(k)
        /\ state[k] = "RETIRED" => age[k] + life[k] <= HandoverLimit + IssueLimit + MaxTokenTTL

IInv ==
    /\ TypeOK
    /\ OneSigner
    /\ \A p \in Procs : ProcInv(p)
    /\ HoldersAreFresh
    /\ LifeIsCovered

-----------------------------------------------------------------------------
(* What a statement does to the rows. *)

KeyStates == {"NONE", "PUBLISHED", "ACTIVE", "RETIRED", "REMOVED", "COMPROMISED"}

\* The moves a row can make while no time passes.
KeyMove(x) ==
    \/ state'[x] = state[x] /\ age'[x] = age[x]
    \/ state[x] = "NONE" /\ state'[x] = "PUBLISHED"
    \/ state[x] = "PUBLISHED" /\ state'[x] = "ACTIVE" /\ age'[x] = age[x]
    \/ state[x] = "PUBLISHED" /\ state'[x] = "RETIRED"
    \/ /\ state[x] = "ACTIVE" /\ state'[x] = "RETIRED"
       /\ age'[x] <= HandoverLimit
       /\ \E y \in Keys : state'[y] = "ACTIVE"
    \/ state[x] = "RETIRED" /\ state'[x] = "REMOVED" /\ age[x] + Skew >= RemovalGrace
    \/ state[x] # "NONE" /\ state'[x] = "COMPROMISED"

KeyTypes ==
    /\ state \in [Keys -> KeyStates]
    /\ age \in [Keys -> 0 .. AgeCap]

\* The signers after a step are among those before it, or one alone.
SignersMove == Signers' \subseteq Signers \/ \E k \in Keys : Signers' = {k}

KeysMoved ==
    /\ KeyTypes'
    /\ \A x \in Keys : KeyMove(x)
    /\ SignersMove

\* The arithmetic of the limits, as the proofs use it.
LEMMA Limits ==
    /\ HandoverLimit \in Nat /\ StrandedAfter \in Nat /\ RemovalGrace \in Nat
    /\ MaxTokenTTL \in Nat /\ MaxTokenTTL > 0 /\ IssueLimit \in Nat /\ Skew \in Nat
    /\ KeyLifetime \in Nat /\ RotationLead \in Nat /\ AgeCap \in Nat
    /\ HandoverLimit <= AgeCap
    /\ HandoverLimit + Skew < StrandedAfter
    /\ MaxTokenTTL + IssueLimit + HandoverLimit + Skew <= RemovalGrace
    /\ StrandedAfter <= AgeCap /\ RemovalGrace <= AgeCap /\ KeyLifetime <= AgeCap
    /\ NoKey \notin Keys
    /\ KeyLifetime - RotationLead <= KeyLifetime
    /\ KeyLifetime - RotationLead \in Nat
  BY KeystoreAssumption

\* A step that leaves the table alone moves no row.
LEMMA StillMoves ==
    ASSUME KeyTypes, UNCHANGED keyVars
    PROVE KeysMoved
  <1>1. state' = state /\ age' = age
    BY DEF keyVars
  <1>2. Signers' = Signers
    BY <1>1 DEF Signers
  <1> QED
    BY <1>1, <1>2 DEF KeysMoved, KeyTypes, KeyMove, SignersMove

\* Activate demotes whoever signs and leaves k as the only signer.
LEMMA ActivateMoves ==
    ASSUME KeyTypes, NEW k \in Keys, NEW lag \in 0 .. HandoverLimit, Activate(k, lag)
    PROVE KeysMoved
  <1>1. state[k] = "PUBLISHED"
    BY DEF Activate
  <1>2. state' = [x \in Keys |-> IF x = k THEN "ACTIVE"
                                 ELSE IF x \in Signers THEN "RETIRED" ELSE state[x]]
    BY DEF Activate, HandOver
  <1>3. age' = [x \in Keys |-> IF x \in Signers THEN lag ELSE age[x]]
    BY DEF Activate, HandOver
  <1>4. KeyTypes'
    BY <1>2, <1>3, Limits DEF KeyTypes, KeyStates
  <1>5. state'[k] = "ACTIVE"
    BY <1>2
  <1>6. ASSUME NEW x \in Keys PROVE KeyMove(x)
    BY <1>1, <1>2, <1>3, <1>5, Limits DEF KeyMove, Signers, KeyTypes
  <1>7. Signers' = {k}
    BY <1>2 DEF Signers, KeyTypes
  <1> QED
    BY <1>4, <1>6, <1>7 DEF KeysMoved, SignersMove

\* ReplaceActive takes the signing from the one key that has it.
LEMMA ReplaceMoves ==
    ASSUME KeyTypes, OneSigner, NEW next \in Keys, NEW expected,
           NEW lag \in 0 .. HandoverLimit, ReplaceActive(next, expected, lag)
    PROVE KeysMoved
  <1>1. state[next] = "PUBLISHED" /\ Signers = {expected}
    BY DEF ReplaceActive, OneSigner, Signers
  <1>2. Activate(next, lag)
    BY <1>1 DEF ReplaceActive, Activate
  <1> QED
    BY <1>2, ActivateMoves

\* Retire moves a published key only.
LEMMA RetireMoves ==
    ASSUME KeyTypes, NEW k \in Keys, Retire(k)
    PROVE KeysMoved
  <1>1. /\ state' = [state EXCEPT ![k] = IF @ = "PUBLISHED" THEN "RETIRED" ELSE @]
        /\ age' = [age EXCEPT ![k] = IF state[k] = "PUBLISHED" THEN 0 ELSE @]
    BY DEF Retire
  <1>2. KeyTypes'
    BY <1>1, Limits DEF KeyTypes, KeyStates
  <1>3. ASSUME NEW x \in Keys PROVE KeyMove(x)
    BY <1>1, Limits DEF KeyMove, KeyTypes
  <1>4. Signers' \subseteq Signers
    BY <1>1 DEF Signers, KeyTypes
  <1> QED
    BY <1>2, <1>3, <1>4 DEF KeysMoved, SignersMove

\* Remove moves a retired key only, and the sweep calls it past the grace.
LEMMA RemoveMoves ==
    ASSUME KeyTypes, NEW k \in Keys, Remove(k),
           state[k] = "RETIRED" => age[k] + Skew >= RemovalGrace
    PROVE KeysMoved
  <1>1. /\ state' = [state EXCEPT ![k] = IF @ = "RETIRED" THEN "REMOVED" ELSE @]
        /\ age' = [age EXCEPT ![k] = IF state[k] = "RETIRED" THEN 0 ELSE @]
    BY DEF Remove
  <1>2. KeyTypes'
    BY <1>1, Limits DEF KeyTypes, KeyStates
  <1>3. ASSUME NEW x \in Keys PROVE KeyMove(x)
    BY <1>1, Limits DEF KeyMove, KeyTypes
  <1>4. Signers' \subseteq Signers
    BY <1>1 DEF Signers, KeyTypes
  <1> QED
    BY <1>2, <1>3, <1>4 DEF KeysMoved, SignersMove

\* Compromise takes a key out of any state it was generated into.
LEMMA CompromiseMoves ==
    ASSUME KeyTypes, NEW k \in Keys, Compromise(k), state[k] # "NONE"
    PROVE KeysMoved
  <1>1. /\ state' = [state EXCEPT ![k] = "COMPROMISED"]
        /\ age' = [age EXCEPT ![k] = 0]
    BY DEF Compromise
  <1>2. KeyTypes'
    BY <1>1, Limits DEF KeyTypes, KeyStates
  <1>3. ASSUME NEW x \in Keys PROVE KeyMove(x)
    BY <1>1, Limits DEF KeyMove, KeyTypes
  <1>4. Signers' \subseteq Signers
    BY <1>1 DEF Signers, KeyTypes
  <1> QED
    BY <1>2, <1>3, <1>4 DEF KeysMoved, SignersMove

\* A generated key is published and signs nothing.
LEMMA GenerateMoves ==
    ASSUME KeyTypes, NEW k \in Keys, NEW lag \in 0 .. HandoverLimit, state[k] = "NONE",
           state' = [state EXCEPT ![k] = "PUBLISHED"], age' = [age EXCEPT ![k] = lag]
    PROVE KeysMoved
  <1>2. KeyTypes'
    BY Limits DEF KeyTypes, KeyStates
  <1>3. ASSUME NEW x \in Keys PROVE KeyMove(x)
    BY Limits DEF KeyMove, KeyTypes
  <1>4. Signers' \subseteq Signers
    BY DEF Signers, KeyTypes
  <1> QED
    BY <1>2, <1>3, <1>4 DEF KeysMoved, SignersMove

-----------------------------------------------------------------------------
(* What a process remembers survives the moves of the rows. *)

HandoverTypes ==
    /\ pc \in [Procs -> Places]
    /\ why \in [Procs -> {"none", "boot", "pass", "retire", "compromise"}]
    /\ old \in [Procs -> Keys \cup {NoKey}]
    /\ new \in [Procs -> Keys \cup {NoKey}]
    /\ held \in [Procs -> 0 .. HandoverLimit]

SweepTypes ==
    /\ strand \in [Procs -> SUBSET Keys]
    /\ expired \in [Procs -> SUBSET Keys]

IssueTypes ==
    /\ life \in [Keys -> 0 .. MaxTokenTTL]
    /\ holds \in [Issuers -> Keys \cup {NoKey}]
    /\ wait \in [Issuers -> 0 .. IssueLimit]

HandoverFrame(p) ==
    \A q \in Procs \ {p} :
        /\ pc'[q] = pc[q] /\ why'[q] = why[q] /\ old'[q] = old[q]
        /\ new'[q] = new[q] /\ held'[q] = held[q]

SweepFrame(p) ==
    \A q \in Procs \ {p} : strand'[q] = strand[q] /\ expired'[q] = expired[q]

\* What a step of process p achieves.
ProcMoved(p) ==
    /\ KeysMoved
    /\ HandoverTypes' /\ HandoverFrame(p)
    /\ SweepTypes' /\ SweepFrame(p)
    /\ ProcInv(p)'
    /\ UNCHANGED issueVars

\* The type invariant is the conjunction of its four parts.
LEMMA TypeParts == TypeOK <=> KeyTypes /\ HandoverTypes /\ SweepTypes /\ IssueTypes
  BY DEF TypeOK, KeyTypes, KeyStates, HandoverTypes, SweepTypes, IssueTypes

\* A key that was found stranded, or expired, is so until it moves on.
LEMMA SweepKept ==
    ASSUME KeyTypes, SweepTypes, KeysMoved, NEW p \in Procs,
           StrandedAreOld(p), ExpiredAreOld(p),
           strand'[p] \subseteq strand[p], expired'[p] \subseteq expired[p]
    PROVE StrandedAreOld(p)' /\ ExpiredAreOld(p)'
  <1>1. strand[p] \subseteq Keys /\ expired[p] \subseteq Keys
    BY DEF SweepTypes
  <1>2. StrandedAreOld(p)'
    BY <1>1 DEF StrandedAreOld, KeysMoved, KeyMove
  <1>3. ExpiredAreOld(p)'
    BY <1>1 DEF ExpiredAreOld, KeysMoved, KeyMove
  <1> QED
    BY <1>2, <1>3

\* A signer found due is due until it stops signing.
LEMMA DueKept ==
    ASSUME KeysMoved, NEW k \in Keys, state[k] \notin {"NONE", "PUBLISHED"},
           state[k] = "ACTIVE" => Due(k, Skew)
    PROVE /\ state'[k] \notin {"NONE", "PUBLISHED"}
          /\ state'[k] = "ACTIVE" => Due(k, Skew)'
  BY DEF KeysMoved, KeyMove, Due

\* A process that has nothing in hand keeps its part of the invariant.
LEMMA Resting ==
    ASSUME KeyTypes, SweepTypes, KeysMoved, NEW p \in Procs, ProcInv(p),
           pc'[p] \notin {"generate", "handover", "abandon", "retire"},
           strand'[p] \subseteq strand[p], expired'[p] \subseteq expired[p]
    PROVE ProcInv(p)'
  <1>1. StrandedAreOld(p)' /\ ExpiredAreOld(p)'
    BY SweepKept DEF ProcInv
  <1>2. YoungHandover(p)' /\ NamedKeys(p)' /\ RotationIsDue(p)'
    BY DEF YoungHandover, NamedKeys, RotationIsDue
  <1> QED
    BY <1>1, <1>2 DEF ProcInv

\* A process that does not move keeps its part of the invariant.
LEMMA OthersKept ==
    ASSUME KeyTypes, SweepTypes, KeysMoved, NEW p \in Procs, ProcInv(p),
           pc'[p] = pc[p], why'[p] = why[p], old'[p] = old[p], new'[p] = new[p],
           held'[p] = held[p], strand'[p] = strand[p], expired'[p] = expired[p]
    PROVE ProcInv(p)'
  <1>1. StrandedAreOld(p)' /\ ExpiredAreOld(p)'
    BY SweepKept DEF ProcInv
  <1>2. YoungHandover(p)'
    BY DEF ProcInv, YoungHandover, KeysMoved, KeyMove
  <1>3. NamedKeys(p)'
    BY DEF ProcInv, NamedKeys
  <1>4. RotationIsDue(p)'
    BY DueKept DEF ProcInv, RotationIsDue
  <1> QED
    BY <1>1, <1>2, <1>3, <1>4 DEF ProcInv

\* End clears what the hand-over kept.
LEMMA EndMoves ==
    ASSUME HandoverTypes, NEW p \in Procs, NEW landed \in BOOLEAN, End(p, landed)
    PROVE /\ HandoverTypes' /\ HandoverFrame(p)
          /\ pc'[p] \in {"down", "idle", "keyset"}
  <1>1. After(p, landed) \in {"down", "idle", "keyset"}
    BY DEF After
  <1>2. HandoverTypes'
    BY <1>1, Limits DEF HandoverTypes, End, Places
  <1>3. HandoverFrame(p)
    BY DEF HandoverTypes, End, HandoverFrame
  <1>4. pc'[p] = After(p, landed)
    BY DEF HandoverTypes, End
  <1> QED
    BY <1>1, <1>2, <1>3, <1>4

\* Goto moves the process and nothing it keeps.
LEMMA GotoMoves ==
    ASSUME HandoverTypes, NEW p \in Procs, NEW place \in Places, Goto(p, place)
    PROVE /\ HandoverTypes' /\ HandoverFrame(p) /\ pc'[p] = place
          /\ why' = why /\ old' = old /\ new' = new /\ held' = held
  BY DEF HandoverTypes, Goto, HandoverFrame, handoverVars

\* Begin opens a hand-over with nothing generated yet.
LEMMA BeginMoves ==
    ASSUME HandoverTypes, NEW p \in Procs, NEW reason \in {"boot", "pass", "retire", "compromise"},
           NEW target \in Keys \cup {NoKey}, Begin(p, reason, target)
    PROVE /\ HandoverTypes' /\ HandoverFrame(p)
          /\ pc'[p] = "generate" /\ why'[p] = reason /\ old'[p] = target
  BY Limits DEF HandoverTypes, Begin, HandoverFrame, Places

\* A hand-over begins for a signer that is due, or for another reason.
LEMMA BeginKept ==
    ASSUME KeyTypes, HandoverTypes, SweepTypes, NEW p \in Procs, ProcInv(p),
           NEW reason \in {"boot", "pass", "retire", "compromise"},
           NEW target \in Keys \cup {NoKey},
           reason = "pass" => target \in Keys /\ state[target] = "ACTIVE" /\ Due(target, Skew),
           Begin(p, reason, target), UNCHANGED <<keyVars, sweepVars, issueVars>>
    PROVE ProcMoved(p)
  <1>1. KeysMoved
    BY StillMoves
  <1>2. /\ HandoverTypes' /\ HandoverFrame(p)
        /\ pc'[p] = "generate" /\ why'[p] = reason /\ old'[p] = target
    BY BeginMoves
  <1>3. strand' = strand /\ expired' = expired /\ state' = state /\ age' = age
    BY DEF sweepVars, keyVars
  <1>4. SweepTypes' /\ SweepFrame(p)
    BY <1>3 DEF SweepTypes, SweepFrame
  <1>5. StrandedAreOld(p)' /\ ExpiredAreOld(p)'
    BY <1>1, <1>3, SweepKept DEF ProcInv
  <1>6. YoungHandover(p)' /\ NamedKeys(p)'
    BY <1>2 DEF YoungHandover, NamedKeys
  <1>7. RotationIsDue(p)'
    BY <1>2, <1>3 DEF RotationIsDue, Due
  <1> QED
    BY <1>1, <1>2, <1>4, <1>5, <1>6, <1>7 DEF ProcMoved, ProcInv

\* A process that puts down what it had in hand, whatever the rows did.
LEMMA RestKept ==
    ASSUME KeyTypes, SweepTypes, KeysMoved, NEW p \in Procs, ProcInv(p),
           HandoverTypes', HandoverFrame(p),
           pc'[p] \notin {"generate", "handover", "abandon", "retire"},
           UNCHANGED <<sweepVars, issueVars>>
    PROVE ProcMoved(p)
  <1>1. strand' = strand /\ expired' = expired
    BY DEF sweepVars
  <1>2. SweepTypes' /\ SweepFrame(p)
    BY <1>1 DEF SweepTypes, SweepFrame
  <1>3. ProcInv(p)'
    BY <1>1, Resting
  <1> QED
    BY <1>2, <1>3 DEF ProcMoved

\* A hand-over that is to be abandoned keeps the key it generated.
LEMMA AbandonKept ==
    ASSUME KeyTypes, HandoverTypes, SweepTypes, KeysMoved, NEW p \in Procs, ProcInv(p),
           pc[p] = "handover", Goto(p, "abandon"), UNCHANGED <<sweepVars, issueVars>>
    PROVE ProcMoved(p)
  <1>1. strand' = strand /\ expired' = expired
    BY DEF sweepVars
  <1>2. SweepTypes' /\ SweepFrame(p)
    BY <1>1 DEF SweepTypes, SweepFrame
  <1>3. "abandon" \in Places
    BY DEF Places
  <1>4. HandoverTypes' /\ HandoverFrame(p) /\ pc'[p] = "abandon" /\ new' = new
    BY <1>3, GotoMoves
  <1>5. StrandedAreOld(p)' /\ ExpiredAreOld(p)'
    BY <1>1, SweepKept DEF ProcInv
  <1>6. YoungHandover(p)' /\ NamedKeys(p)' /\ RotationIsDue(p)'
    BY <1>4 DEF ProcInv, YoungHandover, NamedKeys, RotationIsDue
  <1> QED
    BY <1>2, <1>4, <1>5, <1>6 DEF ProcMoved, ProcInv

-----------------------------------------------------------------------------
(* One lemma per group of actions of a process. *)

\* Generating a key, handing over to it, abandoning it.
LEMMA HandoverStepMoves ==
    ASSUME IInv, NEW p \in Procs, HandoverStep(p)
    PROVE ProcMoved(p)
  <1> USE TypeParts DEF IInv
  <1>t. KeyTypes /\ HandoverTypes /\ SweepTypes /\ ProcInv(p)
    OBVIOUS
  <1>h. held[p] \in 0 .. HandoverLimit
    BY <1>t DEF HandoverTypes
  <1>1. CASE Generate(p)
    <2>1. PICK k \in Keys, lag \in 0 .. held[p] :
            /\ state[k] = "NONE"
            /\ state' = [state EXCEPT ![k] = "PUBLISHED"]
            /\ age' = [age EXCEPT ![k] = lag]
            /\ \/ /\ new' = [new EXCEPT ![p] = k]
                  /\ pc' = [pc EXCEPT ![p] = "handover"]
                  /\ UNCHANGED <<why, old, held>>
               \/ End(p, FALSE)
      BY <1>1 DEF Generate
    <2>2. pc[p] = "generate" /\ UNCHANGED <<sweepVars, issueVars>>
      BY <1>1 DEF Generate
    <2>3. lag \in 0 .. HandoverLimit
      BY <1>h, Limits
    <2>4. KeysMoved
      BY <1>t, <2>1, <2>3, GenerateMoves
    <2>5. CASE End(p, FALSE)
      <3>1. HandoverTypes' /\ HandoverFrame(p) /\ pc'[p] \in {"down", "idle", "keyset"}
        BY <1>t, <2>5, EndMoves
      <3> QED
        BY <1>t, <2>2, <2>4, <3>1, RestKept
    <2>6. CASE /\ new' = [new EXCEPT ![p] = k]
               /\ pc' = [pc EXCEPT ![p] = "handover"]
               /\ UNCHANGED <<why, old, held>>
      <3>1. HandoverTypes'
        BY <1>t, <2>6 DEF HandoverTypes, Places
      <3>2. HandoverFrame(p)
        BY <1>t, <2>6 DEF HandoverTypes, HandoverFrame
      <3>3. pc'[p] = "handover" /\ new'[p] = k /\ held'[p] = held[p] /\ why'[p] = why[p] /\ old'[p] = old[p]
        BY <1>t, <2>6 DEF HandoverTypes
      <3>4. state'[k] = "PUBLISHED" /\ age'[k] = lag
        BY <1>t, <2>1 DEF KeyTypes
      <3>5. YoungHandover(p)'
        BY <3>3, <3>4, <1>h DEF YoungHandover
      <3>6. NamedKeys(p)'
        BY <3>3 DEF NamedKeys
      <3>7. RotationIsDue(p)'
        BY <1>t, <2>2, <2>4, <3>3, DueKept DEF ProcInv, RotationIsDue
      <3>8. strand' = strand /\ expired' = expired
        BY <2>2 DEF sweepVars
      <3>9. SweepTypes' /\ SweepFrame(p)
        BY <1>t, <3>8 DEF SweepTypes, SweepFrame
      <3>10. StrandedAreOld(p)' /\ ExpiredAreOld(p)'
        BY <1>t, <2>4, <3>8, SweepKept DEF ProcInv
      <3> QED
        BY <2>2, <2>4, <3>1, <3>2, <3>5, <3>6, <3>7, <3>9, <3>10 DEF ProcMoved, ProcInv
    <2> QED
      BY <2>1, <2>5, <2>6
  <1>2. CASE GenerateFails(p)
    <2>1. End(p, FALSE) /\ UNCHANGED <<keyVars, sweepVars, issueVars>>
      BY <1>2 DEF GenerateFails
    <2>2. HandoverTypes' /\ HandoverFrame(p) /\ pc'[p] \in {"down", "idle", "keyset"}
      BY <1>t, <2>1, EndMoves
    <2>3. KeysMoved
      BY <1>t, <2>1, StillMoves
    <2> QED
      BY <1>t, <2>1, <2>2, <2>3, RestKept
  <1>3. CASE HandoverLands(p)
    <2>1. PICK lag \in 0 .. held[p] : Lands(p, lag)
      BY <1>3 DEF HandoverLands
    <2>2. pc[p] = "handover" /\ UNCHANGED <<sweepVars, issueVars>>
      BY <1>3 DEF HandoverLands
    <2>3. new[p] \in Keys
      BY <1>t, <2>2 DEF ProcInv, YoungHandover
    <2>4. lag \in 0 .. HandoverLimit
      BY <1>h, Limits
    <2>5. KeysMoved
      <3>1. CASE why[p] \in {"boot", "compromise"}
        BY <1>t, <2>1, <2>3, <2>4, <3>1, ActivateMoves DEF Lands
      <3>2. CASE why[p] \notin {"boot", "compromise"}
        BY <1>t, <2>1, <2>3, <2>4, <3>2, ReplaceMoves DEF Lands
      <3> QED
        BY <3>1, <3>2
    <2>6. CASE End(p, TRUE)
      <3>1. HandoverTypes' /\ HandoverFrame(p) /\ pc'[p] \in {"down", "idle", "keyset"}
        BY <1>t, <2>6, EndMoves
      <3> QED
        BY <1>t, <2>2, <2>5, <3>1, RestKept
    <2>7. CASE Goto(p, "abandon")
      BY <1>t, <2>2, <2>5, <2>7, AbandonKept
    <2> QED
      BY <1>3, <2>6, <2>7 DEF HandoverLands
  <1>4. CASE HandoverFails(p)
    <2>1. pc[p] = "handover" /\ Goto(p, "abandon") /\ UNCHANGED <<keyVars, sweepVars, issueVars>>
      BY <1>4 DEF HandoverFails
    <2>2. KeysMoved
      BY <1>t, <2>1, StillMoves
    <2> QED
      BY <1>t, <2>1, <2>2, AbandonKept
  <1>5. CASE Abandon(p)
    <2>1. pc[p] = "abandon" /\ End(p, FALSE) /\ UNCHANGED <<sweepVars, issueVars>>
      BY <1>5 DEF Abandon
    <2>2. new[p] \in Keys
      BY <1>t, <2>1 DEF ProcInv, NamedKeys
    <2>3. KeysMoved
      BY <1>t, <1>5, <2>2, RetireMoves, StillMoves DEF Abandon
    <2>4. HandoverTypes' /\ HandoverFrame(p) /\ pc'[p] \in {"down", "idle", "keyset"}
      BY <1>t, <2>1, EndMoves
    <2> QED
      BY <1>t, <2>1, <2>3, <2>4, RestKept
  <1> QED
    BY <1>1, <1>2, <1>3, <1>4, <1>5 DEF HandoverStep

\* A process that only goes somewhere.
LEMMA GotoKept ==
    ASSUME KeyTypes, HandoverTypes, SweepTypes, NEW p \in Procs, ProcInv(p),
           NEW place \in {"down", "ensure", "idle", "keyset", "sweep", "signer"},
           Goto(p, place), KeysMoved, UNCHANGED <<sweepVars, issueVars>>
    PROVE ProcMoved(p)
  <1>1. place \in Places
    BY DEF Places
  <1>2. HandoverTypes' /\ HandoverFrame(p) /\ pc'[p] = place
    BY <1>1, GotoMoves
  <1> QED
    BY <1>2, RestKept

\* Working through the set that was read: the rows left are the rows read.
LEMMA SweptKept ==
    ASSUME KeyTypes, HandoverTypes, SweepTypes, NEW p \in Procs, ProcInv(p),
           NEW k \in Keys, Swept(p, k), KeysMoved
    PROVE ProcMoved(p)
  <1>1. PICK place \in {"idle", "sweep"} : Goto(p, place)
    BY DEF Swept
  <1>2. place \in Places
    BY DEF Places
  <1>3. HandoverTypes' /\ HandoverFrame(p) /\ pc'[p] = place
    BY <1>1, <1>2, GotoMoves
  <1>4. SweepTypes' /\ SweepFrame(p)
    BY DEF Swept, SweepTypes, SweepFrame
  <1>5. strand'[p] \subseteq strand[p] /\ expired'[p] \subseteq expired[p]
    BY DEF Swept, SweepTypes
  <1>6. ProcInv(p)'
    BY <1>3, <1>5, Resting
  <1> QED
    BY <1>3, <1>4, <1>6 DEF ProcMoved, Swept

\* The start and the maintenance passes of a replica.
LEMMA ReplicaStepMoves ==
    ASSUME IInv, NEW p \in Procs, ReplicaStep(p)
    PROVE ProcMoved(p)
  <1> USE TypeParts DEF IInv
  <1>t. KeyTypes /\ HandoverTypes /\ SweepTypes /\ ProcInv(p)
    OBVIOUS
  <1>1. CASE Boot(p)
    BY <1>t, <1>1, GotoKept, StillMoves DEF Boot
  <1>2. CASE EnsureFindsSigner(p)
    BY <1>t, <1>2, GotoKept, StillMoves DEF EnsureFindsSigner
  <1>3. CASE EnsureRotates(p)
    <2>1. Begin(p, "boot", NoKey) /\ UNCHANGED <<keyVars, sweepVars, issueVars>>
      BY <1>3 DEF EnsureRotates
    <2> QED
      BY <1>t, <2>1, BeginKept
  <1>4. CASE RotateIfDue(p)
    <2>1. PICK k \in Signers, d \in 0 .. Skew : Due(k, d) /\ Begin(p, "pass", k)
      BY <1>4 DEF RotateIfDue
    <2>2. k \in Keys /\ state[k] = "ACTIVE"
      BY DEF Signers
    <2>3. Due(k, Skew)
      BY <1>t, <2>1, <2>2, Limits DEF Due, KeyTypes
    <2>4. UNCHANGED <<keyVars, sweepVars, issueVars>>
      BY <1>4 DEF RotateIfDue
    <2> QED
      BY <1>t, <2>1, <2>2, <2>3, <2>4, BeginKept
  <1>5. CASE NothingToRotate(p)
    BY <1>t, <1>5, GotoKept, StillMoves DEF NothingToRotate
  <1>6. CASE SweepRemovable(p)
    <2>1. PICK d \in 0 .. Skew :
            /\ strand' = [strand EXCEPT ![p] = Stranded(d)]
            /\ expired' = [expired EXCEPT ![p] = Expired(d)]
            /\ Goto(p, IF Stranded(d) \cup Expired(d) = {} THEN "idle" ELSE "sweep")
      BY <1>6 DEF SweepRemovable
    <2>2. UNCHANGED keyVars /\ UNCHANGED issueVars
      BY <1>6 DEF SweepRemovable
    <2>3. KeysMoved
      BY <1>t, <2>2, StillMoves
    <2>4. PICK place \in {"idle", "sweep"} : Goto(p, place)
      BY <2>1
    <2>5. HandoverTypes' /\ HandoverFrame(p) /\ pc'[p] = place
      BY <1>t, <2>4, GotoMoves DEF Places
    <2>6. Stranded(d) \subseteq Keys /\ Expired(d) \subseteq Keys
      BY DEF Stranded, Expired
    <2>7. SweepTypes' /\ SweepFrame(p)
      BY <1>t, <2>1, <2>6 DEF SweepTypes, SweepFrame
    <2>8. strand'[p] = Stranded(d) /\ expired'[p] = Expired(d) /\ state' = state /\ age' = age
      BY <1>t, <2>1, <2>2 DEF SweepTypes, keyVars
    <2>9. StrandedAreOld(p)' /\ ExpiredAreOld(p)'
      BY <1>t, <2>8, Limits DEF StrandedAreOld, ExpiredAreOld, Stranded, Expired, KeyTypes
    <2>10. YoungHandover(p)' /\ NamedKeys(p)' /\ RotationIsDue(p)'
      BY <2>5 DEF YoungHandover, NamedKeys, RotationIsDue
    <2> QED
      BY <2>2, <2>3, <2>5, <2>7, <2>9, <2>10 DEF ProcMoved, ProcInv
  <1>7. CASE SweepRefused(p)
    <2>1. Goto(p, "idle") /\ UNCHANGED keyVars /\ UNCHANGED issueVars
      BY <1>7 DEF SweepRefused
    <2>2. KeysMoved
      BY <1>t, <2>1, StillMoves
    <2>3. HandoverTypes' /\ HandoverFrame(p) /\ pc'[p] = "idle"
      BY <1>t, <2>1, GotoMoves DEF Places
    <2>4. SweepTypes' /\ SweepFrame(p) /\ strand'[p] = {} /\ expired'[p] = {}
      BY <1>t, <1>7 DEF SweepRefused, SweepTypes, SweepFrame
    <2>5. ProcInv(p)'
      BY <1>t, <2>2, <2>3, <2>4, Resting
    <2> QED
      BY <2>1, <2>2, <2>3, <2>4, <2>5 DEF ProcMoved
  <1>8. ASSUME NEW k \in Keys, RetireStranded(p, k) PROVE ProcMoved(p)
    <2>1. Retire(k) /\ Swept(p, k)
      BY <1>8 DEF RetireStranded
    <2> QED
      BY <1>t, <2>1, RetireMoves, SweptKept
  <1>9. ASSUME NEW k \in Keys, RemoveExpired(p, k) PROVE ProcMoved(p)
    <2>1. Remove(k) /\ Swept(p, k) /\ k \in expired[p]
      BY <1>9 DEF RemoveExpired
    <2>2. state[k] = "RETIRED" => age[k] + Skew >= RemovalGrace
      BY <1>t, <2>1 DEF ProcInv, ExpiredAreOld
    <2> QED
      BY <1>t, <2>1, <2>2, RemoveMoves, SweptKept
  <1> QED
    BY <1>1, <1>2, <1>3, <1>4, <1>5, <1>6, <1>7, <1>8, <1>9 DEF ReplicaStep

\* The operator's command.
LEMMA OperatorStepMoves ==
    ASSUME IInv, NEW p \in Procs, OperatorStep(p)
    PROVE ProcMoved(p)
  <1> USE TypeParts DEF IInv
  <1>t. KeyTypes /\ HandoverTypes /\ SweepTypes /\ ProcInv(p)
    OBVIOUS
  <1>1. ASSUME NEW k \in Keys, RetireCommand(p, k) PROVE ProcMoved(p)
    <2>1. UNCHANGED <<keyVars, sweepVars, issueVars>>
      BY <1>1 DEF RetireCommand
    <2>2. CASE Begin(p, "retire", k)
      BY <1>t, <2>1, <2>2, BeginKept
    <2>3. CASE /\ pc' = [pc EXCEPT ![p] = "retire"]
               /\ old' = [old EXCEPT ![p] = k]
               /\ UNCHANGED <<why, new, held>>
      <3>1. HandoverTypes'
        BY <1>t, <2>3 DEF HandoverTypes, Places
      <3>2. HandoverFrame(p) /\ pc'[p] = "retire" /\ old'[p] = k
        BY <1>t, <2>3 DEF HandoverTypes, HandoverFrame
      <3>3. strand' = strand /\ expired' = expired
        BY <2>1 DEF sweepVars
      <3>4. SweepTypes' /\ SweepFrame(p)
        BY <1>t, <3>3 DEF SweepTypes, SweepFrame
      <3>5. KeysMoved
        BY <1>t, <2>1, StillMoves
      <3>6. StrandedAreOld(p)' /\ ExpiredAreOld(p)'
        BY <1>t, <3>3, <3>5, SweepKept DEF ProcInv
      <3>7. YoungHandover(p)' /\ NamedKeys(p)' /\ RotationIsDue(p)'
        BY <3>2 DEF YoungHandover, NamedKeys, RotationIsDue
      <3> QED
        BY <2>1, <3>1, <3>2, <3>4, <3>5, <3>6, <3>7 DEF ProcMoved, ProcInv
    <2> QED
      BY <1>1, <2>2, <2>3 DEF RetireCommand
  <1>2. ASSUME NEW k \in Keys, CompromiseCommand(p, k) PROVE ProcMoved(p)
    <2>1. Compromise(k) /\ state[k] # "NONE" /\ UNCHANGED <<sweepVars, issueVars>>
      BY <1>2 DEF CompromiseCommand
    <2>2. PICK place \in {"signer", "idle"} : Goto(p, place)
      BY <1>2 DEF CompromiseCommand
    <2> QED
      BY <1>t, <2>1, <2>2, CompromiseMoves, GotoKept
  <1>3. CASE RetirePublished(p)
    <2>1. pc[p] = "retire" /\ End(p, FALSE) /\ UNCHANGED <<sweepVars, issueVars>>
      BY <1>3 DEF RetirePublished
    <2>2. old[p] \in Keys
      BY <1>t, <2>1 DEF ProcInv, NamedKeys
    <2>3. KeysMoved
      BY <1>t, <1>3, <2>2, RetireMoves, StillMoves DEF RetirePublished
    <2>4. HandoverTypes' /\ HandoverFrame(p) /\ pc'[p] \in {"down", "idle", "keyset"}
      BY <1>t, <2>1, EndMoves
    <2> QED
      BY <1>t, <2>1, <2>3, <2>4, RestKept
  <1>4. CASE ReplaceCompromised(p)
    <2>1. UNCHANGED <<keyVars, sweepVars, issueVars>>
      BY <1>4 DEF ReplaceCompromised
    <2>2. CASE Begin(p, "compromise", NoKey)
      BY <1>t, <2>1, <2>2, BeginKept
    <2>3. CASE Goto(p, "idle")
      BY <1>t, <2>1, <2>3, GotoKept, StillMoves
    <2> QED
      BY <1>4, <2>2, <2>3 DEF ReplaceCompromised
  <1> QED
    BY <1>1, <1>2, <1>3, <1>4 DEF OperatorStep

\* A death: memory is gone, the table is as it was.
LEMMA CrashMoves ==
    ASSUME IInv, NEW p \in Procs, Crash(p)
    PROVE ProcMoved(p)
  <1> USE TypeParts DEF IInv
  <1>t. KeyTypes /\ HandoverTypes /\ SweepTypes /\ ProcInv(p)
    OBVIOUS
  <1>1. KeysMoved
    BY <1>t, StillMoves DEF Crash
  <1>2. HandoverTypes'
    BY <1>t, Limits DEF Crash, HandoverTypes, Places
  <1>3. HandoverFrame(p) /\ pc'[p] \in {"down", "idle"}
    BY <1>t DEF Crash, HandoverTypes, HandoverFrame
  <1>4. SweepTypes' /\ SweepFrame(p) /\ strand'[p] = {} /\ expired'[p] = {}
    BY <1>t DEF Crash, SweepTypes, SweepFrame
  <1>5. ProcInv(p)'
    BY <1>t, <1>1, <1>3, <1>4, Resting
  <1> QED
    BY <1>1, <1>2, <1>3, <1>4, <1>5 DEF ProcMoved, Crash

-----------------------------------------------------------------------------
(* The invariant. *)

\* At most one key signs after a step if it did before.
LEMMA SignersKept ==
    ASSUME OneSigner, SignersMove
    PROVE OneSigner'
  BY DEF OneSigner, SignersMove

\* While no time passes, the moves of the rows leave every token verifiable.
LEMMA IssueKept ==
    ASSUME TypeOK, HoldersAreFresh, LifeIsCovered, KeysMoved, UNCHANGED issueVars
    PROVE HoldersAreFresh' /\ LifeIsCovered'
  <1>1. life' = life /\ holds' = holds /\ wait' = wait
    BY DEF issueVars
  <1>2. KeyTypes /\ KeyTypes' /\ IssueTypes
    BY TypeParts DEF KeysMoved
  <1>3. ASSUME NEW c \in Issuers, holds[c] # NoKey
        PROVE /\ Verifiable(holds[c])'
              /\ state'[holds[c]] = "RETIRED" => age'[holds[c]] <= HandoverLimit + wait[c]
    <2>1. holds[c] \in Keys /\ wait[c] \in 0 .. IssueLimit
      BY <1>2, <1>3 DEF IssueTypes
    <2>2. /\ Verifiable(holds[c])
          /\ state[holds[c]] = "RETIRED" => age[holds[c]] <= HandoverLimit + wait[c]
      BY <1>3 DEF HoldersAreFresh
    <2>3. KeyMove(holds[c])
      BY <2>1 DEF KeysMoved
    <2>4. age[holds[c]] \in 0 .. AgeCap /\ age'[holds[c]] \in 0 .. AgeCap
      BY <1>2, <2>1 DEF KeyTypes
    <2>5. Verifiable(holds[c])' <=> state'[holds[c]] \in {"ACTIVE", "RETIRED", "COMPROMISED"}
      BY <1>1 DEF Verifiable
    <2> QED
      BY <2>1, <2>2, <2>3, <2>4, <2>5, Limits DEF KeyMove, Verifiable
  <1>4. ASSUME NEW k \in Keys, life[k] > 0
        PROVE /\ Verifiable(k)'
              /\ state'[k] = "RETIRED" => age'[k] + life[k] <= HandoverLimit + IssueLimit + MaxTokenTTL
    <2>1. life[k] \in 0 .. MaxTokenTTL
      BY <1>2 DEF IssueTypes
    <2>2. /\ Verifiable(k)
          /\ state[k] = "RETIRED" => age[k] + life[k] <= HandoverLimit + IssueLimit + MaxTokenTTL
      BY <1>4 DEF LifeIsCovered
    <2>3. KeyMove(k)
      BY DEF KeysMoved
    <2>4. age[k] \in 0 .. AgeCap /\ age'[k] \in 0 .. AgeCap
      BY <1>2 DEF KeyTypes
    <2> QED
      BY <1>4, <2>1, <2>2, <2>3, <2>4, Limits DEF KeyMove, Verifiable
  <1> QED
    BY <1>1, <1>3, <1>4 DEF HoldersAreFresh, LifeIsCovered

\* A step of one process keeps the invariant of all.
LEMMA ProcStepKeeps ==
    ASSUME IInv, NEW p \in Procs, ProcMoved(p)
    PROVE IInv'
  <1>1. KeyTypes /\ HandoverTypes /\ SweepTypes /\ IssueTypes
    BY TypeParts DEF IInv
  <1>2. IssueTypes'
    BY <1>1 DEF ProcMoved, issueVars, IssueTypes
  <1>3. TypeOK'
    BY <1>2, TypeParts DEF ProcMoved, KeysMoved, TypeOK, KeyTypes, KeyStates, HandoverTypes,
        SweepTypes, IssueTypes
  <1>4. OneSigner'
    BY SignersKept DEF IInv, ProcMoved, KeysMoved
  <1>5. ASSUME NEW q \in Procs PROVE ProcInv(q)'
    <2>1. CASE q = p
      BY <2>1 DEF ProcMoved
    <2>2. CASE q # p
      <3>1. /\ pc'[q] = pc[q] /\ why'[q] = why[q] /\ old'[q] = old[q] /\ new'[q] = new[q]
            /\ held'[q] = held[q] /\ strand'[q] = strand[q] /\ expired'[q] = expired[q]
        BY <2>2 DEF ProcMoved, HandoverFrame, SweepFrame
      <3>2. KeysMoved /\ ProcInv(q)
        BY DEF ProcMoved, IInv
      <3> QED
        BY <1>1, <3>1, <3>2, OthersKept
    <2> QED
      BY <2>1, <2>2
  <1>6. HoldersAreFresh' /\ LifeIsCovered'
    BY IssueKept DEF IInv, ProcMoved
  <1> QED
    BY <1>3, <1>4, <1>5, <1>6 DEF IInv

\* Reading the active key and signing with it.
LEMMA IssueStepKeeps ==
    ASSUME IInv, IssueStep
    PROVE IInv'
  <1>1. PICK c \in Issuers : ActiveSigningKey(c) \/ Sign(c) \/ SignFails(c)
    BY DEF IssueStep
  <1>2. UNCHANGED <<keyVars, pc, handoverVars, sweepVars>>
    BY <1>1 DEF ActiveSigningKey, Sign, SignFails
  <1>3. KeyTypes /\ HandoverTypes /\ SweepTypes /\ IssueTypes
    BY TypeParts DEF IInv
  <1>4. state' = state /\ age' = age
    BY <1>2 DEF keyVars
  <1>5. KeysMoved
    BY <1>2, <1>3, StillMoves
  <1>6. HandoverTypes' /\ SweepTypes'
    BY <1>2, <1>3 DEF HandoverTypes, SweepTypes, handoverVars, sweepVars
  <1>7. OneSigner'
    BY <1>5, SignersKept DEF IInv, KeysMoved
  <1>8. ASSUME NEW q \in Procs PROVE ProcInv(q)'
    <2>1. ProcInv(q)
      BY DEF IInv
    <2>2. /\ pc' = pc /\ why' = why /\ old' = old /\ new' = new /\ held' = held
          /\ strand' = strand /\ expired' = expired
      BY <1>2 DEF handoverVars, sweepVars
    <2> QED
      BY <1>3, <1>5, <2>1, <2>2, OthersKept
  <1>9. IssueTypes' /\ HoldersAreFresh' /\ LifeIsCovered'
    <2>1. HoldersAreFresh /\ LifeIsCovered
      BY DEF IInv
    <2>2. CASE ActiveSigningKey(c)
      <3>1. PICK k \in Signers : holds' = [holds EXCEPT ![c] = k]
        BY <2>2 DEF ActiveSigningKey
      <3>2. k \in Keys /\ state[k] = "ACTIVE"
        BY DEF Signers
      <3>3. life' = life /\ wait' = [wait EXCEPT ![c] = 0]
        BY <2>2 DEF ActiveSigningKey
      <3>4. IssueTypes'
        BY <1>3, <3>1, <3>2, <3>3, Limits DEF IssueTypes
      <3>5. HoldersAreFresh'
        BY <1>3, <1>4, <2>1, <3>1, <3>2, <3>3 DEF IssueTypes, HoldersAreFresh, Verifiable
      <3>6. LifeIsCovered'
        BY <1>4, <2>1, <3>3 DEF LifeIsCovered, Verifiable
      <3> QED
        BY <3>4, <3>5, <3>6
    <2>3. CASE Sign(c) \/ SignFails(c)
      <3>1. /\ holds[c] # NoKey
            /\ holds' = [holds EXCEPT ![c] = NoKey]
            /\ wait' = [wait EXCEPT ![c] = 0]
        BY <2>3 DEF Sign, SignFails
      <3>2. holds[c] \in Keys /\ wait[c] \in 0 .. IssueLimit
        BY <1>3, <3>1 DEF IssueTypes
      <3>3. HoldersAreFresh'
        BY <1>3, <1>4, <2>1, <3>1 DEF IssueTypes, HoldersAreFresh, Verifiable
      <3>4. CASE life' = life
        <4>1. IssueTypes'
          BY <1>3, <3>1, <3>4, Limits DEF IssueTypes
        <4> QED
          BY <1>4, <2>1, <3>3, <3>4, <4>1 DEF LifeIsCovered, Verifiable
      <3>5. CASE life' = [life EXCEPT ![holds[c]] = MaxTokenTTL]
        <4>1. IssueTypes'
          BY <1>3, <3>1, <3>5, Limits DEF IssueTypes
        <4>2. ASSUME NEW k \in Keys, life'[k] > 0
              PROVE /\ Verifiable(k)'
                    /\ state'[k] = "RETIRED" =>
                           age'[k] + life'[k] <= HandoverLimit + IssueLimit + MaxTokenTTL
          <5>1. CASE k = holds[c]
            <6>1. life'[k] = MaxTokenTTL
              BY <1>3, <3>5, <5>1 DEF IssueTypes
            <6>2. Verifiable(k) /\ (state[k] = "RETIRED" => age[k] <= HandoverLimit + wait[c])
              BY <2>1, <3>1, <5>1 DEF HoldersAreFresh
            <6>3. age[k] \in 0 .. AgeCap
              BY <1>3 DEF KeyTypes
            <6> QED
              BY <1>4, <3>2, <6>1, <6>2, <6>3, Limits DEF Verifiable
          <5>2. CASE k # holds[c]
            BY <1>3, <1>4, <2>1, <3>5, <4>2, <5>2 DEF IssueTypes, LifeIsCovered, Verifiable
          <5> QED
            BY <5>1, <5>2
        <4> QED
          BY <3>3, <4>1, <4>2 DEF LifeIsCovered
      <3> QED
        BY <2>3, <3>4, <3>5 DEF Sign, SignFails
    <2> QED
      BY <1>1, <2>2, <2>3
  <1> QED
    BY <1>5, <1>6, <1>7, <1>8, <1>9, TypeParts DEF IInv, KeysMoved, TypeOK, KeyTypes, KeyStates,
        HandoverTypes, SweepTypes, IssueTypes

\* An age grows by at most one and never past its cap.
LEMMA OlderGrows ==
    ASSUME NEW a \in 0 .. AgeCap
    PROVE Older(a) \in 0 .. AgeCap /\ a <= Older(a) /\ Older(a) <= a + 1
  BY Limits DEF Older

\* A tick: ages, contexts and calls grow together, and none past its limit.
LEMMA TickKeeps ==
    ASSUME IInv, Tick
    PROVE IInv'
  <1>1. KeyTypes /\ HandoverTypes /\ SweepTypes /\ IssueTypes
    BY TypeParts DEF IInv
  <1>2. /\ state' = state /\ pc' = pc /\ why' = why /\ old' = old /\ new' = new
        /\ strand' = strand /\ expired' = expired /\ holds' = holds
    BY DEF Tick, sweepVars
  <1>3. ASSUME NEW k \in Keys
        PROVE /\ age[k] \in 0 .. AgeCap /\ age'[k] \in 0 .. AgeCap
              /\ age[k] <= age'[k] /\ age'[k] <= age[k] + 1
    <2>1. age[k] \in 0 .. AgeCap
      BY <1>1 DEF KeyTypes
    <2>2. age'[k] = Older(age[k]) \/ age'[k] = age[k]
      BY DEF Tick
    <2> QED
      BY <2>1, <2>2, OlderGrows, Limits
  <1>4. KeyTypes'
    <2>1. age' \in [Keys -> 0 .. AgeCap]
      BY <1>3 DEF Tick
    <2> QED
      BY <1>1, <1>2, <2>1 DEF KeyTypes
  <1>5. ASSUME NEW p \in Procs
        PROVE /\ held[p] \in 0 .. HandoverLimit /\ held'[p] \in 0 .. HandoverLimit
              /\ pc[p] = "handover" => held'[p] = held[p] + 1
    <2>1. held[p] \in 0 .. HandoverLimit
      BY <1>1 DEF HandoverTypes
    <2>2. held'[p] = IF UnderLimit(p) THEN held[p] + 1 ELSE held[p]
      BY DEF Tick
    <2>3. UnderLimit(p) => held[p] < HandoverLimit
      BY DEF Tick, WithinLimit
    <2> QED
      BY <2>1, <2>2, <2>3, Limits DEF UnderLimit
  <1>6. HandoverTypes'
    <2>1. held' \in [Procs -> 0 .. HandoverLimit]
      BY <1>5 DEF Tick
    <2> QED
      BY <1>1, <1>2, <2>1 DEF HandoverTypes
  <1>7. SweepTypes'
    BY <1>1, <1>2 DEF SweepTypes
  <1>8. ASSUME NEW c \in Issuers
        PROVE /\ wait[c] \in 0 .. IssueLimit /\ wait'[c] \in 0 .. IssueLimit
              /\ holds[c] # NoKey => wait'[c] = wait[c] + 1
    <2>1. wait[c] \in 0 .. IssueLimit
      BY <1>1 DEF IssueTypes
    <2>2. wait'[c] = IF holds[c] # NoKey THEN wait[c] + 1 ELSE wait[c]
      BY DEF Tick
    <2>3. holds[c] # NoKey => wait[c] < IssueLimit
      BY DEF Tick
    <2> QED
      BY <2>1, <2>2, <2>3, Limits
  <1>9. ASSUME NEW k \in Keys
        PROVE /\ life[k] \in 0 .. MaxTokenTTL /\ life'[k] \in 0 .. MaxTokenTTL
              /\ life'[k] > 0 => life[k] = life'[k] + 1
    <2>1. life[k] \in 0 .. MaxTokenTTL
      BY <1>1 DEF IssueTypes
    <2>2. life'[k] = IF life[k] > 0 THEN life[k] - 1 ELSE 0
      BY DEF Tick
    <2> QED
      BY <2>1, <2>2, Limits
  <1>10. IssueTypes'
    <2>1. life' \in [Keys -> 0 .. MaxTokenTTL]
      BY <1>9 DEF Tick
    <2>2. wait' \in [Issuers -> 0 .. IssueLimit]
      BY <1>8 DEF Tick
    <2> QED
      BY <1>1, <1>2, <2>1, <2>2 DEF IssueTypes
  <1>11. OneSigner'
    BY <1>2 DEF IInv, OneSigner, Signers
  <1>12. ASSUME NEW p \in Procs PROVE ProcInv(p)'
    <2>1. ProcInv(p) /\ strand[p] \subseteq Keys /\ expired[p] \subseteq Keys
      BY <1>1 DEF IInv, SweepTypes
    <2>2. YoungHandover(p)'
      <3>1. SUFFICES ASSUME pc[p] = "handover"
                     PROVE /\ new[p] \in Keys
                           /\ state[new[p]] # "NONE"
                           /\ state[new[p]] = "PUBLISHED" => age'[new[p]] <= held'[p]
        BY <1>2 DEF YoungHandover
      <3>2. /\ new[p] \in Keys
            /\ state[new[p]] # "NONE"
            /\ state[new[p]] = "PUBLISHED" => age[new[p]] <= held[p]
        BY <2>1, <3>1 DEF ProcInv, YoungHandover
      <3> QED
        BY <1>3, <1>5, <3>1, <3>2
    <2>3. NamedKeys(p)'
      BY <1>2, <2>1 DEF ProcInv, NamedKeys
    <2>4. StrandedAreOld(p)'
      <3>1. ASSUME NEW k \in strand[p], state[k] = "PUBLISHED"
            PROVE age'[k] + Skew >= StrandedAfter
        BY <1>3, <2>1, <3>1, Limits DEF ProcInv, StrandedAreOld
      <3> QED
        BY <1>2, <2>1, <3>1 DEF ProcInv, StrandedAreOld
    <2>5. ExpiredAreOld(p)'
      <3>1. ASSUME NEW k \in expired[p], state[k] = "RETIRED"
            PROVE age'[k] + Skew >= RemovalGrace
        BY <1>3, <2>1, <3>1, Limits DEF ProcInv, ExpiredAreOld
      <3> QED
        BY <1>2, <2>1, <3>1 DEF ProcInv, ExpiredAreOld
    <2>6. RotationIsDue(p)'
      <3>1. ASSUME NEW k \in Keys, Due(k, Skew) PROVE Due(k, Skew)'
        BY <1>3, <3>1, Limits DEF Due
      <3> QED
        BY <1>2, <2>1, <3>1 DEF ProcInv, RotationIsDue
    <2> QED
      BY <2>2, <2>3, <2>4, <2>5, <2>6 DEF ProcInv
  <1>13. HoldersAreFresh'
    <2>1. ASSUME NEW c \in Issuers, holds[c] # NoKey
          PROVE /\ Verifiable(holds[c])
                /\ state[holds[c]] = "RETIRED" => age'[holds[c]] <= HandoverLimit + wait'[c]
      <3>1. holds[c] \in Keys
        BY <1>1, <2>1 DEF IssueTypes
      <3>2. /\ Verifiable(holds[c])
            /\ state[holds[c]] = "RETIRED" => age[holds[c]] <= HandoverLimit + wait[c]
        BY <2>1 DEF IInv, HoldersAreFresh
      <3> QED
        BY <1>3, <1>8, <2>1, <3>1, <3>2, Limits
    <2> QED
      BY <1>2, <2>1 DEF HoldersAreFresh, Verifiable
  <1>14. LifeIsCovered'
    <2>1. ASSUME NEW k \in Keys, life'[k] > 0
          PROVE /\ Verifiable(k)
                /\ state[k] = "RETIRED" =>
                       age'[k] + life'[k] <= HandoverLimit + IssueLimit + MaxTokenTTL
      <3>1. life[k] = life'[k] + 1
        BY <1>9, <2>1
      <3>2. life[k] > 0
        BY <1>9, <2>1, <3>1
      <3>3. /\ Verifiable(k)
            /\ state[k] = "RETIRED" => age[k] + life[k] <= HandoverLimit + IssueLimit + MaxTokenTTL
        BY <3>2 DEF IInv, LifeIsCovered
      <3> QED
        BY <1>3, <1>9, <3>1, <3>3, Limits
    <2> QED
      BY <1>2, <2>1 DEF LifeIsCovered, Verifiable
  <1> QED
    BY <1>4, <1>6, <1>7, <1>10, <1>11, <1>12, <1>13, <1>14 DEF IInv, TypeOK, KeyTypes, KeyStates,
        HandoverTypes, SweepTypes, IssueTypes

\* The invariant holds of an empty table and of processes that have done nothing.
LEMMA InvInit == Init => IInv
  <1> SUFFICES ASSUME Init PROVE IInv
    OBVIOUS
  <1>1. TypeOK
    BY Limits DEF Init, TypeOK, Places
  <1>2. OneSigner
    BY DEF Init, OneSigner, Signers
  <1>3. ASSUME NEW p \in Procs PROVE ProcInv(p)
    BY DEF Init, ProcInv, YoungHandover, NamedKeys, StrandedAreOld, ExpiredAreOld, RotationIsDue
  <1>4. HoldersAreFresh /\ LifeIsCovered
    BY DEF Init, HoldersAreFresh, LifeIsCovered
  <1> QED
    BY <1>1, <1>2, <1>3, <1>4 DEF IInv

\* A step of a process is one of its actions.
LEMMA ProcStepMoves ==
    ASSUME IInv, ProcStep
    PROVE \E p \in Procs : ProcMoved(p)
  <1>1. PICK p \in Procs : HandoverStep(p) \/ ReplicaStep(p) \/ OperatorStep(p) \/ Crash(p)
    BY DEF ProcStep
  <1> QED
    BY <1>1, HandoverStepMoves, ReplicaStepMoves, OperatorStepMoves, CrashMoves

\* Every step, stuttering included, keeps the invariant.
LEMMA InvStep == IInv /\ [Next]_vars => IInv'
  <1> SUFFICES ASSUME IInv, [Next]_vars PROVE IInv'
    OBVIOUS
  <1>1. CASE ProcStep
    BY <1>1, ProcStepMoves, ProcStepKeeps
  <1>2. CASE IssueStep
    BY <1>2, IssueStepKeeps
  <1>3. CASE Tick
    BY <1>3, TickKeeps
  <1>4. CASE UNCHANGED vars
    BY <1>4 DEF vars, keyVars, handoverVars, sweepVars, issueVars, IInv, TypeOK, OneSigner, Signers,
        ProcInv, YoungHandover, NamedKeys, StrandedAreOld, ExpiredAreOld, RotationIsDue, Due,
        HoldersAreFresh, LifeIsCovered, Verifiable
  <1> QED
    BY <1>1, <1>2, <1>3, <1>4 DEF Next

\* The invariant of the keystore.
THEOREM Invariant == Spec => []IInv
  BY InvInit, InvStep, PTL DEF Spec

-----------------------------------------------------------------------------
(* The theorems. *)

\* Every variable keeps its type; above all no hand-over and no signing call is
\* ever older than its limit.
THEOREM TypeCorrect == Spec => []TypeOK
<1>1. IInv => TypeOK
  BY DEF IInv
<1> QED
  BY <1>1, Invariant, PTL

\* At most one key signs, whatever hand-overs, starts and compromises race.
THEOREM OnlyOneSigns == Spec => []OneSigner
<1>1. IInv => OneSigner
  BY DEF IInv
<1> QED
  BY <1>1, Invariant, PTL

\* The sweep of SweepRemovable never takes a key out of the set while a token it
\* signed is valid.
THEOREM TokensStayVerifiable == Spec => []TokensOutliveNoKey
<1>1. IInv => TokensOutliveNoKey
  BY DEF IInv, LifeIsCovered, Verifiable, TokensOutliveNoKey
<1> QED
  BY <1>1, Invariant, PTL

\* What a step does to the rows, time passing or not.
LEMMA RowsOfAStep ==
    ASSUME IInv, [Next]_vars
    PROVE \/ state' = state
          \/ KeysMoved
  <1>1. CASE ProcStep
    BY <1>1, ProcStepMoves DEF ProcMoved
  <1>2. CASE IssueStep
    BY <1>2 DEF IssueStep, ActiveSigningKey, Sign, SignFails, keyVars
  <1>3. CASE Tick
    BY <1>3 DEF Tick
  <1>4. CASE UNCHANGED vars
    BY <1>4 DEF vars, keyVars
  <1> QED
    BY <1>1, <1>2, <1>3, <1>4 DEF Next

\* No step but the declaration of a leak leaves the service without a signer: not
\* abandon after a hand-over that landed, not the sweep, not the retire command.
THEOREM SigningStopsOnlyForALeak == Spec => OnlyALeakStopsSigning
<1>1. ASSUME IInv, [Next]_vars, Signers # {}, Signers' = {}, NEW k \in Signers
      PROVE state'[k] = "COMPROMISED"
  <2>1. k \in Keys /\ state[k] = "ACTIVE"
    BY DEF Signers
  <2>2. \A y \in Keys : state'[y] # "ACTIVE"
    BY <1>1 DEF Signers
  <2>3. KeysMoved
    BY <1>1, <2>1, <2>2, RowsOfAStep
  <2> QED
    BY <2>1, <2>2, <2>3 DEF KeysMoved, KeyMove
<1>2. IInv /\ [Next]_vars =>
        [Signers # {} /\ Signers' = {} => \A k \in Signers : state'[k] = "COMPROMISED"]_vars
  BY <1>1
<1> QED
  BY <1>2, Invariant, PTL DEF Spec, OnlyALeakStopsSigning

\* A declared leak is final, also against a sweep that works on an older reading.
THEOREM LeaksAreFinal == Spec => ALeakIsFinal
<1>1. ASSUME IInv, [Next]_vars, NEW k \in Keys, state[k] = "COMPROMISED"
      PROVE state'[k] = "COMPROMISED"
  <2>1. state' = state \/ KeyMove(k)
    BY <1>1, RowsOfAStep DEF KeysMoved
  <2> QED
    BY <1>1, <2>1 DEF KeyMove
<1>2. IInv /\ [Next]_vars =>
        [\A k \in Keys : state[k] = "COMPROMISED" => state'[k] = "COMPROMISED"]_vars
  BY <1>1
<1> QED
  BY <1>2, Invariant, PTL DEF Spec, ALeakIsFinal

\* The sweep retires no key whose hand-over is under way: the key would have to be
\* older than StrandedAfter and the hand-over younger than HandoverLimit.
THEOREM HandoversAreSpared == Spec => SweepSparesAHandover
<1>1. ASSUME IInv, NEW p \in Procs, NEW q \in Procs, NEW k \in Keys,
             k \in strand[p], state[k] = "PUBLISHED"
      PROVE ~(pc[q] = "handover" /\ new[q] = k)
  <2>1. age[k] + Skew >= StrandedAfter
    BY <1>1 DEF IInv, ProcInv, StrandedAreOld
  <2>2. SUFFICES ASSUME pc[q] = "handover", new[q] = k PROVE FALSE
    OBVIOUS
  <2>3. age[k] <= held[q]
    BY <1>1, <2>2 DEF IInv, ProcInv, YoungHandover
  <2>4. held[q] \in 0 .. HandoverLimit /\ age[k] \in 0 .. AgeCap
    BY <1>1 DEF IInv, TypeOK
  <2> QED
    BY <2>1, <2>3, <2>4, Limits
<1>2. IInv /\ [Next]_vars =>
        [\A p, q \in Procs : \A k \in Keys :
            /\ k \in strand[p] /\ k \notin strand'[p]
            /\ state[k] = "PUBLISHED" /\ state'[k] = "RETIRED"
            => ~(pc[q] = "handover" /\ new[q] = k)]_vars
  BY <1>1
<1> QED
  BY <1>2, Invariant, PTL DEF Spec, SweepSparesAHandover

\* A replica that lost the race for a rotation replaces nobody: whoever its
\* hand-over retires is the signer it read, and that one is due.
THEOREM RotationsAreDue == Spec => OnlyADueSignerIsRotated
<1>1. ASSUME IInv, [Next]_vars, NEW p \in Replicas, NEW k \in Signers,
             pc[p] = "handover", why[p] = "pass", pc'[p] # "handover", state'[k] = "RETIRED"
      PROVE Due(k, Skew)
  <2>1. p \in Procs /\ k \in Keys /\ state[k] = "ACTIVE"
    BY DEF Procs, Signers
  <2>2. ProcInv(p) /\ OneSigner /\ HandoverTypes /\ KeyTypes
    BY <1>1, <2>1, TypeParts DEF IInv
  <2>3. PICK q \in Procs : HandoverStep(q) \/ ReplicaStep(q) \/ OperatorStep(q) \/ Crash(q)
    <3>1. ~UNCHANGED vars /\ ~Tick /\ ~IssueStep
      BY <1>1 DEF vars, Tick, IssueStep, ActiveSigningKey, Sign, SignFails
    <3> QED
      BY <1>1, <3>1 DEF Next, ProcStep
  <2>4. q = p
    <3>1. ProcMoved(q)
      BY <1>1, <2>3, HandoverStepMoves, ReplicaStepMoves, OperatorStepMoves, CrashMoves
    <3> QED
      BY <1>1, <2>1, <3>1 DEF ProcMoved, HandoverFrame
  <2>5. ~UNCHANGED keyVars
    BY <1>1, <2>1 DEF keyVars
  <2>6. HandoverLands(p)
    BY <1>1, <2>1, <2>3, <2>4, <2>5 DEF HandoverStep, Generate, GenerateFails, HandoverFails, Abandon,
        ReplicaStep, Boot, EnsureFindsSigner, EnsureRotates, RotateIfDue, NothingToRotate,
        SweepRemovable, SweepRefused, RetireStranded, RemoveExpired, OperatorStep, RetireCommand,
        CompromiseCommand, RetirePublished, ReplaceCompromised, Crash
  <2>7. PICK lag \in 0 .. held[p] : ReplaceActive(new[p], old[p], lag)
    BY <1>1, <2>6 DEF HandoverLands, Lands
  <2>8. old[p] = k
    BY <2>2, <2>7 DEF ReplaceActive, OneSigner
  <2> QED
    BY <1>1, <2>1, <2>2, <2>8 DEF ProcInv, RotationIsDue
<1>2. IInv /\ [Next]_vars =>
        [\A p \in Replicas : \A k \in Signers :
            /\ pc[p] = "handover" /\ why[p] = "pass" /\ pc'[p] # "handover"
            /\ state'[k] = "RETIRED"
            => Due(k, Skew)]_vars
  BY <1>1
<1> QED
  BY <1>2, Invariant, PTL DEF Spec, OnlyADueSignerIsRotated
=============================================================================
