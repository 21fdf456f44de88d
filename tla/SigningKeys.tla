---------------------------- MODULE SigningKeys ----------------------------
(***************************************************************************)
(* The keystore of the token-signing keys: internal/apps/kaname/api/       *)
(* signingkeys over the table kaname.token_signing_keys, the maintenance   *)
(* loop every service replica runs, the operator's signing-key command and *)
(* the signer that reads the active key.                                   *)
(*                                                                         *)
(* Every statement on the table is one step.  It may land and be reported, *)
(* land without its answer arriving, or not land; a process may die between *)
(* any two steps.  A time stamp is taken before the statement that writes  *)
(* it runs.  Time is kept as ages, in ticks.                               *)
(***************************************************************************)
EXTENDS Naturals

CONSTANTS
    Keys,           \* key ids that can be generated (bound)
    NoKey,
    Replicas,       \* service replicas
    Operators,      \* runs of the signing-key command
    Issuers,        \* calls that sign a token
    KeyLifetime, RotationLead, HandoverLimit, StrandedAfter, RemovalGrace,
    MaxTokenTTL,
    IssueLimit,     \* the longest a signing call lasts after it read its key
    Skew,           \* how far a replica's clock may run ahead of another's
    AgeCap          \* ages stop counting here (bound)

ASSUME KeystoreAssumption ==
    /\ NoKey \notin Keys
    /\ Replicas \cap Operators = {}
    /\ KeyLifetime \in Nat /\ RotationLead \in Nat /\ RotationLead < KeyLifetime
    /\ HandoverLimit \in Nat /\ StrandedAfter \in Nat /\ RemovalGrace \in Nat
    /\ MaxTokenTTL \in Nat \ {0} /\ IssueLimit \in Nat /\ Skew \in Nat
    /\ HandoverLimit + Skew < StrandedAfter
    /\ MaxTokenTTL + IssueLimit + HandoverLimit + Skew <= RemovalGrace
    /\ AgeCap \in Nat
    /\ StrandedAfter <= AgeCap /\ RemovalGrace <= AgeCap /\ KeyLifetime <= AgeCap

Procs == Replicas \cup Operators

VARIABLES
    state,      \* key -> its state, "NONE" before it is generated
    age,        \* key -> time since created_at, since retired_at once retired
    life,       \* key -> how long the last token it signed is still valid
    pc,         \* process -> where it is
    why,        \* process -> what its hand-over is for
    old,        \* process -> the key it acts on: the signer it read, or the named key
    new,        \* process -> the key it generated
    held,       \* process -> age of its hand-over context
    strand,     \* process -> published keys its sweep found too old
    expired,    \* process -> retired keys its sweep found past the grace
    holds,      \* signing call -> the key it read
    wait        \* signing call -> time since it read the key

keyVars == <<state, age>>
handoverVars == <<why, old, new, held>>
sweepVars == <<strand, expired>>
issueVars == <<life, holds, wait>>
vars == <<keyVars, pc, handoverVars, sweepVars, issueVars>>

Signers == {k \in Keys : state[k] = "ACTIVE"}

Older(a) == IF a < AgeCap THEN a + 1 ELSE AgeCap

Init ==
    /\ state = [k \in Keys |-> "NONE"]
    /\ age = [k \in Keys |-> 0]
    /\ life = [k \in Keys |-> 0]
    /\ pc = [p \in Procs |-> IF p \in Replicas THEN "down" ELSE "idle"]
    /\ why = [p \in Procs |-> "none"]
    /\ old = [p \in Procs |-> NoKey]
    /\ new = [p \in Procs |-> NoKey]
    /\ held = [p \in Procs |-> 0]
    /\ strand = [p \in Procs |-> {}]
    /\ expired = [p \in Procs |-> {}]
    /\ holds = [c \in Issuers |-> NoKey]
    /\ wait = [c \in Issuers |-> 0]

-----------------------------------------------------------------------------
(* The conditional transitions of SigningKeyRepo: a statement whose condition *)
(* does not hold changes no row.                                            *)

\* The rows D leave signing, k takes over; the stamp is lag ticks old.
HandOver(D, k, lag) ==
    /\ state' = [x \in Keys |-> IF x = k THEN "ACTIVE" ELSE IF x \in D THEN "RETIRED" ELSE state[x]]
    /\ age' = [x \in Keys |-> IF x \in D THEN lag ELSE age[x]]

\* Mutant: the successor is activated and the one that signs is not demoted.
ActivateBeside(k, lag) ==
    /\ state[k] = "PUBLISHED"
    /\ HandOver({}, k, lag)

Activate(k, lag) ==
    /\ state[k] = "PUBLISHED"
    /\ HandOver(Signers, k, lag)

\* Mutant: whoever signs is replaced, as Activate does.
ReplaceActiveAnyone(next, expected, lag) ==
    /\ state[next] = "PUBLISHED"
    /\ HandOver(Signers, next, lag)

ReplaceActive(next, expected, lag) ==
    /\ expected \in Signers
    /\ state[next] = "PUBLISHED"
    /\ HandOver({expected}, next, lag)

\* Mutant: the signer can be retired without a successor.
RetireSigner(k) ==
    /\ state' = [state EXCEPT ![k] = IF @ \in {"PUBLISHED", "ACTIVE"} THEN "RETIRED" ELSE @]
    /\ age' = [age EXCEPT ![k] = IF state[k] \in {"PUBLISHED", "ACTIVE"} THEN 0 ELSE @]

Retire(k) ==
    /\ state' = [state EXCEPT ![k] = IF @ = "PUBLISHED" THEN "RETIRED" ELSE @]
    /\ age' = [age EXCEPT ![k] = IF state[k] = "PUBLISHED" THEN 0 ELSE @]

\* Mutant: the row is updated whatever its state.
RemoveAny(k) ==
    /\ state' = [state EXCEPT ![k] = "REMOVED"]
    /\ age' = [age EXCEPT ![k] = 0]

Remove(k) ==
    /\ state' = [state EXCEPT ![k] = IF @ = "RETIRED" THEN "REMOVED" ELSE @]
    /\ age' = [age EXCEPT ![k] = IF state[k] = "RETIRED" THEN 0 ELSE @]

Compromise(k) ==
    /\ state' = [state EXCEPT ![k] = "COMPROMISED"]
    /\ age' = [age EXCEPT ![k] = 0]

-----------------------------------------------------------------------------
(* Rotate and rotateReplacing: generate, hand over, abandon when that failed. *)

Begin(p, reason, target) ==
    /\ pc' = [pc EXCEPT ![p] = "generate"]
    /\ why' = [why EXCEPT ![p] = reason]
    /\ old' = [old EXCEPT ![p] = target]
    /\ new' = [new EXCEPT ![p] = NoKey]
    /\ held' = [held EXCEPT ![p] = 0]

\* Where a process goes when its hand-over is over.
After(p, landed) ==
    CASE why[p] = "boot" -> IF landed THEN "idle" ELSE "down"
      [] why[p] = "pass" -> "keyset"
      [] OTHER -> "idle"

End(p, landed) ==
    /\ pc' = [pc EXCEPT ![p] = After(p, landed)]
    /\ why' = [why EXCEPT ![p] = "none"]
    /\ old' = [old EXCEPT ![p] = NoKey]
    /\ new' = [new EXCEPT ![p] = NoKey]
    /\ held' = [held EXCEPT ![p] = 0]

Goto(p, place) ==
    /\ pc' = [pc EXCEPT ![p] = place]
    /\ UNCHANGED handoverVars

\* The key is born published.  An insert whose answer is lost leaves it so.
Generate(p) ==
    /\ pc[p] = "generate"
    /\ \E k \in Keys, lag \in 0 .. held[p] :
         /\ state[k] = "NONE"
         /\ state' = [state EXCEPT ![k] = "PUBLISHED"]
         /\ age' = [age EXCEPT ![k] = lag]
         /\ \/ /\ new' = [new EXCEPT ![p] = k]
               /\ pc' = [pc EXCEPT ![p] = "handover"]
               /\ UNCHANGED <<why, old, held>>
            \/ End(p, FALSE)
    /\ UNCHANGED <<sweepVars, issueVars>>

GenerateFails(p) ==
    /\ pc[p] = "generate"
    /\ End(p, FALSE)
    /\ UNCHANGED <<keyVars, sweepVars, issueVars>>

Lands(p, lag) ==
    IF why[p] \in {"boot", "compromise"}
    THEN Activate(new[p], lag)
    ELSE ReplaceActive(new[p], old[p], lag)

HandoverLands(p) ==
    /\ pc[p] = "handover"
    /\ \E lag \in 0 .. held[p] : Lands(p, lag)
    /\ End(p, TRUE) \/ Goto(p, "abandon")
    /\ UNCHANGED <<sweepVars, issueVars>>

\* A condition not met, a conflict on the index, a refusal, the limit.
HandoverFails(p) ==
    /\ pc[p] = "handover"
    /\ Goto(p, "abandon")
    /\ UNCHANGED <<keyVars, sweepVars, issueVars>>

Abandon(p) ==
    /\ pc[p] = "abandon"
    /\ Retire(new[p]) \/ UNCHANGED keyVars
    /\ End(p, FALSE)
    /\ UNCHANGED <<sweepVars, issueVars>>

-----------------------------------------------------------------------------
(* A service replica: EnsureSigningKey at start, then maintenance passes. *)

Boot(p) ==
    /\ p \in Replicas /\ pc[p] = "down"
    /\ Goto(p, "ensure")
    /\ UNCHANGED <<keyVars, sweepVars, issueVars>>

EnsureFindsSigner(p) ==
    /\ pc[p] = "ensure"
    /\ Signers # {}
    /\ Goto(p, "idle")
    /\ UNCHANGED <<keyVars, sweepVars, issueVars>>

\* Any refusal of the read, "there is none" among them, leads to Rotate.
EnsureRotates(p) ==
    /\ pc[p] = "ensure"
    /\ Begin(p, "boot", NoKey)
    /\ UNCHANGED <<keyVars, sweepVars, issueVars>>

Due(k, d) == age[k] + d >= KeyLifetime - RotationLead

RotateIfDue(p) ==
    /\ p \in Replicas /\ pc[p] = "idle"
    /\ \E k \in Signers, d \in 0 .. Skew : Due(k, d) /\ Begin(p, "pass", k)
    /\ UNCHANGED <<keyVars, sweepVars, issueVars>>

\* Not due, no signer, or the read was refused.
NothingToRotate(p) ==
    /\ p \in Replicas /\ pc[p] = "idle"
    /\ Goto(p, "keyset")
    /\ UNCHANGED <<keyVars, sweepVars, issueVars>>

\* Mutant: the sweep looks at retired keys only.
StrandedNever(d) == {}

\* Mutant: a published key of any age is stranded.
StrandedAtOnce(d) == {k \in Keys : state[k] = "PUBLISHED"}

Stranded(d) == {k \in Keys : state[k] = "PUBLISHED" /\ age[k] + d >= StrandedAfter}

\* Mutant: the grace is taken for the token's lifetime.
ExpiredAtTTL(d) == {k \in Keys : state[k] = "RETIRED" /\ age[k] + d >= MaxTokenTTL}

Expired(d) == {k \in Keys : state[k] = "RETIRED" /\ age[k] + d >= RemovalGrace}

\* SweepRemovable reads the set once and then works through it.
SweepRemovable(p) ==
    /\ pc[p] = "keyset"
    /\ \E d \in 0 .. Skew :
         /\ strand' = [strand EXCEPT ![p] = Stranded(d)]
         /\ expired' = [expired EXCEPT ![p] = Expired(d)]
         /\ Goto(p, IF Stranded(d) \cup Expired(d) = {} THEN "idle" ELSE "sweep")
    /\ UNCHANGED <<keyVars, issueVars>>

SweepRefused(p) ==
    /\ pc[p] \in {"keyset", "sweep"}
    /\ strand' = [strand EXCEPT ![p] = {}]
    /\ expired' = [expired EXCEPT ![p] = {}]
    /\ Goto(p, "idle")
    /\ UNCHANGED <<keyVars, issueVars>>

Swept(p, k) ==
    /\ strand' = [strand EXCEPT ![p] = @ \ {k}]
    /\ expired' = [expired EXCEPT ![p] = @ \ {k}]
    /\ Goto(p, IF (strand[p] \cup expired[p]) \ {k} = {} THEN "idle" ELSE "sweep")
    /\ UNCHANGED issueVars

RetireStranded(p, k) ==
    /\ pc[p] = "sweep" /\ k \in strand[p]
    /\ Retire(k)
    /\ Swept(p, k)

RemoveExpired(p, k) ==
    /\ pc[p] = "sweep" /\ k \in expired[p]
    /\ Remove(k)
    /\ Swept(p, k)

-----------------------------------------------------------------------------
(* The operator's command: signing-key retire, signing-key compromise. *)

\* Retire reads the key first; retiring the signer is a hand-over.
RetireCommand(p, k) ==
    /\ p \in Operators /\ pc[p] = "idle"
    /\ \/ state[k] = "ACTIVE" /\ Begin(p, "retire", k)
       \/ /\ state[k] = "PUBLISHED"
          /\ pc' = [pc EXCEPT ![p] = "retire"]
          /\ old' = [old EXCEPT ![p] = k]
          /\ UNCHANGED <<why, new, held>>
    /\ UNCHANGED <<keyVars, sweepVars, issueVars>>

RetirePublished(p) ==
    /\ pc[p] = "retire"
    /\ Retire(old[p]) \/ UNCHANGED keyVars
    /\ End(p, FALSE)
    /\ UNCHANGED <<sweepVars, issueVars>>

\* The key leaves the set first; a repeat goes on to the signer at once.
CompromiseCommand(p, k) ==
    /\ p \in Operators /\ pc[p] = "idle"
    /\ state[k] # "NONE"
    /\ Compromise(k)
    /\ Goto(p, "signer") \/ Goto(p, "idle")
    /\ UNCHANGED <<sweepVars, issueVars>>

ReplaceCompromised(p) ==
    /\ pc[p] = "signer"
    /\ \/ Signers = {} /\ Begin(p, "compromise", NoKey)
       \/ Goto(p, "idle")
    /\ UNCHANGED <<keyVars, sweepVars, issueVars>>

-----------------------------------------------------------------------------
(* The signer: reads the active key, then the moment of issue, then signs. *)

ActiveSigningKey(c) ==
    /\ holds[c] = NoKey
    /\ \E k \in Signers : holds' = [holds EXCEPT ![c] = k]
    /\ wait' = [wait EXCEPT ![c] = 0]
    /\ UNCHANGED <<keyVars, pc, handoverVars, sweepVars, life>>

\* The longest token allowed stands for all of them.
Sign(c) ==
    /\ holds[c] # NoKey
    /\ life' = [life EXCEPT ![holds[c]] = MaxTokenTTL]
    /\ holds' = [holds EXCEPT ![c] = NoKey]
    /\ wait' = [wait EXCEPT ![c] = 0]
    /\ UNCHANGED <<keyVars, pc, handoverVars, sweepVars>>

SignFails(c) ==
    /\ holds[c] # NoKey
    /\ holds' = [holds EXCEPT ![c] = NoKey]
    /\ wait' = [wait EXCEPT ![c] = 0]
    /\ UNCHANGED <<keyVars, pc, handoverVars, sweepVars, life>>

-----------------------------------------------------------------------------
\* A process dies; what it had in memory is gone.
Crash(p) ==
    /\ pc' = [pc EXCEPT ![p] = IF p \in Replicas THEN "down" ELSE "idle"]
    /\ why' = [why EXCEPT ![p] = "none"]
    /\ old' = [old EXCEPT ![p] = NoKey]
    /\ new' = [new EXCEPT ![p] = NoKey]
    /\ held' = [held EXCEPT ![p] = 0]
    /\ strand' = [strand EXCEPT ![p] = {}]
    /\ expired' = [expired EXCEPT ![p] = {}]
    /\ UNCHANGED <<keyVars, issueVars>>

UnderLimit(p) == pc[p] \in {"generate", "handover"}

\* Mutant: the limit is set once the key is generated.
WithinLimitLate(p) == pc[p] = "handover" => held[p] < HandoverLimit

WithinLimit(p) == UnderLimit(p) => held[p] < HandoverLimit

\* Time passes; a call is cut off at its limit.
Tick ==
    /\ \A p \in Procs : WithinLimit(p)
    /\ \A c \in Issuers : holds[c] # NoKey => wait[c] < IssueLimit
    /\ age' = [k \in Keys |-> IF state[k] \in {"PUBLISHED", "ACTIVE", "RETIRED"}
                              THEN Older(age[k]) ELSE age[k]]
    /\ life' = [k \in Keys |-> IF life[k] > 0 THEN life[k] - 1 ELSE 0]
    /\ held' = [p \in Procs |-> IF UnderLimit(p) THEN held[p] + 1 ELSE held[p]]
    /\ wait' = [c \in Issuers |-> IF holds[c] # NoKey THEN wait[c] + 1 ELSE wait[c]]
    /\ UNCHANGED <<state, pc, why, old, new, sweepVars, holds>>

-----------------------------------------------------------------------------
HandoverStep(p) ==
    Generate(p) \/ GenerateFails(p) \/ HandoverLands(p) \/ HandoverFails(p) \/ Abandon(p)

ReplicaStep(p) ==
    \/ Boot(p) \/ EnsureFindsSigner(p) \/ EnsureRotates(p)
    \/ RotateIfDue(p) \/ NothingToRotate(p)
    \/ SweepRemovable(p) \/ SweepRefused(p)
    \/ \E k \in Keys : RetireStranded(p, k) \/ RemoveExpired(p, k)

OperatorStep(p) ==
    \/ \E k \in Keys : RetireCommand(p, k) \/ CompromiseCommand(p, k)
    \/ RetirePublished(p)
    \/ ReplaceCompromised(p)

ProcStep == \E p \in Procs : HandoverStep(p) \/ ReplicaStep(p) \/ OperatorStep(p) \/ Crash(p)

IssueStep == \E c \in Issuers : ActiveSigningKey(c) \/ Sign(c) \/ SignFails(c)

Next == ProcStep \/ IssueStep \/ Tick

Spec == Init /\ [][Next]_vars

\* A replica is started again, its loop ticks, and neither the store refuses nor
\* the process dies at the same step for ever.
LoopFairness(p) ==
    /\ WF_vars(Boot(p))
    /\ SF_vars(EnsureFindsSigner(p))
    /\ WF_vars(HandoverStep(p))
    /\ SF_vars(NothingToRotate(p))
    /\ SF_vars(SweepRemovable(p))
    /\ \A k \in Keys : SF_vars(RetireStranded(p, k) \/ RemoveExpired(p, k))

LoopSpec == Spec /\ WF_vars(Tick) /\ \A p \in Replicas : LoopFairness(p)

-----------------------------------------------------------------------------
Places == {"down", "ensure", "idle", "generate", "handover", "abandon", "keyset", "sweep",
           "retire", "signer"}

TypeOK ==
    /\ state \in [Keys -> {"NONE", "PUBLISHED", "ACTIVE", "RETIRED", "REMOVED", "COMPROMISED"}]
    /\ age \in [Keys -> 0 .. AgeCap]
    /\ life \in [Keys -> 0 .. MaxTokenTTL]
    /\ pc \in [Procs -> Places]
    /\ why \in [Procs -> {"none", "boot", "pass", "retire", "compromise"}]
    /\ old \in [Procs -> Keys \cup {NoKey}]
    /\ new \in [Procs -> Keys \cup {NoKey}]
    /\ held \in [Procs -> 0 .. HandoverLimit]
    /\ strand \in [Procs -> SUBSET Keys]
    /\ expired \in [Procs -> SUBSET Keys]
    /\ holds \in [Issuers -> Keys \cup {NoKey}]
    /\ wait \in [Issuers -> 0 .. IssueLimit]

\* At most one key signs, whatever hand-overs, starts and compromises race
\* (signing_key_repo.go: "exactly one signs").
OneSigner == \A k, l \in Signers : k = l

\* A token that has not expired can be verified: its key leaves the set only as
\* a declared leak.  This is what the removal grace is computed for, against a
\* signing call that read the key before it was retired and a stamp older than
\* the statement that wrote it.
TokensOutliveNoKey ==
    \A k \in Keys : life[k] > 0 => state[k] \in {"ACTIVE", "RETIRED", "COMPROMISED"}

\* A step never leaves the service without a signer unless it declares the signer
\* leaked: not the sweep, not an abandoned hand-over that landed after all, not a
\* retirement (Retire: "retiring a key must not mean stopping the issue").
OnlyALeakStopsSigning ==
    [][Signers # {} /\ Signers' = {} => \A k \in Signers : state'[k] = "COMPROMISED"]_vars

\* Maintenance replaces the signer it read, and only when that one is due: a
\* replica that lost the race never replaces the winner's fresh key.
OnlyADueSignerIsRotated ==
    [][\A p \in Replicas : \A k \in Signers :
          /\ pc[p] = "handover" /\ why[p] = "pass" /\ pc'[p] # "handover"
          /\ state'[k] = "RETIRED"
          => Due(k, Skew)]_vars

\* The sweep never retires a key whose hand-over is still under way (New demands
\* StrandedAfter > HandoverLimit for this).
SweepSparesAHandover ==
    [][\A p, q \in Procs : \A k \in Keys :
          /\ k \in strand[p] /\ k \notin strand'[p]
          /\ state[k] = "PUBLISHED" /\ state'[k] = "RETIRED"
          => ~(pc[q] = "handover" /\ new[q] = k)]_vars

\* A declared leak is final: no hand-over, no retirement and no sweep working on
\* an older reading of the set takes the key out of that state.
ALeakIsFinal ==
    [][\A k \in Keys : state[k] = "COMPROMISED" => state'[k] = "COMPROMISED"]_vars

\* No key stays published, and so trusted, for ever: one whose hand-over nobody
\* finished, because its process died, its insert was answered by silence or its
\* abandon was refused, is retired by some sweep while the service has a signer.
NoKeyIsStranded ==
    \A k \in Keys :
        (state[k] = "PUBLISHED" /\ Signers # {}) ~> state[k] # "PUBLISHED"

\* EnsureSigningKey generates a key only when none signs: keystore.go says that "a
\* refusal of the store is NOT replaced by generation".
\* The code does not keep this: see section 7 of the README.
StartGeneratesOnlyWithoutASigner ==
    [][\A p \in Replicas : pc[p] = "ensure" /\ pc'[p] = "generate" => Signers = {}]_vars
=============================================================================
