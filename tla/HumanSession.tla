---------------------------- MODULE HumanSession ----------------------------
(***************************************************************************)
(* The login lane of one person: password, second factor, recovery code,   *)
(* the sessions issued from them, the person's cut-off and the counter of  *)
(* failed attempts.                                                        *)
(*                                                                         *)
(* Every verb of internal/apps/kaname/api/humansession has the same shape: *)
(* the attempt gate (a plain read), the costly verification of what was    *)
(* presented against rows read without a lock, the reading of the shared   *)
(* moment and of what is enrolled, and then one writing transaction whose  *)
(* first statement locks the person's row.  The transactions of one person *)
(* serialise on that row or on the conditional statements they end in, so  *)
(* each is one step here; everything before it is a step of its own and    *)
(* may be stale when the transaction runs.                                 *)
(*                                                                         *)
(* A password is named by its generation: 0 is the first one, and each     *)
(* choice of a new password is the next.  The stored material also has a   *)
(* stamp, because two hashes of one password differ.  A session carries    *)
(* the generation it rests on and the variable gen is the generation the   *)
(* person chose last; both are history for the properties.                 *)
(***************************************************************************)
EXTENDS Naturals, FiniteSets, Bags

CONSTANTS
    Requests,       \* concurrent calls
    Sessions,       \* session identifiers, each issued at most once
    AddressAttempts,\* limit of failed attempts in the window
    Scenes          \* what a behaviour may be about

\* A scene: the verbs that take part, the time steps a TOTP code can be of (in
\* tolerance), whether the first stored hash is below the declared parameters,
\* whether the person starts with a second factor, and the bounds on readings of
\* the shared clock, passwords chosen, secrets and backup code sets minted, and
\* recovery codes mailed.
AllVerbs == {"login", "change", "recover", "force", "logout", "endown", "stepup", "confirm",
             "remove", "regenerate", "reset"}
Scene == [verbs : SUBSET AllVerbs,
          steps : SUBSET (1 .. 2), outdated : BOOLEAN, enrolled : BOOLEAN,
          maxNow : Nat, maxGen : Nat, maxSecrets : Nat, maxCodes : Nat]

ASSUME LimitAssumption == AddressAttempts \in Nat \ {0} /\ IsFiniteSet(Requests)
ASSUME ScenesAssumption == Scenes \subseteq Scene

VARIABLES
    scene,      \* the scene of this behaviour, which no step changes
    clock,      \* the shared clock of the store
    cutoff,     \* the person's cut-off, 0 when there is none
    first,      \* moment of the first authentication, 0 when there was none
    material,   \* the stored password verifier
    gen,        \* history: generation of the password chosen last
    sess,       \* session rows
    totp,       \* the TOTP row
    codes,      \* backup codes left in the set
    minted,     \* secrets minted so far
    mailed,     \* recovery codes minted so far
    recovery,   \* recovery codes that can still be applied
    failures,   \* failed attempts of this address inside the window
    spent,      \* history: one-time evidence accepted so far
    req         \* calls in progress

vars == <<scene, clock, cutoff, first, material, gen, sess, totp, codes, minted,
          mailed, recovery, failures, spent, req>>

factorVars == <<totp, codes, minted>>

Verbs == scene.verbs
Steps == scene.steps
MaxNow == scene.maxNow
MaxGen == scene.maxGen
MaxSecrets == scene.maxSecrets
MaxCodes == scene.maxCodes

NoSession == "no session"

\* What a call presents beside a password: nothing, a TOTP code (of a secret
\* and a time step), a backup code or a recovery code.
Nothing == [kind |-> "none", secret |-> 0, n |-> 0]
Totp(secret, step) == [kind |-> "totp", secret |-> secret, n |-> step]
Backup(n) == [kind |-> "lookup_secret", secret |-> 0, n |-> n]
RecoveryCode(n) == [kind |-> "recovery_code", secret |-> 0, n |-> n]

Idle == [verb |-> "idle", phase |-> "idle", s |-> NoSession, gen |-> 0,
         shown |-> Nothing, stamp |-> 0, at |-> 0, enrolled |-> FALSE,
         methods |-> {}]

Methods == {"password", "totp", "lookup_secret", "recovery_code"}
\* The verbs that pass the gate of attempts, and those of them that act from
\* inside a session.
SessionVerbs == {"change", "stepup", "confirm", "remove", "regenerate"}
GatedVerbs == {"login", "recover"} \cup SessionVerbs
\* The verbs that present a password, and those that must present a code.
PasswordVerbs == {"login", "change"}
CodeVerbs == {"remove", "regenerate"}

Row == [st : {"free", "live", "ended"}, auth : Nat, methods : SUBSET Methods,
        level : 0 .. 2, gen : Nat]

Evidence == [kind : {"none"} \cup Methods, secret : Nat, n : Nat]

Call == [verb : AllVerbs \cup {"idle"},
         phase : {"idle", "admitted", "verified", "ready", "refused", "rewrite"},
         s : Sessions \cup {NoSession}, gen : Nat, shown : Evidence, stamp : Nat, at : Nat,
         enrolled : BOOLEAN, methods : SUBSET Methods]

FreeRow == [st |-> "free", auth |-> 0, methods |-> {}, level |-> 0, gen |-> 0]

Live(s) == sess[s].st = "live"
Larger(a, b) == IF a >= b THEN a ELSE b

-----------------------------------------------------------------------------
(* The rules the verbs share. *)

\* assurance.LevelOf over the methods of this lane (access keys are not here).
LevelOf(ms) ==
    IF "password" \in ms /\ ms \cap {"totp", "lookup_secret"} # {} THEN 2 ELSE 1

FactorEnrolled == totp.st = "active"

\* loginCompletedToEnrolledLevel: the level that makes a login complete.
RequiredLevel(enrolled) == IF enrolled THEN 2 ELSE 1

\* resetFailuresOnCompletedLogin.
FailuresAfter(level, enrolled) ==
    IF level >= RequiredLevel(enrolled) THEN 0 ELSE failures

\* attemptGate.check: the window holds fewer failures than the limit.
\* Mutant: the limit itself is still let through.
GateOpenAtLimit == failures <= AddressAttempts

GateOpen == failures < AddressAttempts

\* presenter.settle with write: the TOTP step is recorded only when it is newer
\* than the last one accepted, the backup code only when it is in the locked set.
\* Mutant: the condition on the last accepted step is dropped.
SettlesAnyStep(f) ==
    CASE f.kind = "totp" -> FactorEnrolled
      [] f.kind = "lookup_secret" -> f.n \in codes
      [] OTHER -> TRUE

Settles(f) ==
    CASE f.kind = "totp" -> FactorEnrolled /\ f.n > totp.step
      [] f.kind = "lookup_secret" -> f.n \in codes
      [] OTHER -> TRUE

\* A code that does not settle counts as an attempt, but for a backup code whose set
\* is gone (verdictUnavailable).  The set and the active TOTP row come with Confirm
\* and go with RemovedFactor, both at once.
CountsAsAttempt(f) == f.kind # "lookup_secret" \/ FactorEnrolled

SettledTotp(f) == IF f.kind = "totp" THEN [totp EXCEPT !.step = f.n] ELSE totp
SettledCodes(f) == IF f.kind = "lookup_secret" THEN codes \ {f.n} ELSE codes
Spend(f) == spent' = IF f = Nothing THEN spent ELSE spent (+) SetToBag({f})

\* IssueSession: a row for the moment of the call.
Issue(s, at, methods, g) ==
    [st |-> "live", auth |-> at, methods |-> methods, level |-> LevelOf(methods),
     gen |-> g]

\* RememberFirstAuthentication: the least of the moments, in whatever order they come.
\* Mutant: the moment written first stays.
RememberFirstWritten(at) == first' = IF first = 0 THEN at ELSE first

RememberFirst(at) == first' = IF first = 0 \/ at < first THEN at ELSE first

\* EndOtherSessions: every unended row but the kept ones.
EndedBut(keep) ==
    [s \in Sessions |-> IF Live(s) /\ s \notin keep
                        THEN [sess[s] EXCEPT !.st = "ended"] ELSE sess[s]]

\* revocationMoment: a cut-off just below the first authentication, or below that of
\* the acting session when none as early is remembered.
RevocationMoment(s) ==
    LET own == sess[s].auth
        from == IF first = 0 \/ first > own THEN own ELSE first
    IN  IF from = 0 THEN 0 ELSE from - 1

\* presentInSession: the candidate level comes from the methods the call read,
\* the row takes the union of methods and the higher of the two levels.
\* Mutant: the candidate is written whatever the row holds.
PresentedLowering(row, read, method) ==
    [row EXCEPT !.methods = @ \cup read \cup {method},
                !.level = LevelOf(read \cup {method})]

Presented(row, read, method) ==
    [row EXCEPT !.methods = @ \cup read \cup {method},
                !.level = Larger(@, LevelOf(read \cup {method}))]

-----------------------------------------------------------------------------
(* Before the transaction. *)

TypeOK ==
    /\ scene \in Scenes
    /\ clock \in Nat \ {0} /\ cutoff \in Nat /\ first \in Nat
    /\ material \in [gen : Nat, stamp : Nat, outdated : BOOLEAN] /\ gen \in Nat
    /\ sess \in [Sessions -> Row]
    /\ totp \in [st : {"none", "pending", "active"}, secret : Nat, step : Nat]
    /\ minted \in Nat /\ codes \subseteq 1 .. minted
    /\ mailed \in Nat /\ recovery \subseteq 1 .. mailed
    /\ failures \in Nat
    /\ IsABag(spent)
    /\ req \in [Requests -> Call]

Init ==
    /\ scene \in Scenes
    /\ clock = 1
    /\ cutoff = 0
    /\ first = 0
    /\ material = [gen |-> 0, stamp |-> 0, outdated |-> scene.outdated]
    /\ gen = 0
    /\ sess = [s \in Sessions |-> FreeRow]
    /\ totp = [st |-> IF scene.enrolled THEN "active" ELSE "none",
               secret |-> IF scene.enrolled THEN 1 ELSE 0, step |-> 0]
    /\ codes = IF scene.enrolled THEN {1} ELSE {}
    /\ minted = IF scene.enrolled THEN 1 ELSE 0
    /\ mailed = 0
    /\ recovery = {}
    /\ failures = 0
    /\ spent = EmptyBag
    /\ req = [r \in Requests |-> Idle]

Tick ==
    /\ clock < MaxNow
    /\ clock' = clock + 1
    /\ UNCHANGED <<scene, cutoff, first, material, gen, sess, factorVars, mailed,
                   recovery, failures, spent, req>>

\* The window of the counter slides past the oldest of the recorded failures.
WindowPasses ==
    /\ failures > 0
    /\ failures' \in 0 .. failures - 1
    /\ UNCHANGED <<scene, clock, cutoff, first, material, gen, sess, factorVars,
                   mailed, recovery, spent, req>>

\* What a call of the verb may present as a code.  A step-up presents a password
\* or a code, a login a password and perhaps a code.
Shown(verb) ==
    LET totps == {Totp(x, t) : x \in 1 .. minted, t \in Steps}
        backups == {Backup(n) : n \in 1 .. minted}
    IN  CASE verb = "change" -> {Nothing}
          [] verb = "recover" -> {RecoveryCode(n) : n \in 1 .. mailed}
          [] verb = "confirm" -> totps
          [] verb \in CodeVerbs -> totps \cup backups
          [] OTHER -> {Nothing} \cup totps \cup backups

\* The start of a verb: the bearer is resolved to a live session where there is
\* one, and the gate lets the call through.
Admit(r) ==
    /\ req[r] = Idle
    /\ GateOpen
    /\ \E verb \in GatedVerbs \cap Verbs, g \in 0 .. gen,
          s \in Sessions \cup {NoSession} :
        /\ IF verb \in SessionVerbs THEN s # NoSession /\ Live(s) ELSE s = NoSession
        /\ \E f \in Shown(verb) :
            req' = [req EXCEPT ![r] =
                [Idle EXCEPT !.verb = verb, !.phase = "admitted", !.s = s,
                             !.gen = g, !.shown = f,
                             !.methods = IF s = NoSession THEN {} ELSE sess[s].methods]]
    /\ UNCHANGED <<scene, clock, cutoff, first, material, gen, sess, factorVars,
                   mailed, recovery, failures, spent>>

\* The password is wrong, or the code is one that counts as an attempt.  At
\* login a code of a person without a factor counts too.
PasswordRefused(q) ==
    /\ q.verb \in PasswordVerbs \/ (q.verb = "stepup" /\ q.shown = Nothing)
    /\ q.gen # material.gen

CodeRefused(q) ==
    CASE q.shown.kind = "totp" /\ q.verb = "confirm" ->
            totp.st = "pending" /\ q.shown.secret # totp.secret
      [] q.shown.kind = "totp" /\ FactorEnrolled ->
            q.shown.secret # totp.secret \/ q.shown.n <= totp.step
      [] q.shown.kind \in {"totp", "lookup_secret"} ->
            q.verb = "login" /\ ~FactorEnrolled
      [] OTHER -> FALSE

\* The state of the row refuses the code without counting an attempt.
CodeDismissed(q) ==
    \/ q.verb = "confirm" /\ totp.st # "pending"
    \/ q.verb \in CodeVerbs \cup {"stepup"}
       /\ q.shown # Nothing /\ ~FactorEnrolled

\* Verification against rows read without a lock: methods.Get, Verify, prepare.
Verify(r) ==
    LET q == req[r] IN
    /\ q.phase = "admitted"
    /\ req' = [req EXCEPT ![r] =
         IF PasswordRefused(q) \/ CodeRefused(q)
         THEN [q EXCEPT !.phase = "refused"]
         ELSE IF CodeDismissed(q) THEN Idle
         ELSE [q EXCEPT !.phase = "verified", !.stamp = material.stamp]]
    /\ UNCHANGED <<scene, clock, cutoff, first, material, gen, sess, factorVars,
                   mailed, recovery, failures, spent>>

\* sharedMoment and enrollmentBeforeWrite, read before the transaction opens.
ReadBeforeWrite(r) ==
    /\ req[r].phase = "verified"
    /\ req' = [req EXCEPT ![r].phase = "ready", ![r].at = clock,
                          ![r].enrolled = FactorEnrolled]
    /\ UNCHANGED <<scene, clock, cutoff, first, material, gen, sess, factorVars,
                   mailed, recovery, failures, spent>>

\* A counted refusal is recorded by a transaction of its own.  A step-up that gets no
\* answer to its commit records the failure again, in the transaction it falls back to
\* (recordRefusal), so it may count twice.
MostRecords(verb) == IF verb = "stepup" THEN 2 ELSE 1

RecordFailure(r) ==
    /\ req[r].phase = "refused"
    /\ \E n \in 1 .. MostRecords(req[r].verb) : failures' = failures + n
    /\ req' = [req EXCEPT ![r] = Idle]
    /\ UNCHANGED <<scene, clock, cutoff, first, material, gen, sess, factorVars,
                   mailed, recovery, spent>>

\* The store fails or the caller goes away: what was not committed is undone.
Abandon(r) ==
    /\ req[r] # Idle
    /\ req' = [req EXCEPT ![r] = Idle]
    /\ UNCHANGED <<scene, clock, cutoff, first, material, gen, sess, factorVars,
                   mailed, recovery, failures, spent>>

\* A transaction that finds it must refuse leaves nothing behind but the call.
RefuseTx(r, counted) ==
    /\ req' = [req EXCEPT ![r] = IF counted THEN [@ EXCEPT !.phase = "refused"]
                                 ELSE Idle]
    /\ UNCHANGED <<scene, clock, cutoff, first, material, gen, sess, factorVars,
                   mailed, recovery, failures, spent>>

Ready(r, verb) == req[r].phase = "ready" /\ req[r].verb = verb

-----------------------------------------------------------------------------
(* Login. *)

\* LoginUseCase.issue: the person's row is locked, then its cut-off and its
\* material are judged again.
\* Mutant: the material is not compared again under the lock.
MaterialStandsUnchecked(q) == TRUE

MaterialStands(q) == material.stamp = q.stamp

AfterCutoff(q) == cutoff = 0 \/ q.at > cutoff

LoginRefused(r) ==
    /\ Ready(r, "login")
    /\ \/ ~AfterCutoff(req[r]) /\ RefuseTx(r, FALSE)
       \/ AfterCutoff(req[r]) /\ ~MaterialStands(req[r]) /\ RefuseTx(r, TRUE)
       \/ /\ AfterCutoff(req[r]) /\ MaterialStands(req[r]) /\ ~Settles(req[r].shown)
          /\ RefuseTx(r, CountsAsAttempt(req[r].shown))

LoginIssue(r) ==
    LET q == req[r]
        methods == {"password"} \cup ({q.shown.kind} \ {"none"})
    IN
    /\ Ready(r, "login")
    /\ AfterCutoff(q) /\ MaterialStands(q) /\ Settles(q.shown)
    /\ \E s \in Sessions :
        /\ sess[s].st = "free"
        /\ sess' = [sess EXCEPT ![s] = Issue(s, q.at, methods, q.gen)]
    /\ RememberFirst(q.at)
    /\ totp' = SettledTotp(q.shown)
    /\ codes' = SettledCodes(q.shown)
    /\ Spend(q.shown)
    /\ failures' = FailuresAfter(LevelOf(methods), q.enrolled)
    /\ req' = [req EXCEPT ![r] =
                  IF material.outdated THEN [q EXCEPT !.phase = "rewrite"] ELSE Idle]
    /\ UNCHANGED <<scene, clock, cutoff, material, gen, minted, mailed, recovery>>

\* rewriteIfNeeded: a fresh hash of the presented password replaces whatever the
\* row holds by then, in a transaction that locks no person.
Rewrite(r) ==
    /\ req[r].phase = "rewrite"
    /\ material' = [gen |-> req[r].gen, stamp |-> material.stamp + 1,
                    outdated |-> FALSE]
    /\ req' = [req EXCEPT ![r] = Idle]
    /\ UNCHANGED <<scene, clock, cutoff, first, gen, sess, factorVars, mailed,
                   recovery, failures, spent>>

-----------------------------------------------------------------------------
(* Password change and recovery. *)

\* A new password is chosen.
NewPassword ==
    /\ gen < MaxGen
    /\ gen' = gen + 1
    /\ material' = [gen |-> gen + 1, stamp |-> material.stamp + 1,
                    outdated |-> FALSE]

\* ChangePasswordUseCase.Execute: the own session must still be live for the
\* bearer to rotate; otherwise everything is rolled back.
ChangePassword(r) ==
    LET s == req[r].s IN
    /\ Ready(r, "change")
    /\ IF Live(s)
       THEN /\ NewPassword
            /\ sess' = [EndedBut({s}) EXCEPT ![s].gen = gen + 1]
            /\ cutoff' = Larger(cutoff, RevocationMoment(s))
            /\ req' = [req EXCEPT ![r] = Idle]
            /\ UNCHANGED <<scene, clock, first, factorVars, mailed, recovery, failures,
                           spent>>
       ELSE RefuseTx(r, FALSE)

\* RequestRecoveryUseCase.write: the new code supersedes the unused ones.
RequestRecovery ==
    /\ "recover" \in Verbs
    /\ mailed < MaxCodes
    /\ mailed' = mailed + 1
    /\ recovery' = {mailed + 1}
    /\ UNCHANGED <<scene, clock, cutoff, first, material, gen, sess, factorVars,
                   failures, spent, req>>

\* CompleteRecoveryUseCase: the code is consumed by the same transaction that
\* puts the new password, ends every session, raises the cut-off to the moment
\* read before it and issues a session one unit of resolution later.
CompleteRecovery(r) ==
    LET q == req[r] IN
    /\ Ready(r, "recover")
    /\ IF q.shown.n \in recovery
       THEN /\ NewPassword
            /\ recovery' = recovery \ {q.shown.n}
            /\ cutoff' = Larger(cutoff, q.at)
            /\ \E s \in Sessions :
                /\ sess[s].st = "free"
                /\ sess' = [EndedBut({}) EXCEPT
                              ![s] = Issue(s, q.at + 1, {"recovery_code"}, gen + 1)]
            /\ RememberFirst(q.at + 1)
            /\ failures' = FailuresAfter(1, FactorEnrolled)
            /\ Spend(q.shown)
            /\ req' = [req EXCEPT ![r] = Idle]
            /\ UNCHANGED <<scene, clock, factorVars, mailed>>
       ELSE RefuseTx(r, TRUE)

-----------------------------------------------------------------------------
(* Ending sessions. *)

\* LogoutUseCase: the row is ended if it is not yet, with a cut-off for what is not
\* of this lane.
Logout(s) ==
    /\ "logout" \in Verbs
    /\ Live(s)
    /\ sess' = [sess EXCEPT ![s].st = "ended"]
    /\ cutoff' = Larger(cutoff, RevocationMoment(s))
    /\ UNCHANGED <<scene, clock, first, material, gen, factorVars, mailed, recovery,
                   failures, spent, req>>

\* EndOwnSession and EndOtherOwnSessions: the acting session is read again under
\* the person's lock.
EndOwnSessions(s) ==
    /\ "endown" \in Verbs
    /\ Live(s)
    /\ \E keep \in {Sessions \ {t} : t \in Sessions \ {s}} \cup {{s}} :
        sess' = EndedBut(keep)
    /\ UNCHANGED <<scene, clock, cutoff, first, material, gen, factorVars, mailed,
                   recovery, failures, spent, req>>

\* ForceLogout reads its moment, creates the operation and only then opens the
\* transaction.
ForceLogoutMoment(r) ==
    /\ "force" \in Verbs
    /\ req[r] = Idle
    /\ req' = [req EXCEPT ![r] = [Idle EXCEPT !.verb = "force", !.phase = "ready",
                                              !.at = clock]]
    /\ UNCHANGED <<scene, clock, cutoff, first, material, gen, sess, factorVars,
                   mailed, recovery, failures, spent>>

\* commitOwnForceLogout, with the teardown of the sessions or, when that step
\* failed, as the partial outcome that leaves only the cut-off.
ForceLogout(r) ==
    /\ Ready(r, "force")
    /\ cutoff' = Larger(cutoff, req[r].at)
    /\ \E keep \in {{}, Sessions} : sess' = EndedBut(keep)
    /\ req' = [req EXCEPT ![r] = Idle]
    /\ UNCHANGED <<scene, clock, first, material, gen, factorVars, mailed, recovery,
                   failures, spent>>

-----------------------------------------------------------------------------
(* The second factor. *)

\* StepUpUseCase, password or code: PresentInSession refuses an ended session.
StepUp(r) ==
    LET q == req[r]
        method == IF q.shown = Nothing THEN "password" ELSE q.shown.kind
        row == Presented(sess[q.s], q.methods, method)
    IN
    /\ Ready(r, "stepup")
    /\ IF ~Settles(q.shown) THEN RefuseTx(r, CountsAsAttempt(q.shown))
       ELSE IF ~Live(q.s) THEN RefuseTx(r, FALSE)
       ELSE /\ sess' = [sess EXCEPT ![q.s] = row]
            /\ totp' = SettledTotp(q.shown)
            /\ codes' = SettledCodes(q.shown)
            /\ Spend(q.shown)
            /\ failures' = FailuresAfter(row.level, q.enrolled)
            /\ req' = [req EXCEPT ![r] = Idle]
            /\ UNCHANGED <<scene, clock, cutoff, first, material, gen, minted, mailed,
                           recovery>>

\* EnrollSecondFactorUseCase: one upsert that replaces any row but an active one.
Enroll(s) ==
    /\ "confirm" \in Verbs
    /\ Live(s) /\ ~FactorEnrolled
    /\ minted < MaxSecrets
    /\ minted' = minted + 1
    /\ totp' = [st |-> "pending", secret |-> minted + 1, step |-> 0]
    /\ UNCHANGED <<scene, clock, cutoff, first, material, gen, sess, codes, mailed,
                   recovery, failures, spent, req>>

\* ConfirmSecondFactorUseCase: the row is activated only if it is still the
\* enrolment the code was verified against.
SameEnrolment(q) == totp.st = "pending" /\ totp.secret = q.shown.secret

Confirm(r) ==
    LET q == req[r]
        row == Presented(sess[q.s], q.methods, "totp")
    IN
    /\ Ready(r, "confirm")
    /\ IF ~SameEnrolment(q) \/ ~Live(q.s) THEN RefuseTx(r, FALSE)
       ELSE /\ totp' = [st |-> "active", secret |-> totp.secret, step |-> q.shown.n]
            /\ codes' = {totp.secret}
            /\ sess' = [sess EXCEPT ![q.s] = row]
            /\ Spend(q.shown)
            /\ failures' = FailuresAfter(row.level, q.enrolled)
            /\ req' = [req EXCEPT ![r] = Idle]
            /\ UNCHANGED <<scene, clock, cutoff, first, material, gen, minted, mailed,
                           recovery>>

\* RemoveSecondFactor: one statement takes the TOTP row and the set of codes.
RemovedFactor ==
    /\ totp' = [st |-> "none", secret |-> 0, step |-> 0]
    /\ codes' = {}

\* RemoveSecondFactorUseCase: the code is spent, both rows go, the other
\* sessions end.
Remove(r) ==
    LET q == req[r]
        row == Presented(sess[q.s], q.methods, q.shown.kind)
    IN
    /\ Ready(r, "remove")
    /\ IF ~Settles(q.shown) THEN RefuseTx(r, CountsAsAttempt(q.shown))
       ELSE IF ~FactorEnrolled \/ ~Live(q.s) THEN RefuseTx(r, FALSE)
       ELSE /\ RemovedFactor
            /\ sess' = [EndedBut({q.s}) EXCEPT ![q.s] = row]
            /\ Spend(q.shown)
            /\ failures' = FailuresAfter(row.level, q.enrolled)
            /\ req' = [req EXCEPT ![r] = Idle]
            /\ UNCHANGED <<scene, clock, cutoff, first, material, gen, minted, mailed,
                           recovery>>

\* RegenerateBackupCodesUseCase: the code is spent against the old set, and a
\* new set takes its place.
Regenerate(r) ==
    LET q == req[r]
        row == Presented(sess[q.s], q.methods, q.shown.kind)
    IN
    /\ Ready(r, "regenerate")
    /\ IF ~Settles(q.shown) THEN RefuseTx(r, CountsAsAttempt(q.shown))
       ELSE IF ~Live(q.s) THEN RefuseTx(r, FALSE)
       ELSE /\ minted < MaxSecrets
            /\ minted' = minted + 1
            /\ codes' = {minted + 1}
            /\ totp' = SettledTotp(q.shown)
            /\ sess' = [sess EXCEPT ![q.s] = row]
            /\ Spend(q.shown)
            /\ failures' = FailuresAfter(row.level, q.enrolled)
            /\ req' = [req EXCEPT ![r] = Idle]
            /\ UNCHANGED <<scene, clock, cutoff, first, material, gen, mailed, recovery>>

\* ResetSecondFactorUseCase.doReset by the cloud administrator: the moment of
\* the cut-off is read inside the transaction.
ResetSecondFactor ==
    /\ "reset" \in Verbs
    /\ FactorEnrolled
    /\ RemovedFactor
    /\ cutoff' = Larger(cutoff, clock)
    /\ UNCHANGED <<scene, clock, first, material, gen, sess, minted, mailed, recovery,
                   failures, spent, req>>

-----------------------------------------------------------------------------
Next ==
    \/ Tick \/ WindowPasses \/ RequestRecovery \/ ResetSecondFactor
    \/ \E r \in Requests :
        \/ Admit(r) \/ Verify(r) \/ ReadBeforeWrite(r) \/ RecordFailure(r)
        \/ Abandon(r) \/ LoginRefused(r) \/ LoginIssue(r) \/ Rewrite(r)
        \/ ChangePassword(r) \/ CompleteRecovery(r)
        \/ ForceLogoutMoment(r) \/ ForceLogout(r)
        \/ StepUp(r) \/ Confirm(r) \/ Remove(r) \/ Regenerate(r)
    \/ \E s \in Sessions : Logout(s) \/ EndOwnSessions(s) \/ Enroll(s)

Spec == Init /\ [][Next]_vars

-----------------------------------------------------------------------------
(* Properties. *)

\* A live session rests on the password the person chose last: whoever logged in
\* with an earlier one lost the session when it was replaced, and a login that
\* verified the earlier one and was overtaken by the change got none
\* (login.go issue, change_password.go, recovery_complete.go).
LiveSessionsRestOnTheLastPassword ==
    \A s \in Sessions : Live(s) => sess[s].gen = gen

\* A password that was replaced stays replaced: the stored material is that of
\* the last choice, whatever logins were under way (login.go rewriteIfNeeded).
ReplacedPasswordStaysReplaced == material.gen = gen

\* One-time evidence is accepted once, however many calls of however many verbs
\* present it at the same time: a TOTP step of a secret, a backup code, a
\* recovery code (sf_present.go settle, recovery_code_repo.go).
EvidenceIsSpentOnce ==
    \A e \in BagToSet(spent) : spent[e] = 1

\* A live session never loses a level or a method, and is at level 2 only with the
\* methods that give it, although every verb computes its candidate from a row read
\* before its transaction (session_level.go, human_session_repo.go
\* PresentInSession).
LevelsAreEarnedAndKept ==
    [][\A s \in Sessions :
         /\ Live(s) => /\ sess'[s].level >= sess[s].level
                       /\ sess[s].methods \subseteq sess'[s].methods
         /\ sess'[s].level = 2 => LevelOf(sess'[s].methods) = 2]_vars

\* A session's level is what the rule gives for the methods presented in it
\* (step_up.go: the set takes the method and the level is recomputed).
\* The code does not keep this: see section 7 of the README.
LevelIsWhatWasPresented ==
    \A s \in Sessions : Live(s) => sess[s].level = LevelOf(sess[s].methods)

\* The gate is read before the failure it allows is recorded, so calls under way
\* overshoot the limit: the last failure it lets pass is one below the limit, and each
\* call under way then records as many as a call of this scene may
\* (rate.go check and recordFailure, step_up.go recordRefusal).
RecordsPerCall == IF "stepup" \in Verbs THEN 2 ELSE 1

OvershootIsBounded ==
    failures <= AddressAttempts - 1 + RecordsPerCall * Cardinality(Requests)

Born(s) == ~Live(s) /\ sess'[s].st = "live"

\* A session that is left live is cut off only by an administrator.  A logout or a
\* change of the password ends the sessions it means to end by their rows, and raises
\* the person's cut-off too; that cut-off is before every session there is, although
\* logins read their moments early and commit in another order (logout.go
\* revocationMoment, human_session_repo.go RememberFirstAuthentication).
Servable(s) == Live(s) /\ sess[s].auth > cutoff

OnlyAnAdministratorCutsOff ==
    [][\A s \in Sessions :
         Servable(s) /\ Live(s)' /\ ~Servable(s)' =>
           ResetSecondFactor \/ \E r \in Requests : ForceLogout(r)]_vars

\* Every session is authenticated later than the cut-off standing when it is
\* issued, the one of a completed recovery too (recovery_complete.go complete).
\* The code does not keep this: see section 7 of the README.
SessionIsBornServable ==
    [][\A s \in Sessions : Born(s) => sess'[s].auth > cutoff']_vars

\* The counter of an address is reset only by a login that reached the level of
\* all factors the person has (completed_login.go).
\* The code does not keep this: see section 7 of the README.
ResetNeedsACompletedLogin ==
    [][failures' < failures /\ sess' # sess =>
         \E s \in Sessions :
           /\ sess'[s] # sess[s] /\ sess'[s].st = "live"
           /\ sess'[s].level >= RequiredLevel(FactorEnrolled)]_vars
=============================================================================
