------------------------- MODULE HumanSessionProofs -------------------------
(***************************************************************************)
(* Proofs about the login lane, for any number of calls under way and of   *)
(* sessions, any limit and any scene.  IInv says what a call in progress   *)
(* has been given and the rows hold; to it are added, each for one group   *)
(* of theorems, the count of the calls the gate has let through, what ties *)
(* the stored password to the sessions and to the calls that verified it,  *)
(* what keeps the memory of the first authentication before every live     *)
(* session, and what keeps accepted evidence from being accepted again.    *)
(***************************************************************************)
EXTENDS HumanSession, TLAPS, FiniteSetTheorems

-----------------------------------------------------------------------------
(* The invariant of rows and calls. *)

\* Only an active factor has backup codes, and one recovery code is usable.
FactorInv ==
    /\ codes # {} => FactorEnrolled
    /\ \A a, b \in recovery : a = b
    /\ totp.secret <= minted
    /\ totp.st = "pending" => totp.secret # 0

\* What is known of a call by the phase it is in: the verb takes part in the scene and
\* passes the gate, what it presents exists, and a moment was read before "ready".
CallInv(q) ==
    /\ q.verb \in Verbs \cup {"idle"}
    /\ q.phase \in {"admitted", "verified", "refused"} => q.verb \in GatedVerbs
    /\ q.phase = "ready" => q.verb \in GatedVerbs \cup {"force"} /\ q.at # 0
    /\ q.phase = "rewrite" => q.verb = "login"
    /\ q.verb \in SessionVerbs => q.s \in Sessions
    /\ q.verb \in GatedVerbs => q.shown \in Shown(q.verb)

CallsInv == \A r \in Requests : CallInv(req[r])

\* Level 2 is earned by the methods that give it.
LevelInv == \A s \in Sessions : sess[s].level = 2 => LevelOf(sess[s].methods) = 2

IInv == TypeOK /\ FactorInv /\ CallsInv /\ LevelInv

-----------------------------------------------------------------------------
(* Lemmas about the operators. *)

LEMMA SceneIsTyped ==
    ASSUME scene \in Scenes
    PROVE  /\ Verbs \subseteq AllVerbs /\ Steps \subseteq 1 .. 2
           /\ scene.outdated \in BOOLEAN /\ scene.enrolled \in BOOLEAN
           /\ MaxNow \in Nat /\ MaxGen \in Nat /\ MaxSecrets \in Nat /\ MaxCodes \in Nat
BY ScenesAssumption DEF Scene, Verbs, Steps, MaxNow, MaxGen, MaxSecrets, MaxCodes

LEMMA IdleIsTyped == Idle \in Call /\ FreeRow \in Row /\ Nothing \in Evidence
BY DEF Idle, Call, Evidence, Nothing, NoSession, FreeRow, Row

\* What a verb presents is of the kinds it takes, and exists.
LEMMA ShownIsTyped ==
    ASSUME TypeOK, NEW verb \in GatedVerbs, NEW f \in Shown(verb)
    PROVE  /\ f \in Evidence
           /\ f.kind \in {"none", "totp", "lookup_secret", "recovery_code"}
           /\ f.kind = "none" => f = Nothing
           /\ f.kind = "totp" => f.n \in Steps /\ f.secret <= minted
           /\ f.kind = "lookup_secret" => f.n \in 1 .. minted
           /\ f.kind = "recovery_code" => f.n \in 1 .. mailed
           /\ verb = "recover" <=> f.kind = "recovery_code"
           /\ verb = "confirm" => f.kind = "totp"
           /\ verb \in CodeVerbs => f.kind \in {"totp", "lookup_secret"}
           /\ verb = "change" => f = Nothing
<1>1. Steps \subseteq 1 .. 2 /\ minted \in Nat /\ mailed \in Nat
  BY SceneIsTyped DEF TypeOK
<1>2. \/ f = Nothing /\ verb \notin {"recover", "confirm"} \cup CodeVerbs
      \/ verb \notin {"change", "recover"} /\ \E x \in 1 .. minted, t \in Steps : f = Totp(x, t)
      \/ /\ verb \notin {"change", "recover", "confirm"}
         /\ \E n \in 1 .. minted : f = Backup(n)
      \/ verb = "recover" /\ \E n \in 1 .. mailed : f = RecoveryCode(n)
  <2>1. CASE verb = "change"
    BY <2>1 DEF Shown, CodeVerbs
  <2>2. CASE verb = "recover"
    BY <2>2 DEF Shown, CodeVerbs
  <2>3. CASE verb = "confirm"
    BY <2>3 DEF Shown, CodeVerbs
  <2>4. CASE verb \in CodeVerbs
    BY <2>4 DEF Shown, CodeVerbs
  <2>5. CASE verb \notin {"change", "recover", "confirm"} \cup CodeVerbs
    BY <2>5 DEF Shown, CodeVerbs
  <2> QED
    BY <2>1, <2>2, <2>3, <2>4, <2>5
<1> QED
  BY <1>1, <1>2 DEF Nothing, Totp, Backup, RecoveryCode, Evidence, Methods, CodeVerbs

\* Secrets and codes once minted stay there to be presented.
LEMMA ShownGrows ==
    ASSUME TypeOK, minted' \in Nat, mailed' \in Nat, minted <= minted', mailed <= mailed',
           scene' = scene, NEW verb, NEW f \in Shown(verb)
    PROVE  f \in Shown(verb)'
<1>1. 1 .. minted \subseteq 1 .. minted' /\ 1 .. mailed \subseteq 1 .. mailed'
  BY DEF TypeOK
<1>2. CASE verb = "change"
  BY <1>2 DEF Shown, CodeVerbs
<1>3. CASE verb = "recover"
  BY <1>1, <1>3 DEF Shown, CodeVerbs
<1>4. CASE verb = "confirm"
  BY <1>1, <1>4 DEF Shown, Steps
<1>5. CASE verb \in CodeVerbs
  BY <1>1, <1>5 DEF Shown, CodeVerbs, Steps
<1>6. CASE verb \notin {"change", "recover", "confirm"} \cup CodeVerbs
  BY <1>1, <1>6 DEF Shown, CodeVerbs, Steps
<1> QED
  BY <1>2, <1>3, <1>4, <1>5, <1>6

\* More methods never give a lower level.
LEMMA LevelsAreMonotone ==
    ASSUME NEW ms, NEW ns, ms \subseteq ns
    PROVE  /\ LevelOf(ms) \in {1, 2} /\ LevelOf(ms) <= LevelOf(ns)
           /\ LevelOf(ms) = 2 => LevelOf(ns) = 2
BY DEF LevelOf

\* A presentation adds the methods, and raises the level if it changes it.
LEMMA PresentedRaises ==
    ASSUME NEW row \in Row, NEW read \in SUBSET Methods, NEW method \in Methods,
           row.level = 2 => LevelOf(row.methods) = 2
    PROVE  LET new == Presented(row, read, method) IN
           /\ new \in Row
           /\ new.st = row.st /\ new.gen = row.gen
           /\ new.level >= row.level /\ row.methods \subseteq new.methods
           /\ new.level = 2 => LevelOf(new.methods) = 2
<1> DEFINE new == Presented(row, read, method)
<1>1. /\ new.methods = row.methods \cup read \cup {method}
      /\ new.level = Larger(row.level, LevelOf(read \cup {method}))
      /\ new.st = row.st /\ new.gen = row.gen /\ new.auth = row.auth
  BY DEF Presented, Row
<1>2. LevelOf(read \cup {method}) \in {1, 2} /\ row.level \in 0 .. 2
  BY LevelsAreMonotone DEF Row
<1>3. new.level \in {row.level, LevelOf(read \cup {method})} /\ new.level >= row.level
      /\ new.level \in 0 .. 2
  BY <1>1, <1>2 DEF Larger
<1>4. new.level = 2 => LevelOf(new.methods) = 2
  <2>1. row.methods \subseteq new.methods /\ read \cup {method} \subseteq new.methods
    BY <1>1
  <2> QED
    BY <1>3, <2>1, LevelsAreMonotone
<1>5. new \in Row
  <2>1. row.methods \cup read \cup {method} \in SUBSET Methods
    BY DEF Row
  <2> QED
    BY <1>1, <1>3, <2>1 DEF Presented, Row
<1> QED
  BY <1>1, <1>3, <1>4, <1>5

\* Ending sessions changes nothing else about them.
LEMMA EndedButEnds ==
    ASSUME TypeOK, NEW keep
    PROVE  /\ EndedBut(keep) \in [Sessions -> Row]
           /\ \A s \in Sessions :
                /\ EndedBut(keep)[s] = IF Live(s) /\ s \notin keep
                                       THEN [sess[s] EXCEPT !.st = "ended"] ELSE sess[s]
                /\ EndedBut(keep)[s].methods = sess[s].methods
                /\ EndedBut(keep)[s].level = sess[s].level
                /\ EndedBut(keep)[s].gen = sess[s].gen
                /\ EndedBut(keep)[s].auth = sess[s].auth
<1>1. \A s \in Sessions : sess[s] \in Row
  BY DEF TypeOK
<1> QED
  BY <1>1 DEF EndedBut, Row

-----------------------------------------------------------------------------
(* What every step does. *)

\* Secrets, codes and mails are only added.
Grows ==
    /\ scene' = scene
    /\ minted' \in Nat /\ minted <= minted'
    /\ mailed' \in Nat /\ mailed <= mailed'

\* What a step may do to a session.
SessionMove(s) ==
    /\ Live(s) => /\ sess'[s].level >= sess[s].level
                  /\ sess[s].methods \subseteq sess'[s].methods
    /\ sess'[s].level = 2 => LevelOf(sess'[s].methods) = 2

\* The step leaves the invariant standing and moves sessions as it may.
Sound == IInv' /\ \A s \in Sessions : SessionMove(s)

LEMMA StillSessionsMove ==
    ASSUME IInv, sess' = sess
    PROVE  LevelInv' /\ \A s \in Sessions : SessionMove(s)
<1>1. \A s \in Sessions : sess[s].level \in 0 .. 2
  BY DEF IInv, TypeOK, Row
<1> QED
  BY <1>1 DEF IInv, LevelInv, SessionMove

LEMMA MovedSessionsAreEarned ==
    ASSUME \A s \in Sessions : SessionMove(s)
    PROVE  LevelInv'
BY DEF SessionMove, LevelInv

\* What is known of a call does not depend on what the step changed elsewhere.
LEMMA CallStands ==
    ASSUME IInv, Grows, NEW q, CallInv(q)
    PROVE  CallInv(q)'
<1>1. Verbs' = Verbs
  BY DEF Grows, Verbs
<1>2. q.verb \in GatedVerbs => q.shown \in Shown(q.verb)'
  BY ShownGrows DEF CallInv, Grows, IInv
<1> QED
  BY <1>1, <1>2 DEF CallInv

LEMMA StillCallsStand ==
    ASSUME IInv, Grows, req' = req
    PROVE  CallsInv'
BY CallStands DEF IInv, CallsInv

\* A step of one call: it suffices to look at that call, in the state before the step.
LEMMA OneCallMoves ==
    ASSUME IInv, Grows, NEW r \in Requests, NEW q \in Call, CallInv(q),
           req' = [req EXCEPT ![r] = q]
    PROVE  req' \in [Requests -> Call] /\ CallsInv'
<1>1. req \in [Requests -> Call] /\ \A y \in Requests : CallInv(req[y])
  BY DEF IInv, TypeOK, CallsInv
<1>2. req' \in [Requests -> Call]
  BY <1>1
<1>3. req'[r] = q /\ \A y \in Requests \ {r} : req'[y] = req[y]
  BY <1>1
<1>4. \A y \in Requests : CallInv(req'[y])
  BY <1>1, <1>3
<1>5. ASSUME NEW y \in Requests PROVE CallInv(req[y])'
  <2>1. PICK x : x = req'[y]
    OBVIOUS
  <2>2. CallInv(x)
    BY <1>4, <2>1
  <2>3. CallInv(x)'
    BY <2>2, CallStands
  <2> QED
    BY <2>1, <2>3 DEF CallInv, Shown
<1> QED
  BY <1>2, <1>5 DEF CallsInv

LEMMA InitInv == Init => IInv
<1> SUFFICES ASSUME Init PROVE IInv
  OBVIOUS
<1>1. scene \in Scenes /\ scene.enrolled \in BOOLEAN /\ scene.outdated \in BOOLEAN
  BY SceneIsTyped DEF Init
<1>2. TypeOK
  <2>1. IsABag(spent)
    BY DEF Init, EmptyBag, SetToBag, IsABag
  <2>2. sess \in [Sessions -> Row] /\ req \in [Requests -> Call]
    BY IdleIsTyped DEF Init
  <2>3. /\ totp \in [st : {"none", "pending", "active"}, secret : Nat, step : Nat]
        /\ material \in [gen : Nat, stamp : Nat, outdated : BOOLEAN]
    BY <1>1 DEF Init
  <2>4. minted \in Nat /\ codes \subseteq 1 .. minted
    BY <1>1 DEF Init
  <2> QED
    BY <1>1, <2>1, <2>2, <2>3, <2>4 DEF Init, TypeOK
<1>3. FactorInv
  BY <1>1 DEF Init, FactorInv, FactorEnrolled
<1>4. CallsInv
  BY DEF Init, CallsInv, CallInv, Idle, GatedVerbs, SessionVerbs
<1>5. LevelInv
  BY DEF Init, LevelInv, FreeRow
<1> QED
  BY <1>2, <1>3, <1>4, <1>5 DEF IInv

\* Steps outside the calls.
LEMMA SurroundingsAreSound ==
    ASSUME IInv, Tick \/ WindowPasses \/ RequestRecovery \/ ResetSecondFactor
    PROVE  Sound
<1>1. /\ clock' \in Nat \ {0} /\ cutoff' \in Nat /\ failures' \in Nat
      /\ totp' \in [st : {"none", "pending", "active"}, secret : Nat, step : Nat]
      /\ codes' \subseteq 1 .. minted /\ mailed' \in Nat /\ mailed <= mailed'
      /\ recovery' \subseteq 1 .. mailed' /\ FactorInv'
  <2>1. CASE Tick
    BY <2>1 DEF IInv, TypeOK, Tick, factorVars, FactorInv, FactorEnrolled
  <2>2. CASE WindowPasses
    BY <2>2 DEF IInv, TypeOK, WindowPasses, factorVars, FactorInv, FactorEnrolled
  <2>3. CASE RequestRecovery
    BY <2>3 DEF IInv, TypeOK, RequestRecovery, factorVars, FactorInv, FactorEnrolled
  <2>4. CASE ResetSecondFactor
    BY <2>4 DEF IInv, TypeOK, ResetSecondFactor, RemovedFactor, Larger, FactorInv, FactorEnrolled
  <2> QED
    BY <2>1, <2>2, <2>3, <2>4
<1>2. sess' = sess /\ req' = req /\ minted' = minted /\ scene' = scene /\ first' = first
      /\ material' = material /\ gen' = gen /\ spent' = spent
  BY DEF Tick, WindowPasses, RequestRecovery, ResetSecondFactor, factorVars
<1>3. TypeOK'
  BY <1>1, <1>2 DEF IInv, TypeOK
<1>4. Grows
  BY <1>1, <1>2 DEF Grows, IInv, TypeOK
<1> QED
  BY <1>1, <1>2, <1>3, <1>4, StillCallsStand, StillSessionsMove DEF IInv, Sound

\* Steps that change nothing but a call, and perhaps the count of failures or the stored
\* verifier.
LEMMA CallStepIsSound ==
    ASSUME IInv, NEW r \in Requests, NEW q \in Call, CallInv(q), req' = [req EXCEPT ![r] = q],
           failures' \in Nat, material' \in [gen : Nat, stamp : Nat, outdated : BOOLEAN],
           UNCHANGED <<scene, clock, cutoff, first, gen, sess, factorVars, mailed, recovery,
                       spent>>
    PROVE  Sound
<1>1. Grows
  BY DEF IInv, TypeOK, Grows, factorVars
<1>2. req' \in [Requests -> Call] /\ CallsInv'
  BY <1>1, OneCallMoves
<1>3. TypeOK'
  BY <1>2 DEF IInv, TypeOK, factorVars
<1>4. FactorInv'
  BY DEF IInv, FactorInv, FactorEnrolled, factorVars
<1> QED
  BY <1>2, <1>3, <1>4, StillSessionsMove DEF IInv, Sound

LEMMA IdleIsKnown == CallInv(Idle)
BY DEF CallInv, Idle, GatedVerbs, SessionVerbs

LEMMA AdmitIsSound ==
    ASSUME IInv, NEW r \in Requests, Admit(r)
    PROVE  Sound
<1>0. PICK verb \in GatedVerbs \cap Verbs, g \in 0 .. gen, s \in Sessions \cup {NoSession} :
        /\ IF verb \in SessionVerbs THEN s # NoSession /\ Live(s) ELSE s = NoSession
        /\ \E f \in Shown(verb) :
            req' = [req EXCEPT ![r] =
                [Idle EXCEPT !.verb = verb, !.phase = "admitted", !.s = s, !.gen = g,
                             !.shown = f,
                             !.methods = IF s = NoSession THEN {} ELSE sess[s].methods]]
  BY DEF Admit
<1>1. PICK f \in Shown(verb) :
        req' = [req EXCEPT ![r] =
                [Idle EXCEPT !.verb = verb, !.phase = "admitted", !.s = s, !.gen = g,
                             !.shown = f,
                             !.methods = IF s = NoSession THEN {} ELSE sess[s].methods]]
  BY <1>0
<1> DEFINE q == [Idle EXCEPT !.verb = verb, !.phase = "admitted", !.s = s, !.gen = g,
                             !.shown = f,
                             !.methods = IF s = NoSession THEN {} ELSE sess[s].methods]
<1>2. verb \in AllVerbs /\ g \in Nat /\ f \in Evidence
  <2>1. TypeOK /\ gen \in Nat /\ Verbs \subseteq AllVerbs
    BY SceneIsTyped DEF IInv, TypeOK
  <2> QED
    BY <2>1, ShownIsTyped
<1>3. (IF s = NoSession THEN {} ELSE sess[s].methods) \in SUBSET Methods
  BY DEF IInv, TypeOK, Row
<1>4. q \in Call
  BY <1>2, <1>3 DEF Idle, Call
<1>5. CallInv(q)
  BY <1>0, <1>1 DEF CallInv, Idle
<1>6. /\ failures' \in Nat /\ material' \in [gen : Nat, stamp : Nat, outdated : BOOLEAN]
      /\ UNCHANGED <<scene, clock, cutoff, first, gen, sess, factorVars, mailed, recovery, spent>>
  BY DEF Admit, IInv, TypeOK
<1> HIDE DEF q
<1> QED
  BY <1>1, <1>4, <1>5, <1>6, CallStepIsSound DEF q

LEMMA VerifyIsSound ==
    ASSUME IInv, NEW r \in Requests,
           Verify(r) \/ ReadBeforeWrite(r)
    PROVE  Sound
<1>1. req[r] \in Call /\ CallInv(req[r])
  BY DEF IInv, TypeOK, CallsInv
<1>2. /\ clock \in Nat \ {0} /\ material.stamp \in Nat /\ failures' \in Nat
      /\ material' \in [gen : Nat, stamp : Nat, outdated : BOOLEAN]
      /\ UNCHANGED <<scene, clock, cutoff, first, gen, sess, factorVars, mailed, recovery, spent>>
  BY DEF Verify, ReadBeforeWrite, IInv, TypeOK
<1>3. PICK q : req' = [req EXCEPT ![r] = q] /\ q \in Call /\ CallInv(q)
  <2>1. CASE Verify(r)
    <3> DEFINE q0 == IF PasswordRefused(req[r]) \/ CodeRefused(req[r])
                     THEN [req[r] EXCEPT !.phase = "refused"]
                     ELSE IF CodeDismissed(req[r]) THEN Idle
                     ELSE [req[r] EXCEPT !.phase = "verified", !.stamp = material.stamp]
    <3>1. req' = [req EXCEPT ![r] = q0] /\ req[r].phase = "admitted"
      BY <2>1 DEF Verify
    <3>2. q0 \in Call
      BY <1>1, <1>2, IdleIsTyped DEF Call
    <3>3. CallInv([req[r] EXCEPT !.phase = "refused"])
      BY <1>1, <3>1 DEF CallInv, Call
    <3>4. CallInv([req[r] EXCEPT !.phase = "verified", !.stamp = material.stamp])
      BY <1>1, <3>1 DEF CallInv, Call
    <3>5. CallInv(q0)
      BY <3>3, <3>4, IdleIsKnown
    <3> QED
      BY <3>1, <3>2, <3>5
  <2>2. CASE ReadBeforeWrite(r)
    <3> DEFINE q0 == [req[r] EXCEPT !.phase = "ready", !.at = clock, !.enrolled = FactorEnrolled]
    <3>1. req' = [req EXCEPT ![r] = q0] /\ req[r].phase = "verified"
      BY <2>2 DEF ReadBeforeWrite, IInv, TypeOK
    <3>2. q0 \in Call
      BY <1>1, <1>2 DEF Call, FactorEnrolled
    <3>3. CallInv(q0)
      BY <1>1, <1>2, <3>1 DEF CallInv, Call
    <3> QED
      BY <3>1, <3>2, <3>3
  <2> QED
    BY <2>1, <2>2
<1> QED
  BY <1>2, <1>3, CallStepIsSound

\* A transaction that refuses, whoever's it is.
LEMMA RefusalIsSound ==
    ASSUME IInv, NEW r \in Requests, NEW counted,
           req[r].phase = "ready", req[r].verb # "force", RefuseTx(r, counted)
    PROVE  Sound
<1>1. req[r] \in Call /\ CallInv(req[r])
  BY DEF IInv, TypeOK, CallsInv
<1>2. [req[r] EXCEPT !.phase = "refused"] \in Call /\ CallInv([req[r] EXCEPT !.phase = "refused"])
  BY <1>1 DEF Call, CallInv
<1>3. PICK q : req' = [req EXCEPT ![r] = q] /\ q \in Call /\ CallInv(q)
  BY <1>2, IdleIsTyped, IdleIsKnown DEF RefuseTx
<1>4. /\ failures' \in Nat /\ material' \in [gen : Nat, stamp : Nat, outdated : BOOLEAN]
      /\ UNCHANGED <<scene, clock, cutoff, first, gen, sess, factorVars, mailed, recovery, spent>>
  BY DEF RefuseTx, IInv, TypeOK
<1> QED
  BY <1>3, <1>4, CallStepIsSound

LEMMA EndOfCallIsSound ==
    ASSUME IInv, NEW r \in Requests,
           RecordFailure(r) \/ Abandon(r) \/ ForceLogoutMoment(r) \/ LoginRefused(r) \/ Rewrite(r)
    PROVE  Sound
<1>1. CASE RecordFailure(r) \/ Abandon(r) \/ Rewrite(r)
  <2>1. /\ req' = [req EXCEPT ![r] = Idle] /\ failures' \in Nat
        /\ UNCHANGED <<scene, clock, cutoff, first, gen, sess, factorVars, mailed, recovery, spent>>
    BY <1>1 DEF RecordFailure, Abandon, Rewrite, IInv, TypeOK
  <2>2. material' \in [gen : Nat, stamp : Nat, outdated : BOOLEAN]
    <3>1. CASE Rewrite(r)
      BY <3>1 DEF Rewrite, IInv, TypeOK, Call
    <3>2. CASE RecordFailure(r) \/ Abandon(r)
      BY <3>2 DEF RecordFailure, Abandon, IInv, TypeOK
    <3> QED
      BY <1>1, <3>1, <3>2
  <2> QED
    BY <2>1, <2>2, IdleIsTyped, IdleIsKnown, CallStepIsSound
<1>2. CASE ForceLogoutMoment(r)
  <2> DEFINE q == [Idle EXCEPT !.verb = "force", !.phase = "ready", !.at = clock]
  <2>1. /\ req' = [req EXCEPT ![r] = q] /\ failures' \in Nat /\ "force" \in Verbs
        /\ UNCHANGED <<scene, clock, cutoff, first, gen, sess, factorVars, mailed, recovery, spent>>
        /\ material' \in [gen : Nat, stamp : Nat, outdated : BOOLEAN] /\ clock \in Nat \ {0}
    BY <1>2 DEF ForceLogoutMoment, IInv, TypeOK
  <2>2. q \in Call
    BY <2>1, IdleIsTyped DEF Idle, Call, AllVerbs
  <2>3. CallInv(q)
    BY <2>1 DEF CallInv, Idle, GatedVerbs, SessionVerbs
  <2> QED
    BY <2>1, <2>2, <2>3, CallStepIsSound
<1>3. CASE LoginRefused(r)
  BY <1>3, RefusalIsSound DEF LoginRefused, Ready
<1> QED
  BY <1>1, <1>2, <1>3

\* A transaction that commits and is done with its call.
LEMMA WriteIsSound ==
    ASSUME IInv, NEW r \in Requests, NEW q \in Call, CallInv(q), req' = [req EXCEPT ![r] = q],
           scene' = scene, clock' = clock, mailed' = mailed,
           cutoff' \in Nat, first' \in Nat, gen' \in Nat, failures' \in Nat, IsABag(spent)',
           material' \in [gen : Nat, stamp : Nat, outdated : BOOLEAN],
           minted' \in Nat, minted <= minted', codes' \subseteq 1 .. minted',
           totp' \in [st : {"none", "pending", "active"}, secret : Nat, step : Nat],
           recovery' \subseteq recovery, FactorInv',
           sess' \in [Sessions -> Row], \A s \in Sessions : SessionMove(s)
    PROVE  Sound
<1>1. Grows /\ mailed \in Nat /\ clock \in Nat \ {0} /\ recovery \subseteq 1 .. mailed /\ scene \in Scenes
  BY DEF IInv, TypeOK, Grows
<1>2. req' \in [Requests -> Call] /\ CallsInv'
  BY <1>1, OneCallMoves
<1>3. TypeOK'
  BY <1>1, <1>2 DEF TypeOK
<1> QED
  BY <1>2, <1>3, MovedSessionsAreEarned DEF IInv, Sound

LEMMA SpentIsABag ==
    ASSUME IsABag(spent), NEW f, Spend(f)
    PROVE  IsABag(spent)'
<1>1. CASE f = Nothing
  BY <1>1 DEF Spend
<1>2. CASE f # Nothing
  <2>1. spent' = spent (+) SetToBag({f})
    BY <1>2 DEF Spend
  <2>2. DOMAIN spent' = DOMAIN spent \cup {f}
    BY <2>1 DEF SetToBag, (+)
  <2> QED
    BY <2>1, <2>2 DEF IsABag, SetToBag, (+)
<1> QED
  BY <1>1, <1>2

\* What settling a code leaves behind.
LEMMA SettlingIsTyped ==
    ASSUME IInv, NEW verb \in GatedVerbs, NEW f \in Shown(verb), Settles(f)
    PROVE  /\ SettledTotp(f) \in [st : {"none", "pending", "active"}, secret : Nat, step : Nat]
           /\ SettledTotp(f).st = totp.st /\ SettledTotp(f).secret = totp.secret
           /\ SettledCodes(f) \subseteq codes
<1>1. TypeOK
  BY DEF IInv
<1>2. f.n \in Nat
  <2>1. f \in Evidence
    BY <1>1, ShownIsTyped
  <2> QED
    BY <2>1 DEF Evidence
<1> QED
  BY <1>1, <1>2 DEF TypeOK, SettledTotp, SettledCodes

LEMMA FailuresStayTyped ==
    ASSUME IInv, NEW level, NEW enrolled
    PROVE  FailuresAfter(level, enrolled) \in {0, failures} /\ FailuresAfter(level, enrolled) \in Nat
BY DEF IInv, TypeOK, FailuresAfter

LEMMA LoginIssueIsSound ==
    ASSUME IInv, NEW r \in Requests, LoginIssue(r)
    PROVE  Sound
<1> DEFINE q == req[r]
           methods == {"password"} \cup ({q.shown.kind} \ {"none"})
           after == IF material.outdated THEN [q EXCEPT !.phase = "rewrite"] ELSE Idle
<1>1. TypeOK /\ FactorInv /\ q \in Call /\ CallInv(q) /\ Ready(r, "login") /\ q.shown \in Shown("login")
      /\ Settles(q.shown)
  BY DEF IInv, TypeOK, CallsInv, LoginIssue, CallInv, Ready, GatedVerbs
<1>2. PICK s \in Sessions : /\ sess[s].st = "free"
                            /\ sess' = [sess EXCEPT ![s] = Issue(s, q.at, methods, q.gen)]
  BY DEF LoginIssue
<1>3. /\ RememberFirst(q.at) /\ totp' = SettledTotp(q.shown) /\ codes' = SettledCodes(q.shown)
      /\ Spend(q.shown) /\ failures' = FailuresAfter(LevelOf(methods), q.enrolled)
      /\ req' = [req EXCEPT ![r] = after]
      /\ UNCHANGED <<scene, clock, cutoff, material, gen, minted, mailed, recovery>>
  BY DEF LoginIssue
<1>4. after \in Call /\ CallInv(after)
  <2>1. [q EXCEPT !.phase = "rewrite"] \in Call /\ CallInv([q EXCEPT !.phase = "rewrite"])
    BY <1>1 DEF Call, CallInv, Ready
  <2> QED
    BY <2>1, IdleIsTyped, IdleIsKnown
<1>5. /\ totp' \in [st : {"none", "pending", "active"}, secret : Nat, step : Nat]
      /\ totp'.st = totp.st /\ totp'.secret = totp.secret /\ codes' \subseteq codes
  <2>1. "login" \in GatedVerbs
    BY DEF GatedVerbs
  <2> QED
    BY <1>1, <1>3, <2>1, SettlingIsTyped
<1>6. codes' \subseteq 1 .. minted' /\ FactorInv'
  BY <1>1, <1>3, <1>5 DEF TypeOK, FactorInv, FactorEnrolled
<1>7. methods \in SUBSET Methods /\ LevelOf(methods) \in {1, 2}
  <2>1. "login" \in GatedVerbs /\ "login" # "recover"
    BY DEF GatedVerbs
  <2>2. q.shown.kind \in {"none", "totp", "lookup_secret"}
    BY <1>1, <2>1, ShownIsTyped
  <2> QED
    BY <2>2, LevelsAreMonotone DEF Methods
<1> HIDE DEF methods, after
<1>8. Issue(s, q.at, methods, q.gen) \in Row
  BY <1>1, <1>7 DEF Issue, Row, Call
<1>9. sess' \in [Sessions -> Row]
  BY <1>1, <1>2, <1>8 DEF TypeOK
<1>10. \A x \in Sessions : SessionMove(x)
  <2> TAKE x \in Sessions
  <2>1. CASE x = s
    BY <1>1, <1>2, <2>1 DEF TypeOK, SessionMove, Issue, Live
  <2>2. CASE x # s
    <3>1. sess'[x] = sess[x] /\ sess[x].level \in 0 .. 2
      BY <1>1, <1>2, <2>2 DEF TypeOK, Row
    <3> QED
      BY <3>1 DEF SessionMove, IInv, LevelInv
  <2> QED
    BY <2>1, <2>2
<1>11. IsABag(spent)' /\ first' \in Nat /\ failures' \in Nat
  <2>1. q.at \in Nat
    BY <1>1 DEF Call
  <2> QED
    BY <1>1, <1>3, <2>1, SpentIsABag, FailuresStayTyped DEF TypeOK, RememberFirst
<1>12. cutoff' \in Nat /\ gen' \in Nat /\ minted' \in Nat /\ minted <= minted'
       /\ material' \in [gen : Nat, stamp : Nat, outdated : BOOLEAN]
  BY <1>1, <1>3 DEF TypeOK
<1> QED
  BY <1>3, <1>4, <1>5, <1>6, <1>9, <1>10, <1>11, <1>12, WriteIsSound

\* Whoever only loses sessions, or rebases them, leaves levels and methods alone.
LEMMA SameLevelsMove ==
    ASSUME IInv, \A s \in Sessions : sess'[s].level = sess[s].level /\ sess'[s].methods = sess[s].methods
    PROVE  \A s \in Sessions : SessionMove(s)
<1>1. \A s \in Sessions : sess[s].level \in 0 .. 2
  BY DEF IInv, TypeOK, Row
<1> QED
  BY <1>1 DEF SessionMove, IInv, LevelInv

\* The acting session takes the presented method; the others keep theirs.
LEMMA PresentingMoves ==
    ASSUME IInv, NEW s \in Sessions, NEW read \in SUBSET Methods, NEW method \in Methods,
           NEW base \in [Sessions -> Row],
           \A x \in Sessions : base[x].level = sess[x].level /\ base[x].methods = sess[x].methods,
           sess' = [base EXCEPT ![s] = Presented(sess[s], read, method)]
    PROVE  sess' \in [Sessions -> Row] /\ \A x \in Sessions : SessionMove(x)
<1>1. sess[s] \in Row /\ (sess[s].level = 2 => LevelOf(sess[s].methods) = 2)
  BY DEF IInv, TypeOK, LevelInv
<1> DEFINE new == Presented(sess[s], read, method)
<1>2. /\ new \in Row /\ new.level >= sess[s].level /\ sess[s].methods \subseteq new.methods
      /\ new.level = 2 => LevelOf(new.methods) = 2
  BY <1>1, PresentedRaises
<1> HIDE DEF new
<1>3. sess' = [base EXCEPT ![s] = new]
  BY DEF new
<1>4. sess' \in [Sessions -> Row]
  BY <1>2, <1>3
<1>5. sess'[s] = new /\ \A x \in Sessions \ {s} : sess'[x] = base[x]
  BY <1>3
<1>6. SessionMove(s)
  BY <1>2, <1>5 DEF SessionMove
<1>7. \A x \in Sessions \ {s} : SessionMove(x)
  <2>1. \A x \in Sessions : sess[x].level \in 0 .. 2
    BY DEF IInv, TypeOK, Row
  <2> QED
    BY <1>5, <2>1 DEF SessionMove, IInv, LevelInv
<1> QED
  BY <1>4, <1>6, <1>7

\* A write outside the calls.
LEMMA OutsideWriteIsSound ==
    ASSUME IInv, UNCHANGED <<scene, clock, first, material, gen, mailed, recovery, failures, spent, req>>,
           cutoff' \in Nat, minted' \in Nat, minted <= minted', codes' \subseteq 1 .. minted',
           totp' \in [st : {"none", "pending", "active"}, secret : Nat, step : Nat], FactorInv',
           sess' \in [Sessions -> Row], \A s \in Sessions : SessionMove(s)
    PROVE  Sound
<1>1. Grows
  BY DEF IInv, TypeOK, Grows
<1>2. TypeOK'
  BY DEF IInv, TypeOK
<1> QED
  BY <1>1, <1>2, StillCallsStand, MovedSessionsAreEarned DEF IInv, Sound

LEMMA CutoffsAreTyped ==
    ASSUME TypeOK, NEW s \in Sessions
    PROVE  RevocationMoment(s) \in Nat /\ Larger(cutoff, RevocationMoment(s)) \in Nat
<1>1. sess[s].auth \in Nat /\ first \in Nat /\ cutoff \in Nat
  BY DEF TypeOK, Row
<1> QED
  BY <1>1 DEF RevocationMoment, Larger

LEMMA SessionStepsAreSound ==
    ASSUME IInv, NEW s \in Sessions, Logout(s) \/ EndOwnSessions(s) \/ Enroll(s)
    PROVE  Sound
<1>1. TypeOK /\ FactorInv
  BY DEF IInv
<1>2. CASE Logout(s)
  <2>1. \A x \in Sessions : sess[x] \in Row
    BY <1>1 DEF TypeOK
  <2>2. sess' = [sess EXCEPT ![s].st = "ended"] /\ cutoff' = Larger(cutoff, RevocationMoment(s))
        /\ UNCHANGED <<scene, clock, first, material, gen, totp, codes, minted, mailed, recovery,
                       failures, spent, req>>
    BY <1>2 DEF Logout, factorVars
  <2>3. sess' \in [Sessions -> Row]
    BY <1>1, <2>1, <2>2 DEF TypeOK, Row
  <2>4. \A x \in Sessions : sess'[x].level = sess[x].level /\ sess'[x].methods = sess[x].methods
    BY <1>1, <2>2 DEF TypeOK, Row
  <2>5. FactorInv' /\ minted' \in Nat /\ minted <= minted' /\ codes' \subseteq 1 .. minted'
        /\ totp' \in [st : {"none", "pending", "active"}, secret : Nat, step : Nat]
    BY <1>1, <2>2 DEF FactorInv, FactorEnrolled, TypeOK
  <2> QED
    BY <1>1, <2>2, <2>3, <2>4, <2>5, CutoffsAreTyped, SameLevelsMove, OutsideWriteIsSound
<1>3. CASE EndOwnSessions(s)
  <2>1. PICK keep : sess' = EndedBut(keep)
    BY <1>3 DEF EndOwnSessions
  <2>2. UNCHANGED <<scene, clock, cutoff, first, material, gen, totp, codes, minted, mailed, recovery,
                    failures, spent, req>>
    BY <1>3 DEF EndOwnSessions, factorVars
  <2>3. /\ sess' \in [Sessions -> Row]
        /\ \A x \in Sessions : sess'[x].level = sess[x].level /\ sess'[x].methods = sess[x].methods
    BY <1>1, <2>1, EndedButEnds
  <2>4. FactorInv' /\ minted' \in Nat /\ minted <= minted' /\ codes' \subseteq 1 .. minted'
        /\ totp' \in [st : {"none", "pending", "active"}, secret : Nat, step : Nat] /\ cutoff' \in Nat
    BY <1>1, <2>2 DEF FactorInv, FactorEnrolled, TypeOK
  <2> QED
    BY <1>1, <2>2, <2>3, <2>4, SameLevelsMove, OutsideWriteIsSound
<1>4. CASE Enroll(s)
  <2>1. /\ minted' = minted + 1 /\ totp' = [st |-> "pending", secret |-> minted + 1, step |-> 0]
        /\ ~FactorEnrolled
        /\ UNCHANGED <<scene, clock, cutoff, first, material, gen, sess, codes, mailed, recovery,
                       failures, spent, req>>
    BY <1>4 DEF Enroll
  <2>2. FactorInv' /\ minted' \in Nat /\ minted <= minted' /\ codes' \subseteq 1 .. minted'
        /\ totp' \in [st : {"none", "pending", "active"}, secret : Nat, step : Nat] /\ cutoff' \in Nat
        /\ sess' \in [Sessions -> Row]
    BY <1>1, <2>1 DEF FactorInv, FactorEnrolled, TypeOK
  <2>3. \A x \in Sessions : SessionMove(x)
    BY <2>1, StillSessionsMove
  <2> QED
    BY <2>1, <2>2, <2>3, OutsideWriteIsSound
<1> QED
  BY <1>2, <1>3, <1>4

LEMMA ForceLogoutIsSound ==
    ASSUME IInv, NEW r \in Requests, ForceLogout(r)
    PROVE  Sound
<1>1. TypeOK /\ FactorInv /\ req[r] \in Call
  BY DEF IInv, TypeOK
<1>2. PICK keep : sess' = EndedBut(keep)
  BY DEF ForceLogout
<1>3. /\ cutoff' = Larger(cutoff, req[r].at) /\ req' = [req EXCEPT ![r] = Idle]
      /\ UNCHANGED <<scene, clock, first, material, gen, totp, codes, minted, mailed, recovery,
                     failures, spent>>
  BY DEF ForceLogout, factorVars
<1>4. /\ sess' \in [Sessions -> Row]
      /\ \A x \in Sessions : sess'[x].level = sess[x].level /\ sess'[x].methods = sess[x].methods
  BY <1>1, <1>2, EndedButEnds
<1>5. /\ cutoff' \in Nat /\ first' \in Nat /\ gen' \in Nat /\ failures' \in Nat /\ IsABag(spent)'
      /\ material' \in [gen : Nat, stamp : Nat, outdated : BOOLEAN]
      /\ FactorInv' /\ minted' \in Nat /\ minted <= minted' /\ codes' \subseteq 1 .. minted'
      /\ totp' \in [st : {"none", "pending", "active"}, secret : Nat, step : Nat]
  BY <1>1, <1>3 DEF FactorInv, FactorEnrolled, TypeOK, Larger, Call
<1> QED
  BY <1>3, <1>4, <1>5, IdleIsTyped, IdleIsKnown, SameLevelsMove, WriteIsSound

LEMMA ChangePasswordIsSound ==
    ASSUME IInv, NEW r \in Requests, ChangePassword(r)
    PROVE  Sound
<1> DEFINE s == req[r].s
<1>1. TypeOK /\ FactorInv /\ req[r] \in Call /\ Ready(r, "change") /\ s \in Sessions
  BY DEF IInv, TypeOK, CallsInv, CallInv, ChangePassword, Ready, SessionVerbs
<1>2. CASE ~Live(s)
  BY <1>1, <1>2, RefusalIsSound DEF ChangePassword, Ready
<1>3. CASE Live(s)
  <2>1. /\ NewPassword /\ sess' = [EndedBut({s}) EXCEPT ![s].gen = gen + 1]
        /\ cutoff' = Larger(cutoff, RevocationMoment(s)) /\ req' = [req EXCEPT ![r] = Idle]
        /\ UNCHANGED <<scene, clock, first, totp, codes, minted, mailed, recovery, failures, spent>>
    BY <1>3 DEF ChangePassword, factorVars
  <2> DEFINE base == EndedBut({s})
  <2>2. /\ base \in [Sessions -> Row]
        /\ \A x \in Sessions : base[x].level = sess[x].level /\ base[x].methods = sess[x].methods
    BY <1>1, EndedButEnds
  <2>3. sess' = [base EXCEPT ![s].gen = gen + 1] /\ gen \in Nat
    BY <1>1, <2>1 DEF TypeOK
  <2> HIDE DEF base
  <2>4. /\ sess' \in [Sessions -> Row]
        /\ \A x \in Sessions : sess'[x].level = sess[x].level /\ sess'[x].methods = sess[x].methods
    <3>1. /\ \A x \in Sessions \ {s} : sess'[x] = base[x]
          /\ sess'[s] = [base[s] EXCEPT !.gen = gen + 1] /\ DOMAIN sess' = Sessions
          /\ sess' = [x \in Sessions |-> IF x = s THEN [base[s] EXCEPT !.gen = gen + 1] ELSE base[x]]
      BY <1>1, <2>2, <2>3
    <3>2. /\ [base[s] EXCEPT !.gen = gen + 1] \in Row
          /\ [base[s] EXCEPT !.gen = gen + 1].level = base[s].level
          /\ [base[s] EXCEPT !.gen = gen + 1].methods = base[s].methods
      <4>1. base[s] \in Row /\ gen + 1 \in Nat
        BY <1>1, <2>2, <2>3
      <4> QED
        BY <4>1 DEF Row
    <3>3. sess' \in [Sessions -> Row]
      BY <2>2, <3>1, <3>2
    <3> QED
      BY <1>1, <2>2, <3>1, <3>2, <3>3
  <2>5. /\ first' \in Nat /\ gen' \in Nat /\ failures' \in Nat /\ IsABag(spent)'
        /\ material' \in [gen : Nat, stamp : Nat, outdated : BOOLEAN]
        /\ FactorInv' /\ minted' \in Nat /\ minted <= minted' /\ codes' \subseteq 1 .. minted'
        /\ totp' \in [st : {"none", "pending", "active"}, secret : Nat, step : Nat]
    BY <1>1, <2>1 DEF FactorInv, FactorEnrolled, TypeOK, NewPassword
  <2> QED
    BY <1>1, <2>1, <2>4, <2>5, IdleIsTyped, IdleIsKnown, CutoffsAreTyped, SameLevelsMove, WriteIsSound
<1> QED
  BY <1>2, <1>3

LEMMA CompleteRecoveryIsSound ==
    ASSUME IInv, NEW r \in Requests, CompleteRecovery(r)
    PROVE  Sound
<1> DEFINE q == req[r]
           new(s) == Issue(s, q.at + 1, {"recovery_code"}, gen + 1)
<1>1. TypeOK /\ FactorInv /\ q \in Call /\ Ready(r, "recover")
  BY DEF IInv, TypeOK, CompleteRecovery
<1>2. CASE q.shown.n \notin recovery
  BY <1>1, <1>2, RefusalIsSound DEF CompleteRecovery, Ready
<1>3. CASE q.shown.n \in recovery
  <2>1. /\ NewPassword /\ recovery' = recovery \ {q.shown.n} /\ cutoff' = Larger(cutoff, q.at)
        /\ RememberFirst(q.at + 1) /\ failures' = FailuresAfter(1, FactorEnrolled)
        /\ Spend(q.shown) /\ req' = [req EXCEPT ![r] = Idle]
        /\ UNCHANGED <<scene, clock, totp, codes, minted, mailed>>
    BY <1>3 DEF CompleteRecovery, factorVars
  <2>2. PICK s \in Sessions : sess[s].st = "free" /\ sess' = [EndedBut({}) EXCEPT ![s] = new(s)]
    BY <1>3 DEF CompleteRecovery
  <2> DEFINE base == EndedBut({})
  <2>3. /\ base \in [Sessions -> Row]
        /\ \A x \in Sessions : base[x].level = sess[x].level /\ base[x].methods = sess[x].methods
    BY <1>1, EndedButEnds
  <2>4. /\ new(s) \in Row /\ new(s).level = 1
    BY <1>1 DEF Issue, Row, Call, Methods, LevelOf, TypeOK
  <2>5. sess' = [base EXCEPT ![s] = new(s)]
    BY <2>2
  <2> HIDE DEF base, new
  <2>6. sess' \in [Sessions -> Row] /\ sess'[s] = new(s) /\ \A x \in Sessions \ {s} : sess'[x] = base[x]
    BY <2>3, <2>4, <2>5
  <2>7. \A x \in Sessions : SessionMove(x)
    <3>1. SessionMove(s)
      BY <2>2, <2>4, <2>6 DEF SessionMove, Live
    <3>2. \A x \in Sessions : sess[x].level \in 0 .. 2
      BY <1>1 DEF TypeOK, Row
    <3>3. \A x \in Sessions \ {s} : SessionMove(x)
      BY <2>3, <2>6, <3>2 DEF SessionMove, IInv, LevelInv
    <3> QED
      BY <3>1, <3>3
  <2>8. first' \in Nat /\ IsABag(spent)' /\ failures' \in Nat
    <3>1. q.at + 1 \in Nat
      BY <1>1 DEF Call
    <3> QED
      BY <1>1, <2>1, <3>1, SpentIsABag, FailuresStayTyped DEF TypeOK, RememberFirst
  <2>9. /\ gen' \in Nat /\ cutoff' \in Nat
        /\ material' \in [gen : Nat, stamp : Nat, outdated : BOOLEAN]
        /\ minted' \in Nat /\ minted <= minted' /\ codes' \subseteq 1 .. minted'
        /\ totp' \in [st : {"none", "pending", "active"}, secret : Nat, step : Nat]
    BY <1>1, <2>1 DEF TypeOK, NewPassword, Larger, Call
  <2>10. FactorInv' /\ recovery' \subseteq recovery
    BY <1>1, <2>1 DEF FactorInv, FactorEnrolled
  <2> QED
    BY <2>1, <2>6, <2>7, <2>8, <2>9, <2>10, IdleIsTyped, IdleIsKnown, WriteIsSound
<1> QED
  BY <1>2, <1>3

\* What the verbs of a session rely on: the session exists, what they present exists and is
\* a method of the lane.
LEMMA PresentationIsKnown ==
    ASSUME IInv, NEW r \in Requests, NEW verb \in SessionVerbs \ {"change"}, Ready(r, verb)
    PROVE  /\ TypeOK /\ FactorInv /\ req[r] \in Call /\ req[r].s \in Sessions
           /\ verb \in GatedVerbs /\ req[r].shown \in Shown(verb) /\ req[r].methods \in SUBSET Methods
           /\ req[r].shown.n \in Nat
           /\ req[r].shown.kind \in {"none", "totp", "lookup_secret"}
           /\ req[r].shown.kind = "none" => req[r].shown = Nothing
           /\ verb = "confirm" => req[r].shown.kind = "totp"
           /\ verb \in CodeVerbs => req[r].shown.kind \in {"totp", "lookup_secret"}
<1>1. TypeOK /\ FactorInv /\ req[r] \in Call /\ CallInv(req[r]) /\ req[r].verb = verb
  BY DEF IInv, TypeOK, CallsInv, Ready
<1>2. verb \in GatedVerbs /\ verb # "recover"
  BY DEF GatedVerbs, SessionVerbs
<1>3. req[r].s \in Sessions /\ req[r].shown \in Shown(verb) /\ req[r].methods \in SUBSET Methods
  BY <1>1, <1>2 DEF CallInv, Call
<1>4. req[r].shown.n \in Nat
  BY <1>1 DEF Call, Evidence
<1> QED
  BY <1>1, <1>2, <1>3, <1>4, ShownIsTyped

LEMMA StepUpIsSound ==
    ASSUME IInv, NEW r \in Requests, StepUp(r)
    PROVE  Sound
<1> DEFINE q == req[r]
           method == IF q.shown = Nothing THEN "password" ELSE q.shown.kind
           row == Presented(sess[q.s], q.methods, method)
<1>1. Ready(r, "stepup")
  BY DEF StepUp
<1>2. /\ TypeOK /\ FactorInv /\ q.s \in Sessions /\ "stepup" \in GatedVerbs /\ q.shown \in Shown("stepup")
      /\ q.methods \in SUBSET Methods /\ method \in Methods
  BY <1>1, PresentationIsKnown DEF SessionVerbs, Methods
<1>3. CASE ~Settles(q.shown) \/ ~Live(q.s)
  BY <1>1, <1>3, RefusalIsSound DEF StepUp, Ready
<1>4. CASE Settles(q.shown) /\ Live(q.s)
  <2>1. /\ sess' = [sess EXCEPT ![q.s] = row] /\ totp' = SettledTotp(q.shown)
        /\ codes' = SettledCodes(q.shown) /\ Spend(q.shown)
        /\ failures' = FailuresAfter(row.level, q.enrolled) /\ req' = [req EXCEPT ![r] = Idle]
        /\ UNCHANGED <<scene, clock, cutoff, first, material, gen, minted, mailed, recovery>>
    BY <1>4 DEF StepUp
  <2>2. sess \in [Sessions -> Row]
    BY <1>2 DEF TypeOK
  <2>3. sess' \in [Sessions -> Row] /\ \A x \in Sessions : SessionMove(x)
    BY <1>2, <2>1, <2>2, PresentingMoves
  <2>4. /\ totp' \in [st : {"none", "pending", "active"}, secret : Nat, step : Nat]
        /\ totp'.st = totp.st /\ totp'.secret = totp.secret /\ codes' \subseteq codes
    BY <1>2, <1>4, <2>1, SettlingIsTyped
  <2>5. codes' \subseteq 1 .. minted' /\ FactorInv'
    BY <1>2, <2>1, <2>4 DEF TypeOK, FactorInv, FactorEnrolled
  <2>6. /\ cutoff' \in Nat /\ first' \in Nat /\ gen' \in Nat /\ minted' \in Nat /\ minted <= minted'
        /\ material' \in [gen : Nat, stamp : Nat, outdated : BOOLEAN]
    BY <1>2, <2>1 DEF TypeOK
  <2>7. IsABag(spent)' /\ failures' \in Nat
    BY <1>2, <2>1, SpentIsABag, FailuresStayTyped DEF TypeOK
  <2> QED
    BY <2>1, <2>3, <2>4, <2>5, <2>6, <2>7, IdleIsTyped, IdleIsKnown, WriteIsSound
<1> QED
  BY <1>3, <1>4

LEMMA ConfirmIsSound ==
    ASSUME IInv, NEW r \in Requests, Confirm(r)
    PROVE  Sound
<1> DEFINE q == req[r]
           row == Presented(sess[q.s], q.methods, "totp")
<1>1. Ready(r, "confirm")
  BY DEF Confirm
<1>2. /\ TypeOK /\ FactorInv /\ q.s \in Sessions /\ q.methods \in SUBSET Methods /\ "totp" \in Methods
      /\ q.shown.n \in Nat
  BY <1>1, PresentationIsKnown DEF SessionVerbs, Methods
<1>3. CASE ~SameEnrolment(q) \/ ~Live(q.s)
  BY <1>1, <1>3, RefusalIsSound DEF Confirm, Ready
<1>4. CASE SameEnrolment(q) /\ Live(q.s)
  <2>1. /\ sess' = [sess EXCEPT ![q.s] = row] /\ Spend(q.shown)
        /\ totp' = [st |-> "active", secret |-> totp.secret, step |-> q.shown.n]
        /\ codes' = {totp.secret}
        /\ failures' = FailuresAfter(row.level, q.enrolled) /\ req' = [req EXCEPT ![r] = Idle]
        /\ UNCHANGED <<scene, clock, cutoff, first, material, gen, minted, mailed, recovery>>
    BY <1>4 DEF Confirm
  <2>2. sess \in [Sessions -> Row]
    BY <1>2 DEF TypeOK
  <2>3. sess' \in [Sessions -> Row] /\ \A x \in Sessions : SessionMove(x)
    BY <1>2, <2>1, <2>2, PresentingMoves
  <2>4. /\ totp' \in [st : {"none", "pending", "active"}, secret : Nat, step : Nat]
        /\ FactorInv'
    BY <1>2, <2>1 DEF TypeOK, FactorInv, FactorEnrolled
  <2>5. totp.secret \in 1 .. minted
    BY <1>2, <1>4 DEF TypeOK, FactorInv, SameEnrolment
  <2>6. /\ cutoff' \in Nat /\ first' \in Nat /\ gen' \in Nat /\ minted' \in Nat /\ minted <= minted'
        /\ material' \in [gen : Nat, stamp : Nat, outdated : BOOLEAN] /\ codes' \subseteq 1 .. minted'
    BY <1>2, <2>1, <2>5 DEF TypeOK
  <2>7. IsABag(spent)' /\ failures' \in Nat
    BY <1>2, <2>1, SpentIsABag, FailuresStayTyped DEF TypeOK
  <2> QED
    BY <2>1, <2>3, <2>4, <2>6, <2>7, IdleIsTyped, IdleIsKnown, WriteIsSound
<1> QED
  BY <1>3, <1>4

LEMMA RemoveIsSound ==
    ASSUME IInv, NEW r \in Requests, Remove(r)
    PROVE  Sound
<1> DEFINE q == req[r]
           row == Presented(sess[q.s], q.methods, q.shown.kind)
           base == EndedBut({q.s})
<1>1. Ready(r, "remove")
  BY DEF Remove
<1>2. /\ TypeOK /\ FactorInv /\ q.s \in Sessions /\ q.methods \in SUBSET Methods /\ q.shown.kind \in Methods
  BY <1>1, PresentationIsKnown DEF SessionVerbs, CodeVerbs, Methods
<1>3. CASE ~Settles(q.shown) \/ ~FactorEnrolled \/ ~Live(q.s)
  BY <1>1, <1>3, RefusalIsSound DEF Remove, Ready
<1>4. CASE Settles(q.shown) /\ FactorEnrolled /\ Live(q.s)
  <2>1. /\ RemovedFactor /\ sess' = [base EXCEPT ![q.s] = row] /\ Spend(q.shown)
        /\ failures' = FailuresAfter(row.level, q.enrolled) /\ req' = [req EXCEPT ![r] = Idle]
        /\ UNCHANGED <<scene, clock, cutoff, first, material, gen, minted, mailed, recovery>>
    BY <1>4 DEF Remove
  <2>2. /\ base \in [Sessions -> Row]
        /\ \A x \in Sessions : base[x].level = sess[x].level /\ base[x].methods = sess[x].methods
    BY <1>2, EndedButEnds
  <2> HIDE DEF base
  <2>3. sess' \in [Sessions -> Row] /\ \A x \in Sessions : SessionMove(x)
    BY <1>2, <2>1, <2>2, PresentingMoves
  <2>4. /\ totp' \in [st : {"none", "pending", "active"}, secret : Nat, step : Nat]
        /\ FactorInv'
    BY <1>2, <2>1 DEF TypeOK, FactorInv, FactorEnrolled, RemovedFactor
  <2>5. /\ cutoff' \in Nat /\ first' \in Nat /\ gen' \in Nat /\ minted' \in Nat /\ minted <= minted'
        /\ material' \in [gen : Nat, stamp : Nat, outdated : BOOLEAN] /\ codes' \subseteq 1 .. minted'
    BY <1>2, <2>1 DEF TypeOK, RemovedFactor
  <2>6. IsABag(spent)' /\ failures' \in Nat
    BY <1>2, <2>1, SpentIsABag, FailuresStayTyped DEF TypeOK
  <2> QED
    BY <2>1, <2>3, <2>4, <2>5, <2>6, IdleIsTyped, IdleIsKnown, WriteIsSound
<1> QED
  BY <1>3, <1>4

LEMMA RegenerateIsSound ==
    ASSUME IInv, NEW r \in Requests, Regenerate(r)
    PROVE  Sound
<1> DEFINE q == req[r]
           row == Presented(sess[q.s], q.methods, q.shown.kind)
<1>1. Ready(r, "regenerate")
  BY DEF Regenerate
<1>2. /\ TypeOK /\ FactorInv /\ q.s \in Sessions /\ q.methods \in SUBSET Methods /\ q.shown.kind \in Methods
      /\ "regenerate" \in GatedVerbs /\ q.shown \in Shown("regenerate")
      /\ q.shown.kind \in {"totp", "lookup_secret"}
  BY <1>1, PresentationIsKnown DEF SessionVerbs, CodeVerbs, Methods
<1>3. CASE ~Settles(q.shown) \/ ~Live(q.s)
  BY <1>1, <1>3, RefusalIsSound DEF Regenerate, Ready
<1>4. CASE Settles(q.shown) /\ Live(q.s)
  <2>1. /\ minted' = minted + 1 /\ codes' = {minted + 1} /\ totp' = SettledTotp(q.shown)
        /\ sess' = [sess EXCEPT ![q.s] = row] /\ Spend(q.shown)
        /\ failures' = FailuresAfter(row.level, q.enrolled) /\ req' = [req EXCEPT ![r] = Idle]
        /\ UNCHANGED <<scene, clock, cutoff, first, material, gen, mailed, recovery>>
    BY <1>4 DEF Regenerate
  <2>2. sess \in [Sessions -> Row]
    BY <1>2 DEF TypeOK
  <2>3. sess' \in [Sessions -> Row] /\ \A x \in Sessions : SessionMove(x)
    BY <1>2, <2>1, <2>2, PresentingMoves
  <2>4. /\ totp' \in [st : {"none", "pending", "active"}, secret : Nat, step : Nat]
        /\ totp'.st = totp.st /\ totp'.secret = totp.secret
    BY <1>2, <1>4, <2>1, SettlingIsTyped
  <2>5. FactorEnrolled
    BY <1>2, <1>4 DEF Settles, FactorInv
  <2>6. codes' \subseteq 1 .. minted' /\ FactorInv'
    BY <1>2, <2>1, <2>4, <2>5 DEF TypeOK, FactorInv, FactorEnrolled
  <2>7. /\ cutoff' \in Nat /\ first' \in Nat /\ gen' \in Nat /\ minted' \in Nat /\ minted <= minted'
        /\ material' \in [gen : Nat, stamp : Nat, outdated : BOOLEAN]
    BY <1>2, <2>1 DEF TypeOK
  <2>8. IsABag(spent)' /\ failures' \in Nat
    BY <1>2, <2>1, SpentIsABag, FailuresStayTyped DEF TypeOK
  <2> QED
    BY <2>1, <2>3, <2>4, <2>6, <2>7, <2>8, IdleIsTyped, IdleIsKnown, WriteIsSound
<1> QED
  BY <1>3, <1>4

LEMMA NextIsSound == IInv /\ [Next]_vars => Sound
<1> SUFFICES ASSUME IInv, [Next]_vars PROVE Sound
  OBVIOUS
<1>1. CASE UNCHANGED vars
  <2>1. Grows
    BY <1>1 DEF vars, factorVars, Grows, IInv, TypeOK
  <2>2. TypeOK' /\ FactorInv'
    BY <1>1 DEF vars, factorVars, IInv, TypeOK, FactorInv, FactorEnrolled
  <2> QED
    BY <1>1, <2>1, <2>2, StillCallsStand, StillSessionsMove DEF vars, IInv, Sound
<1>2. CASE Tick \/ WindowPasses \/ RequestRecovery \/ ResetSecondFactor
  BY <1>2, SurroundingsAreSound
<1>3. ASSUME NEW s \in Sessions, Logout(s) \/ EndOwnSessions(s) \/ Enroll(s) PROVE Sound
  BY <1>3, SessionStepsAreSound
<1>4. ASSUME NEW r \in Requests,
             \/ Admit(r) \/ Verify(r) \/ ReadBeforeWrite(r) \/ RecordFailure(r)
             \/ Abandon(r) \/ LoginRefused(r) \/ LoginIssue(r) \/ Rewrite(r)
             \/ ChangePassword(r) \/ CompleteRecovery(r)
             \/ ForceLogoutMoment(r) \/ ForceLogout(r)
             \/ StepUp(r) \/ Confirm(r) \/ Remove(r) \/ Regenerate(r)
      PROVE  Sound
  BY <1>4, AdmitIsSound, VerifyIsSound, EndOfCallIsSound, LoginIssueIsSound, ChangePasswordIsSound,
     CompleteRecoveryIsSound, ForceLogoutIsSound, StepUpIsSound, ConfirmIsSound, RemoveIsSound,
     RegenerateIsSound
<1> QED
  BY <1>1, <1>2, <1>3, <1>4 DEF Next

\* The rows, the calls and the levels are as IInv says in every reachable state.
THEOREM LaneInvariant == Spec => []IInv
<1>1. IInv /\ [Next]_vars => IInv'
  BY NextIsSound DEF Sound
<1> QED
  BY <1>1, InitInv, PTL DEF Spec

-----------------------------------------------------------------------------
\* However step-ups, confirmations and logins work on rows read before, a live session
\* keeps its level and its methods, and level 2 is earned (PresentInSession).
THEOREM LevelsStayEarned == Spec => LevelsAreEarnedAndKept
<1>1. IInv /\ [Next]_vars =>
        [\A s \in Sessions :
           /\ Live(s) => /\ sess'[s].level >= sess[s].level
                         /\ sess[s].methods \subseteq sess'[s].methods
           /\ sess'[s].level = 2 => LevelOf(sess'[s].methods) = 2]_vars
  BY NextIsSound DEF Sound, SessionMove
<1> QED
  BY <1>1, LaneInvariant, PTL DEF Spec, LevelsAreEarnedAndKept

-----------------------------------------------------------------------------
(* Who issues sessions. *)

\* A session lives after the step only if it lived before.
NoneBorn == \A s \in Sessions : ~Born(s)

LEMMA EndingBearsNone ==
    ASSUME TypeOK, NEW keep, sess' = EndedBut(keep)
    PROVE  NoneBorn
<1>1. \A s \in Sessions : sess[s] \in Row
  BY DEF TypeOK
<1> QED
  BY <1>1, EndedButEnds DEF NoneBorn, Born, Live, Row

LEMMA PresentingBearsNone ==
    ASSUME TypeOK, NEW s \in Sessions, Live(s), NEW row, NEW base \in [Sessions -> Row],
           \A x \in Sessions : base[x].st = "live" => Live(x), sess' = [base EXCEPT ![s] = row]
    PROVE  NoneBorn
BY DEF NoneBorn, Born

LEMMA OnlyTwoBear ==
    ASSUME IInv, [Next]_vars,
           \A r \in Requests : ~LoginIssue(r) /\ ~CompleteRecovery(r)
    PROVE  NoneBorn
<1>1. TypeOK /\ \A s \in Sessions : sess[s] \in Row
  BY DEF IInv, TypeOK
<1>2. CASE sess' = sess
  BY <1>2 DEF NoneBorn, Born, Live
<1>3. ASSUME NEW keep \in SUBSET Sessions PROVE
             \A x \in Sessions : EndedBut(keep)[x].st = "live" => Live(x)
  BY <1>1, EndedButEnds DEF Live, Row
<1>4. ASSUME NEW s \in Sessions, Logout(s) \/ EndOwnSessions(s) \/ Enroll(s) PROVE NoneBorn
  <2>1. CASE Logout(s)
    BY <1>1, <2>1 DEF Logout, NoneBorn, Born, Live, TypeOK, Row
  <2>2. CASE EndOwnSessions(s)
    BY <1>1, <2>2, EndingBearsNone DEF EndOwnSessions
  <2> QED
    BY <1>2, <1>4, <2>1, <2>2 DEF Enroll
<1>5. ASSUME NEW r \in Requests, ForceLogout(r) PROVE NoneBorn
  BY <1>1, <1>5, EndingBearsNone DEF ForceLogout
<1>6. ASSUME NEW r \in Requests, ChangePassword(r) PROVE NoneBorn
  <2> DEFINE s == req[r].s
             base == EndedBut({s})
  <2>1. s \in Sessions
    BY <1>6 DEF IInv, CallsInv, CallInv, ChangePassword, Ready, SessionVerbs
  <2>2. CASE Live(s)
    <3>1. base \in [Sessions -> Row] /\ \A x \in Sessions : base[x].st = "live" => Live(x)
      BY <1>1, <1>3, <2>1, EndedButEnds
    <3>2. sess' = [base EXCEPT ![s].gen = gen + 1]
      BY <1>6, <2>2 DEF ChangePassword
    <3> HIDE DEF base
    <3>3. \A x \in Sessions \ {s} : sess'[x] = base[x]
      BY <3>1, <3>2
    <3> QED
      BY <2>1, <2>2, <3>1, <3>3 DEF NoneBorn, Born
  <2>3. CASE ~Live(s)
    BY <1>2, <1>6, <2>3 DEF ChangePassword, RefuseTx
  <2> QED
    BY <2>2, <2>3
<1>7. ASSUME NEW r \in Requests, StepUp(r) \/ Confirm(r) \/ Remove(r) \/ Regenerate(r) PROVE NoneBorn
  <2>1. req[r].s \in Sessions
    BY <1>7, PresentationIsKnown DEF StepUp, Confirm, Remove, Regenerate, SessionVerbs
  <2>2. /\ EndedBut({req[r].s}) \in [Sessions -> Row]
        /\ \A x \in Sessions : EndedBut({req[r].s})[x].st = "live" => Live(x)
        /\ sess \in [Sessions -> Row] /\ \A x \in Sessions : sess[x].st = "live" => Live(x)
    BY <1>1, <1>3, <2>1, EndedButEnds DEF TypeOK, Live
  <2>3. \/ sess' = sess
        \/ Live(req[r].s) /\ \E row : sess' = [sess EXCEPT ![req[r].s] = row]
        \/ Live(req[r].s) /\ \E row : sess' = [EndedBut({req[r].s}) EXCEPT ![req[r].s] = row]
    <3>1. CASE StepUp(r)
      BY <3>1 DEF StepUp, RefuseTx
    <3>2. CASE Confirm(r)
      BY <3>2 DEF Confirm, RefuseTx
    <3>3. CASE Remove(r)
      BY <3>3 DEF Remove, RefuseTx
    <3>4. CASE Regenerate(r)
      BY <3>4 DEF Regenerate, RefuseTx
    <3> QED
      BY <1>7, <3>1, <3>2, <3>3, <3>4
  <2> QED
    BY <1>1, <1>2, <2>1, <2>2, <2>3, PresentingBearsNone
<1>8. ASSUME NEW r \in Requests,
             \/ Admit(r) \/ Verify(r) \/ ReadBeforeWrite(r) \/ RecordFailure(r)
             \/ Abandon(r) \/ LoginRefused(r) \/ Rewrite(r) \/ ForceLogoutMoment(r)
      PROVE  NoneBorn
  BY <1>2, <1>8 DEF Admit, Verify, ReadBeforeWrite, RecordFailure, Abandon, LoginRefused, Rewrite,
                    ForceLogoutMoment, RefuseTx
<1>9. CASE Tick \/ WindowPasses \/ RequestRecovery \/ ResetSecondFactor \/ UNCHANGED vars
  BY <1>2, <1>9 DEF Tick, WindowPasses, RequestRecovery, ResetSecondFactor, vars
<1> QED
  BY <1>4, <1>5, <1>6, <1>7, <1>8, <1>9 DEF Next

\* What the two issue: the login a session of its moment which rests on the presented
\* password; the recovery one of its code, later than its moment, on the new password.
LEMMA LoginBears ==
    ASSUME IInv, NEW r \in Requests, LoginIssue(r)
    PROVE  \E s \in Sessions :
             /\ ~Live(s) /\ \A x \in Sessions \ {s} : sess'[x] = sess[x]
             /\ sess'[s].st = "live" /\ sess'[s].auth = req[r].at /\ sess'[s].gen = req[r].gen
             /\ RememberFirst(req[r].at) /\ cutoff' = cutoff
<1>1. TypeOK
  BY DEF IInv
<1>2. RememberFirst(req[r].at) /\ cutoff' = cutoff
  BY DEF LoginIssue
<1>3. PICK s \in Sessions :
        /\ sess[s].st = "free"
        /\ \E row : /\ sess' = [sess EXCEPT ![s] = row]
                    /\ row.st = "live" /\ row.auth = req[r].at /\ row.gen = req[r].gen
  BY DEF LoginIssue, Issue
<1>4. PICK row : /\ sess' = [sess EXCEPT ![s] = row]
                 /\ row.st = "live" /\ row.auth = req[r].at /\ row.gen = req[r].gen
  BY <1>3
<1> QED
  BY <1>1, <1>2, <1>3, <1>4 DEF TypeOK, Live

LEMMA RecoveryBears ==
    ASSUME IInv, NEW r \in Requests, CompleteRecovery(r)
    PROVE  \/ UNCHANGED <<sess, gen, first, cutoff>>
           \/ \E s \in Sessions :
                /\ ~Live(s) /\ \A x \in Sessions \ {s} : sess'[x].st # "live"
                /\ sess'[s].gen = gen' /\ sess'[s].auth = req[r].at + 1
                /\ RememberFirst(req[r].at + 1)
<1>1. TypeOK /\ \A s \in Sessions : sess[s] \in Row
  BY DEF IInv, TypeOK
<1>2. CASE req[r].shown.n \notin recovery
  BY <1>2 DEF CompleteRecovery, RefuseTx
<1>3. CASE req[r].shown.n \in recovery
  <2> DEFINE base == EndedBut({})
  <2> DEFINE row(s) == Issue(s, req[r].at + 1, {"recovery_code"}, gen + 1)
  <2>1. /\ \E s \in Sessions : ~Live(s) /\ sess' = [base EXCEPT ![s] = row(s)]
        /\ gen' = gen + 1 /\ RememberFirst(req[r].at + 1)
    BY <1>3 DEF CompleteRecovery, NewPassword, Live
  <2>2. \A s : row(s).gen = gen' /\ row(s).auth = req[r].at + 1
    BY <2>1 DEF Issue
  <2>3. base \in [Sessions -> Row] /\ \A x \in Sessions : base[x].st # "live"
    <3>1. \A x \in Sessions : base[x] = IF Live(x) THEN [sess[x] EXCEPT !.st = "ended"] ELSE sess[x]
      BY <1>1, EndedButEnds
    <3>2. \A x \in Sessions : [sess[x] EXCEPT !.st = "ended"].st = "ended"
      BY <1>1 DEF Row
    <3> QED
      BY <1>1, <3>1, <3>2, EndedButEnds DEF Live
  <2> HIDE DEF base, row
  <2> QED
    BY <2>1, <2>2, <2>3
<1> QED
  BY <1>2, <1>3

-----------------------------------------------------------------------------
(* The limit of attempts. *)

\* A call the gate has let through and that may yet count as a failed attempt.
MayFail(q) ==
    \/ q.phase \in {"admitted", "verified", "refused"}
    \/ q.phase = "ready" /\ q.verb # "force"

MayFails == {r \in Requests : MayFail(req[r])}

\* Every failure recorded beyond the limit was let through while another call was under
\* way: recorded failures and those that may follow fit under the bound together.
CountInv ==
    failures + RecordsPerCall * Cardinality(MayFails)
      <= AddressAttempts - 1 + RecordsPerCall * Cardinality(Requests)

\* What a step does to the count: it leaves or lowers it and lets no new call through; it
\* lets one through below the limit; or it records the failure of a call and ends it.
CountMove ==
    \/ failures' \in 0 .. failures /\ \A x \in Requests : MayFail(req'[x]) => MayFail(req[x])
    \/ failures < AddressAttempts /\ failures' = failures
    \/ /\ failures' \in failures + 1 .. failures + RecordsPerCall
       /\ \E r \in Requests :
            /\ MayFail(req[r]) /\ ~MayFail(req'[r])
            /\ \A x \in Requests \ {r} : req'[x] = req[x]

LEMMA OneCallCounts ==
    ASSUME IInv, NEW r \in Requests, NEW q, req' = [req EXCEPT ![r] = q], failures' \in 0 .. failures,
           MayFail(q) => MayFail(req[r])
    PROVE  CountMove
<1>1. req'[r] = q /\ \A x \in Requests \ {r} : req'[x] = req[x]
  BY DEF IInv, TypeOK
<1> QED
  BY <1>1 DEF CountMove

LEMMA IdleFailsNot == ~MayFail(Idle)
BY DEF MayFail, Idle

LEMMA WritesCount ==
    ASSUME IInv, NEW r \in Requests,
           \/ LoginIssue(r) \/ ChangePassword(r) \/ CompleteRecovery(r)
           \/ StepUp(r) \/ Confirm(r) \/ Remove(r) \/ Regenerate(r) \/ LoginRefused(r)
    PROVE  CountMove
<1>1. req[r].phase = "ready" /\ req[r].verb # "force"
  BY DEF LoginIssue, ChangePassword, CompleteRecovery, StepUp, Confirm, Remove, Regenerate,
         LoginRefused, Ready
<1>2. MayFail(req[r])
  BY <1>1 DEF MayFail
<1>3. failures' \in 0 .. failures
  <2>1. failures \in Nat
    BY DEF IInv, TypeOK
  <2>2. failures' \in {0, failures}
    BY FailuresStayTyped DEF LoginIssue, ChangePassword, CompleteRecovery, StepUp, Confirm, Remove,
                             Regenerate, LoginRefused, RefuseTx
  <2> QED
    BY <2>1, <2>2
<1>4. \E q : req' = [req EXCEPT ![r] = q]
  BY DEF LoginIssue, ChangePassword, CompleteRecovery, StepUp, Confirm, Remove, Regenerate,
         LoginRefused, RefuseTx
<1> QED
  BY <1>2, <1>3, <1>4, OneCallCounts

LEMMA NextCounts == IInv /\ [Next]_vars => CountMove
<1> SUFFICES ASSUME IInv, [Next]_vars PROVE CountMove
  OBVIOUS
<1>1. req \in [Requests -> Call] /\ failures \in Nat
  BY DEF IInv, TypeOK
<1>2. CASE req' = req /\ failures' \in 0 .. failures
  BY <1>2 DEF CountMove
<1>3. ASSUME NEW s \in Sessions, Logout(s) \/ EndOwnSessions(s) \/ Enroll(s) PROVE CountMove
  BY <1>1, <1>2, <1>3 DEF Logout, EndOwnSessions, Enroll
<1>4. CASE Tick \/ WindowPasses \/ RequestRecovery \/ ResetSecondFactor \/ UNCHANGED vars
  BY <1>1, <1>2, <1>4 DEF Tick, WindowPasses, RequestRecovery, ResetSecondFactor, vars
<1>5. ASSUME NEW r \in Requests, Admit(r) PROVE CountMove
  BY <1>5 DEF Admit, GateOpen, CountMove
<1>6. ASSUME NEW r \in Requests, Verify(r) \/ ReadBeforeWrite(r) PROVE CountMove
  <2>1. MayFail(req[r]) /\ failures' = failures
    BY <1>6 DEF Verify, ReadBeforeWrite, MayFail
  <2>2. \E q : req' = [req EXCEPT ![r] = q]
    <3>1. CASE Verify(r)
      BY <3>1 DEF Verify
    <3>2. CASE ReadBeforeWrite(r)
      <4>1. req' = [req EXCEPT ![r] = [req[r] EXCEPT !.phase = "ready", !.at = clock,
                                                     !.enrolled = FactorEnrolled]]
        BY <1>1, <3>2 DEF ReadBeforeWrite
      <4> QED
        BY <4>1
    <3> QED
      BY <1>6, <3>1, <3>2
  <2>3. failures' \in 0 .. failures
    BY <1>1, <2>1
  <2> QED
    BY <2>1, <2>2, <2>3, OneCallCounts
<1>7. ASSUME NEW r \in Requests, RecordFailure(r) PROVE CountMove
  <2>1. req' = [req EXCEPT ![r] = Idle] /\ MayFail(req[r])
    BY <1>7 DEF RecordFailure, MayFail
  <2>2. req[r].verb \in Verbs \cup {"idle"}
    BY DEF IInv, CallsInv, CallInv
  <2>3. 1 .. MostRecords(req[r].verb) \subseteq 1 .. RecordsPerCall /\ RecordsPerCall \in {1, 2}
    BY <2>2 DEF MostRecords, RecordsPerCall
  <2>4. failures' \in failures + 1 .. failures + RecordsPerCall
    BY <1>1, <1>7, <2>3 DEF RecordFailure
  <2> QED
    BY <1>1, <2>1, <2>4, IdleFailsNot DEF CountMove
<1>8. ASSUME NEW r \in Requests, Abandon(r) \/ Rewrite(r) \/ ForceLogout(r) PROVE CountMove
  <2>1. req' = [req EXCEPT ![r] = Idle] /\ failures' = failures
    BY <1>8 DEF Abandon, Rewrite, ForceLogout
  <2>2. failures' \in 0 .. failures
    BY <1>1, <2>1
  <2> QED
    BY <2>1, <2>2, IdleFailsNot, OneCallCounts
<1>9. ASSUME NEW r \in Requests, ForceLogoutMoment(r) PROVE CountMove
  <2> DEFINE q == [Idle EXCEPT !.verb = "force", !.phase = "ready", !.at = clock]
  <2>1. req' = [req EXCEPT ![r] = q] /\ failures' = failures
    BY <1>9 DEF ForceLogoutMoment
  <2>2. ~MayFail(q)
    BY DEF MayFail, Idle
  <2>3. failures' \in 0 .. failures
    BY <1>1, <2>1
  <2> QED
    BY <2>1, <2>2, <2>3, OneCallCounts
<1> QED
  BY <1>3, <1>4, <1>5, <1>6, <1>7, <1>8, <1>9, WritesCount DEF Next

LEMMA SceneStays == [Next]_vars => scene' = scene
<1>1. UNCHANGED vars => scene' = scene
  BY DEF vars
<1>2. Tick \/ WindowPasses \/ RequestRecovery \/ ResetSecondFactor => scene' = scene
  BY DEF Tick, WindowPasses, RequestRecovery, ResetSecondFactor
<1>3. ASSUME NEW s \in Sessions, Logout(s) \/ EndOwnSessions(s) \/ Enroll(s)
      PROVE  scene' = scene
  BY <1>3 DEF Logout, EndOwnSessions, Enroll
<1>4. ASSUME NEW r \in Requests
      PROVE  /\ Admit(r) \/ Verify(r) \/ ReadBeforeWrite(r) => scene' = scene
             /\ RecordFailure(r) \/ Abandon(r) => scene' = scene
             /\ ForceLogoutMoment(r) \/ ForceLogout(r) => scene' = scene
             /\ Rewrite(r) => scene' = scene
  <2>1. Admit(r) \/ Verify(r) \/ ReadBeforeWrite(r) => scene' = scene
    BY DEF Admit, Verify, ReadBeforeWrite
  <2>2. RecordFailure(r) \/ Abandon(r) => scene' = scene
    BY DEF RecordFailure, Abandon
  <2>3. ForceLogoutMoment(r) \/ ForceLogout(r) => scene' = scene
    BY DEF ForceLogoutMoment, ForceLogout
  <2>4. Rewrite(r) => scene' = scene
    BY DEF Rewrite
  <2> QED
    BY <2>1, <2>2, <2>3, <2>4
<1>5. ASSUME NEW r \in Requests
      PROVE  /\ LoginRefused(r) => scene' = scene
             /\ LoginIssue(r) => scene' = scene
             /\ ChangePassword(r) => scene' = scene
             /\ CompleteRecovery(r) => scene' = scene
  <2>1. LoginRefused(r) => scene' = scene
    BY DEF LoginRefused, RefuseTx
  <2>2. LoginIssue(r) => scene' = scene
    BY DEF LoginIssue
  <2>3. ChangePassword(r) => scene' = scene
    BY DEF ChangePassword, RefuseTx
  <2>4. CompleteRecovery(r) => scene' = scene
    BY DEF CompleteRecovery, RefuseTx
  <2> QED
    BY <2>1, <2>2, <2>3, <2>4
<1>6. ASSUME NEW r \in Requests
      PROVE  /\ StepUp(r) => scene' = scene
             /\ Confirm(r) => scene' = scene
             /\ Remove(r) => scene' = scene
             /\ Regenerate(r) => scene' = scene
  <2>1. StepUp(r) => scene' = scene
    BY DEF StepUp, RefuseTx
  <2>2. Confirm(r) => scene' = scene
    BY DEF Confirm, RefuseTx
  <2>3. Remove(r) => scene' = scene
    BY DEF Remove, RefuseTx
  <2>4. Regenerate(r) => scene' = scene
    BY DEF Regenerate, RefuseTx
  <2> QED
    BY <2>1, <2>2, <2>3, <2>4
<1> QED
  BY <1>1, <1>2, <1>3, <1>4, <1>5, <1>6 DEF Next

\* The gate is read before the failure it allows is recorded; whatever is under way, the
\* count exceeds the limit by no more than what the calls under way record (rate.go).
THEOREM OvershootStaysBounded == Spec => []OvershootIsBounded
<1> DEFINE N == Cardinality(Requests)
<1>1. /\ N \in Nat /\ AddressAttempts \in Nat \ {0}
      /\ IsFiniteSet(MayFails) /\ Cardinality(MayFails) \in Nat /\ Cardinality(MayFails) <= N
  <2>1. IsFiniteSet(Requests) /\ MayFails \subseteq Requests
    BY LimitAssumption DEF MayFails
  <2> QED
    BY <2>1, LimitAssumption, FS_Subset, FS_CardinalityType
<1>2. /\ IsFiniteSet(MayFails') /\ Cardinality(MayFails') \in Nat /\ Cardinality(MayFails') <= N
  <2>1. IsFiniteSet(Requests) /\ MayFails' \subseteq Requests
    BY LimitAssumption DEF MayFails
  <2> QED
    BY <2>1, FS_Subset, FS_CardinalityType
<1> HIDE DEF N
<1>3. Init => CountInv
  <2> SUFFICES ASSUME Init PROVE CountInv
    OBVIOUS
  <2>1. MayFails = {} /\ failures = 0
    BY IdleFailsNot DEF Init, MayFails
  <2> QED
    BY <1>1, <2>1, FS_EmptySet DEF CountInv, N, RecordsPerCall
<1>4. IInv /\ CountInv /\ [Next]_vars => CountInv'
  <2> SUFFICES ASSUME IInv, CountInv, CountMove, scene' = scene PROVE CountInv'
    BY NextCounts, SceneStays
  <2>0. failures \in Nat /\ RecordsPerCall \in {1, 2} /\ RecordsPerCall' = RecordsPerCall
    BY DEF IInv, TypeOK, RecordsPerCall, Verbs
  <2>1. CASE failures' \in 0 .. failures /\ \A x \in Requests : MayFail(req'[x]) => MayFail(req[x])
    <3>1. MayFails' \subseteq MayFails
      BY <2>1 DEF MayFails
    <3>2. Cardinality(MayFails') <= Cardinality(MayFails)
      BY <1>1, <3>1, FS_Subset
    <3> QED
      BY <1>1, <1>2, <2>0, <2>1, <3>2 DEF CountInv, N
  <2>2. CASE failures < AddressAttempts /\ failures' = failures
    BY <1>1, <1>2, <2>0, <2>2 DEF CountInv, N
  <2>3. ASSUME NEW r \in Requests, failures' \in failures + 1 .. failures + RecordsPerCall,
               MayFail(req[r]), ~MayFail(req'[r]),
               \A x \in Requests \ {r} : req'[x] = req[x]
        PROVE  CountInv'
    <3>1. MayFails' = MayFails \ {r} /\ r \in MayFails
      BY <2>3 DEF MayFails
    <3>2. Cardinality(MayFails') = Cardinality(MayFails) - 1
      BY <1>1, <3>1, FS_RemoveElement
    <3> QED
      BY <1>1, <1>2, <2>0, <2>3, <3>2 DEF CountInv, N
  <2> QED
    BY <2>1, <2>2, <2>3 DEF CountMove
<1>5. IInv /\ CountInv => OvershootIsBounded
  BY <1>1 DEF IInv, TypeOK, CountInv, OvershootIsBounded, N, RecordsPerCall
<1> QED
  BY <1>3, <1>4, <1>5, LaneInvariant, PTL DEF Spec

-----------------------------------------------------------------------------
(* The password a session rests on. *)

\* A password can be replaced in the scene.
Replaceable == scene.verbs \cap {"change", "recover"} # {}

\* A stored hash is rewritten after a login only where no password can be replaced.  Without
\* this the session invariant fails: see the run that refutes ReplacedPasswordStaysReplaced.
NothingReplacedIsRewritten ==
    \A sc \in Scenes : sc.outdated => sc.verbs \cap {"change", "recover"} = {}

\* What a call knows of the password: it presents one chosen already, it has seen no later
\* material than the stored one, and a login that verified the stored one presents that.
Presents(q) ==
    /\ q.gen <= gen
    /\ q.stamp <= material.stamp
    /\ q.verb = "login" /\ q.phase \in {"verified", "ready"} /\ q.stamp = material.stamp
       => q.gen = material.gen

PasswordInv ==
    /\ Replaceable => /\ ~material.outdated
                      /\ \A r \in Requests : req[r].phase # "rewrite"
    /\ ~Replaceable => gen = 0
    /\ material.gen = gen
    /\ \A r \in Requests : Presents(req[r])
    /\ LiveSessionsRestOnTheLastPassword

LEMMA InitRests == ASSUME NothingReplacedIsRewritten, Init PROVE PasswordInv
<1>1. Replaceable => ~material.outdated
  BY DEF Init, NothingReplacedIsRewritten, Replaceable
<1>2. \A s \in Sessions : ~Live(s)
  BY DEF Init, Live, FreeRow
<1> QED
  BY <1>1, <1>2 DEF Init, PasswordInv, Presents, Idle, LiveSessionsRestOnTheLastPassword

\* What a step of a call leaves of its knowledge, judged by the material before the step.
CallsPresent ==
    \A x \in Requests : Presents(req'[x]) /\ (req'[x].phase = "rewrite" => req[x].phase = "rewrite" \/ material.outdated)

LEMMA OneCallPresents ==
    ASSUME IInv, PasswordInv, NEW r \in Requests, NEW q, req' = [req EXCEPT ![r] = q],
           Presents(q), q.phase = "rewrite" => material.outdated
    PROVE  CallsPresent
<1>1. req'[r] = q /\ \A x \in Requests \ {r} : req'[x] = req[x]
  BY DEF IInv, TypeOK
<1>2. \A x \in Requests : Presents(req[x])
  BY DEF PasswordInv
<1> QED
  BY <1>1, <1>2 DEF CallsPresent, Presents

LEMMA IdlePresents == TypeOK => Presents(Idle) /\ Idle.phase # "rewrite"
BY DEF TypeOK, Presents, Idle

LEMMA RefusedPresents ==
    ASSUME IInv, PasswordInv, NEW r \in Requests
    PROVE  Presents([req[r] EXCEPT !.phase = "refused"])
BY DEF IInv, TypeOK, PasswordInv, Presents, Call

LEMMA NextPresents ==
    ASSUME IInv, PasswordInv, [Next]_vars
    PROVE  CallsPresent
<1>1. TypeOK /\ \A r \in Requests : req[r] \in Call /\ Presents(req[r])
  BY DEF IInv, TypeOK, PasswordInv
<1>2. CASE req' = req
  BY <1>1, <1>2 DEF CallsPresent, Presents
<1>3. ASSUME NEW r \in Requests, req' = [req EXCEPT ![r] = Idle] PROVE CallsPresent
  BY <1>1, <1>3, IdlePresents, OneCallPresents
<1>4. ASSUME NEW r \in Requests, NEW counted, RefuseTx(r, counted) PROVE CallsPresent
  <2>1. CASE counted
    <3> DEFINE q == [req[r] EXCEPT !.phase = "refused"]
    <3>1. req' = [req EXCEPT ![r] = q] /\ q.phase # "rewrite"
      BY <1>1, <1>4, <2>1 DEF RefuseTx, Call
    <3> QED
      BY <3>1, RefusedPresents, OneCallPresents
  <2>2. CASE ~counted
    BY <1>3, <1>4, <2>2 DEF RefuseTx
  <2> QED
    BY <2>1, <2>2
<1>5. ASSUME NEW r \in Requests, Admit(r) PROVE CallsPresent
  <2>1. PICK q : /\ req' = [req EXCEPT ![r] = q] /\ q.phase = "admitted" /\ q.gen \in 0 .. gen
                 /\ q.stamp = 0
    <3>1. PICK verb \in GatedVerbs \cap Verbs, g \in 0 .. gen, s \in Sessions \cup {NoSession} :
            /\ IF verb \in SessionVerbs THEN s # NoSession /\ Live(s) ELSE s = NoSession
            /\ \E f \in Shown(verb) :
              req' = [req EXCEPT ![r] =
                [Idle EXCEPT !.verb = verb, !.phase = "admitted", !.s = s, !.gen = g,
                             !.shown = f,
                             !.methods = IF s = NoSession THEN {} ELSE sess[s].methods]]
      BY <1>5 DEF Admit
    <3>2. PICK f \in Shown(verb) :
              req' = [req EXCEPT ![r] =
                [Idle EXCEPT !.verb = verb, !.phase = "admitted", !.s = s, !.gen = g,
                             !.shown = f,
                             !.methods = IF s = NoSession THEN {} ELSE sess[s].methods]]
      BY <3>1
    <3> DEFINE q == [Idle EXCEPT !.verb = verb, !.phase = "admitted", !.s = s, !.gen = g,
                                 !.shown = f,
                                 !.methods = IF s = NoSession THEN {} ELSE sess[s].methods]
    <3>3. q.phase = "admitted" /\ q.gen = g /\ q.stamp = 0
      BY DEF Idle
    <3> QED
      BY <3>2, <3>3
  <2>2. Presents(q)
    BY <1>1, <2>1 DEF Presents, TypeOK
  <2> QED
    BY <2>1, <2>2, OneCallPresents
<1>6. ASSUME NEW r \in Requests, Verify(r) PROVE CallsPresent
  <2>1. CASE PasswordRefused(req[r]) \/ CodeRefused(req[r])
    <3> DEFINE q == [req[r] EXCEPT !.phase = "refused"]
    <3>1. req' = [req EXCEPT ![r] = q] /\ q.phase # "rewrite"
      BY <1>1, <1>6, <2>1 DEF Verify, Call
    <3> QED
      BY <3>1, RefusedPresents, OneCallPresents
  <2>2. CASE ~PasswordRefused(req[r]) /\ ~CodeRefused(req[r]) /\ CodeDismissed(req[r])
    BY <1>3, <1>6, <2>2 DEF Verify
  <2>3. CASE ~PasswordRefused(req[r]) /\ ~CodeRefused(req[r]) /\ ~CodeDismissed(req[r])
    <3> DEFINE q == [req[r] EXCEPT !.phase = "verified", !.stamp = material.stamp]
    <3>1. req' = [req EXCEPT ![r] = q]
      BY <1>6, <2>3 DEF Verify
    <3>2. q.phase = "verified" /\ q.stamp = material.stamp /\ q.gen = req[r].gen /\ q.verb = req[r].verb
      BY <1>1 DEF Call
    <3>3. q.verb = "login" => q.gen = material.gen
      BY <2>3, <3>2 DEF PasswordRefused, PasswordVerbs
    <3> HIDE DEF q
    <3>4. Presents(q)
      BY <1>1, <3>2, <3>3 DEF Presents, TypeOK
    <3> QED
      BY <3>1, <3>2, <3>4, OneCallPresents
  <2> QED
    BY <2>1, <2>2, <2>3
<1>7. ASSUME NEW r \in Requests, ReadBeforeWrite(r) PROVE CallsPresent
  <2> DEFINE q == [req[r] EXCEPT !.phase = "ready", !.at = clock, !.enrolled = FactorEnrolled]
  <2>1. req' = [req EXCEPT ![r] = q] /\ req[r].phase = "verified"
    BY <1>1, <1>7 DEF ReadBeforeWrite, TypeOK
  <2>2. q.phase = "ready" /\ q.stamp = req[r].stamp /\ q.gen = req[r].gen /\ q.verb = req[r].verb
    BY <1>1 DEF Call
  <2> HIDE DEF q
  <2>3. Presents(q)
    BY <1>1, <2>1, <2>2 DEF Presents
  <2> QED
    BY <2>1, <2>2, <2>3, OneCallPresents
<1>8. ASSUME NEW r \in Requests, ForceLogoutMoment(r) PROVE CallsPresent
  <2> DEFINE q == [Idle EXCEPT !.verb = "force", !.phase = "ready", !.at = clock]
  <2>1. req' = [req EXCEPT ![r] = q] /\ q.phase # "rewrite"
    BY <1>8 DEF ForceLogoutMoment, Idle
  <2>2. Presents(q)
    BY <1>1 DEF Presents, Idle, TypeOK
  <2> QED
    BY <2>1, <2>2, OneCallPresents
<1>9. ASSUME NEW r \in Requests, LoginIssue(r) PROVE CallsPresent
  <2>1. CASE material.outdated
    <3> DEFINE q == [req[r] EXCEPT !.phase = "rewrite"]
    <3>1. req' = [req EXCEPT ![r] = q]
      BY <1>9, <2>1 DEF LoginIssue
    <3>2. Presents(q)
      BY <1>1 DEF Presents, Call
    <3> QED
      BY <2>1, <3>1, <3>2, OneCallPresents
  <2>2. CASE ~material.outdated
    BY <1>3, <1>9, <2>2 DEF LoginIssue
  <2> QED
    BY <2>1, <2>2
<1>10. ASSUME NEW r \in Requests,
              \/ RecordFailure(r) \/ Abandon(r) \/ Rewrite(r) \/ ForceLogout(r)
       PROVE  CallsPresent
  BY <1>3, <1>10 DEF RecordFailure, Abandon, Rewrite, ForceLogout
<1>11. ASSUME NEW r \in Requests,
              \/ LoginRefused(r) \/ ChangePassword(r) \/ CompleteRecovery(r) \/ StepUp(r)
              \/ Confirm(r) \/ Remove(r) \/ Regenerate(r)
       PROVE  CallsPresent
  BY <1>3, <1>4, <1>11 DEF LoginRefused, ChangePassword, CompleteRecovery, StepUp, Confirm, Remove,
                           Regenerate
<1>12. ASSUME NEW s \in Sessions, Logout(s) \/ EndOwnSessions(s) \/ Enroll(s) PROVE CallsPresent
  BY <1>2, <1>12 DEF Logout, EndOwnSessions, Enroll
<1>13. CASE Tick \/ WindowPasses \/ RequestRecovery \/ ResetSecondFactor \/ UNCHANGED vars
  BY <1>2, <1>13 DEF Tick, WindowPasses, RequestRecovery, ResetSecondFactor, vars
<1> QED
  BY <1>5, <1>6, <1>7, <1>8, <1>9, <1>10, <1>11, <1>12, <1>13 DEF Next

\* What a step does to the stored material: nothing, a rewrite by a login, or a choice.
MaterialMove ==
    \/ material' = material /\ gen' = gen
    \/ /\ material'.stamp = material.stamp + 1 /\ ~material'.outdated
       /\ gen <= gen' /\ (~Replaceable => gen' = gen)
       /\ material'.gen = gen'

LEMMA NextMovesMaterial ==
    ASSUME IInv, PasswordInv, [Next]_vars
    PROVE  MaterialMove
<1>1. TypeOK /\ \A r \in Requests : req[r] \in Call /\ Presents(req[r]) /\ CallInv(req[r])
  BY DEF IInv, TypeOK, CallsInv, PasswordInv
<1>2. CASE material' = material /\ gen' = gen
  BY <1>2 DEF MaterialMove
<1>3. ASSUME NEW r \in Requests, Rewrite(r) PROVE MaterialMove
  <2>1. ~Replaceable /\ gen = 0
    BY <1>3 DEF Rewrite, PasswordInv
  <2>2. req[r].gen = 0
    BY <1>1, <2>1 DEF Presents, Call
  <2> QED
    BY <1>1, <1>3, <2>1, <2>2 DEF Rewrite, MaterialMove, TypeOK
<1>4. ASSUME NEW r \in Requests, ChangePassword(r) \/ CompleteRecovery(r), NewPassword
      PROVE  MaterialMove
  <2>1. Replaceable
    BY <1>1, <1>4 DEF CallInv, ChangePassword, CompleteRecovery, Ready, Replaceable, Verbs
  <2> QED
    BY <1>1, <1>4, <2>1 DEF NewPassword, MaterialMove, TypeOK
<1>5. ASSUME NEW r \in Requests, ChangePassword(r) \/ CompleteRecovery(r) PROVE MaterialMove
  BY <1>2, <1>4, <1>5 DEF ChangePassword, CompleteRecovery, RefuseTx
<1>6. ASSUME NEW r \in Requests,
             \/ Admit(r) \/ Verify(r) \/ ReadBeforeWrite(r) \/ RecordFailure(r)
             \/ Abandon(r) \/ LoginRefused(r) \/ LoginIssue(r)
             \/ ForceLogoutMoment(r) \/ ForceLogout(r)
             \/ StepUp(r) \/ Confirm(r) \/ Remove(r) \/ Regenerate(r)
      PROVE  material' = material /\ gen' = gen
  BY <1>6 DEF Admit, Verify, ReadBeforeWrite, RecordFailure, Abandon, LoginRefused, LoginIssue,
              ForceLogoutMoment, ForceLogout, StepUp, Confirm, Remove, Regenerate, RefuseTx
<1>7. ASSUME NEW s \in Sessions, Logout(s) \/ EndOwnSessions(s) \/ Enroll(s)
      PROVE  material' = material /\ gen' = gen
  BY <1>7 DEF Logout, EndOwnSessions, Enroll
<1>8. CASE Tick \/ WindowPasses \/ RequestRecovery \/ ResetSecondFactor \/ UNCHANGED vars
  BY <1>2, <1>8 DEF Tick, WindowPasses, RequestRecovery, ResetSecondFactor, vars
<1> QED
  BY <1>2, <1>3, <1>5, <1>6, <1>7, <1>8 DEF Next

\* Apart from a login, a change and a recovery no step moves what a session rests on, nor
\* the moment it was authenticated at.
OriginsStay == \A s \in Sessions : sess'[s].gen = sess[s].gen /\ sess'[s].auth = sess[s].auth

LEMMA PresentingKeepsOrigin ==
    ASSUME TypeOK, NEW s \in Sessions, NEW read, NEW method, NEW base \in [Sessions -> Row],
           \A x \in Sessions : base[x].gen = sess[x].gen /\ base[x].auth = sess[x].auth,
           sess' = [base EXCEPT ![s] = Presented(sess[s], read, method)]
    PROVE  OriginsStay
<1>1. sess[s] \in Row
  BY DEF TypeOK
<1>2. /\ Presented(sess[s], read, method).gen = sess[s].gen
      /\ Presented(sess[s], read, method).auth = sess[s].auth
  BY <1>1 DEF Presented, Row
<1> QED
  BY <1>2 DEF OriginsStay

LEMMA OthersKeepOrigins ==
    ASSUME IInv, [Next]_vars,
           \A r \in Requests : ~LoginIssue(r) /\ ~ChangePassword(r) /\ ~CompleteRecovery(r)
    PROVE  OriginsStay
<1>1. TypeOK /\ \A s \in Sessions : sess[s] \in Row
  BY DEF IInv, TypeOK
<1>2. CASE sess' = sess
  BY <1>2 DEF OriginsStay
<1>3. ASSUME NEW keep, sess' = EndedBut(keep) PROVE OriginsStay
  BY <1>1, <1>3, EndedButEnds DEF OriginsStay
<1>4. ASSUME NEW s \in Sessions, Logout(s) \/ EndOwnSessions(s) \/ Enroll(s) PROVE OriginsStay
  <2>1. CASE Logout(s)
    BY <1>1, <2>1 DEF Logout, OriginsStay, TypeOK, Row
  <2> QED
    BY <1>2, <1>3, <1>4, <2>1 DEF EndOwnSessions, Enroll
<1>5. ASSUME NEW r \in Requests, ForceLogout(r) PROVE OriginsStay
  BY <1>3, <1>5 DEF ForceLogout
<1>6. ASSUME NEW r \in Requests, StepUp(r) \/ Confirm(r) \/ Remove(r) \/ Regenerate(r)
      PROVE  OriginsStay
  <2>1. req[r].s \in Sessions
    BY <1>6, PresentationIsKnown DEF StepUp, Confirm, Remove, Regenerate, SessionVerbs
  <2>2. /\ EndedBut({req[r].s}) \in [Sessions -> Row] /\ sess \in [Sessions -> Row]
        /\ \A x \in Sessions : /\ EndedBut({req[r].s})[x].gen = sess[x].gen
                                /\ EndedBut({req[r].s})[x].auth = sess[x].auth
    <3>1. sess \in [Sessions -> Row]
      BY <1>1 DEF TypeOK
    <3> QED
      BY <1>1, <3>1, EndedButEnds
  <2>3. \/ sess' = sess
        \/ \E m : sess' = [sess EXCEPT ![req[r].s] = Presented(sess[req[r].s], req[r].methods, m)]
        \/ \E m : sess' = [EndedBut({req[r].s}) EXCEPT ![req[r].s] =
                             Presented(sess[req[r].s], req[r].methods, m)]
    <3>1. CASE StepUp(r)
      BY <3>1 DEF StepUp, RefuseTx
    <3>2. CASE Confirm(r)
      BY <3>2 DEF Confirm, RefuseTx
    <3>3. CASE Remove(r)
      BY <3>3 DEF Remove, RefuseTx
    <3>4. CASE Regenerate(r)
      BY <3>4 DEF Regenerate, RefuseTx
    <3> QED
      BY <1>6, <3>1, <3>2, <3>3, <3>4
  <2> QED
    BY <1>1, <1>2, <2>1, <2>2, <2>3, PresentingKeepsOrigin
<1>7. ASSUME NEW r \in Requests,
             \/ Admit(r) \/ Verify(r) \/ ReadBeforeWrite(r) \/ RecordFailure(r)
             \/ Abandon(r) \/ LoginRefused(r) \/ Rewrite(r) \/ ForceLogoutMoment(r)
      PROVE  OriginsStay
  BY <1>2, <1>7 DEF Admit, Verify, ReadBeforeWrite, RecordFailure, Abandon, LoginRefused, Rewrite,
                    ForceLogoutMoment, RefuseTx
<1>8. CASE Tick \/ WindowPasses \/ RequestRecovery \/ ResetSecondFactor \/ UNCHANGED vars
  BY <1>2, <1>8 DEF Tick, WindowPasses, RequestRecovery, ResetSecondFactor, vars
<1> QED
  BY <1>4, <1>5, <1>6, <1>7, <1>8 DEF Next

\* A change leaves one session, on the password it chose.
LEMMA ChangeLeavesOne ==
    ASSUME IInv, NEW r \in Requests, ChangePassword(r)
    PROVE  /\ first' = first
           /\ \/ UNCHANGED <<sess, gen, cutoff>>
              \/ /\ \A x \in Sessions \ {req[r].s} : sess'[x].st # "live"
                 /\ req[r].s \in Sessions /\ Live(req[r].s) /\ sess'[req[r].s].gen = gen'
                 /\ sess'[req[r].s].auth = sess[req[r].s].auth
                 /\ cutoff' = Larger(cutoff, RevocationMoment(req[r].s))
<1> DEFINE s == req[r].s
           base == EndedBut({s})
<1>1. TypeOK /\ s \in Sessions /\ \A x \in Sessions : sess[x] \in Row
  BY DEF IInv, TypeOK, CallsInv, CallInv, ChangePassword, Ready, SessionVerbs
<1>2. CASE ~Live(s)
  BY <1>2 DEF ChangePassword, RefuseTx
<1>3. CASE Live(s)
  <2>1. sess' = [base EXCEPT ![s].gen = gen + 1] /\ gen' = gen + 1
        /\ first' = first /\ cutoff' = Larger(cutoff, RevocationMoment(s))
    BY <1>3 DEF ChangePassword, NewPassword
  <2>2. /\ base \in [Sessions -> Row] /\ \A x \in Sessions \ {s} : base[x].st # "live"
        /\ base[s].auth = sess[s].auth
    <3>1. \A x \in Sessions \ {s} :
            base[x] = IF Live(x) THEN [sess[x] EXCEPT !.st = "ended"] ELSE sess[x]
      BY <1>1, EndedButEnds
    <3>2. \A x \in Sessions : [sess[x] EXCEPT !.st = "ended"].st = "ended"
      BY <1>1 DEF Row
    <3> QED
      BY <1>1, <3>1, <3>2, EndedButEnds DEF Live
  <2> HIDE DEF base
  <2>3. /\ \A x \in Sessions \ {s} : sess'[x] = base[x]
        /\ sess'[s] = [base[s] EXCEPT !.gen = gen + 1] /\ base[s] \in Row
    BY <1>1, <2>1, <2>2
  <2>4. sess'[s].gen = gen' /\ sess'[s].auth = sess[s].auth
    BY <2>1, <2>2, <2>3 DEF Row
  <2> QED
    BY <1>1, <1>3, <2>1, <2>2, <2>3, <2>4
<1> QED
  BY <1>2, <1>3

LEMMA NextRests ==
    ASSUME IInv, PasswordInv, [Next]_vars
    PROVE  PasswordInv'
<1>1. /\ TypeOK /\ material.gen = gen /\ CallsPresent /\ MaterialMove
      /\ \A s \in Sessions : Live(s) => sess[s].gen = gen
      /\ \A x \in Requests : req'[x] \in Call
      /\ Replaceable' = Replaceable
  <2>1. \A x \in Requests : req'[x] \in Call
    BY NextIsSound DEF Sound, IInv, TypeOK
  <2>2. scene' = scene
    BY SceneStays
  <2> QED
    BY <2>1, <2>2, NextPresents, NextMovesMaterial
       DEF IInv, PasswordInv, LiveSessionsRestOnTheLastPassword, Replaceable
<1>2. material'.gen = gen' /\ (~Replaceable => gen' = 0) /\ (Replaceable => ~material'.outdated)
  BY <1>1 DEF MaterialMove, PasswordInv
<1>3. ASSUME NEW x \in Requests PROVE Presents(req[x])'
  <2>1. Presents(req'[x]) /\ req'[x] \in Call
    BY <1>1 DEF CallsPresent
  <2>2. CASE material' = material /\ gen' = gen
    BY <2>1, <2>2 DEF Presents
  <2>3. CASE material'.stamp = material.stamp + 1 /\ gen <= gen'
    <3>1. gen \in Nat /\ material.stamp \in Nat /\ gen' \in Nat
      BY <1>1, NextIsSound DEF TypeOK, Sound, IInv
    <3> QED
      BY <2>1, <2>3, <3>1 DEF Presents, Call
  <2> QED
    BY <1>1, <2>2, <2>3 DEF MaterialMove
<1>4. Replaceable => \A r \in Requests : req'[r].phase # "rewrite"
  BY <1>1 DEF CallsPresent, PasswordInv
<1>5. ASSUME NEW s \in Sessions, sess'[s].st = "live" PROVE sess'[s].gen = gen'
  <2>1. CASE \E r \in Requests : LoginIssue(r)
    <3>1. PICK r \in Requests : LoginIssue(r)
      BY <2>1
    <3>2. gen' = gen /\ req[r].gen = gen
      BY <1>1, <3>1 DEF LoginIssue, MaterialStands, Ready, PasswordInv, Presents
    <3> QED
      BY <1>1, <1>5, <3>1, <3>2, LoginBears DEF Live
  <2>2. CASE \E r \in Requests : ChangePassword(r)
    BY <1>1, <1>5, <2>2, ChangeLeavesOne DEF Live
  <2>3. CASE \E r \in Requests : CompleteRecovery(r)
    BY <1>1, <1>5, <2>3, RecoveryBears DEF Live
  <2>4. CASE \A r \in Requests : ~LoginIssue(r) /\ ~ChangePassword(r) /\ ~CompleteRecovery(r)
    <3>1. OriginsStay /\ NoneBorn
      BY <2>4, OthersKeepOrigins, OnlyTwoBear
    <3>2. gen' = gen
      BY <2>4 DEF Next, vars, Tick, WindowPasses, RequestRecovery, ResetSecondFactor, Admit, Verify,
             ReadBeforeWrite, RecordFailure, Abandon, LoginRefused, Rewrite, ForceLogoutMoment,
             ForceLogout, StepUp, Confirm, Remove, Regenerate, Logout, EndOwnSessions, Enroll, RefuseTx
    <3> QED
      BY <1>1, <1>5, <3>1, <3>2 DEF OriginsStay, NoneBorn, Born
  <2> QED
    BY <2>1, <2>2, <2>3, <2>4
<1> QED
  BY <1>1, <1>2, <1>3, <1>4, <1>5 DEF PasswordInv, LiveSessionsRestOnTheLastPassword, Live

\* A live session rests on the password the person chose last, wherever a replaced password
\* cannot come back by a rewrite: every login that verified an earlier one and was overtaken
\* by the change gets no session (login.go issue, change_password.go, recovery_complete.go).
THEOREM SessionsRestOnTheLastPassword ==
    NothingReplacedIsRewritten => (Spec => []LiveSessionsRestOnTheLastPassword)
<1> SUFFICES ASSUME NothingReplacedIsRewritten PROVE Spec => []LiveSessionsRestOnTheLastPassword
  OBVIOUS
<1>1. Init => PasswordInv
  BY InitRests
<1>2. IInv /\ PasswordInv /\ [Next]_vars => PasswordInv'
  BY NextRests
<1>3. PasswordInv => LiveSessionsRestOnTheLastPassword
  BY DEF PasswordInv
<1> QED
  BY <1>1, <1>2, <1>3, LaneInvariant, PTL DEF Spec

-----------------------------------------------------------------------------
(* Whom a cut-off reaches. *)

\* No session lives from before the first authentication that is remembered.
FirstInv == \A s \in Sessions : Live(s) => first # 0 /\ first <= sess[s].auth

\* The cut-off of a logout or of a change is then before every session there is.
LEMMA RevocationsSpareAll ==
    ASSUME TypeOK, FirstInv, NEW x \in Sessions, Live(x), NEW s \in Sessions, Live(s)
    PROVE  RevocationMoment(x) < sess[s].auth
<1>1. first \in Nat \ {0} /\ first <= sess[x].auth /\ first <= sess[s].auth
      /\ sess[x].auth \in Nat /\ sess[s].auth \in Nat
  BY DEF TypeOK, FirstInv, Row
<1> QED
  BY <1>1 DEF RevocationMoment

LEMMA RememberedFirst ==
    ASSUME TypeOK, NEW at \in Nat \ {0}, RememberFirst(at)
    PROVE  first' \in Nat \ {0} /\ first' <= at /\ (first # 0 => first' <= first)
BY DEF TypeOK, RememberFirst

\* What a step does to the cut-off.
CutoffMove ==
    \/ cutoff' = cutoff
    \/ \E x \in Sessions : Live(x) /\ cutoff' = Larger(cutoff, RevocationMoment(x))
    \/ ResetSecondFactor \/ \E r \in Requests : ForceLogout(r)

LEMMA OthersCutOffSo ==
    ASSUME [Next]_vars,
           \A r \in Requests : ~LoginIssue(r) /\ ~ChangePassword(r) /\ ~CompleteRecovery(r)
    PROVE  first' = first /\ CutoffMove
BY DEF CutoffMove, Next, vars, Tick, WindowPasses, RequestRecovery, ResetSecondFactor, Admit, Verify,
       ReadBeforeWrite, RecordFailure, Abandon, LoginRefused, Rewrite, ForceLogoutMoment, ForceLogout,
       StepUp, Confirm, Remove, Regenerate, Logout, EndOwnSessions, Enroll, RefuseTx

\* What a step does to a session that lives after it: issued, it is no earlier than the
\* first authentication; left live, it keeps its moment, and loses to no cut-off but an
\* administrator's.
LEMMA NextSparesSessions ==
    ASSUME IInv, FirstInv, [Next]_vars, NEW s \in Sessions, sess'[s].st = "live"
    PROVE  /\ first' # 0 /\ first' <= sess'[s].auth
           /\ Live(s) => sess'[s].auth = sess[s].auth
           /\ Live(s) /\ sess[s].auth > cutoff /\ ~(sess[s].auth > cutoff') =>
                ResetSecondFactor \/ \E r \in Requests : ForceLogout(r)
<1>1. /\ TypeOK /\ first \in Nat /\ cutoff \in Nat /\ sess[s].auth \in Nat
      /\ \A r \in Requests : req[r].at \in Nat
  BY DEF IInv, TypeOK, Row, Call
<1>2. Live(s) => first # 0 /\ first <= sess[s].auth
  BY DEF FirstInv
<1>3. ASSUME NEW x \in Sessions, Live(x), Live(s), cutoff' = Larger(cutoff, RevocationMoment(x)),
             sess[s].auth > cutoff
      PROVE  sess[s].auth > cutoff'
  BY <1>1, <1>3, RevocationsSpareAll, CutoffsAreTyped DEF Larger
<1>4. ASSUME NEW r \in Requests, LoginIssue(r)
      PROVE  /\ first' # 0 /\ first' <= sess'[s].auth
             /\ Live(s) => sess'[s].auth = sess[s].auth
             /\ cutoff' = cutoff
  <2>1. req[r].at \in Nat \ {0}
    BY <1>1, <1>4 DEF IInv, CallsInv, CallInv, LoginIssue, Ready
  <2>2. PICK y \in Sessions : /\ ~Live(y) /\ \A x \in Sessions \ {y} : sess'[x] = sess[x]
                              /\ sess'[y].auth = req[r].at /\ RememberFirst(req[r].at)
                              /\ cutoff' = cutoff
    BY <1>4, LoginBears
  <2>3. first' \in Nat \ {0} /\ first' <= req[r].at /\ (first # 0 => first' <= first)
    BY <1>1, <2>1, <2>2, RememberedFirst
  <2>4. CASE s = y
    BY <2>2, <2>3, <2>4
  <2>5. CASE s # y
    <3>1. sess'[s] = sess[s] /\ Live(s)
      BY <2>2, <2>5 DEF Live
    <3> QED
      BY <1>1, <1>2, <2>2, <2>3, <3>1
  <2> QED
    BY <2>4, <2>5
<1>5. ASSUME NEW r \in Requests, CompleteRecovery(r)
      PROVE  /\ first' # 0 /\ first' <= sess'[s].auth
             /\ Live(s) => sess' = sess /\ cutoff' = cutoff
  <2>1. CASE UNCHANGED <<sess, gen, first, cutoff>>
    BY <1>2, <2>1 DEF Live
  <2>2. CASE ~Live(s) /\ sess'[s].auth = req[r].at + 1 /\ RememberFirst(req[r].at + 1)
    <3>1. req[r].at + 1 \in Nat \ {0}
      BY <1>1
    <3> QED
      BY <1>1, <2>2, <3>1, RememberedFirst
  <2> QED
    BY <1>5, <2>1, <2>2, RecoveryBears
<1>6. ASSUME NEW r \in Requests, ChangePassword(r)
      PROVE  /\ first' = first /\ Live(s) /\ sess'[s].auth = sess[s].auth
             /\ cutoff' \in {cutoff, Larger(cutoff, RevocationMoment(s))}
  BY <1>6, ChangeLeavesOne DEF Live
<1>7. CASE \A r \in Requests : ~LoginIssue(r) /\ ~ChangePassword(r) /\ ~CompleteRecovery(r)
  <2>1. first' = first /\ CutoffMove /\ OriginsStay /\ NoneBorn
    BY <1>7, OthersCutOffSo, OthersKeepOrigins, OnlyTwoBear
  <2>2. Live(s) /\ sess'[s].auth = sess[s].auth
    BY <2>1 DEF OriginsStay, NoneBorn, Born
  <2> QED
    BY <1>2, <1>3, <2>1, <2>2 DEF CutoffMove
<1> QED
  BY <1>2, <1>3, <1>4, <1>5, <1>6, <1>7

\* A logout or a change of the password cuts off no session it leaves live, whatever order
\* the logins committed in (logout.go revocationMoment, RememberFirstAuthentication).
THEOREM OnlyAdministratorsCutOff == Spec => OnlyAnAdministratorCutsOff
<1>1. Init => FirstInv
  BY DEF Init, FirstInv, Live, FreeRow
<1>2. IInv /\ FirstInv /\ [Next]_vars => FirstInv'
  BY NextSparesSessions DEF FirstInv, Live
<1>3. IInv /\ FirstInv /\ [Next]_vars =>
        [\A s \in Sessions :
           Servable(s) /\ Live(s)' /\ ~Servable(s)' =>
             ResetSecondFactor \/ \E r \in Requests : ForceLogout(r)]_vars
  <2> SUFFICES ASSUME IInv, FirstInv, [Next]_vars, NEW s \in Sessions,
                      Servable(s), Live(s)', ~Servable(s)'
               PROVE  ResetSecondFactor \/ \E r \in Requests : ForceLogout(r)
    OBVIOUS
  <2> QED
    BY NextSparesSessions DEF Servable, Live
<1> QED
  BY <1>1, <1>2, <1>3, LaneInvariant, PTL DEF Spec, OnlyAnAdministratorCutsOff

-----------------------------------------------------------------------------
(* Evidence that was accepted. *)

\* Where a factor can be enrolled during the behaviour, all codes are of one time step.
\* Without this a TOTP code can pass twice (section 7 of the README).
EnrolsAtOneStep == "confirm" \in Verbs => \A t, u \in Steps : t = u

PendingWith(n) == totp.st = "pending" /\ totp.secret = n

\* No call can have the evidence accepted again, now or later: the factor that is active
\* accepts later time steps only, and no set of codes has it or can come to have it.
Finished(e) ==
    /\ e.kind = "totp" /\ EnrolsAtOneStep =>
         /\ e.n \in Steps /\ e.secret <= minted /\ ~PendingWith(e.secret)
         /\ FactorEnrolled => e.n <= totp.step
    /\ e.kind = "lookup_secret" => e.n <= minted /\ e.n \notin codes /\ ~PendingWith(e.n)
    /\ e.kind = "recovery_code" => e.n <= mailed /\ e.n \notin recovery

EvidenceInv ==
    /\ "confirm" \notin Verbs => totp.st # "pending"
    /\ \A e \in DOMAIN spent :
         /\ e \in Evidence /\ Finished(e)
         /\ (e.kind = "totp" => EnrolsAtOneStep) => spent[e] = 1

\* What a step may do to factor, codes and mails: spend, remove, mint, or confirm.
FactorMove ==
    /\ scene' = scene
    /\ minted' \in Nat /\ minted <= minted' /\ mailed' \in Nat /\ mailed <= mailed'
    /\ totp'.step \in Nat
    /\ \A n \in codes' : n \in codes \/ n > minted \/ PendingWith(n)
    /\ \A n \in recovery' : n \in recovery \/ n > mailed
    /\ \/ totp'.st = totp.st /\ totp'.secret = totp.secret /\ totp'.step >= totp.step
       \/ totp'.st = "none"
       \/ totp'.st = "pending" /\ totp'.secret > minted /\ "confirm" \in Verbs
       \/ totp'.st = "active" /\ totp'.step \in Steps /\ "confirm" \in Verbs

LEMMA FinishedStaysFinished ==
    ASSUME TypeOK, FactorMove, NEW e \in Evidence, Finished(e)
    PROVE  Finished(e)'
<1>1. /\ minted \in Nat /\ mailed \in Nat /\ totp.step \in Nat /\ totp.secret \in Nat
      /\ e.n \in Nat /\ e.secret \in Nat /\ Steps \subseteq 1 .. 2
  BY SceneIsTyped DEF TypeOK, Evidence
<1>2. Verbs' = Verbs /\ Steps' = Steps
  BY DEF FactorMove, Verbs, Steps
<1>3. ASSUME NEW n \in Nat, n <= minted, ~PendingWith(n) PROVE ~PendingWith(n)' /\ n <= minted'
  BY <1>1, <1>3 DEF FactorMove, PendingWith
<1>4. CASE e.kind = "lookup_secret"
  BY <1>1, <1>3, <1>4 DEF Finished, FactorMove
<1>5. CASE e.kind = "recovery_code"
  BY <1>1, <1>5 DEF Finished, FactorMove
<1>6. CASE e.kind = "totp"
  <2> SUFFICES ASSUME EnrolsAtOneStep
               PROVE  /\ e.n \in Steps /\ e.secret <= minted' /\ ~PendingWith(e.secret)'
                      /\ totp'.st = "active" => e.n <= totp'.step
    BY <1>2, <1>6 DEF Finished, EnrolsAtOneStep, FactorEnrolled
  <2>1. /\ e.n \in Steps /\ e.secret <= minted /\ ~PendingWith(e.secret)
        /\ totp.st = "active" => e.n <= totp.step
    BY <1>6 DEF Finished, FactorEnrolled
  <2>2. e.secret <= minted' /\ ~PendingWith(e.secret)'
    BY <1>1, <1>3, <2>1
  <2>3. ASSUME totp'.step \in Steps, "confirm" \in Verbs PROVE e.n <= totp'.step
    <3>1. e.n = totp'.step
      BY <2>1, <2>3 DEF EnrolsAtOneStep
    <3> QED
      BY <1>1, <3>1
  <2>4. ASSUME totp'.st = "active", totp'.st = totp.st, totp'.step >= totp.step
        PROVE  e.n <= totp'.step
    BY <1>1, <2>1, <2>4 DEF FactorMove
  <2>5. ASSUME totp'.st = "active" PROVE e.n <= totp'.step
    <3>1. \/ totp'.st = totp.st /\ totp'.step >= totp.step
          \/ totp'.step \in Steps /\ "confirm" \in Verbs
      BY <2>5 DEF FactorMove
    <3> QED
      BY <2>3, <2>4, <2>5, <3>1
  <2> QED
    BY <2>1, <2>2, <2>5
<1>7. CASE e.kind \notin {"totp", "lookup_secret", "recovery_code"}
  BY <1>7 DEF Finished
<1> QED
  BY <1>4, <1>5, <1>6, <1>7

\* What was accepted before stays accepted; a pending enrolment is one of the scene's.
LEMMA SpentStays ==
    ASSUME IInv, EvidenceInv, FactorMove
    PROVE  /\ \A e \in DOMAIN spent : Finished(e)'
           /\ ("confirm" \notin Verbs => totp.st # "pending")'
           /\ EnrolsAtOneStep' = EnrolsAtOneStep
<1>1. Verbs' = Verbs /\ Steps' = Steps
  BY DEF FactorMove, Verbs, Steps
<1>2. \A e \in DOMAIN spent : Finished(e)'
  BY FinishedStaysFinished DEF IInv, EvidenceInv
<1> QED
  BY <1>1, <1>2 DEF EvidenceInv, FactorMove, EnrolsAtOneStep

LEMMA NothingSpent ==
    ASSUME IInv, EvidenceInv, FactorMove, spent' = spent
    PROVE  EvidenceInv'
<1>1. \A e \in DOMAIN spent : Finished(e)'
  BY SpentStays
<1> QED
  BY <1>1, SpentStays DEF EvidenceInv

\* A call spends what it presents: nothing was accepted twice if it could not have been
\* accepted before, and cannot be again.
LEMMA OneSpent ==
    ASSUME IInv, EvidenceInv, FactorMove, NEW f \in Evidence, Spend(f),
           f # Nothing => /\ Finished(f)'
                          /\ (f.kind = "totp" => EnrolsAtOneStep) => f \notin DOMAIN spent
    PROVE  EvidenceInv'
<1>1. CASE f = Nothing
  BY <1>1, NothingSpent DEF Spend
<1>2. CASE f # Nothing
  <2>1. spent' = spent (+) SetToBag({f})
    BY <1>2 DEF Spend
  <2>2. /\ DOMAIN spent' = DOMAIN spent \cup {f}
        /\ \A e \in DOMAIN spent \ {f} : spent'[e] = spent[e]
        /\ f \notin DOMAIN spent => spent'[f] = 1
    <3>1. IsABag(spent)
      BY DEF IInv, TypeOK
    <3> QED
      BY <2>1, <3>1 DEF SetToBag, (+), IsABag
  <2>3. \A e \in DOMAIN spent : Finished(e)'
    BY SpentStays
  <2>4. ASSUME NEW e \in DOMAIN spent'
        PROVE  /\ e \in Evidence /\ Finished(e)'
               /\ (e.kind = "totp" => EnrolsAtOneStep) => spent'[e] = 1
    <3>1. CASE e = f
      <4>1. Finished(f)'
        BY <1>2
      <4> QED
        BY <1>2, <2>2, <3>1, <4>1 DEF Finished, PendingWith
    <3>2. CASE e # f
      BY <2>2, <2>3, <2>4, <3>2 DEF EvidenceInv
    <3> QED
      BY <3>1, <3>2
  <2> QED
    BY <2>4, SpentStays DEF EvidenceInv
<1> QED
  BY <1>1, <1>2

\* What a verb accepts against the factor was not accepted before, and is finished by
\* the step: its time step is the last one accepted, or it left the set of codes.
LEMMA SettledIsSpent ==
    ASSUME IInv, EvidenceInv, FactorMove, NEW verb \in GatedVerbs \ {"confirm", "recover"},
           NEW f \in Shown(verb), Settles(f), Spend(f),
           totp' = SettledTotp(f) \/ totp'.st = "none",
           f.kind = "lookup_secret" => f.n \notin codes'
    PROVE  EvidenceInv'
<1>1. TypeOK
  BY DEF IInv
<1>2. /\ f \in Evidence /\ f.kind \in {"none", "totp", "lookup_secret"}
      /\ f.kind = "none" => f = Nothing
      /\ f.kind = "totp" => f.n \in Steps /\ f.secret <= minted
      /\ f.kind = "lookup_secret" => f.n \in 1 .. minted
  BY <1>1, ShownIsTyped
<1>3. /\ minted \in Nat /\ totp.step \in Nat /\ f.n \in Nat /\ f.secret \in Nat
      /\ minted' \in Nat /\ minted <= minted' /\ Steps' = Steps
      /\ totp \in [st : {"none", "pending", "active"}, secret : Nat, step : Nat]
  BY <1>1, <1>2 DEF TypeOK, Evidence, FactorMove, Steps
<1>4. f.kind \in {"totp", "lookup_secret"} => totp.st = "active" /\ totp'.st # "pending"
  <2>1. f.kind \in {"totp", "lookup_secret"} => totp.st = "active"
    BY DEF Settles, IInv, FactorInv, FactorEnrolled
  <2>2. SettledTotp(f).st = totp.st
    BY <1>3 DEF SettledTotp
  <2> QED
    BY <2>1, <2>2
<1>5. ASSUME f.kind = "totp"
      PROVE  Finished(f)' /\ (EnrolsAtOneStep => f \notin DOMAIN spent)
  <2>1. f.n > totp.step /\ FactorEnrolled
    BY <1>5 DEF Settles
  <2>2. totp'.st = "active" => totp'.step = f.n
    BY <1>3, <1>5 DEF SettledTotp
  <2>3. f \in DOMAIN spent => Finished(f)
    BY DEF EvidenceInv
  <2>4. EnrolsAtOneStep => f \notin DOMAIN spent
    BY <1>3, <1>5, <2>1, <2>3 DEF Finished
  <2>5. Finished(f)'
    BY <1>2, <1>3, <1>4, <1>5, <2>2 DEF Finished, PendingWith, FactorEnrolled
  <2> QED
    BY <2>4, <2>5
<1>6. ASSUME f.kind = "lookup_secret"
      PROVE  Finished(f)' /\ f \notin DOMAIN spent
  <2>1. f.n \in codes
    BY <1>6 DEF Settles
  <2>2. f \in DOMAIN spent => Finished(f)
    BY DEF EvidenceInv
  <2>3. f \notin DOMAIN spent
    BY <1>6, <2>1, <2>2 DEF Finished
  <2>4. Finished(f)'
    BY <1>2, <1>3, <1>4, <1>6 DEF Finished, PendingWith
  <2> QED
    BY <2>3, <2>4
<1> QED
  BY <1>2, <1>5, <1>6, OneSpent

\* A call past the gate presents what its verb takes.
LEMMA ReadyShows ==
    ASSUME IInv, NEW r \in Requests, NEW verb \in GatedVerbs, Ready(r, verb)
    PROVE  req[r].shown \in Shown(verb) /\ verb \in Verbs
<1>1. CallInv(req[r])
  BY DEF IInv, CallsInv
<1> QED
  BY <1>1 DEF CallInv, Ready, GatedVerbs, SessionVerbs

\* A settlement leaves the enrolment as it is and takes no step back.
LEMMA SettlingMovesFactor ==
    ASSUME TypeOK, NEW f \in Evidence, Settles(f), totp' = SettledTotp(f)
    PROVE  totp'.st = totp.st /\ totp'.secret = totp.secret /\ totp'.step >= totp.step
           /\ totp'.step \in Nat
<1>1. totp \in [st : {"none", "pending", "active"}, secret : Nat, step : Nat] /\ f.n \in Nat
  BY DEF TypeOK, Evidence
<1>2. CASE f.kind = "totp"
  BY <1>1, <1>2 DEF Settles, SettledTotp
<1>3. CASE f.kind # "totp"
  BY <1>1, <1>3 DEF SettledTotp
<1> QED
  BY <1>2, <1>3

LEMMA LoginSpends ==
    ASSUME IInv, EvidenceInv, NEW r \in Requests, LoginIssue(r)
    PROVE  EvidenceInv'
<1> DEFINE f == req[r].shown
<1>1. TypeOK /\ f \in Shown("login") /\ "login" \in GatedVerbs
  BY ReadyShows DEF IInv, LoginIssue, GatedVerbs
<1>2. f \in Evidence
  BY <1>1, ShownIsTyped
<1>3. /\ Settles(f) /\ Spend(f) /\ totp' = SettledTotp(f) /\ codes' = SettledCodes(f)
      /\ scene' = scene /\ minted' = minted /\ mailed' = mailed /\ recovery' = recovery
  BY DEF LoginIssue
<1> HIDE DEF f
<1>4. FactorMove
  BY <1>1, <1>2, <1>3, SettlingMovesFactor DEF FactorMove, TypeOK, SettledCodes
<1>5. f.kind = "lookup_secret" => f.n \notin codes'
  BY <1>3 DEF SettledCodes
<1> QED
  BY <1>1, <1>3, <1>4, <1>5, SettledIsSpent

LEMMA StepUpSpends ==
    ASSUME IInv, EvidenceInv, NEW r \in Requests, StepUp(r)
    PROVE  EvidenceInv'
<1> DEFINE f == req[r].shown
<1>1. TypeOK /\ f \in Shown("stepup") /\ "stepup" \in GatedVerbs
  BY ReadyShows DEF IInv, StepUp, GatedVerbs, SessionVerbs
<1>2. f \in Evidence
  BY <1>1, ShownIsTyped
<1>3. /\ scene' = scene /\ minted' = minted /\ mailed' = mailed /\ recovery' = recovery
      /\ \/ UNCHANGED <<totp, codes, spent>>
         \/ /\ Settles(f) /\ Spend(f)
            /\ totp' = SettledTotp(f) /\ codes' = SettledCodes(f)
  BY DEF StepUp, RefuseTx, factorVars
<1> HIDE DEF f
<1>4. CASE UNCHANGED <<totp, codes, spent>>
  BY <1>1, <1>3, <1>4, NothingSpent DEF FactorMove, TypeOK
<1>5. CASE Settles(f) /\ Spend(f) /\ totp' = SettledTotp(f) /\ codes' = SettledCodes(f)
  <2>1. FactorMove
    BY <1>1, <1>2, <1>3, <1>5, SettlingMovesFactor DEF FactorMove, TypeOK, SettledCodes
  <2>2. f.kind = "lookup_secret" => f.n \notin codes'
    BY <1>5 DEF SettledCodes
  <2> QED
    BY <1>1, <1>5, <2>1, <2>2, SettledIsSpent
<1> QED
  BY <1>3, <1>4, <1>5

LEMMA RemoveSpends ==
    ASSUME IInv, EvidenceInv, NEW r \in Requests, Remove(r)
    PROVE  EvidenceInv'
<1> DEFINE f == req[r].shown
<1>1. TypeOK /\ f \in Shown("remove") /\ "remove" \in GatedVerbs
  BY ReadyShows DEF IInv, Remove, GatedVerbs, SessionVerbs
<1>2. /\ scene' = scene /\ minted' = minted /\ mailed' = mailed /\ recovery' = recovery
      /\ \/ UNCHANGED <<totp, codes, spent>>
         \/ Settles(f) /\ Spend(f) /\ RemovedFactor
  BY DEF Remove, RefuseTx, factorVars
<1> HIDE DEF f
<1>3. CASE UNCHANGED <<totp, codes, spent>>
  BY <1>1, <1>2, <1>3, NothingSpent DEF FactorMove, TypeOK
<1>4. CASE Settles(f) /\ Spend(f) /\ RemovedFactor
  <2>1. FactorMove /\ totp'.st = "none"
    BY <1>1, <1>2, <1>4 DEF FactorMove, TypeOK, RemovedFactor
  <2> QED
    BY <1>1, <1>4, <2>1, SettledIsSpent DEF RemovedFactor
<1> QED
  BY <1>2, <1>3, <1>4

LEMMA RegenerateSpends ==
    ASSUME IInv, EvidenceInv, NEW r \in Requests, Regenerate(r)
    PROVE  EvidenceInv'
<1> DEFINE f == req[r].shown
<1>1. TypeOK /\ f \in Shown("regenerate") /\ "regenerate" \in GatedVerbs
  BY ReadyShows DEF IInv, Regenerate, GatedVerbs, SessionVerbs
<1>2. f \in Evidence /\ (f.kind = "lookup_secret" => f.n \in 1 .. minted)
  BY <1>1, ShownIsTyped
<1>3. /\ scene' = scene /\ mailed' = mailed /\ recovery' = recovery
      /\ \/ UNCHANGED <<totp, codes, spent, minted>>
         \/ /\ Settles(f) /\ Spend(f) /\ totp' = SettledTotp(f)
            /\ minted' = minted + 1 /\ codes' = {minted + 1}
  BY DEF Regenerate, RefuseTx, factorVars
<1> HIDE DEF f
<1>4. CASE UNCHANGED <<totp, codes, spent, minted>>
  BY <1>1, <1>3, <1>4, NothingSpent DEF FactorMove, TypeOK
<1>5. CASE /\ Settles(f) /\ Spend(f) /\ totp' = SettledTotp(f)
           /\ minted' = minted + 1 /\ codes' = {minted + 1}
  <2>1. FactorMove
    BY <1>1, <1>2, <1>3, <1>5, SettlingMovesFactor DEF FactorMove, TypeOK
  <2>2. f.kind = "lookup_secret" => f.n \notin codes'
    BY <1>1, <1>2, <1>5 DEF TypeOK
  <2> QED
    BY <1>1, <1>5, <2>1, <2>2, SettledIsSpent
<1> QED
  BY <1>3, <1>4, <1>5

\* The confirming code belongs to a pending enrolment, which no accepted evidence does.
LEMMA ConfirmSpends ==
    ASSUME IInv, EvidenceInv, NEW r \in Requests, Confirm(r)
    PROVE  EvidenceInv'
<1>0. PICK f : f = req[r].shown
  OBVIOUS
<1>1. TypeOK /\ f \in Shown("confirm") /\ "confirm" \in GatedVerbs /\ "confirm" \in Verbs
  BY <1>0, ReadyShows DEF IInv, Confirm, GatedVerbs, SessionVerbs
<1>2. f \in Evidence /\ f.kind = "totp" /\ f.n \in Steps /\ f.secret <= minted
  BY <1>1, ShownIsTyped
<1>3. /\ scene' = scene /\ minted' = minted /\ mailed' = mailed /\ recovery' = recovery
      /\ \/ UNCHANGED <<totp, codes, spent>>
         \/ /\ PendingWith(f.secret) /\ Spend(f) /\ codes' = {totp.secret}
            /\ totp' = [st |-> "active", secret |-> totp.secret, step |-> f.n]
  BY <1>0 DEF Confirm, RefuseTx, factorVars, SameEnrolment, PendingWith
<1>4. CASE UNCHANGED <<totp, codes, spent>>
  BY <1>1, <1>3, <1>4, NothingSpent DEF FactorMove, TypeOK
<1>5. CASE /\ PendingWith(f.secret) /\ Spend(f) /\ codes' = {totp.secret}
           /\ totp' = [st |-> "active", secret |-> totp.secret, step |-> f.n]
  <2>1. f.n \in Nat /\ f.secret \in Nat /\ Steps' = Steps
    BY <1>2, <1>3 DEF Evidence, Steps
  <2>2. FactorMove
    BY <1>1, <1>2, <1>3, <1>5, <2>1 DEF FactorMove, TypeOK, PendingWith
  <2>3. Finished(f)'
    BY <1>2, <1>3, <1>5, <2>1 DEF Finished, PendingWith, FactorEnrolled
  <2>4. EnrolsAtOneStep => f \notin DOMAIN spent
    BY <1>2, <1>5 DEF EvidenceInv, Finished
  <2> QED
    BY <1>2, <1>5, <2>2, <2>3, <2>4, OneSpent
<1> QED
  BY <1>3, <1>4, <1>5

LEMMA RecoverySpends ==
    ASSUME IInv, EvidenceInv, NEW r \in Requests, CompleteRecovery(r)
    PROVE  EvidenceInv'
<1>0. PICK f : f = req[r].shown
  OBVIOUS
<1>1. TypeOK /\ f \in Shown("recover") /\ "recover" \in GatedVerbs
  BY <1>0, ReadyShows DEF IInv, CompleteRecovery, GatedVerbs
<1>2. f \in Evidence /\ f.kind = "recovery_code" /\ f.n \in 1 .. mailed
  BY <1>1, ShownIsTyped
<1>3. /\ scene' = scene /\ minted' = minted /\ mailed' = mailed
      /\ totp' = totp /\ codes' = codes
      /\ \/ UNCHANGED <<recovery, spent>>
         \/ f.n \in recovery /\ Spend(f) /\ recovery' = recovery \ {f.n}
  BY <1>0 DEF CompleteRecovery, RefuseTx, factorVars
<1>4. FactorMove
  BY <1>1, <1>3 DEF FactorMove, TypeOK
<1>5. CASE UNCHANGED <<recovery, spent>>
  BY <1>4, <1>5, NothingSpent
<1>6. CASE f.n \in recovery /\ Spend(f) /\ recovery' = recovery \ {f.n}
  <2>1. Finished(f)'
    BY <1>1, <1>2, <1>3, <1>6 DEF Finished, TypeOK
  <2>2. f \notin DOMAIN spent
    BY <1>2, <1>6 DEF EvidenceInv, Finished
  <2> QED
    BY <1>2, <1>4, <1>6, <2>1, <2>2, OneSpent
<1> QED
  BY <1>3, <1>5, <1>6

\* The other steps spend nothing.
SpendingStep ==
    \E r \in Requests : \/ LoginIssue(r) \/ StepUp(r) \/ Remove(r) \/ Regenerate(r)
                        \/ Confirm(r) \/ CompleteRecovery(r)

LEMMA OthersSpendNothing ==
    ASSUME IInv, [Next]_vars, ~SpendingStep
    PROVE  spent' = spent /\ FactorMove
<1>1. TypeOK
  BY DEF IInv
<1>2. CASE RequestRecovery
  BY <1>1, <1>2 DEF RequestRecovery, FactorMove, TypeOK, factorVars
<1>3. CASE ResetSecondFactor
  BY <1>1, <1>3 DEF ResetSecondFactor, RemovedFactor, FactorMove, TypeOK
<1>4. CASE \E s \in Sessions : Enroll(s)
  BY <1>1, <1>4 DEF Enroll, FactorMove, TypeOK
<1>5. CASE /\ ~RequestRecovery /\ ~ResetSecondFactor
           /\ \A s \in Sessions : ~Enroll(s)
  <2>1. UNCHANGED <<scene, totp, codes, minted, mailed, recovery, spent>>
    BY <1>5 DEF SpendingStep, Next, vars, factorVars, Tick, WindowPasses, Admit, Verify,
       ReadBeforeWrite, RecordFailure, Abandon, LoginRefused, Rewrite, ChangePassword,
       ForceLogoutMoment, ForceLogout, Logout, EndOwnSessions, RefuseTx
  <2> QED
    BY <1>1, <2>1 DEF FactorMove, TypeOK
<1> QED
  BY <1>2, <1>3, <1>4, <1>5

LEMMA NextSpends ==
    ASSUME IInv, EvidenceInv, [Next]_vars
    PROVE  EvidenceInv'
<1>1. CASE SpendingStep
  BY <1>1, LoginSpends, StepUpSpends, RemoveSpends, RegenerateSpends, ConfirmSpends,
     RecoverySpends DEF SpendingStep
<1>2. CASE ~SpendingStep
  BY <1>2, OthersSpendNothing, NothingSpent
<1> QED
  BY <1>1, <1>2

LEMMA InitSpends == Init => EvidenceInv
<1> SUFFICES ASSUME Init PROVE EvidenceInv
  OBVIOUS
<1>1. DOMAIN spent = {}
  BY DEF Init, EmptyBag, SetToBag
<1>2. totp.st # "pending"
  BY DEF Init
<1> QED
  BY <1>1, <1>2 DEF EvidenceInv

\* Backup codes and recovery codes are accepted once in every scene, whatever verbs
\* present them at the same time (sf_present.go settle, recovery_code_repo.go).
CodesAreSpentOnce == \A e \in BagToSet(spent) : e.kind # "totp" => spent[e] = 1

THEOREM CodesStaySpentOnce == Spec => []CodesAreSpentOnce
<1>1. EvidenceInv => CodesAreSpentOnce
  BY DEF EvidenceInv, CodesAreSpentOnce, BagToSet
<1> QED
  BY <1>1, InitSpends, NextSpends, LaneInvariant, PTL DEF Spec

\* In no scene is a factor confirmed while codes of two time steps are in tolerance.
EveryEnrolmentIsAtOneStep ==
    \A sc \in Scenes : "confirm" \in sc.verbs => \A t, u \in sc.steps : t = u

\* Where a removed factor cannot be enrolled again with codes of another time step in
\* hand, no one-time evidence is accepted twice (section 7 of the README has the case
\* where it can).
THEOREM EvidenceStaysSpentOnce ==
    EveryEnrolmentIsAtOneStep => (Spec => []EvidenceIsSpentOnce)
<1> SUFFICES ASSUME EveryEnrolmentIsAtOneStep PROVE Spec => []EvidenceIsSpentOnce
  OBVIOUS
<1>1. IInv /\ EvidenceInv => EvidenceIsSpentOnce
  <2> SUFFICES ASSUME IInv, EvidenceInv PROVE EvidenceIsSpentOnce
    OBVIOUS
  <2>1. EnrolsAtOneStep
    BY DEF IInv, TypeOK, EveryEnrolmentIsAtOneStep, EnrolsAtOneStep, Verbs, Steps
  <2> QED
    BY <2>1 DEF EvidenceInv, EvidenceIsSpentOnce, BagToSet
<1> QED
  BY <1>1, InitSpends, NextSpends, LaneInvariant, PTL DEF Spec
=============================================================================
