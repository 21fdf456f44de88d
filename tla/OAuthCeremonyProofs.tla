------------------------ MODULE OAuthCeremonyProofs ------------------------
(***************************************************************************)
(* Proofs about OAuthCeremony, for any number of concurrent calls and of   *)
(* generations.                                                            *)
(*                                                                         *)
(* The locks are not variables of the model: who holds a row follows from  *)
(* the phases.  The invariant says what the tables look like between       *)
(* transactions (TablesInv), what a call may rely on in its phase whatever *)
(* the others do (Claim), and which phases exclude each other (Apart).     *)
(***************************************************************************)
EXTENDS OAuthCeremony, FiniteSetTheorems, TLAPS

tables == <<session, cut, family, reason, code, codeExpired, refresh, expired,
            granting, ending, pairs>>

\* The family is inserted with its code, in a transaction that excludes an end of the
\* session.  An end that has swept covers the family that lives; otherwise none lives.
\* A pair is answered only with the code redeemed, refresh tokens exist only with
\* the pair, and an active generation is the last one.
TablesInv ==
    /\ code = "none" <=> family = "none"
    /\ granting => code = "none" /\ ending = "no"
    /\ FamilyLocked => FamilyLive
    /\ ending = "swept" => ~FamilyLive
    /\ EndedSessionHoldsNothing
    /\ pairs = 0 \/ pairs = 1
    /\ pairs = 1 => code = "redeemed"
    /\ pairs = 0 => \A g \in Gens : refresh[g] = "none"
    /\ \A g, h \in Gens : refresh[g] = "active" /\ refresh[h] # "none" => h <= g

\* What a call in a phase with a generation can rely on: the family it shares lives
\* and nobody updates it, the code it consumed is active, the token it locked is
\* active, a token it fetched exists and has a successor, and what it takes for a
\* replay was used or has expired.
Claim(phase, g) ==
    /\ phase # "idle" => code # "none"
    /\ phase \in {"consumed", "recorded", "locked"} => FamilyLive /\ ~FamilyLocked
    /\ phase \in {"consumed", "recorded"} => code = "active"
    /\ phase \in {"refetched", "reissued", "locked"} => g < MaxGen /\ refresh[g] # "none"
    /\ phase = "locked" => refresh[g] = "active"
    /\ FamilyLive /\ phase = "replay" => code = "redeemed" \/ codeExpired
    /\ FamilyLive /\ phase = "rereplay" => refresh[g] = "rotated" \/ g \in expired

\* Two calls do not hold the code, or one token, at the same time.
Apart(p, g, q, h) ==
    /\ ~(p \in {"consumed", "recorded"} /\ q \in {"consumed", "recorded"})
    /\ ~(p = "locked" /\ q = "locked" /\ g = h)

CallsInv ==
    /\ \A r \in Requests : Claim(req[r].phase, req[r].gen)
    /\ \A r, s \in Requests : r # s => Apart(req[r].phase, req[r].gen, req[s].phase, req[s].gen)

IInv == TypeOK /\ TablesInv /\ CallsInv

-----------------------------------------------------------------------------
\* Call r goes to a phase of generation g; the other calls stay where they are.
Moves(r, phase, g) ==
    /\ req' \in [Requests -> [phase : Phases, gen : Gens]]
    /\ req'[r].phase = phase /\ req'[r].gen = g
    /\ \A s \in Requests \ {r} : req'[s] = req[s]

\* A call that enters a phase keeps its generation (Enter).
LEMMA EnterMoves ==
    ASSUME TypeOK, NEW r \in Requests, NEW phase \in Phases, Enter(r, phase)
    PROVE  Moves(r, phase, req[r].gen)
BY DEF TypeOK, Enter, Moves

\* A call that leaves holds nothing any more (Leave).
LEMMA LeaveMoves ==
    ASSUME TypeOK, NEW r \in Requests, Leave(r)
    PROVE  Moves(r, "idle", 0)
<1>1. 0 \in Gens
  BY GenerationsAssumption DEF Gens
<1>2. Idle \in [phase : Phases, gen : Gens] /\ Idle.phase = "idle" /\ Idle.gen = 0
  BY <1>1 DEF Idle, Phases
<1> QED
  BY <1>2 DEF TypeOK, Leave, Moves

\* A claim depends on the tables alone.
LEMMA ClaimFrame ==
    ASSUME NEW p, NEW g, Claim(p, g), UNCHANGED tables
    PROVE  Claim(p, g)'
BY DEF Claim, tables, FamilyLive, FamilyLocked

\* A call without a phase claims nothing.
LEMMA IdleClaims == \A g : Claim("idle", g)'
BY DEF Claim

LEMMA IdleIsApart == \A g, q, h : Apart("idle", g, q, h) /\ Apart(q, h, "idle", g)
BY DEF Apart

\* A call that moves and leaves the tables alone keeps the invariant if it may claim
\* what its new phase claims, and excludes nobody who is there.
LEMMA CallMoves ==
    ASSUME IInv, NEW r \in Requests, NEW phase, NEW g, Moves(r, phase, g), UNCHANGED tables,
           Claim(phase, g),
           \A s \in Requests \ {r} : Apart(phase, g, req[s].phase, req[s].gen)
    PROVE  IInv'
<1>1. TypeOK'
  BY DEF IInv, TypeOK, Moves, tables
<1>2. TablesInv'
  BY DEF IInv, TablesInv, tables, FamilyLive, FamilyLocked, EndedSessionHoldsNothing
<1>3. ASSUME NEW s \in Requests PROVE Claim(req[s].phase, req[s].gen)'
  <2>1. CASE s = r
    BY <2>1, ClaimFrame DEF Moves, Claim
  <2>2. CASE s # r
    BY <2>2, ClaimFrame DEF Moves, IInv, CallsInv
  <2> QED
    BY <2>1, <2>2
<1>4. ASSUME NEW s \in Requests, NEW t \in Requests, s # t
      PROVE  Apart(req'[s].phase, req'[s].gen, req'[t].phase, req'[t].gen)
  BY <1>4 DEF Moves, IInv, CallsInv, Apart
<1> QED
  BY <1>1, <1>2, <1>3, <1>4 DEF IInv, CallsInv

\* When the tables move, what every call claims has to stand in the new ones; a call
\* that leaves claims nothing.
LEMMA TablesMove ==
    ASSUME IInv, TypeOK', TablesInv', UNCHANGED req,
           \A s \in Requests : Claim(req[s].phase, req[s].gen)'
    PROVE  IInv'
BY DEF IInv, CallsInv

LEMMA CallLeaves ==
    ASSUME IInv, TypeOK', TablesInv', NEW r \in Requests, Moves(r, "idle", 0),
           \A s \in Requests \ {r} : Claim(req[s].phase, req[s].gen)'
    PROVE  IInv'
<1>1. ASSUME NEW s \in Requests PROVE Claim(req[s].phase, req[s].gen)'
  BY IdleClaims DEF Moves
<1>2. ASSUME NEW s \in Requests, NEW t \in Requests, s # t
      PROVE  Apart(req'[s].phase, req'[s].gen, req'[t].phase, req'[t].gen)
  BY <1>2, IdleIsApart DEF Moves, IInv, CallsInv
<1> QED
  BY <1>1, <1>2 DEF IInv, CallsInv

\* The phase and the generation of a call, typed.
LEMMA CallTypes ==
    ASSUME TypeOK, NEW s \in Requests
    PROVE  req[s].phase \in Phases /\ req[s].gen \in Gens
BY DEF TypeOK

-----------------------------------------------------------------------------
\* The service starts with nothing issued.
LEMMA InitInv == Init => IInv
<1> SUFFICES ASSUME Init PROVE IInv
  OBVIOUS
<1>1. Idle \in [phase : Phases, gen : Gens] /\ Idle.phase = "idle"
  BY GenerationsAssumption DEF Idle, Phases, Gens
<1>2. req \in [Requests -> [phase : Phases, gen : Gens]] /\ \A r \in Requests : req[r].phase = "idle"
  BY <1>1 DEF Init
<1>3. TypeOK
  BY <1>2 DEF Init, TypeOK
<1>4. TablesInv
  <2>1. \A g \in Gens : refresh[g] = "none"
    BY DEF Init
  <2>2. ~granting
    BY DEF Init
  <2>3. /\ code = "none" /\ family = "none" /\ ending = "no" /\ session = "live"
        /\ pairs = 0
    BY DEF Init
  <2> QED
    BY <2>1, <2>2, <2>3 DEF TablesInv, FamilyLive, FamilyLocked, EndedSessionHoldsNothing
<1>5. CallsInv
  BY <1>2 DEF CallsInv, Claim, Apart
<1> QED
  BY <1>3, <1>4, <1>5 DEF IInv

SessionStep ==
    \/ GrantBegin \/ GrantCommit \/ GrantAbort
    \/ EndBegin \/ EndSweep \/ EndCommit \/ EndAbort
    \/ CutOff \/ ExpireCode \/ \E g \in Gens : ExpireRefresh(g)

\* The issue of the code, the end of the session and the passing of time limits keep
\* the invariant.
LEMMA SessionStepInv ==
    ASSUME IInv, SessionStep
    PROVE  IInv'
<1> DEFINE Kept == \A s \in Requests : Claim(req[s].phase, req[s].gen)'
<1>1. ASSUME GrantBegin PROVE IInv'
  <2>1. TypeOK' /\ TablesInv'
    BY <1>1 DEF IInv, TypeOK, TablesInv, FamilyLive, FamilyLocked, EndedSessionHoldsNothing, GrantBegin, GrantLock
  <2>2. Kept
    BY <1>1 DEF IInv, CallsInv, Claim, FamilyLive, FamilyLocked, GrantBegin
  <2> QED
    BY <1>1, <2>1, <2>2, TablesMove DEF GrantBegin
<1>2. ASSUME GrantCommit PROVE IInv'
  <2>1. code = "none" /\ family = "none" /\ reason = "" /\ ending = "no"
    BY <1>2 DEF IInv, TypeOK, TablesInv, GrantCommit
  <2>2. TypeOK' /\ TablesInv'
    BY <1>2, <2>1 DEF IInv, TypeOK, TablesInv, FamilyLive, FamilyLocked, EndedSessionHoldsNothing, GrantCommit, Grantable
  <2>3. Kept
    BY <1>2, <2>1 DEF IInv, CallsInv, Claim, GrantCommit
  <2> QED
    BY <1>2, <2>2, <2>3, TablesMove DEF GrantCommit
<1>3. ASSUME GrantAbort PROVE IInv'
  <2>1. TypeOK' /\ TablesInv'
    BY <1>3 DEF IInv, TypeOK, TablesInv, FamilyLive, FamilyLocked, EndedSessionHoldsNothing, GrantAbort
  <2>2. Kept
    BY <1>3 DEF IInv, CallsInv, Claim, FamilyLive, FamilyLocked, GrantAbort
  <2> QED
    BY <1>3, <2>1, <2>2, TablesMove DEF GrantAbort
<1>4. ASSUME EndBegin PROVE IInv'
  <2>1. TypeOK' /\ TablesInv'
    BY <1>4 DEF IInv, TypeOK, TablesInv, FamilyLive, FamilyLocked, EndedSessionHoldsNothing, EndBegin
  <2>2. Kept
    BY <1>4 DEF IInv, CallsInv, Claim, FamilyLive, FamilyLocked, EndBegin
  <2> QED
    BY <1>4, <2>1, <2>2, TablesMove DEF EndBegin
<1>5. ASSUME EndSweep PROVE IInv'
  <2>1. TypeOK' /\ TablesInv'
    BY <1>5 DEF IInv, TypeOK, TablesInv, FamilyLive, FamilyLocked, EndedSessionHoldsNothing, EndSweep
  <2>2. Kept
    BY <1>5 DEF IInv, CallsInv, Claim, FamilyHolders, FamilyLive, FamilyLocked, EndSweep
  <2> QED
    BY <1>5, <2>1, <2>2, TablesMove DEF EndSweep
<1>6. ASSUME EndCommit PROVE IInv'
  <2>1. TypeOK' /\ TablesInv'
    BY <1>6 DEF IInv, TypeOK, TablesInv, FamilyLive, FamilyLocked, EndedSessionHoldsNothing, EndCommit
  <2>2. Kept
    BY <1>6 DEF IInv, CallsInv, Claim, FamilyLive, FamilyLocked, EndCommit
  <2> QED
    BY <1>6, <2>1, <2>2, TablesMove DEF EndCommit
<1>7. ASSUME EndAbort PROVE IInv'
  <2>1. TypeOK' /\ TablesInv'
    BY <1>7 DEF IInv, TypeOK, TablesInv, FamilyLive, FamilyLocked, EndedSessionHoldsNothing, EndAbort
  <2>2. Kept
    BY <1>7 DEF IInv, CallsInv, Claim, FamilyLive, FamilyLocked, EndAbort
  <2> QED
    BY <1>7, <2>1, <2>2, TablesMove DEF EndAbort
<1>8. ASSUME CutOff PROVE IInv'
  <2>1. TypeOK' /\ TablesInv'
    BY <1>8 DEF IInv, TypeOK, TablesInv, FamilyLive, FamilyLocked, EndedSessionHoldsNothing, CutOff
  <2>2. Kept
    BY <1>8 DEF IInv, CallsInv, Claim, FamilyLive, FamilyLocked, CutOff
  <2> QED
    BY <1>8, <2>1, <2>2, TablesMove DEF CutOff
<1>9. ASSUME ExpireCode PROVE IInv'
  <2>1. TypeOK' /\ TablesInv'
    BY <1>9 DEF IInv, TypeOK, TablesInv, FamilyLive, FamilyLocked, EndedSessionHoldsNothing, ExpireCode
  <2>2. Kept
    BY <1>9 DEF IInv, CallsInv, Claim, FamilyLive, FamilyLocked, ExpireCode
  <2> QED
    BY <1>9, <2>1, <2>2, TablesMove DEF ExpireCode
<1>10. ASSUME NEW g \in Gens, ExpireRefresh(g) PROVE IInv'
  <2>1. TypeOK' /\ TablesInv'
    BY <1>10 DEF IInv, TypeOK, TablesInv, FamilyLive, FamilyLocked, EndedSessionHoldsNothing, ExpireRefresh
  <2>2. Kept
    BY <1>10 DEF IInv, CallsInv, Claim, FamilyLive, FamilyLocked, ExpireRefresh
  <2> QED
    BY <1>10, <2>1, <2>2, TablesMove DEF ExpireRefresh
<1> QED
  BY <1>1, <1>2, <1>3, <1>4, <1>5, <1>6, <1>7, <1>8, <1>9, <1>10 DEF SessionStep
\* The statements of an exchange keep the invariant.
LEMMA ExchangeInv ==
    ASSUME IInv, NEW r \in Requests,
           FetchCode(r) \/ ConsumeCode(r) \/ IssueForCode(r) \/ CommitPair(r) \/ Settle(r)
    PROVE  IInv'
<1>0. /\ TypeOK /\ Claim(req[r].phase, req[r].gen) /\ req[r].gen \in Gens
      /\ code \in {"none", "active", "redeemed"}
  BY CallTypes DEF IInv, TypeOK, CallsInv
<1>1. ASSUME FetchCode(r) PROVE IInv'
  <2>1. UNCHANGED tables
    BY <1>1 DEF FetchCode, tables
  <2>2. CASE code = "redeemed"
    <3>1. Moves(r, "replay", req[r].gen)
      BY <1>0, <1>1, <2>2, EnterMoves DEF FetchCode, Phases
    <3>2. Claim("replay", req[r].gen)
      BY <2>2 DEF Claim
    <3> QED
      BY <2>1, <3>1, <3>2, CallMoves DEF Apart
  <2>3. CASE code # "redeemed"
    <3>1. Moves(r, "fetched", req[r].gen)
      BY <1>0, <1>1, <2>3, EnterMoves DEF FetchCode, Phases
    <3>2. Claim("fetched", req[r].gen)
      BY <1>1 DEF FetchCode, Claim
    <3> QED
      BY <2>1, <3>1, <3>2, CallMoves DEF Apart
  <2> QED
    BY <2>2, <2>3
<1>2. ASSUME ConsumeCode(r) PROVE IInv'
  <2>1. UNCHANGED tables /\ code # "none"
    BY <1>0, <1>2 DEF ConsumeCode, tables, Claim
  <2>2. CASE Consumable
    <3>1. Moves(r, "consumed", req[r].gen)
      BY <1>0, <1>2, <2>2, EnterMoves DEF ConsumeCode, Phases
    <3>2. Claim("consumed", req[r].gen)
      BY <1>2, <2>1, <2>2 DEF ConsumeCode, Claim, Consumable, CodeActive
    <3>3. \A s \in Requests \ {r} : Apart("consumed", req[r].gen, req[s].phase, req[s].gen)
      BY <1>2 DEF ConsumeCode, CodeHolders, Apart
    <3> QED
      BY <2>1, <3>1, <3>2, <3>3, CallMoves
  <2>3. CASE ~Consumable /\ CutOffTold(CodeActive)
    <3>1. Moves(r, "idle", 0)
      BY <1>0, <1>2, <2>3, LeaveMoves DEF ConsumeCode
    <3> QED
      BY <2>1, <3>1, CallMoves DEF Apart, Claim
  <2>4. CASE ~Consumable /\ ~CutOffTold(CodeActive)
    <3>1. Moves(r, "replay", req[r].gen)
      BY <1>0, <1>2, <2>4, EnterMoves DEF ConsumeCode, Phases
    <3>2. Claim("replay", req[r].gen)
      BY <1>0, <2>1, <2>4 DEF Claim, Consumable, CutOffTold, CodeActive
    <3> QED
      BY <2>1, <3>1, <3>2, CallMoves DEF Apart
  <2> QED
    BY <2>2, <2>3, <2>4
<1>3. ASSUME IssueForCode(r) PROVE IInv'
  <2>1. UNCHANGED tables
    BY <1>3 DEF IssueForCode, tables
  <2>2. Moves(r, "recorded", req[r].gen)
    BY <1>0, <1>3, EnterMoves DEF IssueForCode, Phases
  <2>3. Claim("recorded", req[r].gen)
    BY <1>0, <1>3 DEF IssueForCode, Claim
  <2>4. \A s \in Requests \ {r} : Apart("recorded", req[r].gen, req[s].phase, req[s].gen)
    BY <1>3 DEF IssueForCode, IInv, CallsInv, Apart
  <2> QED
    BY <2>1, <2>2, <2>3, <2>4, CallMoves
<1>4. ASSUME CommitPair(r) PROVE IInv'
  <2>1. Moves(r, "idle", 0)
    BY <1>0, <1>4, LeaveMoves DEF CommitPair
  <2>2. code = "active" /\ pairs = 0 /\ \A g \in Gens : refresh[g] = "none"
    BY <1>0, <1>4 DEF CommitPair, Claim, IInv, TablesInv
  <2>3. /\ refresh' \in [Gens -> {"none", "active", "rotated"}]
        /\ \A g \in Gens : refresh'[g] = IF g = 0 THEN "active" ELSE "none"
    BY <1>4, <2>2 DEF CommitPair, IInv, TypeOK
  <2>4. /\ code' = "redeemed" /\ pairs' = 1
        /\ UNCHANGED <<session, cut, family, reason, codeExpired, expired, granting, ending>>
    BY <1>4, <2>2 DEF CommitPair
  <2>5. TypeOK'
    BY <2>1, <2>3, <2>4 DEF IInv, TypeOK, Moves
  <2>6. TablesInv'
    <3>1. \A g, h \in Gens : refresh'[g] = "active" /\ refresh'[h] # "none" => h <= g
      BY <2>3
    <3> QED
      BY <2>2, <2>4, <3>1 DEF IInv, TypeOK, TablesInv, FamilyLive, FamilyLocked, EndedSessionHoldsNothing
  <2>7. ASSUME NEW s \in Requests \ {r} PROVE Claim(req[s].phase, req[s].gen)'
    <3>1. req'[s] = req[s] /\ req[s].gen \in Gens /\ Claim(req[s].phase, req[s].gen)
      BY <1>0, <2>1, CallTypes DEF IInv, CallsInv, Moves
    <3>2. req[s].phase \notin {"consumed", "recorded", "refetched", "reissued", "locked"}
      BY <1>4, <2>2, <3>1 DEF CommitPair, IInv, CallsInv, Apart, Claim
    <3> QED
      BY <2>2, <2>4, <3>1, <3>2 DEF Claim, FamilyLive
  <2> QED
    BY <2>1, <2>5, <2>6, <2>7, CallLeaves
<1>5. ASSUME Settle(r) PROVE IInv'
  <2>1. Moves(r, "idle", 0)
    BY <1>0, <1>5, LeaveMoves DEF Settle
  <2>2. code = "active"
    BY <1>0, <1>5 DEF Settle, Claim
  <2>3. TypeOK'
    BY <1>5, <2>1 DEF Settle, IInv, TypeOK, Moves
  <2>4. TablesInv'
    BY <1>5, <2>2 DEF Settle, IInv, TypeOK, TablesInv, FamilyLive, FamilyLocked, EndedSessionHoldsNothing
  <2>5. ASSUME NEW s \in Requests \ {r} PROVE Claim(req[s].phase, req[s].gen)'
    BY <1>5, <2>1, <2>2 DEF Settle, IInv, CallsInv, Claim, Apart, Moves, FamilyLive, FamilyLocked
  <2> QED
    BY <2>1, <2>3, <2>4, <2>5, CallLeaves
<1> QED
  BY <1>1, <1>2, <1>3, <1>4, <1>5
\* The statements of a rotation keep the invariant.
LEMMA RotationInv ==
    ASSUME IInv, NEW r \in Requests,
           \/ \E g \in Gens : FetchRefresh(r, g)
           \/ IssueForRefresh(r) \/ RotateRefresh(r) \/ StoreSuccessor(r)
    PROVE  IInv'
<1>0. TypeOK /\ Claim(req[r].phase, req[r].gen) /\ req[r].gen \in Gens
  BY CallTypes DEF IInv, CallsInv
<1>1. ASSUME NEW g \in Gens, FetchRefresh(r, g) PROVE IInv'
  <2>1. UNCHANGED tables /\ FamilyLive /\ code # "none"
    BY <1>1 DEF FetchRefresh, tables, FamilyLive, IInv, TablesInv
  <2>2. CASE /\ refresh[g] = "rotated"
             /\ req' = [req EXCEPT ![r] = [phase |-> "rereplay", gen |-> g]]
    <3>1. Moves(r, "rereplay", g)
      BY <1>0, <2>2 DEF Moves, TypeOK, Phases
    <3> QED
      BY <2>1, <2>2, <3>1, CallMoves DEF Claim, Apart
  <2>3. CASE /\ refresh[g] = "active" /\ g < MaxGen
             /\ req' = [req EXCEPT ![r] = [phase |-> "refetched", gen |-> g]]
    <3>1. Moves(r, "refetched", g)
      BY <1>0, <2>3 DEF Moves, TypeOK, Phases
    <3> QED
      BY <2>1, <2>3, <3>1, CallMoves DEF Claim, Apart
  <2> QED
    BY <1>1, <2>2, <2>3 DEF FetchRefresh
<1>2. ASSUME IssueForRefresh(r) PROVE IInv'
  <2>1. UNCHANGED tables
    BY <1>2 DEF IssueForRefresh, tables
  <2>2. Moves(r, "reissued", req[r].gen) \/ Moves(r, "idle", 0)
    BY <1>0, <1>2, EnterMoves, LeaveMoves DEF IssueForRefresh, Phases
  <2>3. Claim("reissued", req[r].gen) /\ Claim("idle", 0)
    BY <1>0, <1>2 DEF IssueForRefresh, Claim
  <2> QED
    BY <2>1, <2>2, <2>3, CallMoves DEF Apart
<1>3. ASSUME RotateRefresh(r) PROVE IInv'
  <2> DEFINE g == req[r].gen
             Rotates == RefreshActive(g) /\ g \notin expired /\ ~cut
  <2>1. /\ UNCHANGED tables /\ code # "none" /\ g < MaxGen
        /\ refresh[g] # "none" /\ refresh[g] \in {"none", "active", "rotated"}
    BY <1>0, <1>3 DEF RotateRefresh, tables, Claim, TypeOK
  <2>2. CASE Rotates
    <3>1. Moves(r, "locked", g)
      BY <1>0, <1>3, <2>2, EnterMoves DEF RotateRefresh, Phases
    <3>2. Claim("locked", g)
      BY <1>3, <2>1, <2>2 DEF RotateRefresh, Claim, RefreshActive
    <3>3. \A s \in Requests \ {r} : Apart("locked", g, req[s].phase, req[s].gen)
      BY <1>3 DEF RotateRefresh, RefreshHolders, Apart
    <3> QED
      BY <2>1, <3>1, <3>2, <3>3, CallMoves
  <2>3. CASE ~Rotates /\ CutOffTold(RefreshActive(g))
    <3>1. Moves(r, "idle", 0)
      BY <1>0, <1>3, <2>3, LeaveMoves DEF RotateRefresh
    <3> QED
      BY <2>1, <3>1, CallMoves DEF Apart, Claim
  <2>4. CASE ~Rotates /\ ~CutOffTold(RefreshActive(g))
    <3>1. Moves(r, "rereplay", g)
      BY <1>0, <1>3, <2>4, EnterMoves DEF RotateRefresh, Phases
    <3>2. Claim("rereplay", g)
      BY <2>1, <2>4 DEF Claim, CutOffTold, RefreshActive
    <3> QED
      BY <2>1, <3>1, <3>2, CallMoves DEF Apart
  <2> QED
    BY <2>2, <2>3, <2>4
<1>4. ASSUME StoreSuccessor(r) PROVE IInv'
  <2> DEFINE g == req[r].gen
  <2>1. Moves(r, "idle", 0)
    BY <1>0, <1>4, LeaveMoves DEF StoreSuccessor
  <2>2. UNCHANGED <<session, cut, family, reason, code, codeExpired, expired, granting, ending, pairs>>
    BY <1>4 DEF StoreSuccessor
  <2>3. CASE UNCHANGED refresh
    BY <2>1, <2>2, <2>3, CallMoves DEF tables, Claim, Apart
  <2>4. CASE refresh' = [refresh EXCEPT ![g] = "rotated", ![g + 1] = "active"]
    <3>1. /\ g \in Gens /\ g + 1 \in Gens /\ g + 1 # g /\ refresh[g] = "active" /\ FamilyLive
          /\ refresh \in [Gens -> {"none", "active", "rotated"}] /\ \A h \in Gens : h \in Nat
      <4>1. refresh[g] = "active" /\ FamilyLive /\ g < MaxGen
        BY <1>0, <1>4 DEF StoreSuccessor, Claim
      <4>2. g \in Nat /\ g + 1 \in Gens /\ g + 1 # g /\ \A h \in Gens : h \in Nat
        BY <1>0, <4>1, GenerationsAssumption DEF Gens
      <4>3. refresh \in [Gens -> {"none", "active", "rotated"}]
        BY <1>0 DEF TypeOK
      <4> QED
        BY <1>0, <4>1, <4>2, <4>3
    <3>2. /\ refresh' \in [Gens -> {"none", "active", "rotated"}]
          /\ refresh'[g] = "rotated" /\ refresh'[g + 1] = "active"
          /\ \A h \in Gens \ {g, g + 1} : refresh'[h] = refresh[h]
      BY <2>4, <3>1
    <3>3. \A h \in Gens : refresh[h] = "active" => h = g
      BY <3>1 DEF IInv, TablesInv
    <3>4. \A h \in Gens : refresh[h] # "none" => h <= g
      BY <3>1 DEF IInv, TablesInv
    <3>5. TypeOK'
      BY <2>1, <2>2, <3>2 DEF IInv, TypeOK, Moves
    <3>6. TablesInv'
      <4>1. \A h, i \in Gens : refresh'[h] = "active" /\ refresh'[i] # "none" => i <= h
        <5> SUFFICES ASSUME NEW h \in Gens, NEW i \in Gens, refresh'[h] = "active", refresh'[i] # "none"
                     PROVE  i <= h
          OBVIOUS
        <5>1. h = g + 1
          BY <3>1, <3>2, <3>3
        <5>2. i = g + 1 \/ i <= g
          BY <3>1, <3>2, <3>4
        <5>3. g \in Nat /\ i \in Nat
          BY <3>1
        <5> QED
          BY <5>1, <5>2, <5>3
      <4>2. pairs = 1
        BY <3>1 DEF IInv, TablesInv
      <4>3. pairs # 0
        BY <4>2
      <4> QED
        BY <2>2, <4>1, <4>2, <4>3 DEF IInv, TypeOK, TablesInv, FamilyLive, FamilyLocked, EndedSessionHoldsNothing
    <3>7. ASSUME NEW s \in Requests \ {r} PROVE Claim(req[s].phase, req[s].gen)'
      <4>1. /\ req'[s] = req[s] /\ req[s].gen \in Gens
            /\ Claim(req[s].phase, req[s].gen)
            /\ Apart(req[r].phase, g, req[s].phase, req[s].gen)
        BY <1>0, <2>1, CallTypes DEF IInv, CallsInv, Moves
      <4>2. req[s].phase = "locked" => refresh'[req[s].gen] = "active"
        BY <1>4, <3>3, <4>1 DEF StoreSuccessor, Claim, Apart
      <4>3. refresh[req[s].gen] # "none" => refresh'[req[s].gen] # "none"
        BY <3>1, <3>2, <4>1
      <4>4. refresh[req[s].gen] = "rotated" => refresh'[req[s].gen] = "rotated"
        BY <3>1, <3>2, <3>4, <4>1
      <4> QED
        BY <2>2, <4>1, <4>2, <4>3, <4>4 DEF Claim, FamilyLive, FamilyLocked
    <3> QED
      BY <2>1, <3>5, <3>6, <3>7, CallLeaves
  <2> QED
    BY <1>4, <2>3, <2>4 DEF StoreSuccessor
<1> QED
  BY <1>1, <1>2, <1>3, <1>4

\* A revocation after a replay, and a call that is lost, keep the invariant.
LEMMA EndOfCallInv ==
    ASSUME IInv, NEW r \in Requests, RevokeReplayed(r) \/ Abandon(r)
    PROVE  IInv'
<1>1. ASSUME RevokeReplayed(r) PROVE IInv'
  <2>1. Moves(r, "idle", 0)
    BY <1>1, LeaveMoves DEF RevokeReplayed, IInv
  <2>2. TypeOK' /\ TablesInv'
    BY <1>1, <2>1 DEF RevokeReplayed, IInv, TypeOK, TablesInv, Moves, FamilyLive, FamilyLocked, EndedSessionHoldsNothing
  <2>3. ASSUME NEW s \in Requests \ {r} PROVE Claim(req[s].phase, req[s].gen)'
    BY <1>1, <2>1 DEF RevokeReplayed, IInv, CallsInv, Claim, Moves, FamilyHolders, FamilyLive, FamilyLocked
  <2> QED
    BY <2>1, <2>2, <2>3, CallLeaves
<1>2. ASSUME Abandon(r) PROVE IInv'
  <2>1. Moves(r, "idle", 0) /\ UNCHANGED tables
    BY <1>2, LeaveMoves DEF Abandon, tables, IInv
  <2> QED
    BY <2>1, CallMoves DEF Claim, Apart
<1> QED
  BY <1>1, <1>2

LEMMA NextInv == IInv /\ [Next]_vars => IInv'
<1>1. ASSUME IInv, UNCHANGED vars PROVE IInv'
  BY <1>1 DEF vars, IInv, TypeOK, TablesInv, CallsInv, Claim, Apart, FamilyLive, FamilyLocked,
      EndedSessionHoldsNothing
<1>2. Next => SessionStep \/ \E r \in Requests : Start(r) \/ Proceed(r) \/ Abandon(r)
  BY DEF Next, SessionStep
<1> QED
  BY <1>1, <1>2, SessionStepInv, ExchangeInv, RotationInv, EndOfCallInv DEF Start, Proceed

\* The ceremony's invariant holds in every reachable state.
THEOREM CeremonyInvariant == Spec => []IInv
BY InitInv, NextInv, PTL DEF Spec

-----------------------------------------------------------------------------
\* However many calls present a code at the same time, one pair comes of it
\* (exchangeCodeSQL).
THEOREM OnePair == Spec => []OnePairPerCode
<1>1. IInv => OnePairPerCode
  BY DEF IInv, TablesInv, OnePairPerCode
<1> QED
  BY <1>1, CeremonyInvariant, PTL

\* A family never has two refresh tokens that can be rotated (RotateRefreshToken,
\* StoreRefreshToken).
THEOREM OneGeneration == Spec => []OneLiveGeneration
<1>1. ASSUME IInv PROVE OneLiveGeneration
  <2> DEFINE A == {g \in Gens : RefreshActive(g)}
  <2>1. \A g, h \in A : g = h
    BY <1>1, GenerationsAssumption DEF IInv, TablesInv, RefreshActive, Gens
  <2>2. CASE A = {}
    BY <2>2, FS_EmptySet DEF OneLiveGeneration
  <2>3. CASE A # {}
    <3>1. PICK g \in A : TRUE
      BY <2>3
    <3>2. A = {g}
      BY <2>1, <3>1
    <3>3. Cardinality(A) = 1
      BY <3>2, FS_Singleton
    <3> QED
      BY <3>3 DEF OneLiveGeneration
  <2> QED
    BY <2>2, <2>3
<1> QED
  BY <1>1, CeremonyInvariant, PTL

\* Nothing issued in a session outlives its end (IssueAuthorizationCode,
\* revokeFamiliesOfSessionsTx).
THEOREM NothingOutlivesTheSession == Spec => []EndedSessionHoldsNothing
<1>1. IInv => EndedSessionHoldsNothing
  BY DEF IInv, TablesInv
<1> QED
  BY <1>1, CeremonyInvariant, PTL

\* The family of an exchange that consumed the code lives until the exchange ends
\* (OpenRequest).
THEOREM ConsumerKeepsItsFamily == Spec => []ConsumerIsServed
<1>1. ASSUME IInv PROVE ConsumerIsServed
  BY <1>1 DEF IInv, CallsInv, Claim, ConsumerIsServed, CodeHolders
<1> QED
  BY <1>1, CeremonyInvariant, PTL

\* A live family is taken for replayed only over a code or a token that was used, or
\* whose time limit has passed (adjudicatePresented).
THEOREM ReplaysAreReal == Spec => []ReplayIsOfTheUsed
<1>1. ASSUME IInv PROVE ReplayIsOfTheUsed
  BY <1>1 DEF IInv, CallsInv, Claim, ReplayIsOfTheUsed
<1> QED
  BY <1>1, CeremonyInvariant, PTL
=============================================================================
