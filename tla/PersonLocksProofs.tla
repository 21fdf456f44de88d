------------------------- MODULE PersonLocksProofs --------------------------
(***************************************************************************)
(* Proof that the row locks of one person's transactions never wait in a   *)
(* ring, for any number of transactions, sessions and any set of verbs,    *)
(* as long as the two pairs of verbs whose orders cross do not overlap;    *)
(* where they do, that no ring is without one of these pairs.              *)
(*                                                                         *)
(* The argument gives every transaction a height, which is about the place *)
(* of the row it wants in one order of all kinds of rows, and shows that   *)
(* whoever blocks a transaction stands higher: the highest one of a set is *)
(* blocked by none of it.  The verbs do not follow that order; where one   *)
(* departs from it, the lock it holds on the person's row keeps away the   *)
(* others it could wait for.                                               *)
(***************************************************************************)
EXTENDS PersonLocks, NaturalsInduction, WellFoundedInduction, TLAPS

-----------------------------------------------------------------------------
(* The programs of the verbs.                                              *)

\* Each verb's program is the one named for it.
LEMMA ProgramOf ==
    ASSUME NEW s \in Sessions
    PROVE  /\ Program("login", s) = Login("none")
           /\ Program("login_by_totp", s) = Login("totp")
           /\ Program("login_by_code", s) = Login("code")
           /\ Program("logout", s) = Logout(s)
           /\ Program("change", s) = ChangePassword(s)
           /\ Program("end_others", s) = EndOthers(s)
           /\ Program("end_one", s) = EndOne(s)
           /\ Program("force_logout", s) = ForceLogout
           /\ Program("request_recovery", s) = RequestRecovery
           /\ Program("complete_recovery", s) = CompleteRecovery
           /\ Program("step_up_by_totp", s) = StepUp(s, "totp")
           /\ Program("step_up_by_code", s) = StepUp(s, "code")
           /\ Program("regenerate_by_totp", s) = Regenerate(s, "totp")
           /\ Program("regenerate_by_code", s) = Regenerate(s, "code")
           /\ Program("enroll", s) = Enroll
           /\ Program("confirm", s) = Confirm(s)
           /\ Program("remove_by_totp", s) = Remove(s, "totp")
           /\ Program("remove_by_code", s) = Remove(s, "code")
           /\ Program("reset_factor", s) = ResetFactor
           /\ Program("block", s) = Block
           /\ Program("delete", s) = Delete
           /\ Program("rewrite", s) = Rewrite
           /\ Program("issue_code", s) = IssueCode(s)
           /\ Program("use_family", s) = UseFamily(s)
           /\ Program("revoke_family", s) = RevokeFamily(s)
BY Zenon DEF Program

\* The kinds of a person's rows in the order most verbs take them.
Kind(lock) == lock[1][1]

Place(kind) ==
    IF kind = "person" THEN 1
    ELSE IF kind = "recovery" THEN 2
    ELSE IF kind = "password" THEN 3
    ELSE IF kind = "totp" THEN 4
    ELSE IF kind = "codes" THEN 5
    ELSE IF kind = "session" THEN 6
    ELSE IF kind = "family" THEN 7
    ELSE IF kind = "cutoff" THEN 8
    ELSE IF kind = "first" THEN 9
    ELSE 10

\* Verbs that lock one row, and the lock on the person's row under which all the
\* others take the rest.
OneRow == {"rewrite", "use_family", "revoke_family"}
UnderKeyShare == {"logout", "step_up_by_totp", "step_up_by_code", "regenerate_by_totp",
                  "regenerate_by_code", "issue_code"}
UnderShare == {"login", "login_by_totp", "login_by_code"}
UnderUpdate == {"enroll", "confirm", "delete"}
Serial == AllVerbs \ (OneRow \cup UnderKeyShare \cup UnderShare)
Removals == {"remove_by_totp", "remove_by_code"}

Strength(v) ==
    IF v \in UnderKeyShare THEN KeyShare
    ELSE IF v \in UnderShare THEN Share
    ELSE IF v \in UnderUpdate THEN Update
    ELSE NoKeyUpdate

Opening(v) == <<IF v = "force_logout" THEN 2 ELSE 1, <<Of("person"), Strength(v)>>>>

\* A lock belongs to a statement of a number.
IsStep(p) == p \in Nat \X (Rows \X Modes)

\* The person's row comes first, and only a forced logout locks it twice.
PersonFirst(v, P) ==
    /\ v \notin OneRow =>
          /\ Opening(v) \in P
          /\ \A q \in P : Kind(q[2]) # "person" => Opening(v)[1] < q[1]
    /\ \A p, q \in P : p[1] <= q[1] /\ p # q /\ Kind(q[2]) = "person" =>
          /\ v = "force_logout"
          /\ p[2][2] = KeyShare /\ q[2][2] = NoKeyUpdate
    /\ v \in OneRow => \A p, q \in P : p = q

\* A statement locks rows of one kind, and kinds come in the order of their places,
\* but for a removal and a change of the password.
InOrder(v, P) == \A p, q \in P :
    /\ p[1] = q[1] => Kind(p[2]) = Kind(q[2])
    /\ p[1] <= q[1] =>
          \/ Kind(p[2]) = Kind(q[2])
          \/ Place(Kind(p[2])) < Place(Kind(q[2]))
          \/ v = "remove_by_code" /\ Kind(p[2]) = "codes" /\ Kind(q[2]) = "totp"
          \/ v \in Removals /\ Kind(p[2]) = "family" /\ Kind(q[2]) = "session"
          \/ /\ v = "change" /\ Kind(p[2]) \in {"family", "cutoff"}
             /\ Kind(q[2]) = "session"

\* Of a verb that runs under a key lock only the new codes lock a kind twice, and only
\* they come after the generator.
FewUnderKeyShare(v, P) == \A p, q \in P : v \notin Serial /\ p[1] <= q[1] =>
    /\ p # q /\ Kind(p[2]) = Kind(q[2]) =>
          v = "regenerate_by_code" /\ Kind(p[2]) = "codes" /\ p[2][2] = Update
    /\ Kind(p[2]) = "totp" /\ Kind(q[2]) = "codes" => v = "regenerate_by_totp"

\* A logout has its session before its family and the cut-off, and is alone with them
\* among the verbs that do not exclude each other.
LogoutLocks(v, s, P) == \A q \in P :
    (v \in UnderKeyShare \cup UnderShare /\ Kind(q[2]) \in {"family", "cutoff"}) =>
       /\ v = "logout"
       /\ <<2, <<Own("session", s), NoKeyUpdate>>>> \in P /\ 2 < q[1]
       /\ Kind(q[2]) = "family" => q[2][1] = Own("family", s)

\* A removal and a change of the password have the other sessions before what follows
\* them.
OthersFirst(v, s, P) == v \in Removals \cup {"change"} =>
    \A p \in P : Kind(p[2]) \in {"family", "cutoff"} =>
       /\ \A x \in Sessions \ {s} :
             \E n \in Nat : n < p[1] /\ <<n, <<Own("session", x), NoKeyUpdate>>>> \in P
       /\ Kind(p[2]) = "family" => p[2][1] # Own("family", s)

\* The secrets of the second factor are locked against each other.
SecretsExclude(P) == \A p \in P : Kind(p[2]) \in {"totp", "codes"} => p[2][2] >= NoKeyUpdate

\* Every verb but the deletion, which locks all that is left in any order, has that
\* shape.
LEMMA ShapeOfPrograms ==
    ASSUME NEW v \in AllVerbs, v # "delete", NEW s \in Sessions
    PROVE  /\ \A p \in Program(v, s) : IsStep(p)
           /\ PersonFirst(v, Program(v, s))
           /\ InOrder(v, Program(v, s))
           /\ FewUnderKeyShare(v, Program(v, s))
           /\ LogoutLocks(v, s, Program(v, s))
           /\ OthersFirst(v, s, Program(v, s))
           /\ SecretsExclude(Program(v, s))
<1> USE DEF At, Ended, Each, Own, Of, Lock, Person, Settle, Cutoff, ResetFailures,
            Present, RemoveFactor, Kind, Place, KeyShare, Share, NoKeyUpdate, Update,
            Modes, Rows, Kinds, AllVerbs, OneRow, UnderKeyShare, UnderShare, UnderUpdate,
            Serial, Removals, Strength, Opening, IsStep, PersonFirst, InOrder,
            FewUnderKeyShare, LogoutLocks, OthersFirst, SecretsExclude
<1>1. CASE v = "login"
  BY <1>1, ProgramOf, SMTT(60) DEF Login
<1>2. CASE v = "login_by_totp"
  BY <1>2, ProgramOf, SMTT(60) DEF Login
<1>3. CASE v = "login_by_code"
  BY <1>3, ProgramOf, SMTT(60) DEF Login
<1>4. CASE v = "logout"
  BY <1>4, ProgramOf, SMTT(60) DEF Logout
<1>5. CASE v = "change"
  BY <1>5, ProgramOf, SMTT(60) DEF ChangePassword
<1>6. CASE v = "end_others"
  BY <1>6, ProgramOf, SMTT(60) DEF EndOthers
<1>7. CASE v = "end_one"
  BY <1>7, ProgramOf, SMTT(60) DEF EndOne
<1>8. CASE v = "force_logout"
  BY <1>8, ProgramOf, SMTT(60) DEF ForceLogout
<1>9. CASE v = "request_recovery"
  BY <1>9, ProgramOf, SMTT(60) DEF RequestRecovery
<1>10. CASE v = "complete_recovery"
  BY <1>10, ProgramOf, SMTT(60) DEF CompleteRecovery
<1>11. CASE v = "step_up_by_totp"
  BY <1>11, ProgramOf, SMTT(60) DEF StepUp
<1>12. CASE v = "step_up_by_code"
  BY <1>12, ProgramOf, SMTT(60) DEF StepUp
<1>13. CASE v = "regenerate_by_totp"
  BY <1>13, ProgramOf, SMTT(60) DEF Regenerate
<1>14. CASE v = "regenerate_by_code"
  BY <1>14, ProgramOf, SMTT(60) DEF Regenerate
<1>15. CASE v = "enroll"
  BY <1>15, ProgramOf, SMTT(60) DEF Enroll
<1>16. CASE v = "confirm"
  BY <1>16, ProgramOf, SMTT(60) DEF Confirm
<1>17. CASE v = "remove_by_totp"
  BY <1>17, ProgramOf, SMTT(60) DEF Remove
<1>18. CASE v = "remove_by_code"
  BY <1>18, ProgramOf, SMTT(60) DEF Remove
<1>19. CASE v = "reset_factor"
  BY <1>19, ProgramOf, SMTT(60) DEF ResetFactor
<1>20. CASE v = "block"
  BY <1>20, ProgramOf, SMTT(60) DEF Block
<1>21. CASE v = "rewrite"
  BY <1>21, ProgramOf, SMTT(60) DEF Rewrite
<1>22. CASE v = "issue_code"
  BY <1>22, ProgramOf, SMTT(60) DEF IssueCode
<1>23. CASE v = "use_family"
  BY <1>23, ProgramOf, SMTT(60) DEF UseFamily
<1>24. CASE v = "revoke_family"
  BY <1>24, ProgramOf, SMTT(60) DEF RevokeFamily
<1> HIDE DEF At, Ended, Each, Own, Of, Lock, Person, Settle, Cutoff, ResetFailures,
            Present, RemoveFactor, Kind, Place, KeyShare, Share, NoKeyUpdate, Update,
            Modes, Rows, Kinds, OneRow, UnderKeyShare, UnderShare, UnderUpdate,
            Serial, Removals, Strength, Opening, IsStep, PersonFirst, InOrder,
            FewUnderKeyShare, LogoutLocks, OthersFirst, SecretsExclude
<1> QED
  BY <1>1, <1>2, <1>3, <1>4, <1>5, <1>6, <1>7, <1>8, <1>9, <1>10, <1>11, <1>12,
     <1>13, <1>14, <1>15, <1>16, <1>17, <1>18, <1>19, <1>20, <1>21, <1>22, <1>23,
     <1>24

\* The deletion locks the person's row first, too.
LEMMA DeletionOpens ==
    ASSUME NEW s \in Sessions
    PROVE  /\ \A p \in Program("delete", s) : IsStep(p)
           /\ PersonFirst("delete", Program("delete", s))
BY ProgramOf, SMTT(60)
   DEF Delete, At, Each, Own, Of, Lock, Person, Cutoff, Kind, KeyShare, Share,
       NoKeyUpdate, Update, Modes, Rows, Kinds, OneRow, UnderKeyShare, UnderShare,
       UnderUpdate, Strength, Opening, IsStep, PersonFirst

LEMMA EveryProgram ==
    ASSUME NEW v \in AllVerbs, NEW s \in Sessions
    PROVE  /\ \A p \in Program(v, s) : IsStep(p)
           /\ PersonFirst(v, Program(v, s))
BY ShapeOfPrograms, DeletionOpens

\* A kind that is no session's has one row.
LEMMA OneRowOfAKind ==
    ASSUME NEW row \in Rows, row[1] \notin {"session", "family"}
    PROVE  row = Of(row[1])
BY DEF Rows, Of, Own

-----------------------------------------------------------------------------
(* The inductive invariant.                                                *)

Plan(t) == Program(call[t][1], call[t][2])
Done(t) == Plan(t) \ todo[t]

\* A transaction holds the locks of its program that it has not still to take, and
\* has taken them in the order of the program.
ProgressInv == \A t \in Txns :
    IF call[t] = None THEN todo[t] = {} /\ held[t] = {}
    ELSE /\ todo[t] \subseteq Plan(t)
         /\ held[t] = {p[2] : p \in Done(t)}
         /\ \A p \in Done(t), q \in todo[t] : p[1] <= q[1]

\* No two transactions hold locks that conflict.
ExclusionInv == \A t, u \in Txns : t # u =>
    \A h \in held[t], k \in held[u] : h[1] = k[1] => ~Conflict(h[2], k[2])

\* Verbs whose orders cross do not overlap.
CrossingInv == \A t, u \in Running : t # u => ~Cross(call[t], call[u])

LocksInv == TypeOK /\ ProgressInv /\ ExclusionInv /\ CrossingInv

LEMMA NoneRuns == None \notin Verbs \X Sessions
BY LimitsAssumption DEF None, AllVerbs

LEMMA InvAtFirst == Init => LocksInv
BY DEF Init, LocksInv, TypeOK, ProgressInv, ExclusionInv, CrossingInv, Running

LEMMA InvKept == LocksInv /\ [Next]_vars => LocksInv'
<1> SUFFICES ASSUME LocksInv, [Next]_vars
             PROVE  LocksInv'
  OBVIOUS
<1> USE DEF LocksInv
<1>1. ASSUME NEW t \in Txns, Begin(t)
      PROVE  LocksInv'
  <2>1. PICK verb \in Verbs, s \in Sessions :
          /\ \A u \in Running :
                ~Cross(<<verb, s>>, call[u]) /\ ~Cross(call[u], <<verb, s>>)
          /\ call' = [call EXCEPT ![t] = <<verb, s>>]
          /\ todo' = [todo EXCEPT ![t] = Program(verb, s)]
          /\ held' = held
    BY <1>1 DEF Begin
  <2>2. call[t] = None /\ held[t] = {}
    BY <1>1 DEF Begin, Running, ProgressInv
  <2>3. verb \in AllVerbs /\ <<verb, s>> # None
    BY NoneRuns, LimitsAssumption
  <2>4. Program(verb, s) \subseteq Nat \X (Rows \X Modes)
    BY <2>3, EveryProgram DEF IsStep
  <2>5. TypeOK'
    BY <2>1, <2>4 DEF TypeOK
  <2>6. ProgressInv'
    BY <2>1, <2>2, <2>3 DEF TypeOK, ProgressInv, Plan, Done
  <2>7. ExclusionInv'
    BY <2>1 DEF ExclusionInv
  <2>8. CrossingInv'
    <3> SUFFICES ASSUME NEW a \in Running', NEW b \in Running', a # b
                 PROVE  ~Cross(call'[a], call'[b])
      BY DEF CrossingInv, Cross
    <3>1. CASE a # t /\ b # t
      BY <2>1, <3>1 DEF CrossingInv, Running, TypeOK
    <3>2. CASE a = t
      BY <2>1, <3>2 DEF Running, TypeOK
    <3>3. CASE b = t
      BY <2>1, <3>3 DEF Running, TypeOK
    <3> QED BY <3>1, <3>2, <3>3
  <2> QED BY <2>5, <2>6, <2>7, <2>8
<1>2. ASSUME NEW t \in Txns, Acquire(t)
      PROVE  LocksInv'
  <2>1. PICK p \in Statement(t) :
          /\ Grantable(t, p[2])
          /\ held' = [held EXCEPT ![t] = @ \cup {p[2]}]
          /\ todo' = [todo EXCEPT ![t] = @ \ {p}]
          /\ call' = call
    BY <1>2 DEF Acquire
  <2>2. p \in todo[t] /\ \A q \in todo[t] : p[1] <= q[1]
    BY DEF Statement
  <2>3. call[t] # None /\ p \in Plan(t)
    BY <2>2 DEF ProgressInv
  <2>4. p \in Nat \X (Rows \X Modes)
    BY <2>2 DEF TypeOK
  <2>5. TypeOK'
    BY <2>1, <2>4 DEF TypeOK
  <2>6. ProgressInv'
    <3> SUFFICES ASSUME NEW u \in Txns
                 PROVE  IF call'[u] = None THEN todo'[u] = {} /\ held'[u] = {}
                        ELSE /\ todo'[u] \subseteq Plan(u)'
                             /\ held'[u] = {q[2] : q \in Done(u)'}
                             /\ \A q \in Done(u)', r \in todo'[u] : q[1] <= r[1]
      BY DEF ProgressInv
    <3>1. Plan(u)' = Plan(u)
      BY <2>1 DEF Plan
    <3>2. CASE u # t
      <4>1. todo'[u] = todo[u] /\ held'[u] = held[u] /\ Done(u)' = Done(u)
        BY <2>1, <3>1, <3>2 DEF TypeOK, Done
      <4> QED BY <2>1, <3>1, <4>1 DEF ProgressInv
    <3>3. CASE u = t
      <4>1. /\ todo'[t] = todo[t] \ {p} /\ held'[t] = held[t] \cup {p[2]}
            /\ Done(t)' = Done(t) \cup {p}
        BY <2>1, <2>3, <3>1, <3>3 DEF TypeOK, Done
      <4> QED BY <2>1, <2>2, <2>3, <3>1, <3>3, <4>1 DEF ProgressInv
    <3> QED BY <3>2, <3>3
  <2>7. ExclusionInv'
    <3>1. \A h \in held[t], u \in Txns \ {t} : \A k \in held[u] :
             h[1] = k[1] => ~Conflict(h[2], k[2]) /\ ~Conflict(k[2], h[2])
      BY DEF ExclusionInv
    <3>2. p[2][2] \in Nat /\ \A u \in Txns : \A k \in held[u] : k[2] \in Nat
      BY <2>4 DEF TypeOK, Modes, KeyShare, Update
    <3>3. \A u \in Txns \ {t} : \A k \in held[u] :
             p[2][1] = k[1] => ~Conflict(p[2][2], k[2]) /\ ~Conflict(k[2], p[2][2])
      BY <2>1, <3>2 DEF Grantable, Conflict
    <3>4. \A u \in Txns : held'[u] = IF u = t THEN held[t] \cup {p[2]} ELSE held[u]
      BY <2>1 DEF TypeOK
    <3> QED BY <3>1, <3>3, <3>4 DEF ExclusionInv
  <2>8. CrossingInv'
    BY <2>1 DEF CrossingInv, Running, Cross
  <2> QED BY <2>5, <2>6, <2>7, <2>8
<1>3. ASSUME NEW t \in Txns, End(t)
      PROVE  LocksInv'
  <2>1. TypeOK'
    BY <1>3 DEF End, TypeOK
  <2>2. ProgressInv'
    BY <1>3 DEF End, TypeOK, ProgressInv, Plan, Done
  <2>3. ExclusionInv'
    BY <1>3 DEF End, TypeOK, ExclusionInv
  <2>4. CrossingInv'
    BY <1>3 DEF End, TypeOK, CrossingInv, Running, Cross
  <2> QED BY <2>1, <2>2, <2>3, <2>4
<1>4. CASE UNCHANGED vars
  BY <1>4 DEF vars, TypeOK, ProgressInv, ExclusionInv, CrossingInv, Running, Cross,
              Plan, Done
<1> QED BY <1>1, <1>2, <1>3, <1>4 DEF Next


-----------------------------------------------------------------------------
(* What a waiting transaction holds.                                       *)

Verb(t) == call[t][1]
Session(t) == call[t][2]

LEMMA RunningOnes ==
    ASSUME LocksInv, NEW t \in Running
    PROVE  /\ t \in Txns /\ call[t] # None
           /\ Verb(t) \in AllVerbs /\ Session(t) \in Sessions
           /\ call[t] = <<Verb(t), Session(t)>>
           /\ Plan(t) = Program(Verb(t), Session(t))
           /\ todo[t] \subseteq Plan(t)
           /\ held[t] = {p[2] : p \in Done(t)}
           /\ \A p \in Done(t), q \in todo[t] : p[1] <= q[1] /\ p # q
           /\ \A p \in Plan(t) : IsStep(p)
           /\ PersonFirst(Verb(t), Plan(t))
           /\ Verb(t) # "delete" =>
                 /\ InOrder(Verb(t), Plan(t)) /\ FewUnderKeyShare(Verb(t), Plan(t))
                 /\ LogoutLocks(Verb(t), Session(t), Plan(t))
                 /\ OthersFirst(Verb(t), Session(t), Plan(t))
                 /\ SecretsExclude(Plan(t))
<1>1. t \in Txns /\ call[t] # None /\ call[t] \in Verbs \X Sessions
  BY DEF Running, LocksInv, TypeOK
<1>2. /\ Verb(t) \in AllVerbs /\ Session(t) \in Sessions
      /\ call[t] = <<Verb(t), Session(t)>>
  BY <1>1, LimitsAssumption DEF Verb, Session
<1>3. Plan(t) = Program(Verb(t), Session(t))
  BY DEF Plan, Verb, Session
<1>4. /\ todo[t] \subseteq Plan(t)
      /\ held[t] = {p[2] : p \in Done(t)}
      /\ \A p \in Done(t), q \in todo[t] : p[1] <= q[1] /\ p # q
  BY <1>1 DEF LocksInv, ProgressInv, Done
<1> QED BY <1>1, <1>2, <1>3, <1>4, EveryProgram, ShapeOfPrograms

\* What comes before a lock that is held, or wanted, is held.
LEMMA EarlierIsHeld ==
    ASSUME LocksInv, NEW t \in Running, NEW e \in Plan(t),
           NEW p \in Done(t) \cup Statement(t), e[1] < p[1]
    PROVE  e[2] \in held[t]
<1>1. e[1] \in Nat /\ p[1] \in Nat
  BY RunningOnes DEF IsStep, Done, Statement
<1>2. e \notin todo[t]
  <2>1. CASE p \in Done(t)
    BY <1>1, <2>1, RunningOnes
  <2>2. CASE p \in Statement(t)
    BY <1>1, <2>2 DEF Statement
  <2> QED BY <2>1, <2>2
<1> QED BY <1>2, RunningOnes DEF Done

\* A transaction that has got, or waits for, something besides the person's row holds
\* the person's row in its strength.
LEMMA PersonIsHeld ==
    ASSUME LocksInv, NEW t \in Running, Verb(t) \notin OneRow,
           NEW p \in Done(t) \cup Statement(t), Kind(p[2]) # "person"
    PROVE  <<Of("person"), Strength(Verb(t))>> \in held[t]
<1>1. p \in Plan(t)
  BY RunningOnes DEF Done, Statement
<1>2. Opening(Verb(t)) \in Plan(t) /\ Opening(Verb(t))[1] < p[1]
  BY <1>1, RunningOnes DEF PersonFirst
<1>3. Opening(Verb(t))[2] = <<Of("person"), Strength(Verb(t))>>
  BY DEF Opening
<1> QED BY <1>2, <1>3, EarlierIsHeld

LEMMA HeldAreLocks ==
    ASSUME LocksInv, NEW t \in Txns, NEW h \in held[t]
    PROVE  h = <<h[1], h[2]>> /\ h[1] \in Rows /\ h[2] \in {1, 2, 3, 4}
BY DEF LocksInv, TypeOK, Modes, KeyShare, Update

\* Two transactions that hold anything and want more both hold the person's row, and
\* no deletion is one of them.
LEMMA BothHoldThePerson ==
    ASSUME LocksInv, NEW t \in Running, NEW u \in Running, t # u,
           held[t] # {}, held[u] # {}, Wanted(t) # {}, Wanted(u) # {}
    PROVE  /\ Verb(t) \notin OneRow
           /\ Verb(t) # "delete"
<1>1. ASSUME NEW x \in {t, u}
      PROVE  /\ Verb(x) \notin OneRow
             /\ \E h \in held[x] : h[1] = Of("person")
  <2>1. x \in Running /\ held[x] # {} /\ Wanted(x) # {}
    OBVIOUS
  <2>2. PICK q \in Statement(x) : TRUE
    BY <2>1 DEF Wanted
  <2>3. PICK p \in Done(x) : p[2] \in held[x]
    BY <2>1, RunningOnes
  <2>4. p \in Plan(x) /\ q \in Plan(x) /\ p # q
    BY <2>1, RunningOnes DEF Done, Statement
  <2>5. Verb(x) \notin OneRow
    BY <2>1, <2>4, RunningOnes DEF PersonFirst
  <2>6. CASE Kind(p[2]) # "person"
    BY <2>1, <2>5, <2>6, PersonIsHeld
  <2>7. CASE Kind(p[2]) = "person"
    <3>1. p[2][1] \in Rows /\ p[2][1][1] = "person"
      BY <2>1, <2>4, <2>7, RunningOnes DEF IsStep, Kind
    <3> QED BY <2>3, <2>5, <3>1, OneRowOfAKind
  <2> QED BY <2>5, <2>6, <2>7
<1>2. ASSUME Verb(t) = "delete"
      PROVE  FALSE
  <2>1. PICK q \in Statement(t) : TRUE
    BY DEF Wanted
  <2>2. PICK p \in Done(t) : TRUE
    BY RunningOnes
  <2>3. q \in Plan(t) /\ p \in Plan(t) /\ p[1] <= q[1] /\ p # q
    BY RunningOnes DEF Done, Statement
  <2>4. Kind(q[2]) # "person"
    BY <1>2, <2>3, RunningOnes DEF PersonFirst
  <2>5. <<Of("person"), Update>> \in held[t]
    BY <1>1, <1>2, <2>4, PersonIsHeld DEF Strength, UnderKeyShare, UnderShare, UnderUpdate
  <2>6. PICK h \in held[u] : h[1] = Of("person")
    BY <1>1
  <2>7. ~Conflict(Update, h[2])
    BY <2>5, <2>6, RunningOnes DEF LocksInv, ExclusionInv
  <2> QED BY <2>6, <2>7, HeldAreLocks, RunningOnes DEF Conflict, Update
<1> QED BY <1>1, <1>2

-----------------------------------------------------------------------------
(* Heights.                                                                *)

\* The orders of two calls cross.
OrdersCross(c, d) == \E name \in KnownCrossings : CrossAs(name, c, d)

Highest == 30
WantedKind(t) == CHOOSE kind : \E w \in Wanted(t) : Kind(w) = kind
Holds(t, kind) == \E h \in held[t] : Kind(h) = kind

\* A removal that settled a code wants the generator above who wants the codes.
Height(t) ==
    IF held[t] = {} THEN 0
    ELSE IF Wanted(t) = {} THEN Highest
    ELSE IF Verb(t) = "remove_by_code" /\ WantedKind(t) = "totp"
         THEN 2 * Place("codes") + 1
    ELSE 2 * Place(WantedKind(t)) + (IF Holds(t, WantedKind(t)) THEN 1 ELSE 0)

LEMMA PlaceIsSmall == \A kind : Place(kind) \in 1 .. 10
BY DEF Place

LEMMA HeightIsBounded ==
    ASSUME NEW t
    PROVE  /\ Height(t) \in 0 .. Highest
           /\ held[t] # {} => Height(t) > 0
           /\ Wanted(t) # {} => Height(t) < Highest
<1>1. Place("codes") \in 1 .. 10 /\ Place(WantedKind(t)) \in 1 .. 10
  BY PlaceIsSmall
<1> QED BY <1>1 DEF Height, Highest

\* The height in terms of any lock of the statement under way.
LEMMA HeightOfAWaiter ==
    ASSUME LocksInv, NEW t \in Running, held[t] # {}, Verb(t) # "delete",
           NEW q \in Statement(t)
    PROVE  Height(t) =
              IF Verb(t) = "remove_by_code" /\ Kind(q[2]) = "totp" THEN 11
              ELSE 2 * Place(Kind(q[2])) + (IF Holds(t, Kind(q[2])) THEN 1 ELSE 0)
<1>1. \A p \in Statement(t) : p[1] = q[1]
  <2>1. \A p \in Statement(t) : p[1] \in Nat
    BY RunningOnes DEF Statement, IsStep
  <2> QED BY <2>1 DEF Statement
<1>2. \A p \in Statement(t) : p \in Plan(t)
  BY RunningOnes DEF Statement
<1>3. \A w \in Wanted(t) : Kind(w) = Kind(q[2])
  BY <1>1, <1>2, RunningOnes DEF Wanted, InOrder
<1>4. q[2] \in Wanted(t)
  BY DEF Wanted
<1>5. WantedKind(t) = Kind(q[2])
  BY <1>3, <1>4 DEF WantedKind
<1>6. Place("codes") = 5
  BY DEF Place
<1> QED BY <1>4, <1>5, <1>6 DEF Height

\* Two verbs that both take the person's row and do not exclude each other there.
LEMMA OneIsUnderKeyShare ==
    ASSUME LocksInv, NEW t \in Running, NEW u \in Running, t # u,
           <<Of("person"), Strength(Verb(t))>> \in held[t],
           <<Of("person"), Strength(Verb(u))>> \in held[u],
           Verb(t) \in Serial
    PROVE  Verb(u) \in UnderKeyShare /\ Verb(u) \notin Serial
<1>1. ~Conflict(Strength(Verb(t)), Strength(Verb(u)))
  BY RunningOnes DEF LocksInv, ExclusionInv
<1>2. Strength(Verb(t)) >= 3
  BY DEF Strength, Serial, UnderKeyShare, UnderShare, UnderUpdate, OneRow, NoKeyUpdate,
         Update, KeyShare, Share
<1>3. Strength(Verb(u)) \in Nat /\ (Strength(Verb(u)) <= 1 => Verb(u) \in UnderKeyShare)
  BY DEF Strength, NoKeyUpdate, Update, KeyShare, Share
<1>4. Strength(Verb(t)) \in Nat
  BY DEF Strength, NoKeyUpdate, Update, KeyShare, Share
<1>5. Verb(u) \in UnderKeyShare
  BY <1>1, <1>2, <1>3, <1>4 DEF Conflict
<1> QED BY <1>5 DEF Serial

\* Only one of two waiting transactions holds a lock of a kind and wants another of that
\* kind, if the other holds one of it.
LEMMA OneTakesAKindTwice ==
    ASSUME LocksInv, NEW t \in Running, NEW u \in Running, t # u,
           Verb(t) # "delete", Verb(u) # "delete", Verb(t) \notin Serial,
           NEW d \in Done(t), NEW q \in Statement(t), NEW p \in Done(u),
           Kind(d[2]) = Kind(q[2]), Kind(p[2]) = Kind(q[2])
    PROVE  FALSE
<1>1. d \in Plan(t) /\ q \in Plan(t) /\ d[1] <= q[1] /\ d # q
  BY RunningOnes DEF Done, Statement
<1>2. Kind(d[2]) = "codes" /\ d[2][2] = Update
  BY <1>1, RunningOnes DEF FewUnderKeyShare
<1>3. d[2] \in held[t] /\ p[2] \in held[u]
  BY RunningOnes
<1>4. d[2][1] = Of("codes") /\ p[2][1] = Of("codes")
  BY <1>2, <1>3, HeldAreLocks, OneRowOfAKind, RunningOnes DEF Kind
<1>5. ~Conflict(Update, p[2][2])
  BY <1>2, <1>3, <1>4, RunningOnes DEF LocksInv, ExclusionInv
<1> QED BY <1>3, <1>5, HeldAreLocks, RunningOnes DEF Conflict, Update

\* A transaction under the key lock of the person that waits for a family or the cut-off
\* is a logout, and its session is not one that the other has ended.
LEMMA LogoutIsApart ==
    ASSUME LocksInv, NEW t \in Running, NEW u \in Running, t # u,
           ~OrdersCross(call[t], call[u]),
           Verb(t) \in UnderKeyShare, Verb(u) \in Removals \cup {"change"},
           NEW q \in Statement(t), NEW p \in Done(u), q[2][1] = p[2][1],
           \/ Kind(q[2]) = "family"
           \/ Kind(q[2]) = "cutoff" /\ Verb(u) = "change"
    PROVE  FALSE
<1>1. q \in Plan(t) /\ p \in Plan(u) /\ Kind(p[2]) = Kind(q[2])
  BY RunningOnes DEF Statement, Done, Kind
<1>2. Verb(t) # "delete" /\ Verb(u) # "delete"
  BY DEF UnderKeyShare, Removals
<1>3. /\ Verb(t) = "logout"
      /\ <<2, <<Own("session", Session(t)), NoKeyUpdate>>>> \in Plan(t) /\ 2 < q[1]
      /\ Kind(q[2]) = "family" => q[2][1] = Own("family", Session(t))
  BY <1>1, <1>2, RunningOnes DEF LogoutLocks
<1>4. <<Own("session", Session(t)), NoKeyUpdate>> \in held[t]
  BY <1>3, EarlierIsHeld
<1>5. /\ \A x \in Sessions \ {Session(u)} :
            \E n \in Nat : n < p[1] /\ <<n, <<Own("session", x), NoKeyUpdate>>>> \in Plan(u)
      /\ Kind(p[2]) = "family" => p[2][1] # Own("family", Session(u))
  BY <1>1, <1>2, RunningOnes DEF OthersFirst
<1>6. Session(t) # Session(u)
  <2>1. CASE Kind(q[2]) = "family"
    BY <1>1, <1>3, <1>5, <2>1
  <2>2. CASE Verb(u) = "change"
    BY <1>3, <2>2 DEF OrdersCross, CrossAs, KnownCrossings, Verb, Session
  <2> QED BY <2>1, <2>2
<1>7. PICK n \in Nat :
        n < p[1] /\ <<n, <<Own("session", Session(t)), NoKeyUpdate>>>> \in Plan(u)
  BY <1>5, <1>6, RunningOnes
<1>8. <<Own("session", Session(t)), NoKeyUpdate>> \in held[u]
  BY <1>7, EarlierIsHeld
<1>9. ~Conflict(NoKeyUpdate, NoKeyUpdate)
  BY <1>4, <1>8, RunningOnes DEF LocksInv, ExclusionInv
<1> QED BY <1>9 DEF Conflict, NoKeyUpdate

\* Whoever blocks a transaction stands higher, if their orders do not cross.
LEMMA BlockerIsHigher ==
    ASSUME LocksInv, NEW t \in Running, NEW u \in Running, t # u,
           ~OrdersCross(call[t], call[u]), ~OrdersCross(call[u], call[t]),
           Blocks(u, t)
    PROVE  Height(t) < Height(u)
<1>1. PICK q \in Statement(t), h \in held[u] : q[2][1] = h[1] /\ Conflict(q[2][2], h[2])
  BY DEF Blocks, Wanted
<1>2. PICK p \in Done(u) : p[2] = h
  BY <1>1, RunningOnes
<1>3. Wanted(t) # {} /\ held[u] # {}
  BY <1>1 DEF Wanted
<1>4. CASE held[t] = {}
  <2>1. Height(t) = 0
    BY <1>4 DEF Height
  <2> QED BY <1>3, <2>1, HeightIsBounded
<1>5. CASE Wanted(u) = {}
  <2>1. Height(u) = Highest
    BY <1>3, <1>5 DEF Height
  <2> QED BY <1>3, <2>1, HeightIsBounded
<1>6. CASE held[t] # {} /\ Wanted(u) # {}
  <2>1. /\ Verb(t) \notin OneRow /\ Verb(t) # "delete"
        /\ Verb(u) \notin OneRow /\ Verb(u) # "delete"
    BY <1>3, <1>6, BothHoldThePerson
  <2>2. PICK x \in Statement(u) : TRUE
    BY <1>6 DEF Wanted
  <2>3. PICK d \in Done(t) : TRUE
    BY <1>6, RunningOnes
  <2>4. /\ d \in Plan(t) /\ q \in Plan(t) /\ d[1] <= q[1] /\ d # q
        /\ p \in Plan(u) /\ x \in Plan(u) /\ p[1] <= x[1] /\ p # x
    BY RunningOnes DEF Done, Statement
  <2> DEFINE k == Kind(q[2]) j == Kind(x[2])
  <2>5. Kind(p[2]) = k
    BY <1>1, <1>2 DEF Kind
  <2>6. /\ Height(t) = IF Verb(t) = "remove_by_code" /\ k = "totp" THEN 11
                       ELSE 2 * Place(k) + (IF Holds(t, k) THEN 1 ELSE 0)
        /\ Height(u) = IF Verb(u) = "remove_by_code" /\ j = "totp" THEN 11
                       ELSE 2 * Place(j) + (IF Holds(u, j) THEN 1 ELSE 0)
    BY <1>3, <1>6, <2>1, HeightOfAWaiter
  <2> HIDE DEF k, j
  <2>7. CASE k = "person"
    <3>1. Verb(t) = "force_logout" /\ q[2][2] = NoKeyUpdate
      BY <2>4, <2>7, RunningOnes DEF PersonFirst, k
    <3>2. j # "person"
      <4>1. ASSUME j = "person"
            PROVE  p[2][2] = KeyShare
        BY <2>4, <4>1, RunningOnes DEF PersonFirst, j
      <4> QED BY <1>1, <1>2, <3>1, <4>1 DEF Conflict, KeyShare, NoKeyUpdate
    <3>3. Place(j) \in Nat /\ Place(j) >= 2 /\ Place(k) = 1
      BY <2>7, <3>2 DEF Place
    <3>4. Height(t) <= 3
      BY <2>6, <3>1, <3>3
    <3>5. Height(u) >= 4
      BY <2>6, <3>3
    <3> QED BY <3>4, <3>5, HeightIsBounded
  <2>8. CASE k # "person"
    <3>1. /\ <<Of("person"), Strength(Verb(t))>> \in held[t]
          /\ <<Of("person"), Strength(Verb(u))>> \in held[u]
      BY <2>1, <2>5, <2>8, PersonIsHeld DEF k
    <3>2. Place(k) \in 1 .. 10 /\ Place(j) \in 1 .. 10
      BY PlaceIsSmall
    <3>3. /\ Verb(t) \in Serial => Verb(u) \in UnderKeyShare /\ Verb(u) \notin Serial
          /\ Verb(u) \in Serial => Verb(t) \in UnderKeyShare /\ Verb(t) \notin Serial
      BY <3>1, OneIsUnderKeyShare
    <3>4. "remove_by_code" \in Serial /\ "remove_by_totp" \in Serial /\ "change" \in Serial
      BY DEF Serial, AllVerbs, OneRow, UnderKeyShare, UnderShare
    <3>5. Verb(t) \notin Serial => ~Holds(t, k)
      <4> SUFFICES ASSUME Verb(t) \notin Serial, Holds(t, k)
                   PROVE  FALSE
        OBVIOUS
      <4>1. PICK e \in Done(t) : Kind(e[2]) = k
        BY RunningOnes DEF Holds
      <4> QED BY <2>1, <2>5, <4>1, OneTakesAKindTwice DEF k
    <3>6. Verb(u) \notin Serial /\ j = k => ~Holds(t, k) /\ k # "totp"
      <4> SUFFICES ASSUME Verb(u) \notin Serial, j = k
                   PROVE  ~Holds(t, k) /\ k # "totp"
        OBVIOUS
      <4>1. k = "codes"
        BY <2>1, <2>4, <2>5, RunningOnes DEF FewUnderKeyShare, j
      <4>2. ASSUME Holds(t, k)
            PROVE  FALSE
        <5>1. PICK e \in Done(t) : Kind(e[2]) = k
          BY <4>2, RunningOnes DEF Holds
        <5> QED BY <2>1, <2>5, <5>1, OneTakesAKindTwice DEF j
      <4> QED BY <4>1, <4>2
    <3>7. Place("totp") = 4 /\ Place("codes") = 5
      BY DEF Place
    <3>8. ~(Verb(t) = "remove_by_code" /\ k = "totp") => Height(t) <= 2 * Place(k) + 1
      <4>1. CASE Holds(t, k)
        BY <2>6, <3>2, <4>1
      <4>2. CASE ~Holds(t, k)
        BY <2>6, <3>2, <4>2
      <4> QED BY <4>1, <4>2
    <3>9. Height(u) >= 2 * Place(j)
      BY <2>6, <3>2, <3>7
    \* The kinds in the order of their places.
    <3>10. CASE j = k
      <4>1. Holds(u, k)
        BY <1>2, <2>5 DEF Holds
      <4>2. Height(u) >= 2 * Place(k) + 1
        BY <2>6, <3>2, <3>7, <3>10, <4>1
      <4>3. ~Holds(t, k) /\ ~(Verb(t) = "remove_by_code" /\ k = "totp")
        BY <3>3, <3>4, <3>5, <3>6, <3>10
      <4>4. Height(t) = 2 * Place(k)
        BY <2>6, <3>2, <4>3
      <4> QED BY <3>2, <4>2, <4>4, HeightIsBounded
    <3>11. CASE Place(k) < Place(j)
      <4>1. CASE Verb(t) = "remove_by_code" /\ k = "totp"
        <5>1. Height(t) = 11
          BY <2>6, <4>1
        <5>2. Verb(u) \in UnderKeyShare /\ Verb(u) \notin Serial
          BY <3>3, <3>4, <4>1
        <5>3. j # "codes"
          <6> SUFFICES ASSUME j = "codes"
                       PROVE  FALSE
            OBVIOUS
          <6>1. Verb(u) = "regenerate_by_totp"
            BY <2>1, <2>4, <2>5, <4>1, <5>2, RunningOnes DEF FewUnderKeyShare, j
          <6> QED BY <4>1, <6>1 DEF OrdersCross, CrossAs, KnownCrossings, Verb
        <5>4. Place(j) >= 6
          BY <3>7, <3>11, <4>1, <5>3 DEF Place
        <5> QED BY <3>2, <3>9, <5>1, <5>4, HeightIsBounded
      <4>2. CASE ~(Verb(t) = "remove_by_code" /\ k = "totp")
        <5>1. Height(t) <= 2 * Place(k) + 1
          BY <3>8, <4>2
        <5> QED BY <3>2, <3>9, <3>11, <5>1, HeightIsBounded
      <4> QED BY <4>1, <4>2
    \* A removal by a code has the codes before the generator.
    <3>12. CASE Verb(u) = "remove_by_code" /\ k = "codes" /\ j = "totp"
      <4>1. Verb(t) \notin Serial
        BY <3>3, <3>4, <3>12
      <4>2. ~Holds(t, k)
        BY <3>5, <4>1
      <4>3. Height(t) = 10 /\ Height(u) = 11
        BY <2>6, <3>7, <3>12, <4>2
      <4> QED BY <4>3
    \* A removal and a change of the password have the caller's session last.
    <3>13. CASE Verb(u) \in Removals /\ k = "family"
      <4>1. Verb(t) \in UnderKeyShare
        BY <3>3, <3>4, <3>13 DEF Removals
      <4> QED BY <1>1, <1>2, <3>13, <4>1, LogoutIsApart DEF k
    <3>14. CASE Verb(u) = "change" /\ k \in {"family", "cutoff"}
      <4>1. Verb(t) \in UnderKeyShare
        BY <3>3, <3>4, <3>14
      <4> QED BY <1>1, <1>2, <3>14, <4>1, LogoutIsApart DEF k
    <3>15. \/ k = j \/ Place(k) < Place(j)
           \/ Verb(u) = "remove_by_code" /\ k = "codes" /\ j = "totp"
           \/ Verb(u) \in Removals /\ k = "family"
           \/ Verb(u) = "change" /\ k \in {"family", "cutoff"}
      BY <2>1, <2>4, <2>5, RunningOnes DEF InOrder, j
    <3> QED BY <3>10, <3>11, <3>12, <3>13, <3>14, <3>15
  <2> QED BY <2>7, <2>8
<1> QED BY <1>4, <1>5, <1>6

-----------------------------------------------------------------------------
(* Results.                                                                *)

\* The variables keep to their types: a transaction's locks are locks of the rows of
\* this person in one of the four strengths.
THEOREM TypeIsKept == Spec => []TypeOK
<1>1. LocksInv => TypeOK
  BY DEF LocksInv
<1> QED BY InvAtFirst, InvKept, <1>1, PTL DEF Spec

\* No two transactions hold locks that conflict, and each holds what its verb has taken
\* so far, in the order of its statements.
THEOREM LocksAreKept == Spec => []LocksInv
BY InvAtFirst, InvKept, PTL DEF Spec

LEMMA GreatestExists ==
    ASSUME NEW n \in Nat, NEW S \in SUBSET (0 .. n), S # {}
    PROVE  \E x \in S : \A y \in S : x >= y
<1> DEFINE R == {ss \in Nat \X Nat : ss[1] < ss[2]}
           D == {n - x : x \in S}
<1>1. IsWellFoundedOn(R, Nat)
  BY NatLessThanWellFounded, Zenon DEF OpToRel
<1>2. D \in SUBSET Nat /\ D # {}
  <2>1. \A x \in S : n - x \in Nat
    OBVIOUS
  <2>2. PICK s \in S : TRUE
    OBVIOUS
  <2>3. n - s \in D
    BY <2>2
  <2> QED BY <2>1, <2>3
<1>3. PICK d \in D : \A e \in D : ~(<<e, d>> \in R)
  BY <1>1, <1>2, WFMin
<1>4. PICK x \in S : d = n - x
  OBVIOUS
<1>5. \A y \in S : n - y \in D /\ n - y \in Nat /\ d \in Nat
  BY <1>2
<1>6. \A y \in S : ~(n - y < d)
  BY <1>3, <1>5
<1>7. \A y \in S : x >= y
  BY <1>4, <1>6
<1> QED BY <1>7

\* A set of transactions that wait for each other has two whose orders cross.
RingsCross == \A D \in (SUBSET Running) \ {{}} :
    \/ \E t, u \in D : t # u /\ OrdersCross(call[t], call[u])
    \/ \E t \in D : \A u \in D \ {t} : ~Blocks(u, t)

\* The highest of a set of transactions is blocked by none of the set.
LEMMA HighestIsFree ==
    ASSUME LocksInv
    PROVE  RingsCross
<1> SUFFICES ASSUME NEW D \in (SUBSET Running) \ {{}},
                    \A t, u \in D : t # u => ~OrdersCross(call[t], call[u])
             PROVE  \E t \in D : \A u \in D \ {t} : ~Blocks(u, t)
  BY DEF RingsCross
<1> DEFINE H == {Height(t) : t \in D}
<1>1. D \subseteq Running /\ D # {}
  OBVIOUS
<1>2. H \in SUBSET (0 .. Highest) /\ H # {}
  BY <1>1, HeightIsBounded
<1>3. Highest \in Nat
  BY DEF Highest
<1>4. PICK m \in H : \A n \in H : m >= n
  BY <1>2, <1>3, GreatestExists
<1>5. PICK t \in D : Height(t) = m
  OBVIOUS
<1>6. \A u \in D \ {t} : ~(Height(t) < Height(u))
  BY <1>4, <1>5, HeightIsBounded
<1> QED BY <1>1, <1>5, <1>6, BlockerIsHigher

\* Only the two pairs of verbs whose orders cross, a logout and a change of the password
\* in one session, and new codes by the generator and its removal by a code, can make
\* transactions of one person wait for each other, whatever else runs
\* (human_session_repo.go lockPersonForSessionSetSQL, lockPersonAgainstEnrollmentSQL).
THEOREM RingsNeedACrossing == Spec => []RingsCross
<1>1. LocksInv => RingsCross
  BY HighestIsFree
<1> QED BY LocksAreKept, <1>1, PTL

\* No set of transactions of one person wait for each other, for any number of
\* transactions, sessions and verbs, where no crossing is let overlap.
THEOREM LocksNeverRing ==
    ASSUME Crossings = {}
    PROVE  Spec => []NoMutualWait
<1>1. LocksInv => NoMutualWait
  <2> SUFFICES ASSUME LocksInv
               PROVE  NoMutualWait
    OBVIOUS
  <2>1. \A t, u \in Running : t # u => ~OrdersCross(call[t], call[u])
    BY DEF LocksInv, CrossingInv, Cross, OrdersCross
  <2>2. RingsCross
    BY HighestIsFree
  <2> QED BY <2>1, <2>2 DEF RingsCross, NoMutualWait
<1> QED BY LocksAreKept, <1>1, PTL
=============================================================================
