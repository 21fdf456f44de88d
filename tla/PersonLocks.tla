---------------------------- MODULE PersonLocks -----------------------------
(***************************************************************************)
(* The row locks of the transactions that write one person's rows.         *)
(*                                                                         *)
(* Every verb of the login lane is a transaction whose statements lock the *)
(* person's row in one of the four strengths of PostgreSQL and then rows   *)
(* that belong to the person: the login methods, the sessions, the         *)
(* cut-off, the codes.  The order is meant to exclude transactions that    *)
(* wait for each other.  A verb is here the set of its locks, each with    *)
(* the number of the statement that takes it; a statement that locks       *)
(* several rows locks them in any order.                                   *)
(***************************************************************************)
EXTENDS Naturals, FiniteSets

CONSTANTS
    Txns,       \* transactions under way at a time
    Sessions,   \* the person's sessions
    Verbs,      \* the verbs of a run
    Crossings,  \* the known pairs of verbs that are allowed to overlap
    MaxWithDeletion \* bound: transactions under way together with a deletion

VARIABLES
    call,   \* the verb a transaction runs and the session it acts in
    todo,   \* the locks it has still to take, with the numbers of their statements
    held    \* the row locks it holds

vars == <<call, todo, held>>

-----------------------------------------------------------------------------
(* Locks. *)

KeyShare == 1
Share == 2
NoKeyUpdate == 3
Update == 4
Modes == KeyShare .. Update

\* Two strengths conflict as in the table of row-level locks of PostgreSQL.
Conflict(m, n) == m + n > 4

Own(kind, s) == <<kind, s>>
Of(kind) == <<kind, "person">>
Lock(row, mode) == {<<row, mode>>}
Each(rows, mode) == rows \X {mode}

Person(mode) == Lock(Of("person"), mode)
Kinds == {"person", "password", "totp", "codes", "recovery", "cutoff", "first",
          "failures"}
Rows == {Of(k) : k \in Kinds} \cup {Own(k, s) : k \in {"session", "family"}, s \in Sessions}

\* The locks L are taken by statement n.
At(n, L) == {n} \X L

\* The families of ended sessions are revoked in the same transaction: the update
\* of their key.
Ended(n, S) == At(n, Each({Own("session", s) : s \in S}, NoKeyUpdate))
               \cup At(n + 1, Each({Own("family", s) : s \in S}, Update))

\* settle: the step is recorded on the secret's row, or the set is locked and one
\* element of it consumed.
Settle(method) ==
    IF method = "totp" THEN Lock(Of("totp"), NoKeyUpdate)
    ELSE Lock(Of("codes"), Update)

Cutoff == Lock(Of("cutoff"), NoKeyUpdate)
ResetFailures == Lock(Of("failures"), Update)
\* PresentInSession and RotateBearer replace the bearer's digest, a unique key.
Present(s) == Lock(Own("session", s), Update)
RemoveFactor(n) ==
    At(n, Lock(Of("totp"), Update)) \cup At(n + 1, Lock(Of("codes"), Update))

-----------------------------------------------------------------------------
(* Verbs: the locks of each transaction and their order. *)

Login(method) ==
    At(1, Person(Share))
    \cup (IF method = "none" THEN {} ELSE At(2, Settle(method)))
    \cup At(3, Lock(Of("first"), NoKeyUpdate)) \cup At(4, ResetFailures)

Logout(s) == At(1, Person(KeyShare)) \cup Ended(2, {s}) \cup At(4, Cutoff)

ChangePassword(s) ==
    At(1, Person(NoKeyUpdate)) \cup At(2, Lock(Of("password"), NoKeyUpdate))
    \cup Ended(3, Sessions \ {s}) \cup At(5, Cutoff) \cup At(6, Present(s))

EndOthers(s) == At(1, Person(NoKeyUpdate)) \cup Ended(2, Sessions \ {s})
EndOne(s) == At(1, Person(NoKeyUpdate)) \cup Ended(2, {s})

\* Mutant: the sessions are ended under the key lock the transaction opened with.
ForceLogoutUnserialized ==
    At(1, Person(KeyShare)) \cup Ended(3, Sessions) \cup At(5, Cutoff)

ForceLogout ==
    At(1, Person(KeyShare)) \cup At(2, Person(NoKeyUpdate))
    \cup Ended(3, Sessions) \cup At(5, Cutoff)

RequestRecovery ==
    At(1, Person(NoKeyUpdate)) \cup At(2, Lock(Of("recovery"), NoKeyUpdate))

CompleteRecovery ==
    At(1, Person(NoKeyUpdate)) \cup At(2, Lock(Of("recovery"), NoKeyUpdate))
    \cup At(3, Lock(Of("password"), NoKeyUpdate)) \cup Ended(4, Sessions)
    \cup At(6, Cutoff) \cup At(7, Lock(Of("first"), NoKeyUpdate))
    \cup At(8, ResetFailures)

StepUp(s, method) ==
    At(1, Person(KeyShare)) \cup At(2, Settle(method)) \cup At(3, Present(s))
    \cup At(4, ResetFailures)

Regenerate(s, method) ==
    At(1, Person(KeyShare)) \cup At(2, Settle(method))
    \cup At(3, Lock(Of("codes"), NoKeyUpdate)) \cup At(4, Present(s))
    \cup At(5, ResetFailures)

Enroll == At(1, Person(Update)) \cup At(2, Lock(Of("totp"), NoKeyUpdate))

Confirm(s) ==
    At(1, Person(Update)) \cup At(2, Lock(Of("totp"), NoKeyUpdate))
    \cup At(3, Lock(Of("codes"), NoKeyUpdate)) \cup At(4, Present(s))
    \cup At(5, ResetFailures)

Remove(s, method) ==
    At(1, Person(NoKeyUpdate)) \cup At(2, Settle(method)) \cup RemoveFactor(3)
    \cup Ended(5, Sessions \ {s}) \cup At(7, Present(s)) \cup At(8, ResetFailures)

ResetFactor == At(1, Person(NoKeyUpdate)) \cup RemoveFactor(2) \cup At(4, Cutoff)

Block == At(1, Person(NoKeyUpdate)) \cup At(2, Cutoff)

\* The person's row is deleted with everything that belongs to it.
Delete ==
    At(1, Person(Update)) \cup At(2, Cutoff)
    \cup At(3, Each(Rows \ {Of("person"), Of("failures")}, Update))

Rewrite == At(1, Lock(Of("password"), NoKeyUpdate))

\* The OAuth ceremony: the code's issue in a session, the exchange and the
\* rotation in its family, the revocation of a replayed family.
IssueCode(s) == At(1, Person(KeyShare)) \cup At(2, Lock(Own("session", s), Share))
UseFamily(s) == At(1, Lock(Own("family", s), KeyShare))
RevokeFamily(s) == At(1, Lock(Own("family", s), Update))

AllVerbs ==
         {"login", "login_by_totp", "login_by_code", "logout", "change", "end_others",
          "end_one", "force_logout", "request_recovery", "complete_recovery",
          "step_up_by_totp", "step_up_by_code", "regenerate_by_totp",
          "regenerate_by_code", "enroll", "confirm", "remove_by_totp",
          "remove_by_code", "reset_factor", "block", "delete", "rewrite",
          "issue_code", "use_family", "revoke_family"}

\* The two pairs of verbs whose orders cross.
KnownCrossings == {"logout_and_change", "regenerate_and_remove"}

ASSUME LimitsAssumption ==
    /\ Verbs \subseteq AllVerbs
    /\ Crossings \subseteq KnownCrossings
    /\ MaxWithDeletion \in Nat

Program(verb, s) ==
    CASE verb = "login"             -> Login("none")
      [] verb = "login_by_totp"     -> Login("totp")
      [] verb = "login_by_code"     -> Login("code")
      [] verb = "logout"            -> Logout(s)
      [] verb = "change"            -> ChangePassword(s)
      [] verb = "end_others"        -> EndOthers(s)
      [] verb = "end_one"           -> EndOne(s)
      [] verb = "force_logout"      -> ForceLogout
      [] verb = "request_recovery"  -> RequestRecovery
      [] verb = "complete_recovery" -> CompleteRecovery
      [] verb = "step_up_by_totp"   -> StepUp(s, "totp")
      [] verb = "step_up_by_code"   -> StepUp(s, "code")
      [] verb = "regenerate_by_totp" -> Regenerate(s, "totp")
      [] verb = "regenerate_by_code" -> Regenerate(s, "code")
      [] verb = "enroll"            -> Enroll
      [] verb = "confirm"           -> Confirm(s)
      [] verb = "remove_by_totp"    -> Remove(s, "totp")
      [] verb = "remove_by_code"    -> Remove(s, "code")
      [] verb = "reset_factor"      -> ResetFactor
      [] verb = "block"             -> Block
      [] verb = "delete"            -> Delete
      [] verb = "rewrite"           -> Rewrite
      [] verb = "issue_code"        -> IssueCode(s)
      [] verb = "use_family"        -> UseFamily(s)
      [] verb = "revoke_family"     -> RevokeFamily(s)

-----------------------------------------------------------------------------
(* Transactions. *)

None == <<"none", "person">>
Running == {t \in Txns : call[t] # None}

Init ==
    /\ call = [t \in Txns |-> None]
    /\ todo = [t \in Txns |-> {}]
    /\ held = [t \in Txns |-> {}]

CrossAs(name, c, d) ==
    \/ /\ name = "logout_and_change"
       /\ c[1] = "logout" /\ d[1] = "change" /\ c[2] = d[2]
    \/ /\ name = "regenerate_and_remove"
       /\ c[1] = "regenerate_by_totp" /\ d[1] = "remove_by_code"

\* A run names the crossings it lets overlap.
Cross(c, d) == \E name \in KnownCrossings \ Crossings : CrossAs(name, c, d)

Begin(t) ==
    /\ t \notin Running
    /\ \E verb \in Verbs, s \in Sessions :
          /\ \A u \in Running :
                ~Cross(<<verb, s>>, call[u]) /\ ~Cross(call[u], <<verb, s>>)
          /\ "delete" \in {verb} \cup {call[u][1] : u \in Running} =>
                Cardinality(Running) < MaxWithDeletion
          /\ call' = [call EXCEPT ![t] = <<verb, s>>]
          /\ todo' = [todo EXCEPT ![t] = Program(verb, s)]
    /\ UNCHANGED held

\* The statement that is under way: what is left of the first.
Statement(t) == {p \in todo[t] : \A q \in todo[t] : p[1] <= q[1]}
Wanted(t) == {p[2] : p \in Statement(t)}

\* u holds a lock that a lock of t's statement has to wait for.
Blocks(u, t) ==
    \E w \in Wanted(t) : \E h \in held[u] : w[1] = h[1] /\ Conflict(w[2], h[2])

Grantable(t, w) ==
    \A u \in Txns \ {t} : \A h \in held[u] : w[1] # h[1] \/ ~Conflict(w[2], h[2])

\* A statement whose rows are all locked has run.
Acquire(t) ==
    \E p \in Statement(t) :
        /\ Grantable(t, p[2])
        /\ held' = [held EXCEPT ![t] = @ \cup {p[2]}]
        /\ todo' = [todo EXCEPT ![t] = @ \ {p}]
        /\ UNCHANGED call

\* The commit, or the rollback of a call that stops at any place, frees the rows.
End(t) ==
    /\ t \in Running
    /\ call' = [call EXCEPT ![t] = None]
    /\ todo' = [todo EXCEPT ![t] = {}]
    /\ held' = [held EXCEPT ![t] = {}]

Next == \E t \in Txns : Begin(t) \/ Acquire(t) \/ End(t)

Spec == Init /\ [][Next]_vars

-----------------------------------------------------------------------------
(* Properties. *)

TypeOK ==
    /\ call \in [Txns -> {None} \cup (Verbs \X Sessions)]
    /\ todo \in [Txns -> SUBSET (Nat \X (Rows \X Modes))]
    /\ held \in [Txns -> SUBSET (Rows \X Modes)]

\* No set of transactions of one person wait for each other, whatever verbs they
\* run and in which sessions: one of them can always take its next row
\* (human_session_repo.go lockPersonForSessionSetSQL, lockPersonAgainstEnrollmentSQL).
NoMutualWait ==
    \A D \in (SUBSET Running) \ {{}} :
        \E t \in D : \A u \in D \ {t} : ~Blocks(u, t)
=============================================================================
