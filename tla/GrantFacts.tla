------------------------------- MODULE GrantFacts -------------------------------
(***************************************************************************)
(* From access bindings to the direct fact the verdict reads.  One object, *)
(* label bindings of one subject that all grant the same tuple on it, and  *)
(* the transactions that keep members, ledger and fact in step: the object *)
(* pass of the reconcile queue, the binding pass of the sweep, the         *)
(* additive forward passes, and the three deactivations.                   *)
(*                                                                         *)
(* Every statement of a transaction is a step.  Rows a transaction has     *)
(* written and not committed are kept in its record and seen by no other;  *)
(* the locks it holds until its end are in held.  A statement that wants a *)
(* lock somebody holds in a conflicting mode is not enabled.               *)
(***************************************************************************)
EXTENDS Naturals, Sequences, FiniteSets, FiniteSetsExt, SequencesExt

CONSTANTS
  Bindings,      \* bindings, ordered as their identifiers are
  Passes,        \* transactions that can be open at once, on all replicas
  Granted,       \* bindings that exist at the start, materialized already
  StartMirror,   \* the object's row at the start
  SlowFold,      \* whether other rows of the same delete statement may hold up the folding of this tuple's
  MaxChanges,    \* bound on registrations and withdrawals of the object
  Scenes         \* what a behaviour may be about

\* A scene: how many passes are open at once, which deactivations may happen,
\* whether the periodic sweep runs, and the bounds on registrations and
\* withdrawals and on passes lost to a crash, a timeout or a failed call.
Scene == [open : 1..Cardinality(Passes), ends : SUBSET {"revoke", "expire", "delete"},
          sweeping : BOOLEAN, changes : 0..MaxChanges, aborts : Nat]

ASSUME ConstantsAssumption ==
  /\ Bindings \subseteq Nat /\ IsFiniteSet(Bindings) /\ IsFiniteSet(Passes)
  /\ Granted \subseteq Bindings
  /\ StartMirror \in {"absent", "match", "other"}
  /\ Granted # {} => StartMirror = "match"
  /\ SlowFold \in BOOLEAN /\ MaxChanges \in Nat
  /\ Scenes \subseteq Scene

VARIABLES
  scene,      \* the scene of this behaviour, which no step changes
  mirror,     \* the object's committed row: absent, or its labels match or not
  status,     \* access_bindings.status, "new" before the row, "GONE" after it
  member,     \* access_binding_target_members: the binding has the object
  ledger,     \* access_binding_emitted_tuples: the binding emitted the tuple
  fact,       \* relation_fact: the tuple stands
  timeline,   \* open transactions' starts and delete stamps, and the version of the fact that stands, in order of time
  events,     \* reconcile_outbox rows not marked sent
  pass,       \* the open transactions
  held,       \* the locks each holds
  changes,    \* registrations and withdrawals so far
  aborts      \* passes lost so far

stored == <<scene, mirror, status, member, ledger, fact, timeline>>
vars == <<stored, events, pass, held, changes, aborts>>

Mirrors == {"absent", "match", "other"}
Full == {"object", "binding"}
Forward == {"forward", "additive", "created"}
Deactivation == {"revoke", "expire", "delete"}
Phases == {"peek", "existing", "matching", "project", "adv", "rows", "share", "mirror",
           "work", "todo", "upd", "act", "mdel", "commit", "sent"}
Ops == ({"mem", "led", "forget", "unmem"} \X Bindings) \cup ({"fact", "stamp", "erase"} \X {0})

\* Statements still to be issued are a set; they are issued stage by stage, and
\* within a stage in the order of the bindings.
Stage(op) ==
  CASE op[1] \in {"mem", "forget", "stamp"} -> 1
    [] op[1] \in {"fact", "unmem", "erase"} -> 2
    [] op[1] = "led" -> 3

FirstOf(ops) ==
  CHOOSE op \in ops : \A o \in ops : Stage(op) < Stage(o) \/ (Stage(op) = Stage(o) /\ op[2] <= o[2])

NoPass == [kind |-> "none", at |-> "none"]

\* The record a pass starts with; the writes it has not committed are the last
\* eight fields.
Opened(k, phase, b, e) ==
  [kind |-> k, at |-> phase, b |-> b, ev |-> e, obj |-> "absent", on |-> {}, left |-> {}, todo |-> {},
   madd |-> {}, mdrop |-> {}, ladd |-> {}, ldrop |-> {},
   wrote |-> FALSE, pending |-> FALSE, erased |-> FALSE, ends |-> FALSE]

--------------------------------------------------------------------------------
\* Locks.

\* Row modes on a binding: NO KEY UPDATE of a full pass, UPDATE of a
\* deactivation, KEY SHARE of a forward pass.
Clash(l, k) ==
  \/ l = k /\ l[1] \in {"adv", "nku", "upd", "mem", "led", "fact", "mdel"}
  \/ l[2] = k[2] /\ {l[1], k[1]} \in {{"nku", "upd"}, {"key", "upd"}}
  \/ {l[1], k[1]} = {"mkey", "mdel"}

NoLock == <<"none", 0>>

\* The lock the next statement of pass p waits for.
WantedRow(p) ==
  LET op == FirstOf(pass[p].todo) IN
    CASE op[1] \in {"mem", "led"} -> op
      [] op[1] = "unmem" /\ member[op[2]] -> <<"mem", op[2]>>
      [] op[1] = "forget" /\ ledger[op[2]] -> <<"led", op[2]>>
      [] op[1] = "fact" -> <<"fact", 0>>
      [] op[1] = "erase" /\ fact -> <<"fact", 0>>
      [] OTHER -> NoLock

Wants(p) ==
  CASE pass[p].at = "adv" -> <<"adv", Min(pass[p].left)>>
    [] pass[p].at = "share" -> <<"key", Min(pass[p].left)>>
    [] pass[p].at = "upd" -> <<"upd", pass[p].b>>
    [] pass[p].at = "mdel" /\ mirror # "absent" -> <<"mdel", 0>>
    [] pass[p].at = "todo" /\ pass[p].todo # {} -> WantedRow(p)
    [] OTHER -> NoLock

Open(p) == pass[p] # NoPass

\* A transaction can be opened in place p.
Vacant(p) == ~Open(p) /\ Cardinality({q \in Passes : Open(q)}) < scene.open

Blockers(p) == {q \in Passes \ {p} : \E k \in held[q] : Clash(Wants(p), k)}

Free(p) == Open(p) /\ Blockers(p) = {}

\* The step of p that leaves record r and takes the locks ls.
Becomes(p, r) == pass' = [pass EXCEPT ![p] = r]
Takes(p, ls) == held' = [held EXCEPT ![p] = @ \cup (ls \ {NoLock})]
Local(p, r, ls) ==
  /\ Becomes(p, r)
  /\ Takes(p, ls)
  /\ UNCHANGED <<stored, events, changes, aborts>>

\* Time: a pass starting now is later than everything on the timeline.
Begin(p, r) ==
  /\ Becomes(p, r)
  /\ timeline' = Append(timeline, <<"start", p>>)

Version == <<"fact", 0>>

Place(t) == SelectInSeq(timeline, LAMBDA u : u = t)

Without(p) == SelectSeq(timeline, LAMBDA t : t[2] # p)

--------------------------------------------------------------------------------
\* Passes begin.

Init ==
  /\ scene \in Scenes
  /\ mirror = StartMirror
  /\ status = [b \in Bindings |-> IF b \in Granted THEN "ACTIVE" ELSE "new"]
  /\ member = [b \in Bindings |-> b \in Granted]
  /\ ledger = [b \in Bindings |-> b \in Granted]
  /\ fact = (Granted # {})
  /\ timeline = IF Granted # {} THEN << <<"fact", 0>> >> ELSE <<>>
  /\ events = {}
  /\ pass = [p \in Passes |-> NoPass]
  /\ held = [p \in Passes |-> {}]
  /\ changes = 0
  /\ aborts = 0

\* The worker claims an unsent event; the claim is its own statement, so two
\* replicas may hold the same event.
Drain(p, e) ==
  /\ Vacant(p) /\ e \in events
  /\ Begin(p, Opened("object", "existing", 0, e))
  /\ UNCHANGED <<scene, mirror, status, member, ledger, fact, events, held, changes, aborts>>

Sweep(p, b) ==
  /\ scene.sweeping
  /\ Vacant(p) /\ status[b] = "ACTIVE"
  /\ Begin(p, [Opened("binding", "adv", b, 0) EXCEPT !.on = {b}, !.left = {b}])
  /\ UNCHANGED <<scene, mirror, status, member, ledger, fact, events, held, changes, aborts>>

Deactivate(p, k, b) ==
  /\ Vacant(p) /\ k \in scene.ends
  /\ status[b] = "ACTIVE" \/ (k = "delete" /\ status[b] = "REVOKED")
  /\ Begin(p, [Opened(k, "adv", b, 0) EXCEPT !.left = {b}])
  /\ UNCHANGED <<scene, mirror, status, member, ledger, fact, events, held, changes, aborts>>

\* Creation commits the binding and then drives its forward pass.
CreateBinding(p, b) ==
  /\ Vacant(p) /\ status[b] = "new"
  /\ status' = [status EXCEPT ![b] = "ACTIVE"]
  /\ Begin(p, [Opened("created", "peek", b, 0) EXCEPT !.on = {b}, !.left = {b}])
  /\ UNCHANGED <<scene, mirror, member, ledger, fact, events, held, changes, aborts>>

\* A registration that applied: the row and the event commit together, and the
\* forward pass follows; a registration that changed only the version skips
\* the guard.
Register(p, m) ==
  /\ Vacant(p) /\ changes < scene.changes /\ m # "absent"
  /\ \A q \in Passes : <<"mdel", 0>> \notin held[q]
  /\ mirror' = m
  /\ events' = events \cup {changes + 1}
  /\ changes' = changes + 1
  /\ IF mirror = m THEN Begin(p, Opened("additive", "project", 0, 0))
                   ELSE Begin(p, Opened("forward", "peek", 0, 0))
  /\ UNCHANGED <<scene, status, member, ledger, fact, held, aborts>>

Unregister(p) ==
  /\ Vacant(p) /\ changes < scene.changes
  /\ changes' = changes + 1
  /\ Begin(p, Opened("unregister", "mdel", 0, changes + 1))
  /\ UNCHANGED <<scene, mirror, status, member, ledger, fact, events, held, aborts>>

--------------------------------------------------------------------------------
\* Reading: what a pass decides from, before it has locked anything.

\* A forward pass that finds members leaves for the full pass in a new
\* transaction.
Peek(p) ==
  LET r == pass[p]
      found == {b \in IF r.kind = "created" THEN {r.b} ELSE Bindings : member[b]} IN
    /\ Open(p) /\ r.at = "peek"
    /\ timeline' = IF found = {} THEN timeline ELSE Append(Without(p), <<"start", p>>)
    /\ Becomes(p, IF found = {} THEN [r EXCEPT !.at = IF r.kind = "created" THEN "share" ELSE "project"]
                  ELSE IF r.kind = "created"
                  THEN [Opened("binding", "adv", r.b, 0) EXCEPT !.on = {r.b}, !.left = {r.b}]
                  ELSE Opened("object", "existing", 0, 0))
    /\ UNCHANGED <<scene, mirror, status, member, ledger, fact, events, held, changes, aborts>>

ReadExisting(p) ==
  /\ Open(p) /\ pass[p].at = "existing"
  /\ Local(p, [pass[p] EXCEPT !.at = "matching", !.on = {b \in Bindings : member[b]}], {})

\* Bindings whose selector matches the object as it is registered now.
Matching == {b \in Bindings : status[b] = "ACTIVE" /\ mirror = "match"}

ReadMatching(p) ==
  LET on == pass[p].on \cup Matching IN
    /\ Open(p) /\ pass[p].at = "matching"
    /\ Local(p, [pass[p] EXCEPT !.on = on, !.left = on,
                   !.at = IF pass[p].kind = "object" THEN "project"
                          ELSE IF on = {} THEN "mirror" ELSE "share"], {})

\* The object's projection.  The forward pass of an object that is not there
\* ends; the full pass goes on with an empty desired set.
ReadObject(p) ==
  /\ Open(p) /\ pass[p].at = "project"
  /\ Local(p, [pass[p] EXCEPT !.obj = mirror,
                 !.at = CASE pass[p].kind = "object" -> IF pass[p].left = {} THEN "rows" ELSE "adv"
                          [] pass[p].kind = "binding" -> "work"
                          [] pass[p].kind = "created" -> IF mirror = "match" THEN "mirror" ELSE "commit"
                          [] OTHER -> IF mirror = "absent" THEN "commit" ELSE "matching"], {})

--------------------------------------------------------------------------------
\* Locking.

TakeAdvisory(p) ==
  LET left == pass[p].left \ {Min(pass[p].left)} IN
    /\ Free(p) /\ pass[p].at = "adv"
    /\ Local(p, [pass[p] EXCEPT !.left = left,
                   !.at = IF left # {} THEN "adv"
                          ELSE IF pass[p].kind \in Deactivation THEN "upd" ELSE "rows"], {Wants(p)})

\* The binding rows of the fan-out.  Whoever else would hold them in a
\* conflicting mode holds their advisory lock too, so this never waits.
LockRows(p) ==
  LET r == pass[p]
      rows == {<<"nku", b>> : b \in {c \in r.on : status[c] # "GONE"}} IN
    /\ Open(p) /\ r.at = "rows"
    /\ Local(p, [r EXCEPT !.left = r.on,
                   !.at = IF r.kind = "binding" THEN "project"
                          ELSE IF r.obj = "absent" THEN "work" ELSE "mirror"], rows)

\* The rows of a forward pass, one after the other; a binding not ACTIVE under
\* the lock drops out.
ShareRows(p) ==
  LET r == pass[p]
      b == Min(r.left)
      on == IF status[b] = "ACTIVE" THEN r.on ELSE r.on \ {b} IN
    /\ Free(p) /\ r.at = "share"
    /\ Local(p, [r EXCEPT !.left = @ \ {b}, !.on = on,
                   !.at = IF r.left # {b} THEN "share"
                          ELSE IF r.kind # "created" THEN "mirror"
                          ELSE IF on = {} THEN "commit" ELSE "project"],
             IF status[b] = "GONE" THEN {} ELSE {Wants(p)})

Live == mirror # "absent" /\ \A q \in Passes : <<"mdel", 0>> \notin held[q]

\* A forward pass writes every member, then the tuple once, then the ledger.
ForwardWrites(r) ==
  IF r.obj = "match" /\ r.on # {} THEN ({"mem", "led"} \X r.on) \cup {<<"fact", 0>>} ELSE {}

\* A full pass writes a binding at a time, and the tuple only once in a pass.
AddWrites(r, b) ==
  {<<"mem", b>>, <<"led", b>>} \cup (IF r.wrote THEN {} ELSE {<<"fact", 0>>})

\* What a pass does once it knows whether the object's row is there.
Found(r, live) ==
  CASE r.kind = "object" -> [r EXCEPT !.at = "work", !.obj = IF live THEN @ ELSE "absent"]
    [] r.kind = "binding" -> IF live THEN [r EXCEPT !.at = "todo", !.todo = AddWrites(r, r.b)]
                                     ELSE [r EXCEPT !.at = "work", !.left = {}]
    [] r.kind \in Forward -> IF live THEN [r EXCEPT !.at = "todo", !.todo = ForwardWrites(r)]
                                     ELSE [r EXCEPT !.at = "commit"]

\* Mutant: the object's row is not locked, only read.
LockObjectRead(p) ==
  /\ Open(p) /\ pass[p].at = "mirror"
  /\ Local(p, Found(pass[p], mirror # "absent"), {})

\* The object's row, KEY SHARE SKIP LOCKED: a row under deletion is as good as
\* absent.
LockObject(p) ==
  /\ Open(p) /\ pass[p].at = "mirror"
  /\ Local(p, Found(pass[p], Live), IF Live THEN {<<"mkey", 0>>} ELSE {})

--------------------------------------------------------------------------------
\* Writing.

\* Mutant: a member that fell out is left behind without its ledger rows.
DropWritesOfLedger(b) == {<<"forget", b>>}

DropWrites(b) == {<<"forget", b>>, <<"unmem", b>>}

\* Mutant: a full pass only adds.
CompareAdds(p) ==
  LET r == pass[p]
      b == Min(r.left)
      desired == r.obj = "match"
      done == [r EXCEPT !.left = @ \ {b}] IN
    /\ Open(p) /\ r.at = "work" /\ r.left # {}
    /\ Local(p, IF status[b] # "ACTIVE" \/ member[b] \/ ~desired THEN done
                ELSE IF r.kind = "binding" THEN [done EXCEPT !.at = "mirror"]
                ELSE [done EXCEPT !.at = "todo", !.todo = AddWrites(r, b)], {})

\* The next binding of a full pass: its status and its member, read now.
Compare(p) ==
  LET r == pass[p]
      b == Min(r.left)
      desired == r.obj = "match"
      done == [r EXCEPT !.left = @ \ {b}] IN
    /\ Open(p) /\ r.at = "work" /\ r.left # {}
    /\ Local(p, IF status[b] # "ACTIVE" \/ desired = member[b] THEN done
                ELSE IF ~desired THEN [done EXCEPT !.at = "todo", !.todo = DropWrites(b)]
                ELSE IF r.kind = "binding" THEN [done EXCEPT !.at = "mirror"]
                ELSE [done EXCEPT !.at = "todo", !.todo = AddWrites(r, b)], {})

\* The deferred delete, unless this pass wrote the tuple itself.
Flush(p) ==
  LET r == pass[p] IN
    /\ Open(p) /\ r.at = "work" /\ r.left = {}
    /\ Local(p, IF r.pending /\ ~r.wrote
                THEN [r EXCEPT !.at = "todo", !.pending = FALSE,
                                  !.todo = {<<"erase", 0>>} \cup IF SlowFold THEN {<<"stamp", 0>>} ELSE {}]
                ELSE [r EXCEPT !.at = "commit"], {})

\* A deactivation takes the row for UPDATE and then reads status and ledger.
LockForDeactivation(p) ==
  /\ Free(p) /\ pass[p].at = "upd"
  /\ Local(p, [pass[p] EXCEPT !.at = "act"], {Wants(p)})

\* Expiry: the status, then the whole ledger forgotten, the members deleted, and
\* the tuple.
Expires(r) == [r EXCEPT !.at = "todo", !.ends = TRUE, !.todo = DropWrites(r.b)]

\* Revocation: the status and the tuple; members and ledger stay.
Revokes(r) == [r EXCEPT !.at = "work", !.ends = TRUE, !.pending = ledger[r.b]]

\* Deletion: the row, with it members and ledger by cascade, and the tuple.
Deletes(r) == [r EXCEPT !.at = "todo", !.ends = TRUE, !.todo = DropWrites(r.b)]

\* What a deactivation does is decided by the row under its lock.
Act(p) ==
  LET r == pass[p] IN
    /\ Open(p) /\ r.at = "act"
    /\ Local(p, CASE r.kind = "delete" /\ status[r.b] # "GONE" -> Deletes(r)
                  [] r.kind = "expire" /\ status[r.b] = "ACTIVE" -> Expires(r)
                  [] r.kind = "revoke" /\ status[r.b] = "ACTIVE" -> Revokes(r)
                  [] OTHER -> [r EXCEPT !.at = "commit"], {})

\* Who holds the fact, as the folding of a delete row of pass p sees it: the
\* committed ledger of the ACTIVE bindings, and the pass's own writes.
Holders(p) ==
  {b \in Bindings : /\ status[b] = "ACTIVE" /\ ~(pass[p].ends /\ pass[p].b = b)
                    /\ b \in pass[p].ladd \/ (ledger[b] /\ b \notin pass[p].ldrop)}

\* Mutant: the delete row carries the start of its transaction.
StampedAtStart(p) == Place(Version) < Place(<<"start", p>>)

\* A delete row's version is the moment of its insertion, before its statement
\* folds the first of its rows; what stands when it is inserted is older.
StampedLater(p) == SlowFold => Place(Version) < Place(<<"stamp", p>>)

\* relation_fact_fold_row, delete branch, under the lock of the fact's row.
Erases(p) == fact /\ Holders(p) = {} /\ StampedLater(p)

\* One statement of the pass's writes.  The ledger insert of a row that is
\* committed already does nothing and takes no lock.
Write(p) ==
  LET r == pass[p]
      op == FirstOf(r.todo)
      b == op[2]
      rest == [r EXCEPT !.todo = @ \ {op}]
      after == CASE op[1] = "mem" -> [rest EXCEPT !.madd = @ \cup {b}]
                 [] op[1] = "fact" -> [rest EXCEPT !.wrote = TRUE]
                 [] op[1] = "led" -> IF ledger[b] THEN rest ELSE [rest EXCEPT !.ladd = @ \cup {b}]
                 [] op[1] = "forget" -> IF ledger[b] THEN [rest EXCEPT !.ldrop = @ \cup {b}, !.pending = TRUE]
                                                     ELSE rest
                 [] op[1] = "unmem" -> IF member[b] THEN [rest EXCEPT !.mdrop = @ \cup {b}] ELSE rest
                 [] op[1] = "stamp" -> rest
                 [] op[1] = "erase" -> [rest EXCEPT !.erased = Erases(p)] IN
    /\ Free(p) /\ r.at = "todo" /\ r.todo # {}
    /\ Becomes(p, after)
    /\ Takes(p, IF op[1] = "led" /\ ledger[b] THEN {} ELSE {Wants(p)})
    /\ timeline' = IF op[1] = "stamp" THEN Append(timeline, <<"stamp", p>>) ELSE timeline
    /\ UNCHANGED <<scene, mirror, status, member, ledger, fact, events, changes, aborts>>

\* The statements are done: on to the next binding and to the deferred delete,
\* or to the commit.
Written(p) ==
  /\ Open(p) /\ pass[p].at = "todo" /\ pass[p].todo = {}
  /\ Local(p, [pass[p] EXCEPT !.at = IF pass[p].kind \in Forward THEN "commit" ELSE "work"], {})

--------------------------------------------------------------------------------
\* Passes end.

\* The fact's version after a write by p: its own or the start of p, whichever
\* is later.
WrittenVersion(p) ==
  LET older == SelectSeq(timeline, LAMBDA t : t # Version) IN
    IF Place(Version) > Place(<<"start", p>>) THEN Without(p)
    ELSE [i \in DOMAIN older |-> IF older[i] = <<"start", p>> THEN Version ELSE older[i]]

\* Everything the pass wrote becomes visible and its locks go; an event it
\* drained is marked sent by a statement of its own.
Commit(p) ==
  LET r == pass[p] IN
    /\ Open(p) /\ r.at = "commit" /\ r.kind # "unregister"
    /\ member' = [b \in Bindings |-> (member[b] \/ b \in r.madd) /\ b \notin r.mdrop]
    /\ ledger' = [b \in Bindings |-> (ledger[b] \/ b \in r.ladd) /\ b \notin r.ldrop]
    /\ status' = IF r.ends THEN [status EXCEPT ![r.b] = IF r.kind = "delete" THEN "GONE" ELSE "REVOKED"]
                           ELSE status
    /\ fact' = ((fact \/ r.wrote) /\ ~r.erased)
    /\ timeline' = IF r.wrote THEN WrittenVersion(p)
                   ELSE IF r.erased THEN SelectSeq(Without(p), LAMBDA t : t # Version)
                   ELSE Without(p)
    /\ held' = [held EXCEPT ![p] = {}]
    /\ Becomes(p, IF r.ev # 0 THEN Opened("object", "sent", 0, r.ev) ELSE NoPass)
    /\ UNCHANGED <<scene, mirror, events, changes, aborts>>

MarkSent(p) ==
  /\ Open(p) /\ pass[p].at = "sent"
  /\ events' = events \ {pass[p].ev}
  /\ Becomes(p, NoPass)
  /\ UNCHANGED <<stored, held, changes, aborts>>

\* The withdrawal deletes the object's row; the deletion waits for the passes
\* that hold it.
DeleteObject(p) ==
  /\ Free(p) /\ pass[p].at = "mdel"
  /\ Local(p, [pass[p] EXCEPT !.at = "commit"], {Wants(p)})

\* Its event commits with it, found or not, and the guarded forward pass
\* follows.
CommitWithdrawal(p) ==
  /\ Open(p) /\ pass[p].kind = "unregister" /\ pass[p].at = "commit"
  /\ mirror' = IF <<"mdel", 0>> \in held[p] THEN "absent" ELSE mirror
  /\ events' = events \cup {pass[p].ev}
  /\ held' = [held EXCEPT ![p] = {}]
  /\ Becomes(p, Opened("forward", "peek", 0, 0))
  /\ timeline' = Append(Without(p), <<"start", p>>)
  /\ UNCHANGED <<scene, status, member, ledger, fact, changes, aborts>>

\* Rolled back: nothing it wrote is kept, and an event it drained stays unsent.
RolledBack(p) ==
  /\ Becomes(p, NoPass)
  /\ held' = [held EXCEPT ![p] = {}]
  /\ timeline' = Without(p)
  /\ UNCHANGED <<scene, mirror, status, member, ledger, fact, events, changes>>

Abort(p) ==
  /\ Open(p) /\ aborts < scene.aborts
  /\ aborts' = aborts + 1
  /\ RolledBack(p)

\* Sets of passes each of which waits for another of the set.
Rings == {D \in SUBSET {p \in Passes : Open(p)} \ {{}} : \A p \in D : Blockers(p) \cap D # {}}

\* PostgreSQL rolls back one pass of a ring.
Victim(p) ==
  /\ \E D \in Rings : p \in D
  /\ aborts' = aborts
  /\ RolledBack(p)

--------------------------------------------------------------------------------

Proceed(p) ==
  \/ Peek(p) \/ ReadExisting(p) \/ ReadMatching(p) \/ ReadObject(p)
  \/ TakeAdvisory(p) \/ LockRows(p) \/ ShareRows(p) \/ LockObject(p)
  \/ Compare(p) \/ Flush(p) \/ LockForDeactivation(p) \/ Act(p) \/ Write(p) \/ Written(p)
  \/ Commit(p) \/ MarkSent(p) \/ DeleteObject(p) \/ CommitWithdrawal(p)
  \/ Victim(p)

Next ==
  \E p \in Passes :
    \/ \E e \in events : Drain(p, e)
    \/ \E b \in Bindings : Sweep(p, b) \/ CreateBinding(p, b) \/ \E k \in Deactivation : Deactivate(p, k, b)
    \/ \E m \in Mirrors : Register(p, m)
    \/ Unregister(p)
    \/ Proceed(p)
    \/ Abort(p)

Spec == Init /\ [][Next]_vars

\* An open pass goes on, as its statements and its transaction's timeouts make
\* it; the worker's loop comes back to every event and to every binding.
FairSpec ==
  /\ Spec
  /\ \A p \in Passes : SF_vars(Proceed(p))
  /\ \A e \in 1..MaxChanges : SF_vars(\E p \in Passes : Drain(p, e))
  /\ \A b \in Bindings : SF_vars(\E p \in Passes : Sweep(p, b))

--------------------------------------------------------------------------------

Kinds == Full \cup Forward \cup Deactivation \cup {"unregister"}
PassRow ==
  [kind : Kinds, at : Phases, b : Bindings \cup {0}, ev : Nat, obj : Mirrors,
   on : SUBSET Bindings, left : SUBSET Bindings, todo : SUBSET Ops,
   madd : SUBSET Bindings, mdrop : SUBSET Bindings, ladd : SUBSET Bindings, ldrop : SUBSET Bindings,
   wrote : BOOLEAN, pending : BOOLEAN, erased : BOOLEAN, ends : BOOLEAN]
Locks == ({"adv", "nku", "key", "upd", "mem", "led"} \X Nat) \cup ({"fact", "mkey", "mdel"} \X {0})

\* No two transactions hold locks that exclude each other.
Exclusive == \A p, q \in Passes : p # q => \A l \in held[p], k \in held[q] : ~Clash(l, k)

TypeOK ==
  /\ scene \in Scenes
  /\ mirror \in Mirrors
  /\ status \in [Bindings -> {"new", "ACTIVE", "REVOKED", "GONE"}]
  /\ member \in [Bindings -> BOOLEAN] /\ ledger \in [Bindings -> BOOLEAN]
  /\ fact \in BOOLEAN
  /\ changes \in Nat /\ aborts \in Nat /\ events \subseteq 1..changes
  /\ pass \in [Passes -> PassRow \cup {NoPass}]
  /\ held \in [Passes -> SUBSET Locks]
  /\ Exclusive

\* A fact stands exactly if an ACTIVE binding has the tuple in its ledger.  No
\* revocation, expiry, deletion or fallen label leaves behind a tuple nobody
\* grants, whoever wrote it meanwhile, and removing one of two grants of a tuple
\* never takes the other's fact (relation_fact_fold_row, fga_outbox deleteStamp,
\* LockBindingForDeactivation).
FactsAreGrants == fact <=> \E b \in Bindings : status[b] = "ACTIVE" /\ ledger[b]

\* The members of an ACTIVE binding and its ledger agree, so that removing the
\* member finds the tuples to take with it (applyDiff, forwardWriteSet.flush).
MembersAreLedgered == \A b \in Bindings : status[b] = "ACTIVE" => member[b] = ledger[b]

\* A member of a withdrawn object is still to be removed by an event of the
\* queue: no pass that read the object earlier grants on it after the queue has
\* been through (LockMirrorObjects, reconcile_outbox).
WithdrawnIsQueued ==
  mirror = "absent" => \A b \in Bindings : status[b] = "ACTIVE" /\ member[b] => events # {}

\* Once nothing changes any more, the queue is empty and every ACTIVE binding
\* has the object exactly if the object matches (ReconcileWorker.Run, sweep).
Converges ==
  <>[](events = {} /\ \A b \in Bindings : status[b] = "ACTIVE" => member[b] = (mirror = "match"))

\* When the queue is empty and no pass is open, what the bindings have is what
\* the object's labels say: the last pass over the object saw what any other
\* would have seen (ReconcileObject).
\* The code does not keep this: see section 7 of the README.
RestIsSettled ==
  events = {} /\ (\A p \in Passes : ~Open(p)) =>
    \A b \in Bindings : status[b] = "ACTIVE" /\ member[b] => mirror = "match"

\* Passes never wait for each other (forward.go, the choice of locks).
\* The code does not keep this: see section 7 of the README.
PassesNeverWait == Rings = {}
================================================================================
