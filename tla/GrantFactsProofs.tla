-------------------------- MODULE GrantFactsProofs --------------------------
(***************************************************************************)
(* Proofs about GrantFacts, for any bindings, any number of open           *)
(* transactions and any scene.  The invariant says of each open            *)
(* transaction which locks its phase holds, and what its locks keep true   *)
(* of the rows it is about to change.                                      *)
(***************************************************************************)
EXTENDS GrantFacts, WellFoundedInduction, TLAPS

-----------------------------------------------------------------------------
(* What an open transaction has done and holds. *)

PhasesOf(kind) ==
  CASE kind = "object" -> {"existing", "matching", "project", "adv", "rows", "mirror", "work",
                           "todo", "commit", "sent"}
    [] kind = "binding" -> {"adv", "rows", "project", "work", "mirror", "todo", "commit"}
    [] kind \in Forward -> {"peek", "project", "matching", "share", "mirror", "todo", "commit"}
    [] kind \in Deactivation -> {"adv", "upd", "act", "work", "todo", "commit"}
    [] OTHER -> {"mdel", "commit"}

\* Nothing is written, and nothing is about to be.
Unwritten(r) ==
  /\ r.todo = {} /\ r.madd = {} /\ r.mdrop = {} /\ r.ladd = {} /\ r.ldrop = {}
  /\ ~r.wrote /\ ~r.pending /\ ~r.erased /\ ~r.ends

\* Phases follow one another; writing starts in "work", or for a forward pass in "todo".
Progress(r) ==
  /\ r.at \in PhasesOf(r.kind)
  /\ r.at \notin {"work", "todo", "commit"} => Unwritten(r)
  /\ r.at \in {"adv", "share"} => r.left # {}
  /\ r.at \in {"work", "commit"} => r.todo = {}
  /\ r.at = "commit" => ~r.pending
  /\ r.kind = "object" => /\ r.left \subseteq r.on
                          /\ r.at \in {"existing", "matching"} => r.left = {}
                          /\ r.at = "project" => r.left = r.on
  /\ r.kind = "binding" => /\ r.b \in Bindings /\ r.on = {r.b} /\ r.left \subseteq r.on
                           /\ r.at = "mirror" => r.left = {}
                           /\ r.left # {} => Unwritten(r)
  /\ r.kind = "created" => r.b \in Bindings /\ (r.at = "peek" => r.on = {r.b} /\ r.left = {r.b})
  /\ r.kind \in Deactivation =>
       r.b \in Bindings /\ r.obj = "absent" /\ r.left = IF r.at = "adv" THEN {r.b} ELSE {}
  /\ r.kind = "unregister" => r.ev \in 1..changes

\* The locks that belong to a phase, and what they have been taken for.
Guards(r, H) ==
  /\ r.kind \in Full /\ r.at \notin {"existing", "matching", "sent"} /\ (r.kind = "object" => r.at # "project") =>
       \A b \in r.on : <<"adv", b>> \in H \/ (r.at = "adv" /\ b \in r.left)
  /\ r.kind = "binding" /\ r.at = "mirror" => status[r.b] = "ACTIVE" /\ r.obj = "match"
  /\ r.kind = "object" /\ r.at \in {"work", "todo"} /\ r.obj = "match" => <<"mkey", 0>> \in H
  /\ r.kind \in Forward /\ (r.at \in {"share", "mirror"} \/ (r.kind = "created" /\ r.at = "project")) =>
       \A b \in r.on : (r.at = "share" /\ b \in r.left) \/ (<<"key", b>> \in H /\ status[b] = "ACTIVE")
  /\ r.kind \in Deactivation /\ r.at # "adv" => <<"adv", r.b>> \in H
  /\ r.kind \in Deactivation /\ r.at \notin {"adv", "upd"} => <<"upd", r.b>> \in H
  /\ \A b \in Nat : <<"upd", b>> \in H \/ <<"nku", b>> \in H => <<"adv", b>> \in H
  /\ <<"mkey", 0>> \in H => mirror # "absent"
  /\ r.at = "sent" => H = {}

-----------------------------------------------------------------------------
(* What it is writing. *)

Adding(r) == \/ r.madd \cup r.ladd # {} \/ r.wrote
             \/ \E op \in r.todo : op[1] \in {"mem", "fact", "led"}
Dropping(r) == \/ r.mdrop \cup r.ldrop # {} \/ r.pending \/ r.erased \/ r.ends
               \/ \E op \in r.todo : op[1] \in {"forget", "unmem", "stamp", "erase"}

\* A transaction either adds or drops.
OneWay(r) == /\ Adding(r) => r.obj = "match"
             /\ Dropping(r) => r.obj # "match" /\ r.kind \notin Forward
             /\ r.ends => r.kind \in Deactivation

\* Nobody can end the binding, or withdraw the object, before the transaction ends.
Secured(H, b) ==
  /\ status[b] = "ACTIVE" /\ <<"mkey", 0>> \in H
  /\ <<"adv", b>> \in H \/ <<"key", b>> \in H

\* A member that is added gets its ledger row in the same transaction.
Adds(r, H) ==
  /\ \A b \in Bindings :
       /\ <<"mem", b>> \in r.todo => <<"led", b>> \in r.todo
       /\ <<"led", b>> \in r.todo => /\ Secured(H, b)
                                     /\ <<"mem", b>> \in r.todo \/ b \in r.madd
                                     /\ <<"fact", 0>> \in r.todo \/ r.wrote
       /\ b \in r.madd => /\ Secured(H, b) /\ <<"mem", b>> \in H
                          /\ <<"led", b>> \in r.todo \/ b \in r.ladd \/ ledger[b]
       /\ b \in r.ladd => b \in r.madd /\ <<"led", b>> \in H /\ ~ledger[b] /\ r.wrote
  /\ <<"fact", 0>> \in r.todo => \E b \in Bindings : <<"led", b>> \in r.todo
  /\ r.wrote => <<"fact", 0>> \in H /\ r.madd # {}

\* The member may be dropped: nobody else can add or drop it, or end the binding.
Losing(r, H, b) ==
  /\ <<"adv", b>> \in H
  /\ IF r.ends THEN b = r.b ELSE status[b] = "ACTIVE" /\ member[b]

\* A member that is dropped loses its ledger row in the same transaction.
Drops(r, H) ==
  \A b \in Bindings :
    /\ <<"forget", b>> \in r.todo => <<"unmem", b>> \in r.todo
    /\ <<"unmem", b>> \in r.todo => /\ Losing(r, H, b)
                                    /\ <<"forget", b>> \in r.todo \/ b \in r.ldrop \/ r.ends
    /\ b \in r.ldrop => /\ Losing(r, H, b) /\ <<"led", b>> \in H /\ ledger[b]
                        /\ <<"unmem", b>> \in r.todo \/ b \in r.mdrop \/ r.ends
    /\ b \in r.mdrop => /\ Losing(r, H, b) /\ <<"mem", b>> \in H /\ member[b]
                        /\ b \in r.ldrop \/ r.ends

Knows(r, H) == Progress(r) /\ Guards(r, H) /\ OneWay(r) /\ Adds(r, H) /\ Drops(r, H)

PassesInv == \A p \in Passes : IF Open(p) THEN Knows(pass[p], held[p]) ELSE held[p] = {}

NewInv == \A b \in Bindings : status[b] = "new" => ~member[b] /\ ~ledger[b]

IInv == TypeOK /\ PassesInv /\ NewInv /\ MembersAreLedgered

-----------------------------------------------------------------------------
(* The folding of deleted facts. *)

Grants == {b \in Bindings : status[b] = "ACTIVE" /\ ledger[b]}

\* The ledger rows that count no more once r commits.
Gone(r) == r.ldrop \cup IF r.ends THEN {r.b} ELSE {}

\* The delete row was folded under the fact's lock, which is still held.
Folded(r, H) == <<"fact", 0>> \in H /\ ~r.wrote /\ (r.erased <=> Grants \subseteq Gone(r))

Folds(r, H) ==
  /\ Grants \cap Gone(r) # {} =>
       Folded(r, H) \/ r.pending \/ \E op \in r.todo : op[1] \in {"forget", "erase"}
  /\ r.erased => Folded(r, H) /\ r.todo = {} /\ r.left = {} /\ ~r.pending
  /\ <<"erase", 0>> \in r.todo => /\ r.left = {} /\ ~r.pending
                                  /\ \A op \in r.todo : op[1] \in {"stamp", "erase"}

FoldInv == FactsAreGrants /\ \A p \in Passes : Open(p) => Folds(pass[p], held[p])

-----------------------------------------------------------------------------
(* The queue. *)

Bound == {b \in Bindings : status[b] = "ACTIVE" /\ member[b]}

\* Of a withdrawn object: the pass will drop every member there is.
Covers(r) ==
  CASE r.at = "existing" -> TRUE
    [] r.at \in {"matching", "project"} -> Bound \subseteq r.on
    [] r.at \in {"adv", "rows"} -> Bound \subseteq r.on /\ r.obj = "absent"
    [] r.at = "work" -> Bound \subseteq r.left \cup r.mdrop /\ r.obj = "absent"
    [] r.at = "todo" -> /\ r.obj = "absent"
                        /\ \A b \in Bound : b \in r.left \cup r.mdrop \/ <<"unmem", b>> \in r.todo
    [] r.at = "commit" -> Bound \subseteq r.mdrop
    [] OTHER -> Bound = {}

\* Events have numbers of their own, which a withdrawal draws before it commits.
NumbersInv ==
  \A p \in Passes : Open(p) =>
    /\ pass[p].ev <= changes
    /\ pass[p].ev # 0 => pass[p].kind \in {"object", "unregister"}
    /\ pass[p].kind = "unregister" =>
         /\ pass[p].ev \notin events
         /\ \A q \in Passes \ {p} : Open(q) => pass[q].ev # pass[p].ev

\* What is left of a withdrawn object is in the hands of an event that everybody who
\* has claimed it will go through with.
LeftInv ==
  mirror = "absent" /\ Bound # {} =>
    \E e \in events : \A p \in Passes : Open(p) /\ pass[p].ev = e => Covers(pass[p])

QueueInv == NumbersInv /\ LeftInv

-----------------------------------------------------------------------------
(* Lemmas about the operators. *)

LEMMA LeastExists ==
    ASSUME NEW T \in SUBSET Nat, T # {}
    PROVE  \E x \in T : \A y \in T : x <= y
<1> DEFINE R == {ss \in Nat \X Nat : ss[1] < ss[2]}
<1>1. IsWellFoundedOn(R, Nat)
  BY NatLessThanWellFounded, Zenon DEF OpToRel
<1>2. \E x \in T : \A y \in T : ~(<<y, x>> \in R)
  BY <1>1, WFMin
<1>3. \A x, y \in T : ~(<<y, x>> \in R) => x <= y
  OBVIOUS
<1>. QED
  BY <1>2, <1>3

LEMMA MinIsIn ==
    ASSUME NEW T \in SUBSET Nat, T # {}
    PROVE  Min(T) \in T
BY LeastExists DEF Min

\* The statement issued next is one of the first stage there is.
LEMMA FirstIsIn ==
    ASSUME NEW ops \in SUBSET Ops, ops # {}
    PROVE  FirstOf(ops) \in ops /\ \A o \in ops : Stage(FirstOf(ops)) <= Stage(o)
<1>1. \A o \in ops : Stage(o) \in Nat /\ o[2] \in Nat
  BY ConstantsAssumption DEF Stage, Ops
<1> DEFINE S == {Stage(o) : o \in ops}
<1>2. PICK s \in S : \A y \in S : s <= y
  <2>1. S \in SUBSET Nat /\ S # {}
    BY <1>1
  <2>. QED
    BY <2>1, LeastExists
<1> DEFINE B == {o[2] : o \in {x \in ops : Stage(x) = s}}
<1>3. PICK b \in B : \A y \in B : b <= y
  <2>1. B \in SUBSET Nat /\ B # {}
    BY <1>1, <1>2
  <2>. QED
    BY <2>1, LeastExists
<1>4. PICK op \in ops : Stage(op) = s /\ op[2] = b
  BY <1>3
<1>5. \A o \in ops : Stage(op) < Stage(o) \/ (Stage(op) = Stage(o) /\ op[2] <= o[2])
  <2> SUFFICES ASSUME NEW o \in ops
               PROVE  Stage(op) < Stage(o) \/ (Stage(op) = Stage(o) /\ op[2] <= o[2])
    OBVIOUS
  <2>1. Stage(op) <= Stage(o)
    BY <1>2, <1>4
  <2>2. Stage(op) = Stage(o) => op[2] <= o[2]
    BY <1>3, <1>4
  <2>. QED
    BY <2>1, <2>2, <1>1
<1> DEFINE Q(x) == \A o \in ops : Stage(x) < Stage(o) \/ (Stage(x) = Stage(o) /\ x[2] <= o[2])
<1>6. FirstOf(ops) = CHOOSE x \in ops : Q(x)
  BY DEF FirstOf
<1>7. FirstOf(ops) \in ops /\ Q(FirstOf(ops))
  BY <1>5, <1>6
<1>. QED
  BY <1>1, <1>7

\* Whether two locks clash does not depend on who came first.
LEMMA ClashIsMutual ==
    ASSUME NEW l, NEW k
    PROVE  Clash(l, k) <=> Clash(k, l)
<1>1. {l[1], k[1]} = {k[1], l[1]}
  OBVIOUS
<1>. QED
  BY <1>1 DEF Clash

\* What one transaction holds, another does not hold in a mode that excludes it.
LEMMA Excludes ==
    ASSUME Exclusive, NEW p \in Passes, NEW q \in Passes, p # q, NEW b
    PROVE  /\ <<"adv", b>> \in held[p] => <<"adv", b>> \notin held[q]
           /\ <<"mem", b>> \in held[p] => <<"mem", b>> \notin held[q]
           /\ <<"led", b>> \in held[p] => <<"led", b>> \notin held[q]
           /\ <<"fact", b>> \in held[p] => <<"fact", b>> \notin held[q]
           /\ <<"upd", b>> \in held[p] => <<"key", b>> \notin held[q]
           /\ <<"key", b>> \in held[p] => <<"upd", b>> \notin held[q]
           /\ <<"mdel", b>> \in held[p] => <<"mkey", 0>> \notin held[q]
           /\ <<"mkey", b>> \in held[p] => <<"mdel", 0>> \notin held[q]
<1>1. \A l \in held[p], k \in held[q] : ~Clash(l, k)
  BY DEF Exclusive
<1>2. \A x \in {"adv", "mem", "led", "fact"} : Clash(<<x, b>>, <<x, b>>)
  BY DEF Clash
<1>3. Clash(<<"upd", b>>, <<"key", b>>) /\ Clash(<<"key", b>>, <<"upd", b>>)
  BY DEF Clash
<1>4. Clash(<<"mdel", b>>, <<"mkey", 0>>) /\ Clash(<<"mkey", b>>, <<"mdel", 0>>)
  BY DEF Clash
<1>5. \A x \in {"adv", "mem", "led", "fact"} : <<x, b>> \in held[p] => <<x, b>> \notin held[q]
  BY <1>1, <1>2
<1>. QED
  BY <1>1, <1>3, <1>4, <1>5

\* What a lock that is free clashes with, nobody else holds.
LEMMA FreeIsUncontested ==
    ASSUME NEW p \in Passes, Free(p)
    PROVE  \A q \in Passes \ {p} : \A k \in held[q] : ~Clash(Wants(p), k)
BY DEF Free, Blockers

LEMMA NoPassIsNoRow == NoPass \notin PassRow
BY DEF NoPass, PassRow, Kinds, Full, Forward, Deactivation

\* A transaction that has not written has nothing to keep.
LEMMA UnwrittenIsIdle ==
    ASSUME NEW r, NEW H, Unwritten(r)
    PROVE  OneWay(r) /\ Adds(r, H) /\ Drops(r, H) /\ Folds(r, H)
<1>1. ~Adding(r) /\ ~Dropping(r) /\ ~r.ends
  BY DEF Unwritten, Adding, Dropping
<1>2. OneWay(r)
  BY <1>1 DEF OneWay
<1>3. Adds(r, H)
  BY DEF Unwritten, Adds
<1>4. Drops(r, H)
  BY DEF Unwritten, Drops
<1>5. Folds(r, H)
  BY DEF Unwritten, Folds, Gone
<1>. QED
  BY <1>2, <1>3, <1>4, <1>5

\* What is written is kept by a step that writes nothing and lets no lock go.
SameWrites(r, x) ==
  /\ x.todo = r.todo /\ x.madd = r.madd /\ x.mdrop = r.mdrop /\ x.ladd = r.ladd /\ x.ldrop = r.ldrop
  /\ x.wrote = r.wrote /\ x.pending = r.pending /\ x.erased = r.erased /\ x.ends = r.ends
  /\ x.kind = r.kind /\ x.b = r.b

LEMMA SameWritesKeep ==
    ASSUME NEW r, NEW x, NEW H, NEW K, SameWrites(r, x), H \subseteq K,
           OneWay(r), Adds(r, H), Drops(r, H)
    PROVE  /\ Adds(x, K) /\ Drops(x, K)
           /\ x.obj = r.obj => OneWay(x)
<1>1. Adds(x, K)
  BY DEF SameWrites, Adds, Secured
<1>2. Drops(x, K)
  BY DEF SameWrites, Drops, Losing
<1>3. x.obj = r.obj => OneWay(x)
  BY DEF SameWrites, OneWay, Adding, Dropping
<1>. QED
  BY <1>1, <1>2, <1>3

-----------------------------------------------------------------------------
(* Steps of one transaction that change no row. *)

Moves(p, r, H) ==
  /\ pass' = [pass EXCEPT ![p] = r]
  /\ held' = [held EXCEPT ![p] = H]
  /\ UNCHANGED <<scene, mirror, status, member, ledger, fact>>
  /\ changes' \in Nat /\ changes <= changes' /\ aborts' \in Nat /\ events' \subseteq 1..changes'

\* Nobody else holds a lock that clashes with one of H.
Granting(p, H) == \A q \in Passes \ {p} : \A l \in H, k \in held[q] : ~Clash(l, k)

LEMMA RowsUntouched ==
    ASSUME UNCHANGED <<mirror, status, member, ledger>>, changes \in Nat, changes' \in Nat,
           changes <= changes', NEW x, NEW K, Knows(x, K)
    PROVE  Knows(x, K)'
<1>1. Progress(x)'
  BY DEF Knows, Progress, Unwritten, PhasesOf
<1>5. OneWay(x)'
  BY DEF Knows, OneWay, Adding, Dropping
<1>2. Guards(x, K)'
  BY DEF Knows, Guards
<1>3. Adds(x, K)'
  BY DEF Knows, Adds, Secured
<1>4. Drops(x, K)'
  BY DEF Knows, Drops, Losing
<1>. QED
  BY <1>1, <1>2, <1>3, <1>4, <1>5 DEF Knows

\* The locks of one transaction change, and the rest stay exclusive.
LEMMA StaysExclusive ==
    ASSUME TypeOK, NEW p \in Passes, NEW H \in SUBSET Locks, held' = [held EXCEPT ![p] = H],
           Granting(p, H)
    PROVE  held' \in [Passes -> SUBSET Locks] /\ Exclusive'
<1>1. held \in [Passes -> SUBSET Locks] /\ Exclusive
  BY DEF TypeOK
<1>2. held' \in [Passes -> SUBSET Locks]
  BY <1>1
<1>3. Exclusive'
  <2> SUFFICES ASSUME NEW a \in Passes, NEW c \in Passes, a # c, NEW l \in held'[a], NEW k \in held'[c]
               PROVE  ~Clash(l, k)
    BY DEF Exclusive, Clash
  <2>1. CASE a = p
    BY <2>1, <1>1 DEF Granting
  <2>2. CASE c = p
    <3>1. ~Clash(k, l)
      BY <2>2, <1>1 DEF Granting
    <3>. QED
      BY <3>1, ClashIsMutual
  <2>3. CASE a # p /\ c # p
    BY <2>3, <1>1 DEF Exclusive
  <2>. QED
    BY <2>1, <2>2, <2>3
<1>. QED
  BY <1>2, <1>3

LEMMA MovesKeepInv ==
    ASSUME IInv, NEW p \in Passes, NEW r, NEW H \in SUBSET Locks, Moves(p, r, H), Granting(p, H),
           (r = NoPass /\ H = {}) \/ (r \in PassRow /\ (Knows(r, H) \/ Knows(r, H)'))
    PROVE  IInv'
<1>1. /\ pass \in [Passes -> PassRow \cup {NoPass}] /\ held \in [Passes -> SUBSET Locks]
      /\ TypeOK /\ changes \in Nat
  BY DEF IInv, TypeOK
<1>2. TypeOK'
  BY <1>1, StaysExclusive DEF TypeOK, Moves
<1>3. ASSUME NEW q \in Passes
      PROVE  (IF Open(q) THEN Knows(pass[q], held[q]) ELSE held[q] = {})'
  <2>1. CASE q = p
    <3>1. pass'[q] = r /\ held'[q] = H
      BY <2>1, <1>1 DEF Moves
    <3>2. CASE r = NoPass /\ H = {}
      BY <3>1, <3>2 DEF Open
    <3>3. CASE r \in PassRow /\ (Knows(r, H) \/ Knows(r, H)')
      <4>1. Knows(r, H)'
        BY <1>1, <3>3, RowsUntouched DEF Moves
      <4>2. r # NoPass
        BY <3>3, NoPassIsNoRow
      <4>. QED
        BY <3>1, <4>1, <4>2 DEF Open
    <3>. QED
      BY <3>2, <3>3
  <2>2. CASE q # p
    <3>1. PICK x, K : x = pass[q] /\ K = held[q]
      OBVIOUS
    <3>2. pass'[q] = x /\ held'[q] = K
      BY <2>2, <3>1, <1>1 DEF Moves
    <3>3. IF x # NoPass THEN Knows(x, K) ELSE K = {}
      BY <3>1 DEF IInv, PassesInv, Open
    <3>4. x # NoPass => Knows(x, K)'
      BY <1>1, <3>3, RowsUntouched DEF Moves
    <3>. QED
      BY <3>2, <3>3, <3>4 DEF Open
  <2>. QED
    BY <2>1, <2>2
<1>4. NewInv' /\ MembersAreLedgered'
  BY DEF IInv, NewInv, MembersAreLedgered, Moves
<1>. QED
  BY <1>2, <1>3, <1>4 DEF IInv, PassesInv

\* A statement that takes only locks nobody excludes.
LEMMA LocalKeepsInv ==
    ASSUME IInv, NEW p \in Passes, Open(p), NEW r \in PassRow, NEW ls, Local(p, r, ls),
           ls \ {NoLock} \subseteq Locks, Granting(p, ls \ {NoLock}),
           Knows(r, held[p] \cup (ls \ {NoLock}))
    PROVE  IInv'
<1> DEFINE H == held[p] \cup (ls \ {NoLock})
<1>1. /\ held \in [Passes -> SUBSET Locks] /\ Exclusive
      /\ changes \in Nat /\ aborts \in Nat /\ events \subseteq 1..changes
  BY DEF IInv, TypeOK
<1>2. H \in SUBSET Locks
  BY <1>1
<1>3. Moves(p, r, H)
  BY <1>1 DEF Local, Becomes, Takes, Moves, stored
<1>4. Granting(p, H)
  BY <1>1 DEF Granting, Exclusive
<1>. QED
  BY <1>2, <1>3, <1>4, MovesKeepInv

LEMMA QuietKeepsInv ==
    ASSUME IInv, NEW p \in Passes, Open(p), NEW r \in PassRow, Local(p, r, {}), Knows(r, held[p])
    PROVE  IInv'
<1>1. {} \ {NoLock} = {} /\ held[p] \cup {} = held[p]
  OBVIOUS
<1>2. Granting(p, {})
  BY DEF Granting
<1>. QED
  BY <1>1, <1>2, LocalKeepsInv

\* The lock a statement waits for is free when the statement is issued.
LEMMA LockingKeepsInv ==
    ASSUME IInv, NEW p \in Passes, Free(p), NEW r \in PassRow, Local(p, r, {Wants(p)}),
           Wants(p) \in Locks \cup {NoLock}, Knows(r, held[p] \cup ({Wants(p)} \ {NoLock}))
    PROVE  IInv'
<1>1. Granting(p, {Wants(p)} \ {NoLock})
  BY FreeIsUncontested DEF Granting
<1>2. Open(p) /\ {Wants(p)} \ {NoLock} \subseteq Locks
  BY DEF Free
<1>. QED
  BY <1>1, <1>2, LocalKeepsInv

\* What the invariant says of an open transaction.
LEMMA OpenFacts ==
    ASSUME IInv, NEW p \in Passes, Open(p)
    PROVE  /\ pass[p] \in PassRow /\ held[p] \in SUBSET Locks
           /\ Progress(pass[p]) /\ Guards(pass[p], held[p]) /\ OneWay(pass[p])
           /\ Adds(pass[p], held[p]) /\ Drops(pass[p], held[p])
           /\ mirror \in Mirrors /\ status \in [Bindings -> {"new", "ACTIVE", "REVOKED", "GONE"}]
           /\ member \in [Bindings -> BOOLEAN] /\ ledger \in [Bindings -> BOOLEAN]
           /\ Bindings \subseteq Nat
BY ConstantsAssumption DEF IInv, TypeOK, PassesInv, Open, Knows

LEMMA UnwrittenKnows ==
    ASSUME NEW r, NEW H, Unwritten(r), Progress(r), Guards(r, H)
    PROVE  Knows(r, H)
BY UnwrittenIsIdle DEF Knows

LEMMA UnwrittenKnowsNext ==
    ASSUME NEW r, NEW H, Unwritten(r), Progress(r)', Guards(r, H)'
    PROVE  Knows(r, H)'
<1>1. OneWay(r)' /\ Adds(r, H)' /\ Drops(r, H)'
  BY DEF OneWay, Adds, Drops, Unwritten, Adding, Dropping
<1>. QED
  BY <1>1 DEF Knows

LEMMA OpenedIsRow ==
    ASSUME NEW k \in Kinds, NEW phase \in Phases, NEW b \in Bindings \cup {0}, NEW e \in Nat
    PROVE  Opened(k, phase, b, e) \in PassRow /\ Unwritten(Opened(k, phase, b, e))
BY DEF Opened, PassRow, Unwritten, Mirrors

-----------------------------------------------------------------------------
(* Transactions begin, and end without effect. *)

LEMMA BeginKeepsInv ==
    ASSUME IInv, NEW p \in Passes, ~Open(p), NEW r \in PassRow, Moves(p, r, {}),
           Unwritten(r), Progress(r), Guards(r, {})
    PROVE  IInv'
BY UnwrittenKnows, MovesKeepInv DEF Granting

LEMMA EndKeepsInv ==
    ASSUME IInv, NEW p \in Passes, Moves(p, NoPass, {})
    PROVE  IInv'
BY MovesKeepInv DEF Granting

LEMMA VacantHoldsNothing ==
    ASSUME IInv, NEW p \in Passes, Vacant(p)
    PROVE  ~Open(p) /\ held[p] = {} /\ held = [held EXCEPT ![p] = {}]
BY DEF IInv, PassesInv, Vacant, TypeOK

LEMMA DrainKeepsInv ==
    ASSUME IInv, NEW p \in Passes, NEW e \in events, Drain(p, e)
    PROVE  IInv'
<1> DEFINE r == Opened("object", "existing", 0, e)
<1>1. e \in Nat /\ changes \in Nat /\ aborts \in Nat /\ events \subseteq 1..changes
  BY DEF IInv, TypeOK
<1>2. r \in PassRow /\ Unwritten(r)
  BY <1>1, OpenedIsRow DEF Kinds, Full, Phases
<1>3. Progress(r) /\ Guards(r, {})
  BY <1>2 DEF Progress, PhasesOf, Guards, Opened, Full, Forward, Deactivation
<1>4. Moves(p, r, {})
  BY <1>1, VacantHoldsNothing DEF Drain, Begin, Becomes, Moves
<1>. QED
  BY <1>2, <1>3, <1>4, BeginKeepsInv DEF Drain, Vacant

LEMMA SweepKeepsInv ==
    ASSUME IInv, NEW p \in Passes, NEW b \in Bindings, Sweep(p, b)
    PROVE  IInv'
<1> DEFINE r == [Opened("binding", "adv", b, 0) EXCEPT !.on = {b}, !.left = {b}]
<1>1. changes \in Nat /\ aborts \in Nat /\ events \subseteq 1..changes
  BY DEF IInv, TypeOK
<1>2. r \in PassRow /\ Unwritten(r)
  BY DEF Opened, PassRow, Unwritten, Mirrors, Kinds, Full, Phases
<1>3. Progress(r) /\ Guards(r, {})
  BY <1>2 DEF Progress, PhasesOf, Guards, Opened, Full, Forward, Deactivation
<1>4. Moves(p, r, {})
  BY <1>1, VacantHoldsNothing DEF Sweep, Begin, Becomes, Moves
<1>. QED
  BY <1>2, <1>3, <1>4, BeginKeepsInv DEF Sweep, Vacant

LEMMA DeactivateKeepsInv ==
    ASSUME IInv, NEW p \in Passes, NEW k \in Deactivation, NEW b \in Bindings, Deactivate(p, k, b)
    PROVE  IInv'
<1> DEFINE r == [Opened(k, "adv", b, 0) EXCEPT !.left = {b}]
<1>1. changes \in Nat /\ aborts \in Nat /\ events \subseteq 1..changes
  BY DEF IInv, TypeOK
<1>2. r \in PassRow /\ Unwritten(r)
  BY DEF Opened, PassRow, Unwritten, Mirrors, Kinds, Deactivation, Phases
<1>3. Progress(r) /\ Guards(r, {})
  BY <1>2 DEF Progress, PhasesOf, Guards, Opened, Full, Forward, Deactivation
<1>4. Moves(p, r, {})
  BY <1>1, VacantHoldsNothing DEF Deactivate, Begin, Becomes, Moves
<1>. QED
  BY <1>2, <1>3, <1>4, BeginKeepsInv DEF Deactivate, Vacant

LEMMA UnregisterKeepsInv ==
    ASSUME IInv, NEW p \in Passes, Unregister(p)
    PROVE  IInv'
<1>1. changes \in Nat /\ aborts \in Nat /\ events \subseteq 1..changes
  BY DEF IInv, TypeOK
<1>2. PICK r : r = Opened("unregister", "mdel", 0, changes + 1)
  OBVIOUS
<1>3. r \in PassRow /\ Unwritten(r)
  BY <1>1, <1>2, OpenedIsRow DEF Kinds, Phases
<1>4. Moves(p, r, {})
  BY <1>1, <1>2, VacantHoldsNothing DEF Unregister, Begin, Becomes, Moves
<1>5. Progress(r)' /\ Guards(r, {})' /\ Unwritten(r)'
  <2>1. changes' = changes + 1 /\ r.kind = "unregister" /\ r.at = "mdel" /\ r.ev = changes + 1
    BY <1>2 DEF Unregister, Opened
  <2>2. Unwritten(r)'
    BY <1>3 DEF Unwritten
  <2>3. Progress(r)'
    BY <1>1, <1>3, <2>1, <2>2 DEF Progress, PhasesOf, Full, Forward, Deactivation
  <2>. QED
    BY <2>1, <2>2, <2>3 DEF Guards, Full, Forward, Deactivation
<1>6. Knows(r, {})'
  BY <1>3, <1>5, UnwrittenKnowsNext
<1>. QED
  BY <1>3, <1>4, <1>6, MovesKeepInv DEF Granting

LEMMA MarkSentKeepsInv ==
    ASSUME IInv, NEW p \in Passes, MarkSent(p)
    PROVE  IInv'
<1>1. changes \in Nat /\ aborts \in Nat /\ events \subseteq 1..changes /\ held \in [Passes -> SUBSET Locks]
  BY DEF IInv, TypeOK
<1>2. held[p] = {}
  BY OpenFacts DEF MarkSent, Guards
<1>3. Moves(p, NoPass, {})
  <2>1. held' = [held EXCEPT ![p] = {}]
    BY <1>1, <1>2 DEF MarkSent
  <2>2. events' \subseteq 1..changes' /\ changes' = changes /\ aborts' = aborts
    BY <1>1 DEF MarkSent
  <2>3. pass' = [pass EXCEPT ![p] = NoPass] /\ UNCHANGED <<scene, mirror, status, member, ledger, fact>>
    BY DEF MarkSent, Becomes, stored
  <2>4. changes' \in Nat /\ changes <= changes' /\ aborts' \in Nat
    BY <1>1, <2>2
  <2>. QED
    BY <2>1, <2>2, <2>3, <2>4 DEF Moves
<1>. QED
  BY <1>3, EndKeepsInv

LEMMA RollbackKeepsInv ==
    ASSUME IInv, NEW p \in Passes, Abort(p) \/ Victim(p)
    PROVE  IInv'
<1>1. changes \in Nat /\ aborts \in Nat /\ events \subseteq 1..changes
  BY DEF IInv, TypeOK
<1>2. RolledBack(p) /\ aborts' \in Nat
  <2>1. CASE Abort(p)
    BY <2>1, <1>1 DEF Abort
  <2>2. CASE Victim(p)
    BY <2>2, <1>1 DEF Victim
  <2>. QED
    BY <2>1, <2>2
<1>3. Moves(p, NoPass, {})
  BY <1>1, <1>2 DEF RolledBack, Becomes, Moves
<1>. QED
  BY <1>3, EndKeepsInv

-----------------------------------------------------------------------------
(* Reading and locking. *)

LEMMA PeekKeepsInv ==
    ASSUME IInv, NEW p \in Passes, Peek(p)
    PROVE  IInv'
<1> DEFINE s == pass[p]
           H == held[p]
<1>1. /\ s \in PassRow /\ H \in SUBSET Locks /\ Progress(s) /\ Guards(s, H) /\ s.at = "peek" /\ Open(p)
      /\ changes \in Nat /\ aborts \in Nat /\ events \subseteq 1..changes
      /\ held \in [Passes -> SUBSET Locks] /\ Exclusive
  BY OpenFacts DEF IInv, TypeOK, Peek
<1>2. s.kind \in Forward /\ Unwritten(s)
  BY <1>1 DEF Progress, PhasesOf, PassRow, Kinds, Full, Deactivation
<1>3. PICK r : /\ pass' = [pass EXCEPT ![p] = r]
               /\ \/ r = [s EXCEPT !.at = "share"] /\ s.kind = "created"
                  \/ r = [s EXCEPT !.at = "project"] /\ s.kind # "created"
                  \/ r = [Opened("binding", "adv", s.b, 0) EXCEPT !.on = {s.b}, !.left = {s.b}] /\ s.kind = "created"
                  \/ r = Opened("object", "existing", 0, 0)
  <2> DEFINE found == {b \in IF s.kind = "created" THEN {s.b} ELSE Bindings : member[b]}
  <2>4. Becomes(p, IF found = {} THEN [s EXCEPT !.at = IF s.kind = "created" THEN "share" ELSE "project"]
                   ELSE IF s.kind = "created"
                   THEN [Opened("binding", "adv", s.b, 0) EXCEPT !.on = {s.b}, !.left = {s.b}]
                   ELSE Opened("object", "existing", 0, 0))
    BY DEF Peek
  <2> HIDE DEF found
  <2>1. CASE found = {}
    BY <2>1, <2>4 DEF Becomes
  <2>2. CASE found # {} /\ s.kind = "created"
    BY <2>2, <2>4 DEF Becomes
  <2>3. CASE found # {} /\ s.kind # "created"
    BY <2>3, <2>4 DEF Becomes
  <2>. QED
    BY <2>1, <2>2, <2>3
<1>4. r \in PassRow /\ Unwritten(r) /\ Progress(r) /\ Guards(r, H)
  <2>1. CASE r = [s EXCEPT !.at = "share"] /\ s.kind = "created"
    <3>1. r \in PassRow /\ Unwritten(r)
      BY <2>1, <1>1, <1>2 DEF PassRow, Unwritten, Phases
    <3>2. Progress(r)
      BY <2>1, <3>1, <1>1 DEF Progress, PhasesOf, PassRow, Full, Forward, Deactivation
    <3>3. Guards(r, H)
      BY <2>1, <1>1 DEF Progress, Guards, PassRow, Full, Forward, Deactivation
    <3>. QED
      BY <3>1, <3>2, <3>3
  <2>2. CASE r = [s EXCEPT !.at = "project"] /\ s.kind # "created"
    <3>1. r \in PassRow /\ Unwritten(r)
      BY <2>2, <1>1, <1>2 DEF PassRow, Unwritten, Phases
    <3>2. Progress(r)
      BY <2>2, <3>1, <1>1, <1>2 DEF Progress, PhasesOf, PassRow, Full, Forward, Deactivation
    <3>3. Guards(r, H)
      BY <2>2, <1>1, <1>2 DEF Guards, PassRow, Full, Forward, Deactivation
    <3>. QED
      BY <3>1, <3>2, <3>3
  <2>3. CASE r = [Opened("binding", "adv", s.b, 0) EXCEPT !.on = {s.b}, !.left = {s.b}] /\ s.kind = "created"
    <3>1. s.b \in Bindings
      BY <2>3, <1>1 DEF Progress
    <3>2. r \in PassRow /\ Unwritten(r)
      BY <2>3, <3>1 DEF Opened, PassRow, Unwritten, Mirrors, Kinds, Full, Phases
    <3>3. Progress(r) /\ Guards(r, H)
      BY <2>3, <3>1, <3>2, <1>1 DEF Progress, PhasesOf, Guards, Opened, Full, Forward, Deactivation
    <3>. QED
      BY <3>2, <3>3
  <2>4. CASE r = Opened("object", "existing", 0, 0)
    <3>1. r \in PassRow /\ Unwritten(r)
      BY <2>4 DEF Opened, PassRow, Unwritten, Mirrors, Kinds, Full, Phases
    <3>2. Progress(r) /\ Guards(r, H)
      BY <2>4, <3>1, <1>1 DEF Progress, PhasesOf, Guards, Opened, Full, Forward, Deactivation
    <3>. QED
      BY <3>1, <3>2
  <2>. QED
    BY <1>3, <2>1, <2>2, <2>3, <2>4
<1>5. Moves(p, r, H) /\ Granting(p, H)
  <2>1. held = [held EXCEPT ![p] = H]
    BY <1>1
  <2>2. Granting(p, H)
    BY <1>1 DEF Granting, Exclusive
  <2>. QED
    BY <1>1, <1>3, <2>1, <2>2 DEF Moves, Peek
<1>6. Knows(r, H)
  BY <1>4, UnwrittenKnows
<1>. QED
  BY <1>1, <1>4, <1>5, <1>6, MovesKeepInv

LEMMA ReadExistingKeepsInv ==
    ASSUME IInv, NEW p \in Passes, ReadExisting(p)
    PROVE  IInv'
<1> DEFINE s == pass[p]
           r == [s EXCEPT !.at = "matching", !.on = {b \in Bindings : member[b]}]
<1>1. /\ s \in PassRow /\ Progress(s) /\ Guards(s, held[p]) /\ s.at = "existing" /\ Open(p)
  BY OpenFacts DEF ReadExisting
<1>2. s.kind = "object" /\ Unwritten(s)
  BY <1>1 DEF Progress, PhasesOf, PassRow, Kinds, Full, Forward, Deactivation
<1>3. r \in PassRow /\ Unwritten(r)
  BY <1>1, <1>2 DEF PassRow, Unwritten, Phases
<1>4. Progress(r)
  BY <1>1, <1>2, <1>3 DEF Progress, PhasesOf, PassRow, Full, Forward, Deactivation
<1>5. Guards(r, held[p])
  BY <1>1, <1>2 DEF Guards, PassRow, Full, Forward, Deactivation
<1>. QED
  BY <1>1, <1>3, <1>4, <1>5, UnwrittenKnows, QuietKeepsInv DEF ReadExisting

LEMMA ReadMatchingKeepsInv ==
    ASSUME IInv, NEW p \in Passes, ReadMatching(p)
    PROVE  IInv'
<1> DEFINE s == pass[p]
           on == s.on \cup Matching
           r == [s EXCEPT !.on = on, !.left = on,
                          !.at = IF s.kind = "object" THEN "project"
                                 ELSE IF on = {} THEN "mirror" ELSE "share"]
<1>1. /\ s \in PassRow /\ Progress(s) /\ Guards(s, held[p]) /\ s.at = "matching" /\ Open(p)
      /\ on \subseteq Bindings
  BY OpenFacts DEF ReadMatching, Matching, PassRow
<1>2. s.kind \in Forward \cup {"object"} /\ Unwritten(s)
  BY <1>1 DEF Progress, PhasesOf, PassRow, Kinds, Full, Forward, Deactivation
<1>3. r \in PassRow /\ Unwritten(r)
  BY <1>1, <1>2 DEF PassRow, Unwritten, Phases
<1>4. Progress(r)
  BY <1>1, <1>2, <1>3 DEF Progress, PhasesOf, PassRow, Full, Forward, Deactivation
<1>5. Guards(r, held[p])
  BY <1>1, <1>2 DEF Guards, PassRow, Full, Forward, Deactivation
<1>6. Local(p, r, {})
  BY DEF ReadMatching
<1>. QED
  BY <1>1, <1>3, <1>4, <1>5, <1>6, UnwrittenKnows, QuietKeepsInv

LEMMA ReadObjectKeepsInv ==
    ASSUME IInv, NEW p \in Passes, ReadObject(p)
    PROVE  IInv'
<1> DEFINE s == pass[p]
           r == [s EXCEPT !.obj = mirror,
                   !.at = CASE s.kind = "object" -> IF s.left = {} THEN "rows" ELSE "adv"
                            [] s.kind = "binding" -> "work"
                            [] s.kind = "created" -> IF mirror = "match" THEN "mirror" ELSE "commit"
                            [] OTHER -> IF mirror = "absent" THEN "commit" ELSE "matching"]
<1>1. /\ s \in PassRow /\ Progress(s) /\ Guards(s, held[p]) /\ s.at = "project" /\ Open(p)
      /\ mirror \in Mirrors
  BY OpenFacts DEF ReadObject
<1>2. s.kind \in Forward \cup Full /\ Unwritten(s)
  BY <1>1 DEF Progress, PhasesOf, PassRow, Kinds, Full, Forward, Deactivation
<1>3. r \in PassRow /\ Unwritten(r)
  BY <1>1, <1>2 DEF PassRow, Unwritten, Phases
<1>4. Progress(r)
  <2>1. CASE s.kind = "object"
    BY <2>1, <1>1, <1>2, <1>3 DEF Progress, PhasesOf, PassRow, Full, Forward, Deactivation
  <2>2. CASE s.kind = "binding"
    BY <2>2, <1>1, <1>2, <1>3 DEF Progress, PhasesOf, PassRow, Full, Forward, Deactivation, Unwritten
  <2>3. CASE s.kind = "created"
    BY <2>3, <1>1, <1>2, <1>3 DEF Progress, PhasesOf, PassRow, Full, Forward, Deactivation, Unwritten
  <2>4. CASE s.kind \in Forward \ {"created"}
    BY <2>4, <1>1, <1>2, <1>3 DEF Progress, PhasesOf, PassRow, Full, Forward, Deactivation, Unwritten
  <2>. QED
    BY <1>2, <2>1, <2>2, <2>3, <2>4 DEF Full
<1>5. Guards(r, held[p])
  <2>1. CASE s.kind = "object"
    BY <2>1, <1>1, <1>2 DEF Progress, Guards, PassRow, Full, Forward, Deactivation
  <2>2. CASE s.kind = "binding"
    BY <2>2, <1>1, <1>2 DEF Guards, PassRow, Full, Forward, Deactivation
  <2>3. CASE s.kind = "created"
    BY <2>3, <1>1, <1>2 DEF Guards, PassRow, Full, Forward, Deactivation
  <2>4. CASE s.kind \in Forward \ {"created"}
    BY <2>4, <1>1, <1>2 DEF Guards, PassRow, Full, Forward, Deactivation
  <2>. QED
    BY <1>2, <2>1, <2>2, <2>3, <2>4 DEF Full
<1>6. Local(p, r, {})
  BY DEF ReadObject
<1>. QED
  BY <1>1, <1>3, <1>4, <1>5, <1>6, UnwrittenKnows, QuietKeepsInv

LEMMA TakeAdvisoryKeepsInv ==
    ASSUME IInv, NEW p \in Passes, TakeAdvisory(p)
    PROVE  IInv'
<1> DEFINE s == pass[p]
           m == Min(s.left)
           left == s.left \ {m}
           r == [s EXCEPT !.left = left,
                   !.at = IF left # {} THEN "adv"
                          ELSE IF s.kind \in Deactivation THEN "upd" ELSE "rows"]
           H == held[p] \cup ({Wants(p)} \ {NoLock})
<1>1. /\ s \in PassRow /\ Progress(s) /\ Guards(s, held[p]) /\ s.at = "adv" /\ Open(p)
      /\ Bindings \subseteq Nat
  BY OpenFacts DEF TakeAdvisory, Free
<1>2. s.kind \in Deactivation \cup Full /\ Unwritten(s)
  BY <1>1 DEF Progress, PhasesOf, PassRow, Kinds, Full, Forward, Deactivation
<1>3. m \in s.left /\ m \in Nat
  <2>1. s.left # {} /\ s.left \in SUBSET Nat
    BY <1>1 DEF Progress, PassRow
  <2>. QED
    BY <2>1, MinIsIn
<1>4. Wants(p) = <<"adv", m>> /\ Wants(p) \in Locks /\ H = held[p] \cup {<<"adv", m>>}
  BY <1>1, <1>3 DEF Wants, Locks, NoLock
<1> HIDE DEF m, H
<1>5. r \in PassRow /\ Unwritten(r)
  BY <1>1, <1>2 DEF PassRow, Unwritten, Phases
<1>6. Progress(r)
  <2>1. CASE s.kind \in Deactivation
    BY <2>1, <1>1, <1>2, <1>3, <1>5 DEF Progress, PhasesOf, PassRow, Full, Forward, Deactivation
  <2>2. CASE s.kind \in Full
    BY <2>2, <1>1, <1>2, <1>3, <1>5 DEF Progress, PhasesOf, PassRow, Full, Forward, Deactivation
  <2>. QED
    BY <1>2, <2>1, <2>2
<1>7. Guards(r, H)
  <2>1. CASE s.kind \in Deactivation
    BY <2>1, <1>1, <1>2, <1>3, <1>4 DEF Progress, Guards, PassRow, Full, Forward, Deactivation
  <2>2. CASE s.kind \in Full
    BY <2>2, <1>1, <1>2, <1>3, <1>4 DEF Guards, PassRow, Full, Forward, Deactivation
  <2>. QED
    BY <1>2, <2>1, <2>2
<1>8. Local(p, r, {Wants(p)}) /\ Free(p)
  BY DEF TakeAdvisory, m
<1>9. Knows(r, H)
  BY <1>5, <1>6, <1>7, UnwrittenKnows
<1>. QED
  BY <1>4, <1>5, <1>8, <1>9, LockingKeepsInv DEF H

LEMMA LockRowsKeepsInv ==
    ASSUME IInv, NEW p \in Passes, LockRows(p)
    PROVE  IInv'
<1> DEFINE s == pass[p]
           rows == {<<"nku", b>> : b \in {c \in s.on : status[c] # "GONE"}}
           r == [s EXCEPT !.left = s.on,
                   !.at = IF s.kind = "binding" THEN "project"
                          ELSE IF s.obj = "absent" THEN "work" ELSE "mirror"]
           H == held[p] \cup (rows \ {NoLock})
<1>1. /\ s \in PassRow /\ Progress(s) /\ Guards(s, held[p]) /\ s.at = "rows" /\ Open(p)
      /\ Bindings \subseteq Nat /\ Exclusive /\ PassesInv /\ held \in [Passes -> SUBSET Locks]
  BY OpenFacts DEF LockRows, IInv, TypeOK
<1>2. s.kind \in Full /\ Unwritten(s)
  BY <1>1 DEF Progress, PhasesOf, PassRow, Kinds, Full, Forward, Deactivation
<1>3. \A b \in s.on : <<"adv", b>> \in held[p]
  BY <1>1, <1>2 DEF Guards
<1>4. \A l \in rows : \E b \in s.on : l = <<"nku", b>>
  OBVIOUS
<1> HIDE DEF rows
<1>5. rows \ {NoLock} \subseteq Locks
  <2>1. s.on \subseteq Nat
    BY <1>1 DEF PassRow
  <2>. QED
    BY <2>1, <1>4 DEF Locks
<1>6. Granting(p, rows \ {NoLock})
  <2> SUFFICES ASSUME NEW q \in Passes \ {p}, NEW l \in rows, NEW k \in held[q], Clash(l, k)
               PROVE  FALSE
    BY DEF Granting
  <2>1. PICK b \in s.on : l = <<"nku", b>>
    BY <1>4
  <2>2. k = <<"nku", b>> \/ k = <<"upd", b>>
    <3>1. k \in Locks
      BY <1>1
    <3>. QED
      BY <2>1, <3>1 DEF Clash, Locks
  <2>3. Open(q) /\ Guards(pass[q], held[q])
    BY <1>1 DEF PassesInv, Knows
  <2>4. <<"adv", b>> \in held[q]
    BY <1>1, <2>2, <2>3 DEF Guards, PassRow
  <2>. QED
    BY <1>1, <1>3, <2>4, Excludes
<1>7. r \in PassRow /\ Unwritten(r)
  BY <1>1, <1>2 DEF PassRow, Unwritten, Phases
<1>8. Progress(r)
  <2>1. CASE s.kind = "object"
    BY <2>1, <1>1, <1>2, <1>7 DEF Progress, PhasesOf, PassRow, Full, Forward, Deactivation, Unwritten
  <2>2. CASE s.kind = "binding"
    BY <2>2, <1>1, <1>2, <1>7 DEF Progress, PhasesOf, PassRow, Full, Forward, Deactivation, Unwritten
  <2>. QED
    BY <1>2, <2>1, <2>2 DEF Full
<1>9. Guards(r, H)
  <2>1. \A x, b : <<x, b>> \in H => <<x, b>> \in held[p] \/ (x = "nku" /\ b \in s.on)
    BY <1>4
  <2>2. held[p] \subseteq H
    OBVIOUS
  <2> HIDE DEF H
  <2>3. \A b \in Nat : <<"upd", b>> \in H \/ <<"nku", b>> \in H => <<"adv", b>> \in H
    BY <1>1, <1>3, <2>1, <2>2 DEF Guards
  <2>4. <<"mkey", 0>> \in H => mirror # "absent"
    BY <1>1, <2>1 DEF Guards
  <2>. QED
    BY <1>1, <1>2, <1>3, <2>2, <2>3, <2>4 DEF Guards, PassRow, Full, Forward, Deactivation, Mirrors
<1>10. Local(p, r, rows)
  BY DEF LockRows, rows
<1>11. Knows(r, H)
  BY <1>7, <1>8, <1>9, UnwrittenKnows
<1>. QED
  BY <1>1, <1>5, <1>6, <1>7, <1>10, <1>11, LocalKeepsInv

LEMMA ShareRowsKeepsInv ==
    ASSUME IInv, NEW p \in Passes, ShareRows(p)
    PROVE  IInv'
<1> DEFINE s == pass[p]
           b == Min(s.left)
           on == IF status[b] = "ACTIVE" THEN s.on ELSE s.on \ {b}
           r == [s EXCEPT !.left = @ \ {b}, !.on = on,
                   !.at = IF s.left # {b} THEN "share"
                          ELSE IF s.kind # "created" THEN "mirror"
                          ELSE IF on = {} THEN "commit" ELSE "project"]
           ls == IF status[b] = "GONE" THEN {} ELSE {Wants(p)}
           H == held[p] \cup (ls \ {NoLock})
<1>1. /\ s \in PassRow /\ Progress(s) /\ Guards(s, held[p]) /\ s.at = "share" /\ Open(p)
      /\ Bindings \subseteq Nat
  BY OpenFacts DEF ShareRows, Free
<1>2. s.kind \in Forward /\ Unwritten(s)
  BY <1>1 DEF Progress, PhasesOf, PassRow, Kinds, Full, Forward, Deactivation
<1>3. b \in s.left /\ b \in Nat
  <2>1. s.left # {} /\ s.left \in SUBSET Nat
    BY <1>1 DEF Progress, PassRow
  <2>. QED
    BY <2>1, MinIsIn
<1>4. Wants(p) = <<"key", b>> /\ Wants(p) \in Locks /\ Wants(p) # NoLock
  BY <1>1, <1>3 DEF Wants, Locks, NoLock
<1>5. Local(p, r, ls) /\ Free(p)
  BY DEF ShareRows
<1> HIDE DEF b
<1>6. /\ ls \ {NoLock} \subseteq Locks /\ Granting(p, ls \ {NoLock}) /\ held[p] \subseteq H
      /\ status[b] = "ACTIVE" => <<"key", b>> \in H
      /\ \A x, c : <<x, c>> \in H => <<x, c>> \in held[p] \/ x = "key"
  BY <1>4, <1>5, FreeIsUncontested DEF Granting
<1> HIDE DEF ls, H
<1>11. PICK at : at = IF s.left # {b} THEN "share"
                      ELSE IF s.kind # "created" THEN "mirror"
                      ELSE IF on = {} THEN "commit" ELSE "project"
  OBVIOUS
<1>12. r = [s EXCEPT !.left = s.left \ {b}, !.on = on, !.at = at]
  BY <1>11
<1>13. on \subseteq s.on /\ at \in {"share", "mirror", "commit", "project"}
       /\ (at = "share" <=> s.left # {b}) /\ (at \in {"commit", "project"} => s.kind = "created")
  BY <1>11
<1>14. /\ r.kind = s.kind /\ r.at = at /\ r.left = s.left \ {b} /\ r.on = on /\ r.b = s.b /\ r.todo = s.todo
       /\ r.pending = s.pending
  BY <1>1, <1>12 DEF PassRow
<1>7. r \in PassRow /\ Unwritten(r)
  <2>1. s.on \subseteq Bindings /\ s.left \subseteq Bindings
    BY <1>1 DEF PassRow
  <2>2. on \in SUBSET Bindings /\ s.left \ {b} \in SUBSET Bindings /\ at \in Phases
    BY <2>1, <1>13 DEF Phases
  <2> HIDE DEF on, r
  <2>. QED
    BY <2>2, <1>12, <1>1, <1>2 DEF PassRow, Unwritten
<1>8. Progress(r)
  <2>1. r.left # {} \/ r.at # "share"
    BY <1>3, <1>13, <1>14
  <2>2. ~r.pending /\ r.todo = {}
    BY <1>2, <1>14 DEF Unwritten
  <2> HIDE DEF on, r
  <2>. QED
    BY <2>1, <2>2, <1>1, <1>2, <1>13, <1>14, <1>7 DEF Progress, PhasesOf, PassRow, Full, Forward, Deactivation, Unwritten
<1>9. Guards(r, H)
  <2>1. \A c \in r.on : (r.at = "share" /\ c \in r.left) \/ (<<"key", c>> \in H /\ status[c] = "ACTIVE")
    BY <1>1, <1>2, <1>3, <1>6 DEF Guards, PassRow
  <2>2. \A c \in Nat : <<"upd", c>> \in H \/ <<"nku", c>> \in H => <<"adv", c>> \in H
    BY <1>1, <1>6 DEF Guards
  <2>3. <<"mkey", 0>> \in H => mirror # "absent"
    BY <1>1, <1>6 DEF Guards
  <2>. QED
    BY <1>1, <1>2, <2>1, <2>2, <2>3 DEF Guards, PassRow, Full, Forward, Deactivation
<1>10. Knows(r, H)
  BY <1>7, <1>8, <1>9, UnwrittenKnows
<1>. QED
  BY <1>1, <1>5, <1>6, <1>7, <1>10, LocalKeepsInv DEF H

LEMMA DeleteObjectKeepsInv ==
    ASSUME IInv, NEW p \in Passes, DeleteObject(p)
    PROVE  IInv'
<1> DEFINE s == pass[p]
           r == [s EXCEPT !.at = "commit"]
           H == held[p] \cup ({Wants(p)} \ {NoLock})
<1>1. /\ s \in PassRow /\ Progress(s) /\ Guards(s, held[p]) /\ s.at = "mdel" /\ Open(p)
  BY OpenFacts DEF DeleteObject, Free
<1>2. s.kind = "unregister" /\ Unwritten(s)
  BY <1>1 DEF Progress, PhasesOf, PassRow, Kinds, Full, Forward, Deactivation
<1>3. /\ Wants(p) \in Locks \cup {NoLock} /\ held[p] \subseteq H
      /\ \A x, c : <<x, c>> \in H => <<x, c>> \in held[p] \/ x = "mdel"
  BY <1>1 DEF Wants, Locks, NoLock
<1>4. r \in PassRow /\ Unwritten(r)
  BY <1>1, <1>2 DEF PassRow, Unwritten, Phases
<1>5. Progress(r)
  BY <1>1, <1>2, <1>4 DEF Progress, PhasesOf, PassRow, Full, Forward, Deactivation, Unwritten
<1> HIDE DEF H
<1>6. Guards(r, H)
  BY <1>1, <1>2, <1>3 DEF Guards, PassRow, Full, Forward, Deactivation
<1>7. Knows(r, H)
  BY <1>4, <1>5, <1>6, UnwrittenKnows
<1>. QED
  BY <1>3, <1>4, <1>7, LockingKeepsInv DEF DeleteObject, H

LEMMA LockForDeactivationKeepsInv ==
    ASSUME IInv, NEW p \in Passes, LockForDeactivation(p)
    PROVE  IInv'
<1> DEFINE s == pass[p]
           r == [s EXCEPT !.at = "act"]
           H == held[p] \cup ({Wants(p)} \ {NoLock})
<1>1. /\ s \in PassRow /\ Progress(s) /\ Guards(s, held[p]) /\ s.at = "upd" /\ Open(p)
      /\ Bindings \subseteq Nat
  BY OpenFacts DEF LockForDeactivation, Free
<1>2. s.kind \in Deactivation /\ Unwritten(s)
  BY <1>1 DEF Progress, PhasesOf, PassRow, Kinds, Full, Forward, Deactivation
<1>3. /\ s.b \in Nat /\ Wants(p) = <<"upd", s.b>>
  BY <1>1, <1>2 DEF Progress, Wants
<1>4. /\ Wants(p) \in Locks /\ H = held[p] \cup {<<"upd", s.b>>}
  BY <1>3 DEF Locks, NoLock
<1>5. r \in PassRow /\ Unwritten(r)
  BY <1>1, <1>2 DEF PassRow, Unwritten, Phases
<1>6. Progress(r)
  BY <1>1, <1>2, <1>5 DEF Progress, PhasesOf, PassRow, Full, Forward, Deactivation
<1> HIDE DEF H
<1>7. Guards(r, H)
  BY <1>1, <1>2, <1>3, <1>4 DEF Guards, PassRow, Full, Forward, Deactivation
<1>8. Knows(r, H)
  BY <1>5, <1>6, <1>7, UnwrittenKnows
<1>. QED
  BY <1>4, <1>5, <1>8, LockingKeepsInv DEF LockForDeactivation, H

LEMMA AddingOnly ==
    ASSUME NEW r, NEW H, ~Dropping(r)
    PROVE  Drops(r, H)
BY DEF Dropping, Drops

LEMMA DroppingOnly ==
    ASSUME NEW r, NEW H, ~Adding(r)
    PROVE  Adds(r, H)
BY DEF Adding, Adds

\* The writes of one member, with nothing else left to write.
LEMMA AddWritesAdd ==
    ASSUME TypeOK, NEW s \in PassRow, NEW x, NEW H, NEW K, NEW b \in Bindings, OneWay(s), Adds(s, H), H \subseteq K,
           s.todo = {}, s.obj = "match", s.kind \notin Deactivation, Secured(K, b),
           x.todo = AddWrites(s, b), x.madd = s.madd, x.mdrop = s.mdrop, x.ladd = s.ladd, x.ldrop = s.ldrop,
           x.wrote = s.wrote, x.pending = s.pending, x.erased = s.erased, x.ends = s.ends,
           x.obj = s.obj, x.kind = s.kind, x.b = s.b
    PROVE  OneWay(x) /\ Adds(x, K) /\ Drops(x, K)
<1>1. /\ <<"mem", b>> \in x.todo /\ <<"led", b>> \in x.todo /\ (<<"fact", 0>> \in x.todo \/ x.wrote)
      /\ \A op \in x.todo : op = <<"mem", b>> \/ op = <<"led", b>> \/ op = <<"fact", 0>>
  BY DEF AddWrites
<1>2. ~Dropping(s)
  BY DEF OneWay
<1>3. ~Dropping(x)
  BY <1>1, <1>2 DEF Dropping
<1>4. OneWay(x)
  BY <1>3 DEF OneWay, Dropping
<1>5. Adds(x, K)
  <2>1. \A c \in Bindings : <<"led", c>> \in x.todo \/ <<"mem", c>> \in x.todo => c = b
    BY <1>1
  <2>. QED
    BY <1>1, <2>1 DEF Adds, Secured
<1>6. Drops(x, K)
  BY <1>1, <1>3 DEF Drops, Dropping
<1>. QED
  BY <1>4, <1>5, <1>6

LEMMA LockObjectKeepsInv ==
    ASSUME IInv, NEW p \in Passes, LockObject(p)
    PROVE  IInv'
<1> DEFINE s == pass[p]
           r == Found(s, Live)
           ls == IF Live THEN {<<"mkey", 0>>} ELSE {}
           H == held[p] \cup (ls \ {NoLock})
<1>1. /\ s \in PassRow /\ Progress(s) /\ Guards(s, held[p]) /\ s.at = "mirror" /\ Open(p)
      /\ Bindings \subseteq Nat /\ held \in [Passes -> SUBSET Locks] /\ TypeOK
      /\ OneWay(s) /\ Adds(s, held[p]) /\ Drops(s, held[p])
  BY OpenFacts DEF LockObject, IInv, TypeOK
<1>2. s.kind \in Full \cup Forward /\ Unwritten(s)
  BY <1>1 DEF Progress, PhasesOf, PassRow, Kinds, Full, Forward, Deactivation
<1>3. /\ ls \ {NoLock} \subseteq Locks /\ held[p] \subseteq H
      /\ Live => <<"mkey", 0>> \in H /\ mirror # "absent"
      /\ \A x, c : <<x, c>> \in H => <<x, c>> \in held[p] \/ (Live /\ x = "mkey")
  BY DEF Locks, NoLock, Live
<1>4. Granting(p, ls \ {NoLock})
  <2> SUFFICES ASSUME NEW q \in Passes \ {p}, NEW k \in held[q], Live, Clash(<<"mkey", 0>>, k)
               PROVE  FALSE
    BY DEF Granting
  <2>1. k = <<"mdel", 0>>
    <3>1. k \in Locks
      BY <1>1
    <3>. QED
      BY <3>1 DEF Clash, Locks
  <2>. QED
    BY <2>1 DEF Live
<1> HIDE DEF ls, H
<1>5. r \in PassRow /\ Progress(r) /\ Guards(r, H) /\ OneWay(r) /\ Adds(r, H) /\ Drops(r, H)
  <2>1. CASE s.kind = "object"
    <3>1. r = [s EXCEPT !.at = "work", !.obj = IF Live THEN @ ELSE "absent"]
      BY <2>1 DEF Found, Forward
    <3>5. PICK o \in Mirrors : o = IF Live THEN s.obj ELSE "absent"
      BY <1>1 DEF PassRow, Mirrors
    <3>6. r = [s EXCEPT !.at = "work", !.obj = o]
      BY <3>1, <3>5
    <3>2. r \in PassRow /\ Unwritten(r)
      BY <3>6, <1>1, <1>2 DEF PassRow, Unwritten, Phases
    <3>3. Progress(r)
      BY <2>1, <3>1, <3>2, <1>1, <1>2 DEF Progress, PhasesOf, PassRow, Full, Forward, Deactivation, Unwritten
    <3>4. Guards(r, H)
      BY <2>1, <3>1, <1>1, <1>3 DEF Guards, PassRow, Full, Forward, Deactivation
    <3>. QED
      BY <3>2, <3>3, <3>4, UnwrittenIsIdle
  <2>2. CASE s.kind = "binding" /\ ~Live
    <3>1. r = [s EXCEPT !.at = "work", !.left = {}]
      BY <2>2 DEF Found, Forward
    <3>2. r \in PassRow /\ Unwritten(r)
      BY <3>1, <1>1, <1>2 DEF PassRow, Unwritten, Phases
    <3>3. Progress(r)
      BY <2>2, <3>1, <3>2, <1>1, <1>2 DEF Progress, PhasesOf, PassRow, Full, Forward, Deactivation, Unwritten
    <3>4. Guards(r, H)
      BY <2>2, <3>1, <1>1, <1>3 DEF Guards, PassRow, Full, Forward, Deactivation
    <3>. QED
      BY <3>2, <3>3, <3>4, UnwrittenIsIdle
  <2>3. CASE s.kind = "binding" /\ Live
    <3>1. r = [s EXCEPT !.at = "todo", !.todo = AddWrites(s, s.b)]
      BY <2>3 DEF Found, Forward
    <3>2. s.b \in Bindings /\ Secured(H, s.b) /\ s.obj = "match" /\ s.left = {}
      BY <2>3, <1>1, <1>3 DEF Progress, Guards, Secured, Full
    <3>7. AddWrites(s, s.b) \in SUBSET Ops
      BY <3>2 DEF AddWrites, Ops
    <3>3. r \in PassRow
      BY <3>1, <3>7, <1>1 DEF PassRow, Phases
    <3>8. r.kind = s.kind /\ r.at = "todo" /\ r.on = s.on /\ r.obj = s.obj /\ r.b = s.b /\ r.left = s.left
      BY <3>1, <1>1 DEF PassRow
    <3>4. Progress(r)
      BY <2>3, <3>1, <3>2, <1>1 DEF Progress, PhasesOf, PassRow, Full, Forward, Deactivation
    <3>5. Guards(r, H)
      <4> HIDE DEF r
      <4>. QED
        BY <2>3, <3>8, <1>1, <1>3 DEF Guards, PassRow, Full, Forward, Deactivation
    <3>6. OneWay(r) /\ Adds(r, H) /\ Drops(r, H)
      <4>1. s.todo = {} /\ s.kind \notin Deactivation
        BY <2>3, <1>2 DEF Unwritten, Deactivation
      <4>2. /\ r.todo = AddWrites(s, s.b) /\ r.madd = s.madd /\ r.mdrop = s.mdrop /\ r.ladd = s.ladd
            /\ r.ldrop = s.ldrop /\ r.wrote = s.wrote /\ r.pending = s.pending /\ r.erased = s.erased
            /\ r.ends = s.ends /\ r.obj = s.obj /\ r.kind = s.kind /\ r.b = s.b
        BY <3>1, <1>1 DEF PassRow
      <4>. QED
        BY <4>1, <4>2, <3>2, <1>1, <1>3, AddWritesAdd
    <3>. QED
      BY <3>3, <3>4, <3>5, <3>6
  <2>4. CASE s.kind \in Forward /\ ~Live
    <3>1. r = [s EXCEPT !.at = "commit"]
      BY <2>4 DEF Found, Forward
    <3>2. r \in PassRow /\ Unwritten(r)
      BY <3>1, <1>1, <1>2 DEF PassRow, Unwritten, Phases
    <3>3. Progress(r)
      BY <2>4, <3>1, <3>2, <1>1, <1>2 DEF Progress, PhasesOf, PassRow, Full, Forward, Deactivation, Unwritten
    <3>4. Guards(r, H)
      BY <2>4, <3>1, <1>1, <1>3 DEF Guards, PassRow, Full, Forward, Deactivation
    <3>. QED
      BY <3>2, <3>3, <3>4, UnwrittenIsIdle
  <2>5. CASE s.kind \in Forward /\ Live
    <3>1. r = [s EXCEPT !.at = "todo", !.todo = ForwardWrites(s)]
      BY <2>5 DEF Found, Forward
    <3>2. \A b \in s.on : b \in Bindings /\ Secured(H, b)
      BY <2>5, <1>1, <1>3 DEF Guards, Secured, Forward, PassRow
    <3>11. ForwardWrites(s) \in SUBSET Ops
      BY <1>1 DEF ForwardWrites, Ops, PassRow
    <3>3. r \in PassRow
      BY <3>1, <3>11, <1>1 DEF PassRow, Phases
    <3>12. r.kind = s.kind /\ r.at = "todo" /\ r.on = s.on /\ r.obj = s.obj /\ r.b = s.b /\ r.left = s.left
      BY <3>1, <1>1 DEF PassRow
    <3>4. Progress(r)
      BY <2>5, <3>1, <1>1 DEF Progress, PhasesOf, PassRow, Full, Forward, Deactivation
    <3>5. Guards(r, H)
      <4> HIDE DEF r
      <4>. QED
        BY <2>5, <3>12, <1>1, <1>3 DEF Guards, PassRow, Full, Forward, Deactivation
    <3>6. /\ r.madd = {} /\ r.mdrop = {} /\ r.ladd = {} /\ r.ldrop = {} /\ r.kind = s.kind /\ r.obj = s.obj
          /\ ~r.wrote /\ ~r.pending /\ ~r.erased /\ ~r.ends /\ r.todo = ForwardWrites(s)
      BY <3>1, <1>1, <1>2 DEF Unwritten, PassRow
    <3>7. /\ \A op \in r.todo : /\ s.obj = "match"
                                /\ op = <<"fact", 0>> \/ \E b \in s.on : op = <<"mem", b>> \/ op = <<"led", b>>
          /\ r.todo # {} => /\ \A b \in s.on : <<"mem", b>> \in r.todo /\ <<"led", b>> \in r.todo
                            /\ <<"fact", 0>> \in r.todo /\ s.on # {}
      BY <3>6 DEF ForwardWrites
    <3>8. OneWay(r)
      BY <3>6, <3>7 DEF OneWay, Adding, Dropping
    <3>9. Adds(r, H)
      <4>1. \A c \in Bindings : <<"led", c>> \in r.todo \/ <<"mem", c>> \in r.todo => c \in s.on
        BY <3>7
      <4>2. \A c \in s.on : r.todo # {} => <<"led", c>> \in r.todo /\ <<"mem", c>> \in r.todo /\ <<"fact", 0>> \in r.todo
        BY <3>7
      <4>3. <<"fact", 0>> \in r.todo => \E c \in Bindings : <<"led", c>> \in r.todo
        BY <3>2, <3>7
      <4>. QED
        BY <3>2, <3>6, <4>1, <4>2, <4>3 DEF Adds
    <3>10. Drops(r, H)
      BY <3>6, <3>7 DEF Drops
    <3>. QED
      BY <3>3, <3>4, <3>5, <3>8, <3>9, <3>10
  <2>. QED
    BY <1>2, <2>1, <2>2, <2>3, <2>4, <2>5 DEF Full
<1>6. Local(p, r, ls)
  BY DEF LockObject, ls
<1>7. Knows(r, H)
  BY <1>5 DEF Knows
<1> HIDE DEF r
<1>. QED
  BY <1>1, <1>3, <1>4, <1>5, <1>6, <1>7, LocalKeepsInv DEF H

-----------------------------------------------------------------------------
(* Writing. *)

\* The deletes of one binding, with nothing else left to write.
LEMMA DropWritesDrop ==
    ASSUME NEW x, NEW H, NEW b \in Bindings,
           x.todo = DropWrites(b), x.madd = {}, x.ladd = {}, ~x.wrote,
           x.obj # "match", x.kind \notin Forward, x.ends => x.kind \in Deactivation, Losing(x, H, b),
           \A c \in Bindings :
             /\ c \in x.ldrop => Losing(x, H, c) /\ <<"led", c>> \in H /\ ledger[c] /\ (c \in x.mdrop \/ x.ends)
             /\ c \in x.mdrop => Losing(x, H, c) /\ <<"mem", c>> \in H /\ member[c] /\ (c \in x.ldrop \/ x.ends)
    PROVE  OneWay(x) /\ Adds(x, H) /\ Drops(x, H)
<1>1. /\ <<"forget", b>> \in x.todo /\ <<"unmem", b>> \in x.todo
      /\ \A op \in x.todo : op = <<"forget", b>> \/ op = <<"unmem", b>>
  BY DEF DropWrites
<1>2. ~Adding(x)
  BY <1>1 DEF Adding
<1>3. OneWay(x)
  BY <1>2 DEF OneWay
<1>4. Drops(x, H)
  <2>1. \A c \in Bindings : <<"forget", c>> \in x.todo \/ <<"unmem", c>> \in x.todo => c = b
    BY <1>1
  <2>. QED
    BY <1>1, <2>1 DEF Drops
<1>. QED
  BY <1>2, <1>3, <1>4, DroppingOnly

LEMMA CompareKeepsInv ==
    ASSUME IInv, NEW p \in Passes, Compare(p)
    PROVE  IInv'
<1> DEFINE s == pass[p]
           H == held[p]
           b == Min(s.left)
           done == [s EXCEPT !.left = s.left \ {b}]
<1>1. /\ s \in PassRow /\ Progress(s) /\ Guards(s, H) /\ s.at = "work" /\ s.left # {} /\ Open(p)
      /\ Bindings \subseteq Nat /\ TypeOK
      /\ OneWay(s) /\ Adds(s, H) /\ Drops(s, H)
      /\ member \in [Bindings -> BOOLEAN]
  BY OpenFacts DEF Compare, IInv
<1>2. s.kind \in Full /\ s.todo = {}
  BY <1>1 DEF Progress, PhasesOf, PassRow, Kinds, Full, Forward, Deactivation
<1>3. b \in s.left /\ b \in Bindings /\ b \in s.on
  <2>1. s.left \in SUBSET Nat
    BY <1>1 DEF PassRow
  <2>2. b \in s.left
    BY <1>1, <2>1, MinIsIn
  <2>. QED
    BY <1>1, <1>2, <2>2 DEF PassRow, Progress, Full
<1>4. Local(p, IF status[b] # "ACTIVE" \/ (s.obj = "match") = member[b] THEN done
               ELSE IF ~(s.obj = "match") THEN [done EXCEPT !.at = "todo", !.todo = DropWrites(b)]
               ELSE IF s.kind = "binding" THEN [done EXCEPT !.at = "mirror"]
               ELSE [done EXCEPT !.at = "todo", !.todo = AddWrites(s, b)], {})
  BY DEF Compare
<1> HIDE DEF b
<1>5. done \in PassRow /\ done.left = s.left \ {b} /\ SameWrites(s, done) /\ done.obj = s.obj
      /\ done.on = s.on /\ done.at = s.at
  BY <1>1 DEF PassRow, SameWrites
<1>6. s.kind = "binding" => done.left = {} /\ Unwritten(s) /\ Unwritten(done) /\ b = s.b
  BY <1>1, <1>3, <1>5 DEF Progress, Unwritten, SameWrites
<1> HIDE DEF done
<1>7. <<"adv", b>> \in H /\ ~s.ends /\ s.kind \notin Deactivation
  BY <1>1, <1>2, <1>3 DEF Guards, OneWay, Full, Deactivation
<1>8. CASE Local(p, done, {})
  <2>1. Progress(done)
    BY <1>1, <1>2, <1>5, <1>6 DEF Progress, SameWrites, PhasesOf, Full, Forward, Deactivation
  <2>2. Guards(done, H)
    BY <1>1, <1>2, <1>5 DEF Guards, SameWrites, Full, Forward, Deactivation
  <2>3. Knows(done, H)
    BY <2>1, <2>2, <1>1, <1>5, SameWritesKeep DEF Knows
  <2>. QED
    BY <1>1, <1>5, <1>8, <2>3, QuietKeepsInv
<1>9. CASE Local(p, [done EXCEPT !.at = "todo", !.todo = DropWrites(b)], {})
           /\ status[b] = "ACTIVE" /\ member[b] /\ s.obj # "match"
  <2> DEFINE r == [done EXCEPT !.at = "todo", !.todo = DropWrites(b)]
  <2>1. DropWrites(b) \in SUBSET Ops
    BY <1>3 DEF DropWrites, Ops
  <2>2. /\ r \in PassRow /\ r.at = "todo" /\ r.todo = DropWrites(b) /\ r.on = s.on /\ r.left = done.left
        /\ r.kind = s.kind /\ r.b = s.b /\ r.obj = s.obj /\ r.madd = s.madd /\ r.mdrop = s.mdrop
        /\ r.ladd = s.ladd /\ r.ldrop = s.ldrop /\ r.wrote = s.wrote /\ r.ends = s.ends
    BY <1>5, <2>1 DEF PassRow, Phases, SameWrites
  <2> HIDE DEF r
  <2>3. Progress(r)
    BY <1>1, <1>2, <1>5, <1>6, <2>2 DEF Progress, PhasesOf, Full, Forward, Deactivation
  <2>4. Guards(r, H)
    BY <1>1, <1>2, <2>2 DEF Guards, Full, Forward, Deactivation
  <2>5. r.madd = {} /\ r.ladd = {} /\ ~r.wrote /\ r.kind \notin Forward
    BY <1>1, <1>2, <1>9, <2>2 DEF OneWay, Adding, Full, Forward
  <2>6. \A c : Losing(r, H, c) <=> Losing(s, H, c)
    BY <2>2 DEF Losing
  <2>7. Losing(r, H, b)
    BY <1>7, <1>9, <2>2 DEF Losing
  <2>8. \A c \in Bindings :
          /\ c \in r.ldrop => Losing(r, H, c) /\ <<"led", c>> \in H /\ ledger[c] /\ (c \in r.mdrop \/ r.ends)
          /\ c \in r.mdrop => Losing(r, H, c) /\ <<"mem", c>> \in H /\ member[c] /\ (c \in r.ldrop \/ r.ends)
    BY <1>1, <1>2, <2>2, <2>6 DEF Drops
  <2>9. OneWay(r) /\ Adds(r, H) /\ Drops(r, H)
    BY <1>3, <1>7, <1>9, <2>2, <2>5, <2>7, <2>8, DropWritesDrop
  <2>. QED
    BY <1>1, <1>9, <2>2, <2>3, <2>4, <2>9, QuietKeepsInv DEF Knows, r
<1>10. CASE Local(p, [done EXCEPT !.at = "mirror"], {})
            /\ status[b] = "ACTIVE" /\ s.obj = "match" /\ s.kind = "binding"
  <2> DEFINE r == [done EXCEPT !.at = "mirror"]
  <2>1. /\ r \in PassRow /\ r.at = "mirror" /\ Unwritten(r) /\ r.on = s.on /\ r.left = done.left
        /\ r.kind = s.kind /\ r.b = s.b /\ r.obj = s.obj
    BY <1>5, <1>6, <1>10 DEF PassRow, Phases, SameWrites, Unwritten
  <2> HIDE DEF r
  <2>2. Progress(r)
    BY <1>1, <1>5, <1>6, <1>10, <2>1 DEF Progress, PhasesOf, Full, Forward, Deactivation, Unwritten
  <2>3. Guards(r, H)
    BY <1>1, <1>2, <1>6, <1>10, <2>1 DEF Guards, Full, Forward, Deactivation
  <2>. QED
    BY <1>1, <1>10, <2>1, <2>2, <2>3, UnwrittenKnows, QuietKeepsInv DEF r
<1>11. CASE Local(p, [done EXCEPT !.at = "todo", !.todo = AddWrites(s, b)], {})
            /\ status[b] = "ACTIVE" /\ s.obj = "match" /\ s.kind # "binding"
  <2> DEFINE r == [done EXCEPT !.at = "todo", !.todo = AddWrites(s, b)]
  <2>1. AddWrites(s, b) \in SUBSET Ops
    BY <1>3 DEF AddWrites, Ops
  <2>2. /\ r \in PassRow /\ r.at = "todo" /\ r.todo = AddWrites(s, b) /\ r.on = s.on /\ r.left = done.left
        /\ r.kind = s.kind /\ r.b = s.b /\ r.obj = s.obj /\ r.madd = s.madd /\ r.mdrop = s.mdrop
        /\ r.ladd = s.ladd /\ r.ldrop = s.ldrop /\ r.wrote = s.wrote /\ r.ends = s.ends
        /\ r.pending = s.pending /\ r.erased = s.erased
    BY <1>5, <2>1 DEF PassRow, Phases, SameWrites
  <2> HIDE DEF r
  <2>3. Progress(r)
    BY <1>1, <1>2, <1>5, <1>11, <2>2 DEF Progress, PhasesOf, Full, Forward, Deactivation
  <2>4. Guards(r, H)
    BY <1>1, <1>2, <2>2 DEF Guards, Full, Forward, Deactivation
  <2>5. Secured(H, b)
    BY <1>1, <1>2, <1>7, <1>11 DEF Secured, Guards, Full
  <2>6. OneWay(r) /\ Adds(r, H) /\ Drops(r, H)
    BY <1>1, <1>2, <1>3, <1>7, <1>11, <2>2, <2>5, AddWritesAdd
  <2>. QED
    BY <1>1, <1>11, <2>2, <2>3, <2>4, <2>6, QuietKeepsInv DEF Knows, r
<1>. QED
  BY <1>1, <1>3, <1>4, <1>8, <1>9, <1>10, <1>11

LEMMA WrittenKeepsInv ==
    ASSUME IInv, NEW p \in Passes, Written(p)
    PROVE  IInv'
<1> DEFINE s == pass[p]
           H == held[p]
           r == [s EXCEPT !.at = IF s.kind \in Forward THEN "commit" ELSE "work"]
<1>1. /\ s \in PassRow /\ Progress(s) /\ Guards(s, H) /\ s.at = "todo" /\ s.todo = {} /\ Open(p)
      /\ OneWay(s) /\ Adds(s, H) /\ Drops(s, H) /\ Local(p, r, {})
  BY OpenFacts DEF Written
<1>2. s.kind \in Full \cup Forward \cup Deactivation
  BY <1>1 DEF Progress, PhasesOf, PassRow, Kinds, Full, Forward, Deactivation
<1>3. /\ r \in PassRow /\ SameWrites(s, r) /\ r.obj = s.obj /\ r.on = s.on /\ r.left = s.left
      /\ s.kind \in Forward => r.at = "commit"
      /\ s.kind \notin Forward => r.at = "work"
  <2>1. CASE s.kind \in Forward
    BY <2>1, <1>1 DEF PassRow, SameWrites, Phases
  <2>2. CASE s.kind \notin Forward
    BY <2>2, <1>1 DEF PassRow, SameWrites, Phases
  <2>. QED
    BY <2>1, <2>2
<1> HIDE DEF r
<1>4. Progress(r)
  <2>1. r.at = "commit" => ~r.pending
    BY <1>1, <1>2, <1>3 DEF OneWay, Dropping, SameWrites
  <2>2. Unwritten(s) => Unwritten(r)
    BY <1>3 DEF SameWrites, Unwritten
  <2>. QED
    BY <1>1, <1>2, <1>3, <2>1, <2>2 DEF Progress, PhasesOf, SameWrites, Full, Forward, Deactivation
<1>5. Guards(r, H)
  BY <1>1, <1>2, <1>3 DEF Guards, SameWrites, Full, Forward, Deactivation
<1>6. Knows(r, H)
  BY <1>1, <1>3, <1>4, <1>5, SameWritesKeep DEF Knows
<1>. QED
  BY <1>1, <1>3, <1>6, QuietKeepsInv

LEMMA FlushKeepsInv ==
    ASSUME IInv, NEW p \in Passes, Flush(p)
    PROVE  IInv'
<1> DEFINE s == pass[p]
           H == held[p]
           stamps == {<<"erase", 0>>} \cup IF SlowFold THEN {<<"stamp", 0>>} ELSE {}
<1>1. /\ s \in PassRow /\ Progress(s) /\ Guards(s, H) /\ s.at = "work" /\ s.left = {} /\ Open(p)
      /\ OneWay(s) /\ Adds(s, H) /\ Drops(s, H)
      /\ Local(p, IF s.pending /\ ~s.wrote
                  THEN [s EXCEPT !.at = "todo", !.pending = FALSE, !.todo = stamps]
                  ELSE [s EXCEPT !.at = "commit"], {})
  BY OpenFacts DEF Flush
<1>2. s.kind \in Full \cup Deactivation /\ s.todo = {}
  BY <1>1 DEF Progress, PhasesOf, PassRow, Kinds, Full, Forward, Deactivation
<1>3. CASE s.pending /\ ~s.wrote
  <2> DEFINE r == [s EXCEPT !.at = "todo", !.pending = FALSE, !.todo = stamps]
  <2>1. stamps \in SUBSET Ops /\ \A op \in stamps : op \in {<<"erase", 0>>, <<"stamp", 0>>}
    BY DEF Ops
  <2> HIDE DEF stamps
  <2>2. /\ r \in PassRow /\ r.at = "todo" /\ r.todo = stamps /\ r.on = s.on /\ r.left = s.left
        /\ r.kind = s.kind /\ r.b = s.b /\ r.obj = s.obj /\ r.madd = s.madd /\ r.mdrop = s.mdrop
        /\ r.ladd = s.ladd /\ r.ldrop = s.ldrop /\ r.wrote = s.wrote /\ r.ends = s.ends
        /\ r.erased = s.erased /\ r.ev = s.ev
    BY <1>1, <2>1 DEF PassRow, Phases
  <2> HIDE DEF r
  <2>3. Progress(r)
    BY <1>1, <1>2, <2>2 DEF Progress, PhasesOf, Full, Forward, Deactivation
  <2>4. Guards(r, H)
    BY <1>1, <1>2, <2>2 DEF Guards, Full, Forward, Deactivation
  <2>5. s.obj # "match" /\ s.kind \notin Forward
    BY <1>1, <1>3 DEF OneWay, Dropping
  <2>6. ~Adding(s)
    BY <1>1, <2>5 DEF OneWay
  <2>7. ~Adding(r)
    BY <2>1, <2>2, <2>6 DEF Adding
  <2>8. OneWay(r)
    BY <1>1, <2>2, <2>5, <2>7 DEF OneWay
  <2>9. Drops(r, H)
    <3>1. \A c : <<"forget", c>> \notin r.todo /\ <<"unmem", c>> \notin r.todo
      BY <2>1, <2>2
    <3>2. \A c : Losing(r, H, c) <=> Losing(s, H, c)
      BY <2>2 DEF Losing
    <3>. QED
      BY <1>1, <1>2, <2>2, <3>1, <3>2 DEF Drops
  <2>. QED
    BY <1>1, <1>3, <2>2, <2>3, <2>4, <2>7, <2>8, <2>9, DroppingOnly, QuietKeepsInv DEF Knows, r
<1>4. CASE ~(s.pending /\ ~s.wrote)
  <2> DEFINE r == [s EXCEPT !.at = "commit"]
  <2>1. r \in PassRow /\ SameWrites(s, r) /\ r.obj = s.obj /\ r.on = s.on /\ r.left = s.left /\ r.at = "commit"
    BY <1>1 DEF PassRow, SameWrites, Phases
  <2> HIDE DEF r
  <2>2. ~s.pending
    BY <1>1, <1>4 DEF OneWay, Adding, Dropping
  <2>3. Progress(r)
    <3>1. Unwritten(s) => Unwritten(r)
      BY <2>1 DEF SameWrites, Unwritten
    <3>. QED
      BY <1>1, <1>2, <2>1, <2>2, <3>1 DEF Progress, PhasesOf, SameWrites, Full, Forward, Deactivation
  <2>4. Guards(r, H)
    BY <1>1, <1>2, <2>1 DEF Guards, SameWrites, Full, Forward, Deactivation
  <2>5. Knows(r, H)
    BY <1>1, <2>1, <2>3, <2>4, SameWritesKeep DEF Knows
  <2>. QED
    BY <1>1, <1>4, <2>1, <2>5, QuietKeepsInv DEF r
<1>. QED
  BY <1>3, <1>4

LEMMA ActKeepsInv ==
    ASSUME IInv, NEW p \in Passes, Act(p)
    PROVE  IInv'
<1> DEFINE s == pass[p]
           H == held[p]
<1>1. /\ s \in PassRow /\ Progress(s) /\ Guards(s, H) /\ s.at = "act" /\ Open(p)
      /\ ledger \in [Bindings -> BOOLEAN]
  BY OpenFacts DEF Act
<1>2. s.kind \in Deactivation /\ Unwritten(s) /\ s.b \in Bindings /\ s.obj = "absent" /\ s.left = {}
  BY <1>1 DEF Progress, PhasesOf, PassRow, Kinds, Full, Forward, Deactivation
<1>3. <<"adv", s.b>> \in H
  BY <1>1, <1>2 DEF Guards
<1>4. \/ Local(p, [s EXCEPT !.at = "todo", !.ends = TRUE, !.todo = DropWrites(s.b)], {})
      \/ Local(p, [s EXCEPT !.at = "work", !.ends = TRUE, !.pending = ledger[s.b]], {})
      \/ Local(p, [s EXCEPT !.at = "commit"], {})
  <2>1. CASE s.kind = "delete" /\ status[s.b] # "GONE"
    BY <2>1 DEF Act, Deletes
  <2>2. CASE s.kind = "expire" /\ status[s.b] = "ACTIVE"
    BY <2>2 DEF Act, Expires
  <2>3. CASE s.kind = "revoke" /\ status[s.b] = "ACTIVE"
    BY <2>3 DEF Act, Revokes
  <2>4. CASE /\ ~(s.kind = "delete" /\ status[s.b] # "GONE")
             /\ ~(s.kind = "expire" /\ status[s.b] = "ACTIVE")
             /\ ~(s.kind = "revoke" /\ status[s.b] = "ACTIVE")
    BY <2>4 DEF Act
  <2>. QED
    BY <2>1, <2>2, <2>3, <2>4
<1>5. CASE Local(p, [s EXCEPT !.at = "todo", !.ends = TRUE, !.todo = DropWrites(s.b)], {})
  <2> DEFINE r == [s EXCEPT !.at = "todo", !.ends = TRUE, !.todo = DropWrites(s.b)]
  <2>1. DropWrites(s.b) \in SUBSET Ops
    BY <1>2 DEF DropWrites, Ops
  <2>2. /\ r \in PassRow /\ r.at = "todo" /\ r.todo = DropWrites(s.b) /\ r.on = s.on /\ r.left = s.left
        /\ r.kind = s.kind /\ r.b = s.b /\ r.obj = s.obj /\ r.madd = {} /\ r.mdrop = {}
        /\ r.ladd = {} /\ r.ldrop = {} /\ ~r.wrote /\ r.ends = TRUE
    BY <1>1, <1>2, <2>1 DEF PassRow, Phases, Unwritten
  <2> HIDE DEF r
  <2>3. Progress(r)
    BY <1>1, <1>2, <2>2 DEF Progress, PhasesOf, Full, Forward, Deactivation
  <2>4. Guards(r, H)
    BY <1>1, <1>2, <2>2 DEF Guards, Full, Forward, Deactivation
  <2>5. Losing(r, H, s.b)
    BY <1>3, <2>2 DEF Losing
  <2>6. r.kind \notin Forward /\ r.obj # "match" /\ r.kind \in Deactivation
    BY <1>2, <2>2 DEF Forward, Deactivation
  <2>7. OneWay(r) /\ Adds(r, H) /\ Drops(r, H)
    BY <1>2, <2>2, <2>5, <2>6, DropWritesDrop
  <2>. QED
    BY <1>1, <1>5, <2>2, <2>3, <2>4, <2>7, QuietKeepsInv DEF Knows, r
<1>6. CASE Local(p, [s EXCEPT !.at = "work", !.ends = TRUE, !.pending = ledger[s.b]], {})
  <2> DEFINE r == [s EXCEPT !.at = "work", !.ends = TRUE, !.pending = ledger[s.b]]
  <2>1. /\ r \in PassRow /\ r.at = "work" /\ r.todo = {} /\ r.on = s.on /\ r.left = s.left
        /\ r.kind = s.kind /\ r.b = s.b /\ r.obj = s.obj /\ r.madd = {} /\ r.mdrop = {}
        /\ r.ladd = {} /\ r.ldrop = {} /\ ~r.wrote /\ r.ends = TRUE
    BY <1>1, <1>2 DEF PassRow, Phases, Unwritten
  <2> HIDE DEF r
  <2>2. Progress(r)
    BY <1>1, <1>2, <2>1 DEF Progress, PhasesOf, Full, Forward, Deactivation
  <2>3. Guards(r, H)
    BY <1>1, <1>2, <2>1 DEF Guards, Full, Forward, Deactivation
  <2>4. OneWay(r) /\ Adds(r, H) /\ Drops(r, H)
    BY <1>2, <2>1 DEF OneWay, Adding, Adds, Drops, Forward, Deactivation
  <2>. QED
    BY <1>1, <1>6, <2>1, <2>2, <2>3, <2>4, QuietKeepsInv DEF Knows, r
<1>7. CASE Local(p, [s EXCEPT !.at = "commit"], {})
  <2> DEFINE r == [s EXCEPT !.at = "commit"]
  <2>1. /\ r \in PassRow /\ r.at = "commit" /\ r.todo = {} /\ r.on = s.on /\ r.left = s.left /\ ~r.pending
        /\ r.kind = s.kind /\ r.b = s.b /\ r.obj = s.obj /\ Unwritten(r)
    BY <1>1, <1>2 DEF PassRow, Phases, Unwritten
  <2> HIDE DEF r
  <2>2. Progress(r)
    BY <1>1, <1>2, <2>1 DEF Progress, PhasesOf, Full, Forward, Deactivation
  <2>3. Guards(r, H)
    BY <1>1, <1>2, <2>1 DEF Guards, Full, Forward, Deactivation
  <2>. QED
    BY <1>1, <1>7, <2>1, <2>2, <2>3, UnwrittenKnows, QuietKeepsInv DEF r
<1>. QED
  BY <1>4, <1>5, <1>6, <1>7

\* The record a statement of the writes leaves, and the lock it takes.
AfterWrite(s, op, x) ==
  LET b == op[2] IN
    /\ x.todo = s.todo \ {op}
    /\ x.kind = s.kind /\ x.at = s.at /\ x.b = s.b /\ x.ev = s.ev /\ x.obj = s.obj /\ x.on = s.on
    /\ x.left = s.left /\ x.ends = s.ends
    /\ x.madd = s.madd \cup IF op[1] = "mem" THEN {b} ELSE {}
    /\ x.wrote = (s.wrote \/ op[1] = "fact")
    /\ x.ladd = s.ladd \cup IF op[1] = "led" /\ ~ledger[b] THEN {b} ELSE {}
    /\ x.ldrop = s.ldrop \cup IF op[1] = "forget" /\ ledger[b] THEN {b} ELSE {}
    /\ x.pending = (s.pending \/ (op[1] = "forget" /\ ledger[b]))
    /\ x.mdrop = s.mdrop \cup IF op[1] = "unmem" /\ member[b] THEN {b} ELSE {}

WriteLocks(op) ==
  CASE op[1] = "mem" -> {op}
    [] op[1] = "led" -> IF ledger[op[2]] THEN {} ELSE {op}
    [] op[1] = "unmem" -> IF member[op[2]] THEN {<<"mem", op[2]>>} ELSE {}
    [] op[1] = "forget" -> IF ledger[op[2]] THEN {<<"led", op[2]>>} ELSE {}
    [] op[1] = "fact" -> {<<"fact", 0>>}
    [] op[1] = "stamp" -> {}
    [] op[1] = "erase" -> IF fact THEN {<<"fact", 0>>} ELSE {}

LEMMA WriteIs ==
    ASSUME IInv, NEW p \in Passes, Write(p)
    PROVE  \E op \in pass[p].todo, x \in PassRow :
             /\ op = FirstOf(pass[p].todo)
             /\ AfterWrite(pass[p], op, x)
             /\ x.erased = (IF op[1] = "erase" THEN Erases(p) ELSE pass[p].erased)
             /\ Moves(p, x, held[p] \cup WriteLocks(op))
             /\ WriteLocks(op) \subseteq Locks /\ Granting(p, WriteLocks(op))
<1> DEFINE s == pass[p]
           op == FirstOf(s.todo)
           b == op[2]
           rest == [s EXCEPT !.todo = s.todo \ {op}]
           after == CASE op[1] = "mem" -> [rest EXCEPT !.madd = @ \cup {b}]
                      [] op[1] = "fact" -> [rest EXCEPT !.wrote = TRUE]
                      [] op[1] = "led" -> IF ledger[b] THEN rest ELSE [rest EXCEPT !.ladd = @ \cup {b}]
                      [] op[1] = "forget" -> IF ledger[b] THEN [rest EXCEPT !.ldrop = @ \cup {b}, !.pending = TRUE]
                                                          ELSE rest
                      [] op[1] = "unmem" -> IF member[b] THEN [rest EXCEPT !.mdrop = @ \cup {b}] ELSE rest
                      [] op[1] = "stamp" -> rest
                      [] op[1] = "erase" -> [rest EXCEPT !.erased = Erases(p)]
           ls == IF op[1] = "led" /\ ledger[b] THEN {} ELSE {Wants(p)}
<1>1. /\ s \in PassRow /\ s.at = "todo" /\ s.todo # {} /\ Free(p) /\ Bindings \subseteq Nat
      /\ held \in [Passes -> SUBSET Locks] /\ member \in [Bindings -> BOOLEAN]
      /\ ledger \in [Bindings -> BOOLEAN] /\ fact \in BOOLEAN
      /\ changes \in Nat /\ aborts \in Nat /\ events \subseteq 1..changes
  BY OpenFacts DEF Write, Free, IInv, TypeOK
<1>2. Becomes(p, after) /\ Takes(p, ls)
      /\ UNCHANGED <<scene, mirror, status, member, ledger, fact, events, changes, aborts>>
  BY DEF Write
<1>3. op \in s.todo /\ op \in Ops
  BY <1>1, FirstIsIn DEF PassRow
<1>4. Erases(p) \in BOOLEAN
  BY <1>1 DEF Erases
<1>5. Wants(p) = WantedRow(p)
  BY <1>1 DEF Wants
<1> HIDE DEF op
<1>6. rest \in PassRow /\ rest.todo = s.todo \ {op}
      /\ rest.kind = s.kind /\ rest.at = s.at /\ rest.b = s.b /\ rest.ev = s.ev /\ rest.obj = s.obj /\ rest.on = s.on
      /\ rest.left = s.left /\ rest.madd = s.madd /\ rest.mdrop = s.mdrop /\ rest.ladd = s.ladd
      /\ rest.ldrop = s.ldrop /\ rest.wrote = s.wrote /\ rest.pending = s.pending /\ rest.erased = s.erased
      /\ rest.ends = s.ends
  BY <1>1 DEF PassRow
<1> HIDE DEF rest
<1>7. \/ op[1] \in {"mem", "led", "forget", "unmem"} /\ b \in Bindings
      \/ op[1] \in {"fact", "stamp", "erase"} /\ b = 0
  BY <1>3 DEF Ops
<1>8. op = <<op[1], b>>
  BY <1>3 DEF Ops
<1>9. /\ after \in PassRow /\ AfterWrite(s, op, after)
      /\ after.erased = (IF op[1] = "erase" THEN Erases(p) ELSE s.erased)
  <2>1. CASE op[1] = "mem"
    BY <2>1, <1>6, <1>7 DEF PassRow, AfterWrite
  <2>2. CASE op[1] = "fact"
    BY <2>2, <1>6 DEF PassRow, AfterWrite
  <2>3. CASE op[1] = "led"
    <3>1. CASE ledger[b]
      BY <2>3, <3>1, <1>6, <1>7 DEF AfterWrite, PassRow
    <3>2. CASE ~ledger[b]
      BY <2>3, <3>2, <1>6, <1>7 DEF PassRow, AfterWrite
    <3>. QED
      BY <3>1, <3>2
  <2>4. CASE op[1] = "forget"
    <3>1. CASE ledger[b]
      BY <2>4, <3>1, <1>6, <1>7 DEF PassRow, AfterWrite
    <3>2. CASE ~ledger[b]
      BY <2>4, <3>2, <1>6, <1>7 DEF AfterWrite, PassRow
    <3>. QED
      BY <3>1, <3>2
  <2>5. CASE op[1] = "unmem"
    <3>1. CASE member[b]
      BY <2>5, <3>1, <1>6, <1>7 DEF PassRow, AfterWrite
    <3>2. CASE ~member[b]
      BY <2>5, <3>2, <1>6, <1>7 DEF AfterWrite, PassRow
    <3>. QED
      BY <3>1, <3>2
  <2>6. CASE op[1] = "stamp"
    BY <2>6, <1>6 DEF PassRow, AfterWrite
  <2>7. CASE op[1] = "erase"
    BY <2>7, <1>4, <1>6 DEF PassRow, AfterWrite
  <2>. QED
    BY <1>7, <2>1, <2>2, <2>3, <2>4, <2>5, <2>6, <2>7
<1>10. ls \ {NoLock} = WriteLocks(op) /\ WriteLocks(op) \subseteq Locks
  <2>1. WantedRow(p) = CASE op[1] \in {"mem", "led"} -> op
                         [] op[1] = "unmem" /\ member[b] -> <<"mem", b>>
                         [] op[1] = "forget" /\ ledger[b] -> <<"led", b>>
                         [] op[1] = "fact" -> <<"fact", 0>>
                         [] op[1] = "erase" /\ fact -> <<"fact", 0>>
                         [] OTHER -> NoLock
    BY DEF WantedRow, op
  <2>2. CASE op[1] = "mem"
    BY <2>1, <2>2, <1>1, <1>5, <1>7, <1>8 DEF WriteLocks, NoLock, Locks
  <2>3. CASE op[1] = "led"
    BY <2>1, <2>3, <1>1, <1>5, <1>7, <1>8 DEF WriteLocks, NoLock, Locks
  <2>4. CASE op[1] = "unmem"
    BY <2>1, <2>4, <1>1, <1>5, <1>7 DEF WriteLocks, NoLock, Locks
  <2>5. CASE op[1] = "forget"
    BY <2>1, <2>5, <1>1, <1>5, <1>7 DEF WriteLocks, NoLock, Locks
  <2>6. CASE op[1] = "fact"
    BY <2>1, <2>6, <1>5 DEF WriteLocks, NoLock, Locks
  <2>7. CASE op[1] = "stamp"
    BY <2>1, <2>7, <1>5 DEF WriteLocks, NoLock, Locks
  <2>8. CASE op[1] = "erase"
    BY <2>1, <2>8, <1>5 DEF WriteLocks, NoLock, Locks
  <2>. QED
    BY <1>7, <2>2, <2>3, <2>4, <2>5, <2>6, <2>7, <2>8
<1>11. Granting(p, WriteLocks(op))
  <2>1. Granting(p, {Wants(p)} \ {NoLock})
    BY <1>1, FreeIsUncontested DEF Granting
  <2>. QED
    BY <2>1, <1>10 DEF Granting
<1> HIDE DEF after, ls
<1>12. Moves(p, after, held[p] \cup WriteLocks(op))
  <2>1. held' = [held EXCEPT ![p] = held[p] \cup WriteLocks(op)]
    BY <1>2, <1>10 DEF Takes
  <2>2. pass' = [pass EXCEPT ![p] = after]
    BY <1>2 DEF Becomes
  <2>. QED
    BY <1>1, <1>2, <2>1, <2>2 DEF Moves
<1>. QED
  BY <1>3, <1>9, <1>10, <1>11, <1>12 DEF op

\* What a statement adds or drops keeps the rows of the transaction consistent.
LEMMA WriteKnows ==
    ASSUME IInv, NEW p \in Passes, Open(p), pass[p].at = "todo",
           NEW op \in pass[p].todo, op = FirstOf(pass[p].todo), NEW x \in PassRow,
           AfterWrite(pass[p], op, x), op[1] # "erase" => x.erased = pass[p].erased
    PROVE  Knows(x, held[p] \cup WriteLocks(op))
<1> DEFINE H0 == held[p]
           H == H0 \cup WriteLocks(op)
<1> PICK b : b = op[2]
  OBVIOUS
<1> PICK s \in PassRow : s = pass[p]
  BY OpenFacts
<1>1. /\ Progress(s) /\ Guards(s, H0) /\ s.at = "todo"
      /\ OneWay(s) /\ Adds(s, H0) /\ Drops(s, H0)
      /\ member \in [Bindings -> BOOLEAN] /\ ledger \in [Bindings -> BOOLEAN] /\ MembersAreLedgered
  BY OpenFacts DEF IInv
<1>2. op \in s.todo /\ op \in Ops /\ s.todo \subseteq Ops /\ \A o \in s.todo : Stage(op) <= Stage(o)
  BY FirstIsIn DEF PassRow
<1>3. /\ \/ op[1] \in {"mem", "led", "forget", "unmem"} /\ b \in Bindings
         \/ op[1] \in {"fact", "stamp", "erase"} /\ b = 0
      /\ op = <<op[1], b>>
  BY <1>2 DEF Ops
<1>4. AfterWrite(s, op, x) /\ (op[1] # "erase" => x.erased = s.erased)
  OBVIOUS
<1>5. /\ x.kind = s.kind /\ x.at = "todo" /\ x.b = s.b /\ x.ev = s.ev /\ x.obj = s.obj /\ x.on = s.on
      /\ x.left = s.left /\ x.ends = s.ends /\ x.todo = s.todo \ {op}
  BY <1>1, <1>4 DEF AfterWrite
<1>6. H0 \subseteq H /\ \A y, c : <<y, c>> \in H => <<y, c>> \in H0 \/ y \in {"mem", "led", "fact"}
  <2>1. \A l \in WriteLocks(op) : l[1] \in {"mem", "led", "fact"}
    BY <1>3 DEF WriteLocks
  <2>. QED
    BY <2>1
<1>7. Progress(x)
  <2>1. s.kind = "binding" => x.left = {}
    BY <1>1, <1>2, <1>5 DEF Progress, Unwritten
  <2>. QED
    BY <1>1, <1>5, <2>1 DEF Progress
<1>8. Guards(x, H)
  <2> HIDE DEF H
  <2>1. \A c \in Nat : <<"upd", c>> \in H \/ <<"nku", c>> \in H => <<"adv", c>> \in H
    BY <1>1, <1>6 DEF Guards
  <2>2. <<"mkey", 0>> \in H => mirror # "absent"
    BY <1>1, <1>6 DEF Guards
  <2>. QED
    BY <1>1, <1>5, <1>6, <2>1, <2>2 DEF Guards
<1>9. CASE op[1] \in {"mem", "fact", "led"}
  <2>1. Adding(s) /\ s.obj = "match" /\ ~Dropping(s)
    BY <1>1, <1>2, <1>9 DEF OneWay, Adding
  <2>2. /\ ~Dropping(x) /\ x.ldrop = {} /\ x.mdrop = {} /\ ~x.ends
    <3>1. x.ldrop = s.ldrop /\ x.mdrop = s.mdrop /\ x.pending = s.pending /\ x.erased = s.erased
      BY <1>4, <1>9 DEF AfterWrite, PassRow
    <3>. QED
      BY <1>5, <2>1, <3>1 DEF Dropping
  <2>3. OneWay(x)
    BY <1>5, <2>1, <2>2 DEF OneWay
  <2>4. Adds(x, H)
    <3>1. CASE op[1] = "mem"
      <4>1. /\ x.madd = s.madd \cup {b} /\ x.wrote = s.wrote /\ x.ladd = s.ladd
            /\ \A o : o \in x.todo <=> o \in s.todo /\ o # <<"mem", b>>
        BY <1>3, <1>4, <1>5, <3>1 DEF AfterWrite
      <4>2. <<"mem", b>> \in H /\ b \in Bindings /\ <<"led", b>> \in s.todo
        BY <1>1, <1>2, <1>3, <3>1 DEF WriteLocks, Adds
      <4> HIDE DEF H
      <4>. QED
        BY <1>1, <1>6, <4>1, <4>2 DEF Adds, Secured
    <3>2. CASE op[1] = "fact"
      <4>1. /\ x.madd = s.madd /\ x.wrote = TRUE /\ x.ladd = s.ladd
            /\ \A o : o \in x.todo <=> o \in s.todo /\ o # <<"fact", 0>>
        BY <1>3, <1>4, <1>5, <3>2 DEF AfterWrite, PassRow
      <4>2. <<"fact", 0>> \in H /\ <<"fact", 0>> \in s.todo
        BY <1>2, <1>3, <3>2 DEF WriteLocks
      <4>3. \A c : <<"mem", c>> \notin s.todo
        BY <1>2, <3>2 DEF Stage
      <4>4. s.madd # {}
        BY <1>1, <4>2, <4>3 DEF Adds
      <4> HIDE DEF H
      <4>. QED
        BY <1>1, <1>6, <4>1, <4>2, <4>4 DEF Adds, Secured
    <3>3. CASE op[1] = "led"
      <4>1. /\ x.madd = s.madd /\ x.wrote = s.wrote
            /\ x.ladd = IF ledger[b] THEN s.ladd ELSE s.ladd \cup {b}
            /\ \A o : o \in x.todo <=> o \in s.todo /\ o # <<"led", b>>
        BY <1>3, <1>4, <1>5, <3>3 DEF AfterWrite, PassRow
      <4>2. b \in Bindings /\ (~ledger[b] => <<"led", b>> \in H) /\ <<"led", b>> \in s.todo
        BY <1>2, <1>3, <3>3 DEF WriteLocks
      <4>3. <<"fact", 0>> \notin s.todo /\ \A c : <<"mem", c>> \notin s.todo
        BY <1>2, <3>3 DEF Stage
      <4>4. b \in s.madd /\ s.wrote
        BY <1>1, <4>2, <4>3 DEF Adds
      <4> HIDE DEF H
      <4>. QED
        <5>1. CASE ledger[b]
          BY <1>1, <1>6, <4>1, <4>2, <4>3, <4>4, <5>1 DEF Adds, Secured
        <5>2. CASE ~ledger[b]
          BY <1>1, <1>6, <4>1, <4>2, <4>3, <4>4, <5>2 DEF Adds, Secured
        <5>. QED
          BY <5>1, <5>2
    <3>. QED
      BY <1>9, <3>1, <3>2, <3>3
  <2>. QED
    BY <1>7, <1>8, <2>2, <2>3, <2>4, AddingOnly DEF Knows
<1>10. CASE op[1] \in {"forget", "unmem", "stamp", "erase"}
  <2>1. Dropping(s) /\ s.obj # "match" /\ s.kind \notin Forward /\ ~Adding(s)
    BY <1>1, <1>2, <1>10 DEF OneWay, Dropping
  <2>2. ~Adding(x)
    <3>1. x.madd = s.madd /\ x.ladd = s.ladd /\ x.wrote = s.wrote
      BY <1>4, <1>10 DEF AfterWrite, PassRow
    <3>. QED
      BY <1>5, <2>1, <3>1 DEF Adding
  <2>3. OneWay(x)
    BY <1>1, <1>5, <2>1, <2>2 DEF OneWay
  <2>4. \A c : Losing(x, H, c) <=> Losing(s, H, c)
    BY <1>5 DEF Losing
  <2>5. \A c : Losing(s, H0, c) => Losing(s, H, c)
    BY <1>6 DEF Losing
  <2>6. Drops(x, H)
    <3>1. CASE op[1] = "forget"
      <4>1. /\ \A c : c \in x.mdrop <=> c \in s.mdrop
            /\ \A c : c \in x.ldrop <=> c \in s.ldrop \/ (c = b /\ ledger[b])
            /\ \A o : o \in x.todo <=> o \in s.todo /\ o # <<"forget", b>>
        BY <1>3, <1>4, <1>5, <3>1 DEF AfterWrite
      <4>2. b \in Bindings /\ (ledger[b] => <<"led", b>> \in H) /\ <<"forget", b>> \in s.todo
        BY <1>2, <1>3, <3>1 DEF WriteLocks
      <4>3. <<"unmem", b>> \in s.todo /\ Losing(s, H0, b)
        BY <1>1, <4>2 DEF Drops
      <4>4. ~ledger[b] => s.ends
        BY <1>1, <4>2, <4>3 DEF Losing, MembersAreLedgered
      <4> HIDE DEF H
      <4>. QED
        <5>1. \A c : /\ <<"unmem", c>> \in x.todo <=> <<"unmem", c>> \in s.todo
                     /\ <<"forget", c>> \in x.todo <=> <<"forget", c>> \in s.todo /\ c # b
          BY <4>1
        <5>2. \A c : (c \in x.mdrop <=> c \in s.mdrop) /\ (c \in x.ldrop <=> c \in s.ldrop \/ (c = b /\ ledger[b]))
          BY <4>1
        <5>3. ASSUME NEW c \in Bindings, c # b
              PROVE  /\ <<"forget", c>> \in x.todo => <<"unmem", c>> \in x.todo
                     /\ <<"unmem", c>> \in x.todo => /\ Losing(x, H, c)
                                                     /\ <<"forget", c>> \in x.todo \/ c \in x.ldrop \/ x.ends
                     /\ c \in x.ldrop => /\ Losing(x, H, c) /\ <<"led", c>> \in H /\ ledger[c]
                                         /\ <<"unmem", c>> \in x.todo \/ c \in x.mdrop \/ x.ends
                     /\ c \in x.mdrop => /\ Losing(x, H, c) /\ <<"mem", c>> \in H /\ member[c]
                                         /\ c \in x.ldrop \/ x.ends
          BY <1>1, <1>5, <1>6, <2>4, <2>5, <5>1, <5>2, <5>3 DEF Drops
        <5>5. /\ Losing(x, H, b)
              /\ b \in s.ldrop => <<"led", b>> \in H
              /\ b \in s.mdrop => <<"mem", b>> \in H /\ member[b] /\ (b \in s.ldrop \/ s.ends)
              /\ b \in s.ldrop => ledger[b]
          BY <1>1, <1>6, <2>4, <2>5, <4>2, <4>3 DEF Drops
        <5>4. /\ <<"forget", b>> \in x.todo => <<"unmem", b>> \in x.todo
              /\ <<"unmem", b>> \in x.todo => /\ Losing(x, H, b)
                                              /\ <<"forget", b>> \in x.todo \/ b \in x.ldrop \/ x.ends
              /\ b \in x.ldrop => /\ Losing(x, H, b) /\ <<"led", b>> \in H /\ ledger[b]
                                  /\ <<"unmem", b>> \in x.todo \/ b \in x.mdrop \/ x.ends
              /\ b \in x.mdrop => /\ Losing(x, H, b) /\ <<"mem", b>> \in H /\ member[b]
                                  /\ b \in x.ldrop \/ x.ends
          BY <1>5, <4>2, <4>3, <4>4, <5>1, <5>2, <5>5
        <5>. QED
          BY <5>3, <5>4 DEF Drops
    <3>2. CASE op[1] = "unmem"
      <4>1. /\ \A c : c \in x.ldrop <=> c \in s.ldrop
            /\ \A c : c \in x.mdrop <=> c \in s.mdrop \/ (c = b /\ member[b])
            /\ \A o : o \in x.todo <=> o \in s.todo /\ o # <<"unmem", b>>
        BY <1>3, <1>4, <1>5, <3>2 DEF AfterWrite
      <4>2. b \in Bindings /\ (member[b] => <<"mem", b>> \in H) /\ <<"unmem", b>> \in s.todo
        BY <1>2, <1>3, <3>2 DEF WriteLocks
      <4>3. \A c : <<"forget", c>> \notin s.todo
        BY <1>2, <3>2 DEF Stage
      <4>4. Losing(s, H0, b) /\ (b \in s.ldrop \/ s.ends)
        BY <1>1, <4>2, <4>3 DEF Drops
      <4>5. ~member[b] => s.ends
        BY <1>1, <4>2, <4>4 DEF Losing
      <4> HIDE DEF H
      <4>. QED
        <5>1. \A c : /\ <<"forget", c>> \in x.todo <=> <<"forget", c>> \in s.todo
                     /\ <<"unmem", c>> \in x.todo <=> <<"unmem", c>> \in s.todo /\ c # b
          BY <4>1
        <5>2. \A c : (c \in x.ldrop <=> c \in s.ldrop) /\ (c \in x.mdrop <=> c \in s.mdrop \/ (c = b /\ member[b]))
          BY <4>1
        <5>3. ASSUME NEW c \in Bindings, c # b
              PROVE  /\ <<"forget", c>> \in x.todo => <<"unmem", c>> \in x.todo
                     /\ <<"unmem", c>> \in x.todo => /\ Losing(x, H, c)
                                                     /\ <<"forget", c>> \in x.todo \/ c \in x.ldrop \/ x.ends
                     /\ c \in x.ldrop => /\ Losing(x, H, c) /\ <<"led", c>> \in H /\ ledger[c]
                                         /\ <<"unmem", c>> \in x.todo \/ c \in x.mdrop \/ x.ends
                     /\ c \in x.mdrop => /\ Losing(x, H, c) /\ <<"mem", c>> \in H /\ member[c]
                                         /\ c \in x.ldrop \/ x.ends
          BY <1>1, <1>5, <1>6, <2>4, <2>5, <5>1, <5>2, <5>3 DEF Drops
        <5>4. /\ <<"forget", b>> \in x.todo => <<"unmem", b>> \in x.todo
              /\ <<"unmem", b>> \in x.todo => /\ Losing(x, H, b)
                                              /\ <<"forget", b>> \in x.todo \/ b \in x.ldrop \/ x.ends
              /\ b \in x.ldrop => /\ Losing(x, H, b) /\ <<"led", b>> \in H /\ ledger[b]
                                  /\ <<"unmem", b>> \in x.todo \/ b \in x.mdrop \/ x.ends
              /\ b \in x.mdrop => /\ Losing(x, H, b) /\ <<"mem", b>> \in H /\ member[b]
                                  /\ b \in x.ldrop \/ x.ends
          BY <1>1, <1>5, <1>6, <2>4, <2>5, <4>2, <4>3, <4>4, <4>5, <5>1, <5>2 DEF Drops
        <5>. QED
          BY <5>3, <5>4 DEF Drops
    <3>3. CASE op[1] \in {"stamp", "erase"}
      <4>1. /\ x.ldrop = s.ldrop /\ x.mdrop = s.mdrop
            /\ \A c : /\ <<"forget", c>> \in x.todo <=> <<"forget", c>> \in s.todo
                      /\ <<"unmem", c>> \in x.todo <=> <<"unmem", c>> \in s.todo
        <5>1. x.ldrop = s.ldrop /\ x.mdrop = s.mdrop
          BY <1>4, <3>3 DEF AfterWrite, PassRow
        <5>2. \A c : op # <<"forget", c>> /\ op # <<"unmem", c>>
          BY <3>3
        <5>. QED
          BY <1>5, <5>1, <5>2
      <4> HIDE DEF H
      <4>. QED
        BY <1>1, <1>5, <1>6, <2>4, <2>5, <4>1 DEF Drops
    <3>. QED
      BY <1>10, <3>1, <3>2, <3>3
  <2>. QED
    BY <1>7, <1>8, <2>2, <2>3, <2>6, DroppingOnly DEF Knows
<1>. QED
  BY <1>3, <1>9, <1>10

LEMMA WriteKeepsInv ==
    ASSUME IInv, NEW p \in Passes, Write(p)
    PROVE  IInv'
<1>1. Open(p) /\ pass[p].at = "todo" /\ held \in [Passes -> SUBSET Locks] /\ Exclusive
  BY DEF Write, Free, IInv, TypeOK
<1>2. PICK op \in pass[p].todo : \E x \in PassRow :
             /\ op = FirstOf(pass[p].todo)
             /\ AfterWrite(pass[p], op, x)
             /\ x.erased = (IF op[1] = "erase" THEN Erases(p) ELSE pass[p].erased)
             /\ Moves(p, x, held[p] \cup WriteLocks(op))
             /\ WriteLocks(op) \subseteq Locks /\ Granting(p, WriteLocks(op))
  BY WriteIs
<1>3. PICK x \in PassRow :
             /\ op = FirstOf(pass[p].todo)
             /\ AfterWrite(pass[p], op, x)
             /\ x.erased = (IF op[1] = "erase" THEN Erases(p) ELSE pass[p].erased)
             /\ Moves(p, x, held[p] \cup WriteLocks(op))
             /\ WriteLocks(op) \subseteq Locks /\ Granting(p, WriteLocks(op))
  BY <1>2
<1>4. Knows(x, held[p] \cup WriteLocks(op))
  BY <1>1, <1>3, WriteKnows
<1>5. held[p] \cup WriteLocks(op) \in SUBSET Locks
  BY <1>1, <1>3
<1>6. Granting(p, held[p] \cup WriteLocks(op))
  BY <1>1, <1>3 DEF Granting, Exclusive
<1>. QED
  BY <1>3, <1>4, <1>5, <1>6, MovesKeepInv

-----------------------------------------------------------------------------
(* Steps that change rows. *)

\* A step that changes no row the locks K protect.
Spares(K) ==
  /\ <<"mkey", 0>> \in K => mirror' # "absent"
  /\ \A b \in Bindings :
       /\ status[b] = "ACTIVE" /\ (<<"adv", b>> \in K \/ <<"key", b>> \in K) => status'[b] = "ACTIVE"
       /\ ledger[b] /\ <<"mem", b>> \in K /\ (<<"adv", b>> \in K \/ <<"key", b>> \in K) => ledger'[b]
       /\ <<"led", b>> \in K => ledger'[b] = ledger[b]
       /\ <<"mem", b>> \in K => member'[b] = member[b]
       /\ <<"adv", b>> \in K /\ member[b] => member'[b]

LEMMA SparedKnows ==
    ASSUME NEW x \in PassRow, NEW K, Knows(x, K), Spares(K),
           changes \in Nat, changes' \in Nat, changes <= changes'
    PROVE  Knows(x, K)'
<1>1. Progress(x) /\ Guards(x, K) /\ OneWay(x) /\ Adds(x, K) /\ Drops(x, K) /\ x.on \subseteq Bindings
  BY DEF Knows, PassRow
<1>2. Progress(x)'
  BY <1>1 DEF Progress, Unwritten, PhasesOf
<1>3. OneWay(x)'
  BY <1>1 DEF OneWay, Adding, Dropping
<1>4. Guards(x, K)'
  <2>1. x.kind = "binding" /\ x.at = "mirror" => status'[x.b] = "ACTIVE"
    BY <1>1 DEF Guards, Progress, Spares, Full
  <2>2. x.kind \in Forward /\ (x.at \in {"share", "mirror"} \/ (x.kind = "created" /\ x.at = "project")) =>
          \A b \in x.on : (x.at = "share" /\ b \in x.left) \/ (<<"key", b>> \in K /\ status'[b] = "ACTIVE")
    BY <1>1 DEF Guards, Spares
  <2>. QED
    BY <1>1, <2>1, <2>2 DEF Guards, Spares
<1>5. \A b \in Bindings : Secured(K, b) => Secured(K, b)'
  BY DEF Secured, Spares
<1>6. Adds(x, K)'
  <2>1. \A b \in Bindings : Secured(K, b) /\ <<"mem", b>> \in K /\ ledger[b] => ledger'[b]
    BY DEF Secured, Spares
  <2>2. \A b \in Bindings : <<"led", b>> \in K /\ ~ledger[b] => ~ledger'[b]
    BY DEF Spares
  <2>. QED
    BY <1>1, <1>5, <2>1, <2>2 DEF Adds
<1>7. \A b \in Bindings : Losing(x, K, b) => Losing(x, K, b)'
  BY DEF Losing, Spares
<1>8. Drops(x, K)'
  <2>1. \A b \in Bindings : /\ <<"led", b>> \in K => ledger'[b] = ledger[b]
                            /\ <<"mem", b>> \in K => member'[b] = member[b]
    BY DEF Spares
  <2>. QED
    BY <1>1, <1>7, <2>1 DEF Drops
<1>. QED
  BY <1>2, <1>3, <1>4, <1>6, <1>8 DEF Knows

\* What a step leaves of p is known, and it spares the others.
LEMMA PassesKeep ==
    ASSUME IInv, NEW p \in Passes, NEW r, pass' = [pass EXCEPT ![p] = r], NEW H, held' = [held EXCEPT ![p] = H],
           changes' \in Nat, changes <= changes',
           (r = NoPass /\ H = {}) \/ (r # NoPass /\ Knows(r, H)'),
           \A q \in Passes \ {p} : Spares(held[q])
    PROVE  PassesInv'
<1>1. /\ pass \in [Passes -> PassRow \cup {NoPass}] /\ held \in [Passes -> SUBSET Locks]
      /\ changes \in Nat
  BY DEF IInv, TypeOK
<1>2. ASSUME NEW q \in Passes
      PROVE  (IF Open(q) THEN Knows(pass[q], held[q]) ELSE held[q] = {})'
  <2>1. CASE q = p
    <3>1. pass'[q] = r /\ held'[q] = H
      BY <2>1, <1>1
    <3>. QED
      BY <3>1 DEF Open
  <2>2. CASE q # p
    <3>1. PICK x, K : x = pass[q] /\ K = held[q]
      OBVIOUS
    <3>2. pass'[q] = x /\ held'[q] = K
      BY <2>2, <3>1, <1>1
    <3>3. IF x # NoPass THEN Knows(x, K) ELSE K = {}
      BY <3>1 DEF IInv, PassesInv, Open
    <3>4. x # NoPass => x \in PassRow
      BY <3>1, <1>1
    <3>5. x # NoPass => Knows(x, K)'
      BY <1>1, <2>2, <3>1, <3>3, <3>4, SparedKnows
    <3>. QED
      BY <3>2, <3>3, <3>5 DEF Open
  <2>. QED
    BY <2>1, <2>2
<1>. QED
  BY <1>2 DEF PassesInv

LEMMA CreateBindingKeepsInv ==
    ASSUME IInv, NEW p \in Passes, NEW b \in Bindings, CreateBinding(p, b)
    PROVE  IInv'
<1>1. PICK r : r = [Opened("created", "peek", b, 0) EXCEPT !.on = {b}, !.left = {b}]
  OBVIOUS
<1>2. TypeOK /\ NewInv /\ MembersAreLedgered /\ changes \in Nat
      /\ status \in [Bindings -> {"new", "ACTIVE", "REVOKED", "GONE"}]
  BY DEF IInv, TypeOK
<1>3. /\ pass' = [pass EXCEPT ![p] = r] /\ held' = [held EXCEPT ![p] = {}]
      /\ status[b] = "new" /\ status' = [status EXCEPT ![b] = "ACTIVE"]
      /\ UNCHANGED <<scene, mirror, member, ledger, fact, events, held, changes, aborts>>
  BY <1>1, VacantHoldsNothing DEF CreateBinding, Begin, Becomes
<1>4. r \in PassRow /\ Unwritten(r)
  BY <1>1 DEF Opened, PassRow, Unwritten, Mirrors, Kinds, Full, Forward, Phases
<1>5. Progress(r)' /\ Guards(r, {})'
  BY <1>1, <1>4 DEF Progress, PhasesOf, Guards, Opened, Full, Forward, Deactivation, Unwritten
<1>6. \A q \in Passes \ {p} : Spares(held[q])
  <2>1. ASSUME NEW q \in Passes \ {p}
        PROVE  <<"mkey", 0>> \in held[q] => mirror' # "absent"
    BY <1>3 DEF IInv, PassesInv, Knows, Guards
  <2>. QED
    BY <1>2, <1>3, <2>1 DEF Spares
<1>7. PassesInv'
  <2>1. Knows(r, {})' /\ r # NoPass
    BY <1>4, <1>5, UnwrittenKnowsNext, NoPassIsNoRow
  <2>2. changes' \in Nat /\ changes <= changes'
    BY <1>2, <1>3
  <2>. QED
    BY <1>3, <1>6, <2>1, <2>2, PassesKeep
<1>8. TypeOK'
  BY <1>2, <1>3, <1>4 DEF TypeOK, Exclusive
<1>9. NewInv' /\ MembersAreLedgered'
  <2>1. ~member[b] /\ ~ledger[b] /\ member[b] \in BOOLEAN /\ ledger[b] \in BOOLEAN
    BY <1>2, <1>3 DEF NewInv, TypeOK
  <2>. QED
    BY <1>2, <1>3, <2>1 DEF NewInv, MembersAreLedgered
<1>. QED
  BY <1>7, <1>8, <1>9 DEF IInv

LEMMA RegisterKeepsInv ==
    ASSUME IInv, NEW p \in Passes, NEW m \in Mirrors, Register(p, m)
    PROVE  IInv'
<1>1. PICK r : r = IF mirror = m THEN Opened("additive", "project", 0, 0) ELSE Opened("forward", "peek", 0, 0)
  OBVIOUS
<1>2. TypeOK /\ NewInv /\ MembersAreLedgered /\ changes \in Nat /\ events \subseteq 1..changes
  BY DEF IInv, TypeOK
<1>3. /\ pass' = [pass EXCEPT ![p] = r] /\ held' = [held EXCEPT ![p] = {}]
      /\ mirror' = m /\ m # "absent" /\ changes' = changes + 1 /\ events' = events \cup {changes + 1}
      /\ UNCHANGED <<scene, status, member, ledger, fact, held, aborts>>
  BY <1>1, VacantHoldsNothing DEF Register, Begin, Becomes
<1>4. r \in PassRow /\ Unwritten(r)
  BY <1>1, OpenedIsRow DEF Kinds, Full, Forward, Phases
<1>5. Progress(r)' /\ Guards(r, {})'
  BY <1>1, <1>4 DEF Progress, PhasesOf, Guards, Opened, Full, Forward, Deactivation, Unwritten
<1>6. \A q \in Passes \ {p} : Spares(held[q])
  BY <1>3 DEF Spares
<1>7. PassesInv'
  <2>1. Knows(r, {})' /\ r # NoPass
    BY <1>4, <1>5, UnwrittenKnowsNext, NoPassIsNoRow
  <2>2. changes' \in Nat /\ changes <= changes'
    BY <1>2, <1>3
  <2>. QED
    BY <1>3, <1>6, <2>1, <2>2, PassesKeep
<1>8. TypeOK'
  <2>1. events' \subseteq 1..changes' /\ changes' \in Nat
    BY <1>2, <1>3
  <2>. QED
    BY <1>2, <1>3, <1>4, <2>1 DEF TypeOK, Exclusive
<1>9. NewInv' /\ MembersAreLedgered'
  BY <1>2, <1>3 DEF NewInv, MembersAreLedgered
<1>. QED
  BY <1>7, <1>8, <1>9 DEF IInv

LEMMA CommitWithdrawalKeepsInv ==
    ASSUME IInv, NEW p \in Passes, CommitWithdrawal(p)
    PROVE  IInv'
<1>1. PICK r : r = Opened("forward", "peek", 0, 0)
  OBVIOUS
<1>2. /\ TypeOK /\ NewInv /\ MembersAreLedgered /\ changes \in Nat /\ events \subseteq 1..changes
      /\ Exclusive /\ pass[p].ev \in 1..changes
  BY OpenFacts DEF IInv, TypeOK, CommitWithdrawal, Progress
<1>3. /\ pass' = [pass EXCEPT ![p] = r] /\ held' = [held EXCEPT ![p] = {}]
      /\ mirror' = (IF <<"mdel", 0>> \in held[p] THEN "absent" ELSE mirror)
      /\ events' = events \cup {pass[p].ev}
      /\ UNCHANGED <<scene, status, member, ledger, fact, changes, aborts>>
  BY <1>1 DEF CommitWithdrawal, Becomes
<1>4. r \in PassRow /\ Unwritten(r)
  BY <1>1, OpenedIsRow DEF Kinds, Full, Forward, Phases
<1>5. Progress(r)' /\ Guards(r, {})'
  BY <1>1, <1>4 DEF Progress, PhasesOf, Guards, Opened, Full, Forward, Deactivation, Unwritten
<1>6. \A q \in Passes \ {p} : Spares(held[q])
  <2>1. ASSUME NEW q \in Passes \ {p}
        PROVE  <<"mkey", 0>> \in held[q] => mirror' # "absent"
    <3>1. <<"mkey", 0>> \in held[q] => mirror # "absent"
      BY DEF IInv, PassesInv, Knows, Guards
    <3>2. <<"mdel", 0>> \in held[p] => <<"mkey", 0>> \notin held[q]
      BY <1>2, Excludes
    <3>. QED
      BY <1>3, <3>1, <3>2
  <2>. QED
    BY <1>3, <2>1 DEF Spares
<1>7. PassesInv'
  <2>1. Knows(r, {})' /\ r # NoPass
    BY <1>4, <1>5, UnwrittenKnowsNext, NoPassIsNoRow
  <2>2. changes' \in Nat /\ changes <= changes'
    BY <1>2, <1>3
  <2>. QED
    BY <1>3, <1>6, <2>1, <2>2, PassesKeep
<1>8. TypeOK'
  <2>3. Granting(p, {})
    BY DEF Granting
  <2>1. held' \in [Passes -> SUBSET Locks] /\ Exclusive'
    BY <1>2, <1>3, <2>3, StaysExclusive
  <2>2. events' \subseteq 1..changes' /\ mirror' \in Mirrors
    BY <1>2, <1>3 DEF TypeOK, Mirrors
  <2>. QED
    BY <1>2, <1>3, <1>4, <2>1, <2>2 DEF TypeOK
<1>9. NewInv' /\ MembersAreLedgered'
  BY <1>2, <1>3 DEF NewInv, MembersAreLedgered
<1>. QED
  BY <1>7, <1>8, <1>9 DEF IInv

\* What a transaction has the locks for when it commits.
LEMMA CommitFacts ==
    ASSUME IInv, NEW p \in Passes, Open(p), pass[p].at = "commit"
    PROVE  LET s == pass[p]
               H == held[p] IN
           /\ \A b \in Bindings :
                /\ b \in s.madd => Secured(H, b) /\ <<"mem", b>> \in H /\ (b \in s.ladd \/ ledger[b])
                /\ b \in s.ladd => b \in s.madd /\ <<"led", b>> \in H /\ ~ledger[b] /\ s.wrote
                /\ b \in s.mdrop => /\ <<"adv", b>> \in H /\ <<"mem", b>> \in H /\ member[b]
                                    /\ b \in s.ldrop \/ s.ends
                /\ b \in s.ldrop => /\ <<"adv", b>> \in H /\ <<"led", b>> \in H /\ ledger[b]
                                    /\ b \in s.mdrop \/ s.ends
                /\ b \in s.mdrop \cup s.ldrop => IF s.ends THEN b = s.b ELSE status[b] = "ACTIVE" /\ member[b]
           /\ s.ends => s.b \in Bindings /\ <<"adv", s.b>> \in H /\ <<"upd", s.b>> \in H
           /\ s.madd \cup s.ladd # {} \/ s.wrote => s.mdrop = {} /\ s.ldrop = {} /\ ~s.ends /\ ~s.erased
           /\ s.wrote => <<"fact", 0>> \in H /\ s.madd # {}
           /\ s.madd # {} => mirror # "absent"
           /\ ~s.pending /\ s.todo = {}
<1> DEFINE s == pass[p]
           H == held[p]
<1>1. /\ s \in PassRow /\ Progress(s) /\ Guards(s, H) /\ s.at = "commit"
      /\ OneWay(s) /\ Adds(s, H) /\ Drops(s, H)
  BY OpenFacts
<1>2. s.todo = {} /\ ~s.pending
  BY <1>1 DEF Progress
<1>3. \A b \in Bindings :
        /\ b \in s.madd => Secured(H, b) /\ <<"mem", b>> \in H /\ (b \in s.ladd \/ ledger[b])
        /\ b \in s.ladd => b \in s.madd /\ <<"led", b>> \in H /\ ~ledger[b] /\ s.wrote
  BY <1>1, <1>2 DEF Adds
<1>4. \A b \in Bindings :
        /\ b \in s.mdrop => Losing(s, H, b) /\ <<"mem", b>> \in H /\ member[b] /\ (b \in s.ldrop \/ s.ends)
        /\ b \in s.ldrop => Losing(s, H, b) /\ <<"led", b>> \in H /\ ledger[b] /\ (b \in s.mdrop \/ s.ends)
  BY <1>1, <1>2 DEF Drops
<1>5. s.ends => s.b \in Bindings /\ <<"adv", s.b>> \in H /\ <<"upd", s.b>> \in H
  <2>1. s.ends => s.kind \in Deactivation
    BY <1>1 DEF OneWay
  <2>. QED
    BY <1>1, <2>1 DEF Guards, Progress
<1>6. s.madd \cup s.ladd # {} \/ s.wrote => s.mdrop = {} /\ s.ldrop = {} /\ ~s.ends /\ ~s.erased
  BY <1>1 DEF OneWay, Adding, Dropping
<1>7. s.wrote => <<"fact", 0>> \in H /\ s.madd # {}
  BY <1>1 DEF Adds
<1>8. s.madd # {} => mirror # "absent"
  <2>1. \A b \in s.madd : <<"mkey", 0>> \in H
    BY <1>1, <1>3 DEF Secured, PassRow
  <2>. QED
    BY <1>1, <2>1 DEF Guards
<1>9. \A b \in Bindings : b \in s.mdrop \cup s.ldrop =>
        <<"adv", b>> \in H /\ IF s.ends THEN b = s.b ELSE status[b] = "ACTIVE" /\ member[b]
  BY <1>4 DEF Losing
<1>. QED
  BY <1>2, <1>3, <1>4, <1>5, <1>6, <1>7, <1>8, <1>9

\* What a transaction commits, it has locked against the others.
LEMMA CommitSpares ==
    ASSUME IInv, NEW p \in Passes, Commit(p), NEW q \in Passes \ {p}
    PROVE  Spares(held[q])
<1> DEFINE s == pass[p]
           H == held[p]
           K == held[q]
<1>1. /\ Open(p) /\ s.at = "commit" /\ Exclusive /\ mirror' = mirror
      /\ status \in [Bindings -> {"new", "ACTIVE", "REVOKED", "GONE"}]
      /\ member' = [b \in Bindings |-> (member[b] \/ b \in s.madd) /\ b \notin s.mdrop]
      /\ ledger' = [b \in Bindings |-> (ledger[b] \/ b \in s.ladd) /\ b \notin s.ldrop]
      /\ member \in [Bindings -> BOOLEAN] /\ ledger \in [Bindings -> BOOLEAN]
  BY DEF Commit, IInv, TypeOK
<1>2. \A b \in Bindings : status'[b] # status[b] => s.ends /\ b = s.b
  <2>1. status' = IF s.ends THEN [status EXCEPT ![s.b] = IF s.kind = "delete" THEN "GONE" ELSE "REVOKED"]
                  ELSE status
    BY DEF Commit
  <2>. QED
    BY <1>1, <2>1
<1>3. <<"mkey", 0>> \in K => mirror' # "absent"
  BY <1>1 DEF IInv, PassesInv, Knows, Guards
<1>4. ASSUME NEW b \in Bindings
      PROVE  /\ status[b] = "ACTIVE" /\ (<<"adv", b>> \in K \/ <<"key", b>> \in K) => status'[b] = "ACTIVE"
             /\ ledger[b] /\ <<"mem", b>> \in K /\ (<<"adv", b>> \in K \/ <<"key", b>> \in K) => ledger'[b]
             /\ <<"led", b>> \in K => ledger'[b] = ledger[b]
             /\ <<"mem", b>> \in K => member'[b] = member[b]
             /\ <<"adv", b>> \in K /\ member[b] => member'[b]
  <2>1. /\ <<"adv", b>> \in H => <<"adv", b>> \notin K
        /\ <<"mem", b>> \in H => <<"mem", b>> \notin K
        /\ <<"led", b>> \in H => <<"led", b>> \notin K
        /\ <<"upd", b>> \in H => <<"key", b>> \notin K
    BY <1>1, Excludes
  <2>2. /\ b \in s.madd => <<"mem", b>> \in H
        /\ b \in s.ladd => <<"led", b>> \in H
        /\ b \in s.mdrop => <<"adv", b>> \in H /\ <<"mem", b>> \in H
        /\ b \in s.ldrop => <<"adv", b>> \in H /\ <<"led", b>> \in H /\ (b \in s.mdrop \/ s.ends)
        /\ s.ends /\ (b = s.b \/ b \in s.ldrop) => <<"adv", b>> \in H /\ <<"upd", b>> \in H
    BY <1>1, CommitFacts
  <2>3. /\ member'[b] = ((member[b] \/ b \in s.madd) /\ b \notin s.mdrop)
        /\ ledger'[b] = ((ledger[b] \/ b \in s.ladd) /\ b \notin s.ldrop)
        /\ member[b] \in BOOLEAN /\ ledger[b] \in BOOLEAN
    BY <1>1
  <2>4. status[b] = "ACTIVE" /\ (<<"adv", b>> \in K \/ <<"key", b>> \in K) => status'[b] = "ACTIVE"
    BY <1>2, <2>1, <2>2
  <2>5. <<"led", b>> \in K => ledger'[b] = ledger[b]
    BY <2>1, <2>2, <2>3
  <2>6. <<"mem", b>> \in K => member'[b] = member[b]
    BY <2>1, <2>2, <2>3
  <2>7. <<"adv", b>> \in K /\ member[b] => member'[b]
    BY <2>1, <2>2, <2>3
  <2>8. ledger[b] /\ <<"mem", b>> \in K /\ (<<"adv", b>> \in K \/ <<"key", b>> \in K) => ledger'[b]
    BY <2>1, <2>2, <2>3
  <2>. QED
    BY <2>4, <2>5, <2>6, <2>7, <2>8
<1>. QED
  BY <1>3, <1>4 DEF Spares

LEMMA CommitKeepsInv ==
    ASSUME IInv, NEW p \in Passes, Commit(p)
    PROVE  IInv'
<1> DEFINE s == pass[p]
<1>1. /\ Open(p) /\ s.at = "commit" /\ s \in PassRow /\ TypeOK /\ NewInv /\ MembersAreLedgered
      /\ changes \in Nat /\ status \in [Bindings -> {"new", "ACTIVE", "REVOKED", "GONE"}]
      /\ member' = [b \in Bindings |-> (member[b] \/ b \in s.madd) /\ b \notin s.mdrop]
      /\ ledger' = [b \in Bindings |-> (ledger[b] \/ b \in s.ladd) /\ b \notin s.ldrop]
      /\ status' = (IF s.ends THEN [status EXCEPT ![s.b] = IF s.kind = "delete" THEN "GONE" ELSE "REVOKED"]
                    ELSE status)
      /\ fact' = ((fact \/ s.wrote) /\ ~s.erased)
      /\ held' = [held EXCEPT ![p] = {}]
      /\ UNCHANGED <<scene, mirror, events, changes, aborts>>
  BY OpenFacts DEF Commit, IInv, TypeOK
<1>2. PICK r : r = IF s.ev # 0 THEN Opened("object", "sent", 0, s.ev) ELSE NoPass
  OBVIOUS
<1>3. pass' = [pass EXCEPT ![p] = r]
  BY <1>2 DEF Commit, Becomes
<1>4. r = NoPass \/ (r \in PassRow /\ r # NoPass /\ Knows(r, {})')
  <2>1. CASE s.ev # 0
    <3>1. r \in PassRow /\ Unwritten(r)
      <4>1. s.ev \in Nat
        BY <1>1 DEF PassRow
      <4>2. "object" \in Kinds /\ "sent" \in Phases
        BY DEF Kinds, Full, Phases
      <4>3. Opened("object", "sent", 0, s.ev) \in PassRow /\ Unwritten(Opened("object", "sent", 0, s.ev))
        BY <4>1, <4>2, OpenedIsRow
      <4>. QED
        BY <1>2, <2>1, <4>3
    <3>2. Progress(r)' /\ Guards(r, {})'
      BY <1>2, <2>1, <3>1 DEF Progress, PhasesOf, Guards, Opened, Full, Forward, Deactivation, Unwritten
    <3>. QED
      BY <3>1, <3>2, UnwrittenKnowsNext, NoPassIsNoRow
  <2>2. CASE s.ev = 0
    BY <1>2, <2>2
  <2>. QED
    BY <2>1, <2>2
<1>5. PassesInv'
  <2>1. changes' \in Nat /\ changes <= changes'
    BY <1>1
  <2>. QED
    BY <1>1, <1>3, <1>4, <2>1, CommitSpares, PassesKeep
<1>6. TypeOK'
  <2>1. Granting(p, {})
    BY DEF Granting
  <2>2. held' \in [Passes -> SUBSET Locks] /\ Exclusive'
    BY <1>1, <2>1, StaysExclusive
  <2>3. status' \in [Bindings -> {"new", "ACTIVE", "REVOKED", "GONE"}]
    BY <1>1
  <2>4. member' \in [Bindings -> BOOLEAN] /\ ledger' \in [Bindings -> BOOLEAN] /\ fact' \in BOOLEAN
    <3>1. \A b \in Bindings : /\ ((member[b] \/ b \in s.madd) /\ b \notin s.mdrop) \in BOOLEAN
                              /\ ((ledger[b] \/ b \in s.ladd) /\ b \notin s.ldrop) \in BOOLEAN
      OBVIOUS
    <3>. QED
      BY <1>1, <3>1
  <2>5. pass' \in [Passes -> PassRow \cup {NoPass}]
    BY <1>1, <1>3, <1>4 DEF TypeOK
  <2>. QED
    BY <1>1, <2>2, <2>3, <2>4, <2>5 DEF TypeOK
<1>7. ASSUME NEW b \in Bindings
      PROVE  /\ status'[b] = "new" => ~member'[b] /\ ~ledger'[b]
             /\ status'[b] = "ACTIVE" => member'[b] = ledger'[b]
  <2>1. /\ member'[b] = ((member[b] \/ b \in s.madd) /\ b \notin s.mdrop)
        /\ ledger'[b] = ((ledger[b] \/ b \in s.ladd) /\ b \notin s.ldrop)
        /\ member[b] \in BOOLEAN /\ ledger[b] \in BOOLEAN
    BY <1>1 DEF TypeOK
  <2>2. status'[b] = status[b] \/ (s.ends /\ b = s.b /\ status'[b] \in {"GONE", "REVOKED"})
    BY <1>1
  <2>3. /\ b \in s.madd => status[b] = "ACTIVE" /\ (b \in s.ladd \/ ledger[b]) /\ b \notin s.mdrop /\ b \notin s.ldrop
        /\ b \in s.ladd => b \in s.madd
        /\ b \in s.mdrop => b \in s.ldrop \/ s.ends
        /\ b \in s.ldrop => b \in s.mdrop \/ s.ends
        /\ s.ends /\ b \in s.mdrop \cup s.ldrop => b = s.b
    BY <1>1, CommitFacts DEF Secured
  <2>4. /\ status[b] = "new" => ~member[b] /\ ~ledger[b]
        /\ status[b] = "ACTIVE" => member[b] = ledger[b]
    BY <1>1 DEF NewInv, MembersAreLedgered
  <2>5. s.ends /\ b = s.b => status'[b] \in {"GONE", "REVOKED"}
    BY <1>1
  <2>. QED
    BY <2>1, <2>2, <2>3, <2>4, <2>5
<1>. QED
  BY <1>5, <1>6, <1>7 DEF IInv, NewInv, MembersAreLedgered

-----------------------------------------------------------------------------
(* The first theorem. *)

LEMMA InitInv == Init => IInv
<1> SUFFICES ASSUME Init PROVE IInv
  OBVIOUS
<1>1. TypeOK
  BY ConstantsAssumption DEF Init, TypeOK, Mirrors, Exclusive
<1>2. PassesInv
  BY DEF Init, PassesInv, Open
<1>3. NewInv /\ MembersAreLedgered
  BY DEF Init, NewInv, MembersAreLedgered
<1>. QED
  BY <1>1, <1>2, <1>3 DEF IInv

LEMMA NextInv == IInv /\ [Next]_vars => IInv'
<1> SUFFICES ASSUME IInv, [Next]_vars PROVE IInv'
  OBVIOUS
<1>1. CASE Next
  <2> PICK p \in Passes :
        \/ \E e \in events : Drain(p, e)
        \/ \E b \in Bindings : Sweep(p, b) \/ CreateBinding(p, b) \/ \E k \in Deactivation : Deactivate(p, k, b)
        \/ \E m \in Mirrors : Register(p, m)
        \/ Unregister(p)
        \/ Proceed(p)
        \/ Abort(p)
    BY <1>1 DEF Next
  <2>1. CASE \E e \in events : Drain(p, e)
    BY <2>1, DrainKeepsInv
  <2>2. CASE \E b \in Bindings : Sweep(p, b)
    BY <2>2, SweepKeepsInv
  <2>3. CASE \E b \in Bindings : CreateBinding(p, b)
    BY <2>3, CreateBindingKeepsInv
  <2>4. CASE \E b \in Bindings, k \in Deactivation : Deactivate(p, k, b)
    BY <2>4, DeactivateKeepsInv
  <2>5. CASE \E m \in Mirrors : Register(p, m)
    BY <2>5, RegisterKeepsInv
  <2>6. CASE Unregister(p)
    BY <2>6, UnregisterKeepsInv
  <2>7. CASE Abort(p)
    BY <2>7, RollbackKeepsInv
  <2>8. CASE Proceed(p)
    BY <2>8, PeekKeepsInv, ReadExistingKeepsInv, ReadMatchingKeepsInv, ReadObjectKeepsInv,
       TakeAdvisoryKeepsInv, LockRowsKeepsInv, ShareRowsKeepsInv, LockObjectKeepsInv,
       CompareKeepsInv, FlushKeepsInv, LockForDeactivationKeepsInv, ActKeepsInv, WriteKeepsInv,
       WrittenKeepsInv, CommitKeepsInv, MarkSentKeepsInv, DeleteObjectKeepsInv,
       CommitWithdrawalKeepsInv, RollbackKeepsInv
       DEF Proceed
  <2>. QED
    BY <2>1, <2>2, <2>3, <2>4, <2>5, <2>6, <2>7, <2>8
<1>2. CASE UNCHANGED vars
  <2>1. UNCHANGED <<scene, mirror, status, member, ledger, fact, events, pass, held, changes, aborts>>
    BY <1>2 DEF vars, stored
  <2>2. TypeOK' /\ NewInv' /\ MembersAreLedgered'
    BY <2>1 DEF IInv, TypeOK, Exclusive, NewInv, MembersAreLedgered
  <2>3. PassesInv'
    <3> SUFFICES ASSUME NEW q \in Passes
                 PROVE  (IF Open(q) THEN Knows(pass[q], held[q]) ELSE held[q] = {})'
      BY DEF PassesInv
    <3>1. PICK x, K : x = pass[q] /\ K = held[q]
      OBVIOUS
    <3>2. x # NoPass => Knows(x, K)'
      <4>1. x # NoPass => Knows(x, K)
        BY <3>1 DEF IInv, PassesInv, Open
      <4>. QED
        BY <2>1, <4>1, RowsUntouched DEF IInv, TypeOK
    <3>3. x = NoPass => K = {}
      BY <3>1 DEF IInv, PassesInv, Open
    <3>. QED
      BY <2>1, <3>1, <3>2, <3>3 DEF Open
  <2>. QED
    BY <2>2, <2>3 DEF IInv
<1>. QED
  BY <1>1, <1>2

LEMMA SpecInv == Spec => []IInv
BY InitInv, NextInv, PTL DEF Spec

\* The members of an ACTIVE binding and its ledger agree whatever transactions are
\* open together (applyDiff, forwardWriteSet.flush).
THEOREM MembersStayLedgered == Spec => []MembersAreLedgered
<1>1. IInv => MembersAreLedgered
  BY DEF IInv
<1>. QED
  BY <1>1, SpecInv, PTL

\* Every value stays of its type, and no two open transactions ever hold locks that
\* exclude each other (Blockers, LockRows, LockObject).
THEOREM RowsStayTyped == Spec => []TypeOK
<1>1. IInv => TypeOK
  BY DEF IInv
<1>. QED
  BY <1>1, SpecInv, PTL
-----------------------------------------------------------------------------
(* The folding of deleted facts. *)

LEMMA FactsFollowGrants == FactsAreGrants <=> (fact <=> Grants # {})
BY DEF FactsAreGrants, Grants

LEMMA FoldsLast ==
    ASSUME NEW x, NEW K, Folds(x, K), Grants' = Grants
    PROVE  Folds(x, K)'
BY DEF Folds, Folded, Gone

\* A step of one transaction that changes no grant.
LEMMA FoldsKept ==
    ASSUME IInv, FoldInv, NEW p \in Passes, NEW r, NEW H,
           pass' = [pass EXCEPT ![p] = r], held' = [held EXCEPT ![p] = H],
           Grants' = Grants, fact' = fact, r = NoPass \/ Folds(r, H)
    PROVE  FoldInv'
<1>1. pass \in [Passes -> PassRow \cup {NoPass}] /\ held \in [Passes -> SUBSET Locks]
  BY DEF IInv, TypeOK
<1>2. FactsAreGrants'
  <2>1. fact' <=> Grants' # {}
    BY FactsFollowGrants DEF FoldInv
  <2>. QED
    BY <2>1 DEF FactsAreGrants, Grants
<1>3. ASSUME NEW q \in Passes, Open(q)'
      PROVE  Folds(pass[q], held[q])'
  <2>1. PICK x, K : x = pass'[q] /\ K = held'[q]
    OBVIOUS
  <2>2. CASE q = p
    <3>1. Folds(x, K)
      BY <1>1, <1>3, <2>1, <2>2 DEF Open
    <3>. QED
      BY <2>1, <3>1, FoldsLast
  <2>3. CASE q # p
    <3>1. Folds(x, K)
      BY <1>1, <1>3, <2>1, <2>3 DEF Open, FoldInv
    <3>. QED
      BY <2>1, <3>1, FoldsLast
  <2>. QED
    BY <2>2, <2>3
<1>. QED
  BY <1>2, <1>3 DEF FoldInv

LEMMA LocalFolds ==
    ASSUME IInv, FoldInv, NEW p \in Passes, NEW r, NEW ls, Local(p, r, ls),
           Folds(r, held[p] \cup (ls \ {NoLock}))
    PROVE  FoldInv'
<1>1. Grants' = Grants /\ fact' = fact
  BY DEF Local, stored, Grants
<1>2. /\ pass' = [pass EXCEPT ![p] = r]
      /\ held' = [held EXCEPT ![p] = held[p] \cup (ls \ {NoLock})]
  BY DEF Local, Becomes, Takes, IInv, TypeOK
<1>. QED
  BY <1>1, <1>2, FoldsKept

LEMMA BeginningFolds ==
    ASSUME IInv, FoldInv, NEW p \in Passes, Vacant(p), NEW r, Unwritten(r),
           pass' = [pass EXCEPT ![p] = r], held' = held, Grants' = Grants, fact' = fact
    PROVE  FoldInv'
BY VacantHoldsNothing, UnwrittenIsIdle, FoldsKept

\* Until the object's row is locked, nothing is written.
LEMMA ReadingWritesNothing ==
    ASSUME IInv, NEW p \in Passes,
           \/ ReadExisting(p) \/ ReadMatching(p) \/ ReadObject(p) \/ TakeAdvisory(p) \/ LockRows(p)
           \/ ShareRows(p) \/ LockForDeactivation(p) \/ DeleteObject(p)
    PROVE  \E r, ls : Local(p, r, ls) /\ Unwritten(r)
<1> DEFINE s == pass[p]
<1>1. s \in PassRow /\ Unwritten(s)
  <2>1. Open(p) /\ s.at \notin {"work", "todo", "commit"}
    BY DEF ReadExisting, ReadMatching, ReadObject, TakeAdvisory, LockRows, ShareRows,
           LockForDeactivation, DeleteObject, Free
  <2>. QED
    BY <2>1, OpenFacts DEF Progress
<1>2. CASE ReadExisting(p)
  <2> DEFINE r == [s EXCEPT !.at = "matching", !.on = {b \in Bindings : member[b]}]
             ls == {}
  <2>1. Local(p, r, ls)
    BY <1>2 DEF ReadExisting
  <2>2. Unwritten(r)
    BY <1>1 DEF PassRow, Unwritten
  <2> HIDE DEF r, ls
  <2>. QED
    BY <2>1, <2>2
<1>3. CASE ReadMatching(p)
  <2> DEFINE r == [s EXCEPT !.on = s.on \cup Matching, !.left = s.on \cup Matching,
                           !.at = IF s.kind = "object" THEN "project"
                                  ELSE IF s.on \cup Matching = {} THEN "mirror" ELSE "share"]
             ls == {}
  <2>1. Local(p, r, ls)
    BY <1>3 DEF ReadMatching
  <2>2. Unwritten(r)
    BY <1>1 DEF PassRow, Unwritten
  <2> HIDE DEF r, ls
  <2>. QED
    BY <2>1, <2>2
<1>4. CASE ReadObject(p)
  <2> DEFINE r == [s EXCEPT !.obj = mirror,
                    !.at = CASE s.kind = "object" -> IF s.left = {} THEN "rows" ELSE "adv"
                             [] s.kind = "binding" -> "work"
                             [] s.kind = "created" -> IF mirror = "match" THEN "mirror" ELSE "commit"
                             [] OTHER -> IF mirror = "absent" THEN "commit" ELSE "matching"]
             ls == {}
  <2>1. Local(p, r, ls)
    BY <1>4 DEF ReadObject
  <2>2. Unwritten(r)
    BY <1>1 DEF PassRow, Unwritten
  <2> HIDE DEF r, ls
  <2>. QED
    BY <2>1, <2>2
<1>5. CASE TakeAdvisory(p)
  <2> DEFINE r == [s EXCEPT !.left = s.left \ {Min(s.left)},
                    !.at = IF s.left \ {Min(s.left)} # {} THEN "adv"
                           ELSE IF s.kind \in Deactivation THEN "upd" ELSE "rows"]
             ls == {Wants(p)}
  <2>1. Local(p, r, ls)
    BY <1>5 DEF TakeAdvisory
  <2>2. Unwritten(r)
    BY <1>1 DEF PassRow, Unwritten
  <2> HIDE DEF r, ls
  <2>. QED
    BY <2>1, <2>2
<1>6. CASE LockRows(p)
  <2> DEFINE r == [s EXCEPT !.left = s.on,
                    !.at = IF s.kind = "binding" THEN "project"
                           ELSE IF s.obj = "absent" THEN "work" ELSE "mirror"]
             ls == {<<"nku", b>> : b \in {c \in s.on : status[c] # "GONE"}}
  <2>1. Local(p, r, ls)
    BY <1>6 DEF LockRows
  <2>2. Unwritten(r)
    BY <1>1 DEF PassRow, Unwritten
  <2> HIDE DEF r, ls
  <2>. QED
    BY <2>1, <2>2
<1>7. CASE ShareRows(p)
  <2> DEFINE on == IF status[Min(s.left)] = "ACTIVE" THEN s.on ELSE s.on \ {Min(s.left)}
             r == [s EXCEPT !.left = s.left \ {Min(s.left)}, !.on = on,
                    !.at = IF s.left # {Min(s.left)} THEN "share"
                           ELSE IF s.kind # "created" THEN "mirror"
                           ELSE IF on = {} THEN "commit" ELSE "project"]
             ls == IF status[Min(s.left)] = "GONE" THEN {} ELSE {Wants(p)}
  <2>1. Local(p, r, ls)
    BY <1>7 DEF ShareRows
  <2>2. Unwritten(r)
    BY <1>1 DEF PassRow, Unwritten
  <2> HIDE DEF r, ls
  <2>. QED
    BY <2>1, <2>2
<1>8. CASE LockForDeactivation(p)
  <2> DEFINE r == [s EXCEPT !.at = "act"]
             ls == {Wants(p)}
  <2>1. Local(p, r, ls)
    BY <1>8 DEF LockForDeactivation
  <2>2. Unwritten(r)
    BY <1>1 DEF PassRow, Unwritten
  <2> HIDE DEF r, ls
  <2>. QED
    BY <2>1, <2>2
<1>9. CASE DeleteObject(p)
  <2> DEFINE r == [s EXCEPT !.at = "commit"]
             ls == {Wants(p)}
  <2>1. Local(p, r, ls)
    BY <1>9 DEF DeleteObject
  <2>2. Unwritten(r)
    BY <1>1 DEF PassRow, Unwritten
  <2> HIDE DEF r, ls
  <2>. QED
    BY <2>1, <2>2
<1>. QED
  BY <1>2, <1>3, <1>4, <1>5, <1>6, <1>7, <1>8, <1>9

LEMMA ReadingFolds ==
    ASSUME IInv, FoldInv, NEW p \in Passes,
           \/ ReadExisting(p) \/ ReadMatching(p) \/ ReadObject(p) \/ TakeAdvisory(p) \/ LockRows(p)
           \/ ShareRows(p) \/ LockForDeactivation(p) \/ DeleteObject(p)
    PROVE  FoldInv'
BY ReadingWritesNothing, UnwrittenIsIdle, LocalFolds
LEMMA BeginsFolding ==
    ASSUME IInv, FoldInv, NEW p \in Passes,
           \/ \E e \in events : Drain(p, e)
           \/ \E b \in Bindings : Sweep(p, b) \/ CreateBinding(p, b) \/ \E k \in Deactivation : Deactivate(p, k, b)
           \/ \E m \in Mirrors : Register(p, m)
           \/ Unregister(p)
    PROVE  FoldInv'
<1>1. Vacant(p) /\ held' = held /\ fact' = fact
  BY DEF Drain, Sweep, CreateBinding, Deactivate, Register, Unregister
<1>2. Grants' = Grants
  <2>1. CASE \E b \in Bindings : CreateBinding(p, b)
    <3>1. PICK b \in Bindings : status[b] = "new" /\ status' = [status EXCEPT ![b] = "ACTIVE"] /\ ledger' = ledger
      BY <2>1 DEF CreateBinding
    <3>2. ~ledger[b]
      BY <3>1 DEF IInv, NewInv
    <3>3. \A c \in Bindings : (status'[c] = "ACTIVE" /\ ledger'[c]) <=> (status[c] = "ACTIVE" /\ ledger[c])
      BY <3>1, <3>2 DEF IInv, TypeOK
    <3>. QED
      BY <3>3 DEF Grants
  <2>2. CASE ~\E b \in Bindings : CreateBinding(p, b)
    <3>1. status' = status /\ ledger' = ledger
      BY <2>2 DEF Drain, Sweep, Deactivate, Register, Unregister
    <3>. QED
      BY <3>1 DEF Grants
  <2>. QED
    BY <2>1, <2>2
<1>3. PICK r : Unwritten(r) /\ pass' = [pass EXCEPT ![p] = r]
  <2>1. \A k, at, b, e : Unwritten(Opened(k, at, b, e))
    BY DEF Unwritten, Opened
  <2>2. \A k, at, b, e, on, left : /\ Unwritten([Opened(k, at, b, e) EXCEPT !.on = on, !.left = left])
                                   /\ Unwritten([Opened(k, at, b, e) EXCEPT !.left = left])
    BY DEF Unwritten, Opened
  <2>3. CASE \E e \in events : Drain(p, e)
    BY <2>1, <2>3 DEF Drain, Begin, Becomes
  <2>4. CASE \E b \in Bindings : Sweep(p, b)
    BY <2>2, <2>4 DEF Sweep, Begin, Becomes
  <2>5. CASE \E b \in Bindings : CreateBinding(p, b)
    BY <2>2, <2>5 DEF CreateBinding, Begin, Becomes
  <2>6. CASE \E b \in Bindings, k \in Deactivation : Deactivate(p, k, b)
    BY <2>2, <2>6 DEF Deactivate, Begin, Becomes
  <2>7. CASE \E m \in Mirrors : Register(p, m)
    BY <2>1, <2>7 DEF Register, Begin, Becomes
  <2>8. CASE Unregister(p)
    BY <2>1, <2>8 DEF Unregister, Begin, Becomes
  <2>. QED
    BY <2>3, <2>4, <2>5, <2>6, <2>7, <2>8
<1>. QED
  BY <1>1, <1>2, <1>3, BeginningFolds

\* A pass that goes over to the full pass, that is lost or that ends has written nothing.
LEMMA EndingFolds ==
    ASSUME IInv, FoldInv, NEW p \in Passes,
           Peek(p) \/ MarkSent(p) \/ CommitWithdrawal(p) \/ Abort(p) \/ Victim(p)
    PROVE  FoldInv'
<1>1. held \in [Passes -> SUBSET Locks]
  BY DEF IInv, TypeOK
<1>2. Grants' = Grants /\ fact' = fact
  <2>1. status' = status /\ ledger' = ledger /\ fact' = fact
    BY DEF Peek, MarkSent, CommitWithdrawal, Abort, Victim, RolledBack, stored
  <2>. QED
    BY <2>1 DEF Grants
<1>3. \E H : held' = [held EXCEPT ![p] = H]
  <2>1. held = [held EXCEPT ![p] = held[p]]
    BY <1>1
  <2>. QED
    BY <2>1 DEF Peek, MarkSent, CommitWithdrawal, Abort, Victim, RolledBack
<1>4. \E r : pass' = [pass EXCEPT ![p] = r] /\ (r = NoPass \/ Unwritten(r))
  <2>1. \A k, at, b, e : Unwritten(Opened(k, at, b, e))
    BY DEF Unwritten, Opened
  <2>2. CASE Peek(p)
    <3> DEFINE s == pass[p]
               found == {b \in IF s.kind = "created" THEN {s.b} ELSE Bindings : member[b]}
    <3>1. Becomes(p, IF found = {} THEN [s EXCEPT !.at = IF s.kind = "created" THEN "share" ELSE "project"]
                     ELSE IF s.kind = "created"
                     THEN [Opened("binding", "adv", s.b, 0) EXCEPT !.on = {s.b}, !.left = {s.b}]
                     ELSE Opened("object", "existing", 0, 0))
      BY <2>2 DEF Peek
    <3> HIDE DEF found
    <3>2. s \in PassRow /\ Unwritten(s)
      BY <2>2, OpenFacts DEF Peek, Progress
    <3>3. /\ Unwritten([s EXCEPT !.at = IF s.kind = "created" THEN "share" ELSE "project"])
          /\ Unwritten([Opened("binding", "adv", s.b, 0) EXCEPT !.on = {s.b}, !.left = {s.b}])
          /\ Unwritten(Opened("object", "existing", 0, 0))
      BY <3>2 DEF PassRow, Unwritten, Opened
    <3>. QED
      BY <3>1, <3>3 DEF Becomes
  <2>3. CASE CommitWithdrawal(p)
    BY <2>1, <2>3 DEF CommitWithdrawal, Becomes
  <2>4. CASE MarkSent(p) \/ Abort(p) \/ Victim(p)
    BY <2>4 DEF MarkSent, Abort, Victim, RolledBack, Becomes
  <2>. QED
    BY <2>2, <2>3, <2>4
<1>5. PICK r, H : /\ pass' = [pass EXCEPT ![p] = r] /\ (r = NoPass \/ Unwritten(r))
                  /\ held' = [held EXCEPT ![p] = H]
  BY <1>3, <1>4
<1>6. r = NoPass \/ Folds(r, H)
  BY <1>5, UnwrittenIsIdle
<1>. QED
  BY <1>2, <1>5, <1>6, FoldsKept

\* The same writes, with more locks and no more bindings to go through.
LEMMA SameWritesFold ==
    ASSUME NEW r, NEW x, NEW H, NEW K, SameWrites(r, x), H \subseteq K, x.left \subseteq r.left, Folds(r, H)
    PROVE  Folds(x, K)
BY DEF SameWrites, Folds, Folded, Gone

LEMMA LockObjectFolds ==
    ASSUME IInv, FoldInv, NEW p \in Passes, LockObject(p)
    PROVE  FoldInv'
<1> DEFINE s == pass[p]
           r == Found(s, Live)
           ls == IF Live THEN {<<"mkey", 0>>} ELSE {}
<1>1. s \in PassRow /\ Unwritten(s) /\ s.kind \in Full \cup Forward
  BY OpenFacts DEF LockObject, Progress, PhasesOf, PassRow, Kinds, Full, Forward, Deactivation
<1>2. /\ r.ldrop = {} /\ ~r.ends /\ ~r.erased
      /\ \A op \in r.todo : op[1] \in {"mem", "led", "fact"}
  <2>1. CASE s.kind = "object"
    BY <2>1, <1>1 DEF Found, PassRow, Unwritten, Forward
  <2>2. CASE s.kind = "binding"
    <3>1. \A op \in AddWrites(s, s.b) : op[1] \in {"mem", "led", "fact"}
      BY DEF AddWrites
    <3>. QED
      BY <2>2, <3>1, <1>1 DEF Found, PassRow, Unwritten, Forward
  <2>3. CASE s.kind \in Forward
    <3>1. \A op \in ForwardWrites(s) : op[1] \in {"mem", "led", "fact"}
      BY DEF ForwardWrites
    <3>. QED
      BY <2>3, <3>1, <1>1 DEF Found, PassRow, Unwritten, Forward
  <2>. QED
    BY <1>1, <2>1, <2>2, <2>3 DEF Full
<1>3. Local(p, r, ls)
  BY DEF LockObject
<1> HIDE DEF r, ls
<1>4. Folds(r, held[p] \cup (ls \ {NoLock}))
  <2>1. Gone(r) = {} /\ <<"erase", 0>> \notin r.todo
    BY <1>2 DEF Gone
  <2>. QED
    BY <1>2, <2>1 DEF Folds
<1>. QED
  BY <1>3, <1>4, LocalFolds

LEMMA CompareFolds ==
    ASSUME IInv, FoldInv, NEW p \in Passes, Compare(p)
    PROVE  FoldInv'
<1> DEFINE s == pass[p]
           H == held[p]
           b == Min(s.left)
           done == [s EXCEPT !.left = s.left \ {b}]
<1>1. /\ s \in PassRow /\ s.todo = {} /\ s.left # {} /\ Folds(s, H) /\ ~s.erased
  BY OpenFacts DEF Compare, Progress, FoldInv, Folds
<1>2. Local(p, IF status[b] # "ACTIVE" \/ (s.obj = "match") = member[b] THEN done
               ELSE IF ~(s.obj = "match") THEN [done EXCEPT !.at = "todo", !.todo = DropWrites(b)]
               ELSE IF s.kind = "binding" THEN [done EXCEPT !.at = "mirror"]
               ELSE [done EXCEPT !.at = "todo", !.todo = AddWrites(s, b)], {})
  BY DEF Compare
<1>3. H \cup ({} \ {NoLock}) = H
  OBVIOUS
<1> HIDE DEF b
<1>4. done \in PassRow /\ SameWrites(s, done) /\ done.left \subseteq s.left
  BY <1>1 DEF PassRow, SameWrites
<1>5. Folds(done, H)
  BY <1>1, <1>4, SameWritesFold
<1> HIDE DEF done
<1>6. CASE Local(p, done, {})
  BY <1>3, <1>5, <1>6, LocalFolds
<1>7. CASE Local(p, [done EXCEPT !.at = "mirror"], {})
  <2> DEFINE r == [done EXCEPT !.at = "mirror"]
  <2>1. SameWrites(done, r) /\ r.left \subseteq done.left
    BY <1>4 DEF PassRow, SameWrites
  <2>2. Folds(r, H)
    BY <1>5, <2>1, SameWritesFold
  <2>. QED
    BY <1>3, <1>7, <2>2, LocalFolds
<1>8. ASSUME NEW ops, Local(p, [done EXCEPT !.at = "todo", !.todo = ops], {}),
             ops = DropWrites(b) \/ ops = AddWrites(s, b)
      PROVE  FoldInv'
  <2> DEFINE r == [done EXCEPT !.at = "todo", !.todo = ops]
  <2>1. /\ r.todo = ops /\ Gone(r) = Gone(done) /\ r.wrote = done.wrote /\ r.erased = done.erased
        /\ r.pending = done.pending
    BY <1>4 DEF PassRow, Gone
  <2>2. <<"erase", 0>> \notin ops
    BY <1>8 DEF DropWrites, AddWrites
  <2> HIDE DEF r
  <2>3. ~done.erased /\ done.todo = {}
    BY <1>1, <1>4 DEF SameWrites
  <2>4. Folds(r, H)
    BY <1>5, <2>1, <2>2, <2>3 DEF Folds, Folded
  <2>. QED
    BY <1>3, <1>8, <2>4, LocalFolds DEF r
<1>. QED
  BY <1>2, <1>6, <1>7, <1>8
LEMMA FlushFolds ==
    ASSUME IInv, FoldInv, NEW p \in Passes, Flush(p) \/ Written(p)
    PROVE  FoldInv'
<1> DEFINE s == pass[p]
           H == held[p]
           stamps == {<<"erase", 0>>} \cup IF SlowFold THEN {<<"stamp", 0>>} ELSE {}
<1>1. s \in PassRow /\ Folds(s, H) /\ Open(p)
  BY OpenFacts DEF Flush, Written, FoldInv
<1>2. H \cup ({} \ {NoLock}) = H
  OBVIOUS
<1>3. CASE Flush(p) /\ s.pending /\ ~s.wrote
  <2> DEFINE r == [s EXCEPT !.at = "todo", !.pending = FALSE, !.todo = stamps]
  <2>1. Local(p, r, {}) /\ s.left = {}
    BY <1>3 DEF Flush
  <2>2. \A op \in stamps : op[1] \in {"stamp", "erase"}
    OBVIOUS
  <2>3. <<"erase", 0>> \in stamps
    OBVIOUS
  <2> HIDE DEF stamps
  <2>4. r.todo = stamps /\ ~r.pending /\ r.left = s.left /\ r.erased = s.erased
    BY <1>1 DEF PassRow
  <2> HIDE DEF r
  <2>5. ~s.erased
    BY <1>1, <1>3 DEF Folds
  <2>6. Folds(r, H)
    BY <2>1, <2>2, <2>3, <2>4, <2>5 DEF Folds
  <2>. QED
    BY <1>2, <2>1, <2>6, LocalFolds
<1>4. ASSUME NEW at, Local(p, [s EXCEPT !.at = at], {})
      PROVE  FoldInv'
  <2> DEFINE r == [s EXCEPT !.at = at]
  <2>1. SameWrites(s, r) /\ r.left \subseteq s.left
    BY <1>1 DEF PassRow, SameWrites
  <2>2. Folds(r, H)
    BY <1>1, <2>1, SameWritesFold
  <2>. QED
    BY <1>2, <1>4, <2>2, LocalFolds
<1>5. CASE Flush(p) /\ ~(s.pending /\ ~s.wrote)
  <2>1. Local(p, [s EXCEPT !.at = "commit"], {})
    BY <1>5 DEF Flush
  <2>. QED
    BY <1>4, <2>1
<1>6. CASE Written(p)
  <2>1. Local(p, [s EXCEPT !.at = IF s.kind \in Forward THEN "commit" ELSE "work"], {})
    BY <1>6 DEF Written
  <2>. QED
    BY <1>4, <2>1
<1>. QED
  BY <1>3, <1>5, <1>6

LEMMA ActFolds ==
    ASSUME IInv, FoldInv, NEW p \in Passes, Act(p)
    PROVE  FoldInv'
<1> DEFINE s == pass[p]
           H == held[p]
<1>1. s \in PassRow /\ Unwritten(s) /\ s.b \in Bindings /\ ledger \in [Bindings -> BOOLEAN]
  BY OpenFacts DEF Act, Progress, PhasesOf, PassRow, Kinds, Full, Forward
<1>2. H \cup ({} \ {NoLock}) = H
  OBVIOUS
<1>3. \/ Local(p, [s EXCEPT !.at = "todo", !.ends = TRUE, !.todo = DropWrites(s.b)], {})
      \/ Local(p, [s EXCEPT !.at = "work", !.ends = TRUE, !.pending = ledger[s.b]], {})
      \/ Local(p, [s EXCEPT !.at = "commit"], {})
  <2>1. CASE s.kind = "delete" /\ status[s.b] # "GONE"
    BY <2>1 DEF Act, Deletes
  <2>2. CASE s.kind = "expire" /\ status[s.b] = "ACTIVE"
    BY <2>2 DEF Act, Expires
  <2>3. CASE s.kind = "revoke" /\ status[s.b] = "ACTIVE"
    BY <2>3 DEF Act, Revokes
  <2>4. CASE /\ ~(s.kind = "delete" /\ status[s.b] # "GONE")
             /\ ~(s.kind = "expire" /\ status[s.b] = "ACTIVE")
             /\ ~(s.kind = "revoke" /\ status[s.b] = "ACTIVE")
    BY <2>4 DEF Act
  <2>. QED
    BY <2>1, <2>2, <2>3, <2>4
<1>4. CASE Local(p, [s EXCEPT !.at = "todo", !.ends = TRUE, !.todo = DropWrites(s.b)], {})
  <2> DEFINE r == [s EXCEPT !.at = "todo", !.ends = TRUE, !.todo = DropWrites(s.b)]
  <2>1. r.todo = DropWrites(s.b) /\ ~r.erased
    BY <1>1 DEF PassRow, Unwritten
  <2>2. <<"forget", s.b>> \in DropWrites(s.b) /\ <<"erase", 0>> \notin DropWrites(s.b)
    BY DEF DropWrites
  <2> HIDE DEF r
  <2>3. \E op \in r.todo : op[1] = "forget"
    BY <2>1, <2>2
  <2>4. Folds(r, H)
    BY <2>1, <2>2, <2>3 DEF Folds
  <2>. QED
    BY <1>2, <1>4, <2>4, LocalFolds DEF r
<1>5. CASE Local(p, [s EXCEPT !.at = "work", !.ends = TRUE, !.pending = ledger[s.b]], {})
  <2> DEFINE r == [s EXCEPT !.at = "work", !.ends = TRUE, !.pending = ledger[s.b]]
  <2>1. r.todo = {} /\ ~r.erased /\ r.ldrop = {} /\ r.b = s.b /\ r.pending = ledger[s.b]
    BY <1>1 DEF PassRow, Unwritten
  <2> HIDE DEF r
  <2>2. Gone(r) \subseteq {s.b}
    BY <2>1 DEF Gone
  <2>3. Grants \cap Gone(r) # {} => r.pending
    BY <2>1, <2>2 DEF Grants
  <2>4. Folds(r, H)
    BY <2>1, <2>3 DEF Folds
  <2>. QED
    BY <1>2, <1>5, <2>4, LocalFolds DEF r
<1>6. CASE Local(p, [s EXCEPT !.at = "commit"], {})
  <2> DEFINE r == [s EXCEPT !.at = "commit"]
  <2>1. Unwritten(r)
    BY <1>1 DEF PassRow, Unwritten
  <2>2. Folds(r, H)
    BY <2>1, UnwrittenIsIdle
  <2>. QED
    BY <1>2, <1>6, <2>2, LocalFolds
<1>. QED
  BY <1>3, <1>4, <1>5, <1>6

\* A delete row is folded by its own statement, before the fact's version can move.
FoldsAtOnce == ~SlowFold

LEMMA WriteFolds ==
    ASSUME FoldsAtOnce, IInv, FoldInv, NEW p \in Passes, Write(p)
    PROVE  FoldInv'
<1>0. PICK s \in PassRow : s = pass[p]
  BY OpenFacts DEF Write, Free
<1>1. PICK H : s = pass[p] /\ H = held[p]
  BY <1>0
<1>2. /\ Open(p) /\ s.at = "todo" /\ s.todo # {} /\ Folds(s, H) /\ OneWay(s) /\ Drops(s, H)
      /\ FactsAreGrants /\ MembersAreLedgered /\ fact \in BOOLEAN
      /\ member \in [Bindings -> BOOLEAN] /\ ledger \in [Bindings -> BOOLEAN]
  BY <1>1, OpenFacts DEF Write, Free, FoldInv, IInv, TypeOK
<1>3. PICK op \in s.todo : \E x \in PassRow :
             /\ op = FirstOf(s.todo)
             /\ AfterWrite(s, op, x)
             /\ x.erased = (IF op[1] = "erase" THEN Erases(p) ELSE s.erased)
             /\ Moves(p, x, H \cup WriteLocks(op))
  BY <1>1, WriteIs
<1>4. PICK x \in PassRow :
             /\ op = FirstOf(s.todo)
             /\ AfterWrite(s, op, x)
             /\ x.erased = (IF op[1] = "erase" THEN Erases(p) ELSE s.erased)
             /\ Moves(p, x, H \cup WriteLocks(op))
  BY <1>3
<1>5. ~s.erased /\ op \in Ops
  BY <1>2, <1>3 DEF Folds, PassRow
<1>6. s.todo \in SUBSET Ops
  BY DEF PassRow
<1> DEFINE K == H \cup WriteLocks(op)
<1>7. /\ x.todo = s.todo \ {op} /\ x.left = s.left /\ x.ends = s.ends /\ x.b = s.b
      /\ x.wrote = (s.wrote \/ op[1] = "fact")
      /\ x.ladd = s.ladd \cup IF op[1] = "led" /\ ~ledger[op[2]] THEN {op[2]} ELSE {}
      /\ x.ldrop = s.ldrop \cup IF op[1] = "forget" /\ ledger[op[2]] THEN {op[2]} ELSE {}
      /\ x.pending = (s.pending \/ (op[1] = "forget" /\ ledger[op[2]]))
      /\ x.erased = (IF op[1] = "erase" THEN Erases(p) ELSE s.erased)
  BY <1>4 DEF AfterWrite
<1>8. H \subseteq K
  OBVIOUS
<1> HIDE DEF K
<1>9. ASSUME op[1] \in {"mem", "led", "unmem", "stamp"}
      PROVE  Folds(x, K)
  <2>1. Gone(x) = Gone(s) /\ x.wrote = s.wrote /\ x.pending = s.pending /\ ~x.erased
    <3>1. x.ldrop = s.ldrop
      BY <1>7, <1>9
    <3>2. s.wrote \in BOOLEAN /\ s.pending \in BOOLEAN
      BY DEF PassRow
    <3>3. x.wrote = s.wrote /\ x.pending = s.pending
      BY <1>7, <1>9, <3>2
    <3>. QED
      BY <1>5, <1>7, <1>9, <3>1, <3>3 DEF Gone
  <2>2. \A o \in s.todo : o[1] \in {"forget", "erase"} => o \in x.todo
    BY <1>7, <1>9
  <2>3. Folds(x, K)
    BY <1>2, <1>5, <1>7, <1>8, <2>1, <2>2 DEF Folds, Folded
  <2>. QED
    BY <2>3
<1>10. ASSUME op[1] = "fact"
       PROVE  Folds(x, K)
  <2>1. ~Dropping(s)
    BY <1>2, <1>10 DEF OneWay, Adding
  <2>2. Gone(x) = {} /\ ~x.erased /\ <<"erase", 0>> \notin x.todo
    BY <1>5, <1>7, <1>10, <2>1 DEF Gone, Dropping
  <2>. QED
    BY <2>2 DEF Folds
<1>11. ASSUME op[1] = "forget"
       PROVE  Folds(x, K)
  <2>1. op[2] \in Bindings /\ op = <<"forget", op[2]>>
    BY <1>5, <1>11 DEF Ops
  <2>2. <<"erase", 0>> \notin s.todo
    BY <1>2, <1>3, <1>11 DEF Folds
  <2>3. CASE ledger[op[2]]
    <3>1. x.pending /\ ~x.erased /\ <<"erase", 0>> \notin x.todo
      BY <1>5, <1>7, <1>11, <2>2, <2>3
    <3>. QED
      BY <3>1 DEF Folds
  <2>4. CASE ~ledger[op[2]]
    <3>1. <<"unmem", op[2]>> \in s.todo /\ Losing(s, H, op[2])
      BY <1>2, <1>3, <2>1 DEF Drops
    <3>2. s.ends /\ op[2] = s.b
      BY <1>2, <2>1, <2>4, <3>1 DEF Losing, MembersAreLedgered
    <3>3. \A b \in s.ldrop : b = s.b
      BY <1>2, <3>2 DEF Drops, Losing, PassRow
    <3>4. Gone(x) = {s.b} /\ ~x.erased /\ <<"erase", 0>> \notin x.todo
      BY <1>5, <1>7, <1>11, <2>2, <2>4, <3>2, <3>3 DEF Gone
    <3>5. Grants \cap Gone(x) = {}
      BY <2>4, <3>2, <3>4 DEF Grants
    <3>. QED
      BY <3>4, <3>5 DEF Folds
  <2>. QED
    BY <2>3, <2>4
<1>12. ASSUME op[1] = "erase"
       PROVE  Folds(x, K)
  <2>1. op = <<"erase", 0>>
    BY <1>5, <1>12 DEF Ops
  <2>2. s.left = {} /\ ~s.pending /\ \A o \in s.todo : o[1] \in {"stamp", "erase"}
    BY <1>2, <1>3, <2>1 DEF Folds
  <2>3. \A o \in s.todo : Stage(op) <= Stage(o)
    BY <1>2, <1>4, <1>6, FirstIsIn
  <2>4. x.todo = {}
    <3>1. \A o \in s.todo : o[1] # "stamp"
      BY <2>1, <2>3 DEF Stage
    <3>2. \A o \in s.todo : o = <<"erase", 0>>
      BY <1>6, <2>2, <3>1 DEF Ops
    <3>. QED
      BY <1>7, <2>1, <3>2
  <2>5. ~Adding(s)
    BY <1>2, <1>3, <1>12 DEF OneWay, Dropping
  <2>6. ~x.wrote /\ s.ladd = {} /\ Gone(x) = Gone(s) /\ ~x.pending
    BY <1>7, <1>12, <2>2, <2>5 DEF Adding, Gone
  <2>7. fact => <<"fact", 0>> \in K
    BY <2>1 DEF WriteLocks, K
  <2>8. Holders(p) = Grants \ Gone(s)
    BY <1>1, <2>6 DEF Holders, Grants, Gone
  <2>9. x.erased <=> fact /\ Grants \subseteq Gone(x)
    <3>1. Erases(p) <=> fact /\ Holders(p) = {}
      BY DEF Erases, StampedLater, FoldsAtOnce
    <3>. QED
      BY <1>7, <1>12, <2>6, <2>8, <3>1
  <2>10. fact <=> Grants # {}
    BY <1>2, FactsFollowGrants
  <2>11. fact => Folded(x, K)
    BY <2>6, <2>7, <2>9 DEF Folded
  <2>. QED
    BY <1>7, <2>2, <2>4, <2>6, <2>9, <2>10, <2>11 DEF Folds
<1>13. Folds(x, K)
  BY <1>5, <1>9, <1>10, <1>11, <1>12 DEF Ops
<1>14. Grants' = Grants /\ fact' = fact /\ pass' = [pass EXCEPT ![p] = x] /\ held' = [held EXCEPT ![p] = K]
  BY <1>4 DEF Moves, Grants, K
<1>. QED
  BY <1>13, <1>14, FoldsKept
LEMMA CommitFolds ==
    ASSUME IInv, FoldInv, NEW p \in Passes, Commit(p)
    PROVE  FoldInv'
<1>0. PICK s \in PassRow : s = pass[p]
  BY OpenFacts DEF Commit
<1>1. PICK H : H = held[p]
  OBVIOUS
<1>2. /\ Open(p) /\ s.at = "commit" /\ Folds(s, H) /\ Exclusive /\ FactsAreGrants /\ fact \in BOOLEAN
      /\ pass \in [Passes -> PassRow \cup {NoPass}] /\ held \in [Passes -> SUBSET Locks]
      /\ status \in [Bindings -> {"new", "ACTIVE", "REVOKED", "GONE"}]
      /\ ledger \in [Bindings -> BOOLEAN]
  BY <1>0, <1>1 DEF Commit, FoldInv, IInv, TypeOK
<1>3. /\ ledger' = [b \in Bindings |-> (ledger[b] \/ b \in s.ladd) /\ b \notin s.ldrop]
      /\ status' = (IF s.ends THEN [status EXCEPT ![s.b] = IF s.kind = "delete" THEN "GONE" ELSE "REVOKED"]
                    ELSE status)
      /\ fact' = ((fact \/ s.wrote) /\ ~s.erased)
      /\ held' = [held EXCEPT ![p] = {}]
  BY <1>0 DEF Commit
<1>4. /\ \A b \in Bindings : /\ b \in s.madd => Secured(H, b) /\ (b \in s.ladd \/ ledger[b])
                             /\ b \in s.ladd => b \in s.madd /\ <<"led", b>> \in H /\ s.wrote
                             /\ b \in Gone(s) => <<"adv", b>> \in H
      /\ s.ends => s.b \in Bindings
      /\ s.ladd # {} \/ s.wrote => Gone(s) = {} /\ ~s.erased
      /\ s.wrote => <<"fact", 0>> \in H /\ s.madd # {}
      /\ ~s.pending /\ s.todo = {}
  BY <1>0, <1>1, <1>2, CommitFacts DEF Gone
<1>5. Grants' = (Grants \cup s.ladd) \ Gone(s)
  <2>1. \A b \in Bindings : status'[b] = "ACTIVE" <=> status[b] = "ACTIVE" /\ ~(s.ends /\ b = s.b)
    BY <1>2, <1>3
  <2>2. \A b \in Bindings : ledger'[b] <=> (ledger[b] \/ b \in s.ladd) /\ b \notin s.ldrop
    BY <1>3
  <2>3. \A b \in Bindings : b \in s.ladd => status[b] = "ACTIVE"
    BY <1>4 DEF Secured
  <2>4. \A b \in Bindings : b \in Gone(s) <=> b \in s.ldrop \/ (s.ends /\ b = s.b)
    BY DEF Gone
  <2>5. \A b \in Bindings : b \in Grants' <=> (b \in Grants \/ b \in s.ladd) /\ b \notin Gone(s)
    BY <2>1, <2>2, <2>3, <2>4 DEF Grants
  <2>6. Grants' \subseteq Bindings /\ Grants \subseteq Bindings /\ s.ladd \subseteq Bindings
    BY DEF Grants, PassRow
  <2>. QED
    BY <2>5, <2>6
<1>6. ~s.wrote => s.ladd = {} /\ Grants' = Grants \ Gone(s)
  BY <1>4, <1>5 DEF PassRow
<1>7. Grants \cap Gone(s) # {} \/ s.erased => Folded(s, H)
  BY <1>2, <1>4 DEF Folds
<1>8. (fact <=> Grants # {}) /\ s.erased \in BOOLEAN /\ s.wrote \in BOOLEAN
  BY <1>2, FactsFollowGrants DEF PassRow
<1>9. fact' <=> Grants' # {}
  <2>1. CASE s.wrote
    <3>1. PICK b \in Bindings : b \in s.madd
      BY <1>4, <2>1 DEF PassRow
    <3>2. b \in Grants \cup s.ladd
      BY <1>4, <3>1 DEF Secured, Grants
    <3>3. fact' /\ b \in Grants'
      BY <1>3, <1>4, <1>5, <2>1, <3>2
    <3>. QED
      BY <3>3
  <2>2. CASE ~s.wrote /\ Folded(s, H)
    BY <1>3, <1>6, <1>8, <2>2 DEF Folded
  <2>3. CASE ~s.wrote /\ ~Folded(s, H)
    BY <1>3, <1>6, <1>7, <1>8, <2>3
  <2>. QED
    BY <2>1, <2>2, <2>3
<1>10. ASSUME NEW q \in Passes \ {p}, Open(q)
       PROVE  Folds(pass[q], held[q])'
  <2>1. PICK x \in PassRow : x = pass[q]
    BY <1>10, OpenFacts
  <2>2. PICK K : K = held[q]
    OBVIOUS
  <2>3. /\ Folds(x, K) /\ Drops(x, K) /\ Progress(x) /\ Guards(x, K) /\ OneWay(x)
    BY <1>10, <2>1, <2>2, OpenFacts DEF FoldInv
  <2>4. x.ends => <<"adv", x.b>> \in K /\ <<"upd", x.b>> \in K /\ x.b \in Bindings
    <3>1. x.ends => x.at \in {"work", "todo", "commit"} /\ x.kind \in Deactivation
      BY <2>3 DEF Progress, Unwritten, OneWay
    <3>. QED
      BY <2>3, <3>1 DEF Guards, Progress
  <2>5. \A b \in Gone(x) : b \in Bindings /\ <<"adv", b>> \in K /\ (<<"led", b>> \in K \/ <<"upd", b>> \in K)
    BY <2>3, <2>4 DEF Gone, Drops, Losing, PassRow
  <2>6. \A b : /\ <<"adv", b>> \in H => <<"adv", b>> \notin K
               /\ <<"led", b>> \in H => <<"led", b>> \notin K
               /\ <<"key", b>> \in H => <<"upd", b>> \notin K
               /\ <<"fact", b>> \in H => <<"fact", b>> \notin K
    BY <1>1, <1>2, <2>2, Excludes
  <2>7. \A b \in Gone(x) : b \notin Gone(s) /\ b \notin s.ladd
    BY <1>4, <2>5, <2>6 DEF Secured
  <2>8. Grants' \cap Gone(x) = Grants \cap Gone(x)
    BY <1>5, <2>7
  <2>9. Folded(x, K) => Folded(x, K)'
    <3>1. <<"fact", 0>> \in K => Grants' = Grants
      <4>1. <<"fact", 0>> \in K => ~s.wrote /\ ~Folded(s, H)
        BY <1>4, <2>6 DEF Folded
      <4>. QED
        BY <1>6, <1>7, <4>1
    <3>. QED
      BY <3>1 DEF Folded, Gone
  <2>10. Gone(x)' = Gone(x)
    BY DEF Gone
  <2>11. Folds(x, K)'
    BY <2>3, <2>8, <2>9, <2>10 DEF Folds
  <2>12. pass'[q] = x /\ held'[q] = K
    BY <1>2, <1>3, <2>1, <2>2 DEF Commit, Becomes
  <2>. QED
    BY <2>11, <2>12
<1>11. Open(p)' => Folds(pass[p], held[p])'
  <2>1. PICK r : r = Opened("object", "sent", 0, s.ev)
    OBVIOUS
  <2>2. pass'[p] \in {r, NoPass}
    BY <1>0, <1>2, <2>1 DEF Commit, Becomes
  <2>3. PICK K : K = held'[p]
    OBVIOUS
  <2>4. Folds(r, K)'
    BY <2>1 DEF Folds, Gone, Opened
  <2>. QED
    BY <2>2, <2>3, <2>4 DEF Open
<1>12. \A q \in Passes \ {p} : Open(q)' => Open(q)
  BY <1>2 DEF Commit, Becomes, Open
<1>13. FactsAreGrants'
  BY <1>9 DEF FactsAreGrants, Grants
<1>. QED
  BY <1>10, <1>11, <1>12, <1>13 DEF FoldInv

LEMMA InitFolds == Init => FoldInv
<1> SUFFICES ASSUME Init PROVE FoldInv
  OBVIOUS
<1>1. Grants = Granted
  BY ConstantsAssumption DEF Init, Grants
<1>2. FactsAreGrants
  BY <1>1, FactsFollowGrants DEF Init
<1>. QED
  BY <1>2 DEF FoldInv, Init, Open

LEMMA NextFolds == ASSUME FoldsAtOnce PROVE IInv /\ FoldInv /\ [Next]_vars => FoldInv'
<1> SUFFICES ASSUME IInv, FoldInv, [Next]_vars PROVE FoldInv'
  OBVIOUS
<1>1. CASE Next
  <2> PICK p \in Passes :
        \/ \E e \in events : Drain(p, e)
        \/ \E b \in Bindings : Sweep(p, b) \/ CreateBinding(p, b) \/ \E k \in Deactivation : Deactivate(p, k, b)
        \/ \E m \in Mirrors : Register(p, m)
        \/ Unregister(p)
        \/ Proceed(p)
        \/ Abort(p)
    BY <1>1 DEF Next
  <2>1. CASE Proceed(p)
    BY <2>1, ReadingFolds, EndingFolds, LockObjectFolds, CompareFolds, FlushFolds, ActFolds,
       WriteFolds, CommitFolds DEF Proceed
  <2>2. CASE Abort(p)
    BY <2>2, EndingFolds
  <2>3. CASE ~Proceed(p) /\ ~Abort(p)
    BY <2>3, BeginsFolding
  <2>. QED
    BY <2>1, <2>2, <2>3
<1>2. CASE UNCHANGED vars
  <2>1. status' = status /\ ledger' = ledger /\ fact' = fact /\ pass' = pass /\ held' = held
    BY <1>2 DEF vars, stored
  <2>2. Grants' = Grants
    BY <2>1 DEF Grants
  <2>3. ASSUME NEW q \in Passes, Open(q)
        PROVE  Folds(pass[q], held[q])'
    <3>1. PICK x, K : x = pass[q] /\ K = held[q]
      OBVIOUS
    <3>2. Folds(x, K)'
      BY <2>2, <2>3, <3>1, FoldsLast DEF FoldInv
    <3>. QED
      BY <2>1, <3>1, <3>2
  <2>4. FactsAreGrants'
    BY <2>1 DEF FoldInv, FactsAreGrants
  <2>. QED
    BY <2>1, <2>3, <2>4 DEF FoldInv, Open
<1>. QED
  BY <1>1, <1>2

\* The fact stands exactly while an ACTIVE binding has the tuple in its ledger,
\* whatever bindings are created, revoked, expired or deleted together and whatever
\* passes follow the object meanwhile, if a delete row is folded by the statement that
\* inserts it (relation_fact_fold_row, LockBindingForDeactivation, deleteStamp).
THEOREM FactsStayGrants ==
    ASSUME FoldsAtOnce
    PROVE  Spec => []FactsAreGrants
<1>1. Init => IInv /\ FoldInv
  BY InitInv, InitFolds
<1>2. (IInv /\ FoldInv) /\ [Next]_vars => (IInv /\ FoldInv)'
  BY NextInv, NextFolds
<1>3. IInv /\ FoldInv => FactsAreGrants
  BY DEF FoldInv
<1>. QED
  BY <1>1, <1>2, <1>3, PTL DEF Spec
-----------------------------------------------------------------------------
(* The queue. *)

\* Fewer members are bound: what covered them covers those that are left.
LEMMA CoversLast ==
    ASSUME NEW x, Covers(x), Bound' \subseteq Bound
    PROVE  Covers(x)'
BY DEF Covers

\* Whoever has an event that is in the queue is a full pass over the object.
LEMMA ClaimsAreObjectPasses ==
    ASSUME IInv, NumbersInv, NEW p \in Passes, Open(p), pass[p].ev \in events
    PROVE  pass[p].kind = "object"
BY DEF IInv, TypeOK, NumbersInv

\* The number of the event that a step leaves with p, as against those of the others.
Numbered(p, r) ==
  /\ r # NoPass => /\ r.ev <= changes'
                   /\ r.ev # 0 => r.kind \in {"object", "unregister"}
                   /\ r.kind = "unregister" =>
                        /\ r.ev \notin events'
                        /\ \A q \in Passes \ {p} : Open(q) => pass[q].ev # r.ev
  /\ \A q \in Passes \ {p} : Open(q) /\ pass[q].kind = "unregister" =>
       pass[q].ev \notin events' /\ (r # NoPass => r.ev # pass[q].ev)

LEMMA NumbersKept ==
    ASSUME IInv, NumbersInv, NEW p \in Passes, NEW r, pass' = [pass EXCEPT ![p] = r],
           changes' \in Nat, changes <= changes', Numbered(p, r)
    PROVE  NumbersInv'
<1>1. pass \in [Passes -> PassRow \cup {NoPass}] /\ changes \in Nat
  BY DEF IInv, TypeOK
<1>2. pass'[p] = r /\ \A q \in Passes \ {p} : pass'[q] = pass[q]
  BY <1>1
<1>3. \A q \in Passes \ {p} : Open(q) => pass[q].ev \in Nat
  BY <1>1 DEF Open, PassRow
<1>4. ASSUME NEW q \in Passes, Open(q)'
      PROVE  /\ pass'[q].ev <= changes'
             /\ pass'[q].ev # 0 => pass'[q].kind \in {"object", "unregister"}
             /\ pass'[q].kind = "unregister" =>
                  /\ pass'[q].ev \notin events'
                  /\ \A o \in Passes \ {q} : Open(o)' => pass'[o].ev # pass'[q].ev
  <2>1. CASE q = p
    BY <1>2, <1>4, <2>1 DEF Open, Numbered
  <2>2. CASE q # p
    <3>1. Open(q)
      BY <1>2, <1>4, <2>2 DEF Open
    <3>2. pass'[q].ev <= changes'
      BY <1>1, <1>2, <1>3, <2>2, <3>1 DEF NumbersInv
    <3>3. ASSUME pass[q].kind = "unregister", NEW o \in Passes \ {q}, Open(o)'
          PROVE  pass'[o].ev # pass'[q].ev
      BY <1>2, <2>2, <3>1, <3>3 DEF NumbersInv, Numbered, Open
    <3>. QED
      BY <1>2, <2>2, <3>1, <3>2, <3>3 DEF NumbersInv, Numbered
  <2>. QED
    BY <2>1, <2>2
<1>. QED
  BY <1>4 DEF NumbersInv

LEMMA LeftKept ==
    ASSUME IInv, LeftInv, NEW p \in Passes, NEW r, pass' = [pass EXCEPT ![p] = r],
           mirror' = mirror, mirror = "absent" => Bound' \subseteq Bound, events \subseteq events',
           mirror = "absent" /\ Bound' # {} =>
             \/ r = NoPass \/ r.ev \notin events \/ Covers(r)'
             \/ Open(p) /\ r.ev = pass[p].ev /\ (Covers(pass[p]) => Covers(r)')
    PROVE  LeftInv'
<1> SUFFICES ASSUME mirror = "absent", Bound' # {}
             PROVE  \E e \in events' : \A q \in Passes : Open(q)' /\ pass'[q].ev = e => Covers(pass[q])'
  BY DEF LeftInv
<1>1. pass \in [Passes -> PassRow \cup {NoPass}]
  BY DEF IInv, TypeOK
<1>2. pass'[p] = r /\ \A q \in Passes \ {p} : pass'[q] = pass[q]
  BY <1>1
<1>3. PICK e \in events : \A q \in Passes : Open(q) /\ pass[q].ev = e => Covers(pass[q])
  BY DEF LeftInv
<1>4. ASSUME NEW q \in Passes, Open(q)', pass'[q].ev = e
      PROVE  Covers(pass[q])'
  <2>1. PICK x : x = pass'[q]
    OBVIOUS
  <2>2. CASE q = p
    BY <1>2, <1>3, <1>4, <2>1, <2>2 DEF Open
  <2>3. CASE q # p
    <3>1. Covers(x)
      BY <1>2, <1>3, <1>4, <2>1, <2>3 DEF Open
    <3>2. Covers(x)'
      BY <3>1, CoversLast
    <3>. QED
      BY <2>1, <3>2
  <2>. QED
    BY <2>2, <2>3
<1>. QED
  BY <1>3, <1>4

\* A statement changes no committed row: what matters is that a pass which covered
\* the members goes on covering them.
LEMMA LocalQueued ==
    ASSUME IInv, QueueInv, NEW p \in Passes, Open(p), NEW r, NEW s, s = pass[p],
           pass' = [pass EXCEPT ![p] = r], UNCHANGED <<mirror, status, member, events, changes>>,
           r.ev = s.ev, r.kind = s.kind,
           s.kind = "object" /\ mirror = "absent" /\ Bound # {} /\ Covers(s) => Covers(r)
    PROVE  QueueInv'
<1>1. changes \in Nat /\ s # NoPass
  BY DEF IInv, TypeOK, Open
<1>2. NumbersInv'
  <2>1. changes' \in Nat /\ changes <= changes' /\ NumbersInv
    BY <1>1 DEF QueueInv
  <2>2. /\ r.ev <= changes'
        /\ r.ev # 0 => r.kind \in {"object", "unregister"}
        /\ r.kind = "unregister" =>
             /\ r.ev \notin events'
             /\ \A q \in Passes \ {p} : Open(q) => pass[q].ev # r.ev
    BY <2>1 DEF NumbersInv
  <2>3. \A q \in Passes \ {p} : Open(q) /\ pass[q].kind = "unregister" =>
          pass[q].ev \notin events' /\ r.ev # pass[q].ev
    BY <2>1 DEF NumbersInv
  <2>4. Numbered(p, r)
    BY <2>2, <2>3 DEF Numbered
  <2>. QED
    BY <2>1, <2>4, NumbersKept
<1>3. Bound' = Bound
  BY DEF Bound
<1>4. r.ev \in events => s.kind = "object"
  BY ClaimsAreObjectPasses DEF QueueInv
<1>5. Covers(r) => Covers(r)'
  BY <1>3, CoversLast
<1>6. LeftInv'
  BY <1>3, <1>4, <1>5, LeftKept DEF QueueInv
<1>. QED
  BY <1>2, <1>6 DEF QueueInv

\* A transaction that has no event leaves the queue as it is.
LEMMA EventlessQueued ==
    ASSUME IInv, QueueInv, NEW p \in Passes, NEW r, pass' = [pass EXCEPT ![p] = r],
           UNCHANGED <<mirror, events, changes>>, mirror = "absent" => Bound' \subseteq Bound,
           r = NoPass \/ (r.ev = 0 /\ r.kind # "unregister")
    PROVE  QueueInv'
<1>1. changes \in Nat /\ events \subseteq 1..changes
  BY DEF IInv, TypeOK
<1>2. NumbersInv'
  <2>1. \A q \in Passes \ {p} : Open(q) /\ pass[q].kind = "unregister" => pass[q].ev \notin events' /\ pass[q].ev # 0
    <3>1. \A q \in Passes : Open(q) /\ pass[q].kind = "unregister" => pass[q].ev \in 1..changes
      BY OpenFacts DEF Progress
    <3>. QED
      BY <1>1, <3>1 DEF QueueInv, NumbersInv
  <2>2. changes' \in Nat /\ changes <= changes' /\ NumbersInv
    BY <1>1 DEF QueueInv
  <2>3. r # NoPass => r.ev <= changes'
    BY <1>1
  <2>4. Numbered(p, r)
    BY <2>1, <2>3, NoPassIsNoRow DEF Numbered
  <2>. QED
    BY <2>2, <2>4, NumbersKept
<1>3. LeftInv'
  <2>1. r = NoPass \/ r.ev \notin events
    BY <1>1
  <2>. QED
    BY <2>1, LeftKept DEF QueueInv
<1>. QED
  BY <1>2, <1>3 DEF QueueInv
\* The steps of a transaction that read and lock.
LEMMA ReadingQueued ==
    ASSUME IInv, QueueInv, NEW p \in Passes,
           \/ ReadExisting(p) \/ ReadMatching(p) \/ ReadObject(p) \/ TakeAdvisory(p) \/ LockRows(p)
           \/ ShareRows(p) \/ LockForDeactivation(p) \/ DeleteObject(p)
    PROVE  QueueInv'
<1>1. PICK s \in PassRow : s = pass[p]
  BY OpenFacts DEF ReadExisting, ReadMatching, ReadObject, TakeAdvisory, LockRows, ShareRows,
           LockForDeactivation, DeleteObject, Free
<1>2. Open(p) /\ Progress(s)
  BY <1>1, OpenFacts DEF ReadExisting, ReadMatching, ReadObject, TakeAdvisory, LockRows, ShareRows,
           LockForDeactivation, DeleteObject, Free
<1>3. ASSUME NEW r, NEW ls, Local(p, r, ls), r.ev = s.ev, r.kind = s.kind,
             s.kind = "object" /\ mirror = "absent" /\ Bound # {} /\ Covers(s) => Covers(r)
      PROVE  QueueInv'
  <2>1. pass' = [pass EXCEPT ![p] = r] /\ UNCHANGED <<mirror, status, member, events, changes>>
    BY <1>3 DEF Local, Becomes, stored
  <2>. QED
    BY <1>1, <1>2, <1>3, <2>1, LocalQueued
<1>4. CASE ReadExisting(p)
  <2> DEFINE r == [s EXCEPT !.at = "matching", !.on = {b \in Bindings : member[b]}]
  <2>1. Local(p, r, {})
    BY <1>1, <1>4 DEF ReadExisting
  <2>2. r.ev = s.ev /\ r.kind = s.kind /\ r.at = "matching" /\ r.on = {b \in Bindings : member[b]}
    BY DEF PassRow
  <2> HIDE DEF r
  <2>3. Covers(r)
    BY <2>2 DEF Covers, Bound
  <2>. QED
    BY <1>3, <2>1, <2>2, <2>3
<1>5. CASE ReadMatching(p)
  <2> DEFINE on == s.on \cup Matching
             r == [s EXCEPT !.on = on, !.left = on,
                            !.at = IF s.kind = "object" THEN "project"
                                   ELSE IF on = {} THEN "mirror" ELSE "share"]
  <2>1. Local(p, r, {}) /\ s.at = "matching"
    BY <1>1, <1>5 DEF ReadMatching
  <2>2. /\ r.ev = s.ev /\ r.kind = s.kind /\ s.on \subseteq r.on
        /\ s.kind = "object" => r.at = "project"
    BY DEF PassRow
  <2> HIDE DEF r
  <2>3. s.kind = "object" /\ Covers(s) => Covers(r)
    BY <2>1, <2>2 DEF Covers
  <2>. QED
    BY <1>3, <2>1, <2>2, <2>3
<1>6. CASE ReadObject(p)
  <2> DEFINE r == [s EXCEPT !.obj = mirror,
                     !.at = CASE s.kind = "object" -> IF s.left = {} THEN "rows" ELSE "adv"
                              [] s.kind = "binding" -> "work"
                              [] s.kind = "created" -> IF mirror = "match" THEN "mirror" ELSE "commit"
                              [] OTHER -> IF mirror = "absent" THEN "commit" ELSE "matching"]
  <2>1. Local(p, r, {}) /\ s.at = "project"
    BY <1>1, <1>6 DEF ReadObject
  <2>2. /\ r.ev = s.ev /\ r.kind = s.kind /\ r.on = s.on /\ r.obj = mirror
        /\ s.kind = "object" => r.at \in {"adv", "rows"}
    BY DEF PassRow
  <2> HIDE DEF r
  <2>3. s.kind = "object" /\ mirror = "absent" /\ Covers(s) => Covers(r)
    BY <2>1, <2>2 DEF Covers
  <2>. QED
    BY <1>3, <2>1, <2>2, <2>3
<1>7. CASE TakeAdvisory(p)
  <2> DEFINE left == s.left \ {Min(s.left)}
             r == [s EXCEPT !.left = left,
                     !.at = IF left # {} THEN "adv"
                            ELSE IF s.kind \in Deactivation THEN "upd" ELSE "rows"]
  <2>1. Local(p, r, {Wants(p)}) /\ s.at = "adv"
    BY <1>1, <1>7 DEF TakeAdvisory
  <2>2. /\ r.ev = s.ev /\ r.kind = s.kind /\ r.on = s.on /\ r.obj = s.obj
        /\ s.kind = "object" => r.at \in {"adv", "rows"}
    BY DEF PassRow, Deactivation
  <2> HIDE DEF r
  <2>3. s.kind = "object" /\ Covers(s) => Covers(r)
    BY <2>1, <2>2 DEF Covers
  <2>. QED
    BY <1>3, <2>1, <2>2, <2>3
<1>8. CASE LockRows(p)
  <2> DEFINE r == [s EXCEPT !.left = s.on,
                     !.at = IF s.kind = "binding" THEN "project"
                            ELSE IF s.obj = "absent" THEN "work" ELSE "mirror"]
  <2>1. Local(p, r, {<<"nku", b>> : b \in {c \in s.on : status[c] # "GONE"}}) /\ s.at = "rows"
    BY <1>1, <1>8 DEF LockRows
  <2>2. /\ r.ev = s.ev /\ r.kind = s.kind /\ r.left = s.on /\ r.obj = s.obj
        /\ s.kind = "object" /\ s.obj = "absent" => r.at = "work"
    BY DEF PassRow
  <2> HIDE DEF r
  <2>3. s.kind = "object" /\ Covers(s) => Covers(r)
    BY <2>1, <2>2 DEF Covers
  <2>. QED
    BY <1>3, <2>1, <2>2, <2>3
<1>9. CASE ShareRows(p)
  <2> DEFINE on == IF status[Min(s.left)] = "ACTIVE" THEN s.on ELSE s.on \ {Min(s.left)}
             r == [s EXCEPT !.left = s.left \ {Min(s.left)}, !.on = on,
                     !.at = IF s.left # {Min(s.left)} THEN "share"
                            ELSE IF s.kind # "created" THEN "mirror"
                            ELSE IF on = {} THEN "commit" ELSE "project"]
             ls == IF status[Min(s.left)] = "GONE" THEN {} ELSE {Wants(p)}
  <2>1. Local(p, r, ls) /\ s.at = "share"
    BY <1>1, <1>9 DEF ShareRows
  <2>2. r.ev = s.ev /\ r.kind = s.kind
    BY DEF PassRow
  <2> HIDE DEF r, ls
  <2>3. s.kind # "object"
    BY <1>2, <2>1 DEF Progress, PhasesOf, Forward, Deactivation
  <2>. QED
    BY <1>3, <2>1, <2>2, <2>3
<1>10. CASE LockForDeactivation(p) \/ DeleteObject(p)
  <2>1. PICK at : Local(p, [s EXCEPT !.at = at], {Wants(p)}) /\ s.at \in {"upd", "mdel"}
    BY <1>1, <1>10 DEF LockForDeactivation, DeleteObject
  <2> DEFINE r == [s EXCEPT !.at = at]
  <2>2. r.ev = s.ev /\ r.kind = s.kind
    BY DEF PassRow
  <2> HIDE DEF r
  <2>3. s.kind # "object"
    BY <1>2, <2>1 DEF Progress, PhasesOf, Forward, Deactivation
  <2>. QED
    BY <1>3, <2>1, <2>2, <2>3 DEF r
<1>. QED
  BY <1>4, <1>5, <1>6, <1>7, <1>8, <1>9, <1>10

\* The steps that write.
LEMMA WritingQueued ==
    ASSUME IInv, QueueInv, NEW p \in Passes,
           LockObject(p) \/ Compare(p) \/ Flush(p) \/ Act(p) \/ Written(p)
    PROVE  QueueInv'
<1>1. PICK s \in PassRow : s = pass[p]
  BY OpenFacts DEF LockObject, Compare, Flush, Act, Written
<1>2. Open(p) /\ Progress(s)
  BY <1>1, OpenFacts DEF LockObject, Compare, Flush, Act, Written
<1>3. ASSUME NEW r, NEW ls, Local(p, r, ls), r.ev = s.ev, r.kind = s.kind,
             s.kind = "object" /\ mirror = "absent" /\ Bound # {} /\ Covers(s) => Covers(r)
      PROVE  QueueInv'
  <2>1. pass' = [pass EXCEPT ![p] = r] /\ UNCHANGED <<mirror, status, member, events, changes>>
    BY <1>3 DEF Local, Becomes, stored
  <2>. QED
    BY <1>1, <1>2, <1>3, <2>1, LocalQueued
<1>4. CASE LockObject(p)
  <2> DEFINE r == Found(s, Live)
             ls == IF Live THEN {<<"mkey", 0>>} ELSE {}
  <2>1. Local(p, r, ls) /\ s.at = "mirror"
    BY <1>1, <1>4 DEF LockObject
  <2>2. s.kind \in Full \cup Forward
    BY <1>2, <2>1 DEF Progress, PhasesOf, PassRow, Kinds, Deactivation, Full, Forward
  <2>3. r.ev = s.ev /\ r.kind = s.kind
    <3>1. CASE s.kind = "object"
      BY <3>1 DEF Found, PassRow, Forward
    <3>2. CASE s.kind = "binding"
      BY <3>2 DEF Found, PassRow, Forward
    <3>3. CASE s.kind \in Forward
      BY <3>3 DEF Found, PassRow, Forward
    <3>. QED
      BY <2>2, <3>1, <3>2, <3>3 DEF Full
  <2> HIDE DEF r, ls
  <2>4. Covers(s) => Bound = {}
    BY <2>1 DEF Covers
  <2>. QED
    BY <1>3, <2>1, <2>3, <2>4
<1>5. CASE Compare(p)
  <2> DEFINE b == Min(s.left)
             done == [s EXCEPT !.left = s.left \ {b}]
  <2>1. /\ s.at = "work"
        /\ Local(p, IF status[b] # "ACTIVE" \/ (s.obj = "match") = member[b] THEN done
               ELSE IF ~(s.obj = "match") THEN [done EXCEPT !.at = "todo", !.todo = DropWrites(b)]
               ELSE IF s.kind = "binding" THEN [done EXCEPT !.at = "mirror"]
               ELSE [done EXCEPT !.at = "todo", !.todo = AddWrites(s, b)], {})
    BY <1>1, <1>5 DEF Compare
  <2> HIDE DEF b
  <2>2. /\ done \in PassRow /\ done.left = s.left \ {b} /\ done.at = "work" /\ done.mdrop = s.mdrop
        /\ done.obj = s.obj /\ done.ev = s.ev /\ done.kind = s.kind
    BY <2>1 DEF PassRow
  <2> HIDE DEF done
  <2>3. member \in [Bindings -> BOOLEAN]
    BY DEF IInv, TypeOK
  <2>4. CASE status[b] # "ACTIVE" \/ (s.obj = "match") = member[b]
    <3>1. Local(p, done, {})
      BY <2>1, <2>4
    <3>2. Covers(s) => Bound \subseteq s.left \cup s.mdrop /\ s.obj = "absent"
      BY <2>1 DEF Covers
    <3>3. Covers(s) => b \notin Bound
      BY <2>3, <2>4, <3>2 DEF Bound
    <3>4. Covers(s) => Covers(done)
      BY <2>2, <3>2, <3>3 DEF Covers
    <3>. QED
      BY <1>3, <2>2, <3>1, <3>4
  <2>5. CASE ~(status[b] # "ACTIVE" \/ (s.obj = "match") = member[b]) /\ ~(s.obj = "match")
    <3> DEFINE r == [done EXCEPT !.at = "todo", !.todo = DropWrites(b)]
    <3>1. Local(p, r, {})
      BY <2>1, <2>5
    <3>2. /\ r.ev = s.ev /\ r.kind = s.kind /\ r.at = "todo" /\ r.todo = DropWrites(b)
          /\ r.left = s.left \ {b} /\ r.mdrop = s.mdrop /\ r.obj = s.obj
      BY <2>2 DEF PassRow
    <3> HIDE DEF r
    <3>3. <<"unmem", b>> \in DropWrites(b)
      BY DEF DropWrites
    <3>4. Covers(s) => Covers(r)
      BY <2>1, <3>2, <3>3 DEF Covers
    <3>. QED
      BY <1>3, <3>1, <3>2, <3>4
  <2>6. CASE ~(status[b] # "ACTIVE" \/ (s.obj = "match") = member[b]) /\ s.obj = "match"
    <3>1. ~Covers(s)
      BY <2>1, <2>6 DEF Covers
    <3>2. PICK r : Local(p, r, {}) /\ (r = [done EXCEPT !.at = "mirror"]
                                      \/ r = [done EXCEPT !.at = "todo", !.todo = AddWrites(s, b)])
      <4>1. CASE s.kind = "binding"
        BY <2>1, <2>6, <4>1
      <4>2. CASE s.kind # "binding"
        BY <2>1, <2>6, <4>2
      <4>. QED
        BY <4>1, <4>2
    <3>3. r.ev = s.ev /\ r.kind = s.kind
      BY <2>2, <3>2 DEF PassRow
    <3>. QED
      BY <1>3, <3>1, <3>2, <3>3
  <2>. QED
    BY <2>4, <2>5, <2>6
<1>6. CASE Flush(p)
  <2> DEFINE stamps == {<<"erase", 0>>} \cup IF SlowFold THEN {<<"stamp", 0>>} ELSE {}
  <2>1. /\ s.at = "work" /\ s.left = {}
        /\ Local(p, IF s.pending /\ ~s.wrote
                    THEN [s EXCEPT !.at = "todo", !.pending = FALSE, !.todo = stamps]
                    ELSE [s EXCEPT !.at = "commit"], {})
    BY <1>1, <1>6 DEF Flush
  <2> HIDE DEF stamps
  <2>2. PICK r : Local(p, r, {}) /\ (r = [s EXCEPT !.at = "commit"]
                                    \/ r = [s EXCEPT !.at = "todo", !.pending = FALSE, !.todo = stamps])
    <3>1. CASE s.pending /\ ~s.wrote
      BY <2>1, <3>1
    <3>2. CASE ~(s.pending /\ ~s.wrote)
      BY <2>1, <3>2
    <3>. QED
      BY <3>1, <3>2
  <2>3. /\ r.ev = s.ev /\ r.kind = s.kind /\ r.at \in {"commit", "todo"} /\ r.mdrop = s.mdrop
        /\ r.obj = s.obj
    BY <2>2 DEF PassRow
  <2>4. Covers(s) => Covers(r)
    BY <2>1, <2>3 DEF Covers
  <2>. QED
    BY <1>3, <2>2, <2>3, <2>4
<1>7. CASE Written(p)
  <2> DEFINE r == [s EXCEPT !.at = IF s.kind \in Forward THEN "commit" ELSE "work"]
  <2>1. Local(p, r, {}) /\ s.at = "todo" /\ s.todo = {}
    BY <1>1, <1>7 DEF Written
  <2>2. /\ r.ev = s.ev /\ r.kind = s.kind /\ (s.kind = "object" => r.at = "work")
        /\ r.left = s.left /\ r.mdrop = s.mdrop /\ r.obj = s.obj
    BY DEF PassRow, Forward
  <2> HIDE DEF r
  <2>3. s.kind = "object" /\ Covers(s) => Covers(r)
    BY <2>1, <2>2 DEF Covers
  <2>. QED
    BY <1>3, <2>1, <2>2, <2>3
<1>8. CASE Act(p)
  <2>1. s.at = "act" /\ s.kind # "object"
    BY <1>1, <1>2, <1>8 DEF Act, Progress, PhasesOf, Forward, Deactivation
  <2>2. PICK r : /\ Local(p, r, {})
                 /\ \/ r = [s EXCEPT !.at = "todo", !.ends = TRUE, !.todo = DropWrites(s.b)]
                    \/ r = [s EXCEPT !.at = "work", !.ends = TRUE, !.pending = ledger[s.b]]
                    \/ r = [s EXCEPT !.at = "commit"]
    <3>1. CASE s.kind = "delete" /\ status[s.b] # "GONE"
      BY <1>1, <1>8, <3>1 DEF Act, Deletes
    <3>2. CASE s.kind = "expire" /\ status[s.b] = "ACTIVE"
      BY <1>1, <1>8, <3>2 DEF Act, Expires
    <3>3. CASE s.kind = "revoke" /\ status[s.b] = "ACTIVE"
      BY <1>1, <1>8, <3>3 DEF Act, Revokes
    <3>4. CASE /\ ~(s.kind = "delete" /\ status[s.b] # "GONE")
               /\ ~(s.kind = "expire" /\ status[s.b] = "ACTIVE")
               /\ ~(s.kind = "revoke" /\ status[s.b] = "ACTIVE")
      BY <1>1, <1>8, <3>4 DEF Act
    <3>. QED
      BY <3>1, <3>2, <3>3, <3>4
  <2>3. r.ev = s.ev /\ r.kind = s.kind
    BY <2>2 DEF PassRow
  <2>. QED
    BY <1>3, <2>1, <2>2, <2>3
<1>. QED
  BY <1>4, <1>5, <1>6, <1>7, <1>8
LEMMA WriteQueued ==
    ASSUME IInv, QueueInv, NEW p \in Passes, Write(p)
    PROVE  QueueInv'
<1>1. PICK s \in PassRow : s = pass[p]
  BY OpenFacts DEF Write, Free
<1>2. Open(p) /\ s.at = "todo" /\ UNCHANGED <<mirror, status, member, events, changes>>
  BY <1>1 DEF Write, Free
<1>3. PICK op \in s.todo : \E x \in PassRow : AfterWrite(s, op, x) /\ Moves(p, x, held[p] \cup WriteLocks(op))
  BY <1>1, WriteIs
<1>4. PICK x \in PassRow : AfterWrite(s, op, x) /\ Moves(p, x, held[p] \cup WriteLocks(op))
  BY <1>3
<1>5. /\ x.todo = s.todo \ {op} /\ x.kind = s.kind /\ x.at = s.at /\ x.ev = s.ev /\ x.obj = s.obj /\ x.left = s.left
      /\ x.mdrop = s.mdrop \cup IF op[1] = "unmem" /\ member[op[2]] THEN {op[2]} ELSE {}
      /\ pass' = [pass EXCEPT ![p] = x]
  BY <1>4 DEF AfterWrite, Moves
<1>6. Covers(s) => Covers(x)
  <2> SUFFICES ASSUME Covers(s), NEW b \in Bound
               PROVE  s.obj = "absent" /\ (b \in x.left \cup x.mdrop \/ <<"unmem", b>> \in x.todo)
    BY <1>2, <1>5 DEF Covers
  <2>1. s.obj = "absent" /\ (b \in s.left \cup s.mdrop \/ <<"unmem", b>> \in s.todo)
    BY <1>2 DEF Covers
  <2>2. CASE op = <<"unmem", b>>
    <3>1. op[1] = "unmem" /\ op[2] = b /\ member[b]
      BY <2>2 DEF Bound
    <3>. QED
      BY <1>5, <2>1, <3>1
  <2>3. CASE op # <<"unmem", b>>
    BY <1>5, <2>1, <2>3
  <2>. QED
    BY <2>2, <2>3
<1>. QED
  BY <1>1, <1>2, <1>5, <1>6, LocalQueued

LEMMA BeginsQueued ==
    ASSUME IInv, QueueInv, NEW p \in Passes,
           \/ \E e \in events : Drain(p, e)
           \/ \E b \in Bindings : Sweep(p, b) \/ CreateBinding(p, b) \/ \E k \in Deactivation : Deactivate(p, k, b)
           \/ \E m \in Mirrors : Register(p, m)
           \/ Unregister(p)
    PROVE  QueueInv'
<1>1. /\ changes \in Nat /\ events \subseteq 1..changes /\ NumbersInv /\ LeftInv
      /\ status \in [Bindings -> {"new", "ACTIVE", "REVOKED", "GONE"}]
  BY DEF IInv, TypeOK, QueueInv
<1>2. \A q \in Passes : Open(q) => pass[q].ev \in Nat /\ pass[q].ev <= changes
  BY <1>1, OpenFacts DEF NumbersInv, PassRow
<1>3. \A q \in Passes : Open(q) /\ pass[q].kind = "unregister" => pass[q].ev \in 1..changes
  BY OpenFacts DEF Progress
<1>4. CASE \E e \in events : Drain(p, e)
  <2>1. PICK e \in events : Drain(p, e)
    BY <1>4
  <2>2. PICK r : r = Opened("object", "existing", 0, e)
    OBVIOUS
  <2>3. /\ pass' = [pass EXCEPT ![p] = r] /\ r.ev = e /\ r.kind = "object" /\ r.at = "existing"
        /\ UNCHANGED <<mirror, status, member, events, changes>>
    BY <2>1, <2>2 DEF Drain, Begin, Becomes, Opened
  <2>4. NumbersInv'
    <3>1. Numbered(p, r)
      BY <1>1, <2>3 DEF Numbered, NumbersInv
    <3>2. changes' \in Nat /\ changes <= changes'
      BY <1>1, <2>3
    <3>. QED
      BY <1>1, <2>3, <3>1, <3>2, NumbersKept
  <2>5. Bound' = Bound
    BY <2>3 DEF Bound
  <2>6. Covers(r)'
    BY <2>3 DEF Covers
  <2>7. LeftInv'
    BY <1>1, <2>3, <2>5, <2>6, LeftKept
  <2>. QED
    BY <2>4, <2>7 DEF QueueInv
<1>5. CASE \E b \in Bindings : Sweep(p, b) \/ CreateBinding(p, b) \/ \E k \in Deactivation : Deactivate(p, k, b)
  <2>1. PICK r : pass' = [pass EXCEPT ![p] = r] /\ r.ev = 0 /\ r.kind # "unregister"
    <3>1. CASE \E b \in Bindings : Sweep(p, b)
      <4>1. PICK b \in Bindings : Sweep(p, b)
        BY <3>1
      <4> DEFINE x == [Opened("binding", "adv", b, 0) EXCEPT !.on = {b}, !.left = {b}]
      <4>2. pass' = [pass EXCEPT ![p] = x]
        BY <4>1 DEF Sweep, Begin, Becomes
      <4>3. x.ev = 0 /\ x.kind # "unregister"
        BY DEF Opened
      <4>. QED
        BY <4>2, <4>3
    <3>2. CASE \E b \in Bindings : CreateBinding(p, b)
      <4>1. PICK b \in Bindings : CreateBinding(p, b)
        BY <3>2
      <4> DEFINE x == [Opened("created", "peek", b, 0) EXCEPT !.on = {b}, !.left = {b}]
      <4>2. pass' = [pass EXCEPT ![p] = x]
        BY <4>1 DEF CreateBinding, Begin, Becomes
      <4>3. x.ev = 0 /\ x.kind # "unregister"
        BY DEF Opened
      <4>. QED
        BY <4>2, <4>3
    <3>3. CASE \E b \in Bindings, k \in Deactivation : Deactivate(p, k, b)
      <4>1. PICK b \in Bindings, k \in Deactivation : Deactivate(p, k, b)
        BY <3>3
      <4> DEFINE x == [Opened(k, "adv", b, 0) EXCEPT !.left = {b}]
      <4>2. pass' = [pass EXCEPT ![p] = x]
        BY <4>1 DEF Deactivate, Begin, Becomes
      <4>3. x.ev = 0 /\ x.kind # "unregister"
        BY DEF Opened, Deactivation
      <4>. QED
        BY <4>2, <4>3
    <3>. QED
      BY <1>5, <3>1, <3>2, <3>3
  <2>2. UNCHANGED <<mirror, member, events, changes>>
    BY <1>5 DEF Sweep, CreateBinding, Deactivate
  <2>3. Bound' \subseteq Bound
    <3>1. CASE \E b \in Bindings : CreateBinding(p, b)
      <4>1. PICK b \in Bindings : status[b] = "new" /\ status' = [status EXCEPT ![b] = "ACTIVE"]
        BY <3>1 DEF CreateBinding
      <4>2. ~member[b]
        BY <4>1 DEF IInv, NewInv
      <4>. QED
        BY <1>1, <2>2, <4>1, <4>2 DEF Bound
    <3>2. CASE \E b \in Bindings : Sweep(p, b) \/ \E k \in Deactivation : Deactivate(p, k, b)
      <4>1. status' = status
        BY <3>2 DEF Sweep, Deactivate
      <4>. QED
        BY <2>2, <4>1 DEF Bound
    <3>. QED
      BY <1>5, <3>1, <3>2
  <2>. QED
    BY <2>1, <2>2, <2>3, EventlessQueued
<1>6. CASE \E m \in Mirrors : Register(p, m)
  <2>1. PICK m \in Mirrors : Register(p, m)
    BY <1>6
  <2>2. PICK r : r \in {Opened("additive", "project", 0, 0), Opened("forward", "peek", 0, 0)}
                 /\ pass' = [pass EXCEPT ![p] = r]
    BY <2>1 DEF Register, Begin, Becomes
  <2>3. /\ r.ev = 0 /\ r.kind # "unregister" /\ mirror' # "absent"
        /\ events' = events \cup {changes + 1} /\ changes' = changes + 1
    BY <2>1, <2>2 DEF Register, Opened
  <2>4. NumbersInv'
    <3>1. \A q \in Passes : Open(q) /\ pass[q].kind = "unregister" => pass[q].ev # 0 /\ pass[q].ev \notin events'
      BY <1>1, <1>2, <1>3, <2>3 DEF NumbersInv
    <3>2. changes' \in Nat /\ changes <= changes' /\ r.ev <= changes'
      BY <1>1, <2>3
    <3>3. Numbered(p, r)
      BY <2>3, <3>1, <3>2 DEF Numbered
    <3>. QED
      BY <1>1, <2>2, <3>2, <3>3, NumbersKept
  <2>. QED
    BY <2>3, <2>4 DEF QueueInv, LeftInv
<1>7. CASE Unregister(p)
  <2>1. PICK r : r = Opened("unregister", "mdel", 0, changes + 1)
    OBVIOUS
  <2>2. /\ pass' = [pass EXCEPT ![p] = r] /\ r.ev = changes + 1 /\ r.kind = "unregister"
        /\ changes' = changes + 1 /\ UNCHANGED <<mirror, status, member, events>>
    BY <1>7, <2>1 DEF Unregister, Begin, Becomes, Opened
  <2>3. r.ev \notin events /\ changes' \in Nat /\ changes <= changes' /\ r.ev <= changes'
    BY <1>1, <2>2
  <2>4. NumbersInv'
    <3>1. \A q \in Passes : Open(q) => pass[q].ev # r.ev
      BY <1>1, <1>2, <2>2
    <3>2. Numbered(p, r)
      BY <1>1, <2>2, <2>3, <3>1 DEF Numbered, NumbersInv
    <3>. QED
      BY <1>1, <2>2, <2>3, <3>2, NumbersKept
  <2>5. Bound' = Bound
    BY <2>2 DEF Bound
  <2>6. LeftInv'
    BY <1>1, <2>2, <2>3, <2>5, LeftKept
  <2>. QED
    BY <2>4, <2>6 DEF QueueInv
<1>. QED
  BY <1>4, <1>5, <1>6, <1>7

LEMMA EndsQueued ==
    ASSUME IInv, QueueInv, NEW p \in Passes, Peek(p) \/ Abort(p) \/ Victim(p)
    PROVE  QueueInv'
<1>1. UNCHANGED <<mirror, status, member, events, changes>>
  BY DEF Peek, Abort, Victim, RolledBack
<1>2. Bound' = Bound
  BY <1>1 DEF Bound
<1>3. PICK r : pass' = [pass EXCEPT ![p] = r] /\ (r = NoPass \/ (r.ev = 0 /\ r.kind # "unregister"))
  <2>1. CASE Peek(p)
    <3>1. PICK s \in PassRow : s = pass[p] /\ s.at = "peek" /\ Progress(s) /\ Open(p)
      BY <2>1, OpenFacts DEF Peek
    <3>2. s.kind \in Forward
      BY <3>1 DEF Progress, PhasesOf, PassRow, Kinds, Full, Deactivation
    <3>3. s.ev = 0
      BY <3>1, <3>2 DEF QueueInv, NumbersInv, Forward
    <3> DEFINE found == {b \in IF s.kind = "created" THEN {s.b} ELSE Bindings : member[b]}
    <3>4. Becomes(p, IF found = {} THEN [s EXCEPT !.at = IF s.kind = "created" THEN "share" ELSE "project"]
                     ELSE IF s.kind = "created"
                     THEN [Opened("binding", "adv", s.b, 0) EXCEPT !.on = {s.b}, !.left = {s.b}]
                     ELSE Opened("object", "existing", 0, 0))
      BY <2>1, <3>1 DEF Peek
    <3> HIDE DEF found
    <3>5. /\ \A at : [s EXCEPT !.at = at].ev = 0 /\ [s EXCEPT !.at = at].kind \in Forward
          /\ [Opened("binding", "adv", s.b, 0) EXCEPT !.on = {s.b}, !.left = {s.b}].ev = 0
          /\ [Opened("binding", "adv", s.b, 0) EXCEPT !.on = {s.b}, !.left = {s.b}].kind = "binding"
          /\ Opened("object", "existing", 0, 0).ev = 0 /\ Opened("object", "existing", 0, 0).kind = "object"
      BY <3>2, <3>3 DEF PassRow, Opened
    <3>. QED
      BY <3>4, <3>5 DEF Becomes, Forward
  <2>2. CASE Abort(p) \/ Victim(p)
    BY <2>2 DEF Abort, Victim, RolledBack, Becomes
  <2>. QED
    BY <2>1, <2>2
<1>. QED
  BY <1>1, <1>2, <1>3, EventlessQueued
LEMMA MarkSentQueued ==
    ASSUME IInv, QueueInv, NEW p \in Passes, MarkSent(p)
    PROVE  QueueInv'
<1>1. PICK s \in PassRow : s = pass[p] /\ s.at = "sent" /\ Open(p)
  BY OpenFacts DEF MarkSent
<1>2. /\ pass' = [pass EXCEPT ![p] = NoPass] /\ events' = events \ {s.ev}
      /\ UNCHANGED <<mirror, status, member, changes>>
  BY <1>1 DEF MarkSent, Becomes, stored
<1>3. changes \in Nat /\ NumbersInv /\ LeftInv /\ pass \in [Passes -> PassRow \cup {NoPass}]
  BY DEF IInv, TypeOK, QueueInv
<1>4. NumbersInv'
  <2>1. Numbered(p, NoPass)
    BY <1>2, <1>3 DEF Numbered, NumbersInv
  <2>2. changes' \in Nat /\ changes <= changes'
    BY <1>2, <1>3
  <2>. QED
    BY <1>2, <1>3, <2>1, <2>2, NumbersKept
<1>5. LeftInv'
  <2> SUFFICES ASSUME mirror = "absent", Bound # {}
               PROVE  \E e \in events' : \A q \in Passes : Open(q)' /\ pass'[q].ev = e => Covers(pass[q])'
    BY <1>2 DEF LeftInv, Bound
  <2>1. PICK e \in events : \A q \in Passes : Open(q) /\ pass[q].ev = e => Covers(pass[q])
    BY <1>3 DEF LeftInv
  <2>2. e # s.ev
    <3>1. ~Covers(s)
      BY <1>1 DEF Covers
    <3>. QED
      BY <1>1, <2>1, <3>1
  <2>3. ASSUME NEW q \in Passes, Open(q)', pass'[q].ev = e
        PROVE  Covers(pass[q])'
    <3>1. PICK x : x = pass'[q]
      OBVIOUS
    <3>2. q # p /\ x = pass[q] /\ Open(q)
      BY <1>2, <1>3, <2>3, <3>1 DEF Open
    <3>3. Covers(x) /\ Bound' \subseteq Bound
      BY <1>2, <2>1, <2>3, <3>1, <3>2 DEF Bound
    <3>. QED
      BY <3>1, <3>3, CoversLast
  <2>. QED
    BY <1>2, <2>1, <2>2, <2>3
<1>. QED
  BY <1>4, <1>5 DEF QueueInv

\* A pass that goes through with its event leaves no member of a withdrawn object.
LEMMA CommitQueued ==
    ASSUME IInv, QueueInv, NEW p \in Passes, Commit(p)
    PROVE  QueueInv'
<1>1. PICK s \in PassRow : s = pass[p] /\ s.at = "commit" /\ Open(p) /\ s.kind # "unregister"
  BY OpenFacts DEF Commit
<1>2. PICK r : r = IF s.ev # 0 THEN Opened("object", "sent", 0, s.ev) ELSE NoPass
  OBVIOUS
<1>3. /\ pass' = [pass EXCEPT ![p] = r]
      /\ member' = [b \in Bindings |-> (member[b] \/ b \in s.madd) /\ b \notin s.mdrop]
      /\ status' = (IF s.ends THEN [status EXCEPT ![s.b] = IF s.kind = "delete" THEN "GONE" ELSE "REVOKED"]
                    ELSE status)
      /\ UNCHANGED <<mirror, events, changes>>
  BY <1>1, <1>2 DEF Commit, Becomes
<1>4. /\ changes \in Nat /\ NumbersInv /\ LeftInv
      /\ status \in [Bindings -> {"new", "ACTIVE", "REVOKED", "GONE"}]
      /\ member \in [Bindings -> BOOLEAN] /\ events \subseteq 1..changes
  BY DEF IInv, TypeOK, QueueInv
<1>5. r # NoPass => r.ev = s.ev /\ r.kind = "object"
  BY <1>2 DEF Opened
<1>6. NumbersInv'
  <2>1. Numbered(p, r)
    BY <1>1, <1>3, <1>4, <1>5 DEF Numbered, NumbersInv
  <2>2. changes' \in Nat /\ changes <= changes'
    BY <1>3, <1>4
  <2>. QED
    BY <1>3, <1>4, <2>1, <2>2, NumbersKept
<1>7. mirror = "absent" => Bound' \subseteq Bound \ s.mdrop
  <2>1. mirror = "absent" => s.madd = {}
    BY <1>1, CommitFacts
  <2>2. \A b \in Bindings : status'[b] = "ACTIVE" => status[b] = "ACTIVE"
    BY <1>3, <1>4
  <2>. QED
    BY <1>3, <2>1, <2>2 DEF Bound
<1>8. LeftInv'
  <2>1. mirror = "absent" /\ Bound' # {} => ~Covers(s)
    BY <1>1, <1>7 DEF Covers
  <2>2. mirror = "absent" => Bound' \subseteq Bound
    BY <1>7
  <2>3. r = NoPass \/ r.ev = pass[p].ev
    BY <1>1, <1>5
  <2>. QED
    BY <1>1, <1>3, <1>4, <2>1, <2>2, <2>3, LeftKept
<1>. QED
  BY <1>6, <1>8 DEF QueueInv

\* The withdrawal's own event is in the queue from here on, and nobody has claimed it.
LEMMA CommitWithdrawalQueued ==
    ASSUME IInv, QueueInv, NEW p \in Passes, CommitWithdrawal(p)
    PROVE  QueueInv'
<1>1. PICK s \in PassRow : s = pass[p] /\ Open(p) /\ s.kind = "unregister" /\ Progress(s)
  BY OpenFacts DEF CommitWithdrawal
<1>2. PICK r : r = Opened("forward", "peek", 0, 0)
  OBVIOUS
<1>3. /\ pass' = [pass EXCEPT ![p] = r] /\ events' = events \cup {s.ev} /\ UNCHANGED changes
      /\ r.ev = 0 /\ r.kind = "forward"
  BY <1>1, <1>2 DEF CommitWithdrawal, Becomes, Opened
<1>4. /\ changes \in Nat /\ NumbersInv /\ pass \in [Passes -> PassRow \cup {NoPass}] /\ s.ev \in 1..changes
  BY <1>1 DEF IInv, TypeOK, QueueInv, Progress
<1>5. NumbersInv'
  <2>1. \A q \in Passes \ {p} : Open(q) /\ pass[q].kind = "unregister" =>
          pass[q].ev \notin events' /\ pass[q].ev # 0
    <3>1. \A q \in Passes : Open(q) /\ pass[q].kind = "unregister" => pass[q].ev \in 1..changes
      BY OpenFacts DEF Progress
    <3>2. \A q \in Passes \ {p} : Open(q) => pass[q].ev # s.ev
      BY <1>1, <1>4 DEF NumbersInv
    <3>. QED
      BY <1>3, <1>4, <3>1, <3>2 DEF NumbersInv
  <2>2. changes' \in Nat /\ changes <= changes' /\ r.ev <= changes'
    BY <1>3, <1>4
  <2>3. Numbered(p, r)
    BY <1>3, <2>1, <2>2 DEF Numbered
  <2>. QED
    BY <1>3, <1>4, <2>2, <2>3, NumbersKept
<1>6. \A q \in Passes : Open(q)' => pass'[q].ev # s.ev
  <2> SUFFICES ASSUME NEW q \in Passes, Open(q)' PROVE pass'[q].ev # s.ev
    OBVIOUS
  <2>1. CASE q = p
    BY <1>3, <1>4, <2>1
  <2>2. CASE q # p
    <3>1. pass'[q] = pass[q] /\ Open(q)
      BY <1>3, <1>4, <2>2 DEF Open
    <3>. QED
      BY <1>1, <1>4, <2>2, <3>1 DEF NumbersInv
  <2>. QED
    BY <2>1, <2>2
<1>7. LeftInv'
  BY <1>3, <1>6 DEF LeftInv
<1>. QED
  BY <1>5, <1>7 DEF QueueInv

LEMMA InitQueued == Init => QueueInv
<1> SUFFICES ASSUME Init PROVE QueueInv
  OBVIOUS
<1>1. NumbersInv
  BY DEF Init, NumbersInv, Open
<1>2. mirror = "absent" => Bound = {}
  BY ConstantsAssumption DEF Init, Bound
<1>. QED
  BY <1>1, <1>2 DEF QueueInv, LeftInv

LEMMA NextQueued == IInv /\ QueueInv /\ [Next]_vars => QueueInv'
<1> SUFFICES ASSUME IInv, QueueInv, [Next]_vars PROVE QueueInv'
  OBVIOUS
<1>1. CASE Next
  <2> PICK p \in Passes :
        \/ \E e \in events : Drain(p, e)
        \/ \E b \in Bindings : Sweep(p, b) \/ CreateBinding(p, b) \/ \E k \in Deactivation : Deactivate(p, k, b)
        \/ \E m \in Mirrors : Register(p, m)
        \/ Unregister(p)
        \/ Proceed(p)
        \/ Abort(p)
    BY <1>1 DEF Next
  <2>1. CASE Proceed(p)
    BY <2>1, ReadingQueued, WritingQueued, WriteQueued, EndsQueued, CommitQueued, MarkSentQueued,
       CommitWithdrawalQueued DEF Proceed
  <2>2. CASE Abort(p)
    BY <2>2, EndsQueued
  <2>3. CASE ~Proceed(p) /\ ~Abort(p)
    BY <2>3, BeginsQueued
  <2>. QED
    BY <2>1, <2>2, <2>3
<1>2. CASE UNCHANGED vars
  BY <1>2 DEF vars, stored, QueueInv, NumbersInv, LeftInv, Bound, Covers, Open
<1>. QED
  BY <1>1, <1>2

\* While a member of an ACTIVE binding is left of a withdrawn object, an event is in
\* the queue, and every pass that has claimed it takes all those members with it
\* (LockMirrorObjects, reconcile_outbox).
THEOREM WithdrawnStaysQueued == Spec => []WithdrawnIsQueued
<1>1. Init => IInv /\ QueueInv
  BY InitInv, InitQueued
<1>2. (IInv /\ QueueInv) /\ [Next]_vars => (IInv /\ QueueInv)'
  BY NextInv, NextQueued
<1>3. QueueInv => WithdrawnIsQueued
  BY DEF QueueInv, LeftInv, WithdrawnIsQueued, Bound
<1>. QED
  BY <1>1, <1>2, <1>3, PTL DEF Spec
=============================================================================
