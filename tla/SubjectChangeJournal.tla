------------------------ MODULE SubjectChangeJournal ------------------------
(***************************************************************************)
(* The owner's side of the subject-change (revocation) journal, the table  *)
(* kaname.subject_change_outbox.                                           *)
(*                                                                         *)
(* A row's number is drawn from a sequence when the row is inserted and    *)
(* the row becomes visible when its transaction commits, so numbers become *)
(* visible out of order.  Every owner replica keeps two boundaries of what *)
(* has settled: one for the rows it hands to readers, one for the rows its *)
(* retention sweep may delete.  Both live in memory and die with the       *)
(* process.                                                                *)
(*                                                                         *)
(* Time is kept as ages, in ticks, that stop counting just above the       *)
(* threshold they are compared with.                                       *)
(***************************************************************************)
EXTENDS Naturals, FiniteSets, FiniteSetsExt

CONSTANTS
    MaxId,      \* how many numbers the sequence hands out (bound)
    Writers,    \* transactions that may be in flight at the same time
    Replicas,   \* replicas of the owner
    Subjects,   \* subjects whose streams a row can name
    Userset,    \* the subject of a row that names a set of members, not a holder
    Grace,      \* JournalRetention: a row is kept this long
    Batch       \* rows one sweep statement may take

ASSUME JournalAssumption ==
    /\ MaxId \in Nat \ {0}
    /\ Grace \in Nat
    /\ Batch \in Nat \ {0}
    /\ Userset \notin Subjects

Ids == 1 .. MaxId

VARIABLES
    status,     \* id -> "none" (no transaction has decided it yet), "live",
                \* "void" (rolled back), "swept" (committed, then deleted)
    subj,       \* id -> the subject the row is about
    age,        \* id -> age of a live row, counted from its transaction's start
    nextId,     \* the sequence: the next number it hands out
    inTx,       \* writer -> is a transaction open
    txAge,      \* writer -> age of the open transaction
    rows,       \* writer -> numbers its open transaction has inserted
    rmark,      \* replica -> watermark of the reading side
    smark,      \* replica -> watermark of the retention sweep
    sweeping    \* replica -> a sweep has a boundary and has not deleted yet

journalVars == <<status, subj, age, nextId, inTx, txAge, rows, rmark, smark, sweeping>>

-----------------------------------------------------------------------------
(* The table and the transactions on it. *)

Live == {i \in Ids : status[i] = "live"}
Swept == {i \in Ids : status[i] = "swept"}
Committed == Live \cup Swept

\* Numbers handed out whose transaction has not ended.
InFlight == {i \in Ids : i < nextId /\ status[i] = "none"}

\* The first k members of W in id order: ORDER BY id ASC LIMIT k.
FirstRows(W, k) == {i \in W : Cardinality({j \in W : j <= i}) <= k}

Older(a, limit) == IF a < limit THEN a + 1 ELSE limit

-----------------------------------------------------------------------------
(* The settled boundary: corelib's subscription.Watermark.  One observation *)
(* reads the highest visible number and the transactions still holding the  *)
(* table; a boundary is adopted only when every transaction remembered with *)
(* it has ended.                                                            *)

Watermark == [settled : 0 .. MaxId, established : BOOLEAN,
              pending : BOOLEAN, cand : 0 .. MaxId, wait : SUBSET Ids]

NewWatermark == [settled |-> 0, established |-> FALSE,
                 pending |-> FALSE, cand |-> 0, wait |-> {}]

TopVisible == IF Live = {} THEN 0 ELSE Max(Live)

\* Mutant: the transactions in flight are not waited for.
DrainedAtOnce(m) == TRUE

Drained(m) == m.wait \cap InFlight = {}

\* The boundary once the pending candidate, if any, has been judged.
Confirmed(m) == IF m.pending /\ m.cand > m.settled THEN m.cand ELSE m.settled

SettledAt(s) == [NewWatermark EXCEPT !.settled = s, !.established = TRUE]

Advance(m) ==
    IF m.pending /\ ~Drained(m) THEN m
    ELSE IF TopVisible <= Confirmed(m) THEN SettledAt(Confirmed(m))
    ELSE IF InFlight = {} THEN SettledAt(TopVisible)
    ELSE [settled |-> Confirmed(m), established |-> m.established \/ m.pending,
          pending |-> TRUE, cand |-> TopVisible, wait |-> InFlight]

\* The floor: just below the earliest row kept, the boundary when none is.
ObserveFloor(m) == IF Live = {} THEN m.settled ELSE Min(Live) - 1

-----------------------------------------------------------------------------
JournalInit ==
    /\ status = [i \in Ids |-> "none"]
    /\ subj = [i \in Ids |-> Userset]
    /\ age = [i \in Ids |-> 0]
    /\ nextId = 1
    /\ inTx = [t \in Writers |-> FALSE]
    /\ txAge = [t \in Writers |-> 0]
    /\ rows = [t \in Writers |-> {}]
    /\ rmark = [r \in Replicas |-> NewWatermark]
    /\ smark = [r \in Replicas |-> NewWatermark]
    /\ sweeping = [r \in Replicas |-> FALSE]

\* A writing use-case opens its transaction: created_at is fixed from here on.
Begin(t) ==
    /\ ~inTx[t]
    /\ inTx' = [inTx EXCEPT ![t] = TRUE]
    /\ txAge' = [txAge EXCEPT ![t] = 0]
    /\ UNCHANGED <<status, subj, age, nextId, rows, rmark, smark, sweeping>>

\* The revocation is written beside the change itself, in the same transaction.
EmitSubjectChangeEvent(t) ==
    /\ inTx[t]
    /\ nextId \in Ids
    /\ \E s \in Subjects \cup {Userset} : subj' = [subj EXCEPT ![nextId] = s]
    /\ rows' = [rows EXCEPT ![t] = @ \cup {nextId}]
    /\ nextId' = nextId + 1
    /\ UNCHANGED <<status, age, inTx, txAge, rmark, smark, sweeping>>

Commit(t) ==
    /\ inTx[t]
    /\ inTx' = [inTx EXCEPT ![t] = FALSE]
    /\ txAge' = [txAge EXCEPT ![t] = 0]
    /\ rows' = [rows EXCEPT ![t] = {}]
    /\ status' = [i \in Ids |-> IF i \in rows[t] THEN "live" ELSE status[i]]
    /\ age' = [i \in Ids |-> IF i \in rows[t] THEN txAge[t] ELSE age[i]]
    /\ UNCHANGED <<subj, nextId, rmark, smark, sweeping>>

\* The transaction aborts; the numbers it drew are never reused.
Rollback(t) ==
    /\ inTx[t]
    /\ inTx' = [inTx EXCEPT ![t] = FALSE]
    /\ txAge' = [txAge EXCEPT ![t] = 0]
    /\ rows' = [rows EXCEPT ![t] = {}]
    /\ status' = [i \in Ids |-> IF i \in rows[t] THEN "void" ELSE status[i]]
    /\ UNCHANGED <<subj, age, nextId, rmark, smark, sweeping>>

-----------------------------------------------------------------------------
(* The retention sweep: SweepAgedRows.  The boundary is taken in one        *)
(* statement and the rows are deleted in the next one.                      *)

SweepObserve(r) ==
    /\ ~sweeping[r]
    /\ smark' = [smark EXCEPT ![r] = Advance(@)]
    /\ sweeping' = [sweeping EXCEPT ![r] = smark'[r].established]
    /\ UNCHANGED <<status, subj, age, nextId, inTx, txAge, rows, rmark>>

(* head, keep and cut of subjectChangeSweepSQL. *)

\* Mutant: the statement without its upper boundary.
SweepHeadUnbounded(upto) == FirstRows(Live, Batch)

SweepHead(upto) == FirstRows({i \in Live : i <= upto}, Batch)

\* Mutant: a row is let go one tick early.
SweepKeepShort(upto) == {i \in SweepHead(upto) : age[i] < Grace}

SweepKeep(upto) == {i \in SweepHead(upto) : age[i] <= Grace}

SweepCut(upto) == {i \in SweepHead(upto) : \A k \in SweepKeep(upto) : i < k}

SweepDelete(r) ==
    /\ sweeping[r]
    /\ LET gone == {i \in Live : \E c \in SweepCut(smark[r].settled) : i <= c}
       IN  /\ status' = [i \in Ids |-> IF i \in gone THEN "swept" ELSE status[i]]
           /\ age' = [i \in Ids |-> IF i \in gone THEN 0 ELSE age[i]]
    /\ sweeping' = [sweeping EXCEPT ![r] = FALSE]
    /\ UNCHANGED <<subj, nextId, inTx, txAge, rows, rmark, smark>>

-----------------------------------------------------------------------------
\* An owner replica starts over: both watermarks are new.
NewReplica(r) ==
    /\ rmark' = [rmark EXCEPT ![r] = NewWatermark]
    /\ smark' = [smark EXCEPT ![r] = NewWatermark]
    /\ sweeping' = [sweeping EXCEPT ![r] = FALSE]
    /\ UNCHANGED <<status, subj, age, nextId, inTx, txAge, rows>>

\* One tick passes for the rows and for the open transactions.
JournalTick ==
    /\ age' = [i \in Ids |-> IF status[i] = "live" THEN Older(age[i], Grace + 1) ELSE age[i]]
    /\ txAge' = [t \in Writers |-> IF inTx[t] THEN Older(txAge[t], Grace + 1) ELSE txAge[t]]
    /\ UNCHANGED <<status, subj, nextId, inTx, rows, rmark, smark, sweeping>>

-----------------------------------------------------------------------------
JournalTypeOK ==
    /\ status \in [Ids -> {"none", "live", "void", "swept"}]
    /\ subj \in [Ids -> Subjects \cup {Userset}]
    /\ age \in [Ids -> 0 .. Grace + 1]
    /\ nextId \in 1 .. MaxId + 1
    /\ inTx \in [Writers -> BOOLEAN]
    /\ txAge \in [Writers -> 0 .. Grace + 1]
    /\ rows \in [Writers -> SUBSET Ids]
    /\ rmark \in [Replicas -> Watermark]
    /\ smark \in [Replicas -> Watermark]
    /\ sweeping \in [Replicas -> BOOLEAN]

\* No boundary is ever drawn over a number that can still become a row: neither
\* a reader nor the sweep may treat (.., settled] as final while a writer is in
\* there (subject_change_repo.go: "the settled boundary, never MAX(id)").
NothingOpenBelowABoundary ==
    \A r \in Replicas : \A i \in Ids :
        status[i] = "none" => rmark[r].settled < i /\ smark[r].settled < i

\* The sweep takes a prefix: what it deleted lies below every row that is kept
\* and below every number that may still become one.  The floor means something
\* only because of this.
SweepTakesAPrefix ==
    \A i, j \in Ids : status[i] = "swept" /\ status[j] \in {"live", "none"} => i < j
=============================================================================
