------------------------ MODULE SubjectChangeProofs ------------------------
(***************************************************************************)
(* Proofs about the journal and its readers, for any number of writers,    *)
(* replicas, readers, subjects and rows, and about readers that are        *)
(* confirmed in time.                                                      *)
(***************************************************************************)
EXTENDS SubjectChangeTimely, FiniteSetTheorems, NaturalsInduction,
        WellFoundedInduction, TLAPS

-----------------------------------------------------------------------------
(* Facts about the operators of the model. *)

\* The journal's numbers are finitely many natural numbers.
LEMMA IdsAreNumbers == Ids \subseteq Nat /\ IsFiniteSet(Ids)
<1>1. MaxId \in Nat /\ MaxId \in Int /\ 1 \in Int
  BY JournalAssumption
<1> QED
  BY <1>1, FS_Interval DEF Ids

\* A non-empty set of numbers has a least member.
LEMMA LeastExists ==
    ASSUME NEW S \in SUBSET Nat, S # {}
    PROVE  \E x \in S : \A y \in S : x <= y
<1> DEFINE R == {ss \in Nat \X Nat : ss[1] < ss[2]}
<1>1. IsWellFoundedOn(R, Nat)
  BY NatLessThanWellFounded, Zenon DEF OpToRel
<1>2. \E x \in S : \A y \in S : ~(<<y, x>> \in R)
  BY <1>1, WFMin
<1>3. \A x, y \in S : ~(<<y, x>> \in R) => x <= y
  OBVIOUS
<1> QED
  BY <1>2, <1>3

\* A non-empty set of numbers below a bound has a greatest member.
LEMMA GreatestExists ==
    ASSUME NEW n \in Nat, NEW S \in SUBSET (0 .. n), S # {}
    PROVE  \E x \in S : \A y \in S : x >= y
<1> DEFINE D == {n - x : x \in S}
<1>a. \A x \in S : x \in Nat /\ n - x \in Nat
  OBVIOUS
<1>b. PICK s \in S : TRUE
  OBVIOUS
<1>c. D \subseteq Nat
  BY <1>a
<1>d. n - s \in D
  OBVIOUS
<1>1. D \in SUBSET Nat /\ D # {}
  BY <1>c, <1>d
<1>2. PICK d \in D : \A e \in D : d <= e
  BY <1>1, LeastExists
<1>3. PICK x \in S : d = n - x
  OBVIOUS
<1>4. \A y \in S : x >= y
  BY <1>2, <1>3
<1> QED
  BY <1>4

\* Min and Max of a non-empty set of row numbers are members that bound it.
LEMMA MinOfIds ==
    ASSUME NEW S \in SUBSET Ids, S # {}
    PROVE  Min(S) \in S /\ \A y \in S : Min(S) <= y
<1>1. S \in SUBSET Nat
  BY IdsAreNumbers
<1>2. \E x \in S : \A y \in S : x <= y
  BY <1>1, LeastExists
<1> QED
  BY <1>2 DEF Min

\* A nonempty set of positions has a greatest member, and Max is it.
LEMMA MaxOfPositions ==
    ASSUME NEW S \in SUBSET (0 .. MaxId), S # {}
    PROVE  Max(S) \in S /\ \A y \in S : y <= Max(S)
<1>1. MaxId \in Nat
  BY JournalAssumption
<1>2. \E x \in S : \A y \in S : x >= y
  BY <1>1, GreatestExists
<1>3. Max(S) \in S /\ \A y \in S : Max(S) >= y
  BY <1>2 DEF Max
<1> QED
  BY <1>1, <1>3

\* The first rows of a set are closed downwards in it.
LEMMA FirstRowsAreAPrefix ==
    ASSUME NEW W \in SUBSET Ids, NEW k \in Nat,
           NEW p \in FirstRows(W, k), NEW i \in W, i <= p
    PROVE  i \in FirstRows(W, k)
<1> DEFINE Below(x) == {j \in W : j <= x}
<1>1. IsFiniteSet(Ids)
  BY IdsAreNumbers
<1>a. p \in W /\ p \in Nat /\ i \in Nat /\ \A j \in W : j \in Nat
  BY IdsAreNumbers DEF FirstRows
<1>b. \A j \in W : j <= i => j <= p
  BY <1>a
<1>2. Below(p) \in SUBSET Ids /\ Below(i) \in SUBSET Below(p)
  BY <1>b
<1>3. IsFiniteSet(Below(p))
  BY <1>1, <1>2, FS_Subset
<1>4. /\ IsFiniteSet(Below(i))
      /\ Cardinality(Below(i)) <= Cardinality(Below(p))
  BY <1>2, <1>3, FS_Subset
<1>5. Cardinality(Below(i)) \in Nat /\ Cardinality(Below(p)) \in Nat
  BY <1>3, <1>4, FS_CardinalityType
<1>6. Cardinality(Below(p)) <= k
  BY DEF FirstRows
<1> QED
  BY <1>4, <1>5, <1>6 DEF FirstRows

\* Fewer rows than the limit are all the rows there are.
LEMMA ShortPageIsWhole ==
    ASSUME NEW W \in SUBSET Ids, NEW k \in Nat,
           Cardinality(FirstRows(W, k)) < k
    PROVE  FirstRows(W, k) = W
<1> DEFINE F == FirstRows(W, k)
<1> DEFINE Below(x) == {j \in W : j <= x}
<1>1. IsFiniteSet(Ids) /\ F \in SUBSET W /\ F \in SUBSET Ids
  BY IdsAreNumbers DEF FirstRows
<1>2. IsFiniteSet(F) /\ Cardinality(F) \in Nat
  BY <1>1, FS_Subset, FS_CardinalityType
<1>3. SUFFICES ASSUME W \ F # {} PROVE FALSE
  BY <1>1
<1>4. PICK i \in W \ F : \A j \in W \ F : i <= j
  <2>1. (W \ F) \in SUBSET Nat
    BY IdsAreNumbers
  <2> QED
    BY <1>3, <2>1, LeastExists
<1>5. Below(i) \in SUBSET (F \cup {i})
  <2>1. SUFFICES ASSUME NEW j \in W, j <= i, j \notin F PROVE j = i
    OBVIOUS
  <2>2. i <= j
    BY <1>4, <2>1
  <2>3. i \in Nat /\ j \in Nat
    BY IdsAreNumbers
  <2> QED
    BY <2>1, <2>2, <2>3
<1>6. /\ IsFiniteSet(F \cup {i})
      /\ Cardinality(F \cup {i}) = Cardinality(F) + 1
  BY <1>2, <1>4, FS_AddElement
<1>7. /\ IsFiniteSet(Below(i))
      /\ Cardinality(Below(i)) <= Cardinality(F) + 1
  BY <1>5, <1>6, FS_Subset
<1>8. Cardinality(Below(i)) \in Nat
  BY <1>7, FS_CardinalityType
<1>9. Cardinality(Below(i)) <= k
  BY <1>2, <1>7, <1>8
<1> QED
  BY <1>4, <1>9 DEF FirstRows

-----------------------------------------------------------------------------
(* The inductive invariant. *)

\* Transactions own distinct, undecided numbers the sequence has handed out.
RowsInv ==
    /\ \A i \in Ids : status[i] # "none" => i < nextId
    /\ \A t \in Writers : \A i \in rows[t] : i < nextId /\ status[i] = "none"
    /\ \A t, u \in Writers : t # u => rows[t] \cap rows[u] = {}

\* A watermark: nothing undecided at or below its boundary, and whatever is
\* undecided at or below its candidate is remembered with it.
MarkInv(m) ==
    /\ \A i \in Ids : status[i] = "none" => m.settled < i
    /\ m.pending => \A i \in Ids : status[i] = "none" /\ i <= m.cand
                                     => i \in m.wait /\ i < nextId

MarksInv == \A r \in Replicas : MarkInv(rmark[r]) /\ MarkInv(smark[r])

\* A call in progress: its boundary covers nothing undecided and is still covered
\* by the replica's watermark.
CallInv(w) ==
    pc[w] \in {"page", "floor"} =>
        /\ cursor[w] < pos[w]
        /\ pos[w] <= rmark[rep[w]].settled
        /\ \A i \in Ids : status[i] = "none" => pos[w] < i

\* A page that was read lacks only rows that were swept before it was read.
PageInv(w) ==
    pc[w] = "floor" =>
        /\ \A i \in page[w] : cursor[w] < i /\ i <= pos[w]
        /\ \A p \in page[w] : \A i \in Live : cursor[w] < i /\ i <= p => i \in page[w]
        /\ Cardinality(page[w]) < Limit =>
              \A i \in Live : cursor[w] < i /\ i <= pos[w] => i \in page[w]

\* An answer: its rows lie in its window, which is complete and holds no writer.
AnswerInv(w) ==
    pc[w] = "rows" =>
        /\ cursor[w] <= pos[w]
        /\ \A i \in page[w] : cursor[w] < i /\ i <= pos[w]
        /\ pos[w] = cursor[w] \/ \A i \in Ids : status[i] = "none" => pos[w] < i
        /\ cursor[w] > 0 =>
              \A i \in Committed : cursor[w] < i /\ i <= pos[w] => i \in page[w]

\* The reader: its cursor has passed no writer by reading, and no change it has
\* passed by reading is still due.
ReaderInv(w) ==
    /\ seat[w] <= cursor[w]
    /\ ~primed[w] => cursor[w] = 0
    /\ \A i \in Ids : status[i] = "none" => cursor[w] < i \/ i <= seat[w]
    /\ stale[w] \subseteq Committed
    /\ due[w] \subseteq Committed
    /\ \A i \in due[w] : subj[i] \in Subjects
    /\ seat[w] > 0 => \A i \in stale[w] \cup due[w] : ~(seat[w] < i /\ i <= cursor[w])

WatchersInv == \A w \in Watchers :
    CallInv(w) /\ PageInv(w) /\ AnswerInv(w) /\ ReaderInv(w)

IInv == TypeOK /\ RowsInv /\ MarksInv /\ SweepTakesAPrefix /\ WatchersInv

-----------------------------------------------------------------------------
(* Type correctness. *)

\* An observation sees the highest committed row, or zero when the journal is empty.
LEMMA TopVisibleType ==
    ASSUME JournalTypeOK
    PROVE  /\ TopVisible \in 0 .. MaxId
           /\ \A i \in Live : i <= TopVisible
           /\ Live # {} => TopVisible \in Live
<1>1. Live \in SUBSET (0 .. MaxId)
  BY JournalAssumption DEF Live, Ids
<1>2. CASE Live = {}
  BY <1>2, JournalAssumption DEF TopVisible
<1>3. CASE Live # {}
  BY <1>1, <1>3, MaxOfPositions DEF TopVisible
<1> QED
  BY <1>2, <1>3

\* Watermark.Advance returns a watermark.
LEMMA AdvanceType ==
    ASSUME JournalTypeOK, NEW m \in Watermark
    PROVE  Advance(m) \in Watermark
<1>1. TopVisible \in 0 .. MaxId
  BY TopVisibleType
<1>2. Confirmed(m) \in 0 .. MaxId
  BY DEF Confirmed, Watermark
<1>3. InFlight \in SUBSET Ids
  BY DEF InFlight
<1>4. 0 \in 0 .. MaxId
  BY JournalAssumption
<1>5. \A s \in 0 .. MaxId : SettledAt(s) \in Watermark
  BY <1>4 DEF SettledAt, NewWatermark, Watermark
<1>6. [settled |-> Confirmed(m), established |-> m.established \/ m.pending,
       pending |-> TRUE, cand |-> TopVisible, wait |-> InFlight] \in Watermark
  BY <1>1, <1>2, <1>3 DEF Watermark
<1> QED
  BY <1>1, <1>2, <1>5, <1>6 DEF Advance

\* ObserveFloor returns a position.
LEMMA FloorType ==
    ASSUME JournalTypeOK, NEW m \in Watermark
    PROVE  ObserveFloor(m) \in 0 .. MaxId
<1>1. Live \in SUBSET Ids
  BY DEF Live
<1>2. CASE Live = {}
  BY <1>2 DEF ObserveFloor, Watermark
<1>3. CASE Live # {}
  <2>1. Min(Live) \in 1 .. MaxId
    BY <1>1, <1>3, MinOfIds DEF Ids
  <2> QED
    BY <1>3, <2>1, JournalAssumption DEF ObserveFloor
<1> QED
  BY <1>2, <1>3

\* A page as long as the limit has a last row.
LEMMA FullPage ==
    ASSUME NEW P \in SUBSET Ids, Cardinality(P) >= Limit
    PROVE  P # {} /\ Max(P) \in P /\ \A i \in P : i <= Max(P)
<1>1. P # {}
  BY FS_EmptySet, WatcherAssumption
<1>2. P \in SUBSET (0 .. MaxId)
  BY JournalAssumption DEF Ids
<1> QED
  BY <1>1, <1>2, MaxOfPositions

\* The cursor after a page: the page's last row, or where it was.
LEMMA CursorAfterPage ==
    ASSUME NEW c \in 0 .. MaxId, NEW P \in SUBSET Ids
    PROVE  /\ Max({c} \cup P) \in {c} \cup P
           /\ Max({c} \cup P) \in 0 .. MaxId
           /\ c <= Max({c} \cup P)
<1>1. {c} \cup P \in SUBSET (0 .. MaxId) /\ {c} \cup P # {}
  BY JournalAssumption DEF Ids
<1> QED
  BY <1>1, MaxOfPositions

\* A capped age stays under its cap.
LEMMA OlderType ==
    ASSUME NEW limit \in Nat, NEW a \in 0 .. limit
    PROVE  Older(a, limit) \in 0 .. limit
  BY DEF Older

\* The steps of a call keep the call's own variables in their types.
CallTypeOK ==
    /\ pc \in [Watchers -> {"idle", "advance", "page", "floor", "rows", "lost", "error"}]
    /\ rep \in [Watchers -> Replicas]
    /\ pass \in [Watchers -> 1 .. MaxPasses]
    /\ pos \in [Watchers -> 0 .. MaxId]
    /\ page \in [Watchers -> SUBSET Ids]

EdgeTypeOK ==
    /\ cursor \in [Watchers -> 0 .. MaxId]
    /\ primed \in [Watchers -> BOOLEAN]
    /\ silence \in [Watchers -> 0 .. StaleAfter]
    /\ open \in [Watchers -> SUBSET Subjects]
    /\ seat \in [Watchers -> 0 .. MaxId]
    /\ stale \in [Watchers -> SUBSET Ids]
    /\ due \in [Watchers -> SUBSET Ids]

\* The type invariant is that of the journal, of the calls and of the edges.
LEMMA TypeParts == TypeOK <=> JournalTypeOK /\ CallTypeOK /\ EdgeTypeOK
  BY DEF TypeOK, CallTypeOK, EdgeTypeOK

\* Starting a call keeps the calls' variables in their types.
LEMMA CallType ==
    ASSUME CallTypeOK, NEW w \in Watchers, NEW n \in 1 .. MaxPasses, Call(w, n)
    PROVE  CallTypeOK'
  BY JournalAssumption DEF CallTypeOK, Call

\* Ending a poll keeps the calls' variables in their types.
LEMMA ReturnType ==
    ASSUME CallTypeOK, NEW w \in Watchers, Return(w)
    PROVE  CallTypeOK'
  BY JournalAssumption, WatcherAssumption DEF CallTypeOK, Return

\* Writers, sweeps, owner restarts and time keep the journal's variables in their types.
LEMMA JournalStepType ==
    ASSUME JournalTypeOK,
           \/ \E t \in Writers : Begin(t) \/ EmitSubjectChangeEvent(t) \/ Commit(t) \/ Rollback(t)
           \/ \E r \in Replicas : SweepObserve(r) \/ SweepDelete(r) \/ NewReplica(r)
           \/ JournalTick
    PROVE  JournalTypeOK'
<1> USE DEF JournalTypeOK
<1>1. ASSUME NEW t \in Writers, Begin(t) PROVE JournalTypeOK'
  BY <1>1, JournalAssumption DEF Begin
<1>2. ASSUME NEW t \in Writers, EmitSubjectChangeEvent(t) PROVE JournalTypeOK'
  BY <1>2, JournalAssumption DEF EmitSubjectChangeEvent, Ids
<1>3. ASSUME NEW t \in Writers, Commit(t) PROVE JournalTypeOK'
  BY <1>3, JournalAssumption DEF Commit
<1>4. ASSUME NEW t \in Writers, Rollback(t) PROVE JournalTypeOK'
  BY <1>4, JournalAssumption DEF Rollback
<1>5. ASSUME NEW r \in Replicas, SweepObserve(r) PROVE JournalTypeOK'
  <2>1. Advance(smark[r]) \in Watermark
    BY AdvanceType
  <2>2. smark' \in [Replicas -> Watermark] /\ smark'[r] \in Watermark
    BY <1>5, <2>1 DEF SweepObserve
  <2>3. smark'[r].established \in BOOLEAN
    BY <2>2 DEF Watermark
  <2>4. sweeping' \in [Replicas -> BOOLEAN]
    BY <1>5, <2>3 DEF SweepObserve
  <2> QED
    BY <1>5, <2>2, <2>4 DEF SweepObserve
<1>6. ASSUME NEW r \in Replicas, SweepDelete(r) PROVE JournalTypeOK'
  BY <1>6, JournalAssumption DEF SweepDelete
<1>7. ASSUME NEW r \in Replicas, NewReplica(r) PROVE JournalTypeOK'
  <2>1. NewWatermark \in Watermark
    BY JournalAssumption DEF NewWatermark, Watermark
  <2> QED
    BY <1>7, <2>1 DEF NewReplica
<1>8. ASSUME JournalTick PROVE JournalTypeOK'
  <2>1. Grace + 1 \in Nat
    BY JournalAssumption
  <2>2. age' \in [Ids -> 0 .. Grace + 1]
    BY <1>8, <2>1, OlderType DEF JournalTick
  <2>3. txAge' \in [Writers -> 0 .. Grace + 1]
    BY <1>8, <2>1, OlderType DEF JournalTick
  <2> QED
    BY <1>8, <2>2, <2>3 DEF JournalTick
<1> QED
  BY <1>1, <1>2, <1>3, <1>4, <1>5, <1>6, <1>7, <1>8

\* The first state is well typed.
LEMMA TypeInit == Init => TypeOK
<1>1. ASSUME Init PROVE TypeOK
  <2>1. NewWatermark \in Watermark
    BY JournalAssumption DEF NewWatermark, Watermark
  <2>2. JournalTypeOK
    BY <1>1, <2>1, JournalAssumption DEF Init, JournalInit, JournalTypeOK
  <2>3. CallTypeOK
    BY <1>1, JournalAssumption, WatcherAssumption DEF Init, CallTypeOK
  <2>4. EdgeTypeOK
    BY <1>1, JournalAssumption, WatcherAssumption DEF Init, EdgeTypeOK
  <2> QED
    BY <2>2, <2>3, <2>4, TypeParts
<1> QED
  BY <1>1

\* Every action of the composed system keeps the types.
LEMMA TypeStep == TypeOK /\ [Next]_vars => TypeOK'
<1> SUFFICES ASSUME TypeOK, [Next]_vars PROVE TypeOK'
  OBVIOUS
<1> SUFFICES JournalTypeOK' /\ CallTypeOK' /\ EdgeTypeOK'
  BY DEF TypeOK, CallTypeOK, EdgeTypeOK
<1>0. JournalTypeOK /\ CallTypeOK /\ EdgeTypeOK
  BY TypeParts
<1>a. ASSUME UNCHANGED callVars PROVE CallTypeOK'
  BY <1>0, <1>a DEF CallTypeOK, callVars
<1>b. ASSUME UNCHANGED edgeVars PROVE EdgeTypeOK'
  BY <1>0, <1>b DEF EdgeTypeOK, edgeVars
<1>c. ASSUME UNCHANGED journalVars PROVE JournalTypeOK'
  BY <1>0, <1>c DEF JournalTypeOK, journalVars
<1>1. ASSUME NEW t \in Writers,
             WriterBegins(t) \/ WriterEmits(t) \/ WriterAborts(t)
      PROVE  JournalTypeOK' /\ CallTypeOK' /\ EdgeTypeOK'
  <2>1. Begin(t) \/ EmitSubjectChangeEvent(t) \/ Rollback(t)
    BY <1>1 DEF WriterBegins, WriterEmits, WriterAborts
  <2>2. UNCHANGED callVars /\ UNCHANGED edgeVars
    BY <1>1 DEF WriterBegins, WriterEmits, WriterAborts
  <2> QED
    BY <1>0, <1>a, <1>b, <2>1, <2>2, JournalStepType
<1>2. ASSUME NEW t \in Writers, WriterCommits(t)
      PROVE  JournalTypeOK' /\ CallTypeOK' /\ EdgeTypeOK'
  <2>1. JournalTypeOK'
    BY <1>0, <1>2, JournalStepType DEF WriterCommits
  <2>2. CallTypeOK'
    BY <1>a, <1>2 DEF WriterCommits
  <2>3. EdgeTypeOK'
    BY <1>0, <1>2 DEF WriterCommits, EdgeTypeOK, JournalTypeOK
  <2> QED
    BY <2>1, <2>2, <2>3
<1>3. ASSUME NEW r \in Replicas, SweepAdvances(r) \/ SweepDeletes(r)
      PROVE  JournalTypeOK' /\ CallTypeOK' /\ EdgeTypeOK'
  <2>1. SweepObserve(r) \/ SweepDelete(r)
    BY <1>3 DEF SweepAdvances, SweepDeletes
  <2>2. UNCHANGED callVars /\ UNCHANGED edgeVars
    BY <1>3 DEF SweepAdvances, SweepDeletes
  <2> QED
    BY <1>0, <1>a, <1>b, <2>1, <2>2, JournalStepType
<1>4. ASSUME NEW r \in Replicas, RestartOwner(r)
      PROVE  JournalTypeOK' /\ CallTypeOK' /\ EdgeTypeOK'
  <2>1. JournalTypeOK'
    BY <1>0, <1>4, JournalStepType DEF RestartOwner
  <2>2. CallTypeOK'
    BY <1>0, <1>4, JournalAssumption DEF RestartOwner, CallTypeOK
  <2>3. EdgeTypeOK'
    BY <1>b, <1>4 DEF RestartOwner
  <2> QED
    BY <2>1, <2>2, <2>3
<1>5. ASSUME Tick PROVE JournalTypeOK' /\ CallTypeOK' /\ EdgeTypeOK'
  <2>1. JournalTypeOK'
    BY <1>0, <1>5, JournalStepType DEF Tick
  <2>2. CallTypeOK'
    BY <1>a, <1>5 DEF Tick
  <2>3. silence' \in [Watchers -> 0 .. StaleAfter]
    BY <1>0, <1>5, OlderType, WatcherAssumption DEF Tick, EdgeTypeOK
  <2>4. EdgeTypeOK'
    BY <1>0, <1>5, <2>3 DEF Tick, EdgeTypeOK
  <2> QED
    BY <2>1, <2>2, <2>4
<1>6. ASSUME NEW w \in Watchers, PollBoundary(w)
      PROVE  JournalTypeOK' /\ CallTypeOK' /\ EdgeTypeOK'
  <2> DEFINE m == Advance(rmark[rep[w]])
  <2>1. m \in Watermark
    BY <1>0, AdvanceType DEF JournalTypeOK, CallTypeOK
  <2> HIDE DEF m
  <2>2. JournalTypeOK'
    BY <1>0, <1>6, <2>1 DEF PollBoundary, JournalTypeOK, m
  <2>3. m.settled \in 0 .. MaxId /\ cursor[w] \in 0 .. MaxId /\ 0 \in 0 .. MaxId
    BY <1>0, <2>1, JournalAssumption DEF Watermark, EdgeTypeOK
  <2>4. CallTypeOK'
    BY <1>0, <1>6, <2>3 DEF PollBoundary, CallTypeOK, m
  <2> QED
    BY <1>b, <1>6, <2>2, <2>4 DEF PollBoundary
<1>7. ASSUME NEW w \in Watchers, PollPage(w)
      PROVE  JournalTypeOK' /\ CallTypeOK' /\ EdgeTypeOK'
  <2>1. FirstRows({i \in Live : cursor[w] < i /\ i <= pos[w]}, Limit) \in SUBSET Ids
    BY DEF FirstRows, Live
  <2>2. CallTypeOK'
    BY <1>0, <1>7, <2>1 DEF PollPage, CallTypeOK
  <2> QED
    BY <1>b, <1>c, <1>7, <2>2 DEF PollPage
<1>8. ASSUME NEW w \in Watchers, PollFloor(w)
      PROVE  JournalTypeOK' /\ CallTypeOK' /\ EdgeTypeOK'
  <2>1. ObserveFloor(rmark[rep[w]]) \in 0 .. MaxId
    BY <1>0, FloorType DEF JournalTypeOK, CallTypeOK
  <2>2. page[w] \in SUBSET Ids /\ pos[w] \in 0 .. MaxId
    BY <1>0 DEF CallTypeOK
  <2>3. Cardinality(page[w]) >= Limit => Max(page[w]) \in 0 .. MaxId
    BY <2>2, FullPage, JournalAssumption DEF Ids
  <2>4. CallTypeOK'
    BY <1>0, <1>8, <2>1, <2>2, <2>3 DEF PollFloor, CallTypeOK
  <2> QED
    BY <1>b, <1>c, <1>8, <2>4 DEF PollFloor
<1>9. ASSUME NEW w \in Watchers, PollStart(w)
      PROVE  JournalTypeOK' /\ CallTypeOK' /\ EdgeTypeOK'
  <2>1. CallTypeOK'
    BY <1>0, <1>9, CallType, WatcherAssumption DEF PollStart
  <2> QED
    BY <1>b, <1>c, <1>9, <2>1 DEF PollStart
<1>10. ASSUME NEW w \in Watchers, ReadChanges(w)
       PROVE  JournalTypeOK' /\ CallTypeOK' /\ EdgeTypeOK'
  <2>1. pass[w] \in 1 .. MaxPasses /\ page[w] \in SUBSET Ids /\ cursor[w] \in 0 .. MaxId
    BY <1>0 DEF CallTypeOK, EdgeTypeOK
  <2>2. ~LastPass(w) => pass[w] + 1 \in 1 .. MaxPasses
    BY <2>1, WatcherAssumption DEF LastPass
  <2>3. CallTypeOK'
    BY <1>0, <1>10, <2>2, CallType, ReturnType DEF ReadChanges
  <2>4. Max({cursor[w]} \cup page[w]) \in 0 .. MaxId
    BY <2>1, CursorAfterPage
  <2>5. EdgeTypeOK'
    BY <1>0, <1>10, <2>4, WatcherAssumption DEF ReadChanges, EdgeTypeOK
  <2> QED
    BY <1>c, <1>10, <2>3, <2>5 DEF ReadChanges
<1>11. ASSUME NEW w \in Watchers,
              \/ Prime(w) \/ ReadNothing(w) \/ PositionLost(w)
              \/ FailClosed(w) \/ RestartWatcher(w)
       PROVE  JournalTypeOK' /\ CallTypeOK' /\ EdgeTypeOK'
  <2>1. Return(w) /\ UNCHANGED journalVars
    BY <1>11 DEF Prime, ReadNothing, PositionLost, FailClosed, RestartWatcher
  <2>2. CallTypeOK'
    BY <1>0, <2>1, ReturnType
  <2>3. pos[w] \in 0 .. MaxId /\ 0 \in 0 .. MaxId /\ 0 \in 0 .. StaleAfter
    BY <1>0, JournalAssumption, WatcherAssumption DEF CallTypeOK
  <2>4. EdgeTypeOK'
    <3>1. CASE Prime(w)
      BY <1>0, <2>3, <3>1 DEF Prime, EdgeTypeOK
    <3>2. CASE ReadNothing(w)
      BY <1>0, <2>3, <3>2 DEF ReadNothing, EdgeTypeOK
    <3>3. CASE PositionLost(w)
      BY <1>0, <2>3, <3>3 DEF PositionLost, EdgeTypeOK
    <3>4. CASE FailClosed(w)
      BY <1>0, <2>3, <3>4 DEF FailClosed, EdgeTypeOK
    <3>5. CASE RestartWatcher(w)
      BY <1>0, <2>3, <3>5 DEF RestartWatcher, EdgeTypeOK
    <3> QED
      BY <1>11, <3>1, <3>2, <3>3, <3>4, <3>5
  <2> QED
    BY <1>c, <2>1, <2>2, <2>4
<1>12. ASSUME NEW w \in Watchers, OpenStream(w)
       PROVE  JournalTypeOK' /\ CallTypeOK' /\ EdgeTypeOK'
  <2>0. PICK s \in Subjects \ open[w] :
            /\ open' = [open EXCEPT ![w] = @ \cup {s}]
            /\ due' = [due EXCEPT ![w] = @ \cup {i \in stale[w] : subj[i] = s}]
    BY <1>12 DEF OpenStream
  <2>a. open[w] \cup {s} \in SUBSET Subjects
    BY <1>0 DEF EdgeTypeOK
  <2>b. due[w] \cup {i \in stale[w] : subj[i] = s} \in SUBSET Ids
    BY <1>0 DEF EdgeTypeOK
  <2>1. EdgeTypeOK'
    BY <1>0, <1>12, <2>0, <2>a, <2>b DEF OpenStream, EdgeTypeOK
  <2> QED
    BY <1>a, <1>c, <1>12, <2>1 DEF OpenStream
<1>13. ASSUME UNCHANGED vars PROVE JournalTypeOK' /\ CallTypeOK' /\ EdgeTypeOK'
  BY <1>a, <1>b, <1>c, <1>13 DEF vars
<1> QED
  BY <1>1, <1>2, <1>3, <1>4, <1>5, <1>6, <1>7, <1>8, <1>9, <1>10, <1>11, <1>12, <1>13
     DEF Next, WriterStep, SweepStep, WatcherStep, OwnerStep, EdgeStep, RestartStep

\* Every variable of the journal and its readers keeps its type, whatever the
\* writers, the sweep, the restarts and the calls do, for any instance.
THEOREM TypeCorrect == Spec => []TypeOK
<1>1. Init => TypeOK
  BY TypeInit
<1>2. TypeOK /\ [Next]_vars => TypeOK'
  BY TypeStep
<1> QED
  BY <1>1, <1>2, PTL DEF Spec

-----------------------------------------------------------------------------
(* The journal's part of the invariant. *)

\* What any step may do to a row: an undecided number is decided once, a committed
\* row may only be swept, and a decided row keeps the subject it names.
StatusStep ==
    /\ nextId <= nextId'
    /\ \A i \in Ids :
         /\ status'[i] = "none" => status[i] = "none"
         /\ status'[i] = "live" => status[i] \in {"none", "live"}
         /\ status'[i] = "swept" => status[i] \in {"live", "swept"}
         /\ status[i] = "swept" => status'[i] = "swept"
         /\ status[i] = "live" => status'[i] \in {"live", "swept"}
         /\ status[i] # "none" => subj'[i] = subj[i]

\* What any step may do to a watermark.
MarkStep(m, n) == n = m \/ n = Advance(m) \/ n = NewWatermark

\* An observation keeps a watermark sound and never moves its boundary back.
LEMMA AdvanceSound ==
    ASSUME JournalTypeOK, RowsInv, NEW m \in Watermark, MarkInv(m)
    PROVE  MarkInv(Advance(m)) /\ m.settled <= Advance(m).settled
<1>0. /\ m.settled \in 0 .. MaxId /\ m.cand \in 0 .. MaxId
      /\ TopVisible \in 0 .. MaxId /\ nextId \in Nat
      /\ \A i \in Ids : i \in Nat
      /\ 0 .. MaxId \subseteq Nat
  BY TopVisibleType, IdsAreNumbers, JournalAssumption DEF Watermark, JournalTypeOK
<1>1. \A i \in Ids : status[i] = "none" /\ i <= TopVisible => i \in InFlight
  <2> SUFFICES ASSUME NEW i \in Ids, status[i] = "none", i <= TopVisible
               PROVE  i < nextId
    BY DEF InFlight
  <2>1. Live # {}
    BY <1>0, JournalAssumption DEF TopVisible, Ids
  <2>2. TopVisible \in Live
    BY <2>1, TopVisibleType
  <2>3. TopVisible < nextId
    BY <2>2 DEF RowsInv, Live
  <2> QED
    BY <1>0, <2>3
<1>2. CASE m.pending /\ ~Drained(m)
  BY <1>0, <1>2 DEF Advance
<1>3. CASE ~(m.pending /\ ~Drained(m))
  <2>1. m.settled <= Confirmed(m) /\ Confirmed(m) \in Nat
    BY <1>0 DEF Confirmed
  <2>2. \A i \in Ids : status[i] = "none" => Confirmed(m) < i
    <3> SUFFICES ASSUME NEW i \in Ids, status[i] = "none" PROVE Confirmed(m) < i
      OBVIOUS
    <3>1. m.settled < i
      BY DEF MarkInv
    <3>2. m.pending => m.cand < i
      <4> SUFFICES ASSUME m.pending, i <= m.cand PROVE FALSE
        BY <1>0
      <4>1. i \in m.wait /\ i \in InFlight
        BY DEF MarkInv, InFlight
      <4> QED
        BY <1>3, <4>1 DEF Drained
    <3> QED
      BY <3>1, <3>2 DEF Confirmed
  <2>3. CASE TopVisible <= Confirmed(m)
    BY <1>3, <2>1, <2>2, <2>3 DEF Advance, SettledAt, NewWatermark, MarkInv
  <2>4. CASE ~(TopVisible <= Confirmed(m)) /\ InFlight = {}
    <3>1. \A i \in Ids : status[i] = "none" => TopVisible < i
      BY <1>0, <1>1, <2>4
    <3>2. m.settled <= TopVisible
      BY <1>0, <2>1, <2>4
    <3> QED
      BY <1>3, <2>4, <3>1, <3>2 DEF Advance, SettledAt, NewWatermark, MarkInv
  <2>5. CASE ~(TopVisible <= Confirmed(m)) /\ InFlight # {}
    <3>1. \A i \in InFlight : i < nextId
      BY DEF InFlight
    <3> QED
      BY <1>1, <1>3, <2>1, <2>2, <2>5, <3>1 DEF Advance, MarkInv
  <2> QED
    BY <2>3, <2>4, <2>5
<1> QED
  BY <1>2, <1>3

\* The watermark of a replica that has just started claims nothing.
LEMMA NewWatermarkSound == JournalTypeOK => MarkInv(NewWatermark)
  BY IdsAreNumbers, JournalAssumption DEF MarkInv, NewWatermark, Ids

\* The sweep deletes a prefix of what is left: everything it spares, and
\* everything still undecided, lies above what it takes.
LEMMA SweepIsAPrefix ==
    ASSUME JournalTypeOK, SweepTakesAPrefix, MarksInv, NEW r \in Replicas, SweepDelete(r)
    PROVE  SweepTakesAPrefix'
<1> DEFINE gone == {i \in Live : \E c \in SweepCut(smark[r].settled) : i <= c}
<1>1. status' = [i \in Ids |-> IF i \in gone THEN "swept" ELSE status[i]]
  BY DEF SweepDelete
<1>2. SUFFICES ASSUME NEW i \in Ids, NEW j \in Ids,
                      status'[i] = "swept", status'[j] \in {"live", "none"}
               PROVE  i < j
  BY DEF SweepTakesAPrefix
<1>3. j \notin gone /\ status[j] \in {"live", "none"}
  BY <1>1, <1>2 DEF JournalTypeOK
<1>4. CASE i \notin gone
  BY <1>1, <1>2, <1>3, <1>4 DEF SweepTakesAPrefix, JournalTypeOK
<1>5. CASE i \in gone
  <2>1. PICK c \in SweepCut(smark[r].settled) : i <= c
    BY <1>5
  <2>2. c \in Live /\ c <= smark[r].settled
    BY <2>1 DEF SweepCut, SweepHead, FirstRows
  <2>3. c < j
    <3>1. CASE status[j] = "none"
      <4>1. smark[r].settled < j
        BY <3>1 DEF MarksInv, MarkInv
      <4>2. smark[r].settled \in Nat /\ c \in Nat /\ j \in Nat
        BY <2>2, IdsAreNumbers, JournalAssumption DEF JournalTypeOK, Watermark, Live
      <4> QED
        BY <2>2, <4>1, <4>2
    <3>2. CASE status[j] = "live"
      <4>1. ~(j <= c)
        BY <1>3, <2>1, <3>2 DEF Live
      <4> QED
        BY <2>2, <4>1, IdsAreNumbers DEF Live
    <3> QED
      BY <1>3, <3>1, <3>2
  <2> QED
    BY <2>1, <2>2, <2>3, IdsAreNumbers DEF Live
<1> QED
  BY <1>4, <1>5

\* The actions, as the journal sees them.
LEMMA JournalSteps ==
    ASSUME TypeOK, [Next]_vars
    PROVE  \/ \E t \in Writers : Begin(t) \/ EmitSubjectChangeEvent(t) \/ Commit(t) \/ Rollback(t)
           \/ \E r \in Replicas : SweepObserve(r) \/ SweepDelete(r) \/ NewReplica(r)
           \/ JournalTick
           \/ \E w \in Watchers : PollBoundary(w)
           \/ UNCHANGED journalVars
<1>1. CASE WriterStep
  BY <1>1 DEF WriterStep, WriterBegins, WriterEmits, WriterCommits, WriterAborts
<1>2. CASE SweepStep
  BY <1>2 DEF SweepStep, SweepAdvances, SweepDeletes
<1>3. CASE Tick
  BY <1>3 DEF Tick
<1>4. CASE RestartStep
  BY <1>4 DEF RestartStep, RestartOwner, RestartWatcher
<1>5. ASSUME NEW w \in Watchers, OwnerStep(w) \/ EdgeStep(w) \/ OpenStream(w)
      PROVE  PollBoundary(w) \/ UNCHANGED journalVars
  BY <1>5 DEF OwnerStep, EdgeStep, OpenStream, PollPage, PollFloor, PollStart, Prime,
              ReadNothing, ReadChanges, PositionLost, FailClosed
<1>6. CASE UNCHANGED vars
  BY <1>6 DEF vars
<1> QED
  BY <1>1, <1>2, <1>3, <1>4, <1>5, <1>6 DEF Next, WatcherStep

\* No step gives a number to two transactions or decides a number twice.
LEMMA RowsStep ==
    ASSUME TypeOK, RowsInv, [Next]_vars
    PROVE  RowsInv' /\ StatusStep
<1>0. JournalTypeOK /\ (\A i \in Ids : i \in Nat) /\ nextId \in Nat /\ JournalTypeOK'
  BY TypeStep, IdsAreNumbers, JournalAssumption DEF TypeOK, JournalTypeOK
<1>1. ASSUME NEW t \in Writers, Begin(t) PROVE RowsInv' /\ StatusStep
  BY <1>0, <1>1 DEF Begin, RowsInv, StatusStep
<1>2. ASSUME NEW t \in Writers, EmitSubjectChangeEvent(t) PROVE RowsInv' /\ StatusStep
  <2>1. /\ status' = status /\ nextId' = nextId + 1 /\ nextId \in Ids
        /\ rows' = [rows EXCEPT ![t] = @ \cup {nextId}]
    BY <1>2 DEF EmitSubjectChangeEvent
  <2>2. status[nextId] = "none"
    BY <1>0, <2>1 DEF RowsInv
  <2>3. \A u \in Writers : nextId \notin rows[u]
    BY <1>0 DEF RowsInv, JournalTypeOK
  <2>4. \A u \in Writers : rows'[u] = IF u = t THEN rows[t] \cup {nextId} ELSE rows[u]
    BY <1>0, <2>1 DEF JournalTypeOK
  <2>5. RowsInv'
    <3>1. \A i \in Ids : status'[i] # "none" => i < nextId'
      BY <1>0, <2>1 DEF RowsInv
    <3>2. \A u \in Writers : \A i \in rows'[u] : i < nextId' /\ status'[i] = "none"
      BY <1>0, <2>1, <2>2, <2>4 DEF RowsInv, JournalTypeOK
    <3>3. \A u, v \in Writers : u # v => rows'[u] \cap rows'[v] = {}
      BY <2>3, <2>4 DEF RowsInv
    <3> QED
      BY <3>1, <3>2, <3>3 DEF RowsInv
  <2>6. StatusStep
    BY <1>0, <1>2, <2>1, <2>2 DEF EmitSubjectChangeEvent, StatusStep, JournalTypeOK
  <2> QED
    BY <2>5, <2>6
<1>3. ASSUME NEW t \in Writers, NEW s \in {"live", "void"},
             /\ status' = [i \in Ids |-> IF i \in rows[t] THEN s ELSE status[i]]
             /\ rows' = [rows EXCEPT ![t] = {}]
             /\ nextId' = nextId /\ subj' = subj
      PROVE  RowsInv' /\ StatusStep
  <2>1. \A u \in Writers : rows'[u] = IF u = t THEN {} ELSE rows[u]
    BY <1>0, <1>3 DEF JournalTypeOK
  <2>2. \A i \in rows[t] : i < nextId /\ status[i] = "none" /\ i \in Ids
    BY <1>0 DEF RowsInv, JournalTypeOK
  <2>3. RowsInv'
    <3>1. \A i \in Ids : status'[i] # "none" => i < nextId'
      BY <1>3, <2>2 DEF RowsInv
    <3>2. \A u \in Writers : \A i \in rows'[u] : i < nextId' /\ status'[i] = "none"
      <4> SUFFICES ASSUME NEW u \in Writers, NEW i \in rows'[u]
                   PROVE  i < nextId' /\ status'[i] = "none"
        OBVIOUS
      <4>1. u # t /\ i \in rows[u] /\ i \notin rows[t] /\ i \in Ids
        BY <1>0, <2>1 DEF RowsInv, JournalTypeOK
      <4> QED
        BY <1>3, <4>1 DEF RowsInv
    <3>3. \A u, v \in Writers : u # v => rows'[u] \cap rows'[v] = {}
      BY <2>1 DEF RowsInv
    <3> QED
      BY <3>1, <3>2, <3>3 DEF RowsInv
  <2>4. StatusStep
    BY <1>0, <1>3, <2>2 DEF StatusStep
  <2> QED
    BY <2>3, <2>4
<1>4. ASSUME NEW r \in Replicas, SweepDelete(r) PROVE RowsInv' /\ StatusStep
  <2>1. /\ nextId' = nextId /\ subj' = subj /\ rows' = rows
        /\ \A i \in Ids : status'[i] = status[i] \/ (status[i] = "live" /\ status'[i] = "swept")
    BY <1>4 DEF SweepDelete, Live
  <2>2. RowsInv'
    <3>1. \A i \in Ids : status'[i] # "none" => i < nextId'
      BY <2>1 DEF RowsInv
    <3>2. \A u \in Writers : \A i \in rows'[u] : i < nextId' /\ status'[i] = "none"
      BY <1>0, <2>1 DEF RowsInv, JournalTypeOK
    <3> QED
      BY <2>1, <3>1, <3>2 DEF RowsInv
  <2>3. StatusStep
    BY <1>0, <2>1 DEF StatusStep
  <2> QED
    BY <2>2, <2>3
<1>5. ASSUME status' = status, subj' = subj, nextId' = nextId, rows' = rows
      PROVE  RowsInv' /\ StatusStep
  BY <1>0, <1>5 DEF RowsInv, StatusStep
<1>6. ASSUME NEW t \in Writers, Commit(t) \/ Rollback(t) PROVE RowsInv' /\ StatusStep
  BY <1>3, <1>6 DEF Commit, Rollback
<1>7. ASSUME \/ \E r \in Replicas : SweepObserve(r) \/ NewReplica(r)
             \/ JournalTick \/ \E w \in Watchers : PollBoundary(w)
             \/ UNCHANGED journalVars
      PROVE  RowsInv' /\ StatusStep
  BY <1>5, <1>7 DEF SweepObserve, NewReplica, JournalTick, PollBoundary, journalVars
<1> QED
  BY <1>1, <1>2, <1>4, <1>6, <1>7, JournalSteps

\* No step leaves a row, or a number still undecided, below one that was swept.
LEMMA PrefixStep ==
    ASSUME TypeOK, RowsInv, MarksInv, SweepTakesAPrefix, [Next]_vars
    PROVE  SweepTakesAPrefix'
<1>1. ASSUME NEW r \in Replicas, SweepDelete(r) PROVE SweepTakesAPrefix'
  BY <1>1, SweepIsAPrefix DEF TypeOK
<1>2. ASSUME \A i \in Ids : /\ status'[i] = "swept" => status[i] = "swept"
                            /\ status'[i] \in {"live", "none"} => status[i] \in {"live", "none"}
      PROVE  SweepTakesAPrefix'
  BY <1>2 DEF SweepTakesAPrefix
<1>3. ASSUME NEW t \in Writers, Commit(t) \/ Rollback(t) PROVE SweepTakesAPrefix'
  <2>1. \A i \in rows[t] : status[i] = "none"
    BY DEF RowsInv
  <2> QED
    BY <1>2, <1>3, <2>1 DEF Commit, Rollback
<1>4. ASSUME status' = status PROVE SweepTakesAPrefix'
  BY <1>4 DEF SweepTakesAPrefix
<1>5. ASSUME \/ \E t \in Writers : Begin(t) \/ EmitSubjectChangeEvent(t)
             \/ \E r \in Replicas : SweepObserve(r) \/ NewReplica(r)
             \/ JournalTick \/ \E w \in Watchers : PollBoundary(w)
             \/ UNCHANGED journalVars
      PROVE  SweepTakesAPrefix'
  BY <1>4, <1>5 DEF Begin, EmitSubjectChangeEvent, SweepObserve, NewReplica, JournalTick,
                    PollBoundary, journalVars
<1> QED
  BY <1>1, <1>3, <1>5, JournalSteps

\* A step moves a watermark by an observation or a restart, and then decides no row.
LEMMA MarkChanges ==
    ASSUME TypeOK, [Next]_vars, NEW r \in Replicas
    PROVE  /\ MarkStep(rmark[r], rmark'[r])
           /\ MarkStep(smark[r], smark'[r])
           /\ rmark'[r] # rmark[r] \/ smark'[r] # smark[r] =>
                 status' = status /\ nextId' = nextId
<1>0. JournalTypeOK
  BY DEF TypeOK
<1>1. ASSUME NEW q \in Replicas, SweepObserve(q)
      PROVE  /\ rmark' = rmark /\ status' = status /\ nextId' = nextId
             /\ smark'[r] = smark[r] \/ smark'[r] = Advance(smark[r])
  BY <1>0, <1>1 DEF SweepObserve, JournalTypeOK
<1>2. ASSUME NEW q \in Replicas, NewReplica(q)
      PROVE  /\ status' = status /\ nextId' = nextId
             /\ rmark'[r] = rmark[r] \/ rmark'[r] = NewWatermark
             /\ smark'[r] = smark[r] \/ smark'[r] = NewWatermark
  BY <1>0, <1>2 DEF NewReplica, JournalTypeOK
<1>3. ASSUME NEW w \in Watchers, PollBoundary(w)
      PROVE  /\ smark' = smark /\ status' = status /\ nextId' = nextId
             /\ rmark'[r] = rmark[r] \/ rmark'[r] = Advance(rmark[r])
  BY <1>0, <1>3 DEF PollBoundary, JournalTypeOK
<1>4. ASSUME \/ \E t \in Writers : Begin(t) \/ EmitSubjectChangeEvent(t) \/ Commit(t) \/ Rollback(t)
             \/ \E q \in Replicas : SweepDelete(q)
             \/ JournalTick
             \/ UNCHANGED journalVars
      PROVE  rmark' = rmark /\ smark' = smark
  BY <1>4 DEF Begin, EmitSubjectChangeEvent, Commit, Rollback, SweepDelete, JournalTick, journalVars
<1> QED
  BY <1>1, <1>2, <1>3, <1>4, JournalSteps DEF MarkStep

\* No step leaves an undecided number under a boundary or forgotten under a candidate.
LEMMA MarksStep ==
    ASSUME TypeOK, RowsInv, MarksInv, [Next]_vars
    PROVE  MarksInv'
<1>0. JournalTypeOK /\ StatusStep /\ nextId \in Nat /\ nextId' \in Nat
      /\ \A i \in Ids : i \in Nat
  BY RowsStep, TypeStep, IdsAreNumbers, JournalAssumption DEF TypeOK, JournalTypeOK
<1>1. ASSUME NEW m \in Watermark, NEW n \in Watermark, MarkInv(m), MarkStep(m, n),
             n # m => status' = status /\ nextId' = nextId
      PROVE  /\ \A i \in Ids : status'[i] = "none" => n.settled < i
             /\ n.pending => \A i \in Ids : status'[i] = "none" /\ i <= n.cand
                                              => i \in n.wait /\ i < nextId'
  <2>1. CASE n = m
    BY <1>0, <1>1, <2>1 DEF MarkInv, StatusStep
  <2>2. CASE n # m
    <3>1. MarkInv(n)
      BY <1>0, <1>1, <2>2, AdvanceSound, NewWatermarkSound DEF MarkStep
    <3> QED
      BY <1>1, <2>2, <3>1 DEF MarkInv
  <2> QED
    BY <2>1, <2>2
<1>2. SUFFICES ASSUME NEW r \in Replicas PROVE MarkInv(rmark[r])' /\ MarkInv(smark[r])'
  BY DEF MarksInv
<1>3. /\ rmark[r] \in Watermark /\ smark[r] \in Watermark
      /\ rmark'[r] \in Watermark /\ smark'[r] \in Watermark
  BY TypeStep DEF TypeOK, JournalTypeOK
<1>4. MarkInv(rmark[r]) /\ MarkInv(smark[r])
  BY DEF MarksInv
<1>5. MarkInv(rmark[r])'
  BY <1>1, <1>3, <1>4, MarkChanges DEF MarkInv
<1>6. MarkInv(smark[r])'
  BY <1>1, <1>3, <1>4, MarkChanges DEF MarkInv
<1> QED
  BY <1>5, <1>6

\* A replica's reading boundary moves back only when the replica is restarted.
LEMMA BoundaryStep ==
    ASSUME TypeOK, RowsInv, MarksInv, [Next]_vars, NEW r \in Replicas
    PROVE  rmark[r].settled <= rmark'[r].settled \/ rmark'[r] = NewWatermark
<1>1. rmark[r] \in Watermark /\ MarkInv(rmark[r]) /\ JournalTypeOK
  BY DEF TypeOK, JournalTypeOK, MarksInv
<1>2. rmark[r].settled \in Nat
  BY <1>1, JournalAssumption DEF Watermark
<1>3. rmark[r].settled <= Advance(rmark[r]).settled
  BY <1>1, AdvanceSound
<1> QED
  BY <1>2, <1>3, MarkChanges DEF MarkStep

-----------------------------------------------------------------------------
(* The readers' part of the invariant. *)

WatcherInv(w) == CallInv(w) /\ PageInv(w) /\ AnswerInv(w) /\ ReaderInv(w)

\* A step that is not a step of w's own call.
CallUntouched(w) ==
    /\ pc'[w] = pc[w] /\ rep'[w] = rep[w] /\ pos'[w] = pos[w] /\ page'[w] = page[w]
    /\ pc[w] \in {"page", "floor"} => rmark[rep[w]].settled <= rmark'[rep[w]].settled

CursorUntouched(w) == cursor'[w] = cursor[w] /\ primed'[w] = primed[w] /\ seat'[w] = seat[w]

\* What becomes stale was committed by this step; what becomes due was, or was stale.
GrowsByCommits(w) ==
    /\ \A i \in stale'[w] : i \in stale[w] \/ (status[i] = "none" /\ status'[i] = "live")
    /\ \A i \in due'[w] :
         \/ i \in due[w]
         \/ /\ subj'[i] \in Subjects
            /\ i \in stale[w] \/ (status[i] = "none" /\ status'[i] = "live")

\* Positions and boundaries are natural numbers, and the sets of rows hold numbers.
LEMMA Numbers ==
    ASSUME TypeOK
    PROVE  /\ \A i \in Ids : i \in Nat /\ i > 0
           /\ \A w \in Watchers : /\ cursor[w] \in Nat /\ pos[w] \in Nat /\ seat[w] \in Nat
                                  /\ page[w] \subseteq Ids /\ stale[w] \subseteq Ids
                                  /\ due[w] \subseteq Ids /\ rep[w] \in Replicas
           /\ \A r \in Replicas : rmark[r].settled \in Nat /\ rmark[r] \in Watermark
<1>1. 0 .. MaxId \subseteq Nat
  BY JournalAssumption
<1>2. \A i \in Ids : i \in Nat /\ i > 0
  BY JournalAssumption DEF Ids
<1>3. \A r \in Replicas : rmark[r].settled \in Nat /\ rmark[r] \in Watermark
  BY <1>1 DEF TypeOK, JournalTypeOK, Watermark
<1> QED
  BY <1>1, <1>2, <1>3 DEF TypeOK

\* What a call in progress relies on survives the steps of everyone else.
LEMMA CallKept ==
    ASSUME TypeOK, TypeOK', StatusStep, NEW w \in Watchers,
           CallInv(w), PageInv(w), AnswerInv(w), CallUntouched(w), CursorUntouched(w)
    PROVE  CallInv(w)' /\ PageInv(w)' /\ AnswerInv(w)'
<1>0. \A i \in Ids : i \in Nat
  BY Numbers
<1>1. CallInv(w)'
  <2>1. pos[w] <= rmark[rep[w]].settled /\ rmark[rep[w]].settled <= rmark'[rep[w]].settled
           => pos[w] <= rmark'[rep[w]].settled
    <3>1. rmark'[rep[w]].settled \in Nat
      <4>1. rmark' \in [Replicas -> Watermark]
        BY DEF TypeOK, JournalTypeOK
      <4>2. rmark'[rep[w]] \in Watermark
        BY <4>1, Numbers
      <4> QED
        BY <4>2, JournalAssumption DEF Watermark
    <3> QED
      BY <3>1, Numbers
  <2> QED
    BY <2>1 DEF CallInv, CallUntouched, CursorUntouched, StatusStep
<1>2. PageInv(w)'
  <2> SUFFICES ASSUME pc'[w] = "floor"
               PROVE  /\ \A i \in page'[w] : cursor'[w] < i /\ i <= pos'[w]
                      /\ \A p \in page'[w] : \A i \in Live' :
                            cursor'[w] < i /\ i <= p => i \in page'[w]
                      /\ Cardinality(page'[w]) < Limit =>
                            \A i \in Live' : cursor'[w] < i /\ i <= pos'[w] => i \in page'[w]
    BY DEF PageInv
  <2>1. pc[w] = "floor"
    BY DEF CallUntouched
  <2>2. \A i \in Live' : i <= pos[w] => i \in Live
    <3> SUFFICES ASSUME NEW i \in Live', i <= pos[w] PROVE i \in Live
      OBVIOUS
    <3>1. i \in Ids /\ status'[i] = "live"
      BY DEF Live
    <3>2. status[i] # "none"
      BY <1>0, <2>1, <3>1, Numbers DEF CallInv
    <3> QED
      BY <3>1, <3>2 DEF Live, StatusStep
  <2>3. \A p \in page[w] : \A i \in Live' : i <= p => i <= pos[w]
    <3> SUFFICES ASSUME NEW p \in page[w], NEW i \in Live', i <= p PROVE i <= pos[w]
      OBVIOUS
    <3>1. p <= pos[w]
      BY <2>1 DEF PageInv
    <3>2. i \in Nat /\ p \in Nat
      BY Numbers DEF Live
    <3> QED
      BY <3>1, <3>2, Numbers
  <2> QED
    BY <2>1, <2>2, <2>3 DEF PageInv, CallUntouched, CursorUntouched
<1>3. AnswerInv(w)'
  <2> SUFFICES ASSUME pc'[w] = "rows"
               PROVE  /\ cursor'[w] <= pos'[w]
                      /\ \A i \in page'[w] : cursor'[w] < i /\ i <= pos'[w]
                      /\ pos'[w] = cursor'[w] \/ \A i \in Ids : status'[i] = "none" => pos'[w] < i
                      /\ cursor'[w] > 0 =>
                            \A i \in Committed' : cursor'[w] < i /\ i <= pos'[w] => i \in page'[w]
    BY DEF AnswerInv
  <2>1. pc[w] = "rows"
    BY DEF CallUntouched
  <2>2. \A i \in Committed' : cursor[w] < i /\ i <= pos[w] => i \in Committed
    <3> SUFFICES ASSUME NEW i \in Committed', cursor[w] < i, i <= pos[w] PROVE i \in Committed
      OBVIOUS
    <3>1. i \in Ids /\ status'[i] \in {"live", "swept"}
      BY DEF Committed, Live, Swept
    <3>2. status[i] # "none"
      BY <1>0, <2>1, <3>1, Numbers DEF AnswerInv
    <3> QED
      BY <3>1, <3>2 DEF Committed, Live, Swept, StatusStep
  <2> QED
    BY <2>1, <2>2 DEF AnswerInv, CallUntouched, CursorUntouched, StatusStep
<1> QED
  BY <1>1, <1>2, <1>3

\* A committed row stays committed, swept or not.
LEMMA CommittedStays ==
    ASSUME StatusStep, NEW i \in Ids,
           i \in Committed \/ (status[i] = "none" /\ status'[i] = "live")
    PROVE  i \in Committed'
  BY DEF StatusStep, Committed, Live, Swept

\* What holds of a reader survives steps that leave its cursor alone and commit rows.
LEMMA ReaderKept ==
    ASSUME TypeOK, TypeOK', StatusStep, NEW w \in Watchers,
           ReaderInv(w), CursorUntouched(w), GrowsByCommits(w)
    PROVE  ReaderInv(w)'
<1>0. stale'[w] \subseteq Ids /\ due'[w] \subseteq Ids
  BY DEF TypeOK
<1>1. stale'[w] \subseteq Committed'
  BY <1>0, CommittedStays DEF GrowsByCommits, ReaderInv
<1>2. due'[w] \subseteq Committed'
  BY <1>0, CommittedStays DEF GrowsByCommits, ReaderInv
<1>3. \A i \in due'[w] : subj'[i] \in Subjects
  <2> SUFFICES ASSUME NEW i \in due'[w], i \in due[w] PROVE subj'[i] \in Subjects
    BY DEF GrowsByCommits
  <2>1. i \in Ids /\ status[i] # "none" /\ subj[i] \in Subjects
    BY DEF ReaderInv, Committed, Live, Swept
  <2> QED
    BY <2>1 DEF StatusStep
<1>4. \A i \in Ids : status'[i] = "none" => cursor'[w] < i \/ i <= seat'[w]
  BY DEF ReaderInv, StatusStep, CursorUntouched
<1>5. seat'[w] > 0 => \A i \in stale'[w] \cup due'[w] : ~(seat'[w] < i /\ i <= cursor'[w])
  <2> SUFFICES ASSUME seat[w] > 0, NEW i \in stale'[w] \cup due'[w]
               PROVE  ~(seat[w] < i /\ i <= cursor[w])
    BY DEF CursorUntouched
  <2>1. CASE i \in stale[w] \cup due[w]
    BY <2>1 DEF ReaderInv
  <2>2. CASE status[i] = "none"
    <3>1. cursor[w] < i \/ i <= seat[w]
      BY <1>0, <2>2 DEF ReaderInv
    <3>2. i \in Nat /\ cursor[w] \in Nat /\ seat[w] \in Nat
      BY <1>0, Numbers
    <3> QED
      BY <3>1, <3>2
  <2> QED
    BY <2>1, <2>2 DEF GrowsByCommits
<1> QED
  BY <1>1, <1>2, <1>3, <1>4, <1>5 DEF ReaderInv, CursorUntouched

\* Between calls, and after a refusal, nothing is claimed about a call.
LEMMA NoCall ==
    ASSUME NEW w \in Watchers, pc'[w] \in {"idle", "advance", "lost", "error"}
    PROVE  CallInv(w)' /\ PageInv(w)' /\ AnswerInv(w)'
  BY DEF CallInv, PageInv, AnswerInv

\* Steps that leave the reader's cursor, cache and streams alone.
LEMMA EdgeUnchanged ==
    ASSUME UNCHANGED edgeVars, NEW w \in Watchers
    PROVE  CursorUntouched(w) /\ GrowsByCommits(w)
  BY DEF edgeVars, CursorUntouched, GrowsByCommits

\* The first statement of PollSubjectChanges: the boundary taken covers no writer.
LEMMA BoundaryOwnStep ==
    ASSUME TypeOK, TypeOK', RowsInv, MarksInv, StatusStep,
           NEW w \in Watchers, WatcherInv(w), PollBoundary(w)
    PROVE  WatcherInv(w)'
<1> DEFINE m == Advance(rmark[rep[w]])
<1>0. /\ rep[w] \in Replicas /\ rmark[rep[w]] \in Watermark /\ cursor[w] \in Nat
      /\ JournalTypeOK
  BY Numbers DEF TypeOK
<1>1. m \in Watermark /\ MarkInv(m)
  BY <1>0, AdvanceType, AdvanceSound DEF MarksInv
<1> HIDE DEF m
<1>2. /\ pc'[w] = IF ~m.established THEN "error"
                  ELSE IF m.settled <= cursor[w] THEN "rows" ELSE "page"
      /\ pos'[w] = IF ~m.established THEN 0
                   ELSE IF m.settled <= cursor[w] THEN cursor[w] ELSE m.settled
      /\ page'[w] = {} /\ rep'[w] = rep[w] /\ rmark'[rep[w]] = m
      /\ cursor' = cursor /\ status' = status
  BY <1>0 DEF PollBoundary, TypeOK, JournalTypeOK, edgeVars, m
<1>3. m.settled \in Nat
  BY <1>1, JournalAssumption DEF Watermark
<1>4. ReaderInv(w)'
  BY EdgeUnchanged, ReaderKept DEF PollBoundary, WatcherInv
<1>5. CallInv(w)'
  BY <1>0, <1>1, <1>2, <1>3 DEF CallInv, MarkInv
<1>6. PageInv(w)'
  BY <1>2 DEF PageInv
<1>7. AnswerInv(w)'
  <2> SUFFICES ASSUME pc'[w] = "rows"
               PROVE  /\ cursor'[w] <= pos'[w] /\ pos'[w] = cursor'[w] /\ page'[w] = {}
                      /\ \A i \in Committed' : ~(cursor'[w] < i /\ i <= pos'[w])
    BY DEF AnswerInv
  <2>1. pos'[w] = cursor[w]
    BY <1>2
  <2>2. \A i \in Committed' : i \in Nat
    BY Numbers DEF Committed, Live, Swept
  <2> QED
    BY <1>0, <1>2, <2>1, <2>2
<1> QED
  BY <1>4, <1>5, <1>6, <1>7 DEF WatcherInv

\* The second statement: the page lacks no row that is live when it is read.
LEMMA PageOwnStep ==
    ASSUME TypeOK, TypeOK', StatusStep, NEW w \in Watchers, WatcherInv(w), PollPage(w)
    PROVE  WatcherInv(w)'
<1> DEFINE W == {i \in Live : cursor[w] < i /\ i <= pos[w]}
<1>1. /\ pc[w] = "page" /\ pc'[w] = "floor" /\ page'[w] = FirstRows(W, Limit)
      /\ pos' = pos /\ cursor' = cursor /\ rep' = rep /\ rmark' = rmark /\ status' = status
  BY DEF PollPage, TypeOK, journalVars, edgeVars
<1>2. Live' = Live
  BY <1>1 DEF Live
<1>3. W \in SUBSET Ids /\ Limit \in Nat
  BY WatcherAssumption DEF Live
<1>4. ReaderInv(w)'
  BY EdgeUnchanged, ReaderKept DEF PollPage, WatcherInv
<1>5. CallInv(w)'
  BY <1>1 DEF CallInv, WatcherInv
<1>6. AnswerInv(w)'
  BY <1>1 DEF AnswerInv
<1>7. PageInv(w)'
  <2>1. \A i \in page'[w] : cursor[w] < i /\ i <= pos[w]
    BY <1>1 DEF FirstRows
  <2>2. ASSUME NEW p \in page'[w], NEW i \in Live, cursor[w] < i, i <= p
        PROVE  i \in page'[w]
    <3>1. p <= pos[w] /\ p \in Ids
      BY <1>1, <2>1, <2>2 DEF FirstRows, Live
    <3>2. i <= pos[w]
      BY <2>2, <3>1, Numbers DEF Live
    <3>3. i \in W
      BY <2>2, <3>2
    <3> QED
      BY <1>1, <1>3, <2>2, <3>3, FirstRowsAreAPrefix
  <2>3. Cardinality(page'[w]) < Limit => page'[w] = W
    BY <1>1, <1>3, ShortPageIsWhole
  <2> QED
    BY <1>1, <1>2, <2>1, <2>2, <2>3 DEF PageInv
<1> QED
  BY <1>4, <1>5, <1>6, <1>7 DEF WatcherInv

\* The argument of subject_change_repo.go for asking the floor last: a row missing
\* from the page was swept before the page was read, the sweep takes a prefix, so
\* the floor now lies at or above that row and the cursor below it.
LEMMA FloorOwnStep ==
    ASSUME TypeOK, TypeOK', StatusStep, SweepTakesAPrefix,
           NEW w \in Watchers, WatcherInv(w), PollFloor(w)
    PROVE  WatcherInv(w)'
<1> DEFINE floor == ObserveFloor(rmark[rep[w]])
<1> DEFINE full == Cardinality(page[w]) >= Limit
<1>1. /\ pc[w] = "floor" /\ page' = page /\ cursor' = cursor /\ status' = status
      /\ pc'[w] = IF LostPosition(w, floor) THEN "lost" ELSE "rows"
      /\ pos'[w] = IF LostPosition(w, floor) THEN floor
                   ELSE IF full THEN Max(page[w]) ELSE pos[w]
  BY DEF PollFloor, TypeOK, journalVars, edgeVars
<1>2. ReaderInv(w)'
  BY EdgeUnchanged, ReaderKept DEF PollFloor, WatcherInv
<1>3. CASE LostPosition(w, floor)
  BY <1>1, <1>2, <1>3, NoCall DEF WatcherInv
<1>4. CASE ~LostPosition(w, floor)
  <2>0. /\ pc'[w] = "rows" /\ pos'[w] = IF full THEN Max(page[w]) ELSE pos[w]
        /\ Committed' = Committed
        /\ cursor[w] \in Nat /\ pos[w] \in Nat /\ pos'[w] \in Nat /\ page[w] \in SUBSET Ids
        /\ \A i \in Ids : i \in Nat
    <3>1. pos'[w] \in Nat
      BY JournalAssumption DEF TypeOK
    <3> QED
      BY <1>1, <1>4, <3>1, Numbers DEF Committed, Live, Swept
  <2>1. /\ cursor[w] < pos[w] /\ pos[w] <= rmark[rep[w]].settled
        /\ \A i \in Ids : status[i] = "none" => pos[w] < i
        /\ \A i \in page[w] : cursor[w] < i /\ i <= pos[w]
    BY <1>1 DEF WatcherInv, CallInv, PageInv
  <2>2. full => Max(page[w]) \in page[w] /\ \A i \in page[w] : i <= Max(page[w])
    BY <2>0, FullPage
  <2>3. /\ cursor[w] <= pos'[w] /\ pos'[w] <= pos[w]
        /\ \A i \in page[w] : i <= pos'[w]
    BY <2>0, <2>1, <2>2
  <2>4. \A i \in Ids : status[i] = "none" => pos'[w] < i
    BY <2>0, <2>1, <2>3
  <2>5. ASSUME NEW i \in Live, cursor[w] < i, i <= pos'[w] PROVE i \in page[w]
    <3>0. Cardinality(page[w]) \in Nat /\ Limit \in Nat
      BY <2>0, IdsAreNumbers, FS_Subset, FS_CardinalityType, WatcherAssumption
    <3>1. CASE full
      BY <1>1, <2>0, <2>2, <2>5, <3>1 DEF WatcherInv, PageInv
    <3>2. CASE ~full
      BY <1>1, <2>0, <2>5, <3>0, <3>2 DEF WatcherInv, PageInv
    <3> QED
      BY <3>1, <3>2
  <2>6. ASSUME cursor[w] > 0, NEW i \in Swept, cursor[w] < i, i <= pos'[w] PROVE FALSE
    <3>0. i \in Ids /\ status[i] = "swept" /\ i \in Nat
      BY <2>0 DEF Swept
    <3>1. CASE Live = {}
      <4>1. floor = rmark[rep[w]].settled /\ rmark[rep[w]].settled \in Nat
        BY <3>1, Numbers DEF ObserveFloor
      <4>2. cursor[w] < floor
        BY <2>0, <2>1, <4>1
      <4> QED
        BY <1>4, <2>6, <4>2 DEF LostPosition
    <3>2. CASE Live # {}
      <4>1. Min(Live) \in Ids /\ status[Min(Live)] = "live"
        BY <3>2, MinOfIds DEF Live
      <4>2. i < Min(Live)
        BY <3>0, <4>1 DEF SweepTakesAPrefix
      <4>3. floor = Min(Live) - 1
        BY <3>2 DEF ObserveFloor
      <4>4. cursor[w] < floor
        <5>1. \A a, b, c \in Nat : a < b /\ b < c => a < c - 1
          OBVIOUS
        <5>2. Min(Live) \in Nat /\ cursor[w] \in Nat
          BY <2>0, <4>1
        <5>3. cursor[w] < Min(Live) - 1
          BY <2>6, <3>0, <4>2, <5>1, <5>2
        <5> QED
          BY <4>3, <5>3
      <4> QED
        BY <1>4, <2>6, <4>4 DEF LostPosition
    <3> QED
      BY <3>1, <3>2
  <2>7. AnswerInv(w)'
    BY <1>1, <2>0, <2>1, <2>3, <2>4, <2>5, <2>6 DEF AnswerInv, Committed
  <2>8. CallInv(w)' /\ PageInv(w)'
    BY <2>0 DEF CallInv, PageInv
  <2> QED
    BY <1>2, <2>7, <2>8 DEF WatcherInv
<1> QED
  BY <1>3, <1>4

\* A poll that ended is idle.
LEMMA AfterReturn ==
    ASSUME TypeOK, NEW w \in Watchers, Return(w)
    PROVE  pc'[w] = "idle"
  BY DEF TypeOK, Return

\* A call that was started is at its first statement.
LEMMA AfterCall ==
    ASSUME TypeOK, NEW w \in Watchers, NEW n, Call(w, n)
    PROVE  pc'[w] = "advance"
  BY DEF TypeOK, Call

\* Reading a page: the cursor moves within a complete window that holds no writer,
\* and whoever that window names is closed.
LEMMA ReadChangesOwnStep ==
    ASSUME TypeOK, TypeOK', StatusStep, NEW w \in Watchers, WatcherInv(w), ReadChanges(w)
    PROVE  WatcherInv(w)'
<1> DEFINE c == Max({cursor[w]} \cup page[w])
<1>1. /\ pc[w] = "rows" /\ primed[w] /\ page[w] # {}
      /\ cursor'[w] = c /\ stale'[w] = {} /\ seat' = seat /\ primed' = primed
      /\ due'[w] = {i \in due[w] : subj[i] \notin Named(w)}
      /\ status' = status /\ subj' = subj
  BY DEF ReadChanges, TypeOK, journalVars
<1>2. CallInv(w)' /\ PageInv(w)' /\ AnswerInv(w)'
  <2>1. pc'[w] \in {"idle", "advance"}
    BY AfterReturn, AfterCall DEF ReadChanges
  <2> QED
    BY <2>1, NoCall
<1>3. /\ cursor[w] \in Nat /\ pos[w] \in Nat /\ seat[w] \in Nat /\ page[w] \in SUBSET Ids
      /\ cursor[w] \in 0 .. MaxId
      /\ \A i \in Ids : i \in Nat
  BY Numbers DEF TypeOK
<1>4. /\ c \in {cursor[w]} \cup page[w] /\ c \in Nat /\ cursor[w] <= c
  BY <1>3, CursorAfterPage
<1> HIDE DEF c
<1>5. /\ cursor[w] <= pos[w]
      /\ \A i \in page[w] : cursor[w] < i /\ i <= pos[w]
      /\ pos[w] = cursor[w] \/ \A i \in Ids : status[i] = "none" => pos[w] < i
      /\ cursor[w] > 0 =>
            \A i \in Committed : cursor[w] < i /\ i <= pos[w] => i \in page[w]
  BY <1>1 DEF WatcherInv, AnswerInv
<1>6. c <= pos[w] /\ cursor[w] < pos[w]
  <2>1. PICK p \in page[w] : p \in Nat
    BY <1>1, <1>3
  <2> QED
    BY <1>3, <1>4, <1>5, <2>1
<1>7. /\ seat[w] <= cursor[w]
      /\ due[w] \subseteq Committed
      /\ \A i \in due[w] : subj[i] \in Subjects
      /\ seat[w] > 0 => \A i \in due[w] : ~(seat[w] < i /\ i <= cursor[w])
  BY DEF WatcherInv, ReaderInv
<1>8. \A i \in Ids : status'[i] = "none" => cursor'[w] < i \/ i <= seat'[w]
  BY <1>1, <1>3, <1>4, <1>5, <1>6
<1>9. Committed' = Committed
  BY <1>1 DEF Committed, Live, Swept
<1>10. ASSUME seat[w] > 0, NEW i \in due'[w], seat[w] < i, i <= c PROVE FALSE
  <2>1. i \in due[w] /\ subj[i] \notin Named(w) /\ i \in Committed /\ subj[i] \in Subjects
    BY <1>1, <1>7, <1>10
  <2>2. i \in Nat
    BY <1>3, <2>1 DEF Committed, Live, Swept
  <2>3. cursor[w] < i
    BY <1>3, <1>7, <1>10, <2>1, <2>2
  <2>4. i <= pos[w] /\ cursor[w] > 0
    BY <1>3, <1>4, <1>6, <1>7, <1>10, <2>2
  <2>5. i \in page[w]
    BY <1>5, <2>1, <2>3, <2>4
  <2>6. subj[i] \in Named(w)
    BY <2>1, <2>5, JournalAssumption DEF Named
  <2> QED
    BY <2>1, <2>6
<1>11. ReaderInv(w)'
  <2>1. seat'[w] <= cursor'[w]
    BY <1>1, <1>3, <1>4, <1>7
  <2>2. \A i \in due'[w] : i \in due[w]
    BY <1>1
  <2>3. due'[w] \subseteq Committed' /\ \A i \in due'[w] : subj'[i] \in Subjects
    BY <1>1, <1>7, <1>9, <2>2
  <2>4. seat'[w] > 0 => \A i \in stale'[w] \cup due'[w] : ~(seat'[w] < i /\ i <= cursor'[w])
    BY <1>1, <1>10
  <2> QED
    BY <1>1, <1>8, <2>1, <2>3, <2>4 DEF ReaderInv
<1> QED
  BY <1>2, <1>11 DEF WatcherInv

\* Adopting a position, a refusal, an empty answer and a restart read over nothing.
LEMMA AdoptOwnStep ==
    ASSUME TypeOK, TypeOK', StatusStep, NEW w \in Watchers, WatcherInv(w),
           \/ Prime(w) \/ PositionLost(w) \/ RestartWatcher(w)
           \/ ReadNothing(w) \/ FailClosed(w) \/ PollStart(w)
    PROVE  WatcherInv(w)'
<1>1. pc'[w] \in {"idle", "advance"} /\ UNCHANGED journalVars
  BY AfterReturn, AfterCall
     DEF Prime, PositionLost, RestartWatcher, ReadNothing, FailClosed, PollStart
<1>2. CallInv(w)' /\ PageInv(w)' /\ AnswerInv(w)'
  BY <1>1, NoCall
<1>3. ReaderInv(w)'
  <2>0. /\ status' = status /\ subj' = subj /\ Committed' = Committed
        /\ cursor[w] \in Nat /\ pos[w] \in Nat /\ \A i \in Ids : i \in Nat /\ i > 0
        /\ stale[w] \subseteq Ids /\ due[w] \subseteq Ids
    BY <1>1, Numbers DEF journalVars, Committed, Live, Swept
  <2>1. CASE Prime(w) \/ PositionLost(w)
    <3>1. /\ cursor'[w] = pos[w] /\ seat'[w] = pos[w] /\ primed'[w] = TRUE
          /\ stale'[w] \subseteq stale[w] /\ due'[w] \subseteq due[w]
      BY <2>1 DEF Prime, PositionLost, TypeOK
    <3>2. \A i \in Ids : cursor'[w] < i \/ i <= seat'[w]
      BY <2>0, <3>1
    <3>3. \A i \in stale'[w] \cup due'[w] : ~(seat'[w] < i /\ i <= cursor'[w])
      BY <2>0, <3>1
    <3>4. seat'[w] <= cursor'[w]
      BY <2>0, <3>1
    <3> QED
      BY <2>0, <3>1, <3>2, <3>3, <3>4 DEF ReaderInv, WatcherInv
  <2>2. CASE RestartWatcher(w)
    <3>1. cursor'[w] = 0 /\ seat'[w] = 0 /\ primed'[w] = FALSE /\ stale'[w] = {} /\ due'[w] = {}
      BY <2>2 DEF RestartWatcher, TypeOK
    <3> QED
      BY <2>0, <3>1 DEF ReaderInv
  <2>3. CASE ReadNothing(w) \/ FailClosed(w) \/ PollStart(w)
    <3>1. CursorUntouched(w)
      BY <2>3 DEF ReadNothing, FailClosed, PollStart, CursorUntouched, edgeVars
    <3>2. stale'[w] = stale[w] /\ due'[w] \subseteq due[w]
      BY <2>3 DEF ReadNothing, FailClosed, PollStart, edgeVars, TypeOK
    <3>3. GrowsByCommits(w)
      BY <3>2 DEF GrowsByCommits
    <3> QED
      BY <3>1, <3>3, ReaderKept DEF WatcherInv
  <2> QED
    BY <2>1, <2>2, <2>3
<1> QED
  BY <1>2, <1>3 DEF WatcherInv

\* A reader whom a step does not touch keeps its part of the invariant.
LEMMA Kept ==
    ASSUME TypeOK, TypeOK', StatusStep, NEW w \in Watchers, WatcherInv(w),
           CallUntouched(w), CursorUntouched(w), GrowsByCommits(w)
    PROVE  WatcherInv(w)'
  BY CallKept, ReaderKept DEF WatcherInv

\* A reader's step leaves every other reader alone, and moves no boundary back.
LEMMA OtherReaders ==
    ASSUME TypeOK, TypeOK', RowsInv, MarksInv, StatusStep,
           NEW w \in Watchers, OwnerStep(w) \/ EdgeStep(w) \/ RestartWatcher(w),
           NEW v \in Watchers, v # w, WatcherInv(v)
    PROVE  WatcherInv(v)'
<1>1. /\ pc'[v] = pc[v] /\ rep'[v] = rep[v] /\ pos'[v] = pos[v] /\ page'[v] = page[v]
      /\ cursor'[v] = cursor[v] /\ primed'[v] = primed[v] /\ seat'[v] = seat[v]
      /\ stale'[v] = stale[v] /\ due'[v] = due[v]
  <2> USE DEF TypeOK
  <2>1. CASE PollBoundary(w)
    BY <2>1 DEF PollBoundary, edgeVars
  <2>2. CASE PollPage(w) \/ PollFloor(w)
    BY <2>2 DEF PollPage, PollFloor, edgeVars
  <2>3. CASE PollStart(w)
    BY <2>3 DEF PollStart, Call, edgeVars
  <2>4. CASE Prime(w) \/ ReadNothing(w) \/ FailClosed(w)
    BY <2>4 DEF Prime, ReadNothing, FailClosed, Return
  <2>5. CASE PositionLost(w) \/ RestartWatcher(w)
    BY <2>5 DEF PositionLost, RestartWatcher, Return
  <2>6. CASE ReadChanges(w)
    <3>1. CASE Return(w)
      BY <2>6, <3>1 DEF ReadChanges, Return
    <3>2. CASE Call(w, pass[w] + 1)
      BY <2>6, <3>2 DEF ReadChanges, Call
    <3> QED
      BY <2>6, <3>1, <3>2 DEF ReadChanges
  <2> QED
    BY <2>1, <2>2, <2>3, <2>4, <2>5, <2>6 DEF OwnerStep, EdgeStep
<1>2. rmark[rep[v]].settled <= rmark'[rep[v]].settled
  <2>0. rep[v] \in Replicas /\ rmark[rep[v]] \in Watermark /\ rmark[rep[v]].settled \in Nat
        /\ JournalTypeOK /\ MarkInv(rmark[rep[v]])
    BY Numbers DEF TypeOK, MarksInv
  <2>1. rmark'[rep[v]] = rmark[rep[v]] \/ rmark'[rep[v]] = Advance(rmark[rep[v]])
    <3>1. CASE PollBoundary(w)
      BY <2>0, <3>1 DEF PollBoundary, TypeOK, JournalTypeOK
    <3>2. CASE ~PollBoundary(w)
      BY <3>2 DEF OwnerStep, EdgeStep, RestartWatcher, PollPage, PollFloor, PollStart, Prime,
                  ReadNothing, ReadChanges, PositionLost, FailClosed, journalVars
    <3> QED
      BY <3>1, <3>2
  <2>2. rmark[rep[v]].settled <= Advance(rmark[rep[v]]).settled
    BY <2>0, AdvanceSound
  <2> QED
    BY <2>0, <2>1, <2>2
<1>3. CallUntouched(v) /\ CursorUntouched(v) /\ GrowsByCommits(v)
  BY <1>1, <1>2 DEF CallUntouched, CursorUntouched, GrowsByCommits
<1> QED
  BY <1>3, Kept

\* Every step keeps the readers' part of the invariant.
LEMMA WatchersStep ==
    ASSUME IInv, [Next]_vars
    PROVE  WatchersInv'
<1>0. TypeOK /\ RowsInv /\ MarksInv /\ SweepTakesAPrefix /\ \A w \in Watchers : WatcherInv(w)
  BY DEF IInv, WatchersInv, WatcherInv
<1>1. TypeOK' /\ StatusStep
  BY <1>0, TypeStep, RowsStep
<1> SUFFICES ASSUME NEW v \in Watchers PROVE WatcherInv(v)'
  BY DEF WatchersInv, WatcherInv
<1>a. rep[v] \in Replicas /\ rmark[rep[v]].settled \in Nat
  BY <1>0, Numbers
<1>b. ASSUME UNCHANGED callVars, rmark' = rmark PROVE CallUntouched(v)
  BY <1>a, <1>b DEF CallUntouched, callVars
<1>2. ASSUME NEW t \in Writers,
             WriterBegins(t) \/ WriterEmits(t) \/ WriterAborts(t)
      PROVE  WatcherInv(v)'
  <2>1. UNCHANGED callVars /\ UNCHANGED edgeVars /\ rmark' = rmark
    BY <1>2 DEF WriterBegins, WriterEmits, WriterAborts, Begin, EmitSubjectChangeEvent, Rollback
  <2> QED
    BY <1>0, <1>1, <1>b, <2>1, EdgeUnchanged, Kept
<1>3. ASSUME NEW t \in Writers, WriterCommits(t) PROVE WatcherInv(v)'
  <2>1. UNCHANGED callVars /\ rmark' = rmark /\ CursorUntouched(v)
    BY <1>3 DEF WriterCommits, Commit, CursorUntouched
  <2>2. \A i \in rows[t] : i \in Ids /\ status[i] = "none" /\ status'[i] = "live"
    BY <1>0, <1>3 DEF RowsInv, WriterCommits, Commit, TypeOK, JournalTypeOK
  <2>3. GrowsByCommits(v)
    <3>1. /\ stale'[v] = stale[v] \cup rows[t] /\ subj' = subj
          /\ due'[v] = due[v] \cup {i \in rows[t] : subj[i] \in open[v]}
      BY <1>3 DEF WriterCommits, Commit
    <3>2. open[v] \subseteq Subjects
      BY <1>0 DEF TypeOK
    <3> QED
      BY <2>2, <3>1, <3>2 DEF GrowsByCommits
  <2> QED
    BY <1>0, <1>1, <1>b, <2>1, <2>3, Kept
<1>4. ASSUME NEW r \in Replicas, SweepAdvances(r) \/ SweepDeletes(r) PROVE WatcherInv(v)'
  <2>1. UNCHANGED callVars /\ UNCHANGED edgeVars /\ rmark' = rmark
    BY <1>4 DEF SweepAdvances, SweepDeletes, SweepObserve, SweepDelete
  <2> QED
    BY <1>0, <1>1, <1>b, <2>1, EdgeUnchanged, Kept
<1>5. ASSUME NEW r \in Replicas, RestartOwner(r) PROVE WatcherInv(v)'
  <2>1. UNCHANGED edgeVars
    BY <1>5 DEF RestartOwner
  <2>2. CASE rep[v] = r /\ pc[v] \in {"advance", "page", "floor"}
    <3>1. pc'[v] = "error"
      BY <1>5, <2>2 DEF RestartOwner
    <3> QED
      BY <1>0, <1>1, <2>1, <3>1, NoCall, EdgeUnchanged, ReaderKept DEF WatcherInv
  <2>3. CASE ~(rep[v] = r /\ pc[v] \in {"advance", "page", "floor"})
    <3>1. /\ pc'[v] = pc[v] /\ rep'[v] = rep[v] /\ pos'[v] = pos[v] /\ page'[v] = page[v]
      BY <1>5, <2>3 DEF RestartOwner
    <3>2. pc[v] \in {"page", "floor"} => rmark'[rep[v]] = rmark[rep[v]]
      BY <1>0, <1>a, <1>5, <2>3 DEF RestartOwner, NewReplica, TypeOK, JournalTypeOK
    <3>3. CallUntouched(v)
      BY <1>a, <3>1, <3>2 DEF CallUntouched
    <3> QED
      BY <1>0, <1>1, <2>1, <3>3, EdgeUnchanged, Kept
  <2> QED
    BY <2>2, <2>3
<1>6. ASSUME Tick PROVE WatcherInv(v)'
  <2>1. UNCHANGED callVars /\ rmark' = rmark /\ CursorUntouched(v)
    BY <1>6 DEF Tick, JournalTick, CursorUntouched
  <2>2. GrowsByCommits(v)
    BY <1>6 DEF Tick, GrowsByCommits
  <2> QED
    BY <1>0, <1>1, <1>b, <2>1, <2>2, Kept
<1>7. ASSUME NEW w \in Watchers, OpenStream(w) PROVE WatcherInv(v)'
  <2>1. UNCHANGED callVars /\ rmark' = rmark /\ CursorUntouched(v)
        /\ stale' = stale /\ subj' = subj
    BY <1>7 DEF OpenStream, CursorUntouched, journalVars
  <2>2. PICK s \in Subjects :
            due' = [due EXCEPT ![w] = @ \cup {i \in stale[w] : subj[i] = s}]
    BY <1>7 DEF OpenStream
  <2>3. \A i \in due'[v] : i \in due[v] \/ (i \in stale[v] /\ subj[i] = s)
    BY <1>0, <2>2 DEF TypeOK
  <2>4. GrowsByCommits(v)
    BY <2>1, <2>3 DEF GrowsByCommits
  <2> QED
    BY <1>0, <1>1, <1>b, <2>1, <2>4, Kept
<1>8. ASSUME NEW w \in Watchers, OwnerStep(w) \/ EdgeStep(w) \/ RestartWatcher(w)
      PROVE  WatcherInv(v)'
  <2>1. CASE v # w
    BY <1>0, <1>1, <1>8, <2>1, OtherReaders
  <2>2. CASE v = w
    BY <1>0, <1>1, <1>8, <2>2, BoundaryOwnStep, PageOwnStep, FloorOwnStep,
       ReadChangesOwnStep, AdoptOwnStep DEF OwnerStep, EdgeStep
  <2> QED
    BY <2>1, <2>2
<1>9. ASSUME UNCHANGED vars PROVE WatcherInv(v)'
  <2>1. UNCHANGED callVars /\ UNCHANGED edgeVars /\ rmark' = rmark
    BY <1>9 DEF vars, journalVars
  <2> QED
    BY <1>0, <1>1, <1>b, <2>1, EdgeUnchanged, Kept
<1> QED
  BY <1>2, <1>3, <1>4, <1>5, <1>6, <1>7, <1>8, <1>9
     DEF Next, WriterStep, SweepStep, WatcherStep, RestartStep

-----------------------------------------------------------------------------
\* The invariant holds at the start.
LEMMA InvInit == Init => IInv
<1> SUFFICES ASSUME Init PROVE IInv
  OBVIOUS
<1>1. TypeOK
  BY TypeInit
<1>2. RowsInv
  BY DEF Init, JournalInit, RowsInv
<1>3. MarksInv
  BY <1>1, NewWatermarkSound DEF Init, JournalInit, MarksInv, TypeOK
<1>4. SweepTakesAPrefix
  BY DEF Init, JournalInit, SweepTakesAPrefix
<1>5. WatchersInv
  <2> SUFFICES ASSUME NEW w \in Watchers
               PROVE  CallInv(w) /\ PageInv(w) /\ AnswerInv(w) /\ ReaderInv(w)
    BY DEF WatchersInv
  <2>1. /\ pc[w] = "idle" /\ cursor[w] = 0 /\ seat[w] = 0 /\ primed[w] = FALSE
        /\ stale[w] = {} /\ due[w] = {}
    BY DEF Init
  <2>2. ReaderInv(w)
    BY <1>1, <2>1, Numbers DEF ReaderInv
  <2> QED
    BY <2>1, <2>2 DEF CallInv, PageInv, AnswerInv
<1> QED
  BY <1>1, <1>2, <1>3, <1>4, <1>5 DEF IInv

\* Every step, stuttering included, keeps the invariant.
LEMMA InvStep == IInv /\ [Next]_vars => IInv'
<1> SUFFICES ASSUME IInv, [Next]_vars PROVE IInv'
  OBVIOUS
<1>1. TypeOK /\ RowsInv /\ MarksInv /\ SweepTakesAPrefix
  BY DEF IInv
<1> QED
  BY <1>1, TypeStep, RowsStep, MarksStep, PrefixStep, WatchersStep DEF IInv

\* The invariant of the lane.
LEMMA Invariant == Spec => []IInv
<1>1. Init => IInv
  BY InvInit
<1>2. IInv /\ [Next]_vars => IInv'
  BY InvStep
<1> QED
  BY <1>1, <1>2, PTL DEF Spec

\* No boundary, of a reading side or of a sweep, on any replica, is ever drawn over
\* a number that may still become a row.
THEOREM BoundariesAreSound == Spec => []NothingOpenBelowABoundary
<1>1. IInv => NothingOpenBelowABoundary
  BY DEF IInv, MarksInv, MarkInv, NothingOpenBelowABoundary
<1> QED
  BY <1>1, Invariant, PTL

\* However many sweeps run against however many writers, what is deleted is a
\* prefix of what was and may yet be written.
THEOREM SweepsTakeAPrefix == Spec => []SweepTakesAPrefix
<1>1. IInv => SweepTakesAPrefix
  BY DEF IInv
<1> QED
  BY <1>1, Invariant, PTL

\* PollSubjectChanges answers a page that is complete up to the position it names,
\* or refuses.
THEOREM AnswersAreComplete == Spec => []AnswerHidesNothing
<1>1. IInv => AnswerHidesNothing
  BY DEF IInv, WatchersInv, AnswerInv, AnswerHidesNothing
<1> QED
  BY <1>1, Invariant, PTL

-----------------------------------------------------------------------------
(* Positions that are lost. *)

LostInv(w) == pc[w] = "lost" =>
    /\ cursor[w] < pos[w]
    /\ cursor[w] + 1 \in Ids /\ status[cursor[w] + 1] \in {"swept", "void"}

\* The floor lies above the cursor only where the cursor's next number is gone.
LEMMA FloorLosesOverAGap ==
    ASSUME TypeOK, TypeOK', NEW w \in Watchers, CallInv(w), PollFloor(w)
    PROVE  LostInv(w)'
<1> DEFINE floor == ObserveFloor(rmark[rep[w]])
<1> SUFFICES ASSUME LostPosition(w, floor)
             PROVE  /\ cursor'[w] < pos'[w]
                    /\ cursor'[w] + 1 \in Ids
                    /\ status'[cursor'[w] + 1] \in {"swept", "void"}
  BY DEF PollFloor, TypeOK, LostInv
<1>1. pc[w] = "floor" /\ pos'[w] = floor /\ cursor' = cursor /\ status' = status
  BY DEF PollFloor, TypeOK, journalVars, edgeVars
<1>2. cursor[w] < floor /\ cursor[w] < pos[w] /\ cursor[w] \in Nat
  BY <1>1, Numbers DEF LostPosition, CallInv
<1>3. cursor[w] + 1 \in Ids /\ cursor[w] + 1 <= pos[w]
  BY <1>2, JournalAssumption DEF TypeOK, Ids
<1>4. status[cursor[w] + 1] # "none"
  BY <1>1, <1>3, Numbers DEF CallInv
<1>5. status[cursor[w] + 1] # "live"
  <2>1. SUFFICES ASSUME cursor[w] + 1 \in Live PROVE FALSE
    BY <1>3 DEF Live
  <2>2. floor = Min(Live) - 1 /\ Min(Live) \in Ids /\ Min(Live) <= cursor[w] + 1
    BY <2>1, MinOfIds DEF ObserveFloor, Live
  <2>3. Min(Live) \in Nat
    BY <2>2, Numbers
  <2> QED
    BY <1>2, <2>2, <2>3
<1> QED
  BY <1>1, <1>2, <1>3, <1>4, <1>5 DEF TypeOK, JournalTypeOK

\* A number that is gone stays gone.
LEMMA LostKept ==
    ASSUME TypeOK, TypeOK', StatusStep, NEW w \in Watchers, LostInv(w),
           pc'[w] = "lost" => /\ pc[w] = "lost" /\ pos'[w] = pos[w] /\ cursor'[w] = cursor[w]
    PROVE  LostInv(w)'
  BY DEF LostInv, StatusStep, TypeOK, JournalTypeOK

LEMMA LostStep ==
    ASSUME IInv, [Next]_vars, NEW v \in Watchers, LostInv(v)
    PROVE  LostInv(v)'
<1>0. TypeOK /\ TypeOK' /\ StatusStep /\ CallInv(v)
  BY TypeStep, RowsStep DEF IInv, WatchersInv
<1>1. CASE \E w \in Watchers : OwnerStep(w) \/ EdgeStep(w) \/ RestartWatcher(w)
  <2>1. PICK w \in Watchers : OwnerStep(w) \/ EdgeStep(w) \/ RestartWatcher(w)
    BY <1>1
  <2>2. CASE PollFloor(v)
    BY <1>0, <2>2, FloorLosesOverAGap
  <2>3. CASE ~PollFloor(v)
    <3>1. pc'[v] = "lost" => /\ pc[v] = "lost" /\ pos'[v] = pos[v] /\ cursor'[v] = cursor[v]
      <4> USE <1>0 DEF TypeOK
      <4>1. CASE PollBoundary(w)
        BY <4>1 DEF PollBoundary, edgeVars
      <4>2. CASE PollPage(w)
        BY <4>2 DEF PollPage, edgeVars
      <4>3. CASE PollFloor(w)
        <5>1. w # v
          BY <2>3, <4>3
        <5> QED
          BY <4>3, <5>1 DEF PollFloor, edgeVars
      <4>4. CASE PollStart(w)
        BY <4>4 DEF PollStart, Call, edgeVars
      <4>5. CASE Prime(w) \/ ReadNothing(w) \/ FailClosed(w)
        BY <4>5 DEF Prime, ReadNothing, FailClosed, Return
      <4>6. CASE PositionLost(w) \/ RestartWatcher(w)
        BY <4>6 DEF PositionLost, RestartWatcher, Return
      <4>7. CASE ReadChanges(w)
        BY <4>7 DEF ReadChanges, Return, Call
      <4> QED
        BY <2>1, <4>1, <4>2, <4>3, <4>4, <4>5, <4>6, <4>7 DEF OwnerStep, EdgeStep
    <3> QED
      BY <1>0, <3>1, LostKept
  <2> QED
    BY <2>2, <2>3
<1>2. CASE \E r \in Replicas : RestartOwner(r)
  <2>1. pc'[v] = "lost" => /\ pc[v] = "lost" /\ pos'[v] = pos[v] /\ cursor'[v] = cursor[v]
    BY <1>0, <1>2 DEF RestartOwner, edgeVars
  <2> QED
    BY <1>0, <2>1, LostKept
<1>3. CASE WriterStep \/ SweepStep \/ Tick \/ (\E w \in Watchers : OpenStream(w)) \/ UNCHANGED vars
  <2>1. UNCHANGED callVars /\ cursor' = cursor
    BY <1>3 DEF WriterStep, WriterBegins, WriterEmits, WriterCommits, WriterAborts, SweepStep,
                SweepAdvances, SweepDeletes, Tick, OpenStream, edgeVars, vars
  <2> QED
    BY <1>0, <2>1, LostKept DEF callVars
<1> QED
  BY <1>1, <1>2, <1>3 DEF Next, WatcherStep, RestartStep

\* PollSubjectChanges refuses a position only over a number that is gone: swept, or
\* rolled back.
THEOREM LostOverAGap == Spec => []PlaceIsLostOverAGap
<1> DEFINE Inv == \A w \in Watchers : LostInv(w)
<1>1. Init => Inv
  BY DEF Init, LostInv
<1>2. IInv /\ Inv /\ [Next]_vars => Inv'
  BY LostStep
<1>3. Inv => PlaceIsLostOverAGap
  BY DEF LostInv, PlaceIsLostOverAGap
<1> QED
  BY <1>1, <1>2, <1>3, Invariant, PTL DEF Spec

\* A reader's cursor passes a change only together with the flush of its cache.
THEOREM CursorFlushesWhatItPasses == Spec => []NoChangeReadOverIsStale
<1>1. IInv => NoChangeReadOverIsStale
  BY DEF IInv, WatchersInv, ReaderInv, NoChangeReadOverIsStale
<1> QED
  BY <1>1, Invariant, PTL

\* A reader's cursor passes a change only together with the streams it names.
THEOREM CursorClosesWhatItPasses == Spec => []NoStreamOutlivesAChangeReadOver
<1>1. IInv => NoStreamOutlivesAChangeReadOver
  BY DEF IInv, WatchersInv, ReaderInv, NoStreamOutlivesAChangeReadOver
<1> QED
  BY <1>1, Invariant, PTL

-----------------------------------------------------------------------------
(* Readers that are confirmed in time.                                     *)

CONSTANT Pages   \* pages a reader may be behind the rows, for what follows

\* How long a reader may need for a row: the transactions that hold it back, for each
\* replica of the owner the one observation that may come too early, and the pages
\* before it.
Delay(replicas, pages) ==
    2 * MaxTx + StaleAfter + replicas * (MaxTx + 3 * StaleAfter) + pages * (2 * StaleAfter)

Sizes == IsFiniteSet(Replicas) /\ Pages \in Nat \ {0}

\* The retention is longer than that.
RetentionCovers == Sizes /\ Delay(Cardinality(Replicas), Pages) <= Grace

\* No reader is further behind.
BacklogIsPaged ==
    \A w \in Watchers : primed[w] => \A i \in Live : i <= cursor[w] + Pages * Limit

\* A product grows with its first factor.
LEMMA Product ==
    ASSUME NEW a \in Nat, NEW b \in Nat, NEW k \in Nat
    PROVE  /\ a * k \in Nat
           /\ (a + 1) * k = a * k + k
           /\ a <= b => a * k <= b * k
OBVIOUS

\* The way to a row grows with the replicas and with the pages.
LEMMA DelayGrows ==
    ASSUME NEW n \in Nat, NEW q \in Nat
    PROVE  /\ Delay(n, q) \in Nat
           /\ 2 * MaxTx + StaleAfter <= Delay(n, q)
           /\ Delay(n + 1, q) = Delay(n, q) + MaxTx + 3 * StaleAfter
           /\ Delay(n, q + 1) = Delay(n, q) + 2 * StaleAfter
           /\ \A m, p \in Nat : n <= m /\ q <= p => Delay(n, q) <= Delay(m, p)
<1> DEFINE R == MaxTx + 3 * StaleAfter
           P == 2 * StaleAfter
<1>1. MaxTx \in Nat /\ StaleAfter \in Nat
  BY TimelyAssumption, WatcherAssumption
<1>2. R \in Nat /\ P \in Nat
  BY <1>1
<1>3. \A m, p \in Nat : Delay(m, p) = 2 * MaxTx + StaleAfter + m * R + p * P
  BY DEF Delay
<1> HIDE DEF R, P
<1>4. n * R \in Nat /\ q * P \in Nat /\ (n + 1) * R = n * R + R /\ (q + 1) * P = q * P + P
  BY <1>2, Product
<1>5. ASSUME NEW m \in Nat, NEW p \in Nat, n <= m, q <= p PROVE Delay(n, q) <= Delay(m, p)
  <2>1. n * R <= m * R /\ q * P <= p * P /\ m * R \in Nat /\ p * P \in Nat
    BY <1>2, <1>5, Product
  <2> QED
    BY <1>1, <1>3, <1>4, <1>5, <2>1
<1>6. n + 1 \in Nat /\ q + 1 \in Nat
  OBVIOUS
<1>7. /\ Delay(n, q) = 2 * MaxTx + StaleAfter + n * R + q * P
      /\ Delay(n + 1, q) = 2 * MaxTx + StaleAfter + n * R + R + q * P
      /\ Delay(n, q + 1) = 2 * MaxTx + StaleAfter + n * R + q * P + P
  BY <1>1, <1>2, <1>3, <1>4, <1>6
<1>8. R = MaxTx + 3 * StaleAfter /\ P = 2 * StaleAfter
  BY DEF R, P
<1> QED
  BY <1>1, <1>4, <1>5, <1>7, <1>8

\* Whole pages below a position.
PagesTo(c) == c \div Limit

\* The pages below a position grow with it.
LEMMA PagesGrow ==
    ASSUME NEW c \in Nat, NEW d \in Nat
    PROVE  /\ PagesTo(c) \in Nat
           /\ c <= d => PagesTo(c) <= PagesTo(d)
           /\ c + Limit <= d => PagesTo(c) + 1 <= PagesTo(d)
           /\ \A p \in Nat : c < p * Limit => PagesTo(c) + 1 <= p
<1>1. Limit \in Nat /\ Limit > 0
  BY WatcherAssumption
<1>2. ASSUME NEW e \in Nat
      PROVE  /\ PagesTo(e) \in Nat
             /\ PagesTo(e) * Limit <= e
             /\ e < PagesTo(e) * Limit + Limit
  BY <1>1 DEF PagesTo
<1> DEFINE a == PagesTo(c)
           b == PagesTo(d)
<1>3. /\ a \in Nat /\ a * Limit <= c /\ c < a * Limit + Limit
      /\ b \in Nat /\ b * Limit <= d /\ d < b * Limit + Limit
  BY <1>2
<1> HIDE DEF a, b
<1>4. a * Limit \in Nat /\ b * Limit \in Nat /\ (a + 1) * Limit = a * Limit + Limit
      /\ (b + 1) * Limit = b * Limit + Limit
  BY <1>1, <1>3, Product
<1>5. ASSUME c <= d PROVE a <= b
  <2>1. SUFFICES ASSUME b + 1 <= a PROVE FALSE
    BY <1>3
  <2>2. (b + 1) * Limit <= a * Limit
    BY <1>1, <1>3, <2>1, Product
  <2> QED
    BY <1>1, <1>3, <1>4, <1>5, <2>2
<1>6. ASSUME c + Limit <= d PROVE a + 1 <= b
  <2>1. SUFFICES ASSUME b <= a PROVE FALSE
    BY <1>3
  <2>2. b * Limit <= a * Limit
    BY <1>1, <1>3, <2>1, Product
  <2> QED
    BY <1>1, <1>3, <1>4, <1>6, <2>2
<1>7. ASSUME NEW p \in Nat, c < p * Limit PROVE a + 1 <= p
  <2>1. SUFFICES ASSUME p <= a PROVE FALSE
    BY <1>3
  <2>2. p * Limit <= a * Limit /\ p * Limit \in Nat
    BY <1>1, <1>3, <2>1, Product
  <2> QED
    BY <1>3, <1>4, <1>7, <2>2
<1> QED
  BY <1>3, <1>5, <1>6, <1>7 DEF a, b

\* Pages a reader at c has behind it, of those it may have before it reaches row i.
Way(c, i) == IF i <= c + Pages * Limit THEN PagesTo(c + Pages * Limit - i) ELSE 0

\* The way behind a reader grows with its cursor, and by one with a full page.
LEMMA WayGrows ==
    ASSUME Sizes, NEW c \in Nat, NEW d \in Nat, NEW i \in Nat
    PROVE  /\ Way(c, i) \in Nat
           /\ c <= d => Way(c, i) <= Way(d, i)
           /\ c + Limit <= d /\ i <= c + Pages * Limit => Way(c, i) + 1 <= Way(d, i)
           /\ c < i => Way(c, i) + 1 <= Pages
<1>1. Limit \in Nat /\ Limit > 0 /\ Pages \in Nat /\ Pages > 0
  BY WatcherAssumption DEF Sizes
<1> DEFINE P == Pages * Limit
<1>2. P \in Nat
  BY <1>1, Product
<1>3. \A e \in Nat : Way(e, i) = IF i <= e + P THEN PagesTo(e + P - i) ELSE 0
  BY DEF Way
<1>4. ASSUME NEW e \in Nat PROVE Way(e, i) \in Nat
  <2>1. CASE i <= e + P
    <3>1. e + P - i \in Nat
      BY <1>2, <2>1
    <3> QED
      BY <1>3, <2>1, <3>1, PagesGrow
  <2>2. CASE ~(i <= e + P)
    BY <1>3, <2>2
  <2> QED
    BY <2>1, <2>2
<1> HIDE DEF P
<1>5. ASSUME c <= d PROVE Way(c, i) <= Way(d, i)
  <2>1. CASE i <= c + P
    <3>1. c + P - i \in Nat /\ d + P - i \in Nat /\ c + P - i <= d + P - i /\ i <= d + P
      BY <1>2, <1>5, <2>1
    <3> QED
      BY <1>3, <2>1, <3>1, PagesGrow
  <2>2. CASE ~(i <= c + P)
    BY <1>3, <1>4, <2>2
  <2> QED
    BY <2>1, <2>2
<1>6. ASSUME c + Limit <= d, i <= c + P PROVE Way(c, i) + 1 <= Way(d, i)
  <2>1. /\ c + P - i \in Nat /\ d + P - i \in Nat
        /\ (c + P - i) + Limit <= d + P - i /\ i <= d + P
    BY <1>1, <1>2, <1>6
  <2> QED
    BY <1>3, <1>6, <2>1, PagesGrow
<1>7. ASSUME c < i PROVE Way(c, i) + 1 <= Pages
  <2>1. CASE i <= c + P
    <3>1. c + P - i \in Nat /\ c + P - i < P
      BY <1>2, <1>7, <2>1
    <3>2. c + P - i < Pages * Limit
      BY <3>1 DEF P
    <3> QED
      BY <1>1, <1>3, <2>1, <3>1, <3>2, PagesGrow
  <2>2. CASE ~(i <= c + P)
    BY <1>1, <1>3, <2>2
  <2> QED
    BY <2>1, <2>2
<1> QED
  BY <1>4, <1>5, <1>6, <1>7 DEF P

\* The replicas that have made an observation in which row i was visible.
Saw(i) == {r \in Replicas : \/ i <= rmark[r].settled
                            \/ rmark[r].pending /\ i <= rmark[r].cand}

Unread(w) == {i \in Live : cursor[w] < i}

\* How old row i may be at the reader's last confirmation, while it is unread.
Bound(w, i) == Delay(Cardinality(Saw(i)), Way(cursor[w], i))

\* A transaction that is open has not outlived MaxTx and owns what is in flight.
OpenInv ==
    /\ \A t \in Writers : IF inTx[t] THEN txAge[t] <= MaxTx ELSE rows[t] = {}
    /\ \A i \in InFlight : \E t \in Writers : i \in rows[t]
    /\ \A r \in Replicas : rmark[r].pending => \A i \in rmark[r].wait : i < nextId

\* What an observation waits for began before the observation, and so did not begin
\* after the rows that were visible in it became late.
WaitInv == \A r \in Replicas, t \in Writers : \A i \in Live :
    rmark[r].pending /\ rmark[r].settled < i /\ rows[t] \cap rmark[r].wait # {} =>
        IF rmark[r].cand < i THEN age[i] <= MaxTx + txAge[t]
        ELSE \A w \in Watchers : primed[w] /\ i \in Unread(w) =>
                 age[i] + MaxTx + StaleAfter <= Bound(w, i) + txAge[t]

\* A reader that has not begun has waited since the start, and nothing is swept yet.
ColdInv(w) == ~primed[w] =>
    /\ pc[w] # "lost" /\ Swept = {}
    /\ \A i \in Live : age[i] <= silence[w]
    /\ \A t \in Writers : inTx[t] => txAge[t] <= silence[w]

\* A row is not late for a reader; a lost position costs one confirmation more, and
\* ends just below a row.
UnreadInv(w) == primed[w] => \A i \in Unread(w) :
    age[i] <= Bound(w, i) + (IF cursor[w] + 1 \in Live THEN StaleAfter ELSE 0) + silence[w]

\* The call's boundary was drawn before the row settled there.
Early(w, i) ==
    /\ pos[w] < i
    /\ \/ pc[w] \in {"page", "floor"}
       \/ pc[w] = "rows" /\ Cardinality(page[w]) < Limit

\* Such a call is an early one of the replica it reached.
EarlyInv(w) == primed[w] => \A i \in Unread(w) : Early(w, i) =>
    age[i] + StaleAfter <= Bound(w, i) + silence[w]

\* A call that lost the position ended just below a row, or was early.
RefusedInv(w) == pc[w] = "lost" => \A i \in Unread(w) : pos[w] < i =>
    \/ pos[w] + 1 \in Live /\ cursor[w] + 1 \notin Live
    \/ age[i] + StaleAfter <= Bound(w, i) + silence[w]

\* A short answer holds every row of its window that is kept.
ShortInv(w) == pc[w] = "rows" /\ Cardinality(page[w]) < Limit =>
    \A i \in Unread(w) : i <= pos[w] => i \in page[w]

SweptAreRead == \A w \in Watchers : \A i \in Swept : i <= cursor[w]

LateInv(w) == ColdInv(w) /\ UnreadInv(w) /\ EarlyInv(w) /\ RefusedInv(w) /\ ShortInv(w)

TimelyInv == OpenInv /\ WaitInv /\ SweptAreRead /\ \A w \in Watchers : LateInv(w)

\* The invariants of the lane hold here as well.
KnownInv == IInv /\ \A w \in Watchers : LostInv(w)

\* Ages, positions and limits are natural numbers.
LEMMA Quantities ==
    ASSUME TypeOK, Sizes
    PROVE  /\ MaxTx \in Nat /\ StaleAfter \in Nat /\ Limit \in Nat /\ Limit > 0
           /\ \A i \in Ids : i \in Nat /\ i > 0 /\ age[i] \in Nat
           /\ \A t \in Writers : txAge[t] \in Nat
           /\ \A w \in Watchers : /\ cursor[w] \in Nat /\ silence[w] \in Nat
                                  /\ silence[w] <= StaleAfter /\ pos[w] \in Nat
           /\ \A w \in Watchers, i \in Ids : Way(cursor[w], i) \in Nat
           /\ \A i \in Ids : /\ IsFiniteSet(Saw(i)) /\ Cardinality(Saw(i)) \in Nat
                             /\ Cardinality(Saw(i)) <= Cardinality(Replicas)
           /\ Cardinality(Replicas) \in Nat
           /\ \A w \in Watchers, i \in Ids : Bound(w, i) \in Nat
           /\ \A w \in Watchers, i \in Ids : 2 * MaxTx + StaleAfter <= Bound(w, i)
           /\ Live \subseteq Ids /\ Swept \subseteq Ids
<1>1. MaxTx \in Nat /\ StaleAfter \in Nat /\ Limit \in Nat /\ Limit > 0 /\ Grace \in Nat
  BY TimelyAssumption, WatcherAssumption, JournalAssumption
<1>2. \A i \in Ids : i \in Nat /\ i > 0 /\ age[i] \in Nat
  BY <1>1, Numbers DEF TypeOK, JournalTypeOK
<1>3. \A t \in Writers : txAge[t] \in Nat
  BY <1>1 DEF TypeOK, JournalTypeOK
<1>4. \A w \in Watchers : /\ cursor[w] \in Nat /\ silence[w] \in Nat
                          /\ silence[w] <= StaleAfter /\ pos[w] \in Nat
  BY <1>1, Numbers DEF TypeOK
<1>5. \A w \in Watchers, i \in Ids : Way(cursor[w], i) \in Nat
  BY <1>2, <1>4, WayGrows
<1>6. ASSUME NEW i \in Ids
      PROVE  /\ IsFiniteSet(Saw(i)) /\ Cardinality(Saw(i)) \in Nat
             /\ Cardinality(Saw(i)) <= Cardinality(Replicas)
  <2>1. Saw(i) \in SUBSET Replicas
    BY DEF Saw
  <2> QED
    BY <2>1, FS_Subset, FS_CardinalityType DEF Sizes
<1>7. Cardinality(Replicas) \in Nat
  BY FS_CardinalityType DEF Sizes
<1>8. ASSUME NEW w \in Watchers, NEW i \in Ids
      PROVE  Bound(w, i) \in Nat /\ 2 * MaxTx + StaleAfter <= Bound(w, i)
  BY <1>5, <1>6, DelayGrows DEF Bound
<1> QED
  BY <1>1, <1>2, <1>3, <1>4, <1>5, <1>6, <1>7, <1>8 DEF Live, Swept

\* A row that is not late is not swept.
LEMMA UnreadIsKept ==
    ASSUME TypeOK, RetentionCovers, NEW w \in Watchers, UnreadInv(w), ColdInv(w),
           NEW i \in Unread(w)
    PROVE  age[i] <= Grace
<1> USE DEF Unread
<1>1. Sizes /\ Pages \in Nat /\ i \in Ids /\ i \in Live
  BY DEF RetentionCovers, Live, Sizes
<1>2. Delay(Cardinality(Replicas), Pages) <= Grace
  BY DEF RetentionCovers
<1>3. Grace \in Nat /\ i \in Nat
  BY <1>1, Quantities, JournalAssumption
<1>4. cursor[w] \in Nat /\ cursor[w] < i
  BY <1>1, Quantities
<1> DEFINE q == Way(cursor[w], i)
           n == Cardinality(Saw(i))
<1>5. q \in Nat /\ q + 1 <= Pages /\ n \in Nat /\ n <= Cardinality(Replicas)
      /\ Cardinality(Replicas) \in Nat
  BY <1>1, <1>3, <1>4, WayGrows, Quantities
<1>6. Bound(w, i) = Delay(n, q)
  BY DEF Bound
<1> HIDE DEF q, n
<1>7. Delay(n, q + 1) = Delay(n, q) + 2 * StaleAfter
  BY <1>5, DelayGrows
<1>8. Delay(n, q + 1) <= Delay(Cardinality(Replicas), Pages)
  BY <1>1, <1>5, DelayGrows
<1>9. Delay(n, q) \in Nat /\ Delay(Cardinality(Replicas), Pages) \in Nat
  BY <1>1, <1>5, DelayGrows
<1>10. /\ silence[w] \in Nat /\ silence[w] <= StaleAfter /\ StaleAfter \in Nat
       /\ age[i] \in Nat /\ StaleAfter <= Grace
  BY <1>1, Quantities, WatcherAssumption
<1>11. CASE primed[w]
  <2>1. age[i] <= Bound(w, i) + StaleAfter + silence[w]
    <3>1. age[i] <= Bound(w, i) + (IF cursor[w] + 1 \in Live THEN StaleAfter ELSE 0) + silence[w]
      BY <1>11 DEF UnreadInv
    <3>2. Bound(w, i) \in Nat
      BY <1>1, Quantities
    <3> QED
      BY <1>10, <3>1, <3>2
  <2> QED
    BY <1>2, <1>3, <1>6, <1>7, <1>8, <1>9, <1>10, <2>1
<1>12. CASE ~primed[w]
  BY <1>1, <1>3, <1>10, <1>12 DEF ColdInv
<1> QED
  BY <1>11, <1>12

\* Every step is one of the lane without restarts.
LEMMA TimelySteps == [TimelyNext]_vars => [Next]_vars
  BY DEF TimelyNext, TimelyTick, Next

\* An observation keeps in sight what one before has seen.
LEMMA AdvanceKeepsSight ==
    ASSUME JournalTypeOK, NEW m \in Watermark, NEW i \in Ids,
           i <= m.settled \/ (m.pending /\ i <= m.cand)
    PROVE  \/ i <= Advance(m).settled
           \/ Advance(m).pending /\ i <= Advance(m).cand
<1>0. /\ m.settled \in Nat /\ m.cand \in Nat /\ TopVisible \in Nat /\ i \in Nat
      /\ Confirmed(m) \in Nat
  BY TopVisibleType, IdsAreNumbers, JournalAssumption DEF Watermark, Confirmed
<1>1. CASE m.pending /\ ~Drained(m)
  BY <1>1 DEF Advance
<1>2. CASE ~(m.pending /\ ~Drained(m))
  <2>1. i <= Confirmed(m)
    BY <1>0 DEF Confirmed
  <2>2. CASE TopVisible <= Confirmed(m)
    BY <1>2, <2>1, <2>2 DEF Advance, SettledAt, NewWatermark
  <2>3. CASE ~(TopVisible <= Confirmed(m)) /\ InFlight = {}
    <3>1. i <= TopVisible
      BY <1>0, <2>1, <2>3
    <3> QED
      BY <1>2, <2>3, <3>1 DEF Advance, SettledAt, NewWatermark
  <2>4. CASE ~(TopVisible <= Confirmed(m)) /\ InFlight # {}
    BY <1>2, <2>1, <2>4 DEF Advance
  <2> QED
    BY <2>2, <2>3, <2>4
<1> QED
  BY <1>1, <1>2

\* The reading marks of a lane without restarts.
MarksAdvance == \A r \in Replicas : rmark'[r] = rmark[r] \/ rmark'[r] = Advance(rmark[r])

\* What may be waited for only grows.
LEMMA BoundGrows ==
    ASSUME TypeOK, TypeOK', Sizes, MarksAdvance,
           NEW w \in Watchers, NEW i \in Ids, cursor[w] <= cursor'[w]
    PROVE  /\ Bound(w, i) \in Nat /\ Bound(w, i)' \in Nat
           /\ Bound(w, i) <= Bound(w, i)'
           /\ Saw(i) \subseteq Saw(i)'
<1>1. Saw(i) \subseteq Saw(i)'
  <2>1. SUFFICES ASSUME NEW r \in Saw(i) PROVE r \in Saw(i)'
    OBVIOUS
  <2>2. r \in Replicas /\ rmark[r] \in Watermark /\ JournalTypeOK
    BY DEF Saw, TypeOK, JournalTypeOK
  <2> QED
    BY <2>2, AdvanceKeepsSight DEF Saw, MarksAdvance
<1>2. Saw(i)' \in SUBSET Replicas
  BY DEF Saw
<1>3. IsFiniteSet(Saw(i)') /\ Cardinality(Saw(i)') \in Nat
  BY <1>2, FS_Subset, FS_CardinalityType DEF Sizes
<1>4. Cardinality(Saw(i)) \in Nat /\ Cardinality(Saw(i)) <= Cardinality(Saw(i)')
  BY <1>1, <1>3, FS_Subset, FS_CardinalityType
<1>5. cursor[w] \in Nat /\ cursor'[w] \in Nat /\ i \in Nat
  BY Numbers, JournalAssumption DEF TypeOK
<1>6. /\ Way(cursor[w], i) \in Nat /\ Way(cursor'[w], i) \in Nat
      /\ Way(cursor[w], i) <= Way(cursor'[w], i)
  BY <1>5, WayGrows
<1> QED
  BY <1>1, <1>3, <1>4, <1>6, DelayGrows DEF Bound

\* A retention that covers the readers covers the slowest transaction.
LEMMA SlowestTransaction == RetentionCovers => MaxTx <= Grace /\ Sizes
<1> SUFFICES ASSUME RetentionCovers PROVE MaxTx <= Grace /\ Sizes
  OBVIOUS
<1>1. Sizes /\ Cardinality(Replicas) \in Nat /\ Pages \in Nat
  BY FS_CardinalityType DEF RetentionCovers, Sizes
<1>2. Delay(Cardinality(Replicas), Pages) <= Grace
  BY DEF RetentionCovers
<1>3. /\ 2 * MaxTx + StaleAfter <= Delay(Cardinality(Replicas), Pages)
      /\ Delay(Cardinality(Replicas), Pages) \in Nat
  BY <1>1, DelayGrows
<1> QED
  BY <1>1, <1>2, <1>3, TimelyAssumption, WatcherAssumption, JournalAssumption

\* The steps in which no reader's call moves.
BackgroundStep ==
    WriterStep \/ SweepStep \/ (\E w \in Watchers : OpenStream(w)) \/ TimelyTick
        \/ UNCHANGED vars

\* What a step that takes time d does to the ages: a new row is as old as its
\* transaction.
AgesPass(d) ==
    /\ \A t \in Writers : inTx'[t] => /\ txAge'[t] <= MaxTx
                                      /\ \/ inTx[t] /\ txAge'[t] = txAge[t] + d
                                         \/ rows'[t] = {} /\ txAge'[t] = 0
    /\ \A t \in Writers : rows'[t] # {} => inTx'[t]
    /\ \A i \in Live' : \/ i \in Live /\ age'[i] <= age[i] + d
                        \/ i \notin Live /\ \E t \in Writers : inTx[t] /\ age'[i] = txAge[t]

TimePasses(d) == AgesPass(d) /\ \A w \in Watchers : silence'[w] = silence[w] + d

\* A step in which no reader's call moves takes one tick or none.
LEMMA BackgroundTime ==
    ASSUME TypeOK, TypeOK', RowsInv, OpenInv, BackgroundStep, RetentionCovers
    PROVE  \E d \in {0, 1} : TimePasses(d)
<1>0. /\ MaxTx \in Nat /\ StaleAfter \in Nat /\ Grace \in Nat /\ MaxTx <= Grace
      /\ JournalTypeOK /\ JournalTypeOK'
      /\ \A w \in Watchers : silence[w] \in 0 .. StaleAfter
      /\ \A t \in Writers : txAge[t] \in 0 .. Grace + 1
      /\ \A i \in Ids : age[i] \in 0 .. Grace + 1
  BY SlowestTransaction, TimelyAssumption, WatcherAssumption, JournalAssumption
  DEF TypeOK, JournalTypeOK
<1>1. ASSUME silence' = silence, inTx' = inTx, txAge' = txAge, rows' = rows, age' = age,
             Live' \subseteq Live
      PROVE  TimePasses(0)
  BY <1>0, <1>1 DEF TimePasses, AgesPass, OpenInv, Live
<1>2. ASSUME NEW t \in Writers, WriterBegins(t) PROVE TimePasses(0)
  <2>1. /\ ~inTx[t] /\ inTx' = [inTx EXCEPT ![t] = TRUE] /\ txAge' = [txAge EXCEPT ![t] = 0]
        /\ rows' = rows /\ age' = age /\ status' = status /\ silence' = silence
    BY <1>2 DEF WriterBegins, Begin, edgeVars
  <2>2. rows[t] = {} /\ Live' = Live
    BY <2>1 DEF OpenInv, Live
  <2> QED
    BY <1>0, <2>1, <2>2 DEF TimePasses, AgesPass, OpenInv, JournalTypeOK, Live
<1>3. ASSUME NEW t \in Writers, WriterEmits(t) PROVE TimePasses(0)
  <2>1. /\ inTx[t] /\ inTx' = inTx /\ txAge' = txAge /\ age' = age /\ status' = status
        /\ silence' = silence /\ rows' = [rows EXCEPT ![t] = @ \cup {nextId}]
    BY <1>3 DEF WriterEmits, EmitSubjectChangeEvent, edgeVars
  <2>2. Live' = Live
    BY <2>1 DEF Live
  <2> QED
    BY <1>0, <2>1, <2>2 DEF TimePasses, AgesPass, OpenInv, JournalTypeOK, Live
<1>4. ASSUME NEW t \in Writers, WriterCommits(t) \/ WriterAborts(t) PROVE TimePasses(0)
  <2>1. /\ inTx[t] /\ inTx' = [inTx EXCEPT ![t] = FALSE]
        /\ txAge' = [txAge EXCEPT ![t] = 0] /\ rows' = [rows EXCEPT ![t] = {}]
        /\ silence' = silence
    BY <1>4 DEF WriterCommits, WriterAborts, Commit, Rollback, edgeVars
  <2>2. \A i \in Live' : \/ i \in Live /\ age'[i] = age[i]
                         \/ i \notin Live /\ age'[i] = txAge[t]
    <3>1. SUFFICES ASSUME NEW i \in Live'
                   PROVE  \/ i \in Live /\ age'[i] = age[i]
                          \/ i \notin Live /\ age'[i] = txAge[t]
      OBVIOUS
    <3>2. i \in Ids /\ status'[i] = "live"
      BY DEF Live
    <3>3. i \in rows[t] => status[i] = "none"
      BY DEF RowsInv
    <3>4. CASE WriterCommits(t)
      BY <3>2, <3>3, <3>4, <1>0 DEF WriterCommits, Commit, Live, JournalTypeOK
    <3>5. CASE WriterAborts(t)
      BY <3>2, <3>3, <3>5, <1>0 DEF WriterAborts, Rollback, Live, JournalTypeOK
    <3> QED
      BY <1>4, <3>4, <3>5
  <2>3. \A i \in Live : i \in Ids
    BY DEF Live
  <2>4. \A i \in Live' : \/ i \in Live /\ age'[i] <= age[i] + 0
                         \/ i \notin Live /\ \E u \in Writers : inTx[u] /\ age'[i] = txAge[u]
    BY <1>0, <2>1, <2>2, <2>3
  <2>5. \A u \in Writers : inTx'[u] => inTx[u] /\ txAge'[u] = txAge[u] + 0 /\ txAge'[u] <= MaxTx
    BY <1>0, <2>1 DEF OpenInv, JournalTypeOK
  <2>6. \A u \in Writers : rows'[u] # {} => inTx'[u]
    BY <1>0, <2>1 DEF OpenInv, JournalTypeOK
  <2>7. \A w \in Watchers : silence'[w] = silence[w] + 0
    BY <1>0, <2>1
  <2> QED
    BY <2>4, <2>5, <2>6, <2>7 DEF TimePasses, AgesPass
<1>5. ASSUME NEW r \in Replicas, SweepAdvances(r) \/ SweepDeletes(r) PROVE TimePasses(0)
  <2>1. CASE SweepAdvances(r)
    BY <1>1, <2>1 DEF SweepAdvances, SweepObserve, edgeVars, Live
  <2>2. CASE SweepDeletes(r)
    <3>1. /\ silence' = silence /\ inTx' = inTx /\ txAge' = txAge /\ rows' = rows
          /\ Live' \subseteq Live
      BY <1>0, <2>2 DEF SweepDeletes, SweepDelete, edgeVars, Live, JournalTypeOK
    <3>2. \A i \in Live' : i \in Ids /\ age'[i] = age[i]
      <4>1. SUFFICES ASSUME NEW i \in Ids, status'[i] = "live" PROVE age'[i] = age[i]
        BY DEF Live
      <4> DEFINE gone == {j \in Live : \E c \in SweepCut(smark[r].settled) : j <= c}
      <4>2. /\ status' = [j \in Ids |-> IF j \in gone THEN "swept" ELSE status[j]]
            /\ age' = [j \in Ids |-> IF j \in gone THEN 0 ELSE age[j]]
        BY <2>2 DEF SweepDeletes, SweepDelete
      <4> QED
        BY <4>1, <4>2
    <3>3. \A i \in Live' : i \in Live /\ age'[i] <= age[i] + 0
      BY <1>0, <3>1, <3>2
    <3> QED
      BY <1>0, <3>1, <3>3 DEF TimePasses, AgesPass, OpenInv
  <2> QED
    BY <1>5, <2>1, <2>2
<1>6. ASSUME NEW w \in Watchers, OpenStream(w) PROVE TimePasses(0)
  BY <1>1, <1>6 DEF OpenStream, journalVars, Live
<1>7. ASSUME TimelyTick PROVE TimePasses(1)
  <2>1. /\ \A w \in Watchers : silence[w] < StaleAfter
        /\ \A t \in Writers : inTx[t] => txAge[t] < MaxTx
        /\ age' = [i \in Ids |-> IF status[i] = "live" THEN Older(age[i], Grace + 1) ELSE age[i]]
        /\ txAge' = [t \in Writers |-> IF inTx[t] THEN Older(txAge[t], Grace + 1) ELSE txAge[t]]
        /\ status' = status /\ inTx' = inTx /\ rows' = rows
        /\ silence' = [w \in Watchers |-> Older(silence[w], StaleAfter)]
    BY <1>7 DEF TimelyTick, Tick, JournalTick
  <2>2. \A w \in Watchers : silence'[w] = silence[w] + 1
    BY <1>0, <2>1 DEF Older
  <2>3. \A t \in Writers : inTx[t] => txAge'[t] = txAge[t] + 1 /\ txAge'[t] <= MaxTx
    BY <1>0, <2>1 DEF Older
  <2>4. \A i \in Live' : i \in Live /\ age'[i] <= age[i] + 1
    BY <1>0, <2>1 DEF Older, Live
  <2> QED
    BY <2>1, <2>2, <2>3, <2>4 DEF TimePasses, AgesPass, OpenInv
<1>8. CASE UNCHANGED vars
  BY <1>1, <1>8 DEF vars, journalVars, edgeVars, Live
<1>9. TimePasses(0) \/ TimePasses(1)
  BY <1>2, <1>3, <1>4, <1>5, <1>6, <1>7, <1>8 DEF BackgroundStep, WriterStep, SweepStep
<1> QED
  BY <1>9

\* A row that some reader has not read is not swept.
LEMMA UnreadStays ==
    ASSUME TypeOK, TypeOK', RetentionCovers, StatusStep, [TimelyNext]_vars,
           NEW w \in Watchers, LateInv(w), NEW i \in Unread(w)
    PROVE  i \in Live'
<1>1. i \in Ids /\ i \in Nat /\ status[i] = "live" /\ i \in Live
  BY Numbers DEF Unread, Live
<1>2. SUFFICES ASSUME status'[i] = "swept" PROVE FALSE
  BY <1>1 DEF StatusStep, Live
<1>3. PICK r \in Replicas : SweepDelete(r)
  <2>1. \/ \E t \in Writers : Begin(t) \/ EmitSubjectChangeEvent(t) \/ Commit(t) \/ Rollback(t)
        \/ \E r \in Replicas : SweepObserve(r) \/ SweepDelete(r) \/ NewReplica(r)
        \/ JournalTick
        \/ \E v \in Watchers : PollBoundary(v)
        \/ UNCHANGED journalVars
    BY TimelySteps, JournalSteps
  <2>2. CASE \E t \in Writers : Begin(t) \/ EmitSubjectChangeEvent(t) \/ Commit(t) \/ Rollback(t)
    <3>1. PICK t \in Writers : Begin(t) \/ EmitSubjectChangeEvent(t) \/ Commit(t) \/ Rollback(t)
      BY <2>2
    <3>2. CASE Begin(t) \/ EmitSubjectChangeEvent(t)
      BY <1>1, <1>2, <3>2 DEF Begin, EmitSubjectChangeEvent
    <3>3. CASE Commit(t)
      <4>1. status' = [j \in Ids |-> IF j \in rows[t] THEN "live" ELSE status[j]]
        BY <3>3 DEF Commit
      <4> QED
        BY <1>1, <1>2, <4>1
    <3>4. CASE Rollback(t)
      <4>1. status' = [j \in Ids |-> IF j \in rows[t] THEN "void" ELSE status[j]]
        BY <3>4 DEF Rollback
      <4> QED
        BY <1>1, <1>2, <4>1
    <3> QED
      BY <3>1, <3>2, <3>3, <3>4
  <2>3. CASE JournalTick \/ (\E v \in Watchers : PollBoundary(v)) \/ UNCHANGED journalVars
    BY <1>1, <1>2, <2>3 DEF JournalTick, PollBoundary, journalVars
  <2>4. CASE \E r \in Replicas : SweepObserve(r) \/ NewReplica(r)
    BY <1>1, <1>2, <2>4 DEF SweepObserve, NewReplica
  <2> QED
    BY <2>1, <2>2, <2>3, <2>4
<1>4. PICK c \in SweepCut(smark[r].settled) : i <= c
  BY <1>1, <1>2, <1>3 DEF SweepDelete, TypeOK, JournalTypeOK
<1>5. /\ c \in SweepHead(smark[r].settled) /\ c \in Live /\ c \in Nat
      /\ \A k \in SweepKeep(smark[r].settled) : c < k
  BY <1>4, Numbers DEF SweepCut, SweepHead, FirstRows, Live
<1>6. cursor[w] < c
  BY <1>1, <1>4, <1>5, Numbers DEF Unread
<1>7. age[c] <= Grace
  BY <1>5, <1>6, UnreadIsKept DEF Unread, LateInv
<1> QED
  BY <1>5, <1>7 DEF SweepKeep

\* No step sweeps what a reader has not read, or moves a reader back.
LEMMA SweptStaysRead ==
    ASSUME TypeOK, TypeOK', RetentionCovers, StatusStep, [TimelyNext]_vars,
           \A w \in Watchers : LateInv(w), SweptAreRead,
           \A w \in Watchers : cursor[w] <= cursor'[w]
    PROVE  SweptAreRead'
<1> SUFFICES ASSUME NEW w \in Watchers, NEW i \in Swept' PROVE i <= cursor'[w]
  BY DEF SweptAreRead
<1>1. i \in Ids /\ i \in Nat /\ status'[i] = "swept"
  BY Numbers DEF Swept
<1>2. cursor[w] \in Nat /\ cursor'[w] \in Nat /\ cursor[w] <= cursor'[w]
  BY JournalAssumption DEF TypeOK
<1>3. CASE i \in Swept
  BY <1>1, <1>2, <1>3 DEF SweptAreRead
<1>4. CASE i \notin Swept
  <2>1. i \in Live /\ i \notin Live'
    BY <1>1, <1>4 DEF StatusStep, Live, Swept
  <2>2. i \notin Unread(w)
    BY <2>1, UnreadStays
  <2> QED
    BY <1>1, <1>2, <2>1, <2>2 DEF Unread
<1> QED
  BY <1>3, <1>4

\* A step in which reader v takes no part.
Quiet(v) ==
    /\ pc'[v] = pc[v] /\ pos'[v] = pos[v] /\ page'[v] = page[v]
    /\ cursor'[v] = cursor[v] /\ primed'[v] = primed[v]

\* Time that passes for a reader in which it takes no part leaves it in time.
LEMMA LateKept ==
    ASSUME TypeOK, TypeOK', RetentionCovers, StatusStep, MarksAdvance, OpenInv,
           NEW v \in Watchers, WatcherInv(v), LostInv(v), LateInv(v), Quiet(v),
           \A i \in Unread(v) : i \in Live', SweptAreRead',
           NEW d \in {0, 1}, AgesPass(d), silence'[v] = silence[v] + d
    PROVE  LateInv(v)'
<1>0. Sizes
  BY SlowestTransaction
<1>1. /\ MaxTx \in Nat /\ StaleAfter \in Nat
      /\ cursor[v] \in Nat /\ pos[v] \in Nat /\ silence[v] \in Nat /\ silence'[v] \in Nat
  BY <1>0, Quantities, WatcherAssumption DEF TypeOK
<1>2. \A t \in Writers : txAge[t] \in Nat /\ (inTx[t] => txAge[t] <= MaxTx)
  BY <1>0, Quantities DEF OpenInv
<1>3. \A i \in Live' : /\ i \in Ids /\ i \in Nat /\ age[i] \in Nat /\ age'[i] \in Nat
                       /\ status'[i] = "live" /\ (i \notin Live => status[i] = "none")
  <2>1. Live' \subseteq Ids
    BY DEF Live
  <2>2. \A i \in Ids : i \in Nat /\ age[i] \in Nat /\ age'[i] \in Nat
    BY <1>0, Numbers, JournalAssumption DEF TypeOK, JournalTypeOK
  <2> QED
    BY <2>1, <2>2 DEF StatusStep, Live
<1>4. \A i \in Live' : \/ i \in Live /\ age'[i] <= age[i] + d
                       \/ i \notin Live /\ \E t \in Writers : inTx[t] /\ age'[i] = txAge[t]
  BY DEF AgesPass
<1>5. \A i \in Live' : i \notin Live => age'[i] <= MaxTx
  BY <1>2, <1>4
<1>6. \A i \in Ids : /\ Bound(v, i) \in Nat /\ Bound(v, i)' \in Nat
                     /\ Bound(v, i) <= Bound(v, i)' /\ 2 * MaxTx + StaleAfter <= Bound(v, i)
  <2>1. \A i \in Ids : /\ Bound(v, i) \in Nat /\ Bound(v, i)' \in Nat
                       /\ Bound(v, i) <= Bound(v, i)'
    BY <1>0, <1>1, BoundGrows DEF Quiet
  <2> QED
    BY <1>0, <2>1, Quantities
<1>7. Unread(v)' = {i \in Live' : cursor[v] < i} /\ Live' \subseteq Ids
  BY DEF Unread, Quiet, Live
<1>8. ColdInv(v)'
  <2>1. SUFFICES ASSUME ~primed[v]
                 PROVE  /\ pc[v] # "lost" /\ Swept' = {}
                        /\ \A i \in Live' : age'[i] <= silence'[v]
                        /\ \A t \in Writers : inTx'[t] => txAge'[t] <= silence'[v]
    BY DEF ColdInv, Quiet
  <2>2. /\ pc[v] # "lost" /\ \A i \in Live : age[i] <= silence[v]
        /\ \A t \in Writers : inTx[t] => txAge[t] <= silence[v]
    BY <2>1 DEF LateInv, ColdInv
  <2>3. cursor[v] = 0
    BY <2>1 DEF WatcherInv, ReaderInv
  <2>4. Swept' = {}
    <3>1. \A i \in Swept' : i \in Nat /\ i > 0
      BY Numbers DEF Swept
    <3>2. \A i \in Swept' : i <= 0
      BY <2>3 DEF SweptAreRead, Quiet
    <3> QED
      BY <3>1, <3>2
  <2>5. \A i \in Live' : age'[i] <= silence'[v]
    BY <1>1, <1>2, <1>3, <1>4, <2>2
  <2>6. \A t \in Writers : inTx'[t] => txAge'[t] <= silence'[v]
    BY <1>1, <1>2, <2>2 DEF AgesPass
  <2> QED
    BY <2>2, <2>4, <2>5, <2>6
<1>9. UnreadInv(v)'
  <2> DEFINE x == IF cursor[v] + 1 \in Live THEN StaleAfter ELSE 0
             y == IF cursor[v] + 1 \in Live' THEN StaleAfter ELSE 0
  <2>1. SUFFICES ASSUME primed[v], NEW i \in Live', cursor[v] < i
                 PROVE  age'[i] <= Bound(v, i)' + y + silence'[v]
    BY <1>7 DEF UnreadInv, Quiet
  <2>2. x \in Nat /\ y \in Nat /\ x <= y
    <3>1. cursor[v] + 1 \in Live => cursor[v] + 1 \in Unread(v)
      BY <1>1 DEF Unread
    <3> QED
      BY <1>1, <3>1
  <2>3. i \in Live => age[i] <= Bound(v, i) + x + silence[v]
    BY <2>1 DEF LateInv, UnreadInv, Unread
  <2> HIDE DEF x, y
  <2>4. CASE i \in Live
    <3>1. age'[i] <= age[i] + d
      BY <1>4, <2>4
    <3> QED
      BY <1>1, <1>3, <1>6, <2>2, <2>3, <2>4, <3>1
  <2>5. CASE i \notin Live
    BY <1>1, <1>3, <1>5, <1>6, <2>2, <2>5
  <2> QED
    BY <2>4, <2>5
<1>10. \A i \in Live' : age'[i] <= MaxTx => age'[i] + StaleAfter <= Bound(v, i)' + silence'[v]
  BY <1>1, <1>3, <1>6
<1>11. \A i \in Live : i \in Live' /\ age[i] + StaleAfter <= Bound(v, i) + silence[v] =>
           age'[i] + StaleAfter <= Bound(v, i)' + silence'[v]
  <2>1. SUFFICES ASSUME NEW i \in Live, i \in Live',
                        age[i] + StaleAfter <= Bound(v, i) + silence[v]
                 PROVE  age'[i] + StaleAfter <= Bound(v, i)' + silence'[v]
    OBVIOUS
  <2>2. age'[i] <= age[i] + d
    BY <1>4, <2>1
  <2> QED
    BY <1>1, <1>3, <1>6, <2>1, <2>2
<1>12. EarlyInv(v)'
  <2>1. SUFFICES ASSUME primed[v], NEW i \in Live', cursor[v] < i, Early(v, i)
                 PROVE  age'[i] + StaleAfter <= Bound(v, i)' + silence'[v]
    BY <1>7 DEF EarlyInv, Early, Quiet
  <2>2. CASE i \in Live
    BY <1>11, <2>1, <2>2 DEF LateInv, EarlyInv, Unread
  <2> QED
    BY <1>5, <1>10, <2>2
<1>13. RefusedInv(v)'
  <2>1. SUFFICES ASSUME pc[v] = "lost", NEW i \in Live', cursor[v] < i, pos[v] < i
                 PROVE  \/ pos[v] + 1 \in Live' /\ cursor[v] + 1 \notin Live'
                        \/ age'[i] + StaleAfter <= Bound(v, i)' + silence'[v]
    BY <1>7 DEF RefusedInv, Quiet
  <2>2. /\ cursor[v] < pos[v] /\ cursor[v] + 1 \in Ids
        /\ status[cursor[v] + 1] \in {"swept", "void"}
    BY <2>1 DEF LostInv
  <2>3. cursor[v] + 1 \notin Live'
    BY <2>2 DEF StatusStep, Live
  <2>4. pos[v] + 1 \in Live => pos[v] + 1 \in Live'
    BY <1>1, <2>2 DEF Unread
  <2>5. CASE i \in Live
    <3>1. \/ pos[v] + 1 \in Live /\ cursor[v] + 1 \notin Live
          \/ age[i] + StaleAfter <= Bound(v, i) + silence[v]
      BY <2>1, <2>5 DEF LateInv, RefusedInv, Unread
    <3> QED
      BY <1>11, <2>1, <2>3, <2>4, <2>5, <3>1
  <2> QED
    BY <1>5, <1>10, <2>5
<1>14. ShortInv(v)'
  <2>1. SUFFICES ASSUME pc[v] = "rows", Cardinality(page[v]) < Limit,
                        NEW i \in Live', cursor[v] < i, i <= pos[v]
                 PROVE  i \in page[v]
    BY <1>7 DEF ShortInv, Quiet
  <2>2. CASE i \in Live
    BY <2>1, <2>2 DEF LateInv, ShortInv, Unread
  <2>3. CASE i \notin Live
    <3>1. i \in Ids /\ i \in Nat /\ status[i] = "none"
      BY <1>3, <2>3
    <3>2. pos[v] = cursor[v] \/ pos[v] < i
      BY <2>1, <3>1 DEF WatcherInv, AnswerInv
    <3> QED
      BY <1>1, <2>1, <3>1, <3>2
  <2> QED
    BY <2>2, <2>3
<1> QED
  BY <1>8, <1>9, <1>12, <1>13, <1>14 DEF LateInv

\* A reader's own step leaves the table and the transactions on it alone.
TableUntouched ==
    /\ status' = status /\ age' = age /\ nextId' = nextId
    /\ inTx' = inTx /\ txAge' = txAge /\ rows' = rows

\* A reader's calls read the table and write nothing into it.
LEMMA ReaderLeavesTheTable ==
    ASSUME NEW w \in Watchers, OwnerStep(w) \/ EdgeStep(w)
    PROVE  TableUntouched
  BY DEF OwnerStep, EdgeStep, PollBoundary, PollPage, PollFloor, PollStart, Prime,
         ReadNothing, ReadChanges, PositionLost, FailClosed, journalVars, TableUntouched

\* A step is a reader's own, or no reader's call moves in it.
LEMMA ReaderOrBackground ==
    ASSUME [TimelyNext]_vars
    PROVE  BackgroundStep \/ \E w \in Watchers : OwnerStep(w) \/ EdgeStep(w)
  BY DEF TimelyNext, WatcherStep, BackgroundStep

\* Without restarts a reading mark only makes observations, and only a boundary does.
LEMMA ObservationsOnly ==
    ASSUME TypeOK, [TimelyNext]_vars
    PROVE  /\ MarksAdvance
           /\ BackgroundStep => rmark' = rmark
           /\ \A w \in Watchers : PollPage(w) \/ PollFloor(w) \/ EdgeStep(w) => rmark' = rmark
<1>1. BackgroundStep => rmark' = rmark
  BY DEF BackgroundStep, WriterStep, SweepStep, WriterBegins, WriterEmits, WriterCommits,
         WriterAborts, SweepAdvances, SweepDeletes, Begin, EmitSubjectChangeEvent, Commit,
         Rollback, SweepObserve, SweepDelete, OpenStream, TimelyTick, Tick, JournalTick,
         journalVars, vars
<1>2. \A w \in Watchers : PollPage(w) \/ PollFloor(w) \/ EdgeStep(w) => rmark' = rmark
  BY DEF EdgeStep, PollPage, PollFloor, PollStart, Prime, ReadNothing, ReadChanges,
         PositionLost, FailClosed, journalVars
<1>3. ASSUME NEW w \in Watchers, PollBoundary(w) PROVE MarksAdvance
  BY <1>3 DEF PollBoundary, MarksAdvance, TypeOK, JournalTypeOK
<1>4. MarksAdvance
  BY <1>1, <1>2, <1>3, ReaderOrBackground DEF MarksAdvance, OwnerStep
<1> QED
  BY <1>1, <1>2, <1>4

\* An observation that is pending is the one before, or it sees the top and waits for
\* what is in flight.
LEMMA PendingAdvance ==
    ASSUME NEW m, Advance(m).pending
    PROVE  \/ Advance(m) = m /\ m.pending /\ ~Drained(m)
           \/ /\ ~(m.pending /\ ~Drained(m))
              /\ ~(TopVisible <= Confirmed(m))
              /\ Advance(m).settled = Confirmed(m)
              /\ Advance(m).cand = TopVisible
              /\ Advance(m).wait = InFlight
<1>1. CASE m.pending /\ ~Drained(m)
  BY <1>1 DEF Advance
<1>2. CASE ~(m.pending /\ ~Drained(m)) /\ TopVisible <= Confirmed(m)
  BY <1>2 DEF Advance, SettledAt, NewWatermark
<1>3. CASE /\ ~(m.pending /\ ~Drained(m)) /\ ~(TopVisible <= Confirmed(m))
           /\ InFlight = {}
  BY <1>3 DEF Advance, SettledAt, NewWatermark
<1>4. CASE /\ ~(m.pending /\ ~Drained(m)) /\ ~(TopVisible <= Confirmed(m))
           /\ InFlight # {}
  BY <1>4 DEF Advance
<1> QED
  BY <1>1, <1>2, <1>3, <1>4

\* Every step keeps what is known of the open transactions.
LEMMA OpenStep ==
    ASSUME TypeOK, TypeOK', RowsInv, OpenInv, RetentionCovers, [TimelyNext]_vars, StatusStep
    PROVE  OpenInv'
<1>0. nextId \in Nat /\ nextId' \in Nat /\ \A i \in Ids : i \in Nat
  BY Numbers, JournalAssumption DEF TypeOK, JournalTypeOK
<1>1. \A t \in Writers : IF inTx'[t] THEN txAge'[t] <= MaxTx ELSE rows'[t] = {}
  <2>1. CASE BackgroundStep
    <3>1. PICK d \in {0, 1} : TimePasses(d)
      BY <2>1, BackgroundTime
    <3> QED
      BY <3>1 DEF TimePasses, AgesPass
  <2>2. ASSUME NEW w \in Watchers, OwnerStep(w) \/ EdgeStep(w)
        PROVE  \A t \in Writers : IF inTx'[t] THEN txAge'[t] <= MaxTx ELSE rows'[t] = {}
    BY <2>2, ReaderLeavesTheTable DEF TableUntouched, OpenInv
  <2> QED
    BY <2>1, <2>2, ReaderOrBackground
<1>2. \A i \in InFlight' : \E t \in Writers : i \in rows'[t]
  <2> SUFFICES ASSUME NEW i \in Ids, i < nextId', status'[i] = "none"
               PROVE  \E t \in Writers : i \in rows'[t]
    BY DEF InFlight
  <2>0. status[i] = "none"
    BY DEF StatusStep
  <2>1. i < nextId => \E t \in Writers : i \in rows[t]
    BY <2>0 DEF OpenInv, InFlight
  <2>2. ASSUME nextId' = nextId, rows' = rows PROVE \E t \in Writers : i \in rows'[t]
    BY <2>1, <2>2
  <2>3. ASSUME NEW t \in Writers, EmitSubjectChangeEvent(t)
        PROVE  \E u \in Writers : i \in rows'[u]
    <3>1. /\ nextId' = nextId + 1 /\ rows' = [rows EXCEPT ![t] = @ \cup {nextId}]
          /\ rows \in [Writers -> SUBSET Ids]
      BY <2>3 DEF EmitSubjectChangeEvent, TypeOK, JournalTypeOK
    <3>2. CASE i = nextId
      BY <3>1, <3>2
    <3>3. CASE i # nextId
      <4>1. PICK u \in Writers : i \in rows[u]
        BY <1>0, <2>1, <3>1, <3>3
      <4>2. i \in rows'[u]
        BY <3>1, <4>1
      <4> QED
        BY <4>2
    <3> QED
      BY <3>2, <3>3
  <2>4. ASSUME NEW t \in Writers, Commit(t) \/ Rollback(t)
        PROVE  \E u \in Writers : i \in rows'[u]
    <3>1. /\ nextId' = nextId /\ rows' = [rows EXCEPT ![t] = {}]
          /\ rows \in [Writers -> SUBSET Ids]
      BY <2>4 DEF Commit, Rollback, TypeOK, JournalTypeOK
    <3>2. PICK u \in Writers : i \in rows[u]
      BY <2>1, <3>1
    <3>3. i \notin rows[t]
      BY <2>4 DEF Commit, Rollback
    <3>4. i \in rows'[u]
      BY <3>1, <3>2, <3>3
    <3> QED
      BY <3>4
  <2>5. ASSUME NEW t \in Writers, Begin(t) PROVE \E u \in Writers : i \in rows'[u]
    BY <2>2, <2>5 DEF Begin
  <2>6. ASSUME NEW r \in Replicas, SweepObserve(r) \/ SweepDelete(r) \/ NewReplica(r)
        PROVE  \E u \in Writers : i \in rows'[u]
    BY <2>2, <2>6 DEF SweepObserve, SweepDelete, NewReplica
  <2>7. CASE JournalTick \/ UNCHANGED journalVars
    BY <2>2, <2>7 DEF JournalTick, journalVars
  <2>8. ASSUME NEW v \in Watchers, PollBoundary(v) PROVE \E u \in Writers : i \in rows'[u]
    BY <2>2, <2>8 DEF PollBoundary
  <2> QED
    BY <2>3, <2>4, <2>5, <2>6, <2>7, <2>8, TimelySteps, JournalSteps
<1>3. \A r \in Replicas : rmark'[r].pending => \A i \in rmark'[r].wait : i < nextId'
  <2> SUFFICES ASSUME NEW r \in Replicas, rmark'[r].pending, NEW i \in rmark'[r].wait
               PROVE  i < nextId'
    OBVIOUS
  <2>1. nextId <= nextId'
    BY DEF StatusStep
  <2>2. i \in Nat
    <3>1. rmark'[r] \in Watermark
      BY DEF TypeOK, JournalTypeOK
    <3> QED
      BY <1>0, <3>1 DEF Watermark
  <2>3. CASE rmark'[r] = rmark[r]
    BY <1>0, <2>1, <2>2, <2>3 DEF OpenInv
  <2>4. CASE rmark'[r] = Advance(rmark[r])
    <3>1. CASE rmark'[r] = rmark[r]
      BY <2>3, <3>1
    <3>2. CASE rmark'[r].wait = InFlight
      BY <1>0, <2>1, <2>2, <3>2 DEF InFlight
    <3> QED
      BY <2>4, <3>1, <3>2, PendingAdvance
  <2> QED
    BY <2>3, <2>4, ObservationsOnly DEF MarksAdvance
<1> QED
  BY <1>1, <1>2, <1>3 DEF OpenInv

\* Without restarts no reader moves back.
ReadersAdvance == \A w \in Watchers :
    /\ cursor[w] <= cursor'[w]
    /\ primed[w] => primed'[w]
    /\ primed'[w] /\ ~primed[w] => Prime(w) \/ PositionLost(w)

\* A reader without restarts only moves forward, and begins by an answer.
LEMMA NoReaderGoesBack ==
    ASSUME TypeOK, \A w \in Watchers : WatcherInv(w) /\ LostInv(w), [TimelyNext]_vars
    PROVE  ReadersAdvance
<1>0. \A w \in Watchers : /\ cursor[w] \in 0 .. MaxId /\ cursor[w] \in Nat /\ pos[w] \in Nat
                          /\ page[w] \in SUBSET Ids
  BY Numbers DEF TypeOK
<1>1. ASSUME cursor' = cursor, primed' = primed PROVE ReadersAdvance
  BY <1>0, <1>1 DEF ReadersAdvance
<1>2. CASE BackgroundStep
  BY <1>1, <1>2
  DEF BackgroundStep, WriterStep, SweepStep, WriterBegins, WriterEmits, WriterCommits,
      WriterAborts, SweepAdvances, SweepDeletes, OpenStream, TimelyTick, Tick, edgeVars, vars
<1>3. ASSUME NEW w \in Watchers, OwnerStep(w) \/ PollStart(w) \/ ReadNothing(w) \/ FailClosed(w)
      PROVE  ReadersAdvance
  BY <1>1, <1>3 DEF OwnerStep, PollBoundary, PollPage, PollFloor, PollStart, ReadNothing,
                    FailClosed, edgeVars
<1>4. ASSUME NEW w \in Watchers, Prime(w) PROVE ReadersAdvance
  <2>1. /\ ~primed[w] /\ primed' = [primed EXCEPT ![w] = TRUE]
        /\ cursor' = [cursor EXCEPT ![w] = pos[w]]
    BY <1>4 DEF Prime
  <2>2. cursor[w] = 0
    BY <2>1 DEF WatcherInv, ReaderInv
  <2> QED
    BY <1>0, <1>4, <2>1, <2>2 DEF ReadersAdvance, TypeOK
<1>5. ASSUME NEW w \in Watchers, ReadChanges(w) PROVE ReadersAdvance
  <2>1. /\ primed' = primed
        /\ cursor' = [cursor EXCEPT ![w] = Max({@} \cup page[w])]
    BY <1>5 DEF ReadChanges
  <2>2. cursor[w] <= Max({cursor[w]} \cup page[w])
    BY <1>0, CursorAfterPage
  <2> QED
    BY <1>0, <2>1, <2>2 DEF ReadersAdvance, TypeOK
<1>6. ASSUME NEW w \in Watchers, PositionLost(w) PROVE ReadersAdvance
  <2>1. /\ pc[w] = "lost" /\ primed' = [primed EXCEPT ![w] = TRUE]
        /\ cursor' = [cursor EXCEPT ![w] = pos[w]]
    BY <1>6 DEF PositionLost
  <2>2. cursor[w] < pos[w]
    BY <2>1 DEF LostInv
  <2> QED
    BY <1>0, <1>6, <2>1, <2>2 DEF ReadersAdvance, TypeOK
<1> QED
  BY <1>2, <1>3, <1>4, <1>5, <1>6, ReaderOrBackground DEF EdgeStep

\* A new observation in which a row is visible makes room for one that comes too early.
LEMMA SeenAnew ==
    ASSUME TypeOK, TypeOK', Sizes, MarksAdvance,
           NEW w \in Watchers, NEW i \in Ids, cursor[w] <= cursor'[w],
           NEW r \in Replicas, r \notin Saw(i), r \in Saw(i)'
    PROVE  Bound(w, i) + MaxTx + 3 * StaleAfter <= Bound(w, i)'
<1>1. Saw(i) \subseteq Saw(i)' /\ Saw(i)' \in SUBSET Replicas /\ Saw(i) \in SUBSET Replicas
  BY BoundGrows DEF Saw
<1>2. /\ IsFiniteSet(Saw(i)') /\ IsFiniteSet(Saw(i))
      /\ Cardinality(Saw(i)') \in Nat /\ Cardinality(Saw(i)) \in Nat
  BY <1>1, FS_Subset, FS_CardinalityType DEF Sizes
<1>3. /\ Cardinality(Saw(i) \cup {r}) = Cardinality(Saw(i)) + 1
      /\ IsFiniteSet(Saw(i) \cup {r})
  BY <1>2, FS_AddElement
<1>4. Cardinality(Saw(i)) + 1 <= Cardinality(Saw(i)')
  <2>1. Saw(i) \cup {r} \in SUBSET Saw(i)'
    BY <1>1
  <2> QED
    BY <1>2, <1>3, <2>1, FS_Subset
<1>5. cursor[w] \in Nat /\ cursor'[w] \in Nat /\ i \in Nat
  BY Numbers, JournalAssumption DEF TypeOK
<1>6. /\ Way(cursor[w], i) \in Nat /\ Way(cursor'[w], i) \in Nat
      /\ Way(cursor[w], i) <= Way(cursor'[w], i)
  BY <1>5, WayGrows
<1> DEFINE n == Cardinality(Saw(i))
           m == Cardinality(Saw(i)')
           p == Way(cursor[w], i)
           q == Way(cursor'[w], i)
<1>7. Bound(w, i) = Delay(n, p) /\ Bound(w, i)' = Delay(m, q)
  BY DEF Bound
<1>8. n \in Nat /\ m \in Nat /\ p \in Nat /\ q \in Nat /\ n + 1 <= m /\ p <= q
  BY <1>2, <1>4, <1>6
<1> HIDE DEF n, m, p, q
<1>9. Delay(n + 1, p) = Delay(n, p) + MaxTx + 3 * StaleAfter
  BY <1>8, DelayGrows
<1>10. Delay(n + 1, p) <= Delay(m, q)
  <2>1. n + 1 \in Nat
    BY <1>8
  <2> QED
    BY <1>8, <2>1, DelayGrows
<1> QED
  BY <1>7, <1>9, <1>10

\* A row some replica has seen leaves room for that replica.
LEMMA SeenLeavesRoom ==
    ASSUME TypeOK, Sizes, NEW w \in Watchers, NEW i \in Ids, Saw(i) # {}
    PROVE  3 * MaxTx + 4 * StaleAfter <= Bound(w, i)
<1>1. IsFiniteSet(Saw(i)) /\ Cardinality(Saw(i)) \in Nat /\ Way(cursor[w], i) \in Nat
  BY Quantities
<1>2. Cardinality(Saw(i)) # 0
  BY <1>1, FS_EmptySet
<1>3. 1 <= Cardinality(Saw(i))
  BY <1>1, <1>2
<1> DEFINE n == Cardinality(Saw(i))
           p == Way(cursor[w], i)
<1>4. n \in Nat /\ p \in Nat /\ 1 <= n
  BY <1>1, <1>3
<1> HIDE DEF n, p
<1>5. Delay(0 + 1, p) = Delay(0, p) + MaxTx + 3 * StaleAfter
      /\ 2 * MaxTx + StaleAfter <= Delay(0, p) /\ Delay(0, p) \in Nat
  BY <1>4, DelayGrows
<1>6. Delay(1, p) <= Delay(n, p) /\ Delay(n, p) \in Nat
  BY <1>4, DelayGrows
<1>7. Bound(w, i) = Delay(n, p)
  BY DEF Bound, n, p
<1>8. MaxTx \in Nat /\ StaleAfter \in Nat
  BY TimelyAssumption, WatcherAssumption
<1> QED
  BY <1>5, <1>6, <1>7, <1>8

\* What one mark waits for.
MarkWaits(r) == \A t \in Writers : \A i \in Live :
    rmark[r].pending /\ rmark[r].settled < i /\ rows[t] \cap rmark[r].wait # {} =>
        IF rmark[r].cand < i THEN age[i] <= MaxTx + txAge[t]
        ELSE \A w \in Watchers : primed[w] /\ i \in Unread(w) =>
                 age[i] + MaxTx + StaleAfter <= Bound(w, i) + txAge[t]

\* The waits are kept in order mark by mark.
LEMMA WaitsByMark == WaitInv <=> \A r \in Replicas : MarkWaits(r)
  BY DEF WaitInv, MarkWaits

\* A transaction only adds numbers that nothing waits for yet.
LEMMA RowsGrow ==
    ASSUME TypeOK, [TimelyNext]_vars, NEW t \in Writers
    PROVE  rows'[t] \subseteq rows[t] \cup {nextId}
<1>0. rows \in [Writers -> SUBSET Ids]
  BY DEF TypeOK, JournalTypeOK
<1>1. ASSUME rows' = rows PROVE rows'[t] \subseteq rows[t] \cup {nextId}
  BY <1>1
<1>2. ASSUME NEW u \in Writers, EmitSubjectChangeEvent(u)
      PROVE  rows'[t] \subseteq rows[t] \cup {nextId}
  BY <1>0, <1>2 DEF EmitSubjectChangeEvent
<1>3. ASSUME NEW u \in Writers, Commit(u) \/ Rollback(u)
      PROVE  rows'[t] \subseteq rows[t] \cup {nextId}
  BY <1>0, <1>3 DEF Commit, Rollback
<1>4. ASSUME NEW u \in Writers, Begin(u) PROVE rows' = rows
  BY <1>4 DEF Begin
<1>5. ASSUME NEW r \in Replicas, SweepObserve(r) \/ SweepDelete(r) \/ NewReplica(r)
      PROVE  rows' = rows
  BY <1>5 DEF SweepObserve, SweepDelete, NewReplica
<1>6. ASSUME NEW v \in Watchers, PollBoundary(v) PROVE rows' = rows
  BY <1>6 DEF PollBoundary
<1>7. CASE JournalTick \/ UNCHANGED journalVars
  BY <1>1, <1>7 DEF JournalTick, journalVars
<1> QED
  BY <1>1, <1>2, <1>3, <1>4, <1>5, <1>6, <1>7, TimelySteps, JournalSteps

\* Time, writers and the sweep leave what a mark waits for in order.
LEMMA WaitInBackground ==
    ASSUME TypeOK, TypeOK', RetentionCovers, OpenInv, StatusStep, [TimelyNext]_vars,
           NEW d \in {0, 1}, AgesPass(d), ReadersAdvance, primed' = primed,
           rmark' = rmark, MarksAdvance,
           NEW r \in Replicas, MarkWaits(r)
    PROVE  MarkWaits(r)'
<1>0. Sizes /\ MaxTx \in Nat /\ StaleAfter \in Nat
  BY SlowestTransaction, TimelyAssumption, WatcherAssumption
<1> SUFFICES ASSUME NEW t \in Writers, NEW i \in Live',
                    rmark[r].pending, rmark[r].settled < i,
                    rows'[t] \cap rmark[r].wait # {}
             PROVE  IF rmark[r].cand < i THEN age'[i] <= MaxTx + txAge'[t]
                    ELSE \A w \in Watchers : primed[w] /\ i \in Unread(w)' =>
                        age'[i] + MaxTx + StaleAfter <= Bound(w, i)' + txAge'[t]
  BY DEF MarkWaits
<1>1. i \in Ids /\ i \in Nat /\ age[i] \in Nat /\ age'[i] \in Nat /\ txAge[t] \in Nat
      /\ txAge'[t] \in Nat /\ \A u \in Writers : txAge[u] \in Nat
  <2>1. i \in Ids
    BY DEF Live
  <2> QED
    BY <2>1, Numbers, JournalAssumption DEF TypeOK, JournalTypeOK
<1>2. rows[t] \cap rmark[r].wait # {}
  <2>1. nextId \notin rmark[r].wait
    BY JournalAssumption DEF OpenInv, TypeOK, JournalTypeOK
  <2> QED
    BY <2>1, RowsGrow
<1>3. inTx[t] /\ txAge'[t] = txAge[t] + d
  BY DEF AgesPass
<1>4. \/ i \in Live /\ age'[i] <= age[i] + d
      \/ i \notin Live /\ age'[i] <= MaxTx
  <2>1. \A u \in Writers : inTx[u] => txAge[u] <= MaxTx
    BY DEF OpenInv
  <2> QED
    BY <1>0, <1>1, <2>1 DEF AgesPass
<1>5. CASE rmark[r].cand < i
  <2>1. i \in Live => age[i] <= MaxTx + txAge[t]
    BY <1>2, <1>5 DEF MarkWaits
  <2>2. age'[i] <= MaxTx + txAge'[t]
    <3>1. CASE i \in Live
      BY <1>0, <1>1, <1>3, <1>4, <2>1, <3>1
    <3>2. CASE i \notin Live
      BY <1>0, <1>1, <1>4, <3>2
    <3> QED
      BY <3>1, <3>2
  <2> QED
    BY <1>5, <2>2
<1>6. CASE ~(rmark[r].cand < i)
  <2> SUFFICES ASSUME NEW w \in Watchers, primed[w], i \in Unread(w)'
               PROVE  age'[i] + MaxTx + StaleAfter <= Bound(w, i)' + txAge'[t]
    BY <1>6
  <2>0. cursor[w] \in Nat /\ cursor'[w] \in Nat /\ cursor[w] <= cursor'[w]
    BY JournalAssumption DEF TypeOK, ReadersAdvance
  <2>1. /\ Bound(w, i) \in Nat /\ Bound(w, i)' \in Nat /\ Bound(w, i) <= Bound(w, i)'
    BY <1>0, <1>1, <2>0, BoundGrows
  <2>2. 2 * MaxTx + StaleAfter <= Bound(w, i)
    BY <1>0, <1>1, Quantities
  <2>3. i \in Live => i \in Unread(w)
    BY <1>1, <2>0 DEF Unread
  <2>4. CASE i \in Live
    <3>1. age[i] + MaxTx + StaleAfter <= Bound(w, i) + txAge[t]
      BY <1>2, <1>6, <2>3, <2>4 DEF MarkWaits
    <3> QED
      BY <1>0, <1>1, <1>3, <1>4, <2>1, <2>4, <3>1
  <2>5. CASE i \notin Live
    BY <1>0, <1>1, <1>4, <2>1, <2>2, <2>5
  <2> QED
    BY <2>4, <2>5
<1> QED
  BY <1>5, <1>6

\* A reader's step leaves what another mark waits for in order: a reader that begins
\* was not silent for longer than the row is old.
LEMMA WaitWhileReading ==
    ASSUME TypeOK, TypeOK', RetentionCovers, TableUntouched, ReadersAdvance, MarksAdvance,
           \A w \in Watchers : ColdInv(w),
           NEW r \in Replicas, rmark'[r] = rmark[r], MarkWaits(r)
    PROVE  MarkWaits(r)'
<1>0. Sizes /\ MaxTx \in Nat /\ StaleAfter \in Nat
  BY SlowestTransaction, TimelyAssumption, WatcherAssumption
<1>a. Live' = Live
  BY DEF TableUntouched, Live
<1> SUFFICES ASSUME NEW t \in Writers, NEW i \in Live,
                    rmark[r].pending, rmark[r].settled < i,
                    rows[t] \cap rmark[r].wait # {}
             PROVE  IF rmark[r].cand < i THEN age[i] <= MaxTx + txAge[t]
                    ELSE \A w \in Watchers : primed'[w] /\ i \in Unread(w)' =>
                        age[i] + MaxTx + StaleAfter <= Bound(w, i)' + txAge[t]
  BY <1>a DEF MarkWaits, TableUntouched
<1>1. i \in Ids /\ i \in Nat /\ age[i] \in Nat /\ txAge[t] \in Nat /\ rmark[r].cand \in Nat
  <2>1. i \in Ids
    BY DEF Live
  <2> QED
    BY <2>1, Numbers, JournalAssumption DEF TypeOK, JournalTypeOK, Watermark
<1>5. CASE rmark[r].cand < i
  BY <1>5 DEF MarkWaits
<1>6. CASE ~(rmark[r].cand < i)
  <2> SUFFICES ASSUME NEW w \in Watchers, primed'[w], i \in Unread(w)'
               PROVE  age[i] + MaxTx + StaleAfter <= Bound(w, i)' + txAge[t]
    BY <1>6
  <2>0. cursor[w] \in Nat /\ cursor'[w] \in Nat /\ cursor[w] <= cursor'[w]
    BY JournalAssumption DEF TypeOK, ReadersAdvance
  <2>1. /\ Bound(w, i) \in Nat /\ Bound(w, i)' \in Nat /\ Bound(w, i) <= Bound(w, i)'
    BY <1>0, <1>1, <2>0, BoundGrows
  <2>2. i \in Unread(w)
    BY <1>1, <1>a, <2>0 DEF Unread
  <2>3. CASE primed[w]
    <3>1. age[i] + MaxTx + StaleAfter <= Bound(w, i) + txAge[t]
      BY <1>6, <2>2, <2>3 DEF MarkWaits
    <3> QED
      BY <1>0, <1>1, <2>1, <3>1
  <2>4. CASE ~primed[w]
    <3>1. age[i] <= silence[w] /\ silence[w] \in Nat /\ silence[w] <= StaleAfter
      BY <1>0, <2>4, Quantities DEF ColdInv
    <3>2. r \in Saw(i)
      BY <1>1, <1>6 DEF Saw
    <3>3. 3 * MaxTx + 4 * StaleAfter <= Bound(w, i)
      BY <1>0, <1>1, <3>2, SeenLeavesRoom
    <3> QED
      BY <1>0, <1>1, <2>1, <3>1, <3>3
  <2> QED
    BY <2>3, <2>4
<1> QED
  BY <1>5, <1>6

\* A new observation waits for transactions that began while the rows it sees had not
\* become late, and from now on the observing replica has seen them.
LEMMA WaitFromAnew ==
    ASSUME TypeOK, TypeOK', RetentionCovers, TableUntouched, MarksAdvance,
           \A w \in Watchers : UnreadInv(w), primed' = primed, cursor' = cursor,
           NEW r \in Replicas, MarkWaits(r), rmark'[r] = Advance(rmark[r]), rmark'[r] # rmark[r]
    PROVE  MarkWaits(r)'
<1>0. Sizes /\ MaxTx \in Nat /\ StaleAfter \in Nat
  BY SlowestTransaction, TimelyAssumption, WatcherAssumption
<1>a. Live' = Live
  BY DEF TableUntouched, Live
<1> SUFFICES ASSUME NEW t \in Writers, NEW i \in Live,
                    rmark'[r].pending, rmark'[r].settled < i
             PROVE  /\ ~(rmark'[r].cand < i)
                    /\ \A w \in Watchers : primed[w] /\ i \in Unread(w)' =>
                        age[i] + MaxTx + StaleAfter <= Bound(w, i)' + txAge[t]
  BY <1>a DEF MarkWaits, TableUntouched
<1>1. i \in Ids /\ i \in Nat /\ age[i] \in Nat /\ txAge[t] \in Nat
  <2>1. i \in Ids
    BY DEF Live
  <2> QED
    BY <2>1, Numbers, JournalAssumption DEF TypeOK, JournalTypeOK
<1>2. rmark'[r].settled = Confirmed(rmark[r]) /\ rmark'[r].cand = TopVisible
  BY PendingAdvance
<1>3. i <= TopVisible /\ TopVisible \in Nat
  BY TopVisibleType, JournalAssumption DEF TypeOK
<1>4. rmark[r] \in Watermark /\ rmark[r].settled \in Nat /\ rmark[r].cand \in Nat
  BY JournalAssumption DEF TypeOK, JournalTypeOK, Watermark
<1>5. r \notin Saw(i)
  BY <1>1, <1>2, <1>4 DEF Saw, Confirmed
<1>6. r \in Saw(i)'
  BY <1>2, <1>3 DEF Saw
<1>7. ~(rmark'[r].cand < i)
  BY <1>1, <1>2, <1>3
<1>8. ASSUME NEW w \in Watchers, primed[w], i \in Unread(w)'
      PROVE  age[i] + MaxTx + StaleAfter <= Bound(w, i)' + txAge[t]
  <2>1. cursor[w] \in Nat /\ cursor[w] <= cursor'[w]
    BY JournalAssumption DEF TypeOK
  <2>2. i \in Unread(w)
    BY <1>8, <1>a DEF Unread
  <2>3. Bound(w, i) + MaxTx + 3 * StaleAfter <= Bound(w, i)'
    BY <1>0, <1>1, <1>5, <1>6, <2>1, SeenAnew
  <2>4. silence[w] \in Nat /\ silence[w] <= StaleAfter /\ Bound(w, i) \in Nat
    BY <1>0, <1>1, Quantities
  <2>5. age[i] <= Bound(w, i) + StaleAfter + silence[w]
    <3>1. age[i] <= Bound(w, i) + (IF cursor[w] + 1 \in Live THEN StaleAfter ELSE 0) + silence[w]
      BY <1>8, <2>2 DEF UnreadInv
    <3> QED
      BY <1>0, <1>1, <2>4, <3>1
  <2>6. Bound(w, i)' \in Nat
    BY <1>0, <1>1, <2>1, BoundGrows
  <2> QED
    BY <1>0, <1>1, <2>3, <2>4, <2>5, <2>6
<1> QED
  BY <1>7, <1>8

\* Every step keeps what the marks wait for in order.
LEMMA WaitStep ==
    ASSUME TypeOK, TypeOK', RowsInv, RetentionCovers, OpenInv, StatusStep, [TimelyNext]_vars,
           \A w \in Watchers : WatcherInv(w) /\ LostInv(w) /\ LateInv(w), WaitInv
    PROVE  WaitInv'
<1>0. ReadersAdvance /\ MarksAdvance
  BY NoReaderGoesBack, ObservationsOnly
<1>1. CASE BackgroundStep
  <2>1. PICK d \in {0, 1} : TimePasses(d)
    BY <1>1, BackgroundTime
  <2>2. primed' = primed
    BY <1>1 DEF BackgroundStep, WriterStep, SweepStep, WriterBegins, WriterEmits,
                WriterCommits, WriterAborts, SweepAdvances, SweepDeletes, OpenStream,
                TimelyTick, Tick, edgeVars, vars
  <2>3. rmark' = rmark
    BY <1>1, ObservationsOnly
  <2>4. ASSUME NEW r \in Replicas PROVE MarkWaits(r)'
    BY <1>0, <2>1, <2>2, <2>3, WaitsByMark, WaitInBackground DEF TimePasses
  <2> QED
    BY <2>4, WaitsByMark DEF WaitInv, MarkWaits
<1>2. ASSUME NEW w \in Watchers, OwnerStep(w) \/ EdgeStep(w) PROVE WaitInv'
  <2>1. TableUntouched
    BY <1>2, ReaderLeavesTheTable
  <2>2. ASSUME NEW r \in Replicas PROVE MarkWaits(r)'
    <3>1. CASE rmark'[r] = rmark[r]
      BY <1>0, <2>1, <3>1, WaitsByMark, WaitWhileReading DEF LateInv
    <3>2. CASE rmark'[r] # rmark[r]
      <4>1. PollBoundary(w)
        BY <1>2, <3>2, ObservationsOnly DEF OwnerStep
      <4>2. primed' = primed /\ cursor' = cursor
        BY <4>1 DEF PollBoundary, edgeVars
      <4>3. rmark'[r] = Advance(rmark[r])
        BY <1>0, <3>2 DEF MarksAdvance
      <4> QED
        BY <1>0, <2>1, <3>2, <4>2, <4>3, WaitsByMark, WaitFromAnew DEF LateInv
    <3> QED
      BY <3>1, <3>2
  <2> QED
    BY <2>2 DEF WaitInv, MarkWaits
<1> QED
  BY <1>1, <1>2, ReaderOrBackground

\* The context of a reader's own step.
OwnStep(w) ==
    /\ TypeOK /\ TypeOK' /\ RetentionCovers
    /\ TableUntouched /\ MarksAdvance /\ ReadersAdvance
    /\ WatcherInv(w) /\ LostInv(w) /\ LateInv(w)

\* Nothing is closer to being late after a reader's own step.
LEMMA OwnQuantities ==
    ASSUME NEW w \in Watchers, OwnStep(w)
    PROVE  /\ MaxTx \in Nat /\ StaleAfter \in Nat /\ Limit \in Nat /\ Limit > 0
           /\ Live' = Live /\ Swept' = Swept /\ Live \subseteq Ids
           /\ \A i \in Ids : i \in Nat /\ age[i] \in Nat
           /\ cursor[w] \in Nat /\ cursor'[w] \in Nat /\ cursor[w] <= cursor'[w]
           /\ pos[w] \in Nat /\ pos'[w] \in Nat
           /\ silence[w] \in Nat /\ silence[w] <= StaleAfter
           /\ Unread(w)' \subseteq Unread(w)
           /\ \A i \in Ids : /\ Bound(w, i) \in Nat /\ Bound(w, i)' \in Nat
                             /\ Bound(w, i) <= Bound(w, i)'
                             /\ 2 * MaxTx + StaleAfter <= Bound(w, i)
<1> USE DEF OwnStep
<1>0. Sizes
  BY SlowestTransaction
<1>1. MaxTx \in Nat /\ StaleAfter \in Nat /\ Limit \in Nat /\ Limit > 0
  BY <1>0, Quantities
<1>2. Live' = Live /\ Swept' = Swept /\ Live \subseteq Ids
  BY DEF TableUntouched, Live, Swept
<1>3. \A i \in Ids : i \in Nat /\ age[i] \in Nat
  BY <1>0, Quantities
<1>4. /\ cursor[w] \in Nat /\ cursor'[w] \in Nat /\ cursor[w] <= cursor'[w]
      /\ pos[w] \in Nat /\ pos'[w] \in Nat
      /\ silence[w] \in Nat /\ silence[w] <= StaleAfter
  BY <1>0, Quantities, JournalAssumption DEF ReadersAdvance, TypeOK
<1>5. Unread(w)' \subseteq Unread(w)
  BY <1>2, <1>3, <1>4 DEF Unread
<1>6. \A i \in Ids : /\ Bound(w, i) \in Nat /\ Bound(w, i)' \in Nat
                     /\ Bound(w, i) <= Bound(w, i)'
  BY <1>0, <1>4, BoundGrows
<1>7. \A i \in Ids : 2 * MaxTx + StaleAfter <= Bound(w, i)
  BY <1>0, Quantities
<1> QED
  BY <1>1, <1>2, <1>3, <1>4, <1>5, <1>6, <1>7

\* While a call goes on, a reader's silence and place stay what they were.
LEMMA CallGoesOn ==
    ASSUME NEW w \in Watchers, OwnStep(w),
           cursor'[w] = cursor[w], primed'[w] = primed[w], silence'[w] = silence[w]
    PROVE  /\ UnreadInv(w)'
           /\ (~primed[w] => pc'[w] # "lost") => ColdInv(w)'
<1>1. UnreadInv(w)'
  <2> SUFFICES ASSUME primed[w], NEW i \in Unread(w)'
               PROVE  age[i] <= Bound(w, i)' + (IF cursor[w] + 1 \in Live THEN StaleAfter ELSE 0)
                                    + silence[w]
    BY OwnQuantities DEF UnreadInv, OwnStep, TableUntouched
  <2> DEFINE x == IF cursor[w] + 1 \in Live THEN StaleAfter ELSE 0
  <2>1. i \in Unread(w) /\ i \in Ids
    BY OwnQuantities DEF Unread
  <2>2. age[i] <= Bound(w, i) + x + silence[w]
    BY <2>1 DEF OwnStep, LateInv, UnreadInv
  <2>3. x \in Nat
    BY OwnQuantities
  <2> HIDE DEF x
  <2>4. age[i] <= Bound(w, i)' + x + silence[w]
    BY <2>1, <2>2, <2>3, OwnQuantities
  <2> QED
    BY <2>4 DEF x
<1>2. ASSUME ~primed[w] => pc'[w] # "lost" PROVE ColdInv(w)'
  BY <1>2, OwnQuantities DEF ColdInv, OwnStep, LateInv, TableUntouched
<1> QED
  BY <1>1, <1>2

\* A call that has not been answered yet promises nothing.
LEMMA NoAnswerYet ==
    ASSUME NEW w \in Watchers, pc'[w] \in {"idle", "advance", "error"}
    PROVE  EarlyInv(w)' /\ RefusedInv(w)' /\ ShortInv(w)'
  BY DEF EarlyInv, RefusedInv, ShortInv, Early

\* A call that begins or breaks off is no confirmation: the silence goes on.
LEMMA CallRestsOwn ==
    ASSUME NEW w \in Watchers, OwnStep(w), PollStart(w) \/ FailClosed(w)
    PROVE  LateInv(w)'
<1>1. /\ cursor'[w] = cursor[w] /\ primed'[w] = primed[w] /\ silence'[w] = silence[w]
      /\ pc'[w] \in {"idle", "advance"}
  BY AfterReturn, AfterCall DEF PollStart, FailClosed, edgeVars, OwnStep
<1> QED
  BY <1>1, CallGoesOn, NoAnswerYet DEF LateInv

\* The page is read under the boundary the call has.
LEMMA PageOwn ==
    ASSUME NEW w \in Watchers, OwnStep(w), PollPage(w)
    PROVE  LateInv(w)'
<1>1. /\ cursor'[w] = cursor[w] /\ primed'[w] = primed[w] /\ silence'[w] = silence[w]
      /\ pc[w] = "page" /\ pc'[w] = "floor" /\ pos'[w] = pos[w]
  BY DEF PollPage, edgeVars, OwnStep, TypeOK
<1>2. UnreadInv(w)' /\ ColdInv(w)'
  BY <1>1, CallGoesOn
<1>3. RefusedInv(w)' /\ ShortInv(w)'
  BY <1>1 DEF RefusedInv, ShortInv
<1>4. EarlyInv(w)'
  <2> SUFFICES ASSUME primed[w], NEW i \in Unread(w)', pos[w] < i
               PROVE  age[i] + StaleAfter <= Bound(w, i)' + silence[w]
    BY <1>1 DEF EarlyInv, Early, OwnStep, TableUntouched
  <2>1. i \in Unread(w) /\ i \in Ids
    BY OwnQuantities DEF Unread
  <2>2. age[i] + StaleAfter <= Bound(w, i) + silence[w]
    BY <1>1, <2>1 DEF OwnStep, LateInv, EarlyInv, Early
  <2> QED
    BY <2>1, <2>2, OwnQuantities
<1> QED
  BY <1>2, <1>3, <1>4 DEF LateInv

\* The floor either keeps the call's boundary or lies just below a row that is kept.
LEMMA FloorOwn ==
    ASSUME NEW w \in Watchers, OwnStep(w), PollFloor(w)
    PROVE  LateInv(w)'
<1> DEFINE floor == ObserveFloor(rmark[rep[w]])
<1>1. /\ cursor'[w] = cursor[w] /\ primed'[w] = primed[w] /\ silence'[w] = silence[w]
      /\ page'[w] = page[w] /\ pc[w] = "floor"
      /\ pc'[w] = IF LostPosition(w, floor) THEN "lost" ELSE "rows"
      /\ pos'[w] = IF LostPosition(w, floor) THEN floor
                   ELSE IF Cardinality(page[w]) >= Limit THEN Max(page[w]) ELSE pos[w]
  BY DEF PollFloor, edgeVars, OwnStep, TypeOK
<1>2. ~primed[w] => pc'[w] # "lost"
  BY <1>1 DEF LostPosition, OwnStep, WatcherInv, ReaderInv
<1>3. UnreadInv(w)' /\ ColdInv(w)'
  BY <1>1, <1>2, CallGoesOn
<1>4. CASE LostPosition(w, floor)
  <2>1. EarlyInv(w)' /\ ShortInv(w)'
    BY <1>1, <1>4 DEF EarlyInv, ShortInv, Early
  <2>2. RefusedInv(w)'
    <3> SUFFICES ASSUME NEW i \in Unread(w)'
                 PROVE  pos'[w] + 1 \in Live' /\ cursor'[w] + 1 \notin Live'
      BY DEF RefusedInv
    <3>1. Live # {} /\ Live \in SUBSET Ids /\ Live' = Live
      BY OwnQuantities DEF Unread
    <3>2. Min(Live) \in Live /\ \A j \in Live : Min(Live) <= j
      BY <3>1, MinOfIds
    <3>3. Min(Live) \in Nat /\ Min(Live) > 0
      <4>1. Min(Live) \in Ids
        BY <3>1, <3>2
      <4> QED
        BY <4>1, Numbers DEF OwnStep
    <3>4. pos'[w] = Min(Live) - 1 /\ cursor[w] < Min(Live) - 1
      BY <1>1, <1>4, <3>1 DEF ObserveFloor, LostPosition
    <3>5. pos'[w] + 1 = Min(Live) /\ cursor[w] + 1 < Min(Live)
      BY <3>3, <3>4, OwnQuantities
    <3>6. cursor[w] + 1 \notin Live
      BY <3>2, <3>3, <3>5, OwnQuantities
    <3> QED
      BY <1>1, <3>1, <3>2, <3>5, <3>6
  <2> QED
    BY <1>3, <2>1, <2>2 DEF LateInv
<1>5. CASE ~LostPosition(w, floor)
  <2>1. RefusedInv(w)'
    BY <1>1, <1>5 DEF RefusedInv
  <2>2. Cardinality(page[w]) < Limit => ~(Cardinality(page[w]) >= Limit)
    <3>1. IsFiniteSet(page[w])
      BY IdsAreNumbers, FS_Subset DEF OwnStep, TypeOK
    <3> QED
      BY <3>1, FS_CardinalityType, OwnQuantities
  <2>3. EarlyInv(w)'
    <3> SUFFICES ASSUME primed[w], NEW i \in Unread(w)', pos'[w] < i, Cardinality(page[w]) < Limit
                 PROVE  age[i] + StaleAfter <= Bound(w, i)' + silence[w]
      BY <1>1, <1>5 DEF EarlyInv, Early, OwnStep, TableUntouched
    <3>1. i \in Unread(w) /\ i \in Ids
      BY OwnQuantities DEF Unread
    <3>2. pos'[w] = pos[w]
      BY <1>1, <1>5, <2>2
    <3>3. age[i] + StaleAfter <= Bound(w, i) + silence[w]
      BY <1>1, <3>1, <3>2 DEF OwnStep, LateInv, EarlyInv, Early
    <3> QED
      BY <3>1, <3>3, OwnQuantities
  <2>4. ShortInv(w)'
    <3> SUFFICES ASSUME Cardinality(page[w]) < Limit, NEW i \in Unread(w)', i <= pos'[w]
                 PROVE  i \in page[w]
      BY <1>1 DEF ShortInv
    <3>1. i \in Live /\ cursor[w] < i
      BY OwnQuantities DEF Unread
    <3>2. pos'[w] = pos[w]
      BY <1>1, <1>5, <2>2
    <3> QED
      BY <1>1, <3>1, <3>2 DEF OwnStep, WatcherInv, PageInv
  <2> QED
    BY <1>3, <2>1, <2>3, <2>4 DEF LateInv
<1> QED
  BY <1>4, <1>5

\* An observation that leaves a kept row out is an early one.
LEMMA BoundaryOwn ==
    ASSUME NEW w \in Watchers, OwnStep(w), PollBoundary(w), OpenInv, WaitInv
    PROVE  LateInv(w)'
<1> DEFINE r == rep[w]
           m == Advance(rmark[r])
<1>1. /\ cursor'[w] = cursor[w] /\ primed'[w] = primed[w] /\ silence'[w] = silence[w]
      /\ page'[w] = {} /\ rmark'[r] = m /\ r \in Replicas
      /\ pc'[w] = IF ~m.established THEN "error"
                  ELSE IF m.settled <= cursor[w] THEN "rows" ELSE "page"
      /\ pos'[w] = IF ~m.established THEN 0
                   ELSE IF m.settled <= cursor[w] THEN cursor[w] ELSE m.settled
  BY DEF PollBoundary, edgeVars, OwnStep, TypeOK, JournalTypeOK
<1>2. UnreadInv(w)' /\ ColdInv(w)'
  BY <1>1, CallGoesOn
<1>3. RefusedInv(w)'
  BY <1>1 DEF RefusedInv
<1>4. ShortInv(w)'
  <2> SUFFICES ASSUME pc'[w] = "rows", NEW i \in Unread(w)', i <= pos'[w] PROVE FALSE
    BY DEF ShortInv
  <2>1. pos'[w] = cursor[w]
    BY <1>1
  <2>2. cursor[w] < i /\ i \in Nat
    BY <1>1, OwnQuantities DEF Unread
  <2> QED
    BY <2>1, <2>2, OwnQuantities
<1>5. EarlyInv(w)'
  <2> SUFFICES ASSUME primed[w], NEW i \in Unread(w)', m.established, pos'[w] < i
               PROVE  age[i] + StaleAfter <= Bound(w, i)' + silence[w]
    BY <1>1 DEF EarlyInv, Early, OwnStep, TableUntouched
  <2>0. TypeOK /\ TypeOK' /\ JournalTypeOK /\ rmark[r] \in Watermark /\ Sizes
    BY <1>1, SlowestTransaction DEF OwnStep, TypeOK, JournalTypeOK
  <2>1. i \in Unread(w) /\ i \in Ids /\ i \in Live
    BY OwnQuantities DEF Unread
  <2>2. /\ rmark[r].settled \in Nat /\ rmark[r].cand \in Nat /\ Confirmed(rmark[r]) \in Nat
        /\ m.settled \in Nat
    BY <2>0, AdvanceType, JournalAssumption DEF Watermark, Confirmed
  <2>3. m.settled < i
    BY <1>1, <2>1, <2>2, OwnQuantities
  <2>4. i <= TopVisible /\ TopVisible \in Nat
    BY <2>0, <2>1, TopVisibleType, JournalAssumption
  <2>5. m.pending
    <3>1. TopVisible <= Confirmed(rmark[r]) => ~(Confirmed(rmark[r]) < i)
      BY <2>1, <2>2, <2>4, OwnQuantities
    <3>2. ~(TopVisible < i)
      BY <2>1, <2>4, OwnQuantities
    <3> QED
      BY <2>3, <3>1, <3>2 DEF Advance, SettledAt, NewWatermark
  <2>6. CASE m = rmark[r] /\ ~Drained(rmark[r])
    <3>1. PICK j \in rmark[r].wait : j \in InFlight
      BY <2>6 DEF Drained
    <3>2. PICK t \in Writers : j \in rows[t]
      BY <3>1 DEF OpenInv
    <3>3. /\ rows[t] \cap rmark[r].wait # {}
          /\ txAge[t] \in Nat /\ txAge[t] <= MaxTx
      BY <2>0, <3>1, <3>2, Quantities DEF OpenInv
    <3>4. CASE rmark[r].cand < i
      <4>1. age[i] <= MaxTx + txAge[t]
        BY <1>1, <2>1, <2>3, <2>5, <2>6, <3>3, <3>4 DEF WaitInv
      <4> QED
        BY <2>1, <3>3, <4>1, OwnQuantities
    <3>5. CASE ~(rmark[r].cand < i)
      <4>1. age[i] + MaxTx + StaleAfter <= Bound(w, i) + txAge[t]
        BY <1>1, <2>1, <2>3, <2>5, <2>6, <3>3, <3>5 DEF WaitInv
      <4> QED
        BY <2>1, <3>3, <4>1, OwnQuantities
    <3> QED
      BY <3>4, <3>5
  <2>7. CASE m.settled = Confirmed(rmark[r]) /\ m.cand = TopVisible
    <3>1. r \notin Saw(i)
      BY <2>1, <2>2, <2>3, <2>7, OwnQuantities DEF Saw, Confirmed
    <3>2. r \in Saw(i)'
      BY <1>1, <2>4, <2>5, <2>7 DEF Saw
    <3>3. Bound(w, i) + MaxTx + 3 * StaleAfter <= Bound(w, i)'
      BY <1>1, <2>0, <2>1, <3>1, <3>2, SeenAnew, OwnQuantities DEF OwnStep
    <3>4. age[i] <= Bound(w, i) + StaleAfter + silence[w]
      <4>1. age[i] <= Bound(w, i) + (IF cursor[w] + 1 \in Live THEN StaleAfter ELSE 0) + silence[w]
        BY <2>1 DEF OwnStep, LateInv, UnreadInv
      <4> QED
        BY <2>1, <4>1, OwnQuantities
    <3> QED
      BY <2>1, <3>3, <3>4, OwnQuantities
  <2> QED
    BY <2>5, <2>6, <2>7, PendingAdvance
<1> QED
  BY <1>2, <1>3, <1>4, <1>5 DEF LateInv

\* A reader that is confirmed starts its silence anew.
LEMMA ConfirmedOwn ==
    ASSUME NEW w \in Watchers, OwnStep(w), primed'[w], silence'[w] = 0,
           pc'[w] \in {"idle", "advance"},
           \A i \in Unread(w)' : i \in Unread(w) =>
               age[i] <= Bound(w, i)' + (IF cursor'[w] + 1 \in Live THEN StaleAfter ELSE 0)
    PROVE  LateInv(w)'
<1>1. UnreadInv(w)'
  <2> SUFFICES ASSUME NEW i \in Unread(w)'
               PROVE  age[i] <= Bound(w, i)'
                          + (IF cursor'[w] + 1 \in Live THEN StaleAfter ELSE 0) + 0
    BY OwnQuantities DEF UnreadInv, OwnStep, TableUntouched
  <2> DEFINE x == IF cursor'[w] + 1 \in Live THEN StaleAfter ELSE 0
  <2>1. i \in Unread(w) /\ i \in Ids
    BY OwnQuantities DEF Unread
  <2>2. age[i] <= Bound(w, i)' + x /\ x \in Nat
    BY <2>1, OwnQuantities
  <2> HIDE DEF x
  <2>3. age[i] <= Bound(w, i)' + x + 0
    BY <2>1, <2>2, OwnQuantities
  <2> QED
    BY <2>3 DEF x
<1>2. ColdInv(w)'
  BY DEF ColdInv
<1> QED
  BY <1>1, <1>2, NoAnswerYet DEF LateInv

\* A reader that begins has been silent for as long as any row is old.
LEMMA PrimeOwn ==
    ASSUME NEW w \in Watchers, OwnStep(w), Prime(w)
    PROVE  LateInv(w)'
<1>1. /\ ~primed[w] /\ primed'[w] /\ silence'[w] = 0 /\ pc'[w] = "idle"
  BY AfterReturn DEF Prime, OwnStep, TypeOK
<1>2. ASSUME NEW i \in Unread(w)
      PROVE  age[i] <= Bound(w, i)' + (IF cursor'[w] + 1 \in Live THEN StaleAfter ELSE 0)
  <2>1. i \in Ids /\ i \in Live
    BY OwnQuantities DEF Unread
  <2>2. age[i] <= silence[w]
    BY <1>1, <2>1 DEF OwnStep, LateInv, ColdInv
  <2> QED
    BY <2>1, <2>2, OwnQuantities
<1> QED
  BY <1>1, <1>2, ConfirmedOwn

\* A short answer that is applied leaves only rows its call was too early for.
LEMMA ShortAnswer ==
    ASSUME NEW w \in Watchers, OwnStep(w), primed[w], pc[w] = "rows",
           Cardinality(page[w]) < Limit, NEW i \in Unread(w), i \notin page[w]
    PROVE  age[i] <= Bound(w, i)'
<1>1. i \in Ids
  BY OwnQuantities DEF Unread
<1>2. pos[w] < i
  BY <1>1, OwnQuantities DEF OwnStep, LateInv, ShortInv
<1>3. age[i] + StaleAfter <= Bound(w, i) + silence[w]
  BY <1>2 DEF OwnStep, LateInv, EarlyInv, Early
<1> QED
  BY <1>1, <1>3, OwnQuantities

\* An empty answer leaves only rows its call was too early for.
LEMMA NothingOwn ==
    ASSUME NEW w \in Watchers, OwnStep(w), ReadNothing(w)
    PROVE  LateInv(w)'
<1>1. /\ primed[w] /\ primed'[w] /\ silence'[w] = 0 /\ pc'[w] = "idle"
      /\ pc[w] = "rows" /\ page[w] = {}
  BY AfterReturn DEF ReadNothing, OwnStep, TypeOK
<1>2. Cardinality(page[w]) < Limit
  BY <1>1, FS_EmptySet, OwnQuantities
<1>3. ASSUME NEW i \in Unread(w)
      PROVE  age[i] <= Bound(w, i)' + (IF cursor'[w] + 1 \in Live THEN StaleAfter ELSE 0)
  <2>1. age[i] <= Bound(w, i)' /\ i \in Ids
    BY <1>1, <1>2, ShortAnswer, OwnQuantities DEF Unread
  <2> QED
    BY <2>1, OwnQuantities
<1> QED
  BY <1>1, <1>3, ConfirmedOwn

\* A full page brings the reader Limit numbers further.
LEMMA FullPageAdvances ==
    ASSUME TypeOK, NEW w \in Watchers, AnswerInv(w), pc[w] = "rows",
           Cardinality(page[w]) >= Limit
    PROVE  cursor[w] + Limit <= Max({cursor[w]} \cup page[w])
<1> DEFINE c == cursor[w]
           e == Max({c} \cup page[w])
<1>1. c \in Nat /\ c \in 0 .. MaxId /\ page[w] \in SUBSET Ids /\ Limit \in Nat
  BY Numbers, WatcherAssumption DEF TypeOK
<1>2. e \in Nat /\ c <= e /\ \A j \in {c} \cup page[w] : j <= e
  <2>1. {c} \cup page[w] \in SUBSET (0 .. MaxId) /\ {c} \cup page[w] # {}
    BY <1>1, JournalAssumption DEF Ids
  <2> QED
    BY <1>1, <2>1, MaxOfPositions, JournalAssumption
<1>3. page[w] \in SUBSET (c + 1 .. e)
  <2>1. \A j \in page[w] : c < j /\ j \in Nat
    BY <1>1, IdsAreNumbers DEF AnswerInv
  <2> HIDE DEF c, e
  <2>2. \A j \in page[w] : j \in c + 1 .. e
    <3> SUFFICES ASSUME NEW j \in page[w] PROVE j \in c + 1 .. e
      OBVIOUS
    <3>1. c < j /\ j \in Nat /\ j <= e
      BY <1>2, <2>1
    <3> QED
      BY <1>1, <1>2, <3>1
  <2> QED
    BY <2>2
<1> HIDE DEF c, e
<1>4. /\ IsFiniteSet(c + 1 .. e)
      /\ Cardinality(c + 1 .. e) = IF c + 1 > e THEN 0 ELSE e - (c + 1) + 1
  BY <1>1, <1>2, FS_Interval
<1>5. Cardinality(c + 1 .. e) = e - c
  BY <1>1, <1>2, <1>4
<1>6. IsFiniteSet(page[w]) /\ Cardinality(page[w]) <= e - c
  BY <1>3, <1>4, <1>5, FS_Subset
<1>7. Cardinality(page[w]) \in Nat
  BY <1>6, FS_CardinalityType
<1>8. c + Limit <= e
  BY <1>1, <1>2, <1>6, <1>7
<1> QED
  BY <1>8 DEF c, e

\* A page leaves rows its call was too early for, or brings the reader a page further.
LEMMA ChangesOwn ==
    ASSUME NEW w \in Watchers, OwnStep(w), ReadChanges(w), BacklogIsPaged
    PROVE  LateInv(w)'
<1>1. /\ primed[w] /\ primed'[w] /\ silence'[w] = 0 /\ pc'[w] \in {"idle", "advance"}
      /\ pc[w] = "rows" /\ cursor'[w] = Max({cursor[w]} \cup page[w])
  BY AfterReturn, AfterCall DEF ReadChanges, OwnStep, TypeOK
<1>2. IsFiniteSet(page[w]) /\ Cardinality(page[w]) \in Nat
  BY IdsAreNumbers, FS_Subset, FS_CardinalityType DEF OwnStep, TypeOK
<1>3. ASSUME NEW i \in Unread(w), i \in Unread(w)'
      PROVE  age[i] <= Bound(w, i)' + (IF cursor'[w] + 1 \in Live THEN StaleAfter ELSE 0)
  <2>1. i \in Ids /\ i \in Live /\ cursor'[w] < i
    BY <1>3, OwnQuantities DEF Unread
  <2>2. CASE Cardinality(page[w]) < Limit
    <3>1. i \notin page[w]
      <4>1. {cursor[w]} \cup page[w] \in SUBSET (0 .. MaxId)
        BY JournalAssumption DEF OwnStep, TypeOK, Ids
      <4>2. \A j \in page[w] : j <= cursor'[w]
        BY <1>1, <4>1, MaxOfPositions
      <4> QED
        BY <2>1, <4>2, OwnQuantities
    <3>2. age[i] <= Bound(w, i)'
      BY <1>1, <2>2, <3>1, ShortAnswer
    <3> QED
      BY <2>1, <3>2, OwnQuantities
  <2>3. CASE Cardinality(page[w]) >= Limit
    <3>1. cursor[w] + Limit <= cursor'[w]
      BY <1>1, <2>3, FullPageAdvances DEF OwnStep, WatcherInv
    <3> DEFINE n == Cardinality(Saw(i))
               k == Cardinality(Saw(i)')
               p == Way(cursor[w], i)
               q == Way(cursor'[w], i)
    <3>2. p \in Nat /\ q \in Nat /\ p + 1 <= q
      <4>1. i <= cursor[w] + Pages * Limit
        BY <1>1, <2>1 DEF BacklogIsPaged
      <4>2. Sizes
        BY SlowestTransaction DEF OwnStep
      <4> QED
        BY <2>1, <3>1, <4>1, <4>2, WayGrows, OwnQuantities
    <3>3. n \in Nat /\ k \in Nat /\ n <= k
      <4>1. Sizes /\ Saw(i)' \in SUBSET Replicas /\ Saw(i) \subseteq Saw(i)'
        BY <2>1, SlowestTransaction, BoundGrows, OwnQuantities DEF OwnStep, Saw
      <4> QED
        BY <4>1, FS_Subset, FS_CardinalityType DEF Sizes
    <3>4. Bound(w, i) = Delay(n, p) /\ Bound(w, i)' = Delay(k, q)
      BY DEF Bound
    <3> HIDE DEF n, k, p, q
    <3>5. Delay(n, p + 1) = Delay(n, p) + 2 * StaleAfter /\ Delay(n, p + 1) <= Delay(k, q)
      <4>1. p + 1 \in Nat
        BY <3>2
      <4> QED
        BY <3>2, <3>3, <4>1, DelayGrows
    <3>6. age[i] <= Bound(w, i) + StaleAfter + silence[w]
      <4>1. age[i] <= Bound(w, i) + (IF cursor[w] + 1 \in Live THEN StaleAfter ELSE 0) + silence[w]
        BY <1>1 DEF OwnStep, LateInv, UnreadInv
      <4> QED
        BY <2>1, <4>1, OwnQuantities
    <3> QED
      BY <2>1, <3>4, <3>5, <3>6, OwnQuantities
  <2> QED
    BY <1>2, <2>2, <2>3, OwnQuantities
<1> QED
  BY <1>1, <1>3, ConfirmedOwn

\* A reader that is sent to the floor sits just below a row that is kept.
LEMMA LostOwn ==
    ASSUME NEW w \in Watchers, OwnStep(w), PositionLost(w)
    PROVE  LateInv(w)'
<1>1. /\ pc[w] = "lost" /\ primed'[w] /\ silence'[w] = 0 /\ pc'[w] = "idle"
      /\ cursor'[w] = pos[w]
  BY AfterReturn DEF PositionLost, OwnStep, TypeOK
<1>2. primed[w]
  BY <1>1 DEF OwnStep, LateInv, ColdInv
<1>3. ASSUME NEW i \in Unread(w), i \in Unread(w)'
      PROVE  age[i] <= Bound(w, i)' + (IF cursor'[w] + 1 \in Live THEN StaleAfter ELSE 0)
  <2>1. i \in Ids /\ pos[w] < i
    BY <1>1, <1>3, OwnQuantities DEF Unread
  <2>2. CASE pos[w] + 1 \in Live /\ cursor[w] + 1 \notin Live
    <3>1. age[i] <= Bound(w, i) + (IF cursor[w] + 1 \in Live THEN StaleAfter ELSE 0) + silence[w]
      BY <1>2 DEF OwnStep, LateInv, UnreadInv
    <3>2. age[i] <= Bound(w, i) + silence[w]
      BY <2>1, <2>2, <3>1, OwnQuantities
    <3> QED
      BY <1>1, <2>1, <2>2, <3>2, OwnQuantities
  <2>3. CASE age[i] + StaleAfter <= Bound(w, i) + silence[w]
    BY <2>1, <2>3, OwnQuantities
  <2> QED
    BY <1>1, <2>1, <2>2, <2>3 DEF OwnStep, LateInv, RefusedInv
<1> QED
  BY <1>1, <1>3, ConfirmedOwn

\* A step takes no part in another reader's call.
LEMMA OthersAreQuiet ==
    ASSUME TypeOK, NEW w \in Watchers, OwnerStep(w) \/ EdgeStep(w),
           NEW v \in Watchers, v # w
    PROVE  Quiet(v) /\ silence'[v] = silence[v]
<1>1. /\ pc'[v] = pc[v] /\ pos'[v] = pos[v] /\ page'[v] = page[v]
      /\ cursor'[v] = cursor[v] /\ primed'[v] = primed[v] /\ silence'[v] = silence[v]
  <2> USE DEF TypeOK, Return, Call, edgeVars
  <2>1. CASE PollBoundary(w)
    BY <2>1 DEF PollBoundary
  <2>2. CASE PollPage(w)
    BY <2>2 DEF PollPage
  <2>3. CASE PollFloor(w)
    BY <2>3 DEF PollFloor
  <2>4. CASE PollStart(w) \/ FailClosed(w)
    BY <2>4 DEF PollStart, FailClosed
  <2>5. CASE Prime(w)
    BY <2>5 DEF Prime
  <2>6. CASE ReadNothing(w)
    BY <2>6 DEF ReadNothing
  <2>7. CASE ReadChanges(w)
    BY <2>7 DEF ReadChanges
  <2>8. CASE PositionLost(w)
    BY <2>8 DEF PositionLost
  <2> QED
    BY <2>1, <2>2, <2>3, <2>4, <2>5, <2>6, <2>7, <2>8 DEF OwnerStep, EdgeStep
<1> QED
  BY <1>1 DEF Quiet

\* Writers, sweeps, streams and time take no part in a reader's call.
LEMMA BackgroundIsQuiet ==
    ASSUME BackgroundStep, NEW v \in Watchers
    PROVE  Quiet(v)
  BY DEF BackgroundStep, WriterStep, SweepStep, WriterBegins, WriterEmits, WriterCommits,
         WriterAborts, SweepAdvances, SweepDeletes, OpenStream, TimelyTick, Tick, edgeVars,
         callVars, vars, Quiet

\* The readers' part of the invariant.
LEMMA LateStep ==
    ASSUME KnownInv, TimelyInv, RetentionCovers, BacklogIsPaged, [TimelyNext]_vars
    PROVE  SweptAreRead' /\ \A v \in Watchers : LateInv(v)'
<1>0. /\ TypeOK /\ TypeOK' /\ RowsInv /\ StatusStep /\ Sizes
      /\ \A v \in Watchers : WatcherInv(v) /\ LostInv(v) /\ LateInv(v)
      /\ OpenInv /\ WaitInv /\ SweptAreRead
  BY TimelySteps, TypeStep, RowsStep, SlowestTransaction
  DEF KnownInv, IInv, WatchersInv, WatcherInv, TimelyInv
<1>1. ReadersAdvance /\ MarksAdvance
  BY <1>0, NoReaderGoesBack, ObservationsOnly
<1>2. SweptAreRead'
  BY <1>0, <1>1, SweptStaysRead DEF ReadersAdvance
<1>3. \A v \in Watchers : \A i \in Unread(v) : i \in Live'
  BY <1>0, UnreadStays
<1>4. CASE BackgroundStep
  <2>1. PICK d \in {0, 1} : TimePasses(d)
    BY <1>0, <1>4, BackgroundTime
  <2>2. ASSUME NEW v \in Watchers PROVE LateInv(v)'
    <3>1. AgesPass(d) /\ silence'[v] = silence[v] + d /\ Quiet(v)
      BY <1>4, <2>1, BackgroundIsQuiet DEF TimePasses
    <3> QED
      BY <1>0, <1>1, <1>2, <1>3, <3>1, LateKept
  <2> QED
    BY <1>2, <2>2
<1>5. ASSUME NEW w \in Watchers, OwnerStep(w) \/ EdgeStep(w), NEW v \in Watchers
      PROVE  LateInv(v)'
  <2>1. TableUntouched
    BY <1>5, ReaderLeavesTheTable
  <2>2. CASE v = w
    <3>1. OwnStep(w)
      BY <1>0, <1>1, <2>1 DEF OwnStep
    <3> QED
      BY <1>0, <1>5, <2>2, <3>1, BoundaryOwn, PageOwn, FloorOwn, CallRestsOwn, PrimeOwn,
         NothingOwn, ChangesOwn, LostOwn DEF OwnerStep, EdgeStep
  <2>3. CASE v # w
    <3>1. Quiet(v) /\ silence'[v] = silence[v]
      BY <1>0, <1>5, <2>3, OthersAreQuiet
    <3>2. silence'[v] = silence[v] + 0
      BY <1>0, <3>1, Quantities
    <3>3. AgesPass(0)
      <4>1. \A t \in Writers : txAge[t] \in Nat
        BY <1>0, Quantities
      <4>2. Live' = Live /\ \A i \in Live : age[i] \in Nat
        BY <1>0, <2>1, Quantities DEF TableUntouched, Live
      <4> QED
        BY <1>0, <2>1, <4>1, <4>2 DEF AgesPass, OpenInv, TableUntouched
    <3> QED
      BY <1>0, <1>1, <1>2, <1>3, <3>1, <3>2, <3>3, LateKept
  <2> QED
    BY <2>2, <2>3
<1> QED
  BY <1>2, <1>4, <1>5, ReaderOrBackground

\* The system starts with nothing late.
LEMMA TimelyInit == Init => TimelyInv /\ KnownInv
<1> SUFFICES ASSUME Init PROVE TimelyInv /\ KnownInv
  OBVIOUS
<1>1. IInv /\ TypeOK
  BY InvInit DEF IInv
<1>2. Live = {} /\ Swept = {} /\ InFlight = {}
  <2>1. nextId = 1 /\ \A i \in Ids : status[i] = "none" /\ ~(i < 1)
    BY IdsAreNumbers DEF Init, JournalInit, Ids
  <2> QED
    BY <2>1 DEF Live, Swept, InFlight
<1>3. OpenInv
  BY <1>2 DEF OpenInv, Init, JournalInit, NewWatermark
<1>4. WaitInv /\ SweptAreRead
  BY <1>2 DEF WaitInv, SweptAreRead
<1>5. \A w \in Watchers : LateInv(w) /\ LostInv(w)
  BY <1>2 DEF LateInv, ColdInv, UnreadInv, EarlyInv, RefusedInv, ShortInv, LostInv, Unread,
              Init, JournalInit
<1> QED
  BY <1>1, <1>3, <1>4, <1>5 DEF TimelyInv, KnownInv

\* While no reader is further behind, every step of readers confirmed in time keeps it.
LEMMA TimelyInvStep ==
    ASSUME RetentionCovers
    PROVE  KnownInv /\ TimelyInv /\ BacklogIsPaged /\ [TimelyNext]_vars => TimelyInv' /\ KnownInv'
<1> SUFFICES ASSUME KnownInv, TimelyInv, BacklogIsPaged, [TimelyNext]_vars
             PROVE  TimelyInv' /\ KnownInv'
  OBVIOUS
<1>0. [Next]_vars
  BY TimelySteps
<1>1. /\ TypeOK /\ TypeOK' /\ RowsInv /\ StatusStep
      /\ \A v \in Watchers : WatcherInv(v) /\ LostInv(v) /\ LateInv(v)
      /\ OpenInv /\ WaitInv
  BY <1>0, TypeStep, RowsStep DEF KnownInv, IInv, WatchersInv, WatcherInv, TimelyInv
<1>2. KnownInv'
  BY <1>0, InvStep, LostStep DEF KnownInv
<1>3. OpenInv' /\ WaitInv'
  BY <1>1, OpenStep, WaitStep
<1> QED
  BY <1>2, <1>3, LateStep DEF TimelyInv

\* A retention that covers the readers' way to a row is long enough: a reader that is
\* confirmed within StaleAfter and is at most Pages pages behind has read every row
\* before a sweep takes it (subjectchange.JournalRetention, StaleAfter;
\* subject_change_retention.go).
THEOREM TimelyReaders ==
    ASSUME RetentionCovers
    PROVE  TimelySpec /\ []BacklogIsPaged => []TimelyReaderMissesNothing
<1>1. Init => TimelyInv /\ KnownInv
  BY TimelyInit
<1>2. KnownInv /\ TimelyInv /\ BacklogIsPaged /\ [TimelyNext]_vars => TimelyInv' /\ KnownInv'
  BY TimelyInvStep
<1>3. TimelyInv => TimelyReaderMissesNothing
  BY DEF TimelyInv, SweptAreRead, TimelyReaderMissesNothing
<1> QED
  BY <1>1, <1>2, <1>3, PTL DEF TimelySpec

\* A journal that has handed out no more numbers than that needs no such bound on its
\* readers.
THEOREM TimelyReadersOfAShortJournal ==
    ASSUME RetentionCovers, MaxId <= Pages * Limit
    PROVE  TimelySpec => []TimelyReaderMissesNothing
<1>1. TypeOK => BacklogIsPaged
  <2> SUFFICES ASSUME TypeOK, NEW w \in Watchers, NEW i \in Live
               PROVE  i <= cursor[w] + Pages * Limit
    BY DEF BacklogIsPaged
  <2>1. Pages \in Nat /\ Limit \in Nat
    BY WatcherAssumption DEF RetentionCovers, Sizes
  <2>2. Pages * Limit \in Nat
    BY <2>1, Product
  <2>3. i \in Nat /\ i <= MaxId /\ MaxId \in Nat /\ cursor[w] \in Nat
    BY JournalAssumption DEF Live, Ids, TypeOK
  <2> QED
    BY <2>2, <2>3
<1>2. Init => TypeOK
  BY TypeInit
<1>3. TypeOK /\ [TimelyNext]_vars => TypeOK'
  BY TimelySteps, TypeStep
<1> QED
  BY <1>1, <1>2, <1>3, TimelyReaders, PTL DEF TimelySpec
=============================================================================
