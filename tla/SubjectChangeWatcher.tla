------------------------ MODULE SubjectChangeWatcher ------------------------
(***************************************************************************)
(* The reader's side: pkg/subjectchange, run by every edge replica, over   *)
(* the owner's PollSubjectChanges.  A watcher keeps a cursor into the      *)
(* journal, flushes its replica's decision cache when it reads a change,   *)
(* and closes the open streams of the subjects the change names.           *)
(*                                                                         *)
(* One poll is an RPC to some owner replica, which asks the database three *)
(* times (boundary, page, floor); everything else may happen in between.   *)
(***************************************************************************)
EXTENDS SubjectChangeJournal

CONSTANTS
    Watchers,    \* edge replicas
    Limit,       \* pollBatchLimit: rows of one page
    MaxPasses,   \* maxPassesPerTick
    StaleAfter   \* how long an unconfirmed read is tolerated

ASSUME WatcherAssumption ==
    /\ Limit \in Nat \ {0}
    /\ MaxPasses \in Nat \ {0}
    /\ StaleAfter \in Nat
    /\ StaleAfter <= Grace

VARIABLES
    pc,          \* watcher -> "idle", a step of the RPC ("advance", "page",
                 \* "floor") or the answer it got ("rows", "lost", "error")
    rep,         \* watcher -> the owner replica the call went to
    pass,        \* watcher -> number of the call within this tick
    pos,         \* watcher -> boundary the call works under, then the position
                 \* it answers with: head of "rows", floor of "lost"
    page,        \* watcher -> rows of the page
    cursor,
    primed,
    silence,     \* watcher -> time since lastRead
    open,        \* watcher -> subjects with an open stream on this replica
    seat,        \* history: the position the cursor was last adopted at
    stale,       \* history: changes committed since the cache was last flushed
    due          \* history: changes a stream open now has not been closed for

callVars == <<pc, rep, pass, pos, page>>
edgeVars == <<cursor, primed, silence, open, seat, stale, due>>
vars == <<journalVars, callVars, edgeVars>>

-----------------------------------------------------------------------------
Init ==
    /\ JournalInit
    /\ pc = [w \in Watchers |-> "idle"]
    /\ rep \in [Watchers -> Replicas]
    /\ pass = [w \in Watchers |-> 1]
    /\ pos = [w \in Watchers |-> 0]
    /\ page = [w \in Watchers |-> {}]
    /\ cursor = [w \in Watchers |-> 0]
    /\ primed = [w \in Watchers |-> FALSE]
    /\ silence = [w \in Watchers |-> 0]
    /\ open = [w \in Watchers |-> {}]
    /\ seat = [w \in Watchers |-> 0]
    /\ stale = [w \in Watchers |-> {}]
    /\ due = [w \in Watchers |-> {}]

(* Writers.  A commit makes the verdicts cached for the subject wrong, and  *)
(* leaves the subject's open streams running on rights that changed.        *)

WriterBegins(t) == Begin(t) /\ UNCHANGED <<callVars, edgeVars>>

WriterEmits(t) == EmitSubjectChangeEvent(t) /\ UNCHANGED <<callVars, edgeVars>>

WriterCommits(t) ==
    /\ Commit(t)
    /\ stale' = [w \in Watchers |-> stale[w] \cup rows[t]]
    /\ due' = [w \in Watchers |-> due[w] \cup {i \in rows[t] : subj[i] \in open[w]}]
    /\ UNCHANGED <<callVars, cursor, primed, silence, open, seat>>

WriterAborts(t) == Rollback(t) /\ UNCHANGED <<callVars, edgeVars>>

SweepAdvances(r) == SweepObserve(r) /\ UNCHANGED <<callVars, edgeVars>>

SweepDeletes(r) == SweepDelete(r) /\ UNCHANGED <<callVars, edgeVars>>

\* Calls the replica was serving break off.
RestartOwner(r) ==
    /\ NewReplica(r)
    /\ LET broken == {w \in Watchers : rep[w] = r /\ pc[w] \in {"advance", "page", "floor"}}
       IN  /\ pc' = [w \in Watchers |-> IF w \in broken THEN "error" ELSE pc[w]]
           /\ pos' = [w \in Watchers |-> IF w \in broken THEN 0 ELSE pos[w]]
           /\ page' = [w \in Watchers |-> IF w \in broken THEN {} ELSE page[w]]
    /\ UNCHANGED <<rep, pass, edgeVars>>

Tick ==
    /\ JournalTick
    /\ silence' = [w \in Watchers |-> Older(silence[w], StaleAfter)]
    /\ UNCHANGED <<callVars, cursor, primed, open, seat, stale, due>>

-----------------------------------------------------------------------------
(* PollSubjectChanges, on the replica the call reached. *)

\* Boundary first.  No boundary is an error, not zero; nothing above the caller's
\* cursor is an empty page, and the floor is not asked.
PollBoundary(w) ==
    LET m == Advance(rmark[rep[w]])
    IN  /\ pc[w] = "advance"
        /\ rmark' = [rmark EXCEPT ![rep[w]] = m]
        /\ pc' = [pc EXCEPT ![w] = IF ~m.established THEN "error"
                                   ELSE IF m.settled <= cursor[w] THEN "rows" ELSE "page"]
        /\ pos' = [pos EXCEPT ![w] = IF ~m.established THEN 0
                                     ELSE IF m.settled <= cursor[w] THEN cursor[w]
                                     ELSE m.settled]
        /\ page' = [page EXCEPT ![w] = {}]
        /\ UNCHANGED <<status, subj, age, nextId, inTx, txAge, rows, smark, sweeping,
                       rep, pass, edgeVars>>

PollPage(w) ==
    /\ pc[w] = "page"
    /\ page' = [page EXCEPT ![w] =
                  FirstRows({i \in Live : cursor[w] < i /\ i <= pos[w]}, Limit)]
    /\ pc' = [pc EXCEPT ![w] = "floor"]
    /\ UNCHANGED <<journalVars, rep, pass, pos, edgeVars>>

\* Mutant: off by one.
LostPositionLate(w, floor) == cursor[w] > 0 /\ cursor[w] + 1 < floor

LostPosition(w, floor) == cursor[w] > 0 /\ cursor[w] < floor

\* The floor after the page; a cursor below it has lost rows.
PollFloor(w) ==
    LET floor == ObserveFloor(rmark[rep[w]])
        lost == LostPosition(w, floor)
        full == Cardinality(page[w]) >= Limit
    IN  /\ pc[w] = "floor"
        /\ pc' = [pc EXCEPT ![w] = IF lost THEN "lost" ELSE "rows"]
        /\ pos' = [pos EXCEPT ![w] = IF lost THEN floor
                                     ELSE IF full THEN Max(page[w]) ELSE pos[w]]
        /\ UNCHANGED <<journalVars, rep, pass, page, edgeVars>>

-----------------------------------------------------------------------------
(* Watcher.Poll: one tick is up to MaxPasses calls, each to any replica. *)

Call(w, n) ==
    /\ \E r \in Replicas : rep' = [rep EXCEPT ![w] = r]
    /\ pc' = [pc EXCEPT ![w] = "advance"]
    /\ pass' = [pass EXCEPT ![w] = n]
    /\ pos' = [pos EXCEPT ![w] = 0]
    /\ page' = [page EXCEPT ![w] = {}]

Return(w) ==
    /\ pc' = [pc EXCEPT ![w] = "idle"]
    /\ pass' = [pass EXCEPT ![w] = 1]
    /\ pos' = [pos EXCEPT ![w] = 0]
    /\ page' = [page EXCEPT ![w] = {}]
    /\ UNCHANGED rep

PollStart(w) ==
    /\ pc[w] = "idle"
    /\ Call(w, 1)
    /\ UNCHANGED <<journalVars, edgeVars>>

\* The first successful call adopts the position and flushes nothing.
Prime(w) ==
    /\ pc[w] = "rows" /\ ~primed[w]
    /\ primed' = [primed EXCEPT ![w] = TRUE]
    /\ cursor' = [cursor EXCEPT ![w] = pos[w]]
    /\ seat' = [seat EXCEPT ![w] = pos[w]]
    /\ silence' = [silence EXCEPT ![w] = 0]
    /\ Return(w)
    /\ UNCHANGED <<journalVars, open, stale, due>>

ReadNothing(w) ==
    /\ pc[w] = "rows" /\ primed[w] /\ page[w] = {}
    /\ silence' = [silence EXCEPT ![w] = 0]
    /\ Return(w)
    /\ UNCHANGED <<journalVars, cursor, primed, open, seat, stale, due>>

\* Mutant: names are closed only when the backlog has been read to its end.
NamedAtTheEnd(w) ==
    IF Cardinality(page[w]) < Limit THEN {subj[i] : i \in page[w]} \ {Userset} ELSE {}

Named(w) == {subj[i] : i \in page[w]} \ {Userset}

\* Mutant: only the page's length ends the loop.
LastPassUnbounded(w) == Cardinality(page[w]) < Limit

LastPass(w) == Cardinality(page[w]) < Limit \/ pass[w] = MaxPasses

\* Mutant: rows that name nobody do not flush.
ReadChangesFlushNamed(w) ==
    /\ pc[w] = "rows" /\ primed[w] /\ page[w] # {}
    /\ silence' = [silence EXCEPT ![w] = 0]
    /\ cursor' = [cursor EXCEPT ![w] = Max({@} \cup page[w])]
    /\ stale' = [stale EXCEPT ![w] = IF Named(w) = {} THEN @ ELSE {}]
    /\ open' = [open EXCEPT ![w] = @ \ Named(w)]
    /\ due' = [due EXCEPT ![w] = {i \in @ : subj[i] \notin Named(w)}]
    /\ IF LastPass(w) THEN Return(w) ELSE Call(w, pass[w] + 1)
    /\ UNCHANGED <<journalVars, primed, seat>>

\* Cursor, flush, closeNamed; a full page asks for the next one.
ReadChanges(w) ==
    /\ pc[w] = "rows" /\ primed[w] /\ page[w] # {}
    /\ silence' = [silence EXCEPT ![w] = 0]
    /\ cursor' = [cursor EXCEPT ![w] = Max({@} \cup page[w])]
    /\ stale' = [stale EXCEPT ![w] = {}]
    /\ open' = [open EXCEPT ![w] = @ \ Named(w)]
    /\ due' = [due EXCEPT ![w] = {i \in @ : subj[i] \notin Named(w)}]
    /\ IF LastPass(w) THEN Return(w) ELSE Call(w, pass[w] + 1)
    /\ UNCHANGED <<journalVars, primed, seat>>

\* positionLost: flush everything, close everything, sit on the named position.
PositionLost(w) ==
    /\ pc[w] = "lost"
    /\ stale' = [stale EXCEPT ![w] = {}]
    /\ open' = [open EXCEPT ![w] = {}]
    /\ due' = [due EXCEPT ![w] = {}]
    /\ silence' = [silence EXCEPT ![w] = 0]
    /\ cursor' = [cursor EXCEPT ![w] = pos[w]]
    /\ seat' = [seat EXCEPT ![w] = pos[w]]
    /\ primed' = [primed EXCEPT ![w] = TRUE]
    /\ Return(w)
    /\ UNCHANGED journalVars

\* An error, or the call's deadline at any point of it: failClosed.
FailClosed(w) ==
    /\ pc[w] # "idle"
    /\ open' = [open EXCEPT ![w] = IF silence[w] < StaleAfter THEN @ ELSE {}]
    /\ due' = [due EXCEPT ![w] = IF silence[w] < StaleAfter THEN @ ELSE {}]
    /\ Return(w)
    /\ UNCHANGED <<journalVars, cursor, primed, silence, seat, stale>>

-----------------------------------------------------------------------------
\* A client opens a stream; the verdict may come from the cache.
OpenStream(w) ==
    /\ \E s \in Subjects \ open[w] :
         /\ open' = [open EXCEPT ![w] = @ \cup {s}]
         /\ due' = [due EXCEPT ![w] = @ \cup {i \in stale[w] : subj[i] = s}]
    /\ UNCHANGED <<journalVars, callVars, cursor, primed, silence, seat, stale>>

\* An edge replica starts over: empty cache, no streams, a cold reader.
RestartWatcher(w) ==
    /\ Return(w)
    /\ cursor' = [cursor EXCEPT ![w] = 0]
    /\ primed' = [primed EXCEPT ![w] = FALSE]
    /\ silence' = [silence EXCEPT ![w] = 0]
    /\ open' = [open EXCEPT ![w] = {}]
    /\ seat' = [seat EXCEPT ![w] = 0]
    /\ stale' = [stale EXCEPT ![w] = {}]
    /\ due' = [due EXCEPT ![w] = {}]
    /\ UNCHANGED journalVars

-----------------------------------------------------------------------------
WriterStep == \E t \in Writers :
    WriterBegins(t) \/ WriterEmits(t) \/ WriterCommits(t) \/ WriterAborts(t)

SweepStep == \E r \in Replicas : SweepAdvances(r) \/ SweepDeletes(r)

OwnerStep(w) == PollBoundary(w) \/ PollPage(w) \/ PollFloor(w)

EdgeStep(w) ==
    \/ PollStart(w)
    \/ Prime(w)
    \/ ReadNothing(w)
    \/ ReadChanges(w)
    \/ PositionLost(w)
    \/ FailClosed(w)

WatcherStep == \E w \in Watchers : OwnerStep(w) \/ EdgeStep(w) \/ OpenStream(w)

RestartStep ==
    \/ \E r \in Replicas : RestartOwner(r)
    \/ \E w \in Watchers : RestartWatcher(w)

Next == WriterStep \/ SweepStep \/ WatcherStep \/ RestartStep \/ Tick

Spec == Init /\ [][Next]_vars

(* The same system while no process is restarted. *)

SteadyNext == WriterStep \/ SweepStep \/ WatcherStep \/ Tick

SteadySpec == Init /\ [][SteadyNext]_vars

-----------------------------------------------------------------------------
TypeOK ==
    /\ JournalTypeOK
    /\ pc \in [Watchers -> {"idle", "advance", "page", "floor", "rows", "lost", "error"}]
    /\ rep \in [Watchers -> Replicas]
    /\ pass \in [Watchers -> 1 .. MaxPasses]
    /\ pos \in [Watchers -> 0 .. MaxId]
    /\ page \in [Watchers -> SUBSET Ids]
    /\ cursor \in [Watchers -> 0 .. MaxId]
    /\ primed \in [Watchers -> BOOLEAN]
    /\ silence \in [Watchers -> 0 .. StaleAfter]
    /\ open \in [Watchers -> SUBSET Subjects]
    /\ seat \in [Watchers -> 0 .. MaxId]
    /\ stale \in [Watchers -> SUBSET Ids]
    /\ due \in [Watchers -> SUBSET Ids]

\* An answer with a page is complete: every change committed between the caller's
\* cursor and the position answered is in it, whatever the writers and the sweep
\* did between the three statements.  subject_change_repo.go argues for this where
\* it asks the floor after the page.  A call from position 0 is exempt by the code.
AnswerHidesNothing ==
    \A w \in Watchers :
        pc[w] = "rows" /\ cursor[w] > 0 =>
            \A i \in Committed : cursor[w] < i /\ i <= pos[w] => i \in page[w]

\* No cached verdict survives a change the cursor has moved over by reading: the
\* cursor passes a row only together with the flush that row calls for.
NoChangeReadOverIsStale ==
    \A w \in Watchers :
        primed[w] /\ seat[w] > 0 =>
            \A i \in stale[w] : ~(seat[w] < i /\ i <= cursor[w])

\* No stream opened under rights that a change took away survives the cursor
\* moving over that change by reading.
NoStreamOutlivesAChangeReadOver ==
    \A w \in Watchers :
        primed[w] /\ seat[w] > 0 =>
            \A i \in due[w] : ~(seat[w] < i /\ i <= cursor[w])

\* A lost position is answered with one from which resuming loses nothing more:
\* subject_change_service.go calls EarliestResumable "the lowest position from which
\* resuming still loses nothing", so no number that may yet become a row lies at or
\* below it.
\* The code does not keep this: see section 7 of the README.
ResumingLosesNothing ==
    \A w \in Watchers : pc[w] = "lost" =>
        \A i \in Ids : status[i] = "none" => pos[w] < i

\* A place is lost only over a number that is decided and no longer there, swept or
\* rolled back: never over a row that is kept, nor over one that may still come
\* (subject_change_repo.go PollSubjectChanges, the floor after the page).
PlaceIsLostOverAGap ==
    \A w \in Watchers : pc[w] = "lost" =>
        /\ cursor[w] < pos[w]
        /\ cursor[w] + 1 \in Ids /\ status[cursor[w] + 1] \in {"swept", "void"}

\* The position is lost only with rows: watcher.go positionLost calls it "a loss of
\* revocations, not a working state", a reader that lagged behind the retention.
\* The code does not keep this: see section 7 of the README.
LostMeansLoss ==
    \A w \in Watchers : pc[w] = "lost" =>
        \E i \in Swept : cursor[w] < i /\ i <= pos[w]
=============================================================================
