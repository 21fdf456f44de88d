------------------------ MODULE SubjectChangeTimely ------------------------
(***************************************************************************)
(* What the lane promises over time: every change reaches every reader's   *)
(* cache and streams.  The readers keep polling, a call is not refused for *)
(* ever, and a transaction ends; no process is restarted.                  *)
(***************************************************************************)
EXTENDS SubjectChangeWatcher

CONSTANT MaxTx   \* the longest a writing transaction stays open, in ticks

ASSUME TimelyAssumption == MaxTx \in Nat

\* Run polls on every tick of its timer; a call may be refused or time out, but
\* not for ever, so the steps of a call are strongly fair.
ReaderFairness(w) ==
    /\ WF_vars(PollStart(w))
    /\ SF_vars(PollBoundary(w))
    /\ SF_vars(PollPage(w))
    /\ SF_vars(PollFloor(w))
    /\ SF_vars(Prime(w) \/ ReadNothing(w) \/ ReadChanges(w) \/ PositionLost(w))

Fairness ==
    /\ \A w \in Watchers : ReaderFairness(w)
    /\ \A t \in Writers : WF_vars(WriterCommits(t) \/ WriterAborts(t))

\* A reader may be blind for any time, and so may lag behind the retention.
BlindSpec == SteadySpec /\ Fairness

\* Time as it passes while every reader is confirmed within StaleAfter and no
\* transaction outlives MaxTx.
TimelyTick ==
    /\ \A w \in Watchers : silence[w] < StaleAfter
    /\ \A t \in Writers : inTx[t] => txAge[t] < MaxTx
    /\ Tick

TimelyNext == WriterStep \/ SweepStep \/ WatcherStep \/ TimelyTick

TimelySpec == Init /\ [][TimelyNext]_vars /\ Fairness

-----------------------------------------------------------------------------
\* A reader that is confirmed in time has read every row the sweep takes: the
\* retention is long enough for it, although rows settle late behind slow writers,
\* come in pages and are stamped at their transaction's start
\* (subjectchange.JournalRetention, StaleAfter; subject_change_retention.go).
TimelyReaderMissesNothing ==
    \A w \in Watchers : cursor[w] > 0 => \A i \in Swept : i <= cursor[w]

\* Every change above a reader's cursor arrives: its verdicts are flushed out of the
\* reader's cache and the streams of its subject are closed in the end
\* (watcher.go Poll, closeNamed; subject_change_repo.go PollSubjectChanges).
EveryChangeArrives ==
    \A w \in Watchers : \A i \in Ids :
        (primed[w] /\ 0 < cursor[w] /\ cursor[w] < i /\ i \in stale[w] \cup due[w])
            ~> i \notin stale[w] \cup due[w]
=============================================================================
