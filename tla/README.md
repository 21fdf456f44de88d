# kaname: a TLA+ verification project

kaname is the identity and access service of an installation: it keeps accounts, projects, users, groups, roles and
access bindings, answers "may this subject do this", logs people in, and issues and revokes credentials. Several
replicas of it run over one PostgreSQL database; other services ("edges") link its packages to check tokens and to
cache verdicts. What is hard in it is rarely inside one function: it is what two replicas do to one table, what a
process does with something it read before, and what is left when a process dies or an answer is lost.

This project models the lanes where that matters most, checks them with TLC and proves the safety of most of them
with TLAPS:

* **the subject-change lane**, by which a revocation reaches every replica's decision cache and open streams;
* **the signing-key keystore**, by which exactly one key signs tokens while keys are rotated, retired and declared
  leaked;
* **what decides about a presented token**: the cut-offs of its owner, the snapshot of the key set and the cache of
  verdicts;
* **the login lane** of a person: password, second factor, recovery, the sessions they give and the row locks under
  which they are written;
* **the OAuth ceremony**: one code, its family of tokens, and the session they hang on;
* **grants**: from access bindings through members and ledger to the fact the verdict reads.

1. Inventory · 2. The subject-change lane · 3. The keystore · 4. A presented token · 5. The login lane ·
6. The OAuth ceremony · 7. Where code and documentation disagree · 8. Grants · 9. Runs · 10. Fairness · 11. Proofs ·
12. What is not modelled · 13. Plan

## 1. Inventory

| component | state it keeps | operations | hard behaviour | what makes it correct |
|---|---|---|---|---|
| subject-change journal (`repo/kaname/pg/subject_change_repo.go`, `subject_change_retention.go`) | table `subject_change_outbox`; two in-memory watermarks per replica | write in the use-case's transaction; `PollSubjectChanges`; `SweepAgedRows` | numbers become visible out of order; poll and sweep are several statements; watermarks die with the process | a boundary covers nothing open; an answer is complete or a refusal; the sweep takes a prefix |
| subject-change watcher (`pkg/subjectchange`) | cursor, primed, time of last read; the edge's cache and streams | `Poll`, `positionLost`, `failClosed` | paging, timeouts, being re-seated, streams opened on stale verdicts | the cursor never passes a change without flush and close; every change arrives |
| signing-key keystore (`api/signingkeys`, `pg/signing_key_repo.go`) | table `token_signing_keys` | generate, activate, replace, retire, remove, compromise; sweep | races of replicas, lost answers, deaths between statements, clocks | one signer; only a leak stops signing; no valid token loses its key |
| maintenance loop, operator command (`cmd/kaname/signing*.go`) | none | start, pass, `retire`, `compromise` | each may die or be refused anywhere | as above |
| token signer (`internal/tokensigner`) | none | `Sign` | key and moment of issue read at different times | as above; `iat` after the cut-off |
| revocation cut-offs (`session_revocations`, `tokenrevocation`, `revocationpolicy`) | two tables of cut-offs per subject | log out, block, disable, remove, delete, sweep; judge an issue and a token | moment read before the commit, seconds against microseconds, two records | a token whose authority ended is refused, and not revived by the sweep |
| presented-credential reader (`internal/presentedcred`) | key-set snapshot, verdict cache | verify | snapshot older than a rotation, forced refresh under a rate | a live token is accepted within the refresh interval, a revoked one refused within the cache bound |
| access bindings and reconcile (`api/access_binding`, `seed/reconcile_worker.go`, `pg/reconcile_adapter.go`) | bindings, members, ledger, facts, reconcile outbox, resource mirror | create, revoke, expire, delete, forward pass, object pass, sweep | passes over the same rows from several replicas, reads before locks, versions of facts | a fact stands exactly while a binding grants it; members converge |
| relational verdict (`authzguard`, `authzcascade`, `authzmodel`, `service`) | none of its own | check, list | deep hierarchy, groups, delegation | verdict equals reachability |
| human session (`api/humansession`, `failurewindow`) | login methods, sessions, recovery codes, cut-off, failures | login, password change, recovery, step-up, second factor, logout | verification before the transaction, concurrent attempts, 25 transactions that lock one person's rows | no session outlives its password; a code is used once; levels are earned; nobody waits for each other |
| client assertion, token exchange (`clientassertion`, `client_token`, `exchangepace`) | used assertions, pace | exchange | replay, limits | an assertion is used once |
| OAuth ceremony (`oauth_ceremony`, `ceremonyport`) | families, codes, refresh tokens | issue, exchange, rotate, revoke | replay, two exchanges at once, the session ends in between | single use; an ended session holds nothing |
| admission (`admission`, `identityquota`) | counters | admit | counter at its limit, refill | never more than the limit |
| subscription journals (`subscriptionjournal`) | journals, positions | publish, subscribe | as the subject-change journal | completeness |
| operations (`operationresolver`) | operations table | start, finish, resolve | worker dies mid-way | an operation ends once |
| retention and sweeps (`retention`, `expiredcredsweep`, `secretsweep`) | none | periodic deletes | concurrent sweeps | only aged rows go |
| module catalog, roles, seeds | catalog tables | apply at boot | boots of several replicas | idempotent |
| CRUD use-cases, handlers, verifiers, configuration, migrations, gates | tables, or none | — | held by constraints, or computation | — |

How they interact: every use-case that takes rights away writes a subject-change row in its own transaction; the
journal is polled by the watchers linked into each edge; the retention sweeper deletes aged rows. The signer asks the
keystore for the active key at every issue; the maintenance loop of every replica and the operator's command change
the same table with conditional statements and share nothing else. Every verb that ends a session raises the person's
cut-off, revokes the families of the session and is judged by whoever presents a token of it. The forward pass of a
binding follows the transaction that created it; every change of an object queues an event that a worker of any replica
drains.

`PROJECT.json` lists all components, and under `hazards` the lines where these behaviours bite.

## 2. The subject-change lane

`SubjectChangeJournal.tla` is the owner's side. `status` says of every number whether it is still undecided, a live
row, rolled back or swept; `nextId` is the sequence, drawn at insert, while a row becomes live only at `Commit`, so
numbers appear out of order. `rmark` and `smark` are the two `subscription.Watermark`s of a replica (reading side and
sweep). The watermark itself is in an external library and is modelled from how the code uses it and what it says of
it: an observation reads the highest visible number together with the transactions still holding the table, and the
candidate is adopted when those have ended. `SweepObserve` and `SweepDelete` are the two statements of
`SweepAgedRows`; `SweepHead`, `SweepKeep`, `SweepCut` are the sub-queries of its SQL. `NewReplica` loses both marks.

`SubjectChangeWatcher.tla` extends it with the poll and the edge. `PollBoundary`, `PollPage`, `PollFloor` are the
three statements of `PollSubjectChanges`, in that order, with everything else free to happen in between. `PollStart`,
`Prime`, `ReadNothing`, `ReadChanges`, `PositionLost`, `FailClosed` are the branches of `Watcher.Poll`; `FailClosed`
can happen at any point of a call, because the call's deadline can. Three history variables carry what the properties
are about: `stale` (changes committed since the cache was flushed), `due` (changes an open stream has not been closed
for) and `seat` (the position the cursor was last adopted at, as opposed to read up to). `OpenStream` opens a stream
on a verdict that may come from the stale cache.

`SubjectChangeTimely.tla` adds fairness, and time as it passes when readers are confirmed in time. `MCSubjectChange`
names the symmetry of the writers.

Time is in ticks. A row's age counts from its transaction's start (`created_at DEFAULT now()`), and stops at
`Grace + 1`. `Grace = 0` makes the retention one tick: a row that has seen a tick is old.

## 3. The keystore

`SigningKeys.tla`. `state` and `age` are the table: `age` is the time since `created_at` until the key is retired and
since `retired_at` afterwards. Each of `Activate`, `ReplaceActive`, `Retire`, `Remove`, `Compromise` is one
transaction of `SigningKeyRepo`, with its condition; a statement whose condition fails changes no row. The partial
unique index `token_signing_keys_one_active` makes the second of two racing promotions fail, which is `HandoverFails`.

A process (`pc`) is a replica or a run of the operator's command. `Begin` → `Generate` → `HandoverLands` /
`HandoverFails` → `Abandon` is `Rotate` / `rotateReplacing`; `why` says who called it: the start (`EnsureRotates`), a
maintenance pass (`RotateIfDue`), the retire command or the replacement after a compromise. Every statement may land
with its answer lost: `Generate` then ends the hand-over with the key left published, `HandoverLands` then goes on to
`Abandon`. `Crash` may come between any two steps. `SweepRemovable` reads the set once, `RetireStranded` and
`RemoveExpired` then work through what was read.

Time stamps are taken before the statement that writes them runs, so a stamp is up to `held` ticks old (`lag`), and a
replica may judge with a clock up to `Skew` ahead. `held` is bounded by `HandoverLimit` (`handoverContext`), a signing
call by `IssueLimit` (the deadline of the request it serves). `life` is how long the last token of a key is valid.

`KeystoreAssumption` states what the limits must satisfy. `New` demands `HandoverLimit < StrandedAfter` and
`RotationLead < KeyLifetime`; that the margin also covers the clocks is what the comment on `signingKeyStrandedAfter`
says it is for. `RemovalGrace` comes from the external `tokenpolicy`, which adds a token's longest life, a consumer's
snapshot and a margin; the assumption says what the margin has to cover.

Symmetry (`MCSigningKeys`) permutes keys and replicas; here as in the other modules it is used in safety runs only.
`SignEarly` bounds the run `handover`: tokens are signed only while one of the keys has not been generated.

## 4. A presented token

`TokenRevocation.tla` has the two tables a cut-off is kept in (`revokeBefore`, judged at issuance; `minted`, judged at
presentation), owners and credentials. A writer (`OpenCutoff`, `OpenBlock`, `OpenDelete`, `OpenDisable`, `OpenRemove`)
reads its moment from the shared clock when its transaction opens and writes it when it commits, so a cut-off may
commit long after its moment. The triggers on disabling a service account and on removing a credential are part of
`CommitDisable` and `CommitRemove`. A token request is `Resolve` (client and owner read), `Weigh` (`AtIssuance`: the
rule on the cut-off) and `SignAtOnce` or, when the second of the cut-off has not passed, `AwaitSecond` and
`SignAfterWait`. Moments are in ticks and `iat` is rounded down to seconds of `TicksPerSecond` ticks, which is where
the borders are. `raced` says that a cut-off of the token's owner or credential committed while the request was under
way: the code lets either outcome happen then.

`StalenessWindow.tla` is an abstract specification: a verifier that answers from a copy grants a subject only if it was
valid less than `Window` before the caller asked. `KeySnapshot.tla` (the key-set snapshot of the reader of presented
tokens: TTL, forced refresh for an unknown key at a limited rate, registry read outside the lock) and
`VerdictCache.tla` (the cache of "not revoked" verdicts, pruned at its limit) both implement it: `KeysAreRecent` and
`VerdictsAreRecent` are `INSTANCE StalenessWindow WITH` a refinement mapping of keys and tokens to subjects and of
look-ups to calls. That they hold with look-ups overtaking each other is due to the moment a copy is dated by: it is
read before the registry or the authority is asked. `RotationIsSeen` is stated of the step in which a look-up ends, not
of the states after it: with three look-ups, one that began earlier may write an earlier `lastForced` afterwards.

A credential can only be issued to an owner whose row is still there (the foreign key), so `CommitIssue` is refused
when the owner is gone.

`MCPresentedToken.tla` runs the three. They share no variable, and each property is about one of them, so a behaviour
chooses one part at the start and leaves the others as they began: no property can tell this from running all three.
`PresentedTokenProofs.tla` has the proofs of the cut-offs and of the cache; the snapshot is instantiated with its own.

## 5. The login lane

`HumanSession.tla` is one person's lane. A call (`req`) goes through `Admit` (the attempt gate, and the session the
bearer names), `Verify` (password and code against rows read without a lock), `ReadBeforeWrite` (the shared moment and
what is enrolled), and the one writing transaction of its verb: `LoginIssue`, `ChangePassword`, `CompleteRecovery`,
`StepUp`, `Confirm`, `Remove`, `Regenerate`, `ForceLogout`. What a transaction judges again under its lock it judges
again here (`MaterialStands`, `AfterCutoff`, `Settles`, `SameEnrolment`, whether the session is live), and what it does
not judge again may be stale. `Abandon` may end a call anywhere before its commit. Passwords are generations, codes are
a secret and a time step; `gen` and `spent` are history.

A behaviour is about one *scene* (`MCHumanSession`): `Password` (login, change, recovery, forced logout, logout, ending
own sessions), `Factor` (codes of two time steps against an enrolled factor that can be removed or reset) and
`Enrolment` (secrets and sets of backup codes that replace each other). The properties are the same in all.

A login remembers the least moment any of the person's logins had (`RememberFirst`), and a logout or a change of the
password raises the person's cut-off to just below it (`RevocationMoment`). Moments are read before the transaction, so
the first to commit need not be the earliest: `OnlyAnAdministratorCutsOff` is what depends on taking the least.

What counts as an attempt follows the verdict (`CountsAsAttempt`: a backup code whose set is gone does not). The failure
is recorded by a transaction after the refused one, and a step-up whose recording got no answer records again
(`MostRecords`), which is why `OvershootIsBounded` allows two for each call where step-ups take part.
`WindowPasses` lets any number of recorded failures age out of the window.

`PersonLocks.tla` looks at the same transactions, and at the others that write a person's rows (block, delete, the
ceremony's), as row locks in PostgreSQL's four strengths: `Program` gives the locks of each of the 25, each with the
number of the statement that takes it, and `Conflict` the table of strengths. The locks of one statement are taken in
any order, since the code gives none. `NoMutualWait` says that of any set of transactions one can go on.

## 6. The OAuth ceremony

`OAuthCeremony.tla` has one code, the family issued from it and its session. The engine of the foundation is external;
the service's vaults are the statements here: `FetchCode`, `ConsumeCode`, `IssueForCode`, `CommitPair` or `Settle` for
an exchange, `FetchRefresh`, `IssueForRefresh`, `RotateRefresh`, `StoreSuccessor` for a rotation, `RevokeReplayed` for
what follows from a replay. Locks kept to the end of a transaction are derived from the phases (`FamilyHolders`,
`CodeHolders`, `RefreshHolders`, `FamilyLocked`). `GrantBegin`/`GrantCommit` and `EndBegin`/`EndSweep`/`EndCommit` are
the issue of the code and the end of the session, which share the session's row; `CutOff`, `ExpireCode`,
`ExpireRefresh`, `Abandon`, `GrantAbort` and `EndAbort` may come at any time.
`StoreSuccessor` does not judge the expiry again although its statement does: the statement compares with `now()`, the
start of the transaction, as the lock before it did, so the answer is the same.

## 7. Where code and documentation disagree

Two runs expect a violation and are findings of `PROJECT.json`:

1. *A blind reader* (`blind`, `EveryChangeArrives`). The retention comment promises a reader that lags behind the
   retention an explicit refusal. The sweep and the reading side keep separate watermarks; when the sweep empties the
   journal before the reading side has observed the rows, the reading side's boundary stays at the reader's cursor and
   the reader is answered with empty pages for ever.
2. *The replaced password* (`login_rewrite`, `ReplacedPasswordStaysReplaced`). A login that finds the stored hash below
   the declared parameters rewrites it after its session is issued, with a statement that replaces whatever is stored.
   If the password was changed in between, the old one is back.

The others were met while modelling. The formula that states the documentation's claim stands in the module, marked as
not kept, and TLC refutes it on the instance named; no run repeats it.

| what | formula | instance that shows it |
|---|---|---|
| `EarliestResumable` is called the lowest position from which resuming loses nothing; it is taken from visible rows, and a writer with a lower number may be in flight | `ResumingLosesNothing` (`SubjectChangeWatcher`) | 2 writers, 4 numbers, `Grace` 0, page and batch of 4, no restarts, streams or aborts (3 numbers are too few) |
| a lost position is called "a loss of revocations, not a working state", and `StaleAfter` is held below the retention so that a healthy reader is not told so (`watcher.go`); a reader that lags behind nothing is told so when its last row has been swept, the next number was rolled back and a row follows, and closes every stream | `LostMeansLoss` (`SubjectChangeWatcher`) | `SubjectChangeTimely`: 1 writer, 3 numbers, page and batch of 3, retention 4, no streams (2 numbers are too few) |
| `EnsureSigningKey` documents that a refused read is not replaced by generation; any error of its second read leads to `Rotate` | `StartGeneratesOnlyWithoutASigner` (`SigningKeys`) | that of `handover` |
| `tokenrevocation/rule.go` says no lane issues a token at or before a standing cut-off; for a service account disabled and enabled within a second it is done | `NoTokenIsBornRevoked` (`TokenRevocation`) | that of `presented` |
| `reader.go` says an unreadable registry is not "key not found"; within the interval after a failed forced refresh it is | `UnreadableIsNotUnknown` (`KeySnapshot`) | that of `presented` |
| the session of a recovery is said to be later than the cut-off; it is later than its own, not than one a forced logout wrote with a later moment | `SessionIsBornServable` (`HumanSession`) | scene `Password` |
| the failure counter is said to be reset only by a login completed to all enrolled factors; what is enrolled is read before the transaction | `ResetNeedsACompletedLogin` (`HumanSession`) | scene with login and confirmation, limit 2 |
| the level is said to be recomputed from the methods; two concurrent step-ups leave methods worth level 2 at level 1 | `LevelIsWhatWasPresented` (`HumanSession`) | scene with recovery, login and step-up, factor enrolled |
| a code is said to pass exactly once; one verified against a secret that is then removed with it passes again against a new secret confirmed at a lower step | `EvidenceIsSpentOnce` (`HumanSession`) | scene with login, removal and confirmation, two time steps, two secrets |
| an expired record is said not to cause a revocation; one that expires between fetch and write is called a replay | `ReplayIsOfTheUsed` without its exemption (`OAuthCeremony`) | that of `ceremony` |
| the order of locks is said to exclude waits; a logout and a password change of one session, and a regeneration paid with TOTP and a removal paid with a backup code, wait for each other | `NoMutualWait` (`PersonLocks`) | `Crossings` of either pair; no other ring exists (`RingsNeedACrossing`) |
| the queue is said to need no order because the last pass sees what any would; the labels are read before the locks | `RestIsSettled` (`GrantFacts`) | one binding, two passes, no sweep |
| forward and full passes are said never to wait for each other; a forward pass over two bindings and an object pass do | `PassesNeverWait` (`GrantFacts`) | two bindings, two passes, no grant at the start |
| a delete row is said to take everything it saw; its stamp is older than the lock under which it is folded | `FactsAreGrants` with `SlowFold` (`GrantFacts`) | two bindings, two passes, revocations |

## 8. Grants

`GrantFacts.tla` has one object, label bindings of one subject that grant the same tuple on it, and every transaction
that touches members (`member`), the ledger of emitted tuples (`ledger`) and the fact (`fact`): the object pass of the
reconcile queue, the binding pass of the sweep, the forward passes after a registration and after a creation, the three
deactivations and the withdrawal of the object. Each statement is a step (`Peek`, `ReadExisting`, `ReadMatching`,
`ReadObject`, `TakeAdvisory`, `LockRows`, `ShareRows`, `LockObject`, `Compare`, `Flush`, `Write`, `Commit`, ...); what a
transaction has written is in its own record until `Commit`, and its locks are in `held`; the statements it has still to
issue are the set `todo`, issued stage by stage (member, fact, ledger; or ledger, member). `Drain` claims an event and
`MarkSent` removes it in a statement of its own, so two replicas may handle one event and a crash repeats it. `Victim`
is the database breaking a ring of waits, `Abort` a crash or a timeout.

Whether a delete row takes the fact depends on versions: `timeline` keeps the starts of open transactions, the stamps
of delete rows and the version of the fact in their order, and nothing else of time. `Erases` is the folding function of
the migration, and `StampedLater` the comparison of the two versions. `SlowFold` lets other rows of the same statement hold up the folding of this one (section 7).

Scenes (`MCGrantFacts`): `Race`, three transactions that create, revoke, expire and delete; `Queue`, the object's changes
with queue and sweep; `Loss`, a pass lost at any statement, with revocations, a change and the sweep.

## 9. Runs

| run | instance | shows |
|---|---|---|
| `reading` | 2 writers, 2 numbers, 1 owner replica, 1 reader with 1 subject's stream, restarts of both sides, page of 1, 2 pages per tick, retention 1 | `TypeOK`, `NothingOpenBelowABoundary`, `SweepTakesAPrefix`, `AnswerHidesNothing`, `NoChangeReadOverIsStale`, `NoStreamOutlivesAChangeReadOver` |
| `arrival` | 1 writer, 2 numbers, readers confirmed within one tick, retention 3 | `TimelyReaderMissesNothing`, `EveryChangeArrives` |
| `handover` | 3 keys, 2 replicas, 1 operator, 1 signing call (`SignEarly`) | `TypeOK`, `OneSigner`, `OnlyALeakStopsSigning`, `OnlyADueSignerIsRotated`, `SweepSparesAHandover`, `ALeakIsFinal`, `TokensOutliveNoKey` |
| `stranded` | 2 keys, 2 replicas, fairness | `NoKeyIsStranded` |
| `presented` | a person and a service account, 1 credential of either, 1 request, 2 open transactions, 3 seconds of 2 ticks; snapshot: 1 key, 2 look-ups; cache: 2 tokens, 2 presentations, 1 entry | `EndedAuthorityIsRefused`, `TokenEndsWithItsCredential`, `SweepRevivesNothing`, `PersonsTokenIsNotBornRevoked`, `RotationIsSeen`, `KeysAreRecent`, `CacheIsBounded`, `VerdictsAreRecent` |
| `login` | 2 calls, 2 sessions, limit of 1 failure, three scenes | `LiveSessionsRestOnTheLastPassword`, `OnlyAnAdministratorCutsOff`, `OvershootIsBounded`, `EvidenceIsSpentOnce`, `LevelsAreEarnedAndKept` |
| `ceremony` | 2 calls, 3 generations, fairness | `OnePairPerCode`, `OneLiveGeneration`, `EndedSessionHoldsNothing`, `ConsumerIsServed`, `ReplayIsOfTheUsed`, `NobodyWaitsForever` |
| `locks` | 3 transactions, 2 sessions, 25 verbs; a deletion with one other | `NoMutualWait` |
| `grants` | 2 bindings, up to 3 transactions, three scenes | `FactsAreGrants`, `MembersAreLedgered`, `WithdrawnIsQueued` |
| `grants_converge` | 1 binding, 2 transactions, 2 changes, fairness | `Converges` |
| `blind`, `login_rewrite` | | the disagreements of section 7 |

Why the bounds are enough to be interesting. Two numbers and two writers give a row committed above one still open
and a sweep between two statements of a poll; a page of one row makes every backlog a backlog of several pages. Two
replicas and an operator can read the same signer, lose each other's races and sweep what another generates; three keys
let a signer be replaced by a key that is itself replaced while the first hand-over is still in somebody's memory. The
limits are the smallest that satisfy the assumptions, so that every age is on both sides of every threshold. `AgeCap`
and the cap on row ages lie at or above every threshold compared with, so a capped age decides every comparison as the
real one. Two ticks to a second and three seconds put a cut-off before, into and after the second of an issue, and leave
time for a token to be issued, cut off, swept over and looked at again. Two calls suffice for every race of the login
lane and of the ceremony that involves one row; the two generations after the first let a rotated token be presented
beside its successor's rotation. Three transactions reach rings of three locks; a deletion locks the person's row
against everything first, so it is paired with one other (`MaxWithDeletion`). Two bindings are what it takes for one
grant to hold what another's revocation wants to take.

What the passing runs leave out, because the code is known to do otherwise there (section 7): outdated hashes in the
scene `Password`; a second time step in the scene `Enrolment`; records past their term in `ReplayIsOfTheUsed`; service
accounts in `PersonsTokenIsNotBornRevoked`; the two `Crossings` in `locks`; `SlowFold` in `grants`.

`TypeOK` is checked where a theorem states it; in the other modules it declares what the variables hold.

Every property has a mutant: a definition changed as a plausible bug would change it (a dropped condition, an
off-by-one, a limit set too late), under which TLC finds the property violated. The mutated forms stand in the modules
just before the definitions they change.

## 10. Fairness

* A watcher polls on a timer (`Run`), so `PollStart` is weakly fair. A call may be refused or cut off, but not for
  ever, so the steps of a call and the handling of its answer are strongly fair. Transactions end: commit or abort is
  weakly fair. Nothing is assumed of the sweep, of restarts or of streams.
* `TimelySpec` lets time pass only while every reader is confirmed within `StaleAfter` and no transaction outlives
  `MaxTx`: it is the hypothesis of the properties stated under it, not a claim about the code. `BlindSpec` drops it.
* A replica is started again (`Boot`) and its loop ticks; a read of the signer, a pass and a sweep succeed in the end
  if attempted for ever (strong fairness), and a hand-over ends (its context has a limit). No fairness for commands.
* `OAuthCeremony!FairSpec`: a call under way, once it is not blocked, takes its next step (strong fairness, since others
  may take and free the row it waits for: a lock queue is not starved); the transactions that hold the session's row
  end. Nothing makes a call start, a record expire or a session end.
* `GrantFacts!FairSpec`: an open pass proceeds (strong fairness, as above); the worker comes back to every event and the
  sweep to every ACTIVE binding, as the loop of `ReconcileWorker.Run` and its timer do. Nothing makes an object change.

## 11. Proofs

Eight modules `...Proofs.tla` hold the theorems, each beside the module it is about. They hold for every value of the
constants that satisfies the named assumptions: any number of calls, sessions, keys, tokens, replicas and readers, any
limits and any time. The invariants were checked by TLC on the runs' instances before they were proved, unless they
say only what a call in progress has read.

| module | theorems | assumptions | invariant |
|---|---|---|---|
| `SubjectChangeProofs` | the safety of runs `reading` and `arrival`; over what a place is lost | `JournalAssumption`, `WatcherAssumption`; for `TimelyReaderMissesNothing` also `TimelyAssumption`, `RetentionCovers` and a bound on the backlog | `IInv`: `RowsInv`, `MarksInv`, `CallInv`, `PageInv`, `AnswerInv`, `ReaderInv`; `TimelyInv`: `OpenInv`, `WaitInv`, `LateInv` |
| `SigningKeysProofs` | the safety of run `handover` | `KeystoreAssumption` | `IInv`: `YoungHandover`, `StrandedAreOld`, `ExpiredAreOld`, `RotationIsDue`, `HoldersAreFresh`, `LifeIsCovered` |
| `KeySnapshotProofs` | a rotation is seen; the snapshot implements `StalenessWindow` | `SnapshotLimits` | `IInv`: `MomentsInv`, `RecentInv`, `CompleteInv` |
| `PresentedTokenProofs` | what `presented` checks of the cut-offs; the limit of the verdict cache, and that it implements `StalenessWindow`; that all of it holds, with the snapshot's promises, in the composition `MCPresentedToken` | `RevocationAssumption`, `ReaderAssumption` | `IInv`: `PendingInv`, `LocksInv`, `TablesInv`, `RequestInv`; of the cache `VerdictInv`: `VerdictMomentsInv`, `VerdictAnswersInv`; `CacheInv` |
| `OAuthCeremonyProofs` | the safety of run `ceremony` | `GenerationsAssumption` | `IInv`: `TablesInv`, `CallsInv` |
| `HumanSessionProofs` | the safety of run `login` | `LimitAssumption`, `ScenesAssumption` | `IInv`; `CountInv`, `PasswordInv`, `FirstInv`, `EvidenceInv` |
| `PersonLocksProofs` | the safety of run `locks`; only the two crossings make a ring | `LimitsAssumption`; for `NoMutualWait` also `Crossings = {}` | `LocksInv`: `ProgressInv`, `ExclusionInv`, `CrossingInv` |
| `GrantFactsProofs` | the safety of run `grants` | `ConstantsAssumption`; for `FactsAreGrants` also `FoldsAtOnce` | `IInv`: `PassesInv`, `NewInv`, `MembersAreLedgered`; `FoldInv`; `QueueInv` |

*The lane.* `IInv` is the conjunction of: the types; `RowsInv` (transactions own distinct undecided numbers below the
sequence); `MarksInv` (of both watermarks of every replica: nothing undecided at or below the boundary, and whatever
is undecided at or below a candidate is remembered with it — without the second half the first is not inductive, since
the candidate becomes the boundary); the prefix property; and for each reader what holds at each statement of the call
(`CallInv`, `PageInv`, `AnswerInv`) and of its cursor (`ReaderInv`). `PageInv` is the point of the order page, floor:
a page lacks only rows swept before it was read, and if one was, the floor, read later, lies above the cursor.
`PlaceIsLostOverAGap` adds what `LostMeansLoss` of section 7 leaves true: the number above a lost cursor is swept or
rolled back. `StatusStep` names what any step may do to a row; what a call in progress relies on is shown to survive it
once, and not once per action.

*Readers in time.* `TimelyReaders` says when the retention is long enough: if readers are confirmed within `StaleAfter`,
no transaction outlives `MaxTx`, and no reader is more than `Pages` pages behind, then a row is read before it is swept as
long as (`RetentionCovers`, `Delay`)

    2 * MaxTx + StaleAfter + replicas * (MaxTx + 3 * StaleAfter) + pages * (2 * StaleAfter) <= Grace

The terms are the ways a row can stay unread while the reader keeps being confirmed. It becomes visible no older than its
transaction. A replica of the owner may answer under a boundary drawn before the row settled; it does so only while it
waits for transactions that began no later than its first look at the row, so each replica can be early once in that way,
and the reader may meet them one after the other (`Saw` counts those that have looked, `WaitInv` says how old the row can be
while they wait). A full page stops short of the row, at most once for each page of the backlog (`Way`); and a position
that is lost costs one confirmation more, and ends just below a row that is kept. `Bound` is what of this the reader
may have spent on a row so far; `UnreadInv` says that an unread row is no older than that, and `EarlyInv` that an answer
drawn too early still leaves a confirmation's time. Every step of the reader that leaves the row unread and starts the
silence anew either raises `Bound` or came under `EarlyInv`; so no unread row grows older than the retention
(`UnreadIsKept`), and the sweep, which spares the young and takes a prefix, cannot take it (`UnreadStays`).

The bound on the backlog is a hypothesis on the behaviour (`BacklogIsPaged`), since nothing in the code limits how fast
rows come; `TimelyReadersOfAShortJournal` drops it for a journal that has handed out at most `Pages * Limit` numbers, as
any run of TLC has. With the code's ten minutes (`JournalRetention`), pages of a thousand rows and the edge's ten seconds
(`retention_test.go`), three replicas and transactions of ten seconds leave room for 22 pages. The code itself compares
`StaleAfter` with the retention and nothing else (`watcher.go` `New`). The hypothesis is sufficient and not tight: it
would ask for a retention of 8 on the instance of run `arrival`, which passes with 3.

*The keystore.* `IInv` says what each process's memory promises about the table: a key waiting for its hand-over is no
older than the context (`YoungHandover`); what the sweep remembered is still old enough unless it moved on
(`StrandedAreOld`, `ExpiredAreOld`); the signer a pass read is due as long as it signs (`RotationIsDue`). For tokens:
a key in a signing call's hands was retired no longer ago than the hand-over plus the call (`HoldersAreFresh`), and
retirement age plus what is left of a token's life never exceeds `HandoverLimit + IssueLimit + MaxTokenTTL`
(`LifeIsCovered`) — that sum, plus the skew, is what `RemovalGrace` has to reach. `KeyMove` lists the moves a row can
make; each action is shown to be made of them (`ProcMoved`), and everything remembered survives them (`OthersKept`,
`IssueKept`). The action properties follow from `KeyMove` and the invariant.

*Cut-offs.* `EndedAuthorityIsRefused` relates a moment a transaction read when it opened to what a request under way
has read meanwhile. `RequestInv` says it for one request: what it resolved still stands (`StillStands`), and the
cut-off it weighed is still the one that stands (`WeighedRight`), unless a commit has overtaken it; a transaction open
against a token already issued has read its moment no earlier than the `iat` (`CutsLater`), so that its commit will
refuse the token (`IsRefused`). `TableMove` states what any commit does to the tables and which requests it overtakes;
that a request not overtaken keeps its invariant is shown from it once. The sweep is safe because a cut-off it removes
is older than the life of any token it could refuse (`LifeIsBounded`).

*The copies.* Both are proved to implement `StalenessWindow` by a step simulation: what a copy holds stood at the moment
it is dated by (`StoodAt`), whoever wrote it, because the moment was read before the registry or the authority was
asked. `PresentedTokenProofs` carries this, and the cut-offs, to the composition: every step of it is a step of the part
or leaves the part alone.

*The ceremony.* The locks are not variables: who holds a row follows from the phases. `TablesInv` says what the tables
look like between transactions, `Claim` what a call in a phase may rely on whatever the others do (the family it shares
lives and nobody updates it; the code it consumed is active), and `Apart` which phases exclude each other.

*The login lane.* `IInv` is the types, the tie between factor and codes (`FactorInv`), what a call has been given
(`CallsInv`) and that level 2 is earned. On it rest the theorem about levels and four further invariants:

* `CountInv`: failures plus what the calls that may still record are able to record stay within the bound of
  `OvershootIsBounded`. A call that passes the gate moves from neither to the second, a recorded failure from the second
  to the first.
* `FirstInv`: no live session is earlier than the remembered first authentication. The cut-off of a logout or of a
  change therefore lies before every live session (`RevocationsSpareAll`), and `OnlyAnAdministratorCutsOff` follows;
  `RevocationMoment`'s second case, a session earlier than what is remembered, is never taken.
* `PasswordInv`: the stored material is of the last generation, and a call whose stamp is still the stored one has
  verified that generation. It needs `NothingReplacedIsRewritten`: no scene that changes or recovers the password starts
  with an outdated hash. That is not a convenience: with an outdated hash the claim is false of the code (finding 2 of
  section 7). All scenes of the run satisfy it.
* `EvidenceInv`: evidence that was accepted is finished (`Finished`): the active factor accepts later steps only, and no
  set of codes has the code or can come to have it. `CodesStaySpentOnce` states this of backup and recovery codes for
  every scene. For TOTP codes it needs `EveryEnrolmentIsAtOneStep`, since a code of a later step than the one a new
  secret is confirmed at passes again (section 7). All scenes of the run satisfy it.

*The locks.* `LocksInv` says that a transaction holds the locks of the statements it has run and wants none that comes
before them (`ProgressInv`), and that locks held on one row agree (`ExclusionInv`). That no set of transactions waits in a
ring is an argument by heights: `Place` puts the kinds of rows in one order, and the `Height` of a transaction is about
the place of the row it wants, and one more if it holds a lock of that kind already. `BlockerIsHigher`: whoever blocks a
transaction stands higher, unless the orders of the two cross; so the highest of any set is blocked by none of it
(`HighestIsFree`; the set may be infinite, since there are finitely many heights). The verbs do not all follow that
order, and where one departs from it something else keeps away whoever it could wait for. A removal, say, writes its own
session after the families of the others: every other verb that takes both is kept out by the lock on the person's row,
but for a logout, and a logout of another session is stopped by that session's row, which the removal took first.
`ShapeOfPrograms` states once what the proof needs of the programs, and each is checked against it; the deletion, whose
locks come in any order, excludes everyone else that takes more than one row. `RingsNeedACrossing`
is the result without any assumption: every set of transactions that wait for each other contains a logout and a
password change of one session, or a regeneration by TOTP and a removal by a backup code. That these two do make rings
is shown in section 7. `LocksNeverRing` states the rest as `NoMutualWait`, from `Crossings = {}`: the pairs do not
overlap, as in the run.

*Grants.* `PassesInv` says of every open transaction which locks its phase holds and what they were taken for (`Guards`),
that it either adds or drops and never both (`OneWay`), and of every row it is about to change that nobody else can
change it first: a binding it adds to is `ACTIVE` and cannot be ended, nor the object withdrawn (`Secured`); a member it
drops is still there and only it may drop it (`Losing`). `Adds` and `Drops` tie the member to the ledger row of the same
transaction. The induction has two halves: a statement keeps the invariant of its own transaction, and a commit keeps
everybody else's, because it changes only rows that another's locks would have kept from it (`Spares`). On it rest:

* `MembersAreLedgered`, which is part of it;
* `FactsAreGrants`, with `FoldInv`: a transaction that takes an `ACTIVE` binding's tuple out of the ledger has still to
  fold its delete row, or did so under the lock of the fact's row, which it keeps, so that what the folding saw of the
  other holders is still so when it commits (`Folded`). The theorem assumes `FoldsAtOnce`, that is `SlowFold` is FALSE, as
  in the runs. That is not a convenience either: otherwise the claim is false of the code (section 7);
* `WithdrawnIsQueued`, with `QueueInv`: whoever has claimed an event of a withdrawn object will drop every member that is
  left, whatever of it he has read already (`Covers`); so the event may go when he has committed.

Only model-checked:

* the liveness properties (`EveryChangeArrives`, `NoKeyIsStranded`, `NobodyWaitsForever`, `Converges`): they rest on
  fairness, for which the prover has no rules;
* `TimelyReaderMissesNothing` for a retention shorter than `RetentionCovers` asks for, as in run `arrival`;
* what `SlowFold` does to the facts: the order of time is kept as a sequence from which elements are removed, and what
  `SelectSeq` keeps is proved by induction over data, which is out of the prover's reach. No theorem rests on it.

## 12. What is not modelled

Of the lane and the keystore: log lines, counters and self-reports; the key material, its wrapping and the check of the
wrapping key (a replica whose wrapping key does not match does not start, which is a `Boot` that never happens); claims
other than the lifetime. `AnswerHidesNothing` and the cursor properties exempt position 0, as the code does and says: a
reader primed on an empty journal can miss rows swept between two of its polls. Verdicts cached between an edge's start
and its first successful poll are outside the properties: the order of an edge's start is not in this repository. A
service that has no signer after a compromise whose replacement failed stays so until the command is repeated or a
replica starts; this is documented and no property is claimed.

Of presented tokens: parsing and signatures, the basic lane, the clocks' drift beyond `RemovalSlack`. Of the login lane:
access keys (WebAuthn), unverified and blocked persons, expiry of sessions and codes, the counter by source, the change
of address. Of the ceremony: authorize and consent, the client registry, the sweeps. Of grants: nested rules, grants over
names or whole scopes, multi-subject completion, tuples ordered by their owner, the tear-down of a scope, the dropping of
an event after ten failures.

All other components are listed in `PROJECT.json` with the reason. The repository's bulk is generated API code, CRUD
use-cases whose rules are table constraints, configuration, wiring and the repository's own gates; these have no
interleavings of their own, and a model of them would restate them. The share of the source the modules stand for is
accordingly small, and a share of a third of all lines is out of reach of a faithful model.

## 13. Plan

In this order:

1. **`AssertionReplay`**: single use of client assertions under concurrent presentations and the sweep of used ones.
2. **`Admission`**: the buckets of `exchangepace` and `failurewindow` at their limits, as functions checked against a
   reference definition.
3. **`Operations`**: `operationresolver`, an operation ends once although its worker may die.
4. **`Journal`**: an abstract specification of a journal that delivers every committed row above a position exactly once
   or refuses, which `SubjectChangeWatcher` (without blind readers) and `subscriptionjournal` are shown to implement.
5. **`Verdict`**: the relational verdict as a fixed point, checked on small graphs against reachability.
