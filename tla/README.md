# InboxGate: TLA+ models, checks and proofs

InboxGate enrolls Gmail accounts, discovers current mail into a remote SQLite
database, classifies it with a deterministic gate and serves the result over
MCP. The database is reached through a serverless driver without usable
explicit transactions, so nearly all of its difficulty is in one pattern:

> inspect the rows, send **one** conditional statement, inspect again on
> another connection, and report success only for what was seen.

A statement's answer can be lost, the statement can run long after its sender
gave up, a read can fail, a process can die between any two steps, and several
processes of several releases work on the same rows. Nothing is replayed within
a call; a later call has to make sense of what is there. The models keep exactly
this: every read, guard, statement, verification and early return is a step, and
all data is reduced to what the guards compare.

## 1. Inventory

| Part | State | Operations | What is hard | Module |
|---|---|---|---|---|
| account persistence (`storage/turso/{account,credential,lifecycle}.go`) | rows account, cursor, credential, lifecycle | EnsureAccount, CommitSynchronization, CommitProviderCredential, CommitAccountLifecycle, DeleteRevokedProviderCredential | lost and late statements | AccountStore |
| lifecycle and revocation (`internal/account`) | – | Pause, Resume, MarkReauthorizationRequired, Revoke | at most one provider request; crash after the claim; last version | AccountManager |
| enrollment (`gmail/enroll.go`) | pending authorization | complete, reconcile, verifyComplete; callback, run, Close | concurrent enrollments; expiry and cancellation against a callback | Enrollment, Callback |
| discovery persistence (`turso/current_discovery.go`, migration 0005) | attempt, staging, messages, cursor | CommitCurrentDiscovery, ReconcileCurrentDiscovery, five statements, triggers | shared attempts, half-staged commits, late chunks | DiscoveryStore |
| discovery (`gmail/current_discovery.go`) | – | Discover; its paging and retries | mailbox and lifecycle change meanwhile; limits; pages that Gmail should not send | Discovery, History |
| migration (`turso/migration.go`) | ledger, `user_version`, writer lock | Migrate | several releases, open transactions, lost rollback | Migration |
| gate (`gate`, `gateeval`, `turso/gate_decision.go`) | decisions | Classify, Evaluate, CommitGateDecision | concurrent evaluators and releases; limits of folding | Classifier, GateEvaluation |
| candidate content (`gmail/candidate_content.go`, `turso/candidate_content.go`) | contents | Extract, CommitCandidateContent | decision and lifecycle change during the fetch | ContentExtraction |
| storage fake (`storage/fake`) | the rows | the contract of the handle, one step each | what users of the handle rely on | FakeAccounts, FakeCandidates |
| review inspection (`reviewinspect`, `turso/review_inspection.go`) | cursors held by clients | List | rows change between pages, restarts | Review |
| HTTP server (`internal/server`), `runServe` | permits, readiness | Accept, Close, ListenAndServe | shutdown order, deadline, handle left open | BoundedListener, Serving |
| MCP handler (`internal/mcp`) | admission slots, active requests | ServeHTTP, admit, release, Close | admission against Close; header, body and tool that disagree | McpHandler, McpRequest |
| driver, adapter (`third_party/tursogo-serverless`, `turso/adapter.go`) | connections, batons | Connect, operations, CloseContext, executeStmt | close against open; answers that cannot be used | DriverClose, Stream |
| configuration, decoding, encryption, account status, other commands, release tooling | none or per call | – | inputs, not interleavings | not modelled (section 5) |

`PROJECT.json` lists every part with its reason, and each hazard at its line.

## 2. Modules

**AccountStore → AccountManager → Enrollment → AccountSystem.** One account.
`AccountStore` has the three rows and the handle's operations as procedures:
a process calls one by going to its first label with a return label in its
locals (`Call`, `Return`). `Execute` is the atomic statement with its `WHERE`
clause (`Applies`). `ExecAcknowledged`, `ExecFails` and `LateExecute` are its three fates.
`AccountManager` and `Enrollment` are the callers; `AccountSystem` composes them
and states the properties. `MaxVersion` stands for `math.MaxInt64`.

**DiscoveryStore → Discovery, AtomicDiscovery.** One account's mail.
`DiscoveryStore` has attempt, staging, messages, cursor and the statements with
the triggers of migration 0005. A process has a stack of return labels because
commit, proof, inspection and mutation call each other. `Discovery` adds the
mailbox (a log of message ids, some of which vanish), the lifecycle changing
under the process, and `Discover`. `Quiet` lets a process run through steps that
touch only its own locals; they commute with all others. `AtomicDiscovery` is
what the component promises: cursor and messages move in one step. Staged
content is a record of thread and metadata version, hashes are equality.

A fault of the reauthorization commit inside Discover is not repeated there:
AccountStore has it, and `ChangeLifecycle` has its effect.

**Migration.** The ledger is a sequence of checksums. `holder` is a session that
began a transaction and has not ended it: a sequence that failed its guard, or
one whose answer was accepted though its transaction is still open
(`ExecuteOpen`, docs/threat-model.md:376). An acknowledged `RELEASE` of the
outermost savepoint is taken to commit. A busy database answers with an error.
Rows and `user_version` are read in two steps, as in the code.

**CandidateStore → GateEvaluation, ContentExtraction → Candidates.** One
message of one account. `CandidateStore` has the rows of the message, its
decision, its content and the account's lifecycle, and the two guarded
statements. Evaluators differ in policy (`PolicyOf`) and release (`ClassOf`);
what Classify computes is `ClassOf`, which Classifier models itself. A hash is
the tuple of what it is computed from. `Rediscover` and `ChangeLifecycle` are
the other processes. The field `grant` of a content is a history variable: the
lifecycle version at the time of the provider's answer.

**FakeAccounts, FakeCandidates.** The storage fake is what every user of the
handle is tested against. These modules are its operations, one atomic step
each. `AccountSystem!ImplementsFake` and `Candidates!ImplementsFake` say that the
step-by-step models implement it with the rows mapped to themselves.

**Classifier.** `Classify` as an operator. A subject is a sequence of
characters with a fold class and a width, because the limits of the code are
about bytes after folding. Its state machine only picks the inputs.

**Callback.** Calls of `run` on one Enrollment, the one-place result channel of
each attempt, and browsers in `handleCallback`. A critical section of the mutex
is one step; sending, answering and closing `handled` are steps of their own.
Whoever has the state of an attempt was sent to its address.

**History.** `readHistory`, `readMessage` and their retries, over a mailbox that
grows and loses messages. `HonestPage` is what Gmail sends; `OddPages` are pages
that repeat a token, go back in the history or report an old history id; the code must refuse them.

**Review.** A client with its cursor, the service with the key of its process
(`Restart` replaces it) and rows that change. A cursor is a position with its
binding: request, policy and the process that made it. `origins` is a history
variable: it records for each page the request, the policy and the start of the
service at that time, and for each candidate in it the policy of its decision.

**McpHandler → Serving.** `McpHandler` has the admission counter, the register
and the wait group; `release` is three steps, as in the code. `Serving` adds
`runServe` and `ListenAndServe`. **BoundedListener** has the permits.
**McpRequest** follows one request through the checks in their order to answer
and audit record; the SDK is external and runs a registered tool or refuses.

**DriverClose, Stream.** `DriverClose` has connector, connections, the two
workers of `closeConnections` and callers of `CloseContext`; each mutex section
is a step. `Stream` has one session, its baton and the server's streams. The
server is external: it accepts a baton once, expires streams, and may execute a
request whose answer is lost, at once or later.

**MC modules.** `MCAccountSystem`, `MCDiscovery`, `MCMigration`, `MCGate`,
`MCService`, `MCDriver` and `MCGmail` hold constants and start states, and say how
one run asks several questions. Where modules share no variable (all but the
first three), a variable `part` is chosen at the start and only that component
moves: no invariant or property relates two of them, so nothing is lost, and
TLC has the sum and not the product of their states. Where one module is to be
looked at from several sides, `scene` or `team` is chosen at the start and
bounds what happens (`Within`) or which processes take part. A scene only leaves
behaviours out; it adds none. Fairness is stated for the part that moves, so
that a component at rest asks for nothing.

## 3. Runs

| Run | Instance | Shows |
|---|---|---|
| account_system | 2 processes from an empty database, versions up to 6, 2 envelopes. Scene *commands*: all five operations, and 1 fault among them without a second envelope and without Pause. Scene *revocation*: after an undisturbed enrollment, Revoke and Pause with 2 faults | one provider request, visible after a restart; confirmed is true, reports stay true; the lifecycle graph, version budget and complete accounts; no credential replaced or deleted early; the rows implement the storage fake |
| revocation_live | 2 processes on an enrolled account, 1 fault, fair | a begun revocation finishes |
| discovery | 2 processes. Scene *mail*: 1 message, everything changes, 1 fault while no mail vanishes. Scene *staging*: 2 chunks, 1 fault, and a second one that leaves one process running. Scene *repeat*: calls one after the other, 2 records, 2 threads, 1 fault | nothing skipped, no mixture in staging, attempts are current, a reported advance is durable, only active accounts advance; the one-step advance is implemented |
| resolves | 2 processes, 1 chunk, 1 fault, fair | an attempt is completed or removed |
| migration | teams: a release and its predecessor; catalogs that differ from the second file on. 3 faults, fair | ledger, marker and reported success agree; no mixed ledger; the catalog gets applied and the marker repaired |
| gate | teams: evaluators with 2 policies, evaluators of 2 releases, an evaluator and an extractor, an evaluator and two extractors (2 excerpts, no fault). Every process has its own clock; 1 fault, fair; a fault excludes new metadata with 2 policies, and a second transition with one extractor. And 2 × 4 × 2 × 6 × 2 policies with 108 messages through Classify | decisions follow the metadata, contents decision and lifecycle; statements are bound to what was read; firsts are kept; evaluation catches up; the rows implement the storage fake; precedence, limits and input hash of Classify |
| service | Serving with 3 requests and 2 slots, the listener with 3 connections and 2 permits, every request of a small vocabulary with every outcome of a tool, and 3 review keys with 2 scanned per page, a change, a restart and 3 queries, two of which differ only in the page size; fair | admission, handle, readiness, exit code, the process ends; permits counted, Close ends Accept; order of checks, audit and tool agree; what stays is seen once, pages belong together, walks end |
| driver | 3 connections, 2 workers, 2 callers, named in the order in which they appear; 2 writes, 2 streams of 4 turns, 2 faults; fair | nothing left open, failures reported, Close returns; baton and transaction state agree, commits are whole, nothing runs outside |
| gmail | 2 runs, 2 browsers; pages of 2, 2 pages, 2 messages, 2 attempts, 5 records (the fifth without odd pages and without mail that vanishes), 1 odd page; fair | no callback is lost or used by another run, runs return; commits are complete, requests capped, Discover ends |
| thread_drift, winner, probe | *violations*, see Findings | – |

**Bounds.** Two processes give every pairwise race; a third party is always
present as the late statement. One fault covers a lost answer or a crash at each
step; the scenes about uncertain outcomes have two or three so that a fault can
hit the recovery from another. Two chunks are the least with a gap. Version 6 is
the least that lets a pause come before a complete revocation. Of
the catalogs, one is longer than the other (or they part after a common first
file), so that a late sequence of either release meets rows of the other.
Requests and connections
outnumber slots and permits by one, so that one of them waits or is turned
away. Lists of the classifier are at, below and beyond their limits. Two
streams are the one of a transaction and one that is opened after a reset.
In History both limits can be exceeded. Three review keys are one more than a
page scans. Where a scene excludes a fault, another scene or team has that fault
with the rest of it.
Deadlock is not checked where the system may come to rest: a bounded mailbox, a
request that was answered, a process that has exited.

**Fairness.** A started call runs on (weakly fair steps: every call has a
deadline and no step waits for another process). Calls are made again and again;
the documents leave uncertain outcomes to "a fresh explicit invocation", so
liveness is a statement about operators who retry. Strong fairness of starting
`Revoke` or `Discover` only makes up for moments in which the process is busy
with another call or another process is inside `Quiet`. The server ends
abandoned sessions (Migration's `Expire`). Late statements may never arrive.
Goroutines run on, and a Go mutex is not kept from a waiter for ever (strong
fairness of `CloseLock` in DriverClose). Serving's specification is fair to the
main goroutine only, and its two liveness properties name what else they need:
`SignalEnds` the clock (`DeadlineFires`) and neither requests nor Close,
`FailureEnds` goroutines that run on and requests that react to cancellation
(`HandlerRuns`), and neither the clock nor the clients. A request to Gmail is
answered or fails (it has a timeout); a client that walks pages asks for the
next one.

**Properties.** A property that is a conjunction of named ones (`RevocationIsSound`,
`ReportsAreTrue`, `StagingIsSound`, `MigrateIsSound`, `BoundToReads`,
`ServeIsSound`, `AnswerIsTrue` and so on) is checked as one;
its conjuncts are stated, commented and, where there are proofs, proved one by
one. That the lifecycle follows its graph, decisions the metadata, and that first
evaluations and fetches are kept follows from `ImplementsFake`, and each has a
theorem of its own.

**Mutants.** Every property is shown to fail for a changed definition, named
before the original in its module ("Mutant of ...").

### Findings

* `thread_drift`: docs/product-specification.md:542 says "Every explicit
  reconciliation completes or safely removes only bounded durable staging without
  contacting Gmail." A sealed attempt with a message stored under another thread
  can be neither finalized (drift) nor aborted (only open attempts are).
* `winner`: docs/threat-model.md:306 and ADR 0012 say that an evaluator "returns
  a concurrent idempotent winner's durable timestamp". `CommitGateDecision`
  (gate_decision.go:86) verifies with `Equal`, which includes the time. The
  second of two evaluators that both found no row gets an error. The fake store
  compares without the time, and the test of this case uses the fake. The next
  call returns the winner's decision (`EvaluationCatchesUp`).
* `probe`: the comment on `refreshAutocommit` (session.go:206) says that it runs
  on error paths. `executeStmt` also calls it when only the probe step failed,
  after a statement that succeeded. If the refresh fails too, the stream is
  dropped and no error is returned. `NothingOutside` (in `TransactionIsWhole`)
  shows that this is the only way: as long as no refresh has dropped the stream, nothing runs outside its
  transaction.

The runs of `resolves` stay away from one more case of the first sentence.
Attempt ids are hashes of the content, so an aborted attempt is created again
under the same id. A late second chunk of its first life can then land before
the first chunk of its second; inspection (current_discovery.go:698) refuses the
gap and reconciliation with it. ADR 0010 leaves malformed staging to recovery by
intent. With chunks of one message and otherwise the constants of `resolves`,
TLC finds this too; that is why `resolves` has one chunk.

## 4. Proofs

Every safety invariant and every action property that a passing run checks is
also proved, for all constants that satisfy the named `ASSUME`s (any processes,
faults, versions, catalogs, mailboxes, requests). A theorem is about the
component's own specification, of which the MC module checks one instance. The
inductive invariants were checked by TLC before they were proved.

* **AccountProofs**, about `AccountSystem!Spec`: `TypeCorrect`,
  `RevocationSound` (from `OneRequest`, `RestartVisible` and `RowCorrect`),
  `ReportsTrue` (from `RowCorrect` and `ReportsHold`), `GraphFollowed`,
  `CredentialKept`, `RowsImplementFake`. The properties are not inductive by themselves: that a
  second request is impossible depends on who may believe to own the claim. The
  invariant `IInv` has four parts. The row has a valid shape. Every statement,
  held or late, is an edge of the graph, confirms only what the provider has
  revoked and deletes only after the final outcome (`GoodStatement`). Each
  process knows at each label what it will rely on (`StatementInv`, `PhaseInv`).
  At most one process, one whose own update made the claim, is between claim and
  request, and none is once the request was sent (`ClaimInv`). Statements can
  come late because what they do to the row is monotone where it matters
  (`Stable`): claimed stays claimed, final stays final, revoked stays revoked.
  `Invariance` proves it per action.
* **DiscoveryMoves** and **DiscoveryProofs**, about `Discovery!Spec`:
  `NothingSkipped`, `StagingSound`, `AdvancedDurable`, `OnlyActive`,
  `AtomicAdvance`. The rows are the easy half: each statement of migration 0005
  keeps them sound if the commit that it carries is sound. The hard half is that
  every commit anyone sends is sound, and that a success has been earned, while
  a process is inside up to four calls. `IInv` therefore says for each label and
  each stack of return labels what the locals hold (`Processes`); the rows (`Rows`) and
  the late statements and counters (`Rest`) complete it. DiscoveryMoves shows it
  for the steps of commit, finalize and reconcile, DiscoveryProofs for those of
  Discover and for the statements. `AtomicAdvance` is a refinement: of all
  the statements only finalize changes what the abstract specification sees.
* **DatabaseProofs**, about `Migration!Spec`: `MigrationSound` (from
  `MigrationTypes`, `LedgerCorrect` and `SuccessHolds`) and `NeverBack`. What a process read of the
  ledger must stay true until it reports, which holds because rows are only
  added, which holds because guards are evaluated when a sequence runs. The
  invariant has these three parts: the database, the sequences under way (each
  is for a prefix of some catalog) and each process (the rows it has seen hold).
  `Inductive` proves it and the forward step together. About
  `DriverClose!CloseSpec`: `CloseComplete`. `CloseInv` says that after the
  shutdown began a connection that is still registered is a job or with a worker,
  that a failure is with a worker or already counted, and that the result is
  published only when neither jobs nor busy workers are left.
* **CandidateProofs**, about `Candidates!Spec`: `ReadsBound` (from
  `CandidateTypes` and `StatementsAreBound`), `EvaluationKept`,
  `DecisionFollows`, `ContentStaysCurrent`, `FetchKept`, `RowsImplementFake`. The guards of the two
  statements make most of a write right at the moment it happens. Two things
  they cannot see, and the invariant carries them. A replacement differs from
  the revision it expects (`Replaces`): resolve and the prior read establish it
  long before the statement runs, perhaps after its sender is gone. And a
  content was fetched under the version its statement names: versions only grow,
  and verifyPreflight precedes the fetch. `LocalBound` says what a process knows
  at each label, `LateBound` what a late statement carries. About
  `Classifier!ClassifierSpec`: `ClassifySound` and `InputDecides`. Here the state is
  trivial (`ClassifierInv`: the result is that of Classify) and the work is in the
  lemmas about Classify: two lists with the same elements find the same terms
  and domains, and the searches that a valid policy causes stay within the limit.
* **PagingProofs**, about `History!HistorySpec`: `CommitSound` and
  `RequestsAreCapped`. `HistoryInv` says what the pages read so far have found (up to
  the token, everything), and bounds the requests by the loop indices: no counter
  of requests exists in the code, the bound is a product of three loop bounds.
  About `Review!ReviewSpec`: `EachIsSeenOnce` and `PagesTogether`. `ReviewInv` says
  that everything shown lies up to the cursor, and that every candidate that
  stayed and lies up to the cursor was shown. That a page keeps this needs that
  its scan leaves no row out (`ScannedIs`): the rows scanned are the first ones
  after the cursor, in order, up to one of three limits, and none of the limits
  cuts off a row below one it lets through. For `PagesTogether`, `OriginInv` says
  that all that a walk has collected has the origin its cursor is bound to. A client
  that asks for something else and then returns to its first request is served again
  and adds to the same pages; the filter on decisions keeps the policy one.
* **RemoteProofs**, about `Callback!CallbackSpec`: `CallbackNeverLoses` and
  `ExchangesItsOwn`. In `CallbackInv` the right to answer an attempt is in one
  place at a time: pending, with the callback that took it, in the channel, or
  with the run. About `Stream!StreamSpec`: `SessionInStep` and `TransactionWhole`.
  `StreamInv` adds that a late request belongs to a stream that the session has
  left, and that the writes of a transaction in which nothing failed are in the
  session's stream and in no other.
* **ServingProofs**, about `Serving!Spec`: `AdmissionIsCounted` and
  `ServingSound` (from `SourceOutlives`, `ReadyIsOpen`, `ExitHolds` and
  `HandleIsClosed`), for any number of requests and any limit. Counting alone is not inductive for the storage
  handle: `Closing` says that beyond the wait of Close nobody is admitted and
  nobody can be, and `Progress` which parts of the main goroutine and of Close
  can coexist. About the listener: `PermitsAreCounted`, for any connections and
  limit. About `McpRequest!RequestSpec`: `AnswerTrue`. The invariant says that the
  answer is that of ServeHTTP, and the lemmas follow a request through the checks,
  the envelope, the routing headers and the answer of the SDK.

The two theorems `RowsImplementFake` are refinements too: initial states map to
initial states, and every step is a step of the fake or leaves the rows alone.
For the accounts this uses `GoodStatement`; the fake refuses some commits that
the statements' guards alone would let through.

**Assumptions** are the named `ASSUME`s on constants, which TLC evaluates. Most say
only that a bound is a positive number, a set is finite or a marker is no member.
Four say something about the code. `ClassifierConstants`: the limit of searches is
at least twice that of terms (classifier.go:28; the lists of a policy have at most
256 terms). `SubjectsFit`: a folded subject fits its limit, because mail.Normalize
accepts 4096 bytes (message.go:87) and folding takes the least code point of a
character, which in UTF-8 is none of the wider ones. `McpConstants`: header values
are lists of strings. `ReviewConstants`: keys are positive numbers, so that 0 stands before all
of them.

**Only model-checked**: the ten liveness properties (`RevocationFinishes`,
`ReconciliationResolves`, `MigrationCompletes`, `EvaluationCatchesUp`, `ServeEnds`,
`CloseEndsAccept`, `WalkEnds`, `CloseReturns`, `RunReturns`, `DiscoverEnds`), because
the prover knows neither fairness nor `ENABLED`. What the sum of widths in
`Classifier!Bytes` computes for every text is not proved either; no theorem needs it,
as the limits enter only through the two assumptions.

## 5. Not modelled

* **Decoding** (`current_discovery_decode.go`, `candidate_content_decode.go`,
  `mail/message.go`) and the text of excerpts: functions from bytes to a value or
  an error. The models have the value and the error. Their domain is strings.
* **Configuration** (`internal/config`), endpoint checks in `adapter.go`, and the
  other commands of `main.go`: one file or one string validated once at start.
* **Encryption** (`cryptobox`): its failure is an outcome where it is called.
* **Account status** (`accountstatus`), the gate reason of `reviewinspect` and the
  rendering of answers: one read without later use of what was read.
* **Release tooling** (`releasebuild`, `cmd/release`, `buildmeta`): not part of the
  running system.
* **The catalog of migrations**: embedded files checked at start. The content of
  the migrations is modelled where it guards (triggers of 0005, tables of 0002
  to 0007).
* **Close of an Enrollment whose run has not returned** (enroll.go:354): the
  command closes only after run returned, and Callback has it that way. An
  earlier Close takes the attempt away without a result for its run.
* **Ids that do not fit a cursor** (storage/review_inspection.go:40 refuses a key
  whose two ids exceed 255 bytes together): keys are numbers in Review.
* Within modelled parts: byte limits of a discovery commit, delays between
  retries, identities of two accounts that meet in one row, rows and values of
  the driver's protocol, and an answer without a baton that is otherwise in order
  (session.go:99): in Stream a server gives a baton with every answer that it completes.
