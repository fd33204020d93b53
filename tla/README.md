# TLA+ models of teslatlas-protocol

This directory holds a verification project for the Teslatlas protocol
repository: TLA+ modules translated from its Python code, TLC configurations
that check them on small instances, and TLAPS proofs that hold for every
instance. The code is the reference. Where the text below names a line, it is a
line of the repository at the commit the models were written from.

The repository is a protocol contract with the programs that enforce it. Most
of it is data (schemas, profiles, OpenAPI, examples) and pure validation. The
parts with state, concurrency, peers that fail and deadlines are few, and they
decide whether a *passed* verdict can be trusted: those come first.

## 1. Inventory

| Component | State it keeps | Operations | Interacts with |
|---|---|---|---|
| **Adapter session** `conformance/runner.py` `AdapterSession` (644-892) | the adapter's process group, `stdout_lines` (a queue of two), `stdout_error`, two daemon reader threads, one writer thread per request | `request`, `_stop`, `finish`, `_drain_stdout`, `_drain_stderr`, `_extra_stdout` | case loop (calls), adapter (pipes, signals) |
| **Case loop** `runner.run` (1012-1079) | the step index, prior responses, the failure so far | render a step, send it, validate and correlate the answer, close, report | adapter session |
| **Actual-Hub bound** `runner.run_actual_hub` (894-) | a child process group and a wall-clock bound | start, wait, kill the group | `hub_http`, `hub_matrix` as processes |
| **Broker control client** `conformance/hub_control.py` | `_sequence`, `_challenge`, `_closed`, the read buffer, `_request_lock` | `connect`, `request`, `close` | matrix cases (calls), host broker (Unix socket) |
| **Matrix cases** `conformance/hub_matrix.py` `capture` and the cases | invitation, proof, tokens, device ids, sequence anchors, results | verify, claim, rotate, revoke, stop, start, restart, outage | control client, raw HTTP |
| **Matrix staging** `hub_matrix.py` (173-475, 1255-1340) | what it read of `SessionInput` and the staged files | read, hash, compare, connect | the session's other process, through files |
| **Close acknowledgement** `hub_matrix.py` (1119-1236) | a coordination file | publish, poll, read privately, bind | the session's other process, through files |
| **Raw HTTP exchange** `hub_matrix.py` (512-655), `hub_http.py` (105-345) | one deadline per exchange, sockets, a request counter, a transcript | connect, TLS, pin, send, parse | the Hub |
| **Native current-Hub run** `hub_http.py` (346-467), `hub_native_evidence.py` | the scenario's position, bearers, the update marker and receipt, process identities | the ordered scenario, receipt polling, identity verification | the Hub, its launcher, the fixture |
| **Matrix admission contract** `tools/matrix_contract.py` | none that outlives a call | join a case's evidence with the controller's observations | matrix evidence |
| **Hub sync: exchanges** `conformance/hub_sync.py` (1-407) | none; its caller keeps keys, base and request | choose a bootstrap, bind requests, answers, retries | a Hub, a client |
| **Hub sync: prepared packs** `hub_sync.py` (408-500, 907-1250) | none that outlives a call | judge a receipt, then a pack against it | signed receipts |
| **Hub sync: the SQLite image** `hub_sync.py` (500-904) | a stack of pages, the roles claimed | decode varints and records, account for a page, walk the pages | pack bytes |
| **Physical V3 validators** `conformance/hub_sync_14.py` | none; its caller keeps the checkpoint | admit a changed set or a rebase, decode frames, judge a pack | signed statements, zstd |
| **Developer bundle** `tools/developer_bundle.py` | archive, checksum file, extraction directory | build, verify, extract | file system |
| **Current-Hub probe** `tools/check-current-hub` | one shared deadline, the cursors seen | bounded paging | the Hub |
| **Contract loading and response checks** `runner.py` (1-640) | none that outlives a call | load profiles and fixtures, validate a response and its history | case loop |
| **Edge delivery contract** `tools/build_edge_delivery_profile.py` | the vectors it publishes | write schemas and vectors | profile data |
| **Fixture reducer** `tools/build_fixtures.py` | none that outlives a call | order duplicated and delayed observations | fixtures |
| **Reference adapter, launchers** | a table | answer | adapter session |
| **Generators, schemas, profiles, examples, docs** | none | write or hold literal data | all |

How they interact: `conformance/run` starts `runner.py`; for an adapter it runs
one *adapter session* per profile and case; for a real Hub it starts
`hub_http.py` or `hub_matrix.py` in a process group of its own. The matrix run
drives an installed host through the *control client*, interleaves that with
HTTP requests, and hands evidence to another process through files.

What is hard, and what makes each part correct:

* **Adapter session.** Four threads, up to two foreign processes and five
  bounded waits meet in `finish`. Correct when a clean result means that
  nothing was missed, that nothing can still arrive, and that a session that
  was stopped leaves nobody of its group alive.
* **Case loop.** It pairs answers with requests by position in a queue. Correct
  when a case passes only on one correlated answer for each step and nothing
  else, and when it always ends.
* **Control client.** It may lose an answer to an operation that happened.
  Correct when it never asks for another operation without knowing the
  outcome of the last, in any interleaving of threads, on any faulty stream.
* **Matrix cases.** Credentials, outages and restarts. Correct when every case
  leaves host and client in a state the next case may start from, and when the
  evidence anchors enclose what they claim to.
* **Files between processes.** A file may be replaced between two reads, read
  while it is written, or left by an earlier run. Correct when a half-written
  file is read again and never taken for the whole, when what is used is what
  was hashed, and when every poll ends.
* **Deadlines.** A dozen waits share one deadline, and a failure may come at any
  of them. Correct when together they take no longer than it, leave no socket
  and no process, and never call a peer *unavailable* that had begun to answer.
* **Native run.** The hub may be started again under the run's feet. Correct
  when a pass means one process, the one that was described, and no defect.
* **Admission of signed statements.** A Hub may answer out of turn, sign what is
  bound amiss, and the network may deliver it late or again. Correct when no chain of accepted statements
  leads a client off its lineage or into a request it must not send.
* **Pure validators.** Correct when they accept exactly the relation they are
  named for, on all inputs of bounded size.

`PROJECT.json` lists each hazard at its line with the properties that cover it.

## 2. The modules

| Module | Models | Kind |
|---|---|---|
| `AdapterSession` | `AdapterSession` and the adapter's processes | detailed |
| `CaseRun` | the case loop of `run`, extending `AdapterSession` | composition |
| `LifecycleSession` | what the attachment promises its caller | abstract |
| `ControlClient` | `ControlClient.request`, `close`, with callers and a broker | detailed, implements `LifecycleSession` |
| `MatrixRun` | `MatrixCases`: a run of the acceptance matrix, its host and Hub | detailed |
| `MatrixStaging` | how the matrix adapter takes its session, and gives its client back | detailed |
| `CloseAck` | the acknowledgement that is polled for while it is written | detailed |
| `MatrixAdmission` | what the admission contract infers, over what a session really did | validator against the truth |
| `ActualHubBound` | `run_actual_hub`: deadline, interrupts and process group | detailed |
| `NativeRun` | the scenario of the native run, its verifications and its fixture | detailed |
| `HttpExchange` | one HTTPS exchange under one deadline | detailed |
| `CurrentHubProbe` | the paging probe | detailed |
| `SyncClient` | the checks of a changes-since exchange, and a client that obeys them | validator and client |
| `PhysicalSync` | the checks of physical receipts and rebases, and a client that obeys them | validator and client |
| `PreparedPack`, `PhysicalPack` | the admission of a prepared and of a physical pack | validator against a reference |
| `SqliteWalk`, `SqlitePage`, `SqliteRecord`, `PackStream` | the readers of pages, of one page, of records, of frames | algorithm against a reference |
| `DeveloperBundle` | the files of a build and an extraction, with edits, kills and rivals | detailed |
| `BundleImage` | which archives verification accepts | validator against a reference |
| `Checks` | the first check that fails gives the label | shared operator |
| `SessionProofs`, `ControlClientProofs`, `MatrixRunProofs`, `HubRunsProofs`, `NativeRunProofs`, `HubSyncProofs`, `FilesProofs`, `HubImagesProofs` | the theorems | proofs |
| `MCAdapterSession`, `MCCaseRun`, `MCControlClient`, `MCMatrixRun` | constant values for TLC | model checking |
| `MCHubRuns`, `MCHubFiles`, `MCHubSyncImages`, `MCHubSyncStatements` | sums of components, with constant values | model checking |

The last four put components that share nothing side by side: an initial state
is one of one component, with the others over or idle, and a step is one of that
component. TLC explores each component exactly as it would alone; a property of
one holds trivially in the behaviours of the others. Where one module is about
a detail of another (a page inside a walk, an exchange inside a native run, an
archive inside a bundle) the comment at its head says which part stands for
what, and the interface is a value: a page's references, an exchange's result,
an archive's contents.

### AdapterSession

| State | Code |
|---|---|
| `st`, `holds`, `grouped`, `killed` | the leader and one descendant: their lives, the standard streams each holds open, membership of the leader's group (a descendant may have called `setsid`), pending SIGKILLs |
| `out`, `put`, `taken`, `sentinel` | every line written to stdout, how many `_drain_stdout` put on `stdout_lines`, how many the main thread took, and the fate of the final `None` |
| `reader`, `errReader`, `stdoutError` | the daemon threads and `self.stdout_error` |
| `writer`, `sent`, `stdin` | the writer thread, the requests written in full, the runner's end of stdin |
| `pc`, `stopFor` | the main thread inside `request`, `_stop` or `finish` |
| `line`, `outcome`, `handed` | the item last taken, how `request` ended, the lines it returned |
| `timedOut`, `retained`, `extra`, `stopped`, `verdict` | the locals and the result of `finish` |

Each bounded wait is two actions: what it waits for happened, or its timeout
ran out first, when its kind is in `Expiring`. Time itself is absent: any
schedule in which a wait could expire is explored. `out`, `put` and `taken`
stand for the pipe and the queue together: the pipe holds the lines after
`put`, the queue those between `taken` and `put` and then the sentinel. A line
is data only as far as the runner tells lines apart: an answer to step *i*, other
text (`noise`), a blank line, or bytes the reader refuses (over the frame
budget or not UTF-8: `bad`). The text of stderr is left out; the thread that
drains it is not, because `finish` joins it.

SIGTERM may be ignored, so `Terminate` ends any subset of the group's members.
SIGKILL may not, so `Kill` marks the whole group and `Die` ends each marked
process in the kernel's own time. The adapter's own actions (`Fork`, `Emit`,
`Exit`, `CloseStdout`) are unconstrained unless `Cooperative`.

### CaseRun

`CaseRun` adds the loop's own variables: the step to send, the responses
accepted, the failure so far and the result. `TemplateFails` is a step that
cannot be rendered, `SendStep` calls `request`, `InvalidResponse` and
`ValidResponse` are the two ways the answer to a step ends (schema, correlation
and content are one abstract "valid and of this step"), `CloseSession` is the
`finally`, `Report` appends the case to the report.

### LifecycleSession and ControlClient

`LifecycleSession` says what an attachment is for: a session is
*ready*, *busy* with one operation or *over*; operations are asked for one at a
time; the host performs what was asked, in order; and the session is ready
again only when the caller has learnt the result. A session is *void* once an
operation was asked for behind one whose result nobody has; that takes a second
thread half way through `close`, see below, and of a void session only the
order is promised. `ControlClient` is the code:
threads that enter `request`, try the lock, take the next sequence number,
send, read frames out of a buffer that may already hold some, check type,
sequence and challenge in the code's order, adopt the challenge, and fail
closed on every error path. `close` may run in any thread at any moment, and is
two steps: `closed` is the flag `_closed`, `connected` the open socket.
`request` reads the flag before it takes the lock and never again, so `Send`
asks only whether the socket is open. A request that fails sets the flag and
closes the socket (`FailClosed`, `Shut`) before it releases the lock; but
`close` returns at once if the flag is set, so a request that fails while
another thread stands between the two statements of `close` (`closing`) leaves
with the socket still open. A thread that passed the flag earlier can then send
(`strayed`). `FailureIsLast` says that this is the only way. The
broker is external. Its good behaviour is read off the frames the client
accepts; its faults are those named in `Faults`:

| Fault | The broker may |
|---|---|
| `stale` | send one of its earlier frames again |
| `junk` | send a frame that is not strict JSON of the expected shape and identity |
| `reuse` | answer with a challenge it used before |
| `shape` | answer with a result of the wrong shape |
| `early` | send the reply to a request before it is made |
| `hangup` | close its end |

An answer that never comes is always possible (`PerformSilently`), and so is a
deadline that passes (`SendFails`, `RecvFails`). The refinement mapping is
`Lifecycle` at the end of the module: *void* is `strayed`, *over* is closed,
*busy* is a held lock, and the three logs are the requests, the host's log and the results returned.

### MatrixRun

Each case of `run` is a sequence of steps (`Identity` to `Outage`): lifecycle
operations, HTTP exchanges and local checks, in the code's order, with the
observation that `credential_exchange` and `_claim` make before a secret leaves
written out. One action executes the next step of each kind; `BeginCase`,
`FinishCase` and `Fail` are the three parts of `capture`. A matrix error ends
the case as *failed*, everything else ends the run. A lifecycle operation is one
step: that is what `LifecycleSession` promises (one at a time, at most once,
and none after a result that was not learnt, which is `Lost`).

| State | Code |
|---|---|
| `results`, `step`, `good`, `start` | the results, the position in the case's function, whether the values it collected are the expected ones, what `capture` noted when the case began |
| `token`, `device`, `pages`, `old` | `self.token`, `self.device_id`, `self.pages`, `old_token` of `rotate` |
| `proof`, `seen`, `invitation` | the sequence of `self.proof`, the generation in `self.descriptor`, `self.invitation` |
| `up`, `generation`, `observed`, `invited`, `stale` | the host: external |
| `claimed`, `live`, `issued`, `bugs` | the Hub: external |
| `touched` | history: the first observation due after the case last changed the host |

The Hub may have any set of `Defects` for the whole run, and host and Hub may
have passing `Faults`:

| Defect | The Hub |
|---|---|
| `any_secret`, `reusable` | takes a wrong secret, or an invitation twice |
| `same_device` | gives a second claim the first one's device |
| `no_grace`, `no_retry` | drops the old bearer on rotation, or refuses its retry |
| `same_token`, `other_device` | rotates to the same bearer, or to another device |
| `deaf_revoke`, `partial_revoke` | ignores a revocation, or revokes only the newest bearer |
| `no_restart`, `stays_up`, `forgets` | keeps its process, answers while stopped, loses credentials with a restart |
| `loose_cursor`, `open`, `other_build` | takes a foreign cursor, needs no bearer, is not the artifact under test |

| Fault | Once, |
|---|---|
| `error` | an exchange fails, before or after the Hub served it |
| `wrong` | a compared value differs |
| `reject` | an admitted result is malformed |
| `lose` | the attachment fails around an operation |
| `expire` | the invitation in hand runs out |

A passing fault never imitates the very answer a case wants (a 401 where the
contract has a 200, say): a fault that does would make any black-box run pass.
The one exception is an invitation that expires just before it is replayed: the
Hub refuses it as the case wants, and would hide that it takes one twice. Such a
run must fail later, at the next observation, and does (`PassSound`).

The host issues an invitation with `pair` and keeps it until the next one, as
the repository's synthetic host does; a host that issues another at every
`verify`, after which the replay would send an invitation nobody claimed, is
not modelled.

What the model says about the code, beyond its properties:

* A single passed case may mean little: wrong-cursor cases after failed page
  cases send the cursor `None` and are rightly refused; `revocation` with a
  bearer that was dead before passes. `PassSound` is therefore about a run in
  which *every* case passed.
* Two defects stay unseen in such a run. No case sends a revoked device's
  earlier bearer (`partial_revoke`), and none sends a protected request without
  a bearer (`open`; `unauthenticated` asks only the public routes).
* After a failed `real_auth`, `revocation` calls `request("revoke")` with no
  device, which is a `ValueError` and ends the run (`NoDevice`).
* A case that fails between `stop` and `start` leaves the service stopped; the
  next `verify` is refused and ends the run. It never asks a stopped host to
  stop (`NeverOutOfTurn`), because `capture` observes before each case.

### MatrixStaging and CloseAck

`MatrixStaging` is the list of reads (`Reads`) that take one session, in the
code's order, over files that anyone may replace between two of them: *a version
stands for contents and for their digest*. `Fits` says, for each read, what the
code compares the version with. `UsedIsBound` and `OneConfiguration` then speak
of the versions that the run goes on to use. What follows is the broker client,
the cases (one step: `MatrixRun` is about them) and `_complete_v2`, which always
refuses.

`CloseAck` is `_wait_for_close_ack` at the grain of `lstat`, open, read and the
second `lstat` of `_strict_private_file`, against two publishers:
`_write_exclusive_json`, which creates the name first and fills it after, and
one that links a finished file. `clock` ticks between any two steps.

### MatrixAdmission

The controller and the Hub act first and truthfully: they verify, stop, start,
and the Hub may also come back by itself. Then one case is admitted, from an
honest adapter's documents with any set of the rows exported, or from altered
documents. `Admit` is `_admit` with its labels in order, `RestartJoin` the join
of sparse running rows with a stop between them. `RestartReal` and
`RestartAdmitted` compare the verdict with `log`, which the validator never
sees. `Truthful` says how far documents may be altered: they may be exchanged,
cut and taken from elsewhere, but evidence names its own session, operation and
window, and carries the facts of no other case.

### ActualHubBound, NativeRun, HttpExchange, CurrentHubProbe

`ActualHubBound`: processes fork, leave the group and exit at will; the runner
waits, asks, waits, kills and reaps, and an interrupt may end any of its three
waits (`AfterInterrupt`). A SIGTERM ends any subset of the group.

`NativeRun`: `Script` is the scenario of `run_network` as a sequence, `pc` a
position in it. Each exchange is one step whose answer follows from `hub`, which
has one of fifteen defects; `answered` notes which life of the hub gave it.
A verification is four steps (staged files, first identification, configuration,
second identification), and hub, launcher, files, marker and receipt may change
between any two steps.

`HttpExchange` is the inside of one such step: each wait (connecting, handshake,
send, head, body) gets what is left of one deadline, the clock cannot pass the
end of a pending wait, and `TimedOut` is enabled there. `holders` says which of
the local variable, the connection and the response hold the descriptor to each
address, so that *closed* means that nobody does. `outcome` is the label:
`returned`, `unavailable`, `refused`, or `unlabelled` for an error that leaves
without one (a bare `TimeoutError` of the constructor, `hub_matrix.py:579`).

`CurrentHubProbe` has the same clock, one curl at a time, and the three ways in
which its paging ends.

### SyncClient, PhysicalSync, PreparedPack, PhysicalPack

The validators have no state, so each is a list of labelled checks (`First` of
`Checks` is the first that fails, in the code's order) put into a *client* that
does what the caller of the validator must: take the keys, then a base, then
apply what is accepted and ask again. The Hub is any member of `Answers`, at any
time, however often. The properties are about the client after any number of
steps: its next request is one the profile accepts, its base moves only as
answers of each kind may move it, and its checkpoint stays on its own lineage
although identifiers, manifests and the signing key are shared with others.

`PreparedPack` and `PhysicalPack` judge one artefact; their properties compare
the verdict with what the artefact *is*: the ticks of a month, the rows that
changed between two states, the projection a reader computes from them.

### SqliteWalk, SqlitePage, SqliteRecord, PackStream

The algorithms are step by step (a stack, a scheduled set and claimed roles; a
chain of free blocks, then cells, then gaps; a header, then a body; frames, then
blocks, then output), the reference definitions are declarative:
`ForestOfThePages`, `WellLaidOut`, `Encodings`, `WholePack`. Widths are
parameters. What SQLite itself decides beforehand (`PRAGMA integrity_check`, the
schema rows) is left out.

### DeveloperBundle and BundleImage

`DeveloperBundle` is processes and files: a build reads two files while they are
edited, writes a temporary, replaces the archive, then writes the checksum, then
verifies; extractors test the target, fill a directory of their own and rename
it. Any process may be killed at any step. `BundleImage` is the inside of an
archive: `BuildOf` builds one, `VerifyCheck` verifies, and `AcceptsBuilds` says
that verification accepts exactly the archives some build makes. A name is a
path as it is spelled; `PartsOf` is what `PurePosixPath` makes of it, so that
`doc` and `./doc` are two names and one file, and `../doc`, `cand/../doc` and
`/doc` are there to be refused: by `safe_relative` for members (`Misplaced`), by
the manifest's and the candidate's checks for what they list. `Place` says where
the file system puts what is written to a path, and `ExtractsInside` that
everything extraction writes has a place of its own inside the directory made
for it. Two extractions may both find no target; the rename of the second
onto the first's directory fails because it is not empty, which is the kernel's
rule (`TargetFree`), and `TargetWhole` says that every extraction that returned
has its own archive under the target.

## 3. The runs

| Run | Shows |
|---|---|
| `case_verdict` | `PassEarned`: a two-step case passes only on one correlated answer per step, in order, with nothing else written; `CleanMeansExact`, `CleanIsFinal` of the session under it |
| `case_settles` | `CaseSettles`: a case is reported whatever the adapter does; `KilledGroupDies`: a stopped session, or one with retained pipes, ends the whole group, members that ignore SIGTERM included |
| `case_cooperative` | `CooperativePasses`: an adapter that follows the protocol passes when no timeout runs out |
| `adapter_survivor` | a **violation**, see below |
| `control_session` | `QuietAgreement`, the refinement of `LifecycleSession` and `RequestEnds` (the lock is always given back) against every fault but `early` |
| `control_wire` | `WireDiscipline`, `FailureIsLast` against every fault |
| `matrix_run` | `PassSound`: a run in which every case passed met none of the thirteen defects it can see and ends with the service up and a live bearer; `CredentialsInStep`, `AnchorsEnclose`, `NeverOutOfTurn` whatever fails on the way |
| `hub_runs` | `NothingSpared`, `OneLife`, `NativeExact`, `ExchangeExact`, `ProbeExact`, and that all four end (`RunsEnd`) |
| `files` | `AckExact`, `StagingBound`, `AdmissionExact`, `BundleFiles`, `AcceptsBuilds`, `ExtractsInside`, and that waits and extractions end (`FilesEnd`) |
| `sync_statements` | `SyncSafe`, `LineageKept`, `PreparedExact`, `DeltaCovered`, and that neither client goes back (`Continues`) |
| `sync_images` | `WalkExact`, `PageExact`, `RecordExact`, `FramesExact`, and that every image is judged (`ReadersEnd`) |
| `prepared_labels` | a **violation**, see below |

Several properties have named parts, each stated with its own comment in the
module:

| Property | Its parts |
|---|---|
| `NativeExact` | `PassSound` (no defect passes), `NeverSpoiled` (a fixture left alone with a sound hub fails only for its receipt or a used session), `ReadInLife` |
| `ExchangeExact` | `NothingHeld`, `PinnedFirst` (no byte before the leaf is compared), `OneDeadline`, `UnavailableUnanswered`, `ReturnedWhole` |
| `ProbeExact` | `PassedComplete`, `PagesOnce`, `OneTimeout` |
| `AckExact` | `AcceptedBound`, `LinkedAckTaken` |
| `StagingBound` | `UsedIsBound`, `OneConfiguration`, `NothingOpen` |
| `AdmissionExact` | `RestartReal`, `RestartAdmitted`, `OwnEvidence` |
| `BundleFiles` | `SuccessBinds`, `TargetWhole`, `NothingLeft` |
| `SyncSafe` | `RetryAccepted`, `TrustBound` |
| `LineageKept` | `OnOwnLineage`, `RetryFits` |
| `PreparedExact` | `MonthExact`, `OneReceiptPerPack`, `PromiseKept` |
| `DeltaCovered` | `ScopeCovers`, `RootsComplete` |
| `WalkExact`, `PageExact`, `RecordExact`, `FramesExact` | `StackInStep` and `VerdictExact`; `LayoutExact`; `VarintExact` and `ReadsBack`; `PackExact` and `OutputBounded` |

**Bounds of the first modules.** `QueueSize = 2` is the code's own value. Three
lines of output are one more than the queue holds, which is what it takes to
fill it, drop the sentinel and still have a line in the pipe. One descendant is
enough to hold a pipe the leader let go of, to leave the group, and to outlive
the leader; a second would add no kind of holder. Two steps let an early answer
to the second be read as the answer to the first. Two callers are enough for an
overlap and for a close under a request in progress; three requests and three
frames cover a reply repeated behind one good exchange, and a failed request
with one before and one behind it. A
matrix run has a fixed length. Defects mask one another at most in pairs or
threes (a bearer that a rotation dropped is refused for another reason than the
revocation), so four at once, without passing faults, leave room; with at most
one defect there are two faults, so that a second strikes a case that already
runs on what a failed one left behind. The proofs below remove the bounds for
most of the safety properties.

**Bounds of the others.**

* `hub_runs`: two descendants and two interrupts (a second interrupt inside the
  `finally`, which is the last that changes anything); five drives in pages of
  two, so that there is a first, a middle and a short last page; each of the
  defects alone; two changes of the fixture (away and back); one tick of
  patience; two addresses, two parts of everything that comes in parts, a
  deadline of two ticks in a clock of three, two exchanges that share a
  transcript; up to seven drives for three pages of two, one more than fit.
* `files`: a record of two writes, so that there is a half; a deadline of two
  ticks; three sessions and two versions of each staged file with six
  replacements, which is every file once and one over; five operations, two
  stops and two starts around a case, two sessions; documents altered in one
  place, for windows that begin with the first operation; two extractors, one
  edit, two builds and one kill; one archive with up to two alterations and one
  with a single one, each that can be read also with its sums, or manifest and
  sums, computed again; paths absolute, empty, respelled and with `..` first or
  inside.
* `sync_statements`: two receipts, three sequence numbers, both schemas and the
  ranges around them, with every combination of asked, next and retry and one
  flaw of any other kind; three sources of which two share a vehicle and all
  share identifiers of two lengths, of which a request holds one long and one
  short; two years of two months, so that a year ends inside the calendar and at
  its end; two roots and one child that moves between them.
* `sync_images`: three pages and depth one, which has room for a root, a child
  and an overflow page and so for every way two of them can be one; nine bytes
  per page with two free blocks and two cells; bytes of two bits with varints of
  nine bytes as in SQLite, because what differs is the ninth byte and the number
  of groups, not the width of one; two frames cut after every byte, reads of
  three bytes and a limit of eight, so that output ends inside, at and behind a
  read.

**Deadlock** checking is off: sessions, runs and clients end, and bounds on
lines, requests or edits are reached.

**Fairness.** `FairSpec` of `AdapterSession` assumes that the main thread's
enabled step is eventually taken, that the reader threads and a writer that
gets `EPIPE` run, and that a process with a pending SIGKILL dies. Those are the
operating system's promises; waits with a timeout are steps of the main thread,
so their fairness is that clocks advance. Nothing is assumed of the adapter: it
need not read, write or exit. `FairSpec` of `ControlClient` assumes that a
thread inside `request` is scheduled, closing the socket included, and nothing
of the broker.
`CooperativeSpec` adds fairness of an adapter that answers each request, which
is what the run is about. `BoundFairness` is that of the session: the runner and
the kernel. `ExchangeFairness`, `ProbeFairness`, `NativeFairness` and the fairness
of `CloseAck` are that the clock ticks and the program's own next step is taken;
peer, curl, fixture and publisher may stay silent for ever. `BundleFairness` lets
a build and an extraction that were not killed go on. `WalkFairness` and
`StreamFairness` are that a computation computes.

**Findings.**

* `adapter_survivor`: `finish` signals the adapter's group only when one of its
  waits expires or a reader thread is still alive. A descendant that inherited
  none of the pipes is noticed by neither: `finish` returns `None` and the
  descendant lives on in the group while the next case starts.
  `docs/guides/conformance.md:159-161` says that a process "exits; state never
  leaks into another case or profile". `run_actual_hub` signals the group after
  a normal exit as well.
* `prepared_labels`: a receipt that names the last month of the calendar makes
  `datetime(10000, 1, 1)`, and the `ValueError` leaves a validator of which
  `conformance/hub_sync.py:39` says "Only fixed labels leave this validator."

Four smaller disagreements, seen in the models and not turned into runs:

* A close acknowledgement written in place may be read when it is half written.
  It is then refused as invalid and not read again (`hub_matrix.py:1194`):
  only a file that cannot be *opened or read consistently* is. The repository's own
  test publishes with `_write_exclusive_json`
  (`tests/test_protocol_v2_adapter.py:264-268`). `LinkedAckTaken` is about a
  publisher that links a whole file.
* `docs/reference/hub-sync.md:119` asks that a rebase's retry fit a request;
  `hub_sync_14.py:161` checks no such thing for a changed set's target, so a
  client may reach a checkpoint it cannot ask from. `RetryFits` is stated for
  rebases.
* `docs/guides/developer-bundle.md:41` says that the adjacent checksum binds the
  archive; a build killed between the two replacements
  (`developer_bundle.py:250`) leaves a pair that disagrees, until the next
  successful build. `SuccessBinds` is about a build that returned.
* `docs/guides/conformance.md:106` says that changed hashes fail closed.
  `SessionInput` is read once for its digest and again for its contents
  (`hub_matrix.py:401`), and the second reading is not compared with the digest.
  What a run uses of it is still bound (`UsedIsBound`, `OneConfiguration`).

## 4. What is proved

`SessionProofs`, of `AdapterSession`, from `SessionAssumption` (positive capacity and steps,
no bound on anything else):

* `TypeCorrect`, `CleanExact` (`CleanMeansExact`) and `CleanFinal`
  (`CleanIsFinal`), all from the inductive invariant `IInv`.
* Neither property is inductive. A clean verdict is computed from locals
  (`retained`, `extra`) that were assigned earlier from racing threads, so
  `IInv` carries a ledger: a reader that left its loop without an error put
  every line and nobody holds stdout (`Reading`); until the drain, lines taken
  are lines handed out (`Accounted`); a drain with no retained pipes starts
  after both readers ended and ends with the queue empty (`Finishing`); every
  line drained without counting as extra is blank (`Drained`). Together they
  give: taken = put = everything ever written. `Accounted` is also what makes
  `TypeOK` hold (`handed <= taken`). `Live` (only living processes have pending
  signals) is needed because an exit status, once there, must stay.
* `HoldersShrink` is the one fact about processes: once nobody holds stdout
  nobody can hold it again, because a new descendant inherits only what its
  parent has.

`SessionProofs`, of `CaseRun`, from `SessionAssumption` as well:

* `CaseTypeCorrect` and `PassIsEarned` (`PassEarned`). Each step of the loop is
  a step of the session (`SessionStep`), so `IInv` holds here without another
  word. On top of it, `CaseInv` relates the loop to the session's ledger: the
  line in the main thread's hands is the last one taken, the one a request
  returned is the last one handed out (`InHand`); a case that is to send step
  *i* was handed *i - 1* lines (`Progress`), each the answer to its step
  (`Answers`); without an error the loop ends only behind the last step
  (`Complete`). A PASS then combines them with `CleanMeansExact`, which says
  what the lines behind the last answer are.

`ControlClientProofs`, from `ControlAssumption`:

* `TypeCorrect` and `WireDisciplined`, for any set of threads and any broker of
  the model. `Locked` says what a thread at each point of `request` may rely
  on; `Fresh` that the challenge in hand was not used by the last request.
* `FailureAlwaysLast` (`FailureIsLast`). Nothing is sent behind a failed request
  unless a thread outside `request` is half way through `close`. `Window` says
  that the socket of a closed client is open only while the thread that set the
  flag still has to close it: one outside `request`, or the one that holds the
  lock, and then nobody else sends. `Locked` adds that a sender on an open
  client has all results before it.
* `Agreement` (`QuietAgreement`) and `Implements` (`LifecycleSpec`, the
  refinement), under `"early" \notin Faults`. The invariant speaks of attachments on
  which nothing strayed. The argument: no reply runs ahead
  of the operations performed (`Answered`), so an accepted reply to the newest
  request means that request was performed (`AcceptedMeansPerformed`); then the
  next request finds nothing outstanding (`SendMeansSettled`), so the broker
  never has more than one request to deal with, and the one it refused is the
  last (`HandlesLast`, `Performed`).
* The assumption is needed. A broker that sends a well-formed reply with the
  next sequence number and a new challenge before it has the request would be
  believed: nothing in a reply is derived from the request but its sequence
  number. The broker is the caller's own, on a private socket.

`MatrixRunProofs`, from `MatrixAssumption` (the defects and the faults are of
the modelled kinds):

* `CredentialsKept` (`CredentialsInStep`) is inductive by itself.
* `AnchorsKept` (`AnchorsEnclose`), for any defects and any number of faults.
  The property speaks of finished cases; `Anchored` adds what a case under way
  owes: its anchor lies behind the last case's, no proof runs ahead of the
  host's observations, and if the host was changed after the proof in hand then
  a step that observes is still to come (`WillObserve`). That last part is a
  fact about the scripts (`CasesObserved`): a stop is always followed by an
  operation that observes. A case that passes is at its end, where nothing is to
  come, so its proof is not older than its changes.
* `TurnsKept` (`NeverOutOfTurn`). A script is shaped by one number, the step at
  which it starts the service again (`Turns`): it stops it at its first step or
  not at all, and asks for no operation in between. While a case is under way the
  service is up exactly outside that stretch (`InTurn`). Nothing is claimed
  between two cases, where a failed outage may have left the service stopped:
  the observation of `capture` is refused then, and no case begins.
* `TypesKept` (`TypeOK`), whose one hard part is `pages \in 0..3`. Pages are
  turned by the eleventh case alone, at its even steps (`PageInTurn`), and before
  it none is in hand; so twice the pages in hand stay below the step
  (`PagesTurned`), however that case fails.
* `PassAlwaysSound` (`PassSound`), for every set of the modelled defects and any
  number of passing faults, where the run has at most four at a time and at most
  one beside a fault. `RunShown` says what a run without a fault so far
  (`Flawless`) knows of the Hub at each place of its scripts. Thirteen of its
  clauses each exclude a defect behind the step that would have met it; the rest
  carries what that step needs from the cases before: which invitation was used
  (`Claims`), that the bearers of a rotation differ in age and belong to one
  device (`Rotated`), that a revoked bearer is still known if the revocation was
  not done (`Replaced`), that a Hub that forgets knows nobody behind a start
  (`Restarted`). Two clauses are not immediate: a Hub that takes any secret, or
  an invitation twice, passes that case if the invitation expired just then, but
  no further case begins with an expired invitation (`Early`); and whether a
  revocation is deaf can only be told of a Hub that does not forget, which the
  restart, two cases later, excludes. A step is known by its place
  (`Doings`, `ActsAt`), and a case that ends is past all its steps (`Behind`).

`HubRunsProofs`, from `BoundAssumption`, `ExchangeAssumption` and
`ProbeAssumption` (all about numbers: nothing is empty, one or two addresses, a
clock that runs past the deadline):

* `NoneSpared` (`NothingSpared`), for any number of descendants and interrupts.
  `BInv`: what was never started is in no group, and from the SIGKILL on every
  member of the group is doomed. A doomed process forks no more, so no member
  can appear behind the signal; that is why the second part is preserved.
* `ExchangeAlwaysExact` (`ExchangeExact`), for any peer, deadline, parts and
  exchanges. `Held` says which of the local variable, the connection and the
  response may hold the descriptor at each stage, and that no address but the one
  in hand is held at all: so an error at any wait closes what there is. `Said`
  relates what was sent to whom the certificate check let through. `Counted`
  keeps the transcript and the request counter of several exchanges apart, which
  is what *returned whole* needs. `Judged` ties the label to what was heard.
* `ProbeAlwaysExact` (`ProbeExact`). The cursors asked for are all among those
  seen and no two are alike (`Asked`); the one in hand was not asked for yet
  (`InHand`), which is the code's own test, made before it asks; and what a
  truthful hub listed so far is the drives up to that cursor (`Listed`).

`NativeRunProofs`, from `NativeAssumption` and `ScenarioAssumption` (the defects
are those of the module, and a page is shorter than the list of drives, as the
scenario needs a second page):

* `OneLifeAlways` (`OneLife`), for any drives, pages, defects, patience and
  changes of the fixture. The invariant relates a position in the script with
  what the verifications before it established: the process described is life 1,
  a life once over does not come back, and the last verification found it alive,
  so every answer before it came from life 1. `ScriptShape` says where the
  verifications are in a script of any number of pages.
* `NativeAlwaysExact` (`NativeExact`). `Caught` lists, for each defect, the step
  behind which no hub with it comes; a pass is behind all of them. It is
  inductive only with what those steps rely on: which bearer is the current one
  and which the one in grace (`Bearers`), that the cursor is that of the next page
  (`Followed`) and that a whole receipt means that the update was made
  (`Appended`). `Seen` is what a verification under way has established, from
  which the configuration was read within the life it identified. That a fixture
  left alone fails only with an excuse (`NeverSpoiled`) is carried along.

`HubSyncProofs`, for clients that obey the validators and a Hub that may answer
anything of its kind, at any time:

* Every validator is a list of checks of which the first failure is the answer.
  `FirstPasses` and `FirstFails` turn that once and for all into *accepted means
  that every check held* and *refused with this label means that this one failed*;
  each validator then has a lemma that says what its acceptance amounts to
  (`RequestPasses` to `PackAdmitted`). The theorems are about those facts only.
* `SyncAlwaysSafe` (`SyncSafe`) and `AlwaysContinues` (`ReceiptsContinue`, one
  half of `Continues`), from `SupportedAssumption` and `AnswersAssumption`. The
  second is what the wire schemas and the status decide before any check: 409
  is a rebase, its schema is one the format knows, a no-op has one receipt.
* `LineageAlwaysKept` (`LineageKept`) and `AlwaysAdvances` (`Advances`, the other
  half), from `LineageAssumption` (the Hub publishes manifests of ascending
  sequence) and `MisboundAssumption`, which limits what a Hub may sign amiss: a
  receipt for a source may name any target, but one that is a published manifest
  just behind the base is one of that source's. Without it a Hub could sign
  another source's manifest into a lineage, and nothing in a receipt's own
  fields would show it. An altered statement is never accepted, whatever it says,
  because it is not sealed; a replayed one is refused by its base.
* `DeltaAlwaysCovered` (`DeltaCovered`), from `RowsAssumption` (roots and children
  are different rows, and a pack's context is of unchanged rows). The checks of a
  root compare *numbers* of children; `AllChildren` is why that is enough: what is
  counted is a subset of the children and finite.
* `PreparedAlwaysExact` (`PreparedExact`), from `CalendarAssumption` and
  `ReceiptAssumption`. The calendar is any ascending sequence of month starts
  (`StartOf`) of whole years; the code computes the end of a month by going to
  the next one, or to the next year's first, and `EndIs` and `FullIs` prove that
  this is the start of the next month except at the end of the calendar. Both
  directions are needed: a window that is accepted is the month (`MonthPasses`),
  and one that is refused for its month is not (`MonthFails`). That an admitted
  pack's tiles are those promised needs that a set grouped into parts of given
  sizes is as large as their sum (`Grouped`), which is proved with a bijection.

`FilesProofs`, from `CloseAckAssumption`, `StagingAssumption`, `BundleAssumption`,
`CaseAssumption`, `EvidenceAssumption` and `ImageAssumption`:

* `AcceptedIsBound` from `CInv`: an earlier run's file stops the wait at its first
  step, and what is compared with the evidence is whole and of this session.
* `AckAlwaysExact` (`AckExact`) adds `LInv`: a file that was linked is whole from
  the first look on, and while its name is free nothing was read.
* `StagingAlwaysBound` (`StagingBound`), for any sessions, versions and number of
  replacements, if no two versions of the header are alike (`HeadersDiffer`).
  The configuration is made of a header that was read before any digest was
  known. `SInv` orders the readings: a later one is never of an earlier version,
  because a file does not return to contents it had. The header read last agrees
  with the configuration, so it is the version read first, and the digest was
  compared with a version between the two. The other files are compared with the
  session after they are read, or with a manifest that was.
* `SuccessAlwaysBinds` for any numbers of edits, builds, kills and extractors. `Way` follows a payload from the
  temporary to the archive and its checksum.
* `FilesAlwaysWhole` (`BundleFiles`) adds `Extraction`: an extractor works on one
  whole image, owns a directory only between its test of the target and its
  end, and gives the target every member it wrote; and `Kept`: every extraction
  that returned has its own archive under the target, whichever came first. A killed one keeps its
  directory, which is why the property exempts it.
* `AdmissionAlwaysExact` (`AdmissionExact`), for sessions of any length, any rows
  exported by an honest adapter and any truthful alteration. `LogInv` is what the
  validator may rely on: a start stands directly behind a stop and names it and
  the row before it, and generations and stores never go back. The hard part is
  that rows may be missing (`JoinSees`). If a row that is no start had another
  generation than the running row before it, then the next row that *was* exported
  is either no start, and has a later generation than the exported row before it,
  or a start, whose origin is not that row; both are refused. `UnseenRefused` is
  the converse, for a full export. `EvidenceOwn` needs two assumptions.
  `CaseAssumption`: two cases differ in operation or in facts, as they do in the
  contract (`matrix_contract.py:62-86`, `255-330`; the two that share
  `observe_identity` are told apart by their facts alone). `EvidenceAssumption`:
  evidence says truly of which session, operation and window it is, and is not
  given the facts of another case. The validator compares nothing else, so
  without it no comparison could tell. That no id is counted twice goes through
  the list of ids (`IdsDiffer`), of which the positions are cardinalities.

* `AlwaysAcceptsBuilds` (`AcceptsBuilds`), for any paths, any required ones and
  any archives that have the form of one (`ImageAssumption`, which says nothing of
  what they contain, and of paths that each file has one canonical spelling and
  that no part but the first is a separator). A sorted list is given by the ranks of its paths, so that
  the proof can say that a set has one strictly ascending listing and no other
  (`SortedLists`, `OnlyListing`). That is what makes verification exact: the
  checks of order, of duplicates and of membership leave one list of members, one
  list of files and one list of executables for the files there are, so the
  manifest, then the sums, then the members must be those a build would write
  (`OnlyBundle`, `AcceptedBuilt`). `BuiltAccepted` is the converse, check by check;
  it needs that what a build writes is in the repository and canonically spelled.
* `AlwaysExtractsInside` (`ExtractsInside`), for the same archives. The place of a
  path without `..` that is not absolute is the directory followed by its parts
  (`PlaceIs`, over a recursive function, by the least argument at which it would
  fail), so two files meet only if their parts are equal or one's begin the
  other's, which the checks of duplicates and conflicts exclude.

`HubImagesProofs`, from `PageAssumption`, `StreamAssumption`, `WalkAssumption`,
`WidthAssumption` (sizes, bounds and widths are numbers) and `PageForm`,
`StreamForm`, `WalkForm`, `RecordForm`, which say that a field read from bytes is a
natural number, that a frame's header is as long as RFC 8878 makes it, and that a
row to be written has values the encoder takes (numbers of eight bytes, finite
reals, well-formed texts, sizes a varint can hold). None of them says that an
image, a pack or a payload is sound.

The four properties are equivalences between what a reader does step by step and
a definition of the whole, so each invariant has two directions: what was read so
far is the beginning of something whole, and a refusal contradicts every way in
which the rest could make it whole.

* `PageAlwaysExact` (`PageExact`). `PageInv` has, in front of the cells, a chain of
  free blocks in ascending order that lie apart (`Chained`), and behind them
  cells that share no byte with one another or with a block. A block that is
  refused could be no free block of the page's one layout (`NextBlockFits`), as
  the blocks before it are the first runs of free bytes (`ChainPassesAll`,
  `NextIsHead`). At the end the gaps the code computes are the runs of bytes that
  no cell takes (`GapsAreRuns`), so that the chain must hold the wide ones and
  the fragments count the others (`AcceptedIsLaidOut`, `LaidOutIsAccepted`).
* `FramesAlwaysExact` (`FramesExact`). `StreamInv` names the frame, or the frame and
  the block, at which the reader stands (`AtFrame`, `AtBlock`): everything in
  front of it is sound and whole, and the size announced so far is at most the
  output of those frames, *if* they are honest. The condition is needed: a frame
  that announces more than it holds is met before it is decoded, and the reader
  may then refuse for its size a pack that no honest announcement would have
  refused; that it is no whole pack comes from the dishonest frame.
* `WalkAlwaysExact` (`WalkExact`). The properties of the stack are nearly inductive;
  the verdict is not, since no variable of the program says why a page was met.
  `WalkInv` says that books could have been kept (`Books`): for every page
  claimed or scheduled the reference that led to it, for every B-tree page its
  depth and its tree, and for every link still to be followed the reference it
  follows. The references of the pages visited are then those that led to a
  page and those still ahead, where the pages of an overflow chain stand one
  behind the other (`Behind`). A second reference to a page has another name than
  the first (`MetBefore`), one that leaves the image or goes too deep is in a
  tree that does (`OutsideOrTooDeep`), and a chain that is cut or goes on is no
  exact one. When nothing is ahead, every page of every level was visited, at
  that depth (`AllVisited`), and the image is a forest exactly when all pages were
  met (`ForestMet`). The guard on the number of pages (`Schedulable`) refuses
  nothing by itself (`RoomLeft`): a page not yet met leaves room for it.

* `RecordAlwaysExact` (`RecordExact`), for bytes and varints of any width, any
  payloads, any numbers of columns and any rows the encoder takes. What a varint's
  bytes spell is computed from the left, as the code does (`Spells`), and a run of
  bytes is canonical when no shorter run could spell as much (`NotShorter`).
  `Encode` spells its number and nothing shorter does (`EncodeFacts`), and two
  canonical runs for one number are the same bytes (`RunsAlike`), so *equal to its
  own encoding* and *shortest* are one condition (`VarintIs`, `PlainIs`). The
  longest varint, whose last byte has all its bits, is a case of its own in every
  one of these lemmas (`ShortEncode`, `LongEncode`). A value goes back to itself
  through its serial type and body (`FieldBack`, with two's complement in
  `IntBack`). `RecordInv` then says that what was read so far stands in the payload
  as the encoding of the types and values in hand, and, if the payload was
  written for a row, that they are the first of that row; nothing written for a row
  is ever refused.

Levels, chains, links, sums, powers and joined sequences are recursive functions.
That such a function exists and what it does at every argument is proved without
an induction theorem: the arguments at which it fails are a set of numbers, and the
least of them (`MinOf`, from the well-founded order of the numbers) contradicts
the one before it (`RunningExists`, `RecursionExists`, `LevelFacts`, `ChainFacts`,
`FlattenIs`). The prover has no axioms of `^`, so `SqliteRecord` has its powers
from a definition of its own (`Power`).

Proving `WalkExact` changed its definition. `ForestOfThePages` had numbered cells and
the places of a chain up to the number of pages. A page may have more cells than
the image has pages and a cell may promise a longer chain, and the definition did
not see two of those references name one page. The references are now counted
as they are (`References`), without a bound.

The theorems are stated of each component's own specification (`BoundSpec`,
`ExchangeSpec`, `ProbeSpec`, `NativeSpec`, `AckSpec`, `StagingSpec`, `BundleSpec`,
`AdmissionSpec`, `ImageSpec`, `SyncSpec`, `PhysicalSpec`, `DeltaSpec`,
`PreparedSpec`, `PageSpec`, `StreamSpec`, `WalkSpec`, `RecordSpec`), which the sums run side by
side.

The invariants were checked by TLC before they were proved, except the books of
`WalkInv`, which TLC could only search for; the steps they are kept by were tried
on the runs through `WalkExact`.

**Only model-checked.**

* `Continues` as one property: its halves are theorems of the specifications of
  the two clients, and the run checks their sum.
* Liveness (`KilledGroupDies`, `CaseSettles`, `CooperativePasses`, `RequestEnds`,
  `RunsEnd`, `FilesEnd`, `ReadersEnd`): the prover does not handle `ENABLED`.

## 5. Not modelled

* **Hosts that are not POSIX**: `_signal_process_tree` has another branch.
* **Reuse of process numbers**: `killpg` after the leader was reaped
  (`runner.py:691`) may in principle reach another group once this one is empty.
* **An `OSError` while a pipe is read**, and locks inside Python's streams, which
  `_close_pipes` avoids (`runner.py:833`).
* **What observations and pages contain**, beyond right or wrong, and the
  evidence files a matrix run would write: `_complete_v2` refuses in any case.
* **The greeting** of the control client (`connect`), and the shape checks of
  its descriptor: the model starts on an attachment past its greeting.
* **Concurrent builds** of a bundle share one `.tmp` name
  (`developer_bundle.py:240`); `DeveloperBundle` has one builder.
* **The probe's remaining time after curl started** (`check-current-hub:242`):
  the model takes the two readings of the clock as one.
* **Who calls `_wait_for_close_ack`**: nothing in the repository but its tests, as
  the publication before it is refused. It is modelled as tested.
* **Signatures, hashes and schemas** stand for what they bind.
* **Which rebase a Hub signs**: `verify_rebase` compares no sequences, and
  `docs/reference/hub-sync.md:17-19` gives a replacement to an older base only; so
  the hints of `PhysicalSync` lead forward.
* **Where a child moved from** (`hub_sync_14.py:386-387`): the old owner is not in
  the row and not in the pack, and the code leaves it to a caller with the base.
  `DeltaCovered` is about packs whose witnesses name the old owners.
* **The second validation of a session** (`hub_matrix.py:1256`, `1323`):
  `MatrixStaging` takes one pass.
* **The month-by-month order** of a prepared pack's checks of resolution, order
  and publication size (`hub_sync.py:1061-1078`): each is made for all months
  together, which may change the label but not the verdict.
* **Text**: messages and payloads, beyond the classes named above.
* **Contract loading and response checks** are one pass over immutable files;
  what a response check decides is an input of `CaseRun`.
* **Edge delivery**: the repository holds schemas and vectors. The edge and the
  hub that lose, repeat and acknowledge batches are elsewhere, and there is no
  code here whose steps a model could translate.
* **The fixture reducer, the generators**: folds over literals they contain.

## 6. What is left

1. The connection phase of `ControlClient`, and with it the loss of an
   attachment between two operations of a matrix run as a composition of the
   two modules.
2. Contract loading as a validator against a reference (`ProfileChain`), over
   small sets of profiles that extend one another.
3. Proofs: the two halves of `Continues` joined to one theorem of the sum of the
   two clients.
