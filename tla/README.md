# A verification of DocGenerator

DocGenerator renders the documents of a school platform. Its main program is a
RabbitMQ worker (`src/worker/doc_worker`) that takes a request, renders a PDF,
stores it, and tells the *Harmony* service how the job ended; a second, older
program (`src/main.py`) fills an ODT template and has LibreOffice convert it. This
directory holds TLA+ models of both, TLC configurations that check them, and
proofs that TLAPS checks.

    tlc -workers 2 -config worker_s3.cfg MCDocumentWorker.tla
    tlapm DocumentWorkerProofs.tla

## 1. The system

| Part | Source | State | Operations | Hard behaviour |
|---|---|---|---|---|
| Document worker | `worker.py` | the delivery it holds; everything else is in the broker | `_consume`, `_handle`, the settlements, `start` | crash or disconnection between two effects, two workers on one request |
| Queues | `_declare_topology` (RabbitMQ) | main, retry and archive queue, unacknowledged deliveries | publish with confirm, deliver, acknowledge, dead-letter | lost confirms, redelivery, a full retry queue, a dead letter delivered twice |
| Installation | `renderer.py` 694-782 | output directory | create-once link, comparison, directory sync | concurrent processes, loss of power |
| Publication | `storage.py` | bucket object and its versions | read back, conditional upload, verify | shared staging file, lost answer, altered object |
| Callbacks | `notifier.py`, `http_client.py`, continuations in `worker.py` | the continuation | encode, decode, `notify_success`, `notify_failure`, post | applied but not answered, garbled answer, redirects, bounds |
| `safe_idle` runtime | `runtime.py` | stop event, heartbeat counter, HTTP server, one thread per probe | start, heartbeat, probe, stop handler, shutdown | signals at any instruction, a lock that is not reentrant |
| Settings | `config.py` | none | bounds of `Settings`, `validate_settings` | what one check leaves to the next |
| Request contract | `renderer.py` 92-600 | none | `parse_document`, five families, evidence of reviews | checks that raise what nobody catches, sums that must agree |
| Entry point | `doc_worker/main.py` | none | settings, then `safe_idle` or the worker | |
| ODT command line | `main.py` | temporary files, `modified.pdf` | checks of the data, loops, variables, repackaging, conversion, move | nested and unbalanced markers, a shared output directory, leftovers of failures |
| Page content | `renderer.py` 784-1112 | none | `render_*` | |
| Integration scripts, packaging | `worker/scripts`, `Dockerfile`, `deploy` | | | |

The producer (Harmony's outbox) puts a request on the main queue. The worker
holds one delivery at a time (prefetch 1). It renders into a directory that all
workers share, publishes from there (in `s3` mode to the bucket, after which it
removes the staging copy), and calls Harmony. A failure becomes a *retry*: the
same body, or a compact *continuation* that only repeats a callback, signed with
an HMAC over body, attempt and mode, and published to a retry queue from which
it comes back when it expires. When the attempts are used up, or the request can
never succeed, an *envelope* goes to the archive queue. The delivery is
acknowledged last.

What makes each part correct:

- worker: no request is lost silently; `done` only for a stored artifact; one
  verdict per request that was not replayed; attempts counted truly; only signed
  retry state is believed; only failures duplicate a request; what is reported failed is in
  the archive; every request leaves the queues (but for those of `doc_uncaught`
  and those whose failure reports are answered with garbage for ever);
- installation and publication: one identity per name; what is reported is
  durable, and is what the reported version holds;
- settings, request contract, callbacks: what one of them accepts the next one takes;
  the token stays with Harmony;
- runtime: a stop signal stops it, and the heartbeat with it; probes are told the truth;
- ODT: every part of a template is filled by itself, the command ends, and leaves its own
  document or none.

## 2. The modules

| Module | What it is |
|---|---|
| `DocumentWorker` | the worker, its queues, the stores and Harmony as effects |
| `DocumentJobs` | abstract specification: a job is open, gets outcomes, is closed |
| `DocumentStore` | abstract specification: a name gets one identity for good, and that is what is reported |
| `MCDocumentWorker` | small instances of `DocumentWorker` |
| `DocumentWorkerProofs` | `TypeCorrect`, `NeverSilent`, `Implements`, `OnlyFailuresDuplicate` |
| `DocumentWorkerArtifactProofs` | `DoneIsStored`, `StorageKept`, `FailuresAreArchived`, `OnlyGarbledLoses` |
| `DocumentWorkerLineProofs` | `VerdictsAgree`, `StagingIsRemoved` |
| `DocumentWorkerRetryProofs` | `RetriesBelieved`, `AttemptsAreCounted`, `RetriesRunOut` |
| `ArtifactStore`, `MCArtifactStore` | one destination file and one object key, several processes |
| `ArtifactStoreProofs` | `StoreTypes`, `LocalReports`, `ReportsAreDurable`, `IdentityIsOne`, `VersionsHold`, `StoreIsWrittenOnce` |
| `WorkerSettings` | `validate_settings`, and the checks of URL, token and timeout |
| `RequestContract` | `parse_document` and its validators |
| `HarmonyCallback` | continuations, the checks of `notifier.py`, answers |
| `JobContract`, `MCJobContract` | one job through these three, stage by stage |
| `JobContractProofs` | lemmas about the parser; six theorems about `JobContract` |
| `SafeIdle`, `SafeIdleProofs` | the `safe_idle` runtime; `IdleTypes`, `HeartbeatStops`, `ProbesToldTrue`, `SignalsAreKept`, `FirstSignalFree` |
| `OdtTemplate`, `MCOdtTemplate` | the ODT command, several at once |
| `OdtTemplateProofs` | `FlatTemplates`, `LoopsAlwaysRunOut`, `OutputsAreOwn` |

`DocumentWorker` sees a rendering or a publication as one step whose failure may
leave its effect behind; `ArtifactStore` is the inside of those steps.
`DocumentWorker` knows of a request its kind (what parsing it does) and of a
callback its outcome; `JobContract` has the checks that decide them.

`DocumentStore` is what rendering and publication promise together. `ArtifactStore` implements
it for the processes that share one name (`stored` is the durable entry in `local` mode and the
first object of the key in `s3` mode, `reported` what was reported to Harmony), with their
system calls, races, failures and losses of power. `DocumentWorker` implements it for all its
requests, each with a name of its own, with their retries, replays and cleanups.

### DocumentWorker

`pc[w]` is the next effect of worker `w`: `_consume` decides in `Deliver`,
`_handle` is `RejectRequest`, `Render`, `PublishDocument`, `Unlink`,
`NotifySuccess` and their failures, a continuation is `DeliverCallback`, the two
settlements choose the message in `out[w]` and `ConfirmRetry`, `ConfirmArchive`
or `PublishFails` publish it, `Ack` or `AckFails` end the delivery. Everything
between two effects is local to the handler and belongs to the step.

The queues are places (`Id`) that hold a copy of a message: `main`, `retry`,
`unacked` or `free`. Their order is abstracted. `tag[w]` is the delivery tag the
channel still honours; after `Disconnect` it is gone while the handler goes on,
which is how two workers come to run one request. A publication on a dead
channel fails, an acknowledgement too.

A signature is the record it covers, which only a worker builds. A message that
came back through the retry queue has `died` set, the `x-death` header. Bodies
are a source and whether it is the request or a continuation. The kinds of
request stand for what the parsing code does with them; `uncaught` is a body on
which parsing raises an exception no clause names. `Batch` is what the producer
sends in one behaviour.

Ghosts: `accepted` (what the broker took), `tries` (runs of `_handle`), and
`repeated` (requests that were put back unsettled: nacked, disconnected,
duplicated by a lost confirm or a doubled dead letter, or whose callback
response was garbled, after which the request itself is retried). A property
that excepts `repeated` requests says what the code ensures without replay, and
`doc_replay` shows what happens with it.

### ArtifactStore

Each process runs `_build_pdf` (temporary file, sync, link or compare, directory
sync), `publish_document` (read back; in `s3` mode conditional upload, and
verification of the upload or of the object that was there), the removal of the
staging file and the report, one step per system call or request. Bytes are
compared as model values: digest and size are taken to identify them. The
directory has a cached and a durable entry; `PowerLoss` keeps either, and tears a
file that was not synchronised. `Alter` stands for another writer of the key.

### Settings, request contract, callbacks: JobContract

A JSON value is a record with its type; an object has its members at their names; of a
list only its length and its items (all alike) are kept. A text is a word that stands for its
characters, its length when stripped and the blanks around it; patterns are the sets of words
that match them. A check ends `ok`, `refused` (the exception the caller expects) or `raised` (any
other), and `a & b` is `b` when `a` is ok: the first check that is not ok decides, in the
order of the code. The operations of Python that only some types have (`Strip`, `Sized`, `Compare`,
`Hash`, `Members`, `Distinct`, `Subscript`) stand between the checks, where the code applies them,
and raise on values of other types. So a check of a type that is missing, or comes too late, shows
as `raised`. A continuation is measured in bytes of ASCII JSON, where a character takes
one to twelve.

`JobContract` starts from good settings and a good request (`Case`). `Alter` lets the producer
send something else; settings that differ in one field are cases of their own. `StartWorker` is
`doc_worker/main.py`, `HandleBody` the parsing in `_handle`, `Publish` and `GiveUp` end with
`_callback_body`, `DeliverCallback` with the checks of `_decode_callback_body`, the notifier and
`_post_callback`, and `Open` sends the token. A redirect is refused (`RefuseRedirect`). The stage
`stuck` stands for a job one of these refuses although the one before accepted it.

### SafeIdle

`main` is where `run_safe_idle` is, `frames` the stack of handler runs on top of
it, since Python runs signal handlers on the main thread between two
instructions. `Event.set` is two steps, taking the lock and releasing it, so
that a signal may come between them. `shutdown` and `serve_forever` are modelled
from the standard library. The waits are abstracted from their durations. Each
`probe` is a request to the health server on its own thread: it is accepted while the server
serves, reads the counter under its lock, and is answered later, or stays open for ever.

### OdtTemplate

A text is a sequence of words and of markers for variables, loops and ends of loops; a
template is a sequence of parts, each a plain text or a loop, or any text when markers are to be
nested or unbalanced. `ProcessLoop` is one iteration of `process_loops_in_content` (the first
opening marker and the first closing one after it), `ReplaceTop` what follows the last.
Every step may fail. LibreOffice may end well, end badly whether it wrote or not, or end well
without writing (ghost `quiet`). `files` is what the output directories hold, the intermediate
`modified.pdf` among it.

## 3. The runs

| Run | Instance | Shows |
|---|---|---|
| `worker_s3` | 2 workers, `s3`, 1 retry, 1 failure; a valid request alone, or any of a refused, an uncaught and a forged one together | the safety properties and the refinement of `DocumentJobs`, with contention for the one place of the retry queue |
| `worker_local` | 1 request, 2 workers with 0 and 1 retries, `local`, 2 failures | silence, verdicts, attempts, copies and archived failures while instances disagree on the bound, and the refinement of `DocumentStore` where Harmony reads the shared directory |
| `worker_live` | 1 request, 1 worker, 2 retries, 1 failure | every retry is further than what it follows (`RetriesAdvance`), and `EventuallySettled`, with every way a callback may end |
| `artifact_store` | two deliveries of one request and a name twin, each run twice, 1 fault | all properties of `ArtifactStore` and the refinement of `DocumentStore`, both modes, with and without versions |
| `job_contract` | a good request of each family with up to 2 changes, good settings with up to 1 | what one component accepts the next one takes |
| `safe_idle` | 1 signal, 1 probe, 4 beats | the runtime stops, the heartbeat with it; no signal is lost, the first never waits for the lock; probes are told the truth |
| `odt_template` | templates of up to 3 parts or up to 6 markers, lists of up to 2 items; two commands | parts are filled, loops use up their closing markers, the command ends, its document is its own |
| `doc_replay`, `doc_garbled`, `doc_uncaught`, `doc_collision`, `doc_two_signals` | as small as shows it | what the documentation says and the code does not keep |

Bounds of the worker. One failure suffices to make two workers run one request, to duplicate a
message, and to lose any confirm or acknowledgement; `worker_local` allows two.
With one retry, both the first attempt and the last are reached, and a processing
retry followed by a callback continuation; `worker_live` has two, so that a retry follows a
retry. `Id` is large enough for every copy
one or two failures make; a publication without a free place is not taken, as
when the broker refuses. `TriesCap` is above the runs the checked claims count.
`RetryMax` is 1, so that a full retry queue happens when the three invalid requests compete.

Bounds of the others. Two runs per process let a process find the result of its own earlier run,
and three processes are what the collision needs. Two changes to a request (`MaxAlterations`)
reach every pair of fields that a check relates; `MaxEvidenceItems` is 2, since the checks of a
summary are sums of four counts and a count may already exceed its bound by one. Six markers
hold two loops and what is between them or one inside the other; `MaxTokens` is above the
longest text that values with plain words make, and cuts off only the loop over a value that
holds the loop itself, which has no end. `MaxBeats` bounds the counter only.
`CHECK_DEADLOCK FALSE`: each system comes to rest when all its requests are
settled, its processes have used their runs, its job is at its end, or the runtime has stopped.

Symmetry (`WorkerSymmetry`, `TwinSymmetry`) is used in runs without liveness and
where the permuted processes have the same parameters.

### Fairness

`DocumentWorker`: a worker that can go on does (`WF`), for every call it makes has a
timeout (`urlopen`, boto3, pika) and `start` loops for ever. The broker delivers
and expires. Strong fairness of the publications (`ConfirmRetry`, and
`ConfirmArchive` split by whether Harmony is told next) says that the broker does
not refuse one kind of publication for ever; without it a request is requeued for
ever by design (`reject-publish`). Nothing makes a callback, upload or rendering
ever succeed: `EventuallySettled` holds because the attempts are bounded. One failure is not
counted in attempts, the garbled answer to a failure report: the request goes back as it was.
`EventuallySettled` therefore says that a request leaves the queues, or that Harmony garbles its
answers to the failure reports of that request again and again. Crashes, lost connections and lost confirms are finitely many.

`SafeIdle`: the main thread, and the threads that call `shutdown`, go on when they can.
No signal is forced to come, and nothing is asked of the heartbeat or of the probes.

`OdtTemplate`: a command goes on, and LibreOffice ends, as `subprocess.run` without a timeout
assumes.

### What the violations show

- `doc_replay`: acknowledgement lost after `done`; the request runs again, exhausts
  its retries and reports `failed`. The README says replay is covered by idempotence. In the same
  replay the staging copy is removed again, and that may fail after `done`: the comment at
  `worker.py:402` (a cleanup failure cannot follow a success callback) holds of one run only.
- `doc_garbled`: `_post_callback` does not convert `http.client.HTTPException`, so the
  request, not its callback, is retried.
- `doc_uncaught`: a JSON integer above the interpreter's digit limit, and an evidence URL such
  as `http://[` on which `urlparse` raises, are plain `ValueError`s
  in `_handle`, and again in `_trusted_job_id` after the archive; the request is given
  back and archived for ever.
- `doc_collision`: the staging file is compared once and read again later. A finished
  twin may remove it and another run of it make it again in between, so that the
  bytes found in the bucket match a document that is not the request's.
- `doc_two_signals`: a second signal inside `Event.set` waits for its lock for ever.

Two more have no run of their own, and are the exceptions that two properties name:

- `EventuallySettled`: the exception of `doc_garbled`, raised by `notify_failure` once the retries
  are exhausted, passes the `except RuntimeError` at `worker.py:507`. The catch-all at
  `worker.py:539` gives the request back with the attempt it had. While the answers to its
  failure reports stay garbled, the request is archived, reported and run again for ever;
  `worker/README.md:141-142` says that a failure callback ends as one `callback-failed` envelope.
  Without the exception TLC finds this loop in the instance of `worker_live`.
- `AcceptedIsReportable`: a token with a character beyond Latin-1 passes `validate_settings`, although
  `validated_service_token` calls what it accepts header-safe (`http_client.py:109`), and no
  callback of that worker ever leaves it, because `http.client` encodes headers as Latin-1.

## 4. The proofs

Every theorem holds for every value of the constants that satisfies the assumptions
of its module (`KindAssumption`, `RetryAssumption`, `ContentAssumption`, `PiecesAssumption`, `CaseAssumption`, ...):
any number of workers, requests, processes, signals, probes and failures.

### DocumentWorker

- `TypeCorrect` (`Spec => []TypeOK`). `TypeOK` is inductive by itself. Its hard part is
  `HoldOK`: an unacknowledged copy is the message of exactly one live handler. This is
  what every later proof uses to know that an acknowledgement removes its own message.
- `NeverSilent` (`Spec => []NothingSilent`). The invariant adds `Tracked`: whatever exists
  belongs to an accepted request, and what a worker is about to publish belongs to the
  request it works on. So the step to `ack`, after which a delivery counts for nothing,
  follows a confirmed retry, a final envelope or a report for that very request.
- `DoneIsStored` (`Spec => []DoneImpliesStored`). The invariant `ArtifactInv` adds
  `StoredBefore`: the artifact exists for every handler past publication, every success
  continuation in a queue, in a handler or about to be published; objects are never
  removed, and files only in `s3` mode, where they are not what Harmony reads.
- `StorageKept` (`Spec => ImplementsStore`), from `ArtifactInv`. A step of a handler stores the
  document of its own request or leaves the storage alone, and reports only that request
  (`HandleStores`, `HandleKeepsPromise`); `Unlink` takes nothing away, since it runs in `s3`
  mode only.
- `Implements` (`Spec => ImplementsJobs`). A step maps to a step of `DocumentJobs` or a
  stutter; closing a job needs its outcome, which is `NeverSilent`.
- `OnlyFailuresDuplicate` (`Spec => []DuplicatesNeedFailures`). The invariant `DuplicateInv` has
  the bound for every set of requests at once (`BoundedFor`). A step of the broker or of a handler
  adds a copy only with a request accepted (`OneMore`) or a failure counted, moves one
  (`OneForOne`), or takes some away; a retry that is confirmed and the source it replaces count once, since a
  handler that is about to acknowledge no longer counts.
- `FailuresAreArchived` (`Spec => []FailedIsArchived`). The invariant `FailureInv` adds that every
  promise to tell Harmony of a failure (a handler at that call, a failure continuation wherever it
  is) comes after the envelope, and no envelope is taken back.
- `OnlyGarbledLoses`: `CallbackFailureKeepsArtifact`, which `doc_garbled` violates, holds when
  every response is HTTP. So the exception that escapes `_post_callback` is the only way in which
  a failed callback makes a request run again.
- `RetriesBelieved` (`Spec => []AuthenticatedRetries`). A copy in the retry queue is signed by a
  worker, with an attempt in range; a copy in the main queue or in a handler is signed and came
  back through the retry queue, or is the producer's own. So `_delivery_state` of what a worker
  published is never `None`, while the instances agree on `max_retries`.
- `VerdictsAgree` (`Spec => []CallbacksAgree`) and `StagingIsRemoved` (`Spec => []StagingRemoved`). A
  request that is not in `repeated` has a *line* (`Line`): at most one open copy; once a verdict is
  told, promised by a continuation, or its processing is archived as failed, that copy is held
  by the handler that ended it; only one of the two verdicts is told or promised; and the
  staging copy is gone from the step before the success report on. The three rest on each
  other: without the single copy another handler could end the request differently, or
  render it again. `ShapeInv` says how a handler's step, its message and what it is about to
  publish fit together. `Undisturbed` names what a step must not do to the line, and most
  steps of the broker, and all steps of handlers of other requests, are of that kind.
- `AttemptsAreCounted` (`Spec => []AttemptsAreHonest`). Everything in the system that stands for a
  number of runs (`Claim`: a queued copy, a handler that runs, a retry or an envelope about to be
  published, an archived envelope) claims at most `tries`, and exactly `tries` on a line. Only
  `Deliver` runs a request, and there the line says that its copy is all there is (`Alone`).
- `RetriesRunOut` (`Spec => []RetriesAdvance`), also while the instances disagree. A handler that
  runs believes the attempt of its message (`Forward`), since one with retry state that it does
  not believe went to the archive; what it queues again is that attempt plus one, or a
  continuation, which never becomes the request again. With finitely many stages and attempts
  this is the order along which `EventuallySettled` terminates, and `OnlyFailuresDuplicate` bounds
  the copies that go along it; what is left to fairness is that a message put back unsettled is
  not put back for ever, and nothing ensures it when failure reports are garbled.

So every safety property that a run checks of `DocumentWorker` is also proved. `NoSignatureAssumption`
says that a message without signature has none.

### ArtifactStore

- `StoreTypes`; `LocalReports`, `ReportsAreDurable`, `IdentityIsOne`, `VersionsHold`. Their invariant
  says that every linked file was synchronised and is whole; that in `local` mode, where nothing
  is removed, the cached entry equals the durable one and the process's own document from its
  directory sync to its report; that in `s3` mode the conditional upload makes the first object the
  one every later upload meets; and that a verified version is the one reported.
- `StoreIsWrittenOnce` (`Spec => ImplementsStore`). A further invariant (`DurableInv`) says that
  a durable entry in `local` mode is the one in use; with synchronised files a loss of power then
  takes nothing back. So a step writes the entry or the first object when there was none (`StoredStep`), or reports what
  is there (`ReportStored`), or changes neither.

### JobContract

The invariant of `JobContractProofs` has a part for each group of stages: the settings were
loaded and validated, the request parsed, the continuation is one `_callback_body` builds, its
result one `notify_*` accepts, the target one `validated_callback_url` accepts.

- `Reports`: no job is stuck. The longest continuation has
  185 + 64 + 211 + 64 + 12·1024 = 12812 bytes and the bound is 16384; a failure's is shorter.
- `TokenStays`, `RetryFits`: from the checks of URL and settings that precede.
- `RaisesOnUrlOnly`: for each validator a lemma says that it ends `ok` or `refused` on a value of
  any type, because the values on which a later operation would raise were refused by an
  `isinstance` or a comparison of field names before it (`FieldsPlain` for members read by name);
  `DocumentRaises` puts them together for `parse_document`, where `urlparse` is what is left.
- `SummariesExact`: the sums of a summary are those of a report exactly when the checks say so.
- `FamiliesKept`: names are cut at their hyphens (`Pieces`); the first piece tells the families
  apart, and one identifier leaves the rest to the job (`NamesApart`).

### SafeIdle

- `IdleTypes` (`LockInv`: the event's lock is held by exactly one run of `set`, the innermost that
  took it), `HeartbeatStops` (after a late beat the flag is set and the loop is at its check, so it
  ends), `ProbesToldTrue` (the counter read is between the one at the question and the
  present one).
- `SignalsAreKept` (`Spec => []StopIsKept`) and `FirstSignalFree` (`Spec => []FirstSignalGoesOn`).
  The signals are as many as the runs of the handler and the threads they started (`KeptInv`), and
  nothing else makes the server stop. So a signal is never dropped, also before
  `serve_forever` runs, and while the first one is handled the main thread cannot be in the
  `finally` clause: the deadlock of `doc_two_signals` needs the second.

### OdtTemplate

- `FlatTemplates` (`Spec => []FlatTemplateFilled`): for a flat template of any number of parts, any
  texts and any lists, the repeated search for markers fills each part by itself.
  `Expanded` says that after each iteration the text is the template with the loops among its
  first parts expanded (`Mixed`): the search finds the first loop that is left (`LoopFound`,
  `FirstLoop`), and expands that one (`LoopStep`); plain data bring no marker that a
  later search would find (`PlainClosed`, `PlainItems`).
- `LoopsAlwaysRunOut` (`Spec => LoopsRunOut`): for every template, with markers nested or without a
  partner. Between the opening marker and the first closing one after it nothing closes
  (`LoopIsThere`), so the copies of the block have no closing marker (`CopiesCloseNothing`), and
  those left are the ones of the old text but one, some of them moved (`LoopStepCloses`,
  `ShiftedSmaller`). A number that falls with each iteration is why `CommandEnds` terminates.
- `OutputsAreOwn` (`Spec => []OutputIsOwn`). `Own` says what a run that has its directory to itself
  finds there at each step, whatever earlier runs left.

All three rest on the invariant `OdtInv`. Replacement and concatenation are recursive over texts.
The library's induction theorems cannot be instantiated, so induction is stated with sets:
`SetInduction` comes from the least member of what is missing, and `AppendInduction` says that
a set with the empty sequence and closed under `Append` holds every sequence. With it
`FlattenSeq` and `ReplaceVariables` are shown to go through concatenations. `CaseAssumption` says
that templates are texts of tokens and data are JSON objects; no length is bounded
in the proof.

### Only model-checked

The liveness properties `EventuallySettled`, `StopsOnSignal` and `CommandEnds`, which need fairness
and `ENABLED`: both are out of the prover's reach. `RetriesRunOut`, `OnlyFailuresDuplicate` and
`SignalsAreKept`, and `LoopsAlwaysRunOut`, are the safety their arguments rest on. Every other property of a passing run is a
theorem. What the `doc_` runs violate cannot be proved as it stands; `OnlyGarbledLoses` proves
one of these properties under the condition that run breaks.

## 5. What is not modelled

- Page layout and the drawing of PDFs (`render_*`, ReportLab): no state. `ArtifactStore` uses that
  equal requests render to equal bytes, which is what the code's invariant mode is for.
- The reading of the environment by pydantic, log wording, and the texts of health answers.
- Items of a list that differ from each other: the loops over `sections`, participants and medals
  apply one check to each item and refuse at the first that fails.
- The bounds of the archive (its expiry, and the drop of its oldest envelope) and the first 16
  `x-death` records: the model's archive records what was ever confirmed.
- Leftover temporary files, and staging copies of jobs that failed: nothing reads them.
- Integration scripts, tests, packaging and deployment: not part of the programs.

## 6. Plan

1. `JobContract` as the source of the kinds and callback outcomes that `DocumentWorker` takes as
   constants, through an abstract job.
2. `EventuallySettled` as one measure over `RetriesAdvance` and `DuplicatesNeedFailures`: a
   message put back unsettled has no progress of its own, and needs the strong fairness of the
   publications in the argument.
