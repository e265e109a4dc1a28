# A formal model of AskToto

AskToto is an Electron desktop assistant for meetings. Its main process
(`src/main/**`) holds almost all of the state that outlives a click: it reads
meetings from a cloud-synchronised folder, downloads and activates speech
models, imports recordings, retries writes to CRMs and telemetry, and runs
helper processes. This directory keeps TLA+ modules of those parts, the TLC
runs that check them on small instances, and proofs of the core.

Paths below are relative to the repository; `PROJECT.json` maps each definition
to the lines it stands for, prefixed with `src/`.

    tlasany M.tla                          parse
    tlc -workers 2 -config X.cfg MCM.tla   one run
    tlapm HandoverProofs.tla               the proofs of a module

## 1. The system

### Inventory

| Component (source) | State it keeps | Operations | What is hard | What makes it correct |
|---|---|---|---|---|
| storage admission (`infra/storage/admission.ts`) | free permits, two queues, running calls, a timer | acquire, run, release, abort while queued, stuck timer | grant against abort, a call that never settles | permits are conserved; nobody waits beside a free permit; a stuck pool answers |
| storage gateway (`infra/storage/gateway.ts`) | shared reads, probe queue, breaker, hydrations | admit, call, readShared, hydrate | late settlement, sharing across an await | a permit goes back exactly once; a deadline always answers |
| speech-pack engine (`features/components/speech-pack/engine.ts`) | statuses, queue, one running install, directories and `active.json` on disk | enqueue, repair, pause, cancel, initialise, the install itself | crash between any two renames, undo, cancel inside a callback | a working pack survives every interruption; ready means active |
| speech-pack service (`.../service.ts`, `speech-pack-bootstrap.ts`) | activity leases, pending admissions, authority revision | action, policy, selection and capture changes, shutdown | an action looked at again after an await, leases given and taken by different events | what was withdrawn starts nothing; a lease lives as long as its transfer and the event that ends it |
| import jobs (`import-jobs.ts`, `import-job-store.ts`) | journal of jobs with phases, leases, retries | startMany, recover, resume, cancel, decode, transcribe | crash in any phase, slots shared by jobs | each import produces one transcript |
| operator outbox (`operator-queue.ts`, `operator-ingest.ts`) | one JSON file | enqueue, drain on the heartbeat, report | read, await, write of a whole file | an event is delivered or its loss is counted |
| CRM push queue (`mcp/pushQueue.ts`, its callers in `index.ts`) | list in memory and on disk, a lock | enqueue, processDue, processIds, requeue | three users, saves at the end of a batch | one write per action, bounded attempts |
| process supervision (`infra/process/*`) | registry of children, their journal | spawn, stop, stop-all, reap | crash leaves orphans, pids are reused | every child is stopped or reaped |
| maintenance scheduler (`infra/scheduler/*`) | queue, running job, pressure | request, admit, yield | capture starts while a job runs | background work never competes with a capture |
| lifecycle (`lifecycle/*`) | reveal and boot phases, reload budget | first show, reveal, exit paths | events in any order, missing events | the window shows, once |
| cloud speech-to-text (`cloud-stt/*`, its handlers in `index.ts`) | the owner, an active and an opening session, two sockets each | start, push, graceful and forced stop, replacement, revocation | stops while sockets open, answers during the end-of-stream handshake | no socket outlives its owner; a transcript called complete is complete; every call is answered |
| local model runtime (`llm/local-runtime.ts`, `llm/local.ts`) | sidecar process, its port, start generation, idle timer, streams, recaps | start, switch, stream, abort, idle stop, automatic restart | late events of killed processes, shared starts, a switch against streams, pre-emption | one sidecar; its endpoint is that of a healthy one; no stream cut by a switch; every request answered |
| provider health, hedge, retry (`llm/*`) | cooldowns, two racing requests | record, choose, hedge | late loser, both fail | one answer per question |
| brain (`brain/*`) | markdown store, corrections, journal | ingest, correct, publish | crash in a multi-file rewrite | facts are neither lost nor doubled |
| settings, secrets, sign-in (`store.ts`, `secrets.ts`, `auth.ts`) | files | read, write, migrate | corrupt files | settings survive |
| licensing (`license*.ts`, `license-server/`) | lease, install id, seats | activate, renew, release | clock, offline grace | seats are counted right |
| MCP clients and OAuth (`mcp/*`) | connections, tokens, a refresh lock | connect, push, refresh | refresh against sign-in | one refresh at a time |
| renderer (`renderer/src/lib/*`) | capture state, recap writes | start, stop, write | stop while draining, write order | the last write wins |
| operator worker (`operator/`) | D1 tables | ingest, grants | duplicates | idempotent by id |
| windows, updater, native helper | windows, sentinel | layout, update | platform | - |

Interactions: every component that touches the meetings folder calls the
gateway, which asks the admission for a permit before each file operation. The
speech-pack service owns one engine and reacts to its events. `index.ts` wires the
IPC handlers and timers: the heartbeat timer drains the outbox and hands the
operator's retries to the push queue, the minute timer runs the push queue, live
pushes put their failures into it.

### Which parts are modelled

Eight of them so far, chosen because they carry protocols of their own whose
failures are hard to provoke: the admission with the gateway's use of it, the
speech-pack engine and the service above it, the local model runtime, the live
cloud transcription, the import jobs, the operator outbox and the CRM push queue.
Section 5 has the plan for the others.

## 2. The modules

| Module | What it models | Checked by | Proved in |
|---|---|---|---|
| `PermitPool` | abstract: what an admission promises | `ImplementsPool` | `HandoverProofs` |
| `StorageAdmission` | `admission.ts`, and `admit`, `call`, `readShared` of `gateway.ts` | `MCStorageAdmission` | `HandoverProofs` |
| `SpeechPackLifecycle` | abstract: what the engine promises its service | `ImplementsLifecycle` | `SpeechPackServiceProofs` |
| `SpeechPackEngine` | `engine.ts`: queue, runs, activation, undo, start-up | `MCSpeechPackEngine` | `SpeechPackEngineProofs` |
| `SpeechPackService` | `service.ts` and `speech-pack-bootstrap.ts`, over `SpeechPackLifecycle` | `MCSpeechPackService` | `SpeechPackServiceProofs` |
| `LocalRuntime` | `local-runtime.ts` and `streamLocal`, `prewarmLocal` of `local.ts` | `MCLocalRuntime` | `LocalRuntimeProofs` |
| `CloudStt` | `live-session.ts` and the handlers of `index.ts` around it | `MCCloudStt` | `HandoverProofs` |
| `ImportJobs` | `import-jobs.ts`, `import-job-store.ts`, the decoder's handlers in `index.ts` | `MCImportJobs` | `ImportJobsProofs`, `ImportJobsServedProofs` |
| `OperatorQueue` | `operator-queue.ts`, `postIngestWithQueue`, the drain of `operatorHeartbeat` | `MCOperatorQueue` | `RetryQueueProofs` |
| `PushQueue` | `pushQueue.ts` and its callers | `MCPushQueue` | `RetryQueueProofs` |

`Queues` has the one operator both retry queues need, `Without`, the filter of an
array. `QueueLemmas` holds the lemmas the proofs share: on queues without
repetition (take the head, append, prepend, remove), on what `Without` keeps,
and the least number and induction principles the latter rests on.

A definition that no behaviour of a specification uses and whose comment calls
it a mistake (`ReleaseToPool`, `SwapByDeleting`, `StopActiveOnly`, ...) is a
mutation: put in the place of the definition under it, it makes a property fail.
`PROJECT.json` pairs them. They show that the properties can tell the code from a
plausible mistake.

### StorageAdmission

A call is a member of `Calls`; its place in the protocol is `pc`: *idle*,
*waiting* (in a queue), *granted* (`acquire()` has resolved, the caller has not
run yet), *running*, *refused*, *ended*. The two queues, the free permits and the
stuck timer are those of `createAdmission`. One action per handler:
`Acquire` has the four early exits of `acquire()`, in order; `Release` hands the
permit to the first metadata waiter, then content, then the pool; `Run` starts the
operation and arms the timer, `Settle` is its end, which releases; `Leave` is the
abort of a queued request; `AbortLate` one that comes after the grant, where the
gateway has to return the permit; `ReturnUnused` and `ShareRead` are the two
places where the gateway gives a permit back without running (whether another caller has
started the same read is left open: a read also stays shared for some microtasks after it
has returned its permit, `gateway.ts:387`); `Tick` is the
clock and the timer's callback. Time is ticks, and an operation's age stops at
`StuckAfter`: nothing distinguishes older ones.

`PermitPool` is the abstraction: a number of free permits and a set of holders,
and three steps (take, give, pass on). The refinement maps holders to the calls
granted or running. It says that aborts, timers and queues never change how many
operations run at a time.

### SpeechPackEngine

A pack has one directory per version, a copy renamed *aside*, a staging directory
and a marker (`active.json`). Directory contents are abstract: whole, damaged,
partial or absent, for a version. The engine's memory is a state per pack
(`SpeechPackState`), the queue, and at most one run with its point in
`install()`. Every `await` of the activation and of its undo is a step boundary, so a
cancel, a pause, a repair, or the death of the process falls between any two.
`Fail` is the catch of `run()`, `RestoreOldMarker`, `BeginDelete`,
`FinishDelete`, `RestoreAside` and `RestoreMarker` the stages of `deactivate()`,
a recursive delete having a visible half. `Crash` forgets the memory and keeps the
disk; `Start` begins again with any version pinned (an update of the program), and
`Boot*` is `initialise()`. Bytes, progress and the HTTP protocol are
left out here, and the throttling of events is part of `SpeechPackService`: a download ends with a complete staged set, with an error or with an
abort. Each cancel of a waiting pack starts a deletion of its staging directory
(`CancelWaiting`), and the engine keeps one promise per pack: `cleanup` are the packs
whose latest deletion runs, the one a run waits for (`CleanUp` is its end), `strays`
those with an earlier one whose promise a later cancel has replaced (`cleanups.set()`,
`engine.ts:784-787`). Nobody waits for a stray; `CleanUpStray` may take what a run of
the pack stages at any of its awaits, so verification, self-test or the rename can fail
and a promoted directory can be damaged. `Damage` is the world outside (a synchroniser, a virus scanner) changing
files of a settled pack.

### SpeechPackLifecycle and SpeechPackService

`SpeechPackLifecycle` is the engine without its disk: a state per pack, the
queue, the pack being installed and the reason of its first abort. `Work`,
`CutWhenReady` and `End` are all that the service may assume of an install. The
queue run checks `SpeechPackEngine!Spec => SpeechPackLifecycle!Spec` with the
variables of the same names (`ImplementsLifecycle`): downloads, verification, the
two-stage activation, deletions under way, overtaken ones too, and every `await` between
them are stutters or `Work`. It is also proved for all constants (section 4). It holds as the program runs the engine, that is without
`initialise()`, and while the file operations of an undo succeed.

`SpeechPackService` uses the abstract engine as an instance, so its state space
has none of the disk. An action of the settings page is two steps with the read of
the profile between them (`Ask`, `Resume`); `actions[k].fresh` says whether
`authorityRevision` is still what it was at the first. `Refresh` is the poll of
`speech-pack-bootstrap.ts`, which calls `policyChanged()`, `selectionChanged()` and
`captureActivityChanged()` in one turn of the event loop; `Stop` a pause or
cancel; `Shutdown` and `Drained` the quit, with the ten seconds it waits.
`activity` is the set of leases; the listener of the engine's events takes them
(`LeasesAfter`). These events are throttled (`engine.ts:196-215`): one that comes less than
250 ms after the last of its pack waits for a timer and then tells the state of that moment.
`recent` are the packs whose last event is that young (`Elapse`), `due` those with an event
waiting (`Deliver`); `Reported` is `schedule()`. So a lease may outlive its transfer until the
event comes: meanwhile the pack answers busy and is among those `Refresh` cancels, a paused one
too. What the service asks its options for (selected engine, policy,
capture) changes by itself between any two steps.

### LocalRuntime

`rt` is the module state of `local-runtime.ts` and of `local.ts`: the state, the
current child, the published port, the start generation, the shared start promise,
the loaded configuration, the pinned CPU build, the idle timer, the streams counted
and the callers that wait for them, and the recaps and pre-emptable streams of
`local.ts`. `procs` are the processes that exist, killed ones included, each with
the generation and the owner of the start it belongs to, the phase it has reached and
whether its promise has settled; a process that has exited is gone. `reqs` says
where each request stands: asking, verifying, owning or joining a start, waiting for
the drain, about to run again, about to attach, streaming.

The functions on the whole state (`Start`, `BeginStart`, `StopChildProcess`,
`Settle`, ...) are the synchronous parts of the code, composed as one turn of the event
loop composes them. A promise that settles resumes its waiters before the next
event; `Quiet` is that rule. An exit, a port line, a health answer or a timeout may
belong to a process that a stop or a newer start has superseded: nothing orders them
against the new one's. Time is left out, timers may fire whenever they are armed, with one
assumption: no stream outlasts the fifteen minutes of the idle timer.

### CloudStt

A session has a socket per track. `owner` is `cloudSttIpcOwner`; `active` and
`pending` are the module variables of `live-session.ts`. A step is a call of the
renderer (`Start`, `Push`, `Stop`, `ForceStop`), the revocation of the owner
(`InvalidateOwner`: window replaced or gone, signed out), a socket's event, a message
of the provider or the deadline of a graceful stop. The provider is the environment:
it transcribes each frame it was sent into one line, in any order across tracks, may
break or close a connection at any time, may send an error frame, and confirms the end of a stream
after its last line, if it ever does; that last point is the protocol both
providers document and an assumption of `CompleteMeansComplete`. `missed`
records captures some frame or line of which the program dropped.

### ImportJobs

One `ImportJobManager` runs many async functions at a time: `pump()`, which admits
a job, the handlers of its decoder, the tail that saves the meeting, the calls of
the user. `mem` is the manager: the jobs, the queue, the decode slot
(`decodeSlotIds`), the buffered audio (`pcm`), the consumers of it, the attempts, the
decoder and `mem.threads`, one record per async function under way. A thread
names the point where it awaits, its job and the attempt it works for; one that
awaits `persist()` also carries the copy of the job being written, since the code
serialises the job before it awaits. A step takes one thread, lets its
await resolve and runs to the next, so everything between two awaits is
one action. Writes land in any order, because each has its own
temporary file. `disk` is the checkpoint file of each job, `files` the meetings saved for it.

A recording is `Slabs` chunks of audio, each of which the decoder delivers with its number
(`Chunk`), or, once it is whole, `Windows` utterances. The buffered
pipeline (`vad`) keeps the chunks and transcribes windows; a recording in `Long`
overflows it and goes on chunk by chunk, as does a job admitted with too
little free memory. `Complete` is the decoder's end, `DecoderStops` its failure. A line of
the transcript remembers which unit it stands for and which version's chunk
length cut it. `Crash` loses `mem`, and the program may come back as a version
with another `IMPORT_CHUNK_SECONDS`; `Recover` is `recover()`, one checkpoint per step.

Operators that take and return `mem` are the synchronous stretches several
functions share (`Pumped`, `Fail`, `ReleaseAdmission`, `ReleaseDecode`, ...). Two operations
are best-effort in the code and so in the model: `Unlinked` (`removeCheckpoint()`) may leave
the checkpoint, and `FileDeleted` (`deleteOrphanedFile()`) the meeting, while the tail goes on as
if it were gone. The operators return a set where `pump()` reads the free memory, which may be low or not. After
`await this.pump()` the caller goes on at once if nothing was admitted; otherwise
(`Later`) at a step of its own, which may come arbitrarily late.

Four history variables hold the conditions under which the code gives less than its
comments say, so that the properties can demand everything else:

- `cut`: the process died when a meeting was there that the checkpoint does not tell of:
  between the file and the checkpoint that names it, or with the meeting of a cancelled job not
  deleted and an older checkpoint that goes on still on disk (`Untold`);
- `raced`: cancelled while an older checkpoint write was in flight;
- `stranded`: cancelled, and then a step of the tail threw or `deleteMeeting()` failed;
- `misfired`: failed by an admission that was no longer accepted, that of an earlier
  attempt (section 3, "Noticed while modelling").

### OperatorQueue

`file` is the items of `operator-queue.json`. A heartbeat tick has its own copy of
them (`copy`) and the ids it still has to send (`toSend`): between the load
at the beginning of the drain and the save at its end every other actor may write
the file. The functions on items (`AddItem`, `MarkFailed`, ...) are the pure
functions of the source. An item's time is what is left until `nextAttemptAt`;
`since` remembers how long ago the drain read its clock, because
`markFailed(now)` counts from there. A live send is modelled from its answer on.
A write may fail and the process may die (`MaxUpsets`). `exposed` is a history
variable: events that were enqueued while a drain was sending or whose write
failed. The counter of capped events, which the heartbeat reports, is left out.

### PushQueue

`list` and `disk` are the queue in memory and on disk. A batch (`pc`, `todo`)
belongs to the timer or to one of the loops of operator retries; `Proceed` is the
loop of `runBatch()` up to the next push or the save at the end, which happens
without an await in between. `request` is what the user sees of an action, so that
a retry by hand follows a failure. `Requeue`, the report, and `ProcessIds` are the
three stages of an operator retry.

## 3. The runs

Passing runs.

| Run | Question | Bounds | Why enough |
|---|---|---|---|
| `storage_admission` | do permits, queues, timer and order stay right under every interleaving of grants, aborts and settlements; is it a pool; is a metadata request behind stuck calls answered | 4 calls, 2 permits, 2 queued, stuck after 2 ticks | two hold, two wait, one of each lane, and with a free place in the queue gone one more is refused; the proofs cover every size |
| `speech_pack_activation` | does what worked survive the death of the process, a failed file operation and damage from outside at every point; does an undone run restore it; does a cancel win; does every run end | 1 pack, 2 versions, 2 copies aside, 1 damage, 1 fault, any number of deaths (738 thousand states) | the activation concerns one pack; a second death can fall into the recovery of the first |
| `speech_pack_queue` | do runs keep clear of the deletion of their latest cancel; does the engine implement the lifecycle | 2 packs, 1 version; pause, cancel, repair, enqueue in any order and number; one pack at a time with an overtaken deletion (1.6 million states up to the exchange of the packs) | one runs, one waits; it takes a second pack to keep the first waiting while it is cancelled twice |
| `speech_pack_service` | do leases and the engine's work agree; does a withdrawn action start nothing; does the quit find the engine idle | 2 packs, 2 actions in flight; selection, policy and capture change at any time, events at once or late (1.2 million states up to the exchange of packs and of actions) | two actions on one pack, or one on each, with an install under way |
| `local_runtime` | is there one sidecar and its endpoint the right one; does a switch cut no stream; is a model verified; does a recap run alone; is every request answered | 3 requests (recap; background with another model; screen ask that needs the projector), 2 builds, 1 crash, failed start, missed budget or stop (199 thousand states) | one streams, one starts and one joins or waits for the drain; every pair of configurations forces a switch |
| `cloud_stt` | does a socket outlive its owner; is a complete transcript complete; is every start and stop answered | 2 captures, 2 tracks, 1 frame each, a client that closes on the confirmation (175 thousand states) | one session is replaced by the other; the proofs cover every number of captures, tracks and frames, and both kinds of client |
| `import_jobs` | is one recording in memory, every transcript whole, every import one meeting, nothing left of a cancelled one, nobody stuck | 2 recordings of 2 chunks or 1 utterance, one of them too long to buffer; any 2 of cancel, resume, low memory, failed write, unlink or deletion, death (1.4 million states) | one job has the slot and one waits; two upsets make a resume or a restart of what a first one interrupted |
| `operator_queue` | what can be lost with overlapping heartbeats; is what is queued delivered | 3 events, outbox of 2, 2 ticks, 1 failed write or death (293 thousand states) | the cap drops one while two drains hold copies |
| `push_queue` | is a queued copy sent once, saved between batches, and settled in the end | 2 actions, timer and 2 loops, 2 attempts, 2 requests, 2 retries, 1 fault, 1 death (89 thousand states) | both loops and the timer compete for one row |

Runs that show the code doing something else than a comment of the repository
says. Each is a finding of `PROJECT.json`, with the comment quoted.

| Run | What happens |
|---|---|
| `cancelled_import_kept` | an import cancelled during `saveMeeting()` comes back to life and ends *done*: the state is overwritten before it is looked at |
| `local_runtime_stale_restart` | an automatic restart that an idle stop has superseded marks the newer, healthy sidecar unavailable when the killed process exits |
| `lost_during_drain` | an event queued while a drain is sending is overwritten by the drain's save |

### Noticed while modelling

The models have these behaviours too; no run is spent on them. Where a property
would exclude one it says so in its comment.

Speech packs:
- Killed inside the recursive delete of an undo (`engine.ts:505`, `:510`), or after a repair of
  the marked version has renamed its directory aside (`:668`), `active.json` names a
  directory that is half deleted or absent; `:19` says no crash can. `ReadyMeansActive`
  shows that such a marker is not taken for a ready pack.
- The program never calls `initialise()`, so a promotion whose marker was not written
  before a death is not adopted at the next start (`HostInitialises` = FALSE).
- After a death inside an undo `initialise()` leaves the whole copy that was
  renamed aside where it is.
- A cancel after a pause of the same run is lost: both abort one controller
  (`engine.ts:777`, `:781`), whose reason stays the first one, and the run ends
  *paused*; "Cancel wins at every step" (`:635`) does not hold there.
- A removal of the staging directory that fails on a cancel leaves the state
  *downloading*, and every later action is refused as busy until the next start.
- A download asked for a pack the engine knows as ready, but whose files were damaged since,
  takes a lease and enqueues nothing (`service.ts:232-241`, `engine.ts:753`): later
  actions are refused as busy until a pause or cancel. `LeasesMatchWork` names this case.
- A pack that waits behind another, is cancelled, queued and cancelled again has two deletions
  under way, and the run that follows waits for the second only (`engine.ts:699`, `784-787`):
  the first may delete what the run downloads. `LatestCleanupIsAwaited` claims nothing of it; the
  other properties hold beside it.
- For up to 250 ms after it ended or was paused a pack keeps its lease (`engine.ts:203-215`): it is
  refused as busy, and a change of policy or selection in that time cancels one that was
  paused for a capture, with what it had staged. `LeasesMatchWork` bounds this by the event that is due.
- Every poll raises the authority revision, so an action whose profile read
  straddles one is refused as busy although nothing changed.

Local runtime:
- The exit of a crashed sidecar leaves the idle timer armed. It may stop the automatic
  restart (the finding), and it turns *unavailable* back into *stopped*, although
  `local-runtime.ts:538-539` says the runtime stays down for the session. A runtime marked
  unavailable with a live child is never stopped for idleness.
- Of two callers with different configurations during a cold start, the one that joined
  runs again first and kills the sidecar the owner of the start is about to attach to; the owner's
  request fails.

Cloud transcription:
- A stop by a capture that no longer owns the session answers `timedOut: false`, also when
  its audio was cut off.
- A track whose connection closes without an error in the middle of a session reports
  nothing; its frames are dropped until the stop, which is then incomplete.

Outbox:
- An event the Worker refuses during a drain is rescheduled for ever, like a network failure.
- Two overlapping heartbeats each report the same drops, and after a failed save the
  count is reported and still in the file.

Push queue:
- A live send fails and is queued, the user's own retry succeeds and the queued copy is
  sent as well: a successful `mcp:push` does not look for it (`index.ts:6651-6661`),
  while `pushQueue.ts:82-84` describes the deduplication of the failure path.
- An operator's retry that meets the timer's batch is not processed, and stays
  "in progress" until the next one.

Import jobs:
- A chunk that overflows the buffer and is stopped while the downgrade is being
  written gives the slot back while its backlog is still buffered; the comment at
  `import-jobs.ts:602` says otherwise (`Stopping` in `OneRecordingInMemory`).
- A resumed job can be failed by its own old decoder, which outlives the attempt
  when a stop did not know it (the *own* errors).
- The catch of `finalize()` does not go through `abandonIfCancelled()`: a cancelled import
  whose tail throws keeps its meeting (`stranded`).
- `deleteOrphanedFile()` does not look whether `deleteMeeting()` succeeded
  (`import-jobs.ts:1113-1119`; it answers `ok: false` or rejects): the meeting of a
  cancelled import may stay, and the job no longer points at it (`stranded`). If the checkpoint
  could not be unlinked either and is an older one, the next start imports the recording
  again (`cut`).
- A checkpoint write in flight lands after the unlink of a cancel, and the next start
  resumes the job (`raced`).
- A rejected admission of an old attempt fails the job's later one
  (`import-jobs.ts:982-985` looks at the job and not at the attempt), whose meeting may
  be saved and then imported again (`misfired`). When such a job is resumed, what the old
  decoder still has to finish goes on under the new attempt: it may give the slot
  back while that attempt holds decoded audio, retire it so that the job stays
  *transcribing* with nobody at work on it, or make the two decoders accuse each other.
  It takes three recordings and three upsets, which is more than the run
  has; it came up in the search for an inductive invariant. Cancelled between its two
  attempts, it keeps the meeting that the first one saved. `OneRecordingInMemory`,
  `OneMeetingPerImport`, `CancelLeavesNothing`, `NoFalseAccusation` and `NobodyIsStuck`
  except these jobs.
- A checkpoint write that rejects in `pump()` leaves the slot taken with no decoder
  (`:976`), and one in `consumeVadPcm()` leaves the job transcribing; not modelled.
- `cancelAll()` asks for no pumping between its cancels, but
  `releaseAdmissionSlot()` pumps regardless, so a job it is about to cancel may be
  admitted first.

Deadlock is not checked where a system may stop: all calls ended, all
bounded operations used.

### Fairness

- StorageAdmission: time passes and the timer's callback runs. Nothing is assumed of
  the file operations: one may never settle, which is the case the timer is for.
- SpeechPackEngine: the run in progress goes on (its awaits end; a download has a
  timeout) and the event loop runs the continuation, and the deletion it waits for ends. Nothing
  is assumed of users, nor of a deletion that nobody waits for.
- SpeechPackService: none; its properties are safety.
- LocalRuntime: some step of `Progress` is taken as long as one is enabled: a promise
  resumes, a start reaches its health or runs out of its budget, a stream ends
  (`streamOpenAI` has a timeout), a killed process exits. Weak fairness of the
  disjunction suffices because each of these can be taken finitely often without a
  new request.
- CloudStt: a socket opens or its connect timer runs out, and the deadline of a graceful
  stop runs out. Nothing is assumed of the provider.
- OperatorQueue: the heartbeat timer fires for ever, requests end (`signedPost` has a
  deadline), and the Worker does not fail one event for ever, which is strong
  fairness of that event's successful send. Without it nothing could be delivered.
- ImportJobs: none. Every request of a user is bounded, so all behaviours are
  finite, and `NobodyIsStuck` says of every state that whoever waits has a step
  coming or stands in a queue that will be served.
- PushQueue: the minute timer fires, pushes end, time passes. Pushes may fail for
  ever.

### Bounds

Named constants begin with `Max`: crashes, faults, requests of the user, frames. Each
is a guard of the actions it bounds and nothing else; `MaxUpsets` is
one budget for everything that disturbs a component. Times are small schedules (one or two
waits) that keep the order of the real ones. `attempts` of the outbox counts only up to the last
entry of the schedule, beyond which the code does not distinguish. A request of the local
runtime and a capture of the cloud sessions are made once each, so `[]<>` of "nobody waits"
says that each is answered. `MaxStrays` is the number of packs that may have an overtaken
deletion at a time; how many such deletions one pack has is not bounded: until the last has ended
what is staged may be taken any number of times. Two configurations declare symmetry, `MCSpeechPackQueue` and
`MCSpeechPackService`: their packs (and actions) occur in no order, and they check no liveness.

## 4. The proofs

Of the storage admission `HandoverProofs` proves, for every finite set of calls, every capacity, queue bound
and age limit (the four assumptions named in `StorageAdmission`):

- `TypeCorrect`, `PermitsAreConserved`, `NoWaitWhileFree`, `QueuesAreExact`,
  `StuckAlwaysWatched`: the state invariants;
- `GrantsAreInOrder`: the action property on who is granted next;
- `AdmissionIsAPool`: the specification implements `PermitPool`.

None of the invariants is inductive alone. That permits are conserved when a
waiter is granted needs the waiter to be exactly one of the waiting calls
(`QueuesHoldTheWaiting`); that a splice removes that call and no other needs the queues
to be injective and the lane of each call to be the queue it stands in; that nobody
waits beside a free permit needs conservation. So the inductive invariant
`IInv` is the conjunction of the type invariant and these, and the proof has one step per action
and under it one per conjunct the action disturbs. The timer's
part uses that a call's age never exceeds the limit, and that the running
calls are among the holders, whose number conservation bounds.

Of the live cloud transcription, whose operators it finds beside those of the admission and
which therefore has names of its own (`LiveSpec`, `LiveIInv`, ...), it proves, for every set of captures, every finite non-empty set of tracks, both kinds of
client and any bound on the frames:

- `SocketsAreOwned`: `SocketsBelongToTheOwner`;
- `CompleteIsComplete`: `CompleteMeansComplete`;
- `CloudSttTypeCorrect` and `CloudSttInductive`, the invariant they follow from.

`SocketsBelongToTheOwner` speaks of sockets only. To be inductive it needs to know that a session
that opens is the pending one and a session that streams or stops the active one
(`Placed`), and that the owner is the capture of any session that is not closed
(`Owned`): `StopNow` closes exactly the two sessions the module variables name, so a
third one would escape it. `CompleteMeansComplete` needs, of a session that is
stopping, that a track marked *terminal* has no backlog and that a frame dropped by the
program was dropped in a session that cannot end complete (`AllHeard`). The synchronous parts
(`Close`, `StopNow`, `Acknowledge`) are functions on the state, so each has a lemma of
its own for types and places, for ownership and for what was heard, and the lemma of an action
composes them.

`SpeechPackServiceProofs` proves, for every set of packs, of requests and of what they may ask,

- about the abstract engine by itself: `LifecycleTypeCorrect`, and
  `QueueAgreesWithStates`, that queue and states agree;
- about the service: `LeasesAgree` (`LeasesMatchWork`), `QuitStaysIdle`
  (`QuitFindsItIdle`) and the action property `NothingWithdrawnStarts`
  (`WithdrawnStartsNothing`), all from `ServiceInvariance`.

`LeasesMatchWork` says that work holds its lease and that a lease without work has an event
due, unless the engine knows the pack as ready. A lease is given by one step and taken by an event
that may come later, so this needs to know of every step of the engine which packs it moves:
that is the queue's agreement with the states, `EngineInv`, with the types. A late event must not
take the lease of a transfer that has begun since; it tells the state of its moment, which is not an
ended one then (`EventsRight`). `WithdrawnStartsNothing` needs one more fact, which
no single action shows: an action that was withdrawn is no longer fresh, whichever poll,
shutdown or other action came between its two halves (`WithdrawnIsStale`).

`SpeechPackEngineProofs` proves, for every set of packs and of versions and any number
of deaths, outside changes and failing file operations (from `NoneIsNothing`
alone):

- `OldPackSurvives`, `ReadyIsActive`, `LatestDeletionIsAwaited`: the invariants
  `WorkingPackSurvives`, `ReadyMeansActive`, `LatestCleanupIsAwaited`, with any number of
  deletions that later cancels overtook;
- `UndoIsComplete`, `CancelHasItsWay`: the action properties `RollbackRestores` and
  `CancelWins`;
- `Invariance`: the invariant they follow from.

`WorkingPackSurvives` is not inductive: whether a step of the undo loses the old pack
depends on what the earlier steps of the same run did. `IInv` says of the pack whose run
is under way what each point of `install()` and `deactivate()` knows of the disk. Once
something was renamed, the directory of the pinned version, if that is the one the pack
served, is still aside until the undo has put it back (`KeptAside`); before that
nothing was touched and the disk is as it was (`Undone`, `Intact`); between the two the new
directory stands, and then the marker names it (`InPlace`); the snapshot of the marker
the undo goes by is the version the disk served. After the last step of the undo the disk
is `Intact` again, which is `RollbackRestores`. For every other pack `IInv` is
`Survives` and `Active`, so starting a run (`pump()`) only has to read the disk. The
claims about `ready` and about the undo are made while no operation of an undo has
failed, as in the properties; `Survives` is not. A lemma per action shows that a step
of a run preserves `IInv` when it does so for the pack of that run (`StepOfRun`). The
queue needs no type here: a run of something that is no pack has nothing to preserve.

`EngineImplementsLifecycle`, in the same module, is the refinement: `Spec` implies
`ImplementsLifecycle` when `HostInitialises` is FALSE (nothing in the program calls
`initialise()`) and `MaxFaults` is 0. Its invariant types the queue
(`QueueInv`). With it, what `QueueAgreesWithStates` says of the lifecycle holds of the engine.

`LocalRuntimeProofs` proves, for every set of requests, configurations and builds and any
bound on crashes and failures: `NoSidecarIsLeftBehind` (`OneSidecar`), `EndpointIsCurrent`
(`EndpointIsTheChild`), `DrainIsWokenByAStream` (`DrainWaitsForStreams`),
`OnlyVerifiedModelsLoad` (`LoadsOnlyVerified`), `RecapIsNeverShared` (`RecapRunsAlone`) and
the action property `OnlyAStopCutsAStream` (`SwitchCutsNoStream`), from `RuntimeIsSound`.
The invariant, `Sound`, has five parts:

- `Sole`: a process that is neither killed nor settled and belongs to the current start
  generation is the child, and a published port is the child's;
- `Held`: the streams counted are the requests that stream, and there is a stream as long as
  somebody waits for the drain;
- `Quieted`: who may be pre-empted, and that none is left while a recap runs;
- `Ties`: an unsettled start belongs to the request that waits for it;
- `Checked`: what is loaded, being loaded or asked for was verified.

`OneSidecar` alone says nothing of the late events, which is where it could go wrong: that
the exit, the port line or the timeout of a killed process does not touch the new one
is `Sole` together with `Ties`. A step of the runtime composes several functions on the
whole state; each has a lemma that it keeps `Sound`, and the lemma of an action is their
composition.

`RetryQueueProofs` proves, of the queue of CRM writes, for every set of actions, every number of loops, any schedule
and any bound on requests, retries, faults and deaths, `QueuedCopiesAreSentOnce`
(`QueueSendsOnce`) and `DiskFollowsMemory` (`DurableBetweenBatches`), from
`PushQueueInvariance`. Whether a push repeats one that went out depends on how it came to be
attempted: there is one batch at a time (`OneBatch`), the rest of its list is still queued,
without repetition (`BatchIsQueued`), and every copy sent or still queued was put there by a
failure or brought back from the disk by a death (`PaidFor`).

Of the outbox of Operator events it proves `OutboxKeepsEvents` (`LostOnlyWhenExposed`), from
`OutboxInvariance`, for every set of events and of heartbeat ticks, every cap and schedule, and any bound on failed
writes and deaths. A drain ends by writing its copy over the file, so it is not enough that the file
lacks nothing: the copy of every drain under way must lack nothing either
(`DrainsKeep`), what a tick will send must be in that copy (`DueIsCopied`), and
whatever the file or a copy holds has been queued (`OnlyQueued`). The type invariant includes
the cap, that no event is queued twice and that attempts stay within the schedule. One
assumption is for the prover alone: the waits the Worker may ask for are finitely many numbers. The two queues are
proved about in one module, so the definitions of `OperatorQueue` that have a namesake in
`PushQueue` carry a name of their own (`OutboxSpec`, `EventIds`, `Schedule`, ...).

Both filter their arrays with `Queues!Without`, a recursive function. The facts about it
(`WithoutFacts`: it keeps the order, loses exactly the removed, is no longer than what it
filters) are inductions over the length of the queue. The library states induction for an operator
parameter, which the provers cannot instantiate; `QueueLemmas` states it for a set
of numbers (`NaturalInduction`), and proves it from the existence of least numbers, which follows from a
well-founded relation of the library (`LeastNatural`).

`ImportJobsProofs` and, from `OneRecordingIsHeld` on, `ImportJobsServedProofs` prove, for every finite
set of recordings and any bound on what users, failures, updates and deaths do:

- `CancelIsHeeded`: the action property `CancelHolds`;
- `ImportsAreOrderly`, the invariant it follows from;
- `OneRecordingIsHeld`: `OneRecordingInMemory`;
- `EveryImportIsServed`: `NobodyIsStuck`;
- `ImportsAreFine`, the inductive invariant `IInv` these two follow from;
- `OneMeetingIsSaved`: `OneMeetingPerImport`;
- `CancelIsClean`: `CancelLeavesNothing`;
- `PapersAreInOrder`, the invariant `Papers` these two follow from.

Whether a step brings a cancelled import back depends on what the step after an await
believes of the attempt it worked for, so the invariant (`Orderly`) is about attempts: one that
may still take chunks or reach the tail belongs to a job that is neither cancelled nor failed
(a stop withdraws both permissions when it changes the state), one that accepts chunks
has the slot and one recording at most has it, no attempt or decoder is newer than the
last one made, a thread belongs to a job that is known, and the jobs still to be created
by `startMany()` or recovered by `recover()` are not known yet, each in one list, once
(`Orders`): otherwise creating one would overwrite a cancelled job. The model's operators are functions from a memory of the
manager to the next one, and every action composes several. `Moves(m, n, k)` says what a stretch of the work
on job `k` may do to a memory: it stays `Sound`, keeps the lists and who is known, leaves
cancelled jobs cancelled, and leaves every other job `Fine` that was. Moves compose (`MovesTwice`), so every
operator has a lemma that it is one, up to the pump, which may give the free slot to any other
job (`Takes`), and the lemma of an action puts them together. The actions that make
a job known are no moves and have lemmas of their own (`Appears`).

`Fine` says of one job that at most one thread works on it and for its last attempt, that decoded
audio is held only under the slot, and who will come for a job in each state; an import that a
late admission has failed (`misfired`) is left out, because two of its attempts may run and each
leave it to the other. `OneRecordingInMemory` and `NobodyIsStuck` follow from it, the latter with
`Calm`: when nothing is being added to the queue (`Adding`), nobody waits for a free slot. That a
stretch of one job leaves the others `Fine`, also the one the pump takes, is part of `Moves`. What
it makes of its own job is harder, for in the middle of a stretch the job is not `Fine`: the
thread that was woken is gone from the memory and still works. So the lemmas about the operators
carry it along as a ghost (`With(m, k, {t})`: the job would be `Fine` if `t` were still there), and it
is dropped where the stretch ends in an await of its own, in a release of the slot or in nothing.
A stretch is also followed by what it leaves waiting (`Quiets`): it may leave nobody waiting for a
slot that it frees. `Kept` joins both for a step, each action has a lemma that its step is `Kept`,
and `NextKeepsIInv` puts it together with `Orderly`. Before that TLC checked `IInv` on two recordings
within bounds like those of the run `import_jobs`.

`Papers` is about the meeting file of an import, which is made and deleted inside awaits of the tail
while the record that says so is saved in another, and a cancel or a crash may fall between any
two. It says of each job: there is one meeting file at most; if there is one, its record
says so, in memory or, when the job is not known since a crash, in the checkpoint, or the job was
cancelled and its file could not be deleted; a tail that is past saving has one, and one that is about to
save finds none (`OneFile`); a job that has its file is not decoded again, neither from
the queue nor from a checkpoint (`Settled`, `Truthful`); a cancelled job that still has its file
has a thread in the tail that will come past it (`Borne`); what is being written for a cancelled
job lets no restart go on, and neither does its checkpoint unless the thread of the cancel is
still to replace it (`NoTrace`). `OneFile` and `Borne` exclude the cases the properties name: a crash that loses a
meeting its checkpoint does not tell of (`cut`, `OneFile`), a tail that threw or could not delete after
the cancel (`stranded`, `Borne`) and a late admission (`misfired`); `NoTrace` excludes an overtaken write (`raced`).
`Papers` is inductive relative to `IInv`, which knows that one thread is in the tail.
`Bears` is its frame: a stretch that changes no file and starts no tail `Carries` the
file of every job, again also of the one the pump takes. TLC checked `Papers` as well before it
was proved.

Only model-checked:

- liveness under fairness, which the prover does not do: `EventuallyDelivered`,
  `MetadataAnswered`, `EveryRunEnds`, `EveryRequestIsAnswered`, `EveryCallIsAnswered`,
  `EventuallySettled`;
- the type invariant of the engine;
- of `ImportJobs`, `TranscriptIsWhole` and `NoFalseAccusation`, which the plan schedules.

No module declares a RECURSIVE operator.

## 5. Plan

Next, in this order:

1. The gateway's probe queue, deadlines and hydrations around the admission.
2. Process supervision: registry journal and reaper across a crash.
3. Recap write coordinator, lifecycle reveal and reload budget.
4. The Apple engine beside the local runtime, the hedged race of the providers.
5. The token lock of the MCP connections; licence leases; the brain's journal.

Proofs: `TranscriptIsWhole` and `NoFalseAccusation`. What they need of each other's state is
known, and TLC has checked it on the instance of `import_jobs`: the lines of a record are
the units up to its cursor, and slabs are those of the version that runs unless the job is one that
`recover()` found finished; an idle decoder that is heard is never ahead of the cursor; a total is only kept
with the cursor at the end. What makes it more than another frame is that `TranscriptIsWhole` holds for
misfired jobs too, which `IInv` leaves out: it has to be shown first that a job on the buffered
pipeline is never misfired, from what is still being written of it.

## 6. What is not modelled

`PROJECT.json` lists each part with the reason. In short: byte-level I/O,
prompting, text processing, audio and layout have no protocol to check; the
Cloudflare Worker, the transcription providers and the licence server are other programs,
the first two of which appear as environment. In the modelled components the
following is left out: what progress events tell, audit and log
lines, sanitising of a queue file edited by hand and a corrupt one, the counter of
capped outbox events and its report, the deadline each
gateway operation has beside its permit, and rate limits; of the speech-pack service the
snapshot and its marks of what was freshly verified; of the local runtime the Apple engine, speculative
starts given up for an import, routing by capacity and the supervisor below the
sidecar; of the cloud sessions credentials, message normalisation, interim text and the change of
language. Of the import jobs: dismissing
a job (`remove()`), `cancelAll()` as a loop (each of its cancels is a `Cancel`),
`onIdle`, the speaker attribution and the language vote, recordings or units
without speech, the pipeline *vad-v1*, the hidden window the decoder lives in, the
polishing of a transcript, progress and time-saved counters. The recap and
its write into the meeting are one step; a write may fail only in the tail and
in the failure that follows it, and a rejected write elsewhere (in `pump()` or in the
buffered pipeline), which leaves the slot held, is not a step of the model. A resume
waits until the write of the failure has landed, which is when its card appears.
