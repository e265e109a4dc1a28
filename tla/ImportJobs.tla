----------------------------- MODULE ImportJobs -----------------------------
(***************************************************************************)
(* The import queue (main/import-jobs.ts): recordings are decoded one at a *)
(* time, transcribed, saved as meetings and summarised, with a checkpoint  *)
(* on disk that a restart goes on from.                                    *)
(*                                                                         *)
(* The manager is one object on which many async functions run: the pump   *)
(* that admits a job, the callbacks of its decoder, the tail that saves it,*)
(* and the calls of the user.  Here an async function in progress is a     *)
(* record in mem.threads: the point where it awaits, its job, the attempt  *)
(* it works for and, when it awaits persist(), the copy of the job that is *)
(* being written.  A step resolves one await and runs to the next.  Writes *)
(* land in any order, because each has a temporary file of its own.        *)
(*                                                                         *)
(* A recording is Slabs chunks of decoded PCM, or Windows utterances once  *)
(* it is whole; each has speech.  The PCM of the Long ones passes the cap  *)
(* of the buffered pipeline.  Transcription with its retry, language votes,*)
(* speakers, progress, time-saved counters and onIdle() are left out.      *)
(***************************************************************************)
EXTENDS Naturals, Sequences, SequencesExt, FiniteSets, FiniteSetsExt

CONSTANTS
    Jobs,           \* recordings a user may import
    Long,           \* those whose whole PCM is more than VAD_MAX_SAMPLES
    Slabs,          \* chunks of a recording
    Windows,        \* utterances of a recording
    BufferLimit,    \* slabs of a long one that VAD_MAX_SAMPLES holds
    MaxBatch,       \* bound: recordings picked at once
    MaxUpsets,      \* bound: cancels, resumes, failed writes, deaths and
                    \* readings of low memory, together
    MaxCrashes,     \* bound: deaths of the process
    MaxBuild,       \* bound: versions with their own IMPORT_CHUNK_SECONDS
    None

ASSUME JobsAreFinite == IsFiniteSet(Jobs)
ASSUME LongAreJobs == Long \subseteq Jobs
ASSUME RecordingsHaveSpeech == Slabs \in Nat \ {0} /\ Windows \in Nat \ {0}
ASSUME LimitIsShort == BufferLimit \in Nat /\ BufferLimit < Slabs
ASSUME ImportBounds == {MaxBatch, MaxUpsets, MaxCrashes, MaxBuild} \subseteq Nat

VARIABLES
    mem,        \* the ImportJobManager and the decoder it drives
    disk,       \* job -> its checkpoint file, or None
    files,      \* job -> meeting files saved for it
    build,      \* the version that runs
    started, upsets, crashes,
    \* history
    cut,        \* a crash lost a meeting that the checkpoint does not tell of
    raced,      \* cancelled while an earlier checkpoint write was under way
    stranded,   \* cancelled, and then the tail threw or could not delete
    misfired    \* failed by an admission that was no longer accepted

bounds == <<started, upsets, crashes>>
history == <<cut, raced, stranded, misfired>>
vars == <<mem, disk, files, build, bounds, history>>

(* vad: pipeline 'vad-v2', where cursor counts windows and not slabs.      *)
NoJob == [state |-> "absent", vad |-> FALSE, chunkSec |-> 1, cursor |-> 0,
          total |-> 0, lines |-> <<>>, file |-> FALSE, error |-> "none"]
NoAttempt == [id |-> 0, accepting |-> FALSE, tailAllowed |-> FALSE]
NoDecoder == [att |-> 0, next |-> 0, busy |-> FALSE]

NewProcess(rest) ==
    [job |-> [j \in Jobs |-> NoJob],
     queue |-> <<>>,
     pcm |-> [j \in Jobs |-> 0],                \* slabs in pcmByJob
     slot |-> {},                               \* decodeSlotIds
     active |-> {},                             \* activeJobIds
     consumer |-> {},                           \* retainedPcmConsumerIds
     att |-> [j \in Jobs |-> NoAttempt],        \* speakerAttempts
     made |-> [j \in Jobs |-> 0],
     decoder |-> [j \in Jobs |-> NoDecoder],
     batch |-> <<>>,                            \* startMany(): still to create
     boot |-> rest,                             \* recover(): still to load
     lows |-> 0,                                \* readings of low memory
     threads |-> {}]

Init ==
    /\ mem = NewProcess(<<>>)
    /\ disk = [j \in Jobs |-> None]
    /\ files = [j \in Jobs |-> 0]
    /\ build = 1
    /\ started = {} /\ upsets = 0 /\ crashes = 0
    /\ cut = {} /\ raced = {} /\ stranded = {} /\ misfired = {}

Terminal(state) == state \in {"done", "failed", "cancelled"}
Known(m) == {j \in Jobs : m.job[j].state # "absent"}
IsOver(m, j) == Terminal(m.job[j].state)

-----------------------------------------------------------------------------
(* Awaiting.                                                               *)

Thread(at, j, a) == [at |-> at, job |-> j, att |-> a, rec |-> None, seq |-> 0, then |-> "none"]
Await(m, thread) == [m EXCEPT !.threads = @ \cup {thread}]
Save(m, thread) == Await(m, [thread EXCEPT !.rec = m.job[thread.job]])

(* What disturbs the manager: a cancel, a resume, a failed write, a death, *)
(* and too little free memory, of which this process has seen mem.lows.    *)
Upset == upsets + mem.lows < MaxUpsets /\ upsets' = upsets + 1

(* The threads at a point, and memory without one that resumes.            *)
At(point) == {t \in mem.threads : t.at = point}
Woken(t) == [mem EXCEPT !.threads = @ \ {t}]

Landed(t) == disk' = [disk EXCEPT ![t.job] = t.rec]

(* removeCheckpoint() swallows the failure of store.remove(): "a stale     *)
(* encrypted manifest is preferable".                                      *)
Unlinked(t) ==
    \/ disk' = [disk EXCEPT ![t.job] = None] /\ UNCHANGED upsets
    \/ disk' = disk /\ Upset

-----------------------------------------------------------------------------
(* Attempts, and the slot for decoded audio.                               *)

Accepts(m, j, a) == a > 0 /\ m.att[j].id = a /\ m.att[j].accepting
CanFinish(m, j, a) == a > 0 /\ m.att[j].id = a /\ m.att[j].tailAllowed
Stop(m, j) == [m EXCEPT !.att[j].accepting = FALSE, !.att[j].tailAllowed = FALSE]
Retire(m, j, a) == IF m.att[j].id = a THEN [m EXCEPT !.att[j] = NoAttempt] ELSE m

(* A window cursor means nothing to slabs.                                 *)
Downgraded(job) ==
    IF job.cursor = 0 /\ job.total = 0 /\ job.lines = <<>>
    THEN [job EXCEPT !.vad = FALSE]
    ELSE [job EXCEPT !.vad = FALSE, !.cursor = 0, !.total = 0, !.lines = <<>>,
                     !.chunkSec = build]

(* What the free memory may be: it decides for the buffered pipeline only. *)
Readings(m, asks) == IF asks /\ upsets + m.lows < MaxUpsets THEN BOOLEAN ELSE {FALSE}

(* The synchronous part of pump() for the i-th in the queue.  low: the     *)
(* free memory is below what the buffered pipeline needs.                  *)
Claim(m, i, low) ==
    LET j == m.queue[i]
        a == m.made[j] + 1
        job == IF low THEN Downgraded(m.job[j]) ELSE m.job[j]
    IN  Save([m EXCEPT !.queue = SubSeq(@, i + 1, Len(@)),
                       !.pcm[j] = 0,
                       !.slot = @ \cup {j},
                       !.active = @ \cup {j},
                       !.made[j] = a,
                       !.lows = IF low THEN @ + 1 ELSE @,
                       !.att[j] = [id |-> a, accepting |-> TRUE, tailAllowed |-> TRUE],
                       !.job[j] = [job EXCEPT !.state = "decoding",
                                              !.total = IF job.vad THEN 0 ELSE @]],
             Thread("claimed", j, a))

(* pump(): the set of what it may make of m.                               *)
Pumped(m) ==
    LET live == {i \in DOMAIN m.queue : m.queue[i] \in Known(m) /\ ~IsOver(m, m.queue[i])}
    IN  IF m.slot # {} THEN {m}
        ELSE IF live = {} THEN {[m EXCEPT !.queue = <<>>]}
        ELSE {Claim(m, Min(live), low) :
                 low \in Readings(m, m.job[m.queue[Min(live)]].vad)}

Queue(m, j) == IF Contains(m.queue, j) THEN m ELSE [m EXCEPT !.queue = Append(@, j)]

(* A release that leaves the queue waiting.                                *)
ReleaseQuietly(m, j, a, retainForTail) ==
    {[m EXCEPT !.att[j].accepting = FALSE, !.slot = @ \ {j}]}

(* releaseAdmissionSlot(): whatever pump() makes of the free slot.         *)
ReleaseAdmission(m, j, a, retainForTail) ==
    IF j \notin m.slot \/ (a > 0 /\ m.att[j].id # a) THEN {m}
    ELSE LET disposed == [m EXCEPT !.att[j].accepting = FALSE, !.slot = @ \ {j}]
         IN  Pumped(IF retainForTail /\ m.att[j].tailAllowed
                    THEN disposed ELSE Retire(disposed, j, a))

(* A release with decoded audio still held.                                *)
ReleaseEarly(m, j) == ReleaseAdmission(m, j, m.att[j].id, TRUE)

(* releaseDecodeSlot(): not while decoded audio of the job is held.        *)
ReleaseDecode(m, j) ==
    IF m.pcm[j] > 0 \/ j \in m.consumer THEN {m}
    ELSE ReleaseAdmission(m, j, m.att[j].id, TRUE)

(* fail(), up to its write.  then: who awaits it.                          *)
Fail(m, j, error, then) ==
    Save([Stop(m, j) EXCEPT !.job[j].state = "failed", !.job[j].error = error],
         [Thread("failing", j, m.att[j].id) EXCEPT !.then = then])

FailDecoder(m, j) ==
    IF CanFinish(m, j, m.att[j].id) /\ ~IsOver(m, j) THEN Fail(m, j, "other", "none") ELSE m

(* Who awaits pump() goes on later if it admits a job, and at once if not. *)
Later(m, thread, now) == IF m.slot = {} THEN now ELSE {Await(m, thread)}

(* The decoder's own handler of a rejected chunk, unless it was reaped.    *)
DecoderRejected(m, j, decoder) ==
    IF m.decoder[j].att = decoder
    THEN FailDecoder([m EXCEPT !.decoder[j] = NoDecoder], j) ELSE m

(* The end of acceptDecodedChunk() and of the functions it calls.          *)
LeaveChunk(m, j, a) ==
    LET left == [m EXCEPT !.consumer = @ \ {j}]
    IN  IF IsOver(m, j) \/ ~Accepts(m, j, a) THEN ReleaseAdmission(left, j, a, FALSE) ELSE {left}
ChunkReturns(m, j, a) ==
    LET next == IF m.decoder[j].att = a
                THEN [m EXCEPT !.decoder[j].busy = FALSE, !.decoder[j].next = @ + 1] ELSE m
    IN  LeaveChunk(next, j, a)
ChunkThrows(m, j, a) ==
    UNION {Later(left, Thread("threw", j, a), {DecoderRejected(left, j, a)}) :
              left \in LeaveChunk(m, j, a)}

(* The end of consumeVadPcm(), and finishDecoding() after it: the tail     *)
(* runs if nothing has stopped it since.                                   *)
ToTail(m, j, a) ==
    LET left == Retire(m, j, a)
    IN  IF m.job[j].state = "transcribing" /\ CanFinish(m, j, a)
        THEN Await(left, [Thread("saveMeeting", j, 0) EXCEPT !.rec = m.job[j]]) ELSE left
ConsumeEnds(m, j, a, ready) ==
    LET left == [m EXCEPT !.consumer = @ \ {j}]
        released == ReleaseAdmission(left, j, a, ready /\ CanFinish(left, j, a))
    IN  UNION {IF ready THEN Later(n, Thread("tail", j, a), {ToTail(n, j, a)})
               ELSE {Retire(n, j, a)} : n \in released}

(* finally of finalize(), and the end of fail().                           *)
Idle(m, j) == IF j \in m.active THEN Pumped([m EXCEPT !.active = @ \ {j}]) ELSE {m}
TailEnds(m, j) == UNION {Idle(n, j) : n \in ReleaseDecode(m, j)}

(* catch of finalize().                                                    *)
TailFails(m, j) ==
    IF m.job[j].state = "cancelled" THEN TailEnds(m, j) ELSE {Fail(m, j, "other", "tail")}

AfterFail(m, t) ==
    CASE t.then = "chunk" -> ChunkThrows(m, t.job, t.att)
      [] t.then = "refused" -> {DecoderRejected(m, t.job, t.att)}
      [] t.then = "consume" -> ConsumeEnds(m, t.job, t.att, FALSE)
      [] t.then = "tail" -> TailEnds(m, t.job)
      [] OTHER -> {m}

FailSaved(t) ==
    /\ t.at = "failing"
    /\ Landed(t)
    /\ \E m \in ReleaseDecode([Woken(t) EXCEPT !.pcm[t.job] = 0], t.job) :
          \E n \in Idle(IF t.job \notin m.slot \cup m.consumer THEN Retire(m, t.job, t.att) ELSE m, t.job) :
              mem' \in AfterFail(n, t)
    /\ UNCHANGED <<files, build, bounds, history>>

-----------------------------------------------------------------------------
(* startMany().                                                            *)

Create(m, batch, low) ==
    LET j == Head(batch)
    IN  Save([m EXCEPT !.batch = Tail(batch), !.lows = IF low THEN @ + 1 ELSE @,
                       !.job[j] = [NoJob EXCEPT !.state = "queued", !.vad = ~low, !.chunkSec = build]],
             Thread("created", j, 0))

StartMany(batch) ==
    /\ mem.batch = <<>> /\ At("created") = {}
    /\ batch # <<>> /\ Len(batch) <= MaxBatch /\ Range(batch) \cap started = {}
    /\ \E low \in Readings(mem, TRUE) : mem' = Create(mem, batch, low)
    /\ started' = started \cup Range(batch)
    /\ UNCHANGED <<disk, files, build, upsets, crashes, history>>

Created(t) ==
    /\ t.at = "created"
    /\ Landed(t)
    /\ LET m == IF t.job \in mem.slot THEN Woken(t) ELSE Queue(Woken(t), t.job)
       IN  IF m.batch = <<>> THEN mem' \in Pumped(m)
           ELSE \E low \in Readings(m, TRUE) : mem' = Create(m, m.batch, low)
    /\ UNCHANGED <<files, build, bounds, history>>

-----------------------------------------------------------------------------
(* pump() after its claim.                                                 *)

ClaimSaved(t) ==
    /\ t.at = "claimed"
    /\ Landed(t)
    /\ mem' \in IF Accepts(mem, t.job, t.att) THEN {Await(Woken(t), Thread("policy", t.job, t.att))}
                ELSE Pumped(Woken(t))
    /\ UNCHANGED <<files, build, bounds, history>>

(* The jobs whose decoder is alive, and those among them that a new one    *)
(* may reap; the last in a version that reaps none.                        *)
Decoding(m) == {j \in Jobs : m.decoder[j].att > 0}
NoneStale(m, j) == {}
Stale(m, j) == {k \in Decoding(m) \ {j} : m.job[k].state # "decoding"}

Decode(m, j, a) ==
    IF Decoding(m) \ Stale(m, j) # {}
    THEN Fail(m, j, IF Decoding(m) \ Stale(m, j) = {j} THEN "own" ELSE "active", "none")
    ELSE [m EXCEPT !.decoder = [k \in Jobs |->
             IF k = j THEN [att |-> a, busy |-> FALSE,
                            next |-> IF m.job[j].vad THEN 0 ELSE m.job[j].cursor]
             ELSE NoDecoder]]

(* onDecodeAdmission() resolves, and decode() starts.                      *)
Admitted(t) ==
    /\ t.at = "policy"
    /\ mem' \in IF Accepts(mem, t.job, t.att) THEN {Decode(Woken(t), t.job, t.att)}
                ELSE Pumped(Woken(t))
    /\ UNCHANGED <<disk, files, build, bounds, history>>

(* Either throws: the recording has moved or changed.  It fails the job as *)
(* it is now, also when a later attempt is at work on it.                  *)
AdmissionThrows(t) ==
    /\ t.at = "policy"
    /\ mem' \in IF mem.job[t.job].state # "cancelled" THEN {Fail(Woken(t), t.job, "other", "none")}
                ELSE Pumped(Woken(t))
    /\ misfired' = IF mem.job[t.job].state \notin {"cancelled", "failed"} /\ ~Accepts(mem, t.job, t.att)
                   THEN misfired \cup {t.job} ELSE misfired
    /\ UNCHANGED <<disk, files, build, bounds, cut, raced, stranded>>

-----------------------------------------------------------------------------
(* acceptDecodedChunk().                                                   *)

(* What the process transcribes now: slabs are as long as its version says.*)
Unit(job, i) == [kind |-> IF job.vad THEN "window" ELSE "slab", n |-> i,
                 sec |-> IF job.vad THEN 0 ELSE build]
Recording(job) == [i \in 1..(IF job.vad THEN Windows ELSE Slabs) |-> Unit(job, i)]

Limit(j) == IF j \in Long THEN BufferLimit ELSE Slabs
ChunkAt(at, j, a, seq) == [Thread(at, j, a) EXCEPT !.seq = seq]

(* The slab to transcribe next: one of the drained backlog, the one that   *)
(* was submitted, or none.                                                 *)
NextSlab(m, j, a, seq) ==
    LET cursor == m.job[j].cursor
    IN  IF cursor < seq THEN Await(m, ChunkAt("slab", j, a, seq))
        ELSE IF cursor = seq
        THEN Save([m EXCEPT !.job[j].state = "transcribing"], ChunkAt("transcribing", j, a, seq))
        ELSE Save([m EXCEPT !.job[j].state = "decoding"], ChunkAt("decoding", j, a, seq))

(* The chunk with number seq of an attempt that accepts it.                *)
Accept(m, j, a, seq) ==
    LET job == m.job[j]
        expected == IF job.vad THEN m.pcm[j] ELSE job.cursor
        busy == [m EXCEPT !.decoder[j].busy = TRUE]
        held == [busy EXCEPT !.consumer = @ \cup {j}]
        refused(error) == Fail(busy, j, IF m.decoder[j].att = a THEN error ELSE "own", "refused")
    IN  IF seq < expected THEN [m EXCEPT !.decoder[j].next = @ + 1]
        ELSE IF seq > expected THEN refused("order")
        ELSE IF job.total > 0 THEN refused("count")
        ELSE IF job.vad /\ m.pcm[j] < Limit(j)
        THEN [m EXCEPT !.pcm[j] = @ + 1, !.decoder[j].next = @ + 1]
        ELSE IF job.vad
        THEN Save([held EXCEPT !.job[j].vad = FALSE, !.job[j].chunkSec = build],
                  ChunkAt("overflow", j, a, seq))
        ELSE NextSlab(held, j, a, seq)

Chunk(j) ==
    LET decoder == mem.decoder[j]
        a == mem.att[j].id
    IN  /\ decoder.att > 0 /\ ~decoder.busy /\ decoder.next < Slabs
        /\ mem' = IF IsOver(mem, j) \/ ~Accepts(mem, j, a) THEN DecoderRejected(mem, j, decoder.att)
                  ELSE Accept(mem, j, a, decoder.next)
        /\ UNCHANGED <<disk, files, build, bounds, history>>

(* One of the writes of a chunk lands: of the overflow, which then drains  *)
(* the backlog, of either state, or of the cursor.                         *)
ChunkSaved(t) ==
    /\ t.at \in {"overflow", "transcribing", "heard", "decoding"}
    /\ Landed(t)
    /\ LET m == IF t.at = "overflow" /\ Accepts(mem, t.job, t.att)
                THEN [Woken(t) EXCEPT !.pcm[t.job] = 0] ELSE Woken(t)
       IN  mem' \in IF t.at = "decoding" \/ IsOver(m, t.job) \/ ~Accepts(m, t.job, t.att)
                    THEN ChunkReturns(m, t.job, t.att)
                    ELSE IF t.at = "transcribing"
                    THEN {Await(m, ChunkAt("slab", t.job, t.att, t.seq))}
                    ELSE {NextSlab(m, t.job, t.att, t.seq)}
    /\ UNCHANGED <<files, build, bounds, history>>

(* A unit is transcribed, and its line and the cursor are one write.       *)
Transcribe(m, j, a) == ~IsOver(m, j) /\ Accepts(m, j, a)
Line(m, j) ==
    [m EXCEPT !.job[j].lines = Append(@, Unit(m.job[j], m.job[j].cursor + 1)), !.job[j].cursor = @ + 1]

SlabHeard(t) ==
    /\ t.at = "slab"
    /\ mem' \in IF Transcribe(mem, t.job, t.att)
                THEN {Save(Line(Woken(t), t.job), [t EXCEPT !.at = "heard"])}
                ELSE ChunkReturns(Woken(t), t.job, t.att)
    /\ UNCHANGED <<disk, files, build, bounds, history>>

(* Both tries fail.                                                        *)
SlabNotHeard(t) ==
    /\ t.at = "slab"
    /\ mem' \in IF Transcribe(mem, t.job, t.att) THEN {Fail(Woken(t), t.job, "other", "chunk")}
                ELSE ChunkReturns(Woken(t), t.job, t.att)
    /\ UNCHANGED <<disk, files, build, bounds, history>>

ChunkThrew(t) ==
    /\ t.at = "threw"
    /\ mem' = DecoderRejected(Woken(t), t.job, t.att)
    /\ UNCHANGED <<disk, files, build, bounds, history>>

(* The decoder stops by itself, also while a chunk of its is transcribed.  *)
DecoderStops(j) ==
    /\ mem.decoder[j].att > 0
    /\ mem' = FailDecoder([mem EXCEPT !.decoder[j] = NoDecoder], j)
    /\ UNCHANGED <<disk, files, build, bounds, history>>

-----------------------------------------------------------------------------
(* finishDecoding(), after the decoder has gone and given its slot back.   *)
(* own: the decoder was that of the current attempt, which it cannot say.  *)

(* consumeVadPcm() takes the buffered slabs and finds the windows.         *)
Consume(m, j, a) ==
    Save([m EXCEPT !.consumer = @ \cup {j}, !.pcm[j] = 0,
                   !.job[j].total = Windows, !.job[j].state = "transcribing"],
         Thread("windows", j, a))

FinishSlabs(m, j, own) ==
    LET job == m.job[j]
        refused(n, error) == Fail(n, j, IF own THEN error ELSE "own", "none")
    IN  IF job.total \notin {0, Slabs} THEN refused(m, "count")
        ELSE IF job.cursor # Slabs THEN refused([m EXCEPT !.job[j].total = Slabs], "short")
        ELSE Await([m EXCEPT !.job[j].total = Slabs], [Thread("saveMeeting", j, 0) EXCEPT !.rec = job])

Finish(m, j, decoder) ==
    LET a == m.att[j].id
    IN  IF ~CanFinish(m, j, a) THEN {m}
        ELSE IF IsOver(m, j) THEN ReleaseDecode(m, j)
        ELSE IF m.job[j].vad THEN {Consume(m, j, a)}
        ELSE {IF CanFinish(n, j, a) /\ n.job[j].state = "decoding"
              THEN FinishSlabs(Retire(n, j, a), j, a = decoder) ELSE Retire(n, j, a) :
                 n \in ReleaseAdmission(m, j, a, TRUE)}

Complete(j) ==
    LET decoder == mem.decoder[j]
    IN  /\ decoder.att > 0 /\ ~decoder.busy /\ decoder.next >= Slabs
        /\ \E m \in ReleaseDecode([mem EXCEPT !.decoder[j] = NoDecoder], j) :
              mem' \in Later(m, Thread("finish", j, decoder.att), Finish(m, j, decoder.att))
        /\ UNCHANGED <<disk, files, build, bounds, history>>

FinishDecoding(t) ==
    /\ t.at = "finish"
    /\ mem' \in Finish(Woken(t), t.job, t.att)
    /\ UNCHANGED <<disk, files, build, bounds, history>>

NextWindow(m, j, a) ==
    IF ~Transcribe(m, j, a) THEN ConsumeEnds(m, j, a, FALSE)
    ELSE IF m.job[j].cursor < Windows THEN {Await(m, Thread("window", j, a))}
    ELSE ConsumeEnds(m, j, a, TRUE)

WindowsSaved(t) ==
    /\ t.at = "windows"
    /\ Landed(t)
    /\ mem' \in NextWindow(Woken(t), t.job, t.att)
    /\ UNCHANGED <<files, build, bounds, history>>

WindowHeard(t) ==
    /\ t.at = "window"
    /\ mem' \in IF Transcribe(mem, t.job, t.att)
                THEN {Save(Line(Woken(t), t.job), [t EXCEPT !.at = "windows"])}
                ELSE ConsumeEnds(Woken(t), t.job, t.att, FALSE)
    /\ UNCHANGED <<disk, files, build, bounds, history>>

WindowNotHeard(t) ==
    /\ t.at = "window"
    /\ mem' \in IF Transcribe(mem, t.job, t.att) THEN {Fail(Woken(t), t.job, "other", "consume")}
                ELSE ConsumeEnds(Woken(t), t.job, t.att, FALSE)
    /\ UNCHANGED <<disk, files, build, bounds, history>>

Consumed(t) ==
    /\ t.at = "tail"
    /\ mem' = ToTail(Woken(t), t.job, t.att)
    /\ UNCHANGED <<disk, files, build, bounds, history>>

-----------------------------------------------------------------------------
(* finalize().                                                             *)

TailAwait(m, at, j) == Await(m, Thread(at, j, 0))
TailSave(m, at, j, state) == Save([m EXCEPT !.job[j].state = state], Thread(at, j, 0))

(* A tail that does not look.                                              *)
GoOnAnyway(m, j, otherwise) == otherwise

(* abandonIfCancelled() decides how the tail goes on from here.            *)
UnlessCancelled(m, j, otherwise) ==
    IF m.job[j].state = "cancelled" THEN TailAwait(m, "abandoning", j) ELSE otherwise

(* 'saving' written before the file is known, as it once was (MQA-105).    *)
SavedNamelessly(t) ==
    /\ t.at = "saveMeeting"
    /\ mem' = TailSave(Woken(t), "saved", t.job, "saving")
    /\ files' = [files EXCEPT ![t.job] = @ + 1]
    /\ UNCHANGED <<disk, build, bounds, history>>

MeetingSaved(t) ==
    /\ t.at = "saveMeeting"
    /\ mem' = TailSave([Woken(t) EXCEPT !.job[t.job].file = TRUE], "saved", t.job, "saving")
    /\ files' = [files EXCEPT ![t.job] = @ + 1]
    /\ UNCHANGED <<disk, build, bounds, history>>

CheckpointSaved(t) ==
    /\ t.at \in {"saved", "recapping", "done"}
    /\ Landed(t)
    /\ LET m == Woken(t)
       IN  mem' = CASE t.at = "saved" ->
                        UnlessCancelled(m, t.job, TailSave(m, "recapping", t.job, "recapping"))
                    [] t.at = "recapping" -> TailAwait(m, "recap", t.job)
                    [] t.at = "done" -> TailAwait(m, "removing", t.job)
    /\ UNCHANGED <<files, build, bounds, history>>

(* The recap is generated and written, or neither: the tail goes on.       *)
Recapped(t) ==
    /\ t.at = "recap"
    /\ mem' = UnlessCancelled(Woken(t), t.job, TailAwait(Woken(t), "ingest", t.job))
    /\ UNCHANGED <<disk, files, build, bounds, history>>

Ingested(t) ==
    /\ t.at = "ingest"
    /\ mem' = UnlessCancelled(Woken(t), t.job, TailSave(Woken(t), "done", t.job, "done"))
    /\ UNCHANGED <<disk, files, build, bounds, history>>

CheckpointRemoved(t) ==
    /\ t.at = "removing"
    /\ Unlinked(t)
    /\ mem' \in TailEnds(Woken(t), t.job)
    /\ UNCHANGED <<files, build, started, crashes, history>>

(* The checkpoint is dropped, but the meeting stays.                       *)
FileForgotten(t) ==
    /\ t.at = "abandoning"
    /\ mem' = TailAwait(Woken(t), "abandoned", t.job)
    /\ UNCHANGED <<disk, files, build, bounds, history>>

Strands(t) ==
    stranded' = IF mem.job[t.job].state = "cancelled" THEN stranded \cup {t.job} ELSE stranded

(* deleteOrphanedFile(): the file goes, or deleteMeeting() cannot remove it*)
(* (it rejects, or answers not ok), which nobody looks at.                 *)
FileDeleted(t) ==
    /\ t.at = "abandoning"
    /\ \/ files' = [files EXCEPT ![t.job] = @ - 1] /\ UNCHANGED <<upsets, stranded>>
       \/ files' = files /\ Upset /\ Strands(t)
    /\ mem' = TailAwait(Woken(t), "abandoned", t.job)
    /\ UNCHANGED <<disk, build, started, crashes, cut, raced, misfired>>

(* The job no longer points at a file that ought to be gone.               *)
Abandoned(t) ==
    /\ t.at = "abandoned"
    /\ Unlinked(t)
    /\ mem' \in TailEnds([Woken(t) EXCEPT !.job[t.job].file = FALSE], t.job)
    /\ UNCHANGED <<files, build, started, crashes, history>>

(* saveMeeting() or enqueueIngest() rejects.                               *)
TailThrows(t) ==
    /\ t.at \in {"saveMeeting", "ingest"}
    /\ mem' \in TailFails(Woken(t), t.job)
    /\ Strands(t)
    /\ UNCHANGED <<disk, files, build, bounds, cut, raced, misfired>>

(* A checkpoint write of the tail rejects, or that of its failure, which   *)
(* then ends at once.                                                      *)
TailWriteFails(t) ==
    /\ \/ t.at \in {"saved", "recapping", "done"}
          /\ mem' \in TailFails(Woken(t), t.job)
       \/ t.at = "failing" /\ t.then = "tail"
          /\ mem' \in TailEnds(Woken(t), t.job)
    /\ Upset
    /\ Strands(t)
    /\ UNCHANGED <<disk, files, build, started, crashes, cut, raced, misfired>>

-----------------------------------------------------------------------------
(* The user.                                                               *)

(* A cursor kept over a change of the slab length.                         *)
PreparedInPlace(job) == [job EXCEPT !.chunkSec = build]

(* prepareCheckpoint(): slabs of another length are not counted on.        *)
Prepared(job) ==
    IF job.vad \/ job.chunkSec = build THEN job
    ELSE [job EXCEPT !.cursor = 0, !.lines = <<>>, !.total = 0, !.chunkSec = build]

Requeued(job) == [Prepared(job) EXCEPT !.state = "queued", !.error = "none"]

(* A card offers Resume once the failure has been published, which is when *)
(* its write has landed.  A job with a file lacks only its summary.        *)
Resume(j) ==
    /\ mem.job[j].state = "failed"
    /\ \A t \in At("failing") : t.job # j
    /\ mem' = IF mem.job[j].file
              THEN Save([mem EXCEPT !.job[j].state = "done"], Thread("surfaced", j, 0))
              ELSE Save([mem EXCEPT !.job[j] = Requeued(@)], Thread("resumed", j, 0))
    /\ Upset
    /\ UNCHANGED <<disk, files, build, started, crashes, history>>

ResumeSaved(t) ==
    /\ t.at = "resumed"
    /\ Landed(t)
    /\ mem' \in Pumped(Queue(Woken(t), t.job))
    /\ UNCHANGED <<files, build, bounds, history>>

(* cancel(); cancelAll() is one for each job that is not over.             *)
Cancel(j) ==
    /\ j \in Known(mem) /\ ~IsOver(mem, j)
    /\ Upset
    /\ mem' = Save([Stop(mem, j) EXCEPT !.job[j].state = "cancelled", !.job[j].error = "none"],
                   Thread("cancelling", j, mem.att[j].id))
    /\ raced' = IF \E t \in mem.threads : t.job = j /\ t.rec # None /\ t.at # "saveMeeting"
                THEN raced \cup {j} ELSE raced
    /\ UNCHANGED <<disk, files, build, started, crashes, cut, stranded, misfired>>

CancelSaved(t) ==
    /\ t.at = "cancelling"
    /\ Landed(t)
    /\ mem' = Await(Woken(t), Thread("cancelled", t.job, t.att))
    /\ UNCHANGED <<files, build, bounds, history>>

CancelRemoved(t) ==
    /\ t.at = "cancelled"
    /\ Unlinked(t)
    /\ mem' = Await(Woken(t), Thread("closing", t.job, t.att))
    /\ UNCHANGED <<files, build, started, crashes, history>>

(* onCancel() has closed the decoder.                                      *)
CancelEnds(t) ==
    /\ t.at = "closing"
    /\ \E m \in ReleaseDecode([Woken(t) EXCEPT !.decoder[t.job] = NoDecoder, !.pcm[t.job] = 0], t.job) :
          mem' \in Pumped([(IF t.job \notin m.slot \cup m.consumer THEN Retire(m, t.job, t.att) ELSE m)
                              EXCEPT !.active = @ \ {t.job}])
    /\ UNCHANGED <<disk, files, build, bounds, history>>

-----------------------------------------------------------------------------
(* Death, and recover().                                                   *)

(* The checkpoint does not tell of a meeting that the manager knows of, or *)
(* goes on with a cancelled job whose meeting could not be deleted.        *)
Untold(j) ==
    /\ disk[j] # None /\ ~disk[j].file
    /\ \/ mem.job[j].file
       \/ mem.job[j].state = "cancelled" /\ files[j] > 0 /\ disk[j].state # "cancelled"

Crash ==
    /\ crashes < MaxCrashes /\ crashes' = crashes + 1
    /\ Upset
    /\ \E rest \in SetToSeqs({j \in Jobs : disk[j] # None}) : mem' = NewProcess(rest)
    /\ build' \in build..MaxBuild
    /\ cut' = cut \cup {j \in Jobs : Untold(j)}
    /\ UNCHANGED <<disk, files, started, raced, stranded, misfired>>

(* After a job of the list comes the next one, and at the end pump().      *)
BootGoesOn(m) == IF m.boot = <<>> THEN Pumped(m) ELSE {m}
BootThread(at, j) == [Thread(at, j, 0) EXCEPT !.then = "boot"]

(* The next job of the list; a durable meeting is not imported again.      *)
Recover ==
    /\ mem.boot # <<>>
    /\ \A t \in mem.threads : t.then # "boot"
    /\ LET j == Head(mem.boot)
           saved == disk[j]
           m == [mem EXCEPT !.boot = Tail(@), !.job[j] = saved]
       IN  mem' \in IF Terminal(saved.state) THEN BootGoesOn(m)
                    ELSE IF saved.file /\ saved.state \in {"recapping", "saving"}
                    THEN {Save([m EXCEPT !.job[j].state = "done"], BootThread("surfaced", j))}
                    ELSE {Save([m EXCEPT !.job[j] = Requeued(@)], BootThread("recovered", j))}
    /\ UNCHANGED <<disk, files, build, bounds, history>>

RecoverSaved(t) ==
    /\ t.at = "recovered"
    /\ Landed(t)
    /\ mem' \in BootGoesOn(Queue(Woken(t), t.job))
    /\ UNCHANGED <<files, build, bounds, history>>

(* A job whose meeting is there is done: its checkpoint goes.              *)
SurfacedSaved(t) ==
    /\ t.at = "surfaced"
    /\ Landed(t)
    /\ mem' = Await(Woken(t), [t EXCEPT !.at = "closed", !.rec = None])
    /\ UNCHANGED <<files, build, bounds, history>>

SurfacedRemoved(t) ==
    /\ t.at = "closed"
    /\ Unlinked(t)
    /\ mem' \in IF t.then = "boot" THEN BootGoesOn(Woken(t)) ELSE {Woken(t)}
    /\ UNCHANGED <<files, build, started, crashes, history>>

-----------------------------------------------------------------------------
(* What the manager does once the user, the decoder, the disk and the      *)
(* models have answered.                                                   *)
Goes(t) ==
    \/ FailSaved(t) \/ Created(t) \/ ClaimSaved(t) \/ Admitted(t) \/ AdmissionThrows(t)
    \/ ChunkSaved(t) \/ SlabHeard(t) \/ SlabNotHeard(t) \/ ChunkThrew(t)
    \/ FinishDecoding(t) \/ WindowsSaved(t) \/ WindowHeard(t) \/ WindowNotHeard(t)
    \/ Consumed(t) \/ MeetingSaved(t) \/ CheckpointSaved(t) \/ Recapped(t) \/ Ingested(t)
    \/ CheckpointRemoved(t) \/ FileDeleted(t) \/ Abandoned(t) \/ TailThrows(t)
    \/ ResumeSaved(t) \/ CancelSaved(t) \/ CancelRemoved(t) \/ CancelEnds(t)
    \/ RecoverSaved(t) \/ SurfacedSaved(t) \/ SurfacedRemoved(t)

System ==
    \/ \E t \in mem.threads : Goes(t)
    \/ \E j \in Jobs : Chunk(j) \/ Complete(j)
    \/ Recover

Next ==
    \/ System
    \/ \E t \in mem.threads : TailWriteFails(t)
    \/ \E j \in Jobs : Resume(j) \/ Cancel(j) \/ DecoderStops(j)
    \/ \E batch \in SetToAllKPermutations(Jobs) : StartMany(batch)
    \/ Crash

Spec == Init /\ [][Next]_vars

-----------------------------------------------------------------------------
(* Decoded audio is held for one recording at a time, the one that has the *)
(* slot: "Release only after no buffered or locally-consumed whole-        *)
(* recording PCM remains reachable" (import-jobs.ts:602), whoever cancels, *)
(* fails or resumes it meanwhile.  What a chunk that met the cap leaves    *)
(* buffered is the exception: when it is stopped while the downgrade is    *)
(* being written, the slot goes before the cancel or the failure has       *)
(* dropped the buffer.  So is a job that a late admission has failed: what *)
(* goes on for its earlier attempt may then release the slot of the later  *)
(* one.                                                                    *)
Stopping(j) ==
    \E t \in mem.threads : t.job = j /\ t.at \in {"cancelling", "cancelled", "closing", "failing"}
OneRecordingInMemory ==
    /\ \A j, k \in mem.slot : j = k
    /\ mem.consumer \subseteq mem.slot \cup misfired
    /\ \A j \in Jobs \ (mem.slot \cup misfired) : mem.pcm[j] > 0 => Stopping(j)

(* A meeting is saved with the whole recording, each unit once and in      *)
(* order, whichever checkpoints, downgrades, overflows and versions the    *)
(* transcript was put together from.                                       *)
TranscriptIsWhole ==
    \A t \in At("saveMeeting") : t.rec.lines = Recording(t.rec)

(* No job fails because its decoder counts otherwise than its checkpoint   *)
(* or because the decoder of another job is in the way: a stale one is     *)
(* reaped "so it can't block the next job with a false 'already active'"   *)
(* (index.ts:1525).  The job's own previous decoder can do both ("own"):   *)
(* it outlives its attempt when that was stopped by a step that does not   *)
(* know the decoder, and chunks do not say which attempt they are for.     *)
(* Once a late admission has failed a job, two of its attempts count on    *)
(* each other's decoder.                                                   *)
NoFalseAccusation ==
    misfired = {} => \A j \in Jobs : mem.job[j].error \notin {"order", "count", "active", "short"}

(* A recording is saved as one meeting, with resumes, failed writes and    *)
(* crashes, unless a crash loses a meeting that its checkpoint does not    *)
(* tell of (it fell between the two, or the meeting of a cancelled job     *)
(* could not be deleted while a checkpoint that goes on stayed), or a      *)
(* late admission fails the job while its meeting is being saved.          *)
OneMeetingPerImport ==
    \A j \in Jobs : files[j] > 1 => j \in cut \cup misfired

(* A cancelled import that has come to rest leaves no meeting unless its   *)
(* tail threw after the cancel (the catch of finalize() does not go through*)
(* abandonIfCancelled()), deleteMeeting() could not remove it, or a late   *)
(* admission has failed the job, and no checkpoint that a restart would go *)
(* on from unless an older write was overtaken.                            *)
CancelLeavesNothing ==
    \A j \in Jobs :
        mem.job[j].state = "cancelled" /\ crashes = 0 /\ (\A t \in mem.threads : t.job # j) =>
            /\ files[j] = 0 \/ j \in stranded \cup misfired
            /\ disk[j] = None \/ Terminal(disk[j].state) \/ j \in raced

(* Nobody waits for nothing: who has the slot, and every import that is    *)
(* not over, has a step of its own coming or waits in the queue, and the   *)
(* queue waits only for the slot or for the list that is still being added *)
(* to it.  A pump() forgotten on one of the many ways a decode can end     *)
(* would leave the recordings behind it queued until the next start.  That *)
(* does happen to a job that a late admission has failed: its two attempts *)
(* may each leave it to the other.                                         *)
Served(j) ==
    (\E t \in mem.threads : t.job = j) \/ (mem.decoder[j].att > 0 /\ ~mem.decoder[j].busy)
Adding == At("created") # {} \/ mem.boot # <<>> \/ \E t \in mem.threads : t.then = "boot"
NobodyIsStuck ==
    /\ \A j \in mem.slot \ misfired : Served(j)
    /\ \A j \in Known(mem) \ misfired :
          ~IsOver(mem, j) /\ ~Served(j) => j \in Range(mem.queue) /\ (mem.slot # {} \/ Adding)

(* No step of an import that was cancelled brings it back, except the end  *)
(* of a saveMeeting() that was under way: every other await of the decode, *)
(* the transcription and the tail is followed by a look at the state.      *)
CancelHolds ==
    [][\A j \in Jobs :
          mem.job[j].state = "cancelled" /\ (\A t \in At("saveMeeting") : t.job # j) =>
              mem'.job[j].state \in {"cancelled", "absent"}]_vars

(* A cancelled import stays cancelled.  finalize() holds that after a      *)
(* cancel during saveMeeting() the meeting is deleted again                *)
(* (import-jobs.ts:835), but it sets the state before it looks.            *)
CancelStays ==
    [][\A j \in Jobs : mem.job[j].state = "cancelled" => mem'.job[j].state \in {"cancelled", "absent"}]_vars
=============================================================================
