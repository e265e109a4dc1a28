---------------------------- MODULE LocalRuntime ----------------------------
(***************************************************************************)
(* The llama-server sidecar of Metis Local: main/llm/local-runtime.ts,     *)
(* which owns one child process, and main/llm/local.ts, whose requests     *)
(* start it, stream from it, and pause in favour of a meeting's recap.     *)
(*                                                                         *)
(* Every await is a place where something else may run.  A promise that    *)
(* settles resumes its waiters before the next event: a request that has   *)
(* to call start() again ("reeval") goes before one whose start() returned *)
(* ("attach"), and both go before any timer, process event or user action. *)
(***************************************************************************)
EXTENDS Integers, Sequences, FiniteSetsExt, Functions, Queues

CONSTANTS
    Requests,       \* calls of streamLocal() and prewarmLocal()
    Kind,           \* request -> "recap", "background", "ask" or "prewarm"
    Wants,          \* request -> the model and whether it carries an image
    Corrupt,        \* models whose files fail verifyIntegrity()
    Candidates,     \* the binaries resolveBinaryPath() finds, in order
    MaxUpsets       \* bound: crashes, failed starts, missed budgets, stops

Configs == Range(Wants)
Models == {c.model : c \in Configs}
Kinds == {"recap", "background", "ask", "prewarm"}

ASSUME RequestsAreDescribed ==
    /\ Kind \in [Requests -> Kinds]
    /\ DOMAIN Wants = Requests
    /\ \A r \in Requests : Wants[r].vision \in BOOLEAN
ASSUME OwnersDiffer == "auto" \notin Requests
ASSUME SomeBinary == Candidates \in Seq({"vulkan", "cpu", "mac"}) /\ Candidates # <<>>
ASSUME BoundIsNat == MaxUpsets \in Nat

VARIABLES
    rt,         \* the module variables of local-runtime.ts and local.ts
    procs,      \* the sidecar processes that exist, by an id of the model's
    reqs,       \* request -> where it stands
    verified,   \* models that have passed verifyIntegrity()
    upsets      \* faults and explicit stops so far

vars == <<rt, procs, reqs, verified, upsets>>

None == 0
Phases == {"booting", "polling", "recording", "usable"}

Init ==
    /\ rt = [state |-> "stopped", child |-> None, port |-> None,
             generation |-> 0, startPromise |-> None, loaded |-> {},
             cpuPinned |-> FALSE, restarted |-> FALSE, idleTimer |-> FALSE,
             streams |-> 0, attached |-> {}, drainWaiters |-> {},
             summaries |-> {}, preemptable |-> {}]
    /\ procs = <<>>
    /\ reqs = [r \in Requests |-> [pc |-> "new", live |-> FALSE, gen |-> 0, on |-> None]]
    /\ verified = {} /\ upsets = 0

-----------------------------------------------------------------------------
(* The synchronous parts.  Each takes and returns the whole state s of     *)
(* runtime, processes and requests, as one turn of the event loop calls    *)
(* several of them.                                                        *)

Now == [rt |-> rt, procs |-> procs, reqs |-> reqs]
Become(s) == rt' = s.rt /\ procs' = s.procs /\ reqs' = s.reqs

(* A configuration that is loaded serves a request for the same model, and *)
(* one with the projector serves a request without an image.               *)
SamePaths(loaded, c) ==
    \E l \in loaded : l.model = c.model /\ (l.vision \/ ~c.vision)

(* The last stream ends and wakes nobody.                                  *)
EndStreamsSilently(s, S) ==
    [s EXCEPT !.rt.streams = @ - Cardinality(s.rt.attached \cap S),
              !.rt.attached = @ \ S]

(* endStream() for the requests of S that hold a stream.  The last one     *)
(* wakes every start() that waits for the drain.                           *)
EndStreams(s, S) ==
    LET left == s.rt.streams - Cardinality(s.rt.attached \cap S)
        woken == IF left = 0 THEN s.rt.drainWaiters ELSE {}
    IN  [s EXCEPT !.rt.streams = left,
                  !.rt.attached = @ \ S,
                  !.rt.drainWaiters = @ \ woken,
                  !.reqs = [r \in Requests |->
                      IF r \in woken THEN [@[r] EXCEPT !.pc = "reeval"] ELSE @[r]]]

(* A settle that leaves the sidecar marked busy.                           *)
SettleKeepsStreams(s, S) ==
    [s EXCEPT !.rt.summaries = @ \ S, !.rt.preemptable = @ \ S]

(* settle() of the requests in S: all they hold is released.               *)
Settle(s, S) ==
    LET t == EndStreams(s, S) IN
    [t EXCEPT !.rt.summaries = @ \ S, !.rt.preemptable = @ \ S]

(* The requests in S have their answer and are over.                       *)
Answer(s, S) ==
    LET t == Settle(s, S) IN
    [t EXCEPT !.reqs = [r \in Requests |->
        IF r \in S THEN [@[r] EXCEPT !.pc = "over", !.live = FALSE, !.on = None] ELSE @[r]]]

(* An abort that does not reach the open stream.                           *)
CancelKeepsStreaming(s, S) ==
    LET t == Settle(s, S) IN
    [t EXCEPT !.reqs = [r \in Requests |->
        IF r \in S THEN [@[r] EXCEPT !.live = FALSE] ELSE @[r]]]

(* abort(): it is answered, but a request that has not attached finds out  *)
(* only after the start it waits for.                                      *)
Cancel(s, S) ==
    LET t == Settle(s, S) IN
    [t EXCEPT !.reqs = [r \in Requests |->
        IF r \in S
        THEN [t.reqs[r] EXCEPT !.pc = IF @ = "stream" THEN "over" ELSE @,
                               !.live = FALSE, !.on = None]
        ELSE t.reqs[r]]]

StopChildProcess(s) ==
    IF s.rt.child = None THEN [s EXCEPT !.rt.port = None]
    ELSE [s EXCEPT !.procs[s.rt.child].killed = TRUE,
                   !.rt.child = None, !.rt.port = None]

Stop(s) ==
    [StopChildProcess(s) EXCEPT !.rt.idleTimer = FALSE,
                                !.rt.generation = @ + 1,
                                !.rt.state = "stopped"]

(* markActivity(): rearms the idle timer of a running sidecar, and only    *)
(* clears the timer of any other.                                          *)
MarkActivity(s) == [s EXCEPT !.rt.idleTimer = (s.rt.state = "running")]

NewId(P) == CHOOSE n \in 1..(Cardinality(DOMAIN P) + 1) :
                /\ n \notin DOMAIN P
                /\ \A m \in 1..(n - 1) : m \in DOMAIN P

Spawn(s, generation, owner, config, candidates) ==
    LET id == NewId(s.procs)
        proc == [generation |-> generation, owner |-> owner, config |-> config,
                 variant |-> Head(candidates), left |-> Tail(candidates),
                 phase |-> "booting", killed |-> FALSE, settled |-> FALSE]
    IN  [s EXCEPT !.procs = [n \in DOMAIN @ \cup {id} |-> IF n = id THEN proc ELSE @[n]],
                  !.rt.child = id]

(* The promise of a start rejects: the caller that owns it and those that  *)
(* wait for it fail with it.  An automatic restart has nobody to tell.     *)
StartRejects(s, generation, owner) ==
    LET t == [s EXCEPT !.rt.startPromise = IF @ = generation THEN None ELSE @]
        waiting == {r \in Requests : s.reqs[r].pc = "join" /\ s.reqs[r].gen = generation}
    IN  IF owner = "auto"
        THEN Answer([t EXCEPT !.rt.state = "unavailable"], waiting)
        ELSE Answer(t, waiting \cup {owner})

(* The candidate loop of spawnCandidates() from here on.                   *)
TryCandidates(s, generation, owner, config, candidates) ==
    IF candidates # <<>> THEN Spawn(s, generation, owner, config, candidates)
    ELSE StartRejects([s EXCEPT !.rt.state = "stopped"], generation, owner)

(* A switch that starts the new model beside the old one.                  *)
BeginStartBeside(s, owner, config) ==
    LET generation == s.rt.generation + 1 IN
    TryCandidates(
        [s EXCEPT !.rt.state = "starting", !.rt.generation = generation,
                  !.rt.startPromise = generation, !.rt.loaded = {config}],
        generation, owner, config, Candidates)

(* start() from the point where it takes the runtime over.                 *)
BeginStart(s, owner, config) ==
    LET switch == s.rt.state = "running"
        t == IF switch THEN StopChildProcess(s) ELSE s
        generation == t.rt.generation + 1
    IN  TryCandidates(
            [t EXCEPT !.rt.state = "starting", !.rt.generation = generation,
                      !.rt.startPromise = generation, !.rt.loaded = {config},
                      !.rt.idleTimer = @ /\ ~switch],
            generation, owner, config,
            IF t.rt.cpuPinned THEN Without(Candidates, {"vulkan"}) ELSE Candidates)

(* A switch that does not wait for the streams.                            *)
StartWithoutDrain(s, r) ==
    IF s.rt.state = "unavailable" THEN Answer(s, {r})
    ELSE IF s.rt.state = "starting"
    THEN [s EXCEPT !.reqs[r].pc = "join", !.reqs[r].gen = s.rt.startPromise]
    ELSE IF s.rt.state = "running" /\ SamePaths(s.rt.loaded, Wants[r])
    THEN [s EXCEPT !.reqs[r].pc = "attach"]
    ELSE BeginStart([s EXCEPT !.reqs[r].pc = "own"], r, Wants[r])

(* start() called for request r.                                           *)
Start(s, r) ==
    IF s.rt.state = "unavailable" THEN Answer(s, {r})
    ELSE IF s.rt.state = "starting"
    THEN [s EXCEPT !.reqs[r].pc = "join", !.reqs[r].gen = s.rt.startPromise]
    ELSE IF s.rt.state = "running" /\ SamePaths(s.rt.loaded, Wants[r])
    THEN [s EXCEPT !.reqs[r].pc = "attach"]
    ELSE IF s.rt.state = "running" /\ s.rt.streams > 0
    THEN [s EXCEPT !.reqs[r].pc = "drain", !.rt.drainWaiters = @ \cup {r}]
    ELSE BeginStart([s EXCEPT !.reqs[r].pc = "own"], r, Wants[r])

(* The promise of spawnAndWaitHealthy() for process p rejects.             *)
SpawnRejects(s, p, cancelled) ==
    LET q == s.procs[p]
        t == [s EXCEPT !.procs[p].settled = TRUE]
    IN  IF cancelled \/ q.generation # s.rt.generation
        THEN StartRejects(t, q.generation, q.owner)
        ELSE TryCandidates(StopChildProcess(t), q.generation, q.owner, q.config, q.left)

Gone(s, p) == [s EXCEPT !.procs = Restrict(@, DOMAIN @ \ {p})]

(* maybeAutoRestart(): once in a window, and with what was loaded.         *)
AutoRestart(s) ==
    IF s.rt.restarted THEN [s EXCEPT !.rt.state = "unavailable"]
    ELSE BeginStart([s EXCEPT !.rt.restarted = TRUE], "auto",
                    CHOOSE c \in s.rt.loaded : TRUE)

-----------------------------------------------------------------------------
(* Requests.                                                               *)

Reevaluating == {r \in Requests : reqs[r].pc = "reeval"}
Attaching == {r \in Requests : reqs[r].pc = "attach"}

(* No promise is waiting to resume: the next event may be delivered.       *)
Quiet == Reevaluating = {} /\ Attaching = {}

(* streamLocal(): a recap pre-empts every background stream, and keeps new *)
(* ones out.  prewarmLocal() only rearms the idle timer.                   *)
Ask(r) ==
    /\ Quiet /\ reqs[r].pc = "new"
    /\ LET s == [Now EXCEPT !.reqs[r].pc = "asked", !.reqs[r].live = TRUE] IN
       CASE Kind[r] = "background" /\ rt.summaries # {} -> Become(Answer(s, {r}))
         [] Kind[r] = "background" /\ rt.summaries = {} ->
                Become([s EXCEPT !.rt.preemptable = @ \cup {r}])
         [] Kind[r] = "recap" ->
                Become(Cancel([s EXCEPT !.rt.summaries = @ \cup {r}], rt.preemptable))
         [] Kind[r] = "ask" -> Become(s)
         [] Kind[r] = "prewarm" -> Become(MarkActivity(s))
    /\ UNCHANGED <<verified, upsets>>

(* Only a cold start is verified, not a switch.                            *)
VerifiesColdStarts(r) == rt.state = "stopped"

(* ensureLocalRuntimeStarted(): a model that is not the active one is      *)
(* verified first.                                                         *)
NeedsVerifying(r) ==
    rt.state = "stopped" \/ ~\E l \in rt.loaded : l.model = Wants[r].model

Ensure(r) ==
    /\ Quiet /\ reqs[r].pc = "asked"
    /\ Become(IF NeedsVerifying(r) THEN [Now EXCEPT !.reqs[r].pc = "verify"]
                                   ELSE Start(Now, r))
    /\ UNCHANGED <<verified, upsets>>

(* verifyIntegrity() answers after it has read the files.                  *)
Verified(r) ==
    /\ Quiet /\ reqs[r].pc = "verify"
    /\ IF Wants[r].model \in Corrupt
       THEN Become(Answer(Now, {r})) /\ UNCHANGED verified
       ELSE Become(Start(Now, r)) /\ verified' = verified \cup {Wants[r].model}
    /\ UNCHANGED upsets

(* A start() that waited for another one, or for the drain, runs again.    *)
Reevaluate(r) ==
    /\ reqs[r].pc = "reeval"
    /\ Become(Start(Now, r))
    /\ UNCHANGED <<verified, upsets>>

(* start() has returned.  baseURL() throws when the sidecar is gone again, *)
(* and the catch releases the stream that was just counted.                *)
Attach(r) ==
    /\ Reevaluating = {} /\ reqs[r].pc = "attach"
    /\ LET counted == [MarkActivity(Now) EXCEPT !.rt.streams = @ + 1,
                                                !.rt.attached = @ \cup {r}]
       IN  CASE ~reqs[r].live -> Become([Now EXCEPT !.reqs[r].pc = "over"])
             [] reqs[r].live /\ Kind[r] = "prewarm" ->
                    Become(Answer(IF rt.state = "running" THEN MarkActivity(Now) ELSE Now, {r}))
             [] reqs[r].live /\ Kind[r] # "prewarm" /\ rt.port = None ->
                    Become(Answer(counted, {r}))
             [] reqs[r].live /\ Kind[r] # "prewarm" /\ rt.port # None ->
                    Become([counted EXCEPT !.reqs[r].pc = "stream",
                                           !.reqs[r].on = rt.port])
    /\ UNCHANGED <<verified, upsets>>

(* onDone or onError of the stream.                                        *)
StreamEnds(r) ==
    /\ Quiet /\ reqs[r].pc = "stream"
    /\ Become(MarkActivity(Answer(Now, {r})))
    /\ UNCHANGED <<verified, upsets>>

(* The user cancels, or a newer ask supersedes this one.                   *)
Abort(r) ==
    /\ Quiet /\ reqs[r].live /\ Kind[r] # "prewarm"
    /\ Become(Cancel(Now, {r}))
    /\ UNCHANGED <<verified, upsets>>

-----------------------------------------------------------------------------
(* Events of the sidecar processes and timers.                             *)

Alive == DOMAIN procs

(* Nothing tells an older process from the current one.                    *)
NeverStale(p) == FALSE

(* The process of an attempt that stop() or a later start has superseded.  *)
Stale(p) == procs[p].generation # rt.generation \/ rt.child # p

Pending(p, phase) == p \in Alive /\ procs[p].phase = phase /\ ~procs[p].settled

(* "listening on ...": a killed process may still flush it.                *)
PortLine(p) ==
    /\ Quiet /\ Pending(p, "booting")
    /\ Become(IF Stale(p) THEN SpawnRejects(Now, p, TRUE)
                           ELSE [Now EXCEPT !.procs[p].phase = "polling"])
    /\ UNCHANGED <<verified, upsets>>

HealthAnswers(p) ==
    /\ Quiet /\ Pending(p, "polling")
    /\ Become(IF Stale(p) THEN SpawnRejects(Now, p, TRUE)
                           ELSE [Now EXCEPT !.procs[p].phase = "recording"])
    /\ UNCHANGED <<verified, upsets>>

(* waitForSpawnRecorded() resolves: the sidecar is published, and the      *)
(* start of whoever owns it, and of those that joined, goes on.            *)
SpawnRecorded(p) ==
    /\ Quiet /\ Pending(p, "recording")
    /\ LET q == procs[p] IN
       IF Stale(p) THEN Become(SpawnRejects(Now, p, TRUE))
       ELSE Become([Now EXCEPT
                !.procs[p].settled = TRUE, !.procs[p].phase = "usable",
                !.rt.port = p, !.rt.state = "running", !.rt.idleTimer = TRUE,
                !.rt.startPromise = None,
                !.reqs = [r \in Requests |->
                    IF r = q.owner THEN [@[r] EXCEPT !.pc = "attach"]
                    ELSE IF @[r].pc = "join" /\ @[r].gen = q.generation
                         THEN [@[r] EXCEPT !.pc = "reeval"] ELSE @[r]]])
    /\ UNCHANGED <<verified, upsets>>

Upset == upsets < MaxUpsets /\ upsets' = upsets + 1

(* The binary cannot be started: an 'error' event and no process.          *)
SpawnFails(p) ==
    /\ Quiet /\ Pending(p, "booting") /\ ~procs[p].killed /\ Upset
    /\ Become(Gone(SpawnRejects(Now, p, FALSE), p))
    /\ UNCHANGED verified

(* PORT_LINE_BUDGET_MS is over: the process is killed, whoever owns it.    *)
PortLineTimesOut(p) ==
    /\ Quiet /\ Pending(p, "booting") /\ Upset
    /\ Become(SpawnRejects([Now EXCEPT !.procs[p].killed = TRUE], p, FALSE))
    /\ UNCHANGED verified

(* HEALTH_BUDGET_MS is over, which a process killed meanwhile guarantees.  *)
HealthFails(p) ==
    /\ Quiet /\ Pending(p, "polling")
    /\ IF procs[p].killed THEN UNCHANGED upsets ELSE Upset
    /\ Become(SpawnRejects(Now, p, FALSE))
    /\ UNCHANGED verified

(* The exit of a process, killed or by itself.  The connections it served  *)
(* are broken.  Only the exit of the current child changes the runtime.    *)
Exit(p) ==
    /\ Quiet /\ p \in Alive
    /\ IF procs[p].killed THEN UNCHANGED upsets ELSE Upset
    /\ LET q == procs[p]
           broken == [Now EXCEPT !.reqs = [r \in Requests |->
                         IF @[r].on = p THEN [@[r] EXCEPT !.on = None] ELSE @[r]]]
           down == [broken EXCEPT !.rt.child = None, !.rt.port = None]
           crashed == [down EXCEPT !.rt.state = "stopped",
                                   !.rt.cpuPinned = @ \/ q.variant = "vulkan"]
       IN  CASE rt.child # p /\ q.settled -> Become(Gone(broken, p))
             [] rt.child # p /\ ~q.settled -> Become(Gone(SpawnRejects(broken, p, FALSE), p))
             [] rt.child = p /\ ~q.settled -> Become(Gone(SpawnRejects(down, p, FALSE), p))
             [] rt.child = p /\ q.settled /\ rt.state = "running" ->
                    Become(AutoRestart(Gone(crashed, p)))
             [] rt.child = p /\ q.settled /\ rt.state # "running" -> Become(Gone(down, p))
    /\ UNCHANGED verified

(* Fifteen minutes without activity.  No stream lasts that long.           *)
IdleFires ==
    /\ Quiet /\ rt.idleTimer /\ rt.streams = 0
    /\ Become(Stop(Now))
    /\ UNCHANGED <<verified, upsets>>

(* stop() when the program quits.                                          *)
ExplicitStop ==
    /\ Quiet /\ Upset
    /\ Become(Stop(Now))
    /\ UNCHANGED verified

(* RESTART_WINDOW_MS has gone by since the automatic restart.              *)
RestartWindowEnds ==
    /\ Quiet /\ rt.restarted
    /\ rt' = [rt EXCEPT !.restarted = FALSE]
    /\ UNCHANGED <<procs, reqs, verified, upsets>>

-----------------------------------------------------------------------------
Lifecycle(p) ==
    \/ PortLine(p) \/ HealthAnswers(p) \/ SpawnRecorded(p)
    \/ SpawnFails(p) \/ PortLineTimesOut(p) \/ HealthFails(p)

Resume(r) == Ensure(r) \/ Verified(r) \/ Reevaluate(r) \/ Attach(r)

Next ==
    \/ \E r \in Requests : Ask(r) \/ Resume(r) \/ StreamEnds(r) \/ Abort(r)
    \/ \E p \in Alive : Lifecycle(p) \/ Exit(p)
    \/ IdleFires \/ ExplicitStop \/ RestartWindowEnds

Spec == Init /\ [][Next]_vars

(* A microtask runs, a start is given up after its budget, a stream ends   *)
(* (streamOpenAI() has a timeout) and a killed process exits.              *)
Progress ==
    \/ \E r \in Requests : Resume(r) \/ StreamEnds(r)
    \/ \E p \in Alive : Lifecycle(p) \/ (procs[p].killed /\ Exit(p))

FairSpec == Spec /\ WF_vars(Progress)

-----------------------------------------------------------------------------
(* Properties.                                                             *)

(* However a start, a switch, a stop and late events of older processes    *)
(* interleave, every sidecar that has not been killed is the current       *)
(* child: no llama-server is left behind with a model in memory.           *)
OneSidecar == \A p \in Alive : ~procs[p].killed => rt.child = p

(* A published endpoint is that of the current child after its health was  *)
(* confirmed: the late line of a killed process never redirects a request. *)
EndpointIsTheChild ==
    rt.port # None => rt.port = rt.child /\ procs[rt.port].phase = "usable"

(* A start that waits for the drain waits for a stream that is open: the   *)
(* count matches the streams held and no wake-up is lost.                  *)
DrainWaitsForStreams ==
    /\ rt.streams = Cardinality(rt.attached)
    /\ rt.drainWaiters # {} => rt.streams > 0

(* A model that has not passed verification is never loaded, although a    *)
(* request skips it when the runtime seems to have the model already.      *)
LoadsOnlyVerified == \A p \in Alive : procs[p].config.model \in verified

(* INV-PREEMPT: while a recap is in flight no background stream runs.      *)
RecapRunsAlone ==
    rt.summaries # {} =>
        \A r \in Requests : Kind[r] = "background" => reqs[r].pc # "stream" /\ ~reqs[r].live

(* A switch of models never kills the sidecar under an open stream: only a *)
(* stop does.                                                              *)
SwitchCutsNoStream ==
    [][\A r \in Requests :
        /\ reqs[r].on # None /\ ~procs[reqs[r].on].killed
        /\ reqs'[r].on = reqs[r].on /\ procs'[reqs[r].on].killed
        => rt'.state = "stopped"]_vars

(* Every request gets its answer: none waits for ever for a start that     *)
(* failed, a drain that ended, or a sidecar that died.  (A request is made *)
(* once, so this is live ~> ~live of each.)                                *)
EveryRequestIsAnswered == []<>(\A r \in Requests : ~reqs[r].live)

(* "Stale continuations must never mutate that newer child's state": a     *)
(* runtime marked unavailable is not serving from a healthy sidecar.       *)
UnavailableServesNobody == rt.state = "unavailable" => rt.port = None
=============================================================================
