-------------------------- MODULE SpeechPackEngine --------------------------
(***************************************************************************)
(* The on-device speech-pack engine                                        *)
(* (main/features/components/speech-pack/engine.ts): one install at a time *)
(* from a queue, the activation of a staged pack step by step on disk, its *)
(* undoing when a cancel, a pause, a refused authorization or a failed     *)
(* file operation lands in it, the death of the process between any two    *)
(* disk steps, and initialise() at the next start.                         *)
(*                                                                         *)
(* A directory is what verification would say of it: whole (every pinned   *)
(* file matches), partial (an interrupted recursive delete left it),       *)
(* damaged (something outside the engine changed it) or absent.  A marker  *)
(* is the version it names; a version stands for its manifest identity.    *)
(***************************************************************************)
EXTENDS SequencesExt

CONSTANTS
    Components,        \* pack ids
    Versions,          \* versions a build of the program may pin
    None,              \* no marker, no run, no abort reason
    HostInitialises,   \* the program calls initialise() when it starts
    MaxAsides,         \* bound: old directories kept aside of one version
    MaxDamage,         \* bound: outside changes to a pack on disk
    MaxFaults,         \* bound: file operations that fail
    MaxStrays          \* bound: packs an overtaken deletion of which runs

ASSUME NoneIsNothing == None \notin Components \cup Versions \cup {"pause", "cancel"}
ASSUME BoundsAreNat ==
    MaxAsides \in Nat /\ MaxDamage \in Nat /\ MaxFaults \in Nat /\ MaxStrays \in Nat
ASSUME HostIsBoolean == HostInitialises \in BOOLEAN

VARIABLES
    \* on disk
    marker,    \* component -> version active.json names, or None
    final,     \* component -> version -> <id>/<version>
    asides,    \* component -> version -> whole directories <version>.old-<ts>
    staging,   \* component -> version -> every staged file is there and matches
    \* the process
    up,        \* the process runs
    pinned,    \* the version this build pins
    boot,      \* components initialise() still has to visit, first one current
    bootPc,    \* where it stands with the current one
    state,     \* component -> status
    queue,     \* components waiting for their run
    forced,    \* forcedRepairs
    cleanup,   \* components whose deletion of staged files by the latest
               \* cancel is not done: the promises cleanups holds
    strays,    \* components an earlier deletion of which still runs, its
               \* promise replaced in cleanups by a later cancel
    running,   \* the component of the current run, or None
    pc,        \* where that run stands
    repairing, \* that run was forced
    abort,     \* the reason its controller was first aborted with
    prev,      \* previousMarker
    touched,   \* movedAside or promoted
    \* bounds and history
    damage,    \* outside changes so far
    faults,    \* failed file operations so far
    asked,     \* a cancel was asked of the current run
    owned      \* component -> version the disk served when its latest run began

disk == <<marker, final, asides, staging>>
run == <<running, pc, repairing, abort, asked, prev, touched>>
booting == <<boot, bootPc>>
work == <<state, queue, forced, cleanup, strays>>
bounds == <<damage, faults>>
vars == <<disk, up, pinned, booting, work, run, bounds, owned>>

Moving == {"downloading", "verifying", "self-testing"}
(* The version the pack on disk serves: its marker names a whole one.      *)
Working(c) == IF marker[c] # None /\ final[c][marker[c]] = "whole"
              THEN marker[c] ELSE None

(* readMarkerSnapshot(): null unless the marked version's directory exists.*)
MarkerSnapshot(c) == IF marker[c] # None /\ final[c][marker[c]] # "absent"
                     THEN marker[c] ELSE None

Init ==
    /\ marker = [c \in Components |-> None]
    /\ final = [c \in Components |-> [v \in Versions |-> "absent"]]
    /\ asides = [c \in Components |-> [v \in Versions |-> 0]]
    /\ staging = [c \in Components |-> [v \in Versions |-> FALSE]]
    /\ up = TRUE
    /\ pinned \in Versions
    /\ boot = <<>> /\ bootPc = "look"
    /\ state = [c \in Components |-> "not-installed"]
    /\ queue = <<>> /\ forced = {} /\ cleanup = {} /\ strays = {}
    /\ running = None /\ pc = "none" /\ repairing = FALSE
    /\ abort = None /\ prev = None /\ touched = FALSE
    /\ damage = 0 /\ faults = 0 /\ asked = FALSE
    /\ owned = [c \in Components |-> None]

-----------------------------------------------------------------------------
(* run() and pump()                                                        *)

SetState(c, s) == state' = [state EXCEPT ![c] = s]

(* The engine goes on with queue q, where the states so far are s: the     *)
(* first component's run starts in the same turn of the event loop.        *)
PumpWith(q, s, f) ==
    /\ abort' = None /\ asked' = FALSE /\ prev' = None /\ touched' = FALSE
    /\ IF q = <<>>
       THEN /\ queue' = q /\ state' = s /\ forced' = f
            /\ running' = None /\ pc' = "none" /\ repairing' = FALSE
            /\ UNCHANGED owned
       ELSE LET next == Head(q) IN
            /\ queue' = Tail(q)
            /\ state' = [s EXCEPT ![next] = "downloading"]
            /\ forced' = f \ {next}
            /\ running' = next /\ pc' = "begin" /\ repairing' = (next \in f)
            /\ owned' = [owned EXCEPT ![next] = Working(next)]

EndRun(s) == PumpWith(queue, [state EXCEPT ![running] = s], forced)

Quiet == UNCHANGED <<up, pinned, booting>>

At(p) == up /\ pc = p

Goto(p) == pc' = p /\ UNCHANGED <<running, repairing, abort, asked, prev, touched>>

(* An error thrown inside install(): its catch undoes the activation if a  *)
(* rename already took place.                                              *)
Throw == Goto(IF touched THEN "undo" ELSE "failing")

(* assertAuthorized(): throws once aborted, and may find the transfer      *)
(* refused at any time (policy, capture, selection: service.ts).           *)
Authorized(next) ==
    \/ abort = None /\ next
    \/ Throw /\ UNCHANGED <<disk, work, bounds, owned>>

Step(p) == At(p) /\ Quiet

(* A file operation that fails.                                            *)
Fault == faults < MaxFaults /\ faults' = faults + 1

-----------------------------------------------------------------------------
(* install(): from the request to a verified, self-tested staging directory*)

(* A short way that trusts the marker alone.                               *)
BeginUnverified ==
    /\ Step("begin") /\ running \notin cleanup
    /\ UNCHANGED <<disk, cleanup, strays, bounds>>
    /\ IF ~repairing /\ marker[running] = pinned
       THEN EndRun("ready")
       ELSE Goto("download") /\ UNCHANGED <<state, queue, forced, owned>>

(* A run that does not wait for the deletion an earlier cancel began.      *)
BeginAtOnce ==
    /\ Step("begin")
    /\ UNCHANGED <<disk, cleanup, strays, bounds>>
    /\ IF ~repairing /\ marker[running] = pinned /\ final[running][pinned] = "whole"
       THEN EndRun("ready")
       ELSE Goto("download") /\ UNCHANGED <<state, queue, forced, owned>>

(* Waits for the deletion an earlier cancel left behind, then takes the    *)
(* short way if the pack is already active and matches its pins.           *)
Begin ==
    LET c == running IN
    /\ Step("begin")
    /\ c \notin cleanup
    /\ UNCHANGED <<disk, cleanup, strays, bounds>>
    /\ IF ~repairing /\ marker[c] = pinned /\ final[c][pinned] = "whole"
       THEN EndRun("ready")
       ELSE Goto("download") /\ UNCHANGED <<state, queue, forced, owned>>

(* A fetch that never gives up: only what is already staged goes on.       *)
DownloadForever ==
    /\ Step("download")
    /\ staging[running][pinned]
    /\ Goto("verify") /\ UNCHANGED <<work, bounds, owned, disk>>

(* Files already staged are not fetched again.  An unsafe path, too little *)
(* space, a fetch or an extraction that fails, an abort during one: each   *)
(* throws.                                                                 *)
Download ==
    LET c == running IN
    /\ Step("download")
    /\ UNCHANGED <<work, bounds, owned, marker, final, asides>>
    /\ \/ /\ staging' = [staging EXCEPT ![c][pinned] = TRUE]
          /\ Goto("verify")
       \/ Throw /\ UNCHANGED staging

(* A staged file that no longer matches its pin is dropped.                *)
Verify ==
    /\ Step("verify")
    /\ UNCHANGED <<disk, queue, forced, cleanup, strays, bounds, owned>>
    /\ SetState(running, "verifying")
    /\ IF staging[running][pinned] THEN Goto("staged") ELSE Throw

Staged ==
    /\ Step("staged")
    /\ Authorized(/\ Goto("selftest")
                  /\ SetState(running, "self-testing")
                  /\ UNCHANGED <<disk, queue, forced, cleanup, strays, bounds, owned>>)

(* The decoded text may be empty: Throw covers it.                         *)
SelfTest ==
    /\ Step("selftest")
    /\ Authorized(Goto("tested") /\ UNCHANGED <<disk, work, bounds, owned>>)

-----------------------------------------------------------------------------
(* install(): the activation                                               *)

(* A marker that names no directory is removed before the first rename.    *)
Prepare ==
    LET c == running IN
    /\ Step("tested")
    /\ Authorized(
        /\ prev' = MarkerSnapshot(c)
        /\ marker' = [marker EXCEPT ![c] = prev']
        /\ pc' = "swap"
        /\ UNCHANGED <<running, repairing, abort, asked, touched,
                       final, asides, staging, work, bounds, owned>>)

(* The mistake the header comment rules out: deleting the old pack first.  *)
SwapByDeleting ==
    LET c == running IN
    /\ Step("swap")
    /\ final' = [final EXCEPT ![c][pinned] = "absent"]
    /\ pc' = "promote"
    /\ UNCHANGED <<running, repairing, abort, asked, prev, touched,
                   marker, asides, staging, work, bounds, owned>>

(* An existing pack is renamed aside, never deleted first.                 *)
Swap ==
    LET c == running
        aside == IF final[c][pinned] = "whole" THEN 1 ELSE 0
    IN
    /\ Step("swap")
    /\ UNCHANGED <<marker, staging, work, owned>>
    /\ \/ /\ final[c][pinned] = "absent"
          /\ Goto("promote") /\ UNCHANGED <<final, asides, bounds>>
       \/ /\ final[c][pinned] # "absent"
          /\ asides' = [asides EXCEPT ![c][pinned] = @ + aside]
          /\ final' = [final EXCEPT ![c][pinned] = "absent"]
          /\ pc' = "aside" /\ touched' = TRUE
          /\ UNCHANGED <<running, repairing, abort, asked, prev, bounds>>
       \/ /\ final[c][pinned] # "absent"
          /\ Fault /\ Throw /\ UNCHANGED <<final, asides, damage>>

MovedAside ==
    /\ Step("aside")
    /\ Authorized(Goto("promote") /\ UNCHANGED <<disk, work, bounds, owned>>)

(* What is staged no longer may be gone altogether, and the rename with it.*)
Promote ==
    LET c == running IN
    /\ Step("promote")
    /\ UNCHANGED <<marker, asides, work, owned>>
    /\ \/ /\ final' = [final EXCEPT ![c][pinned] =
                        IF staging[c][pinned] THEN "whole" ELSE "damaged"]
          /\ staging' = [staging EXCEPT ![c][pinned] = FALSE]
          /\ pc' = "promoted" /\ touched' = TRUE
          /\ UNCHANGED <<running, repairing, abort, asked, prev, bounds>>
       \/ ~staging[c][pinned] /\ Throw /\ UNCHANGED <<final, staging, bounds>>
       \/ Fault /\ Throw /\ UNCHANGED <<final, staging, damage>>

Promoted ==
    /\ Step("promoted")
    /\ Authorized(Goto("mark") /\ UNCHANGED <<disk, work, bounds, owned>>)

(* active.json.tmp, then its rename; the temporary file is nobody's input. *)
WriteMarker ==
    /\ Step("mark")
    /\ UNCHANGED <<final, asides, staging, work, owned>>
    /\ \/ /\ marker' = [marker EXCEPT ![running] = pinned]
          /\ Goto("marked")
          /\ UNCHANGED bounds
       \/ Fault /\ Throw /\ UNCHANGED <<marker, damage>>

(* Ready without a last look at the abort.                                 *)
MakeReadyUnchecked ==
    /\ Step("marked")
    /\ UNCHANGED <<disk, cleanup, strays, bounds>>
    /\ EndRun("ready")

(* The last checks before 'ready', none of them separated from the event   *)
(* by an await.  A listener of the ready event may still cancel.           *)
MakeReady ==
    LET c == running IN
    /\ Step("marked")
    /\ \/ /\ abort = None
          /\ UNCHANGED <<disk, cleanup, strays, bounds>>
          /\ EndRun("ready")
       \/ /\ abort = None
          /\ SetState(c, "ready")
          /\ abort' = "cancel" /\ asked' = TRUE /\ pc' = "undo"
          /\ UNCHANGED <<running, repairing, prev, touched,
                         disk, queue, forced, cleanup, strays, bounds, owned>>
       \/ Throw /\ UNCHANGED <<disk, work, bounds, owned>>

-----------------------------------------------------------------------------
(* deactivate(): one file operation at a time.  A failed one leaves the    *)
(* rest undone: restoreMarkerSnapshot() returns, the others throw.         *)

OldVersionMarked == prev # None /\ prev # pinned

(* An older version's marker is back before the new directory goes.        *)
RestoreOldMarker ==
    LET c == running IN
    /\ Step("undo")
    /\ UNCHANGED <<final, asides, staging, work, owned>>
    /\ IF OldVersionMarked
       THEN \/ /\ final[c][prev] # "absent"
               /\ marker' = [marker EXCEPT ![c] = prev]
               /\ Goto("undoDelete") /\ UNCHANGED bounds
            \/ /\ Fault /\ UNCHANGED <<marker, damage>> /\ Goto("failing")
            \/ /\ final[c][prev] = "absent"
               /\ Goto("failing") /\ UNCHANGED <<marker, bounds>>
       ELSE Goto("undoDelete") /\ UNCHANGED <<marker, bounds>>

(* rm(finalDir, recursive): file after file, so it can be cut short.       *)
BeginDelete ==
    LET c == running IN
    /\ Step("undoDelete")
    /\ UNCHANGED <<marker, asides, staging, work, owned>>
    /\ \/ /\ final' = [final EXCEPT ![c][pinned] =
                        IF @ = "absent" THEN @ ELSE "partial"]
          /\ Goto("undoDeleting") /\ UNCHANGED bounds
       \/ Fault /\ Goto("failing") /\ UNCHANGED <<final, damage>>

FinishDelete ==
    LET c == running IN
    /\ Step("undoDeleting")
    /\ UNCHANGED <<marker, asides, staging, work, bounds, owned>>
    /\ final' = [final EXCEPT ![c][pinned] = "absent"]
    /\ Goto("undoAside")

(* A deactivate() that forgets the directory it renamed aside.             *)
ForgetAside ==
    /\ Step("undoAside")
    /\ UNCHANGED <<disk, work, bounds, owned>>
    /\ Goto(IF OldVersionMarked THEN "failing" ELSE "undoMarker")

(* restoreAside(): the newest whole directory renamed aside comes back.    *)
RestoreAside ==
    LET c == running IN
    /\ Step("undoAside")
    /\ UNCHANGED <<marker, staging, work, owned>>
    /\ \/ /\ IF asides[c][pinned] > 0
             THEN /\ final' = [final EXCEPT ![c][pinned] = "whole"]
                  /\ asides' = [asides EXCEPT ![c][pinned] = @ - 1]
             ELSE UNCHANGED <<final, asides>>
          /\ Goto(IF OldVersionMarked THEN "failing" ELSE "undoMarker")
          /\ UNCHANGED bounds
       \/ /\ asides[c][pinned] > 0
          /\ Fault /\ Goto("failing") /\ UNCHANGED <<final, asides, damage>>

(* The marker of this version stays only with a directory that came back.  *)
RestoreMarker ==
    LET c == running
        restored == final[c][pinned] # "absent"
    IN
    /\ Step("undoMarker")
    /\ UNCHANGED <<final, asides, staging, work, owned>>
    /\ Goto("failing")
    /\ \/ /\ marker' = [marker EXCEPT ![c] = IF restored THEN prev ELSE None]
          /\ UNCHANGED bounds
       \/ Fault /\ UNCHANGED <<marker, damage>>

(* run()'s catch: what the user asked for decides the state, and a cancel  *)
(* removes what was staged.  If that removal fails the catch itself        *)
(* rejects: pump() goes on, the state is never set.                        *)
Outcome == CASE abort = "cancel" -> "cancelled"
             [] abort = "pause" -> "paused"
             [] OTHER -> "failed"

Fail ==
    LET c == running IN
    /\ Step("failing")
    /\ UNCHANGED <<marker, final, asides, cleanup, strays>>
    /\ \/ /\ staging' = IF abort = "cancel"
                        THEN [staging EXCEPT ![c] = [v \in Versions |-> FALSE]]
                        ELSE staging
          /\ EndRun(Outcome)
          /\ UNCHANGED bounds
       \/ /\ abort = "cancel"
          /\ Fault /\ UNCHANGED <<staging, damage>>
          /\ EndRun(state[c])

Install ==
    \/ Begin \/ Download \/ Verify \/ Staged \/ SelfTest
    \/ Prepare \/ Swap \/ MovedAside \/ Promote \/ Promoted
    \/ WriteMarker \/ MakeReady
    \/ RestoreOldMarker \/ BeginDelete \/ FinishDelete
    \/ RestoreAside \/ RestoreMarker \/ Fail

-----------------------------------------------------------------------------
(* The engine's methods.  The host has waited for initialise() if it calls *)
(* it.                                                                     *)

Accepts(c) == up /\ boot = <<>> /\ asides[c][pinned] < MaxAsides

(* dequeue(): indexOf and splice.                                          *)
Cut(q, c) ==
    IF Contains(q, c) THEN RemoveAt(q, CHOOSE i \in 1 .. Len(q) : q[i] = c) ELSE q

(* The queue moves on only when no run is there to do it later.            *)
Request(c, q, f) ==
    /\ UNCHANGED <<disk, up, pinned, booting, cleanup, strays, bounds>>
    /\ IF running = None
       THEN PumpWith(q, [state EXCEPT ![c] = "queued"], f)
       ELSE /\ queue' = q /\ forced' = f
            /\ SetState(c, "queued")
            /\ UNCHANGED <<run, owned>>

Enqueue(c, selected) ==
    /\ Accepts(c)
    /\ state[c] # "ready" /\ c # running
    /\ state[c] = "queued" => selected
    /\ Request(c, IF selected THEN <<c>> \o Cut(queue, c) ELSE Append(Cut(queue, c), c),
               forced \ {c})

(* A repair() that does not look at the queue.                             *)
RepairAgain(c) ==
    /\ Accepts(c)
    /\ c # running
    /\ Request(c, <<c>> \o queue, forced \cup {c})

Repair(c) ==
    /\ Accepts(c)
    /\ c # running /\ state[c] # "queued"
    /\ Request(c, <<c>> \o Cut(queue, c), forced \cup {c})

Pause(c) ==
    /\ up /\ boot = <<>>
    /\ UNCHANGED <<disk, up, pinned, booting, forced, cleanup, strays, bounds, owned,
                   running, pc, repairing, asked, prev, touched>>
    /\ \/ /\ state[c] = "queued"
          /\ queue' = Cut(queue, c)
          /\ SetState(c, "paused")
          /\ UNCHANGED abort
       \/ /\ state[c] # "queued" /\ c = running
          /\ abort = None /\ abort' = "pause"
          /\ UNCHANGED <<state, queue>>

(* A controller keeps the reason it was first aborted with.                *)
CancelRunning(c) ==
    /\ c = running /\ ~asked
    /\ asked' = TRUE
    /\ abort' = IF abort = None THEN "cancel" ELSE abort
    /\ UNCHANGED <<state, queue, cleanup, strays>>

(* Each cancel of a waiting pack starts a deletion of its own, and         *)
(* cleanups.set() replaces the promise of one that still runs.             *)
CancelWaiting(c) ==
    /\ c # running /\ state[c] \in {"queued", "paused"}
    /\ queue' = Cut(queue, c)
    /\ cleanup' = cleanup \cup {c}
    /\ strays' = strays \cup ({c} \cap cleanup)
    /\ Cardinality(strays') <= MaxStrays
    /\ SetState(c, "cancelled")
    /\ UNCHANGED <<abort, asked>>

Cancel(c) ==
    /\ up /\ boot = <<>>
    /\ CancelRunning(c) \/ CancelWaiting(c)
    /\ UNCHANGED <<disk, up, pinned, booting, forced, bounds, owned,
                   running, pc, repairing, prev, touched>>

(* What a deletion of .staging/<id> may leave: its failure is swallowed.   *)
Deletes(c) ==
    /\ staging' \in {staging, [staging EXCEPT ![c] = [v \in Versions |-> FALSE]]}
    /\ UNCHANGED <<marker, final, asides, up, pinned, booting,
                   state, queue, forced, run, bounds, owned>>

(* The deletion the latest cancel of c started has ended.                  *)
CleanUp(c) ==
    /\ up /\ c \in cleanup
    /\ cleanup' = cleanup \ {c}
    /\ Deletes(c) /\ UNCHANGED strays

(* A deletion nobody waits for takes what is staged, whatever runs beside  *)
(* it, or ends.                                                            *)
CleanUpStray(c) ==
    /\ up /\ c \in strays
    /\ Deletes(c)
    /\ strays' = IF staging' # staging THEN strays ELSE strays \ {c}
    /\ UNCHANGED cleanup

-----------------------------------------------------------------------------
(* The process dies, and starts again as the same or another build.        *)

Crash ==
    /\ up
    /\ up' = FALSE
    /\ boot' = <<>> /\ bootPc' = "look"
    /\ state' = [c \in Components |-> "not-installed"]
    /\ queue' = <<>> /\ forced' = {} /\ cleanup' = {} /\ strays' = {}
    /\ running' = None /\ pc' = "none" /\ repairing' = FALSE
    /\ abort' = None /\ asked' = FALSE /\ prev' = None /\ touched' = FALSE
    /\ UNCHANGED <<disk, pinned, bounds, owned>>

Start ==
    /\ ~up
    /\ up' = TRUE
    /\ pinned' \in Versions
    /\ boot' = IF HostInitialises THEN SetToSeq(Components) ELSE <<>>
    /\ UNCHANGED <<disk, bootPc, work, run, bounds, owned>>

Visiting(p) == up /\ boot # <<>> /\ bootPc = p

(* initialise() is done with the current component.                        *)
NextBoot == boot' = Tail(boot) /\ bootPc' = "look"

BootLook ==
    LET c == Head(boot)
        restores == final[c][pinned] = "absent" /\ asides[c][pinned] > 0
    IN
    /\ Visiting("look")
    /\ UNCHANGED <<marker, staging, up, pinned, work, run, bounds, owned>>
    /\ IF restores
       THEN /\ final' = [final EXCEPT ![c][pinned] = "whole"]
            /\ asides' = [asides EXCEPT ![c][pinned] = @ - 1]
       ELSE UNCHANGED <<final, asides>>
    /\ IF final[c][pinned] = "absent" /\ ~restores
       THEN NextBoot
       ELSE bootPc' = "check" /\ UNCHANGED boot

(* dirVerified(), and for an unmarked directory the self-test, which may   *)
(* fail.                                                                   *)
BootCheck ==
    LET c == Head(boot)
        whole == final[c][pinned] = "whole"
    IN
    /\ Visiting("check")
    /\ UNCHANGED <<disk, up, pinned, queue, forced, cleanup, strays,
                   run, bounds, owned>>
    /\ \/ /\ whole /\ marker[c] = pinned
          /\ SetState(c, "ready")
          /\ bootPc' = "prune" /\ UNCHANGED boot
       \/ /\ whole /\ marker[c] # pinned
          /\ bootPc' = "mark" /\ UNCHANGED <<boot, state>>
       \/ /\ ~(whole /\ marker[c] = pinned)
          /\ NextBoot /\ UNCHANGED state

BootMark ==
    LET c == Head(boot) IN
    /\ Visiting("mark")
    /\ marker' = [marker EXCEPT ![c] = pinned]
    /\ SetState(c, "ready")
    /\ bootPc' = "prune"
    /\ UNCHANGED <<final, asides, staging, up, pinned, boot,
                   queue, forced, cleanup, strays, run, bounds, owned>>

BootPrune ==
    LET c == Head(boot) IN
    /\ Visiting("prune")
    /\ asides' = [asides EXCEPT ![c][pinned] = 0]
    /\ NextBoot
    /\ UNCHANGED <<marker, final, staging, up, pinned, work, run, bounds, owned>>

Boot == BootLook \/ BootCheck \/ BootMark \/ BootPrune

(* Something else changes files of a pack or of its staging directory.     *)
Damage(c, v) ==
    /\ damage < MaxDamage /\ damage' = damage + 1
    /\ \/ /\ final[c][v] = "whole"
          /\ final' = [final EXCEPT ![c][v] = "damaged"]
          /\ owned' = [owned EXCEPT ![c] = IF @ = v THEN None ELSE @]
          /\ UNCHANGED staging
       \/ /\ staging[c][v]
          /\ staging' = [staging EXCEPT ![c][v] = FALSE]
          /\ UNCHANGED <<final, owned>>
    /\ UNCHANGED <<marker, asides, up, pinned, booting, work, run, faults>>

-----------------------------------------------------------------------------

Next ==
    \/ Install
    \/ \E c \in Components :
        \/ \E selected \in BOOLEAN : Enqueue(c, selected)
        \/ Repair(c) \/ Pause(c) \/ Cancel(c) \/ CleanUp(c) \/ CleanUpStray(c)
    \/ Crash \/ Start \/ Boot
    \/ \E c \in Components, v \in Versions : Damage(c, v)

Spec == Init /\ [][Next]_vars

(* A run, the deletion it waits for and initialise() go on by themselves:  *)
(* the download has its own timeouts, and a file operation ends.           *)
Fairness ==
    /\ WF_vars(Install)
    /\ \A c \in Components : WF_vars(CleanUp(c))
    /\ WF_vars(Boot)

FairSpec == Spec /\ Fairness

-----------------------------------------------------------------------------
(* A pack reported ready, with no run of it under way, is active on disk:  *)
(* its marker names this build's version and the directory is there, as    *)
(* verified unless something outside the engine, or a deletion a later     *)
(* cancel overtook, took files of it.  A file operation that fails may     *)
(* leave the state of an undone run unset.                                 *)
ReadyMeansActive ==
    \A c \in Components :
        up /\ state[c] = "ready" /\ running # c /\ faults = 0 =>
            marker[c] = pinned /\ final[c][pinned] \in {"whole", "damaged"}

(* The pack the disk served when a run began is never lost: at every       *)
(* moment, the process dead or alive, the directory or a whole copy        *)
(* renamed aside holds it ("never deleted first").                         *)
WorkingPackSurvives ==
    \A c \in Components : LET v == owned[c] IN
        v # None => final[c][v] = "whole" \/ asides[c][v] > 0

(* The deletion the latest cancel of a waiting pack started never meets a  *)
(* run of the pack, which uses the same staging directory: the run waits   *)
(* for it before its first step, whatever enqueues, repairs, pauses and    *)
(* cancels came in between.  Nothing is claimed of an earlier deletion     *)
(* whose promise a later cancel replaced (strays): nobody waits for it,    *)
(* and it may take what the run stages.                                    *)
LatestCleanupIsAwaited ==
    \A c \in cleanup : running = c => pc = "begin"

(* A run has ended; the process lives on.                                  *)
RunEnded(c) == running = c /\ running' # c /\ up'

(* A run that does not end ready leaves the component serving exactly the  *)
(* version it served before: a cancel, a pause, a refused transfer or an   *)
(* error after the first rename is undone completely, as long as the file  *)
(* operations of the undo succeed.                                         *)
RollbackRestores ==
    [][\A c \in Components :
        RunEnded(c) /\ state'[c] # "ready" /\ owned[c] # None /\ faults = 0
            => marker'[c] = owned[c] /\ final'[c][owned[c]] = "whole"]_vars

(* A cancelled run that got past its start ends cancelled, with nothing    *)
(* staged, whatever step it had reached when the cancel came.              *)
CancelWins ==
    [][\A c \in Components :
        RunEnded(c) /\ abort = "cancel" /\ pc # "begin" /\ faults' = 0
            => /\ state'[c] = "cancelled"
               /\ \A v \in Versions : ~staging'[c][v]]_vars

(* Every run ends, whatever fails, changes on disk or aborts it, and       *)
(* however long a deletion it has to wait for takes, so that pump() gets   *)
(* to the pack behind it.                                                  *)
EveryRunEnds == \A c \in Components : running = c ~> running # c

(* The engine keeps what it promises the service, whatever happens on disk *)
(* as long as the file operations of an undo succeed and nobody calls      *)
(* initialise().                                                           *)
Lifecycle == INSTANCE SpeechPackLifecycle

ImplementsLifecycle == Lifecycle!Spec
=============================================================================
