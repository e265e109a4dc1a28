------------------------- MODULE SpeechPackLifecycle -------------------------
(***************************************************************************)
(* What the speech-pack engine (main/features/components/speech-pack/      *)
(* engine.ts) promises the service above it, with the disk left out: packs *)
(* wait in one queue and are installed one at a time; a running install    *)
(* ends by itself, and an abort decides how.  SpeechPackEngine implements  *)
(* this, SpeechPackService uses it.                                        *)
(***************************************************************************)
EXTENDS SpeechPackIds, SequencesExt

VARIABLES
    state,     \* component -> its status
    queue,     \* the components that wait, next one first
    running,   \* the component being installed, or None
    abort      \* what its controller was first aborted with, or None

lifecycle == <<state, queue, running, abort>>

Moving == {"downloading", "verifying", "self-testing"}
Resting == {"not-installed", "ready", "paused", "cancelled", "failed"}
States == Moving \cup Resting \cup {"queued"}

Init ==
    /\ state = [c \in Components |-> "not-installed"]
    /\ queue = <<>>
    /\ running = None
    /\ abort = None

(* c waits or is being installed.                                          *)
Busy(c) == state[c] = "queued" \/ running = c

(* dequeue(): indexOf and splice.                                          *)
Cut(q, c) ==
    IF Contains(q, c) THEN RemoveAt(q, CHOOSE i \in 1 .. Len(q) : q[i] = c) ELSE q

(* pump() with queue q once the states are s.                              *)
Pump(q, s) ==
    /\ abort' = None
    /\ IF q = <<>>
       THEN queue' = q /\ state' = s /\ running' = None
       ELSE /\ queue' = Tail(q)
            /\ running' = Head(q)
            /\ state' = [s EXCEPT ![Head(q)] = "downloading"]

(* A pack joins the queue; the queue moves only if nothing is installed.   *)
Request(c, q) ==
    IF running = None
    THEN Pump(q, [state EXCEPT ![c] = "queued"])
    ELSE /\ queue' = q
         /\ state' = [state EXCEPT ![c] = "queued"]
         /\ UNCHANGED <<running, abort>>

(* enqueue() leaves a ready pack and the one being installed alone; a pack *)
(* that waits already moves only if it is the selected one.                *)
Enqueues(c, selected) ==
    /\ state[c] # "ready" /\ c # running
    /\ state[c] = "queued" => selected

Enqueue(c, selected) ==
    /\ Enqueues(c, selected)
    /\ Request(c, IF selected THEN <<c>> \o Cut(queue, c)
                              ELSE Append(Cut(queue, c), c))

Repairs(c) == c # running /\ state[c] # "queued"

Repair(c) == Repairs(c) /\ Request(c, <<c>> \o Cut(queue, c))

Dequeue(c, s) ==
    /\ queue' = Cut(queue, c)
    /\ state' = [state EXCEPT ![c] = s]
    /\ UNCHANGED <<running, abort>>

Abort(c, reason) ==
    /\ abort' = reason
    /\ UNCHANGED <<state, queue, running>>

(* A pack that waits leaves the queue; the one being installed is aborted, *)
(* once.  A pause means nothing to the others, a cancel ends a paused one. *)
Pauses(c) == state[c] = "queued" \/ (c = running /\ abort = None)

Pause(c) ==
    /\ Pauses(c)
    /\ IF state[c] = "queued" THEN Dequeue(c, "paused") ELSE Abort(c, "pause")

Cancels(c) ==
    IF c = running THEN abort = None ELSE state[c] \in {"queued", "paused"}

Cancel(c) ==
    /\ Cancels(c)
    /\ IF c = running THEN Abort(c, "cancel") ELSE Dequeue(c, "cancelled")

(* The install goes on.                                                    *)
Work ==
    /\ running # None
    /\ \E s \in Moving : state' = [state EXCEPT ![running] = s]
    /\ UNCHANGED <<queue, running, abort>>

(* A listener of the ready event cancels: the install is undone.           *)
CutWhenReady ==
    /\ running # None /\ abort = None
    /\ state' = [state EXCEPT ![running] = "ready"]
    /\ abort' = "cancel"
    /\ UNCHANGED <<queue, running>>

(* An abort decides the outcome, unless the pack was found ready before    *)
(* anything was done; without one the install ends ready or fails.         *)
Outcomes == CASE abort = "cancel" -> {"cancelled", "ready"}
              [] abort = "pause" -> {"paused", "ready"}
              [] OTHER -> {"ready", "failed"}

End ==
    /\ running # None
    /\ \E s \in Outcomes : Pump(queue, [state EXCEPT ![running] = s])

(* The process dies; nothing of this is kept.                              *)
Crash ==
    /\ state' = [c \in Components |-> "not-installed"]
    /\ queue' = <<>> /\ running' = None /\ abort' = None

Next ==
    \/ Crash \/ Work \/ CutWhenReady \/ End
    \/ \E c \in Components :
        \/ \E selected \in BOOLEAN : Enqueue(c, selected)
        \/ Repair(c) \/ Pause(c) \/ Cancel(c)

Spec == Init /\ [][Next]_lifecycle

-----------------------------------------------------------------------------
TypeOK ==
    /\ state \in [Components -> States]
    /\ queue \in Seq(Components)
    /\ running \in Components \cup {None}
    /\ abort \in {None, "pause", "cancel"}

(* The queue and the states agree: a pack waits exactly if its state says  *)
(* so, once, and not while it is installed; nobody waits for an idle       *)
(* engine; a state that shows progress belongs to the install.             *)
QueueMatchesStates ==
    /\ \A c \in Components : state[c] = "queued" <=> Contains(queue, c)
    /\ IsInjective(queue)
    /\ ~Contains(queue, running)
    /\ running = None => queue = <<>> /\ abort = None
    /\ \A c \in Components : state[c] \in Moving => running = c
=============================================================================
