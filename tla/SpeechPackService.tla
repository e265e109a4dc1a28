-------------------------- MODULE SpeechPackService --------------------------
(***************************************************************************)
(* The speech-pack service (main/features/components/speech-pack/          *)
(* service.ts) and the desktop glue that drives it                         *)
(* (main/speech-pack-bootstrap.ts) over the engine as SpeechPackLifecycle  *)
(* promises it.  An action of the settings page is admitted, waits for the *)
(* profile to be read and is looked at again; meanwhile the user may pause *)
(* or cancel, another engine may be selected, the policy may be withdrawn, *)
(* a capture may begin and the program may quit.                           *)
(*                                                                         *)
(* Only whether authorityRevision changed since an action was admitted     *)
(* matters: "fresh" says it has not.  What the engine does while an        *)
(* installation runs is its own business; authorizeTransfer may end it.    *)
(*                                                                         *)
(* The service learns of the engine's states through events that schedule()*)
(* throttles per pack: an interval of 250 ms has to lie between two of     *)
(* them, so one that is due early waits for its timer and then tells the   *)
(* state of that moment.                                                   *)
(***************************************************************************)
EXTENDS SpeechPackIds, SequencesExt, Queues

CONSTANT Actions    \* actions in flight at one time

ASSUME NoneIsNoAction == None \notin Actions

VARIABLES
    \* the engine
    state, queue, running, abort,
    recent,      \* packs whose last event is less than an interval old
    due,         \* packs with an event waiting for its timer
    \* the service
    activity,    \* components whose transfer the user asked for
    admissions,  \* component -> the action pendingAdmissions names, or None
    actions,     \* action -> what it asked and whether it is still fresh
    told,        \* captureActive, as the service was last told
    phase,       \* "open"; "draining", then "idle" or "late" at quit
    \* what the service asks its options for
    selected,    \* the pack of the selected engine, or None
    policy,      \* policyAllowsTransfer()
    capture      \* options.captureActive()

engine == <<state, queue, running, abort>>
events == <<recent, due>>
service == <<activity, admissions, actions, told, phase>>
authority == <<selected, policy, capture>>
vars == <<engine, events, service, authority>>

Engine == INSTANCE SpeechPackLifecycle

Wishes == {"install", "repair"}

(* withdrawn is history: while the action waited for the profile, its pack *)
(* was paused or cancelled, or the service lost its authority or shut down.*)
NoAction == [pack |-> None, wish |-> "install", fresh |-> FALSE, withdrawn |-> FALSE]

Reading(k) == actions[k].pack # None

Init ==
    /\ Engine!Init
    /\ recent = {} /\ due = {}
    /\ activity = {}
    /\ admissions = [c \in Components |-> None]
    /\ actions = [k \in Actions |-> NoAction]
    /\ told = FALSE
    /\ phase = "open"
    /\ selected \in Components \cup {None}
    /\ policy \in BOOLEAN
    /\ capture \in BOOLEAN

CaptureActive == told \/ capture

Authorized(c) == selected = c /\ policy /\ ~CaptureActive

(* A change of authority that raises no new revision.                      *)
ReviseNothing(W) ==
    actions' = [k \in Actions |->
        IF Reading(k)
        THEN [actions[k] EXCEPT !.withdrawn = @ \/ actions[k].pack \in W]
        ELSE actions[k]]

(* authorityRevision += 1, and the actions W withdraws.                    *)
Revise(W) ==
    actions' = [k \in Actions |->
        IF Reading(k)
        THEN [actions[k] EXCEPT !.fresh = FALSE,
                                !.withdrawn = @ \/ actions[k].pack \in W]
        ELSE actions[k]]

-----------------------------------------------------------------------------
(* set(), schedule() and deliver() of the engine                           *)

(* Every set() but a report of progress changes the state.                 *)
Changed == {c \in Components : state'[c] # state[c]}

(* The packs C are reported on, those of D twice in the same turn.         *)
Reported(C, D) ==
    /\ due' = due \cup (C \cap (recent \cup D))
    /\ recent' = recent \cup C

(* The events of these are delivered in the turn of the report.            *)
AtOnce(C) == C \ recent

Ended == {"ready", "failed", "cancelled", "paused"}

(* A listener that does not take the lease of what was paused.             *)
LeasesKeptPaused(A, C) == {c \in A : c \notin C \/ state'[c] \notin Ended \ {"paused"}}

(* What the listener leaves of the leases A when events of C arrive.  The  *)
(* quit takes every lease before it unsubscribes.                          *)
LeasesAfter(A, C) == {c \in A : c \notin C \/ state'[c] \notin Ended}

(* The timer of a delayed event: it delivers the state of now.             *)
Deliver(c) ==
    /\ c \in due
    /\ due' = due \ {c}
    /\ UNCHANGED <<engine, recent, admissions, actions, told, phase, authority>>
    /\ activity' = LeasesAfter(activity, {c})

(* An interval has passed since the last event of c.                       *)
Elapse(c) ==
    /\ c \in recent \ due
    /\ recent' = recent \ {c}
    /\ UNCHANGED <<engine, due, service, authority>>

-----------------------------------------------------------------------------
(* action()                                                                *)

(* download, retry or repair, up to the read of the profile.  What it      *)
(* refuses changes nothing.                                                *)
Ask(k, c, wish) ==
    /\ ~Reading(k)
    /\ phase = "open"
    /\ admissions[c] = None /\ c \notin activity
    /\ Authorized(c)
    /\ admissions' = [admissions EXCEPT ![c] = k]
    /\ actions' = [actions EXCEPT
            ![k] = [pack |-> c, wish |-> wish, fresh |-> TRUE, withdrawn |-> FALSE]]
    /\ UNCHANGED <<engine, events, activity, told, phase, authority>>

(* An obsolete action leaves a newer one's admission alone.                *)
SettleAdmission(k) ==
    admissions' = [admissions EXCEPT ![actions[k].pack] = IF @ = k THEN None ELSE @]

(* A second look that forgets who withdrew what meanwhile.                 *)
AdmittedBlindly(k) ==
    LET c == actions[k].pack IN
    Authorized(c) /\ state[c] \notin Engine!Moving \cup {"queued"}

Admitted(k) ==
    LET c == actions[k].pack IN
    /\ actions[k].fresh
    /\ phase = "open"
    /\ Authorized(c)
    /\ state[c] \notin Engine!Moving \cup {"queued"}

(* The engine may have nothing to do for a pack it knows as ready.         *)
Install(c) ==
    \/ Engine!Enqueue(c, TRUE)
    \/ ~Engine!Enqueues(c, TRUE) /\ UNCHANGED engine

Repair(c) ==
    \/ Engine!Repair(c)
    \/ ~Engine!Repairs(c) /\ UNCHANGED engine

(* The profile has been read, or could not be.  A pack the idle engine     *)
(* takes up at once is reported queued, then downloading.                  *)
Resume(k) ==
    LET c == actions[k].pack IN
    /\ Reading(k)
    /\ SettleAdmission(k)
    /\ actions' = [actions EXCEPT ![k] = NoAction]
    /\ \/ /\ Admitted(k)
          /\ activity' = activity \cup {c}
          /\ IF actions[k].wish = "repair" THEN Repair(c) ELSE Install(c)
          /\ Reported(Changed, IF state'[c] = "downloading" THEN {c} ELSE {})
       \/ UNCHANGED <<activity, engine, events>>
    /\ UNCHANGED <<told, phase, authority>>

(* A pause or a cancel is taken at any time, by every phase.               *)
Stop(c, wish) ==
    /\ \/ wish = "pause" /\ Engine!Pause(c)
       \/ wish = "cancel" /\ Engine!Cancel(c)
       \/ wish = "pause" /\ ~Engine!Pauses(c) /\ UNCHANGED engine
       \/ wish = "cancel" /\ ~Engine!Cancels(c) /\ UNCHANGED engine
    /\ Reported(Changed, {})
    /\ Revise({c})
    /\ admissions' = [admissions EXCEPT ![c] = None]
    /\ activity' = activity \ {c}
    /\ UNCHANGED <<told, phase, authority>>

-----------------------------------------------------------------------------
(* What the program tells the service                                      *)

(* engine.cancel() of the packs in C and engine.pause() of those in P, one *)
(* after the other in the same turn of the event loop.                     *)
StopAll(C, P) ==
    LET out == {c \in C : c # running /\ state[c] \in {"queued", "paused"}}
               \cup {c \in P : state[c] = "queued"}
    IN
    /\ queue' = Without(queue, out)
    /\ state' = [c \in Components |->
            IF c \notin out THEN state[c] ELSE IF c \in C THEN "cancelled" ELSE "paused"]
    /\ abort' = IF abort # None THEN abort
                ELSE IF running \in C THEN "cancel"
                ELSE IF running \in P THEN "pause" ELSE None
    /\ UNCHANGED running

(* refresh(), once a second and on the changes main knows of:              *)
(* policyChanged(), selectionChanged(), captureActivityChanged(), in one   *)
(* turn.  A pack that ended, but whose event is still due, is among those  *)
(* they stop.                                                              *)
Refresh ==
    LET cancelled == IF policy THEN activity \ {selected} ELSE activity
        paused == IF policy /\ capture THEN activity \cap {selected} ELSE {}
        lost == IF policy /\ ~capture THEN Components \ {selected} ELSE Components
    IN
    /\ phase = "open"
    /\ StopAll(cancelled, paused)
    /\ Reported(Changed, {})
    /\ activity' = IF policy THEN LeasesAfter(activity, AtOnce(Changed)) ELSE {}
    /\ Revise(lost)
    /\ told' = capture
    /\ UNCHANGED <<admissions, phase, authority>>

(* Quitting locks every action out and cancels everything, in one turn.    *)
Shutdown ==
    /\ phase = "open"
    /\ phase' = "draining"
    /\ Revise(Components)
    /\ admissions' = [c \in Components |-> None]
    /\ StopAll(Components, {})
    /\ Reported(Changed, {})
    /\ activity' = {}
    /\ UNCHANGED <<told, authority>>

(* The program quits when the engine is idle, or after ten seconds.        *)
Drained ==
    /\ phase = "draining"
    /\ \/ running = None /\ queue = <<>> /\ phase' = "idle"
       \/ phase' = "late"
    /\ UNCHANGED <<engine, events, activity, admissions, actions, told, authority>>

-----------------------------------------------------------------------------
(* The engine at work.                                                     *)

(* Each step of the installation, and its progress, is reported.           *)
Work ==
    /\ Engine!Work
    /\ Reported({running}, {})
    /\ UNCHANGED <<service, authority>>

(* The installation ends and the next one starts.                          *)
End ==
    /\ Engine!End
    /\ Reported(Changed, {})
    /\ activity' = LeasesAfter(activity, AtOnce(Changed))
    /\ UNCHANGED <<admissions, actions, told, phase, authority>>

(* Settings, the administrator's policy and captures change by themselves. *)
Select(e) ==
    /\ selected' = e
    /\ UNCHANGED <<engine, events, service, policy, capture>>

SetPolicy(p) ==
    /\ policy' = p
    /\ UNCHANGED <<engine, events, service, selected, capture>>

SetCapture(b) ==
    /\ capture' = b
    /\ UNCHANGED <<engine, events, service, selected, policy>>

Next ==
    \/ \E c \in Components :
        \/ \E k \in Actions, wish \in Wishes : Ask(k, c, wish)
        \/ \E wish \in {"pause", "cancel"} : Stop(c, wish)
        \/ Deliver(c) \/ Elapse(c)
    \/ \E k \in Actions : Resume(k)
    \/ Refresh \/ Shutdown \/ Drained
    \/ Work \/ End
    \/ \E e \in Components \cup {None} : Select(e)
    \/ \E b \in BOOLEAN : SetPolicy(b) \/ SetCapture(b)

Spec == Init /\ [][Next]_vars

-----------------------------------------------------------------------------
(* Leases and the engine's work agree, whatever stopped what in between:   *)
(* an installation that waits or runs unaborted has its lease (else it     *)
(* would be refused in the middle): no late event of what ended before     *)
(* takes it.  A lease without work, which answers "busy" to every later    *)
(* action and lets a change of authority cancel a pack that was paused,    *)
(* lasts no longer than the event that is due for the pack (250 ms), but   *)
(* for a pack the engine already knows as ready.                           *)
LeasesMatchWork ==
    \A c \in Components :
        /\ state[c] = "queued" \/ (running = c /\ abort = None) => c \in activity
        /\ c \in activity => Engine!Busy(c) \/ state[c] = "ready" \/ c \in due

(* An action withdrawn while it waited for the profile, by a pause, a      *)
(* cancel, a lost authority the service saw or the quit, starts nothing.   *)
WithdrawnStartsNothing ==
    [][\A k \in Actions :
        actions[k].withdrawn /\ ~actions'[k].withdrawn => UNCHANGED <<engine, activity>>]_vars

(* Once the quit has waited for the engine to be idle it stays idle.       *)
QuitFindsItIdle == phase = "idle" => running = None /\ queue = <<>>
=============================================================================
