--------------------------- MODULE OperatorQueue ---------------------------
(***************************************************************************)
(* The durable outbox of Operator events (main/operator-queue.ts) with the *)
(* two things main/operator-ingest.ts does to it: postIngestWithQueue(),   *)
(* which appends an event whose live send failed, and the heartbeat tick,  *)
(* which drains the outbox before it reports.  Both load and save the      *)
(* whole file; the drain awaits the network in between, and nothing keeps  *)
(* two ticks, or a tick and a post, apart.                                 *)
(*                                                                         *)
(* An item's time is what is left until it is due.  The Worker replaces an *)
(* event it already has, so delivered events are a set: those it confirmed.*)
(* The count of capped events that the heartbeat carries is left out.      *)
(***************************************************************************)
EXTENDS Queues, Integers, SequencesExt, FiniteSets, FiniteSetsExt

CONSTANTS
    Events,         \* events the program may report
    Ticks,          \* heartbeat ticks that may be under way together
    MaxItems,       \* OPERATOR_QUEUE_MAX_ITEMS
    Schedule,       \* backoffForAttempt(0), (1), ...; the last one is the cap
    RetryAfter,     \* waits the Worker may ask for
    MaxUpsets       \* bound: failed writes of the file and deaths of the process

ASSUME MaxItemsPositive == MaxItems \in Nat \ {0}
ASSUME ScheduleIsGiven == Schedule \in Seq(Nat) /\ Schedule # <<>>
ASSUME RetryAfterIsNat == RetryAfter \subseteq Nat /\ IsFiniteSet(RetryAfter)
ASSUME UpsetsAreNat == MaxUpsets \in Nat

VARIABLES
    file,       \* the items of operator-queue.json
    post,       \* event -> "new", "over" or "queued" by its live send
    copy,       \* tick -> the items its drain loaded and works on
    toSend,     \* tick -> ids its drain still has to send, the current one first
    since,      \* tick -> time since its drain read the clock
    upsets,     \* failed writes and deaths so far
    \* outcomes
    delivered,  \* events the Worker has confirmed
    capped,     \* events dropped for the cap
    exposed     \* events enqueued while a drain was sending, or not written

outcomes == <<delivered, capped, exposed>>
tick == <<copy, toSend, since>>
outboxVars == <<file, post, tick, upsets, outcomes>>

EventIds(s) == {s[i].id : i \in DOMAIN s}

OutboxInit ==
    /\ file = <<>>
    /\ post = [e \in Events |-> "new"]
    /\ copy = [t \in Ticks |-> <<>>]
    /\ toSend = [t \in Ticks |-> <<>>]
    /\ since = [t \in Ticks |-> 0]
    /\ upsets = 0
    /\ delivered = {} /\ capped = {} /\ exposed = {}

-----------------------------------------------------------------------------
(* The pure transitions of the items.                                      *)

(* attempts count only up to the last entry of the schedule.               *)
LastAttempt == Len(Schedule) - 1
BackoffForAttempt(attempts) == Schedule[attempts + 1]

(* Over the cap the oldest item goes.                                      *)
AddItem(s, e, wait) ==
    LET items == Append(s, [id |-> e, attempts |-> 0, wait |-> wait])
    IN  SubSeq(items, Max({1, Len(items) - MaxItems + 1}), Len(items))

DueItems(s) ==
    LET now == Without(s, {i \in Range(s) : i.wait > 0})
    IN  [k \in DOMAIN now |-> now[k].id]

(* A filter the wrong way round.                                           *)
KeepOnlySent(s, e) == Without(s, {i \in Range(s) : i.id # e})

MarkSucceeded(s, e) == Without(s, {i \in Range(s) : i.id = e})

MarkFailed(s, e, wait) ==
    [k \in DOMAIN s |->
        IF s[k].id = e
        THEN [id |-> e, attempts |-> Min({s[k].attempts + 1, LastAttempt}), wait |-> wait]
        ELSE s[k]]

(* A failure that drops the item when the schedule is used up.             *)
GiveUp(s, e, wait) ==
    IF \E i \in Range(s) : i.id = e /\ i.attempts = LastAttempt
    THEN MarkSucceeded(s, e) ELSE MarkFailed(s, e, wait)

Reschedule(s, e, wait) == MarkFailed(s, e, wait)

AttemptsOf(s, e) == (CHOOSE i \in Range(s) : i.id = e).attempts

-----------------------------------------------------------------------------
(* The file is replaced whole, or a failed write leaves it as it was.      *)

Upset == upsets < MaxUpsets /\ upsets' = upsets + 1

Saved(s) == file' = s /\ UNCHANGED upsets
SaveFailed == Upset /\ UNCHANGED file

Draining == {t \in Ticks : toSend[t] # <<>>}

(* The waits a failed send may be given, for a given number of attempts.   *)
Waits(attempts) == {BackoffForAttempt(attempts)} \cup RetryAfter

-----------------------------------------------------------------------------
(* postIngestWithQueue(), from the answer to its live send on: the request *)
(* itself touches nothing of the outbox, and one that dies with the        *)
(* process was never in it.                                                *)

(* The Worker took the event, or refused it with a 4xx other than 429,     *)
(* for which shouldQueueOnFailure() is false.                              *)
Answered(e) ==
    /\ post[e] = "new"
    /\ post' = [post EXCEPT ![e] = "over"]
    /\ UNCHANGED <<file, tick, upsets, outcomes>>

(* No answer, 429 or 5xx.                                                  *)
EnqueueEvent(e, wait) ==
    LET next == AddItem(file, e, wait) IN
    /\ post[e] = "new"
    /\ post' = [post EXCEPT ![e] = "queued"]
    /\ UNCHANGED <<tick, delivered>>
    /\ \/ /\ Saved(next)
          /\ capped' = capped \cup (EventIds(file) \ EventIds(next))
          /\ exposed' = IF Draining # {} THEN exposed \cup {e} ELSE exposed
       \/ /\ SaveFailed
          /\ exposed' = exposed \cup {e}
          /\ UNCHANGED capped

-----------------------------------------------------------------------------
(* drainOperatorQueue(), with which a heartbeat begins.                    *)

(* The drain of tick t goes on with the items s and the ids in rest.       *)
(* Without any left it saves, once.                                        *)
Continue(t, s, rest) ==
    IF rest # <<>>
    THEN /\ copy' = [copy EXCEPT ![t] = s]
         /\ toSend' = [toSend EXCEPT ![t] = rest]
         /\ UNCHANGED <<file, upsets>>
    ELSE /\ copy' = [copy EXCEPT ![t] = <<>>]
         /\ toSend' = [toSend EXCEPT ![t] = <<>>]
         /\ Saved(s) \/ SaveFailed

StartDrain(t) ==
    /\ t \notin Draining
    /\ since' = [since EXCEPT ![t] = 0]
    /\ Continue(t, file, DueItems(file))
    /\ UNCHANGED <<post, outcomes>>

SendOk(t) ==
    LET e == Head(toSend[t]) IN
    /\ t \in Draining
    /\ delivered' = delivered \cup {e}
    /\ Continue(t, MarkSucceeded(copy[t], e), Tail(toSend[t]))
    /\ UNCHANGED <<post, since, capped, exposed>>

(* Any other answer, a refusal that no retry can mend too, reschedules:    *)
(* from the time the drain began, not from now.                            *)
SendFailed(t) ==
    LET e == Head(toSend[t])
        left(wait) == Max({wait - since[t], 0})
        attempts == Min({AttemptsOf(copy[t], e) + 1, LastAttempt})
    IN  /\ t \in Draining
        /\ \E wait \in Waits(attempts) :
              Continue(t, Reschedule(copy[t], e, left(wait)), Tail(toSend[t]))
        /\ UNCHANGED <<post, since, outcomes>>

-----------------------------------------------------------------------------

Sooner(s) == [k \in DOMAIN s |-> [s[k] EXCEPT !.wait = Max({@ - 1, 0})]]

LongestWait == Max(Range(Schedule) \cup RetryAfter)

ClockRuns ==
    /\ file' = Sooner(file)
    /\ copy' = [t \in Ticks |-> Sooner(copy[t])]
    /\ since' = [t \in Ticks |-> IF t \in Draining
                                 THEN Min({since[t] + 1, LongestWait}) ELSE 0]
    /\ UNCHANGED <<post, toSend, upsets, outcomes>>

(* The file is all that is left.                                           *)
ProcessDies ==
    /\ Upset
    /\ copy' = [t \in Ticks |-> <<>>]
    /\ toSend' = [t \in Ticks |-> <<>>]
    /\ since' = [t \in Ticks |-> 0]
    /\ UNCHANGED <<file, post, outcomes>>

OutboxNext ==
    \/ \E e \in Events :
        \/ Answered(e)
        \/ \E wait \in Waits(0) : EnqueueEvent(e, wait)
    \/ \E t \in Ticks : StartDrain(t) \/ SendOk(t) \/ SendFailed(t)
    \/ ClockRuns
    \/ ProcessDies

OutboxSpec == OutboxInit /\ [][OutboxNext]_outboxVars

(* The timer starts ticks for ever, every request ends (signedPost has a   *)
(* deadline), time passes, and the Worker does not fail one event for ever.*)
OutboxFairness ==
    /\ WF_outboxVars(ClockRuns)
    /\ \A t \in Ticks : WF_outboxVars(StartDrain(t)) /\ WF_outboxVars(SendOk(t) \/ SendFailed(t))
    /\ \A e \in Events : SF_outboxVars(\E t \in Draining : Head(toSend[t]) = e /\ SendOk(t))

FairOutboxSpec == OutboxSpec /\ OutboxFairness

-----------------------------------------------------------------------------
(* An event in the outbox is lost in no other way than the cap and the two *)
(* the code leaves open: it was enqueued while a drain was sending, whose  *)
(* save then replaces the file, or its own write failed.  In particular no *)
(* answer, retry, overlap of drains or crash between a send and the save   *)
(* loses one.                                                              *)
LostOnlyWhenExposed ==
    \A e \in Events :
        post[e] = "queued" => e \in EventIds(file) \cup delivered \cup capped \cup exposed

(* Once the Worker recovers, every event that went to the outbox reaches   *)
(* it in the end, but for the cap and what LostOnlyWhenExposed leaves open.*)
EventuallyDelivered ==
    <>[](\A e \in Events :
            post[e] = "queued" => e \in delivered \cup capped \cup exposed)

-----------------------------------------------------------------------------
(* What the comments say and the code does not do.                         *)

(* "appended here instead of dropped": with every write succeeding, only   *)
(* the cap takes an event out of the outbox undelivered.                   *)
NeverDropped ==
    \A e \in Events : post[e] = "queued" => e \in EventIds(file) \cup delivered \cup capped
=============================================================================
