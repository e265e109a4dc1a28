----------------------------- MODULE PushQueue -----------------------------
(***************************************************************************)
(* The retry queue of CRM writes (main/mcp/pushQueue.ts) with its three    *)
(* users in main/index.ts: the mcp:push handler, which sends live and      *)
(* enqueues a failure; the minute timer, which calls processDue(); and the *)
(* operator's retries, which requeue an action, report it in progress and  *)
(* call processIds().  Nothing waits for the previous heartbeat, so two    *)
(* loops of retries can be under way.  The queue is one list in memory,    *)
(* written whole by enqueue(), by requeue() and once at the end of a batch.*)
(*                                                                         *)
(* An action is a member of a set: two requests with the same content have *)
(* the same id.  Its time is what is left until nextAt.  A confidential    *)
(* meeting never reaches the queue, because the handler stops before it    *)
(* sends; one that becomes confidential later does, and its push answers   *)
(* ok without a write.                                                     *)
(***************************************************************************)
EXTENDS Naturals, Sequences, SequencesExt, FiniteSetsExt, Queues

CONSTANTS
    Actions,        \* ids of the actions a user may ask for
    Loops,          \* loops of operator retries that may overlap
    MaxAttempts,    \* maxAttempts
    Backoff,        \* backoffFor(1), (2), ...; the last one for all later ones
    MaxAsked,       \* bound: live sends
    MaxRetries,     \* bound: operator retries
    MaxFaults,      \* bound: saves that fail
    MaxCrashes      \* bound: deaths of the process

ASSUME MaxAttemptsPositive == MaxAttempts \in Nat \ {0}
ASSUME BackoffIsSchedule == Backoff \in Seq(Nat) /\ Backoff # <<>>
ASSUME BoundsAreNatural == {MaxAsked, MaxRetries, MaxFaults, MaxCrashes} \subseteq Nat
ASSUME TimerIsNoLoop == "timer" \notin Loops

(* Whose batch it is.                                                      *)
Owners == Loops \cup {"timer"}

VARIABLES
    list,       \* the actions in memory, in order
    disk,       \* what mcp-push-queue.json holds
    request,    \* action -> what the user sees of it: "new", "sending", "failed", "sent"
    asked,      \* live sends so far
    pc,         \* owner -> "idle" or "pushing"
    todo,       \* owner -> the rest of its batch, the action being pushed first
    due,        \* actions that were due when the timer's batch read the clock
    retry,      \* loop -> the action it retries, as a set, and where it stands
    retries, faults, crashes,
    \* history
    copies,     \* action -> times it was put in the queue
    sent,       \* action -> writes of the queue that the CRM has confirmed
    unsaved     \* the last save failed

batch == <<pc, todo, due>>
store == <<disk, faults, unsaved>>
user == <<request, asked>>
history == <<copies, sent>>
vars == <<list, store, user, batch, retry, retries, crashes, history>>

Queued == {list[i].id : i \in DOMAIN list}
Row(a) == CHOOSE r \in Range(list) : r.id = a
Dropped(a) == Without(list, {r \in Range(list) : r.id = a})
With(row) == [i \in DOMAIN list |-> IF list[i].id = row.id THEN row ELSE list[i]]

BackoffFor(attempts) == Backoff[Min({attempts, Len(Backoff)})]

NoRetry == [of |-> {}, at |-> "idle"]

Init ==
    /\ list = <<>> /\ disk = <<>>
    /\ request = [a \in Actions |-> "new"]
    /\ asked = 0
    /\ pc = [o \in Owners |-> "idle"]
    /\ todo = [o \in Owners |-> <<>>]
    /\ due = {}
    /\ retry = [l \in Loops |-> NoRetry]
    /\ retries = 0 /\ faults = 0 /\ crashes = 0
    /\ copies = [a \in Actions |-> 0]
    /\ sent = [a \in Actions |-> 0]
    /\ unsaved = FALSE

(* save(): a failure is logged and forgotten.                              *)
Save(rows) ==
    \/ disk' = rows /\ unsaved' = FALSE /\ UNCHANGED faults
    \/ /\ faults < MaxFaults /\ faults' = faults + 1
       /\ unsaved' = TRUE /\ UNCHANGED disk

-----------------------------------------------------------------------------
(* mcp:push: the live send, and enqueue() when it fails.                   *)

(* The user asks, and asks again for what is shown as failed.              *)
Send(a) ==
    /\ request[a] \in {"new", "failed"} /\ asked < MaxAsked
    /\ request' = [request EXCEPT ![a] = "sending"]
    /\ asked' = asked + 1
    /\ UNCHANGED <<list, store, batch, retry, retries, crashes, history>>

Sent(a) ==
    /\ request[a] = "sending"
    /\ request' = [request EXCEPT ![a] = "sent"]
    /\ UNCHANGED <<list, store, asked, batch, retry, retries, crashes, history>>

NewRow(a) == [id |-> a, attempts |-> 0, wait |-> 0, dead |-> FALSE]

Enqueue(a) ==
    /\ request[a] = "sending"
    /\ request' = [request EXCEPT ![a] = "failed"]
    /\ UNCHANGED <<asked, batch, retry, retries, crashes, sent>>
    /\ IF a \in Queued
       THEN UNCHANGED <<list, store, copies>>
       ELSE /\ list' = Append(list, NewRow(a))
            /\ Save(list')
            /\ copies' = [copies EXCEPT ![a] = @ + 1]

-----------------------------------------------------------------------------
(* runBatch()                                                              *)

Processing == \E o \in Owners : pc[o] = "pushing"

(* A lock that each caller has for itself.                                 *)
EntersOwn(o) == pc[o] = "idle"

Enters(o) == pc[o] = "idle" /\ ~Processing

(* What the loop does not pass over, once it gets to action a: processIds()*)
(* looks neither at dead letters nor at the clock.                         *)
Eligible(o, a, rows, dueThen) ==
    o = "timer" => a \in dueThen /\ \A r \in Range(rows) : r.id = a => ~r.dead

(* The batch of owner o goes on with the actions in rest, where the list   *)
(* is rows: it pushes the first one it does not pass over, or saves and is *)
(* done.                                                                   *)
Proceed(o, rest, rows, dueThen) ==
    LET first == SelectInSeq(rest, LAMBDA a : Eligible(o, a, rows, dueThen)) IN
    /\ due' = IF o # "timer" THEN due ELSE IF first = 0 THEN {} ELSE dueThen
    /\ IF first = 0
       THEN /\ pc' = [pc EXCEPT ![o] = "idle"]
            /\ todo' = [todo EXCEPT ![o] = <<>>]
            /\ Save(rows)
       ELSE /\ pc' = [pc EXCEPT ![o] = "pushing"]
            /\ todo' = [todo EXCEPT ![o] = SubSeq(rest, first, Len(rest))]
            /\ UNCHANGED store

DueNow == {r.id : r \in {s \in Range(list) : s.wait = 0}}

Timer ==
    /\ Enters("timer")
    /\ list # <<>>
    /\ Proceed("timer", [i \in DOMAIN list |-> list[i].id], list, DueNow)
    /\ UNCHANGED <<list, user, retry, retries, crashes, history>>

(* A loop leaves its action.  The timer has none.                          *)
LeaveRetry(o) ==
    retry' = [l \in Loops |-> IF l = o THEN NoRetry ELSE retry[l]]

(* A push that succeeds, or is not sent because the meeting has become     *)
(* confidential, leaves the list; only the first is a write.               *)
PushOk(o, writes) ==
    LET a == Head(todo[o]) IN
    /\ pc[o] = "pushing"
    /\ list' = Dropped(a)
    /\ sent' = IF writes THEN [sent EXCEPT ![a] = @ + 1] ELSE sent
    /\ Proceed(o, Tail(todo[o]), list', due)
    /\ LeaveRetry(o)
    /\ UNCHANGED <<user, retries, crashes, copies>>

(* A failure that does not count.                                          *)
FailedUncounted(row) == [row EXCEPT !.wait = BackoffFor(1)]

Failed(row) ==
    LET n == row.attempts + 1 IN
    IF n >= MaxAttempts
    THEN [row EXCEPT !.attempts = n, !.dead = TRUE]
    ELSE [row EXCEPT !.attempts = n, !.wait = BackoffFor(n)]

Rescheduled(row) == Failed(row)

PushFailed(o) ==
    LET a == Head(todo[o]) IN
    /\ pc[o] = "pushing"
    /\ list' = IF a \in Queued THEN With(Rescheduled(Row(a))) ELSE list
    /\ Proceed(o, Tail(todo[o]), list', due)
    /\ LeaveRetry(o)
    /\ UNCHANGED <<user, retries, crashes, copies, sent>>

-----------------------------------------------------------------------------
(* applyOperatorCrmRetries(): one action of the loop after the other.      *)

Revived(a) == With([Row(a) EXCEPT !.attempts = 0, !.wait = 0, !.dead = FALSE])

(* A requeue() that is not written to disk.                                *)
RequeueUnsaved(l, a) ==
    /\ retry[l] = NoRetry /\ retries < MaxRetries
    /\ a \in Queued
    /\ retries' = retries + 1
    /\ list' = Revived(a)
    /\ retry' = [retry EXCEPT ![l] = [of |-> {a}, at |-> "reporting"]]
    /\ UNCHANGED <<store, user, batch, crashes, copies, sent>>

(* requeue(): due from now on, which a batch under way takes for later     *)
(* than its own clock, or not.                                             *)
Requeue(l, a) ==
    /\ retry[l] = NoRetry /\ retries < MaxRetries
    /\ a \in Queued
    /\ retries' = retries + 1
    /\ list' = Revived(a)
    /\ Save(list')
    /\ IF pc["timer"] = "idle"
       THEN UNCHANGED due
       ELSE due' \in {due \cup {a}, due \ {a}}
    /\ retry' = [retry EXCEPT ![l] = [of |-> {a}, at |-> "reporting"]]
    /\ UNCHANGED <<user, pc, todo, crashes, copies, sent>>

(* The report of the retry is sent.  processIds() then runs a batch, or    *)
(* does nothing because one is under way: the action is left to the timer. *)
ProcessIds(l) ==
    /\ retry[l].at = "reporting"
    /\ UNCHANGED <<list, user, retries, crashes, history>>
    /\ IF Enters(l)
       THEN /\ Proceed(l, SetToSeq(retry[l].of \cap Queued), list, {})
            /\ IF retry[l].of \subseteq Queued
               THEN retry' = [retry EXCEPT ![l].at = "processing"]
               ELSE LeaveRetry(l)
       ELSE LeaveRetry(l) /\ UNCHANGED <<store, batch>>

-----------------------------------------------------------------------------

PassTime ==
    LET Nearer(rows) ==
          [i \in DOMAIN rows |-> [rows[i] EXCEPT !.wait = IF @ > 0 THEN @ - 1 ELSE 0]] IN
    /\ \E r \in Range(list) : r.wait > 0
    /\ list' = Nearer(list)
    /\ disk' = Nearer(disk)
    /\ UNCHANGED <<faults, unsaved, user, batch, retry, retries, crashes, history>>

(* The next process loads what the disk holds; a live send that was not    *)
(* answered looks failed to the user.                                      *)
Crash ==
    /\ crashes < MaxCrashes /\ crashes' = crashes + 1
    /\ list' = disk
    /\ unsaved' = FALSE
    /\ request' = [a \in Actions |-> IF request[a] = "sending" THEN "failed" ELSE request[a]]
    /\ pc' = [o \in Owners |-> "idle"]
    /\ todo' = [o \in Owners |-> <<>>]
    /\ due' = {}
    /\ retry' = [l \in Loops |-> NoRetry]
    /\ UNCHANGED <<disk, faults, asked, retries, copies, sent>>

Push(o) == PushFailed(o) \/ \E writes \in BOOLEAN : PushOk(o, writes)

Next ==
    \/ \E a \in Actions : Send(a) \/ Sent(a) \/ Enqueue(a)
    \/ Timer
    \/ \E o \in Owners : Push(o)
    \/ \E l \in Loops : ProcessIds(l) \/ \E a \in Actions : Requeue(l, a)
    \/ PassTime
    \/ Crash

Spec == Init /\ [][Next]_vars

(* The timer fires for ever, every push has a deadline, time passes.       *)
Fairness ==
    /\ WF_vars(Timer) /\ WF_vars(PassTime)
    /\ \A l \in Loops : WF_vars(ProcessIds(l))
    /\ \A o \in Owners : WF_vars(Push(o))

FairSpec == Spec /\ Fairness

-----------------------------------------------------------------------------
(* The CRM confirms each queued copy of an action at most once, whoever    *)
(* runs batches and however a requeue falls into one; only a crash, which  *)
(* forgets the batch it interrupts, can make the queue send one again.     *)
QueueSendsOnce == \A a \in Actions : sent[a] <= copies[a] + crashes

(* Between batches, and unless the last save failed, the disk holds what   *)
(* memory holds: a crash then loses nothing and brings nothing back.       *)
DurableBetweenBatches == ~Processing /\ ~unsaved => disk = list

(* Every queued action leaves the queue in the end or is a dead letter.    *)
EventuallySettled ==
    \A a \in Actions : a \in Queued ~> a \notin Queued \/ Row(a).dead
=============================================================================
