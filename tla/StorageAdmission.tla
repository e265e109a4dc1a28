-------------------------- MODULE StorageAdmission --------------------------
(***************************************************************************)
(* Admission of meetings-root fs calls (main/infra/storage/admission.ts)   *)
(* together with the protocol its only caller follows (gateway.ts: admit,  *)
(* call, readShared).                                                      *)
(*                                                                         *)
(* A call asks for a permit in one of two lanes, perhaps waits, and, once  *)
(* it holds one, either runs its fs operation under it or hands it back    *)
(* unused.  A running fs operation cannot be cancelled: the permit returns *)
(* only when it settles, however long ago its caller gave up.              *)
(*                                                                         *)
(* Time is a tick.  A call that has run StuckAfter ticks is stuck; age     *)
(* saturates there because nothing tells older calls apart.                *)
(***************************************************************************)
EXTENDS SequencesExt

CONSTANTS
    Calls,        \* the fs calls the gateway makes
    Capacity,     \* createAdmission(capacity)
    MaxQueued,    \* MAX_QUEUED
    StuckAfter    \* STUCK_AFTER_MS, in ticks

ASSUME CallsFinite == IsFiniteSet(Calls)
ASSUME CapacityPositive == Capacity \in Nat \ {0}
ASSUME MaxQueuedNat == MaxQueued \in Nat
ASSUME StuckAfterPositive == StuckAfter \in Nat \ {0}

VARIABLES
    free,       \* permits nobody holds
    waiting,    \* lane -> the calls queued in it, oldest first
    pc,         \* call -> where it stands
    lane,       \* call -> the lane it asked in, "metadata" when it is not under way
    aborted,    \* call -> its request's signal aborted while it was under way
    age,        \* call -> ticks it has been running
    stuckTimer  \* ticks until the timer fires, or Unarmed

vars == <<free, waiting, pc, lane, aborted, age, stuckTimer>>

Lanes == {"metadata", "content"}

(* granted: acquire() resolved 'admitted' but the caller has not resumed.  *)
Points == {"idle", "waiting", "granted", "running", "refused", "ended"}

Unarmed == -1

Running == {c \in Calls : pc[c] = "running"}
Holders == {c \in Calls : pc[c] \in {"granted", "running"}}
Waiters == Len(waiting["metadata"]) + Len(waiting["content"])

(* The running set reaches the capacity only through calls that all hold   *)
(* a permit, so "running.size >= capacity" is the first conjunct.          *)
EveryPermitStuck ==
    /\ Cardinality(Running) >= Capacity
    /\ \A c \in Running : age[c] >= StuckAfter

(* watchQueue(), given the timer, the metadata queue and the running calls *)
(* it finds: arm for the moment the youngest call has run StuckAfter.      *)
WatchQueue(timer, metadata, run, ages) ==
    IF timer # Unarmed \/ metadata = <<>> \/ Cardinality(run) < Capacity
    THEN stuckTimer' = timer
    ELSE \E youngest \in run :
            /\ \A c \in run : ages[youngest] <= ages[c]
            /\ stuckTimer' = StuckAfter - ages[youngest]

Init ==
    /\ free = Capacity
    /\ waiting = [l \in Lanes |-> <<>>]
    /\ pc = [c \in Calls |-> "idle"]
    /\ lane = [c \in Calls |-> "metadata"]
    /\ aborted = [c \in Calls |-> FALSE]
    /\ age = [c \in Calls |-> 0]
    /\ stuckTimer = Unarmed

-----------------------------------------------------------------------------
(* acquire(): the outcomes in the order the code tries them.  A call that  *)
(* ends may be followed by the next one of the same or of a new request.   *)

Asks(c) == pc[c] \in {"idle", "refused", "ended"}

AcquireEnded(c) ==
    /\ Asks(c)
    /\ pc' = [pc EXCEPT ![c] = "ended"]
    /\ UNCHANGED <<free, waiting, lane, aborted, age, stuckTimer>>

AcquireFree(c, l) ==
    /\ Asks(c)
    /\ free > 0
    /\ free' = free - 1
    /\ pc' = [pc EXCEPT ![c] = "granted"]
    /\ lane' = [lane EXCEPT ![c] = l]
    /\ UNCHANGED <<waiting, aborted, age, stuckTimer>>

AcquireRefused(c) ==
    /\ Asks(c)
    /\ free = 0
    /\ EveryPermitStuck \/ Waiters >= MaxQueued
    /\ pc' = [pc EXCEPT ![c] = "refused"]
    /\ UNCHANGED <<free, waiting, lane, aborted, age, stuckTimer>>

AcquireQueued(c, l) ==
    /\ Asks(c)
    /\ free = 0
    /\ ~EveryPermitStuck
    /\ Waiters < MaxQueued
    /\ waiting' = [waiting EXCEPT ![l] = Append(@, c)]
    /\ pc' = [pc EXCEPT ![c] = "waiting"]
    /\ lane' = [lane EXCEPT ![c] = l]
    /\ WatchQueue(stuckTimer, waiting'["metadata"], Running, age)
    /\ UNCHANGED <<free, aborted, age>>

-----------------------------------------------------------------------------
(* release(): the permit of call c, which leaves to point p, goes to the   *)
(* oldest metadata waiter, else the oldest content waiter, else back.      *)

HandTo(l, c, p) ==
    /\ waiting[l] # <<>>
    /\ waiting' = [waiting EXCEPT ![l] = Tail(@)]
    /\ pc' = [pc EXCEPT ![c] = p, ![Head(waiting[l])] = "granted"]
    /\ UNCHANGED free

PutBack(c, p) ==
    /\ \A l \in Lanes : waiting[l] = <<>>
    /\ free' = free + 1
    /\ pc' = [pc EXCEPT ![c] = p]
    /\ UNCHANGED waiting

(* Mistakes release() could make: the permit goes to the pool past the     *)
(* waiters, or the content lane is served first.                           *)
ReleaseToPool(c, p) ==
    /\ free' = free + 1
    /\ pc' = [pc EXCEPT ![c] = p]
    /\ UNCHANGED waiting

ReleaseContentFirst(c, p) ==
    \/ HandTo("content", c, p)
    \/ waiting["content"] = <<>> /\ HandTo("metadata", c, p)
    \/ PutBack(c, p)

Release(c, p) ==
    \/ HandTo("metadata", c, p)
    \/ waiting["metadata"] = <<>> /\ HandTo("content", c, p)
    \/ PutBack(c, p)

(* The call is over; its name may stand for a later one.                   *)
Forget(c) ==
    /\ lane' = [lane EXCEPT ![c] = "metadata"]
    /\ aborted' = [aborted EXCEPT ![c] = FALSE]

(* A run() that leaves the timer to acquire().                             *)
RunUnwatched(c) ==
    /\ pc[c] = "granted"
    /\ ~aborted[c]
    /\ pc' = [pc EXCEPT ![c] = "running"]
    /\ age' = [age EXCEPT ![c] = 0]
    /\ UNCHANGED <<free, waiting, lane, aborted, stuckTimer>>

(* run(): the call starts under the permit it holds.                       *)
Run(c) ==
    /\ pc[c] = "granted"
    /\ ~aborted[c]
    /\ pc' = [pc EXCEPT ![c] = "running"]
    /\ age' = [age EXCEPT ![c] = 0]
    /\ WatchQueue(stuckTimer, waiting["metadata"], Running \cup {c}, age')
    /\ UNCHANGED <<free, waiting, lane, aborted>>

(* The fs call resolves or rejects: run()'s finally.                       *)
Settle(c) ==
    /\ pc[c] = "running"
    /\ Release(c, "idle")
    /\ age' = [age EXCEPT ![c] = 0]
    /\ Forget(c)
    /\ UNCHANGED stuckTimer

(* gateway admit(): the request ended between the grant and the resumption *)
(* of its caller.                                                          *)
ReturnUnused(c) ==
    /\ pc[c] = "granted"
    /\ aborted[c]
    /\ Release(c, "ended")
    /\ Forget(c)
    /\ UNCHANGED <<age, stuckTimer>>

(* gateway readShared(): another caller started the same read while this   *)
(* one waited.  That read still runs, or it has just returned its permit   *)
(* (to this call perhaps) and leaves the map of reads some microtasks      *)
(* later.  Which calls read the same file is left open.                    *)
ShareRead(c) ==
    /\ pc[c] = "granted"
    /\ ~aborted[c]
    /\ lane[c] = "content"
    /\ Release(c, "idle")
    /\ Forget(c)
    /\ UNCHANGED <<age, stuckTimer>>

-----------------------------------------------------------------------------
(* The request's signal aborts: its deadline passed or its caller left.    *)

(* queue.splice(queue.indexOf(waiter), 1).  indexOf is -1 for a waiter     *)
(* that is not queued, and splice(-1, 1) drops the last one.               *)
Splice(q, c) ==
    IF Contains(q, c) THEN RemoveAt(q, CHOOSE i \in 1..Len(q) : q[i] = c)
    ELSE SubSeq(q, 1, Len(q) - 1)

(* An answer() that leaves its abort listener in place.                    *)
LeaveAfterAnswer(c) ==
    /\ pc[c] \in {"waiting", "granted"}
    /\ ~aborted[c]
    /\ Forget(c)
    /\ waiting' = [waiting EXCEPT ![lane[c]] = Splice(@, c)]
    /\ pc' = [pc EXCEPT ![c] = "ended"]
    /\ UNCHANGED <<free, age, stuckTimer>>

Leave(c) ==
    /\ pc[c] = "waiting"
    /\ ~aborted[c]
    /\ Forget(c)
    /\ waiting' = [waiting EXCEPT ![lane[c]] = Splice(@, c)]
    /\ pc' = [pc EXCEPT ![c] = "ended"]
    /\ UNCHANGED <<free, age, stuckTimer>>

(* A deadline that takes the running call's permit along.                  *)
AbortFreesPermit(c) ==
    /\ pc[c] \in {"granted", "running"}
    /\ ~aborted[c]
    /\ aborted' = [aborted EXCEPT ![c] = TRUE]
    /\ free' = free + 1
    /\ UNCHANGED <<waiting, pc, lane, age, stuckTimer>>

(* answer() removed the abort listener, and a running call keeps its       *)
(* permit: only the caller gives up.                                       *)
AbortLate(c) ==
    /\ pc[c] \in {"granted", "running"}
    /\ ~aborted[c]
    /\ aborted' = [aborted EXCEPT ![c] = TRUE]
    /\ UNCHANGED <<free, waiting, pc, lane, age, stuckTimer>>

-----------------------------------------------------------------------------
(* stuckTimer fires: refuseQueuedIfStuck().                                *)

RefuseQueued ==
    /\ stuckTimer = 0
    /\ waiting["metadata"] # <<>>
    /\ EveryPermitStuck
    /\ stuckTimer' = Unarmed
    /\ pc' = [c \in Calls |->
                IF Contains(waiting["metadata"], c) THEN "refused" ELSE pc[c]]
    /\ waiting' = [waiting EXCEPT !["metadata"] = <<>>]
    /\ UNCHANGED <<free, lane, aborted, age>>

(* A timer that gives up when the permits are not all stuck yet.           *)
TimerGivesUp ==
    /\ stuckTimer = 0
    /\ waiting["metadata"] = <<>> \/ ~EveryPermitStuck
    /\ stuckTimer' = Unarmed
    /\ UNCHANGED <<free, waiting, pc, lane, aborted, age>>

RearmTimer ==
    /\ stuckTimer = 0
    /\ waiting["metadata"] = <<>> \/ ~EveryPermitStuck
    /\ WatchQueue(Unarmed, waiting["metadata"], Running, age)
    /\ UNCHANGED <<free, waiting, pc, lane, aborted, age>>

Older(c) == IF age[c] < StuckAfter THEN age[c] + 1 ELSE age[c]

Tick ==
    /\ age' = [c \in Calls |-> IF pc[c] = "running" THEN Older(c) ELSE age[c]]
    /\ stuckTimer' = IF stuckTimer > 0 THEN stuckTimer - 1 ELSE stuckTimer
    /\ UNCHANGED <<free, waiting, pc, lane, aborted>>

-----------------------------------------------------------------------------

Acquire(c, l) ==
    \/ AcquireEnded(c)
    \/ AcquireFree(c, l)
    \/ AcquireRefused(c)
    \/ AcquireQueued(c, l)

Next ==
    \/ \E c \in Calls, l \in Lanes : Acquire(c, l)
    \/ \E c \in Calls :
        \/ Run(c)
        \/ Settle(c)
        \/ ReturnUnused(c)
        \/ ShareRead(c)
        \/ Leave(c)
        \/ AbortLate(c)
    \/ RefuseQueued
    \/ RearmTimer
    \/ Tick

Spec == Init /\ [][Next]_vars

(* The event loop runs: time passes, an armed timer fires and a caller     *)
(* whose promise resolved resumes.  Nothing makes a call settle.           *)
Fairness ==
    /\ WF_vars(Tick)
    /\ WF_vars(RefuseQueued \/ RearmTimer)
    /\ \A c \in Calls : WF_vars(Run(c) \/ ReturnUnused(c) \/ ShareRead(c))

FairSpec == Spec /\ Fairness

-----------------------------------------------------------------------------
(* Every variable has its type.                                            *)
TypeOK ==
    /\ free \in 0..Capacity
    /\ waiting \in [Lanes -> Seq(Calls)]
    /\ pc \in [Calls -> Points]
    /\ lane \in [Calls -> Lanes]
    /\ aborted \in [Calls -> BOOLEAN]
    /\ age \in [Calls -> 0..StuckAfter]
    /\ stuckTimer \in {Unarmed} \cup 0..StuckAfter

(* No permit is lost or minted, whichever of grant, abort, settlement and  *)
(* hand-over comes first: the free permits and the calls that hold one     *)
(* always make up the capacity (admission.ts, "At most capacity permits    *)
(* are out").                                                              *)
PermitsConserved == free + Cardinality(Holders) = Capacity

(* "While a permit is free, nobody waits": release() hands a permit on     *)
(* before it counts it as free.                                            *)
NobodyWaitsWhileFree == free > 0 => \A l \in Lanes : waiting[l] = <<>>

(* A queue holds exactly the calls that wait in its lane, each once: an    *)
(* abort takes its own waiter out and nobody else's, and a waiter that got *)
(* an answer is gone (leave(), answer()).                                  *)
QueuesHoldTheWaiting ==
    \A l \in Lanes :
        /\ IsInjective(waiting[l])
        /\ \A c \in Calls :
              Contains(waiting[l], c) <=> pc[c] = "waiting" /\ lane[c] = l

(* Once the last permit's call runs while metadata calls wait, the timer   *)
(* that will refuse them is armed: watchQueue() is called by acquire() and *)
(* by run(), whichever of the two comes last.                              *)
StuckWatched ==
    /\ waiting["metadata"] # <<>>
    /\ Cardinality(Running) = Capacity
    => stuckTimer # Unarmed

Granted(c) == pc[c] = "waiting" /\ pc'[c] = "granted"

(* A returned permit goes to the oldest metadata waiter, else the oldest   *)
(* content waiter: no content call is granted past a metadata waiter, and  *)
(* within a lane grants follow the order of arrival.                       *)
GrantsInOrder ==
    [][\A c \in Calls : Granted(c) =>
          /\ c = Head(waiting[lane[c]])
          /\ lane[c] = "content" => waiting["metadata"] = <<>>]_vars

(* The pool of permits the gateway is promised.                            *)
Pool == INSTANCE PermitPool WITH holders <- Holders
ImplementsPool == Pool!Spec

(* A queued metadata call gets an answer although no fs call ever settles  *)
(* and its own deadline never comes: a permit, or the refusal that keeps a *)
(* listing from sitting out its budget.                                    *)
MetadataAnswered ==
    \A c \in Calls :
        pc[c] = "waiting" /\ lane[c] = "metadata" ~> pc[c] # "waiting"
=============================================================================
