--------------------------- MODULE HandoverProofs ---------------------------
(***************************************************************************)
(* What is handed from one user to the next: the permits of the storage    *)
(* admission, for every set of calls, every capacity and every queue bound,*)
(* and the sockets of live cloud transcription, for every set of captures  *)
(* and of tracks, both kinds of client and any number of frames.           *)
(***************************************************************************)
EXTENDS StorageAdmission, CloudStt, QueueLemmas, FiniteSetTheorems

-----------------------------------------------------------------------------
(*                         The storage admission                           *)
-----------------------------------------------------------------------------
(* splice(indexOf(c), 1) removes a queued waiter and nobody else.          *)
LEMMA SpliceOutOfQueue ==
    ASSUME NEW q \in Seq(Calls), NEW c \in Calls,
           IsInjective(q), Contains(q, c)
    PROVE  /\ Splice(q, c) \in Seq(Calls)
           /\ IsInjective(Splice(q, c))
           /\ \A d \in Calls : Contains(Splice(q, c), d) <=> Contains(q, d) /\ d # c
  <1> DEFINE k == CHOOSE i \in 1..Len(q) : q[i] = c
  <1>1. k \in 1..Len(q) /\ q[k] = c
    BY DEF Contains
  <1>2. Splice(q, c) = RemoveAt(q, k)
    BY DEF Splice
  <1> HIDE DEF k
  <1>3. QED BY <1>1, <1>2, RemoveFromQueue
-----------------------------------------------------------------------------
(* The inductive invariant.  PermitsConserved needs the queues to hold     *)
(* waiting calls only (else a hand-over could grant a call twice), the     *)
(* queues need their types, and NobodyWaitsWhileFree is what makes         *)
(* AcquireFree keep the order of arrival.                                  *)

IInv ==
    /\ TypeOK
    /\ PermitsConserved
    /\ NobodyWaitsWhileFree
    /\ QueuesHoldTheWaiting

(* The holders are a finite set of calls, and conservation bounds it.      *)
LEMMA HoldersFinite ==
    ASSUME IInv
    PROVE  /\ IsFiniteSet(Holders)
           /\ Cardinality(Holders) \in Nat
           /\ free \in Nat
           /\ Capacity \in Nat
           /\ free + Cardinality(Holders) = Capacity
  <1>1. IsFiniteSet(Holders) /\ Cardinality(Holders) \in Nat
    BY CallsFinite, FS_Subset, FS_CardinalityType DEF Holders
  <1>2. QED BY <1>1, CapacityPositive, SMT DEF IInv, TypeOK, PermitsConserved

(* A returned permit either stays a held one, with its new holder, or      *)
(* becomes a free one; in both cases the invariant's parts about permits   *)
(* and queues survive.                                                     *)
LEMMA ReleasePreserves ==
    ASSUME IInv, NEW c \in Holders, NEW p \in {"idle", "ended"},
           Release(c, p), \A d \in Calls \ {c} : lane'[d] = lane[d]
    PROVE  /\ free' \in 0..Capacity
           /\ waiting' \in [Lanes -> Seq(Calls)]
           /\ pc' \in [Calls -> Points]
           /\ PermitsConserved'
           /\ NobodyWaitsWhileFree'
           /\ QueuesHoldTheWaiting'
  <1> USE DEF IInv, TypeOK
  <1>1. /\ IsFiniteSet(Holders)
        /\ Cardinality(Holders) \in Nat
        /\ free \in Nat
        /\ Capacity \in Nat
        /\ free + Cardinality(Holders) = Capacity
    BY HoldersFinite
  <1>2. c \in Calls /\ pc[c] # "waiting" /\ p \in Points
    BY DEF Holders, Points
  <1>3. /\ IsFiniteSet(Holders \ {c})
        /\ Cardinality(Holders \ {c}) = Cardinality(Holders) - 1
    BY <1>1, FS_RemoveElement
  <1>4. ASSUME NEW l \in Lanes, HandTo(l, c, p)
        PROVE  /\ free' \in 0..Capacity
               /\ waiting' \in [Lanes -> Seq(Calls)]
               /\ pc' \in [Calls -> Points]
               /\ PermitsConserved'
               /\ NobodyWaitsWhileFree'
               /\ QueuesHoldTheWaiting'
    <2> DEFINE h == Head(waiting[l])
    <2>1. waiting[l] \in Seq(Calls) /\ waiting[l] # <<>> /\ IsInjective(waiting[l])
      BY <1>4 DEF HandTo, QueuesHoldTheWaiting
    <2>2. /\ h \in Calls
          /\ Tail(waiting[l]) \in Seq(Calls)
          /\ IsInjective(Tail(waiting[l]))
          /\ \A d \in Calls :
                Contains(Tail(waiting[l]), d) <=> Contains(waiting[l], d) /\ d # h
          /\ Contains(waiting[l], h)
      BY <2>1, TailOfQueue
    <2>3. pc[h] = "waiting" /\ lane[h] = l
      BY <2>2 DEF QueuesHoldTheWaiting
    <2>4. h # c /\ h \notin Holders
      BY <2>3, <1>2 DEF Holders
    <2> HIDE DEF h
    <2>5. /\ pc' = [pc EXCEPT ![c] = p, ![h] = "granted"]
          /\ waiting' = [waiting EXCEPT ![l] = Tail(waiting[l])]
          /\ free' = free
      BY <1>4 DEF HandTo, h
    <2>6. pc' \in [Calls -> Points] /\ waiting' \in [Lanes -> Seq(Calls)]
      BY <2>2, <2>5, <1>2 DEF Points
    <2>7. /\ pc'[c] = p
          /\ pc'[h] = "granted"
          /\ \A d \in Calls \ {c, h} : pc'[d] = pc[d]
      BY <2>2, <2>4, <2>5, <1>2
    <2>8. Holders' = (Holders \ {c}) \cup {h}
      BY <2>2, <2>4, <2>7 DEF Holders
    <2>9. Cardinality(Holders') = Cardinality(Holders)
      <3>1. h \notin Holders \ {c}
        BY <2>4
      <3>2. Cardinality((Holders \ {c}) \cup {h}) = Cardinality(Holders \ {c}) + 1
        BY <3>1, <1>3, FS_AddElement
      <3>3. QED BY <3>2, <2>8, <1>1, <1>3, SMT
    <2>10. PermitsConserved'
      BY <2>5, <2>9 DEF PermitsConserved
    <2>11. NobodyWaitsWhileFree'
      <3>1. free = 0
        BY <2>1, <1>1, SMT DEF NobodyWaitsWhileFree
      <3>2. QED BY <3>1, <2>5, SMT DEF NobodyWaitsWhileFree
    <2>12. QueuesHoldTheWaiting'
      <3> SUFFICES ASSUME NEW m \in Lanes
                   PROVE  /\ IsInjective(waiting'[m])
                          /\ \A d \in Calls : Contains(waiting'[m], d)
                                               <=> pc'[d] = "waiting" /\ lane'[d] = m
        BY DEF QueuesHoldTheWaiting
      <3>1. CASE m = l
        <4>1. waiting'[m] = Tail(waiting[l])
          BY <3>1, <2>5
        <4>2. ASSUME NEW d \in Calls
              PROVE  Contains(Tail(waiting[l]), d) <=> pc'[d] = "waiting" /\ lane'[d] = l
          <5>1. Contains(waiting[l], d) <=> pc[d] = "waiting" /\ lane[d] = l
            BY DEF QueuesHoldTheWaiting
          <5>2. Contains(Tail(waiting[l]), d) <=> Contains(waiting[l], d) /\ d # h
            BY <2>2
          <5>3. pc'[d] = "waiting" <=> pc[d] = "waiting" /\ d # h
            BY <2>7, <1>2
          <5>4. pc'[d] = "waiting" => lane'[d] = lane[d]
            BY <2>7, <1>2
          <5>5. QED BY <5>1, <5>2, <5>3, <5>4
        <4>3. QED BY <4>1, <4>2, <3>1, <2>2
      <3>2. CASE m # l
        <4>1. waiting'[m] = waiting[m]
          BY <3>2, <2>5
        <4>2. ASSUME NEW d \in Calls
              PROVE  Contains(waiting[m], d) <=> pc'[d] = "waiting" /\ lane'[d] = m
          <5>1. Contains(waiting[m], d) <=> pc[d] = "waiting" /\ lane[d] = m
            BY DEF QueuesHoldTheWaiting
          <5>2. pc'[d] = "waiting" <=> pc[d] = "waiting" /\ d # h
            BY <2>7, <1>2
          <5>3. pc'[d] = "waiting" => lane'[d] = lane[d]
            BY <2>7, <1>2
          <5>4. QED BY <5>1, <5>2, <5>3, <2>3, <3>2
        <4>3. QED BY <4>1, <4>2 DEF QueuesHoldTheWaiting
      <3>3. QED BY <3>1, <3>2
    <2>13. QED BY <2>5, <2>6, <2>10, <2>11, <2>12
  <1>5. CASE PutBack(c, p)
    <2>1. /\ \A l \in Lanes : waiting[l] = <<>>
          /\ free' = free + 1
          /\ pc' = [pc EXCEPT ![c] = p]
          /\ waiting' = waiting
      BY <1>5 DEF PutBack
    <2>2. pc' \in [Calls -> Points]
      BY <2>1, <1>2
    <2>3. pc'[c] = p /\ \A d \in Calls \ {c} : pc'[d] = pc[d]
      BY <2>1, <1>2
    <2>4. Holders' = Holders \ {c}
      BY <2>3, <1>2 DEF Holders
    <2>5. PermitsConserved' /\ free' \in 0..Capacity
      BY <2>1, <2>4, <1>1, <1>3, FS_CardinalityType, SMT DEF PermitsConserved
    <2>6. NobodyWaitsWhileFree'
      BY <2>1 DEF NobodyWaitsWhileFree
    <2>7. QueuesHoldTheWaiting'
      <3>1. \A d \in Calls : pc'[d] = "waiting" <=> pc[d] = "waiting"
        BY <2>3, <1>2
      <3>2. QED BY <3>1, <2>1 DEF QueuesHoldTheWaiting
    <2>8. QED BY <2>1, <2>2, <2>5, <2>6, <2>7
  <1>6. QED BY <1>4, <1>5 DEF Release, Lanes
(* A call that takes a free permit.                                        *)
LEMMA GrantPreserves ==
    ASSUME IInv, NEW c \in Calls, NEW l \in Lanes, AcquireFree(c, l)
    PROVE  IInv'
  <1> USE DEF IInv
  <1>1. /\ IsFiniteSet(Holders)
        /\ Cardinality(Holders) \in Nat
        /\ free \in Nat
        /\ Capacity \in Nat
        /\ free + Cardinality(Holders) = Capacity
    BY HoldersFinite
  <1>2. /\ free > 0
        /\ free' = free - 1
        /\ pc[c] \in {"idle", "refused", "ended"}
        /\ pc' = [pc EXCEPT ![c] = "granted"]
        /\ lane' = [lane EXCEPT ![c] = l]
        /\ UNCHANGED <<waiting, aborted, age, stuckTimer>>
    BY DEF AcquireFree, Asks
  <1>3. TypeOK'
    BY <1>1, <1>2 DEF TypeOK, Points
  <1>4. PermitsConserved'
    <2>1. c \notin Holders /\ Holders' = Holders \cup {c}
      BY <1>2 DEF Holders, TypeOK
    <2>2. Cardinality(Holders') = Cardinality(Holders) + 1
      BY <2>1, <1>1, FS_AddElement
    <2>3. QED BY <2>2, <1>1, <1>2, SMT DEF PermitsConserved
  <1>5. \A m \in Lanes : waiting[m] = <<>>
    BY <1>2 DEF NobodyWaitsWhileFree
  <1>6. NobodyWaitsWhileFree'
    BY <1>2, <1>5 DEF NobodyWaitsWhileFree
  <1>7. QueuesHoldTheWaiting'
    <2>1. ASSUME NEW d \in Calls
          PROVE  ~(pc'[d] = "waiting")
      <3>1. ~(pc[d] = "waiting")
        BY <1>5 DEF QueuesHoldTheWaiting, Contains, TypeOK
      <3>2. QED BY <3>1, <1>2 DEF TypeOK
    <2>2. \A m \in Lanes, d \in Calls : ~Contains(waiting[m], d)
      BY <1>5 DEF Contains
    <2>3. QED BY <2>1, <2>2, <1>2 DEF QueuesHoldTheWaiting
  <1>8. QED BY <1>3, <1>4, <1>6, <1>7
(* A step that moves no permit and no waiter.                              *)
LEMMA QuietStepPreserves ==
    ASSUME IInv, TypeOK', UNCHANGED <<free, waiting>>, Holders' = Holders,
           \A d \in Calls : pc'[d] = "waiting" <=> pc[d] = "waiting",
           \A d \in Calls : pc[d] = "waiting" => lane'[d] = lane[d]
    PROVE  IInv'
  <1>1. PermitsConserved' /\ NobodyWaitsWhileFree'
    BY DEF IInv, PermitsConserved, NobodyWaitsWhileFree
  <1>2. QueuesHoldTheWaiting'
    <2> SUFFICES ASSUME NEW l \in Lanes, NEW d \in Calls
                 PROVE  Contains(waiting[l], d) <=> pc'[d] = "waiting" /\ lane'[d] = l
      BY DEF IInv, QueuesHoldTheWaiting
    <2>1. Contains(waiting[l], d) <=> pc[d] = "waiting" /\ lane[d] = l
      BY DEF IInv, QueuesHoldTheWaiting
    <2>2. QED BY <2>1
  <1>3. QED BY <1>1, <1>2 DEF IInv

(* watchQueue() arms the timer for a moment within StuckAfter.             *)
LEMMA WatchQueueType ==
    ASSUME NEW timer \in {Unarmed} \cup 0..StuckAfter, NEW metadata,
           NEW run \in SUBSET Calls, NEW ages \in [Calls -> 0..StuckAfter],
           WatchQueue(timer, metadata, run, ages)
    PROVE  stuckTimer' \in {Unarmed} \cup 0..StuckAfter
  <1>1. CASE stuckTimer' = timer
    BY <1>1
  <1>2. ASSUME NEW y \in run, stuckTimer' = StuckAfter - ages[y]
        PROVE  stuckTimer' \in 0..StuckAfter
    BY <1>2, StuckAfterPositive, SMT
  <1>3. QED BY <1>1, <1>2 DEF WatchQueue

(* A call that joins a queue.                                              *)
LEMMA QueuedPreserves ==
    ASSUME IInv, NEW c \in Calls, NEW l \in Lanes, AcquireQueued(c, l)
    PROVE  IInv'
  <1> USE DEF IInv
  <1>1. /\ free = 0
        /\ pc[c] \in {"idle", "refused", "ended"}
        /\ waiting' = [waiting EXCEPT ![l] = Append(waiting[l], c)]
        /\ pc' = [pc EXCEPT ![c] = "waiting"]
        /\ lane' = [lane EXCEPT ![c] = l]
        /\ UNCHANGED <<free, aborted, age>>
    BY DEF AcquireQueued, Asks
  <1>2. waiting[l] \in Seq(Calls) /\ IsInjective(waiting[l]) /\ ~Contains(waiting[l], c)
    BY <1>1 DEF TypeOK, QueuesHoldTheWaiting
  <1>3. /\ Append(waiting[l], c) \in Seq(Calls)
        /\ IsInjective(Append(waiting[l], c))
        /\ \A d \in Calls :
              Contains(Append(waiting[l], c), d) <=> Contains(waiting[l], d) \/ d = c
    BY <1>2, AppendToQueue
  <1>4. stuckTimer' \in {Unarmed} \cup 0..StuckAfter
    <2>1. WatchQueue(stuckTimer, waiting'["metadata"], Running, age)
      BY DEF AcquireQueued
    <2>2. QED BY <2>1, WatchQueueType DEF TypeOK, Running
  <1>5. TypeOK'
    BY <1>1, <1>3, <1>4 DEF TypeOK, Points
  <1>6. /\ pc'[c] = "waiting" /\ lane'[c] = l
        /\ \A d \in Calls \ {c} : pc'[d] = pc[d] /\ lane'[d] = lane[d]
    BY <1>1 DEF TypeOK
  <1>7. Holders' = Holders
    BY <1>1, <1>6 DEF Holders
  <1>8. PermitsConserved' /\ NobodyWaitsWhileFree'
    BY <1>1, <1>7 DEF PermitsConserved, NobodyWaitsWhileFree
  <1>9. QueuesHoldTheWaiting'
    <2> SUFFICES ASSUME NEW m \in Lanes
                 PROVE  /\ IsInjective(waiting'[m])
                        /\ \A d \in Calls : Contains(waiting'[m], d)
                                             <=> pc'[d] = "waiting" /\ lane'[d] = m
      BY DEF QueuesHoldTheWaiting
    <2>1. \A d \in Calls : Contains(waiting[m], d) <=> pc[d] = "waiting" /\ lane[d] = m
      BY DEF QueuesHoldTheWaiting
    <2>2. CASE m = l
      <3>1. waiting'[m] = Append(waiting[l], c)
        BY <2>2, <1>1 DEF TypeOK
      <3>2. ASSUME NEW d \in Calls
            PROVE  Contains(waiting'[m], d) <=> pc'[d] = "waiting" /\ lane'[d] = m
        BY <3>1, <2>1, <2>2, <1>3, <1>6, <1>1
      <3>3. QED BY <3>1, <3>2, <1>3
    <2>3. CASE m # l
      <3>1. waiting'[m] = waiting[m]
        BY <2>3, <1>1 DEF TypeOK
      <3>2. ASSUME NEW d \in Calls
            PROVE  Contains(waiting[m], d) <=> pc'[d] = "waiting" /\ lane'[d] = m
        BY <2>1, <2>3, <1>6, <1>1
      <3>3. QED BY <3>1, <3>2 DEF QueuesHoldTheWaiting
    <2>4. QED BY <2>2, <2>3
  <1>10. QED BY <1>5, <1>8, <1>9

(* A waiter whose request ends.                                            *)
LEMMA LeavePreserves ==
    ASSUME IInv, NEW c \in Calls, Leave(c)
    PROVE  IInv'
  <1> USE DEF IInv
  <1> DEFINE l == lane[c]
  <1>1. /\ pc[c] = "waiting"
        /\ waiting' = [waiting EXCEPT ![l] = Splice(waiting[l], c)]
        /\ pc' = [pc EXCEPT ![c] = "ended"]
        /\ lane' = [lane EXCEPT ![c] = "metadata"]
        /\ aborted' = [aborted EXCEPT ![c] = FALSE]
        /\ UNCHANGED <<free, age, stuckTimer>>
    BY DEF Leave, Forget
  <1>2. /\ l \in Lanes
        /\ waiting[l] \in Seq(Calls)
        /\ IsInjective(waiting[l])
        /\ Contains(waiting[l], c)
    BY <1>1 DEF TypeOK, QueuesHoldTheWaiting
  <1> HIDE DEF l
  <1>3. /\ Splice(waiting[l], c) \in Seq(Calls)
        /\ IsInjective(Splice(waiting[l], c))
        /\ \A d \in Calls :
              Contains(Splice(waiting[l], c), d) <=> Contains(waiting[l], d) /\ d # c
    BY <1>2, SpliceOutOfQueue
  <1>4. TypeOK'
    BY <1>1, <1>2, <1>3 DEF TypeOK, Points, Lanes
  <1>5. pc'[c] = "ended" /\ \A d \in Calls \ {c} : pc'[d] = pc[d] /\ lane'[d] = lane[d]
    BY <1>1 DEF TypeOK
  <1>6. Holders' = Holders
    BY <1>1, <1>5 DEF Holders
  <1>7. PermitsConserved'
    BY <1>1, <1>6 DEF PermitsConserved
  <1>8. NobodyWaitsWhileFree'
    <2>1. waiting[l] # <<>>
      BY <1>2 DEF Contains
    <2>2. free = 0
      BY <2>1, <1>2, HoldersFinite, SMT DEF NobodyWaitsWhileFree
    <2>3. QED BY <2>2, <1>1, SMT DEF NobodyWaitsWhileFree
  <1>9. QueuesHoldTheWaiting'
    <2> SUFFICES ASSUME NEW m \in Lanes
                 PROVE  /\ IsInjective(waiting'[m])
                        /\ \A d \in Calls : Contains(waiting'[m], d)
                                             <=> pc'[d] = "waiting" /\ lane'[d] = m
      BY <1>1 DEF QueuesHoldTheWaiting
    <2>1. \A d \in Calls : Contains(waiting[m], d) <=> pc[d] = "waiting" /\ lane[d] = m
      BY DEF QueuesHoldTheWaiting
    <2>2. CASE m = l
      <3>1. waiting'[m] = Splice(waiting[l], c)
        BY <2>2, <1>1 DEF TypeOK
      <3>2. ASSUME NEW d \in Calls
            PROVE  Contains(waiting'[m], d) <=> pc'[d] = "waiting" /\ lane'[d] = m
        BY <3>1, <2>1, <2>2, <1>3, <1>5
      <3>3. QED BY <3>1, <3>2, <1>3
    <2>3. CASE m # l
      <3>1. waiting'[m] = waiting[m]
        BY <2>3, <1>1 DEF TypeOK
      <3>2. ASSUME NEW d \in Calls
            PROVE  Contains(waiting[m], d) <=> pc'[d] = "waiting" /\ lane'[d] = m
        BY <2>1, <2>3, <1>5 DEF l
      <3>3. QED BY <3>1, <3>2 DEF QueuesHoldTheWaiting
    <2>4. QED BY <2>2, <2>3
  <1>10. QED BY <1>4, <1>7, <1>8, <1>9
(* The timer refuses every metadata waiter.                                *)
LEMMA RefusalPreserves ==
    ASSUME IInv, RefuseQueued
    PROVE  IInv'
  <1> USE DEF IInv
  <1>1. /\ waiting["metadata"] # <<>>
        /\ stuckTimer' = Unarmed
        /\ pc' = [c \in Calls |->
                    IF Contains(waiting["metadata"], c) THEN "refused" ELSE pc[c]]
        /\ waiting' = [waiting EXCEPT !["metadata"] = <<>>]
        /\ UNCHANGED <<free, lane, aborted, age>>
    BY DEF RefuseQueued
  <1>2. TypeOK'
    BY <1>1 DEF TypeOK, Points, Lanes
  <1>3. \A l \in Lanes, d \in Calls :
            Contains(waiting[l], d) <=> pc[d] = "waiting" /\ lane[d] = l
    BY DEF QueuesHoldTheWaiting
  <1>4. Holders' = Holders
    BY <1>1, <1>3 DEF Holders, Lanes
  <1>5. free = 0
    BY <1>1, HoldersFinite, SMT DEF NobodyWaitsWhileFree, Lanes
  <1>6. PermitsConserved' /\ NobodyWaitsWhileFree'
    BY <1>1, <1>4, <1>5 DEF PermitsConserved, NobodyWaitsWhileFree
  <1>7. QueuesHoldTheWaiting'
    <2> SUFFICES ASSUME NEW l \in Lanes
                 PROVE  /\ IsInjective(waiting'[l])
                        /\ \A d \in Calls : Contains(waiting'[l], d)
                                             <=> pc'[d] = "waiting" /\ lane[d] = l
      BY <1>1 DEF QueuesHoldTheWaiting
    <2>1. \A d \in Calls : pc'[d] = "waiting"
                           <=> pc[d] = "waiting" /\ lane[d] # "metadata"
      BY <1>1, <1>3 DEF Lanes
    <2>2. CASE l = "metadata"
      <3>1. waiting'[l] = <<>>
        BY <2>2, <1>1 DEF TypeOK
      <3>2. IsInjective(waiting'[l]) /\ \A d \in Calls : ~Contains(waiting'[l], d)
        BY <3>1 DEF IsInjective, Contains
      <3>3. QED BY <3>2, <2>1, <2>2
    <2>3. CASE l # "metadata"
      <3>1. waiting'[l] = waiting[l]
        BY <2>3, <1>1 DEF TypeOK
      <3>2. \A d \in Calls :
                Contains(waiting[l], d) <=> pc'[d] = "waiting" /\ lane[d] = l
        BY <1>3, <2>1, <2>3
      <3>3. QED BY <3>1, <3>2 DEF QueuesHoldTheWaiting
    <2>4. QED BY <2>2, <2>3
  <1>8. QED BY <1>2, <1>6, <1>7

(* A call that is over.                                                    *)
LEMMA ForgottenType ==
    ASSUME TypeOK, NEW c \in Calls, Forget(c)
    PROVE  /\ lane' \in [Calls -> Lanes] /\ aborted' \in [Calls -> BOOLEAN]
           /\ \A d \in Calls \ {c} : lane'[d] = lane[d]
  BY DEF TypeOK, Forget, Lanes

LEMMA InitEstablishes == Init => IInv
  <1> SUFFICES ASSUME Init PROVE IInv
    OBVIOUS
  <1>1. Holders = {}
    BY DEF Init, Holders
  <1>2. TypeOK
    BY CapacityPositive, StuckAfterPositive
    DEF Init, TypeOK, Points, Lanes, Unarmed
  <1>3. PermitsConserved
    BY <1>1, FS_EmptySet, CapacityPositive DEF Init, PermitsConserved
  <1>4. NobodyWaitsWhileFree /\ QueuesHoldTheWaiting
    BY DEF Init, NobodyWaitsWhileFree, QueuesHoldTheWaiting, IsInjective, Contains
  <1>5. QED BY <1>2, <1>3, <1>4 DEF IInv

LEMMA StepPreserves == IInv /\ [Next]_vars => IInv'
  <1> SUFFICES ASSUME IInv, [Next]_vars PROVE IInv'
    OBVIOUS
  <1> USE DEF IInv
  <1>1. ASSUME NEW c \in Calls, AcquireEnded(c)
        PROVE  IInv'
    <2>1. TypeOK'
      BY <1>1 DEF AcquireEnded, Asks, TypeOK, Points
    <2>2. QED
      BY <1>1, <2>1, QuietStepPreserves DEF AcquireEnded, Asks, Holders, TypeOK
  <1>2. ASSUME NEW c \in Calls, AcquireRefused(c)
        PROVE  IInv'
    <2>1. TypeOK'
      BY <1>2 DEF AcquireRefused, Asks, TypeOK, Points
    <2>2. QED
      BY <1>2, <2>1, QuietStepPreserves DEF AcquireRefused, Asks, Holders, TypeOK
  <1>3. ASSUME NEW c \in Calls, Run(c)
        PROVE  IInv'
    <2>1. age' \in [Calls -> 0..StuckAfter]
      BY <1>3, StuckAfterPositive DEF Run, TypeOK
    <2>2. stuckTimer' \in {Unarmed} \cup 0..StuckAfter
      <3>1. WatchQueue(stuckTimer, waiting["metadata"], Running \cup {c}, age')
        BY <1>3 DEF Run
      <3>2. Running \cup {c} \in SUBSET Calls
        BY DEF Running
      <3>3. QED BY <3>1, <3>2, <2>1, WatchQueueType DEF TypeOK
    <2>3. TypeOK'
      BY <1>3, <2>1, <2>2 DEF Run, TypeOK, Points
    <2>4. QED
      BY <1>3, <2>3, QuietStepPreserves DEF Run, Holders, TypeOK
  <1>4. ASSUME NEW c \in Calls, Settle(c)
        PROVE  IInv'
    <2>1. c \in Holders /\ Release(c, "idle") /\ Forget(c) /\ UNCHANGED stuckTimer
      BY <1>4 DEF Settle, Holders
    <2>2. age' \in [Calls -> 0..StuckAfter]
      BY <1>4, StuckAfterPositive DEF Settle, TypeOK
    <2>3. QED BY <2>1, <2>2, ForgottenType, ReleasePreserves DEF TypeOK
  <1>5. ASSUME NEW c \in Calls, ReturnUnused(c)
        PROVE  IInv'
    <2>1. c \in Holders /\ Release(c, "ended") /\ Forget(c) /\ UNCHANGED <<age, stuckTimer>>
      BY <1>5 DEF ReturnUnused, Holders
    <2>2. QED BY <2>1, ForgottenType, ReleasePreserves DEF TypeOK
  <1>6. ASSUME NEW c \in Calls, ShareRead(c)
        PROVE  IInv'
    <2>1. c \in Holders /\ Release(c, "idle") /\ Forget(c) /\ UNCHANGED <<age, stuckTimer>>
      BY <1>6 DEF ShareRead, Holders
    <2>2. QED BY <2>1, ForgottenType, ReleasePreserves DEF TypeOK
  <1>7. ASSUME NEW c \in Calls, AbortLate(c)
        PROVE  IInv'
    <2>1. TypeOK'
      BY <1>7 DEF AbortLate, TypeOK
    <2>2. QED
      BY <1>7, <2>1, QuietStepPreserves DEF AbortLate, Holders
  <1>8. CASE RearmTimer
    <2>1. stuckTimer' \in {Unarmed} \cup 0..StuckAfter
      <3>1. WatchQueue(Unarmed, waiting["metadata"], Running, age)
        BY <1>8 DEF RearmTimer
      <3>2. QED BY <3>1, WatchQueueType DEF TypeOK, Running
    <2>2. TypeOK'
      BY <1>8, <2>1 DEF RearmTimer, TypeOK
    <2>3. QED BY <1>8, <2>2, QuietStepPreserves DEF RearmTimer, Holders
  <1>9. CASE Tick
    <2>1. age' \in [Calls -> 0..StuckAfter]
      BY <1>9, StuckAfterPositive, SMT DEF Tick, Older, TypeOK
    <2>2. stuckTimer' \in {Unarmed} \cup 0..StuckAfter
      BY <1>9, StuckAfterPositive, SMT DEF Tick, TypeOK, Unarmed
    <2>3. TypeOK'
      BY <1>9, <2>1, <2>2 DEF Tick, TypeOK
    <2>4. QED BY <1>9, <2>3, QuietStepPreserves DEF Tick, Holders
  <1>10. CASE UNCHANGED vars
    BY <1>10 DEF vars, TypeOK, PermitsConserved, Holders, NobodyWaitsWhileFree,
                 QueuesHoldTheWaiting
  <1>11. QED
    BY <1>1, <1>2, <1>3, <1>4, <1>5, <1>6, <1>7, <1>8, <1>9, <1>10,
       GrantPreserves, QueuedPreserves, LeavePreserves, RefusalPreserves
    DEF Next, Acquire

(* admission.ts loses and mints no permit, and never lets a call wait past *)
(* a free one, for any number of permits and calls.                        *)
THEOREM InvariantHolds == Spec => []IInv
  <1>1. QED BY InitEstablishes, StepPreserves, PTL DEF Spec

(* Every variable keeps its type.                                          *)
THEOREM TypeCorrect == Spec => []TypeOK
  <1>1. IInv => TypeOK
    BY DEF IInv
  <1>2. QED BY <1>1, InvariantHolds, PTL

(* Free permits and permit holders always make up the capacity.            *)
THEOREM PermitsAreConserved == Spec => []PermitsConserved
  <1>1. IInv => PermitsConserved
    BY DEF IInv
  <1>2. QED BY <1>1, InvariantHolds, PTL

(* "While a permit is free, nobody waits."                                 *)
THEOREM NoWaitWhileFree == Spec => []NobodyWaitsWhileFree
  <1>1. IInv => NobodyWaitsWhileFree
    BY DEF IInv
  <1>2. QED BY <1>1, InvariantHolds, PTL

(* The lanes hold exactly the waiting calls, each once.                    *)
THEOREM QueuesAreExact == Spec => []QueuesHoldTheWaiting
  <1>1. IInv => QueuesHoldTheWaiting
    BY DEF IInv
  <1>2. QED BY <1>1, InvariantHolds, PTL
-----------------------------------------------------------------------------
(* The stuck timer.                                                        *)

(* watchQueue() leaves no metadata waiter unwatched behind a full house.   *)
LEMMA WatchQueueArms ==
    ASSUME NEW timer, NEW metadata, NEW run \in SUBSET Calls,
           NEW ages \in [Calls -> 0..StuckAfter],
           WatchQueue(timer, metadata, run, ages),
           metadata # <<>>, Cardinality(run) = Capacity
    PROVE  stuckTimer' # Unarmed
  <1>1. CASE timer # Unarmed
    BY <1>1 DEF WatchQueue
  <1>2. CASE timer = Unarmed
    <2>1. ~(Cardinality(run) < Capacity)
      BY CapacityPositive, SMT
    <2>2. PICK y \in run : stuckTimer' = StuckAfter - ages[y]
      BY <1>2, <2>1 DEF WatchQueue
    <2>3. QED BY <2>2, StuckAfterPositive, SMT DEF Unarmed
  <1>3. QED BY <1>1, <1>2

(* The running calls are holders, so they are at most Capacity.            *)
LEMMA RunningBounded ==
    ASSUME IInv
    PROVE  /\ IsFiniteSet(Running)
           /\ Cardinality(Running) \in Nat
           /\ Cardinality(Running) <= Capacity
  <1>1. Running \subseteq Holders
    BY DEF Running, Holders
  <1>2. /\ IsFiniteSet(Running)
        /\ Cardinality(Running) <= Cardinality(Holders)
    BY <1>1, HoldersFinite, FS_Subset
  <1>3. QED BY <1>2, HoldersFinite, FS_CardinalityType, SMT

LEMMA StepKeepsWatch == IInv /\ StuckWatched /\ [Next]_vars => StuckWatched'
  <1> SUFFICES ASSUME IInv, StuckWatched, [Next]_vars,
                      waiting'["metadata"] # <<>>,
                      Cardinality(Running') = Capacity
               PROVE  stuckTimer' # Unarmed
    BY DEF StuckWatched
  <1> USE DEF IInv
  <1>1. ASSUME waiting["metadata"] # <<>>, Running' = Running,
               stuckTimer' = stuckTimer
        PROVE  stuckTimer' # Unarmed
    BY <1>1 DEF StuckWatched
  <1>2. ASSUME NEW c \in Calls, NEW p \in Points \ {"running"}, Release(c, p)
        PROVE  /\ waiting["metadata"] # <<>>
               /\ Running' = Running \ {c}
    <2>1. ASSUME NEW l \in Lanes, HandTo(l, c, p)
          PROVE  /\ waiting["metadata"] # <<>>
                 /\ Running' = Running \ {c}
      <3> DEFINE h == Head(waiting[l])
      <3>1. waiting[l] \in Seq(Calls) /\ waiting[l] # <<>> /\ IsInjective(waiting[l])
        BY <2>1 DEF HandTo, TypeOK, QueuesHoldTheWaiting
      <3>2. h \in Calls /\ Contains(waiting[l], h)
        BY <3>1, TailOfQueue
      <3>3. pc[h] = "waiting"
        BY <3>2 DEF QueuesHoldTheWaiting
      <3> HIDE DEF h
      <3>4. pc' = [pc EXCEPT ![c] = p, ![h] = "granted"]
        BY <2>1 DEF HandTo, h
      <3>5. Running' = Running \ {c}
        BY <3>2, <3>3, <3>4 DEF Running, TypeOK
      <3>6. waiting["metadata"] # <<>>
        <4>1. CASE l = "metadata"
          BY <4>1, <3>1
        <4>2. CASE l # "metadata"
          BY <4>2, <2>1 DEF HandTo, TypeOK, Lanes
        <4>3. QED BY <4>1, <4>2
      <3>7. QED BY <3>5, <3>6
    <2>2. CASE PutBack(c, p)
      BY <2>2 DEF PutBack, Lanes
    <2>3. QED BY <1>2, <2>1, <2>2 DEF Release, Lanes
  <1>3. ASSUME NEW c \in Calls, NEW l \in Lanes, Acquire(c, l)
        PROVE  stuckTimer' # Unarmed
    <2>1. Running' = Running
      BY <1>3 DEF Acquire, AcquireEnded, AcquireFree, AcquireRefused,
                  AcquireQueued, Asks, Running, TypeOK
    <2>2. CASE AcquireQueued(c, l)
      <3>1. WatchQueue(stuckTimer, waiting'["metadata"], Running, age)
        BY <2>2 DEF AcquireQueued
      <3>2. Cardinality(Running) = Capacity
        BY <2>1
      <3>3. QED BY <3>1, <3>2, WatchQueueArms DEF TypeOK, Running
    <2>3. CASE AcquireEnded(c) \/ AcquireFree(c, l) \/ AcquireRefused(c)
      BY <2>1, <2>3, <1>1 DEF AcquireEnded, AcquireFree, AcquireRefused
    <2>4. QED BY <1>3, <2>2, <2>3 DEF Acquire
  <1>4. ASSUME NEW c \in Calls, Run(c)
        PROVE  stuckTimer' # Unarmed
    <2>1. Running' = Running \cup {c}
      BY <1>4 DEF Run, Running, TypeOK
    <2>2. age' \in [Calls -> 0..StuckAfter]
      BY <1>4, StuckAfterPositive DEF Run, TypeOK
    <2>3. WatchQueue(stuckTimer, waiting["metadata"], Running \cup {c}, age')
      BY <1>4 DEF Run
    <2>4. waiting' = waiting
      BY <1>4 DEF Run
    <2>5. QED BY <2>1, <2>2, <2>3, <2>4, WatchQueueArms DEF Running
  <1>5. ASSUME NEW c \in Calls, Settle(c)
        PROVE  stuckTimer' # Unarmed
    <2>1. c \in Running /\ Running' = Running \ {c}
      BY <1>5, <1>2 DEF Settle, Running, Points
    <2>2. Cardinality(Running') = Cardinality(Running) - 1
      BY <2>1, RunningBounded, FS_RemoveElement
    <2>3. QED BY <2>2, RunningBounded, CapacityPositive, SMT
  <1>6. ASSUME NEW c \in Calls, ReturnUnused(c) \/ ShareRead(c)
        PROVE  stuckTimer' # Unarmed
    <2>1. waiting["metadata"] # <<>> /\ Running' = Running \ {c} /\ c \notin Running
      BY <1>6, <1>2 DEF ReturnUnused, ShareRead, Running, Points
    <2>2. stuckTimer' = stuckTimer
      BY <1>6 DEF ReturnUnused, ShareRead
    <2>3. QED BY <2>1, <2>2, <1>1
  <1>7. ASSUME NEW c \in Calls, Leave(c)
        PROVE  stuckTimer' # Unarmed
    <2>1. Running' = Running /\ stuckTimer' = stuckTimer
      BY <1>7 DEF Leave, Running, TypeOK
    <2>2. waiting["metadata"] # <<>>
      <3>1. CASE lane[c] = "metadata"
        <4>1. Contains(waiting["metadata"], c)
          BY <1>7, <3>1 DEF Leave, QueuesHoldTheWaiting, Lanes
        <4>2. QED BY <4>1 DEF Contains
      <3>2. CASE lane[c] # "metadata"
        BY <1>7, <3>2 DEF Leave, TypeOK, Lanes
      <3>3. QED BY <3>1, <3>2
    <2>3. QED BY <2>1, <2>2, <1>1
  <1>8. ASSUME NEW c \in Calls, AbortLate(c)
        PROVE  stuckTimer' # Unarmed
    BY <1>1, <1>8 DEF AbortLate, Running
  <1>9. CASE RefuseQueued
    BY <1>9 DEF RefuseQueued, TypeOK, Lanes
  <1>10. CASE RearmTimer
    <2>1. WatchQueue(Unarmed, waiting["metadata"], Running, age)
      BY <1>10 DEF RearmTimer
    <2>2. waiting' = waiting /\ Running' = Running
      BY <1>10 DEF RearmTimer, Running
    <2>3. QED BY <2>1, <2>2, WatchQueueArms DEF TypeOK, Running
  <1>11. CASE Tick
    <2>1. waiting' = waiting /\ Running' = Running
      BY <1>11 DEF Tick, Running
    <2>2. stuckTimer # Unarmed
      BY <2>1 DEF StuckWatched
    <2>3. QED BY <1>11, <2>2, StuckAfterPositive, SMT DEF Tick, TypeOK, Unarmed
  <1>12. CASE UNCHANGED vars
    BY <1>12, <1>1 DEF vars, Running
  <1>13. QED
    BY <1>3, <1>4, <1>5, <1>6, <1>7, <1>8, <1>9, <1>10, <1>11, <1>12 DEF Next

(* With every permit's call running and a metadata call queued, the timer  *)
(* that refuses it is armed, in whichever order the calls arrived and      *)
(* started.                                                                *)
THEOREM StuckAlwaysWatched == Spec => []StuckWatched
  <1>1. Init => StuckWatched
    BY DEF Init, StuckWatched, Lanes
  <1>2. QED BY <1>1, InvariantHolds, StepKeepsWatch, PTL DEF Spec

-----------------------------------------------------------------------------
(* A permit goes to the head of a queue, the content queue only when no    *)
(* metadata call waits.                                                    *)
LEMMA StepGrantsInOrder ==
    ASSUME IInv, [Next]_vars, NEW c \in Calls, Granted(c)
    PROVE  /\ c = Head(waiting[lane[c]])
           /\ lane[c] = "content" => waiting["metadata"] = <<>>
  <1> USE DEF IInv
  <1>1. pc[c] = "waiting" /\ pc'[c] = "granted"
    BY DEF Granted
  <1>2. ASSUME NEW d \in Calls, NEW p \in {"idle", "ended"}, Release(d, p)
        PROVE  /\ c = Head(waiting[lane[c]])
               /\ lane[c] = "content" => waiting["metadata"] = <<>>
    <2>1. ASSUME NEW l \in Lanes, HandTo(l, d, p)
          PROVE  c = Head(waiting[l]) /\ lane[c] = l
      <3>1. c = Head(waiting[l])
        BY <1>1, <2>1 DEF HandTo, TypeOK
      <3>2. Contains(waiting[l], c)
        BY <2>1, <3>1, TailOfQueue DEF HandTo, TypeOK, QueuesHoldTheWaiting
      <3>3. QED BY <3>1, <3>2 DEF QueuesHoldTheWaiting
    <2>2. CASE PutBack(d, p)
      BY <1>1, <2>2 DEF PutBack, TypeOK
    <2>3. QED BY <1>2, <2>1, <2>2 DEF Release, Lanes
  <1>3. ASSUME NEW d \in Calls, NEW l \in Lanes, Acquire(d, l)
        PROVE  FALSE
    BY <1>1, <1>3 DEF Acquire, AcquireEnded, AcquireFree, AcquireRefused,
                      AcquireQueued, Asks, TypeOK
  <1>4. ASSUME NEW d \in Calls, Run(d) \/ Leave(d) \/ AbortLate(d)
        PROVE  FALSE
    BY <1>1, <1>4 DEF Run, Leave, AbortLate, TypeOK
  <1>5. ASSUME NEW d \in Calls, Settle(d) \/ ReturnUnused(d) \/ ShareRead(d)
        PROVE  /\ c = Head(waiting[lane[c]])
               /\ lane[c] = "content" => waiting["metadata"] = <<>>
    BY <1>2, <1>5 DEF Settle, ReturnUnused, ShareRead
  <1>6. ~RefuseQueued /\ ~RearmTimer /\ ~Tick /\ ~(UNCHANGED vars)
    BY <1>1 DEF RefuseQueued, RearmTimer, Tick, vars
  <1>7. QED BY <1>3, <1>4, <1>5, <1>6 DEF Next

(* Metadata before content, and the order of arrival within a lane.        *)
THEOREM GrantsAreInOrder == Spec => GrantsInOrder
  <1>1. IInv /\ [Next]_vars =>
          [\A c \in Calls : Granted(c) =>
              /\ c = Head(waiting[lane[c]])
              /\ lane[c] = "content" => waiting["metadata"] = <<>>]_vars
    BY StepGrantsInOrder
  <1>2. QED BY <1>1, InvariantHolds, PTL DEF Spec, GrantsInOrder
-----------------------------------------------------------------------------
(* Refinement: the calls that hold a permit form the abstract pool.        *)

LEMMA StepRefinesPool ==
    ASSUME IInv, [Next]_vars
    PROVE  [Pool!Next]_Holders
  <1> USE DEF IInv
  <1>1. ASSUME NEW c \in Calls, NEW p \in {"idle", "ended"}, c \in Holders, Release(c, p)
        PROVE  Pool!Next
    <2>1. ASSUME NEW l \in Lanes, HandTo(l, c, p)
          PROVE  Pool!Next
      <3> DEFINE h == Head(waiting[l])
      <3>1. waiting[l] \in Seq(Calls) /\ waiting[l] # <<>> /\ IsInjective(waiting[l])
        BY <2>1 DEF HandTo, TypeOK, QueuesHoldTheWaiting
      <3>2. h \in Calls /\ Contains(waiting[l], h)
        BY <3>1, TailOfQueue
      <3>3. pc[h] = "waiting"
        BY <3>2 DEF QueuesHoldTheWaiting
      <3> HIDE DEF h
      <3>4. pc' = [pc EXCEPT ![c] = p, ![h] = "granted"]
        BY <2>1 DEF HandTo, h
      <3>5. h \notin Holders /\ Holders' = (Holders \ {c}) \cup {h}
        BY <1>1, <3>2, <3>3, <3>4 DEF Holders, TypeOK
      <3>6. Pool!Pass(c, h)
        BY <1>1, <3>5 DEF Pool!Pass
      <3>7. QED BY <3>2, <3>6 DEF Pool!Next
    <2>2. CASE PutBack(c, p)
      <3>1. Holders' = Holders \ {c}
        BY <1>1, <2>2 DEF PutBack, Holders, TypeOK
      <3>2. Pool!Give(c)
        BY <1>1, <3>1 DEF Pool!Give
      <3>3. QED BY <3>2 DEF Pool!Next
    <2>3. QED BY <1>1, <2>1, <2>2 DEF Release, Lanes
  <1>2. ASSUME NEW c \in Calls, NEW l \in Lanes, AcquireFree(c, l)
        PROVE  Pool!Next
    <2>1. Cardinality(Holders) < Capacity
      BY <1>2, HoldersFinite, SMT DEF AcquireFree
    <2>2. c \notin Holders /\ Holders' = Holders \cup {c}
      BY <1>2 DEF AcquireFree, Asks, Holders, TypeOK
    <2>3. Pool!Take(c)
      <3>1. Pool!Cardinality(Holders) = Cardinality(Holders)
        BY DEF Pool!Cardinality, Cardinality
      <3>2. QED BY <2>1, <2>2, <3>1 DEF Pool!Take
    <2>4. QED BY <2>3 DEF Pool!Next
  <1>3. ASSUME NEW c \in Calls, NEW l \in Lanes,
               AcquireEnded(c) \/ AcquireRefused(c) \/ AcquireQueued(c, l)
        PROVE  Holders' = Holders
    BY <1>3 DEF AcquireEnded, AcquireRefused, AcquireQueued, Asks, Holders, TypeOK
  <1>4. ASSUME NEW c \in Calls, Settle(c) \/ ReturnUnused(c) \/ ShareRead(c)
        PROVE  Pool!Next
    BY <1>1, <1>4 DEF Settle, ReturnUnused, ShareRead, Holders
  <1>5. ASSUME NEW c \in Calls, Run(c) \/ Leave(c) \/ AbortLate(c)
        PROVE  Holders' = Holders
    BY <1>5 DEF Run, Leave, AbortLate, Holders, TypeOK
  <1>6. CASE RefuseQueued
    <2>1. \A d \in Calls : Contains(waiting["metadata"], d) => pc[d] = "waiting"
      BY DEF QueuesHoldTheWaiting, Lanes
    <2>2. Holders' = Holders
      BY <1>6, <2>1 DEF RefuseQueued, Holders
    <2>3. QED BY <2>2
  <1>7. CASE RearmTimer \/ Tick \/ UNCHANGED vars
    BY <1>7 DEF RearmTimer, Tick, vars, Holders
  <1>8. QED
    BY <1>2, <1>3, <1>4, <1>5, <1>6, <1>7 DEF Next, Acquire

(* The admission control is a pool of Capacity permits: never more than    *)
(* Capacity fs calls are out, each permit is taken, given back or handed   *)
(* to one waiting call.                                                    *)
THEOREM AdmissionIsAPool == Spec => ImplementsPool
  <1>1. Init => Pool!Init
    BY DEF Init, Pool!Init, Holders
  <1>2. QED
    BY <1>1, InvariantHolds, StepRefinesPool, PTL DEF Spec, Pool!Spec, ImplementsPool

-----------------------------------------------------------------------------
(*                        Live cloud transcription                         *)
-----------------------------------------------------------------------------

Sessions == [state : Session, started : {"no", "waiting", "ok", "failed"}, overflow : BOOLEAN]
Streams == [ws : Socket, opened : BOOLEAN, acked : BOOLEAN, terminal : BOOLEAN]
Results == {"none", "waiting", "complete", "incomplete", "nothing", "forced"}
Owners == Captures \cup {None}

Handlers == [owner : Owners, active : Owners, pending : Owners,
             session : [Captures -> Sessions],
             track : [Captures -> [Tracks -> Streams]],
             stop : [Captures -> Results]]

(* A session that may have sockets.                                        *)
Busy(h, c) == h.session[c].state \in {"opening", "live", "closing"}

(* Where a session stands, by its state: pending while it opens, active    *)
(* while it streams or stops, with sockets only then.                      *)
Placed(h, c) ==
    /\ h.session[c].state = "opening" => h.pending = c
    /\ h.session[c].state \in {"live", "closing"} => h.active = c
    /\ h.session[c].state = "closing" => h.stop[c] = "waiting"
    /\ h.pending = c => h.session[c].state = "opening"
    /\ h.active = c => h.session[c].state \in {"live", "closing", "closed"}
    /\ \A t \in Tracks :
        /\ h.track[c][t].ws = "connecting" => h.session[c].state = "opening"
        /\ h.track[c][t].ws \in {"open", "closing"} => Busy(h, c)
        /\ h.track[c][t].opened => h.track[c][t].ws # "connecting"
        /\ h.track[c][t].opened => h.session[c].state # "new"

Typed(h) == h \in Handlers /\ \A c \in Captures : Placed(h, c)

(* Between the turns of the event loop it is also the owner's.             *)
Owned(h) == \A c \in Captures : Busy(h, c) => h.owner = c

-----------------------------------------------------------------------------
(* The synchronous parts.                                                  *)

(* close() leaves nothing of its session and touches no other.             *)
LEMMA CloseTyped ==
    ASSUME NEW h, Typed(h), NEW c \in Captures, NEW r \in Results
    PROVE  LET g == Close(h, c, r) IN
           /\ Typed(g)
           /\ g.session[c].state = "closed"
           /\ g.session[c].overflow = h.session[c].overflow
           /\ \A t \in Tracks : ~g.track[c][t].terminal
           /\ g.stop[c] = IF h.stop[c] = "waiting" THEN r ELSE h.stop[c]
           /\ g.stop[c] # "waiting" \/ r = "waiting"
           /\ \A d \in Captures \ {c} : /\ g.session[d] = h.session[d]
                                        /\ g.track[d] = h.track[d]
                                        /\ g.stop[d] = h.stop[d]
           /\ g.owner \in {h.owner, None}
           /\ g.owner = None => h.owner \in {c, None}
           /\ g.active = IF h.active = c /\ h.stop[c] = "waiting" THEN None ELSE h.active
           /\ g.pending = IF h.pending = c THEN None ELSE h.pending
  <1> DEFINE g == Close(h, c, r)
  <1>0. h \in Handlers /\ \A d \in Captures : Placed(h, d)
    BY DEF Typed
  <1>1. Cleared(h.track[c]) \in [Tracks -> Streams]
        /\ \A t \in Tracks : /\ Cleared(h.track[c])[t].ws \in {"none", "closed"}
                             /\ ~Cleared(h.track[c])[t].opened
                             /\ ~Cleared(h.track[c])[t].terminal
    BY DEF Cleared, Streams, Socket
  <1>2. /\ g.owner \in {h.owner, None}
        /\ g.owner = None => h.owner \in {c, None}
        /\ g.active = IF h.active = c /\ h.stop[c] = "waiting" THEN None ELSE h.active
        /\ g.pending = IF h.pending = c THEN None ELSE h.pending
    BY <1>0 DEF Close, Handlers
  <1>3. /\ g.session \in [Captures -> Sessions]
        /\ g.session[c].state = "closed"
        /\ g.session[c].overflow = h.session[c].overflow
        /\ \A d \in Captures \ {c} : g.session[d] = h.session[d]
    <2> DEFINE e == [h.session[c] EXCEPT !.state = "closed",
                        !.started = IF @ = "waiting" THEN "failed" ELSE @]
    <2>1. g.session = [h.session EXCEPT ![c] = e]
      BY <1>0 DEF Close, Handlers
    <2>2. e \in Sessions /\ e.state = "closed" /\ e.overflow = h.session[c].overflow
      BY <1>0 DEF Handlers, Sessions, Session
    <2>3. h.session \in [Captures -> Sessions]
      BY <1>0 DEF Handlers
    <2> HIDE DEF e, g
    <2>4. QED BY <2>1, <2>2, <2>3
  <1>4. /\ g.track \in [Captures -> [Tracks -> Streams]]
        /\ g.track[c] = Cleared(h.track[c])
        /\ \A d \in Captures \ {c} : g.track[d] = h.track[d]
    BY <1>0, <1>1 DEF Close, Handlers
  <1>5. /\ g.stop \in [Captures -> Results]
        /\ g.stop[c] = IF h.stop[c] = "waiting" THEN r ELSE h.stop[c]
        /\ \A d \in Captures \ {c} : g.stop[d] = h.stop[d]
    BY <1>0 DEF Close, Handlers, Results
  <1>6. g \in Handlers
    BY <1>0, <1>2, <1>3, <1>4, <1>5 DEF Close, Handlers, Owners
  <1> HIDE DEF g
  <1>7. Placed(g, c)
    BY <1>1, <1>2, <1>3, <1>4, NoneIsNoCapture DEF Placed, Busy
  <1>8. ASSUME NEW d \in Captures, d # c PROVE Placed(g, d)
    <2>1. Placed(h, d)
      BY <1>0
    <2>2. g.session[d] = h.session[d] /\ g.track[d] = h.track[d] /\ g.stop[d] = h.stop[d]
      BY <1>3, <1>4, <1>5, <1>8
    <2>3. QED BY <2>1, <2>2, <1>2, <1>8, NoneIsNoCapture DEF Placed, Busy
  <1>9. Typed(g)
    BY <1>6, <1>7, <1>8 DEF Typed
  <1>10. QED BY <1>1, <1>2, <1>3, <1>4, <1>5, <1>9 DEF g

LEMMA CloseOwned ==
    ASSUME NEW h, Typed(h), Owned(h), NEW c \in Captures, NEW r \in Results
    PROVE  Owned(Close(h, c, r))
  <1> DEFINE g == Close(h, c, r)
  <1>1. /\ g.session[c].state = "closed"
        /\ \A d \in Captures \ {c} : g.session[d] = h.session[d]
        /\ g.owner \in {h.owner, None}
        /\ g.owner = None => h.owner \in {c, None}
    BY CloseTyped
  <1> HIDE DEF g
  <1>2. ASSUME NEW d \in Captures, Busy(g, d) PROVE g.owner = d
    <2>1. d # c /\ Busy(h, d)
      BY <1>1, <1>2 DEF Busy
    <2>2. h.owner = d
      BY <2>1 DEF Owned
    <2>3. QED BY <2>1, <2>2, <1>1, NoneIsNoCapture
  <1>3. QED BY <1>2 DEF Owned, g

(* A stop without grace leaves no session that may have sockets, whoever   *)
(* is the owner by then, and touches only the two that had a place.        *)
LEMMA StopNowTyped ==
    ASSUME NEW h, Typed(h)
    PROVE  LET g == StopNow(h) IN
           /\ Typed(g)
           /\ \A c \in Captures : ~Busy(g, c)
           /\ g.active = None /\ g.pending = None
           /\ g.owner \in Owners
           /\ h.owner \in Captures /\ h.owner \notin {h.active, h.pending}
                => g.owner = h.owner
           /\ \A c \in Captures :
                /\ g.session[c].overflow = h.session[c].overflow
                /\ g.stop[c] = h.stop[c] \/ g.stop[c] = "incomplete"
                /\ g.session[c].state \in {h.session[c].state, "closed"}
                /\ \A t \in Tracks : g.track[c][t].terminal => h.track[c][t].terminal
                /\ g.session[c].state = h.session[c].state
                    \/ \A t \in Tracks : ~g.track[c][t].terminal
                /\ c \notin {h.active, h.pending} =>
                    g.session[c] = h.session[c] /\ g.track[c] = h.track[c] /\ g.stop[c] = h.stop[c]
  <1> DEFINE p == IF h.pending = None THEN h ELSE Close(h, h.pending, "incomplete")
             a == IF p.active = None \/ p.session[p.active].state = "closed" THEN p
                  ELSE Close(p, p.active, "incomplete")
             g == [a EXCEPT !.active = None]
  <1>0. "incomplete" \in Results
    BY DEF Results
  <1>1. /\ Typed(p) /\ p.pending = None
        /\ p.active \in {h.active, None}
        /\ p.owner \in {h.owner, None} /\ (p.owner = None => h.owner \in {h.pending, None})
        /\ \A c \in Captures :
            /\ p.session[c].overflow = h.session[c].overflow
            /\ p.stop[c] = h.stop[c] \/ p.stop[c] = "incomplete"
            /\ p.session[c].state \in {h.session[c].state, "closed"}
            /\ \A t \in Tracks : p.track[c][t].terminal => h.track[c][t].terminal
            /\ p.session[c].state = h.session[c].state
                \/ \A t \in Tracks : ~p.track[c][t].terminal
            /\ c # h.pending =>
                p.session[c] = h.session[c] /\ p.track[c] = h.track[c] /\ p.stop[c] = h.stop[c]
    <2>1. CASE h.pending = None
      BY <2>1
    <2>2. CASE h.pending # None
      <3>1. h.pending \in Captures
        BY <2>2 DEF Typed, Handlers, Owners
      <3> HIDE DEF p
      <3>2. p = Close(h, h.pending, "incomplete")
        BY <2>2 DEF p
      <3>3. QED BY <3>1, <3>2, <1>0, CloseTyped
    <2>3. QED BY <2>1, <2>2
  <1> HIDE DEF p
  <1>2. /\ Typed(a) /\ a.pending = None
        /\ a.active \in {p.active, None}
        /\ a.owner \in {p.owner, None} /\ (a.owner = None => p.owner \in {p.active, None})
        /\ \A c \in Captures :
            /\ a.session[c].state \notin {"live", "closing"}
            /\ a.session[c].overflow = p.session[c].overflow
            /\ a.stop[c] = p.stop[c] \/ a.stop[c] = "incomplete"
            /\ a.session[c].state \in {p.session[c].state, "closed"}
            /\ \A t \in Tracks : a.track[c][t].terminal => p.track[c][t].terminal
            /\ a.session[c].state = p.session[c].state
                \/ \A t \in Tracks : ~a.track[c][t].terminal
            /\ c # p.active =>
                a.session[c] = p.session[c] /\ a.track[c] = p.track[c] /\ a.stop[c] = p.stop[c]
    <2>0. \A c \in Captures : p.session[c].state \in {"live", "closing"} => p.active = c
      BY <1>1 DEF Typed, Placed
    <2>1. CASE p.active = None \/ p.session[p.active].state = "closed"
      BY <2>0, <2>1, <1>1, NoneIsNoCapture
    <2>2. CASE ~(p.active = None \/ p.session[p.active].state = "closed")
      <3>1. p.active \in Captures
        BY <2>2, <1>1 DEF Typed, Handlers, Owners
      <3> HIDE DEF a
      <3>2. a = Close(p, p.active, "incomplete")
        BY <2>2 DEF a
      <3>3. QED BY <2>0, <3>1, <3>2, <1>0, <1>1, CloseTyped
    <2>3. QED BY <2>1, <2>2
  <1> HIDE DEF a
  <1>3. a \in Handlers /\ \A c \in Captures : Placed(a, c)
    BY <1>2 DEF Typed
  <1>4. /\ g \in Handlers /\ g.active = None
        /\ g.owner = a.owner /\ g.pending = a.pending /\ g.session = a.session
        /\ g.track = a.track /\ g.stop = a.stop
    BY <1>3 DEF Handlers, Owners
  <1>5. g = StopNow(h)
    BY DEF StopNow, g, a, p
  <1> HIDE DEF g
  <1>6. \A c \in Captures : a.session[c].state # "opening"
    BY <1>2, <1>3, NoneIsNoCapture DEF Placed
  <1>7. \A c \in Captures : ~Busy(g, c)
    BY <1>2, <1>4, <1>6 DEF Busy
  <1>8. ASSUME NEW c \in Captures PROVE Placed(g, c)
    BY <1>2, <1>3, <1>4, <1>6, NoneIsNoCapture DEF Placed, Busy
  <1>9. Typed(g)
    BY <1>4, <1>8 DEF Typed
  <1>10. g.owner \in Owners
    BY <1>4 DEF Handlers
  <1>11. h.owner \in Captures /\ h.owner \notin {h.active, h.pending} => g.owner = h.owner
    BY <1>1, <1>2, <1>4, NoneIsNoCapture
  <1>12. ASSUME NEW c \in Captures
         PROVE  /\ g.session[c].overflow = h.session[c].overflow
                /\ g.stop[c] = h.stop[c] \/ g.stop[c] = "incomplete"
                /\ g.session[c].state \in {h.session[c].state, "closed"}
                /\ \A t \in Tracks : g.track[c][t].terminal => h.track[c][t].terminal
                /\ g.session[c].state = h.session[c].state
                    \/ \A t \in Tracks : ~g.track[c][t].terminal
                /\ c \notin {h.active, h.pending} =>
                    g.session[c] = h.session[c] /\ g.track[c] = h.track[c] /\ g.stop[c] = h.stop[c]
    BY <1>1, <1>2, <1>4, NoneIsNoCapture
  <1>13. QED BY <1>2, <1>4, <1>5, <1>7, <1>9, <1>10, <1>11, <1>12

(* A socket that goes, an acknowledgement, a confirmation: one stream      *)
(* changes and is no nearer to opening than it was.                        *)
LEMMA StreamTyped ==
    ASSUME NEW h, Typed(h), NEW c \in Captures, NEW t \in Tracks, NEW s \in Streams,
           s.opened => h.track[c][t].opened,
           s.ws \in {h.track[c][t].ws, "closed"}
               \/ (s.ws = "closing" /\ h.track[c][t].ws \in {"open", "closing"})
    PROVE  LET g == [h EXCEPT !.track[c][t] = s] IN
           /\ Typed(g)
           /\ Owned(h) => Owned(g)
           /\ g.owner = h.owner /\ g.active = h.active /\ g.pending = h.pending
           /\ g.session = h.session /\ g.stop = h.stop
           /\ g.track[c][t] = s
           /\ \A d \in Captures, u \in Tracks : d # c \/ u # t => g.track[d][u] = h.track[d][u]
  <1> DEFINE g == [h EXCEPT !.track[c][t] = s]
  <1>0. h \in Handlers /\ \A d \in Captures : Placed(h, d)
    BY DEF Typed
  <1>1. /\ g.owner = h.owner /\ g.active = h.active /\ g.pending = h.pending
        /\ g.session = h.session /\ g.stop = h.stop
        /\ g.track = [h.track EXCEPT ![c][t] = s]
        /\ g \in Handlers
    BY <1>0 DEF Handlers
  <1> HIDE DEF g
  <1>2. /\ g.track[c][t] = s
        /\ \A d \in Captures, u \in Tracks : d # c \/ u # t => g.track[d][u] = h.track[d][u]
    BY <1>0, <1>1 DEF Handlers
  <1>3. ASSUME NEW d \in Captures PROVE Placed(g, d)
    <2>1. Placed(h, d)
      BY <1>0
    <2>2. ASSUME NEW u \in Tracks
          PROVE  /\ g.track[d][u].ws = "connecting" => g.session[d].state = "opening"
                 /\ g.track[d][u].ws \in {"open", "closing"} => Busy(g, d)
                 /\ g.track[d][u].opened => g.track[d][u].ws # "connecting"
                 /\ g.track[d][u].opened => g.session[d].state # "new"
      <3>1. CASE d = c /\ u = t
        BY <3>1, <2>1, <1>1, <1>2 DEF Placed, Busy
      <3>2. CASE d # c \/ u # t
        BY <3>2, <2>1, <1>1, <1>2 DEF Placed, Busy
      <3>3. QED BY <3>1, <3>2
    <2>3. QED BY <2>1, <2>2, <1>1 DEF Placed
  <1>4. Owned(h) => Owned(g)
    BY <1>1 DEF Owned, Busy
  <1>5. QED BY <1>1, <1>2, <1>3, <1>4 DEF Typed, g

(* The form in which the model writes an acknowledgement.                  *)
LEMMA StreamForms ==
    ASSUME NEW h \in Handlers, NEW c \in Captures, NEW t \in Tracks
    PROVE  /\ [h EXCEPT !.track[c][t].acked = TRUE]
                = [h EXCEPT !.track[c][t] = [h.track[c][t] EXCEPT !.acked = TRUE]]
           /\ [h.track[c][t] EXCEPT !.acked = TRUE] \in Streams
           /\ [h.track[c][t] EXCEPT !.acked = TRUE].ws = h.track[c][t].ws
           /\ [h.track[c][t] EXCEPT !.acked = TRUE].opened = h.track[c][t].opened
           /\ [h.track[c][t] EXCEPT !.acked = TRUE].terminal = h.track[c][t].terminal
  <1>1. h.track[c][t] \in Streams
    BY DEF Handlers
  <1>2. QED BY <1>1 DEF Handlers, Streams

(* The last acknowledgement ends the stop, as complete only if every track *)
(* was confirmed.                                                          *)
LEMMA AcknowledgeTyped ==
    ASSUME NEW h, Typed(h), NEW c \in Captures, NEW t \in Tracks
    PROVE  LET g == Acknowledge(h, c, t) IN
           /\ Typed(g)
           /\ Owned(h) => Owned(g)
           /\ g.session[c].overflow = h.session[c].overflow
           /\ \A d \in Captures \ {c} : /\ g.session[d] = h.session[d]
                                        /\ g.track[d] = h.track[d]
                                        /\ g.stop[d] = h.stop[d]
           /\ \/ /\ g.session = h.session /\ g.stop = h.stop /\ g.active = h.active
                 /\ \A u \in Tracks : /\ g.track[c][u].terminal = h.track[c][u].terminal
                                      /\ g.track[c][u].ws = h.track[c][u].ws
              \/ /\ h.session[c].state = "closing" /\ g.session[c].state = "closed"
                 /\ g.active = None
                 /\ g.stop[c] = "complete" => \A u \in Tracks : h.track[c][u].terminal
                 /\ \A u \in Tracks : ~g.track[c][u].terminal
  <1> DEFINE s == [h.track[c][t] EXCEPT !.acked = TRUE]
             a == [h EXCEPT !.track[c][t].acked = TRUE]
             r == IF \A u \in Tracks : a.track[c][u].terminal THEN "complete" ELSE "incomplete"
  <1>0. h \in Handlers /\ \A d \in Captures : Placed(h, d)
    BY DEF Typed
  <1>1. /\ a = [h EXCEPT !.track[c][t] = s]
        /\ s \in Streams /\ s.ws = h.track[c][t].ws
        /\ s.opened = h.track[c][t].opened /\ s.terminal = h.track[c][t].terminal
    BY <1>0, StreamForms
  <1> HIDE DEF s, a
  <1>2. /\ Typed(a) /\ (Owned(h) => Owned(a))
        /\ a.owner = h.owner /\ a.active = h.active /\ a.pending = h.pending
        /\ a.session = h.session /\ a.stop = h.stop
        /\ a.track[c][t] = s
        /\ \A d \in Captures, u \in Tracks : d # c \/ u # t => a.track[d][u] = h.track[d][u]
    <2>1. s.opened => h.track[c][t].opened
      BY <1>1
    <2>2. s.ws \in {h.track[c][t].ws, "closed"}
            \/ (s.ws = "closing" /\ h.track[c][t].ws \in {"open", "closing"})
      BY <1>1
    <2>3. QED BY <1>1, <2>1, <2>2, StreamTyped
  <1>3. \A u \in Tracks : /\ a.track[c][u].terminal = h.track[c][u].terminal
                         /\ a.track[c][u].ws = h.track[c][u].ws
    BY <1>1, <1>2
  <1>4. ASSUME NEW d \in Captures \ {c} PROVE a.track[d] = h.track[d]
    <2>1. a.track[d] \in [Tracks -> Streams] /\ h.track[d] \in [Tracks -> Streams]
      BY <1>0, <1>2 DEF Typed, Handlers
    <2>2. \A u \in Tracks : a.track[d][u] = h.track[d][u]
      BY <1>2
    <2>3. QED BY <2>1, <2>2
  <1>5. r \in Results /\ r # "waiting" /\ (r = "complete" => \A u \in Tracks : h.track[c][u].terminal)
    BY <1>3 DEF Results
  <1> HIDE DEF r
  <1>6. CASE h.session[c].state # "closing" \/ h.track[c][t].acked
    <2>1. Acknowledge(h, c, t) = h
      BY <1>6 DEF Acknowledge
    <2>2. QED BY <2>1
  <1>7. CASE ~(h.session[c].state # "closing" \/ h.track[c][t].acked)
             /\ \E u \in Tracks : ~a.track[c][u].acked
    <2>1. Acknowledge(h, c, t) = a
      BY <1>7 DEF Acknowledge, a
    <2>2. QED BY <2>1, <1>2, <1>3, <1>4
  <1>8. CASE ~(h.session[c].state # "closing" \/ h.track[c][t].acked)
             /\ ~\E u \in Tracks : ~a.track[c][u].acked
    <2> DEFINE g == Close(a, c, r)
    <2>1. Acknowledge(h, c, t) = g
      BY <1>8 DEF Acknowledge, a, r
    <2>2. /\ Typed(g) /\ (Owned(a) => Owned(g))
          /\ g.session[c].state = "closed"
          /\ g.session[c].overflow = a.session[c].overflow
          /\ \A u \in Tracks : ~g.track[c][u].terminal
          /\ g.stop[c] = IF a.stop[c] = "waiting" THEN r ELSE a.stop[c]
          /\ \A d \in Captures \ {c} : /\ g.session[d] = a.session[d]
                                       /\ g.track[d] = a.track[d]
                                       /\ g.stop[d] = a.stop[d]
          /\ g.active = IF a.active = c /\ a.stop[c] = "waiting" THEN None ELSE a.active
      BY <1>2, <1>5, CloseTyped, CloseOwned
    <2> HIDE DEF g
    <2>3. h.stop[c] = "waiting" /\ h.active = c /\ h.session[c].state = "closing"
      BY <1>0, <1>8 DEF Placed
    <2>4. QED BY <2>1, <2>2, <2>3, <1>2, <1>4, <1>5
  <1>9. QED BY <1>6, <1>7, <1>8

(* What Become() makes of the variables.                                   *)
LEMMA BecomeNow ==
    ASSUME NEW h \in Handlers, Become(h)
    PROVE  Now' = h
  BY DEF Become, Handlers, Now

-----------------------------------------------------------------------------
(* What became of the audio.                                               *)

ProviderTyped(fr, bl, en, ms) ==
    /\ fr \in [Captures -> [Tracks -> 0..MaxFrames]]
    /\ bl \in [Captures -> [Tracks -> Nat]]
    /\ \A c \in Captures, t \in Tracks : bl[c][t] <= fr[c][t]
    /\ en \in [Captures -> [Tracks -> BOOLEAN]]
    /\ ms \subseteq Captures

(* Why a complete stop is complete: a session that lost audio while it     *)
(* streamed has a track whose socket is gone, to which no end of the       *)
(* stream is sent, so that it is never confirmed.                          *)
Heard(h, bl, en, ms, c) ==
    /\ h.stop[c] = "complete" =>
        h.session[c].state = "closed" /\ c \notin ms /\ \A t \in Tracks : bl[c][t] = 0
    /\ h.active = c /\ h.session[c].state = "closed" => h.session[c].overflow
    /\ \A t \in Tracks : h.track[c][t].terminal =>
        h.session[c].state = "closing" /\ en[c][t] /\ bl[c][t] = 0
    /\ h.session[c].state = "closing" /\ c \in ms => \E t \in Tracks : ~en[c][t]
    /\ h.session[c].state = "live" /\ c \in ms => \E t \in Tracks : h.track[c][t].ws # "open"
    /\ h.session[c].state \in {"new", "opening"} =>
        c \notin ms /\ \A t \in Tracks : bl[c][t] = 0

AllHeard(h, bl, en, ms) == \A c \in Captures : Heard(h, bl, en, ms, c)

(* A session nothing happened to.                                          *)
LEMMA HeardSame ==
    ASSUME NEW h, NEW g, NEW bl, NEW en, NEW ms, NEW ms2, NEW c \in Captures,
           g.session[c] = h.session[c], g.track[c] = h.track[c], g.stop[c] = h.stop[c],
           g.active = h.active \/ g.active # c,
           c \in ms2 => c \in ms,
           Heard(h, bl, en, ms, c)
    PROVE  Heard(g, bl, en, ms2, c)
  BY DEF Heard

LEMMA CloseHeard ==
    ASSUME NEW h, Typed(h), NEW bl, NEW en, NEW ms, AllHeard(h, bl, en, ms),
           NEW c \in Captures, h.active # c \/ h.stop[c] = "waiting" \/ h.session[c].overflow
    PROVE  AllHeard(Close(h, c, "incomplete"), bl, en, ms)
  <1> DEFINE g == Close(h, c, "incomplete")
  <1>1. /\ g.session[c].state = "closed"
        /\ g.session[c].overflow = h.session[c].overflow
        /\ \A t \in Tracks : ~g.track[c][t].terminal
        /\ g.stop[c] = IF h.stop[c] = "waiting" THEN "incomplete" ELSE h.stop[c]
        /\ \A d \in Captures \ {c} : /\ g.session[d] = h.session[d]
                                     /\ g.track[d] = h.track[d]
                                     /\ g.stop[d] = h.stop[d]
        /\ g.active = IF h.active = c /\ h.stop[c] = "waiting" THEN None ELSE h.active
    <2>1. "incomplete" \in Results
      BY DEF Results
    <2>2. QED BY <2>1, CloseTyped
  <1> HIDE DEF g
  <1>2. Heard(g, bl, en, ms, c)
    BY <1>1, NoneIsNoCapture DEF Heard, AllHeard
  <1>3. ASSUME NEW d \in Captures, d # c PROVE Heard(g, bl, en, ms, d)
    <2>1. g.active = h.active \/ g.active # d
      BY <1>1, NoneIsNoCapture
    <2>2. Heard(h, bl, en, ms, d)
      BY DEF AllHeard
    <2>3. g.session[d] = h.session[d] /\ g.track[d] = h.track[d] /\ g.stop[d] = h.stop[d]
      BY <1>1, <1>3
    <2>4. QED BY <2>1, <2>2, <2>3, HeardSame
  <1>4. QED BY <1>2, <1>3 DEF AllHeard, g

LEMMA StopNowHeard ==
    ASSUME NEW h, Typed(h), NEW bl, NEW en, NEW ms, AllHeard(h, bl, en, ms)
    PROVE  AllHeard(StopNow(h), bl, en, ms)
  <1> DEFINE g == StopNow(h)
  <1>1. /\ \A c \in Captures : ~Busy(g, c)
        /\ g.active = None
        /\ \A c \in Captures :
            /\ g.stop[c] = h.stop[c] \/ g.stop[c] = "incomplete"
            /\ g.session[c].state \in {h.session[c].state, "closed"}
            /\ \A t \in Tracks : g.track[c][t].terminal => h.track[c][t].terminal
            /\ g.session[c].state = h.session[c].state
                \/ \A t \in Tracks : ~g.track[c][t].terminal
    BY StopNowTyped
  <1> HIDE DEF g
  <1>2. ASSUME NEW c \in Captures PROVE Heard(g, bl, en, ms, c)
    <2>1. Heard(h, bl, en, ms, c)
      BY DEF AllHeard
    <2>2. g.active # c
      BY <1>1, NoneIsNoCapture
    <2>3. g.session[c].state \notin {"opening", "live", "closing"}
      BY <1>1 DEF Busy
    <2>4. g.stop[c] = "complete" => h.stop[c] = "complete"
      BY <1>1
    <2>5. \A t \in Tracks : ~g.track[c][t].terminal
      BY <2>1, <2>3, <1>1 DEF Heard
    <2>6. QED BY <2>1, <2>2, <2>3, <2>4, <2>5, <1>1 DEF Heard
  <1>3. QED BY <1>2 DEF AllHeard, g

(* The last acknowledgement says complete only if it is.                   *)
LEMMA AcknowledgeHeard ==
    ASSUME NEW h, Typed(h), NEW bl, NEW en, NEW ms, AllHeard(h, bl, en, ms),
           NEW c \in Captures, NEW t \in Tracks
    PROVE  AllHeard(Acknowledge(h, c, t), bl, en, ms)
  <1> DEFINE g == Acknowledge(h, c, t)
  <1>1. /\ g.session[c].overflow = h.session[c].overflow
        /\ \A d \in Captures \ {c} : /\ g.session[d] = h.session[d]
                                     /\ g.track[d] = h.track[d]
                                     /\ g.stop[d] = h.stop[d]
        /\ \/ /\ g.session = h.session /\ g.stop = h.stop /\ g.active = h.active
              /\ \A u \in Tracks : /\ g.track[c][u].terminal = h.track[c][u].terminal
                                   /\ g.track[c][u].ws = h.track[c][u].ws
           \/ /\ h.session[c].state = "closing" /\ g.session[c].state = "closed"
              /\ g.active = None
              /\ g.stop[c] = "complete" => \A u \in Tracks : h.track[c][u].terminal
              /\ \A u \in Tracks : ~g.track[c][u].terminal
    BY AcknowledgeTyped
  <1> HIDE DEF g
  <1>2. Heard(h, bl, en, ms, c)
    BY DEF AllHeard
  <1>3. Heard(g, bl, en, ms, c)
    <2>1. CASE /\ g.session = h.session /\ g.stop = h.stop /\ g.active = h.active
               /\ \A u \in Tracks : /\ g.track[c][u].terminal = h.track[c][u].terminal
                                    /\ g.track[c][u].ws = h.track[c][u].ws
      BY <1>2, <2>1 DEF Heard
    <2>2. CASE /\ h.session[c].state = "closing" /\ g.session[c].state = "closed"
               /\ g.active = None
               /\ g.stop[c] = "complete" => \A u \in Tracks : h.track[c][u].terminal
               /\ \A u \in Tracks : ~g.track[c][u].terminal
      <3>1. g.stop[c] = "complete" => c \notin ms /\ \A u \in Tracks : bl[c][u] = 0
        BY <1>2, <2>2 DEF Heard
      <3>2. QED BY <3>1, <2>2, NoneIsNoCapture DEF Heard
    <2>3. QED BY <1>1, <2>1, <2>2
  <1>4. ASSUME NEW d \in Captures, d # c PROVE Heard(g, bl, en, ms, d)
    <2>1. g.active = h.active \/ g.active # d
      BY <1>1, NoneIsNoCapture
    <2>2. Heard(h, bl, en, ms, d)
      BY DEF AllHeard
    <2>3. g.session[d] = h.session[d] /\ g.track[d] = h.track[d] /\ g.stop[d] = h.stop[d]
      BY <1>1, <1>4
    <2>4. QED BY <2>1, <2>2, <2>3, HeardSame
  <1>5. QED BY <1>3, <1>4 DEF AllHeard, g

(* A stream that does not open; one that is confirmed.                     *)
LEMMA StreamHeard ==
    ASSUME NEW h, NEW g, NEW bl, NEW en, NEW ms, AllHeard(h, bl, en, ms),
           NEW c \in Captures, NEW t \in Tracks,
           g.session = h.session, g.stop = h.stop, g.active = h.active,
           \A d \in Captures, u \in Tracks : d # c \/ u # t => g.track[d][u] = h.track[d][u],
           g.track[c][t].ws = "open" => h.track[c][t].ws = "open",
           g.track[c][t].terminal => h.track[c][t].terminal
               \/ (h.session[c].state = "closing" /\ en[c][t] /\ bl[c][t] = 0)
    PROVE  AllHeard(g, bl, en, ms)
  <1>1. ASSUME NEW d \in Captures PROVE Heard(g, bl, en, ms, d)
    <2>1. Heard(h, bl, en, ms, d)
      BY DEF AllHeard
    <2>2. \A u \in Tracks : g.track[d][u].terminal =>
              h.session[d].state = "closing" /\ en[d][u] /\ bl[d][u] = 0
      <3>1. ASSUME NEW u \in Tracks, g.track[d][u].terminal
            PROVE  h.session[d].state = "closing" /\ en[d][u] /\ bl[d][u] = 0
        <4>1. CASE d = c /\ u = t
          BY <2>1, <3>1, <4>1 DEF Heard
        <4>2. CASE d # c \/ u # t
          BY <2>1, <3>1, <4>2 DEF Heard
        <4>3. QED BY <4>1, <4>2
      <3>2. QED BY <3>1
    <2>3. \A u \in Tracks : g.track[d][u].ws = "open" => h.track[d][u].ws = "open"
      OBVIOUS
    <2>4. h.session[d].state = "live" /\ d \in ms => \E u \in Tracks : g.track[d][u].ws # "open"
      BY <2>1, <2>3 DEF Heard
    <2>5. QED BY <2>1, <2>2, <2>4 DEF Heard
  <1>2. QED BY <1>1 DEF AllHeard

(* A socket that goes.                                                     *)
LEMMA SocketGoes ==
    ASSUME NEW h, Typed(h), NEW bl, NEW en, NEW ms, AllHeard(h, bl, en, ms),
           NEW c \in Captures, NEW t \in Tracks, NEW w \in {"closing", "closed"},
           w = "closing" => h.track[c][t].ws \in {"open", "closing"}
    PROVE  LET g == [h EXCEPT !.track[c][t].ws = w] IN
           /\ Typed(g) /\ (Owned(h) => Owned(g)) /\ AllHeard(g, bl, en, ms)
           /\ g.active = h.active /\ g.session = h.session /\ g.stop = h.stop
  <1> DEFINE s == [h.track[c][t] EXCEPT !.ws = w]
             g == [h EXCEPT !.track[c][t].ws = w]
  <1>0. h \in Handlers /\ h.track[c][t] \in Streams
    BY DEF Typed, Handlers
  <1>1. /\ s \in Streams /\ s.ws = w /\ s.opened = h.track[c][t].opened
        /\ s.terminal = h.track[c][t].terminal
    BY <1>0 DEF Streams, Socket
  <1>2. g = [h EXCEPT !.track[c][t] = s]
    BY <1>0 DEF Handlers, Streams
  <1> HIDE DEF s, g
  <1>3. /\ Typed(g) /\ (Owned(h) => Owned(g))
        /\ g.active = h.active /\ g.session = h.session /\ g.stop = h.stop
        /\ g.track[c][t] = s
        /\ \A d \in Captures, u \in Tracks : d # c \/ u # t => g.track[d][u] = h.track[d][u]
    <2>1. s.opened => h.track[c][t].opened
      BY <1>1
    <2>2. s.ws \in {h.track[c][t].ws, "closed"}
            \/ (s.ws = "closing" /\ h.track[c][t].ws \in {"open", "closing"})
      BY <1>1
    <2>3. QED BY <1>1, <1>2, <2>1, <2>2, StreamTyped
  <1>4. AllHeard(g, bl, en, ms)
    <2>1. g.track[c][t].ws # "open"
      BY <1>1, <1>3
    <2>2. g.track[c][t].terminal => h.track[c][t].terminal
      BY <1>1, <1>3
    <2>3. QED BY <1>3, <2>1, <2>2, StreamHeard
  <1>5. QED BY <1>3, <1>4 DEF g

(* Nothing is open and the owner is given up.                              *)
LEMMA NobodyOwns ==
    ASSUME NEW h, Typed(h), \A d \in Captures : ~Busy(h, d),
           NEW bl, NEW en, NEW ms, AllHeard(h, bl, en, ms),
           NEW stops \in [Captures -> Results],
           \A d \in Captures : stops[d] = "complete" => h.stop[d] = "complete"
    PROVE  LET g == [h EXCEPT !.owner = None, !.stop = stops] IN
           Typed(g) /\ Owned(g) /\ AllHeard(g, bl, en, ms)
  <1> DEFINE g == [h EXCEPT !.owner = None, !.stop = stops]
  <1>0. h \in Handlers /\ \A d \in Captures : Placed(h, d)
    BY DEF Typed
  <1>1. /\ g \in Handlers /\ g.stop = stops
        /\ g.active = h.active /\ g.pending = h.pending
        /\ g.session = h.session /\ g.track = h.track
    BY <1>0 DEF Handlers, Owners
  <1> HIDE DEF g
  <1>2. ASSUME NEW d \in Captures PROVE Placed(g, d) /\ ~Busy(g, d) /\ Heard(g, bl, en, ms, d)
    <2>1. Placed(h, d) /\ ~Busy(h, d) /\ Heard(h, bl, en, ms, d)
      BY <1>0 DEF AllHeard
    <2>2. ~Busy(g, d)
      BY <2>1, <1>1 DEF Busy
    <2>3. Placed(g, d)
      BY <2>1, <1>1 DEF Placed, Busy
    <2>4. Heard(g, bl, en, ms, d)
      BY <2>1, <1>1 DEF Heard
    <2>5. QED BY <2>2, <2>3, <2>4
  <1>3. QED BY <1>1, <1>2 DEF Typed, Owned, AllHeard, g

-----------------------------------------------------------------------------
(* The inductive invariant.                                                *)

LiveIInv ==
    /\ Typed(Now) /\ Owned(Now)
    /\ ProviderTyped(frames, backlog, ended, missed)
    /\ AllHeard(Now, backlog, ended, missed)

LEMMA Concludes ==
    ASSUME NEW h, Typed(h), Owned(h), Become(h),
           ProviderTyped(frames, backlog, ended, missed)',
           AllHeard(h, backlog', ended', missed')
    PROVE  LiveIInv'
  <1>1. Now' = h
    BY BecomeNow DEF Typed
  <1>2. Typed(Now)' /\ Owned(Now)' /\ AllHeard(Now, backlog, ended, missed)'
    BY <1>1
  <1>3. QED BY <1>2 DEF LiveIInv

LEMMA NowFields ==
    /\ Now.owner = owner /\ Now.active = active /\ Now.pending = pending
    /\ Now.session = session /\ Now.track = track /\ Now.stop = stop
  BY DEF Now

LEMMA InitOK == LiveInit => LiveIInv
  <1> SUFFICES ASSUME LiveInit PROVE LiveIInv
    OBVIOUS
  <1>1. Now \in Handlers
    BY DEF LiveInit, Now, Handlers, Owners, Sessions, Session, Streams, Socket, Results
  <1>2. ASSUME NEW c \in Captures
        PROVE  Placed(Now, c) /\ ~Busy(Now, c) /\ Heard(Now, backlog, ended, missed, c)
    BY NoneIsNoCapture DEF LiveInit, Now, Placed, Busy, Heard
  <1>3. ProviderTyped(frames, backlog, ended, missed)
    BY SettingsAreTyped DEF LiveInit, ProviderTyped
  <1>4. QED BY <1>1, <1>2, <1>3 DEF LiveIInv, Typed, Owned, AllHeard

-----------------------------------------------------------------------------
(* One lemma per action.                                                   *)

LEMMA DeadlineOK ==
    ASSUME LiveIInv, NEW c \in Captures, Deadline(c)
    PROVE  LiveIInv'
  <1> DEFINE h == Close(Now, c, "incomplete")
  <1>0. "incomplete" \in Results
    BY DEF Results
  <1>1. Typed(h) /\ Owned(h)
    BY <1>0, CloseTyped, CloseOwned DEF LiveIInv
  <1>2. Now.stop[c] = "waiting"
    BY NowFields DEF LiveIInv, Typed, Placed, Deadline
  <1>3. AllHeard(h, backlog, ended, missed)
    BY <1>2, CloseHeard DEF LiveIInv
  <1> HIDE DEF h
  <1>4. Become(h) /\ UNCHANGED provider
    BY DEF Deadline, h
  <1>5. QED BY <1>1, <1>3, <1>4, Concludes DEF LiveIInv, provider

LEMMA ConnectFailsOK ==
    ASSUME LiveIInv, NEW c \in Captures, NEW t \in Tracks, ConnectFails(c, t)
    PROVE  LiveIInv'
  <1> DEFINE g == [Now EXCEPT !.track[c][t].ws = "closed"]
             h == Close(g, c, "incomplete")
  <1>0. "incomplete" \in Results
    BY DEF Results
  <1>2. Now.active # c
    BY NowFields, NoneIsNoCapture DEF LiveIInv, Typed, Placed, ConnectFails
  <1>3. /\ Typed(g) /\ Owned(g) /\ g.active = Now.active
        /\ AllHeard(g, backlog, ended, missed)
    BY SocketGoes DEF LiveIInv
  <1> HIDE DEF g
  <1>5. Typed(h) /\ Owned(h)
    BY <1>0, <1>3, CloseTyped, CloseOwned
  <1>6. AllHeard(h, backlog, ended, missed)
    BY <1>2, <1>3, CloseHeard
  <1> HIDE DEF h
  <1>7. Become(h) /\ UNCHANGED provider
    BY DEF ConnectFails, g, h
  <1>8. QED BY <1>5, <1>6, <1>7, Concludes DEF LiveIInv, provider

LEMMA PeerEndsOK ==
    ASSUME LiveIInv, NEW c \in Captures, NEW t \in Tracks, PeerEnds(c, t)
    PROVE  LiveIInv'
  <1> DEFINE g == [Now EXCEPT !.track[c][t].ws = "closing"]
  <1>0. Now.track[c][t].ws = "open"
    BY NowFields DEF PeerEnds
  <1>3. Typed(g) /\ Owned(g) /\ AllHeard(g, backlog, ended, missed)
    BY <1>0, SocketGoes DEF LiveIInv
  <1> HIDE DEF g
  <1> DEFINE h == Acknowledge(g, c, t)
  <1>5. Typed(h) /\ Owned(h)
    BY <1>3, AcknowledgeTyped
  <1>6. AllHeard(h, backlog, ended, missed)
    BY <1>3, AcknowledgeHeard
  <1> HIDE DEF h
  <1>7. (Become(g) \/ Become(h)) /\ UNCHANGED provider
    BY DEF PeerEnds, g, h
  <1>8. CASE Become(g)
    BY <1>3, <1>7, <1>8, Concludes DEF LiveIInv, provider
  <1>9. CASE Become(h)
    BY <1>5, <1>6, <1>7, <1>9, Concludes DEF LiveIInv, provider
  <1>10. QED BY <1>7, <1>8, <1>9

LEMMA SocketClosedOK ==
    ASSUME LiveIInv, NEW c \in Captures, NEW t \in Tracks, SocketClosed(c, t)
    PROVE  LiveIInv'
  <1> DEFINE g == [Now EXCEPT !.track[c][t].ws = "closed"]
  <1>3. Typed(g) /\ Owned(g) /\ AllHeard(g, backlog, ended, missed)
    BY SocketGoes DEF LiveIInv
  <1> HIDE DEF g
  <1> DEFINE h == Acknowledge(g, c, t)
  <1>5. Typed(h) /\ Owned(h)
    BY <1>3, AcknowledgeTyped
  <1>6. AllHeard(h, backlog, ended, missed)
    BY <1>3, AcknowledgeHeard
  <1> HIDE DEF h
  <1>7. Become(h) /\ UNCHANGED provider
    BY DEF SocketClosed, g, h
  <1>8. QED BY <1>5, <1>6, <1>7, Concludes DEF LiveIInv, provider

LEMMA ErrorFrameOK ==
    ASSUME LiveIInv, NEW c \in Captures, NEW t \in Tracks, ErrorFrame(c, t)
    PROVE  LiveIInv'
  <1> DEFINE h == Acknowledge(Now, c, t)
  <1>1. Typed(h) /\ Owned(h)
    BY AcknowledgeTyped DEF LiveIInv
  <1>2. AllHeard(h, backlog, ended, missed)
    BY AcknowledgeHeard DEF LiveIInv
  <1> HIDE DEF h
  <1>3. Become(h) /\ UNCHANGED provider
    BY DEF ErrorFrame, h
  <1>4. QED BY <1>1, <1>2, <1>3, Concludes DEF LiveIInv, provider

(* Only a stream that ended with nothing left to say is confirmed.         *)
LEMMA ConfirmsOK ==
    ASSUME LiveIInv, NEW c \in Captures, NEW t \in Tracks, Confirms(c, t)
    PROVE  LiveIInv'
  <1> DEFINE s == [track[c][t] EXCEPT !.terminal = TRUE,
                                      !.ws = IF ClosesItself THEN "closing" ELSE @]
             g == [Now EXCEPT !.track[c][t] = s]
  <1>0. /\ Now \in Handlers /\ track[c][t] \in Streams
        /\ track[c][t].ws \in {"open", "closing"}
        /\ session[c].state = "closing" /\ ended[c][t] /\ backlog[c][t] = 0
    BY NowFields DEF LiveIInv, Typed, Handlers, Confirms, Reaches
  <1>1. /\ s \in Streams /\ s.ws \in {track[c][t].ws, "closing"}
        /\ s.opened = track[c][t].opened
    BY <1>0, NowFields DEF Streams, Socket
  <1> HIDE DEF s
  <1>3. /\ Typed(g) /\ Owned(g)
        /\ g.active = Now.active /\ g.session = Now.session /\ g.stop = Now.stop
        /\ g.track[c][t] = s
        /\ \A d \in Captures, u \in Tracks : d # c \/ u # t => g.track[d][u] = Now.track[d][u]
    BY <1>0, <1>1, StreamTyped, NowFields DEF LiveIInv
  <1> HIDE DEF g
  <1>4. AllHeard(g, backlog, ended, missed)
    BY <1>0, <1>1, <1>3, StreamHeard, NowFields DEF LiveIInv
  <1>5. Become(g) /\ UNCHANGED provider
    BY DEF Confirms, s, g
  <1>6. QED BY <1>3, <1>4, <1>5, Concludes DEF LiveIInv, provider

(* The owner of a session that has a socket is its capture.                *)
LEMMA LineOK ==
    ASSUME LiveIInv, NEW c \in Captures, NEW t \in Tracks, Line(c, t)
    PROVE  LiveIInv'
  <1>1. /\ backlog' = [backlog EXCEPT ![c][t] = @ - 1] /\ backlog[c][t] > 0
        /\ UNCHANGED <<frames, ended>> /\ Now' = Now
        /\ missed' = IF owner = c THEN missed ELSE missed \cup {c}
        /\ track[c][t].ws \in {"open", "closing"}
    BY DEF Line, Reaches, handlers, Now
  <1>2. Placed(Now, c) /\ (Busy(Now, c) => owner = c)
    BY NowFields DEF LiveIInv, Typed, Owned
  <1>3. Busy(Now, c)
    BY <1>1, <1>2, NowFields DEF Placed
  <1>4. missed' = missed
    BY <1>1, <1>2, <1>3
  <1>5. /\ backlog \in [Captures -> [Tracks -> Nat]]
        /\ \A d \in Captures, u \in Tracks : backlog[d][u] <= frames[d][u]
        /\ frames \in [Captures -> [Tracks -> 0..MaxFrames]]
    BY DEF LiveIInv, ProviderTyped
  <1>6. /\ backlog' \in [Captures -> [Tracks -> Nat]]
        /\ \A d \in Captures, u \in Tracks : backlog'[d][u] <= backlog[d][u]
    BY <1>1, <1>5
  <1>7. ProviderTyped(frames, backlog, ended, missed)'
    <2>1. \A d \in Captures, u \in Tracks : backlog'[d][u] <= frames'[d][u]
      <3>1. ASSUME NEW d \in Captures, NEW u \in Tracks PROVE backlog'[d][u] <= frames[d][u]
        <4>1. backlog'[d][u] \in Nat /\ backlog[d][u] \in Nat /\ frames[d][u] \in 0..MaxFrames
          BY <1>5, <1>6
        <4>2. backlog'[d][u] <= backlog[d][u] /\ backlog[d][u] <= frames[d][u]
          BY <1>5, <1>6
        <4>3. QED BY <4>1, <4>2, SettingsAreTyped
      <3>2. QED BY <3>1, <1>1
    <2>2. QED BY <2>1, <1>1, <1>4, <1>6 DEF LiveIInv, ProviderTyped
  <1>8. ASSUME NEW d \in Captures PROVE Heard(Now, backlog', ended', missed', d)
    <2>1. Heard(Now, backlog, ended, missed, d)
      BY DEF LiveIInv, AllHeard
    <2>2. \A u \in Tracks : backlog[d][u] = 0 => backlog'[d][u] = 0
      <3>1. ASSUME NEW u \in Tracks, backlog[d][u] = 0 PROVE backlog'[d][u] = 0
        BY <3>1, <1>5, <1>6
      <3>2. QED BY <3>1
    <2>3. QED BY <2>1, <2>2, <1>1, <1>4 DEF Heard
  <1>9. AllHeard(Now, backlog, ended, missed)'
    BY <1>1, <1>8 DEF AllHeard
  <1>10. QED BY <1>1, <1>7, <1>9 DEF LiveIInv

LEMMA PushTyped ==
    ASSUME LiveIInv, NEW c \in Captures, NEW t \in Tracks, Push(c, t)
    PROVE  ProviderTyped(frames, backlog, ended, missed)'
  <1>1. /\ frames' = [frames EXCEPT ![c][t] = @ + 1] /\ frames[c][t] < MaxFrames
        /\ backlog' = backlog \/ backlog' = [backlog EXCEPT ![c][t] = @ + 1]
        /\ missed' \in {missed, missed \cup {c}} /\ ended' = ended
    BY DEF Push
  <1>2. /\ backlog \in [Captures -> [Tracks -> Nat]]
        /\ \A d \in Captures, u \in Tracks : backlog[d][u] <= frames[d][u]
        /\ frames \in [Captures -> [Tracks -> 0..MaxFrames]]
        /\ ended \in [Captures -> [Tracks -> BOOLEAN]] /\ missed \subseteq Captures
    BY DEF LiveIInv, ProviderTyped
  <1>3. frames[c][t] + 1 \in 0..MaxFrames /\ backlog[c][t] + 1 \in Nat
        /\ backlog[c][t] + 1 <= frames[c][t] + 1
    <2>1. frames[c][t] \in 0..MaxFrames /\ backlog[c][t] \in Nat /\ backlog[c][t] <= frames[c][t]
      BY <1>2
    <2>2. QED BY <2>1, <1>1, SettingsAreTyped
  <1>4. /\ frames' \in [Captures -> [Tracks -> 0..MaxFrames]]
        /\ backlog' \in [Captures -> [Tracks -> Nat]]
    <2>1. frames' \in [Captures -> [Tracks -> 0..MaxFrames]]
      BY <1>1, <1>2, <1>3
    <2>2. [backlog EXCEPT ![c][t] = @ + 1] \in [Captures -> [Tracks -> Nat]]
      BY <1>2, <1>3
    <2>3. QED BY <2>1, <2>2, <1>1, <1>2
  <1>5. ASSUME NEW d \in Captures, NEW u \in Tracks PROVE backlog'[d][u] <= frames'[d][u]
    <2>1. backlog[d][u] \in Nat /\ frames[d][u] \in 0..MaxFrames /\ backlog[d][u] <= frames[d][u]
      BY <1>2
    <2>2. CASE d = c /\ u = t
      BY <2>1, <2>2, <1>1, <1>2, SettingsAreTyped
    <2>3. CASE d # c \/ u # t
      <3>1. backlog'[d][u] = backlog[d][u] /\ frames'[d][u] = frames[d][u]
        BY <2>3, <1>1, <1>2
      <3>2. QED BY <3>1, <2>1
    <2>4. QED BY <2>2, <2>3
  <1>6. QED BY <1>1, <1>2, <1>4, <1>5 DEF ProviderTyped

(* A frame is lost only where it can be told later, or with its session.   *)
LEMMA PushOK ==
    ASSUME LiveIInv, NEW c \in Captures, NEW t \in Tracks, Push(c, t)
    PROVE  LiveIInv'
  <1>0. /\ Typed(Now) /\ Owned(Now) /\ AllHeard(Now, backlog, ended, missed)
        /\ backlog \in [Captures -> [Tracks -> Nat]]
    BY DEF LiveIInv, ProviderTyped
  <1>1. active = c /\ session[c].state = "live" /\ ended' = ended
    BY DEF Push
  <1>2. CASE /\ backlog' = [backlog EXCEPT ![c][t] = @ + 1]
             /\ UNCHANGED <<handlers, missed>>
    <2>1. Now' = Now
      BY <1>2 DEF handlers, Now
    <2>2. ASSUME NEW d \in Captures PROVE Heard(Now, backlog', ended', missed', d)
      <3>1. Heard(Now, backlog, ended, missed, d)
        BY <1>0 DEF AllHeard
      <3>2. CASE d = c
        BY <3>1, <3>2, <1>1, <1>2, NowFields DEF Heard
      <3>3. CASE d # c
        <4>1. backlog'[d] = backlog[d]
          BY <1>0, <1>2, <3>3
        <4>2. QED BY <3>1, <4>1, <1>1, <1>2 DEF Heard
      <3>4. QED BY <3>2, <3>3
    <2>3. AllHeard(Now, backlog, ended, missed)'
      BY <2>1, <2>2 DEF AllHeard
    <2>4. QED BY <2>1, <2>3, <1>0, PushTyped DEF LiveIInv
  <1>3. CASE /\ track[c][t].ws # "open"
             /\ missed' = missed \cup {c}
             /\ UNCHANGED <<handlers, backlog>>
    <2>1. Now' = Now
      BY <1>3 DEF handlers, Now
    <2>2. ASSUME NEW d \in Captures PROVE Heard(Now, backlog', ended', missed', d)
      <3>1. Heard(Now, backlog, ended, missed, d)
        BY <1>0 DEF AllHeard
      <3>2. CASE d = c
        BY <3>1, <3>2, <1>1, <1>3, NowFields DEF Heard
      <3>3. CASE d # c
        BY <3>1, <3>3, <1>1, <1>3 DEF Heard
      <3>4. QED BY <3>2, <3>3
    <2>3. AllHeard(Now, backlog, ended, missed)'
      BY <2>1, <2>2 DEF AllHeard
    <2>4. QED BY <2>1, <2>3, <1>0, PushTyped DEF LiveIInv
  <1>4. CASE /\ Become([Close(Now, c, "incomplete") EXCEPT !.session[c].overflow = TRUE])
             /\ missed' = missed \cup {c}
             /\ UNCHANGED backlog
    <2> DEFINE h == Close(Now, c, "incomplete")
               g == [h EXCEPT !.session[c].overflow = TRUE]
    <2>0. "incomplete" \in Results
      BY DEF Results
    <2>1. /\ Typed(h) /\ Owned(h) /\ h \in Handlers
          /\ h.session[c].state = "closed"
          /\ \A u \in Tracks : ~h.track[c][u].terminal
          /\ h.stop[c] = IF Now.stop[c] = "waiting" THEN "incomplete" ELSE Now.stop[c]
          /\ \A d \in Captures \ {c} : /\ h.session[d] = Now.session[d]
                                       /\ h.track[d] = Now.track[d]
                                       /\ h.stop[d] = Now.stop[d]
          /\ h.active \in {c, None}
      <3>1. Typed(h)
        BY <2>0, <1>0, CloseTyped
      <3>2. Owned(h)
        BY <2>0, <1>0, CloseOwned
      <3>3. QED BY <2>0, <1>0, <1>1, <3>1, <3>2, NowFields, CloseTyped DEF Typed
    <2> HIDE DEF h
    <2>2. /\ g \in Handlers
          /\ g.session[c].state = "closed" /\ g.session[c].overflow
          /\ \A d \in Captures \ {c} : g.session[d] = h.session[d]
          /\ g.owner = h.owner /\ g.active = h.active /\ g.pending = h.pending
          /\ g.track = h.track /\ g.stop = h.stop
      <3> DEFINE s == [h.session EXCEPT ![c] = [h.session[c] EXCEPT !.overflow = TRUE]]
      <3>1. h.session \in [Captures -> Sessions] /\ h.session[c].state = "closed"
        BY <2>1 DEF Handlers
      <3>2. /\ s \in [Captures -> Sessions]
            /\ s[c].state = "closed" /\ s[c].overflow
            /\ \A d \in Captures \ {c} : s[d] = h.session[d]
        BY <3>1 DEF Sessions
      <3>3. g = [h EXCEPT !.session = s]
        OBVIOUS
      <3> HIDE DEF s, g
      <3>4. QED BY <2>1, <3>2, <3>3 DEF Handlers
    <2> HIDE DEF g
    <2>3. ASSUME NEW d \in Captures
          PROVE  Placed(g, d) /\ (Busy(g, d) => g.owner = d)
                    /\ Heard(g, backlog, ended, missed', d)
      <3>1. g.session[d].state = h.session[d].state
        BY <2>1, <2>2
      <3>2. Placed(h, d) /\ (Busy(h, d) => h.owner = d)
        BY <2>1 DEF Typed, Owned
      <3>3. Heard(Now, backlog, ended, missed, d)
        BY <1>0 DEF AllHeard
      <3>4. Placed(g, d) /\ (Busy(g, d) => g.owner = d)
        BY <3>1, <3>2, <2>2 DEF Placed, Busy
      <3>5. CASE d = c
        <4>1. Now.session[c].state = "live"
          BY <1>1, NowFields
        <4>2. g.stop[c] # "complete"
          BY <4>1, <3>3, <3>5, <2>1, <2>2 DEF Heard
        <4>3. QED BY <4>2, <3>4, <3>5, <2>1, <2>2 DEF Heard
      <3>6. CASE d # c
        <4>1. g.active # d
          BY <3>6, <2>1, <2>2, NoneIsNoCapture
        <4>2. d \in missed' => d \in missed
          BY <3>6, <1>4
        <4>3. /\ g.session[d] = Now.session[d] /\ g.track[d] = Now.track[d]
              /\ g.stop[d] = Now.stop[d]
          BY <3>6, <2>1, <2>2
        <4>4. Heard(g, backlog, ended, missed', d)
          BY <4>1, <4>2, <4>3, <3>3, HeardSame
        <4>5. QED BY <4>4, <3>4
      <3>7. QED BY <3>5, <3>6
    <2>4. Typed(g) /\ Owned(g) /\ AllHeard(g, backlog', ended', missed')
      BY <2>2, <2>3, <1>1, <1>4 DEF Typed, Owned, AllHeard
    <2>5. Become(g)
      BY <1>4 DEF g, h
    <2>6. QED BY <2>4, <2>5, PushTyped, Concludes
  <1>5. QED BY <1>2, <1>3, <1>4 DEF Push

(* The last socket to open gives the session its place.                    *)
LEMMA OpensOK ==
    ASSUME LiveIInv, NEW c \in Captures, NEW t \in Tracks, Opens(c, t)
    PROVE  LiveIInv'
  <1> DEFINE s == [track[c][t] EXCEPT !.ws = "open", !.opened = TRUE]
             g == [Now EXCEPT !.track[c][t].ws = "open", !.track[c][t].opened = TRUE]
  <1>0. /\ Now \in Handlers /\ \A d \in Captures : Placed(Now, d) /\ Heard(Now, backlog, ended, missed, d)
        /\ \A d \in Captures : Busy(Now, d) => Now.owner = d
        /\ track \in [Captures -> [Tracks -> Streams]] /\ session \in [Captures -> Sessions]
    BY NowFields DEF LiveIInv, Typed, Owned, AllHeard, Handlers
  <1>1. /\ session[c].state = "opening" /\ pending = c /\ owner = c
        /\ track[c][t].ws = "connecting"
    BY <1>0, NowFields DEF Opens, Placed, Busy
  <1>2. s \in Streams /\ s.ws = "open" /\ s.opened /\ s.terminal = track[c][t].terminal
    <2>1. track[c][t] \in Streams
      BY <1>0
    <2> HIDE DEF g
    <2>2. QED BY <2>1 DEF Streams, Socket
  <1>3. /\ g \in Handlers
        /\ g.owner = owner /\ g.active = active /\ g.pending = pending
        /\ g.session = session /\ g.stop = stop
        /\ g.track = [track EXCEPT ![c][t] = s]
    <2>1. g.track = [track EXCEPT ![c][t] = s]
      BY <1>0, NowFields DEF Handlers, Streams
    <2>2. [track EXCEPT ![c][t] = s] \in [Captures -> [Tracks -> Streams]]
      <3> HIDE DEF s, g
      <3>1. QED BY <1>0, <1>2
    <2>3. QED BY <2>1, <2>2, <1>0, NowFields DEF Handlers
  <1> HIDE DEF s, g
  <1>4. /\ g.track[c][t] = s
        /\ \A d \in Captures, u \in Tracks : d # c \/ u # t => g.track[d][u] = track[d][u]
    BY <1>0, <1>3
  <1> DEFINE h == [g EXCEPT !.session[c].state = "live", !.session[c].started = "ok",
                            !.pending = None, !.active = c]
             e == [session[c] EXCEPT !.state = "live", !.started = "ok"]
  <1>5. /\ h \in Handlers
        /\ h.owner = owner /\ h.active = c /\ h.pending = None
        /\ h.session[c].state = "live"
        /\ \A d \in Captures \ {c} : h.session[d] = session[d]
        /\ h.stop = stop /\ h.track = g.track
    <2>1. e \in Sessions /\ e.state = "live"
      <3>1. session[c] \in Sessions
        BY <1>0
      <3> HIDE DEF h
      <3>2. QED BY <3>1 DEF Sessions, Session
    <2>2. h.session = [session EXCEPT ![c] = e]
      BY <1>0, <1>3 DEF Handlers, Sessions
    <2>3. [session EXCEPT ![c] = e] \in [Captures -> Sessions]
      <3> HIDE DEF e, h
      <3>1. QED BY <1>0, <2>1
    <2> HIDE DEF e
    <2>4. QED BY <1>0, <1>3, <2>1, <2>2, <2>3 DEF Handlers, Owners
  <1> HIDE DEF h
  <1>6. ASSUME NEW d \in Captures
        PROVE  Placed(g, d) /\ (Busy(g, d) => g.owner = d) /\ Heard(g, backlog, ended, missed, d)
    <2>1. Placed(Now, d) /\ (Busy(Now, d) => Now.owner = d) /\ Heard(Now, backlog, ended, missed, d)
      BY <1>0
    <2>2. Busy(g, d) = Busy(Now, d)
      BY <1>3, NowFields DEF Busy
    <2>3. ASSUME NEW u \in Tracks
          PROVE  /\ g.track[d][u].ws = "connecting" => g.session[d].state = "opening"
                 /\ g.track[d][u].ws \in {"open", "closing"} => Busy(g, d)
                 /\ g.track[d][u].opened => g.track[d][u].ws # "connecting"
                 /\ g.track[d][u].opened => g.session[d].state # "new"
                 /\ g.track[d][u].terminal => track[d][u].terminal
      <3>1. CASE d = c /\ u = t
        BY <3>1, <1>1, <1>2, <1>3, <1>4 DEF Busy
      <3>2. CASE d # c \/ u # t
        BY <3>2, <2>1, <2>2, <1>3, <1>4, NowFields DEF Placed
      <3>3. QED BY <3>1, <3>2
    <2>4. Placed(g, d)
      BY <2>1, <2>3, <1>3, NowFields DEF Placed
    <2>5. Busy(g, d) => g.owner = d
      BY <2>1, <2>2, <1>3, NowFields
    <2>6. d # c => \A u \in Tracks : g.track[d][u] = track[d][u]
      BY <1>4
    <2>7. Heard(g, backlog, ended, missed, d)
      <3>1. /\ g.session[d] = Now.session[d] /\ g.stop[d] = Now.stop[d]
            /\ g.active = Now.active
            /\ \A u \in Tracks : g.track[d][u].terminal => Now.track[d][u].terminal
        BY <2>3, <1>3, NowFields
      <3>2. Now.session[d].state = "live" => d # c
        BY <1>1, NowFields
      <3>3. d # c => \A u \in Tracks : g.track[d][u] = Now.track[d][u]
        BY <2>6, NowFields
      <3>4. QED BY <2>1, <3>1, <3>2, <3>3 DEF Heard
    <2>8. QED BY <2>4, <2>5, <2>7
  <1>7. ASSUME NEW d \in Captures, \A u \in Tracks : g.track[c][u].opened
        PROVE  Placed(h, d) /\ (Busy(h, d) => h.owner = d) /\ Heard(h, backlog, ended, missed, d)
    <2>1. Placed(g, d) /\ (Busy(g, d) => g.owner = d) /\ Heard(g, backlog, ended, missed, d)
      BY <1>6
    <2>2. CASE d = c
      <3>1. \A u \in Tracks : g.track[c][u].ws # "connecting"
        BY <1>7, <2>1, <2>2 DEF Placed
      <3>2. Placed(h, d)
        BY <3>1, <2>1, <2>2, <1>5, NoneIsNoCapture DEF Placed, Busy
      <3>3. Heard(h, backlog, ended, missed, d)
        BY <2>1, <2>2, <1>1, <1>3, <1>5 DEF Heard
      <3>4. QED BY <3>2, <3>3, <2>2, <1>1, <1>5
    <2>3. CASE d # c
      <3>1. g.session[d] = h.session[d] /\ ~Busy(g, d)
        BY <2>1, <2>3, <1>1, <1>3, <1>5
      <3>2. ~Busy(h, d)
        BY <3>1 DEF Busy
      <3>3. Placed(h, d)
        BY <3>1, <3>2, <2>1, <2>3, <1>5, NoneIsNoCapture DEF Placed, Busy
      <3>4. Heard(h, backlog, ended, missed, d)
        BY <3>1, <3>2, <2>1, <2>3, <1>3, <1>5 DEF Heard, Busy
      <3>5. QED BY <3>2, <3>3, <3>4
    <2>4. QED BY <2>2, <2>3
  <1>8. Typed(g) /\ Owned(g) /\ AllHeard(g, backlog, ended, missed)
    <2>1. QED BY <1>3, <1>6 DEF Typed, Owned, AllHeard
  <1>9. ASSUME \A u \in Tracks : g.track[c][u].opened
        PROVE  Typed(h) /\ Owned(h) /\ AllHeard(h, backlog, ended, missed)
    <2>1. QED BY <1>5, <1>7, <1>9 DEF Typed, Owned, AllHeard
  <1>10. /\ Become(IF \A u \in Tracks : g.track[c][u].opened THEN h ELSE g)
         /\ UNCHANGED provider
    BY DEF Opens, g, h
  <1>11. CASE \A u \in Tracks : g.track[c][u].opened
    BY <1>9, <1>10, <1>11, Concludes DEF LiveIInv, provider
  <1>12. CASE ~\A u \in Tracks : g.track[c][u].opened
    BY <1>8, <1>10, <1>12, Concludes DEF LiveIInv, provider
  <1>13. QED BY <1>11, <1>12

(* Giving up the ownership alone.                                          *)
LEMMA OwnerOnly ==
    ASSUME NEW h \in Handlers
    PROVE  [h EXCEPT !.owner = None] = [h EXCEPT !.owner = None, !.stop = h.stop]
  BY DEF Handlers

LEMMA InvalidateOwnerOK ==
    ASSUME LiveIInv, InvalidateOwner
    PROVE  LiveIInv'
  <1> DEFINE h == StopNow(Now)
             g == [h EXCEPT !.owner = None]
  <1>1. Typed(h) /\ \A c \in Captures : ~Busy(h, c)
    BY StopNowTyped DEF LiveIInv
  <1>2. AllHeard(h, backlog, ended, missed)
    BY StopNowHeard DEF LiveIInv
  <1>3. Become(g) /\ UNCHANGED provider
    BY DEF InvalidateOwner
  <1> HIDE DEF h
  <1>4. h \in Handlers /\ h.stop \in [Captures -> Results]
    BY <1>1 DEF Typed, Handlers
  <1>5. g = [h EXCEPT !.owner = None, !.stop = h.stop]
    BY <1>4, OwnerOnly
  <1>6. Typed(g) /\ Owned(g) /\ AllHeard(g, backlog, ended, missed)
    BY <1>1, <1>2, <1>4, <1>5, NobodyOwns
  <1> HIDE DEF g
  <1>7. QED BY <1>3, <1>6, Concludes DEF LiveIInv, provider

(* A stop that ends everything and answers x.                              *)
LEMMA StopsEverything ==
    ASSUME LiveIInv, NEW c \in Captures, NEW x \in Results,
           x = "complete" => StopNow(Now).stop[c] = "complete",
           Become([StopNow(Now) EXCEPT !.owner = None, !.stop[c] = x]),
           UNCHANGED provider
    PROVE  LiveIInv'
  <1> DEFINE h == StopNow(Now)
             stops == [h.stop EXCEPT ![c] = x]
             g == [h EXCEPT !.owner = None, !.stop = stops]
  <1>1. Typed(h) /\ \A d \in Captures : ~Busy(h, d)
    BY StopNowTyped DEF LiveIInv
  <1>2. AllHeard(h, backlog, ended, missed)
    BY StopNowHeard DEF LiveIInv
  <1> HIDE DEF h
  <1>3. h \in Handlers /\ h.stop \in [Captures -> Results]
    BY <1>1 DEF Typed, Handlers
  <1>4. [h EXCEPT !.owner = None, !.stop[c] = x] = g
    BY <1>3 DEF Handlers
  <1>5. /\ stops \in [Captures -> Results]
        /\ \A d \in Captures : stops[d] = "complete" => h.stop[d] = "complete"
    BY <1>3 DEF h
  <1>6. Become(g)
    BY <1>4 DEF h
  <1> HIDE DEF stops
  <1>7. Typed(g) /\ Owned(g) /\ AllHeard(g, backlog, ended, missed)
    BY <1>1, <1>2, <1>5, NobodyOwns
  <1> HIDE DEF g
  <1>8. QED BY <1>6, <1>7, Concludes DEF LiveIInv, provider

LEMMA ForceStopOK ==
    ASSUME LiveIInv, NEW c \in Captures, ForceStop(c)
    PROVE  LiveIInv'
  <1> DEFINE h == StopNow(Now)
             x == IF h.stop[c] = "none" THEN "forced" ELSE h.stop[c]
  <1>1. h.stop[c] \in Results /\ x \in Results
    <2>1. Typed(h)
      BY StopNowTyped DEF LiveIInv
    <2> HIDE DEF h
    <2>2. h.stop[c] \in Results
      BY <2>1 DEF Typed, Handlers
    <2>3. QED BY <2>2 DEF Results
  <1>2. Become([h EXCEPT !.owner = None, !.stop[c] = x]) /\ UNCHANGED provider
    BY DEF ForceStop
  <1>3. x = "complete" => h.stop[c] = "complete"
    OBVIOUS
  <1> HIDE DEF x
  <1>4. QED BY <1>1, <1>2, <1>3, StopsEverything

(* A graceful stop sends no end of the stream to a socket that is gone.    *)
LEMMA GracefulStopOK ==
    ASSUME LiveIInv, NEW c \in Captures, NEW Failing \in SUBSET Tracks,
           active = c, session[c].state = "live", stop[c] = "none",
           GracefulStop(c, Failing), UNCHANGED <<frames, backlog, missed>>
    PROVE  LiveIInv'
  <1> DEFINE open == {t \in Tracks : track[c][t].ws = "open"}
             unconfirmed == {t \in Tracks : track[c][t].ws = "closed"} \cup Failing
             ends == [t \in Tracks |-> t \in open \ Failing]
             acks == [t \in Tracks |-> [track[c][t] EXCEPT !.acked = t \in unconfirmed]]
             e == [session[c] EXCEPT !.state = "closing"]
             g == [Now EXCEPT !.session[c].state = "closing", !.stop[c] = "waiting",
                      !.track[c] = [t \in Tracks |-> [@[t] EXCEPT !.acked = t \in unconfirmed]]]
             h == Close(g, c, "incomplete")
  <1>0. /\ Now \in Handlers /\ \A d \in Captures : Placed(Now, d) /\ Heard(Now, backlog, ended, missed, d)
        /\ \A d \in Captures : Busy(Now, d) => Now.owner = d
        /\ track \in [Captures -> [Tracks -> Streams]] /\ session \in [Captures -> Sessions]
        /\ stop \in [Captures -> Results]
    BY NowFields DEF LiveIInv, Typed, Owned, AllHeard, Handlers
  <1>1. /\ ended' = [ended EXCEPT ![c] = ends]
        /\ Become(IF unconfirmed = Tracks THEN h ELSE g)
    BY DEF GracefulStop
  <1>2. /\ acks \in [Tracks -> Streams]
        /\ \A t \in Tracks : /\ acks[t].ws = track[c][t].ws /\ acks[t].opened = track[c][t].opened
                             /\ acks[t].terminal = track[c][t].terminal
    <2>1. ASSUME NEW t \in Tracks, NEW b \in BOOLEAN
          PROVE  LET r == [track[c][t] EXCEPT !.acked = b] IN
                 /\ r \in Streams /\ r.ws = track[c][t].ws
                 /\ r.opened = track[c][t].opened /\ r.terminal = track[c][t].terminal
      <3>1. track[c][t] \in Streams
        BY <1>0
      <3> HIDE DEF g, acks, e, ends, unconfirmed
      <3>2. QED BY <3>1 DEF Streams
    <2>2. \A t \in Tracks : (t \in unconfirmed) \in BOOLEAN
      OBVIOUS
    <2> HIDE DEF g, e, ends, unconfirmed
    <2>3. QED BY <2>1, <2>2
  <1>3. e \in Sessions /\ e.state = "closing"
    <2>1. session[c] \in Sessions
      BY <1>0
    <2>2. QED BY <2>1 DEF Sessions, Session
  <1> HIDE DEF unconfirmed
  <1>4. /\ g.session = [session EXCEPT ![c] = e]
        /\ g.stop = [stop EXCEPT ![c] = "waiting"]
        /\ g.track = [track EXCEPT ![c] = acks]
        /\ g.owner = owner /\ g.active = active /\ g.pending = pending
    <2>1. g.session = [session EXCEPT ![c] = e]
      BY <1>0, NowFields DEF Handlers, Sessions, Now
    <2>2. g.track = [track EXCEPT ![c] = acks]
      BY <1>0, NowFields DEF Handlers, Now
    <2>3. g.stop = [stop EXCEPT ![c] = "waiting"]
      BY <1>0, NowFields DEF Handlers, Now
    <2>4. g.owner = owner /\ g.active = active /\ g.pending = pending
      BY DEF Now
    <2>5. QED BY <2>1, <2>2, <2>3, <2>4
  <1> HIDE DEF g, acks, e, ends, unconfirmed
  <1>5. /\ g \in Handlers
        /\ g.session[c].state = "closing" /\ g.stop[c] = "waiting" /\ g.track[c] = acks
        /\ \A d \in Captures \ {c} : /\ g.session[d] = session[d]
                                     /\ g.stop[d] = stop[d]
                                     /\ g.track[d] = track[d]
    <2>1. g.session \in [Captures -> Sessions] /\ g.track \in [Captures -> [Tracks -> Streams]]
      BY <1>0, <1>2, <1>3, <1>4
    <2>2. g.stop \in [Captures -> Results]
      BY <1>0, <1>4 DEF Results
    <2>3. g.owner \in Owners /\ g.active \in Owners /\ g.pending \in Owners
      BY <1>0, <1>4, NowFields DEF Handlers
    <2>4. g \in Handlers
      BY <1>0, <2>1, <2>2, <2>3 DEF Handlers, g
    <2>5. QED BY <2>4, <1>0, <1>3, <1>4
  <1>6. /\ ended' \in [Captures -> [Tracks -> BOOLEAN]]
        /\ \A t \in Tracks : track[c][t].ws # "open" => ~ended'[c][t]
        /\ \A d \in Captures \ {c} : ended'[d] = ended[d]
    <2>1. ends \in [Tracks -> BOOLEAN] /\ \A t \in Tracks : track[c][t].ws # "open" => ~ends[t]
      <3>1. \A t \in Tracks : (t \in open \ Failing) \in BOOLEAN
        OBVIOUS
      <3>2. ends \in [Tracks -> BOOLEAN]
        BY <3>1, Zenon DEF ends
      <3>3. ASSUME NEW t \in Tracks, track[c][t].ws # "open" PROVE ~ends[t]
        BY <3>3, Zenon DEF ends
      <3>4. QED BY <3>2, <3>3
    <2>2. ended \in [Captures -> [Tracks -> BOOLEAN]]
      BY DEF LiveIInv, ProviderTyped
    <2>3. QED BY <2>1, <2>2, <1>1
  <1>7. ProviderTyped(frames, backlog, ended, missed)'
    BY <1>6 DEF LiveIInv, ProviderTyped
  <1>8. ASSUME NEW d \in Captures
        PROVE  Placed(g, d) /\ (Busy(g, d) => g.owner = d) /\ Heard(g, backlog, ended', missed, d)
    <2>1. Placed(Now, d) /\ (Busy(Now, d) => Now.owner = d) /\ Heard(Now, backlog, ended, missed, d)
      BY <1>0
    <2>2. CASE d = c
      <3>1. Busy(Now, c)
        BY NowFields DEF Busy
      <3>2. Placed(g, c)
        BY <2>1, <2>2, <1>2, <1>4, <1>5, NowFields, NoneIsNoCapture DEF Placed, Busy
      <3>3. \A t \in Tracks : ~g.track[c][t].terminal
        BY <2>1, <2>2, <1>2, <1>5, NowFields DEF Heard
      <3>4. c \in missed => \E t \in Tracks : ~ended'[c][t]
        BY <2>1, <2>2, <1>6, NowFields DEF Heard
      <3>5. Heard(g, backlog, ended', missed, c)
        BY <3>3, <3>4, <1>5 DEF Heard
      <3>6. QED BY <2>1, <2>2, <3>1, <3>2, <3>5, <1>4, NowFields
    <2>3. CASE d # c
      <3>1. g.session[d] = Now.session[d] /\ g.stop[d] = Now.stop[d] /\ g.track[d] = Now.track[d]
        BY <2>3, <1>5, NowFields
      <3>2. Placed(g, d) /\ (Busy(g, d) => g.owner = d)
        BY <2>1, <3>1, <1>4, NowFields DEF Placed, Busy
      <3>3. Heard(g, backlog, ended', missed, d)
        BY <2>1, <2>3, <3>1, <1>4, <1>6, NowFields DEF Heard
      <3>4. QED BY <3>2, <3>3
    <2>4. QED BY <2>2, <2>3
  <1>9. Typed(g) /\ Owned(g) /\ AllHeard(g, backlog, ended', missed)
    BY <1>5, <1>8 DEF Typed, Owned, AllHeard
  <1>10. Typed(h) /\ Owned(h) /\ AllHeard(h, backlog, ended', missed)
    <2>0. "incomplete" \in Results
      BY DEF Results
    <2>1. Typed(h) /\ Owned(h)
      BY <2>0, <1>9, CloseTyped, CloseOwned
    <2>2. QED BY <2>1, <1>5, <1>9, CloseHeard
  <1> HIDE DEF h
  <1>11. CASE unconfirmed = Tracks
    BY <1>1, <1>7, <1>10, <1>11, Concludes
  <1>12. CASE unconfirmed # Tracks
    BY <1>1, <1>7, <1>9, <1>12, Concludes
  <1>13. QED BY <1>11, <1>12

LEMMA StopOK ==
    ASSUME LiveIInv, NEW c \in Captures, Stop(c)
    PROVE  LiveIInv'
  <1>0. /\ Now \in Handlers /\ Placed(Now, c) /\ Heard(Now, backlog, ended, missed, c)
        /\ stop \in [Captures -> Results] /\ stop[c] = "none" /\ owner = c
        /\ UNCHANGED <<frames, backlog, missed>>
    BY NowFields DEF LiveIInv, Typed, AllHeard, Handlers, Stop
  <1>1. CASE active = c /\ session[c].state = "live"
    <2>1. \E Failing \in SUBSET Tracks : GracefulStop(c, Failing)
      BY <1>1 DEF Stop
    <2>2. QED BY <2>1, <1>0, <1>1, GracefulStopOK
  <1>2. CASE active = c /\ session[c].state = "closed"
    <2> DEFINE g == [Now EXCEPT !.active = None, !.owner = None,
                        !.stop[c] = IF session[c].overflow THEN "incomplete" ELSE "complete"]
    <2>1. session[c].overflow
      BY <1>0, <1>2, NowFields DEF Heard
    <2>2. Become(g) /\ UNCHANGED ended
      BY <1>2 DEF Stop
    <2>3. /\ g.owner = None /\ g.active = None /\ g.pending = pending
          /\ g.session = session /\ g.track = track
          /\ g.stop = [stop EXCEPT ![c] = "incomplete"]
      BY <1>0, <2>1, NowFields DEF Handlers
    <2>4. g \in Handlers
      <3>1. [stop EXCEPT ![c] = "incomplete"] \in [Captures -> Results]
        BY <1>0 DEF Results
      <3>2. QED BY <1>0, <2>3, <3>1 DEF Handlers, Owners
    <2> HIDE DEF g
    <2>5. ASSUME NEW d \in Captures
          PROVE  Placed(g, d) /\ ~Busy(g, d) /\ Heard(g, backlog, ended, missed, d)
      <3>1. Placed(Now, d) /\ Heard(Now, backlog, ended, missed, d) /\ (Busy(Now, d) => owner = d)
        BY NowFields DEF LiveIInv, Typed, Owned, AllHeard
      <3>2. ~Busy(Now, d) /\ Busy(g, d) = Busy(Now, d)
        BY <3>1, <2>3, <1>0, <1>2, NowFields DEF Busy
      <3>3. g.stop[d] = IF d = c THEN "incomplete" ELSE stop[d]
        BY <1>0, <2>3
      <3>4. Placed(g, d)
        BY <3>1, <3>2, <2>3, NowFields, NoneIsNoCapture DEF Placed, Busy
      <3>5. Heard(g, backlog, ended, missed, d)
        BY <3>1, <3>3, <2>3, NowFields, NoneIsNoCapture DEF Heard
      <3>6. QED BY <3>2, <3>4, <3>5
    <2>6. Typed(g) /\ Owned(g) /\ AllHeard(g, backlog, ended, missed)
      BY <2>4, <2>5 DEF Typed, Owned, AllHeard
    <2>7. QED BY <2>2, <2>6, <1>0, Concludes DEF LiveIInv
  <1>3. CASE active # c
    <2>1. Become([StopNow(Now) EXCEPT !.owner = None, !.stop[c] = "nothing"]) /\ UNCHANGED ended
      BY <1>3 DEF Stop
    <2>2. "nothing" \in Results
      BY DEF Results
    <2>3. QED BY <2>1, <2>2, <1>0, StopsEverything DEF provider
  <1>4. active = c => session[c].state \in {"live", "closed"}
    BY <1>0, NowFields DEF Placed
  <1>5. QED BY <1>1, <1>2, <1>3, <1>4

(* The sockets of the session that is replaced are closed before the ones  *)
(* of its successor open.                                                  *)
LEMMA StartOK ==
    ASSUME LiveIInv, NEW c \in Captures, Start(c)
    PROVE  LiveIInv'
  <1> DEFINE o == [Now EXCEPT !.owner = c]
             h == StopNow(o)
             acks == [t \in Tracks |-> [h.track[c][t] EXCEPT !.ws = "connecting"]]
             g == [h EXCEPT !.session[c].state = "opening",
                           !.session[c].started = "waiting",
                           !.pending = c,
                           !.track[c] = [t \in Tracks |-> [@[t] EXCEPT !.ws = "connecting"]]]
             f == [h EXCEPT !.session[c].state = "closed",
                           !.session[c].started = "failed",
                           !.owner = None]
  <1>1. /\ (Become(g) \/ Become(f)) /\ UNCHANGED provider
        /\ Now.session[c].state = "new"
    BY NowFields DEF Start
  <1>2. /\ Now \in Handlers /\ \A d \in Captures : Placed(Now, d)
        /\ \A d \in Captures : Heard(Now, backlog, ended, missed, d)
    BY DEF LiveIInv, Typed, AllHeard
  <1>3. /\ o \in Handlers /\ o.owner = c
        /\ o.active = Now.active /\ o.pending = Now.pending
        /\ o.session = Now.session /\ o.track = Now.track /\ o.stop = Now.stop
    BY <1>2 DEF Handlers, Owners
  <1> HIDE DEF o
  <1>4. ASSUME NEW d \in Captures PROVE Placed(o, d) /\ Heard(o, backlog, ended, missed, d)
    <2>1. Placed(o, d)
      BY <1>2, <1>3 DEF Placed, Busy
    <2>2. Heard(o, backlog, ended, missed, d)
      BY <1>2, <1>3 DEF Heard
    <2>3. QED BY <2>1, <2>2
  <1>5. Typed(o) /\ AllHeard(o, backlog, ended, missed)
    BY <1>3, <1>4 DEF Typed, AllHeard
  <1>6. c \notin {o.active, o.pending}
    BY <1>1, <1>2, <1>3 DEF Placed
  <1>7. /\ Typed(h) /\ AllHeard(h, backlog, ended, missed)
        /\ \A d \in Captures : ~Busy(h, d)
        /\ h.active = None /\ h.pending = None /\ h.owner = c
        /\ h.session[c] = Now.session[c] /\ h.track[c] = Now.track[c] /\ h.stop[c] = Now.stop[c]
    BY <1>3, <1>5, <1>6, StopNowTyped, StopNowHeard
  <1> HIDE DEF h
  <1>8. /\ h \in Handlers /\ \A d \in Captures : Placed(h, d) /\ Heard(h, backlog, ended, missed, d)
        /\ h.track[c] \in [Tracks -> Streams] /\ h.session[c] \in Sessions
        /\ h.session[c].state = "new"
    BY <1>1, <1>7 DEF Typed, AllHeard, Handlers
  <1>9. CASE Become(g)
    <2> DEFINE e == [h.session[c] EXCEPT !.state = "opening", !.started = "waiting"]
    <2>1. e \in Sessions /\ e.state = "opening"
      BY <1>8 DEF Sessions, Session
    <2>2. /\ acks \in [Tracks -> Streams]
          /\ \A t \in Tracks : /\ acks[t].ws = "connecting"
                               /\ acks[t].opened = h.track[c][t].opened
                               /\ acks[t].terminal = h.track[c][t].terminal
      <3>1. \A t \in Tracks : h.track[c][t] \in Streams
        BY <1>8
      <3>2. QED BY <3>1 DEF Streams, Socket
    <2>3. g.session = [h.session EXCEPT ![c] = e] /\ g.track = [h.track EXCEPT ![c] = acks]
      BY <1>8 DEF Handlers, Sessions
    <2>4. g.owner = h.owner /\ g.active = h.active /\ g.pending = c /\ g.stop = h.stop
      BY <1>8 DEF Handlers
    <2>5. g \in Handlers
      <3>1. [h.session EXCEPT ![c] = e] \in [Captures -> Sessions]
        BY <1>8, <2>1 DEF Handlers
      <3>2. [h.track EXCEPT ![c] = acks] \in [Captures -> [Tracks -> Streams]]
        BY <1>8, <2>2 DEF Handlers
      <3>3. QED BY <1>8, <2>3, <2>4, <3>1, <3>2 DEF Handlers, Owners
    <2>6. /\ g.session[c].state = "opening" /\ g.track[c] = acks
          /\ \A d \in Captures \ {c} : g.session[d] = h.session[d] /\ g.track[d] = h.track[d]
      BY <1>8, <2>1, <2>3 DEF Handlers
    <2> HIDE DEF g, e, acks
    <2>7. ASSUME NEW d \in Captures
          PROVE  Placed(g, d) /\ (Busy(g, d) => g.owner = d)
                    /\ Heard(g, backlog, ended, missed, d)
      <3>1. Placed(h, d) /\ ~Busy(h, d) /\ Heard(h, backlog, ended, missed, d)
        BY <1>7, <1>8
      <3>2. CASE d = c
        <4>1. \A t \in Tracks : ~h.track[c][t].opened /\ ~h.track[c][t].terminal
          BY <3>1, <3>2, <1>8 DEF Placed, Heard
        <4>2. Placed(g, c)
          BY <4>1, <2>2, <2>4, <2>6, <1>7, NoneIsNoCapture DEF Placed, Busy
        <4>3. Heard(g, backlog, ended, missed, c)
          BY <4>1, <3>1, <3>2, <2>2, <2>4, <2>6, <1>7, <1>8, NoneIsNoCapture DEF Heard
        <4>4. QED BY <4>2, <4>3, <3>2, <2>4, <1>7
      <3>3. CASE d # c
        <4>1. ~Busy(g, d)
          BY <3>1, <3>3, <2>6 DEF Busy
        <4>2. Placed(g, d)
          BY <4>1, <3>1, <3>3, <2>4, <2>6, <1>7, NoneIsNoCapture DEF Placed, Busy
        <4>3. Heard(g, backlog, ended, missed, d)
          BY <3>1, <3>3, <2>4, <2>6 DEF Heard
        <4>4. QED BY <4>1, <4>2, <4>3
      <3>4. QED BY <3>2, <3>3
    <2>8. Typed(g) /\ Owned(g) /\ AllHeard(g, backlog, ended, missed)
      BY <2>5, <2>7 DEF Typed, Owned, AllHeard
    <2>9. QED BY <1>1, <1>9, <2>8, Concludes DEF LiveIInv, provider
  <1>10. CASE Become(f)
    <2> DEFINE e == [h.session[c] EXCEPT !.state = "closed", !.started = "failed"]
    <2>1. e \in Sessions /\ e.state = "closed"
      BY <1>8 DEF Sessions, Session
    <2>2. f.session = [h.session EXCEPT ![c] = e]
      BY <1>8 DEF Handlers, Sessions
    <2>3. f.owner = None /\ f.active = None /\ f.pending = None
          /\ f.stop = h.stop /\ f.track = h.track
      BY <1>7, <1>8 DEF Handlers
    <2>4. f \in Handlers
      <3>1. [h.session EXCEPT ![c] = e] \in [Captures -> Sessions]
        BY <1>8, <2>1 DEF Handlers
      <3>2. QED BY <1>8, <2>2, <2>3, <3>1 DEF Handlers, Owners
    <2>5. /\ f.session[c].state = "closed"
          /\ \A d \in Captures \ {c} : f.session[d] = h.session[d]
      BY <1>8, <2>1, <2>2 DEF Handlers
    <2> HIDE DEF f, e
    <2>6. ASSUME NEW d \in Captures
          PROVE  Placed(f, d) /\ ~Busy(f, d) /\ Heard(f, backlog, ended, missed, d)
      <3>1. Placed(h, d) /\ ~Busy(h, d) /\ Heard(h, backlog, ended, missed, d)
        BY <1>7, <1>8
      <3>2. ~Busy(f, d)
        BY <3>1, <2>5 DEF Busy
      <3>3. Placed(f, d)
        BY <3>1, <3>2, <2>3, <2>5, <1>8, NoneIsNoCapture DEF Placed, Busy
      <3>4. Heard(f, backlog, ended, missed, d)
        BY <3>1, <2>3, <2>5, <1>8, NoneIsNoCapture DEF Heard
      <3>5. QED BY <3>2, <3>3, <3>4
    <2>7. Typed(f) /\ Owned(f) /\ AllHeard(f, backlog, ended, missed)
      BY <2>4, <2>6 DEF Typed, Owned, AllHeard
    <2>8. QED BY <1>1, <1>10, <2>7, Concludes DEF LiveIInv, provider
  <1>11. QED BY <1>1, <1>9, <1>10

-----------------------------------------------------------------------------
LEMMA StepOK ==
    ASSUME LiveIInv, [LiveNext]_liveVars
    PROVE  LiveIInv'
  <1>1. CASE UNCHANGED liveVars
    <2>1. Now' = Now /\ UNCHANGED provider
      BY <1>1 DEF liveVars, handlers, provider, Now
    <2>2. QED BY <2>1 DEF LiveIInv, provider
  <1>2. ASSUME NEW c \in Captures, Start(c) \/ Stop(c) \/ ForceStop(c) \/ Deadline(c)
        PROVE  LiveIInv'
    BY <1>2, StartOK, StopOK, ForceStopOK, DeadlineOK
  <1>3. ASSUME NEW c \in Captures, NEW t \in Tracks,
               \/ Push(c, t) \/ Opens(c, t) \/ ConnectFails(c, t)
               \/ PeerEnds(c, t) \/ SocketClosed(c, t)
               \/ Line(c, t) \/ Confirms(c, t) \/ ErrorFrame(c, t)
        PROVE  LiveIInv'
    BY <1>3, PushOK, OpensOK, ConnectFailsOK, PeerEndsOK, SocketClosedOK,
       LineOK, ConfirmsOK, ErrorFrameOK
  <1>4. QED BY <1>1, <1>2, <1>3, InvalidateOwnerOK DEF LiveNext

(* The sessions stand where their sockets, the owner and the stops under   *)
(* way say, whatever events interleave.                                    *)
THEOREM CloudSttInductive == LiveSpec => []LiveIInv
  BY InitOK, StepOK, PTL DEF LiveSpec

(* Every variable keeps its type, for every set of captures and tracks:    *)
(* in particular the pending session is one whose sockets are opening, and *)
(* the active one has been live.                                           *)
THEOREM CloudSttTypeCorrect == LiveSpec => []LiveTypeOK
  <1>1. LiveIInv => LiveTypeOK
    <2> SUFFICES ASSUME LiveIInv PROVE LiveTypeOK
      OBVIOUS
    <2>1. /\ owner \in Owners /\ active \in Owners /\ pending \in Owners
          /\ \A c \in Captures :
                /\ session[c] \in Sessions /\ stop[c] \in Results
                /\ \A t \in Tracks : track[c][t] \in Streams
      BY NowFields DEF LiveIInv, Typed, Handlers
    <2>2. \A c \in Captures : Placed(Now, c)
      BY DEF LiveIInv, Typed
    <2>3. pending # None => session[pending].state = "opening"
      BY <2>1, <2>2, NowFields DEF Placed, Owners
    <2>4. active # None => session[active].state \in {"live", "closing", "closed"}
      BY <2>1, <2>2, NowFields DEF Placed, Owners
    <2>5. ASSUME NEW c \in Captures, NEW t \in Tracks
          PROVE  backlog[c][t] \in 0..frames[c][t] /\ frames[c][t] \in 0..MaxFrames
      <3>1. backlog[c][t] \in Nat /\ frames[c][t] \in 0..MaxFrames /\ backlog[c][t] <= frames[c][t]
        BY DEF LiveIInv, ProviderTyped
      <3>2. QED BY <3>1, SettingsAreTyped
    <2>6. missed \subseteq Captures
      BY DEF LiveIInv, ProviderTyped
    <2>7. QED BY <2>1, <2>3, <2>4, <2>5, <2>6 DEF LiveTypeOK, Owners, Sessions, Results, Streams
  <1>2. QED BY <1>1, CloudSttInductive, PTL

(* However starts, replacements, stops, revocations, failures and timers   *)
(* interleave, a socket that is open or opening belongs to the owner, and  *)
(* to the session the next stop reaches.                                   *)
THEOREM SocketsAreOwned == LiveSpec => []SocketsBelongToTheOwner
  <1>1. LiveIInv => SocketsBelongToTheOwner
    <2> SUFFICES ASSUME LiveIInv, NEW c \in Captures, NEW t \in Tracks,
                        track[c][t].ws \in {"connecting", "open"}
                 PROVE  owner = c /\ (active = c \/ pending = c)
      BY DEF SocketsBelongToTheOwner
    <2>1. Placed(Now, c) /\ (Busy(Now, c) => owner = c)
      BY NowFields DEF LiveIInv, Typed, Owned
    <2>2. QED BY <2>1, NowFields DEF Placed, Busy
  <1>2. QED BY <1>1, CloudSttInductive, PTL

(* A Stop is answered "complete" only when every frame that was pushed on  *)
(* every track has been transcribed and shown, whatever sockets broke,     *)
(* acknowledged early or confirmed late.                                   *)
THEOREM CompleteIsComplete == LiveSpec => []CompleteMeansComplete
  <1>1. LiveIInv => CompleteMeansComplete
    BY NowFields DEF LiveIInv, AllHeard, Heard, CompleteMeansComplete
  <1>2. QED BY <1>1, CloudSttInductive, PTL
=============================================================================
