-------------------------- MODULE RetryQueueProofs --------------------------
(***************************************************************************)
(* The two queues that keep what could not be sent: what the queue of CRM  *)
(* writes guarantees for any number of actions and of overlapping loops of *)
(* retries, any schedule and any number of crashes, and what the outbox of *)
(* Operator events guarantees for any number of events, of overlapping     *)
(* heartbeat ticks, any cap and any schedule of waits.                     *)
(***************************************************************************)
EXTENDS PushQueue, OperatorQueue, QueueLemmas

-----------------------------------------------------------------------------
(*                        The queue of CRM writes                          *)
-----------------------------------------------------------------------------

Rows == [id : Actions, attempts : Nat, wait : Nat, dead : BOOLEAN]

Retries == [of : {{}} \cup {{a} : a \in Actions},
            at : {"idle", "reporting", "processing"}]

(* No action has two rows.                                                 *)
IdsDistinct(q) == \A i, j \in DOMAIN q : q[i].id = q[j].id => i = j

IsQueue(q) == q \in Seq(Rows) /\ IdsDistinct(q)

TypeOK ==
    /\ IsQueue(list) /\ IsQueue(disk)
    /\ request \in [Actions -> {"new", "sending", "failed", "sent"}]
    /\ pc \in [Owners -> {"idle", "pushing"}]
    /\ todo \in [Owners -> Seq(Actions)]
    /\ due \subseteq Actions
    /\ retry \in [Loops -> Retries]
    /\ {asked, retries, faults, crashes} \subseteq Nat
    /\ copies \in [Actions -> Nat] /\ sent \in [Actions -> Nat]
    /\ unsaved \in BOOLEAN

(* One flag for the timer and all loops: two batches never overlap.        *)
OneBatch == \A o, p \in Owners : pc[o] = "pushing" /\ pc[p] = "pushing" => o = p

(* What is left of a batch is still in the queue, and is pushed once.      *)
BatchIsQueued ==
    \A o \in Owners : pc[o] = "pushing" =>
        /\ todo[o] # <<>> /\ IsInjective(todo[o])
        /\ \A a \in Actions : Contains(todo[o], a) => a \in Queued

(* Whatever is still queued may still be written once.                     *)
PaidFor ==
    \A a \in Actions :
        sent[a] + (IF a \in Queued THEN 1 ELSE 0) <= copies[a] + crashes

IInv == TypeOK /\ OneBatch /\ BatchIsQueued /\ PaidFor /\ DurableBetweenBatches

-----------------------------------------------------------------------------
(* The operators of the queue.                                             *)

Ids(q) == {q[i].id : i \in DOMAIN q}

(* A row that is queued is found.                                          *)
LEMMA RowIsFound ==
    ASSUME IsQueue(list), NEW a \in Ids(list)
    PROVE  Row(a) \in Rows /\ Row(a) \in Range(list) /\ Row(a).id = a
  <1>1. \E r \in Range(list) : r.id = a
    BY DEF Ids, Range
  <1>2. Row(a) \in Range(list) /\ Row(a).id = a
    BY <1>1 DEF Row
  <1>3. Range(list) \subseteq Rows
    BY DEF IsQueue, Range
  <1>4. QED BY <1>2, <1>3

(* The schedule of waits is read within its bounds.                        *)
LEMMA WaitIsNatural ==
    ASSUME NEW n \in Nat \ {0}
    PROVE  BackoffFor(n) \in Nat
  <1>1. Len(Backoff) \in Nat \ {0}
    BY BackoffIsSchedule
  <1> DEFINE S == {n, Len(Backoff)}
  <1>2. \E x \in S : \A y \in S : x =< y
    BY <1>1
  <1>3. Min(S) \in S /\ \A y \in S : Min(S) =< y
    <2> HIDE DEF S
    <2>1. QED BY <1>2 DEF Min
  <1>4. Min(S) \in 1 .. Len(Backoff)
    <2>1. \A x \in S : x \in Nat \ {0}
      BY <1>1
    <2>2. Len(Backoff) \in S
      OBVIOUS
    <2> HIDE DEF S
    <2>3. QED BY <2>1, <2>2, <1>1, <1>3
  <1>5. QED BY <1>4, BackoffIsSchedule DEF BackoffFor

(* A failed row is a row of the same action.                               *)
LEMMA FailedIsRow ==
    ASSUME NEW r \in Rows
    PROVE  Failed(r) \in Rows /\ Failed(r).id = r.id
  <1>1. r.attempts + 1 \in Nat \ {0}
    BY DEF Rows
  <1>2. BackoffFor(r.attempts + 1) \in Nat
    BY <1>1, WaitIsNatural
  <1> HIDE DEF BackoffFor
  <1>3. QED BY <1>1, <1>2 DEF Failed, Rows

(* Replacing a row by another one of the same action moves nobody.         *)
LEMMA WithKeepsQueue ==
    ASSUME IsQueue(list), NEW r \in Rows
    PROVE  IsQueue(With(r)) /\ Ids(With(r)) = Ids(list)
  <1> DEFINE w == With(r)
  <1>1. list \in Seq(Rows) /\ DOMAIN list = 1 .. Len(list) /\ Len(list) \in Nat
    BY DEF IsQueue
  <1>2. w = [i \in 1 .. Len(list) |-> IF list[i].id = r.id THEN r ELSE list[i]]
    BY <1>1 DEF With
  <1> HIDE DEF w
  <1>3. DOMAIN w = DOMAIN list /\ \A i \in DOMAIN list : w[i] \in Rows /\ w[i].id = list[i].id
    BY <1>1, <1>2
  <1>4. w \in Seq(Rows)
    BY <1>1, <1>2, <1>3
  <1>5. IdsDistinct(w)
    BY <1>3 DEF IsQueue, IdsDistinct
  <1>6. Ids(w) = Ids(list)
    BY <1>3 DEF Ids
  <1>7. QED BY <1>4, <1>5, <1>6 DEF w, IsQueue

(* The row of an action that is not queued goes last.                      *)
LEMMA AppendKeepsQueue ==
    ASSUME IsQueue(list), NEW r \in Rows, r.id \notin Ids(list)
    PROVE  /\ IsQueue(Append(list, r))
           /\ Ids(Append(list, r)) = Ids(list) \cup {r.id}
  <1> DEFINE w == Append(list, r)
             n == Len(list)
  <1>1. list \in Seq(Rows) /\ DOMAIN list = 1 .. n /\ n \in Nat
    BY DEF IsQueue
  <1>2. w \in Seq(Rows) /\ DOMAIN w = 1 .. n + 1
    BY <1>1
  <1>3. w[n + 1] = r /\ \A i \in 1 .. n : w[i] = list[i]
    BY <1>1
  <1> HIDE DEF w, n
  <1>4. \A i : i \in 1 .. n + 1 <=> i \in 1 .. n \/ i = n + 1
    BY <1>1
  <1>5. \A i \in 1 .. n : w[i].id # r.id
    BY <1>1, <1>3 DEF Ids
  <1>6. IdsDistinct(w)
    BY <1>1, <1>2, <1>3, <1>4, <1>5, Zenon DEF IsQueue, IdsDistinct
  <1>7. Ids(w) = Ids(list) \cup {r.id}
    BY <1>1, <1>2, <1>3, <1>4 DEF Ids
  <1>8. QED BY <1>2, <1>6, <1>7 DEF w, IsQueue

(* Dropping an action takes its row and no other one.                      *)
LEMMA DroppedKeepsQueue ==
    ASSUME IsQueue(list), NEW a
    PROVE  IsQueue(Dropped(a)) /\ Ids(Dropped(a)) = Ids(list) \ {a}
  <1> DEFINE out == {r \in Range(list) : r.id = a}
             w == Without(list, out)
  <1>1. list \in Seq(Rows) /\ DOMAIN list = 1 .. Len(list)
    BY DEF IsQueue
  <1>2. IsInjective(list)
    BY DEF IsQueue, IdsDistinct, IsInjective
  <1>3. /\ w \in Seq(Rows)
        /\ \A e : Contains(w, e) <=> Contains(list, e) /\ e \notin out
        /\ IsInjective(w)
    <2> HIDE DEF out
    <2>1. QED BY <1>1, <1>2, WithoutFacts
  <1>4. \A e : Contains(list, e) <=> e \in Range(list)
    BY <1>1 DEF Contains, Range
  <1>5. \A e : Contains(w, e) <=> e \in Range(list) /\ e.id # a
    BY <1>3, <1>4
  <1>6. Dropped(a) = w
    BY DEF Dropped
  <1> HIDE DEF w
  <1>7. DOMAIN w = 1 .. Len(w)
    BY <1>3
  <1>8. IdsDistinct(w)
    <2> SUFFICES ASSUME NEW i \in DOMAIN w, NEW j \in DOMAIN w, w[i].id = w[j].id
                 PROVE  i = j
      BY DEF IdsDistinct
    <2>1. w[i] \in Range(list) /\ w[j] \in Range(list)
      BY <1>5, <1>7 DEF Contains
    <2>2. w[i] = w[j]
      BY <2>1 DEF Range, IsQueue, IdsDistinct
    <2>3. QED BY <2>2, <1>3 DEF IsInjective
  <1>9. ASSUME NEW x PROVE x \in Ids(w) <=> \E e : Contains(w, e) /\ e.id = x
    BY <1>7 DEF Ids, Contains
  <1>10. ASSUME NEW x PROVE x \in Ids(list) <=> \E e \in Range(list) : e.id = x
    BY DEF Ids, Range
  <1>11. Ids(w) = Ids(list) \ {a}
    BY <1>5, <1>9, <1>10
  <1>12. QED BY <1>3, <1>6, <1>8, <1>11 DEF IsQueue

(* What is left of a batch is a part of it.                                *)
LEMMA RestOfBatch ==
    ASSUME NEW q \in Seq(Actions), IsInjective(q), NEW k \in 1 .. Len(q)
    PROVE  LET s == SubSeq(q, k, Len(q)) IN
           /\ s \in Seq(Actions) /\ s # <<>> /\ IsInjective(s)
           /\ \A a \in Actions : Contains(s, a) => Contains(q, a)
  <1> DEFINE s == SubSeq(q, k, Len(q))
  <1>1. k \in Nat \ {0} /\ Len(q) \in Nat /\ k <= Len(q) /\ DOMAIN q = 1 .. Len(q)
    OBVIOUS
  <1>2. /\ s \in Seq(Actions)
        /\ Len(s) = Len(q) - k + 1
        /\ \A i \in 1 .. Len(q) - k + 1 : s[i] = q[k + i - 1]
    BY <1>1, SubSeqProperties
  <1> HIDE DEF s
  <1>3. DOMAIN s = 1 .. Len(q) - k + 1
    BY <1>2
  <1>4. s # <<>>
    BY <1>1, <1>2
  <1>5. \A i \in 1 .. Len(q) - k + 1 : k + i - 1 \in 1 .. Len(q)
    BY <1>1
  <1>6. IsInjective(s)
    <2> SUFFICES ASSUME NEW i \in DOMAIN s, NEW j \in DOMAIN s, s[i] = s[j]
                 PROVE  i = j
      BY DEF IsInjective
    <2>1. i \in 1 .. Len(q) - k + 1 /\ j \in 1 .. Len(q) - k + 1
      BY <1>3
    <2>2. q[k + i - 1] = q[k + j - 1]
      BY <1>2, <2>1
    <2>3. k + i - 1 = k + j - 1
      BY <1>1, <1>5, <2>1, <2>2 DEF IsInjective
    <2>4. QED BY <1>1, <2>1, <2>3
  <1>7. \A a \in Actions : Contains(s, a) => Contains(q, a)
    BY <1>2, <1>5 DEF Contains
  <1>8. QED BY <1>2, <1>4, <1>6, <1>7 DEF s

-----------------------------------------------------------------------------
(* Steps.                                                                  *)

(* A save writes the rows and says so, or leaves what is on disk.          *)
LEMMA SaveSteps ==
    ASSUME TypeOK, NEW rows, IsQueue(rows), Save(rows)
    PROVE  /\ IsQueue(disk') /\ faults' \in Nat /\ unsaved' \in BOOLEAN
           /\ ~unsaved' => disk' = rows
  <1>1. faults \in Nat /\ IsQueue(disk)
    BY DEF TypeOK
  <1>2. CASE disk' = rows /\ unsaved' = FALSE /\ UNCHANGED faults
    BY <1>1, <1>2 DEF IsQueue, IdsDistinct
  <1>3. CASE faults' = faults + 1 /\ unsaved' = TRUE /\ UNCHANGED disk
    BY <1>1, <1>3 DEF IsQueue, IdsDistinct
  <1>4. QED BY <1>2, <1>3 DEF Save

(* A batch ends with a save, or goes on with a part of what was left.      *)
LEMMA BatchGoesOn ==
    ASSUME TypeOK, NEW o \in Owners, NEW rest \in Seq(Actions), NEW dueThen,
           dueThen \subseteq Actions, NEW rows, IsQueue(rows),
           Proceed(o, rest, rows, dueThen)
    PROVE  /\ due' \subseteq Actions
           /\ \/ /\ pc' = [pc EXCEPT ![o] = "idle"]
                 /\ todo' = [todo EXCEPT ![o] = <<>>]
                 /\ Save(rows)
              \/ /\ pc' = [pc EXCEPT ![o] = "pushing"]
                 /\ \E k \in 1 .. Len(rest) :
                        todo' = [todo EXCEPT ![o] = SubSeq(rest, k, Len(rest))]
                 /\ UNCHANGED store
  <1> DEFINE I == {i \in 1 .. Len(rest) : Eligible(o, rest[i], rows, dueThen)}
             first == IF I # {} THEN Min(I) ELSE 0
  <1>1. first \in 0 .. Len(rest)
    <2>1. CASE I # {}
      <3>1. I \subseteq Nat
        OBVIOUS
      <3>2. Min(I) \in I
        <4> HIDE DEF I
        <4>1. \E n \in I : \A m \in I : n <= m
          BY <2>1, <3>1, LeastNatural
        <4>2. QED BY <4>1 DEF Min
      <3>3. QED BY <3>2, <2>1
    <2>2. CASE I = {}
      BY <2>2
    <2>3. QED BY <2>1, <2>2
  <1>2. /\ due' = IF o # "timer" THEN due ELSE IF first = 0 THEN {} ELSE dueThen
        /\ IF first = 0
           THEN /\ pc' = [pc EXCEPT ![o] = "idle"]
                /\ todo' = [todo EXCEPT ![o] = <<>>]
                /\ Save(rows)
           ELSE /\ pc' = [pc EXCEPT ![o] = "pushing"]
                /\ todo' = [todo EXCEPT ![o] = SubSeq(rest, first, Len(rest))]
                /\ UNCHANGED store
    BY DEF Proceed, SelectInSeq
  <1> HIDE DEF first
  <1>3. due' \subseteq Actions
    BY <1>2 DEF TypeOK
  <1>4. QED BY <1>1, <1>2, <1>3

(* What a step of a batch owes the invariant: nobody else has a batch, and *)
(* what is left of this one is queued and without repetitions.             *)
LEMMA BatchKeepsInvariant ==
    ASSUME TypeOK, NEW o \in Owners, NEW rest \in Seq(Actions), NEW dueThen,
           dueThen \subseteq Actions, IsQueue(list'),
           Proceed(o, rest, list', dueThen),
           \A p \in Owners \ {o} : pc[p] = "idle",
           IsInjective(rest),
           \A a \in Actions : Contains(rest, a) => a \in Ids(list'),
           DurableBetweenBatches
    PROVE  /\ pc' \in [Owners -> {"idle", "pushing"}]
           /\ todo' \in [Owners -> Seq(Actions)]
           /\ due' \subseteq Actions
           /\ IsQueue(disk') /\ faults' \in Nat /\ unsaved' \in BOOLEAN
           /\ OneBatch' /\ BatchIsQueued' /\ DurableBetweenBatches'
  <1>1. /\ pc \in [Owners -> {"idle", "pushing"}]
        /\ todo \in [Owners -> Seq(Actions)]
        /\ IsQueue(disk) /\ faults \in Nat /\ unsaved \in BOOLEAN
    BY DEF TypeOK
  <1>2. due' \subseteq Actions
    BY BatchGoesOn
  <1>3. Queued' = Ids(list')
    BY DEF Queued, Ids
  <1>4. CASE /\ pc' = [pc EXCEPT ![o] = "idle"]
             /\ todo' = [todo EXCEPT ![o] = <<>>]
             /\ Save(list')
    <2>1. pc' \in [Owners -> {"idle", "pushing"}] /\ todo' \in [Owners -> Seq(Actions)]
      BY <1>1, <1>4
    <2>2. \A p \in Owners : pc'[p] = "idle"
      BY <1>1, <1>4
    <2>3. IsQueue(disk') /\ faults' \in Nat /\ unsaved' \in BOOLEAN /\ (~unsaved' => disk' = list')
      BY <1>4, SaveSteps
    <2>4. OneBatch' /\ BatchIsQueued'
      BY <2>2 DEF OneBatch, BatchIsQueued
    <2>5. DurableBetweenBatches'
      BY <2>3 DEF DurableBetweenBatches
    <2>6. QED BY <1>2, <2>1, <2>3, <2>4, <2>5
  <1>5. CASE /\ pc' = [pc EXCEPT ![o] = "pushing"]
             /\ \E k \in 1 .. Len(rest) :
                    todo' = [todo EXCEPT ![o] = SubSeq(rest, k, Len(rest))]
             /\ UNCHANGED store
    <2>1. PICK k \in 1 .. Len(rest) :
              todo' = [todo EXCEPT ![o] = SubSeq(rest, k, Len(rest))]
      BY <1>5
    <2> DEFINE s == SubSeq(rest, k, Len(rest))
    <2>2. /\ s \in Seq(Actions) /\ s # <<>> /\ IsInjective(s)
          /\ \A a \in Actions : Contains(s, a) => a \in Queued'
      BY <1>3, RestOfBatch
    <2> HIDE DEF s
    <2>3. todo' = [todo EXCEPT ![o] = s]
      BY <2>1 DEF s
    <2>4. pc' \in [Owners -> {"idle", "pushing"}] /\ todo' \in [Owners -> Seq(Actions)]
      BY <1>1, <1>5, <2>2, <2>3
    <2>5. pc'[o] = "pushing" /\ \A p \in Owners \ {o} : pc'[p] = "idle"
      BY <1>1, <1>5
    <2>6. todo'[o] = s
      BY <1>1, <2>3
    <2>7. OneBatch' /\ BatchIsQueued'
      BY <2>2, <2>5, <2>6 DEF OneBatch, BatchIsQueued
    <2>8. DurableBetweenBatches'
      BY <2>5 DEF DurableBetweenBatches, Processing
    <2>9. IsQueue(disk') /\ faults' \in Nat /\ unsaved' \in BOOLEAN
      BY <1>1, <1>5 DEF store, IsQueue, IdsDistinct
    <2>10. QED BY <1>2, <2>4, <2>7, <2>8, <2>9
  <1>6. QED BY <1>4, <1>5, BatchGoesOn

(* Enters() and a step of one's own batch find nobody else in a batch.     *)
LEMMA NobodyElse ==
    ASSUME TypeOK, OneBatch, NEW o \in Owners
    PROVE  /\ Enters(o) => \A p \in Owners \ {o} : pc[p] = "idle"
           /\ pc[o] = "pushing" => \A p \in Owners \ {o} : pc[p] = "idle"
  <1>1. \A p \in Owners : pc[p] \in {"idle", "pushing"}
    BY DEF TypeOK
  <1>2. QED BY <1>1 DEF Enters, Processing, OneBatch

(* A loop that leaves its action.                                          *)
LEMMA LeftRetryIsTyped ==
    ASSUME TypeOK, NEW o, LeaveRetry(o)
    PROVE  retry' \in [Loops -> Retries]
  <1>1. NoRetry \in Retries
    BY DEF NoRetry, Retries
  <1>2. QED BY <1>1 DEF TypeOK, LeaveRetry

-----------------------------------------------------------------------------
(* The invariant.                                                          *)

LEMMA InitIsSound ==
    Init => IInv
  <1> SUFFICES ASSUME Init PROVE IInv
    OBVIOUS
  <1>1. IsQueue(<<>>)
    BY DEF IsQueue, IdsDistinct
  <1>2. NoRetry \in Retries
    BY DEF NoRetry, Retries
  <1>3. TypeOK
    <2>1. IsQueue(list) /\ IsQueue(disk)
      BY <1>1 DEF Init
    <2>2. /\ request \in [Actions -> {"new", "sending", "failed", "sent"}]
          /\ pc \in [Owners -> {"idle", "pushing"}]
          /\ todo \in [Owners -> Seq(Actions)]
      BY DEF Init
    <2>3. retry \in [Loops -> Retries]
      BY <1>2 DEF Init
    <2>4. asked = 0 /\ retries = 0 /\ faults = 0 /\ crashes = 0
      BY DEF Init
    <2>5. /\ copies \in [Actions -> Nat] /\ sent \in [Actions -> Nat]
          /\ unsaved \in BOOLEAN /\ due \subseteq Actions
      BY DEF Init
    <2>6. QED BY <2>1, <2>2, <2>3, <2>4, <2>5 DEF TypeOK
  <1>4. OneBatch /\ BatchIsQueued
    BY DEF Init, OneBatch, BatchIsQueued
  <1>5. PaidFor
    BY DEF Init, PaidFor, Queued
  <1>6. DurableBetweenBatches
    BY DEF Init, DurableBetweenBatches
  <1>7. QED BY <1>3, <1>4, <1>5, <1>6 DEF IInv

(* The user's requests touch nothing of the queue.                         *)
LEMMA AskingIsSound ==
    ASSUME IInv, NEW a \in Actions, Send(a) \/ Sent(a)
    PROVE  IInv'
  <1>1. UNCHANGED <<list, disk, faults, unsaved, pc, todo, due, retry, retries, crashes, copies, sent>>
    BY DEF Send, Sent, store, batch, history
  <1>2. /\ request' \in [Actions -> {"new", "sending", "failed", "sent"}]
        /\ asked' \in Nat
    <2>1. /\ request \in [Actions -> {"new", "sending", "failed", "sent"}]
          /\ asked \in Nat
      BY DEF IInv, TypeOK
    <2>2. CASE Send(a) BY <2>1, <2>2 DEF Send
    <2>3. CASE Sent(a) BY <2>1, <2>3 DEF Sent
    <2>4. QED BY <2>2, <2>3
  <1>3. TypeOK'
    BY <1>1, <1>2 DEF IInv, TypeOK, IsQueue, IdsDistinct
  <1>4. OneBatch' /\ BatchIsQueued' /\ PaidFor' /\ DurableBetweenBatches'
    BY <1>1 DEF IInv, OneBatch, BatchIsQueued, PaidFor, DurableBetweenBatches, Queued, Processing
  <1>5. QED BY <1>3, <1>4 DEF IInv

(* What is left of every batch stays queued while nobody leaves the queue. *)
LEMMA BatchesKeepTheirActions ==
    ASSUME OneBatch, BatchIsQueued, UNCHANGED <<pc, todo>>, Queued \subseteq Queued'
    PROVE  OneBatch' /\ BatchIsQueued'
  BY DEF OneBatch, BatchIsQueued

(* A failed live send queues its action, once, and pays for one write.     *)
LEMMA EnqueueIsSound ==
    ASSUME IInv, NEW a \in Actions, Enqueue(a)
    PROVE  IInv'
  <1>1. Queued = Ids(list) /\ Queued' = Ids(list')
    BY DEF Queued, Ids
  <1>2. request' \in [Actions -> {"new", "sending", "failed", "sent"}]
    BY DEF IInv, TypeOK, Enqueue
  <1>3. UNCHANGED <<asked, pc, todo, due, retry, retries, crashes, sent>>
    BY DEF Enqueue, batch
  <1>4. CASE a \in Queued
    <2>1. UNCHANGED <<list, disk, faults, unsaved, copies>>
      BY <1>4 DEF Enqueue, store
    <2>2. TypeOK'
      BY <1>2, <1>3, <2>1 DEF IInv, TypeOK, IsQueue, IdsDistinct
    <2>3. OneBatch' /\ BatchIsQueued' /\ PaidFor' /\ DurableBetweenBatches'
      BY <1>3, <2>1 DEF IInv, OneBatch, BatchIsQueued, PaidFor, DurableBetweenBatches, Queued, Processing
    <2>4. QED BY <2>2, <2>3 DEF IInv
  <1>5. CASE a \notin Queued
    <2>1. /\ list' = Append(list, NewRow(a))
          /\ Save(list')
          /\ copies' = [copies EXCEPT ![a] = @ + 1]
      BY <1>5 DEF Enqueue
    <2>2. NewRow(a) \in Rows /\ NewRow(a).id = a
      BY DEF NewRow, Rows
    <2>3. IsQueue(list') /\ Ids(list') = Ids(list) \cup {a}
      BY <1>1, <1>5, <2>1, <2>2, AppendKeepsQueue DEF IInv, TypeOK
    <2>4. /\ IsQueue(disk') /\ faults' \in Nat /\ unsaved' \in BOOLEAN
          /\ ~unsaved' => disk' = list'
      BY <2>1, <2>3, SaveSteps DEF IInv
    <2>5. /\ copies \in [Actions -> Nat] /\ sent \in [Actions -> Nat] /\ crashes \in Nat
          /\ copies' \in [Actions -> Nat]
      BY <2>1 DEF IInv, TypeOK
    <2>6. TypeOK'
      BY <1>2, <1>3, <2>3, <2>4, <2>5 DEF IInv, TypeOK
    <2>7. OneBatch' /\ BatchIsQueued'
      BY <1>1, <1>3, <2>3, BatchesKeepTheirActions DEF IInv
    <2>8. PaidFor'
      <3> SUFFICES ASSUME NEW b \in Actions
                   PROVE  sent'[b] + (IF b \in Queued' THEN 1 ELSE 0) <= copies'[b] + crashes'
        BY DEF PaidFor
      <3>1. sent[b] + (IF b \in Queued THEN 1 ELSE 0) <= copies[b] + crashes
        BY DEF IInv, PaidFor
      <3>2. b \in Queued' <=> b \in Queued \/ b = a
        BY <1>1, <2>3
      <3>3. copies'[b] = IF b = a THEN copies[b] + 1 ELSE copies[b]
        BY <2>1, <2>5
      <3>4. copies[b] \in Nat /\ sent[b] \in Nat
        BY <2>5
      <3>5. QED BY <1>3, <1>5, <2>5, <3>1, <3>2, <3>3, <3>4
    <2>9. DurableBetweenBatches'
      BY <2>4 DEF DurableBetweenBatches
    <2>10. QED BY <2>6, <2>7, <2>8, <2>9 DEF IInv
  <1>6. QED BY <1>4, <1>5

(* The timer's batch is the whole queue, each action once.                 *)
LEMMA TimerIsSound ==
    ASSUME IInv, Timer
    PROVE  IInv'
  <1> DEFINE ids == [i \in DOMAIN list |-> list[i].id]
             n == Len(list)
  <1>1. UNCHANGED <<list, request, asked, retry, retries, crashes, copies, sent>>
    BY DEF Timer, user, history
  <1>2. list \in Seq(Rows) /\ IdsDistinct(list) /\ DOMAIN list = 1 .. n /\ n \in Nat
    BY DEF IInv, TypeOK, IsQueue
  <1>3. \A i \in 1 .. n : ids[i] = list[i].id /\ list[i].id \in Actions
    <2>1. \A i \in 1 .. n : list[i] \in Rows
      BY <1>2
    <2>2. \A i \in DOMAIN list : ids[i] = list[i].id
      OBVIOUS
    <2> HIDE DEF ids, n
    <2>3. QED BY <1>2, <2>1, <2>2 DEF Rows
  <1>4. ids = [i \in 1 .. n |-> ids[i]]
    BY <1>2
  <1> HIDE DEF ids, n
  <1>5. ids \in Seq(Actions) /\ Len(ids) = n /\ DOMAIN ids = 1 .. n
    BY <1>2, <1>3, <1>4
  <1>6. IsInjective(ids)
    BY <1>2, <1>3, <1>5 DEF IsInjective, IdsDistinct
  <1>7. \A a \in Actions : Contains(ids, a) => a \in Ids(list)
    BY <1>2, <1>3, <1>5 DEF Contains, Ids
  <1>8. DueNow \subseteq Actions
    <2>1. Range(list) \subseteq Rows
      BY <1>2 DEF Range
    <2>2. QED BY <2>1 DEF DueNow, Rows
  <1>9. "timer" \in Owners
    BY DEF Owners
  <1>10. \A p \in Owners \ {"timer"} : pc[p] = "idle"
    BY <1>9, NobodyElse DEF IInv, Timer
  <1>11. IsQueue(list') /\ Ids(list') = Ids(list)
    BY <1>1 DEF IInv, TypeOK, IsQueue, IdsDistinct, Ids
  <1>12. Proceed("timer", ids, list', DueNow)
    <2>1. Proceed("timer", ids, list, DueNow)
      BY DEF Timer, ids
    <2>2. QED BY <1>1, <2>1
  <1>13. /\ pc' \in [Owners -> {"idle", "pushing"}]
         /\ todo' \in [Owners -> Seq(Actions)]
         /\ due' \subseteq Actions
         /\ IsQueue(disk') /\ faults' \in Nat /\ unsaved' \in BOOLEAN
         /\ OneBatch' /\ BatchIsQueued' /\ DurableBetweenBatches'
    BY <1>5, <1>6, <1>7, <1>8, <1>9, <1>10, <1>11, <1>12, BatchKeepsInvariant DEF IInv
  <1>14. TypeOK'
    BY <1>1, <1>11, <1>13 DEF IInv, TypeOK
  <1>15. PaidFor'
    BY <1>1 DEF IInv, PaidFor, Queued
  <1>16. QED BY <1>13, <1>14, <1>15 DEF IInv

(* A push that is confirmed takes its action out of the queue: that pays   *)
(* for the write.                                                          *)
LEMMA PushOkIsSound ==
    ASSUME IInv, NEW o \in Owners, NEW writes \in BOOLEAN, PushOk(o, writes)
    PROVE  IInv'
  <1> DEFINE a == Head(todo[o])
             rest == Tail(todo[o])
  <1>1. UNCHANGED <<request, asked, retries, crashes, copies>>
    BY DEF PushOk, user
  <1>2. /\ pc[o] = "pushing"
        /\ list' = Dropped(a)
        /\ sent' = IF writes THEN [sent EXCEPT ![a] = @ + 1] ELSE sent
        /\ Proceed(o, rest, list', due)
        /\ LeaveRetry(o)
    BY DEF PushOk
  <1>3. /\ todo[o] \in Seq(Actions) /\ todo[o] # <<>> /\ IsInjective(todo[o])
        /\ \A b \in Actions : Contains(todo[o], b) => b \in Queued
    BY <1>2 DEF IInv, TypeOK, BatchIsQueued
  <1>4. /\ a \in Actions /\ rest \in Seq(Actions) /\ IsInjective(rest)
        /\ \A b \in Actions : Contains(rest, b) <=> Contains(todo[o], b) /\ b # a
        /\ Contains(todo[o], a)
    BY <1>3, TailOfQueue
  <1> HIDE DEF a, rest
  <1>5. Queued = Ids(list) /\ Queued' = Ids(list')
    BY DEF Queued, Ids
  <1>6. IsQueue(list') /\ Ids(list') = Ids(list) \ {a}
    BY <1>2, DroppedKeepsQueue DEF IInv, TypeOK
  <1>7. a \in Queued
    BY <1>3, <1>4
  <1>8. \A b \in Actions : Contains(rest, b) => b \in Ids(list')
    BY <1>3, <1>4, <1>5, <1>6
  <1>9. \A p \in Owners \ {o} : pc[p] = "idle"
    BY <1>2, NobodyElse DEF IInv
  <1>10. due \subseteq Actions
    BY DEF IInv, TypeOK
  <1>11. /\ pc' \in [Owners -> {"idle", "pushing"}]
         /\ todo' \in [Owners -> Seq(Actions)]
         /\ due' \subseteq Actions
         /\ IsQueue(disk') /\ faults' \in Nat /\ unsaved' \in BOOLEAN
         /\ OneBatch' /\ BatchIsQueued' /\ DurableBetweenBatches'
    BY <1>2, <1>4, <1>6, <1>8, <1>9, <1>10, BatchKeepsInvariant DEF IInv
  <1>12. retry' \in [Loops -> Retries]
    BY <1>2, LeftRetryIsTyped DEF IInv
  <1>13. sent \in [Actions -> Nat] /\ sent' \in [Actions -> Nat]
         /\ copies \in [Actions -> Nat] /\ crashes \in Nat
    BY <1>2, <1>4 DEF IInv, TypeOK
  <1>14. TypeOK'
    BY <1>1, <1>6, <1>11, <1>12, <1>13 DEF IInv, TypeOK
  <1>15. PaidFor'
    <2> SUFFICES ASSUME NEW b \in Actions
                 PROVE  sent'[b] + (IF b \in Queued' THEN 1 ELSE 0) <= copies'[b] + crashes'
      BY DEF PaidFor
    <2>1. sent[b] + (IF b \in Queued THEN 1 ELSE 0) <= copies[b] + crashes
      BY DEF IInv, PaidFor
    <2>2. b \in Queued' <=> b \in Queued /\ b # a
      BY <1>5, <1>6
    <2>3. sent'[b] = sent[b] \/ (b = a /\ sent'[b] = sent[b] + 1)
      <3>1. CASE writes
        <4>1. sent' = [sent EXCEPT ![a] = @ + 1]
          BY <1>2, <3>1
        <4>2. QED BY <4>1, <1>4, <1>13
      <3>2. CASE ~writes
        BY <1>2, <3>2
      <3>3. QED BY <3>1, <3>2
    <2>4. copies[b] \in Nat /\ sent[b] \in Nat
      BY <1>13
    <2>5. QED BY <1>1, <1>7, <1>13, <2>1, <2>2, <2>3, <2>4
  <1>16. QED BY <1>11, <1>14, <1>15 DEF IInv

(* A push that fails replaces the row of its action.                       *)
LEMMA PushFailedIsSound ==
    ASSUME IInv, NEW o \in Owners, PushFailed(o)
    PROVE  IInv'
  <1> DEFINE a == Head(todo[o])
             rest == Tail(todo[o])
  <1>1. UNCHANGED <<request, asked, retries, crashes, copies, sent>>
    BY DEF PushFailed, user
  <1>2. /\ pc[o] = "pushing"
        /\ list' = IF a \in Queued THEN With(Rescheduled(Row(a))) ELSE list
        /\ Proceed(o, rest, list', due)
        /\ LeaveRetry(o)
    BY DEF PushFailed
  <1>3. /\ todo[o] \in Seq(Actions) /\ todo[o] # <<>> /\ IsInjective(todo[o])
        /\ \A b \in Actions : Contains(todo[o], b) => b \in Queued
    BY <1>2 DEF IInv, TypeOK, BatchIsQueued
  <1>4. /\ a \in Actions /\ rest \in Seq(Actions) /\ IsInjective(rest)
        /\ \A b \in Actions : Contains(rest, b) <=> Contains(todo[o], b) /\ b # a
        /\ Contains(todo[o], a)
    BY <1>3, TailOfQueue
  <1> HIDE DEF a, rest
  <1>5. Queued = Ids(list) /\ Queued' = Ids(list')
    BY DEF Queued, Ids
  <1>6. a \in Ids(list)
    BY <1>3, <1>4, <1>5
  <1>7. Rescheduled(Row(a)) \in Rows
    <2>1. Row(a) \in Rows
      BY <1>6, RowIsFound DEF IInv, TypeOK
    <2>2. QED BY <2>1, FailedIsRow DEF Rescheduled
  <1>8. IsQueue(list') /\ Ids(list') = Ids(list)
    BY <1>2, <1>5, <1>6, <1>7, WithKeepsQueue DEF IInv, TypeOK
  <1>9. \A b \in Actions : Contains(rest, b) => b \in Ids(list')
    BY <1>3, <1>4, <1>5, <1>8
  <1>10. \A p \in Owners \ {o} : pc[p] = "idle"
    BY <1>2, NobodyElse DEF IInv
  <1>11. due \subseteq Actions
    BY DEF IInv, TypeOK
  <1>12. /\ pc' \in [Owners -> {"idle", "pushing"}]
         /\ todo' \in [Owners -> Seq(Actions)]
         /\ due' \subseteq Actions
         /\ IsQueue(disk') /\ faults' \in Nat /\ unsaved' \in BOOLEAN
         /\ OneBatch' /\ BatchIsQueued' /\ DurableBetweenBatches'
    BY <1>2, <1>4, <1>8, <1>9, <1>10, <1>11, BatchKeepsInvariant DEF IInv
  <1>13. retry' \in [Loops -> Retries]
    BY <1>2, LeftRetryIsTyped DEF IInv
  <1>14. TypeOK'
    BY <1>1, <1>8, <1>12, <1>13 DEF IInv, TypeOK
  <1>15. PaidFor'
    BY <1>1, <1>5, <1>8 DEF IInv, PaidFor
  <1>16. QED BY <1>12, <1>14, <1>15 DEF IInv

(* A requeue changes a row, and saves.                                     *)
LEMMA RequeueIsSound ==
    ASSUME IInv, NEW l \in Loops, NEW a \in Actions, Requeue(l, a)
    PROVE  IInv'
  <1> DEFINE r == [Row(a) EXCEPT !.attempts = 0, !.wait = 0, !.dead = FALSE]
  <1>1. UNCHANGED <<request, asked, pc, todo, crashes, copies, sent>>
    BY DEF Requeue, user
  <1>2. Queued = Ids(list) /\ Queued' = Ids(list')
    BY DEF Queued, Ids
  <1>3. /\ a \in Ids(list) /\ list' = With(r) /\ Save(list') /\ retries' = retries + 1
        /\ retry' = [retry EXCEPT ![l] = [of |-> {a}, at |-> "reporting"]]
    BY <1>2 DEF Requeue, Revived
  <1>4. r \in Rows
    <2>1. Row(a) \in Rows
      BY <1>3, RowIsFound DEF IInv, TypeOK
    <2>2. QED BY <2>1 DEF Rows
  <1> HIDE DEF r
  <1>5. IsQueue(list') /\ Ids(list') = Ids(list)
    BY <1>3, <1>4, WithKeepsQueue DEF IInv, TypeOK
  <1>6. /\ IsQueue(disk') /\ faults' \in Nat /\ unsaved' \in BOOLEAN
        /\ ~unsaved' => disk' = list'
    BY <1>3, <1>5, SaveSteps DEF IInv
  <1>7. due' \subseteq Actions
    BY DEF IInv, TypeOK, Requeue
  <1>8. retry' \in [Loops -> Retries] /\ retries' \in Nat
    <2>1. [of |-> {a}, at |-> "reporting"] \in Retries
      BY DEF Retries
    <2>2. QED BY <1>3, <2>1 DEF IInv, TypeOK
  <1>9. TypeOK'
    BY <1>1, <1>5, <1>6, <1>7, <1>8 DEF IInv, TypeOK
  <1>10. OneBatch' /\ BatchIsQueued'
    BY <1>1, <1>2, <1>5, BatchesKeepTheirActions DEF IInv
  <1>11. PaidFor'
    BY <1>1, <1>2, <1>5 DEF IInv, PaidFor
  <1>12. DurableBetweenBatches'
    BY <1>6 DEF DurableBetweenBatches
  <1>13. QED BY <1>9, <1>10, <1>11, <1>12 DEF IInv

(* A queue of none or of one action.                                       *)
LEMMA SmallBatch ==
    ASSUME NEW S, S = {} \/ \E a \in Actions : S = {a}
    PROVE  /\ SetToSeq(S) \in Seq(Actions) /\ IsInjective(SetToSeq(S))
           /\ \A a \in Actions : Contains(SetToSeq(S), a) => a \in S
  <1> DEFINE n == Cardinality(S)
             F == {f \in [1 .. n -> S] : IsInjective(f)}
             q == CHOOSE f \in [1 .. n -> S] : IsInjective(f)
  <1>1. n \in Nat /\ S \subseteq Actions /\ F # {}
    <2>1. CASE S = {}
      <3>1. n = 0
        BY <2>1, FS_EmptySet
      <3>2. <<>> \in [1 .. 0 -> {}] /\ IsInjective(<<>>)
        BY DEF IsInjective
      <3> HIDE DEF n
      <3>3. F # {}
        BY <2>1, <3>1, <3>2
      <3> HIDE DEF F
      <3>4. QED BY <2>1, <3>1, <3>3
    <2>2. CASE \E a \in Actions : S = {a}
      <3>1. PICK a \in Actions : S = {a}
        BY <2>2
      <3>2. n = 1
        BY <3>1, FS_Singleton
      <3>3. [i \in 1 .. 1 |-> a] \in [1 .. 1 -> {a}] /\ IsInjective([i \in 1 .. 1 |-> a])
        BY DEF IsInjective
      <3> HIDE DEF n
      <3>4. F # {}
        BY <3>1, <3>2, <3>3
      <3> HIDE DEF F
      <3>5. QED BY <3>1, <3>2, <3>4
    <2>3. QED BY <2>1, <2>2
  <1>2. q \in [1 .. n -> S] /\ IsInjective(q)
    BY <1>1
  <1>3. SetToSeq(S) = q
    BY DEF SetToSeq
  <1> HIDE DEF q, n, F
  <1>4. q \in Seq(Actions) /\ Len(q) = n
    BY <1>1, <1>2
  <1>5. \A a \in Actions : Contains(q, a) => a \in S
    BY <1>2, <1>4 DEF Contains
  <1>6. QED BY <1>2, <1>3, <1>4, <1>5

(* processIds() of an action that is still queued.                         *)
LEMMA ProcessIdsIsSound ==
    ASSUME IInv, NEW l \in Loops, ProcessIds(l)
    PROVE  IInv'
  <1> DEFINE S == retry[l].of \cap Queued
             rest == SetToSeq(S)
  <1>1. UNCHANGED <<list, request, asked, retries, crashes, copies, sent>>
    BY DEF ProcessIds, user, history
  <1>2. Queued = Ids(list) /\ Queued' = Ids(list') /\ l \in Owners
    BY DEF Queued, Ids, Owners
  <1>3. IsQueue(list') /\ Ids(list') = Ids(list)
    BY <1>1 DEF IInv, TypeOK, IsQueue, IdsDistinct, Ids
  <1>4. retry' \in [Loops -> Retries]
    <2>1. CASE LeaveRetry(l)
      BY <2>1, LeftRetryIsTyped DEF IInv
    <2>2. CASE retry' = [retry EXCEPT ![l].at = "processing"]
      <3>1. retry \in [Loops -> Retries]
        BY DEF IInv, TypeOK
      <3>2. [retry[l] EXCEPT !.at = "processing"] \in Retries
        BY <3>1 DEF Retries
      <3>3. QED BY <2>2, <3>1, <3>2
    <2>3. QED BY <2>1, <2>2 DEF ProcessIds
  <1>5. CASE Enters(l)
    <2>1. S = {} \/ \E a \in Actions : S = {a}
      <3>1. retry[l].of \in {{}} \cup {{a} : a \in Actions}
        BY DEF IInv, TypeOK, Retries
      <3>2. retry[l].of = {} \/ \E a \in Actions : retry[l].of = {a}
        BY <3>1
      <3>3. QED BY <3>2
    <2>2. /\ rest \in Seq(Actions) /\ IsInjective(rest)
          /\ \A a \in Actions : Contains(rest, a) => a \in S
      <3> HIDE DEF S
      <3>1. QED BY <2>1, SmallBatch
    <2>3. \A a \in Actions : Contains(rest, a) => a \in Ids(list')
      BY <2>2, <1>2, <1>3
    <2>4. Proceed(l, rest, list, {})
      BY <1>5 DEF ProcessIds
    <2> HIDE DEF rest
    <2>5. Proceed(l, rest, list', {})
      BY <2>4, <1>1
    <2>6. \A p \in Owners \ {l} : pc[p] = "idle"
      BY <1>2, <1>5, NobodyElse DEF IInv
    <2>7. {} \subseteq Actions
      OBVIOUS
    <2>8. /\ pc' \in [Owners -> {"idle", "pushing"}]
          /\ todo' \in [Owners -> Seq(Actions)]
          /\ due' \subseteq Actions
          /\ IsQueue(disk') /\ faults' \in Nat /\ unsaved' \in BOOLEAN
          /\ OneBatch' /\ BatchIsQueued' /\ DurableBetweenBatches'
      BY <1>2, <1>3, <2>2, <2>3, <2>5, <2>6, <2>7, BatchKeepsInvariant DEF IInv
    <2>9. TypeOK'
      BY <1>1, <1>3, <1>4, <2>8 DEF IInv, TypeOK
    <2>10. PaidFor'
      BY <1>1, <1>2, <1>3 DEF IInv, PaidFor
    <2>11. QED BY <2>8, <2>9, <2>10 DEF IInv
  <1>6. CASE ~Enters(l)
    <2>1. UNCHANGED <<disk, faults, unsaved, pc, todo, due>>
      BY <1>6 DEF ProcessIds, store, batch
    <2>2. TypeOK'
      BY <1>1, <1>3, <1>4, <2>1 DEF IInv, TypeOK, IsQueue, IdsDistinct
    <2>3. OneBatch' /\ BatchIsQueued' /\ PaidFor' /\ DurableBetweenBatches'
      BY <1>1, <2>1 DEF IInv, OneBatch, BatchIsQueued, PaidFor, DurableBetweenBatches, Queued, Processing
    <2>4. QED BY <2>2, <2>3 DEF IInv
  <1>7. QED BY <1>5, <1>6

(* The same rows, nearer to their time.                                    *)
LEMMA NearerKeepsQueue ==
    ASSUME NEW q, IsQueue(q),
           NEW w, w = [i \in DOMAIN q |-> [q[i] EXCEPT !.wait = IF @ > 0 THEN @ - 1 ELSE 0]]
    PROVE  IsQueue(w) /\ Ids(w) = Ids(q)
  <1>1. q \in Seq(Rows) /\ DOMAIN q = 1 .. Len(q) /\ Len(q) \in Nat
    BY DEF IsQueue
  <1>2. DOMAIN w = DOMAIN q
    OBVIOUS
  <1>3. ASSUME NEW i \in DOMAIN q
        PROVE  w[i] \in Rows /\ w[i].id = q[i].id
    <2> DEFINE r == q[i]
    <2>1. r \in Rows
      BY <1>1
    <2>2. w[i] = [r EXCEPT !.wait = IF @ > 0 THEN @ - 1 ELSE 0]
      OBVIOUS
    <2> HIDE DEF r
    <2>3. w[i] \in Rows /\ w[i].id = r.id
      BY <2>1, <2>2 DEF Rows
    <2>4. QED BY <2>3 DEF r
  <1>4. w \in Seq(Rows)
    <2>1. w = [i \in 1 .. Len(q) |-> w[i]]
      BY <1>1
    <2>2. QED BY <1>1, <1>3, <2>1
  <1>5. IdsDistinct(w)
    BY <1>2, <1>3 DEF IsQueue, IdsDistinct
  <1>6. Ids(w) = Ids(q)
    BY <1>2, <1>3 DEF Ids
  <1>7. QED BY <1>4, <1>5, <1>6 DEF IsQueue

(* Time passes for memory and for the disk alike.                          *)
LEMMA PassTimeIsSound ==
    ASSUME IInv, PassTime
    PROVE  IInv'
  <1>1. UNCHANGED <<faults, unsaved, request, asked, pc, todo, due, retry, retries,
                    crashes, copies, sent>>
    BY DEF PassTime, user, batch, history
  <1>2. /\ list' = [i \in DOMAIN list |-> [list[i] EXCEPT !.wait = IF @ > 0 THEN @ - 1 ELSE 0]]
        /\ disk' = [i \in DOMAIN disk |-> [disk[i] EXCEPT !.wait = IF @ > 0 THEN @ - 1 ELSE 0]]
    BY DEF PassTime
  <1>3. IsQueue(list') /\ Ids(list') = Ids(list) /\ IsQueue(disk')
    BY <1>2, NearerKeepsQueue DEF IInv, TypeOK
  <1>4. Queued = Ids(list) /\ Queued' = Ids(list')
    BY DEF Queued, Ids
  <1>5. TypeOK'
    BY <1>1, <1>3 DEF IInv, TypeOK
  <1>6. OneBatch' /\ BatchIsQueued'
    BY <1>1, <1>3, <1>4, BatchesKeepTheirActions DEF IInv
  <1>7. PaidFor'
    BY <1>1, <1>3, <1>4 DEF IInv, PaidFor
  <1>8. DurableBetweenBatches'
    BY <1>1, <1>2 DEF IInv, DurableBetweenBatches, Processing
  <1>9. QED BY <1>5, <1>6, <1>7, <1>8 DEF IInv

(* A crash may bring an action back, and allows it one more write.         *)
LEMMA CrashIsSound ==
    ASSUME IInv, Crash
    PROVE  IInv'
  <1>1. UNCHANGED <<disk, faults, asked, retries, copies, sent>>
    BY DEF Crash
  <1>2. /\ list' = disk /\ unsaved' = FALSE /\ crashes' = crashes + 1 /\ due' = {}
        /\ pc' = [o \in Owners |-> "idle"] /\ todo' = [o \in Owners |-> <<>>]
        /\ retry' = [l \in Loops |-> NoRetry]
    BY DEF Crash
  <1>3. request' \in [Actions -> {"new", "sending", "failed", "sent"}]
    BY DEF IInv, TypeOK, Crash
  <1>4. IsQueue(list') /\ IsQueue(disk')
    BY <1>1, <1>2 DEF IInv, TypeOK, IsQueue, IdsDistinct
  <1>5. NoRetry \in Retries
    BY DEF NoRetry, Retries
  <1>6. /\ retry' \in [Loops -> Retries] /\ crashes' \in Nat
        /\ pc' \in [Owners -> {"idle", "pushing"}] /\ todo' \in [Owners -> Seq(Actions)]
    BY <1>2, <1>5 DEF IInv, TypeOK
  <1>7. TypeOK'
    BY <1>1, <1>2, <1>3, <1>4, <1>6 DEF IInv, TypeOK
  <1>8. OneBatch' /\ BatchIsQueued'
    BY <1>2 DEF OneBatch, BatchIsQueued
  <1>9. PaidFor'
    <2> SUFFICES ASSUME NEW b \in Actions
                 PROVE  sent'[b] + (IF b \in Queued' THEN 1 ELSE 0) <= copies'[b] + crashes'
      BY DEF PaidFor
    <2>1. sent[b] + (IF b \in Queued THEN 1 ELSE 0) <= copies[b] + crashes
      BY DEF IInv, PaidFor
    <2>2. copies[b] \in Nat /\ sent[b] \in Nat /\ crashes \in Nat
      BY DEF IInv, TypeOK
    <2>3. QED BY <1>1, <1>2, <2>1, <2>2
  <1>10. DurableBetweenBatches'
    BY <1>1, <1>2 DEF DurableBetweenBatches
  <1>11. QED BY <1>7, <1>8, <1>9, <1>10 DEF IInv

LEMMA StutterIsSound ==
    ASSUME IInv, UNCHANGED vars
    PROVE  IInv'
  BY DEF IInv, TypeOK, OneBatch, BatchIsQueued, PaidFor, DurableBetweenBatches, IsQueue,
         IdsDistinct, Queued, Processing, vars, store, user, batch, history

LEMMA NextIsSound ==
    IInv /\ [Next]_vars => IInv'
  <1> SUFFICES ASSUME IInv, [Next]_vars PROVE IInv'
    OBVIOUS
  <1>1. ASSUME NEW a \in Actions, Send(a) \/ Sent(a) PROVE IInv'
    BY <1>1, AskingIsSound
  <1>2. ASSUME NEW a \in Actions, Enqueue(a) PROVE IInv'
    BY <1>2, EnqueueIsSound
  <1>3. CASE Timer
    BY <1>3, TimerIsSound
  <1>4. ASSUME NEW o \in Owners, Push(o) PROVE IInv'
    BY <1>4, PushFailedIsSound, PushOkIsSound DEF Push
  <1>5. ASSUME NEW l \in Loops, ProcessIds(l) PROVE IInv'
    BY <1>5, ProcessIdsIsSound
  <1>6. ASSUME NEW l \in Loops, NEW a \in Actions, Requeue(l, a) PROVE IInv'
    BY <1>6, RequeueIsSound
  <1>7. CASE PassTime
    BY <1>7, PassTimeIsSound
  <1>8. CASE Crash
    BY <1>8, CrashIsSound
  <1>9. CASE UNCHANGED vars
    BY <1>9, StutterIsSound
  <1>10. QED
    BY <1>1, <1>2, <1>3, <1>4, <1>5, <1>6, <1>7, <1>8, <1>9 DEF Next

(* The invariant holds, whatever the timer, the loops and the user do, and *)
(* whatever fails or dies.                                                 *)
THEOREM PushQueueInvariance == Spec => []IInv
  <1>1. Init => IInv
    BY InitIsSound
  <1>2. IInv /\ [Next]_vars => IInv'
    BY NextIsSound
  <1>3. QED BY <1>1, <1>2, PTL DEF Spec

(* The CRM confirms each queued copy of an action at most once, one more   *)
(* time for each crash (runBatch() against requeue() and the timer).       *)
THEOREM QueuedCopiesAreSentOnce == Spec => []QueueSendsOnce
  <1>1. IInv => QueueSendsOnce
    <2> SUFFICES ASSUME IInv, NEW a \in Actions PROVE sent[a] <= copies[a] + crashes
      BY DEF QueueSendsOnce
    <2>1. sent[a] + (IF a \in Queued THEN 1 ELSE 0) <= copies[a] + crashes
      BY DEF IInv, PaidFor
    <2>2. copies[a] \in Nat /\ sent[a] \in Nat /\ crashes \in Nat
      BY DEF IInv, TypeOK
    <2>3. QED BY <2>1, <2>2
  <1>2. QED BY <1>1, PushQueueInvariance, PTL

(* Between batches, unless the last save failed, a crash loses nothing and *)
(* brings nothing back (save() against the list in memory).                *)
THEOREM DiskFollowsMemory == Spec => []DurableBetweenBatches
  <1>1. IInv => DurableBetweenBatches
    BY DEF IInv
  <1>2. QED BY <1>1, PushQueueInvariance, PTL

-----------------------------------------------------------------------------
(*                     The outbox of Operator events                       *)
-----------------------------------------------------------------------------

Items == [id : Events, attempts : 0 .. LastAttempt, wait : Nat]

(* No event has two items.                                                 *)
EventsDistinct(s) == \A i, j \in DOMAIN s : s[i].id = s[j].id => i = j

IsOutbox(s) == s \in Seq(Items) /\ EventsDistinct(s) /\ Len(s) <= MaxItems

OutboxTypeOK ==
    /\ IsOutbox(file)
    /\ post \in [Events -> {"new", "over", "queued"}]
    /\ copy \in [Ticks -> Seq(Items)] /\ \A t \in Ticks : IsOutbox(copy[t])
    /\ toSend \in [Ticks -> Seq(Events)]
    /\ since \in [Ticks -> Nat]
    /\ upsets \in Nat
    /\ delivered \subseteq Events /\ capped \subseteq Events /\ exposed \subseteq Events

(* What the file or a drain holds was given to the outbox.                 *)
OnlyQueued ==
    \A e \in Events :
        (e \in EventIds(file) \/ \E t \in Ticks : e \in EventIds(copy[t])) => post[e] = "queued"

(* What a drain has yet to send is in its copy, once, and a drain that is  *)
(* over keeps none.                                                        *)
DueIsCopied ==
    \A t \in Ticks :
        /\ IsInjective(toSend[t])
        /\ \A e \in Events : Contains(toSend[t], e) => e \in EventIds(copy[t])
        /\ toSend[t] = <<>> => copy[t] = <<>>

(* The copy that a drain will write over the file lacks nothing either.    *)
DrainsKeep ==
    \A t \in Draining, e \in Events :
        post[e] = "queued" => e \in EventIds(copy[t]) \cup delivered \cup capped \cup exposed

OutboxSound == OutboxTypeOK /\ OnlyQueued /\ DueIsCopied /\ DrainsKeep /\ LostOnlyWhenExposed

-----------------------------------------------------------------------------
(* The operators of the outbox.                                            *)

(* The larger and the smaller of two numbers.                              *)
LEMMA PairBounds ==
    ASSUME NEW a \in Int, NEW b \in Int
    PROVE  /\ Max({a, b}) = IF a >= b THEN a ELSE b
           /\ Min({a, b}) = IF a =< b THEN a ELSE b
  <1>1. \E x \in {a, b} : \A y \in {a, b} : x >= y
    OBVIOUS
  <1>2. \E x \in {a, b} : \A y \in {a, b} : x =< y
    OBVIOUS
  <1>3. Max({a, b}) \in {a, b} /\ \A y \in {a, b} : Max({a, b}) >= y
    <2> DEFINE S == {a, b}
    <2> HIDE DEF S
    <2>1. (\E x \in S : \A y \in S : x >= y) => Max(S) \in S /\ \A y \in S : Max(S) >= y
      BY DEF Max
    <2>2. QED BY <1>1, <2>1 DEF S
  <1>4. Min({a, b}) \in {a, b} /\ \A y \in {a, b} : Min({a, b}) =< y
    <2> DEFINE S == {a, b}
    <2> HIDE DEF S
    <2>1. (\E x \in S : \A y \in S : x =< y) => Min(S) \in S /\ \A y \in S : Min(S) =< y
      BY DEF Min
    <2>2. QED BY <1>2, <2>1 DEF S
  <1>5. QED BY <1>3, <1>4

(* The schedule is read within its bounds.                                 *)
LEMMA WaitsAreNatural ==
    /\ LastAttempt \in Nat
    /\ \A attempts \in 0 .. LastAttempt : Waits(attempts) \subseteq Nat
  <1>1. Len(Schedule) \in Nat \ {0} /\ Schedule \in Seq(Nat)
    BY ScheduleIsGiven
  <1>2. ASSUME NEW attempts \in 0 .. LastAttempt PROVE BackoffForAttempt(attempts) \in Nat
    <2>1. attempts + 1 \in 1 .. Len(Schedule)
      BY <1>1 DEF LastAttempt
    <2>2. QED BY <1>1, <2>1 DEF BackoffForAttempt
  <1>3. LastAttempt \in Nat
    BY <1>1 DEF LastAttempt
  <1>4. ASSUME NEW attempts \in 0 .. LastAttempt PROVE Waits(attempts) \subseteq Nat
    <2> HIDE DEF BackoffForAttempt, LastAttempt
    <2>1. QED BY <1>2, RetryAfterIsNat DEF Waits
  <1>5. QED BY <1>3, <1>4

(* A schedule, and the set of what the Worker may ask for, have a longest  *)
(* wait.                                                                   *)
LEMMA LongestWaitIsNatural == LongestWait \in Nat
  <1> DEFINE S == Range(Schedule) \cup RetryAfter
             B == {n \in Nat : \A x \in S : x <= n}
  <1>1. Schedule \in Seq(Nat) /\ Schedule # <<>> /\ DOMAIN Schedule = 1 .. Len(Schedule)
    BY ScheduleIsGiven
  <1>2. S \subseteq Nat /\ S # {}
    <2>1. 1 \in DOMAIN Schedule /\ \A i \in DOMAIN Schedule : Schedule[i] \in Nat
      BY <1>1
    <2>2. Range(Schedule) \subseteq Nat /\ Schedule[1] \in Range(Schedule)
      BY <2>1 DEF Range
    <2>3. QED BY <2>2, RetryAfterIsNat
  <1>3. PICK m \in Nat : \A i \in 1 .. Len(Schedule) : Schedule[i] <= m
    BY <1>1, SequenceIsBounded
  <1>4. PICK q \in Seq(RetryAfter) :
                \A x \in RetryAfter : \E i \in 1 .. Len(q) : q[i] = x
    BY RetryAfterIsNat DEF IsFiniteSet
  <1>5. q \in Seq(Nat)
    <2>1. \A i \in 1 .. Len(q) : q[i] \in RetryAfter
      BY <1>4
    <2>2. Len(q) \in Nat /\ q = [i \in 1 .. Len(q) |-> q[i]]
      BY <1>4
    <2>3. \A i \in 1 .. Len(q) : q[i] \in Nat
      BY <2>1, RetryAfterIsNat
    <2>4. QED BY <2>2, <2>3
  <1>6. PICK n \in Nat : \A i \in 1 .. Len(q) : q[i] <= n
    BY <1>5, SequenceIsBounded
  <1>7. m + n \in B
    <2>1. ASSUME NEW x \in Range(Schedule) PROVE x <= m
      BY <1>1, <1>3 DEF Range
    <2>2. ASSUME NEW x \in RetryAfter PROVE x <= n
      BY <1>4, <1>6
    <2>3. ASSUME NEW x \in S PROVE x <= m + n
      BY <2>1, <2>2, <1>2
    <2>4. QED BY <2>3
  <1>8. PICK b \in B : \A c \in B : b <= c
    <2>1. B \subseteq Nat /\ B # {}
      BY <1>7
    <2> HIDE DEF B
    <2>2. QED BY <2>1, LeastNatural
  <1>9. b \in Nat /\ \A x \in S : x <= b
    OBVIOUS
  <1>10. b \in S
    <2> SUFFICES ASSUME b \notin S PROVE FALSE
      OBVIOUS
    <2> HIDE DEF S
    <2>1. \A x \in S : x <= b - 1
      <3>1. \A x \in S : x \in Nat /\ x <= b /\ x # b
        BY <1>2, <1>9
      <3>2. QED BY <3>1, <1>9
    <2>2. b - 1 \in Nat
      <3>1. PICK x \in S : TRUE
        BY <1>2
      <3>2. x \in Nat /\ x <= b - 1
        BY <3>1, <2>1, <1>2
      <3>3. QED BY <3>2, <1>9
    <2>3. b - 1 \in B
      BY <2>1, <2>2
    <2>4. QED BY <2>3, <1>8, <1>9
  <1>11. LongestWait = Max(S)
    BY DEF LongestWait
  <1> HIDE DEF S, B
  <1>12. \E x \in S : \A y \in S : x >= y
    BY <1>2, <1>9, <1>10
  <1>13. Max(S) \in S
    BY <1>12 DEF Max
  <1>14. QED BY <1>2, <1>11, <1>13

(* An empty outbox is one.                                                 *)
LEMMA EmptyIsOutbox == IsOutbox(<<>>) /\ EventIds(<<>>) = {}
  BY MaxItemsPositive DEF IsOutbox, EventsDistinct, EventIds

(* Items taken out of the outbox leave an outbox.                          *)
LEMMA WithoutKeepsOutbox ==
    ASSUME NEW s, IsOutbox(s), NEW out
    PROVE  /\ IsOutbox(Without(s, out))
           /\ \A i \in Items : i \in Range(Without(s, out)) <=> i \in Range(s) /\ i \notin out
           /\ Range(Without(s, out)) \subseteq Items
  <1> DEFINE w == Without(s, out)
  <1>1. s \in Seq(Items) /\ EventsDistinct(s) /\ Len(s) <= MaxItems
    BY DEF IsOutbox
  <1>2. IsInjective(s)
    BY <1>1 DEF IsInjective, EventsDistinct
  <1>3. /\ w \in Seq(Items)
        /\ \A e : Contains(w, e) <=> Contains(s, e) /\ e \notin out
        /\ IsInjective(w)
        /\ Len(w) <= Len(s)
    BY <1>1, <1>2, WithoutFacts, Zenon
  <1> HIDE DEF w
  <1>4. DOMAIN w = 1 .. Len(w) /\ DOMAIN s = 1 .. Len(s) /\ Len(w) \in Nat /\ Len(s) \in Nat
    BY <1>1, <1>3
  <1>5. \A i : (i \in Range(w) <=> Contains(w, i)) /\ (i \in Range(s) <=> Contains(s, i))
    BY <1>4 DEF Range, Contains
  <1>6. \A x, y \in Range(s) : x.id = y.id => x = y
    BY <1>1 DEF Range, EventsDistinct
  <1>7. EventsDistinct(w)
    <2> SUFFICES ASSUME NEW i \in DOMAIN w, NEW j \in DOMAIN w, w[i].id = w[j].id
                 PROVE  i = j
      BY DEF EventsDistinct
    <2>1. w[i] \in Range(w) /\ w[j] \in Range(w)
      BY DEF Range
    <2>2. w[i] \in Range(s) /\ w[j] \in Range(s)
      BY <2>1, <1>3, <1>5
    <2>3. w[i] = w[j]
      BY <2>2, <1>6
    <2>4. QED BY <2>3, <1>3 DEF IsInjective
  <1>8. Len(w) <= MaxItems
    BY <1>1, <1>3, <1>4, MaxItemsPositive
  <1>9. Range(w) \subseteq Items
    BY <1>3, <1>4 DEF Range
  <1>10. IsOutbox(w)
    BY <1>3, <1>7, <1>8 DEF IsOutbox
  <1>11. \A i \in Items : i \in Range(w) <=> i \in Range(s) /\ i \notin out
    BY <1>3, <1>5
  <1>12. QED BY <1>9, <1>10, <1>11 DEF w

(* The ids of an outbox are those of its items.                            *)
LEMMA IdsOfItems ==
    ASSUME NEW s
    PROVE  \A e : e \in EventIds(s) <=> \E i \in Range(s) : i.id = e
  BY DEF EventIds, Range

(* A delivered event leaves the outbox, and no other one does.             *)
LEMMA SucceededLeaves ==
    ASSUME NEW s, IsOutbox(s), NEW e \in Events
    PROVE  IsOutbox(MarkSucceeded(s, e)) /\ EventIds(MarkSucceeded(s, e)) = EventIds(s) \ {e}
  <1> DEFINE out == {i \in Range(s) : i.id = e}
             w == Without(s, out)
  <1>1. /\ IsOutbox(w)
        /\ \A i \in Items : i \in Range(w) <=> i \in Range(s) /\ i \notin out
        /\ Range(w) \subseteq Items
    <2> HIDE DEF out
    <2>1. QED BY WithoutKeepsOutbox
  <1>2. Range(s) \subseteq Items
    BY DEF IsOutbox, Range
  <1>3. \A i \in Range(s) : i \in out <=> i.id = e
    OBVIOUS
  <1> HIDE DEF out, w
  <1>4. \A i : i \in Range(w) <=> i \in Range(s) /\ i.id # e
    BY <1>1, <1>2, <1>3
  <1>5. \A d : d \in EventIds(w) <=> d \in EventIds(s) /\ d # e
    BY <1>4, IdsOfItems
  <1>6. w = MarkSucceeded(s, e)
    BY DEF MarkSucceeded, w, out
  <1>7. QED BY <1>1, <1>5, <1>6

(* Items replaced by items of the same events: an outbox of the same ones. *)
LEMMA SameIdsSameOutbox ==
    ASSUME NEW s, IsOutbox(s), NEW w, w = [k \in DOMAIN s |-> w[k]],
           \A k \in DOMAIN s : w[k] \in Items /\ w[k].id = s[k].id
    PROVE  IsOutbox(w) /\ EventIds(w) = EventIds(s)
  <1>1. s \in Seq(Items) /\ DOMAIN s = 1 .. Len(s) /\ Len(s) \in Nat
    BY DEF IsOutbox
  <1>2. DOMAIN w = 1 .. Len(s)
    BY <1>1
  <1>3. w \in [1 .. Len(s) -> Items]
    BY <1>1
  <1>4. w \in Seq(Items) /\ Len(w) = Len(s)
    BY <1>1, <1>2, <1>3
  <1>5. EventsDistinct(w)
    BY <1>1, <1>2 DEF IsOutbox, EventsDistinct
  <1>6. EventIds(w) = EventIds(s)
    BY <1>1, <1>2 DEF EventIds
  <1>7. QED BY <1>4, <1>5, <1>6 DEF IsOutbox

(* A failed send keeps its event in the outbox.                            *)
LEMMA FailedStays ==
    ASSUME NEW s, IsOutbox(s), NEW e \in Events, NEW wait \in Nat
    PROVE  IsOutbox(MarkFailed(s, e, wait)) /\ EventIds(MarkFailed(s, e, wait)) = EventIds(s)
  <1> DEFINE w == MarkFailed(s, e, wait)
  <1>1. \A k \in DOMAIN s : s[k] \in Items
    BY DEF IsOutbox
  <1>2. w = [k \in DOMAIN s |-> w[k]]
    BY DEF MarkFailed
  <1>3. ASSUME NEW k \in DOMAIN s PROVE w[k] \in Items /\ w[k].id = s[k].id
    <2>1. s[k].attempts \in Nat /\ s[k].attempts + 1 \in Nat /\ LastAttempt \in Nat
      BY <1>1, WaitsAreNatural DEF Items
    <2> DEFINE n == Min({s[k].attempts + 1, LastAttempt})
    <2>2. n \in 0 .. LastAttempt
      <3>1. n = IF s[k].attempts + 1 =< LastAttempt THEN s[k].attempts + 1 ELSE LastAttempt
        <4>1. s[k].attempts + 1 \in Int /\ LastAttempt \in Int
          BY <2>1
        <4> HIDE DEF LastAttempt
        <4>2. QED BY <4>1, PairBounds
      <3> HIDE DEF n
      <3>2. QED BY <2>1, <3>1
    <2>3. w[k] = IF s[k].id = e THEN [id |-> e, attempts |-> n, wait |-> wait] ELSE s[k]
      BY DEF MarkFailed
    <2> HIDE DEF n, w
    <2>4. QED BY <1>1, <2>2, <2>3 DEF Items
  <1> HIDE DEF w
  <1>4. QED BY <1>2, <1>3, SameIdsSameOutbox DEF w

(* Time moves no item.                                                     *)
LEMMA SoonerStays ==
    ASSUME NEW s, IsOutbox(s)
    PROVE  IsOutbox(Sooner(s)) /\ EventIds(Sooner(s)) = EventIds(s)
  <1> DEFINE w == Sooner(s)
  <1>1. \A k \in DOMAIN s : s[k] \in Items
    BY DEF IsOutbox
  <1>2. w = [k \in DOMAIN s |-> w[k]]
    BY DEF Sooner
  <1>3. ASSUME NEW k \in DOMAIN s PROVE w[k] \in Items /\ w[k].id = s[k].id
    <2>1. s[k].wait \in Nat /\ s[k].wait - 1 \in Int
      BY <1>1 DEF Items
    <2> DEFINE n == Max({s[k].wait - 1, 0})
    <2>2. n \in Nat
      <3>1. n = IF s[k].wait - 1 >= 0 THEN s[k].wait - 1 ELSE 0
        BY <2>1, PairBounds
      <3> HIDE DEF n
      <3>2. QED BY <2>1, <3>1
    <2>3. w[k] = [s[k] EXCEPT !.wait = n]
      BY DEF Sooner
    <2> HIDE DEF n, w
    <2>4. QED BY <1>1, <2>2, <2>3 DEF Items
  <1> HIDE DEF w
  <1>4. QED BY <1>2, <1>3, SameIdsSameOutbox DEF w

(* A new event goes last, and the oldest one may have to go for it.        *)
LEMMA AddedIsQueued ==
    ASSUME NEW s, IsOutbox(s), NEW e \in Events, e \notin EventIds(s), NEW wait \in Nat
    PROVE  /\ IsOutbox(AddItem(s, e, wait))
           /\ e \in EventIds(AddItem(s, e, wait))
           /\ EventIds(AddItem(s, e, wait)) \subseteq EventIds(s) \cup {e}
  <1> DEFINE i == [id |-> e, attempts |-> 0, wait |-> wait]
             a == Append(s, i)
             n == Len(s) + 1
             m == Max({1, n - MaxItems + 1})
             w == SubSeq(a, m, n)
  <1>1. s \in Seq(Items) /\ Len(s) \in Nat /\ Len(s) <= MaxItems /\ MaxItems \in Nat \ {0}
    BY MaxItemsPositive DEF IsOutbox
  <1>2. i \in Items
    BY WaitsAreNatural DEF Items
  <1>3. /\ a \in Seq(Items) /\ Len(a) = n /\ DOMAIN a = 1 .. n /\ n \in Nat
        /\ a[n] = i /\ \A k \in 1 .. Len(s) : a[k] = s[k]
    <2> HIDE DEF i
    <2>1. QED BY <1>1, <1>2
  <1>4. m \in 1 .. n /\ m \in Nat /\ n - m + 1 <= MaxItems /\ n - m + 1 \in Nat \ {0}
    <2>1. m = IF 1 >= n - MaxItems + 1 THEN 1 ELSE n - MaxItems + 1
      BY <1>1, <1>3, PairBounds
    <2> HIDE DEF m
    <2>2. QED BY <1>1, <2>1
  <1>5. AddItem(s, e, wait) = w
    BY <1>3 DEF AddItem
  <1> HIDE DEF a, m, i
  <1>6. /\ w \in Seq(Items)
        /\ Len(w) = n - m + 1
        /\ \A k \in 1 .. n - m + 1 : w[k] = a[m + k - 1]
    BY <1>3, <1>4, SubSeqProperties
  <1> HIDE DEF w, n
  <1>7. DOMAIN w = 1 .. n - m + 1
    BY <1>6
  <1>8. \A k \in DOMAIN w : m + k - 1 \in 1 .. n
    BY <1>3, <1>4, <1>7
  <1>9. i.id = e
    BY DEF i
  <1>10. \A k \in 1 .. n : k = n \/ k \in 1 .. Len(s)
    BY <1>1, <1>3 DEF n
  <1>11. EventsDistinct(a)
    <2> SUFFICES ASSUME NEW j \in 1 .. n, NEW k \in 1 .. n, a[j].id = a[k].id
                 PROVE  j = k
      BY <1>3 DEF EventsDistinct
    <2>1. \A l \in 1 .. Len(s) : l \in DOMAIN s /\ s[l].id # e
      BY <1>1 DEF EventIds
    <2>2. CASE j = n \/ k = n
      BY <2>2, <2>1, <1>3, <1>9, <1>10
    <2>3. CASE j # n /\ k # n
      <3>1. j \in DOMAIN s /\ k \in DOMAIN s /\ s[j].id = s[k].id
        BY <2>3, <2>1, <1>3, <1>10
      <3>2. QED BY <3>1 DEF IsOutbox, EventsDistinct
    <2>4. QED BY <2>2, <2>3
  <1>12. EventsDistinct(w)
    <2> SUFFICES ASSUME NEW j \in DOMAIN w, NEW k \in DOMAIN w, w[j].id = w[k].id
                 PROVE  j = k
      BY DEF EventsDistinct
    <2>1. a[m + j - 1].id = a[m + k - 1].id
      BY <1>6, <1>7
    <2>2. m + j - 1 \in DOMAIN a /\ m + k - 1 \in DOMAIN a
      BY <1>3, <1>8
    <2>3. m + j - 1 = m + k - 1
      BY <2>1, <2>2, <1>11 DEF EventsDistinct
    <2>4. QED BY <2>3, <1>4, <1>7
  <1>13. e \in EventIds(w)
    <2>1. n - m + 1 \in DOMAIN w /\ w[n - m + 1] = a[m + (n - m + 1) - 1]
      BY <1>4, <1>6, <1>7
    <2>2. m + (n - m + 1) - 1 = n
      BY <1>3, <1>4
    <2>3. QED BY <2>1, <2>2, <1>3, <1>9 DEF EventIds
  <1>14. EventIds(w) \subseteq EventIds(s) \cup {e}
    <2> SUFFICES ASSUME NEW k \in DOMAIN w PROVE w[k].id \in EventIds(s) \cup {e}
      BY DEF EventIds
    <2>1. w[k] = a[m + k - 1] /\ m + k - 1 \in 1 .. n
      BY <1>6, <1>7, <1>8
    <2>2. CASE m + k - 1 = n
      BY <2>1, <2>2, <1>3, <1>9
    <2>3. CASE m + k - 1 \in 1 .. Len(s)
      BY <2>1, <2>3, <1>1, <1>3 DEF EventIds
    <2>4. QED BY <2>1, <2>2, <2>3, <1>10
  <1>15. Len(w) <= MaxItems
    BY <1>4, <1>6
  <1>16. QED BY <1>5, <1>6, <1>12, <1>13, <1>14, <1>15 DEF IsOutbox

(* What is due is in the outbox, each event once.                          *)
LEMMA DueAreIds ==
    ASSUME NEW s, IsOutbox(s)
    PROVE  /\ DueItems(s) \in Seq(Events)
           /\ IsInjective(DueItems(s))
           /\ \A e \in Events : Contains(DueItems(s), e) => e \in EventIds(s)
  <1> DEFINE out == {i \in Range(s) : i.wait > 0}
             w == Without(s, out)
             d == DueItems(s)
  <1>1. /\ IsOutbox(w)
        /\ \A i \in Items : i \in Range(w) <=> i \in Range(s) /\ i \notin out
        /\ Range(w) \subseteq Items
    <2> HIDE DEF out
    <2>1. QED BY WithoutKeepsOutbox
  <1>2. d = [k \in DOMAIN w |-> w[k].id]
    BY DEF DueItems
  <1> HIDE DEF w, d, out
  <1>3. w \in Seq(Items) /\ DOMAIN w = 1 .. Len(w) /\ Len(w) \in Nat
    BY <1>1 DEF IsOutbox
  <1>4. ASSUME NEW k \in DOMAIN w PROVE w[k] \in Range(w) /\ w[k].id \in Events
    <2>1. w[k] \in Items
      BY <1>3
    <2>2. QED BY <2>1 DEF Range, Items
  <1>5. d \in Seq(Events) /\ Len(d) = Len(w) /\ DOMAIN d = DOMAIN w
    <2>1. d \in [1 .. Len(w) -> Events]
      BY <1>2, <1>3, <1>4
    <2>2. QED BY <2>1, <1>3
  <1>6. IsInjective(d)
    BY <1>1, <1>2, <1>5 DEF IsOutbox, EventsDistinct, IsInjective
  <1>7. ASSUME NEW e \in Events, Contains(d, e) PROVE e \in EventIds(s)
    <2>1. PICK k \in 1 .. Len(d) : d[k] = e
      BY <1>7 DEF Contains
    <2>2. k \in DOMAIN w /\ w[k].id = e
      BY <2>1, <1>2, <1>3, <1>5
    <2>3. w[k] \in Range(s)
      BY <2>2, <1>1, <1>4
    <2>4. QED BY <2>2, <2>3, IdsOfItems
  <1>8. QED BY <1>5, <1>6, <1>7 DEF d

-----------------------------------------------------------------------------
(* The steps.                                                              *)

(* Nothing is in the outbox at first.                                      *)
LEMMA OutboxInitIsSound == OutboxInit => OutboxSound
  <1> SUFFICES ASSUME OutboxInit PROVE OutboxSound
    OBVIOUS
  <1>1. IsOutbox(<<>>) /\ EventIds(<<>>) = {}
    BY EmptyIsOutbox
  <1>2. \A t \in Ticks : copy[t] = <<>> /\ toSend[t] = <<>>
    BY DEF OutboxInit
  <1>3. copy \in [Ticks -> Seq(Items)] /\ toSend \in [Ticks -> Seq(Events)]
    BY DEF OutboxInit
  <1>4. OutboxTypeOK
    BY <1>1, <1>2, <1>3 DEF OutboxInit, OutboxTypeOK
  <1>5. OnlyQueued
    BY <1>1, <1>2 DEF OutboxInit, OnlyQueued
  <1>6. DueIsCopied
    BY <1>2 DEF DueIsCopied, IsInjective, Contains
  <1>7. DrainsKeep /\ LostOnlyWhenExposed
    BY DEF OutboxInit, DrainsKeep, LostOnlyWhenExposed
  <1>8. QED BY <1>4, <1>5, <1>6, <1>7 DEF OutboxSound

(* An event that never reaches the outbox.                                 *)
LEMMA AnsweredKeeps ==
    ASSUME OutboxSound, NEW e \in Events, Answered(e)
    PROVE  OutboxSound'
  <1>1. UNCHANGED <<file, copy, toSend, since, upsets, delivered, capped, exposed>>
    BY DEF Answered, tick, outcomes
  <1>2. /\ post' \in [Events -> {"new", "over", "queued"}]
        /\ post[e] # "queued" /\ post'[e] # "queued"
        /\ \A d \in Events : d # e => post'[d] = post[d]
    BY DEF Answered, OutboxSound, OutboxTypeOK
  <1>3. OutboxTypeOK'
    BY <1>1, <1>2 DEF OutboxSound, OutboxTypeOK
  <1>4. OnlyQueued'
    BY <1>1, <1>2 DEF OutboxSound, OnlyQueued
  <1>5. DueIsCopied'
    BY <1>1 DEF OutboxSound, DueIsCopied
  <1>6. DrainsKeep'
    BY <1>1, <1>2 DEF OutboxSound, DrainsKeep, Draining
  <1>7. LostOnlyWhenExposed'
    BY <1>1, <1>2 DEF OutboxSound, LostOnlyWhenExposed
  <1>8. QED BY <1>3, <1>4, <1>5, <1>6, <1>7 DEF OutboxSound

(* A new event is in the file, unless a drain or a failed write exposes it;*)
(* whom the cap drops, it records.                                         *)
LEMMA EnqueueEventKeeps ==
    ASSUME OutboxSound, NEW e \in Events, NEW wait \in Nat, EnqueueEvent(e, wait)
    PROVE  OutboxSound'
  <1> DEFINE next == AddItem(file, e, wait)
  <1>1. post[e] = "new" /\ e \notin EventIds(file) /\ \A t \in Ticks : e \notin EventIds(copy[t])
    BY DEF EnqueueEvent, OutboxSound, OnlyQueued
  <1>2. IsOutbox(file)
    BY DEF OutboxSound, OutboxTypeOK
  <1>3. IsOutbox(next) /\ e \in EventIds(next) /\ EventIds(next) \subseteq EventIds(file) \cup {e}
    BY <1>1, <1>2, AddedIsQueued
  <1>4. /\ UNCHANGED <<copy, toSend, since, delivered>>
        /\ post' \in [Events -> {"new", "over", "queued"}]
        /\ post'[e] = "queued" /\ \A d \in Events : d # e => post'[d] = post[d]
    BY DEF EnqueueEvent, tick, OutboxSound, OutboxTypeOK
  <1>5. \/ /\ file' = next /\ upsets' = upsets
           /\ capped' = capped \cup (EventIds(file) \ EventIds(next))
           /\ exposed' = IF Draining # {} THEN exposed \cup {e} ELSE exposed
        \/ /\ file' = file /\ upsets' = upsets + 1
           /\ exposed' = exposed \cup {e} /\ capped' = capped
    BY DEF EnqueueEvent, Saved, SaveFailed, Upset
  <1> HIDE DEF next
  <1>6. EventIds(file) \subseteq Events
    <2>1. \A k \in DOMAIN file : file[k] \in Items
      BY <1>2 DEF IsOutbox
    <2>2. QED BY <2>1 DEF EventIds, Items
  <1>7. /\ file' \in {file, next}
        /\ capped \subseteq capped' /\ capped' \subseteq Events
        /\ exposed \subseteq exposed' /\ exposed' \subseteq Events
    BY <1>5, <1>6 DEF OutboxSound, OutboxTypeOK
  <1>8. OutboxTypeOK'
    <2>1. upsets' \in Nat
      BY <1>5 DEF OutboxSound, OutboxTypeOK
    <2>2. IsOutbox(file')
      BY <1>2, <1>3, <1>7
    <2>3. QED BY <2>1, <2>2, <1>4, <1>7 DEF OutboxSound, OutboxTypeOK
  <1>9. OnlyQueued'
    <2>1. EventIds(file') \subseteq EventIds(file) \cup {e}
      BY <1>3, <1>7
    <2>2. QED BY <2>1, <1>4 DEF OutboxSound, OnlyQueued
  <1>10. DueIsCopied'
    BY <1>4 DEF OutboxSound, DueIsCopied
  <1>11. DrainsKeep'
    <2>1. Draining' = Draining
      BY <1>4 DEF Draining
    <2>2. Draining # {} => e \in exposed'
      BY <1>5
    <2>3. QED BY <2>1, <2>2, <1>4, <1>7 DEF OutboxSound, DrainsKeep
  <1>12. LostOnlyWhenExposed'
    <2>1. e \in EventIds(file') \cup exposed'
      BY <1>3, <1>5
    <2>2. EventIds(file) \subseteq EventIds(file') \cup capped'
      BY <1>5
    <2>3. QED BY <2>1, <2>2, <1>4, <1>7 DEF OutboxSound, LostOnlyWhenExposed
  <1>13. QED BY <1>8, <1>9, <1>10, <1>11, <1>12 DEF OutboxSound

(* A drain goes on, or saves its copy over the file: what it does keeps    *)
(* the invariant if the copy lacks nothing.                                *)
LEMMA ContinueKeeps ==
    ASSUME OutboxSound, NEW t \in Ticks, NEW s, NEW rest, Continue(t, s, rest),
           IsOutbox(s), rest \in Seq(Events), IsInjective(rest),
           \A e \in Events : Contains(rest, e) => e \in EventIds(s),
           \A e \in Events : e \in EventIds(s) => post[e] = "queued",
           \A e \in Events : post[e] = "queued" =>
                                e \in EventIds(s) \cup delivered' \cup capped \cup exposed,
           delivered \subseteq delivered', delivered' \subseteq Events,
           since' \in [Ticks -> Nat], UNCHANGED <<post, capped, exposed>>
    PROVE  OutboxSound'
  <1>1. IsOutbox(<<>>) /\ EventIds(<<>>) = {}
    BY EmptyIsOutbox
  <1>2. PICK kept : /\ copy' = [copy EXCEPT ![t] = kept]
                    /\ kept = IF rest # <<>> THEN s ELSE <<>>
    BY DEF Continue
  <1>3. toSend' = [toSend EXCEPT ![t] = rest]
    BY DEF Continue
  <1>4. /\ file' \in {file, s}
        /\ upsets' \in Nat
        /\ rest # <<>> => file' = file
    BY DEF Continue, Saved, SaveFailed, Upset, OutboxSound, OutboxTypeOK
  <1>5. IsOutbox(kept) /\ EventIds(kept) \subseteq EventIds(s) /\ kept \in Seq(Items)
    BY <1>1, <1>2 DEF IsOutbox
  <1>6. /\ copy'[t] = kept /\ \A u \in Ticks \ {t} : copy'[u] = copy[u]
        /\ toSend'[t] = rest /\ \A u \in Ticks \ {t} : toSend'[u] = toSend[u]
        /\ copy' \in [Ticks -> Seq(Items)] /\ toSend' \in [Ticks -> Seq(Events)]
    BY <1>2, <1>3, <1>5 DEF OutboxSound, OutboxTypeOK
  <1>7. OutboxTypeOK'
    <2>1. \A u \in Ticks : IsOutbox(copy'[u])
      BY <1>5, <1>6 DEF OutboxSound, OutboxTypeOK
    <2>2. IsOutbox(file')
      BY <1>4 DEF OutboxSound, OutboxTypeOK
    <2>3. QED BY <2>1, <2>2, <1>4, <1>6 DEF OutboxSound, OutboxTypeOK
  <1>8. OnlyQueued'
    <2> SUFFICES ASSUME NEW e \in Events,
                        e \in EventIds(file') \/ \E u \in Ticks : e \in EventIds(copy'[u])
                 PROVE  post[e] = "queued"
      BY DEF OnlyQueued
    <2>1. CASE e \in EventIds(file')
      BY <2>1, <1>4 DEF OutboxSound, OnlyQueued
    <2>2. ASSUME NEW u \in Ticks, e \in EventIds(copy'[u]) PROVE post[e] = "queued"
      BY <2>2, <1>5, <1>6 DEF OutboxSound, OnlyQueued
    <2>3. QED BY <2>1, <2>2
  <1>9. DueIsCopied'
    <2> SUFFICES ASSUME NEW u \in Ticks
                 PROVE  /\ IsInjective(toSend'[u])
                        /\ \A e \in Events : Contains(toSend'[u], e) => e \in EventIds(copy'[u])
                        /\ toSend'[u] = <<>> => copy'[u] = <<>>
      BY DEF DueIsCopied
    <2>1. CASE u = t
      <3>1. CASE rest # <<>>
        BY <2>1, <3>1, <1>2, <1>6
      <3>2. CASE rest = <<>>
        BY <2>1, <3>2, <1>2, <1>6 DEF Contains
      <3>3. QED BY <3>1, <3>2
    <2>2. CASE u # t
      BY <2>2, <1>6 DEF OutboxSound, DueIsCopied
    <2>3. QED BY <2>1, <2>2
  <1>10. DrainsKeep'
    <2> SUFFICES ASSUME NEW u \in Ticks, toSend'[u] # <<>>, NEW e \in Events, post[e] = "queued"
                 PROVE  e \in EventIds(copy'[u]) \cup delivered' \cup capped \cup exposed
      BY DEF DrainsKeep, Draining
    <2>1. CASE u = t
      BY <2>1, <1>2, <1>6
    <2>2. CASE u # t
      <3>1. u \in Draining
        BY <2>2, <1>6 DEF Draining
      <3>2. e \in EventIds(copy[u]) \cup delivered \cup capped \cup exposed
        BY <3>1 DEF OutboxSound, DrainsKeep
      <3>3. QED BY <2>2, <3>2, <1>6
    <2>3. QED BY <2>1, <2>2
  <1>11. LostOnlyWhenExposed'
    BY <1>4 DEF OutboxSound, LostOnlyWhenExposed
  <1>12. QED BY <1>7, <1>8, <1>9, <1>10, <1>11 DEF OutboxSound

(* A drain loads the file as it is.                                        *)
LEMMA StartDrainKeeps ==
    ASSUME OutboxSound, NEW t \in Ticks, StartDrain(t)
    PROVE  OutboxSound'
  <1>1. IsOutbox(file)
    BY DEF OutboxSound, OutboxTypeOK
  <1>2. /\ DueItems(file) \in Seq(Events)
        /\ IsInjective(DueItems(file))
        /\ \A e \in Events : Contains(DueItems(file), e) => e \in EventIds(file)
    BY <1>1, DueAreIds
  <1>3. /\ Continue(t, file, DueItems(file))
        /\ UNCHANGED <<post, delivered, capped, exposed>>
        /\ since' \in [Ticks -> Nat]
    BY DEF StartDrain, outcomes, OutboxSound, OutboxTypeOK
  <1>4. \A e \in Events : e \in EventIds(file) => post[e] = "queued"
    BY DEF OutboxSound, OnlyQueued
  <1>5. \A e \in Events : post[e] = "queued" =>
                             e \in EventIds(file) \cup delivered' \cup capped \cup exposed
    BY <1>3 DEF OutboxSound, LostOnlyWhenExposed
  <1>6. delivered \subseteq delivered' /\ delivered' \subseteq Events
    BY <1>3 DEF OutboxSound, OutboxTypeOK
  <1> DEFINE rest == DueItems(file)
  <1> HIDE DEF rest
  <1>7. QED BY <1>1, <1>2, <1>3, <1>4, <1>5, <1>6, ContinueKeeps DEF rest

(* The one being sent is in the copy of its drain, and what is due after   *)
(* it stays there when it leaves.                                          *)
LEMMA SendingIsCopied ==
    ASSUME OutboxSound, NEW t \in Draining
    PROVE  /\ t \in Ticks /\ IsOutbox(copy[t])
           /\ Head(toSend[t]) \in Events /\ Head(toSend[t]) \in EventIds(copy[t])
           /\ Tail(toSend[t]) \in Seq(Events) /\ IsInjective(Tail(toSend[t]))
           /\ \A e \in Events : Contains(Tail(toSend[t]), e) =>
                                   e \in EventIds(copy[t]) /\ e # Head(toSend[t])
           /\ \A e \in Events : e \in EventIds(copy[t]) => post[e] = "queued"
           /\ \A e \in Events : post[e] = "queued" =>
                                   e \in EventIds(copy[t]) \cup delivered \cup capped \cup exposed
  <1>1. t \in Ticks /\ toSend[t] # <<>>
    BY DEF Draining
  <1>2. toSend[t] \in Seq(Events) /\ IsInjective(toSend[t]) /\ IsOutbox(copy[t])
    BY <1>1 DEF OutboxSound, OutboxTypeOK, DueIsCopied
  <1>3. /\ Head(toSend[t]) \in Events
        /\ Tail(toSend[t]) \in Seq(Events) /\ IsInjective(Tail(toSend[t]))
        /\ \A e \in Events :
               Contains(Tail(toSend[t]), e) <=> Contains(toSend[t], e) /\ e # Head(toSend[t])
        /\ Contains(toSend[t], Head(toSend[t]))
    BY <1>1, <1>2, TailOfQueue
  <1>4. \A e \in Events : Contains(toSend[t], e) => e \in EventIds(copy[t])
    BY <1>1 DEF OutboxSound, DueIsCopied
  <1>5. \A e \in Events : e \in EventIds(copy[t]) => post[e] = "queued"
    BY <1>1 DEF OutboxSound, OnlyQueued
  <1>6. \A e \in Events : post[e] = "queued" =>
                             e \in EventIds(copy[t]) \cup delivered \cup capped \cup exposed
    BY DEF OutboxSound, DrainsKeep
  <1>7. QED BY <1>1, <1>2, <1>3, <1>4, <1>5, <1>6

(* A confirmed event leaves the copy, delivered.                           *)
LEMMA SendOkKeeps ==
    ASSUME OutboxSound, NEW t \in Ticks, SendOk(t)
    PROVE  OutboxSound'
  <1> DEFINE e == Head(toSend[t])
             s == MarkSucceeded(copy[t], e)
             rest == Tail(toSend[t])
  <1>1. t \in Draining
    BY DEF SendOk
  <1>2. /\ IsOutbox(copy[t])
        /\ e \in Events /\ rest \in Seq(Events) /\ IsInjective(rest)
        /\ \A d \in Events : Contains(rest, d) => d \in EventIds(copy[t]) /\ d # e
        /\ \A d \in Events : d \in EventIds(copy[t]) => post[d] = "queued"
        /\ \A d \in Events : post[d] = "queued" =>
                                d \in EventIds(copy[t]) \cup delivered \cup capped \cup exposed
    BY <1>1, SendingIsCopied
  <1>3. IsOutbox(s) /\ EventIds(s) = EventIds(copy[t]) \ {e}
    BY <1>2, SucceededLeaves
  <1>4. /\ Continue(t, s, rest) /\ delivered' = delivered \cup {e}
        /\ UNCHANGED <<post, since, capped, exposed>>
    BY DEF SendOk
  <1> HIDE DEF e, s, rest
  <1>5. /\ \A d \in Events : Contains(rest, d) => d \in EventIds(s)
        /\ \A d \in Events : d \in EventIds(s) => post[d] = "queued"
        /\ \A d \in Events : post[d] = "queued" =>
                                d \in EventIds(s) \cup delivered' \cup capped \cup exposed
    BY <1>2, <1>3, <1>4
  <1>6. delivered \subseteq delivered' /\ delivered' \subseteq Events /\ since' \in [Ticks -> Nat]
    BY <1>2, <1>4 DEF OutboxSound, OutboxTypeOK
  <1>7. QED BY <1>2, <1>3, <1>4, <1>5, <1>6, ContinueKeeps

(* An event that was not confirmed stays in the copy, due later.           *)
LEMMA SendFailedKeeps ==
    ASSUME OutboxSound, NEW t \in Ticks, SendFailed(t)
    PROVE  OutboxSound'
  <1> DEFINE e == Head(toSend[t])
             rest == Tail(toSend[t])
             left(wait) == Max({wait - since[t], 0})
             attempts == Min({AttemptsOf(copy[t], e) + 1, LastAttempt})
  <1>1. t \in Draining
    BY DEF SendFailed
  <1>2. /\ IsOutbox(copy[t])
        /\ e \in Events /\ e \in EventIds(copy[t])
        /\ rest \in Seq(Events) /\ IsInjective(rest)
        /\ \A d \in Events : Contains(rest, d) => d \in EventIds(copy[t]) /\ d # e
        /\ \A d \in Events : d \in EventIds(copy[t]) => post[d] = "queued"
        /\ \A d \in Events : post[d] = "queued" =>
                                d \in EventIds(copy[t]) \cup delivered \cup capped \cup exposed
    BY <1>1, SendingIsCopied
  <1>3. AttemptsOf(copy[t], e) \in 0 .. LastAttempt
    <2>1. \E i \in Range(copy[t]) : i.id = e
      BY <1>2, IdsOfItems
    <2> DEFINE i == CHOOSE i \in Range(copy[t]) : i.id = e
    <2>2. i \in Range(copy[t])
      BY <2>1
    <2>3. Range(copy[t]) \subseteq Items
      BY <1>2 DEF IsOutbox, Range
    <2>4. i \in Items
      BY <2>2, <2>3
    <2>5. i.attempts \in 0 .. LastAttempt
      <3> HIDE DEF i
      <3>1. QED BY <2>4 DEF Items
    <2>6. QED BY <2>5 DEF AttemptsOf
  <1>4. attempts \in 0 .. LastAttempt
    <2> DEFINE a == AttemptsOf(copy[t], e) + 1
    <2>1. a \in Int /\ LastAttempt \in Int /\ a \in Nat
      BY <1>3, WaitsAreNatural
    <2> HIDE DEF a
    <2>2. Min({a, LastAttempt}) = IF a =< LastAttempt THEN a ELSE LastAttempt
      <3> HIDE DEF LastAttempt
      <3>1. QED BY <2>1, PairBounds
    <2>3. Min({a, LastAttempt}) \in 0 .. LastAttempt
      BY <2>1, <2>2, WaitsAreNatural
    <2>4. QED BY <2>3 DEF a
  <1>5. PICK wait \in Waits(attempts) :
              Continue(t, Reschedule(copy[t], e, left(wait)), rest)
    BY DEF SendFailed
  <1>6. UNCHANGED <<post, since, delivered, capped, exposed>>
    BY DEF SendFailed, outcomes
  <1>7. wait \in Nat
    <2> HIDE DEF attempts
    <2>1. QED BY <1>4, <1>5, WaitsAreNatural
  <1> DEFINE later == left(wait)
             s == MarkFailed(copy[t], e, later)
  <1>8. later \in Nat
    <2>1. since[t] \in Nat
      BY DEF OutboxSound, OutboxTypeOK
    <2> DEFINE a == wait - since[t]
    <2>2. a \in Int
      BY <2>1, <1>7
    <2> HIDE DEF a
    <2>3. Max({a, 0}) = IF a >= 0 THEN a ELSE 0
      BY <2>2, PairBounds
    <2>4. Max({a, 0}) \in Nat
      BY <2>2, <2>3
    <2>5. QED BY <2>4 DEF a
  <1>9. Continue(t, s, rest)
    BY <1>5 DEF Reschedule
  <1> HIDE DEF e, rest, later
  <1>10. IsOutbox(s) /\ EventIds(s) = EventIds(copy[t])
    BY <1>2, <1>8, FailedStays
  <1> HIDE DEF s
  <1>11. /\ \A d \in Events : Contains(rest, d) => d \in EventIds(s)
         /\ \A d \in Events : d \in EventIds(s) => post[d] = "queued"
         /\ \A d \in Events : post[d] = "queued" =>
                                 d \in EventIds(s) \cup delivered' \cup capped \cup exposed
    BY <1>2, <1>6, <1>10
  <1>12. delivered \subseteq delivered' /\ delivered' \subseteq Events /\ since' \in [Ticks -> Nat]
    BY <1>6 DEF OutboxSound, OutboxTypeOK
  <1>13. QED BY <1>2, <1>6, <1>9, <1>10, <1>11, <1>12, ContinueKeeps

(* Time moves nobody in or out.                                            *)
LEMMA ClockRunsKeeps ==
    ASSUME OutboxSound, ClockRuns
    PROVE  OutboxSound'
  <1>1. UNCHANGED <<post, toSend, upsets, delivered, capped, exposed>>
    BY DEF ClockRuns, outcomes
  <1>2. IsOutbox(file') /\ EventIds(file') = EventIds(file)
    BY SoonerStays DEF ClockRuns, OutboxSound, OutboxTypeOK
  <1>3. copy' = [t \in Ticks |-> Sooner(copy[t])]
    BY DEF ClockRuns
  <1>4. \A t \in Ticks : IsOutbox(copy'[t]) /\ EventIds(copy'[t]) = EventIds(copy[t])
    BY <1>3, SoonerStays DEF OutboxSound, OutboxTypeOK
  <1>5. copy' \in [Ticks -> Seq(Items)]
    BY <1>3, <1>4 DEF IsOutbox
  <1>6. since' \in [Ticks -> Nat]
    <2>1. ASSUME NEW t \in Ticks PROVE Min({since[t] + 1, LongestWait}) \in Nat
      <3> DEFINE a == since[t] + 1
                 b == LongestWait
      <3>1. a \in Nat /\ b \in Nat /\ a \in Int /\ b \in Int
        BY LongestWaitIsNatural DEF OutboxSound, OutboxTypeOK
      <3> HIDE DEF a, b
      <3>2. Min({a, b}) = IF a =< b THEN a ELSE b
        BY <3>1, PairBounds
      <3>3. Min({a, b}) \in Nat
        BY <3>1, <3>2
      <3>4. QED BY <3>3 DEF a, b
    <2>2. QED BY <2>1 DEF ClockRuns
  <1>7. \A t \in Ticks : copy[t] = <<>> => copy'[t] = <<>>
    BY <1>3 DEF Sooner
  <1>8. OutboxTypeOK'
    BY <1>1, <1>2, <1>4, <1>5, <1>6 DEF OutboxSound, OutboxTypeOK
  <1>9. OnlyQueued'
    BY <1>1, <1>2, <1>4 DEF OutboxSound, OnlyQueued
  <1>10. DueIsCopied'
    BY <1>1, <1>4, <1>7 DEF OutboxSound, DueIsCopied
  <1>11. DrainsKeep'
    <2>1. Draining' = Draining
      BY <1>1 DEF Draining
    <2>2. QED BY <2>1, <1>1, <1>4 DEF OutboxSound, DrainsKeep, Draining
  <1>12. LostOnlyWhenExposed'
    BY <1>1, <1>2 DEF OutboxSound, LostOnlyWhenExposed
  <1>13. QED BY <1>8, <1>9, <1>10, <1>11, <1>12 DEF OutboxSound

(* A death leaves the file, and nobody who would write over it.            *)
LEMMA ProcessDiesKeeps ==
    ASSUME OutboxSound, ProcessDies
    PROVE  OutboxSound'
  <1>1. UNCHANGED <<file, post, delivered, capped, exposed>> /\ upsets' = upsets + 1
    BY DEF ProcessDies, Upset, outcomes
  <1>2. \A t \in Ticks : copy'[t] = <<>> /\ toSend'[t] = <<>>
    BY DEF ProcessDies
  <1>3. /\ copy' \in [Ticks -> Seq(Items)] /\ toSend' \in [Ticks -> Seq(Events)]
        /\ since' \in [Ticks -> Nat]
    BY DEF ProcessDies
  <1>4. IsOutbox(<<>>) /\ EventIds(<<>>) = {}
    BY EmptyIsOutbox
  <1>5. OutboxTypeOK'
    BY <1>1, <1>2, <1>3, <1>4 DEF OutboxSound, OutboxTypeOK
  <1>6. OnlyQueued'
    BY <1>1, <1>2, <1>4 DEF OutboxSound, OnlyQueued
  <1>7. DueIsCopied'
    BY <1>2 DEF DueIsCopied, IsInjective, Contains
  <1>8. DrainsKeep'
    BY <1>2 DEF DrainsKeep, Draining
  <1>9. LostOnlyWhenExposed'
    BY <1>1 DEF OutboxSound, LostOnlyWhenExposed
  <1>10. QED BY <1>5, <1>6, <1>7, <1>8, <1>9 DEF OutboxSound

(* Every step keeps the invariant.                                         *)
LEMMA OutboxNextIsSound == OutboxSound /\ [OutboxNext]_outboxVars => OutboxSound'
  <1> SUFFICES ASSUME OutboxSound, [OutboxNext]_outboxVars PROVE OutboxSound'
    OBVIOUS
  <1>1. ASSUME NEW e \in Events, Answered(e) PROVE OutboxSound'
    BY <1>1, AnsweredKeeps
  <1>2. ASSUME NEW e \in Events, NEW wait \in Waits(0), EnqueueEvent(e, wait) PROVE OutboxSound'
    <2>1. wait \in Nat
      BY WaitsAreNatural
    <2>2. QED BY <1>2, <2>1, EnqueueEventKeeps
  <1>3. ASSUME NEW t \in Ticks, StartDrain(t) \/ SendOk(t) \/ SendFailed(t) PROVE OutboxSound'
    BY <1>3, StartDrainKeeps, SendOkKeeps, SendFailedKeeps
  <1>4. CASE UNCHANGED outboxVars
    <2>1. UNCHANGED <<file, post, copy, toSend, since, upsets, delivered, capped, exposed>>
      BY <1>4 DEF outboxVars, tick, outcomes
    <2>2. OutboxTypeOK' /\ OnlyQueued' /\ DueIsCopied'
      BY <2>1 DEF OutboxSound, OutboxTypeOK, OnlyQueued, DueIsCopied
    <2>3. DrainsKeep' /\ LostOnlyWhenExposed'
      BY <2>1 DEF OutboxSound, DrainsKeep, Draining, LostOnlyWhenExposed
    <2>4. QED BY <2>2, <2>3 DEF OutboxSound
  <1>5. QED BY <1>1, <1>2, <1>3, <1>4, ClockRunsKeeps, ProcessDiesKeeps DEF OutboxNext

-----------------------------------------------------------------------------
(* The results.                                                            *)

(* The invariant holds however many ticks overlap, whatever the Worker     *)
(* answers, and whatever write fails or process dies: among other things   *)
(* the outbox never passes its cap, holds no event twice, and no item      *)
(* counts more attempts than the schedule has waits.                       *)
THEOREM OutboxInvariance == OutboxSpec => []OutboxSound
  <1>1. OutboxInit => OutboxSound
    BY OutboxInitIsSound
  <1>2. OutboxSound /\ [OutboxNext]_outboxVars => OutboxSound'
    BY OutboxNextIsSound
  <1>3. QED BY <1>1, <1>2, PTL DEF OutboxSpec

(* An event in the outbox is lost only for the cap, or because it was      *)
(* enqueued while a drain was sending or its own write failed              *)
(* (enqueueOperatorItem() against drainOperatorQueue()).                   *)
THEOREM OutboxKeepsEvents == OutboxSpec => []LostOnlyWhenExposed
  <1>1. OutboxSound => LostOnlyWhenExposed
    BY DEF OutboxSound
  <1>2. QED BY <1>1, OutboxInvariance, PTL
=============================================================================
