----------------------- MODULE SpeechPackServiceProofs -----------------------
(***************************************************************************)
(* Proofs about the engine as SpeechPackLifecycle promises it, and about   *)
(* the service above it, for every set of packs and of actions.  The       *)
(* engine's operators are Engine!X.                                        *)
(***************************************************************************)
EXTENDS SpeechPackService, QueueLemmas

-----------------------------------------------------------------------------
(* The invariant: the queue's agreement with the states is inductive once  *)
(* the queue is known to be a sequence of packs.                           *)
Agreement ==
    /\ \A c \in Components : state[c] = "queued" <=> Contains(queue, c)
    /\ IsInjective(queue)
    /\ ~Contains(queue, running)
    /\ running = None => queue = <<>> /\ abort = None
    /\ \A c \in Components : state[c] \in Engine!Moving => running = c

EngineInv == Engine!TypeOK /\ Agreement

(* The agreement is what the engine promises.                              *)
LEMMA AgreementIsPromised ==
    Agreement <=> Engine!QueueMatchesStates
  BY DEF Agreement, Engine!QueueMatchesStates, Contains, Engine!Contains,
         IsInjective, Engine!IsInjective

(* dequeue() removes its pack and no other.                                *)
LEMMA CutFromQueue ==
    ASSUME NEW q \in Seq(Components), NEW c \in Components, IsInjective(q)
    PROVE  /\ Engine!Cut(q, c) \in Seq(Components)
           /\ IsInjective(Engine!Cut(q, c))
           /\ \A d \in Components : Contains(Engine!Cut(q, c), d) <=> Contains(q, d) /\ d # c
  <1>1. CASE Contains(q, c)
    <2> DEFINE k == CHOOSE i \in 1 .. Len(q) : q[i] = c
    <2>1. k \in 1 .. Len(q) /\ q[k] = c
      BY <1>1 DEF Contains
    <2>2. Engine!Cut(q, c) = RemoveAt(q, k)
      BY <1>1 DEF Engine!Cut, Engine!Contains, Engine!RemoveAt, Contains, RemoveAt
    <2> HIDE DEF k
    <2>3. QED BY <2>1, <2>2, RemoveFromQueue
  <1>2. CASE ~Contains(q, c)
    BY <1>2 DEF Engine!Cut, Engine!Contains, Engine!RemoveAt, Contains, RemoveAt
  <1>3. QED BY <1>1, <1>2

(* pump() keeps the agreement when nothing is being installed.             *)
LEMMA PumpPreserves ==
    ASSUME NEW q \in Seq(Components), IsInjective(q),
           NEW s \in [Components -> Engine!States],
           \A c \in Components : s[c] = "queued" <=> Contains(q, c),
           \A c \in Components : s[c] \notin Engine!Moving,
           Engine!Pump(q, s)
    PROVE  EngineInv'
  <1>1. CASE q = <<>>
    <2>1. queue' = <<>> /\ state' = s /\ running' = None /\ abort' = None
      BY <1>1 DEF Engine!Pump
    <2>2. ~Contains(queue', running')
      BY <2>1 DEF Contains
    <2>3. QED BY <1>1, <2>1, <2>2 DEF EngineInv, Engine!TypeOK, Agreement
  <1>2. CASE q # <<>>
    <2> DEFINE h == Head(q)
    <2>1. /\ h \in Components /\ Contains(q, h)
          /\ Tail(q) \in Seq(Components) /\ IsInjective(Tail(q))
          /\ \A d \in Components : Contains(Tail(q), d) <=> Contains(q, d) /\ d # h
      BY <1>2, TailOfQueue
    <2>2. /\ queue' = Tail(q) /\ running' = h /\ abort' = None
          /\ state' = [s EXCEPT ![h] = "downloading"]
      BY <1>2 DEF Engine!Pump
    <2> HIDE DEF h
    <2>3. h # None
      BY <2>1, NoneIsNothing
    <2>4. Engine!TypeOK'
      BY <2>1, <2>2 DEF Engine!TypeOK, Engine!States, Engine!Moving
    <2>5. ASSUME NEW c \in Components
          PROVE  /\ state'[c] = "queued" <=> Contains(queue', c)
                 /\ state'[c] \in Engine!Moving => running' = c
      <3>1. CASE c = h
        BY <3>1, <2>1, <2>2
      <3>2. CASE c # h
        BY <3>2, <2>1, <2>2
      <3>3. QED BY <3>1, <3>2
    <2>6. ~Contains(queue', running')
      BY <2>1, <2>2
    <2>7. QED BY <2>1, <2>2, <2>3, <2>4, <2>5, <2>6 DEF EngineInv, Agreement
  <1>3. QED BY <1>1, <1>2

(* While nothing is being installed no state shows progress.               *)
LEMMA IdleMovesNothing ==
    ASSUME EngineInv, running = None
    PROVE  \A c \in Components : state[c] \notin Engine!Moving
  BY NoneIsNothing DEF EngineInv, Agreement

(* A pack that joins the queue, wherever in it.                            *)
LEMMA RequestPreserves ==
    ASSUME EngineInv, NEW c \in Components, c # running,
           NEW q \in Seq(Components), IsInjective(q),
           \A d \in Components : Contains(q, d) <=> Contains(queue, d) \/ d = c,
           Engine!Request(c, q)
    PROVE  EngineInv'
  <1> DEFINE s == [state EXCEPT ![c] = "queued"]
  <1>1. s \in [Components -> Engine!States]
    BY DEF EngineInv, Engine!TypeOK, Engine!States
  <1>2. \A d \in Components : s[d] = IF d = c THEN "queued" ELSE state[d]
    BY DEF EngineInv, Engine!TypeOK
  <1>3. \A d \in Components : s[d] = "queued" <=> Contains(q, d)
    BY <1>2 DEF EngineInv, Agreement
  <1>4. CASE running = None
    <2>1. Engine!Pump(q, s)
      BY <1>4 DEF Engine!Request
    <2>2. \A d \in Components : s[d] \notin Engine!Moving
      <3>1. \A d \in Components : state[d] \notin Engine!Moving
        BY <1>4, IdleMovesNothing
      <3>2. "queued" \notin Engine!Moving
        BY DEF Engine!Moving
      <3> HIDE DEF s
      <3>3. QED BY <1>2, <3>1, <3>2
    <2> HIDE DEF s
    <2>3. QED BY <1>1, <1>3, <2>1, <2>2, PumpPreserves
  <1>5. CASE running # None
    <2>1. queue' = q /\ state' = s /\ running' = running /\ abort' = abort
      BY <1>5 DEF Engine!Request
    <2> HIDE DEF s
    <2>2. Engine!TypeOK'
      BY <1>1, <2>1 DEF EngineInv, Engine!TypeOK
    <2>3. ~Contains(queue', running')
      <3>1. running \in Components
        BY <1>5 DEF EngineInv, Engine!TypeOK
      <3>2. QED BY <3>1, <2>1 DEF EngineInv, Agreement
    <2>4. \A d \in Components : state'[d] \in Engine!Moving => running' = d
      BY <1>2, <2>1 DEF EngineInv, Agreement, Engine!Moving
    <2>5. QED BY <1>3, <1>5, <2>1, <2>2, <2>3, <2>4 DEF EngineInv, Agreement
  <1>6. QED BY <1>4, <1>5

(* A waiting pack, or one at rest, that leaves the queue.                  *)
LEMMA DequeuePreserves ==
    ASSUME EngineInv, NEW c \in Components, c # running, NEW s \in Engine!Resting,
           Engine!Dequeue(c, s)
    PROVE  EngineInv'
  <1>1. /\ queue \in Seq(Components) /\ IsInjective(queue)
        /\ state \in [Components -> Engine!States]
    BY DEF EngineInv, Engine!TypeOK, Agreement
  <1>2. /\ Engine!Cut(queue, c) \in Seq(Components)
        /\ IsInjective(Engine!Cut(queue, c))
        /\ \A d \in Components : Contains(Engine!Cut(queue, c), d) <=> Contains(queue, d) /\ d # c
    BY <1>1, CutFromQueue
  <1>3. /\ queue' = Engine!Cut(queue, c) /\ running' = running /\ abort' = abort
        /\ state' = [state EXCEPT ![c] = s]
    BY DEF Engine!Dequeue
  <1>4. s \in Engine!States /\ s # "queued" /\ s \notin Engine!Moving
    BY DEF Engine!Resting, Engine!States, Engine!Moving
  <1>5. Engine!TypeOK'
    BY <1>1, <1>2, <1>3, <1>4 DEF EngineInv, Engine!TypeOK
  <1>6. \A d \in Components : state'[d] = IF d = c THEN s ELSE state[d]
    BY <1>1, <1>3
  <1>7. ~Contains(queue', running')
    <2>1. CASE running \in Components
      BY <2>1, <1>2, <1>3 DEF EngineInv, Agreement
    <2>2. CASE running \notin Components
      BY <2>2, <1>2, <1>3 DEF Contains
    <2>3. QED BY <2>1, <2>2
  <1>8. running' = None => queue' = <<>> /\ abort' = None
    <2> SUFFICES ASSUME running = None
                 PROVE  Engine!Cut(queue, c) = <<>> /\ abort = None
      BY <1>3
    <2>1. queue = <<>> /\ abort = None
      BY DEF EngineInv, Agreement
    <2>2. QED BY <2>1 DEF Engine!Cut, Engine!Contains
  <1>9. \A d \in Components : /\ state'[d] = "queued" <=> Contains(queue', d)
                              /\ state'[d] \in Engine!Moving => running' = d
    BY <1>2, <1>3, <1>4, <1>6 DEF EngineInv, Agreement
  <1>10. QED BY <1>2, <1>3, <1>5, <1>7, <1>8, <1>9 DEF EngineInv, Agreement

(* A step of the install itself keeps the queue and its pack.              *)
LEMMA InstallPreserves ==
    ASSUME EngineInv, running # None, NEW s \in Engine!States \ {"queued"},
           state' = [state EXCEPT ![running] = s],
           abort' \in {None, "pause", "cancel"},
           UNCHANGED <<queue, running>>
    PROVE  EngineInv'
  <1>1. running \in Components
    BY DEF EngineInv, Engine!TypeOK
  <1>2. Engine!TypeOK'
    BY DEF EngineInv, Engine!TypeOK
  <1>3. \A d \in Components : state'[d] = IF d = running THEN s ELSE state[d]
    BY DEF EngineInv, Engine!TypeOK
  <1>4. ~Contains(queue, running) /\ IsInjective(queue)
    BY DEF EngineInv, Agreement
  <1>5. \A d \in Components : /\ state'[d] = "queued" <=> Contains(queue', d)
                              /\ state'[d] \in Engine!Moving => running' = d
    BY <1>1, <1>3, <1>4 DEF EngineInv, Agreement
  <1>6. QED BY <1>2, <1>4, <1>5 DEF EngineInv, Agreement

LEMMA AbortPreserves ==
    ASSUME EngineInv, NEW c \in Components, running = c,
           NEW r \in {"pause", "cancel"}, Engine!Abort(c, r)
    PROVE  EngineInv'
  <1>1. UNCHANGED <<state, queue, running>> /\ abort' = r
    BY DEF Engine!Abort
  <1>2. running # None
    BY NoneIsNothing
  <1>3. QED BY <1>1, <1>2 DEF EngineInv, Engine!TypeOK, Agreement

LEMMA InitEstablishes == Engine!Init => EngineInv
  <1> SUFFICES ASSUME Engine!Init PROVE EngineInv
    OBVIOUS
  <1> USE DEF Engine!Init
  <1>1. Engine!TypeOK
    BY DEF Engine!TypeOK, Engine!States, Engine!Resting
  <1>2. IsInjective(queue) /\ \A d : ~Contains(queue, d)
    BY DEF IsInjective, Contains
  <1>3. QED BY <1>1, <1>2 DEF EngineInv, Agreement, Engine!Moving

LEMMA StepPreserves == EngineInv /\ [Engine!Next]_Engine!lifecycle => EngineInv'
  <1> SUFFICES ASSUME EngineInv, [Engine!Next]_Engine!lifecycle
               PROVE  EngineInv'
    OBVIOUS
  <1>0. /\ queue \in Seq(Components) /\ IsInjective(queue)
        /\ state \in [Components -> Engine!States]
        /\ running \in Components \cup {None}
        /\ ~Contains(queue, running)
        /\ \A c \in Components : state[c] = "queued" <=> Contains(queue, c)
    BY DEF EngineInv, Engine!TypeOK, Agreement
  <1>1. ASSUME NEW c \in Components, NEW ahead \in BOOLEAN, Engine!Enqueue(c, ahead)
        PROVE  EngineInv'
    <2> DEFINE q == Engine!Cut(queue, c)
    <2>1. /\ q \in Seq(Components) /\ IsInjective(q) /\ ~Contains(q, c)
          /\ \A d \in Components : Contains(q, d) <=> Contains(queue, d) /\ d # c
      BY <1>0, CutFromQueue
    <2> HIDE DEF q
    <2>2. c # running
      BY <1>1 DEF Engine!Enqueue, Engine!Enqueues
    <2>3. CASE ahead
      <3>1. Engine!Request(c, <<c>> \o q)
        BY <1>1, <2>3 DEF Engine!Enqueue, q
      <3>2. /\ <<c>> \o q \in Seq(Components) /\ IsInjective(<<c>> \o q)
            /\ \A d \in Components : Contains(<<c>> \o q, d) <=> Contains(q, d) \/ d = c
        BY <2>1, PrependToQueue
      <3>3. QED BY <2>1, <2>2, <3>1, <3>2, RequestPreserves
    <2>4. CASE ~ahead
      <3>1. Engine!Request(c, Append(q, c))
        BY <1>1, <2>4 DEF Engine!Enqueue, q
      <3>2. /\ Append(q, c) \in Seq(Components) /\ IsInjective(Append(q, c))
            /\ \A d \in Components : Contains(Append(q, c), d) <=> Contains(q, d) \/ d = c
        BY <2>1, AppendToQueue
      <3>3. QED BY <2>1, <2>2, <3>1, <3>2, RequestPreserves
    <2>5. QED BY <2>3, <2>4
  <1>2. ASSUME NEW c \in Components, Engine!Repair(c)
        PROVE  EngineInv'
    <2> DEFINE q == Engine!Cut(queue, c)
    <2>1. /\ q \in Seq(Components) /\ IsInjective(q) /\ ~Contains(q, c)
          /\ \A d \in Components : Contains(q, d) <=> Contains(queue, d) /\ d # c
      BY <1>0, CutFromQueue
    <2> HIDE DEF q
    <2>2. c # running /\ Engine!Request(c, <<c>> \o q)
      BY <1>2 DEF Engine!Repair, Engine!Repairs, q
    <2>3. /\ <<c>> \o q \in Seq(Components) /\ IsInjective(<<c>> \o q)
          /\ \A d \in Components : Contains(<<c>> \o q, d) <=> Contains(q, d) \/ d = c
      BY <2>1, PrependToQueue
    <2>4. QED BY <2>1, <2>2, <2>3, RequestPreserves
  <1>3. ASSUME NEW c \in Components, Engine!Pause(c)
        PROVE  EngineInv'
    <2>1. CASE state[c] = "queued"
      <3>1. c # running /\ Engine!Dequeue(c, "paused")
        BY <1>0, <1>3, <2>1 DEF Engine!Pause
      <3>2. QED BY <3>1, DequeuePreserves DEF Engine!Resting
    <2>2. CASE state[c] # "queued"
      <3>1. running = c /\ Engine!Abort(c, "pause")
        BY <1>3, <2>2 DEF Engine!Pause, Engine!Pauses
      <3>2. QED BY <3>1, AbortPreserves
    <2>3. QED BY <2>1, <2>2
  <1>4. ASSUME NEW c \in Components, Engine!Cancel(c)
        PROVE  EngineInv'
    <2>1. CASE running = c
      <3>1. Engine!Abort(c, "cancel")
        BY <1>4, <2>1 DEF Engine!Cancel
      <3>2. QED BY <2>1, <3>1, AbortPreserves
    <2>2. CASE running # c
      <3>1. Engine!Dequeue(c, "cancelled")
        BY <1>4, <2>2 DEF Engine!Cancel
      <3>2. QED BY <2>2, <3>1, DequeuePreserves DEF Engine!Resting
    <2>3. QED BY <2>1, <2>2
  <1>5. CASE Engine!Work
    <2>1. PICK s \in Engine!Moving : state' = [state EXCEPT ![running] = s]
      BY <1>5 DEF Engine!Work
    <2>2. s \in Engine!States \ {"queued"}
      BY DEF Engine!Moving, Engine!States
    <2>3. running # None /\ UNCHANGED <<queue, running>> /\ abort' = abort
      BY <1>5 DEF Engine!Work
    <2>4. QED BY <2>1, <2>2, <2>3, InstallPreserves DEF EngineInv, Engine!TypeOK
  <1>6. CASE Engine!CutWhenReady
    <2>1. "ready" \in Engine!States \ {"queued"}
      BY DEF Engine!States, Engine!Resting
    <2>2. QED BY <1>6, <2>1, InstallPreserves DEF Engine!CutWhenReady
  <1>7. CASE Engine!End
    <2>1. PICK s \in Engine!Outcomes : Engine!Pump(queue, [state EXCEPT ![running] = s])
      BY <1>7 DEF Engine!End
    <2> DEFINE t == [state EXCEPT ![running] = s]
    <2>2. running \in Components
      BY <1>0, <1>7 DEF Engine!End
    <2>3. s \in Engine!Resting
      BY DEF Engine!Outcomes, Engine!Resting
    <2>4. s \in Engine!States /\ s # "queued" /\ s \notin Engine!Moving
      BY <2>3 DEF Engine!Resting, Engine!States, Engine!Moving
    <2>5. t \in [Components -> Engine!States]
      BY <1>0, <2>4
    <2>6. \A d \in Components : t[d] = IF d = running THEN s ELSE state[d]
      BY <1>0
    <2>7. \A d \in Components : t[d] = "queued" <=> Contains(queue, d)
      BY <1>0, <2>2, <2>4, <2>6
    <2>8. \A d \in Components : t[d] \notin Engine!Moving
      BY <2>4, <2>6 DEF EngineInv, Agreement
    <2>9. Engine!Pump(queue, t)
      BY <2>1
    <2> HIDE DEF t
    <2>10. QED BY <1>0, <2>5, <2>7, <2>8, <2>9, PumpPreserves
  <1>8. CASE Engine!Crash
    <2>1. Engine!Init'
      BY <1>8 DEF Engine!Crash, Engine!Init
    <2>2. Engine!TypeOK'
      BY <1>8 DEF Engine!Crash, Engine!TypeOK, Engine!States, Engine!Resting
    <2>3. IsInjective(queue') /\ \A d : ~Contains(queue', d)
      BY <2>1 DEF Engine!Init, IsInjective, Contains
    <2>4. QED BY <2>1, <2>2, <2>3 DEF Engine!Init, EngineInv, Agreement, Engine!Moving
  <1>9. CASE UNCHANGED Engine!lifecycle
    BY <1>9 DEF Engine!lifecycle, EngineInv, Engine!TypeOK, Agreement, Contains, IsInjective
  <1>10. QED BY <1>1, <1>2, <1>3, <1>4, <1>5, <1>6, <1>7, <1>8, <1>9 DEF Engine!Next

-----------------------------------------------------------------------------
(* The engine's states keep their types.                                   *)
THEOREM LifecycleTypeCorrect == Engine!Spec => []Engine!TypeOK
  <1>1. Engine!Spec => []EngineInv
    BY InitEstablishes, StepPreserves, PTL DEF Engine!Spec
  <1>2. EngineInv => Engine!TypeOK
    BY DEF EngineInv
  <1>3. QED BY <1>1, <1>2, PTL

(* The queue and the states agree, in whatever order packs are queued,     *)
(* repaired, paused, cancelled and installed: a pack waits once, not while *)
(* it is installed, and nobody waits for an idle engine.                   *)
THEOREM QueueAgreesWithStates == Engine!Spec => []Engine!QueueMatchesStates
  <1>1. Engine!Spec => []EngineInv
    BY InitEstablishes, StepPreserves, PTL DEF Engine!Spec
  <1>2. EngineInv => Engine!QueueMatchesStates
    BY AgreementIsPromised DEF EngineInv
  <1>3. QED BY <1>1, <1>2, PTL

-----------------------------------------------------------------------------
(* The service.  Its actions have the shape the code gives them.           *)
ServiceTypeOK ==
    /\ activity \subseteq Components
    /\ actions \in [Actions -> [pack : Components \cup {None}, wish : Wishes,
                                fresh : BOOLEAN, withdrawn : BOOLEAN]]
    /\ phase \in {"open", "draining", "idle", "late"}
    /\ selected \in Components \cup {None}

(* An action that has been withdrawn is not fresh, and one that waits for  *)
(* no profile has not been withdrawn.                                      *)
WithdrawnIsStale ==
    \A k \in Actions : actions[k].withdrawn => Reading(k) /\ ~actions[k].fresh

(* What is being installed has not ended, and an event is due only for a   *)
(* pack whose state was set: so a late event takes no lease of a pack that *)
(* is at work, and leaves one only to a pack that waits or is at work.     *)
EventsRight ==
    \A c \in Components :
        /\ running = c => state[c] \in Engine!Moving
        /\ c \in due => state[c] # "not-installed"

(* The inductive invariant.  Leases can only be compared with the work of  *)
(* an engine whose queue and states agree.                                 *)
IInv ==
    /\ EngineInv /\ ServiceTypeOK /\ WithdrawnIsStale /\ EventsRight
    /\ LeasesMatchWork /\ QuitFindsItIdle

(* What one step may do to the actions that wait: Resume may end one.      *)
Spares(k) == actions[k].withdrawn => actions'[k].withdrawn

(* The engine may be left alone.                                           *)
LEMMA EngineRests ==
    ASSUME EngineInv, UNCHANGED engine
    PROVE  EngineInv'
  BY DEF EngineInv, Engine!TypeOK, Agreement, engine, Contains, IsInjective

(* What the agreement says of one pack.                                    *)
LEMMA OnePlaceEach ==
    ASSUME EngineInv
    PROVE  /\ state \in [Components -> Engine!States]
           /\ queue \in Seq(Components) /\ IsInjective(queue)
           /\ running \in Components \cup {None}
           /\ \A c \in Components : /\ state[c] = "queued" <=> Contains(queue, c)
                                    /\ state[c] = "queued" => running # c
           /\ running = None => /\ queue = <<>> /\ abort = None
                                /\ \A c \in Components : state[c] # "queued"
  <1>0. \A c : ~Contains(<<>>, c)
    BY DEF Contains
  <1>1. running = None => \A c \in Components : state[c] # "queued"
    BY <1>0 DEF EngineInv, Agreement
  <1>2. QED BY <1>1 DEF EngineInv, Engine!TypeOK, Agreement

(* An event that was due stays due, and so does one reported early.        *)
LEMMA ReportKeeps ==
    ASSUME EventsRight, NEW C, NEW D, Reported(C, D),
           \A c \in Components : /\ running' = c => state'[c] \in Engine!Moving
                                 /\ state'[c] = state[c] \/ state'[c] # "not-installed"
                                 /\ c \in C => state'[c] # "not-installed"
    PROVE  EventsRight' /\ due \subseteq due' /\ C \cap recent \subseteq due'
  <1>1. due' = due \cup (C \cap (recent \cup D))
    BY DEF Reported
  <1>2. QED BY <1>1 DEF EventsRight

(* The same of what changed.                                               *)
LEMMA ChangeKeeps ==
    ASSUME EventsRight, NEW D, Reported(Changed, D),
           \A c \in Components : /\ running' = c => state'[c] \in Engine!Moving
                                 /\ state'[c] = state[c] \/ state'[c] # "not-installed"
    PROVE  EventsRight' /\ due \subseteq due' /\ Changed \cap recent \subseteq due'
  <1>1. \A c \in Components : c \in Changed => state'[c] # "not-installed"
    BY DEF Changed
  <1> HIDE DEF Changed
  <1>2. QED BY <1>1, ReportKeeps

(* A pack that is asked for is at work or queued afterwards, and no other  *)
(* one's place is taken.                                                   *)
LEMMA RequestPlaces ==
    ASSUME EngineInv, NEW c \in Components, c # running, NEW q,
           Engine!Request(c, q),
           running = None => q = <<c>>
    PROVE  /\ \/ state'[c] = "queued" /\ running' # c
              \/ state'[c] = "downloading" /\ running' = c /\ abort' = None
           /\ running' # running => running' = c
           /\ \A d \in Components \ {c} : state'[d] = state[d] /\ (running' = d <=> running = d)
           /\ abort' = abort \/ running' = c
  <1>1. state \in [Components -> Engine!States] /\ running \in Components \cup {None}
    BY OnePlaceEach
  <1>2. c # None
    BY NoneIsNothing
  <1>3. CASE running = None
    <2> DEFINE s == [state EXCEPT ![c] = "queued"]
    <2>1. Engine!Pump(<<c>>, s)
      BY <1>3 DEF Engine!Request
    <2>2. <<c>> # <<>> /\ Head(<<c>>) = c
      OBVIOUS
    <2>3. abort' = None /\ running' = c /\ state' = [s EXCEPT ![c] = "downloading"]
      BY <2>1, <2>2 DEF Engine!Pump
    <2>4. state'[c] = "downloading" /\ \A d \in Components \ {c} : state'[d] = state[d]
      BY <2>3, <1>1
    <2>5. \A d \in Components \ {c} : running' # d /\ running # d
      BY <2>3, <1>3, NoneIsNothing
    <2>6. QED BY <2>3, <2>4, <2>5
  <1>4. CASE running # None
    BY <1>1, <1>4 DEF Engine!Request
  <1>5. QED BY <1>3, <1>4

(* A pack that joins the queue of an idle engine is alone in it.           *)
LEMMA AloneInQueue ==
    ASSUME EngineInv, running = None, NEW c
    PROVE  <<c>> \o Engine!Cut(queue, c) = <<c>>
  <1>1. queue = <<>>
    BY OnePlaceEach
  <1>2. Engine!Cut(queue, c) = <<>>
    BY <1>1 DEF Engine!Cut, Engine!Contains
  <1>3. QED BY <1>2

(* An action that waits for the profile is known, fresh and admitted.      *)
LEMMA AskKeeps ==
    ASSUME IInv, NEW k \in Actions, NEW c \in Components, NEW wish \in Wishes,
           Ask(k, c, wish)
    PROVE  IInv' /\ \A j \in Actions : Spares(j)
  <1>0. UNCHANGED <<engine, due, activity, phase, selected>> /\ ~Reading(k)
    BY DEF Ask, authority, events
  <1>1. EngineInv'
    BY <1>0, EngineRests DEF IInv
  <1>2. actions' = [actions EXCEPT
            ![k] = [pack |-> c, wish |-> wish, fresh |-> TRUE, withdrawn |-> FALSE]]
    BY DEF Ask
  <1>3. ServiceTypeOK'
    BY <1>0, <1>2 DEF IInv, ServiceTypeOK
  <1>4. \A j \in Actions : j # k => actions'[j] = actions[j]
    BY <1>2 DEF IInv, ServiceTypeOK
  <1>5. ~actions'[k].withdrawn
    BY <1>2 DEF IInv, ServiceTypeOK
  <1>6. WithdrawnIsStale'
    BY <1>4, <1>5 DEF IInv, WithdrawnIsStale, Reading
  <1>7. \A j \in Actions : Spares(j)
    BY <1>0, <1>4 DEF IInv, WithdrawnIsStale, Spares
  <1>8. LeasesMatchWork' /\ QuitFindsItIdle' /\ EventsRight'
    BY <1>0 DEF IInv, LeasesMatchWork, QuitFindsItIdle, EventsRight, Engine!Busy, engine
  <1>9. QED BY <1>1, <1>3, <1>6, <1>7, <1>8 DEF IInv

(* A revision makes every waiting action stale and withdraws nothing that  *)
(* does not wait.                                                          *)
LEMMA ReviseWithdraws ==
    ASSUME ServiceTypeOK, WithdrawnIsStale, NEW W, Revise(W)
    PROVE  /\ actions' \in [Actions -> [pack : Components \cup {None}, wish : Wishes,
                                        fresh : BOOLEAN, withdrawn : BOOLEAN]]
           /\ \A k \in Actions : /\ actions'[k].withdrawn => actions'[k].pack # None
                                                             /\ ~actions'[k].fresh
                                 /\ Spares(k)
  <1> DEFINE Asked == [pack : Components \cup {None}, wish : Wishes,
                       fresh : BOOLEAN, withdrawn : BOOLEAN]
  <1>1. actions \in [Actions -> Asked]
    BY DEF ServiceTypeOK
  <1>2. ASSUME NEW k \in Actions
        PROVE  /\ actions'[k] \in Asked
               /\ Reading(k) => /\ actions'[k].pack = actions[k].pack /\ ~actions'[k].fresh
                                /\ actions[k].withdrawn => actions'[k].withdrawn
               /\ ~Reading(k) => actions'[k] = actions[k]
    <2>1. actions'[k] = IF Reading(k)
                        THEN [actions[k] EXCEPT !.fresh = FALSE,
                                 !.withdrawn = @ \/ actions[k].pack \in W]
                        ELSE actions[k]
      BY DEF Revise
    <2>2. actions[k] \in Asked
      BY <1>1
    <2>3. QED BY <2>1, <2>2
  <1>3. actions' \in [Actions -> Asked]
    BY <1>2 DEF Revise
  <1>4. ASSUME NEW k \in Actions, actions'[k].withdrawn
        PROVE  actions'[k].pack # None /\ ~actions'[k].fresh
    BY <1>2, <1>4 DEF WithdrawnIsStale, Reading
  <1>5. ASSUME NEW k \in Actions PROVE Spares(k)
    BY <1>2 DEF Spares
  <1>6. QED BY <1>3, <1>4, <1>5

(* An admitted action leases its pack and hands it to the engine.          *)
LEMMA AdmittedPlaces ==
    ASSUME IInv, NEW c \in Components, Install(c) \/ Repair(c),
           state[c] \notin Engine!Moving \cup {"queued"},
           activity' = activity \cup {c}, NEW D, Reported(Changed, D)
    PROVE  EngineInv' /\ LeasesMatchWork' /\ EventsRight'
  <1> DEFINE q == <<c>> \o Engine!Cut(queue, c)
  <1>1. EngineInv /\ LeasesMatchWork /\ EventsRight
    BY DEF IInv
  <1>2. CASE c # running /\ Engine!Request(c, q)
             /\ (Engine!Enqueue(c, TRUE) \/ Engine!Repair(c))
    <2>1. EngineInv'
      BY <1>1, <1>2, StepPreserves DEF Engine!Next
    <2>2. running = None => q = <<c>>
      BY <1>1, AloneInQueue
    <2> HIDE DEF q
    <2>3. /\ \/ state'[c] = "queued" /\ running' # c
             \/ state'[c] = "downloading" /\ running' = c /\ abort' = None
          /\ \A d \in Components \ {c} : state'[d] = state[d] /\ (running' = d <=> running = d)
          /\ abort' = abort \/ running' = c
      BY <1>1, <1>2, <2>2, RequestPlaces
    <2>4. \A d \in Components : /\ running' = d => state'[d] \in Engine!Moving
                                /\ state'[d] = state[d] \/ state'[d] # "not-installed"
      BY <2>3, <1>1 DEF EventsRight, Engine!Moving
    <2>5. EventsRight' /\ due \subseteq due'
      BY <2>4, <1>1, ChangeKeeps
    <2>6. ASSUME NEW d \in Components
          PROVE  /\ state'[d] = "queued" \/ (running' = d /\ abort' = None) => d \in activity'
                 /\ d \in activity' => \/ state'[d] = "queued" \/ running' = d
                                       \/ state'[d] = "ready" \/ d \in due'
      <3>1. CASE d = c
        BY <3>1, <2>3
      <3>2. CASE d # c
        BY <3>2, <2>3, <2>5, <1>1 DEF LeasesMatchWork, Engine!Busy
      <3>3. QED BY <3>1, <3>2
    <2>7. QED BY <2>1, <2>5, <2>6 DEF LeasesMatchWork, Engine!Busy
  <1>3. CASE UNCHANGED engine /\ (state[c] = "ready" \/ running = c)
    <2>1. EngineInv'
      BY <1>1, <1>3, EngineRests
    <2>2. EventsRight' /\ due \subseteq due'
      BY <1>1, <1>3, ChangeKeeps DEF engine, EventsRight
    <2>3. QED BY <2>1, <2>2, <1>1, <1>3 DEF LeasesMatchWork, Engine!Busy, engine
  <1>4. QED
    <2>1. CASE Engine!Enqueue(c, TRUE)
      <3>1. c # running /\ Engine!Request(c, q)
        BY <2>1 DEF Engine!Enqueue, Engine!Enqueues
      <3>2. QED BY <2>1, <3>1, <1>2
    <2>2. CASE Engine!Repair(c)
      <3>1. c # running /\ Engine!Request(c, q)
        BY <2>2 DEF Engine!Repair, Engine!Repairs
      <3>2. QED BY <2>2, <3>1, <1>2
    <2>3. CASE UNCHANGED engine /\ (~Engine!Enqueues(c, TRUE) \/ ~Engine!Repairs(c))
      BY <2>3, <1>3 DEF Engine!Enqueues, Engine!Repairs
    <2>4. QED BY <2>1, <2>2, <2>3 DEF Install, Repair

(* The profile has been read.  A withdrawn action is stale and not         *)
(* admitted.                                                               *)
LEMMA ResumeKeeps ==
    ASSUME IInv, NEW k \in Actions, Resume(k)
    PROVE  /\ IInv'
           /\ \A j \in Actions : Spares(j) \/ UNCHANGED <<engine, activity>>
  <1> DEFINE c == actions[k].pack
  <1>0. /\ Reading(k) /\ actions' = [actions EXCEPT ![k] = NoAction]
        /\ UNCHANGED <<phase, selected>>
    BY DEF Resume, authority
  <1>1. /\ \A j \in Actions : j # k => actions'[j] = actions[j]
        /\ actions'[k] = NoAction
    BY <1>0 DEF IInv, ServiceTypeOK
  <1>2. c \in Components
    BY <1>0 DEF IInv, ServiceTypeOK, Reading
  <1>3. WithdrawnIsStale'
    BY <1>1 DEF IInv, WithdrawnIsStale, Reading, NoAction
  <1>4. NoAction \in [pack : Components \cup {None}, wish : Wishes,
                      fresh : BOOLEAN, withdrawn : BOOLEAN]
    BY DEF NoAction, Wishes
  <1>5. activity' \subseteq Components => ServiceTypeOK'
    BY <1>0, <1>4 DEF IInv, ServiceTypeOK
  <1>6. CASE UNCHANGED <<activity, engine, events>>
    <2>1. EngineInv'
      BY <1>6, EngineRests DEF IInv
    <2>2. LeasesMatchWork' /\ QuitFindsItIdle' /\ EventsRight'
      BY <1>0, <1>6 DEF IInv, LeasesMatchWork, QuitFindsItIdle, EventsRight,
         Engine!Busy, engine, events
    <2>3. QED BY <2>1, <2>2, <1>3, <1>5, <1>6 DEF IInv, ServiceTypeOK
  <1>7. CASE /\ Admitted(k) /\ activity' = activity \cup {c}
             /\ Install(c) \/ Repair(c)
             /\ \E D : Reported(Changed, D)
    <2>1. ~actions[k].withdrawn /\ phase = "open"
          /\ state[c] \notin Engine!Moving \cup {"queued"}
      BY <1>7 DEF IInv, WithdrawnIsStale, Admitted
    <2>2. EngineInv' /\ LeasesMatchWork' /\ EventsRight'
      BY <2>1, <1>2, <1>7, AdmittedPlaces
    <2>3. QuitFindsItIdle'
      BY <2>1, <1>0 DEF QuitFindsItIdle
    <2>4. \A j \in Actions : Spares(j)
      BY <2>1, <1>1 DEF Spares
    <2>5. ServiceTypeOK'
      BY <1>2, <1>5, <1>7 DEF IInv, ServiceTypeOK
    <2>6. QED BY <2>2, <2>3, <2>4, <2>5, <1>3 DEF IInv
  <1>8. QED BY <1>6, <1>7 DEF Resume

(* A pause or a cancel, taken or meaningless, leaves the pack neither      *)
(* queued nor installed unaborted, and every other where it was.           *)
LEMMA StopKeeps ==
    ASSUME IInv, NEW c \in Components, NEW wish \in {"pause", "cancel"}, Stop(c, wish)
    PROVE  IInv' /\ \A j \in Actions : Spares(j)
  <1>0. /\ activity' = activity \ {c} /\ Revise({c})
        /\ Reported(Changed, {})
        /\ UNCHANGED <<phase, selected>>
    BY DEF Stop, authority
  <1>1. EngineInv /\ LeasesMatchWork /\ ServiceTypeOK /\ EventsRight
    BY DEF IInv
  <1>2. EngineInv'
    <2>1. CASE Engine!Pause(c) \/ Engine!Cancel(c)
      BY <2>1, <1>1, StepPreserves DEF Engine!Next
    <2>2. CASE UNCHANGED engine
      BY <2>2, <1>1, EngineRests
    <2>3. QED BY <2>1, <2>2 DEF Stop
  <1>3. /\ \A d \in Components \ {c} : state'[d] = state[d]
        /\ state'[c] # "queued"
        /\ state'[c] = state[c] \/ (state'[c] # "not-installed" /\ running # c)
        /\ running' = running
        /\ abort' = abort \/ (abort' # None /\ running = c)
        /\ running = c => abort' # None
        /\ phase = "idle" => running = None /\ queue' = <<>>
    <2>1. /\ state \in [Components -> Engine!States]
          /\ running = c => state[c] # "queued"
          /\ running = None => /\ queue = <<>> /\ \A d \in Components : state[d] # "queued"
      BY <1>1, OnePlaceEach
    <2>2. None # "pause" /\ None # "cancel" /\ (running = c => running # None)
      BY NoneIsNothing
    <2>3. phase = "idle" => running = None
      BY DEF IInv, QuitFindsItIdle
    <2>4. CASE \E s \in {"paused", "cancelled"} : Engine!Dequeue(c, s) /\ running # c
      <3>1. PICK s \in {"paused", "cancelled"} : Engine!Dequeue(c, s)
        BY <2>4
      <3>2. queue = <<>> => queue' = <<>>
        BY <3>1 DEF Engine!Dequeue, Engine!Cut, Engine!Contains
      <3>3. QED BY <2>1, <2>3, <2>4, <3>1, <3>2 DEF Engine!Dequeue
    <2>5. CASE running = c /\ \E s \in {"pause", "cancel"} : Engine!Abort(c, s)
      <3>1. PICK s \in {"pause", "cancel"} : Engine!Abort(c, s)
        BY <2>5
      <3>2. abort' # None /\ state' = state /\ running' = running
        BY <3>1, <2>2 DEF Engine!Abort
      <3>3. running # None
        BY <2>2, <2>5
      <3>4. QED BY <2>1, <2>3, <2>5, <3>2, <3>3
    <2>6. CASE UNCHANGED engine /\ state[c] # "queued" /\ (running = c => abort # None)
      BY <2>1, <2>3, <2>6 DEF engine
    <2>7. CASE Engine!Pause(c)
      <3>1. CASE state[c] = "queued"
        BY <3>1, <2>1, <2>4, <2>7 DEF Engine!Pause
      <3>2. CASE state[c] # "queued"
        BY <3>2, <2>5, <2>7 DEF Engine!Pause, Engine!Pauses
      <3>3. QED BY <3>1, <3>2
    <2>8. CASE Engine!Cancel(c)
      <3>1. CASE running # c
        BY <3>1, <2>4, <2>8 DEF Engine!Cancel
      <3>2. CASE running = c
        BY <3>2, <2>5, <2>8 DEF Engine!Cancel
      <3>3. QED BY <3>1, <3>2
    <2>9. CASE UNCHANGED engine /\ (~Engine!Pauses(c) \/ ~Engine!Cancels(c))
      BY <2>1, <2>6, <2>9 DEF Engine!Pauses, Engine!Cancels
    <2>10. QED BY <2>7, <2>8, <2>9 DEF Stop
  <1>4. LeasesMatchWork' /\ EventsRight'
    <2>1. \A d \in Components : /\ running' = d => state'[d] \in Engine!Moving
                                /\ state'[d] = state[d] \/ state'[d] # "not-installed"
      BY <1>1, <1>3 DEF EventsRight
    <2>2. EventsRight' /\ due \subseteq due'
      BY <2>1, <1>0, <1>1, ChangeKeeps
    <2>3. QED BY <2>2, <1>0, <1>1, <1>3 DEF LeasesMatchWork, Engine!Busy
  <1>5. QuitFindsItIdle'
    BY <1>0, <1>3 DEF QuitFindsItIdle
  <1>6. /\ actions' \in [Actions -> [pack : Components \cup {None}, wish : Wishes,
                                     fresh : BOOLEAN, withdrawn : BOOLEAN]]
        /\ \A k \in Actions : /\ actions'[k].withdrawn => actions'[k].pack # None
                                                          /\ ~actions'[k].fresh
                              /\ Spares(k)
    BY <1>0, ReviseWithdraws DEF IInv
  <1>7. ServiceTypeOK' /\ WithdrawnIsStale'
    BY <1>0, <1>1, <1>6 DEF ServiceTypeOK, WithdrawnIsStale, Reading
  <1>8. QED BY <1>2, <1>4, <1>5, <1>6, <1>7 DEF IInv

(* Stopping many packs in one turn takes those that wait out of the queue, *)
(* ends those that were paused, and aborts the one that is installed.      *)
LEMMA StopAllStops ==
    ASSUME EngineInv, NEW C \in SUBSET Components, NEW P \in SUBSET Components,
           StopAll(C, P)
    PROVE  /\ EngineInv'
           /\ running' = running
           /\ running = None => queue' = <<>>
           /\ \A c \in Components :
                /\ state'[c] = "queued" <=> state[c] = "queued" /\ c \notin C \cup P
                /\ state[c] \notin {"queued", "paused"} => state'[c] = state[c]
                /\ c \notin C \cup P => state'[c] = state[c]
                /\ state'[c] = state[c] \/ state'[c] \in {"cancelled", "paused"}
           /\ abort' # None => abort # None \/ running \in C \cup P
           /\ abort' = None => abort = None /\ (running # None => running \notin C \cup P)
  <1> DEFINE out == {c \in C : c # running /\ state[c] \in {"queued", "paused"}}
                    \cup {c \in P : state[c] = "queued"}
  <1>1. /\ state \in [Components -> Engine!States]
        /\ queue \in Seq(Components) /\ IsInjective(queue)
        /\ running \in Components \cup {None}
        /\ \A c \in Components : /\ state[c] = "queued" <=> Contains(queue, c)
                                 /\ state[c] = "queued" => running # c
        /\ running = None => /\ queue = <<>> /\ abort = None
                             /\ \A c \in Components : state[c] # "queued"
    BY OnePlaceEach
  <1>2. /\ queue' = Without(queue, out) /\ running' = running
        /\ state' = [c \in Components |->
              IF c \notin out THEN state[c] ELSE IF c \in C THEN "cancelled" ELSE "paused"]
        /\ abort' = IF abort # None THEN abort
                    ELSE IF running \in C THEN "cancel"
                    ELSE IF running \in P THEN "pause" ELSE None
    BY DEF StopAll
  <1>3. /\ out \subseteq Components
        /\ \A c \in out : state[c] \in {"queued", "paused"} /\ c \in C \cup P /\ c # running
        /\ \A c \in C \cup P : state[c] = "queued" => c \in out
    BY <1>1
  <1> HIDE DEF out
  <1>4. \A c \in Components :
            IF c \notin out THEN state'[c] = state[c] ELSE state'[c] \in {"cancelled", "paused"}
    BY <1>2
  <1>5. /\ Without(queue, out) \in Seq(Components) /\ IsInjective(Without(queue, out))
        /\ \A e : Contains(Without(queue, out), e) <=> Contains(queue, e) /\ e \notin out
    BY <1>1, WithoutFacts
  <1>6. running = None => queue' = <<>>
    <2> SUFFICES ASSUME running = None PROVE Without(queue, out) = <<>>
      BY <1>2
    <2>1. queue = <<>>
      BY <1>1
    <2>2. \A e : ~Contains(Without(queue, out), e)
      BY <2>1, <1>5 DEF Contains
    <2> DEFINE w == Without(queue, out)
    <2>3. w \in Seq(Components) /\ \A i \in 1 .. Len(w) : FALSE
      BY <2>2, <1>5 DEF Contains
    <2> HIDE DEF w
    <2>4. w = <<>>
      BY <2>3
    <2>5. QED BY <2>4 DEF w
  <1>7. None \notin {"pause", "cancel"} /\ None \notin Components
    BY NoneIsNothing
  <1>8. Engine!TypeOK'
    <2>1. state' \in [Components -> Engine!States]
      <3>1. {"cancelled", "paused"} \subseteq Engine!States
        BY DEF Engine!States, Engine!Resting
      <3>2. QED BY <3>1, <1>1, <1>2
    <2>2. abort' \in {None, "pause", "cancel"}
      BY <1>2 DEF EngineInv, Engine!TypeOK
    <2>3. QED BY <2>1, <2>2, <1>1, <1>2, <1>5 DEF Engine!TypeOK
  <1>9. \A c \in Components : state'[c] = "queued" <=> state[c] = "queued" /\ c \notin out
    BY <1>4
  <1>10. Agreement'
    <2>1. \A c \in Components : state'[c] = "queued" <=> Contains(queue', c)
      BY <1>1, <1>2, <1>5, <1>9
    <2>2. ~Contains(queue', running')
      BY <1>2, <1>5 DEF EngineInv, Agreement
    <2>3. running' = None => queue' = <<>> /\ abort' = None
      BY <1>1, <1>2, <1>6, <1>7
    <2>4. \A c \in Components : state'[c] \in Engine!Moving => running' = c
      BY <1>2, <1>4 DEF EngineInv, Agreement, Engine!Moving
    <2>5. QED BY <2>1, <2>2, <2>3, <2>4, <1>2, <1>5 DEF Agreement
  <1>11. EngineInv'
    BY <1>8, <1>10 DEF EngineInv
  <1>12. abort' # None => abort # None \/ running \in C \cup P
    BY <1>2
  <1>13. abort' = None => abort = None /\ (running # None => running \notin C \cup P)
    BY <1>2, <1>7
  <1>14. \A c \in Components :
                /\ state'[c] = "queued" <=> state[c] = "queued" /\ c \notin C \cup P
                /\ state[c] \notin {"queued", "paused"} => state'[c] = state[c]
                /\ c \notin C \cup P => state'[c] = state[c]
                /\ state'[c] = state[c] \/ state'[c] \in {"cancelled", "paused"}
    BY <1>3, <1>4, <1>9
  <1>15. QED BY <1>2, <1>6, <1>11, <1>12, <1>13, <1>14

(* A step that stops packs and withdraws actions keeps the invariant if    *)
(* it keeps the leases right.                                              *)
LEMMA StoppedRight ==
    ASSUME IInv, NEW C \in SUBSET Components, NEW P \in SUBSET Components,
           StopAll(C, P), NEW W, Revise(W), selected' = selected,
           phase = "open", phase' \in {"open", "draining"},
           activity' \subseteq activity, Reported(Changed, {}),
           \A c \in activity' : c \notin AtOnce(Changed),
           \A c \in activity \ activity' : c \in C \cup P
    PROVE  IInv' /\ \A j \in Actions : Spares(j)
  <1>1. EngineInv /\ LeasesMatchWork /\ ServiceTypeOK /\ EventsRight
    BY DEF IInv
  <1>2. /\ EngineInv'
        /\ running' = running
        /\ \A c \in Components :
             /\ state'[c] = "queued" <=> state[c] = "queued" /\ c \notin C \cup P
             /\ state[c] \notin {"queued", "paused"} => state'[c] = state[c]
             /\ state'[c] = state[c] \/ state'[c] \in {"cancelled", "paused"}
        /\ abort' = None => abort = None /\ (running # None => running \notin C \cup P)
    BY <1>1, StopAllStops
  <1>a. EventsRight' /\ due \subseteq due' /\ Changed \cap recent \subseteq due'
    <2>1. \A c \in Components : /\ running' = c => state'[c] \in Engine!Moving
                                /\ state'[c] = state[c] \/ state'[c] # "not-installed"
      BY <1>1, <1>2 DEF EventsRight, Engine!Moving
    <2>2. QED BY <2>1, <1>1, ChangeKeeps
  <1>3. LeasesMatchWork'
    <2>1. ASSUME NEW c \in Components, state'[c] = "queued" \/ (running' = c /\ abort' = None)
          PROVE  c \in activity'
      <3>1. c \in activity
        BY <2>1, <1>1, <1>2 DEF LeasesMatchWork
      <3>2. c # None
        BY NoneIsNothing
      <3>3. c \notin C \cup P
        BY <2>1, <3>2, <1>2
      <3>4. QED BY <3>1, <3>3
    <2>2. ASSUME NEW c \in Components, c \in activity'
          PROVE  \/ state'[c] = "queued" \/ running' = c
                 \/ state'[c] = "ready" \/ c \in due'
      <3>1. CASE state'[c] = state[c]
        BY <3>1, <2>2, <1>1, <1>2, <1>a DEF LeasesMatchWork, Engine!Busy
      <3>2. CASE state'[c] # state[c]
        BY <3>2, <2>2, <1>a DEF Changed, AtOnce
      <3>3. QED BY <3>1, <3>2
    <2>3. QED BY <2>1, <2>2 DEF LeasesMatchWork, Engine!Busy
  <1>4. /\ actions' \in [Actions -> [pack : Components \cup {None}, wish : Wishes,
                                     fresh : BOOLEAN, withdrawn : BOOLEAN]]
        /\ \A k \in Actions : /\ actions'[k].withdrawn => actions'[k].pack # None
                                                          /\ ~actions'[k].fresh
                              /\ Spares(k)
    BY ReviseWithdraws DEF IInv
  <1>5. ServiceTypeOK' /\ WithdrawnIsStale'
    BY <1>1, <1>4 DEF ServiceTypeOK, WithdrawnIsStale, Reading
  <1>6. QuitFindsItIdle'
    BY DEF QuitFindsItIdle
  <1>7. QED BY <1>2, <1>a, <1>3, <1>4, <1>5, <1>6 DEF IInv

(* refresh() stops what the authority no longer covers; the leases go      *)
(* with the events, or all at once.                                        *)
LEMMA RefreshKeeps ==
    ASSUME IInv, Refresh
    PROVE  IInv' /\ \A j \in Actions : Spares(j)
  <1> DEFINE cancelled == IF policy THEN activity \ {selected} ELSE activity
             paused == IF policy /\ capture THEN activity \cap {selected} ELSE {}
             lost == IF policy /\ ~capture THEN Components \ {selected} ELSE Components
  <1>1. /\ phase = "open" /\ phase' = phase /\ selected' = selected
        /\ StopAll(cancelled, paused) /\ Reported(Changed, {})
        /\ activity' = IF policy THEN LeasesAfter(activity, AtOnce(Changed)) ELSE {}
        /\ Revise(lost)
    BY DEF Refresh, authority
  <1>2. /\ activity \subseteq Components /\ EngineInv
        /\ cancelled \in SUBSET Components /\ paused \in SUBSET Components
        /\ ~policy => cancelled = activity
    BY DEF IInv, ServiceTypeOK
  <1> HIDE DEF cancelled, paused, lost
  <1>3. \A c \in Components :
          state'[c] # state[c] => state'[c] \in Ended /\ c \in cancelled \cup paused
    BY <1>1, <1>2, StopAllStops DEF Ended
  <1>4. /\ activity' \subseteq activity
        /\ \A c \in activity' : c \notin AtOnce(Changed)
        /\ \A c \in activity \ activity' : c \in cancelled \cup paused
    BY <1>1, <1>2, <1>3 DEF LeasesAfter, AtOnce, Changed
  <1>5. QED BY <1>1, <1>2, <1>4, StoppedRight

(* The quit withdraws everything and leaves no lease.                      *)
LEMMA ShutdownKeeps ==
    ASSUME IInv, Shutdown
    PROVE  IInv' /\ \A j \in Actions : Spares(j)
  <1>1. /\ phase = "open" /\ phase' = "draining" /\ selected' = selected
        /\ StopAll(Components, {}) /\ activity' = {} /\ Revise(Components)
        /\ Reported(Changed, {})
    BY DEF Shutdown, authority
  <1>2. activity \subseteq Components
    BY DEF IInv, ServiceTypeOK
  <1>3. QED BY <1>1, <1>2, StoppedRight

(* A step that touches neither the engine nor what the invariant compares. *)
LEMMA BystanderKeeps ==
    ASSUME IInv, UNCHANGED <<engine, due, activity, actions>>,
           selected' \in Components \cup {None},
           phase' \in {"open", "draining", "idle", "late"},
           phase' = "idle" => running = None /\ queue = <<>>
    PROVE  IInv' /\ \A j \in Actions : Spares(j)
  <1>1. EngineInv'
    BY EngineRests DEF IInv
  <1>2. ServiceTypeOK' /\ WithdrawnIsStale' /\ QuitFindsItIdle'
    BY DEF IInv, ServiceTypeOK, WithdrawnIsStale, Reading, QuitFindsItIdle, engine
  <1>3. LeasesMatchWork' /\ EventsRight'
    BY DEF IInv, LeasesMatchWork, EventsRight, Engine!Busy, engine
  <1>4. QED BY <1>1, <1>2, <1>3 DEF IInv, Spares

(* A delayed event takes the lease of a pack that has ended, and of none   *)
(* that waits or is installed.                                             *)
LEMMA DeliverKeeps ==
    ASSUME IInv, NEW c \in Components, Deliver(c)
    PROVE  IInv' /\ \A j \in Actions : Spares(j)
  <1>1. /\ UNCHANGED <<engine, actions, phase, selected>>
        /\ c \in due /\ due' = due \ {c}
        /\ activity' = LeasesAfter(activity, {c})
    BY DEF Deliver, authority
  <1>2. EngineInv /\ LeasesMatchWork /\ EventsRight /\ ServiceTypeOK
    BY DEF IInv
  <1>3. EngineInv'
    BY <1>1, <1>2, EngineRests
  <1>4. UNCHANGED <<state, queue, running, abort>>
    BY <1>1 DEF engine
  <1>5. /\ \A d \in Components \ {c} : d \in activity' <=> d \in activity
        /\ c \in activity' <=> c \in activity /\ state[c] \notin Ended
    BY <1>1, <1>2, <1>4 DEF LeasesAfter, ServiceTypeOK
  <1>6. state[c] \in Ended \/ state[c] = "queued" \/ running = c
    <2>1. state[c] \in Engine!States /\ state[c] # "not-installed"
      BY <1>1, <1>2, OnePlaceEach DEF EventsRight
    <2>2. state[c] \in Engine!Moving => running = c
      BY <1>2 DEF EngineInv, Agreement
    <2>3. QED BY <2>1, <2>2 DEF Engine!States, Engine!Resting, Ended
  <1>7. LeasesMatchWork'
    <2>1. state[c] \in Ended => state[c] # "queued" /\ running # c
      BY <1>2 DEF EventsRight, Ended, Engine!Moving
    <2>2. ASSUME NEW d \in Components
          PROVE  /\ state'[d] = "queued" \/ (running' = d /\ abort' = None) => d \in activity'
                 /\ d \in activity' => \/ state'[d] = "queued" \/ running' = d
                                       \/ state'[d] = "ready" \/ d \in due'
      <3>1. CASE d = c
        BY <3>1, <2>1, <1>2, <1>4, <1>5, <1>6 DEF LeasesMatchWork
      <3>2. CASE d # c
        BY <3>2, <1>1, <1>2, <1>4, <1>5 DEF LeasesMatchWork, Engine!Busy
      <3>3. QED BY <3>1, <3>2
    <2>3. QED BY <2>2 DEF LeasesMatchWork, Engine!Busy
  <1>8. EventsRight' /\ QuitFindsItIdle'
    BY <1>1, <1>2, <1>4 DEF EventsRight, QuitFindsItIdle, IInv
  <1>9. ServiceTypeOK' /\ WithdrawnIsStale'
    BY <1>1, <1>2 DEF IInv, ServiceTypeOK, WithdrawnIsStale, Reading, LeasesAfter
  <1>10. QED BY <1>1, <1>3, <1>7, <1>8, <1>9 DEF IInv, Spares

(* The install goes on under its lease.                                    *)
LEMMA WorkKeeps ==
    ASSUME IInv, Work
    PROVE  IInv' /\ \A j \in Actions : Spares(j)
  <1>0. /\ Engine!Work /\ UNCHANGED <<activity, actions, phase, selected>>
        /\ Reported({running}, {})
    BY DEF Work, service, authority
  <1>1. EngineInv /\ LeasesMatchWork /\ EventsRight
    BY DEF IInv
  <1>2. EngineInv'
    BY <1>0, <1>1, StepPreserves DEF Engine!Next
  <1>3. /\ running # None /\ UNCHANGED <<queue, running, abort>>
        /\ \A c \in Components : c # running => state'[c] = state[c]
    BY <1>0, <1>1, OnePlaceEach DEF Engine!Work
  <1>4. LeasesMatchWork' /\ EventsRight'
    <2>1. state'[running] \in Engine!Moving
      BY <1>0, <1>1, OnePlaceEach DEF Engine!Work
    <2>2. state'[running] \notin {"queued", "not-installed"}
      BY <2>1 DEF Engine!Moving
    <2>3. \A c \in Components : /\ running' = c => state'[c] \in Engine!Moving
                                /\ state'[c] = state[c] \/ state'[c] # "not-installed"
                                /\ c \in {running} => state'[c] # "not-installed"
      BY <2>1, <2>2, <1>3
    <2>4. EventsRight' /\ due \subseteq due'
      BY <2>3, <1>0, <1>1, ReportKeeps
    <2>5. QED BY <2>2, <2>4, <1>0, <1>1, <1>3 DEF LeasesMatchWork, Engine!Busy
  <1>5. QuitFindsItIdle'
    BY <1>0, <1>3 DEF IInv, QuitFindsItIdle
  <1>6. ServiceTypeOK' /\ WithdrawnIsStale'
    BY <1>0 DEF IInv, ServiceTypeOK, WithdrawnIsStale, Reading
  <1>7. QED BY <1>0, <1>2, <1>4, <1>5, <1>6 DEF IInv, Spares

(* An install ends, its lease goes with the event or an event is due, and  *)
(* the next pack, which has a lease, begins.                               *)
LEMMA EndKeeps ==
    ASSUME IInv, End
    PROVE  IInv' /\ \A j \in Actions : Spares(j)
  <1>0. /\ Engine!End /\ activity' = LeasesAfter(activity, AtOnce(Changed))
        /\ Reported(Changed, {})
        /\ UNCHANGED <<actions, phase, selected>>
    BY DEF End, authority
  <1>1. EngineInv /\ LeasesMatchWork /\ EventsRight /\ ServiceTypeOK
    BY DEF IInv
  <1>2. EngineInv'
    BY <1>0, <1>1, StepPreserves DEF Engine!Next
  <1>3. /\ state \in [Components -> Engine!States]
        /\ queue \in Seq(Components) /\ IsInjective(queue)
        /\ running \in Components
        /\ \A c \in Components : state[c] = "queued" <=> Contains(queue, c)
        /\ state[running] # "queued"
    BY <1>0, <1>1, OnePlaceEach DEF Engine!End
  <1>4. PICK s \in Engine!Outcomes : Engine!Pump(queue, [state EXCEPT ![running] = s])
    BY <1>0 DEF Engine!End
  <1>5. s # "queued" /\ s \in Ended /\ s \notin Engine!Moving
    BY DEF Engine!Outcomes, Ended, Engine!Moving
  <1> DEFINE t == [state EXCEPT ![running] = s]
  <1>6. \A c \in Components : t[c] = IF c = running THEN s ELSE state[c]
    BY <1>3
  <1>7. Engine!Pump(queue, t)
    BY <1>4
  <1>8. t \in [Components -> Engine!States \cup {s}]
    BY <1>3
  <1> HIDE DEF t
  <1>9. /\ \A c \in Components : /\ state'[c] = "queued" => state[c] = "queued" /\ c # running
                                 /\ running' = c => /\ state[c] = "queued" /\ c # running
                                                    /\ state'[c] = "downloading"
                                 /\ c # running /\ running' # c => state'[c] = state[c]
        /\ state'[running] = s
    <2>1. CASE queue = <<>>
      <3>1. state' = t /\ running' = None
        BY <2>1, <1>7 DEF Engine!Pump
      <3>2. QED BY <3>1, <1>3, <1>5, <1>6, NoneIsNothing
    <2>2. CASE queue # <<>>
      <3> DEFINE h == Head(queue)
      <3>1. h \in Components /\ Contains(queue, h)
        BY <2>2, <1>3, TailOfQueue
      <3>2. running' = h /\ state' = [t EXCEPT ![h] = "downloading"]
        BY <2>2, <1>7 DEF Engine!Pump
      <3> HIDE DEF h
      <3>3. \A c \in Components : state'[c] = IF c = h THEN "downloading" ELSE t[c]
        BY <3>1, <3>2, <1>8
      <3>4. state[h] = "queued" /\ h # running
        BY <3>1, <1>3
      <3>5. QED BY <3>2, <3>3, <3>4, <1>3, <1>5, <1>6
    <2>3. QED BY <2>1, <2>2
  <1>a. EventsRight' /\ due \subseteq due' /\ Changed \cap recent \subseteq due'
    <2>1. \A c \in Components : /\ running' = c => state'[c] \in Engine!Moving
                                /\ state'[c] = state[c] \/ state'[c] # "not-installed"
      BY <1>5, <1>9 DEF Engine!Moving, Ended
    <2>2. QED BY <2>1, <1>0, <1>1, ChangeKeeps
  <1>b. running \in Changed
    BY <1>1, <1>3, <1>5, <1>9 DEF Changed, EventsRight
  <1>c. \A c \in Components :
          c \in activity' <=> c \in activity /\ (c \in AtOnce(Changed) => state'[c] \notin Ended)
    BY <1>0, <1>1 DEF LeasesAfter, ServiceTypeOK
  <1>10. LeasesMatchWork'
    <2>1. ASSUME NEW c \in Components, state'[c] = "queued" \/ (running' = c /\ abort' = None)
          PROVE  c \in activity'
      <3>1. c \in activity
        BY <2>1, <1>1, <1>9 DEF LeasesMatchWork
      <3>2. state'[c] \notin Ended
        BY <2>1, <1>9 DEF Ended
      <3>3. QED BY <3>1, <3>2, <1>c
    <2>2. ASSUME NEW c \in Components, c \in activity'
          PROVE  \/ state'[c] = "queued" \/ running' = c
                 \/ state'[c] = "ready" \/ c \in due'
      <3>1. CASE c = running
        BY <3>1, <2>2, <1>5, <1>9, <1>a, <1>b, <1>c DEF AtOnce
      <3>2. CASE c # running
        BY <3>2, <2>2, <1>1, <1>9, <1>a, <1>c DEF LeasesMatchWork, Engine!Busy
      <3>3. QED BY <3>1, <3>2
    <2>3. QED BY <2>1, <2>2 DEF LeasesMatchWork, Engine!Busy
  <1>11. QuitFindsItIdle'
    BY <1>0 DEF IInv, QuitFindsItIdle, Engine!End
  <1>12. ServiceTypeOK' /\ WithdrawnIsStale'
    BY <1>0 DEF IInv, ServiceTypeOK, WithdrawnIsStale, Reading, LeasesAfter
  <1>13. QED BY <1>0, <1>2, <1>a, <1>10, <1>11, <1>12 DEF IInv, Spares

(* At the start there is no work, no lease and no action.                  *)
LEMMA ServiceStarts ==
    Init => IInv
  <1> SUFFICES ASSUME Init PROVE IInv
    OBVIOUS
  <1>1. EngineInv
    BY InitEstablishes DEF Init
  <1>2. ServiceTypeOK /\ WithdrawnIsStale
    BY DEF Init, ServiceTypeOK, WithdrawnIsStale, NoAction, Wishes
  <1>3. LeasesMatchWork
    BY NoneIsNothing DEF Init, Engine!Init, LeasesMatchWork
  <1>4. QuitFindsItIdle /\ EventsRight
    BY NoneIsNothing DEF Init, Engine!Init, QuitFindsItIdle, EventsRight
  <1>5. QED BY <1>1, <1>2, <1>3, <1>4 DEF IInv

(* Every step keeps the invariant, and one that ends a withdrawn action    *)
(* changes neither the engine nor the leases.                              *)
LEMMA ServiceStepKeeps ==
    ASSUME IInv, [Next]_vars
    PROVE  IInv' /\ \A j \in Actions : Spares(j) \/ UNCHANGED <<engine, activity>>
  <1> DEFINE Kept == IInv' /\ \A j \in Actions : Spares(j) \/ UNCHANGED <<engine, activity>>
  <1>1. ASSUME NEW c \in Components, NEW k \in Actions, NEW wish \in Wishes, Ask(k, c, wish)
        PROVE  Kept
    BY <1>1, AskKeeps
  <1>2. ASSUME NEW c \in Components, NEW wish \in {"pause", "cancel"}, Stop(c, wish)
        PROVE  Kept
    BY <1>2, StopKeeps
  <1>3. ASSUME NEW k \in Actions, Resume(k) PROVE Kept
    BY <1>3, ResumeKeeps
  <1>4. CASE Refresh
    BY <1>4, RefreshKeeps
  <1>5. CASE Shutdown
    BY <1>5, ShutdownKeeps
  <1>6. CASE Drained
    BY <1>6, BystanderKeeps DEF Drained, authority, events, IInv, ServiceTypeOK
  <1>7. CASE Work
    BY <1>7, WorkKeeps
  <1>8. CASE End
    BY <1>8, EndKeeps
  <1>9. ASSUME NEW e \in Components \cup {None}, Select(e) PROVE Kept
    BY <1>9, BystanderKeeps
       DEF Select, service, engine, events, IInv, ServiceTypeOK, QuitFindsItIdle
  <1>10. ASSUME NEW b, SetPolicy(b) \/ SetCapture(b) PROVE Kept
    BY <1>10, BystanderKeeps
       DEF SetPolicy, SetCapture, service, events, IInv, ServiceTypeOK, QuitFindsItIdle
  <1>11. CASE UNCHANGED vars
    BY <1>11, BystanderKeeps
       DEF vars, service, events, authority, IInv, ServiceTypeOK, QuitFindsItIdle
  <1>12. ASSUME NEW c \in Components, Deliver(c) PROVE Kept
    BY <1>12, DeliverKeeps
  <1>13. ASSUME NEW c \in Components, Elapse(c) PROVE Kept
    BY <1>13, BystanderKeeps
       DEF Elapse, service, authority, IInv, ServiceTypeOK, QuitFindsItIdle
  <1>14. QED
    BY <1>1, <1>2, <1>3, <1>4, <1>5, <1>6, <1>7, <1>8, <1>9, <1>10, <1>11, <1>12, <1>13
       DEF Next

(* The inductive invariant of the service holds in every reachable state.  *)
THEOREM ServiceInvariance == Spec => []IInv
  <1>1. Init => IInv
    BY ServiceStarts
  <1>2. IInv /\ [Next]_vars => IInv'
    BY ServiceStepKeeps
  <1>3. QED BY <1>1, <1>2, PTL DEF Spec

(* Leases and the engine's work agree, whatever the user, the policy, the  *)
(* selected engine, a capture and the quit stop in between, and however    *)
(* late the engine's throttled events come: a lease without work has an    *)
(* event due that takes it, or its pack is ready.                          *)
THEOREM LeasesAgree == Spec => []LeasesMatchWork
  <1>1. IInv => LeasesMatchWork
    BY DEF IInv
  <1>2. QED BY <1>1, ServiceInvariance, PTL

(* The engine stays idle once the quit has found it so.                    *)
THEOREM QuitStaysIdle == Spec => []QuitFindsItIdle
  <1>1. IInv => QuitFindsItIdle
    BY DEF IInv
  <1>2. QED BY <1>1, ServiceInvariance, PTL

(* An action that was withdrawn while it waited for the profile starts     *)
(* nothing when the profile has been read.                                 *)
THEOREM NothingWithdrawnStarts == Spec => WithdrawnStartsNothing
  <1> DEFINE A == \A k \in Actions :
        actions[k].withdrawn /\ ~actions'[k].withdrawn => UNCHANGED <<engine, activity>>
  <1>1. IInv /\ [Next]_vars => [A]_vars
    BY ServiceStepKeeps DEF Spares
  <1>2. QED BY <1>1, ServiceInvariance, PTL DEF Spec, WithdrawnStartsNothing
=============================================================================
