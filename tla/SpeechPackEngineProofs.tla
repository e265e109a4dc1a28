----------------------- MODULE SpeechPackEngineProofs -----------------------
(***************************************************************************)
(* Proofs about SpeechPackEngine, for every set of packs and versions and  *)
(* any number of deaths, outside changes and failing file operations, and  *)
(* at the end that it implements the lifecycle the service relies on.      *)
(***************************************************************************)
EXTENDS SpeechPackEngine, QueueLemmas

-----------------------------------------------------------------------------
(* The inductive invariant.                                                *)

Directories == {"absent", "whole", "partial", "damaged"}
States == {"not-installed", "queued", "downloading", "verifying", "self-testing",
           "ready", "paused", "cancelled", "failed"}

Shapes ==
    /\ marker \in [Components -> Versions \cup {None}]
    /\ final \in [Components -> [Versions -> Directories]]
    /\ asides \in [Components -> [Versions -> Nat]]
    /\ staging \in [Components -> [Versions -> BOOLEAN]]
    /\ owned \in [Components -> Versions \cup {None}]
    /\ state \in [Components -> States]
    /\ pinned \in Versions
    /\ touched \in BOOLEAN
    /\ running \in Components => prev \in Versions \cup {None}
    /\ cleanup \subseteq Components
    /\ faults \in Nat

(* A run belongs to a live process that is through with initialise(), and  *)
(* a new process knows nothing.                                            *)
Control ==
    /\ running \in Components => pc # "none"
    /\ pc # "none" => up /\ boot = <<>>
    /\ ~up => bootPc = "look" /\ \A c \in Components : state[c] = "not-installed"

(* Where nothing was renamed yet, and where something was for sure.        *)
Early == {"begin", "download", "verify", "staged", "selftest", "tested", "swap"}
Late == {"aside", "promoted", "mark", "marked",
         "undo", "undoDelete", "undoDeleting", "undoAside", "undoMarker"}

Renamed == (pc \in Early => ~touched) /\ (pc \in Late => touched)

(* Once renamed aside, the old directory stays there until the undo has    *)
(* put it back.                                                            *)
KeptAside(c) ==
    /\ pc \in Late \cup {"promote"} /\ pc # "undoMarker" /\ touched
    /\ owned[c] = pinned
    => asides[c][pinned] > 0

(* What the activation has put in place so far.                            *)
InPlace(c) ==
    /\ pc \in {"aside", "promote"} => final[c][pinned] = "absent"
    /\ pc \in {"promoted", "mark", "marked"} => final[c][pinned] \in {"whole",
         "damaged"}
    /\ pc = "marked" => marker[c] = pinned

(* What the disk still serves, or no longer serves, of what it served when *)
(* the run began; the undo ends where the run began.                       *)
Intact(c) == marker[c] = owned[c] /\ final[c][owned[c]] = "whole"

Undone(c) ==
    /\ ~touched \/ pc = "failing" => Intact(c)
    /\ pc \in Late \cup {"swap", "promote"} => prev = owned[c]
    /\ pc \in {"aside", "promote", "promoted", "mark"} => marker[c] = owned[c]
    /\ owned[c] # pinned => final[c][owned[c]] = "whole"
    /\ owned[c] # pinned /\ pc \in {"undoDelete", "undoDeleting", "undoAside"}
            => marker[c] = owned[c]
    /\ pc = "undoMarker" => owned[c] = pinned /\ final[c][pinned] = "whole"

(* The pack whose run is under way.                                        *)
UnderWay(c) ==
    /\ KeptAside(c) /\ InPlace(c)
    /\ faults = 0 /\ owned[c] # None => Undone(c)

(* The pack initialise() looks at: past the check its directory was whole. *)
Visited(c) ==
    bootPc \in {"mark", "prune"} =>
        /\ final[c][pinned] \in {"whole", "damaged"}
        /\ owned[c] = pinned => final[c][pinned] = "whole"
        /\ bootPc = "prune" => marker[c] = pinned

(* One pack's part in ReadyMeansActive, WorkingPackSurvives.               *)
Active(c) == marker[c] = pinned /\ final[c][pinned] \in {"whole", "damaged"}
Survives(c) == owned[c] # None =>
                  final[c][owned[c]] = "whole" \/ asides[c][owned[c]] > 0

IInv ==
    /\ Shapes /\ Control /\ Renamed
    /\ \A c \in Components :
        /\ Survives(c)
        /\ running = c => UnderWay(c)
        /\ boot # <<>> /\ Head(boot) = c => Visited(c)
        /\ up /\ state[c] = "ready" /\ running # c /\ faults = 0 => Active(c)
    /\ LatestCleanupIsAwaited

-----------------------------------------------------------------------------
(* The invariant holds at the start: nothing is installed and nothing runs.*)
LEMMA Initially == Init => IInv
  <1> SUFFICES ASSUME Init PROVE IInv
    OBVIOUS
  <1>1. Shapes
    BY NoneIsNothing DEF Init, Shapes, Directories, States
  <1>2. Control /\ Renamed /\ LatestCleanupIsAwaited
    BY NoneIsNothing DEF Init, Control, Renamed, Early, Late, LatestCleanupIsAwaited
  <1>3. ASSUME NEW c \in Components
        PROVE  Survives(c) /\ running # c /\ boot = <<>> /\ state[c] # "ready"
    BY NoneIsNothing DEF Init, Survives
  <1>4. QED BY <1>1, <1>2, <1>3 DEF IInv

(* One entry of a function of functions is set, the others stay.           *)
LEMMA FinalAt ==
    ASSUME Shapes, NEW c, NEW v, NEW x \in Directories,
           final' = [final EXCEPT ![c][v] = x]
    PROVE  /\ final' \in [Components -> [Versions -> Directories]]
           /\ \A d \in Components, w \in Versions :
                final'[d][w] = IF d = c /\ w = v THEN x ELSE final[d][w]
  BY DEF Shapes

(* How many copies were renamed aside, after one more or one less.         *)
LEMMA AsidesAt ==
    ASSUME Shapes, NEW c, NEW v, NEW x, c \in Components /\ v \in Versions => x \in Nat,
           asides' = [asides EXCEPT ![c][v] = x]
    PROVE  /\ asides' \in [Components -> [Versions -> Nat]]
           /\ \A d \in Components, w \in Versions :
                asides'[d][w] = IF d = c /\ w = v THEN x ELSE asides[d][w]
  BY DEF Shapes

(* The marker after one is written or removed.                             *)
LEMMA MarkerAt ==
    ASSUME Shapes, NEW c, NEW x, c \in Components => x \in Versions \cup {None},
           marker' = [marker EXCEPT ![c] = x]
    PROVE  /\ marker' \in [Components -> Versions \cup {None}]
           /\ \A d \in Components : marker'[d] = IF d = c THEN x ELSE marker[d]
  BY DEF Shapes

(* The staging directory after it is made or removed.                      *)
LEMMA StagingAt ==
    ASSUME Shapes, NEW c, NEW v, NEW x \in BOOLEAN,
           staging' = [staging EXCEPT ![c][v] = x]
    PROVE  /\ staging' \in [Components -> [Versions -> BOOLEAN]]
           /\ \A d \in Components, w \in Versions :
                staging'[d][w] = IF d = c /\ w = v THEN x ELSE staging[d][w]
  BY DEF Shapes

(* pump() starts a run with well-formed records of it.                     *)
LEMMA PumpShapes ==
  ASSUME NEW q, NEW s \in [Components -> States], NEW f, Shapes, PumpWith(q, s, f)
  PROVE state' \in [Components -> States] /\ owned' \in [Components -> Versions \cup {None}] /\ prev' = None
  <1>1. CASE q = <<>>
    BY <1>1 DEF Shapes, PumpWith
  <1>2. CASE q # <<>>
    <2> DEFINE h == Head(q)
    <2>1. /\ state' = [s EXCEPT ![h] = "downloading"] /\ prev' = None
          /\ owned' = [owned EXCEPT ![h] = Working(h)]
      BY <1>2 DEF PumpWith
    <2>2. h \in Components => Working(h) \in Versions \cup {None}
      BY DEF Working, Shapes
    <2> HIDE DEF h
    <2>3. QED BY <2>1, <2>2 DEF Shapes, States
  <1>3. QED BY <1>1, <1>2

(* A step of the run under way leaves the other packs alone.               *)
RunFrame ==
    /\ UNCHANGED <<up, pinned, boot, bootPc, running, owned, cleanup>>
    /\ faults' = 0 => faults = 0
    /\ \A d \in Components : d # running =>
            /\ marker'[d] = marker[d] /\ final'[d] = final[d] /\ asides'[d] = asides[d]
            /\ state'[d] = "ready" => state[d] = "ready"

(* A step of the run under way preserves the invariant if it does so for   *)
(* the pack of that run.                                                   *)
LEMMA StepOfRun ==
    ASSUME IInv, pc # "none", pc' # "none", RunFrame,
           pc = "begin" => running \notin cleanup,
           Shapes', Renamed',
           running \in Components => Survives(running)' /\ UnderWay(running)'
    PROVE  IInv'
  <1>1. up /\ boot = <<>>
    BY DEF IInv, Control
  <1>2. Control'
    BY <1>1 DEF Control, RunFrame
  <1>3. ASSUME NEW d \in Components
        PROVE  /\ Survives(d)'
               /\ running' = d => UnderWay(d)'
               /\ boot' # <<>> /\ Head(boot') = d => Visited(d)'
               /\ up' /\ state'[d] = "ready" /\ running' # d /\ faults' = 0 => Active(d)'
    <2>1. CASE d = running
      BY <1>1, <2>1 DEF RunFrame
    <2>2. CASE d # running
      BY <1>1, <2>2 DEF IInv, Survives, Active, RunFrame
    <2>3. QED BY <2>1, <2>2
  <1>4. LatestCleanupIsAwaited'
    BY DEF IInv, LatestCleanupIsAwaited, RunFrame
  <1>5. QED BY <1>2, <1>3, <1>4 DEF IInv

(* pump() preserves the invariant if every pack the states call ready is   *)
(* active: what the new run is accountable for is what the disk serves now.*)
LEMMA PumpPreserves ==
    ASSUME IInv, up, boot = <<>>, UNCHANGED <<marker, final, asides, up, pinned,
         boot, bootPc, cleanup>>,
           faults' \in Nat, faults' = 0 => faults = 0,
           staging' \in [Components -> [Versions -> BOOLEAN]],
           NEW q, NEW f, NEW s \in [Components -> States],
           \A c \in Components : s[c] = "ready" /\ faults' = 0 => Active(c),
           PumpWith(q, s, f)
    PROVE  IInv'
  <1>1. Shapes'
    BY PumpShapes, touched' = FALSE DEF IInv, Shapes, PumpWith
  <1>2. /\ pc' \in {"none", "begin"} /\ touched' = FALSE
        /\ running' \in Components => pc' = "begin"
    BY NoneIsNothing DEF PumpWith
  <1>3. Control' /\ Renamed'
    BY <1>2 DEF Control, Renamed, Early, Late
  <1>4. ASSUME NEW c \in Components
        PROVE  /\ owned'[c] = owned[c] \/ owned'[c] = Working(c)
               /\ running' = c => owned'[c] = Working(c)
               /\ state'[c] = "ready" => s[c] = "ready"
    <2>1. CASE q = <<>>
      BY <2>1, NoneIsNothing DEF PumpWith
    <2>2. CASE q # <<>>
      <3> DEFINE h == Head(q)
      <3>1. /\ state' = [s EXCEPT ![h] = "downloading"] /\ running' = h
            /\ owned' = [owned EXCEPT ![h] = Working(h)]
        BY <2>2 DEF PumpWith
      <3> HIDE DEF h
      <3>2. QED BY <3>1 DEF IInv, Shapes
    <2>3. QED BY <2>1, <2>2
  <1>5. ASSUME NEW c \in Components
        PROVE  /\ Survives(c)'
               /\ running' = c => UnderWay(c)'
               /\ boot' # <<>> /\ Head(boot') = c => Visited(c)'
               /\ up' /\ state'[c] = "ready" /\ running' # c /\ faults' = 0 => Active(c)'
    <2>1. Survives(c)'
      BY <1>4 DEF Survives, Working, IInv
    <2>2. ASSUME running' = c PROVE UnderWay(c)'
      BY <2>2, <1>2, <1>4 DEF UnderWay, KeptAside, InPlace, Undone, Intact, Late,
         Working
    <2>3. ASSUME state'[c] = "ready", faults' = 0 PROVE Active(c)'
      BY <2>3, <1>4 DEF Active
    <2>4. QED BY <2>1, <2>2, <2>3
  <1>6. LatestCleanupIsAwaited'
    BY <1>2 DEF LatestCleanupIsAwaited, IInv, Shapes
  <1>7. QED BY <1>1, <1>3, <1>5, <1>6 DEF IInv

(* An error before 'ready', an abort included: nothing is renamed yet and  *)
(* the disk is as it was, or the undo begins and knows where to end.       *)
LEMMA ThrowPreserves ==
    ASSUME IInv, pc \in (Early \ {"begin"}) \cup {"aside", "promote", "promoted",
         "mark", "marked"},
           Throw,
           UNCHANGED <<marker, final, asides, up, pinned, boot, bootPc, owned,
                cleanup>>,
           staging' \in [Components -> [Versions -> BOOLEAN]],
           state' \in [Components -> States],
           \A d \in Components : d # running /\ state'[d] = "ready" => state[d] = "ready",
           faults' \in Nat, faults' = 0 => faults = 0
    PROVE  IInv'
  <1>1. /\ pc' = IF touched THEN "undo" ELSE "failing"
        /\ UNCHANGED <<running, repairing, abort, asked, prev, touched>>
    BY DEF Throw, Goto
  <1>2. Shapes'
    BY <1>1 DEF IInv, Shapes
  <1>3. Renamed'
    BY <1>1, <1>2 DEF Renamed, Early, Late, Shapes
  <1>4. ASSUME running \in Components PROVE Survives(running)'
    BY <1>4, <1>1 DEF IInv, Survives
  <1>5. ASSUME running \in Components PROVE KeptAside(running)' /\ InPlace(running)'
    BY <1>5, <1>1 DEF IInv, UnderWay, KeptAside, InPlace, Renamed, Early, Late
  <1>6. ASSUME running \in Components, faults' = 0,
       owned'[running] # None PROVE Undone(running)'
    <2>1. Undone(running)
      BY <1>6 DEF IInv, UnderWay
    <2>2. CASE touched
      BY <2>1, <2>2, <1>1 DEF Undone, Intact, Early, Late, IInv, Renamed
    <2>3. CASE ~touched
      BY <2>1, <2>3, <1>1 DEF Undone, Intact, Early, Late, IInv, Renamed
    <2>4. QED BY <2>2, <2>3 DEF IInv, Shapes
  <1>7. pc \notin {"none", "begin"} /\ pc' # "none" /\ RunFrame
    BY <1>1 DEF Early, RunFrame
  <1>8. QED
    BY <1>1, <1>2, <1>3, <1>4, <1>5, <1>6, <1>7, StepOfRun DEF UnderWay

(* A method of the engine that touches neither the disk nor the run.       *)
LEMMA QuietPreserves ==
    ASSUME IInv, UNCHANGED <<marker, final, asides, up, pinned, boot, bootPc,
                             running, pc, prev, touched, owned, faults>>,
           up,
           staging' \in [Components -> [Versions -> BOOLEAN]],
           state' \in [Components -> States],
           \A d \in Components : state'[d] = "ready" => state[d] = "ready",
           cleanup' \subseteq Components,
           running \in cleanup' => running \in cleanup
    PROVE  IInv'
  <1>1. Shapes' /\ Control' /\ Renamed'
    BY DEF IInv, Shapes, Control, Renamed
  <1>2. LatestCleanupIsAwaited'
    BY DEF IInv, LatestCleanupIsAwaited
  <1>3. ASSUME NEW c \in Components
        PROVE  /\ Survives(c)'
               /\ running' = c => UnderWay(c)'
               /\ boot' # <<>> /\ Head(boot') = c => Visited(c)'
               /\ up' /\ state'[c] = "ready" /\ running' # c /\ faults' = 0 => Active(c)'
    BY DEF IInv, Survives, UnderWay, KeptAside, InPlace, Undone, Intact, Visited,
       Active
  <1>4. QED BY <1>1, <1>2, <1>3 DEF IInv

(* A file operation of the undo that fails ends the undo.                  *)
LEMMA GiveUpPreserves ==
    ASSUME IInv, pc \in {"undo", "undoDelete", "undoAside", "undoMarker"},
           Goto("failing"), Fault,
           UNCHANGED <<marker, final, asides, staging, up, pinned, boot, bootPc,
                owned, cleanup, state>>
    PROVE  IInv'
  <1>1. Shapes'
    BY DEF IInv, Shapes, Goto, Fault
  <1>2. Renamed'
    BY DEF Renamed, Goto, Early, Late
  <1>3. ASSUME running \in Components PROVE Survives(running)' /\ UnderWay(running)'
    BY <1>3 DEF IInv, Shapes, Survives, UnderWay, KeptAside, InPlace, Goto, Late,
       Fault
  <1>4. pc' # "none" /\ RunFrame
    BY DEF IInv, Shapes, Goto, Fault, RunFrame
  <1>5. QED
    BY <1>1, <1>2, <1>3, <1>4, StepOfRun

(* The steps of install() before the activation.                           *)
LEMMA DownloadStep ==
    ASSUME IInv, Download
    PROVE  IInv'
  <1>0. /\ pc = "download" /\ UNCHANGED <<up, pinned, boot, bootPc, cleanup, owned>>
    BY DEF Download, Step, At, Quiet, booting, work
  <1>1. CASE Throw /\ UNCHANGED <<disk, work, bounds>>
    BY <1>0, <1>1, ThrowPreserves DEF IInv, Shapes, States, Early, disk, work, bounds
  <1>2. CASE /\ staging' = [staging EXCEPT ![running][pinned] = TRUE]
             /\ Goto("verify") /\ UNCHANGED <<marker, final, asides, work, bounds>>
    <2>1. Shapes'
      BY <1>0, <1>2, FinalAt, AsidesAt, StagingAt, MarkerAt DEF IInv, Shapes, States,
         Directories, Goto, bounds, work
    <2>2. Renamed'
      BY <1>0, <1>2, FinalAt DEF IInv, Shapes, Renamed, Early, Late, Goto, bounds,
         work
    <2>3. ASSUME running \in Components PROVE Survives(running)'
      BY <2>3, <1>0, <1>2, FinalAt, AsidesAt DEF IInv, Shapes, Directories, Renamed,
         Early, Late, Goto, bounds, work, UnderWay, KeptAside, InPlace, Undone,
         Intact, Survives
    <2>4. ASSUME running \in Components PROVE KeptAside(running)'
      BY <2>4, <1>0, <1>2, FinalAt, AsidesAt DEF IInv, Shapes, Directories, Renamed,
         Early, Late, Goto, bounds, work, UnderWay, KeptAside, InPlace, Undone,
         Intact, Survives
    <2>5. ASSUME running \in Components PROVE InPlace(running)'
      BY <2>5, <1>0, <1>2, FinalAt, AsidesAt DEF IInv, Shapes, Directories, Renamed,
         Early, Late, Goto, bounds, work, UnderWay, KeptAside, InPlace, Undone,
         Intact, Survives
    <2>6. ASSUME running \in Components, faults' = 0,
         owned'[running] # None PROVE Undone(running)'
      BY <2>6, <1>0, <1>2, FinalAt, AsidesAt DEF IInv, Shapes, Directories, Renamed,
         Early, Late, Goto, bounds, work, UnderWay, KeptAside, InPlace, Undone,
         Intact, Survives
    <2>7. pc \notin {"none", "begin"} /\ pc' # "none" /\ RunFrame
      BY <1>0, <1>2, MarkerAt, FinalAt, AsidesAt DEF IInv, Shapes, RunFrame,
         Directories, Goto, bounds, work
    <2>8. QED
      BY <2>1, <2>2, <2>3, <2>4, <2>5, <2>6, <2>7, StepOfRun DEF UnderWay, RunFrame
  <1>3. QED BY <1>1, <1>2 DEF Download, Step, bounds, work, disk

(* The archive is verified, or the transfer is refused.                    *)
LEMMA VerifyStep ==
    ASSUME IInv, Verify
    PROVE  IInv'
  <1>0. /\ pc = "verify" /\ UNCHANGED <<up, pinned, boot, bootPc, cleanup, owned>>
    BY DEF Verify, Step, At, Quiet, booting
  <1>1. CASE Throw /\ SetState(running, "verifying") /\ UNCHANGED <<disk, bounds>>
    BY <1>0, <1>1, ThrowPreserves DEF IInv, Shapes, States, Early, disk, bounds,
       SetState
  <1>2. CASE Goto("staged") /\ SetState(running, "verifying") /\ UNCHANGED <<disk,
       bounds>>
    <2>1. Shapes'
      BY <1>0, <1>2, FinalAt, AsidesAt, StagingAt, MarkerAt DEF IInv, Shapes, States,
         Directories, Goto, disk, bounds, SetState
    <2>2. Renamed'
      BY <1>0, <1>2, FinalAt DEF IInv, Shapes, Renamed, Early, Late, Goto, disk,
         bounds, SetState
    <2>3. ASSUME running \in Components PROVE Survives(running)'
      BY <2>3, <1>0, <1>2, FinalAt, AsidesAt DEF IInv, Shapes, Directories, Renamed,
         Early, Late, Goto, disk, bounds, SetState, UnderWay, KeptAside, InPlace,
         Undone, Intact, Survives
    <2>4. ASSUME running \in Components PROVE KeptAside(running)'
      BY <2>4, <1>0, <1>2, FinalAt, AsidesAt DEF IInv, Shapes, Directories, Renamed,
         Early, Late, Goto, disk, bounds, SetState, UnderWay, KeptAside, InPlace,
         Undone, Intact, Survives
    <2>5. ASSUME running \in Components PROVE InPlace(running)'
      BY <2>5, <1>0, <1>2, FinalAt, AsidesAt DEF IInv, Shapes, Directories, Renamed,
         Early, Late, Goto, disk, bounds, SetState, UnderWay, KeptAside, InPlace,
         Undone, Intact, Survives
    <2>6. ASSUME running \in Components, faults' = 0,
         owned'[running] # None PROVE Undone(running)'
      BY <2>6, <1>0, <1>2, FinalAt, AsidesAt DEF IInv, Shapes, Directories, Renamed,
         Early, Late, Goto, disk, bounds, SetState, UnderWay, KeptAside, InPlace,
         Undone, Intact, Survives
    <2>7. pc \notin {"none", "begin"} /\ pc' # "none" /\ RunFrame
      BY <1>0, <1>2, MarkerAt, FinalAt, AsidesAt DEF IInv, Shapes, RunFrame,
         Directories, Goto, disk, bounds, SetState
    <2>8. QED
      BY <2>1, <2>2, <2>3, <2>4, <2>5, <2>6, <2>7, StepOfRun DEF UnderWay, RunFrame
  <1>3. QED BY <1>1, <1>2 DEF Verify, Step, bounds, disk

(* The verified files stand in the staging directory.                      *)
LEMMA StagedStep ==
    ASSUME IInv, Staged
    PROVE  IInv'
  <1>0. /\ pc = "staged" /\ UNCHANGED <<up, pinned, boot, bootPc, cleanup, owned>>
    BY DEF Staged, Step, At, Quiet, booting, work, Authorized
  <1>1. CASE Throw /\ UNCHANGED <<disk, work, bounds, owned>>
    BY <1>0, <1>1, ThrowPreserves DEF IInv, Shapes, States, Early, disk, work, bounds
  <1>2. CASE Goto("selftest") /\ SetState(running,
       "self-testing") /\ UNCHANGED <<disk, bounds>>
    <2>1. Shapes'
      BY <1>0, <1>2, FinalAt, AsidesAt, StagingAt, MarkerAt DEF IInv, Shapes, States,
         Directories, Goto, disk, bounds, SetState
    <2>2. Renamed'
      BY <1>0, <1>2, FinalAt DEF IInv, Shapes, Renamed, Early, Late, Goto, disk,
         bounds, SetState
    <2>3. ASSUME running \in Components PROVE Survives(running)'
      BY <2>3, <1>0, <1>2, FinalAt, AsidesAt DEF IInv, Shapes, Directories, Renamed,
         Early, Late, Goto, disk, bounds, SetState, UnderWay, KeptAside, InPlace,
         Undone, Intact, Survives
    <2>4. ASSUME running \in Components PROVE KeptAside(running)'
      BY <2>4, <1>0, <1>2, FinalAt, AsidesAt DEF IInv, Shapes, Directories, Renamed,
         Early, Late, Goto, disk, bounds, SetState, UnderWay, KeptAside, InPlace,
         Undone, Intact, Survives
    <2>5. ASSUME running \in Components PROVE InPlace(running)'
      BY <2>5, <1>0, <1>2, FinalAt, AsidesAt DEF IInv, Shapes, Directories, Renamed,
         Early, Late, Goto, disk, bounds, SetState, UnderWay, KeptAside, InPlace,
         Undone, Intact, Survives
    <2>6. ASSUME running \in Components, faults' = 0,
         owned'[running] # None PROVE Undone(running)'
      BY <2>6, <1>0, <1>2, FinalAt, AsidesAt DEF IInv, Shapes, Directories, Renamed,
         Early, Late, Goto, disk, bounds, SetState, UnderWay, KeptAside, InPlace,
         Undone, Intact, Survives
    <2>7. pc \notin {"none", "begin"} /\ pc' # "none" /\ RunFrame
      BY <1>0, <1>2, MarkerAt, FinalAt, AsidesAt DEF IInv, Shapes, RunFrame,
         Directories, Goto, disk, bounds, SetState
    <2>8. QED
      BY <2>1, <2>2, <2>3, <2>4, <2>5, <2>6, <2>7, StepOfRun DEF UnderWay, RunFrame
  <1>3. QED BY <1>1, <1>2 DEF Staged, Step, Authorized, bounds, work, disk

(* The staged pack passes or fails its self-test.                          *)
LEMMA SelfTestStep ==
    ASSUME IInv, SelfTest
    PROVE  IInv'
  <1>0. /\ pc = "selftest" /\ UNCHANGED <<up, pinned, boot, bootPc, cleanup, owned>>
    BY DEF SelfTest, Step, At, Quiet, booting, work, Authorized
  <1>1. CASE Throw /\ UNCHANGED <<disk, work, bounds, owned>>
    BY <1>0, <1>1, ThrowPreserves DEF IInv, Shapes, States, Early, disk, work, bounds
  <1>2. CASE Goto("tested") /\ UNCHANGED <<disk, work, bounds, owned>>
    <2>1. Shapes'
      BY <1>0, <1>2, FinalAt, AsidesAt, StagingAt, MarkerAt DEF IInv, Shapes, States,
         Directories, Goto, disk, bounds, work
    <2>2. Renamed'
      BY <1>0, <1>2, FinalAt DEF IInv, Shapes, Renamed, Early, Late, Goto, disk,
         bounds, work
    <2>3. ASSUME running \in Components PROVE Survives(running)'
      BY <2>3, <1>0, <1>2, FinalAt, AsidesAt DEF IInv, Shapes, Directories, Renamed,
         Early, Late, Goto, disk, bounds, work, UnderWay, KeptAside, InPlace, Undone,
         Intact, Survives
    <2>4. ASSUME running \in Components PROVE KeptAside(running)'
      BY <2>4, <1>0, <1>2, FinalAt, AsidesAt DEF IInv, Shapes, Directories, Renamed,
         Early, Late, Goto, disk, bounds, work, UnderWay, KeptAside, InPlace, Undone,
         Intact, Survives
    <2>5. ASSUME running \in Components PROVE InPlace(running)'
      BY <2>5, <1>0, <1>2, FinalAt, AsidesAt DEF IInv, Shapes, Directories, Renamed,
         Early, Late, Goto, disk, bounds, work, UnderWay, KeptAside, InPlace, Undone,
         Intact, Survives
    <2>6. ASSUME running \in Components, faults' = 0,
         owned'[running] # None PROVE Undone(running)'
      BY <2>6, <1>0, <1>2, FinalAt, AsidesAt DEF IInv, Shapes, Directories, Renamed,
         Early, Late, Goto, disk, bounds, work, UnderWay, KeptAside, InPlace, Undone,
         Intact, Survives
    <2>7. pc \notin {"none", "begin"} /\ pc' # "none" /\ RunFrame
      BY <1>0, <1>2, MarkerAt, FinalAt, AsidesAt DEF IInv, Shapes, RunFrame,
         Directories, Goto, disk, bounds, work
    <2>8. QED
      BY <2>1, <2>2, <2>3, <2>4, <2>5, <2>6, <2>7, StepOfRun DEF UnderWay, RunFrame
  <1>3. QED BY <1>1, <1>2 DEF SelfTest, Step, Authorized, bounds, work, disk

(* The activation.                                                         *)
LEMMA PrepareStep ==
    ASSUME IInv, Prepare
    PROVE  IInv'
  <1>0. /\ pc = "tested" /\ UNCHANGED <<up, pinned, boot, bootPc, cleanup, owned>>
    BY DEF Prepare, Step, At, Quiet, booting, work, Authorized
  <1>1. CASE Throw /\ UNCHANGED <<disk, work, bounds, owned>>
    BY <1>0, <1>1, ThrowPreserves DEF IInv, Shapes, States, Early, disk, work, bounds
  <1>2. CASE /\ prev' = MarkerSnapshot(running)
             /\ marker' = [marker EXCEPT ![running] = prev']
             /\ pc' = "swap"
             /\ UNCHANGED <<running, touched, final, asides, staging, work, bounds>>
    <2>1. Shapes'
      BY <1>0, <1>2, FinalAt, AsidesAt, StagingAt, MarkerAt DEF IInv, Shapes, States,
         Directories, bounds, work, MarkerSnapshot
    <2>2. Renamed'
      BY <1>0, <1>2, FinalAt DEF IInv, Shapes, Renamed, Early, Late, bounds, work,
         MarkerSnapshot
    <2>3. ASSUME running \in Components PROVE Survives(running)'
      BY <2>3, <1>0, <1>2, FinalAt, AsidesAt DEF IInv, Shapes, Directories, Renamed,
         Early, Late, bounds, work, MarkerSnapshot, UnderWay, KeptAside, InPlace,
         Undone, Intact, Survives
    <2>4. ASSUME running \in Components PROVE KeptAside(running)'
      BY <2>4, <1>0, <1>2, FinalAt, AsidesAt DEF IInv, Shapes, Directories, Renamed,
         Early, Late, bounds, work, MarkerSnapshot, UnderWay, KeptAside, InPlace,
         Undone, Intact, Survives
    <2>5. ASSUME running \in Components PROVE InPlace(running)'
      BY <2>5, <1>0, <1>2, FinalAt, AsidesAt DEF IInv, Shapes, Directories, Renamed,
         Early, Late, bounds, work, MarkerSnapshot, UnderWay, KeptAside, InPlace,
         Undone, Intact, Survives
    <2>6. ASSUME running \in Components, faults' = 0,
         owned'[running] # None PROVE Undone(running)'
      BY <2>6, <1>0, <1>2, FinalAt, AsidesAt DEF IInv, Shapes, Directories, Renamed,
         Early, Late, bounds, work, MarkerSnapshot, UnderWay, KeptAside, InPlace,
         Undone, Intact, Survives
    <2>7. pc \notin {"none", "begin"} /\ pc' # "none" /\ RunFrame
      BY <1>0, <1>2, MarkerAt, FinalAt, AsidesAt DEF IInv, Shapes, RunFrame,
         Directories, bounds, work, MarkerSnapshot
    <2>8. QED
      BY <2>1, <2>2, <2>3, <2>4, <2>5, <2>6, <2>7, StepOfRun DEF UnderWay, RunFrame
  <1>3. QED BY <1>1, <1>2 DEF Prepare, Step, Authorized, bounds, work, disk

(* The old directory of the same version is renamed aside; the undo now    *)
(* owes it.                                                                *)
LEMMA SwapStep ==
    ASSUME IInv, Swap
    PROVE  IInv'
  <1>0. /\ pc = "swap" /\ UNCHANGED <<up, pinned, boot, bootPc, cleanup, owned>>
    BY DEF Swap, Step, At, Quiet, booting, work
  <1>1. CASE Fault /\ Throw /\ UNCHANGED <<disk, work, damage>>
    BY <1>0, <1>1, ThrowPreserves DEF IInv, Shapes, States, Early, Fault, disk, work
  <1>2. CASE final[running][pinned] = "absent" /\ Goto("promote") /\ UNCHANGED <<disk, work, bounds>>
    <2>1. Shapes'
      BY <1>0, <1>2, FinalAt, AsidesAt, StagingAt, MarkerAt DEF IInv, Shapes, States,
         Directories, Goto, disk, bounds, work
    <2>2. Renamed'
      BY <1>0, <1>2, FinalAt DEF IInv, Shapes, Renamed, Early, Late, Goto, disk,
         bounds, work
    <2>3. ASSUME running \in Components PROVE Survives(running)'
      BY <2>3, <1>0, <1>2, FinalAt, AsidesAt DEF IInv, Shapes, Directories, Renamed,
         Early, Late, Goto, disk, bounds, work, UnderWay, KeptAside, InPlace, Undone,
         Intact, Survives
    <2>4. ASSUME running \in Components PROVE KeptAside(running)'
      BY <2>4, <1>0, <1>2, FinalAt, AsidesAt DEF IInv, Shapes, Directories, Renamed,
         Early, Late, Goto, disk, bounds, work, UnderWay, KeptAside, InPlace, Undone,
         Intact, Survives
    <2>5. ASSUME running \in Components PROVE InPlace(running)'
      BY <2>5, <1>0, <1>2, FinalAt, AsidesAt DEF IInv, Shapes, Directories, Renamed,
         Early, Late, Goto, disk, bounds, work, UnderWay, KeptAside, InPlace, Undone,
         Intact, Survives
    <2>6. ASSUME running \in Components, faults' = 0,
         owned'[running] # None PROVE Undone(running)'
      BY <2>6, <1>0, <1>2, FinalAt, AsidesAt DEF IInv, Shapes, Directories, Renamed,
         Early, Late, Goto, disk, bounds, work, UnderWay, KeptAside, InPlace, Undone,
         Intact, Survives
    <2>7. pc \notin {"none", "begin"} /\ pc' # "none" /\ RunFrame
      BY <1>0, <1>2, MarkerAt, FinalAt, AsidesAt DEF IInv, Shapes, RunFrame,
         Directories, Goto, disk, bounds, work
    <2>8. QED
      BY <2>1, <2>2, <2>3, <2>4, <2>5, <2>6, <2>7, StepOfRun DEF UnderWay, RunFrame
  <1>3. CASE /\ final[running][pinned] # "absent"
             /\ asides' = [asides EXCEPT ![running][pinned] =
                               @ + IF final[running][pinned] = "whole" THEN 1 ELSE 0]
             /\ final' = [final EXCEPT ![running][pinned] = "absent"]
             /\ pc' = "aside" /\ touched'
             /\ touched' = TRUE
             /\ UNCHANGED <<running, prev, marker, staging, work, bounds>>
    <2>1. Shapes'
      <3> DEFINE n == asides[running][pinned]
                      + IF final[running][pinned] = "whole" THEN 1 ELSE 0
      <3>1. running \in Components => n \in Nat
        BY DEF IInv, Shapes
      <3>2. asides' = [asides EXCEPT ![running][pinned] = n]
        BY <1>3
      <3> HIDE DEF n
      <3>3. asides' \in [Components -> [Versions -> Nat]]
        BY <3>1, <3>2, AsidesAt DEF IInv
      <3>4. final' \in [Components -> [Versions -> Directories]]
        BY <1>3, FinalAt DEF IInv, Directories
      <3>5. QED BY <3>3, <3>4, <1>0, <1>3 DEF IInv, Shapes, bounds, work
    <2>2. Renamed'
      BY <1>0, <1>3, FinalAt DEF IInv, Shapes, Renamed, Early, Late, bounds, work
    <2>3. ASSUME running \in Components PROVE Survives(running)'
      BY <2>3, <1>0, <1>3, FinalAt, AsidesAt DEF IInv, Shapes, Directories, Renamed,
         Early, Late, bounds, work, UnderWay, KeptAside, InPlace, Undone, Intact,
         Survives
    <2>4. ASSUME running \in Components PROVE KeptAside(running)'
      <3>1. final'[running][pinned] = "absent"
        BY <2>4, <1>3, FinalAt DEF IInv, Shapes, Directories
      <3>2. QED BY <3>1, <2>3, <2>4, <1>0, <1>3, NoneIsNothing DEF KeptAside,
                   Survives, IInv, Shapes
    <2>5. ASSUME running \in Components PROVE InPlace(running)'
      BY <2>5, <1>0, <1>3, FinalAt, AsidesAt DEF IInv, Shapes, Directories, Renamed,
         Early, Late, bounds, work, UnderWay, KeptAside, InPlace, Undone, Intact,
         Survives
    <2>6. ASSUME running \in Components, faults' = 0,
         owned'[running] # None PROVE Undone(running)'
      BY <2>6, <1>0, <1>3, FinalAt, AsidesAt DEF IInv, Shapes, Directories, Renamed,
         Early, Late, bounds, work, UnderWay, KeptAside, InPlace, Undone, Intact,
         Survives
    <2>7. pc \notin {"none", "begin"} /\ pc' # "none" /\ RunFrame
      BY <1>0, <1>3, MarkerAt, FinalAt, AsidesAt DEF IInv, Shapes, RunFrame,
         Directories, bounds, work
    <2>8. QED
      BY <2>1, <2>2, <2>3, <2>4, <2>5, <2>6, <2>7, StepOfRun DEF UnderWay, RunFrame
  <1>4. QED BY <1>1, <1>2, <1>3 DEF Swap, Step, bounds, work, disk

(* The code looks at its abort after the first rename.                     *)
LEMMA MovedAsideStep ==
    ASSUME IInv, MovedAside
    PROVE  IInv'
  <1>0. /\ pc = "aside" /\ UNCHANGED <<up, pinned, boot, bootPc, cleanup, owned>>
    BY DEF MovedAside, Step, At, Quiet, booting, work, Authorized
  <1>1. CASE Throw /\ UNCHANGED <<disk, work, bounds, owned>>
    BY <1>0, <1>1, ThrowPreserves DEF IInv, Shapes, States, Early, disk, work, bounds
  <1>2. CASE Goto("promote") /\ UNCHANGED <<disk, work, bounds, owned>>
    <2>1. Shapes'
      BY <1>0, <1>2, FinalAt, AsidesAt, StagingAt, MarkerAt DEF IInv, Shapes, States,
         Directories, Goto, disk, bounds, work
    <2>2. Renamed'
      BY <1>0, <1>2, FinalAt DEF IInv, Shapes, Renamed, Early, Late, Goto, disk,
         bounds, work
    <2>3. ASSUME running \in Components PROVE Survives(running)'
      BY <2>3, <1>0, <1>2, FinalAt, AsidesAt DEF IInv, Shapes, Directories, Renamed,
         Early, Late, Goto, disk, bounds, work, UnderWay, KeptAside, InPlace, Undone,
         Intact, Survives
    <2>4. ASSUME running \in Components PROVE KeptAside(running)'
      BY <2>4, <1>0, <1>2, FinalAt, AsidesAt DEF IInv, Shapes, Directories, Renamed,
         Early, Late, Goto, disk, bounds, work, UnderWay, KeptAside, InPlace, Undone,
         Intact, Survives
    <2>5. ASSUME running \in Components PROVE InPlace(running)'
      BY <2>5, <1>0, <1>2, FinalAt, AsidesAt DEF IInv, Shapes, Directories, Renamed,
         Early, Late, Goto, disk, bounds, work, UnderWay, KeptAside, InPlace, Undone,
         Intact, Survives
    <2>6. ASSUME running \in Components, faults' = 0,
         owned'[running] # None PROVE Undone(running)'
      BY <2>6, <1>0, <1>2, FinalAt, AsidesAt DEF IInv, Shapes, Directories, Renamed,
         Early, Late, Goto, disk, bounds, work, UnderWay, KeptAside, InPlace, Undone,
         Intact, Survives
    <2>7. pc \notin {"none", "begin"} /\ pc' # "none" /\ RunFrame
      BY <1>0, <1>2, MarkerAt, FinalAt, AsidesAt DEF IInv, Shapes, RunFrame,
         Directories, Goto, disk, bounds, work
    <2>8. QED
      BY <2>1, <2>2, <2>3, <2>4, <2>5, <2>6, <2>7, StepOfRun DEF UnderWay, RunFrame
  <1>3. QED BY <1>1, <1>2 DEF MovedAside, Step, Authorized, bounds, work, disk

(* The staged directory takes the place of the old one.                    *)
LEMMA PromoteStep ==
    ASSUME IInv, Promote
    PROVE  IInv'
  <1>0. /\ pc = "promote" /\ UNCHANGED <<up, pinned, boot, bootPc, cleanup, owned>>
    BY DEF Promote, Step, At, Quiet, booting, work
  <1>1. CASE Fault /\ Throw /\ UNCHANGED <<disk, work, damage>>
    BY <1>0, <1>1, ThrowPreserves DEF IInv, Shapes, States, Early, Fault, disk, work
  <1>2. CASE /\ final' = [final EXCEPT ![running][pinned] =
                             IF staging[running][pinned] THEN "whole" ELSE "damaged"]
             /\ staging' = [staging EXCEPT ![running][pinned] = FALSE]
             /\ pc' = "promoted" /\ touched' = TRUE
             /\ UNCHANGED <<running, prev, marker, asides, work, bounds>>
    <2>1. Shapes'
      BY <1>0, <1>2, FinalAt, AsidesAt, StagingAt, MarkerAt DEF IInv, Shapes, States,
         Directories, bounds, work
    <2>2. Renamed'
      BY <1>0, <1>2, FinalAt DEF IInv, Shapes, Renamed, Early, Late, bounds, work
    <2>3. ASSUME running \in Components PROVE Survives(running)'
      BY <2>3, <1>0, <1>2, FinalAt, AsidesAt DEF IInv, Shapes, Directories, Renamed,
         Early, Late, bounds, work, UnderWay, KeptAside, InPlace, Undone, Intact,
         Survives
    <2>4. ASSUME running \in Components PROVE KeptAside(running)'
      <3>1. final[running][pinned] = "absent" /\ Survives(running)
        BY <2>4, <1>0 DEF IInv, UnderWay, InPlace
      <3>2. QED BY <3>1, <2>4, <1>0, <1>2, NoneIsNothing DEF KeptAside, Survives,
                   IInv, Shapes
    <2>5. ASSUME running \in Components PROVE InPlace(running)'
      BY <2>5, <1>0, <1>2, FinalAt, AsidesAt DEF IInv, Shapes, Directories, Renamed,
         Early, Late, bounds, work, UnderWay, KeptAside, InPlace, Undone, Intact,
         Survives
    <2>6. ASSUME running \in Components, faults' = 0,
         owned'[running] # None PROVE Undone(running)'
      BY <2>6, <1>0, <1>2, FinalAt, AsidesAt DEF IInv, Shapes, Directories, Renamed,
         Early, Late, bounds, work, UnderWay, KeptAside, InPlace, Undone, Intact,
         Survives
    <2>7. pc \notin {"none", "begin"} /\ pc' # "none" /\ RunFrame
      BY <1>0, <1>2, MarkerAt, FinalAt, AsidesAt DEF IInv, Shapes, RunFrame,
         Directories, bounds, work
    <2>8. QED
      BY <2>1, <2>2, <2>3, <2>4, <2>5, <2>6, <2>7, StepOfRun DEF UnderWay, RunFrame
  <1>3. CASE Throw /\ UNCHANGED <<disk, work, bounds>>
    BY <1>0, <1>3, ThrowPreserves DEF IInv, Shapes, States, Early, bounds, disk, work
  <1>4. QED BY <1>1, <1>2, <1>3 DEF Promote, Step, bounds, work, disk

(* The code looks at its abort after the second rename.                    *)
LEMMA PromotedStep ==
    ASSUME IInv, Promoted
    PROVE  IInv'
  <1>0. /\ pc = "promoted" /\ UNCHANGED <<up, pinned, boot, bootPc, cleanup, owned>>
    BY DEF Promoted, Step, At, Quiet, booting, work, Authorized
  <1>1. CASE Throw /\ UNCHANGED <<disk, work, bounds, owned>>
    BY <1>0, <1>1, ThrowPreserves DEF IInv, Shapes, States, Early, disk, work, bounds
  <1>2. CASE Goto("mark") /\ UNCHANGED <<disk, work, bounds, owned>>
    <2>1. Shapes'
      BY <1>0, <1>2, FinalAt, AsidesAt, StagingAt, MarkerAt DEF IInv, Shapes, States,
         Directories, Goto, disk, bounds, work
    <2>2. Renamed'
      BY <1>0, <1>2, FinalAt DEF IInv, Shapes, Renamed, Early, Late, Goto, disk,
         bounds, work
    <2>3. ASSUME running \in Components PROVE Survives(running)'
      BY <2>3, <1>0, <1>2, FinalAt, AsidesAt DEF IInv, Shapes, Directories, Renamed,
         Early, Late, Goto, disk, bounds, work, UnderWay, KeptAside, InPlace, Undone,
         Intact, Survives
    <2>4. ASSUME running \in Components PROVE KeptAside(running)'
      BY <2>4, <1>0, <1>2, FinalAt, AsidesAt DEF IInv, Shapes, Directories, Renamed,
         Early, Late, Goto, disk, bounds, work, UnderWay, KeptAside, InPlace, Undone,
         Intact, Survives
    <2>5. ASSUME running \in Components PROVE InPlace(running)'
      BY <2>5, <1>0, <1>2, FinalAt, AsidesAt DEF IInv, Shapes, Directories, Renamed,
         Early, Late, Goto, disk, bounds, work, UnderWay, KeptAside, InPlace, Undone,
         Intact, Survives
    <2>6. ASSUME running \in Components, faults' = 0,
         owned'[running] # None PROVE Undone(running)'
      BY <2>6, <1>0, <1>2, FinalAt, AsidesAt DEF IInv, Shapes, Directories, Renamed,
         Early, Late, Goto, disk, bounds, work, UnderWay, KeptAside, InPlace, Undone,
         Intact, Survives
    <2>7. pc \notin {"none", "begin"} /\ pc' # "none" /\ RunFrame
      BY <1>0, <1>2, MarkerAt, FinalAt, AsidesAt DEF IInv, Shapes, RunFrame,
         Directories, Goto, disk, bounds, work
    <2>8. QED
      BY <2>1, <2>2, <2>3, <2>4, <2>5, <2>6, <2>7, StepOfRun DEF UnderWay, RunFrame
  <1>3. QED BY <1>1, <1>2 DEF Promoted, Step, Authorized, bounds, work, disk

(* The marker names the new version.                                       *)
LEMMA WriteMarkerStep ==
    ASSUME IInv, WriteMarker
    PROVE  IInv'
  <1>0. /\ pc = "mark" /\ UNCHANGED <<up, pinned, boot, bootPc, cleanup, owned>>
    BY DEF WriteMarker, Step, At, Quiet, booting, work
  <1>1. CASE Fault /\ Throw /\ UNCHANGED <<disk, work, damage>>
    BY <1>0, <1>1, ThrowPreserves DEF IInv, Shapes, States, Early, Fault, disk, work
  <1>2. CASE /\ marker' = [marker EXCEPT ![running] = pinned]
             /\ Goto("marked") /\ UNCHANGED <<final, asides, staging, work, bounds>>
    <2>1. Shapes'
      BY <1>0, <1>2, FinalAt, AsidesAt, StagingAt, MarkerAt DEF IInv, Shapes, States,
         Directories, Goto, bounds, work
    <2>2. Renamed'
      BY <1>0, <1>2, FinalAt DEF IInv, Shapes, Renamed, Early, Late, Goto, bounds,
         work
    <2>3. ASSUME running \in Components PROVE Survives(running)'
      BY <2>3, <1>0, <1>2, FinalAt, AsidesAt DEF IInv, Shapes, Directories, Renamed,
         Early, Late, Goto, bounds, work, UnderWay, KeptAside, InPlace, Undone,
         Intact, Survives
    <2>4. ASSUME running \in Components PROVE KeptAside(running)'
      BY <2>4, <1>0, <1>2, FinalAt, AsidesAt DEF IInv, Shapes, Directories, Renamed,
         Early, Late, Goto, bounds, work, UnderWay, KeptAside, InPlace, Undone,
         Intact, Survives
    <2>5. ASSUME running \in Components PROVE InPlace(running)'
      BY <2>5, <1>0, <1>2, FinalAt, AsidesAt DEF IInv, Shapes, Directories, Renamed,
         Early, Late, Goto, bounds, work, UnderWay, KeptAside, InPlace, Undone,
         Intact, Survives
    <2>6. ASSUME running \in Components, faults' = 0,
         owned'[running] # None PROVE Undone(running)'
      BY <2>6, <1>0, <1>2, FinalAt, AsidesAt DEF IInv, Shapes, Directories, Renamed,
         Early, Late, Goto, bounds, work, UnderWay, KeptAside, InPlace, Undone,
         Intact, Survives
    <2>7. pc \notin {"none", "begin"} /\ pc' # "none" /\ RunFrame
      BY <1>0, <1>2, MarkerAt, FinalAt, AsidesAt DEF IInv, Shapes, RunFrame,
         Directories, Goto, bounds, work
    <2>8. QED
      BY <2>1, <2>2, <2>3, <2>4, <2>5, <2>6, <2>7, StepOfRun DEF UnderWay, RunFrame
  <1>3. QED BY <1>1, <1>2 DEF WriteMarker, Step, bounds, work, disk

(* deactivate(): the marker of the older version comes first, the directory*)
(* renamed aside comes back last but for this version's marker.            *)
LEMMA RestoreOldMarkerStep ==
    ASSUME IInv, RestoreOldMarker
    PROVE  IInv'
  <1>0. /\ pc = "undo" /\ UNCHANGED <<up, pinned, boot, bootPc, cleanup, owned>>
    BY DEF RestoreOldMarker, Step, At, Quiet, booting, work
  <1>1. CASE Fault /\ Goto("failing") /\ UNCHANGED <<disk, work, damage>>
    BY <1>0, <1>1, GiveUpPreserves DEF Fault, disk, work
  <1>2. CASE /\ OldVersionMarked /\ final[running][prev] # "absent"
             /\ marker' = [marker EXCEPT ![running] = prev]
             /\ Goto("undoDelete") /\ UNCHANGED <<final, asides, staging, work, bounds>>
    <2>1. Shapes'
      BY <1>0, <1>2, FinalAt, AsidesAt, StagingAt, MarkerAt DEF IInv, Shapes, States,
         Directories, Goto, bounds, work, OldVersionMarked
    <2>2. Renamed'
      BY <1>0, <1>2, FinalAt DEF IInv, Shapes, Renamed, Early, Late, Goto, bounds,
         work, OldVersionMarked
    <2>3. ASSUME running \in Components PROVE Survives(running)'
      BY <2>3, <1>0, <1>2, FinalAt, AsidesAt DEF IInv, Shapes, Directories, Renamed,
         Early, Late, Goto, bounds, work, OldVersionMarked, UnderWay, KeptAside,
         InPlace, Undone, Intact, Survives
    <2>4. ASSUME running \in Components PROVE KeptAside(running)'
      BY <2>4, <1>0, <1>2, FinalAt, AsidesAt DEF IInv, Shapes, Directories, Renamed,
         Early, Late, Goto, bounds, work, OldVersionMarked, UnderWay, KeptAside,
         InPlace, Undone, Intact, Survives
    <2>5. ASSUME running \in Components PROVE InPlace(running)'
      BY <2>5, <1>0, <1>2, FinalAt, AsidesAt DEF IInv, Shapes, Directories, Renamed,
         Early, Late, Goto, bounds, work, OldVersionMarked, UnderWay, KeptAside,
         InPlace, Undone, Intact, Survives
    <2>6. ASSUME running \in Components, faults' = 0,
         owned'[running] # None PROVE Undone(running)'
      BY <2>6, <1>0, <1>2, FinalAt, AsidesAt DEF IInv, Shapes, Directories, Renamed,
         Early, Late, Goto, bounds, work, OldVersionMarked, UnderWay, KeptAside,
         InPlace, Undone, Intact, Survives
    <2>7. pc \notin {"none", "begin"} /\ pc' # "none" /\ RunFrame
      BY <1>0, <1>2, MarkerAt, FinalAt, AsidesAt DEF IInv, Shapes, RunFrame,
         Directories, Goto, bounds, work, OldVersionMarked
    <2>8. QED
      BY <2>1, <2>2, <2>3, <2>4, <2>5, <2>6, <2>7, StepOfRun DEF UnderWay, RunFrame
  <1>3. CASE /\ OldVersionMarked /\ final[running][prev] = "absent"
             /\ Goto("failing") /\ UNCHANGED <<disk, work, bounds>>
    <2>1. Shapes'
      BY <1>0, <1>3, FinalAt, AsidesAt, StagingAt, MarkerAt DEF IInv, Shapes, States,
         Directories, Goto, disk, bounds, work, OldVersionMarked
    <2>2. Renamed'
      BY <1>0, <1>3, FinalAt DEF IInv, Shapes, Renamed, Early, Late, Goto, disk,
         bounds, work, OldVersionMarked
    <2>3. ASSUME running \in Components PROVE Survives(running)'
      BY <2>3, <1>0, <1>3, FinalAt, AsidesAt DEF IInv, Shapes, Directories, Renamed,
         Early, Late, Goto, disk, bounds, work, OldVersionMarked, UnderWay, KeptAside,
         InPlace, Undone, Intact, Survives
    <2>4. ASSUME running \in Components PROVE KeptAside(running)'
      BY <2>4, <1>0, <1>3, FinalAt, AsidesAt DEF IInv, Shapes, Directories, Renamed,
         Early, Late, Goto, disk, bounds, work, OldVersionMarked, UnderWay, KeptAside,
         InPlace, Undone, Intact, Survives
    <2>5. ASSUME running \in Components PROVE InPlace(running)'
      BY <2>5, <1>0, <1>3, FinalAt, AsidesAt DEF IInv, Shapes, Directories, Renamed,
         Early, Late, Goto, disk, bounds, work, OldVersionMarked, UnderWay, KeptAside,
         InPlace, Undone, Intact, Survives
    <2>6. ASSUME running \in Components, faults' = 0,
         owned'[running] # None PROVE Undone(running)'
      BY <2>6, <1>0, <1>3, FinalAt, AsidesAt DEF IInv, Shapes, Directories, Renamed,
         Early, Late, Goto, disk, bounds, work, OldVersionMarked, UnderWay, KeptAside,
         InPlace, Undone, Intact, Survives
    <2>7. pc \notin {"none", "begin"} /\ pc' # "none" /\ RunFrame
      BY <1>0, <1>3, MarkerAt, FinalAt, AsidesAt DEF IInv, Shapes, RunFrame,
         Directories, Goto, disk, bounds, work, OldVersionMarked
    <2>8. QED
      BY <2>1, <2>2, <2>3, <2>4, <2>5, <2>6, <2>7, StepOfRun DEF UnderWay, RunFrame
  <1>4. CASE ~OldVersionMarked /\ Goto("undoDelete") /\ UNCHANGED <<disk, work, bounds>>
    <2>1. Shapes'
      BY <1>0, <1>4, FinalAt, AsidesAt, StagingAt, MarkerAt DEF IInv, Shapes, States,
         Directories, Goto, disk, bounds, work, OldVersionMarked
    <2>2. Renamed'
      BY <1>0, <1>4, FinalAt DEF IInv, Shapes, Renamed, Early, Late, Goto, disk,
         bounds, work, OldVersionMarked
    <2>3. ASSUME running \in Components PROVE Survives(running)'
      BY <2>3, <1>0, <1>4, FinalAt, AsidesAt DEF IInv, Shapes, Directories, Renamed,
         Early, Late, Goto, disk, bounds, work, OldVersionMarked, UnderWay, KeptAside,
         InPlace, Undone, Intact, Survives
    <2>4. ASSUME running \in Components PROVE KeptAside(running)'
      BY <2>4, <1>0, <1>4, FinalAt, AsidesAt DEF IInv, Shapes, Directories, Renamed,
         Early, Late, Goto, disk, bounds, work, OldVersionMarked, UnderWay, KeptAside,
         InPlace, Undone, Intact, Survives
    <2>5. ASSUME running \in Components PROVE InPlace(running)'
      BY <2>5, <1>0, <1>4, FinalAt, AsidesAt DEF IInv, Shapes, Directories, Renamed,
         Early, Late, Goto, disk, bounds, work, OldVersionMarked, UnderWay, KeptAside,
         InPlace, Undone, Intact, Survives
    <2>6. ASSUME running \in Components, faults' = 0,
         owned'[running] # None PROVE Undone(running)'
      BY <2>6, <1>0, <1>4, FinalAt, AsidesAt DEF IInv, Shapes, Directories, Renamed,
         Early, Late, Goto, disk, bounds, work, OldVersionMarked, UnderWay, KeptAside,
         InPlace, Undone, Intact, Survives
    <2>7. pc \notin {"none", "begin"} /\ pc' # "none" /\ RunFrame
      BY <1>0, <1>4, MarkerAt, FinalAt, AsidesAt DEF IInv, Shapes, RunFrame,
         Directories, Goto, disk, bounds, work, OldVersionMarked
    <2>8. QED
      BY <2>1, <2>2, <2>3, <2>4, <2>5, <2>6, <2>7, StepOfRun DEF UnderWay, RunFrame
  <1>5. QED BY <1>1, <1>2, <1>3, <1>4 DEF RestoreOldMarker, Step, bounds, work, disk

(* The undo begins to delete what was promoted.                            *)
LEMMA BeginDeleteStep ==
    ASSUME IInv, BeginDelete
    PROVE  IInv'
  <1>0. /\ pc = "undoDelete" /\ UNCHANGED <<up, pinned, boot, bootPc, cleanup, owned>>
    BY DEF BeginDelete, Step, At, Quiet, booting, work
  <1>1. CASE Fault /\ Goto("failing") /\ UNCHANGED <<disk, work, damage>>
    BY <1>0, <1>1, GiveUpPreserves DEF Fault, disk, work
  <1>2. CASE /\ final' = [final EXCEPT ![running][pinned] = IF @ = "absent" THEN @ ELSE "partial"]
             /\ Goto("undoDeleting") /\ UNCHANGED <<marker, asides, staging, work,
                  bounds>>
    <2>1. Shapes'
      BY <1>0, <1>2, FinalAt, AsidesAt, StagingAt, MarkerAt DEF IInv, Shapes, States,
         Directories, Goto, bounds, work
    <2>2. Renamed'
      BY <1>0, <1>2, FinalAt DEF IInv, Shapes, Renamed, Early, Late, Goto, bounds,
         work
    <2>3. ASSUME running \in Components PROVE Survives(running)'
      BY <2>3, <1>0, <1>2, FinalAt, AsidesAt DEF IInv, Shapes, Directories, Renamed,
         Early, Late, Goto, bounds, work, UnderWay, KeptAside, InPlace, Undone,
         Intact, Survives
    <2>4. ASSUME running \in Components PROVE KeptAside(running)'
      BY <2>4, <1>0, <1>2, FinalAt, AsidesAt DEF IInv, Shapes, Directories, Renamed,
         Early, Late, Goto, bounds, work, UnderWay, KeptAside, InPlace, Undone,
         Intact, Survives
    <2>5. ASSUME running \in Components PROVE InPlace(running)'
      BY <2>5, <1>0, <1>2, FinalAt, AsidesAt DEF IInv, Shapes, Directories, Renamed,
         Early, Late, Goto, bounds, work, UnderWay, KeptAside, InPlace, Undone,
         Intact, Survives
    <2>6. ASSUME running \in Components, faults' = 0,
         owned'[running] # None PROVE Undone(running)'
      BY <2>6, <1>0, <1>2, FinalAt, AsidesAt DEF IInv, Shapes, Directories, Renamed,
         Early, Late, Goto, bounds, work, UnderWay, KeptAside, InPlace, Undone,
         Intact, Survives
    <2>7. pc \notin {"none", "begin"} /\ pc' # "none" /\ RunFrame
      BY <1>0, <1>2, MarkerAt, FinalAt, AsidesAt DEF IInv, Shapes, RunFrame,
         Directories, Goto, bounds, work
    <2>8. QED
      BY <2>1, <2>2, <2>3, <2>4, <2>5, <2>6, <2>7, StepOfRun DEF UnderWay, RunFrame
  <1>3. QED BY <1>1, <1>2 DEF BeginDelete, Step, bounds, work, disk

(* The undo renames the old directory back.                                *)
LEMMA RestoreAsideStep ==
    ASSUME IInv, RestoreAside
    PROVE  IInv'
  <1>0. /\ pc = "undoAside" /\ UNCHANGED <<up, pinned, boot, bootPc, cleanup, owned>>
    BY DEF RestoreAside, Step, At, Quiet, booting, work
  <1>1. CASE Fault /\ Goto("failing") /\ UNCHANGED <<disk, work, damage>>
    BY <1>0, <1>1, GiveUpPreserves DEF Fault, disk, work
  <1>2. CASE /\ asides[running][pinned] > 0
             /\ final' = [final EXCEPT ![running][pinned] = "whole"]
             /\ asides' = [asides EXCEPT ![running][pinned] = @ - 1]
             /\ Goto(IF OldVersionMarked THEN "failing" ELSE "undoMarker")
             /\ UNCHANGED <<marker, staging, work, bounds>>
    <2>1. Shapes'
      <3> DEFINE n == asides[running][pinned] - 1
      <3>1. running \in Components => n \in Nat
        BY <1>2 DEF IInv, Shapes
      <3>2. asides' = [asides EXCEPT ![running][pinned] = n]
        BY <1>2
      <3> HIDE DEF n
      <3>3. asides' \in [Components -> [Versions -> Nat]]
        BY <3>1, <3>2, AsidesAt DEF IInv
      <3>4. final' \in [Components -> [Versions -> Directories]]
        BY <1>2, FinalAt DEF IInv, Directories
      <3>5. QED BY <3>3, <3>4, <1>0, <1>2 DEF IInv, Shapes, bounds, work, Goto
    <2>2. Renamed'
      BY <1>0, <1>2, FinalAt DEF IInv, Shapes, Renamed, Early, Late, Goto, bounds,
         work, OldVersionMarked
    <2>3. ASSUME running \in Components PROVE Survives(running)'
      BY <2>3, <1>0, <1>2, FinalAt, AsidesAt DEF IInv, Shapes, Directories, Renamed,
         Early, Late, Goto, bounds, work, OldVersionMarked, UnderWay, KeptAside,
         InPlace, Undone, Intact, Survives
    <2>4. ASSUME running \in Components PROVE KeptAside(running)'
      BY <2>4, <1>0, <1>2, FinalAt, AsidesAt DEF IInv, Shapes, Directories, Renamed,
         Early, Late, Goto, bounds, work, OldVersionMarked, UnderWay, KeptAside,
         InPlace, Undone, Intact, Survives
    <2>5. ASSUME running \in Components PROVE InPlace(running)'
      BY <2>5, <1>0, <1>2, FinalAt, AsidesAt DEF IInv, Shapes, Directories, Renamed,
         Early, Late, Goto, bounds, work, OldVersionMarked, UnderWay, KeptAside,
         InPlace, Undone, Intact, Survives
    <2>6. ASSUME running \in Components, faults' = 0,
         owned'[running] # None PROVE Undone(running)'
      BY <2>6, <1>0, <1>2, FinalAt, AsidesAt DEF IInv, Shapes, Directories, Renamed,
         Early, Late, Goto, bounds, work, OldVersionMarked, UnderWay, KeptAside,
         InPlace, Undone, Intact, Survives
    <2>7. pc \notin {"none", "begin"} /\ pc' # "none" /\ RunFrame
      BY <1>0, <1>2, MarkerAt, FinalAt, AsidesAt DEF IInv, Shapes, RunFrame,
         Directories, Goto, bounds, work, OldVersionMarked
    <2>8. QED
      BY <2>1, <2>2, <2>3, <2>4, <2>5, <2>6, <2>7, StepOfRun DEF UnderWay, RunFrame
  <1>3. CASE /\ ~(asides[running][pinned] > 0)
             /\ Goto(IF OldVersionMarked THEN "failing" ELSE "undoMarker")
             /\ UNCHANGED <<disk, work, bounds>>
    <2>1. Shapes'
      BY <1>0, <1>3, FinalAt, AsidesAt, StagingAt, MarkerAt DEF IInv, Shapes, States,
         Directories, Goto, disk, bounds, work, OldVersionMarked
    <2>2. Renamed'
      BY <1>0, <1>3, FinalAt DEF IInv, Shapes, Renamed, Early, Late, Goto, disk,
         bounds, work, OldVersionMarked
    <2>3. ASSUME running \in Components PROVE Survives(running)'
      BY <2>3, <1>0, <1>3, FinalAt, AsidesAt DEF IInv, Shapes, Directories, Renamed,
         Early, Late, Goto, disk, bounds, work, OldVersionMarked, UnderWay, KeptAside,
         InPlace, Undone, Intact, Survives
    <2>4. ASSUME running \in Components PROVE KeptAside(running)'
      BY <2>4, <1>0, <1>3, FinalAt, AsidesAt DEF IInv, Shapes, Directories, Renamed,
         Early, Late, Goto, disk, bounds, work, OldVersionMarked, UnderWay, KeptAside,
         InPlace, Undone, Intact, Survives
    <2>5. ASSUME running \in Components PROVE InPlace(running)'
      BY <2>5, <1>0, <1>3, FinalAt, AsidesAt DEF IInv, Shapes, Directories, Renamed,
         Early, Late, Goto, disk, bounds, work, OldVersionMarked, UnderWay, KeptAside,
         InPlace, Undone, Intact, Survives
    <2>6. ASSUME running \in Components, faults' = 0,
         owned'[running] # None PROVE Undone(running)'
      BY <2>6, <1>0, <1>3, FinalAt, AsidesAt DEF IInv, Shapes, Directories, Renamed,
         Early, Late, Goto, disk, bounds, work, OldVersionMarked, UnderWay, KeptAside,
         InPlace, Undone, Intact, Survives
    <2>7. pc \notin {"none", "begin"} /\ pc' # "none" /\ RunFrame
      BY <1>0, <1>3, MarkerAt, FinalAt, AsidesAt DEF IInv, Shapes, RunFrame,
         Directories, Goto, disk, bounds, work, OldVersionMarked
    <2>8. QED
      BY <2>1, <2>2, <2>3, <2>4, <2>5, <2>6, <2>7, StepOfRun DEF UnderWay, RunFrame
  <1>4. QED BY <1>1, <1>2, <1>3 DEF RestoreAside, Step, bounds, work, disk

(* The undo writes the marker of the restored directory.                   *)
LEMMA RestoreMarkerStep ==
    ASSUME IInv, RestoreMarker
    PROVE  IInv'
  <1>0. /\ pc = "undoMarker" /\ UNCHANGED <<up, pinned, boot, bootPc, cleanup, owned>>
    BY DEF RestoreMarker, Step, At, Quiet, booting, work
  <1>1. CASE Fault /\ Goto("failing") /\ UNCHANGED <<disk, work, damage>>
    BY <1>0, <1>1, GiveUpPreserves DEF Fault, disk, work
  <1>2. CASE /\ marker' = [marker EXCEPT ![running] =
                              IF final[running][pinned] # "absent" THEN prev ELSE None]
             /\ Goto("failing") /\ UNCHANGED <<final, asides, staging, work, bounds>>
    <2>1. Shapes'
      BY <1>0, <1>2, FinalAt, AsidesAt, StagingAt, MarkerAt DEF IInv, Shapes, States,
         Directories, Goto, bounds, work
    <2>2. Renamed'
      BY <1>0, <1>2, FinalAt DEF IInv, Shapes, Renamed, Early, Late, Goto, bounds,
         work
    <2>3. ASSUME running \in Components PROVE Survives(running)'
      BY <2>3, <1>0, <1>2, FinalAt, AsidesAt DEF IInv, Shapes, Directories, Renamed,
         Early, Late, Goto, bounds, work, UnderWay, KeptAside, InPlace, Undone,
         Intact, Survives
    <2>4. ASSUME running \in Components PROVE KeptAside(running)'
      BY <2>4, <1>0, <1>2, FinalAt, AsidesAt DEF IInv, Shapes, Directories, Renamed,
         Early, Late, Goto, bounds, work, UnderWay, KeptAside, InPlace, Undone,
         Intact, Survives
    <2>5. ASSUME running \in Components PROVE InPlace(running)'
      BY <2>5, <1>0, <1>2, FinalAt, AsidesAt DEF IInv, Shapes, Directories, Renamed,
         Early, Late, Goto, bounds, work, UnderWay, KeptAside, InPlace, Undone,
         Intact, Survives
    <2>6. ASSUME running \in Components, faults' = 0,
         owned'[running] # None PROVE Undone(running)'
      BY <2>6, <1>0, <1>2, FinalAt, AsidesAt DEF IInv, Shapes, Directories, Renamed,
         Early, Late, Goto, bounds, work, UnderWay, KeptAside, InPlace, Undone,
         Intact, Survives
    <2>7. pc \notin {"none", "begin"} /\ pc' # "none" /\ RunFrame
      BY <1>0, <1>2, MarkerAt, FinalAt, AsidesAt DEF IInv, Shapes, RunFrame,
         Directories, Goto, bounds, work
    <2>8. QED
      BY <2>1, <2>2, <2>3, <2>4, <2>5, <2>6, <2>7, StepOfRun DEF UnderWay, RunFrame
  <1>3. QED BY <1>1, <1>2 DEF RestoreMarker, Step, bounds, work, disk

(* What was promoted is gone.                                              *)
LEMMA FinishDeleteStep ==
    ASSUME IInv, FinishDelete
    PROVE  IInv'
  <1>0. /\ pc = "undoDeleting" /\ UNCHANGED <<up, pinned, boot, bootPc, cleanup, owned>>
    BY DEF FinishDelete, Step, At, Quiet, booting, work
  <1>1. CASE /\ final' = [final EXCEPT ![running][pinned] = "absent"]
             /\ Goto("undoAside") /\ UNCHANGED <<marker, asides, staging, work, bounds>>
    <2>1. Shapes'
      BY <1>0, <1>1, FinalAt, AsidesAt, StagingAt, MarkerAt DEF IInv, Shapes, States,
         Directories, Goto, bounds, work
    <2>2. Renamed'
      BY <1>0, <1>1, FinalAt DEF IInv, Shapes, Renamed, Early, Late, Goto, bounds,
         work
    <2>3. ASSUME running \in Components PROVE Survives(running)'
      BY <2>3, <1>0, <1>1, FinalAt, AsidesAt DEF IInv, Shapes, Directories, Renamed,
         Early, Late, Goto, bounds, work, UnderWay, KeptAside, InPlace, Undone,
         Intact, Survives
    <2>4. ASSUME running \in Components PROVE KeptAside(running)'
      BY <2>4, <1>0, <1>1, FinalAt, AsidesAt DEF IInv, Shapes, Directories, Renamed,
         Early, Late, Goto, bounds, work, UnderWay, KeptAside, InPlace, Undone,
         Intact, Survives
    <2>5. ASSUME running \in Components PROVE InPlace(running)'
      BY <2>5, <1>0, <1>1, FinalAt, AsidesAt DEF IInv, Shapes, Directories, Renamed,
         Early, Late, Goto, bounds, work, UnderWay, KeptAside, InPlace, Undone,
         Intact, Survives
    <2>6. ASSUME running \in Components, faults' = 0,
         owned'[running] # None PROVE Undone(running)'
      BY <2>6, <1>0, <1>1, FinalAt, AsidesAt DEF IInv, Shapes, Directories, Renamed,
         Early, Late, Goto, bounds, work, UnderWay, KeptAside, InPlace, Undone,
         Intact, Survives
    <2>7. pc \notin {"none", "begin"} /\ pc' # "none" /\ RunFrame
      BY <1>0, <1>1, MarkerAt, FinalAt, AsidesAt DEF IInv, Shapes, RunFrame,
         Directories, Goto, bounds, work
    <2>8. QED
      BY <2>1, <2>2, <2>3, <2>4, <2>5, <2>6, <2>7, StepOfRun DEF UnderWay, RunFrame
  <1>2. QED BY <1>1 DEF FinishDelete, Step, bounds, work

(* The steps that end a run or may end it.                                 *)
LEMMA BeginStep ==
    ASSUME IInv, Begin
    PROVE  IInv'
  <1>0. /\ up /\ boot = <<>> /\ pc = "begin" /\ running \notin cleanup
        /\ UNCHANGED <<disk, up, pinned, boot, bootPc, cleanup, bounds>>
    BY DEF Begin, Step, At, Quiet, booting, IInv, Control
  <1>1. CASE EndRun("ready") /\ marker[running] = pinned /\ final[running][pinned] = "whole"
    <2> DEFINE s == [state EXCEPT ![running] = "ready"]
    <2>1. s \in [Components -> States]
      BY DEF IInv, Shapes, States
    <2>2. \A c \in Components : s[c] = "ready" /\ faults' = 0 => Active(c)
      BY <1>0, <1>1 DEF IInv, Shapes, Active, bounds
    <2>3. PumpWith(queue, s, forced)
      BY <1>1 DEF EndRun
    <2> HIDE DEF s
    <2>4. QED BY <1>0, <2>1, <2>2, <2>3, PumpPreserves DEF IInv, Shapes, disk, bounds
  <1>2. CASE Goto("download") /\ UNCHANGED <<state, owned>>
    <2>1. Shapes'
      BY <1>0, <1>2 DEF IInv, Shapes, Goto, disk, bounds
    <2>2. Renamed'
      BY <1>0, <1>2 DEF IInv, Renamed, Early, Late, Goto
    <2>3. ASSUME running \in Components PROVE Survives(running)' /\ UnderWay(running)'
      BY <2>3, <1>0, <1>2 DEF IInv, Survives, UnderWay, KeptAside, InPlace, Undone,
         Intact, Renamed, Early, Late, Goto, disk, bounds
    <2>4. pc' # "none" /\ RunFrame
      BY <1>0, <1>2 DEF Goto, RunFrame, disk, bounds
    <2>5. QED BY <1>0, <2>1, <2>2, <2>3, <2>4, StepOfRun
  <1>3. QED BY <1>1, <1>2 DEF Begin

(* The run ends ready, unless an abort came before.                        *)
LEMMA MakeReadyStep ==
    ASSUME IInv, MakeReady
    PROVE  IInv'
  <1>0. /\ up /\ boot = <<>> /\ pc = "marked"
        /\ UNCHANGED <<disk, up, pinned, boot, bootPc, cleanup, bounds>>
    BY DEF MakeReady, Step, At, Quiet, booting, IInv, Control, work
  <1>1. CASE EndRun("ready")
    <2> DEFINE s == [state EXCEPT ![running] = "ready"]
    <2>1. s \in [Components -> States]
      BY DEF IInv, Shapes, States
    <2>2. \A c \in Components : s[c] = "ready" /\ faults' = 0 => Active(c)
      BY <1>0 DEF IInv, Shapes, Active, UnderWay, InPlace, bounds
    <2>3. PumpWith(queue, s, forced)
      BY <1>1 DEF EndRun
    <2> HIDE DEF s
    <2>4. QED BY <1>0, <2>1, <2>2, <2>3, PumpPreserves DEF IInv, Shapes, disk, bounds
  <1>2. CASE /\ SetState(running, "ready") /\ pc' = "undo"
             /\ UNCHANGED <<running, prev, touched, owned>>
    <2>1. Shapes'
      BY <1>0, <1>2 DEF IInv, Shapes, SetState, States, disk, bounds
    <2>2. Renamed'
      BY <1>0, <1>2 DEF IInv, Renamed, Early, Late
    <2>3. ASSUME running \in Components PROVE Survives(running)' /\ UnderWay(running)'
      BY <2>3, <1>0, <1>2 DEF IInv, Survives, UnderWay, KeptAside, InPlace, Undone,
         Intact, Renamed, Early, Late, disk, bounds
    <2>4. pc' # "none" /\ RunFrame
      BY <1>0, <1>2 DEF IInv, Shapes, RunFrame, SetState, disk, bounds
    <2>5. QED BY <1>0, <2>1, <2>2, <2>3, <2>4, StepOfRun
  <1>3. CASE Throw /\ UNCHANGED <<work, owned>>
    BY <1>0, <1>3, ThrowPreserves DEF IInv, Shapes, Early, disk, work, bounds
  <1>4. QED BY <1>1, <1>2, <1>3 DEF MakeReady

(* run()'s catch tells how the run ended.                                  *)
LEMMA FailStep ==
    ASSUME IInv, Fail
    PROVE  IInv'
  <1>0. /\ up /\ boot = <<>> /\ pc = "failing"
        /\ UNCHANGED <<marker, final, asides, up, pinned, boot, bootPc, cleanup>>
    BY DEF Fail, Step, At, Quiet, booting, IInv, Control
  <1>1. staging' \in [Components -> [Versions -> BOOLEAN]]
    <2>1. CASE staging' = staging
      BY <2>1 DEF IInv, Shapes
    <2>2. CASE staging' = [staging EXCEPT ![running] = [v \in Versions |-> FALSE]]
      BY <2>2 DEF IInv, Shapes
    <2>3. CASE staging' = IF abort = "cancel"
                          THEN [staging EXCEPT ![running] = [v \in Versions |-> FALSE]]
                          ELSE staging
      BY <2>1, <2>2, <2>3
    <2>4. QED BY <2>1, <2>3 DEF Fail
  <1>2. CASE EndRun(Outcome) /\ UNCHANGED bounds
    <2> DEFINE s == [state EXCEPT ![running] = Outcome]
    <2>1. Outcome \in States \ {"ready"}
      BY Zenon DEF Outcome, States
    <2>2. s \in [Components -> States]
      BY <2>1 DEF IInv, Shapes
    <2>3. \A c \in Components : s[c] = "ready" /\ faults' = 0 => Active(c)
      BY <1>0, <1>2, <2>1 DEF IInv, Shapes, bounds
    <2>4. PumpWith(queue, s, forced)
      BY <1>2 DEF EndRun
    <2> HIDE DEF s
    <2>5. QED BY <1>0, <1>1, <1>2, <2>2, <2>3, <2>4, PumpPreserves DEF IInv, Shapes,
                 bounds
  <1>3. CASE EndRun(state[running]) /\ Fault
    <2> DEFINE s == [state EXCEPT ![running] = state[running]]
    <2>1. s \in [Components -> States]
      BY DEF IInv, Shapes
    <2>2. faults' \in Nat /\ faults' # 0
      BY <1>3 DEF Fault, IInv, Shapes
    <2>3. PumpWith(queue, s, forced)
      BY <1>3 DEF EndRun
    <2> HIDE DEF s
    <2>4. QED BY <1>0, <1>1, <2>1, <2>2, <2>3, PumpPreserves
  <1>4. QED BY <1>2, <1>3 DEF Fail

(* The methods of the engine.                                              *)
LEMMA RequestStep ==
    ASSUME IInv, up, boot = <<>>, NEW c \in Components, c # running, NEW q, NEW f,
           Request(c, q, f)
    PROVE  IInv'
  <1> DEFINE s == [state EXCEPT ![c] = "queued"]
  <1>0. UNCHANGED <<disk, up, pinned, boot, bootPc, cleanup, bounds>>
    BY DEF Request, booting
  <1>1. s \in [Components -> States]
    BY DEF IInv, Shapes, States
  <1>2. \A d \in Components : s[d] = "ready" => d # c /\ state[d] = "ready"
    BY DEF IInv, Shapes
  <1>3. CASE running = None
    <2>1. PumpWith(q, s, f)
      BY <1>3 DEF Request
    <2>2. \A d \in Components : s[d] = "ready" /\ faults' = 0 => Active(d)
      BY <1>0, <1>2, <1>3, NoneIsNothing DEF IInv, bounds
    <2> HIDE DEF s
    <2>3. QED BY <1>0, <1>1, <2>1, <2>2, PumpPreserves DEF IInv, Shapes, disk, bounds
  <1>4. CASE running # None
    <2>1. state' = s /\ UNCHANGED <<run, owned>>
      BY <1>4 DEF Request, SetState
    <2> HIDE DEF s
    <2>2. QED BY <1>0, <1>1, <1>2, <2>1, QuietPreserves DEF disk, bounds, run, IInv,
                 Shapes
  <1>5. QED BY <1>3, <1>4

(* pause() changes no file and ends no run.                                *)
LEMMA PauseStep ==
    ASSUME IInv, NEW c \in Components, Pause(c)
    PROVE  IInv'
  <1>1. state' \in [Components -> States]
    BY DEF Pause, SetState, IInv, Shapes, States
  <1>2. \A d \in Components : state'[d] = "ready" => state[d] = "ready"
    BY DEF Pause, SetState, IInv, Shapes
  <1>3. QED
    BY <1>1, <1>2, QuietPreserves DEF Pause, disk, bounds, booting, IInv, Shapes

(* cancel() of a waiting pack leaves a deletion behind, never one a run    *)
(* meets.                                                                  *)
LEMMA CancelStep ==
    ASSUME IInv, NEW c \in Components, Cancel(c)
    PROVE  IInv'
  <1>1. state' \in [Components -> States]
    BY DEF Cancel, CancelRunning, CancelWaiting, SetState, IInv, Shapes, States
  <1>2. \A d \in Components : state'[d] = "ready" => state[d] = "ready"
    BY DEF Cancel, CancelRunning, CancelWaiting, SetState, IInv, Shapes
  <1>3. cleanup' = cleanup \/ (cleanup' = cleanup \cup {c} /\ c # running)
    <2>1. CASE CancelRunning(c)
      BY <2>1 DEF CancelRunning
    <2>2. CASE CancelWaiting(c)
      BY <2>2 DEF CancelWaiting
    <2>3. QED BY <2>1, <2>2 DEF Cancel
  <1>4. QED
    BY <1>1, <1>2, <1>3, QuietPreserves DEF Cancel, disk, bounds, booting, IInv,
       Shapes

(* A deletion a cancel left behind is done, or one nobody waits for goes   *)
(* on, perhaps beside the run of its pack.                                 *)
LEMMA CleanUpStep ==
    ASSUME IInv, NEW c \in Components, CleanUp(c) \/ CleanUpStray(c)
    PROVE  IInv'
  <1>1. Deletes(c) /\ up /\ cleanup' \subseteq cleanup
    BY DEF CleanUp, CleanUpStray
  <1>2. staging' \in [Components -> [Versions -> BOOLEAN]]
    <2> DEFINE none == [v \in Versions |-> FALSE]
    <2>1. none \in [Versions -> BOOLEAN] /\ staging \in [Components -> [Versions -> BOOLEAN]]
      BY DEF IInv, Shapes
    <2>2. staging' = staging \/ staging' = [staging EXCEPT ![c] = none]
      BY <1>1 DEF Deletes
    <2> HIDE DEF none
    <2>3. QED BY <2>1, <2>2
  <1>3. UNCHANGED <<marker, final, asides, up, pinned, boot, bootPc,
                    running, pc, prev, touched, owned, faults>> /\ state' = state
    BY <1>1 DEF Deletes, bounds, booting, run
  <1>4. state' \in [Components -> States] /\ cleanup' \subseteq Components
    BY <1>1, <1>3 DEF IInv, Shapes
  <1>5. QED
    BY <1>1, <1>2, <1>3, <1>4, QuietPreserves

(* The process dies and starts again, perhaps with another version pinned. *)
LEMMA CrashStep ==
    ASSUME IInv, Crash
    PROVE  IInv'
  <1>1. Shapes'
    BY NoneIsNothing DEF Crash, IInv, Shapes, States, disk, bounds
  <1>2. Control' /\ Renamed' /\ LatestCleanupIsAwaited'
    BY NoneIsNothing DEF Crash, Control, Renamed, Early, Late, LatestCleanupIsAwaited
  <1>3. \A c \in Components : Survives(c)'
    BY DEF Crash, IInv, Survives, disk
  <1>4. running' \notin Components /\ boot' = <<>> /\ ~up'
    BY NoneIsNothing DEF Crash
  <1>5. QED BY <1>1, <1>2, <1>3, <1>4 DEF IInv

(* A new process starts, idle or with initialise().                        *)
LEMMA StartStep ==
    ASSUME IInv, Start
    PROVE  IInv'
  <1>0. bootPc = "look" /\ pc = "none" /\ \A c \in Components : state[c] = "not-installed"
    BY DEF Start, IInv, Control
  <1>1. Shapes'
    BY DEF Start, IInv, Shapes, disk, bounds, work, run
  <1>2. Control' /\ Renamed' /\ LatestCleanupIsAwaited'
    BY <1>0 DEF Start, IInv, Control, Renamed, Early, Late, LatestCleanupIsAwaited, work,
       run
  <1>3. ASSUME NEW c \in Components
        PROVE  /\ Survives(c)' /\ Visited(c)' /\ running' # c /\ state'[c] # "ready"
    BY <1>0 DEF Start, IInv, Control, Survives, Visited, disk, work, run
  <1>4. QED BY <1>1, <1>2, <1>3 DEF IInv

(* A step of initialise() preserves the invariant if it does so for the    *)
(* pack it visits.                                                         *)
LEMMA BootPart ==
    ASSUME IInv, boot # <<>>, up,
           UNCHANGED <<staging, up, pinned, cleanup, running, pc, prev, touched,
                owned, faults>>,
           NEW c, c = Head(boot),
           \A d \in Components : d # c =>
                /\ marker'[d] = marker[d] /\ final'[d] = final[d] /\ asides'[d] = asides[d]
                /\ state'[d] = "ready" => state[d] = "ready",
           Shapes',
           c \in Components =>
                /\ Survives(c)'
                /\ state'[c] = "ready" /\ faults' = 0 => Active(c)',
           \/ boot' = boot /\ (c \in Components => Visited(c)')
           \/ bootPc' = "look"
    PROVE  IInv'
  <1>1. pc = "none" /\ running \notin Components
    BY DEF IInv, Control
  <1>2. Control' /\ Renamed' /\ LatestCleanupIsAwaited'
    BY <1>1 DEF Control, Renamed, Early, Late, LatestCleanupIsAwaited, IInv
  <1>3. ASSUME NEW d \in Components
        PROVE  /\ Survives(d)'
               /\ running' # d
               /\ boot' # <<>> /\ Head(boot') = d => Visited(d)'
               /\ up' /\ state'[d] = "ready" /\ faults' = 0 => Active(d)'
    <2>1. CASE d = c
      BY <1>1, <2>1 DEF Visited
    <2>2. CASE d # c
      BY <1>1, <2>2 DEF Visited, IInv, Survives, Active
    <2>3. QED BY <2>1, <2>2
  <1>4. QED BY <1>2, <1>3 DEF IInv

(* What is known of the pack initialise() visits.                          *)
LEMMA BootCurrent ==
    ASSUME IInv, boot # <<>>, up, NEW c \in Components, c = Head(boot)
    PROVE  /\ Survives(c) /\ Visited(c)
           /\ state[c] = "ready" /\ faults = 0 => Active(c)
  BY DEF IInv, Control

(* The steps of initialise().                                              *)
LEMMA BootLookStep ==
    ASSUME IInv, BootLook
    PROVE  IInv'
  <1> SUFFICES ASSUME NEW c, c = Head(boot) PROVE IInv'
    OBVIOUS
  <1>0. /\ boot # <<>> /\ up /\ bootPc = "look"
        /\ UNCHANGED <<marker, staging, up, pinned, state, cleanup, running, pc,
             prev, touched, owned, faults>>
        /\ bootPc' = "look" \/ (bootPc' = "check" /\ boot' = boot)
    BY DEF BootLook, Visiting, NextBoot, work, run, bounds
  <1>1. CASE final' = final /\ asides' = asides
    <2>1. Shapes'
      BY <1>0, <1>1 DEF IInv, Shapes
    <2>2. c \in Components =>
            /\ Survives(c)'
            /\ state'[c] = "ready" /\ faults' = 0 => Active(c)'
      BY <1>0, <1>1, BootCurrent DEF Survives, Active
    <2>3. QED BY <1>0, <1>1, <2>1, <2>2, BootPart DEF Visited
  <1>2. CASE /\ final[c][pinned] = "absent" /\ asides[c][pinned] > 0
             /\ final' = [final EXCEPT ![c][pinned] = "whole"]
             /\ asides' = [asides EXCEPT ![c][pinned] = @ - 1]
    <2> DEFINE n == asides[c][pinned] - 1
    <2>1. c \in Components => n \in Nat
      BY <1>2 DEF IInv, Shapes
    <2>2. asides' = [asides EXCEPT ![c][pinned] = n]
      BY <1>2
    <2> HIDE DEF n
    <2>3. /\ asides' \in [Components -> [Versions -> Nat]]
          /\ \A d \in Components, w \in Versions :
                asides'[d][w] = IF d = c /\ w = pinned THEN n ELSE asides[d][w]
      BY <2>1, <2>2, AsidesAt DEF IInv
    <2>4. /\ final' \in [Components -> [Versions -> Directories]]
          /\ \A d \in Components, w \in Versions :
                final'[d][w] = IF d = c /\ w = pinned THEN "whole" ELSE final[d][w]
      <3>1. "whole" \in Directories
        BY DEF Directories
      <3>2. QED BY <1>2, <3>1, FinalAt DEF IInv
    <2>5. \A d \in Components : d # c => final'[d] = final[d] /\ asides'[d] = asides[d]
      BY <1>2 DEF IInv, Shapes
    <2>6. Shapes'
      BY <1>0, <2>3, <2>4 DEF IInv, Shapes
    <2>7. c \in Components => Survives(c)'
      BY <1>0, <2>3, <2>4, BootCurrent DEF IInv, Shapes, Survives
    <2>8. c \in Components /\ faults' = 0 => state'[c] # "ready"
      BY <1>0, <1>2, BootCurrent DEF Active
    <2>9. QED BY <1>0, <2>5, <2>6, <2>7, <2>8, BootPart DEF Visited
  <1>3. QED BY <1>1, <1>2 DEF BootLook

(* initialise() checks the directory of the pinned version.                *)
LEMMA BootCheckStep ==
    ASSUME IInv, BootCheck
    PROVE  IInv'
  <1> SUFFICES ASSUME NEW c, c = Head(boot) PROVE IInv'
    OBVIOUS
  <1>0. /\ boot # <<>> /\ up
        /\ UNCHANGED <<marker, final, asides, staging, up, pinned, cleanup, running,
             pc, prev, touched, owned, faults>>
    BY DEF BootCheck, Visiting, disk, run, bounds
  <1>1. CASE /\ final[c][pinned] = "whole" /\ marker[c] = pinned
             /\ SetState(c, "ready") /\ bootPc' = "prune" /\ boot' = boot
    <2>1. Shapes'
      BY <1>0, <1>1 DEF IInv, Shapes, SetState, States
    <2>2. \A d \in Components : d # c => state'[d] = state[d]
      BY <1>1 DEF IInv, Shapes, SetState
    <2>3. c \in Components => Survives(c)' /\ Active(c)' /\ Visited(c)'
      BY <1>0, <1>1, BootCurrent DEF Survives, Active, Visited
    <2>4. QED BY <1>0, <1>1, <2>1, <2>2, <2>3, BootPart
  <1>2. CASE /\ final[c][pinned] = "whole"
             /\ bootPc' = "mark" /\ UNCHANGED <<boot, state>>
    <2>1. Shapes'
      BY <1>0, <1>2 DEF IInv, Shapes
    <2>2. c \in Components =>
            /\ Survives(c)' /\ Visited(c)'
            /\ state'[c] = "ready" /\ faults' = 0 => Active(c)'
      BY <1>0, <1>2, BootCurrent DEF Survives, Active, Visited
    <2>3. QED BY <1>0, <1>2, <2>1, <2>2, BootPart
  <1>3. CASE bootPc' = "look" /\ state' = state
    <2>1. Shapes'
      BY <1>0, <1>3 DEF IInv, Shapes
    <2>2. c \in Components =>
            /\ Survives(c)'
            /\ state'[c] = "ready" /\ faults' = 0 => Active(c)'
      BY <1>0, <1>3, BootCurrent DEF Survives, Active
    <2>3. QED BY <1>0, <1>3, <2>1, <2>2, BootPart
  <1>4. QED BY <1>1, <1>2, <1>3 DEF BootCheck, NextBoot

(* initialise() writes the marker of a directory it found whole.           *)
LEMMA BootMarkStep ==
    ASSUME IInv, BootMark
    PROVE  IInv'
  <1> SUFFICES ASSUME NEW c, c = Head(boot) PROVE IInv'
    OBVIOUS
  <1>0. /\ boot # <<>> /\ up /\ bootPc = "mark" /\ bootPc' = "prune" /\ boot' = boot
        /\ marker' = [marker EXCEPT ![c] = pinned] /\ SetState(c, "ready")
        /\ UNCHANGED <<final, asides, staging, up, pinned, cleanup, running, pc,
             prev, touched, owned, faults>>
    BY DEF BootMark, Visiting, run, bounds
  <1>1. Shapes'
    BY <1>0, MarkerAt DEF IInv, Shapes, SetState, States
  <1>2. \A d \in Components : d # c => state'[d] = state[d] /\ marker'[d] = marker[d]
    BY <1>0 DEF IInv, Shapes, SetState
  <1>3. c \in Components => Survives(c)' /\ Active(c)' /\ Visited(c)'
    <2>1. c \in Components => Visited(c) /\ Survives(c) /\ marker'[c] = pinned
      BY <1>0, BootCurrent DEF IInv, Shapes
    <2>2. QED BY <2>1, <1>0 DEF Survives, Active, Visited
  <1>4. QED BY <1>0, <1>1, <1>2, <1>3, BootPart

(* initialise() removes what is left of other versions.                    *)
LEMMA BootPruneStep ==
    ASSUME IInv, BootPrune
    PROVE  IInv'
  <1> SUFFICES ASSUME NEW c, c = Head(boot) PROVE IInv'
    OBVIOUS
  <1>0. /\ boot # <<>> /\ up /\ bootPc = "prune" /\ bootPc' = "look"
        /\ asides' = [asides EXCEPT ![c][pinned] = 0]
        /\ UNCHANGED <<marker, final, staging, up, pinned, state, cleanup, running,
             pc, prev, touched, owned, faults>>
    BY DEF BootPrune, Visiting, NextBoot, work, run, bounds
  <1>1. c \in Components => Visited(c)
    BY <1>0 DEF IInv
  <1>2. /\ asides' \in [Components -> [Versions -> Nat]]
        /\ \A d \in Components, w \in Versions :
              asides'[d][w] = IF d = c /\ w = pinned THEN 0 ELSE asides[d][w]
    BY <1>0, AsidesAt DEF IInv
  <1>3. Shapes'
    BY <1>0, <1>2 DEF IInv, Shapes
  <1>4. \A d \in Components : d # c => asides'[d] = asides[d]
    BY <1>0 DEF IInv, Shapes
  <1>5. c \in Components =>
          /\ Survives(c)'
          /\ state'[c] = "ready" /\ faults' = 0 => Active(c)'
    BY <1>0, <1>1, <1>2, BootCurrent DEF IInv, Shapes, Survives, Active, Visited
  <1>6. QED BY <1>0, <1>3, <1>4, <1>5, BootPart

(* Something else changes a file: what it breaks is no longer accounted for. *)
LEMMA DamageStep ==
    ASSUME IInv, NEW c \in Components, NEW v \in Versions, Damage(c, v)
    PROVE  IInv'
  <1>0. UNCHANGED <<marker, asides, up, pinned, boot, bootPc, state, cleanup,
       running, pc, prev, touched, faults>>
    BY DEF Damage, booting, work, run
  <1>1. CASE /\ final[c][v] = "whole"
             /\ final' = [final EXCEPT ![c][v] = "damaged"]
             /\ owned' = [owned EXCEPT ![c] = IF @ = v THEN None ELSE @]
             /\ staging' = staging
    <2>1. /\ final' \in [Components -> [Versions -> Directories]]
          /\ \A d \in Components, w \in Versions :
                final'[d][w] = IF d = c /\ w = v THEN "damaged" ELSE final[d][w]
      <3>1. "damaged" \in Directories
        BY DEF Directories
      <3>2. QED BY <1>1, <3>1, FinalAt DEF IInv
    <2>2. \A d \in Components : owned'[d] = IF d = c /\ owned[d] = v THEN None ELSE owned[d]
      BY <1>1 DEF IInv, Shapes
    <2>3. Shapes'
      BY <1>0, <1>1, <2>1 DEF IInv, Shapes
    <2>4. Control' /\ Renamed' /\ LatestCleanupIsAwaited'
      BY <1>0 DEF Control, Renamed, LatestCleanupIsAwaited, IInv
    <2>5. ASSUME NEW d \in Components
          PROVE  /\ Survives(d)'
                 /\ running' = d => UnderWay(d)'
                 /\ boot' # <<>> /\ Head(boot') = d => Visited(d)'
                 /\ up' /\ state'[d] = "ready" /\ running' # d /\ faults' = 0 => Active(d)'
      <3>1. Survives(d)'
        BY <1>0, <2>1, <2>2, NoneIsNothing DEF IInv, Shapes, Survives
      <3>2. ASSUME running' = d PROVE KeptAside(d)' /\ InPlace(d)'
        BY <3>2, <1>0, <1>1, <2>1, <2>2, NoneIsNothing DEF IInv, Shapes, UnderWay,
           KeptAside, InPlace
      <3>3. ASSUME running' = d, faults' = 0, owned'[d] # None PROVE Undone(d)'
        BY <3>3, <1>0, <1>1, <2>1, <2>2, NoneIsNothing DEF IInv, Shapes, UnderWay,
           Undone, Intact
      <3>4. ASSUME boot' # <<>>, Head(boot') = d PROVE Visited(d)'
        BY <3>4, <1>0, <1>1, <2>1, <2>2, NoneIsNothing DEF IInv, Shapes, Visited
      <3>5. ASSUME up', state'[d] = "ready", running' # d, faults' = 0 PROVE Active(d)'
        BY <3>5, <1>0, <1>1, <2>1 DEF IInv, Shapes, Active
      <3>6. QED BY <3>1, <3>2, <3>3, <3>4, <3>5 DEF UnderWay
    <2>6. QED BY <2>3, <2>4, <2>5 DEF IInv
  <1>2. CASE staging' = [staging EXCEPT ![c][v] = FALSE] /\ UNCHANGED <<final, owned>>
    <2>1. Shapes'
      BY <1>0, <1>2, StagingAt DEF IInv, Shapes
    <2>2. Control' /\ Renamed' /\ LatestCleanupIsAwaited'
      BY <1>0 DEF Control, Renamed, LatestCleanupIsAwaited, IInv
    <2>3. ASSUME NEW d \in Components
          PROVE  /\ Survives(d)'
                 /\ running' = d => UnderWay(d)'
                 /\ boot' # <<>> /\ Head(boot') = d => Visited(d)'
                 /\ up' /\ state'[d] = "ready" /\ running' # d /\ faults' = 0 => Active(d)'
      BY <1>0, <1>2 DEF IInv, Survives, UnderWay, KeptAside, InPlace, Undone, Intact,
         Visited, Active
    <2>4. QED BY <2>1, <2>2, <2>3 DEF IInv
  <1>3. QED BY <1>1, <1>2 DEF Damage

(* Every step preserves the invariant.                                     *)
LEMMA StepPreserves == IInv /\ [Next]_vars => IInv'
  <1> SUFFICES ASSUME IInv, [Next]_vars PROVE IInv'
    OBVIOUS
  <1>1. CASE Install
    BY <1>1, BeginStep, DownloadStep, VerifyStep, StagedStep, SelfTestStep,
       PrepareStep, SwapStep, MovedAsideStep, PromoteStep, PromotedStep,
       WriteMarkerStep, MakeReadyStep, RestoreOldMarkerStep, BeginDeleteStep,
       FinishDeleteStep, RestoreAsideStep, RestoreMarkerStep, FailStep DEF Install
  <1>2. ASSUME NEW c \in Components, NEW selected \in BOOLEAN, Enqueue(c, selected)
        PROVE  IInv'
    BY <1>2, RequestStep DEF Enqueue, Accepts
  <1>3. ASSUME NEW c \in Components,
               Repair(c) \/ Pause(c) \/ Cancel(c) \/ CleanUp(c) \/ CleanUpStray(c)
        PROVE  IInv'
    BY <1>3, RequestStep, PauseStep, CancelStep, CleanUpStep DEF Repair, Accepts
  <1>4. CASE Crash \/ Start
    BY <1>4, CrashStep, StartStep
  <1>5. CASE Boot
    BY <1>5, BootLookStep, BootCheckStep, BootMarkStep, BootPruneStep DEF Boot
  <1>6. ASSUME NEW c \in Components, NEW v \in Versions, Damage(c, v)
        PROVE  IInv'
    BY <1>6, DamageStep
  <1>7. CASE UNCHANGED vars
    BY <1>7 DEF vars, disk, booting, work, run, bounds, IInv, Shapes, Control,
       Renamed, Survives, UnderWay, KeptAside, InPlace, Undone, Intact, Visited,
       Active, LatestCleanupIsAwaited
  <1>8. QED BY <1>1, <1>2, <1>3, <1>4, <1>5, <1>6, <1>7 DEF Next

(* The engine never leaves its invariant, whatever dies, fails or is damaged. *)
THEOREM Invariance == Spec => []IInv
  BY Initially, StepPreserves, PTL DEF Spec

(* The pack the disk served when a run began is never lost, the process    *)
(* dead or alive: activation renames the old directory aside and never     *)
(* deletes it first (the "never deleted first" of engine.ts).              *)
THEOREM OldPackSurvives == Spec => []WorkingPackSurvives
  <1>1. IInv => WorkingPackSurvives
    BY DEF IInv, WorkingPackSurvives, Survives
  <1>2. QED BY <1>1, Invariance, PTL

(* A pack reported ready, with no run of it under way, is active on disk,  *)
(* as long as no file operation of an undo has failed.                     *)
THEOREM ReadyIsActive == Spec => []ReadyMeansActive
  <1>1. IInv => ReadyMeansActive
    BY DEF IInv, ReadyMeansActive, Active
  <1>2. QED BY <1>1, Invariance, PTL

(* The deletion the latest cancel of a waiting pack started never meets a  *)
(* run of the pack: run() awaits the promise cleanups holds before its     *)
(* first step.  Of a deletion whose promise a later cancel replaced this   *)
(* says nothing; OldPackSurvives and ReadyIsActive hold beside it all the  *)
(* same.                                                                   *)
THEOREM LatestDeletionIsAwaited == Spec => []LatestCleanupIsAwaited
  BY Invariance, PTL DEF IInv

(* pump() says nothing of a pack whose run has just ended.                 *)
LEMMA PumpLeavesTheEnded ==
    ASSUME NEW q, NEW f, NEW s \in [Components -> States], NEW c \in Components,
           PumpWith(q, s, f), running' # c
    PROVE  state'[c] = s[c]
  BY DEF PumpWith

(* The only ways a run ends while the process lives.                       *)
LEMMA HowRunsEnd ==
    ASSUME IInv, [Next]_vars, NEW c \in Components, RunEnded(c)
    PROVE  \/ Begin /\ state'[c] = "ready"
           \/ MakeReady /\ abort = None /\ state'[c] = "ready"
           \/ Fail
  <1>1. c # None
    BY NoneIsNothing
  <1>2. CASE Begin
    <2> DEFINE s == [state EXCEPT ![running] = "ready"]
    <2>1. PumpWith(queue, s, forced)
      BY <1>2 DEF Begin, RunEnded, EndRun, Goto
    <2>2. s \in [Components -> States] /\ s[c] = "ready"
      BY DEF IInv, Shapes, States, RunEnded
    <2> HIDE DEF s
    <2>3. QED BY <1>2, <2>1, <2>2, PumpLeavesTheEnded DEF RunEnded
  <1>3. CASE MakeReady
    <2> DEFINE s == [state EXCEPT ![running] = "ready"]
    <2>1. abort = None /\ PumpWith(queue, s, forced)
      BY <1>3 DEF MakeReady, RunEnded, EndRun, Throw, Goto
    <2>2. s \in [Components -> States] /\ s[c] = "ready"
      BY DEF IInv, Shapes, States, RunEnded
    <2> HIDE DEF s
    <2>3. QED BY <1>3, <2>1, <2>2, PumpLeavesTheEnded DEF RunEnded
  <1>4. ASSUME Install, ~Begin, ~MakeReady, ~Fail PROVE running' = running
    BY <1>4 DEF Install, Download, Verify, Staged, SelfTest, Prepare, Swap,
       MovedAside, Promote, Promoted, WriteMarker, RestoreOldMarker, BeginDelete,
       FinishDelete, RestoreAside, RestoreMarker, Authorized, Throw, Goto
  <1>5. ASSUME NEW d \in Components, NEW selected \in BOOLEAN,
               Enqueue(d, selected) \/ Repair(d) \/ Pause(d) \/ Cancel(d)
               \/ CleanUp(d) \/ CleanUpStray(d)
        PROVE  running' = running
    BY <1>1, <1>5 DEF Enqueue, Repair, Request, Pause, Cancel, CleanUp,
       CleanUpStray, Deletes, run, RunEnded
  <1>6. ASSUME Boot PROVE running' = running
    BY <1>6 DEF Boot, BootLook, BootCheck, BootMark, BootPrune, run
  <1>7. ASSUME NEW d \in Components, NEW v \in Versions, Damage(d, v)
        PROVE  running' = running
    BY <1>7 DEF Damage, run
  <1>8. ~Crash
    BY DEF Crash, RunEnded
  <1>9. ASSUME Start \/ UNCHANGED vars PROVE running' = running
    BY <1>9 DEF Start, vars, run
  <1>10. QED
    BY <1>2, <1>3, <1>4, <1>5, <1>6, <1>7, <1>8, <1>9 DEF Next, RunEnded

(* What run()'s catch leaves behind when its own file operation succeeds.  *)
LEMMA FailTells ==
    ASSUME IInv, Fail, NEW c \in Components, RunEnded(c)
    PROVE  /\ pc = "failing" /\ marker' = marker /\ final' = final
           /\ \/ /\ state'[c] = Outcome
                 /\ abort = "cancel" => \A v \in Versions : ~staging'[c][v]
              \/ faults' # 0
  <1>1. pc = "failing" /\ marker' = marker /\ final' = final
    BY DEF Fail, Step, At
  <1>2. CASE /\ EndRun(Outcome)
             /\ staging' = IF abort = "cancel"
                           THEN [staging EXCEPT ![running] = [v \in Versions |-> FALSE]]
                           ELSE staging
    <2> DEFINE s == [state EXCEPT ![running] = Outcome]
    <2>1. Outcome \in States
      BY Zenon DEF Outcome, States
    <2>2. s \in [Components -> States] /\ s[c] = Outcome
      BY <2>1 DEF IInv, Shapes, RunEnded
    <2>3. PumpWith(queue, s, forced)
      BY <1>2 DEF EndRun
    <2> HIDE DEF s
    <2>4. state'[c] = Outcome
      BY <2>2, <2>3, PumpLeavesTheEnded DEF RunEnded
    <2>5. abort = "cancel" => \A v \in Versions : ~staging'[c][v]
      BY <1>2 DEF IInv, Shapes, RunEnded
    <2>6. QED BY <1>1, <2>4, <2>5
  <1>3. CASE Fault
    BY <1>1, <1>3 DEF Fault, IInv, Shapes
  <1>4. QED BY <1>2, <1>3 DEF Fail

(* A run that does not end ready leaves the component serving exactly the  *)
(* version it served before: deactivate() undoes every step of an          *)
(* activation, wherever the abort or the error came, unless one of its own *)
(* file operations fails.                                                  *)
THEOREM UndoIsComplete == Spec => RollbackRestores
  <1> DEFINE A == \A c \in Components :
        RunEnded(c) /\ state'[c] # "ready" /\ owned[c] # None /\ faults = 0
            => marker'[c] = owned[c] /\ final'[c][owned[c]] = "whole"
  <1>1. IInv /\ [Next]_vars => A
    <2> SUFFICES ASSUME IInv, [Next]_vars, NEW c \in Components, RunEnded(c),
                        state'[c] # "ready", owned[c] # None, faults = 0
                 PROVE  marker'[c] = owned[c] /\ final'[c][owned[c]] = "whole"
      OBVIOUS
    <2>1. pc = "failing" /\ marker' = marker /\ final' = final
      BY HowRunsEnd, FailTells
    <2>2. Intact(c)
      BY <2>1 DEF IInv, UnderWay, Undone, RunEnded
    <2>3. QED BY <2>1, <2>2 DEF Intact
  <1>2. QED BY <1>1, Invariance, PTL DEF Spec, RollbackRestores

(* A cancelled run that got past its start ends cancelled with nothing     *)
(* staged, whatever step of install() or of the undo it had reached.       *)
THEOREM CancelHasItsWay == Spec => CancelWins
  <1> DEFINE A == \A c \in Components :
        RunEnded(c) /\ abort = "cancel" /\ pc # "begin" /\ faults' = 0
            => /\ state'[c] = "cancelled"
               /\ \A v \in Versions : ~staging'[c][v]
  <1>1. IInv /\ [Next]_vars => A
    <2> SUFFICES ASSUME IInv, [Next]_vars, NEW c \in Components, RunEnded(c),
                        abort = "cancel", pc # "begin", faults' = 0
                 PROVE  /\ state'[c] = "cancelled"
                        /\ \A v \in Versions : ~staging'[c][v]
      OBVIOUS
    <2>1. Fail
      BY HowRunsEnd, NoneIsNothing DEF Begin, Step, At
    <2>2. Outcome = "cancelled"
      BY DEF Outcome
    <2>3. QED BY <2>1, <2>2, FailTells
  <1>2. QED BY <1>1, Invariance, PTL DEF Spec, CancelWins

-----------------------------------------------------------------------------
(* The engine implements the lifecycle, as the program runs it             *)
(* (initialise() is not called) and as long as no file operation of an     *)
(* undo fails.                                                             *)

(* The invariant the refinement rests on: the queue holds packs, a run has *)
(* one, initialise() has nothing to visit and nothing has failed.          *)
QueueInv ==
    /\ queue \in Seq(Components)
    /\ pc # "none" => running \in Components
    /\ boot = <<>>
    /\ faults = 0

(* Taking a pack out of the queue leaves a queue.                          *)
LEMMA CutIsSeq ==
    ASSUME NEW S, NEW q \in Seq(S), NEW c
    PROVE  Cut(q, c) \in Seq(S)
  <1>1. CASE Contains(q, c)
    <2> DEFINE k == CHOOSE i \in 1 .. Len(q) : q[i] = c
    <2>1. k \in 1 .. Len(q)
      BY <1>1 DEF Contains
    <2>2. Cut(q, c) = RemoveAt(q, k)
      BY <1>1 DEF Cut
    <2> HIDE DEF k
    <2>3. Len(q) \in Nat
      OBVIOUS
    <2>4. SubSeq(q, 1, k - 1) \in Seq(S) /\ SubSeq(q, k + 1, Len(q)) \in Seq(S)
      BY <2>1, <2>3, SubSeqProperties, SMT
    <2>5. QED BY <2>2, <2>4, ConcatProperties DEF RemoveAt
  <1>2. CASE ~Contains(q, c)
    BY <1>2 DEF Cut
  <1>3. QED BY <1>1, <1>2

(* The engine and the lifecycle take a pack out of the queue alike.        *)
LEMMA SameCut ==
    ASSUME NEW q, NEW c
    PROVE  Cut(q, c) = Lifecycle!Cut(q, c)
  BY DEF Cut, Lifecycle!Cut, Contains, Lifecycle!Contains, RemoveAt, Lifecycle!RemoveAt

(* pump() of the engine is pump() of the lifecycle.                        *)
LEMMA PumpRefines ==
    ASSUME NEW q, NEW s, NEW f, PumpWith(q, s, f)
    PROVE  Lifecycle!Pump(q, s)
  BY DEF PumpWith, Lifecycle!Pump

(* pump() takes its pack from the queue.                                   *)
LEMMA PumpQueue ==
    ASSUME NEW q \in Seq(Components), NEW s, NEW f, PumpWith(q, s, f)
    PROVE  queue' \in Seq(Components) /\ (pc' # "none" => running' \in Components)
  <1>1. CASE q = <<>>
    BY <1>1 DEF PumpWith
  <1>2. CASE q # <<>>
    <2>1. queue' = Tail(q) /\ running' = Head(q)
      BY <1>2 DEF PumpWith
    <2>2. QED BY <1>2, <2>1
  <1>3. QED BY <1>1, <1>2

(* So is what enqueue() and repair() share.                                *)
LEMMA RequestRefines ==
    ASSUME NEW c, NEW q, NEW f, Request(c, q, f)
    PROVE  Lifecycle!Request(c, q)
  BY PumpRefines DEF Request, Lifecycle!Request, run, SetState

(* A request keeps the queue a queue of packs.                             *)
LEMMA RequestQueue ==
    ASSUME QueueInv, NEW c, NEW q \in Seq(Components), NEW f, Request(c, q, f)
    PROVE  QueueInv'
  BY PumpQueue DEF QueueInv, Request, run, booting, bounds

(* A step of install() or of its undo is a run's, and no file operation    *)
(* fails.                                                                  *)
LEMMA InstallStands ==
    ASSUME MaxFaults = 0, QueueInv, Install
    PROVE  pc # "none" /\ running \in Components /\ ~Fault /\ boot' = boot
  <1>1. ~Fault
    BY DEF QueueInv, Fault
  <1>2. /\ \E p \in {"begin", "download", "verify", "staged", "selftest", "tested",
                     "swap", "aside", "promote", "promoted", "mark", "marked",
                     "undo", "undoDelete", "undoDeleting", "undoAside",
                     "undoMarker", "failing"} : pc = p
        /\ Quiet
    BY DEF Install, Begin, Download, Verify, Staged, SelfTest, Prepare,
           Swap, MovedAside, Promote, Promoted, WriteMarker, MakeReady,
           RestoreOldMarker,
           BeginDelete, FinishDelete, RestoreAside, RestoreMarker, Fail, Step, At
  <1>3. QED BY <1>1, <1>2 DEF QueueInv, Quiet, booting

(* A step of install() leaves the queue alone, or lets pump() take its     *)
(* head.                                                                   *)
LEMMA InstallQueue ==
    ASSUME MaxFaults = 0, QueueInv, Install
    PROVE  QueueInv'
  <1>1. pc # "none" /\ ~Fault /\ boot' = boot
    BY InstallStands
  <1>2. CASE Begin \/ MakeReady \/ Fail
    <2>1. faults' = 0 /\ boot' = <<>>
      BY <1>1, <1>2 DEF Begin, MakeReady, Fail, QueueInv, bounds
    <2>2. \/ \E s \in {"ready", Outcome} : EndRun(s)
          \/ UNCHANGED <<queue, running>>
      BY <1>1, <1>2 DEF Begin, MakeReady, Fail, Goto, Throw, work
    <2>3. QED BY <1>1, <2>1, <2>2, PumpQueue DEF EndRun, QueueInv
  <1>3. CASE ~(Begin \/ MakeReady \/ Fail)
    BY <1>1, <1>3 DEF QueueInv, Install, Download, Verify, Staged, SelfTest, Prepare,
           Swap, MovedAside, Promote, Promoted, WriteMarker, RestoreOldMarker,
           BeginDelete, FinishDelete, RestoreAside, RestoreMarker,
           Authorized, Goto, Throw, work, bounds
  <1>4. QED BY <1>2, <1>3

(* The invariant holds in every state when no undo fails and initialise()  *)
(* is not called.                                                          *)
LEMMA QueueInvariance ==
    ASSUME MaxFaults = 0, HostInitialises = FALSE
    PROVE  Spec => []QueueInv
  <1>1. Init => QueueInv
    BY DEF Init, QueueInv
  <1>2. QueueInv /\ [Next]_vars => QueueInv'
    <2> SUFFICES ASSUME QueueInv, [Next]_vars PROVE QueueInv'
      OBVIOUS
    <2>1. CASE Install
      BY <2>1, InstallQueue
    <2>2. ASSUME NEW c \in Components, NEW selected \in BOOLEAN, Enqueue(c, selected)
          PROVE  QueueInv'
      <3>1. /\ <<c>> \o Cut(queue, c) \in Seq(Components)
            /\ Append(Cut(queue, c), c) \in Seq(Components)
        BY CutIsSeq DEF QueueInv
      <3>2. QED BY <2>2, <3>1, RequestQueue DEF Enqueue
    <2>3. ASSUME NEW c \in Components, Repair(c)
          PROVE  QueueInv'
      <3>1. <<c>> \o Cut(queue, c) \in Seq(Components)
        BY CutIsSeq DEF QueueInv
      <3>2. QED BY <2>3, <3>1, RequestQueue DEF Repair
    <2>4. ASSUME NEW c \in Components, Pause(c) \/ Cancel(c)
          PROVE  QueueInv'
      BY <2>4, CutIsSeq DEF Pause, Cancel, CancelRunning, CancelWaiting, QueueInv,
           booting, bounds
    <2>5. ASSUME NEW c \in Components, CleanUp(c) \/ CleanUpStray(c)
          PROVE  QueueInv'
      BY <2>5 DEF CleanUp, CleanUpStray, Deletes, QueueInv, booting, bounds, run
    <2>6. CASE Crash \/ Start
      <3>1. CASE Crash
        BY <3>1 DEF Crash, QueueInv, bounds
      <3>2. CASE Start
        <4>1. boot' = <<>>
          BY <3>2 DEF Start
        <4>2. QED BY <3>2, <4>1 DEF Start, QueueInv, bounds, work, run
      <3>3. QED BY <2>6, <3>1, <3>2
    <2>7. ~Boot
      BY DEF Boot, BootLook, BootCheck, BootMark, BootPrune, Visiting, QueueInv
    <2>8. ASSUME NEW c \in Components, NEW v \in Versions, Damage(c, v)
          PROVE  QueueInv'
      BY <2>8 DEF Damage, QueueInv, booting, work, run
    <2>9. CASE UNCHANGED vars
      BY <2>9 DEF vars, booting, work, run, bounds, QueueInv
    <2>10. QED BY <2>1, <2>2, <2>3, <2>4, <2>5, <2>6, <2>7, <2>8, <2>9 DEF Next
  <1>3. QED BY <1>1, <1>2, PTL DEF Spec

-----------------------------------------------------------------------------
(* A step of install() is the lifecycle's Work, its End or its late cut,   *)
(* or nothing the lifecycle can see: it has no disk.                       *)
LEMMA InstallRefines ==
    ASSUME MaxFaults = 0, QueueInv, Install
    PROVE  Lifecycle!Next \/ UNCHANGED Lifecycle!lifecycle
  <1>1. ~Fault /\ running # None
    BY InstallStands, NoneIsNothing
  <1>2. ASSUME NEW s \in Lifecycle!Outcomes, EndRun(s)
        PROVE  Lifecycle!Next
    BY <1>1, <1>2, PumpRefines DEF EndRun, Lifecycle!Next, Lifecycle!End
  <1>3. CASE Begin
    <2>1. "ready" \in Lifecycle!Outcomes
      BY Zenon DEF Lifecycle!Outcomes
    <2>2. QED BY <1>2, <1>3, <2>1 DEF Begin, Goto, Lifecycle!lifecycle
  <1>4. CASE Verify \/ Staged
    <2>1. \/ \E s \in {"verifying", "self-testing"} : SetState(running, s)
          \/ state' = state
      BY <1>4 DEF Verify, Staged, Authorized, work
    <2>2. UNCHANGED <<queue, running, abort>>
      BY <1>4 DEF Verify, Staged, Authorized, work, Goto, Throw
    <2>3. QED
      BY <1>1, <2>1, <2>2 DEF SetState, Lifecycle!Next, Lifecycle!Work,
           Lifecycle!Moving, Lifecycle!lifecycle
  <1>5. CASE MakeReady
    <2>1. CASE abort = None /\ EndRun("ready")
      <3>1. "ready" \in Lifecycle!Outcomes
        BY Zenon DEF Lifecycle!Outcomes
      <3>2. QED BY <1>2, <2>1, <3>1
    <2>2. CASE /\ abort = None /\ SetState(running, "ready") /\ abort' = "cancel"
               /\ UNCHANGED <<queue, running>>
      BY <1>1, <2>2 DEF SetState, Lifecycle!Next, Lifecycle!CutWhenReady
    <2>3. CASE Throw /\ UNCHANGED work
      BY <2>3 DEF Throw, Goto, work, Lifecycle!lifecycle
    <2>4. QED BY <1>5, <2>1, <2>2, <2>3 DEF MakeReady
  <1>6. CASE Fail
    <2>1. Outcome \in Lifecycle!Outcomes
      BY Zenon DEF Outcome, Lifecycle!Outcomes
    <2>2. EndRun(Outcome)
      BY <1>1, <1>6 DEF Fail
    <2>3. QED BY <1>2, <2>1, <2>2
  <1>7. CASE ~(Begin \/ Verify \/ Staged \/ MakeReady \/ Fail)
    BY <1>7 DEF Install, Download, SelfTest, Prepare,
           Swap, MovedAside, Promote, Promoted, WriteMarker, RestoreOldMarker,
           BeginDelete, FinishDelete, RestoreAside, RestoreMarker,
           Authorized, Goto, Throw, work, Lifecycle!lifecycle
  <1>8. QED BY <1>3, <1>4, <1>5, <1>6, <1>7

(* enqueue(), repair(), pause() and cancel() are the lifecycle's.          *)
LEMMA RequestsRefine ==
    ASSUME NEW c \in Components,
           \/ \E selected \in BOOLEAN : Enqueue(c, selected)
           \/ Repair(c) \/ Pause(c) \/ Cancel(c)
    PROVE  Lifecycle!Next \/ UNCHANGED Lifecycle!lifecycle
  <1>1. Cut(queue, c) = Lifecycle!Cut(queue, c)
    BY SameCut
  <1>2. ASSUME NEW selected \in BOOLEAN, Enqueue(c, selected)
        PROVE  Lifecycle!Enqueue(c, selected)
    BY <1>1, <1>2, RequestRefines DEF Enqueue, Lifecycle!Enqueue, Lifecycle!Enqueues
  <1>3. ASSUME Repair(c) PROVE Lifecycle!Repair(c)
    BY <1>1, <1>3, RequestRefines DEF Repair, Lifecycle!Repair, Lifecycle!Repairs
  <1>4. ASSUME Pause(c) PROVE Lifecycle!Pause(c)
    BY <1>1, <1>4 DEF Pause, SetState, Lifecycle!Pause, Lifecycle!Pauses,
         Lifecycle!Dequeue, Lifecycle!Abort
  <1>5. ASSUME Cancel(c) PROVE Lifecycle!Cancel(c) \/ UNCHANGED Lifecycle!lifecycle
    <2>1. CASE CancelRunning(c)
      BY <1>5, <2>1 DEF Cancel, CancelRunning, Lifecycle!Cancel, Lifecycle!Cancels,
           Lifecycle!Abort, Lifecycle!lifecycle
    <2>2. CASE CancelWaiting(c)
      BY <1>1, <1>5, <2>2 DEF Cancel, CancelWaiting, SetState, Lifecycle!Cancel,
           Lifecycle!Cancels, Lifecycle!Dequeue
    <2>3. QED BY <1>5, <2>1, <2>2 DEF Cancel
  <1>6. QED BY <1>2, <1>3, <1>4, <1>5 DEF Lifecycle!Next

(* Every behaviour of the engine, its disk and its checkpoints hidden, is  *)
(* one of the lifecycle: the queue, the states and the abort change only   *)
(* as Lifecycle's actions change them, so install() cannot lose a pack,    *)
(* start two or set a state the service does not expect. It is assumed     *)
(* that nothing calls initialise(), as nothing in the program does, and    *)
(* that the undo's own file operations succeed.                            *)
THEOREM EngineImplementsLifecycle ==
    ASSUME MaxFaults = 0, HostInitialises = FALSE
    PROVE  Spec => ImplementsLifecycle
  <1>1. Init => Lifecycle!Init
    BY DEF Init, Lifecycle!Init
  <1>2. QueueInv /\ [Next]_vars => [Lifecycle!Next]_Lifecycle!lifecycle
    <2> SUFFICES ASSUME QueueInv, [Next]_vars
                 PROVE  Lifecycle!Next \/ UNCHANGED Lifecycle!lifecycle
      OBVIOUS
    <2>1. CASE Install
      BY <2>1, InstallRefines
    <2>2. ASSUME NEW c \in Components,
                 \/ \E selected \in BOOLEAN : Enqueue(c, selected)
                 \/ Repair(c) \/ Pause(c) \/ Cancel(c)
          PROVE  Lifecycle!Next \/ UNCHANGED Lifecycle!lifecycle
      BY <2>2, RequestsRefine
    <2>3. ASSUME NEW c \in Components, CleanUp(c) \/ CleanUpStray(c)
          PROVE  UNCHANGED Lifecycle!lifecycle
      BY <2>3 DEF CleanUp, CleanUpStray, Deletes, run, Lifecycle!lifecycle
    <2>4. CASE Crash
      BY <2>4 DEF Crash, Lifecycle!Next, Lifecycle!Crash
    <2>5. CASE Start \/ UNCHANGED vars
      BY <2>5 DEF Start, vars, work, run, Lifecycle!lifecycle
    <2>6. ~Boot
      BY DEF Boot, BootLook, BootCheck, BootMark, BootPrune, Visiting, QueueInv
    <2>7. ASSUME NEW c \in Components, NEW v \in Versions, Damage(c, v)
          PROVE  UNCHANGED Lifecycle!lifecycle
      BY <2>7 DEF Damage, work, run, Lifecycle!lifecycle
    <2>8. QED BY <2>1, <2>2, <2>3, <2>4, <2>5, <2>6, <2>7 DEF Next
  <1>3. QED BY <1>1, <1>2, QueueInvariance, PTL DEF Spec, ImplementsLifecycle,
       Lifecycle!Spec
=============================================================================
