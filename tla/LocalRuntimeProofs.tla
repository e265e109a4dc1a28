------------------------- MODULE LocalRuntimeProofs -------------------------
(***************************************************************************)
(* Proofs about the local model runtime. The model's operators take and    *)
(* return the whole state s of runtime, processes and requests, so the     *)
(* inductive invariant is a predicate of such a state too: Sound. The      *)
(* lemmas say what each operator does to a sound state, in the order in    *)
(* which the operators call one another; the lemmas named ...Keeps say it  *)
(* of the actions. The theorems are at the end.                            *)
(***************************************************************************)
EXTENDS LocalRuntime, QueueLemmas

(* The types of the parts of a state.                                      *)
Variants == {"vulkan", "cpu", "mac"}
Owners == Requests \cup {"auto"}

Runtimes ==
    [state : {"stopped", "starting", "running", "unavailable"},
     child : Nat, port : Nat, generation : Nat, startPromise : Nat,
     loaded : SUBSET Configs, cpuPinned : BOOLEAN, restarted : BOOLEAN,
     idleTimer : BOOLEAN, streams : Nat, attached : SUBSET Requests,
     drainWaiters : SUBSET Requests, summaries : SUBSET Requests,
     preemptable : SUBSET Requests]

Sidecars == [generation : Nat, owner : Owners, config : Configs,
             variant : Variants, left : Seq(Variants), phase : Phases,
             killed : BOOLEAN, settled : BOOLEAN]

Calls == [pc : {"new", "asked", "verify", "join", "drain", "reeval", "own",
                "attach", "stream", "over"},
          live : BOOLEAN, gen : Nat, on : Nat]

(* The processes that exist, by their ids.                                 *)
Tables == UNION {[D -> Sidecars] : D \in FiniteSubsetsOf(Nat \ {None})}

States == [rt : Runtimes, procs : Tables, reqs : [Requests -> Calls]]

(* What ties the processes to the runtime. Every process but the current   *)
(* child has been killed, a start of the current generation that is under  *)
(* way is the child's, and a published port is that of the child and is    *)
(* usable. A process in X has just exited or been given up, and its kill   *)
(* is still to come.                                                       *)
Sole(s, X) ==
    /\ \A p \in DOMAIN s.procs \ X :
        /\ ~s.procs[p].killed => s.rt.child = p
        /\ s.procs[p].generation = s.rt.generation /\ ~s.procs[p].settled => s.rt.child = p
    /\ \A p \in DOMAIN s.procs : s.procs[p].generation <= s.rt.generation
    /\ s.rt.child # None =>
        /\ s.rt.child \in DOMAIN s.procs
        /\ s.procs[s.rt.child].generation = s.rt.generation
        /\ s.rt.child \notin X => ~s.procs[s.rt.child].killed
        /\ s.rt.state # "stopped"
    /\ s.rt.port # None =>
        /\ s.rt.port = s.rt.child
        /\ s.procs[s.rt.port].phase = "usable" /\ s.procs[s.rt.port].settled

(* The streams counted are the requests that stream, the waiters are the   *)
(* requests in start() that wait for the drain, and they wait for a        *)
(* stream.                                                                 *)
Held(s) ==
    /\ s.rt.attached = {r \in Requests : s.reqs[r].pc = "stream"}
    /\ IsFiniteSet(s.rt.attached) /\ s.rt.streams = Cardinality(s.rt.attached)
    /\ s.rt.drainWaiters = {r \in Requests : s.reqs[r].pc = "drain"}
    /\ s.rt.drainWaiters # {} => s.rt.attached # {}

(* A background request that has no answer yet can be pre-empted, and none *)
(* is left to pre-empt while a recap is in flight.                         *)
Quieted(s) ==
    /\ \A r \in Requests :
        /\ s.reqs[r].pc = "stream" => s.reqs[r].live
        /\ Kind[r] = "background" /\ s.reqs[r].live => r \in s.rt.preemptable
    /\ \A r \in s.rt.preemptable : Kind[r] = "background"
    /\ s.rt.summaries # {} => s.rt.preemptable = {}

(* The processes whose start has not been settled. Each such start of a    *)
(* request is the one that the request waits for, and a request starts one *)
(* at a time. A stream runs over a process whose start has been settled.   *)
Unsettled(s) == {p \in DOMAIN s.procs : ~s.procs[p].settled}
Ties(s) ==
    /\ \A p \in Unsettled(s) : s.procs[p].owner # "auto" => s.reqs[s.procs[p].owner].pc = "own"
    /\ \A p, q \in Unsettled(s) : s.procs[p].owner = s.procs[q].owner => p = q \/ s.procs[p].owner = "auto"
    /\ \A r \in Requests : s.reqs[r].on # None =>
        /\ s.reqs[r].pc = "stream"
        /\ s.reqs[r].on \in DOMAIN s.procs
        /\ s.procs[s.reqs[r].on].settled

(* V is the set of verified models: every process and the loaded           *)
(* configuration have one, and a request that has come past verification   *)
(* wants one. While a process exists something is loaded, which an         *)
(* automatic restart will load again.                                      *)
Checked(s, V) ==
    /\ \A p \in DOMAIN s.procs : s.procs[p].config.model \in V
    /\ \A c \in s.rt.loaded : c.model \in V
    /\ \A r \in Requests : s.reqs[r].pc \in {"join", "drain", "reeval", "own"} => Wants[r].model \in V
    /\ DOMAIN s.procs # {} => s.rt.loaded # {}

(* s and g agree on the processes and on what the runtime says of them.    *)
Same(s, g) ==
    /\ g.procs = s.procs
    /\ g.rt.state = s.rt.state /\ g.rt.child = s.rt.child /\ g.rt.port = s.rt.port
    /\ g.rt.generation = s.rt.generation /\ g.rt.loaded = s.rt.loaded

(* From s to g the requests in S have released what they held. When the    *)
(* last stream is among it, every start that waited for the drain is       *)
(* woken.                                                                  *)
Released(s, g, S) ==
    /\ g.rt.attached = s.rt.attached \ S
    /\ IsFiniteSet(g.rt.attached) /\ g.rt.streams = Cardinality(g.rt.attached)
    /\ g.rt.summaries = s.rt.summaries \ S
    /\ g.rt.preemptable = s.rt.preemptable \ S
    /\ g.rt.drainWaiters = IF g.rt.attached = {} THEN {} ELSE s.rt.drainWaiters

Woken(s, g) == s.rt.drainWaiters \ g.rt.drainWaiters

(* A table of processes has finitely many ids, none of which is None.      *)
LEMMA TablesAre ==
    ASSUME NEW f
    PROVE  f \in Tables <=> /\ f \in [DOMAIN f -> Sidecars]
                            /\ DOMAIN f \subseteq Nat \ {None}
                            /\ IsFiniteSet(DOMAIN f)
  BY DEF Tables, FiniteSubsetsOf

(* settle() releases what the requests in S hold and wakes those that wait *)
(* for the drain, and changes nothing else.                                *)
LEMMA SettleReleases ==
    ASSUME NEW s \in States, NEW S \in SUBSET Requests,
           IsFiniteSet(s.rt.attached), s.rt.streams = Cardinality(s.rt.attached)
    PROVE  LET g == Settle(s, S) IN
           /\ g \in States /\ Same(s, g) /\ Released(s, g, S)
           /\ g.reqs = [r \in Requests |-> IF r \in Woken(s, g)
                            THEN [s.reqs[r] EXCEPT !.pc = "reeval"] ELSE s.reqs[r]]
  <1> DEFINE A == s.rt.attached
             left == s.rt.streams - Cardinality(A \cap S)
             woken == IF left = 0 THEN s.rt.drainWaiters ELSE {}
             calls == [r \in Requests |->
                          IF r \in woken THEN [s.reqs[r] EXCEPT !.pc = "reeval"] ELSE s.reqs[r]]
             e == [s.rt EXCEPT !.streams = left, !.attached = A \ S,
                               !.drainWaiters = @ \ woken]
             f == [e EXCEPT !.summaries = @ \ S, !.preemptable = @ \ S]
             g == Settle(s, S)
  <1>1. IsFiniteSet(A \ S) /\ left = Cardinality(A \ S) /\ left \in Nat
    <2>1. /\ IsFiniteSet(A \ S)
          /\ Cardinality(A \ S) = Cardinality(A) - Cardinality(A \cap S)
      BY FS_Difference
    <2>2. QED BY <2>1, FS_CardinalityType
  <1>2. left = 0 <=> A \ S = {}
    BY <1>1, FS_EmptySet
  <1>3. s.rt \in Runtimes /\ s.reqs \in [Requests -> Calls]
    BY DEF States
  <1>4. g.rt = f /\ g.procs = s.procs /\ g.reqs = calls
    <2> DEFINE t == EndStreams(s, S)
    <2>1. t.rt = e /\ t.procs = s.procs /\ t.reqs = calls
      BY <1>3 DEF EndStreams, States, Runtimes
    <2>2. DOMAIN t = {"rt", "procs", "reqs"}
      BY DEF EndStreams, States
    <2>3. e.summaries = s.rt.summaries /\ e.preemptable = s.rt.preemptable
      BY <1>3 DEF Runtimes
    <2>4. DOMAIN e = DOMAIN s.rt
      OBVIOUS
    <2> HIDE DEF calls, e, t
    <2>5. QED BY <2>1, <2>2, <2>3, <2>4, <1>3 DEF Settle, t, Runtimes
  <1>5. woken \subseteq Requests /\ A \subseteq Requests
    BY <1>3 DEF Runtimes
  <1>6. calls \in [Requests -> Calls]
    BY <1>3 DEF Calls
  <1> HIDE DEF calls, left, woken, A
  <1>7. e \in Runtimes
    BY <1>1, <1>3, <1>5 DEF Runtimes
  <1>8. f \in Runtimes
    BY <1>7 DEF Runtimes
  <1>9. /\ f.streams = left /\ f.attached = A \ S
        /\ f.drainWaiters = s.rt.drainWaiters \ woken
        /\ f.summaries = s.rt.summaries \ S /\ f.preemptable = s.rt.preemptable \ S
        /\ f.state = s.rt.state /\ f.child = s.rt.child /\ f.port = s.rt.port
        /\ f.generation = s.rt.generation /\ f.loaded = s.rt.loaded
    BY <1>3 DEF Runtimes
  <1> HIDE DEF e, f, g
  <1>13. g \in States
    <2> DEFINE t == EndStreams(s, S)
    <2>1. t.rt = e /\ t.procs = s.procs /\ t.reqs = calls
      BY <1>3 DEF EndStreams, States, Runtimes, calls, e, left, woken, A
    <2>2. t \in States
      BY <2>1, <1>6, <1>7 DEF EndStreams, States
    <2> HIDE DEF t
    <2>3. QED BY <2>2, <1>4, <1>6, <1>8 DEF Settle, States, g, t
  <1>10. g \in States /\ Same(s, g)
    BY <1>4, <1>9, <1>13 DEF Same
  <1>11. Released(s, g, S)
    BY <1>1, <1>2, <1>4, <1>9 DEF Released, woken, A
  <1>12. Woken(s, g) = woken
    BY <1>2, <1>4, <1>9 DEF Woken, woken
  <1>14. QED BY <1>4, <1>10, <1>11, <1>12 DEF calls, g

(* The requests that neither wait for the drain nor own a start under way. *)
Bystanders(s) ==
    {r \in Requests : s.reqs[r].pc # "drain"
        /\ \A p \in Unsettled(s) : s.procs[p].owner # r}

(* Sole speaks only of what Same preserves.                                *)
LEMMA SameSidecars ==
    ASSUME NEW s, NEW g, NEW X, Same(s, g), Sole(s, X)
    PROVE  Sole(g, X)
  BY DEF Same, Sole

(* Held, except for the requests in S: a request that has been counted and *)
(* is answered in the same turn is not yet, or no longer, streaming.       *)
HeldBut(s, S) ==
    /\ s.rt.attached \ S = {r \in Requests \ S : s.reqs[r].pc = "stream"}
    /\ IsFiniteSet(s.rt.attached) /\ s.rt.streams = Cardinality(s.rt.attached)
    /\ s.rt.drainWaiters = {r \in Requests : s.reqs[r].pc = "drain"}
    /\ s.rt.drainWaiters # {} => s.rt.attached # {}

(* An exception is no restriction.                                         *)
LEMMA HeldIsHeldBut ==
    ASSUME NEW s, Held(s), NEW S
    PROVE  HeldBut(s, S)
  BY DEF Held, HeldBut

(* Answering requests ends them, releases what they hold, wakes the        *)
(* waiters of the drain when the last stream was theirs, and leaves        *)
(* everything else.                                                        *)
LEMMA AnswerKeeps ==
    ASSUME NEW s \in States, NEW S \in SUBSET Bystanders(s), HeldBut(s, S), Ties(s)
    PROVE  LET g == Answer(s, S) IN
           /\ g \in States /\ Same(s, g) /\ Held(g) /\ Ties(g)
           /\ Quieted(s) => Quieted(g)
           /\ \A V : Checked(s, V) => Checked(g, V)
           /\ \A r \in Requests \ S :
                /\ g.reqs[r].pc \in {s.reqs[r].pc, "reeval"}
                /\ s.reqs[r].pc # "drain" => g.reqs[r] = s.reqs[r]
                /\ g.reqs[r].on = s.reqs[r].on
                /\ g.reqs[r].live = s.reqs[r].live
                /\ g.reqs[r].pc = "stream" <=> s.reqs[r].pc = "stream"
           /\ \A r \in S : /\ g.reqs[r].pc = "over" /\ g.reqs[r].on = None
                           /\ ~g.reqs[r].live
           /\ g.rt.summaries = s.rt.summaries \ S
           /\ g.rt.preemptable = s.rt.preemptable \ S
  <1> DEFINE t == Settle(s, S)
             g == Answer(s, S)
             calls == [r \in Requests |->
                IF r \in S THEN [t.reqs[r] EXCEPT !.pc = "over", !.live = FALSE, !.on = None]
                ELSE t.reqs[r]]
  <1>0. S \in SUBSET Requests /\ \A r \in S : s.reqs[r].pc # "drain"
        /\ \A p \in Unsettled(s) : s.procs[p].owner \notin S
    BY DEF Bystanders
  <1>1. /\ t \in States /\ Same(s, t) /\ Released(s, t, S)
        /\ t.reqs = [r \in Requests |-> IF r \in Woken(s, t)
                            THEN [s.reqs[r] EXCEPT !.pc = "reeval"] ELSE s.reqs[r]]
    BY <1>0, SettleReleases DEF HeldBut
  <1> HIDE DEF t
  <1>2. g.rt = t.rt /\ g.procs = t.procs /\ g.reqs = calls
        /\ (calls \in [Requests -> Calls] => g \in States)
    <2> DEFINE h == [t EXCEPT !.reqs = calls]
    <2> HIDE DEF calls
    <2>1. h.rt = t.rt /\ h.procs = t.procs /\ h.reqs = calls
          /\ (calls \in [Requests -> Calls] => h \in States)
      BY <1>1 DEF States
    <2>2. g = h
      BY DEF Answer, t, calls
    <2>3. QED BY <2>1, <2>2
  <1>3. s.reqs \in [Requests -> Calls] /\ t.reqs \in [Requests -> Calls]
    BY <1>1 DEF States
  <1>16. ASSUME NEW r \in Requests PROVE calls[r] \in Calls
    BY <1>3 DEF Calls, None
  <1>4. /\ calls \in [Requests -> Calls]
        /\ \A r \in S : calls[r].pc = "over" /\ ~calls[r].live /\ calls[r].on = None
        /\ \A r \in Requests \ S : calls[r] = t.reqs[r]
    BY <1>0, <1>3, <1>16 DEF Calls
  <1>5. \A r \in Requests :
           IF r \in Woken(s, t)
           THEN t.reqs[r].pc = "reeval" /\ t.reqs[r].live = s.reqs[r].live
                /\ t.reqs[r].on = s.reqs[r].on
           ELSE t.reqs[r] = s.reqs[r]
    BY <1>1, <1>3 DEF Calls
  <1> HIDE DEF calls, g
  <1>6. g \in States /\ Same(s, g)
    BY <1>1, <1>2, <1>4 DEF States, Same
  <1>7. Released(s, g, S) /\ Woken(s, g) = Woken(s, t)
    BY <1>1, <1>2 DEF Released, Woken
  <1>8. /\ g.reqs = calls
        /\ \A r \in Woken(s, g) : s.reqs[r].pc = "drain" /\ r \in Requests
    BY <1>0, <1>2, <1>7 DEF HeldBut, Woken
  <1>9. \A r \in Requests \ S :
                /\ g.reqs[r].pc \in {s.reqs[r].pc, "reeval"}
                /\ s.reqs[r].pc # "drain" => g.reqs[r] = s.reqs[r]
                /\ g.reqs[r].on = s.reqs[r].on /\ g.reqs[r].live = s.reqs[r].live
                /\ g.reqs[r].pc = IF r \in Woken(s, g) THEN "reeval" ELSE s.reqs[r].pc
    BY <1>4, <1>5, <1>7, <1>8
  <1>10. \A r \in S : g.reqs[r].pc = "over" /\ ~g.reqs[r].live /\ g.reqs[r].on = None
    BY <1>4, <1>8
  <1>11. Held(g)
    <2>1. g.rt.attached = {r \in Requests : g.reqs[r].pc = "stream"}
      BY <1>0, <1>7, <1>8, <1>9, <1>10 DEF HeldBut, Released
    <2>2. g.rt.drainWaiters = {r \in Requests : g.reqs[r].pc = "drain"}
      BY <1>0, <1>7, <1>8, <1>9, <1>10 DEF HeldBut, Released, Woken
    <2>3. QED BY <2>1, <2>2, <1>7 DEF Held, HeldBut, Released
  <1>12. Ties(g)
    <2>1. Unsettled(g) = Unsettled(s)
      BY <1>6 DEF Same, Unsettled
    <2>5. \A p \in DOMAIN s.procs : s.procs[p].owner \in Owners
      BY TablesAre DEF States, Sidecars
    <2>2. \A p \in Unsettled(g) : g.procs[p].owner # "auto" => g.reqs[g.procs[p].owner].pc = "own"
      <3> SUFFICES ASSUME NEW p \in Unsettled(g), g.procs[p].owner # "auto"
                   PROVE  g.reqs[g.procs[p].owner].pc = "own"
        OBVIOUS
      <3>1. g.procs[p] = s.procs[p] /\ s.procs[p].owner \in Requests \ S
        BY <2>1, <2>5, <1>0, <1>6 DEF Same, Owners, Unsettled
      <3>2. s.reqs[s.procs[p].owner].pc = "own"
        BY <2>1, <3>1 DEF Ties
      <3>3. QED BY <3>1, <3>2, <1>9
    <2>3. QED BY <2>1, <2>2, <1>6, <1>8, <1>9, <1>10 DEF Same, Ties
  <1>13. Quieted(s) => Quieted(g)
    BY <1>0, <1>7, <1>8, <1>9, <1>10 DEF Quieted, Released
  <1>14. ASSUME NEW V, Checked(s, V) PROVE Checked(g, V)
    BY <1>6, <1>8, <1>9, <1>10, <1>14 DEF Same, Checked
  <1>17. \A r \in Woken(s, g) : s.reqs[r].pc # "stream" /\ g.reqs[r].pc # "stream"
    BY <1>0, <1>8, <1>9, <1>10
  <1>15. QED BY <1>6, <1>7, <1>9, <1>10, <1>11, <1>12, <1>13, <1>14, <1>17 DEF g, Released

(* Cancelling requests does the same, except that a request inside start() *)
(* stays there until that start returns.                                   *)
LEMMA CancelKeeps ==
    ASSUME NEW s \in States, Held(s), Ties(s), NEW S \in SUBSET Requests
    PROVE  LET g == Cancel(s, S) IN
           /\ g \in States /\ Same(s, g) /\ Held(g) /\ Ties(g)
           /\ g.rt.summaries = s.rt.summaries \ S
           /\ g.rt.preemptable = s.rt.preemptable \ S
           /\ \A V : Checked(s, V) => Checked(g, V)
           /\ \A r \in Requests :
                /\ g.reqs[r].live <=> r \notin S /\ s.reqs[r].live
                /\ g.reqs[r].pc = "stream" <=> r \notin S /\ s.reqs[r].pc = "stream"
                /\ g.reqs[r].on = IF r \in S THEN None ELSE s.reqs[r].on
  <1> DEFINE t == Settle(s, S)
             g == Cancel(s, S)
             calls == [r \in Requests |->
                IF r \in S
                THEN [t.reqs[r] EXCEPT !.pc = IF @ = "stream" THEN "over" ELSE @,
                          !.live = FALSE, !.on = None]
                ELSE t.reqs[r]]
  <1>1. /\ t \in States /\ Same(s, t) /\ Released(s, t, S)
        /\ t.reqs = [r \in Requests |-> IF r \in Woken(s, t)
                            THEN [s.reqs[r] EXCEPT !.pc = "reeval"] ELSE s.reqs[r]]
    BY SettleReleases DEF Held
  <1> HIDE DEF t
  <1>2. g.rt = t.rt /\ g.procs = t.procs /\ g.reqs = calls
        /\ (calls \in [Requests -> Calls] => g \in States)
    <2> DEFINE h == [t EXCEPT !.reqs = calls]
    <2> HIDE DEF calls
    <2>1. h.rt = t.rt /\ h.procs = t.procs /\ h.reqs = calls
          /\ (calls \in [Requests -> Calls] => h \in States)
      BY <1>1 DEF States
    <2>2. g = h
      BY DEF Cancel, t, calls
    <2>3. QED BY <2>1, <2>2
  <1>3. s.reqs \in [Requests -> Calls] /\ t.reqs \in [Requests -> Calls]
    BY <1>1 DEF States
  <1>4. ASSUME NEW r \in Requests
        PROVE  /\ calls[r] \in Calls
               /\ calls[r].pc = IF r \in S /\ t.reqs[r].pc = "stream" THEN "over" ELSE t.reqs[r].pc
               /\ calls[r].live <=> r \notin S /\ t.reqs[r].live
               /\ calls[r].on = IF r \in S THEN None ELSE t.reqs[r].on
    BY <1>3 DEF Calls, None
  <1>5. \A r \in Requests :
           /\ t.reqs[r].pc = IF r \in Woken(s, t) THEN "reeval" ELSE s.reqs[r].pc
           /\ t.reqs[r].live = s.reqs[r].live
           /\ t.reqs[r].on = s.reqs[r].on
    BY <1>1, <1>3 DEF Calls
  <1>6. calls \in [Requests -> Calls]
    BY <1>4
  <1> HIDE DEF calls, g
  <1>7. /\ g \in States /\ Same(s, g)
        /\ Released(s, g, S) /\ Woken(s, g) = Woken(s, t)
    BY <1>1, <1>2, <1>6 DEF Same, Released, Woken
  <1>8. \A r \in Woken(s, g) : s.reqs[r].pc = "drain" /\ r \in Requests
    BY DEF Held, Woken
  <1>9. \A r \in Requests :
                /\ g.reqs[r].live <=> r \notin S /\ s.reqs[r].live
                /\ g.reqs[r].pc = IF r \in Woken(s, g) THEN "reeval"
                                  ELSE IF r \in S /\ s.reqs[r].pc = "stream" THEN "over"
                                  ELSE s.reqs[r].pc
                /\ g.reqs[r].on = IF r \in S THEN None ELSE s.reqs[r].on
    BY <1>2, <1>4, <1>5, <1>7, <1>8
  <1>10. Held(g)
    <2>1. g.rt.attached = {r \in Requests : g.reqs[r].pc = "stream"}
      BY <1>7, <1>8, <1>9 DEF Held, Released
    <2>2. g.rt.drainWaiters = {r \in Requests : g.reqs[r].pc = "drain"}
      BY <1>7, <1>8, <1>9 DEF Held, Released, Woken
    <2>3. QED BY <2>1, <2>2, <1>7 DEF Held, Released
  <1>11. Ties(g)
    <2>1. Unsettled(g) = Unsettled(s)
      BY <1>7 DEF Same, Unsettled
    <2>2. \A p \in DOMAIN s.procs : s.procs[p].owner \in Owners
      BY TablesAre DEF States, Sidecars
    <2>3. ASSUME NEW p \in Unsettled(g), g.procs[p].owner # "auto"
          PROVE  g.reqs[g.procs[p].owner].pc = "own"
      <3>1. g.procs[p] = s.procs[p] /\ s.procs[p].owner \in Requests
        BY <2>1, <2>2, <2>3, <1>7 DEF Same, Owners, Unsettled
      <3>2. s.reqs[s.procs[p].owner].pc = "own"
        BY <2>1, <2>3, <3>1 DEF Ties
      <3>3. QED BY <3>1, <3>2, <1>8, <1>9
    <2>4. QED BY <2>1, <2>3, <1>7, <1>8, <1>9 DEF Same, Ties
  <1>12. ASSUME NEW V, Checked(s, V) PROVE Checked(g, V)
    BY <1>7, <1>8, <1>9, <1>12 DEF Same, Checked
  <1>13. QED BY <1>7, <1>8, <1>9, <1>10, <1>11, <1>12 DEF g, Released

(* NewId() finds an id that no process has: the ids are finitely many, so  *)
(* one of the first that many plus one is free, and a least one exists.    *)
LEMMA NewIdIsNew ==
    ASSUME NEW P, IsFiniteSet(DOMAIN P)
    PROVE  NewId(P) \in Nat \ {None} /\ NewId(P) \notin DOMAIN P
  <1> DEFINE k == Cardinality(DOMAIN P) + 1
             F == (1..k) \ DOMAIN P
  <1>1. k \in Nat
    BY FS_CardinalityType
  <1>2. F # {}
    <2> SUFFICES ASSUME 1..k \subseteq DOMAIN P PROVE FALSE
      OBVIOUS
    <2>1. Cardinality(1..k) = k
      BY <1>1, FS_Interval
    <2> HIDE DEF F
    <2>2. Cardinality(1..k) <= Cardinality(DOMAIN P)
      BY FS_Subset
    <2>3. QED BY <2>1, <2>2, <1>1, FS_CardinalityType
  <1>3. F \subseteq Nat
    BY <1>1
  <1>4. PICK n \in F : \A m \in F : n <= m
    <2> HIDE DEF F
    <2>1. QED BY <1>2, <1>3, LeastNatural
  <1>5. \A m \in 1..n - 1 : m \in DOMAIN P
    <2> SUFFICES ASSUME NEW m \in 1..n - 1, m \notin DOMAIN P PROVE FALSE
      OBVIOUS
    <2>1. m \in F /\ m < n
      BY <1>1, <1>4
    <2>2. QED BY <2>1, <1>4
  <1>6. \E x \in 1..k : x \notin DOMAIN P /\ \A m \in 1..x - 1 : m \in DOMAIN P
    BY <1>4, <1>5
  <1>7. NewId(P) \in 1..k /\ NewId(P) \notin DOMAIN P
    BY <1>6 DEF NewId
  <1>8. QED BY <1>1, <1>7 DEF None

(* The inductive invariant, of a state s that excepts the processes in X   *)
(* and with the models in V verified.                                      *)
Sound(s, X, V) ==
    s \in States /\ Sole(s, X) /\ Held(s) /\ Quieted(s) /\ Ties(s) /\ Checked(s, V)

(* Whoever is about to own a start owns no other one.                      *)
Free(s, owner) ==
    owner # "auto" =>
        /\ owner \in Requests /\ s.reqs[owner].pc = "own"
        /\ \A p \in Unsettled(s) : s.procs[p].owner # owner

(* A change of the other fields of the runtime leaves a state sound.       *)
LEMMA RuntimeChanges ==
    ASSUME NEW V, NEW X, NEW s, Sound(s, X, V), NEW g \in States, Sole(g, X),
           g.procs = s.procs, g.reqs = s.reqs, g.rt.loaded = s.rt.loaded,
           g.rt.attached = s.rt.attached, g.rt.streams = s.rt.streams,
           g.rt.drainWaiters = s.rt.drainWaiters,
           g.rt.summaries = s.rt.summaries, g.rt.preemptable = s.rt.preemptable
    PROVE  Sound(g, X, V)
  <1>1. Held(g)
    BY DEF Sound, Held
  <1>2. Quieted(g)
    BY DEF Sound, Quieted
  <1>3. Ties(g)
    BY DEF Sound, Ties, Unsettled
  <1>4. Checked(g, V)
    BY DEF Sound, Checked
  <1>5. QED BY <1>1, <1>2, <1>3, <1>4 DEF Sound

(* When a start fails its owner and all that joined it are answered. No    *)
(* process is touched and no request moves to another connection.          *)
LEMMA StartRejectsSound ==
    ASSUME NEW V, NEW X, NEW s, Sound(s, X, V), NEW generation \in Nat,
           NEW owner \in Owners, Free(s, owner)
    PROVE  LET g == StartRejects(s, generation, owner) IN
           /\ Sound(g, X, V)
           /\ g.procs = s.procs /\ g.rt.child = s.rt.child
           /\ \A r \in Requests : g.reqs[r].on # None => g.reqs[r].on = s.reqs[r].on
  <1> DEFINE t == [s EXCEPT !.rt.startPromise = IF @ = generation THEN None ELSE @]
             u == [t EXCEPT !.rt.state = "unavailable"]
             waiting == {r \in Requests : s.reqs[r].pc = "join" /\ s.reqs[r].gen = generation}
  <1>0. s \in States /\ Sole(s, X) /\ Held(s) /\ Quieted(s) /\ Ties(s) /\ Checked(s, V)
    BY DEF Sound
  <1>1. /\ t \in States /\ t.procs = s.procs /\ t.reqs = s.reqs /\ Same(s, t)
        /\ t.rt.attached = s.rt.attached /\ t.rt.streams = s.rt.streams
        /\ t.rt.drainWaiters = s.rt.drainWaiters /\ t.rt.summaries = s.rt.summaries
        /\ t.rt.preemptable = s.rt.preemptable
    BY <1>0 DEF States, Runtimes, Same, None
  <1> HIDE DEF t
  <1>2. Sound(t, X, V)
    <2>1. Sole(t, X) /\ t.rt.loaded = s.rt.loaded
      BY <1>0, <1>1, SameSidecars DEF Same
    <2>2. QED BY <2>1, <1>1, RuntimeChanges
  <1>3. /\ u \in States /\ u.procs = s.procs /\ u.reqs = s.reqs
        /\ u.rt.child = t.rt.child /\ u.rt.port = t.rt.port
        /\ u.rt.generation = t.rt.generation /\ u.rt.loaded = t.rt.loaded
        /\ u.rt.attached = t.rt.attached /\ u.rt.streams = t.rt.streams
        /\ u.rt.drainWaiters = t.rt.drainWaiters /\ u.rt.summaries = t.rt.summaries
        /\ u.rt.preemptable = t.rt.preemptable /\ u.rt.state = "unavailable"
    BY <1>1 DEF States, Runtimes
  <1> HIDE DEF u
  <1>4. Sound(u, X, V)
    <2>1. Sole(u, X)
      BY <1>1, <1>2, <1>3 DEF Sound, Sole
    <2>2. QED BY <2>1, <1>1, <1>2, <1>3, RuntimeChanges
  <1>5. waiting \in SUBSET Bystanders(s)
    BY <1>0, OwnersDiffer DEF Bystanders, Ties
  <1>6. CASE owner = "auto"
    <2>1. waiting \in SUBSET Bystanders(u)
      BY <1>3, <1>5 DEF Bystanders, Unsettled
    <2> HIDE DEF waiting
    <2>2. StartRejects(s, generation, owner) = Answer(u, waiting)
      BY <1>6 DEF StartRejects, u, t, waiting
    <2>3. QED BY <2>1, <2>2, <1>1, <1>3, <1>4, AnswerKeeps, HeldIsHeldBut, SameSidecars DEF Sound, Same
  <1>7. CASE owner # "auto"
    <2>1. waiting \cup {owner} \in SUBSET Bystanders(t)
      BY <1>1, <1>5, <1>7 DEF Bystanders, Unsettled, Free
    <2> HIDE DEF waiting
    <2>2. StartRejects(s, generation, owner) = Answer(t, waiting \cup {owner})
      BY <1>7 DEF StartRejects, t, waiting
    <2>3. QED BY <2>1, <2>2, <1>1, <1>2, AnswerKeeps, HeldIsHeldBut, SameSidecars DEF Sound, Same
  <1>8. QED BY <1>6, <1>7

(* Every process of s is in g as it was.                                   *)
Untouched(s, g) ==
    \A p \in DOMAIN s.procs : p \in DOMAIN g.procs /\ g.procs[p] = s.procs[p]

(* No request gets a connection that it did not have.                      *)
Onward(s, g) ==
    \A r \in Requests : g.reqs[r].on # None => g.reqs[r].on = s.reqs[r].on

(* Spawning gives the runtime a child when it has none. The child is new.  *)
LEMMA SpawnSound ==
    ASSUME NEW V, NEW X, NEW s, Sound(s, X, V), NEW owner \in Owners, Free(s, owner),
           s.rt.child = None, s.rt.state # "stopped", s.rt.loaded # {},
           NEW config \in Configs, config.model \in V,
           NEW candidates \in Seq(Variants), candidates # <<>>
    PROVE  LET g == Spawn(s, s.rt.generation, owner, config, candidates) IN
           /\ Sound(g, X, V) /\ Untouched(s, g)
           /\ g.rt.child \notin DOMAIN s.procs
           /\ g.reqs = s.reqs
  <1> DEFINE id == NewId(s.procs)
             proc == [generation |-> s.rt.generation, owner |-> owner, config |-> config,
                 variant |-> Head(candidates), left |-> Tail(candidates),
                 phase |-> "booting", killed |-> FALSE, settled |-> FALSE]
             P == [n \in DOMAIN s.procs \cup {id} |-> IF n = id THEN proc ELSE s.procs[n]]
             g == Spawn(s, s.rt.generation, owner, config, candidates)
  <1>0. s \in States /\ Sole(s, X) /\ Held(s) /\ Quieted(s) /\ Ties(s) /\ Checked(s, V)
    BY DEF Sound
  <1>1. /\ s.procs \in [DOMAIN s.procs -> Sidecars]
        /\ DOMAIN s.procs \subseteq Nat \ {None} /\ IsFiniteSet(DOMAIN s.procs)
        /\ s.rt.generation \in Nat
    BY <1>0, TablesAre DEF States, Runtimes
  <1>2. id \in Nat \ {None} /\ id \notin DOMAIN s.procs
    BY <1>1, NewIdIsNew
  <1>3. proc \in Sidecars
    BY <1>1 DEF Sidecars, Phases
  <1>4. /\ g.procs = P
        /\ g.rt = [s.rt EXCEPT !.child = id]
        /\ g.reqs = s.reqs
    BY <1>0 DEF Spawn, States, Runtimes
  <1>5. /\ proc.generation = s.rt.generation /\ proc.owner = owner /\ proc.config = config
        /\ proc.phase = "booting" /\ ~proc.killed /\ ~proc.settled
    OBVIOUS
  <1> HIDE DEF id, proc
  <1>6. /\ DOMAIN P = DOMAIN s.procs \cup {id} /\ P[id] = proc
        /\ \A p \in DOMAIN s.procs : P[p] = s.procs[p]
    BY <1>2
  <1>7. P \in Tables
    <2>1. IsFiniteSet(DOMAIN s.procs \cup {id})
      BY <1>1, FS_AddElement
    <2>2. P \in [DOMAIN P -> Sidecars]
      BY <1>1, <1>3
    <2> HIDE DEF P
    <2>3. QED BY <2>1, <2>2, <1>1, <1>2, <1>6, TablesAre
  <1> HIDE DEF P
  <1>8. g \in States
    <2>1. g.rt \in Runtimes
      BY <1>0, <1>2, <1>4 DEF States, Runtimes
    <2>2. QED BY <2>1, <1>0, <1>4, <1>7 DEF Spawn, States
  <1>9. /\ g.rt.child = id /\ g.rt.port = s.rt.port /\ g.rt.generation = s.rt.generation
        /\ g.rt.loaded = s.rt.loaded /\ g.rt.attached = s.rt.attached
        /\ g.rt.streams = s.rt.streams /\ g.rt.drainWaiters = s.rt.drainWaiters
        /\ g.rt.summaries = s.rt.summaries /\ g.rt.preemptable = s.rt.preemptable
        /\ g.rt.state = s.rt.state
    BY <1>0, <1>4 DEF States, Runtimes
  <1> HIDE DEF g
  <1>10. Sole(g, X)
    <2>1. \A p \in DOMAIN s.procs \ X :
             s.procs[p].killed
             /\ (s.procs[p].generation = s.rt.generation => s.procs[p].settled)
      BY <1>0, <1>1 DEF Sole
    <2>2. g.rt.port = None
      BY <1>0, <1>9 DEF Sole
    <2>3. QED BY <2>1, <2>2, <1>0, <1>1, <1>2, <1>4, <1>5, <1>6, <1>9 DEF Sole
  <1>11. Held(g) /\ Quieted(g)
    <2>0. g.reqs = s.reqs
      BY <1>4
    <2>1. Held(g)
      BY <1>0, <1>9, <2>0 DEF Held
    <2>2. Quieted(g)
      BY <1>0, <1>4, <1>9 DEF Quieted
    <2>3. QED BY <2>1, <2>2
  <1>12. Ties(g)
    <2>1. Unsettled(g) = Unsettled(s) \cup {id}
      BY <1>4, <1>5, <1>6 DEF Unsettled
    <2>2. \A p \in Unsettled(s) : p # id /\ g.procs[p] = s.procs[p]
      BY <1>2, <1>4, <1>6 DEF Unsettled
    <2>3. g.procs[id] = proc
      BY <1>4, <1>6
    <2>4. \A p \in Unsettled(g) : g.procs[p].owner # "auto" => g.reqs[g.procs[p].owner].pc = "own"
      BY <2>1, <2>2, <2>3, <1>0, <1>4, <1>5 DEF Ties, Free
    <2>5. \A p, q \in Unsettled(g) : g.procs[p].owner = g.procs[q].owner
             => p = q \/ g.procs[p].owner = "auto"
      BY <2>1, <2>2, <2>3, <1>0, <1>5 DEF Ties, Free
    <2>6. QED BY <2>4, <2>5, <1>0, <1>2, <1>4, <1>6 DEF Ties
  <1>13. Checked(g, V)
    BY <1>0, <1>4, <1>5, <1>6, <1>9 DEF Checked
  <1>14. QED BY <1>2, <1>4, <1>6, <1>8, <1>9, <1>10, <1>11, <1>12, <1>13 DEF Sound, Untouched, g

(* The candidate loop either spawns the next candidate or fails the start. *)
LEMMA TryCandidatesSound ==
    ASSUME NEW V, NEW X, NEW s, Sound(s, X, V), NEW owner \in Owners, Free(s, owner),
           s.rt.child = None, s.rt.state # "stopped", s.rt.loaded # {},
           NEW config \in Configs, config.model \in V,
           NEW candidates \in Seq(Variants)
    PROVE  LET g == TryCandidates(s, s.rt.generation, owner, config, candidates) IN
           /\ Sound(g, X, V) /\ Untouched(s, g) /\ Onward(s, g)
           /\ g.rt.child \notin DOMAIN s.procs
  <1>0. s \in States /\ Sole(s, X) /\ Held(s) /\ Quieted(s) /\ Ties(s) /\ Checked(s, V)
    BY DEF Sound
  <1>1. CASE candidates # <<>>
    BY <1>1, SpawnSound DEF TryCandidates, Onward
  <1>2. CASE candidates = <<>>
    <2> DEFINE t == [s EXCEPT !.rt.state = "stopped"]
    <2>1. /\ t \in States /\ t.procs = s.procs /\ t.reqs = s.reqs
          /\ t.rt.child = None /\ t.rt.port = s.rt.port
          /\ t.rt.generation = s.rt.generation /\ t.rt.loaded = s.rt.loaded
          /\ t.rt.attached = s.rt.attached /\ t.rt.streams = s.rt.streams
          /\ t.rt.drainWaiters = s.rt.drainWaiters /\ t.rt.summaries = s.rt.summaries
          /\ t.rt.preemptable = s.rt.preemptable
      BY <1>0 DEF States, Runtimes
    <2> HIDE DEF t
    <2>2. Sound(t, X, V)
      <3>1. Sole(t, X)
        BY <1>0, <2>1 DEF Sole
      <3>2. QED BY <3>1, <2>1, RuntimeChanges
    <2>3. Free(t, owner)
      BY <2>1 DEF Free, Unsettled
    <2>4. s.rt.generation \in Nat
      BY <1>0 DEF States, Runtimes
    <2>5. TryCandidates(s, s.rt.generation, owner, config, candidates)
            = StartRejects(t, s.rt.generation, owner)
      BY <1>2 DEF TryCandidates, t
    <2>6. None \notin DOMAIN s.procs
      BY <1>0, TablesAre DEF States
    <2>7. QED BY <2>1, <2>2, <2>3, <2>4, <2>5, <2>6, StartRejectsSound DEF Untouched, Onward
  <1>3. QED BY <1>1, <1>2

(* stopChildProcess() kills the child, forgets it and its port, and leaves *)
(* everything else.                                                        *)
LEMMA StopChildSound ==
    ASSUME NEW V, NEW X, NEW s, Sound(s, X, V)
    PROVE  LET g == StopChildProcess(s) IN
           /\ g \in States /\ g.reqs = s.reqs
           /\ g.rt.child = None /\ g.rt.port = None
           /\ g.rt.generation = s.rt.generation /\ g.rt.state = s.rt.state
           /\ g.rt.loaded = s.rt.loaded
           /\ Held(g) /\ Quieted(g) /\ Ties(g) /\ Checked(g, V)
           /\ DOMAIN g.procs = DOMAIN s.procs
           /\ \A p \in DOMAIN s.procs :
                g.procs[p] = IF p = s.rt.child THEN [s.procs[p] EXCEPT !.killed = TRUE]
                             ELSE s.procs[p]
           /\ Unsettled(g) = Unsettled(s)
           /\ \A p \in DOMAIN s.procs :
                /\ g.procs[p].generation = s.procs[p].generation
                /\ g.procs[p].settled = s.procs[p].settled
                /\ g.procs[p].owner = s.procs[p].owner
                /\ g.procs[p].killed <=> s.procs[p].killed \/ p = s.rt.child
  <1> DEFINE c == s.rt.child
             g == StopChildProcess(s)
             R == [s.rt EXCEPT !.child = None, !.port = None]
             P == IF c = None THEN s.procs
                  ELSE [s.procs EXCEPT ![c] = [s.procs[c] EXCEPT !.killed = TRUE]]
  <1>0. s \in States /\ Sole(s, X) /\ Held(s) /\ Quieted(s) /\ Ties(s) /\ Checked(s, V)
    BY DEF Sound
  <1>1. /\ s.procs \in [DOMAIN s.procs -> Sidecars]
        /\ DOMAIN s.procs \subseteq Nat \ {None} /\ IsFiniteSet(DOMAIN s.procs)
        /\ c # None => c \in DOMAIN s.procs
    BY <1>0, TablesAre DEF States, Sole
  <1>2. g.rt = R /\ g.procs = P /\ g.reqs = s.reqs
    <2>1. CASE c = None
      BY <2>1, <1>0 DEF StopChildProcess, States, Runtimes
    <2>2. CASE c # None
      BY <2>2, <1>0 DEF StopChildProcess, States, Runtimes
    <2>3. QED BY <2>1, <2>2
  <1>3. R \in Runtimes
    BY <1>0 DEF States, Runtimes, None
  <1>4. DOMAIN P = DOMAIN s.procs
        /\ \A p \in DOMAIN s.procs :
                P[p] = IF p = c THEN [s.procs[p] EXCEPT !.killed = TRUE]
                             ELSE s.procs[p]
    BY <1>1
  <1> HIDE DEF P
  <1>5. \A p \in DOMAIN s.procs :
                /\ P[p] \in Sidecars
                /\ P[p].generation = s.procs[p].generation
                /\ P[p].settled = s.procs[p].settled
                /\ P[p].owner = s.procs[p].owner
                /\ P[p].config = s.procs[p].config
                /\ P[p].killed <=> s.procs[p].killed \/ p = c
    <2> SUFFICES ASSUME NEW p \in DOMAIN s.procs
                 PROVE  /\ P[p] \in Sidecars
                        /\ P[p].generation = s.procs[p].generation
                        /\ P[p].settled = s.procs[p].settled
                        /\ P[p].owner = s.procs[p].owner
                        /\ P[p].config = s.procs[p].config
                        /\ P[p].killed <=> s.procs[p].killed \/ p = c
      OBVIOUS
    <2>1. s.procs[p] \in Sidecars
      BY <1>1
    <2>2. CASE p = c
      BY <2>1, <2>2, <1>4 DEF Sidecars
    <2>3. CASE p # c
      BY <2>1, <2>3, <1>4
    <2>4. QED BY <2>2, <2>3
  <1>6. P \in Tables
    <2>1. P = [p \in DOMAIN s.procs |-> P[p]]
      BY <1>1, <1>4 DEF P
    <2>2. QED BY <2>1, <1>1, <1>4, <1>5, TablesAre
  <1>7. g \in States
    BY <1>0, <1>2, <1>3, <1>6 DEF StopChildProcess, States
  <1>8. /\ R.child = None /\ R.port = None
        /\ R.generation = s.rt.generation
        /\ R.loaded = s.rt.loaded /\ R.attached = s.rt.attached
        /\ R.streams = s.rt.streams /\ R.drainWaiters = s.rt.drainWaiters
        /\ R.summaries = s.rt.summaries /\ R.preemptable = s.rt.preemptable
        /\ R.state = s.rt.state
    BY <1>0 DEF States, Runtimes
  <1> HIDE DEF g, R
  <1>9. Unsettled(g) = Unsettled(s)
    BY <1>2, <1>4, <1>5 DEF Unsettled
  <1>10. Held(g) /\ Quieted(g)
    BY <1>0, <1>2, <1>8 DEF Held, Quieted
  <1>11. Ties(g)
    BY <1>0, <1>2, <1>4, <1>5, <1>9 DEF Ties, Unsettled
  <1>12. Checked(g, V)
    BY <1>0, <1>2, <1>4, <1>5, <1>8 DEF Checked
  <1>13. QED BY <1>2, <1>4, <1>5, <1>7, <1>9, <1>10, <1>11, <1>12 DEF g, R

(* No request has a connection.                                            *)
NoStreams(s) == \A r \in Requests : s.reqs[r].on = None

(* Without a child every process has been killed and no port is published. *)
LEMMA StoppedHasNoChild ==
    ASSUME NEW V, NEW s, Sound(s, {}, V), s.rt.child = None
    PROVE  \A p \in DOMAIN s.procs : s.procs[p].killed /\ s.rt.port = None
  <1>1. s \in States /\ Sole(s, {})
    BY DEF Sound
  <1>2. None \notin DOMAIN s.procs
    BY <1>1, TablesAre DEF States
  <1>3. QED BY <1>1, <1>2 DEF Sole

(* Taking the runtime over kills the child of a running sidecar, makes a   *)
(* new generation and spawns the first candidate. From a stopped runtime   *)
(* it touches no process.                                                  *)
LEMMA BeginStartSound ==
    ASSUME NEW V, NEW s, Sound(s, {}, V), s.rt.state \in {"running", "stopped"},
           NEW owner \in Owners, Free(s, owner),
           NEW config \in Configs, config.model \in V
    PROVE  LET g == BeginStart(s, owner, config) IN
           /\ Sound(g, {}, V) /\ Onward(s, g)
           /\ s.rt.state = "stopped" => Untouched(s, g)
  <1> DEFINE switch == s.rt.state = "running"
             t == IF switch THEN StopChildProcess(s) ELSE s
             generation == t.rt.generation + 1
             u == [t EXCEPT !.rt.state = "starting", !.rt.generation = generation,
                      !.rt.startPromise = generation, !.rt.loaded = {config},
                      !.rt.idleTimer = @ /\ ~switch]
             left == IF t.rt.cpuPinned THEN Without(Candidates, {"vulkan"}) ELSE Candidates
  <1>0. s \in States /\ Sole(s, {}) /\ Held(s) /\ Quieted(s) /\ Ties(s) /\ Checked(s, V)
    BY DEF Sound
  <1>1. /\ t \in States /\ t.reqs = s.reqs
        /\ Held(t) /\ Quieted(t) /\ Ties(t) /\ Checked(t, V)
        /\ t.rt.child = None /\ t.rt.port = None /\ t.rt.generation = s.rt.generation
        /\ DOMAIN t.procs = DOMAIN s.procs
        /\ Unsettled(t) = Unsettled(s)
        /\ \A p \in DOMAIN s.procs :
                /\ t.procs[p].generation = s.procs[p].generation
                /\ t.procs[p].owner = s.procs[p].owner
                /\ t.procs[p].killed
        /\ s.rt.state = "stopped" => t = s
    <2>1. CASE s.rt.state = "stopped"
      <3>1. s.rt.child = None
        BY <1>0, <2>1 DEF Sole
      <3>2. QED BY <2>1, <3>1, <1>0, StoppedHasNoChild DEF Sole
    <2>2. CASE s.rt.state = "running"
      <3> DEFINE h == StopChildProcess(s)
      <3>1. /\ h \in States /\ h.reqs = s.reqs
            /\ h.rt.child = None /\ h.rt.port = None /\ h.rt.generation = s.rt.generation
            /\ Held(h) /\ Quieted(h) /\ Ties(h) /\ Checked(h, V)
            /\ DOMAIN h.procs = DOMAIN s.procs /\ Unsettled(h) = Unsettled(s)
            /\ \A p \in DOMAIN s.procs :
                /\ h.procs[p].generation = s.procs[p].generation
                /\ h.procs[p].owner = s.procs[p].owner
                /\ h.procs[p].killed <=> s.procs[p].killed \/ p = s.rt.child
        BY StopChildSound
      <3> HIDE DEF h
      <3>2. t = h
        BY <2>2 DEF h
      <3>4. \A p \in DOMAIN s.procs : h.procs[p].killed
        BY <3>1, <1>0 DEF Sole
      <3> HIDE DEF t
      <3>5. QED BY <2>2, <3>1, <3>2, <3>4
    <2>3. QED BY <2>1, <2>2
  <1> HIDE DEF t
  <1>2. s.rt.generation \in Nat
    BY <1>0 DEF States, Runtimes
  <1>3. /\ u \in States /\ u.procs = t.procs /\ u.reqs = s.reqs
        /\ u.rt.state = "starting" /\ u.rt.generation = generation
        /\ u.rt.loaded = {config} /\ u.rt.child = None /\ u.rt.port = None
        /\ u.rt.attached = t.rt.attached /\ u.rt.streams = t.rt.streams
        /\ u.rt.drainWaiters = t.rt.drainWaiters /\ u.rt.summaries = t.rt.summaries
        /\ u.rt.preemptable = t.rt.preemptable
    <2> DEFINE R == [t.rt EXCEPT !.state = "starting", !.generation = generation,
                      !.startPromise = generation, !.loaded = {config},
                      !.idleTimer = @ /\ ~switch]
    <2>1. t.rt \in Runtimes /\ generation \in Nat /\ {config} \in SUBSET Configs
      BY <1>1, <1>2 DEF States
    <2> HIDE DEF generation
    <2>2. u.rt = R /\ u.procs = t.procs /\ u.reqs = s.reqs
      BY <1>1, <2>1 DEF States, Runtimes
    <2>3. R \in Runtimes
      BY <2>1 DEF Runtimes
    <2>4. u \in States
      BY <1>1, <2>2, <2>3 DEF States
    <2>5. /\ R.state = "starting" /\ R.generation = generation
          /\ R.loaded = {config} /\ R.child = t.rt.child /\ R.port = t.rt.port
          /\ R.attached = t.rt.attached /\ R.streams = t.rt.streams
          /\ R.drainWaiters = t.rt.drainWaiters /\ R.summaries = t.rt.summaries
          /\ R.preemptable = t.rt.preemptable
      BY <2>1 DEF Runtimes
    <2> HIDE DEF R, u
    <2>6. QED BY <1>1, <2>2, <2>4, <2>5
  <1>4. generation \in Nat /\ generation > s.rt.generation
    BY <1>1, <1>2
  <1>5. left \in Seq(Variants)
    BY SomeBinary, WithoutFacts DEF Variants
  <1> HIDE DEF u, generation, left
  <1>6. Sound(u, {}, V)
    <2>1. \A p \in DOMAIN s.procs : s.procs[p].generation <= s.rt.generation
                                    /\ s.procs[p].generation \in Nat
      BY <1>0, TablesAre DEF Sole, States, Sidecars
    <2>2. Sole(u, {})
      BY <2>1, <1>1, <1>2, <1>3, <1>4 DEF Sole
    <2>3. Held(u)
      BY <1>1, <1>3 DEF Held
    <2>4. Quieted(u)
      BY <1>1, <1>3 DEF Quieted
    <2>5. Ties(u)
      BY <1>1, <1>3 DEF Ties, Unsettled
    <2>6. Checked(u, V)
      BY <1>1, <1>3 DEF Checked
    <2>7. QED BY <1>3, <2>2, <2>3, <2>4, <2>5, <2>6 DEF Sound
  <1>7. Free(u, owner)
    BY <1>1, <1>3 DEF Free, Unsettled
  <1>8. BeginStart(s, owner, config) = TryCandidates(u, u.rt.generation, owner, config, left)
    <2>1. BeginStart(s, owner, config) = TryCandidates(u, generation, owner, config, left)
      BY DEF BeginStart, u, t, generation, left
    <2>2. QED BY <2>1, <1>3
  <1>9. LET g == TryCandidates(u, u.rt.generation, owner, config, left) IN
        Sound(g, {}, V) /\ Untouched(u, g) /\ Onward(u, g)
    BY <1>3, <1>5, <1>6, <1>7, TryCandidatesSound
  <1>10. QED BY <1>1, <1>3, <1>8, <1>9 DEF Untouched, Onward

(* A request that is in none of the runtime's lists moves to the next      *)
(* point of start(), and joins at most the waiters of the drain.           *)
LEMMA MoveSound ==
    ASSUME NEW V, NEW s, Sound(s, {}, V), NEW r \in Requests,
           s.reqs[r].pc \in {"asked", "verify", "reeval"},
           NEW g \in States, Same(s, g),
           g.rt.attached = s.rt.attached, g.rt.streams = s.rt.streams,
           g.rt.summaries = s.rt.summaries, g.rt.preemptable = s.rt.preemptable,
           \A d \in Requests \ {r} : g.reqs[d] = s.reqs[d],
           g.reqs[r].live = s.reqs[r].live, g.reqs[r].on = s.reqs[r].on,
           g.reqs[r].pc \in {"join", "own", "drain"} => Wants[r].model \in V,
           \/ g.reqs[r].pc \in {"asked", "verify", "join", "own", "attach"} /\ g.rt.drainWaiters = s.rt.drainWaiters
           \/ g.reqs[r].pc = "drain" /\ g.rt.drainWaiters = s.rt.drainWaiters \cup {r} /\ s.rt.attached # {}
    PROVE  /\ Sound(g, {}, V)
           /\ g.reqs[r].pc = "own" => Free(g, r)
           /\ Untouched(s, g) /\ Onward(s, g)
  <1>0. s \in States /\ Sole(s, {}) /\ Held(s) /\ Quieted(s) /\ Ties(s) /\ Checked(s, V)
    BY DEF Sound
  <1>1. \A p \in Unsettled(s) : s.procs[p].owner # r
    BY <1>0, OwnersDiffer DEF Ties
  <1>2. Unsettled(g) = Unsettled(s) /\ g.procs = s.procs
    BY DEF Same, Unsettled
  <1>3. Sole(g, {})
    BY <1>0, SameSidecars
  <1>4. Held(g)
    BY <1>0 DEF Held
  <1>5. Quieted(g)
    BY <1>0 DEF Quieted
  <1>6. Ties(g)
    <2>1. \A p \in DOMAIN s.procs : s.procs[p].owner \in Owners
      BY <1>0, TablesAre DEF States, Sidecars
    <2>2. \A p \in Unsettled(g) : g.procs[p].owner # "auto" => g.reqs[g.procs[p].owner].pc = "own"
      BY <1>0, <1>1, <1>2, <2>1 DEF Ties, Unsettled, Owners
    <2>3. QED BY <2>2, <1>0, <1>1, <1>2 DEF Ties
  <1>7. Checked(g, V)
    BY <1>0 DEF Checked, Same
  <1>8. QED BY <1>1, <1>2, <1>3, <1>4, <1>5, <1>6, <1>7 DEF Sound, Free, Untouched, Onward

(* start() leaves a sound state, and touches an existing process only when *)
(* no request has a connection: this is the drain doing its work.          *)
LEMMA StartSound ==
    ASSUME NEW V, NEW s, Sound(s, {}, V), NEW r \in Requests,
           s.reqs[r].pc \in {"asked", "verify", "reeval"}, Wants[r].model \in V
    PROVE  LET g == Start(s, r) IN
           /\ Sound(g, {}, V) /\ Onward(s, g)
           /\ Untouched(s, g) \/ NoStreams(s)
  <1>0. s \in States /\ Sole(s, {}) /\ Held(s) /\ Quieted(s) /\ Ties(s) /\ Checked(s, V)
    BY DEF Sound
  <1>1. CASE s.rt.state = "unavailable"
    <2>1. {r} \in SUBSET Bystanders(s)
      BY <1>0, OwnersDiffer DEF Bystanders, Ties
    <2>2. Start(s, r) = Answer(s, {r})
      BY <1>1 DEF Start
    <2>3. QED BY <2>1, <2>2, <1>0, AnswerKeeps, HeldIsHeldBut, SameSidecars DEF Sound, Same, Untouched, Onward
  <1>2. CASE s.rt.state = "starting"
    <2> DEFINE g == [s EXCEPT !.reqs[r].pc = "join", !.reqs[r].gen = s.rt.startPromise]
    <2>1. g = Start(s, r)
      BY <1>2 DEF Start
    <2>2. /\ g \in States /\ Same(s, g) /\ g.rt = s.rt
          /\ \A d \in Requests \ {r} : g.reqs[d] = s.reqs[d]
          /\ g.reqs[r].live = s.reqs[r].live /\ g.reqs[r].on = s.reqs[r].on
          /\ g.reqs[r].pc = "join"
      <3> DEFINE c == [s.reqs[r] EXCEPT !.pc = "join", !.gen = s.rt.startPromise]
      <3>1. s.reqs[r] \in Calls /\ s.rt.startPromise \in Nat
        BY <1>0 DEF States, Runtimes
      <3>2. c \in Calls /\ c.pc = "join" /\ c.live = s.reqs[r].live /\ c.on = s.reqs[r].on
        BY <3>1 DEF Calls
      <3>3. g.rt = s.rt /\ g.procs = s.procs /\ g.reqs = [s.reqs EXCEPT ![r] = c]
        BY <1>0 DEF States
      <3> HIDE DEF c
      <3>4. g.reqs \in [Requests -> Calls]
        BY <1>0, <3>2, <3>3 DEF States
      <3>5. g \in States
        BY <1>0, <3>3, <3>4 DEF States
      <3> HIDE DEF g
      <3>6. QED BY <1>0, <3>2, <3>3, <3>5 DEF States, Same
    <2> HIDE DEF g
    <2>3. QED BY <2>1, <2>2, MoveSound
  <1>3. CASE s.rt.state = "running" /\ SamePaths(s.rt.loaded, Wants[r])
    <2> DEFINE g == [s EXCEPT !.reqs[r].pc = "attach"]
    <2>1. g = Start(s, r)
      BY <1>3 DEF Start
    <2>2. /\ g \in States /\ Same(s, g) /\ g.rt = s.rt
          /\ \A d \in Requests \ {r} : g.reqs[d] = s.reqs[d]
          /\ g.reqs[r].live = s.reqs[r].live /\ g.reqs[r].on = s.reqs[r].on
          /\ g.reqs[r].pc = "attach"
      BY <1>0 DEF States, Same, Calls
    <2> HIDE DEF g
    <2>3. QED BY <2>1, <2>2, MoveSound
  <1>4. CASE /\ s.rt.state = "running" /\ ~SamePaths(s.rt.loaded, Wants[r])
             /\ s.rt.streams > 0
    <2> DEFINE g == [s EXCEPT !.reqs[r].pc = "drain", !.rt.drainWaiters = @ \cup {r}]
    <2>1. g = Start(s, r)
      BY <1>4 DEF Start
    <2>2. /\ g \in States /\ Same(s, g)
          /\ g.rt.attached = s.rt.attached /\ g.rt.streams = s.rt.streams
          /\ g.rt.summaries = s.rt.summaries /\ g.rt.preemptable = s.rt.preemptable
          /\ g.rt.drainWaiters = s.rt.drainWaiters \cup {r}
          /\ \A d \in Requests \ {r} : g.reqs[d] = s.reqs[d]
          /\ g.reqs[r].live = s.reqs[r].live /\ g.reqs[r].on = s.reqs[r].on
          /\ g.reqs[r].pc = "drain"
      <3> DEFINE c == [s.reqs[r] EXCEPT !.pc = "drain"]
                 R == [s.rt EXCEPT !.drainWaiters = @ \cup {r}]
      <3>1. s.reqs[r] \in Calls /\ s.rt \in Runtimes
        BY <1>0 DEF States
      <3>2. c \in Calls /\ c.pc = "drain" /\ c.live = s.reqs[r].live /\ c.on = s.reqs[r].on
        BY <3>1 DEF Calls
      <3>3. g.rt = R /\ g.procs = s.procs /\ g.reqs = [s.reqs EXCEPT ![r] = c]
        BY <1>0 DEF States
      <3> HIDE DEF c
      <3>4. g.reqs \in [Requests -> Calls]
        BY <1>0, <3>2, <3>3 DEF States
      <3>5. R \in Runtimes
        BY <3>1 DEF Runtimes
      <3>6. /\ R.attached = s.rt.attached /\ R.streams = s.rt.streams
            /\ R.summaries = s.rt.summaries /\ R.preemptable = s.rt.preemptable
            /\ R.drainWaiters = s.rt.drainWaiters \cup {r}
            /\ R.state = s.rt.state /\ R.child = s.rt.child /\ R.port = s.rt.port
            /\ R.generation = s.rt.generation /\ R.loaded = s.rt.loaded
        BY <3>1 DEF Runtimes
      <3> HIDE DEF R
      <3>7. g \in States
        BY <1>0, <3>3, <3>4, <3>5 DEF States
      <3> HIDE DEF g
      <3>8. QED BY <1>0, <3>2, <3>3, <3>6, <3>7 DEF States, Same
    <2>3. s.rt.attached # {}
      BY <1>0, <1>4, FS_EmptySet DEF Held
    <2> HIDE DEF g
    <2>4. QED BY <2>1, <2>2, <2>3, MoveSound
  <1>5. CASE /\ s.rt.state \in {"running", "stopped"}
             /\ ~(s.rt.state = "running" /\ SamePaths(s.rt.loaded, Wants[r]))
             /\ ~(s.rt.state = "running" /\ s.rt.streams > 0)
    <2> DEFINE h == [s EXCEPT !.reqs[r].pc = "own"]
               g == BeginStart(h, r, Wants[r])
    <2>1. g = Start(s, r)
      BY <1>5 DEF Start
    <2>2. /\ h \in States /\ Same(s, h) /\ h.rt = s.rt
          /\ \A d \in Requests \ {r} : h.reqs[d] = s.reqs[d]
          /\ h.reqs[r].live = s.reqs[r].live /\ h.reqs[r].on = s.reqs[r].on
          /\ h.reqs[r].pc = "own"
      BY <1>0 DEF States, Same, Calls
    <2> HIDE DEF h
    <2>3. Sound(h, {}, V) /\ Free(h, r) /\ Untouched(s, h) /\ Onward(s, h)
      BY <2>2, MoveSound
    <2>4. r \in Owners /\ Wants[r] \in Configs
      BY RequestsAreDescribed DEF Owners, Configs, Range
    <2>5. /\ Sound(g, {}, V) /\ Onward(h, g)
          /\ s.rt.state = "stopped" => Untouched(h, g)
      BY <2>2, <2>3, <2>4, <1>5, BeginStartSound
    <2> HIDE DEF g
    <2>6. CASE s.rt.state = "stopped"
      BY <2>1, <2>3, <2>5, <2>6 DEF Onward, Untouched
    <2>7. CASE s.rt.state = "running"
      <3>1. s.rt.attached = {}
        BY <1>0, <1>5, <2>7, FS_EmptySet, FS_CardinalityType DEF Held, States, Runtimes
      <3>2. NoStreams(s)
        BY <3>1, <1>0 DEF Held, Ties, NoStreams
      <3>3. QED BY <3>2, <2>1, <2>3, <2>5 DEF Onward
    <2>8. QED BY <2>6, <2>7, <1>5
  <1>6. QED BY <1>0, <1>1, <1>2, <1>3, <1>4, <1>5 DEF States, Runtimes

(* The record of one process is replaced.                                  *)
LEMMA ProcessSet ==
    ASSUME NEW s \in States, NEW p \in DOMAIN s.procs, NEW c \in Sidecars, NEW g,
           g.rt = s.rt, g.reqs = s.reqs, g.procs = [s.procs EXCEPT ![p] = c],
           DOMAIN g = DOMAIN s, g = [x \in DOMAIN g |-> g[x]]
    PROVE  /\ g \in States
           /\ DOMAIN g.procs = DOMAIN s.procs /\ g.procs[p] = c
           /\ \A q \in DOMAIN s.procs \ {p} : g.procs[q] = s.procs[q]
  <1>1. /\ s.procs \in [DOMAIN s.procs -> Sidecars]
        /\ DOMAIN s.procs \subseteq Nat \ {None} /\ IsFiniteSet(DOMAIN s.procs)
    BY TablesAre DEF States
  <1>2. /\ DOMAIN g.procs = DOMAIN s.procs /\ g.procs[p] = c
        /\ \A q \in DOMAIN s.procs \ {p} : g.procs[q] = s.procs[q]
    BY <1>1
  <1>3. g.procs \in Tables
    <2>1. g.procs \in [DOMAIN g.procs -> Sidecars]
      BY <1>1, <1>2
    <2>2. QED BY <2>1, <1>1, <1>2, TablesAre
  <1>4. g \in States
    BY <1>3 DEF States
  <1>5. QED BY <1>2, <1>4

(* A process may become killed or settled, or move to another phase before *)
(* it is settled, and the state stays sound with it excepted.              *)
LEMMA ProcessChanges ==
    ASSUME NEW V, NEW X, NEW s, Sound(s, X, V), NEW p \in DOMAIN s.procs,
           NEW c \in Sidecars, NEW g \in States, NEW Y, X \subseteq Y,
           g.rt = s.rt, g.reqs = s.reqs, DOMAIN g.procs = DOMAIN s.procs, g.procs[p] = c,
           \A q \in DOMAIN s.procs \ {p} : g.procs[q] = s.procs[q],
           c.generation = s.procs[p].generation, c.owner = s.procs[p].owner,
           c.config = s.procs[p].config, s.procs[p].settled => c.settled,
           c.phase = s.procs[p].phase \/ ~s.procs[p].settled,
           c.killed = s.procs[p].killed \/ p \in Y,
           ~c.settled => ~s.procs[p].settled
    PROVE  Sound(g, Y, V)
  <1>0. s \in States /\ Sole(s, X) /\ Held(s) /\ Quieted(s) /\ Ties(s) /\ Checked(s, V)
    BY DEF Sound
  <1>1. Sole(g, Y)
    BY <1>0 DEF Sole
  <1>2. Held(g) /\ Quieted(g)
    BY <1>0 DEF Held, Quieted
  <1>3. \A q \in Unsettled(g) : q \in Unsettled(s) /\ g.procs[q].owner = s.procs[q].owner
    BY DEF Unsettled
  <1>4. Ties(g)
    BY <1>0, <1>3 DEF Ties
  <1>5. Checked(g, V)
    BY <1>0 DEF Checked
  <1>6. QED BY <1>1, <1>2, <1>4, <1>5 DEF Sound

(* From s to g the start of p has been settled and p is no longer the      *)
(* child. A child that was is killed.                                      *)
Rejected(s, g, p, V) ==
    /\ Sound(g, {p}, V) /\ Onward(s, g)
    /\ p \in DOMAIN g.procs /\ g.procs[p].settled /\ g.rt.child # p
    /\ s.procs[p].killed \/ s.rt.child = p => g.procs[p].killed
    /\ \A q \in DOMAIN s.procs \ {p} : q \in DOMAIN g.procs /\ g.procs[q] = s.procs[q]

(* When the promise of a spawn rejects, its process is settled and         *)
(* dropped, whether the start was cancelled, superseded, or goes on with   *)
(* the next candidate.                                                     *)
LEMMA SpawnRejectsSound ==
    ASSUME NEW V, NEW s, NEW p, Sound(s, {p}, V), p \in Unsettled(s),
           NEW cancelled \in BOOLEAN, cancelled => s.rt.child # p,
           ~cancelled /\ s.procs[p].generation = s.rt.generation =>
                s.rt.child \in {p, None} /\ s.rt.state # "stopped"
    PROVE  Rejected(s, SpawnRejects(s, p, cancelled), p, V)
  <1> DEFINE o == s.procs[p]
             c == [o EXCEPT !.settled = TRUE]
             t == [s EXCEPT !.procs[p].settled = TRUE]
             g == SpawnRejects(s, p, cancelled)
  <1>0. s \in States /\ Sole(s, {p}) /\ Held(s) /\ Quieted(s) /\ Ties(s) /\ Checked(s, V)
    BY DEF Sound
  <1>1. p \in DOMAIN s.procs /\ o \in Sidecars /\ p \in Nat \ {None} /\ ~o.settled
    BY <1>0, TablesAre DEF Unsettled, States
  <1>2. /\ c \in Sidecars /\ c.settled
        /\ c.generation = o.generation /\ c.owner = o.owner /\ c.config = o.config
        /\ c.phase = o.phase /\ c.killed = o.killed /\ c.left = o.left
    BY <1>1 DEF Sidecars
  <1>3. /\ t.rt = s.rt /\ t.reqs = s.reqs /\ t.procs = [s.procs EXCEPT ![p] = c]
        /\ DOMAIN t = DOMAIN s /\ t = [x \in DOMAIN t |-> t[x]]
    BY <1>0 DEF States
  <1> HIDE DEF c, t, g
  <1>4. /\ t \in States /\ DOMAIN t.procs = DOMAIN s.procs /\ t.procs[p] = c
        /\ \A q \in DOMAIN s.procs \ {p} : t.procs[q] = s.procs[q]
    BY <1>0, <1>1, <1>2, <1>3, ProcessSet
  <1>5. Sound(t, {p}, V)
    BY <1>1, <1>2, <1>3, <1>4, ProcessChanges
  <1>6. Free(t, o.owner) /\ o.owner \in Owners
    <2>1. \A q \in Unsettled(t) : q # p /\ q \in Unsettled(s) /\ t.procs[q] = s.procs[q]
      BY <1>2, <1>4 DEF Unsettled
    <2>2. o.owner \in Owners
      BY <1>1 DEF Sidecars
    <2>3. QED BY <2>1, <2>2, <1>0, <1>3 DEF Free, Ties, Owners
  <1>7. CASE cancelled \/ o.generation # s.rt.generation
    <2>1. g = StartRejects(t, o.generation, o.owner)
      BY <1>7 DEF SpawnRejects, g, t
    <2>2. o.generation \in Nat
      BY <1>1 DEF Sidecars
    <2>3. s.rt.child # p
      BY <1>0, <1>1, <1>7 DEF Sole
    <2> HIDE DEF o
    <2>4. /\ Sound(g, {p}, V) /\ g.procs = t.procs /\ g.rt.child = t.rt.child
          /\ \A r \in Requests : g.reqs[r].on # None => g.reqs[r].on = t.reqs[r].on
      BY <2>1, <2>2, <1>5, <1>6, StartRejectsSound
    <2>5. Onward(s, g)
      BY <2>4, <1>3 DEF Onward
    <2>6. QED BY <2>3, <2>4, <2>5, <1>1, <1>2, <1>3, <1>4 DEF g, o, Rejected
  <1>8. CASE ~(cancelled \/ o.generation # s.rt.generation)
    <2> DEFINE u == StopChildProcess(t)
    <2>1. g = TryCandidates(u, o.generation, o.owner, o.config, o.left)
      BY <1>8 DEF SpawnRejects, g, t
    <2>2. /\ u \in States /\ u.reqs = t.reqs
          /\ u.rt.child = None /\ u.rt.port = None
          /\ u.rt.generation = t.rt.generation /\ u.rt.state = t.rt.state
          /\ u.rt.loaded = t.rt.loaded
          /\ Held(u) /\ Quieted(u) /\ Ties(u) /\ Checked(u, V)
          /\ DOMAIN u.procs = DOMAIN t.procs
          /\ \A q \in DOMAIN t.procs :
                u.procs[q] = IF q = t.rt.child THEN [t.procs[q] EXCEPT !.killed = TRUE]
                             ELSE t.procs[q]
          /\ Unsettled(u) = Unsettled(t)
          /\ \A q \in DOMAIN t.procs :
                /\ u.procs[q].generation = t.procs[q].generation
                /\ u.procs[q].settled = t.procs[q].settled
                /\ u.procs[q].owner = t.procs[q].owner
                /\ u.procs[q].killed <=> t.procs[q].killed \/ q = t.rt.child
      BY <1>5, StopChildSound
    <2> HIDE DEF u
    <2>3. s.rt.child \in {p, None} /\ s.rt.state # "stopped"
      BY <1>8
    <2>4. Sole(u, {p})
      <3>0. None \notin DOMAIN s.procs
        BY <1>0, TablesAre DEF States
      <3>1. \A q \in DOMAIN s.procs \ {p} :
                s.procs[q].killed
                /\ ~(s.procs[q].generation = s.rt.generation /\ ~s.procs[q].settled)
        BY <3>0, <2>3, <1>0 DEF Sole
      <3>2. \A q \in DOMAIN s.procs : s.procs[q].generation <= s.rt.generation
        BY <1>0 DEF Sole
      <3>3. QED BY <3>1, <3>2, <2>2, <1>2, <1>3, <1>4 DEF Sole
    <2>5. Sound(u, {p}, V)
      BY <2>2, <2>4 DEF Sound
    <2>6. Free(u, o.owner)
      BY <2>2, <1>6 DEF Free, Unsettled
    <2>7. o.config \in Configs /\ o.left \in Seq(Variants) /\ o.config.model \in V
      BY <1>0, <1>1 DEF Sidecars, Checked
    <2>8. u.rt.loaded # {}
      BY <2>2, <1>0, <1>1, <1>3 DEF Checked
    <2>9. /\ Sound(g, {p}, V) /\ Untouched(u, g) /\ Onward(u, g)
          /\ g.rt.child \notin DOMAIN u.procs
      <3>1. o.generation = u.rt.generation
        BY <2>2, <1>3, <1>8
      <3>2. u.rt.child = None /\ u.rt.state # "stopped"
        BY <2>2, <2>3, <1>3
      <3>3. g = TryCandidates(u, u.rt.generation, o.owner, o.config, o.left)
        BY <2>1, <3>1
      <3> HIDE DEF o
      <3>4. QED BY <3>2, <3>3, <2>5, <2>6, <2>7, <2>8, <1>6, TryCandidatesSound
    <2>10. Onward(s, g)
      BY <2>2, <2>9, <1>3 DEF Onward
    <2>11. /\ p \in DOMAIN g.procs /\ g.procs[p] = u.procs[p] /\ g.rt.child # p
           /\ u.procs[p].settled = c.settled
           /\ u.procs[p].killed <=> c.killed \/ p = s.rt.child
      BY <2>2, <2>9, <1>1, <1>3, <1>4 DEF Untouched
    <2>12. \A q \in DOMAIN s.procs \ {p} : q \in DOMAIN g.procs /\ g.procs[q] = s.procs[q]
      <3>1. None \notin DOMAIN s.procs
        BY <1>0, TablesAre DEF States
      <3>2. \A q \in DOMAIN s.procs \ {p} : q \in DOMAIN t.procs /\ q # t.rt.child
        BY <3>1, <2>3, <1>3, <1>4
      <3>3. \A q \in DOMAIN s.procs \ {p} : u.procs[q] = s.procs[q] /\ q \in DOMAIN u.procs
        BY <3>2, <2>2, <1>4
      <3>4. QED BY <3>3, <2>9 DEF Untouched
    <2>13. QED BY <2>9, <2>10, <2>11, <2>12, <1>2 DEF g, o, Rejected
  <1>9. QED BY <1>7, <1>8

(* A process that is not the child and serves nobody leaves the table.     *)
LEMMA GoneSound ==
    ASSUME NEW V, NEW s, NEW p, Sound(s, {p}, V), p \in DOMAIN s.procs,
           s.rt.child # p, \A r \in Requests : s.reqs[r].on # p
    PROVE  LET g == Gone(s, p) IN
           /\ Sound(g, {}, V) /\ Onward(s, g)
           /\ g.rt = s.rt /\ g.reqs = s.reqs
           /\ DOMAIN g.procs = DOMAIN s.procs \ {p}
           /\ \A q \in DOMAIN s.procs \ {p} : g.procs[q] = s.procs[q]
  <1> DEFINE g == Gone(s, p)
  <1>0. s \in States /\ Sole(s, {p}) /\ Held(s) /\ Quieted(s) /\ Ties(s) /\ Checked(s, V)
    BY DEF Sound
  <1>1. /\ s.procs \in [DOMAIN s.procs -> Sidecars]
        /\ DOMAIN s.procs \subseteq Nat \ {None} /\ IsFiniteSet(DOMAIN s.procs)
    BY <1>0, TablesAre DEF States
  <1>2. g.rt = s.rt /\ g.reqs = s.reqs /\ g.procs = [q \in DOMAIN s.procs \ {p} |-> s.procs[q]]
    BY <1>0 DEF Gone, Restrict, States
  <1>3. /\ DOMAIN g.procs = DOMAIN s.procs \ {p}
        /\ \A q \in DOMAIN s.procs \ {p} : g.procs[q] = s.procs[q]
    BY <1>2
  <1>4. g.procs \in Tables
    <2>1. IsFiniteSet(DOMAIN s.procs \ {p})
      BY <1>1, FS_Subset
    <2>2. g.procs \in [DOMAIN g.procs -> Sidecars]
      BY <1>1, <1>2
    <2> HIDE DEF g
    <2>3. QED BY <2>1, <2>2, <1>1, <1>3, TablesAre
  <1>5. g \in States
    BY <1>0, <1>2, <1>4 DEF Gone, States
  <1> HIDE DEF g
  <1>6. Sole(g, {})
    BY <1>0, <1>2, <1>3 DEF Sole
  <1>12. g.rt = s.rt /\ g.reqs = s.reqs
    BY <1>2
  <1>7. Held(g)
    BY <1>0, <1>12 DEF Held
  <1>8. Quieted(g)
    BY <1>0, <1>2 DEF Quieted
  <1>9. Ties(g)
    <2>1. \A q \in Unsettled(g) : q \in Unsettled(s) /\ g.procs[q] = s.procs[q]
      BY <1>3 DEF Unsettled
    <2>2. QED BY <2>1, <1>0, <1>3, <1>12 DEF Ties
  <1>10. Checked(g, V)
    BY <1>0, <1>2, <1>3 DEF Checked
  <1>11. QED BY <1>2, <1>3, <1>5, <1>6, <1>7, <1>8, <1>9, <1>10 DEF Sound, Onward, g

(* A process that has been killed and settled needs no exception.          *)
LEMMA KilledSound ==
    ASSUME NEW V, NEW s, NEW p, Sound(s, {p}, V), p \in DOMAIN s.procs,
           s.rt.child # p, s.procs[p].killed, s.procs[p].settled
    PROVE  Sound(s, {}, V)
  <1>1. Sole(s, {})
    BY DEF Sound, Sole
  <1>2. QED BY <1>1 DEF Sound

(* An automatic restart finds the runtime stopped, so it starts again what *)
(* was loaded beside processes that have all been killed.                  *)
LEMMA AutoRestartSound ==
    ASSUME NEW V, NEW s, Sound(s, {}, V), s.rt.state = "stopped", s.rt.loaded # {}
    PROVE  LET g == AutoRestart(s) IN
           Sound(g, {}, V) /\ Untouched(s, g) /\ Onward(s, g)
  <1>0. s \in States /\ Sole(s, {}) /\ Held(s) /\ Quieted(s) /\ Ties(s) /\ Checked(s, V)
    BY DEF Sound
  <1>1. CASE s.rt.restarted
    <2> DEFINE g == [s EXCEPT !.rt.state = "unavailable"]
    <2>1. /\ g \in States /\ g.procs = s.procs /\ g.reqs = s.reqs
          /\ g.rt.child = s.rt.child /\ g.rt.port = s.rt.port
          /\ g.rt.generation = s.rt.generation /\ g.rt.loaded = s.rt.loaded
          /\ g.rt.attached = s.rt.attached /\ g.rt.streams = s.rt.streams
          /\ g.rt.drainWaiters = s.rt.drainWaiters /\ g.rt.summaries = s.rt.summaries
          /\ g.rt.preemptable = s.rt.preemptable /\ g.rt.state = "unavailable"
      BY <1>0 DEF States, Runtimes
    <2>2. g = AutoRestart(s)
      BY <1>1 DEF AutoRestart
    <2> HIDE DEF g
    <2>3. Sole(g, {})
      BY <1>0, <2>1 DEF Sole
    <2>4. Sound(g, {}, V)
      BY <2>1, <2>3, RuntimeChanges
    <2>5. QED BY <2>1, <2>2, <2>4 DEF Untouched, Onward
  <1>2. CASE ~s.rt.restarted
    <2> DEFINE h == [s EXCEPT !.rt.restarted = TRUE]
               c == CHOOSE c \in s.rt.loaded : TRUE
    <2>1. /\ h \in States /\ h.procs = s.procs /\ h.reqs = s.reqs /\ Same(s, h)
          /\ h.rt.attached = s.rt.attached /\ h.rt.streams = s.rt.streams
          /\ h.rt.drainWaiters = s.rt.drainWaiters /\ h.rt.summaries = s.rt.summaries
          /\ h.rt.preemptable = s.rt.preemptable
      BY <1>0 DEF States, Runtimes, Same
    <2>2. AutoRestart(s) = BeginStart(h, "auto", c)
      BY <1>2 DEF AutoRestart
    <2>3. c \in s.rt.loaded
      OBVIOUS
    <2> HIDE DEF h, c
    <2>4. Sound(h, {}, V)
      BY <2>1, <1>0, SameSidecars, RuntimeChanges DEF Same
    <2>5. c \in Configs /\ c.model \in V
      BY <2>3, <1>0 DEF States, Runtimes, Checked
    <2>6. Free(h, "auto") /\ "auto" \in Owners /\ h.rt.state = "stopped"
      BY <2>1 DEF Free, Owners, Same
    <2>7. LET g == BeginStart(h, "auto", c) IN
          Sound(g, {}, V) /\ Untouched(h, g) /\ Onward(h, g)
      BY <2>4, <2>5, <2>6, BeginStartSound
    <2>8. QED BY <2>1, <2>2, <2>7 DEF Untouched, Onward
  <1>3. QED BY <1>1, <1>2

(* No process is killed between s and g under a connection that lasts.     *)
Mild(s, g) ==
    \A r \in Requests :
        s.reqs[r].on # None /\ ~s.procs[s.reqs[r].on].killed /\ g.reqs[r].on = s.reqs[r].on
            => ~g.procs[s.reqs[r].on].killed

(* The inductive invariant of the specification.                           *)
IInv == Sound(Now, {}, verified)

(* What a step may do to the streams: only a stop kills a process that     *)
(* serves one.                                                             *)
Spared == rt'.state = "stopped" \/ Mild(Now, Now')

(* Become(g) makes g the next state.                                       *)
LEMMA BecomeNow ==
    ASSUME NEW g \in States, Become(g)
    PROVE  Now' = g
  BY DEF Become, Now, States

(* The parts of the current state are the variables.                       *)
LEMMA NowFields ==
    Now.rt = rt /\ Now.procs = procs /\ Now.reqs = reqs
  BY DEF Now

(* A step to a sound state that spares the streams.                        *)
LEMMA Becomes ==
    ASSUME NEW g, Become(g), Sound(g, {}, verified'), Mild(Now, g)
    PROVE  IInv' /\ Spared
  <1>1. Now' = g
    BY BecomeNow DEF Sound
  <1>2. QED BY <1>1 DEF IInv, Spared

(* Three reasons for which no stream is cut: the processes are as they     *)
(* were, nobody has a connection, or all but one process are as they were  *)
(* and that one serves nobody.                                             *)
LEMMA SettledSpared ==
    ASSUME NEW V, NEW X, NEW s, Sound(s, X, V), NEW g,
           \/ Untouched(s, g)
           \/ NoStreams(s)
           \/ \E p : /\ \A q \in DOMAIN s.procs \ {p} : q \in DOMAIN g.procs /\ g.procs[q] = s.procs[q]
                     /\ \/ p \in Unsettled(s)
                        \/ \A r \in Requests : g.reqs[r].on # p \/ g.reqs[r].on # s.reqs[r].on
    PROVE  Mild(s, g)
  <1>1. Ties(s)
    BY DEF Sound
  <1>2. \A r \in Requests : s.reqs[r].on # None =>
            s.reqs[r].on \in DOMAIN s.procs /\ s.reqs[r].on \notin Unsettled(s)
    BY <1>1 DEF Ties, Unsettled
  <1>3. CASE Untouched(s, g)
    BY <1>2, <1>3 DEF Mild, Untouched
  <1>4. CASE NoStreams(s)
    BY <1>4 DEF Mild, NoStreams
  <1>5. CASE \E p : /\ \A q \in DOMAIN s.procs \ {p} : q \in DOMAIN g.procs /\ g.procs[q] = s.procs[q]
                    /\ \/ p \in Unsettled(s)
                       \/ \A r \in Requests : g.reqs[r].on # p \/ g.reqs[r].on # s.reqs[r].on
    BY <1>2, <1>5 DEF Mild
  <1>6. QED BY <1>3, <1>4, <1>5

(* More verified models leave a state sound.                               *)
LEMMA MoreVerified ==
    ASSUME NEW V, NEW W, NEW X, NEW s, V \subseteq W, Sound(s, X, V)
    PROVE  Sound(s, X, W)
  BY DEF Sound, Checked

(* An exception may be made of any process.                                *)
LEMMA ExceptOne ==
    ASSUME NEW V, NEW p, NEW s, Sound(s, {}, V)
    PROVE  Sound(s, {p}, V)
  <1>1. Sole(s, {p})
    BY DEF Sound, Sole
  <1>2. QED BY <1>1 DEF Sound

(* markActivity() touches the idle timer only.                             *)
LEMMA MarkActivitySound ==
    ASSUME NEW s \in States
    PROVE  LET g == MarkActivity(s) IN
           /\ g \in States /\ Same(s, g) /\ g.reqs = s.reqs
           /\ g.rt.attached = s.rt.attached /\ g.rt.streams = s.rt.streams
           /\ g.rt.drainWaiters = s.rt.drainWaiters
           /\ g.rt.summaries = s.rt.summaries /\ g.rt.preemptable = s.rt.preemptable
           /\ \A V, X : Sound(s, X, V) => Sound(g, X, V)
  <1> DEFINE g == MarkActivity(s)
  <1>1. /\ g \in States /\ Same(s, g) /\ g.reqs = s.reqs
        /\ g.rt.attached = s.rt.attached /\ g.rt.streams = s.rt.streams
        /\ g.rt.drainWaiters = s.rt.drainWaiters
        /\ g.rt.summaries = s.rt.summaries /\ g.rt.preemptable = s.rt.preemptable
    BY DEF MarkActivity, States, Runtimes, Same
  <1> HIDE DEF g
  <1>2. ASSUME NEW V, NEW X, Sound(s, X, V) PROVE Sound(g, X, V)
    <2>1. Sole(g, X)
      BY <1>1, <1>2, SameSidecars DEF Sound
    <2>2. QED BY <2>1, <1>1, <1>2, RuntimeChanges DEF Same
  <1>3. QED BY <1>1, <1>2 DEF g

(* Held depends on who streams and who drains, and on the runtime's lists. *)
LEMMA HeldTransfers ==
    ASSUME NEW s, Held(s), NEW g, g.rt.attached = s.rt.attached,
           g.rt.streams = s.rt.streams, g.rt.drainWaiters = s.rt.drainWaiters,
           \A r \in Requests : /\ g.reqs[r].pc = "stream" <=> s.reqs[r].pc = "stream"
                               /\ g.reqs[r].pc = "drain" <=> s.reqs[r].pc = "drain"
    PROVE  Held(g)
  BY DEF Held

(* streamLocal() and prewarmLocal() begin. A recap pre-empts all           *)
(* background requests, and a background request is refused while one is   *)
(* in flight.                                                              *)
LEMMA AskKeeps ==
    ASSUME IInv, NEW r \in Requests, Ask(r)
    PROVE  IInv' /\ Spared
  <1> DEFINE n == Now
             s == [n EXCEPT !.reqs[r].pc = "asked", !.reqs[r].live = TRUE]
             V == verified
  <1>0. n \in States /\ Sole(n, {}) /\ Held(n) /\ Quieted(n) /\ Ties(n) /\ Checked(n, V)
        /\ Sound(n, {}, V)
    BY DEF IInv, Sound
  <1>1. /\ n.reqs[r].pc = "new" /\ V' = V
        /\ n.rt = rt /\ n.procs = procs /\ n.reqs = reqs
    BY NowFields DEF Ask
  <1>8. /\ s \in States /\ Same(n, s) /\ s.rt = n.rt
        /\ \A d \in Requests \ {r} : s.reqs[d] = n.reqs[d]
        /\ s.reqs[r].live /\ s.reqs[r].on = n.reqs[r].on /\ s.reqs[r].pc = "asked"
    <2> DEFINE c == [n.reqs[r] EXCEPT !.pc = "asked", !.live = TRUE]
    <2>1. n.reqs[r] \in Calls
      BY <1>0 DEF States
    <2>2. c \in Calls /\ c.pc = "asked" /\ c.live /\ c.on = n.reqs[r].on
      BY <2>1 DEF Calls
    <2>3. s.rt = n.rt /\ s.procs = n.procs /\ s.reqs = [n.reqs EXCEPT ![r] = c]
      BY <1>0 DEF States
    <2> HIDE DEF c, n
    <2>4. s.reqs \in [Requests -> Calls]
      BY <1>0, <2>2, <2>3 DEF States
    <2>5. s \in States
      BY <1>0, <2>3, <2>4 DEF States
    <2> HIDE DEF s
    <2>6. QED BY <1>0, <2>2, <2>3, <2>5 DEF States, Same
  <1> HIDE DEF n, s, V
  <1>9. Held(s) /\ Ties(s) /\ Checked(s, V) /\ Sole(s, {})
    <2>1. Held(s)
      <3>1. \A d \in Requests : /\ s.reqs[d].pc = "stream" <=> n.reqs[d].pc = "stream"
                                /\ s.reqs[d].pc = "drain" <=> n.reqs[d].pc = "drain"
        BY <1>1, <1>8
      <3>2. QED BY <3>1, <1>0, <1>8, HeldTransfers
    <2>2. Ties(s)
      <3>1. Unsettled(s) = Unsettled(n) /\ \A p \in Unsettled(n) : s.procs[p] = n.procs[p]
        BY <1>8 DEF Unsettled, Same
      <3>2. \A p \in DOMAIN n.procs : n.procs[p].owner \in Owners
        BY <1>0, TablesAre DEF States, Sidecars
      <3>3. \A p \in Unsettled(n) : n.procs[p].owner # r
        BY <1>0, <1>1, OwnersDiffer DEF Ties
      <3>4. \A p \in Unsettled(n) : n.procs[p].owner # "auto" => n.procs[p].owner \in Requests \ {r}
        BY <3>2, <3>3 DEF Owners, Unsettled
      <3>5. n.reqs[r].on = None
        BY <1>0, <1>1 DEF Ties
      <3>6. QED BY <3>1, <3>4, <3>5, <1>0, <1>8 DEF Ties, Same
    <2>3. Checked(s, V)
      BY <1>0, <1>8 DEF Checked, Same
    <2>4. QED BY <2>1, <2>2, <2>3, <1>0, <1>8, SameSidecars
  <1>10. Kind[r] # "background" => Sound(s, {}, V)
    <2>1. Kind[r] # "background" => Quieted(s)
      BY <1>0, <1>8 DEF Quieted
    <2>2. QED BY <2>1, <1>8, <1>9 DEF Sound
  <1>11. ASSUME NEW g, g.procs = n.procs PROVE Mild(n, g)
    BY <1>0, <1>11, SettledSpared DEF Untouched
  <1>12. ASSUME NEW g, Sound(g, {}, V), g.procs = n.procs, Become(g)
         PROVE  IInv' /\ Spared
    BY <1>1, <1>11, <1>12, Becomes DEF n, V
  <1>2. CASE Kind[r] = "background" /\ rt.summaries # {} /\ Become(Answer(s, {r}))
    <2> DEFINE g == Answer(s, {r})
    <2>1. {r} \in SUBSET Bystanders(s)
      BY <1>8, <1>9, OwnersDiffer DEF Bystanders, Ties
    <2>2. /\ g \in States /\ Same(s, g) /\ Held(g) /\ Ties(g) /\ Checked(g, V)
          /\ g.rt.preemptable = s.rt.preemptable \ {r}
          /\ g.rt.summaries = s.rt.summaries \ {r}
          /\ \A d \in Requests \ {r} : /\ g.reqs[d].live = s.reqs[d].live
                                       /\ g.reqs[d].pc = "stream" <=> s.reqs[d].pc = "stream"
          /\ ~g.reqs[r].live /\ g.reqs[r].pc = "over"
      BY <2>1, <1>8, <1>9, AnswerKeeps, HeldIsHeldBut
    <2> HIDE DEF g
    <2>3. Quieted(g)
      BY <2>2, <1>0, <1>8 DEF Quieted
    <2>4. Sound(g, {}, V)
      BY <2>2, <2>3, <1>9, SameSidecars DEF Sound
    <2>5. g.procs = n.procs /\ Become(g)
      BY <2>2, <1>2, <1>8 DEF Same, g
    <2>6. QED BY <2>4, <2>5, <1>12
  <1>3. CASE Kind[r] = "background" /\ rt.summaries = {} /\ Become([s EXCEPT !.rt.preemptable = @ \cup {r}])
    <2> DEFINE g == [s EXCEPT !.rt.preemptable = @ \cup {r}]
    <2>1. /\ g \in States /\ Same(s, g) /\ g.reqs = s.reqs
          /\ g.rt.attached = s.rt.attached /\ g.rt.streams = s.rt.streams
          /\ g.rt.drainWaiters = s.rt.drainWaiters
          /\ g.rt.summaries = s.rt.summaries
          /\ g.rt.preemptable = s.rt.preemptable \cup {r}
      BY <1>8 DEF States, Runtimes, Same
    <2>2. Become(g)
      BY <1>3
    <2> HIDE DEF g
    <2>3. Quieted(g)
      BY <2>1, <1>0, <1>1, <1>3, <1>8 DEF Quieted
    <2>4. Held(g)
      BY <2>1, <1>9 DEF Held
    <2>5. Ties(g)
      BY <2>1, <1>9 DEF Ties, Same, Unsettled
    <2>6. Checked(g, V)
      BY <2>1, <1>9 DEF Checked, Same
    <2>7. Sole(g, {})
      BY <2>1, <1>9, SameSidecars
    <2>8. QED BY <2>1, <2>2, <2>3, <2>4, <2>5, <2>6, <2>7, <1>8, <1>12 DEF Sound, Same
  <1>4. CASE Kind[r] = "recap" /\ Become(Cancel([s EXCEPT !.rt.summaries = @ \cup {r}], rt.preemptable))
    <2> DEFINE h == [s EXCEPT !.rt.summaries = @ \cup {r}]
               S == n.rt.preemptable
               g == Cancel(h, S)
    <2>1. /\ h \in States /\ Same(s, h) /\ h.reqs = s.reqs
          /\ h.rt.attached = s.rt.attached /\ h.rt.streams = s.rt.streams
          /\ h.rt.drainWaiters = s.rt.drainWaiters
          /\ h.rt.preemptable = s.rt.preemptable
          /\ S \in SUBSET Requests
      BY <1>0, <1>8 DEF States, Runtimes, Same
    <2>2. Become(g)
      BY <1>1, <1>4
    <2> HIDE DEF h
    <2>3. Held(h) /\ Ties(h) /\ Checked(h, V) /\ Sole(h, {})
      <3>1. Held(h)
        BY <2>1, <1>9 DEF Held
      <3>2. Ties(h)
        BY <2>1, <1>9 DEF Ties, Same, Unsettled
      <3>3. Checked(h, V)
        BY <2>1, <1>9 DEF Checked, Same
      <3>4. QED BY <3>1, <3>2, <3>3, <2>1, <1>9, SameSidecars
    <2>4. /\ g \in States /\ Same(h, g) /\ Held(g) /\ Ties(g) /\ Checked(g, V)
          /\ g.rt.preemptable = h.rt.preemptable \ S
          /\ \A d \in Requests :
                /\ g.reqs[d].live <=> d \notin S /\ h.reqs[d].live
                /\ g.reqs[d].pc = "stream" <=> d \notin S /\ h.reqs[d].pc = "stream"
      BY <2>1, <2>3, CancelKeeps
    <2> HIDE DEF g
    <2>5. g.rt.preemptable = {}
      BY <2>1, <2>4, <1>8
    <2>6. Quieted(g)
      BY <2>1, <2>4, <2>5, <1>0, <1>4, <1>8 DEF Quieted
    <2>7. Sound(g, {}, V)
      BY <2>3, <2>4, <2>6, SameSidecars DEF Sound
    <2>8. QED BY <2>1, <2>2, <2>4, <2>7, <1>8, <1>12 DEF Same
  <1>5. CASE Kind[r] = "ask" /\ Become(s)
    BY <1>5, <1>8, <1>10, <1>12 DEF Same
  <1>6. CASE Kind[r] = "prewarm" /\ Become(MarkActivity(s))
    <2> DEFINE g == MarkActivity(s)
    <2>1. Sound(g, {}, V) /\ Same(s, g)
      BY <1>6, <1>8, <1>10, MarkActivitySound
    <2> HIDE DEF g
    <2>2. Become(g)
      BY <1>6 DEF g
    <2>3. QED BY <2>1, <2>2, <1>8, <1>12 DEF Same
  <1>7. QED
    <2>1. Kind[r] \in Kinds
      BY RequestsAreDescribed
    <2>2. QED BY <2>1, <1>2, <1>3, <1>4, <1>5, <1>6 DEF Ask, Kinds, s, n

(* A request calls start() with a model that has been verified.            *)
LEMMA StartKeeps ==
    ASSUME IInv, NEW r \in Requests, reqs[r].pc \in {"asked", "verify", "reeval"},
           verified \subseteq verified', Wants[r].model \in verified',
           Become(Start(Now, r))
    PROVE  IInv' /\ Spared
  <1> DEFINE n == Now
             g == Start(n, r)
             W == verified'
  <1>1. Sound(n, {}, W)
    BY MoreVerified DEF IInv
  <1>2. n.reqs[r].pc \in {"asked", "verify", "reeval"}
    BY NowFields
  <1> HIDE DEF n
  <1>3. Sound(g, {}, W) /\ (Untouched(n, g) \/ NoStreams(n))
    BY <1>1, <1>2, StartSound
  <1> HIDE DEF g
  <1>4. Mild(n, g)
    BY <1>1, <1>3, SettledSpared
  <1> HIDE DEF W
  <1>5. QED BY <1>3, <1>4, Becomes DEF n, g, W

(* ensureLocalRuntimeStarted() verifies a model, unless the runtime runs   *)
(* and has it loaded: then it had been verified.                           *)
LEMMA EnsureKeeps ==
    ASSUME IInv, NEW r \in Requests, Ensure(r)
    PROVE  IInv' /\ Spared
  <1> DEFINE n == Now
             V == verified
             s == [n EXCEPT !.reqs[r].pc = "verify"]
  <1>0. n \in States /\ Checked(n, V) /\ Sound(n, {}, V)
    BY DEF IInv, Sound
  <1>1. /\ n.reqs[r].pc = "asked" /\ reqs[r].pc = "asked" /\ V' = V
        /\ n.rt = rt /\ n.procs = procs /\ n.reqs = reqs
    BY NowFields DEF Ensure
  <1>2. CASE NeedsVerifying(r)
    <2>1. Become(s)
      BY <1>2 DEF Ensure
    <2>2. /\ s \in States /\ Same(n, s) /\ s.rt = n.rt
          /\ \A d \in Requests \ {r} : s.reqs[d] = n.reqs[d]
          /\ s.reqs[r].live = n.reqs[r].live /\ s.reqs[r].on = n.reqs[r].on
          /\ s.reqs[r].pc = "verify"
      <3> HIDE DEF n
      <3>1. QED BY <1>0 DEF States, Same, Calls
    <2> HIDE DEF n, s
    <2>3. Sound(s, {}, V) /\ Untouched(n, s)
      BY <2>2, <1>0, <1>1, MoveSound
    <2>4. Mild(n, s)
      BY <2>3, <1>0, SettledSpared
    <2>5. QED BY <2>1, <2>3, <2>4, <1>1, Becomes DEF n
  <1>3. CASE ~NeedsVerifying(r)
    <2>1. \E l \in rt.loaded : l.model = Wants[r].model
      BY <1>3 DEF NeedsVerifying
    <2>2. Wants[r].model \in V
      <3> HIDE DEF n
      <3>1. QED BY <2>1, <1>0, <1>1 DEF Checked
    <2>3. Become(Start(Now, r))
      BY <1>3 DEF Ensure
    <2>4. QED BY <2>2, <2>3, <1>1, StartKeeps
  <1>4. QED BY <1>2, <1>3

(* A request outside start() is answered.                                  *)
LEMMA AnswerOne ==
    ASSUME NEW V, NEW s, Sound(s, {}, V), NEW r \in Requests,
           s.reqs[r].pc \in {"new", "asked", "verify", "reeval", "attach", "stream"}
    PROVE  LET g == Answer(s, {r}) IN
           g \in States /\ Sound(g, {}, V) /\ g.procs = s.procs
  <1>1. {r} \in SUBSET Bystanders(s)
    BY OwnersDiffer DEF Sound, Bystanders, Ties
  <1>2. QED BY <1>1, AnswerKeeps, HeldIsHeldBut, SameSidecars DEF Sound, Same

(* verifyIntegrity() has answered: the model is verified and start() is    *)
(* called, or the request fails.                                           *)
LEMMA VerifiedKeeps ==
    ASSUME IInv, NEW r \in Requests, Verified(r)
    PROVE  IInv' /\ Spared
  <1> DEFINE n == Now
             V == verified
  <1>0. Sound(n, {}, V)
    BY DEF IInv
  <1>1. n.reqs[r].pc = "verify" /\ reqs[r].pc = "verify"
    BY NowFields DEF Verified
  <1>2. CASE Wants[r].model \in Corrupt
    <2> DEFINE g == Answer(n, {r})
    <2>1. Become(g) /\ V' = V
      BY <1>2 DEF Verified
    <2> HIDE DEF n
    <2>2. Sound(g, {}, V) /\ g.procs = n.procs
      BY <1>0, <1>1, AnswerOne
    <2> HIDE DEF g
    <2>3. Mild(n, g)
      BY <2>2, <1>0, SettledSpared DEF Untouched
    <2>4. QED BY <2>1, <2>2, <2>3, Becomes DEF n
  <1>3. CASE Wants[r].model \notin Corrupt
    <2>1. Become(Start(Now, r)) /\ verified' = verified \cup {Wants[r].model}
      BY <1>3 DEF Verified
    <2>2. QED BY <2>1, <1>1, StartKeeps
  <1>4. QED BY <1>2, <1>3

(* A start() that waited is evaluated again.                               *)
LEMMA ReevaluateKeeps ==
    ASSUME IInv, NEW r \in Requests, Reevaluate(r)
    PROVE  IInv' /\ Spared
  <1>1. reqs[r].pc = "reeval" /\ Become(Start(Now, r)) /\ verified' = verified
    BY DEF Reevaluate
  <1>2. Wants[r].model \in verified
    BY <1>1, NowFields DEF IInv, Sound, Checked
  <1>3. QED BY <1>1, <1>2, StartKeeps

(* A step that leaves the processes alone cuts no stream.                  *)
LEMMA SamePlaces ==
    ASSUME NEW V, NEW s, Sound(s, {}, V), NEW g, Sound(g, {}, V), g.procs = s.procs,
           Become(g), Now = s, verified' = V
    PROVE  IInv' /\ Spared
  <1>1. Mild(s, g)
    BY SettledSpared DEF Untouched
  <1>2. QED BY <1>1, Becomes

(* start() has returned. The request is over already, or has no sidecar to *)
(* attach to, or counts itself and streams.                                *)
LEMMA AttachKeeps ==
    ASSUME IInv, NEW r \in Requests, Attach(r)
    PROVE  IInv' /\ Spared
  <1> DEFINE n == Now
             V == verified
             m == MarkActivity(n)
             counted == [m EXCEPT !.rt.streams = @ + 1, !.rt.attached = @ \cup {r}]
  <1>0. n \in States /\ Sole(n, {}) /\ Held(n) /\ Quieted(n) /\ Ties(n) /\ Checked(n, V)
        /\ Sound(n, {}, V)
    BY DEF IInv, Sound
  <1>1. /\ n.reqs[r].pc = "attach" /\ V' = V
        /\ n.rt = rt /\ n.procs = procs /\ n.reqs = reqs
    BY NowFields DEF Attach
  <1>2. /\ m \in States /\ Same(n, m) /\ m.reqs = n.reqs
        /\ m.rt.attached = n.rt.attached /\ m.rt.streams = n.rt.streams
        /\ m.rt.drainWaiters = n.rt.drainWaiters
        /\ m.rt.summaries = n.rt.summaries /\ m.rt.preemptable = n.rt.preemptable
        /\ Sound(m, {}, V)
    BY <1>0, MarkActivitySound
  <1>3. \/ ~reqs[r].live /\ Become([n EXCEPT !.reqs[r].pc = "over"])
        \/ /\ reqs[r].live /\ Kind[r] = "prewarm"
           /\ Become(Answer(m, {r})) \/ Become(Answer(n, {r}))
        \/ reqs[r].live /\ rt.port = None /\ Become(Answer(counted, {r}))
        \/ /\ reqs[r].live /\ rt.port # None
           /\ Become([counted EXCEPT !.reqs[r].pc = "stream", !.reqs[r].on = rt.port])
    <2>1. rt.port = None \/ rt.port # None
      OBVIOUS
    <2> HIDE DEF counted, m
    <2>2. QED BY <2>1 DEF Attach, counted, m, n
  <1> HIDE DEF m, n, V
  <1>4. /\ counted \in States /\ Same(m, counted) /\ counted.reqs = m.reqs
        /\ counted.rt.attached = m.rt.attached \cup {r}
        /\ counted.rt.streams = m.rt.streams + 1
        /\ counted.rt.drainWaiters = m.rt.drainWaiters
        /\ counted.rt.summaries = m.rt.summaries /\ counted.rt.preemptable = m.rt.preemptable
    <2> DEFINE R == [m.rt EXCEPT !.streams = @ + 1, !.attached = @ \cup {r}]
    <2>1. m.rt \in Runtimes
      BY <1>2 DEF States
    <2>2. counted.rt = R /\ counted.procs = m.procs /\ counted.reqs = m.reqs
      BY <1>2 DEF States
    <2>3. R \in Runtimes
      <3> DEFINE x == m.rt.streams + 1
                 y == m.rt.attached \cup {r}
      <3>1. x \in Nat /\ y \in SUBSET Requests
        BY <2>1 DEF Runtimes
      <3>2. R = [m.rt EXCEPT !.streams = x, !.attached = y]
        BY <2>1 DEF Runtimes
      <3> HIDE DEF x, y, R
      <3>3. QED BY <2>1, <3>1, <3>2 DEF Runtimes
    <2>4. counted \in States
      BY <2>2, <2>3, <1>2 DEF States
    <2>5. /\ R.attached = m.rt.attached \cup {r} /\ R.streams = m.rt.streams + 1
          /\ R.drainWaiters = m.rt.drainWaiters
          /\ R.summaries = m.rt.summaries /\ R.preemptable = m.rt.preemptable
          /\ R.state = m.rt.state /\ R.child = m.rt.child /\ R.port = m.rt.port
          /\ R.generation = m.rt.generation /\ R.loaded = m.rt.loaded
      BY <2>1 DEF Runtimes
    <2> HIDE DEF R, counted
    <2>6. QED BY <2>2, <2>4, <2>5 DEF Same
  <1>5. /\ r \notin n.rt.attached /\ IsFiniteSet(n.rt.attached \cup {r})
        /\ n.rt.streams + 1 = Cardinality(n.rt.attached \cup {r})
    <2>1. r \notin n.rt.attached
      BY <1>0, <1>1 DEF Held
    <2>2. QED BY <2>1, <1>0, FS_AddElement DEF Held
  <1> HIDE DEF counted
  <1>6. CASE ~reqs[r].live /\ Become([n EXCEPT !.reqs[r].pc = "over"])
    <2> DEFINE g == [n EXCEPT !.reqs[r].pc = "over"]
    <2>1. /\ g \in States /\ Same(n, g) /\ g.rt = n.rt
          /\ \A d \in Requests \ {r} : g.reqs[d] = n.reqs[d]
          /\ g.reqs[r].live = n.reqs[r].live /\ g.reqs[r].on = n.reqs[r].on
          /\ g.reqs[r].pc = "over"
      BY <1>0 DEF States, Same, Calls
    <2>2. Become(g)
      BY <1>6
    <2> HIDE DEF g
    <2>3. Held(g)
      <3>1. \A d \in Requests : /\ g.reqs[d].pc = "stream" <=> n.reqs[d].pc = "stream"
                                /\ g.reqs[d].pc = "drain" <=> n.reqs[d].pc = "drain"
        BY <2>1, <1>1
      <3>2. QED BY <3>1, <2>1, <1>0 DEF Held
    <2>4. Quieted(g)
      BY <2>1, <1>0, <1>1 DEF Quieted
    <2>5. Ties(g)
      <3>1. \A d \in Requests : g.reqs[d].on = n.reqs[d].on
                                /\ (n.reqs[d].pc \in {"own", "stream"} => g.reqs[d].pc = n.reqs[d].pc)
        BY <2>1, <1>1
      <3>2. \A p \in DOMAIN n.procs : n.procs[p].owner \in Owners
        BY <1>0, TablesAre DEF States, Sidecars
      <3>3. Unsettled(g) = Unsettled(n) /\ g.procs = n.procs
        BY <2>1 DEF Unsettled, Same
      <3>4. \A p \in Unsettled(n) : n.procs[p].owner # "auto" => n.procs[p].owner \in Requests
        BY <3>2 DEF Unsettled, Owners
      <3>5. \A p \in Unsettled(g) : g.procs[p].owner # "auto" => g.reqs[g.procs[p].owner].pc = "own"
        BY <3>1, <3>3, <3>4, <1>0 DEF Ties
      <3>6. QED BY <3>1, <3>3, <3>5, <1>0 DEF Ties
    <2>6. Checked(g, V)
      BY <2>1, <1>0 DEF Checked, Same
    <2>7. Sound(g, {}, V)
      BY <2>1, <2>3, <2>4, <2>5, <2>6, <1>0, SameSidecars DEF Sound
    <2>8. QED BY <2>1, <2>2, <2>7, <1>0, <1>1, SamePlaces DEF Same, n, V
  <1>7. CASE Become(Answer(m, {r})) \/ Become(Answer(n, {r}))
    <2>1. m.reqs[r].pc = "attach" /\ m.procs = n.procs
      BY <1>1, <1>2 DEF Same
    <2>2. LET g == Answer(m, {r}) IN Sound(g, {}, V) /\ g.procs = n.procs
      BY <2>1, <1>2, AnswerOne
    <2>3. LET g == Answer(n, {r}) IN Sound(g, {}, V) /\ g.procs = n.procs
      BY <1>0, <1>1, AnswerOne
    <2>4. QED BY <2>2, <2>3, <1>0, <1>1, <1>7, SamePlaces DEF n, V
  <1>8. CASE reqs[r].live /\ rt.port = None /\ Become(Answer(counted, {r}))
    <2> DEFINE g == Answer(counted, {r})
    <2>1. Ties(counted) /\ Quieted(counted) /\ Checked(counted, V) /\ Sole(counted, {})
      <3>1. Ties(counted)
        BY <1>2, <1>4 DEF Sound, Ties, Same, Unsettled
      <3>2. Quieted(counted)
        BY <1>2, <1>4 DEF Sound, Quieted
      <3>3. Checked(counted, V)
        BY <1>2, <1>4 DEF Sound, Checked, Same
      <3>4. QED BY <3>1, <3>2, <3>3, <1>2, <1>4, SameSidecars DEF Sound
    <2>2. HeldBut(counted, {r})
      <3>1. counted.rt.attached \ {r} = {d \in Requests \ {r} : counted.reqs[d].pc = "stream"}
        BY <1>0, <1>1, <1>2, <1>4 DEF Held
      <3>2. counted.rt.drainWaiters = {d \in Requests : counted.reqs[d].pc = "drain"}
        BY <1>0, <1>2, <1>4 DEF Held
      <3>3. QED BY <3>1, <3>2, <1>2, <1>4, <1>5 DEF HeldBut
    <2>3. {r} \in SUBSET Bystanders(counted)
      BY <2>1, <1>1, <1>2, <1>4, OwnersDiffer DEF Bystanders, Ties
    <2>4. g \in States /\ Same(counted, g) /\ Held(g) /\ Ties(g) /\ Quieted(g) /\ Checked(g, V)
      BY <2>1, <2>2, <2>3, <1>4, AnswerKeeps
    <2>5. Become(g)
      BY <1>8
    <2> HIDE DEF g
    <2>6. Sound(g, {}, V) /\ g.procs = n.procs
      BY <2>1, <2>4, <1>2, <1>4, SameSidecars DEF Sound, Same
    <2>7. QED BY <2>5, <2>6, <1>0, <1>1, SamePlaces DEF n, V
  <1>9. CASE /\ reqs[r].live /\ rt.port # None
             /\ Become([counted EXCEPT !.reqs[r].pc = "stream", !.reqs[r].on = rt.port])
    <2> DEFINE g == [counted EXCEPT !.reqs[r].pc = "stream", !.reqs[r].on = rt.port]
               c == [n.reqs[r] EXCEPT !.pc = "stream", !.on = rt.port]
    <2>1. n.reqs[r] \in Calls /\ rt.port \in Nat
      BY <1>0, <1>1 DEF States, Runtimes
    <2>2. c \in Calls /\ c.pc = "stream" /\ c.on = rt.port /\ c.live = n.reqs[r].live
      BY <2>1 DEF Calls
    <2>3. g.rt = counted.rt /\ g.procs = counted.procs /\ g.reqs = [n.reqs EXCEPT ![r] = c]
      BY <1>2, <1>4 DEF States
    <2> HIDE DEF c
    <2>4. g.reqs \in [Requests -> Calls]
      BY <2>2, <2>3, <1>0 DEF States
    <2>5. g \in States
      BY <2>3, <2>4, <1>4 DEF States
    <2>6. Become(g)
      BY <1>9
    <2> HIDE DEF g
    <2>7. /\ g.reqs[r] = c /\ \A d \in Requests \ {r} : g.reqs[d] = n.reqs[d]
          /\ g.procs = n.procs /\ Same(n, g)
      BY <2>3, <1>0, <1>2, <1>4 DEF States, Same
    <2>8. Held(g)
      <3>1. \A d \in Requests : /\ g.reqs[d].pc = "stream" <=> d = r \/ n.reqs[d].pc = "stream"
                                /\ g.reqs[d].pc = "drain" <=> n.reqs[d].pc = "drain"
        BY <2>2, <2>7, <1>1
      <3>2. QED BY <3>1, <2>3, <1>0, <1>2, <1>4, <1>5 DEF Held
    <2>9. Quieted(g)
      <3>1. \A d \in Requests : g.reqs[d].live = n.reqs[d].live
        BY <2>2, <2>7
      <3>2. \A d \in Requests : g.reqs[d].pc = "stream" => d = r \/ n.reqs[d].pc = "stream"
        BY <2>7
      <3>3. n.reqs[r].live
        BY <1>1, <1>9
      <3>4. g.rt.summaries = n.rt.summaries /\ g.rt.preemptable = n.rt.preemptable
        BY <2>3, <1>2, <1>4
      <3>5. QED BY <3>1, <3>2, <3>3, <3>4, <1>0 DEF Quieted
    <2>10. Ties(g)
      <3>1. \A d \in Requests \ {r} : g.reqs[d].on = n.reqs[d].on
                                /\ (n.reqs[d].pc \in {"own", "stream"} => g.reqs[d].pc = n.reqs[d].pc)
        BY <2>7, <1>1
      <3>2. \A p \in DOMAIN n.procs : n.procs[p].owner \in Owners
        BY <1>0, TablesAre DEF States, Sidecars
      <3>3. Unsettled(g) = Unsettled(n) /\ g.procs = n.procs
        BY <2>7 DEF Unsettled
      <3>4. \A p \in Unsettled(n) : n.procs[p].owner # "auto" => n.procs[p].owner \in Requests \ {r}
        BY <3>2, <1>0, <1>1 DEF Unsettled, Owners, Ties
      <3>5. \A p \in Unsettled(g) : g.procs[p].owner # "auto" => g.reqs[g.procs[p].owner].pc = "own"
        BY <3>1, <3>3, <3>4, <1>0 DEF Ties
      <3>6. rt.port \in DOMAIN n.procs /\ n.procs[rt.port].settled
        BY <1>0, <1>1, <1>9 DEF Sole
      <3>7. QED BY <3>1, <3>3, <3>5, <3>6, <2>2, <2>7, <1>0 DEF Ties
    <2>11. Checked(g, V)
      BY <2>2, <2>7, <1>0 DEF Checked, Same
    <2>12. Sound(g, {}, V)
      BY <2>5, <2>7, <2>8, <2>9, <2>10, <2>11, <1>0, SameSidecars DEF Sound
    <2>13. QED BY <2>6, <2>7, <2>12, <1>0, <1>1, SamePlaces DEF n, V
  <1>10. QED BY <1>3, <1>6, <1>7, <1>8, <1>9

(* A stream ends and rearms the idle timer.                                *)
LEMMA StreamEndsKeeps ==
    ASSUME IInv, NEW r \in Requests, StreamEnds(r)
    PROVE  IInv' /\ Spared
  <1> DEFINE n == Now
             a == Answer(n, {r})
             g == MarkActivity(a)
  <1>1. n.reqs[r].pc = "stream" /\ verified' = verified /\ Become(g)
    BY NowFields DEF StreamEnds
  <1>2. Sound(n, {}, verified)
    BY DEF IInv
  <1> HIDE DEF n
  <1>3. a \in States /\ Sound(a, {}, verified) /\ a.procs = n.procs
    BY <1>1, <1>2, AnswerOne
  <1> HIDE DEF a
  <1>4. Sound(g, {}, verified) /\ g.procs = n.procs
    BY <1>3, MarkActivitySound DEF Same
  <1>5. QED BY <1>1, <1>2, <1>4, SamePlaces DEF n

(* A request is cancelled.                                                 *)
LEMMA AbortKeeps ==
    ASSUME IInv, NEW r \in Requests, Abort(r)
    PROVE  IInv' /\ Spared
  <1> DEFINE n == Now
             V == verified
             g == Cancel(n, {r})
  <1>0. n \in States /\ Sole(n, {}) /\ Held(n) /\ Quieted(n) /\ Ties(n) /\ Checked(n, V)
        /\ Sound(n, {}, V)
    BY DEF IInv, Sound
  <1>1. V' = V /\ Become(g)
    BY DEF Abort
  <1> HIDE DEF n, V
  <1>2. /\ g \in States /\ Same(n, g) /\ Held(g) /\ Ties(g) /\ Checked(g, V)
        /\ g.rt.summaries = n.rt.summaries \ {r}
        /\ g.rt.preemptable = n.rt.preemptable \ {r}
        /\ \A d \in Requests :
                /\ g.reqs[d].live <=> d \notin {r} /\ n.reqs[d].live
                /\ g.reqs[d].pc = "stream" <=> d \notin {r} /\ n.reqs[d].pc = "stream"
    BY <1>0, CancelKeeps
  <1> HIDE DEF g
  <1>3. Quieted(g)
    BY <1>0, <1>2 DEF Quieted
  <1>4. Sound(g, {}, V) /\ g.procs = n.procs
    BY <1>0, <1>2, <1>3, SameSidecars DEF Sound, Same
  <1>5. QED BY <1>0, <1>1, <1>4, SamePlaces DEF n, V

(* The rejection of a spawn leaves a sound state, and so does the removal  *)
(* of its process, which served nobody.                                    *)
LEMMA RejectedIsGone ==
    ASSUME NEW V, NEW s, NEW p, Sound(s, {}, V), p \in Unsettled(s),
           NEW cancelled \in BOOLEAN,
           cancelled => s.procs[p].generation # s.rt.generation \/ s.rt.child # p
    PROVE  LET g == SpawnRejects(s, p, cancelled) IN
           Sound(g, {}, V) /\ Sound(Gone(g, p), {}, V) /\ Mild(s, g) /\ Mild(s, Gone(g, p))
  <1> DEFINE g == SpawnRejects(s, p, cancelled)
             e == Gone(g, p)
  <1>0. s \in States /\ Sole(s, {}) /\ Ties(s) /\ Sound(s, {p}, V)
    BY ExceptOne DEF Sound
  <1>1. cancelled => s.rt.child # p
    <2>1. p # None
      BY <1>0, TablesAre DEF States, Unsettled
    <2>2. QED BY <2>1, <1>0 DEF Sole
  <1>2. s.procs[p].generation = s.rt.generation => s.rt.child = p /\ s.rt.state # "stopped"
    <2>1. p # None /\ p \in DOMAIN s.procs
      BY <1>0, TablesAre DEF States, Unsettled
    <2>2. QED BY <2>1, <1>0 DEF Sole, Unsettled
  <1>3. s.procs[p].killed \/ s.rt.child = p
    BY <1>0 DEF Sole, Unsettled
  <1>4. /\ Sound(g, {p}, V) /\ Onward(s, g)
        /\ p \in DOMAIN g.procs /\ g.procs[p].settled /\ g.rt.child # p /\ g.procs[p].killed
        /\ \A q \in DOMAIN s.procs \ {p} : q \in DOMAIN g.procs /\ g.procs[q] = s.procs[q]
    <2>1. ~cancelled /\ s.procs[p].generation = s.rt.generation =>
                s.rt.child \in {p, None} /\ s.rt.state # "stopped"
      BY <1>2
    <2>2. Rejected(s, g, p, V)
      BY <2>1, <1>0, <1>1, SpawnRejectsSound
    <2>3. QED BY <2>2, <1>3 DEF Rejected
  <1> HIDE DEF g
  <1>5. Sound(g, {}, V)
    BY <1>4, KilledSound
  <1>6. \A r \in Requests : g.reqs[r].on # p
    <2>1. p # None
      BY <1>0, TablesAre DEF States, Unsettled
    <2>2. QED BY <2>1, <1>0, <1>4 DEF Onward, Ties, Unsettled
  <1>7. /\ Sound(e, {}, V)
        /\ DOMAIN e.procs = DOMAIN g.procs \ {p}
        /\ \A q \in DOMAIN g.procs \ {p} : e.procs[q] = g.procs[q]
    <2>1. Sound(e, {}, V)
      BY <1>4, <1>6, GoneSound
    <2>2. QED BY <2>1, <1>4, <1>6, GoneSound
  <1> HIDE DEF e
  <1>8. Mild(s, g)
    BY <1>4, SettledSpared
  <1>9. Mild(s, e)
    <2>1. \A q \in DOMAIN s.procs \ {p} : q \in DOMAIN e.procs /\ e.procs[q] = s.procs[q]
      BY <1>4, <1>7
    <2>2. QED BY <2>1, SettledSpared
  <1>10. QED BY <1>5, <1>7, <1>8, <1>9 DEF g, e

(* A superseded start is cancelled at the next event of its process.       *)
LEMMA StaleRejected ==
    ASSUME IInv, NEW p, p \in Unsettled(Now), Stale(p), verified' = verified,
           Become(SpawnRejects(Now, p, TRUE))
    PROVE  IInv' /\ Spared
  <1> DEFINE n == Now
             g == SpawnRejects(n, p, TRUE)
  <1>1. n.procs[p].generation # n.rt.generation \/ n.rt.child # p
    BY NowFields DEF Stale
  <1>2. Sound(n, {}, verified)
    BY DEF IInv
  <1> HIDE DEF n
  <1>3. Sound(g, {}, verified) /\ Mild(n, g)
    BY <1>1, <1>2, RejectedIsGone DEF n
  <1> HIDE DEF g
  <1>4. QED BY <1>3, Becomes DEF n, g

(* A process whose start is under way moves to another phase.              *)
LEMMA PhaseMoves ==
    ASSUME IInv, NEW p, p \in Unsettled(Now), NEW phase \in Phases, verified' = verified,
           Become([Now EXCEPT !.procs[p].phase = phase])
    PROVE  IInv' /\ Spared
  <1> DEFINE n == Now
             V == verified
             c == [n.procs[p] EXCEPT !.phase = phase]
             g == [n EXCEPT !.procs[p].phase = phase]
  <1>0. Sound(n, {}, V) /\ n \in States
    BY DEF IInv, Sound
  <1> HIDE DEF n, V
  <1>1. p \in DOMAIN n.procs /\ n.procs[p] \in Sidecars /\ ~n.procs[p].settled
    BY <1>0, TablesAre DEF Unsettled, States, n
  <1>2. /\ c \in Sidecars /\ c.settled = n.procs[p].settled
        /\ c.generation = n.procs[p].generation /\ c.owner = n.procs[p].owner
        /\ c.config = n.procs[p].config /\ c.killed = n.procs[p].killed
    BY <1>1 DEF Sidecars
  <1>3. /\ g.rt = n.rt /\ g.reqs = n.reqs /\ g.procs = [n.procs EXCEPT ![p] = c]
        /\ DOMAIN g = DOMAIN n /\ g = [x \in DOMAIN g |-> g[x]]
    BY <1>0 DEF States
  <1>9. Become(g)
    BY DEF n
  <1> HIDE DEF c, g
  <1>4. /\ g \in States /\ DOMAIN g.procs = DOMAIN n.procs /\ g.procs[p] = c
        /\ \A q \in DOMAIN n.procs \ {p} : g.procs[q] = n.procs[q]
    BY <1>0, <1>1, <1>2, <1>3, ProcessSet
  <1>5. Sound(g, {}, V)
    BY <1>0, <1>1, <1>2, <1>3, <1>4, ProcessChanges
  <1>6. Mild(n, g)
    <2>1. p \in Unsettled(n)
      BY DEF n
    <2>2. QED BY <2>1, <1>0, <1>4, SettledSpared
  <1>7. QED BY <1>5, <1>6, <1>9, Becomes DEF n, V

(* A pending process is one whose start has not been settled.              *)
LEMMA PendingIsUnsettled ==
    ASSUME NEW p, NEW phase, Pending(p, phase)
    PROVE  p \in Unsettled(Now) /\ procs[p].phase = phase
  BY NowFields DEF Pending, Unsettled, Alive

(* The port line of a process, current or superseded.                      *)
LEMMA PortLineKeeps ==
    ASSUME IInv, NEW p, PortLine(p)
    PROVE  IInv' /\ Spared
  <1>1. p \in Unsettled(Now) /\ verified' = verified /\ "polling" \in Phases
    BY PendingIsUnsettled DEF PortLine, Phases
  <1>2. CASE Stale(p)
    BY <1>1, <1>2, StaleRejected DEF PortLine
  <1>3. CASE ~Stale(p)
    BY <1>1, <1>3, PhaseMoves DEF PortLine
  <1>4. QED BY <1>2, <1>3

(* The health answer of a process, current or superseded.                  *)
LEMMA HealthAnswersKeeps ==
    ASSUME IInv, NEW p, HealthAnswers(p)
    PROVE  IInv' /\ Spared
  <1>1. p \in Unsettled(Now) /\ verified' = verified /\ "recording" \in Phases
    BY PendingIsUnsettled DEF HealthAnswers, Phases
  <1>2. CASE Stale(p)
    BY <1>1, <1>2, StaleRejected DEF HealthAnswers
  <1>3. CASE ~Stale(p)
    BY <1>1, <1>3, PhaseMoves DEF HealthAnswers
  <1>4. QED BY <1>2, <1>3

(* A binary that cannot be started.                                        *)
LEMMA SpawnFailsKeeps ==
    ASSUME IInv, NEW p, SpawnFails(p)
    PROVE  IInv' /\ Spared
  <1> DEFINE n == Now
             g == Gone(SpawnRejects(n, p, FALSE), p)
  <1>1. p \in Unsettled(n) /\ verified' = verified /\ Become(g)
    BY PendingIsUnsettled DEF SpawnFails
  <1>2. Sound(n, {}, verified)
    BY DEF IInv
  <1> HIDE DEF n
  <1>3. Sound(g, {}, verified) /\ Mild(n, g)
    BY <1>1, <1>2, RejectedIsGone
  <1> HIDE DEF g
  <1>4. QED BY <1>1, <1>3, Becomes DEF n

(* A health check that fails.                                              *)
LEMMA HealthFailsKeeps ==
    ASSUME IInv, NEW p, HealthFails(p)
    PROVE  IInv' /\ Spared
  <1> DEFINE n == Now
             g == SpawnRejects(n, p, FALSE)
  <1>1. p \in Unsettled(n) /\ verified' = verified /\ Become(g)
    BY PendingIsUnsettled DEF HealthFails
  <1>2. Sound(n, {}, verified)
    BY DEF IInv
  <1> HIDE DEF n
  <1>3. Sound(g, {}, verified) /\ Mild(n, g)
    BY <1>1, <1>2, RejectedIsGone
  <1> HIDE DEF g
  <1>4. QED BY <1>1, <1>3, Becomes DEF n

(* The budget of the port line is over: the process is killed, whoever     *)
(* owns it, and nobody streams from it yet.                                *)
LEMMA PortLineTimesOutKeeps ==
    ASSUME IInv, NEW p, PortLineTimesOut(p)
    PROVE  IInv' /\ Spared
  <1> DEFINE n == Now
             V == verified
             c == [n.procs[p] EXCEPT !.killed = TRUE]
             k == [n EXCEPT !.procs[p].killed = TRUE]
             g == SpawnRejects(k, p, FALSE)
  <1>0. Sound(n, {}, V) /\ n \in States /\ Sole(n, {})
    BY DEF IInv, Sound
  <1>1. p \in Unsettled(n) /\ V' = V /\ Become(g)
    BY PendingIsUnsettled DEF PortLineTimesOut
  <1> HIDE DEF n, V
  <1>2. p \in DOMAIN n.procs /\ n.procs[p] \in Sidecars /\ ~n.procs[p].settled /\ p # None
    BY <1>0, <1>1, TablesAre DEF Unsettled, States
  <1>3. /\ c \in Sidecars /\ c.settled = n.procs[p].settled /\ c.phase = n.procs[p].phase
        /\ c.generation = n.procs[p].generation /\ c.owner = n.procs[p].owner
        /\ c.config = n.procs[p].config /\ c.killed
    BY <1>2 DEF Sidecars
  <1>4. /\ k.rt = n.rt /\ k.reqs = n.reqs /\ k.procs = [n.procs EXCEPT ![p] = c]
        /\ DOMAIN k = DOMAIN n /\ k = [x \in DOMAIN k |-> k[x]]
    BY <1>0 DEF States
  <1> HIDE DEF c, k
  <1>5. /\ k \in States /\ DOMAIN k.procs = DOMAIN n.procs /\ k.procs[p] = c
        /\ \A q \in DOMAIN n.procs \ {p} : k.procs[q] = n.procs[q]
    BY <1>0, <1>2, <1>3, <1>4, ProcessSet
  <1>6. Sound(k, {p}, V)
    <2>1. {} \subseteq {p} /\ p \in {p}
      OBVIOUS
    <2>2. QED BY <2>1, <1>0, <1>2, <1>3, <1>4, <1>5, ProcessChanges
  <1>7. n.procs[p].generation = n.rt.generation => n.rt.child = p /\ n.rt.state # "stopped"
    BY <1>0, <1>2 DEF Sole
  <1>8. p \in Unsettled(k) /\ k.procs[p].killed /\ k.procs[p].generation = n.procs[p].generation
    BY <1>2, <1>3, <1>5 DEF Unsettled
  <1>9. /\ Sound(g, {p}, V)
        /\ p \in DOMAIN g.procs /\ g.procs[p].settled /\ g.rt.child # p
        /\ g.procs[p].killed
        /\ \A q \in DOMAIN k.procs \ {p} :
                q \in DOMAIN g.procs /\ g.procs[q] = k.procs[q]
    <2>1. ~FALSE /\ k.procs[p].generation = k.rt.generation =>
                k.rt.child \in {p, None} /\ k.rt.state # "stopped"
      BY <1>4, <1>7, <1>8
    <2>2. Rejected(k, g, p, V)
      BY <2>1, <1>6, <1>8, SpawnRejectsSound
    <2>3. QED BY <2>2, <1>8 DEF Rejected
  <1> HIDE DEF g
  <1>10. Sound(g, {}, V)
    BY <1>9, KilledSound
  <1>11. Mild(n, g)
    <2>1. \A q \in DOMAIN n.procs \ {p} : q \in DOMAIN g.procs /\ g.procs[q] = n.procs[q]
      BY <1>5, <1>9
    <2>2. QED BY <2>1, <1>0, <1>1, SettledSpared
  <1>12. QED BY <1>1, <1>10, <1>11, Becomes DEF n, V

(* The sidecar is published: its owner attaches, those that joined call    *)
(* start() again.                                                          *)
LEMMA SpawnRecordedKeeps ==
    ASSUME IInv, NEW p, SpawnRecorded(p)
    PROVE  IInv' /\ Spared
  <1> DEFINE n == Now
             V == verified
             o == n.procs[p]
             c == [o EXCEPT !.settled = TRUE, !.phase = "usable"]
             R == [n.rt EXCEPT !.port = p, !.state = "running", !.idleTimer = TRUE,
                               !.startPromise = None]
             calls == [r \in Requests |->
                    IF r = o.owner THEN [n.reqs[r] EXCEPT !.pc = "attach"]
                    ELSE IF n.reqs[r].pc = "join" /\ n.reqs[r].gen = o.generation
                         THEN [n.reqs[r] EXCEPT !.pc = "reeval"] ELSE n.reqs[r]]
             g == [n EXCEPT
                !.procs[p].settled = TRUE, !.procs[p].phase = "usable",
                !.rt.port = p, !.rt.state = "running", !.rt.idleTimer = TRUE,
                !.rt.startPromise = None,
                !.reqs = [r \in Requests |->
                    IF r = o.owner THEN [@[r] EXCEPT !.pc = "attach"]
                    ELSE IF @[r].pc = "join" /\ @[r].gen = o.generation
                         THEN [@[r] EXCEPT !.pc = "reeval"] ELSE @[r]]]
  <1>0. n \in States /\ Sole(n, {}) /\ Held(n) /\ Quieted(n) /\ Ties(n) /\ Checked(n, V)
        /\ Sound(n, {}, V)
    BY DEF IInv, Sound
  <1>1. /\ p \in Unsettled(n) /\ V' = V
        /\ n.rt = rt /\ n.procs = procs /\ n.reqs = reqs
    BY PendingIsUnsettled, NowFields DEF SpawnRecorded
  <1>2. CASE Stale(p)
    BY <1>1, <1>2, StaleRejected DEF SpawnRecorded
  <1>3. CASE ~Stale(p)
    <2>1. Become(g)
      <3>1. procs[p] = o
        BY <1>1
      <3> HIDE DEF o
      <3>2. QED BY <3>1, <1>3 DEF SpawnRecorded, n
    <2> HIDE DEF n, V
    <2>2. /\ p \in DOMAIN n.procs /\ o \in Sidecars /\ ~o.settled /\ p \in Nat \ {None}
          /\ n.rt.child = p /\ o.generation = n.rt.generation
      BY <1>0, <1>1, <1>3, TablesAre DEF Unsettled, States, Stale
    <2>3. /\ c \in Sidecars /\ c.settled /\ c.phase = "usable" /\ c.killed = o.killed
          /\ c.generation = o.generation /\ c.owner = o.owner /\ c.config = o.config
      BY <2>2 DEF Sidecars, Phases
    <2>4. R \in Runtimes
      BY <1>0, <2>2 DEF States, Runtimes, None
    <2>5. /\ R.port = p /\ R.state = "running" /\ R.child = n.rt.child
          /\ R.generation = n.rt.generation /\ R.loaded = n.rt.loaded
          /\ R.attached = n.rt.attached /\ R.streams = n.rt.streams
          /\ R.drainWaiters = n.rt.drainWaiters
          /\ R.summaries = n.rt.summaries /\ R.preemptable = n.rt.preemptable
      BY <1>0 DEF States, Runtimes
    <2>6. n.reqs \in [Requests -> Calls]
      BY <1>0 DEF States
    <2>7. ASSUME NEW r \in Requests
          PROVE  /\ calls[r] \in Calls
                 /\ calls[r].live = n.reqs[r].live /\ calls[r].on = n.reqs[r].on
                 /\ calls[r].pc = IF r = o.owner THEN "attach"
                                  ELSE IF n.reqs[r].pc = "join" /\ n.reqs[r].gen = o.generation
                                       THEN "reeval" ELSE n.reqs[r].pc
      BY <2>6 DEF Calls
    <2>8. calls \in [Requests -> Calls]
      BY <2>7
    <2>9. g.rt = R /\ g.reqs = calls /\ g.procs = [n.procs EXCEPT ![p] = c]
      BY <1>0, <2>2 DEF States, Runtimes
    <2>10. \A x, y, z : x \in Runtimes /\ y \in Tables /\ z \in [Requests -> Calls]
              /\ g.rt = x /\ g.procs = y /\ g.reqs = z => g \in States
      BY <1>0 DEF States
    <2> HIDE DEF g, calls, R, c
    <2>11. /\ g.procs \in Tables /\ DOMAIN g.procs = DOMAIN n.procs /\ g.procs[p] = c
           /\ \A q \in DOMAIN n.procs \ {p} : g.procs[q] = n.procs[q]
      <3> DEFINE h == [n EXCEPT !.procs = g.procs]
      <3>1. /\ h.rt = n.rt /\ h.reqs = n.reqs /\ h.procs = g.procs
            /\ DOMAIN h = DOMAIN n /\ h = [x \in DOMAIN h |-> h[x]]
        BY <1>0 DEF States
      <3> HIDE DEF h
      <3>2. QED BY <3>1, <1>0, <2>2, <2>3, <2>9, ProcessSet DEF States
    <2>12. g \in States
      BY <2>4, <2>8, <2>9, <2>10, <2>11
    <2>13. Sole(g, {})
      BY <1>0, <2>2, <2>3, <2>5, <2>9, <2>11 DEF Sole
    <2>14. o.owner # "auto" => o.owner \in Requests /\ n.reqs[o.owner].pc = "own"
      BY <1>0, <1>1, <2>2 DEF Ties, Sidecars, Owners
    <2>15. \A r \in Requests :
              /\ g.reqs[r].pc = "stream" <=> n.reqs[r].pc = "stream"
              /\ g.reqs[r].pc = "drain" <=> n.reqs[r].pc = "drain"
              /\ g.reqs[r].live = n.reqs[r].live /\ g.reqs[r].on = n.reqs[r].on
              /\ n.reqs[r].pc = "own" /\ r # o.owner => g.reqs[r].pc = "own"
              /\ g.reqs[r].pc \in {"join", "own", "drain"} => g.reqs[r].pc = n.reqs[r].pc
              /\ g.reqs[r].pc = "reeval" => n.reqs[r].pc \in {"join", "reeval"}
      BY <2>7, <2>9, <2>14, OwnersDiffer
    <2>16. Held(g)
      BY <1>0, <2>5, <2>9, <2>15, HeldTransfers
    <2>17. Quieted(g)
      BY <1>0, <2>5, <2>9, <2>15 DEF Quieted
    <2>18. Ties(g)
      <3>1. \A q \in Unsettled(g) : q # p /\ q \in Unsettled(n) /\ g.procs[q] = n.procs[q]
        BY <2>3, <2>11 DEF Unsettled
      <3>2. \A q \in DOMAIN n.procs : n.procs[q].owner \in Owners
        BY <1>0, TablesAre DEF States, Sidecars
      <3>3. \A q \in Unsettled(g) : g.procs[q].owner # "auto" =>
                /\ g.procs[q].owner \in Requests /\ g.procs[q].owner # o.owner
                /\ n.reqs[g.procs[q].owner].pc = "own"
        BY <3>1, <3>2, <1>0, <1>1 DEF Ties, Unsettled, Owners
      <3>4. \A q \in Unsettled(g) : g.procs[q].owner # "auto" => g.reqs[g.procs[q].owner].pc = "own"
        BY <3>3, <2>15
      <3>5. \A q1, q2 \in Unsettled(g) : g.procs[q1].owner = g.procs[q2].owner
               => q1 = q2 \/ g.procs[q1].owner = "auto"
        BY <3>1, <1>0 DEF Ties
      <3>6. \A r \in Requests : g.reqs[r].on # None =>
                g.reqs[r].pc = "stream" /\ g.reqs[r].on \in DOMAIN g.procs
                /\ g.procs[g.reqs[r].on].settled
        BY <1>0, <1>1, <2>3, <2>11, <2>15 DEF Ties, Unsettled
      <3>7. QED BY <3>4, <3>5, <3>6 DEF Ties
    <2>19. Checked(g, V)
      BY <1>0, <2>2, <2>3, <2>5, <2>9, <2>11, <2>15 DEF Checked
    <2>20. Sound(g, {}, V)
      BY <2>12, <2>13, <2>16, <2>17, <2>18, <2>19 DEF Sound
    <2>21. Mild(n, g)
      BY <1>0, <1>1, <2>11, SettledSpared
    <2>22. QED BY <2>1, <2>20, <2>21, <1>1, Becomes DEF n, V
  <1>4. QED BY <1>2, <1>3

(* The connections that process p served are broken.                       *)
Broken(s, p) ==
    [s EXCEPT !.reqs = [r \in Requests |->
        IF @[r].on = p THEN [@[r] EXCEPT !.on = None] ELSE @[r]]]

(* Breaking connections leaves a state sound.                              *)
LEMMA ConnectionsBreak ==
    ASSUME NEW V, NEW s, Sound(s, {}, V), NEW p, NEW g, g = Broken(s, p)
    PROVE  /\ Sound(g, {}, V)
           /\ g.rt = s.rt /\ g.procs = s.procs
           /\ \A r \in Requests : g.reqs[r].on = IF s.reqs[r].on = p THEN None ELSE s.reqs[r].on
  <1> DEFINE calls == [r \in Requests |->
                   IF s.reqs[r].on = p THEN [s.reqs[r] EXCEPT !.on = None] ELSE s.reqs[r]]
  <1>0. s \in States /\ Sole(s, {}) /\ Held(s) /\ Quieted(s) /\ Ties(s) /\ Checked(s, V)
    BY DEF Sound
  <1>1. s.reqs \in [Requests -> Calls]
    BY <1>0 DEF States
  <1>2. ASSUME NEW r \in Requests
        PROVE  /\ calls[r] \in Calls /\ calls[r].pc = s.reqs[r].pc
               /\ calls[r].live = s.reqs[r].live
               /\ calls[r].on = IF s.reqs[r].on = p THEN None ELSE s.reqs[r].on
    BY <1>1 DEF Calls, None
  <1>3. g.rt = s.rt /\ g.procs = s.procs /\ g.reqs = calls
    BY <1>0 DEF States, Broken
  <1>4. calls \in [Requests -> Calls]
    BY <1>2
  <1>5. g \in States
    <2>1. g = [s EXCEPT !.reqs = calls]
      BY <1>0 DEF States, Broken
    <2> HIDE DEF calls
    <2>2. QED BY <2>1, <1>0, <1>4 DEF States
  <1> HIDE DEF calls
  <1>6. \A r \in Requests : /\ g.reqs[r].pc = s.reqs[r].pc /\ g.reqs[r].live = s.reqs[r].live
                            /\ g.reqs[r].on = IF s.reqs[r].on = p THEN None ELSE s.reqs[r].on
    BY <1>2, <1>3
  <1>7. g.rt = s.rt /\ g.procs = s.procs
    BY <1>3
  <1>8. Held(g)
    BY <1>0, <1>6, <1>7, HeldTransfers
  <1>9. Quieted(g)
    BY <1>0, <1>6, <1>7 DEF Quieted
  <1>10. Sole(g, {})
    BY <1>0, <1>7 DEF Sole
  <1>11. Ties(g)
    <2>1. \A q \in DOMAIN s.procs : s.procs[q].owner \in Owners
      BY <1>0, TablesAre DEF States, Sidecars
    <2>2. Unsettled(g) = Unsettled(s)
      BY <1>7 DEF Unsettled
    <2>3. \A q \in Unsettled(g) : g.procs[q].owner # "auto" => g.reqs[g.procs[q].owner].pc = "own"
      BY <2>1, <2>2, <1>0, <1>6, <1>7 DEF Ties, Unsettled, Owners
    <2>4. QED BY <2>2, <2>3, <1>0, <1>6, <1>7 DEF Ties
  <1>12. Checked(g, V)
    BY <1>0, <1>6, <1>7 DEF Checked
  <1>13. QED BY <1>5, <1>6, <1>7, <1>8, <1>9, <1>10, <1>11, <1>12 DEF Sound

(* When the runtime forgets its child, that child is the one exception.    *)
LEMMA ChildGone ==
    ASSUME NEW V, NEW s, NEW p, Sound(s, {}, V), s.rt.child = p, p # None,
           NEW g \in States, g.procs = s.procs, g.reqs = s.reqs,
           g.rt.child = None, g.rt.port = None, g.rt.generation = s.rt.generation,
           g.rt.loaded = s.rt.loaded,
           g.rt.attached = s.rt.attached, g.rt.streams = s.rt.streams,
           g.rt.drainWaiters = s.rt.drainWaiters,
           g.rt.summaries = s.rt.summaries, g.rt.preemptable = s.rt.preemptable
    PROVE  Sound(g, {p}, V)
  <1>0. s \in States /\ Sole(s, {})
    BY DEF Sound
  <1>1. Sole(g, {p})
    BY <1>0 DEF Sole
  <1>2. Sound(s, {p}, V)
    BY ExceptOne
  <1>3. QED BY <1>1, <1>2, RuntimeChanges

(* A process exits: one that is not the child, the child while it starts,  *)
(* or the child while it runs, which is restarted once.                    *)
LEMMA ExitKeeps ==
    ASSUME IInv, NEW p, Exit(p)
    PROVE  IInv' /\ Spared
  <1> DEFINE n == Now
             V == verified
             q == n.procs[p]
             broken == [n EXCEPT !.reqs = [r \in Requests |->
                           IF @[r].on = p THEN [@[r] EXCEPT !.on = None] ELSE @[r]]]
             down == [broken EXCEPT !.rt.child = None, !.rt.port = None]
             crashed == [down EXCEPT !.rt.state = "stopped",
                                     !.rt.cpuPinned = @ \/ q.variant = "vulkan"]
  <1>0. n \in States /\ Sole(n, {}) /\ Checked(n, V) /\ Sound(n, {}, V)
    BY DEF IInv, Sound
  <1>1. /\ p \in DOMAIN n.procs /\ V' = V
        /\ n.rt = rt /\ n.procs = procs /\ n.reqs = reqs
    BY NowFields DEF Exit, Alive
  <1>2. \/ n.rt.child # p /\ q.settled /\ Become(Gone(broken, p))
        \/ n.rt.child # p /\ ~q.settled /\ Become(Gone(SpawnRejects(broken, p, FALSE), p))
        \/ n.rt.child = p /\ ~q.settled /\ Become(Gone(SpawnRejects(down, p, FALSE), p))
        \/ /\ n.rt.child = p /\ q.settled /\ n.rt.state = "running"
           /\ Become(AutoRestart(Gone(crashed, p)))
        \/ n.rt.child = p /\ q.settled /\ Become(Gone(down, p))
    <2>1. procs[p] = q
      BY <1>1
    <2> DEFINE X(z) == IF z.killed THEN UNCHANGED upsets ELSE Upset
    <2>2. QED BY <2>1, <1>1 DEF Exit, n
  <1> HIDE DEF n, V
  <1>3. /\ Sound(broken, {}, V) /\ broken.rt = n.rt /\ broken.procs = n.procs
        /\ \A r \in Requests : broken.reqs[r].on = IF n.reqs[r].on = p THEN None ELSE n.reqs[r].on
    <2>1. broken = Broken(n, p)
      BY DEF Broken
    <2> HIDE DEF broken
    <2>2. Sound(broken, {}, V)
      BY <2>1, <1>0, ConnectionsBreak
    <2>3. QED BY <2>1, <2>2, <1>0, ConnectionsBreak
  <1> HIDE DEF broken
  <1>4. p # None
    BY <1>0, <1>1, TablesAre DEF States
  <1>5. /\ down \in States /\ down.procs = n.procs /\ down.reqs = broken.reqs
        /\ down.rt.child = None /\ down.rt.port = None /\ down.rt.generation = n.rt.generation
        /\ down.rt.loaded = n.rt.loaded /\ down.rt.state = n.rt.state
        /\ down.rt.attached = n.rt.attached /\ down.rt.streams = n.rt.streams
        /\ down.rt.drainWaiters = n.rt.drainWaiters
        /\ down.rt.summaries = n.rt.summaries /\ down.rt.preemptable = n.rt.preemptable
    BY <1>3 DEF Sound, States, Runtimes, None
  <1>6. /\ crashed \in States /\ crashed.procs = n.procs /\ crashed.reqs = broken.reqs
        /\ crashed.rt.child = None /\ crashed.rt.port = None
        /\ crashed.rt.generation = n.rt.generation
        /\ crashed.rt.loaded = n.rt.loaded /\ crashed.rt.state = "stopped"
        /\ crashed.rt.attached = n.rt.attached /\ crashed.rt.streams = n.rt.streams
        /\ crashed.rt.drainWaiters = n.rt.drainWaiters
        /\ crashed.rt.summaries = n.rt.summaries /\ crashed.rt.preemptable = n.rt.preemptable
    BY <1>5 DEF States, Runtimes
  <1> HIDE DEF down, crashed
  <1>7. n.rt.child = p => Sound(down, {p}, V) /\ Sound(crashed, {p}, V)
    BY <1>3, <1>4, <1>5, <1>6, ChildGone
  <1>8. ASSUME NEW g, Become(g), Sound(g, {}, V), Onward(broken, g),
               \A m \in DOMAIN n.procs \ {p} : m \in DOMAIN g.procs /\ g.procs[m] = n.procs[m]
        PROVE  IInv' /\ Spared
    <2>1. \A r \in Requests : g.reqs[r].on # p \/ g.reqs[r].on # n.reqs[r].on
      BY <1>3, <1>4, <1>8 DEF Onward
    <2>2. \E m : /\ \A i \in DOMAIN n.procs \ {m} : i \in DOMAIN g.procs /\ g.procs[i] = n.procs[i]
                 /\ \/ m \in Unsettled(n)
                    \/ \A r \in Requests : g.reqs[r].on # m \/ g.reqs[r].on # n.reqs[r].on
      BY <2>1, <1>8
    <2>3. Mild(n, g)
      BY <2>2, <1>0, SettledSpared
    <2>4. QED BY <2>3, <1>1, <1>8, Becomes DEF n, V
  <1>9. ASSUME NEW s, Sound(s, {p}, V), p \in DOMAIN s.procs, s.rt.child # p,
               Onward(broken, s),
               \A m \in DOMAIN n.procs \ {p} : m \in DOMAIN s.procs /\ s.procs[m] = n.procs[m]
        PROVE  LET g == Gone(s, p) IN
               /\ Sound(g, {}, V) /\ Onward(broken, g)
               /\ g.rt = s.rt
               /\ \A m \in DOMAIN n.procs \ {p} : m \in DOMAIN g.procs /\ g.procs[m] = n.procs[m]
    <2> DEFINE g == Gone(s, p)
    <2>1. \A r \in Requests : s.reqs[r].on # p
      BY <1>3, <1>4, <1>9 DEF Onward
    <2>2. Sound(g, {}, V)
      BY <2>1, <1>9, GoneSound
    <2>3. /\ Onward(s, g) /\ g.rt = s.rt
          /\ DOMAIN g.procs = DOMAIN s.procs \ {p}
          /\ \A m \in DOMAIN s.procs \ {p} : g.procs[m] = s.procs[m]
      BY <2>1, <2>2, <1>9, GoneSound
    <2> HIDE DEF g
    <2>4. Onward(broken, g)
      BY <2>3, <1>9 DEF Onward
    <2>5. QED BY <2>2, <2>3, <2>4, <1>9 DEF g
  <1>10. Onward(broken, broken) /\ Onward(broken, down) /\ Onward(broken, crashed)
    BY <1>5, <1>6 DEF Onward
  <1>11. CASE n.rt.child # p /\ q.settled /\ Become(Gone(broken, p))
    <2>1. Sound(broken, {p}, V)
      BY <1>3, ExceptOne
    <2>2. QED BY <2>1, <1>1, <1>3, <1>8, <1>9, <1>10, <1>11
  <1>12. CASE n.rt.child # p /\ ~q.settled /\ Become(Gone(SpawnRejects(broken, p, FALSE), p))
    <2> DEFINE g == SpawnRejects(broken, p, FALSE)
    <2>1. Sound(broken, {p}, V) /\ p \in Unsettled(broken)
      BY <1>1, <1>3, <1>12, ExceptOne DEF Unsettled
    <2>2. broken.procs[p].generation # broken.rt.generation
      BY <1>0, <1>1, <1>3, <1>12 DEF Sole
    <2>3. Rejected(broken, g, p, V)
      BY <2>1, <2>2, SpawnRejectsSound
    <2>4. Become(Gone(g, p))
      BY <1>12
    <2> HIDE DEF g
    <2>5. QED BY <2>3, <2>4, <1>3, <1>8, <1>9 DEF Rejected
  <1>13. CASE n.rt.child = p /\ ~q.settled /\ Become(Gone(SpawnRejects(down, p, FALSE), p))
    <2> DEFINE g == SpawnRejects(down, p, FALSE)
    <2>1. Sound(down, {p}, V) /\ p \in Unsettled(down)
      BY <1>1, <1>5, <1>7, <1>13 DEF Unsettled
    <2>2. down.rt.child = None /\ down.rt.state # "stopped"
      BY <1>0, <1>4, <1>5, <1>13 DEF Sole
    <2>3. Rejected(down, g, p, V)
      BY <2>1, <2>2, SpawnRejectsSound
    <2>4. Become(Gone(g, p))
      BY <1>13
    <2> HIDE DEF g
    <2>5. Onward(broken, g)
      BY <2>3, <1>5 DEF Rejected, Onward
    <2>6. QED BY <2>3, <2>4, <2>5, <1>5, <1>8, <1>9 DEF Rejected
  <1>14. CASE /\ n.rt.child = p /\ q.settled /\ n.rt.state = "running"
              /\ Become(AutoRestart(Gone(crashed, p)))
    <2> DEFINE s == Gone(crashed, p)
               g == AutoRestart(s)
    <2>1. Sound(crashed, {p}, V) /\ p \in DOMAIN crashed.procs /\ crashed.rt.child # p
      BY <1>1, <1>4, <1>6, <1>7, <1>14
    <2>2. /\ Sound(s, {}, V) /\ Onward(broken, s) /\ s.rt = crashed.rt
          /\ \A m \in DOMAIN n.procs \ {p} : m \in DOMAIN s.procs /\ s.procs[m] = n.procs[m]
      BY <2>1, <1>6, <1>9, <1>10
    <2>3. Become(g)
      BY <1>14
    <2>4. s.rt.state = "stopped" /\ s.rt.loaded # {}
      BY <2>2, <1>0, <1>1, <1>6 DEF Checked
    <2> HIDE DEF s
    <2>5. Sound(g, {}, V) /\ Untouched(s, g) /\ Onward(s, g)
      BY <2>2, <2>4, AutoRestartSound
    <2> HIDE DEF g
    <2>6. Onward(broken, g)
      BY <2>2, <2>5 DEF Onward
    <2>7. QED BY <2>2, <2>3, <2>5, <2>6, <1>8 DEF Untouched
  <1>15. CASE n.rt.child = p /\ q.settled /\ Become(Gone(down, p))
    BY <1>1, <1>4, <1>5, <1>7, <1>8, <1>9, <1>10, <1>15
  <1>16. QED BY <1>2, <1>11, <1>12, <1>13, <1>14, <1>15

(* stop() kills the child and makes a new generation, so that no start     *)
(* that is under way counts.                                               *)
LEMMA StopKeeps ==
    ASSUME IInv, verified' = verified, Become(Stop(Now))
    PROVE  IInv' /\ Spared
  <1> DEFINE n == Now
             V == verified
             t == StopChildProcess(n)
             g == [t EXCEPT !.rt.idleTimer = FALSE, !.rt.generation = @ + 1,
                            !.rt.state = "stopped"]
  <1>0. Sound(n, {}, V) /\ n \in States /\ Sole(n, {})
    BY DEF IInv, Sound
  <1>1. Become(g) /\ V' = V
    BY DEF Stop
  <1> HIDE DEF n, V
  <1>2. /\ t \in States /\ t.reqs = n.reqs
        /\ t.rt.child = None /\ t.rt.port = None
        /\ t.rt.generation = n.rt.generation
        /\ Held(t) /\ Quieted(t) /\ Ties(t) /\ Checked(t, V)
        /\ DOMAIN t.procs = DOMAIN n.procs
        /\ \A p \in DOMAIN n.procs :
                /\ t.procs[p].generation = n.procs[p].generation
                /\ t.procs[p].killed <=> n.procs[p].killed \/ p = n.rt.child
    BY <1>0, StopChildSound
  <1> HIDE DEF t
  <1>3. n.rt.generation \in Nat
    BY <1>0 DEF States, Runtimes
  <1>4. /\ g \in States /\ g.procs = t.procs /\ g.reqs = t.reqs
        /\ g.rt.state = "stopped" /\ g.rt.generation = n.rt.generation + 1
        /\ g.rt.loaded = t.rt.loaded /\ g.rt.child = None /\ g.rt.port = None
        /\ g.rt.attached = t.rt.attached /\ g.rt.streams = t.rt.streams
        /\ g.rt.drainWaiters = t.rt.drainWaiters /\ g.rt.summaries = t.rt.summaries
        /\ g.rt.preemptable = t.rt.preemptable
    <2> DEFINE R == [t.rt EXCEPT !.idleTimer = FALSE, !.generation = @ + 1,
                                 !.state = "stopped"]
    <2>1. g.rt = R /\ g.procs = t.procs /\ g.reqs = t.reqs
      BY <1>2 DEF States, Runtimes
    <2>2. R \in Runtimes
      <3>1. t.rt \in Runtimes /\ t.rt.generation + 1 \in Nat
        BY <1>2, <1>3 DEF States
      <3>2. QED BY <3>1 DEF Runtimes
    <2>3. g \in States
      <3> DEFINE h == [t EXCEPT !.rt = R]
      <3>1. g = h
        BY <1>2 DEF States, Runtimes
      <3> HIDE DEF R
      <3>2. h \in States
        BY <2>2, <1>2 DEF States
      <3>3. QED BY <3>1, <3>2
    <2>4. /\ R.state = "stopped" /\ R.generation = n.rt.generation + 1
          /\ R.loaded = t.rt.loaded /\ R.child = None /\ R.port = None
          /\ R.attached = t.rt.attached /\ R.streams = t.rt.streams
          /\ R.drainWaiters = t.rt.drainWaiters /\ R.summaries = t.rt.summaries
          /\ R.preemptable = t.rt.preemptable
      BY <1>2 DEF States, Runtimes
    <2> HIDE DEF R, g
    <2>5. QED BY <2>1, <2>3, <2>4, <1>2
  <1> HIDE DEF g
  <1>5. Sole(g, {})
    <2>1. \A p \in DOMAIN n.procs : n.procs[p].generation <= n.rt.generation
                                    /\ n.procs[p].generation \in Nat
      BY <1>0, TablesAre DEF Sole, States, Sidecars
    <2>2. \A p \in DOMAIN n.procs : t.procs[p].killed
      BY <1>0, <1>2 DEF Sole
    <2>3. QED BY <2>1, <2>2, <1>2, <1>3, <1>4 DEF Sole
  <1>6. Held(g)
    BY <1>2, <1>4 DEF Held
  <1>7. Quieted(g)
    BY <1>2, <1>4 DEF Quieted
  <1>8. Ties(g)
    BY <1>2, <1>4 DEF Ties, Unsettled
  <1>9. Checked(g, V)
    BY <1>2, <1>4 DEF Checked
  <1>10. Sound(g, {}, V)
    BY <1>4, <1>5, <1>6, <1>7, <1>8, <1>9 DEF Sound
  <1>11. Now' = g
    BY <1>1, <1>4, BecomeNow
  <1>12. rt'.state = "stopped"
    BY <1>1, <1>4 DEF Become
  <1>13. QED BY <1>1, <1>10, <1>11, <1>12 DEF IInv, Spared, V

(* An automatic restart is allowed again.                                  *)
LEMMA RestartWindowEndsKeeps ==
    ASSUME IInv, RestartWindowEnds
    PROVE  IInv' /\ Spared
  <1> DEFINE n == Now
             V == verified
             g == [n EXCEPT !.rt.restarted = FALSE]
  <1>0. Sound(n, {}, V) /\ n \in States /\ Sole(n, {})
    BY DEF IInv, Sound
  <1>1. Become(g) /\ V' = V
    BY DEF RestartWindowEnds, Become, Now
  <1> HIDE DEF n, V
  <1>2. /\ g \in States /\ g.procs = n.procs /\ g.reqs = n.reqs /\ Same(n, g)
        /\ g.rt.attached = n.rt.attached /\ g.rt.streams = n.rt.streams
        /\ g.rt.drainWaiters = n.rt.drainWaiters /\ g.rt.summaries = n.rt.summaries
        /\ g.rt.preemptable = n.rt.preemptable
    BY <1>0 DEF States, Runtimes, Same
  <1> HIDE DEF g
  <1>3. Sound(g, {}, V)
    BY <1>0, <1>2, SameSidecars, RuntimeChanges DEF Same
  <1>4. QED BY <1>0, <1>1, <1>2, <1>3, SamePlaces DEF n, V

(* The program starts with no process, no request under way and nothing    *)
(* held, which is sound.                                                   *)
LEMMA InitSound ==
    Init => IInv
  <1> SUFFICES ASSUME Init PROVE IInv
    OBVIOUS
  <1>1. /\ rt = [state |-> "stopped", child |-> None, port |-> None,
                 generation |-> 0, startPromise |-> None, loaded |-> {},
                 cpuPinned |-> FALSE, restarted |-> FALSE, idleTimer |-> FALSE,
                 streams |-> 0, attached |-> {}, drainWaiters |-> {},
                 summaries |-> {}, preemptable |-> {}]
        /\ DOMAIN procs = {} /\ procs = <<>>
        /\ reqs = [r \in Requests |-> [pc |-> "new", live |-> FALSE, gen |-> 0, on |-> None]]
    BY DEF Init
  <1>2. rt \in Runtimes /\ rt.child = None /\ rt.port = None /\ rt.attached = {}
        /\ rt.streams = 0 /\ rt.drainWaiters = {} /\ rt.summaries = {}
        /\ rt.preemptable = {} /\ rt.loaded = {}
    BY <1>1 DEF Runtimes, None
  <1>3. reqs \in [Requests -> Calls]
        /\ \A r \in Requests : reqs[r].pc = "new" /\ ~reqs[r].live /\ reqs[r].on = None
    BY <1>1 DEF Calls, None
  <1>4. procs \in Tables
    <2>1. IsFiniteSet(DOMAIN procs)
      BY <1>1, FS_EmptySet
    <2>2. procs \in [DOMAIN procs -> Sidecars]
      BY <1>1
    <2>3. QED BY <2>1, <2>2, <1>1, TablesAre
  <1>5. Now \in States
    BY <1>2, <1>3, <1>4 DEF Now, States
  <1> DEFINE n == Now
  <1>6. n.rt = rt /\ n.procs = procs /\ n.reqs = reqs
    BY NowFields
  <1> HIDE DEF n
  <1>7. Sole(n, {})
    BY <1>1, <1>2, <1>6 DEF Sole
  <1>8. Held(n)
    BY <1>2, <1>3, <1>6, FS_EmptySet DEF Held
  <1>9. Quieted(n) /\ Ties(n) /\ Checked(n, verified)
    BY <1>1, <1>2, <1>3, <1>6 DEF Quieted, Ties, Unsettled, Checked
  <1>10. QED BY <1>5, <1>7, <1>8, <1>9 DEF IInv, Sound, n

(* Every step keeps the runtime sound and cuts no stream but by a stop.    *)
LEMMA StepKeeps ==
    ASSUME IInv, [Next]_vars
    PROVE  IInv' /\ Spared
  <1>1. ASSUME NEW r \in Requests, Ask(r) PROVE IInv' /\ Spared
    BY <1>1, AskKeeps
  <1>2. ASSUME NEW r \in Requests, Ensure(r) PROVE IInv' /\ Spared
    BY <1>2, EnsureKeeps
  <1>3. ASSUME NEW r \in Requests, Verified(r) PROVE IInv' /\ Spared
    BY <1>3, VerifiedKeeps
  <1>4. ASSUME NEW r \in Requests, Reevaluate(r) PROVE IInv' /\ Spared
    BY <1>4, ReevaluateKeeps
  <1>5. ASSUME NEW r \in Requests, Attach(r) PROVE IInv' /\ Spared
    BY <1>5, AttachKeeps
  <1>6. ASSUME NEW r \in Requests, StreamEnds(r) PROVE IInv' /\ Spared
    BY <1>6, StreamEndsKeeps
  <1>7. ASSUME NEW r \in Requests, Abort(r) PROVE IInv' /\ Spared
    BY <1>7, AbortKeeps
  <1>8. ASSUME NEW p, PortLine(p) PROVE IInv' /\ Spared
    BY <1>8, PortLineKeeps
  <1>9. ASSUME NEW p, HealthAnswers(p) PROVE IInv' /\ Spared
    BY <1>9, HealthAnswersKeeps
  <1>10. ASSUME NEW p, SpawnRecorded(p) PROVE IInv' /\ Spared
    BY <1>10, SpawnRecordedKeeps
  <1>11. ASSUME NEW p, SpawnFails(p) PROVE IInv' /\ Spared
    BY <1>11, SpawnFailsKeeps
  <1>12. ASSUME NEW p, PortLineTimesOut(p) PROVE IInv' /\ Spared
    BY <1>12, PortLineTimesOutKeeps
  <1>13. ASSUME NEW p, HealthFails(p) PROVE IInv' /\ Spared
    BY <1>13, HealthFailsKeeps
  <1>14. ASSUME NEW p, Exit(p) PROVE IInv' /\ Spared
    BY <1>14, ExitKeeps
  <1>15. ASSUME IdleFires \/ ExplicitStop PROVE IInv' /\ Spared
    BY <1>15, StopKeeps DEF IdleFires, ExplicitStop
  <1>16. ASSUME RestartWindowEnds PROVE IInv' /\ Spared
    BY <1>16, RestartWindowEndsKeeps
  <1>17. ASSUME UNCHANGED vars PROVE IInv' /\ Spared
    <2>1. Now' = Now /\ verified' = verified
      BY <1>17 DEF vars, Now
    <2>2. QED BY <2>1 DEF IInv, Spared, Mild
  <1>18. QED
    BY <1>1, <1>2, <1>3, <1>4, <1>5, <1>6, <1>7, <1>8, <1>9, <1>10, <1>11, <1>12,
       <1>13, <1>14, <1>15, <1>16, <1>17 DEF Next, Resume, Lifecycle

(* The runtime is sound in every reachable state: all its parts have their *)
(* types, and the four groups of facts above hold together.                *)
THEOREM RuntimeIsSound == Spec => []IInv
  <1>1. Init => IInv
    BY InitSound
  <1>2. IInv /\ [Next]_vars => IInv'
    BY StepKeeps
  <1>3. QED BY <1>1, <1>2, PTL DEF Spec

(* However a start, a switch, a stop, an automatic restart and the late    *)
(* events of older processes interleave, a llama-server that has not been  *)
(* killed is the child of local-runtime.ts: none is left in memory.        *)
THEOREM NoSidecarIsLeftBehind == Spec => []OneSidecar
  <1>1. IInv => OneSidecar
    <2> SUFFICES ASSUME IInv PROVE OneSidecar
      OBVIOUS
    <2>1. Sole(Now, {})
      BY DEF IInv, Sound
    <2>2. QED BY <2>1, NowFields DEF Sole, OneSidecar, Alive
  <1>2. QED BY <1>1, RuntimeIsSound, PTL

(* The base URL that baseURL() hands out is that of the current child,     *)
(* after its health was confirmed.                                         *)
THEOREM EndpointIsCurrent == Spec => []EndpointIsTheChild
  <1>1. IInv => EndpointIsTheChild
    <2> SUFFICES ASSUME IInv PROVE EndpointIsTheChild
      OBVIOUS
    <2>1. Sole(Now, {})
      BY DEF IInv, Sound
    <2>2. QED BY <2>1, NowFields DEF Sole, EndpointIsTheChild
  <1>2. QED BY <1>1, RuntimeIsSound, PTL

(* activeStreams is the number of streams that are open, and a start()     *)
(* that waits for the drain waits for one of them.                         *)
THEOREM DrainIsWokenByAStream == Spec => []DrainWaitsForStreams
  <1>1. IInv => DrainWaitsForStreams
    <2> SUFFICES ASSUME IInv PROVE DrainWaitsForStreams
      OBVIOUS
    <2>1. Held(Now)
      BY DEF IInv, Sound
    <2>2. IsFiniteSet(rt.attached) /\ rt.streams = Cardinality(rt.attached)
          /\ (rt.drainWaiters # {} => rt.attached # {})
      BY <2>1, NowFields DEF Held
    <2>3. rt.streams \in Nat /\ (rt.attached # {} => rt.streams # 0)
      BY <2>2, FS_CardinalityType, FS_EmptySet
    <2>4. QED BY <2>2, <2>3 DEF DrainWaitsForStreams
  <1>2. QED BY <1>1, RuntimeIsSound, PTL

(* Whatever shortcut a request took past verifyIntegrity(), the model of a *)
(* process that exists has passed it.                                      *)
THEOREM OnlyVerifiedModelsLoad == Spec => []LoadsOnlyVerified
  <1>1. IInv => LoadsOnlyVerified
    <2> SUFFICES ASSUME IInv PROVE LoadsOnlyVerified
      OBVIOUS
    <2>1. Checked(Now, verified)
      BY DEF IInv, Sound
    <2>2. QED BY <2>1, NowFields DEF Checked, LoadsOnlyVerified, Alive
  <1>2. QED BY <1>1, RuntimeIsSound, PTL

(* INV-PREEMPT of local.ts: while a recap is in flight no background       *)
(* stream runs and none is about to.                                       *)
THEOREM RecapIsNeverShared == Spec => []RecapRunsAlone
  <1>1. IInv => RecapRunsAlone
    <2> SUFFICES ASSUME IInv PROVE RecapRunsAlone
      OBVIOUS
    <2>1. Quieted(Now)
      BY DEF IInv, Sound
    <2>2. QED BY <2>1, NowFields DEF Quieted, RecapRunsAlone
  <1>2. QED BY <1>1, RuntimeIsSound, PTL

(* No step but a stop kills the sidecar under an open stream: a switch of  *)
(* models, a late timeout or an automatic restart spares it.               *)
THEOREM OnlyAStopCutsAStream == Spec => SwitchCutsNoStream
  <1> DEFINE Cut ==
        \A r \in Requests :
            /\ reqs[r].on # None /\ ~procs[reqs[r].on].killed
            /\ reqs'[r].on = reqs[r].on /\ procs'[reqs[r].on].killed
            => rt'.state = "stopped"
  <1>1. IInv /\ [Next]_vars => [Cut]_vars
    <2> SUFFICES ASSUME IInv, [Next]_vars PROVE Cut
      OBVIOUS
    <2>1. rt'.state = "stopped" \/ Mild(Now, Now')
      BY StepKeeps DEF Spared
    <2>2. Now.reqs = reqs /\ Now.procs = procs /\ Now'.reqs = reqs' /\ Now'.procs = procs'
      BY DEF Now
    <2>3. QED BY <2>1, <2>2 DEF Mild
  <1>2. QED BY <1>1, RuntimeIsSound, PTL DEF Spec, SwitchCutsNoStream
=============================================================================
