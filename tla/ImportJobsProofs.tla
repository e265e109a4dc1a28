-------------------------- MODULE ImportJobsProofs --------------------------
(***************************************************************************)
(* What the import queue guarantees for every finite set of recordings and *)
(* any bound on requests, failures, deaths and updates.  The operators of  *)
(* the model take the memory m of the manager and return what a synchronous*)
(* stretch of code makes of it, so the invariant is a predicate of a       *)
(* memory: Sound is what holds of every one, and Fine what holds of one    *)
(* job unless a late admission has failed it.  The lemmas follow the       *)
(* operators from the inside out, to show that each keeps a memory Sound,  *)
(* that a stretch for one job leaves every other one Fine, and then what   *)
(* it makes of that job itself.  ImportJobsServedProofs goes on with the   *)
(* handlers, and with what makes the whole invariant inductive.            *)
(***************************************************************************)
EXTENDS ImportJobs, QueueLemmas

(* The types of the parts of a memory.                                     *)
JobStates == {"absent", "queued", "decoding", "transcribing", "saving", "recapping",
              "done", "failed", "cancelled"}
Errors == {"none", "other", "own", "order", "count", "active", "short"}
Units == [kind : {"window", "slab"}, n : Nat, sec : Nat]
JobRecords == [state : JobStates, vad : BOOLEAN, chunkSec : Nat, cursor : Nat, total : Nat,
               lines : Seq(Units), file : BOOLEAN, error : Errors]
Attempts == [id : Nat, accepting : BOOLEAN, tailAllowed : BOOLEAN]
Decoders == [att : Nat, next : Nat, busy : BOOLEAN]

(* Where a thread can be: creating and resuming a job, its admission, the  *)
(* chunks of its decoder, the windows, the tail, and what ends it.         *)
Arriving == {"created", "resumed", "recovered"}
Starting == {"claimed", "policy"}
Chunking == {"overflow", "transcribing", "slab", "heard", "decoding"}
Windowing == {"windows", "window"}
Tailing == {"saveMeeting", "saved", "recapping", "recap", "ingest", "done", "removing",
            "abandoning", "abandoned"}
Ending == {"cancelling", "cancelled", "closing"}
Points == Arriving \cup Starting \cup Chunking \cup Windowing \cup Tailing \cup Ending
            \cup {"failing", "threw", "finish", "tail", "surfaced", "closed"}
Threads == [at : Points, job : Jobs, att : Nat, rec : JobRecords \cup {None}, seq : Nat,
            then : {"none", "chunk", "refused", "consume", "tail", "boot"}]

Memories ==
    [job : [Jobs -> JobRecords], queue : Seq(Jobs), pcm : [Jobs -> Nat],
     slot : SUBSET Jobs, active : SUBSET Jobs, consumer : SUBSET Jobs,
     att : [Jobs -> Attempts], made : [Jobs -> Nat], decoder : [Jobs -> Decoders],
     batch : Seq(Jobs), boot : Seq(Jobs), lows : Nat, threads : SUBSET Threads]

Mine(m, j) == {t \in m.threads : t.job = j}
Queued(m, j) == Contains(m.queue, j)
Allowed(m, j) == m.att[j].accepting \/ m.att[j].tailAllowed

(* The threads of recover() that the rest of its list waits for.           *)
Booting == {"recovered", "surfaced", "closed"}

(* What holds of every memory: one recording has the slot, an attempt that *)
(* takes chunks has it, an attempt that was stopped takes nothing more,    *)
(* and only jobs that are known have attempts and threads.                 *)
Sound(m) ==
    /\ m \in Memories
    /\ IsInjective(m.queue)
    /\ \A j, k \in m.slot : j = k
    /\ \A j \in Jobs : m.att[j].accepting => j \in m.slot
    /\ \A j \in Jobs : Allowed(m, j) =>
          /\ m.job[j].state \notin {"absent", "cancelled", "failed"}
          /\ m.att[j].id > 0
    /\ \A j \in Jobs : m.att[j].id \in {0, m.made[j]} /\ m.decoder[j].att <= m.made[j]
    /\ \A j \in Jobs : m.made[j] > 0 => j \in Known(m)
    /\ \A t \in m.threads : /\ t.job \in Known(m) /\ t.att <= m.made[t.job]
                            /\ t.then = "boot" => t.at \in Booting

-----------------------------------------------------------------------------
(* The work on one job.                                                    *)

InChunk(t) == t.at \in Chunking \/ (t.at = "failing" /\ t.then = "chunk")
InRefusal(t) == t.at = "failing" /\ t.then = "refused"
InConsume(t) == t.at \in Windowing \/ (t.at = "failing" /\ t.then = "consume")
InTail(t) == t.at \in Tailing \/ (t.at = "failing" /\ t.then = "tail")
Holds(t) == InChunk(t) \/ InConsume(t)
Works(t) == Holds(t) \/ InRefusal(t) \/ t.at \in {"finish", "tail"}
Leads(t) == InConsume(t) \/ t.at \in {"finish", "tail"}
Starts(m, t) == t.at \in Starting /\ t.att = m.made[t.job]
Idles(m, j) == m.decoder[j].att > 0 /\ ~m.decoder[j].busy
Stops(T) == \E t \in T : t.at \in Ending \cup {"failing"}

(* An attempt that may go on has somebody at work on it.                   *)
AttemptServed(m, j, T) ==
    /\ Allowed(m, j) => m.job[j].state \in {"decoding", "transcribing"}
    /\ m.att[j].accepting => m.att[j].tailAllowed
    /\ m.att[j].accepting =>
          Idles(m, j) \/ \E t \in T : Works(t) \/ Starts(m, t)
    /\ m.att[j].tailAllowed =>
          m.att[j].accepting \/ \E t \in T : t.at \in {"finish", "tail"}
    /\ m.att[j].tailAllowed =>
          /\ Idles(m, j) => m.job[j].state = "decoding"
          /\ \A t \in T :
                /\ Starts(m, t) \/ t.at \in {"decoding", "finish"} => m.job[j].state = "decoding"
                /\ t.at \in Windowing \cup {"tail"} => m.job[j].state = "transcribing"

(* Decoded audio is held under the slot, by a thread that works for the    *)
(* attempt or until a stop that is under way drops it.                     *)
AudioHeld(m, j, T) ==
    /\ m.pcm[j] > 0 => m.att[j].accepting \/ Stops(T)
    /\ m.pcm[j] > 0 /\ ~m.job[j].vad => Stops(T) \/ \E t \in T : t.at = "overflow"
    /\ \A t \in T :
          /\ t.at \in Chunking => ~m.job[j].vad
          /\ InConsume(t) \/ t.at = "tail" => m.pcm[j] = 0
          /\ t.at = "tail" => ~m.att[j].accepting
          /\ t.at = "created" => j \notin m.slot
    /\ j \in m.consumer => \E t \in T : Holds(t)
    /\ \A t \in T : Holds(t) => j \in m.slot /\ j \in m.consumer /\ t.att = m.att[j].id
    /\ j \in m.slot => m.att[j].accepting \/ j \in m.consumer \/ Stops(T)
    /\ m.job[j].vad /\ m.att[j].tailAllowed =>
          /\ Idles(m, j) => m.pcm[j] = m.decoder[j].next
          /\ \A t \in T : t.at = "finish" => m.att[j].accepting /\ m.pcm[j] > 0

(* One thread works on the job, for its last attempt, which none does that *)
(* has yet to start.                                                       *)
OneWorker(m, j, T) ==
    /\ \A t, u \in T : Works(t) /\ Works(u) => t = u
    /\ \A t \in T : Works(t) => t.att = m.made[j]
    /\ \A t \in T : Starts(m, t) =>
          /\ \A u \in T : ~Works(u) /\ ~InTail(u) /\ (Starts(m, u) => u = t)
          /\ m.decoder[j].att # t.att /\ t.att > 0 /\ m.pcm[j] = 0

(* A decoder that waits for nobody is that of the last attempt; an older   *)
(* one is about to be dropped.                                             *)
DecoderKnown(m, j, T) ==
    /\ Idles(m, j) =>
          /\ m.decoder[j].att = m.made[j]
          /\ m.job[j].state \in {"decoding", "transcribing", "cancelled"}
          /\ \A t \in T : ~Works(t)
    /\ m.decoder[j].att > 0 /\ m.decoder[j].busy =>
          \E t \in T : /\ InChunk(t) \/ InRefusal(t) \/ t.at = "threw"
                       /\ t.att = m.decoder[j].att
    /\ \A t \in T :
          /\ Leads(t) \/ InTail(t) => m.decoder[j].att = 0
          /\ InChunk(t) => m.decoder[j].att \in {0, t.att}
          /\ InChunk(t) \/ t.at = "threw" => t.att > 0
          /\ t.at \in Chunking /\ (m.decoder[j].att > 0 \/ m.att[j].accepting) =>
                /\ m.job[j].state \in {"decoding", "transcribing", "cancelled"}
                /\ m.decoder[j].att = t.att

(* The state of a job says who will come to it.                            *)
StateKnown(m, j, T) ==
    /\ \A t \in T :
          /\ t.at = "failing" => m.job[j].state = "failed"
          /\ t.at \in {"finish", "tail"} \cup Windowing =>
                m.job[j].state \in {"decoding", "transcribing", "cancelled"}
          /\ t.at \in Ending =>
                \/ m.job[j].state = "cancelled"
                \/ m.job[j].file /\ m.job[j].state \in {"saving", "recapping", "done", "failed"}
    /\ Queued(m, j) \/ (\E t \in T : t.at \in Arriving) =>
          m.job[j].state \in {"queued", "cancelled"}
    /\ \A t, u \in T : t.at \in Arriving => ~Queued(m, j) /\ (u.at \in Arriving => u = t)
    /\ m.job[j].state = "queued" => Queued(m, j) \/ \E t \in T : t.at \in Arriving
    /\ m.job[j].state \in {"decoding", "transcribing"} =>
          \/ m.att[j].accepting
          \/ \E t \in T : InTail(t) \/ (m.att[j].tailAllowed /\ Leads(t))
    /\ m.job[j].state \in {"saving", "recapping"} => \E t \in T : InTail(t)

(* The tail runs alone, when the audio and the attempt are gone.           *)
TailAlone(m, j, T) ==
    \A t \in T : InTail(t) =>
        /\ ~Allowed(m, j) /\ m.pcm[j] = 0
        /\ \A u \in T : ~Works(u) /\ (InTail(u) => u = t) /\ u.at \notin Arriving
        /\ ~Queued(m, j) /\ m.job[j].state # "queued"
        /\ m.job[j].state = "failed" => t.at = "failing"
        /\ t.at \in {"done", "removing"} => m.job[j].state = "done"
        /\ t.at \in {"abandoning", "abandoned"} => m.job[j].state = "cancelled"

(* A job and the threads T that work on it or are about to.                *)
FineWith(m, j, T) ==
    /\ AttemptServed(m, j, T) /\ AudioHeld(m, j, T) /\ OneWorker(m, j, T)
    /\ DecoderKnown(m, j, T) /\ StateKnown(m, j, T) /\ TailAlone(m, j, T)

Fine(m, j) == FineWith(m, j, Mine(m, j))

(* Nobody waits for a free slot.                                           *)
Calm(m, js) ==
    m.slot = {} => \A j \in js : Queued(m, j) => m.job[j].state # "queued"

(* The jobs of the lists that are still being added to the queue have not  *)
(* been seen before.                                                       *)
Orders ==
    /\ started \subseteq Jobs
    /\ Known(mem) \subseteq started
    /\ \A j \in Jobs : disk[j] # None => j \in started
    /\ IsInjective(mem.boot) /\ IsInjective(mem.batch)
    /\ \A j \in Range(mem.boot) : j \in started /\ j \notin Known(mem) /\ disk[j] # None
    /\ \A j \in Range(mem.batch) : j \in started /\ j \notin Known(mem)
    /\ Range(mem.boot) \cap Range(mem.batch) = {}

TypeOK ==
    /\ mem \in Memories
    /\ disk \in [Jobs -> JobRecords \cup {None}]
    /\ files \in [Jobs -> Int]
    /\ build \in Nat /\ upsets \in Nat /\ crashes \in Nat
    /\ {cut, raced, stranded, misfired} \subseteq SUBSET Jobs

(* All of it.  What runs on for a misfired job is not accounted for.       *)
IInv ==
    /\ TypeOK /\ Sound(mem) /\ Orders
    /\ \A j \in Jobs \ misfired : Fine(mem, j)
    /\ Adding \/ Calm(mem, Jobs \ misfired)

-----------------------------------------------------------------------------
(* What a job sees of a step.                                              *)

(* The part of a memory that concerns j is the same in n as in m; j may    *)
(* have been dropped from the queue if it does not wait.                   *)
Same(m, n, j) ==
    /\ n.job[j] = m.job[j] /\ n.pcm[j] = m.pcm[j] /\ n.att[j] = m.att[j]
    /\ n.made[j] = m.made[j] /\ n.decoder[j] = m.decoder[j]
    /\ (j \in n.slot <=> j \in m.slot) /\ (j \in n.consumer <=> j \in m.consumer)
    /\ Mine(n, j) = Mine(m, j)
    /\ Queued(n, j) => Queued(m, j)
    /\ Queued(m, j) /\ m.job[j].state = "queued" => Queued(n, j)

(* From m to n the pump has given j the free slot.                         *)
Takes(m, n, j) ==
    /\ m.slot = {} /\ n.slot = {j}
    /\ Queued(m, j) /\ ~Queued(n, j) /\ j \in Known(m) /\ ~IsOver(m, j)
    /\ n.job[j].state = "decoding" /\ n.job[j].file = m.job[j].file
    /\ n.pcm[j] = 0 /\ n.decoder[j] = m.decoder[j]
    /\ n.made[j] = m.made[j] + 1
    /\ n.att[j] = [id |-> m.made[j] + 1, accepting |-> TRUE, tailAllowed |-> TRUE]
    /\ j \in n.consumer <=> j \in m.consumer
    /\ \E u \in Threads : /\ u.at = "claimed" /\ u.job = j /\ u.att = m.made[j] + 1 /\ u.then = "none"
                          /\ Mine(n, j) = Mine(m, j) \cup {u} /\ u.rec = n.job[j]

(* The threads that are still adding to the queue.                         *)
Adders(m) == {t \in m.threads : t.at = "created" \/ t.then = "boot"}

(* The lists, and who is known and who is cancelled, which no synchronous  *)
(* stretch changes but that of a request.                                  *)
Keeps(m, n) ==
    /\ n.batch = m.batch /\ n.boot = m.boot /\ Adders(n) = Adders(m)
    /\ Known(n) = Known(m)
    /\ \A j \in Jobs : /\ m.job[j].state = "cancelled" => n.job[j].state = "cancelled"
                       /\ m.made[j] <= n.made[j]

(* A job that does not wait for a slot that is free.                       *)
Rests(m, j) == m.slot = {} /\ Queued(m, j) => m.job[j].state # "queued"

(* A stretch of the work for k, which leaves the others as they are or     *)
(* gives one of them the slot.                                             *)
Moves(m, n, k) ==
    /\ Sound(n) /\ Keeps(m, n)
    /\ \A j \in Jobs \ {k} : Fine(m, j) => Fine(n, j)
    /\ \A j \in Jobs \ {k} : Rests(m, j) => Rests(n, j)

(* The same, but the slot may be left free with someone waiting for it.    *)
Frees(m, n, k) ==
    /\ Sound(n) /\ Keeps(m, n)
    /\ \A j \in Jobs \ {k} : Fine(m, j) => Fine(n, j)

(* Fine speaks only of what a job sees.                                    *)
LEMMA SameIsFineWith ==
    ASSUME NEW m, NEW n, NEW j, NEW T, FineWith(m, j, T), \A t \in T : t.job = j,
           n.job[j] = m.job[j], n.pcm[j] = m.pcm[j], n.att[j] = m.att[j],
           n.made[j] = m.made[j], n.decoder[j] = m.decoder[j],
           j \in n.slot <=> j \in m.slot, j \in n.consumer <=> j \in m.consumer,
           Queued(n, j) => Queued(m, j),
           Queued(m, j) /\ m.job[j].state = "queued" => Queued(n, j)
    PROVE  FineWith(n, j, T)
  <1>2. Allowed(n, j) <=> Allowed(m, j)
    BY DEF Allowed
  <1>3. Idles(n, j) <=> Idles(m, j)
    BY DEF Idles
  <1>5. \A t \in T : Starts(n, t) <=> Starts(m, t)
    BY DEF Starts
  <1>6. AttemptServed(n, j, T)
    BY <1>2, <1>3, <1>5 DEF FineWith, AttemptServed
  <1>7. AudioHeld(n, j, T)
    BY <1>3 DEF FineWith, AudioHeld
  <1>8. OneWorker(n, j, T)
    BY <1>5 DEF FineWith, OneWorker
  <1>9. DecoderKnown(n, j, T)
    BY <1>3 DEF FineWith, DecoderKnown
  <1>10. StateKnown(n, j, T)
    BY DEF FineWith, StateKnown
  <1>11. TailAlone(n, j, T)
    BY <1>2 DEF FineWith, TailAlone
  <1>12. QED BY <1>6, <1>7, <1>8, <1>9, <1>10, <1>11 DEF FineWith

(* So a job that sees no change stays fine.                                *)
LEMMA SameIsFine ==
    ASSUME NEW m, NEW n, NEW j, Same(m, n, j), Fine(m, j)
    PROVE  Fine(n, j)
  <1>1. FineWith(m, j, Mine(m, j)) /\ \A t \in Mine(m, j) : t.job = j
    BY DEF Fine, Mine
  <1>2. /\ n.job[j] = m.job[j] /\ n.pcm[j] = m.pcm[j] /\ n.att[j] = m.att[j]
        /\ n.made[j] = m.made[j] /\ n.decoder[j] = m.decoder[j]
        /\ (j \in n.slot <=> j \in m.slot) /\ (j \in n.consumer <=> j \in m.consumer)
        /\ Mine(n, j) = Mine(m, j)
        /\ Queued(n, j) => Queued(m, j)
        /\ Queued(m, j) /\ m.job[j].state = "queued" => Queued(n, j)
    BY DEF Same
  <1>3. FineWith(n, j, Mine(m, j))
    BY <1>1, <1>2, SameIsFineWith
  <1>4. QED BY <1>2, <1>3 DEF Fine

(* A job that the pump takes waited, and nobody works on it.               *)
LEMMA TakenIsFineWith ==
    ASSUME NEW m, NEW n, NEW j \in Jobs, Sound(m), Takes(m, n, j),
           NEW T, FineWith(m, j, T), \A t \in T : t.job = j /\ t.att \in Nat /\ t.att <= m.made[j],
           NEW u, u.at = "claimed", u.job = j, u.att = m.made[j] + 1, u.then = "none"
    PROVE  FineWith(n, j, T \cup {u})
  <1> DEFINE U == T \cup {u}
  <1>1. /\ n.slot = {j} /\ n.job[j].state = "decoding" /\ n.pcm[j] = 0
        /\ n.decoder[j] = m.decoder[j] /\ n.made[j] = m.made[j] + 1
        /\ n.att[j] = [id |-> m.made[j] + 1, accepting |-> TRUE, tailAllowed |-> TRUE]
        /\ ~Queued(n, j) /\ (j \in n.consumer <=> j \in m.consumer)
        /\ m.slot = {}
    BY Zenon DEF Takes
  <1>2. /\ m.made[j] \in Nat /\ m.decoder[j].att \in Nat /\ m.decoder[j].att <= m.made[j]
        /\ m.decoder[j].busy \in BOOLEAN
    BY DEF Sound, Memories, Decoders
  <1>3. m.job[j].state = "queued"
    BY DEF Takes, FineWith, StateKnown, IsOver, Terminal
  <1>4. \A t \in T : ~Works(t) /\ ~InTail(t) /\ t.at \notin Ending \cup Arriving \cup {"failing"}
    <2> SUFFICES ASSUME NEW t \in T
                 PROVE ~Works(t) /\ ~InTail(t) /\ t.at \notin Ending \cup Arriving \cup {"failing"}
      OBVIOUS
    <2>1. ~InTail(t)
      BY <1>3 DEF FineWith, TailAlone
    <2>2. t.at # "failing" /\ t.at \notin Ending
      BY <1>3 DEF FineWith, StateKnown
    <2>3. t.at \notin {"finish", "tail"} \cup Windowing
      BY <1>3 DEF FineWith, StateKnown
    <2>4. ~Holds(t)
      BY <1>1 DEF FineWith, AudioHeld
    <2>5. t.at \notin Arriving
      BY DEF FineWith, StateKnown, Takes
    <2>6. QED BY <2>1, <2>2, <2>3, <2>4, <2>5 DEF Works, InRefusal
  <1>5. /\ ~Works(u) /\ ~InTail(u) /\ u.at \notin Ending \cup Arriving \cup {"failing", "finish", "overflow"}
        /\ ~Leads(u) /\ ~InChunk(u) /\ ~Holds(u)
    BY DEF Works, InTail, Holds, InChunk, InConsume, InRefusal, Leads, Tailing, Ending,
                Arriving, Chunking, Windowing
  <1> HIDE DEF U
  <1>6. /\ \A t \in U : t \in T \/ t = u
        /\ u \in U /\ \A t \in T : t \in U
    BY DEF U
  <1>7. \A t \in U : /\ ~Works(t) /\ ~InTail(t) /\ t.at \notin Ending \cup Arriving \cup {"failing"}
                     /\ ~Holds(t) /\ ~InChunk(t) /\ ~InRefusal(t) /\ ~Leads(t) /\ ~InConsume(t)
                     /\ t.at \notin {"finish", "tail"} /\ t.at \notin Windowing \cup Chunking
    BY <1>4, <1>5, <1>6 DEF Works, Holds, Leads, InConsume, InChunk
  <1>8. \A t \in U : Starts(n, t) => t = u
    <2>1. ASSUME NEW t \in T PROVE ~Starts(n, t)
      <3>1. t.job = j /\ t.att # m.made[j] + 1
        BY <1>2
      <3>2. QED BY <1>1, <3>1 DEF Starts
    <2>2. QED BY <1>6, <2>1
  <1>9. Starts(n, u)
    BY <1>1 DEF Starts, Starting
  <1>10. ~Idles(n, j)
    BY <1>1, <1>3 DEF Idles, FineWith, DecoderKnown
  <1>11. n.att[j].accepting
    BY <1>1
  <1>12. AttemptServed(n, j, U)
    BY <1>1, <1>6, <1>7, <1>9, <1>10, <1>11 DEF AttemptServed
  <1>13. AudioHeld(n, j, U)
    <2>1. j \notin m.consumer
      BY <1>4 DEF FineWith, AudioHeld, Works
    <2>2. \A t \in U : t.at # "created"
      BY <1>7 DEF Arriving
    <2>3. QED BY <1>1, <1>7, <1>10, <1>11, <2>1, <2>2 DEF AudioHeld
  <1>14. OneWorker(n, j, U)
    <2>1. m.decoder[j].att # m.made[j] + 1 /\ m.made[j] + 1 > 0
      BY <1>2
    <2>2. QED BY <1>1, <1>6, <1>7, <1>8, <2>1 DEF OneWorker
  <1>15. DecoderKnown(n, j, U)
    <2>1. /\ m.decoder[j].att > 0 /\ m.decoder[j].busy =>
               \E t \in T : (InChunk(t) \/ InRefusal(t) \/ t.at = "threw") /\ t.att = m.decoder[j].att
          /\ \A t \in T : t.at = "threw" => t.att > 0
      BY DEF FineWith, DecoderKnown
    <2>2. n.decoder[j].att > 0 /\ n.decoder[j].busy =>
            \E t \in U : (InChunk(t) \/ InRefusal(t) \/ t.at = "threw") /\ t.att = n.decoder[j].att
      BY <1>1, <1>6, <2>1
    <2>3. \A t \in U : t.at = "threw" => t.att > 0
      BY <1>6, <2>1
    <2>4. QED BY <1>7, <1>10, <2>2, <2>3 DEF DecoderKnown
  <1>16. StateKnown(n, j, U)
    BY <1>1, <1>7, <1>11 DEF StateKnown
  <1>17. TailAlone(n, j, U)
    BY <1>7 DEF TailAlone
  <1>18. FineWith(n, j, U)
    BY <1>12, <1>13, <1>14, <1>15, <1>16, <1>17 DEF FineWith
  <1>19. QED BY <1>18 DEF U

(* So a job that the pump takes stays fine.                                *)
LEMMA TakenIsFine ==
    ASSUME NEW m, NEW n, NEW j \in Jobs, Sound(m), Fine(m, j), Takes(m, n, j)
    PROVE  Fine(n, j)
  <1>1. PICK u \in Threads : /\ u.at = "claimed" /\ u.job = j /\ u.att = m.made[j] + 1 /\ u.then = "none"
                             /\ Mine(n, j) = Mine(m, j) \cup {u}
    BY DEF Takes
  <1>2. \A t \in Mine(m, j) : t.job = j /\ t.att \in Nat /\ t.att <= m.made[j]
    BY DEF Sound, Memories, Threads, Mine
  <1>3. FineWith(n, j, Mine(m, j) \cup {u})
    BY <1>1, <1>2, TakenIsFineWith DEF Fine
  <1>4. QED BY <1>1, <1>3 DEF Fine

-----------------------------------------------------------------------------
(* Awaiting.                                                               *)

(* A new thread changes nothing but the threads.                           *)
LEMMA AwaitIs ==
    ASSUME NEW m \in Memories, NEW u \in Threads
    PROVE  LET n == Await(m, u) IN
           /\ n \in Memories /\ n = [m EXCEPT !.threads = m.threads \cup {u}]
           /\ n.threads = m.threads \cup {u}
           /\ n.job = m.job /\ n.queue = m.queue /\ n.pcm = m.pcm /\ n.slot = m.slot
           /\ n.active = m.active /\ n.consumer = m.consumer /\ n.att = m.att
           /\ n.made = m.made /\ n.decoder = m.decoder /\ n.batch = m.batch
           /\ n.boot = m.boot /\ n.lows = m.lows
  BY DEF Await, Memories

(* A thread that saves carries the job.                                    *)
Saving(m, u) == [u EXCEPT !.rec = m.job[u.job]]

(* It is the thread that was given, with the job as it is now.             *)
LEMMA SavingIs ==
    ASSUME NEW m \in Memories, NEW u \in Threads
    PROVE  LET v == Saving(m, u) IN
           /\ v \in Threads
           /\ v.at = u.at /\ v.job = u.job /\ v.att = u.att /\ v.seq = u.seq /\ v.then = u.then
           /\ v.rec = m.job[u.job]
  BY DEF Saving, Threads, Memories

(* Threads are threads.                                                    *)
LEMMA ThreadIs ==
    ASSUME NEW at \in Points, NEW j \in Jobs, NEW a \in Nat
    PROVE  /\ Thread(at, j, a) \in Threads
           /\ Thread(at, j, a).at = at /\ Thread(at, j, a).job = j /\ Thread(at, j, a).att = a
           /\ Thread(at, j, a).then = "none" /\ Thread(at, j, a).rec = None /\ Thread(at, j, a).seq = 0
  BY DEF Thread, Threads

-----------------------------------------------------------------------------
(* The pump.                                                               *)

(* The first of some indices is one of them.                               *)
LEMMA MinOf ==
    ASSUME NEW S \in SUBSET Nat, S # {}
    PROVE  Min(S) \in S /\ \A x \in S : Min(S) <= x
  <1>1. \E x \in S : \A y \in S : x <= y
    BY LeastNatural
  <1>2. QED BY <1>1 DEF Min

(* A downgraded job is a job, as far as it got.                            *)
LEMMA DowngradedIs ==
    ASSUME NEW job \in JobRecords, build \in Nat
    PROVE  /\ Downgraded(job) \in JobRecords
           /\ Downgraded(job).state = job.state /\ Downgraded(job).file = job.file
           /\ Downgraded(job).error = job.error
  <1>1. <<>> \in Seq(Units)
    OBVIOUS
  <1>2. QED BY <1>1 DEF Downgraded, JobRecords

(* The thread that the pump goes on with.                                  *)
Claiming(m, n, j) ==
    \E u \in Threads : /\ u.at = "claimed" /\ u.job = j /\ u.att = m.made[j] + 1
                       /\ u.then = "none" /\ n.threads = m.threads \cup {u}
                       /\ u.rec = n.job[j]

(* What the pump does for the one it takes.                                *)
LEMMA ClaimIs ==
    ASSUME NEW m \in Memories, build \in Nat, NEW i \in 1 .. Len(m.queue), NEW low \in BOOLEAN
    PROVE  LET n == Claim(m, i, low)
               j == m.queue[i]
           IN  /\ n \in Memories /\ j \in Jobs
               /\ n.queue = SubSeq(m.queue, i + 1, Len(m.queue))
               /\ n.slot = m.slot \cup {j} /\ n.consumer = m.consumer
               /\ n.decoder = m.decoder /\ n.batch = m.batch /\ n.boot = m.boot
               /\ n.pcm[j] = 0 /\ n.made[j] = m.made[j] + 1
               /\ n.att[j] = [id |-> m.made[j] + 1, accepting |-> TRUE, tailAllowed |-> TRUE]
               /\ n.job[j].state = "decoding" /\ n.job[j].file = m.job[j].file
               /\ \A k \in Jobs \ {j} : /\ n.job[k] = m.job[k] /\ n.pcm[k] = m.pcm[k]
                                        /\ n.made[k] = m.made[k] /\ n.att[k] = m.att[k]
               /\ Claiming(m, n, j)
  <1> DEFINE j == m.queue[i]
             a == m.made[j] + 1
             q == SubSeq(m.queue, i + 1, Len(m.queue))
             job == IF low THEN Downgraded(m.job[j]) ELSE m.job[j]
             rec == [job EXCEPT !.state = "decoding", !.total = IF job.vad THEN 0 ELSE @]
             att == [id |-> a, accepting |-> TRUE, tailAllowed |-> TRUE]
             d == [m EXCEPT !.queue = SubSeq(@, i + 1, Len(@)),
                       !.pcm[j] = 0,
                       !.slot = @ \cup {j},
                       !.active = @ \cup {j},
                       !.made[j] = a,
                       !.lows = IF low THEN @ + 1 ELSE @,
                       !.att[j] = att,
                       !.job[j] = rec]
             u == Thread("claimed", j, a)
             n == Claim(m, i, low)
  <1>1. j \in Jobs /\ a \in Nat /\ m.job[j] \in JobRecords
    <2>1. m.queue \in Seq(Jobs) /\ m.job \in [Jobs -> JobRecords] /\ m.made \in [Jobs -> Nat]
      BY DEF Memories
    <2>2. j \in Jobs
      BY <2>1
    <2>3. QED BY <2>1, <2>2
  <1>2. q \in Seq(Jobs)
    BY DEF Memories
  <1>3. job \in JobRecords /\ job.file = m.job[j].file
    BY <1>1, DowngradedIs
  <1>4. att \in Attempts /\ u \in Threads
        /\ u.at = "claimed" /\ u.job = j /\ u.att = a /\ u.then = "none"
    <2>1. "claimed" \in Points
      BY DEF Points, Starting
    <2>2. att \in Attempts
      BY <1>1 DEF Attempts
    <2> HIDE DEF att, a, j
    <2>3. QED BY <1>1, <2>1, <2>2, ThreadIs
  <1> HIDE DEF job, q, j, a, u
  <1>5. rec \in JobRecords /\ rec.state = "decoding" /\ rec.file = m.job[j].file
    <2> DEFINE r1 == [job EXCEPT !.state = "decoding"]
               n1 == IF job.vad THEN 0 ELSE r1.total
    <2>1. r1 \in JobRecords /\ r1.state = "decoding" /\ r1.file = job.file
      BY <1>3 DEF JobRecords, JobStates
    <2>2. n1 \in Nat
      BY <2>1 DEF JobRecords
    <2>3. rec = [r1 EXCEPT !.total = n1]
      BY <1>3 DEF JobRecords
    <2> HIDE DEF r1, n1
    <2>4. QED BY <1>3, <2>1, <2>2, <2>3 DEF JobRecords
  <1> HIDE DEF rec, att
  <1> DEFINE d1 == [m EXCEPT !.queue = q]
             d2 == [d1 EXCEPT !.pcm = [d1.pcm EXCEPT ![j] = 0]]
             d3 == [d2 EXCEPT !.slot = d2.slot \cup {j}]
             d4 == [d3 EXCEPT !.active = d3.active \cup {j}]
             d5 == [d4 EXCEPT !.made = [d4.made EXCEPT ![j] = a]]
             d6 == [d5 EXCEPT !.lows = IF low THEN d5.lows + 1 ELSE d5.lows]
             d7 == [d6 EXCEPT !.att = [d6.att EXCEPT ![j] = att]]
             d8 == [d7 EXCEPT !.job = [d7.job EXCEPT ![j] = rec]]
  <1>5a. d = d8
    BY DEF q
  <1>5b. d1 \in Memories /\ d1.queue = q
         /\ d1.job = m.job /\ d1.pcm = m.pcm /\ d1.slot = m.slot /\ d1.active = m.active
         /\ d1.consumer = m.consumer /\ d1.att = m.att /\ d1.made = m.made
         /\ d1.decoder = m.decoder /\ d1.batch = m.batch /\ d1.boot = m.boot
         /\ d1.lows = m.lows /\ d1.threads = m.threads
    BY <1>2 DEF Memories
  <1> HIDE DEF d1
  <1>5c. d2 \in Memories /\ d2.pcm = [d1.pcm EXCEPT ![j] = 0]
         /\ d2.queue = d1.queue /\ d2.job = d1.job /\ d2.slot = d1.slot /\ d2.active = d1.active
         /\ d2.consumer = d1.consumer /\ d2.att = d1.att /\ d2.made = d1.made
         /\ d2.decoder = d1.decoder /\ d2.batch = d1.batch /\ d2.boot = d1.boot
         /\ d2.lows = d1.lows /\ d2.threads = d1.threads
    BY <1>1, <1>5b DEF Memories
  <1> HIDE DEF d2
  <1>5d. d3 \in Memories /\ d3.slot = d2.slot \cup {j}
         /\ d3.queue = d2.queue /\ d3.job = d2.job /\ d3.pcm = d2.pcm /\ d3.active = d2.active
         /\ d3.consumer = d2.consumer /\ d3.att = d2.att /\ d3.made = d2.made
         /\ d3.decoder = d2.decoder /\ d3.batch = d2.batch /\ d3.boot = d2.boot
         /\ d3.lows = d2.lows /\ d3.threads = d2.threads
    BY <1>1, <1>5c DEF Memories
  <1> HIDE DEF d3
  <1>5e. d4 \in Memories
         /\ d4.queue = d3.queue /\ d4.job = d3.job /\ d4.pcm = d3.pcm /\ d4.slot = d3.slot
         /\ d4.consumer = d3.consumer /\ d4.att = d3.att /\ d4.made = d3.made
         /\ d4.decoder = d3.decoder /\ d4.batch = d3.batch /\ d4.boot = d3.boot
         /\ d4.lows = d3.lows /\ d4.threads = d3.threads
    BY <1>1, <1>5d DEF Memories
  <1> HIDE DEF d4
  <1>5f. d5 \in Memories /\ d5.made = [d4.made EXCEPT ![j] = a]
         /\ d5.queue = d4.queue /\ d5.job = d4.job /\ d5.pcm = d4.pcm /\ d5.slot = d4.slot
         /\ d5.consumer = d4.consumer /\ d5.att = d4.att
         /\ d5.decoder = d4.decoder /\ d5.batch = d4.batch /\ d5.boot = d4.boot
         /\ d5.lows = d4.lows /\ d5.threads = d4.threads
    BY <1>1, <1>5e DEF Memories
  <1> HIDE DEF d5
  <1>5g. d6 \in Memories
         /\ d6.queue = d5.queue /\ d6.job = d5.job /\ d6.pcm = d5.pcm /\ d6.slot = d5.slot
         /\ d6.consumer = d5.consumer /\ d6.att = d5.att /\ d6.made = d5.made
         /\ d6.decoder = d5.decoder /\ d6.batch = d5.batch /\ d6.boot = d5.boot
         /\ d6.threads = d5.threads
    <2>0. d5.lows \in Nat
      BY <1>5f DEF Memories
    <2>1. (IF low THEN d5.lows + 1 ELSE d5.lows) \in Nat
      BY <2>0
    <2>2. QED BY <2>1, <1>5f DEF Memories
  <1> HIDE DEF d6
  <1>5h. d7 \in Memories /\ d7.att = [d6.att EXCEPT ![j] = att]
         /\ d7.queue = d6.queue /\ d7.job = d6.job /\ d7.pcm = d6.pcm /\ d7.slot = d6.slot
         /\ d7.consumer = d6.consumer /\ d7.made = d6.made
         /\ d7.decoder = d6.decoder /\ d7.batch = d6.batch /\ d7.boot = d6.boot
         /\ d7.threads = d6.threads
    BY <1>1, <1>4, <1>5g DEF Memories
  <1> HIDE DEF d7
  <1>5i. d8 \in Memories /\ d8.job = [d7.job EXCEPT ![j] = rec]
         /\ d8.queue = d7.queue /\ d8.pcm = d7.pcm /\ d8.slot = d7.slot
         /\ d8.consumer = d7.consumer /\ d8.att = d7.att /\ d8.made = d7.made
         /\ d8.decoder = d7.decoder /\ d8.batch = d7.batch /\ d8.boot = d7.boot
         /\ d8.threads = d7.threads
    BY <1>1, <1>5, <1>5h DEF Memories
  <1> HIDE DEF d8, d
  <1>6. /\ d.queue = q /\ d.slot = m.slot \cup {j} /\ d.consumer = m.consumer
        /\ d.decoder = m.decoder /\ d.batch = m.batch /\ d.boot = m.boot
        /\ d.threads = m.threads
        /\ d.pcm = [m.pcm EXCEPT ![j] = 0] /\ d.made = [m.made EXCEPT ![j] = a]
        /\ d.att = [m.att EXCEPT ![j] = att] /\ d.job = [m.job EXCEPT ![j] = rec]
    BY <1>5a, <1>5b, <1>5c, <1>5d, <1>5e, <1>5f, <1>5g, <1>5h, <1>5i
  <1>8. d \in Memories
    BY <1>5a, <1>5i
  <1>9. n = Await(d, Saving(d, u))
    BY DEF Claim, Save, Saving, d, u, a, j, q, rec, job, att
  <1>10. /\ \A k \in Jobs \ {j} : /\ d.job[k] = m.job[k] /\ d.pcm[k] = m.pcm[k]
                                  /\ d.made[k] = m.made[k] /\ d.att[k] = m.att[k]
         /\ d.job[j] = rec /\ d.pcm[j] = 0 /\ d.made[j] = a /\ d.att[j] = att
    BY <1>1, <1>6 DEF Memories
  <1> HIDE DEF d, n
  <1>11. /\ n \in Memories /\ n.threads = d.threads \cup {Saving(d, u)}
         /\ n.job = d.job /\ n.queue = d.queue /\ n.pcm = d.pcm /\ n.slot = d.slot
         /\ n.consumer = d.consumer /\ n.att = d.att
         /\ n.made = d.made /\ n.decoder = d.decoder /\ n.batch = d.batch
         /\ n.boot = d.boot
    BY <1>4, <1>8, <1>9, AwaitIs, SavingIs
  <1>12. Claiming(m, n, j)
    <2>1. d.threads = m.threads
      BY <1>6
    <2>2. /\ Saving(d, u) \in Threads /\ Saving(d, u).at = u.at /\ Saving(d, u).job = u.job
          /\ Saving(d, u).att = u.att /\ Saving(d, u).then = u.then
          /\ Saving(d, u).rec = d.job[j]
      BY <1>4, <1>8, SavingIs
    <2>3. QED BY <2>1, <2>2, <1>4, <1>11 DEF Claiming, a
  <1>13. /\ n.queue = q /\ n.slot = m.slot \cup {j} /\ n.consumer = m.consumer
         /\ n.decoder = m.decoder /\ n.batch = m.batch /\ n.boot = m.boot
         /\ n.pcm[j] = 0 /\ n.made[j] = a /\ n.att[j] = att
         /\ n.job[j].state = "decoding" /\ n.job[j].file = m.job[j].file
    BY <1>5, <1>6, <1>10, <1>11
  <1>14. \A k \in Jobs \ {j} : /\ n.job[k] = m.job[k] /\ n.pcm[k] = m.pcm[k]
                                /\ n.made[k] = m.made[k] /\ n.att[k] = m.att[k]
    BY <1>10, <1>11
  <1>15. QED BY <1>1, <1>11, <1>12, <1>13, <1>14, Zenon DEF n, q, j, a, att

(* What is left of a queue behind its i-th.                                *)
LEMMA BehindIs ==
    ASSUME NEW S, NEW q \in Seq(S), IsInjective(q), NEW i \in 1 .. Len(q)
    PROVE  LET r == SubSeq(q, i + 1, Len(q)) IN
           /\ r \in Seq(S) /\ IsInjective(r)
           /\ ~Contains(r, q[i])
           /\ \A d : Contains(r, d) => Contains(q, d)
           /\ \A k \in 1 .. Len(q) : k > i => Contains(r, q[k])
  <1> DEFINE r == SubSeq(q, i + 1, Len(q))
  <1>1. r \in Seq(S) /\ Len(r) = Len(q) - i /\ Len(q) \in Nat /\ Len(r) \in Nat
    OBVIOUS
  <1>2. \A k \in 1 .. Len(r) : r[k] = q[i + k] /\ i + k \in 1 .. Len(q)
    OBVIOUS
  <1>3. DOMAIN r = 1 .. Len(r) /\ DOMAIN q = 1 .. Len(q)
    OBVIOUS
  <1> HIDE DEF r
  <1>4. \A k, l \in 1 .. Len(q) : q[k] = q[l] => k = l
    BY <1>3 DEF IsInjective
  <1>5. IsInjective(r)
    BY <1>1, <1>2, <1>3, <1>4 DEF IsInjective
  <1>6. ~Contains(r, q[i])
    <2> SUFFICES ASSUME NEW k \in 1 .. Len(r), r[k] = q[i] PROVE FALSE
      BY DEF Contains
    <2>1. i + k = i
      BY <1>2, <1>4
    <2>2. QED BY <2>1, <1>1
  <1>7. \A d : Contains(r, d) => Contains(q, d)
    BY <1>2 DEF Contains
  <1>8. ASSUME NEW k \in 1 .. Len(q), k > i PROVE Contains(r, q[k])
    <2>1. k - i \in 1 .. Len(r) /\ i + (k - i) = k
      BY <1>1, <1>8
    <2>2. r[k - i] = q[k]
      BY <2>1, <1>2
    <2>3. QED BY <2>1, <2>2 DEF Contains
  <1>9. QED BY <1>1, <1>5, <1>6, <1>7, <1>8 DEF r

(* The pump leaves a taken slot alone, gives a free one to the first job   *)
(* that waits, and empties the queue if none does.                         *)
LEMMA PumpedIs ==
    ASSUME NEW m, Sound(m), build \in Nat, NEW n \in Pumped(m)
    PROVE  /\ Sound(n) /\ Keeps(m, n)
           /\ \A j \in Jobs : Same(m, n, j) \/ Takes(m, n, j)
           /\ m.slot # {} => n = m
           /\ m.slot = {} => \A js : Calm(n, js)
  <1> DEFINE live == {i \in DOMAIN m.queue : m.queue[i] \in Known(m) /\ ~IsOver(m, m.queue[i])}
  <1>1. m \in Memories /\ m.queue \in Seq(Jobs) /\ DOMAIN m.queue = 1 .. Len(m.queue)
    BY DEF Sound, Memories
  <1>2. \A j \in Jobs : Same(m, m, j)
    BY DEF Same
  <1>3. Keeps(m, m)
    <2>1. \A j \in Jobs : m.made[j] <= m.made[j]
      BY <1>1 DEF Memories
    <2>2. QED BY <2>1 DEF Keeps
  <1>4. CASE m.slot # {}
    <2>1. n = m
      BY <1>4 DEF Pumped
    <2>2. QED BY <2>1, <1>2, <1>3, <1>4
  <1>5. CASE m.slot = {} /\ live = {}
    <2>0. n = [m EXCEPT !.queue = <<>>]
      BY <1>5 DEF Pumped
    <2>1. /\ n \in Memories /\ n.queue = <<>>
          /\ n.job = m.job /\ n.pcm = m.pcm /\ n.slot = m.slot /\ n.active = m.active
          /\ n.consumer = m.consumer /\ n.att = m.att /\ n.made = m.made
          /\ n.decoder = m.decoder /\ n.batch = m.batch /\ n.boot = m.boot
          /\ n.lows = m.lows /\ n.threads = m.threads
      <3>1. <<>> \in Seq(Jobs)
        OBVIOUS
      <3>2. QED BY <2>0, <3>1, <1>1 DEF Memories
    <2>2. IsInjective(n.queue) /\ \A j : ~Queued(n, j)
      BY <2>1 DEF IsInjective, Queued, Contains
    <2>3. Known(n) = Known(m)
      BY <2>1 DEF Known
    <2>4. Sound(n)
      BY <2>1, <2>2, <2>3 DEF Sound, Allowed
    <2>5. Keeps(m, n)
      BY <1>3, <2>1, <2>3 DEF Keeps, Adders
    <2>6. ASSUME NEW j \in Jobs PROVE Same(m, n, j)
      <3>1. Queued(m, j) => m.job[j].state # "queued"
        BY <1>1, <1>5 DEF Queued, Contains, Known, IsOver, Terminal
      <3>2. QED BY <2>1, <2>2, <3>1 DEF Same, Mine
    <2>7. \A js : Calm(n, js)
      BY <2>2 DEF Calm
    <2>8. QED BY <2>4, <2>5, <2>6, <2>7, <1>5
  <1>6. CASE m.slot = {} /\ live # {}
    <2> DEFINE i == Min(live)
               j == m.queue[i]
    <2>1. i \in live /\ \A x \in live : i <= x
      <3>1. live \subseteq Nat
        BY <1>1
      <3> HIDE DEF live
      <3>2. QED BY <3>1, <1>6, MinOf
    <2>2. PICK low \in BOOLEAN : n = Claim(m, i, low)
      BY <1>6, Zenon DEF Pumped, Readings
    <2> HIDE DEF i
    <2>3. i \in 1 .. Len(m.queue) /\ j \in Known(m) /\ ~IsOver(m, j) /\ j \in Jobs
      <3>1. i \in DOMAIN m.queue /\ m.queue[i] \in Known(m) /\ ~IsOver(m, m.queue[i])
        BY <2>1
      <3>2. QED BY <3>1, <1>1 DEF Known
    <2> HIDE DEF live
    <2>4. /\ n \in Memories
          /\ n.queue = SubSeq(m.queue, i + 1, Len(m.queue))
          /\ n.slot = {j} /\ n.consumer = m.consumer
          /\ n.decoder = m.decoder /\ n.batch = m.batch /\ n.boot = m.boot
          /\ n.pcm[j] = 0 /\ n.made[j] = m.made[j] + 1
          /\ n.att[j] = [id |-> m.made[j] + 1, accepting |-> TRUE, tailAllowed |-> TRUE]
          /\ n.job[j].state = "decoding" /\ n.job[j].file = m.job[j].file
          /\ \A k \in Jobs \ {j} : /\ n.job[k] = m.job[k] /\ n.pcm[k] = m.pcm[k]
                                   /\ n.made[k] = m.made[k] /\ n.att[k] = m.att[k]
      BY <2>2, <2>3, <1>1, <1>6, ClaimIs, SMTT(30)
    <2>5. PICK u \in Threads : /\ u.at = "claimed" /\ u.job = j /\ u.att = m.made[j] + 1
                               /\ u.then = "none" /\ n.threads = m.threads \cup {u}
                               /\ u.rec = n.job[j]
      <3>1. Claiming(m, n, j)
        BY <2>2, <2>3, <1>1, ClaimIs
      <3>2. QED BY <3>1 DEF Claiming
    <2>6. /\ IsInjective(n.queue) /\ ~Queued(n, j)
          /\ \A d : Queued(n, d) => Queued(m, d)
          /\ \A k \in 1 .. Len(m.queue) : k > i => Queued(n, m.queue[k])
      BY <2>3, <2>4, <1>1, BehindIs DEF Sound, Queued
    <2> HIDE DEF j
    <2>7. n.att[j].accepting /\ n.att[j].id = m.made[j] + 1
      BY <2>4
    <2>8. m.made[j] \in Nat /\ m.decoder[j].att \in Nat
      BY <1>1, <2>3 DEF Memories, Decoders
    <2>9. Known(n) = Known(m)
      <3>1. ASSUME NEW k \in Jobs PROVE n.job[k].state = "absent" <=> m.job[k].state = "absent"
        <4>1. CASE k = j
          BY <4>1, <2>3, <2>4 DEF Known
        <4>2. CASE k # j
          BY <4>2, <2>4
        <4>3. QED BY <4>1, <4>2
      <3>2. QED BY <3>1 DEF Known
    <2>10. Sound(n)
      <3>1. \A k \in Jobs : n.att[k].accepting => k \in n.slot
        <4> SUFFICES ASSUME NEW k \in Jobs, k # j, n.att[k].accepting PROVE FALSE
          BY <2>4
        <4>1. m.att[k].accepting
          BY <2>4
        <4>2. QED BY <4>1, <1>6 DEF Sound
      <3>2. \A k \in Jobs : Allowed(n, k) =>
               n.job[k].state \notin {"absent", "cancelled", "failed"} /\ n.att[k].id > 0
        <4> SUFFICES ASSUME NEW k \in Jobs, Allowed(n, k)
                     PROVE n.job[k].state \notin {"absent", "cancelled", "failed"} /\ n.att[k].id > 0
          OBVIOUS
        <4>1. CASE k = j
          BY <4>1, <2>4, <2>7, <2>8
        <4>2. CASE k # j
          BY <4>2, <2>4 DEF Sound, Allowed
        <4>3. QED BY <4>1, <4>2
      <3>3. \A k \in Jobs : n.att[k].id \in {0, n.made[k]} /\ n.decoder[k].att <= n.made[k]
        <4> SUFFICES ASSUME NEW k \in Jobs PROVE n.att[k].id \in {0, n.made[k]} /\ n.decoder[k].att <= n.made[k]
          OBVIOUS
        <4>1. CASE k = j
          BY <4>1, <2>4, <2>7, <2>8 DEF Sound
        <4>2. CASE k # j
          BY <4>2, <2>4 DEF Sound
        <4>3. QED BY <4>1, <4>2
      <3>4. \A t \in n.threads : /\ t.job \in Known(n) /\ t.att <= n.made[t.job]
                                 /\ t.then = "boot" => t.at \in Booting
        <4>1. u.job \in Known(n) /\ u.att <= n.made[u.job]
          BY <2>3, <2>4, <2>5, <2>8, <2>9
        <4>2. ASSUME NEW t \in m.threads PROVE t.job \in Known(n) /\ t.att <= n.made[t.job]
          <5>1. t.job \in Jobs /\ t.att \in Nat /\ t.job \in Known(m) /\ t.att <= m.made[t.job]
            BY <1>1 DEF Sound, Memories, Threads
          <5>2. CASE t.job = j
            BY <5>1, <5>2, <2>4, <2>8, <2>9
          <5>3. CASE t.job # j
            BY <5>1, <5>3, <2>4, <2>9
          <5>4. QED BY <5>2, <5>3
        <4>3. \A t \in n.threads : t.then = "boot" => t.at \in Booting
          BY <2>5 DEF Sound
        <4>4. QED BY <4>1, <4>2, <4>3, <2>5
      <3>5. \A k, l \in n.slot : k = l
        BY <2>4
      <3>6. \A k \in Jobs : n.made[k] > 0 => k \in Known(n)
        BY <2>3, <2>4, <2>9 DEF Sound
      <3>7. QED BY <3>1, <3>2, <3>3, <3>4, <3>5, <3>6, <2>4, <2>6 DEF Sound
    <2>11. Keeps(m, n)
      <3>1. Adders(n) = Adders(m)
        BY <2>5 DEF Adders
      <3>2. ASSUME NEW k \in Jobs, m.job[k].state = "cancelled" PROVE n.job[k].state = "cancelled"
        <4>1. k # j
          BY <2>3, <3>2 DEF IsOver, Terminal
        <4>2. QED BY <4>1, <3>2, <2>4
      <3>3. ASSUME NEW k \in Jobs PROVE m.made[k] <= n.made[k]
        <4>1. m.made[k] \in Nat
          BY <1>1 DEF Memories
        <4>2. n.made[k] = m.made[k] \/ n.made[k] = m.made[k] + 1
          BY <2>4
        <4>3. QED BY <4>1, <4>2
      <3>4. QED BY <3>1, <3>2, <3>3, <2>4, <2>9 DEF Keeps
    <2>12. Takes(m, n, j)
      <3>1. Queued(m, j)
        BY <2>3 DEF Queued, Contains, j
      <3>2. Mine(n, j) = Mine(m, j) \cup {u}
        BY <2>5 DEF Mine
      <3>3. QED BY <3>1, <3>2, <2>3, <2>4, <2>5, <2>6, <1>6 DEF Takes
    <2>13. ASSUME NEW k \in Jobs, k # j PROVE Same(m, n, k)
      <3>1. Mine(n, k) = Mine(m, k)
        BY <2>5, <2>13 DEF Mine
      <3>2. ASSUME Queued(m, k), m.job[k].state = "queued" PROVE Queued(n, k)
        <4>1. PICK x \in 1 .. Len(m.queue) : m.queue[x] = k
          BY <3>2 DEF Queued, Contains
        <4>2. x \in live
          BY <4>1, <3>2, <1>1 DEF live, Known, IsOver, Terminal
        <4>3. x > i
          BY <4>1, <4>2, <2>1, <2>3, <2>13 DEF j
        <4>4. QED BY <4>1, <4>3, <2>6
      <3>3. (k \in n.slot <=> k \in m.slot)
        BY <2>4, <2>13, <1>6
      <3>4. QED BY <3>1, <3>2, <3>3, <2>4, <2>6, <2>13 DEF Same
    <2>14. \A js : Calm(n, js)
      BY <2>4 DEF Calm
    <2>15. QED BY <2>10, <2>11, <2>12, <2>13, <2>14, <1>6
  <1>7. QED BY <1>4, <1>5, <1>6

-----------------------------------------------------------------------------
(* Parts of a memory.                                                      *)

(* From m to n only what concerns k changes, and not its place in the      *)
(* queue or the number of its attempts.                                    *)
Apart(m, n, k) ==
    /\ n \in Memories
    /\ n.queue = m.queue /\ n.batch = m.batch /\ n.boot = m.boot /\ n.made = m.made
    /\ \A j \in Jobs \ {k} :
          /\ n.job[j] = m.job[j] /\ n.pcm[j] = m.pcm[j]
          /\ n.att[j] = m.att[j] /\ n.decoder[j] = m.decoder[j]
          /\ (j \in n.slot <=> j \in m.slot) /\ (j \in n.consumer <=> j \in m.consumer)
          /\ Mine(n, j) = Mine(m, j)

(* One change to k after another is a change to k.                         *)
LEMMA ApartTwice ==
    ASSUME NEW m, NEW n, NEW p, NEW k, Apart(m, n, k), Apart(n, p, k)
    PROVE  Apart(m, p, k)
  BY DEF Apart

(* Setting the job of k.                                                   *)
LEMMA JobSet ==
    ASSUME NEW m \in Memories, NEW k \in Jobs, NEW r \in JobRecords
    PROVE  LET n == [m EXCEPT !.job[k] = r] IN
           /\ n \in Memories /\ Apart(m, n, k) /\ n.job[k] = r
           /\ n.queue = m.queue /\ n.pcm = m.pcm /\ n.slot = m.slot /\ n.active = m.active
           /\ n.consumer = m.consumer /\ n.att = m.att /\ n.made = m.made
           /\ n.decoder = m.decoder /\ n.threads = m.threads
  <1> DEFINE n == [m EXCEPT !.job[k] = r]
  <1>1. /\ n \in Memories /\ n.job = [m.job EXCEPT ![k] = r]
        /\ n.queue = m.queue /\ n.pcm = m.pcm /\ n.slot = m.slot /\ n.active = m.active
        /\ n.consumer = m.consumer /\ n.att = m.att /\ n.made = m.made
        /\ n.decoder = m.decoder /\ n.threads = m.threads /\ n.batch = m.batch /\ n.boot = m.boot
    BY DEF Memories
  <1> HIDE DEF n
  <1>2. n.job[k] = r /\ \A j \in Jobs \ {k} : n.job[j] = m.job[j]
    BY <1>1 DEF Memories
  <1>3. Apart(m, n, k)
    BY <1>1, <1>2 DEF Apart, Mine
  <1>4. QED BY <1>1, <1>2, <1>3 DEF n

(* Setting the attempt of k.                                               *)
LEMMA AttSet ==
    ASSUME NEW m \in Memories, NEW k \in Jobs, NEW r \in Attempts
    PROVE  LET n == [m EXCEPT !.att[k] = r] IN
           /\ n \in Memories /\ Apart(m, n, k) /\ n.att[k] = r
           /\ n.queue = m.queue /\ n.pcm = m.pcm /\ n.slot = m.slot /\ n.active = m.active
           /\ n.consumer = m.consumer /\ n.job = m.job /\ n.made = m.made
           /\ n.decoder = m.decoder /\ n.threads = m.threads
  <1> DEFINE n == [m EXCEPT !.att[k] = r]
  <1>1. /\ n \in Memories /\ n.att = [m.att EXCEPT ![k] = r]
        /\ n.queue = m.queue /\ n.pcm = m.pcm /\ n.slot = m.slot /\ n.active = m.active
        /\ n.consumer = m.consumer /\ n.job = m.job /\ n.made = m.made
        /\ n.decoder = m.decoder /\ n.threads = m.threads /\ n.batch = m.batch /\ n.boot = m.boot
    BY DEF Memories
  <1> HIDE DEF n
  <1>2. n.att[k] = r /\ \A j \in Jobs \ {k} : n.att[j] = m.att[j]
    BY <1>1 DEF Memories
  <1>3. Apart(m, n, k)
    BY <1>1, <1>2 DEF Apart, Mine
  <1>4. QED BY <1>1, <1>2, <1>3 DEF n

(* Setting the decoder of k.                                               *)
LEMMA DecoderSet ==
    ASSUME NEW m \in Memories, NEW k \in Jobs, NEW r \in Decoders
    PROVE  LET n == [m EXCEPT !.decoder[k] = r] IN
           /\ n \in Memories /\ Apart(m, n, k) /\ n.decoder[k] = r
           /\ n.queue = m.queue /\ n.pcm = m.pcm /\ n.slot = m.slot /\ n.active = m.active
           /\ n.consumer = m.consumer /\ n.job = m.job /\ n.made = m.made
           /\ n.att = m.att /\ n.threads = m.threads
  <1> DEFINE n == [m EXCEPT !.decoder[k] = r]
  <1>1. /\ n \in Memories /\ n.decoder = [m.decoder EXCEPT ![k] = r]
        /\ n.queue = m.queue /\ n.pcm = m.pcm /\ n.slot = m.slot /\ n.active = m.active
        /\ n.consumer = m.consumer /\ n.job = m.job /\ n.made = m.made
        /\ n.att = m.att /\ n.threads = m.threads /\ n.batch = m.batch /\ n.boot = m.boot
    BY DEF Memories
  <1> HIDE DEF n
  <1>2. n.decoder[k] = r /\ \A j \in Jobs \ {k} : n.decoder[j] = m.decoder[j]
    BY <1>1 DEF Memories
  <1>3. Apart(m, n, k)
    BY <1>1, <1>2 DEF Apart, Mine
  <1>4. QED BY <1>1, <1>2, <1>3 DEF n

(* Setting what is buffered of k.                                          *)
LEMMA PcmSet ==
    ASSUME NEW m \in Memories, NEW k \in Jobs, NEW r \in Nat
    PROVE  LET n == [m EXCEPT !.pcm[k] = r] IN
           /\ n \in Memories /\ Apart(m, n, k) /\ n.pcm[k] = r
           /\ n.queue = m.queue /\ n.decoder = m.decoder /\ n.slot = m.slot /\ n.active = m.active
           /\ n.consumer = m.consumer /\ n.job = m.job /\ n.made = m.made
           /\ n.att = m.att /\ n.threads = m.threads
  <1> DEFINE n == [m EXCEPT !.pcm[k] = r]
  <1>1. /\ n \in Memories /\ n.pcm = [m.pcm EXCEPT ![k] = r]
        /\ n.queue = m.queue /\ n.decoder = m.decoder /\ n.slot = m.slot /\ n.active = m.active
        /\ n.consumer = m.consumer /\ n.job = m.job /\ n.made = m.made
        /\ n.att = m.att /\ n.threads = m.threads /\ n.batch = m.batch /\ n.boot = m.boot
    BY DEF Memories
  <1> HIDE DEF n
  <1>2. n.pcm[k] = r /\ \A j \in Jobs \ {k} : n.pcm[j] = m.pcm[j]
    BY <1>1 DEF Memories
  <1>3. Apart(m, n, k)
    BY <1>1, <1>2 DEF Apart, Mine
  <1>4. QED BY <1>1, <1>2, <1>3 DEF n

(* Taking k from the slot.                                                 *)
LEMMA SlotLeft ==
    ASSUME NEW m \in Memories, NEW k \in Jobs
    PROVE  LET n == [m EXCEPT !.slot = @ \ {k}] IN
           /\ n \in Memories /\ Apart(m, n, k) /\ n.slot = m.slot \ {k}
           /\ n.queue = m.queue /\ n.pcm = m.pcm /\ n.decoder = m.decoder /\ n.active = m.active
           /\ n.consumer = m.consumer /\ n.job = m.job /\ n.made = m.made
           /\ n.att = m.att /\ n.threads = m.threads
  <1> DEFINE n == [m EXCEPT !.slot = @ \ {k}]
  <1>1. /\ n \in Memories /\ n.slot = m.slot \ {k}
        /\ n.queue = m.queue /\ n.pcm = m.pcm /\ n.decoder = m.decoder /\ n.active = m.active
        /\ n.consumer = m.consumer /\ n.job = m.job /\ n.made = m.made
        /\ n.att = m.att /\ n.threads = m.threads /\ n.batch = m.batch /\ n.boot = m.boot
    BY DEF Memories
  <1> HIDE DEF n
  <1>2. \A j \in Jobs \ {k} : j \in n.slot <=> j \in m.slot
    BY <1>1
  <1>3. Apart(m, n, k)
    BY <1>1, <1>2 DEF Apart, Mine
  <1>4. QED BY <1>1, <1>2, <1>3 DEF n

(* Setting whether audio of k is consumed.                                 *)
LEMMA ConsumerSet ==
    ASSUME NEW m \in Memories, NEW k \in Jobs, NEW S, S = m.consumer \cup {k} \/ S = m.consumer \ {k}
    PROVE  LET n == [m EXCEPT !.consumer = S] IN
           /\ n \in Memories /\ Apart(m, n, k) /\ n.consumer = S
           /\ n.queue = m.queue /\ n.pcm = m.pcm /\ n.decoder = m.decoder /\ n.active = m.active
           /\ n.slot = m.slot /\ n.job = m.job /\ n.made = m.made
           /\ n.att = m.att /\ n.threads = m.threads
  <1> DEFINE n == [m EXCEPT !.consumer = S]
  <1>0. S \subseteq Jobs
    BY DEF Memories
  <1>1. /\ n \in Memories /\ n.consumer = S
        /\ n.queue = m.queue /\ n.pcm = m.pcm /\ n.decoder = m.decoder /\ n.active = m.active
        /\ n.slot = m.slot /\ n.job = m.job /\ n.made = m.made
        /\ n.att = m.att /\ n.threads = m.threads /\ n.batch = m.batch /\ n.boot = m.boot
    BY <1>0 DEF Memories
  <1> HIDE DEF n
  <1>2. \A j \in Jobs \ {k} : j \in n.consumer <=> j \in m.consumer
    BY <1>1
  <1>3. Apart(m, n, k)
    BY <1>1, <1>2 DEF Apart, Mine
  <1>4. QED BY <1>1, <1>2, <1>3 DEF n

(* Adding or removing a thread of k.                                       *)
LEMMA ThreadsSet ==
    ASSUME NEW m \in Memories, NEW u \in Threads,
           NEW T, T = m.threads \cup {u} \/ T = m.threads \ {u}
    PROVE  LET n == [m EXCEPT !.threads = T] IN
           /\ n \in Memories /\ Apart(m, n, u.job) /\ n.threads = T
           /\ n.queue = m.queue /\ n.pcm = m.pcm /\ n.decoder = m.decoder /\ n.active = m.active
           /\ n.slot = m.slot /\ n.job = m.job /\ n.made = m.made
           /\ n.att = m.att /\ n.consumer = m.consumer
  <1> DEFINE n == [m EXCEPT !.threads = T]
  <1>0. T \subseteq Threads
    BY DEF Memories
  <1>1. /\ n \in Memories /\ n.threads = T
        /\ n.queue = m.queue /\ n.pcm = m.pcm /\ n.decoder = m.decoder /\ n.active = m.active
        /\ n.slot = m.slot /\ n.job = m.job /\ n.made = m.made
        /\ n.att = m.att /\ n.consumer = m.consumer /\ n.batch = m.batch /\ n.boot = m.boot
    BY <1>0 DEF Memories
  <1> HIDE DEF n
  <1>2. \A j \in Jobs \ {u.job} : Mine(n, j) = Mine(m, j)
    BY <1>1 DEF Mine
  <1>3. Apart(m, n, u.job)
    BY <1>1, <1>2 DEF Apart
  <1>4. QED BY <1>1, <1>2, <1>3 DEF n

(* Setting which jobs count as active.                                     *)
LEMMA ActiveLeft ==
    ASSUME NEW m \in Memories, NEW k \in Jobs
    PROVE  LET n == [m EXCEPT !.active = @ \ {k}] IN
           /\ n \in Memories /\ Apart(m, n, k)
           /\ n.queue = m.queue /\ n.pcm = m.pcm /\ n.decoder = m.decoder
           /\ n.slot = m.slot /\ n.job = m.job /\ n.made = m.made /\ n.threads = m.threads
           /\ n.att = m.att /\ n.consumer = m.consumer
  <1> DEFINE n == [m EXCEPT !.active = @ \ {k}]
  <1>1. /\ n \in Memories
        /\ n.queue = m.queue /\ n.pcm = m.pcm /\ n.decoder = m.decoder
        /\ n.slot = m.slot /\ n.job = m.job /\ n.made = m.made /\ n.threads = m.threads
        /\ n.att = m.att /\ n.consumer = m.consumer /\ n.batch = m.batch /\ n.boot = m.boot
    BY DEF Memories
  <1> HIDE DEF n
  <1>3. Apart(m, n, k)
    BY <1>1 DEF Apart, Mine
  <1>4. QED BY <1>1, <1>3 DEF n

(* A change to k that keeps the rules of a memory.                         *)
Freeing(m, n, k) ==
    /\ Apart(m, n, k)
    /\ n.slot \subseteq m.slot /\ Adders(n) = Adders(m)
    /\ n.decoder[k].att <= m.made[k] /\ n.att[k].id \in {0, m.made[k]}
    /\ n.att[k].accepting => k \in n.slot
    /\ Allowed(n, k) => n.job[k].state \notin {"absent", "cancelled", "failed"} /\ n.att[k].id > 0
    /\ n.job[k].state = "absent" <=> m.job[k].state = "absent"
    /\ m.job[k].state = "cancelled" => n.job[k].state = "cancelled"
    /\ \A t \in n.threads \ m.threads : t.job = k /\ k \in Known(m) /\ t.att <= m.made[k]

(* ... and one that leaves the slot to whom it belongs.                    *)
Lawful(m, n, k) == Freeing(m, n, k) /\ n.slot = m.slot

(* A lawful change of one job is a move.                                   *)
LEMMA FreeingGives ==
    ASSUME NEW m, NEW n, NEW k \in Jobs, Sound(m), Freeing(m, n, k)
    PROVE  Frees(m, n, k)
  <1>1. /\ n \in Memories /\ n.queue = m.queue /\ n.made = m.made
        /\ n.batch = m.batch /\ n.boot = m.boot
        /\ \A j \in Jobs \ {k} :
              /\ n.job[j] = m.job[j] /\ n.pcm[j] = m.pcm[j]
              /\ n.att[j] = m.att[j] /\ n.decoder[j] = m.decoder[j]
              /\ (j \in n.slot <=> j \in m.slot) /\ (j \in n.consumer <=> j \in m.consumer)
              /\ Mine(n, j) = Mine(m, j)
    BY DEF Freeing, Apart
  <1>2. Known(n) = Known(m)
    <2>1. ASSUME NEW j \in Jobs PROVE n.job[j].state = "absent" <=> m.job[j].state = "absent"
      <3>1. CASE j = k
        BY <3>1 DEF Freeing
      <3>2. CASE j # k
        BY <3>2, <1>1
      <3>3. QED BY <3>1, <3>2
    <2>2. QED BY <2>1 DEF Known
  <1>3. ASSUME NEW j \in Jobs, m.job[j].state = "cancelled" PROVE n.job[j].state = "cancelled"
    <2>1. CASE j = k
      BY <2>1, <1>3 DEF Freeing
    <2>2. CASE j # k
      BY <2>2, <1>1, <1>3
    <2>3. QED BY <2>1, <2>2
  <1>4. Keeps(m, n)
    <2>1. \A j \in Jobs : m.made[j] <= n.made[j]
      BY <1>1 DEF Memories
    <2>2. QED BY <1>1, <1>2, <1>3, <2>1 DEF Keeps, Freeing
  <1>5. ASSUME NEW j \in Jobs PROVE n.att[j].accepting => j \in n.slot
    <2>1. CASE j = k
      BY <2>1 DEF Freeing
    <2>2. CASE j # k
      BY <2>2, <1>1 DEF Sound
    <2>3. QED BY <2>1, <2>2
  <1>6. ASSUME NEW j \in Jobs, Allowed(n, j)
        PROVE  n.job[j].state \notin {"absent", "cancelled", "failed"} /\ n.att[j].id > 0
    <2>1. CASE j = k
      BY <2>1, <1>6 DEF Freeing
    <2>2. CASE j # k
      <3>1. Allowed(m, j)
        BY <2>2, <1>1, <1>6 DEF Allowed
      <3>2. QED BY <3>1, <2>2, <1>1 DEF Sound
    <2>3. QED BY <2>1, <2>2
  <1>7. ASSUME NEW j \in Jobs PROVE n.att[j].id \in {0, n.made[j]} /\ n.decoder[j].att <= n.made[j]
    <2>1. CASE j = k
      BY <2>1, <1>1 DEF Freeing
    <2>2. CASE j # k
      BY <2>2, <1>1 DEF Sound
    <2>3. QED BY <2>1, <2>2
  <1>8. ASSUME NEW t \in n.threads
        PROVE  /\ t.job \in Known(n) /\ t.att <= n.made[t.job]
               /\ t.then = "boot" => t.at \in Booting
    <2>1. CASE t \in m.threads
      BY <2>1, <1>1, <1>2 DEF Sound
    <2>2. CASE t \notin m.threads
      <3>1. t.then # "boot"
        BY <2>2 DEF Freeing, Adders
      <3>2. QED BY <3>1, <2>2, <1>1, <1>2 DEF Freeing
    <2>3. QED BY <2>1, <2>2
  <1>9. \A i, j \in n.slot : i = j
    BY DEF Freeing, Sound
  <1>10. IsInjective(n.queue)
    BY <1>1 DEF Sound
  <1>11. Sound(n)
    <2>1. \A j \in Jobs : n.made[j] > 0 => j \in Known(n)
      BY <1>1, <1>2 DEF Sound
    <2>2. QED BY <2>1, <1>1, <1>5, <1>6, <1>7, <1>8, <1>9, <1>10 DEF Sound
  <1>12. ASSUME NEW j \in Jobs \ {k}, Fine(m, j) PROVE Fine(n, j)
    <2>1. Same(m, n, j)
      BY <1>1 DEF Same, Queued
    <2>2. QED BY <2>1, <1>12, SameIsFine
  <1>13. QED BY <1>4, <1>11, <1>12 DEF Frees

(* Nor does it make anyone wait, if it keeps the slot as it is.            *)
LEMMA LawfulMoves ==
    ASSUME NEW m, NEW n, NEW k \in Jobs, Sound(m), Lawful(m, n, k)
    PROVE  Moves(m, n, k)
  <1>1. Frees(m, n, k)
    BY FreeingGives DEF Lawful
  <1>2. ASSUME NEW j \in Jobs \ {k}, Rests(m, j) PROVE Rests(n, j)
    BY <1>2 DEF Lawful, Freeing, Apart, Rests, Queued
  <1>3. QED BY <1>1, <1>2 DEF Frees, Moves

(* Two moves for the same job are a move.                                  *)
LEMMA MovesTwice ==
    ASSUME NEW m, NEW n, NEW p, NEW k, Sound(m), Moves(m, n, k), Moves(n, p, k)
    PROVE  Moves(m, p, k)
  <1>1. \A j \in Jobs : m.made[j] \in Nat /\ n.made[j] \in Nat /\ p.made[j] \in Nat
    BY DEF Moves, Sound, Memories
  <1>2. \A j \in Jobs : m.made[j] <= p.made[j]
    BY <1>1 DEF Moves, Keeps
  <1>3. QED BY <1>2 DEF Moves, Keeps

(* A slot given back, and what ends with nobody waiting for it.            *)
LEMMA FreesThenMoves ==
    ASSUME NEW m, NEW n, NEW p, NEW k, Sound(m), Frees(m, n, k), Moves(n, p, k),
           \A j \in Jobs : Rests(p, j)
    PROVE  Moves(m, p, k)
  <1>1. \A j \in Jobs : m.made[j] \in Nat /\ n.made[j] \in Nat /\ p.made[j] \in Nat
    BY DEF Moves, Frees, Sound, Memories
  <1>2. \A j \in Jobs : m.made[j] <= p.made[j]
    BY <1>1 DEF Moves, Frees, Keeps
  <1>3. QED BY <1>2 DEF Moves, Frees, Keeps

(* Nothing done is a move.                                                 *)
LEMMA MovesNot ==
    ASSUME NEW m, NEW k, Sound(m)
    PROVE  Moves(m, m, k)
  <1>1. \A j \in Jobs : m.made[j] <= m.made[j]
    BY DEF Sound, Memories
  <1>2. QED BY <1>1 DEF Moves, Keeps

(* Nobody waits for a free slot after a pump.                              *)
LEMMA PumpedRests ==
    ASSUME NEW m, NEW n, Sound(m), build \in Nat, n \in Pumped(m), NEW j
    PROVE  Rests(n, j)
  <1>1. m.slot # {} => n = m
    BY PumpedIs
  <1>2. m.slot = {} => \A js : Calm(n, js)
    BY PumpedIs
  <1>3. m.slot = {} => Calm(n, {j})
    BY <1>2
  <1>4. QED BY <1>1, <1>3 DEF Calm, Rests

(* What the pump does may be the end of a stretch for any job.             *)
LEMMA PumpMoves ==
    ASSUME NEW m, NEW n, NEW k \in Jobs, Sound(m), build \in Nat, n \in Pumped(m)
    PROVE  Moves(m, n, k)
  <1>1. Sound(n) /\ Keeps(m, n) /\ \A j \in Jobs : Same(m, n, j) \/ Takes(m, n, j)
    BY PumpedIs
  <1>2. ASSUME NEW j \in Jobs \ {k}, Fine(m, j) PROVE Fine(n, j)
    BY <1>1, <1>2, SameIsFine, TakenIsFine
  <1>3. ASSUME NEW j \in Jobs, Rests(m, j) PROVE Rests(n, j)
    BY PumpedRests
  <1>4. QED BY <1>1, <1>2, <1>3 DEF Moves

-----------------------------------------------------------------------------
(* Attempts.                                                               *)

(* A stopped attempt is what it was, and may do nothing.                   *)
LEMMA StopIs ==
    ASSUME NEW m \in Memories, NEW k \in Jobs
    PROVE  LET n == Stop(m, k) IN
           /\ Apart(m, n, k)
           /\ n.att[k].id = m.att[k].id /\ ~n.att[k].accepting /\ ~n.att[k].tailAllowed
           /\ n.job = m.job /\ n.pcm = m.pcm /\ n.slot = m.slot /\ n.consumer = m.consumer
           /\ n.decoder = m.decoder /\ n.threads = m.threads
  <1> DEFINE r == [m.att[k] EXCEPT !.accepting = FALSE]
             d == [m EXCEPT !.att[k] = r]
             q == [d.att[k] EXCEPT !.tailAllowed = FALSE]
             n == [d EXCEPT !.att[k] = q]
  <1>1. m.att[k] \in Attempts
    BY DEF Memories
  <1>2. r \in Attempts /\ r.id = m.att[k].id /\ r.accepting = FALSE
    BY <1>1 DEF Attempts
  <1> HIDE DEF r
  <1>3. /\ d \in Memories /\ Apart(m, d, k) /\ d.att[k] = r
        /\ d.job = m.job /\ d.pcm = m.pcm /\ d.slot = m.slot /\ d.consumer = m.consumer
        /\ d.decoder = m.decoder /\ d.threads = m.threads
    BY <1>2, AttSet
  <1> HIDE DEF d
  <1>4. q \in Attempts /\ q.id = r.id /\ q.accepting = r.accepting /\ q.tailAllowed = FALSE
    BY <1>2, <1>3 DEF Attempts
  <1> HIDE DEF q
  <1>5. /\ Apart(d, n, k) /\ n.att[k] = q
        /\ n.job = d.job /\ n.pcm = d.pcm /\ n.slot = d.slot /\ n.consumer = d.consumer
        /\ n.decoder = d.decoder /\ n.threads = d.threads
    BY <1>3, <1>4, AttSet
  <1>6. Stop(m, k) = n
    BY DEF Stop, n, d, q, r
  <1>7. Apart(m, n, k)
    BY <1>3, <1>5, ApartTwice
  <1> HIDE DEF n
  <1>8. ~n.att[k].accepting /\ ~n.att[k].tailAllowed /\ n.att[k].id = m.att[k].id
    BY <1>2, <1>4, <1>5
  <1>9. QED BY <1>3, <1>5, <1>6, <1>7, <1>8

(* A retired attempt is none.                                              *)
LEMMA RetireIs ==
    ASSUME NEW m \in Memories, NEW k \in Jobs, NEW a
    PROVE  LET n == Retire(m, k, a) IN
           /\ Apart(m, n, k)
           /\ m.att[k].id = a => n.att[k] = NoAttempt
           /\ m.att[k].id # a => n = m
           /\ n.job = m.job /\ n.pcm = m.pcm /\ n.slot = m.slot /\ n.consumer = m.consumer
           /\ n.decoder = m.decoder /\ n.threads = m.threads
  <1>1. NoAttempt \in Attempts
    BY DEF NoAttempt, Attempts
  <1>2. Apart(m, m, k)
    BY DEF Apart
  <1> DEFINE n == Retire(m, k, a)
  <1>3. CASE m.att[k].id = a
    <2>1. n = [m EXCEPT !.att[k] = NoAttempt]
      BY <1>3 DEF Retire
    <2> HIDE DEF n
    <2>2. /\ Apart(m, n, k) /\ n.att[k] = NoAttempt
          /\ n.job = m.job /\ n.pcm = m.pcm /\ n.slot = m.slot /\ n.consumer = m.consumer
          /\ n.decoder = m.decoder /\ n.threads = m.threads
      BY <1>1, <2>1, AttSet
    <2>3. QED BY <2>2, <1>3 DEF n
  <1>4. CASE m.att[k].id # a
    <2>1. n = m
      BY <1>4 DEF Retire
    <2>2. QED BY <2>1, <1>2, <1>4
  <1>5. QED BY <1>3, <1>4

(* Retiring an attempt moves only its job.                                 *)
LEMMA RetireMoves ==
    ASSUME NEW m, NEW k \in Jobs, NEW a, Sound(m)
    PROVE  Moves(m, Retire(m, k, a), k)
  <1> DEFINE n == Retire(m, k, a)
  <1>0. m \in Memories
    BY DEF Sound
  <1>1. /\ Apart(m, n, k)
        /\ m.att[k].id = a => n.att[k] = NoAttempt
        /\ m.att[k].id # a => n = m
        /\ n.job = m.job /\ n.slot = m.slot
        /\ n.decoder = m.decoder /\ n.threads = m.threads
    BY <1>0, RetireIs
  <1> HIDE DEF n
  <1>2. CASE m.att[k].id = a
    <2>1. n.att[k].id = 0 /\ ~n.att[k].accepting /\ ~n.att[k].tailAllowed
      BY <1>1, <1>2 DEF NoAttempt
    <2>2. Lawful(m, n, k)
      BY <1>1, <2>1 DEF Lawful, Freeing, Allowed, Adders, Sound
    <2>3. QED BY <2>2, LawfulMoves DEF n
  <1>3. CASE m.att[k].id # a
    BY <1>1, <1>3, MovesNot DEF n
  <1>4. QED BY <1>2, <1>3

-----------------------------------------------------------------------------
(* Threads.                                                                *)

(* What await adds to a memory.                                            *)
LEMMA JoinIs ==
    ASSUME NEW m \in Memories, NEW u \in Threads
    PROVE  LET n == Await(m, u) IN
           /\ n \in Memories /\ Apart(m, n, u.job) /\ n.threads = m.threads \cup {u}
           /\ n.queue = m.queue /\ n.pcm = m.pcm /\ n.decoder = m.decoder
           /\ n.slot = m.slot /\ n.job = m.job /\ n.made = m.made
           /\ n.att = m.att /\ n.consumer = m.consumer
  <1> DEFINE n == [m EXCEPT !.threads = m.threads \cup {u}]
  <1>1. Await(m, u) = n
    BY DEF Await
  <1>2. /\ n \in Memories /\ Apart(m, n, u.job) /\ n.threads = m.threads \cup {u}
        /\ n.queue = m.queue /\ n.pcm = m.pcm /\ n.decoder = m.decoder
        /\ n.slot = m.slot /\ n.job = m.job /\ n.made = m.made
        /\ n.att = m.att /\ n.consumer = m.consumer
    BY ThreadsSet
  <1> HIDE DEF n
  <1>3. QED BY <1>1, <1>2

(* A thread of a known job may come at any time.                           *)
LEMMA JoinMoves ==
    ASSUME NEW m, NEW u \in Threads, Sound(m), u.job \in Known(m), u.att <= m.made[u.job],
           u.at # "created", u.then # "boot"
    PROVE  Moves(m, Await(m, u), u.job)
  <1> DEFINE n == Await(m, u)
             k == u.job
  <1>0. m \in Memories /\ k \in Jobs
    BY DEF Sound, Threads
  <1>1. /\ Apart(m, n, k) /\ n.threads = m.threads \cup {u}
        /\ n.decoder = m.decoder /\ n.slot = m.slot /\ n.job = m.job /\ n.att = m.att
    BY <1>0, JoinIs
  <1> HIDE DEF n
  <1>2. Adders(n) = Adders(m)
    BY <1>1 DEF Adders
  <1>3. Lawful(m, n, k)
    BY <1>0, <1>1, <1>2 DEF Lawful, Freeing, Allowed, Sound
  <1>4. QED BY <1>0, <1>3, LawfulMoves DEF n

(* A save moves its job: the record leaves with the thread.                *)
LEMMA SaveMoves ==
    ASSUME NEW m, NEW u \in Threads, Sound(m), u.job \in Known(m), u.att <= m.made[u.job],
           u.at # "created", u.then # "boot"
    PROVE  Moves(m, Save(m, u), u.job)
  <1> DEFINE v == Saving(m, u)
  <1>1. Save(m, u) = Await(m, v)
    BY DEF Save, Saving
  <1>2. v \in Threads /\ v.at = u.at /\ v.job = u.job /\ v.att = u.att /\ v.then = u.then
    BY SavingIs DEF Sound
  <1> HIDE DEF v
  <1>3. Moves(m, Await(m, v), v.job)
    BY <1>2, JoinMoves
  <1>4. QED BY <1>1, <1>2, <1>3

(* So may one go.                                                          *)
Without1(m, t) == [m EXCEPT !.threads = @ \ {t}]

(* What a thread that ends takes from a memory.                            *)
LEMMA GoIs ==
    ASSUME NEW m \in Memories, NEW t \in m.threads
    PROVE  LET n == Without1(m, t) IN
           /\ n \in Memories /\ Apart(m, n, t.job) /\ n.threads = m.threads \ {t}
           /\ n.queue = m.queue /\ n.pcm = m.pcm /\ n.decoder = m.decoder
           /\ n.slot = m.slot /\ n.job = m.job /\ n.made = m.made
           /\ n.att = m.att /\ n.consumer = m.consumer
           /\ n.batch = m.batch /\ n.boot = m.boot
  <1> DEFINE n == [m EXCEPT !.threads = m.threads \ {t}]
  <1>1. Without1(m, t) = n
    BY DEF Without1
  <1>0. t \in Threads
    BY DEF Memories
  <1>2. /\ n \in Memories /\ Apart(m, n, t.job) /\ n.threads = m.threads \ {t}
        /\ n.queue = m.queue /\ n.pcm = m.pcm /\ n.decoder = m.decoder
        /\ n.slot = m.slot /\ n.job = m.job /\ n.made = m.made
        /\ n.att = m.att /\ n.consumer = m.consumer
    BY <1>0, ThreadsSet
  <1> HIDE DEF n
  <1>3. QED BY <1>1, <1>2 DEF Apart

(* A thread that ends moves its job, unless a list waits for it.           *)
LEMMA GoMoves ==
    ASSUME NEW m, Sound(m), NEW t \in m.threads, t \notin Adders(m)
    PROVE  Moves(m, Without1(m, t), t.job)
  <1> DEFINE n == Without1(m, t)
             k == t.job
  <1>0. m \in Memories /\ k \in Jobs
    BY DEF Sound, Memories, Threads
  <1>1. /\ Apart(m, n, k) /\ n.threads = m.threads \ {t}
        /\ n.decoder = m.decoder /\ n.slot = m.slot /\ n.job = m.job /\ n.att = m.att
    BY <1>0, GoIs
  <1> HIDE DEF n
  <1>2. Adders(n) = Adders(m)
    BY <1>1 DEF Adders
  <1>3. Lawful(m, n, k)
    BY <1>0, <1>1, <1>2 DEF Lawful, Freeing, Allowed, Sound
  <1>4. QED BY <1>0, <1>3, LawfulMoves DEF n

-----------------------------------------------------------------------------
(* Failing.                                                                *)

Awaiters == {"none", "chunk", "refused", "consume", "tail"}

(* n has, beside the threads of m, one that writes the failure of k.       *)
Failing(m, n, k, then) ==
    \E u \in Threads : /\ u.at = "failing" /\ u.job = k /\ u.att = m.att[k].id /\ u.then = then
                       /\ n.threads = m.threads \cup {u} /\ u.rec = n.job[k]

(* What fail() does before its save.                                       *)
LEMMA FailIs ==
    ASSUME NEW m \in Memories, NEW k \in Jobs, NEW e \in Errors, NEW then \in Awaiters
    PROVE  LET n == Fail(m, k, e, then) IN
           /\ Apart(m, n, k) /\ Failing(m, n, k, then)
           /\ n.job[k].state = "failed" /\ n.job[k].error = e
           /\ n.job[k].file = m.job[k].file /\ n.job[k].vad = m.job[k].vad
           /\ n.att[k].id = m.att[k].id /\ ~n.att[k].accepting /\ ~n.att[k].tailAllowed
           /\ n.pcm = m.pcm /\ n.slot = m.slot /\ n.consumer = m.consumer
           /\ n.decoder = m.decoder
  <1> DEFINE s == Stop(m, k)
             r == [s.job[k] EXCEPT !.state = "failed"]
             d == [s EXCEPT !.job[k] = r]
             q == [d.job[k] EXCEPT !.error = e]
             f == [d EXCEPT !.job[k] = q]
             u == Thread("failing", k, m.att[k].id)
             v == [u EXCEPT !.then = then]
             w == Saving(f, v)
             n == Await(f, w)
  <1>0. Fail(m, k, e, then) = n
    BY DEF Fail, Save, Saving
  <1>1. /\ Apart(m, s, k) /\ s \in Memories
        /\ s.att[k].id = m.att[k].id /\ ~s.att[k].accepting /\ ~s.att[k].tailAllowed
        /\ s.job = m.job /\ s.pcm = m.pcm /\ s.slot = m.slot /\ s.consumer = m.consumer
        /\ s.decoder = m.decoder /\ s.threads = m.threads
    BY StopIs DEF Apart
  <1> HIDE DEF s
  <1>2. s.job[k] \in JobRecords /\ m.att[k].id \in Nat
    BY <1>1 DEF Memories, Attempts
  <1>3. r \in JobRecords /\ r.state = "failed" /\ r.file = s.job[k].file /\ r.vad = s.job[k].vad
    BY <1>2 DEF JobRecords, JobStates
  <1> HIDE DEF r
  <1>4. /\ d \in Memories /\ Apart(s, d, k) /\ d.job[k] = r
        /\ d.pcm = s.pcm /\ d.slot = s.slot
        /\ d.consumer = s.consumer /\ d.att = s.att
        /\ d.decoder = s.decoder /\ d.threads = s.threads
    BY <1>1, <1>3, JobSet
  <1> HIDE DEF d
  <1>5. /\ q \in JobRecords /\ q.state = r.state /\ q.file = r.file /\ q.vad = r.vad /\ q.error = e
    BY <1>3, <1>4 DEF JobRecords
  <1> HIDE DEF q
  <1>6. /\ f \in Memories /\ Apart(d, f, k) /\ f.job[k] = q
        /\ f.pcm = d.pcm /\ f.slot = d.slot
        /\ f.consumer = d.consumer /\ f.att = d.att
        /\ f.decoder = d.decoder /\ f.threads = d.threads
    BY <1>4, <1>5, JobSet
  <1> HIDE DEF f
  <1>7. u \in Threads /\ u.at = "failing" /\ u.job = k /\ u.att = m.att[k].id
    BY <1>2, ThreadIs DEF Points
  <1> HIDE DEF u
  <1>8. v \in Threads /\ v.at = "failing" /\ v.job = k /\ v.att = m.att[k].id /\ v.then = then
    BY <1>7 DEF Threads, Awaiters
  <1> HIDE DEF v
  <1>9. w \in Threads /\ w.at = "failing" /\ w.job = k /\ w.att = m.att[k].id /\ w.then = then
        /\ w.rec = f.job[k]
    BY <1>6, <1>8, SavingIs
  <1> HIDE DEF w
  <1>10. /\ Apart(f, n, k) /\ n.threads = f.threads \cup {w}
         /\ n.pcm = f.pcm /\ n.decoder = f.decoder /\ n.slot = f.slot /\ n.job = f.job
         /\ n.att = f.att /\ n.consumer = f.consumer
    BY <1>6, <1>9, JoinIs
  <1> HIDE DEF n
  <1>11. Apart(m, n, k)
    BY <1>1, <1>4, <1>6, <1>10, ApartTwice
  <1>12. Failing(m, n, k, then)
    BY <1>1, <1>4, <1>6, <1>9, <1>10 DEF Failing
  <1>13. QED BY <1>0, <1>1, <1>3, <1>4, <1>5, <1>6, <1>10, <1>11, <1>12

(* fail() moves the job that it fails.                                     *)
LEMMA FailMoves ==
    ASSUME NEW m, NEW k \in Jobs, NEW e \in Errors, NEW then \in Awaiters,
           Sound(m), k \in Known(m), m.job[k].state # "cancelled"
    PROVE  Moves(m, Fail(m, k, e, then), k)
  <1> DEFINE n == Fail(m, k, e, then)
  <1>0. m \in Memories
    BY DEF Sound
  <1>1. /\ Apart(m, n, k) /\ Failing(m, n, k, then)
        /\ n.job[k].state = "failed"
        /\ n.att[k].id = m.att[k].id /\ ~n.att[k].accepting /\ ~n.att[k].tailAllowed
        /\ n.slot = m.slot /\ n.decoder = m.decoder
    BY <1>0, FailIs
  <1> HIDE DEF n
  <1>2. PICK u \in Threads : /\ u.at = "failing" /\ u.job = k /\ u.att = m.att[k].id /\ u.then = then
                             /\ n.threads = m.threads \cup {u}
    BY <1>1 DEF Failing
  <1>3. Adders(n) = Adders(m)
    BY <1>2 DEF Adders, Awaiters
  <1>4. m.att[k].id <= m.made[k]
    <2>1. m.att[k].id \in {0, m.made[k]} /\ m.made[k] \in Nat
      BY <1>0 DEF Sound, Memories
    <2>2. QED BY <2>1
  <1>5. Lawful(m, n, k)
    BY <1>1, <1>2, <1>3, <1>4 DEF Lawful, Freeing, Allowed, Sound, Known
  <1>6. QED BY <1>5, LawfulMoves DEF n

(* The decoder's failure fails a job that is not over.                     *)
LEMMA FailDecoderMoves ==
    ASSUME NEW m, NEW k \in Jobs, Sound(m)
    PROVE  Moves(m, FailDecoder(m, k), k)
  <1>1. CASE CanFinish(m, k, m.att[k].id) /\ ~IsOver(m, k)
    <2>1. k \in Known(m) /\ m.job[k].state # "cancelled"
      BY <1>1 DEF CanFinish, Sound, Allowed, Known
    <2>2. Moves(m, Fail(m, k, "other", "none"), k)
      BY <2>1, FailMoves DEF Errors, Awaiters
    <2>3. QED BY <2>2, <1>1 DEF FailDecoder
  <1>2. CASE ~(CanFinish(m, k, m.att[k].id) /\ ~IsOver(m, k))
    BY <1>2, MovesNot DEF FailDecoder
  <1>3. QED BY <1>1, <1>2

-----------------------------------------------------------------------------
(* The slot.                                                               *)

(* What is left of m when k gives back the slot and its attempt a keeps    *)
(* what it may do only if it is to be retained for the tail.               *)
GivenBack(m, n, k, a, retainForTail) ==
    /\ Apart(m, n, k)
    /\ ~n.att[k].accepting /\ n.slot = m.slot \ {k}
    /\ IF retainForTail /\ m.att[k].tailAllowed
       THEN n.att[k].tailAllowed /\ n.att[k].id = m.att[k].id
       ELSE IF m.att[k].id = a THEN n.att[k] = NoAttempt
       ELSE n.att[k].tailAllowed = m.att[k].tailAllowed /\ n.att[k].id = m.att[k].id
    /\ n.job = m.job /\ n.pcm = m.pcm /\ n.consumer = m.consumer
    /\ n.decoder = m.decoder /\ n.threads = m.threads

(* A release does nothing, or gives the slot back and pumps.               *)
LEMMA ReleaseIs ==
    ASSUME NEW m \in Memories, NEW k \in Jobs, NEW a, NEW r \in BOOLEAN,
           NEW n, n \in ReleaseAdmission(m, k, a, r)
    PROVE  \/ n = m /\ (k \notin m.slot \/ (a > 0 /\ m.att[k].id # a))
           \/ /\ k \in m.slot /\ ~(a > 0 /\ m.att[k].id # a)
              /\ \E d : GivenBack(m, d, k, a, r) /\ n \in Pumped(d)
  <1>1. CASE k \notin m.slot \/ (a > 0 /\ m.att[k].id # a)
    BY <1>1 DEF ReleaseAdmission
  <1>2. CASE ~(k \notin m.slot \/ (a > 0 /\ m.att[k].id # a))
    <2> DEFINE q == [m.att[k] EXCEPT !.accepting = FALSE]
               d1 == [m EXCEPT !.att[k] = q]
               d2 == [d1 EXCEPT !.slot = @ \ {k}]
               d3 == IF r /\ m.att[k].tailAllowed THEN d2 ELSE Retire(d2, k, a)
    <2>1. n \in Pumped(d3)
      BY <1>2 DEF ReleaseAdmission
    <2>2. m.att[k] \in Attempts
      BY DEF Memories
    <2>3. q \in Attempts /\ q.id = m.att[k].id /\ q.accepting = FALSE /\ q.tailAllowed = m.att[k].tailAllowed
      BY <2>2 DEF Attempts
    <2> HIDE DEF q
    <2>4. /\ d1 \in Memories /\ Apart(m, d1, k) /\ d1.att[k] = q
          /\ d1.pcm = m.pcm /\ d1.slot = m.slot /\ d1.consumer = m.consumer /\ d1.job = m.job
          /\ d1.decoder = m.decoder /\ d1.threads = m.threads
      BY <2>3, AttSet
    <2> HIDE DEF d1
    <2>5. /\ d2 \in Memories /\ Apart(d1, d2, k) /\ d2.slot = d1.slot \ {k}
          /\ d2.pcm = d1.pcm /\ d2.att = d1.att /\ d2.consumer = d1.consumer /\ d2.job = d1.job
          /\ d2.decoder = d1.decoder /\ d2.threads = d1.threads
      BY <2>4, SlotLeft
    <2> HIDE DEF d2
    <2>6. Apart(m, d2, k)
      BY <2>4, <2>5, ApartTwice
    <2>7. CASE r /\ m.att[k].tailAllowed
      <3>1. d3 = d2
        BY <2>7
      <3>2. GivenBack(m, d2, k, a, r)
        BY <2>3, <2>4, <2>5, <2>6, <2>7 DEF GivenBack
      <3>3. QED BY <3>1, <3>2, <2>1, <1>2
    <2>8. CASE ~(r /\ m.att[k].tailAllowed)
      <3> DEFINE e == Retire(d2, k, a)
      <3>1. d3 = e
        BY <2>8
      <3>2. /\ Apart(d2, e, k)
            /\ d2.att[k].id = a => e.att[k] = NoAttempt
            /\ d2.att[k].id # a => e = d2
            /\ e.job = d2.job /\ e.pcm = d2.pcm /\ e.slot = d2.slot /\ e.consumer = d2.consumer
            /\ e.decoder = d2.decoder /\ e.threads = d2.threads
        BY <2>5, RetireIs
      <3> HIDE DEF e
      <3>3. Apart(m, e, k)
        BY <3>2, <2>6, ApartTwice
      <3>4. d2.att[k].id = m.att[k].id /\ d2.att[k].accepting = FALSE
            /\ d2.att[k].tailAllowed = m.att[k].tailAllowed
        BY <2>3, <2>4, <2>5
      <3>5. ~e.att[k].accepting
        BY <3>2, <3>4 DEF NoAttempt
      <3>6. ASSUME m.att[k].id = a PROVE GivenBack(m, e, k, a, r)
        BY <3>2, <3>3, <3>4, <3>5, <3>6, <2>4, <2>5, <2>8 DEF GivenBack
      <3>7. ASSUME m.att[k].id # a PROVE GivenBack(m, e, k, a, r)
        BY <3>2, <3>3, <3>4, <3>5, <3>7, <2>4, <2>5, <2>8 DEF GivenBack
      <3>8. GivenBack(m, e, k, a, r)
        BY <3>6, <3>7
      <3>9. QED BY <3>1, <3>8, <2>1, <1>2
    <2>9. QED BY <2>7, <2>8
  <1>3. QED BY <1>1, <1>2

(* A slot given back moves its job, and whoever the pump then takes.       *)
LEMMA GivenBackFrees ==
    ASSUME NEW m, NEW n, NEW k \in Jobs, NEW a, NEW r \in BOOLEAN, Sound(m),
           GivenBack(m, n, k, a, r)
    PROVE  Frees(m, n, k)
  <1>1. n.att[k].id \in {0, m.made[k]} /\ (n.att[k].tailAllowed => m.att[k].tailAllowed /\ n.att[k].id = m.att[k].id)
    BY DEF GivenBack, Sound, NoAttempt
  <1>2. ~n.att[k].accepting
    BY DEF GivenBack
  <1>3. /\ Apart(m, n, k) /\ n.slot = m.slot \ {k}
        /\ n.job = m.job /\ n.decoder = m.decoder /\ n.threads = m.threads
    BY DEF GivenBack
  <1>4. Freeing(m, n, k)
    BY <1>1, <1>2, <1>3 DEF Freeing, Adders, Allowed, Sound
  <1>5. QED BY <1>4, FreeingGives

(* releaseAdmission() moves its job.                                       *)
LEMMA ReleaseMoves ==
    ASSUME NEW m, NEW k \in Jobs, NEW a, NEW r \in BOOLEAN, Sound(m), build \in Nat,
           NEW n, n \in ReleaseAdmission(m, k, a, r)
    PROVE  Moves(m, n, k)
  <1>1. CASE n = m
    BY <1>1, MovesNot
  <1>2. ASSUME NEW d, GivenBack(m, d, k, a, r), n \in Pumped(d) PROVE Moves(m, n, k)
    <2>1. Frees(m, d, k)
      BY <1>2, GivenBackFrees
    <2>2. Sound(d) /\ Sound(m)
      BY <2>1 DEF Frees
    <2>3. Moves(d, n, k) /\ \A j \in Jobs : Rests(n, j)
      BY <1>2, <2>2, PumpMoves, PumpedRests
    <2>4. QED BY <2>1, <2>2, <2>3, FreesThenMoves
  <1>3. QED BY <1>1, <1>2, ReleaseIs DEF Sound

(* releaseDecode() moves its job.                                          *)
LEMMA ReleaseDecodeMoves ==
    ASSUME NEW m, NEW k \in Jobs, Sound(m), build \in Nat, NEW n, n \in ReleaseDecode(m, k)
    PROVE  Moves(m, n, k)
  <1>1. CASE m.pcm[k] > 0 \/ k \in m.consumer
    BY <1>1, MovesNot DEF ReleaseDecode
  <1>2. CASE ~(m.pcm[k] > 0 \/ k \in m.consumer)
    BY <1>2, ReleaseMoves DEF ReleaseDecode
  <1>3. QED BY <1>1, <1>2

(* The small changes.                                                      *)
LEMMA DecoderMoves ==
    ASSUME NEW m, NEW k \in Jobs, NEW r \in Decoders, Sound(m), r.att <= m.made[k]
    PROVE  Moves(m, [m EXCEPT !.decoder[k] = r], k)
  <1> DEFINE n == [m EXCEPT !.decoder[k] = r]
  <1>1. /\ Apart(m, n, k) /\ n.decoder[k] = r /\ n.slot = m.slot
        /\ n.job = m.job /\ n.att = m.att /\ n.threads = m.threads
    BY DecoderSet DEF Sound
  <1> HIDE DEF n
  <1>2. Lawful(m, n, k)
    BY <1>1 DEF Lawful, Freeing, Adders, Allowed, Sound
  <1>3. QED BY <1>2, LawfulMoves DEF n

(* Dropping the decoder's state moves its job.                             *)
LEMMA NoDecoderMoves ==
    ASSUME NEW m, NEW k \in Jobs, Sound(m)
    PROVE  Moves(m, [m EXCEPT !.decoder[k] = NoDecoder], k)
  <1>1. NoDecoder \in Decoders /\ NoDecoder.att = 0
    BY DEF NoDecoder, Decoders
  <1>2. m.made[k] \in Nat
    BY DEF Sound, Memories
  <1> HIDE DEF NoDecoder
  <1>3. NoDecoder.att <= m.made[k]
    BY <1>1, <1>2
  <1>4. QED BY <1>1, <1>3, DecoderMoves

(* Taking or dropping audio moves its job.                                 *)
LEMMA PcmMoves ==
    ASSUME NEW m, NEW k \in Jobs, NEW r \in Nat, Sound(m)
    PROVE  Moves(m, [m EXCEPT !.pcm[k] = r], k)
  <1> DEFINE n == [m EXCEPT !.pcm[k] = r]
  <1>1. /\ Apart(m, n, k) /\ n.decoder = m.decoder /\ n.slot = m.slot
        /\ n.job = m.job /\ n.att = m.att /\ n.threads = m.threads
    BY PcmSet DEF Sound
  <1> HIDE DEF n
  <1>2. Lawful(m, n, k)
    BY <1>1 DEF Lawful, Freeing, Adders, Allowed, Sound
  <1>3. QED BY <1>2, LawfulMoves DEF n

(* A consumer that begins or ends moves its job.                           *)
LEMMA ConsumerMoves ==
    ASSUME NEW m, NEW k \in Jobs, NEW S, S = m.consumer \cup {k} \/ S = m.consumer \ {k}, Sound(m)
    PROVE  Moves(m, [m EXCEPT !.consumer = S], k)
  <1> DEFINE n == [m EXCEPT !.consumer = S]
  <1>0. m \in Memories
    BY DEF Sound
  <1>1. /\ Apart(m, n, k) /\ n.decoder = m.decoder /\ n.slot = m.slot
        /\ n.job = m.job /\ n.att = m.att /\ n.threads = m.threads
    BY <1>0, ConsumerSet
  <1>2. Lawful(m, n, k)
    BY <1>1 DEF Lawful, Freeing, Adders, Allowed, Sound
  <1>3. QED BY <1>2, LawfulMoves DEF n

(* A decode that ends moves its job.                                       *)
LEMMA ActiveMoves ==
    ASSUME NEW m, NEW k \in Jobs, Sound(m)
    PROVE  Moves(m, [m EXCEPT !.active = @ \ {k}], k)
  <1> DEFINE n == [m EXCEPT !.active = @ \ {k}]
  <1>1. /\ Apart(m, n, k) /\ n.decoder = m.decoder /\ n.slot = m.slot
        /\ n.job = m.job /\ n.att = m.att /\ n.threads = m.threads
    BY ActiveLeft DEF Sound
  <1> HIDE DEF n
  <1>2. Lawful(m, n, k)
    BY <1>1 DEF Lawful, Freeing, Adders, Allowed, Sound
  <1>3. QED BY <1>2, LawfulMoves DEF n

(* A job may become what it likes, except that a cancelled one stays so    *)
(* and an unknown one unknown, while its attempt allows it.                *)
LEMMA JobMoves ==
    ASSUME NEW m, NEW k \in Jobs, NEW r \in JobRecords, Sound(m), k \in Known(m),
           r.state # "absent", m.job[k].state = "cancelled" => r.state = "cancelled",
           Allowed(m, k) => r.state \notin {"cancelled", "failed"}
    PROVE  Moves(m, [m EXCEPT !.job[k] = r], k)
  <1> DEFINE n == [m EXCEPT !.job[k] = r]
  <1>1. /\ Apart(m, n, k) /\ n.decoder = m.decoder /\ n.slot = m.slot
        /\ n.job[k] = r /\ n.att = m.att /\ n.threads = m.threads
    BY JobSet DEF Sound
  <1> HIDE DEF n
  <1>2. Lawful(m, n, k)
    BY <1>1 DEF Lawful, Freeing, Adders, Allowed, Sound, Known
  <1>3. QED BY <1>2, LawfulMoves DEF n

-----------------------------------------------------------------------------
(* The stretches.                                                          *)

(* The pump after a move is still a move.                                  *)
LEMMA PumpAfter ==
    ASSUME NEW m, NEW n, NEW p, NEW k \in Jobs, Sound(m), build \in Nat,
           Moves(m, n, k), p \in Pumped(n)
    PROVE  Moves(m, p, k)
  <1>1. Moves(n, p, k)
    BY PumpMoves DEF Moves
  <1>2. QED BY <1>1, MovesTwice

(* The end of a chunk moves its job.                                       *)
LEMMA LeaveChunkMoves ==
    ASSUME NEW m, NEW k \in Jobs, NEW a, Sound(m), build \in Nat,
           NEW n, n \in LeaveChunk(m, k, a)
    PROVE  Moves(m, n, k)
  <1> DEFINE left == [m EXCEPT !.consumer = @ \ {k}]
  <1>1. Moves(m, left, k)
    BY ConsumerMoves
  <1>2. n = left \/ n \in ReleaseAdmission(left, k, a, FALSE)
    BY DEF LeaveChunk
  <1> HIDE DEF left
  <1>3. CASE n = left
    BY <1>1, <1>3
  <1>4. CASE n \in ReleaseAdmission(left, k, a, FALSE)
    <2>1. Sound(left)
      BY <1>1 DEF Moves
    <2>2. Moves(left, n, k)
      BY <1>4, <2>1, ReleaseMoves
    <2>3. QED BY <1>1, <2>2, MovesTwice
  <1>5. QED BY <1>2, <1>3, <1>4

(* What ingestChunk() does when it returns moves its job.                  *)
LEMMA ChunkReturnsMoves ==
    ASSUME NEW m, NEW k \in Jobs, NEW a, Sound(m), build \in Nat,
           NEW n, n \in ChunkReturns(m, k, a)
    PROVE  Moves(m, n, k)
  <1> DEFINE r == [m.decoder[k] EXCEPT !.busy = FALSE]
             d == [m EXCEPT !.decoder[k] = r]
             q == [d.decoder[k] EXCEPT !.next = @ + 1]
             e == [d EXCEPT !.decoder[k] = q]
             next == IF m.decoder[k].att = a THEN e ELSE m
  <1>1. n \in LeaveChunk(next, k, a)
    BY DEF ChunkReturns
  <1>2. Moves(m, e, k)
    <2>0. m \in Memories /\ m.decoder[k] \in Decoders /\ m.decoder[k].att <= m.made[k]
      BY DEF Sound, Memories
    <2>1. r \in Decoders /\ r.att = m.decoder[k].att /\ r.next = m.decoder[k].next
      BY <2>0 DEF Decoders
    <2> HIDE DEF r
    <2>2. Moves(m, d, k) /\ d.decoder[k] = r
      BY <2>0, <2>1, DecoderMoves, DecoderSet
    <2>3. d.made[k] = m.made[k]
      BY <2>0, <2>1, DecoderSet
    <2> HIDE DEF d
    <2>4. q \in Decoders /\ q.att = r.att
      BY <2>1, <2>2 DEF Decoders
    <2> HIDE DEF q
    <2>5. Moves(d, e, k)
      BY <2>0, <2>1, <2>2, <2>3, <2>4, DecoderMoves DEF Moves
    <2>6. QED BY <2>2, <2>5, MovesTwice
  <1> HIDE DEF e
  <1>3. Moves(m, next, k)
    BY <1>2, MovesNot
  <1> HIDE DEF next
  <1>4. Moves(next, n, k)
    BY <1>1, <1>3, LeaveChunkMoves DEF Moves
  <1>5. QED BY <1>3, <1>4, MovesTwice

(* A refused chunk moves its job.                                          *)
LEMMA RejectedMoves ==
    ASSUME NEW m, NEW k \in Jobs, NEW d, Sound(m)
    PROVE  Moves(m, DecoderRejected(m, k, d), k)
  <1> DEFINE n == [m EXCEPT !.decoder[k] = NoDecoder]
  <1>1. DecoderRejected(m, k, d) = FailDecoder(n, k) \/ DecoderRejected(m, k, d) = m
    BY DEF DecoderRejected
  <1>2. Moves(m, n, k)
    BY NoDecoderMoves
  <1> HIDE DEF n
  <1>3. Moves(n, FailDecoder(n, k), k)
    BY <1>2, FailDecoderMoves DEF Moves
  <1>4. Moves(m, FailDecoder(n, k), k)
    BY <1>2, <1>3, MovesTwice
  <1>5. QED BY <1>1, <1>4, MovesNot

(* A thread of a known job and one of its attempts may come later.         *)
LEMMA ThreadMoves ==
    ASSUME NEW m, NEW at \in Points \ {"created"}, NEW k \in Jobs, NEW a \in Nat,
           Sound(m), k \in Known(m), a <= m.made[k]
    PROVE  /\ Moves(m, Await(m, Thread(at, k, a)), k)
           /\ Moves(m, Save(m, Thread(at, k, a)), k)
  <1> DEFINE u == Thread(at, k, a)
  <1>1. u \in Threads /\ u.at = at /\ u.job = k /\ u.att = a /\ u.then = "none"
    BY ThreadIs
  <1> HIDE DEF u
  <1>2. Moves(m, Await(m, u), k) /\ Moves(m, Save(m, u), k)
    BY <1>1, JoinMoves, SaveMoves
  <1>3. QED BY <1>2 DEF u

(* What ingestChunk() does when it throws moves its job.                   *)
LEMMA ChunkThrowsMoves ==
    ASSUME NEW m, NEW k \in Jobs, NEW a \in Nat, Sound(m), build \in Nat,
           k \in Known(m), a <= m.made[k], NEW n, n \in ChunkThrows(m, k, a)
    PROVE  Moves(m, n, k)
  <1>1. PICK left \in LeaveChunk(m, k, a) :
           n = Await(left, Thread("threw", k, a)) \/ n = DecoderRejected(left, k, a)
    BY DEF ChunkThrows, Later
  <1>2. Moves(m, left, k)
    BY <1>1, LeaveChunkMoves
  <1>3. Sound(left) /\ k \in Known(left) /\ a <= left.made[k]
    <2>1. m.made[k] \in Nat /\ left.made[k] \in Nat /\ m.made[k] <= left.made[k]
      BY <1>2 DEF Moves, Keeps, Sound, Memories
    <2>2. QED BY <1>2, <2>1 DEF Moves, Keeps
  <1>4. Moves(left, DecoderRejected(left, k, a), k)
    BY <1>3, RejectedMoves
  <1>5. "threw" \in Points \ {"created"}
    BY DEF Points
  <1>6. Moves(left, Await(left, Thread("threw", k, a)), k)
    BY <1>3, <1>5, ThreadMoves
  <1>7. Moves(left, n, k)
    BY <1>1, <1>4, <1>6
  <1>8. QED BY <1>2, <1>7, MovesTwice

(* Going on to the tail moves the job.                                     *)
LEMMA ToTailMoves ==
    ASSUME NEW m, NEW k \in Jobs, NEW a, Sound(m)
    PROVE  Moves(m, ToTail(m, k, a), k)
  <1> DEFINE left == Retire(m, k, a)
             n == ToTail(m, k, a)
  <1>1. Moves(m, left, k)
    BY RetireMoves
  <1>2. CASE m.job[k].state = "transcribing" /\ CanFinish(m, k, a)
    <2>1. left.job = m.job
      BY RetireIs DEF Sound
    <2>2. n = Save(left, Thread("saveMeeting", k, 0))
      BY <1>2, <2>1 DEF ToTail, Save, Thread
    <2>3. Sound(left) /\ k \in Known(left) /\ left.made[k] \in Nat
      BY <1>1, <1>2, <2>1 DEF Moves, Keeps, Known, Sound, Memories
    <2>4. "saveMeeting" \in Points \ {"created"}
      BY DEF Points, Tailing
    <2>5. Moves(left, n, k)
      BY <2>2, <2>3, <2>4, ThreadMoves
    <2>6. QED BY <1>1, <2>5, MovesTwice
  <1>3. CASE ~(m.job[k].state = "transcribing" /\ CanFinish(m, k, a))
    BY <1>1, <1>3 DEF ToTail
  <1>4. QED BY <1>2, <1>3

(* What a later step of a stretch needs to know of an earlier one.         *)
LEMMA MovesKeeps ==
    ASSUME NEW m, NEW n, NEW k \in Jobs, NEW a \in Nat, Sound(m), Moves(m, n, k)
    PROVE  /\ Sound(n)
           /\ k \in Known(m) => k \in Known(n)
           /\ a <= m.made[k] => a <= n.made[k]
  <1>1. m.made[k] \in Nat /\ n.made[k] \in Nat /\ m.made[k] <= n.made[k]
    BY DEF Moves, Keeps, Sound, Memories
  <1>2. QED BY <1>1 DEF Moves, Keeps

(* The end of consume() moves its job.                                     *)
LEMMA ConsumeEndsMoves ==
    ASSUME NEW m, NEW k \in Jobs, NEW a \in Nat, NEW ready \in BOOLEAN, Sound(m), build \in Nat,
           k \in Known(m), a <= m.made[k], NEW n, n \in ConsumeEnds(m, k, a, ready)
    PROVE  Moves(m, n, k)
  <1> DEFINE left == [m EXCEPT !.consumer = @ \ {k}]
             retain == ready /\ CanFinish(left, k, a)
  <1>1. Moves(m, left, k)
    BY ConsumerMoves
  <1>2. PICK p \in ReleaseAdmission(left, k, a, retain) :
           n = Await(p, Thread("tail", k, a)) \/ n = ToTail(p, k, a) \/ n = Retire(p, k, a)
    BY DEF ConsumeEnds, Later
  <1> HIDE DEF left
  <1>3. retain \in BOOLEAN
    BY DEF CanFinish
  <1> HIDE DEF retain
  <1>4. Moves(left, p, k)
    BY <1>1, <1>2, <1>3, ReleaseMoves DEF Moves
  <1>5. Moves(m, p, k)
    BY <1>1, <1>4, MovesTwice
  <1>6. Sound(p) /\ k \in Known(p) /\ a <= p.made[k]
    BY <1>5, MovesKeeps
  <1>7. "tail" \in Points \ {"created"}
    BY DEF Points
  <1>8. /\ Moves(p, Await(p, Thread("tail", k, a)), k)
        /\ Moves(p, ToTail(p, k, a), k) /\ Moves(p, Retire(p, k, a), k)
    BY <1>6, <1>7, ThreadMoves, ToTailMoves, RetireMoves
  <1>9. Moves(p, n, k)
    BY <1>2, <1>8
  <1>10. QED BY <1>5, <1>9, MovesTwice

(* A decoder that waits for the next chunk moves its job.                  *)
LEMMA IdleMoves ==
    ASSUME NEW m, NEW k \in Jobs, Sound(m), build \in Nat, NEW n, n \in Idle(m, k)
    PROVE  Moves(m, n, k)
  <1>1. CASE k \in m.active
    <2> DEFINE d == [m EXCEPT !.active = @ \ {k}]
    <2>1. n \in Pumped(d) /\ Moves(m, d, k)
      BY <1>1, ActiveMoves DEF Idle
    <2> HIDE DEF d
    <2>2. QED BY <2>1, PumpAfter
  <1>2. CASE k \notin m.active
    BY <1>2, MovesNot DEF Idle
  <1>3. QED BY <1>1, <1>2

(* The end of the tail moves its job.                                      *)
LEMMA TailEndsMoves ==
    ASSUME NEW m, NEW k \in Jobs, Sound(m), build \in Nat, NEW n, n \in TailEnds(m, k)
    PROVE  Moves(m, n, k)
  <1>1. PICK p \in ReleaseDecode(m, k) : n \in Idle(p, k)
    BY DEF TailEnds
  <1>2. Moves(m, p, k)
    BY <1>1, ReleaseDecodeMoves
  <1>3. Moves(p, n, k)
    BY <1>1, <1>2, IdleMoves DEF Moves
  <1>4. QED BY <1>2, <1>3, MovesTwice

(* A failure of the tail moves its job.                                    *)
LEMMA TailFailsMoves ==
    ASSUME NEW m, NEW k \in Jobs, Sound(m), build \in Nat, k \in Known(m),
           NEW n, n \in TailFails(m, k)
    PROVE  Moves(m, n, k)
  <1>1. CASE m.job[k].state = "cancelled"
    BY <1>1, TailEndsMoves DEF TailFails
  <1>2. CASE m.job[k].state # "cancelled"
    <2>1. n = Fail(m, k, "other", "tail")
      BY <1>2 DEF TailFails
    <2>2. QED BY <2>1, <1>2, FailMoves DEF Errors, Awaiters
  <1>3. QED BY <1>1, <1>2

(* What its caller does after fail() moves the job.                        *)
LEMMA AfterFailMoves ==
    ASSUME NEW m, NEW t \in Threads, Sound(m), build \in Nat, t.job \in Known(m),
           t.att <= m.made[t.job], NEW n, n \in AfterFail(m, t)
    PROVE  Moves(m, n, t.job)
  <1>0. t.job \in Jobs /\ t.att \in Nat
    BY DEF Threads
  <1>1. \/ n \in ChunkThrows(m, t.job, t.att) \/ n = DecoderRejected(m, t.job, t.att)
        \/ n \in ConsumeEnds(m, t.job, t.att, FALSE) \/ n \in TailEnds(m, t.job) \/ n = m
    BY DEF AfterFail
  <1>2. CASE n \in ChunkThrows(m, t.job, t.att)
    BY <1>0, <1>2, ChunkThrowsMoves
  <1>3. CASE n = DecoderRejected(m, t.job, t.att)
    BY <1>0, <1>3, RejectedMoves
  <1>4. CASE n \in ConsumeEnds(m, t.job, t.att, FALSE)
    BY <1>0, <1>4, ConsumeEndsMoves
  <1>5. CASE n \in TailEnds(m, t.job)
    BY <1>0, <1>5, TailEndsMoves
  <1>6. CASE n = m
    BY <1>6, MovesNot
  <1>7. QED BY <1>1, <1>2, <1>3, <1>4, <1>5, <1>6

(* Another decoder of an older attempt is reaped, and nothing else happens *)
(* to its job.                                                             *)
LEMMA ReaperMoves ==
    ASSUME NEW m, NEW k \in Jobs, NEW a \in Nat, Sound(m), build \in Nat,
           k \in Known(m), a <= m.made[k], m.job[k].state # "cancelled"
    PROVE  /\ Sound(Decode(m, k, a)) /\ Keeps(m, Decode(m, k, a))
  <1>1. CASE Decoding(m) \ Stale(m, k) # {}
    <2>1. PICK e \in Errors : Decode(m, k, a) = Fail(m, k, e, "none")
      BY <1>1 DEF Decode, Errors
    <2>2. QED BY <2>1, FailMoves DEF Awaiters, Moves
  <1>2. CASE Decoding(m) \ Stale(m, k) = {}
    <2> DEFINE D == [j \in Jobs |->
                       IF j = k THEN [att |-> a, busy |-> FALSE,
                                      next |-> IF m.job[k].vad THEN 0 ELSE m.job[k].cursor]
                       ELSE NoDecoder]
               n == [m EXCEPT !.decoder = D]
    <2>1. Decode(m, k, a) = n
      BY <1>2 DEF Decode
    <2>2. m \in Memories /\ m.job[k].cursor \in Nat
      BY DEF Sound, Memories, JobRecords
    <2>3. D \in [Jobs -> Decoders] /\ D[k].att = a /\ \A j \in Jobs \ {k} : D[j].att = 0
      BY <2>2 DEF Decoders, NoDecoder
    <2> HIDE DEF D
    <2>4. /\ n \in Memories /\ n.decoder = D
          /\ n.queue = m.queue /\ n.pcm = m.pcm /\ n.slot = m.slot
          /\ n.consumer = m.consumer /\ n.job = m.job /\ n.made = m.made
          /\ n.att = m.att /\ n.threads = m.threads /\ n.batch = m.batch /\ n.boot = m.boot
      BY <2>2, <2>3 DEF Memories
    <2> HIDE DEF n
    <2>5. \A j \in Jobs : m.made[j] \in Nat /\ n.decoder[j].att <= n.made[j]
      <3>1. \A j \in Jobs : m.made[j] \in Nat
        BY <2>2 DEF Memories
      <3>2. \A j \in Jobs \ {k} : 0 <= m.made[j]
        BY <3>1
      <3>3. QED BY <2>3, <2>4, <3>1, <3>2
    <2>6. Sound(n)
      BY <2>4, <2>5 DEF Sound, Allowed, Known
    <2>7. Keeps(m, n)
      BY <2>4, <2>5 DEF Keeps, Adders, Known
    <2>8. QED BY <2>1, <2>6, <2>7
  <1>3. QED BY <1>1, <1>2

-----------------------------------------------------------------------------
(* Chunks and windows.                                                     *)

(* An attempt that may go on is the last one of a known job.               *)
LEMMA GoesOn ==
    ASSUME NEW m, NEW k \in Jobs, NEW a \in Nat, Sound(m), Accepts(m, k, a) \/ CanFinish(m, k, a)
    PROVE  /\ Allowed(m, k) /\ k \in Known(m) /\ a = m.made[k] /\ a <= m.made[k]
           /\ m.job[k].state \notin {"absent", "cancelled", "failed"}
  <1>1. Allowed(m, k)
    BY DEF Accepts, CanFinish, Allowed
  <1>2. m.made[k] \in Nat /\ m.att[k].id \in {0, m.made[k]} /\ m.att[k].id = a /\ a > 0
    BY DEF Accepts, CanFinish, Sound, Memories
  <1>3. m.job[k].state \notin {"absent", "cancelled", "failed"}
    BY <1>1 DEF Sound
  <1>4. QED BY <1>1, <1>2, <1>3 DEF Known

(* The thread of a chunk at a point of its work.                           *)
LEMMA ChunkAtIs ==
    ASSUME NEW at \in Points, NEW k \in Jobs, NEW a \in Nat, NEW seq \in Nat
    PROVE  LET u == ChunkAt(at, k, a, seq) IN
           u \in Threads /\ u.at = at /\ u.job = k /\ u.att = a /\ u.then = "none"
  <1> DEFINE u == Thread(at, k, a)
             v == [u EXCEPT !.seq = seq]
  <1>1. u \in Threads /\ u.at = at /\ u.job = k /\ u.att = a /\ u.then = "none"
    BY ThreadIs
  <1> HIDE DEF u
  <1>2. v \in Threads /\ v.at = at /\ v.job = k /\ v.att = a /\ v.then = "none"
    BY <1>1 DEF Threads
  <1>3. QED BY <1>2 DEF ChunkAt, u

(* A chunk that awaits or saves moves its job.                             *)
LEMMA ChunkAtMoves ==
    ASSUME NEW m, NEW at \in Points \ {"created"}, NEW k \in Jobs, NEW a \in Nat, NEW seq \in Nat,
           Sound(m), k \in Known(m), a <= m.made[k]
    PROVE  /\ Moves(m, Await(m, ChunkAt(at, k, a, seq)), k)
           /\ Moves(m, Save(m, ChunkAt(at, k, a, seq)), k)
  <1> DEFINE u == ChunkAt(at, k, a, seq)
  <1>1. u \in Threads /\ u.at = at /\ u.job = k /\ u.att = a /\ u.then = "none"
    BY ChunkAtIs
  <1> HIDE DEF u
  <1>2. Moves(m, Await(m, u), k) /\ Moves(m, Save(m, u), k)
    BY <1>1, JoinMoves, SaveMoves
  <1>3. QED BY <1>2 DEF u

(* A job that is known and not cancelled may go to another state of those  *)
(* that allow its attempt to go on.                                        *)
LEMMA StateMoves ==
    ASSUME NEW m, NEW k \in Jobs, NEW s \in JobStates \ {"absent", "cancelled", "failed"},
           Sound(m), k \in Known(m), m.job[k].state # "cancelled"
    PROVE  Moves(m, [m EXCEPT !.job[k].state = s], k)
  <1> DEFINE r == [m.job[k] EXCEPT !.state = s]
  <1>1. m.job[k] \in JobRecords
    BY DEF Sound, Memories
  <1>2. r \in JobRecords /\ r.state = s
    BY <1>1 DEF JobRecords
  <1> HIDE DEF r
  <1>3. Moves(m, [m EXCEPT !.job[k] = r], k)
    BY <1>2, JobMoves
  <1>4. QED BY <1>3 DEF r

(* The next slab moves its job.                                            *)
LEMMA NextSlabMoves ==
    ASSUME NEW m, NEW k \in Jobs, NEW a \in Nat, NEW seq \in Nat, Sound(m), Accepts(m, k, a)
    PROVE  Moves(m, NextSlab(m, k, a, seq), k)
  <1>1. k \in Known(m) /\ a <= m.made[k] /\ m.job[k].state # "cancelled"
    BY GoesOn
  <1>2. CASE m.job[k].cursor < seq
    <2>1. "slab" \in Points \ {"created"}
      BY DEF Points, Chunking
    <2>2. QED BY <2>1, <1>1, <1>2, ChunkAtMoves DEF NextSlab
  <1>3. ASSUME NEW s \in {"transcribing", "decoding"}
        PROVE  Moves(m, Save([m EXCEPT !.job[k].state = s], ChunkAt(s, k, a, seq)), k)
    <2> DEFINE d == [m EXCEPT !.job[k].state = s]
    <2>1. Moves(m, d, k)
      BY <1>1, <1>3, StateMoves DEF JobStates
    <2> HIDE DEF d
    <2>2. Sound(d) /\ k \in Known(d) /\ a <= d.made[k]
      BY <1>1, <2>1, MovesKeeps
    <2>3. s \in Points \ {"created"}
      BY DEF Points, Chunking
    <2>4. Moves(d, Save(d, ChunkAt(s, k, a, seq)), k)
      BY <2>2, <2>3, ChunkAtMoves
    <2>5. Moves(m, Save(d, ChunkAt(s, k, a, seq)), k)
      BY <2>1, <2>4, MovesTwice
    <2>6. QED BY <2>5 DEF d
  <1>4. CASE ~(m.job[k].cursor < seq)
    BY <1>3, <1>4 DEF NextSlab
  <1>5. QED BY <1>2, <1>4

(* An accepted chunk moves its job.                                        *)
LEMMA AcceptMoves ==
    ASSUME NEW m, NEW k \in Jobs, NEW a \in Nat, NEW seq \in Nat, Sound(m), build \in Nat,
           Accepts(m, k, a)
    PROVE  Moves(m, Accept(m, k, a, seq), k)
  <1>1. k \in Known(m) /\ a <= m.made[k] /\ m.job[k].state \notin {"absent", "cancelled", "failed"}
    BY GoesOn
  <1>2. m \in Memories /\ m.decoder[k] \in Decoders /\ m.decoder[k].att <= m.made[k]
        /\ m.pcm[k] \in Nat /\ m.job[k] \in JobRecords
    BY DEF Sound, Memories
  <1> DEFINE c == [m.decoder[k] EXCEPT !.next = @ + 1]
             counted == [m EXCEPT !.decoder[k] = c]
             b == [m.decoder[k] EXCEPT !.busy = TRUE]
             busy == [m EXCEPT !.decoder[k] = b]
             held == [busy EXCEPT !.consumer = @ \cup {k}]
  <1>3. Moves(m, counted, k)
    <2>1. c \in Decoders /\ c.att = m.decoder[k].att
      BY <1>2 DEF Decoders
    <2> HIDE DEF c
    <2>2. QED BY <1>2, <2>1, DecoderMoves
  <1>4. Moves(m, busy, k) /\ busy.job = m.job /\ busy.att = m.att
    <2>1. b \in Decoders /\ b.att = m.decoder[k].att
      BY <1>2 DEF Decoders
    <2> HIDE DEF b
    <2>2. QED BY <1>2, <2>1, DecoderMoves, DecoderSet
  <1> HIDE DEF busy
  <1>5. Moves(m, held, k) /\ held.job = m.job /\ held.att = m.att
    <2>1. Sound(busy) /\ busy \in Memories
      BY <1>4 DEF Moves, Sound
    <2>2. Moves(busy, held, k) /\ held.job = busy.job /\ held.att = busy.att
      BY <2>1, ConsumerMoves, ConsumerSet
    <2>3. QED BY <1>4, <2>2, MovesTwice
  <1> HIDE DEF held
  <1>6. ASSUME NEW e \in Errors PROVE Moves(m, Fail(busy, k, e, "refused"), k)
    <2>1. Sound(busy) /\ k \in Known(busy) /\ busy.job[k].state # "cancelled"
      BY <1>1, <1>4 DEF Moves, Keeps
    <2>2. Moves(busy, Fail(busy, k, e, "refused"), k)
      BY <2>1, FailMoves DEF Awaiters
    <2>3. QED BY <1>4, <2>2, MovesTwice
  <1>7. Moves(m, [m EXCEPT !.pcm[k] = @ + 1, !.decoder[k].next = @ + 1], k)
    <2> DEFINE p == m.pcm[k] + 1
               d == [m EXCEPT !.pcm[k] = p]
               q == [d.decoder[k] EXCEPT !.next = @ + 1]
               e == [d EXCEPT !.decoder[k] = q]
    <2>1. p \in Nat
      BY <1>2
    <2> HIDE DEF p
    <2>2. Moves(m, d, k) /\ d.decoder = m.decoder /\ d.made = m.made
      BY <1>2, <2>1, PcmMoves, PcmSet
    <2> HIDE DEF d
    <2>3. q \in Decoders /\ q.att = m.decoder[k].att
      BY <1>2, <2>2 DEF Decoders
    <2> HIDE DEF q
    <2>4. Moves(d, e, k)
      BY <1>2, <2>2, <2>3, DecoderMoves DEF Moves
    <2>5. Moves(m, e, k)
      BY <2>2, <2>4, MovesTwice
    <2>6. QED BY <2>5 DEF e, q, d, p
  <1>8. Moves(m, Save([held EXCEPT !.job[k].vad = FALSE, !.job[k].chunkSec = build],
                      ChunkAt("overflow", k, a, seq)), k)
    <2> DEFINE r == [held.job[k] EXCEPT !.vad = FALSE]
               d == [held EXCEPT !.job[k] = r]
               q == [d.job[k] EXCEPT !.chunkSec = build]
               e == [d EXCEPT !.job[k] = q]
    <2>0. Sound(held) /\ held \in Memories /\ k \in Known(held) /\ a <= held.made[k]
      BY <1>1, <1>5, MovesKeeps DEF Sound
    <2>1. r \in JobRecords /\ r.state = m.job[k].state
      BY <1>2, <1>5 DEF JobRecords
    <2> HIDE DEF r
    <2>2. Moves(held, d, k) /\ d.job[k] = r
      BY <1>1, <2>0, <2>1, <1>5, JobMoves, JobSet
    <2>3. Sound(d) /\ k \in Known(d) /\ a <= d.made[k]
      BY <2>0, <2>2, MovesKeeps
    <2> HIDE DEF d
    <2>4. q \in JobRecords /\ q.state = m.job[k].state
      BY <2>1, <2>2 DEF JobRecords
    <2> HIDE DEF q
    <2>5. Moves(d, e, k)
      BY <1>1, <2>1, <2>2, <2>3, <2>4, JobMoves
    <2>6. Sound(e) /\ k \in Known(e) /\ a <= e.made[k]
      BY <2>3, <2>5, MovesKeeps
    <2> HIDE DEF e
    <2>7. "overflow" \in Points \ {"created"}
      BY DEF Points, Chunking
    <2>8. Moves(e, Save(e, ChunkAt("overflow", k, a, seq)), k)
      BY <2>6, <2>7, ChunkAtMoves
    <2>9. Moves(m, d, k)
      BY <1>5, <2>2, MovesTwice
    <2>10. Moves(m, e, k)
      BY <2>5, <2>9, MovesTwice
    <2>11. Moves(m, Save(e, ChunkAt("overflow", k, a, seq)), k)
      BY <2>8, <2>10, MovesTwice
    <2>12. QED BY <2>11 DEF e, q, d, r
  <1>9. Moves(m, NextSlab(held, k, a, seq), k)
    <2>1. Sound(held) /\ Accepts(held, k, a)
      BY <1>5 DEF Moves, Accepts
    <2>2. Moves(held, NextSlab(held, k, a, seq), k)
      BY <2>1, NextSlabMoves
    <2>3. QED BY <1>5, <2>2, MovesTwice
  <1>10. PICK e \in Errors :
           \/ Accept(m, k, a, seq) = counted
           \/ Accept(m, k, a, seq) = Fail(busy, k, e, "refused")
           \/ Accept(m, k, a, seq) = [m EXCEPT !.pcm[k] = @ + 1, !.decoder[k].next = @ + 1]
           \/ Accept(m, k, a, seq) = Save([held EXCEPT !.job[k].vad = FALSE, !.job[k].chunkSec = build],
                                          ChunkAt("overflow", k, a, seq))
           \/ Accept(m, k, a, seq) = NextSlab(held, k, a, seq)
    <2>1. \/ Accept(m, k, a, seq) = counted
          \/ \E e \in {"own", "order", "count"} : Accept(m, k, a, seq) = Fail(busy, k, e, "refused")
          \/ Accept(m, k, a, seq) = [m EXCEPT !.pcm[k] = @ + 1, !.decoder[k].next = @ + 1]
          \/ Accept(m, k, a, seq) = Save([held EXCEPT !.job[k].vad = FALSE, !.job[k].chunkSec = build],
                                         ChunkAt("overflow", k, a, seq))
          \/ Accept(m, k, a, seq) = NextSlab(held, k, a, seq)
      BY DEF Accept, counted, busy, held
    <2>2. {"own", "order", "count"} \subseteq Errors /\ "own" \in Errors
      BY DEF Errors
    <2>3. QED BY <2>1, <2>2
  <1>11. QED BY <1>3, <1>6, <1>7, <1>8, <1>9, <1>10

(* What a heard unit adds to its job.                                      *)
LEMMA LineIs ==
    ASSUME NEW m, NEW k \in Jobs, Sound(m), build \in Nat, k \in Known(m)
    PROVE  LET n == Line(m, k) IN
           /\ Moves(m, n, k) /\ n.job[k].state = m.job[k].state
           /\ n.threads = m.threads /\ n.att = m.att /\ n.made = m.made
           /\ n.decoder = m.decoder /\ n.slot = m.slot /\ n.consumer = m.consumer /\ n.pcm = m.pcm
           /\ n.queue = m.queue /\ n.job[k].vad = m.job[k].vad /\ n.job[k].file = m.job[k].file
           /\ Apart(m, n, k)
  <1> DEFINE x == Unit(m.job[k], m.job[k].cursor + 1)
             l == Append(m.job[k].lines, x)
             r == [m.job[k] EXCEPT !.lines = l]
             d == [m EXCEPT !.job[k] = r]
             c == d.job[k].cursor + 1
             q == [d.job[k] EXCEPT !.cursor = c]
             n == [d EXCEPT !.job[k] = q]
  <1>0. Line(m, k) = n
    BY DEF Line
  <1>1. m \in Memories /\ m.job[k] \in JobRecords /\ m.job[k].lines \in Seq(Units)
        /\ m.job[k].cursor \in Nat /\ m.job[k].cursor + 1 \in Nat /\ m.job[k].vad \in BOOLEAN
        /\ m.job[k].state # "absent"
    <2>1. m \in Memories /\ m.job[k].state # "absent"
      BY DEF Sound, Known
    <2>2. m.job[k] \in JobRecords
      BY <2>1 DEF Memories
    <2>3. m.job[k].lines \in Seq(Units) /\ m.job[k].cursor \in Nat /\ m.job[k].vad \in BOOLEAN
      BY <2>2 DEF JobRecords
    <2>4. QED BY <2>1, <2>2, <2>3
  <1>2. x \in Units
    BY <1>1 DEF Unit, Units
  <1> HIDE DEF x
  <1>3. l \in Seq(Units)
    BY <1>1, <1>2
  <1> HIDE DEF l
  <1>4. /\ r \in JobRecords /\ r.state = m.job[k].state /\ r.vad = m.job[k].vad
        /\ r.file = m.job[k].file /\ r.cursor = m.job[k].cursor
    BY <1>1, <1>3 DEF JobRecords
  <1> HIDE DEF r
  <1>5. /\ d \in Memories /\ Apart(m, d, k) /\ d.job[k] = r
        /\ d.threads = m.threads /\ d.att = m.att /\ d.made = m.made
        /\ d.decoder = m.decoder /\ d.slot = m.slot /\ d.consumer = m.consumer /\ d.pcm = m.pcm
        /\ d.queue = m.queue
    BY <1>1, <1>4, JobSet
  <1>6. Moves(m, d, k)
    BY <1>1, <1>4, JobMoves DEF Sound
  <1> HIDE DEF d
  <1>7. c \in Nat
    BY <1>1, <1>4, <1>5
  <1> HIDE DEF c
  <1>8. q \in JobRecords /\ q.state = r.state /\ q.vad = r.vad /\ q.file = r.file
    BY <1>4, <1>5, <1>7 DEF JobRecords
  <1> HIDE DEF q
  <1>9. /\ Apart(d, n, k) /\ n.job[k] = q
        /\ n.threads = d.threads /\ n.att = d.att /\ n.made = d.made
        /\ n.decoder = d.decoder /\ n.slot = d.slot /\ n.consumer = d.consumer /\ n.pcm = d.pcm
        /\ n.queue = d.queue
    BY <1>5, <1>8, JobSet
  <1>10. Moves(d, n, k)
    <2>1. Sound(d) /\ k \in Known(d)
      BY <1>6 DEF Moves, Keeps
    <2>2. d.job[k].state = "cancelled" => q.state = "cancelled"
      BY <1>5, <1>8
    <2>3. q.state # "absent"
      BY <1>1, <1>4, <1>8
    <2>4. Allowed(d, k) => q.state \notin {"cancelled", "failed"}
      BY <2>1, <1>5, <1>8 DEF Sound
    <2>5. QED BY <2>1, <2>2, <2>3, <2>4, <1>8, JobMoves
  <1>11. Moves(m, n, k) /\ Apart(m, n, k)
    BY <1>5, <1>6, <1>9, <1>10, MovesTwice, ApartTwice
  <1> HIDE DEF n
  <1>12. QED BY <1>0, <1>4, <1>5, <1>8, <1>9, <1>11

(* Setting the total changes nothing that others see.                      *)
LEMMA TotalMoves ==
    ASSUME NEW m, NEW k \in Jobs, NEW x \in Nat, Sound(m), k \in Known(m)
    PROVE  LET n == [m EXCEPT !.job[k].total = x] IN
           /\ Moves(m, n, k) /\ n.job[k].state = m.job[k].state
  <1> DEFINE r == [m.job[k] EXCEPT !.total = x]
             n == [m EXCEPT !.job[k] = r]
  <1>1. m \in Memories /\ m.job[k] \in JobRecords /\ m.job[k].state # "absent"
    BY DEF Sound, Memories, Known
  <1>2. r \in JobRecords /\ r.state = m.job[k].state
    BY <1>1 DEF JobRecords
  <1> HIDE DEF r
  <1>3. Moves(m, n, k) /\ n.job[k] = r
    BY <1>1, <1>2, JobMoves, JobSet DEF Sound
  <1>4. QED BY <1>2, <1>3 DEF n, r

(* The start of consume() moves its job.                                   *)
LEMMA ConsumeMoves ==
    ASSUME NEW m, NEW k \in Jobs, NEW a \in Nat, Sound(m), CanFinish(m, k, a)
    PROVE  Moves(m, Consume(m, k, a), k)
  <1> DEFINE d1 == [m EXCEPT !.consumer = @ \cup {k}]
             d2 == [d1 EXCEPT !.pcm[k] = 0]
             d3 == [d2 EXCEPT !.job[k].total = Windows]
             d4 == [d3 EXCEPT !.job[k].state = "transcribing"]
             n == Save(d4, Thread("windows", k, a))
  <1>0. Consume(m, k, a) = n
    BY DEF Consume
  <1>1. k \in Known(m) /\ a <= m.made[k] /\ m.job[k].state # "cancelled"
    BY GoesOn
  <1>2. Moves(m, d1, k) /\ d1.job = m.job
    <2>1. m \in Memories
      BY DEF Sound
    <2>2. Moves(m, d1, k)
      BY ConsumerMoves
    <2>3. d1.job = m.job
      BY <2>1, ConsumerSet
    <2>4. QED BY <2>2, <2>3
  <1>3. Sound(d1) /\ k \in Known(d1)
    BY <1>1, <1>2, MovesKeeps
  <1> HIDE DEF d1
  <1>4. Moves(d1, d2, k) /\ d2.job = d1.job
    <2>1. d1 \in Memories
      BY <1>3 DEF Sound
    <2>2. QED BY <2>1, <1>3, PcmMoves, PcmSet
  <1>5. Sound(d2) /\ k \in Known(d2)
    BY <1>3, <1>4, MovesKeeps
  <1> HIDE DEF d2
  <1>6. Moves(d2, d3, k) /\ d3.job[k].state = d2.job[k].state
    BY <1>5, TotalMoves, RecordingsHaveSpeech
  <1>7. Sound(d3) /\ k \in Known(d3)
    BY <1>5, <1>6, MovesKeeps
  <1> HIDE DEF d3
  <1>8. Moves(d3, d4, k)
    BY <1>1, <1>2, <1>4, <1>6, <1>7, StateMoves DEF JobStates
  <1> HIDE DEF d4
  <1>9. Moves(m, d4, k)
    <2>1. Moves(m, d2, k)
      BY <1>2, <1>4, MovesTwice
    <2>2. Moves(m, d3, k)
      BY <1>6, <2>1, MovesTwice
    <2>3. QED BY <1>8, <2>2, MovesTwice
  <1>10. Sound(d4) /\ k \in Known(d4) /\ a <= d4.made[k]
    BY <1>1, <1>9, MovesKeeps
  <1>11. "windows" \in Points \ {"created"}
    BY DEF Points, Windowing
  <1>12. Moves(d4, n, k)
    BY <1>10, <1>11, ThreadMoves
  <1> HIDE DEF n
  <1>13. Moves(m, n, k)
    BY <1>9, <1>12, MovesTwice
  <1>14. QED BY <1>0, <1>13

(* The end of a job of slabs moves it.                                     *)
LEMMA FinishSlabsMoves ==
    ASSUME NEW m, NEW k \in Jobs, NEW own \in BOOLEAN, Sound(m), k \in Known(m),
           m.job[k].state # "cancelled"
    PROVE  Moves(m, FinishSlabs(m, k, own), k)
  <1> DEFINE d == [m EXCEPT !.job[k].total = Slabs]
             u == [Thread("saveMeeting", k, 0) EXCEPT !.rec = m.job[k]]
             n == FinishSlabs(m, k, own)
  <1>1. Moves(m, d, k) /\ d.job[k].state = m.job[k].state
    BY TotalMoves, RecordingsHaveSpeech
  <1>2. \/ \E e \in {"count", "own"} : n = Fail(m, k, e, "none")
        \/ \E e \in {"short", "own"} : n = Fail(d, k, e, "none")
        \/ n = Await(d, u)
    BY DEF FinishSlabs
  <1> HIDE DEF d, n
  <1>3. ASSUME NEW e \in {"count", "own", "short"}
        PROVE  Moves(m, Fail(m, k, e, "none"), k) /\ Moves(m, Fail(d, k, e, "none"), k)
    <2>1. Sound(d) /\ k \in Known(d)
      BY <1>1, MovesKeeps
    <2>2. Moves(m, Fail(m, k, e, "none"), k) /\ Moves(d, Fail(d, k, e, "none"), k)
      BY <1>1, <2>1, FailMoves DEF Errors, Awaiters
    <2>3. QED BY <1>1, <2>2, MovesTwice
  <1>4. Moves(m, Await(d, u), k)
    <2>1. m.job[k] \in JobRecords
      BY DEF Sound, Memories
    <2>2. "saveMeeting" \in Points
      BY DEF Points, Tailing
    <2>3. u \in Threads /\ u.job = k /\ u.att = 0 /\ u.at = "saveMeeting" /\ u.then = "none"
      BY <2>1, <2>2 DEF Thread, Threads
    <2> HIDE DEF u
    <2>4. Sound(d) /\ k \in Known(d) /\ d.made[k] \in Nat
      <3>1. Sound(d) /\ k \in Known(d)
        BY <1>1, MovesKeeps
      <3>2. QED BY <3>1 DEF Sound, Memories
    <2>5. Moves(d, Await(d, u), k)
      BY <2>3, <2>4, JoinMoves
    <2>6. QED BY <1>1, <2>5, MovesTwice
  <1>5. QED BY <1>2, <1>3, <1>4 DEF n

(* finish() moves its job.                                                 *)
LEMMA FinishMoves ==
    ASSUME NEW m, NEW k \in Jobs, NEW d, Sound(m), build \in Nat,
           NEW n, n \in Finish(m, k, d)
    PROVE  Moves(m, n, k)
  <1> DEFINE a == m.att[k].id
  <1>0. a \in Nat
    BY DEF Sound, Memories, Attempts
  <1>1. CASE ~CanFinish(m, k, a)
    BY <1>1, MovesNot DEF Finish
  <1>2. CASE CanFinish(m, k, a) /\ IsOver(m, k)
    BY <1>2, ReleaseDecodeMoves DEF Finish
  <1>3. CASE CanFinish(m, k, a) /\ ~IsOver(m, k) /\ m.job[k].vad
    <2>1. n = Consume(m, k, a)
      BY <1>3 DEF Finish
    <2> HIDE DEF a
    <2>2. QED BY <2>1, <1>0, <1>3, ConsumeMoves
  <1>4. CASE CanFinish(m, k, a) /\ ~IsOver(m, k) /\ ~m.job[k].vad
    <2>1. PICK p \in ReleaseAdmission(m, k, a, TRUE) :
             n = IF CanFinish(p, k, a) /\ p.job[k].state = "decoding"
                 THEN FinishSlabs(Retire(p, k, a), k, a = d) ELSE Retire(p, k, a)
      BY <1>4 DEF Finish
    <2> HIDE DEF a
    <2>2. Moves(m, p, k)
      BY <2>1, ReleaseMoves
    <2>3. Sound(p) /\ Moves(p, Retire(p, k, a), k)
      BY <2>2, RetireMoves DEF Moves
    <2>4. Moves(m, Retire(p, k, a), k)
      BY <2>2, <2>3, MovesTwice
    <2>5. ASSUME p.job[k].state = "decoding"
          PROVE  Moves(m, FinishSlabs(Retire(p, k, a), k, a = d), k)
      <3> DEFINE r == Retire(p, k, a)
                 own == a = d
      <3>1. r.job = p.job
        BY <2>3, RetireIs DEF Sound
      <3>2. Sound(r) /\ k \in Known(r) /\ r.job[k].state # "cancelled"
        BY <2>3, <2>5, <3>1 DEF Moves, Known
      <3> HIDE DEF r
      <3>3. own \in BOOLEAN
        OBVIOUS
      <3> HIDE DEF own
      <3>4. Moves(r, FinishSlabs(r, k, own), k)
        BY <3>2, <3>3, FinishSlabsMoves
      <3>5. Moves(m, r, k)
        BY <2>4 DEF r
      <3>6. Moves(m, FinishSlabs(r, k, own), k)
        BY <3>4, <3>5, MovesTwice
      <3>7. QED BY <3>6 DEF r, own
    <2>6. QED BY <2>1, <2>4, <2>5
  <1>5. QED BY <1>1, <1>2, <1>3, <1>4

(* The next window moves its job.                                          *)
LEMMA NextWindowMoves ==
    ASSUME NEW m, NEW k \in Jobs, NEW a \in Nat, Sound(m), build \in Nat, k \in Known(m),
           a <= m.made[k], NEW n, n \in NextWindow(m, k, a)
    PROVE  Moves(m, n, k)
  <1>1. \/ \E ready \in BOOLEAN : n \in ConsumeEnds(m, k, a, ready)
        \/ n = Await(m, Thread("window", k, a))
    BY DEF NextWindow
  <1>2. "window" \in Points \ {"created"}
    BY DEF Points, Windowing
  <1>3. Moves(m, Await(m, Thread("window", k, a)), k)
    BY <1>2, ThreadMoves
  <1>4. QED BY <1>1, <1>3, ConsumeEndsMoves

-----------------------------------------------------------------------------
(* The tail.                                                               *)

(* A tail that awaits moves its job.                                       *)
LEMMA TailAwaitMoves ==
    ASSUME NEW m, NEW at \in Points \ {"created"}, NEW k \in Jobs, Sound(m), k \in Known(m)
    PROVE  Moves(m, TailAwait(m, at, k), k)
  <1>1. 0 \in Nat /\ 0 <= m.made[k]
    BY DEF Sound, Memories
  <1>2. QED BY <1>1, ThreadMoves DEF TailAwait

(* A tail that saves a new state moves its job.                            *)
LEMMA TailSaveMoves ==
    ASSUME NEW m, NEW at \in Points \ {"created"}, NEW k \in Jobs,
           NEW s \in JobStates \ {"absent", "cancelled", "failed"},
           Sound(m), k \in Known(m), m.job[k].state # "cancelled"
    PROVE  Moves(m, TailSave(m, at, k, s), k)
  <1> DEFINE d == [m EXCEPT !.job[k].state = s]
  <1>1. Moves(m, d, k)
    BY StateMoves
  <1>2. Sound(d) /\ k \in Known(d) /\ d.made[k] \in Nat
    <2>1. Sound(d) /\ k \in Known(d)
      BY <1>1 DEF Moves, Keeps
    <2> HIDE DEF d
    <2>2. QED BY <2>1 DEF Sound, Memories
  <1>3. TailSave(m, at, k, s) = Save(d, Thread(at, k, 0))
    BY DEF TailSave
  <1> HIDE DEF d
  <1>4. 0 \in Nat /\ 0 <= d.made[k]
    BY <1>2
  <1>5. Moves(d, Save(d, Thread(at, k, 0)), k)
    BY <1>2, <1>4, ThreadMoves
  <1>6. QED BY <1>1, <1>3, <1>5, MovesTwice

(* A tail that looks whether it was cancelled moves its job.               *)
LEMMA UnlessMoves ==
    ASSUME NEW m, NEW k \in Jobs, NEW n, Sound(m), k \in Known(m),
           m.job[k].state # "cancelled" => Moves(m, n, k)
    PROVE  Moves(m, UnlessCancelled(m, k, n), k)
  <1>1. "abandoning" \in Points \ {"created"}
    BY DEF Points, Tailing
  <1>2. Moves(m, TailAwait(m, "abandoning", k), k)
    BY <1>1, TailAwaitMoves
  <1>3. QED BY <1>2 DEF UnlessCancelled

-----------------------------------------------------------------------------
(* The queue and the lists.                                                *)

(* Putting a job in the queue.                                             *)
LEMMA QueueIs ==
    ASSUME NEW m, NEW k \in Jobs, Sound(m)
    PROVE  LET n == Queue(m, k) IN
           /\ Moves(m, n, k) /\ Queued(n, k)
           /\ \A j \in Jobs \ {k} : Queued(n, j) <=> Queued(m, j)
           /\ n.job = m.job /\ n.pcm = m.pcm /\ n.slot = m.slot
           /\ n.consumer = m.consumer /\ n.att = m.att /\ n.made = m.made
           /\ n.decoder = m.decoder /\ n.batch = m.batch /\ n.boot = m.boot
           /\ n.threads = m.threads
  <1> DEFINE n == Queue(m, k)
  <1>0. m \in Memories /\ m.queue \in Seq(Jobs) /\ IsInjective(m.queue)
    BY DEF Sound, Memories
  <1>1. CASE Contains(m.queue, k)
    <2>1. n = m
      BY <1>1 DEF Queue
    <2>2. QED BY <2>1, <1>1, MovesNot DEF Queued
  <1>2. CASE ~Contains(m.queue, k)
    <2> DEFINE q == Append(m.queue, k)
               d == [m EXCEPT !.queue = q]
    <2>1. n = d
      BY <1>2 DEF Queue
    <2>2. /\ q \in Seq(Jobs) /\ IsInjective(q)
          /\ \A j \in Jobs : Contains(q, j) <=> Contains(m.queue, j) \/ j = k
      BY <1>0, <1>2, AppendToQueue
    <2> HIDE DEF q
    <2>3. /\ d \in Memories /\ d.queue = q
          /\ d.job = m.job /\ d.pcm = m.pcm /\ d.slot = m.slot /\ d.active = m.active
          /\ d.consumer = m.consumer /\ d.att = m.att /\ d.made = m.made
          /\ d.decoder = m.decoder /\ d.batch = m.batch /\ d.boot = m.boot
          /\ d.lows = m.lows /\ d.threads = m.threads
      BY <1>0, <2>2 DEF Memories
    <2> HIDE DEF d, n
    <2>4. Sound(d)
      BY <2>2, <2>3 DEF Sound, Allowed, Known
    <2>5. \A j \in Jobs : m.made[j] <= d.made[j]
      BY <2>3 DEF Memories
    <2>6. Keeps(m, d)
      BY <2>3, <2>5 DEF Keeps, Adders, Known
    <2>7. ASSUME NEW j \in Jobs \ {k}, Fine(m, j) PROVE Fine(d, j)
      <3>1. Same(m, d, j)
        BY <2>2, <2>3 DEF Same, Mine, Queued
      <3>2. QED BY <3>1, <2>7, SameIsFine
    <2>8. Moves(m, d, k)
      <3>1. ASSUME NEW j \in Jobs \ {k}, Rests(m, j) PROVE Rests(d, j)
        BY <2>2, <2>3, <3>1 DEF Rests, Queued
      <3>2. QED BY <2>4, <2>6, <2>7, <3>1 DEF Moves
    <2>9. Queued(d, k) /\ \A j \in Jobs \ {k} : Queued(d, j) <=> Queued(m, j)
      BY <2>2, <2>3 DEF Queued
    <2>10. QED BY <2>1, <2>3, <2>8, <2>9 DEF n
  <1>3. QED BY <1>1, <1>2

(* A memory that differs in its lists and counters only.                   *)
LEMMA ListsAre ==
    ASSUME NEW m, Sound(m), NEW n \in Memories,
           n.job = m.job, n.queue = m.queue, n.pcm = m.pcm, n.slot = m.slot,
           n.consumer = m.consumer, n.att = m.att, n.made = m.made,
           n.decoder = m.decoder, n.threads = m.threads
    PROVE  /\ Sound(n) /\ Known(n) = Known(m)
           /\ \A j \in Jobs : Fine(m, j) => Fine(n, j)
  <1>1. Sound(n) /\ Known(n) = Known(m)
    BY DEF Sound, Allowed, Known
  <1>2. ASSUME NEW j \in Jobs, Fine(m, j) PROVE Fine(n, j)
    <2>1. Same(m, n, j)
      BY DEF Same, Mine, Queued
    <2>2. QED BY <2>1, <1>2, SameIsFine
  <1>3. QED BY <1>1, <1>2

(* Setting a job, also one that was unknown or that was cancelled.         *)
LEMMA JobIs ==
    ASSUME NEW m, Sound(m), NEW k \in Jobs, NEW r \in JobRecords, r.state # "absent",
           Allowed(m, k) => r.state \notin {"cancelled", "failed"}
    PROVE  LET n == [m EXCEPT !.job[k] = r] IN
           /\ Sound(n) /\ Known(n) = Known(m) \cup {k} /\ n.job[k] = r
           /\ Apart(m, n, k)
           /\ \A j \in Jobs \ {k} : Fine(m, j) => Fine(n, j)
           /\ n.queue = m.queue /\ n.pcm = m.pcm /\ n.slot = m.slot /\ n.active = m.active
           /\ n.consumer = m.consumer /\ n.att = m.att /\ n.made = m.made
           /\ n.decoder = m.decoder /\ n.threads = m.threads
           /\ n.batch = m.batch /\ n.boot = m.boot
  <1> DEFINE n == [m EXCEPT !.job[k] = r]
  <1>1. /\ n \in Memories /\ Apart(m, n, k) /\ n.job[k] = r
        /\ n.queue = m.queue /\ n.pcm = m.pcm /\ n.slot = m.slot /\ n.active = m.active
        /\ n.consumer = m.consumer /\ n.att = m.att /\ n.made = m.made
        /\ n.decoder = m.decoder /\ n.threads = m.threads
    BY JobSet DEF Sound
  <1> HIDE DEF n
  <1>2. n.batch = m.batch /\ n.boot = m.boot /\ \A j \in Jobs \ {k} : n.job[j] = m.job[j]
    BY <1>1 DEF Apart
  <1>3. Known(n) = Known(m) \cup {k}
    <2>1. ASSUME NEW j \in Jobs PROVE j \in Known(n) <=> j \in Known(m) \cup {k}
      <3>1. CASE j = k
        BY <3>1, <1>1 DEF Known
      <3>2. CASE j # k
        BY <3>2, <1>2 DEF Known
      <3>3. QED BY <3>1, <3>2
    <2>2. QED BY <2>1 DEF Known
  <1>5. \A j \in Jobs : Allowed(n, j) <=> Allowed(m, j)
    BY <1>1 DEF Allowed
  <1>6. Sound(n)
    <2>1. ASSUME NEW j \in Jobs, Allowed(n, j)
          PROVE n.job[j].state \notin {"absent", "cancelled", "failed"} /\ n.att[j].id > 0
      <3>1. m.att[j].id > 0 /\ m.job[j].state \notin {"absent", "cancelled", "failed"}
        BY <1>5, <2>1 DEF Sound
      <3>2. CASE j = k
        BY <3>1, <3>2, <1>1, <1>5, <2>1
      <3>3. CASE j # k
        BY <3>1, <3>3, <1>1, <1>2
      <3>4. QED BY <3>2, <3>3
    <2>2. QED BY <2>1, <1>1, <1>3 DEF Sound
  <1>7. ASSUME NEW j \in Jobs \ {k}, Fine(m, j) PROVE Fine(n, j)
    <2>1. Same(m, n, j)
      BY <1>1 DEF Same, Apart, Queued
    <2>2. QED BY <2>1, <1>7, SameIsFine
  <1>8. QED BY <1>1, <1>2, <1>3, <1>6, <1>7 DEF n

(* recover() going on to the next of its list moves no job.                *)
LEMMA BootGoesOnMoves ==
    ASSUME NEW m, NEW k \in Jobs, Sound(m), build \in Nat, NEW n, n \in BootGoesOn(m)
    PROVE  Moves(m, n, k)
  <1>1. n \in Pumped(m) \/ n = m
    BY DEF BootGoesOn
  <1>2. QED BY <1>1, PumpMoves, MovesNot

-----------------------------------------------------------------------------
(* The rules of memory hold of every memory the manager ever has.          *)

Orderly == TypeOK /\ Sound(mem) /\ Orders

(* Moves, of a step that may begin or end with a thread that adds.         *)
Turns(m, n, k) ==
    /\ Sound(n) /\ n.batch = m.batch /\ n.boot = m.boot /\ Known(n) = Known(m)
    /\ \A j \in Jobs : m.job[j].state = "cancelled" => n.job[j].state = "cancelled"
    /\ \A j \in Jobs \ {k} : Fine(m, j) => Fine(n, j)
    /\ \A j \in Jobs \ {k} : Rests(m, j) => Rests(n, j)

(* And of one that does not.                                               *)
Shifts(m, n, k) == Turns(m, n, k) /\ Adders(n) = Adders(m)

(* A move is a shift.                                                      *)
LEMMA MovesShifts ==
    ASSUME NEW m, NEW n, NEW k, Moves(m, n, k)
    PROVE  Shifts(m, n, k)
  BY DEF Moves, Keeps, Shifts, Turns

(* Two turns for the same job are a turn.                                  *)
LEMMA TurnsTwice ==
    ASSUME NEW m, NEW n, NEW p, NEW k, Turns(m, n, k), Turns(n, p, k)
    PROVE  Turns(m, p, k)
  BY DEF Turns

(* A turn and then a move are a turn.                                      *)
LEMMA TurnsThenMoves ==
    ASSUME NEW m, NEW n, NEW p, NEW k, Turns(m, n, k), Moves(n, p, k)
    PROVE  Turns(m, p, k)
  BY DEF Turns, Moves, Keeps

(* A shift and then a move are a shift.                                    *)
LEMMA ShiftsThenMoves ==
    ASSUME NEW m, NEW n, NEW p, NEW k, Shifts(m, n, k), Moves(n, p, k)
    PROVE  Shifts(m, p, k)
  BY TurnsThenMoves DEF Shifts, Moves, Keeps

(* The threads that add nothing to the queue.                              *)
Plain(t) == t.at # "created" /\ t.at \notin Booting

(* A thread that has woken is that of a known job, and the rest of memory  *)
(* is what it was.                                                         *)
LEMMA WokenIs ==
    ASSUME Sound(mem), NEW t \in mem.threads
    PROVE  LET n == Woken(t) IN
           /\ t \in Threads /\ t.job \in Jobs /\ t.att \in Nat /\ t.seq \in Nat
           /\ t.rec \in JobRecords \cup {None}
           /\ t.job \in Known(mem) /\ t.att <= mem.made[t.job]
           /\ n \in Memories /\ Sound(n) /\ t.job \in Known(n) /\ t.att <= n.made[t.job]
           /\ Turns(mem, n, t.job) /\ Apart(mem, n, t.job)
           /\ n.threads = mem.threads \ {t}
           /\ n.job = mem.job /\ n.queue = mem.queue /\ n.pcm = mem.pcm /\ n.slot = mem.slot
           /\ n.consumer = mem.consumer /\ n.att = mem.att
           /\ n.made = mem.made /\ n.decoder = mem.decoder
           /\ n.batch = mem.batch /\ n.boot = mem.boot
           /\ Plain(t) => Moves(mem, n, t.job) /\ Shifts(mem, n, t.job)
  <1> DEFINE n == Without1(mem, t)
  <1>0. Woken(t) = n
    BY DEF Woken, Without1
  <1>1. mem \in Memories /\ t \in Threads
    BY DEF Sound, Memories
  <1>2. /\ t.job \in Jobs /\ t.att \in Nat /\ t.seq \in Nat
        /\ t.rec \in JobRecords \cup {None}
    BY <1>1 DEF Threads
  <1>3. t.job \in Known(mem) /\ t.att <= mem.made[t.job] /\ (t.then = "boot" => t.at \in Booting)
    BY DEF Sound
  <1>4. /\ n \in Memories /\ Apart(mem, n, t.job) /\ n.threads = mem.threads \ {t}
        /\ n.queue = mem.queue /\ n.pcm = mem.pcm /\ n.decoder = mem.decoder
        /\ n.slot = mem.slot /\ n.job = mem.job /\ n.made = mem.made
        /\ n.att = mem.att /\ n.consumer = mem.consumer
        /\ n.batch = mem.batch /\ n.boot = mem.boot
    BY <1>1, GoIs
  <1>5. Plain(t) => Moves(mem, n, t.job)
    BY <1>3, GoMoves DEF Adders, Plain
  <1> HIDE DEF n
  <1>6. Known(n) = Known(mem)
    BY <1>4 DEF Known
  <1>7. Sound(n)
    BY <1>4, <1>6 DEF Sound, Allowed
  <1>8. ASSUME NEW j \in Jobs \ {t.job}, Fine(mem, j) PROVE Fine(n, j)
    <2>1. Same(mem, n, j)
      BY <1>4 DEF Same, Apart, Queued
    <2>2. QED BY <2>1, <1>8, SameIsFine
  <1>9. Turns(mem, n, t.job) /\ (Plain(t) => Shifts(mem, n, t.job))
    <2>1. \A j \in Jobs : Rests(mem, j) => Rests(n, j)
      BY <1>4 DEF Rests, Queued
    <2>2. QED BY <1>4, <1>5, <1>6, <1>7, <1>8, <2>1, MovesShifts DEF Turns
  <1>10. t.job \in Known(n) /\ t.att <= n.made[t.job]
    BY <1>3, <1>4, <1>6
  <1>11. QED BY <1>0, <1>1, <1>2, <1>3, <1>4, <1>5, <1>7, <1>9, <1>10

(* What a step of the manager does to the rest of the world.               *)
Outside ==
    /\ \/ disk' = disk
       \/ \E j \in Known(mem), r \in JobRecords \cup {None} : disk' = [disk EXCEPT ![j] = r]
    /\ files' \in [Jobs -> Int]
    /\ started' = started /\ build' = build /\ upsets' \in Nat /\ crashes' = crashes
    /\ {cut', raced', stranded', misfired'} \subseteq SUBSET Jobs

(* A step that leaves the lists alone keeps them in order.                 *)
LEMMA OrderlyStep ==
    ASSUME Orderly, Outside, Sound(mem'), mem'.batch = mem.batch, mem'.boot = mem.boot,
           Known(mem') = Known(mem)
    PROVE  Orderly'
  <1>1. mem' \in Memories
    BY DEF Sound
  <1>2. /\ disk' \in [Jobs -> JobRecords \cup {None}]
        /\ \A j \in Jobs \ Known(mem) : disk'[j] = disk[j]
    <2>1. disk \in [Jobs -> JobRecords \cup {None}] /\ Known(mem) \subseteq Jobs
      BY DEF Orderly, TypeOK, Known
    <2>2. QED BY <2>1 DEF Outside
  <1>3. TypeOK'
    BY <1>1, <1>2 DEF Orderly, TypeOK, Outside
  <1>4. Orders'
    <2>1. /\ started' \subseteq Jobs /\ Known(mem') \subseteq started' /\ Known(mem) \subseteq Jobs
      BY DEF Orderly, Orders, Outside
    <2>2. ASSUME NEW j \in Jobs, disk'[j] # None PROVE j \in started'
      <3>1. CASE j \in Known(mem)
        BY <3>1, <2>1
      <3>2. CASE j \notin Known(mem)
        BY <3>2, <2>2, <1>2 DEF Orderly, Orders, Outside
      <3>3. QED BY <3>1, <3>2
    <2>3. /\ IsInjective(mem'.boot) /\ IsInjective(mem'.batch)
          /\ Range(mem'.boot) \cap Range(mem'.batch) = {}
      BY DEF Orderly, Orders
    <2>4. ASSUME NEW j \in Range(mem'.boot)
          PROVE  j \in started' /\ j \notin Known(mem') /\ disk'[j] # None
      <3>1. j \in started /\ j \notin Known(mem) /\ disk[j] # None
        BY <2>4 DEF Orderly, Orders
      <3>2. j \in Jobs
        BY <3>1, <2>1 DEF Outside
      <3>3. QED BY <3>1, <3>2, <1>2 DEF Outside
    <2>5. ASSUME NEW j \in Range(mem'.batch) PROVE j \in started' /\ j \notin Known(mem')
      BY <2>5 DEF Orderly, Orders, Outside
    <2>6. QED BY <2>1, <2>2, <2>3, <2>4, <2>5 DEF Orders
  <1>5. QED BY <1>3, <1>4 DEF Orderly

(* A step of job k within the rules.                                       *)
Steps(k) == Orderly' /\ Shifts(mem, mem', k)

(* A step whose stretch is a shift does what a step may do.                *)
LEMMA StepIs ==
    ASSUME Orderly, Outside, NEW k, Shifts(mem, mem', k)
    PROVE  Steps(k)
  BY OrderlyStep DEF Shifts, Turns, Steps

(* And with a turn.                                                        *)
Turned(k) == Orderly' /\ Turns(mem, mem', k)

(* A stretch that turns leaves the lists in order.                         *)
LEMMA TurnIs ==
    ASSUME Orderly, Outside, NEW k, Turns(mem, mem', k)
    PROVE  Turned(k)
  BY OrderlyStep DEF Turns, Turned

(* The two writes that threads make.                                       *)
LEMMA LandedIs ==
    ASSUME Orderly, NEW t \in mem.threads, Landed(t) \/ Unlinked(t) \/ disk' = disk,
           files' \in [Jobs -> Int], started' = started, build' = build, upsets' \in Nat,
           crashes' = crashes, {cut', raced', stranded', misfired'} \subseteq SUBSET Jobs
    PROVE  Outside
  <1>1. t.rec \in JobRecords \cup {None} /\ t.job \in Known(mem)
    BY WokenIs DEF Orderly
  <1>2. QED BY <1>1 DEF Outside, Landed, Unlinked

(* A step that writes at most the record of its thread is in order         *)
(* outside the memory.                                                     *)
LEMMA Unchanging ==
    ASSUME Orderly, NEW t \in mem.threads, Landed(t) \/ Unlinked(t) \/ disk' = disk,
           UNCHANGED <<files, build, bounds, history>>
    PROVE  Outside
  <1>1. /\ files' \in [Jobs -> Int] /\ started' = started /\ build' = build /\ upsets' \in Nat
        /\ crashes' = crashes /\ {cut', raced', stranded', misfired'} \subseteq SUBSET Jobs
    BY DEF Orderly, TypeOK, bounds, history
  <1>2. QED BY <1>1, LandedIs

(* And so is one that drops its checkpoint, or fails to.                   *)
LEMMA Unlinking ==
    ASSUME Orderly, NEW t \in mem.threads, Unlinked(t),
           UNCHANGED <<files, build, started, crashes, history>>
    PROVE  Outside
  <1>1. /\ files' \in [Jobs -> Int] /\ started' = started /\ build' = build /\ crashes' = crashes
        /\ {cut', raced', stranded', misfired'} \subseteq SUBSET Jobs
    BY DEF Orderly, TypeOK, history
  <1>2. upsets' \in Nat
    BY DEF Unlinked, Upset, Orderly, TypeOK
  <1>3. QED BY <1>1, <1>2, LandedIs

(* What AfterFail and the like get from a step before them.                *)
LEMMA StageIs ==
    ASSUME NEW m, NEW t \in Threads, Sound(m), t.job \in Known(m), t.att <= m.made[t.job],
           NEW n, Moves(m, n, t.job)
    PROVE  Sound(n) /\ t.job \in Known(n) /\ t.att <= n.made[t.job]
  <1>1. t.job \in Jobs /\ t.att \in Nat
    BY DEF Threads
  <1>2. QED BY <1>1, MovesKeeps

(* The save of a failed job.                                               *)
LEMMA FailSavedSteps ==
    ASSUME Orderly, NEW t \in mem.threads, FailSaved(t)
    PROVE  Steps(t.job)
  <1> DEFINE k == t.job
             w == Woken(t)
             d == [w EXCEPT !.pcm[k] = 0]
  <1>0. Plain(t)
    BY DEF FailSaved, Plain, Booting
  <1>1. t \in Threads /\ k \in Jobs /\ Sound(w) /\ k \in Known(w) /\ t.att <= w.made[k]
        /\ Shifts(mem, w, k) /\ build \in Nat
    BY <1>0, WokenIs DEF Orderly, TypeOK
  <1>2. PICK m \in ReleaseDecode(d, k) :
          \E n \in Idle(IF k \notin m.slot \cup m.consumer THEN Retire(m, k, t.att) ELSE m, k) :
             mem' \in AfterFail(n, t)
    BY DEF FailSaved
  <1> DEFINE r == IF k \notin m.slot \cup m.consumer THEN Retire(m, k, t.att) ELSE m
  <1>3. PICK n \in Idle(r, k) : mem' \in AfterFail(n, t)
    BY <1>2
  <1> HIDE DEF w
  <1>4. Moves(w, d, k)
    BY <1>1, PcmMoves
  <1>5. Sound(d) /\ k \in Known(d) /\ t.att <= d.made[k]
    BY <1>1, <1>4, StageIs
  <1> HIDE DEF d
  <1>6. Moves(d, m, k)
    BY <1>1, <1>2, <1>5, ReleaseDecodeMoves
  <1>7. Sound(m) /\ k \in Known(m) /\ t.att <= m.made[k]
    BY <1>1, <1>5, <1>6, StageIs
  <1>8. Moves(m, r, k)
    BY <1>1, <1>7, RetireMoves, MovesNot
  <1>9. Sound(r) /\ k \in Known(r) /\ t.att <= r.made[k]
    BY <1>1, <1>7, <1>8, StageIs
  <1> HIDE DEF r
  <1>10. Moves(r, n, k)
    BY <1>1, <1>3, <1>9, IdleMoves
  <1>11. Sound(n) /\ k \in Known(n) /\ t.att <= n.made[k]
    BY <1>1, <1>9, <1>10, StageIs
  <1>12. Moves(n, mem', k)
    BY <1>1, <1>3, <1>11, AfterFailMoves
  <1>13. Shifts(mem, mem', k)
    <2>1. Shifts(mem, d, k)
      BY <1>1, <1>4, ShiftsThenMoves
    <2>2. Shifts(mem, m, k)
      BY <1>6, <2>1, ShiftsThenMoves
    <2>3. Shifts(mem, r, k)
      BY <1>8, <2>2, ShiftsThenMoves
    <2>4. Shifts(mem, n, k)
      BY <1>10, <2>3, ShiftsThenMoves
    <2>5. QED BY <1>12, <2>4, ShiftsThenMoves
  <1>14. Outside
    BY Unchanging DEF FailSaved
  <1>15. QED BY <1>13, <1>14, StepIs

(* The save of a claimed job, and its admission.                           *)
LEMMA ClaimSavedSteps ==
    ASSUME Orderly, NEW t \in mem.threads, ClaimSaved(t)
    PROVE  Steps(t.job)
  <1> DEFINE w == Woken(t)
  <1>0. Plain(t)
    BY DEF ClaimSaved, Plain, Booting
  <1>1. /\ t \in Threads /\ t.job \in Jobs /\ t.att \in Nat /\ Sound(w) /\ t.job \in Known(w)
        /\ t.att <= w.made[t.job] /\ Shifts(mem, w, t.job) /\ build \in Nat
    BY <1>0, WokenIs DEF Orderly, TypeOK
  <1>2. mem' = Await(w, Thread("policy", t.job, t.att)) \/ mem' \in Pumped(w)
    BY DEF ClaimSaved
  <1> HIDE DEF w
  <1>3. "policy" \in Points \ {"created"}
    BY DEF Points, Starting
  <1>4. Moves(w, mem', t.job)
    BY <1>1, <1>2, <1>3, ThreadMoves, PumpMoves
  <1>5. Shifts(mem, mem', t.job)
    BY <1>1, <1>4, ShiftsThenMoves
  <1>6. Outside
    BY Unchanging DEF ClaimSaved
  <1>7. QED BY <1>5, <1>6, StepIs

(* An admission that throws.                                               *)
LEMMA AdmissionThrowsSteps ==
    ASSUME Orderly, NEW t \in mem.threads, AdmissionThrows(t)
    PROVE  Steps(t.job)
  <1> DEFINE w == Woken(t)
  <1>0. Plain(t)
    BY DEF AdmissionThrows, Plain, Booting
  <1>1. /\ t \in Threads /\ t.job \in Jobs /\ t.att \in Nat /\ Sound(w) /\ t.job \in Known(w)
        /\ Shifts(mem, w, t.job) /\ build \in Nat /\ w.job = mem.job
    BY <1>0, WokenIs DEF Orderly, TypeOK
  <1>2. \/ mem' = Fail(w, t.job, "other", "none") /\ mem.job[t.job].state # "cancelled"
        \/ mem' \in Pumped(w)
    BY DEF AdmissionThrows
  <1> HIDE DEF w
  <1>3. ASSUME mem' = Fail(w, t.job, "other", "none"), mem.job[t.job].state # "cancelled"
        PROVE  Shifts(mem, mem', t.job)
    <2>1. Moves(w, mem', t.job)
      BY <1>1, <1>3, FailMoves DEF Errors, Awaiters
    <2>2. QED BY <1>1, <2>1, ShiftsThenMoves
  <1>4. Shifts(mem, mem', t.job)
    BY <1>1, <1>2, <1>3, PumpMoves, ShiftsThenMoves
  <1>5. misfired' \in SUBSET Jobs /\ UNCHANGED <<disk, files, build, bounds, cut, raced, stranded>>
    BY <1>1 DEF AdmissionThrows, Orderly, TypeOK
  <1>6. Outside
    BY <1>5 DEF Outside, Orderly, TypeOK, bounds
  <1>7. QED BY <1>4, <1>6, StepIs

(* The saves of the work on a chunk.                                       *)
LEMMA ChunkSavedSteps ==
    ASSUME Orderly, NEW t \in mem.threads, ChunkSaved(t)
    PROVE  Steps(t.job)
  <1> DEFINE w == Woken(t)
             k == t.job
             e == [w EXCEPT !.pcm[k] = 0]
             m == IF t.at = "overflow" /\ Accepts(mem, k, t.att) THEN e ELSE w
  <1>0. Plain(t)
    BY DEF ChunkSaved, Plain, Booting
  <1>1. /\ t \in Threads /\ k \in Jobs /\ t.att \in Nat /\ t.seq \in Nat /\ Sound(w) /\ k \in Known(w)
        /\ t.att <= w.made[k] /\ Shifts(mem, w, k) /\ build \in Nat
    BY <1>0, WokenIs DEF Orderly, TypeOK
  <1>2. \/ mem' \in ChunkReturns(m, k, t.att)
        \/ mem' = Await(m, ChunkAt("slab", k, t.att, t.seq))
        \/ mem' = NextSlab(m, k, t.att, t.seq) /\ Accepts(m, k, t.att)
    BY DEF ChunkSaved
  <1> HIDE DEF w
  <1>3. Moves(w, e, k)
    BY <1>1, PcmMoves
  <1>4. Moves(w, m, k)
    BY <1>1, <1>3, MovesNot
  <1>5. Sound(m) /\ k \in Known(m) /\ t.att <= m.made[k]
    BY <1>1, <1>4, StageIs
  <1> HIDE DEF m
  <1>6. "slab" \in Points \ {"created"}
    BY DEF Points, Chunking
  <1>7. ASSUME mem' \in ChunkReturns(m, k, t.att)
        PROVE  Moves(m, mem', k)
    BY <1>1, <1>5, <1>7, ChunkReturnsMoves
  <1>8. ASSUME mem' = Await(m, ChunkAt("slab", k, t.att, t.seq))
        PROVE  Moves(m, mem', k)
    BY <1>1, <1>5, <1>6, <1>8, ChunkAtMoves
  <1>9. ASSUME mem' = NextSlab(m, k, t.att, t.seq), Accepts(m, k, t.att)
        PROVE  Moves(m, mem', k)
    BY <1>1, <1>5, <1>9, NextSlabMoves
  <1>10. ASSUME Moves(m, mem', k) PROVE Shifts(mem, mem', k)
    BY <1>1, <1>4, <1>10, ShiftsThenMoves
  <1>11. Outside
    BY Unchanging DEF ChunkSaved
  <1>12. QED BY <1>2, <1>7, <1>8, <1>9, <1>10, <1>11, StepIs

(* A thread that has transcribed a unit.                                   *)
LEMMA HeardMoves ==
    ASSUME NEW m, NEW t \in Threads, NEW at \in Points \ {"created"}, Sound(m), build \in Nat,
           t.job \in Known(m), t.att <= m.made[t.job], t.then # "boot"
    PROVE  Moves(m, Save(Line(m, t.job), [t EXCEPT !.at = at]), t.job)
  <1> DEFINE l == Line(m, t.job)
             u == [t EXCEPT !.at = at]
  <1>1. Moves(m, l, t.job)
    BY LineIs DEF Threads
  <1>2. Sound(l) /\ t.job \in Known(l) /\ t.att <= l.made[t.job]
    BY <1>1, StageIs
  <1>3. u \in Threads /\ u.at = at /\ u.job = t.job /\ u.att = t.att /\ u.then = t.then
    BY DEF Threads
  <1> HIDE DEF l, u
  <1>4. Moves(l, Save(l, u), t.job)
    BY <1>2, <1>3, SaveMoves
  <1>5. Moves(m, Save(l, u), t.job)
    BY <1>1, <1>4, MovesTwice
  <1>6. QED BY <1>5 DEF l, u

(* What the steps of threads that add nothing to the queue have in common. *)
LEMMA ThreadSteps ==
    ASSUME Orderly, Outside, NEW t \in mem.threads,
           \E m : Shifts(mem, m, t.job) /\ Moves(m, mem', t.job)
    PROVE  Steps(t.job)
  BY ShiftsThenMoves, StepIs

(* A slab that was heard.                                                  *)
LEMMA SlabHeardSteps ==
    ASSUME Orderly, NEW t \in mem.threads, SlabHeard(t)
    PROVE  Steps(t.job)
  <1> DEFINE w == Woken(t)
  <1>0. Plain(t)
    BY DEF SlabHeard, Plain, Booting
  <1>1. /\ t \in Threads /\ t.job \in Jobs /\ Sound(w) /\ t.job \in Known(w)
        /\ t.att <= w.made[t.job] /\ Shifts(mem, w, t.job) /\ build \in Nat
    BY <1>0, WokenIs DEF Orderly, TypeOK
  <1>2. t.then # "boot"
    BY DEF SlabHeard, Orderly, Sound, Booting
  <1>3. \/ mem' = Save(Line(w, t.job), [t EXCEPT !.at = "heard"])
        \/ mem' \in ChunkReturns(w, t.job, t.att)
    BY DEF SlabHeard
  <1> HIDE DEF w
  <1>4. "heard" \in Points \ {"created"}
    BY DEF Points, Chunking
  <1>5. Moves(w, mem', t.job)
    BY <1>1, <1>2, <1>3, <1>4, HeardMoves, ChunkReturnsMoves
  <1>6. Outside
    BY Unchanging DEF SlabHeard
  <1>7. QED BY <1>1, <1>5, <1>6, ThreadSteps

(* A window that was heard.                                                *)
LEMMA WindowHeardSteps ==
    ASSUME Orderly, NEW t \in mem.threads, WindowHeard(t)
    PROVE  Steps(t.job)
  <1> DEFINE w == Woken(t)
  <1>0. Plain(t)
    BY DEF WindowHeard, Plain, Booting
  <1>1. /\ t \in Threads /\ t.job \in Jobs /\ t.att \in Nat /\ Sound(w) /\ t.job \in Known(w)
        /\ t.att <= w.made[t.job] /\ Shifts(mem, w, t.job) /\ build \in Nat
    BY <1>0, WokenIs DEF Orderly, TypeOK
  <1>2. t.then # "boot"
    BY DEF WindowHeard, Orderly, Sound, Booting
  <1>3. \/ mem' = Save(Line(w, t.job), [t EXCEPT !.at = "windows"])
        \/ mem' \in ConsumeEnds(w, t.job, t.att, FALSE)
    BY DEF WindowHeard
  <1> HIDE DEF w
  <1>4. "windows" \in Points \ {"created"}
    BY DEF Points, Windowing
  <1>5. Moves(w, mem', t.job)
    BY <1>1, <1>2, <1>3, <1>4, HeardMoves, ConsumeEndsMoves
  <1>6. Outside
    BY Unchanging DEF WindowHeard
  <1>7. QED BY <1>1, <1>5, <1>6, ThreadSteps

(* A slab whose transcription failed.                                      *)
LEMMA SlabNotHeardSteps ==
    ASSUME Orderly, NEW t \in mem.threads, SlabNotHeard(t)
    PROVE  Steps(t.job)
  <1> DEFINE w == Woken(t)
  <1>0. Plain(t)
    BY DEF SlabNotHeard, Plain, Booting
  <1>1. /\ t.job \in Jobs /\ t.att \in Nat /\ Sound(w) /\ t.job \in Known(w)
        /\ t.att <= w.made[t.job] /\ Shifts(mem, w, t.job) /\ build \in Nat
        /\ w.job = mem.job
    BY <1>0, WokenIs DEF Orderly, TypeOK
  <1>2. \/ mem' = Fail(w, t.job, "other", "chunk") /\ mem.job[t.job].state # "cancelled"
        \/ mem' \in ChunkReturns(w, t.job, t.att)
    BY DEF SlabNotHeard, Transcribe, IsOver, Terminal
  <1> HIDE DEF w
  <1>3. ASSUME mem' = Fail(w, t.job, "other", "chunk"), mem.job[t.job].state # "cancelled"
        PROVE  Moves(w, mem', t.job)
    BY <1>1, <1>3, FailMoves DEF Errors, Awaiters
  <1>4. Moves(w, mem', t.job)
    BY <1>1, <1>2, <1>3, ChunkReturnsMoves
  <1>5. Outside
    BY Unchanging DEF SlabNotHeard
  <1>6. QED BY <1>1, <1>4, <1>5, ThreadSteps

(* A window whose transcription failed.                                    *)
LEMMA WindowNotHeardSteps ==
    ASSUME Orderly, NEW t \in mem.threads, WindowNotHeard(t)
    PROVE  Steps(t.job)
  <1> DEFINE w == Woken(t)
  <1>0. Plain(t)
    BY DEF WindowNotHeard, Plain, Booting
  <1>1. /\ t.job \in Jobs /\ t.att \in Nat /\ Sound(w) /\ t.job \in Known(w)
        /\ t.att <= w.made[t.job] /\ Shifts(mem, w, t.job) /\ build \in Nat
        /\ w.job = mem.job
    BY <1>0, WokenIs DEF Orderly, TypeOK
  <1>2. \/ mem' = Fail(w, t.job, "other", "consume") /\ mem.job[t.job].state # "cancelled"
        \/ mem' \in ConsumeEnds(w, t.job, t.att, FALSE)
    BY DEF WindowNotHeard, Transcribe, IsOver, Terminal
  <1> HIDE DEF w
  <1>3. ASSUME mem' = Fail(w, t.job, "other", "consume"), mem.job[t.job].state # "cancelled"
        PROVE  Moves(w, mem', t.job)
    BY <1>1, <1>3, FailMoves DEF Errors, Awaiters
  <1>4. Moves(w, mem', t.job)
    BY <1>1, <1>2, <1>3, ConsumeEndsMoves
  <1>5. Outside
    BY Unchanging DEF WindowNotHeard
  <1>6. QED BY <1>1, <1>4, <1>5, ThreadSteps

(* The steps that are one stretch.                                         *)
LEMMA StretchSteps ==
    ASSUME Orderly, NEW t \in mem.threads,
           \/ ChunkThrew(t) \/ FinishDecoding(t) \/ WindowsSaved(t) \/ Consumed(t)
           \/ CheckpointRemoved(t)
    PROVE  Steps(t.job)
  <1> DEFINE w == Woken(t)
  <1>0. Plain(t)
    BY DEF ChunkThrew, FinishDecoding, WindowsSaved, Consumed, CheckpointRemoved, Plain, Booting
  <1>1. /\ t.job \in Jobs /\ t.att \in Nat /\ Sound(w) /\ t.job \in Known(w)
        /\ t.att <= w.made[t.job] /\ Shifts(mem, w, t.job) /\ build \in Nat
    BY <1>0, WokenIs DEF Orderly, TypeOK
  <1>2. \/ mem' = DecoderRejected(w, t.job, t.att) \/ mem' \in Finish(w, t.job, t.att)
        \/ mem' \in NextWindow(w, t.job, t.att) \/ mem' = ToTail(w, t.job, t.att)
        \/ mem' \in TailEnds(w, t.job)
    BY DEF ChunkThrew, FinishDecoding, WindowsSaved, Consumed, CheckpointRemoved
  <1> HIDE DEF w
  <1>3. Moves(w, mem', t.job)
    BY <1>1, <1>2, RejectedMoves, FinishMoves, NextWindowMoves, ToTailMoves, TailEndsMoves
  <1>4. Outside
    BY Unchanging, Unlinking DEF ChunkThrew, FinishDecoding, WindowsSaved, Consumed,
                                 CheckpointRemoved
  <1>5. QED BY <1>1, <1>3, <1>4, ThreadSteps

(* The save of a checkpoint.                                               *)
LEMMA CheckpointSavedSteps ==
    ASSUME Orderly, NEW t \in mem.threads, CheckpointSaved(t)
    PROVE  Steps(t.job)
  <1> DEFINE w == Woken(t)
             k == t.job
  <1>0. Plain(t)
    BY DEF CheckpointSaved, Plain, Booting
  <1>1. /\ k \in Jobs /\ Sound(w) /\ k \in Known(w) /\ Shifts(mem, w, k)
    BY <1>0, WokenIs DEF Orderly
  <1>2. \/ mem' = UnlessCancelled(w, k, TailSave(w, "recapping", k, "recapping"))
        \/ mem' = TailAwait(w, "recap", k) \/ mem' = TailAwait(w, "removing", k)
    BY DEF CheckpointSaved
  <1> HIDE DEF w
  <1>3. {"recap", "removing", "recapping"} \subseteq Points \ {"created"}
    BY DEF Points, Tailing
  <1>4. w.job[k].state # "cancelled" => Moves(w, TailSave(w, "recapping", k, "recapping"), k)
    BY <1>1, <1>3, TailSaveMoves DEF JobStates
  <1>5. Moves(w, UnlessCancelled(w, k, TailSave(w, "recapping", k, "recapping")), k)
    BY <1>1, <1>4, UnlessMoves
  <1>6. Moves(w, TailAwait(w, "recap", k), k) /\ Moves(w, TailAwait(w, "removing", k), k)
    BY <1>1, <1>3, TailAwaitMoves
  <1>7. Moves(w, mem', k)
    BY <1>2, <1>5, <1>6
  <1>8. Outside
    BY Unchanging DEF CheckpointSaved
  <1>9. QED BY <1>1, <1>7, <1>8, ThreadSteps

(* The recap and the ingestion of the tail.                                *)
LEMMA RecappedSteps ==
    ASSUME Orderly, NEW t \in mem.threads, Recapped(t) \/ Ingested(t)
    PROVE  Steps(t.job)
  <1> DEFINE w == Woken(t)
             k == t.job
  <1>0. Plain(t)
    BY DEF Recapped, Ingested, Plain, Booting
  <1>1. /\ k \in Jobs /\ Sound(w) /\ k \in Known(w) /\ Shifts(mem, w, k)
    BY <1>0, WokenIs DEF Orderly
  <1>2. \/ mem' = UnlessCancelled(w, k, TailAwait(w, "ingest", k))
        \/ mem' = UnlessCancelled(w, k, TailSave(w, "done", k, "done"))
    BY DEF Recapped, Ingested
  <1> HIDE DEF w
  <1>3. {"ingest", "done"} \subseteq Points \ {"created"}
    BY DEF Points, Tailing
  <1>4. w.job[k].state # "cancelled" => Moves(w, TailSave(w, "done", k, "done"), k)
    BY <1>1, <1>3, TailSaveMoves DEF JobStates
  <1>5. Moves(w, TailAwait(w, "ingest", k), k)
    BY <1>1, <1>3, TailAwaitMoves
  <1>6. Moves(w, mem', k)
    BY <1>1, <1>2, <1>4, <1>5, UnlessMoves
  <1>7. Outside
    BY Unchanging DEF Recapped, Ingested
  <1>8. QED BY <1>1, <1>6, <1>7, ThreadSteps

(* A job without its file is the same to everybody else.                   *)
LEMMA FileMoves ==
    ASSUME NEW m, NEW k \in Jobs, NEW b \in BOOLEAN, Sound(m), k \in Known(m)
    PROVE  LET n == [m EXCEPT !.job[k].file = b] IN
           /\ Moves(m, n, k) /\ n.job[k].state = m.job[k].state
  <1> DEFINE r == [m.job[k] EXCEPT !.file = b]
             n == [m EXCEPT !.job[k] = r]
  <1>1. m \in Memories /\ m.job[k] \in JobRecords /\ m.job[k].state # "absent"
    BY DEF Sound, Memories, Known
  <1>2. r \in JobRecords /\ r.state = m.job[k].state
    BY <1>1 DEF JobRecords
  <1> HIDE DEF r
  <1>3. Moves(m, n, k) /\ n.job[k] = r
    BY <1>1, <1>2, JobMoves, JobSet DEF Sound
  <1>4. QED BY <1>2, <1>3 DEF n, r

(* The meeting of a cancelled tail is deleted.                             *)
LEMMA FileDeletedSteps ==
    ASSUME Orderly, NEW t \in mem.threads, FileDeleted(t)
    PROVE  Steps(t.job)
  <1> DEFINE w == Woken(t)
  <1>0. Plain(t)
    BY DEF FileDeleted, Plain, Booting
  <1>1. t.job \in Jobs /\ Sound(w) /\ t.job \in Known(w) /\ Shifts(mem, w, t.job)
    BY <1>0, WokenIs DEF Orderly
  <1>2. mem' = TailAwait(w, "abandoned", t.job)
    BY DEF FileDeleted
  <1> HIDE DEF w
  <1>3. "abandoned" \in Points \ {"created"}
    BY DEF Points, Tailing
  <1>4. Moves(w, mem', t.job)
    BY <1>1, <1>2, <1>3, TailAwaitMoves
  <1>5. files' \in [Jobs -> Int]
    <2>1. /\ files \in [Jobs -> Int]
          /\ files' = files \/ files' = [files EXCEPT ![t.job] = files[t.job] - 1]
      BY DEF FileDeleted, Orderly, TypeOK
    <2>2. files[t.job] - 1 \in Int
      BY <1>1, <2>1
    <2>3. QED BY <2>1, <2>2
  <1>6. /\ started' = started /\ build' = build /\ disk' = disk
        /\ crashes' = crashes /\ {cut', raced', misfired'} \subseteq SUBSET Jobs
    BY DEF FileDeleted, Orderly, TypeOK
  <1>7. upsets' \in Nat
    BY DEF FileDeleted, Upset, Orderly, TypeOK
  <1>8. stranded' \in SUBSET Jobs
    BY <1>1 DEF FileDeleted, Strands, Orderly, TypeOK
  <1>9. Outside
    BY <1>5, <1>6, <1>7, <1>8, LandedIs
  <1>10. QED BY <1>1, <1>4, <1>9, ThreadSteps

(* The end of an abandoned tail.                                           *)
LEMMA AbandonedSteps ==
    ASSUME Orderly, NEW t \in mem.threads, Abandoned(t)
    PROVE  Steps(t.job)
  <1> DEFINE w == Woken(t)
             d == [w EXCEPT !.job[t.job].file = FALSE]
  <1>0. Plain(t)
    BY DEF Abandoned, Plain, Booting
  <1>1. /\ t.job \in Jobs /\ Sound(w) /\ t.job \in Known(w) /\ Shifts(mem, w, t.job)
        /\ build \in Nat
    BY <1>0, WokenIs DEF Orderly, TypeOK
  <1>2. mem' \in TailEnds(d, t.job)
    BY DEF Abandoned
  <1> HIDE DEF w
  <1>3. Moves(w, d, t.job)
    BY <1>1, FileMoves
  <1>4. Sound(d)
    BY <1>3 DEF Moves
  <1> HIDE DEF d
  <1>5. Moves(d, mem', t.job)
    BY <1>1, <1>2, <1>4, TailEndsMoves
  <1>6. Shifts(mem, d, t.job)
    BY <1>1, <1>3, ShiftsThenMoves
  <1>7. Outside
    BY Unlinking DEF Abandoned
  <1>8. QED BY <1>5, <1>6, <1>7, ThreadSteps

(* A tail that throws, or whose write fails.                               *)
LEMMA TailThrowsSteps ==
    ASSUME Orderly, NEW t \in mem.threads, TailThrows(t) \/ TailWriteFails(t)
    PROVE  Steps(t.job)
  <1> DEFINE w == Woken(t)
  <1>0. Plain(t)
    BY DEF TailThrows, TailWriteFails, Plain, Booting
  <1>1. /\ t.job \in Jobs /\ Sound(w) /\ t.job \in Known(w) /\ Shifts(mem, w, t.job)
        /\ build \in Nat
    BY <1>0, WokenIs DEF Orderly, TypeOK
  <1>2. mem' \in TailFails(w, t.job) \/ mem' \in TailEnds(w, t.job)
    BY DEF TailThrows, TailWriteFails
  <1> HIDE DEF w
  <1>3. Moves(w, mem', t.job)
    BY <1>1, <1>2, TailFailsMoves, TailEndsMoves
  <1>4. stranded' \in SUBSET Jobs
    BY <1>1 DEF TailThrows, TailWriteFails, Strands, Orderly, TypeOK
  <1>5. /\ disk' = disk /\ files' = files /\ started' = started /\ build' = build
        /\ crashes' = crashes /\ cut' = cut /\ raced' = raced /\ misfired' = misfired
    BY DEF TailThrows, TailWriteFails, bounds
  <1>6. upsets' \in Nat
    BY DEF TailThrows, TailWriteFails, bounds, Upset, Orderly, TypeOK
  <1>7. Outside
    BY <1>4, <1>5, <1>6 DEF Outside, Orderly, TypeOK
  <1>8. QED BY <1>1, <1>3, <1>7, ThreadSteps

(* A resumed job goes into the queue.                                      *)
LEMMA ResumeSavedSteps ==
    ASSUME Orderly, NEW t \in mem.threads, ResumeSaved(t)
    PROVE  Steps(t.job)
  <1> DEFINE w == Woken(t)
             q == Queue(w, t.job)
  <1>0. Plain(t)
    BY DEF ResumeSaved, Plain, Booting
  <1>1. /\ t.job \in Jobs /\ Sound(w) /\ t.job \in Known(w) /\ Shifts(mem, w, t.job)
        /\ build \in Nat
    BY <1>0, WokenIs DEF Orderly, TypeOK
  <1>2. mem' \in Pumped(q)
    BY DEF ResumeSaved
  <1> HIDE DEF w
  <1>3. Moves(w, q, t.job)
    BY <1>1, QueueIs
  <1> HIDE DEF q
  <1>4. Moves(w, mem', t.job)
    BY <1>1, <1>2, <1>3, PumpAfter
  <1>5. Outside
    BY Unchanging DEF ResumeSaved
  <1>6. QED BY <1>1, <1>4, <1>5, ThreadSteps

(* The writes of a cancel.                                                 *)
LEMMA CancelSavedSteps ==
    ASSUME Orderly, NEW t \in mem.threads, CancelSaved(t) \/ CancelRemoved(t)
    PROVE  Steps(t.job)
  <1> DEFINE w == Woken(t)
  <1>0. Plain(t)
    BY DEF CancelSaved, CancelRemoved, Plain, Booting
  <1>1. /\ t.job \in Jobs /\ t.att \in Nat /\ Sound(w) /\ t.job \in Known(w)
        /\ t.att <= w.made[t.job] /\ Shifts(mem, w, t.job)
    BY <1>0, WokenIs DEF Orderly
  <1>2. \/ mem' = Await(w, Thread("cancelled", t.job, t.att))
        \/ mem' = Await(w, Thread("closing", t.job, t.att))
    BY DEF CancelSaved, CancelRemoved
  <1> HIDE DEF w
  <1>3. {"cancelled", "closing"} \subseteq Points \ {"created"}
    BY DEF Points, Ending
  <1>4. Moves(w, mem', t.job)
    BY <1>1, <1>2, <1>3, ThreadMoves
  <1>5. Outside
    BY Unchanging, Unlinking DEF CancelSaved, CancelRemoved
  <1>6. QED BY <1>1, <1>4, <1>5, ThreadSteps

(* The end of a cancel.                                                    *)
LEMMA CancelEndsSteps ==
    ASSUME Orderly, NEW t \in mem.threads, CancelEnds(t)
    PROVE  Steps(t.job)
  <1> DEFINE k == t.job
             w == Woken(t)
             d == [w EXCEPT !.decoder[k] = NoDecoder]
             e == [d EXCEPT !.pcm[k] = 0]
  <1>0. Plain(t)
    BY DEF CancelEnds, Plain, Booting
  <1>1. k \in Jobs /\ Sound(w) /\ k \in Known(w) /\ Shifts(mem, w, k) /\ build \in Nat
    BY <1>0, WokenIs DEF Orderly, TypeOK
  <1>2. [w EXCEPT !.decoder[k] = NoDecoder, !.pcm[k] = 0] = e
    OBVIOUS
  <1>3. PICK m \in ReleaseDecode(e, k) :
          mem' \in Pumped([(IF k \notin m.slot \cup m.consumer THEN Retire(m, k, t.att) ELSE m)
                             EXCEPT !.active = @ \ {k}])
    BY <1>2 DEF CancelEnds
  <1> DEFINE r == IF k \notin m.slot \cup m.consumer THEN Retire(m, k, t.att) ELSE m
             p == [r EXCEPT !.active = @ \ {k}]
  <1>4. mem' \in Pumped(p)
    BY <1>3
  <1> HIDE DEF w
  <1>5. Moves(w, d, k)
    BY <1>1, NoDecoderMoves
  <1>6. Sound(d)
    BY <1>5 DEF Moves
  <1> HIDE DEF d
  <1>7. Moves(d, e, k)
    BY <1>1, <1>6, PcmMoves
  <1>8. Sound(e)
    BY <1>7 DEF Moves
  <1> HIDE DEF e
  <1>9. Moves(e, m, k)
    BY <1>1, <1>3, <1>8, ReleaseDecodeMoves
  <1>10. Sound(m)
    BY <1>9 DEF Moves
  <1>11. Moves(m, r, k)
    BY <1>1, <1>10, RetireMoves, MovesNot
  <1>12. Sound(r)
    BY <1>11 DEF Moves
  <1> HIDE DEF r
  <1>13. Moves(r, p, k)
    BY <1>1, <1>12, ActiveMoves
  <1> HIDE DEF p
  <1>14. Moves(r, mem', k)
    BY <1>1, <1>4, <1>12, <1>13, PumpAfter
  <1>15. Shifts(mem, r, k)
    BY <1>1, <1>5, <1>7, <1>9, <1>11, ShiftsThenMoves
  <1>16. Outside
    BY Unchanging DEF CancelEnds
  <1>17. QED BY <1>14, <1>15, <1>16, ThreadSteps

(* A thread that joins, which may be one of recover().                     *)
LEMMA JoinTurns ==
    ASSUME NEW m, NEW u \in Threads, Sound(m), u.job \in Known(m), u.att <= m.made[u.job],
           u.then = "boot" => u.at \in Booting
    PROVE  Turns(m, Await(m, u), u.job)
  <1> DEFINE n == Await(m, u)
  <1>1. m \in Memories
    BY DEF Sound
  <1>2. /\ n \in Memories /\ Apart(m, n, u.job) /\ n.threads = m.threads \cup {u}
        /\ n.queue = m.queue /\ n.pcm = m.pcm /\ n.decoder = m.decoder
        /\ n.slot = m.slot /\ n.job = m.job /\ n.made = m.made
        /\ n.att = m.att /\ n.consumer = m.consumer
    BY <1>1, JoinIs
  <1> HIDE DEF n
  <1>3. Known(n) = Known(m)
    BY <1>2 DEF Known
  <1>4. Sound(n)
    BY <1>2, <1>3 DEF Sound, Allowed
  <1>5. ASSUME NEW j \in Jobs \ {u.job}, Fine(m, j) PROVE Fine(n, j)
    <2>1. Same(m, n, j)
      BY <1>2 DEF Same, Apart, Queued
    <2>2. QED BY <2>1, <1>5, SameIsFine
  <1>6. Turns(m, n, u.job)
    <2>1. \A j \in Jobs : Rests(m, j) => Rests(n, j)
      BY <1>2 DEF Rests, Queued
    <2>2. QED BY <1>2, <1>3, <1>4, <1>5, <2>1 DEF Turns, Apart
  <1>7. QED BY <1>6 DEF n

(* The same, when it writes the job.                                       *)
LEMMA SaveTurns ==
    ASSUME NEW m, NEW u \in Threads, Sound(m), u.job \in Known(m), u.att <= m.made[u.job],
           u.then = "boot" => u.at \in Booting
    PROVE  Turns(m, Save(m, u), u.job)
  <1> DEFINE v == Saving(m, u)
  <1>1. m \in Memories
    BY DEF Sound
  <1>2. v \in Threads /\ v.at = u.at /\ v.job = u.job /\ v.att = u.att /\ v.then = u.then
    BY <1>1, SavingIs
  <1>3. Save(m, u) = Await(m, v)
    BY DEF Save, Saving
  <1> HIDE DEF v
  <1>4. QED BY <1>2, <1>3, JoinTurns

(* What the steps of threads that add to it have in common.                *)
LEMMA ThreadTurns ==
    ASSUME Orderly, Outside, NEW t \in mem.threads,
           \E m : Turns(mem, m, t.job) /\ Moves(m, mem', t.job)
    PROVE  Turned(t.job)
  BY TurnsThenMoves, TurnIs

(* A job that was found to be saved.                                       *)
LEMMA SurfacedSavedTurns ==
    ASSUME Orderly, NEW t \in mem.threads, SurfacedSaved(t)
    PROVE  Turned(t.job)
  <1> DEFINE w == Woken(t)
             u == [t EXCEPT !.at = "closed", !.rec = None]
  <1>1. /\ t \in Threads /\ t.job \in Jobs /\ Sound(w) /\ t.job \in Known(w)
        /\ t.att <= w.made[t.job] /\ Turns(mem, w, t.job)
    BY WokenIs DEF Orderly
  <1>2. mem' = Await(w, u)
    BY DEF SurfacedSaved
  <1> HIDE DEF w
  <1>3. u \in Threads /\ u.at = "closed" /\ u.job = t.job /\ u.att = t.att
    BY <1>1 DEF Threads, Points
  <1>4. Turns(w, mem', t.job)
    BY <1>1, <1>2, <1>3, JoinTurns DEF Booting
  <1>5. Turns(mem, mem', t.job)
    BY <1>1, <1>4, TurnsTwice
  <1>6. Outside
    BY Unchanging DEF SurfacedSaved
  <1>7. QED BY <1>5, <1>6, TurnIs

(* Its checkpoint has gone, or a recovered one has been queued.            *)
LEMMA SurfacedRemovedTurns ==
    ASSUME Orderly, NEW t \in mem.threads, SurfacedRemoved(t) \/ RecoverSaved(t)
    PROVE  Turned(t.job)
  <1> DEFINE w == Woken(t)
             q == Queue(w, t.job)
  <1>1. t.job \in Jobs /\ Sound(w) /\ Turns(mem, w, t.job) /\ build \in Nat
    BY WokenIs DEF Orderly, TypeOK
  <1>2. mem' \in BootGoesOn(w) \/ mem' = w \/ mem' \in BootGoesOn(q)
    BY DEF SurfacedRemoved, RecoverSaved
  <1> HIDE DEF w
  <1>3. Moves(w, q, t.job)
    BY <1>1, QueueIs
  <1>4. Sound(q)
    BY <1>3 DEF Moves
  <1> HIDE DEF q
  <1>5. Moves(w, mem', t.job) \/ Moves(q, mem', t.job)
    BY <1>1, <1>2, <1>4, BootGoesOnMoves, MovesNot
  <1>6. Turns(mem, q, t.job)
    BY <1>1, <1>3, TurnsThenMoves
  <1>7. Outside
    BY Unchanging, Unlinking DEF SurfacedRemoved, RecoverSaved
  <1>8. QED BY <1>1, <1>5, <1>6, <1>7, ThreadTurns

-----------------------------------------------------------------------------
(* The decoder and the user.                                               *)

(* A step that writes nothing.                                             *)
LEMMA Writeless ==
    ASSUME Orderly, UNCHANGED <<disk, files, build, bounds, history>>
    PROVE  Outside
  BY DEF Outside, Orderly, TypeOK, bounds, history

(* A stretch that starts from the memory as it is.                         *)
LEMMA CallSteps ==
    ASSUME Orderly, Outside, NEW k, Moves(mem, mem', k)
    PROVE  Steps(k)
  BY MovesShifts, StepIs

(* A chunk, and a decoder that stops.                                      *)
LEMMA ChunkSteps ==
    ASSUME Orderly, NEW j \in Jobs, Chunk(j) \/ DecoderStops(j)
    PROVE  Steps(j)
  <1> DEFINE d == [mem EXCEPT !.decoder[j] = NoDecoder]
  <1>1. Sound(mem) /\ build \in Nat
    BY DEF Orderly, TypeOK
  <1>2. mem.att[j].id \in Nat /\ mem.decoder[j].next \in Nat
    BY <1>1 DEF Sound, Memories, Attempts, Decoders
  <1>3. \/ mem' = DecoderRejected(mem, j, mem.decoder[j].att)
        \/ /\ mem' = Accept(mem, j, mem.att[j].id, mem.decoder[j].next)
           /\ Accepts(mem, j, mem.att[j].id)
        \/ mem' = FailDecoder(d, j)
    BY DEF Chunk, DecoderStops
  <1>4. Moves(mem, d, j)
    BY <1>1, NoDecoderMoves
  <1>5. Sound(d)
    BY <1>4 DEF Moves
  <1> HIDE DEF d
  <1>6. Moves(d, FailDecoder(d, j), j)
    BY <1>5, FailDecoderMoves
  <1>7. Moves(mem, FailDecoder(d, j), j)
    BY <1>1, <1>4, <1>6, MovesTwice
  <1>8. Moves(mem, mem', j)
    BY <1>1, <1>2, <1>3, <1>7, RejectedMoves, AcceptMoves
  <1>9. Outside
    BY Writeless DEF Chunk, DecoderStops
  <1>10. QED BY <1>8, <1>9, CallSteps

(* A decoder that is done.                                                 *)
LEMMA CompleteSteps ==
    ASSUME Orderly, NEW j \in Jobs, Complete(j)
    PROVE  Steps(j)
  <1> DEFINE d == [mem EXCEPT !.decoder[j] = NoDecoder]
             a == mem.decoder[j].att
  <1>1. Sound(mem) /\ build \in Nat
    BY DEF Orderly, TypeOK
  <1>2. a \in Nat /\ mem.made[j] \in Nat /\ a <= mem.made[j] /\ a > 0
    BY <1>1 DEF Sound, Memories, Decoders, Complete
  <1>3. j \in Known(mem)
    <2>1. mem.made[j] > 0
      BY <1>2
    <2>2. QED BY <1>1, <2>1 DEF Sound
  <1>4. PICK m \in ReleaseDecode(d, j) : mem' \in Later(m, Thread("finish", j, a), Finish(m, j, a))
    BY DEF Complete
  <1>5. Moves(mem, d, j)
    BY <1>1, NoDecoderMoves
  <1>6. Sound(d)
    BY <1>5 DEF Moves
  <1> HIDE DEF d, a
  <1>7. Moves(d, m, j)
    BY <1>1, <1>4, <1>6, ReleaseDecodeMoves
  <1>8. Moves(mem, m, j)
    BY <1>1, <1>5, <1>7, MovesTwice
  <1>9. Sound(m) /\ j \in Known(m) /\ a <= m.made[j]
    BY <1>1, <1>2, <1>3, <1>8, MovesKeeps
  <1>10. mem' = Await(m, Thread("finish", j, a)) \/ mem' \in Finish(m, j, a)
    BY <1>4 DEF Later
  <1>11. "finish" \in Points \ {"created"}
    BY DEF Points
  <1>12. Moves(m, mem', j)
    BY <1>1, <1>2, <1>9, <1>10, <1>11, ThreadMoves, FinishMoves
  <1>13. Moves(mem, mem', j)
    BY <1>1, <1>8, <1>12, MovesTwice
  <1>14. Outside
    BY Writeless DEF Complete
  <1>15. QED BY <1>13, <1>14, CallSteps

(* An attempt that is stopped takes nothing more.                          *)
LEMMA StopMoves ==
    ASSUME NEW m, NEW k \in Jobs, Sound(m)
    PROVE  LET n == Stop(m, k) IN
           Moves(m, n, k) /\ ~Allowed(n, k) /\ n.att[k].id = m.att[k].id /\ n.job = m.job
  <1> DEFINE n == Stop(m, k)
  <1>0. m \in Memories
    BY DEF Sound
  <1>1. /\ Apart(m, n, k) /\ n.att[k].id = m.att[k].id
        /\ ~n.att[k].accepting /\ ~n.att[k].tailAllowed
        /\ n.job = m.job /\ n.slot = m.slot /\ n.decoder = m.decoder /\ n.threads = m.threads
    BY <1>0, StopIs
  <1> HIDE DEF n
  <1>2. ~Allowed(n, k)
    BY <1>1 DEF Allowed
  <1>3. Adders(n) = Adders(m)
    BY <1>1 DEF Adders
  <1>4. Lawful(m, n, k)
    BY <1>1, <1>2, <1>3 DEF Lawful, Freeing, Sound
  <1>5. Moves(m, n, k)
    BY <1>4, LawfulMoves
  <1>6. QED BY <1>1, <1>2, <1>5 DEF n

(* A request of the user for a known job.                                  *)
LEMMA RequestSteps ==
    ASSUME Orderly, Outside, NEW j \in Jobs, NEW m, Moves(mem, m, j), j \in Known(mem),
           NEW r \in JobRecords, r.state # "absent",
           m.job[j].state = "cancelled" => r.state = "cancelled",
           Allowed(m, j) => r.state \notin {"cancelled", "failed"},
           NEW at \in Points \ {"created"}, NEW a \in Nat, a <= mem.made[j],
           mem' = Save([m EXCEPT !.job[j] = r], Thread(at, j, a))
    PROVE  Steps(j)
  <1> DEFINE d == [m EXCEPT !.job[j] = r]
  <1>1. Sound(mem)
    BY DEF Orderly
  <1>2. Sound(m) /\ j \in Known(m) /\ a <= m.made[j]
    BY <1>1, MovesKeeps
  <1>3. Moves(m, d, j)
    BY <1>2, JobMoves
  <1>4. Sound(d) /\ j \in Known(d) /\ a <= d.made[j]
    BY <1>2, <1>3, MovesKeeps
  <1> HIDE DEF d
  <1>5. Moves(d, mem', j)
    BY <1>4, ThreadMoves DEF d
  <1>6. Moves(mem, d, j)
    BY <1>1, <1>3, MovesTwice
  <1>7. Moves(mem, mem', j)
    BY <1>1, <1>5, <1>6, MovesTwice
  <1>8. QED BY <1>7, CallSteps

(* What a resume and a recovery put into the queue.                        *)
LEMMA RequeuedIs ==
    ASSUME NEW job \in JobRecords, build \in Nat
    PROVE  Requeued(job) \in JobRecords /\ Requeued(job).state = "queued"
  <1> DEFINE p == Prepared(job)
             q == [p EXCEPT !.state = "queued"]
             r == [q EXCEPT !.error = "none"]
  <1>1. p \in JobRecords
    <2>1. CASE job.vad \/ job.chunkSec = build
      BY <2>1 DEF Prepared
    <2>2. CASE ~(job.vad \/ job.chunkSec = build)
      <3> DEFINE a == [job EXCEPT !.cursor = 0]
                 b == [a EXCEPT !.lines = <<>>]
                 c == [b EXCEPT !.total = 0]
                 e == [c EXCEPT !.chunkSec = build]
      <3>1. a \in JobRecords
        BY DEF JobRecords
      <3> HIDE DEF a
      <3>2. b \in JobRecords
        <4>1. <<>> \in Seq(Units)
          OBVIOUS
        <4>2. QED BY <3>1, <4>1 DEF JobRecords
      <3> HIDE DEF b
      <3>3. c \in JobRecords
        BY <3>2 DEF JobRecords
      <3> HIDE DEF c
      <3>4. e \in JobRecords
        BY <3>3 DEF JobRecords
      <3>5. p = e
        BY <2>2 DEF Prepared, a, b, c
      <3>6. QED BY <3>4, <3>5
    <2>3. QED BY <2>1, <2>2
  <1> HIDE DEF p
  <1>2. q \in JobRecords /\ q.state = "queued"
    BY <1>1 DEF JobRecords, JobStates
  <1> HIDE DEF q
  <1>3. r \in JobRecords /\ r.state = "queued"
    BY <1>2 DEF JobRecords, Errors
  <1>4. Requeued(job) = r
    BY DEF Requeued, p, q
  <1>5. QED BY <1>3, <1>4

(* A failed job is resumed.                                                *)
LEMMA ResumeSteps ==
    ASSUME Orderly, NEW j \in Jobs, Resume(j)
    PROVE  Steps(j)
  <1> DEFINE job == mem.job[j]
             r == [job EXCEPT !.state = "done"]
             q == Requeued(job)
  <1>1. Sound(mem) /\ build \in Nat
    BY DEF Orderly, TypeOK
  <1>2. mem \in Memories
    BY <1>1 DEF Sound
  <1>3. job \in JobRecords /\ mem.made[j] \in Nat
    BY <1>2 DEF Memories
  <1>4. job.state = "failed"
    BY DEF Resume
  <1>5. j \in Known(mem)
    BY <1>4 DEF Known
  <1>6. r \in JobRecords /\ r.state = "done"
    BY <1>3 DEF JobRecords, JobStates
  <1>7. q \in JobRecords /\ q.state = "queued"
    BY <1>1, <1>3, RequeuedIs
  <1>8. \/ mem' = Save([mem EXCEPT !.job[j] = r], Thread("surfaced", j, 0))
        \/ mem' = Save([mem EXCEPT !.job[j] = q], Thread("resumed", j, 0))
    BY DEF Resume
  <1>9. Outside
    <2>1. upsets' \in Nat
      BY DEF Resume, Upset, Orderly, TypeOK
    <2>2. QED BY <2>1 DEF Resume, Outside, Orderly, TypeOK, history
  <1> HIDE DEF r, q
  <1>10. Moves(mem, mem, j)
    BY <1>1, MovesNot
  <1>11. 0 \in Nat /\ 0 <= mem.made[j]
    BY <1>3
  <1>12. {"surfaced", "resumed"} \subseteq Points \ {"created"}
    BY DEF Points, Arriving
  <1>13. job.state # "cancelled"
    BY <1>4
  <1> HIDE DEF job
  <1>14. CASE mem' = Save([mem EXCEPT !.job[j] = r], Thread("surfaced", j, 0))
    BY <1>5, <1>6, <1>9, <1>10, <1>11, <1>12, <1>13, <1>14, RequestSteps DEF job
  <1>15. CASE mem' = Save([mem EXCEPT !.job[j] = q], Thread("resumed", j, 0))
    BY <1>5, <1>7, <1>9, <1>10, <1>11, <1>12, <1>13, <1>15, RequestSteps DEF job
  <1>16. QED BY <1>8, <1>14, <1>15

(* A job is cancelled.                                                     *)
LEMMA CancelSteps ==
    ASSUME Orderly, NEW j \in Jobs, Cancel(j)
    PROVE  Steps(j)
  <1> DEFINE s == Stop(mem, j)
             p == [s.job[j] EXCEPT !.state = "cancelled"]
             r == [p EXCEPT !.error = "none"]
             a == mem.att[j].id
  <1>1. Sound(mem)
    BY DEF Orderly
  <1>2. mem \in Memories
    BY <1>1 DEF Sound
  <1>3. mem.job[j] \in JobRecords /\ a \in Nat /\ a <= mem.made[j]
    <2>1. mem.job[j] \in JobRecords /\ a \in Nat /\ mem.made[j] \in Nat
      BY <1>2 DEF Memories, Attempts
    <2>2. a \in {0, mem.made[j]}
      BY <1>1 DEF Sound
    <2>3. QED BY <2>1, <2>2
  <1>4. Moves(mem, s, j) /\ ~Allowed(s, j) /\ s.job = mem.job
    BY <1>1, StopMoves
  <1>5. mem' = Save([s EXCEPT !.job[j] = r], Thread("cancelling", j, a))
    BY DEF Cancel
  <1> HIDE DEF s, a
  <1>6. p \in JobRecords /\ p.state = "cancelled"
    BY <1>3, <1>4 DEF JobRecords, JobStates
  <1> HIDE DEF p
  <1>7. r \in JobRecords /\ r.state = "cancelled"
    BY <1>6 DEF JobRecords, Errors
  <1> HIDE DEF r
  <1>8. Outside
    <2>1. upsets' \in Nat /\ raced' \in SUBSET Jobs
      BY DEF Cancel, Upset, Orderly, TypeOK
    <2>2. QED BY <2>1 DEF Cancel, Outside, Orderly, TypeOK
  <1>9. j \in Known(mem)
    BY DEF Cancel
  <1>10. "cancelling" \in Points \ {"created"}
    BY DEF Points, Ending
  <1>11. QED BY <1>3, <1>4, <1>5, <1>7, <1>8, <1>9, <1>10, RequestSteps

-----------------------------------------------------------------------------
(* The steps that make jobs known, or bring one back.                      *)

(* What every step is shown to do: it keeps the rules, and a job that was  *)
(* cancelled stays so, unless it waits for saveMeeting().                  *)
Heeds ==
    \A j \in Jobs :
        mem.job[j].state = "cancelled" /\ (\A t \in At("saveMeeting") : t.job # j) =>
            mem'.job[j].state \in {"cancelled", "absent"}

(* A step for one job keeps the order and heeds a cancel.                  *)
LEMMA StepsHeed ==
    ASSUME NEW k, Steps(k)
    PROVE  Orderly' /\ Heeds
  BY DEF Steps, Shifts, Turns, Heeds

(* And one for a job that is added.                                        *)
LEMMA TurnedHeeds ==
    ASSUME NEW k, Turned(k)
    PROVE  Orderly' /\ Heeds
  BY DEF Turned, Turns, Heeds

(* The decoder is started, and those of others are reaped.                 *)
LEMMA AdmittedHeeds ==
    ASSUME Orderly, NEW t \in mem.threads, Admitted(t)
    PROVE  Orderly' /\ Heeds
  <1> DEFINE w == Woken(t)
  <1>1. /\ t.job \in Jobs /\ t.att \in Nat /\ Sound(w) /\ t.job \in Known(w)
        /\ t.att <= w.made[t.job] /\ Turns(mem, w, t.job) /\ build \in Nat /\ Sound(mem)
    BY WokenIs DEF Orderly, TypeOK
  <1>2. \/ mem' = Decode(w, t.job, t.att) /\ Accepts(mem, t.job, t.att)
        \/ mem' \in Pumped(w)
    BY DEF Admitted
  <1>3. Accepts(mem, t.job, t.att) => w.job[t.job].state # "cancelled"
    BY <1>1, GoesOn, WokenIs
  <1> HIDE DEF w
  <1>4. Sound(mem') /\ Keeps(w, mem')
    <2>1. ASSUME mem' = Decode(w, t.job, t.att), Accepts(mem, t.job, t.att)
          PROVE  Sound(mem') /\ Keeps(w, mem')
      BY <1>1, <1>3, <2>1, ReaperMoves
    <2>2. ASSUME mem' \in Pumped(w)
          PROVE  Sound(mem') /\ Keeps(w, mem')
      BY <1>1, <2>2, PumpedIs
    <2>3. QED BY <1>2, <2>1, <2>2
  <1>5. Outside
    BY Unchanging DEF Admitted
  <1>6. mem'.batch = mem.batch /\ mem'.boot = mem.boot /\ Known(mem') = Known(mem)
    BY <1>1, <1>4 DEF Turns, Keeps
  <1>7. Orderly'
    BY <1>4, <1>5, <1>6, OrderlyStep
  <1>8. Heeds
    BY <1>1, <1>4 DEF Turns, Keeps, Heeds
  <1>9. QED BY <1>7, <1>8

(* The meeting has been saved, also of a job that was cancelled meanwhile. *)
LEMMA MeetingSavedHeeds ==
    ASSUME Orderly, NEW t \in mem.threads, MeetingSaved(t)
    PROVE  Orderly' /\ Heeds
  <1> DEFINE k == t.job
             w == Woken(t)
             d == [w EXCEPT !.job[k].file = TRUE]
             r == [d.job[k] EXCEPT !.state = "saving"]
             e == [d EXCEPT !.job[k] = r]
  <1>1. k \in Jobs /\ Sound(w) /\ k \in Known(w) /\ Turns(mem, w, k) /\ w.job = mem.job
    BY WokenIs DEF Orderly
  <1>2. mem' = TailSave(d, "saved", k, "saving")
    BY DEF MeetingSaved
  <1>3. mem' = Save(e, Thread("saved", k, 0))
    BY <1>2 DEF TailSave
  <1>4. t \in At("saveMeeting")
    BY DEF MeetingSaved, At
  <1> HIDE DEF w
  <1>5. Moves(w, d, k)
    BY <1>1, FileMoves
  <1>6. Sound(d) /\ Known(d) = Known(w) /\ Turns(mem, d, k)
    BY <1>1, <1>5, TurnsThenMoves DEF Moves, Keeps
  <1> HIDE DEF d
  <1>7. d.job[k] \in JobRecords
    BY <1>1, <1>6 DEF Sound, Memories
  <1>8. /\ r \in JobRecords /\ r.state # "absent"
        /\ Allowed(d, k) => r.state \notin {"cancelled", "failed"}
    BY <1>7 DEF JobRecords, JobStates
  <1> HIDE DEF r, k
  <1>9. /\ Sound(e) /\ Known(e) = Known(d) \cup {k} /\ Apart(d, e, k)
        /\ e.batch = d.batch /\ e.boot = d.boot
    BY <1>1, <1>6, <1>8, JobIs
  <1> HIDE DEF e
  <1>10. k \in Known(e) /\ e.made[k] \in Nat /\ 0 <= e.made[k]
    BY <1>1, <1>9 DEF Sound, Memories
  <1>11. "saved" \in Points \ {"created"}
    BY DEF Points, Tailing
  <1>12. Moves(e, mem', k)
    BY <1>1, <1>3, <1>9, <1>10, <1>11, ThreadMoves
  <1>13. /\ Sound(mem') /\ mem'.batch = mem.batch /\ mem'.boot = mem.boot
         /\ Known(mem') = Known(mem)
    BY <1>1, <1>6, <1>9, <1>12 DEF Turns, Moves, Keeps
  <1>14. Outside
    <2>1. files' \in [Jobs -> Int]
      <3>1. files \in [Jobs -> Int] /\ files' = [files EXCEPT ![k] = files[k] + 1]
        BY DEF MeetingSaved, Orderly, TypeOK, k
      <3>2. files[k] + 1 \in Int
        BY <1>1, <3>1
      <3>3. QED BY <3>1, <3>2
    <2>2. /\ started' = started /\ build' = build /\ upsets' \in Nat /\ disk' = disk
          /\ crashes' = crashes /\ {cut', raced', stranded', misfired'} \subseteq SUBSET Jobs
      BY DEF MeetingSaved, Orderly, TypeOK, bounds, history
    <2>3. QED BY <2>1, <2>2, LandedIs
  <1>15. Orderly'
    BY <1>13, <1>14, OrderlyStep
  <1>16. ASSUME NEW j \in Jobs, j # k, mem.job[j].state = "cancelled"
         PROVE  mem'.job[j].state = "cancelled"
    BY <1>6, <1>9, <1>12, <1>16 DEF Turns, Apart, Moves, Keeps
  <1>17. Heeds
    BY <1>4, <1>16 DEF Heeds, k
  <1>18. QED BY <1>15, <1>17

(* The parts of Orders that a step which makes j known has to keep.        *)
LEMMA OrdersAfter ==
    ASSUME Orders, Sound(mem'), NEW j, j \in started', started \subseteq started',
           started' \subseteq Jobs, Known(mem') = Known(mem) \cup {j},
           \A i \in Jobs : disk'[i] # None => i \in started',
           \A i \in Jobs : disk[i] # None => disk'[i] # None \/ i \notin Range(mem'.boot),
           IsInjective(mem'.boot), IsInjective(mem'.batch),
           j \notin Range(mem'.boot), j \notin Range(mem'.batch),
           Range(mem'.boot) \subseteq Range(mem.boot),
           \A i \in Range(mem'.batch) : i \in started' /\ i \notin Known(mem),
           Range(mem'.boot) \cap Range(mem'.batch) = {}
    PROVE  Orders'
  <1>1. started' \subseteq Jobs /\ Known(mem') \subseteq started'
    BY DEF Orders
  <1>2. \A i \in Range(mem'.boot) : i \in started' /\ i \notin Known(mem') /\ disk'[i] # None
    BY DEF Orders
  <1>3. \A i \in Range(mem'.batch) : i \in started' /\ i \notin Known(mem')
    OBVIOUS
  <1>4. QED BY <1>1, <1>2, <1>3 DEF Orders

(* What remains of a list.                                                 *)
LEMMA RestOf ==
    ASSUME NEW b \in Seq(Jobs), b # <<>>, IsInjective(b)
    PROVE  /\ Head(b) \in Jobs /\ Head(b) \in Range(b) /\ Tail(b) \in Seq(Jobs)
           /\ IsInjective(Tail(b)) /\ Head(b) \notin Range(Tail(b))
           /\ Range(Tail(b)) \subseteq Range(b)
  <1>1. /\ Head(b) \in Jobs /\ Tail(b) \in Seq(Jobs) /\ IsInjective(Tail(b))
        /\ \A d \in Jobs : Contains(Tail(b), d) <=> Contains(b, d) /\ d # Head(b)
        /\ Contains(b, Head(b))
    BY TailOfQueue
  <1>2. ASSUME NEW q \in Seq(Jobs), NEW d PROVE d \in Range(q) <=> d \in Jobs /\ Contains(q, d)
    <2>1. DOMAIN q = 1 .. Len(q) /\ \A i \in 1 .. Len(q) : q[i] \in Jobs
      OBVIOUS
    <2>2. QED BY <2>1 DEF Range, Contains
  <1>3. QED BY <1>1, <1>2

(* n is m with j known, and the others that were cancelled are so still.   *)
Appears(m, n, j) ==
    /\ Sound(n) /\ Known(n) = Known(m) \cup {j}
    /\ n.batch = m.batch /\ n.boot = m.boot
    /\ \A i \in Jobs \ {j} : m.job[i].state = "cancelled" => n.job[i].state = "cancelled"

(* A job that nobody knew appears.                                         *)
LEMMA JobAppears ==
    ASSUME NEW m, Sound(m), NEW k \in Jobs, NEW r \in JobRecords, r.state # "absent",
           Allowed(m, k) => r.state \notin {"cancelled", "failed"}
    PROVE  Appears(m, [m EXCEPT !.job[k] = r], k)
  <1> DEFINE f == [m EXCEPT !.job[k] = r]
  <1>1. /\ Sound(f) /\ Known(f) = Known(m) \cup {k} /\ Apart(m, f, k)
        /\ f.batch = m.batch /\ f.boot = m.boot
    BY JobIs
  <1> HIDE DEF f
  <1>2. Appears(m, f, k)
    BY <1>1 DEF Appears, Apart
  <1>3. QED BY <1>2 DEF f

(* A job appears, or is set, and is written.                               *)
LEMMA AppearsIs ==
    ASSUME NEW m, Sound(m), NEW k \in Jobs, NEW r \in JobRecords, r.state # "absent",
           Allowed(m, k) => r.state \notin {"cancelled", "failed"},
           NEW u \in Threads, u.job = k, u.att = 0, u.then = "boot" => u.at \in Booting
    PROVE  Appears(m, Save([m EXCEPT !.job[k] = r], u), k)
  <1> DEFINE f == [m EXCEPT !.job[k] = r]
             v == Saving(f, u)
             n == Await(f, v)
  <1>1. /\ Sound(f) /\ Known(f) = Known(m) \cup {k} /\ Apart(m, f, k)
        /\ f.batch = m.batch /\ f.boot = m.boot
    BY JobIs
  <1>2. Save(f, u) = n
    BY DEF Save, Saving
  <1> HIDE DEF f
  <1>3. f \in Memories /\ \A j \in Jobs \ {k} : f.job[j] = m.job[j]
    BY <1>1 DEF Apart
  <1>4. v \in Threads /\ v.at = u.at /\ v.job = k /\ v.att = 0 /\ v.then = u.then
    BY <1>3, SavingIs
  <1> HIDE DEF v
  <1>5. v.att <= f.made[v.job] /\ v.job \in Known(f)
    <2>1. f.made[k] \in Nat
      BY <1>3 DEF Memories
    <2>2. QED BY <2>1, <1>1, <1>4
  <1>6. Turns(f, n, k)
    BY <1>1, <1>4, <1>5, JoinTurns
  <1>7. n.job = f.job
    BY <1>3, <1>4, JoinIs
  <1> HIDE DEF n
  <1>8. Appears(m, n, k)
    BY <1>1, <1>3, <1>6, <1>7 DEF Turns, Appears
  <1>9. QED BY <1>2, <1>8 DEF f

(* The record of a job that is created, and of the memory it appears in.   *)
Fresh(low) == [NoJob EXCEPT !.state = "queued", !.vad = ~low, !.chunkSec = build]

(* A new job appears, with the thread that creates it.                     *)
LEMMA FreshIs ==
    ASSUME build \in Nat, NEW low \in BOOLEAN, NEW m, NEW k \in Jobs, Sound(m)
    PROVE  Appears(m, Save([m EXCEPT !.job[k] = Fresh(low)], Thread("created", k, 0)), k)
  <1> DEFINE r == Fresh(low)
             u == Thread("created", k, 0)
  <1>1. r \in JobRecords /\ r.state = "queued"
    <2>1. <<>> \in Seq(Units)
      OBVIOUS
    <2>2. QED BY <2>1 DEF JobRecords, JobStates, NoJob, Errors, Fresh
  <1> HIDE DEF r
  <1>2. /\ r \in JobRecords /\ r.state # "absent"
        /\ Allowed(m, k) => r.state \notin {"cancelled", "failed"}
    BY <1>1
  <1>3. u \in Threads /\ u.at = "created" /\ u.job = k /\ u.att = 0 /\ u.then = "none"
    BY ThreadIs DEF Points, Arriving
  <1> HIDE DEF u
  <1>4. u.then = "boot" => u.at \in Booting
    BY <1>3
  <1>5. Appears(m, Save([m EXCEPT !.job[k] = r], u), k)
    BY <1>2, <1>3, <1>4, AppearsIs
  <1>6. QED BY <1>5 DEF r, u

(* A job of a batch is created.                                            *)
LEMMA CreateIs ==
    ASSUME NEW m, Sound(m), build \in Nat, NEW b \in Seq(Jobs), b # <<>>, IsInjective(b),
           Head(b) \notin Known(m), NEW low \in BOOLEAN
    PROVE  LET n == Create(m, b, low) IN
           /\ Sound(n) /\ Known(n) = Known(m) \cup {Head(b)}
           /\ n.batch = Tail(b) /\ n.boot = m.boot
           /\ \A j \in Jobs \ {Head(b)} :
                 m.job[j].state = "cancelled" => n.job[j].state = "cancelled"
  <1> DEFINE k == Head(b)
             x == IF low THEN m.lows + 1 ELSE m.lows
             d == [m EXCEPT !.batch = Tail(b)]
             e == [d EXCEPT !.lows = x]
             r == Fresh(low)
             f == [e EXCEPT !.job[k] = r]
             u == Thread("created", k, 0)
             n == Save(f, u)
  <1>0. m \in Memories /\ m.lows \in Nat /\ x \in Nat
    BY DEF Sound, Memories
  <1>1. k \in Jobs /\ Tail(b) \in Seq(Jobs)
    BY RestOf
  <1>2. Create(m, b, low) = n
    <2>1. [m EXCEPT !.batch = Tail(b), !.lows = IF low THEN @ + 1 ELSE @, !.job[k] = r] = f
      BY <1>0 DEF Memories
    <2>2. QED BY <2>1 DEF Create, Fresh
  <1> HIDE DEF x, k
  <1>3. /\ d \in Memories /\ d.batch = Tail(b) /\ d.boot = m.boot
        /\ d.job = m.job /\ d.queue = m.queue /\ d.pcm = m.pcm /\ d.slot = m.slot
        /\ d.active = m.active
        /\ d.consumer = m.consumer /\ d.att = m.att /\ d.made = m.made
        /\ d.decoder = m.decoder /\ d.threads = m.threads /\ d.lows = m.lows
    BY <1>0, <1>1 DEF Memories
  <1> HIDE DEF d
  <1>4. /\ e \in Memories /\ e.batch = Tail(b) /\ e.boot = m.boot
        /\ e.job = m.job /\ e.queue = m.queue /\ e.pcm = m.pcm /\ e.slot = m.slot
        /\ e.consumer = m.consumer /\ e.att = m.att /\ e.made = m.made
        /\ e.decoder = m.decoder /\ e.threads = m.threads
    BY <1>0, <1>3 DEF Memories
  <1> HIDE DEF e
  <1>5. Sound(e) /\ Known(e) = Known(m)
    BY <1>4, ListsAre
  <1>6. Appears(e, n, k)
    BY <1>1, <1>5, FreshIs
  <1> HIDE DEF n
  <1>7. QED BY <1>2, <1>4, <1>5, <1>6 DEF k, Appears

(* A permutation is a queue.                                               *)
LEMMA PermutationIs ==
    ASSUME NEW S \in SUBSET Jobs, NEW q \in SetToSeqs(S)
    PROVE  q \in Seq(Jobs) /\ IsInjective(q) /\ Range(q) \subseteq S
  <1>1. Cardinality(S) \in Nat
    BY JobsAreFinite, FS_Subset, FS_CardinalityType
  <1>2. /\ q \in [1 .. Cardinality(S) -> S]
        /\ \A i, k \in 1 .. Cardinality(S) : i # k => q[i] # q[k]
    BY DEF SetToSeqs
  <1> DEFINE n == Cardinality(S)
  <1> HIDE DEF n
  <1>3. q \in [1 .. n -> Jobs] /\ n \in Nat
    BY <1>1, <1>2 DEF n
  <1>4. q \in Seq(Jobs)
    BY <1>3
  <1>5. IsInjective(q)
    BY <1>2 DEF IsInjective
  <1>6. Range(q) \subseteq S
    BY <1>2 DEF Range
  <1>7. QED BY <1>4, <1>5, <1>6

(* A job has been created, and the next one of the batch is.               *)
LEMMA CreatedHeeds ==
    ASSUME Orderly, NEW t \in mem.threads, Created(t)
    PROVE  Orderly' /\ Heeds
  <1> DEFINE w == Woken(t)
             q == Queue(w, t.job)
             m == IF t.job \in mem.slot THEN w ELSE q
  <1>1. /\ t.job \in Jobs /\ Sound(w) /\ Turns(mem, w, t.job) /\ build \in Nat
        /\ t.job \in Known(mem) /\ w.job = mem.job /\ w.batch = mem.batch /\ w.boot = mem.boot
    BY WokenIs DEF Orderly, TypeOK
  <1>2. \/ mem' \in Pumped(m)
        \/ m.batch # <<>> /\ \E low \in Readings(m, TRUE) : mem' = Create(m, m.batch, low)
    BY DEF Created
  <1>3. Outside
    BY Unchanging DEF Created
  <1> HIDE DEF w
  <1>4. Moves(w, q, t.job) /\ q.job = w.job /\ q.batch = w.batch /\ q.boot = w.boot
    BY <1>1, QueueIs
  <1> HIDE DEF q
  <1>5. /\ Sound(m) /\ Turns(mem, m, t.job) /\ m.job = mem.job
        /\ m.batch = mem.batch /\ m.boot = mem.boot
    <2>1. Turns(mem, q, t.job)
      BY <1>1, <1>4, TurnsThenMoves
    <2>2. Sound(q)
      BY <2>1 DEF Turns
    <2>3. QED BY <1>1, <1>4, <2>1, <2>2
  <1> HIDE DEF m
  <1>6. CASE mem' \in Pumped(m)
    <2>1. Moves(m, mem', t.job)
      BY <1>1, <1>5, <1>6, PumpMoves
    <2>2. Turned(t.job)
      BY <1>3, <1>5, <2>1, ThreadTurns
    <2>3. QED BY <2>2, TurnedHeeds
  <1>7. CASE m.batch # <<>> /\ \E low \in Readings(m, TRUE) : mem' = Create(m, m.batch, low)
    <2> DEFINE b == mem.batch
               j == Head(b)
    <2>1. PICK low \in BOOLEAN : mem' = Create(m, b, low)
      BY <1>5, <1>7 DEF Readings
    <2>2. b # <<>> /\ b \in Seq(Jobs) /\ IsInjective(b)
      BY <1>5, <1>7 DEF Orderly, TypeOK, Memories, Orders
    <2>3. /\ j \in Jobs /\ j \in Range(b) /\ IsInjective(Tail(b))
          /\ j \notin Range(Tail(b)) /\ Range(Tail(b)) \subseteq Range(b)
      BY <2>2, RestOf
    <2>4. j \in started /\ j \notin Known(mem) /\ j \notin Range(mem.boot)
      BY <2>3 DEF Orderly, Orders
    <2>5. Known(m) = Known(mem) /\ j \notin Known(m)
      BY <1>5, <2>4 DEF Turns
    <2> HIDE DEF b
    <2>6. /\ Sound(mem') /\ Known(mem') = Known(m) \cup {j}
          /\ mem'.batch = Tail(b) /\ mem'.boot = m.boot
          /\ \A i \in Jobs \ {j} :
                m.job[i].state = "cancelled" => mem'.job[i].state = "cancelled"
      BY <1>1, <1>5, <2>1, <2>2, <2>5, CreateIs
    <2> HIDE DEF j
    <2>7. Range(b) \subseteq started /\ Range(b) \cap Known(mem) = {}
          /\ Range(mem.boot) \cap Range(b) = {} /\ IsInjective(mem.boot)
      BY DEF Orderly, Orders, b
    <2>8. /\ started' = started /\ started \subseteq Jobs
          /\ disk' \in [Jobs -> JobRecords \cup {None}]
          /\ \A i \in Jobs \ Known(mem) : disk'[i] = disk[i]
      BY <1>3 DEF Outside, Orderly, TypeOK, Orders, Known
    <2>9. \A i \in Jobs : disk'[i] # None => i \in started'
      <3>1. Known(mem) \subseteq started
        BY DEF Orderly, Orders
      <3>2. \A i \in Jobs : disk[i] # None => i \in started
        BY DEF Orderly, Orders
      <3>3. QED BY <2>8, <3>1, <3>2
    <2>10. \A i \in Jobs : disk[i] # None => disk'[i] # None \/ i \notin Range(mem'.boot)
      <3>1. \A i \in Range(mem.boot) : i \notin Known(mem)
        BY DEF Orderly, Orders
      <3>2. QED BY <1>5, <2>6, <2>8, <3>1
    <2>11. Orders'
      <3>1. Orders
        BY DEF Orderly
      <3>2. QED BY <1>5, <2>3, <2>4, <2>5, <2>6, <2>7, <2>8, <2>9, <2>10, <3>1, OrdersAfter
    <2>12. TypeOK'
      BY <1>3, <2>6, <2>8 DEF Orderly, TypeOK, Outside, Sound
    <2>13. Heeds
      <3>1. mem.job[j].state = "absent"
        BY <2>3, <2>4 DEF Known, b, j
      <3>2. QED BY <1>5, <2>6, <3>1 DEF Heeds
    <2>14. QED BY <2>6, <2>11, <2>12, <2>13 DEF Orderly
  <1>8. QED BY <1>2, <1>6, <1>7

(* The user picks recordings.                                              *)
LEMMA StartManyHeeds ==
    ASSUME Orderly, NEW b \in SetToAllKPermutations(Jobs), StartMany(b)
    PROVE  Orderly' /\ Heeds
  <1> DEFINE j == Head(b)
  <1>1. Sound(mem) /\ build \in Nat
    BY DEF Orderly, TypeOK
  <1>2. b \in Seq(Jobs) /\ IsInjective(b) /\ Range(b) \subseteq Jobs
    <2>1. PICK S \in SUBSET Jobs : b \in SetToSeqs(S)
      BY DEF SetToAllKPermutations
    <2>2. QED BY <2>1, PermutationIs
  <1>3. b # <<>> /\ Range(b) \cap started = {} /\ started' = started \cup Range(b)
    BY DEF StartMany
  <1>4. PICK low \in BOOLEAN : mem' = Create(mem, b, low)
    BY DEF StartMany, Readings
  <1>5. /\ j \in Jobs /\ j \in Range(b) /\ IsInjective(Tail(b))
        /\ j \notin Range(Tail(b)) /\ Range(Tail(b)) \subseteq Range(b)
    BY <1>2, <1>3, RestOf
  <1>6. Known(mem) \subseteq started
    BY DEF Orderly, Orders
  <1>7. j \notin Known(mem)
    BY <1>3, <1>5, <1>6
  <1>8. /\ Sound(mem') /\ Known(mem') = Known(mem) \cup {j}
        /\ mem'.batch = Tail(b) /\ mem'.boot = mem.boot
        /\ \A i \in Jobs \ {j} :
              mem.job[i].state = "cancelled" => mem'.job[i].state = "cancelled"
    BY <1>1, <1>2, <1>3, <1>4, <1>7, CreateIs
  <1>9. /\ disk' = disk /\ started \subseteq Jobs /\ Range(mem.boot) \subseteq started
        /\ IsInjective(mem.boot) /\ \A i \in Jobs : disk[i] # None => i \in started
    BY DEF StartMany, Orderly, Orders
  <1> HIDE DEF j
  <1>10. Orders'
    <2>1. Orders
      BY DEF Orderly
    <2>2. /\ j \in started' /\ started \subseteq started' /\ started' \subseteq Jobs
      BY <1>2, <1>3, <1>5, <1>9
    <2>3. \A i \in Range(mem'.batch) : i \in started' /\ i \notin Known(mem)
      BY <1>3, <1>5, <1>6, <1>8
    <2>4. Range(mem'.boot) \cap Range(mem'.batch) = {} /\ j \notin Range(mem'.boot)
      BY <1>3, <1>5, <1>8, <1>9
    <2>5. \A i \in Jobs : disk'[i] # None => i \in started'
      BY <1>3, <1>9
    <2>6. QED BY <1>5, <1>8, <1>9, <2>1, <2>2, <2>3, <2>4, <2>5, OrdersAfter
  <1>11. TypeOK'
    BY <1>8 DEF StartMany, Orderly, TypeOK, Sound, history
  <1>12. Heeds
    <2>1. mem.job[j].state = "absent"
      BY <1>5, <1>7 DEF Known, j
    <2>2. QED BY <1>8, <2>1 DEF Heeds
  <1>13. QED BY <1>8, <1>10, <1>11, <1>12 DEF Orderly

(* recover() takes the next job of its list.                               *)
LEMMA RecoverHeeds ==
    ASSUME Orderly, Recover
    PROVE  Orderly' /\ Heeds
  <1> DEFINE b == mem.boot
             j == Head(b)
             saved == disk[j]
             d == [mem EXCEPT !.boot = Tail(b)]
             finished == [saved EXCEPT !.state = "done"]
             queued == Requeued(saved)
             r == IF Terminal(saved.state) THEN saved
                  ELSE IF saved.file /\ saved.state \in {"recapping", "saving"}
                  THEN finished ELSE queued
             e == [d EXCEPT !.job[j] = r]
  <1>1. Sound(mem) /\ mem \in Memories /\ build \in Nat
    BY DEF Orderly, TypeOK
  <1>2. b # <<>> /\ b \in Seq(Jobs) /\ IsInjective(b)
    BY <1>1 DEF Recover, Memories, Orderly, Orders
  <1>3. /\ j \in Jobs /\ j \in Range(b) /\ Tail(b) \in Seq(Jobs) /\ IsInjective(Tail(b))
        /\ j \notin Range(Tail(b)) /\ Range(Tail(b)) \subseteq Range(b)
    BY <1>2, RestOf
  <1>4. /\ j \in started /\ j \notin Known(mem) /\ disk[j] # None /\ j \notin Range(mem.batch)
    BY <1>3 DEF Orderly, Orders
  <1>5. saved \in JobRecords
    BY <1>3, <1>4 DEF Orderly, TypeOK
  <1> HIDE DEF saved
  <1>6. /\ finished \in JobRecords /\ finished.state = "done"
    BY <1>5 DEF JobRecords, JobStates
  <1>7. queued \in JobRecords /\ queued.state = "queued"
    BY <1>1, <1>5, RequeuedIs
  <1>8. \/ mem' \in BootGoesOn(e)
        \/ mem' = Save(e, BootThread("surfaced", j))
        \/ mem' = Save(e, BootThread("recovered", j))
    <2> DEFINE m == [mem EXCEPT !.boot = Tail(b), !.job[j] = saved]
    <2>1. mem' \in IF Terminal(saved.state) THEN BootGoesOn(m)
                   ELSE IF saved.file /\ saved.state \in {"recapping", "saving"}
                   THEN {Save([m EXCEPT !.job[j].state = "done"], BootThread("surfaced", j))}
                   ELSE {Save([m EXCEPT !.job[j] = Requeued(@)], BootThread("recovered", j))}
      BY DEF Recover, saved
    <2>2. m.job[j] = saved /\ m.job = [mem.job EXCEPT ![j] = saved]
      BY <1>1, <1>3 DEF Memories
    <2>3. m = [d EXCEPT !.job[j] = saved]
      BY <1>1, <1>3 DEF Memories
    <2>4. [m EXCEPT !.job[j].state = "done"] = [d EXCEPT !.job[j] = finished]
      BY <1>1, <1>3, <2>2 DEF Memories
    <2>5. [m EXCEPT !.job[j] = Requeued(@)] = [d EXCEPT !.job[j] = queued]
      BY <1>1, <1>3, <2>2 DEF Memories
    <2> HIDE DEF m, d, finished, queued
    <2>6. QED BY <2>1, <2>3, <2>4, <2>5
  <1> HIDE DEF finished, queued
  <1>9. r \in JobRecords /\ r.state # "absent"
    BY <1>5, <1>6, <1>7 DEF Terminal
  <1> HIDE DEF r, b
  <1>10. /\ d \in Memories /\ d.batch = mem.batch /\ d.boot = Tail(b)
         /\ d.job = mem.job /\ d.queue = mem.queue /\ d.pcm = mem.pcm /\ d.slot = mem.slot
         /\ d.consumer = mem.consumer /\ d.att = mem.att /\ d.made = mem.made
         /\ d.decoder = mem.decoder /\ d.threads = mem.threads
    BY <1>1, <1>3 DEF Memories
  <1> HIDE DEF d, j
  <1>11. Sound(d) /\ Known(d) = Known(mem)
    BY <1>1, <1>10, ListsAre
  <1>12. ~Allowed(d, j)
    BY <1>3, <1>4, <1>11 DEF Sound, Known
  <1>13. Appears(d, mem', j)
    <2>2. Appears(d, e, j)
      BY <1>3, <1>9, <1>11, <1>12, JobAppears
    <2>3. ASSUME mem' \in BootGoesOn(e) PROVE Appears(d, mem', j)
      <3>1. mem' = e \/ mem' \in Pumped(e)
        BY <2>3 DEF BootGoesOn
      <3> HIDE DEF e
      <3>2. CASE mem' = e
        BY <2>2, <3>2
      <3>3. CASE mem' \in Pumped(e)
        <4>1. Sound(e)
          BY <2>2 DEF Appears
        <4>2. Sound(mem') /\ Keeps(e, mem')
          BY <1>1, <3>3, <4>1, PumpedIs
        <4>3. QED BY <4>2, <2>2 DEF Appears, Keeps
      <3>4. QED BY <3>1, <3>2, <3>3
    <2>4. ASSUME NEW at \in Booting, mem' = Save(e, BootThread(at, j)) PROVE Appears(d, mem', j)
      <3> DEFINE u == BootThread(at, j)
                 v == Thread(at, j, 0)
      <3>1. v \in Threads /\ v.at = at /\ v.job = j /\ v.att = 0
        <4>1. at \in Points
          BY DEF Booting, Points, Arriving
        <4> HIDE DEF e
        <4>2. QED BY <1>3, <4>1, ThreadIs
      <3>2. u \in Threads /\ u.at = at /\ u.job = j /\ u.att = 0
        <4> HIDE DEF v
        <4>1. u = [v EXCEPT !.then = "boot"]
          BY DEF BootThread, v
        <4>2. QED BY <3>1, <4>1 DEF Threads
      <3> HIDE DEF u, v
      <3>3. u.then = "boot" => u.at \in Booting
        BY <3>2
      <3>4. QED BY <1>3, <1>9, <1>11, <1>12, <2>4, <3>2, <3>3, AppearsIs DEF u
    <2>5. QED BY <1>8, <2>3, <2>4 DEF Booting
  <1>14. /\ Sound(mem') /\ Known(mem') = Known(mem) \cup {j}
         /\ mem'.batch = mem.batch /\ mem'.boot = Tail(b)
         /\ \A i \in Jobs \ {j} :
               mem.job[i].state = "cancelled" => mem'.job[i].state = "cancelled"
    BY <1>10, <1>11, <1>13 DEF Appears
  <1>15. Range(b) \cap Range(mem.batch) = {} /\ IsInjective(mem.batch)
    BY DEF Orderly, Orders, b
  <1>16. /\ started' = started /\ disk' = disk
    BY DEF Recover, bounds
  <1>17. Orders'
    <2>1. /\ started \subseteq Jobs /\ \A i \in Jobs : disk[i] # None => i \in started
          /\ \A i \in Range(mem.batch) : i \in started /\ i \notin Known(mem)
      BY DEF Orderly, Orders
    <2>2. /\ Range(mem'.boot) \cap Range(mem'.batch) = {}
          /\ Range(mem'.boot) \subseteq Range(mem.boot)
      BY <1>3, <1>14, <1>15 DEF b
    <2>3. QED BY <1>3, <1>4, <1>14, <1>15, <1>16, <2>1, <2>2, OrdersAfter DEF Orderly
  <1>18. TypeOK'
    BY <1>14 DEF Recover, Orderly, TypeOK, Sound, bounds, history
  <1>19. Heeds
    <2>1. mem.job[j].state = "absent"
      BY <1>3, <1>4 DEF Known
    <2>2. QED BY <1>14, <2>1 DEF Heeds
  <1>20. QED BY <1>14, <1>17, <1>18, <1>19 DEF Orderly

(* A process that has just started knows no job.                           *)
LEMMA NewProcessIs ==
    ASSUME NEW rest \in Seq(Jobs)
    PROVE  LET n == NewProcess(rest) IN
           /\ Sound(n) /\ Known(n) = {} /\ n.boot = rest /\ n.batch = <<>>
           /\ \A j \in Jobs : n.job[j].state = "absent"
  <1> DEFINE n == NewProcess(rest)
  <1>1. /\ n.job = [j \in Jobs |-> NoJob] /\ n.queue = <<>> /\ n.pcm = [j \in Jobs |-> 0]
        /\ n.slot = {} /\ n.active = {} /\ n.consumer = {}
        /\ n.att = [j \in Jobs |-> NoAttempt] /\ n.made = [j \in Jobs |-> 0]
        /\ n.decoder = [j \in Jobs |-> NoDecoder] /\ n.batch = <<>> /\ n.boot = rest
        /\ n.lows = 0 /\ n.threads = {}
    BY DEF NewProcess
  <1>2. <<>> \in Seq(Units) /\ <<>> \in Seq(Jobs)
    OBVIOUS
  <1>3. NoJob \in JobRecords /\ NoJob.state = "absent"
    BY <1>2 DEF NoJob, JobRecords, JobStates, Errors
  <1>4. NoAttempt \in Attempts /\ NoAttempt.id = 0 /\ ~NoAttempt.accepting /\ ~NoAttempt.tailAllowed
    BY DEF NoAttempt, Attempts
  <1>5. NoDecoder \in Decoders /\ NoDecoder.att = 0
    BY DEF NoDecoder, Decoders
  <1>6. n \in Memories
    <2>1. /\ [j \in Jobs |-> NoJob] \in [Jobs -> JobRecords]
          /\ [j \in Jobs |-> NoAttempt] \in [Jobs -> Attempts]
          /\ [j \in Jobs |-> NoDecoder] \in [Jobs -> Decoders]
          /\ [j \in Jobs |-> 0] \in [Jobs -> Nat]
      BY <1>3, <1>4, <1>5
    <2>2. QED BY <1>2, <2>1 DEF NewProcess, Memories
  <1> HIDE DEF n
  <1>7. \A j \in Jobs : n.job[j].state = "absent"
    BY <1>1, <1>3
  <1>8. Known(n) = {}
    BY <1>7 DEF Known
  <1>9. IsInjective(n.queue)
    BY <1>1 DEF IsInjective
  <1>10. \A j \in Jobs : /\ ~Allowed(n, j) /\ ~n.att[j].accepting
                         /\ n.att[j].id = 0 /\ n.decoder[j].att = 0 /\ n.made[j] = 0
    BY <1>1, <1>4, <1>5 DEF Allowed
  <1>11. \A j \in Jobs : n.decoder[j].att <= n.made[j]
    BY <1>10
  <1>12. Sound(n)
    BY <1>1, <1>6, <1>8, <1>9, <1>10, <1>11 DEF Sound
  <1>13. QED BY <1>1, <1>7, <1>8, <1>12 DEF n

(* The process dies.                                                       *)
LEMMA CrashHeeds ==
    ASSUME Orderly, Crash
    PROVE  Orderly' /\ Heeds
  <1> DEFINE S == {j \in Jobs : disk[j] # None}
  <1>1. PICK rest \in SetToSeqs(S) : mem' = NewProcess(rest)
    BY DEF Crash
  <1>2. rest \in Seq(Jobs) /\ IsInjective(rest) /\ Range(rest) \subseteq S
    BY <1>1, PermutationIs
  <1>3. /\ Sound(mem') /\ Known(mem') = {} /\ mem'.boot = rest /\ mem'.batch = <<>>
        /\ \A j \in Jobs : mem'.job[j].state = "absent"
    BY <1>1, <1>2, NewProcessIs
  <1>4. started' = started /\ disk' = disk
    BY DEF Crash
  <1>5. IsInjective(mem'.batch) /\ Range(mem'.batch) = {}
    BY <1>3 DEF IsInjective, Range
  <1>6. Orders'
    <2>1. started \subseteq Jobs /\ \A i \in Jobs : disk[i] # None => i \in started
      BY DEF Orderly, Orders
    <2>2. \A i \in Range(mem'.boot) : i \in Jobs /\ disk[i] # None
      BY <1>2, <1>3
    <2>3. QED BY <1>2, <1>3, <1>4, <1>5, <2>1, <2>2 DEF Orders
  <1>7. TypeOK'
    <2>1. build' \in Nat
      BY ImportBounds DEF Crash, Orderly, TypeOK
    <2>2. crashes' \in Nat /\ upsets' \in Nat /\ cut' \in SUBSET Jobs
      BY DEF Crash, Upset, Orderly, TypeOK
    <2>3. QED BY <1>3, <2>1, <2>2 DEF Crash, Orderly, TypeOK, Sound
  <1>8. Heeds
    BY <1>3 DEF Heeds
  <1>9. QED BY <1>3, <1>6, <1>7, <1>8 DEF Orderly

(* The first start is in order.                                            *)
LEMMA InitIsOrderly == Init => Orderly
  <1> SUFFICES ASSUME Init PROVE Orderly
    OBVIOUS
  <1>1. <<>> \in Seq(Jobs)
    OBVIOUS
  <1>2. /\ Sound(mem) /\ Known(mem) = {} /\ mem.boot = <<>> /\ mem.batch = <<>>
    BY <1>1, NewProcessIs DEF Init
  <1>3. IsInjective(<<>>) /\ Range(<<>>) = {}
    BY DEF IsInjective, Range
  <1>4. Orders
    BY <1>2, <1>3 DEF Init, Orders
  <1>5. TypeOK
    BY <1>2 DEF Init, TypeOK, Sound
  <1>6. QED BY <1>2, <1>4, <1>5 DEF Orderly

(* Every step keeps the order and heeds a cancel.                          *)
LEMMA NextIsOrderly == Orderly /\ [Next]_vars => Orderly' /\ (Heeds \/ UNCHANGED vars)
  <1> SUFFICES ASSUME Orderly, [Next]_vars PROVE Orderly' /\ (Heeds \/ UNCHANGED vars)
    OBVIOUS
  <1>1. ASSUME NEW t \in mem.threads, Goes(t) PROVE Orderly' /\ Heeds
    <2>1. CASE Created(t)
      BY <2>1, CreatedHeeds
    <2>2. CASE Admitted(t)
      BY <2>2, AdmittedHeeds
    <2>3. CASE MeetingSaved(t)
      BY <2>3, MeetingSavedHeeds
    <2>4. CASE FailSaved(t) \/ ClaimSaved(t) \/ AdmissionThrows(t)
      BY <2>4, FailSavedSteps, ClaimSavedSteps, AdmissionThrowsSteps, StepsHeed
    <2>5. CASE ChunkSaved(t) \/ SlabHeard(t) \/ SlabNotHeard(t)
      BY <2>5, ChunkSavedSteps, SlabHeardSteps, SlabNotHeardSteps, StepsHeed
    <2>6. CASE WindowHeard(t) \/ WindowNotHeard(t)
      BY <2>6, WindowHeardSteps, WindowNotHeardSteps, StepsHeed
    <2>7. CASE ChunkThrew(t) \/ FinishDecoding(t) \/ WindowsSaved(t) \/ Consumed(t)
                 \/ CheckpointRemoved(t)
      BY <2>7, StretchSteps, StepsHeed
    <2>8. CASE CheckpointSaved(t) \/ Recapped(t) \/ Ingested(t)
      BY <2>8, CheckpointSavedSteps, RecappedSteps, StepsHeed
    <2>9. CASE FileDeleted(t) \/ Abandoned(t) \/ TailThrows(t)
      BY <2>9, FileDeletedSteps, AbandonedSteps, TailThrowsSteps, StepsHeed
    <2>10. CASE ResumeSaved(t) \/ CancelSaved(t) \/ CancelRemoved(t) \/ CancelEnds(t)
      BY <2>10, ResumeSavedSteps, CancelSavedSteps, CancelEndsSteps, StepsHeed
    <2>11. CASE RecoverSaved(t) \/ SurfacedSaved(t) \/ SurfacedRemoved(t)
      BY <2>11, SurfacedSavedTurns, SurfacedRemovedTurns, TurnedHeeds
    <2>12. QED BY <1>1, <2>1, <2>2, <2>3, <2>4, <2>5, <2>6, <2>7, <2>8, <2>9, <2>10, <2>11 DEF Goes
  <1>2. ASSUME NEW j \in Jobs, Chunk(j) \/ Complete(j) \/ DecoderStops(j) \/ Resume(j) \/ Cancel(j)
        PROVE  Orderly' /\ Heeds
    BY <1>2, ChunkSteps, CompleteSteps, ResumeSteps, CancelSteps, StepsHeed
  <1>3. ASSUME NEW t \in mem.threads, TailWriteFails(t) PROVE Orderly' /\ Heeds
    BY <1>3, TailThrowsSteps, StepsHeed
  <1>4. CASE Recover
    BY <1>4, RecoverHeeds
  <1>5. CASE Crash
    BY <1>5, CrashHeeds
  <1>6. ASSUME NEW b \in SetToAllKPermutations(Jobs), StartMany(b) PROVE Orderly' /\ Heeds
    BY <1>6, StartManyHeeds
  <1>7. CASE UNCHANGED vars
    BY <1>7 DEF vars, bounds, history, Orderly, TypeOK, Orders
  <1>8. QED BY <1>1, <1>2, <1>3, <1>4, <1>5, <1>6, <1>7 DEF Next, System

-----------------------------------------------------------------------------
(* The job that a step is for.                                             *)

(* T are threads that work for k.                                          *)
Crew(m, k, T) ==
    /\ T \subseteq Threads
    /\ \A t \in T : t.job = k /\ t.att <= m.made[k]

(* The types of what a memory says of one job.                             *)
LEMMA PartsOf ==
    ASSUME NEW m, NEW k \in Jobs, Sound(m)
    PROVE  /\ m.job[k] \in JobRecords /\ m.pcm[k] \in Nat /\ m.made[k] \in Nat
           /\ m.att[k].id \in Nat /\ m.att[k].accepting \in BOOLEAN /\ m.att[k].tailAllowed \in BOOLEAN
           /\ m.decoder[k].att \in Nat /\ m.decoder[k].next \in Nat /\ m.decoder[k].busy \in BOOLEAN
           /\ m.decoder[k].att <= m.made[k] /\ m.att[k].id \in {0, m.made[k]}
           /\ m.job[k].state \in JobStates /\ m.job[k].vad \in BOOLEAN /\ m.job[k].file \in BOOLEAN
           /\ Allowed(m, k) => m.att[k].id = m.made[k] /\ m.made[k] > 0
  BY DEF Sound, Memories, Attempts, Decoders, JobRecords

(* Nobody else works beside a thread that does.                            *)
LEMMA WorkerKnows ==
    ASSUME NEW m, NEW k, NEW T, FineWith(m, k, T), NEW t \in T, Works(t)
    PROVE  /\ \A u \in T : ~InTail(u) /\ ~Starts(m, u) /\ (Works(u) => u = t)
           /\ ~Idles(m, k) /\ t.att = m.made[k]
           /\ m.job[k].state \notin {"saving", "recapping"}
           /\ ~Allowed(m, k) => m.job[k].state \notin {"decoding", "transcribing"}
           /\ Holds(t) => k \in m.slot /\ k \in m.consumer /\ t.att = m.att[k].id
           /\ ~Holds(t) => k \notin m.consumer
  <1>1. \A u \in T : ~InTail(u)
    BY DEF FineWith, TailAlone
  <1>2. \A u \in T : ~Starts(m, u) /\ (Works(u) => u = t)
    BY DEF FineWith, OneWorker
  <1>3. ~Idles(m, k) /\ t.att = m.made[k]
    BY DEF FineWith, OneWorker, DecoderKnown
  <1>4. m.job[k].state \notin {"saving", "recapping"}
    BY <1>1 DEF FineWith, StateKnown
  <1>5. ~Allowed(m, k) => m.job[k].state \notin {"decoding", "transcribing"}
    BY <1>1 DEF FineWith, StateKnown, Allowed
  <1>6. Holds(t) => k \in m.slot /\ k \in m.consumer /\ t.att = m.att[k].id
    BY DEF FineWith, AudioHeld
  <1>7. ~Holds(t) => k \notin m.consumer
    BY <1>2 DEF FineWith, AudioHeld, Works
  <1>8. QED BY <1>1, <1>2, <1>3, <1>4, <1>5, <1>6, <1>7

(* A job that is decoded or transcribed is not stopped or queued.          *)
LEMMA OpenKnows ==
    ASSUME NEW m, NEW k, NEW T, FineWith(m, k, T), m.job[k].state \in {"decoding", "transcribing"}
    PROVE  /\ ~Queued(m, k) /\ ~Stops(T)
           /\ \A t \in T : t.at \notin Arriving \cup Ending \cup {"failing"}
  <1>1. ~Queued(m, k) /\ \A t \in T : t.at \notin Arriving
    BY DEF FineWith, StateKnown
  <1>2. \A t \in T : t.at \notin Ending \cup {"failing"}
    BY DEF FineWith, StateKnown
  <1>3. QED BY <1>1, <1>2 DEF Stops

(* So is one whose attempt may go on.                                      *)
LEMMA AllowedKnows ==
    ASSUME NEW m, NEW k, NEW T, FineWith(m, k, T), Allowed(m, k)
    PROVE  /\ m.job[k].state \in {"decoding", "transcribing"} /\ m.att[k].tailAllowed
           /\ ~Queued(m, k) /\ ~Stops(T)
           /\ \A t \in T : ~InTail(t) /\ t.at \notin Arriving \cup Ending \cup {"failing"}
           /\ Idles(m, k) => m.att[k].accepting /\ m.job[k].state = "decoding"
           /\ m.decoder[k].att > 0 => m.att[k].accepting
  <1>1. m.job[k].state \in {"decoding", "transcribing"} /\ m.att[k].tailAllowed
    BY DEF FineWith, AttemptServed, Allowed
  <1>2. /\ ~Queued(m, k) /\ ~Stops(T)
        /\ \A t \in T : t.at \notin Arriving \cup Ending \cup {"failing"}
    BY <1>1, OpenKnows
  <1>3. \A t \in T : ~InTail(t)
    BY DEF FineWith, TailAlone
  <1>4. m.decoder[k].att > 0 => m.att[k].accepting
    <2>1. ~m.att[k].accepting => \E t \in T : t.at \in {"finish", "tail"}
      BY <1>1 DEF FineWith, AttemptServed
    <2>2. \A t \in T : t.at \in {"finish", "tail"} => m.decoder[k].att = 0
      BY DEF FineWith, DecoderKnown, Leads
    <2>3. QED BY <2>1, <2>2
  <1>5. Idles(m, k) => m.att[k].accepting /\ m.job[k].state = "decoding"
    BY <1>1, <1>4 DEF Idles, FineWith, AttemptServed
  <1>6. QED BY <1>1, <1>2, <1>3, <1>4, <1>5

-----------------------------------------------------------------------------
(* A job that is stopped.                                                  *)

(* What was buffered of it is dropped.                                     *)
LEMMA DroppedIsFine ==
    ASSUME NEW m, NEW n, NEW k, NEW T, FineWith(m, k, T), \A t \in T : t.job = k, ~Allowed(m, k),
           n.job[k] = m.job[k], n.pcm[k] = 0, n.att[k] = m.att[k], n.made[k] = m.made[k],
           n.decoder[k] = m.decoder[k], k \in n.slot <=> k \in m.slot,
           k \in n.consumer <=> k \in m.consumer, Queued(n, k) <=> Queued(m, k)
    PROVE  FineWith(n, k, T)
  <1>1. ~Allowed(n, k) /\ (Idles(n, k) <=> Idles(m, k))
    BY DEF Allowed, Idles
  <1>2. ~n.att[k].accepting /\ ~n.att[k].tailAllowed
    BY <1>1 DEF Allowed
  <1>3. \A t \in T : Starts(n, t) <=> Starts(m, t)
    BY DEF Starts
  <1>4. AttemptServed(n, k, T)
    BY <1>1, <1>2 DEF AttemptServed
  <1>5. AudioHeld(n, k, T)
    BY <1>1, <1>2 DEF FineWith, AudioHeld
  <1>6. OneWorker(n, k, T)
    BY <1>3 DEF FineWith, OneWorker
  <1>7. DecoderKnown(n, k, T)
    BY <1>1 DEF FineWith, DecoderKnown
  <1>8. StateKnown(n, k, T)
    BY DEF FineWith, StateKnown
  <1>9. TailAlone(n, k, T)
    BY <1>1 DEF FineWith, TailAlone
  <1>10. QED BY <1>4, <1>5, <1>6, <1>7, <1>8, <1>9 DEF FineWith

(* Its slot is given back, when nobody holds decoded audio.                *)
LEMMA ReleasedIsFine ==
    ASSUME NEW m, NEW n, NEW k, NEW T, FineWith(m, k, T), \A t \in T : t.job = k,
           ~Allowed(m, k), ~Allowed(n, k), k \notin m.consumer, k \notin n.slot,
           n.job[k] = m.job[k], n.pcm[k] = m.pcm[k], n.made[k] = m.made[k],
           n.decoder[k] = m.decoder[k],
           k \in n.consumer <=> k \in m.consumer, Queued(n, k) <=> Queued(m, k)
    PROVE  FineWith(n, k, T)
  <1>1. Idles(n, k) <=> Idles(m, k)
    BY DEF Idles
  <1>2. /\ ~n.att[k].accepting /\ ~n.att[k].tailAllowed
        /\ ~m.att[k].accepting /\ ~m.att[k].tailAllowed
    BY DEF Allowed
  <1>3. \A t \in T : Starts(n, t) <=> Starts(m, t)
    BY DEF Starts
  <1>4. AttemptServed(n, k, T)
    BY <1>2 DEF AttemptServed, Allowed
  <1>5. AudioHeld(n, k, T)
    <2>1. \A t \in T : ~Holds(t)
      BY DEF FineWith, AudioHeld
    <2>2. QED BY <1>1, <1>2, <2>1 DEF FineWith, AudioHeld
  <1>6. OneWorker(n, k, T)
    BY <1>3 DEF FineWith, OneWorker
  <1>7. DecoderKnown(n, k, T)
    BY <1>1, <1>2 DEF FineWith, DecoderKnown
  <1>8. StateKnown(n, k, T)
    BY <1>2 DEF FineWith, StateKnown
  <1>9. TailAlone(n, k, T)
    BY DEF FineWith, TailAlone
  <1>10. QED BY <1>4, <1>5, <1>6, <1>7, <1>8, <1>9 DEF FineWith

(* Its decoder is dropped.                                                 *)
LEMMA UndecodedIsFine ==
    ASSUME NEW m, NEW n, NEW k, NEW T, FineWith(m, k, T), \A t \in T : t.job = k, ~Allowed(m, k),
           n.job[k] = m.job[k], n.pcm[k] = m.pcm[k], n.att[k] = m.att[k], n.made[k] = m.made[k],
           n.decoder[k] = NoDecoder, k \in n.slot <=> k \in m.slot,
           k \in n.consumer <=> k \in m.consumer, Queued(n, k) <=> Queued(m, k)
    PROVE  FineWith(n, k, T)
  <1>1. ~Allowed(n, k) /\ ~Idles(n, k) /\ n.decoder[k].att = 0
    BY DEF Allowed, Idles, NoDecoder
  <1>2. ~n.att[k].accepting /\ ~n.att[k].tailAllowed
    BY <1>1 DEF Allowed
  <1>3. \A t \in T : Starts(n, t) <=> Starts(m, t)
    BY DEF Starts
  <1>4. AttemptServed(n, k, T)
    BY <1>1, <1>2 DEF AttemptServed
  <1>5. AudioHeld(n, k, T)
    BY <1>1, <1>2 DEF FineWith, AudioHeld
  <1>6. OneWorker(n, k, T)
    BY <1>1, <1>3 DEF FineWith, OneWorker, Starts
  <1>7. DecoderKnown(n, k, T)
    BY <1>1, <1>2 DEF FineWith, DecoderKnown
  <1>8. StateKnown(n, k, T)
    BY <1>2 DEF FineWith, StateKnown
  <1>9. TailAlone(n, k, T)
    BY <1>1 DEF FineWith, TailAlone
  <1>10. QED BY <1>4, <1>5, <1>6, <1>7, <1>8, <1>9 DEF FineWith

(* What a thread is not, by where it is.                                   *)
LEMMA RolesOf ==
    ASSUME NEW u
    PROVE  /\ u.at = "threw" \/ u.at \in Starting \cup Arriving \cup Ending \cup Booting =>
                 /\ ~Works(u) /\ ~Holds(u) /\ ~InChunk(u) /\ ~InRefusal(u) /\ ~InConsume(u)
                 /\ ~InTail(u) /\ ~Leads(u)
                 /\ u.at \notin Chunking \cup Windowing \cup Tailing \cup {"failing", "finish", "tail"}
           /\ u.at \in Tailing => u.at \notin Chunking \cup Windowing \cup Starting
           /\ u.at \in Chunking => InChunk(u) /\ Holds(u) /\ Works(u) /\ ~InTail(u) /\ ~Leads(u)
                 /\ ~InRefusal(u) /\ ~InConsume(u)
           /\ u.at \in Windowing => InConsume(u) /\ Holds(u) /\ Works(u) /\ ~InTail(u) /\ Leads(u)
                 /\ ~InRefusal(u) /\ ~InChunk(u)
           /\ u.at \in {"finish", "tail"} => Works(u) /\ Leads(u) /\ ~Holds(u) /\ ~InTail(u)
                 /\ ~InRefusal(u) /\ ~InChunk(u) /\ ~InConsume(u)
           /\ u.at \in Tailing => ~Works(u) /\ ~Holds(u) /\ ~InChunk(u) /\ ~InRefusal(u)
                 /\ ~InConsume(u) /\ InTail(u) /\ ~Leads(u)
           /\ u.at \in {"threw", "finish", "tail", "failing"} \cup Chunking \cup Windowing \cup Tailing =>
                 u.at \notin Starting \cup Arriving \cup Ending \cup Booting
           /\ u.at \in Chunking \cup Windowing \cup Tailing =>
                 u.at \notin {"threw", "finish", "tail", "failing"}
           /\ u.at \in Arriving \cup Ending => u.at \notin {"threw", "finish", "tail", "failing"} \cup Starting
           /\ u.at \in Starting => u.at \notin {"threw", "finish", "tail", "failing"} \cup Arriving \cup Ending
  BY DEF Works, Holds, InChunk, InRefusal, InConsume, InTail, Leads,
         Chunking, Windowing, Tailing, Starting, Arriving, Ending, Booting

(* A thread that holds audio of a stopped job leaves: nothing is held then *)
(* but what another stop will drop.  Its decoder, if it has one, is told,  *)
(* or will be by the thread that throws.                                   *)
LEMMA LeftIsFine ==
    ASSUME NEW m, NEW n, NEW k, NEW T, FineWith(m, k, T), \A t \in T : t.job = k,
           ~Allowed(m, k), ~Allowed(n, k), NEW t \in T, Holds(t),
           k \notin n.slot, k \notin n.consumer, n.pcm[k] = m.pcm[k],
           m.pcm[k] = 0 \/ Stops(T \ {t}),
           n.job[k] = m.job[k], n.made[k] = m.made[k], Queued(n, k) <=> Queued(m, k),
           m.decoder[k].busy \in BOOLEAN,
           NEW U, \A u \in U : u \in T \ {t} \/ (u.at = "threw" /\ u.att = t.att /\ InChunk(t) /\ u.job = k),
           \A u \in T \ {t} : u \in U,
           \/ n.decoder[k] = m.decoder[k] /\ (m.decoder[k].att # t.att \/ m.decoder[k].att = 0
                                                \/ \E u \in U : u.at = "threw" /\ u.att = t.att)
           \/ t.at \in Chunking /\ m.decoder[k].att = t.att /\ n.decoder[k].att = t.att
              /\ ~n.decoder[k].busy
    PROVE  FineWith(n, k, U)
  <1>1. /\ \A u \in T : ~InTail(u) /\ ~Starts(m, u) /\ (Works(u) => u = t)
        /\ ~Idles(m, k) /\ t.att = m.made[k]
        /\ m.job[k].state \notin {"saving", "recapping", "decoding", "transcribing"}
    BY WorkerKnows DEF Works
  <1>2. /\ ~n.att[k].accepting /\ ~n.att[k].tailAllowed
        /\ ~m.att[k].accepting /\ ~m.att[k].tailAllowed
    BY DEF Allowed
  <1>3. \A u \in U : u \in T \/ u.at = "threw"
    OBVIOUS
  <1>4. \A u \in U : /\ ~Works(u) /\ ~Holds(u) /\ ~InChunk(u) /\ ~InRefusal(u) /\ ~Leads(u)
                     /\ ~InTail(u) /\ ~Starts(n, u) /\ ~InConsume(u)
                     /\ u.at \notin Chunking \cup Windowing \cup {"finish", "tail"}
    <2> SUFFICES ASSUME NEW u \in U
                 PROVE /\ ~Works(u) /\ ~Holds(u) /\ ~InChunk(u) /\ ~InRefusal(u) /\ ~Leads(u)
                       /\ ~InTail(u) /\ ~Starts(n, u) /\ ~InConsume(u)
                       /\ u.at \notin Chunking \cup Windowing \cup {"finish", "tail"}
      OBVIOUS
    <2>1. CASE u \in T \ {t}
      <3>1. ~Works(u) /\ ~InTail(u) /\ ~Starts(n, u)
        BY <1>1, <2>1 DEF Starts
      <3>2. QED BY <3>1, RolesOf DEF Works, Holds, Leads, InChunk, InConsume
    <2>2. CASE u.at = "threw"
      BY <2>2, RolesOf DEF Starts
    <2>3. QED BY <2>1, <2>2
  <1>5. AttemptServed(n, k, U)
    BY <1>2 DEF AttemptServed, Allowed
  <1>6. AudioHeld(n, k, U)
    <2>1. Stops(T \ {t}) => Stops(U)
      BY DEF Stops
    <2>2. \A u \in U : u.at = "created" => k \notin n.slot
      OBVIOUS
    <2>3. QED BY <1>2, <1>4, <2>1 DEF AudioHeld
  <1>7. OneWorker(n, k, U)
    BY <1>4 DEF OneWorker
  <1>8. DecoderKnown(n, k, U)
    <2>1. /\ InChunk(t) => t.att > 0
          /\ \A u \in T : u.at = "threw" => u.att > 0
          /\ t.at \in Chunking /\ m.decoder[k].att > 0 =>
                m.job[k].state \in {"decoding", "transcribing", "cancelled"}
          /\ m.decoder[k].att > 0 /\ m.decoder[k].busy =>
                \E x \in T : (InChunk(x) \/ InRefusal(x) \/ x.at = "threw") /\ x.att = m.decoder[k].att
      BY DEF FineWith, DecoderKnown
    <2>2. \A u \in U : u.at = "threw" => u.att > 0
      BY <2>1
    <2>3. CASE n.decoder[k] = m.decoder[k]
      <3>1. ~Idles(n, k)
        BY <2>3, <1>1 DEF Idles
      <3>2. ASSUME n.decoder[k].att > 0, n.decoder[k].busy
            PROVE \E u \in U : (InChunk(u) \/ InRefusal(u) \/ u.at = "threw") /\ u.att = n.decoder[k].att
        <4>1. PICK x \in T : (InChunk(x) \/ InRefusal(x) \/ x.at = "threw") /\ x.att = m.decoder[k].att
          BY <2>1, <2>3, <3>2
        <4>2. CASE x # t
          <5>1. x \in U
            BY <4>2
          <5>2. QED BY <4>1, <5>1, <2>3
        <4>3. CASE x = t
          <5>1. m.decoder[k].att = t.att /\ m.decoder[k].att # 0
            BY <4>1, <4>3, <2>3, <3>2
          <5>2. \E u \in U : u.at = "threw" /\ u.att = t.att
            BY <5>1, <2>3, <2>1, <3>2
          <5>3. QED BY <5>1, <5>2, <2>3
        <4>4. QED BY <4>2, <4>3
      <3>3. QED BY <1>4, <2>2, <3>1, <3>2 DEF DecoderKnown
    <2>4. CASE t.at \in Chunking /\ m.decoder[k].att = t.att /\ n.decoder[k].att = t.att /\ ~n.decoder[k].busy
      <3>1. InChunk(t) /\ t.att > 0
        BY <2>1, <2>4, RolesOf
      <3>2. n.job[k].state \in {"decoding", "transcribing", "cancelled"}
        BY <2>1, <2>4, <3>1
      <3>3. QED BY <1>1, <1>4, <2>2, <2>4, <3>2 DEF DecoderKnown
    <2>5. QED BY <2>3, <2>4
  <1>9. StateKnown(n, k, U)
    <2>1. \A u \in U : u.at \in Arriving \cup Ending \cup {"failing"} => u \in T
      BY RolesOf
    <2>2. \A u \in T : u.at \in Arriving => u # t
      BY RolesOf DEF Works
    <2>3. \A u \in T : u.at \in Arriving => u \in U
      BY <2>2
    <2>4. QED BY <1>1, <1>2, <1>4, <2>1, <2>3 DEF FineWith, StateKnown
  <1>10. TailAlone(n, k, U)
    BY <1>4 DEF TailAlone
  <1>11. QED BY <1>5, <1>6, <1>7, <1>8, <1>9, <1>10 DEF FineWith

(* A thread that only stops its job is gone: the job has nothing left that *)
(* it should have dropped.                                                 *)
LEMMA StopperGone ==
    ASSUME NEW m, NEW n, NEW k, NEW T, FineWith(m, k, T), \A t \in T : t.job = k,
           ~Allowed(m, k), NEW t \in T, t.at \in Ending \cup {"failing"},
           InRefusal(t) => \/ m.decoder[k].att \in {0, t.att} /\ n.decoder[k] = NoDecoder
                           \/ m.decoder[k].att # t.att /\ n.decoder[k] = m.decoder[k],
           ~InRefusal(t) => n.decoder[k] = m.decoder[k],
           ~Holds(t), InTail(t) => FALSE,
           m.pcm[k] = 0, k \in m.slot => k \in m.consumer,
           n.job[k] = m.job[k], n.pcm[k] = m.pcm[k], n.att[k] = m.att[k], n.made[k] = m.made[k],
           k \in n.slot <=> k \in m.slot, k \in n.consumer <=> k \in m.consumer,
           Queued(n, k) <=> Queued(m, k)
    PROVE  FineWith(n, k, T \ {t})
  <1> DEFINE U == T \ {t}
  <1>0. \A u \in U : u \in T
    BY DEF U
  <1>1. \A u \in T : u # t => u \in U
    BY DEF U
  <1> HIDE DEF U
  <1>2. /\ ~n.att[k].accepting /\ ~n.att[k].tailAllowed /\ ~Allowed(n, k)
        /\ ~m.att[k].accepting /\ ~m.att[k].tailAllowed
    BY DEF Allowed
  <1>3. \A u \in T : Starts(n, u) <=> Starts(m, u)
    BY DEF Starts
  <1>4. t.at \notin Arriving /\ t.at # "threw" /\ (~InRefusal(t) => ~Works(t)) /\ ~InChunk(t)
        /\ ~InTail(t)
    <2>1. t.at \notin Arriving \cup {"threw", "finish", "tail"}
      BY DEF Ending, Arriving
    <2>2. QED BY <2>1 DEF Works, Holds
  <1>5. AttemptServed(n, k, U)
    BY <1>2 DEF AttemptServed
  <1>6. AudioHeld(n, k, U)
    <2>1. k \in m.consumer => \E u \in U : Holds(u)
      BY <1>1 DEF FineWith, AudioHeld
    <2>2. QED BY <1>0, <1>2, <2>1 DEF FineWith, AudioHeld
  <1>7. OneWorker(n, k, U)
    <2>1. n.decoder[k] = m.decoder[k] \/ n.decoder[k].att = 0
      BY DEF NoDecoder
    <2>2. QED BY <1>0, <1>3, <2>1 DEF FineWith, OneWorker
  <1>8. DecoderKnown(n, k, U)
    <2>1. CASE n.decoder[k] = m.decoder[k]
      <3>1. Idles(n, k) <=> Idles(m, k)
        BY <2>1 DEF Idles
      <3>2. n.decoder[k].att > 0 /\ n.decoder[k].busy =>
              \E x \in U : (InChunk(x) \/ InRefusal(x) \/ x.at = "threw") /\ x.att = n.decoder[k].att
        <4>1. m.decoder[k].att > 0 /\ m.decoder[k].busy =>
              \E x \in T : (InChunk(x) \/ InRefusal(x) \/ x.at = "threw") /\ x.att = m.decoder[k].att
          BY DEF FineWith, DecoderKnown
        <4>2. InRefusal(t) => m.decoder[k].att # t.att \/ m.decoder[k].att = 0
          BY <2>1 DEF NoDecoder
        <4>3. QED BY <1>1, <1>4, <2>1, <4>1, <4>2
      <3>3. QED BY <1>0, <1>2, <2>1, <3>1, <3>2 DEF FineWith, DecoderKnown
    <2>2. CASE n.decoder[k] = NoDecoder
      <3>1. n.decoder[k].att = 0 /\ ~Idles(n, k)
        BY <2>2 DEF NoDecoder, Idles
      <3>2. QED BY <1>0, <1>2, <3>1 DEF FineWith, DecoderKnown
    <2>3. QED BY <2>1, <2>2
  <1>9. StateKnown(n, k, U)
    BY <1>0, <1>1, <1>2, <1>4 DEF FineWith, StateKnown
  <1>10. TailAlone(n, k, U)
    BY <1>0, <1>2 DEF FineWith, TailAlone
  <1>11. FineWith(n, k, U)
    BY <1>5, <1>6, <1>7, <1>8, <1>9, <1>10 DEF FineWith
  <1>12. QED BY <1>11 DEF U

(* A thread that nobody waits for is gone.                                 *)
LEMMA IdlerGone ==
    ASSUME NEW m, NEW k, NEW T, FineWith(m, k, T), NEW t \in T,
           t.at = "threw" \/ t.at \in Starting \cup {"surfaced", "closed"},
           Starts(m, t) => ~m.att[k].accepting,
           t.at = "threw" => m.decoder[k].att # t.att
    PROVE  FineWith(m, k, T \ {t})
  <1> DEFINE U == T \ {t}
  <1>0. \A u \in U : u \in T
    BY DEF U
  <1>1. \A u \in T : u # t => u \in U
    BY DEF U
  <1> HIDE DEF U
  <1>2. /\ ~Works(t) /\ ~InTail(t) /\ ~InChunk(t) /\ ~InRefusal(t) /\ ~Holds(t) /\ ~Leads(t)
        /\ t.at \notin Ending \cup Arriving \cup {"failing", "finish", "tail", "overflow"}
    BY RolesOf DEF Booting, Starting, Ending, Arriving, Chunking
  <1>3. Stops(U) <=> Stops(T)
    BY <1>0, <1>1, <1>2 DEF Stops
  <1>5. AttemptServed(m, k, U)
    BY <1>0, <1>1, <1>2 DEF FineWith, AttemptServed
  <1>6. AudioHeld(m, k, U)
    BY <1>0, <1>1, <1>2, <1>3 DEF FineWith, AudioHeld
  <1>7. OneWorker(m, k, U)
    BY <1>0 DEF FineWith, OneWorker
  <1>8. DecoderKnown(m, k, U)
    BY <1>0, <1>1, <1>2 DEF FineWith, DecoderKnown
  <1>9. StateKnown(m, k, U)
    BY <1>0, <1>1, <1>2 DEF FineWith, StateKnown
  <1>10. TailAlone(m, k, U)
    BY <1>0 DEF FineWith, TailAlone
  <1>11. FineWith(m, k, U)
    BY <1>5, <1>6, <1>7, <1>8, <1>9, <1>10 DEF FineWith
  <1>12. QED BY <1>11 DEF U

(* The tail is gone, and leaves its job done, cancelled or failed.         *)
LEMMA TailGone ==
    ASSUME NEW m, NEW n, NEW k, NEW T, FineWith(m, k, T), \A t \in T : t.job = k,
           NEW t \in T, InTail(t),
           m.job[k].state \in {"done", "cancelled", "failed"}, k \notin m.slot,
           n.job[k].state = m.job[k].state, n.job[k].vad = m.job[k].vad,
           n.job[k].file = m.job[k].file \/ m.job[k].state = "cancelled",
           n.pcm[k] = m.pcm[k], n.att[k] = m.att[k], n.made[k] = m.made[k],
           n.decoder[k] = m.decoder[k],
           k \in n.slot <=> k \in m.slot, k \in n.consumer <=> k \in m.consumer,
           Queued(n, k) <=> Queued(m, k)
    PROVE  FineWith(n, k, T \ {t})
  <1> DEFINE U == T \ {t}
  <1>0. \A u \in U : u \in T
    BY DEF U
  <1>1. \A u \in T : u # t => u \in U
    BY DEF U
  <1> HIDE DEF U
  <1>2. /\ ~Allowed(m, k) /\ m.pcm[k] = 0
        /\ \A u \in T : ~Works(u) /\ (InTail(u) => u = t) /\ u.at \notin Arriving
        /\ ~Queued(m, k) /\ m.decoder[k].att = 0
    BY DEF FineWith, TailAlone, DecoderKnown
  <1>3. /\ ~n.att[k].accepting /\ ~n.att[k].tailAllowed /\ ~Allowed(n, k)
    BY <1>2 DEF Allowed
  <1>4. \A u \in U : ~Works(u) /\ ~InTail(u) /\ u.at \notin Arriving /\ ~Holds(u) /\ ~InConsume(u)
                     /\ ~InChunk(u) /\ u.at \notin {"finish", "tail"} \cup Chunking \cup Windowing
    BY <1>0, <1>2, <1>1, RolesOf DEF U, Works, Holds
  <1>5. ~Idles(n, k) /\ k \notin n.consumer
    BY <1>2 DEF Idles, FineWith, AudioHeld, Works
  <1>6. AttemptServed(n, k, U)
    BY <1>3 DEF AttemptServed
  <1>7. AudioHeld(n, k, U)
    BY <1>2, <1>3, <1>4, <1>5 DEF AudioHeld
  <1>8. OneWorker(n, k, U)
    <2>1. \A u \in T : Starts(n, u) <=> Starts(m, u)
      BY DEF Starts
    <2>2. QED BY <1>0, <1>4, <2>1 DEF FineWith, OneWorker
  <1>9. DecoderKnown(n, k, U)
    <2>1. \A u \in U : u.at = "threw" => u.att > 0
      BY <1>0 DEF FineWith, DecoderKnown
    <2>2. QED BY <1>2, <1>4, <1>5, <2>1 DEF DecoderKnown
  <1>10. StateKnown(n, k, U)
    BY <1>0, <1>2, <1>4 DEF FineWith, StateKnown
  <1>11. TailAlone(n, k, U)
    BY <1>4 DEF TailAlone
  <1>12. FineWith(n, k, U)
    BY <1>6, <1>7, <1>8, <1>9, <1>10, <1>11 DEF FineWith
  <1>13. QED BY <1>12 DEF U

-----------------------------------------------------------------------------
(* A job that starts, and one that fails.                                  *)

(* Its claim has been saved.                                               *)
LEMMA StartMoved ==
    ASSUME NEW m, NEW k, NEW T, FineWith(m, k, T), NEW t \in T, t.job = k,
           t.at \in Starting, NEW u, u.at \in Starting, u.att = t.att, u.job = t.job
    PROVE  FineWith(m, k, (T \ {t}) \cup {u})
  <1> DEFINE U == (T \ {t}) \cup {u}
  <1>0. u \in U /\ \A x \in U : x = u \/ (x \in T /\ x # t)
    BY DEF U
  <1>1. \A x \in T : x # t => x \in U
    BY DEF U
  <1> HIDE DEF U
  <1>2. Starts(m, u) <=> Starts(m, t)
    BY DEF Starts
  <1>3. /\ ~Works(t) /\ ~InTail(t) /\ ~InChunk(t) /\ ~InRefusal(t) /\ ~Holds(t) /\ ~Leads(t)
        /\ t.at \notin Ending \cup Arriving \cup Chunking \cup {"failing", "finish", "tail", "overflow", "threw"}
    BY RolesOf DEF Starting, Ending, Arriving, Chunking
  <1>4. /\ ~Works(u) /\ ~InTail(u) /\ ~InChunk(u) /\ ~InRefusal(u) /\ ~Holds(u) /\ ~Leads(u) /\ ~InConsume(u)
        /\ u.at \notin Ending \cup Arriving \cup Chunking \cup Windowing \cup Tailing
        /\ u.at \notin {"failing", "finish", "tail", "overflow", "threw", "created", "decoding"}
    BY RolesOf DEF Starting, Ending, Arriving, Chunking
  <1>5. Stops(U) <=> Stops(T)
    BY <1>0, <1>1, <1>3, <1>4 DEF Stops
  <1>6. AttemptServed(m, k, U)
    BY <1>0, <1>1, <1>2, <1>3, <1>4 DEF FineWith, AttemptServed
  <1>7. AudioHeld(m, k, U)
    BY <1>0, <1>1, <1>3, <1>4, <1>5 DEF FineWith, AudioHeld
  <1>8. OneWorker(m, k, U)
    <2>1. \A x, y \in U : Works(x) /\ Works(y) => x = y
      BY <1>0, <1>4 DEF FineWith, OneWorker
    <2>2. \A x \in U : Works(x) => x.att = m.made[k]
      BY <1>0, <1>4 DEF FineWith, OneWorker
    <2>3. ASSUME NEW x \in U, Starts(m, x)
          PROVE  /\ \A y \in U : ~Works(y) /\ ~InTail(y) /\ (Starts(m, y) => y = x)
                 /\ m.decoder[k].att # x.att /\ x.att > 0 /\ m.pcm[k] = 0
      <3>1. CASE x = u
        <4>1. /\ \A y \in T : ~Works(y) /\ ~InTail(y) /\ (Starts(m, y) => y = t)
              /\ m.decoder[k].att # t.att /\ t.att > 0 /\ m.pcm[k] = 0
          BY <2>3, <3>1, <1>2 DEF FineWith, OneWorker
        <4>2. QED BY <4>1, <3>1, <1>0, <1>4
      <3>2. CASE x # u
        <4>1. x \in T /\ x # t
          BY <3>2, <1>0
        <4>2. /\ \A y \in T : ~Works(y) /\ ~InTail(y) /\ (Starts(m, y) => y = x)
              /\ m.decoder[k].att # x.att /\ x.att > 0 /\ m.pcm[k] = 0
          BY <2>3, <4>1 DEF FineWith, OneWorker
        <4>3. ~Starts(m, u)
          BY <4>1, <4>2, <1>2
        <4>4. QED BY <4>2, <4>3, <1>0, <1>4
      <3>3. QED BY <3>1, <3>2
    <2>4. QED BY <2>1, <2>2, <2>3 DEF OneWorker
  <1>9. DecoderKnown(m, k, U)
    BY <1>0, <1>1, <1>3, <1>4 DEF FineWith, DecoderKnown
  <1>10. StateKnown(m, k, U)
    BY <1>0, <1>1, <1>3, <1>4 DEF FineWith, StateKnown
  <1>11. TailAlone(m, k, U)
    BY <1>0, <1>4 DEF FineWith, TailAlone
  <1>12. FineWith(m, k, U)
    BY <1>6, <1>7, <1>8, <1>9, <1>10, <1>11 DEF FineWith
  <1>13. QED BY <1>12 DEF U

(* Its decoder starts, and waits for nobody.                               *)
LEMMA DecodedIsFine ==
    ASSUME NEW m, NEW n, NEW k, NEW T, FineWith(m, k, T), \A t \in T : t.job = k,
           Allowed(m, k), NEW t \in T, Starts(m, t),
           n.decoder[k].att = t.att, ~n.decoder[k].busy, m.job[k].vad => n.decoder[k].next = 0,
           n.job[k] = m.job[k], n.pcm[k] = m.pcm[k], n.att[k] = m.att[k], n.made[k] = m.made[k],
           k \in n.slot <=> k \in m.slot, k \in n.consumer <=> k \in m.consumer,
           Queued(n, k) <=> Queued(m, k)
    PROVE  FineWith(n, k, T \ {t})
  <1> DEFINE U == T \ {t}
  <1>0. \A u \in U : u \in T /\ u # t
    BY DEF U
  <1>1. \A u \in T : u # t => u \in U
    BY DEF U
  <1> HIDE DEF U
  <1>2. /\ \A u \in T : ~Works(u) /\ ~InTail(u) /\ (Starts(m, u) => u = t)
        /\ m.pcm[k] = 0 /\ t.att > 0 /\ t.att = m.made[k]
    BY DEF FineWith, OneWorker, Starts
  <1>3. m.job[k].state = "decoding" /\ m.att[k].tailAllowed
    BY AllowedKnows DEF FineWith, AttemptServed
  <1>4. m.att[k].accepting
    <2>1. \A u \in T : u.at \notin {"finish", "tail"}
      BY <1>2 DEF Works
    <2>2. QED BY <2>1, <1>3 DEF FineWith, AttemptServed
  <1>5. \A u \in U : /\ ~Works(u) /\ ~InTail(u) /\ ~Starts(n, u) /\ ~Holds(u) /\ ~InChunk(u)
                     /\ ~InConsume(u) /\ ~InRefusal(u) /\ ~Leads(u)
                     /\ u.at \notin {"finish", "tail"} \cup Chunking \cup Windowing
    BY <1>0, <1>2, RolesOf DEF Works, Holds, Leads, Starts
  <1>6. \A u \in U : u.at \notin Arriving \cup Ending \cup {"failing", "created"}
    BY <1>0, AllowedKnows DEF Arriving
  <1>7. Idles(n, k) /\ (Allowed(n, k) <=> Allowed(m, k))
    BY <1>2 DEF Idles, Allowed
  <1>8. ~Stops(U) /\ k \notin n.consumer
    <2>1. k \notin m.consumer
      BY <1>2 DEF FineWith, AudioHeld, Works
    <2>2. QED BY <1>6, <2>1 DEF Stops
  <1>9. AttemptServed(n, k, U)
    BY <1>3, <1>4, <1>5, <1>6, <1>7, RolesOf DEF AttemptServed, Chunking
  <1>10. AudioHeld(n, k, U)
    BY <1>2, <1>4, <1>5, <1>6, <1>8 DEF AudioHeld
  <1>11. OneWorker(n, k, U)
    BY <1>5 DEF OneWorker
  <1>12. DecoderKnown(n, k, U)
    <2>1. \A u \in U : u.at = "threw" => u.att > 0
      BY <1>0 DEF FineWith, DecoderKnown
    <2>2. QED BY <1>2, <1>3, <1>5, <1>7, <2>1 DEF DecoderKnown
  <1>13. StateKnown(n, k, U)
    BY <1>3, <1>4, <1>5, <1>6, AllowedKnows DEF StateKnown
  <1>14. TailAlone(n, k, U)
    BY <1>5 DEF TailAlone
  <1>15. FineWith(n, k, U)
    BY <1>9, <1>10, <1>11, <1>12, <1>13, <1>14 DEF FineWith
  <1>16. QED BY <1>15 DEF U

(* A failure is being written: of a job whose attempt might have gone on,  *)
(* with the threads R that are left, none of which leads on to the tail.   *)
LEMMA FailedIsFine ==
    ASSUME NEW m, NEW n, NEW k, NEW T, FineWith(m, k, T), \A t \in T : t.job = k,
           Allowed(m, k), NEW R \in SUBSET T, NEW u, u.at = "failing", u.job = k, ~InTail(u),
           \A x \in R : ~Leads(x),
           Works(u) => u.att = m.made[k] /\ u.att > 0 /\ \A x \in R : ~Works(x) /\ ~Starts(m, x),
           Holds(u) => k \in n.slot /\ k \in n.consumer /\ u.att = n.att[k].id,
           InConsume(u) => m.pcm[k] = 0,
           k \in n.consumer => \E x \in R \cup {u} : Holds(x),
           \/ n.decoder[k] = NoDecoder
           \/ /\ \A x \in R : ~Works(x)
              /\ n.decoder[k].busy \/ n.decoder[k].att = 0
              /\ n.decoder[k].att = m.decoder[k].att
              /\ n.decoder[k].att > 0 =>
                    \E x \in R \cup {u} : /\ InChunk(x) \/ InRefusal(x) \/ x.at = "threw"
                                          /\ x.att = n.decoder[k].att
              /\ InChunk(u) => n.decoder[k].att \in {0, u.att}
              /\ Leads(u) => n.decoder[k].att = 0,
           m.decoder[k].att \in Nat,
           n.job[k].state = "failed", n.job[k].vad = m.job[k].vad,
           n.pcm[k] = m.pcm[k], ~Allowed(n, k), n.made[k] = m.made[k],
           n.att[k].id = m.att[k].id \/ \A x \in R : ~Works(x),
           k \in n.slot <=> k \in m.slot, k \in n.consumer <=> k \in m.consumer,
           Queued(n, k) <=> Queued(m, k)
    PROVE  FineWith(n, k, R \cup {u})
  <1> DEFINE U == R \cup {u}
  <1>0. u \in U /\ \A x \in U : x = u \/ (x \in R /\ x \in T)
    BY DEF U
  <1>1. \A x \in R : x \in U
    BY DEF U
  <1>00. k \in n.consumer => \E x \in U : Holds(x)
    BY DEF U
  <1>01. \/ n.decoder[k] = NoDecoder
         \/ /\ \A x \in R : ~Works(x)
            /\ n.decoder[k].busy \/ n.decoder[k].att = 0
            /\ n.decoder[k].att = m.decoder[k].att
            /\ n.decoder[k].att > 0 =>
                  \E x \in U : /\ InChunk(x) \/ InRefusal(x) \/ x.at = "threw"
                               /\ x.att = n.decoder[k].att
            /\ InChunk(u) => n.decoder[k].att \in {0, u.att}
            /\ Leads(u) => n.decoder[k].att = 0
    BY DEF U
  <1> HIDE DEF U
  <1>2. /\ m.job[k].state \in {"decoding", "transcribing"} /\ ~Queued(m, k)
        /\ \A x \in T : ~InTail(x) /\ x.at \notin Arriving \cup Ending \cup {"failing"}
    BY AllowedKnows
  <1>3. Stops(U) /\ ~n.att[k].accepting /\ ~n.att[k].tailAllowed
    BY <1>0 DEF Stops, Allowed
  <1>4. u.at \notin Starting \cup Arriving \cup Chunking \cup Windowing \cup Ending \cup {"tail", "finish", "threw", "overflow", "created"}
    BY DEF Starting, Arriving, Chunking, Windowing, Ending
  <1>5. \A x \in U : ~InTail(x) /\ x.at \notin Arriving \cup Ending \cup Windowing \cup {"tail", "finish"}
    BY <1>0, <1>2, <1>4 DEF Leads, InConsume
  <1>6. ~Idles(n, k)
    BY <1>01 DEF Idles, NoDecoder
  <1>7. AttemptServed(n, k, U)
    BY <1>3 DEF AttemptServed, Allowed
  <1>8. AudioHeld(n, k, U)
    <2>1. \A x \in U : x.at \in Chunking => ~n.job[k].vad
      BY <1>0, <1>4 DEF FineWith, AudioHeld
    <2>2. \A x \in U : InConsume(x) => n.pcm[k] = 0
      BY <1>0 DEF FineWith, AudioHeld
    <2>3. \A x \in U : x.at \notin {"tail", "created"}
      BY <1>5 DEF Arriving
    <2>4. \A x \in U : Holds(x) => k \in n.slot /\ k \in n.consumer /\ x.att = n.att[k].id
      <3>1. ASSUME NEW x \in R, Holds(x) PROVE k \in n.slot /\ k \in n.consumer /\ x.att = n.att[k].id
        <4>1. x \in T /\ k \in m.slot /\ k \in m.consumer /\ x.att = m.att[k].id
          BY <3>1 DEF FineWith, AudioHeld
        <4>2. QED BY <3>1, <4>1 DEF Works
      <3>2. QED BY <3>1, <1>0
    <2>5. QED BY <1>00, <1>3, <1>6, <2>1, <2>2, <2>3, <2>4 DEF AudioHeld
  <1>9. OneWorker(n, k, U)
    <2>1. \A x \in U : Starts(n, x) <=> Starts(m, x) /\ x # u
      <3>1. ~Starts(n, u) /\ ~Starts(m, u)
        BY <1>4 DEF Starts
      <3>2. \A x \in R : Starts(n, x) <=> Starts(m, x)
        BY DEF Starts
      <3>3. QED BY <3>1, <3>2, <1>0
    <2>2. \A x, y \in U : Works(x) /\ Works(y) => x = y
      BY <1>0 DEF FineWith, OneWorker
    <2>3. \A x \in U : Works(x) => x.att = n.made[k]
      BY <1>0 DEF FineWith, OneWorker
    <2>4. ASSUME NEW x \in U, Starts(n, x)
          PROVE  /\ \A y \in U : ~Works(y) /\ ~InTail(y) /\ (Starts(n, y) => y = x)
                 /\ n.decoder[k].att # x.att /\ x.att > 0 /\ n.pcm[k] = 0
      <3>1. x \in R /\ x \in T /\ Starts(m, x)
        BY <2>1, <2>4, <1>0
      <3>2. /\ \A y \in T : ~Works(y) /\ ~InTail(y) /\ (Starts(m, y) => y = x)
            /\ m.decoder[k].att # x.att /\ x.att > 0 /\ m.pcm[k] = 0
        BY <3>1 DEF FineWith, OneWorker
      <3>3. ~Works(u) /\ ~InTail(u)
        BY <3>1
      <3>4. n.decoder[k].att # x.att
        BY <1>01, <3>2 DEF NoDecoder
      <3>5. QED BY <3>2, <3>3, <3>4, <2>1, <1>0
    <2>5. QED BY <2>2, <2>3, <2>4 DEF OneWorker
  <1>10. DecoderKnown(n, k, U)
    <2>1. n.decoder[k].att > 0 /\ n.decoder[k].busy =>
             \E x \in U : (InChunk(x) \/ InRefusal(x) \/ x.at = "threw") /\ x.att = n.decoder[k].att
      BY <1>01 DEF NoDecoder
    <2>2. n.decoder[k] = NoDecoder => n.decoder[k].att = 0 /\ ~(n.decoder[k].att > 0)
      BY DEF NoDecoder
    <2>3. ASSUME NEW x \in R
          PROVE  /\ ~Leads(x) /\ ~InTail(x)
                 /\ InChunk(x) => n.decoder[k].att \in {0, x.att}
                 /\ InChunk(x) \/ x.at = "threw" => x.att > 0
                 /\ x.at \in Chunking => n.decoder[k].att = 0
      <3>1. /\ ~InTail(x) /\ (InChunk(x) \/ x.at = "threw" => x.att > 0)
        BY <1>2 DEF FineWith, DecoderKnown
      <3>2. CASE n.decoder[k] = NoDecoder
        BY <3>1, <3>2, <2>2
      <3>3. CASE ~Works(x)
        BY <3>1, <3>3, RolesOf DEF Works, Holds
      <3>4. QED BY <3>2, <3>3, <1>01
    <2>4. /\ Leads(u) => n.decoder[k].att = 0
          /\ InChunk(u) => n.decoder[k].att \in {0, u.att}
          /\ InChunk(u) => u.att > 0
      <3>1. InChunk(u) => Works(u)
        BY DEF Works, Holds
      <3>2. QED BY <3>1, <1>01, <2>2
    <2>5. \A x \in U : /\ Leads(x) \/ InTail(x) => n.decoder[k].att = 0
                       /\ InChunk(x) => n.decoder[k].att \in {0, x.att}
                       /\ InChunk(x) \/ x.at = "threw" => x.att > 0
                       /\ x.at \in Chunking => n.decoder[k].att = 0
      BY <2>3, <2>4, <1>0, <1>4
    <2>6. ~(n.decoder[k].att = 0 /\ n.decoder[k].att > 0)
      OBVIOUS
    <2>7. QED BY <1>3, <1>6, <2>1, <2>5, <2>6 DEF DecoderKnown
  <1>11. StateKnown(n, k, U)
    BY <1>2, <1>5 DEF StateKnown
  <1>12. TailAlone(n, k, U)
    BY <1>5 DEF TailAlone
  <1>13. FineWith(n, k, U)
    BY <1>7, <1>8, <1>9, <1>10, <1>11, <1>12 DEF FineWith
  <1>14. QED BY <1>13 DEF U

(* A job that had failed fails again, by an admission that throws late.    *)
LEMMA FailedAgain ==
    ASSUME NEW m, NEW n, NEW k, NEW T, FineWith(m, k, T), \A t \in T : t.job = k,
           m.job[k].state = "failed", ~Allowed(m, k), ~Allowed(n, k),
           NEW t \in T, t.at \in Starting,
           NEW u, u.at = "failing", u.then = "none", u.job = k,
           n.job[k].state = "failed", n.job[k].vad = m.job[k].vad, n.job[k].file = m.job[k].file,
           n.pcm[k] = m.pcm[k], n.att[k].id = m.att[k].id, n.made[k] = m.made[k],
           n.decoder[k] = m.decoder[k],
           k \in n.slot <=> k \in m.slot, k \in n.consumer <=> k \in m.consumer,
           Queued(n, k) <=> Queued(m, k)
    PROVE  FineWith(n, k, (T \ {t}) \cup {u})
  <1> DEFINE U == (T \ {t}) \cup {u}
  <1>0. u \in U /\ \A x \in U : x = u \/ (x \in T /\ x # t)
    BY DEF U
  <1>1. \A x \in T : x # t => x \in U
    BY DEF U
  <1> HIDE DEF U
  <1>2. /\ ~Works(u) /\ ~InTail(u) /\ ~InChunk(u) /\ ~InRefusal(u) /\ ~Holds(u) /\ ~Leads(u) /\ ~InConsume(u)
        /\ u.at \notin Starting \cup Arriving \cup Chunking \cup Windowing \cup Ending \cup {"tail", "finish", "threw", "overflow", "created"}
    BY DEF Starting, Arriving, Chunking, Windowing, Ending, Works, InTail, InChunk, InRefusal, Holds,
           Leads, InConsume, Tailing
  <1>3. /\ ~Works(t) /\ ~InTail(t) /\ ~InChunk(t) /\ ~InRefusal(t) /\ ~Holds(t) /\ ~Leads(t)
        /\ t.at \notin Ending \cup Arriving \cup Chunking \cup {"failing", "finish", "tail", "overflow", "threw"}
    BY RolesOf DEF Starting, Ending, Arriving, Chunking
  <1>4. /\ Stops(U) /\ ~n.att[k].accepting /\ ~n.att[k].tailAllowed
        /\ ~m.att[k].accepting /\ ~m.att[k].tailAllowed
    BY <1>0 DEF Stops, Allowed
  <1>5. \A x \in T : x.at \notin Arriving \cup {"finish", "tail"} \cup Windowing
    BY DEF FineWith, StateKnown
  <1>6. Idles(n, k) <=> Idles(m, k)
    BY DEF Idles
  <1>7. AttemptServed(n, k, U)
    BY <1>4 DEF AttemptServed, Allowed
  <1>8. AudioHeld(n, k, U)
    BY <1>0, <1>1, <1>2, <1>3, <1>4, <1>6 DEF FineWith, AudioHeld
  <1>9. OneWorker(n, k, U)
    <2>1. \A x \in U : Starts(n, x) <=> Starts(m, x) /\ x # u
      BY <1>0, <1>2 DEF Starts
    <2>2. QED BY <1>0, <1>2, <2>1 DEF FineWith, OneWorker
  <1>10. DecoderKnown(n, k, U)
    BY <1>0, <1>1, <1>2, <1>3, <1>4, <1>6 DEF FineWith, DecoderKnown
  <1>11. StateKnown(n, k, U)
    BY <1>0, <1>2, <1>5 DEF FineWith, StateKnown
  <1>12. TailAlone(n, k, U)
    <2>1. \A x \in U : InTail(x) => x \in T
      BY <1>0, <1>2
    <2>2. QED BY <1>0, <1>2, <2>1 DEF FineWith, TailAlone
  <1>13. FineWith(n, k, U)
    BY <1>7, <1>8, <1>9, <1>10, <1>11, <1>12 DEF FineWith
  <1>14. QED BY <1>13 DEF U

-----------------------------------------------------------------------------
(* A job whose attempt goes on.                                            *)

(* A thread that has no part in the work.                                  *)
Bystander(n, x) ==
    /\ ~Works(x) /\ ~Starts(n, x) /\ ~Holds(x) /\ ~InChunk(x) /\ ~InConsume(x)
    /\ ~InRefusal(x) /\ ~InTail(x) /\ ~Leads(x)
    /\ x.at \notin {"finish", "tail", "failing", "created", "overflow", "decoding"}
    /\ x.at \notin Chunking \cup Windowing \cup Arriving \cup Ending
    /\ x.at = "threw" => x.att > 0

(* Those who do not work for the job have none.                            *)
LEMMA RestKnows ==
    ASSUME NEW m, NEW n, NEW k, NEW T, FineWith(m, k, T), \A t \in T : t.job = k, Allowed(m, k),
           n.made[k] = m.made[k],
           NEW R \in SUBSET T, \A x \in R : ~Works(x) /\ ~Starts(m, x)
    PROVE  (\A x \in R : Bystander(n, x)) /\ ~Queued(m, k)
  <1>1. /\ ~Queued(m, k)
        /\ \A t \in T : ~InTail(t) /\ t.at \notin Arriving \cup Ending \cup {"failing"}
    BY AllowedKnows
  <1>2. \A x \in R : x.at = "threw" => x.att > 0
    BY DEF FineWith, DecoderKnown
  <1>3. \A x \in R : ~Starts(n, x)
    BY DEF Starts
  <1>4. ASSUME NEW x \in R
        PROVE  /\ ~Holds(x) /\ ~InChunk(x) /\ ~InConsume(x) /\ ~InRefusal(x) /\ ~Leads(x)
               /\ x.at \notin {"finish", "tail", "overflow", "decoding", "created"}
               /\ x.at \notin Chunking \cup Windowing
    <2>1. ~Works(x) /\ x.at \notin Arriving
      BY <1>1
    <2>2. QED BY <2>1, RolesOf DEF Works, Holds, Leads, Chunking, Arriving
  <1>5. QED BY <1>1, <1>2, <1>3, <1>4 DEF Bystander

(* Its decoder waits for nobody.                                           *)
LEMMA IdleIsFine ==
    ASSUME NEW m, NEW n, NEW k, NEW T, FineWith(m, k, T), \A t \in T : t.job = k, Allowed(m, k),
           NEW R \in SUBSET T, \A x \in R : ~Works(x) /\ ~Starts(m, x),
           n.made[k] = m.made[k], n.att[k].accepting, n.att[k].tailAllowed,
           Idles(n, k), n.decoder[k].att = m.made[k],
           n.job[k].state = "decoding", k \notin n.consumer, n.pcm[k] \in Nat,
           n.pcm[k] = IF n.job[k].vad THEN n.decoder[k].next ELSE 0,
           Queued(n, k) <=> Queued(m, k)
    PROVE  FineWith(n, k, R)
  <1>1. (\A x \in R : Bystander(n, x)) /\ ~Queued(m, k)
    BY RestKnows
  <1>2. ~n.job[k].vad => ~(n.pcm[k] > 0)
    OBVIOUS
  <1>3. n.decoder[k].att > 0 /\ ~n.decoder[k].busy
    BY DEF Idles
  <1>4. AttemptServed(n, k, R)
    BY <1>1 DEF Bystander, AttemptServed
  <1>5. AudioHeld(n, k, R)
    BY <1>1, <1>2 DEF Bystander, AudioHeld
  <1>6. OneWorker(n, k, R)
    BY <1>1 DEF Bystander, OneWorker
  <1>7. DecoderKnown(n, k, R)
    BY <1>1, <1>3 DEF Bystander, DecoderKnown
  <1>8. StateKnown(n, k, R)
    BY <1>1 DEF Bystander, StateKnown
  <1>9. TailAlone(n, k, R)
    BY <1>1 DEF Bystander, TailAlone
  <1>10. QED BY <1>4, <1>5, <1>6, <1>7, <1>8, <1>9 DEF FineWith

(* A chunk of it is worked on.                                             *)
LEMMA ChunkIsFine ==
    ASSUME NEW m, NEW n, NEW k, NEW T, FineWith(m, k, T), \A t \in T : t.job = k, Allowed(m, k),
           NEW R \in SUBSET T, \A x \in R : ~Works(x) /\ ~Starts(m, x),
           NEW u, u.job = k, u.at \in Chunking, u.att = m.made[k], u.att > 0, u.att = n.att[k].id,
           n.made[k] = m.made[k], n.att[k].accepting, n.att[k].tailAllowed,
           n.decoder[k].att = u.att, n.decoder[k].busy,
           n.job[k].state \in {"decoding", "transcribing"},
           u.at = "decoding" => n.job[k].state = "decoding",
           k \in n.consumer, k \in n.slot, ~n.job[k].vad,
           n.pcm[k] = 0 \/ u.at = "overflow",
           Queued(n, k) <=> Queued(m, k)
    PROVE  FineWith(n, k, R \cup {u})
  <1> DEFINE U == R \cup {u}
  <1>0. u \in U /\ \A x \in U : x = u \/ x \in R
    BY DEF U
  <1> HIDE DEF U
  <1>1. (\A x \in R : Bystander(n, x)) /\ ~Queued(m, k)
    BY RestKnows
  <1>2. /\ InChunk(u) /\ Holds(u) /\ Works(u) /\ ~InTail(u) /\ ~Leads(u) /\ ~InRefusal(u) /\ ~InConsume(u)
        /\ u.at \notin {"finish", "tail", "failing", "created"}
        /\ u.at \notin Windowing \cup Arriving \cup Ending \cup Starting
    BY RolesOf DEF Chunking, Windowing, Arriving, Ending, Starting
  <1>3. ~Idles(n, k) /\ ~Starts(n, u)
    BY <1>2 DEF Idles, Starts
  <1>4. AttemptServed(n, k, U)
    BY <1>0, <1>1, <1>2, <1>3 DEF Bystander, AttemptServed
  <1>5. AudioHeld(n, k, U)
    <2>1. n.pcm[k] = 0 => ~(n.pcm[k] > 0)
      OBVIOUS
    <2>2. QED BY <1>0, <1>1, <1>2, <1>3, <2>1 DEF Bystander, AudioHeld
  <1>6. OneWorker(n, k, U)
    BY <1>0, <1>1, <1>3 DEF Bystander, OneWorker
  <1>7. DecoderKnown(n, k, U)
    BY <1>0, <1>1, <1>2, <1>3 DEF Bystander, DecoderKnown
  <1>8. StateKnown(n, k, U)
    BY <1>0, <1>1, <1>2 DEF Bystander, StateKnown
  <1>9. TailAlone(n, k, U)
    BY <1>0, <1>1, <1>2 DEF Bystander, TailAlone
  <1>10. FineWith(n, k, U)
    BY <1>4, <1>5, <1>6, <1>7, <1>8, <1>9 DEF FineWith
  <1>11. QED BY <1>10 DEF U

(* It is past its decoder: it waits for the end of decoding, its windows   *)
(* are transcribed, or it waits for the tail.                              *)
LEMMA LeadIsFine ==
    ASSUME NEW m, NEW n, NEW k, NEW T, FineWith(m, k, T), \A t \in T : t.job = k, Allowed(m, k),
           NEW R \in SUBSET T, \A x \in R : ~Works(x) /\ ~Starts(m, x),
           NEW u, u.job = k, u.at \in Windowing \cup {"finish", "tail"}, u.att = m.made[k],
           n.made[k] = m.made[k], n.att[k].tailAllowed, n.decoder[k].att = 0,
           u.at \in Windowing => /\ n.att[k].accepting /\ u.att = n.att[k].id
                                 /\ k \in n.slot /\ k \in n.consumer,
           u.at \notin Windowing => k \notin n.consumer,
           k \in n.slot => n.att[k].accepting,
           u.at = "tail" => ~n.att[k].accepting,
           IF u.at = "finish" /\ n.job[k].vad THEN n.att[k].accepting /\ n.pcm[k] > 0
           ELSE n.pcm[k] = 0,
           n.job[k].state = IF u.at = "finish" THEN "decoding" ELSE "transcribing",
           Queued(n, k) <=> Queued(m, k)
    PROVE  FineWith(n, k, R \cup {u})
  <1> DEFINE U == R \cup {u}
  <1>0. u \in U /\ \A x \in U : x = u \/ x \in R
    BY DEF U
  <1> HIDE DEF U
  <1>1. (\A x \in R : Bystander(n, x)) /\ ~Queued(m, k)
    BY RestKnows
  <1>2. /\ Works(u) /\ ~InTail(u) /\ Leads(u) /\ ~InRefusal(u) /\ ~InChunk(u)
        /\ u.at \notin {"failing", "created", "decoding", "overflow", "threw"}
        /\ u.at \notin Chunking \cup Arriving \cup Ending \cup Starting
        /\ (Holds(u) <=> u.at \in Windowing) /\ (InConsume(u) <=> u.at \in Windowing)
        /\ u.at \in Windowing => u.at \notin {"finish", "tail"}
    BY RolesOf DEF Chunking, Windowing, Arriving, Ending, Starting
  <1>3. ~Idles(n, k) /\ ~Starts(n, u) /\ ~(n.decoder[k].att > 0)
    BY <1>2 DEF Idles, Starts
  <1>4. AttemptServed(n, k, U)
    <2>1. n.job[k].state \in {"decoding", "transcribing"}
      OBVIOUS
    <2>2. n.att[k].accepting \/ u.at \in {"finish", "tail"}
      OBVIOUS
    <2>3. u.at = "finish" => n.job[k].state = "decoding"
      OBVIOUS
    <2>4. u.at \in Windowing \cup {"tail"} => n.job[k].state = "transcribing"
      BY <1>2
    <2>5. QED BY <1>0, <1>1, <1>2, <1>3, <2>1, <2>2, <2>3, <2>4 DEF Bystander, AttemptServed
  <1>5. AudioHeld(n, k, U)
    <2>1. n.pcm[k] = 0 => ~(n.pcm[k] > 0)
      OBVIOUS
    <2>2. u.at \in Windowing \cup {"tail"} => n.pcm[k] = 0
      BY <1>2
    <2>3. n.pcm[k] > 0 => n.att[k].accepting /\ n.job[k].vad
      BY <2>1
    <2>4. n.job[k].vad /\ u.at = "finish" => n.att[k].accepting /\ n.pcm[k] > 0
      OBVIOUS
    <2>5. QED BY <1>0, <1>1, <1>2, <1>3, <2>2, <2>3, <2>4 DEF Bystander, AudioHeld
  <1>6. OneWorker(n, k, U)
    BY <1>0, <1>1, <1>3 DEF Bystander, OneWorker
  <1>7. DecoderKnown(n, k, U)
    BY <1>0, <1>1, <1>2, <1>3 DEF Bystander, DecoderKnown
  <1>8. StateKnown(n, k, U)
    <2>1. n.job[k].state \in {"decoding", "transcribing"}
      OBVIOUS
    <2>2. QED BY <1>0, <1>1, <1>2, <2>1 DEF Bystander, StateKnown
  <1>9. TailAlone(n, k, U)
    BY <1>0, <1>1, <1>2 DEF Bystander, TailAlone
  <1>10. FineWith(n, k, U)
    BY <1>4, <1>5, <1>6, <1>7, <1>8, <1>9 DEF FineWith
  <1>11. QED BY <1>10 DEF U

-----------------------------------------------------------------------------
(* The end of a decode, and the tail.                                      *)

(* The decoder of a stopped job has delivered all.                         *)
LEMMA FinishJoins ==
    ASSUME NEW m, NEW n, NEW k, NEW T, FineWith(m, k, T), \A t \in T : t.job = k,
           ~Allowed(m, k), Idles(m, k), NEW u, u.at = "finish", u.job = k, u.att = m.made[k],
           n.job[k] = m.job[k], n.pcm[k] = m.pcm[k], n.att[k] = m.att[k], n.made[k] = m.made[k],
           n.decoder[k] = NoDecoder, k \in n.slot <=> k \in m.slot,
           k \in n.consumer <=> k \in m.consumer, Queued(n, k) <=> Queued(m, k)
    PROVE  FineWith(n, k, T \cup {u})
  <1> DEFINE U == T \cup {u}
  <1>0. u \in U /\ \A x \in U : x \in T \/ x = u
    BY DEF U
  <1>1. \A x \in T : x \in U
    BY DEF U
  <1> HIDE DEF U
  <1>2. /\ ~Allowed(n, k) /\ ~n.att[k].accepting /\ ~n.att[k].tailAllowed
        /\ ~m.att[k].accepting /\ ~m.att[k].tailAllowed
        /\ ~Idles(n, k) /\ n.decoder[k].att = 0
        /\ ~(n.decoder[k].att > 0)
    BY DEF Allowed, Idles, NoDecoder
  <1>3. /\ \A x \in T : ~Works(x) /\ ~InTail(x) /\ ~Starts(m, x) /\ x.at # "failing"
        /\ m.job[k].state = "cancelled"
    <2>1. /\ m.decoder[k].att > 0 /\ m.decoder[k].att = m.made[k] /\ \A x \in T : ~Works(x)
          /\ m.job[k].state \in {"decoding", "transcribing", "cancelled"}
      BY DEF FineWith, DecoderKnown, Idles
    <2>2. \A x \in T : ~InTail(x)
      <3>1. ~(m.decoder[k].att = 0)
        BY <2>1
      <3>2. QED BY <3>1 DEF FineWith, DecoderKnown
    <2>3. m.job[k].state = "cancelled"
      BY <1>2, <2>1, <2>2 DEF FineWith, StateKnown
    <2>4. \A x \in T : x.at # "failing"
      BY <2>3 DEF FineWith, StateKnown
    <2>5. \A x \in T : Starts(m, x) => m.decoder[k].att # m.made[k]
      BY DEF FineWith, OneWorker, Starts
    <2>6. QED BY <2>1, <2>2, <2>3, <2>4, <2>5
  <1>4. /\ Works(u) /\ Leads(u) /\ ~Holds(u) /\ ~InTail(u) /\ ~InRefusal(u) /\ ~InChunk(u) /\ ~InConsume(u)
        /\ u.at \notin Starting \cup Arriving \cup Ending \cup Booting \cup Chunking \cup Windowing \cup Tailing
        /\ u.at \notin {"failing", "threw", "created", "overflow"}
    BY RolesOf DEF Chunking, Windowing, Tailing, Arriving
  <1>5. \A x \in T : ~Holds(x) /\ ~InChunk(x) /\ ~InConsume(x) /\ ~InRefusal(x) /\ ~Leads(x)
                     /\ x.at \notin {"finish", "tail"} \cup Chunking \cup Windowing
    BY <1>3, RolesOf DEF Works, Holds, Leads
  <1>6. Stops(U) <=> Stops(T)
    BY <1>0, <1>1, <1>4 DEF Stops
  <1>7. AttemptServed(n, k, U)
    BY <1>2 DEF AttemptServed
  <1>8. AudioHeld(n, k, U)
    BY <1>0, <1>1, <1>2, <1>4, <1>5, <1>6 DEF FineWith, AudioHeld
  <1>9. OneWorker(n, k, U)
    <2>1. \A x \in U : ~Starts(n, x)
      BY <1>0, <1>3, <1>4 DEF Starts
    <2>2. QED BY <1>0, <1>3, <1>4, <2>1 DEF OneWorker
  <1>10. DecoderKnown(n, k, U)
    <2>1. \A x \in T : x.at = "threw" => x.att > 0
      BY DEF FineWith, DecoderKnown
    <2>2. QED BY <1>0, <1>2, <1>3, <1>4, <1>5, <2>1 DEF DecoderKnown
  <1>11. StateKnown(n, k, U)
    BY <1>0, <1>1, <1>2, <1>3, <1>4, <1>5 DEF FineWith, StateKnown
  <1>12. TailAlone(n, k, U)
    BY <1>0, <1>3, <1>4 DEF TailAlone
  <1>13. FineWith(n, k, U)
    BY <1>7, <1>8, <1>9, <1>10, <1>11, <1>12 DEF FineWith
  <1>14. QED BY <1>13 DEF U

(* finishDecoding() finds that its job was stopped.                        *)
LEMMA LeadGone ==
    ASSUME NEW m, NEW n, NEW k, NEW T, FineWith(m, k, T), \A t \in T : t.job = k,
           ~Allowed(m, k), ~Allowed(n, k), NEW t \in T, t.at \in {"finish", "tail"},
           n.job[k] = m.job[k], n.pcm[k] = m.pcm[k], n.made[k] = m.made[k],
           n.decoder[k] = m.decoder[k],
           k \in n.slot <=> k \in m.slot, k \in n.consumer <=> k \in m.consumer,
           Queued(n, k) <=> Queued(m, k)
    PROVE  FineWith(n, k, T \ {t})
  <1> DEFINE U == T \ {t}
  <1>0. \A x \in U : x \in T /\ x # t
    BY DEF U
  <1>1. \A x \in T : x # t => x \in U
    BY DEF U
  <1> HIDE DEF U
  <1>2. /\ ~n.att[k].accepting /\ ~n.att[k].tailAllowed
        /\ ~m.att[k].accepting /\ ~m.att[k].tailAllowed
        /\ (Idles(n, k) <=> Idles(m, k))
    BY DEF Allowed, Idles
  <1>3. /\ Works(t) /\ Leads(t) /\ ~Holds(t) /\ ~InTail(t) /\ ~InRefusal(t) /\ ~InChunk(t)
        /\ t.at \notin Starting \cup Arriving \cup Ending
        /\ t.at \notin {"failing", "threw", "overflow"}
    BY RolesOf
  <1>4. \A x \in T : ~InTail(x) /\ ~Starts(m, x) /\ (Works(x) => x = t)
    BY <1>3, WorkerKnows
  <1>5. \A x \in U : ~InTail(x) /\ ~Starts(n, x) /\ ~Works(x) /\ ~Holds(x) /\ ~InConsume(x)
                     /\ ~InChunk(x) /\ ~Leads(x) /\ ~InRefusal(x)
                     /\ x.at \notin {"finish", "tail"} \cup Chunking \cup Windowing
    <2>1. \A x \in U : ~InTail(x) /\ ~Starts(n, x) /\ ~Works(x)
      BY <1>0, <1>4 DEF Starts
    <2>2. QED BY <2>1, RolesOf DEF Works, Holds, Leads
  <1>6. Stops(U) <=> Stops(T)
    BY <1>0, <1>1, <1>3 DEF Stops
  <1>7. AttemptServed(n, k, U)
    BY <1>2 DEF AttemptServed, Allowed
  <1>8. k \notin n.consumer
    BY <1>3, <1>4 DEF FineWith, AudioHeld, Works
  <1>9. AudioHeld(n, k, U)
    BY <1>0, <1>1, <1>2, <1>3, <1>5, <1>6, <1>8 DEF FineWith, AudioHeld
  <1>10. OneWorker(n, k, U)
    BY <1>5 DEF OneWorker
  <1>11. DecoderKnown(n, k, U)
    <2>1. m.decoder[k].att = 0 /\ \A x \in T : x.at = "threw" => x.att > 0
      BY <1>3 DEF FineWith, DecoderKnown
    <2>2. ~Idles(n, k) /\ ~(n.decoder[k].att > 0)
      BY <2>1 DEF Idles
    <2>3. QED BY <1>0, <1>2, <1>5, <2>1, <2>2 DEF DecoderKnown
  <1>12. StateKnown(n, k, U)
    <2>1. m.job[k].state \notin {"saving", "recapping", "decoding", "transcribing"}
      BY <1>3, WorkerKnows
    <2>2. QED BY <1>0, <1>1, <1>2, <1>3, <1>5, <2>1 DEF FineWith, StateKnown
  <1>13. TailAlone(n, k, U)
    BY <1>5 DEF TailAlone
  <1>14. FineWith(n, k, U)
    BY <1>7, <1>9, <1>10, <1>11, <1>12, <1>13 DEF FineWith
  <1>15. QED BY <1>14 DEF U

(* The transcript is whole, and its meeting is being saved.                *)
LEMMA ToSaveIsFine ==
    ASSUME NEW m, NEW n, NEW k, NEW T, FineWith(m, k, T), \A t \in T : t.job = k,
           Allowed(m, k), NEW t \in T, t.at \in {"finish", "tail"},
           NEW u, u.at = "saveMeeting", u.job = k, ~Allowed(n, k),
           n.job[k].state = m.job[k].state, n.pcm[k] = 0, n.made[k] = m.made[k],
           n.decoder[k] = m.decoder[k], k \notin n.slot,
           k \in n.consumer <=> k \in m.consumer,
           Queued(n, k) <=> Queued(m, k)
    PROVE  FineWith(n, k, (T \ {t}) \cup {u})
  <1> DEFINE U == (T \ {t}) \cup {u}
  <1>0. u \in U /\ \A x \in U : x = u \/ (x \in T /\ x # t)
    BY DEF U
  <1> HIDE DEF U
  <1>1. /\ ~n.att[k].accepting /\ ~n.att[k].tailAllowed
        /\ m.job[k].state \in {"decoding", "transcribing"} /\ ~Queued(m, k)
        /\ \A x \in T : x.at \notin Arriving \cup Ending \cup {"failing"}
    BY AllowedKnows DEF Allowed
  <1>2. /\ Works(t) /\ Leads(t) /\ ~Holds(t)
    BY RolesOf
  <1>3. \A x \in T : ~InTail(x) /\ ~Starts(m, x) /\ (Works(x) => x = t)
    BY <1>2, WorkerKnows
  <1>4. /\ ~Works(u) /\ ~Holds(u) /\ ~InChunk(u) /\ ~InRefusal(u) /\ ~InConsume(u) /\ InTail(u) /\ ~Leads(u)
        /\ ~Starts(n, u) /\ u.at \notin Chunking \cup Windowing \cup Arriving \cup Ending
    BY RolesOf DEF Tailing, Starts, Starting, Arriving, Ending
  <1>5. \A x \in U : ~Starts(n, x) /\ ~Works(x) /\ ~Holds(x) /\ ~InConsume(x)
                     /\ ~InChunk(x) /\ ~Leads(x) /\ ~InRefusal(x) /\ (InTail(x) => x = u)
                     /\ x.at \notin {"finish", "tail"} \cup Chunking \cup Windowing
                     /\ x.at \notin Arriving \cup Ending \cup {"failing", "created"}
    <2>1. \A x \in U : x # u => ~InTail(x) /\ ~Starts(n, x) /\ ~Works(x)
                                /\ x.at \notin Arriving \cup Ending \cup {"failing"}
      BY <1>0, <1>1, <1>3 DEF Starts
    <2>2. QED BY <2>1, <1>4, RolesOf DEF Works, Holds, Leads, Arriving
  <1>6. n.decoder[k].att = 0 /\ ~Idles(n, k) /\ ~(n.decoder[k].att > 0)
    BY <1>2 DEF FineWith, DecoderKnown, Idles
  <1>7. AttemptServed(n, k, U)
    BY <1>1 DEF AttemptServed, Allowed
  <1>8. k \notin n.consumer
    BY <1>2, <1>3 DEF FineWith, AudioHeld, Works
  <1>9. AudioHeld(n, k, U)
    <2>1. ~(n.pcm[k] > 0)
      OBVIOUS
    <2>2. QED BY <1>1, <1>5, <1>6, <1>8, <2>1 DEF AudioHeld
  <1>10. OneWorker(n, k, U)
    BY <1>5 DEF OneWorker
  <1>11. DecoderKnown(n, k, U)
    <2>1. \A x \in T : x.at = "threw" => x.att > 0
      BY DEF FineWith, DecoderKnown
    <2>2. \A x \in U : x.at = "threw" => x.att > 0
      BY <2>1, <1>0
    <2>3. QED BY <1>5, <1>6, <2>2 DEF DecoderKnown
  <1>12. StateKnown(n, k, U)
    BY <1>0, <1>1, <1>4, <1>5 DEF StateKnown
  <1>13. TailAlone(n, k, U)
    BY <1>0, <1>1, <1>5 DEF TailAlone
  <1>14. FineWith(n, k, U)
    BY <1>7, <1>9, <1>10, <1>11, <1>12, <1>13 DEF FineWith
  <1>15. QED BY <1>14 DEF U

(* The tail goes on, or fails.                                             *)
LEMMA TailMoved ==
    ASSUME NEW m, NEW n, NEW k, NEW T, FineWith(m, k, T), \A t \in T : t.job = k,
           NEW t \in T, InTail(t), NEW u, InTail(u), u.job = k,
           m.job[k].state # "failed",
           \/ n.job[k].state = m.job[k].state /\ n.job[k].file = m.job[k].file
           \/ /\ n.job[k].state \in {"saving", "recapping", "done", "failed"}
              /\ n.job[k].file \/ (m.job[k].state # "cancelled" /\ n.job[k].file = m.job[k].file),
           u.at = "failing" <=> n.job[k].state = "failed",
           u.at \in {"done", "removing"} => n.job[k].state = "done",
           u.at \in {"abandoning", "abandoned"} => n.job[k].state = "cancelled",
           n.job[k].vad = m.job[k].vad,
           n.pcm[k] = m.pcm[k], ~Allowed(n, k), n.made[k] = m.made[k],
           n.decoder[k] = m.decoder[k],
           k \in n.slot <=> k \in m.slot, k \in n.consumer <=> k \in m.consumer,
           Queued(n, k) <=> Queued(m, k)
    PROVE  FineWith(n, k, (T \ {t}) \cup {u})
  <1> DEFINE U == (T \ {t}) \cup {u}
  <1>0. u \in U /\ \A x \in U : x = u \/ (x \in T /\ x # t)
    BY DEF U
  <1>00. \A x \in T : x # t => x \in U
    BY DEF U
  <1> HIDE DEF U
  <1>1. /\ ~n.att[k].accepting /\ ~n.att[k].tailAllowed
        /\ ~m.att[k].accepting /\ ~m.att[k].tailAllowed
        /\ m.pcm[k] = 0 /\ ~Queued(m, k) /\ m.job[k].state # "queued" /\ m.decoder[k].att = 0
        /\ \A x \in T : ~Works(x) /\ (InTail(x) => x = t) /\ x.at \notin Arriving
    BY DEF FineWith, TailAlone, DecoderKnown, Allowed
  <1>2. \A x \in T : x.at # "failing"
    BY DEF FineWith, StateKnown
  <1>3. /\ ~Works(u) /\ ~Holds(u) /\ ~InChunk(u) /\ ~InRefusal(u) /\ ~InConsume(u) /\ ~Leads(u)
        /\ ~Starts(n, u) /\ u.at \notin Chunking \cup Windowing \cup Arriving \cup Ending
        /\ u.at \notin {"finish", "tail", "threw"}
    BY RolesOf DEF InTail, Works, Holds, InChunk, InRefusal, InConsume, Leads, Starts, Starting,
                   Chunking, Windowing, Arriving, Ending, Tailing
  <1>4. \A x \in U : ~Works(x) /\ ~Holds(x) /\ ~InConsume(x)
                     /\ ~InChunk(x) /\ ~Leads(x) /\ ~InRefusal(x) /\ (InTail(x) => x = u)
                     /\ x.at \notin {"finish", "tail"} \cup Chunking \cup Windowing
                     /\ x.at \notin Arriving
    <2>1. \A x \in U : x # u => ~InTail(x) /\ ~Works(x) /\ x.at \notin Arriving
      BY <1>0, <1>1
    <2>2. QED BY <2>1, <1>3, RolesOf DEF Works, Holds, Leads
  <1>5. ~Idles(n, k) /\ ~(n.decoder[k].att > 0)
    BY <1>1 DEF Idles
  <1>6. AttemptServed(n, k, U)
    BY <1>1 DEF AttemptServed, Allowed
  <1>7. k \notin n.consumer /\ (k \in m.slot => \E x \in T : x.at \in Ending)
    BY <1>1, <1>2 DEF FineWith, AudioHeld, Works, Stops
  <1>8. AudioHeld(n, k, U)
    <2>1. ~(n.pcm[k] > 0)
      BY <1>1
    <2>2. k \in n.slot => Stops(U)
      <3>1. t.at \notin Ending
        BY DEF InTail, Tailing, Ending
      <3>2. QED BY <3>1, <1>00, <1>7 DEF Stops
    <2>3. \A x \in U : x.at # "created"
      BY <1>4 DEF Arriving
    <2>4. QED BY <1>1, <1>4, <1>5, <1>7, <2>1, <2>2, <2>3 DEF AudioHeld
  <1>9. OneWorker(n, k, U)
    <2>1. \A x \in T : ~Starts(m, x)
      BY DEF FineWith, OneWorker
    <2>2. \A x \in U : ~Starts(n, x)
      BY <2>1, <1>0, <1>3 DEF Starts
    <2>3. QED BY <1>4, <2>2 DEF OneWorker
  <1>10. DecoderKnown(n, k, U)
    <2>1. \A x \in T : x.at = "threw" => x.att > 0
      BY DEF FineWith, DecoderKnown
    <2>2. \A x \in U : x.at = "threw" => x.att > 0
      BY <2>1, <1>0, <1>3
    <2>3. QED BY <1>1, <1>4, <1>5, <2>2 DEF DecoderKnown
  <1>11. StateKnown(n, k, U)
    <2>1. \A x \in T : x.at \in Ending =>
             \/ m.job[k].state = "cancelled"
             \/ m.job[k].file /\ m.job[k].state \in {"saving", "recapping", "done", "failed"}
      BY DEF FineWith, StateKnown
    <2>2. \A x \in U : x.at \in Ending =>
             \/ n.job[k].state = "cancelled"
             \/ n.job[k].file /\ n.job[k].state \in {"saving", "recapping", "done", "failed"}
      BY <2>1, <1>0, <1>3
    <2>3. \A x \in U : x.at = "failing" => n.job[k].state = "failed"
      BY <1>0, <1>2
    <2>4. n.job[k].state # "queued"
      BY <1>1
    <2>5. \E x \in U : InTail(x)
      BY <1>0
    <2>6. QED BY <1>1, <1>4, <2>2, <2>3, <2>4, <2>5 DEF StateKnown
  <1>12. TailAlone(n, k, U)
    BY <1>0, <1>1, <1>4 DEF TailAlone
  <1>13. FineWith(n, k, U)
    BY <1>6, <1>8, <1>9, <1>10, <1>11, <1>12 DEF FineWith
  <1>14. QED BY <1>13 DEF U

-----------------------------------------------------------------------------
(* The user's calls, and the queue.                                        *)

(* A cancel.                                                               *)
LEMMA CancelledIsFine ==
    ASSUME NEW m, NEW n, NEW k, NEW T, FineWith(m, k, T), \A t \in T : t.job = k,
           m.job[k].state \notin {"done", "failed", "cancelled", "absent"},
           NEW u, u.at = "cancelling", u.job = k,
           n.job[k].state = "cancelled", n.job[k].vad = m.job[k].vad, n.pcm[k] = m.pcm[k],
           n.att[k].id = m.att[k].id, ~Allowed(n, k), n.made[k] = m.made[k],
           n.decoder[k] = m.decoder[k],
           k \in n.slot <=> k \in m.slot, k \in n.consumer <=> k \in m.consumer,
           Queued(n, k) <=> Queued(m, k)
    PROVE  FineWith(n, k, T \cup {u})
  <1> DEFINE U == T \cup {u}
  <1>0. u \in U /\ \A x \in U : x = u \/ x \in T
    BY DEF U
  <1>1. \A x \in T : x \in U
    BY DEF U
  <1> HIDE DEF U
  <1>2. /\ ~n.att[k].accepting /\ ~n.att[k].tailAllowed /\ (Idles(n, k) <=> Idles(m, k))
    BY DEF Allowed, Idles
  <1>3. /\ ~Works(u) /\ ~Holds(u) /\ ~InChunk(u) /\ ~InRefusal(u) /\ ~InConsume(u) /\ ~Leads(u) /\ ~InTail(u)
        /\ ~Starts(n, u) /\ u.at \notin Chunking \cup Windowing \cup Arriving \cup Tailing
        /\ u.at \notin {"finish", "tail", "threw", "failing", "created", "overflow"}
    BY RolesOf DEF Ending, Starts, Starting, Chunking, Windowing, Arriving, Tailing
  <1>4. Stops(U)
    BY <1>0 DEF Stops, Ending
  <1>5. \A x \in T : x.at # "failing"
    BY DEF FineWith, StateKnown
  <1>6. AttemptServed(n, k, U)
    BY <1>2 DEF AttemptServed, Allowed
  <1>7. AudioHeld(n, k, U)
    BY <1>0, <1>1, <1>2, <1>3, <1>4 DEF FineWith, AudioHeld
  <1>8. OneWorker(n, k, U)
    <2>1. \A x \in U : Starts(n, x) <=> x # u /\ Starts(m, x)
      BY <1>0, <1>3 DEF Starts
    <2>2. QED BY <1>0, <1>3, <2>1 DEF FineWith, OneWorker
  <1>9. DecoderKnown(n, k, U)
    BY <1>0, <1>1, <1>2, <1>3 DEF FineWith, DecoderKnown
  <1>10. StateKnown(n, k, U)
    BY <1>0, <1>1, <1>3, <1>5 DEF FineWith, StateKnown
  <1>11. TailAlone(n, k, U)
    <2>1. \A x \in U : InTail(x) => x \in T
      BY <1>0, <1>3
    <2>2. QED BY <1>0, <1>3, <2>1 DEF FineWith, TailAlone
  <1>12. FineWith(n, k, U)
    BY <1>6, <1>7, <1>8, <1>9, <1>10, <1>11 DEF FineWith
  <1>13. QED BY <1>12 DEF U

(* The cancel goes on.                                                     *)
LEMMA EndingMoved ==
    ASSUME NEW m, NEW k, NEW T, FineWith(m, k, T),
           NEW t \in T, t.at \in Ending, NEW u, u.at \in Ending, u.job = k
    PROVE  FineWith(m, k, (T \ {t}) \cup {u})
  <1> DEFINE U == (T \ {t}) \cup {u}
  <1>0. u \in U /\ \A x \in U : x = u \/ x \in T
    BY DEF U
  <1>1. \A x \in T : x # t => x \in U
    BY DEF U
  <1> HIDE DEF U
  <1>3. \A x : x.at \in Ending =>
          /\ ~Works(x) /\ ~Holds(x) /\ ~InChunk(x) /\ ~InRefusal(x) /\ ~InConsume(x) /\ ~Leads(x) /\ ~InTail(x)
          /\ ~Starts(m, x) /\ x.at \notin Chunking \cup Windowing \cup Arriving \cup Tailing
          /\ x.at \notin {"finish", "tail", "threw", "failing", "created", "overflow"}
    BY RolesOf DEF Ending, Starts, Starting, Chunking, Windowing, Arriving, Tailing
  <1>4. Stops(U) /\ Stops(T)
    BY <1>0 DEF Stops
  <1>6. AttemptServed(m, k, U)
    BY <1>0, <1>1, <1>3 DEF FineWith, AttemptServed, Chunking
  <1>7. AudioHeld(m, k, U)
    BY <1>0, <1>1, <1>3, <1>4 DEF FineWith, AudioHeld
  <1>8. OneWorker(m, k, U)
    BY <1>0, <1>3 DEF FineWith, OneWorker
  <1>9. DecoderKnown(m, k, U)
    BY <1>0, <1>1, <1>3 DEF FineWith, DecoderKnown
  <1>10. StateKnown(m, k, U)
    BY <1>0, <1>1, <1>3 DEF FineWith, StateKnown
  <1>11. TailAlone(m, k, U)
    BY <1>0, <1>3 DEF FineWith, TailAlone
  <1>12. FineWith(m, k, U)
    BY <1>6, <1>7, <1>8, <1>9, <1>10, <1>11 DEF FineWith
  <1>13. QED BY <1>12 DEF U

(* A job that had failed is queued once more.                              *)
LEMMA ResumedIsFine ==
    ASSUME NEW m, NEW n, NEW k, NEW T, FineWith(m, k, T), \A t \in T : t.job = k,
           m.job[k].state = "failed", ~m.job[k].file, ~Allowed(m, k),
           \A t \in T : t.at # "failing",
           NEW u, u.at = "resumed", u.job = k,
           n.job[k].state = "queued", n.job[k].vad = m.job[k].vad, n.pcm[k] = m.pcm[k],
           n.att[k] = m.att[k], n.made[k] = m.made[k], n.decoder[k] = m.decoder[k],
           k \in n.slot <=> k \in m.slot, k \in n.consumer <=> k \in m.consumer,
           Queued(n, k) <=> Queued(m, k)
    PROVE  FineWith(n, k, T \cup {u})
  <1> DEFINE U == T \cup {u}
  <1>0. u \in U /\ \A x \in U : x = u \/ x \in T
    BY DEF U
  <1>1. \A x \in T : x \in U
    BY DEF U
  <1> HIDE DEF U
  <1>2. /\ ~n.att[k].accepting /\ ~n.att[k].tailAllowed /\ (Idles(n, k) <=> Idles(m, k))
        /\ ~m.att[k].accepting /\ ~m.att[k].tailAllowed
    BY DEF Allowed, Idles
  <1>3. /\ ~Works(u) /\ ~Holds(u) /\ ~InChunk(u) /\ ~InRefusal(u) /\ ~InConsume(u) /\ ~Leads(u) /\ ~InTail(u)
        /\ ~Starts(n, u) /\ u.at \notin Chunking \cup Windowing \cup Ending \cup Tailing
        /\ u.at \notin {"finish", "tail", "threw", "failing", "created", "overflow"}
        /\ u.at \in Arriving
    BY RolesOf DEF Ending, Starts, Starting, Chunking, Windowing, Arriving, Tailing
  <1>4. /\ \A x \in T : /\ x.at \notin Ending \cup Arriving \cup {"failing", "finish", "tail"} \cup Windowing
                        /\ ~InTail(x)
        /\ ~Queued(m, k)
    <2>1. \A x \in T : x.at \notin Ending \cup Arriving \cup {"finish", "tail"} \cup Windowing
      BY DEF FineWith, StateKnown
    <2>2. \A x \in T : ~InTail(x)
      BY DEF FineWith, TailAlone
    <2>3. ~Queued(m, k)
      BY DEF FineWith, StateKnown
    <2>4. QED BY <2>1, <2>2, <2>3
  <1>5. ~Stops(T) /\ ~Stops(U)
    BY <1>0, <1>3, <1>4 DEF Stops
  <1>6. AttemptServed(n, k, U)
    BY <1>2 DEF AttemptServed, Allowed
  <1>7. AudioHeld(n, k, U)
    BY <1>0, <1>1, <1>2, <1>3, <1>5 DEF FineWith, AudioHeld
  <1>8. OneWorker(n, k, U)
    <2>1. \A x \in U : Starts(n, x) <=> x # u /\ Starts(m, x)
      BY <1>0, <1>3 DEF Starts
    <2>2. QED BY <1>0, <1>3, <2>1 DEF FineWith, OneWorker
  <1>9. DecoderKnown(n, k, U)
    BY <1>0, <1>1, <1>2, <1>3 DEF FineWith, DecoderKnown
  <1>10. StateKnown(n, k, U)
    BY <1>0, <1>1, <1>3, <1>4 DEF FineWith, StateKnown
  <1>11. TailAlone(n, k, U)
    BY <1>0, <1>3, <1>4 DEF TailAlone
  <1>12. FineWith(n, k, U)
    BY <1>6, <1>7, <1>8, <1>9, <1>10, <1>11 DEF FineWith
  <1>13. QED BY <1>12 DEF U

(* A job that had failed lacked only its summary.                          *)
LEMMA SurfacedIsFine ==
    ASSUME NEW m, NEW n, NEW k, NEW T, FineWith(m, k, T), \A t \in T : t.job = k,
           m.job[k].state = "failed", ~Allowed(m, k), \A t \in T : t.at # "failing",
           n.job[k].state = "done", n.job[k].vad = m.job[k].vad, n.job[k].file = m.job[k].file,
           n.pcm[k] = m.pcm[k],
           n.att[k] = m.att[k], n.made[k] = m.made[k], n.decoder[k] = m.decoder[k],
           k \in n.slot <=> k \in m.slot, k \in n.consumer <=> k \in m.consumer,
           Queued(n, k) <=> Queued(m, k)
    PROVE  FineWith(n, k, T)
  <1>2. /\ ~n.att[k].accepting /\ ~n.att[k].tailAllowed /\ (Idles(n, k) <=> Idles(m, k))
        /\ ~m.att[k].accepting /\ ~m.att[k].tailAllowed
    BY DEF Allowed, Idles
  <1>4. /\ \A x \in T : /\ x.at \notin Arriving \cup {"failing", "finish", "tail"} \cup Windowing
                        /\ ~InTail(x)
        /\ ~Queued(m, k)
    <2>1. \A x \in T : x.at \notin Arriving \cup {"finish", "tail"} \cup Windowing
      BY DEF FineWith, StateKnown
    <2>2. \A x \in T : ~InTail(x)
      BY DEF FineWith, TailAlone
    <2>3. ~Queued(m, k)
      BY DEF FineWith, StateKnown
    <2>4. QED BY <2>1, <2>2, <2>3
  <1>5. \A x \in T : Starts(n, x) <=> Starts(m, x)
    BY DEF Starts
  <1>6. AttemptServed(n, k, T)
    BY <1>2 DEF AttemptServed, Allowed
  <1>7. AudioHeld(n, k, T)
    BY <1>2 DEF FineWith, AudioHeld
  <1>8. OneWorker(n, k, T)
    BY <1>5 DEF FineWith, OneWorker
  <1>9. DecoderKnown(n, k, T)
    BY <1>2 DEF FineWith, DecoderKnown
  <1>10. StateKnown(n, k, T)
    BY <1>4 DEF FineWith, StateKnown
  <1>11. TailAlone(n, k, T)
    BY <1>4 DEF TailAlone
  <1>12. QED BY <1>6, <1>7, <1>8, <1>9, <1>10, <1>11 DEF FineWith

(* Removing the checkpoint of a meeting that is there disturbs nobody.     *)
LEMMA IdlerJoins ==
    ASSUME NEW m, NEW k, NEW T, FineWith(m, k, T),
           NEW u, u.at \in {"surfaced", "closed"}, u.job = k
    PROVE  FineWith(m, k, T \cup {u})
  <1> DEFINE U == T \cup {u}
  <1>0. u \in U /\ \A x \in U : x = u \/ x \in T
    BY DEF U
  <1>1. \A x \in T : x \in U
    BY DEF U
  <1> HIDE DEF U
  <1>3. /\ ~Works(u) /\ ~Holds(u) /\ ~InChunk(u) /\ ~InRefusal(u) /\ ~InConsume(u) /\ ~Leads(u) /\ ~InTail(u)
        /\ ~Starts(m, u) /\ u.at \notin Chunking \cup Windowing \cup Ending \cup Tailing \cup Arriving
        /\ u.at \notin {"finish", "tail", "threw", "failing", "created", "overflow", "decoding"}
    BY RolesOf DEF Ending, Starts, Starting, Chunking, Windowing, Arriving, Tailing, Booting
  <1>5. Stops(U) <=> Stops(T)
    BY <1>0, <1>1, <1>3 DEF Stops
  <1>6. AttemptServed(m, k, U)
    BY <1>0, <1>1, <1>3 DEF FineWith, AttemptServed
  <1>7. AudioHeld(m, k, U)
    BY <1>0, <1>1, <1>3, <1>5 DEF FineWith, AudioHeld
  <1>8. OneWorker(m, k, U)
    BY <1>0, <1>3 DEF FineWith, OneWorker
  <1>9. DecoderKnown(m, k, U)
    BY <1>0, <1>1, <1>3 DEF FineWith, DecoderKnown
  <1>10. StateKnown(m, k, U)
    BY <1>0, <1>1, <1>3 DEF FineWith, StateKnown
  <1>11. TailAlone(m, k, U)
    BY <1>0, <1>3 DEF FineWith, TailAlone
  <1>12. FineWith(m, k, U)
    BY <1>6, <1>7, <1>8, <1>9, <1>10, <1>11 DEF FineWith
  <1>13. QED BY <1>12 DEF U

(* A job whose checkpoint has been written takes its place in the queue.   *)
LEMMA QueuedIsFine ==
    ASSUME NEW m, NEW n, NEW k, NEW T, FineWith(m, k, T), \A t \in T : t.job = k,
           NEW t \in T, t.at \in Arriving,
           n.job[k] = m.job[k], n.pcm[k] = m.pcm[k], n.att[k] = m.att[k], n.made[k] = m.made[k],
           n.decoder[k] = m.decoder[k], k \in n.slot <=> k \in m.slot,
           k \in n.consumer <=> k \in m.consumer, Queued(n, k)
    PROVE  FineWith(n, k, T \ {t})
  <1> DEFINE U == T \ {t}
  <1>0. \A x \in U : x \in T /\ x # t
    BY DEF U
  <1>1. \A x \in T : x # t => x \in U
    BY DEF U
  <1> HIDE DEF U
  <1>2. (Allowed(n, k) <=> Allowed(m, k)) /\ (Idles(n, k) <=> Idles(m, k))
    BY DEF Allowed, Idles
  <1>3. /\ ~Works(t) /\ ~Holds(t) /\ ~InChunk(t) /\ ~InRefusal(t) /\ ~InConsume(t) /\ ~Leads(t) /\ ~InTail(t)
        /\ ~Starts(m, t) /\ t.at \notin Chunking \cup Windowing \cup Ending \cup Tailing
        /\ t.at \notin {"finish", "tail", "threw", "failing", "overflow", "decoding"}
    BY RolesOf DEF Ending, Starts, Starting, Chunking, Windowing, Arriving, Tailing
  <1>4. /\ \A x \in T : x.at \in Arriving => x = t
        /\ m.job[k].state \in {"queued", "cancelled"}
        /\ \A x \in T : ~InTail(x)
    BY DEF FineWith, StateKnown, TailAlone
  <1>5. Stops(U) <=> Stops(T)
    BY <1>0, <1>1, <1>3 DEF Stops
  <1>55. \A x \in T : Starts(n, x) <=> Starts(m, x)
    BY DEF Starts
  <1>6. AttemptServed(n, k, U)
    BY <1>0, <1>1, <1>2, <1>3, <1>55 DEF FineWith, AttemptServed
  <1>7. AudioHeld(n, k, U)
    BY <1>0, <1>1, <1>2, <1>3, <1>5 DEF FineWith, AudioHeld
  <1>8. OneWorker(n, k, U)
    BY <1>0, <1>3, <1>55 DEF FineWith, OneWorker
  <1>9. DecoderKnown(n, k, U)
    BY <1>0, <1>1, <1>2, <1>3 DEF FineWith, DecoderKnown
  <1>10. StateKnown(n, k, U)
    BY <1>0, <1>1, <1>3, <1>4 DEF FineWith, StateKnown
  <1>11. TailAlone(n, k, U)
    BY <1>0, <1>4 DEF TailAlone
  <1>12. FineWith(n, k, U)
    BY <1>6, <1>7, <1>8, <1>9, <1>10, <1>11 DEF FineWith
  <1>13. QED BY <1>12 DEF U

(* A job of which nothing is there, and one that has just been created or  *)
(* loaded.                                                                 *)
Blank(m, k) ==
    /\ m.pcm[k] = 0 /\ ~Allowed(m, k) /\ m.decoder[k].att = 0
    /\ k \notin m.slot /\ k \notin m.consumer /\ ~Queued(m, k)

(* A blank job is Fine if nobody works for it and it is over, or if it has *)
(* one thread, which is about to queue it.                                 *)
LEMMA BlankIsFine ==
    ASSUME NEW m, NEW k, Blank(m, k), NEW T,
           \/ T = {} /\ m.job[k].state \in {"absent", "done", "failed", "cancelled"}
           \/ m.job[k].state = "queued" /\ \E u : T = {u} /\ u.at \in Arriving
    PROVE  FineWith(m, k, T)
  <1>1. \A x, y \in T : x = y /\ x.at \in Arriving
    OBVIOUS
  <1>2. \A x \in T : /\ ~Works(x) /\ ~Holds(x) /\ ~InChunk(x) /\ ~InConsume(x) /\ ~InRefusal(x)
                     /\ ~InTail(x) /\ ~Leads(x) /\ ~Starts(m, x)
                     /\ x.at \notin Chunking \cup Windowing \cup Tailing \cup Ending \cup {"failing", "finish", "tail", "threw", "overflow"}
    BY <1>1, RolesOf DEF Starts, Starting, Arriving, Ending, Chunking
  <1>3. /\ ~m.att[k].accepting /\ ~m.att[k].tailAllowed /\ m.pcm[k] = 0 /\ ~(m.pcm[k] > 0)
        /\ m.decoder[k].att = 0 /\ ~(m.decoder[k].att > 0)
        /\ ~Idles(m, k) /\ k \notin m.slot /\ k \notin m.consumer /\ ~Queued(m, k)
    BY DEF Blank, Allowed, Idles
  <1>4. AttemptServed(m, k, T)
    BY <1>3 DEF AttemptServed, Allowed
  <1>5. AudioHeld(m, k, T)
    BY <1>2, <1>3 DEF AudioHeld
  <1>6. OneWorker(m, k, T)
    BY <1>2 DEF OneWorker
  <1>7. DecoderKnown(m, k, T)
    BY <1>2, <1>3 DEF DecoderKnown
  <1>8. StateKnown(m, k, T)
    BY <1>1, <1>2, <1>3 DEF StateKnown
  <1>9. TailAlone(m, k, T)
    BY <1>2 DEF TailAlone
  <1>10. QED BY <1>4, <1>5, <1>6, <1>7, <1>8, <1>9 DEF FineWith

(* An absent job that is fine is blank.                                    *)
LEMMA AbsentIsBlank ==
    ASSUME NEW m, NEW k \in Jobs, Sound(m), Fine(m, k), m.job[k].state = "absent"
    PROVE  Blank(m, k) /\ Mine(m, k) = {} /\ m.made[k] = 0
  <1>1. Mine(m, k) = {}
    BY DEF Sound, Known, Mine
  <1>2. m.made[k] = 0 /\ m.decoder[k].att = 0 /\ m.pcm[k] \in Nat
    <2>1. ~(m.made[k] > 0) /\ m.made[k] \in Nat /\ m.decoder[k].att \in Nat /\ m.decoder[k].att <= m.made[k]
      BY PartsOf DEF Sound, Known
    <2>2. QED BY <2>1, PartsOf
  <1>3. ~Allowed(m, k)
    BY DEF Sound
  <1>4. ~m.att[k].accepting
    BY <1>3 DEF Allowed
  <1>5. ~Queued(m, k) /\ m.pcm[k] = 0 /\ k \notin m.slot /\ k \notin m.consumer
    <2>1. FineWith(m, k, {})
      BY <1>1 DEF Fine
    <2>2. ~Stops({})
      BY DEF Stops
    <2>3. ~Queued(m, k)
      BY <2>1 DEF FineWith, StateKnown
    <2>4. ~(m.pcm[k] > 0) /\ k \notin m.slot /\ k \notin m.consumer
      BY <1>4, <2>1, <2>2 DEF FineWith, AudioHeld
    <2>5. QED BY <1>2, <2>3, <2>4
  <1>6. QED BY <1>1, <1>2, <1>3, <1>5 DEF Blank

(* A decoder that is not there is not there.                               *)
LEMMA NoneIsFine ==
    ASSUME NEW m, NEW n, NEW k, NEW T, FineWith(m, k, T), \A t \in T : t.job = k,
           m.decoder[k].att = 0,
           n.job[k] = m.job[k], n.pcm[k] = m.pcm[k], n.att[k] = m.att[k], n.made[k] = m.made[k],
           n.decoder[k] = NoDecoder, k \in n.slot <=> k \in m.slot,
           k \in n.consumer <=> k \in m.consumer, Queued(n, k) <=> Queued(m, k)
    PROVE  FineWith(n, k, T)
  <1>1. /\ Allowed(n, k) <=> Allowed(m, k)
        /\ ~Idles(n, k) /\ ~Idles(m, k) /\ n.decoder[k].att = 0 /\ ~(n.decoder[k].att > 0)
    BY DEF Allowed, Idles, NoDecoder
  <1>2. \A t \in T : Starts(n, t) <=> Starts(m, t)
    BY DEF Starts
  <1>4. AttemptServed(n, k, T)
    BY <1>1, <1>2 DEF FineWith, AttemptServed
  <1>5. AudioHeld(n, k, T)
    BY <1>1 DEF FineWith, AudioHeld
  <1>6. OneWorker(n, k, T)
    BY <1>1, <1>2 DEF FineWith, OneWorker
  <1>7. DecoderKnown(n, k, T)
    BY <1>1 DEF FineWith, DecoderKnown
  <1>8. StateKnown(n, k, T)
    BY DEF FineWith, StateKnown
  <1>9. TailAlone(n, k, T)
    BY <1>1 DEF FineWith, TailAlone
  <1>10. QED BY <1>4, <1>5, <1>6, <1>7, <1>8, <1>9 DEF FineWith

-----------------------------------------------------------------------------
(* The operators of the model, from the inside out.                        *)

(* The job k, with the threads G that have left m or are to join it.       *)
With(m, k, G) ==
    /\ Crew(m, k, G) /\ \A t \in G : t \notin m.threads
    /\ FineWith(m, k, Mine(m, k) \cup G)

(* The jobs that wait for the slot; from m to n nobody has been left with  *)
(* the slot free.                                                          *)
Waits(m) == {j \in Jobs : Queued(m, j) /\ m.job[j].state = "queued"}
Quiets(m, n) == n.slot = {} => Waits(n) = {} \/ (m.slot = {} /\ Waits(n) \subseteq Waits(m))

(* Stretch after stretch.                                                  *)
LEMMA QuietsTwice ==
    ASSUME NEW m, NEW n, NEW p, Quiets(m, n), Quiets(n, p)
    PROVE  Quiets(m, p)
  BY DEF Quiets

(* A stretch for k that leaves the slot and queues nothing.                *)
LEMMA QuietsApart ==
    ASSUME NEW m, NEW n, NEW k, Apart(m, n, k), n.slot = m.slot,
           n.job[k].state = "queued" => m.job[k].state = "queued"
    PROVE  Quiets(m, n)
  <1>1. ASSUME NEW j \in Waits(n) PROVE j \in Waits(m)
    <2>1. j \in Jobs /\ Queued(n, j) /\ n.job[j].state = "queued" /\ n.queue = m.queue
      BY <1>1 DEF Waits, Apart
    <2>2. Queued(m, j)
      BY <2>1 DEF Queued
    <2>3. m.job[j].state = "queued"
      BY <2>1 DEF Apart
    <2>4. QED BY <2>1, <2>2, <2>3 DEF Waits
  <1>2. QED BY <1>1 DEF Quiets

(* Whoever the pump has served, nobody waits for it.                       *)
LEMMA QuietsPumped ==
    ASSUME NEW m, NEW n, Sound(m), build \in Nat, n \in Pumped(m), NEW p
    PROVE  Quiets(p, n)
  <1>1. m.slot # {} => n = m
    BY PumpedIs
  <1>2. m.slot = {} => Calm(n, Jobs)
    BY PumpedIs
  <1>3. QED BY <1>1, <1>2 DEF Quiets, Calm, Waits

(* What stays calm.                                                        *)
LEMMA QuietsIsCalm ==
    ASSUME NEW m, NEW n, NEW S, NEW S1, Quiets(m, n), Calm(m, S), S1 \subseteq S, S \subseteq Jobs
    PROVE  Calm(n, S1)
  BY DEF Quiets, Calm, Waits

(* The threads of a job are a crew of its.                                 *)
LEMMA MineIsCrew ==
    ASSUME NEW m, NEW k \in Jobs, Sound(m)
    PROVE  Crew(m, k, Mine(m, k))
  BY DEF Sound, Memories, Crew, Mine

(* A thread that joins.                                                    *)
LEMMA MineJoins ==
    ASSUME NEW m, NEW n, NEW k, NEW u, u.job = k, n.threads = m.threads \cup {u}
    PROVE  Mine(n, k) = Mine(m, k) \cup {u}
  BY DEF Mine

(* The threads of a job are told from all threads alone.                   *)
LEMMA MineStays ==
    ASSUME NEW m, NEW n, NEW k, n.threads = m.threads
    PROVE  Mine(n, k) = Mine(m, k)
  BY DEF Mine

(* All who work for a job with a ghost.                                    *)
LEMMA WithKnows ==
    ASSUME NEW m, NEW k \in Jobs, NEW G, Sound(m), With(m, k, G)
    PROVE  /\ FineWith(m, k, Mine(m, k) \cup G)
           /\ \A t \in Mine(m, k) \cup G : t.job = k /\ t.att \in Nat /\ t.att <= m.made[k]
           /\ \A t \in G : t \in Threads /\ t \notin m.threads
           /\ \A t : G = {t} => (Mine(m, k) \cup G) \ {t} = Mine(m, k)
  <1>1. Crew(m, k, Mine(m, k)) /\ Crew(m, k, G)
    BY MineIsCrew DEF With
  <1>2. \A t \in G : t \in Threads /\ t \notin m.threads
    BY DEF With, Crew
  <1>3. \A t \in Mine(m, k) \cup G : t.job = k /\ t.att \in Nat /\ t.att <= m.made[k]
    BY <1>1 DEF Crew, Threads
  <1>4. \A t : G = {t} => (Mine(m, k) \cup G) \ {t} = Mine(m, k)
    BY <1>2 DEF Mine
  <1>5. QED BY <1>2, <1>3, <1>4 DEF With

(* Nobody is missing.                                                      *)
LEMMA WithNone ==
    ASSUME NEW m, NEW k
    PROVE  With(m, k, {}) <=> Fine(m, k)
  <1>1. Mine(m, k) \cup {} = Mine(m, k)
    OBVIOUS
  <1>2. Crew(m, k, {})
    BY DEF Crew
  <1>3. QED BY <1>1, <1>2 DEF With, Fine

(* A thread that resumes is missing until its step is over.                *)
LEMMA WokenWith ==
    ASSUME Sound(mem), NEW t \in mem.threads, Fine(mem, t.job)
    PROVE  With(Woken(t), t.job, {t})
  <1> DEFINE n == Woken(t)
             k == t.job
  <1>1. /\ t \in Threads /\ k \in Jobs /\ t.att <= n.made[k]
        /\ n.threads = mem.threads \ {t}
        /\ n.job = mem.job /\ n.queue = mem.queue /\ n.pcm = mem.pcm /\ n.slot = mem.slot
        /\ n.consumer = mem.consumer /\ n.att = mem.att
        /\ n.made = mem.made /\ n.decoder = mem.decoder
    BY WokenIs
  <1> HIDE DEF n, k
  <1>2. Mine(n, k) \cup {t} = Mine(mem, k)
    BY <1>1 DEF Mine, k
  <1>3. FineWith(mem, k, Mine(mem, k)) /\ \A x \in Mine(mem, k) : x.job = k
    BY DEF Fine, Mine, k
  <1>4. Queued(n, k) <=> Queued(mem, k)
    BY <1>1 DEF Queued
  <1>5. FineWith(n, k, Mine(mem, k))
    BY <1>1, <1>3, <1>4, SameIsFineWith
  <1>6. Crew(n, k, {t}) /\ t \notin n.threads
    BY <1>1 DEF Crew, k
  <1>7. With(n, k, {t})
    BY <1>2, <1>5, <1>6 DEF With
  <1>8. QED BY <1>7 DEF n, k

(* A ghost that joins.                                                     *)
LEMMA JoinWith ==
    ASSUME NEW m, NEW u, NEW k \in Jobs, Sound(m), With(m, k, {u})
    PROVE  With(Await(m, u), k, {}) /\ Quiets(m, Await(m, u)) /\ Fine(Await(m, u), k)
  <1> DEFINE n == Await(m, u)
  <1>0. m \in Memories /\ u \in Threads /\ u.job = k
    BY WithKnows DEF Sound, With, Crew
  <1>1. /\ n.threads = m.threads \cup {u} /\ Apart(m, n, k)
        /\ n.queue = m.queue /\ n.pcm = m.pcm /\ n.decoder = m.decoder
        /\ n.slot = m.slot /\ n.job = m.job /\ n.made = m.made
        /\ n.att = m.att /\ n.consumer = m.consumer
    BY <1>0, JoinIs
  <1> HIDE DEF n
  <1>2. Mine(n, k) = Mine(m, k) \cup {u}
    BY <1>0, <1>1 DEF Mine
  <1>3. FineWith(m, k, Mine(m, k) \cup {u}) /\ \A t \in Mine(m, k) \cup {u} : t.job = k
    BY WithKnows
  <1>4. Queued(n, k) <=> Queued(m, k)
    BY <1>1 DEF Queued
  <1>5. FineWith(n, k, Mine(n, k))
    BY <1>1, <1>2, <1>3, <1>4, SameIsFineWith
  <1>6. Quiets(m, n)
    BY <1>1, QuietsApart
  <1>7. QED BY <1>5, <1>6, WithNone DEF Fine, n

(* The pump, whoever is missing.                                           *)
LEMMA PumpWith ==
    ASSUME NEW m, NEW k \in Jobs, NEW G, Sound(m), build \in Nat, With(m, k, G),
           NEW n, n \in Pumped(m)
    PROVE  /\ Sound(n) /\ With(n, k, G) /\ \A p : Quiets(p, n)
           /\ m.job[k].state # "queued" => Same(m, n, k)
  <1>1. Sound(n) /\ (Same(m, n, k) \/ Takes(m, n, k)) /\ \A p : Quiets(p, n)
    BY PumpedIs, QuietsPumped
  <1> DEFINE T == Mine(m, k) \cup G
  <1>2. /\ FineWith(m, k, T)
        /\ \A t \in T : t.job = k /\ t.att \in Nat /\ t.att <= m.made[k]
        /\ Crew(m, k, G) /\ \A t \in G : t \notin m.threads
    BY WithKnows DEF With
  <1>3. m.made[k] \in Nat
    BY PartsOf
  <1>4. Takes(m, n, k) => m.job[k].state = "queued"
    <2>1. Takes(m, n, k) => Queued(m, k) /\ m.job[k].state # "cancelled"
      BY DEF Takes, IsOver, Terminal
    <2>2. QED BY <1>2, <2>1 DEF FineWith, StateKnown
  <1>5. CASE Same(m, n, k)
    <2>1. FineWith(n, k, T)
      BY <1>2, <1>5, SameIsFineWith DEF Same
    <2>2. Mine(n, k) = Mine(m, k) /\ n.made[k] = m.made[k]
      BY <1>5 DEF Same
    <2>3. Crew(n, k, G) /\ \A t \in G : t \notin n.threads
      <3>1. \A t \in G : t.job = k /\ t \notin Mine(n, k)
        BY <1>2, <2>2 DEF Mine
      <3>2. QED BY <3>1, <1>2, <2>2 DEF Crew, Mine
    <2>4. QED BY <1>1, <1>5, <2>1, <2>2, <2>3 DEF With
  <1>6. CASE Takes(m, n, k)
    <2>1. PICK u \in Threads : /\ u.at = "claimed" /\ u.job = k /\ u.att = m.made[k] + 1 /\ u.then = "none"
                               /\ Mine(n, k) = Mine(m, k) \cup {u}
      BY <1>6 DEF Takes
    <2>2. FineWith(n, k, T \cup {u})
      BY <1>2, <1>6, <2>1, TakenIsFineWith
    <2>3. T \cup {u} = Mine(n, k) \cup G
      BY <2>1
    <2>4. n.made[k] = m.made[k] + 1
      BY <1>6 DEF Takes
    <2>5. Crew(n, k, G) /\ \A t \in G : t \notin n.threads
      <3>1. \A t \in G : t.job = k /\ t.att \in Nat /\ t.att <= m.made[k] /\ t # u /\ t \notin Mine(n, k)
        BY <1>2, <1>3, <2>1 DEF Mine
      <3>2. QED BY <3>1, <1>2, <1>3, <2>4 DEF Crew, Mine
    <2>6. QED BY <1>1, <1>4, <1>6, <2>2, <2>3, <2>5 DEF With
  <1>7. QED BY <1>1, <1>5, <1>6

(* A crew stays one.                                                       *)
LEMMA CrewStays ==
    ASSUME NEW m, NEW n, NEW k, NEW G, With(m, k, G), n.made[k] = m.made[k], n.threads = m.threads,
           FineWith(n, k, Mine(m, k) \cup G)
    PROVE  With(n, k, G)
  <1>1. Mine(n, k) = Mine(m, k)
    BY DEF Mine
  <1>2. QED BY <1>1 DEF With, Crew

(* What only others see.                                                   *)
LEMMA SameWith ==
    ASSUME NEW m, NEW n, NEW k \in Jobs, NEW G, Sound(m), With(m, k, G), n.threads = m.threads,
           n.job[k] = m.job[k], n.pcm[k] = m.pcm[k], n.att[k] = m.att[k],
           n.made[k] = m.made[k], n.decoder[k] = m.decoder[k],
           k \in n.slot <=> k \in m.slot, k \in n.consumer <=> k \in m.consumer,
           n.queue = m.queue
    PROVE  With(n, k, G)
  <1> DEFINE T == Mine(m, k) \cup G
  <1>1. FineWith(m, k, T) /\ \A t \in T : t.job = k
    BY DEF With, Crew, Mine
  <1> HIDE DEF T
  <1>2. Queued(n, k) <=> Queued(m, k)
    BY DEF Queued
  <1>3. FineWith(m, k, T) /\ \A t \in T : t.job = k
    BY <1>1
  <1>4. FineWith(n, k, T)
    BY <1>2, <1>3, SameIsFineWith
  <1>5. QED BY <1>4, CrewStays DEF T

(* A stopped job of which at most the slot and the attempt go.             *)
Still(m, n, k) ==
    /\ n.job[k] = m.job[k] /\ n.pcm[k] = m.pcm[k] /\ n.made[k] = m.made[k]
    /\ n.decoder[k] = m.decoder[k] /\ Mine(n, k) = Mine(m, k)
    /\ (k \in n.consumer <=> k \in m.consumer) /\ (k \in n.slot => k \in m.slot)
    /\ ~Allowed(n, k)

(* Two such steps make one.                                                *)
LEMMA StillTwice ==
    ASSUME NEW m, NEW n, NEW p, NEW k, Still(m, n, k), Still(n, p, k)
    PROVE  Still(m, p, k)
  BY DEF Still

(* The slot of a stopped job.                                              *)
LEMMA StillReleases ==
    ASSUME NEW m, NEW k \in Jobs, NEW G, Sound(m), build \in Nat, With(m, k, G), ~Allowed(m, k),
           m.job[k].state # "queued", k \notin m.consumer,
           NEW a, NEW r \in BOOLEAN, NEW n, n \in ReleaseAdmission(m, k, a, r)
    PROVE  /\ Sound(n) /\ With(n, k, G) /\ Still(m, n, k) /\ Quiets(m, n)
           /\ k \in n.slot => a > 0 /\ m.att[k].id # a
  <1>0. m \in Memories
    BY DEF Sound
  <1>1. CASE n = m /\ (k \notin m.slot \/ (a > 0 /\ m.att[k].id # a))
    BY <1>1 DEF Still, Quiets
  <1>2. CASE \E d : GivenBack(m, d, k, a, r) /\ n \in Pumped(d)
    <2>1. PICK d : GivenBack(m, d, k, a, r) /\ n \in Pumped(d)
      BY <1>2
    <2>2. Sound(d)
      <3>1. Frees(m, d, k)
        BY <2>1, GivenBackFrees
      <3>2. QED BY <3>1 DEF Frees
    <2>3. /\ ~m.att[k].accepting /\ ~m.att[k].tailAllowed
      BY DEF Allowed
    <2>4. ~Allowed(d, k)
      BY <2>1, <2>3 DEF GivenBack, Allowed, NoAttempt
    <2>5. /\ d.job = m.job /\ d.pcm = m.pcm /\ d.consumer = m.consumer
          /\ d.decoder = m.decoder /\ d.threads = m.threads /\ d.made = m.made /\ d.queue = m.queue
          /\ k \notin d.slot
      BY <2>1 DEF GivenBack, Apart
    <2>6. Queued(d, k) <=> Queued(m, k)
      BY <2>5 DEF Queued
    <2> DEFINE T == Mine(m, k) \cup G
    <2>7. FineWith(m, k, T) /\ \A t \in T : t.job = k
      BY WithKnows
    <2> HIDE DEF T
    <2>8. FineWith(d, k, T)
      BY <2>4, <2>5, <2>6, <2>7, ReleasedIsFine
    <2>9. With(d, k, G)
      BY <2>5, <2>8, CrewStays DEF T
    <2>10. Sound(n) /\ With(n, k, G) /\ Quiets(m, n) /\ Same(d, n, k)
      BY <2>1, <2>2, <2>5, <2>9, PumpWith
    <2>11. Mine(d, k) = Mine(m, k)
      BY <2>5 DEF Mine
    <2>12. Still(m, n, k) /\ k \notin n.slot
      BY <2>4, <2>5, <2>10, <2>11 DEF Same, Still, Allowed
    <2>13. QED BY <2>10, <2>12
  <1>3. QED BY <1>0, <1>1, <1>2, ReleaseIs

(* The decode of a stopped job, whose slot stays while audio is held.      *)
LEMMA StillReleasesDecode ==
    ASSUME NEW m, NEW k \in Jobs, NEW G, Sound(m), build \in Nat, With(m, k, G), ~Allowed(m, k),
           m.job[k].state # "queued", NEW n, n \in ReleaseDecode(m, k)
    PROVE  /\ Sound(n) /\ With(n, k, G) /\ Still(m, n, k) /\ Quiets(m, n)
           /\ m.pcm[k] = 0 /\ k \in n.slot => k \in n.consumer
  <1>1. CASE m.pcm[k] > 0 \/ k \in m.consumer
    <2>1. n = m
      BY <1>1 DEF ReleaseDecode
    <2>2. m.pcm[k] = 0 => ~(m.pcm[k] > 0)
      OBVIOUS
    <2>3. QED BY <1>1, <2>1, <2>2 DEF Still, Quiets
  <1>2. CASE ~(m.pcm[k] > 0 \/ k \in m.consumer)
    <2>1. n \in ReleaseAdmission(m, k, m.att[k].id, TRUE)
      BY <1>2 DEF ReleaseDecode
    <2>2. QED BY <1>2, <2>1, StillReleases
  <1>3. QED BY <1>1, <1>2

(* Its attempt is forgotten.                                               *)
LEMMA StillRetires ==
    ASSUME NEW m, NEW k \in Jobs, NEW G, Sound(m), With(m, k, G), ~Allowed(m, k),
           k \notin m.slot, k \notin m.consumer, NEW a
    PROVE  LET n == Retire(m, k, a) IN
           Sound(n) /\ With(n, k, G) /\ Still(m, n, k) /\ Quiets(m, n)
  <1> DEFINE n == Retire(m, k, a)
  <1>0. m \in Memories
    BY DEF Sound
  <1>1. /\ Apart(m, n, k)
        /\ m.att[k].id = a => n.att[k] = NoAttempt
        /\ m.att[k].id # a => n = m
        /\ n.job = m.job /\ n.pcm = m.pcm /\ n.slot = m.slot /\ n.consumer = m.consumer
        /\ n.decoder = m.decoder /\ n.threads = m.threads
    BY <1>0, RetireIs
  <1>2. Sound(n)
    BY RetireMoves DEF Moves
  <1> HIDE DEF n
  <1>3. ~Allowed(n, k)
    BY <1>1 DEF Allowed, NoAttempt
  <1>4. n.made = m.made /\ (Queued(n, k) <=> Queued(m, k))
    BY <1>1 DEF Apart, Queued
  <1> DEFINE T == Mine(m, k) \cup G
  <1>5. FineWith(m, k, T) /\ \A t \in T : t.job = k
    BY WithKnows
  <1> HIDE DEF T
  <1>6. FineWith(n, k, T)
    BY <1>1, <1>3, <1>4, <1>5, ReleasedIsFine
  <1>7. With(n, k, G)
    BY <1>1, <1>4, <1>6, CrewStays DEF T
  <1>8. Mine(n, k) = Mine(m, k)
    BY <1>1 DEF Mine
  <1>9. Still(m, n, k) /\ Quiets(m, n)
    BY <1>1, <1>3, <1>4, <1>8, QuietsApart DEF Still
  <1>10. QED BY <1>2, <1>7, <1>9 DEF n

(* It is no longer active, and the pump runs.                              *)
LEMMA PassiveWith ==
    ASSUME NEW m, NEW k \in Jobs, NEW G, Sound(m), build \in Nat, With(m, k, G),
           NEW n, n \in Pumped([m EXCEPT !.active = @ \ {k}])
    PROVE  /\ Sound(n) /\ With(n, k, G) /\ \A p : Quiets(p, n)
           /\ m.job[k].state # "queued" /\ ~Allowed(m, k) => Still(m, n, k)
  <1> DEFINE d == [m EXCEPT !.active = @ \ {k}]
  <1>0. m \in Memories
    BY DEF Sound
  <1>1. /\ Apart(m, d, k)
        /\ d.queue = m.queue /\ d.pcm = m.pcm /\ d.decoder = m.decoder
        /\ d.slot = m.slot /\ d.job = m.job /\ d.made = m.made /\ d.threads = m.threads
        /\ d.att = m.att /\ d.consumer = m.consumer
    BY <1>0, ActiveLeft
  <1>2. Sound(d) /\ n \in Pumped(d)
    BY ActiveMoves DEF Moves
  <1> HIDE DEF d
  <1>3. With(d, k, G)
    BY <1>1, SameWith
  <1>4. /\ Sound(n) /\ With(n, k, G) /\ \A p : Quiets(p, n)
        /\ d.job[k].state # "queued" => Same(d, n, k)
    BY <1>2, <1>3, PumpWith
  <1>5. Mine(d, k) = Mine(m, k)
    BY <1>1 DEF Mine
  <1>6. ASSUME m.job[k].state # "queued", ~Allowed(m, k) PROVE Still(m, n, k)
    BY <1>1, <1>4, <1>5, <1>6 DEF Same, Still, Allowed
  <1>7. QED BY <1>4, <1>6

(* A stopped job is no longer active, and the pump runs.                   *)
LEMMA IdleWith ==
    ASSUME NEW m, NEW k \in Jobs, NEW G, Sound(m), build \in Nat, With(m, k, G),
           ~Allowed(m, k), m.job[k].state # "queued", NEW n, n \in Idle(m, k)
    PROVE  Sound(n) /\ With(n, k, G) /\ Quiets(m, n) /\ Still(m, n, k)
  <1>1. CASE k \in m.active
    <2>1. n \in Pumped([m EXCEPT !.active = @ \ {k}])
      BY <1>1 DEF Idle
    <2>2. QED BY <2>1, PassiveWith
  <1>2. CASE k \notin m.active
    <2>1. n = m
      BY <1>2 DEF Idle
    <2>2. QED BY <2>1 DEF Still, Quiets
  <1>3. QED BY <1>1, <1>2

(* The tail ends.                                                          *)
LEMMA TailEndsFine ==
    ASSUME NEW m, NEW k \in Jobs, NEW t, Sound(m), build \in Nat, With(m, k, {t}), InTail(t),
           m.job[k].state \in {"done", "cancelled", "failed"}, NEW n, n \in TailEnds(m, k)
    PROVE  Fine(n, k) /\ Quiets(m, n)
  <1>1. PICK d \in ReleaseDecode(m, k) : n \in Idle(d, k)
    BY DEF TailEnds
  <1>2. FineWith(m, k, Mine(m, k) \cup {t})
    BY DEF With
  <1>3. ~Allowed(m, k) /\ m.pcm[k] = 0 /\ k \notin m.consumer
    BY <1>2 DEF FineWith, TailAlone, AudioHeld, Works
  <1>4. /\ Sound(d) /\ With(d, k, {t}) /\ Still(m, d, k) /\ Quiets(m, d)
        /\ k \in d.slot => k \in d.consumer
    BY <1>1, <1>3, StillReleasesDecode
  <1>5. d.job[k].state # "queued" /\ ~Allowed(d, k)
    BY <1>4 DEF Still
  <1>6. Sound(n) /\ With(n, k, {t}) /\ Still(d, n, k) /\ Quiets(d, n)
    BY <1>1, <1>4, <1>5, IdleWith
  <1>7. /\ n.job[k].state \in {"done", "cancelled", "failed"} /\ k \notin n.slot
    BY <1>3, <1>4, <1>6 DEF Still
  <1> DEFINE T == Mine(n, k) \cup {t}
  <1>8. FineWith(n, k, T) /\ (\A x \in T : x.job = k) /\ T \ {t} = Mine(n, k) /\ t \in T
    BY <1>6 DEF With, Crew, Mine
  <1> HIDE DEF T
  <1>9. FineWith(n, k, T \ {t})
    BY <1>7, <1>8, TailGone
  <1>10. QED BY <1>4, <1>6, <1>8, <1>9, QuietsTwice DEF Fine

-----------------------------------------------------------------------------
(* A decoder that stops.                                                   *)

(* A failure that nobody awaits is the work of nobody.                     *)
LEMMA PlainFailure ==
    ASSUME NEW u, u.at = "failing", u.then = "none"
    PROVE  /\ ~Works(u) /\ ~Holds(u) /\ ~InChunk(u) /\ ~InRefusal(u) /\ ~InConsume(u)
           /\ ~InTail(u) /\ ~Leads(u)
  BY DEF Works, Holds, InChunk, InRefusal, InConsume, InTail, Leads, Chunking, Windowing, Tailing

(* An attempt that is allowed may finish.                                  *)
LEMMA AllowedFinishes ==
    ASSUME NEW m, NEW k \in Jobs, NEW T, Sound(m), FineWith(m, k, T)
    PROVE  /\ Allowed(m, k) <=> CanFinish(m, k, m.att[k].id)
           /\ Allowed(m, k) => ~IsOver(m, k)
  <1>1. Allowed(m, k) => m.att[k].tailAllowed /\ m.att[k].id > 0 /\ m.job[k].state \in {"decoding", "transcribing"}
    BY AllowedKnows DEF Sound
  <1>2. QED BY <1>1 DEF Allowed, CanFinish, IsOver, Terminal

(* fail(), seen from its job.                                              *)
LEMMA FailView ==
    ASSUME NEW m \in Memories, NEW k \in Jobs, NEW e \in Errors, NEW then \in Awaiters,
           NEW n, n = Fail(m, k, e, then)
    PROVE  /\ Apart(m, n, k) /\ n.made = m.made /\ n.queue = m.queue
           /\ n.job[k].state = "failed" /\ n.job[k].vad = m.job[k].vad /\ n.job[k].file = m.job[k].file
           /\ n.att[k].id = m.att[k].id /\ ~Allowed(n, k)
           /\ n.pcm = m.pcm /\ n.slot = m.slot /\ n.consumer = m.consumer /\ n.decoder = m.decoder
           /\ \E u \in Threads : /\ u.at = "failing" /\ u.job = k /\ u.att = m.att[k].id /\ u.then = then
                                 /\ n.threads = m.threads \cup {u}
  <1>1. /\ Apart(m, n, k) /\ Failing(m, n, k, then)
        /\ n.job[k].state = "failed" /\ n.job[k].error = e
        /\ n.job[k].file = m.job[k].file /\ n.job[k].vad = m.job[k].vad
        /\ n.att[k].id = m.att[k].id /\ ~n.att[k].accepting /\ ~n.att[k].tailAllowed
        /\ n.pcm = m.pcm /\ n.slot = m.slot /\ n.consumer = m.consumer
        /\ n.decoder = m.decoder
    BY FailIs
  <1>2. n.made = m.made /\ n.queue = m.queue /\ ~Allowed(n, k)
    BY <1>1 DEF Apart, Allowed
  <1>3. QED BY <1>1, <1>2 DEF Failing

(* The decoder of a job is dropped, and the job fails if it still needed   *)
(* one.                                                                    *)
LEMMA DecoderGone ==
    ASSUME NEW m, NEW k \in Jobs, NEW G, Sound(m), With(m, k, G), \A t \in G : t.at # "failing" \/ ~Allowed(m, k),
           m.decoder[k].att > 0 \/ ~Allowed(m, k)
    PROVE  LET n == FailDecoder([m EXCEPT !.decoder[k] = NoDecoder], k) IN
           With(n, k, G) /\ Quiets(m, n) /\ n.decoder[k] = NoDecoder
  <1> DEFINE d == [m EXCEPT !.decoder[k] = NoDecoder]
             n == FailDecoder(d, k)
             T == Mine(m, k) \cup G
  <1>0. m \in Memories /\ NoDecoder \in Decoders
    BY DEF Sound, NoDecoder, Decoders
  <1>1. /\ d \in Memories /\ Apart(m, d, k) /\ d.decoder[k] = NoDecoder
        /\ d.queue = m.queue /\ d.pcm = m.pcm /\ d.slot = m.slot
        /\ d.consumer = m.consumer /\ d.job = m.job /\ d.made = m.made
        /\ d.att = m.att /\ d.threads = m.threads
    BY <1>0, DecoderSet
  <1>2. FineWith(m, k, T) /\ \A x \in T : x.job = k
    BY DEF With, Crew, Mine
  <1>3. m.decoder[k].att \in Nat
    BY PartsOf
  <1>4. CanFinish(d, k, d.att[k].id) <=> CanFinish(m, k, m.att[k].id)
    BY <1>1 DEF CanFinish
  <1>5. IsOver(d, k) <=> IsOver(m, k)
    BY <1>1 DEF IsOver
  <1>6. /\ Allowed(m, k) <=> CanFinish(m, k, m.att[k].id)
        /\ Allowed(m, k) => ~IsOver(m, k)
    BY <1>2, AllowedFinishes
  <1>7. CASE Allowed(m, k)
    <2>1. n = Fail(d, k, "other", "none")
      BY <1>4, <1>5, <1>6, <1>7 DEF FailDecoder
    <2> HIDE DEF n, d, T
    <2>9. "other" \in Errors /\ "none" \in Awaiters
      BY DEF Errors, Awaiters
    <2>2. /\ Apart(d, n, k) /\ n.made = d.made /\ n.queue = d.queue
          /\ n.job[k].state = "failed" /\ n.job[k].vad = d.job[k].vad
          /\ n.att[k].id = d.att[k].id /\ ~Allowed(n, k)
          /\ n.pcm = d.pcm /\ n.slot = d.slot /\ n.consumer = d.consumer
          /\ n.decoder = d.decoder
          /\ \E u \in Threads : /\ u.at = "failing" /\ u.job = k /\ u.then = "none"
                                /\ n.threads = d.threads \cup {u}
      BY <1>1, <2>1, <2>9, FailView
    <2>3. PICK u \in Threads : /\ u.at = "failing" /\ u.job = k /\ u.then = "none"
                               /\ n.threads = d.threads \cup {u}
      BY <2>2
    <2>4. n.made = m.made /\ (Queued(n, k) <=> Queued(m, k)) /\ ~Allowed(n, k)
      BY <1>1, <2>2 DEF Queued
    <2>5. \A x \in T : ~Leads(x)
      <3>1. ~(m.decoder[k].att = 0)
        BY <1>3, <1>7
      <3>2. QED BY <1>2, <3>1 DEF FineWith, DecoderKnown
    <2>6. k \in n.consumer => \E x \in T \cup {u} : Holds(x)
      BY <1>1, <1>2, <2>2 DEF FineWith, AudioHeld
    <2>7. /\ ~Works(u) /\ ~Holds(u) /\ ~InConsume(u) /\ ~InTail(u)
      BY <2>3, PlainFailure
    <2>8. FineWith(n, k, T \cup {u})
      BY <1>1, <1>2, <1>3, <1>7, <2>2, <2>3, <2>4, <2>5, <2>6, <2>7, FailedIsFine
    <2>13. T \cup {u} = Mine(n, k) \cup G
      BY <1>1, <2>3 DEF T, Mine
    <2>10. Crew(n, k, G) /\ \A t \in G : t \notin n.threads
      BY <1>1, <1>7, <2>3, <2>4 DEF With, Crew
    <2>11. Quiets(m, n)
      <3>1. Apart(m, n, k)
        BY <1>1, <2>2, ApartTwice
      <3>2. QED BY <1>1, <2>2, <3>1, QuietsApart
    <2>12. QED BY <1>1, <2>2, <2>8, <2>10, <2>11, <2>13 DEF With, n, d
  <1>8. CASE ~Allowed(m, k)
    <2>1. n = d
      BY <1>4, <1>6, <1>8 DEF FailDecoder
    <2> HIDE DEF n, d, T
    <2>2. Queued(d, k) <=> Queued(m, k)
      BY <1>1 DEF Queued
    <2>3. FineWith(d, k, T)
      BY <1>1, <1>2, <1>8, <2>2, UndecodedIsFine
    <2>4. With(d, k, G)
      BY <1>1, <2>3, CrewStays DEF T
    <2>5. Quiets(m, d)
      BY <1>1, QuietsApart
    <2>6. QED BY <1>1, <2>1, <2>4, <2>5 DEF n, d
  <1>9. QED BY <1>7, <1>8

(* A thread that has thrown tells the decoder, unless it was reaped.       *)
LEMMA ThrewFine ==
    ASSUME NEW m, NEW k \in Jobs, NEW t, Sound(m), With(m, k, {t}), t.at = "threw"
    PROVE  LET n == DecoderRejected(m, k, t.att) IN Fine(n, k) /\ Quiets(m, n)
  <1> DEFINE n == DecoderRejected(m, k, t.att)
  <1>0. \A d : With(d, k, {t}) => /\ FineWith(d, k, Mine(d, k) \cup {t})
                                  /\ (Mine(d, k) \cup {t}) \ {t} = Mine(d, k)
    BY DEF With, Mine
  <1>1. t.att > 0 /\ t \in Mine(m, k) \cup {t}
    BY DEF With, FineWith, DecoderKnown
  <1>2. \A d, T : FineWith(d, k, T) /\ t \in T /\ d.decoder[k].att # t.att => FineWith(d, k, T \ {t})
    BY IdlerGone DEF Starts, Starting
  <1>3. CASE m.decoder[k].att = t.att
    <2>1. n = FailDecoder([m EXCEPT !.decoder[k] = NoDecoder], k)
      BY <1>3 DEF DecoderRejected
    <2>2. With(n, k, {t}) /\ Quiets(m, n) /\ n.decoder[k] = NoDecoder
      BY <1>1, <1>3, <2>1, DecoderGone
    <2> HIDE DEF n
    <2>3. n.decoder[k].att # t.att
      BY <1>1, <2>2 DEF NoDecoder
    <2>4. FineWith(n, k, Mine(n, k))
      BY <1>0, <1>2, <2>2, <2>3
    <2>5. QED BY <2>2, <2>4 DEF Fine, n
  <1>4. CASE m.decoder[k].att # t.att
    <2>1. n = m
      BY <1>4 DEF DecoderRejected
    <2>2. FineWith(m, k, Mine(m, k))
      BY <1>0, <1>2, <1>4
    <2>3. QED BY <2>1, <2>2 DEF Fine, Quiets
  <1>5. QED BY <1>3, <1>4

-----------------------------------------------------------------------------
(* The chunks.                                                             *)

(* The decoder counts a chunk and waits for nobody.                        *)
Returned(m, k) == [m EXCEPT !.decoder[k].busy = FALSE, !.decoder[k].next = @ + 1]

(* That changes nothing else.                                              *)
LEMMA ReturnedIs ==
    ASSUME NEW m, NEW k \in Jobs, Sound(m)
    PROVE  LET n == Returned(m, k) IN
           /\ Sound(n) /\ n \in Memories /\ Apart(m, n, k)
           /\ n.decoder[k].att = m.decoder[k].att /\ ~n.decoder[k].busy
           /\ n.decoder[k].next = m.decoder[k].next + 1
           /\ n.queue = m.queue /\ n.pcm = m.pcm /\ n.slot = m.slot
           /\ n.consumer = m.consumer /\ n.job = m.job /\ n.made = m.made
           /\ n.att = m.att /\ n.threads = m.threads
  <1> DEFINE r == [m.decoder[k] EXCEPT !.busy = FALSE]
             d == [m EXCEPT !.decoder[k] = r]
             q == [d.decoder[k] EXCEPT !.next = @ + 1]
             e == [d EXCEPT !.decoder[k] = q]
  <1>0. m \in Memories /\ m.decoder[k] \in Decoders /\ m.decoder[k].att <= m.made[k]
    BY DEF Sound, Memories
  <1>1. r \in Decoders /\ r.att = m.decoder[k].att /\ r.next = m.decoder[k].next /\ ~r.busy
    BY <1>0 DEF Decoders
  <1> HIDE DEF r
  <1>2. /\ d \in Memories /\ Apart(m, d, k) /\ d.decoder[k] = r
        /\ d.queue = m.queue /\ d.pcm = m.pcm /\ d.slot = m.slot
        /\ d.consumer = m.consumer /\ d.job = m.job /\ d.made = m.made
        /\ d.att = m.att /\ d.threads = m.threads
    BY <1>0, <1>1, DecoderSet
  <1>3. Sound(d)
    BY <1>0, <1>1, DecoderMoves DEF Moves
  <1> HIDE DEF d
  <1>4. q \in Decoders /\ q.att = r.att /\ q.next = m.decoder[k].next + 1 /\ ~q.busy
    BY <1>1, <1>2 DEF Decoders
  <1> HIDE DEF q
  <1>5. /\ e \in Memories /\ Apart(d, e, k) /\ e.decoder[k] = q
        /\ e.queue = d.queue /\ e.pcm = d.pcm /\ e.slot = d.slot
        /\ e.consumer = d.consumer /\ e.job = d.job /\ e.made = d.made
        /\ e.att = d.att /\ e.threads = d.threads
    BY <1>2, <1>4, DecoderSet
  <1>6. Sound(e)
    BY <1>0, <1>1, <1>2, <1>3, <1>4, DecoderMoves DEF Moves
  <1>7. Apart(m, e, k)
    BY <1>2, <1>5, ApartTwice
  <1> HIDE DEF e
  <1>8. /\ Sound(e) /\ e \in Memories /\ Apart(m, e, k)
        /\ e.decoder[k].att = m.decoder[k].att /\ ~e.decoder[k].busy
        /\ e.decoder[k].next = m.decoder[k].next + 1
        /\ e.queue = m.queue /\ e.pcm = m.pcm /\ e.slot = m.slot
        /\ e.consumer = m.consumer /\ e.job = m.job /\ e.made = m.made
        /\ e.att = m.att /\ e.threads = m.threads
    BY <1>1, <1>2, <1>4, <1>5, <1>6, <1>7
  <1>9. e = Returned(m, k)
    BY DEF e, q, d, r, Returned
  <1>10. QED BY <1>8, <1>9

(* A consumer of an attempt lets go, and the slot goes with it.            *)
LEMMA LetGo ==
    ASSUME NEW m, NEW k \in Jobs, Sound(m), NEW a, a = m.att[k].id, k \in m.slot,
           NEW r \in BOOLEAN, NEW n, n \in ReleaseAdmission([m EXCEPT !.consumer = @ \ {k}], k, a, r)
    PROVE  \E d : /\ Sound(d) /\ n \in Pumped(d) /\ k \notin d.slot /\ k \notin d.consumer
                  /\ d.job = m.job /\ d.pcm = m.pcm /\ d.made = m.made /\ d.decoder = m.decoder
                  /\ d.queue = m.queue /\ d.threads = m.threads
                  /\ ~d.att[k].accepting
                  /\ IF r /\ m.att[k].tailAllowed
                     THEN d.att[k].tailAllowed /\ d.att[k].id = a ELSE d.att[k] = NoAttempt
  <1> DEFINE left == [m EXCEPT !.consumer = @ \ {k}]
  <1>0. m \in Memories
    BY DEF Sound
  <1>1. /\ left \in Memories /\ Apart(m, left, k) /\ left.consumer = m.consumer \ {k}
        /\ left.queue = m.queue /\ left.pcm = m.pcm /\ left.decoder = m.decoder
        /\ left.slot = m.slot /\ left.job = m.job /\ left.made = m.made
        /\ left.att = m.att /\ left.threads = m.threads
    BY <1>0, ConsumerSet
  <1>2. Sound(left) /\ n \in ReleaseAdmission(left, k, a, r)
    BY ConsumerMoves DEF Moves
  <1> HIDE DEF left
  <1>3. PICK d : GivenBack(left, d, k, a, r) /\ n \in Pumped(d)
    BY <1>1, <1>2, ReleaseIs
  <1>4. Frees(left, d, k)
    BY <1>2, <1>3, GivenBackFrees
  <1>5. Sound(d)
    BY <1>4 DEF Frees
  <1>6. /\ d.job = left.job /\ d.pcm = left.pcm /\ d.made = left.made /\ d.decoder = left.decoder
        /\ d.queue = left.queue /\ d.threads = left.threads /\ d.consumer = left.consumer
        /\ d.slot = left.slot \ {k} /\ ~d.att[k].accepting
        /\ IF r /\ left.att[k].tailAllowed
           THEN d.att[k].tailAllowed /\ d.att[k].id = left.att[k].id
           ELSE left.att[k].id = a => d.att[k] = NoAttempt
    BY <1>3 DEF GivenBack, Apart
  <1>7. QED BY <1>1, <1>3, <1>5, <1>6

(* What a thread with decoded audio of a stopped job finds when it has     *)
(* counted its chunk, and G takes over what it says to the decoder.        *)
Leaving(m, k, t, p, G) ==
    /\ Holds(t) /\ ~Allowed(m, k) /\ (m.pcm[k] = 0 \/ Stops(Mine(m, k)))
    /\ Apart(m, p, k) /\ p.att = m.att /\ p.slot = m.slot /\ p.pcm = m.pcm
    /\ p.job = m.job /\ p.threads = m.threads /\ p.consumer = m.consumer
    /\ \A u \in G : /\ u.at = "threw" /\ u.att = t.att /\ InChunk(t)
                    /\ u.job = k /\ u \in Threads /\ u \notin m.threads
    /\ \/ p.decoder[k] = m.decoder[k] /\ (m.decoder[k].att # t.att \/ m.decoder[k].att = 0
                                  \/ \E u \in Mine(m, k) \cup G : u.at = "threw" /\ u.att = t.att)
       \/ t.at \in Chunking /\ m.decoder[k].att = t.att /\ p.decoder[k].att = t.att
          /\ ~p.decoder[k].busy

(* What it leaves behind is in order without it.                           *)
LEMMA LeavesStopped ==
    ASSUME NEW m, NEW k \in Jobs, NEW t, Sound(m), build \in Nat, With(m, k, {t}),
           NEW p, NEW G, Leaving(m, k, t, p, G), Sound(p),
           NEW n, n \in ReleaseAdmission([p EXCEPT !.consumer = @ \ {k}], k, t.att, FALSE)
    PROVE  /\ Sound(n) /\ With(n, k, G) /\ \A x : Quiets(x, n)
           /\ m.job[k].state # "queued" =>
                 Mine(n, k) = Mine(m, k) /\ k \notin n.slot /\ k \notin n.consumer /\ ~Allowed(n, k)
  <1> DEFINE T == Mine(m, k) \cup {t}
             U == Mine(m, k) \cup G
  <1>0. /\ Holds(t) /\ ~Allowed(m, k) /\ (m.pcm[k] = 0 \/ Stops(Mine(m, k)))
        /\ Apart(m, p, k) /\ p.att = m.att /\ p.slot = m.slot /\ p.pcm = m.pcm
        /\ p.job = m.job /\ p.threads = m.threads /\ p.consumer = m.consumer
        /\ \A u \in G : /\ u.at = "threw" /\ u.att = t.att /\ InChunk(t)
                        /\ u.job = k /\ u \in Threads /\ u \notin m.threads
        /\ \/ p.decoder[k] = m.decoder[k] /\ (m.decoder[k].att # t.att \/ m.decoder[k].att = 0
                                      \/ \E u \in U : u.at = "threw" /\ u.att = t.att)
           \/ t.at \in Chunking /\ m.decoder[k].att = t.att /\ p.decoder[k].att = t.att
              /\ ~p.decoder[k].busy
    BY DEF Leaving
  <1>1. /\ FineWith(m, k, T) /\ \A x \in T : x.job = k /\ x.att \in Nat /\ x.att <= m.made[k]
        /\ T \ {t} = Mine(m, k)
    BY WithKnows DEF With, Mine
  <1>2. k \in m.slot /\ t.att = m.att[k].id
    BY <1>0, <1>1 DEF FineWith, AudioHeld
  <1>3. PICK d : /\ Sound(d) /\ n \in Pumped(d) /\ k \notin d.slot /\ k \notin d.consumer
                 /\ d.job = p.job /\ d.pcm = p.pcm /\ d.made = p.made /\ d.decoder = p.decoder
                 /\ d.queue = p.queue /\ d.threads = p.threads
                 /\ ~d.att[k].accepting
                 /\ IF FALSE /\ p.att[k].tailAllowed
                    THEN d.att[k].tailAllowed /\ d.att[k].id = t.att ELSE d.att[k] = NoAttempt
    <2>0. PICK r \in BOOLEAN : r = FALSE
      OBVIOUS
    <2>1. k \in p.slot /\ t.att = p.att[k].id
      BY <1>0, <1>2
    <2>2. n \in ReleaseAdmission([p EXCEPT !.consumer = @ \ {k}], k, t.att, r)
      BY <2>0
    <2> HIDE DEF T, U
    <2>3. QED BY ONLY Sound(p), k \in Jobs, <2>0, <2>1, <2>2, LetGo
  <1>4. d.made = m.made /\ (Queued(d, k) <=> Queued(m, k)) /\ ~Allowed(d, k)
    <2>1. d.att[k] = NoAttempt
      BY <1>3
    <2>2. QED BY <1>0, <1>3, <2>1 DEF Apart, Queued, Allowed, NoAttempt
  <1>5. /\ \A u \in U : u \in T \ {t} \/ (u.at = "threw" /\ u.att = t.att /\ InChunk(t) /\ u.job = k)
        /\ \A u \in T \ {t} : u \in U
    BY <1>0, <1>1
  <1>6. \/ d.decoder[k] = m.decoder[k] /\ (m.decoder[k].att # t.att \/ m.decoder[k].att = 0
                                             \/ \E u \in U : u.at = "threw" /\ u.att = t.att)
        \/ t.at \in Chunking /\ m.decoder[k].att = t.att /\ d.decoder[k].att = t.att
           /\ ~d.decoder[k].busy
    BY <1>0, <1>3
  <1>7. t \in T /\ (m.pcm[k] = 0 \/ Stops(T \ {t}))
    BY <1>0, <1>1
  <1>8. m.decoder[k].busy \in BOOLEAN
    BY PartsOf
  <1> HIDE DEF T, U
  <1>9. FineWith(d, k, U)
    <2>1. /\ Holds(t) /\ ~Allowed(m, k) /\ d.pcm[k] = m.pcm[k] /\ d.job[k] = m.job[k]
          /\ d.made[k] = m.made[k] /\ k \notin d.slot /\ k \notin d.consumer
      BY <1>0, <1>3, <1>4
    <2>2. FineWith(m, k, T) /\ \A x \in T : x.job = k
      BY <1>1
    <2>3. QED BY <1>4, <1>5, <1>6, <1>7, <1>8, <2>1, <2>2, LeftIsFine
  <1>10. With(d, k, G)
    <2>1. Mine(d, k) = Mine(m, k)
      BY <1>0, <1>3 DEF Mine
    <2>2. t.att <= m.made[k]
      BY <1>1, <1>7
    <2>3. QED BY <1>0, <1>3, <1>4, <1>9, <2>1, <2>2 DEF With, Crew, U
  <1>11. Mine(d, k) = Mine(m, k) /\ d.job = m.job
    BY <1>0, <1>3 DEF Mine
  <1>12. m.job[k].state # "queued" => Same(d, n, k)
    BY <1>3, <1>10, <1>11, PumpWith
  <1>13. m.job[k].state # "queued" =>
            Mine(n, k) = Mine(m, k) /\ k \notin n.slot /\ k \notin n.consumer /\ ~Allowed(n, k)
    BY <1>3, <1>4, <1>11, <1>12 DEF Same, Allowed
  <1>14. QED BY <1>3, <1>10, <1>13, PumpWith

(* A thread with a chunk of an attempt that goes on.                       *)
Chunks(m, k, t) ==
    /\ Allowed(m, k) /\ ~IsOver(m, k) /\ m.att[k].accepting /\ m.att[k].tailAllowed
    /\ m.att[k].id = t.att /\ t.att = m.made[k] /\ t.att > 0
    /\ m.decoder[k].att = t.att /\ m.decoder[k].busy
    /\ k \in m.slot /\ k \in m.consumer
    /\ ~m.job[k].vad /\ m.job[k].state \in {"decoding", "transcribing"}
    /\ t.at # "overflow" => m.pcm[k] = 0
    /\ t.at = "decoding" => m.job[k].state = "decoding"
    /\ \A x \in Mine(m, k) : ~Works(x) /\ ~Starts(m, x) /\ ~Leads(x) /\ ~Holds(x)

(* What a thread with a chunk finds: its attempt goes on, or is stopped.   *)
LEMMA ChunkKnows ==
    ASSUME NEW m, NEW k \in Jobs, NEW t, Sound(m), With(m, k, {t}), t.at \in Chunking
    PROVE  /\ t.job = k /\ t.att \in Nat /\ t.att > 0 /\ Holds(t) /\ InChunk(t)
           /\ Allowed(m, k) <=> ~(IsOver(m, k) \/ ~Accepts(m, k, t.att))
           /\ Allowed(m, k) => Chunks(m, k, t)
           /\ ~Allowed(m, k) => m.pcm[k] = 0 \/ Stops(Mine(m, k))
  <1> DEFINE T == Mine(m, k) \cup {t}
  <1>1. /\ FineWith(m, k, T) /\ \A x \in T : x.job = k /\ x.att \in Nat /\ x.att <= m.made[k]
        /\ T \ {t} = Mine(m, k)
    BY WithKnows DEF With, Mine
  <1>2. t \in T /\ Mine(m, k) \subseteq T
    OBVIOUS
  <1>3. InChunk(t) /\ Holds(t) /\ Works(t) /\ t.at \notin Ending \cup {"failing"}
    BY RolesOf
  <1> HIDE DEF T
  <1>4. t.att > 0 /\ k \in m.slot /\ k \in m.consumer /\ t.att = m.att[k].id /\ t.att = m.made[k]
    BY <1>1, <1>2, <1>3, WorkerKnows DEF FineWith, DecoderKnown
  <1>5. Allowed(m, k) => Accepts(m, k, t.att) /\ ~IsOver(m, k)
    <2>1. \A u \in T : u.at \notin {"finish", "tail"}
      BY <1>1, <1>2, <1>3, RolesOf DEF FineWith, OneWorker, Works
    <2>2. Allowed(m, k) => m.att[k].accepting
      BY <1>1, <2>1 DEF FineWith, AttemptServed, Allowed
    <2>3. QED BY <1>1, <1>4, <2>2, AllowedFinishes DEF Accepts
  <1>6. Accepts(m, k, t.att) => Allowed(m, k)
    BY DEF Accepts, Allowed
  <1>7. ASSUME Allowed(m, k) PROVE Chunks(m, k, t)
    <2>1. m.att[k].accepting /\ m.att[k].tailAllowed /\ m.job[k].state \in {"decoding", "transcribing"}
      BY <1>1, <1>5, <1>7, AllowedKnows DEF Accepts
    <2>2. ~Stops(T)
      BY <1>1, <1>7, AllowedKnows
    <2>3. ~m.job[k].vad /\ m.decoder[k].att = t.att
      BY <1>1, <1>2, <2>1 DEF FineWith, AudioHeld, DecoderKnown
    <2>4. m.decoder[k].busy
      BY <1>1, <1>2, <1>3, <1>4, <2>3, WorkerKnows DEF Idles
    <2>5. t.at # "overflow" => ~(m.pcm[k] > 0)
      <3>1. ASSUME NEW u \in T, u.at = "overflow" PROVE u = t
        BY <1>1, <1>2, <1>3, <3>1, RolesOf DEF FineWith, OneWorker, Chunking
      <3>2. QED BY <1>1, <2>2, <2>3, <3>1 DEF FineWith, AudioHeld
    <2>6. t.at = "decoding" => m.job[k].state = "decoding"
      BY <1>1, <1>2, <2>1 DEF FineWith, AttemptServed
    <2>7. ASSUME NEW x \in Mine(m, k) PROVE ~Works(x) /\ ~Starts(m, x) /\ ~Leads(x) /\ ~Holds(x)
      <3>1. x \in T /\ x # t
        BY <1>1
      <3>2. ~Works(x) /\ ~Starts(m, x)
        BY <1>1, <1>2, <1>3, <3>1, WorkerKnows
      <3>3. QED BY <3>2 DEF Works, Leads, Holds
    <2>8. m.pcm[k] \in Nat
      BY PartsOf
    <2>9. QED BY <1>4, <1>5, <1>7, <2>1, <2>3, <2>4, <2>5, <2>6, <2>7, <2>8 DEF Chunks
  <1>8. ASSUME ~Allowed(m, k) PROVE m.pcm[k] = 0 \/ Stops(Mine(m, k))
    <2>1. m.pcm[k] \in Nat
      BY PartsOf
    <2>2. m.pcm[k] > 0 => Stops(T)
      BY <1>1, <1>8 DEF FineWith, AudioHeld, Allowed
    <2>3. Stops(T) => Stops(Mine(m, k))
      BY <1>1, <1>3 DEF Stops
    <2>4. QED BY <2>1, <2>2, <2>3
  <1>9. QED BY <1>1, <1>2, <1>3, <1>4, <1>5, <1>6, <1>7, <1>8

(* A chunk is done: with an attempt that goes on the decoder waits for the *)
(* next, and with one that was stopped the slot is given back.             *)
LEMMA ChunkReturnsFine ==
    ASSUME NEW m, NEW k \in Jobs, NEW t, Sound(m), build \in Nat, With(m, k, {t}),
           t.at \in Chunking, Allowed(m, k) => t.at = "decoding",
           NEW n, n \in ChunkReturns(m, k, t.att)
    PROVE  Fine(n, k) /\ Quiets(m, n)
  <1> DEFINE r == Returned(m, k)
             p == IF m.decoder[k].att = t.att THEN r ELSE m
             left == [p EXCEPT !.consumer = @ \ {k}]
  <1>0. m \in Memories
    BY DEF Sound
  <1>1. /\ t.att \in Nat /\ t.att > 0 /\ Holds(t) /\ InChunk(t)
        /\ Allowed(m, k) <=> ~(IsOver(m, k) \/ ~Accepts(m, k, t.att))
        /\ Allowed(m, k) => Chunks(m, k, t)
        /\ ~Allowed(m, k) => m.pcm[k] = 0 \/ Stops(Mine(m, k))
    BY ChunkKnows
  <1>2. /\ Sound(r) /\ r \in Memories /\ Apart(m, r, k)
        /\ r.decoder[k].att = m.decoder[k].att /\ ~r.decoder[k].busy
        /\ r.queue = m.queue /\ r.pcm = m.pcm /\ r.slot = m.slot
        /\ r.consumer = m.consumer /\ r.job = m.job /\ r.made = m.made
        /\ r.att = m.att /\ r.threads = m.threads
    BY ReturnedIs
  <1>3. n \in LeaveChunk(p, k, t.att)
    BY DEF ChunkReturns, Returned
  <1> HIDE DEF r
  <1>4. /\ Sound(p) /\ Apart(m, p, k)
        /\ p.queue = m.queue /\ p.pcm = m.pcm /\ p.slot = m.slot
        /\ p.consumer = m.consumer /\ p.job = m.job /\ p.made = m.made
        /\ p.att = m.att /\ p.threads = m.threads
        /\ \/ p.decoder[k] = m.decoder[k] /\ m.decoder[k].att # t.att
           \/ m.decoder[k].att = t.att /\ p.decoder[k].att = t.att /\ ~p.decoder[k].busy
    BY <1>0, <1>2 DEF Apart
  <1> HIDE DEF p
  <1>5. /\ IsOver(p, k) <=> IsOver(m, k)
        /\ Accepts(p, k, t.att) <=> Accepts(m, k, t.att)
    BY <1>4 DEF IsOver, Accepts
  <1>6. IF Allowed(m, k) THEN n = left ELSE n \in ReleaseAdmission(left, k, t.att, FALSE)
    BY <1>1, <1>3, <1>5 DEF LeaveChunk
  <1>7. CASE ~Allowed(m, k)
    <2>1. n \in ReleaseAdmission([p EXCEPT !.consumer = @ \ {k}], k, t.att, FALSE)
      BY <1>6, <1>7
    <2>2. Leaving(m, k, t, p, {})
      BY <1>1, <1>4, <1>7 DEF Leaving
    <2> HIDE DEF left
    <2>5. With(n, k, {}) /\ \A x : Quiets(x, n)
      BY <1>4, <2>1, <2>2, LeavesStopped
    <2>6. QED BY <2>5, WithNone
  <1>8. CASE Allowed(m, k)
    <2>1. n = left /\ t.at = "decoding" /\ Chunks(m, k, t)
      BY <1>1, <1>6, <1>8
    <2>2. /\ Apart(p, left, k) /\ left.consumer = p.consumer \ {k}
          /\ left.queue = p.queue /\ left.pcm = p.pcm /\ left.decoder = p.decoder
          /\ left.slot = p.slot /\ left.job = p.job /\ left.made = p.made
          /\ left.att = p.att /\ left.threads = p.threads
      <3>1. p \in Memories
        BY <1>4 DEF Sound
      <3>2. QED BY <3>1, ConsumerSet
    <2> HIDE DEF left
    <2>3. Apart(m, n, k) /\ (Queued(n, k) <=> Queued(m, k))
      BY <1>4, <2>1, <2>2, ApartTwice DEF Queued
    <2>4. /\ n.decoder[k].att = m.made[k] /\ Idles(n, k)
          /\ n.made[k] = m.made[k] /\ n.att[k].accepting /\ n.att[k].tailAllowed
          /\ n.job[k].state = "decoding" /\ k \notin n.consumer /\ ~n.job[k].vad /\ n.pcm[k] = 0
      <3>1. n.decoder[k] = p.decoder[k] /\ n.att = m.att /\ n.job = m.job /\ n.pcm = m.pcm
            /\ k \notin n.consumer /\ n.made = m.made
        BY <1>4, <2>1, <2>2
      <3>2. /\ m.decoder[k].att = t.att /\ t.att = m.made[k] /\ t.att > 0
            /\ m.att[k].accepting /\ m.att[k].tailAllowed
            /\ m.job[k].state = "decoding" /\ ~m.job[k].vad /\ m.pcm[k] = 0
        BY <2>1 DEF Chunks
      <3>3. p.decoder[k].att = t.att /\ ~p.decoder[k].busy
        BY <1>4, <3>2
      <3>4. QED BY <3>1, <3>2, <3>3 DEF Idles
    <2>5. /\ FineWith(m, k, Mine(m, k) \cup {t}) /\ \A x \in Mine(m, k) \cup {t} : x.job = k
      BY WithKnows
    <2>6. \A x \in Mine(m, k) : ~Works(x) /\ ~Starts(m, x)
      BY <2>1 DEF Chunks
    <2>7. Mine(m, k) \in SUBSET (Mine(m, k) \cup {t})
      OBVIOUS
    <2>8. n.pcm[k] \in Nat /\ n.pcm[k] = IF n.job[k].vad THEN n.decoder[k].next ELSE 0
      BY <2>4
    <2>9. FineWith(n, k, Mine(m, k))
      BY <1>8, <2>3, <2>4, <2>5, <2>6, <2>7, <2>8, IdleIsFine
    <2>10. Mine(n, k) = Mine(m, k)
      BY <1>4, <2>1, <2>2 DEF Mine
    <2>11. Quiets(m, n)
      <3>1. n.slot = m.slot /\ (n.job[k].state = "queued" => m.job[k].state = "queued")
        BY <1>4, <2>1, <2>2
      <3>2. QED BY <2>3, <3>1, QuietsApart
    <2>12. QED BY <2>9, <2>10, <2>11 DEF Fine
  <1>9. QED BY <1>7, <1>8

(* What a failure of a chunk leaves once it is written: the decoder hears  *)
(* of it, at once or when pump() has gone on.                              *)
LEMMA ChunkThrowsFine ==
    ASSUME NEW m, NEW k \in Jobs, NEW t, Sound(m), build \in Nat, With(m, k, {t}),
           t.at = "failing", t.then = "chunk", m.pcm[k] = 0,
           NEW n, n \in ChunkThrows(m, k, t.att)
    PROVE  Fine(n, k) /\ Quiets(m, n)
  <1> DEFINE u == Thread("threw", k, t.att)
             T == Mine(m, k) \cup {t}
             G == IF u \in m.threads THEN {} ELSE {u}
  <1>1. /\ FineWith(m, k, T) /\ \A x \in T : x.job = k /\ x.att \in Nat /\ x.att <= m.made[k]
        /\ t \in T
    BY WithKnows DEF With, Mine
  <1>2. InChunk(t) /\ Holds(t)
    BY DEF InChunk, Holds
  <1> HIDE DEF T
  <1>3. t.att > 0 /\ m.job[k].state = "failed" /\ t.att \in Nat
    BY <1>1, <1>2 DEF FineWith, DecoderKnown, StateKnown
  <1>4. ~Allowed(m, k)
    BY <1>1, <1>3 DEF FineWith, AttemptServed
  <1>5. "threw" \in Points
    BY DEF Points
  <1>6. u \in Threads /\ u.at = "threw" /\ u.job = k /\ u.att = t.att
    BY <1>3, <1>5, ThreadIs
  <1>7. PICK left \in LeaveChunk(m, k, t.att) :
          n \in Later(left, u, {DecoderRejected(left, k, t.att)})
    BY DEF ChunkThrows
  <1> HIDE DEF u
  <1>8. left \in ReleaseAdmission([m EXCEPT !.consumer = @ \ {k}], k, t.att, FALSE)
    BY <1>4, <1>7 DEF LeaveChunk, Accepts, Allowed
  <1>9. \A x \in G : x = u /\ u \notin m.threads
    OBVIOUS
  <1>10. \E x \in Mine(m, k) \cup G : x.at = "threw" /\ x.att = t.att
    BY <1>6 DEF Mine
  <1>11. (G = {u} \/ G = {}) /\ (G = {} => u \in Mine(m, k))
    BY <1>6 DEF Mine
  <1> HIDE DEF G
  <1>12. Apart(m, m, k)
    BY DEF Apart, Sound
  <1>13. Leaving(m, k, t, m, G)
    BY <1>2, <1>3, <1>4, <1>6, <1>9, <1>10, <1>12 DEF Leaving
  <1>14. Sound(left) /\ With(left, k, G) /\ (\A x : Quiets(x, left)) /\ Mine(left, k) = Mine(m, k)
    <2>1. /\ Sound(left) /\ With(left, k, G) /\ \A x : Quiets(x, left)
          /\ m.job[k].state # "queued" => Mine(left, k) = Mine(m, k)
      BY <1>8, <1>13, LeavesStopped
    <2>2. QED BY <1>3, <2>1
  <1>15. CASE left.slot # {}
    <2>1. n = Await(left, u)
      BY <1>7, <1>15 DEF Later
    <2>2. CASE G = {u}
      <3>1. Fine(n, k) /\ Quiets(left, n)
        BY <1>14, <2>1, <2>2, JoinWith
      <3>2. QED BY <1>14, <3>1, QuietsTwice
    <2>3. CASE G = {}
      <3>1. left \in Memories /\ u \in left.threads
        BY <1>11, <1>14, <2>3 DEF Sound, Mine
      <3>2. Await(left, u) = [left EXCEPT !.threads = left.threads \cup {u}]
        BY DEF Await
      <3>3. left.threads \cup {u} = left.threads
        BY <3>1
      <3>4. n = left
        BY <2>1, <3>1, <3>2, <3>3 DEF Memories
      <3>5. QED BY <1>14, <2>3, <3>4, WithNone
    <2>4. QED BY <1>11, <2>2, <2>3
  <1>16. CASE left.slot = {}
    <2>1. n = DecoderRejected(left, k, t.att)
      BY <1>7, <1>16 DEF Later
    <2>2. CASE G = {u}
      <3>1. Fine(n, k) /\ Quiets(left, n)
        BY <1>6, <1>14, <2>1, <2>2, ThrewFine
      <3>2. QED BY <1>14, <3>1, QuietsTwice
    <2>3. CASE G = {} /\ left.decoder[k].att # t.att
      BY <1>14, <2>1, <2>3, WithNone DEF DecoderRejected
    <2>4. CASE G = {} /\ left.decoder[k].att = t.att
      <3>1. n = FailDecoder([left EXCEPT !.decoder[k] = NoDecoder], k)
        BY <2>1, <2>4 DEF DecoderRejected
      <3>2. With(n, k, {}) /\ Quiets(left, n)
        BY <1>3, <1>14, <2>4, <3>1, DecoderGone
      <3>3. QED BY <1>14, <3>2, QuietsTwice, WithNone
    <2>5. QED BY <1>11, <2>2, <2>3, <2>4
  <1>17. QED BY <1>15, <1>16

-----------------------------------------------------------------------------
(* The windows.                                                            *)

(* What a thread with the whole recording finds.                           *)
LEMMA WindowKnows ==
    ASSUME NEW m, NEW k \in Jobs, NEW t, Sound(m), With(m, k, {t}), InConsume(t)
    PROVE  /\ t.job = k /\ t.att \in Nat /\ Holds(t) /\ Works(t) /\ Leads(t)
           /\ t.att = m.made[k] /\ t.att = m.att[k].id /\ k \in m.slot /\ k \in m.consumer
           /\ m.decoder[k].att = 0 /\ m.pcm[k] = 0
           /\ m.job[k].state # "queued"
           /\ t.at \in Windowing => (Allowed(m, k) <=> Transcribe(m, k, t.att))
           /\ Allowed(m, k) => /\ t.at \in Windowing /\ m.job[k].state = "transcribing"
                               /\ m.att[k].accepting /\ m.att[k].tailAllowed /\ t.att > 0
                               /\ CanFinish(m, k, t.att)
           /\ \A x \in Mine(m, k) : ~Works(x) /\ ~Starts(m, x) /\ ~Leads(x) /\ ~Holds(x)
  <1> DEFINE T == Mine(m, k) \cup {t}
  <1>1. /\ FineWith(m, k, T) /\ \A x \in T : x.job = k /\ x.att \in Nat /\ x.att <= m.made[k]
        /\ T \ {t} = Mine(m, k)
    BY WithKnows DEF With, Mine
  <1>2. t \in T /\ Mine(m, k) \subseteq T
    OBVIOUS
  <1>3. Holds(t) /\ Works(t) /\ Leads(t) /\ (t.at = "failing" \/ t.at \in Windowing)
    BY DEF Holds, Works, Leads, InConsume
  <1> HIDE DEF T
  <1>4. k \in m.slot /\ k \in m.consumer /\ t.att = m.att[k].id /\ t.att = m.made[k]
    BY <1>1, <1>2, <1>3, WorkerKnows
  <1>5. m.decoder[k].att = 0 /\ m.pcm[k] = 0 /\ m.job[k].state # "queued"
    BY <1>1, <1>2, <1>3 DEF FineWith, DecoderKnown, AudioHeld, StateKnown
  <1>6. Allowed(m, k) => m.att[k].accepting
    <2>1. \A u \in T : u.at \notin {"finish", "tail"}
      BY <1>1, <1>2, <1>3, RolesOf DEF FineWith, OneWorker, Works
    <2>2. QED BY <1>1, <2>1 DEF FineWith, AttemptServed, Allowed
  <1>7. ASSUME Allowed(m, k)
        PROVE  /\ t.at \in Windowing /\ m.job[k].state = "transcribing"
               /\ m.att[k].accepting /\ m.att[k].tailAllowed /\ t.att > 0
               /\ CanFinish(m, k, t.att) /\ ~IsOver(m, k)
    <2>1. m.att[k].tailAllowed /\ t.at # "failing"
      BY <1>1, <1>2, <1>7, AllowedKnows
    <2>2. m.job[k].state = "transcribing"
      BY <1>1, <1>2, <1>3, <2>1 DEF FineWith, AttemptServed
    <2>3. CanFinish(m, k, t.att) /\ ~IsOver(m, k)
      BY <1>1, <1>4, <1>7, AllowedFinishes
    <2>4. QED BY <1>3, <1>6, <1>7, <2>1, <2>2, <2>3 DEF CanFinish
  <1>8. Allowed(m, k) <=> Transcribe(m, k, t.att)
    BY <1>4, <1>7 DEF Transcribe, Accepts, Allowed
  <1>9. ASSUME NEW x \in Mine(m, k) PROVE ~Works(x) /\ ~Starts(m, x) /\ ~Leads(x) /\ ~Holds(x)
    <2>1. x \in T /\ x # t
      BY <1>1
    <2>2. ~Works(x) /\ ~Starts(m, x)
      BY <1>1, <1>2, <1>3, <2>1, WorkerKnows
    <2>3. QED BY <2>2 DEF Works, Leads, Holds
  <1>10. QED BY <1>1, <1>2, <1>3, <1>4, <1>5, <1>7, <1>8, <1>9

(* The windows end before their time.                                      *)
LEMMA WindowsStopFine ==
    ASSUME NEW m, NEW k \in Jobs, NEW t, Sound(m), build \in Nat, With(m, k, {t}),
           InConsume(t), ~Allowed(m, k), NEW n, n \in ConsumeEnds(m, k, t.att, FALSE)
    PROVE  Fine(n, k) /\ Quiets(m, n)
  <1>1. /\ t.job = k /\ Holds(t) /\ m.decoder[k].att = 0 /\ m.pcm[k] = 0
        /\ m.job[k].state # "queued"
    BY WindowKnows
  <1>2. PICK r \in ReleaseAdmission([m EXCEPT !.consumer = @ \ {k}], k, t.att, FALSE) :
          n = Retire(r, k, t.att)
    BY DEF ConsumeEnds
  <1>3. Apart(m, m, k)
    BY DEF Apart, Sound
  <1>4. Leaving(m, k, t, m, {})
    BY <1>1, <1>3 DEF Leaving
  <1>5. /\ Sound(r) /\ With(r, k, {}) /\ \A x : Quiets(x, r)
        /\ k \notin r.slot /\ k \notin r.consumer /\ ~Allowed(r, k)
    BY <1>1, <1>2, <1>4, LeavesStopped
  <1>6. With(n, k, {}) /\ Quiets(r, n)
    BY <1>2, <1>5, StillRetires
  <1>7. QED BY <1>5, <1>6, QuietsTwice, WithNone

(* The tail begins, unless something has stopped it.                       *)
LEMMA ToTailFine ==
    ASSUME NEW m, NEW k \in Jobs, NEW t, Sound(m), With(m, k, {t}), t.at = "tail"
    PROVE  LET n == ToTail(m, k, t.att) IN Fine(n, k) /\ Quiets(m, n)
  <1> DEFINE left == Retire(m, k, t.att)
             s == Thread("saveMeeting", k, 0)
             u == [s EXCEPT !.rec = m.job[k]]
             T == Mine(m, k) \cup {t}
             n == ToTail(m, k, t.att)
  <1>0. m \in Memories
    BY DEF Sound
  <1>1. /\ FineWith(m, k, T) /\ \A x \in T : x.job = k /\ x.att \in Nat /\ x.att <= m.made[k]
        /\ T \ {t} = Mine(m, k) /\ t \in T
    BY WithKnows DEF With, Mine
  <1> HIDE DEF T
  <1>2. Works(t) /\ ~Holds(t) /\ ~InTail(t)
    BY RolesOf
  <1>3. /\ Apart(m, left, k)
        /\ m.att[k].id = t.att => left.att[k] = NoAttempt
        /\ m.att[k].id # t.att => left = m
        /\ left.job = m.job /\ left.pcm = m.pcm /\ left.slot = m.slot /\ left.consumer = m.consumer
        /\ left.decoder = m.decoder /\ left.threads = m.threads
    BY <1>0, RetireIs
  <1>4. Sound(left)
    BY RetireMoves DEF Moves
  <1>5. /\ left.made = m.made /\ (Queued(left, k) <=> Queued(m, k)) /\ Mine(left, k) = Mine(m, k)
        /\ Quiets(m, left)
    <2>1. Quiets(m, left)
      BY <1>3, QuietsApart
    <2>2. QED BY <1>3, <2>1 DEF Apart, Queued, Mine
  <1>6. n = IF m.job[k].state = "transcribing" /\ CanFinish(m, k, t.att) THEN Await(left, u) ELSE left
    BY DEF ToTail
  <1> HIDE DEF left, n
  <1>7. t.att = m.made[k]
    BY <1>1, <1>2, WorkerKnows
  <1>8. CASE Allowed(m, k)
    <2>1. CanFinish(m, k, t.att) /\ m.job[k].state = "transcribing" /\ m.att[k].id = t.att
      <3>1. CanFinish(m, k, m.att[k].id)
        BY <1>1, <1>8, AllowedFinishes
      <3>2. m.att[k].id = t.att
        BY <1>7, <1>8, PartsOf
      <3>3. m.job[k].state = "transcribing"
        BY <1>1, <3>1 DEF FineWith, AttemptServed, CanFinish
      <3>4. QED BY <3>1, <3>2, <3>3
    <2>2. ~Allowed(left, k)
      BY <1>3, <2>1 DEF Allowed, NoAttempt
    <2>3. /\ ~Stops(T) /\ \A x \in T : ~InTail(x)
      BY <1>1, <1>8, AllowedKnows
    <2>4. k \notin m.consumer /\ m.pcm[k] = 0 /\ k \notin m.slot
      <3>1. k \notin m.consumer
        BY <1>1, <1>2, WorkerKnows
      <3>2. QED BY <1>1, <2>3, <3>1 DEF FineWith, AudioHeld
    <2>5. "saveMeeting" \in Points
      BY DEF Points, Tailing
    <2>6. s \in Threads /\ s.at = "saveMeeting" /\ s.job = k /\ s.att = 0
      BY <2>5, ThreadIs
    <2> HIDE DEF s
    <2>7. u \in Threads /\ u.at = "saveMeeting" /\ u.job = k /\ u.att = 0
      BY <2>6, PartsOf DEF Threads
    <2> HIDE DEF u
    <2>8. InTail(u)
      BY <2>7 DEF InTail, Tailing
    <2>9. u \notin m.threads
      <3>1. u \notin T
        BY <2>3, <2>8
      <3>2. u \notin Mine(m, k)
        BY <1>1, <3>1
      <3>3. QED BY <2>7, <3>2 DEF Mine
    <2>10. FineWith(left, k, (T \ {t}) \cup {u})
      <3>1. \A x \in T : x.job = k
        BY <1>1
      <3>2. left.job[k].state = m.job[k].state /\ left.pcm[k] = 0 /\ k \notin left.slot
            /\ left.made[k] = m.made[k] /\ left.decoder[k] = m.decoder[k]
            /\ (k \in left.consumer <=> k \in m.consumer)
        BY <1>3, <1>5, <2>4
      <3>3. t.at \in {"finish", "tail"}
        OBVIOUS
      <3>4. QED BY <1>1, <1>5, <1>8, <2>2, <2>7, <3>1, <3>2, <3>3, ToSaveIsFine
    <2>11. With(left, k, {u})
      <3>1. 0 <= m.made[k]
        BY PartsOf
      <3>2. QED BY <1>1, <1>3, <1>5, <2>7, <2>9, <2>10, <3>1 DEF With, Crew
    <2>12. Fine(Await(left, u), k) /\ Quiets(left, Await(left, u))
      BY <1>4, <2>11, JoinWith
    <2>13. n = Await(left, u)
      BY <1>6, <2>1
    <2>14. QED BY <1>5, <2>12, <2>13, QuietsTwice DEF n
  <1>9. CASE ~Allowed(m, k)
    <2>1. ~CanFinish(m, k, t.att)
      BY <1>9 DEF CanFinish, Allowed
    <2>2. n = left
      BY <1>6, <2>1
    <2>3. ~Allowed(left, k)
      BY <1>3, <1>9 DEF Allowed, NoAttempt
    <2>4. FineWith(left, k, T \ {t})
      <3>1. \A x \in T : x.job = k
        BY <1>1
      <3>2. left.job[k] = m.job[k] /\ left.pcm[k] = m.pcm[k]
            /\ (k \in left.slot <=> k \in m.slot) /\ left.made[k] = m.made[k]
            /\ left.decoder[k] = m.decoder[k] /\ (k \in left.consumer <=> k \in m.consumer)
        BY <1>3, <1>5
      <3>3. t.at \in {"finish", "tail"}
        OBVIOUS
      <3>4. QED BY <1>1, <1>5, <1>9, <2>3, <3>1, <3>2, <3>3, LeadGone
    <2>5. QED BY <1>1, <1>5, <2>2, <2>4 DEF Fine, n
  <1>10. QED BY <1>8, <1>9

(* The windows are all transcribed.                                        *)
LEMMA WindowsEndFine ==
    ASSUME NEW m, NEW k \in Jobs, NEW t, Sound(m), build \in Nat, With(m, k, {t}),
           InConsume(t), Allowed(m, k), NEW n, n \in ConsumeEnds(m, k, t.att, TRUE)
    PROVE  Fine(n, k) /\ Quiets(m, n)
  <1> DEFINE u == Thread("tail", k, t.att)
             T == Mine(m, k) \cup {t}
             left == [m EXCEPT !.consumer = @ \ {k}]
  <1>0. m \in Memories
    BY DEF Sound
  <1>1. /\ t.att \in Nat /\ t.att = m.made[k] /\ t.att = m.att[k].id /\ k \in m.slot
        /\ m.decoder[k].att = 0 /\ m.pcm[k] = 0 /\ m.job[k].state = "transcribing"
        /\ m.att[k].tailAllowed /\ CanFinish(m, k, t.att)
        /\ \A x \in Mine(m, k) : ~Works(x) /\ ~Starts(m, x)
    BY WindowKnows
  <1>2. FineWith(m, k, T) /\ \A x \in T : x.job = k
    BY WithKnows
  <1>3. left.att = m.att
    BY <1>0, ConsumerSet
  <1>4. PICK r \in ReleaseAdmission(left, k, t.att, TRUE /\ CanFinish(left, k, t.att)) :
          n \in Later(r, u, {ToTail(r, k, t.att)})
    BY DEF ConsumeEnds
  <1>5. CanFinish(left, k, t.att)
    BY <1>1, <1>3 DEF CanFinish
  <1>6. PICK b \in BOOLEAN : b = TRUE
    OBVIOUS
  <1>7. r \in ReleaseAdmission(left, k, t.att, b)
    BY <1>4, <1>5, <1>6
  <1>8. PICK d : /\ Sound(d) /\ r \in Pumped(d) /\ k \notin d.slot /\ k \notin d.consumer
                 /\ d.job = m.job /\ d.pcm = m.pcm /\ d.made = m.made /\ d.decoder = m.decoder
                 /\ d.queue = m.queue /\ d.threads = m.threads
                 /\ ~d.att[k].accepting
                 /\ IF b /\ m.att[k].tailAllowed
                    THEN d.att[k].tailAllowed /\ d.att[k].id = t.att ELSE d.att[k] = NoAttempt
    BY <1>1, <1>7, LetGo
  <1>9. "tail" \in Points
    BY DEF Points
  <1>10. u \in Threads /\ u.at = "tail" /\ u.job = k /\ u.att = t.att
    BY <1>1, <1>9, ThreadIs
  <1> HIDE DEF u, left
  <1>11. u \notin m.threads
    BY <1>1, <1>10, RolesOf DEF Mine
  <1>12. FineWith(d, k, Mine(m, k) \cup {u})
    <2>1. Mine(m, k) \in SUBSET T
      OBVIOUS
    <2> HIDE DEF T
    <2>2. d.att[k].tailAllowed /\ d.made[k] = m.made[k] /\ d.decoder[k].att = 0 /\ d.pcm[k] = 0
          /\ d.job[k].state = "transcribing" /\ (Queued(d, k) <=> Queued(m, k))
      BY <1>1, <1>6, <1>8 DEF Queued
    <2>3. u.at \in Windowing \cup {"finish", "tail"} /\ u.at \notin Windowing /\ u.att = m.made[k]
      BY <1>1, <1>10 DEF Windowing
    <2>4. d.job[k].state = IF u.at = "finish" THEN "decoding" ELSE "transcribing"
      BY <1>10, <2>2
    <2>5. IF u.at = "finish" /\ d.job[k].vad THEN d.att[k].accepting /\ d.pcm[k] > 0
          ELSE d.pcm[k] = 0
      BY <1>10, <2>2
    <2>6. QED BY <1>1, <1>2, <1>8, <1>10, <2>1, <2>2, <2>3, <2>4, <2>5, LeadIsFine
  <1>13. Mine(d, k) = Mine(m, k)
    BY <1>8 DEF Mine
  <1>14. With(d, k, {u})
    BY <1>1, <1>2, <1>8, <1>10, <1>11, <1>12, <1>13, MineIsCrew DEF With, Crew
  <1>15. Sound(r) /\ With(r, k, {u}) /\ \A x : Quiets(x, r)
    BY <1>8, <1>14, PumpWith
  <1>16. CASE r.slot # {}
    <2>1. n = Await(r, u)
      BY <1>4, <1>16 DEF Later
    <2>2. Fine(n, k) /\ Quiets(r, n)
      BY <1>15, <2>1, JoinWith
    <2>3. QED BY <1>15, <2>2, QuietsTwice
  <1>17. CASE r.slot = {}
    <2>1. n = ToTail(r, k, u.att)
      BY <1>4, <1>10, <1>17 DEF Later
    <2>2. Fine(n, k) /\ Quiets(r, n)
      BY <1>10, <1>15, <2>1, ToTailFine
    <2>3. QED BY <1>15, <2>2, QuietsTwice
  <1>18. QED BY <1>16, <1>17

-----------------------------------------------------------------------------
(* The theorems.                                                           *)

(* Whatever the interleaving of the threads, the cancels, failures, deaths *)
(* and versions: one recording has the slot, an attempt that accepts chunks*)
(* is that of the recording which has it, no attempt of a job that is      *)
(* cancelled or has failed may go on, and the lists of jobs that are being *)
(* created or recovered are of jobs which the manager does not know yet.   *)
THEOREM ImportsAreOrderly == Spec => []Orderly
  <1>1. Init => Orderly
    BY InitIsOrderly
  <1>2. Orderly /\ [Next]_vars => Orderly'
    BY NextIsOrderly
  <1>3. QED BY <1>1, <1>2, PTL DEF Spec

(* A cancelled import is not brought back by any step but the end of a     *)
(* saveMeeting() that was under way.                                       *)
THEOREM CancelIsHeeded == Spec => CancelHolds
  <1>1. Orderly /\ [Next]_vars =>
          [\A j \in Jobs :
              mem.job[j].state = "cancelled" /\ (\A t \in At("saveMeeting") : t.job # j) =>
                  mem'.job[j].state \in {"cancelled", "absent"}]_vars
    BY NextIsOrderly DEF Heeds
  <1>2. Spec => []Orderly
    BY ImportsAreOrderly
  <1>3. QED BY <1>1, <1>2, PTL DEF Spec, CancelHolds
=============================================================================
