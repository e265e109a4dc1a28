----------------------- MODULE ImportJobsServedProofs -----------------------
(***************************************************************************)
(* That no import is forgotten and one recording is held at a time, for    *)
(* every finite set of recordings.  Each handler leaves the job it is for  *)
(* Fine: whoever works on it is known by its state, its attempt, its audio *)
(* and its decoder.  It also leaves nobody waiting for a slot that is free *)
(* unless the queue is still being added to, when whoever adds will pump.  *)
(* With Orderly that makes IInv inductive.                                 *)
(* What is said of the meetings, Papers, is inductive relative to IInv: a  *)
(* meeting file, the record of its job, its checkpoint and the threads of  *)
(* its tail agree on whether it is there and who will see to it.  So a     *)
(* recording becomes one meeting, and a cancel leaves nothing.             *)
(***************************************************************************)
EXTENDS ImportJobsProofs

-----------------------------------------------------------------------------
(* Failures.                                                               *)

(* What a thread that fails a job finds.                                   *)
LEMMA FailureKnows ==
    ASSUME NEW m, NEW k \in Jobs, NEW t, Sound(m), With(m, k, {t}), t.at = "failing"
    PROVE  t.job = k /\ ~Allowed(m, k) /\ m.job[k].state = "failed"
  <1>1. FineWith(m, k, Mine(m, k) \cup {t}) /\ t.job = k
    BY WithKnows
  <1>2. m.job[k].state = "failed"
    BY <1>1 DEF FineWith, StateKnown
  <1>3. QED BY <1>1, <1>2 DEF FineWith, AttemptServed

(* Whoever awaits a failure goes on.                                       *)
LEMMA AfterFailFine ==
    ASSUME NEW m, NEW k \in Jobs, NEW t, Sound(m), build \in Nat, With(m, k, {t}),
           t.at = "failing", t.then \in Awaiters, m.pcm[k] = 0, k \in m.slot => k \in m.consumer,
           NEW n, n \in AfterFail(m, t)
    PROVE  Fine(n, k) /\ Quiets(m, n)
  <1> DEFINE T == Mine(m, k) \cup {t}
             g == [m EXCEPT !.decoder[k] = NoDecoder]
  <1>0. t.job = k /\ ~Allowed(m, k) /\ m.job[k].state = "failed"
    BY FailureKnows
  <1>1. FineWith(m, k, T) /\ (\A x \in T : x.job = k) /\ T \ {t} = Mine(m, k) /\ t \in T
    BY WithKnows DEF With, Mine
  <1>2. ASSUME t.then \notin {"chunk", "consume", "tail"}
        PROVE  ~Holds(t) /\ ~InTail(t)
    BY <1>2 DEF Holds, InTail, InChunk, InConsume, Chunking, Windowing, Tailing
  <1> HIDE DEF T
  <1>3. CASE t.then = "chunk"
    <2>1. n \in ChunkThrows(m, k, t.att)
      BY <1>0, <1>3 DEF AfterFail
    <2>2. QED BY <1>3, <2>1, ChunkThrowsFine
  <1>4. CASE t.then = "consume"
    <2>1. n \in ConsumeEnds(m, k, t.att, FALSE)
      BY <1>0, <1>4 DEF AfterFail
    <2>2. InConsume(t)
      BY <1>4 DEF InConsume
    <2>3. QED BY <1>0, <2>1, <2>2, WindowsStopFine
  <1>5. CASE t.then = "tail"
    <2>1. n \in TailEnds(m, k)
      BY <1>0, <1>5 DEF AfterFail
    <2>2. InTail(t)
      BY <1>5 DEF InTail
    <2>3. QED BY <1>0, <2>1, <2>2, TailEndsFine
  <1>6. ASSUME t.then \in {"none", "refused"}, t.then = "refused" => m.decoder[k].att # t.att, n = m
        PROVE  Fine(n, k) /\ Quiets(m, n)
    <2>1. ~Holds(t) /\ ~InTail(t)
      BY <1>2, <1>6
    <2>2. InRefusal(t) => m.decoder[k].att # t.att
      BY <1>6 DEF InRefusal
    <2>3. FineWith(m, k, T \ {t})
      BY <1>0, <1>1, <2>1, <2>2, StopperGone
    <2>4. QED BY <1>1, <1>6, <2>3 DEF Fine, Quiets
  <1>7. ASSUME t.then = "refused", m.decoder[k].att = t.att, n = g
        PROVE  Fine(n, k) /\ Quiets(m, n)
    <2>1. ~Holds(t) /\ ~InTail(t)
      BY <1>2, <1>7
    <2>2. m \in Memories /\ NoDecoder \in Decoders
      BY DEF Sound, NoDecoder, Decoders
    <2>3. /\ Apart(m, g, k) /\ g.decoder[k] = NoDecoder
          /\ g.queue = m.queue /\ g.pcm = m.pcm /\ g.slot = m.slot
          /\ g.consumer = m.consumer /\ g.job = m.job /\ g.made = m.made
          /\ g.att = m.att /\ g.threads = m.threads
      BY <2>2, DecoderSet
    <2> HIDE DEF g
    <2>4. InRefusal(t)
      BY <1>7 DEF InRefusal
    <2>5. g.job[k] = m.job[k] /\ (Queued(g, k) <=> Queued(m, k)) /\ Mine(g, k) = Mine(m, k)
          /\ Quiets(m, g)
      BY <2>3, QuietsApart DEF Queued, Mine
    <2>6. FineWith(g, k, T \ {t})
      BY <1>0, <1>1, <1>7, <2>1, <2>3, <2>4, <2>5, StopperGone
    <2>7. QED BY <1>1, <1>7, <2>5, <2>6 DEF Fine
  <1>8. CASE t.then = "none"
    <2>1. n = m
      BY <1>8 DEF AfterFail
    <2>2. QED BY <1>6, <1>8, <2>1
  <1>9. CASE t.then = "refused"
    <2>1. n = DecoderRejected(m, k, t.att)
      BY <1>0, <1>9 DEF AfterFail
    <2>2. CASE m.decoder[k].att # t.att
      BY <1>6, <1>9, <2>1, <2>2 DEF DecoderRejected
    <2>3. CASE m.decoder[k].att = t.att
      <3>1. n = FailDecoder(g, k)
        BY <2>1, <2>3 DEF DecoderRejected
      <3>2. g.att = m.att
        BY DEF Sound, Memories
      <3>3. ~CanFinish(g, k, g.att[k].id)
        BY <1>0, <3>2 DEF CanFinish, Allowed
      <3>4. n = g
        BY <3>1, <3>3 DEF FailDecoder
      <3>5. QED BY <1>7, <1>9, <2>3, <3>4
    <2>4. QED BY <2>2, <2>3
  <1>10. QED BY <1>3, <1>4, <1>5, <1>8, <1>9 DEF Awaiters

(* The save of a failed job.                                               *)
LEMMA FailSavedFine ==
    ASSUME Orderly, NEW t \in mem.threads, FailSaved(t), Fine(mem, t.job)
    PROVE  Fine(mem', t.job) /\ Quiets(mem, mem')
  <1> DEFINE k == t.job
             w == Woken(t)
             d == [w EXCEPT !.pcm[k] = 0]
  <1>1. /\ t \in Threads /\ k \in Jobs /\ w \in Memories /\ Sound(w) /\ build \in Nat
        /\ Apart(mem, w, k) /\ w.slot = mem.slot /\ w.job = mem.job
    BY WokenIs DEF Orderly, TypeOK
  <1>2. With(w, k, {t}) /\ t.at = "failing" /\ t.then \in Awaiters
    <2>1. t.then # "boot"
      BY DEF FailSaved, Orderly, Sound, Booting
    <2>2. t.then \in Awaiters
      BY <1>1, <2>1 DEF Threads, Awaiters
    <2>3. QED BY <2>2, WokenWith DEF Orderly, FailSaved
  <1>3. PICK m \in ReleaseDecode(d, k) :
          \E n \in Idle(IF k \notin m.slot \cup m.consumer THEN Retire(m, k, t.att) ELSE m, k) :
             mem' \in AfterFail(n, t)
    BY DEF FailSaved
  <1> DEFINE r == IF k \notin m.slot \cup m.consumer THEN Retire(m, k, t.att) ELSE m
  <1>4. PICK n \in Idle(r, k) : mem' \in AfterFail(n, t)
    BY <1>3
  <1> HIDE DEF w
  <1>5. ~Allowed(w, k) /\ w.job[k].state = "failed"
    BY <1>1, <1>2, FailureKnows
  <1>6. /\ Apart(w, d, k) /\ d.pcm[k] = 0
        /\ d.queue = w.queue /\ d.decoder = w.decoder /\ d.slot = w.slot
        /\ d.consumer = w.consumer /\ d.job = w.job /\ d.made = w.made
        /\ d.att = w.att /\ d.threads = w.threads
    BY <1>1, PcmSet
  <1>7. Sound(d)
    BY <1>1, PcmMoves DEF Moves
  <1> HIDE DEF d, k
  <1>8. /\ With(d, k, {t}) /\ Quiets(w, d) /\ ~Allowed(d, k) /\ d.job[k].state = "failed"
    <2>1. FineWith(w, k, Mine(w, k) \cup {t}) /\ \A x \in Mine(w, k) \cup {t} : x.job = k
      BY <1>1, <1>2, WithKnows
    <2>2. Queued(d, k) <=> Queued(w, k)
      BY <1>6 DEF Queued
    <2>3. FineWith(d, k, Mine(w, k) \cup {t})
      BY <1>5, <1>6, <2>1, <2>2, DroppedIsFine
    <2>4. With(d, k, {t})
      BY <1>2, <1>6, <2>3, CrewStays
    <2>5. Quiets(w, d)
      BY <1>6, QuietsApart
    <2>6. QED BY <1>5, <1>6, <2>4, <2>5 DEF Allowed
  <1>9. /\ Sound(m) /\ With(m, k, {t}) /\ Still(d, m, k) /\ Quiets(d, m)
        /\ k \in m.slot => k \in m.consumer
    BY <1>1, <1>3, <1>6, <1>7, <1>8, StillReleasesDecode
  <1>10. ~Allowed(m, k) /\ m.job[k].state = "failed"
    BY <1>8, <1>9 DEF Still
  <1>11. /\ Sound(r) /\ With(r, k, {t}) /\ Still(d, r, k) /\ Quiets(m, r)
         /\ k \in r.slot => k \in r.consumer
    <2>1. CASE k \notin m.slot \cup m.consumer
      <3>1. r = Retire(m, k, t.att)
        BY <2>1
      <3> HIDE DEF r
      <3>2. Sound(r) /\ With(r, k, {t}) /\ Still(m, r, k) /\ Quiets(m, r)
        BY <1>1, <1>9, <1>10, <2>1, <3>1, StillRetires
      <3>3. k \notin r.slot
        BY <2>1, <3>2 DEF Still
      <3>4. QED BY <1>9, <3>2, <3>3, StillTwice
    <2>2. CASE k \in m.slot \cup m.consumer
      <3>1. r = m
        BY <2>2
      <3> HIDE DEF r
      <3>2. QED BY <1>9, <3>1 DEF Quiets
    <2>3. QED BY <2>1, <2>2
  <1>12. ~Allowed(r, k) /\ r.job[k].state = "failed"
    BY <1>8, <1>11 DEF Still
  <1>13. n \in Idle(r, k)
    BY <1>4 DEF k
  <1> HIDE DEF r
  <1>14. Sound(n) /\ With(n, k, {t}) /\ Quiets(r, n) /\ Still(r, n, k)
    BY <1>1, <1>11, <1>12, <1>13, IdleWith
  <1>15. n.pcm[k] = 0 /\ (k \in n.slot => k \in n.consumer)
    BY <1>6, <1>11, <1>14 DEF Still
  <1>16. Fine(mem', k) /\ Quiets(n, mem')
    BY <1>1, <1>2, <1>4, <1>14, <1>15, AfterFailFine
  <1>17. Quiets(mem, w)
    BY <1>1, QuietsApart
  <1>18. Quiets(mem, mem')
    BY <1>8, <1>9, <1>11, <1>14, <1>16, <1>17, QuietsTwice
  <1>19. QED BY <1>16, <1>18 DEF k

-----------------------------------------------------------------------------
(* The slabs.                                                              *)

(* A job whose attempt goes on, with the threads in R besides its worker.  *)
Before(m, k, T, R) ==
    /\ FineWith(m, k, T) /\ (\A t \in T : t.job = k) /\ Allowed(m, k)
    /\ R \in SUBSET T /\ \A x \in R : ~Works(x) /\ ~Starts(m, x)

(* What the work on a chunk needs.                                         *)
Transcribes(q, k, a) ==
    /\ q.att[k].accepting /\ q.att[k].tailAllowed /\ q.att[k].id = a /\ a = q.made[k] /\ a > 0
    /\ q.decoder[k].att = a /\ q.decoder[k].busy
    /\ q.job[k].state \in {"decoding", "transcribing"} /\ ~q.job[k].vad
    /\ k \in q.consumer /\ k \in q.slot

(* A thread goes on with the chunk.                                        *)
LEMMA ChunkJoins ==
    ASSUME NEW m, NEW q, NEW k \in Jobs, NEW T, NEW a, Sound(q), Before(m, k, T, Mine(q, k)),
           q.made[k] = m.made[k], Queued(q, k) <=> Queued(m, k), Transcribes(q, k, a),
           NEW u \in Threads, u.job = k, u.at \in Chunking, u.att = a,
           q.pcm[k] = 0 \/ u.at = "overflow", u.at = "decoding" => q.job[k].state = "decoding"
    PROVE  Fine(Await(q, u), k) /\ Quiets(q, Await(q, u))
  <1>1. /\ FineWith(m, k, T) /\ (\A t \in T : t.job = k) /\ Allowed(m, k)
        /\ Mine(q, k) \in SUBSET T /\ \A x \in Mine(q, k) : ~Works(x) /\ ~Starts(m, x)
    BY DEF Before
  <1>2. /\ q.att[k].accepting /\ q.att[k].tailAllowed /\ u.att = q.att[k].id /\ u.att = m.made[k]
        /\ u.att > 0 /\ q.decoder[k].att = u.att /\ q.decoder[k].busy
        /\ q.job[k].state \in {"decoding", "transcribing"} /\ ~q.job[k].vad
        /\ k \in q.consumer /\ k \in q.slot
    BY DEF Transcribes
  <1>3. FineWith(q, k, Mine(q, k) \cup {u})
    BY <1>1, <1>2, ChunkIsFine
  <1>4. Works(u)
    BY RolesOf
  <1>5. u \notin q.threads
    BY <1>1, <1>4 DEF Mine
  <1>6. With(q, k, {u})
    <2>1. u.att <= q.made[k] /\ q.made[k] \in Nat
      BY <1>2, PartsOf
    <2>2. QED BY <1>3, <1>5, <2>1 DEF With, Crew
  <1>7. QED BY <1>6, JoinWith

(* The same, when it writes the job.                                       *)
LEMMA ChunkSaves ==
    ASSUME NEW m, NEW q, NEW k \in Jobs, NEW T, NEW a, Sound(q), Before(m, k, T, Mine(q, k)),
           q.made[k] = m.made[k], Queued(q, k) <=> Queued(m, k), Transcribes(q, k, a),
           NEW u \in Threads, u.job = k, u.at \in Chunking, u.att = a,
           q.pcm[k] = 0 \/ u.at = "overflow", u.at = "decoding" => q.job[k].state = "decoding"
    PROVE  Fine(Save(q, u), k) /\ Quiets(q, Save(q, u))
  <1> DEFINE v == Saving(q, u)
  <1>1. v \in Threads /\ v.at = u.at /\ v.job = u.job /\ v.att = u.att
    BY SavingIs DEF Sound
  <1>2. Save(q, u) = Await(q, v)
    BY DEF Save, Saving
  <1> HIDE DEF v
  <1>3. v.job = k /\ v.at \in Chunking /\ v.att = a /\ (q.pcm[k] = 0 \/ v.at = "overflow")
        /\ (v.at = "decoding" => q.job[k].state = "decoding")
    BY <1>1
  <1>4. Fine(Await(q, v), k) /\ Quiets(q, Await(q, v))
    BY <1>1, <1>3, ChunkJoins
  <1>5. QED BY <1>2, <1>4

(* A job with another state, which means nothing to who is beside it.      *)
LEMMA StateSet ==
    ASSUME NEW m, NEW k \in Jobs, Sound(m), NEW r \in JobRecords,
           r.state \in {"decoding", "transcribing"}, ~r.vad,
           k \in Known(m), m.job[k].state # "cancelled"
    PROVE  LET n == [m EXCEPT !.job[k] = r] IN
           /\ Sound(n) /\ Apart(m, n, k) /\ n.job[k] = r
           /\ n.queue = m.queue /\ n.pcm = m.pcm /\ n.slot = m.slot
           /\ n.consumer = m.consumer /\ n.att = m.att /\ n.made = m.made
           /\ n.decoder = m.decoder /\ n.threads = m.threads
  <1>1. m \in Memories
    BY DEF Sound
  <1>2. Moves(m, [m EXCEPT !.job[k] = r], k)
    BY JobMoves
  <1>3. QED BY <1>1, <1>2, JobSet DEF Moves

(* The next slab, of those that were buffered or the one that came.        *)
LEMMA NextSlabFine ==
    ASSUME NEW m, NEW q, NEW k \in Jobs, NEW T, NEW a \in Nat, NEW seq \in Nat, Sound(q),
           Before(m, k, T, Mine(q, k)),
           q.made[k] = m.made[k], Queued(q, k) <=> Queued(m, k), Transcribes(q, k, a),
           q.pcm[k] = 0
    PROVE  LET n == NextSlab(q, k, a, seq) IN Fine(n, k) /\ Quiets(q, n)
  <1> DEFINE n == NextSlab(q, k, a, seq)
             cursor == q.job[k].cursor
  <1>1. {"slab", "transcribing", "decoding"} \subseteq Points
        /\ {"slab", "transcribing", "decoding"} \subseteq Chunking
    BY DEF Points, Chunking
  <1>2. CASE cursor < seq
    <2> DEFINE u == ChunkAt("slab", k, a, seq)
    <2>1. u \in Threads /\ u.at = "slab" /\ u.job = k /\ u.att = a
      BY <1>1, ChunkAtIs
    <2>2. n = Await(q, u)
      BY <1>2 DEF NextSlab
    <2> HIDE DEF u, n
    <2>3. u.at \in Chunking /\ u.at # "decoding"
      BY <1>1, <2>1
    <2>4. Fine(Await(q, u), k) /\ Quiets(q, Await(q, u))
      BY <2>1, <2>3, ChunkJoins
    <2>5. QED BY <2>2, <2>4 DEF n
  <1>3. ASSUME ~(cursor < seq)
        PROVE  \E s \in {"transcribing", "decoding"} :
                  n = Save([q EXCEPT !.job[k].state = s], ChunkAt(s, k, a, seq))
    BY <1>3 DEF NextSlab
  <1>4. ASSUME NEW s \in {"transcribing", "decoding"},
               n = Save([q EXCEPT !.job[k].state = s], ChunkAt(s, k, a, seq))
        PROVE  Fine(n, k) /\ Quiets(q, n)
    <2> DEFINE u == ChunkAt(s, k, a, seq)
               r == [q.job[k] EXCEPT !.state = s]
               p == [q EXCEPT !.job[k] = r]
    <2>0. q.job[k] \in JobRecords /\ q.job[k].state \in {"decoding", "transcribing"} /\ ~q.job[k].vad
      BY PartsOf DEF Transcribes
    <2>1. r \in JobRecords /\ r.state = s /\ r.state \in {"decoding", "transcribing"} /\ ~r.vad
      BY <2>0 DEF JobRecords, JobStates
    <2> HIDE DEF r
    <2>2. k \in Known(q) /\ q.job[k].state # "cancelled"
      BY <2>0 DEF Known
    <2>3. /\ Sound(p) /\ Apart(q, p, k) /\ p.job[k] = r
          /\ p.queue = q.queue /\ p.pcm = q.pcm /\ p.slot = q.slot
          /\ p.consumer = q.consumer /\ p.att = q.att /\ p.made = q.made
          /\ p.decoder = q.decoder /\ p.threads = q.threads
      BY <2>1, <2>2, StateSet
    <2>4. u \in Threads /\ u.at = s /\ u.job = k /\ u.att = a /\ u.at \in Chunking
      BY <1>1, ChunkAtIs
    <2>5. n = Save(p, u)
      BY <1>4 DEF p, r
    <2> HIDE DEF p, u, n
    <2>6. Mine(p, k) = Mine(q, k) /\ (Queued(p, k) <=> Queued(m, k)) /\ Quiets(q, p)
          /\ p.made[k] = m.made[k] /\ p.pcm[k] = 0
      <3>1. p.job[k].state # "queued"
        BY <2>1, <2>3
      <3>2. QED BY <2>3, <3>1, QuietsApart DEF Mine, Queued
    <2>7. Transcribes(p, k, a)
      BY <2>1, <2>3 DEF Transcribes
    <2>8. Before(m, k, T, Mine(p, k)) /\ (u.at = "decoding" => p.job[k].state = "decoding")
      BY <2>1, <2>3, <2>4, <2>6
    <2>9. Fine(n, k) /\ Quiets(p, n)
      BY <2>3, <2>4, <2>5, <2>6, <2>7, <2>8, ChunkSaves
    <2>10. QED BY <2>6, <2>9, QuietsTwice
  <1>5. QED BY <1>2, <1>3, <1>4

(* A chunk that cannot be transcribed fails the job.                       *)
LEMMA ChunkFailsFine ==
    ASSUME NEW m, NEW k \in Jobs, NEW t, Sound(m), With(m, k, {t}), t.at \in Chunking,
           Chunks(m, k, t), t.at # "overflow", NEW n, n = Fail(m, k, "other", "chunk")
    PROVE  Fine(n, k) /\ Quiets(m, n)
  <1> DEFINE T == Mine(m, k) \cup {t}
             R == Mine(m, k)
  <1>0. m \in Memories /\ "other" \in Errors /\ "chunk" \in Awaiters
    BY DEF Sound, Errors, Awaiters
  <1>1. FineWith(m, k, T) /\ (\A x \in T : x.job = k)
    BY WithKnows
  <1>2. /\ Apart(m, n, k) /\ n.made = m.made /\ n.queue = m.queue
        /\ n.job[k].state = "failed" /\ n.job[k].vad = m.job[k].vad
        /\ n.att[k].id = m.att[k].id /\ ~Allowed(n, k)
        /\ n.pcm = m.pcm /\ n.slot = m.slot /\ n.consumer = m.consumer /\ n.decoder = m.decoder
        /\ \E u \in Threads : /\ u.at = "failing" /\ u.job = k /\ u.att = m.att[k].id
                              /\ u.then = "chunk" /\ n.threads = m.threads \cup {u}
    BY <1>0, FailView
  <1>3. PICK u \in Threads : /\ u.at = "failing" /\ u.job = k /\ u.att = m.att[k].id
                             /\ u.then = "chunk" /\ n.threads = m.threads \cup {u}
    BY <1>2
  <1>4. /\ Allowed(m, k) /\ m.att[k].id = m.made[k] /\ m.made[k] > 0
        /\ m.decoder[k].att = m.made[k] /\ m.decoder[k].busy
        /\ k \in m.slot /\ k \in m.consumer
        /\ \A x \in R : ~Works(x) /\ ~Starts(m, x) /\ ~Leads(x)
    BY DEF Chunks
  <1>5. /\ ~InTail(u) /\ InChunk(u) /\ Holds(u) /\ ~InConsume(u) /\ ~Leads(u)
    BY <1>3 DEF InTail, InChunk, Holds, InConsume, Leads, Tailing, Windowing
  <1>6. R \in SUBSET T /\ (Queued(n, k) <=> Queued(m, k))
    BY <1>2 DEF Queued
  <1>12. Mine(n, k) = R \cup {u}
    BY <1>3, MineJoins
  <1> HIDE DEF T, R
  <1>7. /\ u.att = m.made[k] /\ u.att > 0 /\ u.att = n.att[k].id
        /\ k \in n.slot /\ k \in n.consumer
        /\ n.decoder[k].busy /\ n.decoder[k].att = m.decoder[k].att /\ n.decoder[k].att = u.att
        /\ m.decoder[k].att \in Nat /\ n.decoder[k].att > 0
    BY <1>2, <1>3, <1>4, PartsOf
  <1>8. /\ \E x \in R \cup {u} : Holds(x)
        /\ \E x \in R \cup {u} : /\ InChunk(x) \/ InRefusal(x) \/ x.at = "threw"
                                 /\ x.att = n.decoder[k].att
    BY <1>5, <1>7
  <1>9. FineWith(n, k, R \cup {u})
    <2>1. /\ u.at = "failing" /\ u.job = k /\ n.job[k].state = "failed" /\ ~Allowed(n, k)
          /\ n.job[k].vad = m.job[k].vad /\ n.pcm[k] = m.pcm[k] /\ n.made[k] = m.made[k]
          /\ n.att[k].id = m.att[k].id
          /\ (k \in n.slot <=> k \in m.slot) /\ (k \in n.consumer <=> k \in m.consumer)
      BY <1>2, <1>3
    <2>2. /\ \A x \in R : ~Leads(x)
          /\ Works(u) => u.att = m.made[k] /\ u.att > 0 /\ \A x \in R : ~Works(x) /\ ~Starts(m, x)
          /\ Holds(u) => k \in n.slot /\ k \in n.consumer /\ u.att = n.att[k].id
          /\ InConsume(u) => m.pcm[k] = 0
          /\ k \in n.consumer => \E x \in R \cup {u} : Holds(x)
      BY <1>4, <1>5, <1>7, <1>8
    <2>3. \/ n.decoder[k] = NoDecoder
          \/ /\ \A x \in R : ~Works(x)
             /\ n.decoder[k].busy \/ n.decoder[k].att = 0
             /\ n.decoder[k].att = m.decoder[k].att
             /\ n.decoder[k].att > 0 =>
                   \E x \in R \cup {u} : /\ InChunk(x) \/ InRefusal(x) \/ x.at = "threw"
                                         /\ x.att = n.decoder[k].att
             /\ InChunk(u) => n.decoder[k].att \in {0, u.att}
             /\ Leads(u) => n.decoder[k].att = 0
      BY <1>4, <1>5, <1>7, <1>8
    <2>4. Allowed(m, k) /\ ~InTail(u) /\ m.decoder[k].att \in Nat
      BY <1>4, <1>5, <1>7
    <2>5. FineWith(m, k, T) /\ \A x \in T : x.job = k
      BY <1>1
    <2>6. R \in SUBSET T /\ (Queued(n, k) <=> Queued(m, k))
      BY <1>6
    <2> HIDE DEF T, R
    <2>7. QED BY <2>1, <2>2, <2>3, <2>4, <2>5, <2>6, FailedIsFine
  <1>10. Quiets(m, n)
    BY <1>2, QuietsApart
  <1>11. QED BY <1>9, <1>10, <1>12 DEF Fine

(* What the work that goes on finds when its thread resumes.               *)
LEMMA Resumes ==
    ASSUME Orderly, NEW t \in mem.threads, Fine(mem, t.job)
    PROVE  LET w == Woken(t) IN
           /\ t \in Threads /\ t.job \in Jobs /\ t.att \in Nat /\ t.seq \in Nat /\ build \in Nat
           /\ Sound(w) /\ With(w, t.job, {t}) /\ t.job \in Known(w)
           /\ w.job = mem.job /\ w.pcm = mem.pcm /\ w.att = mem.att /\ w.slot = mem.slot
           /\ w.consumer = mem.consumer /\ w.decoder = mem.decoder /\ w.queue = mem.queue
           /\ w.made = mem.made /\ \A n : Quiets(w, n) => Quiets(mem, n)
  <1> DEFINE w == Woken(t)
  <1>1. /\ t \in Threads /\ t.job \in Jobs /\ t.att \in Nat /\ t.seq \in Nat
        /\ Sound(w) /\ t.job \in Known(w) /\ build \in Nat
        /\ w.job = mem.job /\ w.pcm = mem.pcm /\ w.att = mem.att /\ w.slot = mem.slot
        /\ w.consumer = mem.consumer /\ w.decoder = mem.decoder /\ w.queue = mem.queue
        /\ w.made = mem.made
    BY WokenIs DEF Orderly, TypeOK
  <1>2. With(w, t.job, {t})
    BY WokenWith DEF Orderly
  <1> HIDE DEF w
  <1>3. ASSUME NEW n, Quiets(w, n) PROVE Quiets(mem, n)
    BY <1>1, <1>3 DEF Quiets, Waits, Queued
  <1>4. QED BY <1>1, <1>2, <1>3 DEF w

(* A chunk that may go on can be passed from thread to thread.             *)
LEMMA ChunkGoesOn ==
    ASSUME NEW m, NEW k \in Jobs, NEW t, Sound(m), With(m, k, {t}), Chunks(m, k, t)
    PROVE  Before(m, k, Mine(m, k) \cup {t}, Mine(m, k)) /\ Transcribes(m, k, t.att)
  <1>1. FineWith(m, k, Mine(m, k) \cup {t}) /\ \A x \in Mine(m, k) \cup {t} : x.job = k
    BY WithKnows
  <1>2. Allowed(m, k) /\ \A x \in Mine(m, k) : ~Works(x) /\ ~Starts(m, x)
    BY DEF Chunks
  <1>3. Mine(m, k) \in SUBSET (Mine(m, k) \cup {t})
    OBVIOUS
  <1>4. Before(m, k, Mine(m, k) \cup {t}, Mine(m, k))
    BY <1>1, <1>2, <1>3 DEF Before
  <1>5. QED BY <1>4 DEF Chunks, Transcribes

(* The writes of a chunk.                                                  *)
LEMMA ChunkSavedFine ==
    ASSUME Orderly, NEW t \in mem.threads, ChunkSaved(t), Fine(mem, t.job)
    PROVE  Fine(mem', t.job) /\ Quiets(mem, mem')
  <1> DEFINE k == t.job
             w == Woken(t)
             e == [w EXCEPT !.pcm[k] = 0]
  <1>1. /\ t \in Threads /\ k \in Jobs /\ Sound(w) /\ build \in Nat /\ With(w, k, {t})
        /\ t.att \in Nat /\ t.seq \in Nat
        /\ w.job = mem.job /\ w.att = mem.att /\ \A n : Quiets(w, n) => Quiets(mem, n)
    BY Resumes
  <1>2. t.at \in {"overflow", "transcribing", "heard", "decoding"} /\ t.at \in Chunking
    BY DEF ChunkSaved, Chunking
  <1>3. mem' \in LET m == IF t.at = "overflow" /\ Accepts(mem, k, t.att) THEN e ELSE w IN
                 IF t.at = "decoding" \/ IsOver(m, k) \/ ~Accepts(m, k, t.att)
                 THEN ChunkReturns(m, k, t.att)
                 ELSE IF t.at = "transcribing"
                 THEN {Await(m, ChunkAt("slab", k, t.att, t.seq))}
                 ELSE {NextSlab(m, k, t.att, t.seq)}
    BY DEF ChunkSaved
  <1>4. Accepts(mem, k, t.att) <=> Accepts(w, k, t.att)
    BY <1>1 DEF Accepts
  <1> HIDE DEF w, k
  <1>5. /\ Allowed(w, k) <=> ~(IsOver(w, k) \/ ~Accepts(w, k, t.att))
        /\ Allowed(w, k) => Chunks(w, k, t)
    BY <1>1, <1>2, ChunkKnows
  <1>6. CASE ~Allowed(w, k) \/ t.at = "decoding"
    <2>1. Allowed(w, k) => t.at = "decoding"
      BY <1>6
    <2>2. mem' \in ChunkReturns(w, k, t.att)
      <3>1. CASE t.at = "decoding"
        BY <1>3, <3>1
      <3>2. CASE ~Accepts(w, k, t.att)
        BY <1>3, <1>4, <3>2
      <3>3. Accepts(w, k, t.att) => ~IsOver(w, k)
        BY <1>5 DEF Accepts, Allowed
      <3>4. QED BY <1>5, <1>6, <3>1, <3>2, <3>3
    <2>3. Fine(mem', k) /\ Quiets(w, mem')
      BY <1>1, <1>2, <2>1, <2>2, ChunkReturnsFine
    <2>4. QED BY <1>1, <2>3 DEF k
  <1>7. CASE Allowed(w, k) /\ t.at # "decoding"
    <2>1. /\ Chunks(w, k, t) /\ Accepts(w, k, t.att) /\ ~IsOver(w, k)
          /\ Before(w, k, Mine(w, k) \cup {t}, Mine(w, k)) /\ Transcribes(w, k, t.att)
      BY <1>1, <1>5, <1>7, ChunkGoesOn
    <2>2. CASE t.at = "transcribing"
      <3> DEFINE u == ChunkAt("slab", k, t.att, t.seq)
      <3>1. "slab" \in Points /\ "slab" \in Chunking
        BY DEF Points, Chunking
      <3>2. u \in Threads /\ u.at = "slab" /\ u.job = k /\ u.att = t.att
        BY <1>1, <3>1, ChunkAtIs
      <3>3. mem' = Await(w, u)
        BY <1>3, <1>7, <2>1, <2>2
      <3>4. w.pcm[k] = 0
        BY <2>1, <2>2 DEF Chunks
      <3> HIDE DEF u
      <3>5. Fine(Await(w, u), k) /\ Quiets(w, Await(w, u))
        BY <1>1, <2>1, <3>1, <3>2, <3>4, ChunkJoins
      <3>6. QED BY <1>1, <3>3, <3>5 DEF k
    <2>3. CASE t.at = "heard"
      <3>1. mem' = NextSlab(w, k, t.att, t.seq)
        BY <1>3, <1>7, <2>1, <2>3
      <3>2. w.pcm[k] = 0
        BY <2>1, <2>3 DEF Chunks
      <3>3. Fine(mem', k) /\ Quiets(w, mem')
        BY <1>1, <2>1, <3>1, <3>2, NextSlabFine
      <3>4. QED BY <1>1, <3>3 DEF k
    <2>4. CASE t.at = "overflow"
      <3>1. /\ Apart(w, e, k) /\ e.pcm[k] = 0 /\ e.queue = w.queue /\ e.decoder = w.decoder
            /\ e.slot = w.slot /\ e.consumer = w.consumer /\ e.job = w.job /\ e.made = w.made
            /\ e.att = w.att /\ e.threads = w.threads
        BY <1>1, PcmSet DEF Sound
      <3>2. Sound(e)
        BY <1>1, PcmMoves DEF Moves
      <3> HIDE DEF e
      <3>3. Accepts(e, k, t.att) /\ ~IsOver(e, k)
        BY <2>1, <3>1 DEF Accepts, IsOver
      <3>4. mem' = NextSlab(e, k, t.att, t.seq)
        BY <1>3, <1>4, <1>7, <2>1, <2>4, <3>3
      <3>5. Mine(e, k) = Mine(w, k) /\ (Queued(e, k) <=> Queued(w, k))
        BY <3>1 DEF Mine, Queued
      <3>6. Transcribes(e, k, t.att)
        BY <2>1, <3>1 DEF Transcribes
      <3>7. Before(w, k, Mine(w, k) \cup {t}, Mine(e, k))
        BY <2>1, <3>5
      <3>8. Fine(mem', k) /\ Quiets(e, mem')
        BY <1>1, <3>1, <3>2, <3>4, <3>5, <3>6, <3>7, NextSlabFine
      <3>9. Quiets(w, e)
        BY <3>1, QuietsApart
      <3>10. Quiets(w, mem')
        BY <3>8, <3>9, QuietsTwice
      <3>11. QED BY <1>1, <3>8, <3>10 DEF k
    <2>5. QED BY <1>2, <1>7, <2>2, <2>3, <2>4
  <1>8. QED BY <1>6, <1>7

(* The slab is transcribed, or its work was stopped meanwhile.             *)
LEMMA SlabHeardFine ==
    ASSUME Orderly, NEW t \in mem.threads, SlabHeard(t) \/ SlabNotHeard(t), Fine(mem, t.job)
    PROVE  Fine(mem', t.job) /\ Quiets(mem, mem')
  <1> DEFINE k == t.job
             w == Woken(t)
  <1>1. /\ t \in Threads /\ k \in Jobs /\ Sound(w) /\ build \in Nat /\ With(w, k, {t})
        /\ w.job = mem.job /\ w.att = mem.att /\ k \in Known(w)
        /\ \A n : Quiets(w, n) => Quiets(mem, n)
    BY Resumes
  <1>2. t.at = "slab" /\ t.at \in Chunking /\ t.at \notin {"overflow", "decoding"}
    BY DEF SlabHeard, SlabNotHeard, Chunking
  <1>3. Transcribe(mem, k, t.att) <=> Transcribe(w, k, t.att)
    BY <1>1 DEF Transcribe, IsOver, Accepts
  <1>4. \/ Transcribe(w, k, t.att) /\ \/ mem' = Save(Line(w, k), [t EXCEPT !.at = "heard"])
                                      \/ mem' = Fail(w, k, "other", "chunk")
        \/ ~Transcribe(w, k, t.att) /\ mem' \in ChunkReturns(w, k, t.att)
    BY <1>3 DEF SlabHeard, SlabNotHeard
  <1> HIDE DEF w, k
  <1>5. /\ Allowed(w, k) <=> Transcribe(w, k, t.att)
        /\ Allowed(w, k) => Chunks(w, k, t)
    BY <1>1, <1>2, ChunkKnows DEF Transcribe
  <1>6. CASE ~Transcribe(w, k, t.att)
    <2>1. Fine(mem', k) /\ Quiets(w, mem')
      BY <1>1, <1>2, <1>4, <1>5, <1>6, ChunkReturnsFine
    <2>2. QED BY <1>1, <2>1 DEF k
  <1>7. CASE Transcribe(w, k, t.att) /\ mem' = Fail(w, k, "other", "chunk")
    <2>1. Fine(mem', k) /\ Quiets(w, mem')
      BY <1>1, <1>2, <1>5, <1>7, ChunkFailsFine
    <2>2. QED BY <1>1, <2>1 DEF k
  <1>8. CASE Transcribe(w, k, t.att) /\ mem' = Save(Line(w, k), [t EXCEPT !.at = "heard"])
    <2> DEFINE q == Line(w, k)
               u == [t EXCEPT !.at = "heard"]
    <2>1. /\ Moves(w, q, k) /\ q.job[k].state = w.job[k].state
          /\ q.threads = w.threads /\ q.att = w.att /\ q.made = w.made
          /\ q.decoder = w.decoder /\ q.slot = w.slot /\ q.consumer = w.consumer /\ q.pcm = w.pcm
          /\ q.queue = w.queue /\ q.job[k].vad = w.job[k].vad /\ Apart(w, q, k)
      BY <1>1, LineIs
    <2>2. "heard" \in Points /\ "heard" \in Chunking
      BY DEF Points, Chunking
    <2>3. u \in Threads /\ u.at = "heard" /\ u.job = k /\ u.att = t.att
      BY <1>1, <2>2 DEF Threads, k
    <2>4. mem' = Save(q, u)
      BY <1>8
    <2> HIDE DEF q, u
    <2>5. /\ Chunks(w, k, t) /\ Before(w, k, Mine(w, k) \cup {t}, Mine(w, k))
          /\ Transcribes(w, k, t.att)
      BY <1>1, <1>5, <1>8, ChunkGoesOn
    <2>6. Mine(q, k) = Mine(w, k) /\ (Queued(q, k) <=> Queued(w, k)) /\ q.pcm[k] = 0
      BY <1>2, <2>1, <2>5 DEF Mine, Queued, Chunks
    <2>7. Transcribes(q, k, t.att)
      BY <2>1, <2>5 DEF Transcribes
    <2>8. Before(w, k, Mine(w, k) \cup {t}, Mine(q, k))
      BY <2>5, <2>6
    <2>9. Sound(q)
      BY <2>1 DEF Moves
    <2>10. Fine(mem', k) /\ Quiets(q, mem')
      <3>1. u.at \in Chunking /\ u.at # "decoding"
        BY <2>2, <2>3
      <3>2. q.made[k] = w.made[k]
        BY <2>1
      <3>3. Fine(Save(q, u), k) /\ Quiets(q, Save(q, u))
        BY <1>1, <2>3, <2>6, <2>7, <2>8, <2>9, <3>1, <3>2, ChunkSaves
      <3>4. QED BY <2>4, <3>3
    <2>11. Quiets(w, q)
      BY <2>1, QuietsApart
    <2>12. Quiets(w, mem')
      BY <2>10, <2>11, QuietsTwice
    <2>13. QED BY <1>1, <2>10, <2>12 DEF k
  <1>9. QED BY <1>4, <1>6, <1>7, <1>8

(* A chunk that threw, and a decoder that stops.                           *)
LEMMA ChunkThrewFine ==
    ASSUME Orderly, NEW t \in mem.threads, ChunkThrew(t), Fine(mem, t.job)
    PROVE  Fine(mem', t.job) /\ Quiets(mem, mem')
  <1> DEFINE w == Woken(t)
  <1>1. /\ t.job \in Jobs /\ Sound(w) /\ With(w, t.job, {t})
        /\ \A n : Quiets(w, n) => Quiets(mem, n)
    BY Resumes
  <1>2. t.at = "threw" /\ mem' = DecoderRejected(w, t.job, t.att)
    BY DEF ChunkThrew
  <1> HIDE DEF w
  <1>3. Fine(mem', t.job) /\ Quiets(w, mem')
    BY <1>1, <1>2, ThrewFine
  <1>4. QED BY <1>1, <1>3

(* The decoder of a job stops by itself.                                   *)
LEMMA DecoderStopsFine ==
    ASSUME Orderly, NEW j \in Jobs, DecoderStops(j), Fine(mem, j)
    PROVE  Fine(mem', j) /\ Quiets(mem, mem')
  <1>1. Sound(mem) /\ With(mem, j, {}) /\ mem.decoder[j].att > 0
    BY WithNone DEF Orderly, DecoderStops
  <1>2. mem' = FailDecoder([mem EXCEPT !.decoder[j] = NoDecoder], j)
    BY DEF DecoderStops
  <1>3. With(mem', j, {}) /\ Quiets(mem, mem')
    BY <1>1, <1>2, DecoderGone
  <1>4. QED BY <1>3, WithNone

(* The decoder waits for its next chunk, and nobody else works.            *)
Idling(m, k) ==
    /\ Fine(m, k) /\ Allowed(m, k) /\ Idles(m, k)
    /\ Before(m, k, Mine(m, k), Mine(m, k))
    /\ \A x \in Mine(m, k) : ~Leads(x) /\ ~Holds(x)
    /\ m.decoder[k].att = m.made[k] /\ m.att[k].id = m.made[k] /\ m.made[k] > 0
    /\ m.att[k].accepting /\ m.att[k].tailAllowed /\ m.job[k].state = "decoding"
    /\ k \notin m.consumer /\ k \in m.slot
    /\ m.pcm[k] = IF m.job[k].vad THEN m.decoder[k].next ELSE 0

(* It does when an attempt may go on and its decoder is idle.              *)
LEMMA IdleKnows ==
    ASSUME NEW m, NEW k \in Jobs, Sound(m), Fine(m, k), Allowed(m, k), Idles(m, k)
    PROVE  Idling(m, k)
  <1> DEFINE T == Mine(m, k)
  <1>1. FineWith(m, k, T) /\ \A x \in T : x.job = k
    BY DEF Fine, Mine
  <1> HIDE DEF T
  <1>2. /\ m.job[k].state \in {"decoding", "transcribing"} /\ m.att[k].tailAllowed /\ ~Stops(T)
        /\ m.att[k].accepting /\ m.job[k].state = "decoding"
    BY <1>1, AllowedKnows
  <1>3. m.decoder[k].att = m.made[k] /\ \A x \in T : ~Works(x)
    BY <1>1 DEF FineWith, DecoderKnown
  <1>4. m.att[k].id = m.made[k] /\ m.made[k] > 0 /\ m.pcm[k] \in Nat
    BY PartsOf
  <1>5. \A x \in T : ~Starts(m, x) /\ ~Leads(x) /\ ~Holds(x)
    <2>1. ASSUME NEW x \in T, Starts(m, x) PROVE FALSE
      <3>1. x.att = m.made[k]
        BY <1>1, <2>1 DEF Starts
      <3>2. m.decoder[k].att # x.att
        BY <1>1, <2>1 DEF FineWith, OneWorker
      <3>3. QED BY <1>3, <3>1, <3>2
    <2>2. \A x \in T : ~Leads(x) /\ ~Holds(x)
      BY <1>3 DEF Works, Leads, Holds
    <2>3. QED BY <2>1, <2>2
  <1>6. k \notin m.consumer
    BY <1>1, <1>5 DEF FineWith, AudioHeld
  <1>7. k \in m.slot
    BY <1>2 DEF Sound
  <1>8. m.pcm[k] = IF m.job[k].vad THEN m.decoder[k].next ELSE 0
    <2>1. \A x \in T : x.at # "overflow"
      BY <1>3, RolesOf DEF Chunking
    <2>2. ~m.job[k].vad => ~(m.pcm[k] > 0)
      BY <1>1, <1>2, <2>1 DEF FineWith, AudioHeld
    <2>3. m.job[k].vad => m.pcm[k] = m.decoder[k].next
      BY <1>1, <1>2 DEF FineWith, AudioHeld
    <2>4. QED BY <1>4, <2>2, <2>3
  <1>9. Before(m, k, T, T)
    BY <1>1, <1>3, <1>5 DEF Before
  <1>10. QED BY <1>2, <1>3, <1>4, <1>5, <1>6, <1>7, <1>8, <1>9 DEF Idling, T

(* A decoder counts a chunk, of which p are buffered.                      *)
Counted(m, k, p) == [m EXCEPT !.pcm[k] = p, !.decoder[k].next = @ + 1]

(* Which is all that changes.                                              *)
LEMMA CountIs ==
    ASSUME NEW m, NEW k \in Jobs, Sound(m), NEW p \in Nat
    PROVE  LET n == Counted(m, k, p) IN
           /\ Apart(m, n, k) /\ n.pcm[k] = p
           /\ n.decoder[k].att = m.decoder[k].att /\ n.decoder[k].busy = m.decoder[k].busy
           /\ n.decoder[k].next = m.decoder[k].next + 1
           /\ n.queue = m.queue /\ n.slot = m.slot /\ n.consumer = m.consumer /\ n.job = m.job
           /\ n.made = m.made /\ n.att = m.att /\ n.threads = m.threads
  <1> DEFINE d == [m EXCEPT !.pcm[k] = p]
             q == [d.decoder[k] EXCEPT !.next = @ + 1]
             e == [d EXCEPT !.decoder[k] = q]
  <1>0. m \in Memories /\ m.decoder[k] \in Decoders
    BY DEF Sound, Memories
  <1>1. /\ d \in Memories /\ Apart(m, d, k) /\ d.pcm[k] = p
        /\ d.queue = m.queue /\ d.decoder = m.decoder /\ d.slot = m.slot
        /\ d.consumer = m.consumer /\ d.job = m.job /\ d.made = m.made
        /\ d.att = m.att /\ d.threads = m.threads
    BY <1>0, PcmSet
  <1>2. Counted(m, k, p) = e
    BY DEF Counted
  <1> HIDE DEF d
  <1>3. q \in Decoders /\ q.att = m.decoder[k].att /\ q.next = m.decoder[k].next + 1
        /\ q.busy = m.decoder[k].busy
    BY <1>0, <1>1 DEF Decoders
  <1> HIDE DEF q
  <1>4. /\ e \in Memories /\ Apart(d, e, k) /\ e.decoder[k] = q
        /\ e.queue = d.queue /\ e.pcm = d.pcm /\ e.slot = d.slot
        /\ e.consumer = d.consumer /\ e.job = d.job /\ e.made = d.made
        /\ e.att = d.att /\ e.threads = d.threads
    BY <1>1, <1>3, DecoderSet
  <1> HIDE DEF e
  <1>5. Apart(m, e, k)
    BY <1>1, <1>4, ApartTwice
  <1>6. QED BY <1>1, <1>2, <1>3, <1>4, <1>5

(* What is buffered with one more chunk.                                   *)
Counts(m, k) == IF m.job[k].vad THEN m.decoder[k].next + 1 ELSE 0

(* A chunk that is counted leaves the decoder idle.                        *)
LEMMA CountedFine ==
    ASSUME NEW m, NEW k \in Jobs, Sound(m), Idling(m, k), NEW p \in Nat, p = Counts(m, k),
           NEW n, n = Counted(m, k, p)
    PROVE  Fine(n, k) /\ Quiets(m, n)
  <1> DEFINE e == Counted(m, k, p)
  <1>1. /\ Apart(m, e, k) /\ e.pcm[k] = p
        /\ e.decoder[k].att = m.decoder[k].att /\ e.decoder[k].busy = m.decoder[k].busy
        /\ e.decoder[k].next = m.decoder[k].next + 1
        /\ e.queue = m.queue /\ e.slot = m.slot /\ e.consumer = m.consumer /\ e.job = m.job
        /\ e.made = m.made /\ e.att = m.att /\ e.threads = m.threads
    BY CountIs
  <1>2. n = e
    OBVIOUS
  <1> HIDE DEF e
  <1>6. Idles(e, k) /\ e.decoder[k].att = m.made[k] /\ e.pcm[k] \in Nat
        /\ (e.pcm[k] = IF e.job[k].vad THEN e.decoder[k].next ELSE 0)
        /\ e.att[k].accepting /\ e.att[k].tailAllowed /\ e.job[k].state = "decoding"
        /\ k \notin e.consumer /\ e.made[k] = m.made[k]
    BY <1>1 DEF Idling, Idles, Counts
  <1>7. Mine(e, k) = Mine(m, k) /\ (Queued(e, k) <=> Queued(m, k))
    BY <1>1 DEF Mine, Queued
  <1>8. /\ FineWith(m, k, Mine(m, k)) /\ (\A t \in Mine(m, k) : t.job = k) /\ Allowed(m, k)
        /\ \A x \in Mine(m, k) : ~Works(x) /\ ~Starts(m, x)
    BY DEF Idling, Before
  <1>9. FineWith(e, k, Mine(m, k))
    BY <1>6, <1>7, <1>8, IdleIsFine
  <1>10. Quiets(m, e)
    BY <1>1, <1>6, QuietsApart
  <1>11. QED BY <1>2, <1>7, <1>9, <1>10 DEF Fine

(* The decoder that has given a chunk waits for an answer.                 *)
Busied(m, k) == [m EXCEPT !.decoder[k].busy = TRUE]

(* Which is all that changes.                                              *)
LEMMA BusiedIs ==
    ASSUME NEW m, NEW k \in Jobs, Sound(m)
    PROVE  LET n == Busied(m, k) IN
           /\ Sound(n) /\ n \in Memories /\ Apart(m, n, k)
           /\ n.decoder[k].att = m.decoder[k].att /\ n.decoder[k].busy
           /\ n.queue = m.queue /\ n.pcm = m.pcm /\ n.slot = m.slot
           /\ n.consumer = m.consumer /\ n.job = m.job /\ n.made = m.made
           /\ n.att = m.att /\ n.threads = m.threads
  <1> DEFINE r == [m.decoder[k] EXCEPT !.busy = TRUE]
             d == [m EXCEPT !.decoder[k] = r]
  <1>0. m \in Memories /\ m.decoder[k] \in Decoders /\ m.decoder[k].att <= m.made[k]
    BY DEF Sound, Memories
  <1>1. r \in Decoders /\ r.att = m.decoder[k].att /\ r.busy
    BY <1>0 DEF Decoders
  <1>2. Busied(m, k) = d
    BY DEF Busied
  <1> HIDE DEF r
  <1>3. /\ d \in Memories /\ Apart(m, d, k) /\ d.decoder[k] = r
        /\ d.queue = m.queue /\ d.pcm = m.pcm /\ d.slot = m.slot
        /\ d.consumer = m.consumer /\ d.job = m.job /\ d.made = m.made
        /\ d.att = m.att /\ d.threads = m.threads
    BY <1>0, <1>1, DecoderSet
  <1>4. Sound(d)
    BY <1>0, <1>1, DecoderMoves DEF Moves
  <1> HIDE DEF d
  <1>5. QED BY <1>1, <1>2, <1>3, <1>4

(* A chunk that is refused fails the job.                                  *)
LEMMA RefusedFine ==
    ASSUME NEW m, NEW k \in Jobs, Sound(m), Idling(m, k), NEW e \in Errors,
           NEW n, n = Fail(Busied(m, k), k, e, "refused")
    PROVE  Fine(n, k) /\ Quiets(m, n)
  <1> DEFINE b == Busied(m, k)
             R == Mine(m, k)
  <1>1. /\ Sound(b) /\ b \in Memories /\ Apart(m, b, k)
        /\ b.decoder[k].att = m.decoder[k].att /\ b.decoder[k].busy
        /\ b.queue = m.queue /\ b.pcm = m.pcm /\ b.slot = m.slot
        /\ b.consumer = m.consumer /\ b.job = m.job /\ b.made = m.made
        /\ b.att = m.att /\ b.threads = m.threads
    BY BusiedIs
  <1>2. "refused" \in Awaiters
    BY DEF Awaiters
  <1> HIDE DEF b
  <1>3. n = Fail(b, k, e, "refused")
    BY DEF b
  <1>4. /\ Apart(b, n, k) /\ n.made = b.made /\ n.queue = b.queue
        /\ n.job[k].state = "failed" /\ n.job[k].vad = b.job[k].vad
        /\ n.att[k].id = b.att[k].id /\ ~Allowed(n, k)
        /\ n.pcm = b.pcm /\ n.slot = b.slot /\ n.consumer = b.consumer /\ n.decoder = b.decoder
        /\ \E u \in Threads : /\ u.at = "failing" /\ u.job = k /\ u.att = b.att[k].id
                              /\ u.then = "refused" /\ n.threads = b.threads \cup {u}
    BY <1>1, <1>2, <1>3, FailView
  <1>5. PICK u \in Threads : /\ u.at = "failing" /\ u.job = k /\ u.att = b.att[k].id
                             /\ u.then = "refused" /\ n.threads = b.threads \cup {u}
    BY <1>4
  <1>6. InRefusal(u) /\ Works(u) /\ ~InTail(u) /\ ~Holds(u) /\ ~InChunk(u) /\ ~InConsume(u) /\ ~Leads(u)
    BY <1>5 DEF InRefusal, Works, InTail, Holds, InChunk, InConsume, Leads, Tailing, Windowing, Chunking
  <1>7. /\ FineWith(m, k, R) /\ (\A x \in R : x.job = k) /\ Allowed(m, k)
        /\ \A x \in R : ~Works(x) /\ ~Starts(m, x) /\ ~Leads(x)
    BY DEF Idling, Before
  <1>8. /\ u.att = m.made[k] /\ u.att > 0 /\ k \notin n.consumer
        /\ n.decoder[k].busy /\ n.decoder[k].att = m.decoder[k].att /\ n.decoder[k].att = u.att
        /\ n.decoder[k].att > 0 /\ m.decoder[k].att \in Nat
    BY <1>1, <1>4, <1>5, PartsOf DEF Idling
  <1>9. /\ n.pcm[k] = m.pcm[k] /\ n.made[k] = m.made[k] /\ n.att[k].id = m.att[k].id
        /\ n.job[k].vad = m.job[k].vad
        /\ (k \in n.slot <=> k \in m.slot) /\ (k \in n.consumer <=> k \in m.consumer)
        /\ (Queued(n, k) <=> Queued(m, k))
    BY <1>1, <1>4 DEF Queued
  <1>10. Mine(n, k) = R \cup {u}
    <2>1. n.threads = m.threads \cup {u}
      BY <1>1, <1>5
    <2>2. QED BY <1>5, <2>1, MineJoins
  <1>11. R \in SUBSET R
    OBVIOUS
  <1> HIDE DEF R
  <1>12. \E x \in R \cup {u} : /\ InChunk(x) \/ InRefusal(x) \/ x.at = "threw"
                               /\ x.att = n.decoder[k].att
    BY <1>6, <1>8
  <1>13. FineWith(n, k, R \cup {u})
    <2>1. u.at = "failing" /\ u.job = k /\ n.job[k].state = "failed" /\ ~Allowed(n, k)
      BY <1>4, <1>5
    <2>2. /\ \A x \in R : ~Leads(x)
          /\ Works(u) => u.att = m.made[k] /\ u.att > 0 /\ \A x \in R : ~Works(x) /\ ~Starts(m, x)
          /\ Holds(u) => k \in n.slot /\ k \in n.consumer /\ u.att = n.att[k].id
          /\ InConsume(u) => m.pcm[k] = 0
          /\ k \in n.consumer => \E x \in R \cup {u} : Holds(x)
      BY <1>6, <1>7, <1>8
    <2>3. \/ n.decoder[k] = NoDecoder
          \/ /\ \A x \in R : ~Works(x)
             /\ n.decoder[k].busy \/ n.decoder[k].att = 0
             /\ n.decoder[k].att = m.decoder[k].att
             /\ n.decoder[k].att > 0 =>
                   \E x \in R \cup {u} : /\ InChunk(x) \/ InRefusal(x) \/ x.at = "threw"
                                         /\ x.att = n.decoder[k].att
             /\ InChunk(u) => n.decoder[k].att \in {0, u.att}
             /\ Leads(u) => n.decoder[k].att = 0
      BY <1>6, <1>7, <1>8, <1>12
    <2>4. Allowed(m, k) /\ ~InTail(u) /\ m.decoder[k].att \in Nat
      BY <1>6, <1>7, <1>8
    <2>5. QED BY <1>7, <1>9, <1>11, <2>1, <2>2, <2>3, <2>4, FailedIsFine
  <1>14. Apart(m, n, k)
    BY <1>1, <1>4, ApartTwice
  <1>15. Quiets(m, n)
    BY <1>1, <1>4, <1>14, QuietsApart
  <1>16. QED BY <1>10, <1>13, <1>15 DEF Fine

(* A chunk that is taken.                                                  *)
Taken(m, k) == [Busied(m, k) EXCEPT !.consumer = @ \cup {k}]

(* It is at work on.                                                       *)
LEMMA TakenKnows ==
    ASSUME NEW m, NEW k \in Jobs, Sound(m), Idling(m, k)
    PROVE  LET q == Taken(m, k) IN
           /\ Sound(q) /\ Apart(m, q, k) /\ q.pcm = m.pcm /\ q.made = m.made /\ q.job = m.job
           /\ q.queue = m.queue /\ q.slot = m.slot /\ q.threads = m.threads
           /\ Before(m, k, Mine(m, k), Mine(q, k)) /\ (Queued(q, k) <=> Queued(m, k))
           /\ ~m.job[k].vad => Transcribes(q, k, m.made[k])
           /\ q.att[k].accepting /\ q.att[k].tailAllowed /\ q.att[k].id = q.made[k] /\ q.made[k] > 0
           /\ q.decoder[k].att = q.made[k] /\ q.decoder[k].busy
           /\ k \in q.consumer /\ k \in q.slot
  <1> DEFINE b == Busied(m, k)
             S == b.consumer \cup {k}
  <1>1. /\ Sound(b) /\ b \in Memories /\ Apart(m, b, k)
        /\ b.decoder[k].att = m.decoder[k].att /\ b.decoder[k].busy
        /\ b.queue = m.queue /\ b.pcm = m.pcm /\ b.slot = m.slot
        /\ b.consumer = m.consumer /\ b.job = m.job /\ b.made = m.made
        /\ b.att = m.att /\ b.threads = m.threads
    BY BusiedIs
  <1> HIDE DEF b
  <1> DEFINE q == [b EXCEPT !.consumer = S]
  <1>2. Taken(m, k) = q
    BY DEF b, Taken
  <1>3. S = b.consumer \cup {k} /\ k \in S
    OBVIOUS
  <1> HIDE DEF S
  <1>4. /\ Apart(b, q, k) /\ q.consumer = S
        /\ q.queue = b.queue /\ q.pcm = b.pcm /\ q.decoder = b.decoder
        /\ q.slot = b.slot /\ q.job = b.job /\ q.made = b.made
        /\ q.att = b.att /\ q.threads = b.threads
    BY <1>1, <1>3, ConsumerSet
  <1>5. Sound(q)
    BY <1>1, <1>3, ConsumerMoves DEF Moves
  <1> HIDE DEF q
  <1>6. Apart(m, q, k)
    BY <1>1, <1>4, ApartTwice
  <1>7. /\ q.pcm = m.pcm /\ q.made = m.made /\ q.job = m.job /\ q.att = m.att
        /\ q.queue = m.queue /\ q.slot = m.slot /\ q.threads = m.threads
        /\ q.decoder[k].att = m.decoder[k].att /\ q.decoder[k].busy /\ k \in q.consumer
    BY <1>1, <1>3, <1>4
  <1>8. Mine(q, k) = Mine(m, k) /\ (Queued(q, k) <=> Queued(m, k))
    BY <1>7 DEF Mine, Queued
  <1>9. Before(m, k, Mine(m, k), Mine(q, k))
    BY <1>8 DEF Idling
  <1>10. /\ q.att[k].accepting /\ q.att[k].tailAllowed /\ q.att[k].id = q.made[k] /\ q.made[k] > 0
         /\ q.decoder[k].att = q.made[k] /\ k \in q.slot /\ q.job[k].state = "decoding"
    BY <1>7 DEF Idling
  <1>11. ~m.job[k].vad => Transcribes(q, k, m.made[k])
    BY <1>7, <1>10 DEF Transcribes
  <1>12. QED BY <1>2, <1>5, <1>6, <1>7, <1>8, <1>9, <1>10, <1>11

(* The cap is met: the buffer is drained once the downgrade is written.    *)
LEMMA OverflowFine ==
    ASSUME NEW m, NEW k \in Jobs, Sound(m), build \in Nat, Idling(m, k), NEW seq \in Nat,
           NEW n, n = Save([Taken(m, k) EXCEPT !.job[k].vad = FALSE, !.job[k].chunkSec = build],
                           ChunkAt("overflow", k, m.made[k], seq))
    PROVE  Fine(n, k) /\ Quiets(m, n)
  <1> DEFINE h == Taken(m, k)
             a == m.made[k]
             u == ChunkAt("overflow", k, a, seq)
             r == [h.job[k] EXCEPT !.vad = FALSE]
             d == [h EXCEPT !.job[k] = r]
             c == [d.job[k] EXCEPT !.chunkSec = build]
             q == [d EXCEPT !.job[k] = c]
  <1>1. /\ Sound(h) /\ Apart(m, h, k) /\ h.pcm = m.pcm /\ h.made = m.made /\ h.job = m.job
        /\ h.queue = m.queue /\ h.slot = m.slot /\ h.threads = m.threads
        /\ Before(m, k, Mine(m, k), Mine(h, k)) /\ (Queued(h, k) <=> Queued(m, k))
        /\ h.att[k].accepting /\ h.att[k].tailAllowed /\ h.att[k].id = h.made[k] /\ h.made[k] > 0
        /\ h.decoder[k].att = h.made[k] /\ h.decoder[k].busy
        /\ k \in h.consumer /\ k \in h.slot
    BY TakenKnows
  <1>2. n = Save(q, u)
    BY DEF q, c, d, r
  <1> HIDE DEF h
  <1>3. h.job[k] \in JobRecords /\ h.job[k].state = "decoding"
    BY <1>1, PartsOf DEF Idling
  <1>4. r \in JobRecords /\ r.state = "decoding" /\ ~r.vad /\ r.state \in {"decoding", "transcribing"}
    BY <1>3 DEF JobRecords
  <1> HIDE DEF r
  <1>5. k \in Known(h) /\ h.job[k].state # "cancelled"
    BY <1>3 DEF Known
  <1>6. /\ Sound(d) /\ Apart(h, d, k) /\ d.job[k] = r
        /\ d.queue = h.queue /\ d.pcm = h.pcm /\ d.slot = h.slot
        /\ d.consumer = h.consumer /\ d.att = h.att /\ d.made = h.made
        /\ d.decoder = h.decoder /\ d.threads = h.threads
    BY <1>1, <1>4, <1>5, StateSet
  <1> HIDE DEF d
  <1>19. c \in JobRecords /\ c.state = "decoding" /\ ~c.vad /\ c.state \in {"decoding", "transcribing"}
    BY <1>4, <1>6 DEF JobRecords
  <1>20. k \in Known(d) /\ d.job[k].state # "cancelled"
    BY <1>4, <1>6 DEF Known
  <1> HIDE DEF c
  <1>21. /\ Sound(q) /\ Apart(d, q, k) /\ q.job[k] = c
         /\ q.queue = d.queue /\ q.pcm = d.pcm /\ q.slot = d.slot
         /\ q.consumer = d.consumer /\ q.att = d.att /\ q.made = d.made
         /\ q.decoder = d.decoder /\ q.threads = d.threads
    BY <1>6, <1>19, <1>20, StateSet
  <1> HIDE DEF q
  <1>7. /\ Sound(q) /\ Apart(h, q, k) /\ q.job[k] = c
        /\ q.queue = h.queue /\ q.pcm = h.pcm /\ q.slot = h.slot
        /\ q.consumer = h.consumer /\ q.att = h.att /\ q.made = h.made
        /\ q.decoder = h.decoder /\ q.threads = h.threads
    BY <1>6, <1>21, ApartTwice
  <1>8. "overflow" \in Points /\ "overflow" \in Chunking
    BY DEF Points, Chunking
  <1>9. a \in Nat /\ u \in Threads /\ u.at = "overflow" /\ u.job = k /\ u.att = a
    BY <1>8, PartsOf, ChunkAtIs
  <1> HIDE DEF u
  <1>11. Mine(q, k) = Mine(h, k) /\ (Queued(q, k) <=> Queued(m, k))
    BY <1>1, <1>7 DEF Mine, Queued
  <1>12. Before(m, k, Mine(m, k), Mine(q, k))
    BY <1>1, <1>11
  <1>13. Transcribes(q, k, a) /\ q.made[k] = m.made[k]
    BY <1>1, <1>7, <1>19 DEF Transcribes
  <1>14. u.at \in Chunking /\ u.at # "decoding" /\ (q.pcm[k] = 0 \/ u.at = "overflow")
    BY <1>8, <1>9
  <1>15. Fine(Save(q, u), k) /\ Quiets(q, Save(q, u))
    BY <1>7, <1>9, <1>11, <1>12, <1>13, <1>14, ChunkSaves
  <1>16. Apart(m, q, k)
    BY <1>1, <1>7, ApartTwice
  <1>17. Quiets(m, q)
    BY <1>1, <1>7, <1>16, <1>19, QuietsApart
  <1>18. QED BY <1>2, <1>15, <1>17, QuietsTwice

(* A chunk arrives.                                                        *)
LEMMA ChunkFine ==
    ASSUME Orderly, NEW j \in Jobs, Chunk(j), Fine(mem, j)
    PROVE  Fine(mem', j) /\ Quiets(mem, mem')
  <1> DEFINE m == mem
             a == m.att[j].id
             d == m.decoder[j].att
             seq == m.decoder[j].next
  <1>1. Sound(m) /\ build \in Nat
    BY DEF Orderly, TypeOK
  <1>2. /\ d > 0 /\ Idles(m, j)
        /\ mem' = IF IsOver(m, j) \/ ~Accepts(m, j, a) THEN DecoderRejected(m, j, d)
                  ELSE Accept(m, j, a, seq)
    BY DEF Chunk, Idles
  <1>3. m.made[j] \in Nat /\ a \in Nat /\ seq \in Nat /\ d \in Nat
    BY <1>1, PartsOf
  <1>4. CASE IsOver(m, j) \/ ~Accepts(m, j, a)
    <2>1. mem' = FailDecoder([m EXCEPT !.decoder[j] = NoDecoder], j)
      BY <1>2, <1>4 DEF DecoderRejected
    <2> HIDE DEF m
    <2>2. With(m, j, {})
      BY WithNone DEF m
    <2>3. With(mem', j, {}) /\ Quiets(m, mem')
      BY <1>1, <1>2, <2>1, <2>2, DecoderGone
    <2>4. QED BY <2>3, WithNone DEF m
  <1>5. CASE ~(IsOver(m, j) \/ ~Accepts(m, j, a))
    <2>1. Allowed(m, j) /\ mem' = Accept(m, j, a, seq)
      BY <1>2, <1>5 DEF Accepts, Allowed
    <2>0. Fine(m, j)
      OBVIOUS
    <2> HIDE DEF m
    <2>2. Idling(m, j)
      BY <1>1, <1>2, <2>0, <2>1, IdleKnows
    <2>3. a = m.made[j] /\ d = a
      BY <2>2 DEF Idling
    <2> DEFINE b == Busied(m, j)
               held == Taken(m, j)
               job == m.job[j]
               expected == IF job.vad THEN m.pcm[j] ELSE job.cursor
               over == Save([held EXCEPT !.job[j].vad = FALSE, !.job[j].chunkSec = build],
                            ChunkAt("overflow", j, a, seq))
    <2>4. \/ seq < expected /\ mem' = [m EXCEPT !.decoder[j].next = @ + 1]
          \/ \E e \in Errors : mem' = Fail(b, j, e, "refused")
          \/ job.vad /\ mem' = [m EXCEPT !.pcm[j] = @ + 1, !.decoder[j].next = @ + 1]
          \/ job.vad /\ mem' = over
          \/ ~job.vad /\ mem' = NextSlab(held, j, a, seq)
      <3>1. {"order", "count", "own"} \subseteq Errors
        BY DEF Errors
      <3>2. /\ b = [m EXCEPT !.decoder[j].busy = TRUE]
            /\ held = [b EXCEPT !.consumer = @ \cup {j}]
        BY DEF Busied, Taken
      <3>3. \/ seq < expected /\ mem' = [m EXCEPT !.decoder[j].next = @ + 1]
            \/ \E e \in {"order", "count", "own"} : mem' = Fail(b, j, e, "refused")
            \/ job.vad /\ mem' = [m EXCEPT !.pcm[j] = @ + 1, !.decoder[j].next = @ + 1]
            \/ job.vad /\ mem' = over
            \/ ~job.vad /\ mem' = NextSlab(held, j, a, seq)
        <4> HIDE DEF b, held
        <4>1. mem' = LET refused(error) == Fail(b, j, IF m.decoder[j].att = a THEN error ELSE "own", "refused")
                     IN  IF seq < expected THEN [m EXCEPT !.decoder[j].next = @ + 1]
                         ELSE IF seq > expected THEN refused("order")
                         ELSE IF job.total > 0 THEN refused("count")
                         ELSE IF job.vad /\ m.pcm[j] < Limit(j)
                         THEN [m EXCEPT !.pcm[j] = @ + 1, !.decoder[j].next = @ + 1]
                         ELSE IF job.vad THEN over
                         ELSE NextSlab(held, j, a, seq)
          BY <2>1, <3>2 DEF Accept
        <4> HIDE DEF over, job, expected, seq, a
        <4>2. QED BY <4>1
      <3>4. QED BY <3>1, <3>3
    <2>5. ASSUME seq < expected, mem' = [m EXCEPT !.decoder[j].next = @ + 1]
          PROVE  Fine(mem', j) /\ Quiets(m, mem')
      <3>1. m.pcm[j] = IF job.vad THEN seq ELSE 0
        BY <2>2 DEF Idling
      <3>2. ~job.vad
        BY <1>3, <2>5, <3>1
      <3>3. m.pcm[j] = 0
        BY <3>1, <3>2
      <3>4. mem' = Counted(m, j, 0)
        <4>1. [m EXCEPT !.pcm[j] = 0] = m
          BY <1>1, <3>3 DEF Sound, Memories
        <4>2. mem' = [[m EXCEPT !.pcm[j] = 0] EXCEPT !.decoder[j].next = @ + 1]
          BY <2>5, <4>1
        <4>3. QED BY <4>2 DEF Counted
      <3>5. 0 \in Nat /\ 0 = Counts(m, j)
        BY <3>2 DEF Counts
      <3>6. QED BY <1>1, <2>2, <3>4, <3>5, CountedFine
    <2>6. ASSUME job.vad, mem' = [m EXCEPT !.pcm[j] = @ + 1, !.decoder[j].next = @ + 1]
          PROVE  Fine(mem', j) /\ Quiets(m, mem')
      <3> DEFINE p == m.pcm[j] + 1
      <3>1. p \in Nat /\ p = Counts(m, j)
        BY <1>1, <2>2, <2>6, PartsOf DEF Idling, Counts
      <3>2. mem' = Counted(m, j, p)
        BY <2>6 DEF Counted
      <3> HIDE DEF p
      <3>3. QED BY <1>1, <2>2, <3>1, <3>2, CountedFine
    <2>7. ASSUME NEW e \in Errors, mem' = Fail(b, j, e, "refused")
          PROVE  Fine(mem', j) /\ Quiets(m, mem')
      BY <1>1, <2>2, <2>7, RefusedFine
    <2>8. ASSUME mem' = over PROVE Fine(mem', j) /\ Quiets(m, mem')
      BY <1>1, <1>3, <2>2, <2>3, <2>8, OverflowFine
    <2>9. ASSUME ~job.vad, mem' = NextSlab(held, j, a, seq)
          PROVE  Fine(mem', j) /\ Quiets(m, mem')
      <3>1. /\ Sound(held) /\ Apart(m, held, j) /\ held.pcm = m.pcm /\ held.made = m.made
            /\ held.slot = m.slot /\ held.job = m.job
            /\ Before(m, j, Mine(m, j), Mine(held, j)) /\ (Queued(held, j) <=> Queued(m, j))
            /\ Transcribes(held, j, m.made[j])
        BY <1>1, <2>2, <2>9, TakenKnows
      <3>2. held.pcm[j] = 0
        BY <2>2, <2>9, <3>1 DEF Idling
      <3> HIDE DEF held
      <3>3. Fine(mem', j) /\ Quiets(held, mem')
        BY <1>3, <2>3, <2>9, <3>1, <3>2, NextSlabFine
      <3>4. Quiets(m, held)
        BY <3>1, QuietsApart
      <3>5. QED BY <3>3, <3>4, QuietsTwice
    <2>10. QED BY <2>4, <2>5, <2>6, <2>7, <2>8, <2>9 DEF m
  <1>6. QED BY <1>4, <1>5

-----------------------------------------------------------------------------
(* The windows, and the end of the decoder.                                *)

(* Who leads the attempt on from here, when no decoder is left.            *)
Led(n, k, u) ==
    /\ u \in Threads /\ u.job = k /\ u.att = n.made[k] /\ u.at \in Windowing \cup {"finish", "tail"}
    /\ n.att[k].tailAllowed /\ n.decoder[k].att = 0
    /\ u.at \in Windowing => /\ n.att[k].accepting /\ u.att = n.att[k].id
                             /\ k \in n.slot /\ k \in n.consumer
    /\ u.at \notin Windowing => k \notin n.consumer
    /\ k \in n.slot => n.att[k].accepting
    /\ u.at = "tail" => ~n.att[k].accepting
    /\ IF u.at = "finish" /\ n.job[k].vad THEN n.att[k].accepting /\ n.pcm[k] > 0
       ELSE n.pcm[k] = 0
    /\ n.job[k].state = IF u.at = "finish" THEN "decoding" ELSE "transcribing"

(* It can, when nobody else is at work.                                    *)
LEMMA LedWith ==
    ASSUME NEW m, NEW q, NEW k \in Jobs, NEW T, Sound(q), Before(m, k, T, Mine(q, k)),
           q.made[k] = m.made[k], Queued(q, k) <=> Queued(m, k), NEW u, Led(q, k, u)
    PROVE  With(q, k, {u})
  <1>1. /\ FineWith(m, k, T) /\ (\A t \in T : t.job = k) /\ Allowed(m, k)
        /\ Mine(q, k) \in SUBSET T /\ \A x \in Mine(q, k) : ~Works(x) /\ ~Starts(m, x)
    BY DEF Before
  <1>2. u.att = m.made[k] /\ u.job = k /\ u.at \in Windowing \cup {"finish", "tail"} /\ u \in Threads
    BY DEF Led
  <1>3. FineWith(q, k, Mine(q, k) \cup {u})
    <2>1. /\ q.att[k].tailAllowed /\ q.decoder[k].att = 0
          /\ u.at \in Windowing => /\ q.att[k].accepting /\ u.att = q.att[k].id
                                   /\ k \in q.slot /\ k \in q.consumer
          /\ u.at \notin Windowing => k \notin q.consumer
          /\ k \in q.slot => q.att[k].accepting
          /\ u.at = "tail" => ~q.att[k].accepting
          /\ IF u.at = "finish" /\ q.job[k].vad THEN q.att[k].accepting /\ q.pcm[k] > 0
             ELSE q.pcm[k] = 0
          /\ q.job[k].state = IF u.at = "finish" THEN "decoding" ELSE "transcribing"
      BY DEF Led
    <2>2. QED BY <1>1, <1>2, <2>1, LeadIsFine
  <1>4. Works(u)
    BY <1>2, RolesOf
  <1>5. u \notin q.threads
    BY <1>1, <1>2, <1>4 DEF Mine
  <1>6. u.att <= q.made[k] /\ q.made[k] \in Nat
    BY <1>2, PartsOf
  <1>7. QED BY <1>2, <1>3, <1>5, <1>6 DEF With, Crew

(* So it goes on.                                                          *)
LEMMA LedJoins ==
    ASSUME NEW m, NEW q, NEW k \in Jobs, NEW T, Sound(q), Before(m, k, T, Mine(q, k)),
           q.made[k] = m.made[k], Queued(q, k) <=> Queued(m, k), NEW u, Led(q, k, u)
    PROVE  /\ Fine(Await(q, u), k) /\ Quiets(q, Await(q, u))
           /\ Fine(Save(q, u), k) /\ Quiets(q, Save(q, u))
  <1> DEFINE v == Saving(q, u)
  <1>1. u \in Threads /\ u.job = k
    BY DEF Led
  <1>2. v \in Threads /\ v.at = u.at /\ v.job = u.job /\ v.att = u.att
    BY <1>1, SavingIs DEF Sound
  <1>3. Save(q, u) = Await(q, v)
    BY DEF Save, Saving
  <1> HIDE DEF v
  <1>4. Led(q, k, v)
    BY <1>1, <1>2 DEF Led
  <1>5. With(q, k, {u}) /\ With(q, k, {v})
    BY <1>4, LedWith
  <1>6. QED BY <1>1, <1>2, <1>3, <1>5, JoinWith

(* The thread of the windows can be passed on.                             *)
LEMMA WindowGoesOn ==
    ASSUME NEW m, NEW k \in Jobs, NEW t, Sound(m), With(m, k, {t}), t.at \in Windowing,
           Allowed(m, k)
    PROVE  /\ Before(m, k, Mine(m, k) \cup {t}, Mine(m, k)) /\ Led(m, k, t)
           /\ \A x \in Mine(m, k) : ~Leads(x)
  <1>1. FineWith(m, k, Mine(m, k) \cup {t}) /\ (\A x \in Mine(m, k) \cup {t} : x.job = k)
        /\ t \in Threads
    BY WithKnows
  <1>2. InConsume(t) /\ t.at \notin {"finish", "tail"}
    BY RolesOf
  <1>3. /\ t.job = k /\ t.att = m.made[k] /\ t.att = m.att[k].id /\ k \in m.slot /\ k \in m.consumer
        /\ m.decoder[k].att = 0 /\ m.pcm[k] = 0 /\ m.job[k].state = "transcribing"
        /\ m.att[k].accepting /\ m.att[k].tailAllowed
        /\ \A x \in Mine(m, k) : ~Works(x) /\ ~Starts(m, x) /\ ~Leads(x)
    BY <1>2, WindowKnows
  <1>4. Mine(m, k) \in SUBSET (Mine(m, k) \cup {t})
    OBVIOUS
  <1>5. Before(m, k, Mine(m, k) \cup {t}, Mine(m, k))
    BY <1>1, <1>3, <1>4 DEF Before
  <1>6. Led(m, k, t)
    BY <1>1, <1>2, <1>3 DEF Led
  <1>7. QED BY <1>3, <1>5, <1>6

(* Another window, or none.                                                *)
LEMMA NextWindowFine ==
    ASSUME NEW m, NEW k \in Jobs, NEW t, Sound(m), build \in Nat, With(m, k, {t}),
           t.at \in Windowing, NEW n, n \in NextWindow(m, k, t.att)
    PROVE  Fine(n, k) /\ Quiets(m, n)
  <1>1. InConsume(t) /\ t.att \in Nat
    BY RolesOf, WithKnows
  <1>2. Allowed(m, k) <=> Transcribe(m, k, t.att)
    BY <1>1, WindowKnows
  <1>3. CASE ~Transcribe(m, k, t.att)
    <2>1. n \in ConsumeEnds(m, k, t.att, FALSE)
      BY <1>3 DEF NextWindow
    <2>2. QED BY <1>1, <1>2, <1>3, <2>1, WindowsStopFine
  <1>4. CASE Transcribe(m, k, t.att) /\ m.job[k].cursor < Windows
    <2> DEFINE u == Thread("window", k, t.att)
    <2>1. n = Await(m, u)
      BY <1>4 DEF NextWindow
    <2>2. "window" \in Points /\ "window" \in Windowing
      BY DEF Points, Windowing
    <2>3. u \in Threads /\ u.at = "window" /\ u.job = k /\ u.att = t.att
      BY <1>1, <2>2, ThreadIs
    <2> HIDE DEF u
    <2>4. Before(m, k, Mine(m, k) \cup {t}, Mine(m, k)) /\ Led(m, k, t)
      BY <1>2, <1>4, WindowGoesOn
    <2>5. t.at \notin {"finish", "tail"} /\ u.at \notin {"finish", "tail"}
      BY <2>3 DEF Windowing
    <2>6. Led(m, k, u)
      BY <2>2, <2>3, <2>4, <2>5 DEF Led
    <2>7. Fine(Await(m, u), k) /\ Quiets(m, Await(m, u))
      BY <2>4, <2>6, LedJoins
    <2>8. QED BY <2>1, <2>7
  <1>5. CASE Transcribe(m, k, t.att) /\ ~(m.job[k].cursor < Windows)
    <2>1. n \in ConsumeEnds(m, k, t.att, TRUE)
      BY <1>5 DEF NextWindow
    <2>2. QED BY <1>1, <1>2, <1>5, <2>1, WindowsEndFine
  <1>6. QED BY <1>3, <1>4, <1>5

(* The steps of the windows.                                               *)
LEMMA WindowsSavedFine ==
    ASSUME Orderly, NEW t \in mem.threads, WindowsSaved(t), Fine(mem, t.job)
    PROVE  Fine(mem', t.job) /\ Quiets(mem, mem')
  <1> DEFINE w == Woken(t)
  <1>1. /\ t.job \in Jobs /\ Sound(w) /\ build \in Nat /\ With(w, t.job, {t})
        /\ \A n : Quiets(w, n) => Quiets(mem, n)
    BY Resumes
  <1>2. t.at \in Windowing /\ mem' \in NextWindow(w, t.job, t.att)
    BY DEF WindowsSaved, Windowing
  <1> HIDE DEF w
  <1>3. Fine(mem', t.job) /\ Quiets(w, mem')
    BY <1>1, <1>2, NextWindowFine
  <1>4. QED BY <1>1, <1>3

(* A window that cannot be transcribed fails the job.                      *)
LEMMA WindowFailsFine ==
    ASSUME NEW m, NEW k \in Jobs, NEW t, Sound(m), With(m, k, {t}), t.at \in Windowing,
           Allowed(m, k), NEW n, n = Fail(m, k, "other", "consume")
    PROVE  Fine(n, k) /\ Quiets(m, n)
  <1> DEFINE T == Mine(m, k) \cup {t}
             R == Mine(m, k)
  <1>0. m \in Memories /\ "other" \in Errors /\ "consume" \in Awaiters
    BY DEF Sound, Errors, Awaiters
  <1>1. FineWith(m, k, T) /\ (\A x \in T : x.job = k)
    BY WithKnows
  <1>2. /\ Apart(m, n, k) /\ n.made = m.made /\ n.queue = m.queue
        /\ n.job[k].state = "failed" /\ n.job[k].vad = m.job[k].vad
        /\ n.att[k].id = m.att[k].id /\ ~Allowed(n, k)
        /\ n.pcm = m.pcm /\ n.slot = m.slot /\ n.consumer = m.consumer /\ n.decoder = m.decoder
        /\ \E u \in Threads : /\ u.at = "failing" /\ u.job = k /\ u.att = m.att[k].id
                              /\ u.then = "consume" /\ n.threads = m.threads \cup {u}
    BY <1>0, FailView
  <1>3. PICK u \in Threads : /\ u.at = "failing" /\ u.job = k /\ u.att = m.att[k].id
                             /\ u.then = "consume" /\ n.threads = m.threads \cup {u}
    BY <1>2
  <1>4. InConsume(t) /\ t.at \in Windowing
    BY RolesOf
  <1>5. /\ m.att[k].id = m.made[k] /\ m.made[k] > 0 /\ k \in m.slot /\ k \in m.consumer
        /\ m.decoder[k].att = 0 /\ m.pcm[k] = 0
        /\ \A x \in R : ~Works(x) /\ ~Starts(m, x) /\ ~Leads(x)
    BY <1>4, WindowKnows
  <1>6. /\ ~InTail(u) /\ ~InChunk(u) /\ Holds(u) /\ InConsume(u) /\ Leads(u)
    BY <1>3 DEF InTail, InChunk, Holds, InConsume, Leads, Tailing, Chunking
  <1>7. R \in SUBSET T /\ (Queued(n, k) <=> Queued(m, k))
    BY <1>2 DEF Queued
  <1>8. Mine(n, k) = R \cup {u}
    BY <1>3, MineJoins
  <1> HIDE DEF T, R
  <1>9. /\ u.att = m.made[k] /\ u.att > 0 /\ u.att = n.att[k].id
        /\ k \in n.slot /\ k \in n.consumer
        /\ n.decoder[k].att = 0 /\ n.decoder[k].att = m.decoder[k].att /\ m.decoder[k].att \in Nat
        /\ ~(n.decoder[k].att > 0)
    BY <1>2, <1>3, <1>5
  <1>10. \E x \in R \cup {u} : Holds(x)
    BY <1>6
  <1>11. FineWith(n, k, R \cup {u})
    BY <1>1, <1>2, <1>3, <1>5, <1>6, <1>7, <1>9, <1>10, FailedIsFine
  <1>12. Quiets(m, n)
    BY <1>2, QuietsApart
  <1>13. QED BY <1>8, <1>11, <1>12 DEF Fine

(* The window is transcribed, or its work was stopped meanwhile.           *)
LEMMA WindowHeardFine ==
    ASSUME Orderly, NEW t \in mem.threads, WindowHeard(t) \/ WindowNotHeard(t), Fine(mem, t.job)
    PROVE  Fine(mem', t.job) /\ Quiets(mem, mem')
  <1> DEFINE k == t.job
             w == Woken(t)
  <1>1. /\ t \in Threads /\ k \in Jobs /\ Sound(w) /\ build \in Nat /\ With(w, k, {t})
        /\ w.job = mem.job /\ w.att = mem.att /\ k \in Known(w)
        /\ \A n : Quiets(w, n) => Quiets(mem, n)
    BY Resumes
  <1>2. t.at = "window" /\ t.at \in Windowing
    BY DEF WindowHeard, WindowNotHeard, Windowing
  <1>3. Transcribe(mem, k, t.att) <=> Transcribe(w, k, t.att)
    BY <1>1 DEF Transcribe, IsOver, Accepts
  <1>4. \/ Transcribe(w, k, t.att) /\ \/ mem' = Save(Line(w, k), [t EXCEPT !.at = "windows"])
                                      \/ mem' = Fail(w, k, "other", "consume")
        \/ ~Transcribe(w, k, t.att) /\ mem' \in ConsumeEnds(w, k, t.att, FALSE)
    BY <1>3 DEF WindowHeard, WindowNotHeard
  <1> HIDE DEF w, k
  <1>5. InConsume(t) /\ t.att \in Nat
    BY <1>1, <1>2, RolesOf DEF Threads
  <1>6. Allowed(w, k) <=> Transcribe(w, k, t.att)
    BY <1>1, <1>2, <1>5, WindowKnows
  <1>7. CASE ~Transcribe(w, k, t.att)
    <2>1. Fine(mem', k) /\ Quiets(w, mem')
      BY <1>1, <1>4, <1>5, <1>6, <1>7, WindowsStopFine
    <2>2. QED BY <1>1, <2>1 DEF k
  <1>8. CASE Transcribe(w, k, t.att) /\ mem' = Fail(w, k, "other", "consume")
    <2>1. Fine(mem', k) /\ Quiets(w, mem')
      BY <1>1, <1>2, <1>6, <1>8, WindowFailsFine
    <2>2. QED BY <1>1, <2>1 DEF k
  <1>9. CASE Transcribe(w, k, t.att) /\ mem' = Save(Line(w, k), [t EXCEPT !.at = "windows"])
    <2> DEFINE q == Line(w, k)
               u == [t EXCEPT !.at = "windows"]
    <2>1. /\ Moves(w, q, k) /\ q.job[k].state = w.job[k].state
          /\ q.threads = w.threads /\ q.att = w.att /\ q.made = w.made
          /\ q.decoder = w.decoder /\ q.slot = w.slot /\ q.consumer = w.consumer /\ q.pcm = w.pcm
          /\ q.queue = w.queue /\ q.job[k].vad = w.job[k].vad /\ Apart(w, q, k)
      BY <1>1, LineIs
    <2>2. "windows" \in Points /\ "windows" \in Windowing
      BY DEF Points, Windowing
    <2>3. u \in Threads /\ u.at = "windows" /\ u.job = k /\ u.att = t.att
      BY <1>1, <2>2 DEF Threads, k
    <2>4. mem' = Save(q, u)
      BY <1>9
    <2> HIDE DEF q, u
    <2>5. Before(w, k, Mine(w, k) \cup {t}, Mine(w, k)) /\ Led(w, k, t)
      BY <1>1, <1>2, <1>6, <1>9, WindowGoesOn
    <2>6. Mine(q, k) = Mine(w, k) /\ (Queued(q, k) <=> Queued(w, k))
      BY <2>1 DEF Mine, Queued
    <2>7. Led(q, k, u)
      <3>1. t.at \notin {"finish", "tail"} /\ u.at \notin {"finish", "tail"}
        BY <1>2, <2>3
      <3>2. QED BY <1>2, <2>1, <2>2, <2>3, <2>5, <3>1 DEF Led
    <2>8. Before(w, k, Mine(w, k) \cup {t}, Mine(q, k)) /\ q.made[k] = w.made[k]
      BY <2>1, <2>5, <2>6
    <2>9. Sound(q)
      BY <2>1 DEF Moves
    <2>10. Fine(mem', k) /\ Quiets(q, mem')
      BY <1>1, <2>4, <2>6, <2>7, <2>8, <2>9, LedJoins
    <2>11. Quiets(w, q)
      BY <2>1, QuietsApart
    <2>12. Quiets(w, mem')
      BY <2>10, <2>11, QuietsTwice
    <2>13. QED BY <1>1, <2>10, <2>12 DEF k
  <1>10. QED BY <1>4, <1>7, <1>8, <1>9

(* The tail begins.                                                        *)
LEMMA ConsumedFine ==
    ASSUME Orderly, NEW t \in mem.threads, Consumed(t), Fine(mem, t.job)
    PROVE  Fine(mem', t.job) /\ Quiets(mem, mem')
  <1> DEFINE w == Woken(t)
  <1>1. /\ t.job \in Jobs /\ Sound(w) /\ With(w, t.job, {t})
        /\ \A n : Quiets(w, n) => Quiets(mem, n)
    BY Resumes
  <1>2. t.at = "tail" /\ mem' = ToTail(w, t.job, t.att)
    BY DEF Consumed
  <1> HIDE DEF w
  <1>3. Fine(mem', t.job) /\ Quiets(w, mem')
    BY <1>1, <1>2, ToTailFine
  <1>4. QED BY <1>1, <1>3

(* The decoder has gone and its attempt can be finished.                   *)
Finishing(m, k, g) ==
    /\ g \in Threads /\ g.job = k /\ g.at = "finish" /\ g.att = m.made[k]
    /\ Before(m, k, Mine(m, k) \cup {g}, Mine(m, k))
    /\ \A x \in Mine(m, k) : ~Leads(x)
    /\ m.att[k].id = m.made[k] /\ m.made[k] > 0 /\ m.att[k].tailAllowed /\ m.decoder[k].att = 0
    /\ m.job[k].state = "decoding" /\ k \notin m.consumer
    /\ k \in m.slot => m.att[k].accepting
    /\ IF m.job[k].vad THEN m.att[k].accepting /\ m.pcm[k] > 0 ELSE m.pcm[k] = 0

(* It can when it may go on.                                               *)
LEMMA FinishKnows ==
    ASSUME NEW m, NEW k \in Jobs, NEW g, Sound(m), With(m, k, {g}), g.at = "finish",
           Allowed(m, k)
    PROVE  Finishing(m, k, g)
  <1> DEFINE T == Mine(m, k) \cup {g}
  <1>1. /\ FineWith(m, k, T) /\ (\A x \in T : x.job = k) /\ T \ {g} = Mine(m, k) /\ g \in Threads
        /\ g \in T /\ Mine(m, k) \in SUBSET T
    BY WithKnows
  <1>2. Works(g) /\ Leads(g)
    BY RolesOf
  <1> HIDE DEF T
  <1>3. /\ m.att[k].tailAllowed /\ ~Stops(T)
    BY <1>1, AllowedKnows
  <1>4. /\ \A u \in T : ~InTail(u) /\ ~Starts(m, u) /\ (Works(u) => u = g)
        /\ g.att = m.made[k] /\ k \notin m.consumer
    <2>1. ~Holds(g)
      BY RolesOf
    <2>2. QED BY <1>1, <1>2, <2>1, WorkerKnows
  <1>5. m.decoder[k].att = 0 /\ m.job[k].state = "decoding"
    BY <1>1, <1>2, <1>3 DEF FineWith, DecoderKnown, AttemptServed
  <1>6. m.att[k].id = m.made[k] /\ m.made[k] > 0 /\ m.pcm[k] \in Nat
    BY PartsOf
  <1>7. k \in m.slot => m.att[k].accepting
    BY <1>1, <1>3, <1>4 DEF FineWith, AudioHeld
  <1>8. ASSUME m.job[k].vad PROVE m.att[k].accepting /\ m.pcm[k] > 0
    BY <1>1, <1>3, <1>8 DEF FineWith, AudioHeld
  <1>9. ASSUME ~m.job[k].vad PROVE m.pcm[k] = 0
    <2>1. \A x \in T : x.at # "overflow"
      <3>1. ASSUME NEW x \in T, x.at = "overflow" PROVE FALSE
        <4>1. x.at \in Chunking
          BY <3>1 DEF Chunking
        <4>2. Works(x)
          BY <4>1, RolesOf
        <4>3. QED BY <1>4, <3>1, <4>2
      <3>2. QED BY <3>1
    <2>2. ~(m.pcm[k] > 0)
      BY <1>1, <1>3, <1>9, <2>1 DEF FineWith, AudioHeld
    <2>3. QED BY <1>6, <2>2
  <1>10. \A x \in Mine(m, k) : ~Works(x) /\ ~Starts(m, x) /\ ~Leads(x)
    <2>1. ASSUME NEW x \in Mine(m, k) PROVE ~Works(x) /\ ~Starts(m, x)
      BY <1>1, <1>4
    <2>2. \A x : ~Works(x) => ~Leads(x)
      BY DEF Works, Leads, Holds
    <2>3. QED BY <2>1, <2>2
  <1>11. Before(m, k, T, Mine(m, k))
    BY <1>1, <1>10 DEF Before
  <1>12. QED BY <1>1, <1>3, <1>4, <1>5, <1>6, <1>7, <1>8, <1>9, <1>10, <1>11 DEF Finishing, T

(* It gives its slot back before it does, if nothing is buffered.          *)
LEMMA FinishReleases ==
    ASSUME NEW m, NEW k \in Jobs, NEW g, Sound(m), build \in Nat, With(m, k, {g}),
           Finishing(m, k, g), ~m.job[k].vad, NEW r, r \in ReleaseAdmission(m, k, m.att[k].id, TRUE)
    PROVE  /\ Sound(r) /\ With(r, k, {g}) /\ Quiets(m, r) /\ Allowed(r, k) /\ k \notin r.slot
           /\ r.job[k] = m.job[k]
  <1>1. /\ g \in Threads /\ g.job = k /\ g.at = "finish" /\ g.att = m.made[k]
        /\ Before(m, k, Mine(m, k) \cup {g}, Mine(m, k))
        /\ m.att[k].id = m.made[k] /\ m.made[k] > 0 /\ m.att[k].tailAllowed /\ m.decoder[k].att = 0
        /\ m.job[k].state = "decoding" /\ k \notin m.consumer
        /\ m.pcm[k] = 0
    BY DEF Finishing
  <1>2. CASE k \notin m.slot
    <2>1. r = m
      BY <1>2 DEF ReleaseAdmission
    <2>2. QED BY <1>1, <1>2, <2>1 DEF Allowed, Quiets
  <1>3. CASE k \in m.slot
    <2>0. PICK b \in BOOLEAN : b = TRUE
      OBVIOUS
    <2>1. r \in ReleaseAdmission(m, k, m.att[k].id, b) /\ m \in Memories
      BY <2>0 DEF Sound
    <2>2. PICK d : GivenBack(m, d, k, m.att[k].id, b) /\ r \in Pumped(d)
      <3>1. \/ r = m /\ (k \notin m.slot \/ (m.att[k].id > 0 /\ m.att[k].id # m.att[k].id))
            \/ /\ k \in m.slot /\ ~(m.att[k].id > 0 /\ m.att[k].id # m.att[k].id)
               /\ \E d : GivenBack(m, d, k, m.att[k].id, b) /\ r \in Pumped(d)
        BY <2>1, ReleaseIs
      <3>2. QED BY <1>3, <3>1
    <2>11. Frees(m, d, k)
      <3>1. GivenBack(m, d, k, m.att[k].id, b)
        BY <2>2
      <3>2. QED BY <3>1, GivenBackFrees
    <2>3. Sound(d)
      BY <2>11 DEF Frees
    <2>4. /\ d.made = m.made /\ d.queue = m.queue /\ ~d.att[k].accepting /\ k \notin d.slot
          /\ d.att[k].tailAllowed /\ d.att[k].id = m.att[k].id
          /\ d.job = m.job /\ d.pcm = m.pcm /\ d.consumer = m.consumer
          /\ d.decoder = m.decoder /\ d.threads = m.threads
      BY <1>1, <2>0, <2>2 DEF GivenBack, Apart
    <2>5. Mine(d, k) = Mine(m, k) /\ (Queued(d, k) <=> Queued(m, k))
      BY <2>4 DEF Mine, Queued
    <2>6. Led(d, k, g)
      <3>1. g.at \in Windowing \cup {"finish", "tail"} /\ g.at \notin Windowing /\ g.at # "tail"
        BY <1>1 DEF Windowing
      <3>2. ~d.job[k].vad /\ d.job[k].state = "decoding" /\ d.pcm[k] = 0 /\ d.decoder[k].att = 0
            /\ k \notin d.consumer /\ g.att = d.made[k]
        BY <1>1, <2>4
      <3>3. QED BY <1>1, <2>4, <3>1, <3>2 DEF Led
    <2>7. Before(m, k, Mine(m, k) \cup {g}, Mine(d, k)) /\ d.made[k] = m.made[k]
      BY <1>1, <2>4, <2>5
    <2>8. With(d, k, {g})
      BY <2>3, <2>5, <2>6, <2>7, LedWith
    <2>9. d.job[k].state # "queued"
      BY <1>1, <2>4
    <2>10. Sound(r) /\ With(r, k, {g}) /\ Quiets(m, r) /\ Same(d, r, k)
      BY <2>2, <2>3, <2>8, <2>9, PumpWith
    <2>12. QED BY <2>4, <2>10 DEF Same, Allowed
  <1>4. QED BY <1>2, <1>3

(* The whole recording is buffered: its windows come next.                 *)
LEMMA ConsumeFine ==
    ASSUME NEW m, NEW k \in Jobs, NEW g, Sound(m), Finishing(m, k, g), m.job[k].vad,
           NEW n, n = Consume(m, k, m.att[k].id)
    PROVE  Fine(n, k) /\ Quiets(m, n)
  <1> DEFINE u == Thread("windows", k, m.att[k].id)
             S == m.consumer \cup {k}
             c == [m EXCEPT !.consumer = S]
             p == [c EXCEPT !.pcm[k] = 0]
             r == [p.job[k] EXCEPT !.total = Windows]
             d == [p EXCEPT !.job[k] = r]
             s == [d.job[k] EXCEPT !.state = "transcribing"]
             q == [d EXCEPT !.job[k] = s]
  <1>0. m \in Memories /\ k \in S /\ m.job[k] \in JobRecords /\ m.att[k].id \in Nat
    BY PartsOf DEF Sound
  <1>1. n = Save(q, u)
    BY DEF Consume, q, s, d, r, p, c, S
  <1>2. /\ c \in Memories /\ Apart(m, c, k) /\ c.consumer = S
        /\ c.queue = m.queue /\ c.pcm = m.pcm /\ c.decoder = m.decoder
        /\ c.slot = m.slot /\ c.job = m.job /\ c.made = m.made
        /\ c.att = m.att /\ c.threads = m.threads
    BY <1>0, ConsumerSet
  <1>3. Sound(c)
    BY <1>0, ConsumerMoves DEF Moves
  <1> HIDE DEF c, S
  <1>4. /\ p \in Memories /\ Apart(c, p, k) /\ p.pcm[k] = 0
        /\ p.queue = c.queue /\ p.decoder = c.decoder /\ p.slot = c.slot
        /\ p.consumer = c.consumer /\ p.job = c.job /\ p.made = c.made
        /\ p.att = c.att /\ p.threads = c.threads
    <2>1. 0 \in Nat /\ c \in Memories
      BY <1>2
    <2>2. QED BY <2>1, PcmSet
  <1>5. Sound(p)
    <2>1. 0 \in Nat
      OBVIOUS
    <2>2. QED BY <1>3, <2>1, PcmMoves DEF Moves
  <1> HIDE DEF p
  <1>6. r \in JobRecords /\ r.state = m.job[k].state /\ r.state = "decoding"
    BY <1>0, <1>2, <1>4, RecordingsHaveSpeech DEF JobRecords, Finishing
  <1> HIDE DEF r
  <1>7. p.job[k].state = "decoding" /\ k \in Known(p)
    BY <1>2, <1>4 DEF Known, Finishing
  <1>8. /\ d \in Memories /\ Apart(p, d, k) /\ d.job[k] = r
        /\ d.queue = p.queue /\ d.pcm = p.pcm /\ d.slot = p.slot
        /\ d.consumer = p.consumer /\ d.att = p.att /\ d.made = p.made
        /\ d.decoder = p.decoder /\ d.threads = p.threads
    BY <1>4, <1>6, JobSet
  <1>9. Sound(d)
    BY <1>5, <1>6, <1>7, JobMoves DEF Moves
  <1> HIDE DEF d
  <1>10. s \in JobRecords /\ s.state = "transcribing"
    BY <1>6, <1>8 DEF JobRecords, JobStates
  <1> HIDE DEF s
  <1>11. /\ q \in Memories /\ Apart(d, q, k) /\ q.job[k] = s
         /\ q.queue = d.queue /\ q.pcm = d.pcm /\ q.slot = d.slot
         /\ q.consumer = d.consumer /\ q.att = d.att /\ q.made = d.made
         /\ q.decoder = d.decoder /\ q.threads = d.threads
    BY <1>8, <1>10, JobSet
  <1>12. Sound(q)
    <2>1. d.job[k].state = "decoding" /\ k \in Known(d)
      BY <1>6, <1>8 DEF Known
    <2>2. QED BY <1>9, <1>10, <2>1, JobMoves DEF Moves
  <1> HIDE DEF q
  <1>13. /\ q.queue = m.queue /\ q.pcm[k] = 0 /\ q.slot = m.slot /\ k \in q.consumer
         /\ q.att = m.att /\ q.made = m.made /\ q.decoder = m.decoder /\ q.threads = m.threads
         /\ q.job[k].state = "transcribing"
    BY <1>0, <1>2, <1>4, <1>8, <1>10, <1>11
  <1>14. Apart(m, q, k)
    <2>1. Apart(m, p, k)
      BY <1>2, <1>4, ApartTwice
    <2>2. Apart(m, d, k)
      BY <1>8, <2>1, ApartTwice
    <2>3. QED BY <1>11, <2>2, ApartTwice
  <1>15. "windows" \in Points /\ "windows" \in Windowing
    BY DEF Points, Windowing
  <1>16. u \in Threads /\ u.at = "windows" /\ u.job = k /\ u.att = m.att[k].id
    BY <1>0, <1>15, ThreadIs
  <1> HIDE DEF u
  <1>17. /\ m.att[k].id = m.made[k] /\ m.made[k] > 0 /\ m.att[k].tailAllowed /\ m.decoder[k].att = 0
         /\ m.att[k].accepting /\ Before(m, k, Mine(m, k) \cup {g}, Mine(m, k))
    BY DEF Finishing
  <1>18. k \in m.slot
    BY <1>17 DEF Sound
  <1>19. u.at \in Windowing /\ u.at \notin {"finish", "tail"}
    BY <1>15, <1>16
  <1>20. Led(q, k, u)
    BY <1>13, <1>16, <1>17, <1>18, <1>19 DEF Led
  <1>21. Mine(q, k) = Mine(m, k) /\ (Queued(q, k) <=> Queued(m, k))
    BY <1>13 DEF Mine, Queued
  <1>22. Before(m, k, Mine(m, k) \cup {g}, Mine(q, k)) /\ q.made[k] = m.made[k]
    BY <1>13, <1>17, <1>21
  <1>23. Fine(n, k) /\ Quiets(q, n)
    BY <1>1, <1>12, <1>20, <1>21, <1>22, LedJoins
  <1>24. Quiets(m, q)
    BY <1>13, <1>14, QuietsApart
  <1>25. QED BY <1>23, <1>24, QuietsTwice

(* A decode that did not end with its recording whole fails.               *)
LEMMA FinishFails ==
    ASSUME NEW m, NEW k \in Jobs, NEW g, Sound(m), Finishing(m, k, g), k \notin m.slot,
           NEW p \in Memories, Apart(m, p, k), p.job[k].vad = m.job[k].vad, p.pcm = m.pcm,
           p.slot = m.slot, p.consumer = m.consumer, p.decoder = m.decoder, p.threads = m.threads,
           NEW e \in Errors, NEW n, n = Fail(p, k, e, "none")
    PROVE  Fine(n, k) /\ Quiets(m, n)
  <1> DEFINE R == Mine(m, k)
             T == Mine(m, k) \cup {g}
  <1>1. "none" \in Awaiters
    BY DEF Awaiters
  <1>2. /\ Apart(p, n, k) /\ n.made = p.made /\ n.queue = p.queue
        /\ n.job[k].state = "failed" /\ n.job[k].vad = p.job[k].vad /\ ~Allowed(n, k)
        /\ n.pcm = p.pcm /\ n.slot = p.slot /\ n.consumer = p.consumer /\ n.decoder = p.decoder
        /\ \E u \in Threads : /\ u.at = "failing" /\ u.job = k /\ u.att = p.att[k].id
                              /\ u.then = "none" /\ n.threads = p.threads \cup {u}
    BY <1>1, FailView
  <1>3. PICK u \in Threads : /\ u.at = "failing" /\ u.job = k /\ u.then = "none"
                             /\ n.threads = p.threads \cup {u}
    BY <1>2
  <1>4. ~InTail(u) /\ ~Works(u) /\ ~Holds(u) /\ ~InConsume(u) /\ ~InChunk(u) /\ ~Leads(u)
    BY <1>3, PlainFailure
  <1>5. /\ FineWith(m, k, T) /\ (\A x \in T : x.job = k) /\ Allowed(m, k) /\ R \in SUBSET T
        /\ \A x \in R : ~Works(x) /\ ~Leads(x)
        /\ m.decoder[k].att = 0 /\ k \notin m.consumer
    BY DEF Finishing, Before
  <1>6. Mine(n, k) = R \cup {u}
    <2>1. n.threads = m.threads \cup {u}
      BY <1>3
    <2>2. QED BY <1>3, <2>1 DEF Mine
  <1>7. p.made = m.made /\ p.queue = m.queue
    BY DEF Apart
  <1> HIDE DEF R, T
  <1>8. FineWith(n, k, R \cup {u})
    <2>1. /\ n.pcm[k] = m.pcm[k] /\ n.made[k] = m.made[k] /\ n.job[k].vad = m.job[k].vad
          /\ (k \in n.slot <=> k \in m.slot) /\ (k \in n.consumer <=> k \in m.consumer)
          /\ (Queued(n, k) <=> Queued(m, k))
      BY <1>2, <1>7 DEF Queued
    <2>2. n.decoder[k].att = 0 /\ m.decoder[k].att \in Nat /\ n.decoder[k].att = m.decoder[k].att
      BY <1>2, <1>5
    <2>3. k \notin n.consumer
      BY <2>1, <1>5
    <2>4. /\ Works(u) => u.att = m.made[k] /\ u.att > 0 /\ \A x \in R : ~Works(x) /\ ~Starts(m, x)
          /\ Holds(u) => k \in n.slot /\ k \in n.consumer /\ u.att = n.att[k].id
          /\ InConsume(u) => m.pcm[k] = 0
          /\ k \in n.consumer => \E x \in R \cup {u} : Holds(x)
      BY <1>4, <2>3
    <2>5. /\ \A x \in R : ~Works(x)
          /\ n.decoder[k].busy \/ n.decoder[k].att = 0
          /\ n.decoder[k].att > 0 =>
                \E x \in R \cup {u} : /\ InChunk(x) \/ InRefusal(x) \/ x.at = "threw"
                                      /\ x.att = n.decoder[k].att
          /\ InChunk(u) => n.decoder[k].att \in {0, u.att}
          /\ Leads(u) => n.decoder[k].att = 0
      BY <1>4, <1>5, <2>2
    <2>6. n.att[k].id = m.att[k].id \/ \A x \in R : ~Works(x)
      BY <1>5
    <2>7. \A x \in R : ~Leads(x)
      BY <1>5
    <2>8. QED BY <1>2, <1>3, <1>4, <1>5, <2>1, <2>2, <2>4, <2>5, <2>6, <2>7, FailedIsFine
  <1>9. Apart(m, n, k)
    BY <1>2, ApartTwice
  <1>10. Quiets(m, n)
    BY <1>2, <1>9, QuietsApart
  <1>11. QED BY <1>6, <1>8, <1>10 DEF Fine, R

(* One that did is saved.                                                  *)
LEMMA FinishSaves ==
    ASSUME NEW m, NEW k \in Jobs, NEW g, Sound(m), Finishing(m, k, g), k \notin m.slot,
           ~m.job[k].vad,
           NEW p \in Memories, Apart(m, p, k), p.job[k].state = m.job[k].state, p.pcm = m.pcm,
           p.slot = m.slot, p.consumer = m.consumer, p.decoder = m.decoder, p.threads = m.threads,
           ~Allowed(p, k), NEW u \in Threads, u.at = "saveMeeting", u.job = k,
           NEW n, n = Await(p, u)
    PROVE  Fine(n, k) /\ Quiets(m, n)
  <1> DEFINE T == Mine(m, k) \cup {g}
  <1>1. /\ FineWith(m, k, T) /\ (\A x \in T : x.job = k) /\ Allowed(m, k) /\ m.pcm[k] = 0
        /\ g \in T /\ g.at = "finish"
    BY DEF Finishing, Before
  <1>2. T \ {g} = Mine(m, k)
    <2>1. \A x \in Mine(m, k) : ~Works(x)
      BY DEF Finishing, Before
    <2>2. Works(g)
      BY <1>1, RolesOf
    <2>3. g \notin Mine(m, k)
      BY <2>1, <2>2
    <2>4. QED BY <2>3
  <1> HIDE DEF T
  <1>3. /\ Apart(p, n, k) /\ n.threads = p.threads \cup {u}
        /\ n.queue = p.queue /\ n.pcm = p.pcm /\ n.decoder = p.decoder
        /\ n.slot = p.slot /\ n.job = p.job /\ n.made = p.made
        /\ n.att = p.att /\ n.consumer = p.consumer
    BY JoinIs
  <1>4. p.made = m.made /\ p.queue = m.queue
    BY DEF Apart
  <1>5. ~Allowed(n, k)
    BY <1>3 DEF Allowed
  <1>6. FineWith(n, k, (T \ {g}) \cup {u})
    <2>1. /\ n.pcm[k] = 0 /\ n.made[k] = m.made[k] /\ n.job[k].state = m.job[k].state
          /\ n.decoder[k] = m.decoder[k] /\ k \notin n.slot
          /\ (k \in n.consumer <=> k \in m.consumer) /\ (Queued(n, k) <=> Queued(m, k))
      BY <1>1, <1>3, <1>4 DEF Queued
    <2>2. g.at \in {"finish", "tail"}
      BY <1>1
    <2>3. QED BY <1>1, <1>5, <2>1, <2>2, ToSaveIsFine
  <1>7. Mine(n, k) = Mine(m, k) \cup {u}
    <2>1. n.threads = m.threads \cup {u}
      BY <1>3
    <2>2. QED BY <2>1 DEF Mine
  <1>8. Apart(m, n, k)
    BY <1>3, ApartTwice
  <1>9. Quiets(m, n)
    BY <1>3, <1>8, QuietsApart
  <1>10. QED BY <1>2, <1>6, <1>7, <1>9 DEF Fine

(* The end of a decode of slabs.                                           *)
LEMMA FinishSlabsFine ==
    ASSUME NEW m, NEW k \in Jobs, NEW g, Sound(m), Finishing(m, k, g), k \notin m.slot,
           ~m.job[k].vad, NEW own \in BOOLEAN
    PROVE  LET n == FinishSlabs(Retire(m, k, m.att[k].id), k, own) IN Fine(n, k) /\ Quiets(m, n)
  <1> DEFINE p == Retire(m, k, m.att[k].id)
             r == [p.job[k] EXCEPT !.total = Slabs]
             d == [p EXCEPT !.job[k] = r]
             s == Thread("saveMeeting", k, 0)
             u == [s EXCEPT !.rec = p.job[k]]
             n == FinishSlabs(p, k, own)
  <1>0. m \in Memories /\ m.job[k] \in JobRecords
    BY PartsOf DEF Sound
  <1>1. n \in {Fail(p, k, "count", "none"), Fail(p, k, "own", "none"),
               Fail(d, k, "short", "none"), Fail(d, k, "own", "none"), Await(d, u)}
    BY DEF FinishSlabs, d, r, u, s, n
  <1>2. /\ p \in Memories /\ Apart(m, p, k) /\ p.att[k] = NoAttempt
        /\ p.job = m.job /\ p.pcm = m.pcm /\ p.slot = m.slot /\ p.consumer = m.consumer
        /\ p.decoder = m.decoder /\ p.threads = m.threads
    BY <1>0, RetireIs DEF Apart
  <1> HIDE DEF p, n
  <1>3. r \in JobRecords /\ r.state = m.job[k].state /\ r.vad = m.job[k].vad
    BY <1>0, <1>2, RecordingsHaveSpeech DEF JobRecords
  <1> HIDE DEF r
  <1>4. /\ d \in Memories /\ Apart(p, d, k) /\ d.job[k] = r
        /\ d.pcm = p.pcm /\ d.slot = p.slot /\ d.consumer = p.consumer /\ d.att = p.att
        /\ d.decoder = p.decoder /\ d.threads = p.threads
    BY <1>2, <1>3, JobSet
  <1> HIDE DEF d
  <1>5. /\ Apart(m, d, k) /\ d.pcm = m.pcm /\ d.slot = m.slot /\ d.consumer = m.consumer
        /\ d.decoder = m.decoder /\ d.threads = m.threads
        /\ d.job[k].vad = m.job[k].vad /\ d.job[k].state = m.job[k].state
    BY <1>2, <1>3, <1>4, ApartTwice
  <1>6. ~Allowed(d, k)
    BY <1>2, <1>4 DEF Allowed, NoAttempt
  <1>7. {"count", "own", "short"} \subseteq Errors
    BY DEF Errors
  <1>8. ASSUME NEW e \in {"count", "own", "short"}
        PROVE  /\ Fine(Fail(p, k, e, "none"), k) /\ Quiets(m, Fail(p, k, e, "none"))
               /\ Fine(Fail(d, k, e, "none"), k) /\ Quiets(m, Fail(d, k, e, "none"))
    <2>1. e \in Errors
      BY <1>7
    <2>2. Fine(Fail(p, k, e, "none"), k) /\ Quiets(m, Fail(p, k, e, "none"))
      BY <1>2, <2>1, FinishFails
    <2>3. Fine(Fail(d, k, e, "none"), k) /\ Quiets(m, Fail(d, k, e, "none"))
      BY <1>4, <1>5, <2>1, FinishFails
    <2>4. QED BY <2>2, <2>3
  <1>9. Fine(Await(d, u), k) /\ Quiets(m, Await(d, u))
    <2>1. "saveMeeting" \in Points
      BY DEF Points, Tailing
    <2>2. s \in Threads /\ s.at = "saveMeeting" /\ s.job = k
      BY <2>1, ThreadIs
    <2> HIDE DEF s
    <2>3. u \in Threads /\ u.at = "saveMeeting" /\ u.job = k
      BY <1>0, <1>2, <2>2 DEF Threads
    <2> HIDE DEF u
    <2>4. QED BY <1>4, <1>5, <1>6, <2>3, FinishSaves
  <1>10. Fine(n, k) /\ Quiets(m, n)
    BY <1>1, <1>8, <1>9
  <1>11. QED BY <1>10 DEF n, p

(* finish() leaves its job as it should be.                                *)
LEMMA FinishFine ==
    ASSUME NEW m, NEW k \in Jobs, NEW g, Sound(m), build \in Nat, With(m, k, {g}),
           g.at = "finish", NEW o, NEW n, n \in Finish(m, k, o)
    PROVE  Fine(n, k) /\ Quiets(m, n)
  <1> DEFINE a == m.att[k].id
             T == Mine(m, k) \cup {g}
  <1>1. /\ FineWith(m, k, T) /\ (\A x \in T : x.job = k) /\ g \in T /\ T \ {g} = Mine(m, k)
    BY WithKnows
  <1>2. /\ Allowed(m, k) <=> CanFinish(m, k, a)
        /\ Allowed(m, k) => ~IsOver(m, k)
    BY <1>1, AllowedFinishes
  <1>3. CASE ~Allowed(m, k)
    <2>1. n = m
      BY <1>2, <1>3 DEF Finish
    <2>2. g.at \in {"finish", "tail"}
      OBVIOUS
    <2> HIDE DEF T
    <2>3. FineWith(m, k, T \ {g})
      BY <1>1, <1>3, <2>2, LeadGone
    <2>4. QED BY <1>1, <2>1, <2>3 DEF Fine, Quiets
  <1>4. CASE Allowed(m, k) /\ m.job[k].vad
    <2>1. Finishing(m, k, g)
      BY <1>4, FinishKnows
    <2>2. n = Consume(m, k, m.att[k].id)
      BY <1>2, <1>4 DEF Finish
    <2>3. QED BY <1>4, <2>1, <2>2, ConsumeFine
  <1>5. CASE Allowed(m, k) /\ ~m.job[k].vad
    <2>1. Finishing(m, k, g)
      BY <1>5, FinishKnows
    <2>2. PICK r \in ReleaseAdmission(m, k, a, TRUE) :
             n = IF CanFinish(r, k, a) /\ r.job[k].state = "decoding"
                 THEN FinishSlabs(Retire(r, k, a), k, a = o) ELSE Retire(r, k, a)
      BY <1>2, <1>5 DEF Finish
    <2>3. /\ Sound(r) /\ With(r, k, {g}) /\ Quiets(m, r) /\ Allowed(r, k) /\ k \notin r.slot
          /\ r.job[k] = m.job[k]
      BY <1>5, <2>1, <2>2, FinishReleases
    <2>4. Finishing(r, k, g)
      BY <2>3, FinishKnows
    <2>5. r.att[k].id = a /\ r.job[k].state = "decoding"
      BY <2>1, <2>4 DEF Finishing
    <2>6. CanFinish(r, k, a)
      <3>1. FineWith(r, k, Mine(r, k) \cup {g})
        BY <2>3, WithKnows
      <3>2. QED BY <2>3, <2>5, <3>1, AllowedFinishes
    <2> DEFINE own == a = o
    <2>7. n = FinishSlabs(Retire(r, k, r.att[k].id), k, own)
      BY <2>2, <2>5, <2>6
    <2>8. own \in BOOLEAN
      OBVIOUS
    <2> HIDE DEF own
    <2>9. Fine(n, k) /\ Quiets(r, n)
      <3>1. ~r.job[k].vad
        BY <1>5, <2>3
      <3>2. QED BY <2>3, <2>4, <2>7, <2>8, <3>1, FinishSlabsFine
    <2>10. QED BY <2>3, <2>9, QuietsTwice
  <1>6. QED BY <1>3, <1>4, <1>5

(* finishDecoding() goes on after the pump it awaited.                     *)
LEMMA FinishDecodingFine ==
    ASSUME Orderly, NEW t \in mem.threads, FinishDecoding(t), Fine(mem, t.job)
    PROVE  Fine(mem', t.job) /\ Quiets(mem, mem')
  <1> DEFINE w == Woken(t)
  <1>1. /\ t.job \in Jobs /\ Sound(w) /\ With(w, t.job, {t}) /\ build \in Nat
        /\ \A n : Quiets(w, n) => Quiets(mem, n)
    BY Resumes
  <1>2. t.at = "finish" /\ mem' \in Finish(w, t.job, t.att)
    BY DEF FinishDecoding
  <1> HIDE DEF w
  <1>3. Fine(mem', t.job) /\ Quiets(w, mem')
    BY <1>1, <1>2, FinishFine
  <1>4. QED BY <1>1, <1>3

(* The last chunk of a decode has been taken.                              *)
LEMMA CompleteFine ==
    ASSUME Orderly, NEW j \in Jobs, Complete(j), Fine(mem, j)
    PROVE  Fine(mem', j) /\ Quiets(mem, mem')
  <1> DEFINE d == [mem EXCEPT !.decoder[j] = NoDecoder]
             a == mem.decoder[j].att
             g == Thread("finish", j, a)
             T == Mine(mem, j)
  <1>1. /\ Sound(mem) /\ mem \in Memories /\ build \in Nat /\ FineWith(mem, j, T)
        /\ (\A x \in T : x.job = j)
    BY DEF Orderly, TypeOK, Fine, Mine
  <1>2. /\ a > 0 /\ ~mem.decoder[j].busy /\ mem.decoder[j].next >= Slabs /\ Idles(mem, j)
    BY DEF Complete, Idles
  <1>3. PICK m \in ReleaseDecode(d, j) : mem' \in Later(m, g, Finish(m, j, a))
    BY DEF Complete
  <1>4. NoDecoder \in Decoders /\ NoDecoder.att = 0 /\ a \in Nat /\ a = mem.made[j]
        /\ mem.job[j].state # "queued"
    BY <1>1, <1>2, PartsOf DEF NoDecoder, Decoders, FineWith, DecoderKnown
  <1>5. /\ d \in Memories /\ Apart(mem, d, j) /\ d.decoder[j] = NoDecoder
        /\ d.queue = mem.queue /\ d.pcm = mem.pcm /\ d.slot = mem.slot
        /\ d.consumer = mem.consumer /\ d.job = mem.job /\ d.made = mem.made
        /\ d.att = mem.att /\ d.threads = mem.threads
    BY <1>1, <1>4, DecoderSet
  <1>6. Sound(d)
    BY <1>1, NoDecoderMoves DEF Moves
  <1> HIDE DEF d
  <1>7. Mine(d, j) = T /\ (Queued(d, j) <=> Queued(mem, j)) /\ (Allowed(d, j) <=> Allowed(mem, j))
    BY <1>5 DEF Mine, Queued, Allowed
  <1>8. "finish" \in Points
    BY DEF Points
  <1>9. g \in Threads /\ g.at = "finish" /\ g.job = j /\ g.att = a
    BY <1>4, <1>8, ThreadIs
  <1> HIDE DEF g
  <1>10. With(d, j, {g}) /\ Sound(m) /\ With(m, j, {g}) /\ Quiets(d, m)
    <2>1. CASE Allowed(mem, j)
      <3>1. Idling(mem, j)
        BY <1>1, <1>2, <2>1, IdleKnows
      <3>2. /\ Before(mem, j, T, T) /\ mem.att[j].accepting /\ mem.att[j].tailAllowed
            /\ mem.job[j].state = "decoding" /\ j \notin mem.consumer /\ j \in mem.slot
            /\ mem.pcm[j] = IF mem.job[j].vad THEN mem.decoder[j].next ELSE 0
        BY <3>1 DEF Idling
      <3>3. mem.job[j].vad => mem.pcm[j] > 0
        BY <1>1, <1>2, <3>2, PartsOf, RecordingsHaveSpeech
      <3>4. Led(d, j, g)
        <4>1. g.at \in Windowing \cup {"finish", "tail"} /\ g.at \notin Windowing /\ g.at # "tail"
          BY <1>9 DEF Windowing
        <4>2. /\ IF d.job[j].vad THEN d.att[j].accepting /\ d.pcm[j] > 0 ELSE d.pcm[j] = 0
              /\ d.job[j].state = "decoding" /\ j \notin d.consumer /\ d.att[j].accepting
              /\ d.att[j].tailAllowed /\ d.decoder[j].att = 0 /\ g.att = d.made[j]
          BY <1>4, <1>5, <1>9, <3>2, <3>3
        <4>3. QED BY <1>9, <4>1, <4>2 DEF Led
      <3>5. Before(mem, j, T, Mine(d, j)) /\ d.made[j] = mem.made[j]
        BY <1>5, <1>7, <3>2
      <3>6. With(d, j, {g})
        BY <1>6, <1>7, <3>4, <3>5, LedWith
      <3>7. CASE mem.job[j].vad
        <4>1. d.pcm[j] > 0
          BY <1>5, <3>3, <3>7
        <4>2. m = d
          BY <1>3, <4>1 DEF ReleaseDecode
        <4>3. QED BY <1>6, <3>6, <4>2 DEF Quiets
      <3>8. CASE ~mem.job[j].vad
        <4>1. d.pcm[j] = 0 /\ j \notin d.consumer /\ ~d.job[j].vad
          BY <1>5, <3>2, <3>8
        <4>5. ~(d.pcm[j] > 0)
          BY <4>1
        <4>2. m \in ReleaseAdmission(d, j, d.att[j].id, TRUE)
          BY <1>3, <4>1, <4>5 DEF ReleaseDecode
        <4>3. Finishing(d, j, g)
          BY <1>6, <1>7, <1>9, <2>1, <3>6, FinishKnows
        <4>4. QED BY <1>1, <1>6, <3>6, <4>1, <4>2, <4>3, FinishReleases
      <3>9. QED BY <3>7, <3>8
    <2>2. CASE ~Allowed(mem, j)
      <3>1. FineWith(d, j, T \cup {g})
        <4>1. g.att = mem.made[j] /\ d.job[j] = mem.job[j] /\ d.pcm[j] = mem.pcm[j]
              /\ d.att[j] = mem.att[j] /\ d.made[j] = mem.made[j]
          BY <1>4, <1>5, <1>9
        <4> HIDE DEF T
        <4>2. QED BY <1>1, <1>2, <1>5, <1>7, <1>9, <2>2, <4>1, FinishJoins
      <3>2. g \notin d.threads
        <4>1. Works(g)
          BY <1>9, RolesOf
        <4>2. \A x \in T : ~Works(x)
          BY <1>1, <1>2 DEF FineWith, DecoderKnown
        <4>3. QED BY <1>5, <1>9, <4>1, <4>2 DEF T, Mine
      <3>3. With(d, j, {g})
        <4>1. a <= d.made[j]
          BY <1>4, <1>5
        <4>2. QED BY <1>7, <1>9, <3>1, <3>2, <4>1 DEF With, Crew
      <3>4. ~Allowed(d, j) /\ d.job[j].state # "queued"
        BY <1>4, <1>5, <1>7, <2>2
      <3>5. QED BY <1>1, <1>3, <1>6, <3>3, <3>4, StillReleasesDecode
    <2>3. QED BY <2>1, <2>2
  <1>11. Quiets(mem, m)
    <2>1. Quiets(mem, d)
      BY <1>5, QuietsApart
    <2>2. QED BY <1>10, <2>1, QuietsTwice
  <1>12. Fine(mem', j) /\ Quiets(m, mem')
    <2>1. CASE m.slot = {}
      <3>1. mem' \in Finish(m, j, a)
        BY <1>3, <2>1 DEF Later
      <3>2. QED BY <1>1, <1>9, <1>10, <3>1, FinishFine
    <2>2. CASE m.slot # {}
      <3>1. mem' = Await(m, g)
        BY <1>3, <2>2 DEF Later
      <3>2. QED BY <1>10, <3>1, JoinWith
    <2>3. QED BY <2>1, <2>2
  <1>13. QED BY <1>11, <1>12, QuietsTwice

(* What a tail knows when it resumes.                                      *)
LEMMA TailKnows ==
    ASSUME NEW m, NEW k \in Jobs, NEW t, Sound(m), With(m, k, {t}), InTail(t)
    PROVE  /\ ~Allowed(m, k)
           /\ m.job[k].state = "failed" => t.at = "failing"
           /\ t.at = "failing" => m.job[k].state = "failed"
           /\ t.at \in {"done", "removing"} => m.job[k].state = "done"
           /\ t.at \in {"abandoning", "abandoned"} => m.job[k].state = "cancelled"
  <1> DEFINE T == Mine(m, k) \cup {t}
  <1>1. FineWith(m, k, T) /\ t \in T
    BY WithKnows
  <1> HIDE DEF T
  <1>2. QED BY <1>1 DEF FineWith, TailAlone, StateKnown

(* A tail that goes on.                                                    *)
LEMMA TailGoesFine ==
    ASSUME NEW m, NEW k \in Jobs, NEW t, Sound(m), With(m, k, {t}), InTail(t), t.at # "failing",
           NEW n, Apart(m, n, k), NEW u, InTail(u), u.job = k, n.threads = m.threads \cup {u},
           \/ n.job[k].state = m.job[k].state /\ n.job[k].file = m.job[k].file
           \/ /\ n.job[k].state \in {"saving", "recapping", "done", "failed"}
              /\ n.job[k].file \/ (m.job[k].state # "cancelled" /\ n.job[k].file = m.job[k].file),
           u.at = "failing" <=> n.job[k].state = "failed",
           u.at \in {"done", "removing"} => n.job[k].state = "done",
           u.at \in {"abandoning", "abandoned"} => n.job[k].state = "cancelled",
           n.job[k].vad = m.job[k].vad, n.pcm = m.pcm, ~Allowed(n, k),
           n.decoder = m.decoder, n.slot = m.slot, n.consumer = m.consumer
    PROVE  Fine(n, k) /\ Quiets(m, n)
  <1> DEFINE T == Mine(m, k) \cup {t}
  <1>1. FineWith(m, k, T) /\ (\A x \in T : x.job = k) /\ t \in T /\ T \ {t} = Mine(m, k)
    <2>1. FineWith(m, k, T) /\ \A x \in T : x.job = k
      BY WithKnows
    <2>2. t \notin m.threads
      BY DEF With
    <2>3. T \ {t} = Mine(m, k)
      BY <2>2 DEF Mine
    <2>4. QED BY <2>1, <2>3
  <1>2. m.job[k].state # "failed"
    BY TailKnows
  <1>3. n.pcm[k] = m.pcm[k] /\ n.made[k] = m.made[k] /\ n.decoder[k] = m.decoder[k]
        /\ (k \in n.slot <=> k \in m.slot) /\ (k \in n.consumer <=> k \in m.consumer)
        /\ (Queued(n, k) <=> Queued(m, k))
    BY DEF Apart, Queued
  <1> HIDE DEF T
  <1>4. FineWith(n, k, (T \ {t}) \cup {u})
    BY <1>1, <1>2, <1>3, TailMoved
  <1>5. Mine(n, k) = Mine(m, k) \cup {u}
    BY DEF Mine
  <1>6. Quiets(m, n)
    BY QuietsApart
  <1>7. QED BY <1>1, <1>4, <1>5, <1>6 DEF Fine

(* A tail that awaits without a change of its job.                         *)
LEMMA TailAwaitFine ==
    ASSUME NEW m, NEW k \in Jobs, NEW t, Sound(m), With(m, k, {t}), InTail(t), t.at # "failing",
           NEW at \in Tailing, at \in {"done", "removing"} => m.job[k].state = "done",
           at \in {"abandoning", "abandoned"} => m.job[k].state = "cancelled",
           NEW n, n = TailAwait(m, at, k)
    PROVE  Fine(n, k) /\ Quiets(m, n)
  <1> DEFINE u == Thread(at, k, 0)
  <1>0. at \in Points /\ at # "failing" /\ m \in Memories
    BY DEF Points, Tailing, Sound
  <1>1. u \in Threads /\ u.at = at /\ u.job = k
    BY <1>0, ThreadIs
  <1>2. n = Await(m, u)
    BY DEF TailAwait
  <1> HIDE DEF u
  <1>3. /\ Apart(m, n, k) /\ n.threads = m.threads \cup {u}
        /\ n.pcm = m.pcm /\ n.decoder = m.decoder /\ n.slot = m.slot /\ n.job = m.job
        /\ n.att = m.att /\ n.consumer = m.consumer
    BY <1>0, <1>1, <1>2, JoinIs
  <1>4. InTail(u)
    BY <1>1 DEF InTail
  <1>5. ~Allowed(n, k) /\ n.job[k].state # "failed"
    BY <1>3, TailKnows DEF Allowed
  <1>6. u.at # "failing"
    BY <1>0, <1>1
  <1>7. /\ u.at = "failing" <=> n.job[k].state = "failed"
        /\ u.at \in {"done", "removing"} => n.job[k].state = "done"
        /\ u.at \in {"abandoning", "abandoned"} => n.job[k].state = "cancelled"
        /\ n.job[k].vad = m.job[k].vad
        /\ n.job[k].state = m.job[k].state /\ n.job[k].file = m.job[k].file
    BY <1>1, <1>3, <1>5, <1>6
  <1> HIDE DEF Allowed
  <1>8. QED BY <1>1, <1>3, <1>4, <1>5, <1>7, TailGoesFine

(* A tail that saves a new state.                                          *)
LEMMA TailSaveFine ==
    ASSUME NEW m, NEW k \in Jobs, NEW t, Sound(m), With(m, k, {t}), InTail(t), t.at # "failing",
           NEW at \in Tailing, NEW s \in {"saving", "recapping", "done"},
           at \in {"done", "removing"} => s = "done", at \notin {"abandoning", "abandoned"},
           NEW q \in Memories, Apart(m, q, k), q.pcm = m.pcm, q.slot = m.slot, q.att = m.att,
           q.consumer = m.consumer, q.decoder = m.decoder, q.threads = m.threads,
           q.job[k].vad = m.job[k].vad,
           q.job[k].file \/ (m.job[k].state # "cancelled" /\ q.job[k].file = m.job[k].file),
           NEW n, n = TailSave(q, at, k, s)
    PROVE  Fine(n, k) /\ Quiets(m, n)
  <1> DEFINE v == Thread(at, k, 0)
             r == [q.job[k] EXCEPT !.state = s]
             d == [q EXCEPT !.job[k] = r]
             u == Saving(d, v)
  <1>0. at \in Points /\ at # "failing" /\ q.job[k] \in JobRecords
    BY DEF Points, Tailing, Memories
  <1>1. n = Await(d, u)
    BY DEF TailSave, Save, Saving, d, r, u, v
  <1>2. v \in Threads /\ v.at = at /\ v.job = k
    BY <1>0, ThreadIs
  <1> HIDE DEF v
  <1>3. r \in JobRecords /\ r.state = s /\ r.vad = q.job[k].vad /\ r.file = q.job[k].file
    BY <1>0 DEF JobRecords, JobStates
  <1> HIDE DEF r
  <1>4. /\ d \in Memories /\ Apart(q, d, k) /\ d.job[k] = r
        /\ d.pcm = q.pcm /\ d.slot = q.slot /\ d.consumer = q.consumer /\ d.att = q.att
        /\ d.decoder = q.decoder /\ d.threads = q.threads
    BY <1>3, JobSet
  <1> HIDE DEF d
  <1>5. u \in Threads /\ u.at = at /\ u.job = k
    BY <1>2, <1>4, SavingIs
  <1> HIDE DEF u
  <1>6. /\ Apart(d, n, k) /\ n.threads = d.threads \cup {u}
        /\ n.pcm = d.pcm /\ n.decoder = d.decoder /\ n.slot = d.slot /\ n.job = d.job
        /\ n.att = d.att /\ n.consumer = d.consumer
    BY <1>1, <1>4, <1>5, JoinIs
  <1>7. Apart(m, n, k)
    <2>1. Apart(m, d, k)
      BY <1>4, ApartTwice
    <2>2. QED BY <1>6, <2>1, ApartTwice
  <1>8. InTail(u)
    BY <1>5 DEF InTail
  <1>9. ~Allowed(n, k)
    BY <1>4, <1>6, TailKnows DEF Allowed
  <1>10. /\ n.threads = m.threads \cup {u} /\ n.pcm = m.pcm /\ n.decoder = m.decoder
         /\ n.slot = m.slot /\ n.consumer = m.consumer /\ n.job[k] = r
    BY <1>4, <1>6
  <1>11. /\ n.job[k].state = s /\ n.job[k].vad = m.job[k].vad
         /\ n.job[k].file \/ (m.job[k].state # "cancelled" /\ n.job[k].file = m.job[k].file)
    BY <1>3, <1>10
  <1>12. /\ u.at = "failing" <=> n.job[k].state = "failed"
         /\ u.at \in {"done", "removing"} => n.job[k].state = "done"
         /\ u.at \in {"abandoning", "abandoned"} => n.job[k].state = "cancelled"
         /\ n.job[k].state \in {"saving", "recapping", "done", "failed"}
    BY <1>0, <1>5, <1>11
  <1>13. QED BY <1>5, <1>7, <1>8, <1>9, <1>10, <1>11, <1>12, TailGoesFine

(* A tail that fails.                                                      *)
LEMMA TailFailsFine ==
    ASSUME NEW m, NEW k \in Jobs, NEW t, Sound(m), build \in Nat, With(m, k, {t}), InTail(t),
           t.at # "failing", NEW n, n \in TailFails(m, k)
    PROVE  Fine(n, k) /\ Quiets(m, n)
  <1>1. CASE m.job[k].state = "cancelled"
    <2>1. n \in TailEnds(m, k)
      BY <1>1 DEF TailFails
    <2>2. QED BY <1>1, <2>1, TailEndsFine
  <1>2. CASE m.job[k].state # "cancelled"
    <2>1. n = Fail(m, k, "other", "tail")
      BY <1>2 DEF TailFails
    <2>2. "tail" \in Awaiters /\ "other" \in Errors /\ m \in Memories
      BY DEF Awaiters, Errors, Sound
    <2>3. /\ Apart(m, n, k)
          /\ n.job[k].state = "failed" /\ n.job[k].vad = m.job[k].vad /\ n.job[k].file = m.job[k].file
          /\ ~Allowed(n, k)
          /\ n.pcm = m.pcm /\ n.slot = m.slot /\ n.consumer = m.consumer /\ n.decoder = m.decoder
          /\ \E u \in Threads : /\ u.at = "failing" /\ u.job = k /\ u.att = m.att[k].id
                                /\ u.then = "tail" /\ n.threads = m.threads \cup {u}
      BY <2>1, <2>2, FailView
    <2>4. PICK u \in Threads : /\ u.at = "failing" /\ u.job = k /\ u.then = "tail"
                               /\ n.threads = m.threads \cup {u}
      BY <2>3
    <2>5. InTail(u)
      BY <2>4 DEF InTail
    <2>6. /\ u.at = "failing" <=> n.job[k].state = "failed"
          /\ u.at \in {"done", "removing"} => n.job[k].state = "done"
          /\ u.at \in {"abandoning", "abandoned"} => n.job[k].state = "cancelled"
      BY <2>3, <2>4
    <2>7. QED BY <1>2, <2>3, <2>4, <2>5, <2>6, TailGoesFine
  <1>3. QED BY <1>1, <1>2

(* Whether it has a file says nothing of a cancelled job.                  *)
LEMMA FileIsFine ==
    ASSUME NEW m, NEW n, NEW k, NEW T, FineWith(m, k, T), \A t \in T : t.job = k,
           m.job[k].state = "cancelled", n.job[k].state = "cancelled", n.job[k].vad = m.job[k].vad,
           n.pcm[k] = m.pcm[k], n.att[k] = m.att[k], n.made[k] = m.made[k],
           n.decoder[k] = m.decoder[k],
           k \in n.slot <=> k \in m.slot, k \in n.consumer <=> k \in m.consumer,
           Queued(n, k) <=> Queued(m, k)
    PROVE  FineWith(n, k, T)
  <1>0. /\ Allowed(n, k) <=> Allowed(m, k)
        /\ Idles(n, k) <=> Idles(m, k)
        /\ \A t \in T : Starts(n, t) <=> Starts(m, t)
    BY DEF Allowed, Idles, Starts
  <1>1. AttemptServed(n, k, T)
    BY <1>0 DEF FineWith, AttemptServed
  <1>2. AudioHeld(n, k, T)
    BY <1>0 DEF FineWith, AudioHeld
  <1>3. OneWorker(n, k, T)
    BY <1>0 DEF FineWith, OneWorker
  <1>4. DecoderKnown(n, k, T)
    BY <1>0 DEF FineWith, DecoderKnown
  <1>5. StateKnown(n, k, T)
    BY DEF FineWith, StateKnown
  <1>6. TailAlone(n, k, T)
    BY <1>0 DEF FineWith, TailAlone
  <1>7. QED BY <1>1, <1>2, <1>3, <1>4, <1>5, <1>6 DEF FineWith

(* The meeting is saved.                                                   *)
LEMMA MeetingSavedFine ==
    ASSUME Orderly, NEW t \in mem.threads, MeetingSaved(t), Fine(mem, t.job)
    PROVE  Fine(mem', t.job) /\ Quiets(mem, mem')
  <1> DEFINE w == Woken(t)
             r == [w.job[t.job] EXCEPT !.file = TRUE]
             q == [w EXCEPT !.job[t.job] = r]
  <1>1. /\ t.job \in Jobs /\ Sound(w) /\ With(w, t.job, {t}) /\ w \in Memories
        /\ \A n : Quiets(w, n) => Quiets(mem, n)
    BY Resumes DEF Sound
  <1>2. t.at = "saveMeeting" /\ mem' = TailSave(q, "saved", t.job, "saving")
    BY DEF MeetingSaved, q, r, w
  <1>3. w.job[t.job] \in JobRecords
    BY <1>1, PartsOf
  <1> HIDE DEF w
  <1>4. r \in JobRecords /\ r.file /\ r.vad = w.job[t.job].vad
    BY <1>3 DEF JobRecords
  <1> HIDE DEF r
  <1>5. /\ q \in Memories /\ Apart(w, q, t.job) /\ q.job[t.job] = r
        /\ q.pcm = w.pcm /\ q.slot = w.slot /\ q.consumer = w.consumer /\ q.att = w.att
        /\ q.decoder = w.decoder /\ q.threads = w.threads
    BY <1>1, <1>4, JobSet
  <1> HIDE DEF q
  <1>6. InTail(t) /\ t.at # "failing" /\ "saved" \in Tailing
    BY <1>2 DEF InTail, Tailing
  <1>7. q.job[t.job].vad = w.job[t.job].vad /\ q.job[t.job].file
    BY <1>4, <1>5
  <1>8. Fine(mem', t.job) /\ Quiets(w, mem')
    BY <1>1, <1>2, <1>5, <1>6, <1>7, TailSaveFine
  <1>9. QED BY <1>1, <1>8

(* A tail that looks whether it was cancelled.                             *)
LEMMA UnlessFine ==
    ASSUME NEW m, NEW k \in Jobs, NEW t, Sound(m), With(m, k, {t}), InTail(t), t.at # "failing",
           NEW o, m.job[k].state # "cancelled" => Fine(o, k) /\ Quiets(m, o),
           NEW n, n = UnlessCancelled(m, k, o)
    PROVE  Fine(n, k) /\ Quiets(m, n)
  <1>1. CASE m.job[k].state = "cancelled"
    <2>1. n = TailAwait(m, "abandoning", k) /\ "abandoning" \in Tailing
      BY <1>1 DEF UnlessCancelled, Tailing
    <2>2. QED BY <1>1, <2>1, TailAwaitFine
  <1>2. CASE m.job[k].state # "cancelled"
    BY <1>2 DEF UnlessCancelled
  <1>3. QED BY <1>1, <1>2

(* A tail that saves a new state, unless it was cancelled.                 *)
LEMMA TailSavesFine ==
    ASSUME NEW m, NEW k \in Jobs, NEW t, Sound(m), With(m, k, {t}), InTail(t), t.at # "failing",
           NEW at \in Tailing, NEW s \in {"saving", "recapping", "done"},
           at \in {"done", "removing"} => s = "done", at \notin {"abandoning", "abandoned"},
           NEW n, n = UnlessCancelled(m, k, TailSave(m, at, k, s))
    PROVE  Fine(n, k) /\ Quiets(m, n)
  <1>1. ASSUME m.job[k].state # "cancelled"
        PROVE  LET o == TailSave(m, at, k, s) IN Fine(o, k) /\ Quiets(m, o)
    <2>1. m \in Memories /\ Apart(m, m, k)
      BY DEF Sound, Apart
    <2>2. QED BY <1>1, <2>1, TailSaveFine
  <1>2. QED BY <1>1, UnlessFine

(* A tail that resumes after one of its checkpoint writes.                 *)
LEMMA CheckpointSavedFine ==
    ASSUME Orderly, NEW t \in mem.threads, CheckpointSaved(t), Fine(mem, t.job)
    PROVE  Fine(mem', t.job) /\ Quiets(mem, mem')
  <1> DEFINE w == Woken(t)
  <1>1. /\ t.job \in Jobs /\ Sound(w) /\ With(w, t.job, {t})
        /\ \A n : Quiets(w, n) => Quiets(mem, n)
    BY Resumes
  <1>2. /\ t.at \in {"saved", "recapping", "done"}
        /\ t.at = "saved" =>
              mem' = UnlessCancelled(w, t.job, TailSave(w, "recapping", t.job, "recapping"))
        /\ t.at = "recapping" => mem' = TailAwait(w, "recap", t.job)
        /\ t.at = "done" => mem' = TailAwait(w, "removing", t.job)
    BY DEF CheckpointSaved
  <1> HIDE DEF w
  <1>3. {"recapping", "recap", "removing"} \subseteq Tailing
    BY DEF Tailing
  <1>4. InTail(t) /\ t.at # "failing"
    BY <1>2 DEF InTail, Tailing
  <1>5. CASE t.at = "saved"
    <2>1. Fine(mem', t.job) /\ Quiets(w, mem')
      BY <1>1, <1>2, <1>3, <1>4, <1>5, TailSavesFine
    <2>2. QED BY <1>1, <2>1
  <1>6. CASE t.at = "recapping"
    <2>1. Fine(mem', t.job) /\ Quiets(w, mem')
      BY <1>1, <1>2, <1>3, <1>4, <1>6, TailAwaitFine
    <2>2. QED BY <1>1, <2>1
  <1>7. CASE t.at = "done"
    <2>1. w.job[t.job].state = "done"
      BY <1>1, <1>4, <1>7, TailKnows
    <2>2. Fine(mem', t.job) /\ Quiets(w, mem')
      BY <1>1, <1>2, <1>3, <1>4, <1>7, <2>1, TailAwaitFine
    <2>3. QED BY <1>1, <2>2
  <1>8. QED BY <1>2, <1>5, <1>6, <1>7

(* A tail that resumes after the recap or after the ingest.                *)
LEMMA RecappedFine ==
    ASSUME Orderly, NEW t \in mem.threads, Recapped(t) \/ Ingested(t), Fine(mem, t.job)
    PROVE  Fine(mem', t.job) /\ Quiets(mem, mem')
  <1> DEFINE w == Woken(t)
  <1>1. /\ t.job \in Jobs /\ Sound(w) /\ With(w, t.job, {t})
        /\ \A n : Quiets(w, n) => Quiets(mem, n)
    BY Resumes
  <1>2. \/ t.at = "recap" /\ mem' = UnlessCancelled(w, t.job, TailAwait(w, "ingest", t.job))
        \/ t.at = "ingest" /\ mem' = UnlessCancelled(w, t.job, TailSave(w, "done", t.job, "done"))
    BY DEF Recapped, Ingested
  <1> HIDE DEF w
  <1>3. {"ingest", "done"} \subseteq Tailing
    BY DEF Tailing
  <1>4. InTail(t) /\ t.at # "failing"
    BY <1>2 DEF InTail, Tailing
  <1>5. CASE mem' = UnlessCancelled(w, t.job, TailAwait(w, "ingest", t.job))
    <2> DEFINE o == TailAwait(w, "ingest", t.job)
    <2>1. Fine(o, t.job) /\ Quiets(w, o)
      BY <1>1, <1>3, <1>4, TailAwaitFine
    <2> HIDE DEF o
    <2>2. mem' = UnlessCancelled(w, t.job, o)
      BY <1>5 DEF o
    <2>3. Fine(mem', t.job) /\ Quiets(w, mem')
      BY <1>1, <1>4, <2>1, <2>2, UnlessFine
    <2>4. QED BY <1>1, <2>3
  <1>6. CASE mem' = UnlessCancelled(w, t.job, TailSave(w, "done", t.job, "done"))
    <2>1. Fine(mem', t.job) /\ Quiets(w, mem')
      BY <1>1, <1>3, <1>4, <1>6, TailSavesFine
    <2>2. QED BY <1>1, <2>1
  <1>7. QED BY <1>2, <1>5, <1>6

(* The meeting of a cancelled import is deleted.                           *)
LEMMA FileDeletedFine ==
    ASSUME Orderly, NEW t \in mem.threads, FileDeleted(t), Fine(mem, t.job)
    PROVE  Fine(mem', t.job) /\ Quiets(mem, mem')
  <1> DEFINE w == Woken(t)
  <1>1. /\ t.job \in Jobs /\ Sound(w) /\ With(w, t.job, {t})
        /\ \A n : Quiets(w, n) => Quiets(mem, n)
    BY Resumes
  <1>2. t.at = "abandoning" /\ mem' = TailAwait(w, "abandoned", t.job)
    BY DEF FileDeleted
  <1> HIDE DEF w
  <1>3. InTail(t) /\ t.at # "failing" /\ "abandoned" \in Tailing
    BY <1>2 DEF InTail, Tailing
  <1>4. w.job[t.job].state = "cancelled"
    BY <1>1, <1>2, <1>3, TailKnows
  <1>5. Fine(mem', t.job) /\ Quiets(w, mem')
    BY <1>1, <1>2, <1>3, <1>4, TailAwaitFine
  <1>6. QED BY <1>1, <1>5

(* The tail of a finished import ends.                                     *)
LEMMA CheckpointRemovedFine ==
    ASSUME Orderly, NEW t \in mem.threads, CheckpointRemoved(t), Fine(mem, t.job)
    PROVE  Fine(mem', t.job) /\ Quiets(mem, mem')
  <1> DEFINE w == Woken(t)
  <1>1. /\ t.job \in Jobs /\ Sound(w) /\ With(w, t.job, {t}) /\ build \in Nat
        /\ \A n : Quiets(w, n) => Quiets(mem, n)
    BY Resumes
  <1>2. t.at = "removing" /\ mem' \in TailEnds(w, t.job)
    BY DEF CheckpointRemoved
  <1> HIDE DEF w
  <1>3. InTail(t)
    BY <1>2 DEF InTail, Tailing
  <1>4. w.job[t.job].state = "done"
    BY <1>1, <1>2, <1>3, TailKnows
  <1>5. Fine(mem', t.job) /\ Quiets(w, mem')
    BY <1>1, <1>2, <1>3, <1>4, TailEndsFine
  <1>6. QED BY <1>1, <1>5

(* The tail of a cancelled import ends.                                    *)
LEMMA AbandonedFine ==
    ASSUME Orderly, NEW t \in mem.threads, Abandoned(t), Fine(mem, t.job)
    PROVE  Fine(mem', t.job) /\ Quiets(mem, mem')
  <1> DEFINE w == Woken(t)
             k == t.job
             r == [w.job[k] EXCEPT !.file = FALSE]
             q == [w EXCEPT !.job[k] = r]
             T == Mine(w, k) \cup {t}
  <1>1. /\ k \in Jobs /\ Sound(w) /\ With(w, k, {t}) /\ w \in Memories /\ build \in Nat
        /\ k \in Known(w) /\ \A n : Quiets(w, n) => Quiets(mem, n)
    BY Resumes DEF Sound
  <1>2. t.at = "abandoned" /\ mem' \in TailEnds(q, k)
    BY DEF Abandoned, q, r, w, k
  <1>3. w.job[k] \in JobRecords
    BY <1>1, PartsOf
  <1> HIDE DEF w, k
  <1>4. r \in JobRecords /\ r.state = w.job[k].state /\ r.vad = w.job[k].vad
    BY <1>3 DEF JobRecords
  <1> HIDE DEF r
  <1>5. InTail(t)
    BY <1>2 DEF InTail, Tailing
  <1>6. w.job[k].state = "cancelled" /\ ~Allowed(w, k)
    BY <1>1, <1>2, <1>5, TailKnows
  <1>7. /\ q \in Memories /\ Apart(w, q, k) /\ q.job[k] = r
        /\ q.queue = w.queue /\ q.pcm = w.pcm /\ q.slot = w.slot /\ q.consumer = w.consumer
        /\ q.att = w.att /\ q.made = w.made
        /\ q.decoder = w.decoder /\ q.threads = w.threads
    BY <1>1, <1>4, JobSet
  <1>8. Sound(q)
    BY <1>1, <1>4, <1>6, JobMoves DEF Moves
  <1> HIDE DEF q
  <1>9. FineWith(w, k, T) /\ \A x \in T : x.job = k
    BY <1>1, WithKnows
  <1>10. FineWith(q, k, T)
    <2>1. Queued(q, k) <=> Queued(w, k)
      BY <1>7 DEF Queued
    <2> HIDE DEF T
    <2>2. QED BY <1>4, <1>6, <1>7, <1>9, <2>1, FileIsFine
  <1>11. With(q, k, {t})
    <2>1. Mine(q, k) = Mine(w, k)
      BY <1>7 DEF Mine
    <2>2. QED BY <1>1, <1>7, <1>10, <2>1, CrewStays
  <1>12. q.job[k].state = "cancelled"
    BY <1>4, <1>6, <1>7
  <1>13. Fine(mem', k) /\ Quiets(q, mem')
    BY <1>1, <1>2, <1>5, <1>8, <1>11, <1>12, TailEndsFine
  <1>14. Quiets(w, q)
    BY <1>7, <1>12, QuietsApart
  <1>15. Quiets(w, mem')
    BY <1>13, <1>14, QuietsTwice
  <1>16. QED BY <1>1, <1>13, <1>15 DEF k

(* A tail throws.                                                          *)
LEMMA TailThrowsFine ==
    ASSUME Orderly, NEW t \in mem.threads, TailThrows(t) \/ TailWriteFails(t), Fine(mem, t.job)
    PROVE  Fine(mem', t.job) /\ Quiets(mem, mem')
  <1> DEFINE w == Woken(t)
  <1>1. /\ t.job \in Jobs /\ Sound(w) /\ With(w, t.job, {t}) /\ build \in Nat
        /\ \A n : Quiets(w, n) => Quiets(mem, n)
    BY Resumes
  <1>2. \/ /\ t.at \in {"saveMeeting", "ingest", "saved", "recapping", "done"}
           /\ mem' \in TailFails(w, t.job)
        \/ /\ t.at = "failing" /\ t.then = "tail"
           /\ mem' \in TailEnds(w, t.job)
    BY DEF TailThrows, TailWriteFails
  <1> HIDE DEF w
  <1>3. InTail(t)
    BY <1>2 DEF InTail, Tailing
  <1>4. CASE t.at # "failing"
    <2>1. mem' \in TailFails(w, t.job)
      BY <1>2, <1>4
    <2>2. Fine(mem', t.job) /\ Quiets(w, mem')
      BY <1>1, <1>3, <1>4, <2>1, TailFailsFine
    <2>3. QED BY <1>1, <2>2
  <1>5. CASE t.at = "failing"
    <2>1. mem' \in TailEnds(w, t.job)
      BY <1>2, <1>5
    <2>2. w.job[t.job].state = "failed"
      BY <1>1, <1>3, <1>5, TailKnows
    <2>3. Fine(mem', t.job) /\ Quiets(w, mem')
      BY <1>1, <1>3, <2>1, <2>2, TailEndsFine
    <2>4. QED BY <1>1, <2>3
  <1>6. QED BY <1>4, <1>5

-----------------------------------------------------------------------------
(* The pump after its claim.                                               *)

(* A thread that joins those of its job.                                   *)
LEMMA JoinFine ==
    ASSUME NEW m, NEW k \in Jobs, NEW u \in Threads, u.job = k, Sound(m),
           FineWith(m, k, Mine(m, k) \cup {u})
    PROVE  Fine(Await(m, u), k) /\ Quiets(m, Await(m, u))
  <1> DEFINE n == Await(m, u)
             T == Mine(m, k) \cup {u}
  <1>0. m \in Memories
    BY DEF Sound
  <1>1. /\ n.threads = m.threads \cup {u} /\ Apart(m, n, k)
        /\ n.queue = m.queue /\ n.pcm = m.pcm /\ n.decoder = m.decoder
        /\ n.slot = m.slot /\ n.job = m.job /\ n.made = m.made
        /\ n.att = m.att /\ n.consumer = m.consumer
    BY <1>0, JoinIs
  <1> HIDE DEF n
  <1>2. Mine(n, k) = T /\ \A t \in T : t.job = k
    BY <1>1 DEF Mine
  <1>3. Queued(n, k) <=> Queued(m, k)
    BY <1>1 DEF Queued
  <1>4. FineWith(m, k, T)
    OBVIOUS
  <1> HIDE DEF T
  <1>5. FineWith(n, k, T)
    BY <1>1, <1>2, <1>3, <1>4, SameIsFineWith
  <1>6. Quiets(m, n)
    BY <1>1, QuietsApart
  <1>7. QED BY <1>2, <1>5, <1>6 DEF Fine, n

(* What a thread that resumes leaves.                                      *)
LEMMA RestOfMine ==
    ASSUME NEW m, NEW k \in Jobs, NEW t, Sound(m), With(m, k, {t})
    PROVE  LET T == Mine(m, k) \cup {t} IN
           /\ FineWith(m, k, T) /\ (\A x \in T : x.job = k) /\ t \in T /\ T \ {t} = Mine(m, k)
           /\ Mine(m, k) \in SUBSET T /\ t \in Threads
  <1> DEFINE T == Mine(m, k) \cup {t}
  <1>1. FineWith(m, k, T) /\ (\A x \in T : x.job = k) /\ t \in Threads
    BY WithKnows
  <1>2. t \notin m.threads
    BY DEF With
  <1>3. T \ {t} = Mine(m, k) /\ Mine(m, k) \in SUBSET T /\ t \in T
    BY <1>2 DEF Mine
  <1>4. QED BY <1>1, <1>3

(* An admission whose attempt has been stopped.                            *)
LEMMA StarterGone ==
    ASSUME NEW m, NEW k \in Jobs, NEW t, Sound(m), build \in Nat, With(m, k, {t}), t.at \in Starting,
           ~Accepts(m, k, t.att), NEW n, n \in Pumped(m)
    PROVE  Fine(n, k) /\ Quiets(m, n)
  <1> DEFINE T == Mine(m, k) \cup {t}
  <1>1. FineWith(m, k, T) /\ (\A x \in T : x.job = k) /\ t \in T /\ T \ {t} = Mine(m, k)
    BY RestOfMine
  <1> HIDE DEF T
  <1>2. Starts(m, t) => ~m.att[k].accepting
    <2>1. SUFFICES ASSUME Starts(m, t), m.att[k].accepting PROVE FALSE
      OBVIOUS
    <2>2. t.att = m.made[k] /\ t.att > 0
      BY <1>1, <2>1 DEF FineWith, OneWorker, Starts
    <2>3. m.att[k].id = m.made[k]
      BY <2>1, PartsOf DEF Allowed
    <2>4. QED BY <2>1, <2>2, <2>3 DEF Accepts
  <1>3. t.at # "threw"
    BY DEF Starting
  <1>4. FineWith(m, k, T \ {t})
    BY <1>1, <1>2, <1>3, IdlerGone
  <1>5. With(m, k, {})
    BY <1>1, <1>4, WithNone DEF Fine
  <1>6. With(n, k, {}) /\ Quiets(m, n)
    BY <1>5, PumpWith
  <1>7. QED BY <1>6, WithNone

(* What an admission knows whose attempt goes on.                          *)
LEMMA StarterKnows ==
    ASSUME NEW m, NEW k \in Jobs, NEW t, Sound(m), With(m, k, {t}), t.at \in Starting,
           Accepts(m, k, t.att)
    PROVE  /\ Allowed(m, k) /\ Starts(m, t) /\ k \in m.slot /\ k \notin m.consumer
           /\ t.att \in Nat
           /\ \A x \in Mine(m, k) : ~Works(x) /\ ~Leads(x) /\ ~InTail(x)
           /\ m.decoder[k].att # t.att
           /\ m.decoder[k].att > 0 => m.decoder[k].busy
           /\ \A d \in {m.decoder[k].att} : d > 0 =>
                 \E x \in Mine(m, k) : /\ InChunk(x) \/ InRefusal(x) \/ x.at = "threw"
                                       /\ x.att = d
  <1> DEFINE T == Mine(m, k) \cup {t}
  <1>1. FineWith(m, k, T) /\ (\A x \in T : x.job = k) /\ t \in T /\ T \ {t} = Mine(m, k)
        /\ t \in Threads
    BY RestOfMine
  <1>2. t.att \in Nat
    BY <1>1 DEF Threads
  <1>3. Allowed(m, k) /\ t.att = m.made[k]
    BY <1>2, GoesOn
  <1>4. Starts(m, t)
    BY <1>1, <1>3 DEF Starts
  <1>5. k \in m.slot
    BY DEF Accepts, Sound
  <1> HIDE DEF T
  <1>6. /\ \A u \in T : ~Works(u) /\ ~InTail(u)
        /\ m.decoder[k].att # t.att
    BY <1>1, <1>4 DEF FineWith, OneWorker
  <1>7. k \notin m.consumer
    <2>1. \A x \in T : ~Holds(x)
      BY <1>6 DEF Works
    <2>2. QED BY <1>1, <2>1 DEF FineWith, AudioHeld
  <1>8. ~Idles(m, k)
    <2>1. m.made[k] = t.att
      BY <1>3
    <2>2. QED BY <1>1, <1>6, <2>1 DEF FineWith, DecoderKnown
  <1>9. m.decoder[k].att > 0 => m.decoder[k].busy
    BY <1>8 DEF Idles
  <1>10. m.decoder[k].att > 0 =>
            \E x \in T : /\ InChunk(x) \/ InRefusal(x) \/ x.at = "threw"
                         /\ x.att = m.decoder[k].att
    BY <1>1, <1>9 DEF FineWith, DecoderKnown
  <1>11. ~(InChunk(t) \/ InRefusal(t) \/ t.at = "threw")
    BY DEF InChunk, InRefusal, Starting, Chunking
  <1>12. \A x \in Mine(m, k) : ~Works(x) /\ ~Leads(x) /\ ~InTail(x)
    <2>1. \A x \in Mine(m, k) : ~Works(x) /\ ~InTail(x)
      BY <1>1, <1>6
    <2>2. \A x : ~Works(x) => ~Leads(x)
      BY DEF Works, Leads, Holds
    <2>3. QED BY <2>1, <2>2
  <1>13. m.decoder[k].att > 0 =>
            \E x \in Mine(m, k) : /\ InChunk(x) \/ InRefusal(x) \/ x.at = "threw"
                                  /\ x.att = m.decoder[k].att
    <2>1. \A x \in T : x = t \/ x \in Mine(m, k)
      BY <1>1
    <2>2. QED BY <1>10, <1>11, <2>1
  <1>14. QED BY <1>2, <1>3, <1>4, <1>5, <1>6, <1>7, <1>9, <1>12, <1>13

(* An admission that fails its attempt.                                    *)
LEMMA AdmissionFails ==
    ASSUME NEW m, NEW k \in Jobs, NEW t, Sound(m), With(m, k, {t}), t.at \in Starting,
           Accepts(m, k, t.att), NEW e \in Errors, NEW n, n = Fail(m, k, e, "none")
    PROVE  Fine(n, k) /\ Quiets(m, n)
  <1> DEFINE R == Mine(m, k)
             T == Mine(m, k) \cup {t}
  <1>1. "none" \in Awaiters /\ m \in Memories
    BY DEF Awaiters, Sound
  <1>2. /\ Apart(m, n, k) /\ n.made = m.made /\ n.queue = m.queue
        /\ n.job[k].state = "failed" /\ n.job[k].vad = m.job[k].vad /\ ~Allowed(n, k)
        /\ n.att[k].id = m.att[k].id
        /\ n.pcm = m.pcm /\ n.slot = m.slot /\ n.consumer = m.consumer /\ n.decoder = m.decoder
        /\ \E u \in Threads : /\ u.at = "failing" /\ u.job = k /\ u.att = m.att[k].id
                              /\ u.then = "none" /\ n.threads = m.threads \cup {u}
    BY <1>1, FailView
  <1>3. PICK u \in Threads : /\ u.at = "failing" /\ u.job = k /\ u.then = "none"
                             /\ n.threads = m.threads \cup {u}
    BY <1>2
  <1>4. ~InTail(u) /\ ~Works(u) /\ ~Holds(u) /\ ~InConsume(u) /\ ~InChunk(u) /\ ~Leads(u)
    BY <1>3, PlainFailure
  <1>5. FineWith(m, k, T) /\ (\A x \in T : x.job = k) /\ R \in SUBSET T
    BY RestOfMine
  <1>6. /\ Allowed(m, k) /\ k \notin m.consumer
        /\ \A x \in R : ~Works(x) /\ ~Leads(x)
        /\ m.decoder[k].att > 0 => m.decoder[k].busy
        /\ \A d \in {m.decoder[k].att} : d > 0 =>
              \E x \in R : /\ InChunk(x) \/ InRefusal(x) \/ x.at = "threw"
                           /\ x.att = d
    BY StarterKnows
  <1>7. Mine(n, k) = R \cup {u}
    BY <1>3 DEF Mine
  <1>8. m.decoder[k].att \in Nat
    BY PartsOf
  <1> HIDE DEF R, T
  <1>9. FineWith(n, k, R \cup {u})
    <2>1. /\ n.pcm[k] = m.pcm[k] /\ n.made[k] = m.made[k]
          /\ (k \in n.slot <=> k \in m.slot) /\ (k \in n.consumer <=> k \in m.consumer)
          /\ (Queued(n, k) <=> Queued(m, k)) /\ n.decoder[k] = m.decoder[k]
      BY <1>2 DEF Queued
    <2>2. k \notin n.consumer
      BY <2>1, <1>6
    <2>3. /\ Works(u) => u.att = m.made[k] /\ u.att > 0 /\ \A x \in R : ~Works(x) /\ ~Starts(m, x)
          /\ Holds(u) => k \in n.slot /\ k \in n.consumer /\ u.att = n.att[k].id
          /\ InConsume(u) => m.pcm[k] = 0
          /\ k \in n.consumer => \E x \in R \cup {u} : Holds(x)
      BY <1>4, <2>2
    <2>4. n.decoder[k].att > 0 =>
             \E x \in R \cup {u} : /\ InChunk(x) \/ InRefusal(x) \/ x.at = "threw"
                                   /\ x.att = n.decoder[k].att
      BY <1>6, <2>1
    <2>5. /\ \A x \in R : ~Works(x)
          /\ n.decoder[k].busy \/ n.decoder[k].att = 0
          /\ InChunk(u) => n.decoder[k].att \in {0, u.att}
          /\ Leads(u) => n.decoder[k].att = 0
          /\ n.decoder[k].att = m.decoder[k].att
      BY <1>4, <1>6, <1>8, <2>1
    <2>6. \A x \in R : ~Leads(x)
      BY <1>6
    <2>7. QED BY <1>2, <1>3, <1>4, <1>5, <1>6, <1>8, <2>1, <2>3, <2>4, <2>5, <2>6, FailedIsFine
  <1>10. Quiets(m, n)
    BY <1>2, QuietsApart
  <1>11. QED BY <1>7, <1>9, <1>10 DEF Fine

(* The claim has been written.                                             *)
LEMMA ClaimSavedFine ==
    ASSUME Orderly, NEW t \in mem.threads, ClaimSaved(t), Fine(mem, t.job)
    PROVE  Fine(mem', t.job) /\ Quiets(mem, mem')
  <1> DEFINE w == Woken(t)
             k == t.job
             u == Thread("policy", k, t.att)
             T == Mine(w, k) \cup {t}
  <1>1. /\ k \in Jobs /\ Sound(w) /\ With(w, k, {t}) /\ build \in Nat /\ t.att \in Nat
        /\ w.att = mem.att /\ \A n : Quiets(w, n) => Quiets(mem, n)
    BY Resumes
  <1>2. /\ t.at = "claimed"
        /\ Accepts(mem, k, t.att) => mem' = Await(w, u)
        /\ ~Accepts(mem, k, t.att) => mem' \in Pumped(w)
    BY DEF ClaimSaved
  <1>3. Accepts(mem, k, t.att) <=> Accepts(w, k, t.att)
    BY <1>1 DEF Accepts
  <1> HIDE DEF w, k
  <1>4. t.at \in Starting
    BY <1>2 DEF Starting
  <1>5. CASE Accepts(mem, k, t.att)
    <2>1. "policy" \in Points /\ "policy" \in Starting
      BY DEF Points, Starting
    <2>2. u \in Threads /\ u.at = "policy" /\ u.job = k /\ u.att = t.att
      BY <1>1, <2>1, ThreadIs
    <2> HIDE DEF u
    <2>3. FineWith(w, k, T) /\ t \in T /\ T \ {t} = Mine(w, k) /\ t.job = k
      <3>1. /\ FineWith(w, k, T) /\ (\A x \in T : x.job = k) /\ t \in T /\ T \ {t} = Mine(w, k)
        BY <1>1, RestOfMine
      <3>2. QED BY <3>1
    <2> HIDE DEF T
    <2>4. FineWith(w, k, (T \ {t}) \cup {u})
      BY <1>4, <2>1, <2>2, <2>3, StartMoved
    <2>5. Fine(mem', k) /\ Quiets(w, mem')
      BY <1>1, <1>2, <1>5, <2>2, <2>3, <2>4, JoinFine
    <2>6. QED BY <1>1, <2>5 DEF k
  <1>6. CASE ~Accepts(mem, k, t.att)
    <2>1. Fine(mem', k) /\ Quiets(w, mem')
      BY <1>1, <1>2, <1>3, <1>4, <1>6, StarterGone
    <2>2. QED BY <1>1, <2>1 DEF k
  <1>7. QED BY <1>5, <1>6

(* The decoder of an admitted job, and what it makes of the others.        *)
LEMMA DecodeIs ==
    ASSUME NEW m, NEW k \in Jobs, NEW a \in Nat, Sound(m)
    PROVE  LET n == Decode(m, k, a) IN
           \/ \E e \in Errors : n = Fail(m, k, e, "none")
           \/ /\ n.queue = m.queue /\ n.pcm = m.pcm /\ n.slot = m.slot
              /\ n.consumer = m.consumer /\ n.job = m.job /\ n.made = m.made
              /\ n.att = m.att /\ n.threads = m.threads
              /\ n.decoder[k].att = a /\ ~n.decoder[k].busy
              /\ m.job[k].vad => n.decoder[k].next = 0
              /\ \A j \in Jobs \ {k} : n.decoder[j] = NoDecoder
  <1>1. CASE Decoding(m) \ Stale(m, k) # {}
    <2>1. PICK e \in Errors : Decode(m, k, a) = Fail(m, k, e, "none")
      BY <1>1 DEF Decode, Errors
    <2>2. QED BY <2>1
  <1>2. CASE Decoding(m) \ Stale(m, k) = {}
    <2> DEFINE D == [j \in Jobs |->
                       IF j = k THEN [att |-> a, busy |-> FALSE,
                                      next |-> IF m.job[k].vad THEN 0 ELSE m.job[k].cursor]
                       ELSE NoDecoder]
               n == [m EXCEPT !.decoder = D]
    <2>1. Decode(m, k, a) = n
      BY <1>2 DEF Decode
    <2>2. m \in Memories
      BY DEF Sound
    <2>3. D[k].att = a /\ ~D[k].busy /\ (m.job[k].vad => D[k].next = 0)
          /\ \A j \in Jobs \ {k} : D[j] = NoDecoder
      OBVIOUS
    <2> HIDE DEF D
    <2>4. /\ n.decoder = D
          /\ n.queue = m.queue /\ n.pcm = m.pcm /\ n.slot = m.slot
          /\ n.consumer = m.consumer /\ n.job = m.job /\ n.made = m.made
          /\ n.att = m.att /\ n.threads = m.threads
      BY <2>2 DEF Memories
    <2> HIDE DEF n
    <2>5. QED BY <2>1, <2>3, <2>4
  <1>3. QED BY <1>1, <1>2

(* The queue, the slot and the jobs are not its business, unless it fails. *)
LEMMA DecodeLeaves ==
    ASSUME NEW m, NEW k \in Jobs, NEW a \in Nat, Sound(m)
    PROVE  LET n == Decode(m, k, a) IN
           \/ \E e \in Errors : n = Fail(m, k, e, "none")
           \/ n.queue = m.queue /\ n.slot = m.slot /\ n.job = m.job
  <1> DEFINE n == Decode(m, k, a)
  <1>1. \/ \E e \in Errors : n = Fail(m, k, e, "none")
        \/ /\ n.queue = m.queue /\ n.pcm = m.pcm /\ n.slot = m.slot
           /\ n.consumer = m.consumer /\ n.job = m.job /\ n.made = m.made
           /\ n.att = m.att /\ n.threads = m.threads
           /\ n.decoder[k].att = a /\ ~n.decoder[k].busy
           /\ m.job[k].vad => n.decoder[k].next = 0
           /\ \A j \in Jobs \ {k} : n.decoder[j] = NoDecoder
    BY DecodeIs
  <1> HIDE DEF n
  <1>2. \/ \E e \in Errors : n = Fail(m, k, e, "none")
        \/ n.queue = m.queue /\ n.slot = m.slot /\ n.job = m.job
    BY <1>1
  <1>3. QED BY <1>2 DEF n

(* Decoding begins, or cannot.                                             *)
LEMMA DecodeFine ==
    ASSUME NEW m, NEW k \in Jobs, NEW t, Sound(m), With(m, k, {t}), t.at \in Starting,
           Accepts(m, k, t.att), NEW n, n = Decode(m, k, t.att)
    PROVE  Fine(n, k) /\ Quiets(m, n)
  <1>1. /\ Allowed(m, k) /\ Starts(m, t) /\ k \in m.slot /\ t.att \in Nat
    BY StarterKnows
  <1>2. CASE \E e \in Errors : n = Fail(m, k, e, "none")
    BY <1>2, AdmissionFails
  <1>3. CASE /\ n.queue = m.queue /\ n.pcm = m.pcm /\ n.slot = m.slot
             /\ n.consumer = m.consumer /\ n.job = m.job /\ n.made = m.made
             /\ n.att = m.att /\ n.threads = m.threads
             /\ n.decoder[k].att = t.att /\ ~n.decoder[k].busy
             /\ m.job[k].vad => n.decoder[k].next = 0
    <2> DEFINE T == Mine(m, k) \cup {t}
    <2>1. FineWith(m, k, T) /\ (\A x \in T : x.job = k) /\ t \in T /\ T \ {t} = Mine(m, k)
      BY RestOfMine
    <2>2. Mine(n, k) = Mine(m, k) /\ (Queued(n, k) <=> Queued(m, k)) /\ n.slot # {}
      BY <1>1, <1>3 DEF Mine, Queued
    <2> HIDE DEF T
    <2>3. FineWith(n, k, T \ {t})
      <3>1. /\ n.job[k] = m.job[k] /\ n.pcm[k] = m.pcm[k] /\ n.att[k] = m.att[k]
            /\ n.made[k] = m.made[k]
            /\ (k \in n.slot <=> k \in m.slot) /\ (k \in n.consumer <=> k \in m.consumer)
            /\ n.decoder[k].att = t.att /\ ~n.decoder[k].busy
            /\ m.job[k].vad => n.decoder[k].next = 0
        BY <1>3
      <3>2. QED BY <1>1, <2>1, <2>2, <3>1, DecodedIsFine
    <2>4. QED BY <2>1, <2>2, <2>3 DEF Fine, Quiets
  <1>4. \/ \E e \in Errors : n = Fail(m, k, e, "none")
        \/ /\ n.queue = m.queue /\ n.pcm = m.pcm /\ n.slot = m.slot
           /\ n.consumer = m.consumer /\ n.job = m.job /\ n.made = m.made
           /\ n.att = m.att /\ n.threads = m.threads
           /\ n.decoder[k].att = t.att /\ ~n.decoder[k].busy
           /\ m.job[k].vad => n.decoder[k].next = 0
    BY <1>1, DecodeIs
  <1>5. QED BY <1>2, <1>3, <1>4

(* It reaps no decoder that a recording still needs.                       *)
LEMMA DecodeReaps ==
    ASSUME NEW m, NEW k \in Jobs, NEW a \in Nat, Sound(m), build \in Nat, k \in m.slot, k \in Known(m),
           m.job[k].state # "cancelled", NEW n, n = Decode(m, k, a),
           NEW j \in Jobs \ {k}, Fine(m, j)
    PROVE  Fine(n, j)
  <1>1. CASE \E e \in Errors : n = Fail(m, k, e, "none")
    <2>1. "none" \in Awaiters
      BY DEF Awaiters
    <2>2. Moves(m, n, k)
      BY <1>1, <2>1, FailMoves
    <2>3. QED BY <2>2 DEF Moves
  <1>2. CASE /\ n.queue = m.queue /\ n.pcm = m.pcm /\ n.slot = m.slot
             /\ n.consumer = m.consumer /\ n.job = m.job /\ n.made = m.made
             /\ n.att = m.att /\ n.threads = m.threads
             /\ n.decoder[j] = NoDecoder
    <2> DEFINE T == Mine(m, j)
    <2>1. FineWith(m, j, T) /\ (\A x \in T : x.job = j)
      BY DEF Fine, Mine
    <2>2. Mine(n, j) = T /\ (Queued(n, j) <=> Queued(m, j))
      BY <1>2 DEF Mine, Queued
    <2> HIDE DEF T
    <2>3. /\ n.job[j] = m.job[j] /\ n.pcm[j] = m.pcm[j] /\ n.att[j] = m.att[j]
          /\ n.made[j] = m.made[j]
          /\ (j \in n.slot <=> j \in m.slot) /\ (j \in n.consumer <=> j \in m.consumer)
      BY <1>2
    <2>4. ~m.att[j].accepting /\ m.decoder[j].att \in Nat
      BY PartsOf DEF Sound
    <2>5. CASE Allowed(m, j)
      <3>1. m.decoder[j].att = 0
        BY <2>1, <2>4, <2>5, AllowedKnows
      <3>2. FineWith(n, j, T)
        BY <1>2, <2>1, <2>2, <2>3, <3>1, NoneIsFine
      <3>3. QED BY <2>2, <3>2 DEF Fine
    <2>6. CASE ~Allowed(m, j)
      <3>1. FineWith(n, j, T)
        BY <1>2, <2>1, <2>2, <2>3, <2>6, UndecodedIsFine
      <3>2. QED BY <2>2, <3>1 DEF Fine
    <2>7. QED BY <2>5, <2>6
  <1>3. \/ \E e \in Errors : n = Fail(m, k, e, "none")
        \/ /\ n.queue = m.queue /\ n.pcm = m.pcm /\ n.slot = m.slot
           /\ n.consumer = m.consumer /\ n.job = m.job /\ n.made = m.made
           /\ n.att = m.att /\ n.threads = m.threads
           /\ n.decoder[j] = NoDecoder
    BY DecodeIs
  <1>4. QED BY <1>1, <1>2, <1>3

(* The admission resolves.                                                 *)
LEMMA AdmittedFine ==
    ASSUME Orderly, NEW t \in mem.threads, Admitted(t), Fine(mem, t.job)
    PROVE  Fine(mem', t.job) /\ Quiets(mem, mem')
  <1> DEFINE w == Woken(t)
             k == t.job
  <1>1. /\ k \in Jobs /\ Sound(w) /\ With(w, k, {t}) /\ build \in Nat
        /\ w.att = mem.att /\ \A n : Quiets(w, n) => Quiets(mem, n)
    BY Resumes
  <1>2. /\ t.at = "policy"
        /\ Accepts(mem, k, t.att) => mem' = Decode(w, k, t.att)
        /\ ~Accepts(mem, k, t.att) => mem' \in Pumped(w)
    BY DEF Admitted
  <1>3. Accepts(mem, k, t.att) <=> Accepts(w, k, t.att)
    BY <1>1 DEF Accepts
  <1> HIDE DEF w, k
  <1>4. t.at \in Starting
    BY <1>2 DEF Starting
  <1>5. Fine(mem', k) /\ Quiets(w, mem')
    BY <1>1, <1>2, <1>3, <1>4, StarterGone, DecodeFine
  <1>6. QED BY <1>1, <1>5 DEF k

(* The other jobs are none the worse.                                      *)
LEMMA AdmittedSpares ==
    ASSUME Orderly, NEW t \in mem.threads, Admitted(t), NEW j \in Jobs \ {t.job}, Fine(mem, j)
    PROVE  Fine(mem', j)
  <1> DEFINE w == Woken(t)
             k == t.job
  <1>1. /\ k \in Jobs /\ Sound(w) /\ k \in Known(w) /\ build \in Nat /\ t.att \in Nat
        /\ w.att = mem.att /\ Fine(w, j)
    BY WokenIs DEF Orderly, TypeOK, Turns
  <1>2. /\ Accepts(mem, k, t.att) => mem' = Decode(w, k, t.att)
        /\ ~Accepts(mem, k, t.att) => mem' \in Pumped(w)
    BY DEF Admitted
  <1>3. Accepts(mem, k, t.att) <=> Accepts(w, k, t.att)
    BY <1>1 DEF Accepts
  <1>4. j \in Jobs \ {k}
    OBVIOUS
  <1> HIDE DEF w, k
  <1>5. CASE Accepts(mem, k, t.att)
    <2>1. k \in w.slot
      BY <1>1, <1>3, <1>5 DEF Accepts, Sound
    <2>2. w.job[k].state # "cancelled"
      BY <1>1, <1>3, <1>5, GoesOn
    <2>3. QED BY <1>1, <1>2, <1>4, <1>5, <2>1, <2>2, DecodeReaps
  <1>6. CASE ~Accepts(mem, k, t.att)
    <2>1. Moves(w, mem', k)
      BY <1>1, <1>2, <1>6, PumpMoves
    <2>2. QED BY <1>1, <1>4, <2>1 DEF Moves
  <1>7. QED BY <1>5, <1>6

(* The admission throws, in time.                                          *)
LEMMA AdmissionThrowsFine ==
    ASSUME Orderly, NEW t \in mem.threads, AdmissionThrows(t), Fine(mem, t.job),
           t.job \notin misfired'
    PROVE  Fine(mem', t.job) /\ Quiets(mem, mem')
  <1> DEFINE w == Woken(t)
             k == t.job
             T == Mine(w, k) \cup {t}
  <1>1. /\ k \in Jobs /\ Sound(w) /\ With(w, k, {t}) /\ build \in Nat
        /\ w.att = mem.att /\ w.job = mem.job /\ \A n : Quiets(w, n) => Quiets(mem, n)
    BY Resumes
  <1>2. /\ t.at = "policy"
        /\ mem.job[k].state # "cancelled" => mem' = Fail(w, k, "other", "none")
        /\ mem.job[k].state = "cancelled" => mem' \in Pumped(w)
    BY DEF AdmissionThrows
  <1>3. mem.job[k].state \in {"cancelled", "failed"} \/ Accepts(mem, k, t.att)
    BY DEF AdmissionThrows
  <1>4. Accepts(mem, k, t.att) <=> Accepts(w, k, t.att)
    BY <1>1 DEF Accepts
  <1> HIDE DEF w, k
  <1>5. t.at \in Starting /\ "other" \in Errors /\ "none" \in Awaiters
    BY <1>2 DEF Starting, Errors, Awaiters
  <1>6. CASE w.job[k].state = "cancelled"
    <2>1. ~Accepts(w, k, t.att)
      BY <1>1, <1>6 DEF Accepts, Sound, Allowed
    <2>2. mem' \in Pumped(w)
      BY <1>1, <1>2, <1>6
    <2>3. Fine(mem', k) /\ Quiets(w, mem')
      BY <1>1, <1>5, <2>1, <2>2, StarterGone
    <2>4. QED BY <1>1, <2>3 DEF k
  <1>7. CASE Accepts(w, k, t.att) /\ w.job[k].state # "cancelled"
    <2>1. mem' = Fail(w, k, "other", "none")
      BY <1>1, <1>2, <1>7
    <2>2. Fine(mem', k) /\ Quiets(w, mem')
      BY <1>1, <1>5, <1>7, <2>1, AdmissionFails
    <2>3. QED BY <1>1, <2>2 DEF k
  <1>8. CASE w.job[k].state = "failed"
    <2>1. mem' = Fail(w, k, "other", "none") /\ w \in Memories
      BY <1>1, <1>2, <1>8 DEF Sound
    <2>2. /\ Apart(w, mem', k) /\ mem'.made = w.made /\ mem'.queue = w.queue
          /\ mem'.job[k].state = "failed" /\ mem'.job[k].vad = w.job[k].vad
          /\ mem'.job[k].file = w.job[k].file
          /\ mem'.att[k].id = w.att[k].id /\ ~Allowed(mem', k)
          /\ mem'.pcm = w.pcm /\ mem'.slot = w.slot /\ mem'.consumer = w.consumer
          /\ mem'.decoder = w.decoder
          /\ \E u \in Threads : /\ u.at = "failing" /\ u.job = k /\ u.att = w.att[k].id
                                /\ u.then = "none" /\ mem'.threads = w.threads \cup {u}
      BY <1>1, <1>5, <2>1, FailView
    <2>3. PICK u \in Threads : /\ u.at = "failing" /\ u.job = k /\ u.then = "none"
                               /\ mem'.threads = w.threads \cup {u}
      BY <2>2
    <2>4. FineWith(w, k, T) /\ (\A x \in T : x.job = k) /\ t \in T /\ T \ {t} = Mine(w, k)
      BY <1>1, RestOfMine
    <2> HIDE DEF T
    <2>5. ~Allowed(w, k)
      BY <1>1, <1>8 DEF Sound
    <2>6. FineWith(mem', k, (T \ {t}) \cup {u})
      <3>1. /\ mem'.pcm[k] = w.pcm[k] /\ mem'.made[k] = w.made[k] /\ mem'.decoder[k] = w.decoder[k]
            /\ (k \in mem'.slot <=> k \in w.slot) /\ (k \in mem'.consumer <=> k \in w.consumer)
            /\ (Queued(mem', k) <=> Queued(w, k))
        BY <2>2 DEF Queued
      <3>2. QED BY <1>5, <1>8, <2>2, <2>3, <2>4, <2>5, <3>1, FailedAgain
    <2>7. Mine(mem', k) = Mine(w, k) \cup {u}
      BY <2>3 DEF Mine
    <2>8. Quiets(w, mem')
      BY <2>2, QuietsApart
    <2>9. Fine(mem', k)
      BY <2>4, <2>6, <2>7 DEF Fine
    <2>10. QED BY <1>1, <2>8, <2>9 DEF k
  <1>9. QED BY <1>1, <1>3, <1>4, <1>6, <1>7, <1>8

-----------------------------------------------------------------------------
(* Those who arrive, and the lists they come from.                         *)

(* A job whose thread arrives is queued.                                   *)
LEMMA ArriverQueued ==
    ASSUME NEW m, NEW k \in Jobs, NEW t, Sound(m), With(m, k, {t}), t.at \in Arriving
    PROVE  Sound(Queue(m, k)) /\ Fine(Queue(m, k), k)
  <1> DEFINE q == Queue(m, k)
             T == Mine(m, k) \cup {t}
  <1>1. /\ Moves(m, q, k) /\ Queued(q, k)
        /\ q.job = m.job /\ q.pcm = m.pcm /\ q.slot = m.slot
        /\ q.consumer = m.consumer /\ q.att = m.att /\ q.made = m.made
        /\ q.decoder = m.decoder /\ q.threads = m.threads
    BY QueueIs
  <1> HIDE DEF q
  <1>2. FineWith(m, k, T) /\ (\A x \in T : x.job = k) /\ t \in T /\ T \ {t} = Mine(m, k)
    BY RestOfMine
  <1> HIDE DEF T
  <1>3. FineWith(q, k, T \ {t})
    BY <1>1, <1>2, QueuedIsFine
  <1>4. Mine(q, k) = Mine(m, k)
    BY <1>1 DEF Mine
  <1>5. Sound(q)
    BY <1>1 DEF Moves
  <1>6. QED BY <1>2, <1>3, <1>4, <1>5 DEF Fine, q

(* The pump harms nobody.                                                  *)
LEMMA PumpedFine ==
    ASSUME NEW m, NEW k \in Jobs, Sound(m), build \in Nat, Fine(m, k), NEW n, n \in Pumped(m)
    PROVE  Fine(n, k)
  <1>1. With(m, k, {})
    BY WithNone
  <1>2. With(n, k, {})
    BY <1>1, PumpWith
  <1>3. QED BY <1>2, WithNone

(* Nor does the end of a job of recover()'s list.                          *)
LEMMA BootFine ==
    ASSUME NEW m, Sound(m), build \in Nat, NEW n, n \in BootGoesOn(m)
    PROVE  /\ \A k \in Jobs : Fine(m, k) => Fine(n, k)
           /\ n.boot # <<>> \/ \A j : Rests(n, j)
  <1>1. CASE m.boot = <<>>
    <2>1. n \in Pumped(m)
      BY <1>1 DEF BootGoesOn
    <2>2. QED BY <2>1, PumpedFine, PumpedRests
  <1>2. CASE m.boot # <<>>
    <2>1. n = m
      BY <1>2 DEF BootGoesOn
    <2>2. QED BY <1>2, <2>1
  <1>3. QED BY <1>1, <1>2

(* A resumed job goes into the queue.                                      *)
LEMMA ResumeSavedFine ==
    ASSUME Orderly, NEW t \in mem.threads, ResumeSaved(t), Fine(mem, t.job)
    PROVE  Fine(mem', t.job) /\ Quiets(mem, mem')
  <1> DEFINE w == Woken(t)
             k == t.job
             q == Queue(w, k)
  <1>1. /\ k \in Jobs /\ Sound(w) /\ With(w, k, {t}) /\ build \in Nat
    BY Resumes
  <1>2. t.at = "resumed" /\ mem' \in Pumped(q)
    BY DEF ResumeSaved
  <1> HIDE DEF w, k
  <1>3. t.at \in Arriving
    BY <1>2 DEF Arriving
  <1>4. Sound(q) /\ Fine(q, k)
    BY <1>1, <1>3, ArriverQueued
  <1> HIDE DEF q
  <1>5. Fine(mem', k) /\ Quiets(mem, mem')
    BY <1>1, <1>2, <1>4, PumpedFine, QuietsPumped
  <1>6. QED BY <1>5 DEF k

(* A write of the user's cancel.                                           *)
LEMMA CancelSavedFine ==
    ASSUME Orderly, NEW t \in mem.threads, CancelSaved(t) \/ CancelRemoved(t), Fine(mem, t.job)
    PROVE  Fine(mem', t.job) /\ Quiets(mem, mem')
  <1> DEFINE w == Woken(t)
             k == t.job
             T == Mine(w, k) \cup {t}
  <1>1. /\ k \in Jobs /\ Sound(w) /\ With(w, k, {t}) /\ t.att \in Nat
        /\ \A n : Quiets(w, n) => Quiets(mem, n)
    BY Resumes
  <1>2. /\ t.at \in {"cancelling", "cancelled"}
        /\ \E at \in {"cancelled", "closing"} : mem' = Await(w, Thread(at, k, t.att))
    BY DEF CancelSaved, CancelRemoved
  <1> HIDE DEF w, k
  <1>3. PICK at \in {"cancelled", "closing"} : mem' = Await(w, Thread(at, k, t.att))
    BY <1>2
  <1> DEFINE u == Thread(at, k, t.att)
  <1>4. at \in Points /\ at \in Ending /\ t.at \in Ending
    BY <1>2 DEF Points, Ending
  <1>5. u \in Threads /\ u.at = at /\ u.job = k
    BY <1>1, <1>4, ThreadIs
  <1>6. mem' = Await(w, u)
    BY <1>3
  <1> HIDE DEF u
  <1>7. FineWith(w, k, T) /\ t \in T /\ T \ {t} = Mine(w, k)
    BY <1>1, RestOfMine
  <1> HIDE DEF T
  <1>8. FineWith(w, k, (T \ {t}) \cup {u})
    BY <1>4, <1>5, <1>7, EndingMoved
  <1>9. Fine(mem', k) /\ Quiets(w, mem')
    BY <1>1, <1>5, <1>6, <1>7, <1>8, JoinFine
  <1>10. QED BY <1>1, <1>9 DEF k

(* What a thread of a cancel's end knows.                                  *)
LEMMA EnderKnows ==
    ASSUME NEW m, NEW k \in Jobs, NEW t, Sound(m), With(m, k, {t}), t.at \in Ending
    PROVE  ~Allowed(m, k) /\ m.job[k].state # "queued"
  <1>1. FineWith(m, k, Mine(m, k) \cup {t})
    BY DEF With
  <1>2. m.job[k].state \in {"cancelled", "saving", "recapping", "done", "failed"}
    BY <1>1 DEF FineWith, StateKnown
  <1>3. Allowed(m, k) => m.job[k].state \in {"decoding", "transcribing"}
    BY <1>1 DEF FineWith, AttemptServed
  <1>4. QED BY <1>2, <1>3

(* The end of a cancel.                                                    *)
LEMMA CancelEndsFine ==
    ASSUME Orderly, NEW t \in mem.threads, CancelEnds(t), Fine(mem, t.job)
    PROVE  Fine(mem', t.job) /\ Quiets(mem, mem')
  <1> DEFINE w == Woken(t)
             k == t.job
             T == Mine(w, k) \cup {t}
             d == [w EXCEPT !.decoder[k] = NoDecoder]
             e == [d EXCEPT !.pcm[k] = 0]
  <1>1. /\ k \in Jobs /\ Sound(w) /\ With(w, k, {t}) /\ w \in Memories /\ build \in Nat
        /\ \A n : Quiets(w, n) => Quiets(mem, n)
    BY Resumes DEF Sound
  <1>2. t.at = "closing"
    BY DEF CancelEnds
  <1>3. [w EXCEPT !.decoder[k] = NoDecoder, !.pcm[k] = 0] = e
    OBVIOUS
  <1>4. PICK m \in ReleaseDecode(e, k) :
          mem' \in Pumped([(IF k \notin m.slot \cup m.consumer THEN Retire(m, k, t.att) ELSE m)
                             EXCEPT !.active = @ \ {k}])
    BY <1>3 DEF CancelEnds
  <1> DEFINE r == IF k \notin m.slot \cup m.consumer THEN Retire(m, k, t.att) ELSE m
  <1>5. mem' \in Pumped([r EXCEPT !.active = @ \ {k}])
    BY <1>4
  <1> HIDE DEF w, k
  <1>6. t.at \in Ending
    BY <1>2 DEF Ending
  <1>7. ~Allowed(w, k) /\ w.job[k].state # "queued"
    BY <1>1, <1>6, EnderKnows
  <1>8. FineWith(w, k, T) /\ (\A x \in T : x.job = k)
    BY <1>1, WithKnows
  <1>9. NoDecoder \in Decoders
    BY DEF NoDecoder, Decoders
  <1>10. /\ d \in Memories /\ d.decoder[k] = NoDecoder
         /\ d.queue = w.queue /\ d.pcm = w.pcm /\ d.slot = w.slot
         /\ d.consumer = w.consumer /\ d.job = w.job /\ d.made = w.made
         /\ d.att = w.att /\ d.threads = w.threads
    BY <1>1, <1>9, DecoderSet DEF Apart
  <1>11. Sound(d)
    BY <1>1, NoDecoderMoves DEF Moves
  <1> HIDE DEF d
  <1>12. (Queued(d, k) <=> Queued(w, k)) /\ Mine(d, k) = Mine(w, k) /\ ~Allowed(d, k)
    BY <1>7, <1>10 DEF Queued, Mine, Allowed
  <1>13. FineWith(d, k, T)
    <2> HIDE DEF T
    <2>1. QED BY <1>7, <1>8, <1>10, <1>12, UndecodedIsFine
  <1>14. 0 \in Nat
    OBVIOUS
  <1>15. /\ e \in Memories /\ Apart(d, e, k) /\ e.pcm[k] = 0
         /\ e.queue = d.queue /\ e.decoder = d.decoder /\ e.slot = d.slot
         /\ e.consumer = d.consumer /\ e.job = d.job /\ e.made = d.made
         /\ e.att = d.att /\ e.threads = d.threads
    <2>1. 0 \in Nat /\ d \in Memories
      BY <1>10
    <2>2. QED BY <1>1, <2>1, PcmSet
  <1>16. Sound(e)
    BY <1>1, <1>11, <1>14, PcmMoves DEF Moves
  <1> HIDE DEF e
  <1>17. (Queued(e, k) <=> Queued(d, k)) /\ Mine(e, k) = Mine(w, k) /\ ~Allowed(e, k)
    BY <1>12, <1>15 DEF Queued, Mine, Allowed
  <1>18. FineWith(e, k, T)
    <2> HIDE DEF T
    <2>1. QED BY <1>8, <1>12, <1>13, <1>15, <1>17, DroppedIsFine
  <1>19. With(e, k, {t})
    BY <1>1, <1>10, <1>15, <1>17, <1>18, CrewStays
  <1>20. e.job[k].state # "queued"
    BY <1>7, <1>10, <1>15
  <1>21. /\ Sound(m) /\ With(m, k, {t}) /\ Still(e, m, k)
         /\ k \in m.slot => k \in m.consumer
    BY <1>1, <1>4, <1>15, <1>16, <1>17, <1>19, <1>20, StillReleasesDecode
  <1>22. Sound(r) /\ With(r, k, {t}) /\ Still(m, r, k)
    <2>1. ~Allowed(m, k)
      BY <1>21 DEF Still
    <2>2. CASE k \notin m.slot \cup m.consumer
      <3>1. r = Retire(m, k, t.att) /\ k \notin m.slot /\ k \notin m.consumer
        BY <2>2
      <3> HIDE DEF r
      <3>2. QED BY <1>1, <1>21, <2>1, <3>1, StillRetires
    <2>3. CASE ~(k \notin m.slot \cup m.consumer)
      BY <1>21, <2>1, <2>3 DEF Still
    <2>4. QED BY <2>2, <2>3
  <1> HIDE DEF r
  <1>23. r.job[k].state # "queued" /\ ~Allowed(r, k) /\ r.pcm[k] = 0
         /\ (k \in r.slot => k \in r.consumer)
    BY <1>15, <1>20, <1>21, <1>22 DEF Still
  <1>24. /\ Sound(mem') /\ With(mem', k, {t}) /\ \A x : Quiets(x, mem')
         /\ Still(r, mem', k)
    BY <1>1, <1>5, <1>22, <1>23, PassiveWith
  <1>25. ~Allowed(mem', k) /\ mem'.pcm[k] = 0 /\ (k \in mem'.slot => k \in mem'.consumer)
    BY <1>23, <1>24 DEF Still
  <1> DEFINE n == mem'
             U == Mine(n, k) \cup {t}
  <1>26. FineWith(n, k, U) /\ (\A x \in U : x.job = k) /\ U \ {t} = Mine(n, k) /\ t \in U
    BY <1>1, <1>24, RestOfMine
  <1>27. ~InRefusal(t) /\ ~Holds(t) /\ ~InTail(t)
    BY <1>6, RolesOf
  <1>28. FineWith(n, k, U \ {t})
    <2>1. ~Allowed(n, k) /\ n.pcm[k] = 0 /\ (k \in n.slot => k \in n.consumer)
      BY <1>25
    <2> HIDE DEF n, U
    <2>2. QED BY <1>6, <1>26, <1>27, <2>1, StopperGone
  <1>29. Fine(n, k)
    BY <1>26, <1>28 DEF Fine
  <1>30. QED BY <1>24, <1>29 DEF k

(* A cancel.                                                               *)
LEMMA CancelFine ==
    ASSUME Orderly, NEW j \in Jobs, Cancel(j), Fine(mem, j)
    PROVE  Fine(mem', j) /\ Quiets(mem, mem')
  <1> DEFINE m == mem
             T == Mine(m, j)
             s == Stop(m, j)
             p == [s.job[j] EXCEPT !.state = "cancelled"]
             r == [p EXCEPT !.error = "none"]
             q == [s EXCEPT !.job[j] = r]
             v == Thread("cancelling", j, m.att[j].id)
             u == Saving(q, v)
  <1>1. Sound(m) /\ m \in Memories
    BY DEF Orderly, Sound
  <1>2. j \in Known(m) /\ ~IsOver(m, j) /\ mem' = Await(q, u)
    BY DEF Cancel, Save, Saving
  <1>3. /\ m.job[j] \in JobRecords /\ m.att[j].id \in Nat
    BY <1>1, PartsOf
  <1>4. Fine(m, j)
    OBVIOUS
  <1> HIDE DEF m
  <1>5. /\ Apart(m, s, j) /\ s.att[j].id = m.att[j].id /\ s.job = m.job /\ s.pcm = m.pcm
        /\ s.slot = m.slot /\ s.consumer = m.consumer /\ s.decoder = m.decoder
        /\ s.threads = m.threads
    BY <1>1, StopIs
  <1>6. Moves(m, s, j) /\ ~Allowed(s, j)
    BY <1>1, StopMoves
  <1> HIDE DEF s
  <1>7. p \in JobRecords /\ p.state = "cancelled" /\ p.vad = m.job[j].vad
    BY <1>3, <1>5 DEF JobRecords, JobStates
  <1> HIDE DEF p
  <1>8. r \in JobRecords /\ r.state = "cancelled" /\ r.vad = m.job[j].vad
    BY <1>7 DEF JobRecords, Errors
  <1> HIDE DEF r
  <1>9. Sound(s) /\ j \in Known(s) /\ s \in Memories
    BY <1>2, <1>6 DEF Moves, Keeps, Sound
  <1>10. /\ q \in Memories /\ Apart(s, q, j) /\ q.job[j] = r
         /\ q.queue = s.queue /\ q.pcm = s.pcm /\ q.slot = s.slot
         /\ q.consumer = s.consumer /\ q.att = s.att /\ q.made = s.made
         /\ q.decoder = s.decoder /\ q.threads = s.threads
    BY <1>8, <1>9, JobSet
  <1>11. Sound(q)
    BY <1>6, <1>8, <1>9, JobMoves DEF Moves
  <1> HIDE DEF q
  <1>12. "cancelling" \in Points
    BY DEF Points, Ending
  <1>13. v \in Threads /\ v.at = "cancelling" /\ v.job = j
    BY <1>3, <1>12, ThreadIs
  <1> HIDE DEF v
  <1>14. u \in Threads /\ u.at = "cancelling" /\ u.job = j
    BY <1>10, <1>13, SavingIs
  <1> HIDE DEF u
  <1>15. FineWith(m, j, T) /\ (\A x \in T : x.job = j)
    BY <1>4 DEF Fine, Mine
  <1>16. m.job[j].state \notin {"done", "failed", "cancelled", "absent"}
    BY <1>2 DEF Known, IsOver, Terminal
  <1>17. Apart(m, q, j)
    BY <1>5, <1>10, ApartTwice
  <1>18. /\ (Queued(q, j) <=> Queued(m, j)) /\ q.made = m.made /\ ~Allowed(q, j)
         /\ q.att[j].id = m.att[j].id /\ Mine(q, j) = T
    BY <1>5, <1>6, <1>10 DEF Queued, Apart, Allowed, Mine
  <1> HIDE DEF T
  <1>19. FineWith(q, j, T \cup {u})
    BY <1>5, <1>8, <1>10, <1>14, <1>15, <1>16, <1>18, CancelledIsFine
  <1>20. Fine(mem', j) /\ Quiets(q, mem')
    BY <1>2, <1>11, <1>14, <1>18, <1>19, JoinFine
  <1>21. Quiets(m, q)
    BY <1>5, <1>8, <1>10, <1>17, QuietsApart
  <1>22. QED BY <1>20, <1>21, QuietsTwice DEF m

(* A thread that comes with the write of what it finds.                    *)
LEMMA SaveFine ==
    ASSUME NEW m, NEW k \in Jobs, NEW v \in Threads, v.job = k, Sound(m),
           \A u : u.at = v.at /\ u.job = k => FineWith(m, k, Mine(m, k) \cup {u})
    PROVE  Fine(Save(m, v), k) /\ Quiets(m, Save(m, v))
  <1> DEFINE u == Saving(m, v)
  <1>1. u \in Threads /\ u.at = v.at /\ u.job = k
    BY SavingIs DEF Sound
  <1>2. Save(m, v) = Await(m, u)
    BY DEF Save, Saving
  <1> HIDE DEF u
  <1>3. FineWith(m, k, Mine(m, k) \cup {u})
    BY <1>1
  <1>4. QED BY <1>1, <1>2, <1>3, JoinFine

(* A resume: of the import, or of the summary.                             *)
LEMMA ResumeFine ==
    ASSUME Orderly, NEW j \in Jobs, Resume(j), Fine(mem, j)
    PROVE  Fine(mem', j) /\ Quiets(mem, mem')
  <1> DEFINE m == mem
             T == Mine(m, j)
             r == [m.job[j] EXCEPT !.state = "done"]
             p == Requeued(m.job[j])
  <1>1. Sound(m) /\ m \in Memories /\ build \in Nat
    BY DEF Orderly, Sound, TypeOK
  <1>2. /\ m.job[j].state = "failed" /\ \A t \in T : t.at # "failing"
        /\ \/ m.job[j].file /\ mem' = Save([m EXCEPT !.job[j] = r], Thread("surfaced", j, 0))
           \/ ~m.job[j].file /\ mem' = Save([m EXCEPT !.job[j] = p], Thread("resumed", j, 0))
    BY DEF Resume, At, Mine
  <1>3. m.job[j] \in JobRecords
    BY <1>1, PartsOf
  <1>4. FineWith(m, j, T) /\ (\A x \in T : x.job = j)
    BY DEF Fine, Mine
  <1> HIDE DEF m
  <1>5. j \in Known(m) /\ ~Allowed(m, j)
    BY <1>1, <1>2 DEF Known, Sound
  <1>6. ~Queued(m, j)
    BY <1>2, <1>4 DEF FineWith, StateKnown
  <1>7. r \in JobRecords /\ r.state = "done" /\ r.vad = m.job[j].vad /\ r.file = m.job[j].file
    BY <1>3 DEF JobRecords, JobStates
  <1>8. p \in JobRecords /\ p.state = "queued"
    BY <1>1, <1>3, RequeuedIs
  <1>9. p.vad = m.job[j].vad
    BY <1>3 DEF Requeued, Prepared, JobRecords
  <1> HIDE DEF r, p
  <1>10. 0 \in Nat /\ "surfaced" \in Points /\ "resumed" \in Points
    BY DEF Points, Arriving
  <1>11. ASSUME NEW x \in JobRecords, x.state \in {"done", "queued"}
         PROVE  LET q == [m EXCEPT !.job[j] = x] IN
                /\ Sound(q) /\ q.job[j] = x /\ q.pcm = m.pcm /\ q.slot = m.slot
                /\ q.consumer = m.consumer /\ q.att = m.att /\ q.made = m.made
                /\ q.decoder = m.decoder /\ Mine(q, j) = T /\ (Queued(q, j) <=> Queued(m, j))
                /\ Quiets(m, q)
    <2> DEFINE q == [m EXCEPT !.job[j] = x]
    <2>1. /\ Apart(m, q, j) /\ q.job[j] = x /\ q.queue = m.queue /\ q.pcm = m.pcm
          /\ q.slot = m.slot /\ q.consumer = m.consumer /\ q.att = m.att /\ q.made = m.made
          /\ q.decoder = m.decoder /\ q.threads = m.threads
      BY <1>1, JobSet
    <2>2. Sound(q)
      BY <1>1, <1>2, <1>5, <1>11, JobMoves DEF Moves
    <2> HIDE DEF q
    <2>3. (Queued(q, j) <=> Queued(m, j)) /\ Mine(q, j) = T
      BY <2>1 DEF Queued, Mine
    <2>4. Quiets(m, q)
      <3>1. Waits(q) \subseteq Waits(m)
        BY <1>6, <2>1, <2>3 DEF Waits, Queued, Apart
      <3>2. QED BY <2>1, <3>1 DEF Quiets
    <2>5. QED BY <2>1, <2>2, <2>3, <2>4 DEF q
  <1>12. CASE m.job[j].file /\ mem' = Save([m EXCEPT !.job[j] = r], Thread("surfaced", j, 0))
    <2> DEFINE q == [m EXCEPT !.job[j] = r]
               v == Thread("surfaced", j, 0)
    <2>1. /\ Sound(q) /\ q.job[j] = r /\ q.pcm = m.pcm /\ q.slot = m.slot
          /\ q.consumer = m.consumer /\ q.att = m.att /\ q.made = m.made
          /\ q.decoder = m.decoder /\ Mine(q, j) = T /\ (Queued(q, j) <=> Queued(m, j))
          /\ Quiets(m, q)
      BY <1>7, <1>11
    <2>2. mem' = Save(q, v)
      BY <1>12
    <2>3. v \in Threads /\ v.at = "surfaced" /\ v.job = j
      BY <1>10, ThreadIs
    <2> HIDE DEF q, v, T
    <2>4. FineWith(q, j, T)
      BY <1>2, <1>4, <1>5, <1>7, <2>1, SurfacedIsFine
    <2>5. \A u : u.at = v.at /\ u.job = j => FineWith(q, j, Mine(q, j) \cup {u})
      BY <2>1, <2>3, <2>4, IdlerJoins
    <2>6. Fine(mem', j) /\ Quiets(q, mem')
      BY <2>1, <2>2, <2>3, <2>5, SaveFine
    <2>7. QED BY <2>1, <2>6, QuietsTwice DEF m
  <1>13. CASE ~m.job[j].file /\ mem' = Save([m EXCEPT !.job[j] = p], Thread("resumed", j, 0))
    <2> DEFINE q == [m EXCEPT !.job[j] = p]
               v == Thread("resumed", j, 0)
    <2>1. /\ Sound(q) /\ q.job[j] = p /\ q.pcm = m.pcm /\ q.slot = m.slot
          /\ q.consumer = m.consumer /\ q.att = m.att /\ q.made = m.made
          /\ q.decoder = m.decoder /\ Mine(q, j) = T /\ (Queued(q, j) <=> Queued(m, j))
          /\ Quiets(m, q)
      BY <1>8, <1>11
    <2>2. mem' = Save(q, v)
      BY <1>13
    <2>3. v \in Threads /\ v.at = "resumed" /\ v.job = j
      BY <1>10, ThreadIs
    <2> HIDE DEF q, v, T
    <2>4. ASSUME NEW u, u.at = "resumed", u.job = j PROVE FineWith(q, j, T \cup {u})
      BY <1>2, <1>4, <1>5, <1>8, <1>9, <1>13, <2>1, <2>4, ResumedIsFine
    <2>5. \A u : u.at = v.at /\ u.job = j => FineWith(q, j, Mine(q, j) \cup {u})
      BY <2>1, <2>3, <2>4
    <2>6. Fine(mem', j) /\ Quiets(q, mem')
      BY <2>1, <2>2, <2>3, <2>5, SaveFine
    <2>7. QED BY <2>1, <2>6, QuietsTwice DEF m
  <1>14. QED BY <1>2, <1>12, <1>13

-----------------------------------------------------------------------------
(* What a step leaves of the invariant, outside the misfired.              *)

Kept ==
    /\ misfired \subseteq misfired'
    /\ \A j \in Jobs \ misfired' : Fine(mem, j) => Fine(mem', j)
    /\ \/ Adding'
       \/ \A j \in Jobs \ misfired' : Rests(mem', j)
       \/ ~Adding /\ \A j \in Jobs \ misfired' : Fine(mem, j) /\ Rests(mem, j) => Rests(mem', j)

(* A list is being added to while a thread adds or the boot's list lasts.  *)
LEMMA AddingIs ==
    /\ Adding <=> (Adders(mem) # {} \/ mem.boot # <<>>)
    /\ Adding' <=> (Adders(mem') # {} \/ mem'.boot # <<>>)
  <1>1. Adding <=> (Adders(mem) # {} \/ mem.boot # <<>>)
    BY DEF Adding, Adders, At
  <1>2. Adding' <=> (Adders(mem') # {} \/ mem'.boot # <<>>)
    BY DEF Adding, Adders, At
  <1>3. QED BY <1>1, <1>2

(* What rests for its own job.                                             *)
LEMMA QuietsRests ==
    ASSUME NEW m, NEW n, NEW k \in Jobs, Quiets(m, n), Rests(m, k)
    PROVE  Rests(n, k)
  BY DEF Quiets, Rests, Waits

(* A step of one job keeps the invariant if it keeps it for that job.      *)
LEMMA StepsKept ==
    ASSUME NEW k \in Jobs, Steps(k), misfired \subseteq misfired',
           k \notin misfired' => (Fine(mem, k) => Fine(mem', k) /\ Quiets(mem, mem'))
    PROVE  Kept
  <1>1. /\ Adders(mem') = Adders(mem) /\ mem'.boot = mem.boot
        /\ \A j \in Jobs \ {k} : Fine(mem, j) => Fine(mem', j)
        /\ \A j \in Jobs \ {k} : Rests(mem, j) => Rests(mem', j)
    BY DEF Steps, Shifts, Turns
  <1>2. Adding' <=> Adding
    BY <1>1, AddingIs
  <1>3. \A j \in Jobs \ misfired' : Fine(mem, j) => Fine(mem', j)
    BY <1>1
  <1>4. \A j \in Jobs \ misfired' : Fine(mem, j) /\ Rests(mem, j) => Rests(mem', j)
    BY <1>1, QuietsRests
  <1>5. QED BY <1>2, <1>3, <1>4 DEF Kept

(* The steps of a job's own threads that keep it: of its failure,          *)
LEMMA FailureKept ==
    ASSUME Orderly, NEW t \in mem.threads,
           FailSaved(t) \/ ClaimSaved(t) \/ AdmissionThrows(t)
    PROVE  Kept
  <1>1. t.job \in Jobs
    BY WokenIs DEF Orderly
  <1>2. Steps(t.job)
    BY FailSavedSteps, ClaimSavedSteps, AdmissionThrowsSteps
  <1>3. misfired \subseteq misfired'
    BY DEF FailSaved, ClaimSaved, AdmissionThrows, history
  <1>4. t.job \notin misfired' =>
           (Fine(mem, t.job) => Fine(mem', t.job) /\ Quiets(mem, mem'))
    BY FailSavedFine, ClaimSavedFine, AdmissionThrowsFine
  <1>5. QED BY <1>1, <1>2, <1>3, <1>4, StepsKept

(* of its chunks,                                                          *)
LEMMA ChunksKept ==
    ASSUME Orderly, NEW t \in mem.threads,
           ChunkSaved(t) \/ SlabHeard(t) \/ SlabNotHeard(t) \/ ChunkThrew(t)
    PROVE  Kept
  <1>1. t.job \in Jobs
    BY WokenIs DEF Orderly
  <1>2. Steps(t.job)
    BY ChunkSavedSteps, SlabHeardSteps, SlabNotHeardSteps, StretchSteps
  <1>3. misfired \subseteq misfired'
    BY DEF ChunkSaved, SlabHeard, SlabNotHeard, ChunkThrew, history
  <1>4. Fine(mem, t.job) => Fine(mem', t.job) /\ Quiets(mem, mem')
    BY ChunkSavedFine, SlabHeardFine, ChunkThrewFine
  <1>5. QED BY <1>1, <1>2, <1>3, <1>4, StepsKept

(* of the buffered pipeline,                                               *)
LEMMA WindowsKept ==
    ASSUME Orderly, NEW t \in mem.threads,
           \/ FinishDecoding(t) \/ WindowsSaved(t) \/ WindowHeard(t) \/ WindowNotHeard(t)
           \/ Consumed(t)
    PROVE  Kept
  <1>1. t.job \in Jobs
    BY WokenIs DEF Orderly
  <1>2. Steps(t.job)
    BY StretchSteps, WindowHeardSteps, WindowNotHeardSteps
  <1>3. misfired \subseteq misfired'
    BY DEF FinishDecoding, WindowsSaved, WindowHeard, WindowNotHeard, Consumed, history
  <1>4. Fine(mem, t.job) => Fine(mem', t.job) /\ Quiets(mem, mem')
    BY FinishDecodingFine, WindowsSavedFine, WindowHeardFine, ConsumedFine
  <1>5. QED BY <1>1, <1>2, <1>3, <1>4, StepsKept

(* of its tail,                                                            *)
LEMMA TailKept ==
    ASSUME Orderly, NEW t \in mem.threads,
           \/ CheckpointSaved(t) \/ Recapped(t) \/ Ingested(t) \/ CheckpointRemoved(t)
           \/ FileDeleted(t) \/ Abandoned(t) \/ TailThrows(t) \/ TailWriteFails(t)
    PROVE  Kept
  <1>1. t.job \in Jobs
    BY WokenIs DEF Orderly
  <1>2. Steps(t.job)
    BY CheckpointSavedSteps, RecappedSteps, StretchSteps, FileDeletedSteps, AbandonedSteps,
       TailThrowsSteps
  <1>3. misfired \subseteq misfired'
    BY DEF CheckpointSaved, Recapped, Ingested, CheckpointRemoved, FileDeleted, Abandoned,
           TailThrows, TailWriteFails, history
  <1>4. Fine(mem, t.job) => Fine(mem', t.job) /\ Quiets(mem, mem')
    BY CheckpointSavedFine, RecappedFine, CheckpointRemovedFine, FileDeletedFine, AbandonedFine,
       TailThrowsFine
  <1>5. QED BY <1>1, <1>2, <1>3, <1>4, StepsKept

(* and of what the user asks.                                              *)
LEMMA RequestKept ==
    ASSUME Orderly, NEW t \in mem.threads,
           ResumeSaved(t) \/ CancelSaved(t) \/ CancelRemoved(t) \/ CancelEnds(t)
    PROVE  Kept
  <1>1. t.job \in Jobs
    BY WokenIs DEF Orderly
  <1>2. Steps(t.job)
    BY ResumeSavedSteps, CancelSavedSteps, CancelEndsSteps
  <1>3. misfired \subseteq misfired'
    BY DEF ResumeSaved, CancelSaved, CancelRemoved, CancelEnds, history
  <1>4. Fine(mem, t.job) => Fine(mem', t.job) /\ Quiets(mem, mem')
    BY ResumeSavedFine, CancelSavedFine, CancelEndsFine
  <1>5. QED BY <1>1, <1>2, <1>3, <1>4, StepsKept

(* The calls of the decoder and of the user.                               *)
LEMMA CallKept ==
    ASSUME Orderly, NEW j \in Jobs,
           Chunk(j) \/ DecoderStops(j) \/ Complete(j) \/ Resume(j) \/ Cancel(j)
    PROVE  Kept
  <1>1. Steps(j)
    BY ChunkSteps, CompleteSteps, ResumeSteps, CancelSteps
  <1>2. misfired \subseteq misfired'
    BY DEF Chunk, DecoderStops, Complete, Resume, Cancel, history
  <1>3. Fine(mem, j) => Fine(mem', j) /\ Quiets(mem, mem')
    BY ChunkFine, DecoderStopsFine, CompleteFine, ResumeFine, CancelFine
  <1>4. QED BY <1>1, <1>2, <1>3, StepsKept

(* A step that spares the other jobs, and keeps its own and the lists.     *)
LEMMA SparesKept ==
    ASSUME NEW k \in Jobs, misfired \subseteq misfired',
           Adders(mem') = Adders(mem), mem'.boot = mem.boot,
           \A j \in Jobs \ {k} : Fine(mem, j) => Fine(mem', j),
           \A j \in Jobs \ {k} : Rests(mem, j) => Rests(mem', j),
           k \notin misfired' => (Fine(mem, k) => Fine(mem', k) /\ Quiets(mem, mem'))
    PROVE  Kept
  <1>1. Adding' <=> Adding
    BY AddingIs
  <1>2. \A j \in Jobs \ misfired' : Fine(mem, j) => Fine(mem', j)
    OBVIOUS
  <1>3. \A j \in Jobs \ misfired' : Fine(mem, j) /\ Rests(mem, j) => Rests(mem', j)
    BY QuietsRests
  <1>4. QED BY <1>1, <1>2, <1>3 DEF Kept

(* The admission starts a decoder, and may reap that of another job.       *)
LEMMA AdmittedKept ==
    ASSUME Orderly, NEW t \in mem.threads, Admitted(t)
    PROVE  Kept
  <1> DEFINE w == Woken(t)
             k == t.job
  <1>0. Plain(t)
    BY DEF Admitted, Plain, Booting
  <1>1. /\ k \in Jobs /\ t.att \in Nat /\ Sound(w) /\ k \in Known(w) /\ build \in Nat /\ Sound(mem)
        /\ t.att <= w.made[k] /\ Shifts(mem, w, k)
    BY <1>0, WokenIs DEF Orderly, TypeOK
  <1>2. \/ mem' = Decode(w, k, t.att) /\ Accepts(mem, k, t.att)
        \/ mem' \in Pumped(w)
    BY DEF Admitted
  <1>3. Accepts(mem, k, t.att) => w.job[k].state # "cancelled"
    BY <1>1, GoesOn, WokenIs
  <1>4. \A j \in Jobs \ {k} : Fine(mem, j) => Fine(mem', j)
    BY AdmittedSpares
  <1>5. Fine(mem, k) => Fine(mem', k) /\ Quiets(mem, mem')
    BY AdmittedFine
  <1>6. misfired \subseteq misfired'
    BY DEF Admitted, history
  <1> HIDE DEF w, k
  <1>7. Keeps(w, mem') /\ \A j \in Jobs \ {k} : Rests(w, j) => Rests(mem', j)
    <2>1. CASE mem' = Decode(w, k, t.att) /\ Accepts(mem, k, t.att)
      <3> DEFINE n == Decode(w, k, t.att)
      <3>1. Keeps(w, n)
        BY <1>1, <1>3, <2>1, ReaperMoves
      <3>2. \/ \E e \in Errors : n = Fail(w, k, e, "none")
            \/ n.queue = w.queue /\ n.slot = w.slot /\ n.job = w.job
        BY <1>1, DecodeLeaves
      <3>3. w.job[k].state # "cancelled" /\ mem' = n
        BY <1>3, <2>1
      <3>4. "none" \in Awaiters
        BY DEF Awaiters
      <3> HIDE DEF n
      <3>5. CASE \E e \in Errors : n = Fail(w, k, e, "none")
        <4>1. Moves(w, n, k)
          BY <1>1, <3>3, <3>4, <3>5, FailMoves
        <4>2. QED BY <3>1, <3>3, <4>1 DEF Moves
      <3>6. CASE n.queue = w.queue /\ n.slot = w.slot /\ n.job = w.job
        <4>1. \A j : Rests(w, j) => Rests(n, j)
          BY <3>6 DEF Rests, Queued
        <4>2. QED BY <3>1, <3>3, <4>1
      <3>7. QED BY <3>2, <3>5, <3>6
    <2>2. CASE mem' \in Pumped(w)
      BY <1>1, <2>2, PumpedIs, PumpedRests
    <2>3. QED BY <1>2, <2>1, <2>2
  <1>8. /\ Adders(mem') = Adders(mem) /\ mem'.boot = mem.boot
        /\ \A j \in Jobs \ {k} : Rests(mem, j) => Rests(mem', j)
    BY <1>1, <1>7 DEF Keeps, Shifts, Turns
  <1>9. \A j \in Jobs \ {k} : Fine(mem, j) => Fine(mem', j)
    BY <1>4 DEF k
  <1>10. Fine(mem, k) => Fine(mem', k) /\ Quiets(mem, mem')
    BY <1>5 DEF k
  <1>11. QED BY <1>1, <1>6, <1>8, <1>9, <1>10, SparesKept

(* A meeting is saved, also one whose import was cancelled meanwhile.      *)
LEMMA MeetingSavedKept ==
    ASSUME Orderly, NEW t \in mem.threads, MeetingSaved(t)
    PROVE  Kept
  <1> DEFINE k == t.job
             w == Woken(t)
             d == [w EXCEPT !.job[k].file = TRUE]
             r == [d.job[k] EXCEPT !.state = "saving"]
             e == [d EXCEPT !.job[k] = r]
  <1>0. Plain(t)
    BY DEF MeetingSaved, Plain, Booting
  <1>1. k \in Jobs /\ Sound(w) /\ k \in Known(w) /\ Shifts(mem, w, k)
    BY <1>0, WokenIs DEF Orderly
  <1>2. mem' = TailSave(d, "saved", k, "saving")
    BY DEF MeetingSaved
  <1>3. mem' = Save(e, Thread("saved", k, 0))
    BY <1>2 DEF TailSave
  <1>4. Fine(mem, k) => Fine(mem', k) /\ Quiets(mem, mem')
    BY MeetingSavedFine
  <1>5. misfired \subseteq misfired'
    BY DEF MeetingSaved, history
  <1> HIDE DEF w
  <1>6. Moves(w, d, k)
    BY <1>1, FileMoves
  <1>7. Sound(d) /\ Shifts(mem, d, k)
    BY <1>1, <1>6, ShiftsThenMoves DEF Moves
  <1> HIDE DEF d
  <1>8. d.job[k] \in JobRecords
    BY <1>1, <1>7 DEF Sound, Memories
  <1>9. /\ r \in JobRecords /\ r.state # "absent"
        /\ Allowed(d, k) => r.state \notin {"cancelled", "failed"}
    BY <1>8 DEF JobRecords, JobStates
  <1> HIDE DEF r, k
  <1>10. /\ Sound(e) /\ Known(e) = Known(d) \cup {k} /\ Apart(d, e, k)
         /\ e.boot = d.boot /\ e.queue = d.queue /\ e.slot = d.slot /\ e.threads = d.threads
         /\ \A j \in Jobs \ {k} : Fine(d, j) => Fine(e, j)
    BY <1>1, <1>7, <1>9, JobIs
  <1> HIDE DEF e
  <1>11. k \in Known(e) /\ e.made[k] \in Nat /\ 0 <= e.made[k]
    BY <1>1, <1>10 DEF Sound, Memories
  <1>12. "saved" \in Points \ {"created"}
    BY DEF Points, Tailing
  <1>13. Moves(e, mem', k)
    BY <1>1, <1>3, <1>10, <1>11, <1>12, ThreadMoves
  <1>14. \A j \in Jobs \ {k} : Rests(d, j) => Rests(e, j)
    BY <1>10 DEF Rests, Queued, Apart
  <1>15. Adders(e) = Adders(d)
    BY <1>10 DEF Adders
  <1>16. /\ \A j \in Jobs \ {k} : Fine(mem, j) => Fine(mem', j)
         /\ \A j \in Jobs \ {k} : Rests(mem, j) => Rests(mem', j)
         /\ Adders(mem') = Adders(mem) /\ mem'.boot = mem.boot
    BY <1>7, <1>10, <1>13, <1>14, <1>15 DEF Shifts, Turns, Moves, Keeps
  <1>17. QED BY <1>1, <1>4, <1>5, <1>16, SparesKept

(* The end of a job of recover()'s list: the pump, or the next one.        *)
LEMMA BootKept ==
    ASSUME NEW m, Sound(m), build \in Nat, mem' \in BootGoesOn(m), misfired \subseteq misfired',
           \A j \in Jobs \ misfired' : Fine(mem, j) => Fine(m, j)
    PROVE  Kept
  <1>1. /\ \A j \in Jobs : Fine(m, j) => Fine(mem', j)
        /\ mem'.boot # <<>> \/ \A j : Rests(mem', j)
    BY BootFine
  <1>2. mem'.boot # <<>> => Adding'
    BY AddingIs
  <1>3. QED BY <1>1, <1>2 DEF Kept

(* A job that is not to be imported again forgets who surfaced it.         *)
LEMMA SurfacerGone ==
    ASSUME NEW m, NEW k \in Jobs, NEW t, Sound(m), With(m, k, {t}), t.at \in {"surfaced", "closed"}
    PROVE  Fine(m, k) /\ FineWith(m, k, Mine(m, k))
  <1> DEFINE T == Mine(m, k) \cup {t}
  <1>1. FineWith(m, k, T) /\ (\A x \in T : x.job = k) /\ t \in T /\ T \ {t} = Mine(m, k)
    BY RestOfMine
  <1> HIDE DEF T
  <1>2. t.at \notin Starting
    BY DEF Starting
  <1>3. ~Starts(m, t)
    BY <1>2 DEF Starts
  <1>4. FineWith(m, k, T \ {t})
    BY <1>1, <1>3, IdlerGone
  <1>5. QED BY <1>1, <1>4 DEF Fine

(* A job whose meeting is there has been written as done.                  *)
LEMMA SurfacedSavedKept ==
    ASSUME Orderly, NEW t \in mem.threads, SurfacedSaved(t)
    PROVE  Kept
  <1> DEFINE w == Woken(t)
             k == t.job
             u == [t EXCEPT !.at = "closed", !.rec = None]
  <1>1. /\ t \in Threads /\ k \in Jobs /\ Sound(w) /\ w \in Memories /\ k \in Known(w)
        /\ w.threads = mem.threads \ {t}
    BY WokenIs DEF Orderly
  <1>2. mem' = Await(w, u) /\ t.at = "surfaced"
    BY DEF SurfacedSaved
  <1>3. Turned(k)
    BY SurfacedSavedTurns
  <1>4. misfired \subseteq misfired'
    BY DEF SurfacedSaved, history
  <1>5. Fine(mem, k) => With(w, k, {t}) /\ \A n : Quiets(w, n) => Quiets(mem, n)
    BY Resumes
  <1> HIDE DEF w
  <1>6. u \in Threads /\ u.at = "closed" /\ u.job = k /\ u.then = t.then
    BY <1>1 DEF Threads, Points
  <1> HIDE DEF u
  <1>7. mem'.threads = w.threads \cup {u}
    BY <1>1, <1>2, <1>6, AwaitIs
  <1> HIDE DEF k
  <1>8. ASSUME Fine(mem, k) PROVE Fine(mem', k) /\ Quiets(mem, mem')
    <2>1. FineWith(w, k, Mine(w, k))
      BY <1>1, <1>2, <1>5, <1>8, SurfacerGone
    <2>2. FineWith(w, k, Mine(w, k) \cup {u})
      BY <1>6, <2>1, IdlerJoins
    <2>3. Fine(mem', k) /\ Quiets(w, mem')
      BY <1>1, <1>2, <1>6, <2>2, JoinFine
    <2>4. QED BY <1>5, <1>8, <2>3
  <1>9. /\ \A j \in Jobs \ {k} : Fine(mem, j) => Fine(mem', j)
        /\ \A j \in Jobs \ {k} : Rests(mem, j) => Rests(mem', j)
        /\ mem'.boot = mem.boot
    BY <1>3 DEF Turned, Turns
  <1>10. CASE t.then = "boot"
    <2>1. u \in Adders(mem')
      BY <1>6, <1>7, <1>10 DEF Adders
    <2>2. Adding'
      BY <2>1, AddingIs
    <2>3. QED BY <1>4, <1>8, <1>9, <2>2 DEF Kept
  <1>11. CASE t.then # "boot"
    <2>1. Adders(mem') = Adders(mem)
      BY <1>1, <1>2, <1>6, <1>7, <1>11 DEF Adders
    <2>2. QED BY <1>1, <1>4, <1>8, <1>9, <2>1, SparesKept
  <1>12. QED BY <1>10, <1>11

(* Its checkpoint is gone, and the next of the list comes.                 *)
LEMMA SurfacedRemovedKept ==
    ASSUME Orderly, NEW t \in mem.threads, SurfacedRemoved(t)
    PROVE  Kept
  <1> DEFINE w == Woken(t)
             k == t.job
  <1>1. /\ k \in Jobs /\ Sound(w) /\ build \in Nat /\ Turns(mem, w, k)
        /\ w.threads = mem.threads \ {t} /\ w.boot = mem.boot
    BY WokenIs DEF Orderly, TypeOK
  <1>2. /\ t.at = "closed"
        /\ t.then = "boot" => mem' \in BootGoesOn(w)
        /\ t.then # "boot" => mem' = w
    BY DEF SurfacedRemoved
  <1>3. misfired \subseteq misfired'
    BY DEF SurfacedRemoved, history
  <1>4. Fine(mem, k) => With(w, k, {t}) /\ \A n : Quiets(w, n) => Quiets(mem, n)
    BY Resumes
  <1> HIDE DEF w, k
  <1>5. Fine(mem, k) => Fine(w, k)
    BY <1>1, <1>2, <1>4, SurfacerGone
  <1>6. \A j \in Jobs : Fine(mem, j) => Fine(w, j)
    BY <1>1, <1>5 DEF Turns
  <1>7. CASE t.then = "boot"
    BY <1>1, <1>2, <1>3, <1>6, <1>7, BootKept
  <1>8. CASE t.then # "boot"
    <2>1. Adders(w) = Adders(mem)
      BY <1>1, <1>2, <1>8 DEF Adders
    <2>2. \A j \in Jobs \ {k} : Rests(mem, j) => Rests(w, j)
      BY <1>1 DEF Turns
    <2>3. Quiets(w, w)
      BY DEF Quiets
    <2>4. mem' = w
      BY <1>2, <1>8
    <2>5. QED BY <1>1, <1>3, <1>4, <1>6, <2>1, <2>2, <2>3, <2>4, SparesKept
  <1>9. QED BY <1>7, <1>8

(* A job of the list is to be imported: it is queued.                      *)
LEMMA RecoverSavedKept ==
    ASSUME Orderly, NEW t \in mem.threads, RecoverSaved(t)
    PROVE  Kept
  <1> DEFINE w == Woken(t)
             k == t.job
             q == Queue(w, k)
  <1>1. k \in Jobs /\ Sound(w) /\ build \in Nat /\ Turns(mem, w, k)
    BY WokenIs DEF Orderly, TypeOK
  <1>2. t.at = "recovered" /\ mem' \in BootGoesOn(q)
    BY DEF RecoverSaved
  <1>3. misfired \subseteq misfired'
    BY DEF RecoverSaved, history
  <1>4. Fine(mem, k) => With(w, k, {t})
    BY Resumes
  <1> HIDE DEF w, k
  <1>5. t.at \in Arriving
    BY <1>2 DEF Arriving
  <1>6. Fine(mem, k) => Fine(q, k)
    BY <1>1, <1>4, <1>5, ArriverQueued
  <1>7. Moves(w, q, k) /\ Sound(q)
    BY <1>1, QueueIs DEF Moves
  <1> HIDE DEF q
  <1>8. \A j \in Jobs : Fine(mem, j) => Fine(q, j)
    BY <1>1, <1>6, <1>7 DEF Turns, Moves
  <1>9. QED BY <1>1, <1>2, <1>3, <1>7, <1>8, BootKept

(* A thread comes, and nobody is harmed.                                   *)
Comes(m, n, u) ==
    /\ \A j \in Jobs : Fine(m, j) => Fine(n, j)
    /\ \E v \in n.threads : v.at = u.at /\ v.then = u.then

(* A job that was not there comes with its first thread.                   *)
LEMMA AppearsFine ==
    ASSUME NEW m, Sound(m), NEW k \in Jobs, m.job[k].state = "absent",
           NEW r \in JobRecords, NEW u \in Threads, u.job = k, u.att = 0,
           u.then = "boot" => u.at \in Booting,
           (r.state = "queued" /\ u.at \in Arriving) \/ (r.state = "done" /\ u.at = "surfaced")
    PROVE  Comes(m, Save([m EXCEPT !.job[k] = r], u), u)
  <1> DEFINE f == [m EXCEPT !.job[k] = r]
             n == Save(f, u)
             v == Saving(f, u)
  <1>0. ~Allowed(m, k)
    BY DEF Sound
  <1>1. /\ Sound(f) /\ Known(f) = Known(m) \cup {k} /\ f.job[k] = r
        /\ \A j \in Jobs \ {k} : Fine(m, j) => Fine(f, j)
        /\ f.queue = m.queue /\ f.pcm = m.pcm /\ f.slot = m.slot
        /\ f.consumer = m.consumer /\ f.att = m.att /\ f.made = m.made
        /\ f.decoder = m.decoder /\ f.threads = m.threads
    BY <1>0, JobIs
  <1>2. Save(f, u) = Await(f, v)
    BY DEF Save, Saving
  <1> HIDE DEF f
  <1>3. f \in Memories /\ f.made[k] \in Nat
    BY <1>1 DEF Sound, Memories
  <1>4. v \in Threads /\ v.at = u.at /\ v.then = u.then
    BY <1>3, SavingIs
  <1> HIDE DEF v
  <1>5. n.threads = f.threads \cup {v}
    BY <1>2, <1>3, <1>4, AwaitIs
  <1>6. Turns(f, n, k)
    BY <1>1, <1>3, SaveTurns
  <1>7. ASSUME Fine(m, k) PROVE Fine(n, k)
    <2>1. Blank(m, k) /\ Mine(m, k) = {}
      BY <1>7, AbsentIsBlank
    <2>2. Blank(f, k) /\ Mine(f, k) = {}
      BY <1>1, <2>1 DEF Blank, Mine, Queued, Allowed
    <2>3. ASSUME NEW x, x.at = u.at, x.job = k PROVE FineWith(f, k, Mine(f, k) \cup {x})
      <3>1. Mine(f, k) \cup {x} = {x}
        BY <2>2
      <3>2. CASE r.state = "queued" /\ u.at \in Arriving
        BY <1>1, <2>2, <2>3, <3>1, <3>2, BlankIsFine
      <3>3. CASE r.state = "done" /\ u.at = "surfaced"
        <4>1. FineWith(f, k, {})
          BY <1>1, <2>2, <3>3, BlankIsFine
        <4>2. FineWith(f, k, {} \cup {x})
          BY <2>3, <3>3, <4>1, IdlerJoins
        <4>3. QED BY <2>2, <4>2
      <3>4. QED BY <3>2, <3>3
    <2> HIDE DEF n
    <2>4. QED BY <1>1, <2>3, SaveFine DEF n
  <1> HIDE DEF n
  <1>8. \A j \in Jobs : Fine(m, j) => Fine(n, j)
    BY <1>1, <1>6, <1>7 DEF Turns
  <1>9. Comes(m, n, u)
    BY <1>4, <1>5, <1>8 DEF Comes
  <1>10. QED BY <1>9 DEF n, f

(* A batch goes on with its next job.                                      *)
LEMMA CreateFine ==
    ASSUME NEW m, Sound(m), build \in Nat, NEW b \in Seq(Jobs), b # <<>>,
           Head(b) \notin Known(m), NEW low \in BOOLEAN
    PROVE  LET n == Create(m, b, low) IN
           (\A j \in Jobs : Fine(m, j) => Fine(n, j)) /\ Adders(n) # {}
  <1> DEFINE k == Head(b)
             x == IF low THEN m.lows + 1 ELSE m.lows
             d == [m EXCEPT !.batch = Tail(b)]
             e == [d EXCEPT !.lows = x]
             r == Fresh(low)
             f == [e EXCEPT !.job[k] = r]
             u == Thread("created", k, 0)
             n == Save(f, u)
  <1>0. m \in Memories /\ m.lows \in Nat /\ x \in Nat
    BY DEF Sound, Memories
  <1>1. k \in Jobs /\ Tail(b) \in Seq(Jobs)
    OBVIOUS
  <1>2. Create(m, b, low) = n
    <2>1. [m EXCEPT !.batch = Tail(b), !.lows = IF low THEN @ + 1 ELSE @, !.job[k] = r] = f
      BY <1>0 DEF Memories
    <2>2. QED BY <2>1 DEF Create, Fresh
  <1>3. m.job[k].state = "absent"
    BY <1>1 DEF Known
  <1> HIDE DEF x, k
  <1>4. /\ d \in Memories
        /\ d.job = m.job /\ d.queue = m.queue /\ d.pcm = m.pcm /\ d.slot = m.slot
        /\ d.active = m.active
        /\ d.consumer = m.consumer /\ d.att = m.att /\ d.made = m.made
        /\ d.decoder = m.decoder /\ d.threads = m.threads /\ d.lows = m.lows
    BY <1>0, <1>1 DEF Memories
  <1> HIDE DEF d
  <1>5. /\ e \in Memories
        /\ e.job = m.job /\ e.queue = m.queue /\ e.pcm = m.pcm /\ e.slot = m.slot
        /\ e.consumer = m.consumer /\ e.att = m.att /\ e.made = m.made
        /\ e.decoder = m.decoder /\ e.threads = m.threads
    BY <1>0, <1>4 DEF Memories
  <1> HIDE DEF e
  <1>6. Sound(e) /\ \A j \in Jobs : Fine(m, j) => Fine(e, j)
    BY <1>5, ListsAre
  <1>7. r \in JobRecords /\ r.state = "queued"
    <2>1. <<>> \in Seq(Units)
      OBVIOUS
    <2>2. QED BY <2>1 DEF JobRecords, JobStates, NoJob, Errors, Fresh
  <1> HIDE DEF r
  <1>8. u \in Threads /\ u.at = "created" /\ u.job = k /\ u.att = 0 /\ u.then = "none"
    BY <1>1, ThreadIs DEF Points, Arriving
  <1>9. "created" \in Arriving
    BY DEF Arriving
  <1> HIDE DEF u
  <1>10. Comes(e, n, u)
    <2>1. e.job[k].state = "absent"
      BY <1>3, <1>5
    <2>2. u.then = "boot" => u.at \in Booting
      BY <1>8
    <2>3. (r.state = "queued" /\ u.at \in Arriving) \/ (r.state = "done" /\ u.at = "surfaced")
      BY <1>7, <1>8, <1>9
    <2>4. /\ k \in Jobs /\ Sound(e) /\ r \in JobRecords /\ u \in Threads /\ u.job = k
          /\ u.att = 0
      BY <1>1, <1>6, <1>7, <1>8
    <2>5. QED BY <2>1, <2>2, <2>3, <2>4, AppearsFine
  <1> HIDE DEF n
  <1>11. Adders(n) # {} /\ \A j \in Jobs : Fine(e, j) => Fine(n, j)
    BY <1>8, <1>10 DEF Comes, Adders
  <1>12. QED BY <1>2, <1>6, <1>11

(* A process that has just started.                                        *)
LEMMA NewProcessFine ==
    ASSUME NEW rest \in Seq(Jobs)
    PROVE  LET n == NewProcess(rest) IN \A j \in Jobs : Fine(n, j) /\ Rests(n, j)
  <1> DEFINE n == NewProcess(rest)
  <1>1. /\ n.queue = <<>> /\ n.pcm = [j \in Jobs |-> 0] /\ n.slot = {} /\ n.consumer = {}
        /\ n.att = [j \in Jobs |-> NoAttempt] /\ n.decoder = [j \in Jobs |-> NoDecoder]
        /\ n.threads = {}
    BY DEF NewProcess
  <1>2. \A j \in Jobs : n.job[j].state = "absent"
    BY NewProcessIs
  <1> HIDE DEF n
  <1>3. \A j : ~Queued(n, j)
    BY <1>1 DEF Queued, Contains
  <1>4. ASSUME NEW j \in Jobs PROVE Fine(n, j)
    <2>1. ~NoAttempt.accepting /\ ~NoAttempt.tailAllowed /\ NoDecoder.att = 0
      BY DEF NoAttempt, NoDecoder
    <2>2. Blank(n, j) /\ Mine(n, j) = {}
      BY <1>1, <1>3, <2>1 DEF Blank, Allowed, Mine
    <2>3. FineWith(n, j, {})
      BY <1>2, <2>2, BlankIsFine
    <2>4. QED BY <2>2, <2>3 DEF Fine
  <1>5. QED BY <1>3, <1>4 DEF Rests, n

(* A job of a batch has its checkpoint: it is queued, and the next comes.  *)
LEMMA CreatedKept ==
    ASSUME Orderly, NEW t \in mem.threads, Created(t)
    PROVE  Kept
  <1> DEFINE w == Woken(t)
             k == t.job
             q == Queue(w, k)
             m == IF k \in mem.slot THEN w ELSE q
  <1>1. /\ k \in Jobs /\ Sound(w) /\ Turns(mem, w, k) /\ build \in Nat /\ w.slot = mem.slot
        /\ w.batch = mem.batch
    BY WokenIs DEF Orderly, TypeOK
  <1>2. /\ t.at = "created"
        /\ \/ mem' \in Pumped(m)
           \/ m.batch # <<>> /\ \E low \in Readings(m, TRUE) : mem' = Create(m, m.batch, low)
    BY DEF Created
  <1>3. misfired \subseteq misfired'
    BY DEF Created, history
  <1>4. Fine(mem, k) => With(w, k, {t})
    BY Resumes
  <1> HIDE DEF w, k
  <1>5. Moves(w, q, k) /\ q.batch = w.batch
    BY <1>1, QueueIs
  <1>6. t.at \in Arriving
    BY <1>2 DEF Arriving
  <1>7. ASSUME Fine(mem, k) PROVE k \notin mem.slot /\ Fine(q, k)
    <2>1. FineWith(w, k, Mine(w, k) \cup {t})
      BY <1>4, <1>7 DEF With
    <2>2. k \notin w.slot
      BY <1>2, <2>1 DEF FineWith, AudioHeld
    <2>3. QED BY <1>1, <1>4, <1>6, <1>7, <2>2, ArriverQueued
  <1> HIDE DEF q
  <1>8. /\ Sound(m) /\ m.batch = mem.batch /\ Known(m) = Known(mem)
        /\ \A j \in Jobs : Fine(mem, j) => Fine(m, j)
    <2>1. Turns(mem, q, k)
      BY <1>1, <1>5, TurnsThenMoves
    <2>2. CASE k \in mem.slot
      BY <1>1, <1>7, <2>2 DEF Turns
    <2>3. CASE k \notin mem.slot
      BY <1>1, <1>5, <1>7, <2>1, <2>3 DEF Turns
    <2>4. QED BY <2>2, <2>3
  <1> HIDE DEF m
  <1>9. CASE mem' \in Pumped(m)
    <2>1. \A j \in Jobs : (Fine(m, j) => Fine(mem', j)) /\ Rests(mem', j)
      BY <1>1, <1>8, <1>9, PumpedFine, PumpedRests
    <2>2. QED BY <1>3, <1>8, <2>1 DEF Kept
  <1>10. CASE m.batch # <<>> /\ \E low \in Readings(m, TRUE) : mem' = Create(m, m.batch, low)
    <2> DEFINE b == mem.batch
    <2>1. PICK low \in BOOLEAN : mem' = Create(m, b, low)
      BY <1>8, <1>10 DEF Readings
    <2>2. b # <<>> /\ b \in Seq(Jobs) /\ IsInjective(b)
      BY <1>8, <1>10 DEF Orderly, TypeOK, Memories, Orders
    <2>3. Head(b) \in Range(b)
      BY <2>2, RestOf
    <2>4. Head(b) \notin Known(m)
      BY <1>8, <2>3 DEF Orderly, Orders
    <2> HIDE DEF b
    <2>5. /\ \A j \in Jobs : Fine(m, j) => Fine(mem', j)
          /\ Adders(mem') # {}
      BY <1>1, <1>8, <2>1, <2>2, <2>4, CreateFine
    <2>6. Adding'
      BY <2>5, AddingIs
    <2>7. QED BY <1>3, <1>8, <2>5, <2>6 DEF Kept
  <1>11. QED BY <1>2, <1>9, <1>10

(* The user picks recordings.                                              *)
LEMMA StartManyKept ==
    ASSUME Orderly, NEW b \in SetToAllKPermutations(Jobs), StartMany(b)
    PROVE  Kept
  <1>1. Sound(mem) /\ build \in Nat
    BY DEF Orderly, TypeOK
  <1>2. b \in Seq(Jobs) /\ IsInjective(b) /\ Range(b) \subseteq Jobs
    <2>1. PICK S \in SUBSET Jobs : b \in SetToSeqs(S)
      BY DEF SetToAllKPermutations
    <2>2. QED BY <2>1, PermutationIs
  <1>3. b # <<>> /\ Range(b) \cap started = {} /\ misfired' = misfired
    BY DEF StartMany, history
  <1>4. PICK low \in BOOLEAN : mem' = Create(mem, b, low)
    BY DEF StartMany, Readings
  <1>5. Head(b) \in Range(b) /\ Known(mem) \subseteq started
    BY <1>2, <1>3, RestOf DEF Orderly, Orders
  <1>6. Head(b) \notin Known(mem)
    BY <1>3, <1>5
  <1>7. /\ \A j \in Jobs : Fine(mem, j) => Fine(mem', j)
        /\ Adders(mem') # {}
    BY <1>1, <1>2, <1>3, <1>4, <1>6, CreateFine
  <1>8. Adding'
    BY <1>7, AddingIs
  <1>9. QED BY <1>3, <1>7, <1>8 DEF Kept

(* A checkpoint of the last process is loaded.                             *)
LEMMA RecoverKept ==
    ASSUME Orderly, Recover
    PROVE  Kept
  <1> DEFINE b == mem.boot
             j == Head(b)
             saved == disk[j]
             d == [mem EXCEPT !.boot = Tail(b)]
             finished == [saved EXCEPT !.state = "done"]
             queued == Requeued(saved)
             e == [d EXCEPT !.job[j] = saved]
  <1>1. Sound(mem) /\ mem \in Memories /\ build \in Nat
    BY DEF Orderly, TypeOK
  <1>2. b # <<>> /\ b \in Seq(Jobs) /\ IsInjective(b)
    BY <1>1 DEF Recover, Memories, Orderly, Orders
  <1>3. j \in Jobs /\ j \in Range(b) /\ Tail(b) \in Seq(Jobs)
    BY <1>2, RestOf
  <1>4. j \notin Known(mem) /\ disk[j] # None
    BY <1>3 DEF Orderly, Orders
  <1>5. saved \in JobRecords
    BY <1>3, <1>4 DEF Orderly, TypeOK
  <1>6. misfired \subseteq misfired'
    BY DEF Recover, history
  <1> HIDE DEF saved
  <1>7. finished \in JobRecords /\ finished.state = "done"
    BY <1>5 DEF JobRecords, JobStates
  <1>8. queued \in JobRecords /\ queued.state = "queued"
    BY <1>1, <1>5, RequeuedIs
  <1>9. \/ Terminal(saved.state) /\ mem' \in BootGoesOn(e)
        \/ mem' = Save([d EXCEPT !.job[j] = finished], BootThread("surfaced", j))
        \/ mem' = Save([d EXCEPT !.job[j] = queued], BootThread("recovered", j))
    <2> DEFINE m == [mem EXCEPT !.boot = Tail(b), !.job[j] = saved]
    <2>1. mem' \in IF Terminal(saved.state) THEN BootGoesOn(m)
                   ELSE IF saved.file /\ saved.state \in {"recapping", "saving"}
                   THEN {Save([m EXCEPT !.job[j].state = "done"], BootThread("surfaced", j))}
                   ELSE {Save([m EXCEPT !.job[j] = Requeued(@)], BootThread("recovered", j))}
      BY DEF Recover, saved
    <2>2. m.job[j] = saved /\ m.job = [mem.job EXCEPT ![j] = saved]
      BY <1>1, <1>3 DEF Memories
    <2>3. m = e
      BY <1>1, <1>3 DEF Memories
    <2>4. [m EXCEPT !.job[j].state = "done"] = [d EXCEPT !.job[j] = finished]
      BY <1>1, <1>3, <2>2 DEF Memories
    <2>5. [m EXCEPT !.job[j] = Requeued(@)] = [d EXCEPT !.job[j] = queued]
      BY <1>1, <1>3, <2>2 DEF Memories
    <2> HIDE DEF m, d, e, finished, queued
    <2>6. QED BY <2>1, <2>3, <2>4, <2>5
  <1> HIDE DEF finished, queued, b
  <1>10. /\ d \in Memories
         /\ d.job = mem.job /\ d.queue = mem.queue /\ d.pcm = mem.pcm /\ d.slot = mem.slot
         /\ d.consumer = mem.consumer /\ d.att = mem.att /\ d.made = mem.made
         /\ d.decoder = mem.decoder /\ d.threads = mem.threads
    BY <1>1, <1>3 DEF Memories
  <1> HIDE DEF d, j
  <1>11. Sound(d) /\ \A i \in Jobs : Fine(mem, i) => Fine(d, i)
    BY <1>1, <1>10, ListsAre
  <1>12. d.job[j].state = "absent"
    BY <1>3, <1>4, <1>10 DEF Known
  <1>13. ~Allowed(d, j)
    BY <1>3, <1>11, <1>12 DEF Sound
  <1>14. CASE Terminal(saved.state) /\ mem' \in BootGoesOn(e)
    <2>1. saved.state \in {"done", "failed", "cancelled"}
      BY <1>14 DEF Terminal
    <2>2. /\ Sound(e) /\ e.job[j] = saved
          /\ \A i \in Jobs \ {j} : Fine(d, i) => Fine(e, i)
          /\ e.queue = d.queue /\ e.pcm = d.pcm /\ e.slot = d.slot
          /\ e.consumer = d.consumer /\ e.att = d.att /\ e.made = d.made
          /\ e.decoder = d.decoder /\ e.threads = d.threads
      <3>1. saved.state # "absent"
        BY <2>1
      <3>2. Allowed(d, j) => saved.state \notin {"cancelled", "failed"}
        BY <1>13
      <3>3. Sound(d)
        BY <1>11
      <3> HIDE DEF j, d, saved
      <3>4. /\ Sound(e) /\ Known(e) = Known(d) \cup {j} /\ e.job[j] = saved
            /\ Apart(d, e, j)
            /\ \A i \in Jobs \ {j} : Fine(d, i) => Fine(e, i)
            /\ e.queue = d.queue /\ e.pcm = d.pcm /\ e.slot = d.slot /\ e.active = d.active
            /\ e.consumer = d.consumer /\ e.att = d.att /\ e.made = d.made
            /\ e.decoder = d.decoder /\ e.threads = d.threads
            /\ e.batch = d.batch /\ e.boot = d.boot
        <4>1. j \in Jobs
          BY <1>3
        <4>2. QED BY <4>1, <1>5, <3>1, <3>2, <3>3, JobIs
      <3> HIDE DEF e
      <3>5. QED BY <3>4
    <2> HIDE DEF e
    <2>3. ASSUME Fine(d, j) PROVE Fine(e, j)
      <3>1. Blank(d, j) /\ Mine(d, j) = {}
        BY <1>3, <1>11, <1>12, <2>3, AbsentIsBlank
      <3>2. Blank(e, j) /\ Mine(e, j) = {}
        BY <2>2, <3>1 DEF Blank, Mine, Queued, Allowed
      <3>3. FineWith(e, j, {})
        BY <2>1, <2>2, <3>2, BlankIsFine
      <3>4. QED BY <3>2, <3>3 DEF Fine
    <2>4. \A i \in Jobs : Fine(mem, i) => Fine(e, i)
      BY <1>11, <2>2, <2>3
    <2>5. QED BY <1>1, <1>6, <1>14, <2>2, <2>4, BootKept
  <1>15. ASSUME NEW at \in {"surfaced", "recovered"}, NEW r \in JobRecords,
                r.state = IF at = "surfaced" THEN "done" ELSE "queued",
                mem' = Save([d EXCEPT !.job[j] = r], BootThread(at, j))
         PROVE  Kept
    <2> DEFINE v == Thread(at, j, 0)
               u == BootThread(at, j)
    <2>1. v \in Threads /\ v.at = at /\ v.job = j /\ v.att = 0
      <3>1. at \in Points
        BY DEF Points, Arriving
      <3>2. QED BY <1>3, <3>1, ThreadIs
    <2>2. u \in Threads /\ u.at = at /\ u.job = j /\ u.att = 0 /\ u.then = "boot"
      <3> HIDE DEF v
      <3>1. u = [v EXCEPT !.then = "boot"]
        BY DEF BootThread, v
      <3>2. QED BY <2>1, <3>1 DEF Threads
    <2>3. mem' = Save([d EXCEPT !.job[j] = r], u)
      BY <1>15
    <2> HIDE DEF u, v
    <2>4. u.at \in Booting
      BY <2>2 DEF Booting
    <2>5. (r.state = "queued" /\ u.at \in Arriving) \/ (r.state = "done" /\ u.at = "surfaced")
      BY <1>15, <2>2 DEF Arriving
    <2>6. Comes(d, mem', u)
      BY <1>3, <1>11, <1>12, <2>2, <2>3, <2>4, <2>5, AppearsFine
    <2>7. Adders(mem') # {}
      BY <2>2, <2>6 DEF Comes, Adders
    <2>8. Adding'
      BY <2>7, AddingIs
    <2>9. QED BY <1>6, <1>11, <2>6, <2>8 DEF Comes, Kept
  <1>16. QED BY <1>7, <1>8, <1>9, <1>14, <1>15

(* A crash, after which nothing is there but the list.                     *)
LEMMA CrashKept ==
    ASSUME Orderly, Crash
    PROVE  Kept
  <1>1. PICK rest \in SetToSeqs({j \in Jobs : disk[j] # None}) : mem' = NewProcess(rest)
    BY DEF Crash
  <1>2. rest \in Seq(Jobs)
    BY <1>1, PermutationIs
  <1>3. \A j \in Jobs : Fine(mem', j) /\ Rests(mem', j)
    BY <1>1, <1>2, NewProcessFine
  <1>4. misfired' = misfired
    BY DEF Crash
  <1>5. QED BY <1>3, <1>4 DEF Kept

-----------------------------------------------------------------------------
(* Every step keeps what is Fine, and leaves nobody waiting for a free     *)
(* slot unless the queue is still being added to.                          *)
LEMMA NextKeepsIt ==
    ASSUME Orderly, [Next]_vars
    PROVE  Kept \/ UNCHANGED vars
  <1>1. ASSUME NEW t \in mem.threads, Goes(t) PROVE Kept
    <2>1. CASE Created(t)
      BY <2>1, CreatedKept
    <2>2. CASE Admitted(t)
      BY <2>2, AdmittedKept
    <2>3. CASE MeetingSaved(t)
      BY <2>3, MeetingSavedKept
    <2>4. CASE FailSaved(t) \/ ClaimSaved(t) \/ AdmissionThrows(t)
      BY <2>4, FailureKept
    <2>5. CASE ChunkSaved(t) \/ SlabHeard(t) \/ SlabNotHeard(t) \/ ChunkThrew(t)
      BY <2>5, ChunksKept
    <2>6. CASE \/ FinishDecoding(t) \/ WindowsSaved(t) \/ WindowHeard(t) \/ WindowNotHeard(t)
               \/ Consumed(t)
      BY <2>6, WindowsKept
    <2>7. CASE \/ CheckpointSaved(t) \/ Recapped(t) \/ Ingested(t) \/ CheckpointRemoved(t)
               \/ FileDeleted(t) \/ Abandoned(t) \/ TailThrows(t)
      BY <2>7, TailKept
    <2>8. CASE ResumeSaved(t) \/ CancelSaved(t) \/ CancelRemoved(t) \/ CancelEnds(t)
      BY <2>8, RequestKept
    <2>9. CASE RecoverSaved(t)
      BY <2>9, RecoverSavedKept
    <2>10. CASE SurfacedSaved(t)
      BY <2>10, SurfacedSavedKept
    <2>11. CASE SurfacedRemoved(t)
      BY <2>11, SurfacedRemovedKept
    <2>12. QED BY <1>1, <2>1, <2>2, <2>3, <2>4, <2>5, <2>6, <2>7, <2>8, <2>9, <2>10, <2>11 DEF Goes
  <1>2. ASSUME NEW j \in Jobs, Chunk(j) \/ DecoderStops(j) \/ Complete(j) \/ Resume(j) \/ Cancel(j)
        PROVE  Kept
    BY <1>2, CallKept
  <1>3. ASSUME NEW t \in mem.threads, TailWriteFails(t) PROVE Kept
    BY <1>3, TailKept
  <1>4. CASE Recover
    BY <1>4, RecoverKept
  <1>5. CASE Crash
    BY <1>5, CrashKept
  <1>6. ASSUME NEW b \in SetToAllKPermutations(Jobs), StartMany(b) PROVE Kept
    BY <1>6, StartManyKept
  <1>7. QED BY <1>1, <1>2, <1>3, <1>4, <1>5, <1>6 DEF Next, System

(* Nobody waits for a free slot when each job rests.                       *)
LEMMA CalmRests ==
    ASSUME NEW m, NEW js
    PROVE  Calm(m, js) <=> \A j \in js : Rests(m, j)
  BY DEF Calm, Rests

(* A new process is Fine, and Kept makes IInv inductive.                   *)
LEMMA InitIsIInv == Init => IInv
  <1> SUFFICES ASSUME Init PROVE IInv
    OBVIOUS
  <1>1. Orderly
    BY InitIsOrderly
  <1>2. <<>> \in Seq(Jobs) /\ mem = NewProcess(<<>>)
    BY DEF Init
  <1>3. \A j \in Jobs : Fine(mem, j) /\ Rests(mem, j)
    BY <1>2, NewProcessFine
  <1>4. Calm(mem, Jobs \ misfired)
    BY <1>3, CalmRests
  <1>5. QED BY <1>1, <1>3, <1>4 DEF Orderly, IInv

(* With Kept and Orderly, every step keeps the invariant.                  *)
LEMMA NextKeepsIInv == IInv /\ [Next]_vars => IInv'
  <1> SUFFICES ASSUME IInv, [Next]_vars PROVE IInv'
    OBVIOUS
  <1>1. Orderly /\ Orderly'
    BY NextIsOrderly DEF IInv, Orderly
  <1>2. CASE Kept
    <2>1. \A j \in Jobs \ misfired' : Fine(mem, j) /\ Fine(mem', j)
      BY <1>2 DEF Kept, IInv
    <2>2. Adding \/ \A j \in Jobs \ misfired : Rests(mem, j)
      BY CalmRests DEF IInv
    <2>3. Adding' \/ \A j \in Jobs \ misfired' : Rests(mem', j)
      BY <1>2, <2>1, <2>2 DEF Kept
    <2>4. Adding' \/ Calm(mem', Jobs \ misfired')
      BY <2>3, CalmRests
    <2>5. QED BY <1>1, <2>1, <2>4 DEF Orderly, IInv
  <1>3. CASE UNCHANGED vars
    <2>1. mem' = mem /\ misfired' = misfired
      BY <1>3 DEF vars, history
    <2>2. Adding' <=> Adding
      BY <2>1 DEF Adding, At
    <2>3. QED BY <1>1, <2>1, <2>2 DEF Orderly, IInv
  <1>4. QED BY <1>1, <1>2, <1>3, NextKeepsIt

(* Who holds audio has the slot or is about to be stopped.                 *)
LEMMA FineHoldsOne == IInv => OneRecordingInMemory
  <1> SUFFICES ASSUME IInv PROVE OneRecordingInMemory
    OBVIOUS
  <1>1. Sound(mem) /\ mem \in Memories
    BY DEF IInv, Sound
  <1>2. ASSUME NEW j \in Jobs \ misfired, j \in mem.consumer PROVE j \in mem.slot
    BY <1>2 DEF IInv, Fine, FineWith, AudioHeld
  <1>3. ASSUME NEW j \in Jobs \ (mem.slot \cup misfired), mem.pcm[j] > 0 PROVE Stopping(j)
    <2>1. mem.att[j].accepting \/ Stops(Mine(mem, j))
      BY <1>3 DEF IInv, Fine, FineWith, AudioHeld
    <2>2. ~mem.att[j].accepting
      BY <1>1, <1>3 DEF Sound
    <2>3. QED BY <2>1, <2>2 DEF Stops, Mine, Ending, Stopping
  <1>4. mem.consumer \subseteq Jobs
    BY <1>1 DEF Memories
  <1>5. \A j, k \in mem.slot : j = k
    BY <1>1 DEF Sound
  <1>6. QED BY <1>2, <1>3, <1>4, <1>5 DEF OneRecordingInMemory

(* Who is not over has a step coming or waits for a slot that is taken.    *)
LEMMA FineIsServed == IInv => NobodyIsStuck
  <1> SUFFICES ASSUME IInv PROVE NobodyIsStuck
    OBVIOUS
  <1>1. mem \in Memories
    BY DEF IInv, TypeOK
  <1>2. \A j \in Jobs : ~Served(j) => Mine(mem, j) = {} /\ ~Idles(mem, j)
    BY DEF Served, Mine, Idles
  <1>3. ASSUME NEW j \in mem.slot \ misfired, ~Served(j) PROVE FALSE
    <2>1. j \in Jobs
      BY <1>1 DEF Memories
    <2>2. AttemptServed(mem, j, {}) /\ AudioHeld(mem, j, {}) /\ ~Idles(mem, j)
      BY <1>2, <1>3, <2>1 DEF IInv, Fine, FineWith
    <2>3. ~mem.att[j].accepting
      BY <2>2 DEF AttemptServed
    <2>4. QED BY <1>3, <2>2, <2>3 DEF AudioHeld, Stops
  <1>4. ASSUME NEW j \in Known(mem) \ misfired, ~IsOver(mem, j), ~Served(j)
        PROVE  j \in Range(mem.queue) /\ (mem.slot # {} \/ Adding)
    <2>1. j \in Jobs /\ mem.job[j].state # "absent"
      BY DEF Known
    <2>2. AttemptServed(mem, j, {}) /\ StateKnown(mem, j, {}) /\ ~Idles(mem, j)
      BY <1>2, <1>4, <2>1 DEF IInv, Fine, FineWith
    <2>3. ~mem.att[j].accepting
      BY <2>2 DEF AttemptServed
    <2>4. mem.job[j].state \notin {"decoding", "transcribing", "saving", "recapping"}
      BY <2>2, <2>3 DEF StateKnown
    <2>5. mem.job[j].state \in JobStates
      BY <1>1, <2>1 DEF Memories, JobRecords
    <2>6. mem.job[j].state = "queued"
      BY <1>4, <2>1, <2>4, <2>5 DEF IsOver, Terminal, JobStates
    <2>7. Queued(mem, j)
      BY <2>2, <2>6 DEF StateKnown
    <2>8. j \in Range(mem.queue)
      <3>1. mem.queue \in Seq(Jobs)
        BY <1>1 DEF Memories
      <3>2. QED BY <2>7, <3>1 DEF Queued, Contains, Range
    <2>9. mem.slot # {} \/ Adding
      BY <1>4, <2>1, <2>6, <2>7 DEF IInv, Calm
    <2>10. QED BY <2>8, <2>9
  <1>5. QED BY <1>3, <1>4 DEF NobodyIsStuck

-----------------------------------------------------------------------------
(* The theorems.                                                           *)

(* At every await at most one thread works on an import that no late       *)
(* admission has failed; its state, its attempt, its audio and its decoder *)
(* agree on who that is, or who will come; and with nothing left to add to *)
(* the queue nobody waits for a free slot.                                 *)
THEOREM ImportsAreFine == Spec => []IInv
  <1>1. Init => IInv
    BY InitIsIInv
  <1>2. IInv /\ [Next]_vars => IInv'
    BY NextKeepsIInv
  <1>3. QED BY <1>1, <1>2, PTL DEF Spec

(* The audio of one recording is in memory: whoever cancels, fails or      *)
(* resumes it, the slot is not given away while its PCM is still held but  *)
(* by a stop that is about to drop it.                                     *)
THEOREM OneRecordingIsHeld == Spec => []OneRecordingInMemory
  BY ImportsAreFine, FineHoldsOne, PTL

(* No import is forgotten: on every way a decode can end, pump() is called *)
(* or someone who will call it is on its way.                              *)
THEOREM EveryImportIsServed == Spec => []NobodyIsStuck
  BY ImportsAreFine, FineIsServed, PTL

-----------------------------------------------------------------------------
(* The meeting file.  A stretch decides nothing about it: it carries.      *)

(* The states that a job may be in once it has a meeting file, and where   *)
(* its tail is while the file is there.                                    *)
Filed == {"saving", "recapping", "done", "failed", "cancelled"}
Bearing == {"saved", "recapping", "recap", "ingest", "abandoning"}

(* A job that has its file is not decoded again.                           *)
Settled(m, j) ==
    m.job[j].file =>
        /\ m.job[j].state \in Filed /\ ~Allowed(m, j)
        /\ (Queued(m, j) => IsOver(m, j))

(* No record of a job says that it has its file and is still to be decoded.*)
Truthful(r) == r # None => (r.file => r.state \in Filed)

(* A thread t that may join those of j in m: it starts no tail for a job   *)
(* that has its file, and writes nothing for one that is cancelled.        *)
Joins(m, j, t) ==
    /\ t.at \notin Bearing \cup {"abandoned"}
    /\ Settled(m, j) =>
          /\ Truthful(t.rec)
          /\ t.at = "saveMeeting" => ~m.job[j].file /\ m.job[j].state # "cancelled"
    /\ m.job[j].state = "cancelled" => t.rec = None

(* From m to n the file of j is neither made nor dropped, j is neither     *)
(* cancelled nor brought back, and its threads go on.                      *)
Carries(m, n, j) ==
    /\ n.job[j].file = m.job[j].file
    /\ n.job[j].state = "cancelled" <=> m.job[j].state = "cancelled"
    /\ Settled(m, j) => Settled(n, j)
    /\ Mine(m, j) \subseteq Mine(n, j)
    /\ \A t \in Mine(n, j) \ Mine(m, j) : Joins(m, j, t)

Bears(m, n) == Sound(n) /\ Keeps(m, n) /\ \A j \in Jobs : Carries(m, n, j)

(* A job with the same record, threads and place in the queue carries.     *)
LEMMA CarriesPlain ==
    ASSUME NEW m, NEW n, NEW j, n.job[j] = m.job[j], Mine(n, j) = Mine(m, j),
           Allowed(n, j) => Allowed(m, j), Queued(n, j) => Queued(m, j)
    PROVE  Carries(m, n, j)
  BY DEF Carries, Settled, IsOver

(* One stretch after another carries what both do.                         *)
LEMMA CarriesTwice ==
    ASSUME NEW m, NEW n, NEW p, NEW j, Carries(m, n, j), Carries(n, p, j)
    PROVE  Carries(m, p, j)
  <1>1. ASSUME NEW t \in Mine(p, j) \ Mine(m, j) PROVE Joins(m, j, t)
    <2>1. CASE t \in Mine(n, j)
      BY <1>1, <2>1 DEF Carries
    <2>2. CASE t \notin Mine(n, j)
      BY <1>1, <2>2 DEF Carries, Joins
    <2>3. QED BY <2>1, <2>2
  <1>2. QED BY <1>1 DEF Carries

(* The same for all jobs.                                                  *)
LEMMA BearsTwice ==
    ASSUME NEW m, NEW n, NEW p, Sound(m), Bears(m, n), Bears(n, p)
    PROVE  Bears(m, p)
  <1>1. \A j \in Jobs : m.made[j] \in Nat /\ n.made[j] \in Nat /\ p.made[j] \in Nat
    BY DEF Bears, Sound, Memories
  <1>2. \A j \in Jobs : m.made[j] <= p.made[j]
    BY <1>1 DEF Bears, Keeps
  <1>3. \A j \in Jobs : Carries(m, p, j)
    BY CarriesTwice DEF Bears
  <1>4. QED BY <1>2, <1>3 DEF Bears, Keeps

(* Nothing done.                                                           *)
LEMMA BearsNot ==
    ASSUME NEW m, Sound(m)
    PROVE  Bears(m, m)
  <1>1. \A j \in Jobs : m.made[j] <= m.made[j]
    BY DEF Sound, Memories
  <1>2. \A j : Carries(m, m, j)
    BY CarriesPlain
  <1>3. QED BY <1>1, <1>2 DEF Bears, Keeps

(* What a stretch leaves of a job that is known.                           *)
LEMMA BearsKeeps ==
    ASSUME NEW m, NEW n, NEW k \in Jobs, NEW a \in Nat, Sound(m), Bears(m, n)
    PROVE  /\ Sound(n)
           /\ k \in Known(m) => k \in Known(n)
           /\ a <= m.made[k] => a <= n.made[k]
           /\ n.job[k].state = "cancelled" <=> m.job[k].state = "cancelled"
  <1>1. m.made[k] \in Nat /\ n.made[k] \in Nat /\ m.made[k] <= n.made[k]
    BY DEF Bears, Keeps, Sound, Memories
  <1>2. QED BY <1>1 DEF Bears, Keeps, Carries

(* A change of k alone carries if it does for k.                           *)
LEMMA ApartBears ==
    ASSUME NEW m, NEW n, NEW k \in Jobs, Sound(n), Keeps(m, n), Apart(m, n, k), Carries(m, n, k)
    PROVE  Bears(m, n)
  <1>1. ASSUME NEW j \in Jobs \ {k} PROVE Carries(m, n, j)
    BY CarriesPlain DEF Apart, Allowed, Queued
  <1>2. QED BY <1>1 DEF Bears

(* One that touches neither the record of k nor the threads carries.       *)
LEMMA PlainBears ==
    ASSUME NEW m, NEW n, NEW k \in Jobs, Sound(n), Keeps(m, n), Apart(m, n, k),
           n.job = m.job, n.threads = m.threads, Allowed(n, k) => Allowed(m, k)
    PROVE  Bears(m, n)
  <1>1. Carries(m, n, k)
    BY CarriesPlain DEF Apart, Queued, Mine
  <1>2. QED BY <1>1, ApartBears

(* A job that the pump takes has no file, if it is settled.                *)
LEMMA TakenCarries ==
    ASSUME NEW m, NEW n, NEW j, Takes(m, n, j)
    PROVE  Carries(m, n, j)
  <1>1. /\ Queued(m, j) /\ ~IsOver(m, j)
        /\ n.job[j].state = "decoding" /\ n.job[j].file = m.job[j].file
    BY DEF Takes
  <1>2. PICK u \in Threads : /\ u.at = "claimed" /\ Mine(n, j) = Mine(m, j) \cup {u}
                             /\ u.rec = n.job[j]
    BY DEF Takes
  <1>3. m.job[j].state # "cancelled"
    BY <1>1 DEF IsOver, Terminal
  <1>4. Settled(m, j) => ~m.job[j].file
    BY <1>1 DEF Settled
  <1>5. Settled(m, j) => Settled(n, j)
    BY <1>1, <1>4 DEF Settled
  <1>6. Joins(m, j, u)
    BY <1>1, <1>2, <1>3, <1>4 DEF Joins, Truthful, Bearing
  <1>7. QED BY <1>1, <1>2, <1>3, <1>5, <1>6 DEF Carries

(* So the pump carries.                                                    *)
LEMMA PumpBears ==
    ASSUME NEW m, NEW n, Sound(m), build \in Nat, n \in Pumped(m)
    PROVE  Bears(m, n)
  <1>1. Sound(n) /\ Keeps(m, n) /\ \A j \in Jobs : Same(m, n, j) \/ Takes(m, n, j)
    BY PumpedIs
  <1>2. ASSUME NEW j \in Jobs PROVE Carries(m, n, j)
    <2>1. CASE Same(m, n, j)
      BY <2>1, CarriesPlain DEF Same, Allowed
    <2>2. QED BY <1>1, <2>1, TakenCarries
  <1>3. QED BY <1>1, <1>2 DEF Bears

(* A pump after a stretch.                                                 *)
LEMMA PumpBearsAfter ==
    ASSUME NEW m, NEW n, NEW p, Sound(m), build \in Nat, Bears(m, n), p \in Pumped(n)
    PROVE  Bears(m, p)
  <1>1. Bears(n, p)
    BY PumpBears DEF Bears
  <1>2. QED BY <1>1, BearsTwice

(* A retired attempt.                                                      *)
LEMMA RetireBears ==
    ASSUME NEW m, NEW k \in Jobs, NEW a, Sound(m)
    PROVE  Bears(m, Retire(m, k, a))
  <1> DEFINE n == Retire(m, k, a)
  <1>1. Moves(m, n, k)
    BY RetireMoves
  <1>2. /\ Apart(m, n, k)
        /\ m.att[k].id = a => n.att[k] = NoAttempt
        /\ m.att[k].id # a => n = m
        /\ n.job = m.job /\ n.threads = m.threads
    BY RetireIs DEF Sound
  <1> HIDE DEF n
  <1>3. Allowed(n, k) => Allowed(m, k)
    BY <1>2 DEF Allowed, NoAttempt
  <1>4. Bears(m, n)
    BY <1>1, <1>2, <1>3, PlainBears DEF Moves
  <1>5. QED BY <1>4 DEF n

(* A thread that joins.                                                    *)
LEMMA JoinBears ==
    ASSUME NEW m, NEW u \in Threads, Sound(m), u.job \in Known(m), u.att <= m.made[u.job],
           u.at # "created", u.then # "boot", Joins(m, u.job, u)
    PROVE  Bears(m, Await(m, u))
  <1> DEFINE n == Await(m, u)
             k == u.job
  <1>1. Moves(m, n, k) /\ k \in Jobs
    BY JoinMoves DEF Threads
  <1>2. /\ Apart(m, n, k) /\ n.threads = m.threads \cup {u}
        /\ n.job = m.job /\ n.att = m.att /\ n.queue = m.queue
    BY JoinIs DEF Sound
  <1> HIDE DEF n
  <1>3. Mine(n, k) = Mine(m, k) \cup {u}
    BY <1>2 DEF Mine
  <1>4. Carries(m, n, k)
    BY <1>2, <1>3 DEF Carries, Settled, Allowed, Queued, IsOver
  <1>5. Bears(m, n)
    BY <1>1, <1>2, <1>4, ApartBears DEF Moves
  <1>6. QED BY <1>5 DEF n

(* A thread that joins with nothing to write, or to write the job.         *)
Working == Points \ (Bearing \cup {"created", "saveMeeting", "abandoned"})

LEMMA WorkerBears ==
    ASSUME NEW m, NEW u \in Threads, Sound(m), u.job \in Known(m), u.att <= m.made[u.job],
           u.at \in Working, u.then # "boot", u.rec = None
    PROVE  Bears(m, Await(m, u))
  <1>1. Joins(m, u.job, u)
    BY DEF Joins, Truthful, Working
  <1>2. QED BY <1>1, JoinBears DEF Working

LEMMA SaveBears ==
    ASSUME NEW m, NEW u \in Threads, Sound(m), u.job \in Known(m), u.att <= m.made[u.job],
           u.at \in Working, u.then # "boot", m.job[u.job].state # "cancelled"
    PROVE  Bears(m, Save(m, u))
  <1> DEFINE v == Saving(m, u)
  <1>1. Save(m, u) = Await(m, v)
    BY DEF Save, Saving
  <1>2. v \in Threads /\ v.at = u.at /\ v.job = u.job /\ v.att = u.att /\ v.then = u.then
        /\ v.rec = m.job[u.job]
    BY SavingIs DEF Sound
  <1> HIDE DEF v
  <1>3. Joins(m, v.job, v)
    BY <1>2 DEF Joins, Truthful, Working, Settled
  <1>4. QED BY <1>1, <1>2, <1>3, JoinBears DEF Working

(* The threads of an attempt.                                              *)
LEMMA ThreadBears ==
    ASSUME NEW m, NEW at \in Working, NEW k \in Jobs, NEW a \in Nat,
           Sound(m), k \in Known(m), a <= m.made[k]
    PROVE  /\ Bears(m, Await(m, Thread(at, k, a)))
           /\ m.job[k].state # "cancelled" => Bears(m, Save(m, Thread(at, k, a)))
  <1> DEFINE u == Thread(at, k, a)
  <1>1. u \in Threads /\ u.at = at /\ u.job = k /\ u.att = a /\ u.then = "none" /\ u.rec = None
    BY ThreadIs DEF Working
  <1> HIDE DEF u
  <1>2. Bears(m, Await(m, u)) /\ (m.job[k].state # "cancelled" => Bears(m, Save(m, u)))
    BY <1>1, WorkerBears, SaveBears
  <1>3. QED BY <1>2 DEF u

LEMMA ChunkAtBears ==
    ASSUME NEW m, NEW at \in Working, NEW k \in Jobs, NEW a \in Nat, NEW seq \in Nat,
           Sound(m), k \in Known(m), a <= m.made[k]
    PROVE  /\ Bears(m, Await(m, ChunkAt(at, k, a, seq)))
           /\ m.job[k].state # "cancelled" => Bears(m, Save(m, ChunkAt(at, k, a, seq)))
  <1> DEFINE t == Thread(at, k, a)
             u == ChunkAt(at, k, a, seq)
  <1>0. at \in Points
    BY DEF Working
  <1>1. u \in Threads /\ u.at = at /\ u.job = k /\ u.att = a /\ u.then = "none"
    BY <1>0, ChunkAtIs
  <1>2. u.rec = None
    <2>1. t \in Threads /\ t.rec = None
      BY <1>0, ThreadIs
    <2> HIDE DEF t
    <2>2. [t EXCEPT !.seq = seq].rec = None
      BY <2>1 DEF Threads
    <2>3. QED BY <2>2 DEF ChunkAt, t
  <1> HIDE DEF u
  <1>3. Bears(m, Await(m, u)) /\ (m.job[k].state # "cancelled" => Bears(m, Save(m, u)))
    BY <1>1, <1>2, WorkerBears, SaveBears
  <1>4. QED BY <1>3 DEF u

(* fail().                                                                 *)
LEMMA FailBears ==
    ASSUME NEW m, NEW k \in Jobs, NEW e \in Errors, NEW then \in Awaiters,
           Sound(m), k \in Known(m), m.job[k].state # "cancelled"
    PROVE  Bears(m, Fail(m, k, e, then))
  <1> DEFINE n == Fail(m, k, e, then)
  <1>1. Moves(m, n, k)
    BY FailMoves
  <1>2. /\ Apart(m, n, k) /\ Failing(m, n, k, then)
        /\ n.job[k].state = "failed" /\ n.job[k].file = m.job[k].file
        /\ ~n.att[k].accepting /\ ~n.att[k].tailAllowed
    BY FailIs DEF Sound
  <1> HIDE DEF n
  <1>3. PICK u \in Threads : /\ u.at = "failing" /\ u.job = k
                             /\ n.threads = m.threads \cup {u} /\ u.rec = n.job[k]
    BY <1>2 DEF Failing
  <1>4. Mine(n, k) = Mine(m, k) \cup {u}
    BY <1>3 DEF Mine
  <1>5. Joins(m, k, u)
    BY <1>2, <1>3 DEF Joins, Truthful, Bearing, Filed
  <1>6. Settled(n, k)
    BY <1>2 DEF Settled, Filed, Allowed, IsOver, Terminal
  <1>7. Carries(m, n, k)
    BY <1>2, <1>4, <1>5, <1>6 DEF Carries
  <1>8. Bears(m, n)
    BY <1>1, <1>2, <1>7, ApartBears DEF Moves
  <1>9. QED BY <1>8 DEF n

LEMMA FailDecoderBears ==
    ASSUME NEW m, NEW k \in Jobs, Sound(m)
    PROVE  Bears(m, FailDecoder(m, k))
  <1>1. CASE CanFinish(m, k, m.att[k].id) /\ ~IsOver(m, k)
    <2>1. k \in Known(m) /\ m.job[k].state # "cancelled"
      BY <1>1 DEF CanFinish, Sound, Allowed, Known
    <2>2. Bears(m, Fail(m, k, "other", "none"))
      BY <2>1, FailBears DEF Errors, Awaiters
    <2>3. QED BY <2>2, <1>1 DEF FailDecoder
  <1>2. CASE ~(CanFinish(m, k, m.att[k].id) /\ ~IsOver(m, k))
    BY <1>2, BearsNot DEF FailDecoder
  <1>3. QED BY <1>1, <1>2

(* releaseAdmission().                                                     *)
LEMMA ReleaseBears ==
    ASSUME NEW m, NEW k \in Jobs, NEW a, NEW r \in BOOLEAN, Sound(m), build \in Nat,
           NEW n, n \in ReleaseAdmission(m, k, a, r)
    PROVE  Bears(m, n)
  <1>1. CASE n = m
    BY <1>1, BearsNot
  <1>2. ASSUME NEW d, GivenBack(m, d, k, a, r), n \in Pumped(d) PROVE Bears(m, n)
    <2>1. Frees(m, d, k)
      BY <1>2, GivenBackFrees
    <2>2. Apart(m, d, k) /\ d.job = m.job /\ d.threads = m.threads /\ (Allowed(d, k) => Allowed(m, k))
      BY <1>2 DEF GivenBack, Allowed, NoAttempt
    <2>3. Bears(m, d)
      BY <2>1, <2>2, PlainBears DEF Frees
    <2>4. QED BY <1>2, <2>3, PumpBearsAfter
  <1>3. QED BY <1>1, <1>2, ReleaseIs DEF Sound

LEMMA ReleaseDecodeBears ==
    ASSUME NEW m, NEW k \in Jobs, Sound(m), build \in Nat, NEW n, n \in ReleaseDecode(m, k)
    PROVE  Bears(m, n)
  <1>1. CASE m.pcm[k] > 0 \/ k \in m.consumer
    BY <1>1, BearsNot DEF ReleaseDecode
  <1>2. CASE ~(m.pcm[k] > 0 \/ k \in m.consumer)
    BY <1>2, ReleaseBears DEF ReleaseDecode
  <1>3. QED BY <1>1, <1>2
-----------------------------------------------------------------------------
(* The stretches carry.                                                    *)

(* A consumer that begins or ends carries.                                 *)
LEMMA ConsumerBears ==
    ASSUME NEW m, NEW k \in Jobs, NEW S, S = m.consumer \cup {k} \/ S = m.consumer \ {k}, Sound(m)
    PROVE  Bears(m, [m EXCEPT !.consumer = S])
  <1> DEFINE n == [m EXCEPT !.consumer = S]
  <1>0. m \in Memories
    BY DEF Sound
  <1>1. /\ Apart(m, n, k) /\ n.job = m.job /\ n.att = m.att /\ n.threads = m.threads
    BY <1>0, ConsumerSet
  <1>2. Moves(m, n, k)
    BY ConsumerMoves
  <1> HIDE DEF n
  <1>3. Bears(m, n)
    BY <1>1, <1>2, PlainBears DEF Moves, Allowed
  <1>4. QED BY <1>3 DEF n

(* A decode that ends carries.                                             *)
LEMMA ActiveBears ==
    ASSUME NEW m, NEW k \in Jobs, Sound(m)
    PROVE  Bears(m, [m EXCEPT !.active = @ \ {k}])
  <1> DEFINE n == [m EXCEPT !.active = @ \ {k}]
  <1>0. m \in Memories
    BY DEF Sound
  <1>1. /\ Apart(m, n, k) /\ n.job = m.job /\ n.att = m.att /\ n.threads = m.threads
    BY <1>0, ActiveLeft
  <1>2. Moves(m, n, k)
    BY ActiveMoves
  <1> HIDE DEF n
  <1>3. Bears(m, n)
    BY <1>1, <1>2, PlainBears DEF Moves, Allowed
  <1>4. QED BY <1>3 DEF n

(* Audio taken or dropped.                                                 *)
LEMMA PcmBears ==
    ASSUME NEW m, NEW k \in Jobs, NEW r \in Nat, Sound(m)
    PROVE  Bears(m, [m EXCEPT !.pcm[k] = r])
  <1> DEFINE n == [m EXCEPT !.pcm[k] = r]
  <1>0. m \in Memories
    BY DEF Sound
  <1>1. /\ Apart(m, n, k) /\ n.job = m.job /\ n.att = m.att /\ n.threads = m.threads
    BY <1>0, PcmSet
  <1>2. Moves(m, n, k)
    BY PcmMoves
  <1> HIDE DEF n
  <1>3. Bears(m, n)
    BY <1>1, <1>2, PlainBears DEF Moves, Allowed
  <1>4. QED BY <1>3 DEF n

(* What happens to the decoder.                                            *)
LEMMA DecoderBears ==
    ASSUME NEW m, NEW k \in Jobs, NEW r \in Decoders, r.att <= m.made[k], Sound(m)
    PROVE  Bears(m, [m EXCEPT !.decoder[k] = r])
  <1> DEFINE n == [m EXCEPT !.decoder[k] = r]
  <1>0. m \in Memories
    BY DEF Sound
  <1>1. /\ Apart(m, n, k) /\ n.job = m.job /\ n.att = m.att /\ n.threads = m.threads
    BY <1>0, DecoderSet
  <1>2. Moves(m, n, k)
    BY DecoderMoves
  <1> HIDE DEF n
  <1>3. Bears(m, n)
    BY <1>1, <1>2, PlainBears DEF Moves, Allowed
  <1>4. QED BY <1>3 DEF n

(* Dropping the decoder's state carries.                                   *)
LEMMA NoDecoderBears ==
    ASSUME NEW m, NEW k \in Jobs, Sound(m)
    PROVE  Bears(m, [m EXCEPT !.decoder[k] = NoDecoder])
  <1>1. NoDecoder \in Decoders /\ NoDecoder.att = 0
    BY DEF NoDecoder, Decoders
  <1>2. m.made[k] \in Nat
    BY DEF Sound, Memories
  <1> HIDE DEF NoDecoder
  <1>3. NoDecoder.att <= m.made[k]
    BY <1>1, <1>2
  <1>4. QED BY <1>1, <1>3, DecoderBears

(* A job that keeps its file may become what it likes while its attempt is *)
(* allowed, stay in its state, and go on to its end out of the queue.      *)
LEMMA JobBears ==
    ASSUME NEW m, NEW k \in Jobs, NEW r \in JobRecords, Sound(m), k \in Known(m),
           r.state # "absent", r.file = m.job[k].file,
           r.state = "cancelled" <=> m.job[k].state = "cancelled",
           Allowed(m, k) => r.state \notin {"cancelled", "failed"},
           Allowed(m, k) \/ r.state = m.job[k].state \/ (r.state \in Filed /\ ~Queued(m, k))
    PROVE  Bears(m, [m EXCEPT !.job[k] = r])
  <1> DEFINE n == [m EXCEPT !.job[k] = r]
  <1>1. /\ Apart(m, n, k) /\ n.job[k] = r /\ n.att = m.att /\ n.threads = m.threads
        /\ n.queue = m.queue
    BY JobSet DEF Sound
  <1>2. Moves(m, n, k)
    BY JobMoves
  <1> HIDE DEF n
  <1>3. Settled(m, k) => Settled(n, k)
    BY <1>1 DEF Settled, Allowed, Queued, IsOver
  <1>4. Carries(m, n, k)
    BY <1>1, <1>3 DEF Carries, Mine
  <1>5. Bears(m, n)
    BY <1>1, <1>2, <1>4, ApartBears DEF Moves
  <1>6. QED BY <1>5 DEF n

(* The end of a chunk carries.                                             *)
LEMMA LeaveChunkBears ==
    ASSUME NEW m, NEW k \in Jobs, NEW a, Sound(m), build \in Nat,
           NEW n, n \in LeaveChunk(m, k, a)
    PROVE  Bears(m, n)
  <1> DEFINE left == [m EXCEPT !.consumer = @ \ {k}]
  <1>1. Bears(m, left)
    BY ConsumerBears
  <1>2. n = left \/ n \in ReleaseAdmission(left, k, a, FALSE)
    BY DEF LeaveChunk
  <1> HIDE DEF left
  <1>3. CASE n = left
    BY <1>1, <1>3
  <1>4. CASE n \in ReleaseAdmission(left, k, a, FALSE)
    <2>1. Sound(left)
      BY <1>1 DEF Bears
    <2>2. Bears(left, n)
      BY <1>4, <2>1, ReleaseBears
    <2>3. QED BY <1>1, <2>2, BearsTwice
  <1>5. QED BY <1>2, <1>3, <1>4

(* What ingestChunk() does when it returns carries.                        *)
LEMMA ChunkReturnsBears ==
    ASSUME NEW m, NEW k \in Jobs, NEW a, Sound(m), build \in Nat,
           NEW n, n \in ChunkReturns(m, k, a)
    PROVE  Bears(m, n)
  <1> DEFINE r == [m.decoder[k] EXCEPT !.busy = FALSE]
             d == [m EXCEPT !.decoder[k] = r]
             q == [d.decoder[k] EXCEPT !.next = @ + 1]
             e == [d EXCEPT !.decoder[k] = q]
             next == IF m.decoder[k].att = a THEN e ELSE m
  <1>1. n \in LeaveChunk(next, k, a)
    BY DEF ChunkReturns
  <1>2. Bears(m, e)
    <2>0. m \in Memories /\ m.decoder[k] \in Decoders /\ m.decoder[k].att <= m.made[k]
      BY DEF Sound, Memories
    <2>1. r \in Decoders /\ r.att = m.decoder[k].att /\ r.next = m.decoder[k].next
      BY <2>0 DEF Decoders
    <2> HIDE DEF r
    <2>2. Bears(m, d) /\ d.decoder[k] = r
      BY <2>0, <2>1, DecoderBears, DecoderSet
    <2>3. d.made[k] = m.made[k]
      BY <2>0, <2>1, DecoderSet
    <2> HIDE DEF d
    <2>4. q \in Decoders /\ q.att = r.att
      BY <2>1, <2>2 DEF Decoders
    <2> HIDE DEF q
    <2>5. Bears(d, e)
      BY <2>0, <2>1, <2>2, <2>3, <2>4, DecoderBears DEF Bears
    <2>6. QED BY <2>2, <2>5, BearsTwice
  <1> HIDE DEF e
  <1>3. Bears(m, next)
    BY <1>2, BearsNot
  <1> HIDE DEF next
  <1>4. Bears(next, n)
    BY <1>1, <1>3, LeaveChunkBears DEF Bears
  <1>5. QED BY <1>3, <1>4, BearsTwice

(* A refused chunk carries.                                                *)
LEMMA RejectedBears ==
    ASSUME NEW m, NEW k \in Jobs, NEW d, Sound(m)
    PROVE  Bears(m, DecoderRejected(m, k, d))
  <1> DEFINE n == [m EXCEPT !.decoder[k] = NoDecoder]
  <1>1. DecoderRejected(m, k, d) = FailDecoder(n, k) \/ DecoderRejected(m, k, d) = m
    BY DEF DecoderRejected
  <1>2. Bears(m, n)
    BY NoDecoderBears
  <1> HIDE DEF n
  <1>3. Bears(n, FailDecoder(n, k))
    BY <1>2, FailDecoderBears DEF Bears
  <1>4. Bears(m, FailDecoder(n, k))
    BY <1>2, <1>3, BearsTwice
  <1>5. QED BY <1>1, <1>4, BearsNot

(* What ingestChunk() does when it throws carries.                         *)
LEMMA ChunkThrowsBears ==
    ASSUME NEW m, NEW k \in Jobs, NEW a \in Nat, Sound(m), build \in Nat,
           k \in Known(m), a <= m.made[k], NEW n, n \in ChunkThrows(m, k, a)
    PROVE  Bears(m, n)
  <1>1. PICK left \in LeaveChunk(m, k, a) :
           n = Await(left, Thread("threw", k, a)) \/ n = DecoderRejected(left, k, a)
    BY DEF ChunkThrows, Later
  <1>2. Bears(m, left)
    BY <1>1, LeaveChunkBears
  <1>3. Sound(left) /\ k \in Known(left) /\ a <= left.made[k]
    <2>1. m.made[k] \in Nat /\ left.made[k] \in Nat /\ m.made[k] <= left.made[k]
      BY <1>2 DEF Bears, Keeps, Sound, Memories
    <2>2. QED BY <1>2, <2>1 DEF Bears, Keeps
  <1>4. Bears(left, DecoderRejected(left, k, a))
    BY <1>3, RejectedBears
  <1>5. "threw" \in Working
    BY DEF Working, Bearing, Points, Chunking, Windowing
  <1>6. Bears(left, Await(left, Thread("threw", k, a)))
    BY <1>3, <1>5, ThreadBears
  <1>7. Bears(left, n)
    BY <1>1, <1>4, <1>6
  <1>8. QED BY <1>2, <1>7, BearsTwice

(* The thread that saves a meeting of what r says.                         *)
LEMMA SaverIs ==
    ASSUME NEW k \in Jobs, NEW r \in JobRecords
    PROVE  LET u == [Thread("saveMeeting", k, 0) EXCEPT !.rec = r] IN
           /\ u \in Threads /\ u.at = "saveMeeting" /\ u.job = k /\ u.att = 0 /\ u.then = "none"
           /\ u.rec = r
  <1> DEFINE t == Thread("saveMeeting", k, 0)
  <1>1. t \in Threads /\ t.at = "saveMeeting" /\ t.job = k /\ t.att = 0 /\ t.then = "none"
    BY ThreadIs DEF Points, Tailing
  <1> HIDE DEF t
  <1>2. QED BY <1>1 DEF Threads, t

(* Going on to the tail carries: the job is transcribing, so it has no     *)
(* file yet.                                                               *)
LEMMA ToTailBears ==
    ASSUME NEW m, NEW k \in Jobs, NEW a, Sound(m)
    PROVE  Bears(m, ToTail(m, k, a))
  <1> DEFINE left == Retire(m, k, a)
             u == [Thread("saveMeeting", k, 0) EXCEPT !.rec = m.job[k]]
             n == ToTail(m, k, a)
  <1>1. Bears(m, left) /\ left.job = m.job
    BY RetireBears, RetireIs DEF Sound
  <1>2. CASE m.job[k].state = "transcribing" /\ CanFinish(m, k, a)
    <2>1. n = Await(left, u)
      BY <1>2 DEF ToTail
    <2> HIDE DEF left
    <2>2. Sound(left) /\ k \in Known(left) /\ left.made[k] \in Nat /\ m.job[k] \in JobRecords
      BY <1>1, <1>2 DEF Bears, Keeps, Known, Sound, Memories
    <2>3. /\ u \in Threads /\ u.at = "saveMeeting" /\ u.job = k /\ u.att = 0 /\ u.then = "none"
          /\ u.rec = m.job[k]
      BY <2>2, SaverIs
    <2> HIDE DEF u
    <2>4. Joins(left, k, u)
      BY <1>1, <1>2, <2>3 DEF Joins, Settled, Truthful, Filed, Bearing
    <2>5. Bears(left, Await(left, u))
      BY <2>2, <2>3, <2>4, JoinBears
    <2>6. QED BY <1>1, <2>1, <2>5, BearsTwice
  <1>3. CASE ~(m.job[k].state = "transcribing" /\ CanFinish(m, k, a))
    BY <1>1, <1>3 DEF ToTail
  <1>4. QED BY <1>2, <1>3

(* The end of consume() carries.                                           *)
LEMMA ConsumeEndsBears ==
    ASSUME NEW m, NEW k \in Jobs, NEW a \in Nat, NEW ready \in BOOLEAN, Sound(m), build \in Nat,
           k \in Known(m), a <= m.made[k], NEW n, n \in ConsumeEnds(m, k, a, ready)
    PROVE  Bears(m, n)
  <1> DEFINE left == [m EXCEPT !.consumer = @ \ {k}]
             retain == ready /\ CanFinish(left, k, a)
  <1>1. Bears(m, left)
    BY ConsumerBears
  <1>2. PICK p \in ReleaseAdmission(left, k, a, retain) :
           n = Await(p, Thread("tail", k, a)) \/ n = ToTail(p, k, a) \/ n = Retire(p, k, a)
    BY DEF ConsumeEnds, Later
  <1> HIDE DEF left
  <1>3. retain \in BOOLEAN
    BY DEF CanFinish
  <1> HIDE DEF retain
  <1>4. Bears(left, p)
    BY <1>1, <1>2, <1>3, ReleaseBears DEF Bears
  <1>5. Bears(m, p)
    BY <1>1, <1>4, BearsTwice
  <1>6. Sound(p) /\ k \in Known(p) /\ a <= p.made[k]
    BY <1>5, BearsKeeps
  <1>7. "tail" \in Working
    BY DEF Working, Bearing, Points, Chunking, Windowing
  <1>8. /\ Bears(p, Await(p, Thread("tail", k, a)))
        /\ Bears(p, ToTail(p, k, a)) /\ Bears(p, Retire(p, k, a))
    BY <1>6, <1>7, ThreadBears, ToTailBears, RetireBears
  <1>9. Bears(p, n)
    BY <1>2, <1>8
  <1>10. QED BY <1>5, <1>9, BearsTwice

(* A decoder that waits for the next chunk carries.                        *)
LEMMA IdleBears ==
    ASSUME NEW m, NEW k \in Jobs, Sound(m), build \in Nat, NEW n, n \in Idle(m, k)
    PROVE  Bears(m, n)
  <1>1. CASE k \in m.active
    <2> DEFINE d == [m EXCEPT !.active = @ \ {k}]
    <2>1. n \in Pumped(d) /\ Bears(m, d)
      BY <1>1, ActiveBears DEF Idle
    <2> HIDE DEF d
    <2>2. QED BY <2>1, PumpBearsAfter
  <1>2. CASE k \notin m.active
    BY <1>2, BearsNot DEF Idle
  <1>3. QED BY <1>1, <1>2

(* The end of the tail carries.                                            *)
LEMMA TailEndsBears ==
    ASSUME NEW m, NEW k \in Jobs, Sound(m), build \in Nat, NEW n, n \in TailEnds(m, k)
    PROVE  Bears(m, n)
  <1>1. PICK p \in ReleaseDecode(m, k) : n \in Idle(p, k)
    BY DEF TailEnds
  <1>2. Bears(m, p)
    BY <1>1, ReleaseDecodeBears
  <1>3. Bears(p, n)
    BY <1>1, <1>2, IdleBears DEF Bears
  <1>4. QED BY <1>2, <1>3, BearsTwice

(* A failure of the tail carries.                                          *)
LEMMA TailFailsBears ==
    ASSUME NEW m, NEW k \in Jobs, Sound(m), build \in Nat, k \in Known(m),
           NEW n, n \in TailFails(m, k)
    PROVE  Bears(m, n)
  <1>1. CASE m.job[k].state = "cancelled"
    BY <1>1, TailEndsBears DEF TailFails
  <1>2. CASE m.job[k].state # "cancelled"
    <2>1. n = Fail(m, k, "other", "tail")
      BY <1>2 DEF TailFails
    <2>2. QED BY <2>1, <1>2, FailBears DEF Errors, Awaiters
  <1>3. QED BY <1>1, <1>2

(* What its caller does after fail() carries.                              *)
LEMMA AfterFailBears ==
    ASSUME NEW m, NEW t \in Threads, Sound(m), build \in Nat, t.job \in Known(m),
           t.att <= m.made[t.job], NEW n, n \in AfterFail(m, t)
    PROVE  Bears(m, n)
  <1>0. t.job \in Jobs /\ t.att \in Nat
    BY DEF Threads
  <1>1. \/ n \in ChunkThrows(m, t.job, t.att) \/ n = DecoderRejected(m, t.job, t.att)
        \/ n \in ConsumeEnds(m, t.job, t.att, FALSE) \/ n \in TailEnds(m, t.job) \/ n = m
    BY DEF AfterFail
  <1>2. CASE n \in ChunkThrows(m, t.job, t.att)
    BY <1>0, <1>2, ChunkThrowsBears
  <1>3. CASE n = DecoderRejected(m, t.job, t.att)
    BY <1>0, <1>3, RejectedBears
  <1>4. CASE n \in ConsumeEnds(m, t.job, t.att, FALSE)
    BY <1>0, <1>4, ConsumeEndsBears
  <1>5. CASE n \in TailEnds(m, t.job)
    BY <1>0, <1>5, TailEndsBears
  <1>6. CASE n = m
    BY <1>6, BearsNot
  <1>7. QED BY <1>1, <1>2, <1>3, <1>4, <1>5, <1>6

(* decode() carries, whichever decoders it reaps.                          *)
LEMMA DecodeBears ==
    ASSUME NEW m, NEW k \in Jobs, NEW a \in Nat, Sound(m), build \in Nat,
           k \in Known(m), a <= m.made[k], m.job[k].state # "cancelled"
    PROVE  Bears(m, Decode(m, k, a))
  <1> DEFINE n == Decode(m, k, a)
  <1>1. CASE Decoding(m) \ Stale(m, k) # {}
    <2>1. PICK e \in Errors : n = Fail(m, k, e, "none")
      BY <1>1 DEF Decode, Errors
    <2>2. QED BY <2>1, FailBears DEF Awaiters
  <1>2. CASE Decoding(m) \ Stale(m, k) = {}
    <2> DEFINE D == [j \in Jobs |->
                       IF j = k THEN [att |-> a, busy |-> FALSE,
                                      next |-> IF m.job[k].vad THEN 0 ELSE m.job[k].cursor]
                       ELSE NoDecoder]
    <2>1. n = [m EXCEPT !.decoder = D]
      BY <1>2 DEF Decode
    <2>2. n.job = m.job /\ n.threads = m.threads /\ n.att = m.att /\ n.queue = m.queue
      BY <2>1 DEF Sound, Memories
    <2>3. Sound(n) /\ Keeps(m, n)
      BY ReaperMoves
    <2> HIDE DEF n
    <2>4. \A j \in Jobs : Carries(m, n, j)
      BY <2>2, CarriesPlain DEF Mine, Allowed, Queued
    <2>5. Bears(m, n)
      BY <2>3, <2>4 DEF Bears
    <2>6. QED BY <2>5 DEF n
  <1>3. QED BY <1>1, <1>2

(* A job that is known and not cancelled may go to another state of those  *)
(* that allow its attempt to go on.                                        *)
LEMMA StateBears ==
    ASSUME NEW m, NEW k \in Jobs, NEW s \in JobStates \ {"absent", "cancelled", "failed"},
           Sound(m), k \in Known(m), m.job[k].state # "cancelled",
           Allowed(m, k) \/ (s \in Filed /\ ~Queued(m, k))
    PROVE  Bears(m, [m EXCEPT !.job[k].state = s])
  <1> DEFINE r == [m.job[k] EXCEPT !.state = s]
  <1>1. m.job[k] \in JobRecords
    BY DEF Sound, Memories
  <1>2. r \in JobRecords /\ r.state = s /\ r.file = m.job[k].file
    BY <1>1 DEF JobRecords
  <1> HIDE DEF r
  <1>3. Bears(m, [m EXCEPT !.job[k] = r])
    BY <1>2, JobBears
  <1>4. QED BY <1>3 DEF r

(* The next slab carries.                                                  *)
LEMMA NextSlabBears ==
    ASSUME NEW m, NEW k \in Jobs, NEW a \in Nat, NEW seq \in Nat, Sound(m), Accepts(m, k, a)
    PROVE  Bears(m, NextSlab(m, k, a, seq))
  <1>1. Allowed(m, k) /\ k \in Known(m) /\ a <= m.made[k] /\ m.job[k].state # "cancelled"
    BY GoesOn
  <1>2. CASE m.job[k].cursor < seq
    <2>1. "slab" \in Working
      BY DEF Working, Bearing, Points, Chunking, Windowing
    <2>2. QED BY <2>1, <1>1, <1>2, ChunkAtBears DEF NextSlab
  <1>3. ASSUME NEW s \in {"transcribing", "decoding"}
        PROVE  Bears(m, Save([m EXCEPT !.job[k].state = s], ChunkAt(s, k, a, seq)))
    <2> DEFINE d == [m EXCEPT !.job[k].state = s]
    <2>1. Bears(m, d)
      BY <1>1, <1>3, StateBears DEF JobStates
    <2> HIDE DEF d
    <2>2. Sound(d) /\ k \in Known(d) /\ a <= d.made[k] /\ d.job[k].state # "cancelled"
      BY <1>1, <2>1, BearsKeeps
    <2>3. s \in Working
      BY DEF Working, Bearing, Points, Chunking, Windowing
    <2>4. Bears(d, Save(d, ChunkAt(s, k, a, seq)))
      BY <2>2, <2>3, ChunkAtBears
    <2>5. Bears(m, Save(d, ChunkAt(s, k, a, seq)))
      BY <2>1, <2>4, BearsTwice
    <2>6. QED BY <2>5 DEF d
  <1>4. CASE ~(m.job[k].cursor < seq)
    BY <1>3, <1>4 DEF NextSlab
  <1>5. QED BY <1>2, <1>4

(* An accepted chunk carries.                                              *)
LEMMA AcceptBears ==
    ASSUME NEW m, NEW k \in Jobs, NEW a \in Nat, NEW seq \in Nat, Sound(m), build \in Nat,
           Accepts(m, k, a)
    PROVE  Bears(m, Accept(m, k, a, seq))
  <1>1. k \in Known(m) /\ a <= m.made[k] /\ m.job[k].state \notin {"absent", "cancelled", "failed"}
    BY GoesOn
  <1>2. m \in Memories /\ m.decoder[k] \in Decoders /\ m.decoder[k].att <= m.made[k]
        /\ m.pcm[k] \in Nat /\ m.job[k] \in JobRecords
    BY DEF Sound, Memories
  <1> DEFINE c == [m.decoder[k] EXCEPT !.next = @ + 1]
             counted == [m EXCEPT !.decoder[k] = c]
             b == [m.decoder[k] EXCEPT !.busy = TRUE]
             busy == [m EXCEPT !.decoder[k] = b]
             held == [busy EXCEPT !.consumer = @ \cup {k}]
  <1>3. Bears(m, counted)
    <2>1. c \in Decoders /\ c.att = m.decoder[k].att
      BY <1>2 DEF Decoders
    <2> HIDE DEF c
    <2>2. QED BY <1>2, <2>1, DecoderBears
  <1>4. Bears(m, busy) /\ busy.job = m.job /\ busy.att = m.att
    <2>1. b \in Decoders /\ b.att = m.decoder[k].att
      BY <1>2 DEF Decoders
    <2> HIDE DEF b
    <2>2. QED BY <1>2, <2>1, DecoderBears, DecoderSet
  <1> HIDE DEF busy
  <1>5. Bears(m, held) /\ held.job = m.job /\ held.att = m.att
    <2>1. Sound(busy) /\ busy \in Memories
      BY <1>4 DEF Bears, Sound
    <2>2. Bears(busy, held) /\ held.job = busy.job /\ held.att = busy.att
      BY <2>1, ConsumerBears, ConsumerSet
    <2>3. QED BY <1>4, <2>2, BearsTwice
  <1> HIDE DEF held
  <1>6. ASSUME NEW e \in Errors PROVE Bears(m, Fail(busy, k, e, "refused"))
    <2>1. Sound(busy) /\ k \in Known(busy) /\ busy.job[k].state # "cancelled"
      BY <1>1, <1>4 DEF Bears, Keeps
    <2>2. Bears(busy, Fail(busy, k, e, "refused"))
      BY <2>1, FailBears DEF Awaiters
    <2>3. QED BY <1>4, <2>2, BearsTwice
  <1>7. Bears(m, [m EXCEPT !.pcm[k] = @ + 1, !.decoder[k].next = @ + 1])
    <2> DEFINE p == m.pcm[k] + 1
               d == [m EXCEPT !.pcm[k] = p]
               q == [d.decoder[k] EXCEPT !.next = @ + 1]
               e == [d EXCEPT !.decoder[k] = q]
    <2>1. p \in Nat
      BY <1>2
    <2> HIDE DEF p
    <2>2. Bears(m, d) /\ d.decoder = m.decoder /\ d.made = m.made
      BY <1>2, <2>1, PcmBears, PcmSet
    <2> HIDE DEF d
    <2>3. q \in Decoders /\ q.att = m.decoder[k].att
      BY <1>2, <2>2 DEF Decoders
    <2> HIDE DEF q
    <2>4. Bears(d, e)
      BY <1>2, <2>2, <2>3, DecoderBears DEF Bears
    <2>5. Bears(m, e)
      BY <2>2, <2>4, BearsTwice
    <2>6. QED BY <2>5 DEF e, q, d, p
  <1>8. Bears(m, Save([held EXCEPT !.job[k].vad = FALSE, !.job[k].chunkSec = build],
                      ChunkAt("overflow", k, a, seq)))
    <2> DEFINE r == [held.job[k] EXCEPT !.vad = FALSE]
               d == [held EXCEPT !.job[k] = r]
               q == [d.job[k] EXCEPT !.chunkSec = build]
               e == [d EXCEPT !.job[k] = q]
    <2>0. Sound(held) /\ held \in Memories /\ k \in Known(held) /\ a <= held.made[k]
      BY <1>1, <1>5, BearsKeeps DEF Sound
    <2>1. r \in JobRecords /\ r.state = m.job[k].state /\ r.file = m.job[k].file
      BY <1>2, <1>5 DEF JobRecords
    <2> HIDE DEF r
    <2>2. Bears(held, d) /\ d.job[k] = r
      BY <1>1, <2>0, <2>1, <1>5, JobBears, JobSet
    <2>3. Sound(d) /\ k \in Known(d) /\ a <= d.made[k]
      BY <2>0, <2>2, BearsKeeps
    <2> HIDE DEF d
    <2>4. q \in JobRecords /\ q.state = r.state /\ q.file = r.file
      BY <2>1, <2>2 DEF JobRecords
    <2> HIDE DEF q
    <2>5. Bears(d, e)
      <3>1. d.job[k].state = q.state /\ d.job[k].file = q.file /\ q.state \notin {"absent", "cancelled", "failed"}
        BY <1>1, <2>1, <2>2, <2>4
      <3>2. QED BY <2>3, <2>4, <3>1, JobBears
    <2> HIDE DEF e
    <2>6. Sound(e) /\ k \in Known(e) /\ a <= e.made[k] /\ e.job[k].state # "cancelled"
      BY <1>1, <2>1, <2>2, <2>3, <2>5, BearsKeeps
    <2>7. "overflow" \in Working
      BY DEF Working, Bearing, Points, Chunking, Windowing
    <2>8. Bears(e, Save(e, ChunkAt("overflow", k, a, seq)))
      BY <2>6, <2>7, ChunkAtBears
    <2>9. Bears(m, d)
      BY <1>5, <2>2, BearsTwice
    <2>10. Bears(m, e)
      BY <2>5, <2>9, BearsTwice
    <2>11. Bears(m, Save(e, ChunkAt("overflow", k, a, seq)))
      BY <2>8, <2>10, BearsTwice
    <2>12. QED BY <2>11 DEF e, q, d, r
  <1>9. Bears(m, NextSlab(held, k, a, seq))
    <2>1. Sound(held) /\ Accepts(held, k, a)
      BY <1>5 DEF Bears, Accepts
    <2>2. Bears(held, NextSlab(held, k, a, seq))
      BY <2>1, NextSlabBears
    <2>3. QED BY <1>5, <2>2, BearsTwice
  <1>10. PICK e \in Errors :
           \/ Accept(m, k, a, seq) = counted
           \/ Accept(m, k, a, seq) = Fail(busy, k, e, "refused")
           \/ Accept(m, k, a, seq) = [m EXCEPT !.pcm[k] = @ + 1, !.decoder[k].next = @ + 1]
           \/ Accept(m, k, a, seq) = Save([held EXCEPT !.job[k].vad = FALSE, !.job[k].chunkSec = build],
                                          ChunkAt("overflow", k, a, seq))
           \/ Accept(m, k, a, seq) = NextSlab(held, k, a, seq)
    <2>1. \/ Accept(m, k, a, seq) = counted
          \/ \E e \in {"own", "order", "count"} : Accept(m, k, a, seq) = Fail(busy, k, e, "refused")
          \/ Accept(m, k, a, seq) = [m EXCEPT !.pcm[k] = @ + 1, !.decoder[k].next = @ + 1]
          \/ Accept(m, k, a, seq) = Save([held EXCEPT !.job[k].vad = FALSE, !.job[k].chunkSec = build],
                                         ChunkAt("overflow", k, a, seq))
          \/ Accept(m, k, a, seq) = NextSlab(held, k, a, seq)
      BY DEF Accept, counted, busy, held
    <2>2. {"own", "order", "count"} \subseteq Errors /\ "own" \in Errors
      BY DEF Errors
    <2>3. QED BY <2>1, <2>2
  <1>11. QED BY <1>3, <1>6, <1>7, <1>8, <1>9, <1>10

(* A heard unit carries: it changes neither the state nor the file.        *)
LEMMA LineBears ==
    ASSUME NEW m, NEW k \in Jobs, Sound(m), build \in Nat, k \in Known(m)
    PROVE  Bears(m, Line(m, k))
  <1> DEFINE n == Line(m, k)
  <1>1. /\ Moves(m, n, k) /\ n.job[k].state = m.job[k].state /\ n.job[k].file = m.job[k].file
        /\ n.threads = m.threads /\ n.att = m.att /\ n.queue = m.queue /\ Apart(m, n, k)
    BY LineIs
  <1> HIDE DEF n
  <1>2. Carries(m, n, k)
    BY <1>1 DEF Carries, Settled, Mine, Allowed, Queued, IsOver
  <1>3. Bears(m, n)
    BY <1>1, <1>2, ApartBears DEF Moves
  <1>4. QED BY <1>3 DEF n

(* Setting the total changes nothing that others see.                      *)
LEMMA TotalBears ==
    ASSUME NEW m, NEW k \in Jobs, NEW x \in Nat, Sound(m), k \in Known(m)
    PROVE  LET n == [m EXCEPT !.job[k].total = x] IN
           /\ Bears(m, n) /\ n.job[k].state = m.job[k].state /\ n.job[k].file = m.job[k].file
           /\ n.att = m.att
  <1> DEFINE r == [m.job[k] EXCEPT !.total = x]
             n == [m EXCEPT !.job[k] = r]
  <1>1. m \in Memories /\ m.job[k] \in JobRecords /\ m.job[k].state # "absent"
    BY DEF Sound, Memories, Known
  <1>2. r \in JobRecords /\ r.state = m.job[k].state /\ r.file = m.job[k].file
    BY <1>1 DEF JobRecords
  <1> HIDE DEF r
  <1>3. n.job[k] = r /\ n.att = m.att
    BY <1>1, <1>2, JobSet
  <1>5. Bears(m, n)
    BY <1>1, <1>2, JobBears DEF Sound
  <1>4. QED BY <1>2, <1>3, <1>5 DEF n, r

(* The start of consume() carries.                                         *)
LEMMA ConsumeBears ==
    ASSUME NEW m, NEW k \in Jobs, NEW a \in Nat, Sound(m), CanFinish(m, k, a)
    PROVE  Bears(m, Consume(m, k, a))
  <1> DEFINE d1 == [m EXCEPT !.consumer = @ \cup {k}]
             d2 == [d1 EXCEPT !.pcm[k] = 0]
             d3 == [d2 EXCEPT !.job[k].total = Windows]
             d4 == [d3 EXCEPT !.job[k].state = "transcribing"]
             n == Save(d4, Thread("windows", k, a))
  <1>0. Consume(m, k, a) = n
    BY DEF Consume
  <1>1. Allowed(m, k) /\ k \in Known(m) /\ a <= m.made[k] /\ m.job[k].state # "cancelled"
    BY GoesOn
  <1>2. Bears(m, d1) /\ d1.job = m.job /\ d1.att = m.att
    <2>1. m \in Memories
      BY DEF Sound
    <2>2. Bears(m, d1)
      BY ConsumerBears
    <2>3. d1.job = m.job /\ d1.att = m.att
      BY <2>1, ConsumerSet
    <2>4. QED BY <2>2, <2>3
  <1>3. Sound(d1) /\ k \in Known(d1)
    BY <1>1, <1>2, BearsKeeps
  <1> HIDE DEF d1
  <1>4. Bears(d1, d2) /\ d2.job = d1.job /\ d2.att = d1.att
    <2>1. d1 \in Memories
      BY <1>3 DEF Sound
    <2>2. QED BY <2>1, <1>3, PcmBears, PcmSet
  <1>5. Sound(d2) /\ k \in Known(d2)
    BY <1>3, <1>4, BearsKeeps
  <1> HIDE DEF d2
  <1>6. Bears(d2, d3) /\ d3.job[k].state = d2.job[k].state /\ d3.att = d2.att
    BY <1>5, TotalBears, RecordingsHaveSpeech
  <1>7. Sound(d3) /\ k \in Known(d3)
    BY <1>5, <1>6, BearsKeeps
  <1> HIDE DEF d3
  <1>8. Bears(d3, d4)
    BY <1>1, <1>2, <1>4, <1>6, <1>7, StateBears DEF JobStates, Allowed
  <1> HIDE DEF d4
  <1>9. Bears(m, d4)
    <2>1. Bears(m, d2)
      BY <1>2, <1>4, BearsTwice
    <2>2. Bears(m, d3)
      BY <1>6, <2>1, BearsTwice
    <2>3. QED BY <1>8, <2>2, BearsTwice
  <1>10. Sound(d4) /\ k \in Known(d4) /\ a <= d4.made[k] /\ d4.job[k].state # "cancelled"
    BY <1>1, <1>9, BearsKeeps
  <1>11. "windows" \in Working
    BY DEF Working, Bearing, Points, Chunking, Windowing
  <1>12. Bears(d4, n)
    BY <1>10, <1>11, ThreadBears
  <1> HIDE DEF n
  <1>13. Bears(m, n)
    BY <1>9, <1>12, BearsTwice
  <1>14. QED BY <1>0, <1>13

(* The end of a job of slabs carries.                                      *)
LEMMA FinishSlabsBears ==
    ASSUME NEW m, NEW k \in Jobs, NEW own \in BOOLEAN, Sound(m), k \in Known(m),
           m.job[k].state \notin Filed
    PROVE  Bears(m, FinishSlabs(m, k, own))
  <1> DEFINE d == [m EXCEPT !.job[k].total = Slabs]
             u == [Thread("saveMeeting", k, 0) EXCEPT !.rec = m.job[k]]
             n == FinishSlabs(m, k, own)
  <1>1. Bears(m, d) /\ d.job[k].state = m.job[k].state /\ m.job[k].state # "cancelled"
        /\ d.job[k].file = m.job[k].file
    BY TotalBears, RecordingsHaveSpeech DEF Filed
  <1>2. \/ \E e \in {"count", "own"} : n = Fail(m, k, e, "none")
        \/ \E e \in {"short", "own"} : n = Fail(d, k, e, "none")
        \/ n = Await(d, u)
    BY DEF FinishSlabs
  <1> HIDE DEF d, n
  <1>3. ASSUME NEW e \in {"count", "own", "short"}
        PROVE  Bears(m, Fail(m, k, e, "none")) /\ Bears(m, Fail(d, k, e, "none"))
    <2>1. Sound(d) /\ k \in Known(d)
      BY <1>1, BearsKeeps
    <2>2. Bears(m, Fail(m, k, e, "none")) /\ Bears(d, Fail(d, k, e, "none"))
      BY <1>1, <2>1, FailBears DEF Errors, Awaiters
    <2>3. QED BY <1>1, <2>2, BearsTwice
  <1>4. Bears(m, Await(d, u))
    <2>1. m.job[k] \in JobRecords
      BY DEF Sound, Memories
    <2>3. /\ u \in Threads /\ u.job = k /\ u.att = 0 /\ u.at = "saveMeeting" /\ u.then = "none"
          /\ u.rec = m.job[k]
      BY <2>1, SaverIs
    <2> HIDE DEF u
    <2>4. Sound(d) /\ k \in Known(d) /\ d.made[k] \in Nat
      <3>1. Sound(d) /\ k \in Known(d)
        BY <1>1, BearsKeeps
      <3>2. QED BY <3>1 DEF Sound, Memories
    <2>7. Joins(d, k, u)
      BY <1>1, <2>3 DEF Joins, Settled, Truthful, Bearing
    <2>5. Bears(d, Await(d, u))
      BY <2>3, <2>4, <2>7, JoinBears
    <2>6. QED BY <1>1, <2>5, BearsTwice
  <1>5. QED BY <1>2, <1>3, <1>4 DEF n

(* finish() carries.                                                       *)
LEMMA FinishBears ==
    ASSUME NEW m, NEW k \in Jobs, NEW d, Sound(m), build \in Nat,
           NEW n, n \in Finish(m, k, d)
    PROVE  Bears(m, n)
  <1> DEFINE a == m.att[k].id
  <1>0. a \in Nat
    BY DEF Sound, Memories, Attempts
  <1>1. CASE ~CanFinish(m, k, a)
    BY <1>1, BearsNot DEF Finish
  <1>2. CASE CanFinish(m, k, a) /\ IsOver(m, k)
    BY <1>2, ReleaseDecodeBears DEF Finish
  <1>3. CASE CanFinish(m, k, a) /\ ~IsOver(m, k) /\ m.job[k].vad
    <2>1. n = Consume(m, k, a)
      BY <1>3 DEF Finish
    <2> HIDE DEF a
    <2>2. QED BY <2>1, <1>0, <1>3, ConsumeBears
  <1>4. CASE CanFinish(m, k, a) /\ ~IsOver(m, k) /\ ~m.job[k].vad
    <2>1. PICK p \in ReleaseAdmission(m, k, a, TRUE) :
             n = IF CanFinish(p, k, a) /\ p.job[k].state = "decoding"
                 THEN FinishSlabs(Retire(p, k, a), k, a = d) ELSE Retire(p, k, a)
      BY <1>4 DEF Finish
    <2> HIDE DEF a
    <2>2. Bears(m, p)
      BY <2>1, ReleaseBears
    <2>3. Sound(p) /\ Bears(p, Retire(p, k, a))
      BY <2>2, RetireBears DEF Bears
    <2>4. Bears(m, Retire(p, k, a))
      BY <2>2, <2>3, BearsTwice
    <2>5. ASSUME p.job[k].state = "decoding"
          PROVE  Bears(m, FinishSlabs(Retire(p, k, a), k, a = d))
      <3> DEFINE r == Retire(p, k, a)
                 own == a = d
      <3>1. r.job = p.job
        BY <2>3, RetireIs DEF Sound
      <3>2. Sound(r) /\ k \in Known(r) /\ r.job[k].state \notin Filed
        BY <2>3, <2>5, <3>1 DEF Bears, Known, Filed
      <3> HIDE DEF r
      <3>3. own \in BOOLEAN
        OBVIOUS
      <3> HIDE DEF own
      <3>4. Bears(r, FinishSlabs(r, k, own))
        BY <3>2, <3>3, FinishSlabsBears
      <3>5. Bears(m, r)
        BY <2>4 DEF r
      <3>6. Bears(m, FinishSlabs(r, k, own))
        BY <3>4, <3>5, BearsTwice
      <3>7. QED BY <3>6 DEF r, own
    <2>6. QED BY <2>1, <2>4, <2>5
  <1>5. QED BY <1>1, <1>2, <1>3, <1>4

(* The next window carries.                                                *)
LEMMA NextWindowBears ==
    ASSUME NEW m, NEW k \in Jobs, NEW a \in Nat, Sound(m), build \in Nat, k \in Known(m),
           a <= m.made[k], NEW n, n \in NextWindow(m, k, a)
    PROVE  Bears(m, n)
  <1>1. \/ \E ready \in BOOLEAN : n \in ConsumeEnds(m, k, a, ready)
        \/ n = Await(m, Thread("window", k, a))
    BY DEF NextWindow
  <1>2. "window" \in Working
    BY DEF Working, Bearing, Points, Chunking, Windowing
  <1>3. Bears(m, Await(m, Thread("window", k, a)))
    BY <1>2, ThreadBears
  <1>4. QED BY <1>1, <1>3, ConsumeEndsBears

(* recover() going on to the next of its list carries.                     *)
LEMMA BootGoesOnBears ==
    ASSUME NEW m, NEW k \in Jobs, Sound(m), build \in Nat, NEW n, n \in BootGoesOn(m)
    PROVE  Bears(m, n)
  <1>1. n \in Pumped(m) \/ n = m
    BY DEF BootGoesOn
  <1>2. QED BY <1>1, PumpBears, BearsNot
-----------------------------------------------------------------------------
(* What holds of the meetings in every state.                              *)

(* A recording has one meeting file at most, and its job says so, or in    *)
(* its absence its checkpoint, or it was cancelled and its file could not  *)
(* be deleted; d is the checkpoint and f how many files there are.  The    *)
(* tail that is about to save finds none.                                  *)
OneFile(m, j, d, f) ==
    /\ Settled(m, j) /\ Truthful(d) /\ f \in {0, 1}
    /\ f = 1 => \/ m.job[j].file \/ m.job[j].state = "cancelled"
                \/ j \notin Known(m) /\ (d # None => d.file \/ d.state = "cancelled")
    /\ \A t \in Mine(m, j) :
          /\ Truthful(t.rec)
          /\ t.at = "saveMeeting" => ~m.job[j].file /\ (m.job[j].state = "cancelled" => f = 0)
          /\ t.at \in Bearing => f = 1 /\ m.job[j].file

(* Nothing that is written for a cancelled job says that it goes on, and   *)
(* no checkpoint does unless the cancel has yet to replace it.             *)
NoTrace(m, j, d) ==
    m.job[j].state = "cancelled" =>
        /\ \A t \in Mine(m, j) : t.rec # None /\ t.at # "saveMeeting" => Terminal(t.rec.state)
        /\ d = None \/ Terminal(d.state) \/ \E t \in Mine(m, j) : t.at = "cancelling"

(* The file of a cancelled job has a tail that will see to it.             *)
Borne(m, j, f) ==
    m.job[j].state = "cancelled" /\ f > 0 => \E t \in Mine(m, j) : t.at \in Bearing

(* All of it, for the memory m, the checkpoints D, the files F and what    *)
(* has happened so far, h.                                                 *)
PapersOf(m, D, F, h) ==
    /\ \A j \in Jobs \ (h.cut \cup h.misfired) : OneFile(m, j, D[j], F[j])
    /\ \A j \in Jobs : j \notin h.started \/ j \in Range(m.batch) => F[j] = 0
    /\ h.crashes = 0 =>
          /\ m.boot = <<>> /\ h.cut = {}
          /\ \A j \in Jobs : /\ j \notin h.raced => NoTrace(m, j, D[j])
                             /\ j \notin h.stranded \cup h.misfired => Borne(m, j, F[j])

Annals == [started |-> started, crashes |-> crashes, cut |-> cut, raced |-> raced,
           stranded |-> stranded, misfired |-> misfired]
Papers == PapersOf(mem, disk, files, Annals)

(* What a stretch carries stays in order.                                  *)
LEMMA CarriesOneFile ==
    ASSUME NEW m, NEW n, NEW j, NEW d, NEW f, OneFile(m, j, d, f), Carries(m, n, j),
           j \in Known(n) <=> j \in Known(m)
    PROVE  OneFile(n, j, d, f)
  <1>1. /\ Settled(m, j) /\ Settled(n, j) /\ n.job[j].file = m.job[j].file
        /\ n.job[j].state = "cancelled" <=> m.job[j].state = "cancelled"
    BY DEF OneFile, Carries
  <1>2. ASSUME NEW t \in Mine(n, j)
        PROVE  /\ Truthful(t.rec)
               /\ t.at = "saveMeeting" => ~n.job[j].file /\ (n.job[j].state = "cancelled" => f = 0)
               /\ t.at \in Bearing => f = 1 /\ n.job[j].file
    <2>1. CASE t \in Mine(m, j)
      BY <1>1, <2>1 DEF OneFile
    <2>2. CASE t \notin Mine(m, j)
      <3>1. Joins(m, j, t)
        BY <1>2, <2>2 DEF Carries
      <3>2. QED BY <1>1, <3>1 DEF Joins
    <2>3. QED BY <2>1, <2>2
  <1>3. QED BY <1>1, <1>2 DEF OneFile

(* So does what is said of a cancelled job.                                *)
LEMMA CarriesCancelled ==
    ASSUME NEW m, NEW n, NEW j, NEW d, NEW f, Carries(m, n, j)
    PROVE  /\ NoTrace(m, j, d) => NoTrace(n, j, d)
           /\ Borne(m, j, f) => Borne(n, j, f)
  <1>1. Mine(m, j) \subseteq Mine(n, j) /\ (n.job[j].state = "cancelled" <=> m.job[j].state = "cancelled")
    BY DEF Carries
  <1>2. \A t \in Mine(n, j) \ Mine(m, j) : m.job[j].state = "cancelled" => t.rec = None
    BY DEF Carries, Joins
  <1>3. NoTrace(m, j, d) => NoTrace(n, j, d)
    BY <1>1, <1>2 DEF NoTrace
  <1>4. Borne(m, j, f) => Borne(n, j, f)
    BY <1>1 DEF Borne
  <1>5. QED BY <1>3, <1>4

(* A step that is about k, of which it knows that the papers are in order, *)
(* and that carries all others.                                            *)
LEMMA Papered ==
    ASSUME NEW m, NEW D, NEW F, NEW h, PapersOf(m, D, F, h),
           NEW n, NEW E, NEW G, NEW i, NEW k \in Jobs,
           \A j \in Jobs \ {k} : /\ Carries(m, n, j) /\ (j \in Known(n) <=> j \in Known(m))
                                 /\ E[j] = D[j] /\ G[j] = F[j],
           i.crashes = 0 => n.boot = m.boot,
           i.crashes = h.crashes, i.cut = h.cut, h.raced \subseteq i.raced,
           h.stranded \subseteq i.stranded, h.misfired \subseteq i.misfired,
           \A j \in Jobs : j \notin i.started \/ j \in Range(n.batch) =>
               (j \notin h.started \/ j \in Range(m.batch)) /\ G[j] = F[j],
           k \notin i.cut \cup i.misfired => OneFile(n, k, E[k], G[k]),
           i.crashes = 0 /\ k \notin i.raced => NoTrace(n, k, E[k]),
           i.crashes = 0 /\ k \notin i.stranded \cup i.misfired => Borne(n, k, G[k])
    PROVE  PapersOf(n, E, G, i)
  <1>1. ASSUME NEW j \in Jobs \ (i.cut \cup i.misfired) PROVE OneFile(n, j, E[j], G[j])
    <2>1. CASE j = k
      BY <1>1, <2>1
    <2>2. CASE j # k
      <3>1. OneFile(m, j, D[j], F[j])
        BY <1>1 DEF PapersOf
      <3>2. QED BY <2>2, <3>1, CarriesOneFile
    <2>3. QED BY <2>1, <2>2
  <1>2. ASSUME NEW j \in Jobs, j \notin i.started \/ j \in Range(n.batch) PROVE G[j] = 0
    BY <1>2 DEF PapersOf
  <1>3. ASSUME i.crashes = 0, NEW j \in Jobs
        PROVE  /\ j \notin i.raced => NoTrace(n, j, E[j])
               /\ j \notin i.stranded \cup i.misfired => Borne(n, j, G[j])
    <2>1. CASE j = k
      BY <1>3, <2>1
    <2>2. CASE j # k
      <3>1. /\ j \notin i.raced => NoTrace(m, j, D[j])
            /\ j \notin i.stranded \cup i.misfired => Borne(m, j, F[j])
        BY <1>3 DEF PapersOf
      <3>2. QED BY <2>2, <3>1, CarriesCancelled
    <2>3. QED BY <2>1, <2>2
  <1>4. i.crashes = 0 => n.boot = <<>> /\ i.cut = {}
    BY DEF PapersOf
  <1>5. QED BY <1>1, <1>2, <1>3, <1>4 DEF PapersOf

(* A step that hands the papers on.                                        *)
Hands(m, n) ==
    /\ n.boot = m.boot /\ n.batch = m.batch
    /\ \A j \in Jobs : Carries(m, n, j) /\ (j \in Known(n) <=> j \in Known(m))

LEMMA BearsHands ==
    ASSUME NEW m, NEW n, Bears(m, n)
    PROVE  Hands(m, n)
  BY DEF Bears, Keeps, Hands

(* It keeps them in order.                                                 *)
LEMMA HandsPapers ==
    ASSUME NEW m, NEW D, NEW F, NEW h, PapersOf(m, D, F, h), NEW n, Hands(m, n)
    PROVE  PapersOf(n, D, F, h)
  <1>1. /\ n.boot = m.boot /\ n.batch = m.batch
        /\ \A j \in Jobs : Carries(m, n, j) /\ (j \in Known(n) <=> j \in Known(m))
    BY DEF Hands
  <1>2. ASSUME NEW j \in Jobs \ (h.cut \cup h.misfired) PROVE OneFile(n, j, D[j], F[j])
    <2>1. OneFile(m, j, D[j], F[j])
      BY <1>2 DEF PapersOf
    <2>2. QED BY <1>1, <2>1, CarriesOneFile
  <1>3. ASSUME h.crashes = 0, NEW j \in Jobs
        PROVE  /\ j \notin h.raced => NoTrace(n, j, D[j])
               /\ j \notin h.stranded \cup h.misfired => Borne(n, j, F[j])
    <2>1. /\ j \notin h.raced => NoTrace(m, j, D[j])
          /\ j \notin h.stranded \cup h.misfired => Borne(m, j, F[j])
      BY <1>3 DEF PapersOf
    <2>2. QED BY <1>1, <2>1, CarriesCancelled
  <1>4. QED BY <1>1, <1>2, <1>3 DEF PapersOf

(* A thread that wakes: it may write its record, or drop the checkpoint.   *)
Wakes(t) ==
    /\ t \in mem.threads
    /\ \/ Landed(t) /\ t.at # "saveMeeting"
       \/ Unlinked(t) /\ t.at # "cancelling"
       \/ disk' = disk /\ t.at # "cancelling"

(* What it finds: w is the memory without it.                              *)
LEMMA WakesPapers ==
    ASSUME Orderly, Papers, NEW t, Wakes(t)
    PROVE  LET w == Woken(t)
               k == t.job
           IN  /\ \A j \in Jobs \ {k} : /\ Carries(mem, w, j) /\ (j \in Known(w) <=> j \in Known(mem))
                                        /\ disk'[j] = disk[j]
               /\ k \in Jobs /\ k \in started /\ k \notin Range(mem.batch)
               /\ w.boot = mem.boot /\ w.batch = mem.batch
               /\ k \notin cut \cup misfired =>
                     /\ OneFile(w, k, disk'[k], files[k])
                     /\ t.at = "saveMeeting" => files[k] = 0
                     /\ t.at \in Bearing => files[k] = 1 /\ mem.job[k].file
               /\ crashes = 0 /\ k \notin raced => NoTrace(w, k, disk'[k])
               /\ crashes = 0 /\ k \notin stranded \cup misfired =>
                     t.at \in Bearing \/ Borne(w, k, files[k])
  <1> DEFINE w == Woken(t)
             k == t.job
  <1>1. /\ t \in mem.threads /\ k \in Jobs /\ k \in Known(mem) /\ Sound(mem)
        /\ w.threads = mem.threads \ {t} /\ Apart(mem, w, k) /\ w.job = mem.job
        /\ w.att = mem.att /\ w.queue = mem.queue /\ w.boot = mem.boot /\ w.batch = mem.batch
    BY WokenIs DEF Wakes, Orderly
  <1> HIDE DEF w
  <1>2. Mine(w, k) = Mine(mem, k) \ {t} /\ t \in Mine(mem, k)
    BY <1>1 DEF Mine
  <1>3. Known(w) = Known(mem)
    BY <1>1 DEF Known
  <1>4. disk \in [Jobs -> JobRecords \cup {None}]
    BY DEF Orderly, TypeOK
  <1>5. /\ \A j \in Jobs \ {k} : disk'[j] = disk[j]
        /\ disk'[k] \in {disk[k], t.rec, None}
        /\ disk'[k] = None \/ (disk'[k] = t.rec /\ t.at # "saveMeeting")
           \/ (disk'[k] = disk[k] /\ t.at # "cancelling")
    BY <1>1, <1>4 DEF Wakes, Landed, Unlinked
  <1>6. ASSUME NEW j \in Jobs \ {k} PROVE Carries(mem, w, j)
    BY <1>1, CarriesPlain DEF Apart, Allowed, Queued
  <1>7. k \in started /\ k \notin Range(mem.batch)
    BY <1>1 DEF Orderly, Orders
  <1>8. ASSUME k \notin cut \cup misfired
        PROVE  /\ OneFile(w, k, disk'[k], files[k])
               /\ t.at = "saveMeeting" => files[k] = 0
               /\ t.at \in Bearing => files[k] = 1 /\ mem.job[k].file
    <2>1. OneFile(mem, k, disk[k], files[k])
      BY <1>1, <1>8 DEF Papers, PapersOf, Annals
    <2>2. Settled(w, k)
      BY <1>1, <2>1 DEF OneFile, Settled, Allowed, Queued, IsOver
    <2>3. Truthful(disk'[k])
      BY <1>2, <1>5, <2>1 DEF OneFile, Truthful
    <2>4. files[k] = 1 => mem.job[k].file \/ mem.job[k].state = "cancelled"
      BY <1>1, <2>1 DEF OneFile
    <2>5. OneFile(w, k, disk'[k], files[k])
      BY <1>1, <1>2, <2>1, <2>2, <2>3, <2>4 DEF OneFile
    <2>6. QED BY <1>2, <2>1, <2>4, <2>5 DEF OneFile
  <1>9. ASSUME crashes = 0, k \notin raced PROVE NoTrace(w, k, disk'[k])
    <2>1. NoTrace(mem, k, disk[k])
      BY <1>1, <1>9 DEF Papers, PapersOf, Annals
    <2>2. QED BY <1>1, <1>2, <1>5, <2>1 DEF NoTrace
  <1>10. ASSUME crashes = 0, k \notin stranded \cup misfired
         PROVE  t.at \in Bearing \/ Borne(w, k, files[k])
    <2>1. Borne(mem, k, files[k])
      BY <1>1, <1>10 DEF Papers, PapersOf, Annals
    <2>2. QED BY <1>1, <1>2, <2>1 DEF Borne
  <1>11. QED BY <1>1, <1>3, <1>5, <1>6, <1>7, <1>8, <1>9, <1>10 DEF w

(* The step of a thread that does nothing about the meeting.               *)
Keeping == /\ files' = files /\ started' = started /\ crashes' = crashes /\ cut' = cut
           /\ raced' = raced /\ stranded \subseteq stranded' /\ misfired \subseteq misfired'

(* It leaves the papers in order.                                          *)
LEMMA WokenPapers ==
    ASSUME Orderly, Papers, NEW t, Wakes(t), Keeping,
           t.at \in Bearing => t.job \in stranded' \/ mem.job[t.job].state # "cancelled"
    PROVE  PapersOf(Woken(t), disk', files', Annals')
  <1> DEFINE w == Woken(t)
             k == t.job
  <1>1. /\ \A j \in Jobs \ {k} : /\ Carries(mem, w, j) /\ (j \in Known(w) <=> j \in Known(mem))
                                 /\ disk'[j] = disk[j]
        /\ k \in Jobs /\ w.boot = mem.boot /\ w.batch = mem.batch
        /\ k \notin cut \cup misfired => OneFile(w, k, disk'[k], files[k])
        /\ crashes = 0 /\ k \notin raced => NoTrace(w, k, disk'[k])
        /\ crashes = 0 /\ k \notin stranded \cup misfired => t.at \in Bearing \/ Borne(w, k, files[k])
    BY WakesPapers
  <1>2. w.job = mem.job
    BY WokenIs DEF Wakes, Orderly
  <1>3. crashes = 0 /\ k \notin stranded' \cup misfired' => Borne(w, k, files[k])
    BY <1>1, <1>2 DEF Keeping, Borne
  <1> HIDE DEF w
  <1>4. PapersOf(w, disk', files', Annals')
    <2>1. PapersOf(mem, disk, files, Annals)
      BY DEF Papers
    <2>2. /\ Annals'.crashes = Annals.crashes /\ Annals'.cut = Annals.cut
          /\ Annals'.raced = Annals.raced /\ Annals.stranded \subseteq Annals'.stranded
          /\ Annals.misfired \subseteq Annals'.misfired /\ Annals'.started = Annals.started
      BY DEF Keeping, Annals
    <2>3. /\ k \notin Annals'.cut \cup Annals'.misfired => OneFile(w, k, disk'[k], files'[k])
          /\ Annals'.crashes = 0 /\ k \notin Annals'.raced => NoTrace(w, k, disk'[k])
          /\ Annals'.crashes = 0 /\ k \notin Annals'.stranded \cup Annals'.misfired =>
                Borne(w, k, files'[k])
      BY <1>1, <1>3 DEF Keeping, Annals
    <2>4. \A j \in Jobs \ {k} : files'[j] = files[j]
      BY DEF Keeping
    <2>5. \A j \in Jobs : files'[j] = files[j]
      BY DEF Keeping
    <2> HIDE DEF k
    <2>6. QED BY <1>1, <2>1, <2>2, <2>3, <2>4, <2>5, Papered
  <1>5. QED BY <1>4 DEF w

(* And so does what it hands on.                                           *)
LEMMA ThreadPapers ==
    ASSUME Orderly, Papers, NEW t, Wakes(t), Hands(Woken(t), mem'), Keeping,
           t.at \in Bearing => t.job \in stranded' \/ mem.job[t.job].state # "cancelled"
    PROVE  Papers'
  <1>1. PapersOf(Woken(t), disk', files', Annals')
    BY WokenPapers
  <1>2. PapersOf(mem', disk', files', Annals')
    BY <1>1, HandsPapers
  <1>3. QED BY <1>2 DEF Papers

-----------------------------------------------------------------------------
(* The steps that carry the papers on.                                     *)

(* A thread that wakes and does nothing about the meeting.                 *)
Quietly(t) ==
    /\ t \in mem.threads /\ t.at \notin Bearing \cup {"saveMeeting", "cancelling"}
    /\ Landed(t) \/ Unlinked(t) \/ disk' = disk

LEMMA QuietPapers ==
    ASSUME Orderly, Papers, NEW t, Quietly(t), Keeping, Bears(Woken(t), mem')
    PROVE  Papers'
  <1>1. Wakes(t) /\ t.at \notin Bearing
    BY DEF Quietly, Wakes
  <1>2. QED BY <1>1, BearsHands, ThreadPapers

(* The save of a failed job.                                               *)
LEMMA FailSavedPapers ==
    ASSUME Orderly, Papers, NEW t \in mem.threads, FailSaved(t)
    PROVE  Papers'
  <1> DEFINE k == t.job
             w == Woken(t)
             d == [w EXCEPT !.pcm[k] = 0]
  <1>1. t \in Threads /\ k \in Jobs /\ Sound(w) /\ k \in Known(w) /\ t.att <= w.made[k]
        /\ build \in Nat /\ t.att \in Nat
    BY WokenIs DEF Orderly, TypeOK
  <1>2. PICK m \in ReleaseDecode(d, k) :
          \E n \in Idle(IF k \notin m.slot \cup m.consumer THEN Retire(m, k, t.att) ELSE m, k) :
             mem' \in AfterFail(n, t)
    BY DEF FailSaved
  <1> DEFINE r == IF k \notin m.slot \cup m.consumer THEN Retire(m, k, t.att) ELSE m
  <1>3. PICK n \in Idle(r, k) : mem' \in AfterFail(n, t)
    BY <1>2
  <1>4. Quietly(t) /\ Keeping
    BY DEF FailSaved, Quietly, Keeping, bounds, history, Bearing
  <1> HIDE DEF w
  <1>5. Bears(w, d)
    BY <1>1, PcmBears
  <1>6. Sound(d)
    BY <1>5 DEF Bears
  <1> HIDE DEF d
  <1>7. Bears(d, m)
    BY <1>1, <1>2, <1>6, ReleaseDecodeBears
  <1>8. Bears(w, m) /\ Sound(m)
    BY <1>1, <1>5, <1>7, BearsTwice DEF Bears
  <1>9. Bears(m, r)
    BY <1>1, <1>8, RetireBears, BearsNot
  <1>10. Bears(w, r) /\ Sound(r)
    BY <1>1, <1>8, <1>9, BearsTwice DEF Bears
  <1> HIDE DEF r
  <1>11. Bears(r, n)
    BY <1>1, <1>3, <1>10, IdleBears
  <1>12. Bears(w, n)
    BY <1>1, <1>10, <1>11, BearsTwice
  <1>13. Sound(n) /\ k \in Known(n) /\ t.att <= n.made[k]
    BY <1>1, <1>12, BearsKeeps
  <1>14. Bears(n, mem')
    BY <1>1, <1>3, <1>13, AfterFailBears
  <1>15. Bears(w, mem')
    BY <1>1, <1>12, <1>14, BearsTwice
  <1>16. QED BY <1>4, <1>15, QuietPapers DEF w

(* The save of a claimed job, and its admission.                           *)
LEMMA ClaimedPapers ==
    ASSUME Orderly, Papers, NEW t \in mem.threads,
           ClaimSaved(t) \/ Admitted(t) \/ AdmissionThrows(t)
    PROVE  Papers'
  <1> DEFINE w == Woken(t)
             k == t.job
  <1>1. /\ t \in Threads /\ k \in Jobs /\ t.att \in Nat /\ Sound(w) /\ k \in Known(w)
        /\ t.att <= w.made[k] /\ build \in Nat /\ w.job = mem.job /\ Sound(mem)
    BY WokenIs DEF Orderly, TypeOK
  <1>2. Quietly(t) /\ Keeping
    BY DEF ClaimSaved, Admitted, AdmissionThrows, Quietly, Keeping, bounds, history, Bearing
  <1>3. Accepts(mem, k, t.att) => mem.job[k].state # "cancelled"
    BY <1>1 DEF Accepts, Sound, Allowed
  <1>4. \/ mem' = Await(w, Thread("policy", k, t.att))
        \/ mem' = Decode(w, k, t.att) /\ mem.job[k].state # "cancelled"
        \/ mem' = Fail(w, k, "other", "none") /\ mem.job[k].state # "cancelled"
        \/ mem' \in Pumped(w)
    BY <1>3 DEF ClaimSaved, Admitted, AdmissionThrows
  <1> HIDE DEF w, k
  <1>5. CASE mem' = Await(w, Thread("policy", k, t.att))
    <2>1. "policy" \in Working
      BY DEF Working, Points, Starting, Bearing
    <2>2. QED BY <1>1, <1>5, <2>1, ThreadBears, <1>2, QuietPapers DEF w
  <1>6. CASE mem' = Decode(w, k, t.att) /\ mem.job[k].state # "cancelled"
    <2>1. Bears(w, mem')
      BY <1>1, <1>6, DecodeBears
    <2>2. QED BY <1>2, <2>1, QuietPapers DEF w
  <1>7. CASE mem' = Fail(w, k, "other", "none") /\ mem.job[k].state # "cancelled"
    <2>1. Bears(w, mem')
      BY <1>1, <1>7, FailBears DEF Errors, Awaiters
    <2>2. QED BY <1>2, <2>1, QuietPapers DEF w
  <1>8. CASE mem' \in Pumped(w)
    <2>1. Bears(w, mem')
      BY <1>1, <1>8, PumpBears
    <2>2. QED BY <1>2, <2>1, QuietPapers DEF w
  <1>9. QED BY <1>4, <1>5, <1>6, <1>7, <1>8

(* The saves of the work on a chunk.                                       *)
LEMMA ChunkSavedPapers ==
    ASSUME Orderly, Papers, NEW t \in mem.threads, ChunkSaved(t)
    PROVE  Papers'
  <1> DEFINE w == Woken(t)
             k == t.job
             e == [w EXCEPT !.pcm[k] = 0]
             m == IF t.at = "overflow" /\ Accepts(mem, k, t.att) THEN e ELSE w
  <1>1. /\ t \in Threads /\ k \in Jobs /\ t.att \in Nat /\ t.seq \in Nat /\ Sound(w) /\ k \in Known(w)
        /\ t.att <= w.made[k] /\ build \in Nat
    BY WokenIs DEF Orderly, TypeOK
  <1>2. \/ mem' \in ChunkReturns(m, k, t.att)
        \/ mem' = Await(m, ChunkAt("slab", k, t.att, t.seq))
        \/ mem' = NextSlab(m, k, t.att, t.seq) /\ Accepts(m, k, t.att)
    BY DEF ChunkSaved
  <1>3. Quietly(t) /\ Keeping
    <2>1. t.at \notin Bearing \cup {"saveMeeting", "cancelling"}
      BY DEF ChunkSaved, Bearing
    <2>2. QED BY <2>1 DEF ChunkSaved, Quietly, Keeping, bounds, history
  <1> HIDE DEF w
  <1>4. Bears(w, e)
    BY <1>1, PcmBears
  <1>5. Bears(w, m)
    BY <1>1, <1>4, BearsNot
  <1>6. Sound(m) /\ k \in Known(m) /\ t.att <= m.made[k]
    BY <1>1, <1>5, BearsKeeps
  <1> HIDE DEF m
  <1>7. "slab" \in Working
    BY DEF Working, Points, Chunking, Bearing
  <1>8. CASE mem' \in ChunkReturns(m, k, t.att)
    <2>1. Bears(m, mem')
      BY <1>1, <1>6, <1>8, ChunkReturnsBears
    <2>2. QED BY <1>1, <1>3, <1>5, <2>1, BearsTwice, QuietPapers DEF w
  <1>9. CASE mem' = Await(m, ChunkAt("slab", k, t.att, t.seq))
    <2>1. Bears(m, mem')
      BY <1>1, <1>6, <1>7, <1>9, ChunkAtBears
    <2>2. QED BY <1>1, <1>3, <1>5, <2>1, BearsTwice, QuietPapers DEF w
  <1>10. CASE mem' = NextSlab(m, k, t.att, t.seq) /\ Accepts(m, k, t.att)
    <2>1. Bears(m, mem')
      BY <1>1, <1>6, <1>10, NextSlabBears
    <2>2. QED BY <1>1, <1>3, <1>5, <2>1, BearsTwice, QuietPapers DEF w
  <1>11. QED BY <1>2, <1>8, <1>9, <1>10

(* A thread that has transcribed a unit carries.                           *)
LEMMA HeardBears ==
    ASSUME NEW m, NEW t \in Threads, NEW at \in Working, Sound(m), build \in Nat,
           t.job \in Known(m), t.att <= m.made[t.job], t.then # "boot",
           m.job[t.job].state # "cancelled"
    PROVE  Bears(m, Save(Line(m, t.job), [t EXCEPT !.at = at]))
  <1> DEFINE l == Line(m, t.job)
             u == [t EXCEPT !.at = at]
  <1>1. t.job \in Jobs /\ t.att \in Nat
    BY DEF Threads
  <1>2. Bears(m, l)
    BY <1>1, LineBears
  <1>3. Sound(l) /\ t.job \in Known(l) /\ t.att <= l.made[t.job] /\ l.job[t.job].state # "cancelled"
    BY <1>1, <1>2, BearsKeeps
  <1>4. u \in Threads /\ u.at = at /\ u.job = t.job /\ u.att = t.att /\ u.then = t.then
    BY DEF Threads, Working
  <1> HIDE DEF l, u
  <1>5. Bears(l, Save(l, u))
    BY <1>3, <1>4, SaveBears
  <1>6. Bears(m, Save(l, u))
    BY <1>2, <1>5, BearsTwice
  <1>7. QED BY <1>6 DEF l, u

(* What has been transcribed, or has not.                                  *)
LEMMA HeardPapers ==
    ASSUME Orderly, Papers, NEW t \in mem.threads,
           SlabHeard(t) \/ WindowHeard(t) \/ SlabNotHeard(t) \/ WindowNotHeard(t)
    PROVE  Papers'
  <1> DEFINE w == Woken(t)
             k == t.job
  <1>1. /\ t \in Threads /\ k \in Jobs /\ t.att \in Nat /\ Sound(w) /\ k \in Known(w)
        /\ t.att <= w.made[k] /\ build \in Nat /\ w.job = mem.job
    BY WokenIs DEF Orderly, TypeOK
  <1>2. t.then # "boot"
    BY DEF SlabHeard, WindowHeard, SlabNotHeard, WindowNotHeard, Orderly, Sound, Booting
  <1>3. Quietly(t) /\ Keeping
    <2>1. t.at \notin Bearing \cup {"saveMeeting", "cancelling"}
      BY DEF SlabHeard, WindowHeard, SlabNotHeard, WindowNotHeard, Bearing
    <2>2. QED BY <2>1 DEF SlabHeard, WindowHeard, SlabNotHeard, WindowNotHeard, Quietly, Keeping,
                          bounds, history
  <1>4. \/ /\ \E at \in {"heard", "windows"} : mem' = Save(Line(w, k), [t EXCEPT !.at = at])
           /\ w.job[k].state # "cancelled"
        \/ /\ \E then \in Awaiters : mem' = Fail(w, k, "other", then)
           /\ w.job[k].state # "cancelled"
        \/ mem' \in ChunkReturns(w, k, t.att)
        \/ mem' \in ConsumeEnds(w, k, t.att, FALSE)
    <2>1. {"chunk", "consume"} \subseteq Awaiters
      BY DEF Awaiters
    <2>2. Transcribe(mem, k, t.att) => w.job[k].state # "cancelled"
      BY <1>1 DEF Transcribe, IsOver, Terminal
    <2> HIDE DEF w, k
    <2>3. CASE SlabHeard(t)
      BY <2>2, <2>3 DEF SlabHeard, w, k
    <2>4. CASE WindowHeard(t)
      BY <2>2, <2>4 DEF WindowHeard, w, k
    <2>5. CASE SlabNotHeard(t)
      BY <2>1, <2>2, <2>5 DEF SlabNotHeard, w, k
    <2>6. CASE WindowNotHeard(t)
      BY <2>1, <2>2, <2>6 DEF WindowNotHeard, w, k
    <2>7. QED BY <2>3, <2>4, <2>5, <2>6
  <1> HIDE DEF w
  <1>5. {"heard", "windows"} \subseteq Working
    BY DEF Working, Points, Chunking, Windowing, Bearing
  <1>6. Bears(w, mem')
    <2>1. ASSUME NEW at \in {"heard", "windows"}, mem' = Save(Line(w, k), [t EXCEPT !.at = at]),
                 w.job[k].state # "cancelled"
          PROVE  Bears(w, mem')
      BY <1>1, <1>2, <1>5, <2>1, HeardBears
    <2>2. ASSUME NEW then \in Awaiters, mem' = Fail(w, k, "other", then), w.job[k].state # "cancelled"
          PROVE  Bears(w, mem')
      BY <1>1, <2>2, FailBears DEF Errors
    <2>3. QED BY <1>1, <1>4, <2>1, <2>2, ChunkReturnsBears, ConsumeEndsBears
  <1>7. QED BY <1>3, <1>6, QuietPapers DEF w

(* The steps that are one stretch.                                         *)
LEMMA StretchPapers ==
    ASSUME Orderly, Papers, NEW t \in mem.threads,
           \/ ChunkThrew(t) \/ FinishDecoding(t) \/ WindowsSaved(t) \/ Consumed(t)
           \/ CheckpointRemoved(t)
    PROVE  Papers'
  <1> DEFINE w == Woken(t)
  <1>1. /\ t.job \in Jobs /\ t.att \in Nat /\ Sound(w) /\ t.job \in Known(w)
        /\ t.att <= w.made[t.job] /\ build \in Nat
    BY WokenIs DEF Orderly, TypeOK
  <1>2. \/ mem' = DecoderRejected(w, t.job, t.att) \/ mem' \in Finish(w, t.job, t.att)
        \/ mem' \in NextWindow(w, t.job, t.att) \/ mem' = ToTail(w, t.job, t.att)
        \/ mem' \in TailEnds(w, t.job)
    BY DEF ChunkThrew, FinishDecoding, WindowsSaved, Consumed, CheckpointRemoved
  <1>3. Quietly(t) /\ Keeping
    <2>1. t.at \notin Bearing \cup {"saveMeeting", "cancelling"}
      BY DEF ChunkThrew, FinishDecoding, WindowsSaved, Consumed, CheckpointRemoved, Bearing
    <2>2. QED BY <2>1 DEF ChunkThrew, FinishDecoding, WindowsSaved, Consumed, CheckpointRemoved,
                          Quietly, Keeping, bounds, history
  <1> HIDE DEF w
  <1>4. Bears(w, mem')
    BY <1>1, <1>2, RejectedBears, FinishBears, NextWindowBears, ToTailBears, TailEndsBears
  <1>5. QED BY <1>3, <1>4, QuietPapers DEF w

(* A tail that throws, or whose write fails.                               *)
LEMMA TailThrowsPapers ==
    ASSUME Orderly, Papers, NEW t \in mem.threads, TailThrows(t) \/ TailWriteFails(t)
    PROVE  Papers'
  <1> DEFINE w == Woken(t)
  <1>1. /\ t.job \in Jobs /\ Sound(w) /\ t.job \in Known(w) /\ build \in Nat
    BY WokenIs DEF Orderly, TypeOK
  <1>2. mem' \in TailFails(w, t.job) \/ mem' \in TailEnds(w, t.job)
    BY DEF TailThrows, TailWriteFails
  <1>3. Wakes(t)
    BY DEF TailThrows, TailWriteFails, Wakes
  <1>4. Keeping /\ (t.job \in stranded' \/ mem.job[t.job].state # "cancelled")
    BY DEF TailThrows, TailWriteFails, Strands, Keeping, bounds
  <1> HIDE DEF w
  <1>5. Bears(w, mem')
    BY <1>1, <1>2, TailFailsBears, TailEndsBears
  <1>6. QED BY <1>3, <1>4, <1>5, BearsHands, ThreadPapers DEF w

(* The writes of a cancel, and what it closes in the end.                  *)
LEMMA CancelEndsPapers ==
    ASSUME Orderly, Papers, NEW t \in mem.threads,
           CancelSaved(t) \/ CancelRemoved(t) \/ CancelEnds(t)
    PROVE  Papers'
  <1> DEFINE k == t.job
             w == Woken(t)
             d == [w EXCEPT !.decoder[k] = NoDecoder]
             e == [d EXCEPT !.pcm[k] = 0]
  <1>1. /\ k \in Jobs /\ t.att \in Nat /\ Sound(w) /\ k \in Known(w)
        /\ t.att <= w.made[k] /\ build \in Nat
    BY WokenIs DEF Orderly, TypeOK
  <1>2. Wakes(t) /\ Keeping /\ t.at \notin Bearing
    BY DEF CancelSaved, CancelRemoved, CancelEnds, Wakes, Keeping, Bearing, bounds, history
  <1>3. [w EXCEPT !.decoder[k] = NoDecoder, !.pcm[k] = 0] = e
    OBVIOUS
  <1>4. \/ mem' = Await(w, Thread("cancelled", k, t.att))
        \/ mem' = Await(w, Thread("closing", k, t.att))
        \/ CancelEnds(t)
    BY DEF CancelSaved, CancelRemoved
  <1>5. ASSUME CancelEnds(t)
        PROVE  \E m \in ReleaseDecode(e, k) :
                  mem' \in Pumped([(IF k \notin m.slot \cup m.consumer THEN Retire(m, k, t.att) ELSE m)
                                     EXCEPT !.active = @ \ {k}])
    BY <1>3, <1>5 DEF CancelEnds
  <1> HIDE DEF w
  <1>6. {"cancelled", "closing"} \subseteq Working
    BY DEF Working, Points, Ending, Bearing
  <1>7. Bears(w, Await(w, Thread("cancelled", k, t.att))) /\ Bears(w, Await(w, Thread("closing", k, t.att)))
    BY <1>1, <1>6, ThreadBears
  <1>8. ASSUME CancelEnds(t) PROVE Bears(w, mem')
    <2>1. PICK m \in ReleaseDecode(e, k) :
            mem' \in Pumped([(IF k \notin m.slot \cup m.consumer THEN Retire(m, k, t.att) ELSE m)
                               EXCEPT !.active = @ \ {k}])
      BY <1>5, <1>8
    <2> DEFINE r == IF k \notin m.slot \cup m.consumer THEN Retire(m, k, t.att) ELSE m
               p == [r EXCEPT !.active = @ \ {k}]
    <2>2. mem' \in Pumped(p)
      BY <2>1
    <2>3. Bears(w, d) /\ Sound(d)
      BY <1>1, NoDecoderBears DEF Bears
    <2> HIDE DEF d
    <2>4. Bears(d, e)
      BY <1>1, <2>3, PcmBears
    <2>5. Bears(w, e) /\ Sound(e)
      BY <1>1, <2>3, <2>4, BearsTwice DEF Bears
    <2> HIDE DEF e
    <2>6. Bears(e, m)
      BY <1>1, <2>1, <2>5, ReleaseDecodeBears
    <2>7. Bears(w, m) /\ Sound(m)
      BY <1>1, <2>5, <2>6, BearsTwice DEF Bears
    <2>8. Bears(m, r)
      BY <1>1, <2>7, RetireBears, BearsNot
    <2>9. Bears(w, r) /\ Sound(r)
      BY <1>1, <2>7, <2>8, BearsTwice DEF Bears
    <2> HIDE DEF r
    <2>10. Bears(r, p)
      BY <1>1, <2>9, ActiveBears
    <2>11. Bears(w, p) /\ Sound(p)
      BY <1>1, <2>9, <2>10, BearsTwice DEF Bears
    <2> HIDE DEF p
    <2>12. QED BY <1>1, <2>2, <2>11, PumpBearsAfter
  <1>9. Bears(w, mem')
    BY <1>4, <1>7, <1>8
  <1>10. QED BY <1>2, <1>9, BearsHands, ThreadPapers DEF w

(* A thread that joins, also one of recover(), hands the papers on.        *)
LEMMA JoinHands ==
    ASSUME NEW m, NEW u \in Threads, Sound(m), u.job \in Known(m), u.att <= m.made[u.job],
           u.then = "boot" => u.at \in Booting, Joins(m, u.job, u)
    PROVE  Hands(m, Await(m, u))
  <1> DEFINE n == Await(m, u)
             k == u.job
  <1>1. Turns(m, n, k)
    BY JoinTurns
  <1>2. /\ Apart(m, n, k) /\ n.threads = m.threads \cup {u}
        /\ n.job = m.job /\ n.att = m.att /\ n.queue = m.queue
    BY JoinIs DEF Sound
  <1> HIDE DEF n
  <1>3. Mine(n, k) = Mine(m, k) \cup {u}
    BY <1>2 DEF Mine
  <1>4. Carries(m, n, k)
    BY <1>2, <1>3 DEF Carries, Settled, Allowed, Queued, IsOver
  <1>5. ASSUME NEW j \in Jobs \ {k} PROVE Carries(m, n, j)
    BY <1>2, CarriesPlain DEF Apart, Allowed, Queued
  <1>6. Hands(m, n)
    BY <1>1, <1>4, <1>5 DEF Hands, Turns
  <1>7. QED BY <1>6 DEF n

(* A job that was found to be saved, and whose checkpoint has gone.        *)
LEMMA SurfacedPapers ==
    ASSUME Orderly, Papers, NEW t \in mem.threads, SurfacedSaved(t) \/ SurfacedRemoved(t)
    PROVE  Papers'
  <1> DEFINE w == Woken(t)
             u == [t EXCEPT !.at = "closed", !.rec = None]
  <1>1. /\ t \in Threads /\ t.job \in Jobs /\ Sound(w) /\ t.job \in Known(w)
        /\ t.att <= w.made[t.job] /\ build \in Nat
    BY WokenIs DEF Orderly, TypeOK
  <1>2. Wakes(t) /\ Keeping /\ t.at \notin Bearing
    BY DEF SurfacedSaved, SurfacedRemoved, Wakes, Keeping, Bearing, bounds, history
  <1>3. mem' = Await(w, u) \/ mem' \in BootGoesOn(w) \/ mem' = w
    BY DEF SurfacedSaved, SurfacedRemoved
  <1> HIDE DEF w
  <1>4. u \in Threads /\ u.at = "closed" /\ u.job = t.job /\ u.att = t.att /\ u.rec = None
    BY <1>1 DEF Threads, Points
  <1> HIDE DEF u
  <1>5. Joins(w, u.job, u)
    BY <1>4 DEF Joins, Truthful, Bearing
  <1>6. Hands(w, Await(w, u))
    BY <1>1, <1>4, <1>5, JoinHands DEF Booting
  <1>7. Hands(w, mem')
    BY <1>1, <1>3, <1>6, BootGoesOnBears, BearsNot, BearsHands
  <1>8. QED BY <1>2, <1>7, ThreadPapers DEF w

(* A call that carries.                                                    *)
LEMMA CallPapers ==
    ASSUME Papers, Bears(mem, mem'), UNCHANGED <<disk, files, build, bounds, history>>
    PROVE  Papers'
  <1>1. PapersOf(mem', disk, files, Annals)
    BY BearsHands, HandsPapers DEF Papers
  <1>2. Annals' = Annals /\ disk' = disk /\ files' = files
    BY DEF Annals, bounds, history
  <1>3. QED BY <1>1, <1>2 DEF Papers

(* A chunk, and a decoder that stops.                                      *)
LEMMA ChunkPapers ==
    ASSUME Orderly, Papers, NEW j \in Jobs, Chunk(j) \/ DecoderStops(j)
    PROVE  Papers'
  <1> DEFINE d == [mem EXCEPT !.decoder[j] = NoDecoder]
  <1>1. Sound(mem) /\ build \in Nat
    BY DEF Orderly, TypeOK
  <1>2. mem.att[j].id \in Nat /\ mem.decoder[j].next \in Nat
    BY <1>1 DEF Sound, Memories, Attempts, Decoders
  <1>3. \/ mem' = DecoderRejected(mem, j, mem.decoder[j].att)
        \/ /\ mem' = Accept(mem, j, mem.att[j].id, mem.decoder[j].next)
           /\ Accepts(mem, j, mem.att[j].id)
        \/ mem' = FailDecoder(d, j)
    BY DEF Chunk, DecoderStops
  <1>4. Bears(mem, d) /\ Sound(d)
    BY <1>1, NoDecoderBears DEF Bears
  <1> HIDE DEF d
  <1>5. Bears(mem, FailDecoder(d, j))
    BY <1>1, <1>4, FailDecoderBears, BearsTwice
  <1>6. Bears(mem, mem')
    BY <1>1, <1>2, <1>3, <1>5, RejectedBears, AcceptBears
  <1>7. UNCHANGED <<disk, files, build, bounds, history>>
    BY DEF Chunk, DecoderStops
  <1>8. QED BY <1>6, <1>7, CallPapers

(* A decoder that is done.                                                 *)
LEMMA CompletePapers ==
    ASSUME Orderly, Papers, NEW j \in Jobs, Complete(j)
    PROVE  Papers'
  <1> DEFINE d == [mem EXCEPT !.decoder[j] = NoDecoder]
             a == mem.decoder[j].att
  <1>1. Sound(mem) /\ build \in Nat
    BY DEF Orderly, TypeOK
  <1>2. a \in Nat /\ mem.made[j] \in Nat /\ a <= mem.made[j] /\ a > 0
    BY <1>1 DEF Sound, Memories, Decoders, Complete
  <1>3. j \in Known(mem)
    <2>1. mem.made[j] > 0
      BY <1>2
    <2>2. QED BY <1>1, <2>1 DEF Sound
  <1>4. PICK m \in ReleaseDecode(d, j) : mem' \in Later(m, Thread("finish", j, a), Finish(m, j, a))
    BY DEF Complete
  <1>5. Bears(mem, d) /\ Sound(d)
    BY <1>1, NoDecoderBears DEF Bears
  <1> HIDE DEF d, a
  <1>6. Bears(mem, m)
    BY <1>1, <1>4, <1>5, ReleaseDecodeBears, BearsTwice
  <1>7. Sound(m) /\ j \in Known(m) /\ a <= m.made[j]
    BY <1>1, <1>2, <1>3, <1>6, BearsKeeps
  <1>8. mem' = Await(m, Thread("finish", j, a)) \/ mem' \in Finish(m, j, a)
    BY <1>4 DEF Later
  <1>9. "finish" \in Working
    BY DEF Working, Points, Bearing
  <1>10. Bears(m, mem')
    BY <1>1, <1>2, <1>7, <1>8, <1>9, ThreadBears, FinishBears
  <1>11. Bears(mem, mem')
    BY <1>1, <1>6, <1>10, BearsTwice
  <1>12. UNCHANGED <<disk, files, build, bounds, history>>
    BY DEF Complete
  <1>13. QED BY <1>11, <1>12, CallPapers

-----------------------------------------------------------------------------
(* The steps that put a job in the queue.                                  *)

(* A job that waits has no file, and one that was cancelled may have it.   *)
LEMMA QueuePapers ==
    ASSUME NEW m, NEW D, NEW F, NEW h, PapersOf(m, D, F, h), Sound(m), NEW k \in Jobs,
           k \notin h.misfired => m.job[k].state \in {"queued", "cancelled"}
    PROVE  PapersOf(Queue(m, k), D, F, h) /\ Sound(Queue(m, k))
  <1> DEFINE n == Queue(m, k)
  <1>1. /\ Moves(m, n, k)
        /\ \A j \in Jobs \ {k} : Queued(n, j) <=> Queued(m, j)
        /\ n.job = m.job /\ n.att = m.att /\ n.batch = m.batch /\ n.boot = m.boot
        /\ n.threads = m.threads
    BY QueueIs
  <1> HIDE DEF n
  <1>2. Sound(n) /\ Known(n) = Known(m) /\ \A j : Mine(n, j) = Mine(m, j)
    BY <1>1 DEF Moves, Keeps, Mine
  <1>3. ASSUME NEW j \in Jobs \ {k} PROVE Carries(m, n, j)
    BY <1>1, <1>2, CarriesPlain DEF Allowed
  <1>4. k \notin h.cut \cup h.misfired => OneFile(n, k, D[k], F[k])
    <2>1. ASSUME k \notin h.cut \cup h.misfired PROVE OneFile(n, k, D[k], F[k])
      <3>1. OneFile(m, k, D[k], F[k]) /\ m.job[k].state \in {"queued", "cancelled"}
        BY <2>1 DEF PapersOf
      <3>2. Settled(n, k)
        BY <1>1, <3>1 DEF OneFile, Settled, Allowed, Filed, IsOver, Terminal
      <3>3. QED BY <1>1, <1>2, <3>1, <3>2 DEF OneFile
    <2>2. QED BY <2>1
  <1>5. h.crashes = 0 => /\ k \notin h.raced => NoTrace(n, k, D[k])
                         /\ k \notin h.stranded \cup h.misfired => Borne(n, k, F[k])
    BY <1>1, <1>2 DEF PapersOf, NoTrace, Borne
  <1>6. PapersOf(n, D, F, h)
    BY <1>1, <1>2, <1>3, <1>4, <1>5, Papered
  <1>7. QED BY <1>2, <1>6 DEF n

(* What a job is while it arrives.                                         *)
LEMMA ArrivedPapers ==
    ASSUME IInv, Papers, NEW t \in mem.threads, t.at \in Arriving, Landed(t), Keeping
    PROVE  LET w == Woken(t)
               q == Queue(w, t.job)
           IN  /\ PapersOf(w, disk', files', Annals') /\ Sound(w)
               /\ PapersOf(q, disk', files', Annals') /\ Sound(q)
  <1> DEFINE w == Woken(t)
             k == t.job
  <1>1. Orderly
    BY DEF IInv, Orderly
  <1>2. k \in Jobs /\ Sound(w) /\ w.job = mem.job /\ t \in Mine(mem, k)
    BY <1>1, WokenIs DEF Orderly, Mine
  <1>3. t.at \notin Bearing \cup {"saveMeeting"}
    BY DEF Arriving, Bearing
  <1>4. PapersOf(w, disk', files', Annals')
    BY <1>1, <1>3, WokenPapers DEF Wakes
  <1>5. k \notin Annals'.misfired => mem.job[k].state \in {"queued", "cancelled"}
    BY <1>2 DEF Annals, Keeping, IInv, Fine, FineWith, StateKnown
  <1> HIDE DEF w
  <1>6. PapersOf(Queue(w, k), disk', files', Annals') /\ Sound(Queue(w, k))
    BY <1>2, <1>4, <1>5, QueuePapers
  <1>7. QED BY <1>2, <1>4, <1>6 DEF w

(* The save of a job that was resumed or recovered.                        *)
LEMMA ResumeSavedPapers ==
    ASSUME IInv, Papers, NEW t \in mem.threads, ResumeSaved(t) \/ RecoverSaved(t)
    PROVE  Papers'
  <1> DEFINE q == Queue(Woken(t), t.job)
  <1>1. t.at \in Arriving /\ Landed(t) /\ Keeping
    BY DEF ResumeSaved, RecoverSaved, Arriving, Keeping, bounds, history
  <1>2. PapersOf(q, disk', files', Annals') /\ Sound(q)
    BY <1>1, ArrivedPapers
  <1>3. mem' \in Pumped(q) \/ mem' \in BootGoesOn(q)
    BY DEF ResumeSaved, RecoverSaved
  <1> HIDE DEF q
  <1>4. build \in Nat /\ t.job \in Jobs
    <2>1. Orderly
      BY DEF IInv, Orderly
    <2>2. QED BY <2>1, WokenIs DEF Orderly, TypeOK
  <1>5. Hands(q, mem')
    BY <1>2, <1>3, <1>4, PumpBears, BootGoesOnBears, BearsHands
  <1>6. PapersOf(mem', disk', files', Annals')
    BY <1>2, <1>5, HandsPapers
  <1>7. QED BY <1>6 DEF Papers

-----------------------------------------------------------------------------
(* The tail.                                                               *)

(* A thread that wakes and sees to the papers of its job.                  *)
LEMMA TailPapers ==
    ASSUME Orderly, Papers, NEW t, Wakes(t), NEW n, Apart(Woken(t), n, t.job), Known(n) = Known(mem),
           \A j \in Jobs \ {t.job} : files'[j] = files[j],
           started' = started, crashes' = crashes, cut' = cut, raced' = raced,
           stranded \subseteq stranded', misfired' = misfired,
           t.job \notin cut \cup misfired => OneFile(n, t.job, disk'[t.job], files'[t.job]),
           crashes = 0 /\ t.job \notin raced => NoTrace(n, t.job, disk'[t.job]),
           crashes = 0 /\ t.job \notin stranded' \cup misfired => Borne(n, t.job, files'[t.job])
    PROVE  PapersOf(n, disk', files', Annals')
  <1> DEFINE w == Woken(t)
             k == t.job
  <1>1. /\ \A j \in Jobs \ {k} : /\ Carries(mem, w, j) /\ (j \in Known(w) <=> j \in Known(mem))
                                 /\ disk'[j] = disk[j]
        /\ k \in Jobs /\ k \in started /\ k \notin Range(mem.batch)
        /\ w.boot = mem.boot /\ w.batch = mem.batch
    BY WakesPapers
  <1> HIDE DEF w, k
  <1>2. /\ Apart(w, n, k) /\ \A j \in Jobs \ {k} : files'[j] = files[j]
    BY DEF w, k
  <1>3. ASSUME NEW j \in Jobs \ {k} PROVE Carries(mem, n, j)
    <2>1. Carries(w, n, j)
      BY <1>2, CarriesPlain DEF Apart, Allowed, Queued
    <2>2. QED BY <1>1, <2>1, CarriesTwice
  <1>4. n.boot = mem.boot /\ n.batch = mem.batch
    BY <1>1, <1>2 DEF Apart
  <1> DEFINE h == Annals
             i == Annals'
  <1>5. /\ i.crashes = h.crashes /\ i.cut = h.cut /\ h.raced \subseteq i.raced
        /\ h.stranded \subseteq i.stranded /\ h.misfired \subseteq i.misfired /\ i.started = h.started
        /\ h.started = started
    BY DEF Annals
  <1>6. /\ k \notin i.cut \cup i.misfired => OneFile(n, k, disk'[k], files'[k])
        /\ i.crashes = 0 /\ k \notin i.raced => NoTrace(n, k, disk'[k])
        /\ i.crashes = 0 /\ k \notin i.stranded \cup i.misfired => Borne(n, k, files'[k])
    BY DEF Annals, k
  <1>7. PapersOf(mem, disk, files, h)
    BY DEF Papers
  <1> HIDE DEF h
  <1>8. PapersOf(n, disk', files', i)
    <2> HIDE DEF i
    <2>1. \A j \in Jobs : j \notin i.started \/ j \in Range(n.batch) =>
              (j \notin h.started \/ j \in Range(mem.batch)) /\ files'[j] = files[j]
      BY <1>1, <1>2, <1>4, <1>5
    <2>2. \A j \in Jobs \ {k} : /\ Carries(mem, n, j) /\ (j \in Known(n) <=> j \in Known(mem))
                                /\ disk'[j] = disk[j] /\ files'[j] = files[j]
      BY <1>1, <1>2, <1>3
    <2>3. k \in Jobs /\ n.boot = mem.boot
      BY <1>1, <1>4
    <2>4. QED BY <1>5, <1>6, <1>7, <2>1, <2>2, <2>3, Papered, SMTT(60)
  <1>9. QED BY <1>8

(* What the tail knows of its job.                                         *)
LEMMA TailIsAlone ==
    ASSUME IInv, NEW t \in mem.threads, t.job \notin misfired, InTail(t)
    PROVE  LET w == Woken(t)
               k == t.job
           IN  /\ ~Allowed(w, k) /\ ~Queued(w, k)
               /\ \A u \in Mine(w, k) : u.at \notin Tailing
               /\ t.at \in {"abandoning", "abandoned"} => mem.job[k].state = "cancelled"
  <1> DEFINE w == Woken(t)
             k == t.job
  <1>1. Orderly
    BY DEF IInv, Orderly
  <1>2. /\ k \in Jobs /\ w.att = mem.att /\ w.queue = mem.queue /\ w.threads = mem.threads \ {t}
    BY <1>1, WokenIs DEF Orderly
  <1>3. TailAlone(mem, k, Mine(mem, k))
    BY <1>2 DEF IInv, Fine, FineWith
  <1> HIDE DEF w
  <1>4. Mine(w, k) = Mine(mem, k) \ {t} /\ t \in Mine(mem, k)
    BY <1>2 DEF Mine
  <1>5. /\ ~Allowed(mem, k) /\ ~Queued(mem, k)
        /\ \A u \in Mine(mem, k) : InTail(u) => u = t
        /\ t.at \in {"abandoning", "abandoned"} => mem.job[k].state = "cancelled"
    BY <1>3, <1>4 DEF TailAlone
  <1>6. ~Allowed(w, k) /\ ~Queued(w, k)
    BY <1>2, <1>5 DEF Allowed, Queued
  <1>7. \A u \in Mine(w, k) : u.at \notin Tailing
    BY <1>4, <1>5 DEF InTail
  <1>8. QED BY <1>5, <1>6, <1>7 DEF w

(* The tail awaits or writes next, with the file there.                    *)
LEMMA TailGoesOn ==
    ASSUME IInv, Papers, NEW t, Wakes(t), t.at \in Bearing, Apart(Woken(t), mem', t.job),
           UNCHANGED <<files, bounds, history>>,
           NEW u, u.job = t.job, mem'.threads = Woken(t).threads \cup {u},
           mem'.att = mem.att, mem'.job[t.job].file = mem.job[t.job].file, Known(mem') = Known(mem),
           \/ mem'.job[t.job] = mem.job[t.job] /\ u.rec = None /\ u.at \in Bearing
           \/ /\ mem'.job[t.job].state \in {"recapping", "done"}
              /\ u.rec = mem'.job[t.job] /\ u.at \in {"recapping", "done"}
    PROVE  Papers'
  <1> DEFINE w == Woken(t)
             k == t.job
  <1>1. Orderly /\ t \in mem.threads
    BY DEF IInv, Orderly, Wakes
  <1>2. /\ k \in Jobs /\ k \in Known(mem) /\ w.job = mem.job /\ w.att = mem.att
    BY <1>1, WokenIs DEF Orderly
  <1>3. /\ k \notin cut \cup misfired =>
              OneFile(w, k, disk'[k], files[k]) /\ files[k] = 1 /\ w.job[k].file
        /\ crashes = 0 /\ k \notin raced => NoTrace(w, k, disk'[k])
    BY <1>1, <1>2, WakesPapers
  <1>4. InTail(t) /\ Bearing \subseteq Tailing
    BY DEF InTail, Tailing, Bearing
  <1>5. ASSUME k \notin misfired PROVE ~Allowed(w, k) /\ ~Queued(w, k)
    BY <1>1, <1>4, <1>5, TailIsAlone
  <1>6. Apart(w, mem', k) /\ mem'.threads = w.threads \cup {u}
    OBVIOUS
  <1> HIDE DEF w
  <1>7. mem'.queue = w.queue /\ Mine(mem', k) = Mine(w, k) \cup {u}
    BY <1>6 DEF Apart, Mine
  <1> HIDE DEF k
  <1>8. /\ mem'.job[k].file = w.job[k].file /\ mem'.att = w.att /\ k \in Known(mem') /\ u.job = k
        /\ \/ mem'.job[k] = w.job[k] /\ u.rec = None /\ u.at \in Bearing
           \/ /\ mem'.job[k].state \in {"recapping", "done"}
              /\ u.rec = mem'.job[k] /\ u.at \in {"recapping", "done"}
    BY <1>2 DEF k
  <1>9. files' = files /\ started' = started /\ crashes' = crashes /\ cut' = cut /\ raced' = raced
        /\ stranded' = stranded /\ misfired' = misfired
    BY DEF bounds, history
  <1>10. k \notin cut \cup misfired => OneFile(mem', k, disk'[k], files'[k])
    <2>1. ASSUME k \notin cut \cup misfired PROVE OneFile(mem', k, disk'[k], files'[k])
      <3>1. OneFile(w, k, disk'[k], files[k]) /\ files[k] = 1 /\ ~Allowed(w, k) /\ ~Queued(w, k)
        BY <1>3, <1>5, <2>1
      <3>2. Settled(mem', k)
        BY <1>7, <1>8, <3>1 DEF Settled, OneFile, Allowed, Queued, Filed, IsOver
      <3>3. Truthful(u.rec) /\ u.at # "saveMeeting"
        BY <1>8 DEF Truthful, Filed, Bearing
      <3>4. w.job[k].file /\ mem'.job[k].file
        BY <1>3, <1>8, <2>1
      <3>5. QED BY <1>7, <1>8, <1>9, <3>1, <3>2, <3>3, <3>4 DEF OneFile
    <2>2. QED BY <2>1
  <1>11. crashes = 0 /\ k \notin raced => NoTrace(mem', k, disk'[k])
    <2>1. ASSUME crashes = 0, k \notin raced, mem'.job[k].state = "cancelled"
          PROVE  NoTrace(mem', k, disk'[k])
      <3>1. NoTrace(w, k, disk'[k]) /\ mem'.job[k] = w.job[k] /\ u.rec = None
        BY <1>3, <1>8, <2>1
      <3>2. QED BY <1>7, <3>1 DEF NoTrace
    <2>2. QED BY <2>1 DEF NoTrace
  <1>12. Borne(mem', k, files'[k])
    BY <1>7, <1>8 DEF Borne
  <1>13. PapersOf(mem', disk', files', Annals')
    <2>1. /\ Apart(Woken(t), mem', t.job)
          /\ \A j \in Jobs \ {t.job} : files'[j] = files[j]
      BY <1>9
    <2> HIDE DEF Wakes
    <2>2. QED BY <1>1, <1>9, <1>10, <1>11, <1>12, <2>1, TailPapers DEF k
  <1>14. QED BY <1>13 DEF Papers

(* What TailAwait and TailSave make of a memory.                           *)
LEMMA TailAwaitIs ==
    ASSUME NEW m \in Memories, NEW at \in Points, NEW k \in Jobs
    PROVE  LET n == TailAwait(m, at, k) IN
           \E u \in Threads :
              /\ Apart(m, n, k) /\ n.threads = m.threads \cup {u} /\ n.att = m.att /\ n.job = m.job
              /\ u.job = k /\ u.at = at /\ u.rec = None
  <1> DEFINE u == Thread(at, k, 0)
  <1>1. u \in Threads /\ u.at = at /\ u.job = k /\ u.rec = None
    BY ThreadIs
  <1> HIDE DEF u
  <1>2. /\ Apart(m, Await(m, u), k) /\ Await(m, u).threads = m.threads \cup {u}
        /\ Await(m, u).att = m.att /\ Await(m, u).job = m.job
    BY <1>1, JoinIs
  <1>3. TailAwait(m, at, k) = Await(m, u)
    BY DEF TailAwait, u
  <1>4. QED BY <1>1, <1>2, <1>3

(* The same with the record that TailSave writes.                          *)
LEMMA TailSaveIs ==
    ASSUME NEW m \in Memories, NEW at \in Points, NEW k \in Jobs, NEW s \in JobStates
    PROVE  LET n == TailSave(m, at, k, s) IN
           \E u \in Threads :
              /\ Apart(m, n, k) /\ n.threads = m.threads \cup {u} /\ n.att = m.att
              /\ n.job[k].state = s /\ n.job[k].file = m.job[k].file
              /\ u.job = k /\ u.at = at /\ u.rec = n.job[k]
  <1> DEFINE r == [m.job[k] EXCEPT !.state = s]
             d == [m EXCEPT !.job[k] = r]
             u == Thread(at, k, 0)
             v == Saving(d, u)
             n == Await(d, v)
  <1>1. r \in JobRecords /\ r.state = s /\ r.file = m.job[k].file
    BY DEF Memories, JobRecords
  <1> HIDE DEF r
  <1>2. d \in Memories /\ Apart(m, d, k) /\ d.job[k] = r /\ d.threads = m.threads /\ d.att = m.att
    BY <1>1, JobSet
  <1> HIDE DEF d
  <1>3. u \in Threads /\ u.at = at /\ u.job = k
    BY ThreadIs
  <1> HIDE DEF u
  <1>4. v \in Threads /\ v.at = at /\ v.job = k /\ v.rec = d.job[k]
    BY <1>2, <1>3, SavingIs
  <1> HIDE DEF v
  <1>5. Apart(d, n, k) /\ n.threads = d.threads \cup {v} /\ n.att = d.att /\ n.job = d.job
    BY <1>2, <1>4, JoinIs
  <1>6. TailSave(m, at, k, s) = n
    BY DEF TailSave, Save, v, Saving, d, r, u
  <1> HIDE DEF n
  <1>7. Apart(m, n, k)
    BY <1>2, <1>5, ApartTwice
  <1>8. QED BY <1>1, <1>2, <1>4, <1>5, <1>6, <1>7

(* A tail that goes on.                                                    *)
LEMMA TailStepPapers ==
    ASSUME IInv, Papers, NEW t, Wakes(t), t.at \in Bearing, UNCHANGED <<files, bounds, history>>,
           \/ \E at \in Bearing : mem' = TailAwait(Woken(t), at, t.job)
           \/ \E at \in {"recapping", "done"} : mem' = TailSave(Woken(t), at, t.job, at)
    PROVE  Papers'
  <1> DEFINE w == Woken(t)
             k == t.job
  <1>1. Orderly /\ t \in mem.threads
    BY DEF IInv, Orderly, Wakes
  <1>2. /\ k \in Jobs /\ k \in Known(mem) /\ w.job = mem.job /\ w.att = mem.att /\ w \in Memories
    BY <1>1, WokenIs DEF Orderly
  <1>3. Bearing \subseteq Points /\ {"recapping", "done"} \subseteq Points \cap JobStates
    BY DEF Bearing, Points, Tailing, JobStates
  <1> HIDE DEF w
  <1>4. \E u : /\ Apart(w, mem', k) /\ mem'.threads = w.threads \cup {u} /\ mem'.att = w.att
               /\ mem'.job[k].file = w.job[k].file /\ u.job = k /\ mem'.job[k].state # "absent"
               /\ \/ mem'.job[k] = w.job[k] /\ u.rec = None /\ u.at \in Bearing
                  \/ /\ mem'.job[k].state \in {"recapping", "done"}
                     /\ u.rec = mem'.job[k] /\ u.at \in {"recapping", "done"}
    <2>1. ASSUME NEW at \in Bearing, mem' = TailAwait(w, at, k)
          PROVE  \E u : /\ Apart(w, mem', k) /\ mem'.threads = w.threads \cup {u} /\ mem'.att = w.att
                        /\ u.job = k /\ mem'.job = w.job /\ u.rec = None /\ u.at = at
      BY <1>2, <1>3, <2>1, TailAwaitIs
    <2>2. ASSUME NEW at \in {"recapping", "done"}, mem' = TailSave(w, at, k, at)
          PROVE  \E u : /\ Apart(w, mem', k) /\ mem'.threads = w.threads \cup {u} /\ mem'.att = w.att
                        /\ mem'.job[k].file = w.job[k].file /\ u.job = k
                        /\ mem'.job[k].state = at /\ u.rec = mem'.job[k] /\ u.at = at
      BY <1>2, <1>3, <2>2, TailSaveIs
    <2>3. w.job[k].state # "absent"
      BY <1>2 DEF Known
    <2>4. CASE \E at \in Bearing : mem' = TailAwait(w, at, k)
      BY <2>1, <2>3, <2>4
    <2>5. CASE \E at \in {"recapping", "done"} : mem' = TailSave(w, at, k, at)
      BY <2>2, <2>5
    <2>6. QED BY <2>4, <2>5 DEF w
  <1>5. PICK u : /\ Apart(w, mem', k) /\ mem'.threads = w.threads \cup {u} /\ mem'.att = w.att
                 /\ mem'.job[k].file = w.job[k].file /\ u.job = k /\ mem'.job[k].state # "absent"
                 /\ \/ mem'.job[k] = w.job[k] /\ u.rec = None /\ u.at \in Bearing
                    \/ /\ mem'.job[k].state \in {"recapping", "done"}
                       /\ u.rec = mem'.job[k] /\ u.at \in {"recapping", "done"}
    BY <1>4
  <1>6. Known(mem') = Known(mem)
    <2>1. \A j \in Jobs \ {k} : mem'.job[j] = mem.job[j]
      BY <1>2, <1>5 DEF Apart
    <2>2. \A j \in Jobs : mem'.job[j].state # "absent" <=> mem.job[j].state # "absent"
      BY <1>2, <1>5, <2>1 DEF Known
    <2>3. QED BY <2>2 DEF Known
  <1>7. QED BY <1>2, <1>5, <1>6, TailGoesOn DEF w

(* A write, a recap or an ingest of the tail that has ended.               *)
LEMMA TailSavedPapers ==
    ASSUME IInv, Papers, NEW t \in mem.threads, CheckpointSaved(t) \/ Recapped(t) \/ Ingested(t)
    PROVE  Papers'
  <1> DEFINE w == Woken(t)
             k == t.job
  <1>1. Orderly
    BY DEF IInv, Orderly
  <1>2. /\ k \in Jobs /\ Sound(w) /\ k \in Known(w) /\ 0 \in Nat /\ 0 <= w.made[k]
    BY <1>1, WokenIs DEF Orderly, Sound, Memories
  <1>3. \/ mem' = UnlessCancelled(w, k, TailSave(w, "recapping", k, "recapping")) /\ t.at = "saved"
        \/ mem' = TailAwait(w, "recap", k) /\ t.at = "recapping"
        \/ mem' = TailAwait(w, "removing", k) /\ t.at = "done"
        \/ mem' = UnlessCancelled(w, k, TailAwait(w, "ingest", k)) /\ t.at = "recap"
        \/ mem' = UnlessCancelled(w, k, TailSave(w, "done", k, "done")) /\ t.at = "ingest"
    BY DEF CheckpointSaved, Recapped, Ingested
  <1>4. (Landed(t) \/ disk' = disk) /\ t.at \notin {"saveMeeting", "cancelling"}
        /\ UNCHANGED <<files, bounds, history>>
    BY DEF CheckpointSaved, Recapped, Ingested
  <1>5. Wakes(t)
    BY <1>4 DEF Wakes
  <1> HIDE DEF w, k
  <1>6. CASE mem' = TailAwait(w, "removing", k) /\ t.at = "done"
    <2>1. "removing" \in Working /\ "done" \notin Bearing
      BY DEF Working, Points, Tailing, Bearing
    <2>2. Bears(w, mem')
      BY <1>2, <1>6, <2>1, ThreadBears DEF TailAwait
    <2>3. Quietly(t) /\ Keeping
      BY <1>4, <1>6, <2>1 DEF Quietly, Keeping, bounds, history
    <2>4. QED BY <1>1, <2>2, <2>3, QuietPapers DEF w
  <1>7. CASE ~(mem' = TailAwait(w, "removing", k) /\ t.at = "done")
    <2>1. t.at \in Bearing
      BY <1>3, <1>7 DEF Bearing
    <2>2. {"abandoning", "recap", "ingest"} \subseteq Bearing
      BY DEF Bearing
    <2>3. \/ \E at \in Bearing : mem' = TailAwait(w, at, k)
          \/ \E at \in {"recapping", "done"} : mem' = TailSave(w, at, k, at)
      BY <1>3, <1>7, <2>2 DEF UnlessCancelled
    <2>4. QED BY <1>4, <1>5, <2>1, <2>3, TailStepPapers DEF w, k
  <1>8. QED BY <1>6, <1>7

(* The meeting has been saved: it is the first.                            *)
LEMMA MeetingSavedPapers ==
    ASSUME IInv, Papers, NEW t \in mem.threads, MeetingSaved(t)
    PROVE  Papers'
  <1> DEFINE w == Woken(t)
             k == t.job
             r == [w.job[k] EXCEPT !.file = TRUE]
             d == [w EXCEPT !.job[k] = r]
             n == TailSave(d, "saved", k, "saving")
  <1>1. Orderly /\ t.at = "saveMeeting"
    BY DEF IInv, Orderly, MeetingSaved
  <1>2. /\ k \in Jobs /\ k \in Known(mem) /\ w.job = mem.job /\ w.att = mem.att /\ w \in Memories
        /\ w.queue = mem.queue
    BY <1>1, WokenIs DEF Orderly
  <1>3. Wakes(t)
    BY <1>1 DEF Wakes, MeetingSaved
  <1>4. k \notin cut \cup misfired => OneFile(w, k, disk'[k], files[k]) /\ files[k] = 0
    BY <1>1, <1>3, WakesPapers
  <1>5. ASSUME k \notin misfired
        PROVE  /\ ~Allowed(w, k) /\ ~Queued(w, k)
               /\ \A u \in Mine(w, k) : u.at \notin Tailing
    <2>1. InTail(t)
      BY <1>1 DEF InTail, Tailing
    <2>2. QED BY <1>5, <2>1, TailIsAlone
  <1>6. mem' = n
    BY DEF MeetingSaved
  <1> HIDE DEF w
  <1>7. r \in JobRecords /\ r.file
    <2>1. w.job[k] \in JobRecords
      BY <1>2 DEF Memories
    <2> HIDE DEF k
    <2>2. QED BY <2>1 DEF JobRecords
  <1> HIDE DEF r
  <1>8. d \in Memories /\ Apart(w, d, k) /\ d.job[k] = r /\ d.threads = w.threads /\ d.att = w.att
    BY <1>2, <1>7, JobSet
  <1> HIDE DEF d
  <1>9. "saved" \in Points /\ "saving" \in JobStates
    BY DEF Points, Tailing, JobStates
  <1>10. PICK u \in Threads :
           /\ Apart(d, n, k) /\ n.threads = d.threads \cup {u} /\ n.att = d.att
           /\ n.job[k].state = "saving" /\ n.job[k].file = d.job[k].file
           /\ u.job = k /\ u.at = "saved" /\ u.rec = n.job[k]
    BY <1>2, <1>8, <1>9, TailSaveIs
  <1> HIDE DEF n
  <1>11. /\ Apart(w, n, k) /\ n.queue = w.queue /\ n.att = w.att /\ n.job[k].file
         /\ Mine(n, k) = Mine(w, k) \cup {u}
    BY <1>7, <1>8, <1>10, ApartTwice DEF Apart, Mine
  <1>12. Known(n) = Known(mem)
    <2>1. \A j \in Jobs \ {k} : n.job[j] = mem.job[j]
      BY <1>2, <1>11 DEF Apart
    <2>2. \A j \in Jobs : n.job[j].state # "absent" <=> mem.job[j].state # "absent"
      BY <1>2, <1>10, <2>1 DEF Known
    <2>3. QED BY <2>2 DEF Known
  <1>13. files' = [files EXCEPT ![k] = files[k] + 1] /\ files \in [Jobs -> Int]
    BY <1>1 DEF MeetingSaved, Orderly, TypeOK
  <1>14. k \notin cut \cup misfired => OneFile(n, k, disk'[k], files'[k])
    <2>1. ASSUME k \notin cut \cup misfired PROVE OneFile(n, k, disk'[k], files'[k])
      <3>1. /\ OneFile(w, k, disk'[k], 0) /\ files'[k] = 1 /\ ~Allowed(w, k) /\ ~Queued(w, k)
            /\ \A x \in Mine(w, k) : x.at \notin Tailing
        BY <1>2, <1>4, <1>5, <1>13, <2>1
      <3>2. Settled(n, k)
        BY <1>10, <1>11, <3>1 DEF Settled, Allowed, Queued, Filed
      <3>3. Truthful(u.rec)
        BY <1>10 DEF Truthful, Filed
      <3>4. {"saveMeeting", "abandoned"} \subseteq Tailing
        BY DEF Tailing
      <3>5. QED BY <1>10, <1>11, <3>1, <3>2, <3>3, <3>4 DEF OneFile
    <2>2. QED BY <2>1
  <1>15. NoTrace(n, k, disk'[k]) /\ Borne(n, k, files'[k])
    BY <1>10 DEF NoTrace, Borne
  <1>16. /\ \A j \in Jobs \ {k} : files'[j] = files[j]
         /\ started' = started /\ crashes' = crashes /\ cut' = cut /\ raced' = raced
         /\ stranded' = stranded /\ misfired' = misfired
    BY <1>13 DEF MeetingSaved, bounds, history
  <1>17. PapersOf(n, disk', files', Annals')
    BY <1>1, <1>3, <1>11, <1>12, <1>14, <1>15, <1>16, TailPapers DEF w
  <1>18. QED BY <1>6, <1>17 DEF Papers

(* The meeting of a cancelled job is deleted, or stays and strands it.     *)
LEMMA FileDeletedPapers ==
    ASSUME IInv, Papers, NEW t \in mem.threads, FileDeleted(t)
    PROVE  Papers'
  <1> DEFINE w == Woken(t)
             k == t.job
             n == TailAwait(w, "abandoned", k)
  <1>1. Orderly /\ t.at = "abandoning"
    BY DEF IInv, Orderly, FileDeleted
  <1>2. /\ k \in Jobs /\ w.job = mem.job /\ w.att = mem.att /\ w \in Memories
    BY <1>1, WokenIs DEF Orderly
  <1>3. Wakes(t) /\ t.at \in Bearing
    BY <1>1 DEF Wakes, FileDeleted, Bearing
  <1>4. /\ k \notin cut \cup misfired =>
              OneFile(w, k, disk'[k], files[k]) /\ files[k] = 1 /\ w.job[k].file
        /\ crashes = 0 /\ k \notin raced => NoTrace(w, k, disk'[k])
    BY <1>1, <1>2, <1>3, WakesPapers
  <1>5. ASSUME k \notin misfired
        PROVE  \A u \in Mine(w, k) : u.at \notin Tailing
    <2>1. InTail(t)
      BY <1>1 DEF InTail, Tailing
    <2>2. QED BY <1>5, <2>1, TailIsAlone
  <1>6. mem' = n
    BY DEF FileDeleted
  <1> HIDE DEF w
  <1>7. "abandoned" \in Points
    BY DEF Points, Tailing
  <1>8. PICK u \in Threads :
           /\ Apart(w, n, k) /\ n.threads = w.threads \cup {u} /\ n.att = w.att /\ n.job = w.job
           /\ u.job = k /\ u.at = "abandoned" /\ u.rec = None
    BY <1>2, <1>7, TailAwaitIs
  <1> HIDE DEF n
  <1>9. n.queue = w.queue /\ Mine(n, k) = Mine(w, k) \cup {u} /\ Known(n) = Known(mem)
    BY <1>2, <1>8 DEF Apart, Mine, Known
  <1>10. /\ files \in [Jobs -> Int]
         /\ \/ files' = [files EXCEPT ![k] = files[k] - 1] /\ stranded' = stranded
            \/ /\ files' = files /\ stranded \subseteq stranded'
               /\ w.job[k].state = "cancelled" => k \in stranded'
    BY <1>1, <1>2 DEF FileDeleted, Strands, Orderly, TypeOK
  <1>11. k \notin cut \cup misfired =>
             /\ OneFile(n, k, disk'[k], files'[k])
             /\ files'[k] = 0 \/ (w.job[k].state = "cancelled" => k \in stranded')
    <2>1. ASSUME k \notin cut \cup misfired
          PROVE  /\ OneFile(n, k, disk'[k], files'[k])
                 /\ files'[k] = 0 \/ (w.job[k].state = "cancelled" => k \in stranded')
      <3>1. /\ OneFile(w, k, disk'[k], 1) /\ files'[k] \in {0, 1} /\ w.job[k].file
            /\ files'[k] = 0 \/ (w.job[k].state = "cancelled" => k \in stranded')
            /\ \A x \in Mine(w, k) : x.at \notin Tailing
        BY <1>2, <1>4, <1>5, <1>10, <2>1
      <3>2. Settled(n, k)
        BY <1>8, <1>9, <3>1 DEF OneFile, Settled, Allowed, Queued, IsOver
      <3>3. Truthful(u.rec)
        BY <1>8 DEF Truthful
      <3>4. Bearing \cup {"saveMeeting"} \subseteq Tailing /\ u.at \notin Bearing \cup {"saveMeeting"}
        BY <1>8 DEF Tailing, Bearing
      <3>5. QED BY <1>8, <1>9, <3>1, <3>2, <3>3, <3>4 DEF OneFile
    <2>2. QED BY <2>1
  <1>12. crashes = 0 /\ k \notin raced => NoTrace(n, k, disk'[k])
    BY <1>4, <1>8, <1>9 DEF NoTrace
  <1>13. crashes = 0 /\ k \notin stranded' \cup misfired => Borne(n, k, files'[k])
    <2>1. crashes = 0 => cut = {}
      BY DEF Papers, PapersOf, Annals
    <2>2. QED BY <1>8, <1>11, <2>1 DEF Borne
  <1>14. /\ \A j \in Jobs \ {k} : files'[j] = files[j]
         /\ started' = started /\ crashes' = crashes /\ cut' = cut /\ raced' = raced
         /\ stranded \subseteq stranded' /\ misfired' = misfired
    BY <1>10 DEF FileDeleted
  <1>15. PapersOf(n, disk', files', Annals')
    BY <1>1, <1>3, <1>8, <1>9, <1>11, <1>12, <1>13, <1>14, TailPapers DEF w
  <1>16. QED BY <1>6, <1>15 DEF Papers

(* The end of an abandoned tail.                                           *)
LEMMA AbandonedPapers ==
    ASSUME IInv, Papers, NEW t \in mem.threads, Abandoned(t)
    PROVE  Papers'
  <1> DEFINE w == Woken(t)
             k == t.job
             r == [w.job[k] EXCEPT !.file = FALSE]
             d == [w EXCEPT !.job[k] = r]
  <1>1. Orderly /\ t.at = "abandoned"
    BY DEF IInv, Orderly, Abandoned
  <1>2. /\ k \in Jobs /\ w.job = mem.job /\ w.att = mem.att /\ w \in Memories /\ Sound(w)
        /\ k \in Known(w) /\ build \in Nat
    BY <1>1, WokenIs DEF Orderly, TypeOK
  <1>3. Wakes(t)
    BY <1>1 DEF Wakes, Abandoned
  <1>4. /\ k \notin cut \cup misfired => OneFile(w, k, disk'[k], files[k])
        /\ crashes = 0 /\ k \notin raced => NoTrace(w, k, disk'[k])
        /\ crashes = 0 /\ k \notin stranded \cup misfired => Borne(w, k, files[k])
    BY <1>1, <1>3, WakesPapers DEF Bearing
  <1>5. ASSUME k \notin misfired
         PROVE  w.job[k].state = "cancelled" /\ \A u \in Mine(w, k) : u.at \notin Tailing
    <2>1. InTail(t)
      BY <1>1 DEF InTail, Tailing
    <2>2. QED BY <1>1, <1>2, <1>5, <2>1, TailIsAlone
  <1>6. mem' \in TailEnds(d, k)
    BY DEF Abandoned
  <1> HIDE DEF w
  <1>7. r \in JobRecords /\ ~r.file /\ r.state = w.job[k].state
    <2>1. w.job[k] \in JobRecords
      BY <1>2 DEF Memories
    <2> HIDE DEF k
    <2>2. QED BY <2>1 DEF JobRecords
  <1>8. Moves(w, d, k)
    BY <1>2, FileMoves
  <1> HIDE DEF r
  <1>9. d \in Memories /\ Apart(w, d, k) /\ d.job[k] = r /\ d.threads = w.threads /\ d.att = w.att
    BY <1>2, <1>7, JobSet
  <1> HIDE DEF d
  <1>10. Mine(d, k) = Mine(w, k)
    BY <1>9 DEF Mine
  <1>11. Known(d) = Known(mem) /\ Sound(d)
    <2>1. Known(w) = Known(mem)
      BY <1>2 DEF Known
    <2>2. QED BY <1>8, <2>1 DEF Moves, Keeps
  <1>12. files' = files
    BY DEF Abandoned
  <1>13. k \notin cut \cup misfired => OneFile(d, k, disk'[k], files'[k])
    <2>1. Bearing \cup {"saveMeeting"} \subseteq Tailing
      BY DEF Bearing, Tailing
    <2>2. QED BY <1>4, <1>7, <1>9, <1>10, <1>12, <1>5, <2>1 DEF OneFile, Settled
  <1>14. crashes = 0 /\ k \notin raced => NoTrace(d, k, disk'[k])
    BY <1>4, <1>7, <1>9, <1>10 DEF NoTrace
  <1>15. crashes = 0 /\ k \notin stranded \cup misfired => Borne(d, k, files'[k])
    BY <1>4, <1>7, <1>9, <1>10, <1>12 DEF Borne
  <1>16. /\ started' = started /\ crashes' = crashes /\ cut' = cut /\ raced' = raced
         /\ stranded' = stranded /\ misfired' = misfired
    BY DEF Abandoned, history
  <1>17. PapersOf(d, disk', files', Annals')
    BY <1>1, <1>3, <1>9, <1>11, <1>12, <1>13, <1>14, <1>15, <1>16, TailPapers DEF w
  <1>18. Hands(d, mem')
    BY <1>2, <1>6, <1>11, TailEndsBears, BearsHands
  <1>19. PapersOf(mem', disk', files', Annals')
    BY <1>17, <1>18, HandsPapers
  <1>20. QED BY <1>19 DEF Papers

-----------------------------------------------------------------------------
(* The steps that make a job known, bring one back or cancel it.           *)

(* From m to n the job k has got the record r, with threads that write it. *)
Adds(m, n, k, r) ==
    /\ n.job[k] = r /\ n.queue = m.queue
    /\ \A j \in Jobs \ {k} : /\ n.job[j] = m.job[j] /\ n.att[j] = m.att[j]
                             /\ Mine(n, j) = Mine(m, j)
    /\ Mine(m, k) \subseteq Mine(n, k)
    /\ \A t \in Mine(n, k) \ Mine(m, k) :
          t.rec = r /\ t.at \notin Bearing \cup {"saveMeeting", "abandoned"}

(* A record that does not say more of the file than there is.              *)
LEMMA AddedPapers ==
    ASSUME NEW m, NEW D, NEW F, NEW h, PapersOf(m, D, F, h),
           NEW n, NEW k \in Jobs, NEW r, Adds(m, n, k, r), r.state # "absent",
           NEW i, i.crashes = h.crashes, i.cut = h.cut, h.raced \subseteq i.raced,
           i.stranded = h.stranded, i.misfired = h.misfired,
           i.crashes = 0 => n.boot = m.boot,
           \A j \in Jobs : j \notin i.started \/ j \in Range(n.batch) =>
               j \notin h.started \/ j \in Range(m.batch),
           ~Allowed(n, k),
           k \notin h.cut \cup h.misfired =>
               /\ r.file => r.state \in Filed
               /\ F[k] = 1 => r.file \/ (r.state = "cancelled" /\ Mine(m, k) = {})
               /\ Mine(m, k) = {} \/ r.file = m.job[k].file
               /\ ~r.file \/ Terminal(r.state) \/ ~Queued(m, k),
           i.crashes = 0 /\ k \notin i.raced => NoTrace(n, k, D[k]),
           i.crashes = 0 /\ k \notin i.stranded \cup i.misfired => Borne(n, k, F[k])
    PROVE  PapersOf(n, D, F, i)
  <1>1. /\ n.job[k] = r /\ n.queue = m.queue
        /\ \A j \in Jobs \ {k} : /\ n.job[j] = m.job[j] /\ n.att[j] = m.att[j]
                                 /\ Mine(n, j) = Mine(m, j)
        /\ \A t \in Mine(n, k) \ Mine(m, k) :
              t.rec = r /\ t.at \notin Bearing \cup {"saveMeeting", "abandoned"}
    BY DEF Adds
  <1>2. ASSUME NEW j \in Jobs \ {k} PROVE Carries(m, n, j) /\ (j \in Known(n) <=> j \in Known(m))
    <2>1. Carries(m, n, j)
      BY <1>1, CarriesPlain DEF Allowed, Queued
    <2>2. QED BY <1>1, <2>1 DEF Known
  <1>3. ASSUME k \notin i.cut \cup i.misfired PROVE OneFile(n, k, D[k], F[k])
    <2>1. /\ OneFile(m, k, D[k], F[k]) /\ (r.file => r.state \in Filed)
          /\ F[k] = 1 => r.file \/ (r.state = "cancelled" /\ Mine(m, k) = {})
          /\ Mine(m, k) = {} \/ r.file = m.job[k].file
          /\ ~r.file \/ Terminal(r.state) \/ ~Queued(m, k)
      BY <1>3 DEF PapersOf
    <2>2. Settled(n, k)
      BY <1>1, <2>1 DEF Settled, Queued, IsOver
    <2>3. ASSUME NEW t \in Mine(n, k)
          PROVE  /\ Truthful(t.rec)
                 /\ t.at = "saveMeeting" => ~n.job[k].file /\ (n.job[k].state = "cancelled" => F[k] = 0)
                 /\ t.at \in Bearing => F[k] = 1 /\ n.job[k].file
      BY <1>1, <2>1 DEF OneFile, Truthful
    <2>4. QED BY <1>1, <2>1, <2>2, <2>3 DEF OneFile
  <1>4. \A j \in Jobs \ {k} : /\ Carries(m, n, j) /\ (j \in Known(n) <=> j \in Known(m))
                             /\ D[j] = D[j] /\ F[j] = F[j]
    BY <1>2
  <1>5. h.stranded \subseteq i.stranded /\ h.misfired \subseteq i.misfired
    OBVIOUS
  <1>6. \A j \in Jobs : j \notin i.started \/ j \in Range(n.batch) =>
            (j \notin h.started \/ j \in Range(m.batch)) /\ F[j] = F[j]
    OBVIOUS
  <1>7. QED BY <1>3, <1>4, <1>5, <1>6, Papered

(* A job that nobody knew brings nothing with it.                          *)
LEMMA NewPapers ==
    ASSUME NEW m, NEW D, NEW F, NEW h, PapersOf(m, D, F, h), Sound(m),
           NEW n, NEW k \in Jobs \ Known(m), NEW r, Adds(m, n, k, r), n.att = m.att,
           r.state # "absent",
           NEW i, i.crashes = h.crashes, i.cut = h.cut, i.raced = h.raced,
           i.stranded = h.stranded, i.misfired = h.misfired,
           i.crashes = 0 => n.boot = m.boot /\ r.state # "cancelled",
           \A j \in Jobs : j \notin i.started \/ j \in Range(n.batch) =>
               j \notin h.started \/ j \in Range(m.batch),
           k \notin h.cut \cup h.misfired =>
               /\ r.file => r.state \in Filed
               /\ F[k] = 1 => r.file \/ r.state = "cancelled"
               /\ ~r.file \/ Terminal(r.state) \/ ~Queued(m, k)
    PROVE  PapersOf(n, D, F, i)
  <1>1. Mine(m, k) = {}
    BY DEF Sound, Mine
  <1>2. ~Allowed(n, k)
    BY DEF Sound, Known, Allowed
  <1>3. i.crashes = 0 => NoTrace(n, k, D[k]) /\ Borne(n, k, F[k])
    BY DEF NoTrace, Borne, Adds
  <1>4. QED BY <1>1, <1>2, <1>3, AddedPapers

(* A record is set and written.                                            *)
LEMMA SetSaved ==
    ASSUME NEW m \in Memories, NEW k \in Jobs, NEW r \in JobRecords,
           NEW u \in Threads, u.job = k, u.at \notin Bearing \cup {"saveMeeting", "abandoned"},
           NEW n, n = Save([m EXCEPT !.job[k] = r], u)
    PROVE  /\ Adds(m, n, k, r) /\ Apart(m, n, k)
           /\ n.att = m.att /\ n.batch = m.batch /\ n.boot = m.boot
           /\ \E v \in Mine(n, k) : Mine(n, k) = Mine(m, k) \cup {v} /\ v.at = u.at /\ v.rec = r
  <1> DEFINE d == [m EXCEPT !.job[k] = r]
             v == Saving(d, u)
  <1>1. /\ d \in Memories /\ Apart(m, d, k) /\ d.job[k] = r /\ d.threads = m.threads
        /\ d.att = m.att
    BY JobSet
  <1>2. n = Await(d, v)
    BY DEF Save, Saving
  <1> HIDE DEF d
  <1>3. v \in Threads /\ v.at = u.at /\ v.job = k /\ v.rec = r
    BY <1>1, SavingIs
  <1> HIDE DEF v
  <1>4. Apart(d, n, k) /\ n.threads = d.threads \cup {v} /\ n.job = d.job /\ n.att = d.att
    <2>1. LET p == Await(d, v) IN
             Apart(d, p, v.job) /\ p.threads = d.threads \cup {v} /\ p.job = d.job /\ p.att = d.att
      BY <1>1, <1>3, JoinIs
    <2>2. QED BY <1>2, <1>3, <2>1
  <1>5. Mine(n, k) = Mine(m, k) \cup {v} /\ v \in Mine(n, k)
    BY <1>1, <1>3, <1>4 DEF Mine
  <1>6. Apart(m, n, k)
    BY <1>1, <1>4, ApartTwice
  <1>7. Adds(m, n, k, r)
    BY <1>1, <1>3, <1>4, <1>5, <1>6 DEF Adds, Apart
  <1>8. n.batch = m.batch /\ n.boot = m.boot
    BY <1>6 DEF Apart
  <1>9. QED BY <1>1, <1>3, <1>4, <1>5, <1>6, <1>7, <1>8

(* The record of a new job is set and written.                             *)
LEMMA FreshAdds ==
    ASSUME build \in Nat, NEW low \in BOOLEAN, NEW m \in Memories, NEW k \in Jobs
    PROVE  LET n == Save([m EXCEPT !.job[k] = Fresh(low)], Thread("created", k, 0)) IN
           /\ Adds(m, n, k, Fresh(low))
           /\ n.att = m.att /\ n.batch = m.batch /\ n.boot = m.boot
           /\ Fresh(low).state = "queued" /\ Fresh(low).file = FALSE
  <1> DEFINE r == Fresh(low)
             u == Thread("created", k, 0)
             n == Save([m EXCEPT !.job[k] = r], u)
  <1>1. r \in JobRecords /\ r.state = "queued" /\ r.file = FALSE
    <2>1. <<>> \in Seq(Units)
      OBVIOUS
    <2>2. QED BY <2>1 DEF JobRecords, JobStates, NoJob, Errors, Fresh
  <1>2. u \in Threads /\ u.job = k /\ u.at \notin Bearing \cup {"saveMeeting", "abandoned"}
    <2>1. "created" \in Points
      BY DEF Points, Arriving
    <2>2. QED BY <2>1, ThreadIs DEF Bearing
  <1>3. n = Save([m EXCEPT !.job[k] = r], u)
    OBVIOUS
  <1> HIDE DEF r, u, n
  <1>4. Adds(m, n, k, r) /\ n.att = m.att /\ n.batch = m.batch /\ n.boot = m.boot
    BY <1>1, <1>2, <1>3, SetSaved
  <1>5. QED BY <1>1, <1>4 DEF r, u, n

(* A job of a batch is set and written.                                    *)
LEMMA CreateAdds ==
    ASSUME build \in Nat, NEW low \in BOOLEAN, NEW m \in Memories,
           NEW b, Head(b) \in Jobs, Tail(b) \in Seq(Jobs)
    PROVE  LET n == Create(m, b, low) IN
           /\ Adds(m, n, Head(b), Fresh(low))
           /\ n.att = m.att /\ n.batch = Tail(b) /\ n.boot = m.boot
           /\ Fresh(low).state = "queued" /\ Fresh(low).file = FALSE
  <1> DEFINE k == Head(b)
             q == Tail(b)
             x == IF low THEN m.lows + 1 ELSE m.lows
             r == Fresh(low)
             d == [m EXCEPT !.batch = q]
             e == [d EXCEPT !.lows = x]
             n == Save([e EXCEPT !.job[k] = r], Thread("created", k, 0))
  <1>1. m.lows \in Nat /\ x \in Nat
    BY DEF Memories
  <1>2. Create(m, b, low) = n
    <2>1. [m EXCEPT !.batch = q, !.lows = IF low THEN @ + 1 ELSE @, !.job[k] = r]
              = [e EXCEPT !.job[k] = r]
      BY <1>1 DEF Memories
    <2>2. QED BY <2>1 DEF Create, Fresh
  <1>3. k \in Jobs /\ q \in Seq(Jobs)
    OBVIOUS
  <1> HIDE DEF x, k, q
  <1>4. /\ d \in Memories /\ d.batch = q /\ d.boot = m.boot /\ d.job = m.job
        /\ d.queue = m.queue /\ d.att = m.att /\ d.threads = m.threads
    BY <1>3 DEF Memories
  <1> HIDE DEF d
  <1>5. /\ e \in Memories /\ e.batch = q /\ e.boot = m.boot /\ e.job = m.job
        /\ e.queue = m.queue /\ e.att = m.att /\ e.threads = m.threads
    BY <1>1, <1>4 DEF Memories
  <1> HIDE DEF e
  <1>6. e \in Memories /\ k \in Jobs
    BY <1>3, <1>5
  <1>7. /\ Adds(e, n, k, Fresh(low)) /\ n.att = e.att /\ n.batch = e.batch /\ n.boot = e.boot
        /\ Fresh(low).state = "queued" /\ Fresh(low).file = FALSE
    BY <1>6, FreshAdds
  <1> HIDE DEF n, r
  <1>8. /\ Adds(m, n, k, Fresh(low)) /\ n.att = m.att /\ n.batch = q /\ n.boot = m.boot
    BY <1>5, <1>7 DEF Adds, Mine
  <1>9. QED BY <1>2, <1>7, <1>8 DEF k, q

(* A job of a batch is created.                                            *)
LEMMA CreatePapers ==
    ASSUME NEW m, NEW D, NEW F, NEW h, PapersOf(m, D, F, h), Sound(m), build \in Nat,
           NEW b \in Seq(Jobs), b # <<>>, IsInjective(b), Head(b) \notin Known(m), F[Head(b)] = 0,
           NEW low \in BOOLEAN,
           NEW i, i.crashes = h.crashes, i.cut = h.cut, i.raced = h.raced,
           i.stranded = h.stranded, i.misfired = h.misfired,
           \A j \in Jobs : j \notin i.started \/ j \in Range(Tail(b)) =>
               j \notin h.started \/ j \in Range(m.batch)
    PROVE  PapersOf(Create(m, b, low), D, F, i)
  <1> DEFINE k == Head(b)
             q == Tail(b)
             r == Fresh(low)
             n == Create(m, b, low)
  <1>1. k \in Jobs /\ q \in Seq(Jobs) /\ m \in Memories
    BY RestOf DEF Sound
  <1>4. /\ Adds(m, n, k, r) /\ n.att = m.att /\ n.batch = q /\ n.boot = m.boot
        /\ r.state = "queued" /\ r.file = FALSE
    BY <1>1, CreateAdds
  <1> HIDE DEF k, q, n, r
  <1>9. F[k] = 0 /\ k \in Jobs \ Known(m)
    BY <1>1 DEF k
  <1>10. PapersOf(n, D, F, i)
    <2>1. i.crashes = 0 => n.boot = m.boot /\ r.state # "cancelled"
      BY <1>4
    <2>2. (r.file => r.state \in Filed) /\ (F[k] = 1 => r.file) /\ ~r.file /\ r.state # "absent"
      BY <1>4, <1>9
    <2>3. \A j \in Jobs : j \notin i.started \/ j \in Range(n.batch) =>
              j \notin h.started \/ j \in Range(m.batch)
      BY <1>4 DEF q
    <2>4. QED BY <1>4, <1>9, <2>1, <2>2, <2>3, NewPapers
  <1>11. QED BY <1>10 DEF n

(* A job has been created, and the next one of the batch is.               *)
LEMMA CreatedPapers ==
    ASSUME IInv, Papers, NEW t \in mem.threads, Created(t)
    PROVE  Papers'
  <1> DEFINE w == Woken(t)
             q == Queue(w, t.job)
             m == IF t.job \in mem.slot THEN w ELSE q
  <1>1. Orderly /\ t.at \in Arriving /\ Landed(t) /\ Keeping
    BY DEF Created, Arriving, Keeping, IInv, Orderly, bounds, history
  <1>2. /\ t.job \in Jobs /\ Sound(w) /\ build \in Nat
        /\ w.job = mem.job /\ w.batch = mem.batch /\ w.boot = mem.boot
    BY <1>1, WokenIs DEF Orderly, TypeOK
  <1>3. \/ mem' \in Pumped(m)
        \/ m.batch # <<>> /\ \E low \in Readings(m, TRUE) : mem' = Create(m, m.batch, low)
    BY DEF Created
  <1>4. /\ PapersOf(w, disk', files', Annals') /\ Sound(w)
        /\ PapersOf(q, disk', files', Annals') /\ Sound(q)
    BY <1>1, ArrivedPapers
  <1> HIDE DEF w
  <1>5. q.job = w.job /\ q.batch = w.batch /\ q.boot = w.boot
    BY <1>2, QueueIs
  <1> HIDE DEF q
  <1>6. /\ PapersOf(m, disk', files', Annals') /\ Sound(m)
        /\ m.job = mem.job /\ m.batch = mem.batch /\ m.boot = mem.boot
    BY <1>2, <1>4, <1>5
  <1> HIDE DEF m
  <1>7. CASE mem' \in Pumped(m)
    <2>1. Hands(m, mem')
      BY <1>2, <1>6, <1>7, PumpBears, BearsHands
    <2>2. PapersOf(mem', disk', files', Annals')
      BY <1>6, <2>1, HandsPapers
    <2>3. QED BY <2>2 DEF Papers
  <1>8. CASE m.batch # <<>> /\ \E low \in Readings(m, TRUE) : mem' = Create(m, m.batch, low)
    <2> DEFINE b == mem.batch
               k == Head(b)
    <2>1. PICK low \in BOOLEAN : mem' = Create(m, b, low)
      BY <1>6, <1>8 DEF Readings
    <2>2. b # <<>> /\ b \in Seq(Jobs) /\ IsInjective(b)
      BY <1>1, <1>6, <1>8 DEF Orderly, TypeOK, Memories, Orders
    <2>3. k \in Jobs /\ k \in Range(b) /\ Range(Tail(b)) \subseteq Range(b)
      BY <2>2, RestOf
    <2>4. k \notin Known(mem)
      BY <1>1, <2>3 DEF Orderly, Orders
    <2>5. k \notin Known(m)
      BY <1>6, <2>4 DEF Known
    <2>6. files'[k] = 0
      BY <1>6, <2>3 DEF PapersOf
    <2>7. \A j \in Jobs : j \notin Annals'.started \/ j \in Range(Tail(b)) =>
              j \notin Annals'.started \/ j \in Range(m.batch)
      BY <1>6, <2>3
    <2> HIDE DEF b
    <2>8. PapersOf(Create(m, b, low), disk', files', Annals')
      BY <1>2, <1>6, <2>2, <2>5, <2>6, <2>7, CreatePapers
    <2>9. QED BY <2>1, <2>8 DEF Papers
  <1>9. QED BY <1>3, <1>7, <1>8

(* The user picks recordings, which have never been picked.                *)
LEMMA StartManyPapers ==
    ASSUME Orderly, Papers, NEW b \in SetToAllKPermutations(Jobs), StartMany(b)
    PROVE  Papers'
  <1> DEFINE k == Head(b)
  <1>1. Sound(mem) /\ build \in Nat /\ Known(mem) \subseteq started
    BY DEF Orderly, TypeOK, Orders
  <1>2. b \in Seq(Jobs) /\ IsInjective(b) /\ Range(b) \subseteq Jobs
    <2>1. PICK S \in SUBSET Jobs : b \in SetToSeqs(S)
      BY DEF SetToAllKPermutations
    <2>2. QED BY <2>1, PermutationIs
  <1>3. b # <<>> /\ Range(b) \cap started = {} /\ started' = started \cup Range(b)
    BY DEF StartMany
  <1>4. PICK low \in BOOLEAN : mem' = Create(mem, b, low)
    BY DEF StartMany, Readings
  <1>5. k \in Jobs /\ k \in Range(b) /\ Range(Tail(b)) \subseteq Range(b)
    BY <1>2, <1>3, RestOf
  <1>6. k \notin Known(mem) /\ k \notin started
    BY <1>1, <1>3, <1>5
  <1>7. PapersOf(mem, disk, files, Annals)
    BY DEF Papers
  <1>8. files[k] = 0
    BY <1>5, <1>6, <1>7 DEF PapersOf, Annals
  <1>9. /\ disk' = disk /\ files' = files
        /\ Annals'.crashes = Annals.crashes /\ Annals'.cut = Annals.cut /\ Annals'.raced = Annals.raced
        /\ Annals'.stranded = Annals.stranded /\ Annals'.misfired = Annals.misfired
        /\ Annals'.started = started' /\ Annals.started = started
    BY DEF StartMany, history, Annals
  <1>10. \A j \in Jobs : j \notin Annals'.started \/ j \in Range(Tail(b)) =>
             j \notin Annals.started \/ j \in Range(mem.batch)
    BY <1>3, <1>5, <1>9
  <1>11. PapersOf(Create(mem, b, low), disk, files, Annals')
    BY <1>1, <1>2, <1>3, <1>6, <1>7, <1>8, <1>9, <1>10, CreatePapers
  <1>12. QED BY <1>4, <1>9, <1>11 DEF Papers

(* A job that is queued again keeps what it says of its file.              *)
LEMMA RequeuedKeepsFile ==
    ASSUME NEW job \in JobRecords, build \in Nat
    PROVE  Requeued(job).file = job.file
  <1>1. Prepared(job) \in JobRecords /\ Prepared(job).file = job.file
    <2>1. CASE job.vad \/ job.chunkSec = build
      BY <2>1 DEF Prepared
    <2>2. CASE ~(job.vad \/ job.chunkSec = build)
      <3> DEFINE a == [job EXCEPT !.cursor = 0]
                 b == [a EXCEPT !.lines = <<>>]
                 c == [b EXCEPT !.total = 0]
                 e == [c EXCEPT !.chunkSec = build]
      <3>1. a \in JobRecords /\ a.file = job.file
        BY DEF JobRecords
      <3> HIDE DEF a
      <3>2. b \in JobRecords /\ b.file = job.file
        <4>1. <<>> \in Seq(Units)
          OBVIOUS
        <4>2. QED BY <3>1, <4>1 DEF JobRecords
      <3> HIDE DEF b
      <3>3. c \in JobRecords /\ c.file = job.file
        BY <3>2 DEF JobRecords
      <3> HIDE DEF c
      <3>4. e \in JobRecords /\ e.file = job.file
        BY <3>3 DEF JobRecords
      <3>5. Prepared(job) = e
        BY <2>2 DEF Prepared, e, c, b, a
      <3>6. QED BY <3>4, <3>5
    <2>3. QED BY <2>1, <2>2
  <1>2. QED BY <1>1 DEF Requeued, JobRecords

(* A failed job is resumed.                                                *)
LEMMA ResumePapers ==
    ASSUME Orderly, Papers, NEW j \in Jobs, Resume(j)
    PROVE  Papers'
  <1> DEFINE job == mem.job[j]
             r == [job EXCEPT !.state = "done"]
             q == Requeued(job)
  <1>1. Sound(mem) /\ build \in Nat /\ mem \in Memories
    BY DEF Orderly, TypeOK, Sound
  <1>2. job \in JobRecords /\ job.state = "failed"
    BY <1>1 DEF Memories, Resume
  <1>3. ~Allowed(mem, j)
    BY <1>1, <1>2 DEF Sound
  <1>4. r \in JobRecords /\ r.state = "done" /\ r.file = job.file
    BY <1>2 DEF JobRecords, JobStates
  <1>5. q \in JobRecords /\ q.state = "queued" /\ q.file = job.file
    BY <1>1, <1>2, RequeuedIs, RequeuedKeepsFile
  <1>6. \/ mem' = Save([mem EXCEPT !.job[j] = r], Thread("surfaced", j, 0))
        \/ mem' = Save([mem EXCEPT !.job[j] = q], Thread("resumed", j, 0)) /\ ~job.file
    BY <1>1 DEF Resume, Memories, JobRecords
  <1> HIDE DEF r, q
  <1>7. PICK x : /\ x.state \in {"done", "queued"} /\ x.file = job.file
                 /\ x.state = "done" \/ ~x.file
                 /\ Adds(mem, mem', j, x) /\ mem'.att = mem.att
                 /\ mem'.batch = mem.batch /\ mem'.boot = mem.boot
    <2>1. ASSUME NEW at \in {"surfaced", "resumed"}, NEW x \in JobRecords,
                 mem' = Save([mem EXCEPT !.job[j] = x], Thread(at, j, 0))
          PROVE  /\ Adds(mem, mem', j, x) /\ mem'.att = mem.att
                 /\ mem'.batch = mem.batch /\ mem'.boot = mem.boot
      <3> DEFINE u == Thread(at, j, 0)
      <3>1. at \in Points
        BY DEF Points, Arriving
      <3>2. u \in Threads /\ u.job = j /\ u.at \notin Bearing \cup {"saveMeeting", "abandoned"}
        BY <3>1, ThreadIs DEF Bearing
      <3>3. mem' = Save([mem EXCEPT !.job[j] = x], u)
        BY <2>1
      <3> HIDE DEF u
      <3>4. QED BY <1>1, <3>2, <3>3, SetSaved
    <2>2. CASE mem' = Save([mem EXCEPT !.job[j] = r], Thread("surfaced", j, 0))
      BY <1>4, <2>1, <2>2
    <2>3. CASE mem' = Save([mem EXCEPT !.job[j] = q], Thread("resumed", j, 0)) /\ ~job.file
      BY <1>5, <2>1, <2>3
    <2>4. QED BY <1>6, <2>2, <2>3
  <1>8. UNCHANGED <<disk, files, started, crashes, cut, raced, stranded, misfired>>
    BY DEF Resume, history
  <1>9. Annals' = Annals
    BY <1>8 DEF Annals
  <1>10. NoTrace(mem', j, disk[j]) /\ Borne(mem', j, files[j])
    BY <1>7 DEF NoTrace, Borne, Adds
  <1>11. ~Allowed(mem', j)
    BY <1>3, <1>7 DEF Allowed
  <1>12. PapersOf(mem, disk, files, Annals)
    BY DEF Papers
  <1>13. ASSUME j \notin Annals.cut \cup Annals.misfired
         PROVE  /\ (x.file => x.state \in Filed) /\ (files[j] = 1 => x.file)
                /\ Mine(mem, j) = {} \/ x.file = mem.job[j].file
                /\ ~x.file \/ Terminal(x.state) \/ ~Queued(mem, j)
    <2>1. OneFile(mem, j, disk[j], files[j])
      BY <1>12, <1>13 DEF PapersOf
    <2>2. j \in Known(mem)
      BY <1>2 DEF Known
    <2>3. files[j] = 1 => job.file
      BY <1>2, <2>1, <2>2 DEF OneFile
    <2>4. QED BY <1>7, <2>3 DEF Filed, Terminal
  <1>14. \A i \in Jobs : i \notin Annals'.started \/ i \in Range(mem'.batch) =>
             i \notin Annals.started \/ i \in Range(mem.batch)
    BY <1>7, <1>9
  <1>15. x.state # "absent" /\ mem'.boot = mem.boot
    BY <1>7
  <1>16. PapersOf(mem', disk, files, Annals')
    BY <1>7, <1>9, <1>10, <1>11, <1>12, <1>13, <1>14, <1>15, AddedPapers
  <1>17. QED BY <1>8, <1>16 DEF Papers

(* recover() sets a record and writes it.                                  *)
LEMMA BootAdds ==
    ASSUME NEW d \in Memories, NEW j \in Jobs, NEW at \in Booting, NEW r \in JobRecords,
           NEW n, n = Save([d EXCEPT !.job[j] = r], BootThread(at, j))
    PROVE  Adds(d, n, j, r) /\ n.att = d.att /\ n.batch = d.batch
  <1> DEFINE v == Thread(at, j, 0)
             u == BootThread(at, j)
  <1>1. at \in Points
    BY DEF Booting, Points, Arriving
  <1>2. v \in Threads /\ v.at = at /\ v.job = j
    BY <1>1, ThreadIs
  <1>3. u = [v EXCEPT !.then = "boot"]
    BY DEF BootThread
  <1>4. n = Save([d EXCEPT !.job[j] = r], u)
    OBVIOUS
  <1> HIDE DEF u, v
  <1>5. u \in Threads /\ u.job = j /\ u.at = at
    BY <1>2, <1>3 DEF Threads
  <1>6. u.at \notin Bearing \cup {"saveMeeting", "abandoned"}
    BY <1>5 DEF Booting, Bearing
  <1>7. QED BY <1>4, <1>5, <1>6, SetSaved

(* recover() takes the next job of its list: a meeting that is there makes *)
(* it done, as its checkpoint says so.                                     *)
LEMMA RecoverPapers ==
    ASSUME IInv, Papers, Recover
    PROVE  Papers'
  <1> DEFINE b == mem.boot
             j == Head(b)
             saved == disk[j]
             d == [mem EXCEPT !.boot = Tail(b)]
             finished == [saved EXCEPT !.state = "done"]
             queued == Requeued(saved)
  <1>1. Orderly /\ Sound(mem) /\ mem \in Memories /\ build \in Nat
    BY DEF IInv, Orderly, TypeOK
  <1>2. b # <<>> /\ b \in Seq(Jobs) /\ IsInjective(b)
    BY <1>1 DEF Recover, Memories, Orderly, Orders
  <1>3. j \in Jobs /\ j \in Range(b) /\ Tail(b) \in Seq(Jobs)
    BY <1>2, RestOf
  <1>4. j \notin Known(mem) /\ disk[j] # None
    BY <1>1, <1>3 DEF Orderly, Orders
  <1>5. saved \in JobRecords
    BY <1>1, <1>3, <1>4 DEF Orderly, TypeOK
  <1>6. PapersOf(mem, disk, files, Annals) /\ crashes # 0
    BY <1>2 DEF Papers, PapersOf, Annals
  <1>7. ASSUME j \notin cut \cup misfired
        PROVE  /\ saved.file => saved.state \in Filed
               /\ files[j] = 1 => saved.file \/ saved.state = "cancelled"
               /\ ~Queued(mem, j)
    <2>1. OneFile(mem, j, disk[j], files[j])
      BY <1>3, <1>6, <1>7 DEF PapersOf, Annals
    <2>2. mem.job[j].state = "absent"
      BY <1>3, <1>4 DEF Known
    <2>3. ~mem.job[j].file
      BY <2>1, <2>2 DEF OneFile, Settled, Filed
    <2>4. ~Queued(mem, j)
      <3>1. StateKnown(mem, j, Mine(mem, j))
        BY <1>3, <1>7 DEF IInv, Fine, FineWith
      <3>2. QED BY <2>2, <3>1 DEF StateKnown
    <2>5. (disk[j] # None => disk[j].file \/ disk[j].state = "cancelled") \/ files[j] # 1
      BY <2>1, <2>2, <2>3 DEF OneFile
    <2>6. disk[j].file => disk[j].state \in Filed
      BY <1>4, <2>1 DEF OneFile, Truthful
    <2>7. QED BY <1>4, <2>4, <2>5, <2>6
  <1> HIDE DEF saved
  <1>8. finished \in JobRecords /\ finished.state = "done" /\ finished.file = saved.file
    BY <1>5 DEF JobRecords, JobStates
  <1>9. queued \in JobRecords /\ queued.state = "queued" /\ queued.file = saved.file
    BY <1>1, <1>5, RequeuedIs, RequeuedKeepsFile
  <1>10. \/ Terminal(saved.state) /\ mem' \in BootGoesOn([d EXCEPT !.job[j] = saved])
         \/ /\ ~Terminal(saved.state)
            /\ mem' = Save([d EXCEPT !.job[j] = finished], BootThread("surfaced", j))
         \/ /\ ~Terminal(saved.state) /\ ~(saved.file /\ saved.state \in {"recapping", "saving"})
            /\ mem' = Save([d EXCEPT !.job[j] = queued], BootThread("recovered", j))
    <2> DEFINE m == [mem EXCEPT !.boot = Tail(b), !.job[j] = saved]
    <2>1. mem' \in IF Terminal(saved.state) THEN BootGoesOn(m)
                   ELSE IF saved.file /\ saved.state \in {"recapping", "saving"}
                   THEN {Save([m EXCEPT !.job[j].state = "done"], BootThread("surfaced", j))}
                   ELSE {Save([m EXCEPT !.job[j] = Requeued(@)], BootThread("recovered", j))}
      BY DEF Recover, saved
    <2>2. m.job[j] = saved /\ m.job = [mem.job EXCEPT ![j] = saved]
      BY <1>1, <1>3 DEF Memories
    <2>3. m = [d EXCEPT !.job[j] = saved]
      BY <1>1, <1>3 DEF Memories
    <2>4. [m EXCEPT !.job[j].state = "done"] = [d EXCEPT !.job[j] = finished]
      BY <1>1, <1>3, <2>2 DEF Memories
    <2>5. [m EXCEPT !.job[j] = Requeued(@)] = [d EXCEPT !.job[j] = queued]
      BY <1>1, <1>3, <2>2 DEF Memories
    <2> HIDE DEF m, d, finished, queued
    <2>6. QED BY <2>1, <2>3, <2>4, <2>5
  <1> HIDE DEF finished, queued, b
  <1>11. /\ d \in Memories /\ d.batch = mem.batch /\ d.boot = Tail(b)
         /\ d.job = mem.job /\ d.queue = mem.queue /\ d.pcm = mem.pcm /\ d.slot = mem.slot
         /\ d.consumer = mem.consumer /\ d.att = mem.att /\ d.made = mem.made
         /\ d.decoder = mem.decoder /\ d.threads = mem.threads
    BY <1>1, <1>3 DEF Memories
  <1> HIDE DEF d, j
  <1>12. Sound(d) /\ ~Allowed(d, j)
    <2>1. Sound(d) /\ Known(d) = Known(mem)
      BY <1>1, <1>11, ListsAre
    <2>2. QED BY <1>3, <1>4, <2>1 DEF Sound, Known
  <1>13. ASSUME NEW r \in JobRecords, r.state # "absent", r.file = saved.file,
                saved.state = "cancelled" => r.state = "cancelled",
                j \notin cut \cup misfired => (r.file => r.state \in Filed),
                NEW n, Adds(d, n, j, r), n.att = d.att, n.batch = d.batch
         PROVE  PapersOf(n, disk, files, Annals)
    <2>1. Adds(mem, n, j, r) /\ n.att = mem.att /\ n.batch = mem.batch
      BY <1>11, <1>13 DEF Adds, Mine
    <2>2. j \in Jobs \ Known(mem)
      BY <1>3, <1>4
    <2>3. j \notin Annals.cut \cup Annals.misfired =>
              /\ r.file => r.state \in Filed
              /\ files[j] = 1 => r.file \/ r.state = "cancelled"
              /\ ~r.file \/ Terminal(r.state) \/ ~Queued(mem, j)
      BY <1>7, <1>13 DEF Annals
    <2>4. Annals.crashes # 0
      BY <1>6 DEF Annals
    <2>5. \A i \in Jobs : i \notin Annals.started \/ i \in Range(n.batch) =>
              i \notin Annals.started \/ i \in Range(mem.batch)
      BY <2>1
    <2>6. QED BY <1>1, <1>6, <1>13, <2>1, <2>2, <2>3, <2>4, <2>5, NewPapers
  <1>14. ASSUME NEW at \in Booting, NEW r \in JobRecords,
                mem' = Save([d EXCEPT !.job[j] = r], BootThread(at, j))
         PROVE  Adds(d, mem', j, r) /\ mem'.att = d.att /\ mem'.batch = d.batch
    BY <1>3, <1>11, <1>14, BootAdds
  <1>15. /\ UNCHANGED <<disk, files>> /\ Annals' = Annals
    BY DEF Recover, bounds, history, Annals
  <1>16. CASE /\ ~Terminal(saved.state)
              /\ mem' = Save([d EXCEPT !.job[j] = finished], BootThread("surfaced", j))
    <2>1. Adds(d, mem', j, finished) /\ mem'.att = d.att /\ mem'.batch = d.batch
      BY <1>8, <1>14, <1>16 DEF Booting
    <2>2. saved.state # "cancelled" /\ "done" \in Filed
      BY <1>16 DEF Terminal, Filed
    <2>3. PapersOf(mem', disk, files, Annals)
      BY <1>8, <1>13, <2>1, <2>2
    <2>4. QED BY <1>15, <2>3 DEF Papers
  <1>17. CASE /\ ~Terminal(saved.state) /\ ~(saved.file /\ saved.state \in {"recapping", "saving"})
              /\ mem' = Save([d EXCEPT !.job[j] = queued], BootThread("recovered", j))
    <2>1. Adds(d, mem', j, queued) /\ mem'.att = d.att /\ mem'.batch = d.batch
      BY <1>9, <1>14, <1>17 DEF Booting
    <2>2. /\ j \notin cut \cup misfired => ~saved.file
          /\ saved.state # "cancelled"
      BY <1>7, <1>17 DEF Filed, Terminal
    <2>3. PapersOf(mem', disk, files, Annals)
      BY <1>9, <1>13, <2>1, <2>2
    <2>4. QED BY <1>15, <2>3 DEF Papers
  <1>18. CASE Terminal(saved.state) /\ mem' \in BootGoesOn([d EXCEPT !.job[j] = saved])
    <2> DEFINE e == [d EXCEPT !.job[j] = saved]
    <2>1. saved.state # "absent"
      BY <1>18 DEF Terminal
    <2>2. Sound(e) /\ Apart(d, e, j) /\ e.job[j] = saved /\ e.threads = d.threads
          /\ e.att = d.att /\ e.batch = d.batch
      BY <1>3, <1>5, <1>12, <2>1, JobIs
    <2> HIDE DEF e
    <2>3. Adds(d, e, j, saved)
      BY <2>2 DEF Adds, Apart, Mine
    <2>4. PapersOf(e, disk, files, Annals)
      BY <1>5, <1>7, <1>13, <2>1, <2>2, <2>3
    <2>5. mem' \in BootGoesOn(e)
      BY <1>18 DEF e
    <2>6. Hands(e, mem')
      BY <1>1, <1>3, <2>2, <2>5, BootGoesOnBears, BearsHands
    <2>7. PapersOf(mem', disk, files, Annals)
      BY <2>4, <2>6, HandsPapers
    <2>8. QED BY <1>15, <2>7 DEF Papers
  <1>19. QED BY <1>10, <1>16, <1>17, <1>18

(* A job is cancelled: if its meeting is saved a tail is on its way, which *)
(* will see that.                                                          *)
LEMMA CancelPapers ==
    ASSUME IInv, Papers, NEW j \in Jobs, Cancel(j)
    PROVE  Papers'
  <1> DEFINE s == Stop(mem, j)
             p == [s.job[j] EXCEPT !.state = "cancelled"]
             r == [p EXCEPT !.error = "none"]
             u == Thread("cancelling", j, mem.att[j].id)
  <1>1. Orderly /\ Sound(mem) /\ mem \in Memories
    BY DEF IInv, Orderly, TypeOK
  <1>2. mem.job[j] \in JobRecords /\ mem.att[j].id \in Nat
    BY <1>1 DEF Memories, Attempts
  <1>3. /\ Apart(mem, s, j) /\ s.job = mem.job /\ s.threads = mem.threads /\ s \in Memories
        /\ ~s.att[j].accepting /\ ~s.att[j].tailAllowed
    BY <1>1, StopIs DEF Apart
  <1>4. mem' = Save([s EXCEPT !.job[j] = r], u)
    BY DEF Cancel
  <1> HIDE DEF s
  <1>5. p \in JobRecords /\ p.state = "cancelled" /\ p.file = mem.job[j].file
    BY <1>2, <1>3 DEF JobRecords, JobStates
  <1> HIDE DEF p
  <1>6. r \in JobRecords /\ r.state = "cancelled" /\ r.file = mem.job[j].file
    BY <1>5 DEF JobRecords, Errors
  <1> HIDE DEF r
  <1>7. /\ u \in Threads /\ u.job = j /\ u.at = "cancelling"
        /\ u.at \notin Bearing \cup {"saveMeeting", "abandoned"}
    <2>1. "cancelling" \in Points
      BY DEF Points, Ending
    <2>2. QED BY <1>2, <2>1, ThreadIs DEF Bearing
  <1> HIDE DEF u
  <1>8. /\ Adds(s, mem', j, r) /\ mem'.att = s.att /\ mem'.batch = s.batch /\ mem'.boot = s.boot
        /\ \E v \in Mine(mem', j) : Mine(mem', j) = Mine(s, j) \cup {v} /\ v.at = u.at /\ v.rec = r
    BY <1>3, <1>4, <1>6, <1>7, SetSaved
  <1>9. PICK v : /\ Mine(mem', j) = Mine(mem, j) \cup {v}
                 /\ v.at = "cancelling" /\ v.rec = r
    BY <1>3, <1>7, <1>8 DEF Mine
  <1>10. /\ Adds(mem, mem', j, r) /\ mem'.batch = mem.batch /\ mem'.boot = mem.boot
         /\ ~Allowed(mem', j)
    BY <1>3, <1>8 DEF Adds, Apart, Mine, Allowed
  <1>11. mem'.job[j] = r
    BY <1>10 DEF Adds
  <1>12. j \in Known(mem) /\ ~IsOver(mem, j)
    BY DEF Cancel
  <1>13. /\ disk' = disk /\ files' = files
         /\ Annals'.crashes = Annals.crashes /\ Annals'.cut = Annals.cut
         /\ Annals.raced \subseteq Annals'.raced /\ Annals'.started = Annals.started
         /\ Annals'.stranded = Annals.stranded /\ Annals'.misfired = Annals.misfired
    BY DEF Cancel, Annals
  <1>14. PapersOf(mem, disk, files, Annals)
    BY DEF Papers
  <1>15. ASSUME j \notin Annals.cut \cup Annals.misfired
         PROVE  OneFile(mem, j, disk[j], files[j]) /\ (files[j] = 1 => mem.job[j].file)
    BY <1>12, <1>14, <1>15 DEF PapersOf, OneFile, IsOver, Terminal
  <1>16. Annals'.crashes = 0 /\ j \notin Annals'.raced => NoTrace(mem', j, disk[j])
    <2>1. ASSUME j \notin Annals'.raced PROVE NoTrace(mem', j, disk[j])
      <3>1. \A t \in Mine(mem, j) : t.rec = None \/ t.at = "saveMeeting"
        BY <2>1 DEF Cancel, Annals, Mine
      <3>2. Terminal(r.state)
        BY <1>6 DEF Terminal
      <3>3. QED BY <1>9, <3>1, <3>2 DEF NoTrace
    <2>2. QED BY <2>1
  <1>17. Annals'.crashes = 0 /\ j \notin Annals'.stranded \cup Annals'.misfired =>
             Borne(mem', j, files[j])
    <2>1. ASSUME Annals'.crashes = 0, j \notin Annals'.stranded \cup Annals'.misfired, files[j] > 0
          PROVE  \E t \in Mine(mem', j) : t.at \in Bearing
      <3>1. j \notin cut \cup misfired
        BY <1>13, <1>14, <2>1 DEF PapersOf, Annals
      <3>2. OneFile(mem, j, disk[j], files[j]) /\ mem.job[j].file
        <4>1. OneFile(mem, j, disk[j], files[j]) /\ (files[j] = 1 => mem.job[j].file)
          BY <1>15, <3>1 DEF Annals
        <4>2. files[j] = 1
          BY <2>1, <4>1 DEF OneFile
        <4>3. QED BY <4>1, <4>2
      <3>3. mem.job[j].state \in {"saving", "recapping"}
        BY <1>12, <3>2 DEF OneFile, Settled, Filed, IsOver, Terminal
      <3>4. StateKnown(mem, j, Mine(mem, j)) /\ TailAlone(mem, j, Mine(mem, j))
        BY <3>1 DEF IInv, Fine, FineWith
      <3>5. PICK t \in Mine(mem, j) : InTail(t)
        BY <3>3, <3>4 DEF StateKnown
      <3>6. t.at # "failing"
        BY <3>3, <3>4, <3>5 DEF StateKnown
      <3>7. t.at \notin {"done", "removing", "abandoning", "abandoned"}
        BY <3>3, <3>4, <3>5 DEF TailAlone
      <3>8. t.at # "saveMeeting"
        BY <3>2, <3>5 DEF OneFile
      <3>9. t.at \in Bearing
        BY <3>5, <3>6, <3>7, <3>8 DEF InTail, Tailing, Bearing
      <3>10. QED BY <1>9, <3>5, <3>9
    <2>2. QED BY <2>1 DEF Borne
  <1>18. ASSUME j \notin Annals.cut \cup Annals.misfired
         PROVE  /\ (r.file => r.state \in Filed) /\ (files[j] = 1 => r.file)
                /\ Mine(mem, j) = {} \/ r.file = mem.job[j].file
                /\ ~r.file \/ Terminal(r.state) \/ ~Queued(mem, j)
    BY <1>6, <1>15, <1>18 DEF Filed, Terminal
  <1>19. /\ r.state # "absent"
         /\ \A i \in Jobs : i \notin Annals'.started \/ i \in Range(mem'.batch) =>
                i \notin Annals.started \/ i \in Range(mem.batch)
    BY <1>6, <1>10, <1>13
  <1>20. PapersOf(mem', disk, files, Annals')
    BY <1>10, <1>13, <1>14, <1>16, <1>17, <1>18, <1>19, AddedPapers
  <1>21. QED BY <1>13, <1>20 DEF Papers

(* The process dies: what its memory knew and the disk does not is cut.    *)
LEMMA CrashPapers ==
    ASSUME Orderly, Papers, Crash
    PROVE  Papers'
  <1> DEFINE S == {j \in Jobs : disk[j] # None}
  <1>1. PICK rest \in SetToSeqs(S) : mem' = NewProcess(rest)
    BY DEF Crash
  <1>2. rest \in Seq(Jobs)
    BY <1>1, PermutationIs
  <1>3. /\ Sound(mem') /\ Known(mem') = {} /\ mem'.batch = <<>>
        /\ \A j \in Jobs : mem'.job[j].state = "absent"
    BY <1>1, <1>2, NewProcessIs
  <1>4. \A j \in Jobs : ~mem'.job[j].file /\ Mine(mem', j) = {}
    BY <1>1 DEF NewProcess, NoJob, Mine
  <1>5. /\ disk' = disk /\ files' = files /\ started' = started /\ crashes' = crashes + 1
        /\ cut' = cut \cup {j \in Jobs : Untold(j)}
        /\ misfired' = misfired
    BY DEF Crash
  <1>6. crashes' # 0 /\ Range(mem'.batch) = {}
    BY <1>3, <1>5 DEF Orderly, TypeOK, Range
  <1>7. ASSUME NEW j \in Jobs \ (cut' \cup misfired') PROVE OneFile(mem', j, disk'[j], files'[j])
    <2>1. OneFile(mem, j, disk[j], files[j]) /\ ~Untold(j)
      BY <1>5, <1>7 DEF Papers, PapersOf, Annals
    <2>2. files[j] = 1 => (disk[j] # None => disk[j].file \/ disk[j].state = "cancelled")
      BY <2>1 DEF OneFile, Untold
    <2>3. QED BY <1>3, <1>4, <1>5, <2>1, <2>2 DEF OneFile, Settled
  <1>8. ASSUME NEW j \in Jobs, j \notin started' PROVE files'[j] = 0
    BY <1>5, <1>8 DEF Papers, PapersOf, Annals
  <1>9. PapersOf(mem', disk', files', Annals')
    BY <1>6, <1>7, <1>8 DEF PapersOf, Annals
  <1>10. QED BY <1>9 DEF Papers

(* The first start has no papers.                                          *)
LEMMA InitIsPapers == Init => Papers
  <1> SUFFICES ASSUME Init PROVE Papers
    OBVIOUS
  <1>1. <<>> \in Seq(Jobs)
    OBVIOUS
  <1>2. /\ Sound(mem) /\ Known(mem) = {} /\ mem.boot = <<>>
        /\ \A j \in Jobs : mem.job[j].state = "absent"
    BY <1>1, NewProcessIs DEF Init
  <1>3. \A j \in Jobs : ~mem.job[j].file /\ Mine(mem, j) = {}
    BY DEF Init, NewProcess, NoJob, Mine
  <1>4. \A j \in Jobs : disk[j] = None /\ files[j] = 0 /\ cut = {}
    BY DEF Init
  <1>5. ASSUME NEW j \in Jobs PROVE OneFile(mem, j, disk[j], files[j])
    BY <1>3, <1>4 DEF OneFile, Settled, Truthful
  <1>6. ASSUME NEW j \in Jobs PROVE NoTrace(mem, j, disk[j]) /\ Borne(mem, j, files[j])
    BY <1>2 DEF NoTrace, Borne
  <1>7. cut = {}
    BY DEF Init
  <1>8. QED BY <1>2, <1>4, <1>5, <1>6, <1>7 DEF Papers, PapersOf, Annals

(* Every step keeps the papers in order.                                   *)
LEMMA NextKeepsPapers == IInv /\ Papers /\ [Next]_vars => Papers'
  <1> SUFFICES ASSUME IInv, Papers, [Next]_vars PROVE Papers'
    OBVIOUS
  <1>1. Orderly
    BY DEF IInv, Orderly
  <1>2. ASSUME NEW t \in mem.threads, Goes(t) PROVE Papers'
    <2>1. CASE FailSaved(t) \/ Created(t) \/ ClaimSaved(t) \/ Admitted(t) \/ AdmissionThrows(t)
      BY <1>1, <2>1, FailSavedPapers, CreatedPapers, ClaimedPapers
    <2>2. CASE ChunkSaved(t) \/ SlabHeard(t) \/ SlabNotHeard(t) \/ WindowHeard(t) \/ WindowNotHeard(t)
      BY <1>1, <2>2, ChunkSavedPapers, HeardPapers
    <2>3. CASE ChunkThrew(t) \/ FinishDecoding(t) \/ WindowsSaved(t) \/ Consumed(t)
                 \/ CheckpointRemoved(t)
      BY <1>1, <2>3, StretchPapers
    <2>4. CASE MeetingSaved(t) \/ FileDeleted(t) \/ Abandoned(t)
      BY <2>4, MeetingSavedPapers, FileDeletedPapers, AbandonedPapers
    <2>5. CASE CheckpointSaved(t) \/ Recapped(t) \/ Ingested(t) \/ TailThrows(t)
      BY <1>1, <2>5, TailSavedPapers, TailThrowsPapers
    <2>6. CASE ResumeSaved(t) \/ RecoverSaved(t)
      BY <2>6, ResumeSavedPapers
    <2>7. CASE CancelSaved(t) \/ CancelRemoved(t) \/ CancelEnds(t)
                 \/ SurfacedSaved(t) \/ SurfacedRemoved(t)
      BY <1>1, <2>7, CancelEndsPapers, SurfacedPapers
    <2>8. QED BY <1>2, <2>1, <2>2, <2>3, <2>4, <2>5, <2>6, <2>7 DEF Goes
  <1>3. ASSUME NEW j \in Jobs, Chunk(j) \/ Complete(j) \/ DecoderStops(j) \/ Resume(j) \/ Cancel(j)
        PROVE  Papers'
    BY <1>1, <1>3, ChunkPapers, CompletePapers, ResumePapers, CancelPapers
  <1>4. ASSUME NEW t \in mem.threads, TailWriteFails(t) PROVE Papers'
    BY <1>1, <1>4, TailThrowsPapers
  <1>5. CASE Recover
    BY <1>5, RecoverPapers
  <1>6. CASE Crash
    BY <1>1, <1>6, CrashPapers
  <1>7. ASSUME NEW b \in SetToAllKPermutations(Jobs), StartMany(b) PROVE Papers'
    BY <1>1, <1>7, StartManyPapers
  <1>8. CASE UNCHANGED vars
    <2>1. mem' = mem /\ disk' = disk /\ files' = files /\ Annals' = Annals
      BY <1>8 DEF vars, bounds, history, Annals
    <2>2. QED BY <2>1 DEF Papers
  <1>9. QED BY <1>2, <1>3, <1>4, <1>5, <1>6, <1>7, <1>8 DEF Next, System

(* A recording with one file at most is saved once.                        *)
LEMMA PapersAreOne == Papers => OneMeetingPerImport
  <1> SUFFICES ASSUME Papers, NEW j \in Jobs, files[j] > 1, j \notin cut \cup misfired
               PROVE  FALSE
    BY DEF OneMeetingPerImport
  <1>1. files[j] \in {0, 1}
    BY DEF Papers, PapersOf, Annals, OneFile
  <1>2. QED BY <1>1

(* When nobody is left to see to a cancelled job there is nothing to see   *)
(* to.                                                                     *)
LEMMA PapersAreGone == Papers => CancelLeavesNothing
  <1> SUFFICES ASSUME Papers, NEW j \in Jobs, mem.job[j].state = "cancelled", crashes = 0,
                      \A t \in mem.threads : t.job # j
               PROVE  /\ files[j] = 0 \/ j \in stranded \cup misfired
                      /\ disk[j] = None \/ Terminal(disk[j].state) \/ j \in raced
    BY DEF CancelLeavesNothing
  <1>1. Mine(mem, j) = {} /\ cut = {}
    BY DEF Mine, Papers, PapersOf, Annals
  <1>2. j \in stranded \cup misfired \/ files[j] = 0
    <2>1. ASSUME j \notin stranded \cup misfired PROVE files[j] = 0
      <3>1. Borne(mem, j, files[j]) /\ files[j] \in {0, 1}
        BY <1>1, <2>1 DEF Papers, PapersOf, Annals, OneFile
      <3>2. QED BY <1>1, <3>1 DEF Borne
    <2>2. QED BY <2>1
  <1>3. j \in raced \/ disk[j] = None \/ Terminal(disk[j].state)
    BY <1>1 DEF Papers, PapersOf, Annals, NoTrace
  <1>4. QED BY <1>2, <1>3

-----------------------------------------------------------------------------
(* The theorems about meetings.                                            *)

(* The meeting file, the record of its job and the checkpoint agree at     *)
(* every await, and whoever is in the tail knows of them.                  *)
THEOREM PapersAreInOrder == Spec => []Papers
  <1>1. Init => Papers
    BY InitIsPapers
  <1>2. IInv /\ Papers /\ [Next]_vars => Papers'
    BY NextKeepsPapers
  <1>3. QED BY <1>1, <1>2, ImportsAreFine, PTL DEF Spec

(* A recording becomes one meeting, whatever is resumed, fails to be       *)
(* written or dies, unless a crash falls between the file and its          *)
(* checkpoint or a late admission fails the job.                           *)
THEOREM OneMeetingIsSaved == Spec => []OneMeetingPerImport
  BY PapersAreInOrder, PapersAreOne, PTL

(* A cancel is clean: when the last thread of the job has ended there is   *)
(* no meeting of it, and no checkpoint that a restart would go on from,    *)
(* unless its tail threw or a write was overtaken.                         *)
THEOREM CancelIsClean == Spec => []CancelLeavesNothing
  BY PapersAreInOrder, PapersAreGone, PTL
=============================================================================
