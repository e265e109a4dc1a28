------------------------------ MODULE CloudStt ------------------------------
(***************************************************************************)
(* Live cloud transcription: the sessions of main/cloud-stt/               *)
(* live-session.ts, each with a socket for the microphone and one for the  *)
(* remote speakers, and the handlers of main/index.ts that start, replace, *)
(* stop and revoke them for the capture that owns the current one.         *)
(*                                                                         *)
(* One action is one turn of the event loop: an IPC call, a socket event,  *)
(* a message of the provider or a timer, with the microtasks it resumes.   *)
(* The provider transcribes a frame it was sent into one line, and         *)
(* confirms the end of a stream after its last line.                       *)
(***************************************************************************)
EXTENDS Naturals, FiniteSets

CONSTANTS
    Captures,       \* captures the renderer may start, each once
    Tracks,         \* "you" and "them"
    ClosesItself,   \* the client closes on the confirmation (Soniox) or waits (Nova)
    MaxFrames,      \* bound: frames pushed on a track
    None            \* no capture

ASSUME SomeTracks == IsFiniteSet(Tracks) /\ Tracks # {}
ASSUME NoneIsNoCapture == None \notin Captures
ASSUME SettingsAreTyped == ClosesItself \in BOOLEAN /\ MaxFrames \in Nat

VARIABLES
    owner,      \* cloudSttIpcOwner: the capture it was made for
    active,     \* the session that is streaming
    pending,    \* the session whose sockets are opening
    session,    \* capture -> its session
    track,      \* capture -> track -> its socket and the flags of TrackSession
    stop,       \* capture -> what its Stop call has got
    \* the provider and what became of the audio
    frames,     \* capture -> track -> frames pushed
    backlog,    \* capture -> track -> frames sent and not transcribed
    ended,      \* capture -> track -> the provider has the end of the stream
    missed      \* captures some audio or line of which was dropped

handlers == <<owner, active, pending, session, track, stop>>
provider == <<frames, backlog, ended, missed>>
liveVars == <<handlers, provider>>

Socket == {"none", "connecting", "open", "closing", "closed"}
Session == {"new", "opening", "live", "closing", "closed"}

LiveInit ==
    /\ owner = None /\ active = None /\ pending = None
    /\ session = [c \in Captures |-> [state |-> "new", started |-> "no", overflow |-> FALSE]]
    /\ track = [c \in Captures |-> [t \in Tracks |->
                   [ws |-> "none", opened |-> FALSE, acked |-> FALSE, terminal |-> FALSE]]]
    /\ stop = [c \in Captures |-> "none"]
    /\ frames = [c \in Captures |-> [t \in Tracks |-> 0]]
    /\ backlog = [c \in Captures |-> [t \in Tracks |-> 0]]
    /\ ended = [c \in Captures |-> [t \in Tracks |-> FALSE]]
    /\ missed = {}

-----------------------------------------------------------------------------
(* The synchronous parts, on the whole state h of sessions and handlers.   *)

Now == [owner |-> owner, active |-> active, pending |-> pending,
        session |-> session, track |-> track, stop |-> stop]
Become(h) ==
    /\ owner' = h.owner /\ active' = h.active /\ pending' = h.pending
    /\ session' = h.session /\ track' = h.track /\ stop' = h.stop

(* The tracks of a closed session: their sockets are closed or terminated, *)
(* and nothing listens to them any more.                                   *)
Cleared(tracks) ==
    [t \in Tracks |-> [ws |-> IF tracks[t].ws = "none" THEN "none" ELSE "closed",
                       opened |-> FALSE, acked |-> FALSE, terminal |-> FALSE]]

(* A close after which a Stop that waits is forgotten.                     *)
CloseSilently(h, c, result) ==
    [h EXCEPT
        !.session[c].state = "closed",
        !.session[c].started = IF @ = "waiting" THEN "failed" ELSE @,
        !.track[c] = Cleared(@),
        !.pending = IF @ = c THEN None ELSE @,
        !.owner = IF @ = c /\ h.session[c].started = "waiting" THEN None ELSE @]

(* The session c is closed: a start that waits for its sockets fails, and  *)
(* a Stop that waits gets its result.  Both handlers give up the ownership *)
(* if it is still theirs.                                                  *)
Close(h, c, result) ==
    [h EXCEPT
        !.session[c].state = "closed",
        !.session[c].started = IF @ = "waiting" THEN "failed" ELSE @,
        !.track[c] = Cleared(@),
        !.stop[c] = IF @ = "waiting" THEN result ELSE @,
        !.pending = IF @ = c THEN None ELSE @,
        !.active = IF @ = c /\ h.stop[c] = "waiting" THEN None ELSE @,
        !.owner = IF @ = c /\ (h.stop[c] = "waiting" \/ h.session[c].started = "waiting")
                  THEN None ELSE @]

(* A stop that forgets the session whose sockets are still opening.        *)
StopActiveOnly(h) ==
    LET a == IF h.active = None \/ h.session[h.active].state = "closed" THEN h
             ELSE Close(h, h.active, "incomplete")
    IN  [a EXCEPT !.active = None]

(* stopCloudSttLive() without grace: nothing is left open.                 *)
StopNow(h) ==
    LET p == IF h.pending = None THEN h ELSE Close(h, h.pending, "incomplete")
        a == IF p.active = None \/ p.session[p.active].state = "closed" THEN p
             ELSE Close(p, p.active, "incomplete")
    IN  [a EXCEPT !.active = None]

(* An acknowledgement that takes any close for the end of the stream.      *)
AcknowledgeAnyClose(h, c, t) ==
    LET g == [h EXCEPT !.track[c][t].acked = TRUE] IN
    IF h.session[c].state # "closing" \/ h.track[c][t].acked THEN h
    ELSE IF \E u \in Tracks : ~g.track[c][u].acked THEN g
    ELSE Close(g, c, "complete")

(* acknowledgeTrackClose(): the last track completes the stop.             *)
Acknowledge(h, c, t) ==
    LET g == [h EXCEPT !.track[c][t].acked = TRUE] IN
    IF h.session[c].state # "closing" \/ h.track[c][t].acked THEN h
    ELSE IF \E u \in Tracks : ~g.track[c][u].acked THEN g
    ELSE Close(g, c, IF \A u \in Tracks : g.track[c][u].terminal
                     THEN "complete" ELSE "incomplete")

-----------------------------------------------------------------------------
(* Calls of the renderer.                                                  *)

(* cloudSttStart: the new owner replaces whatever session there is.  It    *)
(* fails at once without credentials, or where policy blocks the host.     *)
Start(c) ==
    /\ session[c].state = "new"
    /\ LET h == StopNow([Now EXCEPT !.owner = c]) IN
       \/ Become([h EXCEPT !.session[c].state = "opening",
                           !.session[c].started = "waiting",
                           !.pending = c,
                           !.track[c] = [t \in Tracks |-> [@[t] EXCEPT !.ws = "connecting"]]])
       \/ Become([h EXCEPT !.session[c].state = "closed",
                           !.session[c].started = "failed",
                           !.owner = None])
    /\ UNCHANGED provider

(* cloudSttStop by the owner.  A session whose queue overflowed is closed  *)
(* and remembers it; tracks whose socket is gone cannot confirm anything.  *)
(* Sending the end of the stream may fail on a socket (Failing).           *)
GracefulStop(c, Failing) ==
    LET open == {t \in Tracks : track[c][t].ws = "open"}
        unconfirmed == {t \in Tracks : track[c][t].ws = "closed"} \cup Failing
        closing == [Now EXCEPT
            !.session[c].state = "closing", !.stop[c] = "waiting",
            !.track[c] = [t \in Tracks |-> [@[t] EXCEPT !.acked = t \in unconfirmed]]]
    IN  /\ Failing \subseteq open
        /\ Become(IF unconfirmed = Tracks THEN Close(closing, c, "incomplete") ELSE closing)
        /\ ended' = [ended EXCEPT ![c] = [t \in Tracks |-> t \in open \ Failing]]

Stop(c) ==
    /\ owner = c /\ stop[c] = "none"
    /\ CASE active = c /\ session[c].state = "live" ->
                \E Failing \in SUBSET Tracks : GracefulStop(c, Failing)
         [] active = c /\ session[c].state = "closed" ->
                /\ Become([Now EXCEPT !.active = None, !.owner = None,
                        !.stop[c] = IF session[c].overflow THEN "incomplete" ELSE "complete"])
                /\ UNCHANGED ended
         [] active # c ->
                /\ Become([StopNow(Now) EXCEPT !.owner = None, !.stop[c] = "nothing"])
                /\ UNCHANGED ended
    /\ UNCHANGED <<frames, backlog, missed>>

(* cloudSttStop with force, also while a graceful Stop waits.              *)
ForceStop(c) ==
    /\ owner = c
    /\ Become([StopNow(Now) EXCEPT !.owner = None,
                   !.stop[c] = IF @ = "none" THEN "forced" ELSE StopNow(Now).stop[c]])
    /\ UNCHANGED provider

(* The window is replaced, closes or dies, or the session is signed out.   *)
InvalidateOwner ==
    /\ owner # None
    /\ Become([StopNow(Now) EXCEPT !.owner = None])
    /\ UNCHANGED provider

(* cloudSttPush reaches the active session, which drops what it cannot     *)
(* send.  A queue over its limit ends the session.                         *)
Push(c, t) ==
    /\ active = c /\ frames[c][t] < MaxFrames
    /\ frames' = [frames EXCEPT ![c][t] = @ + 1]
    /\ \/ /\ session[c].state = "live" /\ track[c][t].ws = "open"
          /\ backlog' = [backlog EXCEPT ![c][t] = @ + 1]
          /\ UNCHANGED <<handlers, missed>>
       \/ /\ session[c].state = "live" /\ track[c][t].ws # "open"
          /\ missed' = missed \cup {c}
          /\ UNCHANGED <<handlers, backlog>>
       \/ /\ session[c].state = "live" /\ track[c][t].ws = "open"
          /\ LET h == Close(Now, c, "incomplete") IN
             Become([h EXCEPT !.session[c].overflow = TRUE])
          /\ missed' = missed \cup {c}
          /\ UNCHANGED backlog
    /\ UNCHANGED ended

-----------------------------------------------------------------------------
(* Events of the sockets.                                                  *)

(* The last track to open makes the session the active one, although an    *)
(* earlier one may be gone again.                                          *)
Opens(c, t) ==
    /\ track[c][t].ws = "connecting"
    /\ LET h == [Now EXCEPT !.track[c][t].ws = "open", !.track[c][t].opened = TRUE] IN
       Become(IF \A u \in Tracks : h.track[c][u].opened
              THEN [h EXCEPT !.session[c].state = "live", !.session[c].started = "ok",
                             !.pending = None, !.active = c]
              ELSE h)
    /\ UNCHANGED provider

(* An error, a close or the connect timeout before the socket is open.     *)
ConnectFails(c, t) ==
    /\ track[c][t].ws = "connecting"
    /\ Become(Close([Now EXCEPT !.track[c][t].ws = "closed"], c, "incomplete"))
    /\ UNCHANGED provider

(* The other side closes, or the connection breaks: during a stop an error *)
(* already acknowledges the track.                                         *)
PeerEnds(c, t) ==
    /\ track[c][t].ws = "open"
    /\ LET h == [Now EXCEPT !.track[c][t].ws = "closing"] IN
       \/ Become(h)
       \/ Become(Acknowledge(h, c, t))
    /\ UNCHANGED provider

SocketClosed(c, t) ==
    /\ track[c][t].ws = "closing"
    /\ Become(Acknowledge([Now EXCEPT !.track[c][t].ws = "closed"], c, t))
    /\ UNCHANGED provider

-----------------------------------------------------------------------------
(* Messages of the provider, which arrive until the socket has closed.     *)

Reaches(c, t) == track[c][t].ws \in {"open", "closing"}

(* A line, which the callback drops if its capture is no longer the owner. *)
Line(c, t) ==
    /\ Reaches(c, t) /\ backlog[c][t] > 0
    /\ backlog' = [backlog EXCEPT ![c][t] = @ - 1]
    /\ missed' = IF owner = c THEN missed ELSE missed \cup {c}
    /\ UNCHANGED <<handlers, frames, ended>>

(* The end of the stream is confirmed.                                     *)
Confirms(c, t) ==
    /\ Reaches(c, t) /\ session[c].state = "closing"
    /\ ended[c][t] /\ backlog[c][t] = 0 /\ ~track[c][t].terminal
    /\ LET s == [track[c][t] EXCEPT !.terminal = TRUE,
                                    !.ws = IF ClosesItself THEN "closing" ELSE @]
       IN  Become([Now EXCEPT !.track[c][t] = s])
    /\ UNCHANGED provider

(* An error frame while the stream ends.                                   *)
ErrorFrame(c, t) ==
    /\ Reaches(c, t) /\ session[c].state = "closing" /\ ~track[c][t].acked
    /\ Become(Acknowledge(Now, c, t))
    /\ UNCHANGED provider

(* The deadline of a graceful stop.                                        *)
Deadline(c) ==
    /\ session[c].state = "closing"
    /\ Become(Close(Now, c, "incomplete"))
    /\ UNCHANGED provider

-----------------------------------------------------------------------------
LiveNext ==
    \/ \E c \in Captures : Start(c) \/ Stop(c) \/ ForceStop(c) \/ Deadline(c)
    \/ \E c \in Captures, t \in Tracks :
        \/ Push(c, t) \/ Opens(c, t) \/ ConnectFails(c, t)
        \/ PeerEnds(c, t) \/ SocketClosed(c, t)
        \/ Line(c, t) \/ Confirms(c, t) \/ ErrorFrame(c, t)
    \/ InvalidateOwner

LiveSpec == LiveInit /\ [][LiveNext]_liveVars

(* A socket opens or its connect timer runs out; the deadline of a stop    *)
(* runs out.  Nothing is assumed of the provider.                          *)
LiveFairSpec ==
    /\ LiveSpec
    /\ \A c \in Captures :
        /\ WF_liveVars(Deadline(c))
        /\ \A t \in Tracks : WF_liveVars(Opens(c, t) \/ ConnectFails(c, t))

-----------------------------------------------------------------------------
(* Properties.                                                             *)

LiveTypeOK ==
    /\ {owner, active, pending} \subseteq Captures \cup {None}
    /\ pending # None => session[pending].state = "opening"
    /\ active # None => session[active].state \in {"live", "closing", "closed"}
    /\ \A c \in Captures :
        /\ session[c].state \in Session
        /\ session[c].started \in {"no", "waiting", "ok", "failed"}
        /\ stop[c] \in {"none", "waiting", "complete", "incomplete", "nothing", "forced"}
        /\ \A t \in Tracks :
            /\ track[c][t].ws \in Socket
            /\ backlog[c][t] \in 0..frames[c][t] /\ frames[c][t] \in 0..MaxFrames
    /\ missed \subseteq Captures

(* An authenticated socket is open or opening only for the capture that    *)
(* owns the current session, and that session is the one a stop reaches:   *)
(* whatever replaces, revokes or stops a capture, at any point of its      *)
(* start, leaves no socket behind.                                         *)
SocketsBelongToTheOwner ==
    \A c \in Captures, t \in Tracks :
        track[c][t].ws \in {"connecting", "open"} =>
            owner = c /\ (active = c \/ pending = c)

(* A Stop that reports a complete transcript is right: every frame that    *)
(* was pushed on either track has been transcribed and shown.              *)
CompleteMeansComplete ==
    \A c \in Captures : stop[c] = "complete" =>
        /\ c \notin missed
        /\ \A t \in Tracks : backlog[c][t] = 0

(* Every start and every Stop gets its answer, whatever the provider does. *)
(* (Each is made once for a capture, so this is waiting ~> answered.)      *)
EveryCallIsAnswered ==
    []<>(\A c \in Captures : session[c].started # "waiting" /\ stop[c] # "waiting")
=============================================================================
