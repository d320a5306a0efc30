----------------------------- MODULE Conversation -----------------------------
(***************************************************************************)
(* One agent session as a page of the dashboard shows it. The server keeps *)
(* the session's transcript (SessionTranscriptCacheService) and its latest *)
(* events (TurnEventStream); the page (useAgentSessionRuntime) loads a     *)
(* snapshot, follows the events from there, starts turns, and sends the    *)
(* prompt that the session was created with (pendingDispatchStore).        *)
(*                                                                         *)
(* The server is one JavaScript process: an action is what runs between    *)
(* two awaits, but for the read of a transcript, which is one with what    *)
(* follows it. The connection of the events may break, and is opened again *)
(* by the browser; the page may be loaded anew; the server may die.        *)
(*                                                                         *)
(* An event is turn.updated, which carries the whole turn ("update"), or   *)
(* any other, which only moves the page's cursor ("other"). What a turn    *)
(* contains is left out but for how many changes it has seen: whether it   *)
(* waits for an answer that may still be given after a restart is a choice *)
(* made at the restart. How a transcript reaches its file is in            *)
(* Transcript: here, the file is what the transcript has been at some      *)
(* earlier time.                                                           *)
(***************************************************************************)
EXTENDS Naturals, Sequences

CONSTANTS
  Turns,        \* the turns, in the order in which the page asks for them
  NoTurn,       \* null
  NoSequence,   \* undefined
  MaxChanges,   \* bound: the changes that a turn sees in the process that started it
  MaxVersion,   \* bound: the changes that a turn sees
  BufferSize,   \* the events that the server keeps of a session
  MaxLoads,     \* bound: how often a page that is loaded is loaded anew
  MaxCrashes    \* bound: how often the server dies

ASSUME ConversationAssumption ==
  /\ Turns \subseteq Nat
  /\ NoTurn \notin Turns /\ NoSequence \notin Nat
  /\ MaxVersion \in Nat \ {0} /\ MaxChanges \in 1..MaxVersion
  /\ BufferSize \in Nat \ {0, 1}
  /\ MaxLoads \in Nat
  /\ MaxCrashes \in Nat

VARIABLES
  \* The server.
  version,    \* how many changes a turn has seen since it was started
  ended,      \* the turns that have ended
  active,     \* the session's turn in activeBySession
  restored,   \* the turn of an earlier process that goes on in this one, or NoTurn
  order,      \* the turns that were started, in order
  throttled,  \* whether a change of the active turn waits for its timer
  transcript, \* the session's transcript, in memory
  file,       \* and on file
  sequence,   \* sessionSequences, or NoSequence
  buffer,     \* sessionEvents: the latest events
  \* The page.
  page,       \* what it shows
  stream,     \* its EventSource: "none", "down" or "up"
  cursor,     \* the event that the EventSource goes on from
  pipe,       \* the events on their way to it
  get,        \* its request of a snapshot: "none", "asked", "answered", "failed"
  answer,     \* the snapshot on its way
  post,       \* its requests to start a turn
  kind,       \* what they are to send: the initial prompt or another message
  dispatch,   \* the status of the pending initial dispatch
  \* History.
  orphaned,   \* the requests whose sender is gone
  ahead,      \* whether the number of the last snapshot was ahead of LastNumber
  missed,     \* whether the page was told of something that was out of date, or
              \* was not told of something, and nothing will put it right
  loads, crashes

turnVars == <<version, ended, active, restored, order, throttled>>
serverVars == <<turnVars, transcript, file, sequence, buffer>>
streamVars == <<stream, cursor, pipe>>
getVars == <<get, answer, ahead>>
postVars == <<post, kind, dispatch, orphaned>>
boundVars == <<loads, crashes>>
vars == <<serverVars, page, streamVars, getVars, postVars, missed, boundVars>>

Empty == [version |-> [t \in Turns |-> 0], ended |-> {}, active |-> NoTurn, seq |-> 0]
Blank == [loaded |-> FALSE, pending |-> FALSE, ready |-> FALSE,
          version |-> [t \in Turns |-> 0], ended |-> {}]

Init ==
  /\ version = [t \in Turns |-> 0]
  /\ ended = {}
  /\ active = NoTurn
  /\ restored = NoTurn
  /\ order = <<>>
  /\ throttled = FALSE
  /\ transcript = Empty
  /\ file = Empty
  /\ sequence = NoSequence
  /\ buffer = <<>>
  /\ page = Blank
  /\ stream = "none"
  /\ cursor = 0
  /\ pipe = <<>>
  /\ get = "none"
  /\ answer = Empty
  /\ post = [t \in Turns |-> "none"]
  /\ kind = [t \in Turns |-> "none"]
  /\ dispatch = "pending"
  /\ orphaned = {}
  /\ ahead = FALSE
  /\ missed = FALSE
  /\ loads = 0
  /\ crashes = 0

Last == order[Len(order)]

-----------------------------------------------------------------------------
(***************************************************************************)
(* SessionTranscriptCacheService and TurnEventStream.                      *)
(***************************************************************************)

\* recordCanonicalTurn. The activeTurn of a transcript is the turn recorded last,
\* unless that is over.
TurnRecorded(record, t, changes, over) ==
  [record EXCEPT !.version[t] = changes,
                 !.ended = IF over THEN @ \cup {t} ELSE @ \ {t},
                 !.active = IF over THEN NoTurn ELSE t]

\* markTurnInterrupted: a turn that nobody runs any more is over.
Interrupted(record) ==
  IF record.active = NoTurn
    THEN record
    ELSE [record EXCEPT !.ended = @ \cup {record.active}, !.active = NoTurn, !.seq = @ + 1]

\* A flush, as long as the server may yet die and read the file.
Save ==
  /\ crashes < MaxCrashes
  /\ file # transcript
  /\ file' = transcript
  /\ UNCHANGED <<turnVars, transcript, sequence, buffer, page, streamVars, getVars, postVars,
                 missed, boundVars>>

Larger(m, n) == IF m > n THEN m ELSE n

\* The number that the session's next event goes on from: the transcript's, until
\* the server has given one.
LastNumber == IF sequence = NoSequence THEN transcript.seq ELSE sequence

\* Mutant: once there are too many, one event is dropped for each emission.
LatestFromFull(events) ==
  IF Len(events) > BufferSize THEN Tail(events) ELSE events

\* The latest BufferSize of some events.
Latest(events) ==
  SubSeq(events, Larger(0, Len(events) - BufferSize) + 1, Len(events))

\* emit, for some events at once: they are numbered from the last number on, kept,
\* and sent to the page if it is connected.
Emits(kinds, t, last) ==
  LET event(i) == [seq |-> last + i, kind |-> kinds[i], turn |-> t,
                   version |-> version'[t], ended |-> t \in ended']
      events == [i \in DOMAIN kinds |-> event(i)]
  IN /\ sequence' = last + Len(kinds)
     /\ buffer' = Latest(buffer \o events)
     /\ pipe' = IF stream = "up" THEN pipe \o events ELSE pipe

\* applyEvent, of an event without a turn.
EventApplied == [transcript EXCEPT !.seq = Larger(@, sequence')]

\* recordCanonicalTurn, and applyEvent.
TurnApplied(t) == TurnRecorded(EventApplied, t, version'[t], t \in ended')

-----------------------------------------------------------------------------
(***************************************************************************)
(* The server: turns.                                                      *)
(***************************************************************************)

\* The key of the initial prompt, sent again while its first turn is active.
SameKey(t) == kind[t] = "prompt" /\ kind[active] = "prompt"

\* startTurn, in a session that is free: the turn is registered, and turn.started
\* emitted.
ServeStart(t) ==
  /\ post[t] = "sent"
  /\ active = NoTurn
  /\ active' = t
  /\ order' = Append(order, t)
  /\ post' = [post EXCEPT ![t] = "answered"]
  /\ UNCHANGED <<version, ended, restored, throttled>>
  /\ Emits(<<"other">>, t, LastNumber)
  /\ transcript' = EventApplied
  /\ UNCHANGED <<file, page, stream, cursor, getVars, kind, dispatch, orphaned, missed, boundVars>>

\* The session has a turn already.
ServeConflict(t) ==
  /\ post[t] = "sent"
  /\ active # NoTurn
  /\ post' = [post EXCEPT ![t] = IF SameKey(t) THEN "answered" ELSE "refused"]
  /\ UNCHANGED <<serverVars, page, streamVars, getVars, kind, dispatch, orphaned, missed, boundVars>>

TurnChanges(t) ==
  /\ active = t
  /\ version[t] < MaxChanges
  /\ version' = [version EXCEPT ![t] = @ + 1]
  /\ UNCHANGED <<ended, active, restored, order>>

\* A semantic change: recorded and told at once.
Progress(t) ==
  /\ TurnChanges(t)
  /\ throttled' = FALSE
  /\ Emits(<<"update">>, t, sequence)
  /\ transcript' = TurnApplied(t)
  /\ UNCHANGED <<file, page, stream, cursor, getVars, postVars, missed, boundVars>>

\* More of a text that streams: told as an increment, the whole turn only later.
Delta(t) ==
  /\ TurnChanges(t)
  /\ throttled' = TRUE
  /\ Emits(<<"other">>, t, sequence)
  /\ transcript' = EventApplied
  /\ UNCHANGED <<file, page, stream, cursor, getVars, postVars, missed, boundVars>>

\* The timer of a throttled update.
UpdateDue(t) ==
  /\ active = t
  /\ throttled
  /\ throttled' = FALSE
  /\ UNCHANGED <<version, ended, active, restored, order>>
  /\ Emits(<<"update">>, t, sequence)
  /\ transcript' = TurnApplied(t)
  /\ UNCHANGED <<file, page, stream, cursor, getVars, postVars, missed, boundVars>>

\* #finish: the turn's last update, and its end.
Ends(t) ==
  /\ active = t
  /\ ended' = ended \cup {t}
  /\ active' = NoTurn
  /\ throttled' = FALSE
  /\ UNCHANGED <<version, restored, order>>
  /\ Emits(<<"update", "other">>, t, sequence)
  /\ transcript' = TurnApplied(t)
  /\ UNCHANGED <<file, page, stream, cursor, getVars, postVars, missed, boundVars>>

-----------------------------------------------------------------------------
(***************************************************************************)
(* The server: a turn that waited for an answer when the server died.      *)
(***************************************************************************)

\* #restorePersistedTurn, once somebody answers the turn or cancels it. It does not
\* hold the session: it is registered under the provider's name, as is its place in
\* the stream of events, to which no page listens.
Restore(t) ==
  /\ transcript.active = t
  /\ t \notin {active, restored}
  /\ restored' = t
  /\ UNCHANGED <<version, ended, active, order, throttled, transcript, file, sequence, buffer,
                 page, streamVars, getVars, postVars, missed, boundVars>>

\* What becomes of it is recorded, and its events are numbered on their own, from
\* the transcript's number at the time when it was restored. (The timer of a text
\* that streams is left out: a snapshot has the turn as it is.)
RestoredRecords(t, over) ==
  /\ restored = t
  /\ t \notin ended
  /\ \E seq \in {transcript.seq, transcript.seq + 1} :
       transcript' = TurnRecorded([transcript EXCEPT !.seq = seq], t, version'[t], over)
  /\ missed' = (missed \/ (page.loaded /\ t = Last))
  /\ UNCHANGED <<active, restored, order, throttled, file, sequence, buffer, page, streamVars,
                 getVars, postVars, boundVars>>

RestoredChanges(t) ==
  /\ version[t] < MaxVersion
  /\ version' = [version EXCEPT ![t] = @ + 1]
  /\ RestoredRecords(t, FALSE)
  /\ UNCHANGED ended

RestoredEnds(t) ==
  /\ ended' = ended \cup {t}
  /\ UNCHANGED version
  /\ RestoredRecords(t, TRUE)

-----------------------------------------------------------------------------
(***************************************************************************)
(* The page: snapshots and events.                                         *)
(***************************************************************************)

\* The page loads a snapshot: at first, and whenever reload() is called.
Load ==
  /\ get = "none"
  /\ page.loaded => loads < MaxLoads
  /\ loads' = loads + (IF page.loaded THEN 1 ELSE 0)
  /\ get' = "asked"
  /\ UNCHANGED <<serverVars, page, streamVars, answer, ahead, postVars, missed, crashes>>

\* getSessionDetails: the transcript, with its active turn as it is by now, if it is
\* one of this process.
Chat ==
  LET t == transcript.active IN
  /\ get = "asked"
  /\ get' = "answered"
  /\ answer' = IF t # NoTurn /\ t \in {active, restored}
                 THEN TurnRecorded(transcript, t, version[t], FALSE)
                 ELSE [transcript EXCEPT !.active = NoTurn]
  /\ ahead' = (transcript.seq > LastNumber)
  /\ UNCHANGED <<serverVars, page, streamVars, postVars, missed, boundVars>>

\* resolveSessionReadiness: whether the turn that is active is over, or if there is
\* none, the last one recorded.
Ready(record) ==
  LET Recorded == {i \in DOMAIN order : \/ record.version[order[i]] > 0
                                        \/ order[i] \in record.ended}
  IN /\ record.active = NoTurn
     /\ \A i \in Recorded : order[i] \in record.ended \/ \E j \in Recorded : j > i

\* A snapshot that is out of date about a restored turn, of which no event tells.
Outdated(record) ==
  /\ restored # NoTurn
  /\ restored = Last
  /\ \/ record.version[restored] # version[restored]
     \/ restored \in ended \ record.ended

\* The snapshot replaces all that the page shows. It says from where to follow
\* the events, which a page that follows them already does not do. A number that
\* the events of a restored turn have reached is ahead of the session's own: what
\* is kept of them is not sent to a page that goes on from there.
SnapshotArrives ==
  /\ get = "answered"
  /\ get' = "none"
  /\ answer' = Empty
  /\ page' = [loaded |-> TRUE, pending |-> FALSE, ready |-> Ready(answer),
              version |-> answer.version, ended |-> answer.ended]
  /\ cursor' = IF stream = "none" THEN answer.seq ELSE cursor
  /\ missed' = \/ stream # "none" /\ answer.seq < cursor
               \/ ahead
               \/ Outdated(answer)
  /\ UNCHANGED <<serverVars, stream, pipe, postVars, ahead, boundVars>>

SnapshotFails ==
  /\ get = "failed"
  /\ get' = "none"
  /\ page' = Blank
  /\ stream' = "none"
  /\ pipe' = <<>>
  /\ missed' = FALSE
  /\ UNCHANGED <<serverVars, cursor, answer, ahead, postVars, boundVars>>

\* Mutant: only what happens from now on is sent.
ConnectWithoutReplay ==
  /\ page.loaded
  /\ stream # "up"
  /\ stream' = "up"
  /\ UNCHANGED <<serverVars, page, cursor, pipe, getVars, postVars, missed, boundVars>>

\* subscribeToSession: what is kept of the events after the cursor is sent, the last
\* ones for they are kept in order, then whatever is emitted, without a look at the
\* cursor.
Connect ==
  /\ page.loaded
  /\ stream # "up"
  /\ stream' = "up"
  /\ \E n \in 0 .. Len(buffer) :
       /\ \A i \in DOMAIN buffer : buffer[i].seq > cursor <=> i > n
       /\ pipe' = SubSeq(buffer, n + 1, Len(buffer))
  /\ UNCHANGED <<serverVars, page, cursor, getVars, postVars, missed, boundVars>>

\* The connection breaks: what was on its way is lost.
Disconnect ==
  /\ stream = "up"
  /\ stream' = "down"
  /\ pipe' = <<>>
  /\ UNCHANGED <<serverVars, page, cursor, getVars, postVars, missed, boundVars>>

\* Mutant: a turn that is over already is not what the page waits for.
DeliverStarted ==
  LET e == Head(pipe) IN
  /\ pipe # <<>>
  /\ pipe' = Tail(pipe)
  /\ cursor' = e.seq
  /\ IF e.kind = "update"
       THEN /\ page' = [page EXCEPT !.version[e.turn] = e.version,
                                    !.ended = IF e.ended THEN @ \cup {e.turn} ELSE @ \ {e.turn},
                                    !.pending = @ /\ e.ended,
                                    !.ready = e.ended]
            /\ missed' = (missed /\ e.turn # Last)
       ELSE UNCHANGED <<page, missed>>
  /\ UNCHANGED <<serverVars, stream, getVars, postVars, boundVars>>

\* applyTurnUpdated: the turn replaces what the page shows of it.
Deliver ==
  LET e == Head(pipe) IN
  /\ pipe # <<>>
  /\ pipe' = Tail(pipe)
  /\ cursor' = e.seq
  /\ IF e.kind = "update"
       THEN /\ page' = [page EXCEPT !.version[e.turn] = e.version,
                                    !.ended = IF e.ended THEN @ \cup {e.turn} ELSE @ \ {e.turn},
                                    !.pending = FALSE,
                                    !.ready = e.ended]
            /\ missed' = (missed /\ e.turn # Last)
       ELSE UNCHANGED <<page, missed>>
  /\ UNCHANGED <<serverVars, stream, getVars, postVars, boundVars>>

-----------------------------------------------------------------------------
(***************************************************************************)
(* The page: requests.                                                     *)
(***************************************************************************)

\* handleSendTurn.
Sends(t, what) ==
  /\ page.loaded /\ page.ready /\ ~page.pending
  /\ \A u \in Turns : post[u] = "none" <=> u >= t
  /\ page' = [page EXCEPT !.pending = TRUE]
  /\ post' = [post EXCEPT ![t] = "sent"]
  /\ kind' = [kind EXCEPT ![t] = what]
  /\ UNCHANGED <<serverVars, streamVars, getVars, orphaned, missed, boundVars>>

\* A message of the user, whom a prompt that is due precedes.
SendTurn(t) ==
  /\ dispatch # "pending"
  /\ Sends(t, "message")
  /\ UNCHANGED dispatch

\* Mutant: the dispatch is marked only when it is over.
DispatchUnmarked(t) ==
  /\ dispatch = "pending"
  /\ Sends(t, "prompt")
  /\ UNCHANGED dispatch

\* checkAndDispatch: the initial prompt is sent once the page is ready.
CheckAndDispatch(t) ==
  /\ dispatch = "pending"
  /\ dispatch' = "in-flight"
  /\ Sends(t, "prompt")

\* The answer to a request. Only a refused one ends the wait for an update.
Answered(t) ==
  /\ post[t] = "answered"
  /\ post' = [post EXCEPT ![t] = "ok"]
  /\ dispatch' = IF kind[t] = "prompt" /\ t \notin orphaned THEN "none" ELSE dispatch
  /\ UNCHANGED <<serverVars, page, streamVars, getVars, kind, orphaned, missed, boundVars>>

Refused(t) ==
  /\ post[t] = "refused"
  /\ post' = [post EXCEPT ![t] = "error"]
  /\ IF t \in orphaned
       THEN UNCHANGED <<page, dispatch>>
       ELSE /\ page' = [page EXCEPT !.pending = FALSE]
            /\ dispatch' = IF kind[t] = "prompt" THEN "failed" ELSE dispatch
  /\ UNCHANGED <<serverVars, streamVars, getVars, kind, orphaned, missed, boundVars>>

\* handleRetryInitial, and handleDismissError.
RetryInitial ==
  /\ dispatch = "failed"
  /\ dispatch' \in {"pending", "none"}
  /\ UNCHANGED <<serverVars, page, streamVars, getVars, post, kind, orphaned, missed, boundVars>>

\* The page is loaded anew; what it awaits is answered to nobody. getPending finds a
\* dispatch in flight in the storage of the browser, and takes it for one to be
\* sent.
PageReload ==
  /\ loads < MaxLoads
  /\ loads' = loads + 1
  /\ page' = Blank
  /\ stream' = "none"
  /\ pipe' = <<>>
  /\ get' = "none"
  /\ answer' = Empty
  /\ orphaned' = orphaned \cup {t \in Turns : post[t] \in {"sent", "answered", "refused"}}
  /\ dispatch' = IF dispatch = "in-flight" THEN "pending" ELSE dispatch
  /\ missed' = FALSE
  /\ UNCHANGED <<serverVars, cursor, ahead, post, kind, crashes>>

-----------------------------------------------------------------------------

\* The server dies and starts again. reconcileOrphanedTurns reads the file and
\* ends the turn it finds active, before any request is served, but for one that
\* waits for an answer that may still be given. Sequence numbers go on from the
\* file; requests under way fail.
Crash ==
  /\ crashes < MaxCrashes
  /\ crashes' = crashes + 1
  /\ transcript' \in {file, Interrupted(file)}
  /\ version' = file.version
  /\ ended' = transcript'.ended
  /\ active' = NoTurn
  /\ restored' = NoTurn
  /\ throttled' = FALSE
  /\ sequence' = NoSequence
  /\ buffer' = <<>>
  /\ stream' = IF stream = "none" THEN "none" ELSE "down"
  /\ pipe' = <<>>
  /\ get' = IF get = "none" THEN "none" ELSE "failed"
  /\ answer' = Empty
  /\ post' = [t \in Turns |-> IF post[t] \in {"sent", "answered"} THEN "refused" ELSE post[t]]
  /\ missed' = page.loaded
  /\ UNCHANGED <<file, order, page, cursor, ahead, kind, dispatch, orphaned, loads>>

-----------------------------------------------------------------------------

Serve(t) == ServeStart(t) \/ ServeConflict(t)
TurnStep(t) == Progress(t) \/ Delta(t) \/ UpdateDue(t) \/ Ends(t)
RestoredStep(t) == Restore(t) \/ RestoredChanges(t) \/ RestoredEnds(t)
Request(t) == SendTurn(t) \/ CheckAndDispatch(t)
Response(t) == Answered(t) \/ Refused(t)

Next ==
  \/ \E t \in Turns :
       Serve(t) \/ TurnStep(t) \/ RestoredStep(t) \/ Request(t) \/ Response(t)
  \/ Save \/ Load \/ Chat \/ SnapshotArrives \/ SnapshotFails
  \/ Connect \/ Disconnect \/ Deliver
  \/ RetryInitial \/ PageReload \/ Crash

Spec == Init /\ [][Next]_vars

-----------------------------------------------------------------------------
(***************************************************************************)
(* Properties.                                                             *)
(***************************************************************************)

TranscriptType == [version : [Turns -> 0..MaxVersion], ended : SUBSET Turns,
                   active : Turns \cup {NoTurn}, seq : Nat]

\* Types of the variables; the events that are kept are numbered without a gap,
\* up to the last number given.
TypeOK ==
  /\ version \in [Turns -> 0..MaxVersion]
  /\ ended \subseteq Turns
  /\ {active, restored} \subseteq Turns \cup {NoTurn}
  /\ order \in Seq(Turns)
  /\ throttled \in BOOLEAN
  /\ {transcript, file, answer} \subseteq TranscriptType
  /\ sequence \in Nat \cup {NoSequence}
  /\ Len(buffer) <= BufferSize
  /\ \A i \in DOMAIN buffer : buffer[i].seq = sequence - Len(buffer) + i
  /\ page \in [loaded : BOOLEAN, pending : BOOLEAN, ready : BOOLEAN,
               version : [Turns -> 0..MaxVersion], ended : SUBSET Turns]
  /\ stream \in {"none", "down", "up"}
  /\ cursor \in Nat
  /\ get \in {"none", "asked", "answered", "failed"}
  /\ post \in [Turns -> {"none", "sent", "answered", "refused", "ok", "error"}]
  /\ kind \in [Turns -> {"none", "prompt", "message"}]
  /\ dispatch \in {"none", "pending", "in-flight", "failed"}
  /\ orphaned \subseteq Turns
  /\ {ahead, missed} \subseteq BOOLEAN

\* A page that has received all that was on its way shows the session's latest
\* turn as it is, however often its connection broke and whatever was dropped from
\* the server's events. It is not told of what the server lost when it died, nor of
\* what a snapshot that was slow to arrive has overwritten, nor, since its snapshot,
\* of a turn that waited for an answer when the server died and goes on after that;
\* and the numbers of such a turn's events may hide those of the next one.
ShownIsCurrent ==
  /\ page.loaded /\ stream = "up" /\ pipe = <<>> /\ get = "none"
  /\ order # <<>> /\ ~throttled /\ ~missed
  => /\ page.version[Last] = version[Last]
     /\ Last \in page.ended <=> Last \in ended

\* The initial prompt starts one turn, unless the answer to the request that
\* started one never came.
PromptRunsOnce ==
  \A t, u \in Turns :
    /\ kind[t] = "prompt" /\ kind[u] = "prompt"
    /\ {t, u} \subseteq {order[i] : i \in DOMAIN order}
    /\ {post[t], post[u]} \subseteq {"answered", "ok"}
    /\ {t, u} \cap orphaned = {}
    => t = u

\* A page waits for a turn to begin only as long as something is still to come:
\* the answer to its request, an update, or the end of the turn that is active.
\* A death of the server is the exception, for the page is not told of it.
WaitsForSomething ==
  /\ page.pending
  /\ active = NoTurn
  /\ stream = "up" /\ pipe = <<>>
  /\ \A t \in Turns : post[t] \notin {"sent", "answered", "refused"}
  => missed
=============================================================================
