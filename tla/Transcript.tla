------------------------------ MODULE Transcript ------------------------------
(***************************************************************************)
(* SessionTranscriptCacheService, for one session: what the server knows of *)
(* its turns, in memory and in a file. A change marks the transcript dirty *)
(* and sets a timer; flushes and the deletion of the file are run one      *)
(* after the other, from a queue; a transcript that is not in memory is    *)
(* read from the file, by several callers at once.                         *)
(*                                                                         *)
(* The changes are numbered, and a transcript is known by the last one     *)
(* that it contains. The server is one JavaScript process: an action is    *)
(* what runs between two awaits. Left out: the health of a transcript,     *)
(* which a failed write changes, and a file that cannot be parsed.         *)
(***************************************************************************)
EXTENDS Naturals, Sequences

CONSTANTS
  NoTranscript,  \* nothing is known, or there is no file
  Reader,        \* those who may await getTranscript at the same time
  MaxChanges,    \* bound: the changes
  MaxCrashes     \* bound: how often the server dies

ASSUME TranscriptAssumption ==
  /\ NoTranscript \notin Nat
  /\ MaxChanges \in Nat \ {0}
  /\ MaxCrashes \in Nat

VARIABLES
  memory,   \* inMemory: the transcript, or NoTranscript
  file,     \* the transcript's file
  dirty,    \* whether the transcript is in #dirty
  timer,    \* whether it has a flush timer
  jobs,     \* #writeQueues: what is to be done to the file; the first is under way
  writing,  \* what a flush under way writes
  reading,  \* what a getTranscript under way has read, or NoTranscript
  recorded, \* the last change
  \* History.
  deleted,   \* "no", "idle" when the session was deleted and not changed since, or "busy"
  clobbered, \* whether what was read has replaced something newer
  failed,    \* whether a write has failed since the last change
  crashes

queueVars == <<jobs, writing>>
historyVars == <<deleted, clobbered, failed, crashes>>
transcriptVars == <<memory, file, dirty, timer, queueVars, reading, recorded, historyVars>>

\* What a reader of no file is given.
Known(transcript) == IF transcript = NoTranscript THEN 0 ELSE transcript

TranscriptInit ==
  /\ memory = NoTranscript
  /\ file = NoTranscript
  /\ dirty = FALSE
  /\ timer = FALSE
  /\ jobs = <<>>
  /\ writing = NoTranscript
  /\ reading = [r \in Reader |-> NoTranscript]
  /\ recorded = 0
  /\ deleted = "no"
  /\ clobbered = FALSE
  /\ failed = FALSE
  /\ crashes = 0

-----------------------------------------------------------------------------
(***************************************************************************)
(* Changes.                                                                *)
(***************************************************************************)

\* recordUserMessage, recordCanonicalTurn and applyEvent change what is in
\* memory, or start anew if nothing is.
Changes ==
  /\ recorded < MaxChanges
  /\ recorded' = recorded + 1
  /\ memory' = recorded + 1
  /\ dirty' = TRUE
  /\ deleted' = IF deleted = "idle" THEN "busy" ELSE deleted
  /\ failed' = FALSE
  /\ UNCHANGED <<file, writing, reading, clobbered, crashes>>

\* A change, and #markDirty.
RecordAndMark ==
  /\ Changes
  /\ timer' = TRUE
  /\ UNCHANGED jobs

\* Mutant: the timer is cleared, and the flush not asked for.
RecordAndClear ==
  /\ Changes
  /\ timer' = FALSE
  /\ UNCHANGED jobs

\* The end of a turn: a change, and a flush at once.
RecordAndFlush ==
  /\ Changes
  /\ timer' = FALSE
  /\ jobs' = Append(jobs, "flush")

-----------------------------------------------------------------------------
(***************************************************************************)
(* Flushes and the deletion.                                               *)
(***************************************************************************)

\* The timer calls flush.
TimerFires ==
  /\ timer
  /\ timer' = FALSE
  /\ jobs' = Append(jobs, "flush")
  /\ UNCHANGED <<memory, file, dirty, writing, reading, recorded, historyVars>>

Under(job) == jobs # <<>> /\ Head(jobs) = job /\ writing = NoTranscript
JobDone == jobs' = Tail(jobs)

\* A flush takes the transcript as it is when its turn has come.
FlushStarts ==
  /\ Under("flush")
  /\ memory # NoTranscript
  /\ dirty' = FALSE
  /\ writing' = memory
  /\ UNCHANGED <<memory, file, timer, jobs, reading, recorded, historyVars>>

FlushOfNothing ==
  /\ Under("flush")
  /\ memory = NoTranscript
  /\ JobDone
  /\ UNCHANGED <<memory, file, dirty, timer, writing, reading, recorded, historyVars>>

\* The temporary file is renamed.
FlushSaves ==
  /\ writing # NoTranscript
  /\ file' = writing
  /\ writing' = NoTranscript
  /\ JobDone
  /\ UNCHANGED <<memory, dirty, timer, reading, recorded, historyVars>>

\* Mutant: a failed write is not remembered.
FlushFailsSilently ==
  /\ writing # NoTranscript
  /\ writing' = NoTranscript
  /\ failed' = TRUE
  /\ JobDone
  /\ UNCHANGED <<memory, file, dirty, timer, reading, recorded, deleted, clobbered, crashes>>

\* The write fails: the transcript is dirty again, and no timer is set.
FlushFails ==
  /\ writing # NoTranscript
  /\ writing' = NoTranscript
  /\ dirty' = TRUE
  /\ failed' = TRUE
  /\ JobDone
  /\ UNCHANGED <<memory, file, timer, reading, recorded, deleted, clobbered, crashes>>

\* Mutant: the file is removed at once, whatever flush is under way.
DeletedAtOnce ==
  /\ deleted = "no"
  /\ deleted' = "idle"
  /\ memory' = NoTranscript
  /\ file' = NoTranscript
  /\ dirty' = FALSE
  /\ timer' = FALSE
  /\ UNCHANGED <<queueVars, reading, recorded, clobbered, failed, crashes>>

\* deleteTranscript: forgotten at once, the file removed once its turn comes.
DeleteCalled ==
  /\ deleted = "no"
  /\ deleted' = "idle"
  /\ memory' = NoTranscript
  /\ dirty' = FALSE
  /\ timer' = FALSE
  /\ jobs' = Append(jobs, "delete")
  /\ UNCHANGED <<file, writing, reading, recorded, clobbered, failed, crashes>>

\* Whatever was recorded meanwhile is forgotten with the file.
DeleteRuns ==
  /\ Under("delete")
  /\ memory' = NoTranscript
  /\ dirty' = FALSE
  /\ file' = NoTranscript
  /\ JobDone
  /\ UNCHANGED <<timer, writing, reading, recorded, historyVars>>

-----------------------------------------------------------------------------
(***************************************************************************)
(* Reads, and restarts.                                                    *)
(***************************************************************************)

\* getTranscript of a transcript that is not in memory.
ReadStarts(r) ==
  /\ memory = NoTranscript
  /\ reading[r] = NoTranscript
  /\ reading' = [reading EXCEPT ![r] = Known(file)]
  /\ UNCHANGED <<memory, file, dirty, timer, queueVars, recorded, historyVars>>

\* What was read is kept, whatever is in memory by now.
ReadEnds(r) ==
  /\ reading[r] # NoTranscript
  /\ reading' = [reading EXCEPT ![r] = NoTranscript]
  /\ memory' = reading[r]
  /\ clobbered' = (clobbered \/ memory \notin {NoTranscript, reading[r]})
  /\ UNCHANGED <<file, dirty, timer, queueVars, recorded, deleted, failed, crashes>>

\* The server dies and starts again. reconcileOrphanedTurns reads what there is
\* on file, and if a turn was active records its end, before any request is
\* served. A deletion that was still to come is forgotten.
Crash(interrupted) ==
  /\ crashes < MaxCrashes
  /\ crashes' = crashes + 1
  /\ interrupted => file # NoTranscript /\ recorded < MaxChanges
  /\ recorded' = IF interrupted THEN recorded + 1 ELSE recorded
  /\ memory' = IF interrupted THEN recorded + 1 ELSE file
  /\ dirty' = interrupted
  /\ timer' = FALSE
  /\ jobs' = IF interrupted THEN <<"flush">> ELSE <<>>
  /\ writing' = NoTranscript
  /\ reading' = [r \in Reader |-> NoTranscript]
  /\ deleted' = IF deleted = "idle" /\ file # NoTranscript THEN "busy" ELSE deleted
  /\ failed' = FALSE
  /\ UNCHANGED <<file, clobbered>>

-----------------------------------------------------------------------------

QueueStep == FlushStarts \/ FlushOfNothing \/ FlushSaves \/ FlushFails \/ DeleteRuns

TranscriptNext ==
  \/ RecordAndMark \/ RecordAndFlush
  \/ TimerFires \/ QueueStep
  \/ DeleteCalled
  \/ \E r \in Reader : ReadStarts(r) \/ ReadEnds(r)
  \/ \E interrupted \in BOOLEAN : Crash(interrupted)

TranscriptSpec == TranscriptInit /\ [][TranscriptNext]_transcriptVars
FairTranscriptSpec == TranscriptSpec /\ WF_transcriptVars(TimerFires) /\ WF_transcriptVars(QueueStep)

-----------------------------------------------------------------------------
(***************************************************************************)
(* Properties.                                                             *)
(***************************************************************************)

\* Types of the variables; a flush that writes is the first of the queue.
TranscriptTypeOK ==
  /\ memory \in 0..MaxChanges \cup {NoTranscript}
  /\ file \in 0..MaxChanges \cup {NoTranscript}
  /\ writing \in 0..MaxChanges \cup {NoTranscript}
  /\ dirty \in BOOLEAN /\ timer \in BOOLEAN /\ clobbered \in BOOLEAN /\ failed \in BOOLEAN
  /\ jobs \in Seq({"flush", "delete"})
  /\ writing # NoTranscript => jobs # <<>> /\ Head(jobs) = "flush"
  /\ reading \in [Reader -> (0..MaxChanges) \cup {NoTranscript}]
  /\ recorded \in 0..MaxChanges
  /\ deleted \in {"no", "idle", "busy"}
  /\ crashes \in 0..MaxCrashes

\* What is in memory is in the file, is being written, or is known to be dirty,
\* as long as no late read has put an older transcript in its place.
NothingForgotten ==
  ~clobbered /\ deleted = "no" /\ memory \notin {NoTranscript, Known(file), writing} => dirty

\* The file of a session that was deleted, and not used since, does not come back.
DeletedIsGone ==
  deleted = "idle" /\ jobs = <<>> => file = NoTranscript /\ ~dirty /\ ~timer

\* Every change reaches the file. It does not when its write fails, for nobody
\* tries again before the next change; when the server dies before the flush, or
\* the session is deleted; and when a late read has overwritten it.
ChangeIsSaved ==
  \A n \in 1..MaxChanges :
    memory = n ~> \/ Known(file) >= n
                  \/ Known(memory) < n
                  \/ failed \/ deleted # "no"
                  \/ clobbered
=============================================================================
