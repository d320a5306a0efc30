------------------------------ MODULE FileLock ------------------------------
(***************************************************************************)
(* The cross-process lock file that guards every read-decide-mutate        *)
(* section of the workflow engine, one file-system call at a time.         *)
(*                                                                         *)
(* Two files follow this protocol: workspace-control.lock                  *)
(* (withWorkspaceControlLock in workspace-writer.mjs) and                  *)
(* git-finalize.lock (acquireGitFinalizeLease in git-finalize-lock.mjs).   *)
(* They differ in what a release compares, which is the constant Key: the  *)
(* control lock compares the pid in the file with its own, the lease the   *)
(* ownerId drawn for this acquisition.                                     *)
(*                                                                         *)
(* A context is one call of the locking function. The contexts of one      *)
(* process share its pid and its thread: a run of synchronous calls        *)
(* (create and write; read and unlink) is not interrupted by another       *)
(* context of that process, but may be by any other process.               *)
(***************************************************************************)
EXTENDS FiniteSets

CONSTANTS
  Context,   \* the calls that contend for the file
  Pid,       \* operating-system processes
  PidOf,     \* the process a context runs in
  Key,       \* what the release of a context compares with the file
  NoFile     \* the path does not exist

ASSUME ContextAssumption ==
  /\ PidOf \in [Context -> Pid]
  /\ DOMAIN Key = Context
  /\ NoFile \notin Context

VARIABLES
  lockFile,     \* the context whose create made the file now at the path
  written,      \* written[c]: the content of the file created by c is complete
  lockPc,       \* where a context is
  alive,        \* the processes that are running
  misreclaimed  \* history: a reclaim removed the file of a running process

lockVars == <<lockFile, written, lockPc, alive, misreclaimed>>

LockPC == {"idle",      \* outside the function
           "try",       \* at the exclusive create, first time or after a sleep
           "retry",     \* at the exclusive create, straight after a reclaim
           "created",   \* the create succeeded, the content is not written yet
           "read",      \* EEXIST: about to read the file
           "reclaim",   \* the file was judged stale: about to unlink the path
           "sleep",     \* a running holder: waiting for the retry interval
           "held",      \* the lock is acquired, fn is running
           "checked",   \* finally: the file carries this context's key
           "dead"}

(***************************************************************************)
(* A context may move when its process runs and no sibling is in the       *)
(* middle of a synchronous run.                                            *)
(***************************************************************************)
InSyncRun(c) == lockPc[c] \in {"retry", "created", "read", "reclaim", "checked"}

MayRun(c) ==
  /\ PidOf[c] \in alive
  /\ \A d \in Context \ {c} : PidOf[d] = PidOf[c] => ~InSyncRun(d)

LockGoto(c, from, to) ==
  /\ MayRun(c)
  /\ lockPc[c] = from
  /\ lockPc' = [lockPc EXCEPT ![c] = to]

Readable == lockFile # NoFile /\ written[lockFile]

HolderAlive == PidOf[lockFile] \in alive

-----------------------------------------------------------------------------

LockInit ==
  /\ lockFile = NoFile
  /\ written = [c \in Context |-> FALSE]
  /\ lockPc = [c \in Context |-> "idle"]
  /\ alive = Pid
  /\ misreclaimed = FALSE

Start(c) ==
  /\ LockGoto(c, "idle", "try")
  /\ UNCHANGED <<lockFile, written, alive, misreclaimed>>

\* Mutant: the create is not exclusive ('w' instead of 'wx').
CreateAnyway(c) ==
  /\ \E from \in {"try", "retry"} : LockGoto(c, from, "created")
  /\ lockFile' = c
  /\ written' = [written EXCEPT ![c] = FALSE]
  /\ UNCHANGED <<alive, misreclaimed>>

\* open(O_CREAT | O_EXCL) succeeds: the file exists, still empty.
Create(c) ==
  /\ \E from \in {"try", "retry"} : LockGoto(c, from, "created")
  /\ lockFile = NoFile
  /\ lockFile' = c
  /\ written' = [written EXCEPT ![c] = FALSE]
  /\ UNCHANGED <<alive, misreclaimed>>

CreateExists(c) ==
  /\ \E from \in {"try", "retry"} : LockGoto(c, from, "read")
  /\ lockFile # NoFile
  /\ UNCHANGED <<lockFile, written, alive, misreclaimed>>

\* The write goes to the file that was created, linked or not.
WriteContent(c) ==
  /\ LockGoto(c, "created", "held")
  /\ written' = [written EXCEPT ![c] = TRUE]
  /\ UNCHANGED <<lockFile, alive, misreclaimed>>

\* Mutant: only a readable file can be stale.
JudgeStaleReadable(c) ==
  /\ LockGoto(c, "read", "reclaim")
  /\ Readable /\ ~HolderAlive
  /\ UNCHANGED <<lockFile, written, alive, misreclaimed>>

\* An unreadable file (missing, empty) and one of a dead pid are both stale.
JudgeStale(c) ==
  /\ LockGoto(c, "read", "reclaim")
  /\ Readable => ~HolderAlive
  /\ UNCHANGED <<lockFile, written, alive, misreclaimed>>

JudgeLive(c) ==
  /\ LockGoto(c, "read", "sleep")
  /\ Readable /\ HolderAlive
  /\ UNCHANGED <<lockFile, written, alive, misreclaimed>>

\* unlink of the path: of whatever file is there by now.
Reclaim(c) ==
  /\ LockGoto(c, "reclaim", "retry")
  /\ lockFile' = NoFile
  /\ misreclaimed' = (misreclaimed \/ (lockFile # NoFile /\ HolderAlive))
  /\ UNCHANGED <<written, alive>>

Wake(c) ==
  /\ LockGoto(c, "sleep", "try")
  /\ UNCHANGED <<lockFile, written, alive, misreclaimed>>

\* The loop condition fails: WORKSPACE_CONTROL_LOCK_TIMEOUT is thrown.
Timeout(c) ==
  /\ \E from \in {"sleep", "retry"} : LockGoto(c, from, "idle")
  /\ UNCHANGED <<lockFile, written, alive, misreclaimed>>

OwnKeyInFile(c) == Readable /\ Key[lockFile] = Key[c]

FinallyOwned(c) ==
  /\ LockGoto(c, "held", "checked")
  /\ OwnKeyInFile(c)
  /\ UNCHANGED <<lockFile, written, alive, misreclaimed>>

FinallyNotOwned(c) ==
  /\ LockGoto(c, "held", "idle")
  /\ ~OwnKeyInFile(c)
  /\ UNCHANGED <<lockFile, written, alive, misreclaimed>>

ReleaseUnlink(c) ==
  /\ LockGoto(c, "checked", "idle")
  /\ lockFile' = NoFile
  /\ UNCHANGED <<written, alive, misreclaimed>>

\* A process dies between any two calls and leaves the file as it is.
Crash(p) ==
  /\ p \in alive
  /\ alive' = alive \ {p}
  /\ lockPc' = [c \in Context |-> IF PidOf[c] = p THEN "dead" ELSE lockPc[c]]
  /\ UNCHANGED <<lockFile, written, misreclaimed>>

Step(c) ==
  \/ Create(c)
  \/ CreateExists(c)
  \/ WriteContent(c)
  \/ JudgeStale(c)
  \/ JudgeLive(c)
  \/ Reclaim(c)
  \/ Wake(c)
  \/ Timeout(c)
  \/ FinallyOwned(c)
  \/ FinallyNotOwned(c)
  \/ ReleaseUnlink(c)

LockNext ==
  \/ \E c \in Context : Start(c) \/ Step(c)
  \/ \E p \in Pid : Crash(p)

(***************************************************************************)
(* The event loop of a running process goes on, and the sections run under *)
(* the lock are short; nobody has to call, and nobody has to crash.        *)
(***************************************************************************)
LockFairness == \A c \in Context : WF_lockVars(Step(c))

LockSpec == LockInit /\ [][LockNext]_lockVars /\ LockFairness

-----------------------------------------------------------------------------

LockTypeOK ==
  /\ lockFile \in Context \cup {NoFile}
  /\ written \in [Context -> BOOLEAN]
  /\ lockPc \in [Context -> LockPC]
  /\ alive \subseteq Pid
  /\ misreclaimed \in BOOLEAN

Holding(c) == lockPc[c] \in {"held", "checked"}

\* At most one context is between the acquisition and the release.
Exclusion ==
  \A c, d \in Context : Holding(c) /\ Holding(d) => c = d

\* The only way to two holders is a reclaim that unlinks the file of a running
\* process: neither a crash at any point, nor the reclaim of a dead file, nor
\* the release by key of a sibling context breaks exclusion by itself.
ExclusionUnlessMisreclaimed == ~misreclaimed => Exclusion

\* Wherever its process died (before the content was written, inside fn, or
\* between the check and the unlink of the release), a dead holder's file is
\* removed once a running caller gets to the exclusive create.
StaleFileCleared ==
  \A c, d \in Context :
    (lockFile = c /\ lockPc[c] = "dead" /\ lockPc[d] = "try")
      ~> (lockFile # c \/ lockPc[d] = "dead")

=============================================================================
