----------------------------- MODULE MCFileLock -----------------------------
\* Three calls in two processes (c1 and c2 are siblings), released by pid as
\* the workspace-control lock does, or by owner as the git-finalize lease does.
EXTENDS FileLock, TLC

CONSTANTS c1, c2, c3, p1, p2

MCPidOf == (c1 :> p1) @@ (c2 :> p1) @@ (c3 :> p2)
\* The control lock alone: one call per process.
MCPidOfTwo == (c1 :> p1) @@ (c3 :> p2)
MCKeyOwner == [c \in {c1, c2, c3} |-> c]
=============================================================================
