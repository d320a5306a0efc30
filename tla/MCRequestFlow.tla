--------------------------- MODULE MCRequestFlow ---------------------------
\* Instances of RequestFlow: h1 and h2 submit the same human step, p1 and p2
\* publish the same task, b1 and b2 batch-publish the same change.
EXTENDS RequestFlow, TLC

CONSTANTS h1, h2, p1, p2, b1, b2, step, pub, batch, t1

MCKind == [c \in Call |->
             CASE c \in {h1, h2} -> "human-submit"
               [] c \in {p1, p2} -> "publish"
               [] OTHER -> "batch-publish"]
MCOpOf == [c \in Call |->
             CASE c \in {h1, h2} -> step
               [] c \in {p1, p2} -> pub
               [] OTHER -> batch]
MCTaskOf == [o \in Op |-> t1]

\* The two submissions of the human step differ in nothing.
MCSymmetry == Permutations({h1, h2})

\* State constraint: the agent works while no call is under way.
AgentAlone == agent # "idle" => \A c \in Call : pc[c] \in {"idle", "ended"}
=============================================================================
