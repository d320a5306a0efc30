------------------------------ MODULE Sessions ------------------------------
(***************************************************************************)
(* The agent sessions of the dashboard and the files that hold them:       *)
(*   - ai/sessions/binding-service.mjs: one JSON document per specification *)
(*     with the sessions and the rows that bind a session to its tasks,    *)
(*     changed under a lock file by two kinds of process, the dashboard    *)
(*     (its asynchronous methods) and the workflow commands the agents run *)
(*     (the Sync twins);                                                   *)
(*   - ai/sessions/service.mjs: what a request does with them, among which *)
(*     startTurn, a chain of look-ups, changes and an admission.           *)
(* A request is a list of items; an item that changes a document is one    *)
(* pass through #mutateSpec: lock, load, save, unlock.  A change of the    *)
(* mode or the model of a session without a specification loads every      *)
(* document, one after the other and without their locks, and saves all of *)
(* it in General's: copies of other documents' sessions, as they were when *)
(* they were read, stay there and are found by look-ups.  Requests of one  *)
(* process interleave between any two of these steps, and a process may    *)
(* die at any of them.  Abstracted: the texts of a session (purpose, role, *)
(* title), its times, its mode and its model (one value each that a        *)
(* request may set), and what a turn does once it is admitted (Turns).     *)
(***************************************************************************)
EXTENDS Naturals, Sequences, SequencesExt, FiniteSets

CONSTANTS
  Caller,        \* requests to the dashboard's HTTP server
  Turn,          \* the running turns: turnOf[c] is the one c may start
  Command,       \* workflow commands, each a process of its own
  turnOf,        \* [Caller -> Turn]
  Request,       \* Request[p]: what p may ask for
  Document,      \* one per specification, and General
  General,       \* that of the sessions without a specification
  Task,
  NoTask,
  newId,         \* newId[p]: the session id p would allocate
  newProv,       \* newProv[t]: the id the provider would allocate for turn t
  NoId,
  Existing,      \* the documents the program may start from
  MaxSlow,       \* how often a running holder outlives its lock file
  MaxCrash

Proc == Caller \union Turn \union Command
None == "none"

\* A document is a list of sessions and its rows.  Its own sessions, those whose
\* specification it is of, have an id each; only General has others, copies.
Fields(s) == [id |-> s.id, spec |-> s.spec, prov |-> s.prov, active |-> s.active,
              scope |-> s.scope, tasks |-> s.tasks, mode |-> s.mode, model |-> s.model,
              boot |-> s.boot]
OwnAt(v, d) == {i \in DOMAIN v.sessions : v.sessions[i].spec = d}
Own(v, d) == {v.sessions[i] : i \in OwnAt(v, d)}
Ids(v) == {v.sessions[i].id : i \in DOMAIN v.sessions}
OwnIds(v, d) == {v.sessions[i].id : i \in OwnAt(v, d)}
WellFormed(v, d) ==
  /\ v = [sessions |-> v.sessions, rows |-> v.rows]
  /\ v.sessions \in Seq({Fields(v.sessions[i]) : i \in DOMAIN v.sessions})
  /\ \A i, j \in OwnAt(v, d) : v.sessions[i].id = v.sessions[j].id => i = j
  /\ d # General => OwnAt(v, d) = DOMAIN v.sessions

ASSUME SessionsAssumption ==
  /\ General \in Document /\ IsFiniteSet(Document)
  /\ Caller \intersect Turn = {}
  /\ turnOf \in [Caller -> Turn]
  /\ None \notin Proc
  /\ \A c \in Caller : \A r \in Request[c] : IsFiniteSet(r.tasks)
  /\ \A documents \in Existing :
       DOMAIN documents = Document /\ \A d \in Document : WellFormed(documents[d], d)
  /\ MaxSlow \in Nat /\ MaxCrash \in Nat

VARIABLES
  doc,       \* doc[d]: the document on disk, its sessions and its rows
  lock,      \* lock[d]: who created the lock file that is there, or None
  old,       \* old[d]: that file is older than LOCK_STALE_MS
  pc, todo,  \* where a process is, and the items it has left
  at, view,  \* the document it works on, and what it has read
  unread,    \* the documents it has still to read
  sid,       \* the canonical session id it works for
  admitted,  \* admitted[t]: turn t holds its session in the turn runtime
  slow, crashes,
  \* History: ids acknowledged to a caller, ids deleted, ids whose creation
  \* was folded into another session, a lock taken from a running holder.
  acked, removed, folded, stolen

vars == <<doc, lock, old, pc, todo, at, view, unread, sid, admitted, slow, crashes,
          acked, removed, folded, stolen>>
files == <<doc, lock, old>>
history == <<acked, removed, folded, stolen>>

Empty == [sessions |-> << >>, rows |-> {}]

(***************************************************************************)
(* Documents.  A session's scope is the set of its tasks: none, one, or a  *)
(* batch of at least two.                                                  *)
(***************************************************************************)
Recorded == UNION {OwnIds(doc[d], d) : d \in Document}
IsBatch(scope) == Cardinality(scope) > 1

\* A loaded session without a scope is given the one of its active task; a
\* batch has no active task, and a task scope without one gets it.
Normalized(s) ==
  IF IsBatch(s.scope) THEN [s EXCEPT !.active = NoTask]
  ELSE IF s.scope = {} /\ s.active # NoTask THEN [s EXCEPT !.scope = {s.active}]
  ELSE IF s.scope # {} /\ s.active = NoTask
         THEN [s EXCEPT !.active = CHOOSE t \in s.scope : TRUE]
  ELSE s
Loaded(d) == [d EXCEPT !.sessions = [i \in DOMAIN d.sessions |-> Normalized(d.sessions[i])]]
Joined(v, w) == [sessions |-> v.sessions \o w.sessions, rows |-> v.rows \union w.rows]

\* Mutant: two sessions without a provider id have the same one.
NamesNull(s, id, prov) == s.id = id \/ s.prov = prov

\* The session of an id, or of a provider's id.
Names(s, id, prov) == s.id = id \/ (prov # NoId /\ s.prov = prov)
Matches(d, id, prov) == {i \in DOMAIN d.sessions : Names(d.sessions[i], id, prov)}
First(d, id, prov) == CHOOSE i \in Matches(d, id, prov) :
                        \A j \in Matches(d, id, prov) : i <= j

\* The scope a bind establishes: an explicit one, the active task's, none when
\* the caller asks for none ("clear"), else the bound task's.
BindScope(x) ==
  IF x.scope # {} THEN x.scope
  ELSE IF x.active = "clear" THEN {}
  ELSE IF x.active # NoTask THEN {x.active}
  ELSE IF x.task # NoTask THEN {x.task}
  ELSE IF IsBatch(x.tasks) THEN x.tasks ELSE {}
BindTasks(x) ==
  LET scope == BindScope(x) IN
  IF IsBatch(scope) THEN scope
  ELSE IF x.tasks # {} THEN scope \union x.tasks
  ELSE IF scope # {} THEN scope ELSE {x.task} \ {NoTask}
Bound(s, x) ==
  LET scope == BindScope(x)
      found == [s EXCEPT !.prov  = IF @ = NoId THEN x.prov ELSE @,
                         !.tasks = @ \union BindTasks(x)]
  IN  IF scope # {}
        THEN [found EXCEPT !.scope = scope,
                           !.active = IF IsBatch(scope) THEN NoTask
                                      ELSE CHOOSE t \in scope : TRUE]
      ELSE IF x.active = "clear"
        THEN [found EXCEPT !.active = NoTask, !.scope = IF IsBatch(@) THEN @ ELSE {}]
      ELSE found

Fresh(x) == [id |-> x.id, spec |-> x.spec, prov |-> NoId, active |-> NoTask, scope |-> {},
             tasks |-> {}, mode |-> FALSE, model |-> FALSE, boot |-> NoTask]

BoundRows(id, x) ==
  LET scope == BindScope(x) IN
  {<<id, t>> : t \in IF IsBatch(scope) THEN scope
                     ELSE IF x.task # NoTask THEN {x.task} ELSE scope}
Bind(d, x) ==
  LET i == IF Matches(d, x.id, x.prov) = {} THEN Len(d.sessions) + 1
           ELSE First(d, x.id, x.prov)
      s == IF i > Len(d.sessions) THEN Fresh(x) ELSE d.sessions[i]
  IN  [sessions |-> IF i > Len(d.sessions) THEN Append(d.sessions, Bound(s, x))
                    ELSE [d.sessions EXCEPT ![i] = Bound(s, x)],
       rows |-> d.rows \union BoundRows(s.id, x)]

\* Mutant: the provider's latest id wins.
ProvRefusedNever(d, x) == Matches(d, x.id, NoId) = {}

\* The provider's id is set once: the same one again is accepted, another one
\* is refused, and so is a session that is not there.
ProvRefused(d, x) ==
  Matches(d, x.id, NoId) # {} => d.sessions[First(d, x.id, NoId)].prov \notin {NoId, x.prov}
SetProv(d, x) == [d EXCEPT !.sessions[First(d, x.id, NoId)].prov = x.prov]

\* An update of a session that is gone by then changes nothing.
Change(d, x, s) == IF Matches(d, x.id, NoId) = {} THEN d
                   ELSE [d EXCEPT !.sessions[First(d, x.id, NoId)] = s]
SetMode(d, x) == Change(d, x, [d.sessions[First(d, x.id, NoId)] EXCEPT !.mode = TRUE])
SetModel(d, x) == Change(d, x, [d.sessions[First(d, x.id, NoId)] EXCEPT !.model = TRUE])
\* The active task moves; the scope stays what it was.
SetActive(d, x) ==
  LET i == First(d, x.id, NoId) IN
  [sessions |-> [d.sessions EXCEPT ![i].active = x.task, ![i].tasks = @ \union {x.task}],
   rows |-> d.rows \union {<<x.id, x.task>>}]
RecordBoot(d, x) ==
  [d EXCEPT !.sessions = [i \in DOMAIN @ |-> IF @[i].id = x.id THEN [@[i] EXCEPT !.boot = x.task]
                                             ELSE @[i]]]
\* A specification's document names a session once: the filter takes one out.
Gone(d, x) == {d.sessions[i].id : i \in Matches(d, x.id, NoId)}
Unbind(d, x) ==
  IF Gone(d, x) = {} THEN d
  ELSE [sessions |-> RemoveAt(d.sessions, First(d, x.id, NoId)),
        rows |-> {r \in d.rows : r[1] \notin Gone(d, x)}]

Refused(d, x) == \/ x.fn = "prov" /\ ProvRefused(d, x)
                 \/ x.fn = "active" /\ Matches(d, x.id, NoId) = {}
Applied(d, x) ==
  CASE x.fn = "bind"   -> Bind(d, x)
    [] x.fn = "prov"   -> SetProv(d, x)
    [] x.fn = "mode"   -> SetMode(d, x)
    [] x.fn = "model"  -> SetModel(d, x)
    [] x.fn = "active" -> SetActive(d, x)
    [] x.fn = "boot"   -> RecordBoot(d, x)
    [] x.fn = "unbind" -> Unbind(d, x)

(***************************************************************************)
(* Items: the changes a request asks for, and the two steps of startTurn   *)
(* that are no change of a document.                                       *)
(***************************************************************************)
Anywhere == "anywhere"
Item(fn, id) == [fn |-> fn, id |-> id, prov |-> NoId, spec |-> Anywhere, task |-> NoTask,
                 active |-> NoTask, scope |-> {}, tasks |-> {}]
BindItem(id, r, task, active) ==
  [Item("bind", id) EXCEPT !.prov = r.prov, !.spec = r.spec, !.task = task,
                           !.active = active, !.tasks = r.tasks]
\* createSession and attachSession: one bind of a batch, one bind per task with
\* the active task said explicitly, or one bind without a task.
BindItems(id, r) ==
  IF IsBatch(r.scope)
    THEN <<[BindItem(id, r, NoTask, "clear") EXCEPT !.scope = r.scope]>>
  ELSE IF r.tasks = {} THEN <<BindItem(id, r, NoTask, IF r.op = "attach" THEN "clear" ELSE NoTask)>>
  ELSE LET order == SetToSeq(r.tasks) IN
       [i \in 1..Len(order) |->
          BindItem(id, r, order[i], IF r.task = NoTask THEN "clear" ELSE r.task)]
ItemIf(cond, item) == IF cond THEN <<item>> ELSE << >>

Goto(p, l) == pc' = [pc EXCEPT ![p] = l]
Fails(p) == Goto(p, "failed") /\ todo' = [todo EXCEPT ![p] = << >>]
Begin(p, id, items) ==
  /\ pc[p] = "start"
  /\ sid' = [sid EXCEPT ![p] = id]
  /\ todo' = [todo EXCEPT ![p] = items]
  /\ Goto(p, "next")
  /\ UNCHANGED <<files, at, view, unread, admitted, slow, crashes, history>>
\* What a look-up may find: all documents are read, without their locks, and
\* which of several sessions it takes hangs on the order of the files and on
\* the times in them.  A copy names the specification it was made of.
Found(id, prov) ==
  UNION {{Normalized(doc[d].sessions[i]) : i \in Matches(doc[d], id, prov)} : d \in Document}

Init ==
  /\ doc \in Existing
  /\ lock = [d \in Document |-> None]
  /\ old = [d \in Document |-> FALSE]
  /\ pc = [p \in Proc |-> IF p \in Turn THEN "off" ELSE "start"]
  /\ todo = [p \in Proc |-> << >>]
  /\ at = [p \in Proc |-> General]
  /\ view = [p \in Proc |-> Empty]
  /\ unread = [p \in Proc |-> {}]
  /\ sid = [p \in Proc |-> NoId]
  /\ admitted = [t \in Turn |-> FALSE]
  /\ slow = 0 /\ crashes = 0
  /\ acked = {} /\ folded = {}
  /\ removed = (UNION {Ids(doc[d]) : d \in Document}) \ Recorded
  /\ stolen = FALSE

(***************************************************************************)
(* The requests.  Each begins with a look-up and becomes a list of items.  *)
(***************************************************************************)
CreateSession(c) ==
  \E r \in Request[c] :
    /\ r.op = "create"
    /\ Begin(c, newId[c],
             BindItems(newId[c], r) \o ItemIf(r.prov = NoId, Item("native", newId[c]))
             \o <<Item("answer", newId[c])>>)

\* attachSession gives no id: an existing session of the provider's id is taken.
AttachSession(c) ==
  \E r \in Request[c] :
    /\ r.op = "attach"
    /\ Begin(c, newId[c], BindItems(newId[c], r))

\* The active task has left the step the session knows: the session is healed.
Heals(s) ==
  ItemIf(s.active # NoTask /\ s.spec # General,
         [Item("bind", s.id) EXCEPT !.spec = s.spec, !.active = "clear"])
\* The workflow header of an explicit task goes out once per step of the task.
Boots(s, task, moved) ==
  ItemIf(task # NoTask /\ s.spec # General /\ (moved \/ s.boot # task),
         [Item("boot", s.id) EXCEPT !.task = task])

\* startTurn finds its session by id or by the provider's id, and creates one
\* when there is none.
StartTurnFinds(c) ==
  \E r \in Request[c] : \E s \in Found(r.id, r.prov), moved \in BOOLEAN :
    /\ r.op = "start"
    /\ Begin(c, s.id,
         ItemIf(r.mode, Item("mode", s.id))
         \o (IF moved THEN Heals(s) ELSE << >>)
         \o <<[Item("admit", s.id) EXCEPT !.prov = s.prov]>>
         \o Boots(s, r.task, moved)
         \o ItemIf(r.model, Item("model", s.id))
         \o <<Item("answer", s.id)>>)
StartTurnCreates(c) ==
  \E r \in Request[c] :
    LET id == IF r.id = NoId THEN newId[c] ELSE r.id IN
    /\ r.op = "start" /\ Found(r.id, r.prov) = {}
    /\ Begin(c, id,
         BindItems(id, r)
         \o ItemIf(r.prov = NoId, Item("native", id))
         \o ItemIf(r.mode, Item("mode", id))
         \o <<[Item("admit", id) EXCEPT !.prov = r.prov]>>
         \o ItemIf(r.task # NoTask /\ r.spec # General, [Item("boot", id) EXCEPT !.task = r.task])
         \o ItemIf(r.model, Item("model", id))
         \o <<Item("answer", id)>>)

UpdateSession(c) ==
  \E r \in Request[c] :
    /\ r.op \in {"mode", "model"}
    /\ Begin(c, r.id, <<Item(r.op, r.id)>>)

\* A switch between tasks the session already has, in a specification.
SetActiveTaskId(c) ==
  \E r \in Request[c] : \E s \in Found(r.id, NoId) :
    /\ r.op = "active" /\ s.spec # General
    /\ r.task \in s.tasks \union {s.active}
    /\ Begin(c, r.id, <<[Item("active", r.id) EXCEPT !.spec = s.spec, !.task = r.task]>>)

DeleteSession(c) ==
  \E r \in Request[c] :
    /\ r.op = "delete"
    /\ Begin(c, r.id, <<Item("unbind", r.id)>>)

\* A workflow command binds the session of its agent to the task it works on:
\* a session without an active task stays without, the end of a step clears it.
CommandBinds(k) ==
  \E r \in Request[k] :
    LET known == Found(r.id, NoId)
        id == IF r.id = NoId THEN newId[k] ELSE r.id
        clears == IF r.op = "finish" THEN {TRUE}
                  ELSE IF known = {} THEN {FALSE} ELSE {s.active = NoTask : s \in known}
    IN  \E clear \in clears :
        /\ r.op \in {"step", "finish"}
        /\ Begin(k, id, <<[BindItem(id, r, r.task, IF clear THEN "clear" ELSE r.task)
                             EXCEPT !.tasks = {}]>>)

(***************************************************************************)
(* One item: #mutateSpec.                                                  *)
(***************************************************************************)
Head1(p) == Head(todo[p])
Changes == {"bind", "prov", "mode", "model", "active", "boot", "unbind"}
\* The specification of the session, or of a copy of it, looked up before the
\* lock is taken; a session without one is neither bootstrapped nor unbound.
Locate(p) ==
  /\ pc[p] = "next" /\ todo[p] # << >>
  /\ LET x == Head1(p)
         D == {s.spec : s \in Found(x.id, NoId)}
         In(targets) == LET order == SetToSeq(targets) IN
                        [i \in 1..Len(order) |-> [x EXCEPT !.spec = order[i]]]
     IN  /\ x.spec = Anywhere /\ x.fn \in Changes
         /\ \/ /\ x.fn = "prov" /\ D = {}
               /\ todo' = [todo EXCEPT ![p] = In({General}) \o Tail(@)]
            \/ /\ x.fn \in {"mode", "model"} /\ D = {}
               /\ todo' = [todo EXCEPT ![p] = Tail(@)]
            \/ /\ x.fn \in {"prov", "mode", "model"}
               /\ \E d \in D : todo' = [todo EXCEPT ![p] = In({d}) \o Tail(@)]
            \/ /\ x.fn \in {"boot", "unbind"}
               /\ todo' = [todo EXCEPT ![p] = In(D \ {General}) \o Tail(@)]
  /\ UNCHANGED <<files, pc, at, view, unread, sid, admitted, slow, crashes, history>>

Wants(p, d) == /\ pc[p] = "next" /\ todo[p] # << >>
               /\ Head1(p).fn \in Changes /\ Head1(p).spec = d
Holds(p, d) == pc[p] \in {"load", "save", "unlock", "abort"} /\ at[p] = d

\* What is loaded under the lock: the document, or all of them for the mode or
\* the model of a session whose specification is undefined (that of one whose
\* specification is null is kept in the same document, and loaded alone).
Reads(x) == IF x.fn \in {"mode", "model"} /\ x.spec = General THEN {{General}, Document}
            ELSE {{x.spec}}

\* Mutant: a holder of the same process is let in.
TakeLockOfProcess(p) ==
  \E d \in Document :
    /\ Wants(p, d) /\ lock[d] \in {None} \union (IF p \in Command THEN {} ELSE Caller \union Turn)
    /\ lock' = [lock EXCEPT ![d] = p]
    /\ old' = [old EXCEPT ![d] = FALSE]
    /\ at' = [at EXCEPT ![p] = d]
    /\ \E D \in Reads(Head1(p)) : unread' = [unread EXCEPT ![p] = D]
    /\ view' = [view EXCEPT ![p] = Empty]
    /\ Goto(p, "load")
    /\ UNCHANGED <<doc, todo, sid, admitted, slow, crashes, history>>

\* open(lockPath, 'wx')
TakeLock(p) ==
  \E d \in Document :
    /\ Wants(p, d) /\ lock[d] = None
    /\ lock' = [lock EXCEPT ![d] = p]
    /\ old' = [old EXCEPT ![d] = FALSE]
    /\ at' = [at EXCEPT ![p] = d]
    /\ \E D \in Reads(Head1(p)) : unread' = [unread EXCEPT ![p] = D]
    /\ view' = [view EXCEPT ![p] = Empty]
    /\ Goto(p, "load")
    /\ UNCHANGED <<doc, todo, sid, admitted, slow, crashes, history>>

\* The file is older than LOCK_STALE_MS: it is unlinked, in a step of its own,
\* whoever's it is by then.
FindStale(p) ==
  \E d \in Document :
    /\ Wants(p, d) /\ lock[d] # None /\ old[d]
    /\ at' = [at EXCEPT ![p] = d]
    /\ Goto(p, "reclaim")
    /\ UNCHANGED <<files, todo, view, unread, sid, admitted, slow, crashes, history>>
Reclaim(p) ==
  LET d == at[p] IN
  /\ pc[p] = "reclaim"
  /\ lock' = [lock EXCEPT ![d] = None]
  /\ stolen' = (stolen \/ (lock[d] # None /\ Holds(lock[d], d)))
  /\ Goto(p, "next")
  /\ UNCHANGED <<doc, old, todo, at, view, unread, sid, admitted, slow, crashes,
                 acked, removed, folded>>

\* LOCK_TIMEOUT_MS: the request fails, and with it a turn whose id it is.
LockTimesOut(p) ==
  /\ \E d \in Document : Wants(p, d) /\ lock[d] # None
  /\ Fails(p)
  /\ admitted' = [t \in Turn |-> admitted[t] /\ t # p]
  /\ UNCHANGED <<files, at, view, unread, sid, slow, crashes, history>>

\* One document is read and joined to those read before.
Load(p) ==
  /\ pc[p] = "load"
  /\ \E d \in unread[p] :
       /\ unread' = [unread EXCEPT ![p] = @ \ {d}]
       /\ view' = [view EXCEPT ![p] = Joined(@, Loaded(doc[d]))]
       /\ IF unread[p] = {d} THEN Goto(p, "save") ELSE UNCHANGED pc
  /\ UNCHANGED <<files, todo, at, sid, admitted, slow, crashes, history>>

Save(p) ==
  LET x == Head1(p)
      d == view[p]
  IN
  /\ pc[p] = "save" /\ ~Refused(d, x)
  /\ doc' = [doc EXCEPT ![at[p]] = Applied(d, x)]
  /\ todo' = [todo EXCEPT ![p] = Tail(@)]
  /\ Goto(p, "unlock")
  /\ removed' = IF x.fn = "unbind" THEN removed \union Gone(d, x) ELSE removed
  /\ folded' = IF x.fn = "bind" /\ x.prov # NoId /\ x.id \notin Ids(Applied(d, x))
                THEN folded \union {x.id}
              ELSE folded
  /\ UNCHANGED <<lock, old, at, view, unread, sid, admitted, slow, crashes, acked, stolen>>
SaveRefused(p) ==
  /\ pc[p] = "save" /\ Refused(view[p], Head1(p))
  /\ Goto(p, "abort")
  /\ UNCHANGED <<files, todo, at, view, unread, sid, admitted, slow, crashes, history>>

\* The lock file that is there is unlinked, whoever made it.
Unlock(p) ==
  /\ pc[p] \in {"unlock", "abort"}
  /\ lock' = [lock EXCEPT ![at[p]] = None]
  /\ view' = [view EXCEPT ![p] = Empty]
  /\ UNCHANGED unread
  /\ IF pc[p] = "unlock" THEN Goto(p, "next") /\ UNCHANGED todo ELSE Fails(p)
  /\ at' = [at EXCEPT ![p] = General]
  /\ admitted' = [t \in Turn |-> admitted[t] /\ ~(t = p /\ pc[p] = "abort")]
  /\ UNCHANGED <<doc, old, sid, slow, crashes, history>>

(***************************************************************************)
(* The steps that change no document.                                      *)
(***************************************************************************)
\* provider.createSession: an id of the provider's, none, or an error.
NativeSession(p) ==
  /\ pc[p] = "next" /\ todo[p] # << >> /\ Head1(p).fn = "native"
  /\ \/ Fails(p)
     \/ todo' = [todo EXCEPT ![p] = Tail(@)] /\ UNCHANGED pc
     \/ /\ todo' = [todo EXCEPT ![p] =
                      <<[Item("prov", sid[p]) EXCEPT !.prov = newProv[turnOf[p]]]>> \o Tail(@)]
        /\ UNCHANGED pc
  /\ UNCHANGED <<files, at, view, unread, sid, admitted, slow, crashes, history>>

Admissible(c) == \A t \in Turn : admitted[t] => sid[t] # sid[c]
Admits(c) == pc[c] = "next" /\ todo[c] # << >> /\ Head1(c).fn = "admit"
Admit(c) ==
  LET t == turnOf[c]
      known == Head1(c).prov
  IN
  /\ Admits(c) /\ Admissible(c)
  /\ admitted' = [admitted EXCEPT ![t] = TRUE]
  /\ sid' = [sid EXCEPT ![t] = sid[c]]
  /\ todo' = [todo EXCEPT ![c] = Tail(@),
                          ![t] = <<[Item("prov", sid[c]) EXCEPT
                                      !.prov = IF known = NoId THEN newProv[t] ELSE known]>>]
  /\ pc' = [pc EXCEPT ![t] = "next"]
  /\ UNCHANGED <<files, at, view, unread, slow, crashes, history>>
RefuseTurn(c) ==
  /\ Admits(c) /\ ~Admissible(c)
  /\ Fails(c)
  /\ UNCHANGED <<files, at, view, unread, sid, admitted, slow, crashes, history>>

\* A turn ends, with its provider's id confirmed or before.
TurnEnds(t) ==
  /\ pc[t] = "next"
  /\ admitted' = [admitted EXCEPT ![t] = FALSE]
  /\ Goto(t, "done")
  /\ todo' = [todo EXCEPT ![t] = << >>]
  /\ UNCHANGED <<files, at, view, unread, sid, slow, crashes, history>>

\* The caller is told the session's id.
Answer(c) ==
  /\ pc[c] = "next" /\ todo[c] # << >> /\ Head1(c).fn = "answer"
  /\ acked' = acked \union {sid[c]}
  /\ todo' = [todo EXCEPT ![c] = Tail(@)]
  /\ UNCHANGED <<files, pc, at, view, unread, sid, admitted, slow, crashes, removed, folded, stolen>>

(***************************************************************************)
(* Time and death.  A lock file outlives a process that died with it; that *)
(* of a running process grows old too when the process is held up.         *)
(***************************************************************************)
GrowsOld(d) ==
  /\ lock[d] # None /\ ~old[d]
  /\ \/ pc[lock[d]] = "dead" /\ UNCHANGED slow
     \/ pc[lock[d]] # "dead" /\ slow < MaxSlow /\ slow' = slow + 1
  /\ old' = [old EXCEPT ![d] = TRUE]
  /\ UNCHANGED <<doc, lock, pc, todo, at, view, unread, sid, admitted, crashes, history>>

Ended(p) == pc[p] \in {"off", "done", "failed"} \/ (pc[p] = "next" /\ p \notin Turn /\ todo[p] = << >>)
Die(dead) ==
  /\ crashes < MaxCrash
  /\ crashes' = crashes + 1
  /\ pc' = [p \in Proc |-> IF p \in dead /\ ~Ended(p) THEN "dead" ELSE pc[p]]
  /\ todo' = [p \in Proc |-> IF p \in dead THEN << >> ELSE todo[p]]
  /\ view' = [p \in Proc |-> IF p \in dead THEN Empty ELSE view[p]]
  /\ unread' = [p \in Proc |-> IF p \in dead THEN {} ELSE unread[p]]
  /\ at' = [p \in Proc |-> IF p \in dead THEN General ELSE at[p]]
  /\ sid' = [p \in Proc |-> IF p \in dead THEN NoId ELSE sid[p]]
  /\ admitted' = [t \in Turn |-> admitted[t] /\ t \notin dead]
  /\ UNCHANGED <<files, slow, history>>
DashboardDies == Die(Caller \union Turn)
CommandDies == \E k \in Command : ~Ended(k) /\ Die({k})

Locked(p) == \/ TakeLock(p) \/ Load(p) \/ Save(p) \/ SaveRefused(p) \/ Unlock(p)
Waits(p) == FindStale(p) \/ Reclaim(p) \/ LockTimesOut(p)
Asks(c) == \/ CreateSession(c) \/ AttachSession(c) \/ StartTurnFinds(c) \/ StartTurnCreates(c)
           \/ UpdateSession(c) \/ SetActiveTaskId(c) \/ DeleteSession(c)
Goes(c) == NativeSession(c) \/ Admit(c) \/ RefuseTurn(c) \/ Answer(c)

Next ==
  \/ \E p \in Proc : Locate(p) \/ Locked(p) \/ Waits(p)
  \/ \E c \in Caller : Asks(c) \/ Goes(c)
  \/ \E t \in Turn : TurnEnds(t)
  \/ \E k \in Command : CommandBinds(k)
  \/ \E d \in Document : GrowsOld(d)
  \/ DashboardDies \/ CommandDies

Spec == Init /\ [][Next]_vars

(***************************************************************************)
(* Properties.                                                             *)
(***************************************************************************)
\* Types of what the protocol of the lock files relies on.
TypeOK ==
  /\ DOMAIN doc = Document /\ DOMAIN view = Proc
  /\ lock \in [Document -> Proc \union {None}]
  /\ old \in [Document -> BOOLEAN]
  /\ pc \in [Proc -> {"off", "start", "next", "reclaim", "load", "save", "unlock", "abort",
                      "done", "failed", "dead"}]
  /\ at \in [Proc -> Document]
  /\ unread \in [Proc -> SUBSET Document]
  /\ admitted \in [Turn -> BOOLEAN]
  /\ slow \in 0..MaxSlow /\ crashes \in 0..MaxCrash
  /\ stolen \in BOOLEAN

\* No update is lost between the dashboard and the commands (the comment above
\* LOCK_TIMEOUT_MS): of the sessions of its own document, what a process is about
\* to save was computed from what is on disk, unless a lock file was taken from a
\* holder that still runs.  Of the copies in General nothing is promised: they
\* were read without the lock of the document they come from.
SavesWhatItRead ==
  ~stolen =>
    \A p \in Proc : pc[p] = "save" =>
      LET d == at[p] IN
      /\ Own(view[p], d) = Own(Loaded(doc[d]), d)
      /\ doc[d].rows \subseteq view[p].rows

\* A session whose id a caller was given is recorded, in the document of its
\* specification, until somebody deletes it: through creations that meet, changes
\* of both kinds of process, and deaths.  A creation with a provider's id that
\* another session has by then is folded into that session, and its own id is
\* recorded nowhere.
SessionIsKept ==
  ~stolen => acked \subseteq Recorded \union removed \union folded

\* A session's provider id never changes (setProviderSessionId is fail-closed),
\* in the document of its specification: not by a turn whose provider allocated
\* another one, nor by a bind, nor by a save of copies that are out of date.
ProviderIdStands ==
  [][~stolen' =>
       \A d \in Document : \A i \in OwnAt(doc[d], d) : \A j \in OwnAt(doc'[d], d) :
         LET s == doc[d].sessions[i]
             n == doc'[d].sessions[j]
         IN  s.id = n.id /\ s.prov # NoId => n.prov = s.prov]_vars

\* The canonical session is recorded before anything runs in its name
\* (the comment in createSession).  It does not hold: two first turns with one
\* provider id meet, the second bind finds the first one's session, and the
\* second turn runs under an id of its own that no document has.
TurnHasASession == \A t \in Turn : admitted[t] => sid[t] \in Recorded \union removed
=============================================================================
