---------------------------- MODULE MCSessions -----------------------------
(***************************************************************************)
(* Instances of Sessions for TLC: two requests to the dashboard, the turns *)
(* they may start, and a workflow command, over the documents of one       *)
(* specification and of the sessions without one.                          *)
(***************************************************************************)
EXTENDS Sessions, TLC

CONSTANTS c1, c2, t1, t2, k1, spec, a, b, s0, s1, g0, n1, n2, n3, p0, p1, p2

MCTurnOf == c1 :> t1 @@ c2 :> t2
MCNewId == c1 :> n1 @@ c2 :> n2 @@ k1 :> n3
MCNewProv == t1 :> p1 @@ t2 :> p2

Old(id, in, prov, scope, active) ==
  [id |-> id, spec |-> in, prov |-> prov, active |-> active, scope |-> scope, tasks |-> {a, b},
   model |-> FALSE, mode |-> FALSE, boot |-> NoTask]
Kept(own, copies) ==
  spec :> [sessions |-> <<own>>, rows |-> {<<s0, a>>}]
  @@ General :> [sessions |-> <<[Old(g0, General, NoId, {}, NoTask) EXCEPT !.tasks = {}]>> \o copies,
                 rows |-> {}]
\* No copies yet; or those of an earlier change of g0, made before s0 had the id of
\* its provider and before s1 was deleted.
MCExisting ==
  {Kept(Old(s0, spec, NoId, {a}, a), << >>),
   Kept(Old(s0, spec, p0, {}, NoTask), <<Old(s0, spec, NoId, {}, NoTask), Old(s1, spec, p1, {}, NoTask)>>)}

R(op) == [op |-> op, id |-> NoId, prov |-> NoId, spec |-> spec, tasks |-> {}, task |-> NoTask,
          scope |-> {}, mode |-> FALSE, model |-> FALSE]
MCRequest ==
  c1 :> {[R("start") EXCEPT !.id = s0, !.task = a, !.mode = TRUE],
         [R("start") EXCEPT !.prov = p1, !.task = b, !.tasks = {b}]}
  @@ c2 :>
       {[R("start") EXCEPT !.id = s0, !.model = TRUE],
        [R("start") EXCEPT !.prov = p1],
        [R("create") EXCEPT !.tasks = {a, b}, !.scope = {a, b}],
        [R("attach") EXCEPT !.prov = p1, !.spec = General],
        [R("mode") EXCEPT !.id = g0],
        [R("active") EXCEPT !.id = s0, !.task = b],
        [R("delete") EXCEPT !.id = s0]}
  @@ k1 :> {[R("step") EXCEPT !.id = s0, !.task = b]}

\* Once a lock has been taken from a running holder nothing is promised.
Promising == ~stolen
=============================================================================
