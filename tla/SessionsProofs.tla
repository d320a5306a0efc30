---------------------------- MODULE SessionsProofs ----------------------------
(***************************************************************************)
(* Proofs about Sessions, for any number of requests, turns, commands and  *)
(* documents, whatever they ask for.                                       *)
(*                                                                         *)
(* LockInv: a process between load and unlock holds the lock file of its   *)
(* document as long as none was taken from a running holder: a lock is     *)
(* created only where there is none, and a stale one that is removed is    *)
(* somebody's who is not there any more. So nobody else writes the         *)
(* document in between, and of its own sessions what is saved was computed *)
(* from what is there.                                                     *)
(*                                                                         *)
(* DocInv: a document names each of its own sessions once, and only        *)
(* General has others, copies; what was read without a document's lock     *)
(* has no session of the document that is saved. Each change keeps the     *)
(* sessions, theirs and the copies, and every id of a provider (Revises).  *)
(*                                                                         *)
(* CopyInv: a copy is of a session that is recorded, or was deleted; so    *)
(* whoever finds the copy finds a known id.                                *)
(*                                                                         *)
(* AnswerInv: a request answers last, and while it has an answer to give,  *)
(* its session is known or the bind of it is still to be done.             *)
(***************************************************************************)
EXTENDS Sessions, FiniteSetTheorems, SequenceTheorems, WellFoundedInduction, TLAPS

-----------------------------------------------------------------------------
(***************************************************************************)
(* What a change does to a document.                                       *)
(***************************************************************************)

\* e has the sessions of d at their places, with their ids, specifications and
\* provider's ids; a session without a provider's id may have got one.
Revises(d, e) ==
  /\ e = [sessions |-> e.sessions, rows |-> e.rows]
  /\ e.sessions = [i \in DOMAIN d.sessions |-> Fields(e.sessions[i])]
  /\ \A i \in DOMAIN d.sessions :
       /\ e.sessions[i].id = d.sessions[i].id /\ e.sessions[i].spec = d.sessions[i].spec
       /\ d.sessions[i].prov # NoId => e.sessions[i].prov = d.sessions[i].prov

\* The own sessions of D that d and e have both.
Standing(d, e, D) ==
  \A i \in OwnAt(d, D) : \A j \in OwnAt(e, D) :
    d.sessions[i].id = e.sessions[j].id /\ d.sessions[i].prov # NoId
      => e.sessions[j].prov = d.sessions[i].prov

LEMMA SeqOfFields ==
  ASSUME NEW q, NEW n \in Nat, q = [i \in 1..n |-> Fields(q[i])]
  PROVE  q \in Seq({Fields(q[i]) : i \in DOMAIN q}) /\ DOMAIN q = 1..n /\ Len(q) = n
<1>1. DOMAIN q = 1..n
  OBVIOUS
<1> DEFINE S == {Fields(q[i]) : i \in DOMAIN q}
<1>2. q \in [1..n -> S]
  BY <1>1
<1> QED
  BY <1>1, <1>2

LEMMA Form ==
  ASSUME NEW d, NEW D, WellFormed(d, D)
  PROVE  /\ d = [sessions |-> d.sessions, rows |-> d.rows]
         /\ Len(d.sessions) \in Nat /\ DOMAIN d.sessions = 1..Len(d.sessions)
         /\ \A i \in DOMAIN d.sessions : d.sessions[i] = Fields(d.sessions[i])
         /\ d.sessions = [i \in 1..Len(d.sessions) |-> Fields(d.sessions[i])]
         /\ \A i, j \in OwnAt(d, D) : d.sessions[i].id = d.sessions[j].id => i = j
         /\ D # General => \A i \in DOMAIN d.sessions : d.sessions[i].spec = D
<1>1. \A i \in DOMAIN d.sessions : d.sessions[i] = Fields(d.sessions[i])
  BY DEF WellFormed, Fields
<1>2. Len(d.sessions) \in Nat /\ DOMAIN d.sessions = 1..Len(d.sessions)
  BY DEF WellFormed
<1>3. d.sessions = [i \in DOMAIN d.sessions |-> d.sessions[i]]
  BY DEF WellFormed
<1>4. D # General => \A i \in DOMAIN d.sessions : d.sessions[i].spec = D
  BY DEF WellFormed, OwnAt
<1> QED
  BY <1>1, <1>2, <1>3, <1>4 DEF WellFormed

LEMMA RevisesKeeps ==
  ASSUME NEW d, NEW D, WellFormed(d, D), NEW e, Revises(d, e)
  PROVE  /\ WellFormed(e, D) /\ Standing(d, e, D)
         /\ DOMAIN e.sessions = DOMAIN d.sessions /\ Ids(e) = Ids(d)
         /\ OwnAt(e, D) = OwnAt(d, D) /\ OwnIds(e, D) = OwnIds(d, D)
<1>1. DOMAIN e.sessions = DOMAIN d.sessions
  BY DEF Revises
<1>2. e.sessions \in Seq({Fields(e.sessions[i]) : i \in DOMAIN e.sessions})
  <2>1. e.sessions = [i \in 1..Len(d.sessions) |-> Fields(e.sessions[i])] /\ Len(d.sessions) \in Nat
    BY Form DEF Revises
  <2> QED
    BY <2>1, SeqOfFields
<1>a. \A i, j \in OwnAt(d, D) : d.sessions[i].id = d.sessions[j].id => i = j
  BY Form
<1>b. \A i \in DOMAIN d.sessions :
        /\ e.sessions[i].id = d.sessions[i].id /\ e.sessions[i].spec = d.sessions[i].spec
        /\ d.sessions[i].prov # NoId => e.sessions[i].prov = d.sessions[i].prov
  BY DEF Revises
<1>c. OwnAt(e, D) = OwnAt(d, D) /\ OwnAt(d, D) \subseteq DOMAIN d.sessions
  BY <1>1, <1>b DEF OwnAt
<1>3. \A i, j \in OwnAt(e, D) : e.sessions[i].id = e.sessions[j].id => i = j
  BY <1>a, <1>b, <1>c
<1>4. Standing(d, e, D)
  BY <1>a, <1>b, <1>c DEF Standing
<1>5. Ids(e) = Ids(d)
  BY <1>1, <1>b DEF Ids
<1>6. OwnIds(e, D) = OwnIds(d, D)
  BY <1>b, <1>c DEF OwnIds
<1>7. D # General => OwnAt(e, D) = DOMAIN e.sessions
  BY <1>1, <1>c DEF WellFormed
<1> QED
  BY <1>1, <1>2, <1>3, <1>4, <1>5, <1>6, <1>7, <1>c DEF WellFormed, Revises

LEMMA LoadedRevises == ASSUME NEW d, NEW D, WellFormed(d, D) PROVE Revises(d, Loaded(d))
<1>1. ASSUME NEW s, s = Fields(s)
      PROVE  /\ Normalized(s) = Fields(Normalized(s)) /\ Normalized(s).spec = s.spec
             /\ Normalized(s).id = s.id /\ Normalized(s).prov = s.prov
  BY <1>1 DEF Normalized, Fields
<1>2. Loaded(d) = [sessions |-> [i \in DOMAIN d.sessions |-> Normalized(d.sessions[i])], rows |-> d.rows]
  BY DEF Loaded, WellFormed
<1>3. \A i \in DOMAIN d.sessions : Loaded(d).sessions[i] = Normalized(d.sessions[i])
  BY <1>2
<1>4. DOMAIN Loaded(d).sessions = DOMAIN d.sessions
  BY <1>2
<1>5. \A i \in DOMAIN d.sessions : d.sessions[i] = Fields(d.sessions[i])
  BY Form
<1>6. \A i \in DOMAIN d.sessions : Loaded(d).sessions[i] = Fields(Loaded(d).sessions[i])
  BY <1>1, <1>3, <1>5
<1>7. Loaded(d).sessions = [i \in DOMAIN d.sessions |-> Fields(Loaded(d).sessions[i])]
  BY <1>2, <1>3, <1>6
<1>8. \A i \in DOMAIN d.sessions : /\ Loaded(d).sessions[i].id = d.sessions[i].id
                                   /\ Loaded(d).sessions[i].spec = d.sessions[i].spec
                                   /\ Loaded(d).sessions[i].prov = d.sessions[i].prov
  BY <1>1, <1>3, <1>5
<1>9. Loaded(d) = [sessions |-> Loaded(d).sessions, rows |-> Loaded(d).rows]
  BY <1>2
<1> QED
  BY <1>7, <1>8, <1>9 DEF Revises

LEMMA EmptyForm == \A D : WellFormed(Empty, D) /\ OwnAt(Empty, D) = {} /\ Ids(Empty) = {}
<1>1. << >> \in Seq({}) /\ DOMAIN << >> = {}
  OBVIOUS
<1>2. Empty.sessions = << >> /\ Empty = [sessions |-> Empty.sessions, rows |-> Empty.rows]
  BY DEF Empty
<1>3. {Fields(Empty.sessions[i]) : i \in DOMAIN Empty.sessions} = {}
  BY <1>1, <1>2
<1> QED
  BY <1>1, <1>2, <1>3 DEF WellFormed, OwnAt, Ids

\* What is read of another document adds no own session.
LEMMA JoinedKeeps ==
  ASSUME NEW v, NEW D, WellFormed(v, D), NEW w, NEW e, WellFormed(w, e),
         e = D => OwnAt(v, D) = {}, e # D => D = General
  PROVE  /\ WellFormed(Joined(v, w), D)
         /\ Ids(Joined(v, w)) = Ids(v) \union Ids(w)
         /\ e = D => Own(Joined(v, w), D) = Own(w, D)
         /\ e # D => /\ Own(Joined(v, w), D) = Own(v, D)
                     /\ OwnAt(v, D) = {} => OwnAt(Joined(v, w), D) = {}
<1> DEFINE m == Len(v.sessions)
           n == Len(w.sessions)
           q == v.sessions
           r == w.sessions
           s == q \o r
           S == {Fields(q[i]) : i \in DOMAIN q} \union {Fields(r[i]) : i \in DOMAIN r}
<1>1. /\ m \in Nat /\ DOMAIN q = 1..m /\ \A i \in 1..m : q[i] = Fields(q[i])
      /\ \A i, j \in OwnAt(v, D) : q[i].id = q[j].id => i = j
      /\ D # General => \A i \in 1..m : q[i].spec = D
  BY Form
<1>2. /\ n \in Nat /\ DOMAIN r = 1..n /\ \A i \in 1..n : r[i] = Fields(r[i])
      /\ \A i, j \in OwnAt(w, e) : r[i].id = r[j].id => i = j
      /\ e # General => \A i \in 1..n : r[i].spec = e
  BY Form
<1>3. q \in Seq(S) /\ r \in Seq(S)
  <2>1. q \in Seq({Fields(q[i]) : i \in DOMAIN q}) /\ r \in Seq({Fields(r[i]) : i \in DOMAIN r})
    BY DEF WellFormed
  <2> QED
    BY <2>1
<1>4. /\ Len(s) = m + n /\ DOMAIN s = 1..(m + n)
      /\ \A i \in 1..m : s[i] = q[i]
      /\ \A i \in 1..n : s[m + i] = r[i]
      /\ s = [i \in 1..(m + n) |-> s[i]]
  <2> HIDE DEF S, q, r
  <2>1. s \in Seq(S) /\ Len(s) = Len(q) + Len(r) /\ Len(q) \in Nat /\ Len(r) \in Nat
        /\ (\A i \in 1..Len(q) : s[i] = q[i]) /\ (\A i \in 1..Len(r) : s[Len(q) + i] = r[i])
    BY <1>3
  <2>2. \A z \in Seq(S) : DOMAIN z = 1..Len(z) /\ z = [i \in 1..Len(z) |-> z[i]]
    OBVIOUS
  <2>3. m = Len(q) /\ n = Len(r)
    BY DEF q, r
  <2> HIDE DEF s, m, n
  <2> QED
    BY <2>1, <2>2, <2>3
<1> HIDE DEF m, n, s, S
<1>5. \A i \in 1..(m + n) : \/ i \in 1..m /\ s[i] = q[i]
                            \/ i - m \in 1..n /\ s[i] = r[i - m]
  <2> SUFFICES ASSUME NEW i \in 1..(m + n), ~(i \in 1..m) PROVE i - m \in 1..n /\ s[i] = r[i - m]
    BY <1>4
  <2>1. i - m \in 1..n /\ m + (i - m) = i
    BY <1>1, <1>2
  <2> QED
    BY <1>4, <2>1
<1>6. Joined(v, w) = [sessions |-> s, rows |-> v.rows \union w.rows]
  BY DEF Joined, s, q, r
<1> DEFINE j == Joined(v, w)
<1>7. j.sessions = s /\ j = [sessions |-> j.sessions, rows |-> j.rows]
  BY <1>6
<1> HIDE DEF j
<1>8. s \in Seq({Fields(s[i]) : i \in DOMAIN s})
  <2>1. \A i \in 1..(m + n) : s[i] = Fields(s[i])
    BY <1>1, <1>2, <1>5
  <2>2. s = [i \in 1..(m + n) |-> Fields(s[i])] /\ m + n \in Nat
    BY <1>1, <1>2, <1>4, <2>1
  <2> QED
    BY <2>2, SeqOfFields
<1>9. \A i \in 1..m : i \in 1..(m + n)
  BY <1>1, <1>2
<1>10. \A i \in 1..n : m + i \in 1..(m + n)
  BY <1>1, <1>2
<1>11. Ids(j) = Ids(v) \union Ids(w)
  <2>1. Ids(j) = {s[i].id : i \in 1..(m + n)}
    BY <1>4, <1>7 DEF Ids
  <2>2. Ids(v) = {q[i].id : i \in 1..m} /\ Ids(w) = {r[i].id : i \in 1..n}
    BY <1>1, <1>2 DEF Ids, q, r
  <2>3. \A i \in 1..m : q[i].id \in Ids(j)
    BY <1>4, <1>9, <2>1
  <2>4. \A i \in 1..n : r[i].id \in Ids(j)
    BY <1>4, <1>10, <2>1
  <2>5. \A i \in 1..(m + n) : s[i].id \in Ids(v) \union Ids(w)
    BY <1>5, <2>2
  <2> QED
    BY <2>1, <2>2, <2>3, <2>4, <2>5
<1>12. OwnAt(j, D) = {i \in 1..(m + n) : s[i].spec = D}
  BY <1>4, <1>7 DEF OwnAt
<1>13. OwnAt(v, D) = {i \in 1..m : q[i].spec = D} /\ OwnAt(w, D) = {i \in 1..n : r[i].spec = D}
  BY <1>1, <1>2 DEF OwnAt, q, r
<1>14. CASE e = D
  <2>1. \A i \in OwnAt(j, D) : i - m \in OwnAt(w, D) /\ s[i] = r[i - m] /\ i \in 1..(m + n)
    BY <1>5, <1>12, <1>13, <1>14
  <2>2. \A i, k \in OwnAt(j, D) : s[i].id = s[k].id => i = k
    <3> SUFFICES ASSUME NEW i \in OwnAt(j, D), NEW k \in OwnAt(j, D), s[i].id = s[k].id PROVE i = k
      OBVIOUS
    <3>1. i - m = k - m
      BY <1>2, <1>14, <2>1
    <3> QED
      BY <1>1, <1>2, <2>1, <3>1
  <2>3. \A i \in OwnAt(w, D) : m + i \in OwnAt(j, D) /\ s[m + i] = r[i]
    BY <1>4, <1>10, <1>12, <1>13
  <2>4. Own(j, D) = Own(w, D)
    BY <1>7, <2>1, <2>3 DEF Own, r
  <2>5. D # General => OwnAt(j, D) = DOMAIN j.sessions
    <3> SUFFICES ASSUME D # General, NEW i \in 1..(m + n) PROVE s[i].spec = D
      BY <1>4, <1>7, <1>12
    <3>1. ~(i \in 1..m)
      BY <1>1, <1>13, <1>14
    <3> QED
      BY <1>2, <1>5, <1>14, <3>1
  <2> QED
    BY <1>7, <1>8, <1>11, <1>14, <2>2, <2>4, <2>5 DEF WellFormed, j
<1>15. CASE e # D
  <2>1. D = General /\ \A i \in 1..n : r[i].spec # D
    BY <1>2, <1>15
  <2>2. \A i \in OwnAt(j, D) : i \in OwnAt(v, D) /\ s[i] = q[i]
    BY <1>5, <1>12, <1>13, <2>1
  <2>3. \A i \in OwnAt(v, D) : i \in OwnAt(j, D) /\ s[i] = q[i]
    BY <1>4, <1>9, <1>12, <1>13
  <2>4. Own(j, D) = Own(v, D)
    BY <1>7, <2>2, <2>3 DEF Own, q
  <2>5. \A i, k \in OwnAt(j, D) : s[i].id = s[k].id => i = k
    BY <1>1, <2>2
  <2>6. OwnAt(v, D) = {} => OwnAt(j, D) = {}
    BY <2>2
  <2> QED
    BY <1>7, <1>8, <1>11, <1>15, <2>1, <2>4, <2>5, <2>6 DEF WellFormed, j
<1> QED
  BY <1>14, <1>15

LEMMA LeastElement ==
  ASSUME NEW S \in SUBSET Nat, S # {} PROVE \E i \in S : \A j \in S : i <= j
<1>1. PICK i \in S : \A j \in S : ~(<<j, i>> \in OpToRel(<, Nat))
  BY NatLessThanWellFounded, WFMin, Zenon
<1>2. \A j \in S : ~(j < i)
  BY <1>1 DEF OpToRel
<1> QED
  BY <1>2

LEMMA FirstMatches ==
  ASSUME NEW d, NEW D, WellFormed(d, D), NEW id, NEW prov, Matches(d, id, prov) # {}
  PROVE  First(d, id, prov) \in Matches(d, id, prov)
<1>1. Matches(d, id, prov) \subseteq DOMAIN d.sessions
  BY DEF Matches
<1>2. DOMAIN d.sessions \in SUBSET Nat
  <2>1. DOMAIN d.sessions = 1..Len(d.sessions) /\ Len(d.sessions) \in Nat
    BY Form
  <2> QED
    BY <2>1
<1>3. Matches(d, id, prov) \in SUBSET Nat
  BY <1>1, <1>2
<1> QED
  BY <1>3, LeastElement, Zenon DEF First

\* A change of one session, the first that matches.
LEMMA OneRevised ==
  ASSUME NEW d, NEW D, WellFormed(d, D), NEW k \in DOMAIN d.sessions, NEW s, NEW rows,
         s = Fields(s), s.id = d.sessions[k].id, s.spec = d.sessions[k].spec,
         d.sessions[k].prov # NoId => s.prov = d.sessions[k].prov
  PROVE  Revises(d, [sessions |-> [d.sessions EXCEPT ![k] = s], rows |-> rows])
<1> DEFINE e == [sessions |-> [d.sessions EXCEPT ![k] = s], rows |-> rows]
<1>1. \A i \in DOMAIN d.sessions : e.sessions[i] = IF i = k THEN s ELSE d.sessions[i]
  BY Form
<1>2. e.sessions = [i \in DOMAIN d.sessions |-> e.sessions[i]]
  BY Form
<1>3. \A i \in DOMAIN d.sessions : e.sessions[i] = Fields(e.sessions[i])
  BY <1>1, Form
<1>4. \A i \in DOMAIN d.sessions :
        /\ e.sessions[i].id = d.sessions[i].id /\ e.sessions[i].spec = d.sessions[i].spec
        /\ d.sessions[i].prov # NoId => e.sessions[i].prov = d.sessions[i].prov
  BY <1>1
<1> HIDE DEF e
<1>5. e = [sessions |-> e.sessions, rows |-> e.rows]
  BY DEF e
<1>6. e.sessions = [i \in DOMAIN d.sessions |-> Fields(e.sessions[i])]
  BY <1>2, <1>3
<1>7. Revises(d, e)
  BY <1>4, <1>5, <1>6 DEF Revises
<1> QED
  BY <1>7 DEF e

LEMMA BoundKeeps ==
  ASSUME NEW s, s = Fields(s), NEW x
  PROVE  /\ Bound(s, x) = Fields(Bound(s, x)) /\ Bound(s, x).id = s.id
         /\ Bound(s, x).spec = s.spec
         /\ s.prov # NoId => Bound(s, x).prov = s.prov
BY DEF Bound, Fields

LEMMA FreshIs ==
  ASSUME NEW x PROVE Fresh(x) = Fields(Fresh(x)) /\ Fresh(x).id = x.id /\ Fresh(x).spec = x.spec
BY DEF Fresh, Fields

LEMMA BindKeeps ==
  ASSUME NEW d, NEW D, WellFormed(d, D), NEW x, x.spec = D
  PROVE  /\ WellFormed(Bind(d, x), D) /\ Standing(d, Bind(d, x), D)
         /\ OwnIds(d, D) \subseteq OwnIds(Bind(d, x), D)
         /\ Ids(Bind(d, x)) \subseteq Ids(d) \union OwnIds(Bind(d, x), D)
         /\ x.prov = NoId => x.id \in Ids(Bind(d, x))
<1> DEFINE q == d.sessions
           n == Len(d.sessions)
<1>0. /\ n \in Nat /\ DOMAIN q = 1..n
      /\ \A i \in 1..n : q[i] = Fields(q[i])
      /\ q = [i \in 1..n |-> Fields(q[i])]
      /\ \A i, j \in OwnAt(d, D) : q[i].id = q[j].id => i = j
      /\ OwnAt(d, D) = {i \in 1..n : q[i].spec = D}
  BY Form DEF OwnAt
<1>1. CASE Matches(d, x.id, x.prov) = {}
  <2> DEFINE b == Bound(Fresh(x), x)
             e == [sessions |-> Append(q, b), rows |-> d.rows \union BoundRows(x.id, x)]
  <2>1. Bind(d, x) = e
    <3>1. Len(d.sessions) + 1 > Len(d.sessions)
      BY <1>0
    <3>2. Fresh(x).id = x.id
      BY DEF Fresh
    <3> QED
      BY <1>1, <3>1, <3>2, Zenon DEF Bind
  <2>2. b = Fields(b) /\ b.id = x.id /\ b.spec = D
    BY FreshIs, BoundKeeps
  <2>3. \A i \in 1..n : q[i].id # x.id
    BY <1>0, <1>1 DEF Matches, Names
  <2>4. /\ DOMAIN e.sessions = 1..(n + 1)
        /\ \A i \in 1..(n + 1) : e.sessions[i] = IF i = n + 1 THEN b ELSE q[i]
        /\ e.sessions = [i \in 1..(n + 1) |-> e.sessions[i]]
    <3>1. q \in Seq({Fields(q[i]) : i \in DOMAIN q} \union {b})
      BY DEF WellFormed
    <3> QED
      BY <1>0, <3>1
  <2>a. D # General => \A i \in 1..n : q[i].spec = D
    BY <1>0, Form DEF q
  <2> HIDE DEF q, n, b
  <2>5. \A i \in 1..(n + 1) : e.sessions[i] = Fields(e.sessions[i])
    BY <1>0, <2>2, <2>4
  <2>6. e.sessions = [i \in 1..(n + 1) |-> Fields(e.sessions[i])]
    BY <2>4, <2>5
  <2>7. e.sessions \in Seq({Fields(e.sessions[i]) : i \in DOMAIN e.sessions})
    BY <1>0, <2>6, SeqOfFields
  <2>12. e = [sessions |-> e.sessions, rows |-> e.rows]
    OBVIOUS
  <2> HIDE DEF e
  <2>b. OwnAt(e, D) = OwnAt(d, D) \union {n + 1}
    <3>1. OwnAt(e, D) = {i \in 1..(n + 1) : e.sessions[i].spec = D}
      BY <2>4 DEF OwnAt
    <3>2. \A i \in 1..(n + 1) : e.sessions[i].spec = D <=> (i = n + 1 \/ q[i].spec = D)
      BY <1>0, <2>2, <2>4
    <3>3. \A i : i \in 1..(n + 1) <=> (i \in 1..n \/ i = n + 1)
      BY <1>0
    <3> QED
      BY <1>0, <3>1, <3>2, <3>3
  <2>g. n + 1 \in 1..(n + 1) /\ \A i \in 1..n : i \in 1..(n + 1) /\ i # n + 1
    BY <1>0
  <2>c. \A i \in OwnAt(d, D) : e.sessions[i] = q[i] /\ i \in 1..n /\ i # n + 1
    <3>1. \A i \in 1..n : e.sessions[i] = q[i]
      BY <2>4, <2>g
    <3> QED
      BY <1>0, <2>g, <3>1
  <2>d. e.sessions[n + 1] = b
    BY <2>4, <2>g
  <2>8. \A i, j \in OwnAt(e, D) : e.sessions[i].id = e.sessions[j].id => i = j
    BY <1>0, <2>2, <2>3, <2>b, <2>c, <2>d
  <2>e. D # General => OwnAt(e, D) = DOMAIN e.sessions
    <3>1. \A i : i \in 1..(n + 1) <=> (i \in 1..n \/ i = n + 1)
      BY <1>0
    <3> QED
      BY <1>0, <2>4, <2>a, <2>b, <3>1
  <2>9. Standing(d, e, D)
    <3>1. ASSUME NEW i \in OwnAt(d, D), NEW j \in OwnAt(e, D), q[i].id = e.sessions[j].id
          PROVE  e.sessions[j].prov = q[i].prov
      BY <1>0, <2>2, <2>3, <2>b, <2>c, <2>d, <3>1
    <3> QED
      BY <3>1 DEF Standing, q
  <2>10. OwnIds(d, D) \subseteq OwnIds(e, D)
    BY <2>b, <2>c DEF OwnIds, q
  <2>f. Ids(e) \subseteq Ids(d) \union OwnIds(e, D)
    <3>1. \A i \in DOMAIN e.sessions : i = n + 1 \/ (i \in 1..n /\ e.sessions[i] = q[i])
      <4>1. \A i \in 1..(n + 1) : i = n + 1 \/ i \in 1..n
        BY <1>0
      <4> QED
        BY <2>4, <4>1
    <3>2. \A i \in 1..n : q[i].id \in Ids(d)
      BY <1>0 DEF Ids, q
    <3>3. e.sessions[n + 1].id \in OwnIds(e, D)
      BY <2>b DEF OwnIds
    <3> QED
      BY <3>1, <3>2, <3>3 DEF Ids
  <2>11. x.id \in Ids(e)
    <3>1. n + 1 \in DOMAIN e.sessions /\ e.sessions[n + 1].id = x.id
      BY <1>0, <2>2, <2>4
    <3> QED
      BY <3>1 DEF Ids
  <2> QED
    BY <2>1, <2>7, <2>8, <2>9, <2>10, <2>11, <2>12, <2>e, <2>f DEF WellFormed
<1>2. CASE Matches(d, x.id, x.prov) # {}
  <2> DEFINE k == First(d, x.id, x.prov)
             b == Bound(q[k], x)
  <2>1. k \in 1..n /\ Names(q[k], x.id, x.prov)
    BY <1>0, <1>2, FirstMatches DEF Matches
  <2>2. Bind(d, x) = [sessions |-> [d.sessions EXCEPT ![k] = b],
                      rows |-> d.rows \union BoundRows(q[k].id, x)]
    <3>1. ~(k > Len(d.sessions))
      BY <1>0, <2>1
    <3> QED
      BY <1>2, <3>1, Zenon DEF Bind
  <2>3. b = Fields(b) /\ b.id = q[k].id /\ b.spec = q[k].spec /\ (q[k].prov # NoId => b.prov = q[k].prov)
    BY <1>0, <2>1, BoundKeeps
  <2>4. Revises(d, Bind(d, x))
    BY <1>0, <2>1, <2>2, <2>3, OneRevised
  <2>5. x.prov = NoId => x.id \in Ids(d)
    BY <1>0, <2>1 DEF Names, Ids
  <2> QED
    BY <2>4, <2>5, RevisesKeeps
<1> QED
  BY <1>1, <1>2

\* The first session of an id, if there is one.
LEMMA ById ==
  ASSUME NEW d, NEW D, WellFormed(d, D), NEW id, Matches(d, id, NoId) # {}
  PROVE  /\ First(d, id, NoId) \in DOMAIN d.sessions
         /\ d.sessions[First(d, id, NoId)].id = id
<1>1. First(d, id, NoId) \in Matches(d, id, NoId)
  BY FirstMatches
<1> QED
  BY <1>1 DEF Matches, Names

LEMMA SetProvKeeps ==
  ASSUME NEW d, NEW D, WellFormed(d, D), NEW x, ~ProvRefused(d, x) PROVE Revises(d, SetProv(d, x))
<1> DEFINE k == First(d, x.id, NoId)
           s == [d.sessions[k] EXCEPT !.prov = x.prov]
<1>1. Matches(d, x.id, NoId) # {} /\ d.sessions[k].prov \in {NoId, x.prov}
  BY DEF ProvRefused
<1>2. k \in DOMAIN d.sessions
  BY <1>1, ById
<1>3. d.sessions[k] = Fields(d.sessions[k])
  BY <1>2, Form
<1>4. /\ s = Fields(s) /\ s.id = d.sessions[k].id /\ s.spec = d.sessions[k].spec
      /\ d.sessions[k].prov # NoId => s.prov = d.sessions[k].prov
  BY <1>1, <1>3 DEF Fields
<1>5. SetProv(d, x) = [sessions |-> [d.sessions EXCEPT ![k] = s], rows |-> d.rows]
  <2>1. d = [sessions |-> d.sessions, rows |-> d.rows]
    BY Form
  <2> QED
    BY <2>1 DEF SetProv
<1>6. \A rows : Revises(d, [sessions |-> [d.sessions EXCEPT ![k] = s], rows |-> rows])
  <2> HIDE DEF s, k
  <2> QED
    BY <1>2, <1>4, OneRevised
<1> QED
  BY <1>5, <1>6

LEMMA Same == ASSUME NEW d, NEW D, WellFormed(d, D) PROVE Revises(d, d)
BY Form DEF Revises

LEMMA ChangeKeeps ==
  ASSUME NEW d, NEW D, WellFormed(d, D), NEW x, NEW s,
         Matches(d, x.id, NoId) # {} =>
           /\ s = Fields(s) /\ s.id = d.sessions[First(d, x.id, NoId)].id
           /\ s.spec = d.sessions[First(d, x.id, NoId)].spec
           /\ s.prov = d.sessions[First(d, x.id, NoId)].prov
  PROVE  Revises(d, Change(d, x, s))
<1>1. CASE Matches(d, x.id, NoId) = {}
  BY <1>1, Same DEF Change
<1>2. CASE Matches(d, x.id, NoId) # {}
  <2> DEFINE k == First(d, x.id, NoId)
  <2>1. k \in DOMAIN d.sessions
    BY <1>2, ById
  <2>2. d = [sessions |-> d.sessions, rows |-> d.rows]
    BY Form
  <2>3. Change(d, x, s) = [sessions |-> [d.sessions EXCEPT ![k] = s], rows |-> d.rows]
    BY <1>2, <2>2 DEF Change
  <2> QED
    BY <1>2, <2>1, <2>3, OneRevised
<1> QED
  BY <1>1, <1>2

LEMMA SettingsKeep ==
  ASSUME NEW d, NEW D, WellFormed(d, D), NEW x
  PROVE  Revises(d, SetMode(d, x)) /\ Revises(d, SetModel(d, x))
<1> DEFINE k == First(d, x.id, NoId)
<1>1. Matches(d, x.id, NoId) # {} => d.sessions[k] = Fields(d.sessions[k])
  BY ById, Form
<1>2. ASSUME Matches(d, x.id, NoId) # {}, NEW s,
             s = [d.sessions[k] EXCEPT !.mode = TRUE] \/ s = [d.sessions[k] EXCEPT !.model = TRUE]
      PROVE  s = Fields(s) /\ s.id = d.sessions[k].id /\ s.spec = d.sessions[k].spec /\ s.prov = d.sessions[k].prov
  BY <1>1, <1>2 DEF Fields
<1>3. Revises(d, Change(d, x, [d.sessions[k] EXCEPT !.mode = TRUE]))
  BY <1>2, ChangeKeeps
<1>4. Revises(d, Change(d, x, [d.sessions[k] EXCEPT !.model = TRUE]))
  BY <1>2, ChangeKeeps
<1> QED
  BY <1>3, <1>4 DEF SetMode, SetModel

LEMMA SetActiveKeeps ==
  ASSUME NEW d, NEW D, WellFormed(d, D), NEW x, Matches(d, x.id, NoId) # {} PROVE Revises(d, SetActive(d, x))
<1> DEFINE k == First(d, x.id, NoId)
           s == [d.sessions[k] EXCEPT !.active = x.task, !.tasks = @ \union {x.task}]
<1>1. k \in DOMAIN d.sessions
  BY ById
<1>2. d.sessions[k] = Fields(d.sessions[k])
  BY <1>1, Form
<1>3. s = Fields(s) /\ s.id = d.sessions[k].id /\ s.spec = d.sessions[k].spec /\ s.prov = d.sessions[k].prov
  <2>1. ASSUME NEW z, z = Fields(z), NEW w,
               w = [z EXCEPT !.active = x.task, !.tasks = @ \union {x.task}]
        PROVE  w = Fields(w) /\ w.id = z.id /\ w.spec = z.spec /\ w.prov = z.prov
    BY <2>1 DEF Fields
  <2> QED
    BY <1>2, <2>1
<1>4. SetActive(d, x) = [sessions |-> [d.sessions EXCEPT ![k] = s], rows |-> d.rows \union {<<x.id, x.task>>}]
  BY <1>1, <1>2 DEF SetActive, Fields
<1>5. \A rows : Revises(d, [sessions |-> [d.sessions EXCEPT ![k] = s], rows |-> rows])
  <2> HIDE DEF s, k
  <2> QED
    BY <1>1, <1>3, OneRevised
<1> QED
  BY <1>4, <1>5

LEMMA RecordBootKeeps ==
  ASSUME NEW d, NEW D, WellFormed(d, D), NEW x PROVE Revises(d, RecordBoot(d, x))
<1> DEFINE b(i) == IF d.sessions[i].id = x.id THEN [d.sessions[i] EXCEPT !.boot = x.task]
                   ELSE d.sessions[i]
           e == [sessions |-> [i \in DOMAIN d.sessions |-> b(i)], rows |-> d.rows]
<1>1. d = [sessions |-> d.sessions, rows |-> d.rows]
  BY Form
<1>2. RecordBoot(d, x) = e
  BY <1>1 DEF RecordBoot
<1>3. \A i \in DOMAIN d.sessions : d.sessions[i] = Fields(d.sessions[i])
  BY Form
<1>4. \A i \in DOMAIN d.sessions :
        /\ b(i) = Fields(b(i)) /\ b(i).id = d.sessions[i].id
        /\ b(i).spec = d.sessions[i].spec /\ b(i).prov = d.sessions[i].prov
  <2>1. ASSUME NEW z, z = Fields(z), NEW w, w = [z EXCEPT !.boot = x.task]
        PROVE  w = Fields(w) /\ w.id = z.id /\ w.spec = z.spec /\ w.prov = z.prov
    BY <2>1 DEF Fields
  <2> QED
    BY <1>3, <2>1
<1>5. Revises(d, e)
  <2> HIDE DEF b
  <2> QED
    BY <1>4 DEF Revises
<1> QED
  BY <1>2, <1>5

LEMMA RemoveAtIs ==
  ASSUME NEW S, NEW q \in Seq(S), NEW k \in 1..Len(q)
  PROVE  /\ DOMAIN RemoveAt(q, k) = 1..(Len(q) - 1)
         /\ \A i \in 1..(Len(q) - 1) : RemoveAt(q, k)[i] = IF i < k THEN q[i] ELSE q[i + 1]
         /\ RemoveAt(q, k) = [i \in 1..(Len(q) - 1) |-> RemoveAt(q, k)[i]]
<1> DEFINE n == Len(q)
           left == SubSeq(q, 1, k - 1)
           right == SubSeq(q, k + 1, n)
<1>0. n \in Nat /\ k \in 1..n /\ DOMAIN q = 1..n /\ \A i \in 1..n : q[i] \in S
  OBVIOUS
<1> HIDE DEF n
<1>1. /\ left \in Seq(S) /\ Len(left) = k - 1
      /\ \A i \in 1..(k - 1) : left[i] = q[i]
  <2>1. k - 1 \in Int /\ \A i \in 1..(k - 1) : q[i] \in S
    BY <1>0
  <2> QED
    BY <1>0, <2>1, SubSeqProperties
<1>2. /\ right \in Seq(S) /\ Len(right) = n - k
      /\ \A i \in 1..(n - k) : right[i] = q[k + i]
  <2>1. k + 1 \in Int /\ n \in Int /\ \A i \in (k + 1)..n : q[i] \in S
    BY <1>0
  <2> QED
    BY <1>0, <2>1, SubSeqProperties
<1>3. RemoveAt(q, k) = left \o right
  BY DEF RemoveAt, n
<1> HIDE DEF left, right
<1>4. /\ left \o right \in Seq(S)
      /\ Len(left \o right) = Len(left) + Len(right)
      /\ \A i \in 1..(Len(left) + Len(right)) :
           (left \o right)[i] = IF i <= Len(left) THEN left[i] ELSE right[i - Len(left)]
  BY <1>1, <1>2, ConcatProperties
<1> DEFINE r == left \o right
<1> HIDE DEF r
<1>5. DOMAIN r = 1..(n - 1) /\ r = [i \in 1..(n - 1) |-> r[i]]
  <2>1. r \in Seq(S) /\ Len(r) = n - 1
    BY <1>0, <1>1, <1>2, <1>4 DEF r
  <2> QED
    BY <2>1
<1>6. \A i \in 1..(n - 1) : r[i] = IF i < k THEN q[i] ELSE q[i + 1]
  <2> SUFFICES ASSUME NEW i \in 1..(n - 1) PROVE r[i] = IF i < k THEN q[i] ELSE q[i + 1]
    OBVIOUS
  <2>1. r[i] = IF i <= k - 1 THEN left[i] ELSE right[i - (k - 1)]
    BY <1>0, <1>1, <1>2, <1>4 DEF r
  <2>2. CASE i < k
    BY <1>0, <1>1, <2>1, <2>2
  <2>3. CASE ~(i < k)
    <3>1. i - (k - 1) \in 1..(n - k) /\ k + (i - (k - 1)) = i + 1
      BY <1>0, <2>3
    <3> QED
      BY <1>0, <1>2, <2>1, <2>3, <3>1
  <2> QED
    BY <2>2, <2>3
<1> QED
  BY <1>3, <1>5, <1>6 DEF r, n

LEMMA UnbindKeeps ==
  ASSUME NEW d, NEW D, WellFormed(d, D), NEW x
  PROVE  /\ WellFormed(Unbind(d, x), D) /\ Standing(d, Unbind(d, x), D)
         /\ OwnIds(d, D) \subseteq OwnIds(Unbind(d, x), D) \union Gone(d, x)
         /\ Ids(Unbind(d, x)) \subseteq Ids(d)
<1>1. CASE Gone(d, x) = {}
  BY <1>1, Same, RevisesKeeps DEF Unbind
<1>2. CASE Gone(d, x) # {}
  <2> DEFINE q == d.sessions
             n == Len(d.sessions)
             k == First(d, x.id, NoId)
             r == RemoveAt(q, k)
             e == [sessions |-> r, rows |-> {row \in d.rows : row[1] \notin Gone(d, x)}]
  <2>0. /\ n \in Nat /\ DOMAIN q = 1..n
        /\ \A i \in 1..n : q[i] = Fields(q[i])
        /\ \A i, j \in 1..n : q[i].spec = D /\ q[j].spec = D /\ q[i].id = q[j].id => i = j
        /\ OwnAt(d, D) = {i \in 1..n : q[i].spec = D}
        /\ D # General => \A i \in 1..n : q[i].spec = D
    <3>1. /\ n \in Nat /\ DOMAIN q = 1..n
          /\ \A i \in 1..n : q[i] = Fields(q[i])
          /\ \A i, j \in OwnAt(d, D) : q[i].id = q[j].id => i = j
          /\ D # General => \A i \in 1..n : q[i].spec = D
      BY Form
    <3>2. OwnAt(d, D) = {i \in 1..n : q[i].spec = D}
      BY <3>1 DEF OwnAt
    <3> QED
      BY <3>1, <3>2
  <2>1. k \in 1..n /\ q[k].id \in Gone(d, x)
    <3>1. Matches(d, x.id, NoId) # {}
      BY <1>2 DEF Gone
    <3> QED
      BY <2>0, <3>1, FirstMatches DEF Gone, Matches
  <2>2. Unbind(d, x) = e
    BY <1>2 DEF Unbind
  <2>3. /\ DOMAIN r = 1..(n - 1)
        /\ \A i \in 1..(n - 1) : r[i] = IF i < k THEN q[i] ELSE q[i + 1]
        /\ r = [i \in 1..(n - 1) |-> r[i]]
    <3>1. q \in Seq({Fields(q[i]) : i \in DOMAIN q})
      BY DEF WellFormed
    <3> DEFINE S == {Fields(q[i]) : i \in DOMAIN q}
    <3>2. q \in Seq(S) /\ n = Len(q)
      BY <3>1
    <3> HIDE DEF S, q, k, n
    <3> QED
      BY <2>1, <3>2, RemoveAtIs
  <2> HIDE DEF q, n, k, r
  <2>4. \A i \in 1..(n - 1) : r[i] = Fields(r[i])
    BY <2>0, <2>1, <2>3
  <2>5. r \in Seq({Fields(r[i]) : i \in DOMAIN r})
    <3>1. r = [i \in 1..(n - 1) |-> Fields(r[i])]
      BY <2>3, <2>4
    <3> QED
      BY <2>0, <2>1, <3>1, SeqOfFields
  <2>a. OwnAt(e, D) = {i \in 1..(n - 1) : r[i].spec = D}
    BY <2>3 DEF OwnAt
  <2>6. \A i, j \in OwnAt(e, D) : r[i].id = r[j].id => i = j
    <3> SUFFICES ASSUME NEW i \in 1..(n - 1), NEW j \in 1..(n - 1),
                        r[i].spec = D, r[j].spec = D, r[i].id = r[j].id
                 PROVE  i = j
      BY <2>a
    <3> DEFINE up(y) == IF y < k THEN y ELSE y + 1
    <3>1. up(i) \in 1..n /\ up(j) \in 1..n /\ r[i] = q[up(i)] /\ r[j] = q[up(j)]
      BY <2>0, <2>1, <2>3
    <3> HIDE DEF up
    <3>2. up(i) = up(j)
      BY <2>0, <3>1
    <3> QED
      BY <2>0, <2>1, <3>2 DEF up
  <2>b. D # General => OwnAt(e, D) = DOMAIN r
    <3> SUFFICES ASSUME D # General, NEW i \in 1..(n - 1) PROVE r[i].spec = D
      BY <2>3, <2>a
    <3> QED
      BY <2>0, <2>1, <2>3
  <2>7. Standing(d, e, D)
    <3> SUFFICES ASSUME NEW i \in 1..n, NEW j \in 1..(n - 1), q[i].spec = D, r[j].spec = D,
                        q[i].id = r[j].id, q[i].prov # NoId
                 PROVE  r[j].prov = q[i].prov
      BY <2>0, <2>a DEF Standing, q
    <3>1. PICK m \in 1..n : r[j] = q[m]
      BY <2>0, <2>1, <2>3
    <3>2. i = m
      BY <2>0, <3>1
    <3> QED
      BY <3>1, <3>2
  <2>8. OwnIds(d, D) \subseteq OwnIds(e, D) \union {q[k].id}
    <3> SUFFICES ASSUME NEW i \in 1..n, i # k, q[i].spec = D
                 PROVE  \E j \in 1..(n - 1) : r[j] = q[i]
      BY <2>0, <2>a DEF OwnIds, q
    <3>1. CASE i < k
      BY <2>0, <2>1, <2>3, <3>1
    <3>2. CASE i > k
      <4>1. i - 1 \in 1..(n - 1) /\ r[i - 1] = q[i]
        BY <2>0, <2>1, <2>3, <3>2
      <4> QED
        BY <4>1
    <3> QED
      BY <2>0, <2>1, <3>1, <3>2
  <2>9. Ids(e) \subseteq Ids(d)
    <3> SUFFICES ASSUME NEW i \in 1..(n - 1) PROVE \E m \in 1..n : r[i] = q[m]
      BY <2>0, <2>3 DEF Ids, q
    <3> QED
      BY <2>0, <2>1, <2>3
  <2> QED
    BY <2>1, <2>2, <2>5, <2>6, <2>7, <2>8, <2>9, <2>b DEF WellFormed
<1> QED
  BY <1>1, <1>2

\* What a change does to a document, whatever it is.
LEMMA AppliedKeeps ==
  ASSUME NEW d, NEW D, WellFormed(d, D), NEW x, x.spec = D, x.fn \in Changes, ~Refused(d, x)
  PROVE  /\ WellFormed(Applied(d, x), D) /\ Standing(d, Applied(d, x), D)
         /\ OwnIds(d, D) \subseteq
              OwnIds(Applied(d, x), D) \union (IF x.fn = "unbind" THEN Gone(d, x) ELSE {})
         /\ Ids(Applied(d, x)) \subseteq Ids(d) \union OwnIds(Applied(d, x), D)
         /\ x.fn = "bind" /\ x.prov = NoId => x.id \in Ids(Applied(d, x))
<1>1. CASE x.fn = "bind"
  BY <1>1, BindKeeps DEF Applied
<1>2. CASE x.fn = "prov"
  BY <1>2, SetProvKeeps, RevisesKeeps DEF Applied, Refused
<1>3. CASE x.fn = "mode"
  BY <1>3, SettingsKeep, RevisesKeeps DEF Applied
<1>4. CASE x.fn = "model"
  BY <1>4, SettingsKeep, RevisesKeeps DEF Applied
<1>5. CASE x.fn = "active"
  BY <1>5, SetActiveKeeps, RevisesKeeps DEF Applied, Refused
<1>6. CASE x.fn = "boot"
  BY <1>6, RecordBootKeeps, RevisesKeeps DEF Applied
<1>7. CASE x.fn = "unbind"
  BY <1>7, UnbindKeeps DEF Applied
<1> QED
  BY <1>1, <1>2, <1>3, <1>4, <1>5, <1>6, <1>7 DEF Changes

-----------------------------------------------------------------------------
(***************************************************************************)
(* The lock of a document.                                                 *)
(***************************************************************************)

Inside == {"load", "save", "unlock", "abort"}
Reading == {"load", "save"}

\* What was read of the own sessions of the document, and of its rows.
Current(p) == /\ Own(view[p], at[p]) = Own(Loaded(doc[at[p]]), at[p])
              /\ doc[at[p]].rows \subseteq view[p].rows

LockInv ==
  ~stolen =>
    \A p \in Proc :
      /\ pc[p] \in Inside => lock[at[p]] = p
      /\ pc[p] \in Reading /\ at[p] \notin unread[p] => Current(p)

SessionsInv == TypeOK /\ LockInv

\* Documents, on disk and as they were read, are well-formed; who reads has a
\* change to make, and reads other documents only for General's.
DocInv ==
  /\ DOMAIN todo = Proc /\ DOMAIN sid = Proc
  /\ \A d \in Document : WellFormed(doc[d], d)
  /\ \A p \in Proc : pc[p] \in Reading =>
       /\ WellFormed(view[p], at[p])
       /\ at[p] \in unread[p] => OwnAt(view[p], at[p]) = {}
       /\ at[p] # General => unread[p] \subseteq {at[p]}
       /\ pc[p] = "save" => unread[p] = {}
       /\ todo[p] # << >> /\ Head1(p).fn \in Changes /\ Head1(p).spec = at[p]

USE SessionsAssumption

\* The parts of the types: the variables the lock is about, and the others.
PC == {"off", "start", "next", "reclaim", "load", "save", "unlock", "abort",
       "done", "failed", "dead"}

Places ==
  /\ DOMAIN doc = Document /\ DOMAIN view = Proc
  /\ lock \in [Document -> Proc \union {None}]
  /\ pc \in [Proc -> PC]
  /\ at \in [Proc -> Document]
  /\ unread \in [Proc -> SUBSET Document]

Rest ==
  /\ old \in [Document -> BOOLEAN]
  /\ admitted \in [Turn -> BOOLEAN]
  /\ stolen \in BOOLEAN
  /\ slow \in 0..MaxSlow /\ crashes \in 0..MaxCrash

\* What most steps do: nobody enters, and the files are left alone.
Aside ==
  /\ UNCHANGED <<doc, lock, at, view, unread, stolen>>
  /\ pc' \in [Proc -> PC]
  /\ \A q \in Proc : pc'[q] \in Inside => pc'[q] = pc[q]

LEMMA SessionsInit == Init => SessionsInv
<1> SUFFICES ASSUME Init PROVE SessionsInv
  OBVIOUS
<1>1. TypeOK
  <2>1. DOMAIN doc = Document /\ DOMAIN view = Proc
    BY DEF Init
  <2>2. /\ lock \in [Document -> Proc \union {None}] /\ at \in [Proc -> Document]
        /\ unread \in [Proc -> SUBSET Document]
    BY DEF Init
  <2>3. pc \in [Proc -> {"off", "start", "next", "reclaim", "load", "save", "unlock", "abort",
                         "done", "failed", "dead"}]
    BY DEF Init
  <2>4. old \in [Document -> BOOLEAN] /\ admitted \in [Turn -> BOOLEAN] /\ stolen \in BOOLEAN
    BY DEF Init
  <2>5. slow \in 0..MaxSlow /\ crashes \in 0..MaxCrash
    BY DEF Init
  <2> QED
    BY <2>1, <2>2, <2>3, <2>4, <2>5 DEF TypeOK
<1>2. LockInv
  BY DEF Init, LockInv, Inside, Reading
<1> QED
  BY <1>1, <1>2 DEF SessionsInv

LEMMA TypesSplit == TypeOK <=> Places /\ Rest
BY DEF TypeOK, Places, Rest, PC

LEMMA AsideKeeps == SessionsInv /\ Aside => Places' /\ LockInv'
BY TypesSplit DEF SessionsInv, Places, LockInv, Aside, Inside, Reading, Current

\* Who takes a lock finds none, so that nobody is inside its document.
LEMMA TakeLockKeeps ==
  ASSUME SessionsInv, NEW p \in Proc, TakeLock(p) PROVE Places' /\ LockInv'
<1> USE DEF SessionsInv
<1>1. PICK d \in Document :
        /\ Wants(p, d) /\ lock[d] = None
        /\ lock' = [lock EXCEPT ![d] = p]
        /\ at' = [at EXCEPT ![p] = d]
        /\ view' = [view EXCEPT ![p] = Empty]
        /\ \E D \in SUBSET Document : unread' = [unread EXCEPT ![p] = D] /\ d \in D
        /\ Goto(p, "load")
        /\ UNCHANGED <<doc, stolen>>
  <2>1. PICK d \in Document :
        /\ Wants(p, d) /\ lock[d] = None
        /\ lock' = [lock EXCEPT ![d] = p]
        /\ at' = [at EXCEPT ![p] = d]
        /\ view' = [view EXCEPT ![p] = Empty]
        /\ \E D \in Reads(Head1(p)) : unread' = [unread EXCEPT ![p] = D]
        /\ Goto(p, "load")
        /\ UNCHANGED <<doc, stolen>>
    BY DEF TakeLock, history
  <2>2. \A D \in Reads(Head1(p)) : D \in SUBSET Document /\ d \in D
    BY <2>1 DEF Reads, Wants
  <2> QED
    BY <2>1, <2>2
<1>2. Places'
  BY <1>1, TypesSplit DEF Places, Goto, PC
<1>3. ASSUME ~stolen', NEW q \in Proc, pc'[q] \in Inside PROVE lock'[at'[q]] = q
  BY <1>1, <1>3, TypesSplit DEF Places, LockInv, Goto, Inside
<1>4. ASSUME ~stolen', NEW q \in Proc, pc'[q] \in Reading, at'[q] \notin unread'[q] PROVE Current(q)'
  <2>1. q # p
    BY <1>1, <1>4, TypesSplit DEF Places
  <2>2. /\ pc[q] \in Reading /\ at'[q] = at[q] /\ unread'[q] = unread[q] /\ view'[q] = view[q]
        /\ ~stolen /\ doc' = doc
    BY <1>1, <1>4, <2>1, TypesSplit DEF Places, Goto
  <2> QED
    BY <1>4, <2>2 DEF LockInv, Current
<1> QED
  BY <1>2, <1>3, <1>4 DEF LockInv

\* A lock that is removed as stale is of nobody who is inside, or it is stolen.
LEMMA ReclaimKeeps ==
  ASSUME SessionsInv, NEW p \in Proc, Reclaim(p) PROVE Places' /\ LockInv'
<1> USE DEF SessionsInv
<1>1. Places'
  BY TypesSplit DEF Places, Reclaim, Goto, PC
<1>2. ASSUME ~stolen' PROVE ~stolen /\ \A q \in Proc : ~(lock[at[p]] = q /\ Holds(q, at[p]))
  BY <1>2, TypesSplit DEF Reclaim, Rest
<1>3. ASSUME ~stolen', NEW q \in Proc, pc'[q] \in Inside
      PROVE  /\ lock'[at'[q]] = q
             /\ pc'[q] \in Reading /\ at'[q] \notin unread'[q] => Current(q)'
  <2>1. q # p /\ pc[q] \in Inside /\ pc[q] = pc'[q]
    BY <1>3, TypesSplit DEF Places, Reclaim, Goto, Inside
  <2>2. at[q] # at[p]
    BY <1>2, <1>3, <2>1 DEF LockInv, Holds, Inside
  <2> QED
    BY <1>2, <1>3, <2>1, <2>2, TypesSplit DEF Places, Reclaim, LockInv, Current
<1> QED
  BY <1>1, <1>3 DEF LockInv, Inside, Reading

\* What is read of a document is what is there; what is read of the others adds
\* none of its own.
LEMMA LoadIs ==
  ASSUME SessionsInv, DocInv, NEW p \in Proc, Load(p)
  PROVE  \E d \in unread[p] :
           /\ d \in Document /\ d # at[p] => at[p] = General
           /\ unread' = [unread EXCEPT ![p] = @ \ {d}]
           /\ view' = [view EXCEPT ![p] = Joined(@, Loaded(doc[d]))]
           /\ pc' = [pc EXCEPT ![p] = IF unread[p] = {d} THEN "save" ELSE "load"]
           /\ WellFormed(view'[p], at[p])
           /\ Ids(view'[p]) = Ids(view[p]) \union Ids(doc[d])
           /\ d = at[p] => Own(view'[p], at[p]) = Own(Loaded(doc[d]), at[p])
           /\ d # at[p] => /\ Own(view'[p], at[p]) = Own(view[p], at[p])
                           /\ OwnAt(view[p], at[p]) = {} => OwnAt(view'[p], at[p]) = {}
           /\ view'[p].rows = view[p].rows \union doc[d].rows
<1> USE TypesSplit DEF SessionsInv
<1>1. pc[p] = "load" /\ pc[p] \in Reading
  BY DEF Load, Reading
<1>2. PICK d \in unread[p] :
        /\ unread' = [unread EXCEPT ![p] = @ \ {d}]
        /\ view' = [view EXCEPT ![p] = Joined(@, Loaded(doc[d]))]
        /\ IF unread[p] = {d} THEN Goto(p, "save") ELSE UNCHANGED pc
  BY DEF Load
<1>3. d \in Document /\ (d # at[p] => at[p] = General)
  BY <1>1, <1>2 DEF Places, DocInv
<1>4. WellFormed(view[p], at[p]) /\ (at[p] \in unread[p] => OwnAt(view[p], at[p]) = {})
  BY <1>1 DEF DocInv
<1>5. /\ WellFormed(doc[d], d) /\ WellFormed(Loaded(doc[d]), d)
      /\ Ids(Loaded(doc[d])) = Ids(doc[d])
  BY <1>3, LoadedRevises, RevisesKeeps DEF DocInv
<1>6. Loaded(doc[d]).rows = doc[d].rows
  BY <1>5, Form DEF Loaded
<1>7. view'[p] = Joined(view[p], Loaded(doc[d]))
  BY <1>2 DEF Places
<1>8. /\ WellFormed(view'[p], at[p])
      /\ Ids(view'[p]) = Ids(view[p]) \union Ids(doc[d])
      /\ d = at[p] => Own(view'[p], at[p]) = Own(Loaded(doc[d]), at[p])
      /\ d # at[p] => /\ Own(view'[p], at[p]) = Own(view[p], at[p])
                      /\ OwnAt(view[p], at[p]) = {} => OwnAt(view'[p], at[p]) = {}
  <2> DEFINE w == Loaded(doc[d])
             v == view[p]
             D == at[p]
  <2>1. WellFormed(v, D) /\ WellFormed(w, d) /\ (d = D => OwnAt(v, D) = {}) /\ (d # D => D = General)
    BY <1>2, <1>3, <1>4, <1>5
  <2> HIDE DEF w, v, D
  <2>2. /\ WellFormed(Joined(v, w), D)
        /\ Ids(Joined(v, w)) = Ids(v) \union Ids(w)
        /\ d = D => Own(Joined(v, w), D) = Own(w, D)
        /\ d # D => /\ Own(Joined(v, w), D) = Own(v, D)
                    /\ OwnAt(v, D) = {} => OwnAt(Joined(v, w), D) = {}
    BY <2>1, JoinedKeeps
  <2> QED
    BY <1>5, <1>7, <2>2 DEF w, v, D
<1>9. view'[p].rows = view[p].rows \union doc[d].rows
  BY <1>6, <1>7 DEF Joined
<1>10. pc' = [pc EXCEPT ![p] = IF unread[p] = {d} THEN "save" ELSE "load"]
  BY <1>1, <1>2 DEF Goto, Places
<1> QED
  BY <1>2, <1>3, <1>8, <1>9, <1>10

LEMMA LoadKeeps ==
  ASSUME SessionsInv, DocInv, NEW p \in Proc, Load(p) PROVE Places' /\ LockInv'
<1> USE TypesSplit DEF SessionsInv
<1>0. UNCHANGED <<doc, lock, at, stolen>> /\ pc[p] = "load"
  BY DEF Load, files, history
<1>1. PICK d \in unread[p] :
        /\ unread' = [unread EXCEPT ![p] = @ \ {d}]
        /\ \E v : view' = [view EXCEPT ![p] = v]
        /\ pc' = [pc EXCEPT ![p] = IF unread[p] = {d} THEN "save" ELSE "load"]
        /\ d = at[p] => Own(view'[p], at[p]) = Own(Loaded(doc[d]), at[p])
        /\ d # at[p] => Own(view'[p], at[p]) = Own(view[p], at[p])
        /\ view'[p].rows = view[p].rows \union doc[d].rows
  BY LoadIs
<1>2. Places'
  BY <1>0, <1>1 DEF Places, PC
<1>3. ASSUME ~stolen', NEW q \in Proc, pc'[q] \in Inside PROVE lock'[at'[q]] = q
  BY <1>0, <1>1, <1>3 DEF Places, LockInv, Inside
<1>4. ASSUME ~stolen', NEW q \in Proc, pc'[q] \in Reading, at'[q] \notin unread'[q] PROVE Current(q)'
  <2>1. CASE q = p
    <3>1. d = at[p] \/ Current(p)
      BY <1>0, <1>1, <1>4, <2>1 DEF Places, LockInv, Reading
    <3> QED
      BY <1>0, <1>1, <2>1, <3>1 DEF Current
  <2>2. CASE q # p
    <3>1. Current(q) /\ view'[q] = view[q]
      BY <1>0, <1>1, <1>4, <2>2 DEF Places, LockInv
    <3> QED
      BY <1>0, <3>1 DEF Current
  <2> QED
    BY <2>1, <2>2
<1> QED
  BY <1>2, <1>3, <1>4 DEF LockInv

\* Who saves is the only one who has read its document.
LEMMA SaveKeeps ==
  ASSUME SessionsInv, NEW p \in Proc, Save(p) PROVE Places' /\ LockInv'
<1> USE TypesSplit DEF SessionsInv
<1>0. /\ pc[p] = "save" /\ pc' = [pc EXCEPT ![p] = "unlock"]
      /\ \E d : doc' = [doc EXCEPT ![at[p]] = d]
      /\ UNCHANGED <<lock, at, view, unread, stolen>>
  BY DEF Save, Goto
<1>1. Places'
  BY <1>0 DEF Places, PC
<1>2. ASSUME ~stolen', NEW q \in Proc, pc'[q] \in Inside
      PROVE  /\ lock'[at'[q]] = q
             /\ pc'[q] \in Reading /\ at'[q] \notin unread'[q] => Current(q)'
  <2>1. CASE q = p
    BY <1>0, <1>2, <2>1 DEF Places, LockInv, Inside, Reading
  <2>2. CASE q # p
    <3>1. pc[q] = pc'[q] /\ at[q] # at[p] /\ doc'[at[q]] = doc[at[q]]
      BY <1>0, <1>2, <2>2 DEF Places, LockInv, Inside
    <3> QED
      BY <1>0, <1>2, <3>1 DEF Places, LockInv, Current
  <2> QED
    BY <2>1, <2>2
<1> QED
  BY <1>1, <1>2 DEF LockInv, Inside, Reading

LEMMA SaveRefusedKeeps ==
  ASSUME SessionsInv, NEW p \in Proc, SaveRefused(p) PROVE Places' /\ LockInv'
<1> USE TypesSplit DEF SessionsInv, SaveRefused, Goto
<1>1. Places'
  BY DEF Places, PC, files
<1>2. ASSUME ~stolen', NEW q \in Proc, pc'[q] \in Inside
      PROVE  /\ lock'[at'[q]] = q
             /\ pc'[q] \in Reading /\ at'[q] \notin unread'[q] => Current(q)'
  BY <1>2 DEF Places, LockInv, Inside, Reading, Current, files, history
<1> QED
  BY <1>1, <1>2 DEF LockInv, Inside, Reading

\* Who unlocks removes its own lock file.
LEMMA UnlockKeeps ==
  ASSUME SessionsInv, NEW p \in Proc, Unlock(p) PROVE Places' /\ LockInv'
<1> USE TypesSplit DEF SessionsInv
<1>0. /\ pc[p] \in {"unlock", "abort"}
      /\ \E l \in {"next", "failed"} : pc' = [pc EXCEPT ![p] = l]
      /\ lock' = [lock EXCEPT ![at[p]] = None]
      /\ at' = [at EXCEPT ![p] = General]
      /\ view' = [view EXCEPT ![p] = Empty]
      /\ UNCHANGED <<doc, unread, stolen>>
  BY DEF Unlock, Goto, Fails, history
<1>1. Places'
  BY <1>0 DEF Places, PC
<1>2. ASSUME ~stolen', NEW q \in Proc, pc'[q] \in Inside
      PROVE  /\ lock'[at'[q]] = q
             /\ pc'[q] \in Reading /\ at'[q] \notin unread'[q] => Current(q)'
  <2>1. q # p /\ pc[q] = pc'[q] /\ at'[q] = at[q] /\ view'[q] = view[q]
    BY <1>0, <1>2 DEF Places, Inside
  <2>2. at[q] # at[p]
    BY <1>0, <1>2, <2>1 DEF LockInv, Inside
  <2> QED
    BY <1>0, <1>2, <2>1, <2>2 DEF Places, LockInv, Current
<1> QED
  BY <1>1, <1>2 DEF LockInv, Inside, Reading

\* The dead are not inside, whatever they leave behind.
LEMMA DieKeeps ==
  ASSUME SessionsInv, NEW dead, Die(dead) PROVE Places' /\ LockInv'
<1> USE TypesSplit DEF SessionsInv, Die
<1>1. Places'
  BY DEF Places, PC, files
<1>2. ASSUME ~stolen', NEW q \in Proc, pc'[q] \in Inside
      PROVE  /\ lock'[at'[q]] = q
             /\ pc'[q] \in Reading /\ at'[q] \notin unread'[q] => Current(q)'
  <2>1. q \notin dead /\ pc'[q] = pc[q]
    BY <1>2 DEF Places, Inside, Ended
  <2>2. /\ at'[q] = at[q] /\ unread'[q] = unread[q] /\ view'[q] = view[q]
        /\ UNCHANGED <<doc, lock, stolen>>
    BY <2>1 DEF files, history
  <2> QED
    BY <1>2, <2>1, <2>2 DEF LockInv, Current
<1> QED
  BY <1>1, <1>2 DEF LockInv, Inside, Reading

LEMMA FindStaleKeeps ==
  ASSUME SessionsInv, NEW p \in Proc, FindStale(p) PROVE Places' /\ LockInv'
<1> USE TypesSplit DEF SessionsInv
<1>0. /\ pc[p] = "next" /\ pc' = [pc EXCEPT ![p] = "reclaim"]
      /\ \E d \in Document : at' = [at EXCEPT ![p] = d]
      /\ UNCHANGED <<doc, lock, view, unread, stolen>>
  BY DEF FindStale, Wants, Goto, files, history
<1>1. Places'
  BY <1>0 DEF Places, PC
<1>2. ASSUME ~stolen', NEW q \in Proc, pc'[q] \in Inside
      PROVE  /\ lock'[at'[q]] = q
             /\ pc'[q] \in Reading /\ at'[q] \notin unread'[q] => Current(q)'
  <2>1. q # p /\ pc[q] = pc'[q] /\ at'[q] = at[q]
    BY <1>0, <1>2 DEF Places, Inside
  <2> QED
    BY <1>0, <1>2, <2>1 DEF LockInv, Current
<1> QED
  BY <1>1, <1>2 DEF LockInv, Inside, Reading

\* A request begins with no more than its list of items.
LEMMA BeginIsAside ==
  ASSUME SessionsInv, NEW c \in Proc, NEW id, NEW items, Begin(c, id, items) PROVE Aside
BY TypesSplit DEF SessionsInv, Places, Begin, Goto, Aside, PC, Inside, files, history

LEMMA AsksIsAside ==
  ASSUME SessionsInv, NEW c \in Caller, Asks(c) PROVE Aside
<1>0. c \in Proc
  BY DEF Proc
<1>1. CASE CreateSession(c)
  BY <1>0, <1>1, BeginIsAside, Zenon DEF CreateSession
<1>2. CASE AttachSession(c)
  BY <1>0, <1>2, BeginIsAside, Zenon DEF AttachSession
<1>3. CASE StartTurnFinds(c)
  BY <1>0, <1>3, BeginIsAside, Zenon DEF StartTurnFinds
<1>4. CASE StartTurnCreates(c)
  BY <1>0, <1>4, BeginIsAside, Zenon DEF StartTurnCreates
<1>5. CASE UpdateSession(c)
  BY <1>0, <1>5, BeginIsAside, Zenon DEF UpdateSession
<1>6. CASE SetActiveTaskId(c)
  BY <1>0, <1>6, BeginIsAside, Zenon DEF SetActiveTaskId
<1>7. CASE DeleteSession(c)
  BY <1>0, <1>7, BeginIsAside, Zenon DEF DeleteSession
<1> QED
  BY <1>1, <1>2, <1>3, <1>4, <1>5, <1>6, <1>7 DEF Asks

LEMMA CommandIsAside ==
  ASSUME SessionsInv, NEW k \in Command, CommandBinds(k) PROVE Aside
<1>0. k \in Proc
  BY DEF Proc
<1> QED
  BY <1>0, BeginIsAside, Zenon DEF CommandBinds

LEMMA GoesIsAside ==
  ASSUME SessionsInv, NEW c \in Caller, Goes(c) PROVE Aside
<1> USE TypesSplit DEF SessionsInv, Places, Goto, Fails, Aside, PC, Inside, files, history
<1>0. c \in Proc /\ turnOf[c] \in Proc
  BY DEF Proc
<1>1. CASE NativeSession(c)
  BY <1>0, <1>1 DEF NativeSession
<1>2. CASE Admit(c)
  BY <1>0, <1>2 DEF Admit
<1>3. CASE RefuseTurn(c)
  BY <1>0, <1>3 DEF RefuseTurn
<1>4. CASE Answer(c)
  BY <1>0, <1>4 DEF Answer
<1> QED
  BY <1>1, <1>2, <1>3, <1>4 DEF Goes

LEMMA OthersAreAside ==
  ASSUME SessionsInv
  PROVE  /\ \A p \in Proc : Locate(p) \/ LockTimesOut(p) => Aside
         /\ \A t \in Turn : TurnEnds(t) => Aside
         /\ \A d \in Document : GrowsOld(d) => Aside
         /\ UNCHANGED vars => Aside
<1> USE TypesSplit DEF SessionsInv, Places, Goto, Fails, Aside, PC, Inside, files, history
<1>1. ASSUME NEW p \in Proc, Locate(p) PROVE Aside
  BY <1>1 DEF Locate
<1>2. ASSUME NEW p \in Proc, LockTimesOut(p) PROVE Aside
  BY <1>2 DEF LockTimesOut
<1>3. ASSUME NEW t \in Turn, TurnEnds(t) PROVE Aside
  BY <1>3 DEF TurnEnds, Proc
<1>4. ASSUME NEW d \in Document, GrowsOld(d) PROVE Aside
  BY <1>4 DEF GrowsOld
<1>5. ASSUME UNCHANGED vars PROVE Aside
  BY <1>5 DEF vars
<1> QED
  BY <1>1, <1>2, <1>3, <1>4, <1>5

LEMMA LockNext == SessionsInv /\ DocInv /\ [Next]_vars => Places' /\ LockInv'
<1> SUFFICES ASSUME SessionsInv, DocInv, [Next]_vars PROVE Places' /\ LockInv'
  OBVIOUS
<1>1. ASSUME NEW p \in Proc, Locked(p) \/ Waits(p) PROVE Places' /\ LockInv'
  BY <1>1, TakeLockKeeps, LoadKeeps, SaveKeeps, SaveRefusedKeeps, UnlockKeeps,
     FindStaleKeeps, ReclaimKeeps, OthersAreAside, AsideKeeps DEF Locked, Waits
<1>2. ASSUME NEW c \in Caller, Asks(c) \/ Goes(c) PROVE Places' /\ LockInv'
  BY <1>2, AsksIsAside, GoesIsAside, AsideKeeps
<1>3. ASSUME NEW k \in Command, CommandBinds(k) PROVE Places' /\ LockInv'
  BY <1>3, CommandIsAside, AsideKeeps
<1>4. CASE DashboardDies \/ CommandDies
  BY <1>4, DieKeeps DEF DashboardDies, CommandDies
<1> QED
  BY <1>1, <1>2, <1>3, <1>4, OthersAreAside, AsideKeeps DEF Next

LEMMA RestKept == TypeOK /\ UNCHANGED <<old, admitted, stolen, slow, crashes>> => Rest'
BY TypesSplit DEF Rest

LEMMA RestNext == TypeOK /\ [Next]_vars => Rest'
<1> SUFFICES ASSUME TypeOK, [Next]_vars PROVE Rest'
  OBVIOUS
<1> USE DEF files, history
<1>1. ASSUME NEW p \in Proc, TakeLock(p) PROVE Rest'
  BY <1>1, TypesSplit DEF TakeLock, Rest
<1>2. ASSUME NEW p \in Proc, Reclaim(p) PROVE Rest'
  BY <1>2, TypesSplit DEF Reclaim, Rest
<1>3. ASSUME NEW p \in Proc, LockTimesOut(p) \/ Unlock(p) PROVE Rest'
  BY <1>3, TypesSplit DEF LockTimesOut, Unlock, Rest
<1>4. ASSUME NEW p \in Proc, Locate(p) \/ Load(p) \/ Save(p) \/ SaveRefused(p) \/ FindStale(p)
      PROVE  Rest'
  BY <1>4, RestKept DEF Locate, Load, Save, SaveRefused, FindStale
<1>5. ASSUME NEW c \in Caller, Asks(c) PROVE Rest'
  <2>1. ASSUME NEW id, NEW items, Begin(c, id, items) PROVE Rest'
    BY <2>1, RestKept DEF Begin
  <2> QED
    BY <1>5, <2>1, Zenon DEF Asks, CreateSession, AttachSession, StartTurnFinds, StartTurnCreates,
                      UpdateSession, SetActiveTaskId, DeleteSession
<1>6. ASSUME NEW k \in Command, CommandBinds(k) PROVE Rest'
  <2>1. ASSUME NEW id, NEW items, Begin(k, id, items) PROVE Rest'
    BY <2>1, RestKept DEF Begin
  <2> QED
    BY <1>6, <2>1, Zenon DEF CommandBinds
<1>7. ASSUME NEW c \in Caller, Admit(c) PROVE Rest'
  BY <1>7, TypesSplit DEF Admit, Rest
<1>8. ASSUME NEW c \in Caller, NativeSession(c) \/ RefuseTurn(c) \/ Answer(c) PROVE Rest'
  BY <1>8, RestKept DEF NativeSession, RefuseTurn, Answer
<1>9. ASSUME NEW t \in Turn, TurnEnds(t) PROVE Rest'
  BY <1>9, TypesSplit DEF TurnEnds, Rest
<1>10. ASSUME NEW d \in Document, GrowsOld(d) PROVE Rest'
  <2>1. slow' \in 0..MaxSlow
    BY <1>10, TypesSplit DEF GrowsOld, Rest
  <2> QED
    BY <1>10, <2>1, TypesSplit DEF GrowsOld, Rest
<1>11. ASSUME NEW dead, Die(dead) PROVE Rest'
  <2>1. crashes' \in 0..MaxCrash
    BY <1>11, TypesSplit DEF Die, Rest
  <2> QED
    BY <1>11, <2>1, TypesSplit DEF Die, Rest
<1>12. CASE DashboardDies \/ CommandDies
  BY <1>11, <1>12 DEF DashboardDies, CommandDies
<1>13. CASE UNCHANGED vars
  BY <1>13, RestKept DEF vars
<1> QED
  BY <1>1, <1>2, <1>3, <1>4, <1>5, <1>6, <1>7, <1>8, <1>9, <1>10, <1>12, <1>13
     DEF Next, Locked, Waits, Goes

-----------------------------------------------------------------------------
(***************************************************************************)
(* The documents.                                                          *)
(***************************************************************************)

\* What all steps do but those that take a lock, load and save.
Untouched ==
  /\ UNCHANGED doc
  /\ DOMAIN todo' = Proc /\ DOMAIN sid' = Proc
  /\ \A q \in Proc : pc'[q] \in {"load", "save"} =>
       /\ pc'[q] = pc[q] /\ todo'[q] = todo[q]
       /\ at'[q] = at[q] /\ view'[q] = view[q] /\ unread'[q] = unread[q]

LEMMA DocInit == Init => DocInv
BY DEF Init, DocInv, Reading

LEMMA UntouchedKeeps == DocInv /\ Untouched => DocInv'
BY DEF DocInv, Untouched, Head1, Reading

LEMMA BeginIsUntouched ==
  ASSUME SessionsInv, DocInv, NEW c \in Proc, NEW id, NEW items, Begin(c, id, items)
  PROVE  Untouched
BY TypesSplit DEF SessionsInv, Places, DocInv, Begin, Goto, Untouched, files

LEMMA AsksBegins ==
  ASSUME NEW c \in Caller, Asks(c) PROVE \E id, items : Begin(c, id, items)
BY Zenon DEF Asks, CreateSession, AttachSession, StartTurnFinds, StartTurnCreates,
             UpdateSession, SetActiveTaskId, DeleteSession

LEMMA CommandBegins ==
  ASSUME NEW k \in Command, CommandBinds(k) PROVE \E id, items : Begin(k, id, items)
BY Zenon DEF CommandBinds

LEMMA GoesIsUntouched ==
  ASSUME SessionsInv, DocInv, NEW c \in Caller, Goes(c) PROVE Untouched
<1> USE TypesSplit DEF SessionsInv, Places, DocInv, Goto, Fails, Untouched, files
<1>0. c \in Proc /\ turnOf[c] \in Proc
  BY DEF Proc
<1>1. CASE NativeSession(c)
  BY <1>0, <1>1 DEF NativeSession
<1>2. CASE Admit(c)
  BY <1>0, <1>2 DEF Admit, Admits
<1>3. CASE RefuseTurn(c)
  BY <1>0, <1>3 DEF RefuseTurn, Admits
<1>4. CASE Answer(c)
  BY <1>0, <1>4 DEF Answer
<1> QED
  BY <1>1, <1>2, <1>3, <1>4 DEF Goes

LEMMA ProcessIsUntouched ==
  ASSUME SessionsInv, DocInv, NEW p \in Proc,
         Locate(p) \/ SaveRefused(p) \/ Unlock(p) \/ Waits(p)
  PROVE  Untouched
<1> USE TypesSplit DEF SessionsInv, Places, DocInv, Goto, Fails, Untouched, files
<1>1. CASE Locate(p)
  <2>1. \E items : todo' = [todo EXCEPT ![p] = items]
    BY <1>1 DEF Locate
  <2> QED
    BY <1>1, <2>1 DEF Locate
<1>2. CASE SaveRefused(p)
  BY <1>2 DEF SaveRefused
<1>3. CASE Unlock(p)
  BY <1>3 DEF Unlock
<1>4. CASE FindStale(p)
  BY <1>4 DEF FindStale, Wants
<1>5. CASE Reclaim(p)
  BY <1>5 DEF Reclaim
<1>6. CASE LockTimesOut(p)
  BY <1>6 DEF LockTimesOut, Wants
<1> QED
  BY <1>1, <1>2, <1>3, <1>4, <1>5, <1>6 DEF Waits

LEMMA OthersAreUntouched ==
  ASSUME SessionsInv, DocInv
  PROVE  /\ \A t \in Turn : TurnEnds(t) => Untouched
         /\ \A d \in Document : GrowsOld(d) => Untouched
         /\ DashboardDies \/ CommandDies => Untouched
         /\ UNCHANGED vars => Untouched
<1> USE TypesSplit DEF SessionsInv, Places, DocInv, Goto, Untouched, files
<1>1. ASSUME NEW t \in Turn, TurnEnds(t) PROVE Untouched
  BY <1>1 DEF TurnEnds, Proc
<1>2. ASSUME NEW d \in Document, GrowsOld(d) PROVE Untouched
  BY <1>2 DEF GrowsOld
<1>3. ASSUME NEW dead, Die(dead) PROVE Untouched
  <2>1. \A q \in Proc : pc'[q] \in {"load", "save"} => q \notin dead
    BY <1>3 DEF Die, Ended
  <2> QED
    BY <1>3, <2>1 DEF Die
<1>4. ASSUME UNCHANGED vars PROVE Untouched
  BY <1>4 DEF vars
<1> QED
  BY <1>1, <1>2, <1>3, <1>4 DEF DashboardDies, CommandDies

LEMMA TakeLockKeepsDocs ==
  ASSUME SessionsInv, DocInv, NEW p \in Proc, TakeLock(p) PROVE DocInv'
<1> USE TypesSplit DEF SessionsInv, Places
<1>1. PICK d \in Document :
        /\ UNCHANGED <<doc, todo, sid>> /\ pc' = [pc EXCEPT ![p] = "load"]
        /\ at' = [at EXCEPT ![p] = d] /\ view' = [view EXCEPT ![p] = Empty]
        /\ \E D \in Reads(Head1(p)) : unread' = [unread EXCEPT ![p] = D]
        /\ todo[p] # << >> /\ Head1(p).fn \in Changes /\ Head1(p).spec = d
  BY DEF TakeLock, Wants, Goto
<1>2. /\ at'[p] = d /\ view'[p] = Empty /\ pc'[p] = "load"
      /\ d # General => unread'[p] = {d}
  BY <1>1 DEF Reads
<1>3. /\ WellFormed(view'[p], at'[p])
      /\ OwnAt(view'[p], at'[p]) = {}
      /\ at'[p] # General => unread'[p] \subseteq {at'[p]}
      /\ pc'[p] # "save"
      /\ todo'[p] # << >> /\ Head1(p)'.fn \in Changes /\ Head1(p)'.spec = at'[p]
  BY <1>1, <1>2, EmptyForm DEF Head1
<1>4. \A q \in Proc \ {p} : /\ pc'[q] = pc[q] /\ at'[q] = at[q] /\ view'[q] = view[q]
                            /\ unread'[q] = unread[q] /\ Head1(q)' = Head1(q)
  BY <1>1 DEF Head1
<1> QED
  BY <1>1, <1>3, <1>4 DEF DocInv

LEMMA LoadKeepsDocs ==
  ASSUME SessionsInv, DocInv, NEW p \in Proc, Load(p) PROVE DocInv'
<1> USE TypesSplit DEF SessionsInv, Places
<1>1. UNCHANGED <<doc, todo, sid, at>> /\ pc[p] = "load" /\ pc[p] \in Reading
  BY DEF Load, files, Reading
<1>2. PICK d \in unread[p] :
        /\ unread' = [unread EXCEPT ![p] = @ \ {d}]
        /\ \E v : view' = [view EXCEPT ![p] = v]
        /\ pc' = [pc EXCEPT ![p] = IF unread[p] = {d} THEN "save" ELSE "load"]
        /\ WellFormed(view'[p], at[p])
        /\ d # at[p] => (OwnAt(view[p], at[p]) = {} => OwnAt(view'[p], at[p]) = {})
  BY LoadIs
<1>3. /\ at[p] \in unread'[p] => OwnAt(view'[p], at[p]) = {}
      /\ at[p] # General => unread'[p] \subseteq {at[p]}
      /\ pc'[p] = "save" => unread'[p] = {}
      /\ todo[p] # << >> /\ Head1(p).fn \in Changes /\ Head1(p).spec = at[p]
  BY <1>1, <1>2 DEF DocInv
<1>4. \A q \in Proc \ {p} : /\ pc'[q] = pc[q] /\ view'[q] = view[q] /\ unread'[q] = unread[q]
  BY <1>2
<1>5. \A q \in Proc : Head1(q)' = Head1(q)
  BY <1>1 DEF Head1
<1> QED
  BY <1>1, <1>2, <1>3, <1>4, <1>5 DEF DocInv

LEMMA SaveIs ==
  ASSUME SessionsInv, DocInv, NEW p \in Proc, Save(p)
  PROVE  /\ at[p] \in Document
         /\ doc' = [doc EXCEPT ![at[p]] = Applied(view[p], Head1(p))]
         /\ WellFormed(view[p], at[p]) /\ Head1(p).spec = at[p]
         /\ Head1(p).fn \in Changes /\ ~Refused(view[p], Head1(p))
         /\ WellFormed(Applied(view[p], Head1(p)), at[p])
         /\ pc[p] = "save" /\ at[p] \notin unread[p]
<1>1. /\ pc[p] = "save" /\ ~Refused(view[p], Head1(p))
      /\ doc' = [doc EXCEPT ![at[p]] = Applied(view[p], Head1(p))]
  BY DEF Save
<1>2. /\ at[p] \in Document /\ WellFormed(view[p], at[p]) /\ unread[p] = {}
      /\ Head1(p).fn \in Changes /\ Head1(p).spec = at[p]
  BY <1>1, TypesSplit DEF SessionsInv, Places, DocInv, Reading
<1> QED
  BY <1>1, <1>2, AppliedKeeps

LEMMA SaveKeepsDocs ==
  ASSUME SessionsInv, DocInv, NEW p \in Proc, Save(p) PROVE DocInv'
<1>1. /\ UNCHANGED <<sid, at, view, unread>> /\ pc' = [pc EXCEPT ![p] = "unlock"]
      /\ todo' = [todo EXCEPT ![p] = Tail(@)]
  BY DEF Save, Goto
<1>2. \A d \in Document : WellFormed(doc'[d], d)
  BY SaveIs, TypesSplit DEF SessionsInv, Places, DocInv
<1>3. \A q \in Proc : pc'[q] \in Reading =>
        q # p /\ pc[q] = pc'[q] /\ todo'[q] = todo[q] /\ Head1(q)' = Head1(q)
  BY <1>1, TypesSplit DEF SessionsInv, Places, DocInv, Head1, Reading
<1> QED
  BY <1>1, <1>2, <1>3 DEF DocInv

\* What changes the documents is a save; all other steps leave them untouched.
LEMMA StepsByDocs ==
  ASSUME SessionsInv, DocInv, [Next]_vars
  PROVE  \/ Untouched
         \/ \E p \in Proc : TakeLock(p) \/ Load(p) \/ Save(p)
<1>1. ASSUME NEW p \in Proc, Locate(p) \/ Locked(p) \/ Waits(p)
      PROVE  Untouched \/ TakeLock(p) \/ Load(p) \/ Save(p)
  BY <1>1, ProcessIsUntouched DEF Locked
<1>2. ASSUME NEW c \in Caller, Asks(c) \/ Goes(c) PROVE Untouched
  <2>1. c \in Proc
    BY DEF Proc
  <2> QED
    BY <1>2, <2>1, AsksBegins, BeginIsUntouched, GoesIsUntouched
<1>3. ASSUME NEW k \in Command, CommandBinds(k) PROVE Untouched
  <2>1. k \in Proc
    BY DEF Proc
  <2> QED
    BY <1>3, <2>1, CommandBegins, BeginIsUntouched
<1> QED
  BY <1>1, <1>2, <1>3, OthersAreUntouched DEF Next

LEMMA DocNext == SessionsInv /\ DocInv /\ [Next]_vars => DocInv'
<1> SUFFICES ASSUME SessionsInv, DocInv, [Next]_vars PROVE DocInv'
  OBVIOUS
<1> QED
  BY StepsByDocs, UntouchedKeeps, TakeLockKeepsDocs, LoadKeepsDocs, SaveKeepsDocs

\* What was read of the own sessions is what is on disk: a save keeps what the
\* file says of them.
LEMMA SaveStands ==
  ASSUME SessionsInv, DocInv, NEW p \in Proc, Save(p), ~stolen
  PROVE  LET x == Head1(p)
             d == doc[at[p]]
             e == Applied(view[p], x)
         IN  /\ Standing(d, e, at[p])
             /\ OwnIds(d, at[p]) \subseteq
                  OwnIds(e, at[p]) \union (IF x.fn = "unbind" THEN Gone(view[p], x) ELSE {})
             /\ Ids(e) \subseteq Ids(view[p]) \union OwnIds(e, at[p])
             /\ x.fn = "bind" /\ x.prov = NoId => x.id \in Ids(e)
<1> DEFINE x == Head1(p)
           D == at[p]
           d == doc[D]
           v == view[p]
           l == Loaded(d)
           e == Applied(v, x)
<1>1. WellFormed(d, D) /\ Own(v, D) = Own(l, D)
  BY SaveIs DEF SessionsInv, LockInv, DocInv, Reading, Current
<1>2. Revises(d, l) /\ OwnAt(l, D) = OwnAt(d, D)
  BY <1>1, LoadedRevises, RevisesKeeps
<1>3. /\ Standing(v, e, D)
      /\ OwnIds(v, D) \subseteq OwnIds(e, D) \union (IF x.fn = "unbind" THEN Gone(v, x) ELSE {})
      /\ Ids(e) \subseteq Ids(v) \union OwnIds(e, D)
      /\ x.fn = "bind" /\ x.prov = NoId => x.id \in Ids(e)
  BY SaveIs, AppliedKeeps
<1> HIDE DEF x, d, v, l, e, D
<1>4. ASSUME NEW i \in OwnAt(d, D)
      PROVE  \E k \in OwnAt(v, D) :
               /\ v.sessions[k].id = d.sessions[i].id
               /\ d.sessions[i].prov # NoId => v.sessions[k].prov = d.sessions[i].prov
  <2>1. i \in DOMAIN d.sessions /\ i \in OwnAt(l, D)
    BY <1>2, <1>4 DEF OwnAt
  <2>2. /\ l.sessions[i].id = d.sessions[i].id
        /\ d.sessions[i].prov # NoId => l.sessions[i].prov = d.sessions[i].prov
    BY <1>2, <2>1 DEF Revises
  <2>3. l.sessions[i] \in Own(v, D)
    BY <1>1, <2>1 DEF Own
  <2>4. PICK k \in OwnAt(v, D) : v.sessions[k] = l.sessions[i]
    BY <2>3 DEF Own
  <2> QED
    BY <2>2, <2>4
<1>5. Standing(d, e, D)
  <2> SUFFICES ASSUME NEW i \in OwnAt(d, D), NEW j \in OwnAt(e, D),
                      d.sessions[i].id = e.sessions[j].id, d.sessions[i].prov # NoId
               PROVE  e.sessions[j].prov = d.sessions[i].prov
    BY DEF Standing
  <2>1. PICK k \in OwnAt(v, D) :
          v.sessions[k].id = d.sessions[i].id /\ v.sessions[k].prov = d.sessions[i].prov
    BY <1>4
  <2> QED
    BY <1>3, <2>1 DEF Standing
<1>6. OwnIds(d, D) \subseteq OwnIds(v, D)
  BY <1>4 DEF OwnIds
<1> QED
  BY <1>3, <1>5, <1>6 DEF x, d, v, e, D

LEMMA StoodNext ==
  ASSUME SessionsInv, DocInv, [Next]_vars, ~stolen', NEW d \in Document
  PROVE  Standing(doc[d], doc'[d], d)
<1>1. Standing(doc[d], doc[d], d)
  BY Same, RevisesKeeps DEF DocInv
<1>2. CASE UNCHANGED doc
  BY <1>1, <1>2
<1>3. CASE \E p \in Proc : Save(p)
  <2>1. PICK p \in Proc : Save(p)
    BY <1>3
  <2>2. ~stolen
    BY <2>1 DEF Save
  <2>3. doc'[d] = IF d = at[p] THEN Applied(view[p], Head1(p)) ELSE doc[d]
    BY <2>1, SaveIs, TypesSplit DEF SessionsInv, Places
  <2> QED
    BY <1>1, <2>1, <2>2, <2>3, SaveStands
<1>4. ASSUME NEW p \in Proc, TakeLock(p) \/ Load(p) PROVE UNCHANGED doc
  BY <1>4 DEF TakeLock, Load, files
<1> QED
  BY <1>2, <1>3, <1>4, StepsByDocs DEF Untouched

LEMMA DocInvariant == Spec => [](SessionsInv /\ DocInv)
<1>1. Init => SessionsInv /\ DocInv
  BY SessionsInit, DocInit
<1>2. (TypeOK <=> Places /\ Rest)'
  BY TypesSplit, PTL
<1>3. SessionsInv /\ DocInv /\ [Next]_vars => SessionsInv' /\ DocInv'
  BY LockNext, RestNext, DocNext, <1>2 DEF SessionsInv
<1> QED
  BY <1>1, <1>3, PTL DEF Spec

\* The type invariant of the sessions' files and processes.
THEOREM SessionsTypes == Spec => []TypeOK
BY DocInvariant, PTL DEF SessionsInv

\* Of the sessions of its own document, what a dashboard request or a command is
\* about to save was computed from what is on disk, unless a lock was taken from a
\* running holder: no update of them is lost, for any number of both, whoever
\* dies, and whatever was read of other documents without their locks.
THEOREM EverySaveIsCurrent == Spec => []SavesWhatItRead
<1>1. SessionsInv /\ DocInv => SavesWhatItRead
  <2> SUFFICES ASSUME SessionsInv, DocInv, ~stolen, NEW p \in Proc, pc[p] = "save"
               PROVE  Current(p)
    BY DEF SavesWhatItRead, Current
  <2> QED
    BY DEF SessionsInv, LockInv, DocInv, Reading
<1> QED
  BY <1>1, DocInvariant, PTL

\* The provider's id of a session is never replaced in the document of its
\* specification: not by a turn whose provider allocated another one, nor by a
\* bind that meets the session of another request, nor by a change computed from
\* copies that are out of date.
THEOREM ProviderIdsStand == Spec => ProviderIdStands
<1>1. SessionsInv /\ DocInv /\ [Next]_vars =>
        [~stolen' =>
           \A d \in Document : \A i \in OwnAt(doc[d], d) : \A j \in OwnAt(doc'[d], d) :
             LET s == doc[d].sessions[i]
                 n == doc'[d].sessions[j]
             IN  s.id = n.id /\ s.prov # NoId => n.prov = s.prov]_vars
  BY StoodNext, Zenon DEF Standing
<1> QED
  BY <1>1, DocInvariant, PTL DEF Spec, ProviderIdStands

-----------------------------------------------------------------------------
(***************************************************************************)
(* The sessions that callers were told of.                                 *)
(***************************************************************************)

Known == Recorded \union removed \union folded

\* A list of items.
IsSeq(s) == (\E S : s \in Seq(S)) /\ \A i \in DOMAIN s : "fn" \in DOMAIN s[i]

\* A request answers at its end, if it answers.
Closing(s) == IsSeq(s) /\ \A i \in DOMAIN s : s[i].fn = "answer" => i = Len(s)
Silent(s) == IsSeq(s) /\ \A i \in DOMAIN s : s[i].fn # "answer"
Answers(s) == \E i \in DOMAIN s : s[i].fn = "answer"
Binds(s, id) == \E i \in DOMAIN s : s[i].fn = "bind" /\ s[i].id = id

\* Who is to be told of a session is told of one that is known, or has it still
\* to bind.
Due(c) == Answers(todo[c]) => sid[c] \in Known \/ Binds(todo[c], sid[c])
AnswerInv ==
  /\ \A p \in Proc : Closing(todo[p])
  /\ ~stolen => acked \subseteq Known /\ \A c \in Caller : Due(c)

\* The items of a process go on: some are done, none of them a bind, and others
\* that are no answers may have come before the rest.
GoesOn(p) ==
  /\ Closing(todo'[p])
  /\ p \in Caller => /\ sid'[p] = sid[p]
                     /\ Answers(todo'[p]) => Answers(todo[p])
                     /\ Binds(todo[p], sid[p]) => Binds(todo'[p], sid[p])
Ceases(p) == Closing(todo'[p]) /\ ~Answers(todo'[p])

LEMMA EmptyCeases == Closing(<< >>) /\ ~Answers(<< >>) /\ Silent(<< >>)
<1>1. << >> \in Seq({}) /\ DOMAIN << >> = {}
  OBVIOUS
<1> QED
  BY <1>1 DEF Closing, Silent, IsSeq, Answers

LEMMA TailCloses ==
  ASSUME NEW s, Closing(s), s # << >>
  PROVE  /\ Closing(Tail(s))
         /\ Answers(Tail(s)) => Answers(s)
         /\ Head(s).fn = "answer" => ~Answers(Tail(s)) /\ \A id : ~Binds(s, id)
         /\ \A id : Binds(s, id) /\ ~(Head(s).fn = "bind" /\ Head(s).id = id) => Binds(Tail(s), id)
<1>1. PICK S : s \in Seq(S)
  BY DEF Closing, IsSeq
<1> DEFINE n == Len(s)
           t == Tail(s)
<1>2. /\ n \in Nat /\ n > 0 /\ DOMAIN s = 1..n /\ Head(s) = s[1]
      /\ t \in Seq(S) /\ Len(t) = n - 1 /\ DOMAIN t = 1..(n - 1)
      /\ \A i \in 1..(n - 1) : t[i] = s[i + 1]
  BY <1>1
<1>3. \A i \in 1..n : s[i].fn = "answer" => i = n
  BY <1>2 DEF Closing
<1> HIDE DEF n, t
<1>a. \A i \in 1..n : "fn" \in DOMAIN s[i]
  BY <1>2 DEF Closing, IsSeq
<1>4. Closing(t)
  BY <1>2, <1>3, <1>a DEF Closing, IsSeq
<1>5. Answers(t) => Answers(s)
  <2> SUFFICES ASSUME NEW i \in DOMAIN t, t[i].fn = "answer" PROVE Answers(s)
    BY DEF Answers
  <2>1. i + 1 \in DOMAIN s /\ s[i + 1].fn = "answer"
    BY <1>2
  <2> QED
    BY <2>1 DEF Answers
<1>6. s[1].fn = "answer" => n = 1
  BY <1>2, <1>3
<1>7. \A id : Binds(s, id) /\ ~(s[1].fn = "bind" /\ s[1].id = id) => Binds(t, id)
  <2> SUFFICES ASSUME NEW id, NEW i \in DOMAIN s, s[i].fn = "bind", s[i].id = id, i # 1
               PROVE  Binds(t, id)
    BY DEF Binds
  <2>1. i - 1 \in DOMAIN t /\ t[i - 1] = s[i]
    BY <1>2
  <2> QED
    BY <2>1 DEF Binds
<1>8. n = 1 => ~Answers(t) /\ (s[1].fn = "answer" => \A id : ~Binds(s, id))
  BY <1>2 DEF Answers, Binds
<1> QED
  BY <1>2, <1>4, <1>5, <1>6, <1>7, <1>8 DEF t

\* Items put before others.
LEMMA CatItems ==
  ASSUME NEW s, NEW t, Silent(s), IsSeq(t)
  PROVE  /\ Silent(t) => Silent(s \o t)
         /\ Closing(t) => Closing(s \o t)
         /\ Answers(s \o t) => Answers(t)
         /\ \A id : Binds(s, id) \/ Binds(t, id) => Binds(s \o t, id)
<1>1. PICK S : s \in Seq(S)
  BY DEF Silent, IsSeq
<1>2. PICK T : t \in Seq(T)
  BY DEF IsSeq
<1> DEFINE m == Len(s)
           n == Len(t)
           r == s \o t
<1>3. s \in Seq(S \union T) /\ t \in Seq(S \union T)
  BY <1>1, <1>2
<1>4. /\ m \in Nat /\ n \in Nat /\ DOMAIN s = 1..m /\ DOMAIN t = 1..n
      /\ r \in Seq(S \union T) /\ Len(r) = m + n /\ DOMAIN r = 1..(m + n)
      /\ \A i \in 1..m : r[i] = s[i]
      /\ \A i \in 1..n : r[m + i] = t[i]
  BY <1>3
<1> HIDE DEF m, n, r
<1>5. \A i \in DOMAIN r : r[i].fn = "answer" => i - m \in DOMAIN t /\ r[i] = t[i - m]
  <2> SUFFICES ASSUME NEW i \in 1..(m + n), r[i].fn = "answer"
               PROVE  i - m \in DOMAIN t /\ r[i] = t[i - m]
    BY <1>4
  <2>1. ~(i \in 1..m)
    BY <1>4 DEF Silent
  <2>2. i - m \in 1..n /\ m + (i - m) = i
    BY <1>4, <2>1
  <2> QED
    BY <1>4, <2>2
<1>6. IsSeq(r)
  <2> SUFFICES ASSUME NEW i \in 1..(m + n) PROVE "fn" \in DOMAIN r[i]
    BY <1>4 DEF IsSeq
  <2>1. CASE i \in 1..m
    BY <1>4, <2>1 DEF Silent, IsSeq
  <2>2. CASE ~(i \in 1..m)
    <3>1. i - m \in 1..n /\ m + (i - m) = i
      BY <1>4, <2>2
    <3> QED
      BY <1>4, <3>1 DEF IsSeq
  <2> QED
    BY <2>1, <2>2
<1>7. Answers(r) => Answers(t)
  BY <1>5 DEF Answers
<1>8. Silent(t) => Silent(r)
  BY <1>5, <1>6 DEF Silent
<1>9. Closing(t) => Closing(r)
  <2> SUFFICES ASSUME Closing(t), NEW i \in DOMAIN r, r[i].fn = "answer" PROVE i = Len(r)
    BY <1>6 DEF Closing
  <2>1. i - m = n
    BY <1>4, <1>5 DEF Closing, n
  <2> QED
    BY <1>4, <2>1
<1>10. \A id : Binds(s, id) => Binds(r, id)
  <2> SUFFICES ASSUME NEW id, NEW i \in DOMAIN s, s[i].fn = "bind", s[i].id = id PROVE Binds(r, id)
    BY DEF Binds
  <2>1. i \in DOMAIN r /\ r[i] = s[i]
    BY <1>4
  <2> QED
    BY <2>1 DEF Binds
<1>11. \A id : Binds(t, id) => Binds(r, id)
  <2> SUFFICES ASSUME NEW id, NEW i \in DOMAIN t, t[i].fn = "bind", t[i].id = id PROVE Binds(r, id)
    BY DEF Binds
  <2>1. m + i \in DOMAIN r /\ r[m + i] = t[i]
    BY <1>4
  <2> QED
    BY <2>1 DEF Binds
<1> QED
  BY <1>7, <1>8, <1>9, <1>10, <1>11 DEF r

LEMMA OneItem ==
  ASSUME NEW x, "fn" \in DOMAIN x
  PROVE  /\ IsSeq(<<x>>) /\ Closing(<<x>>)
         /\ x.fn # "answer" => Silent(<<x>>)
         /\ x.fn = "bind" => Binds(<<x>>, x.id)
<1>1. <<x>> \in Seq({x}) /\ DOMAIN <<x>> = {1} /\ <<x>>[1] = x /\ Len(<<x>>) = 1
  OBVIOUS
<1> QED
  BY <1>1 DEF IsSeq, Closing, Silent, Binds

LEMMA SetToSeqIs ==
  ASSUME NEW S, IsFiniteSet(S)
  PROVE  SetToSeq(S) \in Seq(S) /\ Len(SetToSeq(S)) \in Nat /\ (S # {} => Len(SetToSeq(S)) > 0)
<1> DEFINE n == Cardinality(S)
<1>1. n \in Nat /\ \E f \in [1..n -> S] : IsInjective(f)
  <2>1. n \in Nat /\ ExistsBijection(1..n, S)
    BY FS_CardinalityType
  <2>2. PICK f \in Bijection(1..n, S) : TRUE
    BY <2>1 DEF ExistsBijection
  <2>3. f \in [1..n -> S] /\ IsInjective(f)
    BY <2>2 DEF Bijection, Injection, IsInjective
  <2> QED
    BY <2>1, <2>3
<1>2. SetToSeq(S) \in [1..n -> S]
  BY <1>1 DEF SetToSeq
<1>3. S # {} => n # 0
  BY FS_EmptySet
<1> QED
  BY <1>1, <1>2, <1>3

\* The items that are no changes of a document, or one of them.
LEMMA Items ==
  /\ \A fn, id : Item(fn, id).fn = fn /\ Item(fn, id).id = id /\ "fn" \in DOMAIN Item(fn, id)
  /\ \A id, r, task, active :
       /\ BindItem(id, r, task, active).fn = "bind" /\ BindItem(id, r, task, active).id = id
       /\ "fn" \in DOMAIN BindItem(id, r, task, active)
BY DEF Item, BindItem

LEMMA OneOrNone ==
  ASSUME NEW cond, NEW x, "fn" \in DOMAIN x, x.fn # "answer" PROVE Silent(ItemIf(cond, x))
BY OneItem, EmptyCeases, Zenon DEF ItemIf

\* A creation binds the session it is for.
LEMMA BindItemsBind ==
  ASSUME NEW id, NEW r, IsFiniteSet(r.tasks)
  PROVE  Silent(BindItems(id, r)) /\ Binds(BindItems(id, r), id)
<1>1. CASE IsBatch(r.scope)
  <2> DEFINE x == [BindItem(id, r, NoTask, "clear") EXCEPT !.scope = r.scope]
  <2>1. x.fn = "bind" /\ x.id = id /\ "fn" \in DOMAIN x
    BY DEF BindItem, Item
  <2>2. BindItems(id, r) = <<x>>
    BY <1>1 DEF BindItems
  <2> HIDE DEF x
  <2>3. Silent(<<x>>) /\ Binds(<<x>>, id)
    BY <2>1, OneItem
  <2> QED
    BY <2>2, <2>3
<1>2. CASE ~IsBatch(r.scope) /\ r.tasks = {}
  <2> DEFINE x == BindItem(id, r, NoTask, IF r.op = "attach" THEN "clear" ELSE NoTask)
  <2>1. x.fn = "bind" /\ x.id = id /\ "fn" \in DOMAIN x
    BY Items
  <2>2. BindItems(id, r) = <<x>>
    BY <1>2 DEF BindItems
  <2> HIDE DEF x
  <2>3. Silent(<<x>>) /\ Binds(<<x>>, id)
    BY <2>1, OneItem
  <2> QED
    BY <2>2, <2>3
<1>3. CASE ~IsBatch(r.scope) /\ r.tasks # {}
  <2> DEFINE order == SetToSeq(r.tasks)
             f(i) == BindItem(id, r, order[i], IF r.task = NoTask THEN "clear" ELSE r.task)
             s == [i \in 1..Len(order) |-> f(i)]
  <2>1. Len(order) \in Nat /\ Len(order) > 0
    BY <1>3, SetToSeqIs
  <2>2. BindItems(id, r) = s
    BY <1>3 DEF BindItems
  <2>3. \A i : f(i).fn = "bind" /\ f(i).id = id /\ "fn" \in DOMAIN f(i)
    BY Items
  <2> HIDE DEF order, f
  <2>4. s \in Seq({f(i) : i \in 1..Len(order)}) /\ DOMAIN s = 1..Len(order)
        /\ \A i \in 1..Len(order) : s[i] = f(i)
    BY <2>1
  <2> HIDE DEF s
  <2>5. Silent(s)
    BY <2>3, <2>4 DEF Silent, IsSeq
  <2>6. 1 \in DOMAIN s
    BY <2>1, <2>4
  <2>7. Binds(s, id)
    BY <2>3, <2>4, <2>6 DEF Binds
  <2> QED
    BY <2>2, <2>5, <2>7
<1> QED
  BY <1>1, <1>2, <1>3

-----------------------------------------------------------------------------
(***************************************************************************)
(* What is known stays known.                                              *)
(***************************************************************************)
LEMMA KnownGrows ==
  ASSUME SessionsInv, DocInv, [Next]_vars, ~stolen'
  PROVE  ~stolen /\ Known \subseteq Known'
<1>1. \/ (UNCHANGED <<doc, removed, folded>> /\ (stolen => stolen'))
      \/ \E p \in Proc : Save(p)
  <2>1. ASSUME NEW p \in Proc, Locate(p) \/ Locked(p) \/ Waits(p)
        PROVE  Save(p) \/ (UNCHANGED <<doc, removed, folded>> /\ (stolen => stolen'))
    <3>1. Locate(p) => UNCHANGED <<doc, removed, folded>> /\ (stolen => stolen')
      BY DEF Locate, files, history
    <3>2. TakeLock(p) \/ Load(p) => UNCHANGED <<doc, removed, folded>> /\ (stolen => stolen')
      BY DEF TakeLock, Load, files, history
    <3>3. SaveRefused(p) \/ Unlock(p) => UNCHANGED <<doc, removed, folded>> /\ (stolen => stolen')
      BY DEF SaveRefused, Unlock, files, history
    <3>4. FindStale(p) \/ LockTimesOut(p) => UNCHANGED <<doc, removed, folded>> /\ (stolen => stolen')
      BY DEF FindStale, LockTimesOut, files, history
    <3>5. Reclaim(p) => UNCHANGED <<doc, removed, folded>> /\ (stolen => stolen')
      BY DEF Reclaim
    <3> QED
      BY <2>1, <3>1, <3>2, <3>3, <3>4, <3>5 DEF Locked, Waits
  <2>2. ASSUME NEW c \in Proc, NEW id, NEW items, Begin(c, id, items)
        PROVE  UNCHANGED <<doc, removed, folded, stolen>>
    BY <2>2 DEF Begin, files, history
  <2>3. ASSUME NEW c \in Caller, Goes(c) PROVE UNCHANGED <<doc, removed, folded, stolen>>
    BY <2>3 DEF Goes, NativeSession, Admit, RefuseTurn, Answer, files, history
  <2>4. ASSUME NEW t \in Turn, TurnEnds(t) PROVE UNCHANGED <<doc, removed, folded, stolen>>
    BY <2>4 DEF TurnEnds, files, history
  <2>5. ASSUME NEW d \in Document, GrowsOld(d) PROVE UNCHANGED <<doc, removed, folded, stolen>>
    BY <2>5 DEF GrowsOld, history
  <2>6. ASSUME DashboardDies \/ CommandDies PROVE UNCHANGED <<doc, removed, folded, stolen>>
    BY <2>6 DEF DashboardDies, CommandDies, Die, files, history
  <2>7. ASSUME UNCHANGED vars PROVE UNCHANGED <<doc, removed, folded, stolen>>
    BY <2>7 DEF vars
  <2>8. \A c \in Caller : c \in Proc
    BY DEF Proc
  <2>9. \A c \in Command : c \in Proc
    BY DEF Proc
  <2> QED
    BY <2>1, <2>2, <2>3, <2>4, <2>5, <2>6, <2>7, <2>8, <2>9, AsksBegins, CommandBegins DEF Next
<1>2. CASE UNCHANGED <<doc, removed, folded>> /\ (stolen => stolen')
  BY <1>2 DEF Known, Recorded
<1>3. ASSUME NEW p \in Proc, Save(p) PROVE ~stolen /\ Known \subseteq Known'
  <2> DEFINE x == Head1(p)
             d == doc[at[p]]
             e == Applied(view[p], x)
  <2>1. ~stolen
    BY <1>3 DEF Save
  <2>2. OwnIds(d, at[p]) \subseteq OwnIds(e, at[p]) \union (IF x.fn = "unbind" THEN Gone(view[p], x) ELSE {})
    BY <1>3, <2>1, SaveStands
  <2>3. \A b \in Document : doc'[b] = IF b = at[p] THEN e ELSE doc[b]
    BY <1>3, SaveIs, TypesSplit DEF SessionsInv, Places
  <2>4. /\ removed' = IF x.fn = "unbind" THEN removed \union Gone(view[p], x) ELSE removed
        /\ folded \subseteq folded'
    BY <1>3 DEF Save
  <2>5. at[p] \in Document
    BY <1>3, SaveIs
  <2> HIDE DEF x, d, e
  <2>6. ASSUME NEW b \in Document, NEW i \in OwnIds(doc[b], b) PROVE i \in Known'
    <3>1. CASE b = at[p]
      <4>1. i \in OwnIds(e, at[p]) \/ i \in removed'
        BY <2>2, <2>4, <2>6, <3>1 DEF d
      <4>2. OwnIds(e, at[p]) \subseteq Recorded'
        BY <2>3, <2>5 DEF Recorded, OwnIds, OwnAt
      <4> QED
        BY <4>1, <4>2 DEF Known
    <3>2. CASE b # at[p]
      BY <2>3, <2>6, <3>2 DEF Known, Recorded, OwnIds, OwnAt
    <3> QED
      BY <3>1, <3>2
  <2>7. Recorded \subseteq Known'
    BY <2>6 DEF Recorded
  <2>8. removed \subseteq removed'
    BY <2>4
  <2> QED
    BY <2>1, <2>4, <2>7, <2>8 DEF Known
<1> QED
  BY <1>1, <1>2, <1>3

\* A copy is of a session that is known, on disk and as it was read.
CopyInv ==
  ~stolen => /\ \A d \in Document : Ids(doc[d]) \subseteq Known
             /\ \A p \in Proc : pc[p] \in Reading => Ids(view[p]) \subseteq Known

LEMMA CopyInit == Init => CopyInv
<1> SUFFICES ASSUME Init PROVE CopyInv
  OBVIOUS
<1>1. \A d \in Document : Ids(doc[d]) \subseteq Known
  <2> DEFINE All == UNION {Ids(doc[d]) : d \in Document}
  <2>1. removed = All \ Recorded
    BY DEF Init
  <2>2. \A d \in Document : Ids(doc[d]) \subseteq All
    OBVIOUS
  <2> HIDE DEF All
  <2> QED
    BY <2>1, <2>2 DEF Known
<1>2. \A p \in Proc : pc[p] \notin Reading
  BY DEF Init, Reading
<1> QED
  BY <1>1, <1>2 DEF CopyInv

LEMMA CopyNext == SessionsInv /\ DocInv /\ CopyInv /\ [Next]_vars => CopyInv'
<1> SUFFICES ASSUME SessionsInv, DocInv, CopyInv, [Next]_vars, ~stolen'
             PROVE  /\ \A d \in Document : Ids(doc'[d]) \subseteq Known'
                    /\ \A p \in Proc : pc'[p] \in Reading => Ids(view'[p]) \subseteq Known'
  BY DEF CopyInv, Ids
<1>1. ~stolen /\ Known \subseteq Known'
  BY KnownGrows
<1>2. /\ \A d \in Document : Ids(doc[d]) \subseteq Known'
      /\ \A p \in Proc : pc[p] \in Reading => Ids(view[p]) \subseteq Known'
  BY <1>1 DEF CopyInv
<1>3. CASE Untouched
  BY <1>2, <1>3 DEF Untouched, Reading
<1> USE TypesSplit DEF SessionsInv, Places
<1>4. ASSUME NEW p \in Proc, TakeLock(p)
      PROVE  /\ \A d \in Document : Ids(doc'[d]) \subseteq Known'
             /\ \A q \in Proc : pc'[q] \in Reading => Ids(view'[q]) \subseteq Known'
  <2>1. /\ UNCHANGED doc /\ pc' = [pc EXCEPT ![p] = "load"] /\ view' = [view EXCEPT ![p] = Empty]
    BY <1>4 DEF TakeLock, Goto
  <2>2. Ids(view'[p]) = {}
    BY <2>1, EmptyForm
  <2>3. \A q \in Proc \ {p} : pc'[q] = pc[q] /\ view'[q] = view[q]
    BY <2>1
  <2> QED
    BY <1>2, <2>1, <2>2, <2>3
<1>5. ASSUME NEW p \in Proc, Load(p)
      PROVE  /\ \A d \in Document : Ids(doc'[d]) \subseteq Known'
             /\ \A q \in Proc : pc'[q] \in Reading => Ids(view'[q]) \subseteq Known'
  <2>1. UNCHANGED doc /\ pc[p] \in Reading
    BY <1>5 DEF Load, files, Reading
  <2>2. PICK d \in Document : Ids(view'[p]) = Ids(view[p]) \union Ids(doc[d])
    BY <1>5, LoadIs
  <2>3. \A q \in Proc \ {p} : pc'[q] = pc[q] /\ view'[q] = view[q]
    BY <1>5, LoadIs
  <2> QED
    BY <1>2, <2>1, <2>2, <2>3
<1>6. ASSUME NEW p \in Proc, Save(p)
      PROVE  /\ \A d \in Document : Ids(doc'[d]) \subseteq Known'
             /\ \A q \in Proc : pc'[q] \in Reading => Ids(view'[q]) \subseteq Known'
  <2> DEFINE e == Applied(view[p], Head1(p))
  <2>1. /\ UNCHANGED view /\ pc' = [pc EXCEPT ![p] = "unlock"] /\ pc[p] \in Reading
        /\ at[p] \in Document /\ doc' = [doc EXCEPT ![at[p]] = e]
    BY <1>6, SaveIs DEF Save, Goto, Reading
  <2> HIDE DEF e
  <2>2. Ids(e) \subseteq Ids(view[p]) \union OwnIds(e, at[p])
    BY <1>1, <1>6, SaveStands DEF e
  <2>3. doc'[at[p]] = e
    BY <2>1
  <2>4. OwnIds(e, at[p]) \subseteq Known'
    BY <2>1, <2>3 DEF Known, Recorded, OwnIds, OwnAt
  <2>5. \A d \in Document : Ids(doc'[d]) \subseteq Known'
    BY <1>2, <2>1, <2>2, <2>3, <2>4
  <2>6. \A q \in Proc : pc'[q] \in Reading => pc[q] \in Reading /\ view'[q] = view[q]
    BY <2>1 DEF Reading
  <2> QED
    BY <1>2, <2>5, <2>6
<1> QED
  BY <1>3, <1>4, <1>5, <1>6, StepsByDocs

\* Whoever finds a session, or a copy of it, finds one that is known.
LEMMA FoundIsKnown ==
  ASSUME DocInv, CopyInv, ~stolen, NEW id, NEW prov, NEW s \in Found(id, prov) PROVE s.id \in Known
<1>1. PICK d \in Document : \E i \in Matches(doc[d], id, prov) : s = Normalized(doc[d].sessions[i])
  BY DEF Found
<1>2. PICK i \in Matches(doc[d], id, prov) : s = Normalized(doc[d].sessions[i])
  BY <1>1
<1>3. i \in DOMAIN doc[d].sessions /\ doc[d].sessions[i] = Fields(doc[d].sessions[i])
  BY <1>2, Form DEF DocInv, Matches
<1>4. ASSUME NEW z, z = Fields(z) PROVE Normalized(z).id = z.id
  BY <1>4 DEF Normalized, Fields
<1>5. s.id \in Ids(doc[d])
  BY <1>2, <1>3, <1>4 DEF Ids
<1> QED
  BY <1>5 DEF CopyInv

LEMMA ImageIsFinite ==
  ASSUME NEW S, IsFiniteSet(S), NEW g, g = [x \in S |-> g[x]] PROVE IsFiniteSet({g[x] : x \in S})
<1> DEFINE T == {g[x] : x \in S}
<1>1. g \in [S -> T]
  OBVIOUS
<1>2. g \in Surjection(S, T)
  BY <1>1 DEF Surjection
<1> QED
  BY <1>2, FS_Surjection

\* What a look-up finds, it finds in finitely many documents.
LEMMA FoundIsFinite ==
  ASSUME DocInv, NEW id, NEW prov PROVE IsFiniteSet({s.spec : s \in Found(id, prov)})
<1> DEFINE M(d) == Matches(doc[d], id, prov)
           F(d) == {Normalized(doc[d].sessions[i]) : i \in M(d)}
<1>1. ASSUME NEW d \in Document PROVE IsFiniteSet(F(d))
  <2> DEFINE g == [i \in M(d) |-> Normalized(doc[d].sessions[i])]
  <2>1. IsFiniteSet(M(d))
    <3>1. M(d) \subseteq 1..Len(doc[d].sessions) /\ Len(doc[d].sessions) \in Nat
      BY Form DEF DocInv, Matches
    <3>2. IsFiniteSet(1..Len(doc[d].sessions))
      BY <3>1, FS_Interval
    <3> QED
      BY <3>1, <3>2, FS_Subset, Zenon
  <2> HIDE DEF M
  <2>2. IsFiniteSet({g[i] : i \in M(d)})
    <3>1. g = [i \in M(d) |-> g[i]]
      OBVIOUS
    <3> HIDE DEF g
    <3> QED
      BY <2>1, <3>1, ImageIsFinite
  <2>3. {g[i] : i \in M(d)} = F(d)
    OBVIOUS
  <2> QED
    BY <2>2, <2>3
<1> HIDE DEF F
<1>2. IsFiniteSet({F(d) : d \in Document})
  <2> DEFINE h == [d \in Document |-> F(d)]
  <2>1. h = [d \in Document |-> h[d]] /\ {h[d] : d \in Document} = {F(d) : d \in Document}
    OBVIOUS
  <2> HIDE DEF h
  <2>2. IsFiniteSet({h[d] : d \in Document})
    BY <2>1, ImageIsFinite
  <2> QED
    BY <2>1, <2>2
<1>3. IsFiniteSet(Found(id, prov))
  <2>1. Found(id, prov) = UNION {F(d) : d \in Document}
    BY DEF Found, F
  <2>2. \A T \in {F(d) : d \in Document} : IsFiniteSet(T)
    BY <1>1
  <2> QED
    BY <1>2, <2>1, <2>2, FS_UNION
<1> DEFINE R == Found(id, prov)
           k == [s \in R |-> s.spec]
<1> HIDE DEF R
<1>4. k = [s \in R |-> k[s]] /\ {k[s] : s \in R} = {s.spec : s \in R}
  OBVIOUS
<1>5. IsFiniteSet(R)
  BY <1>3 DEF R
<1> HIDE DEF k
<1>6. IsFiniteSet({k[s] : s \in R})
  BY <1>4, <1>5, ImageIsFinite
<1> QED
  BY <1>4, <1>6 DEF R

\* A step keeps AnswerInv when the items of every process go on or cease, or when
\* those it is given are in order.
Given(p) == Closing(todo'[p]) /\ (p \in Caller => Due(p)')

LEMMA AnswersKept ==
  ASSUME AnswerInv, ~stolen' => ~stolen /\ Known \subseteq Known',
         \A p \in Proc : GoesOn(p) \/ Ceases(p) \/ (~stolen' /\ Given(p)) \/ (stolen' /\ Closing(todo'[p])),
         ~stolen' => acked' \subseteq Known'
  PROVE  AnswerInv'
<1>1. \A p \in Proc : Closing(todo'[p])
  BY DEF GoesOn, Ceases, Given
<1>2. ASSUME ~stolen', NEW c \in Caller PROVE Due(c)'
  <2>0. c \in Proc
    BY DEF Proc
  <2>1. Due(c) /\ Known \subseteq Known'
    BY <1>2 DEF AnswerInv
  <2>2. CASE GoesOn(c)
    BY <1>2, <2>1, <2>2 DEF GoesOn, Due
  <2>3. CASE Ceases(c)
    BY <2>3 DEF Ceases, Due
  <2>4. CASE Given(c)
    BY <1>2, <2>4 DEF Given
  <2> QED
    BY <1>2, <2>0, <2>2, <2>3, <2>4
<1> QED
  BY <1>1, <1>2 DEF AnswerInv

LEMMA StaysPut ==
  ASSUME AnswerInv, NEW p \in Proc, todo'[p] = todo[p], sid'[p] = sid[p] PROVE GoesOn(p)
BY DEF GoesOn, AnswerInv

-----------------------------------------------------------------------------
(***************************************************************************)
(* Each step keeps it.                                                     *)
(***************************************************************************)

\* The list of one process changes, and nothing is acknowledged.
OneMoves(p, items) ==
  /\ todo' = [todo EXCEPT ![p] = items]
  /\ UNCHANGED acked
  /\ \A q \in Proc \ {p} : sid'[q] = sid[q]

LEMMA OneMovesKeeps ==
  ASSUME SessionsInv, DocInv, AnswerInv, ~stolen' => ~stolen /\ Known \subseteq Known',
         NEW p \in Proc, NEW items, OneMoves(p, items),
         GoesOn(p) \/ Ceases(p) \/ (~stolen' /\ Given(p)) \/ (stolen' /\ Closing(todo'[p]))
  PROVE  AnswerInv'
<1>1. \A q \in Proc \ {p} : GoesOn(q)
  BY StaysPut DEF OneMoves, DocInv
<1>2. \A q \in Proc : GoesOn(q) \/ Ceases(q) \/ (~stolen' /\ Given(q)) \/ (stolen' /\ Closing(todo'[q]))
  BY <1>1
<1>3. ~stolen' => acked' \subseteq Known'
  BY DEF OneMoves, AnswerInv
<1> QED
  BY <1>2, <1>3, AnswersKept

LEMMA StopsKeeps ==
  ASSUME SessionsInv, DocInv, AnswerInv, ~stolen' => ~stolen /\ Known \subseteq Known',
         NEW p \in Proc, OneMoves(p, << >>)
  PROVE  AnswerInv'
<1>1. todo'[p] = << >>
  BY DEF OneMoves, DocInv
<1>2. Ceases(p)
  BY <1>1, EmptyCeases DEF Ceases
<1> QED
  BY <1>2, OneMovesKeeps

LEMMA BeginKeeps ==
  ASSUME SessionsInv, DocInv, AnswerInv, ~stolen' => ~stolen /\ Known \subseteq Known',
         NEW p \in Proc, NEW id, NEW items, Begin(p, id, items), Closing(items),
         p \in Caller /\ ~stolen' => (Answers(items) => id \in Known \/ Binds(items, id))
  PROVE  AnswerInv'
<1>1. OneMoves(p, items) /\ todo'[p] = items /\ sid'[p] = id
  BY DEF Begin, OneMoves, DocInv, history
<1>2. UNCHANGED <<doc, removed, folded>>
  BY DEF Begin, files, history
<1>3. Known' = Known
  BY <1>2 DEF Known, Recorded
<1>4. ~stolen' => Given(p)
  BY <1>1, <1>3 DEF Given, Due
<1>5. Closing(todo'[p])
  BY <1>1
<1> QED
  BY <1>1, <1>4, <1>5, OneMovesKeeps

\* The items of a session that was found, or of one that is bound first.
LEMMA CreateKeeps ==
  ASSUME SessionsInv, DocInv, AnswerInv, ~stolen' => ~stolen /\ Known \subseteq Known',
         NEW c \in Caller, CreateSession(c)
  PROVE  AnswerInv'
<1> DEFINE id == newId[c]
           B(r) == BindItems(id, r)
           N(r) == ItemIf(r.prov = NoId, Item("native", id))
           E == <<Item("answer", id)>>
<1>1. PICK r \in Request[c] : Begin(c, id, B(r) \o N(r) \o E)
  BY DEF CreateSession
<1>2. Silent(B(r)) /\ Binds(B(r), id)
  BY BindItemsBind, SessionsAssumption
<1>3. Silent(N(r))
  BY Items, OneOrNone
<1>4. Closing(E) /\ IsSeq(E)
  BY Items, OneItem
<1> HIDE DEF B, N, E
<1>5. Silent(B(r) \o N(r)) /\ Binds(B(r) \o N(r), id)
  BY <1>2, <1>3, CatItems DEF Silent
<1>6. Closing((B(r) \o N(r)) \o E) /\ Binds((B(r) \o N(r)) \o E, id)
  BY <1>4, <1>5, CatItems, Zenon
<1>7. c \in Proc
  BY DEF Proc
<1> QED
  BY <1>1, <1>6, <1>7, BeginKeeps, Zenon

LEMMA FindsKeeps ==
  ASSUME SessionsInv, DocInv, CopyInv, AnswerInv, ~stolen' => ~stolen /\ Known \subseteq Known',
         NEW c \in Caller, StartTurnFinds(c)
  PROVE  AnswerInv'
<1> DEFINE A(r, s) == ItemIf(r.mode, Item("mode", s.id))
           H(s, moved) == IF moved THEN Heals(s) ELSE << >>
           D(s) == <<[Item("admit", s.id) EXCEPT !.prov = s.prov]>>
           O(r, s, moved) == Boots(s, r.task, moved)
           M(r, s) == ItemIf(r.model, Item("model", s.id))
           E(s) == <<Item("answer", s.id)>>
<1>0. PICK r \in Request[c] : \E s \in Found(r.id, r.prov), moved \in BOOLEAN :
        Begin(c, s.id, A(r, s) \o H(s, moved) \o D(s) \o O(r, s, moved) \o M(r, s) \o E(s))
  BY DEF StartTurnFinds
<1>1. PICK s \in Found(r.id, r.prov), moved \in BOOLEAN :
        Begin(c, s.id, A(r, s) \o H(s, moved) \o D(s) \o O(r, s, moved) \o M(r, s) \o E(s))
  BY <1>0
<1>2. Silent(A(r, s)) /\ Silent(M(r, s))
  BY Items, OneOrNone
<1>3. Silent(H(s, moved))
  <2> DEFINE x == [Item("bind", s.id) EXCEPT !.spec = s.spec, !.active = "clear"]
  <2>1. x.fn = "bind" /\ "fn" \in DOMAIN x
    BY DEF Item
  <2> HIDE DEF x
  <2>2. Silent(ItemIf(s.active # NoTask /\ s.spec # General, x))
    BY <2>1, OneOrNone
  <2> QED
    BY <2>2, EmptyCeases DEF Heals, x
<1>4. Silent(D(s))
  <2> DEFINE x == [Item("admit", s.id) EXCEPT !.prov = s.prov]
  <2>1. x.fn = "admit" /\ "fn" \in DOMAIN x
    BY DEF Item
  <2> HIDE DEF x
  <2> QED
    BY <2>1, OneItem DEF x
<1>5. Silent(O(r, s, moved))
  <2> DEFINE x == [Item("boot", s.id) EXCEPT !.task = r.task]
  <2>1. x.fn = "boot" /\ "fn" \in DOMAIN x
    BY DEF Item
  <2> HIDE DEF x
  <2>2. Silent(ItemIf(r.task # NoTask /\ s.spec # General /\ (moved \/ s.boot # r.task), x))
    BY <2>1, OneOrNone
  <2> QED
    BY <2>2 DEF Boots, x
<1>6. Closing(E(s)) /\ IsSeq(E(s))
  BY Items, OneItem
<1>7. ~stolen' => s.id \in Known
  BY <1>1, FoundIsKnown
<1> HIDE DEF A, H, D, O, M, E
<1>8. Silent(A(r, s) \o H(s, moved))
  BY <1>2, <1>3, CatItems DEF Silent
<1>9. Silent(A(r, s) \o H(s, moved) \o D(s))
  BY <1>4, <1>8, CatItems DEF Silent
<1>10. Silent(A(r, s) \o H(s, moved) \o D(s) \o O(r, s, moved))
  BY <1>5, <1>9, CatItems DEF Silent
<1>11. Silent(A(r, s) \o H(s, moved) \o D(s) \o O(r, s, moved) \o M(r, s))
  BY <1>2, <1>10, CatItems DEF Silent
<1>12. Closing(A(r, s) \o H(s, moved) \o D(s) \o O(r, s, moved) \o M(r, s) \o E(s))
  BY <1>6, <1>11, CatItems, Zenon
<1>13. c \in Proc
  BY DEF Proc
<1> QED
  BY <1>1, <1>7, <1>12, <1>13, BeginKeeps, Zenon

LEMMA CreatesKeeps ==
  ASSUME SessionsInv, DocInv, AnswerInv, ~stolen' => ~stolen /\ Known \subseteq Known',
         NEW c \in Caller, StartTurnCreates(c)
  PROVE  AnswerInv'
<1> DEFINE I(r) == IF r.id = NoId THEN newId[c] ELSE r.id
           B(r) == BindItems(I(r), r)
           N(r) == ItemIf(r.prov = NoId, Item("native", I(r)))
           A(r) == ItemIf(r.mode, Item("mode", I(r)))
           D(r) == <<[Item("admit", I(r)) EXCEPT !.prov = r.prov]>>
           O(r) == ItemIf(r.task # NoTask /\ r.spec # General,
                          [Item("boot", I(r)) EXCEPT !.task = r.task])
           M(r) == ItemIf(r.model, Item("model", I(r)))
           E(r) == <<Item("answer", I(r))>>
<1>1. PICK r \in Request[c] :
        Begin(c, I(r), B(r) \o N(r) \o A(r) \o D(r) \o O(r) \o M(r) \o E(r))
  BY DEF StartTurnCreates
<1>2. Silent(B(r)) /\ Binds(B(r), I(r))
  BY BindItemsBind, SessionsAssumption
<1>3. Silent(N(r)) /\ Silent(A(r)) /\ Silent(M(r))
  BY Items, OneOrNone
<1>4. Silent(D(r))
  <2> DEFINE x == [Item("admit", I(r)) EXCEPT !.prov = r.prov]
  <2>1. x.fn = "admit" /\ "fn" \in DOMAIN x
    BY DEF Item
  <2> HIDE DEF x
  <2> QED
    BY <2>1, OneItem DEF x
<1>5. Silent(O(r))
  <2> DEFINE x == [Item("boot", I(r)) EXCEPT !.task = r.task]
  <2>1. x.fn = "boot" /\ "fn" \in DOMAIN x
    BY DEF Item
  <2> HIDE DEF x
  <2> QED
    BY <2>1, OneOrNone DEF x
<1>6. Closing(E(r)) /\ IsSeq(E(r))
  BY Items, OneItem
<1> HIDE DEF I, B, N, A, D, O, M, E
<1>7. Silent(B(r) \o N(r)) /\ Binds(B(r) \o N(r), I(r))
  BY <1>2, <1>3, CatItems DEF Silent
<1>8. Silent(B(r) \o N(r) \o A(r)) /\ Binds(B(r) \o N(r) \o A(r), I(r))
  BY <1>3, <1>7, CatItems DEF Silent
<1>9. Silent(B(r) \o N(r) \o A(r) \o D(r)) /\ Binds(B(r) \o N(r) \o A(r) \o D(r), I(r))
  BY <1>4, <1>8, CatItems DEF Silent
<1>10. /\ Silent(B(r) \o N(r) \o A(r) \o D(r) \o O(r))
       /\ Binds(B(r) \o N(r) \o A(r) \o D(r) \o O(r), I(r))
  BY <1>5, <1>9, CatItems DEF Silent
<1>11. /\ Silent(B(r) \o N(r) \o A(r) \o D(r) \o O(r) \o M(r))
       /\ Binds(B(r) \o N(r) \o A(r) \o D(r) \o O(r) \o M(r), I(r))
  BY <1>3, <1>10, CatItems DEF Silent
<1>12. /\ Closing(B(r) \o N(r) \o A(r) \o D(r) \o O(r) \o M(r) \o E(r))
       /\ Binds(B(r) \o N(r) \o A(r) \o D(r) \o O(r) \o M(r) \o E(r), I(r))
  BY <1>6, <1>11, CatItems, Zenon
<1>13. c \in Proc
  BY DEF Proc
<1> QED
  BY <1>1, <1>12, <1>13, BeginKeeps, Zenon

\* The other requests answer nothing.
LEMMA OtherAsksKeep ==
  ASSUME SessionsInv, DocInv, AnswerInv, ~stolen' => ~stolen /\ Known \subseteq Known',
         NEW p \in Proc,
         \/ p \in Caller /\ (AttachSession(p) \/ UpdateSession(p) \/ SetActiveTaskId(p) \/ DeleteSession(p))
         \/ CommandBinds(p)
  PROVE  AnswerInv'
<1>1. ASSUME NEW id, NEW items, Begin(p, id, items), Silent(items) PROVE AnswerInv'
  <2>1. Closing(items) /\ ~Answers(items)
    BY <1>1 DEF Silent, Closing, Answers
  <2> QED
    BY <1>1, <2>1, BeginKeeps
<1>2. ASSUME NEW id, NEW x, Begin(p, id, <<x>>), x.fn # "answer", "fn" \in DOMAIN x PROVE AnswerInv'
  <2>1. Silent(<<x>>)
    BY <1>2, OneItem
  <2> QED
    BY <1>1, <1>2, <2>1
<1>3. CASE p \in Caller /\ AttachSession(p)
  <2>1. PICK r \in Request[p] : Begin(p, newId[p], BindItems(newId[p], r))
    BY <1>3 DEF AttachSession
  <2>2. Silent(BindItems(newId[p], r))
    BY <1>3, BindItemsBind, SessionsAssumption
  <2> QED
    BY <1>1, <2>1, <2>2
<1>4. CASE p \in Caller /\ UpdateSession(p)
  <2>1. PICK r \in Request[p] : r.op \in {"mode", "model"} /\ Begin(p, r.id, <<Item(r.op, r.id)>>)
    BY <1>4 DEF UpdateSession
  <2>2. Item(r.op, r.id).fn # "answer" /\ "fn" \in DOMAIN Item(r.op, r.id)
    BY <2>1, Items
  <2> QED
    BY <1>2, <2>1, <2>2
<1>5. CASE p \in Caller /\ SetActiveTaskId(p)
  <2> DEFINE x(r, s) == [Item("active", r.id) EXCEPT !.spec = s.spec, !.task = r.task]
  <2>1. PICK r \in Request[p] : \E s : Begin(p, r.id, <<x(r, s)>>)
    BY <1>5 DEF SetActiveTaskId
  <2>2. PICK s : Begin(p, r.id, <<x(r, s)>>)
    BY <2>1
  <2>3. x(r, s).fn # "answer" /\ "fn" \in DOMAIN x(r, s)
    BY DEF Item
  <2> HIDE DEF x
  <2> QED
    BY <1>2, <2>2, <2>3
<1>6. CASE p \in Caller /\ DeleteSession(p)
  <2>1. PICK r \in Request[p] : Begin(p, r.id, <<Item("unbind", r.id)>>)
    BY <1>6 DEF DeleteSession
  <2>2. Item("unbind", r.id).fn # "answer" /\ "fn" \in DOMAIN Item("unbind", r.id)
    BY Items
  <2> QED
    BY <1>2, <2>1, <2>2
<1>7. CASE CommandBinds(p)
  <2> DEFINE x(id, r, active) == [BindItem(id, r, r.task, active) EXCEPT !.tasks = {}]
  <2>1. PICK r \in Request[p] : \E id, active : Begin(p, id, <<x(id, r, active)>>)
    BY <1>7, Zenon DEF CommandBinds
  <2>2. PICK id, active : Begin(p, id, <<x(id, r, active)>>)
    BY <2>1
  <2>3. x(id, r, active).fn # "answer" /\ "fn" \in DOMAIN x(id, r, active)
    BY DEF BindItem, Item
  <2> HIDE DEF x
  <2> QED
    BY <1>2, <2>2, <2>3
<1> QED
  BY <1>3, <1>4, <1>5, <1>6, <1>7

LEMMA LocateKeeps ==
  ASSUME SessionsInv, DocInv, AnswerInv, ~stolen' => ~stolen /\ Known \subseteq Known',
         NEW p \in Proc, Locate(p)
  PROVE  AnswerInv'
<1> DEFINE x == Head1(p)
           S == {s.spec : s \in Found(x.id, NoId)}
           In(T) == LET order == SetToSeq(T) IN
                    [i \in 1..Len(order) |-> [x EXCEPT !.spec = order[i]]]
<1>1. /\ todo[p] # << >> /\ x.fn \in {"prov", "mode", "model", "boot", "unbind"}
      /\ \/ todo' = [todo EXCEPT ![p] = Tail(@)]
         \/ \E T : IsFiniteSet(T) /\ todo' = [todo EXCEPT ![p] = In(T) \o Tail(@)]
      /\ UNCHANGED <<sid, acked>>
  <2>1. IsFiniteSet(S)
    BY FoundIsFinite
  <2>3. todo[p] # << >> /\ UNCHANGED <<sid, acked>>
    BY DEF Locate, history
  <2>4. /\ x.fn \in {"prov", "mode", "model", "boot", "unbind"}
        /\ \/ todo' = [todo EXCEPT ![p] = In({General}) \o Tail(@)]
           \/ todo' = [todo EXCEPT ![p] = Tail(@)]
           \/ \E d \in S : todo' = [todo EXCEPT ![p] = In({d}) \o Tail(@)]
           \/ todo' = [todo EXCEPT ![p] = In(S \ {General}) \o Tail(@)]
    BY DEF Locate
  <2> HIDE DEF x, S, In
  <2>5. ASSUME NEW T, IsFiniteSet(T), todo' = [todo EXCEPT ![p] = In(T) \o Tail(@)]
        PROVE  \E U : IsFiniteSet(U) /\ todo' = [todo EXCEPT ![p] = In(U) \o Tail(@)]
    BY <2>5
  <2>6. (\A d : IsFiniteSet({d})) /\ IsFiniteSet(S \ {General})
    BY <2>1, FS_Singleton, FS_Difference
  <2> QED
    BY <2>3, <2>4, <2>5, <2>6
<1>2. Closing(todo[p]) /\ x = Head(todo[p])
  BY DEF AnswerInv, Head1
<1>3. "fn" \in DOMAIN x
  BY <1>1, <1>2 DEF Closing, IsSeq
<1>4. /\ Closing(Tail(todo[p])) /\ IsSeq(Tail(todo[p]))
      /\ Answers(Tail(todo[p])) => Answers(todo[p])
      /\ \A id : Binds(todo[p], id) => Binds(Tail(todo[p]), id)
  BY <1>1, <1>2, TailCloses DEF Closing
<1>5. CASE todo' = [todo EXCEPT ![p] = Tail(@)]
  <2>1. OneMoves(p, Tail(todo[p])) /\ todo'[p] = Tail(todo[p]) /\ sid'[p] = sid[p]
    BY <1>1, <1>5 DEF OneMoves, DocInv
  <2>2. GoesOn(p)
    BY <1>4, <2>1 DEF GoesOn
  <2> QED
    BY <2>1, <2>2, OneMovesKeeps
<1>6. ASSUME NEW T, IsFiniteSet(T), todo' = [todo EXCEPT ![p] = In(T) \o Tail(@)] PROVE AnswerInv'
  <2> DEFINE order == SetToSeq(T)
             f(i) == [x EXCEPT !.spec = order[i]]
             s == [i \in 1..Len(order) |-> f(i)]
  <2>1. Len(order) \in Nat
    BY <1>6, SetToSeqIs
  <2>2. \A i : f(i).fn # "answer" /\ "fn" \in DOMAIN f(i)
    BY <1>1, <1>3
  <2>3. In(T) = s
    OBVIOUS
  <2> HIDE DEF order, f
  <2>4. s \in Seq({f(i) : i \in 1..Len(order)}) /\ DOMAIN s = 1..Len(order)
        /\ \A i \in 1..Len(order) : s[i] = f(i)
    BY <2>1
  <2> HIDE DEF s
  <2>5. Silent(s)
    BY <2>2, <2>4 DEF Silent, IsSeq
  <2>6. /\ Closing(s \o Tail(todo[p]))
        /\ Answers(s \o Tail(todo[p])) => Answers(todo[p])
        /\ \A id : Binds(todo[p], id) => Binds(s \o Tail(todo[p]), id)
    BY <1>4, <2>5, CatItems
  <2> HIDE DEF In
  <2>7. /\ OneMoves(p, s \o Tail(todo[p])) /\ todo'[p] = s \o Tail(todo[p])
        /\ sid'[p] = sid[p]
    BY <1>1, <1>6, <2>3 DEF OneMoves, DocInv
  <2>8. GoesOn(p)
    BY <2>6, <2>7 DEF GoesOn
  <2> QED
    BY <2>7, <2>8, OneMovesKeeps
<1> QED
  BY <1>1, <1>5, <1>6

\* A bind that is done left its session recorded, or folded into another.
LEMMA BindIsKnown ==
  ASSUME SessionsInv, DocInv, CopyInv, Known \subseteq Known', NEW p \in Proc, Save(p), ~stolen, Head1(p).fn = "bind"
  PROVE  Head1(p).id \in Known'
<1> DEFINE x == Head1(p)
           e == Applied(view[p], x)
<1>1. doc'[at[p]] = e /\ at[p] \in Document
  BY SaveIs, TypesSplit DEF SessionsInv, Places
<1>2. Ids(e) \subseteq Known'
  <2>1. OwnIds(e, at[p]) \subseteq Known'
    BY <1>1 DEF Known, Recorded, OwnIds, OwnAt
  <2>2. Ids(view[p]) \subseteq Known
    BY SaveIs DEF CopyInv, Reading
  <2> QED
    BY <2>1, <2>2, SaveStands
<1>3. x.prov = NoId => x.id \in Ids(e)
  BY SaveStands
<1>4. x.prov # NoId => x.id \in Ids(e) \/ x.id \in folded'
  BY DEF Save
<1> QED
  BY <1>2, <1>3, <1>4 DEF Known

LEMMA SaveKeepsAnswers ==
  ASSUME SessionsInv, DocInv, CopyInv, AnswerInv, ~stolen' => ~stolen /\ Known \subseteq Known',
         NEW p \in Proc, Save(p)
  PROVE  AnswerInv'
<1> DEFINE x == Head1(p)
<1>1. /\ OneMoves(p, Tail(todo[p])) /\ todo'[p] = Tail(todo[p]) /\ sid'[p] = sid[p]
      /\ stolen' = stolen
  BY DEF Save, OneMoves, DocInv
<1>2. Closing(todo[p]) /\ x = Head(todo[p]) /\ x.fn \in Changes
  BY SaveIs DEF AnswerInv, Head1
<1>3. todo[p] # << >>
  BY DEF Save, DocInv, Reading
<1>4. /\ Closing(Tail(todo[p]))
      /\ Answers(Tail(todo[p])) => Answers(todo[p])
      /\ \A id : Binds(todo[p], id) /\ ~(x.fn = "bind" /\ x.id = id) => Binds(Tail(todo[p]), id)
  BY <1>2, <1>3, TailCloses
<1>5. CASE ~(x.fn = "bind" /\ x.id = sid[p])
  <2>1. GoesOn(p)
    BY <1>1, <1>4, <1>5 DEF GoesOn
  <2> QED
    BY <1>1, <2>1, OneMovesKeeps
<1>6. CASE x.fn = "bind" /\ x.id = sid[p]
  <2>1. ~stolen' => Given(p)
    BY <1>1, <1>4, <1>6, BindIsKnown DEF Given, Due
  <2> QED
    BY <1>1, <1>4, <2>1, OneMovesKeeps
<1> QED
  BY <1>5, <1>6

LEMMA NativeKeeps ==
  ASSUME SessionsInv, DocInv, AnswerInv, ~stolen' => ~stolen /\ Known \subseteq Known',
         NEW c \in Caller, NativeSession(c)
  PROVE  AnswerInv'
<1> DEFINE y == [Item("prov", sid[c]) EXCEPT !.prov = newProv[turnOf[c]]]
           t == Tail(todo[c])
<1>0. c \in Proc
  BY DEF Proc
<1>1. /\ todo[c] # << >> /\ Head(todo[c]).fn = "native" /\ UNCHANGED <<sid, acked>>
      /\ \/ todo' = [todo EXCEPT ![c] = << >>]
         \/ todo' = [todo EXCEPT ![c] = t]
         \/ todo' = [todo EXCEPT ![c] = <<y>> \o t]
  BY DEF NativeSession, Fails, Head1, history
<1>2. /\ Closing(t) /\ IsSeq(t)
      /\ Answers(t) => Answers(todo[c])
      /\ \A id : Binds(todo[c], id) => Binds(t, id)
  BY <1>0, <1>1, TailCloses DEF Closing, AnswerInv
<1>3. CASE todo' = [todo EXCEPT ![c] = << >>]
  BY <1>0, <1>1, <1>3, StopsKeeps DEF OneMoves
<1>4. CASE todo' = [todo EXCEPT ![c] = t]
  <2>1. OneMoves(c, t) /\ todo'[c] = t /\ sid'[c] = sid[c]
    BY <1>0, <1>1, <1>4 DEF OneMoves, DocInv
  <2>2. GoesOn(c)
    BY <1>2, <2>1 DEF GoesOn
  <2> QED
    BY <1>0, <2>1, <2>2, OneMovesKeeps
<1>5. CASE todo' = [todo EXCEPT ![c] = <<y>> \o t]
  <2>1. y.fn = "prov" /\ "fn" \in DOMAIN y
    BY DEF Item
  <2> HIDE DEF y, t
  <2>2. OneMoves(c, <<y>> \o t) /\ todo'[c] = <<y>> \o t /\ sid'[c] = sid[c]
    BY <1>0, <1>1, <1>5 DEF OneMoves, DocInv
  <2>3. Silent(<<y>>)
    BY <2>1, OneItem
  <2>4. /\ Closing(<<y>> \o t)
        /\ Answers(<<y>> \o t) => Answers(todo[c])
        /\ \A id : Binds(todo[c], id) => Binds(<<y>> \o t, id)
    BY <1>2, <2>3, CatItems
  <2>5. GoesOn(c)
    BY <2>2, <2>4 DEF GoesOn
  <2> QED
    BY <1>0, <2>2, <2>5, OneMovesKeeps
<1> QED
  BY <1>1, <1>3, <1>4, <1>5

LEMMA AdmitKeeps ==
  ASSUME SessionsInv, DocInv, AnswerInv, ~stolen' => ~stolen /\ Known \subseteq Known',
         NEW c \in Caller, Admit(c)
  PROVE  AnswerInv'
<1> DEFINE t == turnOf[c]
           y == [Item("prov", sid[c]) EXCEPT
                   !.prov = IF Head1(c).prov = NoId THEN newProv[t] ELSE Head1(c).prov]
<1>0. c \in Proc /\ t \in Proc /\ t \notin Caller /\ c # t
  BY SessionsAssumption DEF Proc
<1>1. /\ todo[c] # << >> /\ Head(todo[c]).fn = "admit" /\ UNCHANGED acked
      /\ todo' = [todo EXCEPT ![c] = Tail(@), ![t] = <<y>>]
      /\ sid' = [sid EXCEPT ![t] = sid[c]]
  BY DEF Admit, Admits, Head1, history
<1>2. y.fn = "prov" /\ "fn" \in DOMAIN y
  BY DEF Item
<1> HIDE DEF t, y
<1>3. /\ todo'[c] = Tail(todo[c]) /\ sid'[c] = sid[c] /\ todo'[t] = <<y>>
      /\ \A q \in Proc \ {c, t} : todo'[q] = todo[q] /\ sid'[q] = sid[q]
  BY <1>0, <1>1 DEF DocInv
<1>4. GoesOn(c)
  <2>1. /\ Closing(Tail(todo[c]))
        /\ Answers(Tail(todo[c])) => Answers(todo[c])
        /\ \A id : Binds(todo[c], id) => Binds(Tail(todo[c]), id)
    BY <1>0, <1>1, TailCloses DEF AnswerInv
  <2> QED
    BY <1>3, <2>1 DEF GoesOn
<1>5. Ceases(t)
  BY <1>2, <1>3, OneItem DEF Ceases, Silent, Answers
<1>6. \A q \in Proc : GoesOn(q) \/ Ceases(q)
  BY <1>3, <1>4, <1>5, StaysPut
<1>7. ~stolen' => acked' \subseteq Known'
  BY <1>1 DEF AnswerInv
<1> QED
  BY <1>6, <1>7, AnswersKept

\* Who is told of a session has nothing to bind any more: it is known.
LEMMA AnswerKeeps ==
  ASSUME SessionsInv, DocInv, AnswerInv, ~stolen' => ~stolen /\ Known \subseteq Known',
         NEW c \in Caller, Answer(c)
  PROVE  AnswerInv'
<1>0. c \in Proc
  BY DEF Proc
<1>1. /\ todo[c] # << >> /\ Head(todo[c]).fn = "answer"
      /\ acked' = acked \union {sid[c]}
      /\ UNCHANGED sid /\ todo' = [todo EXCEPT ![c] = Tail(@)]
  BY DEF Answer, Head1
<1>2. /\ Closing(Tail(todo[c])) /\ ~Answers(Tail(todo[c]))
      /\ \A id : ~Binds(todo[c], id)
  BY <1>0, <1>1, TailCloses DEF AnswerInv
<1>3. Answers(todo[c])
  <2>1. 1 \in DOMAIN todo[c] /\ todo[c][1] = Head(todo[c])
    BY <1>0, <1>1 DEF AnswerInv, Closing, IsSeq
  <2> QED
    BY <1>1, <2>1 DEF Answers
<1>4. ~stolen' => acked' \subseteq Known'
  BY <1>1, <1>2, <1>3 DEF AnswerInv, Due
<1>5. Ceases(c) /\ \A q \in Proc \ {c} : GoesOn(q)
  BY <1>0, <1>1, <1>2, StaysPut DEF Ceases, DocInv
<1>6. \A q \in Proc : GoesOn(q) \/ Ceases(q)
  BY <1>5
<1> QED
  BY <1>4, <1>6, AnswersKept

\* Steps that move no list, or end some.
LEMMA EndsKeep ==
  ASSUME SessionsInv, DocInv, AnswerInv, ~stolen' => ~stolen /\ Known \subseteq Known',
         UNCHANGED acked,
         \A q \in Proc : todo'[q] = << >> \/ (todo'[q] = todo[q] /\ sid'[q] = sid[q])
  PROVE  AnswerInv'
<1>1. \A q \in Proc : GoesOn(q) \/ Ceases(q)
  BY StaysPut, EmptyCeases DEF Ceases
<1>2. ~stolen' => acked' \subseteq Known'
  BY DEF AnswerInv
<1> QED
  BY <1>1, <1>2, AnswersKept

LEMMA ProcessKeepsAnswers ==
  ASSUME SessionsInv, DocInv, AnswerInv, ~stolen' => ~stolen /\ Known \subseteq Known',
         NEW p \in Proc, TakeLock(p) \/ Load(p) \/ SaveRefused(p) \/ Unlock(p) \/ Waits(p)
  PROVE  AnswerInv'
<1> USE DEF DocInv, Fails, history
<1>1. CASE TakeLock(p) \/ Load(p) \/ SaveRefused(p)
  BY <1>1, EndsKeep DEF TakeLock, Load, SaveRefused
<1>2. CASE Unlock(p)
  BY <1>2, EndsKeep DEF Unlock
<1>3. CASE FindStale(p) \/ Reclaim(p)
  BY <1>3, EndsKeep DEF FindStale, Reclaim
<1>4. CASE LockTimesOut(p)
  BY <1>4, EndsKeep DEF LockTimesOut
<1> QED
  BY <1>1, <1>2, <1>3, <1>4 DEF Waits

LEMMA OthersKeepAnswers ==
  ASSUME SessionsInv, DocInv, AnswerInv, ~stolen' => ~stolen /\ Known \subseteq Known'
  PROVE  /\ \A c \in Caller : RefuseTurn(c) => AnswerInv'
         /\ \A t \in Turn : TurnEnds(t) => AnswerInv'
         /\ \A d \in Document : GrowsOld(d) => AnswerInv'
         /\ DashboardDies \/ CommandDies => AnswerInv'
         /\ UNCHANGED vars => AnswerInv'
<1> USE DEF DocInv, Fails, history
<1>1. ASSUME NEW c \in Caller, RefuseTurn(c) PROVE AnswerInv'
  BY <1>1, EndsKeep DEF RefuseTurn, Proc
<1>2. ASSUME NEW t \in Turn, TurnEnds(t) PROVE AnswerInv'
  BY <1>2, EndsKeep DEF TurnEnds, Proc
<1>3. ASSUME NEW d \in Document, GrowsOld(d) PROVE AnswerInv'
  BY <1>3, EndsKeep DEF GrowsOld
<1>4. ASSUME NEW dead, Die(dead) PROVE AnswerInv'
  BY <1>4, EndsKeep DEF Die
<1>5. ASSUME UNCHANGED vars PROVE AnswerInv'
  BY <1>5, EndsKeep DEF vars
<1> QED
  BY <1>1, <1>2, <1>3, <1>4, <1>5 DEF DashboardDies, CommandDies

LEMMA AnswerInit == Init => AnswerInv
<1> SUFFICES ASSUME Init PROVE AnswerInv
  OBVIOUS
<1>1. \A p \in Proc : todo[p] = << >>
  BY DEF Init
<1>2. \A c \in Caller : todo[c] = << >>
  BY <1>1 DEF Proc
<1>3. acked = {}
  BY DEF Init
<1> QED
  BY <1>1, <1>2, <1>3, EmptyCeases DEF AnswerInv, Due

LEMMA AnswerNext == SessionsInv /\ DocInv /\ CopyInv /\ AnswerInv /\ [Next]_vars => AnswerInv'
<1> SUFFICES ASSUME SessionsInv, DocInv, CopyInv, AnswerInv, [Next]_vars PROVE AnswerInv'
  OBVIOUS
<1>1. ~stolen' => ~stolen /\ Known \subseteq Known'
  BY KnownGrows
<1>2. ASSUME NEW p \in Proc, Locate(p) \/ Locked(p) \/ Waits(p) PROVE AnswerInv'
  BY <1>1, <1>2, LocateKeeps, SaveKeepsAnswers, ProcessKeepsAnswers DEF Locked
<1>3. ASSUME NEW c \in Caller, Asks(c) PROVE AnswerInv'
  <2>1. c \in Proc
    BY DEF Proc
  <2> QED
    BY <1>1, <1>3, <2>1, CreateKeeps, FindsKeeps, CreatesKeeps, OtherAsksKeep DEF Asks
<1>4. ASSUME NEW c \in Caller, Goes(c) PROVE AnswerInv'
  BY <1>1, <1>4, NativeKeeps, AdmitKeeps, AnswerKeeps, OthersKeepAnswers DEF Goes
<1>5. ASSUME NEW k \in Command, CommandBinds(k) PROVE AnswerInv'
  <2>1. k \in Proc
    BY DEF Proc
  <2> QED
    BY <1>1, <1>5, <2>1, OtherAsksKeep
<1> QED
  BY <1>1, <1>2, <1>3, <1>4, <1>5, OthersKeepAnswers DEF Next

\* A session whose id a caller was given stays recorded until somebody deletes it,
\* or was folded into the session of its provider's id, through requests that
\* interleave, commands of other processes and deaths at any step, as long as no
\* lock file was taken from a running holder.
THEOREM SessionsAreKept == Spec => []SessionIsKept
<1>1. Init => CopyInv /\ AnswerInv
  BY CopyInit, AnswerInit
<1>2. (SessionsInv /\ DocInv) /\ (CopyInv /\ AnswerInv) /\ [Next]_vars => (CopyInv /\ AnswerInv)'
  BY CopyNext, AnswerNext
<1>3. AnswerInv => SessionIsKept
  BY DEF AnswerInv, SessionIsKept, Known
<1> QED
  BY <1>1, <1>2, <1>3, DocInvariant, PTL DEF Spec
=============================================================================
