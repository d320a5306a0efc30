-------------------------- MODULE ConversationProofs --------------------------
(***************************************************************************)
(* Proofs about Conversation, for any number of turns, changes, page loads *)
(* and crashes, and any size of the server's buffer from two events on.    *)
(*                                                                         *)
(* The server's last events tell of the latest turn as it is (EndTells):   *)
(* the last one while the turn is active, the last but one once it has     *)
(* ended. A page that is connected has on its way whatever it has not seen *)
(* of these two (PipeCovers): a buffer of two events is enough, whatever   *)
(* was dropped before them. So what the page shows of the latest turn is   *)
(* right, or its cursor is from before the event that will put it right    *)
(* (LatestShown), and what the page waits for is then still to come        *)
(* (UpdateIsDue). A turn that has only started, of which no update tells,  *)
(* is one that nobody has said anything of (NothingIsTold), and that is    *)
(* what the page shows of it.                                              *)
(*                                                                         *)
(* A turn of an earlier process that goes on in this one is the latest     *)
(* only until this process has numbered an event (RestoredApart): what it  *)
(* does unheard is never told by the buffer, and while it is the latest,   *)
(* the page has its state from a snapshot or has missed something.         *)
(*                                                                         *)
(* The prompt is sent once because whoever asks for it marks the dispatch, *)
(* and the mark stays until the answer (OnePrompt).                        *)
(***************************************************************************)
EXTENDS Conversation, SequenceTheorems, TLAPS

USE ConversationAssumption

-----------------------------------------------------------------------------
(***************************************************************************)
(* Sequences of events: those that the server keeps, and those on their    *)
(* way to the page.                                                        *)
(***************************************************************************)

Event == [seq : Nat, kind : {"other", "update"}, turn : Turns, version : 0..MaxVersion,
          ended : BOOLEAN]

\* The events are numbered without a gap, up to the last number.
Numbered(es, last) == \A i \in 1 .. Len(es) : es[i].seq = last - Len(es) + i

\* No event tells of a turn but in passing.
Silent(es, t) == \A i \in 1 .. Len(es) : es[i].turn = t => es[i].kind = "other"

\* The last events of a sequence: what is sent at a connection, and what is left
\* after a delivery.
Suffix(es, fs) ==
  /\ fs \in Seq(Event)
  /\ Len(fs) <= Len(es)
  /\ \A i \in 1 .. Len(fs) : fs[i] = es[Len(es) - Len(fs) + i]

\* The last events of a sequence that has been extended, all the new ones among them.
Grown(es, new, fs) ==
  /\ fs \in Seq(Event)
  /\ Len(new) <= Len(fs)
  /\ Len(fs) <= Len(es) + Len(new)
  /\ \A i \in 1 .. Len(new) : fs[Len(fs) - Len(new) + i] = new[i]
  /\ \A i \in 1 .. Len(fs) - Len(new) : fs[i] = es[Len(es) - (Len(fs) - Len(new)) + i]

LEMMA Lengths == \A es \in Seq(Event) : Len(es) \in Nat /\ DOMAIN es = 1 .. Len(es)
BY LenProperties

LEMMA SubSeqSuffix ==
  ASSUME NEW es \in Seq(Event), NEW n \in 0 .. Len(es)
  PROVE  /\ Suffix(es, SubSeq(es, n + 1, Len(es)))
         /\ Len(SubSeq(es, n + 1, Len(es))) = Len(es) - n
<1> DEFINE fs == SubSeq(es, n + 1, Len(es))
<1>1. Len(es) \in Nat /\ n \in Nat /\ n <= Len(es)
  BY Lengths
<1>2. /\ fs \in Seq(Event)
      /\ Len(fs) = IF n + 1 <= Len(es) THEN Len(es) - (n + 1) + 1 ELSE 0
      /\ \A i \in 1 .. Len(es) - (n + 1) + 1 : fs[i] = es[n + 1 + i - 1]
  BY <1>1, SubSeqProperties
<1>3. Len(fs) = Len(es) - n
  BY <1>1, <1>2
<1>4. ASSUME NEW i \in 1 .. Len(fs) PROVE fs[i] = es[Len(es) - Len(fs) + i]
  <2> HIDE DEF fs
  <2>1. i \in 1 .. Len(es) - (n + 1) + 1
    BY <1>1, <1>3
  <2>2. n + 1 + i - 1 = Len(es) - Len(fs) + i
    BY <1>1, <1>3
  <2> QED BY <1>2, <2>1, <2>2
<1>5. Len(fs) <= Len(es)
  BY <1>1, <1>3
<1> QED BY <1>2, <1>3, <1>4, <1>5 DEF Suffix

LEMMA TailSuffix ==
  ASSUME NEW es \in Seq(Event), es # <<>>
  PROVE  /\ Suffix(es, Tail(es)) /\ Len(Tail(es)) = Len(es) - 1
         /\ Head(es) = es[1] /\ Len(es) \in Nat \ {0} /\ Head(es) \in Event
<1>1. /\ Len(es) \in Nat \ {0}
      /\ Tail(es) \in Seq(Event)
      /\ Len(Tail(es)) = Len(es) - 1
      /\ \A i \in 1 .. Len(Tail(es)) : Tail(es)[i] = es[i + 1]
      /\ Head(es) \in Event
  BY HeadTailProperties, EmptySeq
<1>2. \A i \in 1 .. Len(Tail(es)) : i + 1 = Len(es) - Len(Tail(es)) + i
  BY <1>1
<1>3. Head(es) = es[1]
  OBVIOUS
<1> QED BY <1>1, <1>2, <1>3 DEF Suffix

LEMMA ConcatGrown ==
  ASSUME NEW es \in Seq(Event), NEW new \in Seq(Event)
  PROVE  Grown(es, new, es \o new)
<1> DEFINE fs == es \o new
<1>1. /\ fs \in Seq(Event)
      /\ Len(fs) = Len(es) + Len(new)
      /\ \A i \in 1 .. Len(es) + Len(new) : fs[i] = IF i <= Len(es) THEN es[i]
                                                                   ELSE new[i - Len(es)]
  BY ConcatProperties
<1>2. Len(es) \in Nat /\ Len(new) \in Nat
  BY Lengths
<1> HIDE DEF fs
<1>3. \A i \in 1 .. Len(new) : fs[Len(fs) - Len(new) + i] = new[i]
  BY <1>1, <1>2
<1>4. \A i \in 1 .. Len(fs) - Len(new) : fs[i] = es[Len(es) - (Len(fs) - Len(new)) + i]
  BY <1>1, <1>2
<1> QED BY <1>1, <1>2, <1>3, <1>4 DEF Grown, fs

LEMMA LatestGrown ==
  ASSUME NEW es \in Seq(Event), NEW new \in Seq(Event), Len(new) <= BufferSize
  PROVE  /\ Grown(es, new, Latest(es \o new))
         /\ Len(Latest(es \o new)) <= BufferSize
<1> DEFINE whole == es \o new
           n == Larger(0, Len(whole) - BufferSize)
           fs == Latest(whole)
<1>1. Grown(es, new, whole)
  BY ConcatGrown
<1>2. /\ whole \in Seq(Event) /\ Len(whole) = Len(es) + Len(new)
      /\ Len(es) \in Nat /\ Len(new) \in Nat
  BY ConcatProperties, Lengths
<1> HIDE DEF whole
<1>3. /\ n \in 0 .. Len(whole)
      /\ n = IF Len(whole) > BufferSize THEN Len(whole) - BufferSize ELSE 0
  BY <1>2 DEF Larger
<1>4. fs = SubSeq(whole, n + 1, Len(whole))
  BY DEF Latest
<1>5. Suffix(whole, fs) /\ Len(fs) = Len(whole) - n
  BY <1>2, <1>3, <1>4, SubSeqSuffix
<1> HIDE DEF fs, n
<1>6. /\ Len(fs) <= BufferSize /\ Len(new) <= Len(fs)
      /\ Len(fs) \in Nat /\ Len(fs) <= Len(whole)
  <2>1. CASE Len(whole) > BufferSize
    <3>1. Len(fs) = BufferSize
      BY <1>2, <1>3, <1>5, <2>1
    <3> QED BY <1>2, <2>1, <3>1
  <2>2. CASE ~(Len(whole) > BufferSize)
    <3>1. Len(fs) = Len(whole)
      BY <1>2, <1>3, <1>5, <2>2
    <3> QED BY <1>2, <2>2, <3>1
  <2> QED BY <2>1, <2>2
<1>7. ASSUME NEW i \in 1 .. Len(new) PROVE fs[Len(fs) - Len(new) + i] = new[i]
  <2>1. Len(fs) - Len(new) + i \in 1 .. Len(fs)
    BY <1>2, <1>6
  <2>2. fs[Len(fs) - Len(new) + i] = whole[Len(whole) - Len(fs) + (Len(fs) - Len(new) + i)]
    BY <1>5, <2>1 DEF Suffix
  <2>3. Len(whole) - Len(fs) + (Len(fs) - Len(new) + i) = Len(whole) - Len(new) + i
    BY <1>2, <1>6
  <2> QED BY <1>1, <2>2, <2>3 DEF Grown
<1>8. ASSUME NEW i \in 1 .. Len(fs) - Len(new)
      PROVE  fs[i] = es[Len(es) - (Len(fs) - Len(new)) + i]
  <2> DEFINE j == Len(whole) - Len(fs) + i
  <2>1. fs[i] = whole[j]
    BY <1>2, <1>5, <1>6 DEF Suffix
  <2>2. j \in 1 .. Len(whole) - Len(new)
    BY <1>2, <1>6
  <2>3. whole[j] = es[Len(es) - (Len(whole) - Len(new)) + j]
    BY <1>1, <2>2 DEF Grown
  <2>4. Len(es) - (Len(whole) - Len(new)) + j = Len(es) - (Len(fs) - Len(new)) + i
    BY <1>2, <1>6
  <2> QED BY <2>1, <2>3, <2>4
<1>9. Len(fs) <= Len(es) + Len(new) /\ fs \in Seq(Event)
  BY <1>2, <1>5, <1>6 DEF Suffix
<1>10. Grown(es, new, fs)
  BY <1>6, <1>7, <1>8, <1>9 DEF Grown
<1> QED BY <1>6, <1>10 DEF fs, whole

LEMMA SuffixNumbered ==
  ASSUME NEW es \in Seq(Event), NEW fs, Suffix(es, fs), NEW last \in Nat, Numbered(es, last)
  PROVE  Numbered(fs, last)
<1>1. Len(es) \in Nat /\ Len(fs) \in Nat /\ Len(fs) <= Len(es)
  BY Lengths DEF Suffix
<1> SUFFICES ASSUME NEW i \in 1 .. Len(fs) PROVE fs[i].seq = last - Len(fs) + i
  BY DEF Numbered
<1>2. Len(es) - Len(fs) + i \in 1 .. Len(es)
  BY <1>1
<1>3. es[Len(es) - Len(fs) + i].seq = last - Len(es) + (Len(es) - Len(fs) + i)
  BY <1>2 DEF Numbered
<1> QED BY <1>1, <1>3 DEF Suffix

LEMMA SuffixSilent ==
  ASSUME NEW es \in Seq(Event), NEW fs, Suffix(es, fs), NEW t, Silent(es, t)
  PROVE  Silent(fs, t)
<1>1. Len(es) \in Nat /\ Len(fs) \in Nat /\ Len(fs) <= Len(es)
  BY Lengths DEF Suffix
<1> SUFFICES ASSUME NEW i \in 1 .. Len(fs) PROVE fs[i].turn = t => fs[i].kind = "other"
  BY DEF Silent
<1>2. Len(es) - Len(fs) + i \in 1 .. Len(es)
  BY <1>1
<1> QED BY <1>2 DEF Suffix, Silent

LEMMA GrownNumbered ==
  ASSUME NEW es \in Seq(Event), NEW new \in Seq(Event), NEW fs, Grown(es, new, fs),
         NEW last \in Nat, Numbered(es, last), Numbered(new, last + Len(new))
  PROVE  Numbered(fs, last + Len(new))
<1>1. Len(es) \in Nat /\ Len(fs) \in Nat /\ Len(new) \in Nat
      /\ Len(new) <= Len(fs) /\ Len(fs) <= Len(es) + Len(new)
  BY Lengths DEF Grown
<1> SUFFICES ASSUME NEW i \in 1 .. Len(fs) PROVE fs[i].seq = last + Len(new) - Len(fs) + i
  BY DEF Numbered
<1>2. CASE i <= Len(fs) - Len(new)
  <2> DEFINE j == Len(es) - (Len(fs) - Len(new)) + i
  <2>1. j \in 1 .. Len(es)
    BY <1>1, <1>2
  <2>2. es[j].seq = last - Len(es) + j
    BY <2>1 DEF Numbered
  <2>3. fs[i] = es[j]
    BY <1>1, <1>2 DEF Grown
  <2> QED BY <1>1, <2>2, <2>3
<1>3. CASE i > Len(fs) - Len(new)
  <2> DEFINE j == i - (Len(fs) - Len(new))
  <2>1. j \in 1 .. Len(new) /\ Len(fs) - Len(new) + j = i
    BY <1>1, <1>3
  <2>2. fs[i] = new[j] /\ new[j].seq = last + Len(new) - Len(new) + j
    BY <2>1 DEF Grown, Numbered
  <2> QED BY <1>1, <2>1, <2>2
<1> QED BY <1>1, <1>2, <1>3

LEMMA GrownSilent ==
  ASSUME NEW es \in Seq(Event), NEW new \in Seq(Event), NEW fs, Grown(es, new, fs),
         NEW t, Silent(es, t), Silent(new, t)
  PROVE  Silent(fs, t)
<1>1. Len(es) \in Nat /\ Len(fs) \in Nat /\ Len(new) \in Nat
      /\ Len(new) <= Len(fs) /\ Len(fs) <= Len(es) + Len(new)
  BY Lengths DEF Grown
<1> SUFFICES ASSUME NEW i \in 1 .. Len(fs) PROVE fs[i].turn = t => fs[i].kind = "other"
  BY DEF Silent
<1>2. CASE i <= Len(fs) - Len(new)
  <2> DEFINE j == Len(es) - (Len(fs) - Len(new)) + i
  <2>1. j \in 1 .. Len(es)
    BY <1>1, <1>2
  <2>2. fs[i] = es[j]
    BY <1>1, <1>2 DEF Grown
  <2> QED BY <2>1, <2>2 DEF Silent
<1>3. CASE i > Len(fs) - Len(new)
  <2> DEFINE j == i - (Len(fs) - Len(new))
  <2>1. j \in 1 .. Len(new) /\ Len(fs) - Len(new) + j = i
    BY <1>1, <1>3
  <2> QED BY <2>1 DEF Grown, Silent
<1> QED BY <1>1, <1>2, <1>3

-----------------------------------------------------------------------------
(***************************************************************************)
(* The invariant.                                                          *)
(***************************************************************************)

PageType == [loaded : BOOLEAN, pending : BOOLEAN, ready : BOOLEAN,
             version : [Turns -> 0..MaxVersion], ended : SUBSET Turns]

ServerTypes ==
  /\ version \in [Turns -> 0..MaxVersion]
  /\ ended \in SUBSET Turns
  /\ active \in Turns \cup {NoTurn}
  /\ restored \in Turns \cup {NoTurn}
  /\ order \in Seq(Turns)
  /\ throttled \in BOOLEAN
  /\ transcript \in TranscriptType
  /\ file \in TranscriptType
  /\ sequence \in Nat \cup {NoSequence}
  /\ buffer \in Seq(Event)
  /\ Len(buffer) <= BufferSize

PageTypes ==
  /\ page \in PageType
  /\ stream \in {"none", "down", "up"}
  /\ cursor \in Nat
  /\ pipe \in Seq(Event)
  /\ get \in {"none", "asked", "answered", "failed"}
  /\ answer \in TranscriptType
  /\ ahead \in BOOLEAN
  /\ missed \in BOOLEAN

PostTypes ==
  /\ post \in [Turns -> {"none", "sent", "answered", "refused", "ok", "error"}]
  /\ kind \in [Turns -> {"none", "prompt", "message"}]
  /\ dispatch \in {"none", "pending", "in-flight", "failed"}
  /\ orphaned \in SUBSET Turns

Types == ServerTypes /\ PageTypes /\ PostTypes

\* The transcript's number is the last one given, or ahead of it. Since its start, the
\* server has kept its latest events, two of them once a turn has ended.
Numbering ==
  /\ sequence = NoSequence => buffer = <<>> /\ pipe = <<>> /\ active = NoTurn
  /\ sequence # NoSequence => transcript.seq >= sequence /\ order # <<>> /\ Len(buffer) >= 1
  /\ active = NoTurn /\ sequence # NoSequence => Len(buffer) >= 2
  /\ stream # "up" => pipe = <<>>
  /\ Numbered(buffer, LastNumber)
  /\ Numbered(pipe, LastNumber)

\* A turn of which nothing is to be told: it has not started, or has only started.
Untold(t) == post[t] \in {"none", "sent"} \/ (t = active /\ version[t] = 0)

\* A record says nothing of a turn.
Blind(r, t) == r.version[t] = 0 /\ t \notin r.ended

NothingIsTold ==
  \A t \in Turns : Untold(t) =>
    /\ version[t] = 0 /\ t \notin ended
    /\ Blind(transcript, t) /\ Blind(file, t) /\ Blind(answer, t) /\ Blind(page, t)
    /\ Silent(buffer, t) /\ Silent(pipe, t)

\* The transcript is what the turns are, but for a text that streams.
RecordsAgree ==
  /\ active # NoTurn =>
       /\ order # <<>> /\ active = Last
       /\ active \notin ended
       /\ post[active] \notin {"none", "sent"}
  /\ throttled => active # NoTurn /\ version[active] > 0
  /\ transcript.ended = ended
  /\ \A t \in Turns : t # active \/ ~throttled => transcript.version[t] = version[t]

\* The turn that a record has as active has changed since it was started, and is not
\* over.
ActiveRecorded(r) == r.active # NoTurn => r.version[r.active] > 0 /\ r.active \notin r.ended

\* A turn of an earlier process that goes on is not the one that this process runs:
\* before this process starts a turn it is the one in the transcript, and after that it
\* is not the latest.
RestoredApart ==
  /\ ActiveRecorded(transcript) /\ ActiveRecorded(file)
  /\ restored # NoTurn =>
       /\ restored # active
       /\ version[restored] > 0
       /\ sequence = NoSequence => transcript.active \in {NoTurn, restored}
  /\ sequence # NoSequence =>
       /\ restored # Last
       /\ Last = active \/ Last \in ended
  /\ get = "answered" => answer.ended \subseteq ended

\* The cursor of a page that has missed nothing, and a snapshot on its way to it whose
\* number is not ahead, are from before the last event.
CursorBehind ==
  /\ page.loaded /\ ~missed => cursor <= LastNumber
  /\ get = "answered" /\ ~ahead => answer.seq <= LastNumber
  /\ ~page.loaded => stream = "none" /\ ~page.pending

\* The last events tell of the latest turn as it is.
TellsLatest(e) ==
  /\ e.kind = "update"
  /\ e.turn = Last
  /\ e.version = version[Last]
  /\ e.ended <=> Last \in ended

EndTells(es) ==
  es # <<>> /\ order # <<>> /\ ~throttled =>
    IF active # NoTurn
      THEN \/ TellsLatest(es[Len(es)])
           \/ es[Len(es)].kind = "other" /\ version[Last] = 0
      ELSE /\ es[Len(es)].kind = "other"
           /\ Len(es) >= 2 => TellsLatest(es[Len(es) - 1])

\* A page that is connected has on its way whatever it has not seen of the last events.
PipeCovers ==
  stream = "up" /\ sequence # NoSequence =>
    /\ cursor < sequence => Len(pipe) >= 1
    /\ active = NoTurn /\ cursor + 1 < sequence => Len(pipe) >= 2

\* The last update is still to come to whoever has seen the events up to a number.
Behind(seen) ==
  /\ sequence # NoSequence
  /\ IF active = NoTurn THEN seen + 1 < sequence ELSE seen < sequence

ShowsLast(r) == r.version[Last] = version[Last] /\ (Last \in r.ended <=> Last \in ended)

\* What the page shows of the latest turn, and what a snapshot on its way says of it,
\* is what it is or will be put right, but for what nothing will tell the page.
LatestShown ==
  order # <<>> /\ ~throttled =>
    /\ page.loaded /\ ~missed => ShowsLast(page) \/ Behind(cursor)
    /\ get = "answered" /\ ~ahead /\ ~Outdated(answer) => ShowsLast(answer) \/ Behind(answer.seq)

\* A page that waits for a turn which is over has the update of it still to come.
UpdateIsDue ==
  /\ /\ page.pending /\ active = NoTurn /\ ~missed
     /\ \A t \in Turns : t \in orphaned \/ post[t] \notin {"sent", "refused"}
     => sequence # NoSequence /\ cursor + 1 < sequence
  /\ \A t \in orphaned : post[t] # "none"

\* At most one prompt is asked for by a page that awaits, or has had, its answer.
Asks(t) ==
  /\ kind[t] = "prompt"
  /\ t \notin orphaned
  /\ post[t] \in {"sent", "answered", "refused", "ok"}

OnePrompt ==
  /\ \A t \in Turns : Asks(t) => dispatch = IF post[t] = "ok" THEN "none" ELSE "in-flight"
  /\ \A t, u \in Turns : Asks(t) /\ Asks(u) => t = u

-----------------------------------------------------------------------------
(***************************************************************************)
(* What an action of the server that emits events does.                    *)
(***************************************************************************)

\* Some events of a turn are emitted: they follow the last number, the kept ones and
\* those on their way to a page that is connected.
Sent(t, kinds, new) ==
  /\ new \in Seq(Event)
  /\ Len(new) = Len(kinds)
  /\ \A i \in 1 .. Len(kinds) :
       /\ new[i].kind = kinds[i]
       /\ new[i].turn = t
       /\ new[i].version = version'[t]
       /\ new[i].ended = (t \in ended')
  /\ Numbered(new, sequence')
  /\ sequence' = LastNumber + Len(kinds)
  /\ transcript'.seq >= sequence'
  /\ Grown(buffer, new, buffer')
  /\ Len(buffer') <= BufferSize
  /\ IF stream = "up" THEN Grown(pipe, new, pipe') ELSE pipe' = pipe

Emission(t, kinds) == \E new \in Seq(Event) : Sent(t, kinds, new)

LEMMA LastNumbers ==
  ASSUME Types, Numbering
  PROVE  /\ LastNumber \in Nat /\ transcript.seq \in Nat /\ LastNumber <= transcript.seq
         /\ sequence # NoSequence => LastNumber = sequence
<1>1. transcript.seq \in Nat /\ sequence \in Nat \cup {NoSequence}
  BY DEF Types, ServerTypes, TranscriptType
<1> QED BY <1>1 DEF LastNumber, Numbering

LEMMA EmitsSent ==
  ASSUME Types, Numbering, NEW t \in Turns,
         NEW kinds \in {<<"other">>, <<"update">>, <<"update", "other">>},
         version' \in [Turns -> 0..MaxVersion],
         Emits(kinds, t, LastNumber),
         transcript'.seq = Larger(transcript.seq, sequence')
  PROVE  Emission(t, kinds) /\ sequence' \in Nat
<1> DEFINE last == LastNumber
           event(i) == [seq |-> last + i, kind |-> kinds[i], turn |-> t,
                        version |-> version'[t], ended |-> t \in ended']
           new == [i \in DOMAIN kinds |-> event(i)]
<1>1. /\ DOMAIN kinds = 1 .. Len(kinds) /\ Len(kinds) \in 1 .. 2
      /\ \A i \in 1 .. Len(kinds) : kinds[i] \in {"other", "update"}
  OBVIOUS
<1>2. last \in Nat /\ transcript.seq \in Nat
  BY LastNumbers
<1>3. \A i \in 1 .. Len(kinds) : event(i) \in Event
  BY <1>1, <1>2 DEF Event
<1>4. new \in [1 .. Len(kinds) -> Event]
  BY <1>1, <1>3
<1>5. new \in Seq(Event) /\ Len(new) = Len(kinds)
  <2> HIDE DEF new
  <2>1. new \in Seq(Event)
    BY <1>1, <1>4, SeqDef
  <2> QED BY <1>1, <1>4, <2>1, LenProperties
<1>6. \A i \in 1 .. Len(kinds) :
        /\ new[i].seq = last + i
        /\ new[i].kind = kinds[i]
        /\ new[i].turn = t
        /\ new[i].version = version'[t]
        /\ new[i].ended = (t \in ended')
  BY <1>1
<1>7. /\ sequence' = last + Len(kinds)
      /\ buffer' = Latest(buffer \o new)
      /\ pipe' = IF stream = "up" THEN pipe \o new ELSE pipe
  BY DEF Emits
<1> HIDE DEF new, last
<1>8. sequence' \in Nat /\ transcript'.seq >= sequence'
  BY <1>1, <1>2, <1>7 DEF Larger
<1>9. Numbered(new, sequence')
  BY <1>1, <1>2, <1>5, <1>6, <1>7, <1>8 DEF Numbered
<1>10. Grown(buffer, new, buffer') /\ Len(buffer') <= BufferSize
  <2>1. Len(new) <= BufferSize
    BY <1>1, <1>5
  <2> DEFINE es == buffer
  <2>2. es \in Seq(Event)
    BY DEF Types, ServerTypes
  <2> HIDE DEF es
  <2>3. Grown(es, new, Latest(es \o new)) /\ Len(Latest(es \o new)) <= BufferSize
    BY <1>5, <2>1, <2>2, LatestGrown
  <2> QED BY <1>7, <2>3 DEF es
<1>11. stream = "up" => Grown(pipe, new, pipe')
  BY <1>5, <1>7, ConcatGrown DEF Types, PageTypes
<1> QED BY <1>5, <1>6, <1>7, <1>8, <1>9, <1>10, <1>11 DEF Emission, Sent, last

-----------------------------------------------------------------------------
(***************************************************************************)
(* The actions that emit events.                                           *)
(***************************************************************************)

Inv ==
  /\ Types
  /\ Numbering
  /\ NothingIsTold
  /\ RecordsAgree
  /\ RestoredApart
  /\ CursorBehind
  /\ EndTells(buffer) /\ EndTells(pipe)
  /\ PipeCovers
  /\ LatestShown
  /\ UpdateIsDue
  /\ OnePrompt

\* The transcript is left as it is, but for the number of the last event.
Kept ==
  /\ transcript'.version = transcript.version
  /\ transcript'.ended = transcript.ended
  /\ transcript'.active = transcript.active

\* The transcript has a turn as it is.
Recorded(t) ==
  /\ transcript'.version = [transcript.version EXCEPT ![t] = version'[t]]
  /\ transcript'.ended = IF t \in ended' THEN transcript.ended \cup {t}
                                         ELSE transcript.ended \ {t}
  /\ transcript'.active = IF t \in ended' THEN NoTurn ELSE t

\* What the emitting actions have in common.
Emitted(t, kinds) ==
  /\ Emission(t, kinds)
  /\ sequence' \in Nat
  /\ transcript' \in TranscriptType
  /\ version' \in [Turns -> 0..MaxVersion]
  /\ ended' \in SUBSET Turns

LEMMA EventAppliedKeeps ==
  ASSUME Types, transcript' = EventApplied, sequence' \in Nat
  PROVE  Kept /\ transcript' \in TranscriptType /\ transcript'.seq = Larger(transcript.seq, sequence')
<1>1. transcript \in TranscriptType
  BY DEF Types, ServerTypes
<1>2. Larger(transcript.seq, sequence') \in Nat
  BY <1>1 DEF Larger, TranscriptType
<1> QED BY <1>1, <1>2 DEF EventApplied, Kept, TranscriptType

LEMMA TurnAppliedRecords ==
  ASSUME Types, NEW t \in Turns, transcript' = TurnApplied(t), sequence' \in Nat,
         version' \in [Turns -> 0..MaxVersion]
  PROVE  /\ Recorded(t) /\ transcript' \in TranscriptType
         /\ transcript'.seq = Larger(transcript.seq, sequence')
<1>1. transcript \in TranscriptType
  BY DEF Types, ServerTypes
<1>2. Larger(transcript.seq, sequence') \in Nat
  BY <1>1 DEF Larger, TranscriptType
<1>3. /\ EventApplied \in TranscriptType
      /\ EventApplied.version = transcript.version
      /\ EventApplied.ended = transcript.ended
      /\ EventApplied.active = transcript.active
      /\ EventApplied.seq = Larger(transcript.seq, sequence')
  BY <1>1, <1>2 DEF EventApplied, TranscriptType
<1>4. version'[t] \in 0..MaxVersion
  OBVIOUS
<1> HIDE DEF EventApplied
<1>5. transcript' = [EventApplied EXCEPT !.version[t] = version'[t],
                      !.ended = IF t \in ended' THEN @ \cup {t} ELSE @ \ {t},
                      !.active = IF t \in ended' THEN NoTurn ELSE t]
  BY DEF TurnApplied, TurnRecorded
<1>6. transcript' = [version |-> [transcript.version EXCEPT ![t] = version'[t]],
                      ended |-> IF t \in ended' THEN transcript.ended \cup {t}
                                                ELSE transcript.ended \ {t},
                      active |-> IF t \in ended' THEN NoTurn ELSE t,
                      seq |-> Larger(transcript.seq, sequence')]
  <2> DEFINE r == EventApplied
  <2>1. r = [version |-> transcript.version, ended |-> transcript.ended,
             active |-> transcript.active, seq |-> Larger(transcript.seq, sequence')]
    BY <1>1 DEF EventApplied, TranscriptType
  <2> QED BY <1>5, <2>1
<1>7. [transcript.version EXCEPT ![t] = version'[t]] \in [Turns -> 0..MaxVersion]
  BY <1>1, <1>4 DEF TranscriptType
<1>8. transcript.ended \cup {t} \in SUBSET Turns /\ transcript.ended \ {t} \in SUBSET Turns
  BY <1>1 DEF TranscriptType
<1> QED BY <1>2, <1>6, <1>7, <1>8 DEF Recorded, TranscriptType

\* A turn that is active is the latest one, and events have been numbered.
LEMMA ActiveTurn ==
  ASSUME Types, Numbering, RecordsAgree, NEW t \in Turns, active = t
  PROVE  /\ active # NoTurn /\ sequence = LastNumber /\ sequence \in Nat
         /\ order # <<>> /\ t = Last /\ t \notin ended /\ post[t] \notin {"none", "sent"}
<1>1. active # NoTurn
  OBVIOUS
<1>2. sequence # NoSequence /\ sequence \in Nat
  BY <1>1 DEF Types, ServerTypes, Numbering
<1> QED BY <1>1, <1>2 DEF LastNumber, RecordsAgree

LEMMA StartEmits ==
  ASSUME Types, Numbering, RecordsAgree, NEW t \in Turns, ServeStart(t)
  PROVE  Emitted(t, <<"other">>) /\ Kept
<1>1. Emits(<<"other">>, t, LastNumber)
  BY DEF ServeStart
<1>2. sequence' \in Nat
  BY <1>1, LastNumbers DEF Emits
<1>3. Kept /\ transcript' \in TranscriptType /\ transcript'.seq = Larger(transcript.seq, sequence')
  BY <1>2, EventAppliedKeeps DEF ServeStart
<1>4. version' \in [Turns -> 0..MaxVersion] /\ ended' \in SUBSET Turns
  BY DEF ServeStart, Types, ServerTypes
<1>5. Emission(t, <<"other">>)
  BY <1>1, <1>3, <1>4, EmitsSent
<1> QED BY <1>2, <1>3, <1>4, <1>5 DEF Emitted

LEMMA ChangedVersions ==
  ASSUME Types, NEW t \in Turns, TurnChanges(t)
  PROVE  /\ version' \in [Turns -> 0..MaxVersion] /\ ended' \in SUBSET Turns
         /\ version'[t] = version[t] + 1
         /\ \A u \in Turns : u # t => version'[u] = version[u]
BY DEF TurnChanges, Types, ServerTypes

LEMMA ProgressEmits ==
  ASSUME Types, Numbering, RecordsAgree, NEW t \in Turns, Progress(t)
  PROVE  Emitted(t, <<"update">>) /\ Recorded(t)
<1>1. Emits(<<"update">>, t, LastNumber)
  BY ActiveTurn DEF Progress, TurnChanges
<1>2. sequence' \in Nat
  BY <1>1, LastNumbers DEF Emits
<1>3. version' \in [Turns -> 0..MaxVersion] /\ ended' \in SUBSET Turns
  BY ChangedVersions DEF Progress
<1>4. Recorded(t) /\ transcript' \in TranscriptType /\ transcript'.seq = Larger(transcript.seq, sequence')
  BY <1>2, <1>3, TurnAppliedRecords DEF Progress
<1>5. Emission(t, <<"update">>)
  BY <1>1, <1>3, <1>4, EmitsSent
<1> QED BY <1>2, <1>3, <1>4, <1>5 DEF Emitted

LEMMA DeltaEmits ==
  ASSUME Types, Numbering, RecordsAgree, NEW t \in Turns, Delta(t)
  PROVE  Emitted(t, <<"other">>) /\ Kept
<1>1. Emits(<<"other">>, t, LastNumber)
  BY ActiveTurn DEF Delta, TurnChanges
<1>2. sequence' \in Nat
  BY <1>1, LastNumbers DEF Emits
<1>3. version' \in [Turns -> 0..MaxVersion] /\ ended' \in SUBSET Turns
  BY ChangedVersions DEF Delta
<1>4. Kept /\ transcript' \in TranscriptType /\ transcript'.seq = Larger(transcript.seq, sequence')
  BY <1>2, EventAppliedKeeps DEF Delta
<1>5. Emission(t, <<"other">>)
  BY <1>1, <1>3, <1>4, EmitsSent
<1> QED BY <1>2, <1>3, <1>4, <1>5 DEF Emitted

LEMMA UpdateDueEmits ==
  ASSUME Types, Numbering, RecordsAgree, NEW t \in Turns, UpdateDue(t)
  PROVE  Emitted(t, <<"update">>) /\ Recorded(t)
<1>1. Emits(<<"update">>, t, LastNumber)
  BY ActiveTurn DEF UpdateDue
<1>2. sequence' \in Nat
  BY <1>1, LastNumbers DEF Emits
<1>3. version' \in [Turns -> 0..MaxVersion] /\ ended' \in SUBSET Turns
  BY DEF UpdateDue, Types, ServerTypes
<1>4. Recorded(t) /\ transcript' \in TranscriptType /\ transcript'.seq = Larger(transcript.seq, sequence')
  BY <1>2, <1>3, TurnAppliedRecords DEF UpdateDue
<1>5. Emission(t, <<"update">>)
  BY <1>1, <1>3, <1>4, EmitsSent
<1> QED BY <1>2, <1>3, <1>4, <1>5 DEF Emitted

LEMMA EndsEmits ==
  ASSUME Types, Numbering, RecordsAgree, NEW t \in Turns, Ends(t)
  PROVE  Emitted(t, <<"update", "other">>) /\ Recorded(t)
<1>1. Emits(<<"update", "other">>, t, LastNumber)
  BY ActiveTurn DEF Ends
<1>2. sequence' \in Nat
  BY <1>1, LastNumbers DEF Emits
<1>3. version' \in [Turns -> 0..MaxVersion] /\ ended' \in SUBSET Turns
  BY DEF Ends, Types, ServerTypes
<1>4. Recorded(t) /\ transcript' \in TranscriptType /\ transcript'.seq = Larger(transcript.seq, sequence')
  BY <1>2, <1>3, TurnAppliedRecords DEF Ends
<1>5. Emission(t, <<"update", "other">>)
  BY <1>1, <1>3, <1>4, EmitsSent
<1> QED BY <1>2, <1>3, <1>4, <1>5 DEF Emitted

-----------------------------------------------------------------------------
(***************************************************************************)
(* The steps of the system, those on requests taken together.              *)
(***************************************************************************)

\* What the steps on requests have in common, and a stutter.
Requesting ==
  /\ UNCHANGED <<serverVars, streamVars, getVars, missed>>
  /\ page'.loaded = page.loaded
  /\ page'.version = page.version
  /\ page'.ended = page.ended
  /\ page'.pending => page.pending \/ page.loaded
  /\ \A t \in Turns : post'[t] \in {"none", "sent"} => post[t] \in {"none", "sent"}

PageStep ==
  \/ Load \/ Chat \/ SnapshotArrives \/ SnapshotFails
  \/ Connect \/ Disconnect \/ Deliver \/ PageReload

Emitting(t) == ServeStart(t) \/ Progress(t) \/ Delta(t) \/ UpdateDue(t) \/ Ends(t)

Posting(t) == ServeConflict(t) \/ SendTurn(t) \/ CheckAndDispatch(t) \/ Answered(t) \/ Refused(t)

LEMMA PostingRequests ==
  ASSUME Types, NEW t \in Turns, Posting(t)
  PROVE  Requesting /\ page' \in PageType
<1> USE DEF Types, PageTypes, PostTypes, PageType, Requesting
<1>1. CASE ServeConflict(t)
  BY <1>1 DEF ServeConflict
<1>2. ASSUME NEW what, Sends(t, what), UNCHANGED <<serverVars, streamVars, getVars, missed>>
      PROVE  Requesting /\ page' \in PageType
  <2>1. page' = [page EXCEPT !.pending = TRUE] /\ post' = [post EXCEPT ![t] = "sent"]
    BY <1>2 DEF Sends
  <2>2. post[t] = "none"
    <3>1. \A u \in Turns : post[u] = "none" <=> u >= t
      BY <1>2 DEF Sends
    <3>2. t >= t
      BY DEF ConversationAssumption
    <3> QED BY <3>1, <3>2
  <2>3. page.loaded
    BY <1>2 DEF Sends
  <2>4. /\ page'.loaded = page.loaded /\ page'.version = page.version
        /\ page'.ended = page.ended /\ page' \in PageType
    BY <2>1
  <2>5. \A u \in Turns : post'[u] \in {"none", "sent"} => post[u] \in {"none", "sent"}
    BY <2>1, <2>2
  <2> QED BY <1>2, <2>3, <2>4, <2>5
<1>3. CASE SendTurn(t)
  BY <1>2, <1>3 DEF SendTurn, Sends
<1>4. CASE CheckAndDispatch(t)
  BY <1>2, <1>4 DEF CheckAndDispatch, Sends
<1>5. CASE Answered(t)
  BY <1>5 DEF Answered
<1>6. CASE Refused(t)
  BY <1>6 DEF Refused
<1> QED BY <1>1, <1>3, <1>4, <1>5, <1>6 DEF Posting

LEMMA StepCases ==
  ASSUME Types, [Next]_vars
  PROVE  \/ \E t \in Turns : Emitting(t)
         \/ \E t \in Turns : RestoredStep(t)
         \/ Requesting
         \/ Save
         \/ PageStep
         \/ Crash
<1>1. CASE UNCHANGED vars
  BY <1>1 DEF vars, Requesting, postVars
<1>2. CASE RetryInitial
  BY <1>2 DEF RetryInitial, Requesting
<1>3. CASE \E t \in Turns : Serve(t) \/ TurnStep(t) \/ Request(t) \/ Response(t)
  <2> PICK t \in Turns : Serve(t) \/ TurnStep(t) \/ Request(t) \/ Response(t)
    BY <1>3
  <2>1. Emitting(t) \/ Posting(t)
    BY DEF Serve, TurnStep, Request, Response, Emitting, Posting
  <2> QED BY <2>1, PostingRequests
<1>4. CASE \/ Save \/ Load \/ Chat \/ SnapshotArrives \/ SnapshotFails
           \/ Connect \/ Disconnect \/ Deliver \/ PageReload \/ Crash
  BY <1>4 DEF PageStep
<1>5. CASE \E t \in Turns : RestoredStep(t)
  BY <1>5
<1> QED BY <1>1, <1>2, <1>3, <1>4, <1>5 DEF Next

-----------------------------------------------------------------------------
(***************************************************************************)
(* The types.                                                              *)
(***************************************************************************)

LEMMA EmptyRecords == Empty \in TranscriptType /\ Blank \in PageType
BY DEF Empty, Blank, TranscriptType, PageType

LEMMA RecordedType ==
  ASSUME NEW r \in TranscriptType, NEW t \in Turns, NEW n \in 0..MaxVersion, NEW over \in BOOLEAN
  PROVE  TurnRecorded(r, t, n, over) \in TranscriptType
BY DEF TurnRecorded, TranscriptType

LEMMA InterruptedType ==
  ASSUME NEW r \in TranscriptType
  PROVE  /\ Interrupted(r) \in TranscriptType
         /\ Interrupted(r).version = r.version
         /\ Interrupted(r).active = NoTurn
         /\ Interrupted(r).ended = r.ended \cup ({r.active} \ {NoTurn})
<1>1. CASE r.active = NoTurn
  BY <1>1 DEF Interrupted, TranscriptType
<1>2. CASE r.active # NoTurn
  <2>1. Interrupted(r) = [version |-> r.version, ended |-> r.ended \cup {r.active},
                          active |-> NoTurn, seq |-> r.seq + 1]
    BY <1>2 DEF Interrupted, TranscriptType
  <2> QED BY <1>2, <2>1 DEF TranscriptType
<1> QED BY <1>1, <1>2

\* What a restored turn does.
LEMMA RestoredDoes ==
  ASSUME Types, RestoredApart, NEW t \in Turns, RestoredStep(t)
  PROVE  /\ UNCHANGED <<active, order, throttled, file, sequence, buffer, page, stream, cursor,
                        pipe, get, answer, ahead, post, kind, dispatch, orphaned>>
         /\ transcript' \in TranscriptType /\ transcript'.seq >= transcript.seq
         /\ version' \in [Turns -> 0..MaxVersion] /\ ended' \in SUBSET Turns
         /\ missed' \in BOOLEAN
         /\ restored' = t /\ t # active /\ t \in Turns
         /\ \A u \in Turns : u # t => /\ transcript'.version[u] = transcript.version[u]
                                      /\ version'[u] = version[u]
                                      /\ u \in ended' <=> u \in ended
         /\ ended \subseteq ended' /\ version'[t] >= version[t]
         /\ \/ /\ transcript.active = t /\ t # restored
               /\ UNCHANGED <<transcript, version, ended, missed>>
            \/ /\ restored = t /\ t \notin ended /\ version'[t] > 0
               /\ missed' = (missed \/ (page.loaded /\ t = Last))
               /\ transcript'.version[t] = version'[t]
               /\ transcript'.ended = IF t \in ended' THEN transcript.ended \cup {t}
                                                      ELSE transcript.ended \ {t}
               /\ transcript'.active = IF t \in ended' THEN NoTurn ELSE t
<1> USE DEF turnVars, streamVars, getVars, postVars
<1>1. /\ transcript \in TranscriptType /\ version \in [Turns -> 0..MaxVersion]
      /\ ended \in SUBSET Turns /\ missed \in BOOLEAN /\ page \in PageType
  BY DEF Types, ServerTypes, PageTypes
<1>2. t # NoTurn
  BY DEF ConversationAssumption
<1>3. CASE Restore(t)
  BY <1>1, <1>3 DEF Restore, TranscriptType
<1>4. ASSUME NEW over \in BOOLEAN, RestoredRecords(t, over), over <=> t \in ended',
             version' \in [Turns -> 0..MaxVersion], version'[t] >= version[t],
             \A u \in Turns : u # t => version'[u] = version[u],
             ended' = IF over THEN ended \cup {t} ELSE ended
      PROVE  /\ transcript' \in TranscriptType /\ transcript'.seq >= transcript.seq
             /\ missed' \in BOOLEAN /\ version'[t] > 0
             /\ \A u \in Turns : u # t => transcript'.version[u] = transcript.version[u]
             /\ transcript'.version[t] = version'[t]
             /\ transcript'.ended = IF t \in ended' THEN transcript.ended \cup {t}
                                                    ELSE transcript.ended \ {t}
             /\ transcript'.active = IF t \in ended' THEN NoTurn ELSE t
  <2>1. PICK seq \in {transcript.seq, transcript.seq + 1} :
          transcript' = TurnRecorded([transcript EXCEPT !.seq = seq], t, version'[t], over)
    BY <1>4 DEF RestoredRecords
  <2>2. seq \in Nat /\ seq >= transcript.seq /\ version'[t] \in 0..MaxVersion
    BY <1>1, <1>4 DEF TranscriptType
  <2>3. transcript' = [version |-> [transcript.version EXCEPT ![t] = version'[t]],
                       ended |-> IF over THEN transcript.ended \cup {t}
                                         ELSE transcript.ended \ {t},
                       active |-> IF over THEN NoTurn ELSE t,
                       seq |-> seq]
    BY <1>1, <2>1 DEF TurnRecorded, TranscriptType
  <2>4. transcript.version \in [Turns -> 0..MaxVersion] /\ transcript.ended \in SUBSET Turns
    BY <1>1 DEF TranscriptType
  <2>5. [transcript.version EXCEPT ![t] = version'[t]] \in [Turns -> 0..MaxVersion]
    BY <2>2, <2>4
  <2>6. transcript' \in TranscriptType
    BY <2>2, <2>3, <2>4, <2>5 DEF TranscriptType
  <2>7. restored = t /\ missed' = (missed \/ (page.loaded /\ t = Last))
    BY <1>4 DEF RestoredRecords
  <2>8. version[t] > 0 /\ version[t] \in Nat /\ version'[t] \in Nat
    <3>1. restored # NoTurn => version[restored] > 0
      BY DEF RestoredApart
    <3>2. version[t] > 0
      BY <1>2, <2>7, <3>1
    <3> QED BY <1>1, <1>4, <3>2
  <2>9. missed' \in BOOLEAN
    BY <1>1, <2>7 DEF PageType
  <2> QED BY <1>4, <2>2, <2>3, <2>4, <2>6, <2>8, <2>9
<1>5. CASE RestoredChanges(t)
  <2>1. /\ version' = [version EXCEPT ![t] = @ + 1] /\ version[t] < MaxVersion
        /\ RestoredRecords(t, FALSE) /\ ended' = ended
    BY <1>5 DEF RestoredChanges
  <2>2. /\ version' \in [Turns -> 0..MaxVersion] /\ version'[t] >= version[t]
        /\ \A u \in Turns : u # t => version'[u] = version[u]
    BY <1>1, <2>1
  <2>3. t \notin ended
    BY <2>1 DEF RestoredRecords
  <2> QED BY <1>1, <1>2, <1>4, <2>1, <2>2, <2>3 DEF RestoredRecords, RestoredApart
<1>6. CASE RestoredEnds(t)
  <2>1. /\ version' = version /\ RestoredRecords(t, TRUE) /\ ended' = ended \cup {t}
    BY <1>6 DEF RestoredEnds
  <2>2. version[t] \in Nat
    BY <1>1
  <2>3. /\ UNCHANGED <<active, restored, order, throttled, file, sequence, buffer, page, stream,
                        cursor, pipe, get, answer, ahead, post, kind, dispatch, orphaned>>
        /\ restored = t /\ t \notin ended
        /\ missed' = (missed \/ (page.loaded /\ t = Last))
    BY <2>1 DEF RestoredRecords
  <2>4. t # active
    BY <1>2, <2>3 DEF RestoredApart
  <2>5. /\ transcript' \in TranscriptType /\ transcript'.seq >= transcript.seq
        /\ missed' \in BOOLEAN /\ version'[t] > 0
        /\ \A u \in Turns : u # t => transcript'.version[u] = transcript.version[u]
        /\ transcript'.version[t] = version'[t]
        /\ transcript'.ended = IF t \in ended' THEN transcript.ended \cup {t}
                                               ELSE transcript.ended \ {t}
        /\ transcript'.active = IF t \in ended' THEN NoTurn ELSE t
    <3>1. t \in ended'
      BY <2>1
    <3>2. version' \in [Turns -> 0..MaxVersion] /\ version'[t] = version[t]
      BY <1>1, <2>1
    <3>3. \A u \in Turns : u # t => version'[u] = version[u]
      BY <2>1
    <3>4. version'[t] >= version[t]
      BY <2>2, <3>2
    <3> QED BY <1>4, <2>1, <3>1, <3>2, <3>3, <3>4
  <2> QED BY <1>1, <2>1, <2>2, <2>3, <2>4, <2>5
<1> QED BY <1>3, <1>5, <1>6 DEF RestoredStep

\* It leaves the other turns as they are, and has been recorded before.
LEMMA RestoredOthers ==
  ASSUME Types, RestoredApart, NEW t \in Turns, RestoredStep(t), NEW u \in Turns, u # t
  PROVE  /\ transcript'.version[u] = transcript.version[u]
         /\ version'[u] = version[u]
         /\ u \in ended' <=> u \in ended
BY RestoredDoes

LEMMA RestoredCases ==
  ASSUME Types, RestoredApart, NEW t \in Turns, RestoredStep(t)
  PROVE  /\ t # active /\ version'[t] >= version[t]
         /\ \/ /\ transcript.active = t /\ t # restored
               /\ UNCHANGED <<transcript, version, ended, missed>>
            \/ /\ restored = t /\ t \notin ended
               /\ missed' = (missed \/ (page.loaded /\ t = Last))
               /\ transcript'.version[t] = version'[t]
               /\ transcript'.ended = IF t \in ended' THEN transcript.ended \cup {t}
                                                      ELSE transcript.ended \ {t}
BY RestoredDoes

\* Events that are emitted are events.
LEMMA EmissionTypes ==
  ASSUME Types, NEW t \in Turns, NEW kinds, Emission(t, kinds)
  PROVE  /\ buffer' \in Seq(Event) /\ Len(buffer') <= BufferSize
         /\ pipe' \in Seq(Event)
<1> PICK new \in Seq(Event) : Sent(t, kinds, new)
  BY DEF Emission
<1>1. pipe \in Seq(Event)
  BY DEF Types, PageTypes
<1> QED BY <1>1 DEF Sent, Grown

LEMMA EmittingTypes ==
  ASSUME Types, Numbering, RecordsAgree, NEW t \in Turns, Emitting(t)
  PROVE  Types'
<1>1. /\ transcript' \in TranscriptType /\ sequence' \in Nat
      /\ version' \in [Turns -> 0..MaxVersion] /\ ended' \in SUBSET Turns
      /\ buffer' \in Seq(Event) /\ Len(buffer') <= BufferSize
      /\ pipe' \in Seq(Event)
  BY StartEmits, ProgressEmits, DeltaEmits, UpdateDueEmits, EndsEmits, EmissionTypes
     DEF Emitting, Emitted
<1>2. /\ active' \in Turns \cup {NoTurn}
      /\ restored' = restored
      /\ order' \in Seq(Turns)
      /\ throttled' \in BOOLEAN
      /\ file' = file
  <2>1. CASE ServeStart(t)
    BY <2>1, AppendProperties DEF Types, ServerTypes, ServeStart
  <2>2. CASE Progress(t) \/ Delta(t) \/ UpdateDue(t) \/ Ends(t)
    BY <2>2 DEF Types, ServerTypes, Progress, Delta, UpdateDue, Ends, TurnChanges
  <2> QED BY <2>1, <2>2 DEF Emitting
<1>3. UNCHANGED <<page, stream, cursor, get, answer, ahead, missed, kind, dispatch, orphaned>>
  BY DEF Emitting, ServeStart, Progress, Delta, UpdateDue, Ends, getVars, postVars
<1>4. post' = post \/ post' = [post EXCEPT ![t] = "answered"]
  BY DEF Emitting, ServeStart, Progress, Delta, UpdateDue, Ends, postVars
<1>5. ServerTypes'
  BY <1>1, <1>2 DEF Types, ServerTypes
<1>6. PageTypes'
  BY <1>1, <1>3 DEF Types, PageTypes
<1>7. PostTypes'
  BY <1>3, <1>4 DEF Types, PostTypes
<1> QED BY <1>5, <1>6, <1>7 DEF Types

LEMMA PostingTypes ==
  ASSUME Types, NEW t \in Turns, Posting(t)
  PROVE  Types'
<1>1. ServerTypes' /\ PageTypes'
  BY PostingRequests
     DEF Types, ServerTypes, PageTypes, Requesting, serverVars, turnVars, streamVars, getVars
<1>2. PostTypes'
  BY DEF Types, PostTypes, Posting, ServeConflict, SendTurn, CheckAndDispatch, Sends, Answered,
         Refused
<1> QED BY <1>1, <1>2 DEF Types

LEMMA PageStepTypes ==
  ASSUME Types, PageStep
  PROVE  Types'
<1> USE DEF Types, serverVars, turnVars, streamVars, getVars, postVars
<1>1. CASE Load
  BY <1>1 DEF Load, ServerTypes, PageTypes, PostTypes
<1>2. CASE Chat
  <2> DEFINE t == transcript.active
  <2>1. answer' \in TranscriptType
    <3>1. CASE t # NoTurn /\ t \in {active, restored}
      <4>1. t \in Turns /\ version[t] \in 0..MaxVersion /\ transcript \in TranscriptType
        BY <3>1 DEF ServerTypes
      <4>2. answer' = TurnRecorded(transcript, t, version[t], FALSE)
        BY <1>2, <3>1 DEF Chat
      <4> QED BY <4>1, <4>2, RecordedType
    <3>2. CASE ~(t # NoTurn /\ t \in {active, restored})
      <4>1. answer' = [transcript EXCEPT !.active = NoTurn]
        BY <1>2, <3>2 DEF Chat
      <4> QED BY <4>1 DEF ServerTypes, TranscriptType
    <3> QED BY <3>1, <3>2
  <2>2. ahead' \in BOOLEAN
    BY <1>2 DEF Chat
  <2> QED BY <1>2, <2>1, <2>2 DEF Chat, ServerTypes, PageTypes, PostTypes
<1>3. CASE SnapshotArrives
  <2>1. /\ answer \in TranscriptType /\ cursor \in Nat
        /\ Ready(answer) \in BOOLEAN
        /\ missed' \in BOOLEAN /\ get' \in {"none"} /\ UNCHANGED <<stream, pipe, ahead>>
    BY <1>3 DEF SnapshotArrives, PageTypes, Ready
  <2>2. answer.version \in [Turns -> 0..MaxVersion] /\ answer.ended \in SUBSET Turns
        /\ answer.seq \in Nat
    BY <2>1 DEF TranscriptType
  <2>3. page' \in PageType /\ cursor' \in Nat
    BY <1>3, <2>1, <2>2 DEF SnapshotArrives, PageType
  <2>4. answer' \in TranscriptType
    BY <1>3, EmptyRecords DEF SnapshotArrives
  <2>5. PageTypes'
    BY <2>1, <2>3, <2>4 DEF PageTypes
  <2> QED BY <1>3, <2>5 DEF SnapshotArrives, ServerTypes, PostTypes
<1>4. CASE SnapshotFails
  <2>1. PageTypes'
    <3>1. /\ page' = Blank /\ stream' = "none" /\ pipe' = <<>> /\ get' = "none"
          /\ missed' = FALSE /\ UNCHANGED <<cursor, answer, ahead>>
      BY <1>4 DEF SnapshotFails
    <3>2. page' \in PageType /\ pipe' \in Seq(Event)
      BY <3>1, EmptyRecords, EmptySeq
    <3> QED BY <3>1, <3>2, EmptyRecords DEF PageTypes
  <2> QED BY <1>4, <2>1 DEF SnapshotFails, ServerTypes, PostTypes
<1>5. CASE Connect
  <2>1. pipe' \in Seq(Event)
    <3>1. PICK n \in 0 .. Len(buffer) : pipe' = SubSeq(buffer, n + 1, Len(buffer))
      BY <1>5 DEF Connect
    <3> QED BY <3>1, SubSeqSuffix DEF ServerTypes, Suffix
  <2> QED BY <1>5, <2>1 DEF Connect, ServerTypes, PageTypes, PostTypes
<1>6. CASE Disconnect
  BY <1>6 DEF Disconnect, ServerTypes, PageTypes, PostTypes
<1>7. CASE Deliver
  <2> DEFINE e == Head(pipe)
  <2>1. pipe # <<>> /\ pipe' = Tail(pipe) /\ cursor' = e.seq /\ UNCHANGED <<stream, get, answer, ahead>>
    BY <1>7 DEF Deliver
  <2>2. e \in Event /\ pipe' \in Seq(Event)
    BY <2>1, TailSuffix DEF PageTypes, Suffix
  <2>3. page' \in PageType /\ missed' \in BOOLEAN
    <3>1. CASE e.kind = "update"
      <4> HIDE DEF e
      <4>1. /\ page' = [page EXCEPT !.version[e.turn] = e.version,
                                    !.ended = IF e.ended THEN @ \cup {e.turn} ELSE @ \ {e.turn},
                                    !.pending = FALSE,
                                    !.ready = e.ended]
            /\ missed' = (missed /\ e.turn # Last)
        BY <1>7, <3>1 DEF Deliver, e
      <4>2. e.turn \in Turns /\ e.version \in 0..MaxVersion /\ e.ended \in BOOLEAN
        BY <2>2 DEF Event
      <4> QED BY <4>1, <4>2 DEF PageTypes, PageType
    <3>2. CASE e.kind # "update"
      BY <1>7, <3>2 DEF Deliver, PageTypes
    <3> QED BY <3>1, <3>2
  <2>4. cursor' \in Nat
    BY <2>1, <2>2 DEF Event
  <2>5. PageTypes'
    BY <2>1, <2>2, <2>3, <2>4 DEF PageTypes
  <2> QED BY <1>7, <2>5 DEF Deliver, ServerTypes, PostTypes
<1>8. CASE PageReload
  <2>1. PageTypes'
    <3>1. /\ page' = Blank /\ stream' = "none" /\ pipe' = <<>> /\ get' = "none"
          /\ answer' = Empty /\ missed' = FALSE /\ UNCHANGED <<cursor, ahead>>
      BY <1>8 DEF PageReload
    <3>2. page' \in PageType /\ pipe' \in Seq(Event)
      BY <3>1, EmptyRecords, EmptySeq
    <3> QED BY <3>1, <3>2, EmptyRecords DEF PageTypes
  <2>2. PostTypes'
    BY <1>8 DEF PageReload, PostTypes
  <2> QED BY <1>8, <2>1, <2>2 DEF PageReload, ServerTypes
<1> QED BY <1>1, <1>2, <1>3, <1>4, <1>5, <1>6, <1>7, <1>8 DEF PageStep

LEMMA TypesKept ==
  ASSUME Types, Numbering, RecordsAgree, RestoredApart, [Next]_vars
  PROVE  Types'
<1> USE DEF serverVars, turnVars, streamVars, getVars, postVars
<1>1. CASE UNCHANGED vars
  BY <1>1 DEF vars, Types, ServerTypes, PageTypes, PostTypes
<1>2. CASE RetryInitial
  BY <1>2 DEF RetryInitial, Types, ServerTypes, PageTypes, PostTypes
<1>3. CASE \E t \in Turns : Serve(t) \/ TurnStep(t) \/ Request(t) \/ Response(t)
  <2> PICK t \in Turns : Serve(t) \/ TurnStep(t) \/ Request(t) \/ Response(t)
    BY <1>3
  <2>1. Emitting(t) \/ Posting(t)
    BY DEF Serve, TurnStep, Request, Response, Emitting, Posting
  <2> QED BY <2>1, EmittingTypes, PostingTypes
<1>4. CASE PageStep
  BY <1>4, PageStepTypes
<1>5. CASE Save
  BY <1>5 DEF Save, Types, ServerTypes, PageTypes, PostTypes
<1>6. CASE Crash
  <2>1. /\ transcript' \in {file, Interrupted(file)} /\ version' = file.version
        /\ ended' = transcript'.ended /\ file' = file
    BY <1>6 DEF Crash
  <2>2. /\ transcript' \in TranscriptType /\ version' \in [Turns -> 0..MaxVersion]
        /\ ended' \in SUBSET Turns /\ file' \in TranscriptType
    <3>1. file \in TranscriptType
      BY DEF Types, ServerTypes
    <3> QED BY <2>1, <3>1, InterruptedType DEF TranscriptType
  <2>3. /\ active' = NoTurn /\ restored' = NoTurn /\ throttled' = FALSE /\ sequence' = NoSequence /\ buffer' = <<>>
        /\ order' = order /\ buffer' \in Seq(Event) /\ Len(buffer') <= BufferSize
    BY <1>6, EmptySeq DEF Crash
  <2>4. ServerTypes'
    BY <2>2, <2>3 DEF Types, ServerTypes
  <2>5. PageTypes'
    BY <1>6, EmptyRecords DEF Crash, Types, PageTypes, PageType
  <2>6. PostTypes'
    BY <1>6 DEF Crash, Types, PostTypes
  <2> QED BY <2>4, <2>5, <2>6 DEF Types
<1>7. CASE \E t \in Turns : RestoredStep(t)
  <2> PICK t \in Turns : RestoredStep(t)
    BY <1>7
  <2> QED BY RestoredDoes DEF Types, ServerTypes, PageTypes, PostTypes
<1> QED BY <1>1, <1>2, <1>3, <1>4, <1>5, <1>6, <1>7 DEF Next, PageStep

-----------------------------------------------------------------------------
(***************************************************************************)
(* The numbers of the events.                                              *)
(***************************************************************************)

LEMMA EmissionNumbering ==
  ASSUME Types, Numbering, NEW t \in Turns,
         NEW kinds \in {<<"other">>, <<"update">>, <<"update", "other">>},
         Emitted(t, kinds)
  PROVE  /\ Numbered(buffer', sequence') /\ Len(buffer') >= Len(kinds)
         /\ Numbered(pipe', sequence')
         /\ sequence' = LastNumber + Len(kinds) /\ transcript'.seq >= sequence'
         /\ LastNumber \in Nat /\ Len(kinds) \in {1, 2}
         /\ LastNumber' = sequence'
<1> PICK new \in Seq(Event) : Sent(t, kinds, new)
  BY DEF Emitted, Emission
<1>1. /\ LastNumber \in Nat /\ Len(kinds) \in {1, 2}
      /\ buffer \in Seq(Event) /\ pipe \in Seq(Event)
  BY LastNumbers DEF Types, ServerTypes, PageTypes
<1>2. /\ Len(new) = Len(kinds)
      /\ sequence' = LastNumber + Len(new) /\ transcript'.seq >= sequence'
      /\ Numbered(new, LastNumber + Len(new))
      /\ Grown(buffer, new, buffer')
      /\ IF stream = "up" THEN Grown(pipe, new, pipe') ELSE pipe' = pipe
  BY DEF Sent
<1>3. Numbered(buffer', sequence')
  BY <1>1, <1>2, GrownNumbered DEF Numbering
<1>4. Numbered(pipe', sequence')
  <2>1. CASE stream = "up"
    BY <1>1, <1>2, <2>1, GrownNumbered DEF Numbering
  <2>2. CASE stream # "up"
    <3>1. pipe' = <<>> /\ Len(<<>>) = 0
      BY <1>2, <2>2 DEF Numbering
    <3> QED BY <3>1 DEF Numbered
  <2> QED BY <2>1, <2>2
<1>5. Len(buffer') >= Len(kinds)
  BY <1>2 DEF Grown
<1>6. LastNumber' = sequence'
  BY DEF Emitted, LastNumber
<1> QED BY <1>1, <1>2, <1>3, <1>4, <1>5, <1>6

LEMMA NothingNumbered == \A last : Numbered(<<>>, last)
<1>1. Len(<<>>) = 0
  OBVIOUS
<1> QED BY <1>1 DEF Numbered

LEMMA EmittingKinds ==
  ASSUME Types, Numbering, RecordsAgree, NEW t \in Turns, Emitting(t)
  PROVE  \E kinds \in {<<"other">>, <<"update">>, <<"update", "other">>} :
            Emitted(t, kinds) /\ (Ends(t) => kinds = <<"update", "other">>)
<1>1. CASE ServeStart(t) /\ ~Ends(t)
  BY <1>1, StartEmits
<1>2. CASE Progress(t) /\ ~Ends(t)
  BY <1>2, ProgressEmits
<1>3. CASE Delta(t) /\ ~Ends(t)
  BY <1>3, DeltaEmits
<1>4. CASE UpdateDue(t) /\ ~Ends(t)
  BY <1>4, UpdateDueEmits
<1>5. CASE Ends(t)
  BY <1>5, EndsEmits
<1> QED BY <1>1, <1>2, <1>3, <1>4, <1>5 DEF Emitting

LEMMA EmittingNumbering ==
  ASSUME Types, Numbering, RecordsAgree, NEW t \in Turns, Emitting(t)
  PROVE  Numbering'
<1>1. PICK kinds \in {<<"other">>, <<"update">>, <<"update", "other">>} :
        Emitted(t, kinds) /\ (Ends(t) => kinds = <<"update", "other">>)
  BY EmittingKinds
<1>2. /\ Numbered(buffer', LastNumber') /\ Len(buffer') >= Len(kinds)
      /\ Numbered(pipe', LastNumber')
      /\ transcript'.seq >= sequence' /\ sequence' # NoSequence
      /\ Len(kinds) \in {1, 2}
  BY <1>1, EmissionNumbering DEF Emitted
<1>3. Len(buffer') \in Nat
  BY <1>1, EmissionTypes, Lengths DEF Emitted
<1>4. stream' # "up" => pipe' = <<>>
  <2>1. stream' = stream
    BY DEF Emitting, ServeStart, Progress, Delta, UpdateDue, Ends
  <2>2. stream # "up" => pipe' = pipe
    BY <1>1 DEF Emitted, Emission, Sent
  <2> QED BY <2>1, <2>2 DEF Numbering
<1>5. order' # <<>>
  <2>1. CASE ServeStart(t)
    <3>1. Len(order') = Len(order) + 1 /\ Len(order) \in Nat
      BY <2>1, AppendProperties, LenProperties DEF ServeStart, Types, ServerTypes
    <3> QED BY <3>1
  <2>2. CASE ~ServeStart(t)
    BY <2>2, ActiveTurn DEF Emitting, Progress, Delta, UpdateDue, Ends, TurnChanges
  <2> QED BY <2>1, <2>2
<1>6. active' = NoTurn => Len(buffer') >= 2
  <2>1. CASE Ends(t)
    <3>1. Len(kinds) = 2
      BY <1>1, <2>1
    <3> QED BY <1>2, <3>1
  <2>2. CASE ~Ends(t)
    BY <2>2, ActiveTurn DEF Emitting, ServeStart, Progress, Delta, UpdateDue, TurnChanges,
       ConversationAssumption
  <2> QED BY <2>1, <2>2
<1>7. Len(buffer') >= 1
  BY <1>2, <1>3
<1> QED BY <1>2, <1>4, <1>5, <1>6, <1>7 DEF Numbering

LEMMA NumberingKept ==
  ASSUME Types, Numbering, RecordsAgree, RestoredApart, [Next]_vars
  PROVE  Numbering'
<1> USE DEF serverVars, turnVars, streamVars, LastNumber
<1>1. CASE \E t \in Turns : Emitting(t)
  BY <1>1, EmittingNumbering
<1>2. CASE Requesting
  BY <1>2 DEF Requesting, Numbering
<1>3. CASE Save
  BY <1>3 DEF Save, Numbering
<1>4. CASE Load \/ Chat \/ SnapshotArrives
  BY <1>4 DEF Load, Chat, SnapshotArrives, Numbering
<1>5. CASE SnapshotFails \/ Disconnect \/ PageReload
  BY <1>5, NothingNumbered DEF SnapshotFails, Disconnect, PageReload, Numbering
<1>6. CASE Connect
  <2>1. PICK n \in 0 .. Len(buffer) : pipe' = SubSeq(buffer, n + 1, Len(buffer))
    BY <1>6 DEF Connect
  <2>2. Numbered(pipe', LastNumber)
    <3> HIDE DEF LastNumber
    <3> QED BY <2>1, SubSeqSuffix, SuffixNumbered, LastNumbers DEF Types, ServerTypes, Numbering
  <2>3. UNCHANGED <<sequence, buffer, active, transcript, order>> /\ stream' = "up"
    BY <1>6 DEF Connect
  <2>4. sequence = NoSequence => pipe' = <<>>
    <3> SUFFICES ASSUME sequence = NoSequence PROVE pipe' = <<>>
      OBVIOUS
    <3>1. buffer = <<>> /\ Len(buffer) = 0
      BY DEF Numbering
    <3>2. n = 0 /\ pipe' = SubSeq(<<>>, 1, 0)
      BY <2>1, <3>1
    <3> QED BY <3>2
  <2> QED BY <2>2, <2>3, <2>4 DEF Numbering
<1>7. CASE Deliver
  <2>1. pipe # <<>> /\ pipe' = Tail(pipe)
    BY <1>7 DEF Deliver
  <2>2. UNCHANGED <<sequence, buffer, active, transcript, order, stream>>
    BY <1>7 DEF Deliver
  <2>3. Numbered(pipe', LastNumber)
    <3> HIDE DEF LastNumber
    <3> QED BY <2>1, TailSuffix, SuffixNumbered, LastNumbers DEF Types, PageTypes, Numbering
  <2> QED BY <2>1, <2>2, <2>3 DEF Numbering
<1>8. CASE Crash
  <2>1. /\ sequence' = NoSequence /\ buffer' = <<>> /\ pipe' = <<>> /\ active' = NoTurn
    BY <1>8 DEF Crash
  <2> QED BY <2>1, NothingNumbered DEF Numbering
<1>9. CASE \E t \in Turns : RestoredStep(t)
  <2>1. UNCHANGED <<sequence, buffer, pipe, active, order, stream>> /\ transcript'.seq >= transcript.seq
    BY <1>9, RestoredDoes
  <2>2. transcript'.seq \in Nat /\ transcript.seq \in Nat
    BY <1>9, RestoredDoes DEF Types, ServerTypes, TranscriptType
  <2>3. CASE sequence = NoSequence
    BY <2>1, <2>3, NothingNumbered DEF Numbering
  <2>4. CASE sequence # NoSequence
    <3>1. LastNumber' = LastNumber
      BY <2>1, <2>4
    <3>2. sequence \in Nat
      BY <2>4 DEF Types, ServerTypes
    <3> HIDE DEF LastNumber
    <3> QED BY <2>1, <2>2, <2>4, <3>1, <3>2 DEF Numbering
  <2> QED BY <2>3, <2>4
<1> QED BY <1>1, <1>2, <1>3, <1>4, <1>5, <1>6, <1>7, <1>8, <1>9, StepCases DEF PageStep

-----------------------------------------------------------------------------
(***************************************************************************)
(* What is told of a turn that has not begun, and what the transcript is.  *)
(***************************************************************************)

LEMMA EmissionSilent ==
  ASSUME Types, NEW a \in Turns, NEW kinds, Emission(a, kinds), NEW t \in Turns,
         t # a \/ kinds = <<"other">>, Silent(buffer, t), Silent(pipe, t)
  PROVE  Silent(buffer', t) /\ Silent(pipe', t)
<1> PICK new \in Seq(Event) : Sent(a, kinds, new)
  BY DEF Emission
<1>1. Silent(new, t)
  <2>1. CASE t # a
    BY <2>1 DEF Sent, Silent
  <2>2. CASE kinds = <<"other">>
    <3>1. Len(kinds) = 1 /\ kinds[1] = "other"
      BY <2>2
    <3> QED BY <3>1 DEF Sent, Silent
  <2> QED BY <2>1, <2>2
<1>2. Grown(buffer, new, buffer') /\ IF stream = "up" THEN Grown(pipe, new, pipe') ELSE pipe' = pipe
  BY DEF Sent
<1>3. buffer \in Seq(Event) /\ pipe \in Seq(Event)
  BY DEF Types, ServerTypes, PageTypes
<1> QED BY <1>1, <1>2, <1>3, GrownSilent

\* Once something is to be told of a turn, it stays so.
LEMMA UntoldBefore ==
  ASSUME Types, Numbering, RecordsAgree, RestoredApart, [Next]_vars, NEW t \in Turns, Untold(t)'
  PROVE  Untold(t)
<1> USE DEF serverVars, turnVars, streamVars, getVars, postVars
<1>1. CASE \E a \in Turns : Emitting(a)
  <2> PICK a \in Turns : Emitting(a)
    BY <1>1
  <2>1. CASE ServeStart(a)
    BY <2>1 DEF ServeStart, Untold, Types, PostTypes
  <2>2. CASE Progress(a) \/ Delta(a)
    <3>1. TurnChanges(a) /\ post' = post
      BY <2>2 DEF Progress, Delta
    <3>2. /\ active' = active /\ active = a
          /\ version'[a] = version[a] + 1 /\ version[a] \in Nat
      BY <3>1, ChangedVersions DEF TurnChanges, Types, ServerTypes
    <3> QED BY <3>1, <3>2 DEF Untold
  <2>3. CASE UpdateDue(a)
    BY <2>3 DEF UpdateDue, Untold
  <2>4. CASE Ends(a)
    BY <2>4 DEF Ends, Untold, ConversationAssumption
  <2> QED BY <2>1, <2>2, <2>3, <2>4 DEF Emitting
<1>2. CASE Requesting
  BY <1>2 DEF Requesting, Untold
<1>3. CASE Save \/ PageStep
  BY <1>3 DEF Save, PageStep, Load, Chat, SnapshotArrives, SnapshotFails, Connect, Disconnect,
              Deliver, PageReload, Untold
<1>4. CASE Crash
  <2>1. /\ active' = NoTurn
        /\ post'[t] = IF post[t] \in {"sent", "answered"} THEN "refused" ELSE post[t]
    BY <1>4 DEF Crash
  <2> QED BY <2>1 DEF Untold, ConversationAssumption
<1>5. CASE \E a \in Turns : RestoredStep(a)
  <2> PICK a \in Turns : RestoredStep(a)
    BY <1>5
  <2>1. UNCHANGED <<post, active>> /\ a # active
    BY RestoredDoes
  <2>2. t # a => version'[t] = version[t]
    BY RestoredOthers
  <2> QED BY <2>1, <2>2 DEF Untold
<1> QED BY <1>1, <1>2, <1>3, <1>4, <1>5, StepCases

LEMMA EmittingUntold ==
  ASSUME Types, Numbering, NothingIsTold, RecordsAgree, NEW a \in Turns, Emitting(a),
         NEW t \in Turns, Untold(t), Untold(t)'
  PROVE  /\ version'[t] = 0 /\ t \notin ended'
         /\ Blind(transcript', t) /\ Silent(buffer', t) /\ Silent(pipe', t)
<1> USE DEF postVars
<1>1. /\ version[t] = 0 /\ t \notin ended /\ Blind(transcript, t)
      /\ Silent(buffer, t) /\ Silent(pipe, t)
  BY DEF NothingIsTold
<1>2. CASE ServeStart(a)
  <2>1. Emission(a, <<"other">>) /\ Kept
    BY <1>2, StartEmits DEF Emitted
  <2>2. version' = version /\ ended' = ended
    BY <1>2 DEF ServeStart
  <2> QED BY <1>1, <2>1, <2>2, EmissionSilent DEF Kept, Blind
<1>3. CASE Delta(a)
  <2>1. Emission(a, <<"other">>) /\ Kept
    BY <1>3, DeltaEmits DEF Emitted
  <2>2. /\ TurnChanges(a) /\ post' = post
    BY <1>3 DEF Delta
  <2>3. /\ ended' = ended /\ active' = active /\ active = a
        /\ version'[a] = version[a] + 1 /\ version[a] \in Nat
        /\ \A u \in Turns : u # a => version'[u] = version[u]
    BY <2>2, ChangedVersions DEF TurnChanges, Types, ServerTypes
  <2>4. t # a
    BY <2>2, <2>3, ActiveTurn DEF Untold
  <2> QED BY <1>1, <2>1, <2>3, <2>4, EmissionSilent DEF Kept, Blind
<1>4. CASE Progress(a) \/ UpdateDue(a) \/ Ends(a)
  <2>1. PICK kinds : Emission(a, kinds) /\ Recorded(a)
    BY <1>4, ProgressEmits, UpdateDueEmits, EndsEmits DEF Emitted
  <2>2. post' = post /\ active = a
    BY <1>4 DEF Progress, UpdateDue, Ends, TurnChanges
  <2>3. t # a
    <3>1. CASE Progress(a)
      <4>1. /\ version'[a] = version[a] + 1 /\ version[a] \in Nat
        BY <3>1, ChangedVersions DEF Progress, Types, ServerTypes
      <4> QED BY <2>2, <4>1, ActiveTurn DEF Untold
    <3>2. CASE UpdateDue(a)
      <4>1. version[a] > 0 /\ version' = version
        BY <2>2, <3>2 DEF UpdateDue, RecordsAgree
      <4> QED BY <2>2, <4>1, ActiveTurn DEF Untold
    <3>3. CASE Ends(a)
      BY <2>2, <3>3, ActiveTurn DEF Ends, Untold, ConversationAssumption
    <3> QED BY <1>4, <3>1, <3>2, <3>3
  <2>4. version'[t] = version[t] /\ (t \in ended' <=> t \in ended)
    <3>1. CASE Progress(a)
      BY <2>3, <3>1, ChangedVersions DEF Progress, TurnChanges
    <3>2. CASE UpdateDue(a) \/ Ends(a)
      BY <2>3, <3>2 DEF UpdateDue, Ends
    <3> QED BY <1>4, <3>1, <3>2
  <2>5. Silent(buffer', t) /\ Silent(pipe', t)
    BY <1>1, <2>1, <2>3, EmissionSilent
  <2>6. Blind(transcript', t)
    BY <1>1, <2>1, <2>3 DEF Recorded, Blind, Types, ServerTypes, TranscriptType
  <2> QED BY <1>1, <2>4, <2>5, <2>6
<1> QED BY <1>2, <1>3, <1>4 DEF Emitting

LEMMA NothingIsBlind == \A t \in Turns : Blind(Empty, t) /\ Blind(Blank, t) /\ Silent(<<>>, t)
<1>1. Len(<<>>) = 0
  OBVIOUS
<1> QED BY <1>1 DEF Blind, Empty, Blank, Silent

LEMMA PageStepUntold ==
  ASSUME Types, NothingIsTold, RestoredApart, PageStep, NEW t \in Turns, Untold(t)
  PROVE  Blind(answer', t) /\ Blind(page', t) /\ Silent(pipe', t)
<1> USE DEF streamVars, getVars
<1>1. /\ Blind(transcript, t) /\ Blind(answer, t) /\ Blind(page, t)
      /\ Silent(buffer, t) /\ Silent(pipe, t)
  BY DEF NothingIsTold
<1>2. CASE Load
  BY <1>1, <1>2 DEF Load
<1>3. CASE Chat
  <2>1. Blind(answer', t)
    <3> DEFINE u == transcript.active
    <3>1. CASE u # NoTurn /\ u \in {active, restored}
      <4>1. answer' = TurnRecorded(transcript, u, version[u], FALSE)
        BY <1>3, <3>1 DEF Chat
      <4>2. u # t /\ u \in Turns
        BY <1>1, <3>1 DEF RestoredApart, ActiveRecorded, Blind, Types, ServerTypes, TranscriptType
      <4> QED BY <1>1, <4>1, <4>2 DEF TurnRecorded, Blind, Types, ServerTypes, TranscriptType
    <3>2. CASE ~(u # NoTurn /\ u \in {active, restored})
      <4>1. answer' = [transcript EXCEPT !.active = NoTurn]
        BY <1>3, <3>2 DEF Chat
      <4> QED BY <1>1, <4>1 DEF Blind, Types, ServerTypes, TranscriptType
    <3> QED BY <3>1, <3>2
  <2> QED BY <1>1, <1>3, <2>1 DEF Chat
<1>4. CASE SnapshotArrives
  <2>1. page'.version = answer.version /\ page'.ended = answer.ended
        /\ answer' = Empty /\ pipe' = pipe
    BY <1>4 DEF SnapshotArrives
  <2> QED BY <1>1, <2>1, NothingIsBlind DEF Blind
<1>5. CASE SnapshotFails
  <2>1. page' = Blank /\ answer' = answer /\ pipe' = <<>>
    BY <1>5 DEF SnapshotFails
  <2> QED BY <1>1, <2>1, NothingIsBlind
<1>6. CASE PageReload
  <2>1. page' = Blank /\ answer' = Empty /\ pipe' = <<>>
    BY <1>6 DEF PageReload
  <2> QED BY <1>1, <2>1, NothingIsBlind
<1>7. CASE Connect
  <2>1. PICK n \in 0 .. Len(buffer) : pipe' = SubSeq(buffer, n + 1, Len(buffer))
    BY <1>7 DEF Connect
  <2>2. Silent(pipe', t)
    BY <1>1, <2>1, SubSeqSuffix, SuffixSilent DEF Types, ServerTypes
  <2> QED BY <1>1, <1>7, <2>2 DEF Connect
<1>8. CASE Disconnect
  <2>1. page' = page /\ answer' = answer /\ pipe' = <<>>
    BY <1>8 DEF Disconnect
  <2> QED BY <1>1, <2>1, NothingIsBlind
<1>9. CASE Deliver
  <2> DEFINE e == Head(pipe)
  <2>1. pipe # <<>> /\ pipe' = Tail(pipe) /\ answer' = answer
    BY <1>9 DEF Deliver
  <2>2. Suffix(pipe, pipe') /\ e = pipe[1] /\ Len(pipe) \in Nat \ {0} /\ e \in Event
    BY <2>1, TailSuffix DEF Types, PageTypes
  <2>3. Silent(pipe', t)
    BY <1>1, <2>2, SuffixSilent DEF Types, PageTypes
  <2>4. e.turn = t => e.kind = "other"
    BY <1>1, <2>2 DEF Silent
  <2>5. Blind(page', t)
    <3>1. CASE e.kind = "update"
      <4> HIDE DEF e
      <4>1. page' = [page EXCEPT !.version[e.turn] = e.version,
                                 !.ended = IF e.ended THEN @ \cup {e.turn} ELSE @ \ {e.turn},
                                 !.pending = FALSE,
                                 !.ready = e.ended]
        BY <1>9, <3>1 DEF Deliver, e
      <4>2. e.turn # t
        BY <2>4, <3>1
      <4> QED BY <1>1, <4>1, <4>2 DEF Blind, Types, PageTypes, PageType
    <3>2. CASE e.kind # "update"
      BY <1>1, <1>9, <3>2 DEF Deliver
    <3> QED BY <3>1, <3>2
  <2> QED BY <1>1, <2>1, <2>3, <2>5
<1> QED BY <1>2, <1>3, <1>4, <1>5, <1>6, <1>7, <1>8, <1>9 DEF PageStep

LEMMA NothingIsToldKept ==
  ASSUME Types, Numbering, NothingIsTold, RecordsAgree, RestoredApart, [Next]_vars
  PROVE  NothingIsTold'
<1> USE DEF serverVars, turnVars, streamVars, getVars
<1> SUFFICES ASSUME NEW t \in Turns, Untold(t)'
             PROVE  /\ version'[t] = 0 /\ t \notin ended'
                    /\ Blind(transcript', t) /\ Blind(file', t) /\ Blind(answer', t)
                    /\ Blind(page', t)
                    /\ Silent(buffer', t) /\ Silent(pipe', t)
  BY DEF NothingIsTold
<1>1. Untold(t)
  BY UntoldBefore
<1>2. /\ version[t] = 0 /\ t \notin ended
      /\ Blind(transcript, t) /\ Blind(file, t) /\ Blind(answer, t) /\ Blind(page, t)
      /\ Silent(buffer, t) /\ Silent(pipe, t)
  BY <1>1 DEF NothingIsTold
<1>3. CASE \E a \in Turns : Emitting(a)
  <2>1. UNCHANGED <<file, answer, page>>
    BY <1>3 DEF Emitting, ServeStart, Progress, Delta, UpdateDue, Ends
  <2> QED BY <1>1, <1>2, <1>3, <2>1, EmittingUntold
<1>4. CASE Requesting
  BY <1>2, <1>4 DEF Requesting, Blind
<1>5. CASE Save
  BY <1>2, <1>5 DEF Save
<1>6. CASE PageStep
  <2>1. UNCHANGED <<version, ended, transcript, file, buffer>>
    BY <1>6 DEF PageStep, Load, Chat, SnapshotArrives, SnapshotFails, Connect, Disconnect, Deliver,
                PageReload
  <2> QED BY <1>1, <1>2, <1>6, <2>1, PageStepUntold
<1>7. CASE Crash
  <2>1. /\ transcript' \in {file, Interrupted(file)} /\ version' = file.version
        /\ ended' = transcript'.ended /\ file' = file
        /\ buffer' = <<>> /\ pipe' = <<>> /\ answer' = Empty /\ page' = page
    BY <1>7 DEF Crash
  <2>2. /\ Interrupted(file).version = file.version
        /\ Interrupted(file).ended = file.ended \cup ({file.active} \ {NoTurn})
    BY InterruptedType DEF Types, ServerTypes
  <2>3. t # file.active
    BY <1>2 DEF RestoredApart, ActiveRecorded, Blind, ConversationAssumption
  <2> QED BY <1>2, <2>1, <2>2, <2>3, NothingIsBlind DEF Blind
<1>8. CASE \E a \in Turns : RestoredStep(a)
  <2> PICK a \in Turns : RestoredStep(a)
    BY <1>8
  <2>1. t # a
    <3>1. \/ transcript.active = a
          \/ restored = a
      BY RestoredDoes
    <3>2. a # NoTurn
      BY DEF ConversationAssumption
    <3> QED BY <1>2, <3>1, <3>2 DEF RestoredApart, ActiveRecorded, Blind
  <2>2. /\ version'[t] = version[t] /\ (t \in ended' <=> t \in ended)
        /\ transcript'.version[t] = transcript.version[t]
    BY <2>1, RestoredOthers
  <2>3. UNCHANGED <<file, answer, page, buffer, pipe>>
    BY RestoredDoes
  <2>4. t \notin transcript'.ended
    <3>1. \/ transcript' = transcript
          \/ transcript'.ended \in {transcript.ended \cup {a}, transcript.ended \ {a}}
      BY RestoredCases
    <3> QED BY <1>2, <2>1, <3>1 DEF Blind
  <2> QED BY <1>2, <2>2, <2>3, <2>4 DEF Blind
<1> QED BY <1>3, <1>4, <1>5, <1>6, <1>7, <1>8, StepCases

LEMMA LatestAfterStart ==
  ASSUME Types, NEW t \in Turns, ServeStart(t)
  PROVE  Last' = t /\ order' # <<>>
<1>1. order' = Append(order, t) /\ order \in Seq(Turns)
  BY DEF ServeStart, Types, ServerTypes
<1>2. /\ Len(order) \in Nat
      /\ Len(order') = Len(order) + 1
      /\ order'[Len(order) + 1] = t
  BY <1>1, LenProperties, AppendProperties
<1> QED BY <1>2 DEF Last

LEMMA EmittingRecords ==
  ASSUME Types, Numbering, NothingIsTold, RecordsAgree, NEW t \in Turns, Emitting(t)
  PROVE  RecordsAgree'
<1> USE DEF postVars
<1>1. t # NoTurn
  BY DEF ConversationAssumption
<1>2. transcript \in TranscriptType
  BY DEF Types, ServerTypes
<1>3. CASE ServeStart(t)
  <2>1. /\ active = NoTurn /\ active' = t /\ post[t] = "sent"
        /\ post' = [post EXCEPT ![t] = "answered"]
        /\ UNCHANGED <<version, ended, throttled>>
    BY <1>3 DEF ServeStart
  <2>2. ~throttled /\ t \notin ended
    BY <2>1 DEF RecordsAgree, NothingIsTold, Untold
  <2>3. post'[t] = "answered"
    BY <2>1 DEF Types, PostTypes
  <2>4. Kept
    BY <1>3, StartEmits
  <2>5. Last' = t /\ order' # <<>>
    BY <1>3, LatestAfterStart
  <2>6. \A u \in Turns : transcript'.version[u] = version'[u]
    BY <2>1, <2>2, <2>4 DEF Kept, RecordsAgree
  <2>7. transcript'.ended = ended'
    BY <2>1, <2>4 DEF Kept, RecordsAgree
  <2> QED BY <2>1, <2>2, <2>3, <2>5, <2>6, <2>7 DEF RecordsAgree
<1>4. CASE Delta(t)
  <2>1. /\ TurnChanges(t) /\ throttled' /\ post' = post /\ Kept
    BY <1>4, DeltaEmits DEF Delta
  <2>2. /\ active = t /\ UNCHANGED <<ended, active, order>>
        /\ version'[t] = version[t] + 1 /\ version[t] \in Nat
        /\ \A u \in Turns : u # t => version'[u] = version[u]
    BY <2>1, ChangedVersions DEF TurnChanges, Types, ServerTypes
  <2>3. version'[t] > 0
    BY <2>2
  <2>4. Last' = Last
    BY <2>2 DEF Last
  <2>5. \A u \in Turns : u # t => transcript'.version[u] = version'[u]
    BY <2>1, <2>2 DEF Kept, RecordsAgree
  <2> QED BY <1>1, <2>1, <2>2, <2>3, <2>4, <2>5 DEF RecordsAgree, Kept
<1>5. CASE Progress(t) \/ UpdateDue(t) \/ Ends(t)
  <2>1. active = t /\ post' = post /\ throttled' = FALSE /\ order' = order /\ Recorded(t)
    BY <1>5, ProgressEmits, UpdateDueEmits, EndsEmits DEF Progress, UpdateDue, Ends, TurnChanges
  <2>2. /\ t \notin ended /\ t = Last /\ order # <<>> /\ post[t] \notin {"none", "sent"}
    BY <2>1, ActiveTurn
  <2>3. Last' = Last
    BY <2>1 DEF Last
  <2>4. \A u \in Turns : u # t => version'[u] = version[u]
    BY <1>5, ChangedVersions DEF Progress, UpdateDue, Ends
  <2>5. \A u \in Turns : transcript'.version[u] = version'[u]
    <3> SUFFICES ASSUME NEW u \in Turns PROVE transcript'.version[u] = version'[u]
      OBVIOUS
    <3>1. transcript'.version = [transcript.version EXCEPT ![t] = version'[t]]
      BY <2>1 DEF Recorded
    <3>2. CASE u = t
      BY <1>2, <3>1, <3>2 DEF TranscriptType
    <3>3. CASE u # t
      BY <1>2, <2>1, <2>4, <3>1, <3>3 DEF TranscriptType, RecordsAgree
    <3> QED BY <3>2, <3>3
  <2>6. /\ ended' = ended \/ ended' = ended \cup {t}
        /\ active' = t \/ active' = NoTurn
        /\ active' = t => ended' = ended
    BY <1>5, <2>1 DEF Progress, UpdateDue, Ends, TurnChanges
  <2>7. transcript'.ended = ended'
    BY <2>1, <2>2, <2>6 DEF Recorded, RecordsAgree
  <2> QED BY <2>1, <2>2, <2>3, <2>5, <2>6, <2>7 DEF RecordsAgree
<1> QED BY <1>3, <1>4, <1>5 DEF Emitting

LEMMA RecordsAgreeKept ==
  ASSUME Types, Numbering, NothingIsTold, RecordsAgree, RestoredApart, [Next]_vars
  PROVE  RecordsAgree'
<1> USE DEF serverVars, turnVars, streamVars, getVars, postVars
<1>1. CASE \E t \in Turns : Emitting(t)
  BY <1>1, EmittingRecords
<1>2. CASE Requesting
  BY <1>2 DEF Requesting, RecordsAgree, Last, Types, ServerTypes
<1>3. CASE Save \/ PageStep
  <2>1. UNCHANGED <<turnVars, transcript, post>>
    BY <1>3 DEF Save, PageStep, Load, Chat, SnapshotArrives, SnapshotFails, Connect, Disconnect,
                Deliver, PageReload
  <2> QED BY <2>1 DEF RecordsAgree, Last
<1>4. CASE Crash
  <2>1. /\ transcript' \in {file, Interrupted(file)} /\ version' = file.version
        /\ ended' = transcript'.ended /\ active' = NoTurn /\ throttled' = FALSE
    BY <1>4 DEF Crash
  <2>2. Interrupted(file).version = file.version
    BY InterruptedType DEF Types, ServerTypes
  <2> QED BY <2>1, <2>2 DEF RecordsAgree
<1>5. CASE \E t \in Turns : RestoredStep(t)
  <2> PICK t \in Turns : RestoredStep(t)
    BY <1>5
  <2>1. UNCHANGED <<active, order, throttled, post>> /\ t # active
    BY RestoredDoes
  <2>7. \A u \in Turns : u # t => /\ transcript'.version[u] = transcript.version[u]
                                  /\ version'[u] = version[u]
                                  /\ u \in ended' <=> u \in ended
    BY RestoredOthers
  <2>2. Last' = Last
    BY <2>1 DEF Last
  <2>3. transcript'.ended = ended'
    <3>1. ended \in SUBSET Turns /\ ended' \in SUBSET Turns /\ transcript.ended = ended
      BY RestoredDoes DEF RecordsAgree, Types, ServerTypes
    <3>2. \/ UNCHANGED <<transcript, ended>>
          \/ /\ t \notin ended
             /\ transcript'.ended = IF t \in ended' THEN transcript.ended \cup {t}
                                                    ELSE transcript.ended \ {t}
      BY RestoredCases
    <3>3. CASE UNCHANGED <<transcript, ended>>
      BY <3>1, <3>3
    <3>4. CASE t \notin ended /\ t \in ended' /\ transcript'.ended = transcript.ended \cup {t}
      <4>1. ended' = ended \cup {t}
        BY <2>7, <3>1, <3>4
      <4> QED BY <3>1, <3>4, <4>1
    <3>5. CASE t \notin ended /\ t \notin ended' /\ transcript'.ended = transcript.ended \ {t}
      <4>1. \A u \in Turns : u \in ended' <=> u \in ended
        BY <2>7, <3>5
      <4>2. ended' = ended
        BY <3>1, <4>1
      <4> QED BY <3>1, <3>5, <4>2
    <3> QED BY <3>2, <3>3, <3>4, <3>5
  <2>4. \A u \in Turns : u # active \/ ~throttled => transcript'.version[u] = version'[u]
    <3> SUFFICES ASSUME NEW u \in Turns, u # active \/ ~throttled
                 PROVE  transcript'.version[u] = version'[u]
      OBVIOUS
    <3>1. transcript.version[u] = version[u]
      BY DEF RecordsAgree
    <3>2. CASE u # t
      BY <2>7, <3>1, <3>2
    <3>3. CASE u = t
      BY <3>1, <3>3, RestoredCases
    <3> QED BY <3>2, <3>3
  <2>5. active \in Turns \cup {NoTurn}
    BY DEF Types, ServerTypes
  <2>6. active # NoTurn => version'[active] = version[active] /\ (active \in ended' <=> active \in ended)
    BY <2>1, <2>5, <2>7
  <2> QED BY <2>1, <2>2, <2>3, <2>4, <2>6 DEF RecordsAgree
<1> QED BY <1>1, <1>2, <1>3, <1>4, <1>5, StepCases

-----------------------------------------------------------------------------
(***************************************************************************)
(* The turn of an earlier process.                                         *)
(***************************************************************************)

\* A session that has numbered an event has a latest turn.
LEMMA LatestTurn ==
  ASSUME Types, order # <<>>
  PROVE  Last \in Turns
<1>1. Len(order) \in 1 .. Len(order)
  BY EmptySeq, LenProperties DEF Types, ServerTypes
<1> QED BY <1>1, ElementOfSeq DEF Last, Types, ServerTypes

LEMMA EmittingApart ==
  ASSUME Types, Numbering, NothingIsTold, RecordsAgree, RestoredApart,
         NEW t \in Turns, Emitting(t)
  PROVE  RestoredApart'
<1> USE DEF getVars
<1>1. /\ UNCHANGED <<file, restored, get, answer>> /\ ended \subseteq ended'
      /\ sequence' # NoSequence
  <2>1. sequence' # NoSequence
    BY EmittingKinds DEF Emitted
  <2> QED BY <2>1 DEF Emitting, ServeStart, Progress, Delta, UpdateDue, Ends, TurnChanges
<1>2. /\ transcript \in TranscriptType /\ version \in [Turns -> 0..MaxVersion]
      /\ t # NoTurn /\ restored \in Turns \cup {NoTurn}
      /\ ended' \in SUBSET Turns
  BY EmittingKinds DEF Types, ServerTypes, Emitted
<1>3. /\ restored # t /\ active' \in {t, NoTurn}
      /\ order' # <<>> /\ Last' = t /\ (t = active' \/ t \in ended')
  <2>1. CASE ServeStart(t)
    <3>1. version[t] = 0
      BY <2>1 DEF ServeStart, NothingIsTold, Untold
    <3>2. active' = t
      BY <2>1 DEF ServeStart
    <3> QED BY <1>2, <2>1, <3>1, <3>2, LatestAfterStart DEF RestoredApart
  <2>2. CASE ~ServeStart(t)
    <3>1. active = t /\ order' = order
      BY <2>2 DEF Emitting, Progress, Delta, UpdateDue, Ends, TurnChanges
    <3>2. t = Last /\ order # <<>> /\ active # NoTurn
      BY <3>1, ActiveTurn
    <3>3. active' = t \/ (active' = NoTurn /\ t \in ended')
      BY <2>2, <3>1 DEF Emitting, Progress, Delta, UpdateDue, Ends, TurnChanges
    <3>4. Last' = Last
      BY <3>1 DEF Last
    <3> QED BY <1>2, <3>1, <3>2, <3>3, <3>4 DEF RestoredApart
  <2> QED BY <2>1, <2>2
<1>4. \A u \in Turns : u # t => version'[u] = version[u]
  <2>1. CASE Progress(t) \/ Delta(t)
    BY <2>1, ChangedVersions DEF Progress, Delta
  <2>2. CASE ServeStart(t) \/ UpdateDue(t) \/ Ends(t)
    BY <2>2 DEF ServeStart, UpdateDue, Ends
  <2> QED BY <2>1, <2>2 DEF Emitting
<1>5. ActiveRecorded(transcript')
  <2>1. CASE ServeStart(t) \/ Delta(t)
    <3>1. Kept
      BY <2>1, StartEmits, DeltaEmits
    <3>2. transcript'.version = transcript.version /\ transcript'.ended = transcript.ended
          /\ transcript'.active = transcript.active
      BY <3>1 DEF Kept
    <3> QED BY <3>2 DEF RestoredApart, ActiveRecorded
  <2>2. CASE Progress(t) \/ UpdateDue(t) \/ Ends(t)
    <3>1. Recorded(t) /\ active = t
      BY <2>2, ProgressEmits, UpdateDueEmits, EndsEmits DEF Progress, UpdateDue, Ends, TurnChanges
    <3>2. CASE t \in ended'
      BY <3>1, <3>2 DEF Recorded, ActiveRecorded
    <3>3. CASE t \notin ended'
      <4>1. version'[t] > 0
        <5>1. CASE Progress(t)
          BY <1>2, <5>1, ChangedVersions DEF Progress
        <5>2. CASE UpdateDue(t)
          BY <3>1, <5>2 DEF UpdateDue, RecordsAgree
        <5>3. CASE Ends(t)
          BY <3>3, <5>3 DEF Ends
        <5> QED BY <2>2, <5>1, <5>2, <5>3
      <4>2. /\ transcript'.version = [transcript.version EXCEPT ![t] = version'[t]]
            /\ transcript'.ended = transcript.ended \ {t}
            /\ transcript'.active = t
        BY <3>1, <3>3 DEF Recorded
      <4>3. transcript.version \in [Turns -> 0..MaxVersion]
        BY <1>2 DEF TranscriptType
      <4>4. transcript'.version[t] = version'[t]
        BY <4>2, <4>3
      <4> QED BY <4>1, <4>2, <4>4 DEF ActiveRecorded
    <3> QED BY <3>2, <3>3
  <2> QED BY <2>1, <2>2 DEF Emitting
<1>6. restored # NoTurn => restored # active' /\ version'[restored] > 0
  BY <1>2, <1>3, <1>4 DEF RestoredApart
<1> QED BY <1>1, <1>3, <1>5, <1>6 DEF RestoredApart, ActiveRecorded

LEMMA RestoredStepApart ==
  ASSUME Types, Numbering, RecordsAgree, RestoredApart, NEW t \in Turns, RestoredStep(t)
  PROVE  RestoredApart'
<1>1. /\ UNCHANGED <<active, order, file, sequence, get, answer>>
      /\ restored' = t /\ t # active /\ ended \subseteq ended'
  BY RestoredDoes
<1>2. Last' = Last /\ t # NoTurn
  BY <1>1 DEF Last, ConversationAssumption
<1>3. CASE transcript.active = t /\ t # restored /\ UNCHANGED <<transcript, version, ended>>
  <2>1. t \notin ended /\ version[t] > 0
    BY <1>1, <1>2, <1>3 DEF RestoredApart, ActiveRecorded, RecordsAgree
  <2>2. sequence # NoSequence => t # Last
    BY <1>1, <2>1 DEF RestoredApart
  <2> QED BY <1>1, <1>2, <1>3, <2>1, <2>2 DEF RestoredApart, ActiveRecorded
<1>4. CASE /\ restored = t /\ t \notin ended /\ version'[t] > 0
           /\ transcript'.version[t] = version'[t]
           /\ transcript'.ended = IF t \in ended' THEN transcript.ended \cup {t}
                                                  ELSE transcript.ended \ {t}
           /\ transcript'.active = IF t \in ended' THEN NoTurn ELSE t
  <2>1. ActiveRecorded(transcript)'
    BY <1>2, <1>4 DEF ActiveRecorded
  <2> QED BY <1>1, <1>2, <1>4, <2>1 DEF RestoredApart, ActiveRecorded
<1> QED BY <1>3, <1>4, RestoredDoes

LEMMA RestoredApartKept ==
  ASSUME Types, Numbering, NothingIsTold, RecordsAgree, RestoredApart, [Next]_vars
  PROVE  RestoredApart'
<1> USE DEF serverVars, turnVars, streamVars, getVars, postVars
<1>1. CASE \E t \in Turns : Emitting(t)
  BY <1>1, EmittingApart
<1>2. CASE \E t \in Turns : RestoredStep(t)
  BY <1>2, RestoredStepApart
<1>3. CASE Requesting \/ Load \/ Connect \/ Disconnect \/ Deliver
  <2>1. /\ UNCHANGED <<turnVars, transcript, file, sequence, answer>>
        /\ get' = "answered" => get = "answered"
    BY <1>3 DEF Requesting, Load, Connect, Disconnect, Deliver
  <2> QED BY <2>1 DEF RestoredApart, ActiveRecorded, Last
<1>4. CASE SnapshotArrives \/ SnapshotFails \/ PageReload
  <2>1. UNCHANGED <<turnVars, transcript, file, sequence>> /\ get' = "none"
    BY <1>4 DEF SnapshotArrives, SnapshotFails, PageReload
  <2> QED BY <2>1 DEF RestoredApart, ActiveRecorded, Last
<1>5. CASE Save
  <2>1. UNCHANGED <<turnVars, transcript, sequence, get, answer>> /\ file' = transcript
    BY <1>5 DEF Save
  <2> QED BY <2>1 DEF RestoredApart, ActiveRecorded, Last
<1>6. CASE Chat
  <2> DEFINE t == transcript.active
  <2>1. UNCHANGED <<turnVars, transcript, file, sequence>>
    BY <1>6 DEF Chat
  <2>2. /\ answer' = IF t # NoTurn /\ t \in {active, restored}
                       THEN TurnRecorded(transcript, t, version[t], FALSE)
                       ELSE [transcript EXCEPT !.active = NoTurn]
        /\ transcript \in TranscriptType
    BY <1>6 DEF Chat, Types, ServerTypes
  <2>3. answer'.ended \subseteq transcript.ended
    <3>1. CASE t # NoTurn /\ t \in {active, restored}
      <4>1. answer' = TurnRecorded(transcript, t, version[t], FALSE)
        BY <2>2, <3>1
      <4>2. answer'.ended = transcript.ended \ {t}
        BY <2>2, <4>1 DEF TurnRecorded, TranscriptType
      <4> QED BY <4>2
    <3>2. CASE ~(t # NoTurn /\ t \in {active, restored})
      <4>1. answer' = [transcript EXCEPT !.active = NoTurn]
        BY <2>2, <3>2
      <4> QED BY <2>2, <4>1 DEF TranscriptType
    <3> QED BY <3>1, <3>2
  <2>4. answer'.ended \subseteq ended
    BY <2>3 DEF RecordsAgree
  <2> QED BY <2>1, <2>4 DEF RestoredApart, ActiveRecorded, Last
<1>7. CASE Crash
  <2>1. /\ transcript' \in {file, Interrupted(file)} /\ file' = file
        /\ restored' = NoTurn /\ sequence' = NoSequence /\ get' # "answered"
    BY <1>7 DEF Crash
  <2>2. Interrupted(file).active = NoTurn
    BY InterruptedType DEF Types, ServerTypes
  <2>3. ActiveRecorded(transcript')
    BY <2>1, <2>2 DEF RestoredApart, ActiveRecorded
  <2> QED BY <2>1, <2>3 DEF RestoredApart, ActiveRecorded
<1> QED BY <1>1, <1>2, <1>3, <1>4, <1>5, <1>6, <1>7, StepCases DEF PageStep

-----------------------------------------------------------------------------
(***************************************************************************)
(* The page's cursor.                                                      *)
(***************************************************************************)

\* What the emitting actions leave as it is.
LEMMA EmittingFrame ==
  ASSUME NEW t \in Turns, Emitting(t)
  PROVE  UNCHANGED <<page, stream, cursor, get, answer, ahead, restored, missed, kind, dispatch,
                     orphaned>>
BY DEF TurnChanges, Emitting, ServeStart, Progress, Delta, UpdateDue, Ends, getVars, postVars

\* A page that is about to receive an event has numbered ones before it.
LEMMA NextDelivered ==
  ASSUME Types, Numbering, Deliver
  PROVE  /\ pipe # <<>> /\ pipe' = Tail(pipe) /\ Suffix(pipe, pipe')
         /\ Head(pipe) \in Event /\ Head(pipe) = pipe[1]
         /\ Len(pipe) \in Nat \ {0} /\ Len(pipe') = Len(pipe) - 1
         /\ sequence \in Nat /\ LastNumber = sequence /\ stream = "up" /\ order # <<>>
         /\ cursor' = sequence - Len(pipe) + 1 /\ cursor' \in Nat
<1>1. pipe # <<>> /\ pipe' = Tail(pipe) /\ cursor' = Head(pipe).seq
  BY DEF Deliver
<1>2. /\ Suffix(pipe, pipe') /\ Head(pipe) \in Event /\ Head(pipe) = pipe[1]
      /\ Len(pipe) \in Nat \ {0} /\ Len(pipe') = Len(pipe) - 1
  BY <1>1, TailSuffix DEF Types, PageTypes
<1>3. sequence \in Nat /\ LastNumber = sequence /\ stream = "up" /\ order # <<>>
  BY <1>1 DEF Types, ServerTypes, Numbering, LastNumber
<1>4. 1 \in 1 .. Len(pipe)
  BY <1>2
<1>5. pipe[1].seq = LastNumber - Len(pipe) + 1
  BY <1>4 DEF Numbering, Numbered
<1> QED BY <1>1, <1>2, <1>3, <1>5 DEF Event

LEMMA CursorBehindKept ==
  ASSUME Types, Numbering, RecordsAgree, RestoredApart, CursorBehind, [Next]_vars
  PROVE  CursorBehind'
<1> USE DEF serverVars, turnVars, streamVars, getVars, postVars
<1>1. CASE \E t \in Turns : Emitting(t)
  <2> PICK t \in Turns : Emitting(t)
    BY <1>1
  <2>1. LastNumber \in Nat /\ LastNumber' \in Nat /\ LastNumber' >= LastNumber
    BY EmittingKinds, EmissionNumbering
  <2>2. cursor \in Nat /\ answer.seq \in Nat
    BY DEF Types, PageTypes, TranscriptType
  <2> QED BY <2>1, <2>2, EmittingFrame DEF CursorBehind
<1>2. CASE Requesting
  BY <1>2 DEF Requesting, CursorBehind, LastNumber
<1>3. CASE Save
  BY <1>3 DEF Save, CursorBehind, LastNumber
<1>4. CASE Load
  BY <1>4 DEF Load, CursorBehind, LastNumber
<1>5. CASE Chat
  <2>1. answer'.seq = transcript.seq
    BY <1>5 DEF Chat, TurnRecorded, Types, ServerTypes, TranscriptType
  <2>2. transcript.seq \in Nat /\ LastNumber \in Nat
    BY LastNumbers
  <2>3. UNCHANGED <<transcript, sequence, page, stream, cursor, missed>>
        /\ ahead' = (transcript.seq > LastNumber)
    BY <1>5 DEF Chat
  <2>4. LastNumber' = LastNumber
    BY <2>3 DEF LastNumber
  <2>5. ~ahead' => answer'.seq <= LastNumber
    <3> DEFINE n == LastNumber
    <3>1. n \in Nat /\ ahead' = (transcript.seq > n)
      BY <2>2, <2>3
    <3> HIDE DEF n
    <3>2. ~ahead' => ~(transcript.seq > n)
      BY <3>1, Zenon
    <3>3. ~(transcript.seq > n) => transcript.seq <= n
      BY <2>2, <3>1
    <3> QED BY <2>1, <3>2, <3>3 DEF n
  <2> QED BY <2>3, <2>4, <2>5 DEF CursorBehind
<1>6. CASE SnapshotArrives
  <2>1. /\ page'.loaded /\ get' = "none" /\ UNCHANGED <<transcript, sequence>>
        /\ ~ahead => answer.seq <= LastNumber
        /\ cursor' = IF stream = "none" THEN answer.seq ELSE cursor
        /\ missed' = (\/ stream # "none" /\ answer.seq < cursor
                      \/ ahead
                      \/ Outdated(answer))
    BY <1>6 DEF SnapshotArrives, CursorBehind
  <2>2. cursor \in Nat /\ answer.seq \in Nat /\ LastNumber \in Nat
    BY LastNumbers DEF Types, PageTypes, TranscriptType
  <2>3. ~missed' => cursor' <= LastNumber
    <3>1. ~missed' => ~ahead /\ (stream # "none" => ~(answer.seq < cursor))
      BY <2>1, Zenon
    <3> QED BY <2>1, <2>2, <3>1
  <2>4. LastNumber' = LastNumber
    BY <2>1 DEF LastNumber
  <2> QED BY <2>1, <2>3, <2>4 DEF CursorBehind
<1>7. CASE SnapshotFails \/ PageReload
  BY <1>7 DEF SnapshotFails, PageReload, Blank, CursorBehind
<1>8. CASE Connect \/ Disconnect
  <2>1. UNCHANGED <<transcript, sequence, cursor, get, ahead, answer, missed, page>>
        /\ page.loaded
    BY <1>8, Zenon DEF Connect, Disconnect, CursorBehind
  <2>2. LastNumber' = LastNumber
    BY <2>1 DEF LastNumber
  <2> QED BY <2>1, <2>2 DEF CursorBehind
<1>9. CASE Deliver
  <2>1. cursor' \in Nat /\ cursor' <= LastNumber
    BY <1>9, NextDelivered
  <2>2. stream # "none"
    BY <1>9, NextDelivered
  <2>3. page.loaded
    BY <2>2 DEF CursorBehind
  <2>4. page'.loaded
    <3>1. CASE Head(pipe).kind = "update"
      BY <1>9, <2>3, <3>1 DEF Deliver, Types, PageTypes, PageType
    <3>2. CASE Head(pipe).kind # "update"
      BY <1>9, <2>3, <3>2 DEF Deliver
    <3> QED BY <3>1, <3>2
  <2>5. UNCHANGED <<transcript, sequence, stream, get, answer, ahead>>
    BY <1>9 DEF Deliver
  <2>6. LastNumber' = LastNumber
    BY <2>5 DEF LastNumber
  <2> QED BY <2>1, <2>4, <2>5, <2>6 DEF CursorBehind
<1>10. CASE Crash
  <2>1. /\ page' = page /\ missed' = page.loaded
        /\ stream' = IF stream = "none" THEN "none" ELSE "down"
        /\ get' # "answered"
    BY <1>10 DEF Crash
  <2> QED BY <2>1 DEF CursorBehind
<1>11. CASE \E t \in Turns : RestoredStep(t)
  <2>1. /\ UNCHANGED <<sequence, page, stream, cursor, get, answer, ahead>>
        /\ transcript'.seq >= transcript.seq /\ transcript' \in TranscriptType
        /\ missed => missed'
    <3> PICK t \in Turns : RestoredStep(t)
      BY <1>11
    <3>1. missed => missed'
      BY RestoredDoes
    <3> QED BY <3>1, RestoredDoes
  <2>2. LastNumber \in Nat /\ LastNumber' \in Nat /\ LastNumber' >= LastNumber
    <3>1. transcript'.seq \in Nat /\ transcript.seq \in Nat /\ sequence \in Nat \cup {NoSequence}
      BY <2>1 DEF Types, ServerTypes, TranscriptType
    <3> QED BY <2>1, <3>1 DEF LastNumber
  <2>3. cursor \in Nat /\ answer.seq \in Nat
    BY DEF Types, PageTypes, TranscriptType
  <2> QED BY <2>1, <2>2, <2>3 DEF CursorBehind
<1> QED BY <1>1, <1>2, <1>3, <1>4, <1>5, <1>6, <1>7, <1>8, <1>9, <1>10, <1>11, StepCases DEF PageStep

-----------------------------------------------------------------------------
(***************************************************************************)
(* What the last events tell, and what is on its way.                      *)
(***************************************************************************)

Tells(e, what, t) ==
  /\ e.kind = what
  /\ e.turn = t
  /\ e.version = version'[t]
  /\ e.ended = (t \in ended')

EndsIn(fs, t, kinds) ==
  /\ Len(fs) \in Nat \ {0}
  /\ Len(kinds) <= Len(fs)
  /\ Tells(fs[Len(fs)], kinds[Len(kinds)], t)
  /\ Len(kinds) = 2 => Tells(fs[Len(fs) - 1], kinds[1], t)

LEMMA GrownEnd ==
  ASSUME NEW t \in Turns, NEW kinds \in {<<"other">>, <<"update">>, <<"update", "other">>},
         NEW new \in Seq(Event), Sent(t, kinds, new),
         NEW es \in Seq(Event), NEW fs, Grown(es, new, fs)
  PROVE  EndsIn(fs, t, kinds)
<1>1. Len(new) = Len(kinds) /\ Len(kinds) \in {1, 2} /\ Len(fs) \in Nat /\ Len(new) <= Len(fs)
  BY Lengths DEF Sent, Grown
<1>2. \A i \in 1 .. Len(kinds) : Tells(new[i], kinds[i], t)
  BY DEF Sent, Tells
<1>3. \A i \in 1 .. Len(kinds) : fs[Len(fs) - Len(kinds) + i] = new[i]
  BY <1>1 DEF Grown
<1>4. CASE Len(kinds) = 1
  <2>1. 1 \in 1 .. Len(kinds) /\ Len(fs) - Len(kinds) + 1 = Len(fs)
    BY <1>1, <1>4
  <2> QED BY <1>1, <1>2, <1>3, <1>4, <2>1 DEF EndsIn
<1>5. CASE Len(kinds) = 2
  <2>1. /\ 1 \in 1 .. Len(kinds) /\ 2 \in 1 .. Len(kinds)
        /\ Len(fs) - Len(kinds) + 1 = Len(fs) - 1
        /\ Len(fs) - Len(kinds) + 2 = Len(fs)
    BY <1>1, <1>5
  <2>2. fs[Len(fs) - 1] = new[1] /\ fs[Len(fs)] = new[2]
    BY <1>3, <2>1
  <2>3. Tells(fs[Len(fs) - 1], kinds[1], t) /\ Tells(fs[Len(fs)], kinds[2], t)
    BY <1>2, <2>1, <2>2
  <2> QED BY <1>1, <1>5, <2>3 DEF EndsIn
<1> QED BY <1>1, <1>4, <1>5

LEMMA EmissionEnd ==
  ASSUME Types, Numbering, NEW t \in Turns,
         NEW kinds \in {<<"other">>, <<"update">>, <<"update", "other">>}, Emitted(t, kinds)
  PROVE  /\ EndsIn(buffer', t, kinds)
         /\ stream = "up" => EndsIn(pipe', t, kinds)
         /\ stream # "up" => pipe' = <<>>
<1> PICK new \in Seq(Event) : Sent(t, kinds, new)
  BY DEF Emitted, Emission
<1>1. buffer \in Seq(Event) /\ pipe \in Seq(Event)
  BY DEF Types, ServerTypes, PageTypes
<1>2. Grown(buffer, new, buffer') /\ IF stream = "up" THEN Grown(pipe, new, pipe') ELSE pipe' = pipe
  BY DEF Sent
<1>3. EndsIn(buffer', t, kinds)
  BY <1>1, <1>2, GrownEnd
<1>4. stream = "up" => EndsIn(pipe', t, kinds)
  BY <1>1, <1>2, GrownEnd
<1> QED BY <1>2, <1>3, <1>4 DEF Numbering

LEMMA SuffixTells ==
  ASSUME NEW es \in Seq(Event), NEW fs, Suffix(es, fs), EndTells(es)
  PROVE  EndTells(fs)
<1> SUFFICES ASSUME fs # <<>>, order # <<>>, ~throttled
             PROVE  IF active # NoTurn
                      THEN \/ TellsLatest(fs[Len(fs)])
                           \/ fs[Len(fs)].kind = "other" /\ version[Last] = 0
                      ELSE /\ fs[Len(fs)].kind = "other"
                           /\ Len(fs) >= 2 => TellsLatest(fs[Len(fs) - 1])
  BY DEF EndTells
<1>1. /\ Len(es) \in Nat /\ Len(fs) \in Nat /\ Len(fs) <= Len(es) /\ fs \in Seq(Event)
  BY Lengths DEF Suffix
<1>2. Len(fs) >= 1
  BY <1>1, EmptySeq
<1>3. es # <<>>
  BY <1>1, <1>2
<1>4. fs[Len(fs)] = es[Len(es)]
  <2>1. Len(fs) \in 1 .. Len(fs) /\ Len(es) - Len(fs) + Len(fs) = Len(es)
    BY <1>1, <1>2
  <2> QED BY <2>1 DEF Suffix
<1>5. Len(fs) >= 2 => fs[Len(fs) - 1] = es[Len(es) - 1] /\ Len(es) >= 2
  <2> SUFFICES ASSUME Len(fs) >= 2 PROVE fs[Len(fs) - 1] = es[Len(es) - 1] /\ Len(es) >= 2
    OBVIOUS
  <2>1. /\ Len(fs) - 1 \in 1 .. Len(fs) /\ Len(es) - Len(fs) + (Len(fs) - 1) = Len(es) - 1
        /\ Len(es) >= 2
    BY <1>1
  <2> QED BY <2>1 DEF Suffix
<1> QED BY <1>3, <1>4, <1>5 DEF EndTells

LEMMA NothingTells == EndTells(<<>>) /\ EndTells(<<>>)'
BY DEF EndTells

LEMMA EmittingEndTells ==
  ASSUME Types, Numbering, NothingIsTold, RecordsAgree, NEW t \in Turns, Emitting(t)
  PROVE  EndTells(buffer)' /\ EndTells(pipe)'
<1> USE DEF postVars
<1>1. t # NoTurn
  BY DEF ConversationAssumption
<1>2. CASE ServeStart(t)
  <2>1. /\ EndsIn(buffer', t, <<"other">>)
        /\ pipe' # <<>> => EndsIn(pipe', t, <<"other">>)
    BY <1>2, StartEmits, EmissionEnd
  <2>2. active' = t /\ Last' = t /\ version'[t] = 0
    BY <1>2, LatestAfterStart DEF ServeStart, NothingIsTold, Untold
  <2>3. \A fs : EndsIn(fs, t, <<"other">>) => fs[Len(fs)].kind = "other"
    BY DEF EndsIn, Tells
  <2> QED BY <1>1, <2>1, <2>2, <2>3 DEF EndTells
<1>3. CASE Delta(t)
  BY <1>3 DEF Delta, EndTells
<1>4. CASE Progress(t) \/ UpdateDue(t)
  <2>1. /\ EndsIn(buffer', t, <<"update">>)
        /\ pipe' # <<>> => EndsIn(pipe', t, <<"update">>)
    BY <1>4, ProgressEmits, UpdateDueEmits, EmissionEnd
  <2>2. active = t /\ active' = t /\ order' = order
    BY <1>4 DEF Progress, UpdateDue, TurnChanges
  <2>3. Last' = t
    BY <2>2, ActiveTurn DEF Last
  <2>4. \A fs : EndsIn(fs, t, <<"update">>) => Tells(fs[Len(fs)], "update", t)
    BY DEF EndsIn
  <2> QED BY <1>1, <2>1, <2>2, <2>3, <2>4 DEF EndTells, TellsLatest, Tells
<1>5. CASE Ends(t)
  <2>1. /\ EndsIn(buffer', t, <<"update", "other">>)
        /\ pipe' # <<>> => EndsIn(pipe', t, <<"update", "other">>)
    BY <1>5, EndsEmits, EmissionEnd
  <2>2. active = t /\ active' = NoTurn /\ order' = order
    BY <1>5 DEF Ends
  <2>3. Last' = t
    BY <2>2, ActiveTurn DEF Last
  <2>4. \A fs : EndsIn(fs, t, <<"update", "other">>) =>
                  /\ Tells(fs[Len(fs)], "other", t) /\ Tells(fs[Len(fs) - 1], "update", t)
    BY DEF EndsIn
  <2> QED BY <2>1, <2>2, <2>3, <2>4 DEF EndTells, TellsLatest, Tells
<1> QED BY <1>2, <1>3, <1>4, <1>5 DEF Emitting

\* A restored turn that changes is the latest one only as long as nothing is sent.
LEMMA RestoredIsNotLatest ==
  ASSUME Types, Numbering, RecordsAgree, RestoredApart, NEW t \in Turns, RestoredStep(t),
         order # <<>>, sequence # NoSequence
  PROVE  /\ Last \in Turns /\ Last # t /\ Last # restored
         /\ version'[Last] = version[Last] /\ (Last \in ended' <=> Last \in ended)
         /\ missed' = missed
<1>1. Last \in Turns /\ Last # restored
  BY LatestTurn DEF RestoredApart
<1>2. Last # t
  BY RestoredDoes DEF RestoredApart, ActiveRecorded, RecordsAgree, ConversationAssumption
<1>3. missed \in BOOLEAN
  BY DEF Types, PageTypes
<1>4. version'[Last] = version[Last] /\ (Last \in ended' <=> Last \in ended)
  BY <1>1, <1>2, RestoredOthers
<1>5. missed' = missed
  BY <1>2, <1>3, RestoredCases
<1> QED BY <1>1, <1>2, <1>4, <1>5

LEMMA EndTellsKept ==
  ASSUME Types, Numbering, NothingIsTold, RecordsAgree, RestoredApart, EndTells(buffer),
         EndTells(pipe), [Next]_vars
  PROVE  EndTells(buffer)' /\ EndTells(pipe)'
<1> USE DEF serverVars, turnVars, streamVars
<1>1. CASE \E t \in Turns : Emitting(t)
  BY <1>1, EmittingEndTells
<1>2. CASE Requesting
  BY <1>2 DEF Requesting, EndTells, TellsLatest, Last
<1>3. CASE Save
  BY <1>3 DEF Save, EndTells, TellsLatest, Last
<1>4. CASE PageStep
  <2>1. UNCHANGED <<turnVars, buffer>>
    BY <1>4 DEF PageStep, Load, Chat, SnapshotArrives, SnapshotFails, Connect, Disconnect, Deliver,
                PageReload
  <2>2. EndTells(pipe')
    <3>1. CASE Load \/ Chat \/ SnapshotArrives
      BY <3>1 DEF Load, Chat, SnapshotArrives
    <3>2. CASE SnapshotFails \/ Disconnect \/ PageReload
      BY <3>2, NothingTells DEF SnapshotFails, Disconnect, PageReload
    <3>3. CASE Connect
      <4>1. PICK n \in 0 .. Len(buffer) : pipe' = SubSeq(buffer, n + 1, Len(buffer))
        BY <3>3 DEF Connect
      <4> QED BY <4>1, SubSeqSuffix, SuffixTells DEF Types, ServerTypes
    <3>4. CASE Deliver
      BY <3>4, NextDelivered, SuffixTells DEF Types, PageTypes
    <3> QED BY <1>4, <3>1, <3>2, <3>3, <3>4 DEF PageStep
  <2> QED BY <2>1, <2>2 DEF EndTells, TellsLatest, Last
<1>5. CASE Crash
  BY <1>5 DEF Crash, EndTells
<1>6. CASE \E t \in Turns : RestoredStep(t)
  <2> PICK t \in Turns : RestoredStep(t)
    BY <1>6
  <2>1. UNCHANGED <<active, order, throttled, sequence, buffer, pipe>>
    BY RestoredDoes
  <2>2. Last' = Last
    BY <2>1 DEF Last
  <2>3. CASE sequence = NoSequence
    <3>1. buffer' = <<>> /\ pipe' = <<>>
      BY <2>1, <2>3 DEF Numbering
    <3> QED BY <3>1 DEF EndTells
  <2>4. CASE sequence # NoSequence
    <3>1. order # <<>> => version'[Last] = version[Last] /\ (Last \in ended' <=> Last \in ended)
      BY <2>4, RestoredIsNotLatest
    <3> QED BY <2>1, <2>2, <3>1 DEF EndTells, TellsLatest
  <2> QED BY <2>3, <2>4
<1> QED BY <1>1, <1>2, <1>3, <1>4, <1>5, <1>6, StepCases

LEMMA PipeCoversKept ==
  ASSUME Types, Numbering, RecordsAgree, RestoredApart, PipeCovers, [Next]_vars
  PROVE  PipeCovers'
<1> USE DEF serverVars, turnVars, streamVars, getVars, postVars
<1>1. CASE \E t \in Turns : Emitting(t)
  <2> PICK t \in Turns : Emitting(t)
    BY <1>1
  <2> SUFFICES ASSUME stream' = "up"
               PROVE  Len(pipe') >= 1 /\ (active' = NoTurn => Len(pipe') >= 2)
    BY DEF PipeCovers
  <2> PICK kinds \in {<<"other">>, <<"update">>, <<"update", "other">>} :
         Emitted(t, kinds) /\ (Ends(t) => kinds = <<"update", "other">>)
    BY EmittingKinds
  <2>1. EndsIn(pipe', t, kinds)
    BY EmissionEnd, EmittingFrame
  <2>2. Len(pipe') \in Nat \ {0} /\ Len(kinds) <= Len(pipe')
    BY <2>1 DEF EndsIn
  <2>3. active' = NoTurn => Ends(t)
    BY ActiveTurn DEF Emitting, ServeStart, Progress, Delta, UpdateDue, TurnChanges,
       ConversationAssumption
  <2>4. Ends(t) => Len(kinds) = 2
    OBVIOUS
  <2> QED BY <2>2, <2>3, <2>4
<1>2. CASE Requesting
  BY <1>2 DEF Requesting, PipeCovers
<1>3. CASE Save \/ Load \/ Chat
  BY <1>3 DEF Save, Load, Chat, PipeCovers
<1>4. CASE SnapshotArrives
  BY <1>4 DEF SnapshotArrives, PipeCovers
<1>5. CASE SnapshotFails \/ Disconnect \/ PageReload \/ Crash
  BY <1>5 DEF SnapshotFails, Disconnect, PageReload, Crash, PipeCovers
<1>6. CASE Connect
  <2>1. UNCHANGED <<sequence, cursor, active, buffer>>
    BY <1>6 DEF Connect
  <2>2. PICK n \in 0 .. Len(buffer) :
          /\ \A i \in DOMAIN buffer : buffer[i].seq > cursor <=> i > n
          /\ pipe' = SubSeq(buffer, n + 1, Len(buffer))
    BY <1>6 DEF Connect
  <2>3. Len(pipe') = Len(buffer) - n /\ Len(buffer) \in Nat /\ n \in Nat
    BY <2>2, SubSeqSuffix, Lengths DEF Types, ServerTypes
  <2> SUFFICES ASSUME sequence # NoSequence
               PROVE  /\ cursor < sequence => Len(pipe') >= 1
                      /\ active = NoTurn /\ cursor + 1 < sequence => Len(pipe') >= 2
    BY <2>1 DEF PipeCovers
  <2>4. /\ sequence \in Nat /\ cursor \in Nat /\ DOMAIN buffer = 1 .. Len(buffer)
        /\ \A i \in 1 .. Len(buffer) : buffer[i].seq = sequence - Len(buffer) + i
        /\ Len(buffer) >= 1
        /\ active = NoTurn => Len(buffer) >= 2
    BY Lengths, LastNumbers DEF Types, ServerTypes, PageTypes, Numbering, Numbered
  <2>5. ASSUME cursor < sequence PROVE Len(pipe') >= 1
    <3>1. Len(buffer) \in 1 .. Len(buffer) /\ buffer[Len(buffer)].seq = sequence
      BY <2>3, <2>4
    <3>2. Len(buffer) > n
      BY <2>2, <2>4, <2>5, <3>1
    <3> QED BY <2>3, <3>2
  <2>6. ASSUME active = NoTurn, cursor + 1 < sequence PROVE Len(pipe') >= 2
    <3>1. Len(buffer) - 1 \in 1 .. Len(buffer)
      BY <2>3, <2>4, <2>6
    <3>2. buffer[Len(buffer) - 1].seq = sequence - 1
      <4>1. sequence - Len(buffer) + (Len(buffer) - 1) = sequence - 1
        BY <2>3, <2>4
      <4> QED BY <2>4, <3>1, <4>1
    <3>3. Len(buffer) - 1 > n
      BY <2>2, <2>4, <2>6, <3>1, <3>2
    <3> QED BY <2>3, <3>3
  <2> QED BY <2>5, <2>6
<1>7. CASE Deliver
  <2>1. UNCHANGED <<sequence, active, stream>>
    BY <1>7 DEF Deliver
  <2> QED BY <1>7, <2>1, NextDelivered DEF PipeCovers
<1>8. CASE \E t \in Turns : RestoredStep(t)
  <2>1. UNCHANGED <<sequence, active, stream, cursor, pipe>>
    BY <1>8, RestoredDoes
  <2> QED BY <2>1 DEF PipeCovers
<1> QED BY <1>1, <1>2, <1>3, <1>4, <1>5, <1>6, <1>7, <1>8, StepCases DEF PageStep

-----------------------------------------------------------------------------
(***************************************************************************)
(* What the page shows, and what it waits for.                             *)
(***************************************************************************)

\* An emission leaves whoever has seen all that was told before it behind.
LEMMA EmittingLeavesBehind ==
  ASSUME Types, Numbering, RecordsAgree, NEW t \in Turns, Emitting(t),
         NEW seen \in Nat, seen <= LastNumber
  PROVE  Behind(seen)'
<1> PICK kinds \in {<<"other">>, <<"update">>, <<"update", "other">>} :
       Emitted(t, kinds) /\ (Ends(t) => kinds = <<"update", "other">>)
  BY EmittingKinds
<1>1. /\ sequence' = LastNumber + Len(kinds) /\ LastNumber \in Nat
      /\ Len(kinds) \in {1, 2} /\ sequence' # NoSequence
  BY EmissionNumbering DEF Emitted
<1>2. active' = NoTurn => Len(kinds) = 2
  <2>1. active' = NoTurn => Ends(t)
    BY ActiveTurn DEF Emitting, ServeStart, Progress, Delta, UpdateDue, TurnChanges,
       ConversationAssumption
  <2>2. Ends(t) => Len(kinds) = 2
    OBVIOUS
  <2> QED BY <2>1, <2>2
<1>3. seen + 1 <= sequence' /\ (active' = NoTurn => seen + 1 < sequence')
  <2>1. CASE Len(kinds) = 1
    BY <1>1, <1>2, <2>1
  <2>2. CASE Len(kinds) = 2
    BY <1>1, <2>2
  <2> QED BY <1>1, <2>1, <2>2
<1>4. seen < sequence'
  BY <1>1, <1>3
<1> QED BY <1>1, <1>3, <1>4 DEF Behind

LEMMA DeliverShows ==
  ASSUME Inv, Deliver, order # <<>>, ~throttled, page'.loaded, ~missed'
  PROVE  ShowsLast(page)' \/ Behind(cursor)'
<1> DEFINE e == Head(pipe)
<1>1. /\ Types /\ Numbering /\ RecordsAgree /\ NothingIsTold /\ EndTells(pipe) /\ PipeCovers
      /\ LatestShown /\ CursorBehind
  BY DEF Inv
<1>2. /\ e \in Event /\ e = pipe[1] /\ pipe # <<>>
      /\ Len(pipe) \in Nat \ {0} /\ sequence \in Nat /\ sequence # NoSequence
      /\ cursor' = sequence - Len(pipe) + 1 /\ cursor' \in Nat /\ stream = "up"
  BY <1>1, NextDelivered DEF ConversationAssumption
<1>11. /\ Len(pipe) # 1 => cursor' < sequence
       /\ Len(pipe) # 1 /\ Len(pipe) # 2 => cursor' + 1 < sequence
  <2> DEFINE n == Len(pipe)
  <2>1. n \in Nat \ {0} /\ sequence \in Nat /\ cursor' = sequence - n + 1
    BY <1>2
  <2> HIDE DEF n
  <2>2. /\ n # 1 => cursor' < sequence
        /\ n # 1 /\ n # 2 => cursor' + 1 < sequence
    BY <2>1
  <2> QED BY <2>2 DEF n
<1>3. UNCHANGED <<version, ended, active, order, throttled, sequence>>
  BY DEF Deliver, serverVars, turnVars
<1>4. Last' = Last
  BY <1>3 DEF Last
<1>5. page.loaded /\ page \in PageType /\ cursor \in Nat
  BY <1>1, <1>2 DEF CursorBehind, Types, PageTypes
<1>6. e.kind # "update" => page' = page /\ missed' = missed
  BY DEF Deliver
<1>7. ASSUME TellsLatest(e) PROVE ShowsLast(page)'
  <2>1. e.kind = "update"
    BY <1>7 DEF TellsLatest
  <2>2. page' = [page EXCEPT !.version[e.turn] = e.version,
                             !.ended = IF e.ended THEN @ \cup {e.turn} ELSE @ \ {e.turn},
                             !.pending = FALSE,
                             !.ready = e.ended]
    BY <2>1 DEF Deliver
  <2> HIDE DEF e
  <2>3. /\ e.turn = Last /\ e.version = version[Last] /\ (e.ended <=> Last \in ended)
        /\ e.turn \in Turns
    BY <1>2, <1>7 DEF TellsLatest, Event
  <2>4. page'.version[Last] = version[Last]
    BY <1>5, <2>2, <2>3 DEF PageType
  <2>5. Last \in page'.ended <=> Last \in ended
    BY <1>5, <2>2, <2>3 DEF PageType
  <2> QED BY <1>3, <1>4, <2>4, <2>5 DEF ShowsLast
<1> HIDE DEF e
<1>8. CASE active # NoTurn
  <2>1. CASE Len(pipe) = 1
    <3>1. e = pipe[Len(pipe)]
      BY <1>2, <2>1
    <3>2. TellsLatest(e) \/ (e.kind = "other" /\ version[Last] = 0)
      BY <1>1, <1>2, <1>8, <3>1 DEF EndTells
    <3>3. ASSUME e.kind = "other", version[Last] = 0 PROVE ShowsLast(page)'
      <4>1. active = Last /\ Last \in Turns
        BY <1>1, <1>8 DEF RecordsAgree, Types, ServerTypes
      <4>2. Untold(Last)
        BY <3>3, <4>1 DEF Untold
      <4>3. Blind(page, Last) /\ Last \notin ended
        BY <1>1, <4>1, <4>2 DEF NothingIsTold
      <4> QED BY <1>3, <1>4, <1>6, <3>3, <4>3 DEF ShowsLast, Blind
    <3> QED BY <1>7, <3>2, <3>3
  <2>2. CASE Len(pipe) # 1
    <3>1. cursor' < sequence
      BY <1>11, <2>2
    <3> QED BY <1>2, <1>3, <1>8, <3>1 DEF Behind
  <2> QED BY <2>1, <2>2
<1>9. CASE active = NoTurn
  <2>1. CASE Len(pipe) = 1
    <3>1. e.kind = "other"
      BY <1>1, <1>2, <1>9, <2>1 DEF EndTells
    <3>2. page' = page /\ ~missed
      BY <1>6, <3>1
    <3>3. ShowsLast(page) \/ Behind(cursor)
      BY <1>1, <1>5, <3>2 DEF LatestShown
    <3>4. ~Behind(cursor)
      BY <1>1, <1>2, <1>9, <2>1 DEF PipeCovers, Behind
    <3> QED BY <1>3, <1>4, <3>2, <3>3, <3>4 DEF ShowsLast
  <2>2. CASE Len(pipe) = 2
    <3>1. e = pipe[Len(pipe) - 1]
      BY <1>2, <2>2
    <3>2. TellsLatest(e)
      BY <1>1, <1>2, <1>9, <2>2, <3>1 DEF EndTells
    <3> QED BY <1>7, <3>2
  <2>3. CASE Len(pipe) # 1 /\ Len(pipe) # 2
    <3>1. cursor' + 1 < sequence
      BY <1>11, <2>3
    <3> QED BY <1>2, <1>3, <1>9, <3>1 DEF Behind
  <2> QED BY <2>1, <2>2, <2>3
<1> QED BY <1>8, <1>9

LEMMA LatestShownKept ==
  ASSUME Inv, [Next]_vars
  PROVE  LatestShown'
<1> USE DEF serverVars, turnVars, streamVars, getVars, postVars
<1>1. Types /\ Numbering /\ RecordsAgree /\ RestoredApart /\ CursorBehind /\ LatestShown
  BY DEF Inv
<1>2. cursor \in Nat /\ answer.seq \in Nat
  BY <1>1 DEF Types, PageTypes, TranscriptType
<1>3. CASE \E t \in Turns : Emitting(t)
  <2> PICK t \in Turns : Emitting(t)
    BY <1>3
  <2>1. UNCHANGED <<page, cursor, get, answer, ahead, missed>>
    BY EmittingFrame
  <2>2. page.loaded /\ ~missed => Behind(cursor)'
    BY <1>1, <1>2, <2>1, EmittingLeavesBehind DEF CursorBehind, Behind
  <2>3. get = "answered" /\ ~ahead => Behind(answer.seq)'
    BY <1>1, <1>2, <2>1, EmittingLeavesBehind DEF CursorBehind, Behind
  <2> QED BY <2>1, <2>2, <2>3 DEF LatestShown
<1>4. CASE Requesting
  BY <1>1, <1>4 DEF Requesting, LatestShown, ShowsLast, Behind, Last, Outdated
<1>5. CASE Save \/ Load \/ Connect \/ Disconnect
  <2>1. /\ UNCHANGED <<turnVars, sequence, page, cursor, answer, ahead, missed>>
        /\ get' = "answered" => get = "answered"
    BY <1>5 DEF Save, Load, Connect, Disconnect
  <2>2. Last' = Last
    BY <2>1 DEF Last
  <2>3. /\ ShowsLast(page) => ShowsLast(page)'
        /\ Behind(cursor) => Behind(cursor)'
        /\ ShowsLast(answer) => ShowsLast(answer)'
        /\ Behind(answer.seq) => Behind(answer.seq)'
        /\ Outdated(answer)' <=> Outdated(answer)
    BY <2>1, <2>2 DEF ShowsLast, Behind, Outdated
  <2>4. ASSUME order' # <<>>, ~throttled'
        PROVE  /\ page'.loaded /\ ~missed' => ShowsLast(page)' \/ Behind(cursor)'
               /\ get' = "answered" /\ ~ahead' /\ ~Outdated(answer)' =>
                    ShowsLast(answer)' \/ Behind(answer.seq)'
    <3>1. /\ page.loaded /\ ~missed => ShowsLast(page) \/ Behind(cursor)
          /\ get = "answered" /\ ~ahead /\ ~Outdated(answer) => ShowsLast(answer) \/ Behind(answer.seq)
      BY <1>1, <2>1, <2>4 DEF LatestShown
    <3>2. /\ page'.loaded /\ ~missed' => page.loaded /\ ~missed
          /\ get' = "answered" /\ ~ahead' => get = "answered" /\ ~ahead
      BY <2>1
    <3> QED BY <2>3, <3>1, <3>2
  <2> QED BY <2>4 DEF LatestShown
<1>6. CASE Chat
  <2>1. UNCHANGED <<turnVars, transcript, sequence, page, cursor, missed>>
    BY <1>6 DEF Chat
  <2>2. Last' = Last
    BY <2>1 DEF Last
  <2>3. ASSUME order # <<>>, ~throttled PROVE ShowsLast(answer)'
    <3> DEFINE t == transcript.active
    <3>1. Last \in Turns
      BY <1>1, <2>3, LatestTurn
    <3>2. /\ transcript.version[Last] = version[Last] /\ transcript.ended = ended
          /\ transcript \in TranscriptType
      BY <1>1, <2>3, <3>1 DEF RecordsAgree, Types, ServerTypes
    <3>3. CASE t # NoTurn /\ t \in {active, restored}
      <4>1. t \in Turns /\ t \notin ended
        BY <1>1, <3>2, <3>3 DEF RestoredApart, ActiveRecorded, TranscriptType
      <4>2. answer' = TurnRecorded(transcript, t, version[t], FALSE)
        BY <1>6, <3>3 DEF Chat
      <4>3. /\ answer'.version = [transcript.version EXCEPT ![t] = version[t]]
            /\ answer'.ended = ended \ {t}
        BY <3>2, <4>2 DEF TurnRecorded, TranscriptType
      <4>4. answer'.version[Last] = version[Last] /\ (Last \in answer'.ended <=> Last \in ended)
        BY <3>1, <3>2, <4>1, <4>3 DEF TranscriptType
      <4> QED BY <2>1, <2>2, <4>4 DEF ShowsLast
    <3>4. CASE ~(t # NoTurn /\ t \in {active, restored})
      <4>1. answer' = [transcript EXCEPT !.active = NoTurn]
        BY <1>6, <3>4 DEF Chat
      <4>2. answer'.version = transcript.version /\ answer'.ended = transcript.ended
        BY <3>2, <4>1 DEF TranscriptType
      <4> QED BY <2>1, <2>2, <3>2, <4>2 DEF ShowsLast
    <3> QED BY <3>3, <3>4
  <2>4. order # <<>> /\ ~throttled /\ page.loaded /\ ~missed => (ShowsLast(page) \/ Behind(cursor))'
    BY <1>1, <2>1, <2>2 DEF LatestShown, ShowsLast, Behind
  <2> QED BY <2>1, <2>3, <2>4 DEF LatestShown
<1>7. CASE SnapshotArrives
  <2>1. /\ get = "answered" /\ get' = "none"
        /\ page'.version = answer.version /\ page'.ended = answer.ended
        /\ cursor' = IF stream = "none" THEN answer.seq ELSE cursor
        /\ UNCHANGED <<turnVars, sequence>>
    BY <1>7 DEF SnapshotArrives
  <2>2. Last' = Last
    BY <2>1 DEF Last
  <2>3. missed' <=> \/ stream # "none" /\ answer.seq < cursor
                    \/ ahead
                    \/ Outdated(answer)
    BY <1>7, Zenon DEF SnapshotArrives
  <2>4. ASSUME order # <<>>, ~throttled, ~missed' PROVE ShowsLast(page)' \/ Behind(cursor)'
    <3>1. ShowsLast(answer) \/ Behind(answer.seq)
      BY <1>1, <2>1, <2>3, <2>4 DEF LatestShown
    <3>2. cursor' <= answer.seq /\ cursor' \in Nat
      <4>1. CASE stream = "none"
        BY <1>2, <2>1, <4>1
      <4>2. CASE stream # "none"
        BY <1>2, <2>1, <2>3, <2>4, <4>2
      <4> QED BY <4>1, <4>2
    <3>3. ShowsLast(answer) => ShowsLast(page)'
      BY <2>1, <2>2 DEF ShowsLast
    <3>4. Behind(answer.seq) => Behind(cursor)'
      BY <1>1, <1>2, <2>1, <3>2 DEF Behind, Types, ServerTypes
    <3> QED BY <3>1, <3>3, <3>4
  <2> QED BY <2>1, <2>4 DEF LatestShown
<1>8. CASE SnapshotFails \/ PageReload
  BY <1>8 DEF SnapshotFails, PageReload, Blank, LatestShown
<1>9. CASE Deliver
  <2>1. UNCHANGED <<turnVars, sequence, get, answer, ahead>>
    BY <1>9 DEF Deliver
  <2>2. Last' = Last
    BY <2>1 DEF Last
  <2>3. order # <<>> /\ ~throttled /\ page'.loaded /\ ~missed' => ShowsLast(page)' \/ Behind(cursor)'
    BY <1>9, DeliverShows
  <2>4. order # <<>> /\ ~throttled /\ get = "answered" /\ ~ahead /\ ~Outdated(answer)' =>
          (ShowsLast(answer) \/ Behind(answer.seq))'
    BY <1>1, <2>1, <2>2 DEF LatestShown, ShowsLast, Behind, Outdated
  <2> QED BY <2>1, <2>3, <2>4 DEF LatestShown
<1>10. CASE Crash
  <2>1. page' = page /\ missed' = page.loaded /\ get' # "answered"
    BY <1>10 DEF Crash
  <2> QED BY <2>1 DEF LatestShown
<1>11. CASE \E t \in Turns : RestoredStep(t)
  <2> PICK t \in Turns : RestoredStep(t)
    BY <1>11
  <2>1. /\ UNCHANGED <<active, order, throttled, sequence, page, cursor, get, answer, ahead>>
        /\ restored' = t
    BY <1>1, RestoredDoes
  <2>2. Last' = Last
    BY <2>1 DEF Last
  <2> SUFFICES ASSUME order # <<>>, ~throttled
               PROVE  /\ page.loaded /\ ~missed' => ShowsLast(page)' \/ Behind(cursor)'
                      /\ get = "answered" /\ ~ahead /\ ~Outdated(answer)' =>
                           ShowsLast(answer)' \/ Behind(answer.seq)'
    BY <2>1 DEF LatestShown
  <2>3. Last \in Turns
    BY <1>1, LatestTurn
  <2>4. CASE version'[Last] = version[Last] /\ (Last \in ended' <=> Last \in ended)
             /\ missed' = missed /\ ~Outdated(answer)
    <3>1. /\ ShowsLast(page) => ShowsLast(page)'
          /\ Behind(cursor) => Behind(cursor)'
          /\ ShowsLast(answer) => ShowsLast(answer)'
          /\ Behind(answer.seq) => Behind(answer.seq)'
      BY <2>1, <2>2, <2>4 DEF ShowsLast, Behind
    <3> QED BY <1>1, <2>4, <3>1 DEF LatestShown
  <2>5. CASE sequence # NoSequence
    <3>1. ~Outdated(answer)
      BY <1>1, <2>5, RestoredIsNotLatest DEF Outdated
    <3> QED BY <1>1, <2>4, <2>5, <3>1, RestoredIsNotLatest
  <2>6. CASE sequence = NoSequence /\ t # restored
    <3>1. /\ transcript.active = t /\ UNCHANGED <<version, ended, missed>> /\ t # NoTurn
      BY <1>1, <2>6, RestoredDoes DEF ConversationAssumption
    <3>2. restored = NoTurn
      BY <1>1, <2>6, <3>1 DEF RestoredApart
    <3> QED BY <2>4, <3>1, <3>2 DEF Outdated
  <2>7. CASE sequence = NoSequence /\ t = restored
    <3>1. /\ t \notin ended /\ missed' = (missed \/ (page.loaded /\ t = Last))
      BY <1>1, <2>7, RestoredCases
    <3>5. t # Last => version'[Last] = version[Last] /\ (Last \in ended' <=> Last \in ended)
      BY <1>1, <2>3, RestoredOthers
    <3>2. missed \in BOOLEAN
      BY <1>1 DEF Types, PageTypes
    <3>3. CASE t # Last
      <4>1. ~Outdated(answer)
        BY <2>7, <3>3 DEF Outdated
      <4> QED BY <2>4, <3>1, <3>2, <3>3, <3>5, <4>1
    <3>4. CASE t = Last
      <4>1. page.loaded => missed'
        BY <3>1, <3>4
      <4>2. get = "answered" => Last \notin answer.ended
        BY <1>1, <3>1, <3>4 DEF RestoredApart
      <4>3. get = "answered" /\ ~Outdated(answer)' => ShowsLast(answer)'
        <5>1. t # NoTurn
          BY DEF ConversationAssumption
        <5> QED BY <2>1, <2>2, <3>4, <4>2, <5>1 DEF Outdated, ShowsLast
      <4> QED BY <4>1, <4>3
    <3> QED BY <3>3, <3>4
  <2> QED BY <2>5, <2>6, <2>7
<1> QED BY <1>1, <1>3, <1>4, <1>5, <1>6, <1>7, <1>8, <1>9, <1>10, <1>11, StepCases DEF PageStep

LEMMA DeliverUpdates ==
  ASSUME Inv, Deliver, page'.pending, active = NoTurn, ~missed',
         \A t \in Turns : t \in orphaned \/ post[t] \notin {"sent", "refused"}
  PROVE  sequence # NoSequence /\ cursor' + 1 < sequence
<1> DEFINE e == Head(pipe)
<1>1. Types /\ Numbering /\ RecordsAgree /\ EndTells(pipe) /\ PipeCovers /\ UpdateIsDue
  BY DEF Inv
<1>2. /\ e \in Event /\ e = pipe[1] /\ pipe # <<>>
      /\ Len(pipe) \in Nat \ {0} /\ sequence \in Nat /\ sequence # NoSequence
      /\ cursor' = sequence - Len(pipe) + 1 /\ stream = "up" /\ order # <<>>
  BY <1>1, NextDelivered DEF ConversationAssumption
<1>3. e.kind # "update"
  <2> SUFFICES ASSUME e.kind = "update" PROVE FALSE
    OBVIOUS
  <2>1. page' = [page EXCEPT !.version[e.turn] = e.version,
                             !.ended = IF e.ended THEN @ \cup {e.turn} ELSE @ \ {e.turn},
                             !.pending = FALSE,
                             !.ready = e.ended]
    BY DEF Deliver
  <2>2. page'.pending = FALSE
    BY <1>1, <2>1 DEF Types, PageTypes, PageType
  <2> QED BY <2>2
<1>4. page' = page /\ missed' = missed
  BY <1>3 DEF Deliver
<1>5. cursor + 1 < sequence
  BY <1>1, <1>4 DEF UpdateIsDue
<1>6. Len(pipe) >= 2
  BY <1>1, <1>2, <1>5 DEF PipeCovers
<1>7. Len(pipe) # 2
  <2> SUFFICES ASSUME Len(pipe) = 2 PROVE FALSE
    OBVIOUS
  <2>1. e = pipe[Len(pipe) - 1]
    BY <1>2
  <2>2. ~throttled
    BY <1>1 DEF RecordsAgree
  <2>3. TellsLatest(e)
    BY <1>1, <1>2, <2>1, <2>2 DEF EndTells
  <2> QED BY <1>3, <2>3 DEF TellsLatest
<1>8. \A n \in Nat : n >= 2 /\ n # 2 => (sequence - n + 1) + 1 < sequence
  BY <1>2
<1> QED BY <1>2, <1>6, <1>7, <1>8

\* The hypothesis under which an update is due.
Waiting ==
  /\ page.pending /\ active = NoTurn /\ ~missed
  /\ \A t \in Turns : t \in orphaned \/ post[t] \notin {"sent", "refused"}

LEMMA PostingUpdates ==
  ASSUME Inv, NEW t \in Turns, Posting(t)
  PROVE  UpdateIsDue'
<1> USE DEF serverVars, turnVars, streamVars, getVars, postVars
<1>1. Types /\ UpdateIsDue
  BY DEF Inv
<1>2. UNCHANGED <<sequence, cursor, active, missed, orphaned>>
  <2>1. UNCHANGED <<sequence, cursor, active, missed>>
    BY <1>1, PostingRequests DEF Requesting
  <2>2. orphaned' = orphaned
    BY DEF Posting, ServeConflict, SendTurn, CheckAndDispatch, Sends, Answered, Refused
  <2> QED BY <2>1, <2>2
<1>3. post \in [Turns -> {"none", "sent", "answered", "refused", "ok", "error"}] /\ page \in PageType
  BY <1>1 DEF Types, PostTypes, PageTypes
<1>4. ASSUME post'[t] = "sent", t \notin orphaned,
             \A u \in Turns : u # t => post'[u] = post[u]
      PROVE  UpdateIsDue'
  <2>1. ~Waiting'
    BY <1>2, <1>4 DEF Waiting
  <2>2. \A u \in orphaned : post'[u] # "none"
    BY <1>1, <1>4 DEF UpdateIsDue, Types, PostTypes
  <2> QED BY <1>2, <2>1, <2>2 DEF UpdateIsDue, Waiting
<1>5. ASSUME NEW what, Sends(t, what) PROVE UpdateIsDue'
  <2>1. /\ post' = [post EXCEPT ![t] = "sent"]
        /\ \A u \in Turns : post[u] = "none" <=> u >= t
    BY <1>5 DEF Sends
  <2>2. t >= t
    BY DEF ConversationAssumption
  <2>3. t \notin orphaned
    BY <1>1, <2>1, <2>2 DEF UpdateIsDue
  <2> QED BY <1>3, <1>4, <2>1, <2>3
<1>6. CASE ServeConflict(t)
  <2>1. active # NoTurn /\ post'[t] # "none" /\ \A u \in Turns : u # t => post'[u] = post[u]
    BY <1>3, <1>6 DEF ServeConflict
  <2>2. \A u \in orphaned : post'[u] # "none"
    BY <1>1, <2>1 DEF UpdateIsDue, Types, PostTypes
  <2> QED BY <1>2, <2>1, <2>2 DEF UpdateIsDue
<1>7. CASE SendTurn(t) \/ CheckAndDispatch(t)
  BY <1>5, <1>7 DEF SendTurn, CheckAndDispatch
<1>8. CASE Answered(t)
  <2>1. /\ post[t] = "answered" /\ post'[t] = "ok" /\ page' = page
        /\ \A u \in Turns : u # t => post'[u] = post[u]
    BY <1>3, <1>8 DEF Answered
  <2>2. \A u \in orphaned : post'[u] # "none"
    BY <1>1, <2>1 DEF UpdateIsDue, Types, PostTypes
  <2>3. Waiting' => Waiting
    BY <1>2, <2>1 DEF Waiting
  <2> QED BY <1>1, <1>2, <2>2, <2>3 DEF UpdateIsDue, Waiting
<1>9. CASE Refused(t)
  <2>1. /\ post[t] = "refused" /\ post'[t] = "error"
        /\ \A u \in Turns : u # t => post'[u] = post[u]
        /\ t \in orphaned => page' = page
        /\ t \notin orphaned => page' = [page EXCEPT !.pending = FALSE]
    BY <1>3, <1>9 DEF Refused
  <2>2. \A u \in orphaned : post'[u] # "none"
    BY <1>1, <2>1 DEF UpdateIsDue, Types, PostTypes
  <2>3. CASE t \in orphaned
    <3>1. Waiting' => Waiting
      BY <1>2, <2>1, <2>3 DEF Waiting
    <3> QED BY <1>1, <1>2, <2>2, <3>1 DEF UpdateIsDue, Waiting
  <2>4. CASE t \notin orphaned
    <3>1. page'.pending = FALSE
      BY <1>3, <2>1, <2>4 DEF PageType
    <3> QED BY <1>2, <2>2, <3>1 DEF UpdateIsDue
  <2> QED BY <2>3, <2>4
<1> QED BY <1>6, <1>7, <1>8, <1>9 DEF Posting

LEMMA UpdateIsDueKept ==
  ASSUME Inv, [Next]_vars
  PROVE  UpdateIsDue'
<1> USE DEF serverVars, turnVars, streamVars, getVars, postVars
<1>1. Types /\ Numbering /\ RecordsAgree /\ RestoredApart /\ CursorBehind /\ UpdateIsDue
  BY DEF Inv
<1>2. CASE \E t \in Turns : Serve(t) \/ TurnStep(t) \/ Request(t) \/ Response(t)
  <2> PICK t \in Turns : Serve(t) \/ TurnStep(t) \/ Request(t) \/ Response(t)
    BY <1>2
  <2>1. CASE Posting(t)
    BY <2>1, PostingUpdates
  <2>2. CASE Emitting(t)
    <3>1. UNCHANGED <<page, cursor, missed, orphaned>>
      BY <2>2, EmittingFrame
    <3>2. page.pending /\ ~missed /\ active' = NoTurn =>
            sequence' # NoSequence /\ cursor' + 1 < sequence'
      <4> SUFFICES ASSUME page.pending, ~missed, active' = NoTurn
                   PROVE  sequence' # NoSequence /\ cursor' + 1 < sequence'
        OBVIOUS
      <4>1. cursor \in Nat /\ cursor <= LastNumber
        BY <1>1 DEF CursorBehind, Types, PageTypes
      <4>2. Behind(cursor)'
        BY <1>1, <2>2, <3>1, <4>1, EmittingLeavesBehind DEF Behind
      <4> QED BY <4>2 DEF Behind
    <3>3. \A u \in orphaned : post'[u] # "none"
      <4>1. post' = post \/ post' = [post EXCEPT ![t] = "answered"]
        BY <2>2 DEF Emitting, ServeStart, Progress, Delta, UpdateDue, Ends
      <4> QED BY <1>1, <4>1 DEF UpdateIsDue, Types, PostTypes
    <3> QED BY <3>1, <3>2, <3>3 DEF UpdateIsDue
  <2> QED BY <2>1, <2>2 DEF Serve, TurnStep, Request, Response, Emitting, Posting
<1>3. CASE UNCHANGED vars \/ RetryInitial \/ Save \/ Load \/ Chat \/ Connect \/ Disconnect
  <2>1. UNCHANGED <<page, active, missed, orphaned, post, sequence, cursor>>
    BY <1>3 DEF vars, RetryInitial, Save, Load, Chat, Connect, Disconnect
  <2> QED BY <1>1, <2>1 DEF UpdateIsDue
<1>4. CASE SnapshotArrives \/ SnapshotFails
  <2>1. page'.pending = FALSE /\ UNCHANGED <<orphaned, post>>
    <3>1. CASE SnapshotArrives
      <4>1. page' = [loaded |-> TRUE, pending |-> FALSE, ready |-> Ready(answer),
                     version |-> answer.version, ended |-> answer.ended]
        BY <3>1 DEF SnapshotArrives
      <4> QED BY <3>1, <4>1 DEF SnapshotArrives
    <3>2. CASE SnapshotFails
      BY <3>2 DEF SnapshotFails, Blank
    <3> QED BY <1>4, <3>1, <3>2
  <2> QED BY <1>1, <2>1 DEF UpdateIsDue
<1>5. CASE PageReload
  <2>1. /\ page'.pending = FALSE /\ post' = post
        /\ orphaned' = orphaned \cup {t \in Turns : post[t] \in {"sent", "answered", "refused"}}
    BY <1>5 DEF PageReload, Blank
  <2> QED BY <1>1, <2>1 DEF UpdateIsDue
<1>6. CASE Deliver
  <2>1. UNCHANGED <<active, orphaned, post, sequence>>
    BY <1>6 DEF Deliver
  <2> QED BY <1>1, <1>6, <2>1, DeliverUpdates DEF UpdateIsDue
<1>7. CASE Crash
  <2>1. /\ page' = page /\ missed' = page.loaded /\ orphaned' = orphaned
        /\ post' = [t \in Turns |-> IF post[t] \in {"sent", "answered"} THEN "refused" ELSE post[t]]
    BY <1>7 DEF Crash
  <2>2. page.pending => missed'
    BY <1>1, <2>1 DEF CursorBehind
  <2>3. \A t \in orphaned' : post'[t] # "none"
    BY <1>1, <2>1 DEF UpdateIsDue, Types, PostTypes
  <2> QED BY <2>1, <2>2, <2>3 DEF UpdateIsDue
<1>8. CASE \E t \in Turns : RestoredStep(t)
  <2>1. UNCHANGED <<page, active, orphaned, post, sequence, cursor>> /\ (missed => missed')
    <3> PICK t \in Turns : RestoredStep(t)
      BY <1>8
    <3>1. missed => missed'
      BY <1>1, RestoredDoes
    <3> QED BY <1>1, <3>1, RestoredDoes
  <2> QED BY <1>1, <2>1 DEF UpdateIsDue
<1> QED BY <1>2, <1>3, <1>4, <1>5, <1>6, <1>7, <1>8 DEF Next

-----------------------------------------------------------------------------
(***************************************************************************)
(* The initial prompt.                                                     *)
(***************************************************************************)

\* Whoever asks for the prompt after a step asked for it before, and is told by the
\* dispatch as it was.
LEMMA PromptKept ==
  ASSUME OnePrompt,
         \A t \in Turns : Asks(t)' =>
           Asks(t) /\ (post'[t] = "ok" <=> post[t] = "ok") /\ dispatch' = dispatch
  PROVE  OnePrompt'
BY DEF OnePrompt

LEMMA PostingPrompts ==
  ASSUME Types, OnePrompt, UpdateIsDue, NEW t \in Turns, Posting(t)
  PROVE  OnePrompt'
<1>1. /\ post \in [Turns -> {"none", "sent", "answered", "refused", "ok", "error"}]
      /\ kind \in [Turns -> {"none", "prompt", "message"}]
  BY DEF Types, PostTypes
<1>2. orphaned' = orphaned
  BY DEF Posting, ServeConflict, SendTurn, CheckAndDispatch, Sends, Answered, Refused
<1>3. CASE ServeConflict(t)
  <2>1. /\ post[t] = "sent" /\ post'[t] \in {"answered", "refused"}
        /\ \A u \in Turns : u # t => post'[u] = post[u]
        /\ UNCHANGED <<kind, dispatch>>
    BY <1>1, <1>3 DEF ServeConflict
  <2> QED BY <1>2, <2>1, PromptKept DEF Asks
<1>4. CASE SendTurn(t)
  <2>1. /\ kind'[t] = "message" /\ dispatch' = dispatch
        /\ \A u \in Turns : u # t => post'[u] = post[u] /\ kind'[u] = kind[u]
    BY <1>1, <1>4 DEF SendTurn, Sends
  <2> QED BY <1>2, <2>1, PromptKept DEF Asks
<1>5. CASE CheckAndDispatch(t)
  <2>1. /\ dispatch = "pending" /\ dispatch' = "in-flight" /\ post'[t] = "sent"
        /\ \A u \in Turns : u # t => post'[u] = post[u] /\ kind'[u] = kind[u]
    BY <1>1, <1>5 DEF CheckAndDispatch, Sends
  <2>2. \A u \in Turns : ~Asks(u)
    BY <2>1 DEF OnePrompt
  <2>3. \A u \in Turns : Asks(u)' => u = t
    BY <1>2, <2>1, <2>2 DEF Asks
  <2> QED BY <2>1, <2>3 DEF OnePrompt
<1>6. CASE Answered(t)
  <2>1. /\ post[t] = "answered" /\ post'[t] = "ok" /\ kind' = kind
        /\ dispatch' = IF kind[t] = "prompt" /\ t \notin orphaned THEN "none" ELSE dispatch
        /\ \A u \in Turns : u # t => post'[u] = post[u]
    BY <1>1, <1>6 DEF Answered
  <2>2. CASE kind[t] = "prompt" /\ t \notin orphaned
    <3>1. Asks(t) /\ dispatch' = "none"
      BY <2>1, <2>2 DEF Asks
    <3>2. \A u \in Turns : Asks(u)' => u = t
      BY <1>2, <2>1, <3>1 DEF Asks, OnePrompt
    <3> QED BY <2>1, <3>1, <3>2 DEF OnePrompt
  <2>3. CASE ~(kind[t] = "prompt" /\ t \notin orphaned)
    BY <1>2, <2>1, <2>3, PromptKept DEF Asks
  <2> QED BY <2>2, <2>3
<1>7. CASE Refused(t)
  <2>1. /\ post[t] = "refused" /\ post'[t] = "error" /\ kind' = kind
        /\ \A u \in Turns : u # t => post'[u] = post[u]
    BY <1>1, <1>7 DEF Refused
  <2>2. CASE kind[t] = "prompt" /\ t \notin orphaned
    <3>1. Asks(t)
      BY <2>1, <2>2 DEF Asks
    <3>2. \A u \in Turns : ~Asks(u)'
      BY <1>2, <2>1, <3>1 DEF Asks, OnePrompt
    <3> QED BY <3>2 DEF OnePrompt
  <2>3. CASE ~(kind[t] = "prompt" /\ t \notin orphaned)
    <3>1. dispatch' = dispatch
      BY <1>7, <2>3 DEF Refused
    <3> QED BY <1>2, <2>1, <3>1, PromptKept DEF Asks
  <2> QED BY <2>2, <2>3
<1> QED BY <1>3, <1>4, <1>5, <1>6, <1>7 DEF Posting

LEMMA OnePromptKept ==
  ASSUME Inv, [Next]_vars
  PROVE  OnePrompt'
<1> USE DEF postVars
<1>1. Types /\ RestoredApart /\ OnePrompt /\ UpdateIsDue
  BY DEF Inv
<1>2. /\ post \in [Turns -> {"none", "sent", "answered", "refused", "ok", "error"}]
      /\ kind \in [Turns -> {"none", "prompt", "message"}]
  BY <1>1 DEF Types, PostTypes
<1>3. CASE \E t \in Turns : Serve(t) \/ TurnStep(t) \/ Request(t) \/ Response(t)
  <2> PICK t \in Turns : Serve(t) \/ TurnStep(t) \/ Request(t) \/ Response(t)
    BY <1>3
  <2>1. CASE Posting(t)
    BY <1>1, <2>1, PostingPrompts
  <2>2. CASE ServeStart(t)
    <3>1. /\ post[t] = "sent" /\ post'[t] = "answered"
          /\ \A u \in Turns : u # t => post'[u] = post[u]
          /\ UNCHANGED <<kind, dispatch, orphaned>>
      BY <1>2, <2>2 DEF ServeStart
    <3> QED BY <1>1, <3>1, PromptKept DEF Asks
  <2>3. CASE TurnStep(t)
    <3>1. UNCHANGED <<post, kind, dispatch, orphaned>>
      BY <2>3 DEF TurnStep, Progress, Delta, UpdateDue, Ends
    <3> QED BY <1>1, <3>1, PromptKept DEF Asks
  <2> QED BY <2>1, <2>2, <2>3 DEF Serve, Request, Response, Posting
<1>4. CASE UNCHANGED vars \/ Save \/ Load \/ Chat \/ SnapshotArrives \/ SnapshotFails
           \/ Connect \/ Disconnect \/ Deliver
  <2>1. UNCHANGED <<post, kind, dispatch, orphaned>>
    BY <1>4 DEF vars, Save, Load, Chat, SnapshotArrives, SnapshotFails, Connect, Disconnect, Deliver
  <2> QED BY <1>1, <2>1, PromptKept DEF Asks
<1>5. CASE RetryInitial
  <2>1. dispatch = "failed" /\ UNCHANGED <<post, kind, orphaned>>
    BY <1>5 DEF RetryInitial
  <2>2. \A t \in Turns : ~Asks(t)'
    BY <1>1, <2>1 DEF Asks, OnePrompt
  <2> QED BY <2>2 DEF OnePrompt
<1>6. CASE PageReload
  <2>1. /\ orphaned' = orphaned \cup {t \in Turns : post[t] \in {"sent", "answered", "refused"}}
        /\ dispatch' = IF dispatch = "in-flight" THEN "pending" ELSE dispatch
        /\ UNCHANGED <<post, kind>>
    BY <1>6 DEF PageReload
  <2>2. \A t \in Turns : Asks(t)' => Asks(t) /\ post[t] = "ok" /\ dispatch' = dispatch
    BY <1>1, <2>1 DEF Asks, OnePrompt
  <2> QED BY <1>1, <2>1, <2>2, PromptKept
<1>7. CASE Crash
  <2>1. /\ post' = [t \in Turns |-> IF post[t] \in {"sent", "answered"} THEN "refused" ELSE post[t]]
        /\ UNCHANGED <<kind, dispatch, orphaned>>
    BY <1>7 DEF Crash
  <2> QED BY <1>1, <1>2, <2>1, PromptKept DEF Asks
<1>8. CASE \E t \in Turns : RestoredStep(t)
  <2>1. UNCHANGED <<post, kind, dispatch, orphaned>>
    BY <1>1, <1>8, RestoredDoes
  <2> QED BY <1>1, <2>1, PromptKept DEF Asks
<1> QED BY <1>3, <1>4, <1>5, <1>6, <1>7, <1>8 DEF Next

-----------------------------------------------------------------------------
(***************************************************************************)
(* The theorems.                                                           *)
(***************************************************************************)

LEMMA InitInv == Init => Inv
<1> SUFFICES ASSUME Init PROVE Inv
  OBVIOUS
<1>1. ServerTypes
  <2>1. /\ order \in Seq(Turns) /\ buffer \in Seq(Event) /\ Len(buffer) <= BufferSize
        /\ version \in [Turns -> 0..MaxVersion]
    BY EmptySeq DEF Init
  <2> QED BY <2>1, EmptyRecords DEF Init, ServerTypes
<1>2. PageTypes
  <2>1. pipe \in Seq(Event) /\ page \in PageType /\ answer \in TranscriptType
    BY EmptySeq, EmptyRecords DEF Init
  <2> QED BY <2>1 DEF Init, PageTypes
<1>3. PostTypes
  BY DEF Init, PostTypes
<1>4. Numbering
  BY NothingNumbered DEF Init, Numbering
<1>5. NothingIsTold
  BY NothingIsBlind DEF Init, NothingIsTold
<1>6. RecordsAgree /\ RestoredApart
  BY DEF Init, RecordsAgree, RestoredApart, ActiveRecorded, Empty
<1>7. CursorBehind
  BY DEF Init, CursorBehind, Blank
<1>8. EndTells(buffer) /\ EndTells(pipe)
  BY DEF Init, EndTells
<1>9. PipeCovers /\ LatestShown
  BY DEF Init, PipeCovers, LatestShown
<1>10. UpdateIsDue
  BY DEF Init, UpdateIsDue, Blank
<1>11. OnePrompt
  BY DEF Init, OnePrompt, Asks
<1> QED BY <1>1, <1>2, <1>3, <1>4, <1>5, <1>6, <1>7, <1>8, <1>9, <1>10, <1>11 DEF Inv, Types

LEMMA NextInv ==
  ASSUME Inv, [Next]_vars
  PROVE  Inv'
<1>1. /\ Types /\ Numbering /\ NothingIsTold /\ RecordsAgree /\ RestoredApart /\ CursorBehind
      /\ EndTells(buffer) /\ EndTells(pipe) /\ PipeCovers
  BY DEF Inv
<1>2. /\ Types' /\ Numbering' /\ NothingIsTold' /\ RecordsAgree' /\ RestoredApart'
      /\ CursorBehind'
  BY <1>1, TypesKept, NumberingKept, NothingIsToldKept, RecordsAgreeKept, RestoredApartKept,
     CursorBehindKept
<1>3. EndTells(buffer)' /\ EndTells(pipe)' /\ PipeCovers'
  BY <1>1, EndTellsKept, PipeCoversKept
<1>4. LatestShown' /\ UpdateIsDue' /\ OnePrompt'
  BY LatestShownKept, UpdateIsDueKept, OnePromptKept
<1> QED BY <1>2, <1>3, <1>4 DEF Inv

LEMMA Invariant == Spec => []Inv
<1>1. Inv /\ [Next]_vars => Inv'
  BY NextInv
<1> QED BY <1>1, InitInv, PTL DEF Spec

\* The variables have their types, and the events that are kept are numbered without
\* a gap up to the last number given (TurnEventStream.emit, and what a server that
\* starts again goes on from).
THEOREM ConversationTypes == Spec => []TypeOK
<1>1. Inv => TypeOK
  <2> SUFFICES ASSUME Inv PROVE TypeOK
    OBVIOUS
  <2>1. ServerTypes /\ PageTypes /\ PostTypes /\ Numbering
    BY DEF Inv, Types
  <2>2. \A i \in DOMAIN buffer : buffer[i].seq = sequence - Len(buffer) + i
    <3>1. CASE sequence = NoSequence
      <4>1. buffer = <<>>
        BY <2>1, <3>1 DEF Numbering
      <4> QED BY <4>1
    <3>2. CASE sequence # NoSequence
      <4>1. DOMAIN buffer = 1 .. Len(buffer)
        BY <2>1, Lengths DEF ServerTypes
      <4> QED BY <2>1, <3>2, <4>1 DEF Numbering, Numbered, LastNumber
    <3> QED BY <3>1, <3>2
  <2>3. page \in [loaded : BOOLEAN, pending : BOOLEAN, ready : BOOLEAN,
                  version : [Turns -> 0..MaxVersion], ended : SUBSET Turns]
    BY <2>1 DEF PageTypes, PageType
  <2> QED BY <2>1, <2>2, <2>3 DEF TypeOK, ServerTypes, PageTypes, PostTypes
<1> QED BY <1>1, Invariant, PTL

\* A page that has received all that was on its way shows the latest turn as it is:
\* whatever it has not seen of the last events is sent to it when it connects
\* (subscribeToSession), and the last events tell of the turn as it is (emit, #finish).
\* `missed` excepts what no event tells: what a server lost when it died, what a slow
\* snapshot overwrote, what a turn of an earlier process has done since the snapshot
\* (#restorePersistedTurn), and what a number that ran ahead with it hides.
THEOREM ShownIsAlwaysCurrent == Spec => []ShownIsCurrent
<1>1. Inv => ShownIsCurrent
  <2> SUFFICES ASSUME Inv, page.loaded, stream = "up", pipe = <<>>, get = "none",
                      order # <<>>, ~throttled, ~missed
               PROVE  ShowsLast(page)
    BY DEF ShownIsCurrent, ShowsLast
  <2>1. ShowsLast(page) \/ Behind(cursor)
    BY DEF Inv, LatestShown
  <2>2. ~Behind(cursor)
    <3> SUFFICES ASSUME Behind(cursor) PROVE FALSE
      OBVIOUS
    <3>1. Len(pipe) = 0
      OBVIOUS
    <3>2. sequence \in Nat /\ cursor \in Nat
      BY DEF Inv, Types, ServerTypes, PageTypes, Behind
    <3>3. cursor < sequence
      BY <3>2 DEF Behind
    <3> QED BY <3>1, <3>3 DEF Inv, PipeCovers, Behind
  <2> QED BY <2>1, <2>2
<1> QED BY <1>1, Invariant, PTL

\* At most one turn was started by the initial prompt of a session, among those whose
\* start the page was told of (checkAndDispatch marks the dispatch before it sends it).
THEOREM PromptAlwaysRunsOnce == Spec => []PromptRunsOnce
<1>1. Inv => PromptRunsOnce
  <2> SUFFICES ASSUME Inv, NEW t \in Turns, NEW u \in Turns,
                      kind[t] = "prompt", kind[u] = "prompt",
                      {post[t], post[u]} \subseteq {"answered", "ok"},
                      {t, u} \cap orphaned = {}
               PROVE  t = u
    BY DEF PromptRunsOnce
  <2>1. Asks(t) /\ Asks(u)
    BY DEF Asks
  <2> QED BY <2>1 DEF Inv, OnePrompt
<1> QED BY <1>1, Invariant, PTL

\* A page never waits for a turn that nothing will tell it of: a turn that is over has
\* left an update for it, which was on its way or is sent when it connects
\* (applyTurnUpdated ends the wait), unless it missed something as above.
THEOREM PageWaitsForSomething == Spec => []WaitsForSomething
<1>1. Inv => WaitsForSomething
  <2> SUFFICES ASSUME Inv, page.pending, active = NoTurn, stream = "up", pipe = <<>>,
                      \A t \in Turns : post[t] \notin {"sent", "answered", "refused"},
                      ~missed
               PROVE  FALSE
    BY DEF WaitsForSomething
  <2>1. sequence # NoSequence /\ cursor + 1 < sequence
    BY DEF Inv, UpdateIsDue
  <2>2. Len(pipe) = 0
    OBVIOUS
  <2> QED BY <2>1, <2>2 DEF Inv, PipeCovers
<1> QED BY <1>1, Invariant, PTL
=============================================================================
