------------------------------ MODULE AppProofs ------------------------------
(***************************************************************************)
(* Proofs about the terminal program (App), for any channel capacity, any  *)
(* rooms and macros, any number of dials, and any order in which dials,    *)
(* messages and timers come back.                                          *)
(*                                                                         *)
(* Neither property is inductive.  That a room's client is listened to     *)
(* needs that a listener starts with the client and is started again by    *)
(* each event it brings, which Update does last, so that the invariant of  *)
(* a model carries the core whose listener is due.  That a client is held  *)
(* or closed needs what a dial that is out says of its room: unless it was *)
(* left, the room is there and no later dial is for it.                    *)
(***************************************************************************)
EXTENDS App, FiniteSetTheorems, SequenceTheorems, WellFoundedInduction, TLAPS

------------------------------------------------------------------------------
(* The invariant, of a model u of which Update has still to start the listener of core x. *)

\* The terminal program, with whatever the operator types and whatever arrives.
AppSpec == AppInit /\ [][AppNext]_appVars

\* What an event, a line, a room and a core consist of.
Events == [c : Nat, n : Nat, k : EventKinds, self : BOOLEAN]
ShownLines == [c : Nat, n : Nat, content : BOOLEAN]
RoomRecords ==
  [client : Nat, connected : BOOLEAN, keyReady : BOOLEAN, unread : Nat, ttl : BOOLEAN, failed : BOOLEAN,
   scuttled : BOOLEAN, autoClock : BOOLEAN, lines : Seq(ShownLines), streams : Nat, ended : BOOLEAN,
   activeStream : BOOLEAN]
CoreStates == {"dialing", "landed", "refused", "none", "live", "dead", "closed"}
Clocks == {"off", "on", "stopped", "stray"}
IsCore(k) ==
  k \in [room : {k.room}, st : CoreStates, left : BOOLEAN, q : Seq(Events), made : Nat, pumps : Nat,
         posted : SUBSET Events, goneMsgs : Nat, clock : Clocks, asked : BOOLEAN, lost : BOOLEAN]

\* The parts of a model.
HasParts(u) ==
  u \in [macros : {u.macros}, session : {u.session}, order : {u.order}, active : {u.active},
         clockTicking : {u.clockTicking}, ticks : {u.ticks}, lostOnClose : {u.lostOnClose}, shown : {u.shown},
         receipts : {u.receipts}, cores : {u.cores}, todo : {u.todo}, wait : {u.wait}, relisten : {u.relisten},
         run : {u.run}]

\* A sequence, of whatever it holds.
IsSeqOf(s) == s \in Seq({s[i] : i \in DOMAIN s})

\* A model that has them.
IsModel(u) ==
  /\ HasParts(u)
  /\ u.session \in [DOMAIN u.session -> RoomRecords]
  /\ IsSeqOf(u.cores) /\ \A c \in DOMAIN u.cores : IsCore(u.cores[c])

\* The order lists the rooms of the session, each once, the active one among them.
Places(u) ==
  /\ IsSeqOf(u.order)
  /\ \A i \in DOMAIN u.order : u.order[i] \in DOMAIN u.session
  /\ \A n \in DOMAIN u.session : \E i \in DOMAIN u.order : u.order[i] = n
  /\ \A i, j \in DOMAIN u.order : u.order[i] = u.order[j] => i = j
  /\ u.run = "up" => \E i \in DOMAIN u.order : u.order[i] = u.active

\* An echo that waits is one of an Update that is still running.
Waits(u) ==
  u.wait # <<>> => u.run = "up" /\ \E c \in DOMAIN u.cores, k \in EventKinds : u.wait = <<c, k>>

\* c is the last core dialled for its room.
LastOf(u, c) == \A d \in DOMAIN u.cores : u.cores[d].room = u.cores[c].room => d <= c
\* c is the only one.
OnlyOf(u, c) == \A d \in DOMAIN u.cores : u.cores[d].room = u.cores[c].room => d = c

\* A room's client is a core that was dialled for it, connected, and since then replaced by no
\* later dial unless the room had been left.
ClientsFit(u) ==
  \A n \in DOMAIN u.session : LET c == u.session[n].client IN c # 0 =>
    /\ c \in DOMAIN u.cores /\ u.cores[c].room = n
    /\ u.cores[c].st \in {"live", "dead"} \/ (u.run # "up" /\ u.cores[c].st = "closed")
    /\ u.cores[c].left \/ LastOf(u, c)

\* A dial that is out belongs to the room as it is now, unless it says it was left.
DialsFit(u) ==
  \A c \in DOMAIN u.cores :
    /\ Unanswered(u.cores[c]) /\ ~u.cores[c].left => u.cores[c].room \in DOMAIN u.session /\ LastOf(u, c)
    /\ u.cores[c].left /\ u.cores[c].room \in DOMAIN u.session => ~LastOf(u, c)

\* ClientsHeld, of a model.
HeldOrLeft(u) ==
  \A c \in DOMAIN u.cores : Settled(u.cores[c]) =>
    \/ Held(u, c)
    \/ \E d, e \in DOMAIN u.cores : d < e /\ u.cores[d].room = u.cores[c].room /\ u.cores[e].room = u.cores[c].room /\ u.cores[d].left

\* LossTold, of a model.
Told(u) ==
  \A c \in DOMAIN u.cores : u.cores[c].lost => c \in u.shown \/ (c \in u.lostOnClose /\ u.run = "quit")

\* Nobody listens to a core before it is connected.  x is the core that Update still has to
\* start a listener for.
Unheard(u, x) ==
  /\ x # 0 => x \in DOMAIN u.cores
  /\ \A c \in DOMAIN u.cores : u.cores[c].st \in {"dialing", "landed", "refused", "none"} =>
       u.cores[c].pumps = 0 /\ u.cores[c].posted = {} /\ x # c

\* Pumped, of a model.
Heard(u, x) ==
  \A n \in DOMAIN u.session : LET c == u.session[n].client IN
    u.run = "up" /\ c # 0 /\ u.cores[c].st = "live" =>
      u.cores[c].pumps > 0 \/ u.cores[c].posted # {} \/ x = c

\* One listener at most, for the only core of a room.
OneListener(u, x) ==
  \A c \in DOMAIN u.cores : OnlyOf(u, c) =>
    /\ u.cores[c].pumps <= 1
    /\ \A e, f \in u.cores[c].posted : e = f
    /\ u.cores[c].posted # {} => u.cores[c].pumps = 0
    /\ x = c => u.cores[c].pumps = 0 /\ u.cores[c].posted = {}

\* What one core emits: shown before posted before queued before numbered.
QueueInOrder(k) ==
  /\ \A i \in DOMAIN k.q : k.q[i].n <= k.made
  /\ \A i, j \in DOMAIN k.q : i < j => k.q[i].n < k.q[j].n
  /\ \A e \in k.posted : e.n <= k.made /\ \A i \in DOMAIN k.q : e.n < k.q[i].n

\* The lines ls of the room of core k.
LinesInOrder(ls, k) ==
  /\ \A i, j \in DOMAIN ls : i < j => ls[i].n < ls[j].n
  /\ \A i \in DOMAIN ls : /\ ls[i].n <= k.made
                          /\ \A j \in DOMAIN k.q : ls[i].n < k.q[j].n
                          /\ \A e \in k.posted : ls[i].n < e.n

\* Both, of the only core of each room.
InOrder(u) ==
  \A c \in DOMAIN u.cores : OnlyOf(u, c) =>
    /\ QueueInOrder(u.cores[c])
    /\ u.cores[c].room \in DOMAIN u.session => LinesInOrder(u.session[u.cores[c].room].lines, u.cores[c])

\* The invariant of a model.
ModelInv(u, x) ==
  /\ IsModel(u) /\ Places(u) /\ Waits(u) /\ ClientsFit(u) /\ DialsFit(u) /\ HeldOrLeft(u) /\ Told(u)
  /\ Unheard(u, x) /\ Heard(u, x) /\ OneListener(u, x) /\ InOrder(u)

\* The invariant of the program between two steps: a listener is due only while an echo waits.
AppInv ==
  /\ ModelInv(m, m.relisten) /\ (m.relisten # 0 => m.wait # <<>>)
  /\ input \in [lines : {input.lines}, arrivals : SUBSET EventKinds, emits : {input.emits}]

------------------------------------------------------------------------------
(* What a change to one part of a model leaves as it was. *)

\* Sequences of anything.
LEMMA SeqOfFacts ==
  ASSUME NEW s, IsSeqOf(s)
  PROVE  Len(s) \in Nat /\ DOMAIN s = 1..Len(s)
BY DEF IsSeqOf

\* A function written over 1..n is a sequence.
LEMMA SeqOfMade ==
  ASSUME NEW s, NEW n \in Nat, s = [i \in 1..n |-> s[i]]
  PROVE  IsSeqOf(s) /\ Len(s) = n
<1> DEFINE S == {s[i] : i \in DOMAIN s}
<1>1. DOMAIN s = 1..n OBVIOUS
<1>2. \A i \in 1..n : s[i] \in S BY <1>1
<1> HIDE DEF S
<1>3. s \in Seq(S) BY <1>2, SeqDef
<1> QED BY <1>1, <1>3 DEF IsSeqOf, S

\* So is a sequence with its entries changed.
LEMMA SeqOfChanged ==
  ASSUME NEW s, IsSeqOf(s), NEW t, DOMAIN t = DOMAIN s, t = [i \in DOMAIN s |-> t[i]]
  PROVE  IsSeqOf(t)
BY SeqOfFacts, SeqOfMade

\* And a sequence with an entry more.
LEMMA SeqOfAppend ==
  ASSUME NEW s, IsSeqOf(s), NEW e
  PROVE  /\ IsSeqOf(Append(s, e)) /\ DOMAIN Append(s, e) = 1..(Len(s) + 1) /\ Len(s) \in Nat
         /\ DOMAIN s = 1..Len(s) /\ Len(s) + 1 \notin DOMAIN s
         /\ DOMAIN Append(s, e) = DOMAIN s \cup {Len(s) + 1}
         /\ \A i \in DOMAIN s : Append(s, e)[i] = s[i] /\ i < Len(s) + 1
         /\ Append(s, e)[Len(s) + 1] = e
<1> DEFINE S == {s[i] : i \in DOMAIN s} \cup {e}
<1>1. Len(s) \in Nat /\ DOMAIN s = 1..Len(s) BY SeqOfFacts
<1>2. s \in Seq({s[i] : i \in DOMAIN s}) BY DEF IsSeqOf
<1>3. s \in Seq(S) /\ e \in S BY <1>2
<1> HIDE DEF S
<1>4. PICK t : t = Append(s, e) OBVIOUS
<1>5. t \in Seq(S) /\ Len(t) = Len(s) + 1 /\ t[Len(s) + 1] = e /\ \A i \in 1..Len(s) : t[i] = s[i] BY <1>1, <1>3, <1>4
<1>6. DOMAIN t = 1..(Len(s) + 1) /\ Len(s) + 1 \in Nat BY <1>1, <1>5
<1>7. IsSeqOf(t) BY <1>5, <1>6, SeqOfMade
<1> QED BY <1>1, <1>4, <1>5, <1>6, <1>7

\* A change to one core of a model.
LEMMA CoreUpdated ==
  ASSUME NEW u, IsModel(u), NEW c \in DOMAIN u.cores, NEW k, IsCore(k), NEW v, v = [u EXCEPT !.cores[c] = k]
  PROVE  /\ IsModel(v) /\ DOMAIN v.cores = DOMAIN u.cores /\ v.cores[c] = k
         /\ \A d \in DOMAIN u.cores : d # c => v.cores[d] = u.cores[d]
         /\ v.session = u.session /\ v.order = u.order /\ v.active = u.active /\ v.shown = u.shown
         /\ v.lostOnClose = u.lostOnClose /\ v.wait = u.wait /\ v.relisten = u.relisten /\ v.run = u.run
<1>1. HasParts(u) BY DEF IsModel
<1>2. HasParts(v) /\ v.cores = [u.cores EXCEPT ![c] = k]
  BY <1>1 DEF HasParts
<1>3. /\ v.session = u.session /\ v.order = u.order /\ v.active = u.active /\ v.shown = u.shown
      /\ v.lostOnClose = u.lostOnClose /\ v.wait = u.wait /\ v.relisten = u.relisten /\ v.run = u.run
  BY <1>1 DEF HasParts
<1>4. /\ DOMAIN v.cores = DOMAIN u.cores /\ v.cores[c] = k /\ v.cores = [i \in DOMAIN u.cores |-> v.cores[i]]
      /\ \A d \in DOMAIN u.cores : d # c => v.cores[d] = u.cores[d]
  BY <1>2
<1>5. IsSeqOf(v.cores) BY <1>4, SeqOfChanged DEF IsModel
<1>6. \A d \in DOMAIN v.cores : IsCore(v.cores[d]) BY <1>4 DEF IsModel
<1> QED BY <1>2, <1>3, <1>4, <1>5, <1>6 DEF IsModel

\* A change to one room.
LEMMA RoomUpdated ==
  ASSUME NEW u, IsModel(u), NEW n \in DOMAIN u.session, NEW r \in RoomRecords, NEW v, v = [u EXCEPT !.session[n] = r]
  PROVE  /\ IsModel(v) /\ DOMAIN v.session = DOMAIN u.session /\ v.session[n] = r
         /\ \A d \in DOMAIN u.session : d # n => v.session[d] = u.session[d]
         /\ v.cores = u.cores /\ v.order = u.order /\ v.active = u.active /\ v.shown = u.shown
         /\ v.lostOnClose = u.lostOnClose /\ v.wait = u.wait /\ v.relisten = u.relisten /\ v.run = u.run
<1>1. HasParts(u) /\ u.session \in [DOMAIN u.session -> RoomRecords] BY DEF IsModel
<1>2. HasParts(v) /\ v.session = [u.session EXCEPT ![n] = r]
  BY <1>1 DEF HasParts
<1>3. /\ v.cores = u.cores /\ v.order = u.order /\ v.active = u.active /\ v.shown = u.shown
      /\ v.lostOnClose = u.lostOnClose /\ v.wait = u.wait /\ v.relisten = u.relisten /\ v.run = u.run
  BY <1>1 DEF HasParts
<1>4. /\ DOMAIN v.session = DOMAIN u.session /\ v.session[n] = r
      /\ \A d \in DOMAIN u.session : d # n => v.session[d] = u.session[d]
      /\ v.session \in [DOMAIN u.session -> RoomRecords]
  BY <1>1, <1>2
<1> QED BY <1>2, <1>3, <1>4 DEF IsModel

\* What a core, from outside, may do to itself: emit.
Speaks(a, b) ==
  /\ IsCore(b) /\ b.room = a.room /\ b.st = a.st /\ b.left = a.left /\ b.pumps = a.pumps /\ b.posted = a.posted
  /\ b.lost = a.lost
  /\ \/ b.q = a.q /\ b.made = a.made
     \/ \E e \in Events : e.n = a.made + 1 /\ b.made = a.made + 1 /\ b.q = Append(a.q, e)

\* What Update may do without touching clients and dials: cores emit, an echo comes to wait
\* or goes, another room is active, a room is cleared.
Talks(u, v) ==
  /\ IsModel(v)
  /\ v.order = u.order /\ v.run = u.run /\ v.relisten = u.relisten /\ v.shown = u.shown
  /\ v.lostOnClose = u.lostOnClose
  /\ v.active = u.active \/ \E i \in DOMAIN u.order : v.active = u.order[i]
  /\ v.wait \in {u.wait, <<>>} \/ \E c \in DOMAIN u.cores, k \in EventKinds : v.wait = <<c, k>>
  /\ DOMAIN v.session = DOMAIN u.session
  /\ \A n \in DOMAIN u.session : /\ v.session[n].client = u.session[n].client
                                 /\ v.session[n].lines \in {u.session[n].lines, <<>>}
  /\ DOMAIN v.cores = DOMAIN u.cores /\ \A c \in DOMAIN u.cores : Speaks(u.cores[c], v.cores[c])

\* Speaking keeps what one core emits in order.
LEMMA SpeaksInOrder ==
  ASSUME NEW a, IsCore(a), NEW b, Speaks(a, b), QueueInOrder(a), NEW ls \in Seq(ShownLines)
  PROVE  QueueInOrder(b) /\ (LinesInOrder(ls, a) => LinesInOrder(ls, b))
<1>0. a.q \in Seq(Events) /\ a.made \in Nat /\ a.posted \subseteq Events /\ b.posted = a.posted BY DEF IsCore, Speaks
<1>1. CASE b.q = a.q /\ b.made = a.made BY <1>0, <1>1 DEF QueueInOrder, LinesInOrder
<1>2. CASE \E e \in Events : e.n = a.made + 1 /\ b.made = a.made + 1 /\ b.q = Append(a.q, e)
  <2>1. PICK e \in Events : e.n = a.made + 1 /\ b.made = a.made + 1 /\ b.q = Append(a.q, e) BY <1>2
  <2>2. /\ DOMAIN b.q = DOMAIN a.q \cup {Len(a.q) + 1} /\ b.q[Len(a.q) + 1] = e
        /\ \A i \in DOMAIN a.q : b.q[i] = a.q[i] /\ i < Len(a.q) + 1 /\ i \in Nat
    BY <1>0, <2>1
  <2>3. Len(a.q) + 1 \in Nat BY <1>0
  <2>4. \A i \in DOMAIN a.q : a.q[i] \in Events BY <1>0
  <2>5. \A x \in Events : x.n \in Nat BY DEF Events
  <2>6. QueueInOrder(b)
    <3>1. \A i \in DOMAIN b.q : b.q[i].n <= b.made BY <1>0, <2>1, <2>2, <2>4, <2>5 DEF QueueInOrder
    <3>2. \A i, j \in DOMAIN b.q : i < j => b.q[i].n < b.q[j].n
      <4> SUFFICES ASSUME NEW i \in DOMAIN b.q, NEW j \in DOMAIN b.q, i < j PROVE b.q[i].n < b.q[j].n OBVIOUS
      <4>1. i \in DOMAIN a.q BY <1>0, <2>2, <2>3
      <4>2. a.q[i].n \in Nat /\ a.q[i].n <= a.made BY <2>4, <2>5, <4>1 DEF QueueInOrder
      <4>3. CASE j \in DOMAIN a.q BY <2>2, <4>1, <4>3 DEF QueueInOrder
      <4>4. CASE j = Len(a.q) + 1 BY <1>0, <2>1, <2>2, <4>1, <4>2, <4>4
      <4> QED BY <2>2, <4>3, <4>4
    <3>3. \A f \in b.posted : f.n <= b.made /\ \A i \in DOMAIN b.q : f.n < b.q[i].n
      BY <1>0, <2>1, <2>2, <2>4, <2>5 DEF QueueInOrder
    <3> QED BY <3>1, <3>2, <3>3 DEF QueueInOrder
  <2>7. \A i \in DOMAIN ls : ls[i].n \in Nat
    <3>1. \A i \in DOMAIN ls : ls[i] \in ShownLines OBVIOUS
    <3> QED BY <3>1 DEF ShownLines
  <2>8. LinesInOrder(ls, a) => LinesInOrder(ls, b) BY <1>0, <2>1, <2>2, <2>3, <2>4, <2>5, <2>7 DEF LinesInOrder
  <2> QED BY <2>6, <2>8
<1> QED BY <1>1, <1>2 DEF Speaks

\* Talking keeps the invariant: what is emitted is numbered after everything before.
LEMMA TalksKeeps ==
  ASSUME NEW u, NEW v, NEW x, ModelInv(u, x), Talks(u, v), u.run = "up"
  PROVE  ModelInv(v, x)
<1>0. IsModel(u) /\ IsModel(v) BY DEF ModelInv, Talks
<1>1. /\ v.order = u.order /\ v.run = u.run /\ v.shown = u.shown /\ v.lostOnClose = u.lostOnClose
      /\ DOMAIN v.session = DOMAIN u.session /\ DOMAIN v.cores = DOMAIN u.cores
      /\ \A n \in DOMAIN u.session : v.session[n].client = u.session[n].client
  BY DEF Talks
<1>2. \A c \in DOMAIN u.cores : LET a == u.cores[c] b == v.cores[c] IN
        /\ b.room = a.room /\ b.st = a.st /\ b.left = a.left /\ b.pumps = a.pumps /\ b.posted = a.posted
        /\ b.lost = a.lost
  BY DEF Talks, Speaks
<1>3. \A c \in DOMAIN u.cores : (LastOf(v, c) <=> LastOf(u, c)) /\ (OnlyOf(v, c) <=> OnlyOf(u, c))
  BY <1>1, <1>2 DEF LastOf, OnlyOf
<1>4. Places(v) BY <1>1 DEF ModelInv, Places, Talks
<1>5. Waits(v) BY <1>1 DEF ModelInv, Waits, Talks
<1>6. ClientsFit(v) BY <1>1, <1>2, <1>3 DEF ModelInv, ClientsFit
<1>7. DialsFit(v) BY <1>1, <1>2, <1>3 DEF ModelInv, DialsFit, Unanswered
<1>8. HeldOrLeft(v) BY <1>1, <1>2 DEF ModelInv, HeldOrLeft, Settled, Held
<1>9. Told(v) BY <1>1, <1>2 DEF ModelInv, Told
<1>10. Unheard(v, x) BY <1>1, <1>2 DEF ModelInv, Unheard
<1>11. Heard(v, x)
  <2> SUFFICES ASSUME NEW n \in DOMAIN u.session, NEW c, c = u.session[n].client, c # 0, v.cores[c].st = "live"
               PROVE  v.cores[c].pumps > 0 \/ v.cores[c].posted # {} \/ x = c
    BY <1>1 DEF Heard
  <2>1. c \in DOMAIN u.cores BY DEF ModelInv, ClientsFit
  <2>2. u.cores[c].pumps > 0 \/ u.cores[c].posted # {} \/ x = c BY <1>1, <1>2, <2>1 DEF ModelInv, Heard
  <2> QED BY <1>2, <2>1, <2>2
<1>12. OneListener(v, x) BY <1>1, <1>2, <1>3 DEF ModelInv, OneListener
<1>13. InOrder(v)
  <2> SUFFICES ASSUME NEW c \in DOMAIN u.cores, OnlyOf(v, c)
               PROVE  /\ QueueInOrder(v.cores[c])
                      /\ v.cores[c].room \in DOMAIN u.session =>
                           LinesInOrder(v.session[v.cores[c].room].lines, v.cores[c])
    BY <1>1 DEF InOrder
  <2>1. /\ QueueInOrder(u.cores[c])
        /\ u.cores[c].room \in DOMAIN u.session => LinesInOrder(u.session[u.cores[c].room].lines, u.cores[c])
    BY <1>3 DEF ModelInv, InOrder
  <2>2. IsCore(u.cores[c]) /\ Speaks(u.cores[c], v.cores[c]) BY <1>0 DEF IsModel, Talks
  <2>3. QueueInOrder(v.cores[c])
    <3>1. <<>> \in Seq(ShownLines) OBVIOUS
    <3> QED BY <2>1, <2>2, <3>1, SpeaksInOrder
  <2>4. ASSUME v.cores[c].room \in DOMAIN u.session PROVE LinesInOrder(v.session[v.cores[c].room].lines, v.cores[c])
    <3>1. PICK n \in DOMAIN u.session : n = v.cores[c].room /\ n = u.cores[c].room BY <1>2, <2>4
    <3>2. u.session[n].lines \in Seq(ShownLines) BY <1>0 DEF IsModel, RoomRecords
    <3>3. LinesInOrder(u.session[n].lines, v.cores[c]) BY <2>1, <2>2, <3>1, <3>2, SpeaksInOrder
    <3>4. LinesInOrder(<<>>, v.cores[c]) BY DEF LinesInOrder
    <3>5. v.session[n].lines \in {u.session[n].lines, <<>>} BY DEF Talks
    <3> QED BY <3>1, <3>3, <3>4, <3>5
  <2> QED BY <2>3, <2>4
<1> QED BY <1>0, <1>4, <1>5, <1>6, <1>7, <1>8, <1>9, <1>10, <1>11, <1>12, <1>13 DEF ModelInv

------------------------------------------------------------------------------
(* Requests to a core, which at most emits events and never touches clients or dials. *)

\* A core that emits.
LEMMA CoreTalks ==
  ASSUME NEW u, IsModel(u), NEW c \in DOMAIN u.cores, NEW k, Speaks(u.cores[c], k), NEW v, v = [u EXCEPT !.cores[c] = k]
  PROVE  Talks(u, v)
<1>1. IsCore(k) BY DEF Speaks
<1>2. \A d \in DOMAIN u.cores : Speaks(u.cores[d], u.cores[d]) BY DEF Speaks, IsModel
<1>3. \A d \in DOMAIN u.cores : Speaks(u.cores[d], v.cores[d]) BY <1>1, <1>2, CoreUpdated
<1> QED BY <1>1, <1>3, CoreUpdated DEF Talks

\* Changing a room beside its client and its lines is talk.
LEMMA RoomTalks ==
  ASSUME NEW u, IsModel(u), NEW n \in DOMAIN u.session, NEW r \in RoomRecords, r.client = u.session[n].client,
         r.lines \in {u.session[n].lines, <<>>}
  PROVE  Talks(u, SetRoom(u, n, r))
<1>1. \A d \in DOMAIN u.cores : Speaks(u.cores[d], u.cores[d]) BY DEF Speaks, IsModel
<1>2. PICK v : v = [u EXCEPT !.session[n] = r] OBVIOUS
<1>3. Talks(u, v) BY <1>1, <1>2, RoomUpdated DEF Talks
<1> QED BY <1>2, <1>3 DEF SetRoom

\* Talking is transitive where no core speaks twice; here: where the first step is silent.
Silent(u, v) == Talks(u, v) /\ \A c \in DOMAIN u.cores : v.cores[c].q = u.cores[c].q /\ v.cores[c].made = u.cores[c].made

\* Talk after silence is talk.
LEMMA TalkOn ==
  ASSUME NEW u, NEW v, NEW w, Silent(u, v), Talks(v, w)
  PROVE  Talks(u, w)
<1>1. ASSUME NEW c \in DOMAIN u.cores PROVE Speaks(u.cores[c], w.cores[c])
  <2>1. /\ Speaks(u.cores[c], v.cores[c]) /\ Speaks(v.cores[c], w.cores[c])
        /\ v.cores[c].q = u.cores[c].q /\ v.cores[c].made = u.cores[c].made
    BY DEF Silent, Talks
  <2>2. PICK a, b, z : a = u.cores[c] /\ b = v.cores[c] /\ z = w.cores[c] OBVIOUS
  <2>3. Speaks(a, b) /\ Speaks(b, z) /\ b.q = a.q /\ b.made = a.made BY <2>1, <2>2
  <2>4. Speaks(a, z) BY <2>3 DEF Speaks
  <2> QED BY <2>2, <2>4
<1> QED BY <1>1 DEF Silent, Talks

\* A core emits one event.
LEMMA EmitTalks ==
  ASSUME NEW u, IsModel(u), NEW c \in DOMAIN u.cores, NEW k \in EventKinds
  PROVE  Talks(u, Emit(u, c, k))
<1>1. PICK e : e = [c |-> c, n |-> u.cores[c].made + 1, k |-> k, self |-> TRUE] OBVIOUS
<1>2. PICK a : a = u.cores[c] OBVIOUS
<1>3. PICK b : b = [a EXCEPT !.made = @ + 1, !.q = Append(@, e)] OBVIOUS
<1>4. Emit(u, c, k) = [u EXCEPT !.cores[c] = b] BY <1>1, <1>2, <1>3 DEF Emit, IsModel, HasParts, IsCore
<1>5. IsCore(a) BY <1>2 DEF IsModel
<1>6. c \in Nat BY SeqOfFacts DEF IsModel
<1>7. e \in Events /\ e.n = a.made + 1 BY <1>1, <1>2, <1>5, <1>6 DEF Events, IsCore
<1>8. /\ IsCore(b) /\ b.room = a.room /\ b.st = a.st /\ b.left = a.left /\ b.pumps = a.pumps /\ b.posted = a.posted
      /\ b.lost = a.lost /\ b.made = a.made + 1 /\ b.q = Append(a.q, e)
  <2>1. a.q \in Seq(Events) /\ a.made \in Nat BY <1>5 DEF IsCore
  <2>2. PICK q, mk : q = Append(a.q, e) /\ mk = a.made + 1 OBVIOUS
  <2>4. q \in Seq(Events) /\ mk \in Nat BY <1>7, <2>1, <2>2
  <2>3. b = [a EXCEPT !.made = mk, !.q = q] BY <1>3, <2>2
  <2> QED BY <1>5, <2>2, <2>3, <2>4 DEF IsCore
<1>9. Speaks(a, b) BY <1>7, <1>8 DEF Speaks
<1> QED BY <1>2, <1>4, <1>9, CoreTalks

\* A core is asked for something.
LEMMA AskSilent ==
  ASSUME NEW u, IsModel(u), NEW c \in DOMAIN u.cores
  PROVE  Silent(u, [u EXCEPT !.cores[c].asked = TRUE])
<1>1. PICK a : a = u.cores[c] OBVIOUS
<1>2. PICK b : b = [a EXCEPT !.asked = TRUE] OBVIOUS
<1>3. PICK v : v = [u EXCEPT !.cores[c] = b] OBVIOUS
<1>4. [u EXCEPT !.cores[c].asked = TRUE] = v BY <1>1, <1>2, <1>3 DEF IsModel, HasParts, IsCore
<1>5. IsCore(a) BY <1>1 DEF IsModel
<1>6. Speaks(a, b) /\ b.q = a.q /\ b.made = a.made BY <1>2, <1>5 DEF IsCore, Speaks
<1>7. Talks(u, v) BY <1>1, <1>3, <1>6, CoreTalks
<1>8. \A d \in DOMAIN u.cores : v.cores[d].q = u.cores[d].q /\ v.cores[d].made = u.cores[d].made
  BY <1>1, <1>3, <1>6, CoreUpdated DEF Speaks
<1> QED BY <1>4, <1>7, <1>8 DEF Silent

\* An echo comes to wait for a place on the channel.
LEMMA WaitTalks ==
  ASSUME NEW u, IsModel(u), NEW c \in DOMAIN u.cores, NEW k \in EventKinds
  PROVE  Talks(u, [u EXCEPT !.wait = <<c, k>>])
<1>1. PICK v : v = [u EXCEPT !.wait = <<c, k>>] OBVIOUS
<1>2. HasParts(u) BY DEF IsModel
<1>3. /\ HasParts(v) /\ v.cores = u.cores /\ v.session = u.session /\ v.order = u.order /\ v.active = u.active
      /\ v.shown = u.shown /\ v.lostOnClose = u.lostOnClose /\ v.relisten = u.relisten /\ v.run = u.run
      /\ v.wait = <<c, k>>
  BY <1>1, <1>2 DEF HasParts
<1>4. \A d \in DOMAIN u.cores : Speaks(u.cores[d], u.cores[d]) BY DEF Speaks, IsModel
<1>5. IsModel(v) BY <1>3 DEF IsModel
<1> QED BY <1>1, <1>3, <1>4, <1>5 DEF Talks

\* Either way, an echo is talk.
LEMMA EchoTalks ==
  ASSUME NEW u, IsModel(u), NEW c \in DOMAIN u.cores, NEW k \in EventKinds
  PROVE  Talks(u, Echo(u, c, k))
<1>1. PICK v : v = [u EXCEPT !.cores[c].asked = TRUE] OBVIOUS
<1>2. Silent(u, v) BY <1>1, AskSilent
<1>3. IsModel(v) /\ c \in DOMAIN v.cores BY <1>2 DEF Silent, Talks
<1>4. Talks(u, Emit(v, c, k)) BY <1>2, <1>3, EmitTalks, TalkOn
<1>5. Talks(u, [v EXCEPT !.wait = <<c, k>>]) BY <1>2, <1>3, WaitTalks, TalkOn
<1> QED BY <1>1, <1>4, <1>5 DEF Echo

\* A clock is started or stopped.
LEMMA ClockSilent ==
  ASSUME NEW u, IsModel(u), NEW c \in DOMAIN u.cores, NEW x \in Clocks
  PROVE  Silent(u, [u EXCEPT !.cores[c].clock = x])
<1>1. PICK a : a = u.cores[c] OBVIOUS
<1>2. PICK b : b = [a EXCEPT !.clock = x] OBVIOUS
<1>3. PICK v : v = [u EXCEPT !.cores[c] = b] OBVIOUS
<1>4. [u EXCEPT !.cores[c].clock = x] = v BY <1>1, <1>2, <1>3 DEF IsModel, HasParts, IsCore
<1>5. IsCore(a) BY <1>1 DEF IsModel
<1>6. Speaks(a, b) /\ b.q = a.q /\ b.made = a.made BY <1>2, <1>5 DEF IsCore, Speaks
<1>7. Talks(u, v) BY <1>1, <1>3, <1>6, CoreTalks
<1>8. \A d \in DOMAIN u.cores : v.cores[d].q = u.cores[d].q /\ v.cores[d].made = u.cores[d].made
  BY <1>1, <1>3, <1>6, CoreUpdated DEF Speaks
<1> QED BY <1>4, <1>7, <1>8 DEF Silent

\* Doing nothing is talk.
LEMMA StillTalks ==
  ASSUME NEW u, IsModel(u)
  PROVE  Talks(u, u)
BY DEF Talks, Speaks, IsModel

\* A clock that says so is talk.
LEMMA ClockTalks ==
  ASSUME NEW u, IsModel(u), NEW c \in DOMAIN u.cores
  PROVE  Talks(u, ClockStart(u, c)) /\ Talks(u, ClockStop(u, c))
<1>1. "clockStart" \in EventKinds /\ "clockStop" \in EventKinds BY DEF EventKinds, ClockKinds
<1>2. ASSUME NEW x \in Clocks, NEW k \in EventKinds
      PROVE Talks(u, Echo([u EXCEPT !.cores[c].clock = x], c, k))
  <2>1. PICK v : v = [u EXCEPT !.cores[c].clock = x] OBVIOUS
  <2>2. Silent(u, v) BY <2>1, ClockSilent
  <2>3. IsModel(v) /\ c \in DOMAIN v.cores BY <2>2 DEF Silent, Talks
  <2> QED BY <2>1, <2>2, <2>3, EchoTalks, TalkOn
<1>3. "on" \in Clocks /\ "stopped" \in Clocks BY DEF Clocks
<1> QED BY <1>1, <1>2, <1>3, StillTalks DEF ClockStart, ClockStop

------------------------------------------------------------------------------
(* Commands that only talk. *)

\* The model that a typed command may look at: its active room is there.
Ready(u) ==
  /\ IsModel(u) /\ u.active \in DOMAIN u.session
  /\ u.session[u.active].client # 0 => u.session[u.active].client \in DOMAIN u.cores

\* A command handed to the active room's core.
LEMMA PerformTalks ==
  ASSUME NEW u, Ready(u), NEW parses, NEW ok, NEW k, k = "" \/ k \in EventKinds
  PROVE  Talks(u, Perform(u, parses, ok, k))
<1>1. IsModel(u) BY DEF Ready
<1>2. CASE ~(connected(u) /\ parses /\ ok) BY <1>1, <1>2, StillTalks DEF Perform
<1>3. CASE connected(u) /\ parses /\ ok
  <2>1. PICK c \in DOMAIN u.cores : c = Room(u).client BY <1>3 DEF Ready, connected, Room
  <2>2. Talks(u, Ask(u)) BY <1>1, <2>1, AskSilent DEF Ask, Silent
  <2>3. k \in EventKinds => Talks(u, Echo(u, c, k)) BY <1>1, <2>1, EchoTalks
  <2> QED BY <1>3, <2>1, <2>2, <2>3 DEF Perform
<1> QED BY <1>2, <1>3

\* A change to the active room alone.
LEMMA ActiveSilent ==
  ASSUME NEW u, Ready(u), NEW r \in RoomRecords, r.client = Room(u).client, r.lines \in {Room(u).lines, <<>>}
  PROVE  Silent(u, SetRoom(u, u.active, r)) /\ Ready(SetRoom(u, u.active, r))
         /\ Room(SetRoom(u, u.active, r)).client = r.client
<1>1. PICK v : v = [u EXCEPT !.session[u.active] = r] OBVIOUS
<1>2. Talks(u, SetRoom(u, u.active, r)) BY RoomTalks DEF Ready, Room
<1>3. /\ v.cores = u.cores /\ v.active = u.active /\ IsModel(v) /\ DOMAIN v.session = DOMAIN u.session
      /\ v.session[u.active] = r
  BY <1>1, RoomUpdated DEF Ready
<1> QED BY <1>1, <1>2, <1>3 DEF Silent, SetRoom, Ready, Room

\* The command /ttl.
LEMMA TTLTalks ==
  ASSUME NEW u, Ready(u), NEW arg
  PROVE  Talks(u, runTTL(u, arg))
<1>1. IsModel(u) BY DEF Ready
<1>2. CASE ~connected(u) \/ arg \in {"", "bad"} BY <1>1, <1>2, StillTalks DEF runTTL
<1>3. CASE ~(~connected(u) \/ arg \in {"", "bad"})
  <2>1. PICK c \in DOMAIN u.cores : c = Room(u).client BY <1>3 DEF Ready, connected, Room
  <2>2. PICK r : r = [Room(u) EXCEPT !.ttl = arg # "off"] OBVIOUS
  <2>3. Room(u) \in RoomRecords BY DEF Ready, IsModel, Room
  <2>4. r \in RoomRecords /\ r.client = Room(u).client /\ r.lines = Room(u).lines BY <2>2, <2>3 DEF RoomRecords
  <2>5. PICK v : v = SetRoom(u, u.active, r) OBVIOUS
  <2>6. Silent(u, v) BY <2>4, <2>5, ActiveSilent
  <2>7. PICK k \in EventKinds : k = IF arg = "off" THEN "ttlOff" ELSE "ttl" BY DEF EventKinds, ControlKinds
  <2>8. IsModel(v) /\ c \in DOMAIN v.cores BY <2>6 DEF Silent, Talks
  <2>9. Talks(u, Echo(v, c, k)) BY <2>6, <2>8, EchoTalks, TalkOn
  <2>10. runTTL(u, arg) = Echo(v, c, k) BY <1>3, <2>1, <2>2, <2>5, <2>7, Zenon DEF runTTL
  <2> QED BY <2>9, <2>10
<1> QED BY <1>2, <1>3

\* The command /stream.
LEMMA StreamTalks ==
  ASSUME NEW u, Ready(u), NEW arg, NEW opens
  PROVE  Talks(u, runStream(u, arg, opens))
<1>1. IsModel(u) /\ Room(u) \in RoomRecords BY DEF Ready, IsModel, Room
<1>2. Talks(u, SetRoom(u, u.active, stopActiveStream(Room(u))))
  <2>1. PICK r : r = stopActiveStream(Room(u)) OBVIOUS
  <2>2. r \in RoomRecords /\ r.client = Room(u).client /\ r.lines = Room(u).lines
    BY <1>1, <2>1 DEF RoomRecords, stopActiveStream
  <2> QED BY <2>1, <2>2, ActiveSilent DEF Silent
<1>3. ASSUME connected(u) PROVE Talks(u, Ask(SetRoom(u, u.active, [Room(u) EXCEPT !.activeStream = TRUE])))
  <2>1. PICK r : r = [Room(u) EXCEPT !.activeStream = TRUE] OBVIOUS
  <2>2. r \in RoomRecords /\ r.client = Room(u).client /\ r.lines = Room(u).lines BY <1>1, <2>1 DEF RoomRecords
  <2>3. PICK v : v = SetRoom(u, u.active, r) OBVIOUS
  <2>4. Silent(u, v) /\ Ready(v) /\ Room(v).client = r.client BY <2>2, <2>3, ActiveSilent
  <2>5. IsModel(v) /\ Room(v).client \in DOMAIN v.cores BY <1>3, <2>2, <2>4 DEF Ready, connected, Room
  <2>6. Talks(v, Ask(v)) BY <2>5, AskSilent DEF Ask, Silent
  <2> QED BY <2>1, <2>3, <2>4, <2>6, TalkOn
<1>4. Talks(u, u) BY <1>1, StillTalks
<1> QED BY <1>2, <1>3, <1>4, Zenon DEF runStream

\* The command /clock.
LEMMA ClockCommandTalks ==
  ASSUME NEW u, Ready(u), NEW arg
  PROVE  Talks(u, runClock(u, arg))
<1>1. Talks(u, u) BY StillTalks DEF Ready
<1>2. connected(u) => Talks(u, ClockStart(u, Room(u).client)) /\ Talks(u, ClockStop(u, Room(u).client))
  BY ClockTalks DEF Ready, connected, Room
<1> QED BY <1>1, <1>2, Zenon DEF runClock

\* The command /vanish, which clears the core's clock.
LEMMA VanishTalks ==
  ASSUME NEW u, Ready(u)
  PROVE  Talks(u, runVanish(u))
<1>1. "vanish" \in EventKinds /\ "off" \in Clocks BY DEF EventKinds, ControlKinds, Clocks
<1>2. CASE ~connected(u) BY <1>2, StillTalks DEF Ready, runVanish
<1>3. CASE connected(u)
  <2>1. PICK c \in DOMAIN u.cores : c = Room(u).client BY <1>3 DEF Ready, connected, Room
  <2>2. PICK v : v = [u EXCEPT !.cores[c].clock = "off"] OBVIOUS
  <2>3. Silent(u, v) BY <1>1, <2>2, ClockSilent DEF Ready
  <2>4. IsModel(v) /\ c \in DOMAIN v.cores BY <2>3 DEF Silent, Talks
  <2>5. Talks(u, Echo(v, c, "vanish")) BY <1>1, <2>3, <2>4, EchoTalks, TalkOn
  <2> QED BY <1>3, <2>1, <2>2, <2>5, Zenon DEF runVanish
<1> QED BY <1>2, <1>3

\* A line that is sent.
LEMMA SayTalks ==
  ASSUME NEW u, Ready(u), NEW ok
  PROVE  Talks(u, say(u, ok))
<1>1. Talks(u, u) BY StillTalks DEF Ready
<1>2. "message" \in EventKinds BY DEF EventKinds, PresenceKinds
<1>3. Room(u).client # 0 => Talks(u, Echo(u, Room(u).client, "message")) BY <1>2, EchoTalks DEF Ready, Room
<1> QED BY <1>1, <1>3 DEF say

\* The command /clear.
LEMMA ClearTalks ==
  ASSUME NEW u, Ready(u)
  PROVE  Talks(u, SetRoom(u, u.active, [Room(u) EXCEPT !.lines = <<>>]))
<1>1. Room(u) \in RoomRecords BY DEF Ready, IsModel, Room
<1>2. PICK r : r = [Room(u) EXCEPT !.lines = <<>>] OBVIOUS
<1>3. r \in RoomRecords /\ r.client = Room(u).client /\ r.lines = <<>>
  <2>1. PICK none : none = <<>> OBVIOUS
  <2>4. none \in Seq(ShownLines) BY <2>1
  <2>2. r = [Room(u) EXCEPT !.lines = none] BY <1>2, <2>1
  <2>3. r \in RoomRecords /\ r.client = Room(u).client /\ r.lines = none BY <1>1, <2>2, <2>4 DEF RoomRecords
  <2> QED BY <2>1, <2>3
<1> QED BY <1>2, <1>3, ActiveSilent DEF Silent

\* Every command but the ones that join, leave and quit.
LEMMA CommandTalks ==
  ASSUME NEW u, Ready(u), NEW l, NEW ok, NEW lost, l.name \notin {"join", "leave", "quit"}
  PROVE  Talks(u, runCommand(u, l, ok, lost))
<1>1. Talks(u, u) BY StillTalks DEF Ready
<1>2. {"approved", "vetoed", "ack", "handoff", "entry", "proposed", "artifactApproved", "artifactRejected",
       "sealRequest", "rosterRequest", "exec"} \subseteq EventKinds
  BY DEF EventKinds, ControlKinds, CoordinationKinds, ApprovalKinds
<1> DEFINE P(x) == Talks(u, x)
<1>3. ASSUME NEW parses, NEW a, NEW k, k = "" \/ k \in EventKinds PROVE P(Perform(u, parses, a, k))
  BY <1>3, PerformTalks
<1>4. P(runSend(u, l.arg, ok)) BY <1>3 DEF runSend
<1>5. P(runScuttle(u, l.arg, ok)) BY <1>3 DEF runScuttle
<1>6. P(runBreakGlass(u, l.arg, ok)) BY <1>3 DEF runBreakGlass
<1>7. ASSUME l.name \in {"approve", "veto", "pending"} PROVE P(runApproval(u, l, ok))
  BY <1>1, <1>2, <1>3, <1>7 DEF runApproval
<1>8. P(runBeacon(u, l.arg, ok)) BY <1>3 DEF runBeacon
<1>9. ASSUME l.name \in {"ack", "handoff", "ic"} PROVE P(runCoordination(u, l, ok))
  BY <1>1, <1>2, <1>3, <1>9 DEF runCoordination
<1>10. ASSUME l.name \in {"decide", "action", "mark"} PROVE P(runRecord(u, l, ok))
  BY <1>2, <1>3, <1>10 DEF runRecord
<1>11. ASSUME l.name \in {"propose", "approve-artifact", "reject-artifact"} PROVE P(runArtifact(u, l, ok))
  BY <1>2, <1>3, <1>11 DEF runArtifact
<1>12. P(runSeal(u, ok)) BY <1>2, <1>3 DEF runSeal
<1>13. P(runRoster(u, l.arg, ok)) BY <1>2, <1>3 DEF runRoster
<1>14. P(runVanish(u)) /\ P(Perform(u, TRUE, TRUE, "")) /\ P(Perform(u, l.arg # "", ok, "exec"))
  BY <1>2, <1>3, VanishTalks
<1>15. P(runTTL(u, l.arg)) /\ P(runStream(u, l.arg, ok)) /\ P(runClock(u, l.arg))
       /\ P(SetRoom(u, u.active, [Room(u) EXCEPT !.lines = <<>>]))
  BY TTLTalks, StreamTalks, ClockCommandTalks, ClearTalks
<1>16. P(u) BY <1>1
<1> HIDE DEF P
<1>17. P(runCommand(u, l, ok, lost))
  BY <1>4, <1>5, <1>6, <1>7, <1>8, <1>9, <1>10, <1>11, <1>12, <1>13, <1>14, <1>15, <1>16, Zenon DEF runCommand
<1> QED BY <1>17 DEF P

------------------------------------------------------------------------------
(* Events. *)

\* The line that an event shows.
LineOf(e, content) == [c |-> e.c, n |-> e.n, content |-> content]
\* What an event may do to its room: show a line after the others, or in place of them.
Shows(r, s, e) ==
  /\ s \in RoomRecords /\ s.client = r.client
  /\ \/ s.lines = r.lines
     \/ \E content \in BOOLEAN : s.lines = Append(r.lines, LineOf(e, content)) \/ s.lines = Append(<<>>, LineOf(e, content))

\* Show adds the event's line at the end.
LEMMA ShowShows ==
  ASSUME NEW r \in RoomRecords, NEW e \in Events, NEW content \in BOOLEAN, NEW s \in RoomRecords, s.client = r.client,
         s.lines = r.lines \/ s.lines = <<>>
  PROVE  Shows(r, Show(s, e, content), e)
<1>1. PICK l \in ShownLines : l = LineOf(e, content) BY DEF Events, ShownLines, LineOf
<1>2. PICK q : q = Append(s.lines, l) OBVIOUS
<1>3. s.lines \in Seq(ShownLines) BY DEF RoomRecords
<1>4. q \in Seq(ShownLines) BY <1>1, <1>2, <1>3
<1>5. PICK t : t = [s EXCEPT !.lines = q] OBVIOUS
<1>6. Show(s, e, content) = t BY <1>1, <1>2, <1>5 DEF Show, LineOf
<1>7. t \in RoomRecords /\ t.client = s.client /\ t.lines = q BY <1>4, <1>5 DEF RoomRecords
<1> QED BY <1>1, <1>2, <1>6, <1>7 DEF Shows

\* Counting an unread line shows nothing more.
LEMMA NoteShows ==
  ASSUME NEW r \in RoomRecords, NEW e \in Events, NEW s, Shows(r, s, e), NEW yes
  PROVE  Shows(r, Note(s, yes), e)
<1>1. PICK t : t = [s EXCEPT !.unread = @ + 1] OBVIOUS
<1>2. t \in RoomRecords /\ t.client = s.client /\ t.lines = s.lines
  <2>1. s \in RoomRecords BY DEF Shows
  <2>2. s.unread + 1 \in Nat BY <2>1 DEF RoomRecords
  <2> QED BY <1>1, <2>1, <2>2 DEF RoomRecords
<1>3. Shows(r, t, e) BY <1>2 DEF Shows
<1> QED BY <1>1, <1>3 DEF Note

\* Who is here: each handler shows one line at most, the event's.
LEMMA PresenceShows ==
  ASSUME NEW r \in RoomRecords, NEW e \in Events, NEW away, e.k \in PresenceKinds
  PROVE  Shows(r, presence(r, e, away), e)
<1>1. PICK a, b : a = [r EXCEPT !.connected = TRUE] /\ b = [r EXCEPT !.keyReady = TRUE, !.autoClock = FALSE] OBVIOUS
<1>2. /\ a \in RoomRecords /\ a.client = r.client /\ a.lines = r.lines
      /\ b \in RoomRecords /\ b.client = r.client /\ b.lines = r.lines
  BY <1>1 DEF RoomRecords
<1> DEFINE P(x) == Shows(r, x, e)
<1>3. P(Show(a, e, FALSE)) /\ P(Show(b, e, FALSE)) /\ P(Show(r, e, FALSE)) /\ P(Show(r, e, TRUE))
  BY <1>1, <1>2, ShowShows
<1>4. P(Note(Show(r, e, TRUE), away /\ ~e.self)) /\ P(Note(Show(r, e, TRUE), away)) BY <1>3, NoteShows
<1> HIDE DEF P
<1>5. P(presence(r, e, away)) BY <1>1, <1>2, <1>3, <1>4, Zenon DEF presence, PresenceKinds
<1> QED BY <1>5 DEF P

\* What ends or changes the room.
LEMMA ControlShows ==
  ASSUME NEW r \in RoomRecords, NEW e \in Events, NEW away, e.k \in ControlKinds
  PROVE  Shows(r, control(r, e, away), e)
<1>0. PICK s : s = stopActiveStream(r) OBVIOUS
<1>1. s \in RoomRecords /\ s.client = r.client /\ s.lines = r.lines BY <1>0 DEF RoomRecords, stopActiveStream
<1>2. PICK a : a = [s EXCEPT !.lines = <<>>, !.streams = 0, !.ended = FALSE] OBVIOUS
<1>3. a \in RoomRecords /\ a.client = r.client /\ a.lines = <<>>
  <2>1. PICK none : none = <<>> OBVIOUS
  <2>4. none \in Seq(ShownLines) BY <2>1
  <2>2. a = [s EXCEPT !.lines = none, !.streams = 0, !.ended = FALSE] BY <1>2, <2>1
  <2>3. a \in RoomRecords /\ a.client = r.client /\ a.lines = none BY <1>1, <2>2, <2>4 DEF RoomRecords
  <2> QED BY <2>1, <2>3
<1>4. PICK b, d, on : b = [r EXCEPT !.ttl = TRUE] /\ d = [r EXCEPT !.ttl = FALSE] /\ on = (r.streams > 0) OBVIOUS
<1>5. PICK f : f = [s EXCEPT !.scuttled = TRUE, !.ended = on] OBVIOUS
<1>6. /\ b \in RoomRecords /\ b.client = r.client /\ b.lines = r.lines
      /\ d \in RoomRecords /\ d.client = r.client /\ d.lines = r.lines
  BY <1>4 DEF RoomRecords
<1>60. r.streams \in Nat BY DEF RoomRecords
<1>61. on \in BOOLEAN BY <1>4, <1>60
<1>62. f \in RoomRecords /\ f.client = r.client /\ f.lines = r.lines BY <1>1, <1>5, <1>61 DEF RoomRecords
<1> DEFINE P(x) == Shows(r, x, e)
<1>7. /\ P(Show(a, e, FALSE)) /\ P(Show(b, e, FALSE)) /\ P(Show(d, e, FALSE)) /\ P(Show(f, e, FALSE))
      /\ P(Show(r, e, FALSE))
  BY <1>3, <1>6, <1>62, ShowShows
<1>8. P(Note(Show(f, e, FALSE), away)) /\ P(Note(Show(r, e, FALSE), away)) BY <1>7, NoteShows
<1> HIDE DEF P
<1>9. P(control(r, e, away)) BY <1>0, <1>2, <1>4, <1>5, <1>7, <1>8, Zenon DEF control, ControlKinds
<1> QED BY <1>9 DEF P

\* Streams.
LEMMA StreamShows ==
  ASSUME NEW r \in RoomRecords, NEW e \in Events, NEW away, e.k \in StreamKinds
  PROVE  Shows(r, streamEvent(r, e, away), e)
<1> DEFINE P(x) == Shows(r, x, e)
<1>1. P(r) BY DEF Shows
<1>2. P(Note(Show(r, e, FALSE), away /\ ~e.self)) BY ShowShows, NoteShows
<1>3. PICK p : p = IF r.streams = 0 THEN Note(Show(r, e, FALSE), away /\ ~e.self) ELSE r OBVIOUS
<1>4. P(p)
  <2> HIDE DEF P
  <2> QED BY <1>1, <1>2, <1>3
<1>5. P([p EXCEPT !.streams = e.n, !.ended = FALSE])
  <2>1. PICK t : t = [p EXCEPT !.streams = e.n, !.ended = FALSE] OBVIOUS
  <2>2. e.n \in Nat /\ p \in RoomRecords BY <1>4 DEF Events, Shows
  <2>3. t \in RoomRecords /\ t.client = p.client /\ t.lines = p.lines BY <2>1, <2>2 DEF RoomRecords
  <2> QED BY <1>4, <2>1, <2>3 DEF Shows
<1>6. P([r EXCEPT !.ended = r.streams > 0])
  <2>0. PICK x : x = (r.streams > 0) OBVIOUS
  <2>1. PICK t : t = [r EXCEPT !.ended = x] OBVIOUS
  <2>5. r.streams \in Nat BY DEF RoomRecords
  <2>2. x \in BOOLEAN BY <2>0, <2>5
  <2>3. t \in RoomRecords /\ t.client = r.client /\ t.lines = r.lines BY <2>1, <2>2 DEF RoomRecords
  <2>4. Shows(r, t, e) BY <2>3 DEF Shows
  <2> QED BY <2>0, <2>1, <2>4
<1> HIDE DEF P
<1>7. P(streamEvent(r, e, away)) BY <1>3, <1>4, <1>5, <1>6, Zenon DEF streamEvent, StreamKinds
<1> QED BY <1>7 DEF P

\* What is only shown.
LEMMA LineShows ==
  ASSUME NEW r \in RoomRecords, NEW e \in Events, NEW away, e.k \in CoordinationKinds \cup ApprovalKinds \cup TransferKinds
  PROVE  /\ e.k \in CoordinationKinds => Shows(r, coordination(r, e, away), e)
         /\ e.k \in ApprovalKinds => Shows(r, approval(r, e, away), e)
         /\ e.k \in TransferKinds => Shows(r, transfer(r, e, away), e)
<1> DEFINE P(x) == Shows(r, x, e)
<1>1. P(Show(r, e, FALSE)) /\ P(Show(r, e, e.k = "exec")) BY ShowShows
<1>2. P(Note(Show(r, e, FALSE), away)) /\ P(Note(Show(r, e, FALSE), away /\ ~e.self)) BY <1>1, NoteShows
<1>3. P([r EXCEPT !.connected = FALSE])
  <2>1. PICK t : t = [r EXCEPT !.connected = FALSE] OBVIOUS
  <2>2. t \in RoomRecords /\ t.client = r.client /\ t.lines = r.lines BY <2>1 DEF RoomRecords
  <2> QED BY <2>1, <2>2 DEF Shows
<1> HIDE DEF P
<1>4. e.k \in CoordinationKinds => P(coordination(r, e, away))
  BY <1>1, <1>2, Zenon DEF coordination, CoordinationKinds
<1>5. e.k \in ApprovalKinds => P(approval(r, e, away)) BY <1>1, <1>2, Zenon DEF approval, ApprovalKinds
<1>6. e.k \in TransferKinds => P(transfer(r, e, away)) BY <1>1, <1>2, <1>3, Zenon DEF transfer, TransferKinds
<1> QED BY <1>4, <1>5, <1>6 DEF P

\* So does the dispatch over all of them.
LEMMA RoomShows ==
  ASSUME NEW r \in RoomRecords, NEW e \in Events, NEW away
  PROVE  Shows(r, inRoom(r, e, away), e)
<1>1. e.k \in EventKinds BY DEF Events
<1> DEFINE P(x) == Shows(r, x, e)
<1>2. e.k \in PresenceKinds => P(presence(r, e, away)) BY PresenceShows
<1>3. e.k \in ControlKinds => P(control(r, e, away)) BY ControlShows
<1>4. P(Show(r, e, FALSE)) BY ShowShows
<1>5. e.k \in StreamKinds => P(streamEvent(r, e, away)) BY StreamShows
<1>6. /\ e.k \in CoordinationKinds => P(coordination(r, e, away))
      /\ e.k \in ApprovalKinds => P(approval(r, e, away))
      /\ e.k \in TransferKinds => P(transfer(r, e, away))
  BY LineShows
<1> HIDE DEF P
<1>7. P(inRoom(r, e, away)) BY <1>1, <1>2, <1>3, <1>4, <1>5, <1>6, Zenon DEF inRoom, EventKinds
<1> QED BY <1>7 DEF P

------------------------------------------------------------------------------
(* Lines that expire.  The loop keeps the others in their order. *)

\* The lines kept of the first i.
Expired(l, cut) == l.content /\ l.n <= cut
KeptBy(g, s, k, cut) ==
  g = [i \in 0..k |-> IF i = 0 THEN <<>> ELSE IF Expired(s[i], cut) THEN g[i - 1] ELSE Append(g[i - 1], s[i])]

\* There is such a function.
LEMMA KeptExists ==
  ASSUME NEW s, NEW cut, NEW n \in Nat
  PROVE  \E g : KeptBy(g, s, n, cut)
<1> DEFINE R == OpToRel(<, Nat)
<1> DEFINE Bad == {k \in Nat : ~\E g : KeptBy(g, s, k, cut)}
<1> SUFFICES ASSUME n \in Bad PROVE FALSE BY Zenon
<1>1. IsWellFoundedOn(R, Nat) BY NatLessThanWellFounded, Zenon
<1>2. Bad \subseteq Nat OBVIOUS
<1>3. PICK b \in Bad : \A y \in Bad : ~(<<y, b>> \in R)
  <2> HIDE DEF R, Bad
  <2> QED BY <1>1, <1>2, WFMin
<1>4. b \in Nat BY <1>2, <1>3
<1>5. b # 0
  <2> SUFFICES ASSUME b = 0 PROVE FALSE OBVIOUS
  <2>1. PICK g : g = [i \in 0..0 |-> <<>>] OBVIOUS
  <2>2. KeptBy(g, s, 0, cut) BY <2>1 DEF KeptBy
  <2> QED BY <1>3, <2>2
<1>6. b - 1 \in Nat /\ b - 1 < b BY <1>4, <1>5
<1>7. <<b - 1, b>> \in R BY <1>4, <1>6 DEF OpToRel
<1>8. PICK g : KeptBy(g, s, b - 1, cut) BY <1>3, <1>6, <1>7
<1>9. PICK h : h = [i \in 0..b |-> IF i = b THEN (IF Expired(s[b], cut) THEN g[b - 1] ELSE Append(g[b - 1], s[b])) ELSE g[i]]
  OBVIOUS
<1>10. DOMAIN g = 0..(b - 1) BY <1>8 DEF KeptBy
<1>11. \A i \in 0..b : h[i] = IF i = 0 THEN <<>> ELSE IF Expired(s[i], cut) THEN h[i - 1] ELSE Append(h[i - 1], s[i])
  <2> TAKE i \in 0..b
  <2>1. i = b => i # 0 /\ h[i - 1] = g[i - 1] BY <1>4, <1>5, <1>9
  <2>2. i # b => i \in 0..(b - 1) BY <1>4
  <2>3. i # b /\ i # 0 => h[i - 1] = g[i - 1] BY <1>4, <1>9
  <2>4. i # b => g[i] = IF i = 0 THEN <<>> ELSE IF Expired(s[i], cut) THEN g[i - 1] ELSE Append(g[i - 1], s[i])
    BY <1>8, <2>2 DEF KeptBy
  <2>5. CASE i = b BY <1>9, <2>1, <2>5
  <2>6. CASE i # b BY <1>9, <2>3, <2>4, <2>6
  <2> QED BY <2>5, <2>6
<1>12. KeptBy(h, s, b, cut) BY <1>9, <1>11 DEF KeptBy
<1> QED BY <1>3, <1>12

\* What is kept is in order and comes from what was there.
Rising(t) == \A i, j \in DOMAIN t : i < j => t[i].n < t[j].n
\* Every entry of t is one of the first k of s.
From(t, s, k) == \A i \in DOMAIN t : \E j \in 1..k : t[i] = s[j]

\* It keeps lines in order and makes up none.
LEMMA KeptInOrder ==
  ASSUME NEW s \in Seq(ShownLines), NEW cut, NEW g, KeptBy(g, s, Len(s), cut)
  PROVE  LET t == g[Len(s)] IN t \in Seq(ShownLines) /\ (Rising(s) => Rising(t)) /\ From(t, s, Len(s))
<1> DEFINE R == OpToRel(<, Nat)
<1> DEFINE Good(k) == g[k] \in Seq(ShownLines) /\ (Rising(s) => Rising(g[k])) /\ From(g[k], s, k)
<1> DEFINE Bad == {k \in 0..Len(s) : ~Good(k)}
<1>0. Len(s) \in Nat OBVIOUS
<1> SUFFICES ASSUME Len(s) \in Bad PROVE FALSE BY <1>0
<1>1. IsWellFoundedOn(R, Nat) BY NatLessThanWellFounded, Zenon
<1>2. Bad \subseteq Nat BY <1>0
<1>3. PICK b \in Bad : \A y \in Bad : ~(<<y, b>> \in R)
  <2> HIDE DEF R, Bad
  <2> QED BY <1>1, <1>2, WFMin
<1>4. b \in 0..Len(s) /\ b \in Nat /\ ~Good(b) BY <1>2, <1>3
<1>g. \A i \in 0..Len(s) : g[i] = IF i = 0 THEN <<>> ELSE IF Expired(s[i], cut) THEN g[i - 1] ELSE Append(g[i - 1], s[i])
  BY DEF KeptBy
<1>5. b # 0
  <2> SUFFICES ASSUME b = 0 PROVE FALSE OBVIOUS
  <2>1. g[0] = <<>> BY <1>g, <1>4
  <2>2. Good(0) BY <2>1 DEF Rising, From
  <2> QED BY <1>4, <2>2
<1>6. b - 1 \in 0..Len(s) /\ b - 1 \in Nat /\ b - 1 < b BY <1>0, <1>4, <1>5
<1>7. <<b - 1, b>> \in R BY <1>4, <1>6 DEF OpToRel
<1>8. Good(b - 1) BY <1>3, <1>6, <1>7
<1>9. PICK t : t = g[b - 1] OBVIOUS
<1>10. t \in Seq(ShownLines) /\ (Rising(s) => Rising(t)) /\ From(t, s, b - 1) BY <1>8, <1>9
<1>11. b \in 1..Len(s) /\ b \in DOMAIN s /\ s[b] \in ShownLines BY <1>0, <1>4, <1>5
<1>12. g[b] = t \/ g[b] = Append(t, s[b]) BY <1>g, <1>4, <1>5, <1>9
<1> HIDE DEF Good, Bad, R
<1>13. From(t, s, b) BY <1>4, <1>10 DEF From
<1>14. CASE g[b] = t BY <1>4, <1>10, <1>13, <1>14 DEF Good
<1>15. CASE g[b] = Append(t, s[b])
  <2>1. PICK w : w = g[b] OBVIOUS
  <2>2. /\ w \in Seq(ShownLines) /\ DOMAIN w = DOMAIN t \cup {Len(t) + 1} /\ w[Len(t) + 1] = s[b]
        /\ \A i \in DOMAIN t : w[i] = t[i] /\ i < Len(t) + 1 /\ i \in Nat
    BY <1>10, <1>11, <1>15, <2>1
  <2>3. From(w, s, b) BY <1>11, <1>13, <2>2 DEF From
  <2>4. ASSUME Rising(s) PROVE \A i \in DOMAIN t : t[i].n < s[b].n
    <3> TAKE i \in DOMAIN t
    <3>1. PICK j \in 1..(b - 1) : t[i] = s[j] BY <1>10 DEF From
    <3>2. j \in DOMAIN s /\ j < b BY <1>0, <1>11, <3>1
    <3> QED BY <1>11, <2>4, <3>1, <3>2 DEF Rising
  <2>5. ASSUME Rising(s) PROVE Rising(w)
    <3> SUFFICES ASSUME NEW i \in DOMAIN w, NEW j \in DOMAIN w, i < j PROVE w[i].n < w[j].n BY DEF Rising
    <3>0. Len(t) \in Nat BY <1>10
    <3>1. i \in DOMAIN t BY <2>2, <3>0
    <3>2. CASE j \in DOMAIN t BY <1>10, <2>2, <2>5, <3>1, <3>2 DEF Rising
    <3>3. CASE j = Len(t) + 1 BY <2>2, <2>4, <2>5, <3>1, <3>3
    <3> QED BY <2>2, <3>2, <3>3
  <2>6. Good(b) BY <2>1, <2>2, <2>3, <2>5 DEF Good
  <2> QED BY <1>4, <2>6
<1> QED BY <1>12, <1>14, <1>15

\* pruneExpired in its terms.
LEMMA PruneIs ==
  ASSUME NEW r, NEW cut
  PROVE  LET k == CHOOSE g : KeptBy(g, r.lines, Len(r.lines), cut) IN
         pruneExpired(r, cut) = IF ~r.ttl THEN r ELSE [r EXCEPT !.lines = k[Len(r.lines)]]
BY Zenon DEF pruneExpired, KeptBy, Expired

\* What a room is after its expired lines went.
LEMMA PruneKept ==
  ASSUME NEW r \in RoomRecords, NEW cut
  PROVE  LET p == pruneExpired(r, cut) IN
         /\ p \in RoomRecords /\ p.client = r.client /\ (Rising(r.lines) => Rising(p.lines))
         /\ \A i \in DOMAIN p.lines : \E j \in DOMAIN r.lines : p.lines[i] = r.lines[j]
<1>0. r.lines \in Seq(ShownLines) BY DEF RoomRecords
<1>1. PICK s \in Seq(ShownLines) : s = r.lines BY <1>0
<1>2. Len(s) \in Nat /\ DOMAIN s = 1..Len(s) OBVIOUS
<1> DEFINE K == CHOOSE g : KeptBy(g, r.lines, Len(r.lines), cut)
<1>3. PICK k : k = K OBVIOUS
<1>4. KeptBy(k, s, Len(s), cut)
  <2>1. \E g : KeptBy(g, r.lines, Len(r.lines), cut) BY <1>1, <1>2, KeptExists
  <2>2. KeptBy(K, r.lines, Len(r.lines), cut) BY <2>1, Zenon
  <2> HIDE DEF K
  <2> QED BY <1>1, <1>3, <2>2
<1>50. pruneExpired(r, cut) = IF ~r.ttl THEN r ELSE [r EXCEPT !.lines = K[Len(r.lines)]] BY PruneIs, Zenon
<1> HIDE DEF K
<1>5. pruneExpired(r, cut) = IF ~r.ttl THEN r ELSE [r EXCEPT !.lines = k[Len(s)]] BY <1>1, <1>3, <1>50
<1>6. SUFFICES ASSUME r.ttl
      PROVE  LET p == pruneExpired(r, cut) IN
             /\ p \in RoomRecords /\ p.client = r.client /\ (Rising(r.lines) => Rising(p.lines))
             /\ \A i \in DOMAIN p.lines : \E j \in DOMAIN r.lines : p.lines[i] = r.lines[j]
  BY <1>5
<1>7. PICK t : t = k[Len(s)] OBVIOUS
<1>8. t \in Seq(ShownLines) /\ (Rising(s) => Rising(t)) /\ From(t, s, Len(s)) BY <1>1, <1>4, <1>6, <1>7, KeptInOrder
<1>9. PICK p : p = [r EXCEPT !.lines = t] OBVIOUS
<1>10. p = pruneExpired(r, cut) BY <1>5, <1>6, <1>7, <1>9
<1>11. p \in RoomRecords /\ p.client = r.client /\ p.lines = t BY <1>8, <1>9 DEF RoomRecords
<1> QED BY <1>1, <1>2, <1>8, <1>10, <1>11 DEF From

------------------------------------------------------------------------------
(* Steps that change one core. *)

\* Cores that keep their rooms keep who is last and who is the only one.
LEMMA SameRooms ==
  ASSUME NEW u, NEW v, DOMAIN v.cores = DOMAIN u.cores, \A d \in DOMAIN u.cores : v.cores[d].room = u.cores[d].room
  PROVE  \A c \in DOMAIN u.cores : (LastOf(v, c) <=> LastOf(u, c)) /\ (OnlyOf(v, c) <=> OnlyOf(u, c))
BY DEF LastOf, OnlyOf

\* A dial that ends, or comes to nothing; a connection that ends.
LEMMA StateKeeps ==
  ASSUME NEW u, NEW x, ModelInv(u, x), u.run = "up", NEW c \in DOMAIN u.cores, NEW st,
         \/ u.cores[c].st = "dialing" /\ st \in {"landed", "refused"}
         \/ u.cores[c].st \in {"landed", "refused"} /\ st \in {"none", "closed"}
         \/ u.cores[c].st = "live" /\ st = "dead"
  PROVE  LET v == [u EXCEPT !.cores[c].st = st] IN
         /\ ModelInv(v, x) /\ v.relisten = u.relisten /\ v.wait = u.wait /\ v.run = u.run /\ v.session = u.session
         /\ DOMAIN v.cores = DOMAIN u.cores
<1>0. IsModel(u) BY DEF ModelInv
<1>1. PICK a : a = u.cores[c] OBVIOUS
<1>2. IsCore(a) BY <1>0, <1>1 DEF IsModel
<1>3. PICK b : b = [a EXCEPT !.st = st] OBVIOUS
<1>4. PICK v : v = [u EXCEPT !.cores[c] = b] OBVIOUS
<1>5. v = [u EXCEPT !.cores[c].st = st] BY <1>0, <1>1, <1>3, <1>4 DEF IsModel, HasParts, IsCore
<1>6. /\ IsCore(b) /\ b.st = st /\ b.room = a.room /\ b.left = a.left /\ b.pumps = a.pumps /\ b.posted = a.posted
      /\ b.lost = a.lost /\ b.q = a.q /\ b.made = a.made
  BY <1>1, <1>2, <1>3 DEF IsCore, CoreStates
<1>7. /\ IsModel(v) /\ DOMAIN v.cores = DOMAIN u.cores /\ v.cores[c] = b
      /\ \A d \in DOMAIN u.cores : d # c => v.cores[d] = u.cores[d]
      /\ v.session = u.session /\ v.order = u.order /\ v.active = u.active /\ v.shown = u.shown
      /\ v.lostOnClose = u.lostOnClose /\ v.wait = u.wait /\ v.relisten = u.relisten /\ v.run = u.run
  BY <1>0, <1>4, <1>6, CoreUpdated
<1>8. \A d \in DOMAIN u.cores : LET k == u.cores[d] n == v.cores[d] IN
        /\ n.room = k.room /\ n.left = k.left /\ n.pumps = k.pumps /\ n.posted = k.posted
        /\ n.lost = k.lost /\ n.q = k.q /\ n.made = k.made /\ (d # c => n.st = k.st)
  BY <1>1, <1>6, <1>7
<1>9. u.cores[c].st # v.cores[c].st /\ v.cores[c].st = st BY <1>6, <1>7
<1>10. \A d \in DOMAIN u.cores : (LastOf(v, d) <=> LastOf(u, d)) /\ (OnlyOf(v, d) <=> OnlyOf(u, d))
  BY <1>7, <1>8, SameRooms
<1>11. Places(v) /\ Waits(v) BY <1>7 DEF ModelInv, Places, Waits
<1>12. ClientsFit(v) BY <1>7, <1>8, <1>9, <1>10 DEF ModelInv, ClientsFit
<1>13. DialsFit(v) BY <1>7, <1>8, <1>9, <1>10 DEF ModelInv, DialsFit, Unanswered
<1>14. HeldOrLeft(v) BY <1>7, <1>8, <1>9 DEF ModelInv, HeldOrLeft, Settled, Held
<1>15. Told(v) BY <1>7, <1>8 DEF ModelInv, Told
<1>16. Unheard(v, x) BY <1>7, <1>8, <1>9 DEF ModelInv, Unheard
<1>17. Heard(v, x)
  <2> SUFFICES ASSUME NEW n \in DOMAIN u.session, NEW d, d = u.session[n].client, d # 0, v.cores[d].st = "live"
               PROVE  v.cores[d].pumps > 0 \/ v.cores[d].posted # {} \/ x = d
    BY <1>7 DEF Heard
  <2>1. d \in DOMAIN u.cores BY DEF ModelInv, ClientsFit
  <2>2. d # c BY <1>9
  <2> QED BY <1>7, <1>8, <2>1, <2>2 DEF ModelInv, Heard
<1>18. OneListener(v, x) BY <1>7, <1>8, <1>10 DEF ModelInv, OneListener
<1>19. InOrder(v)
  <2> SUFFICES ASSUME NEW d \in DOMAIN u.cores, OnlyOf(u, d)
               PROVE  /\ QueueInOrder(v.cores[d])
                      /\ u.cores[d].room \in DOMAIN u.session => LinesInOrder(u.session[u.cores[d].room].lines, v.cores[d])
    BY <1>7, <1>8, <1>10 DEF InOrder
  <2>1. /\ QueueInOrder(u.cores[d])
        /\ u.cores[d].room \in DOMAIN u.session => LinesInOrder(u.session[u.cores[d].room].lines, u.cores[d])
    BY DEF ModelInv, InOrder
  <2>2. v.cores[d].posted = u.cores[d].posted /\ v.cores[d].q = u.cores[d].q /\ v.cores[d].made = u.cores[d].made
    BY <1>8
  <2>3. QueueInOrder(v.cores[d]) BY <2>1, <2>2 DEF QueueInOrder
  <2> QED BY <2>1, <2>2, <2>3 DEF LinesInOrder
<1> QED BY <1>5, <1>7, <1>11, <1>12, <1>13, <1>14, <1>15, <1>16, <1>17, <1>18, <1>19 DEF ModelInv

\* A change of one core that leaves its room, its state and what it lost alone.
Touches(u, v, c) ==
  /\ IsModel(v) /\ DOMAIN v.cores = DOMAIN u.cores
  /\ \A d \in DOMAIN u.cores : d # c => v.cores[d] = u.cores[d]
  /\ v.cores[c].room = u.cores[c].room /\ v.cores[c].st = u.cores[c].st
  /\ v.cores[c].left = u.cores[c].left /\ v.cores[c].lost = u.cores[c].lost
  /\ DOMAIN v.session = DOMAIN u.session
  /\ \A n \in DOMAIN u.session : v.session[n].client = u.session[n].client
  /\ v.order = u.order /\ v.active = u.active /\ v.shown = u.shown /\ v.lostOnClose = u.lostOnClose
  /\ v.wait = u.wait /\ v.run = u.run

\* A step that touches one core leaves rooms, clients and dials in order.
LEMMA TouchKeeps ==
  ASSUME NEW u, NEW x, ModelInv(u, x), NEW c \in DOMAIN u.cores, NEW v, Touches(u, v, c)
  PROVE  /\ IsModel(v) /\ Places(v) /\ Waits(v) /\ ClientsFit(v) /\ DialsFit(v) /\ HeldOrLeft(v) /\ Told(v)
         /\ \A d \in DOMAIN u.cores : (LastOf(v, d) <=> LastOf(u, d)) /\ (OnlyOf(v, d) <=> OnlyOf(u, d))
<1>1. \A d \in DOMAIN u.cores : LET k == u.cores[d] n == v.cores[d] IN
        n.room = k.room /\ n.left = k.left /\ n.lost = k.lost /\ n.st = k.st
  BY DEF Touches
<1>2. /\ DOMAIN v.cores = DOMAIN u.cores /\ DOMAIN v.session = DOMAIN u.session
      /\ \A n \in DOMAIN u.session : v.session[n].client = u.session[n].client
      /\ v.order = u.order /\ v.active = u.active /\ v.shown = u.shown /\ v.lostOnClose = u.lostOnClose
      /\ v.wait = u.wait /\ v.run = u.run /\ IsModel(v)
  BY DEF Touches
<1>3. \A d \in DOMAIN u.cores : (LastOf(v, d) <=> LastOf(u, d)) /\ (OnlyOf(v, d) <=> OnlyOf(u, d))
  BY <1>1, <1>2, SameRooms
<1>4. Places(v) /\ Waits(v) BY <1>2 DEF ModelInv, Places, Waits
<1>5. ClientsFit(v) BY <1>1, <1>2, <1>3 DEF ModelInv, ClientsFit
<1>6. DialsFit(v) BY <1>1, <1>2, <1>3 DEF ModelInv, DialsFit, Unanswered
<1>7. HeldOrLeft(v) BY <1>1, <1>2 DEF ModelInv, HeldOrLeft, Settled, Held
<1>8. Told(v) BY <1>1, <1>2 DEF ModelInv, Told
<1> QED BY <1>2, <1>3, <1>4, <1>5, <1>6, <1>7, <1>8

\* What of the rest has to be seen for the core that changed only.
DueFits(u, x, y, c) ==
  /\ y # 0 => y \in DOMAIN u.cores
  /\ \A d \in DOMAIN u.cores : d # c /\ x = d => y = d
  /\ \A d \in DOMAIN u.cores : d # c /\ y = d =>
       x = d \/ (~OnlyOf(u, d) /\ u.cores[d].st \notin {"dialing", "landed", "refused", "none"})

\* Core c, changed to k, has its listener; the core whose listener is due is y.
ListenersFit(u, k, c, y) ==
  /\ k.st \in {"dialing", "landed", "refused", "none"} => k.pumps = 0 /\ k.posted = {} /\ y # c
  /\ k.st = "live" /\ u.run = "up" /\ (\E n \in DOMAIN u.session : u.session[n].client = c) =>
       k.pumps > 0 \/ k.posted # {} \/ y = c
  /\ OnlyOf(u, c) =>
       /\ k.pumps <= 1
       /\ \A e, f \in k.posted : e = f
       /\ k.posted # {} => k.pumps = 0
       /\ y = c => k.pumps = 0 /\ k.posted = {}

\* Core c and the lines of its room are in order, and no other room's lines changed.
EmitsFit(u, v, c) ==
  /\ \A n \in DOMAIN u.session : n # u.cores[c].room => v.session[n].lines = u.session[n].lines
  /\ OnlyOf(u, c) =>
       /\ QueueInOrder(v.cores[c])
       /\ u.cores[c].room \in DOMAIN u.session => LinesInOrder(v.session[u.cores[c].room].lines, v.cores[c])

\* A step that touches one core keeps the invariant when that core is in order.
LEMMA TouchedCore ==
  ASSUME NEW u, NEW x, ModelInv(u, x), NEW c \in DOMAIN u.cores, NEW v, Touches(u, v, c), NEW y,
         DueFits(u, x, y, c), ListenersFit(u, v.cores[c], c, y), EmitsFit(u, v, c)
  PROVE  ModelInv(v, y)
<1>1. /\ IsModel(v) /\ Places(v) /\ Waits(v) /\ ClientsFit(v) /\ DialsFit(v) /\ HeldOrLeft(v) /\ Told(v)
      /\ \A d \in DOMAIN u.cores : (LastOf(v, d) <=> LastOf(u, d)) /\ (OnlyOf(v, d) <=> OnlyOf(u, d))
  BY TouchKeeps
<1>2. /\ DOMAIN v.cores = DOMAIN u.cores /\ DOMAIN v.session = DOMAIN u.session
      /\ \A n \in DOMAIN u.session : v.session[n].client = u.session[n].client
      /\ v.run = u.run /\ v.cores[c].room = u.cores[c].room
      /\ \A d \in DOMAIN u.cores : d # c => v.cores[d] = u.cores[d]
  BY DEF Touches
<1>3. Unheard(v, y)
  <2> SUFFICES ASSUME NEW d \in DOMAIN u.cores, v.cores[d].st \in {"dialing", "landed", "refused", "none"}
               PROVE  v.cores[d].pumps = 0 /\ v.cores[d].posted = {} /\ y # d
    BY <1>2 DEF Unheard, DueFits
  <2>1. CASE d = c BY <2>1 DEF ListenersFit
  <2>2. CASE d # c BY <1>2, <2>2 DEF ModelInv, Unheard, DueFits
  <2> QED BY <2>1, <2>2
<1>4. Heard(v, y)
  <2> SUFFICES ASSUME NEW n \in DOMAIN u.session, NEW d, d = u.session[n].client, u.run = "up", d # 0, v.cores[d].st = "live"
               PROVE  v.cores[d].pumps > 0 \/ v.cores[d].posted # {} \/ y = d
    BY <1>2 DEF Heard
  <2>1. d \in DOMAIN u.cores BY DEF ModelInv, ClientsFit
  <2>2. CASE d = c BY <2>2 DEF ListenersFit
  <2>3. CASE d # c BY <1>2, <2>1, <2>3 DEF ModelInv, Heard, DueFits
  <2> QED BY <2>2, <2>3
<1>5. OneListener(v, y)
  <2> SUFFICES ASSUME NEW d \in DOMAIN u.cores, OnlyOf(u, d)
               PROVE  /\ v.cores[d].pumps <= 1
                      /\ \A e, f \in v.cores[d].posted : e = f
                      /\ v.cores[d].posted # {} => v.cores[d].pumps = 0
                      /\ y = d => v.cores[d].pumps = 0 /\ v.cores[d].posted = {}
    BY <1>1, <1>2 DEF OneListener
  <2>1. CASE d = c BY <2>1 DEF ListenersFit
  <2>2. CASE d # c BY <1>2, <2>2 DEF ModelInv, OneListener, DueFits
  <2> QED BY <2>1, <2>2
<1>6. InOrder(v)
  <2> SUFFICES ASSUME NEW d \in DOMAIN u.cores, OnlyOf(u, d)
               PROVE  /\ QueueInOrder(v.cores[d])
                      /\ v.cores[d].room \in DOMAIN u.session =>
                           LinesInOrder(v.session[v.cores[d].room].lines, v.cores[d])
    BY <1>1, <1>2 DEF InOrder
  <2>1. CASE d = c BY <1>2, <2>1 DEF EmitsFit
  <2>2. CASE d # c
    <3>1. u.cores[d].room # u.cores[c].room BY <2>2 DEF OnlyOf
    <3>2. v.cores[d] = u.cores[d] BY <1>2, <2>2
    <3> QED BY <3>1, <3>2 DEF ModelInv, InOrder, EmitsFit
  <2> QED BY <2>1, <2>2
<1> QED BY <1>1, <1>3, <1>4, <1>5, <1>6 DEF ModelInv

\* A listener takes the first event.
Took(u, c) == [u EXCEPT !.cores[c].pumps = @ - 1, !.cores[c].q = Tail(@),
                        !.cores[c].posted = @ \cup {Head(u.cores[c].q)}]

\* A listener takes an event and posts it.
LEMMA TakeKeeps ==
  ASSUME NEW u, NEW x, ModelInv(u, x), NEW c \in DOMAIN u.cores, u.cores[c].pumps > 0, u.cores[c].q # <<>>,
         NEW v, v = Took(u, c)
  PROVE  ModelInv(v, x) /\ v.relisten = u.relisten /\ v.wait = u.wait
<1>0. IsModel(u) BY DEF ModelInv
<1>1. PICK a : a = u.cores[c] OBVIOUS
<1>2. IsCore(a) BY <1>0, <1>1 DEF IsModel
<1>3. PICK h, t, p : h = Head(a.q) /\ t = Tail(a.q) /\ p = a.pumps - 1 OBVIOUS
<1>4. a.q \in Seq(Events) /\ a.pumps \in Nat /\ a.pumps > 0 /\ a.posted \subseteq Events /\ a.q # <<>> BY <1>1, <1>2 DEF IsCore
<1>5. h \in Events /\ t \in Seq(Events) /\ p \in Nat BY <1>3, <1>4
<1>6. /\ 1 \in DOMAIN a.q /\ h = a.q[1]
      /\ \A i \in DOMAIN t : i + 1 \in DOMAIN a.q /\ t[i] = a.q[i + 1] /\ i \in Nat /\ 1 < i + 1
  BY <1>3, <1>4
<1>7. PICK b : b = [a EXCEPT !.pumps = p, !.q = t, !.posted = a.posted \cup {h}] OBVIOUS
<1>8. v = [u EXCEPT !.cores[c] = b]
  <2>1. HasParts(u) BY <1>0 DEF IsModel
  <2>2. PICK v1 : v1 = [u EXCEPT !.cores[c].pumps = p] OBVIOUS
  <2>3. PICK v2 : v2 = [v1 EXCEPT !.cores[c].q = t] OBVIOUS
  <2>4. PICK b1 : b1 = [a EXCEPT !.pumps = p] OBVIOUS
  <2>5. PICK b2 : b2 = [b1 EXCEPT !.q = t] OBVIOUS
  <2>6. /\ b = [b2 EXCEPT !.posted = a.posted \cup {h}]
        /\ b1.q = a.q /\ b1.posted = a.posted /\ b2.posted = a.posted
    BY <1>2, <1>7, <2>4, <2>5 DEF IsCore
  <2>7. v1 = [u EXCEPT !.cores = [u.cores EXCEPT ![c] = b1]] /\ v1.cores[c] = b1
    BY <1>1, <2>1, <2>2, <2>4 DEF HasParts
  <2>8. v2 = [u EXCEPT !.cores = [u.cores EXCEPT ![c] = b2]] /\ v2.cores[c] = b2
    BY <2>1, <2>3, <2>5, <2>7 DEF HasParts
  <2>9. [v2 EXCEPT !.cores[c].posted = a.posted \cup {h}] = [u EXCEPT !.cores[c] = b]
    BY <2>1, <2>6, <2>8 DEF HasParts
  <2>10. v = [v2 EXCEPT !.cores[c].posted = a.posted \cup {h}]
    BY <1>1, <1>3, <2>2, <2>3, <2>6, <2>7, <2>8 DEF Took
  <2> QED BY <2>9, <2>10
<1>9. /\ IsCore(b) /\ b.st = a.st /\ b.room = a.room /\ b.left = a.left /\ b.lost = a.lost /\ b.made = a.made
      /\ b.pumps = p /\ b.q = t /\ b.posted = a.posted \cup {h}
  BY <1>2, <1>5, <1>7 DEF IsCore
<1>10. v.cores[c] = b /\ v.session = u.session /\ v.relisten = u.relisten /\ v.wait = u.wait
  BY <1>0, <1>8, <1>9, CoreUpdated
<1>11. Touches(u, v, c) BY <1>0, <1>1, <1>8, <1>9, CoreUpdated DEF Touches
<1>12. a.st \notin {"dialing", "landed", "refused", "none"} BY <1>1, <1>4 DEF ModelInv, Unheard
<1>13. ASSUME OnlyOf(u, c)
       PROVE  /\ b.pumps <= 1
              /\ \A e, f \in b.posted : e = f
              /\ b.posted # {} => b.pumps = 0
              /\ x = c => b.pumps = 0 /\ b.posted = {}
  BY <1>1, <1>3, <1>4, <1>9, <1>13 DEF ModelInv, OneListener
<1>14. ASSUME OnlyOf(u, c) PROVE QueueInOrder(b)
  <2>1. QueueInOrder(a) BY <1>1, <1>14 DEF ModelInv, InOrder
  <2>2. \A i \in DOMAIN b.q : b.q[i].n <= b.made BY <1>6, <1>9, <2>1 DEF QueueInOrder
  <2>3. \A i, j \in DOMAIN b.q : i < j => b.q[i].n < b.q[j].n
    <3> SUFFICES ASSUME NEW i \in DOMAIN t, NEW j \in DOMAIN t, i < j PROVE t[i].n < t[j].n BY <1>9
    <3>1. i + 1 < j + 1 /\ i + 1 \in DOMAIN a.q /\ j + 1 \in DOMAIN a.q BY <1>6
    <3> QED BY <1>6, <2>1, <3>1 DEF QueueInOrder
  <2>4. h.n <= b.made /\ \A i \in DOMAIN t : h.n < t[i].n BY <1>6, <1>9, <2>1 DEF QueueInOrder
  <2>5. ASSUME NEW e \in a.posted PROVE e.n <= b.made /\ \A i \in DOMAIN t : e.n < t[i].n
    BY <1>6, <1>9, <2>1 DEF QueueInOrder
  <2> QED BY <1>9, <2>2, <2>3, <2>4, <2>5 DEF QueueInOrder
<1>15. ASSUME OnlyOf(u, c), u.cores[c].room \in DOMAIN u.session
       PROVE  LinesInOrder(u.session[u.cores[c].room].lines, b)
  <2>1. PICK ls : ls = u.session[u.cores[c].room].lines OBVIOUS
  <2>2. LinesInOrder(ls, a) BY <1>1, <1>15, <2>1 DEF ModelInv, InOrder
  <2>3. \A i \in DOMAIN ls : ls[i].n < h.n BY <1>6, <2>2 DEF LinesInOrder
  <2>4. \A i \in DOMAIN ls : \A j \in DOMAIN t : ls[i].n < t[j].n BY <1>6, <2>2 DEF LinesInOrder
  <2> QED BY <1>9, <2>1, <2>2, <2>3, <2>4 DEF LinesInOrder
<1>16. x # 0 => x \in DOMAIN u.cores BY DEF ModelInv, Unheard
<1>17. ModelInv(v, x)
  <2>1. v.cores[c].posted # {} BY <1>9, <1>10
  <2>2. v.cores[c].st \notin {"dialing", "landed", "refused", "none"} BY <1>9, <1>10, <1>12
  <2>3. DueFits(u, x, x, c) BY <1>16 DEF DueFits
  <2>4. ListenersFit(u, v.cores[c], c, x) BY <1>10, <1>13, <2>1, <2>2 DEF ListenersFit
  <2>5. EmitsFit(u, v, c) BY <1>10, <1>14, <1>15 DEF EmitsFit
  <2> QED BY <1>11, <2>3, <2>4, <2>5, TouchedCore
<1> QED BY <1>10, <1>17

\* A listener finds the connection over.
FoundDone(u, c) == [u EXCEPT !.cores[c].pumps = @ - 1, !.cores[c].goneMsgs = @ + 1]

\* A listener finds the client done.
LEMMA DoneKeeps ==
  ASSUME NEW u, NEW x, ModelInv(u, x), NEW c \in DOMAIN u.cores, u.cores[c].pumps > 0, u.cores[c].st \in {"dead", "closed"},
         NEW v, v = FoundDone(u, c)
  PROVE  ModelInv(v, x) /\ v.relisten = u.relisten /\ v.wait = u.wait
<1>0. IsModel(u) BY DEF ModelInv
<1>1. PICK a : a = u.cores[c] OBVIOUS
<1>2. IsCore(a) BY <1>0, <1>1 DEF IsModel
<1>3. PICK p, g : p = a.pumps - 1 /\ g = a.goneMsgs + 1 OBVIOUS
<1>4. a.pumps \in Nat /\ a.pumps > 0 /\ a.goneMsgs \in Nat BY <1>1, <1>2 DEF IsCore
<1>5. p \in Nat /\ g \in Nat /\ p <= a.pumps /\ (a.pumps <= 1 => p = 0) BY <1>3, <1>4
<1>7. PICK b : b = [a EXCEPT !.pumps = p, !.goneMsgs = g] OBVIOUS
<1>8. v = [u EXCEPT !.cores[c] = b] BY <1>0, <1>1, <1>3, <1>7 DEF IsModel, HasParts, IsCore, FoundDone
<1>9. /\ IsCore(b) /\ b.st = a.st /\ b.room = a.room /\ b.left = a.left /\ b.lost = a.lost /\ b.made = a.made
      /\ b.pumps = p /\ b.q = a.q /\ b.posted = a.posted
  BY <1>2, <1>5, <1>7 DEF IsCore
<1>10. v.cores[c] = b /\ v.session = u.session /\ v.relisten = u.relisten /\ v.wait = u.wait
  BY <1>0, <1>8, <1>9, CoreUpdated
<1>11. Touches(u, v, c) BY <1>0, <1>1, <1>8, <1>9, CoreUpdated DEF Touches
<1>13. ASSUME OnlyOf(u, c)
       PROVE  /\ b.pumps <= 1
              /\ \A e, f \in b.posted : e = f
              /\ b.posted # {} => b.pumps = 0
              /\ x = c => b.pumps = 0 /\ b.posted = {}
  BY <1>1, <1>4, <1>5, <1>9, <1>13 DEF ModelInv, OneListener
<1>14. ASSUME OnlyOf(u, c) PROVE QueueInOrder(b) BY <1>1, <1>9, <1>14 DEF ModelInv, InOrder, QueueInOrder
<1>15. ASSUME OnlyOf(u, c), u.cores[c].room \in DOMAIN u.session
       PROVE  LinesInOrder(u.session[u.cores[c].room].lines, b)
  BY <1>1, <1>9, <1>15 DEF ModelInv, InOrder, LinesInOrder
<1>16. x # 0 => x \in DOMAIN u.cores BY DEF ModelInv, Unheard
<1>17. ModelInv(v, x)
  <2>2. v.cores[c].st \notin {"dialing", "landed", "refused", "none", "live"} BY <1>1, <1>9, <1>10
  <2>3. DueFits(u, x, x, c) BY <1>16 DEF DueFits
  <2>4. ListenersFit(u, v.cores[c], c, x) BY <1>10, <1>13, <2>2 DEF ListenersFit
  <2>5. EmitsFit(u, v, c) BY <1>10, <1>14, <1>15 DEF EmitsFit
  <2> QED BY <1>11, <2>3, <2>4, <2>5, TouchedCore
<1> QED BY <1>10, <1>17

\* Update starts the listener that is due.
LEMMA ListenKeeps ==
  ASSUME NEW u, NEW x \in DOMAIN u.cores, ModelInv(u, x), NEW v, v = listenRoom(u, x)
  PROVE  ModelInv(v, 0) /\ v.relisten = u.relisten /\ v.wait = u.wait
<1>0. IsModel(u) BY DEF ModelInv
<1>1. PICK a : a = u.cores[x] OBVIOUS
<1>2. IsCore(a) BY <1>0, <1>1 DEF IsModel
<1>3. PICK p : p = a.pumps + 1 OBVIOUS
<1>4. a.pumps \in Nat BY <1>2 DEF IsCore
<1>5. p \in Nat /\ p > 0 /\ (a.pumps = 0 => p = 1) BY <1>3, <1>4
<1>7. PICK b : b = [a EXCEPT !.pumps = p] OBVIOUS
<1>8. v = [u EXCEPT !.cores[x] = b] BY <1>0, <1>1, <1>3, <1>7 DEF IsModel, HasParts, IsCore, listenRoom
<1>9. /\ IsCore(b) /\ b.st = a.st /\ b.room = a.room /\ b.left = a.left /\ b.lost = a.lost /\ b.made = a.made
      /\ b.pumps = p /\ b.q = a.q /\ b.posted = a.posted
  BY <1>2, <1>5, <1>7 DEF IsCore
<1>10. v.cores[x] = b /\ v.session = u.session /\ v.relisten = u.relisten /\ v.wait = u.wait
  BY <1>0, <1>8, <1>9, CoreUpdated
<1>11. Touches(u, v, x) BY <1>0, <1>1, <1>8, <1>9, CoreUpdated DEF Touches
<1>12. x # 0 /\ \A d \in DOMAIN u.cores : d # 0
  <2>1. Len(u.cores) \in Nat /\ DOMAIN u.cores = 1..Len(u.cores) BY <1>0, SeqOfFacts DEF IsModel
  <2> QED BY <2>1
<1>13. ASSUME OnlyOf(u, x)
       PROVE  /\ b.pumps <= 1
              /\ \A e, f \in b.posted : e = f
              /\ b.posted = {}
  BY <1>1, <1>4, <1>5, <1>9, <1>13 DEF ModelInv, OneListener
<1>14. ASSUME OnlyOf(u, x) PROVE QueueInOrder(b) BY <1>1, <1>9, <1>14 DEF ModelInv, InOrder, QueueInOrder
<1>15. ASSUME OnlyOf(u, x), u.cores[x].room \in DOMAIN u.session
       PROVE  LinesInOrder(u.session[u.cores[x].room].lines, b)
  BY <1>1, <1>9, <1>15 DEF ModelInv, InOrder, LinesInOrder
<1>17. ModelInv(v, 0)
  <2>1. v.cores[x].pumps > 0 BY <1>5, <1>9, <1>10
  <2>2. v.cores[x].st \notin {"dialing", "landed", "refused", "none"} BY <1>1, <1>9, <1>10 DEF ModelInv, Unheard
  <2>3. DueFits(u, x, 0, x) BY <1>12 DEF DueFits
  <2>4. ListenersFit(u, v.cores[x], x, 0) BY <1>10, <1>12, <1>13, <2>1, <2>2 DEF ListenersFit
  <2>5. EmitsFit(u, v, x) BY <1>10, <1>14, <1>15 DEF EmitsFit
  <2> QED BY <1>11, <2>3, <2>4, <2>5, TouchedCore
<1> QED BY <1>10, <1>17

\* An event is taken off its way and shown.
Unposted(u, c, e) == [u EXCEPT !.cores[c].posted = @ \ {e}]

\* Update takes a posted message.
LEMMA UnpostedIs ==
  ASSUME NEW u, IsModel(u), NEW c \in DOMAIN u.cores, NEW e, NEW v, v = Unposted(u, c, e)
  PROVE  /\ Touches(u, v, c) /\ v.session = u.session /\ v.relisten = u.relisten
         /\ v.cores[c].posted = u.cores[c].posted \ {e} /\ v.cores[c].pumps = u.cores[c].pumps
         /\ v.cores[c].q = u.cores[c].q /\ v.cores[c].made = u.cores[c].made
<1>1. PICK a : a = u.cores[c] OBVIOUS
<1>2. IsCore(a) BY <1>1 DEF IsModel
<1>3. PICK b : b = [a EXCEPT !.posted = a.posted \ {e}] OBVIOUS
<1>4. v = [u EXCEPT !.cores[c] = b] BY <1>1, <1>3 DEF IsModel, HasParts, IsCore, Unposted
<1>5. /\ IsCore(b) /\ b.st = a.st /\ b.room = a.room /\ b.left = a.left /\ b.lost = a.lost /\ b.made = a.made
      /\ b.pumps = a.pumps /\ b.q = a.q /\ b.posted = a.posted \ {e}
  BY <1>2, <1>3 DEF IsCore
<1>6. v.cores[c] = b /\ v.session = u.session /\ v.relisten = u.relisten BY <1>4, <1>5, CoreUpdated
<1>7. Touches(u, v, c) BY <1>1, <1>4, <1>5, CoreUpdated DEF Touches
<1> QED BY <1>1, <1>5, <1>6, <1>7

\* A line more.
LEMMA ShownInPlace ==
  ASSUME NEW a, IsCore(a), QueueInOrder(a), NEW e \in a.posted, NEW b, b.posted = {}, b.q = a.q, b.made = a.made,
         NEW r \in RoomRecords, LinesInOrder(r.lines, a), NEW s, Shows(r, s, e)
  PROVE  LinesInOrder(s.lines, b)
<1>1. r.lines \in Seq(ShownLines) BY DEF RoomRecords
<1>2. e \in Events /\ e.n \in Nat BY DEF IsCore, Events
<1>3. /\ e.n <= a.made /\ \A i \in DOMAIN a.q : e.n < a.q[i].n
      /\ \A i \in DOMAIN r.lines : r.lines[i].n < e.n
  BY DEF QueueInOrder, LinesInOrder
<1>4. LinesInOrder(r.lines, b) BY DEF LinesInOrder
<1>5. ASSUME NEW t \in Seq(ShownLines), LinesInOrder(t, b), \A i \in DOMAIN t : t[i].n < e.n, NEW l, l \in ShownLines, l.n = e.n,
             NEW w, w = Append(t, l)
      PROVE  LinesInOrder(w, b)
  <2>1. /\ DOMAIN w = DOMAIN t \cup {Len(t) + 1} /\ w[Len(t) + 1] = l
        /\ \A i \in DOMAIN t : w[i] = t[i] /\ i < Len(t) + 1 /\ i \in Nat
    BY <1>5
  <2>2. Len(t) \in Nat BY <1>5
  <2>3. \A i, j \in DOMAIN w : i < j => w[i].n < w[j].n
    <3> SUFFICES ASSUME NEW i \in DOMAIN w, NEW j \in DOMAIN w, i < j PROVE w[i].n < w[j].n OBVIOUS
    <3>1. i \in DOMAIN t BY <2>1, <2>2
    <3>2. CASE j \in DOMAIN t BY <1>5, <2>1, <3>1, <3>2 DEF LinesInOrder
    <3>3. CASE j = Len(t) + 1 BY <1>5, <2>1, <3>1, <3>3
    <3> QED BY <2>1, <3>2, <3>3
  <2>4. \A i \in DOMAIN w : w[i].n <= b.made /\ \A j \in DOMAIN b.q : w[i].n < b.q[j].n
    BY <1>3, <1>5, <2>1 DEF LinesInOrder
  <2> QED BY <2>3, <2>4 DEF LinesInOrder
<1>6. \A content \in BOOLEAN : LineOf(e, content) \in ShownLines /\ LineOf(e, content).n = e.n
  BY <1>2 DEF LineOf, ShownLines, Events
<1>7. ASSUME NEW content \in BOOLEAN PROVE LinesInOrder(Append(r.lines, LineOf(e, content)), b)
  BY <1>1, <1>3, <1>4, <1>5, <1>6
<1>8. ASSUME NEW content \in BOOLEAN PROVE LinesInOrder(Append(<<>>, LineOf(e, content)), b)
  <2>1. PICK t : t = <<>> OBVIOUS
  <2>2. t \in Seq(ShownLines) /\ LinesInOrder(t, b) /\ \A i \in DOMAIN t : t[i].n < e.n BY <2>1 DEF LinesInOrder
  <2>3. LinesInOrder(Append(t, LineOf(e, content)), b) BY <1>5, <1>6, <2>2
  <2> QED BY <2>1, <2>3
<1> QED BY <1>4, <1>7, <1>8, Zenon DEF Shows

\* Update shows an event: the line comes after the room's others, and its listener is due.
LEMMA ShownKeeps ==
  ASSUME NEW u, ModelInv(u, 0), u.run = "up", NEW c \in DOMAIN u.cores, NEW e \in u.cores[c].posted, NEW n \in DOMAIN u.session,
         n = u.cores[c].room, NEW w, w = Unposted(u, c, e), NEW s, Shows(u.session[n], s, e), NEW v, v = SetRoom(w, n, s)
  PROVE  /\ ModelInv(v, u.session[n].client) /\ v.session[n].client = u.session[n].client
         /\ v.active = u.active /\ v.relisten = u.relisten /\ v.wait = u.wait /\ v.run = u.run
<1>0. IsModel(u) /\ IsCore(u.cores[c]) BY DEF ModelInv, IsModel
<1>1. PICK x : x = u.session[n].client OBVIOUS
<1>2. /\ Touches(u, w, c) /\ w.session = u.session /\ w.relisten = u.relisten
      /\ w.cores[c].posted = u.cores[c].posted \ {e} /\ w.cores[c].pumps = u.cores[c].pumps
      /\ w.cores[c].q = u.cores[c].q /\ w.cores[c].made = u.cores[c].made
  BY <1>0, UnpostedIs
<1>3. IsModel(w) /\ n \in DOMAIN w.session /\ s \in RoomRecords /\ v = [w EXCEPT !.session[n] = s]
  BY <1>2 DEF Touches, Shows, SetRoom
<1>4. /\ IsModel(v) /\ DOMAIN v.session = DOMAIN w.session /\ v.session[n] = s
      /\ \A d \in DOMAIN w.session : d # n => v.session[d] = w.session[d]
      /\ v.cores = w.cores /\ v.order = w.order /\ v.active = w.active /\ v.shown = w.shown
      /\ v.lostOnClose = w.lostOnClose /\ v.wait = w.wait /\ v.relisten = w.relisten /\ v.run = w.run
  BY <1>3, RoomUpdated
<1>5. s.client = u.session[n].client BY DEF Shows
<1>6. Touches(u, v, c)
  <2>1. /\ DOMAIN w.cores = DOMAIN u.cores
        /\ \A d \in DOMAIN u.cores : d # c => w.cores[d] = u.cores[d]
        /\ w.cores[c].room = u.cores[c].room /\ w.cores[c].st = u.cores[c].st
        /\ w.cores[c].left = u.cores[c].left /\ w.cores[c].lost = u.cores[c].lost
        /\ w.order = u.order /\ w.active = u.active /\ w.shown = u.shown /\ w.lostOnClose = u.lostOnClose
        /\ w.wait = u.wait /\ w.run = u.run
    BY <1>2 DEF Touches
  <2>2. DOMAIN v.session = DOMAIN u.session BY <1>2, <1>4
  <2>3. ASSUME NEW k \in DOMAIN u.session PROVE v.session[k].client = u.session[k].client
    <3>1. CASE k = n BY <1>4, <1>5, <3>1
    <3>2. CASE k # n BY <1>2, <1>4, <3>2
    <3> QED BY <3>1, <3>2
  <2>4. /\ IsModel(v) /\ v.cores = w.cores /\ v.order = w.order /\ v.active = w.active /\ v.shown = w.shown
        /\ v.lostOnClose = w.lostOnClose /\ v.wait = w.wait /\ v.run = w.run
    BY <1>4
  <2> QED BY <2>1, <2>2, <2>3, <2>4, Zenon DEF Touches
<1>7. v.active = u.active /\ v.wait = u.wait /\ v.run = u.run BY <1>6 DEF Touches
<1>8. x # 0 => x \in DOMAIN u.cores /\ u.cores[x].room = n /\ u.cores[x].st \in {"live", "dead"}
  BY <1>1 DEF ModelInv, ClientsFit
<1>9. u.cores[c].st \notin {"dialing", "landed", "refused", "none"} BY DEF ModelInv, Unheard
<1>10. \A d \in DOMAIN u.cores : d # 0
  <2>1. Len(u.cores) \in Nat /\ DOMAIN u.cores = 1..Len(u.cores) BY <1>0, SeqOfFacts DEF IsModel
  <2> QED BY <2>1
<1>11. ASSUME NEW d \in DOMAIN u.cores, d # c, x = d
       PROVE  ~OnlyOf(u, d) /\ u.cores[d].st \notin {"dialing", "landed", "refused", "none"}
  BY <1>8, <1>10, <1>11 DEF OnlyOf
<1>12. ASSUME NEW k \in DOMAIN u.session, u.session[k].client = c PROVE x = c
  <2>1. u.cores[c].room = k BY <1>10, <1>12 DEF ModelInv, ClientsFit
  <2> QED BY <1>1, <1>12, <2>1
<1>13. ASSUME OnlyOf(u, c)
       PROVE  v.cores[c].pumps = 0 /\ v.cores[c].posted = {} /\ QueueInOrder(v.cores[c]) /\ LinesInOrder(s.lines, v.cores[c])
  <2>1. u.cores[c].pumps = 0 /\ u.cores[c].posted \ {e} = {} BY <1>13 DEF ModelInv, OneListener
  <2>2. QueueInOrder(u.cores[c]) /\ LinesInOrder(u.session[n].lines, u.cores[c]) BY <1>13 DEF ModelInv, InOrder
  <2>6. PICK k : k = v.cores[c] OBVIOUS
  <2>7. k.posted = {} /\ k.q = u.cores[c].q /\ k.made = u.cores[c].made BY <1>2, <1>4, <2>1, <2>6
  <2>8. QueueInOrder(k) BY <2>2, <2>7 DEF QueueInOrder
  <2>3. QueueInOrder(v.cores[c]) BY <2>6, <2>8
  <2>4. u.session[n] \in RoomRecords BY <1>0 DEF IsModel
  <2>5. LinesInOrder(s.lines, k)
    <3>1. PICK a, r : a = u.cores[c] /\ r = u.session[n] OBVIOUS
    <3>2. /\ IsCore(a) /\ QueueInOrder(a) /\ e \in a.posted /\ k.posted = {} /\ k.q = a.q /\ k.made = a.made
          /\ r \in RoomRecords /\ LinesInOrder(r.lines, a) /\ Shows(r, s, e)
      BY <1>0, <2>2, <2>4, <2>7, <3>1
    <3> QED BY <3>2, ShownInPlace
  <2> QED BY <1>2, <1>4, <2>1, <2>3, <2>5, <2>6
<1>14. v.cores[c].st = u.cores[c].st BY <1>6 DEF Touches
<1>15. \A k \in DOMAIN u.session : k # n => v.session[k].lines = u.session[k].lines BY <1>2, <1>4
<1>16. ModelInv(v, x)
  <2>1. DueFits(u, 0, x, c) BY <1>8, <1>10, <1>11 DEF DueFits
  <2>2. ListenersFit(u, v.cores[c], c, x)
    <3>1. PICK k : k = v.cores[c] OBVIOUS
    <3>2. k.st \notin {"dialing", "landed", "refused", "none"} BY <1>9, <1>14, <3>1
    <3>3. (\E d \in DOMAIN u.session : u.session[d].client = c) => x = c BY <1>12
    <3>4. OnlyOf(u, c) => k.pumps = 0 /\ k.posted = {} BY <1>13, <3>1
    <3>5. ListenersFit(u, k, c, x) BY <3>2, <3>3, <3>4 DEF ListenersFit
    <3> QED BY <3>1, <3>5
  <2>3. EmitsFit(u, v, c) BY <1>4, <1>13, <1>15 DEF EmitsFit
  <2> QED BY <1>6, <2>1, <2>2, <2>3, TouchedCore
<1> QED BY <1>1, <1>2, <1>4, <1>5, <1>7, <1>16

\* An event of a room that is gone.
LEMMA StrayKeeps ==
  ASSUME NEW u, ModelInv(u, 0), NEW c \in DOMAIN u.cores, NEW e \in u.cores[c].posted, u.cores[c].room \notin DOMAIN u.session,
         NEW v, v = Unposted(u, c, e)
  PROVE  ModelInv(v, 0) /\ v.relisten = u.relisten /\ v.wait = u.wait
<1>0. IsModel(u) /\ IsCore(u.cores[c]) BY DEF ModelInv, IsModel
<1>2. /\ Touches(u, v, c) /\ v.session = u.session /\ v.relisten = u.relisten
      /\ v.cores[c].posted = u.cores[c].posted \ {e} /\ v.cores[c].pumps = u.cores[c].pumps
      /\ v.cores[c].q = u.cores[c].q /\ v.cores[c].made = u.cores[c].made
  BY <1>0, UnpostedIs
<1>9. u.cores[c].st \notin {"dialing", "landed", "refused", "none"} BY DEF ModelInv, Unheard
<1>10. \A d \in DOMAIN u.cores : d # 0
  <2>1. Len(u.cores) \in Nat /\ DOMAIN u.cores = 1..Len(u.cores) BY <1>0, SeqOfFacts DEF IsModel
  <2> QED BY <2>1
<1>12. ASSUME NEW k \in DOMAIN u.session, u.session[k].client = c PROVE FALSE
  BY <1>10, <1>12 DEF ModelInv, ClientsFit
<1>13. ASSUME OnlyOf(u, c)
       PROVE  v.cores[c].pumps = 0 /\ v.cores[c].posted = {} /\ QueueInOrder(v.cores[c])
  <2>1. u.cores[c].pumps = 0 /\ u.cores[c].posted \ {e} = {} BY <1>13 DEF ModelInv, OneListener
  <2>2. QueueInOrder(u.cores[c]) BY <1>13 DEF ModelInv, InOrder
  <2>3. QueueInOrder(v.cores[c]) BY <1>2, <2>2 DEF QueueInOrder
  <2> QED BY <1>2, <2>1, <2>3
<1>14. v.cores[c].st = u.cores[c].st /\ v.wait = u.wait BY <1>2 DEF Touches
<1>16. ModelInv(v, 0)
  <2>1. DueFits(u, 0, 0, c) BY DEF DueFits
  <2>2. ListenersFit(u, v.cores[c], c, 0) BY <1>9, <1>10, <1>12, <1>13, <1>14 DEF ListenersFit
  <2>3. EmitsFit(u, v, c) BY <1>2, <1>13 DEF EmitsFit
  <2> QED BY <1>2, <2>1, <2>2, <2>3, TouchedCore
<1> QED BY <1>2, <1>14, <1>16

\* What the interface keeps of no client: changes that say nothing of rooms and cores.
Aside(u, v) ==
  /\ HasParts(v) /\ v.session = u.session /\ v.order = u.order /\ v.active = u.active /\ v.shown = u.shown
  /\ v.lostOnClose = u.lostOnClose /\ v.cores = u.cores /\ v.wait = u.wait /\ v.run = u.run

\* A step aside keeps the invariant.
LEMMA AsideKeeps ==
  ASSUME NEW u, NEW x, ModelInv(u, x), NEW v, Aside(u, v)
  PROVE  ModelInv(v, x)
<1>1. /\ HasParts(v) /\ v.session = u.session /\ v.order = u.order /\ v.active = u.active /\ v.shown = u.shown
      /\ v.lostOnClose = u.lostOnClose /\ v.cores = u.cores /\ v.wait = u.wait /\ v.run = u.run
  BY DEF Aside
<1>2. \A c : (LastOf(v, c) <=> LastOf(u, c)) /\ (OnlyOf(v, c) <=> OnlyOf(u, c)) /\ (Held(v, c) <=> Held(u, c))
  BY <1>1 DEF LastOf, OnlyOf, Held
<1>3. IsModel(v) /\ Places(v) /\ Waits(v) BY <1>1 DEF ModelInv, IsModel, Places, Waits
<1>4. ClientsFit(v) /\ DialsFit(v) BY <1>1, <1>2 DEF ModelInv, ClientsFit, DialsFit
<1>5. HeldOrLeft(v) /\ Told(v) BY <1>1, <1>2 DEF ModelInv, HeldOrLeft, Told
<1>6. Unheard(v, x) /\ Heard(v, x) BY <1>1 DEF ModelInv, Unheard, Heard
<1>7. OneListener(v, x) /\ InOrder(v) BY <1>1, <1>2 DEF ModelInv, OneListener, InOrder
<1> QED BY <1>3, <1>4, <1>5, <1>6, <1>7 DEF ModelInv

\* A dial's client comes to its room; its listener is due.
Landed(u, c, n) == [u EXCEPT !.cores[c].st = "live", !.session[n].client = c, !.session[n].connected = TRUE]

\* What a room is when its dial landed.
LEMMA LandedIs ==
  ASSUME NEW u, IsModel(u), NEW c \in DOMAIN u.cores, NEW n \in DOMAIN u.session, NEW v, v = Landed(u, c, n)
  PROVE  /\ IsModel(v) /\ DOMAIN v.cores = DOMAIN u.cores /\ v.cores[c].st = "live"
         /\ \A d \in DOMAIN u.cores : LET a == u.cores[d] b == v.cores[d] IN
              /\ b.room = a.room /\ b.left = a.left /\ b.pumps = a.pumps /\ b.posted = a.posted
              /\ b.lost = a.lost /\ b.q = a.q /\ b.made = a.made /\ (d # c => b.st = a.st)
         /\ DOMAIN v.session = DOMAIN u.session /\ v.session[n].client = c /\ v.session[n].lines = u.session[n].lines
         /\ \A k \in DOMAIN u.session : k # n => v.session[k] = u.session[k]
         /\ v.order = u.order /\ v.active = u.active /\ v.shown = u.shown
         /\ v.lostOnClose = u.lostOnClose /\ v.wait = u.wait /\ v.relisten = u.relisten /\ v.run = u.run
<1>1. PICK a : a = u.cores[c] OBVIOUS
<1>2. PICK b : b = [a EXCEPT !.st = "live"] OBVIOUS
<1>3. PICK r : r = u.session[n] OBVIOUS
<1>4. PICK s : s = [r EXCEPT !.client = c, !.connected = TRUE] OBVIOUS
<1>5. IsCore(a) /\ r \in RoomRecords /\ c \in Nat BY <1>1, <1>3, SeqOfFacts DEF IsModel
<1>6. /\ IsCore(b) /\ b.st = "live" /\ b.room = a.room /\ b.left = a.left /\ b.pumps = a.pumps /\ b.posted = a.posted
      /\ b.lost = a.lost /\ b.q = a.q /\ b.made = a.made
  BY <1>2, <1>5 DEF IsCore, CoreStates
<1>7. s \in RoomRecords /\ s.client = c /\ s.lines = r.lines BY <1>4, <1>5 DEF RoomRecords
<1>8. PICK w : w = [u EXCEPT !.cores[c] = b] OBVIOUS
<1>9. /\ IsModel(w) /\ DOMAIN w.cores = DOMAIN u.cores /\ w.cores[c] = b
      /\ \A d \in DOMAIN u.cores : d # c => w.cores[d] = u.cores[d]
      /\ w.session = u.session /\ w.order = u.order /\ w.active = u.active /\ w.shown = u.shown
      /\ w.lostOnClose = u.lostOnClose /\ w.wait = u.wait /\ w.relisten = u.relisten /\ w.run = u.run
  BY <1>6, <1>8, CoreUpdated
<1>10. PICK z : z = [w EXCEPT !.session[n] = s] OBVIOUS
<1>11. v = z
  <2>1. w = [u EXCEPT !.cores[c].st = "live"] BY <1>1, <1>2, <1>8 DEF IsModel, HasParts, IsCore
  <2>2. z = [w EXCEPT !.session[n].client = c, !.session[n].connected = TRUE]
    BY <1>3, <1>4, <1>9, <1>10 DEF IsModel, HasParts, RoomRecords
  <2> QED BY <2>1, <2>2 DEF Landed, IsModel, HasParts
<1>12. /\ IsModel(z) /\ DOMAIN z.session = DOMAIN w.session /\ z.session[n] = s
       /\ \A d \in DOMAIN w.session : d # n => z.session[d] = w.session[d]
       /\ z.cores = w.cores /\ z.order = w.order /\ z.active = w.active /\ z.shown = w.shown
       /\ z.lostOnClose = w.lostOnClose /\ z.wait = w.wait /\ z.relisten = w.relisten /\ z.run = w.run
  BY <1>7, <1>9, <1>10, RoomUpdated
<1>13. \A d \in DOMAIN u.cores : LET x == u.cores[d] y == z.cores[d] IN
              /\ y.room = x.room /\ y.left = x.left /\ y.pumps = x.pumps /\ y.posted = x.posted
              /\ y.lost = x.lost /\ y.q = x.q /\ y.made = x.made /\ (d # c => y.st = x.st)
  BY <1>1, <1>6, <1>9, <1>12
<1> QED BY <1>3, <1>6, <1>7, <1>9, <1>11, <1>12, <1>13

\* The room takes the client, and its first listener is due.
LEMMA LandKeeps ==
  ASSUME NEW u, ModelInv(u, 0), u.run = "up", NEW c \in DOMAIN u.cores, u.cores[c].st = "landed",
         NEW n \in DOMAIN u.session, n = u.cores[c].room, NEW v, v = Landed(u, c, n)
  PROVE  ModelInv(v, c) /\ v.relisten = u.relisten /\ v.wait = u.wait /\ DOMAIN v.cores = DOMAIN u.cores
<1>0. IsModel(u) /\ \A d \in DOMAIN u.cores : d \in Nat /\ d # 0 BY SeqOfFacts DEF ModelInv, IsModel
<1>1. /\ IsModel(v) /\ DOMAIN v.cores = DOMAIN u.cores /\ v.cores[c].st = "live"
      /\ DOMAIN v.session = DOMAIN u.session /\ v.session[n].client = c /\ v.session[n].lines = u.session[n].lines
      /\ \A k \in DOMAIN u.session : k # n => v.session[k] = u.session[k]
      /\ v.order = u.order /\ v.active = u.active /\ v.shown = u.shown
      /\ v.lostOnClose = u.lostOnClose /\ v.wait = u.wait /\ v.relisten = u.relisten /\ v.run = u.run
  BY <1>0, LandedIs
<1>2. \A d \in DOMAIN u.cores : LET a == u.cores[d] b == v.cores[d] IN
        /\ b.room = a.room /\ b.left = a.left /\ b.pumps = a.pumps /\ b.posted = a.posted
        /\ b.lost = a.lost /\ b.q = a.q /\ b.made = a.made /\ (d # c => b.st = a.st)
  BY <1>0, LandedIs
<1>3. \A d \in DOMAIN u.cores : (LastOf(v, d) <=> LastOf(u, d)) /\ (OnlyOf(v, d) <=> OnlyOf(u, d))
  BY <1>1, <1>2, SameRooms
<1>15. DOMAIN v.cores = DOMAIN u.cores /\ DOMAIN v.session = DOMAIN u.session /\ v.run = u.run BY <1>1
<1>16. \A d \in DOMAIN u.cores : v.cores[d].room = u.cores[d].room /\ v.cores[d].left = u.cores[d].left BY <1>2
<1>4. Places(v) /\ Waits(v) BY <1>1 DEF ModelInv, Places, Waits
<1>5. u.cores[c].left \/ LastOf(u, c) BY DEF ModelInv, DialsFit, Unanswered
<1>6. ASSUME NEW k \in DOMAIN u.session, k # n, u.session[k].client # 0
      PROVE  u.session[k].client # c /\ u.session[k].client \in DOMAIN u.cores
  BY <1>6 DEF ModelInv, ClientsFit
<1>7. ClientsFit(v)
  <2>1. /\ c \in DOMAIN v.cores /\ v.cores[c].room = n /\ v.cores[c].st \in {"live", "dead"}
        /\ v.cores[c].left \/ LastOf(v, c)
    BY <1>1, <1>2, <1>3, <1>5
  <2>2. ASSUME NEW k \in DOMAIN u.session, k # n, v.session[k].client # 0
        PROVE  /\ v.session[k].client \in DOMAIN v.cores /\ v.cores[v.session[k].client].room = k
               /\ v.cores[v.session[k].client].st \in {"live", "dead"}
               /\ v.cores[v.session[k].client].left \/ LastOf(v, v.session[k].client)
    <3>1. PICK d : d = v.session[k].client OBVIOUS
    <3>2. d = u.session[k].client /\ d # c /\ d \in DOMAIN u.cores BY <1>1, <1>6, <2>2, <3>1
    <3>3. u.cores[d].room = k /\ u.cores[d].st \in {"live", "dead"} /\ (u.cores[d].left \/ LastOf(u, d))
      BY <2>2, <3>1, <3>2 DEF ModelInv, ClientsFit
    <3>4. d \in DOMAIN v.cores /\ v.cores[d].room = k /\ v.cores[d].st \in {"live", "dead"} /\ (v.cores[d].left \/ LastOf(v, d))
      BY <1>2, <1>3, <1>15, <3>2, <3>3
    <3> QED BY <3>1, <3>4
  <2>3. v.session[n].client = c BY <1>1
  <2>4. ASSUME NEW k \in DOMAIN v.session, v.session[k].client # 0
        PROVE  /\ v.session[k].client \in DOMAIN v.cores /\ v.cores[v.session[k].client].room = k
               /\ v.cores[v.session[k].client].st \in {"live", "dead"}
               /\ v.cores[v.session[k].client].left \/ LastOf(v, v.session[k].client)
    <3>1. CASE k = n BY <2>1, <2>3, <3>1, Zenon
    <3>2. CASE k # n BY <1>15, <2>2, <2>4, <3>2, Zenon
    <3> QED BY <3>1, <3>2
  <2> QED BY <2>4, Zenon DEF ClientsFit
<1>8. DialsFit(v)
  <2>1. \A d \in DOMAIN u.cores : Unanswered(v.cores[d]) => Unanswered(u.cores[d]) BY <1>1, <1>2 DEF Unanswered
  <2> QED BY <1>3, <1>15, <1>16, <2>1 DEF ModelInv, DialsFit
<1>9. HeldOrLeft(v)
  <2>1. ASSUME NEW d \in DOMAIN u.cores, Settled(v.cores[d]), ~Held(v, d)
        PROVE  \E e, f \in DOMAIN u.cores :
                 e < f /\ u.cores[e].room = u.cores[d].room /\ u.cores[f].room = u.cores[d].room /\ u.cores[e].left
    <3>1. d # c BY <1>1, <2>1 DEF Held
    <3>2. Settled(u.cores[d]) BY <1>2, <2>1, <3>1 DEF Settled
    <3>3. CASE ~Held(u, d) BY <3>2, <3>3 DEF ModelInv, HeldOrLeft
    <3>4. CASE Held(u, d)
      <4>1. PICK k \in DOMAIN u.session : u.session[k].client = d BY <3>4 DEF Held
      <4>2. k = n BY <1>1, <2>1, <4>1 DEF Held
      <4>3. u.cores[d].room = n /\ (u.cores[d].left \/ LastOf(u, d)) BY <1>0, <4>1, <4>2 DEF ModelInv, ClientsFit
      <4>4. CASE u.cores[c].left
        <5>1. ~LastOf(u, c) BY <4>4 DEF ModelInv, DialsFit
        <5>2. PICK f \in DOMAIN u.cores : u.cores[f].room = n /\ ~(f <= c) BY <5>1 DEF LastOf
        <5>3. c < f BY <1>0, <5>2
        <5> QED BY <4>3, <4>4, <5>2, <5>3
      <4>5. CASE ~u.cores[c].left
        <5>1. d <= c BY <1>5, <4>3, <4>5 DEF LastOf
        <5>2. d < c BY <1>0, <3>1, <5>1
        <5>3. ~LastOf(u, d) BY <1>0, <4>3, <5>2 DEF LastOf
        <5> QED BY <4>3, <5>2, <5>3
      <4> QED BY <4>4, <4>5
    <3> QED BY <3>3, <3>4
  <2>2. ASSUME NEW d \in DOMAIN v.cores, Settled(v.cores[d]), ~Held(v, d)
        PROVE  \E e, f \in DOMAIN v.cores :
                 e < f /\ v.cores[e].room = v.cores[d].room /\ v.cores[f].room = v.cores[d].room /\ v.cores[e].left
    <3>1. d \in DOMAIN u.cores BY <1>15
    <3>2. PICK e, f \in DOMAIN u.cores :
            e < f /\ u.cores[e].room = u.cores[d].room /\ u.cores[f].room = u.cores[d].room /\ u.cores[e].left
      BY <2>1, <2>2, <3>1
    <3>3. /\ e \in DOMAIN v.cores /\ f \in DOMAIN v.cores /\ v.cores[d].room = u.cores[d].room
          /\ v.cores[e].room = u.cores[e].room /\ v.cores[f].room = u.cores[f].room /\ v.cores[e].left = u.cores[e].left
      BY <1>15, <1>16, <3>1
    <3> QED BY <3>2, <3>3
  <2>3. ASSUME NEW d \in DOMAIN v.cores, Settled(v.cores[d])
        PROVE  Held(v, d) \/ \E e, f \in DOMAIN v.cores :
                 e < f /\ v.cores[e].room = v.cores[d].room /\ v.cores[f].room = v.cores[d].room /\ v.cores[e].left
    BY <2>2, <2>3
  <2> QED BY <2>3 DEF HeldOrLeft
<1>10. Told(v) BY <1>1, <1>2 DEF ModelInv, Told
<1>11. Unheard(v, c)
  <2> SUFFICES ASSUME NEW d \in DOMAIN u.cores, v.cores[d].st \in {"dialing", "landed", "refused", "none"}
               PROVE  v.cores[d].pumps = 0 /\ v.cores[d].posted = {} /\ c # d
    BY <1>15 DEF Unheard
  <2>1. c # d BY <1>1
  <2>2. u.cores[d].pumps = 0 /\ u.cores[d].posted = {} BY <1>2, <2>1 DEF ModelInv, Unheard
  <2> QED BY <1>2, <2>1, <2>2
<1>12. Heard(v, c)
  <2> SUFFICES ASSUME NEW k \in DOMAIN u.session, NEW d, d = v.session[k].client, d # 0, d # c, v.cores[d].st = "live"
               PROVE  v.cores[d].pumps > 0 \/ v.cores[d].posted # {}
    BY <1>1 DEF Heard
  <2>1. k # n BY <1>1
  <2>2. d = u.session[k].client /\ d \in DOMAIN u.cores BY <1>1, <1>6, <2>1
  <2>3. u.cores[d].pumps > 0 \/ u.cores[d].posted # {}
    <3>1. u.cores[d].st = "live" BY <1>2, <2>2
    <3>2. Heard(u, 0) BY DEF ModelInv
    <3> QED BY <2>2, <3>1, <3>2 DEF Heard
  <2> QED BY <1>2, <2>2, <2>3
<1>13. OneListener(v, c)
  <2> SUFFICES ASSUME NEW d \in DOMAIN u.cores, OnlyOf(u, d)
               PROVE  /\ v.cores[d].pumps <= 1
                      /\ \A e, f \in v.cores[d].posted : e = f
                      /\ v.cores[d].posted # {} => v.cores[d].pumps = 0
                      /\ c = d => v.cores[d].pumps = 0 /\ v.cores[d].posted = {}
    BY <1>1, <1>3 DEF OneListener
  <2>1. /\ u.cores[d].pumps <= 1
        /\ \A e, f \in u.cores[d].posted : e = f
        /\ u.cores[d].posted # {} => u.cores[d].pumps = 0
    BY DEF ModelInv, OneListener
  <2>2. u.cores[c].pumps = 0 /\ u.cores[c].posted = {} BY DEF ModelInv, Unheard
  <2> QED BY <1>2, <2>1, <2>2
<1>14. InOrder(v)
  <2> SUFFICES ASSUME NEW d \in DOMAIN u.cores, OnlyOf(u, d)
               PROVE  /\ QueueInOrder(v.cores[d])
                      /\ u.cores[d].room \in DOMAIN u.session => LinesInOrder(v.session[u.cores[d].room].lines, v.cores[d])
    BY <1>3, <1>15, <1>16 DEF InOrder
  <2>1. /\ QueueInOrder(u.cores[d])
        /\ u.cores[d].room \in DOMAIN u.session => LinesInOrder(u.session[u.cores[d].room].lines, u.cores[d])
    BY DEF ModelInv, InOrder
  <2>2. v.cores[d].posted = u.cores[d].posted /\ v.cores[d].q = u.cores[d].q /\ v.cores[d].made = u.cores[d].made
    BY <1>2
  <2>3. QueueInOrder(v.cores[d]) BY <2>1, <2>2 DEF QueueInOrder
  <2>4. \A k \in DOMAIN u.session : v.session[k].lines = u.session[k].lines BY <1>1
  <2> QED BY <2>1, <2>2, <2>3, <2>4 DEF LinesInOrder
<1> QED BY <1>1, <1>4, <1>7, <1>8, <1>9, <1>10, <1>11, <1>12, <1>13, <1>14 DEF ModelInv

------------------------------------------------------------------------------
(* Opening a room, leaving one, quitting. *)

\* A room is opened: a new dial.
Opened(u, name, activate) ==
  [u EXCEPT !.session = [n \in DOMAIN u.session \cup {name} |-> IF n = name THEN newRoom ELSE u.session[n]],
            !.order = Append(@, name), !.active = IF activate THEN name ELSE @, !.cores = Append(@, newCore(name))]

\* What a model is with a room opened.
LEMMA OpenedIs ==
  ASSUME NEW u, IsModel(u), IsSeqOf(u.order), NEW name, name \notin DOMAIN u.session, NEW activate \in BOOLEAN,
         NEW v, v = Opened(u, name, activate)
  PROVE  LET N == Len(u.cores) + 1 IN
         /\ IsModel(v) /\ N \in Nat /\ N # 0 /\ N \notin DOMAIN u.cores
         /\ DOMAIN v.cores = DOMAIN u.cores \cup {N} /\ v.cores[N] = newCore(name)
         /\ \A d \in DOMAIN u.cores : v.cores[d] = u.cores[d] /\ d < N /\ d \in Nat
         /\ DOMAIN v.session = DOMAIN u.session \cup {name} /\ v.session[name] = newRoom
         /\ \A k \in DOMAIN u.session : v.session[k] = u.session[k]
         /\ v.order = Append(u.order, name) /\ v.active = (IF activate THEN name ELSE u.active)
         /\ v.shown = u.shown /\ v.lostOnClose = u.lostOnClose /\ v.wait = u.wait /\ v.relisten = u.relisten
         /\ v.run = u.run
<1>1. PICK fs : fs = [n \in DOMAIN u.session \cup {name} |-> IF n = name THEN newRoom ELSE u.session[n]] OBVIOUS
<1>2. PICK fo, fc, fa : fo = Append(u.order, name) /\ fc = Append(u.cores, newCore(name))
                        /\ fa = (IF activate THEN name ELSE u.active) OBVIOUS
<1>3. HasParts(u) BY DEF IsModel
<1>4. v = [u EXCEPT !.session = fs, !.order = fo, !.active = fa, !.cores = fc] BY <1>1, <1>2, <1>3 DEF Opened, HasParts
<1>5. /\ HasParts(v) /\ v.session = fs /\ v.order = fo /\ v.active = fa /\ v.cores = fc
      /\ v.shown = u.shown /\ v.lostOnClose = u.lostOnClose /\ v.wait = u.wait /\ v.relisten = u.relisten
      /\ v.run = u.run
  BY <1>3, <1>4 DEF HasParts
<1>6. /\ IsSeqOf(fc) /\ Len(u.cores) \in Nat /\ DOMAIN u.cores = 1..Len(u.cores) /\ Len(u.cores) + 1 \notin DOMAIN u.cores
      /\ DOMAIN fc = DOMAIN u.cores \cup {Len(u.cores) + 1}
      /\ \A i \in DOMAIN u.cores : fc[i] = u.cores[i] /\ i < Len(u.cores) + 1
      /\ fc[Len(u.cores) + 1] = newCore(name)
  BY <1>2, SeqOfAppend DEF IsModel
<1>7. IsCore(newCore(name)) BY DEF IsCore, newCore, CoreStates, Clocks
<1>8. newRoom \in RoomRecords BY DEF newRoom, RoomRecords
<1>9. /\ DOMAIN fs = DOMAIN u.session \cup {name} /\ fs[name] = newRoom
      /\ \A k \in DOMAIN u.session : fs[k] = u.session[k]
  BY <1>1
<1>10. fs \in [DOMAIN fs -> RoomRecords]
  <2>1. \A k \in DOMAIN fs : fs[k] \in RoomRecords BY <1>8, <1>9 DEF IsModel
  <2> QED BY <1>1, <1>9, <2>1
<1>11. \A c \in DOMAIN fc : IsCore(fc[c]) BY <1>6, <1>7 DEF IsModel
<1>12. IsModel(v) BY <1>5, <1>6, <1>10, <1>11 DEF IsModel
<1>13. Len(u.cores) + 1 \in Nat /\ Len(u.cores) + 1 # 0 /\ \A d \in DOMAIN u.cores : d \in Nat BY <1>6
<1> QED BY <1>2, <1>5, <1>6, <1>9, <1>12, <1>13

\* The new dial is the room's last.
LEMMA OpenKeeps ==
  ASSUME NEW u, NEW x, ModelInv(u, x), u.run = "up", NEW name, name \notin DOMAIN u.session, NEW activate \in BOOLEAN,
         NEW v, v = Opened(u, name, activate)
  PROVE  /\ ModelInv(v, x) /\ v.run = u.run /\ v.wait = u.wait /\ v.relisten = u.relisten
         /\ DOMAIN v.session = DOMAIN u.session \cup {name} /\ \A k \in DOMAIN u.session : v.session[k] = u.session[k]
<1> DEFINE N == Len(u.cores) + 1
<1>0. IsModel(u) /\ IsSeqOf(u.order) BY DEF ModelInv, Places
<1>1. /\ IsModel(v) /\ N \in Nat /\ N # 0 /\ N \notin DOMAIN u.cores
      /\ DOMAIN v.cores = DOMAIN u.cores \cup {N} /\ v.cores[N] = newCore(name)
      /\ \A d \in DOMAIN u.cores : v.cores[d] = u.cores[d] /\ d < N /\ d \in Nat
  BY <1>0, OpenedIs
<1>2. /\ DOMAIN v.session = DOMAIN u.session \cup {name} /\ v.session[name] = newRoom
      /\ \A k \in DOMAIN u.session : v.session[k] = u.session[k]
      /\ v.order = Append(u.order, name) /\ v.active = (IF activate THEN name ELSE u.active)
      /\ v.shown = u.shown /\ v.lostOnClose = u.lostOnClose /\ v.wait = u.wait /\ v.relisten = u.relisten
      /\ v.run = u.run
  BY <1>0, OpenedIs
<1> HIDE DEF N
<1>3. PICK k : k = newCore(name) OBVIOUS
<1>4. /\ k.room = name /\ k.st = "dialing" /\ k.left = FALSE /\ k.q = <<>> /\ k.made = 0 /\ k.pumps = 0 /\ k.posted = {}
      /\ k.lost = FALSE /\ v.cores[N] = k
  BY <1>1, <1>3 DEF newCore
<1>5. newRoom.client = 0 /\ newRoom.lines = <<>> BY DEF newRoom
<1>6. ASSUME NEW d \in DOMAIN u.cores, u.cores[d].room # name
      PROVE  (LastOf(v, d) <=> LastOf(u, d)) /\ (OnlyOf(v, d) <=> OnlyOf(u, d))
  BY <1>1, <1>4, <1>6 DEF LastOf, OnlyOf
<1>7. ASSUME NEW d \in DOMAIN u.cores, u.cores[d].room = name
      PROVE  ~LastOf(v, d) /\ ~OnlyOf(v, d)
  <2>1. N \in DOMAIN v.cores /\ d < N /\ d \in Nat /\ v.cores[N].room = v.cores[d].room BY <1>1, <1>4, <1>7
  <2>2. ~(N <= d) /\ N # d BY <1>1, <2>1
  <2> QED BY <2>1, <2>2 DEF LastOf, OnlyOf
<1>8. \A d \in DOMAIN u.cores : ~LastOf(u, d) => ~LastOf(v, d) BY <1>6, <1>7
<1>9. LastOf(v, N) BY <1>1 DEF LastOf
<1>10. Places(v)
  <2>1. /\ IsSeqOf(v.order) /\ DOMAIN v.order = DOMAIN u.order \cup {Len(u.order) + 1}
        /\ \A i \in DOMAIN u.order : v.order[i] = u.order[i]
        /\ v.order[Len(u.order) + 1] = name
    BY <1>0, <1>2, SeqOfAppend
  <2>2. /\ \A i \in DOMAIN u.order : u.order[i] \in DOMAIN u.session
        /\ \A n \in DOMAIN u.session : \E i \in DOMAIN u.order : u.order[i] = n
        /\ \A i, j \in DOMAIN u.order : u.order[i] = u.order[j] => i = j
        /\ \E i \in DOMAIN u.order : u.order[i] = u.active
    BY DEF ModelInv, Places
  <2>3. \A i \in DOMAIN v.order : v.order[i] \in DOMAIN v.session BY <1>2, <2>1, <2>2
  <2>4. \A i, j \in DOMAIN v.order : v.order[i] = v.order[j] => i = j BY <2>1, <2>2
  <2>5. \E i \in DOMAIN v.order : v.order[i] = v.active
    <3>1. v.active = name \/ v.active = u.active BY <1>2
    <3> QED BY <2>1, <2>2, <3>1
  <2>6. \A n \in DOMAIN v.session : \E i \in DOMAIN v.order : v.order[i] = n BY <1>2, <2>1, <2>2
  <2> QED BY <2>1, <2>3, <2>4, <2>5, <2>6 DEF Places
<1>11. Waits(v) BY <1>1, <1>2 DEF ModelInv, Waits
<1>12. ClientsFit(v)
  <2>1. ASSUME NEW n \in DOMAIN v.session, v.session[n].client # 0
        PROVE  /\ v.session[n].client \in DOMAIN v.cores /\ v.cores[v.session[n].client].room = n
               /\ v.cores[v.session[n].client].st \in {"live", "dead"}
               /\ v.cores[v.session[n].client].left \/ LastOf(v, v.session[n].client)
    <3>1. n \in DOMAIN u.session /\ n # name BY <1>2, <1>5, <2>1
    <3>2. PICK d : d = v.session[n].client OBVIOUS
    <3>3. d = u.session[n].client BY <1>2, <3>1, <3>2
    <3>4. d \in DOMAIN u.cores /\ u.cores[d].room = n /\ u.cores[d].st \in {"live", "dead"} /\ (u.cores[d].left \/ LastOf(u, d))
      BY <2>1, <3>1, <3>2, <3>3 DEF ModelInv, ClientsFit
    <3>5. d \in DOMAIN v.cores /\ v.cores[d] = u.cores[d] /\ (LastOf(v, d) <=> LastOf(u, d)) BY <1>1, <1>6, <3>1, <3>4
    <3> QED BY <3>2, <3>4, <3>5
  <2> QED BY <2>1, Zenon DEF ClientsFit
<1>13. DialsFit(v)
  <2>1. ASSUME NEW c \in DOMAIN v.cores
        PROVE  /\ Unanswered(v.cores[c]) /\ ~v.cores[c].left => v.cores[c].room \in DOMAIN v.session /\ LastOf(v, c)
               /\ v.cores[c].left /\ v.cores[c].room \in DOMAIN v.session => ~LastOf(v, c)
    <3>1. CASE c = N BY <1>2, <1>4, <1>9, <3>1
    <3>2. CASE c \in DOMAIN u.cores
      <4>1. v.cores[c] = u.cores[c] BY <1>1, <3>2
      <4>2. /\ Unanswered(u.cores[c]) /\ ~u.cores[c].left => u.cores[c].room \in DOMAIN u.session /\ LastOf(u, c)
            /\ u.cores[c].left /\ u.cores[c].room \in DOMAIN u.session => ~LastOf(u, c)
        BY <3>2 DEF ModelInv, DialsFit
      <4>3. CASE u.cores[c].room = name BY <1>7, <3>2, <4>1, <4>2, <4>3
      <4>4. CASE u.cores[c].room # name BY <1>2, <1>6, <3>2, <4>1, <4>2, <4>4
      <4> QED BY <4>3, <4>4
    <3> QED BY <1>1, <3>1, <3>2
  <2> QED BY <2>1 DEF DialsFit
<1>14. HeldOrLeft(v)
  <2>1. ASSUME NEW c \in DOMAIN v.cores, Settled(v.cores[c]), ~Held(v, c)
        PROVE  \E d, e \in DOMAIN v.cores :
                 d < e /\ v.cores[d].room = v.cores[c].room /\ v.cores[e].room = v.cores[c].room /\ v.cores[d].left
    <3>1. c \in DOMAIN u.cores /\ v.cores[c] = u.cores[c] BY <1>1, <1>4, <2>1 DEF Settled
    <3>2. ~Held(u, c) BY <1>2, <2>1 DEF Held
    <3>3. PICK d, e \in DOMAIN u.cores : d < e /\ u.cores[d].room = u.cores[c].room /\ u.cores[e].room = u.cores[c].room /\ u.cores[d].left
      BY <2>1, <3>1, <3>2 DEF ModelInv, HeldOrLeft
    <3> QED BY <1>1, <3>1, <3>3
  <2> QED BY <2>1 DEF HeldOrLeft
<1>15. Told(v)
  <2> SUFFICES ASSUME NEW c \in DOMAIN v.cores, v.cores[c].lost PROVE c \in v.shown BY DEF Told
  <2>1. c \in DOMAIN u.cores /\ u.cores[c].lost BY <1>1, <1>4
  <2> QED BY <1>2, <2>1 DEF ModelInv, Told
<1>16. x # N BY <1>1 DEF ModelInv, Unheard
<1>17. Unheard(v, x)
  <2> SUFFICES ASSUME NEW c \in DOMAIN v.cores, v.cores[c].st \in {"dialing", "landed", "refused", "none"}
               PROVE  v.cores[c].pumps = 0 /\ v.cores[c].posted = {} /\ x # c
    BY <1>1 DEF ModelInv, Unheard
  <2>1. CASE c = N BY <1>4, <1>16, <2>1
  <2>2. CASE c \in DOMAIN u.cores BY <1>1, <2>2 DEF ModelInv, Unheard
  <2> QED BY <1>1, <2>1, <2>2
<1>18. Heard(v, x)
  <2> SUFFICES ASSUME NEW n \in DOMAIN v.session, NEW c, c = v.session[n].client, c # 0, v.cores[c].st = "live"
               PROVE  v.cores[c].pumps > 0 \/ v.cores[c].posted # {} \/ x = c
    BY DEF Heard
  <2>1. n \in DOMAIN u.session /\ c = u.session[n].client BY <1>2, <1>5
  <2>2. c \in DOMAIN u.cores BY <2>1 DEF ModelInv, ClientsFit
  <2>3. v.cores[c] = u.cores[c] BY <1>1, <2>2
  <2> QED BY <2>1, <2>3 DEF ModelInv, Heard
<1>19. OneListener(v, x)
  <2> SUFFICES ASSUME NEW c \in DOMAIN v.cores, OnlyOf(v, c)
               PROVE  /\ v.cores[c].pumps <= 1
                      /\ \A e, f \in v.cores[c].posted : e = f
                      /\ v.cores[c].posted # {} => v.cores[c].pumps = 0
                      /\ x = c => v.cores[c].pumps = 0 /\ v.cores[c].posted = {}
    BY DEF OneListener
  <2>1. CASE c = N BY <1>4, <2>1
  <2>2. CASE c \in DOMAIN u.cores
    <3>1. OnlyOf(u, c) BY <1>6, <1>7, <2>2
    <3>2. v.cores[c] = u.cores[c] BY <1>1, <2>2
    <3> QED BY <2>2, <3>1, <3>2 DEF ModelInv, OneListener
  <2> QED BY <1>1, <2>1, <2>2
<1>20. InOrder(v)
  <2> SUFFICES ASSUME NEW c \in DOMAIN v.cores, OnlyOf(v, c)
               PROVE  /\ QueueInOrder(v.cores[c])
                      /\ v.cores[c].room \in DOMAIN v.session => LinesInOrder(v.session[v.cores[c].room].lines, v.cores[c])
    BY DEF InOrder
  <2>1. CASE c = N
    <3>1. QueueInOrder(k) BY <1>4 DEF QueueInOrder
    <3>2. LinesInOrder(<<>>, k) BY DEF LinesInOrder
    <3>3. v.session[name].lines = <<>> BY <1>2, <1>5
    <3> QED BY <1>4, <2>1, <3>1, <3>2, <3>3
  <2>2. CASE c \in DOMAIN u.cores
    <3>1. OnlyOf(u, c) /\ u.cores[c].room # name BY <1>6, <1>7, <2>2
    <3>2. v.cores[c] = u.cores[c] BY <1>1, <2>2
    <3> QED BY <1>2, <2>2, <3>1, <3>2 DEF ModelInv, InOrder
  <2> QED BY <1>1, <2>1, <2>2
<1> QED BY <1>1, <1>2, <1>10, <1>11, <1>12, <1>13, <1>14, <1>15, <1>17, <1>18, <1>19, <1>20 DEF ModelInv

------------------------------------------------------------------------------
\* The order without a room of it.
LEMMA RemovedIs ==
  ASSUME NEW s, IsSeqOf(s), \A i, j \in DOMAIN s : s[i] = s[j] => i = j, NEW p \in DOMAIN s, NEW t, t = RemoveFirst(s, s[p])
  PROVE  /\ IsSeqOf(t)
         /\ \A i \in DOMAIN t : \E j \in DOMAIN s : j # p /\ t[i] = s[j]
         /\ \A j \in DOMAIN s : j # p => \E i \in DOMAIN t : t[i] = s[j]
         /\ \A i, j \in DOMAIN t : t[i] = t[j] => i = j
         /\ t # <<>> => 1 \in DOMAIN t
<1> DEFINE S == {s[i] : i \in DOMAIN s}
<1>1. s \in Seq(S) /\ Len(s) \in Nat /\ DOMAIN s = 1..Len(s) BY SeqOfFacts DEF IsSeqOf
<1> HIDE DEF S
<1>2. {i \in 1..Len(s) : s[i] = s[p]} = {p} BY <1>1
<1>3. Min({p}) = p BY <1>1 DEF Min
<1>4. t = SubSeq(s, 1, p - 1) \o SubSeq(s, p + 1, Len(s))
  <2>1. \E i \in 1..Len(s) : s[i] = s[p] BY <1>1
  <2>2. t = RemoveAt(s, Min({i \in 1..Len(s) : s[i] = s[p]})) BY <1>2, <2>1 DEF RemoveFirst, SelectInSeq
  <2>3. t = RemoveAt(s, p) BY <1>2, <1>3, <2>2
  <2> QED BY <2>3 DEF RemoveAt
<1>5. PICK a, b : a = SubSeq(s, 1, p - 1) /\ b = SubSeq(s, p + 1, Len(s)) OBVIOUS
<1>6. p \in Nat /\ 1 <= p /\ p <= Len(s) BY <1>1
<1>7. a \in Seq(S) /\ Len(a) = p - 1 /\ \A i \in 1..(p - 1) : a[i] = s[i] BY <1>1, <1>5, <1>6
<1>8. b \in Seq(S) /\ Len(b) = Len(s) - p /\ \A i \in 1..(Len(s) - p) : b[i] = s[p + i] BY <1>1, <1>5, <1>6
<1>9. t \in Seq(S) /\ Len(t) = Len(s) - 1
  <2>2. t = a \o b /\ a \in Seq(S) /\ b \in Seq(S) BY <1>4, <1>5, <1>7, <1>8
  <2>3. a \o b \in Seq(S) /\ Len(a \o b) = Len(a) + Len(b) BY <2>2
  <2>1. t \in Seq(S) /\ Len(t) = Len(a) + Len(b) BY <2>2, <2>3, Zenon
  <2> QED BY <1>1, <1>6, <1>7, <1>8, <2>1
<1>10. \A i \in 1..(Len(s) - 1) : t[i] = IF i < p THEN s[i] ELSE s[i + 1]
  <2> SUFFICES ASSUME NEW i \in 1..(Len(s) - 1) PROVE t[i] = IF i < p THEN s[i] ELSE s[i + 1] OBVIOUS
  <2>1. t = a \o b BY <1>4, <1>5
  <2>2. CASE i < p BY <1>1, <1>6, <1>7, <1>8, <2>1, <2>2
  <2>3. CASE ~(i < p)
    <3>4. i \in 1..(Len(a) + Len(b)) /\ i > Len(a) BY <1>1, <1>6, <1>7, <1>8, <2>3
    <3>5. a \in Seq(S) /\ b \in Seq(S) BY <1>7, <1>8
    <3>6. (a \o b)[i] = b[i - Len(a)] BY <3>4, <3>5
    <3>1. t[i] = b[i - Len(a)] BY <2>1, <3>6
    <3>2. i - Len(a) \in 1..(Len(s) - p) /\ p + (i - Len(a)) = i + 1 BY <1>1, <1>6, <1>7, <2>3
    <3>3. b[i - Len(a)] = s[p + (i - Len(a))] BY <1>8, <3>2
    <3> QED BY <2>3, <3>1, <3>2, <3>3
  <2> QED BY <2>2, <2>3
<1>11. Len(s) - 1 \in Nat /\ DOMAIN t = 1..(Len(s) - 1)
  <2>1. DOMAIN t = 1..Len(t) BY <1>9
  <2>2. Len(s) - 1 \in Nat BY <1>1, <1>6
  <2>3. DOMAIN t = 1..(Len(s) - 1) BY <1>9, <2>1, Zenon
  <2> QED BY <2>2, <2>3
<1>12. IsSeqOf(t)
  <2>1. t = [i \in 1..(Len(s) - 1) |-> t[i]] BY <1>9, <1>11
  <2> QED BY <1>11, <2>1, SeqOfMade
<1>13. \A i \in DOMAIN t : \E j \in DOMAIN s : j # p /\ t[i] = s[j] /\ j = IF i < p THEN i ELSE i + 1
  BY <1>1, <1>6, <1>10, <1>11
<1>14. \A i, j \in DOMAIN t : t[i] = t[j] => i = j
  <2> SUFFICES ASSUME NEW i \in DOMAIN t, NEW j \in DOMAIN t, t[i] = t[j] PROVE i = j OBVIOUS
  <2>1. PICK f \in DOMAIN s : t[i] = s[f] /\ f = IF i < p THEN i ELSE i + 1 BY <1>13
  <2>2. PICK g \in DOMAIN s : t[j] = s[g] /\ g = IF j < p THEN j ELSE j + 1 BY <1>13
  <2>3. f = g BY <2>1, <2>2
  <2> QED BY <1>6, <1>11, <2>1, <2>2, <2>3
<1>15. t # <<>> => 1 \in DOMAIN t BY <1>9, <1>11
<1>16. ASSUME NEW j \in DOMAIN s, j # p PROVE \E i \in DOMAIN t : t[i] = s[j]
  <2>1. CASE j < p BY <1>1, <1>6, <1>10, <1>11, <2>1
  <2>2. CASE ~(j < p)
    <3>1. j - 1 \in DOMAIN t /\ ~(j - 1 < p) /\ j - 1 + 1 = j BY <1>1, <1>6, <1>11, <1>16, <2>2
    <3> QED BY <1>10, <1>11, <3>1
  <2> QED BY <2>1, <2>2
<1> QED BY <1>12, <1>13, <1>14, <1>15, <1>16

\* A client is closed.
ClosedCore(a, lost) == [a EXCEPT !.st = "closed", !.lost = lost /\ a.asked]

\* What a core is when closed.
LEMMA ClosedCoreIs ==
  ASSUME NEW a, IsCore(a), NEW lost \in BOOLEAN
  PROVE  LET b == ClosedCore(a, lost) IN
         /\ IsCore(b) /\ b.room = a.room /\ b.pumps = a.pumps /\ b.posted = a.posted /\ b.q = a.q /\ b.made = a.made
         /\ b.left = a.left /\ b.st = "closed"
<1>1. PICK ls : ls = (lost /\ a.asked) OBVIOUS
<1>2. ls \in BOOLEAN BY <1>1
<1>3. PICK b : b = [a EXCEPT !.st = "closed", !.lost = ls] OBVIOUS
<1>4. /\ IsCore(b) /\ b.room = a.room /\ b.pumps = a.pumps /\ b.posted = a.posted /\ b.q = a.q /\ b.made = a.made
      /\ b.left = a.left /\ b.st = "closed"
  BY <1>2, <1>3 DEF IsCore, CoreStates
<1>5. ClosedCore(a, lost) = b BY <1>1, <1>3 DEF ClosedCore
<1> QED BY <1>4, <1>5

\* What a model is with a room's client closed.
LEMMA CloseLossIs ==
  ASSUME NEW u, IsModel(u), NEW c, c = 0 \/ c \in DOMAIN u.cores, NEW lost \in BOOLEAN
  PROVE  LET v == closeLoss(u, c, lost) IN
         /\ HasParts(v) /\ DOMAIN v.cores = DOMAIN u.cores
         /\ \A d \in DOMAIN u.cores : v.cores[d] = IF d = c THEN ClosedCore(u.cores[d], lost) ELSE u.cores[d]
         /\ v.session = u.session /\ v.order = u.order /\ v.active = u.active /\ v.shown = u.shown
         /\ v.lostOnClose = u.lostOnClose /\ v.wait = u.wait /\ v.relisten = u.relisten /\ v.run = u.run
<1>0. PICK v : v = closeLoss(u, c, lost) OBVIOUS
<1>1. HasParts(u) /\ \A d \in DOMAIN u.cores : d # 0 BY SeqOfFacts DEF IsModel
<1>2. CASE c = 0 BY <1>1, <1>2 DEF closeLoss
<1>3. CASE c \in DOMAIN u.cores
  <2>1. PICK b : b = ClosedCore(u.cores[c], lost) OBVIOUS
  <2>2. IsCore(u.cores[c]) BY <1>3 DEF IsModel
  <2>3. IsCore(b) BY <2>1, <2>2, ClosedCoreIs
  <2>4. v = [u EXCEPT !.cores[c] = b]
    <3>1. PICK a, l : a = u.cores[c] /\ l = (lost /\ u.cores[c].asked) OBVIOUS
    <3>2. PICK v1 : v1 = [u EXCEPT !.cores[c].st = "closed"] OBVIOUS
    <3>3. PICK b1 : b1 = [a EXCEPT !.st = "closed"] OBVIOUS
    <3>4. v1 = [u EXCEPT !.cores = [u.cores EXCEPT ![c] = b1]] /\ v1.cores[c] = b1
      BY <1>1, <1>3, <3>1, <3>2, <3>3 DEF HasParts
    <3>5. b = [b1 EXCEPT !.lost = l] BY <2>1, <3>1, <3>3 DEF ClosedCore
    <3>6. v = [v1 EXCEPT !.cores[c].lost = l] BY <1>0, <1>1, <1>3, <3>1, <3>2 DEF closeLoss
    <3>7. [v1 EXCEPT !.cores[c].lost = l] = [u EXCEPT !.cores[c] = b]
      BY <1>1, <1>3, <3>4, <3>5 DEF HasParts
    <3> QED BY <3>6, <3>7
  <2>5. /\ DOMAIN v.cores = DOMAIN u.cores /\ v.cores[c] = b /\ IsModel(v)
        /\ \A d \in DOMAIN u.cores : d # c => v.cores[d] = u.cores[d]
        /\ v.session = u.session /\ v.order = u.order /\ v.active = u.active /\ v.shown = u.shown
        /\ v.lostOnClose = u.lostOnClose /\ v.wait = u.wait /\ v.relisten = u.relisten /\ v.run = u.run
    BY <1>3, <2>3, <2>4, CoreUpdated
  <2> QED BY <1>0, <2>1, <2>5 DEF IsModel
<1> QED BY <1>2, <1>3

\* A room is left: its client is closed, and the dials still out for it are marked.
LeftCore(u, d, c, name, lost) == LET b == IF d = c THEN ClosedCore(u.cores[d], lost) ELSE u.cores[d] IN
  [b EXCEPT !.left = @ \/ (u.cores[d].room = name /\ Unanswered(u.cores[d]))]

\* What a core is when a room is left.
LEMMA LeftCoreIs ==
  ASSUME NEW u, NEW d, IsCore(u.cores[d]), NEW c, NEW name, NEW lost \in BOOLEAN
  PROVE  LET a == u.cores[d] z == LeftCore(u, d, c, name, lost) IN
         /\ IsCore(z) /\ z.room = a.room /\ z.pumps = a.pumps /\ z.posted = a.posted /\ z.q = a.q /\ z.made = a.made
         /\ d = c => z.st = "closed" /\ z.lost = ClosedCore(a, lost).lost
         /\ d # c => z.st = a.st /\ z.lost = a.lost
         /\ a.left => z.left
         /\ a.room # name => z.left = a.left
         /\ a.room = name /\ Unanswered(a) => z.left
<1>1. PICK a : a = u.cores[d] OBVIOUS
<1>2. IsCore(a) BY <1>1
<1>3. PICK b : b = IF d = c THEN ClosedCore(a, lost) ELSE a OBVIOUS
<1>4. /\ IsCore(b) /\ b.room = a.room /\ b.pumps = a.pumps /\ b.posted = a.posted /\ b.q = a.q /\ b.made = a.made
      /\ b.left = a.left
      /\ d = c => b.st = "closed" /\ b.lost = ClosedCore(a, lost).lost
      /\ d # c => b.st = a.st /\ b.lost = a.lost
  BY <1>2, <1>3, ClosedCoreIs
<1>5. PICK lf : lf = (b.left \/ (a.room = name /\ Unanswered(a))) OBVIOUS
<1>6. lf \in BOOLEAN BY <1>4, <1>5 DEF IsCore, Unanswered
<1>7. PICK z : z = [b EXCEPT !.left = lf] OBVIOUS
<1>8. /\ IsCore(z) /\ z.room = b.room /\ z.pumps = b.pumps /\ z.posted = b.posted /\ z.q = b.q /\ z.made = b.made
      /\ z.st = b.st /\ z.lost = b.lost /\ z.left = lf
  BY <1>4, <1>6, <1>7 DEF IsCore
<1>9. LeftCore(u, d, c, name, lost) = z BY <1>1, <1>3, <1>4, <1>5, <1>7 DEF LeftCore, IsCore
<1>10. /\ z.room = a.room /\ z.pumps = a.pumps /\ z.posted = a.posted /\ z.q = a.q /\ z.made = a.made
       /\ d = c => z.st = "closed" /\ z.lost = ClosedCore(a, lost).lost
       /\ d # c => z.st = a.st /\ z.lost = a.lost
  BY <1>4, <1>8
<1>11. /\ a.left => z.left
       /\ a.room # name => z.left = a.left
       /\ a.room = name /\ Unanswered(a) => z.left
  <2>1. a.left \in BOOLEAN BY <1>2 DEF IsCore
  <2> QED BY <1>4, <1>5, <1>8, <2>1
<1> QED BY <1>1, <1>8, <1>9, <1>10, <1>11

\* leaveRoom, in two steps.
GoneOf(u, closed, name) ==
  [closed EXCEPT !.session = [n \in DOMAIN u.session \ {name} |-> u.session[n]],
                 !.order = RemoveFirst(@, name),
                 !.cores = [i \in DOMAIN u.cores |->
                   [closed.cores[i] EXCEPT !.left = @ \/ (u.cores[i].room = name /\ Unanswered(u.cores[i]))]]]

\* What leaving does last: quit with the last room, or go to the first of the others.
LeftOf(gone, rep, name) ==
  IF gone.order = <<>>
  THEN [gone EXCEPT !.lostOnClose = @ \cup rep, !.run = "quit"]
  ELSE [gone EXCEPT !.active = IF @ = name THEN gone.order[1] ELSE @, !.shown = @ \cup rep]

\* leaveRoom in these terms.
LEMMA LeaveIs ==
  ASSUME NEW u, NEW name, NEW lost
  PROVE  LET c == u.session[name].client
             closed == closeLoss(u, c, lost)
         IN leaveRoom(u, name, lost) = LeftOf(GoneOf(u, closed, name), Reported(closed, c), name)
BY Zenon DEF leaveRoom, GoneOf, LeftOf

\* What a model is with a room left.
LEMMA LeftIs ==
  ASSUME NEW u, IsModel(u), NEW name \in DOMAIN u.session, NEW c, c = u.session[name].client, c = 0 \/ c \in DOMAIN u.cores,
         NEW lost \in BOOLEAN, NEW v, v = leaveRoom(u, name, lost), NEW rep, rep = Reported(closeLoss(u, c, lost), c)
  PROVE  /\ IsModel(v) /\ DOMAIN v.cores = DOMAIN u.cores
         /\ \A d \in DOMAIN u.cores : v.cores[d] = LeftCore(u, d, c, name, lost)
         /\ DOMAIN v.session = DOMAIN u.session \ {name}
         /\ \A k \in DOMAIN v.session : v.session[k] = u.session[k]
         /\ v.order = RemoveFirst(u.order, name) /\ v.wait = u.wait /\ v.relisten = u.relisten
         /\ v.order = <<>> => v.run = "quit" /\ v.shown = u.shown /\ v.lostOnClose = u.lostOnClose \cup rep
         /\ v.order # <<>> => /\ v.run = u.run /\ v.active = (IF u.active = name THEN v.order[1] ELSE u.active)
                              /\ v.shown = u.shown \cup rep
         /\ c # 0 /\ v.cores[c].lost => c \in rep
<1>1. PICK closed : closed = closeLoss(u, c, lost) OBVIOUS
<1>2. /\ HasParts(closed) /\ DOMAIN closed.cores = DOMAIN u.cores
      /\ closed.session = u.session /\ closed.order = u.order /\ closed.active = u.active /\ closed.shown = u.shown
      /\ closed.lostOnClose = u.lostOnClose /\ closed.wait = u.wait /\ closed.relisten = u.relisten /\ closed.run = u.run
  <2>1. HasParts(closed) /\ DOMAIN closed.cores = DOMAIN u.cores BY <1>1, CloseLossIs
  <2>2. closed.session = u.session /\ closed.order = u.order /\ closed.active = u.active /\ closed.shown = u.shown
    BY <1>1, CloseLossIs
  <2>3. closed.lostOnClose = u.lostOnClose /\ closed.wait = u.wait /\ closed.relisten = u.relisten /\ closed.run = u.run
    BY <1>1, CloseLossIs
  <2> QED BY <2>1, <2>2, <2>3
<1>3. \A d \in DOMAIN u.cores : closed.cores[d] = IF d = c THEN ClosedCore(u.cores[d], lost) ELSE u.cores[d]
  BY <1>1, CloseLossIs
<1>4. PICK fs : fs = [n \in DOMAIN u.session \ {name} |-> u.session[n]] OBVIOUS
<1>5. PICK fo : fo = RemoveFirst(u.order, name) OBVIOUS
<1>6. PICK fc : fc = [i \in DOMAIN u.cores |-> LeftCore(u, i, c, name, lost)] OBVIOUS
<1>7. PICK gone : gone = [closed EXCEPT !.session = fs, !.order = fo, !.cores = fc] OBVIOUS
<1>8. [i \in DOMAIN u.cores |->
         [closed.cores[i] EXCEPT !.left = @ \/ (u.cores[i].room = name /\ Unanswered(u.cores[i]))]] = fc
  BY <1>3, <1>6 DEF LeftCore
<1>9. v = LeftOf(gone, rep, name)
  <2>1. gone = GoneOf(u, closed, name) BY <1>2, <1>4, <1>5, <1>7, <1>8 DEF GoneOf
  <2> QED BY <1>1, <2>1, LeaveIs
<1>10. /\ HasParts(gone) /\ gone.session = fs /\ gone.order = fo /\ gone.cores = fc /\ gone.active = u.active
       /\ gone.shown = u.shown /\ gone.lostOnClose = u.lostOnClose /\ gone.wait = u.wait /\ gone.relisten = u.relisten
       /\ gone.run = u.run
  BY <1>2, <1>7 DEF HasParts
<1>11. /\ HasParts(v) /\ v.session = fs /\ v.order = fo /\ v.cores = fc /\ v.wait = u.wait /\ v.relisten = u.relisten
       /\ fo = <<>> => v.run = "quit" /\ v.shown = u.shown /\ v.lostOnClose = u.lostOnClose \cup rep
       /\ fo # <<>> => /\ v.run = u.run /\ v.active = (IF u.active = name THEN fo[1] ELSE u.active)
                       /\ v.shown = u.shown \cup rep
  <2>1. CASE fo = <<>>
    <3>1. v = [gone EXCEPT !.lostOnClose = u.lostOnClose \cup rep, !.run = "quit"] BY <1>9, <1>10, <2>1 DEF LeftOf
    <3> QED BY <1>10, <2>1, <3>1 DEF HasParts
  <2>2. CASE fo # <<>>
    <3>1. PICK at : at = IF u.active = name THEN fo[1] ELSE u.active OBVIOUS
    <3>2. v = [gone EXCEPT !.active = at, !.shown = u.shown \cup rep] BY <1>9, <1>10, <2>2, <3>1 DEF LeftOf
    <3>3. /\ HasParts(v) /\ v.session = fs /\ v.order = fo /\ v.cores = fc /\ v.wait = u.wait /\ v.relisten = u.relisten
          /\ v.run = u.run /\ v.active = at /\ v.shown = u.shown \cup rep
      BY <1>10, <3>2 DEF HasParts
    <3> QED BY <2>2, <3>1, <3>3
  <2> QED BY <2>1, <2>2
<1>12. DOMAIN fs = DOMAIN u.session \ {name} /\ \A k \in DOMAIN fs : fs[k] = u.session[k] BY <1>4
<1>13. fs \in [DOMAIN fs -> RoomRecords]
  <2>1. \A k \in DOMAIN fs : fs[k] \in RoomRecords BY <1>12 DEF IsModel
  <2> QED BY <1>4, <1>12, <2>1
<1>14. DOMAIN fc = DOMAIN u.cores /\ \A d \in DOMAIN u.cores : fc[d] = LeftCore(u, d, c, name, lost) BY <1>6
<1>15. \A d \in DOMAIN u.cores : IsCore(fc[d]) BY <1>14, LeftCoreIs DEF IsModel
<1>16. IsSeqOf(fc)
  <2>1. fc = [i \in DOMAIN u.cores |-> fc[i]] BY <1>6
  <2> QED BY <1>14, <2>1, SeqOfChanged DEF IsModel
<1>17. IsModel(v) BY <1>11, <1>13, <1>14, <1>15, <1>16 DEF IsModel
<1>18. ASSUME c # 0, v.cores[c].lost PROVE c \in rep
  <2>1. c \in DOMAIN u.cores /\ IsCore(u.cores[c]) BY <1>18 DEF IsModel
  <2>2. v.cores[c].lost = ClosedCore(u.cores[c], lost).lost BY <1>11, <1>14, <2>1, LeftCoreIs
  <2>3. closed.cores[c].lost BY <1>3, <1>18, <2>1, <2>2
  <2> QED BY <1>1, <1>18, <2>3 DEF Reported
<1> QED BY <1>5, <1>11, <1>12, <1>14, <1>17, <1>18

\* A dial that is out says that it was left, and the loss is told.
LEMMA LeaveKeeps ==
  ASSUME NEW u, ModelInv(u, 0), u.run = "up", u.wait = <<>>, NEW lost \in BOOLEAN, NEW v, v = leaveRoom(u, u.active, lost)
  PROVE  ModelInv(v, 0) /\ v.relisten = u.relisten
<1>0. IsModel(u) /\ \A d \in DOMAIN u.cores : d \in Nat /\ d # 0 /\ IsCore(u.cores[d]) BY SeqOfFacts DEF ModelInv, IsModel
<1>1. PICK p \in DOMAIN u.order : u.order[p] = u.active BY DEF ModelInv, Places
<1>2. PICK name : name = u.active OBVIOUS
<1>3. name \in DOMAIN u.session /\ u.order[p] = name BY <1>1, <1>2 DEF ModelInv, Places
<1>4. PICK c : c = u.session[name].client OBVIOUS
<1>5. c = 0 \/ (c \in DOMAIN u.cores /\ u.cores[c].room = name) BY <1>3, <1>4 DEF ModelInv, ClientsFit
<1>6. PICK rep : rep = Reported(closeLoss(u, c, lost), c) OBVIOUS
<1>7. /\ IsModel(v) /\ DOMAIN v.cores = DOMAIN u.cores
      /\ \A d \in DOMAIN u.cores : v.cores[d] = LeftCore(u, d, c, name, lost)
      /\ DOMAIN v.session = DOMAIN u.session \ {name}
      /\ \A k \in DOMAIN v.session : v.session[k] = u.session[k]
      /\ v.order = RemoveFirst(u.order, name) /\ v.wait = u.wait /\ v.relisten = u.relisten
      /\ v.order = <<>> => v.run = "quit" /\ v.shown = u.shown /\ v.lostOnClose = u.lostOnClose \cup rep
      /\ v.order # <<>> => /\ v.run = u.run /\ v.active = (IF u.active = name THEN v.order[1] ELSE u.active)
                           /\ v.shown = u.shown \cup rep
      /\ c # 0 /\ v.cores[c].lost => c \in rep
  <2>1. v = leaveRoom(u, name, lost) /\ (c = 0 \/ c \in DOMAIN u.cores) BY <1>2, <1>5
  <2> QED BY <1>0, <1>3, <1>4, <1>6, <2>1, LeftIs
<1>8. \A d \in DOMAIN u.cores : LET a == u.cores[d] z == v.cores[d] IN
        /\ z.room = a.room /\ z.pumps = a.pumps /\ z.posted = a.posted /\ z.q = a.q /\ z.made = a.made
        /\ d = c => z.st = "closed"
        /\ d # c => z.st = a.st /\ z.lost = a.lost
        /\ a.left => z.left
        /\ a.room # name => z.left = a.left
        /\ a.room = name /\ Unanswered(a) => z.left
  BY <1>0, <1>7, LeftCoreIs
<1>9. DOMAIN v.cores = DOMAIN u.cores /\ DOMAIN v.session = DOMAIN u.session \ {name}
      /\ \A k \in DOMAIN v.session : v.session[k] = u.session[k] /\ k \in DOMAIN u.session /\ k # name
  BY <1>7
<1>10. \A d \in DOMAIN u.cores : v.cores[d].room = u.cores[d].room BY <1>8
<1>11. \A d \in DOMAIN u.cores : (LastOf(v, d) <=> LastOf(u, d)) /\ (OnlyOf(v, d) <=> OnlyOf(u, d))
  BY <1>9, <1>10, SameRooms
<1>12. Places(v)
  <2>1. IsSeqOf(u.order) /\ \A i, j \in DOMAIN u.order : u.order[i] = u.order[j] => i = j BY DEF ModelInv, Places
  <2>2. \A i \in DOMAIN u.order : u.order[i] \in DOMAIN u.session BY DEF ModelInv, Places
  <2>3. /\ IsSeqOf(v.order)
        /\ \A i \in DOMAIN v.order : \E j \in DOMAIN u.order : j # p /\ v.order[i] = u.order[j]
        /\ \A j \in DOMAIN u.order : j # p => \E i \in DOMAIN v.order : v.order[i] = u.order[j]
        /\ \A i, j \in DOMAIN v.order : v.order[i] = v.order[j] => i = j
        /\ v.order # <<>> => 1 \in DOMAIN v.order
    BY <1>3, <1>7, <2>1, RemovedIs
  <2>4. \A i \in DOMAIN v.order : v.order[i] \in DOMAIN v.session BY <1>3, <1>9, <2>1, <2>2, <2>3
  <2>5. v.run = "up" => \E i \in DOMAIN v.order : v.order[i] = v.active BY <1>2, <1>7, <2>3
  <2>6. \A n \in DOMAIN v.session : \E i \in DOMAIN v.order : v.order[i] = n
    <3> SUFFICES ASSUME NEW n \in DOMAIN v.session PROVE \E i \in DOMAIN v.order : v.order[i] = n OBVIOUS
    <3>1. n \in DOMAIN u.session /\ n # name BY <1>9
    <3>2. PICK j \in DOMAIN u.order : u.order[j] = n BY <3>1 DEF ModelInv, Places
    <3> QED BY <1>3, <2>3, <3>1, <3>2
  <2> QED BY <2>3, <2>4, <2>5, <2>6 DEF Places
<1>13. Waits(v) BY <1>7 DEF Waits
<1>14. ASSUME NEW k \in DOMAIN v.session, NEW d, d = v.session[k].client, d # 0
       PROVE  /\ d \in DOMAIN u.cores /\ d # c /\ d = u.session[k].client /\ u.cores[d].room = k /\ k # name
              /\ v.cores[d].st = u.cores[d].st /\ v.cores[d].left = u.cores[d].left
  <2>1. k \in DOMAIN u.session /\ k # name /\ d = u.session[k].client BY <1>9, <1>14
  <2>2. d \in DOMAIN u.cores /\ u.cores[d].room = k BY <1>14, <2>1 DEF ModelInv, ClientsFit
  <2>3. d # c BY <1>0, <1>5, <2>1, <2>2
  <2> QED BY <1>8, <2>1, <2>2, <2>3
<1>15. ClientsFit(v)
  <2>1. ASSUME NEW n \in DOMAIN v.session, v.session[n].client # 0
        PROVE  /\ v.session[n].client \in DOMAIN v.cores /\ v.cores[v.session[n].client].room = n
               /\ v.cores[v.session[n].client].st \in {"live", "dead"}
               /\ v.cores[v.session[n].client].left \/ LastOf(v, v.session[n].client)
    <3>1. PICK d : d = v.session[n].client OBVIOUS
    <3>2. /\ d \in DOMAIN u.cores /\ d = u.session[n].client /\ u.cores[d].room = n
          /\ v.cores[d].st = u.cores[d].st /\ v.cores[d].left = u.cores[d].left
      BY <1>14, <2>1, <3>1
    <3>3. n \in DOMAIN u.session /\ d # 0 BY <1>9, <2>1, <3>1
    <3>4. u.cores[d].st \in {"live", "dead"} /\ (u.cores[d].left \/ LastOf(u, d)) BY <3>2, <3>3 DEF ModelInv, ClientsFit
    <3> QED BY <1>9, <1>10, <1>11, <3>1, <3>2, <3>4
  <2> QED BY <2>1, Zenon DEF ClientsFit
<1>16. DialsFit(v)
  <2>1. ASSUME NEW d \in DOMAIN u.cores
        PROVE  /\ Unanswered(v.cores[d]) /\ ~v.cores[d].left => v.cores[d].room \in DOMAIN v.session /\ LastOf(v, d)
               /\ v.cores[d].left /\ v.cores[d].room \in DOMAIN v.session => ~LastOf(v, d)
    <3>1. Unanswered(v.cores[d]) => Unanswered(u.cores[d]) BY <1>8 DEF Unanswered
    <3>2. /\ Unanswered(u.cores[d]) /\ ~u.cores[d].left => u.cores[d].room \in DOMAIN u.session /\ LastOf(u, d)
          /\ u.cores[d].left /\ u.cores[d].room \in DOMAIN u.session => ~LastOf(u, d)
      BY DEF ModelInv, DialsFit
    <3>3. CASE u.cores[d].room = name BY <1>8, <1>9, <1>10, <3>1, <3>3
    <3>4. CASE u.cores[d].room # name
      <4>1. v.cores[d].left = u.cores[d].left BY <1>8, <3>4
      <4> QED BY <1>9, <1>10, <1>11, <3>1, <3>2, <3>4, <4>1
    <3> QED BY <3>3, <3>4
  <2> QED BY <1>9, <2>1 DEF DialsFit
<1>17. HeldOrLeft(v)
  <2>1. ASSUME NEW d \in DOMAIN u.cores, Settled(v.cores[d]), ~Held(v, d)
        PROVE  \E e, f \in DOMAIN v.cores :
                 e < f /\ v.cores[e].room = v.cores[d].room /\ v.cores[f].room = v.cores[d].room /\ v.cores[e].left
    <3>1. d # c BY <1>8, <2>1 DEF Settled
    <3>2. Settled(u.cores[d]) BY <1>8, <2>1, <3>1 DEF Settled
    <3>3. ~Held(u, d) BY <1>4, <1>9, <2>1, <3>1 DEF Held
    <3>4. PICK e, f \in DOMAIN u.cores : e < f /\ u.cores[e].room = u.cores[d].room /\ u.cores[f].room = u.cores[d].room /\ u.cores[e].left
      BY <3>2, <3>3 DEF ModelInv, HeldOrLeft
    <3>5. v.cores[e].left BY <1>8, <3>4
    <3> QED BY <1>9, <1>10, <3>4, <3>5
  <2> QED BY <1>9, <2>1 DEF HeldOrLeft
<1>18. Told(v)
  <2> SUFFICES ASSUME NEW d \in DOMAIN u.cores, v.cores[d].lost
               PROVE  d \in v.shown \/ (d \in v.lostOnClose /\ v.run = "quit")
    BY <1>9 DEF Told
  <2>1. CASE d = c
    <3>1. c \in rep BY <1>0, <1>7, <2>1
    <3> QED BY <1>7, <2>1, <3>1
  <2>2. CASE d # c
    <3>1. u.cores[d].lost BY <1>8, <2>2
    <3>2. d \in u.shown BY <3>1 DEF ModelInv, Told
    <3> QED BY <1>7, <3>2
  <2> QED BY <2>1, <2>2
<1>19. Unheard(v, 0)
  <2> SUFFICES ASSUME NEW d \in DOMAIN u.cores, v.cores[d].st \in {"dialing", "landed", "refused", "none"}
               PROVE  v.cores[d].pumps = 0 /\ v.cores[d].posted = {} /\ 0 # d
    BY <1>9 DEF Unheard
  <2>1. u.cores[d].st \in {"dialing", "landed", "refused", "none"} BY <1>8
  <2>2. u.cores[d].pumps = 0 /\ u.cores[d].posted = {} BY <2>1 DEF ModelInv, Unheard
  <2> QED BY <1>0, <1>8, <2>2
<1>20. Heard(v, 0)
  <2> SUFFICES ASSUME NEW k \in DOMAIN v.session, NEW d, d = v.session[k].client, d # 0, v.cores[d].st = "live"
               PROVE  v.cores[d].pumps > 0 \/ v.cores[d].posted # {}
    BY DEF Heard
  <2>1. d \in DOMAIN u.cores /\ d = u.session[k].client /\ u.cores[d].st = "live" BY <1>14
  <2>2. k \in DOMAIN u.session BY <1>9
  <2>3. u.cores[d].pumps > 0 \/ u.cores[d].posted # {} BY <1>0, <2>1, <2>2 DEF ModelInv, Heard
  <2> QED BY <1>8, <2>1, <2>3
<1>21. OneListener(v, 0)
  <2> SUFFICES ASSUME NEW d \in DOMAIN u.cores, OnlyOf(u, d)
               PROVE  /\ v.cores[d].pumps <= 1
                      /\ \A e, f \in v.cores[d].posted : e = f
                      /\ v.cores[d].posted # {} => v.cores[d].pumps = 0
    BY <1>0, <1>9, <1>11 DEF OneListener
  <2>1. /\ u.cores[d].pumps <= 1
        /\ \A e, f \in u.cores[d].posted : e = f
        /\ u.cores[d].posted # {} => u.cores[d].pumps = 0
    BY DEF ModelInv, OneListener
  <2> QED BY <1>8, <2>1
<1>22. InOrder(v)
  <2> SUFFICES ASSUME NEW d \in DOMAIN u.cores, OnlyOf(u, d)
               PROVE  /\ QueueInOrder(v.cores[d])
                      /\ u.cores[d].room \in DOMAIN v.session => LinesInOrder(v.session[u.cores[d].room].lines, v.cores[d])
    BY <1>9, <1>10, <1>11 DEF InOrder
  <2>1. /\ QueueInOrder(u.cores[d])
        /\ u.cores[d].room \in DOMAIN u.session => LinesInOrder(u.session[u.cores[d].room].lines, u.cores[d])
    BY DEF ModelInv, InOrder
  <2>2. v.cores[d].posted = u.cores[d].posted /\ v.cores[d].q = u.cores[d].q /\ v.cores[d].made = u.cores[d].made
    BY <1>8
  <2>3. QueueInOrder(v.cores[d]) BY <2>1, <2>2 DEF QueueInOrder
  <2>4. \A k \in DOMAIN v.session : v.session[k] = u.session[k] /\ k \in DOMAIN u.session BY <1>9
  <2> QED BY <2>1, <2>2, <2>3, <2>4 DEF LinesInOrder
<1> QED BY <1>7, <1>12, <1>13, <1>15, <1>16, <1>17, <1>18, <1>19, <1>20, <1>21, <1>22 DEF ModelInv

\* The program ends: every room's client is closed.
HeldBy(u) == {u.session[n].client : n \in DOMAIN u.session} \ {0}

\* Every client closed, and the end of the program.
AllClosed(u, lost) ==
  [u EXCEPT !.cores = [i \in DOMAIN u.cores |->
    IF i \in HeldBy(u) THEN [u.cores[i] EXCEPT !.st = "closed", !.lost = lost /\ u.cores[i].asked] ELSE u.cores[i]]]
QuitWith(closed, reports) == [closed EXCEPT !.lostOnClose = @ \cup reports, !.run = "quit"]

\* closeAll in these terms.
LEMMA CloseAllIs ==
  ASSUME NEW u, NEW lost
  PROVE  LET closed == AllClosed(u, lost) IN
         closeAll(u, lost) = QuitWith(closed, UNION {Reported(closed, c) : c \in HeldBy(u)})
BY Zenon DEF closeAll, HeldBy, AllClosed, QuitWith

\* What a model is with every client closed.
LEMMA QuitIs ==
  ASSUME NEW u, IsModel(u), NEW lost \in BOOLEAN, NEW v, v = closeAll(u, lost)
  PROVE  /\ IsModel(v) /\ DOMAIN v.cores = DOMAIN u.cores
         /\ \A d \in DOMAIN u.cores : v.cores[d] = IF d \in HeldBy(u) THEN ClosedCore(u.cores[d], lost) ELSE u.cores[d]
         /\ v.session = u.session /\ v.order = u.order /\ v.shown = u.shown
         /\ v.wait = u.wait /\ v.relisten = u.relisten /\ v.run = "quit"
         /\ \A c \in HeldBy(u) : v.cores[c].lost => c \in v.lostOnClose
<1>1. PICK closed : closed = AllClosed(u, lost) OBVIOUS
<1>2. PICK reps : reps = UNION {Reported(closed, c) : c \in HeldBy(u)} OBVIOUS
<1>3. v = QuitWith(closed, reps) BY <1>1, <1>2, CloseAllIs
<1>4. HasParts(u) BY DEF IsModel
<1>5. PICK fc : fc = [i \in DOMAIN u.cores |-> IF i \in HeldBy(u) THEN ClosedCore(u.cores[i], lost) ELSE u.cores[i]] OBVIOUS
<1>6. closed = [u EXCEPT !.cores = fc] BY <1>1, <1>5 DEF AllClosed, ClosedCore
<1>7. /\ HasParts(closed) /\ closed.cores = fc /\ closed.session = u.session /\ closed.order = u.order /\ closed.shown = u.shown
      /\ closed.lostOnClose = u.lostOnClose /\ closed.wait = u.wait /\ closed.relisten = u.relisten
  BY <1>4, <1>6 DEF HasParts
<1>8. /\ HasParts(v) /\ v.cores = fc /\ v.session = u.session /\ v.order = u.order /\ v.shown = u.shown
      /\ v.wait = u.wait /\ v.relisten = u.relisten /\ v.run = "quit" /\ v.lostOnClose = u.lostOnClose \cup reps
  BY <1>3, <1>7 DEF HasParts, QuitWith
<1>9. /\ DOMAIN fc = DOMAIN u.cores
      /\ \A d \in DOMAIN u.cores : fc[d] = IF d \in HeldBy(u) THEN ClosedCore(u.cores[d], lost) ELSE u.cores[d]
  BY <1>5
<1>10. \A d \in DOMAIN u.cores : IsCore(fc[d]) BY <1>9, ClosedCoreIs DEF IsModel
<1>11. IsSeqOf(fc)
  <2>1. fc = [i \in DOMAIN u.cores |-> fc[i]] BY <1>5
  <2> QED BY <1>9, <2>1, SeqOfChanged DEF IsModel
<1>12. IsModel(v) BY <1>8, <1>9, <1>10, <1>11 DEF IsModel
<1>13. ASSUME NEW c \in HeldBy(u), v.cores[c].lost PROVE c \in v.lostOnClose
  <2>1. c # 0 /\ closed.cores[c].lost BY <1>7, <1>8, <1>13 DEF HeldBy
  <2>2. c \in Reported(closed, c) BY <2>1 DEF Reported
  <2>3. c \in reps BY <1>2, <2>2
  <2> QED BY <1>8, <2>3
<1> QED BY <1>8, <1>9, <1>12, <1>13

\* Every loss is put by for Run to tell.
LEMMA QuitKeeps ==
  ASSUME NEW u, ModelInv(u, 0), u.run = "up", u.wait = <<>>, NEW lost \in BOOLEAN, NEW v, v = closeAll(u, lost)
  PROVE  ModelInv(v, 0) /\ v.relisten = u.relisten /\ v.wait = <<>>
<1>0. IsModel(u) /\ \A d \in DOMAIN u.cores : d \in Nat /\ d # 0 /\ IsCore(u.cores[d]) BY SeqOfFacts DEF ModelInv, IsModel
<1>1. /\ IsModel(v) /\ DOMAIN v.cores = DOMAIN u.cores
      /\ v.session = u.session /\ v.order = u.order /\ v.shown = u.shown
      /\ v.wait = u.wait /\ v.relisten = u.relisten /\ v.run = "quit"
      /\ \A c \in HeldBy(u) : v.cores[c].lost => c \in v.lostOnClose
  BY <1>0, QuitIs
<1>2. \A d \in DOMAIN u.cores : v.cores[d] = IF d \in HeldBy(u) THEN ClosedCore(u.cores[d], lost) ELSE u.cores[d]
  BY <1>0, QuitIs
<1>3. \A d \in DOMAIN u.cores : LET a == u.cores[d] b == v.cores[d] IN
        /\ b.room = a.room /\ b.pumps = a.pumps /\ b.posted = a.posted /\ b.q = a.q /\ b.made = a.made /\ b.left = a.left
        /\ d \in HeldBy(u) => b.st = "closed"
        /\ d \notin HeldBy(u) => b.st = a.st /\ b.lost = a.lost
  BY <1>0, <1>2, ClosedCoreIs
<1>4. DOMAIN v.cores = DOMAIN u.cores /\ v.session = u.session /\ v.run = "quit" BY <1>1
<1>5. \A d \in DOMAIN u.cores : v.cores[d].room = u.cores[d].room /\ v.cores[d].left = u.cores[d].left BY <1>3
<1>6. \A d \in DOMAIN u.cores : (LastOf(v, d) <=> LastOf(u, d)) /\ (OnlyOf(v, d) <=> OnlyOf(u, d))
  BY <1>4, <1>5, SameRooms
<1>7. \A d \in DOMAIN u.cores : d \in HeldBy(u) <=> Held(u, d) BY <1>0 DEF HeldBy, Held
<1>8. Places(v) /\ Waits(v) BY <1>1 DEF ModelInv, Places, Waits
<1>9. ClientsFit(v)
  <2>1. ASSUME NEW n \in DOMAIN v.session, v.session[n].client # 0
        PROVE  /\ v.session[n].client \in DOMAIN v.cores /\ v.cores[v.session[n].client].room = n
               /\ v.run # "up" /\ v.cores[v.session[n].client].st = "closed"
               /\ v.cores[v.session[n].client].left \/ LastOf(v, v.session[n].client)
    <3>1. PICK d : d = v.session[n].client OBVIOUS
    <3>2. n \in DOMAIN u.session /\ d = u.session[n].client /\ d # 0 BY <1>4, <2>1, <3>1
    <3>3. d \in DOMAIN u.cores /\ u.cores[d].room = n /\ (u.cores[d].left \/ LastOf(u, d)) BY <3>2 DEF ModelInv, ClientsFit
    <3>4. d \in HeldBy(u) BY <3>2 DEF HeldBy
    <3>5. v.cores[d].st = "closed" BY <1>3, <3>3, <3>4
    <3> QED BY <1>4, <1>5, <1>6, <3>1, <3>3, <3>5
  <2> QED BY <2>1, Zenon DEF ClientsFit
<1>10. DialsFit(v)
  <2>1. \A d \in DOMAIN u.cores : Unanswered(v.cores[d]) => Unanswered(u.cores[d])
    <3> SUFFICES ASSUME NEW d \in DOMAIN u.cores, Unanswered(v.cores[d]) PROVE Unanswered(u.cores[d]) OBVIOUS
    <3>1. CASE d \in HeldBy(u) BY <1>3, <3>1 DEF Unanswered
    <3>2. CASE d \notin HeldBy(u) BY <1>3, <3>2 DEF Unanswered
    <3> QED BY <3>1, <3>2
  <2> QED BY <1>4, <1>5, <1>6, <2>1 DEF ModelInv, DialsFit
<1>11. HeldOrLeft(v)
  <2>1. ASSUME NEW d \in DOMAIN u.cores, Settled(v.cores[d])
        PROVE  \E e, f \in DOMAIN v.cores :
                 e < f /\ v.cores[e].room = v.cores[d].room /\ v.cores[f].room = v.cores[d].room /\ v.cores[e].left
    <3>1. d \notin HeldBy(u) BY <1>3, <2>1 DEF Settled
    <3>2. Settled(u.cores[d]) /\ ~Held(u, d) BY <1>3, <1>7, <2>1, <3>1 DEF Settled
    <3>3. PICK e, f \in DOMAIN u.cores : e < f /\ u.cores[e].room = u.cores[d].room /\ u.cores[f].room = u.cores[d].room /\ u.cores[e].left
      BY <3>2 DEF ModelInv, HeldOrLeft
    <3> QED BY <1>4, <1>5, <3>3
  <2> QED BY <1>4, <2>1 DEF HeldOrLeft
<1>12. Told(v)
  <2> SUFFICES ASSUME NEW d \in DOMAIN u.cores, v.cores[d].lost
               PROVE  d \in v.shown \/ d \in v.lostOnClose
    BY <1>4 DEF Told
  <2>1. CASE d \in HeldBy(u) BY <1>1, <2>1
  <2>2. CASE d \notin HeldBy(u)
    <3>1. u.cores[d].lost BY <1>3, <2>2
    <3> QED BY <1>1, <3>1 DEF ModelInv, Told
  <2> QED BY <2>1, <2>2
<1>13. Unheard(v, 0)
  <2> SUFFICES ASSUME NEW d \in DOMAIN u.cores, v.cores[d].st \in {"dialing", "landed", "refused", "none"}
               PROVE  v.cores[d].pumps = 0 /\ v.cores[d].posted = {} /\ 0 # d
    BY <1>4 DEF Unheard
  <2>1. u.cores[d].st \in {"dialing", "landed", "refused", "none"} BY <1>3
  <2>2. u.cores[d].pumps = 0 /\ u.cores[d].posted = {} BY <2>1 DEF ModelInv, Unheard
  <2> QED BY <1>0, <1>3, <2>2
<1>14. Heard(v, 0) BY <1>4 DEF Heard
<1>15. OneListener(v, 0)
  <2> SUFFICES ASSUME NEW d \in DOMAIN u.cores, OnlyOf(u, d)
               PROVE  /\ v.cores[d].pumps <= 1
                      /\ \A e, f \in v.cores[d].posted : e = f
                      /\ v.cores[d].posted # {} => v.cores[d].pumps = 0
    BY <1>0, <1>4, <1>6 DEF OneListener
  <2>1. /\ u.cores[d].pumps <= 1
        /\ \A e, f \in u.cores[d].posted : e = f
        /\ u.cores[d].posted # {} => u.cores[d].pumps = 0
    BY DEF ModelInv, OneListener
  <2> QED BY <1>3, <2>1
<1>16. InOrder(v)
  <2> SUFFICES ASSUME NEW d \in DOMAIN u.cores, OnlyOf(u, d)
               PROVE  /\ QueueInOrder(v.cores[d])
                      /\ u.cores[d].room \in DOMAIN u.session => LinesInOrder(u.session[u.cores[d].room].lines, v.cores[d])
    BY <1>4, <1>5, <1>6 DEF InOrder
  <2>1. /\ QueueInOrder(u.cores[d])
        /\ u.cores[d].room \in DOMAIN u.session => LinesInOrder(u.session[u.cores[d].room].lines, u.cores[d])
    BY DEF ModelInv, InOrder
  <2>2. v.cores[d].posted = u.cores[d].posted /\ v.cores[d].q = u.cores[d].q /\ v.cores[d].made = u.cores[d].made
    BY <1>3
  <2>3. QueueInOrder(v.cores[d]) BY <2>1, <2>2 DEF QueueInOrder
  <2> QED BY <2>1, <2>2, <2>3 DEF LinesInOrder
<1> QED BY <1>1, <1>8, <1>9, <1>10, <1>11, <1>12, <1>13, <1>14, <1>15, <1>16 DEF ModelInv

\* What was lost is printed.
Exited(u) == [u EXCEPT !.run = "exited", !.shown = @ \cup u.lostOnClose]

\* Run tells them.
LEMMA ExitKeeps ==
  ASSUME NEW u, NEW x, ModelInv(u, x), u.run = "quit", NEW v, v = Exited(u)
  PROVE  ModelInv(v, x) /\ v.relisten = u.relisten /\ v.wait = u.wait
<1>1. IsModel(u) /\ HasParts(u) BY DEF ModelInv, IsModel
<1>2. /\ HasParts(v) /\ v.session = u.session /\ v.order = u.order /\ v.active = u.active
      /\ v.shown = u.shown \cup u.lostOnClose /\ v.cores = u.cores /\ v.wait = u.wait /\ v.relisten = u.relisten
      /\ v.run = "exited"
  BY <1>1 DEF HasParts, Exited
<1>3. \A c : (LastOf(v, c) <=> LastOf(u, c)) /\ (OnlyOf(v, c) <=> OnlyOf(u, c)) /\ (Held(v, c) <=> Held(u, c))
  BY <1>2 DEF LastOf, OnlyOf, Held
<1>4. IsModel(v) /\ Places(v) /\ Waits(v) BY <1>1, <1>2 DEF ModelInv, IsModel, Places, Waits
<1>5. ClientsFit(v) /\ DialsFit(v) BY <1>2, <1>3 DEF ModelInv, ClientsFit, DialsFit
<1>6. HeldOrLeft(v) BY <1>2, <1>3 DEF ModelInv, HeldOrLeft
<1>7. Told(v) BY <1>2 DEF ModelInv, Told
<1>8. Unheard(v, x) /\ Heard(v, x) BY <1>2 DEF ModelInv, Unheard, Heard
<1>9. OneListener(v, x) /\ InOrder(v) BY <1>2, <1>3 DEF ModelInv, OneListener, InOrder
<1> QED BY <1>2, <1>4, <1>5, <1>6, <1>7, <1>8, <1>9 DEF ModelInv

\* Old lines go.
Pruned(u, cut) == [u EXCEPT !.session = [n \in DOMAIN @ |-> pruneExpired(@[n], cut)]]

\* Expired lines go from any room.
LEMMA PruneKeeps ==
  ASSUME NEW u, NEW x, ModelInv(u, x), NEW cut, NEW v, v = Pruned(u, cut)
  PROVE  ModelInv(v, x) /\ v.relisten = u.relisten /\ v.wait = u.wait
<1>0. IsModel(u) /\ HasParts(u) BY DEF ModelInv, IsModel
<1>1. PICK fs : fs = [n \in DOMAIN u.session |-> pruneExpired(u.session[n], cut)] OBVIOUS
<1>2. v = [u EXCEPT !.session = fs] BY <1>0, <1>1 DEF Pruned, HasParts
<1>3. /\ HasParts(v) /\ v.session = fs /\ v.order = u.order /\ v.active = u.active
      /\ v.shown = u.shown /\ v.lostOnClose = u.lostOnClose /\ v.cores = u.cores /\ v.wait = u.wait /\ v.relisten = u.relisten
      /\ v.run = u.run
  BY <1>0, <1>2 DEF HasParts
<1>4. DOMAIN fs = DOMAIN u.session /\ \A n \in DOMAIN u.session : fs[n] = pruneExpired(u.session[n], cut) BY <1>1
<1>5. \A n \in DOMAIN u.session :
        /\ fs[n] \in RoomRecords /\ fs[n].client = u.session[n].client
        /\ Rising(u.session[n].lines) => Rising(fs[n].lines)
        /\ \A i \in DOMAIN fs[n].lines : \E j \in DOMAIN u.session[n].lines : fs[n].lines[i] = u.session[n].lines[j]
  BY <1>0, <1>4, PruneKept DEF IsModel
<1>6. fs \in [DOMAIN fs -> RoomRecords] BY <1>1, <1>4, <1>5
<1>7. DOMAIN v.session = DOMAIN u.session /\ \A n \in DOMAIN u.session : v.session[n].client = u.session[n].client
  BY <1>3, <1>4, <1>5
<1>8. v.cores = u.cores /\ v.run = u.run BY <1>3
<1>9. \A c : (LastOf(v, c) <=> LastOf(u, c)) /\ (OnlyOf(v, c) <=> OnlyOf(u, c)) /\ (Held(v, c) <=> Held(u, c))
  BY <1>7, <1>8 DEF LastOf, OnlyOf, Held
<1>10. IsModel(v) BY <1>0, <1>3, <1>6 DEF IsModel
<1>11. Places(v) /\ Waits(v) BY <1>3, <1>7 DEF ModelInv, Places, Waits
<1>12. ClientsFit(v) /\ DialsFit(v) BY <1>7, <1>8, <1>9 DEF ModelInv, ClientsFit, DialsFit
<1>13. HeldOrLeft(v) BY <1>8, <1>9 DEF ModelInv, HeldOrLeft
<1>14. Told(v) BY <1>3 DEF ModelInv, Told
<1>15. Unheard(v, x) /\ Heard(v, x) BY <1>7, <1>8 DEF ModelInv, Unheard, Heard
<1>16. OneListener(v, x) BY <1>8, <1>9 DEF ModelInv, OneListener
<1>17. ASSUME NEW n \in DOMAIN u.session, NEW k, LinesInOrder(u.session[n].lines, k)
       PROVE  LinesInOrder(v.session[n].lines, k)
  <2>1. PICK old, new : old = u.session[n].lines /\ new = v.session[n].lines OBVIOUS
  <2>2. (Rising(old) => Rising(new)) /\ \A i \in DOMAIN new : \E j \in DOMAIN old : new[i] = old[j] BY <1>3, <1>5, <2>1
  <2>3. LinesInOrder(old, k) BY <1>17, <2>1
  <2>4. LinesInOrder(new, k) BY <2>2, <2>3 DEF LinesInOrder, Rising
  <2> QED BY <2>1, <2>4
<1>18. InOrder(v)
  <2> SUFFICES ASSUME NEW c \in DOMAIN u.cores, OnlyOf(u, c)
               PROVE  /\ QueueInOrder(u.cores[c])
                      /\ u.cores[c].room \in DOMAIN u.session => LinesInOrder(v.session[u.cores[c].room].lines, u.cores[c])
    BY <1>7, <1>8, <1>9 DEF InOrder
  <2> QED BY <1>17 DEF ModelInv, InOrder
<1> QED BY <1>3, <1>10, <1>11, <1>12, <1>13, <1>14, <1>15, <1>16, <1>18 DEF ModelInv

------------------------------------------------------------------------------
\* Between two messages: the invariant, and no listener due unless an echo waits.
Rests(v) == ModelInv(v, v.relisten) /\ (v.relisten # 0 => v.wait # <<>>)

\* When no echo waits, no listener is due.
LEMMA FreeIs ==
  ASSUME NEW u, Rests(u), u.wait = <<>>
  PROVE  u.relisten = 0 /\ ModelInv(u, 0)
BY DEF Rests

\* Talk, between two messages.
LEMMA TalkRests ==
  ASSUME NEW u, Rests(u), u.run = "up", NEW v, Talks(u, v), v.wait = u.wait \/ u.wait = <<>>
  PROVE  Rests(v)
<1>1. v.relisten = u.relisten BY DEF Talks
<1>2. ModelInv(v, u.relisten) BY TalksKeeps DEF Rests
<1> QED BY <1>1, <1>2 DEF Rests

\* A step aside, between two messages.
LEMMA AsideRests ==
  ASSUME NEW u, Rests(u), NEW v, Aside(u, v), v.relisten = u.relisten
  PROVE  Rests(v)
BY AsideKeeps DEF Rests, Aside

\* Update ends by starting the listener that is due, if nothing waits.
LEMMA RelistenRests ==
  ASSUME NEW u, ModelInv(u, u.relisten)
  PROVE  Rests(Relisten(u))
<1>1. CASE u.relisten = 0 \/ u.wait # <<>> BY <1>1 DEF Rests, Relisten
<1>2. CASE ~(u.relisten = 0 \/ u.wait # <<>>)
  <2>1. PICK w : w = listenRoom(u, u.relisten) OBVIOUS
  <2>2. u.relisten \in DOMAIN u.cores BY <1>2 DEF ModelInv, Unheard
  <2>3. ModelInv(w, 0) BY <2>1, <2>2, ListenKeeps
  <2>4. PICK v : v = [w EXCEPT !.relisten = 0] OBVIOUS
  <2>5. Aside(w, v) /\ v.relisten = 0 BY <2>3, <2>4 DEF Aside, ModelInv, IsModel, HasParts
  <2>6. Rests(v) BY <2>3, <2>5, AsideKeeps DEF Rests
  <2> QED BY <1>2, <2>1, <2>4, <2>6 DEF Relisten
<1> QED BY <1>1, <1>2

\* A core emits by itself.
ArrivesAs(u, c, e, clk) == [u EXCEPT !.cores[c].made = @ + 1, !.cores[c].q = Append(@, e), !.cores[c].clock = clk]

ArrivedCore(a, e, clk) == [a EXCEPT !.made = a.made + 1, !.q = Append(a.q, e), !.clock = clk]
WithCore(u, c, k) == [u EXCEPT !.cores[c] = k]

\* It changes one core.
LEMMA ArrivalIs ==
  ASSUME NEW u, IsModel(u), NEW c \in DOMAIN u.cores, NEW e, NEW clk
  PROVE  ArrivesAs(u, c, e, clk) = WithCore(u, c, ArrivedCore(u.cores[c], e, clk))
<1>11. PICK v : v = ArrivesAs(u, c, e, clk) OBVIOUS
<1>12. PICK a : a = u.cores[c] OBVIOUS
<1>13. PICK q, mk : q = Append(a.q, e) /\ mk = a.made + 1 OBVIOUS
<1>14. PICK b : b = [a EXCEPT !.made = mk, !.q = q, !.clock = clk] OBVIOUS
<1>1. HasParts(u) /\ IsCore(a) BY <1>12 DEF IsModel
<1>2. PICK v1 : v1 = [u EXCEPT !.cores[c].made = mk] OBVIOUS
<1>3. PICK v2 : v2 = [v1 EXCEPT !.cores[c].q = q] OBVIOUS
<1>4. PICK b1 : b1 = [a EXCEPT !.made = mk] OBVIOUS
<1>5. PICK b2 : b2 = [b1 EXCEPT !.q = q] OBVIOUS
<1>6. b = [b2 EXCEPT !.clock = clk] /\ b1.q = a.q BY <1>1, <1>4, <1>5, <1>14 DEF IsCore
<1>7. v1 = [u EXCEPT !.cores = [u.cores EXCEPT ![c] = b1]] /\ v1.cores[c] = b1
  BY <1>1, <1>2, <1>4, <1>12 DEF HasParts
<1>8. v2 = [u EXCEPT !.cores = [u.cores EXCEPT ![c] = b2]] /\ v2.cores[c] = b2
  BY <1>1, <1>3, <1>5, <1>7 DEF HasParts
<1>9. [v2 EXCEPT !.cores[c].clock = clk] = [u EXCEPT !.cores[c] = b]
  BY <1>1, <1>6, <1>8 DEF HasParts
<1>10. v = [v2 EXCEPT !.cores[c].clock = clk]
  BY <1>2, <1>3, <1>6, <1>7, <1>11, <1>12, <1>13 DEF ArrivesAs
<1>15. b = ArrivedCore(u.cores[c], e, clk) BY <1>12, <1>13, <1>14 DEF ArrivedCore
<1>16. v = WithCore(u, c, b) BY <1>9, <1>10 DEF WithCore
<1> QED BY <1>11, <1>15, <1>16

\* What arrives from the relay is emitted.
LEMMA ArrivalTalks ==
  ASSUME NEW u, IsModel(u), NEW c \in DOMAIN u.cores, NEW e \in Events, e.n = u.cores[c].made + 1,
         NEW clk \in Clocks, NEW v, v = ArrivesAs(u, c, e, clk)
  PROVE  Talks(u, v) /\ v.wait = u.wait
<1>1. PICK a : a = u.cores[c] OBVIOUS
<1>2. IsCore(a) BY <1>1 DEF IsModel
<1>3. PICK q, mk : q = Append(a.q, e) /\ mk = a.made + 1 OBVIOUS
<1>4. a.q \in Seq(Events) /\ a.made \in Nat BY <1>2 DEF IsCore
<1>5. q \in Seq(Events) /\ mk \in Nat BY <1>3, <1>4
<1>6. PICK b : b = [a EXCEPT !.made = mk, !.q = q, !.clock = clk] OBVIOUS
<1>7. /\ IsCore(b) /\ b.room = a.room /\ b.st = a.st /\ b.left = a.left /\ b.pumps = a.pumps /\ b.posted = a.posted
      /\ b.lost = a.lost /\ b.made = mk /\ b.q = q
  BY <1>2, <1>5, <1>6 DEF IsCore
<1>8. Speaks(a, b) BY <1>1, <1>3, <1>7 DEF Speaks
<1>9. v = [u EXCEPT !.cores[c] = b]
  <2>1. v = WithCore(u, c, ArrivedCore(u.cores[c], e, clk)) BY ArrivalIs, Zenon
  <2>2. ArrivedCore(u.cores[c], e, clk) = b BY <1>1, <1>3, <1>6 DEF ArrivedCore
  <2> QED BY <2>1, <2>2 DEF WithCore
<1>10. Speaks(u.cores[c], b) BY <1>1, <1>8
<1>11. Talks(u, v) BY <1>9, <1>10, CoreTalks
<1>12. v.wait = u.wait
  <2>1. IsCore(b) BY <1>7
  <2> QED BY <1>9, <2>1, CoreUpdated
<1> QED BY <1>11, <1>12

\* A frame arrives.
LEMMA ArrivesKeeps ==
  ASSUME Rests(m), m.run = "up", NEW c \in DOMAIN m.cores, NEW k \in EventKinds, Arrives(c, k)
  PROVE  Rests(m')
<1>1. PICK e : e = [c |-> c, n |-> m.cores[c].made + 1, k |-> k, self |-> FALSE] OBVIOUS
<1>2. PICK clk : clk = ClockAfter(m.cores[c].clock, k) OBVIOUS
<1>3. IsModel(m) /\ IsCore(m.cores[c]) /\ c \in Nat BY SeqOfFacts DEF Rests, ModelInv, IsModel
<1>4. e \in Events /\ e.n = m.cores[c].made + 1 BY <1>1, <1>3 DEF Events, IsCore
<1>5. clk \in Clocks BY <1>2, <1>3 DEF IsCore, Clocks, ClockAfter
<1>6. m' = ArrivesAs(m, c, e, clk) BY <1>1, <1>2, <1>3 DEF Arrives, ArrivesAs, IsModel, HasParts, IsCore
<1>7. PICK v : v = ArrivesAs(m, c, e, clk) OBVIOUS
<1>8. Talks(m, v) /\ v.wait = m.wait BY <1>3, <1>4, <1>5, <1>7, ArrivalTalks
<1>9. Rests(v) BY <1>8, TalkRests
<1> QED BY <1>6, <1>7, <1>9

\* A connection drops.
LEMMA DropsKeeps ==
  ASSUME Rests(m), m.run = "up", NEW c \in DOMAIN m.cores, Drops(c)
  PROVE  Rests(m')
<1>1. PICK e : e = [c |-> c, n |-> m.cores[c].made + 1, k |-> "disconnected", self |-> FALSE] OBVIOUS
<1>3. IsModel(m) /\ IsCore(m.cores[c]) /\ c \in Nat BY SeqOfFacts DEF Rests, ModelInv, IsModel
<1>4. e \in Events /\ e.n = m.cores[c].made + 1 BY <1>1, <1>3 DEF Events, IsCore, EventKinds, TransferKinds
<1>5. PICK w : w = [m EXCEPT !.cores[c].st = "dead"] OBVIOUS
<1>6. /\ ModelInv(w, m.relisten) /\ w.relisten = m.relisten /\ w.wait = m.wait /\ w.run = m.run
      /\ DOMAIN w.cores = DOMAIN m.cores
  <2>1. m.cores[c].st = "live" BY DEF Drops
  <2>2. ModelInv(m, m.relisten) BY DEF Rests
  <2> QED BY <1>5, <2>1, <2>2, StateKeeps
<1>7. Rests(w) /\ IsModel(w) BY <1>6 DEF Rests, ModelInv
<1>8. w.cores[c].made = m.cores[c].made /\ w.cores[c].clock = m.cores[c].clock /\ w.cores[c].q = m.cores[c].q
  BY <1>3, <1>5 DEF IsModel, HasParts, IsCore
<1>9. m.cores[c].clock \in Clocks BY <1>3 DEF IsCore
<1>10. PICK v : v = ArrivesAs(w, c, e, m.cores[c].clock) OBVIOUS
<1>11. m' = v
  <2>1. PICK a, q, mk : a = m.cores[c] /\ q = Append(a.q, e) /\ mk = a.made + 1 OBVIOUS
  <2>2. PICK d : d = [a EXCEPT !.st = "dead"] OBVIOUS
  <2>3. PICK b : b = [a EXCEPT !.st = "dead", !.made = mk, !.q = q] OBVIOUS
  <2>4. IsCore(a) BY <1>3, <2>1
  <2>5. d.clock = a.clock /\ d.made = a.made /\ d.q = a.q BY <2>2, <2>4 DEF IsCore
  <2>6. b = [d EXCEPT !.made = mk, !.q = q, !.clock = a.clock] BY <2>2, <2>3, <2>4 DEF IsCore
  <2>7. m' = [m EXCEPT !.cores[c] = b]
    <3>1. m' = [m EXCEPT !.cores[c].st = "dead", !.cores[c].made = @ + 1, !.cores[c].q = Append(@, e)]
      BY <1>1 DEF Drops
    <3>2. HasParts(m) BY <1>3 DEF IsModel
    <3>3. PICK v1 : v1 = [m EXCEPT !.cores[c].st = "dead"] OBVIOUS
    <3>4. PICK v2 : v2 = [v1 EXCEPT !.cores[c].made = mk] OBVIOUS
    <3>5. PICK b2 : b2 = [d EXCEPT !.made = mk] OBVIOUS
    <3>6. b = [b2 EXCEPT !.q = q] /\ b2.q = a.q BY <2>2, <2>3, <2>4, <3>5 DEF IsCore
    <3>7. v1 = [m EXCEPT !.cores = [m.cores EXCEPT ![c] = d]] /\ v1.cores[c] = d
      BY <2>1, <2>2, <3>2, <3>3 DEF HasParts
    <3>8. v2 = [m EXCEPT !.cores = [m.cores EXCEPT ![c] = b2]] /\ v2.cores[c] = b2
      BY <3>2, <3>4, <3>5, <3>7 DEF HasParts
    <3>9. [v2 EXCEPT !.cores[c].q = q] = [m EXCEPT !.cores[c] = b]
      BY <3>2, <3>6, <3>8 DEF HasParts
    <3>10. m' = [v2 EXCEPT !.cores[c].q = q]
      BY <2>1, <2>5, <3>1, <3>3, <3>4, <3>6, <3>7, <3>8
    <3> QED BY <3>9, <3>10
  <2>8. w = [m EXCEPT !.cores[c] = d] BY <1>3, <1>5, <2>1, <2>2 DEF IsModel, HasParts, IsCore
  <2>9. w.cores[c] = d BY <1>3, <2>8 DEF IsModel, HasParts
  <2>11. IsCore(d) BY <2>2, <2>4 DEF IsCore, CoreStates
  <2>12. c \in DOMAIN w.cores BY <1>6
  <2>13. mk = d.made + 1 /\ q = Append(d.q, e) BY <2>1, <2>5
  <2>14. b = [d EXCEPT !.made = mk, !.q = q, !.clock = m.cores[c].clock] BY <2>1, <2>6
  <2>10. v = [w EXCEPT !.cores[c] = b]
    <3>1. v = WithCore(w, c, ArrivedCore(w.cores[c], e, m.cores[c].clock)) BY <1>7, <1>10, <2>12, ArrivalIs, Zenon
    <3>2. ArrivedCore(w.cores[c], e, m.cores[c].clock) = b BY <2>9, <2>13, <2>14 DEF ArrivedCore
    <3> QED BY <3>1, <3>2 DEF WithCore
  <2> QED BY <1>3, <2>7, <2>8, <2>10 DEF IsModel, HasParts
<1>12. Talks(w, v) /\ v.wait = w.wait BY <1>4, <1>6, <1>7, <1>8, <1>9, <1>10, ArrivalTalks
<1>13. Rests(v) BY <1>6, <1>7, <1>12, TalkRests
<1> QED BY <1>11, <1>13

\* A dial ends.
LEMMA DialledKeeps ==
  ASSUME Rests(m), m.run = "up", NEW c \in DOMAIN m.cores, NEW ok \in BOOLEAN, Dialled(c, ok)
  PROVE  Rests(m')
<1>1. PICK st \in {"landed", "refused"} : st = IF ok THEN "landed" ELSE "refused" OBVIOUS
<1>2. m.cores[c].st = "dialing" /\ m' = [m EXCEPT !.cores[c].st = st] BY <1>1 DEF Dialled
<1>3. PICK v : v = [m EXCEPT !.cores[c].st = st] OBVIOUS
<1>4. m.cores[c].st = "dialing" /\ ModelInv(m, m.relisten) BY <1>2 DEF Rests
<1>5. ModelInv(v, m.relisten) /\ v.relisten = m.relisten /\ v.wait = m.wait BY <1>3, <1>4, StateKeeps
<1> QED BY <1>2, <1>3, <1>5 DEF Rests

\* A listener runs.
LEMMA ListensKeeps ==
  ASSUME Rests(m), NEW c \in DOMAIN m.cores, Listens(c)
  PROVE  Rests(m')
<1>1. m.cores[c].pumps > 0 BY DEF Listens
<1>2. CASE m.cores[c].q # <<>> /\ m' = Took(m, c) BY <1>1, <1>2, TakeKeeps DEF Rests
<1>3. CASE m.cores[c].st \in {"dead", "closed"} /\ m' = FoundDone(m, c) BY <1>1, <1>3, DoneKeeps DEF Rests
<1> QED BY <1>2, <1>3 DEF Listens, Took, FoundDone

\* What happens beside Update keeps the invariant.
LEMMA CoreKeeps ==
  ASSUME AppInv, Core
  PROVE  Rests(m')
<1>1. m.run = "up" /\ Rests(m) BY DEF Core, AppInv, Rests
<1>2. PICK c \in DOMAIN m.cores : \/ \E ok \in BOOLEAN : Dialled(c, ok)
                                  \/ \E k \in input.arrivals : Arrives(c, k)
                                  \/ Drops(c)
                                  \/ Listens(c)
  BY DEF Core
<1>3. input.arrivals \subseteq EventKinds BY DEF AppInv
<1> QED BY <1>1, <1>2, <1>3, DialledKeeps, ArrivesKeeps, DropsKeeps, ListensKeeps

------------------------------------------------------------------------------
(* Messages. *)

\* A dial came back with a client: its room takes it, or it is closed.
LEMMA ConnectedKeeps ==
  ASSUME Rests(m), NEW c \in DOMAIN m.cores, Connected(c)
  PROVE  Rests(m')
<1>1. m.run = "up" /\ m.wait = <<>> /\ m.cores[c].st \in {"landed", "refused"} /\ m' = onRoomConnected(m, c)
  BY DEF Connected, Free
<1>2. m.relisten = 0 /\ ModelInv(m, 0) /\ IsModel(m) BY <1>1, FreeIs DEF ModelInv
<1>3. PICK n : n = m.cores[c].room OBVIOUS
<1>4. CASE n \notin DOMAIN m.session
  <2>1. PICK st \in {"closed", "none"} : st = IF m.cores[c].st = "landed" THEN "closed" ELSE "none" OBVIOUS
  <2>2. PICK v : v = [m EXCEPT !.cores[c].st = st] OBVIOUS
  <2>5. m.run = "up" /\ m.cores[c].st \in {"landed", "refused"} /\ ModelInv(m, 0) BY <1>1, <1>2
  <2>3. ModelInv(v, 0) /\ v.relisten = m.relisten BY <2>2, <2>5, StateKeeps
  <2>4. m' = v BY <1>1, <1>3, <1>4, <2>1, <2>2 DEF onRoomConnected
  <2> QED BY <1>2, <2>3, <2>4 DEF Rests
<1>5. CASE n \in DOMAIN m.session /\ m.cores[c].st = "refused"
  <2>1. PICK w : w = [m EXCEPT !.cores[c].st = "none"] OBVIOUS
  <2>2. /\ ModelInv(w, 0) /\ w.relisten = m.relisten /\ w.run = m.run /\ w.wait = m.wait /\ w.session = m.session
    <3>1. m.run = "up" /\ m.cores[c].st \in {"landed", "refused"} /\ ModelInv(m, 0) BY <1>1, <1>2
    <3>2. ModelInv(w, 0) /\ w.relisten = m.relisten BY <2>1, <3>1, StateKeeps
    <3>3. w.run = m.run /\ w.wait = m.wait /\ w.session = m.session BY <2>1, <3>1, StateKeeps
    <3> QED BY <3>2, <3>3
  <2>3. IsModel(w) /\ Rests(w) BY <1>2, <2>2 DEF ModelInv, Rests
  <2>4. PICK r : r = [m.session[n] EXCEPT !.failed = TRUE] OBVIOUS
  <2>5. m.session[n] \in RoomRecords BY <1>2, <1>5 DEF IsModel
  <2>6. r \in RoomRecords /\ r.client = m.session[n].client /\ r.lines = m.session[n].lines
    BY <2>4, <2>5 DEF RoomRecords
  <2>7. PICK v : v = SetRoom(w, n, r) OBVIOUS
  <2>8. Talks(w, v) BY <1>5, <2>2, <2>3, <2>6, <2>7, RoomTalks
  <2>9. m' = v
    <3>1. m' = [m EXCEPT !.cores[c].st = "none", !.session[n].failed = TRUE] BY <1>1, <1>3, <1>5 DEF onRoomConnected
    <3> QED BY <1>2, <1>5, <2>1, <2>4, <2>7, <3>1 DEF SetRoom, IsModel, HasParts, RoomRecords
  <2> QED BY <1>1, <2>2, <2>3, <2>8, <2>9, TalkRests
<1>6. CASE n \in DOMAIN m.session /\ m.cores[c].st = "landed"
  <2>1. PICK w : w = Landed(m, c, n) OBVIOUS
  <2>2. ModelInv(w, c) /\ w.relisten = m.relisten /\ w.wait = m.wait /\ c \in DOMAIN w.cores
    BY <1>1, <1>2, <1>3, <1>6, <2>1, LandKeeps
  <2>3. PICK v : v = listenRoom(w, c) OBVIOUS
  <2>4. ModelInv(v, 0) /\ v.relisten = w.relisten BY <2>2, <2>3, ListenKeeps
  <2>5. m' = v BY <1>1, <1>3, <1>6, <2>1, <2>3 DEF onRoomConnected, Landed
  <2> QED BY <1>2, <2>2, <2>4, <2>5 DEF Rests
<1> QED BY <1>1, <1>4, <1>5, <1>6

\* A room is told that its connection is gone.
LEMMA GoneKeeps ==
  ASSUME Rests(m), NEW c \in DOMAIN m.cores, Gone(c)
  PROVE  Rests(m')
<1>1. m.run = "up" /\ m.wait = <<>> /\ m.cores[c].goneMsgs > 0 BY DEF Gone, Free
<1>2. IsModel(m) BY DEF Rests, ModelInv
<1>3. PICK a, g : a = m.cores[c] /\ g = a.goneMsgs - 1 OBVIOUS
<1>4. IsCore(a) BY <1>2, <1>3 DEF IsModel
<1>5. g \in Nat
  <2>1. a.goneMsgs \in Nat BY <1>4 DEF IsCore
  <2> QED BY <1>1, <1>3, <2>1
<1>6. PICK b : b = [a EXCEPT !.goneMsgs = g] OBVIOUS
<1>7. Speaks(a, b) BY <1>4, <1>5, <1>6 DEF Speaks, IsCore
<1>8. PICK w : w = [m EXCEPT !.cores[c] = b] OBVIOUS
<1>9. Talks(m, w) /\ w.wait = m.wait /\ w.run = m.run /\ w.session = m.session
  BY <1>2, <1>3, <1>7, <1>8, CoreTalks, CoreUpdated DEF Speaks
<1>10. Rests(w) /\ IsModel(w) BY <1>1, <1>9, TalkRests DEF Talks
<1>11. w = [m EXCEPT !.cores[c].goneMsgs = @ - 1] BY <1>2, <1>3, <1>4, <1>6, <1>8 DEF IsModel, HasParts, IsCore
<1>12. PICK n : n = m.cores[c].room OBVIOUS
<1>13. CASE n \notin DOMAIN m.session BY <1>10, <1>11, <1>12, <1>13 DEF Gone
<1>14. CASE n \in DOMAIN m.session
  <2>1. PICK r : r = [w.session[n] EXCEPT !.connected = FALSE, !.keyReady = FALSE] OBVIOUS
  <2>2. w.session[n] \in RoomRecords /\ n \in DOMAIN w.session BY <1>9, <1>10, <1>14 DEF IsModel
  <2>3. r \in RoomRecords /\ r.client = w.session[n].client /\ r.lines = w.session[n].lines BY <2>1, <2>2 DEF RoomRecords
  <2>4. PICK v : v = SetRoom(w, n, r) OBVIOUS
  <2>5. Talks(w, v) BY <1>10, <2>2, <2>3, <2>4, RoomTalks
  <2>6. m' = [w EXCEPT !.session[n].connected = FALSE, !.session[n].keyReady = FALSE] BY <1>11, <1>12, <1>14 DEF Gone
  <2>7. m' = v BY <1>10, <2>1, <2>2, <2>4, <2>6 DEF SetRoom, IsModel, HasParts, RoomRecords
  <2> QED BY <1>1, <1>9, <1>10, <2>5, <2>7, TalkRests
<1> QED BY <1>13, <1>14

\* What handleRoomEvent does besides showing the event.
LEMMA HandledKeeps ==
  ASSUME NEW u, ModelInv(u, 0), u.run = "up", NEW c \in DOMAIN u.cores, NEW e \in u.cores[c].posted, NEW n \in DOMAIN u.session,
         n = u.cores[c].room, NEW w, w = Unposted(u, c, e), NEW v, v = handleRoomEvent(w, n, e)
  PROVE  ModelInv(v, v.session[n].client)
<1>1. PICK x : x = u.session[n].client OBVIOUS
<1>2. IsModel(u) /\ IsCore(u.cores[c]) /\ u.session[n] \in RoomRecords BY DEF ModelInv, IsModel
<1>3. w.session = u.session /\ w.active = u.active BY <1>2, UnpostedIs DEF Touches
<1>4. PICK s : s = inRoom(w.session[n], e, n # w.active) OBVIOUS
<1>5. e \in Events BY <1>2 DEF IsCore
<1>6. Shows(u.session[n], s, e) BY <1>2, <1>3, <1>4, <1>5, RoomShows
<1>7. PICK v1 : v1 = SetRoom(w, n, s) OBVIOUS
<1>8. ModelInv(v1, x) /\ v1.session[n].client = x /\ v1.run = "up" BY <1>1, <1>6, <1>7, ShownKeeps
<1>9. IsModel(v1) /\ n \in DOMAIN v1.session
  <2>1. Touches(u, w, c) BY <1>2, UnpostedIs
  <2>2. IsModel(w) BY <2>1 DEF Touches
  <2>3. n \in DOMAIN w.session /\ s \in RoomRecords /\ v1 = [w EXCEPT !.session[n] = s] BY <1>3, <1>6, <1>7 DEF Shows, SetRoom
  <2>4. IsModel(v1) /\ DOMAIN v1.session = DOMAIN w.session BY <2>2, <2>3, RoomUpdated
  <2> QED BY <2>3, <2>4
<1> DEFINE P(z) == ModelInv(z, z.session[n].client)
<1>10. P(v1) BY <1>8
<1>11. x # 0 => P(ClockStart(v1, x))
  <2> SUFFICES ASSUME x # 0 PROVE P(ClockStart(v1, x)) OBVIOUS
  <2>1. x \in DOMAIN v1.cores BY <1>8 DEF ModelInv, Unheard
  <2>2. PICK z : z = ClockStart(v1, x) OBVIOUS
  <2>3. Talks(v1, z) BY <1>9, <2>1, <2>2, ClockTalks
  <2>4. ModelInv(z, x) BY <1>8, <2>3, TalksKeeps
  <2>5. z.session[n].client = x BY <1>8, <1>9, <2>3 DEF Talks
  <2> QED BY <2>2, <2>4, <2>5
<1>12. P([v1 EXCEPT !.clockTicking = TRUE, !.ticks = @ + 1])
  <2>1. PICK z : z = [v1 EXCEPT !.clockTicking = TRUE, !.ticks = @ + 1] OBVIOUS
  <2>2. Aside(v1, z) BY <1>9, <2>1 DEF Aside, IsModel, HasParts
  <2>3. ModelInv(z, x) BY <1>8, <2>2, AsideKeeps
  <2>4. z.session[n].client = x BY <1>8, <2>2 DEF Aside
  <2> QED BY <2>1, <2>3, <2>4
<1>13. P([v1 EXCEPT !.receipts = @ \cup {e.c}])
  <2>1. PICK z : z = [v1 EXCEPT !.receipts = @ \cup {e.c}] OBVIOUS
  <2>2. Aside(v1, z) BY <1>9, <2>1 DEF Aside, IsModel, HasParts
  <2>3. ModelInv(z, x) BY <1>8, <2>2, AsideKeeps
  <2>4. z.session[n].client = x BY <1>8, <2>2 DEF Aside
  <2> QED BY <2>1, <2>3, <2>4
<1>14. P([joinRoomOpts(v1, WarRoom, FALSE) EXCEPT !.session[WarRoom].autoClock = TRUE])
  <2>1. PICK y : y = joinRoomOpts(v1, WarRoom, FALSE) OBVIOUS
  <2>2. /\ ModelInv(y, x) /\ y.session[n].client = x /\ n \in DOMAIN y.session /\ WarRoom \in DOMAIN y.session /\ y.run = "up"
    <3>1. CASE WarRoom \in DOMAIN v1.session BY <1>8, <1>9, <2>1, <3>1 DEF joinRoomOpts
    <3>2. CASE WarRoom \notin DOMAIN v1.session
      <4>0. PICK no : no = FALSE OBVIOUS
      <4>1. y = Opened(v1, WarRoom, no) /\ no \in BOOLEAN BY <2>1, <3>2, <4>0 DEF joinRoomOpts, Opened
      <4>5. ModelInv(v1, x) /\ v1.run = "up" BY <1>8
      <4>2. ModelInv(y, x) /\ y.run = v1.run BY <3>2, <4>1, <4>5, OpenKeeps
      <4>3. DOMAIN y.session = DOMAIN v1.session \cup {WarRoom} BY <3>2, <4>1, <4>5, OpenKeeps
      <4>4. \A k \in DOMAIN v1.session : y.session[k] = v1.session[k] BY <3>2, <4>1, <4>5, OpenKeeps
      <4> QED BY <1>8, <1>9, <4>2, <4>3, <4>4
    <3> QED BY <3>1, <3>2
  <2>3. IsModel(y) /\ y.session[WarRoom] \in RoomRecords BY <2>2 DEF ModelInv, IsModel
  <2>4. PICK r : r = [y.session[WarRoom] EXCEPT !.autoClock = TRUE] OBVIOUS
  <2>5. r \in RoomRecords /\ r.client = y.session[WarRoom].client /\ r.lines = y.session[WarRoom].lines
    BY <2>3, <2>4 DEF RoomRecords
  <2>6. PICK z : z = SetRoom(y, WarRoom, r) OBVIOUS
  <2>7. Talks(y, z) BY <2>2, <2>3, <2>5, <2>6, RoomTalks
  <2>8. ModelInv(z, x) BY <2>2, <2>7, TalksKeeps
  <2>9. z.session[n].client = x BY <2>2, <2>7 DEF Talks
  <2>10. z = [y EXCEPT !.session[WarRoom].autoClock = TRUE]
    BY <2>2, <2>3, <2>4, <2>6 DEF SetRoom, IsModel, HasParts, RoomRecords
  <2> QED BY <2>1, <2>8, <2>9, <2>10
<1>15. v1 = SetRoom(w, n, inRoom(w.session[n], e, n # w.active)) BY <1>4, <1>7
<1>16. v1.session[n].client # 0 => P(ClockStart(v1, v1.session[n].client)) BY <1>8, <1>11
<1> HIDE DEF P
<1>17. P(handleRoomEvent(w, n, e)) BY <1>10, <1>12, <1>13, <1>14, <1>15, <1>16, Zenon DEF handleRoomEvent
<1> QED BY <1>17 DEF P

\* An event comes to its room, or to a room that does not hold its client.
LEMMA EventKeeps ==
  ASSUME Rests(m), NEW c \in DOMAIN m.cores, NEW e \in m.cores[c].posted, EventMsg(c, e)
  PROVE  Rests(m')
<1>1. m.run = "up" /\ m.wait = <<>> BY DEF EventMsg, Free
<1>2. m.relisten = 0 /\ ModelInv(m, 0) /\ IsModel(m) BY <1>1, FreeIs DEF ModelInv
<1>3. PICK n : n = m.cores[c].room OBVIOUS
<1>4. PICK w : w = Unposted(m, c, e) OBVIOUS
<1>5. CASE n \notin DOMAIN m.session
  <2>1. m' = w BY <1>3, <1>4, <1>5 DEF EventMsg, Unposted
  <2>2. ModelInv(w, 0) /\ w.relisten = m.relisten BY <1>2, <1>3, <1>4, <1>5, StrayKeeps
  <2> QED BY <1>2, <2>1, <2>2 DEF Rests
<1>6. CASE n \in DOMAIN m.session
  <2>1. PICK v : v = handleRoomEvent(w, n, e) OBVIOUS
  <2>2. PICK z : z = [v EXCEPT !.relisten = v.session[n].client] OBVIOUS
  <2>3. m' = Relisten(z) BY <1>3, <1>4, <1>6, <2>1, <2>2 DEF EventMsg, Unposted
  <2>4. ModelInv(v, v.session[n].client) BY <1>1, <1>2, <1>3, <1>4, <1>6, <2>1, HandledKeeps
  <2>5. Aside(v, z) /\ z.relisten = v.session[n].client BY <2>2, <2>4 DEF Aside, ModelInv, IsModel, HasParts
  <2>6. ModelInv(z, z.relisten) BY <2>4, <2>5, AsideKeeps
  <2> QED BY <2>3, <2>6, RelistenRests
<1> QED BY <1>5, <1>6

\* Every message.
LEMMA MessageKeeps ==
  ASSUME Rests(m), Message
  PROVE  Rests(m')
BY ConnectedKeeps, GoneKeeps, EventKeeps DEF Message

------------------------------------------------------------------------------
(* Keys and timers. *)

\* Another room comes to the front.
LEMMA FocusTalks ==
  ASSUME NEW u, IsModel(u), NEW n \in DOMAIN u.session, NEW i \in DOMAIN u.order, u.order[i] = n
  PROVE  Talks(u, focus(u, n))
<1>1. PICK r : r = [u.session[n] EXCEPT !.unread = 0] OBVIOUS
<1>2. u.session[n] \in RoomRecords BY DEF IsModel
<1>3. r \in RoomRecords /\ r.client = u.session[n].client /\ r.lines = u.session[n].lines BY <1>1, <1>2 DEF RoomRecords
<1>4. PICK w : w = SetRoom(u, n, r) OBVIOUS
<1>5. Talks(u, w) BY <1>3, <1>4, RoomTalks
<1>6. PICK v : v = [w EXCEPT !.active = n] OBVIOUS
<1>7. /\ HasParts(v) /\ v.session = w.session /\ v.order = w.order /\ v.shown = w.shown /\ v.active = n
      /\ v.lostOnClose = w.lostOnClose /\ v.cores = w.cores /\ v.wait = w.wait /\ v.run = w.run /\ v.relisten = w.relisten
  BY <1>5, <1>6 DEF Talks, IsModel, HasParts
<1>8. IsModel(v) BY <1>5, <1>7 DEF Talks, IsModel
<1>9. Talks(u, v) BY <1>5, <1>7, <1>8 DEF Talks
<1>10. v = focus(u, n) BY <1>1, <1>4, <1>6 DEF focus, SetRoom, IsModel, HasParts, RoomRecords
<1> QED BY <1>9, <1>10

\* A room comes to the front, between two messages.
LEMMA FocusRests ==
  ASSUME NEW u, Rests(u), u.run = "up", u.wait = <<>>, NEW i \in DOMAIN u.order
  PROVE  Rests(focus(u, u.order[i]))
<1>1. PICK n : n = u.order[i] OBVIOUS
<1>2. IsModel(u) /\ n \in DOMAIN u.session BY <1>1 DEF Rests, ModelInv, Places
<1>3. Talks(u, focus(u, n)) BY <1>1, <1>2, FocusTalks
<1> QED BY <1>1, <1>3, TalkRests

\* A room is opened, or comes to the front.
LEMMA JoinRests ==
  ASSUME NEW u, Rests(u), u.run = "up", u.wait = <<>>, NEW name
  PROVE  Rests(joinRoomOpts(u, name, TRUE)) /\ joinRoomOpts(u, name, TRUE).run = "up"
<1>1. IsModel(u) /\ Places(u) /\ ModelInv(u, 0) /\ u.relisten = 0 BY FreeIs DEF Rests, ModelInv
<1>2. CASE name \in DOMAIN u.session
  <2>1. PICK i \in DOMAIN u.order : u.order[i] = name BY <1>1, <1>2 DEF Places
  <2>2. PICK v : v = focus(u, name) OBVIOUS
  <2>3. Talks(u, v) BY <1>1, <1>2, <2>1, <2>2, FocusTalks
  <2>4. Rests(v) /\ v.run = "up" BY <2>3, TalkRests DEF Talks
  <2>5. joinRoomOpts(u, name, TRUE) = v BY <1>2, <2>2 DEF joinRoomOpts, focus
  <2> QED BY <2>4, <2>5
<1>3. CASE name \notin DOMAIN u.session
  <2>0. PICK yes : yes = TRUE OBVIOUS
  <2>1. PICK v : v = Opened(u, name, yes) OBVIOUS
  <2>2. yes \in BOOLEAN BY <2>0
  <2>3. ModelInv(v, 0) /\ v.run = u.run /\ v.wait = u.wait /\ v.relisten = u.relisten BY <1>1, <1>3, <2>1, <2>2, OpenKeeps
  <2>4. joinRoomOpts(u, name, TRUE) = v BY <1>3, <2>0, <2>1 DEF joinRoomOpts, Opened
  <2>5. Rests(v) /\ v.run = "up" BY <1>1, <2>3 DEF Rests
  <2> QED BY <2>4, <2>5
<1> QED BY <1>2, <1>3

\* Between two messages the active room can be looked at.
LEMMA ReadyIs ==
  ASSUME NEW u, Rests(u), u.run = "up"
  PROVE  Ready(u)
<1>1. IsModel(u) /\ Places(u) /\ ClientsFit(u) BY DEF Rests, ModelInv
<1>2. u.active \in DOMAIN u.session BY <1>1 DEF Places
<1>3. u.session[u.active].client # 0 => u.session[u.active].client \in DOMAIN u.cores BY <1>1, <1>2 DEF ClientsFit
<1> QED BY <1>1, <1>2, <1>3 DEF Ready

\* Every command.
LEMMA CommandRests ==
  ASSUME NEW u, Rests(u), u.run = "up", u.wait = <<>>, NEW l, NEW ok, NEW lost \in BOOLEAN
  PROVE  Rests(runCommand(u, l, ok, lost))
<1>1. IsModel(u) /\ ModelInv(u, 0) /\ u.relisten = 0 BY FreeIs DEF ModelInv
<1>2. CASE l.name \notin {"join", "leave", "quit"}
  <2>1. Talks(u, runCommand(u, l, ok, lost)) BY <1>2, ReadyIs, CommandTalks
  <2> QED BY <2>1, TalkRests
<1>3. CASE l.name = "join"
  <2>1. runCommand(u, l, ok, lost) = joinRoomOpts(u, l.arg, TRUE) BY <1>3 DEF runCommand
  <2> QED BY <2>1, JoinRests
<1>4. CASE l.name = "leave"
  <2>1. runCommand(u, l, ok, lost) = leaveRoom(u, u.active, lost) BY <1>4 DEF runCommand
  <2>2. PICK v : v = leaveRoom(u, u.active, lost) OBVIOUS
  <2>3. ModelInv(v, 0) /\ v.relisten = u.relisten BY <1>1, <2>2, LeaveKeeps
  <2> QED BY <1>1, <2>1, <2>2, <2>3 DEF Rests
<1>5. CASE l.name = "quit"
  <2>1. runCommand(u, l, ok, lost) = closeAll(u, lost) BY <1>5 DEF runCommand
  <2>2. PICK v : v = closeAll(u, lost) OBVIOUS
  <2>3. ModelInv(v, 0) /\ v.relisten = u.relisten BY <1>1, <2>2, QuitKeeps
  <2> QED BY <1>1, <2>1, <2>2, <2>3 DEF Rests
<1> QED BY <1>2, <1>3, <1>4, <1>5

\* What Update still has to do is of no concern to the rooms.
LEMMA TodoRests ==
  ASSUME NEW u, Rests(u), NEW t
  PROVE  LET v == [u EXCEPT !.todo = t] IN Rests(v) /\ v.run = u.run /\ v.wait = u.wait
<1>1. PICK v : v = [u EXCEPT !.todo = t] OBVIOUS
<1>2. HasParts(u) BY DEF Rests, ModelInv, IsModel
<1>3. Aside(u, v) /\ v.relisten = u.relisten BY <1>1, <1>2 DEF Aside, HasParts
<1>4. Rests(v) /\ v.run = u.run /\ v.wait = u.wait BY <1>3, AsideRests DEF Aside
<1> QED BY <1>1, <1>4

\* A command is run.
LEMMA CommandKeeps ==
  ASSUME Rests(m), NEW ok \in BOOLEAN, NEW lost \in BOOLEAN, Command(ok, lost)
  PROVE  Rests(m')
<1>1. m.run = "up" /\ m.wait = <<>> BY DEF Command
<1>2. PICK l, t : l = Parse(Head(m.todo)) /\ t = Tail(m.todo) OBVIOUS
<1>3. PICK w : w = [m EXCEPT !.todo = t] OBVIOUS
<1>4. Rests(w) /\ w.run = "up" /\ w.wait = <<>> BY <1>1, <1>3, TodoRests
<1>5. PICK u : u = runCommand(w, l, ok, lost) OBVIOUS
<1>6. Rests(u) BY <1>4, <1>5, CommandRests
<1>7. Rests([u EXCEPT !.todo = <<>>]) BY <1>6, TodoRests
<1>8. w = [m EXCEPT !.todo = Tail(@)] BY <1>2, <1>3
<1>9. m' = IF u.run = "quit" THEN [u EXCEPT !.todo = <<>>] ELSE u BY <1>2, <1>5, <1>8, Zenon DEF Command
<1> QED BY <1>6, <1>7, <1>9

\* The next room, or the one before.
LEMMA CycleKeeps ==
  ASSUME Rests(m), NEW dir \in {1, Len(m.order) - 1}, cycleRoom(dir)
  PROVE  Rests(m')
<1> DEFINE n == Len(m.order)
<1> DEFINE at == CHOOSE i \in 1..n : m.order[i] = m.active
<1>1. m.run = "up" /\ m.wait = <<>> /\ n >= 2 BY DEF cycleRoom, Free
<1>2. Places(m) BY DEF Rests, ModelInv
<1>3. n \in Nat /\ DOMAIN m.order = 1..n BY <1>2, SeqOfFacts DEF Places
<1>4. \E i \in 1..n : m.order[i] = m.active BY <1>1, <1>2, <1>3 DEF Places
<1>5. at \in 1..n BY <1>4
<1>6. m' = focus(m, m.order[((at - 1 + dir + n) % n) + 1]) BY DEF cycleRoom
<1> HIDE DEF at, n
<1>7. dir \in Nat
  <2>1. dir = 1 \/ dir = n - 1 BY DEF n
  <2> QED BY <1>1, <1>3, <2>1
<1>8. ((at - 1 + dir + n) % n) + 1 \in DOMAIN m.order
  <2>1. PICK k : k = at - 1 + dir + n OBVIOUS
  <2>2. k \in Nat BY <1>3, <1>5, <1>7, <2>1
  <2>3. k % n \in 0..(n - 1) BY <1>1, <1>3, <2>2
  <2>4. (k % n) + 1 \in 1..n BY <1>3, <2>3
  <2> QED BY <1>3, <2>1, <2>4
<1> QED BY <1>1, <1>6, <1>8, FocusRests

\* Every key.
LEMMA KeyKeeps ==
  ASSUME Rests(m), Key
  PROVE  Rests(m')
<1>1. CASE Enter
  <2>1. PICK t : t = <<Head(input.lines)>> OBVIOUS
  <2>2. m' = [m EXCEPT !.todo = t] BY <1>1, <2>1 DEF Enter
  <2> QED BY <2>2, TodoRests
<1>2. CASE \E ok, lost \in BOOLEAN : Command(ok, lost) BY <1>2, CommandKeeps
<1>3. CASE \E lost \in BOOLEAN : CtrlC(lost)
  <2>1. PICK lost \in BOOLEAN : CtrlC(lost) BY <1>3
  <2>2. m.run = "up" /\ m.wait = <<>> /\ m' = closeAll(m, lost) BY <2>1 DEF CtrlC, Free
  <2>3. ModelInv(m, 0) /\ m.relisten = 0 BY <2>2, FreeIs
  <2>4. PICK v : v = closeAll(m, lost) OBVIOUS
  <2>5. ModelInv(v, 0) /\ v.relisten = m.relisten BY <2>2, <2>3, <2>4, QuitKeeps
  <2> QED BY <2>2, <2>3, <2>4, <2>5 DEF Rests
<1>4. CASE \E dir \in {1, Len(m.order) - 1} : cycleRoom(dir) BY <1>4, CycleKeeps
<1>5. CASE \E i \in 1..Cardinality(RoomNames) : handleClick(i)
  <2>1. PICK i : handleClick(i) BY <1>5
  <2>2. m.run = "up" /\ m.wait = <<>> /\ i \in DOMAIN m.order /\ m' = focus(m, m.order[i]) BY <2>1 DEF handleClick, Free
  <2> QED BY <2>2, FocusRests
<1>6. CASE RunMacro
  <2>1. PICK t : t = Expand(m.macros, Parse(Head(m.todo)).name) \o Tail(m.todo) OBVIOUS
  <2>2. m' = [m EXCEPT !.todo = t] BY <1>6, <2>1 DEF RunMacro
  <2> QED BY <2>2, TodoRests
<1>7. CASE \E ok \in BOOLEAN : Say(ok)
  <2>1. PICK ok \in BOOLEAN : Say(ok) BY <1>7
  <2>2. m.run = "up" /\ m.wait = <<>> /\ m' = say(m, ok) BY <2>1 DEF Say, Free
  <2>3. Talks(m, m') BY <2>2, ReadyIs, SayTalks
  <2> QED BY <2>2, <2>3, TalkRests
<1> QED BY <1>1, <1>2, <1>3, <1>4, <1>5, <1>6, <1>7 DEF Key

\* The clock's tick and the sweep of expired lines.
LEMMA TimerKeeps ==
  ASSUME Rests(m), Timer
  PROVE  Rests(m')
<1>1. CASE ClockTick
  <2>1. PICK v : v = [m EXCEPT !.clockTicking = FALSE, !.ticks = @ - 1] OBVIOUS
  <2>2. HasParts(m) BY DEF Rests, ModelInv, IsModel
  <2>3. Aside(m, v) /\ v.relisten = m.relisten BY <2>1, <2>2 DEF Aside, HasParts
  <2>4. m' = v BY <1>1, <2>1 DEF ClockTick
  <2> QED BY <2>3, <2>4, AsideRests
<1>2. CASE \E cut \in 1..input.emits : Prune(cut)
  <2>1. PICK cut : Prune(cut) BY <1>2
  <2>2. PICK v : v = Pruned(m, cut) OBVIOUS
  <2>3. ModelInv(v, m.relisten) /\ v.relisten = m.relisten /\ v.wait = m.wait BY <2>2, PruneKeeps DEF Rests
  <2>4. m' = v BY <2>1, <2>2 DEF Prune, Pruned
  <2> QED BY <2>3, <2>4 DEF Rests
<1> QED BY <1>1, <1>2 DEF Timer

\* The echo that waited goes, and Update goes on.
LEMMA EchoKeeps ==
  ASSUME Rests(m), EchoGoes
  PROVE  Rests(m')
<1>1. IsModel(m) /\ m.wait # <<>> /\ Waits(m) BY DEF EchoGoes, Rests, ModelInv
<1>2. m.run = "up" /\ \E c \in DOMAIN m.cores, k \in EventKinds : m.wait = <<c, k>> BY <1>1 DEF Waits
<1>3. PICK c \in DOMAIN m.cores, k \in EventKinds : m.wait = <<c, k>> BY <1>2
<1>4. m.wait[1] = c /\ m.wait[2] = k BY <1>3
<1>5. PICK w : w = Emit(m, c, k) OBVIOUS
<1>6. Talks(m, w) BY <1>1, <1>5, EmitTalks
<1>7. PICK v : v = [w EXCEPT !.wait = <<>>] OBVIOUS
<1>8. /\ HasParts(v) /\ v.session = w.session /\ v.order = w.order /\ v.shown = w.shown /\ v.active = w.active
      /\ v.lostOnClose = w.lostOnClose /\ v.cores = w.cores /\ v.wait = <<>> /\ v.run = w.run /\ v.relisten = w.relisten
  BY <1>6, <1>7 DEF Talks, IsModel, HasParts
<1>9. IsModel(v) BY <1>6, <1>8 DEF Talks, IsModel
<1>10. Talks(m, v) BY <1>6, <1>8, <1>9 DEF Talks
<1>11. ModelInv(v, m.relisten) BY <1>2, <1>10, TalksKeeps DEF Rests
<1>12. v.relisten = m.relisten BY <1>10 DEF Talks
<1>13. m' = Relisten(v) BY <1>4, <1>5, <1>7 DEF EchoGoes
<1> QED BY <1>11, <1>12, <1>13, RelistenRests

\* So it does when the echo is dropped.
LEMMA EchoDroppedKeeps ==
  ASSUME Rests(m), EchoDropped
  PROVE  Rests(m')
<1>1. IsModel(m) /\ m.wait # <<>> /\ Waits(m) BY DEF EchoDropped, Rests, ModelInv
<1>2. m.run = "up" BY <1>1 DEF Waits
<1>3. PICK v : v = [m EXCEPT !.wait = <<>>] OBVIOUS
<1>4. /\ HasParts(v) /\ v.session = m.session /\ v.order = m.order /\ v.shown = m.shown /\ v.active = m.active
      /\ v.lostOnClose = m.lostOnClose /\ v.cores = m.cores /\ v.wait = <<>> /\ v.run = m.run /\ v.relisten = m.relisten
  BY <1>1, <1>3 DEF IsModel, HasParts
<1>5. IsModel(v) BY <1>1, <1>4 DEF IsModel
<1>6. Talks(m, v)
  <2>1. Talks(m, m) BY <1>1, StillTalks
  <2> QED BY <1>4, <1>5, <2>1 DEF Talks
<1>7. ModelInv(v, m.relisten) BY <1>2, <1>6, TalksKeeps DEF Rests
<1>8. m' = Relisten(v) BY <1>3 DEF EchoDropped
<1> QED BY <1>4, <1>7, <1>8, RelistenRests

------------------------------------------------------------------------------
(* The specification. *)

\* A model as the program starts with it.
LEMMA StartRests ==
  ASSUME NEW raw, NEW run, NEW v, v = [newModel(raw) EXCEPT !.run = run]
  PROVE  Rests(v)
<1>1. PICK k : k = newCore(First) OBVIOUS
<1>2. /\ k.room = First /\ k.st = "dialing" /\ k.left = FALSE /\ k.q = <<>> /\ k.made = 0 /\ k.pumps = 0 /\ k.posted = {}
      /\ k.lost = FALSE
  BY <1>1 DEF newCore
<1>3. IsCore(k) BY <1>1 DEF IsCore, newCore, CoreStates, Clocks
<1>4. PICK r : r = newRoom OBVIOUS
<1>5. r \in RoomRecords /\ r.client = 0 /\ r.lines = <<>> BY <1>4 DEF newRoom, RoomRecords
<1>6. PICK fs, fo, fc : fs = [n \in {First} |-> r] /\ fo = <<First>> /\ fc = <<k>> OBVIOUS
<1>7. /\ HasParts(v) /\ v.session = fs /\ v.order = fo /\ v.active = First /\ v.lostOnClose = {} /\ v.shown = {}
      /\ v.cores = fc /\ v.wait = <<>> /\ v.relisten = 0
  BY <1>1, <1>4, <1>6 DEF newModel, HasParts
<1>8. DOMAIN fc = {1} /\ fc[1] = k /\ DOMAIN fo = {1} /\ fo[1] = First /\ DOMAIN fs = {First} /\ fs[First] = r BY <1>6
<1>9. IsSeqOf(fc) /\ IsSeqOf(fo)
  <2>1. fc = [i \in 1..1 |-> fc[i]] /\ fo = [i \in 1..1 |-> fo[i]] /\ 1 \in Nat BY <1>6
  <2> QED BY <2>1, SeqOfMade
<1>10. fs \in [DOMAIN fs -> RoomRecords] BY <1>5, <1>6
<1>11. IsModel(v) BY <1>3, <1>7, <1>8, <1>9, <1>10 DEF IsModel
<1>12. DOMAIN v.cores = {1} /\ v.cores[1] = k /\ DOMAIN v.session = {First} /\ v.session[First] = r BY <1>7, <1>8
<1>13. Places(v) /\ Waits(v) BY <1>7, <1>8, <1>9 DEF Places, Waits
<1>14. LastOf(v, 1) BY <1>12 DEF LastOf
<1>15. ClientsFit(v) BY <1>5, <1>12 DEF ClientsFit
<1>16. DialsFit(v) BY <1>2, <1>12, <1>14 DEF DialsFit
<1>17. HeldOrLeft(v) BY <1>2, <1>12 DEF HeldOrLeft, Settled
<1>18. Told(v) BY <1>2, <1>12 DEF Told
<1>19. Unheard(v, 0) /\ Heard(v, 0) BY <1>2, <1>5, <1>12 DEF Unheard, Heard
<1>20. OneListener(v, 0) BY <1>2, <1>12 DEF OneListener
<1>21. InOrder(v)
  <2>1. QueueInOrder(k) BY <1>2 DEF QueueInOrder
  <2>2. LinesInOrder(<<>>, k) BY DEF LinesInOrder
  <2> QED BY <1>2, <1>5, <1>12, <2>1, <2>2 DEF InOrder
<1> QED BY <1>7, <1>11, <1>13, <1>15, <1>16, <1>17, <1>18, <1>19, <1>20, <1>21 DEF ModelInv, Rests

\* The program starts in the invariant.
LEMMA AppInvInit ==
  AppInit => AppInv
<1> SUFFICES ASSUME AppInit PROVE AppInv OBVIOUS
<1>1. PICK s \in Sittings : /\ m = [newModel(s.macros) EXCEPT !.run = IF LoadMacros(s.macros) THEN "up" ELSE "refused"]
                            /\ input = [lines |-> s.lines, arrivals |-> s.arrivals, emits |-> s.emits]
  BY DEF AppInit
<1>2. Rests(m) BY <1>1, StartRests
<1>3. s.arrivals \subseteq EventKinds BY SittingsAssumption
<1>4. input \in [lines : {input.lines}, arrivals : SUBSET EventKinds, emits : {input.emits}] BY <1>1, <1>3
<1> QED BY <1>2, <1>4 DEF AppInv, Rests

\* Every step keeps it.
LEMMA AppInvStep ==
  AppInv /\ [AppNext]_appVars => AppInv'
<1> SUFFICES ASSUME AppInv, [AppNext]_appVars PROVE AppInv' OBVIOUS
<1>1. Rests(m) BY DEF AppInv, Rests
<1>2. CASE UNCHANGED appVars BY <1>2 DEF AppInv, appVars
<1>3. CASE AppNext
  <2>1. Rests(m')
    <3>1. CASE Core BY <3>1, CoreKeeps
    <3>2. CASE Message BY <1>1, <3>2, MessageKeeps
    <3>3. CASE Key BY <1>1, <3>3, KeyKeeps
    <3>4. CASE Timer BY <1>1, <3>4, TimerKeeps
    <3>5. CASE EchoGoes BY <1>1, <3>5, EchoKeeps
    <3>7. CASE EchoDropped BY <1>1, <3>7, EchoDroppedKeeps
    <3>6. CASE Exit
      <4>1. m.run = "quit" /\ m' = Exited(m) BY <3>6 DEF Exit, Exited
      <4>2. PICK v : v = Exited(m) OBVIOUS
      <4>3. ModelInv(v, m.relisten) /\ v.relisten = m.relisten /\ v.wait = m.wait BY <1>1, <4>1, <4>2, ExitKeeps DEF Rests
      <4> QED BY <1>1, <4>1, <4>2, <4>3 DEF Rests
    <3> QED BY <1>3, <3>1, <3>2, <3>3, <3>4, <3>5, <3>6, <3>7 DEF AppNext
  <2>2. input' \in [lines : {input'.lines}, arrivals : SUBSET EventKinds, emits : {input'.emits}]
    <3>1. CASE UNCHANGED input BY <3>1 DEF AppInv
    <3>2. CASE Enter \/ \E ok \in BOOLEAN : Say(ok)
      <4>1. input \in [lines : {input.lines}, arrivals : SUBSET EventKinds, emits : {input.emits}] BY DEF AppInv
      <4>2. PICK t : t = Tail(input.lines) OBVIOUS
      <4>3. input' = [input EXCEPT !.lines = t] BY <3>2, <4>2 DEF Enter, Say
      <4> QED BY <4>1, <4>3
    <3>3. UNCHANGED input \/ Enter \/ \E ok \in BOOLEAN : Say(ok)
      BY <1>3 DEF AppNext, Core, Dialled, Arrives, Drops, Listens, Message, Connected, Gone, EventMsg, Key, RunMacro,
                  Command, CtrlC, cycleRoom, handleClick, Timer, ClockTick, Prune, EchoGoes, EchoDropped, Exit
    <3> QED BY <3>1, <3>2, <3>3
  <2> QED BY <2>1, <2>2 DEF AppInv, Rests
<1> QED BY <1>2, <1>3

\* The invariant holds throughout.
LEMMA AppInvHolds ==
  AppSpec => []AppInv
BY AppInvInit, AppInvStep, PTL DEF AppSpec

\* Every client of a room has somebody on its event channel, and a room opened once shows its
\* client's events in the order the client emitted them (listenRoom, handleRoomEvent): for
\* every channel capacity, whatever the operator types and whatever arrives, in whichever order
\* dials, messages and timers come back.
THEOREM EventsAlwaysFlow ==
  AppSpec => []EventsFlow
<1>1. AppInv => EventsFlow
  <2> SUFFICES ASSUME AppInv PROVE Pumped /\ ShownInOrder BY DEF EventsFlow
  <2>1. Pumped BY DEF AppInv, ModelInv, Heard, Pumped
  <2>2. ShownInOrder
    <3> SUFFICES ASSUME NEW n \in DOMAIN m.session, Cardinality({c \in DOMAIN m.cores : m.cores[c].room = n}) = 1
                 PROVE  \A i, j \in DOMAIN m.session[n].lines : i < j => m.session[n].lines[i].n < m.session[n].lines[j].n
      BY DEF ShownInOrder
    <3> DEFINE Of == {c \in DOMAIN m.cores : m.cores[c].room = n}
    <3>1. Len(m.cores) \in Nat /\ DOMAIN m.cores = 1..Len(m.cores) BY SeqOfFacts DEF AppInv, ModelInv, IsModel
    <3>2. IsFiniteSet(Of)
      <4>1. IsFiniteSet(1..Len(m.cores)) BY <3>1, FS_Interval
      <4>2. Of \subseteq 1..Len(m.cores) BY <3>1
      <4> QED BY <4>1, <4>2, FS_Subset
    <3>3. PICK c : Of = {c} BY <3>2, FS_Singleton
    <3>4. c \in DOMAIN m.cores /\ m.cores[c].room = n /\ OnlyOf(m, c) BY <3>3 DEF OnlyOf
    <3>5. LinesInOrder(m.session[n].lines, m.cores[c]) BY <3>4 DEF AppInv, ModelInv, InOrder
    <3> QED BY <3>5 DEF LinesInOrder
  <2> QED BY <2>1, <2>2
<1> QED BY <1>1, AppInvHolds, PTL

\* A client that came out of a dial is held by its room or closed, unless the room was left with
\* a dial still out and joined again (onRoomConnected), and what a client could not send as it
\* closed is told to the operator (leaveRoom, closeAll, Run).
THEOREM ClientsAlwaysAnswered ==
  AppSpec => []ClientsAnswered
<1>1. AppInv => ClientsAnswered
  <2> SUFFICES ASSUME AppInv PROVE ClientsHeld /\ LossTold BY DEF ClientsAnswered
  <2>1. ClientsHeld
    <3> SUFFICES ASSUME NEW c \in DOMAIN m.cores, Settled(m.cores[c]), ~Held(m, c)
                 PROVE  \E d, e \in DOMAIN m.cores :
                          d < e /\ {m.cores[d].room, m.cores[e].room} = {m.cores[c].room} /\ m.cores[d].left
      BY DEF ClientsHeld
    <3>1. PICK d, e \in DOMAIN m.cores :
            d < e /\ m.cores[d].room = m.cores[c].room /\ m.cores[e].room = m.cores[c].room /\ m.cores[d].left
      BY DEF AppInv, ModelInv, HeldOrLeft
    <3>2. {m.cores[d].room, m.cores[e].room} = {m.cores[c].room} BY <3>1
    <3> QED BY <3>1, <3>2
  <2>2. LossTold BY DEF AppInv, ModelInv, Told, LossTold
  <2> QED BY <2>1, <2>2
<1> QED BY <1>1, AppInvHolds, PTL
==============================================================================
