---------------------------- MODULE SessionProofs ----------------------------
(***************************************************************************)
(* Proofs about Session, for any finite number of clients and any scenario *)
(* that fits ScenarioShape: no bound on sends, ratchets and departures     *)
(* but the scenario's own.                                                 *)
(*                                                                         *)
(* SeatsInv says who is in the room, KeyInv which keys are under way to    *)
(* whom; AckInv, OrderInv and AgreeInv extend them to what the properties  *)
(* do not mention: the frame in the read loop's hands, the order of frames *)
(* in transit, the vanishes a member has yet to apply.                     *)
(***************************************************************************)
EXTENDS Session, SequenceTheorems, FiniteSetTheorems, FunctionTheorems,
        WellFoundedInduction, TLAPS

\* Where Server.serve is while the connection is a registered member.
Serving == {"joined", "welcomed", "replayed", "announced", "relay"}
Stages == Serving \cup {"new", "absent", "leaving", "gone"}
\* A sealed frame.
Enc == [t : {"enc"}, op : {"message", "ack", "handoff"}, from : Clients, key : Keys, n : Nat, arg : Clients]
\* Every frame a client is sent.
Frame == [t : {"welcome"}, existing : Seq(Clients)] \cup [t : {"joined", "left", "keyreq"}, who : Clients]
         \cup [t : {"key"}, from : Clients, key : Keys] \cup Enc \cup [t : {"vanish"}, from : Clients]
\* Where the read loop may be in a handler, and what it holds there.
RdStates == [at : {"idle", "reset"}] \cup [at : {"wrap"}, who : Clients, key : Keys]
            \cup [at : {"open"}, m : Enc, left : Seq(Enc), key : Keys]
            \cup [at : {"record"}, m : Enc, left : Seq(Enc)] \cup [at : {"replay"}, left : Seq(Enc) \ {<<>>}]
\* Where the caller may be in an operation.
UiStates == [at : {"idle", "vanish"}]
            \cup [at : {"seal"}, op : {"message", "ack", "handoff"}, arg : Clients, key : Keys]
            \cup [at : {"ack", "handoff"}, arg : Clients, epoch : Nat]
Budgets == [sends : Nat, vanishes : Nat, leaves : Nat]

\* What each variable holds.
SessionTypeOK ==
  /\ room \in Seq(Clients)
  /\ conn \in [Clients -> Stages]
  /\ joinRes \in [Clients -> Seq(Clients)]
  /\ todo \in [Clients -> {NoSends} \cup [to : SUBSET Clients, msg : Frame]]
  /\ \A c \in Clients : todo[c] = NoSends \/ (todo[c].msg \in Frame /\ (todo[c].to # {} \/ Stored(todo[c].msg)))
  /\ keeps \in BOOLEAN
  /\ hist \in Seq(Enc)
  /\ inbox \in [Clients -> Seq(Frame)]
  /\ members \in [Clients -> SUBSET Clients]
  /\ order \in [Clients -> Seq(Clients)]
  /\ rk \in [Clients -> Keys \cup {NoKey}]
  /\ pending \in [Clients -> Seq(Enc)]
  /\ acks \in [Clients -> SUBSET [by : Clients, epoch : Nat]]
  /\ ic \in [Clients -> Clients \cup {NoKey}]
  /\ rd \in [Clients -> RdStates]
  /\ ui \in [Clients -> UiStates]
  /\ sent \in [Clients -> Nat]
  /\ budget \in Budgets
  /\ surfaced \in [Clients -> Seq(Enc)]
  /\ raced \in BOOLEAN
  /\ slipped \subseteq Clients

------------------------------------------------------------------------------
(* Frames, the queue *)

\* What a frame of each kind carries.
LEMMA FrameFacts ==
  /\ \A m \in Frame :
       /\ m.t \in {"welcome", "joined", "left", "keyreq", "key", "enc", "vanish"}
       /\ m.t = "welcome" => m.existing \in Seq(Clients)
       /\ m.t \in {"joined", "left", "keyreq"} => m.who \in Clients
       /\ m.t = "key" => m.from \in Clients /\ m.key \in Keys
       /\ m.t = "enc" => m \in Enc
  /\ \A m \in Enc : /\ m \in Frame /\ m.t = "enc" /\ m.op \in {"message", "ack", "handoff"} /\ m.from \in Clients
                    /\ m.key \in Keys /\ m.n \in Nat /\ m.arg \in Clients
BY DEF Frame, Enc

\* What the relay and the clients put together is a frame.
LEMMA FrameShapes ==
  /\ \A s \in Seq(Clients) : [t |-> "welcome", existing |-> s] \in Frame
  /\ \A c \in Clients : /\ [t |-> "joined", who |-> c] \in Frame /\ [t |-> "left", who |-> c] \in Frame
                        /\ [t |-> "keyreq", who |-> c] \in Frame /\ [t |-> "vanish", from |-> c] \in Frame
  /\ \A c \in Clients, k \in Keys : [t |-> "key", from |-> c, key |-> k] \in Frame
  /\ \A c, a \in Clients, k \in Keys, n \in Nat, op \in {"message", "ack", "handoff"} :
       [t |-> "enc", op |-> op, from |-> c, key |-> k, n |-> n, arg |-> a] \in Enc
BY DEF Frame, Enc

\* A ratchet keeps where a key came from and moves it one epoch on; a key is its three parts.
LEMMA KeyFacts ==
  /\ \A k \in Keys : /\ k # NoKey /\ k.epoch \in Nat /\ k.by \in Clients \cup {Zeroed} /\ k.root \in Nat
                     /\ Ratcheted(k) \in Keys /\ Ratcheted(k).epoch = k.epoch + 1
                     /\ Ratcheted(k).by = k.by /\ Ratcheted(k).root = k.root
                     /\ Wiped(k) \in Keys /\ Wiped(Wiped(k)) = Wiped(k)
  /\ Ratcheted(NoKey) = NoKey
  /\ \A c \in Clients : [by |-> c, root |-> 0, epoch |-> 0] \in Keys
  /\ \A k, l \in Keys : (k.by = l.by /\ k.root = l.root /\ k.epoch = l.epoch) => k = l
<1>1. \A k \in Keys : Wiped(k) \in Keys /\ Wiped(k).by = Zeroed /\ Wiped(k).root = k.epoch /\ Wiped(k).epoch = k.epoch
  BY DEF Keys, Wiped
<1>2. \A k, l \in Keys : (k.by = l.by /\ k.root = l.root /\ k.epoch = l.epoch) => k = l
  BY DEF Keys
<1>3. \A k \in Keys : Wiped(Wiped(k)) = Wiped(k) BY <1>1, <1>2
<1>4. \A k \in Keys : k # NoKey BY KeyMarks
<1>5. \A k \in Keys : /\ k.epoch \in Nat /\ k.by \in Clients \cup {Zeroed} /\ k.root \in Nat
                      /\ Ratcheted(k) \in Keys /\ Ratcheted(k).epoch = k.epoch + 1
                      /\ Ratcheted(k).by = k.by /\ Ratcheted(k).root = k.root
  BY <1>4 DEF Keys, Ratcheted
<1>6. Ratcheted(NoKey) = NoKey BY DEF Ratcheted
<1>7. \A c \in Clients : [by |-> c, root |-> 0, epoch |-> 0] \in Keys BY DEF Keys
<1> QED BY <1>1, <1>2, <1>3, <1>4, <1>5, <1>6, <1>7

\* What the read loop holds at each point.
LEMMA RdFacts ==
  /\ \A x \in RdStates :
       /\ x.at \in {"idle", "reset", "wrap", "open", "record", "replay"}
       /\ x.at = "wrap" => x.who \in Clients /\ x.key \in Keys
       /\ x.at = "open" => x.m \in Enc /\ x.left \in Seq(Enc) /\ x.key \in Keys
       /\ x.at = "record" => x.m \in Enc /\ x.left \in Seq(Enc)
       /\ x.at = "replay" => x.left \in Seq(Enc) /\ x.left # <<>>
       /\ x.at = "idle" <=> x = Idle
       /\ "key" \in DOMAIN x <=> x.at \in {"wrap", "open"}
  /\ \A s \in Seq(Enc) : /\ Resume(s) \in RdStates
                         /\ Resume(s).at \in {"idle", "replay"}
                         /\ Resume(s).at = "replay" => Resume(s).left = s
                         /\ Resume(s).at = "idle" <=> s = <<>>
  /\ Idle \in RdStates /\ Idle.at = "idle" /\ [at |-> "reset"] \in RdStates
  /\ \A c \in Clients, k \in Keys : [at |-> "wrap", who |-> c, key |-> k] \in RdStates
  /\ \A m \in Enc, s \in Seq(Enc), k \in Keys : /\ [at |-> "open", m |-> m, left |-> s, key |-> k] \in RdStates
                                                /\ [at |-> "record", m |-> m, left |-> s] \in RdStates
BY DEF RdStates, Resume, Idle

\* A bound that is not used up.
LEMMA BudgetFacts ==
  \A b \in Budgets : /\ b.sends > 0 => [b EXCEPT !.sends = @ - 1] \in Budgets
                     /\ b.vanishes > 0 => [b EXCEPT !.vanishes = @ - 1] \in Budgets
                     /\ b.leaves > 0 => [b EXCEPT !.leaves = @ - 1] \in Budgets
<1>1. \A n \in Nat : n > 0 => n - 1 \in Nat OBVIOUS
<1> QED BY <1>1 DEF Budgets

\* What the caller holds at each point.
LEMMA UiFacts ==
  /\ \A x \in UiStates :
       /\ x.at \in {"idle", "vanish", "seal", "ack", "handoff"}
       /\ x.at = "seal" => x.op \in {"message", "ack", "handoff"} /\ x.arg \in Clients /\ x.key \in Keys
       /\ x.at \in {"ack", "handoff"} => x.arg \in Clients /\ x.epoch \in Nat
       /\ x.at = "idle" <=> x = Idle
       /\ "key" \in DOMAIN x <=> x.at = "seal"
  /\ Idle \in UiStates /\ Idle.at = "idle" /\ [at |-> "vanish"] \in UiStates
  /\ \A op \in {"message", "ack", "handoff"}, a \in Clients, k \in Keys :
       [at |-> "seal", op |-> op, arg |-> a, key |-> k] \in UiStates
  /\ \A op \in {"ack", "handoff"}, a \in Clients, e \in Nat : [at |-> op, arg |-> a, epoch |-> e] \in UiStates
BY DEF UiStates, Idle

\* RoomKey.Zero under the read loop: only the bytes behind its pointer change.
LEMMA WipeRd ==
  ASSUME SessionTypeOK, NEW c \in Clients
  PROVE  /\ ZeroHeld(rd, c) \in [Clients -> RdStates]
         /\ \A d \in Clients : d # c => ZeroHeld(rd, c)[d] = rd[d]
         /\ LET x == ZeroHeld(rd, c)[c]
            IN  /\ x.at = rd[c].at
                /\ x.at = "wrap" => x.who = rd[c].who
                /\ x.at = "open" => x.m = rd[c].m /\ x.left = rd[c].left
                /\ x.at \in {"wrap", "open"} => x.key = IF rk[c] = NoKey THEN rd[c].key ELSE Wiped(rd[c].key)
                /\ x.at \notin {"wrap", "open"} \/ rk[c] = NoKey => x = rd[c]
<1>0. rd \in [Clients -> RdStates] /\ rd[c] \in RdStates BY DEF SessionTypeOK
<1>1. CASE ~("key" \in DOMAIN rd[c] /\ rk[c] # NoKey)
  <2>1. ZeroHeld(rd, c) = rd BY <1>1 DEF ZeroHeld
  <2> QED BY <2>1, <1>0, <1>1, RdFacts
<1>2. CASE "key" \in DOMAIN rd[c] /\ rk[c] # NoKey
  <2>1. PICK x : x = rd[c] OBVIOUS
  <2>2. PICK y : y = [x EXCEPT !.key = Wiped(@)] OBVIOUS
  <2>3. x \in RdStates /\ x.at \in {"wrap", "open"} BY <2>1, <1>0, <1>2, RdFacts
  <2>4. Wiped(x.key) \in Keys BY <2>3, RdFacts, KeyFacts
  <2>5. /\ y \in RdStates /\ y.at = x.at /\ y.key = Wiped(x.key)
        /\ y.at = "wrap" => y.who = x.who
        /\ y.at = "open" => y.m = x.m /\ y.left = x.left
    BY <2>2, <2>3, <2>4 DEF RdStates
  <2>6. ZeroHeld(rd, c) = [rd EXCEPT ![c] = y] BY <1>2, <2>1, <2>2 DEF ZeroHeld
  <2> HIDE DEF ZeroHeld
  <2> QED BY <2>1, <2>3, <2>5, <2>6, <1>0, <1>2
<1> QED BY <1>1, <1>2

\* The same under the caller.
LEMMA WipeUi ==
  ASSUME SessionTypeOK, NEW c \in Clients
  PROVE  /\ ZeroHeld(ui, c) \in [Clients -> UiStates]
         /\ \A d \in Clients : ZeroHeld(ui, c)[d].at = ui[d].at
<1>0. ui \in [Clients -> UiStates] /\ ui[c] \in UiStates BY DEF SessionTypeOK
<1>1. CASE ~("key" \in DOMAIN ui[c] /\ rk[c] # NoKey)
  BY <1>0, <1>1 DEF ZeroHeld
<1>2. CASE "key" \in DOMAIN ui[c] /\ rk[c] # NoKey
  <2>1. PICK x : x = ui[c] OBVIOUS
  <2>2. PICK y : y = [x EXCEPT !.key = Wiped(@)] OBVIOUS
  <2>3. x \in UiStates /\ x.at = "seal" BY <2>1, <1>0, <1>2, UiFacts
  <2>4. Wiped(x.key) \in Keys BY <2>3, UiFacts, KeyFacts
  <2>5. y \in UiStates /\ y.at = x.at BY <2>2, <2>3, <2>4 DEF UiStates
  <2>6. ZeroHeld(ui, c) = [ui EXCEPT ![c] = y] BY <1>2, <2>1, <2>2 DEF ZeroHeld
  <2> HIDE DEF ZeroHeld
  <2> QED BY <2>1, <2>3, <2>5, <2>6, <1>0
<1> QED BY <1>1, <1>2

------------------------------------------------------------------------------
(* What a step does to the queues. *)

\* The read loop takes the first frame; the others move up.
LEMMA TakenIs ==
  ASSUME SessionTypeOK, NEW c \in Clients, inbox[c] # <<>>, Taken(c)
  PROVE  /\ inbox' \in [Clients -> Seq(Frame)]
         /\ Head(inbox[c]) = inbox[c][1] /\ inbox[c][1] \in Frame /\ 1 \in DOMAIN inbox[c]
         /\ inbox'[c] = Tail(inbox[c])
         /\ \A d \in Clients : d # c => inbox'[d] = inbox[d]
         /\ \A i \in DOMAIN inbox'[c] : i \in Nat /\ i # 0 /\ i + 1 \in DOMAIN inbox[c] /\ inbox'[c][i] = inbox[c][i + 1]
<1>0. inbox \in [Clients -> Seq(Frame)] /\ inbox[c] \in Seq(Frame) BY DEF SessionTypeOK
<1>1. PICK s : s = inbox[c] OBVIOUS
<1>2. PICK u : u = Tail(s) OBVIOUS
<1>3. /\ Head(s) \in Frame /\ u \in Seq(Frame) /\ Len(u) = Len(s) - 1 /\ Len(s) \in Nat /\ Len(s) > 0
      /\ \A i \in 1..Len(u) : u[i] = s[i + 1]
  BY <1>0, <1>1, <1>2, HeadTailProperties, EmptySeq, LenProperties
<1>4. DOMAIN s = 1..Len(s) /\ DOMAIN u = 1..Len(u) BY <1>0, <1>1, <1>3
<1>5. Head(s) = s[1] BY <1>0, <1>1
<1>6. inbox' = [inbox EXCEPT ![c] = u] BY <1>1, <1>2 DEF Taken
<1>7. inbox'[c] = u /\ inbox' \in [Clients -> Seq(Frame)] /\ \A d \in Clients : d # c => inbox'[d] = inbox[d]
  BY <1>0, <1>3, <1>6
<1>8. \A i \in DOMAIN u : i \in Nat /\ i # 0 /\ i + 1 \in DOMAIN s /\ u[i] = s[i + 1] BY <1>3, <1>4
<1> QED BY <1>1, <1>2, <1>3, <1>4, <1>5, <1>7, <1>8

\* Frames queued: what was there stays, what is new is behind it.
LEMMA QueuedIs ==
  ASSUME SessionTypeOK, NEW d \in Clients, NEW msgs \in Seq(Frame), Queued(d, msgs)
  PROVE  /\ inbox' \in [Clients -> Seq(Frame)]
         /\ \A e \in Clients : e # d => inbox'[e] = inbox[e]
         /\ ~Overflows(d, msgs) => inbox'[d] = inbox[d] \o msgs
         /\ \A i \in DOMAIN inbox'[d] : \/ i \in DOMAIN inbox[d] /\ inbox'[d][i] = inbox[d][i]
                                        \/ \E j \in DOMAIN msgs : i = Len(inbox[d]) + j /\ inbox'[d][i] = msgs[j]
<1>0. inbox \in [Clients -> Seq(Frame)] /\ inbox[d] \in Seq(Frame) BY DEF SessionTypeOK
<1>1. PICK s : s = inbox[d] OBVIOUS
<1>2. PICK u : u = s \o msgs OBVIOUS
<1>3. /\ u \in Seq(Frame) /\ Len(u) = Len(s) + Len(msgs) /\ Len(s) \in Nat /\ Len(msgs) \in Nat
      /\ \A i \in 1..(Len(s) + Len(msgs)) : u[i] = IF i <= Len(s) THEN s[i] ELSE msgs[i - Len(s)]
      /\ DOMAIN s = 1..Len(s) /\ DOMAIN msgs = 1..Len(msgs) /\ DOMAIN u = 1..Len(u)
  <2>1. s \in Seq(Frame) BY <1>0, <1>1
  <2>2. /\ u \in Seq(Frame) /\ Len(u) = Len(s) + Len(msgs)
        /\ \A i \in 1..(Len(s) + Len(msgs)) : u[i] = IF i <= Len(s) THEN s[i] ELSE msgs[i - Len(s)]
    BY <2>1, <1>2, ConcatProperties
  <2> QED BY <2>1, <2>2, LenProperties
<1>4. PICK v : v = IF Overflows(d, msgs) THEN SubSeq(u, 1, OutCap) ELSE u OBVIOUS
<1>5. inbox' = [inbox EXCEPT ![d] = v] BY <1>1, <1>2, <1>4 DEF Queued
<1>6. v \in Seq(Frame) /\ \A i \in DOMAIN v : i \in DOMAIN u /\ v[i] = u[i]
  <2>1. CASE Overflows(d, msgs)
    <3>1. OutCap \in Nat /\ OutCap < Len(u) BY <2>1, <1>1, <1>3, SessionBounds DEF Overflows
    <3>2. \A i \in 1..OutCap : u[i] \in Frame BY <3>1, <1>3
    <3>3. v = SubSeq(u, 1, OutCap) BY <2>1, <1>4
    <3>4. v \in Seq(Frame) /\ Len(v) = OutCap /\ \A i \in 1..OutCap : v[i] = u[i]
      BY <3>1, <3>2, <3>3, <1>3
    <3> QED BY <3>1, <3>4, <1>3
  <2>2. CASE ~Overflows(d, msgs) BY <2>2, <1>3, <1>4
  <2> QED BY <2>1, <2>2
<1>7. inbox'[d] = v /\ inbox' \in [Clients -> Seq(Frame)] /\ \A e \in Clients : e # d => inbox'[e] = inbox[e]
  BY <1>0, <1>5, <1>6
<1>8. ASSUME NEW i \in DOMAIN v
      PROVE  \/ i \in DOMAIN s /\ v[i] = s[i]
             \/ \E j \in DOMAIN msgs : i = Len(s) + j /\ v[i] = msgs[j]
  <2>1. i \in 1..(Len(s) + Len(msgs)) /\ v[i] = u[i] BY <1>3, <1>6
  <2>2. CASE i <= Len(s) BY <2>1, <2>2, <1>3
  <2>3. CASE ~(i <= Len(s))
    <3>1. i - Len(s) \in DOMAIN msgs /\ i = Len(s) + (i - Len(s)) BY <2>1, <2>3, <1>3
    <3> QED BY <3>1, <2>1, <2>3, <1>3
  <2> QED BY <2>2, <2>3
<1> QED BY <1>1, <1>2, <1>4, <1>7, <1>8

\* One frame queued.
LEMMA QueuedOneIs ==
  ASSUME SessionTypeOK, NEW d \in Clients, NEW m \in Frame, Queued(d, <<m>>)
  PROVE  /\ inbox' \in [Clients -> Seq(Frame)]
         /\ \A e \in Clients : e # d => inbox'[e] = inbox[e]
         /\ ~Overflows(d, <<m>>) => inbox'[d] = Append(inbox[d], m)
         /\ \A i \in DOMAIN inbox'[d] : \/ i \in DOMAIN inbox[d] /\ inbox'[d][i] = inbox[d][i]
                                        \/ i = Len(inbox[d]) + 1 /\ inbox'[d][i] = m
<1>1. <<m>> \in Seq(Frame) /\ DOMAIN <<m>> = {1} /\ <<m>>[1] = m OBVIOUS
<1>2. inbox[d] \in Seq(Frame) BY DEF SessionTypeOK
<1>3. Append(inbox[d], m) = inbox[d] \o <<m>> BY <1>2, AppendIsConcat
<1>4. PICK msgs \in Seq(Frame) : msgs = <<m>> BY <1>1
<1>5. /\ inbox' \in [Clients -> Seq(Frame)]
      /\ \A e \in Clients : e # d => inbox'[e] = inbox[e]
      /\ ~Overflows(d, msgs) => inbox'[d] = inbox[d] \o msgs
      /\ \A i \in DOMAIN inbox'[d] : \/ i \in DOMAIN inbox[d] /\ inbox'[d][i] = inbox[d][i]
                                     \/ \E j \in DOMAIN msgs : i = Len(inbox[d]) + j /\ inbox'[d][i] = msgs[j]
  BY <1>4, QueuedIs
<1>6. DOMAIN msgs = {1} /\ msgs[1] = m BY <1>1, <1>4
<1> QED BY <1>3, <1>4, <1>5, <1>6

------------------------------------------------------------------------------
(* hub.Leave and onMemberLeft take the first listing out. *)

\* RemoveFirst takes one listing out and closes the gap.
LEMMA RemoveFirstIs ==
  ASSUME NEW S, NEW s \in Seq(S), NEW e \in {s[i] : i \in DOMAIN s}
  PROVE  \E m \in 1..Len(s) :
           /\ s[m] = e
           /\ RemoveFirst(s, e) \in Seq(S) /\ Len(RemoveFirst(s, e)) = Len(s) - 1
           /\ \A i \in 1..Len(RemoveFirst(s, e)) :
                RemoveFirst(s, e)[i] = IF i < m THEN s[i] ELSE s[i + 1]
<1> DEFINE I == {i \in 1..Len(s) : s[i] = e}
<1>0. Len(s) \in Nat /\ DOMAIN s = 1..Len(s) /\ \A i \in 1..Len(s) : s[i] \in S OBVIOUS
<1>1. PICK k \in I : TRUE BY <1>0
<1>2. PICK m \in I : \A j \in I : m <= j
  <2> DEFINE R == OpToRel(<, Nat)
  <2>1. I \subseteq Nat BY <1>0
  <2>2. IsWellFoundedOn(R, Nat) BY NatLessThanWellFounded, Zenon
  <2>3. PICK x \in I : \A y \in I : ~(<<y, x>> \in R)
    <3> HIDE DEF R, I
    <3> QED BY <1>1, <2>1, <2>2, WFMin
  <2>4. \A y \in I : ~(y < x) BY <2>1, <2>3 DEF OpToRel
  <2> HIDE DEF I
  <2> QED BY <2>1, <2>4
<1>3. Min(I) = m
  <2>1. Min(I) \in I /\ \A y \in I : Min(I) <= y BY <1>2 DEF Min
  <2> QED BY <2>1, <1>0, <1>2
<1>4. PICK u : u = RemoveFirst(s, e) OBVIOUS
<1>5. u = RemoveAt(s, m)
  <2>1. u = RemoveAt(s, SelectInSeq(s, LAMBDA v : v = e)) BY <1>0, <1>1, <1>4 DEF RemoveFirst
  <2>2. SelectInSeq(s, LAMBDA v : v = e) = m BY <1>1, <1>3 DEF SelectInSeq
  <2> QED BY <2>1, <2>2
<1>6. PICK a : a = SubSeq(s, 1, m - 1) OBVIOUS
<1>7. PICK b : b = SubSeq(s, m + 1, Len(s)) OBVIOUS
<1>8. m \in 1..Len(s) /\ s[m] = e OBVIOUS
<1> HIDE DEF I
<1>9. PICK n : n = Len(s) OBVIOUS
<1>10. n \in Nat /\ m \in 1..n BY <1>0, <1>8, <1>9
<1>11. a \in Seq(S) /\ Len(a) = m - 1 /\ \A i \in 1..(m - 1) : a[i] = s[i] BY <1>0, <1>6, <1>9, <1>10
<1>12. /\ b \in Seq(S) /\ Len(b) = n - m
       /\ \A i \in 1..(n - m) : b[i] = s[i + m]
  <2>1. \A i \in (m + 1)..n : s[i] \in S BY <1>0, <1>9, <1>10
  <2>2. m + 1 \in Int /\ n \in Int BY <1>10
  <2>3. /\ b \in Seq(S)
        /\ Len(b) = IF m + 1 <= n THEN n - (m + 1) + 1 ELSE 0
        /\ \A i \in 1..(n - (m + 1) + 1) : b[i] = s[m + 1 + i - 1]
    BY <2>1, <2>2, <1>7, <1>9, SubSeqProperties
  <2>4. n - (m + 1) + 1 = n - m /\ (IF m + 1 <= n THEN n - (m + 1) + 1 ELSE 0) = n - m BY <1>10
  <2>5. \A i \in 1..(n - m) : m + 1 + i - 1 = i + m BY <1>10
  <2> QED BY <2>3, <2>4, <2>5
<1>13. u = a \o b BY <1>5, <1>6, <1>7 DEF RemoveAt
<1>14. /\ u \in Seq(S) /\ Len(u) = Len(a) + Len(b)
       /\ \A i \in 1..(Len(a) + Len(b)) : u[i] = IF i <= Len(a) THEN a[i] ELSE b[i - Len(a)]
  BY <1>11, <1>12, <1>13, ConcatProperties
<1>15. Len(u) = n - 1 BY <1>10, <1>11, <1>12, <1>14
<1>16. ASSUME NEW i \in 1..Len(u) PROVE u[i] = IF i < m THEN s[i] ELSE s[i + 1]
  <2>1. u[i] = IF i <= m - 1 THEN a[i] ELSE b[i - (m - 1)] BY <1>11, <1>12, <1>14
  <2>2. CASE i < m
    <3>1. i \in 1..(m - 1) /\ i <= m - 1 BY <2>2, <1>10, <1>15
    <3> QED BY <2>1, <2>2, <3>1, <1>11
  <2>3. CASE ~(i < m)
    <3>1. i - (m - 1) \in 1..(n - m) /\ ~(i <= m - 1) /\ i - (m - 1) + m = i + 1 BY <2>3, <1>10, <1>15
    <3> QED BY <2>1, <2>3, <3>1, <1>12
  <2> QED BY <2>2, <2>3
<1> QED BY <1>4, <1>8, <1>9, <1>14, <1>15, <1>16

\* It makes a sequence of the same members, whether or not the one named is listed.
LEMMA RemoveFirstType ==
  ASSUME NEW S, NEW s \in Seq(S), NEW e
  PROVE  RemoveFirst(s, e) \in Seq(S)
<1>1. CASE e \in {s[i] : i \in DOMAIN s} BY <1>1, RemoveFirstIs
<1>2. CASE e \notin {s[i] : i \in DOMAIN s} BY <1>2 DEF RemoveFirst
<1> QED BY <1>1, <1>2

------------------------------------------------------------------------------
(* Types. *)

\* The sends left of a broadcast.
LEMMA SendsType ==
  ASSUME SessionTypeOK, NEW c \in Clients, NEW to \in SUBSET Clients, NEW m \in Frame,
         keeps' = keeps, todo' = [todo EXCEPT ![c] = Sends(to, m)]
  PROVE  /\ todo' \in [Clients -> {NoSends} \cup [to : SUBSET Clients, msg : Frame]]
         /\ \A d \in Clients : todo'[d] = NoSends \/ (todo'[d].msg \in Frame /\ (todo'[d].to # {} \/ Stored(todo[d].msg)'))
<1>1. PICK x : x = Sends(to, m) OBVIOUS
<1>2. PICK T : T = {NoSends} \cup [to : SUBSET Clients, msg : Frame] OBVIOUS
<1>3. x \in T BY <1>1, <1>2 DEF Sends
<1>4. x = NoSends \/ (x.msg \in Frame /\ (x.to # {} \/ Stored(x.msg))) BY <1>1 DEF Sends
<1>5. \A f \in Frame : Stored(f)' <=> Stored(f) BY DEF Stored
<1>6. todo \in [Clients -> T] BY <1>2 DEF SessionTypeOK
<1>7. todo' = [todo EXCEPT ![c] = x] BY <1>1
<1>8. todo' \in [Clients -> T] /\ todo'[c] = x /\ \A d \in Clients : d # c => todo'[d] = todo[d]
  BY <1>3, <1>6, <1>7
<1>9. ASSUME NEW d \in Clients
      PROVE  todo'[d] = NoSends \/ (todo'[d].msg \in Frame /\ (todo'[d].to # {} \/ Stored(todo[d].msg)'))
  <2>1. PICK y : y = todo'[d] OBVIOUS
  <2>2. y = NoSends \/ (y.msg \in Frame /\ (y.to # {} \/ Stored(y.msg)))
    BY <2>1, <1>4, <1>8 DEF SessionTypeOK
  <2>3. y = NoSends \/ (y.msg \in Frame /\ (y.to # {} \/ Stored(y.msg)')) BY <2>2, <1>5
  <2> QED BY <2>1, <2>3 DEF Stored
<1> QED BY <1>2, <1>8, <1>9

\* Every scenario starts well typed.
LEMMA SessionTypeInit == Init => SessionTypeOK
<1> SUFFICES ASSUME Init PROVE SessionTypeOK OBVIOUS
<1>1. PICK r \in Scenarios : Seated(r) BY DEF Init
<1>2. /\ r.seated \in Seq(Clients) /\ r.budget \in Budgets /\ r.keeps \in BOOLEAN
  BY ScenarioShape DEF Budgets
<1>3. PICK in : in = ToSet(r.seated) OBVIOUS
<1>4. in \subseteq Clients BY <1>2, <1>3 DEF ToSet
<1>5. ASSUME NEW c \in in PROVE Head(r.seated) \in Clients
  <2>1. r.seated # <<>> BY <1>2, <1>3, <1>5 DEF ToSet
  <2> QED BY <2>1, <1>2
<1>6. \A c \in in : [by |-> Head(r.seated), root |-> 0, epoch |-> 0] \in Keys BY <1>5, KeyFacts
<1>7. rk \in [Clients -> Keys \cup {NoKey}]
  <2>1. PICK k : k = [by |-> Head(r.seated), root |-> 0, epoch |-> 0] OBVIOUS
  <2>2. rk = [c \in Clients |-> IF c \in in THEN k ELSE NoKey] BY <1>1, <1>3, <2>1 DEF Seated
  <2> QED BY <2>1, <2>2, <1>6
<1>8. /\ room \in Seq(Clients) /\ conn \in [Clients -> Stages] /\ members \in [Clients -> SUBSET Clients]
      /\ order \in [Clients -> Seq(Clients)] /\ budget \in Budgets /\ keeps \in BOOLEAN
      /\ ic \in [Clients -> Clients \cup {NoKey}]
  BY <1>1, <1>2, <1>3, <1>4, <1>5 DEF Seated, Stages, Serving
<1>9. Idle \in RdStates /\ Idle \in UiStates BY RdFacts, UiFacts
<1>10. /\ todo \in [Clients -> {NoSends} \cup [to : SUBSET Clients, msg : Frame]]
       /\ \A c \in Clients : todo[c] = NoSends
  BY DEF Init
<1>11. /\ rd \in [Clients -> RdStates] /\ ui \in [Clients -> UiStates] /\ sent \in [Clients -> Nat]
       /\ raced \in BOOLEAN /\ slipped \subseteq Clients /\ acks \in [Clients -> SUBSET [by : Clients, epoch : Nat]]
  BY <1>9 DEF Init
<1>12. /\ hist \in Seq(Enc) /\ joinRes \in [Clients -> Seq(Clients)] /\ inbox \in [Clients -> Seq(Frame)]
       /\ pending \in [Clients -> Seq(Enc)] /\ surfaced \in [Clients -> Seq(Enc)]
  BY DEF Init
<1> QED BY <1>7, <1>8, <1>10, <1>11, <1>12 DEF SessionTypeOK

\* handleEncrypted keeps the types.
LEMMA HandleEncryptedType ==
  ASSUME SessionTypeOK, NEW c \in Clients, NEW m \in Enc, NEW left \in Seq(Enc), HandleEncrypted(c, m, left)
  PROVE  pending' \in [Clients -> Seq(Enc)] /\ rd' \in [Clients -> RdStates]
<1>1. Append(pending[c], m) \in Seq(Enc) BY DEF SessionTypeOK
<1>2. PICK x : x = IF rk[c] = NoKey \/ m.from \notin members[c] THEN Resume(left)
                   ELSE [at |-> "open", m |-> m, left |-> left, key |-> rk[c]] OBVIOUS
<1>3. rk[c] \in Keys \cup {NoKey} BY DEF SessionTypeOK
<1>4. x \in RdStates BY <1>2, <1>3, RdFacts
<1>5. rd' = [rd EXCEPT ![c] = x] BY <1>2 DEF HandleEncrypted
<1> QED BY <1>1, <1>4, <1>5 DEF SessionTypeOK, HandleEncrypted

\* So does every step of the relay.
LEMMA SessionTypeRelay ==
  ASSUME SessionTypeOK, NEW c \in Clients, RelayStep(c) \/ Leave(c)
  PROVE  SessionTypeOK'
<1> USE DEF relayVars, clientVars, countVars
<1>0. Present \in SUBSET Clients BY DEF SessionTypeOK, Present, ToSet
<1>1. CASE Join(c)
  <2>1. room' \in Seq(Clients) BY <1>1 DEF Join, SessionTypeOK
  <2>2. joinRes' \in [Clients -> Seq(Clients)] BY <1>1 DEF Join, SessionTypeOK
  <2>3. conn' \in [Clients -> Stages] /\ raced' \in BOOLEAN BY <1>1 DEF Join, SessionTypeOK, Stages, Serving
  <2> QED BY <1>1, <2>1, <2>2, <2>3 DEF Join, SessionTypeOK, Stored
<1>2. CASE SendWelcome(c)
  <2>1. PICK m \in Frame : m = [t |-> "welcome", existing |-> joinRes[c]] BY FrameShapes DEF SessionTypeOK
  <2>2. inbox' \in [Clients -> Seq(Frame)] BY <1>2, <2>1, QueuedOneIs DEF SendWelcome
  <2>3. conn' \in [Clients -> Stages] /\ raced' \in BOOLEAN BY <1>2 DEF SendWelcome, SessionTypeOK, Stages, Serving
  <2> QED BY <1>2, <2>2, <2>3 DEF SendWelcome, SessionTypeOK, Stored
<1>3. CASE Replay(c)
  <2>1. hist \in Seq(Frame) BY FrameFacts, SeqMonotonic DEF SessionTypeOK
  <2>2. inbox' \in [Clients -> Seq(Frame)] BY <1>3, <2>1, QueuedIs DEF Replay
  <2>3. conn' \in [Clients -> Stages] /\ raced' \in BOOLEAN BY <1>3 DEF Replay, SessionTypeOK, Stages, Serving
  <2> QED BY <1>3, <2>2, <2>3 DEF Replay, SessionTypeOK, Stored
<1>4. CASE Announce(c)
  <2>1. PICK m \in Frame : m = [t |-> "joined", who |-> c] BY FrameShapes
  <2>2. /\ todo' \in [Clients -> {NoSends} \cup [to : SUBSET Clients, msg : Frame]]
        /\ \A d \in Clients : todo'[d] = NoSends \/ (todo'[d].msg \in Frame /\ (todo'[d].to # {} \/ Stored(todo[d].msg)'))
    BY <1>0, <1>4, <2>1, SendsType DEF Announce, Broadcast
  <2>3. conn' \in [Clients -> Stages] BY <1>4 DEF Announce, SessionTypeOK, Stages, Serving
  <2> QED BY <1>4, <2>2, <2>3 DEF Announce, SessionTypeOK
<1>5. CASE AskDistributor(c)
  <2>1. PICK m \in Frame : m = [t |-> "keyreq", who |-> c] BY FrameShapes
  <2>2. inbox' \in [Clients -> Seq(Frame)] /\ raced' \in BOOLEAN
    <3>1. CASE joinRes[c] = <<>> \/ conn[Head(joinRes[c])] \in {"leaving", "gone"}
      BY <1>5, <3>1 DEF AskDistributor, SessionTypeOK
    <3>2. CASE ~(joinRes[c] = <<>> \/ conn[Head(joinRes[c])] \in {"leaving", "gone"})
      <4>1. Head(joinRes[c]) \in Clients BY <3>2 DEF SessionTypeOK
      <4>2. Queued(Head(joinRes[c]), <<m>>) BY <1>5, <2>1, <3>2 DEF AskDistributor
      <4>3. raced' \in BOOLEAN BY <1>5, <3>2 DEF AskDistributor, SessionTypeOK
      <4> QED BY <4>1, <4>2, <4>3, QueuedOneIs
    <3> QED BY <3>1, <3>2
  <2>3. conn' \in [Clients -> Stages] BY <1>5 DEF AskDistributor, SessionTypeOK, Stages, Serving
  <2> QED BY <1>5, <2>2, <2>3 DEF AskDistributor, SessionTypeOK, Stored
<1>6. CASE Depart(c)
  <2>1. PICK m \in Frame : m = [t |-> "left", who |-> c] BY FrameShapes
  <2>2. /\ todo' \in [Clients -> {NoSends} \cup [to : SUBSET Clients, msg : Frame]]
        /\ \A d \in Clients : todo'[d] = NoSends \/ (todo'[d].msg \in Frame /\ (todo'[d].to # {} \/ Stored(todo[d].msg)'))
    BY <1>0, <1>6, <2>1, SendsType DEF Depart, Broadcast
  <2>3. conn' \in [Clients -> Stages] BY <1>6 DEF Depart, SessionTypeOK, Stages, Serving
  <2> QED BY <1>6, <2>2, <2>3 DEF Depart, SessionTypeOK
<1>7. CASE Store(c)
  <2>1. todo[c].msg \in Enc
    <3>1. todo[c].msg \in Frame /\ Stored(todo[c].msg) BY <1>7 DEF Store, SessionTypeOK
    <3> QED BY <3>1, FrameFacts DEF Stored
  <2>2. PICK m \in Enc : m = todo[c].msg BY <2>1
  <2>3. PICK h : h = Append(hist, m) OBVIOUS
  <2>4. h \in Seq(Enc) /\ Len(h) = Len(hist) + 1 /\ Len(hist) \in Nat BY <2>2, <2>3 DEF SessionTypeOK
  <2>5. hist' \in Seq(Enc)
    <3>1. PICK k \in {1, 2} : hist' = SubSeq(h, k, Len(hist) + 1)
      <4>1. hist' = SubSeq(h, IF Len(hist) < History THEN 1 ELSE 2, Len(hist) + 1) BY <1>7, <2>2, <2>3 DEF Store
      <4> QED BY <4>1
    <3>2. \A i \in k..(Len(hist) + 1) : h[i] \in Enc BY <2>4, <3>1
    <3>3. k \in Int /\ Len(hist) + 1 \in Int BY <2>4
    <3> QED BY <3>1, <3>2, <3>3, SubSeqProperties
  <2>6. todo' = [todo EXCEPT ![c] = NoSends] /\ keeps' = keeps BY <1>7 DEF Store
  <2>7. \A f \in Frame : Stored(f)' <=> Stored(f) BY <2>6 DEF Stored
  <2>8. /\ todo' \in [Clients -> {NoSends} \cup [to : SUBSET Clients, msg : Frame]]
        /\ \A d \in Clients : todo'[d] = NoSends \/ todo'[d] = todo[d]
    BY <2>6 DEF SessionTypeOK
  <2>9. \A d \in Clients : todo'[d] = NoSends \/ (todo'[d].msg \in Frame /\ (todo'[d].to # {} \/ Stored(todo[d].msg)'))
    BY <2>6, <2>8 DEF SessionTypeOK, Stored
  <2> QED BY <1>7, <2>5, <2>8, <2>9 DEF Store, SessionTypeOK
<1>8. ASSUME NEW d \in Clients, FanOut(c, d) PROVE SessionTypeOK'
  <2>1. todo[c].msg \in Frame /\ todo[c].to \in SUBSET Clients
    BY <1>8 DEF FanOut, SessionTypeOK, NoSends
  <2>2. PICK m \in Frame : m = todo[c].msg BY <2>1
  <2>3. todo' = [todo EXCEPT ![c] = Sends(todo[c].to \ {d}, m)] BY <1>8, <2>2 DEF FanOut, SessionTypeOK
  <2>4. todo[c].to \ {d} \in SUBSET Clients /\ keeps' = keeps BY <2>1, <1>8 DEF FanOut
  <2>5. /\ todo' \in [Clients -> {NoSends} \cup [to : SUBSET Clients, msg : Frame]]
        /\ \A e \in Clients : todo'[e] = NoSends \/ (todo'[e].msg \in Frame /\ (todo'[e].to # {} \/ Stored(todo[e].msg)'))
    BY <2>3, <2>4, SendsType
  <2>6. inbox' \in [Clients -> Seq(Frame)]
    <3>1. CASE conn[d] \in {"leaving", "gone"} BY <1>8, <3>1 DEF FanOut, SessionTypeOK
    <3>2. CASE conn[d] \notin {"leaving", "gone"}
      <4>1. Queued(d, <<m>>) BY <1>8, <2>2, <3>2 DEF FanOut
      <4> QED BY <4>1, QueuedOneIs
    <3> QED BY <3>1, <3>2
  <2>7. raced' \in BOOLEAN BY <1>8 DEF FanOut, SessionTypeOK
  <2> QED BY <1>8, <2>5, <2>6, <2>7 DEF FanOut, SessionTypeOK
<1>9. CASE Leave(c)
  <2>1. room' \in Seq(Clients) BY <1>9, RemoveFirstType DEF Leave, SessionTypeOK
  <2>2. Idle \in RdStates /\ Idle \in UiStates BY RdFacts, UiFacts
  <2>3. /\ rd' \in [Clients -> RdStates] /\ ui' \in [Clients -> UiStates]
        /\ conn' \in [Clients -> Stages] /\ rk' \in [Clients -> Keys \cup {NoKey}]
        /\ members' \in [Clients -> SUBSET Clients] /\ ic' \in [Clients -> Clients \cup {NoKey}]
        /\ acks' \in [Clients -> SUBSET [by : Clients, epoch : Nat]]
    BY <1>9, <2>2 DEF Leave, SessionTypeOK, Stages, Serving
  <2>4. /\ joinRes' \in [Clients -> Seq(Clients)] /\ order' \in [Clients -> Seq(Clients)]
        /\ inbox' \in [Clients -> Seq(Frame)] /\ pending' \in [Clients -> Seq(Enc)]
        /\ surfaced' \in [Clients -> Seq(Enc)]
    BY <1>9 DEF Leave, SessionTypeOK
  <2>5. budget' \in Budgets BY <1>9, BudgetFacts DEF Leave, SessionTypeOK
  <2> QED BY <1>9, <2>1, <2>3, <2>4, <2>5 DEF Leave, SessionTypeOK, Stored
<1> QED BY <1>1, <1>2, <1>3, <1>4, <1>5, <1>6, <1>7, <1>8, <1>9 DEF RelayStep

\* What a handler finds at the head of its inbox.
LEMMA TakeIs ==
  ASSUME SessionTypeOK, NEW c \in Clients, NEW t, Take(c, t), Taken(c)
  PROVE  /\ inbox[c] # <<>> /\ inbox[c][1] \in Frame /\ inbox[c][1].t = t /\ Head(inbox[c]) = inbox[c][1]
         /\ inbox' \in [Clients -> Seq(Frame)] /\ rd[c] = Idle /\ conn[c] \notin {"leaving", "gone"}
<1>1. inbox[c] # <<>> /\ rd[c] = Idle /\ Head(inbox[c]).t = t /\ conn[c] \notin {"leaving", "gone"} BY DEF Take
<1> QED BY <1>1, TakenIs

\* So does the reset of the coordination state.
LEMMA ResetType ==
  ASSUME SessionTypeOK, NEW c \in Clients, ResetCoordination(c)
  PROVE  acks' \in [Clients -> SUBSET [by : Clients, epoch : Nat]] /\ ic' \in [Clients -> Clients \cup {NoKey}]
<1>1. OldestHolder(c) \in Clients \cup {NoKey} BY DEF OldestHolder, SessionTypeOK
<1> QED BY <1>1 DEF ResetCoordination, SessionTypeOK

\* So does every step of a read loop.
LEMMA SessionTypeReader ==
  ASSUME SessionTypeOK, NEW c \in Clients, Reader(c)
  PROVE  SessionTypeOK'
<1> USE DEF relayVars, clientVars, countVars
<1>0. /\ rd \in [Clients -> RdStates] /\ rd[c] \in RdStates /\ rk \in [Clients -> Keys \cup {NoKey}] /\ rk[c] \in Keys \cup {NoKey}
      /\ pending \in [Clients -> Seq(Enc)] /\ pending[c] \in Seq(Enc)
  BY DEF SessionTypeOK
<1>1. CASE OnWelcome(c)
  <2>1. /\ inbox[c] # <<>> /\ inbox[c][1] \in Frame /\ inbox[c][1].t = "welcome" /\ Head(inbox[c]) = inbox[c][1]
        /\ inbox' \in [Clients -> Seq(Frame)]
    BY <1>1, TakeIs DEF OnWelcome
  <2>2. PICK w : w = inbox[c][1] OBVIOUS
  <2>3. w.existing \in Seq(Clients) BY <2>1, <2>2, FrameFacts
  <2>4. PICK e \in Seq(Clients) : e = w.existing BY <2>3
  <2>5. /\ Append(e, c) \in Seq(Clients) /\ Head(Append(e, c)) \in Clients /\ ToSet(e) \subseteq Clients
    BY <2>4, AppendProperties, HeadTailProperties DEF ToSet
  <2>6. /\ members' \in [Clients -> SUBSET Clients] /\ order' \in [Clients -> Seq(Clients)] /\ ic' \in [Clients -> Clients \cup {NoKey}]
    BY <1>1, <2>1, <2>2, <2>4, <2>5 DEF OnWelcome, SessionTypeOK
  <2>7. rk' \in [Clients -> Keys \cup {NoKey}] /\ pending' \in [Clients -> Seq(Enc)] /\ rd' \in [Clients -> RdStates]
    <3>1. CASE e = <<>>
      <4>1. /\ rk' = [rk EXCEPT ![c] = [by |-> c, root |-> 0, epoch |-> 0]]
            /\ pending' = [pending EXCEPT ![c] = <<>>]
            /\ rd' = [rd EXCEPT ![c] = Resume(pending[c])]
        BY <1>1, <2>1, <2>2, <2>4, <3>1 DEF OnWelcome
      <4>2. [by |-> c, root |-> 0, epoch |-> 0] \in Keys /\ Resume(pending[c]) \in RdStates BY <1>0, KeyFacts, RdFacts
      <4>3. PICK k \in Keys : k = [by |-> c, root |-> 0, epoch |-> 0] BY <4>2
      <4> QED BY <1>0, <4>1, <4>2, <4>3
    <3>2. CASE e # <<>> BY <1>0, <1>1, <2>1, <2>2, <2>4, <3>2 DEF OnWelcome
    <3> QED BY <3>1, <3>2
  <2> QED BY <1>1, <2>1, <2>6, <2>7 DEF OnWelcome, SessionTypeOK, Stored
<1>2. CASE OnMemberJoined(c)
  <2>1. /\ inbox[c] # <<>> /\ inbox[c][1] \in Frame /\ inbox[c][1].t = "joined" /\ Head(inbox[c]) = inbox[c][1]
        /\ inbox' \in [Clients -> Seq(Frame)]
    BY <1>2, TakeIs DEF OnMemberJoined
  <2>2. PICK d \in Clients : d = Head(inbox[c]).who BY <2>1, FrameFacts
  <2>3. members' \in [Clients -> SUBSET Clients] BY <1>2, <2>2 DEF OnMemberJoined, SessionTypeOK
  <2>4. order' \in [Clients -> Seq(Clients)]
    <3>1. Append(order[c], d) \in Seq(Clients) BY <2>2 DEF SessionTypeOK
    <3> QED BY <1>2, <2>2, <3>1 DEF OnMemberJoined, SessionTypeOK
  <2> QED BY <1>2, <2>1, <2>3, <2>4 DEF OnMemberJoined, SessionTypeOK, Stored
<1>3. CASE OnMemberLeft(c)
  <2>1. /\ inbox[c] # <<>> /\ inbox[c][1] \in Frame /\ inbox[c][1].t = "left" /\ Head(inbox[c]) = inbox[c][1]
        /\ inbox' \in [Clients -> Seq(Frame)]
    BY <1>3, TakeIs DEF OnMemberLeft
  <2>2. PICK d \in Clients : d = Head(inbox[c]).who BY <2>1, FrameFacts
  <2>3. members' \in [Clients -> SUBSET Clients] BY <1>3, <2>2 DEF OnMemberLeft, SessionTypeOK
  <2>4. order' \in [Clients -> Seq(Clients)]
    <3>1. RemoveFirst(order[c], d) \in Seq(Clients) BY RemoveFirstType DEF SessionTypeOK
    <3> QED BY <1>3, <2>2, <3>1 DEF OnMemberLeft, SessionTypeOK
  <2> QED BY <1>3, <2>1, <2>3, <2>4 DEF OnMemberLeft, SessionTypeOK, Stored
<1>4. CASE OnKeyRequest(c)
  <2>1. /\ inbox[c] # <<>> /\ inbox[c][1] \in Frame /\ inbox[c][1].t = "keyreq" /\ Head(inbox[c]) = inbox[c][1]
        /\ inbox' \in [Clients -> Seq(Frame)]
    BY <1>4, TakeIs DEF OnKeyRequest
  <2>2. PICK d \in Clients : d = Head(inbox[c]).who BY <2>1, FrameFacts
  <2>3. PICK x : x = IF rk[c] = NoKey THEN Idle ELSE [at |-> "wrap", who |-> d, key |-> rk[c]] OBVIOUS
  <2>4. x \in RdStates BY <1>0, <2>2, <2>3, RdFacts
  <2>5. rd' = [rd EXCEPT ![c] = x] BY <1>4, <2>2, <2>3 DEF OnKeyRequest
  <2>6. rd' \in [Clients -> RdStates] BY <1>0, <2>4, <2>5
  <2>7. raced' \in BOOLEAN BY <1>4 DEF OnKeyRequest, SessionTypeOK
  <2> QED BY <1>4, <2>1, <2>6, <2>7 DEF OnKeyRequest, SessionTypeOK, Stored
<1>5. CASE DeliverKey(c)
  <2>0. rd[c].at = "wrap" BY <1>5 DEF DeliverKey
  <2>1. rd[c].who \in Clients /\ rd[c].key \in Keys BY <1>0, <2>0, RdFacts
  <2>2. PICK m \in Frame : m = [t |-> "key", from |-> c, key |-> rd[c].key] BY <2>1, FrameShapes
  <2>3. rd' \in [Clients -> RdStates]
    <3>1. Idle \in RdStates BY RdFacts
    <3> QED BY <1>0, <1>5, <3>1 DEF DeliverKey
  <2>4. inbox' \in [Clients -> Seq(Frame)] /\ raced' \in BOOLEAN
    <3>1. CASE rd[c].who \in Present
      <4>1. Queued(rd[c].who, <<m>>) /\ raced' \in BOOLEAN BY <1>5, <2>2, <3>1 DEF DeliverKey, SessionTypeOK
      <4> QED BY <2>1, <4>1, QueuedOneIs
    <3>2. CASE rd[c].who \notin Present BY <1>5, <3>2 DEF DeliverKey, SessionTypeOK
    <3> QED BY <3>1, <3>2
  <2> QED BY <1>5, <2>3, <2>4 DEF DeliverKey, SessionTypeOK, Stored
<1>6. CASE OnKeyDeliver(c)
  <2>1. /\ inbox[c] # <<>> /\ inbox[c][1] \in Frame /\ inbox[c][1].t = "key" /\ Head(inbox[c]) = inbox[c][1]
        /\ inbox' \in [Clients -> Seq(Frame)]
    BY <1>6, TakeIs DEF OnKeyDeliver
  <2>2. PICK k \in Keys : k = Head(inbox[c]).key BY <2>1, FrameFacts
  <2>3. Resume(pending[c]) \in RdStates BY <1>0, RdFacts
  <2>4. rk' \in [Clients -> Keys \cup {NoKey}] /\ pending' \in [Clients -> Seq(Enc)] /\ rd' \in [Clients -> RdStates]
    <3>1. CASE Head(inbox[c]).from \in members[c]
      <4>1. /\ rk' = [rk EXCEPT ![c] = k] /\ pending' = [pending EXCEPT ![c] = <<>>]
            /\ rd' = [rd EXCEPT ![c] = Resume(pending[c])]
        BY <1>6, <2>2, <3>1 DEF OnKeyDeliver
      <4> QED BY <1>0, <2>3, <4>1
    <3>2. CASE Head(inbox[c]).from \notin members[c] BY <1>0, <1>6, <3>2 DEF OnKeyDeliver
    <3> QED BY <3>1, <3>2
  <2> QED BY <1>6, <2>1, <2>4 DEF OnKeyDeliver, SessionTypeOK, Stored
<1>7. CASE OnEncrypted(c)
  <2>1. /\ inbox[c] # <<>> /\ inbox[c][1] \in Frame /\ inbox[c][1].t = "enc" /\ Head(inbox[c]) = inbox[c][1]
        /\ inbox' \in [Clients -> Seq(Frame)]
    BY <1>7, TakeIs DEF OnEncrypted
  <2>2. PICK m \in Enc : m = Head(inbox[c]) BY <2>1, FrameFacts
  <2>3. HandleEncrypted(c, m, <<>>) /\ <<>> \in Seq(Enc) BY <1>7, <2>2 DEF OnEncrypted
  <2>4. pending' \in [Clients -> Seq(Enc)] /\ rd' \in [Clients -> RdStates] BY <2>2, <2>3, HandleEncryptedType
  <2> QED BY <2>1, <2>3, <2>4 DEF HandleEncrypted, SessionTypeOK, Stored
<1>8. CASE ReplayNext(c)
  <2>1. rd[c].at = "replay" BY <1>8 DEF ReplayNext
  <2>2. PICK l \in Seq(Enc) : l = rd[c].left /\ l # <<>> BY <1>0, <2>1, RdFacts
  <2>3. Head(l) \in Enc /\ Tail(l) \in Seq(Enc) BY <2>2, HeadTailProperties
  <2>4. HandleEncrypted(c, Head(l), Tail(l)) /\ UNCHANGED inbox BY <1>8, <2>2 DEF ReplayNext
  <2>5. pending' \in [Clients -> Seq(Enc)] /\ rd' \in [Clients -> RdStates] BY <2>3, <2>4, HandleEncryptedType
  <2> QED BY <2>4, <2>5 DEF HandleEncrypted, SessionTypeOK, Stored
<1>9. CASE OpenMessage(c)
  <2>1. rd[c].at = "open" BY <1>9 DEF OpenMessage
  <2>2. PICK m \in Enc, l \in Seq(Enc) : m = rd[c].m /\ l = rd[c].left BY <1>0, <2>1, RdFacts
  <2>3. PICK x : x = IF m.key = rd[c].key /\ m.op # "message" THEN [at |-> "record", m |-> m, left |-> l] ELSE Resume(l)
    OBVIOUS
  <2>4. x \in RdStates
    <3>1. [at |-> "record", m |-> m, left |-> l] \in RdStates BY DEF RdStates
    <3> QED BY <2>3, <3>1, RdFacts
  <2>5. rd' = [rd EXCEPT ![c] = x] BY <1>0, <1>9, <2>2, <2>3 DEF OpenMessage
  <2>6. rd' \in [Clients -> RdStates] BY <1>0, <2>4, <2>5
  <2>7. Append(surfaced[c], m) \in Seq(Enc) BY DEF SessionTypeOK
  <2>8. surfaced' \in [Clients -> Seq(Enc)] BY <1>9, <2>2, <2>7 DEF OpenMessage, SessionTypeOK
  <2> QED BY <1>9, <2>6, <2>8 DEF OpenMessage, SessionTypeOK, Stored
<1>10. CASE RecordPeer(c)
  <2>1. rd[c].at = "record" BY <1>10 DEF RecordPeer
  <2>2. PICK m \in Enc, l \in Seq(Enc) : m = rd[c].m /\ l = rd[c].left BY <1>0, <2>1, RdFacts
  <2>3. Resume(l) \in RdStates BY RdFacts
  <2>4. rd' \in [Clients -> RdStates] BY <1>0, <1>10, <2>2, <2>3 DEF RecordPeer
  <2>5. Append(surfaced[c], m) \in Seq(Enc) BY DEF SessionTypeOK
  <2>6. surfaced' \in [Clients -> Seq(Enc)] BY <1>10, <2>2, <2>5 DEF RecordPeer, SessionTypeOK
  <2>7. [by |-> m.from, epoch |-> m.key.epoch] \in [by : Clients, epoch : Nat] /\ m.arg \in Clients
    BY FrameFacts, KeyFacts
  <2>8. PICK a \in [by : Clients, epoch : Nat] : a = [by |-> m.from, epoch |-> m.key.epoch] BY <2>7
  <2>9. acks' \in [Clients -> SUBSET [by : Clients, epoch : Nat]] BY <1>10, <2>2, <2>8 DEF RecordPeer, SessionTypeOK
  <2>10. ic' \in [Clients -> Clients \cup {NoKey}] BY <1>10, <2>2, <2>7 DEF RecordPeer, SessionTypeOK
  <2> QED BY <1>10, <2>4, <2>6, <2>9, <2>10 DEF RecordPeer, SessionTypeOK, Stored
<1>11. CASE OnControl(c)
  <2>1. inbox' \in [Clients -> Seq(Frame)] BY <1>11, TakeIs DEF OnControl
  <2>2. PICK k \in Keys \cup {NoKey} : k = Ratcheted(rk[c]) BY <1>0, KeyFacts
  <2>3. rk' \in [Clients -> Keys \cup {NoKey}] BY <1>0, <1>11, <2>2 DEF OnControl
  <2>4. ui' \in [Clients -> UiStates] BY <1>11, WipeUi DEF OnControl
  <2>5. rd' \in [Clients -> RdStates]
    <3>1. [at |-> "reset"] \in RdStates BY RdFacts
    <3> QED BY <1>0, <1>11, <3>1 DEF OnControl
  <2> QED BY <1>11, <2>1, <2>3, <2>4, <2>5 DEF OnControl, SessionTypeOK, Stored
<1>12. CASE OnControlReset(c)
  <2>1. rd' \in [Clients -> RdStates]
    <3>1. Idle \in RdStates BY RdFacts
    <3> QED BY <1>0, <1>12, <3>1 DEF OnControlReset
  <2>2. /\ acks' \in [Clients -> SUBSET [by : Clients, epoch : Nat]] /\ ic' \in [Clients -> Clients \cup {NoKey}]
    BY <1>12, ResetType DEF OnControlReset
  <2> QED BY <1>12, <2>1, <2>2 DEF OnControlReset, SessionTypeOK, Stored
<1> QED BY <1>1, <1>2, <1>3, <1>4, <1>5, <1>6, <1>7, <1>8, <1>9, <1>10, <1>11, <1>12 DEF Reader

\* So does every step of a caller.
LEMMA SessionTypeCaller ==
  ASSUME SessionTypeOK, NEW c \in Clients, Caller(c)
  PROVE  SessionTypeOK'
<1> USE DEF relayVars, clientVars, countVars
<1>0. /\ ui \in [Clients -> UiStates] /\ ui[c] \in UiStates /\ rk \in [Clients -> Keys \cup {NoKey}]
      /\ rk[c] \in Keys \cup {NoKey} /\ Present \in SUBSET Clients
  BY DEF SessionTypeOK, Present, ToSet
<1>1. ASSUME NEW op \in {"message", "ack", "handoff"}, NEW d \in Clients, StartSend(c, op, d) PROVE SessionTypeOK'
  <2>1. PICK x : x = [at |-> "seal", op |-> op, arg |-> d, key |-> rk[c]] OBVIOUS
  <2>2. x \in UiStates BY <1>0, <1>1, <2>1, UiFacts DEF StartSend
  <2>3. ui' \in [Clients -> UiStates] BY <1>0, <1>1, <2>1, <2>2 DEF StartSend
  <2>4. budget' \in Budgets BY <1>1, BudgetFacts DEF StartSend, SessionTypeOK
  <2>5. sent' \in [Clients -> Nat]
    <3>1. sent \in [Clients -> Nat] /\ sent' = [sent EXCEPT ![c] = sent[c] + 1] BY <1>1 DEF StartSend, SessionTypeOK
    <3> QED BY <3>1
  <2> QED BY <1>1, <2>3, <2>4, <2>5 DEF StartSend, SessionTypeOK, Stored
<1>2. CASE SealAndSend(c)
  <2>1. ui[c].at = "seal" BY <1>2 DEF SealAndSend
  <2>2. ui[c].op \in {"message", "ack", "handoff"} /\ ui[c].arg \in Clients /\ ui[c].key \in Keys BY <1>0, <2>1, UiFacts
  <2>3. PICK m : m = [t |-> "enc", op |-> ui[c].op, from |-> c, key |-> ui[c].key, n |-> sent[c], arg |-> ui[c].arg]
    OBVIOUS
  <2>4. m \in Enc BY <2>2, <2>3, FrameShapes DEF SessionTypeOK
  <2>5. m \in Frame /\ m.op \in {"message", "ack", "handoff"} /\ m.arg \in Clients /\ m.key.epoch \in Nat
    BY <2>4, FrameFacts, KeyFacts
  <2>6. /\ Broadcast(c, m)
        /\ ui' = [ui EXCEPT ![c] = IF m.op = "message" THEN Idle ELSE [at |-> m.op, arg |-> m.arg, epoch |-> m.key.epoch]]
    BY <1>2, <2>3 DEF SealAndSend
  <2>7. ui' \in [Clients -> UiStates]
    <3>1. PICK x : x = IF m.op = "message" THEN Idle ELSE [at |-> m.op, arg |-> m.arg, epoch |-> m.key.epoch] OBVIOUS
    <3>2. x \in UiStates BY <2>5, <3>1, UiFacts
    <3> QED BY <1>0, <2>6, <3>1, <3>2
  <2>8. /\ todo' \in [Clients -> {NoSends} \cup [to : SUBSET Clients, msg : Frame]]
        /\ \A d \in Clients : todo'[d] = NoSends \/ (todo'[d].msg \in Frame /\ (todo'[d].to # {} \/ Stored(todo[d].msg)'))
    <3>1. keeps' = keeps BY <1>2 DEF SealAndSend
    <3> QED BY <1>0, <2>5, <2>6, <3>1, SendsType DEF Broadcast
  <2> QED BY <1>2, <2>7, <2>8 DEF SealAndSend, SessionTypeOK
<1>3. CASE RecordOwn(c)
  <2>1. ui[c].arg \in Clients /\ ui[c].epoch \in Nat BY <1>0, <1>3, UiFacts DEF RecordOwn
  <2>2. PICK a \in [by : Clients, epoch : Nat] : a = [by |-> c, epoch |-> ui[c].epoch] BY <2>1
  <2>3. ui' \in [Clients -> UiStates]
    <3>1. Idle \in UiStates BY UiFacts
    <3> QED BY <1>0, <1>3, <3>1 DEF RecordOwn
  <2>4. /\ acks' \in [Clients -> SUBSET [by : Clients, epoch : Nat]] /\ ic' \in [Clients -> Clients \cup {NoKey}]
    <3>1. CASE ui[c].at = "ack"
      <4>1. acks' = [acks EXCEPT ![c] = @ \cup {a}] /\ ic' = ic BY <1>3, <2>2, <3>1 DEF RecordOwn
      <4> QED BY <4>1 DEF SessionTypeOK
    <3>2. CASE ui[c].at # "ack"
      <4>1. ic' = [ic EXCEPT ![c] = ui[c].arg] /\ acks' = acks BY <1>3, <3>2 DEF RecordOwn
      <4> QED BY <2>1, <4>1 DEF SessionTypeOK
    <3> QED BY <3>1, <3>2
  <2> QED BY <1>3, <2>3, <2>4 DEF RecordOwn, SessionTypeOK, Stored
<1>4. CASE Vanish(c)
  <2>1. PICK k \in Keys \cup {NoKey} : k = Ratcheted(rk[c]) BY <1>0, KeyFacts
  <2>2. rk' \in [Clients -> Keys \cup {NoKey}] BY <1>0, <1>4, <2>1 DEF Vanish
  <2>3. rd' \in [Clients -> RdStates] BY <1>4, WipeRd DEF Vanish
  <2>4. ui' \in [Clients -> UiStates]
    <3>1. [at |-> "vanish"] \in UiStates BY UiFacts
    <3> QED BY <1>0, <1>4, <3>1 DEF Vanish
  <2>5. budget' \in Budgets /\ raced' \in BOOLEAN /\ slipped' \subseteq Clients
    BY <1>4, BudgetFacts DEF Vanish, SessionTypeOK
  <2> QED BY <1>4, <2>2, <2>3, <2>4, <2>5 DEF Vanish, SessionTypeOK, Stored
<1>5. CASE VanishTell(c)
  <2>1. PICK m \in Frame : m = [t |-> "vanish", from |-> c] BY FrameShapes
  <2>2. /\ todo' \in [Clients -> {NoSends} \cup [to : SUBSET Clients, msg : Frame]]
        /\ \A d \in Clients : todo'[d] = NoSends \/ (todo'[d].msg \in Frame /\ (todo'[d].to # {} \/ Stored(todo[d].msg)'))
    BY <1>0, <1>5, <2>1, SendsType DEF VanishTell, Broadcast
  <2>3. ui' \in [Clients -> UiStates]
    <3>1. Idle \in UiStates BY UiFacts
    <3> QED BY <1>0, <1>5, <3>1 DEF VanishTell
  <2>4. /\ acks' \in [Clients -> SUBSET [by : Clients, epoch : Nat]] /\ ic' \in [Clients -> Clients \cup {NoKey}]
    BY <1>5, ResetType DEF VanishTell
  <2> QED BY <1>5, <2>2, <2>3, <2>4 DEF VanishTell, SessionTypeOK
<1> QED BY <1>1, <1>2, <1>3, <1>4, <1>5 DEF Caller

\* So does every step.
LEMMA SessionTypeStep == SessionTypeOK /\ [Next]_vars => SessionTypeOK'
<1> SUFFICES ASSUME SessionTypeOK, [Next]_vars PROVE SessionTypeOK' OBVIOUS
<1>1. ASSUME NEW c \in Clients, RelayStep(c) \/ Leave(c) \/ Reader(c) \/ Caller(c) PROVE SessionTypeOK'
  BY <1>1, SessionTypeRelay, SessionTypeReader, SessionTypeCaller
<1>2. CASE UNCHANGED vars
  BY <1>2 DEF vars, relayVars, clientVars, countVars, SessionTypeOK, Stored
<1> QED BY <1>1, <1>2 DEF Next

------------------------------------------------------------------------------
(* Who is in the room. *)

\* The hub lists a member once.
RoomOnce == \A i, j \in DOMAIN room : room[i] = room[j] => i = j
\* Registered in the hub is what Server.serve thinks is registered.
Roster == \A c \in Clients : c \in Present <=> conn[c] \in Serving
\* A connection that is not registered holds and awaits nothing.
AwayIsEmpty == \A c \in Clients : conn[c] \notin Serving => rk[c] = NoKey /\ inbox[c] = <<>> /\ rd[c] = Idle /\ ui[c] = Idle
\* What is broadcast, by whom, and to whom.
Casts == \A c \in Clients : todo[c].to # {} =>
           /\ todo[c].msg.t \in {"joined", "left", "enc", "vanish"}
           /\ todo[c].msg.t = "enc" => todo[c].msg.from = c
           /\ \A d \in todo[c].to : conn[d] \notin {"new", "absent"}
\* hub.Join finds connections that have joined.
Found == \A c \in Clients : \A i \in DOMAIN joinRes[c] : conn[joinRes[c][i]] \notin {"new", "absent"}
\* Who is in the room.
SeatsInv == RoomOnce /\ Roster /\ AwayIsEmpty /\ Casts /\ Found

\* Recipients are clients.
LEMMA TodoFacts ==
  ASSUME SessionTypeOK
  PROVE  /\ \A d \in Clients : todo[d].to \subseteq Clients /\ (todo[d].to # {} => todo[d].msg \in Frame)
         /\ Present \subseteq Clients
<1>1. ASSUME NEW d \in Clients PROVE todo[d].to \subseteq Clients /\ (todo[d].to # {} => todo[d].msg \in Frame)
  <2>1. PICK x : x = todo[d] OBVIOUS
  <2>2. x = NoSends \/ x \in [to : SUBSET Clients, msg : Frame] BY <2>1 DEF SessionTypeOK
  <2>3. x.to \subseteq Clients /\ (x.to # {} => x.msg \in Frame) BY <2>2 DEF NoSends
  <2> QED BY <2>1, <2>3
<1>2. Present \subseteq Clients BY DEF SessionTypeOK, Present, ToSet
<1> QED BY <1>1, <1>2

\* A step of a client changes no other client.
LEMMA Local ==
  ASSUME SessionTypeOK, NEW c \in Clients, Reader(c) \/ Caller(c)
  PROVE  /\ UNCHANGED <<room, conn, joinRes, keeps, hist>>
         /\ \A d \in Clients : d # c =>
              /\ rk'[d] = rk[d] /\ rd'[d] = rd[d] /\ ui'[d].at = ui[d].at /\ acks'[d] = acks[d] /\ todo'[d] = todo[d]
              /\ pending'[d] = pending[d] /\ surfaced'[d] = surfaced[d] /\ sent'[d] = sent[d] /\ ui'[d] = ui[d]
              /\ (d \in slipped' <=> d \in slipped)
<1> USE DEF relayVars, clientVars, countVars
<1>0. /\ rk \in [Clients -> Keys \cup {NoKey}] /\ rd \in [Clients -> RdStates] /\ ui \in [Clients -> UiStates]
      /\ acks \in [Clients -> SUBSET [by : Clients, epoch : Nat]]
      /\ todo \in [Clients -> {NoSends} \cup [to : SUBSET Clients, msg : Frame]]
      /\ pending \in [Clients -> Seq(Enc)] /\ surfaced \in [Clients -> Seq(Enc)] /\ sent \in [Clients -> Nat]
  BY DEF SessionTypeOK
<1>1. CASE OnWelcome(c) BY <1>0, <1>1 DEF OnWelcome
<1>2. CASE OnMemberJoined(c) BY <1>0, <1>2 DEF OnMemberJoined
<1>3. CASE OnMemberLeft(c) BY <1>0, <1>3 DEF OnMemberLeft
<1>4. CASE OnKeyRequest(c) BY <1>0, <1>4 DEF OnKeyRequest
<1>5. CASE DeliverKey(c) BY <1>0, <1>5 DEF DeliverKey
<1>6. CASE OnKeyDeliver(c) BY <1>0, <1>6 DEF OnKeyDeliver
<1>7. CASE OnEncrypted(c) BY <1>0, <1>7 DEF OnEncrypted, HandleEncrypted
<1>8. CASE ReplayNext(c) BY <1>0, <1>8 DEF ReplayNext, HandleEncrypted
<1>9. CASE OpenMessage(c) BY <1>0, <1>9 DEF OpenMessage
<1>10. CASE RecordPeer(c) BY <1>0, <1>10 DEF RecordPeer
<1>11. CASE OnControl(c)
  <2>1. \A d \in Clients : d # c => ui'[d] = ui[d] BY <1>0, <1>11 DEF OnControl, ZeroHeld
  <2> QED BY <1>0, <1>11, <2>1 DEF OnControl
<1>12. CASE OnControlReset(c) BY <1>0, <1>12 DEF OnControlReset, ResetCoordination
<1>13. ASSUME NEW op \in {"message", "ack", "handoff"}, NEW d \in Clients, StartSend(c, op, d)
       PROVE  /\ UNCHANGED <<room, conn, joinRes, keeps, hist, rk, rd, acks, todo, pending, surfaced, slipped>>
              /\ \A e \in Clients : e # c => ui'[e] = ui[e] /\ sent'[e] = sent[e]
  BY <1>0, <1>13 DEF StartSend
<1>14. CASE SealAndSend(c) BY <1>0, <1>14 DEF SealAndSend, Broadcast
<1>15. CASE RecordOwn(c) BY <1>0, <1>15 DEF RecordOwn
<1>16. CASE Vanish(c)
  <2>1. \A d \in Clients : d # c => rd'[d] = rd[d] BY <1>16, WipeRd DEF Vanish
  <2> QED BY <1>0, <1>16, <2>1 DEF Vanish
<1>17. CASE VanishTell(c) BY <1>0, <1>17 DEF VanishTell, Broadcast, ResetCoordination
<1> QED BY <1>1, <1>2, <1>3, <1>4, <1>5, <1>6, <1>7, <1>8, <1>9, <1>10, <1>11, <1>12, <1>13, <1>14, <1>15, <1>16, <1>17
        DEF Reader, Caller

\* Only a registered client takes one.
LEMMA Busy ==
  ASSUME SessionTypeOK, SeatsInv, NEW c \in Clients, Reader(c) \/ Caller(c)
  PROVE  conn[c] \in Serving
<1>0. /\ \A x \in RdStates : x.at # "idle" => x # Idle
      /\ \A x \in UiStates : x.at # "idle" => x # Idle
  BY RdFacts, UiFacts
<1>1. rd[c] \in RdStates /\ ui[c] \in UiStates BY DEF SessionTypeOK
<1>2. inbox[c] # <<>> \/ rd[c] # Idle \/ ui[c] # Idle \/ conn[c] = "relay"
  BY <1>0, <1>1 DEF Reader, Caller, OnWelcome, OnMemberJoined, OnMemberLeft, OnKeyRequest, DeliverKey, OnKeyDeliver, OnEncrypted,
     ReplayNext, OpenMessage, RecordPeer, OnControl, OnControlReset, StartSend, SealAndSend, RecordOwn, Vanish, VanishTell, Take
<1> QED BY <1>2 DEF SeatsInv, AwayIsEmpty, Serving

\* What reaches an inbox by a step of a client.
LEMMA LocalInbox ==
  ASSUME SessionTypeOK, SeatsInv, NEW c \in Clients, Reader(c) \/ Caller(c)
  PROVE  \A d \in Clients : conn[d] \notin Serving => inbox'[d] = inbox[d]
<1> USE DEF relayVars, clientVars, countVars
<1>0. conn[c] \in Serving /\ inbox \in [Clients -> Seq(Frame)] BY Busy DEF SessionTypeOK
<1>1. CASE DeliverKey(c)
  <2>0. rd[c].at = "wrap" BY <1>1 DEF DeliverKey
  <2>1. rd[c].who \in Clients BY <2>0, RdFacts DEF SessionTypeOK
  <2>2. CASE rd[c].who \in Present
    <3>1. conn[rd[c].who] \in Serving BY <2>1, <2>2 DEF SeatsInv, Roster
    <3>2. \E v : inbox' = [inbox EXCEPT ![rd[c].who] = v] BY <1>1, <2>2 DEF DeliverKey, Queued
    <3> QED BY <1>0, <3>1, <3>2
  <2>3. CASE rd[c].who \notin Present BY <1>1, <2>3 DEF DeliverKey
  <2> QED BY <2>2, <2>3
<1>2. CASE ~DeliverKey(c)
  <2>1. Taken(c) \/ UNCHANGED inbox
    BY <1>2 DEF Reader, Caller, OnWelcome, OnMemberJoined, OnMemberLeft, OnKeyRequest, OnKeyDeliver, OnEncrypted,
     ReplayNext, OpenMessage, RecordPeer, OnControl, OnControlReset, StartSend, SealAndSend, RecordOwn, Vanish, VanishTell
  <2> QED BY <1>0, <2>1 DEF Taken
<1> QED BY <1>1, <1>2

\* A broadcast that begins.
LEMMA CastIs ==
  ASSUME SessionTypeOK, SeatsInv, NEW c \in Clients, NEW m \in Frame, Broadcast(c, m),
         m.t \in {"joined", "left", "enc", "vanish"}, m.t = "enc" => m.from = c,
         \A d \in Clients : conn'[d] \in {"new", "absent"} => conn[d] \in {"new", "absent"}
  PROVE  Casts'
<1>0. todo \in [Clients -> {NoSends} \cup [to : SUBSET Clients, msg : Frame]] BY DEF SessionTypeOK
<1>1. PICK x : x = Sends(Present \ {c}, m) OBVIOUS
<1>2. x = NoSends \/ x = [to |-> Present \ {c}, msg |-> m] BY <1>1 DEF Sends
<1>3. \A d \in Present : d \in Clients /\ conn[d] \notin {"new", "absent"}
  BY TodoFacts DEF SeatsInv, Roster, Serving
<1>4. todo' = [todo EXCEPT ![c] = x] BY <1>1 DEF Broadcast
<1>5. \A d \in Clients : todo'[d] = IF d = c THEN x ELSE todo[d] BY <1>0, <1>4
<1>6. x.to # {} => x.to = Present \ {c} /\ x.msg = m BY <1>2 DEF NoSends
<1>7. \A d \in Clients : todo[d].to \subseteq Clients BY TodoFacts
<1> QED BY <1>3, <1>5, <1>6, <1>7 DEF SeatsInv, Casts

\* Clients keep Casts.
LEMMA LocalCasts ==
  ASSUME SessionTypeOK, SeatsInv, NEW c \in Clients, Reader(c) \/ Caller(c)
  PROVE  Casts'
<1> USE DEF relayVars, clientVars, countVars
<1>0. UNCHANGED conn BY Local
<1>1. CASE SealAndSend(c)
  <2>1. ui[c].at = "seal" BY <1>1 DEF SealAndSend
  <2>2. ui[c].op \in {"message", "ack", "handoff"} /\ ui[c].arg \in Clients /\ ui[c].key \in Keys
    BY <2>1, UiFacts DEF SessionTypeOK
  <2>3. PICK m : m = [t |-> "enc", op |-> ui[c].op, from |-> c, key |-> ui[c].key, n |-> sent[c], arg |-> ui[c].arg]
    OBVIOUS
  <2>4. m \in Enc /\ m.from = c BY <2>2, <2>3, FrameShapes DEF SessionTypeOK
  <2>5. m \in Frame /\ m.t = "enc" BY <2>4, FrameFacts
  <2>6. Broadcast(c, m) BY <1>1, <2>3 DEF SealAndSend
  <2> QED BY <1>0, <2>4, <2>5, <2>6, CastIs
<1>2. CASE VanishTell(c)
  <2>1. PICK m \in Frame : m = [t |-> "vanish", from |-> c] BY FrameShapes
  <2>2. Broadcast(c, m) /\ m.t = "vanish" BY <1>2, <2>1 DEF VanishTell
  <2> QED BY <1>0, <2>2, CastIs
<1>3. CASE ~SealAndSend(c) /\ ~VanishTell(c)
  <2>1. UNCHANGED todo
    BY <1>3 DEF Reader, Caller, OnWelcome, OnMemberJoined, OnMemberLeft, OnKeyRequest, DeliverKey, OnKeyDeliver, OnEncrypted,
     ReplayNext, OpenMessage, RecordPeer, OnControl, OnControlReset, StartSend, RecordOwn, Vanish, HandleEncrypted
  <2> QED BY <1>0, <2>1 DEF SeatsInv, Casts
<1> QED BY <1>1, <1>2, <1>3

\* Clients keep SeatsInv.
LEMMA SeatsLocal ==
  ASSUME SessionTypeOK, SeatsInv, NEW c \in Clients, Reader(c) \/ Caller(c)
  PROVE  SeatsInv'
<1>0. /\ UNCHANGED <<room, conn, joinRes>> /\ conn[c] \in Serving
      /\ \A d \in Clients : d # c => rk'[d] = rk[d] /\ rd'[d] = rd[d] /\ ui'[d] = ui[d]
  BY Local, Busy
<1>1. \A d \in Clients : conn[d] \notin Serving => inbox'[d] = inbox[d] BY LocalInbox
<1>2. Casts' BY LocalCasts
<1>3. AwayIsEmpty' BY <1>0, <1>1 DEF AwayIsEmpty, SeatsInv
<1>4. RoomOnce' /\ Roster' /\ Found' BY <1>0 DEF RoomOnce, Roster, Found, SeatsInv, Present
<1> QED BY <1>2, <1>3, <1>4 DEF SeatsInv

\* The relay keeps SeatsInv.
LEMMA SeatsRelay ==
  ASSUME SessionTypeOK, SeatsInv, NEW c \in Clients, RelayStep(c) \/ Leave(c)
  PROVE  SeatsInv'
<1> USE DEF relayVars, clientVars, countVars
<1>0. /\ conn \in [Clients -> Stages] /\ joinRes \in [Clients -> Seq(Clients)] /\ room \in Seq(Clients)
      /\ inbox \in [Clients -> Seq(Frame)] /\ rk \in [Clients -> Keys \cup {NoKey}]
      /\ rd \in [Clients -> RdStates] /\ ui \in [Clients -> UiStates]
      /\ todo \in [Clients -> {NoSends} \cup [to : SUBSET Clients, msg : Frame]]
      /\ \A d \in Clients : todo[d].to \subseteq Clients
  BY TodoFacts DEF SessionTypeOK
<1>1. CASE Join(c)
  <2>1. conn[c] = "new" /\ c \notin Present BY <1>1 DEF Join, SeatsInv, Roster, Serving
  <2>2. conn' = [conn EXCEPT ![c] = "joined"] /\ room' = Append(room, c) /\ joinRes' = [joinRes EXCEPT ![c] = room]
        /\ UNCHANGED <<todo, inbox, rk, rd, ui>>
    BY <1>1 DEF Join
  <2>3. PICK r : r = room' OBVIOUS
  <2>4. /\ Len(r) = Len(room) + 1 /\ Len(room) \in Nat /\ DOMAIN r = 1..Len(r) /\ DOMAIN room = 1..Len(room)
        /\ \A i \in 1..Len(room) : r[i] = room[i] /\ room[i] \in Clients
        /\ r[Len(room) + 1] = c
    BY <1>0, <2>2, <2>3
  <2>5. \A i \in DOMAIN room : room[i] \in Present BY DEF Present, ToSet
  <2>6. \A i, j \in DOMAIN r : r[i] = r[j] => i = j
    <3> SUFFICES ASSUME NEW i \in DOMAIN r, NEW j \in DOMAIN r, r[i] = r[j] PROVE i = j OBVIOUS
    <3>1. i \in DOMAIN room \/ i = Len(room) + 1 BY <2>4
    <3>2. j \in DOMAIN room \/ j = Len(room) + 1 BY <2>4
    <3> QED BY <3>1, <3>2, <2>1, <2>4, <2>5 DEF SeatsInv, RoomOnce
  <2>7. \A d : d \in ToSet(r) <=> d \in Present \/ d = c
    <3>1. \A i \in DOMAIN r : i \in DOMAIN room \/ i = Len(room) + 1 BY <2>4
    <3>2. \A i \in DOMAIN room : i \in DOMAIN r BY <2>4
    <3>3. Len(room) + 1 \in DOMAIN r BY <2>4
    <3> QED BY <3>1, <3>2, <3>3, <2>4 DEF ToSet, Present
  <2>8. RoomOnce' BY <2>3, <2>6 DEF RoomOnce
  <2>9. Roster'
    <3>1. Present' = ToSet(r) BY <2>3 DEF Present
    <3> QED BY <1>0, <2>1, <2>2, <2>7, <3>1 DEF Roster, SeatsInv, Serving
  <2>10. AwayIsEmpty' /\ Casts' BY <1>0, <2>2 DEF SeatsInv, AwayIsEmpty, Casts, Serving
  <2>11. Found'
    <3>1. \A i \in DOMAIN room : conn[room[i]] \notin {"new", "absent"}
      BY <2>4, <2>5 DEF SeatsInv, Roster, Serving
    <3>2. \A d \in Clients : conn'[d] \in {"new", "absent"} => conn[d] \in {"new", "absent"} BY <1>0, <2>2
    <3>3. \A d \in Clients : joinRes'[d] = IF d = c THEN room ELSE joinRes[d] BY <1>0, <2>2
    <3>4. ASSUME NEW d \in Clients, NEW i \in DOMAIN joinRes'[d] PROVE conn'[joinRes'[d][i]] \notin {"new", "absent"}
      <4>1. CASE d = c
        <5>1. joinRes'[d][i] = room[i] /\ i \in DOMAIN room BY <4>1, <3>3, <3>4
        <5> QED BY <5>1, <3>1, <3>2, <2>4
      <4>2. CASE d # c
        <5>1. joinRes'[d][i] = joinRes[d][i] /\ i \in DOMAIN joinRes[d] BY <4>2, <3>3, <3>4
        <5>2. joinRes[d][i] \in Clients BY <1>0, <5>1
        <5> QED BY <5>1, <5>2, <3>2 DEF SeatsInv, Found
      <4> QED BY <4>1, <4>2
    <3> QED BY <3>4 DEF Found
  <2> QED BY <2>8, <2>9, <2>10, <2>11 DEF SeatsInv
<1>2. ASSUME NEW d \in Clients, conn[d] \in Serving,
             \A e \in Clients : e # d => inbox'[e] = inbox[e],
             \A e \in Clients : conn'[e] # conn[e] => conn[e] \in Serving /\ conn'[e] \in Serving,
             UNCHANGED <<room, joinRes, rk, rd, ui>>, Casts'
      PROVE  SeatsInv'
  <2>1. \A e \in Clients : conn'[e] \in Serving <=> conn[e] \in Serving BY <1>2
  <2>2. \A e \in Clients : conn[e] \notin {"new", "absent"} => conn'[e] \notin {"new", "absent"} BY <1>2 DEF Serving
  <2>3. RoomOnce' /\ Roster' BY <1>2, <2>1 DEF RoomOnce, Roster, SeatsInv, Present
  <2>4. AwayIsEmpty' BY <1>2, <2>1 DEF AwayIsEmpty, SeatsInv
  <2>5. Found' BY <1>0, <1>2, <2>2 DEF Found, SeatsInv
  <2> QED BY <1>2, <2>3, <2>4, <2>5 DEF SeatsInv
<1>3. CASE SendWelcome(c)
  <2>1. /\ conn[c] = "joined" /\ conn' = [conn EXCEPT ![c] = "welcomed"] /\ UNCHANGED <<room, joinRes, rk, rd, ui, todo>>
        /\ \E v : inbox' = [inbox EXCEPT ![c] = v]
    BY <1>3 DEF SendWelcome, Queued
  <2>2. Casts' BY <1>0, <2>1 DEF Casts, SeatsInv
  <2> QED BY <1>0, <1>2, <2>1, <2>2 DEF Serving
<1>4. CASE Replay(c)
  <2>1. /\ conn[c] = "welcomed" /\ conn' = [conn EXCEPT ![c] = "replayed"] /\ UNCHANGED <<room, joinRes, rk, rd, ui, todo>>
        /\ \E v : inbox' = [inbox EXCEPT ![c] = v]
    BY <1>4 DEF Replay, Queued
  <2>2. Casts' BY <1>0, <2>1 DEF Casts, SeatsInv
  <2> QED BY <1>0, <1>2, <2>1, <2>2 DEF Serving
<1>5. CASE Announce(c)
  <2>1. /\ conn[c] = "replayed" /\ conn' = [conn EXCEPT ![c] = "announced"] /\ UNCHANGED <<room, joinRes, rk, rd, ui, inbox>>
    BY <1>5 DEF Announce
  <2>2. PICK m \in Frame : m = [t |-> "joined", who |-> c] BY FrameShapes
  <2>3. Broadcast(c, m) /\ m.t = "joined" BY <1>5, <2>2 DEF Announce
  <2>4. Casts' BY <1>0, <2>1, <2>3, CastIs
  <2> QED BY <1>0, <1>2, <2>1, <2>4 DEF Serving
<1>6. CASE AskDistributor(c)
  <2>1. /\ conn[c] = "announced" /\ conn' = [conn EXCEPT ![c] = "relay"] /\ UNCHANGED <<room, joinRes, rk, rd, ui, todo>>
    BY <1>6 DEF AskDistributor
  <2>2. Casts' BY <1>0, <2>1 DEF Casts, SeatsInv
  <2>3. CASE joinRes[c] = <<>> \/ conn[Head(joinRes[c])] \in {"leaving", "gone"}
    <3>1. UNCHANGED inbox BY <1>6, <2>3 DEF AskDistributor
    <3> QED BY <1>0, <1>2, <2>1, <2>2, <3>1 DEF Serving
  <2>4. CASE ~(joinRes[c] = <<>> \/ conn[Head(joinRes[c])] \in {"leaving", "gone"})
    <3>1. PICK d \in Clients : d = Head(joinRes[c]) /\ d = joinRes[c][1] /\ 1 \in DOMAIN joinRes[c] BY <1>0, <2>4
    <3>2. conn[d] \in Serving BY <1>0, <2>4, <3>1 DEF SeatsInv, Found, Stages, Serving
    <3>3. \E v : inbox' = [inbox EXCEPT ![d] = v] BY <1>6, <2>4, <3>1 DEF AskDistributor, Queued
    <3> QED BY <1>0, <1>2, <2>1, <2>2, <3>2, <3>3 DEF Serving
  <2> QED BY <2>3, <2>4
<1>7. CASE Depart(c)
  <2>1. /\ conn[c] = "leaving" /\ conn' = [conn EXCEPT ![c] = "gone"] /\ UNCHANGED <<room, joinRes, rk, rd, ui, inbox>>
    BY <1>7 DEF Depart
  <2>2. PICK m \in Frame : m = [t |-> "left", who |-> c] BY FrameShapes
  <2>3. Broadcast(c, m) /\ m.t = "left" BY <1>7, <2>2 DEF Depart
  <2>4. Casts' BY <1>0, <2>1, <2>3, CastIs
  <2>5. RoomOnce' /\ Roster' /\ AwayIsEmpty' BY <1>0, <2>1 DEF RoomOnce, Roster, AwayIsEmpty, SeatsInv, Serving, Present
  <2>6. Found' BY <1>0, <2>1 DEF Found, SeatsInv
  <2> QED BY <2>4, <2>5, <2>6 DEF SeatsInv
<1>8. CASE Store(c)
  <2>1. UNCHANGED <<room, joinRes, rk, rd, ui, inbox, conn>> /\ todo' = [todo EXCEPT ![c] = NoSends] BY <1>8 DEF Store
  <2>2. \A d \in Clients : todo'[d] = NoSends \/ todo'[d] = todo[d] BY <1>0, <2>1
  <2>3. Casts' BY <2>1, <2>2 DEF Casts, SeatsInv, NoSends
  <2> QED BY <2>1, <2>3 DEF SeatsInv, RoomOnce, Roster, AwayIsEmpty, Found, Present
<1>9. ASSUME NEW d \in Clients, FanOut(c, d) PROVE SeatsInv'
  <2>1. /\ UNCHANGED <<room, joinRes, rk, rd, ui, conn>> /\ d \in todo[c].to
        /\ todo' = [todo EXCEPT ![c] = Sends(todo[c].to \ {d}, todo[c].msg)]
    BY <1>0, <1>9 DEF FanOut
  <2>2. PICK x : x = Sends(todo[c].to \ {d}, todo[c].msg) OBVIOUS
  <2>3. x.to # {} => x.to \subseteq todo[c].to /\ x.msg = todo[c].msg BY <2>2 DEF Sends, NoSends
  <2>4. \A e \in Clients : todo'[e] = IF e = c THEN x ELSE todo[e] BY <1>0, <2>1, <2>2
  <2>5. Casts'
    <3> SUFFICES ASSUME NEW e \in Clients, todo'[e].to # {}
                 PROVE  /\ todo'[e].msg.t \in {"joined", "left", "enc", "vanish"}
                        /\ todo'[e].msg.t = "enc" => todo'[e].msg.from = e
                        /\ \A q \in todo'[e].to : conn'[q] \notin {"new", "absent"}
      BY DEF Casts
    <3>1. todo'[e].msg = todo[e].msg /\ todo'[e].to \subseteq todo[e].to /\ todo[e].to # {} BY <2>3, <2>4
    <3> QED BY <3>1, <2>1 DEF Casts, SeatsInv
  <2>6. CASE conn[d] \in {"leaving", "gone"}
    <3>1. UNCHANGED inbox BY <1>9, <2>6 DEF FanOut
    <3> QED BY <2>1, <2>5, <3>1 DEF SeatsInv, RoomOnce, Roster, AwayIsEmpty, Found, Present
  <2>7. CASE conn[d] \notin {"leaving", "gone"}
    <3>1. conn[d] \in Serving BY <1>0, <2>1, <2>7 DEF SeatsInv, Casts, Stages, Serving
    <3>2. \E v : inbox' = [inbox EXCEPT ![d] = v] BY <1>9, <2>7 DEF FanOut, Queued
    <3> QED BY <1>0, <1>2, <2>1, <2>5, <3>1, <3>2
  <2> QED BY <2>6, <2>7
<1>10. CASE Leave(c)
  <2>1. /\ conn[c] = "relay" /\ conn' = [conn EXCEPT ![c] = "leaving"] /\ room' = RemoveFirst(room, c)
        /\ joinRes' = [joinRes EXCEPT ![c] = <<>>] /\ inbox' = [inbox EXCEPT ![c] = <<>>]
        /\ rk' = [rk EXCEPT ![c] = NoKey] /\ rd' = [rd EXCEPT ![c] = Idle] /\ ui' = [ui EXCEPT ![c] = Idle]
        /\ UNCHANGED todo
    BY <1>10 DEF Leave
  <2>2. c \in {room[i] : i \in DOMAIN room} BY <2>1 DEF SeatsInv, Roster, Serving, Present, ToSet
  <2>3. PICK r : r = room' OBVIOUS
  <2>4. PICK m \in 1..Len(room) : /\ room[m] = c /\ r \in Seq(Clients) /\ Len(r) = Len(room) - 1
                                  /\ \A i \in 1..Len(r) : r[i] = IF i < m THEN room[i] ELSE room[i + 1]
    <3>1. room \in Seq(Clients) BY <1>0
    <3>2. \E m \in 1..Len(room) :
           /\ room[m] = c
           /\ RemoveFirst(room, c) \in Seq(Clients) /\ Len(RemoveFirst(room, c)) = Len(room) - 1
           /\ \A i \in 1..Len(RemoveFirst(room, c)) :
                RemoveFirst(room, c)[i] = IF i < m THEN room[i] ELSE room[i + 1]
      BY <3>1, <2>2, RemoveFirstIs
    <3>3. r = RemoveFirst(room, c) BY <2>1, <2>3
    <3> QED BY <3>2, <3>3
  <2>5. DOMAIN r = 1..Len(r) /\ DOMAIN room = 1..Len(room) /\ Len(room) \in Nat BY <1>0, <2>4
  <2>6. \A i \in DOMAIN r : \E k \in DOMAIN room : k # m /\ r[i] = room[k] /\ k = (IF i < m THEN i ELSE i + 1)
    <3> SUFFICES ASSUME NEW i \in DOMAIN r PROVE \E k \in DOMAIN room : k # m /\ r[i] = room[k] /\ k = (IF i < m THEN i ELSE i + 1)
      OBVIOUS
    <3>1. CASE i < m BY <2>4, <2>5, <3>1
    <3>2. CASE ~(i < m) BY <2>4, <2>5, <3>2
    <3> QED BY <3>1, <3>2
  <2>7. \A k \in DOMAIN room : k # m => \E i \in DOMAIN r : r[i] = room[k]
    <3> SUFFICES ASSUME NEW k \in DOMAIN room, k # m PROVE \E i \in DOMAIN r : r[i] = room[k] OBVIOUS
    <3>1. CASE k < m BY <2>4, <2>5, <3>1
    <3>2. CASE ~(k < m)
      <4>1. k - 1 \in 1..Len(r) /\ ~(k - 1 < m) /\ k - 1 + 1 = k BY <2>4, <2>5, <3>2
      <4> QED BY <4>1, <2>4, <2>5
    <3> QED BY <3>1, <3>2
  <2>8. RoomOnce'
    <3>1. ASSUME NEW i \in DOMAIN r, NEW j \in DOMAIN r, r[i] = r[j] PROVE i = j
      <4>1. PICK k \in DOMAIN room : r[i] = room[k] /\ k = (IF i < m THEN i ELSE i + 1) BY <2>6
      <4>2. PICK l \in DOMAIN room : r[j] = room[l] /\ l = (IF j < m THEN j ELSE j + 1) BY <2>6
      <4>3. k = l BY <3>1, <4>1, <4>2 DEF SeatsInv, RoomOnce
      <4> QED BY <4>1, <4>2, <4>3, <2>4, <2>5
    <3> QED BY <2>3, <3>1 DEF RoomOnce
  <2>9. \A d : d \in ToSet(r) <=> d \in Present /\ d # c
    <3>1. \A k \in DOMAIN room : room[k] = c => k = m BY <2>4, <2>5 DEF SeatsInv, RoomOnce
    <3>2. ASSUME NEW d \in ToSet(r) PROVE d \in Present /\ d # c
      <4>1. PICK i \in DOMAIN r : d = r[i] BY <3>2 DEF ToSet
      <4>2. PICK k \in DOMAIN room : k # m /\ r[i] = room[k] BY <2>6
      <4> QED BY <4>1, <4>2, <3>1 DEF Present, ToSet
    <3>3. ASSUME NEW d \in Present, d # c PROVE d \in ToSet(r)
      <4>1. PICK k \in DOMAIN room : d = room[k] BY <3>3 DEF Present, ToSet
      <4>2. k # m BY <3>3, <4>1, <2>4
      <4> QED BY <4>1, <4>2, <2>7 DEF ToSet
    <3> QED BY <3>2, <3>3
  <2>10. Roster'
    <3>1. Present' = ToSet(r) BY <2>3 DEF Present
    <3> QED BY <1>0, <2>1, <2>9, <3>1 DEF Roster, SeatsInv, Serving
  <2>11. AwayIsEmpty' BY <1>0, <2>1 DEF AwayIsEmpty, SeatsInv, Serving
  <2>12. Casts' BY <1>0, <2>1 DEF Casts, SeatsInv
  <2>13. Found'
    <3>1. \A d \in Clients : joinRes'[d] = IF d = c THEN <<>> ELSE joinRes[d] BY <1>0, <2>1
    <3>2. ASSUME NEW d \in Clients, NEW i \in DOMAIN joinRes'[d] PROVE conn'[joinRes'[d][i]] \notin {"new", "absent"}
      <4>1. d # c BY <3>1, <3>2
      <4>2. joinRes'[d][i] = joinRes[d][i] /\ i \in DOMAIN joinRes[d] BY <4>1, <3>1, <3>2
      <4>3. joinRes[d][i] \in Clients /\ conn[joinRes[d][i]] \notin {"new", "absent"} BY <1>0, <4>2 DEF SeatsInv, Found
      <4> QED BY <1>0, <2>1, <4>2, <4>3
    <3> QED BY <3>2 DEF Found
  <2> QED BY <2>8, <2>10, <2>11, <2>12, <2>13 DEF SeatsInv
<1> QED BY <1>1, <1>3, <1>4, <1>5, <1>6, <1>7, <1>8, <1>9, <1>10 DEF RelayStep

\* Every scenario starts with it.
LEMMA SeatsInit == Init => SeatsInv
<1> SUFFICES ASSUME Init PROVE SeatsInv OBVIOUS
<1>0. SessionTypeOK BY SessionTypeInit
<1>1. PICK r \in Scenarios : Seated(r) BY DEF Init
<1>2. RoomOnce BY <1>1, ScenarioShape DEF Seated, RoomOnce
<1>3. Present = ToSet(r.seated) BY <1>1 DEF Seated, Present
<1>4. Roster BY <1>1, <1>3 DEF Seated, Roster, Serving
<1>5. AwayIsEmpty
  <2>1. PICK in : in = ToSet(r.seated) OBVIOUS
  <2>2. PICK k : k = [by |-> Head(r.seated), root |-> 0, epoch |-> 0] OBVIOUS
  <2>3. \A c \in Clients : rk[c] = IF c \in in THEN k ELSE NoKey BY <1>1, <2>1, <2>2 DEF Seated
  <2>4. \A c \in Clients : inbox[c] = <<>> /\ rd[c] = Idle /\ ui[c] = Idle BY DEF Init
  <2> QED BY <1>3, <1>4, <2>1, <2>3, <2>4 DEF AwayIsEmpty, Roster
<1>6. Casts BY DEF Init, Casts, NoSends
<1>7. Found BY DEF Init, Found
<1> QED BY <1>2, <1>4, <1>5, <1>6, <1>7 DEF SeatsInv

\* Every step keeps it.
LEMMA SeatsStep == SessionTypeOK /\ SeatsInv /\ [Next]_vars => SeatsInv'
<1> SUFFICES ASSUME SessionTypeOK, SeatsInv, [Next]_vars PROVE SeatsInv' OBVIOUS
<1>1. ASSUME NEW c \in Clients, RelayStep(c) \/ Leave(c) \/ Reader(c) \/ Caller(c) PROVE SeatsInv'
  BY <1>1, SeatsRelay, SeatsLocal
<1>2. CASE UNCHANGED vars
  BY <1>2 DEF vars, relayVars, clientVars, countVars, SeatsInv, RoomOnce, Roster, AwayIsEmpty, Casts, Found, Present
<1> QED BY <1>1, <1>2 DEF Next

------------------------------------------------------------------------------
(* Keys under way: at most one to each client, and only to one that has none. *)


\* The one key that is to reach c is a request in the inbox of d, a key d has picked up to wrap
\* (0), or the wrapped key in the inbox of c.
Tok(c, d, i) == \/ i = 0 /\ rd[d].at = "wrap" /\ rd[d].who = c
                \/ /\ i \in DOMAIN inbox[d]
                   /\ (inbox[d][i].t = "keyreq" /\ inbox[d][i].who = c) \/ (inbox[d][i].t = "key" /\ d = c)

\* There is one such place at most: AskDistributor asks once, and nothing is answered twice.
OneTok == \A c, d, e \in Clients, i, j \in Nat : Tok(c, d, i) /\ Tok(c, e, j) => d = e /\ i = j
\* As long as there is one, c has no key.
TokWaits == \A c, d \in Clients, i \in Nat : Tok(c, d, i) =>
              /\ rk[c] = NoKey /\ conn[c] \in {"relay", "leaving", "gone"}
              /\ joinRes[c] # <<>> \/ conn[c] \in {"leaving", "gone"}
\* A client is welcomed once.
OneWelcome == \A c \in Clients : \A i, j \in DOMAIN inbox[c] : inbox[c][i].t = "welcome" /\ inbox[c][j].t = "welcome" => i = j
\* The Welcome names the members hub.Join found, and a founder mints on it for the first time.
Welcomes == \A c \in Clients :
              /\ \A i \in DOMAIN inbox[c] : inbox[c][i].t = "welcome" =>
                   /\ inbox[c][i].existing = joinRes[c] /\ conn[c] \notin {"new", "absent", "joined"}
                   /\ joinRes[c] = <<>> => rk[c] = NoKey
              /\ conn[c] \in {"new", "absent", "joined"} => rk[c] = NoKey
\* Why a key never meets a client that holds one.
TokInv == OneTok /\ TokWaits /\ OneWelcome /\ Welcomes
\* Before the request there is no key, except for a founder.
Unasked == \A c \in Clients : joinRes[c] # <<>> /\ conn[c] # "relay" => rk[c] = NoKey

\* Places in an inbox.
LEMMA InboxNat ==
  ASSUME SessionTypeOK, NEW d \in Clients, NEW i \in DOMAIN inbox[d]
  PROVE  i \in Nat /\ i # 0 /\ inbox[d][i] \in Frame
BY DEF SessionTypeOK

\* Places that move together stay one.
LEMMA OneTokMoves ==
  ASSUME SessionTypeOK, TokInv, NEW x \in Clients, NEW k \in {0, 1},
         \A c, d \in Clients, i \in Nat : Tok(c, d, i)' => Tok(c, d, IF d = x THEN i + k ELSE i)
  PROVE  OneTok'
<1> SUFFICES ASSUME NEW c \in Clients, NEW d \in Clients, NEW e \in Clients, NEW i \in Nat, NEW j \in Nat, Tok(c, d, i)', Tok(c, e, j)'
             PROVE  d = e /\ i = j
  BY DEF OneTok
<1> DEFINE a == IF d = x THEN i + k ELSE i
           b == IF e = x THEN j + k ELSE j
<1>1. a \in Nat /\ b \in Nat /\ Tok(c, d, a) /\ Tok(c, e, b) OBVIOUS
<1>2. d = e /\ a = b BY <1>1 DEF TokInv, OneTok
<1> QED BY <1>2

\* A frame taken off an inbox: what is left has moved up by one.
LEMMA TakeTok ==
  ASSUME SessionTypeOK, TokInv, NEW c \in Clients, inbox[c] # <<>>, Taken(c), rd[c] = Idle,
         rd'[c].at # "wrap" \/ (inbox[c][1].t = "keyreq" /\ rd'[c].who = inbox[c][1].who),
         \A d \in Clients : d # c => rd'[d] = rd[d],
         UNCHANGED <<conn, joinRes>>
  PROVE  /\ OneTok' /\ OneWelcome'
         /\ \A b, d \in Clients, i \in Nat : Tok(b, d, i)' => Tok(b, d, IF d = c THEN i + 1 ELSE i)
         /\ \A d \in Clients : \A i \in DOMAIN inbox'[d] :
              inbox'[d][i] = inbox[d][IF d = c THEN i + 1 ELSE i] /\ (IF d = c THEN i + 1 ELSE i) \in DOMAIN inbox[d]
<1>1. /\ inbox[c][1] \in Frame /\ 1 \in DOMAIN inbox[c]
      /\ \A d \in Clients : d # c => inbox'[d] = inbox[d]
      /\ \A i \in DOMAIN inbox'[c] : i \in Nat /\ i # 0 /\ i + 1 \in DOMAIN inbox[c] /\ inbox'[c][i] = inbox[c][i + 1]
  BY TakenIs
<1>2. \A d \in Clients : \A i \in DOMAIN inbox'[d] :
              inbox'[d][i] = inbox[d][IF d = c THEN i + 1 ELSE i] /\ (IF d = c THEN i + 1 ELSE i) \in DOMAIN inbox[d]
  BY <1>1
<1>3. ASSUME NEW b \in Clients, NEW d \in Clients, NEW i \in Nat, Tok(b, d, i)' PROVE Tok(b, d, IF d = c THEN i + 1 ELSE i)
  <2>1. CASE i \in DOMAIN inbox'[d] /\ ((inbox'[d][i].t = "keyreq" /\ inbox'[d][i].who = b) \/ (inbox'[d][i].t = "key" /\ d = b))
    BY <2>1, <1>2 DEF Tok
  <2>2. CASE i = 0 /\ rd'[d].at = "wrap" /\ rd'[d].who = b
    <3>1. CASE d # c BY <3>1, <2>2 DEF Tok
    <3>2. CASE d = c BY <3>2, <2>2, <1>1 DEF Tok
    <3> QED BY <3>1, <3>2
  <2> QED BY <1>3, <2>1, <2>2 DEF Tok
<1>4. OneTok'
  <2>1. \A b, d \in Clients, i \in Nat : Tok(b, d, i)' => Tok(b, d, IF d = c THEN i + 1 ELSE i) BY <1>3
  <2> QED BY <2>1, OneTokMoves
<1>5. OneWelcome'
  <2> SUFFICES ASSUME NEW d \in Clients, NEW i \in DOMAIN inbox'[d], NEW j \in DOMAIN inbox'[d],
                      inbox'[d][i].t = "welcome", inbox'[d][j].t = "welcome"
               PROVE  i = j
    BY DEF OneWelcome
  <2>1. (IF d = c THEN i + 1 ELSE i) = (IF d = c THEN j + 1 ELSE j) BY <1>2 DEF TokInv, OneWelcome
  <2> QED BY <1>1, <2>1
<1> QED BY <1>2, <1>3, <1>4, <1>5

\* The read loop keeps TokInv while it delivers no key.
LEMMA TokReader ==
  ASSUME SessionTypeOK, SeatsInv, TokInv, NEW c \in Clients, Reader(c), ~DeliverKey(c)
  PROVE  TokInv'
<1> USE DEF relayVars, clientVars, countVars
<1>0. /\ UNCHANGED <<conn, joinRes>> /\ rk \in [Clients -> Keys \cup {NoKey}] /\ rd \in [Clients -> RdStates]
      /\ \A d \in Clients : d # c => rk'[d] = rk[d] /\ rd'[d] = rd[d]
      /\ SessionTypeOK'
  BY Local, SessionTypeReader DEF SessionTypeOK
<1>1. ASSUME NEW t, Take(c, t), Taken(c), rd'[c].at # "wrap" \/ (inbox[c][1].t = "keyreq" /\ rd'[c].who = inbox[c][1].who),
             rk'[c] = NoKey \/ rk[c] # NoKey
      PROVE  TokInv'
  <2>1. inbox[c] # <<>> /\ rd[c] = Idle BY <1>1, TakeIs
  <2>2. /\ OneTok' /\ OneWelcome'
        /\ \A b, d \in Clients, i \in Nat : Tok(b, d, i)' => Tok(b, d, IF d = c THEN i + 1 ELSE i)
        /\ \A d \in Clients : \A i \in DOMAIN inbox'[d] :
             inbox'[d][i] = inbox[d][IF d = c THEN i + 1 ELSE i] /\ (IF d = c THEN i + 1 ELSE i) \in DOMAIN inbox[d]
    BY <1>0, <1>1, <2>1, TakeTok
  <2>3. TokWaits'
    <3> SUFFICES ASSUME NEW b \in Clients, NEW d \in Clients, NEW i \in Nat, Tok(b, d, i)'
                 PROVE  /\ rk'[b] = NoKey /\ conn'[b] \in {"relay", "leaving", "gone"}
                        /\ joinRes'[b] # <<>> \/ conn'[b] \in {"leaving", "gone"}
      BY DEF TokWaits
    <3>1. PICK n \in Nat : Tok(b, d, n) BY <2>2
    <3> QED BY <1>0, <1>1, <3>1 DEF TokInv, TokWaits
  <2>4. Welcomes'
    <3>1. \A d \in Clients : rk[d] = NoKey => rk'[d] = NoKey BY <1>0, <1>1
    <3> QED BY <1>0, <2>2, <3>1 DEF TokInv, Welcomes
  <2> QED BY <2>2, <2>3, <2>4 DEF TokInv
<1>2. ASSUME UNCHANGED inbox, rk'[c] = rk[c], rd'[c].at # "wrap" \/ rd'[c] = rd[c]
      PROVE  TokInv'
  <2>1. \A b, d \in Clients, i \in Nat : Tok(b, d, i)' => Tok(b, d, i) BY <1>0, <1>2 DEF Tok
  <2>2. OneTok' BY <2>1 DEF TokInv, OneTok
  <2>3. TokWaits' BY <1>0, <1>2, <2>1 DEF TokInv, TokWaits
  <2>4. OneWelcome' /\ Welcomes' BY <1>0, <1>2 DEF TokInv, OneWelcome, Welcomes
  <2> QED BY <2>2, <2>3, <2>4 DEF TokInv
<1>3. CASE OnWelcome(c)
  <2>1. /\ Take(c, "welcome") /\ Taken(c) BY <1>3 DEF OnWelcome
  <2>2. /\ inbox[c] # <<>> /\ rd[c] = Idle /\ inbox[c][1].t = "welcome" /\ Head(inbox[c]) = inbox[c][1] BY <2>1, TakeIs
  <2>3. 1 \in DOMAIN inbox[c] BY <2>1, <2>2, TakenIs
  <2>4. inbox[c][1].existing = joinRes[c] /\ (joinRes[c] = <<>> => rk[c] = NoKey)
    BY <2>2, <2>3 DEF TokInv, Welcomes
  <2>5. CASE joinRes[c] # <<>>
    <3>1. UNCHANGED <<rk, rd>> BY <1>3, <2>2, <2>4, <2>5 DEF OnWelcome
    <3>2. rd'[c].at # "wrap" BY <2>2, <3>1, RdFacts
    <3> QED BY <2>1, <3>1, <3>2, <1>1
  <2>6. CASE joinRes[c] = <<>>
    <3>1. rd' = [rd EXCEPT ![c] = Resume(pending[c])] BY <1>3, <2>2, <2>4, <2>6 DEF OnWelcome
    <3>2. rd'[c].at # "wrap"
      <4>1. pending[c] \in Seq(Enc) BY DEF SessionTypeOK
      <4> QED BY <1>0, <3>1, <4>1, RdFacts
    <3>3. /\ OneTok' /\ OneWelcome'
          /\ \A b, d \in Clients, i \in Nat : Tok(b, d, i)' => Tok(b, d, IF d = c THEN i + 1 ELSE i)
          /\ \A d \in Clients : \A i \in DOMAIN inbox'[d] :
               inbox'[d][i] = inbox[d][IF d = c THEN i + 1 ELSE i] /\ (IF d = c THEN i + 1 ELSE i) \in DOMAIN inbox[d]
      BY <1>0, <2>1, <2>2, <3>2, TakeTok
    <3>4. conn[c] \notin {"new", "absent", "joined"} BY <2>2, <2>3 DEF TokInv, Welcomes
    <3>5. \A d \in Clients, i \in Nat : ~Tok(c, d, i)
      <4>1. conn[c] \notin {"leaving", "gone"} BY <2>1, TakeIs
      <4> QED BY <2>6, <4>1 DEF TokInv, TokWaits
    <3>6. TokWaits'
      <4> SUFFICES ASSUME NEW b \in Clients, NEW d \in Clients, NEW i \in Nat, Tok(b, d, i)'
                   PROVE  /\ rk'[b] = NoKey /\ conn'[b] \in {"relay", "leaving", "gone"}
                          /\ joinRes'[b] # <<>> \/ conn'[b] \in {"leaving", "gone"}
        BY DEF TokWaits
      <4>1. PICK n \in Nat : Tok(b, d, n) BY <3>3
      <4>2. b # c BY <4>1, <3>5
      <4> QED BY <1>0, <4>1, <4>2 DEF TokInv, TokWaits
    <3>7. \A i \in DOMAIN inbox'[c] : inbox'[c][i].t # "welcome"
      <4>1. SUFFICES ASSUME NEW i \in DOMAIN inbox'[c], inbox'[c][i].t = "welcome" PROVE FALSE OBVIOUS
      <4>2. inbox[c][i + 1].t = "welcome" /\ i + 1 \in DOMAIN inbox[c] BY <3>3, <4>1
      <4>3. i + 1 = 1 BY <2>2, <2>3, <4>2 DEF TokInv, OneWelcome
      <4>4. i \in Nat /\ i # 0 BY <1>0, <4>1, SMTT(40) DEF SessionTypeOK
      <4> QED BY <4>3, <4>4
    <3>8. Welcomes'
      <4>1. ASSUME NEW d \in Clients
            PROVE  /\ \A i \in DOMAIN inbox'[d] : inbox'[d][i].t = "welcome" =>
                        /\ inbox'[d][i].existing = joinRes'[d] /\ conn'[d] \notin {"new", "absent", "joined"}
                        /\ joinRes'[d] = <<>> => rk'[d] = NoKey
                   /\ conn'[d] \in {"new", "absent", "joined"} => rk'[d] = NoKey
        <5>1. CASE d = c BY <5>1, <1>0, <3>4, <3>7
        <5>2. CASE d # c BY <5>2, <1>0, <3>3 DEF TokInv, Welcomes
        <5> QED BY <5>1, <5>2
      <4> QED BY <4>1 DEF Welcomes
    <3> QED BY <3>3, <3>6, <3>8 DEF TokInv
  <2> QED BY <2>5, <2>6
<1>4. CASE OnMemberJoined(c)
  <2>1. Take(c, "joined") /\ Taken(c) /\ UNCHANGED <<rk, rd>> BY <1>4 DEF OnMemberJoined
  <2>2. rd'[c].at # "wrap" BY <2>1, TakeIs, RdFacts
  <2> QED BY <2>1, <2>2, <1>1
<1>5. CASE OnMemberLeft(c)
  <2>1. Take(c, "left") /\ Taken(c) /\ UNCHANGED <<rk, rd>> BY <1>5 DEF OnMemberLeft
  <2>2. rd'[c].at # "wrap" BY <2>1, TakeIs, RdFacts
  <2> QED BY <2>1, <2>2, <1>1
<1>6. CASE OnKeyRequest(c)
  <2>1. Take(c, "keyreq") /\ Taken(c) /\ UNCHANGED rk BY <1>6 DEF OnKeyRequest
  <2>2. Head(inbox[c]) = inbox[c][1] /\ inbox[c][1].t = "keyreq" BY <2>1, TakeIs
  <2>3. rd'[c].at # "wrap" \/ rd'[c].who = inbox[c][1].who
    <3>1. CASE rk[c] = NoKey
      <4>1. rd'[c] = Idle BY <1>0, <1>6, <3>1 DEF OnKeyRequest
      <4> QED BY <4>1, RdFacts
    <3>2. CASE rk[c] # NoKey
      <4>1. rd'[c] = [at |-> "wrap", who |-> inbox[c][1].who, key |-> rk[c]] BY <1>0, <1>6, <2>2, <3>2 DEF OnKeyRequest
      <4> QED BY <4>1
    <3> QED BY <3>1, <3>2
  <2> QED BY <2>1, <2>2, <2>3, <1>1
<1>7. CASE OnKeyDeliver(c)
  <2>1. Take(c, "key") /\ Taken(c) BY <1>7 DEF OnKeyDeliver
  <2>2. /\ inbox[c] # <<>> /\ rd[c] = Idle /\ inbox[c][1].t = "key" /\ Head(inbox[c]) = inbox[c][1]
        /\ conn[c] \notin {"leaving", "gone"} BY <2>1, TakeIs
  <2>3. 1 \in DOMAIN inbox[c] BY <2>1, <2>2, TakenIs
  <2>4. Tok(c, c, 1) BY <2>2, <2>3 DEF Tok
  <2>5. rd'[c].at # "wrap"
    <3>1. rd'[c] = Idle \/ rd'[c] = Resume(pending[c]) BY <1>0, <1>7, <2>2 DEF OnKeyDeliver
    <3>2. pending[c] \in Seq(Enc) BY DEF SessionTypeOK
    <3> QED BY <3>1, <3>2, RdFacts
  <2>6. /\ OneTok' /\ OneWelcome'
        /\ \A b, d \in Clients, i \in Nat : Tok(b, d, i)' => Tok(b, d, IF d = c THEN i + 1 ELSE i)
        /\ \A d \in Clients : \A i \in DOMAIN inbox'[d] :
             inbox'[d][i] = inbox[d][IF d = c THEN i + 1 ELSE i] /\ (IF d = c THEN i + 1 ELSE i) \in DOMAIN inbox[d]
    BY <1>0, <2>1, <2>2, <2>5, TakeTok
  <2>7. \A d \in Clients, i \in Nat : ~Tok(c, d, i)'
    <3> SUFFICES ASSUME NEW d \in Clients, NEW i \in Nat, Tok(c, d, i)' PROVE FALSE OBVIOUS
    <3>1. Tok(c, d, IF d = c THEN i + 1 ELSE i) BY <2>6
    <3>2. d = c /\ i + 1 = 1 BY <2>4, <3>1 DEF TokInv, OneTok
    <3>3. i = 0 BY <3>2
    <3>4. 0 \notin DOMAIN inbox'[c]
      <4>1. inbox'[c] \in Seq(Frame) BY <1>0 DEF SessionTypeOK
      <4> QED BY <4>1
    <3> QED BY <2>5, <3>2, <3>3, <3>4 DEF Tok
  <2>8. TokWaits'
    <3> SUFFICES ASSUME NEW b \in Clients, NEW d \in Clients, NEW i \in Nat, Tok(b, d, i)'
                 PROVE  /\ rk'[b] = NoKey /\ conn'[b] \in {"relay", "leaving", "gone"}
                        /\ joinRes'[b] # <<>> \/ conn'[b] \in {"leaving", "gone"}
      BY DEF TokWaits
    <3>1. PICK n \in Nat : Tok(b, d, n) BY <2>6
    <3>2. b # c BY <2>7
    <3> QED BY <1>0, <3>1, <3>2 DEF TokInv, TokWaits
  <2>9. joinRes[c] # <<>> /\ conn[c] = "relay" BY <2>2, <2>4 DEF TokInv, TokWaits
  <2>10. Welcomes'
    <3>1. ASSUME NEW d \in Clients
          PROVE  /\ \A i \in DOMAIN inbox'[d] : inbox'[d][i].t = "welcome" =>
                      /\ inbox'[d][i].existing = joinRes'[d] /\ conn'[d] \notin {"new", "absent", "joined"}
                      /\ joinRes'[d] = <<>> => rk'[d] = NoKey
                 /\ conn'[d] \in {"new", "absent", "joined"} => rk'[d] = NoKey
      <4>1. CASE d = c BY <4>1, <1>0, <2>6, <2>9 DEF TokInv, Welcomes
      <4>2. CASE d # c BY <4>2, <1>0, <2>6 DEF TokInv, Welcomes
      <4> QED BY <4>1, <4>2
    <3> QED BY <3>1 DEF Welcomes
  <2> QED BY <2>6, <2>8, <2>10 DEF TokInv
<1>8. ASSUME NEW m \in Enc, NEW left \in Seq(Enc), HandleEncrypted(c, m, left) PROVE rk' = rk /\ rd'[c].at # "wrap"
  <2>1. rd'[c] = Resume(left) \/ rd'[c] = [at |-> "open", m |-> m, left |-> left, key |-> rk[c]]
    BY <1>0, <1>8 DEF HandleEncrypted
  <2>2. [at |-> "open", m |-> m, left |-> left, key |-> rk[c]].at = "open" OBVIOUS
  <2> QED BY <1>8, <2>1, <2>2, RdFacts DEF HandleEncrypted
<1>9. CASE OnEncrypted(c)
  <2>1. Take(c, "enc") /\ Taken(c) /\ HandleEncrypted(c, Head(inbox[c]), <<>>) BY <1>9 DEF OnEncrypted
  <2>2. Head(inbox[c]) \in Enc BY <2>1, TakeIs, FrameFacts
  <2>4. <<>> \in Seq(Enc) OBVIOUS
  <2>3. rk' = rk /\ rd'[c].at # "wrap" BY <1>8, <2>1, <2>2, <2>4
  <2> QED BY <2>1, <2>3, <1>1
<1>10. CASE ReplayNext(c)
  <2>1. rd[c].at = "replay" /\ UNCHANGED inbox /\ HandleEncrypted(c, Head(rd[c].left), Tail(rd[c].left))
    BY <1>10 DEF ReplayNext
  <2>2. rd[c].left \in Seq(Enc) /\ rd[c].left # <<>> BY <1>0, <2>1, RdFacts
  <2>3. Head(rd[c].left) \in Enc /\ Tail(rd[c].left) \in Seq(Enc) BY <2>2, HeadTailProperties
  <2>4. rk' = rk /\ rd'[c].at # "wrap" BY <1>8, <2>1, <2>3
  <2> QED BY <2>1, <2>4, <1>2
<1>11. CASE OpenMessage(c)
  <2>1. rd[c].at = "open" /\ UNCHANGED <<inbox, rk>> BY <1>11 DEF OpenMessage
  <2>2. rd[c].left \in Seq(Enc) BY <1>0, <2>1, RdFacts
  <2>3. rd'[c] = Resume(rd[c].left) \/ rd'[c] = [at |-> "record", m |-> rd[c].m, left |-> rd[c].left]
    BY <1>0, <1>11 DEF OpenMessage
  <2>4. [at |-> "record", m |-> rd[c].m, left |-> rd[c].left].at = "record" OBVIOUS
  <2>5. rd'[c].at # "wrap" BY <2>2, <2>3, <2>4, RdFacts
  <2> QED BY <2>1, <2>5, <1>2
<1>12. CASE RecordPeer(c)
  <2>1. rd[c].at = "record" /\ UNCHANGED <<inbox, rk>> BY <1>12 DEF RecordPeer
  <2>2. rd[c].left \in Seq(Enc) BY <1>0, <2>1, RdFacts
  <2>3. rd'[c] = Resume(rd[c].left) BY <1>0, <1>12 DEF RecordPeer
  <2>4. rd'[c].at # "wrap" BY <2>2, <2>3, RdFacts
  <2> QED BY <2>1, <2>4, <1>2
<1>13. CASE OnControl(c)
  <2>1. Take(c, "vanish") /\ Taken(c) /\ rk' = [rk EXCEPT ![c] = Ratcheted(rk[c])] /\ rd' = [rd EXCEPT ![c] = [at |-> "reset"]]
    BY <1>13 DEF OnControl
  <2>2. rk'[c] = NoKey \/ rk[c] # NoKey BY <1>0, <2>1, KeyFacts
  <2>3. rd'[c].at # "wrap" BY <1>0, <2>1
  <2> QED BY <2>1, <2>2, <2>3, <1>1
<1>14. CASE OnControlReset(c)
  <2>1. UNCHANGED <<inbox, rk>> /\ rd' = [rd EXCEPT ![c] = Idle] BY <1>14 DEF OnControlReset
  <2>2. rd'[c].at # "wrap" BY <1>0, <2>1, RdFacts
  <2> QED BY <2>1, <2>2, <1>2
<1> QED BY <1>3, <1>4, <1>5, <1>6, <1>7, <1>9, <1>10, <1>11, <1>12, <1>13, <1>14 DEF Reader

\* A frame queued: a token where the frame is, the others where they were.
LEMMA QueueTok ==
  ASSUME SessionTypeOK, NEW d \in Clients, NEW m \in Frame, Queued(d, <<m>>),
         NEW b \in Clients, NEW e \in Clients, NEW i \in DOMAIN inbox'[e],
         (inbox'[e][i].t = "keyreq" /\ inbox'[e][i].who = b) \/ (inbox'[e][i].t = "key" /\ e = b)
  PROVE  \/ /\ i \in DOMAIN inbox[e]
            /\ (inbox[e][i].t = "keyreq" /\ inbox[e][i].who = b) \/ (inbox[e][i].t = "key" /\ e = b)
         \/ /\ e = d /\ i = Len(inbox[d]) + 1
            /\ (m.t = "keyreq" /\ m.who = b) \/ (m.t = "key" /\ d = b)
<1>1. /\ \A q \in Clients : q # d => inbox'[q] = inbox[q]
      /\ \A j \in DOMAIN inbox'[d] : \/ j \in DOMAIN inbox[d] /\ inbox'[d][j] = inbox[d][j]
                                     \/ j = Len(inbox[d]) + 1 /\ inbox'[d][j] = m
  BY QueuedOneIs
<1>2. CASE e # d BY <1>1, <1>2
<1>3. CASE e = d BY <1>1, <1>3
<1> QED BY <1>2, <1>3

\* Nothing of either kind is queued: tokens and Welcomes stay as they are.
LEMMA TokPlain ==
  ASSUME SessionTypeOK, TokInv, NEW x \in Clients,
         \A d \in Clients : rd'[d].at = "wrap" => rd[d].at = "wrap" /\ rd'[d].who = rd[d].who,
         \A d \in Clients : \A i \in DOMAIN inbox'[d] :
            \/ i \in DOMAIN inbox[d] /\ inbox'[d][i] = inbox[d][i]
            \/ inbox'[d][i].t \notin {"keyreq", "key", "welcome"},
         \A d \in Clients : (rk[d] = NoKey => rk'[d] = NoKey) /\ joinRes'[d] = joinRes[d],
         \A d \in Clients : /\ conn[d] \in {"relay", "leaving", "gone"} => conn'[d] \in {"relay", "leaving", "gone"}
                            /\ conn[d] \in {"leaving", "gone"} => conn'[d] \in {"leaving", "gone"}
                            /\ conn'[d] \in {"new", "absent", "joined"} => conn[d] \in {"new", "absent", "joined"}
  PROVE  TokInv'
<1>1. \A b, d \in Clients, i \in Nat : Tok(b, d, i)' => Tok(b, d, i)
  <2> SUFFICES ASSUME NEW b \in Clients, NEW d \in Clients, NEW i \in Nat, Tok(b, d, i)' PROVE Tok(b, d, i) OBVIOUS
  <2>1. CASE i = 0 /\ rd'[d].at = "wrap" /\ rd'[d].who = b BY <2>1 DEF Tok
  <2>2. CASE i \in DOMAIN inbox'[d] /\ ((inbox'[d][i].t = "keyreq" /\ inbox'[d][i].who = b) \/ (inbox'[d][i].t = "key" /\ d = b))
    BY <2>2 DEF Tok
  <2> QED BY <2>1, <2>2 DEF Tok
<1>2. OneTok' BY <1>1 DEF TokInv, OneTok
<1>3. TokWaits' BY <1>1 DEF TokInv, TokWaits
<1>4. OneWelcome' BY DEF TokInv, OneWelcome
<1>5. Welcomes' BY DEF TokInv, Welcomes
<1> QED BY <1>2, <1>3, <1>4, <1>5 DEF TokInv

\* A caller keeps it.
LEMMA TokCaller ==
  ASSUME SessionTypeOK, SeatsInv, TokInv, NEW c \in Clients, Caller(c)
  PROVE  TokInv'
<1> USE DEF relayVars, clientVars, countVars
<1>0. /\ UNCHANGED <<conn, joinRes>> /\ \A d \in Clients : d # c => rk'[d] = rk[d] /\ rd'[d] = rd[d] BY Local
<1>1. UNCHANGED inbox BY DEF Caller, StartSend, SealAndSend, RecordOwn, Vanish, VanishTell
<1>2. /\ rd'[c].at = "wrap" => rd[c].at = "wrap" /\ rd'[c].who = rd[c].who
      /\ rk[c] = NoKey => rk'[c] = NoKey
  <2>1. CASE Vanish(c)
    <3>1. rd' = ZeroHeld(rd, c) /\ rk' = [rk EXCEPT ![c] = Ratcheted(rk[c])] BY <2>1 DEF Vanish
    <3>2. rk'[c] = Ratcheted(rk[c]) BY <3>1 DEF SessionTypeOK
    <3> QED BY <3>1, <3>2, WipeRd, KeyFacts
  <2>2. CASE ~Vanish(c) BY <2>2 DEF Caller, StartSend, SealAndSend, RecordOwn, VanishTell
  <2> QED BY <2>1, <2>2
<1> QED BY <1>0, <1>1, <1>2, TokPlain

\* A request becomes a key on its way.
LEMMA TokDeliver ==
  ASSUME SessionTypeOK, SeatsInv, TokInv, NEW c \in Clients, DeliverKey(c)
  PROVE  TokInv'
<1> USE DEF relayVars, clientVars, countVars
<1>0. /\ UNCHANGED <<conn, joinRes, rk>> /\ rd[c].at = "wrap" /\ rd[c] \in RdStates
      /\ rd' = [rd EXCEPT ![c] = Idle] /\ rd \in [Clients -> RdStates]
  BY DEF DeliverKey, SessionTypeOK
<1>1. rd'[c].at # "wrap" /\ \A d \in Clients : d # c => rd'[d] = rd[d] BY <1>0, RdFacts
<1>2. CASE rd[c].who \notin Present
  <2>1. UNCHANGED inbox BY <1>2 DEF DeliverKey
  <2> QED BY <1>0, <1>1, <2>1, TokPlain
<1>3. CASE rd[c].who \in Present
  <2>1. PICK d \in Clients : d = rd[c].who BY <1>0, RdFacts
  <2>2. PICK m \in Frame : m = [t |-> "key", from |-> c, key |-> rd[c].key] BY <1>0, RdFacts, FrameShapes
  <2>3. Queued(d, <<m>>) /\ m.t = "key" BY <1>3, <2>1, <2>2 DEF DeliverKey
  <2>4. ASSUME NEW b \in Clients, NEW e \in Clients, NEW i \in Nat, Tok(b, e, i)'
        PROVE  (Tok(b, e, i) /\ <<e, i>> # <<c, 0>>) \/ (b = d /\ e = d /\ i = Len(inbox[d]) + 1)
    <3>1. CASE i = 0 /\ rd'[e].at = "wrap" /\ rd'[e].who = b BY <3>1, <1>1 DEF Tok
    <3>2. CASE i \in DOMAIN inbox'[e] /\ ((inbox'[e][i].t = "keyreq" /\ inbox'[e][i].who = b) \/ (inbox'[e][i].t = "key" /\ e = b))
      <4>1. \/ /\ i \in DOMAIN inbox[e]
               /\ (inbox[e][i].t = "keyreq" /\ inbox[e][i].who = b) \/ (inbox[e][i].t = "key" /\ e = b)
            \/ /\ e = d /\ i = Len(inbox[d]) + 1
               /\ (m.t = "keyreq" /\ m.who = b) \/ (m.t = "key" /\ d = b)
        BY <2>3, <3>2, QueueTok
      <4>2. i \in DOMAIN inbox[e] => i # 0 BY InboxNat
      <4> QED BY <2>3, <4>1, <4>2 DEF Tok
    <3> QED BY <2>4, <3>1, <3>2 DEF Tok
  <2>5. Tok(d, c, 0) BY <1>0, <2>1 DEF Tok
  <2>6. \A e \in Clients, i \in Nat : Tok(d, e, i)' => e = d /\ i = Len(inbox[d]) + 1
    BY <2>4, <2>5 DEF TokInv, OneTok
  <2>7. OneTok' BY <2>4, <2>6 DEF TokInv, OneTok
  <2>8. TokWaits' BY <1>0, <2>4, <2>5 DEF TokInv, TokWaits
  <2>9. \A e \in Clients : \A i \in DOMAIN inbox'[e] : inbox'[e][i].t = "welcome" => i \in DOMAIN inbox[e] /\ inbox'[e][i] = inbox[e][i]
    <3>1. ASSUME NEW i \in DOMAIN inbox'[d], inbox'[d][i].t = "welcome" PROVE i \in DOMAIN inbox[d] /\ inbox'[d][i] = inbox[d][i]
      BY <2>3, <3>1, QueuedOneIs
    <3>2. \A e \in Clients : e # d => inbox'[e] = inbox[e] BY <2>3, QueuedOneIs
    <3> QED BY <3>1, <3>2
  <2>10. OneWelcome' BY <2>9 DEF TokInv, OneWelcome
  <2>11. Welcomes' BY <1>0, <2>9 DEF TokInv, Welcomes
  <2> QED BY <2>7, <2>8, <2>10, <2>11 DEF TokInv
<1> QED BY <1>2, <1>3

\* The relay keeps it: a request is new only from a client not asked for yet.
LEMMA TokRelay ==
  ASSUME SessionTypeOK, SeatsInv, TokInv, Unasked, NEW c \in Clients, RelayStep(c) \/ Leave(c)
  PROVE  TokInv'
<1> USE DEF relayVars, clientVars, countVars
<1>0. /\ conn \in [Clients -> Stages] /\ joinRes \in [Clients -> Seq(Clients)] /\ inbox \in [Clients -> Seq(Frame)]
      /\ rk \in [Clients -> Keys \cup {NoKey}] /\ rd \in [Clients -> RdStates]
  BY DEF SessionTypeOK
<1>1. CASE Join(c)
  <2>1. /\ conn[c] = "new" /\ conn' = [conn EXCEPT ![c] = "joined"] /\ joinRes' = [joinRes EXCEPT ![c] = room]
        /\ UNCHANGED <<inbox, rk, rd>>
    BY <1>1 DEF Join
  <2>2. inbox[c] = <<>> BY <2>1 DEF SeatsInv, AwayIsEmpty, Serving
  <2>3. \A d \in Clients, i \in Nat : ~Tok(c, d, i) BY <2>1 DEF TokInv, TokWaits
  <2>4. \A b, d \in Clients, i \in Nat : Tok(b, d, i)' <=> Tok(b, d, i) BY <2>1 DEF Tok
  <2>5. \A d \in Clients : d # c => conn'[d] = conn[d] /\ joinRes'[d] = joinRes[d] BY <1>0, <2>1
  <2>6. OneTok' BY <2>4 DEF TokInv, OneTok
  <2>7. TokWaits' BY <2>1, <2>3, <2>4, <2>5 DEF TokInv, TokWaits
  <2>8. OneWelcome' BY <2>1 DEF TokInv, OneWelcome
  <2>9. Welcomes'
    <3>1. DOMAIN inbox[c] = {} BY <2>2
    <3>2. rk[c] = NoKey BY <2>1 DEF TokInv, Welcomes
    <3> QED BY <2>1, <2>5, <3>1, <3>2 DEF TokInv, Welcomes
  <2> QED BY <2>6, <2>7, <2>8, <2>9 DEF TokInv
<1>2. CASE SendWelcome(c)
  <2>1. /\ conn[c] = "joined" /\ conn' = [conn EXCEPT ![c] = "welcomed"] /\ UNCHANGED <<joinRes, rk, rd>>
    BY <1>2 DEF SendWelcome
  <2>2. PICK m \in Frame : m = [t |-> "welcome", existing |-> joinRes[c]] BY <1>0, FrameShapes
  <2>3. Queued(c, <<m>>) /\ m.t = "welcome" /\ m.existing = joinRes[c] BY <1>2, <2>2 DEF SendWelcome
  <2>4. ASSUME NEW b \in Clients, NEW e \in Clients, NEW i \in Nat, Tok(b, e, i)' PROVE Tok(b, e, i)
    <3>1. CASE i = 0 /\ rd'[e].at = "wrap" /\ rd'[e].who = b BY <3>1, <2>1 DEF Tok
    <3>2. CASE i \in DOMAIN inbox'[e] /\ ((inbox'[e][i].t = "keyreq" /\ inbox'[e][i].who = b) \/ (inbox'[e][i].t = "key" /\ e = b))
      <4>1. \/ /\ i \in DOMAIN inbox[e]
               /\ (inbox[e][i].t = "keyreq" /\ inbox[e][i].who = b) \/ (inbox[e][i].t = "key" /\ e = b)
            \/ /\ e = c /\ i = Len(inbox[c]) + 1
               /\ (m.t = "keyreq" /\ m.who = b) \/ (m.t = "key" /\ c = b)
        BY <2>3, <3>2, QueueTok
      <4> QED BY <2>3, <4>1 DEF Tok
    <3> QED BY <2>4, <3>1, <3>2 DEF Tok
  <2>5. OneTok' BY <2>4 DEF TokInv, OneTok
  <2>6. TokWaits' BY <1>0, <2>1, <2>4 DEF TokInv, TokWaits
  <2>7. /\ \A e \in Clients : e # c => inbox'[e] = inbox[e]
        /\ \A i \in DOMAIN inbox'[c] : \/ i \in DOMAIN inbox[c] /\ inbox'[c][i] = inbox[c][i]
                                       \/ i = Len(inbox[c]) + 1 /\ inbox'[c][i] = m
    BY <2>3, QueuedOneIs
  <2>8. \A i \in DOMAIN inbox[c] : inbox[c][i].t # "welcome" BY <2>1 DEF TokInv, Welcomes
  <2>9. OneWelcome' BY <2>7, <2>8 DEF TokInv, OneWelcome
  <2>10. rk[c] = NoKey BY <2>1 DEF TokInv, Welcomes
  <2>11. Welcomes'
    <3>1. ASSUME NEW d \in Clients
          PROVE  /\ \A i \in DOMAIN inbox'[d] : inbox'[d][i].t = "welcome" =>
                      /\ inbox'[d][i].existing = joinRes'[d] /\ conn'[d] \notin {"new", "absent", "joined"}
                      /\ joinRes'[d] = <<>> => rk'[d] = NoKey
                 /\ conn'[d] \in {"new", "absent", "joined"} => rk'[d] = NoKey
      <4>1. CASE d = c BY <4>1, <1>0, <2>1, <2>3, <2>7, <2>8, <2>10
      <4>2. CASE d # c BY <4>2, <1>0, <2>1, <2>7 DEF TokInv, Welcomes
      <4> QED BY <4>1, <4>2
    <3> QED BY <3>1 DEF Welcomes
  <2> QED BY <2>5, <2>6, <2>9, <2>11 DEF TokInv
<1>3. CASE Replay(c)
  <2>1. /\ conn[c] = "welcomed" /\ conn' = [conn EXCEPT ![c] = "replayed"] /\ UNCHANGED <<joinRes, rk, rd>> /\ Queued(c, hist)
    BY <1>3 DEF Replay
  <2>2. hist \in Seq(Frame) BY FrameFacts, SeqMonotonic DEF SessionTypeOK
  <2>3. \A j \in DOMAIN hist : hist[j].t = "enc"
    <3>1. \A j \in DOMAIN hist : hist[j] \in Enc BY DEF SessionTypeOK
    <3> QED BY <3>1, FrameFacts
  <2>4. \A d \in Clients : \A i \in DOMAIN inbox'[d] :
            \/ i \in DOMAIN inbox[d] /\ inbox'[d][i] = inbox[d][i]
            \/ inbox'[d][i].t \notin {"keyreq", "key", "welcome"}
    <3>1. /\ \A e \in Clients : e # c => inbox'[e] = inbox[e]
          /\ \A i \in DOMAIN inbox'[c] : \/ i \in DOMAIN inbox[c] /\ inbox'[c][i] = inbox[c][i]
                                         \/ \E j \in DOMAIN hist : i = Len(inbox[c]) + j /\ inbox'[c][i] = hist[j]
      BY <2>1, <2>2, QueuedIs
    <3>2. \A i \in DOMAIN inbox'[c] : \/ i \in DOMAIN inbox[c] /\ inbox'[c][i] = inbox[c][i]
                                      \/ inbox'[c][i].t = "enc" BY <2>3, <3>1
    <3> QED BY <3>1, <3>2
  <2> QED BY <1>0, <2>1, <2>4, TokPlain
<1>4. CASE Announce(c)
  <2>1. /\ conn[c] = "replayed" /\ conn' = [conn EXCEPT ![c] = "announced"] /\ UNCHANGED <<joinRes, rk, rd, inbox>>
    BY <1>4 DEF Announce
  <2> QED BY <1>0, <2>1, TokPlain
<1>5. CASE AskDistributor(c)
  <2>1. /\ conn[c] = "announced" /\ conn' = [conn EXCEPT ![c] = "relay"] /\ UNCHANGED <<joinRes, rk, rd>>
    BY <1>5 DEF AskDistributor
  <2>2. CASE joinRes[c] = <<>> \/ conn[Head(joinRes[c])] \in {"leaving", "gone"}
    <3>1. UNCHANGED inbox BY <1>5, <2>2 DEF AskDistributor
    <3> QED BY <1>0, <2>1, <3>1, TokPlain
  <2>3. CASE ~(joinRes[c] = <<>> \/ conn[Head(joinRes[c])] \in {"leaving", "gone"})
    <3>1. PICK d \in Clients : d = Head(joinRes[c]) BY <1>0, <2>3
    <3>2. PICK m \in Frame : m = [t |-> "keyreq", who |-> c] BY FrameShapes
    <3>3. Queued(d, <<m>>) /\ m.t = "keyreq" /\ m.who = c BY <1>5, <2>3, <3>1, <3>2 DEF AskDistributor
    <3>4. \A e \in Clients, i \in Nat : ~Tok(c, e, i) BY <2>1 DEF TokInv, TokWaits
    <3>5. ASSUME NEW b \in Clients, NEW e \in Clients, NEW i \in Nat, Tok(b, e, i)'
          PROVE  (b # c /\ Tok(b, e, i)) \/ (b = c /\ e = d /\ i = Len(inbox[d]) + 1)
      <4>1. CASE i = 0 /\ rd'[e].at = "wrap" /\ rd'[e].who = b BY <4>1, <2>1, <3>4 DEF Tok
      <4>2. CASE i \in DOMAIN inbox'[e] /\ ((inbox'[e][i].t = "keyreq" /\ inbox'[e][i].who = b) \/ (inbox'[e][i].t = "key" /\ e = b))
        <5>1. \/ /\ i \in DOMAIN inbox[e]
                 /\ (inbox[e][i].t = "keyreq" /\ inbox[e][i].who = b) \/ (inbox[e][i].t = "key" /\ e = b)
              \/ /\ e = d /\ i = Len(inbox[d]) + 1
                 /\ (m.t = "keyreq" /\ m.who = b) \/ (m.t = "key" /\ d = b)
          BY <3>3, <4>2, QueueTok
        <5>2. CASE Tok(b, e, i) BY <5>2, <3>4
        <5>3. CASE ~Tok(b, e, i) BY <5>1, <5>3, <3>3 DEF Tok
        <5> QED BY <5>2, <5>3
      <4> QED BY <3>5, <4>1, <4>2 DEF Tok
    <3>6. OneTok' BY <3>5 DEF TokInv, OneTok
    <3>7. TokWaits'
      <4> SUFFICES ASSUME NEW b \in Clients, NEW e \in Clients, NEW i \in Nat, Tok(b, e, i)'
                   PROVE  /\ rk'[b] = NoKey /\ conn'[b] \in {"relay", "leaving", "gone"}
                          /\ joinRes'[b] # <<>> \/ conn'[b] \in {"leaving", "gone"}
        BY DEF TokWaits
      <4>1. CASE b # c BY <4>1, <1>0, <2>1, <3>5 DEF TokInv, TokWaits
      <4>2. CASE b = c
        <5>1. rk[c] = NoKey BY <2>1, <2>3 DEF Unasked
        <5> QED BY <4>2, <5>1, <1>0, <2>1, <2>3
      <4> QED BY <4>1, <4>2
    <3>8. \A e \in Clients : \A i \in DOMAIN inbox'[e] : inbox'[e][i].t = "welcome" => i \in DOMAIN inbox[e] /\ inbox'[e][i] = inbox[e][i]
      BY <3>3, QueuedOneIs
    <3>9. OneWelcome' BY <3>8 DEF TokInv, OneWelcome
    <3>10. Welcomes' BY <1>0, <2>1, <3>8 DEF TokInv, Welcomes
    <3> QED BY <3>6, <3>7, <3>9, <3>10 DEF TokInv
  <2> QED BY <2>2, <2>3
<1>6. CASE Depart(c)
  <2>1. /\ conn[c] = "leaving" /\ conn' = [conn EXCEPT ![c] = "gone"] /\ UNCHANGED <<joinRes, rk, rd, inbox>>
    BY <1>6 DEF Depart
  <2> QED BY <1>0, <2>1, TokPlain
<1>7. CASE Store(c)
  <2>1. UNCHANGED <<conn, joinRes, rk, rd, inbox>> BY <1>7 DEF Store
  <2> QED BY <1>0, <2>1, TokPlain
<1>8. ASSUME NEW d \in Clients, FanOut(c, d) PROVE TokInv'
  <2>1. UNCHANGED <<conn, joinRes, rk, rd>> /\ d \in todo[c].to BY <1>8 DEF FanOut
  <2>2. PICK m \in Frame : m = todo[c].msg /\ m.t \in {"joined", "left", "enc", "vanish"}
    BY <2>1, TodoFacts DEF SeatsInv, Casts
  <2>3. UNCHANGED inbox \/ Queued(d, <<m>>) BY <1>8, <2>2 DEF FanOut
  <2>4. CASE UNCHANGED inbox BY <1>0, <2>1, <2>4, TokPlain
  <2>5. CASE Queued(d, <<m>>)
    <3>1. \A e \in Clients : \A i \in DOMAIN inbox'[e] :
            \/ i \in DOMAIN inbox[e] /\ inbox'[e][i] = inbox[e][i]
            \/ inbox'[e][i].t \notin {"keyreq", "key", "welcome"}
      <4>1. /\ \A e \in Clients : e # d => inbox'[e] = inbox[e]
            /\ \A i \in DOMAIN inbox'[d] : \/ i \in DOMAIN inbox[d] /\ inbox'[d][i] = inbox[d][i]
                                           \/ i = Len(inbox[d]) + 1 /\ inbox'[d][i] = m
        BY <2>5, QueuedOneIs
      <4> QED BY <2>2, <4>1
    <3> QED BY <2>1, <3>1, TokPlain
  <2> QED BY <2>3, <2>4, <2>5
<1>9. CASE Leave(c)
  <2>1. /\ conn[c] = "relay" /\ conn' = [conn EXCEPT ![c] = "leaving"] /\ joinRes' = [joinRes EXCEPT ![c] = <<>>]
        /\ inbox' = [inbox EXCEPT ![c] = <<>>] /\ rk' = [rk EXCEPT ![c] = NoKey] /\ rd' = [rd EXCEPT ![c] = Idle]
    BY <1>9 DEF Leave
  <2>2. /\ \A d \in Clients : d # c => /\ conn'[d] = conn[d] /\ joinRes'[d] = joinRes[d] /\ inbox'[d] = inbox[d]
                                        /\ rk'[d] = rk[d] /\ rd'[d] = rd[d]
        /\ conn'[c] = "leaving" /\ inbox'[c] = <<>> /\ rk'[c] = NoKey /\ rd'[c] = Idle
    BY <1>0, <2>1
  <2>3. DOMAIN inbox'[c] = {} /\ rd'[c].at # "wrap" BY <2>2, RdFacts
  <2>4. ASSUME NEW b \in Clients, NEW d \in Clients, NEW i \in Nat, Tok(b, d, i)' PROVE Tok(b, d, i)
    <3>1. d # c BY <2>3, <2>4 DEF Tok
    <3> QED BY <2>2, <2>4, <3>1 DEF Tok
  <2>5. OneTok' BY <2>4 DEF TokInv, OneTok
  <2>6. TokWaits' BY <2>2, <2>4 DEF TokInv, TokWaits
  <2>7. OneWelcome' BY <2>2, <2>3 DEF TokInv, OneWelcome
  <2>8. Welcomes' BY <2>2, <2>3 DEF TokInv, Welcomes
  <2> QED BY <2>5, <2>6, <2>7, <2>8 DEF TokInv
<1> QED BY <1>1, <1>2, <1>3, <1>4, <1>5, <1>6, <1>7, <1>8, <1>9 DEF RelayStep

\* What a step of a client may do to its key.
LEMMA KeyMoves ==
  ASSUME SessionTypeOK, SeatsInv, TokInv, NEW c \in Clients, Reader(c) \/ Caller(c)
  PROVE  \/ rk'[c] = rk[c]
         \/ rk'[c] = Ratcheted(rk[c])
         \/ /\ rk[c] = NoKey /\ rk'[c] \in Keys /\ conn[c] \notin {"new", "absent", "joined"}
            /\ joinRes[c] = <<>> \/ conn[c] = "relay"
<1> USE DEF relayVars, clientVars, countVars
<1>0. rk \in [Clients -> Keys \cup {NoKey}] /\ SessionTypeOK' BY SessionTypeReader, SessionTypeCaller DEF SessionTypeOK
<1>1. CASE OnWelcome(c)
  <2>1. Take(c, "welcome") /\ Taken(c) BY <1>1 DEF OnWelcome
  <2>2. inbox[c] # <<>> /\ inbox[c][1].t = "welcome" /\ Head(inbox[c]) = inbox[c][1] /\ 1 \in DOMAIN inbox[c]
    BY <2>1, TakeIs, TakenIs
  <2>3. /\ inbox[c][1].existing = joinRes[c] /\ (joinRes[c] = <<>> => rk[c] = NoKey)
        /\ conn[c] \notin {"new", "absent", "joined"}
    BY <2>2 DEF TokInv, Welcomes
  <2>4. CASE joinRes[c] # <<>> BY <1>1, <2>2, <2>3, <2>4 DEF OnWelcome
  <2>5. CASE joinRes[c] = <<>>
    <3>1. rk' = [rk EXCEPT ![c] = [by |-> c, root |-> 0, epoch |-> 0]] BY <1>1, <2>2, <2>3, <2>5 DEF OnWelcome
    <3> QED BY <1>0, <2>3, <2>5, <3>1, KeyFacts
  <2> QED BY <2>4, <2>5
<1>2. CASE OnKeyDeliver(c)
  <2>1. Take(c, "key") /\ Taken(c) BY <1>2 DEF OnKeyDeliver
  <2>2. /\ inbox[c] # <<>> /\ inbox[c][1].t = "key" /\ Head(inbox[c]) = inbox[c][1] /\ 1 \in DOMAIN inbox[c]
        /\ inbox[c][1] \in Frame /\ conn[c] \notin {"leaving", "gone"}
    BY <2>1, TakeIs, TakenIs
  <2>3. Tok(c, c, 1) BY <2>2 DEF Tok
  <2>4. rk[c] = NoKey /\ conn[c] = "relay" BY <2>2, <2>3 DEF TokInv, TokWaits
  <2>5. rk' = rk \/ rk' = [rk EXCEPT ![c] = inbox[c][1].key] BY <1>2, <2>2 DEF OnKeyDeliver
  <2> QED BY <1>0, <2>2, <2>4, <2>5, FrameFacts
<1>3. CASE OnControl(c) \/ Vanish(c)
  <2>1. rk' = [rk EXCEPT ![c] = Ratcheted(rk[c])] BY <1>3 DEF OnControl, Vanish
  <2> QED BY <1>0, <2>1
<1>4. CASE ~OnWelcome(c) /\ ~OnKeyDeliver(c) /\ ~OnControl(c) /\ ~Vanish(c)
  <2>1. UNCHANGED rk
    BY <1>4 DEF Reader, Caller, OnMemberJoined, OnMemberLeft, OnKeyRequest, DeliverKey, OnEncrypted, HandleEncrypted,
       ReplayNext, OpenMessage, RecordPeer, OnControlReset, StartSend, SealAndSend, RecordOwn, VanishTell
  <2> QED BY <2>1
<1> QED BY <1>1, <1>2, <1>3, <1>4

\* The relay touches no client's state.
LEMMA RelayKeys ==
  ASSUME NEW c \in Clients, RelayStep(c)
  PROVE  UNCHANGED <<clientVars, sent, budget, surfaced, slipped>>
BY DEF RelayStep, Join, SendWelcome, Replay, Announce, AskDistributor, Depart, Store, FanOut, countVars

\* Every step keeps Unasked.
LEMMA UnaskedStep ==
  ASSUME SessionTypeOK, SeatsInv, TokInv, Unasked, NEW c \in Clients, RelayStep(c) \/ Leave(c) \/ Reader(c) \/ Caller(c)
  PROVE  Unasked'
<1>0. /\ conn \in [Clients -> Stages] /\ joinRes \in [Clients -> Seq(Clients)] /\ rk \in [Clients -> Keys \cup {NoKey}]
  BY DEF SessionTypeOK
<1>1. CASE Reader(c) \/ Caller(c)
  <2>1. UNCHANGED <<conn, joinRes>> /\ \A d \in Clients : d # c => rk'[d] = rk[d] BY <1>1, Local
  <2>2. joinRes[c] # <<>> /\ conn[c] # "relay" /\ rk[c] = NoKey => rk'[c] = NoKey BY <1>1, KeyMoves, KeyFacts
  <2> QED BY <2>1, <2>2 DEF Unasked
<1>2. CASE RelayStep(c)
  <2>1. UNCHANGED rk BY <1>2, RelayKeys DEF clientVars
  <2>2. CASE Join(c)
    <3>1. rk[c] = NoKey /\ \A d \in Clients : d # c => conn'[d] = conn[d] /\ joinRes'[d] = joinRes[d]
      BY <1>0, <2>2 DEF Join, TokInv, Welcomes
    <3> QED BY <2>1, <3>1 DEF Unasked
  <2>3. CASE ~Join(c)
    <3>1. UNCHANGED joinRes /\ \A d \in Clients : conn[d] = "relay" => conn'[d] = "relay"
      BY <1>0, <1>2, <2>3 DEF RelayStep, SendWelcome, Replay, Announce, AskDistributor, Depart, Store, FanOut
    <3> QED BY <2>1, <3>1 DEF Unasked
  <2> QED BY <2>2, <2>3
<1>3. CASE Leave(c)
  <2>1. /\ rk' = [rk EXCEPT ![c] = NoKey] /\ joinRes' = [joinRes EXCEPT ![c] = <<>>] /\ conn' = [conn EXCEPT ![c] = "leaving"]
    BY <1>3 DEF Leave
  <2> QED BY <1>0, <2>1 DEF Unasked
<1> QED BY <1>1, <1>2, <1>3

\* The inductive invariant on keys under way.
KeyInv == TokInv /\ Unasked

\* Nothing is under way at the start.
LEMMA KeyInvInit == Init => KeyInv
<1> SUFFICES ASSUME Init PROVE KeyInv OBVIOUS
<1>0. SessionTypeOK /\ SeatsInv BY SessionTypeInit, SeatsInit
<1>1. \A c \in Clients : joinRes[c] = <<>> /\ inbox[c] = <<>> /\ rd[c] = Idle BY DEF Init
<1>2. \A c, d \in Clients, i \in Nat : ~Tok(c, d, i)
  <2>1. \A d \in Clients : DOMAIN inbox[d] = {} /\ rd[d].at # "wrap" BY <1>1, RdFacts
  <2> QED BY <2>1 DEF Tok
<1>3. \A c \in Clients : conn[c] \in {"new", "absent", "joined"} => rk[c] = NoKey
  <2>1. PICK r \in Scenarios : Seated(r) BY DEF Init
  <2>2. \A c \in Clients : conn[c] # "joined" BY <2>1 DEF Seated
  <2>3. \A c \in Clients : conn[c] \in {"new", "absent"} => rk[c] = NoKey BY <1>0 DEF SeatsInv, AwayIsEmpty, Serving
  <2> QED BY <2>2, <2>3
<1>4. \A c \in Clients : DOMAIN inbox[c] = {} BY <1>1
<1>5. OneTok /\ TokWaits BY <1>2 DEF OneTok, TokWaits
<1>6. OneWelcome /\ Welcomes /\ Unasked BY <1>1, <1>3, <1>4 DEF OneWelcome, Welcomes, Unasked
<1> QED BY <1>5, <1>6 DEF KeyInv, TokInv

\* Every step keeps it.
LEMMA KeyInvStep == SessionTypeOK /\ SeatsInv /\ KeyInv /\ [Next]_vars => KeyInv'
<1> SUFFICES ASSUME SessionTypeOK, SeatsInv, KeyInv, [Next]_vars PROVE KeyInv' OBVIOUS
<1>0. TokInv /\ Unasked BY DEF KeyInv
<1>1. ASSUME NEW c \in Clients, RelayStep(c) \/ Leave(c) \/ Reader(c) \/ Caller(c) PROVE KeyInv'
  <2>1. Unasked' BY <1>0, <1>1, UnaskedStep
  <2>2. TokInv' BY <1>0, <1>1, TokRelay, TokReader, TokDeliver, TokCaller
  <2> QED BY <2>1, <2>2 DEF KeyInv
<1>2. CASE UNCHANGED vars
  <2>1. UNCHANGED <<inbox, rd, rk, conn, joinRes>> BY <1>2 DEF vars, relayVars, clientVars
  <2>2. \A c, d \in Clients, i \in Nat : Tok(c, d, i)' <=> Tok(c, d, i) BY <2>1 DEF Tok
  <2>3. OneTok' /\ TokWaits' BY <1>0, <2>1, <2>2 DEF TokInv, OneTok, TokWaits
  <2>4. OneWelcome' /\ Welcomes' /\ Unasked' BY <1>0, <2>1 DEF TokInv, OneWelcome, Welcomes, Unasked
  <2> QED BY <2>3, <2>4 DEF KeyInv, TokInv
<1> QED BY <1>1, <1>2 DEF Next

\* What the results below rest on.
SessionInv == SessionTypeOK /\ SeatsInv /\ KeyInv

\* Every step keeps it.
LEMMA SessionInvStep == SessionInv /\ [Next]_vars => SessionInv'
BY SessionTypeStep, SeatsStep, KeyInvStep DEF SessionInv

\* It always holds.
LEMMA SessionInvHolds == Spec => []SessionInv
<1>1. Init => SessionInv BY SessionTypeInit, SeatsInit, KeyInvInit DEF SessionInv
<1> QED BY <1>1, SessionInvStep, PTL DEF Spec

\* No step takes a key away or an epoch back.
LEMMA KeysGoForward ==
  ASSUME SessionInv, [Next]_vars, NEW c \in Clients, rk[c] # NoKey, conn'[c] # "leaving"
  PROVE  rk'[c] # NoKey /\ rk'[c].epoch >= rk[c].epoch
<1>0. SessionTypeOK /\ SeatsInv /\ TokInv /\ rk[c] \in Keys BY DEF SessionInv, KeyInv, SessionTypeOK
<1>1. CASE rk'[c] = rk[c] BY <1>0, <1>1, KeyFacts
<1>2. CASE rk'[c] = Ratcheted(rk[c]) BY <1>0, <1>2, KeyFacts
<1>3. ASSUME NEW d \in Clients, RelayStep(d) \/ Leave(d) \/ Reader(d) \/ Caller(d)
      PROVE  rk'[c] = rk[c] \/ rk'[c] = Ratcheted(rk[c])
  <2>1. CASE RelayStep(d) BY <2>1, RelayKeys DEF clientVars
  <2>2. CASE Leave(d)
    <3>1. conn' = [conn EXCEPT ![d] = "leaving"] /\ rk' = [rk EXCEPT ![d] = NoKey] BY <2>2 DEF Leave
    <3> QED BY <1>0, <3>1 DEF SessionTypeOK
  <2>3. CASE Reader(d) \/ Caller(d)
    <3>1. CASE d # c BY <1>0, <2>3, <3>1, Local
    <3>2. CASE d = c BY <1>0, <2>3, <3>2, KeyMoves
    <3> QED BY <3>1, <3>2
  <2> QED BY <1>3, <2>1, <2>2, <2>3
<1>4. CASE UNCHANGED vars BY <1>1, <1>4 DEF vars, clientVars
<1> QED BY <1>1, <1>2, <1>3, <1>4 DEF Next

\* A client that holds a room key never goes back to an earlier epoch, for any number of clients,
\* sends, ratchets and departures: onKeyDeliver overwrites c.rk unconditionally, and no key is ever
\* on its way to a client that has one.
THEOREM KeysNeverGoBack == Spec => EpochNeverBack
<1>1. SessionInv /\ [Next]_vars =>
        [\A c \in Clients : (rk[c] # NoKey /\ conn'[c] # "leaving") => (rk'[c] # NoKey /\ rk'[c].epoch >= rk[c].epoch)]_vars
  BY KeysGoForward
<1> QED BY <1>1, SessionInvHolds, PTL DEF Spec, EpochNeverBack

------------------------------------------------------------------------------
(* Acks. *)

\* What PeerAcksCurrent says of one client.
AcksOf(c) == (rd[c].at # "reset" /\ ui[c].at # "vanish" /\ c \notin slipped) =>
               \A a \in acks[c] : a.by # c => a.epoch = rk[c].epoch
\* Without a key nothing of a peer is held.
KeylessOf(c) == rk[c] = NoKey => (\A a \in acks[c] : a.by = c) /\ rd[c].at \notin {"open", "record", "replay"}
\* A frame opened and not yet applied is of the current epoch.
RecordOf(c) == rd[c].at = "record" /\ c \notin slipped => rd[c].m.key.epoch = rk[c].epoch
\* A frame about to be opened will not open under a key that is no longer the client's.
OpenOf(c) == rd[c].at = "open" /\ c \notin slipped => rd[c].key = rk[c] \/ rd[c].m.key # rd[c].key
\* The inductive invariant on acks: those held and those about to be.
AckInv == \A c \in Clients : AcksOf(c) /\ KeylessOf(c) /\ RecordOf(c) /\ OpenOf(c)

\* A client a step leaves alone.
LEMMA AckSame ==
  ASSUME AckInv, NEW d \in Clients, rk'[d] = rk[d], rd'[d] = rd[d], ui'[d].at = ui[d].at, acks'[d] = acks[d],
         d \in slipped' <=> d \in slipped
  PROVE  (AcksOf(d) /\ KeylessOf(d) /\ RecordOf(d) /\ OpenOf(d))'
BY DEF AckInv, AcksOf, KeylessOf, RecordOf, OpenOf

\* A step that records nothing and picks nothing up.
LEMMA AckQuiet ==
  ASSUME AckInv, NEW c \in Clients, rk'[c] = rk[c], acks'[c] = acks[c], slipped' = slipped,
         rd[c].at = "reset" => rd'[c].at = "reset", ui[c].at = "vanish" => ui'[c].at = "vanish",
         rd'[c].at \notin {"open", "record"}, rd'[c].at = "replay" => rk[c] # NoKey
  PROVE  (AcksOf(c) /\ KeylessOf(c) /\ RecordOf(c) /\ OpenOf(c))'
BY DEF AckInv, AcksOf, KeylessOf, RecordOf, OpenOf

\* handleEncrypted picks a frame up under the current key.
LEMMA AckHandle ==
  ASSUME SessionTypeOK, AckInv, NEW c \in Clients, NEW m \in Enc, NEW left \in Seq(Enc), HandleEncrypted(c, m, left),
         rd[c].at # "reset", left # <<>> => rk[c] # NoKey
  PROVE  (AcksOf(c) /\ KeylessOf(c) /\ RecordOf(c) /\ OpenOf(c))'
<1> USE DEF relayVars, clientVars, countVars
<1>0. /\ UNCHANGED <<rk, acks, slipped, ui>> /\ rd \in [Clients -> RdStates] /\ Resume(left).at \in {"idle", "replay"}
      /\ Resume(left).at = "replay" => left # <<>>
  BY RdFacts DEF HandleEncrypted, SessionTypeOK
<1>1. CASE rk[c] = NoKey \/ m.from \notin members[c]
  <2>1. rd'[c] = Resume(left) BY <1>0, <1>1 DEF HandleEncrypted
  <2> QED BY <1>0, <2>1, AckQuiet
<1>2. CASE ~(rk[c] = NoKey \/ m.from \notin members[c])
  <2>1. rd'[c] = [at |-> "open", m |-> m, left |-> left, key |-> rk[c]] BY <1>0, <1>2 DEF HandleEncrypted
  <2>2. rd'[c].at = "open" /\ rd'[c].key = rk[c] BY <2>1
  <2> QED BY <1>0, <1>2, <2>2 DEF AckInv, AcksOf, KeylessOf, RecordOf, OpenOf
<1> QED BY <1>1, <1>2

\* The read loop keeps it.
LEMMA AckReader ==
  ASSUME SessionTypeOK, SeatsInv, TokInv, AckInv, NEW c \in Clients, Reader(c)
  PROVE  (AcksOf(c) /\ KeylessOf(c) /\ RecordOf(c) /\ OpenOf(c))'
<1> USE DEF relayVars, clientVars, countVars
<1>0. /\ rk \in [Clients -> Keys \cup {NoKey}] /\ rd \in [Clients -> RdStates] /\ rd[c] \in RdStates
      /\ acks \in [Clients -> SUBSET [by : Clients, epoch : Nat]] /\ pending[c] \in Seq(Enc)
  BY DEF SessionTypeOK
<1>1. CASE OnMemberJoined(c) \/ OnMemberLeft(c)
  <2>1. UNCHANGED <<rk, rd, acks, ui, slipped>> BY <1>1 DEF OnMemberJoined, OnMemberLeft
  <2> QED BY <2>1, AckSame
<1>2. CASE OnWelcome(c) \/ OnKeyDeliver(c)
  <2>1. \E t : Take(c, t) /\ Taken(c) BY <1>2 DEF OnWelcome, OnKeyDeliver
  <2>2. rd[c] = Idle BY <2>1, TakeIs
  <2>3. UNCHANGED <<acks, ui, slipped>> BY <1>2 DEF OnWelcome, OnKeyDeliver
  <2>4. (rk' = rk /\ rd' = rd) \/ rd' = [rd EXCEPT ![c] = Resume(pending[c])]
    BY <1>2 DEF OnWelcome, OnKeyDeliver
  <2>5. CASE rk' = rk /\ rd' = rd BY <2>3, <2>5, AckSame
  <2>6. CASE ~(rk' = rk /\ rd' = rd)
    <3>1. rd'[c].at \in {"idle", "replay"} BY <1>0, <2>4, <2>6, RdFacts
    <3>2. rk[c] = NoKey /\ rk'[c] \in Keys
      <4>1. CASE OnWelcome(c)
        <5>1. inbox[c][1].t = "welcome" /\ Head(inbox[c]) = inbox[c][1] /\ 1 \in DOMAIN inbox[c]
          BY <4>1, TakeIs, TakenIs DEF OnWelcome
        <5>2. inbox[c][1].existing = joinRes[c] /\ (joinRes[c] = <<>> => rk[c] = NoKey) BY <5>1 DEF TokInv, Welcomes
        <5>3. joinRes[c] = <<>> /\ rk' = [rk EXCEPT ![c] = [by |-> c, root |-> 0, epoch |-> 0]]
          BY <4>1, <5>1, <5>2, <2>6 DEF OnWelcome
        <5> QED BY <1>0, <5>2, <5>3, KeyFacts
      <4>2. CASE OnKeyDeliver(c)
        <5>1. /\ inbox[c][1].t = "key" /\ Head(inbox[c]) = inbox[c][1] /\ 1 \in DOMAIN inbox[c] /\ inbox[c][1] \in Frame
          BY <4>2, TakeIs, TakenIs DEF OnKeyDeliver
        <5>2. Tok(c, c, 1) BY <5>1 DEF Tok
        <5>3. rk' = [rk EXCEPT ![c] = inbox[c][1].key] BY <4>2, <5>1, <2>6 DEF OnKeyDeliver
        <5> QED BY <1>0, <5>1, <5>2, <5>3, FrameFacts DEF TokInv, TokWaits
      <4> QED BY <1>2, <4>1, <4>2
    <3> QED BY <2>3, <3>1, <3>2, KeyFacts DEF AckInv, AcksOf, KeylessOf, RecordOf, OpenOf
  <2> QED BY <2>5, <2>6
<1>3. CASE OnKeyRequest(c)
  <2>1. Take(c, "keyreq") /\ Taken(c) /\ UNCHANGED <<rk, acks, ui, slipped>> BY <1>3 DEF OnKeyRequest
  <2>2. rd[c] = Idle BY <2>1, TakeIs
  <2>3. rd'[c] = Idle \/ rd'[c] = [at |-> "wrap", who |-> Head(inbox[c]).who, key |-> rk[c]] BY <1>0, <1>3 DEF OnKeyRequest
  <2>4. rd'[c].at \in {"idle", "wrap"} BY <2>3, RdFacts
  <2> QED BY <2>1, <2>2, <2>4, AckQuiet, RdFacts
<1>4. CASE DeliverKey(c)
  <2>1. rd[c].at = "wrap" /\ rd'[c] = Idle /\ UNCHANGED <<rk, acks, ui, slipped>> BY <1>0, <1>4 DEF DeliverKey
  <2> QED BY <2>1, AckQuiet, RdFacts
<1>5. CASE OnEncrypted(c)
  <2>1. Take(c, "enc") /\ Taken(c) /\ HandleEncrypted(c, Head(inbox[c]), <<>>) BY <1>5 DEF OnEncrypted
  <2>2. Head(inbox[c]) \in Enc /\ rd[c].at # "reset" BY <2>1, TakeIs, FrameFacts, RdFacts
  <2>3. <<>> \in Seq(Enc) OBVIOUS
  <2> QED BY <2>1, <2>2, <2>3, AckHandle
<1>6. CASE ReplayNext(c)
  <2>1. rd[c].at = "replay" /\ HandleEncrypted(c, Head(rd[c].left), Tail(rd[c].left)) BY <1>6 DEF ReplayNext
  <2>2. rd[c].left \in Seq(Enc) /\ rd[c].left # <<>> BY <1>0, <2>1, RdFacts
  <2>3. Head(rd[c].left) \in Enc /\ Tail(rd[c].left) \in Seq(Enc) BY <2>2, HeadTailProperties
  <2>4. rk[c] # NoKey BY <2>1 DEF AckInv, KeylessOf
  <2> QED BY <2>1, <2>3, <2>4, AckHandle
<1>7. CASE OpenMessage(c)
  <2>1. rd[c].at = "open" /\ UNCHANGED <<rk, acks, ui, slipped>> BY <1>7 DEF OpenMessage
  <2>2. rd[c].left \in Seq(Enc) BY <1>0, <2>1, RdFacts
  <2>3. rk[c] # NoKey BY <2>1 DEF AckInv, KeylessOf
  <2>4. CASE rd[c].m.key = rd[c].key /\ rd[c].m.op # "message"
    <3>1. rd'[c] = [at |-> "record", m |-> rd[c].m, left |-> rd[c].left] BY <1>0, <1>7, <2>4 DEF OpenMessage
    <3>2. rd'[c].at = "record" /\ rd'[c].m = rd[c].m BY <3>1
    <3>3. c \notin slipped => rd[c].key = rk[c] BY <2>1, <2>4 DEF AckInv, OpenOf
    <3> QED BY <2>1, <2>3, <2>4, <3>2, <3>3 DEF AckInv, AcksOf, KeylessOf, RecordOf, OpenOf
  <2>5. CASE ~(rd[c].m.key = rd[c].key /\ rd[c].m.op # "message")
    <3>1. rd'[c] = Resume(rd[c].left) BY <1>0, <1>7, <2>5 DEF OpenMessage
    <3>2. rd'[c].at \in {"idle", "replay"} BY <2>2, <3>1, RdFacts
    <3> QED BY <2>1, <2>3, <3>2, AckQuiet
  <2> QED BY <2>4, <2>5
<1>8. CASE RecordPeer(c)
  <2>1. rd[c].at = "record" /\ UNCHANGED <<rk, ui, slipped>> BY <1>8 DEF RecordPeer
  <2>2. rd[c].left \in Seq(Enc) /\ rd[c].m \in Enc BY <1>0, <2>1, RdFacts
  <2>3. rd'[c] = Resume(rd[c].left) BY <1>0, <1>8 DEF RecordPeer
  <2>4. rd'[c].at \in {"idle", "replay"} BY <2>2, <2>3, RdFacts
  <2>5. rk[c] # NoKey BY <2>1 DEF AckInv, KeylessOf
  <2>6. acks'[c] \subseteq acks[c] \cup {[by |-> rd[c].m.from, epoch |-> rd[c].m.key.epoch]} BY <1>0, <1>8 DEF RecordPeer
  <2>7. c \notin slipped => rd[c].m.key.epoch = rk[c].epoch BY <2>1 DEF AckInv, RecordOf
  <2>8. \A a \in acks'[c] : a \in acks[c] \/ a.epoch = rd[c].m.key.epoch BY <2>6
  <2> QED BY <2>1, <2>4, <2>5, <2>7, <2>8 DEF AckInv, AcksOf, KeylessOf, RecordOf, OpenOf
<1>9. CASE OnControl(c)
  <2>1. UNCHANGED <<acks, slipped>> /\ rd'[c].at = "reset" /\ rk'[c] = Ratcheted(rk[c]) BY <1>0, <1>9 DEF OnControl
  <2>2. rk'[c] = NoKey => rk[c] = NoKey BY <1>0, <2>1, KeyFacts
  <2> QED BY <2>1, <2>2 DEF AckInv, AcksOf, KeylessOf, RecordOf, OpenOf
<1>10. CASE OnControlReset(c)
  <2>1. acks'[c] = {} /\ rd'[c].at = "idle" BY <1>0, <1>10, RdFacts DEF OnControlReset, ResetCoordination
  <2> QED BY <2>1 DEF AcksOf, KeylessOf, RecordOf, OpenOf
<1> QED BY <1>1, <1>2, <1>3, <1>4, <1>5, <1>6, <1>7, <1>8, <1>9, <1>10 DEF Reader

\* A caller keeps it; its /vanish is what slipped is about.
LEMMA AckCaller ==
  ASSUME SessionTypeOK, AckInv, NEW c \in Clients, Caller(c)
  PROVE  (AcksOf(c) /\ KeylessOf(c) /\ RecordOf(c) /\ OpenOf(c))'
<1> USE DEF relayVars, clientVars, countVars
<1>0. /\ rk \in [Clients -> Keys \cup {NoKey}] /\ rd[c] \in RdStates /\ ui \in [Clients -> UiStates]
      /\ acks \in [Clients -> SUBSET [by : Clients, epoch : Nat]]
  BY DEF SessionTypeOK
<1>1. ASSUME NEW op \in {"message", "ack", "handoff"}, NEW d \in Clients, StartSend(c, op, d)
      PROVE  (AcksOf(c) /\ KeylessOf(c) /\ RecordOf(c) /\ OpenOf(c))'
  <2>1. UNCHANGED <<rk, rd, acks, slipped>> /\ ui[c] = Idle BY <1>1 DEF StartSend
  <2>2. ui[c].at # "vanish" BY <2>1, UiFacts
  <2> QED BY <2>1, <2>2 DEF AckInv, AcksOf, KeylessOf, RecordOf, OpenOf
<1>2. CASE SealAndSend(c)
  <2>1. UNCHANGED <<rk, rd, acks, slipped>> /\ ui[c].at = "seal" BY <1>2 DEF SealAndSend
  <2> QED BY <2>1 DEF AckInv, AcksOf, KeylessOf, RecordOf, OpenOf
<1>3. CASE RecordOwn(c)
  <2>1. UNCHANGED <<rk, rd, slipped>> /\ ui[c].at # "vanish" BY <1>3 DEF RecordOwn
  <2>2. acks'[c] \subseteq acks[c] \cup {[by |-> c, epoch |-> ui[c].epoch]} BY <1>0, <1>3 DEF RecordOwn
  <2>3. \A a \in acks'[c] : a \in acks[c] \/ a.by = c BY <2>2
  <2> QED BY <2>1, <2>3 DEF AckInv, AcksOf, KeylessOf, RecordOf, OpenOf
<1>4. CASE Vanish(c)
  <2>1. /\ rk'[c] = Ratcheted(rk[c]) /\ UNCHANGED acks /\ ui'[c].at = "vanish" /\ rd' = ZeroHeld(rd, c)
        /\ slipped' = IF Slips(rd[c]) THEN slipped \cup {c} ELSE slipped
    BY <1>0, <1>4 DEF Vanish
  <2>2. rk'[c] = NoKey <=> rk[c] = NoKey BY <1>0, <2>1, KeyFacts
  <2>3. /\ rd'[c].at = rd[c].at
        /\ rd'[c].at = "open" => rd'[c].m = rd[c].m /\ rd'[c].key = IF rk[c] = NoKey THEN rd[c].key ELSE Wiped(rd[c].key)
    BY <2>1, WipeRd
  <2>4. RecordOf(c)' BY <2>1, <2>3 DEF RecordOf, Slips
  <2>5. KeylessOf(c)' BY <2>1, <2>2, <2>3 DEF AckInv, KeylessOf
  <2>6. OpenOf(c)'
    <3>1. SUFFICES ASSUME rd[c].at = "open", c \notin slipped' PROVE rd'[c].m.key # rd'[c].key BY <2>3 DEF OpenOf
    <3>2. rk[c] # NoKey BY <3>1 DEF AckInv, KeylessOf
    <3>3. rd[c].m.key # Wiped(rd[c].key) BY <2>1, <3>1 DEF Slips
    <3> QED BY <2>3, <3>1, <3>2, <3>3
  <2> QED BY <2>1, <2>4, <2>5, <2>6 DEF AcksOf
<1>5. CASE VanishTell(c)
  <2>1. acks'[c] = {} /\ UNCHANGED <<rk, rd, slipped>> BY <1>0, <1>5 DEF VanishTell, ResetCoordination
  <2> QED BY <2>1 DEF AckInv, AcksOf, KeylessOf, RecordOf, OpenOf
<1> QED BY <1>1, <1>2, <1>3, <1>4, <1>5 DEF Caller

\* Every step keeps it.
LEMMA AckStep == SessionInv /\ AckInv /\ [Next]_vars => AckInv'
<1> SUFFICES ASSUME SessionInv, AckInv, [Next]_vars PROVE AckInv' OBVIOUS
<1>0. SessionTypeOK /\ SeatsInv /\ TokInv BY DEF SessionInv, KeyInv
<1>1. ASSUME NEW c \in Clients, RelayStep(c) PROVE AckInv'
  <2>1. UNCHANGED <<rk, rd, ui, acks, slipped>> BY <1>1, RelayKeys DEF clientVars
  <2> QED BY <2>1, AckSame DEF AckInv
<1>2. ASSUME NEW c \in Clients, Leave(c) PROVE AckInv'
  <2>1. /\ rk' = [rk EXCEPT ![c] = NoKey] /\ rd' = [rd EXCEPT ![c] = Idle] /\ ui' = [ui EXCEPT ![c] = Idle]
        /\ acks' = [acks EXCEPT ![c] = {}] /\ UNCHANGED slipped
    BY <1>2 DEF Leave
  <2>2. /\ rd'[c].at = "idle" /\ acks'[c] = {}
        /\ \A d \in Clients : d # c => rk'[d] = rk[d] /\ rd'[d] = rd[d] /\ ui'[d] = ui[d] /\ acks'[d] = acks[d]
    BY <1>0, <2>1, RdFacts DEF SessionTypeOK
  <2>3. (AcksOf(c) /\ KeylessOf(c) /\ RecordOf(c) /\ OpenOf(c))' BY <2>2 DEF AcksOf, KeylessOf, RecordOf, OpenOf
  <2> QED BY <2>1, <2>2, <2>3, AckSame DEF AckInv
<1>3. ASSUME NEW c \in Clients, Reader(c) \/ Caller(c) PROVE AckInv'
  <2>1. (AcksOf(c) /\ KeylessOf(c) /\ RecordOf(c) /\ OpenOf(c))' BY <1>0, <1>3, AckReader, AckCaller
  <2>2. \A d \in Clients : d # c => /\ rk'[d] = rk[d] /\ rd'[d] = rd[d] /\ ui'[d].at = ui[d].at /\ acks'[d] = acks[d]
                                    /\ (d \in slipped' <=> d \in slipped)
    BY <1>0, <1>3, Local
  <2> QED BY <2>1, <2>2, AckSame DEF AckInv
<1>4. CASE UNCHANGED vars
  <2>1. UNCHANGED <<rk, rd, ui, acks, slipped>> BY <1>4 DEF vars, clientVars, countVars
  <2> QED BY <2>1, AckSame DEF AckInv
<1> QED BY <1>1, <1>2, <1>3, <1>4 DEF Next

\* There is no ack at the start.
LEMMA AckInvInit == Init => AckInv
<1> SUFFICES ASSUME Init PROVE AckInv OBVIOUS
<1>1. \A c \in Clients : acks[c] = {} /\ rd[c] = Idle BY DEF Init
<1>2. \A c \in Clients : rd[c].at = "idle" BY <1>1, RdFacts
<1> QED BY <1>1, <1>2 DEF AckInv, AcksOf, KeylessOf, RecordOf, OpenOf

\* Every peer's ack a client counts was sealed in the epoch the client is in, unless its own
\* /vanish slipped in while its read loop had a frame in hand (recordAck, resetCoordinationLocked).
THEOREM AcksStayCurrent == Spec => []PeerAcksCurrent
<1>1. AckInv => PeerAcksCurrent BY DEF AckInv, AcksOf, PeerAcksCurrent
<1> QED BY <1>1, AckInvInit, AckStep, SessionInvHolds, PTL DEF Spec

------------------------------------------------------------------------------
(* The order of frames.  A frame is surfaced, in hand, pending or on its way: Line strings these *)
(* together, and every step takes a frame out of a line or puts a newest one at its end. *)

\* The frames of each sender in the order it sealed them.
Sorted(s) == \A i, j \in DOMAIN s :
  (i < j /\ s[i].t = "enc" /\ s[j].t = "enc" /\ s[i].from = s[j].from) => s[i].n < s[j].n

\* Concatenation.
LEMMA Laws ==
  /\ \A a, b, c \in Seq(Frame) : (a \o b) \o c = a \o (b \o c)
  /\ \A a, b \in Seq(Frame) : a \o b \in Seq(Frame)
  /\ \A a \in Seq(Frame) : a \o <<>> = a /\ <<>> \o a = a
  /\ \A a \in Seq(Frame), x \in Frame : Append(a, x) = a \o <<x>> /\ <<x>> \in Seq(Frame)
  /\ \A a \in Seq(Frame) : a # <<>> => a = <<Head(a)>> \o Tail(a) /\ Head(a) \in Frame /\ Tail(a) \in Seq(Frame)
  /\ <<>> \in Seq(Frame)
  /\ \A s \in Seq(Enc) : s \in Seq(Frame)
<1>1. \A a, b, c \in Seq(Frame) : (a \o b) \o c = a \o (b \o c) BY ConcatAssociative
<1>2. \A a, b \in Seq(Frame) : a \o b \in Seq(Frame) BY ConcatProperties
<1>3. \A a \in Seq(Frame) : a \o <<>> = a /\ <<>> \o a = a BY ConcatEmptySeq
<1>4. \A a \in Seq(Frame), x \in Frame : Append(a, x) = a \o <<x>> /\ <<x>> \in Seq(Frame) OBVIOUS
<1>5. ASSUME NEW a \in Seq(Frame), a # <<>> PROVE a = <<Head(a)>> \o Tail(a) /\ Head(a) \in Frame /\ Tail(a) \in Seq(Frame)
  BY <1>5
<1>6. <<>> \in Seq(Frame) OBVIOUS
<1>7. \A s \in Seq(Enc) : s \in Seq(Frame) BY FrameFacts, SeqMonotonic
<1> QED BY <1>1, <1>2, <1>3, <1>4, <1>5, <1>6, <1>7

\* Its associativity, on its own.
LEMMA Assoc ==
  ASSUME NEW a \in Seq(Frame), NEW b \in Seq(Frame), NEW c \in Seq(Frame)
  PROVE  (a \o b) \o c = a \o (b \o c)
BY Laws

\* m is l without one of its frames.
Drops(l, m) == \E a, b \in Seq(Frame), x \in Frame : l = a \o (<<x>> \o b) /\ m = a \o b

\* Which keeps the order and brings nothing in.
LEMMA DropFacts ==
  ASSUME NEW l, NEW m, Drops(l, m)
  PROVE  /\ l \in Seq(Frame) /\ m \in Seq(Frame)
         /\ Sorted(l) => Sorted(m)
         /\ \A i \in DOMAIN m : \E j \in DOMAIN l : m[i] = l[j]
<1>1. PICK a \in Seq(Frame), b \in Seq(Frame), x \in Frame : l = a \o (<<x>> \o b) /\ m = a \o b BY DEF Drops
<1>2. PICK u : u = <<x>> \o b OBVIOUS
<1>3. u \in Seq(Frame) /\ Len(u) = Len(b) + 1 /\ \A i \in 1..Len(b) : u[i + 1] = b[i] BY <1>2
<1>4. /\ l \in Seq(Frame) /\ m \in Seq(Frame) /\ Len(l) = Len(a) + Len(u) /\ Len(m) = Len(a) + Len(b)
      /\ \A i \in 1..Len(l) : l[i] = IF i <= Len(a) THEN a[i] ELSE u[i - Len(a)]
      /\ \A i \in 1..Len(m) : m[i] = IF i <= Len(a) THEN a[i] ELSE b[i - Len(a)]
  BY <1>1, <1>2, <1>3, ConcatProperties
<1>5. DOMAIN l = 1..Len(l) /\ DOMAIN m = 1..Len(m) /\ Len(a) \in Nat /\ Len(b) \in Nat BY <1>4, <1>1
<1>6. \A i \in DOMAIN m : LET j == IF i <= Len(a) THEN i ELSE i + 1 IN j \in DOMAIN l /\ m[i] = l[j]
  <2> SUFFICES ASSUME NEW i \in DOMAIN m PROVE LET j == IF i <= Len(a) THEN i ELSE i + 1 IN j \in DOMAIN l /\ m[i] = l[j]
    OBVIOUS
  <2>1. CASE i <= Len(a)
    <3>1. i \in 1..Len(l) /\ i \in 1..Len(m) BY <2>1, <1>3, <1>4, <1>5
    <3>2. l[i] = a[i] /\ m[i] = a[i] BY <2>1, <3>1, <1>4
    <3> QED BY <2>1, <3>1, <3>2, <1>5
  <2>2. CASE ~(i <= Len(a))
    <3>1. i - Len(a) \in 1..Len(b) BY <2>2, <1>4, <1>5
    <3>2. i + 1 \in DOMAIN l /\ ~(i + 1 <= Len(a)) /\ (i + 1) - Len(a) = (i - Len(a)) + 1 BY <2>2, <1>3, <1>4, <1>5
    <3>3. l[i + 1] = u[(i - Len(a)) + 1] BY <3>2, <1>4, <1>5
    <3>4. m[i] = b[i - Len(a)] BY <2>2, <1>4, <1>5
    <3> QED BY <2>2, <3>1, <3>2, <3>3, <3>4, <1>3
  <2> QED BY <2>1, <2>2
<1>7. ASSUME Sorted(l) PROVE Sorted(m)
  <2> SUFFICES ASSUME NEW i \in DOMAIN m, NEW j \in DOMAIN m, i < j, m[i].t = "enc", m[j].t = "enc", m[i].from = m[j].from
               PROVE  m[i].n < m[j].n
    BY DEF Sorted
  <2>1. PICK p : p = IF i <= Len(a) THEN i ELSE i + 1 OBVIOUS
  <2>2. PICK q : q = IF j <= Len(a) THEN j ELSE j + 1 OBVIOUS
  <2>3. p \in DOMAIN l /\ q \in DOMAIN l /\ m[i] = l[p] /\ m[j] = l[q] BY <1>6, <2>1, <2>2
  <2>4. p < q BY <1>5, <2>1, <2>2
  <2> QED BY <1>7, <2>3, <2>4 DEF Sorted
<1>8. \A i \in DOMAIN m : \E j \in DOMAIN l : m[i] = l[j] BY <1>6
<1> QED BY <1>4, <1>7, <1>8

\* m is l and perhaps x behind it.
Gains(l, m, x) == /\ m \in Seq(Frame)
                  /\ \A i \in DOMAIN m : (i \in DOMAIN l /\ m[i] = l[i]) \/ (i = Len(l) + 1 /\ m[i] = x)

\* Which keeps the order when x is the newest of its sender.
LEMMA GainFacts ==
  ASSUME NEW l \in Seq(Frame), NEW m, NEW x \in Frame, Gains(l, m, x), Sorted(l),
         \A i \in DOMAIN l : (l[i].t = "enc" /\ x.t = "enc" /\ l[i].from = x.from) => l[i].n < x.n
  PROVE  Sorted(m)
<1> SUFFICES ASSUME NEW i \in DOMAIN m, NEW j \in DOMAIN m, i < j, m[i].t = "enc", m[j].t = "enc", m[i].from = m[j].from
             PROVE  m[i].n < m[j].n
  BY DEF Sorted
<1>0. DOMAIN l = 1..Len(l) /\ Len(l) \in Nat OBVIOUS
<1>1. m \in Seq(Frame) /\ i \in Nat /\ j \in Nat BY DEF Gains
<1>2. i \in DOMAIN l /\ m[i] = l[i]
  <2>1. SUFFICES ASSUME i = Len(l) + 1 PROVE FALSE BY DEF Gains
  <2>2. j \in DOMAIN l \/ j = Len(l) + 1 BY DEF Gains
  <2> QED BY <1>0, <1>1, <2>1, <2>2
<1>3. CASE j \in DOMAIN l /\ m[j] = l[j] BY <1>2, <1>3 DEF Sorted
<1>4. CASE j = Len(l) + 1 /\ m[j] = x BY <1>2, <1>4
<1> QED BY <1>3, <1>4 DEF Gains

\* It does not matter what is in front.
LEMMA GainBehind ==
  ASSUME NEW a \in Seq(Frame), NEW l \in Seq(Frame), NEW m, NEW x \in Frame, Gains(l, m, x)
  PROVE  Gains(a \o l, a \o m, x)
<1>0. m \in Seq(Frame) BY DEF Gains
<1>1. PICK p : p = a \o l OBVIOUS
<1>2. PICK q : q = a \o m OBVIOUS
<1>3. /\ p \in Seq(Frame) /\ q \in Seq(Frame) /\ Len(p) = Len(a) + Len(l) /\ Len(q) = Len(a) + Len(m)
      /\ \A i \in 1..Len(p) : p[i] = IF i <= Len(a) THEN a[i] ELSE l[i - Len(a)]
      /\ \A i \in 1..Len(q) : q[i] = IF i <= Len(a) THEN a[i] ELSE m[i - Len(a)]
  BY <1>0, <1>1, <1>2, ConcatProperties
<1>4. /\ DOMAIN p = 1..Len(p) /\ DOMAIN q = 1..Len(q) /\ DOMAIN l = 1..Len(l) /\ DOMAIN m = 1..Len(m)
      /\ Len(a) \in Nat /\ Len(l) \in Nat /\ Len(m) \in Nat
  BY <1>0, <1>3
<1>5. ASSUME NEW i \in DOMAIN q PROVE (i \in DOMAIN p /\ q[i] = p[i]) \/ (i = Len(p) + 1 /\ q[i] = x)
  <2>1. CASE i <= Len(a) BY <2>1, <1>3, <1>4
  <2>2. CASE ~(i <= Len(a))
    <3>1. i - Len(a) \in DOMAIN m BY <2>2, <1>3, <1>4
    <3>2. CASE i - Len(a) \in DOMAIN l /\ m[i - Len(a)] = l[i - Len(a)] BY <2>2, <3>2, <1>3, <1>4
    <3>3. CASE i - Len(a) = Len(l) + 1 /\ m[i - Len(a)] = x BY <2>2, <3>3, <1>3, <1>4
    <3> QED BY <3>1, <3>2, <3>3 DEF Gains
  <2> QED BY <2>1, <2>2
<1> QED BY <1>1, <1>2, <1>3, <1>5 DEF Gains

\* The frames the read loop has in hand.
HeldOf(x) == IF x.at \in {"open", "record"} THEN <<x.m>> \o x.left ELSE IF x.at = "replay" THEN x.left ELSE <<>>
\* Everything of c's frames: surfaced, in hand, pending, on the way.
Line(c) == surfaced[c] \o (HeldOf(rd[c]) \o (pending[c] \o inbox[c]))

\* replayPending holds what was pending.
LEMMA HeldFacts ==
  /\ \A x \in RdStates : HeldOf(x) \in Seq(Frame)
  /\ \A s \in Seq(Enc) : HeldOf(Resume(s)) = s
  /\ \A x \in RdStates : x.at \notin {"open", "record", "replay"} => HeldOf(x) = <<>>
<1>1. ASSUME NEW x \in RdStates PROVE HeldOf(x) \in Seq(Frame)
  <2>1. CASE x.at \in {"open", "record"}
    <3>1. x.m \in Frame /\ x.left \in Seq(Frame) BY <1>1, <2>1, RdFacts, FrameFacts, Laws
    <3>2. <<x.m>> \o x.left \in Seq(Frame) BY <3>1, Laws
    <3> QED BY <2>1, <3>2 DEF HeldOf
  <2>2. CASE x.at = "replay"
    <3>1. x.left \in Seq(Frame) BY <1>1, <2>2, RdFacts, Laws
    <3> QED BY <2>2, <3>1 DEF HeldOf
  <2>3. CASE x.at \notin {"open", "record", "replay"} BY <2>3, Laws DEF HeldOf
  <2> QED BY <2>1, <2>2, <2>3
<1>2. \A s \in Seq(Enc) : HeldOf(Resume(s)) = s BY RdFacts DEF HeldOf
<1>3. \A x \in RdStates : x.at \notin {"open", "record", "replay"} => HeldOf(x) = <<>> BY DEF HeldOf
<1> QED BY <1>1, <1>2, <1>3

\* The line consists of frames.
LEMMA LineType ==
  ASSUME SessionTypeOK, NEW c \in Clients
  PROVE  /\ surfaced[c] \in Seq(Frame) /\ HeldOf(rd[c]) \in Seq(Frame) /\ pending[c] \in Seq(Frame) /\ inbox[c] \in Seq(Frame)
         /\ Line(c) \in Seq(Frame)
<1>1. surfaced[c] \in Seq(Frame) /\ HeldOf(rd[c]) \in Seq(Frame) /\ pending[c] \in Seq(Frame) /\ inbox[c] \in Seq(Frame)
  BY HeldFacts, Laws DEF SessionTypeOK
<1>2. pending[c] \o inbox[c] \in Seq(Frame) BY <1>1, Laws
<1>3. HeldOf(rd[c]) \o (pending[c] \o inbox[c]) \in Seq(Frame) BY <1>1, <1>2, Laws
<1>4. Line(c) \in Seq(Frame) BY <1>1, <1>3, Laws DEF Line
<1> QED BY <1>1, <1>4

\* A frame that is handled and dropped leaves the line.
LEMMA LineTaken ==
  ASSUME SessionTypeOK, NEW c \in Clients, inbox[c] # <<>>, Taken(c), HeldOf(rd[c]) = <<>>,
         surfaced'[c] = surfaced[c], NEW h, NEW p, h = HeldOf(rd'[c]), p = pending'[c],
         (h = <<>> /\ p = pending[c]) \/ (h = pending[c] /\ p = <<>>)
  PROVE  Drops(Line(c), Line(c)')
<1>1. PICK s \in Seq(Frame) : s = surfaced[c] BY LineType
<1>2. PICK q \in Seq(Frame) : q = pending[c] BY LineType
<1>3. PICK x \in Frame, r \in Seq(Frame) : inbox[c] = <<x>> \o r /\ r = Tail(inbox[c]) BY LineType, Laws
<1>4. inbox'[c] = r BY <1>3, TakenIs
<1>5. Line(c) = s \o (<<>> \o (q \o (<<x>> \o r))) BY <1>1, <1>2, <1>3 DEF Line
<1>6. <<x>> \o r \in Seq(Frame) /\ s \o q \in Seq(Frame) BY Laws
<1>7. q \o (<<x>> \o r) \in Seq(Frame) BY <1>6, Laws
<1>8. Line(c) = s \o (q \o (<<x>> \o r)) BY <1>5, <1>7, Laws
<1>9. Line(c) = (s \o q) \o (<<x>> \o r) BY <1>8, <1>6, Assoc, SMTT(30), ZenonT(60)
<1>10. Line(c)' = s \o (h \o (p \o r)) BY <1>1, <1>4 DEF Line
<1>11. h \o (p \o r) = q \o r
  <2>1. q \o r \in Seq(Frame) BY Laws
  <2>2. CASE h = <<>> /\ p = q BY <2>1, <2>2, Laws
  <2>3. CASE h = q /\ p = <<>>
    <3>1. p \o r = r BY <2>3, Laws
    <3> QED BY <2>3, <3>1
  <2> QED BY <1>2, <2>2, <2>3
<1>12. Line(c)' = (s \o q) \o r
  <2>1. Line(c)' = s \o (q \o r) BY <1>10, <1>11
  <2>2. (s \o q) \o r = s \o (q \o r) BY Assoc, SMTT(30), ZenonT(60)
  <2> QED BY <2>1, <2>2
<1> QED BY <1>6, <1>9, <1>12 DEF Drops

\* handleEncrypted buffers, drops or holds its frame.
LEMMA LineHandle ==
  ASSUME SessionTypeOK, NEW c \in Clients, NEW m \in Enc, NEW left \in Seq(Enc), HandleEncrypted(c, m, left)
  PROVE  /\ surfaced' = surfaced
         /\ \/ rk[c] = NoKey /\ HeldOf(rd'[c]) = left /\ pending'[c] = pending[c] \o <<m>>
            \/ rk[c] # NoKey /\ HeldOf(rd'[c]) = left /\ pending'[c] = pending[c]
            \/ rk[c] # NoKey /\ HeldOf(rd'[c]) = <<m>> \o left /\ pending'[c] = pending[c]
<1>0. rd \in [Clients -> RdStates] /\ pending \in [Clients -> Seq(Enc)] BY DEF SessionTypeOK
<1>1. surfaced' = surfaced BY DEF HandleEncrypted, countVars
<1>2. CASE rk[c] = NoKey
  <2>1. rd'[c] = Resume(left) /\ pending'[c] = Append(pending[c], m) BY <1>0, <1>2 DEF HandleEncrypted
  <2>2. pending[c] \in Seq(Frame) /\ m \in Frame BY <1>0, Laws, FrameFacts
  <2>3. pending'[c] = pending[c] \o <<m>> BY <2>1, <2>2, Laws
  <2> QED BY <1>1, <1>2, <2>1, <2>3, HeldFacts
<1>3. CASE rk[c] # NoKey
  <2>1. pending'[c] = pending[c] BY <1>0, <1>3 DEF HandleEncrypted
  <2>2. CASE m.from \notin members[c]
    <3>1. rd'[c] = Resume(left) BY <1>0, <2>2 DEF HandleEncrypted
    <3> QED BY <1>1, <1>3, <2>1, <3>1, HeldFacts
  <2>3. CASE m.from \in members[c]
    <3>1. rd'[c] = [at |-> "open", m |-> m, left |-> left, key |-> rk[c]] BY <1>0, <1>3, <2>3 DEF HandleEncrypted
    <3>2. HeldOf(rd'[c]) = <<m>> \o left BY <3>1 DEF HeldOf
    <3> QED BY <1>1, <1>3, <2>1, <3>2
  <2> QED BY <2>2, <2>3
<1> QED BY <1>2, <1>3

\* A key in hand leaves nothing pending.
Emptied == \A c \in Clients : rk[c] # NoKey => pending[c] = <<>>

\* The read loop takes at most one frame out of the line and turns none around.
LEMMA LineReader ==
  ASSUME SessionInv, AckInv, Emptied, NEW c \in Clients, Reader(c), ~DeliverKey(c)
  PROVE  Line(c)' = Line(c) \/ Drops(Line(c), Line(c)')
<1> USE DEF relayVars, clientVars, countVars
<1>t. SessionTypeOK BY DEF SessionInv
<1>0. /\ rd \in [Clients -> RdStates] /\ rd[c] \in RdStates /\ pending[c] \in Seq(Enc) /\ pending \in [Clients -> Seq(Enc)]
      /\ surfaced \in [Clients -> Seq(Enc)] /\ surfaced[c] \in Seq(Enc)
  BY <1>t DEF SessionTypeOK
<1>1. PICK s \in Seq(Frame) : s = surfaced[c] BY <1>t, LineType
<1>2. PICK q \in Seq(Frame) : q = pending[c] BY <1>t, LineType
<1>3. PICK w \in Seq(Frame) : w = inbox[c] BY <1>t, LineType
<1>4. PICK v \in Seq(Frame) : v = q \o w BY Laws
<1>5. Line(c) = s \o (HeldOf(rd[c]) \o v) BY <1>1, <1>2, <1>3, <1>4 DEF Line
<1>6. CASE OnMemberJoined(c) \/ OnMemberLeft(c)
  <2>1. (Take(c, "joined") \/ Take(c, "left")) /\ Taken(c) /\ UNCHANGED <<rd, pending, surfaced>>
    BY <1>6 DEF OnMemberJoined, OnMemberLeft
  <2>2. inbox[c] # <<>> /\ HeldOf(rd[c]) = <<>> /\ HeldOf(rd'[c]) = <<>> BY <1>t, <1>0, <2>1, TakeIs, HeldFacts, RdFacts
  <2> QED BY <1>t, <2>1, <2>2, LineTaken
<1>7. CASE OnWelcome(c) \/ OnKeyDeliver(c)
  <2>1. (Take(c, "welcome") \/ Take(c, "key")) /\ Taken(c) /\ UNCHANGED surfaced BY <1>7 DEF OnWelcome, OnKeyDeliver
  <2>2. inbox[c] # <<>> /\ rd[c] = Idle /\ HeldOf(rd[c]) = <<>> BY <1>t, <1>0, <2>1, TakeIs, HeldFacts, RdFacts
  <2>3. UNCHANGED <<rd, pending>> \/ (rd'[c] = Resume(pending[c]) /\ pending'[c] = <<>>)
    BY <1>0, <1>7 DEF OnWelcome, OnKeyDeliver
  <2>4. \/ HeldOf(rd'[c]) = <<>> /\ pending'[c] = pending[c]
        \/ HeldOf(rd'[c]) = pending[c] /\ pending'[c] = <<>>
    <3>1. CASE UNCHANGED <<rd, pending>> BY <2>2, <3>1
    <3>2. CASE rd'[c] = Resume(pending[c]) /\ pending'[c] = <<>> BY <1>0, <3>2, HeldFacts
    <3> QED BY <2>3, <3>1, <3>2
  <2> QED BY <1>t, <2>1, <2>2, <2>4, LineTaken
<1>8. CASE OnKeyRequest(c) \/ OnControl(c)
  <2>1. (Take(c, "keyreq") \/ Take(c, "vanish")) /\ Taken(c) /\ UNCHANGED <<pending, surfaced>>
    BY <1>8 DEF OnKeyRequest, OnControl
  <2>2. inbox[c] # <<>> /\ HeldOf(rd[c]) = <<>> BY <1>t, <1>0, <2>1, TakeIs, HeldFacts, RdFacts
  <2>3. rd'[c] = Idle \/ rd'[c] = [at |-> "wrap", who |-> Head(inbox[c]).who, key |-> rk[c]] \/ rd'[c] = [at |-> "reset"]
    BY <1>0, <1>8 DEF OnKeyRequest, OnControl
  <2>4. HeldOf(rd'[c]) = <<>> BY <2>3 DEF HeldOf, Idle
  <2> QED BY <1>t, <2>1, <2>2, <2>4, LineTaken
<1>9. CASE OnControlReset(c)
  <2>1. rd[c].at = "reset" /\ rd'[c] = Idle /\ UNCHANGED <<inbox, pending, surfaced>> BY <1>0, <1>9 DEF OnControlReset
  <2>2. HeldOf(rd[c]) = <<>> /\ HeldOf(rd'[c]) = <<>> BY <2>1 DEF HeldOf, Idle
  <2> QED BY <2>1, <2>2 DEF Line
<1>10. CASE OnEncrypted(c)
  <2>1. Take(c, "enc") /\ Taken(c) /\ HandleEncrypted(c, Head(inbox[c]), <<>>) BY <1>10 DEF OnEncrypted
  <2>2. inbox[c] # <<>> /\ HeldOf(rd[c]) = <<>> BY <1>t, <1>0, <2>1, TakeIs, HeldFacts, RdFacts
  <2>3. PICK m \in Enc : m = Head(inbox[c]) BY <1>t, <2>1, TakeIs, FrameFacts
  <2>4. <<>> \in Seq(Enc) OBVIOUS
  <2>5. /\ surfaced' = surfaced
        /\ \/ rk[c] = NoKey /\ HeldOf(rd'[c]) = <<>> /\ pending'[c] = pending[c] \o <<m>>
           \/ rk[c] # NoKey /\ HeldOf(rd'[c]) = <<>> /\ pending'[c] = pending[c]
           \/ rk[c] # NoKey /\ HeldOf(rd'[c]) = <<m>> \o <<>> /\ pending'[c] = pending[c]
    BY <1>t, <2>1, <2>3, <2>4, LineHandle
  <2>6. PICK r \in Seq(Frame) : r = Tail(inbox[c]) /\ w = <<m>> \o r BY <1>3, <2>2, <2>3, Laws
  <2>7. inbox'[c] = r /\ m \in Frame BY <1>t, <2>1, <2>2, <2>6, TakenIs, FrameFacts
  <2>8. CASE rk[c] = NoKey /\ HeldOf(rd'[c]) = <<>> /\ pending'[c] = pending[c] \o <<m>>
    <3>1. Line(c)' = s \o (<<>> \o ((q \o <<m>>) \o r)) BY <1>1, <1>2, <2>5, <2>7, <2>8 DEF Line
    <3>2. (q \o <<m>>) \o r = v
      <4>1. PICK u \in Seq(Frame) : u = <<m>> BY <2>7, Laws
      <4>2. (q \o u) \o r = q \o (u \o r) BY Assoc, SMTT(30), ZenonT(60)
      <4> QED BY <1>4, <2>6, <4>1, <4>2
    <3> QED BY <1>5, <2>2, <3>1, <3>2
  <2>9. CASE HeldOf(rd'[c]) = <<>> /\ pending'[c] = pending[c]
    BY <1>t, <2>1, <2>2, <2>5, <2>9, LineTaken
  <2>10. CASE rk[c] # NoKey /\ HeldOf(rd'[c]) = <<m>> \o <<>> /\ pending'[c] = pending[c]
    <3>1. q = <<>> BY <1>2, <2>10 DEF Emptied
    <3>2. Line(c)' = s \o (<<m>> \o (<<>> \o r)) BY <1>1, <1>2, <2>5, <2>7, <2>10, <3>1, Laws DEF Line
    <3>3. Line(c)' = s \o w BY <2>6, <3>2, Laws
    <3>4. Line(c) = s \o w BY <1>4, <1>5, <2>2, <3>1, Laws
    <3> QED BY <3>3, <3>4
  <2> QED BY <2>5, <2>8, <2>9, <2>10
<1>11. CASE ReplayNext(c)
  <2>1. rd[c].at = "replay" /\ HandleEncrypted(c, Head(rd[c].left), Tail(rd[c].left)) /\ UNCHANGED inbox
    BY <1>11 DEF ReplayNext
  <2>2. rd[c].left \in Seq(Enc) /\ rd[c].left # <<>> BY <1>0, <2>1, RdFacts
  <2>3. PICK m \in Enc, l \in Seq(Enc) : m = Head(rd[c].left) /\ l = Tail(rd[c].left) BY <2>2, HeadTailProperties
  <2>4. rk[c] # NoKey BY <2>1 DEF AckInv, KeylessOf
  <2>5. /\ surfaced' = surfaced /\ pending'[c] = pending[c]
        /\ HeldOf(rd'[c]) = l \/ HeldOf(rd'[c]) = <<m>> \o l
    BY <1>t, <2>1, <2>3, <2>4, LineHandle
  <2>6. l \in Seq(Frame) /\ m \in Frame /\ <<m>> \in Seq(Frame) /\ rd[c].left = <<m>> \o l BY <2>2, <2>3, Laws, FrameFacts
  <2>7. HeldOf(rd[c]) = <<m>> \o l BY <2>1, <2>6 DEF HeldOf
  <2>8. Line(c)' = s \o (HeldOf(rd'[c]) \o v) BY <1>1, <1>2, <1>3, <1>4, <2>1, <2>5 DEF Line
  <2>9. CASE HeldOf(rd'[c]) = <<m>> \o l BY <1>5, <2>7, <2>8, <2>9
  <2>10. CASE HeldOf(rd'[c]) = l
    <3>1. Line(c) = s \o (<<m>> \o (l \o v))
      <4>1. PICK u \in Seq(Frame) : u = <<m>> BY <2>6
      <4>3. l \in Seq(Frame) BY <2>6
      <4>2. (u \o l) \o v = u \o (l \o v) BY <4>3, Assoc, SMTT(30), ZenonT(60)
      <4> QED BY <1>5, <2>7, <4>1, <4>2
    <3>2. l \o v \in Seq(Frame) BY <2>6, Laws
    <3> QED BY <2>6, <2>8, <2>10, <3>1, <3>2 DEF Drops
  <2> QED BY <2>5, <2>9, <2>10
<1>12. CASE OpenMessage(c) \/ RecordPeer(c)
  <2>1. rd[c].at \in {"open", "record"} /\ UNCHANGED <<inbox, pending>> BY <1>12 DEF OpenMessage, RecordPeer
  <2>2. PICK m \in Enc, l \in Seq(Enc) : m = rd[c].m /\ l = rd[c].left BY <1>0, <2>1, RdFacts
  <2>3. HeldOf(rd[c]) = <<m>> \o l BY <2>1, <2>2 DEF HeldOf
  <2>4. m \in Frame /\ l \in Seq(Frame) /\ <<m>> \in Seq(Frame) BY Laws, FrameFacts
  <2>5. l \o v \in Seq(Frame) BY <2>4, Laws
  <2>6. Line(c) = s \o (<<m>> \o (l \o v))
    <3>1. PICK u \in Seq(Frame) : u = <<m>> BY <2>4
    <3>3. l \in Seq(Frame) BY <2>4
    <3>2. (u \o l) \o v = u \o (l \o v) BY <3>3, Assoc, SMTT(30), ZenonT(60)
    <3> QED BY <1>5, <2>3, <3>1, <3>2
  <2>7. \/ rd'[c] = [at |-> "record", m |-> m, left |-> l] /\ surfaced'[c] = surfaced[c]
        \/ rd'[c] = Resume(l) /\ surfaced'[c] = surfaced[c]
        \/ rd'[c] = Resume(l) /\ surfaced'[c] = Append(surfaced[c], m)
    <3>1. CASE OpenMessage(c) BY <1>0, <2>2, <3>1 DEF OpenMessage
    <3>2. CASE RecordPeer(c) BY <1>0, <2>2, <3>2 DEF RecordPeer
    <3> QED BY <1>12, <3>1, <3>2
  <2>8. CASE rd'[c] = [at |-> "record", m |-> m, left |-> l] /\ surfaced'[c] = surfaced[c]
    <3>1. HeldOf(rd'[c]) = <<m>> \o l BY <2>8 DEF HeldOf
    <3> QED BY <2>1, <2>3, <2>8, <3>1 DEF Line
  <2>9. CASE rd'[c] = Resume(l) /\ surfaced'[c] = surfaced[c]
    <3>1. HeldOf(rd'[c]) = l BY <2>9, HeldFacts
    <3>2. Line(c)' = s \o (l \o v) BY <1>1, <1>2, <1>3, <1>4, <2>1, <2>9, <3>1 DEF Line
    <3> QED BY <2>4, <2>5, <2>6, <3>2 DEF Drops
  <2>10. CASE rd'[c] = Resume(l) /\ surfaced'[c] = Append(surfaced[c], m)
    <3>1. HeldOf(rd'[c]) = l BY <2>10, HeldFacts
    <3>2. surfaced'[c] = s \o <<m>> BY <1>1, <2>4, <2>10, Laws
    <3>3. Line(c)' = (s \o <<m>>) \o (l \o v) BY <1>2, <1>3, <1>4, <2>1, <3>1, <3>2 DEF Line
    <3>4. Line(c)' = s \o (<<m>> \o (l \o v)) BY <2>4, <2>5, <3>3, Assoc, SMTT(30), ZenonT(60)
    <3> QED BY <2>6, <3>4
  <2> QED BY <2>7, <2>8, <2>9, <2>10
<1> QED BY <1>6, <1>7, <1>8, <1>9, <1>10, <1>11, <1>12 DEF Reader

\* x is older than what its sender is sealing, and than what the relay is sending c for it.
Fits(c, x) == /\ x.n <= sent[x.from]
              /\ ui[x.from].at = "seal" => x.n < sent[x.from]
              /\ (c \in todo[x.from].to /\ todo[x.from].msg.t = "enc") => x.n < todo[x.from].msg.n
\* So is everything on c's line.
Behind(c) == \A i \in DOMAIN Line(c) : Line(c)[i].t = "enc" => Fits(c, Line(c)[i])
\* What the relay sends is older than what its sender seals.
Numbered == \A s \in Clients : (todo[s].to # {} /\ todo[s].msg.t = "enc") =>
              todo[s].msg.n <= sent[s] /\ (ui[s].at = "seal" => todo[s].msg.n < sent[s])
\* The order of everything in transit.
Ordered == Numbered /\ \A c \in Clients : Sorted(Line(c)) /\ Behind(c)
\* The inductive invariant on the order: InOrder only speaks of what was surfaced.
OrderInv == Emptied /\ (~keeps => hist = <<>> /\ Ordered)

\* A sender seals nothing new and starts no broadcast of a frame.
Steady == \A s \in Clients :
  /\ sent'[s] = sent[s] /\ (ui'[s].at = "seal" => ui[s].at = "seal")
  /\ (todo'[s].to # {} /\ todo'[s].msg.t = "enc") => todo'[s].to \subseteq todo[s].to /\ todo'[s].msg = todo[s].msg

\* Then what fits goes on fitting.
LEMMA SteadyFits ==
  ASSUME SessionTypeOK, Steady
  PROVE  /\ Numbered => Numbered'
         /\ \A c \in Clients, x \in Enc : Fits(c, x) =>
              /\ x.n <= sent'[x.from] /\ (ui'[x.from].at = "seal" => x.n < sent'[x.from])
              /\ (c \in todo'[x.from].to /\ todo'[x.from].msg.t = "enc") => x.n < todo'[x.from].msg.n
<1>1. Numbered => Numbered' BY DEF Steady, Numbered
<1>2. ASSUME NEW c \in Clients, NEW x \in Enc, Fits(c, x)
      PROVE  /\ x.n <= sent'[x.from] /\ (ui'[x.from].at = "seal" => x.n < sent'[x.from])
             /\ (c \in todo'[x.from].to /\ todo'[x.from].msg.t = "enc") => x.n < todo'[x.from].msg.n
  <2>1. PICK s \in Clients : s = x.from BY FrameFacts
  <2>2. /\ sent'[s] = sent[s] /\ (ui'[s].at = "seal" => ui[s].at = "seal")
        /\ (todo'[s].to # {} /\ todo'[s].msg.t = "enc") => todo'[s].to \subseteq todo[s].to /\ todo'[s].msg = todo[s].msg
    BY DEF Steady
  <2>3. x.n <= sent'[s] /\ (ui'[s].at = "seal" => x.n < sent'[s]) BY <1>2, <2>1, <2>2 DEF Fits
  <2>4. (c \in todo'[s].to /\ todo'[s].msg.t = "enc") => x.n < todo'[s].msg.n BY <1>2, <2>1, <2>2 DEF Fits
  <2> QED BY <2>1, <2>3, <2>4
<1> QED BY <1>1, <1>2

\* Behind, in the next state.
LEMMA FitsNext ==
  ASSUME NEW c \in Clients, NEW l, l = Line(c)',
         \A i \in DOMAIN l : l[i].t = "enc" =>
              /\ l[i].n <= sent'[l[i].from] /\ (ui'[l[i].from].at = "seal" => l[i].n < sent'[l[i].from])
              /\ (c \in todo'[l[i].from].to /\ todo'[l[i].from].msg.t = "enc") => l[i].n < todo'[l[i].from].msg.n
  PROVE  Behind(c)'
BY DEF Behind, Fits

\* Nothing new is sealed, and every line stays or loses a frame.
LEMMA LinesMove ==
  ASSUME SessionTypeOK, Ordered, Steady,
         \A c \in Clients : Line(c)' = Line(c) \/ Drops(Line(c), Line(c)')
  PROVE  Ordered'
<1>1. Numbered' BY SteadyFits DEF Ordered
<1>2. ASSUME NEW c \in Clients PROVE Sorted(Line(c))' /\ Behind(c)'
  <2>1. PICK l \in Seq(Frame) : l = Line(c) BY LineType
  <2>2. PICK m : m = Line(c)' OBVIOUS
  <2>3. Sorted(l) /\ \A i \in DOMAIN l : l[i].t = "enc" => Fits(c, l[i]) BY <2>1 DEF Ordered, Behind
  <2>4. m = l \/ Drops(l, m) BY <2>1, <2>2
  <2>5. Sorted(m) /\ \A i \in DOMAIN m : \E j \in DOMAIN l : m[i] = l[j] BY <2>3, <2>4, DropFacts
  <2>6. \A j \in DOMAIN l : l[j] \in Frame OBVIOUS
  <2>7. \A i \in DOMAIN m : m[i].t = "enc" => m[i] \in Enc /\ Fits(c, m[i]) BY <2>3, <2>5, <2>6, FrameFacts
  <2>8. Behind(c)' BY <2>2, <2>7, SteadyFits, FitsNext
  <2> QED BY <2>2, <2>5, <2>8 DEF Sorted
<1> QED BY <1>1, <1>2 DEF Ordered

\* Nothing new is sealed, and one line gains a frame, a sealed one only in its turn.
LEMMA LineGains ==
  ASSUME SessionTypeOK, Ordered, Steady, NEW d \in Clients, NEW x \in Frame,
         Gains(inbox[d], inbox'[d], x), \A e \in Clients : e # d => inbox'[e] = inbox[e],
         \A e \in Clients : HeldOf(rd'[e]) = HeldOf(rd[e]) /\ pending'[e] = pending[e] /\ surfaced'[e] = surfaced[e],
         x.t = "enc" => d \in todo[x.from].to /\ todo[x.from].msg = x /\ d \notin todo'[x.from].to
  PROVE  Ordered'
<1>1. Numbered' BY SteadyFits DEF Ordered
<1>2. ASSUME NEW c \in Clients, c # d PROVE Sorted(Line(c))' /\ Behind(c)'
  <2>1. PICK l \in Seq(Frame) : l = Line(c) BY LineType
  <2>2. Line(c)' = l BY <1>2, <2>1 DEF Line
  <2>3. Sorted(l) /\ \A i \in DOMAIN l : l[i].t = "enc" => Fits(c, l[i]) BY <2>1 DEF Ordered, Behind
  <2>6. \A j \in DOMAIN l : l[j] \in Frame OBVIOUS
  <2>7. \A i \in DOMAIN l : l[i].t = "enc" => l[i] \in Enc /\ Fits(c, l[i]) BY <2>3, <2>6, FrameFacts
  <2>8. Behind(c)' BY <2>2, <2>7, SteadyFits, FitsNext
  <2> QED BY <2>2, <2>3, <2>8 DEF Sorted
<1>3. Sorted(Line(d))' /\ Behind(d)'
  <2>1. PICK l \in Seq(Frame) : l = Line(d) BY LineType
  <2>2. PICK m : m = Line(d)' OBVIOUS
  <2>3. Sorted(l) /\ \A i \in DOMAIN l : l[i].t = "enc" => Fits(d, l[i]) BY <2>1 DEF Ordered, Behind
  <2>4. Gains(l, m, x)
    <3>1. PICK a \in Seq(Frame), b \in Seq(Frame), p \in Seq(Frame), w \in Seq(Frame) :
            a = surfaced[d] /\ b = HeldOf(rd[d]) /\ p = pending[d] /\ w = inbox[d]
      BY LineType
    <3>2. PICK z : z = inbox'[d] OBVIOUS
    <3>3. Gains(w, z, x) BY <3>1, <3>2
    <3>4. Gains(p \o w, p \o z, x) /\ p \o w \in Seq(Frame) BY <3>3, GainBehind, Laws
    <3>5. Gains(b \o (p \o w), b \o (p \o z), x) /\ b \o (p \o w) \in Seq(Frame) BY <3>4, GainBehind, Laws
    <3>6. Gains(a \o (b \o (p \o w)), a \o (b \o (p \o z)), x) BY <3>5, GainBehind
    <3>7. l = a \o (b \o (p \o w)) BY <2>1, <3>1 DEF Line
    <3>8. m = a \o (b \o (p \o z)) BY <2>2, <3>1, <3>2 DEF Line
    <3> QED BY <3>6, <3>7, <3>8
  <2>5. \A j \in DOMAIN l : l[j] \in Frame OBVIOUS
  <2>6. \A i \in DOMAIN l : l[i].t = "enc" => l[i] \in Enc BY <2>5, FrameFacts
  <2>7. \A i \in DOMAIN l : (l[i].t = "enc" /\ x.t = "enc" /\ l[i].from = x.from) => l[i].n < x.n BY <2>3 DEF Fits
  <2>8. Sorted(m) BY <2>3, <2>4, <2>7, GainFacts
  <2>9. ASSUME NEW i \in DOMAIN m, m[i].t = "enc"
        PROVE  /\ m[i].n <= sent'[m[i].from] /\ (ui'[m[i].from].at = "seal" => m[i].n < sent'[m[i].from])
               /\ (d \in todo'[m[i].from].to /\ todo'[m[i].from].msg.t = "enc") => m[i].n < todo'[m[i].from].msg.n
    <3>1. CASE i \in DOMAIN l /\ m[i] = l[i] BY <2>3, <2>6, <2>9, <3>1, SteadyFits
    <3>2. CASE m[i] = x
      <4>1. x.from \in Clients BY <2>9, <3>2, FrameFacts
      <4>2. x.n <= sent[x.from] /\ (ui[x.from].at = "seal" => x.n < sent[x.from])
        BY <2>9, <3>2, <4>1 DEF Ordered, Numbered
      <4> QED BY <2>9, <3>2, <4>1, <4>2 DEF Steady
    <3> QED BY <2>4, <2>9, <3>1, <3>2 DEF Gains
  <2>10. Behind(d)' BY <2>2, <2>9, FitsNext
  <2> QED BY <2>2, <2>8, <2>10 DEF Sorted
<1> QED BY <1>1, <1>2, <1>3 DEF Ordered

\* The read loop keeps the order.
LEMMA OrderReader ==
  ASSUME SessionInv, AckInv, Emptied, Ordered, NEW c \in Clients, Reader(c)
  PROVE  Ordered'
<1> USE DEF relayVars, clientVars, countVars
<1>0. SessionTypeOK /\ ui \in [Clients -> UiStates] /\ rd \in [Clients -> RdStates] /\ inbox \in [Clients -> Seq(Frame)]
  BY DEF SessionInv, SessionTypeOK
<1>1. Steady
  <2>1. UNCHANGED <<todo, sent>>
    BY DEF Reader, OnWelcome, OnMemberJoined, OnMemberLeft, OnKeyRequest, DeliverKey, OnKeyDeliver, OnEncrypted,
       HandleEncrypted, ReplayNext, OpenMessage, RecordPeer, OnControl, OnControlReset
  <2>2. UNCHANGED ui \/ ui' = ZeroHeld(ui, c)
    BY DEF Reader, OnWelcome, OnMemberJoined, OnMemberLeft, OnKeyRequest, DeliverKey, OnKeyDeliver, OnEncrypted,
       HandleEncrypted, ReplayNext, OpenMessage, RecordPeer, OnControl, OnControlReset
  <2>3. \A s \in Clients : ui'[s].at = ui[s].at BY <1>0, <2>2, WipeUi
  <2> QED BY <2>1, <2>3 DEF Steady
<1>2. CASE DeliverKey(c)
  <2>1. /\ rd[c].at = "wrap" /\ rd' = [rd EXCEPT ![c] = Idle] /\ UNCHANGED <<pending, surfaced>> BY <1>2 DEF DeliverKey
  <2>2. \A e \in Clients : HeldOf(rd'[e]) = HeldOf(rd[e])
    <3>1. HeldOf(rd[c]) = <<>> BY <2>1 DEF HeldOf
    <3>2. rd'[c] = Idle /\ \A e \in Clients : e # c => rd'[e] = rd[e] BY <1>0, <2>1
    <3>3. HeldOf(rd'[c]) = <<>> BY <3>2 DEF HeldOf, Idle
    <3> QED BY <3>1, <3>2, <3>3
  <2>3. CASE rd[c].who \notin Present
    <3>1. UNCHANGED inbox BY <1>2, <2>3 DEF DeliverKey
    <3>2. \A e \in Clients : Line(e)' = Line(e) BY <2>1, <2>2, <3>1 DEF Line
    <3> QED BY <1>0, <1>1, <3>2, LinesMove
  <2>4. CASE rd[c].who \in Present
    <3>1. PICK d \in Clients : d = rd[c].who BY <1>0, <2>1, RdFacts
    <3>2. PICK m \in Frame : m = [t |-> "key", from |-> c, key |-> rd[c].key] BY <1>0, <2>1, RdFacts, FrameShapes
    <3>3. Queued(d, <<m>>) /\ m.t = "key" BY <1>2, <2>4, <3>1, <3>2 DEF DeliverKey
    <3>4. Gains(inbox[d], inbox'[d], m) /\ \A e \in Clients : e # d => inbox'[e] = inbox[e]
      BY <1>0, <3>3, QueuedOneIs DEF Gains
    <3> QED BY <1>0, <1>1, <2>1, <2>2, <3>3, <3>4, LineGains
  <2> QED BY <2>3, <2>4
<1>3. CASE ~DeliverKey(c)
  <2>1. Line(c)' = Line(c) \/ Drops(Line(c), Line(c)') BY <1>3, LineReader
  <2>2. Taken(c) \/ UNCHANGED inbox
    BY <1>3 DEF Reader, OnWelcome, OnMemberJoined, OnMemberLeft, OnKeyRequest, OnKeyDeliver, OnEncrypted,
       HandleEncrypted, ReplayNext, OpenMessage, RecordPeer, OnControl, OnControlReset
  <2>3. \A d \in Clients : d # c => inbox'[d] = inbox[d] BY <1>0, <2>2 DEF Taken
  <2>4. \A d \in Clients : d # c => rd'[d] = rd[d] /\ pending'[d] = pending[d] /\ surfaced'[d] = surfaced[d] BY <1>0, Local
  <2>5. \A d \in Clients : d # c => Line(d)' = Line(d) BY <2>3, <2>4 DEF Line
  <2> QED BY <1>0, <1>1, <2>1, <2>5, LinesMove
<1> QED BY <1>2, <1>3

\* A caller keeps it: what it seals is its newest.
LEMMA OrderCaller ==
  ASSUME SessionInv, Ordered, NEW c \in Clients, Caller(c)
  PROVE  Ordered'
<1> USE DEF relayVars, clientVars, countVars
<1>0. /\ SessionTypeOK /\ ui \in [Clients -> UiStates] /\ rd \in [Clients -> RdStates] /\ sent \in [Clients -> Nat]
      /\ todo \in [Clients -> {NoSends} \cup [to : SUBSET Clients, msg : Frame]]
  BY DEF SessionInv, SessionTypeOK
<1>1. \A e \in Clients : Line(e)' = Line(e)
  <2>1. UNCHANGED <<inbox, pending, surfaced>> BY DEF Caller, StartSend, SealAndSend, RecordOwn, Vanish, VanishTell
  <2>2. \A e \in Clients : HeldOf(rd'[e]) = HeldOf(rd[e])
    <3>1. CASE Vanish(c)
      <4>1. rd' = ZeroHeld(rd, c) BY <3>1 DEF Vanish
      <4>2. /\ \A d \in Clients : d # c => rd'[d] = rd[d]
            /\ rd'[c].at = rd[c].at
            /\ rd'[c].at = "open" => rd'[c].m = rd[c].m /\ rd'[c].left = rd[c].left
            /\ rd'[c].at \notin {"wrap", "open"} => rd'[c] = rd[c]
        BY <1>0, <4>1, WipeRd
      <4> QED BY <4>2 DEF HeldOf
    <3>2. CASE ~Vanish(c)
      <4>1. UNCHANGED rd BY <3>2 DEF Caller, StartSend, SealAndSend, RecordOwn, VanishTell
      <4> QED BY <4>1
    <3> QED BY <3>1, <3>2
  <2> QED BY <2>1, <2>2 DEF Line
<1>2. ASSUME Steady PROVE Ordered' BY <1>0, <1>1, <1>2, LinesMove
<1>3. ASSUME Numbered',
             \A e \in Clients, x \in Enc : Fits(e, x) =>
              /\ x.n <= sent'[x.from] /\ (ui'[x.from].at = "seal" => x.n < sent'[x.from])
              /\ (e \in todo'[x.from].to /\ todo'[x.from].msg.t = "enc") => x.n < todo'[x.from].msg.n
      PROVE  Ordered'
  <2>1. ASSUME NEW e \in Clients PROVE Sorted(Line(e))' /\ Behind(e)'
    <3>1. PICK l \in Seq(Frame) : l = Line(e) BY <1>0, LineType
    <3>2. Line(e)' = l BY <1>1, <3>1
    <3>3. Sorted(l) /\ \A i \in DOMAIN l : l[i].t = "enc" => Fits(e, l[i]) BY <3>1 DEF Ordered, Behind
    <3>4. \A j \in DOMAIN l : l[j] \in Frame OBVIOUS
    <3>5. \A i \in DOMAIN l : l[i].t = "enc" => l[i] \in Enc /\ Fits(e, l[i]) BY <3>3, <3>4, FrameFacts
    <3>6. Behind(e)' BY <1>3, <3>2, <3>5, FitsNext
    <3> QED BY <3>2, <3>3, <3>6 DEF Sorted
  <2> QED BY <1>3, <2>1 DEF Ordered
<1>4. ASSUME NEW op \in {"message", "ack", "handoff"}, NEW d \in Clients, StartSend(c, op, d) PROVE Ordered'
  <2>1. UNCHANGED todo /\ sent' = [sent EXCEPT ![c] = sent[c] + 1] BY <1>4 DEF StartSend
  <2>2. sent'[c] = sent[c] + 1 /\ \A s \in Clients : s # c => sent'[s] = sent[s] /\ ui'[s] = ui[s]
    BY <1>0, <1>4, <2>1 DEF StartSend
  <2>3. Numbered'
    <3>1. \A s \in Clients : todo[s].to # {} => todo[s].msg \in Frame BY <1>0, TodoFacts
    <3>2. \A s \in Clients : (todo[s].to # {} /\ todo[s].msg.t = "enc") => todo[s].msg.n \in Nat BY <3>1, FrameFacts
    <3> QED BY <1>0, <2>1, <2>2, <3>2 DEF Ordered, Numbered
  <2>4. ASSUME NEW e \in Clients, NEW x \in Enc, Fits(e, x)
        PROVE /\ x.n <= sent'[x.from] /\ (ui'[x.from].at = "seal" => x.n < sent'[x.from])
              /\ (e \in todo'[x.from].to /\ todo'[x.from].msg.t = "enc") => x.n < todo'[x.from].msg.n
    <3>1. PICK s \in Clients : s = x.from BY FrameFacts
    <3>2. x.n \in Nat BY FrameFacts
    <3>3. x.n <= sent'[s] /\ (ui'[s].at = "seal" => x.n < sent'[s]) BY <1>0, <2>2, <2>4, <3>1, <3>2 DEF Fits
    <3> QED BY <2>1, <2>4, <3>1, <3>3 DEF Fits
  <2> QED BY <1>3, <2>3, <2>4
<1>5. CASE SealAndSend(c)
  <2>1. /\ ui[c].at = "seal" /\ UNCHANGED sent BY <1>5 DEF SealAndSend
  <2>2. PICK m : m = [t |-> "enc", op |-> ui[c].op, from |-> c, key |-> ui[c].key, n |-> sent[c], arg |-> ui[c].arg] OBVIOUS
  <2>3. m.n = sent[c] /\ Broadcast(c, m) /\ \A s \in Clients : s # c => ui'[s] = ui[s]
    BY <1>0, <1>5, <2>2 DEF SealAndSend
  <2>4. PICK y : y = Sends(Present \ {c}, m) OBVIOUS
  <2>5. y.to # {} => y.msg = m BY <2>4 DEF Sends, NoSends
  <2>6. todo'[c] = y /\ \A s \in Clients : s # c => todo'[s] = todo[s] BY <1>0, <2>3, <2>4 DEF Broadcast
  <2>7. ui'[c].at # "seal"
    <3>1. ui[c].op \in {"message", "ack", "handoff"} BY <1>0, <2>1, UiFacts
    <3>2. ui'[c] = IF m.op = "message" THEN Idle ELSE [at |-> m.op, arg |-> m.arg, epoch |-> m.key.epoch]
      BY <1>0, <1>5, <2>2 DEF SealAndSend
    <3>3. m.op = ui[c].op BY <2>2
    <3>4. ui'[c].at = IF m.op = "message" THEN "idle" ELSE m.op BY <3>2, UiFacts
    <3> QED BY <3>1, <3>3, <3>4
  <2>8. Numbered' BY <1>0, <2>1, <2>3, <2>5, <2>6, <2>7 DEF Ordered, Numbered
  <2>9. ASSUME NEW e \in Clients, NEW x \in Enc, Fits(e, x)
        PROVE /\ x.n <= sent'[x.from] /\ (ui'[x.from].at = "seal" => x.n < sent'[x.from])
              /\ (e \in todo'[x.from].to /\ todo'[x.from].msg.t = "enc") => x.n < todo'[x.from].msg.n
    <3>1. PICK s \in Clients : s = x.from BY FrameFacts
    <3>2. CASE s = c
      <4>1. x.n < sent[c] BY <2>1, <2>9, <3>1, <3>2 DEF Fits
      <4>2. x.n <= sent[c] BY <2>9, <3>1, <3>2 DEF Fits
      <4>3. e \in y.to => y.msg.n = sent[c] BY <2>3, <2>5
      <4> QED BY <2>1, <2>6, <2>7, <3>1, <3>2, <4>1, <4>2, <4>3
    <3>3. CASE s # c BY <2>1, <2>3, <2>6, <2>9, <3>1, <3>3 DEF Fits
    <3> QED BY <3>2, <3>3
  <2> QED BY <1>3, <2>8, <2>9
<1>6. CASE RecordOwn(c)
  <2>1. UNCHANGED <<todo, sent>> /\ ui' = [ui EXCEPT ![c] = Idle] BY <1>6 DEF RecordOwn
  <2>2. Steady BY <1>0, <2>1, UiFacts DEF Steady
  <2> QED BY <1>2, <2>2
<1>7. CASE Vanish(c)
  <2>1. UNCHANGED <<todo, sent>> /\ ui' = [ui EXCEPT ![c] = [at |-> "vanish"]] BY <1>7 DEF Vanish
  <2>2. Steady BY <1>0, <2>1 DEF Steady
  <2> QED BY <1>2, <2>2
<1>8. CASE VanishTell(c)
  <2>1. UNCHANGED sent /\ ui' = [ui EXCEPT ![c] = Idle] BY <1>8 DEF VanishTell
  <2>2. PICK m : m = [t |-> "vanish", from |-> c] OBVIOUS
  <2>3. m.t = "vanish" /\ Broadcast(c, m) BY <1>8, <2>2 DEF VanishTell
  <2>4. PICK y : y = Sends(Present \ {c}, m) OBVIOUS
  <2>5. y.to # {} => y.msg = m BY <2>4 DEF Sends, NoSends
  <2>6. todo'[c] = y /\ \A s \in Clients : s # c => todo'[s] = todo[s] BY <1>0, <2>3, <2>4 DEF Broadcast
  <2>7. Steady BY <1>0, <2>1, <2>3, <2>5, <2>6, UiFacts DEF Steady
  <2> QED BY <1>2, <2>7
<1> QED BY <1>4, <1>5, <1>6, <1>7, <1>8 DEF Caller

\* A notice is no sealed frame.
LEMMA CastSteady ==
  ASSUME SessionTypeOK, NEW c \in Clients, NEW m, Broadcast(c, m), m.t # "enc", UNCHANGED <<sent, ui>>
  PROVE  Steady
<1>0. todo \in [Clients -> {NoSends} \cup [to : SUBSET Clients, msg : Frame]] BY DEF SessionTypeOK
<1>1. PICK y : y = Sends(Present \ {c}, m) OBVIOUS
<1>2. y.to # {} => y.msg = m BY <1>1 DEF Sends, NoSends
<1>3. todo'[c] = y /\ \A s \in Clients : s # c => todo'[s] = todo[s] BY <1>0, <1>1 DEF Broadcast
<1> QED BY <1>2, <1>3 DEF Steady

\* The relay keeps it, in whatever order it fans out.
LEMMA OrderRelay ==
  ASSUME SessionInv, ~keeps, hist = <<>>, Ordered, NEW c \in Clients, RelayStep(c) \/ Leave(c)
  PROVE  hist' = <<>> /\ Ordered'
<1> USE DEF relayVars, clientVars, countVars
<1>0. /\ SessionTypeOK /\ SeatsInv /\ ui \in [Clients -> UiStates] /\ rd \in [Clients -> RdStates]
      /\ todo \in [Clients -> {NoSends} \cup [to : SUBSET Clients, msg : Frame]] /\ joinRes \in [Clients -> Seq(Clients)]
      /\ inbox \in [Clients -> Seq(Frame)] /\ pending \in [Clients -> Seq(Enc)] /\ surfaced \in [Clients -> Seq(Enc)]
  BY DEF SessionInv, SessionTypeOK
<1>1. ASSUME Steady, UNCHANGED <<rd, pending, surfaced, inbox>> PROVE Ordered'
  <2>1. \A e \in Clients : Line(e)' = Line(e) BY <1>1 DEF Line
  <2> QED BY <1>0, <1>1, <2>1, LinesMove
<1>2. CASE Join(c)
  <2>1. UNCHANGED <<rd, pending, surfaced, inbox, todo, sent, ui, hist>> BY <1>2 DEF Join
  <2>2. Steady BY <2>1 DEF Steady
  <2> QED BY <1>1, <2>1, <2>2
<1>3. CASE SendWelcome(c)
  <2>1. UNCHANGED <<rd, pending, surfaced, todo, sent, ui, hist>> BY <1>3 DEF SendWelcome
  <2>2. Steady BY <2>1 DEF Steady
  <2>3. PICK m \in Frame : m = [t |-> "welcome", existing |-> joinRes[c]] BY <1>0, FrameShapes
  <2>4. Queued(c, <<m>>) /\ m.t = "welcome" BY <1>3, <2>3 DEF SendWelcome
  <2>5. Gains(inbox[c], inbox'[c], m) /\ \A e \in Clients : e # c => inbox'[e] = inbox[e]
    BY <1>0, <2>4, QueuedOneIs DEF Gains
  <2> QED BY <1>0, <2>1, <2>2, <2>4, <2>5, LineGains
<1>4. CASE Replay(c)
  <2>1. UNCHANGED <<rd, pending, surfaced, todo, sent, ui, hist>> /\ Queued(c, hist) BY <1>4 DEF Replay
  <2>2. Steady BY <2>1 DEF Steady
  <2>3. PICK m \in Frame : m = [t |-> "joined", who |-> c] BY FrameShapes
  <2>4. hist \in Seq(Frame) /\ DOMAIN hist = {} BY Laws
  <2>5. Gains(inbox[c], inbox'[c], m) /\ \A e \in Clients : e # c => inbox'[e] = inbox[e]
    BY <1>0, <2>1, <2>4, QueuedIs DEF Gains
  <2>6. m.t = "joined" BY <2>3
  <2> QED BY <1>0, <2>1, <2>2, <2>5, <2>6, LineGains
<1>5. CASE Announce(c)
  <2>1. UNCHANGED <<rd, pending, surfaced, inbox, sent, ui, hist>> BY <1>5 DEF Announce
  <2>2. PICK m : m = [t |-> "joined", who |-> c] OBVIOUS
  <2>3. m.t = "joined" /\ Broadcast(c, m) BY <1>5, <2>2 DEF Announce
  <2>4. Steady BY <1>0, <2>1, <2>3, CastSteady
  <2> QED BY <1>1, <2>1, <2>4
<1>6. CASE AskDistributor(c)
  <2>1. UNCHANGED <<rd, pending, surfaced, todo, sent, ui, hist>> BY <1>6 DEF AskDistributor
  <2>2. Steady BY <2>1 DEF Steady
  <2>3. CASE joinRes[c] = <<>> \/ conn[Head(joinRes[c])] \in {"leaving", "gone"}
    <3>1. UNCHANGED inbox BY <1>6, <2>3 DEF AskDistributor
    <3> QED BY <1>1, <2>1, <2>2, <3>1
  <2>4. CASE ~(joinRes[c] = <<>> \/ conn[Head(joinRes[c])] \in {"leaving", "gone"})
    <3>1. PICK d \in Clients : d = Head(joinRes[c]) BY <1>0, <2>4
    <3>2. PICK m \in Frame : m = [t |-> "keyreq", who |-> c] BY FrameShapes
    <3>3. Queued(d, <<m>>) /\ m.t = "keyreq" BY <1>6, <2>4, <3>1, <3>2 DEF AskDistributor
    <3>4. Gains(inbox[d], inbox'[d], m) /\ \A e \in Clients : e # d => inbox'[e] = inbox[e]
      BY <1>0, <3>3, QueuedOneIs DEF Gains
    <3> QED BY <1>0, <2>1, <2>2, <3>3, <3>4, LineGains
  <2> QED BY <2>3, <2>4
<1>7. CASE Depart(c)
  <2>1. UNCHANGED <<rd, pending, surfaced, inbox, sent, ui, hist>> BY <1>7 DEF Depart
  <2>2. PICK m : m = [t |-> "left", who |-> c] OBVIOUS
  <2>3. m.t = "left" /\ Broadcast(c, m) BY <1>7, <2>2 DEF Depart
  <2>4. Steady BY <1>0, <2>1, <2>3, CastSteady
  <2> QED BY <1>1, <2>1, <2>4
<1>8. CASE Store(c)
  <2>1. todo[c] # NoSends /\ todo[c].to = {} BY <1>8 DEF Store
  <2> QED BY <1>0, <2>1 DEF SessionTypeOK, Stored
<1>9. ASSUME NEW d \in Clients, FanOut(c, d) PROVE hist' = <<>> /\ Ordered'
  <2>1. /\ UNCHANGED <<rd, pending, surfaced, sent, ui, hist>> /\ d \in todo[c].to
        /\ todo' = [todo EXCEPT ![c] = Sends(todo[c].to \ {d}, todo[c].msg)]
    BY <1>0, <1>9 DEF FanOut
  <2>2. PICK y : y = Sends(todo[c].to \ {d}, todo[c].msg) OBVIOUS
  <2>3. /\ y.to \subseteq todo[c].to /\ d \notin y.to /\ (y.to # {} => y.msg = todo[c].msg) BY <2>2 DEF Sends, NoSends
  <2>4. todo'[c] = y /\ \A s \in Clients : s # c => todo'[s] = todo[s] BY <1>0, <2>1, <2>2
  <2>5. Steady BY <2>1, <2>3, <2>4 DEF Steady
  <2>6. PICK m \in Frame : m = todo[c].msg BY <1>0, <2>1, TodoFacts
  <2>7. m.t = "enc" => m.from = c BY <1>0, <2>1, <2>6 DEF SeatsInv, Casts
  <2>8. UNCHANGED inbox \/ Queued(d, <<m>>) BY <1>9, <2>6 DEF FanOut
  <2>9. CASE UNCHANGED inbox BY <1>1, <2>1, <2>5, <2>9
  <2>10. CASE Queued(d, <<m>>)
    <3>1. Gains(inbox[d], inbox'[d], m) /\ \A e \in Clients : e # d => inbox'[e] = inbox[e]
      BY <1>0, <2>10, QueuedOneIs DEF Gains
    <3>2. m.t = "enc" => d \in todo[m.from].to /\ todo[m.from].msg = m /\ d \notin todo'[m.from].to
      BY <2>1, <2>3, <2>4, <2>6, <2>7
    <3> QED BY <1>0, <2>1, <2>5, <3>1, <3>2, LineGains
  <2> QED BY <2>8, <2>9, <2>10
<1>10. CASE Leave(c)
  <2>1. /\ inbox' = [inbox EXCEPT ![c] = <<>>] /\ pending' = [pending EXCEPT ![c] = <<>>] /\ rd' = [rd EXCEPT ![c] = Idle]
        /\ ui' = [ui EXCEPT ![c] = Idle] /\ surfaced' = [surfaced EXCEPT ![c] = <<>>] /\ UNCHANGED <<todo, hist, sent>>
    BY <1>10 DEF Leave
  <2>2. Steady BY <1>0, <2>1, UiFacts DEF Steady
  <2>3. Numbered' BY <1>0, <2>2, SteadyFits DEF Ordered
  <2>4. ASSUME NEW e \in Clients, e # c PROVE Sorted(Line(e))' /\ Behind(e)'
    <3>1. PICK l \in Seq(Frame) : l = Line(e) BY <1>0, LineType
    <3>2. Line(e)' = l BY <1>0, <2>1, <2>4, <3>1 DEF Line
    <3>3. Sorted(l) /\ \A i \in DOMAIN l : l[i].t = "enc" => Fits(e, l[i]) BY <3>1 DEF Ordered, Behind
    <3>4. \A j \in DOMAIN l : l[j] \in Frame OBVIOUS
    <3>5. \A i \in DOMAIN l : l[i].t = "enc" => l[i] \in Enc /\ Fits(e, l[i]) BY <3>3, <3>4, FrameFacts
    <3>6. Behind(e)' BY <1>0, <2>2, <3>2, <3>5, SteadyFits, FitsNext
    <3> QED BY <3>2, <3>3, <3>6 DEF Sorted
  <2>5. Sorted(Line(c))' /\ Behind(c)'
    <3>1. inbox'[c] = <<>> /\ pending'[c] = <<>> /\ rd'[c] = Idle /\ surfaced'[c] = <<>> BY <1>0, <2>1
    <3>2. HeldOf(rd'[c]) = <<>> BY <3>1 DEF HeldOf, Idle
    <3>3. Line(c)' = <<>> BY <3>1, <3>2, Laws DEF Line
    <3>4. \A i \in DOMAIN Line(c)' : FALSE BY <3>3
    <3> QED BY <3>4 DEF Sorted, Behind
  <2> QED BY <2>1, <2>3, <2>4, <2>5 DEF Ordered
<1> QED BY <1>2, <1>3, <1>4, <1>5, <1>6, <1>7, <1>8, <1>9, <1>10 DEF RelayStep

\* Every step keeps Emptied: the read loop replays what was pending before it takes another frame.
LEMMA EmptiedStep ==
  ASSUME SessionInv, Emptied, NEW c \in Clients, RelayStep(c) \/ Leave(c) \/ Reader(c) \/ Caller(c)
  PROVE  Emptied'
<1> USE DEF relayVars, clientVars, countVars
<1>0. /\ SessionTypeOK /\ pending \in [Clients -> Seq(Enc)] /\ rk \in [Clients -> Keys \cup {NoKey}]
  BY DEF SessionInv, SessionTypeOK
<1>1. CASE RelayStep(c) BY <1>1, RelayKeys DEF Emptied
<1>2. CASE Leave(c) BY <1>0, <1>2 DEF Leave, Emptied
<1>3. ASSUME UNCHANGED pending, rk'[c] = rk[c] \/ rk'[c] = Ratcheted(rk[c]), \A d \in Clients : d # c => rk'[d] = rk[d]
      PROVE  Emptied'
  <2>1. rk'[c] # NoKey => rk[c] # NoKey BY <1>3, KeyFacts
  <2> QED BY <1>3, <2>1 DEF Emptied
<1>4. CASE OnWelcome(c) \/ OnKeyDeliver(c)
  <2>1. (UNCHANGED <<rk, pending>>) \/ (pending' = [pending EXCEPT ![c] = <<>>] /\ \A d \in Clients : d # c => rk'[d] = rk[d])
    BY <1>0, <1>4 DEF OnWelcome, OnKeyDeliver
  <2>2. CASE UNCHANGED <<rk, pending>> BY <2>2 DEF Emptied
  <2>3. CASE pending' = [pending EXCEPT ![c] = <<>>] /\ \A d \in Clients : d # c => rk'[d] = rk[d]
    BY <1>0, <2>3 DEF Emptied
  <2> QED BY <2>1, <2>2, <2>3
<1>5. CASE OnControl(c) \/ Vanish(c)
  <2>1. UNCHANGED pending /\ rk' = [rk EXCEPT ![c] = Ratcheted(rk[c])] BY <1>5 DEF OnControl, Vanish
  <2> QED BY <1>0, <1>3, <2>1
<1>6. CASE OnEncrypted(c) \/ ReplayNext(c)
  <2>1. UNCHANGED rk /\ \A d \in Clients : rk[d] # NoKey => pending'[d] = pending[d]
    BY <1>0, <1>6 DEF OnEncrypted, ReplayNext, HandleEncrypted
  <2> QED BY <2>1 DEF Emptied
<1>7. CASE ~(OnWelcome(c) \/ OnKeyDeliver(c) \/ OnControl(c) \/ Vanish(c) \/ OnEncrypted(c) \/ ReplayNext(c))
           /\ (Reader(c) \/ Caller(c))
  <2>1. UNCHANGED <<rk, pending>>
    BY <1>7 DEF Reader, Caller, OnMemberJoined, OnMemberLeft, OnKeyRequest, DeliverKey,
       OpenMessage, RecordPeer, OnControlReset, StartSend, SealAndSend, RecordOwn, VanishTell
  <2> QED BY <2>1 DEF Emptied
<1> QED BY <1>1, <1>2, <1>4, <1>5, <1>6, <1>7

\* A room keeps history or does not, from the start.
LEMMA KeepsStays ==
  ASSUME SessionInv, NEW c \in Clients, RelayStep(c) \/ Leave(c) \/ Reader(c) \/ Caller(c)
  PROVE  keeps' = keeps /\ (Reader(c) \/ Caller(c) => hist' = hist)
<1>1. CASE Reader(c) \/ Caller(c) BY <1>1, Local DEF SessionInv
<1>2. CASE RelayStep(c) \/ Leave(c)
  <2>1. keeps' = keeps
    BY <1>2 DEF RelayStep, Leave, Join, SendWelcome, Replay, Announce, AskDistributor, Depart, Store, FanOut
  <2>2. CASE Reader(c) \/ Caller(c) BY <2>2, <1>1
  <2> QED BY <2>1, <2>2
<1> QED BY <1>1, <1>2

\* Every step keeps the order.
LEMMA OrderStep == SessionInv /\ AckInv /\ OrderInv /\ [Next]_vars => OrderInv'
<1> SUFFICES ASSUME SessionInv, AckInv, OrderInv, [Next]_vars PROVE OrderInv' OBVIOUS
<1>1. ASSUME NEW c \in Clients, RelayStep(c) \/ Leave(c) \/ Reader(c) \/ Caller(c) PROVE OrderInv'
  <2>1. Emptied /\ Emptied' /\ keeps' = keeps BY <1>1, EmptiedStep, KeepsStays DEF OrderInv
  <2>2. ASSUME ~keeps PROVE hist' = <<>> /\ Ordered'
    <3>1. hist = <<>> /\ Ordered BY <2>2 DEF OrderInv
    <3>2. CASE RelayStep(c) \/ Leave(c) BY <2>2, <3>1, <3>2, OrderRelay
    <3>3. CASE Reader(c) BY <2>1, <3>1, <3>3, OrderReader, KeepsStays
    <3>4. CASE Caller(c) BY <3>1, <3>4, OrderCaller, KeepsStays
    <3> QED BY <1>1, <3>2, <3>3, <3>4
  <2> QED BY <2>1, <2>2 DEF OrderInv
<1>2. CASE UNCHANGED vars
  <2>1. UNCHANGED <<rk, rd, ui, pending, surfaced, inbox, todo, sent, keeps, hist>>
    BY <1>2 DEF vars, relayVars, clientVars, countVars
  <2>2. Emptied' BY <2>1 DEF OrderInv, Emptied
  <2>3. ASSUME ~keeps PROVE Ordered'
    <3>1. Steady BY <2>1 DEF Steady
    <3>2. \A c \in Clients : Line(c)' = Line(c) BY <2>1 DEF Line
    <3> QED BY <2>3, <3>1, <3>2, LinesMove DEF OrderInv, SessionInv
  <2> QED BY <2>1, <2>2, <2>3 DEF OrderInv
<1> QED BY <1>1, <1>2 DEF Next

\* Nothing is in transit at the start.
LEMMA OrderInit == Init => OrderInv
<1> SUFFICES ASSUME Init PROVE OrderInv OBVIOUS
<1>1. \A c \in Clients : /\ inbox[c] = <<>> /\ pending[c] = <<>> /\ rd[c] = Idle /\ surfaced[c] = <<>>
                         /\ todo[c] = NoSends
  BY DEF Init
<1>2. ASSUME NEW c \in Clients PROVE Line(c) = <<>>
  <2>1. HeldOf(rd[c]) = <<>> BY <1>1 DEF HeldOf, Idle
  <2> QED BY <1>1, <2>1, Laws DEF Line
<1>3. \A c \in Clients : Sorted(Line(c)) /\ Behind(c)
  <2>1. \A c \in Clients : DOMAIN Line(c) = {} BY <1>2
  <2> QED BY <2>1 DEF Sorted, Behind
<1>4. Numbered BY <1>1 DEF Numbered, NoSends
<1>5. hist = <<>> BY DEF Init
<1> QED BY <1>1, <1>3, <1>4, <1>5 DEF OrderInv, Ordered, Emptied

\* What was surfaced is the front of the line.
LEMMA OrderGives == SessionTypeOK /\ OrderInv => InOrder
<1> SUFFICES ASSUME SessionTypeOK, OrderInv, ~keeps, NEW c \in Clients, NEW i \in DOMAIN surfaced[c], NEW j \in DOMAIN surfaced[c],
                    i < j, surfaced[c][i].from = surfaced[c][j].from
             PROVE  surfaced[c][i].n < surfaced[c][j].n
  BY DEF InOrder
<1>1. PICK s \in Seq(Enc) : s = surfaced[c] BY DEF SessionTypeOK
<1>2. PICK u \in Seq(Frame) : u = HeldOf(rd[c]) \o (pending[c] \o inbox[c]) BY LineType, Laws
<1>3. PICK l : l = s \o u OBVIOUS
<1>4. s \in Seq(Frame) BY Laws
<1>5. Sorted(l) BY <1>1, <1>2, <1>3 DEF OrderInv, Ordered, Line
<1>6. /\ Len(l) = Len(s) + Len(u) /\ l \in Seq(Frame)
      /\ \A k \in 1..Len(s) + Len(u) : l[k] = IF k <= Len(s) THEN s[k] ELSE u[k - Len(s)]
  BY <1>3, <1>4, ConcatProperties
<1>7. \A k \in DOMAIN s : k \in DOMAIN l /\ l[k] = s[k] /\ s[k] \in Enc BY <1>6
<1>8. s[i].t = "enc" /\ s[j].t = "enc" BY <1>1, <1>7, FrameFacts
<1> QED BY <1>1, <1>5, <1>7, <1>8 DEF Sorted

\* In a room that stores no history frames surface at most once and in their sender's order, those
\* that waited for the key included, and acks count in their own epoch only.
THEOREM FramesStayInPlace == Spec => []FramesInPlace
<1>1. Init => SessionInv /\ AckInv /\ OrderInv
  BY SessionTypeInit, SeatsInit, KeyInvInit, AckInvInit, OrderInit DEF SessionInv
<1>2. (SessionInv /\ AckInv /\ OrderInv) /\ [Next]_vars => (SessionInv /\ AckInv /\ OrderInv)'
  BY SessionInvStep, AckStep, OrderStep
<1>3. SessionInv /\ AckInv /\ OrderInv => FramesInPlace
  <2>1. AckInv => PeerAcksCurrent BY DEF AckInv, AcksOf, PeerAcksCurrent
  <2> QED BY <2>1, OrderGives DEF FramesInPlace, SessionInv
<1> QED BY <1>1, <1>2, <1>3, PTL DEF Spec

------------------------------------------------------------------------------
(* Agreement.  A member that has not applied a vanish is one epoch behind for each: Due counts *)
(* them, from the ratchet of the caller to the inbox of the receiver. *)

\* The vanishes in a queue.
VanishesIn(s) == {i \in DOMAIN s : s[i].t = "vanish"}
\* Who has ratcheted and told nobody yet.
Telling(c) == {d \in Clients : d # c /\ ui[d].at = "vanish"}
\* For whom the relay still has to send c the vanish.
Sending(c) == {d \in Clients : c \in todo[d].to /\ todo[d].msg.t = "vanish"}
\* How many ratchets c has yet to make up for.
Due(c) == Cardinality(Telling(c)) + Cardinality(Sending(c)) + Cardinality(VanishesIn(inbox[c]))

\* Queues are finite.
LEMMA VanishesFinite ==
  ASSUME NEW s \in Seq(Frame)
  PROVE  IsFiniteSet(VanishesIn(s)) /\ Cardinality(VanishesIn(s)) \in Nat
<1>1. IsFiniteSet(1..Len(s)) /\ DOMAIN s = 1..Len(s) BY FS_Interval
<1>2. VanishesIn(s) \subseteq 1..Len(s) BY <1>1 DEF VanishesIn
<1>3. IsFiniteSet(VanishesIn(s)) BY <1>1, <1>2, FS_Subset
<1> QED BY <1>3, FS_CardinalityType

\* Taking a vanish off a queue, or another frame.
LEMMA VanishesTaken ==
  ASSUME NEW s \in Seq(Frame), s # <<>>
  PROVE  Cardinality(VanishesIn(Tail(s))) = IF s[1].t = "vanish" THEN Cardinality(VanishesIn(s)) - 1 ELSE Cardinality(VanishesIn(s))
<1> DEFINE A == VanishesIn(s) \ {1}
           B == VanishesIn(Tail(s))
           f == [i \in B |-> i + 1]
<1>1. /\ Tail(s) \in Seq(Frame) /\ Len(Tail(s)) = Len(s) - 1 /\ \A i \in 1..Len(Tail(s)) : Tail(s)[i] = s[i + 1]
  BY HeadTailProperties
<1>2. DOMAIN s = 1..Len(s) /\ DOMAIN Tail(s) = 1..Len(Tail(s)) /\ Len(s) \in Nat /\ Len(Tail(s)) \in Nat BY <1>1
<1>3. \A i \in B : i \in Nat /\ i # 0 /\ i + 1 \in A
  <2> SUFFICES ASSUME NEW i \in B PROVE i \in Nat /\ i # 0 /\ i + 1 \in A OBVIOUS
  <2>1. i \in 1..Len(Tail(s)) /\ Tail(s)[i].t = "vanish" BY <1>2 DEF VanishesIn
  <2>2. s[i + 1].t = "vanish" /\ i + 1 \in 1..Len(s) /\ i + 1 # 1 BY <1>1, <1>2, <2>1
  <2> QED BY <1>2, <2>1, <2>2 DEF VanishesIn
<1>4. \A j \in A : \E i \in B : i + 1 = j
  <2> SUFFICES ASSUME NEW j \in A PROVE \E i \in B : i + 1 = j OBVIOUS
  <2>1. j \in 1..Len(s) /\ j # 1 /\ s[j].t = "vanish" BY <1>2 DEF VanishesIn
  <2>2. j - 1 \in 1..Len(Tail(s)) /\ (j - 1) + 1 = j BY <1>1, <1>2, <2>1
  <2>3. Tail(s)[j - 1] = s[j] BY <1>1, <2>2
  <2>4. j - 1 \in B BY <1>2, <2>1, <2>2, <2>3 DEF VanishesIn
  <2> QED BY <2>2, <2>4
<1>5. f \in Bijection(B, A)
  <2>1. f \in [B -> A] BY <1>3
  <2>2. \A i, j \in B : f[i] = f[j] => i = j BY <1>3
  <2>3. \A j \in A : \E i \in B : f[i] = j BY <1>4
  <2> HIDE DEF f, A, B
  <2> QED BY <2>1, <2>2, <2>3, Fun_IsBij
<1>6. IsFiniteSet(B) /\ IsFiniteSet(VanishesIn(s)) BY <1>1, VanishesFinite
<1>7. Cardinality(A) = Cardinality(B)
  <2>1. ExistsBijection(B, A) BY <1>5 DEF ExistsBijection
  <2> HIDE DEF A, B
  <2> QED BY <1>6, <2>1, FS_Bijection
<1>8. 1 \in VanishesIn(s) <=> s[1].t = "vanish" BY <1>2 DEF VanishesIn
<1>9. Cardinality(A) = IF 1 \in VanishesIn(s) THEN Cardinality(VanishesIn(s)) - 1 ELSE Cardinality(VanishesIn(s))
  BY <1>6, FS_RemoveElement
<1> QED BY <1>7, <1>8, <1>9

\* Putting one on.
LEMMA VanishesAppended ==
  ASSUME NEW s \in Seq(Frame), NEW x \in Frame
  PROVE  Cardinality(VanishesIn(Append(s, x))) =
           IF x.t = "vanish" THEN Cardinality(VanishesIn(s)) + 1 ELSE Cardinality(VanishesIn(s))
<1>0. Append(s, x) \in Seq(Frame) OBVIOUS
<1>1. PICK m \in Seq(Frame) : m = Append(s, x) BY <1>0
<1>2. /\ DOMAIN m = 1..(Len(s) + 1) /\ DOMAIN s = 1..Len(s) /\ Len(s) \in Nat
      /\ \A i \in 1..Len(s) : m[i] = s[i]
      /\ m[Len(s) + 1] = x
  BY <1>1
<1>3. Len(s) + 1 \notin VanishesIn(s) BY <1>2 DEF VanishesIn
<1>4. VanishesIn(m) = IF x.t = "vanish" THEN VanishesIn(s) \cup {Len(s) + 1} ELSE VanishesIn(s)
  <2>1. \A i : i \in VanishesIn(m) <=> i \in VanishesIn(s) \/ (i = Len(s) + 1 /\ x.t = "vanish")
    <3>1. ASSUME NEW i \in VanishesIn(m) PROVE i \in VanishesIn(s) \/ (i = Len(s) + 1 /\ x.t = "vanish")
      <4>1. i \in 1..Len(s) \/ i = Len(s) + 1 BY <1>2 DEF VanishesIn
      <4> QED BY <1>2, <4>1 DEF VanishesIn
    <3>2. ASSUME NEW i \in VanishesIn(s) PROVE i \in VanishesIn(m)
      <4>1. i \in 1..Len(s) /\ i \in 1..(Len(s) + 1) BY <1>2 DEF VanishesIn
      <4> QED BY <1>2, <4>1 DEF VanishesIn
    <3>3. x.t = "vanish" => Len(s) + 1 \in VanishesIn(m) BY <1>2 DEF VanishesIn
    <3> QED BY <3>1, <3>2, <3>3
  <2>2. CASE x.t = "vanish" BY <2>1, <2>2
  <2>3. CASE x.t # "vanish" BY <2>1, <2>3
  <2> QED BY <2>2, <2>3
<1>5. IsFiniteSet(VanishesIn(s)) BY VanishesFinite
<1> QED BY <1>1, <1>3, <1>4, <1>5, FS_AddElement

\* History holds none.
LEMMA VanishesBehind ==
  ASSUME NEW s \in Seq(Frame), NEW h \in Seq(Frame), \A j \in DOMAIN h : h[j].t # "vanish"
  PROVE  VanishesIn(s \o h) = VanishesIn(s)
<1>1. PICK m \in Seq(Frame) : m = s \o h BY Laws
<1>2. /\ Len(m) = Len(s) + Len(h) /\ Len(s) \in Nat /\ Len(h) \in Nat
      /\ DOMAIN m = 1..Len(m) /\ DOMAIN s = 1..Len(s) /\ DOMAIN h = 1..Len(h)
      /\ \A i \in 1..(Len(s) + Len(h)) : m[i] = IF i <= Len(s) THEN s[i] ELSE h[i - Len(s)]
  BY <1>1, ConcatProperties
<1>3. ASSUME NEW i \in VanishesIn(m) PROVE i \in VanishesIn(s)
  <2>1. i \in 1..(Len(s) + Len(h)) /\ m[i].t = "vanish" BY <1>2 DEF VanishesIn
  <2>2. CASE i <= Len(s) BY <1>2, <2>1, <2>2 DEF VanishesIn
  <2>3. CASE ~(i <= Len(s))
    <3>1. i - Len(s) \in DOMAIN h /\ m[i] = h[i - Len(s)] BY <1>2, <2>1, <2>3
    <3> QED BY <2>1, <3>1
  <2> QED BY <2>2, <2>3
<1>4. ASSUME NEW i \in VanishesIn(s) PROVE i \in VanishesIn(m)
  <2>1. i \in 1..Len(s) /\ s[i].t = "vanish" BY <1>2 DEF VanishesIn
  <2>2. i \in 1..Len(m) /\ m[i] = s[i] BY <1>2, <2>1
  <2> QED BY <1>2, <2>1, <2>2 DEF VanishesIn
<1> QED BY <1>1, <1>3, <1>4

\* Due is a number.
LEMMA DueNat ==
  ASSUME SessionTypeOK, NEW c \in Clients
  PROVE  /\ IsFiniteSet(Telling(c)) /\ IsFiniteSet(Sending(c)) /\ IsFiniteSet(VanishesIn(inbox[c]))
         /\ Cardinality(Telling(c)) \in Nat /\ Cardinality(Sending(c)) \in Nat /\ Cardinality(VanishesIn(inbox[c])) \in Nat
         /\ Due(c) \in Nat
<1>1. IsFiniteSet(Telling(c)) /\ IsFiniteSet(Sending(c))
  <2>1. Telling(c) \subseteq Clients /\ Sending(c) \subseteq Clients BY DEF Telling, Sending
  <2> QED BY <2>1, ClientsAssumption, FS_Subset
<1>2. IsFiniteSet(VanishesIn(inbox[c])) /\ Cardinality(VanishesIn(inbox[c])) \in Nat BY VanishesFinite DEF SessionTypeOK
<1>3. Cardinality(Telling(c)) \in Nat /\ Cardinality(Sending(c)) \in Nat BY <1>1, FS_CardinalityType
<1> QED BY <1>1, <1>2, <1>3 DEF Due

\* Where a frame in an inbox comes from.
LEMMA Arrives ==
  ASSUME SessionTypeOK, SeatsInv, NEW c \in Clients, RelayStep(c) \/ Leave(c) \/ Reader(c) \/ Caller(c),
         NEW d \in Clients, NEW i \in DOMAIN inbox'[d]
  PROVE  \/ \E j \in DOMAIN inbox[d] : inbox'[d][i] = inbox[d][j]
         \/ inbox'[d][i].t \in {"welcome", "enc", "keyreq", "joined", "left"}
         \/ \E s \in Clients : d \in todo[s].to /\ inbox'[d][i] = todo[s].msg
         \/ DeliverKey(c) /\ d = rd[c].who /\ d \in Present /\ inbox'[d][i].t = "key" /\ inbox'[d][i].key = rd[c].key
<1> USE DEF relayVars, clientVars, countVars
<1>0. /\ inbox \in [Clients -> Seq(Frame)] /\ joinRes \in [Clients -> Seq(Clients)] /\ rd[c] \in RdStates BY DEF SessionTypeOK
<1>1. CASE Leave(c)
  <2>1. inbox' = [inbox EXCEPT ![c] = <<>>] BY <1>1 DEF Leave
  <2>2. CASE d = c
    <3>1. inbox'[d] = <<>> BY <1>0, <2>1, <2>2
    <3> QED BY <3>1
  <2>3. CASE d # c BY <1>0, <2>1, <2>3
  <2> QED BY <2>2, <2>3
<1>2. ASSUME NEW x \in Frame, NEW e \in Clients, Queued(e, <<x>>), inbox'[d][i] # x
      PROVE  \E j \in DOMAIN inbox[d] : inbox'[d][i] = inbox[d][j]
  <2>1. CASE d = e BY <1>2, <2>1, QueuedOneIs
  <2>2. CASE d # e BY <1>2, <2>2, QueuedOneIs
  <2> QED BY <2>1, <2>2
<1>3. CASE SendWelcome(c)
  <2>1. PICK m \in Frame : m = [t |-> "welcome", existing |-> joinRes[c]] BY <1>0, FrameShapes
  <2>2. Queued(c, <<m>>) /\ m.t = "welcome" BY <1>3, <2>1 DEF SendWelcome
  <2> QED BY <1>2, <2>2
<1>4. CASE Replay(c)
  <2>1. Queued(c, hist) BY <1>4 DEF Replay
  <2>2. hist \in Seq(Frame) /\ \A j \in DOMAIN hist : hist[j].t = "enc"
    <3>1. hist \in Seq(Enc) BY DEF SessionTypeOK
    <3>2. \A j \in DOMAIN hist : hist[j] \in Enc BY <3>1
    <3> QED BY <3>1, <3>2, FrameFacts, Laws
  <2>3. CASE d = c BY <2>1, <2>2, <2>3, QueuedIs
  <2>4. CASE d # c BY <2>1, <2>2, <2>4, QueuedIs
  <2> QED BY <2>3, <2>4
<1>5. CASE AskDistributor(c)
  <2>1. CASE joinRes[c] = <<>> \/ conn[Head(joinRes[c])] \in {"leaving", "gone"}
    <3>1. UNCHANGED inbox BY <1>5, <2>1 DEF AskDistributor
    <3> QED BY <3>1
  <2>2. CASE ~(joinRes[c] = <<>> \/ conn[Head(joinRes[c])] \in {"leaving", "gone"})
    <3>1. PICK e \in Clients : e = Head(joinRes[c]) BY <1>0, <2>2
    <3>2. PICK m \in Frame : m = [t |-> "keyreq", who |-> c] BY FrameShapes
    <3>3. Queued(e, <<m>>) /\ m.t = "keyreq" BY <1>5, <2>2, <3>1, <3>2 DEF AskDistributor
    <3> QED BY <1>2, <3>3
  <2> QED BY <2>1, <2>2
<1>6. ASSUME NEW e \in Clients, FanOut(c, e)
      PROVE  \/ \E j \in DOMAIN inbox[d] : inbox'[d][i] = inbox[d][j]
             \/ \E s \in Clients : d \in todo[s].to /\ inbox'[d][i] = todo[s].msg
  <2>1. e \in todo[c].to BY <1>6 DEF FanOut
  <2>2. PICK m \in Frame : m = todo[c].msg BY <2>1, TodoFacts
  <2>3. UNCHANGED inbox \/ Queued(e, <<m>>) BY <1>6, <2>2 DEF FanOut
  <2>4. CASE UNCHANGED inbox BY <2>4
  <2>5. CASE Queued(e, <<m>>)
    <3>1. CASE d # e BY <2>5, <3>1, QueuedOneIs
    <3>2. CASE d = e /\ inbox'[d][i] = m BY <2>1, <2>2, <3>2
    <3>3. CASE inbox'[d][i] # m BY <1>2, <2>5, <3>3
    <3> QED BY <3>1, <3>2, <3>3
  <2> QED BY <2>3, <2>4, <2>5
<1>7. CASE Join(c) \/ Announce(c) \/ Depart(c) \/ Store(c)
  <2>1. UNCHANGED inbox BY <1>7 DEF Join, Announce, Depart, Store
  <2> QED BY <2>1
<1>8. CASE DeliverKey(c)
  <2>1. rd[c].at = "wrap" BY <1>8 DEF DeliverKey
  <2>2. CASE rd[c].who \notin Present
    <3>1. UNCHANGED inbox BY <1>8, <2>2 DEF DeliverKey
    <3> QED BY <3>1
  <2>3. CASE rd[c].who \in Present
    <3>1. PICK e \in Clients : e = rd[c].who BY <1>0, <2>1, RdFacts
    <3>2. PICK m \in Frame : m = [t |-> "key", from |-> c, key |-> rd[c].key] BY <1>0, <2>1, RdFacts, FrameShapes
    <3>3. Queued(e, <<m>>) /\ m.t = "key" /\ m.key = rd[c].key BY <1>8, <2>3, <3>1, <3>2 DEF DeliverKey
    <3>4. CASE d # e BY <3>3, <3>4, QueuedOneIs
    <3>5. CASE d = e /\ inbox'[d][i] = m BY <1>8, <2>3, <3>1, <3>3, <3>5
    <3>6. CASE inbox'[d][i] # m BY <1>2, <3>3, <3>6
    <3> QED BY <3>4, <3>5, <3>6
  <2> QED BY <2>2, <2>3
<1>9. CASE (Reader(c) \/ Caller(c)) /\ ~DeliverKey(c)
  <2>1. (Taken(c) /\ \E t : Take(c, t)) \/ UNCHANGED inbox
    BY <1>9 DEF Reader, Caller, OnWelcome, OnMemberJoined, OnMemberLeft, OnKeyRequest, OnKeyDeliver, OnEncrypted,
     ReplayNext, OpenMessage, RecordPeer, OnControl, OnControlReset, StartSend, SealAndSend, RecordOwn, Vanish, VanishTell
  <2>2. CASE UNCHANGED inbox BY <2>2
  <2>3. CASE Taken(c) /\ \E t : Take(c, t)
    <3>1. inbox[c] # <<>> BY <2>3, TakeIs
    <3>2. CASE d = c BY <2>3, <3>1, <3>2, TakenIs
    <3>3. CASE d # c BY <2>3, <3>1, <3>3, TakenIs
    <3> QED BY <3>2, <3>3
  <2> QED BY <2>1, <2>2, <2>3
<1> QED BY <1>1, <1>3, <1>4, <1>5, <1>6, <1>7, <1>8, <1>9 DEF RelayStep

\* Whose /vanish is on its way.
LEMMA Tells ==
  ASSUME SessionTypeOK, NEW c \in Clients, RelayStep(c) \/ Leave(c) \/ Reader(c) \/ Caller(c), NEW s \in Clients
  PROVE  /\ (todo'[s].to # {} /\ todo'[s].msg.t = "vanish") =>
              \/ todo[s].to # {} /\ todo[s].msg.t = "vanish"
              \/ s = c /\ VanishTell(c)
         /\ ui'[s].at = "vanish" => ui[s].at = "vanish" \/ (s = c /\ Vanish(c))
<1> USE DEF relayVars, clientVars, countVars
<1>0. /\ todo \in [Clients -> {NoSends} \cup [to : SUBSET Clients, msg : Frame]] /\ ui \in [Clients -> UiStates]
      /\ Idle.at = "idle"
  BY UiFacts DEF SessionTypeOK
<1>1. ASSUME NEW m, Broadcast(c, m), m.t # "vanish" \/ VanishTell(c)
      PROVE  (todo'[s].to # {} /\ todo'[s].msg.t = "vanish") =>
              \/ todo[s].to # {} /\ todo[s].msg.t = "vanish"
              \/ s = c /\ VanishTell(c)
  <2>1. PICK y : y = Sends(Present \ {c}, m) OBVIOUS
  <2>2. y.to # {} => y.msg = m BY <2>1 DEF Sends, NoSends
  <2>3. todo'[c] = y /\ \A e \in Clients : e # c => todo'[e] = todo[e] BY <1>0, <1>1, <2>1 DEF Broadcast
  <2> QED BY <1>1, <2>2, <2>3
<1>2. CASE RelayStep(c)
  <2>1. UNCHANGED ui BY <1>2, RelayKeys
  <2>2. CASE Join(c) \/ SendWelcome(c) \/ Replay(c) \/ AskDistributor(c)
    <3>1. UNCHANGED todo BY <2>2 DEF Join, SendWelcome, Replay, AskDistributor
    <3> QED BY <2>1, <3>1
  <2>3. CASE Announce(c)
    <3>1. PICK m : m = [t |-> "joined", who |-> c] OBVIOUS
    <3>2. Broadcast(c, m) /\ m.t = "joined" BY <2>3, <3>1 DEF Announce
    <3> QED BY <1>1, <2>1, <3>2
  <2>4. CASE Depart(c)
    <3>1. PICK m : m = [t |-> "left", who |-> c] OBVIOUS
    <3>2. Broadcast(c, m) /\ m.t = "left" BY <2>4, <3>1 DEF Depart
    <3> QED BY <1>1, <2>1, <3>2
  <2>5. CASE Store(c)
    <3>1. todo'[s] = NoSends \/ todo'[s] = todo[s] BY <1>0, <2>5 DEF Store
    <3> QED BY <2>1, <3>1 DEF NoSends
  <2>6. ASSUME NEW e \in Clients, FanOut(c, e)
        PROVE  (todo'[s].to # {} /\ todo'[s].msg.t = "vanish") => todo[s].to # {} /\ todo[s].msg.t = "vanish"
    <3>1. PICK y : y = Sends(todo[c].to \ {e}, todo[c].msg) OBVIOUS
    <3>2. y.to # {} => y.to \subseteq todo[c].to /\ y.msg = todo[c].msg BY <3>1 DEF Sends, NoSends
    <3>3. todo'[c] = y /\ \A q \in Clients : q # c => todo'[q] = todo[q] BY <1>0, <2>6, <3>1 DEF FanOut
    <3> QED BY <3>2, <3>3
  <2> QED BY <1>2, <2>1, <2>2, <2>3, <2>4, <2>5, <2>6 DEF RelayStep
<1>3. CASE Leave(c)
  <2>1. UNCHANGED todo /\ ui' = [ui EXCEPT ![c] = Idle] BY <1>3 DEF Leave
  <2> QED BY <1>0, <2>1
<1>4. CASE Reader(c)
  <2>1. UNCHANGED todo /\ (UNCHANGED ui \/ ui' = ZeroHeld(ui, c))
    BY <1>4 DEF Reader, OnWelcome, OnMemberJoined, OnMemberLeft, OnKeyRequest, DeliverKey, OnKeyDeliver, OnEncrypted,
       HandleEncrypted, ReplayNext, OpenMessage, RecordPeer, OnControl, OnControlReset
  <2>2. ui'[s].at = ui[s].at BY <1>0, <2>1, WipeUi
  <2> QED BY <2>1, <2>2
<1>5. ASSUME NEW op \in {"message", "ack", "handoff"}, NEW d \in Clients, StartSend(c, op, d)
      PROVE  UNCHANGED todo /\ (ui'[s].at = "vanish" => ui[s].at = "vanish")
  <2>1. UNCHANGED todo /\ ui' = [ui EXCEPT ![c] = [at |-> "seal", op |-> op, arg |-> d, key |-> rk[c]]] BY <1>5 DEF StartSend
  <2> QED BY <1>0, <2>1
<1>6. CASE SealAndSend(c)
  <2>1. PICK m : m = [t |-> "enc", op |-> ui[c].op, from |-> c, key |-> ui[c].key, n |-> sent[c], arg |-> ui[c].arg] OBVIOUS
  <2>2. Broadcast(c, m) /\ m.t = "enc" /\ m.op = ui[c].op /\ ui[c].at = "seal" BY <1>6, <2>1 DEF SealAndSend
  <2>3. ui' = [ui EXCEPT ![c] = IF m.op = "message" THEN Idle ELSE [at |-> m.op, arg |-> m.arg, epoch |-> m.key.epoch]]
    BY <1>6, <2>1 DEF SealAndSend
  <2>4. m.op \in {"message", "ack", "handoff"} BY <1>0, <2>2, UiFacts
  <2>5. ui'[s].at = "vanish" => ui[s].at = "vanish" BY <1>0, <2>3, <2>4
  <2> QED BY <1>1, <2>2, <2>5
<1>7. CASE RecordOwn(c)
  <2>1. UNCHANGED todo /\ ui' = [ui EXCEPT ![c] = Idle] BY <1>7 DEF RecordOwn
  <2> QED BY <1>0, <2>1
<1>8. CASE Vanish(c)
  <2>1. UNCHANGED todo /\ ui' = [ui EXCEPT ![c] = [at |-> "vanish"]] BY <1>8 DEF Vanish
  <2> QED BY <1>0, <1>8, <2>1
<1>9. CASE VanishTell(c)
  <2>1. Broadcast(c, [t |-> "vanish", from |-> c]) /\ ui' = [ui EXCEPT ![c] = Idle] BY <1>9 DEF VanishTell
  <2>2. ui'[s].at = "vanish" => ui[s].at = "vanish" BY <1>0, <2>1
  <2> QED BY <1>1, <1>9, <2>1, <2>2
<1> QED BY <1>2, <1>3, <1>4, <1>5, <1>6, <1>7, <1>8, <1>9 DEF Caller

\* A frame that fits is one more in its inbox and changes no other.
LEMMA QueuedVanishes ==
  ASSUME SessionTypeOK, NEW d \in Clients, NEW x \in Frame, Queued(d, <<x>>), ~Overflows(d, <<x>>), NEW e \in Clients
  PROVE  Cardinality(VanishesIn(inbox'[e])) = Cardinality(VanishesIn(inbox[e])) + (IF e = d /\ x.t = "vanish" THEN 1 ELSE 0)
<1>0. Cardinality(VanishesIn(inbox[e])) \in Nat BY DueNat
<1>1. inbox[d] \in Seq(Frame) BY DEF SessionTypeOK
<1>2. CASE e = d
  <2>1. inbox'[d] = Append(inbox[d], x) BY QueuedOneIs
  <2> QED BY <1>0, <1>1, <1>2, <2>1, VanishesAppended
<1>3. CASE e # d
  <2>1. inbox'[e] = inbox[e] BY <1>3, QueuedOneIs
  <2> QED BY <1>0, <1>3, <2>1
<1> QED BY <1>2, <1>3

\* Nothing about vanishes changes for e.
LEMMA DueSame ==
  ASSUME SessionTypeOK, NEW e \in Clients, \A d \in Clients : d # e => (ui'[d].at = "vanish" <=> ui[d].at = "vanish"),
         \A s \in Clients : (e \in todo'[s].to /\ todo'[s].msg.t = "vanish") <=> (e \in todo[s].to /\ todo[s].msg.t = "vanish"),
         Cardinality(VanishesIn(inbox'[e])) = Cardinality(VanishesIn(inbox[e]))
  PROVE  Due(e)' = Due(e)
<1>1. Telling(e)' = Telling(e) BY DEF Telling
<1>2. Sending(e)' = Sending(e) BY DEF Sending
<1> QED BY <1>1, <1>2 DEF Due

\* The relay moves a vanish from a broadcast to an inbox, and loses none unless a buffer is full.
LEMMA DueRelay ==
  ASSUME SessionTypeOK, SeatsInv, NEW c \in Clients, RelayStep(c), ~raced', NEW e \in Clients, e \in Present
  PROVE  Due(e)' = Due(e)
<1> USE DEF relayVars, clientVars, countVars
<1>0. /\ todo \in [Clients -> {NoSends} \cup [to : SUBSET Clients, msg : Frame]] /\ joinRes \in [Clients -> Seq(Clients)]
      /\ UNCHANGED ui /\ \A s \in Clients : todo[s].to \subseteq Clients
  BY RelayKeys, TodoFacts DEF SessionTypeOK
<1>1. ASSUME NEW m, Broadcast(c, m), m.t # "vanish", UNCHANGED inbox PROVE Due(e)' = Due(e)
  <2>1. PICK y : y = Sends(Present \ {c}, m) OBVIOUS
  <2>2. y.to # {} => y.msg = m BY <2>1 DEF Sends, NoSends
  <2>3. todo'[c] = y /\ todo[c] = NoSends /\ \A s \in Clients : s # c => todo'[s] = todo[s]
    BY <1>0, <1>1, <2>1 DEF Broadcast
  <2>4. todo[c].to = {} BY <2>3 DEF NoSends
  <2>5. \A s \in Clients : (e \in todo'[s].to /\ todo'[s].msg.t = "vanish") <=> (e \in todo[s].to /\ todo[s].msg.t = "vanish")
    BY <1>1, <2>2, <2>3, <2>4
  <2> QED BY <1>0, <1>1, <2>5, DueSame
<1>2. CASE Join(c)
  <2>1. UNCHANGED <<todo, inbox>> BY <1>2 DEF Join
  <2> QED BY <1>0, <2>1, DueSame
<1>3. CASE SendWelcome(c)
  <2>1. PICK m \in Frame : m = [t |-> "welcome", existing |-> joinRes[c]] BY <1>0, FrameShapes
  <2>2. Queued(c, <<m>>) /\ m.t = "welcome" /\ UNCHANGED todo BY <1>3, <2>1 DEF SendWelcome
  <2>3. ~Overflows(c, <<m>>) BY <1>3 DEF SendWelcome, Overflows
  <2>4. Cardinality(VanishesIn(inbox'[e])) = Cardinality(VanishesIn(inbox[e])) BY <2>2, <2>3, QueuedVanishes, DueNat
  <2> QED BY <1>0, <2>2, <2>4, DueSame
<1>4. CASE Replay(c)
  <2>1. Queued(c, hist) /\ UNCHANGED todo /\ ~Overflows(c, hist) BY <1>4 DEF Replay
  <2>2. hist \in Seq(Frame) /\ \A j \in DOMAIN hist : hist[j].t # "vanish"
    <3>1. hist \in Seq(Enc) BY DEF SessionTypeOK
    <3>2. \A j \in DOMAIN hist : hist[j] \in Enc BY <3>1
    <3> QED BY <3>1, <3>2, FrameFacts, Laws
  <2>3. inbox'[c] = inbox[c] \o hist /\ \A d \in Clients : d # c => inbox'[d] = inbox[d] BY <2>1, <2>2, QueuedIs
  <2>4. VanishesIn(inbox'[e]) = VanishesIn(inbox[e])
    <3>1. inbox[c] \in Seq(Frame) BY DEF SessionTypeOK
    <3>2. VanishesIn(inbox[c] \o hist) = VanishesIn(inbox[c]) BY <2>2, <3>1, VanishesBehind
    <3> QED BY <2>3, <3>2
  <2> QED BY <1>0, <2>1, <2>4, DueSame
<1>5. CASE Announce(c)
  <2>1. PICK m : m = [t |-> "joined", who |-> c] OBVIOUS
  <2>2. Broadcast(c, m) /\ m.t = "joined" /\ UNCHANGED inbox BY <1>5, <2>1 DEF Announce
  <2> QED BY <1>1, <2>2
<1>6. CASE AskDistributor(c)
  <2>0. UNCHANGED todo BY <1>6 DEF AskDistributor
  <2>1. CASE joinRes[c] = <<>> \/ conn[Head(joinRes[c])] \in {"leaving", "gone"}
    <3>1. UNCHANGED inbox BY <1>6, <2>1 DEF AskDistributor
    <3> QED BY <1>0, <2>0, <3>1, DueSame
  <2>2. CASE ~(joinRes[c] = <<>> \/ conn[Head(joinRes[c])] \in {"leaving", "gone"})
    <3>1. PICK d \in Clients : d = Head(joinRes[c]) BY <1>0, <2>2
    <3>2. PICK m \in Frame : m = [t |-> "keyreq", who |-> c] BY FrameShapes
    <3>3. Queued(d, <<m>>) /\ m.t = "keyreq" BY <1>6, <2>2, <3>1, <3>2 DEF AskDistributor
    <3>4. ~Overflows(d, <<m>>) BY <1>6, <2>2, <3>1 DEF AskDistributor, Overflows
    <3>5. Cardinality(VanishesIn(inbox'[e])) = Cardinality(VanishesIn(inbox[e])) BY <3>3, <3>4, QueuedVanishes, DueNat
    <3> QED BY <1>0, <2>0, <3>5, DueSame
  <2> QED BY <2>1, <2>2
<1>7. CASE Depart(c)
  <2>1. PICK m : m = [t |-> "left", who |-> c] OBVIOUS
  <2>2. Broadcast(c, m) /\ m.t = "left" /\ UNCHANGED inbox BY <1>7, <2>1 DEF Depart
  <2> QED BY <1>1, <2>2
<1>8. CASE Store(c)
  <2>1. todo[c].to = {} /\ UNCHANGED inbox /\ todo' = [todo EXCEPT ![c] = NoSends] BY <1>8 DEF Store
  <2>2. \A s \in Clients : (e \in todo'[s].to /\ todo'[s].msg.t = "vanish") <=> (e \in todo[s].to /\ todo[s].msg.t = "vanish")
    BY <1>0, <2>1 DEF NoSends
  <2> QED BY <1>0, <2>1, <2>2, DueSame
<1>9. ASSUME NEW d \in Clients, FanOut(c, d) PROVE Due(e)' = Due(e)
  <2>1. d \in todo[c].to BY <1>9 DEF FanOut
  <2>2. PICK m \in Frame : m = todo[c].msg BY <2>1, TodoFacts
  <2>3. PICK y : y = Sends(todo[c].to \ {d}, m) OBVIOUS
  <2>4. \/ y.to = todo[c].to \ {d} /\ y.msg = m
        \/ y.to = {} /\ todo[c].to \ {d} = {}
    BY <2>3 DEF Sends, NoSends
  <2>5. todo'[c] = y /\ \A q \in Clients : q # c => todo'[q] = todo[q] BY <1>0, <1>9, <2>2, <2>3 DEF FanOut
  <2>6. CASE e # d
    <3>1. \A s \in Clients : (e \in todo'[s].to /\ todo'[s].msg.t = "vanish") <=> (e \in todo[s].to /\ todo[s].msg.t = "vanish")
      BY <2>2, <2>4, <2>5, <2>6
    <3>2. inbox'[e] = inbox[e]
      <4>1. UNCHANGED inbox \/ Queued(d, <<m>>) BY <1>9, <2>2 DEF FanOut
      <4> QED BY <2>6, <4>1, QueuedOneIs
    <3> QED BY <1>0, <3>1, <3>2, DueSame
  <2>7. CASE e = d
    <3>1. conn[d] \notin {"leaving", "gone"} BY <2>7 DEF SeatsInv, Roster, Serving
    <3>2. Queued(d, <<m>>) /\ ~Overflows(d, <<m>>) BY <1>9, <2>2, <3>1 DEF FanOut
    <3>3. Cardinality(VanishesIn(inbox'[e])) = Cardinality(VanishesIn(inbox[e])) + (IF m.t = "vanish" THEN 1 ELSE 0)
      BY <2>7, <3>2, QueuedVanishes
    <3>4. Sending(e)' = IF m.t = "vanish" THEN Sending(e) \ {c} ELSE Sending(e)
      <4>1. d \notin y.to BY <2>4
      <4>2. ASSUME NEW s \in Clients PROVE s \in Sending(e)' <=> s \in Sending(e) /\ (m.t = "vanish" => s # c)
        <5>1. CASE s = c BY <2>2, <2>5, <2>7, <4>1, <5>1 DEF Sending
        <5>2. CASE s # c BY <2>5, <5>2 DEF Sending
        <5> QED BY <5>1, <5>2
      <4>3. Sending(e) \subseteq Clients /\ Sending(e)' \subseteq Clients BY DEF Sending
      <4>4. CASE m.t = "vanish" BY <4>2, <4>3, <4>4
      <4>5. CASE m.t # "vanish" BY <4>2, <4>3, <4>5
      <4> QED BY <4>4, <4>5
    <3>5. m.t = "vanish" => c \in Sending(e) BY <2>1, <2>2, <2>7 DEF Sending
    <3>6. Cardinality(Sending(e)') = Cardinality(Sending(e)) - (IF m.t = "vanish" THEN 1 ELSE 0)
      <4>1. IsFiniteSet(Sending(e)) /\ Cardinality(Sending(e)) \in Nat BY DueNat
      <4>2. CASE m.t = "vanish"
        <5>1. Sending(e)' = Sending(e) \ {c} /\ c \in Sending(e) BY <3>4, <3>5, <4>2
        <5> QED BY <4>1, <4>2, <5>1, FS_RemoveElement
      <4>3. CASE m.t # "vanish" BY <3>4, <4>1, <4>3
      <4> QED BY <4>2, <4>3
    <3>7. Telling(e)' = Telling(e) BY <1>0 DEF Telling
    <3>8. /\ Cardinality(Telling(e)) \in Nat /\ Cardinality(Sending(e)) \in Nat /\ Cardinality(VanishesIn(inbox[e])) \in Nat
      BY DueNat
    <3>9. Due(e)' = Cardinality(Telling(e)) + Cardinality(Sending(e)') + Cardinality(VanishesIn(inbox'[e])) BY <3>7 DEF Due
    <3> QED BY <3>3, <3>6, <3>8, <3>9 DEF Due
  <2> QED BY <2>6, <2>7
<1> QED BY <1>2, <1>3, <1>4, <1>5, <1>6, <1>7, <1>8, <1>9 DEF RelayStep

\* Only onControl takes a vanish, one at a time.
LEMMA DueReader ==
  ASSUME SessionTypeOK, SeatsInv, NEW c \in Clients, Reader(c), ~raced', NEW e \in Clients
  PROVE  /\ ~(OnControl(c) /\ e = c) => Due(e)' = Due(e)
         /\ (OnControl(c) /\ e = c) => Due(e) # 0 /\ Due(e)' = Due(e) - 1
<1> USE DEF relayVars, clientVars, countVars
<1>0. ui \in [Clients -> UiStates] /\ rd[c] \in RdStates /\ inbox[c] \in Seq(Frame) BY DEF SessionTypeOK
<1>1. UNCHANGED todo /\ (UNCHANGED ui \/ ui' = ZeroHeld(ui, c))
    BY DEF Reader, OnWelcome, OnMemberJoined, OnMemberLeft, OnKeyRequest, DeliverKey, OnKeyDeliver, OnEncrypted,
       HandleEncrypted, ReplayNext, OpenMessage, RecordPeer, OnControl, OnControlReset
<1>2. \A s \in Clients : ui'[s].at = ui[s].at BY <1>1, WipeUi
<1>3. ASSUME Cardinality(VanishesIn(inbox'[e])) = Cardinality(VanishesIn(inbox[e])) PROVE Due(e)' = Due(e)
  BY <1>1, <1>2, <1>3, DueSame
<1>4. ASSUME NEW t, Take(c, t), Taken(c)
      PROVE  Cardinality(VanishesIn(inbox'[e])) = Cardinality(VanishesIn(inbox[e])) - (IF e = c /\ t = "vanish" THEN 1 ELSE 0)
  <2>0. Cardinality(VanishesIn(inbox[e])) \in Nat BY DueNat
  <2>1. inbox[c] # <<>> /\ inbox[c][1].t = t BY <1>4, TakeIs
  <2>2. inbox'[c] = Tail(inbox[c]) /\ \A d \in Clients : d # c => inbox'[d] = inbox[d] BY <1>4, <2>1, TakenIs
  <2>3. CASE e = c BY <1>0, <2>0, <2>1, <2>2, <2>3, VanishesTaken
  <2>4. CASE e # c BY <2>0, <2>2, <2>4
  <2> QED BY <2>3, <2>4
<1>5. CASE OnControl(c)
  <2>0. Take(c, "vanish") /\ Taken(c) BY <1>5 DEF OnControl
  <2>1. Cardinality(VanishesIn(inbox'[e])) = Cardinality(VanishesIn(inbox[e])) - (IF e = c THEN 1 ELSE 0) BY <1>4, <2>0
  <2>2. CASE e # c BY <1>3, <2>1, <2>2, DueNat
  <2>3. CASE e = c
    <3>1. Telling(e)' = Telling(e) /\ Sending(e)' = Sending(e) BY <1>1, <1>2 DEF Telling, Sending
    <3>2. VanishesIn(inbox[c]) # {} 
      <4>1. inbox[c] # <<>> /\ inbox[c][1].t = "vanish" /\ 1 \in DOMAIN inbox[c] BY <2>0, TakeIs, TakenIs
      <4> QED BY <4>1 DEF VanishesIn
    <3>3. Cardinality(VanishesIn(inbox[e])) # 0 BY <2>3, <3>2, FS_EmptySet, DueNat
    <3>4. /\ Cardinality(Telling(e)) \in Nat /\ Cardinality(Sending(e)) \in Nat /\ Cardinality(VanishesIn(inbox[e])) \in Nat
      BY DueNat
    <3>5. Due(e)' = Cardinality(Telling(e)) + Cardinality(Sending(e)) + Cardinality(VanishesIn(inbox'[e])) BY <3>1 DEF Due
    <3> QED BY <1>5, <2>1, <2>3, <3>3, <3>4, <3>5 DEF Due
  <2> QED BY <2>2, <2>3
<1>6. CASE DeliverKey(c)
  <2>1. rd[c].at = "wrap" /\ ~OnControl(c)
    <3>1. rd[c].at = "wrap" BY <1>6 DEF DeliverKey
    <3> QED BY <3>1, RdFacts DEF OnControl, Take
  <2>2. CASE rd[c].who \notin Present
    <3>1. UNCHANGED inbox BY <1>6, <2>2 DEF DeliverKey
    <3> QED BY <1>3, <2>1, <3>1
  <2>3. CASE rd[c].who \in Present
    <3>1. PICK d \in Clients : d = rd[c].who BY <1>0, <2>1, RdFacts
    <3>2. PICK m \in Frame : m = [t |-> "key", from |-> c, key |-> rd[c].key] BY <1>0, <2>1, RdFacts, FrameShapes
    <3>3. Queued(d, <<m>>) /\ m.t = "key" /\ ~Overflows(d, <<m>>) BY <1>6, <2>3, <3>1, <3>2 DEF DeliverKey
    <3>4. Cardinality(VanishesIn(inbox'[e])) = Cardinality(VanishesIn(inbox[e])) BY <3>3, QueuedVanishes, DueNat
    <3> QED BY <1>3, <2>1, <3>4
  <2> QED BY <2>2, <2>3
<1>7. CASE ~OnControl(c) /\ ~DeliverKey(c)
  <2>1. \/ \E t \in {"welcome", "joined", "left", "keyreq", "key", "enc"} : Take(c, t) /\ Taken(c)
        \/ UNCHANGED inbox
    BY <1>7 DEF Reader, OnWelcome, OnMemberJoined, OnMemberLeft, OnKeyRequest, OnKeyDeliver, OnEncrypted,
       HandleEncrypted, ReplayNext, OpenMessage, RecordPeer, OnControlReset
  <2>2. CASE UNCHANGED inbox BY <1>3, <1>7, <2>2
  <2>3. ASSUME NEW t \in {"welcome", "joined", "left", "keyreq", "key", "enc"}, Take(c, t), Taken(c) PROVE Due(e)' = Due(e)
    BY <1>3, <1>4, <2>3, DueNat
  <2> QED BY <1>7, <2>1, <2>2, <2>3
<1> QED BY <1>5, <1>6, <1>7

\* /vanish makes everybody else owe one more; telling them moves it to the relay.
LEMMA DueCaller ==
  ASSUME SessionTypeOK, SeatsInv, NEW c \in Clients, Caller(c), NEW e \in Clients, e \in Present
  PROVE  /\ (~Vanish(c) \/ e = c) => Due(e)' = Due(e)
         /\ (Vanish(c) /\ e # c) => Due(e)' = Due(e) + 1
<1> USE DEF relayVars, clientVars, countVars
<1>0. /\ ui \in [Clients -> UiStates] /\ todo \in [Clients -> {NoSends} \cup [to : SUBSET Clients, msg : Frame]]
      /\ Idle.at = "idle"
  BY UiFacts DEF SessionTypeOK
<1>1. UNCHANGED inbox BY DEF Caller, StartSend, SealAndSend, RecordOwn, Vanish, VanishTell
<1>2. CASE Vanish(c)
  <2>1. UNCHANGED todo /\ ui' = [ui EXCEPT ![c] = [at |-> "vanish"]] /\ ui[c].at = "idle" BY <1>0, <1>2 DEF Vanish
  <2>2. ui'[c].at = "vanish" /\ \A d \in Clients : d # c => ui'[d] = ui[d] BY <1>0, <2>1
  <2>3. CASE e = c
    <3>1. Due(e)' = Due(e) BY <1>1, <2>1, <2>2, <2>3, DueSame
    <3> QED BY <2>3, <3>1
  <2>4. CASE e # c
    <3>1. Telling(e)' = Telling(e) \cup {c} /\ c \notin Telling(e)
      <4>1. c \in Telling(e)' /\ c \notin Telling(e) BY <2>1, <2>2, <2>4 DEF Telling
      <4>2. \A d \in Clients : d # c => (d \in Telling(e)' <=> d \in Telling(e)) BY <2>2 DEF Telling
      <4>3. Telling(e)' \subseteq Clients /\ Telling(e) \subseteq Clients BY DEF Telling
      <4> QED BY <4>1, <4>2, <4>3
    <3>2. Cardinality(Telling(e)') = Cardinality(Telling(e)) + 1 BY <3>1, DueNat, FS_AddElement
    <3>3. Sending(e)' = Sending(e) BY <2>1 DEF Sending
    <3>4. /\ Cardinality(Telling(e)) \in Nat /\ Cardinality(Sending(e)) \in Nat /\ Cardinality(VanishesIn(inbox[e])) \in Nat
      BY DueNat
    <3>5. Due(e)' = Cardinality(Telling(e)') + Cardinality(Sending(e)) + Cardinality(VanishesIn(inbox[e])) BY <1>1, <3>3 DEF Due
    <3>6. Due(e)' = Due(e) + 1 BY <3>2, <3>4, <3>5 DEF Due
    <3> QED BY <1>2, <2>4, <3>6
  <2> QED BY <2>3, <2>4
<1>3. CASE VanishTell(c) /\ ~Vanish(c)
  <2>1. /\ ui[c].at = "vanish" /\ ui' = [ui EXCEPT ![c] = Idle] /\ Broadcast(c, [t |-> "vanish", from |-> c])
    BY <1>3 DEF VanishTell
  <2>2. ui'[c].at = "idle" /\ \A d \in Clients : d # c => ui'[d] = ui[d] BY <1>0, <2>1
  <2>3. PICK m : m = [t |-> "vanish", from |-> c] OBVIOUS
  <2>4. PICK y : y = Sends(Present \ {c}, m) OBVIOUS
  <2>5. \/ y.to = Present \ {c} /\ y.msg = m
        \/ y.to = {} /\ Present \ {c} = {}
    BY <2>4 DEF Sends, NoSends
  <2>6. todo'[c] = y /\ todo[c].to = {} /\ m.t = "vanish" /\ \A q \in Clients : q # c => todo'[q] = todo[q]
    BY <1>0, <2>1, <2>3, <2>4 DEF Broadcast, NoSends
  <2>7. CASE e = c
    <3>1. e \notin y.to BY <2>5, <2>7
    <3>2. \A s \in Clients : (e \in todo'[s].to /\ todo'[s].msg.t = "vanish") <=> (e \in todo[s].to /\ todo[s].msg.t = "vanish")
      BY <2>6, <3>1
    <3> QED BY <1>1, <1>3, <2>2, <2>7, <3>2, DueSame
  <2>8. CASE e # c
    <3>1. Telling(e)' = Telling(e) \ {c} /\ c \in Telling(e)
      <4>1. c \notin Telling(e)' /\ c \in Telling(e) BY <2>1, <2>2, <2>8 DEF Telling
      <4>2. \A d \in Clients : d # c => (d \in Telling(e)' <=> d \in Telling(e)) BY <2>2 DEF Telling
      <4>3. Telling(e)' \subseteq Clients /\ Telling(e) \subseteq Clients BY DEF Telling
      <4> QED BY <4>1, <4>2, <4>3
    <3>2. Sending(e)' = Sending(e) \cup {c} /\ c \notin Sending(e)
      <4>1. c \in Sending(e)' /\ c \notin Sending(e) BY <2>5, <2>6, <2>8 DEF Sending
      <4>2. \A d \in Clients : d # c => (d \in Sending(e)' <=> d \in Sending(e)) BY <2>6 DEF Sending
      <4>3. Sending(e)' \subseteq Clients /\ Sending(e) \subseteq Clients BY DEF Sending
      <4> QED BY <4>1, <4>2, <4>3
    <3>3. Cardinality(Telling(e)') = Cardinality(Telling(e)) - 1 BY <3>1, DueNat, FS_RemoveElement
    <3>4. Cardinality(Sending(e)') = Cardinality(Sending(e)) + 1 BY <3>2, DueNat, FS_AddElement
    <3>5. /\ Cardinality(Telling(e)) \in Nat /\ Cardinality(Sending(e)) \in Nat /\ Cardinality(VanishesIn(inbox[e])) \in Nat
      BY DueNat
    <3>6. Due(e)' = Cardinality(Telling(e)') + Cardinality(Sending(e)') + Cardinality(VanishesIn(inbox[e])) BY <1>1 DEF Due
    <3> QED BY <1>3, <2>8, <3>3, <3>4, <3>5, <3>6 DEF Due
  <2> QED BY <2>7, <2>8
<1>4. CASE ~Vanish(c) /\ ~VanishTell(c)
  <2>1. \A s \in Clients : ui'[s].at = "vanish" <=> ui[s].at = "vanish"
    <3>1. \A s \in Clients : ui'[s].at = "vanish" => ui[s].at = "vanish" BY <1>4, Tells
    <3>2. \A s \in Clients : s # c => ui'[s] = ui[s] BY Local
    <3>3. ui[c].at # "vanish" BY <1>0, <1>4 DEF Caller, StartSend, SealAndSend, RecordOwn
    <3> QED BY <3>1, <3>2, <3>3
  <2>2. \A s \in Clients : (e \in todo'[s].to /\ todo'[s].msg.t = "vanish") <=> (e \in todo[s].to /\ todo[s].msg.t = "vanish")
    <3>1. \A s \in Clients : s # c => todo'[s] = todo[s] BY Local
    <3>2. UNCHANGED todo \/ SealAndSend(c) BY <1>4 DEF Caller, StartSend, RecordOwn
    <3>3. SealAndSend(c) => todo[c].to = {} BY DEF SealAndSend, Broadcast, NoSends
    <3>4. ~(todo[c].to # {} /\ todo[c].msg.t = "vanish") => ~(todo'[c].to # {} /\ todo'[c].msg.t = "vanish") BY <1>4, Tells
    <3> QED BY <3>1, <3>2, <3>3, <3>4
  <2> QED BY <1>1, <1>4, <2>1, <2>2, DueSame
<1> QED BY <1>2, <1>3, <1>4

\* A caller cut off before it told anybody takes one away from everybody.
LEMMA DueLeave ==
  ASSUME SessionTypeOK, NEW c \in Clients, Leave(c), NEW e \in Clients, e # c
  PROVE  Due(e) = Due(e)' + (IF ui[c].at = "vanish" THEN 1 ELSE 0) /\ Due(e)' \in Nat
<1>0. /\ ui \in [Clients -> UiStates] /\ Idle.at = "idle" /\ inbox \in [Clients -> Seq(Frame)] BY UiFacts DEF SessionTypeOK
<1>1. UNCHANGED todo /\ ui' = [ui EXCEPT ![c] = Idle] /\ inbox' = [inbox EXCEPT ![c] = <<>>] BY DEF Leave
<1>2. ui'[c].at = "idle" /\ \A d \in Clients : d # c => ui'[d] = ui[d] BY <1>0, <1>1
<1>3. inbox'[e] = inbox[e] BY <1>0, <1>1
<1>4. CASE ui[c].at # "vanish"
  <2>1. Due(e)' = Due(e) BY <1>1, <1>2, <1>3, <1>4, DueSame
  <2> QED BY <1>4, <2>1, DueNat
<1>5. CASE ui[c].at = "vanish"
  <2>1. Telling(e)' = Telling(e) \ {c} /\ c \in Telling(e)
    <3>1. c \notin Telling(e)' /\ c \in Telling(e) BY <1>2, <1>5 DEF Telling
    <3>2. \A d \in Clients : d # c => (d \in Telling(e)' <=> d \in Telling(e)) BY <1>2 DEF Telling
    <3>3. Telling(e)' \subseteq Clients /\ Telling(e) \subseteq Clients BY DEF Telling
    <3> QED BY <3>1, <3>2, <3>3
  <2>2. Cardinality(Telling(e)') = Cardinality(Telling(e)) - 1 BY <2>1, DueNat, FS_RemoveElement
  <2>3. Sending(e)' = Sending(e) BY <1>1 DEF Sending
  <2>4. /\ Cardinality(Telling(e)) \in Nat /\ Cardinality(Sending(e)) \in Nat /\ Cardinality(VanishesIn(inbox[e])) \in Nat
    BY DueNat
  <2>5. Cardinality(Telling(e)) # 0 BY <2>1, DueNat, FS_EmptySet
  <2>6. Due(e)' = Cardinality(Telling(e)') + Cardinality(Sending(e)) + Cardinality(VanishesIn(inbox[e])) BY <1>3, <2>3 DEF Due
  <2> QED BY <1>5, <2>2, <2>4, <2>5, <2>6 DEF Due
<1> QED BY <1>4, <1>5

\* Somebody waits for a key.
Waiting == \E d \in Present : rk[d] = NoKey
\* No vanish is under way to anybody.
Calm == \A d \in Clients : /\ ui[d].at # "vanish" /\ ~(todo[d].to # {} /\ todo[d].msg.t = "vanish")
                           /\ \A i \in DOMAIN inbox[d] : inbox[d][i].t # "vanish"
\* A member with a key.
Holder(c) == c \in Present /\ rk[c] # NoKey
\* A key on its way to a member.
KeyFrame(d, i) == d \in Present /\ i \in DOMAIN inbox[d] /\ inbox[d][i].t = "key"
\* A member that found the room empty and has yet to mint.
Founder(f) == f \in Present /\ joinRes[f] = <<>> /\ rk[f] = NoKey

\* Holders have the same key, counting the ratchets each has yet to make.
Level == \A c, d \in Clients : Holder(c) /\ Holder(d) =>
           rk[c].by = rk[d].by /\ rk[c].root = rk[d].root /\ rk[c].epoch + Due(c) = rk[d].epoch + Due(d)
\* A key on its way is the one every holder has.
Carried == \A d \in Clients : \A i \in DOMAIN inbox[d] : KeyFrame(d, i) =>
             /\ \A c \in Clients : Holder(c) => inbox[d][i].key = rk[c]
             /\ \A e \in Clients : \A j \in DOMAIN inbox[e] : KeyFrame(e, j) => inbox[d][i].key = inbox[e][j].key
\* Only a holder wraps.
Wraps == \A c \in Clients : rd[c].at = "wrap" => rk[c] # NoKey
\* What it wraps for a member is the key it has.
Wrapped == \A c \in Clients : (rd[c].at = "wrap" /\ rd[c].who \in Present) => rd[c].key = rk[c]
\* While a founder has yet to mint there is no key anywhere, and no second founder.
Unfounded == \A f \in Clients : Founder(f) =>
               \A d \in Clients : /\ ~Holder(d) /\ (\A i \in DOMAIN inbox[d] : ~KeyFrame(d, i))
                                  /\ Founder(d) => d = f
\* The inductive invariant on agreement: KeysAgree only speaks of those with nothing due, and of
\* keys that have arrived.
AgreeInv == Wraps /\ Unfounded /\ (~raced => (Waiting => Calm) /\ Level /\ Carried /\ Wrapped)

\* Some step of c, or of the relay for it.
Acts(c) == RelayStep(c) \/ Leave(c) \/ Reader(c) \/ Caller(c)

\* raced stays.
LEMMA RacedStays ==
  ASSUME NEW c \in Clients, Acts(c), raced
  PROVE  raced'
<1> USE DEF relayVars, clientVars, countVars
<1>1. CASE RelayStep(c)
  BY <1>1 DEF RelayStep, Join, SendWelcome, Replay, Announce, AskDistributor, Depart, Store, FanOut
<1>2. CASE Leave(c) BY <1>2 DEF Leave
<1>3. CASE Reader(c)
  BY <1>3 DEF Reader, OnWelcome, OnMemberJoined, OnMemberLeft, OnKeyRequest, DeliverKey, OnKeyDeliver, OnEncrypted,
     ReplayNext, HandleEncrypted, OpenMessage, RecordPeer, OnControl, OnControlReset
<1>4. CASE Caller(c) BY <1>4 DEF Caller, StartSend, SealAndSend, RecordOwn, Vanish, VanishTell
<1> QED BY <1>1, <1>2, <1>3, <1>4 DEF Acts

\* The invariants before and after a step.
LEMMA StepFacts ==
  ASSUME SessionInv, NEW c \in Clients, Acts(c)
  PROVE  SessionTypeOK /\ SeatsInv /\ TokInv /\ SessionTypeOK' /\ SeatsInv'
<1>1. SessionInv' BY SessionInvStep DEF Acts, Next
<1> QED BY <1>1 DEF SessionInv, KeyInv

\* Who is a member after a step was one before, or has just joined, and then holds nothing.
LEMMA PresentMoves ==
  ASSUME SessionInv, NEW c \in Clients, Acts(c), NEW e \in Clients, e \in Present'
  PROVE  \/ e \in Present /\ joinRes'[e] = joinRes[e] /\ ~(e = c /\ Leave(c))
         \/ e = c /\ Join(c) /\ rk[c] = NoKey /\ inbox[c] = <<>> /\ joinRes'[c] = room /\ e \notin Present
<1> USE DEF relayVars, clientVars, countVars
<1>0. SessionTypeOK /\ SeatsInv /\ SeatsInv' BY StepFacts
<1>1. /\ \A d \in Clients : (d \in Present <=> conn[d] \in Serving) /\ (conn[d] \notin Serving => rk[d] = NoKey /\ inbox[d] = <<>>)
      /\ \A d \in Clients : d \in Present' <=> conn'[d] \in Serving
      /\ conn \in [Clients -> Stages] /\ joinRes \in [Clients -> Seq(Clients)]
  BY <1>0 DEF SeatsInv, Roster, AwayIsEmpty, SessionTypeOK
<1>2. CASE Join(c)
  <2>1. conn[c] = "new" /\ joinRes' = [joinRes EXCEPT ![c] = room] /\ conn' = [conn EXCEPT ![c] = "joined"] BY <1>2 DEF Join
  <2>2. CASE e = c BY <1>1, <1>2, <2>1, <2>2 DEF Serving
  <2>3. CASE e # c
    <3>1. conn'[e] = conn[e] /\ joinRes'[e] = joinRes[e] BY <1>1, <2>1, <2>3
    <3> QED BY <1>1, <2>3, <3>1
  <2> QED BY <2>2, <2>3
<1>3. CASE Leave(c)
  <2>1. conn' = [conn EXCEPT ![c] = "leaving"] /\ joinRes' = [joinRes EXCEPT ![c] = <<>>] BY <1>3 DEF Leave
  <2>2. e # c BY <1>1, <2>1 DEF Serving
  <2>3. conn'[e] = conn[e] /\ joinRes'[e] = joinRes[e] BY <1>1, <2>1, <2>2
  <2> QED BY <1>1, <2>2, <2>3
<1>4. CASE ~Join(c) /\ ~Leave(c)
  <2>1. UNCHANGED <<room, joinRes>>
    <3>1. CASE RelayStep(c) BY <1>4, <3>1 DEF RelayStep, SendWelcome, Replay, Announce, AskDistributor, Depart, Store, FanOut
    <3>2. CASE Reader(c) \/ Caller(c) BY <1>0, <3>2, Local
    <3> QED BY <1>4, <3>1, <3>2 DEF Acts
  <2> QED BY <1>4, <2>1 DEF Present
<1> QED BY <1>2, <1>3, <1>4

\* A holder held its key before, ratcheted it, minted it, or was sent it.
LEMMA HolderFrom ==
  ASSUME SessionInv, NEW c \in Clients, Acts(c), NEW e \in Clients, Holder(e)'
  PROVE  \/ Holder(e) /\ rk'[e] = rk[e]
         \/ e = c /\ Holder(c) /\ (OnControl(c) \/ Vanish(c)) /\ rk'[c] = Ratcheted(rk[c])
         \/ /\ e = c /\ Reader(c) /\ ~DeliverKey(c) /\ ~OnControl(c) /\ rk[c] = NoKey /\ c \in Present
            /\ Founder(c) \/ (KeyFrame(c, 1) /\ rk'[c] = inbox[c][1].key)
<1> USE DEF relayVars, clientVars, countVars
<1>0. SessionTypeOK /\ SeatsInv /\ TokInv BY StepFacts
<1>1. e \in Present' /\ rk'[e] # NoKey /\ rk \in [Clients -> Keys \cup {NoKey}] BY <1>0 DEF Holder, SessionTypeOK
<1>2. CASE RelayStep(c)
  <2>1. rk' = rk BY <1>2, RelayKeys
  <2> QED BY <1>1, <2>1, PresentMoves DEF Holder
<1>3. CASE Leave(c)
  <2>1. rk' = [rk EXCEPT ![c] = NoKey] /\ conn[c] = "relay" BY <1>3 DEF Leave
  <2>2. e # c BY <1>1, <2>1
  <2>3. ~Join(c) BY <2>1 DEF Join
  <2> QED BY <1>1, <2>1, <2>2, <2>3, PresentMoves DEF Holder
<1>4. CASE Reader(c) \/ Caller(c)
  <2>1. room' = room /\ (\A d \in Clients : d # c => rk'[d] = rk[d]) BY <1>0, <1>4, Local
  <2>2. e \in Present BY <1>1, <2>1 DEF Present
  <2>3. CASE e # c BY <1>1, <2>1, <2>2, <2>3 DEF Holder
  <2>4. CASE e = c /\ OnWelcome(c)
    <3>1. Take(c, "welcome") /\ Taken(c) BY <2>4 DEF OnWelcome
    <3>2. /\ inbox[c] # <<>> /\ inbox[c][1].t = "welcome" /\ Head(inbox[c]) = inbox[c][1] /\ 1 \in DOMAIN inbox[c]
          /\ rd[c] = Idle
      BY <1>0, <3>1, TakeIs, TakenIs
    <3>3. inbox[c][1].existing = joinRes[c] /\ (joinRes[c] = <<>> => rk[c] = NoKey) BY <1>0, <3>2 DEF TokInv, Welcomes
    <3>4. CASE joinRes[c] # <<>>
      <4>1. rk' = rk BY <2>4, <3>2, <3>3, <3>4 DEF OnWelcome
      <4> QED BY <1>1, <2>2, <2>4, <4>1 DEF Holder
    <3>5. CASE joinRes[c] = <<>>
      <4>1. Reader(c) BY <2>4 DEF Reader
      <4>2. ~OnControl(c) /\ ~DeliverKey(c) BY <3>2 DEF OnControl, Take, DeliverKey, Idle
      <4> QED BY <2>2, <2>4, <3>3, <3>5, <4>1, <4>2 DEF Founder
    <3> QED BY <3>4, <3>5
  <2>5. CASE e = c /\ OnKeyDeliver(c)
    <3>1. Take(c, "key") /\ Taken(c) BY <2>5 DEF OnKeyDeliver
    <3>2. /\ inbox[c] # <<>> /\ inbox[c][1].t = "key" /\ Head(inbox[c]) = inbox[c][1] /\ 1 \in DOMAIN inbox[c]
          /\ rd[c] = Idle
      BY <1>0, <3>1, TakeIs, TakenIs
    <3>3. Tok(c, c, 1) BY <3>2 DEF Tok
    <3>4. rk[c] = NoKey BY <1>0, <3>3 DEF TokInv, TokWaits
    <3>5. rk' = rk \/ rk' = [rk EXCEPT ![c] = inbox[c][1].key] BY <2>5, <3>2 DEF OnKeyDeliver
    <3>6. rk'[c] = inbox[c][1].key BY <1>1, <2>5, <3>4, <3>5
    <3>7. Reader(c) BY <2>5 DEF Reader
    <3>8. ~OnControl(c) /\ ~DeliverKey(c) BY <3>2 DEF OnControl, Take, DeliverKey, Idle
    <3> QED BY <2>2, <2>5, <3>2, <3>4, <3>6, <3>7, <3>8 DEF KeyFrame
  <2>6. CASE e = c /\ (OnControl(c) \/ Vanish(c))
    <3>1. rk' = [rk EXCEPT ![c] = Ratcheted(rk[c])] BY <2>6 DEF OnControl, Vanish
    <3>2. rk'[c] = Ratcheted(rk[c]) BY <1>1, <3>1
    <3>3. rk[c] # NoKey BY <1>1, <2>6, <3>2, KeyFacts
    <3> QED BY <2>2, <2>6, <3>2, <3>3 DEF Holder
  <2>7. CASE ~OnWelcome(c) /\ ~OnKeyDeliver(c) /\ ~OnControl(c) /\ ~Vanish(c)
    <3>1. UNCHANGED rk
      BY <1>4, <2>7 DEF Reader, Caller, OnMemberJoined, OnMemberLeft, OnKeyRequest, DeliverKey, OnEncrypted, HandleEncrypted,
         ReplayNext, OpenMessage, RecordPeer, OnControlReset, StartSend, SealAndSend, RecordOwn, VanishTell
    <3> QED BY <1>1, <2>2, <3>1 DEF Holder
  <2> QED BY <2>3, <2>4, <2>5, <2>6, <2>7
<1> QED BY <1>2, <1>3, <1>4 DEF Acts

\* A key on its way was on its way before, or has just been wrapped.
LEMMA KeyFrameFrom ==
  ASSUME SessionInv, NEW c \in Clients, Acts(c), NEW d \in Clients, NEW i \in DOMAIN inbox'[d], KeyFrame(d, i)'
  PROVE  \/ \E j \in DOMAIN inbox[d] : KeyFrame(d, j) /\ inbox'[d][i].key = inbox[d][j].key
         \/ DeliverKey(c) /\ d = rd[c].who /\ d \in Present /\ inbox'[d][i].key = rd[c].key
<1>0. SessionTypeOK /\ SeatsInv BY StepFacts
<1>1. d \in Present' /\ inbox'[d][i].t = "key" BY DEF KeyFrame
<1>2. \/ \E j \in DOMAIN inbox[d] : inbox'[d][i] = inbox[d][j]
      \/ inbox'[d][i].t \in {"welcome", "enc", "keyreq", "joined", "left"}
      \/ \E s \in Clients : d \in todo[s].to /\ inbox'[d][i] = todo[s].msg
      \/ DeliverKey(c) /\ d = rd[c].who /\ d \in Present /\ inbox'[d][i].t = "key" /\ inbox'[d][i].key = rd[c].key
  BY <1>0, Arrives DEF Acts
<1>3. ASSUME NEW s \in Clients, d \in todo[s].to, inbox'[d][i] = todo[s].msg PROVE FALSE
  BY <1>0, <1>1, <1>3 DEF SeatsInv, Casts
<1>4. ASSUME NEW j \in DOMAIN inbox[d], inbox'[d][i] = inbox[d][j] PROVE KeyFrame(d, j) /\ inbox'[d][i].key = inbox[d][j].key
  <2>1. inbox[d] # <<>> BY <1>4
  <2>2. d \in Present BY <1>1, <2>1, PresentMoves
  <2> QED BY <1>1, <1>4, <2>2 DEF KeyFrame
<1> QED BY <1>1, <1>2, <1>3, <1>4

\* A key to be wrapped is the one just looked up, or was ratcheted under its holder's hands.
LEMMA WrapFrom ==
  ASSUME SessionInv, NEW c \in Clients, Acts(c), NEW e \in Clients, rd'[e].at = "wrap"
  PROVE  \/ rd'[e] = rd[e] /\ rk'[e] = rk[e]
         \/ e = c /\ rk[c] # NoKey /\ rk'[c] = rk[c] /\ rd'[c].key = rk[c]
         \/ e = c /\ Vanish(c) /\ rd[c].at = "wrap" /\ rd'[c].who = rd[c].who /\ rk'[c] = Ratcheted(rk[c])
<1> USE DEF relayVars, clientVars, countVars
<1>0. SessionTypeOK /\ SeatsInv BY StepFacts
<1>1. rd \in [Clients -> RdStates] /\ rk \in [Clients -> Keys \cup {NoKey}] /\ pending \in [Clients -> Seq(Enc)]
      /\ <<>> \in Seq(Enc)
  BY <1>0 DEF SessionTypeOK
<1>2. CASE RelayStep(c) BY <1>2, RelayKeys
<1>3. CASE Leave(c)
  <2>1. rd' = [rd EXCEPT ![c] = Idle] /\ rk' = [rk EXCEPT ![c] = NoKey] BY <1>3 DEF Leave
  <2>2. e # c BY <1>1, <2>1, RdFacts
  <2> QED BY <1>1, <2>1, <2>2
<1>4. CASE (Reader(c) \/ Caller(c)) /\ e # c BY <1>0, <1>4, Local
<1>5. CASE Caller(c) /\ e = c
  <2>1. CASE Vanish(c)
    <3>1. rd' = ZeroHeld(rd, c) /\ rk' = [rk EXCEPT ![c] = Ratcheted(rk[c])] BY <2>1 DEF Vanish
    <3> QED BY <1>0, <1>1, <1>5, <2>1, <3>1, WipeRd
  <2>2. CASE ~Vanish(c)
    <3>1. rd' = rd /\ rk' = rk BY <1>5, <2>2 DEF Caller, StartSend, SealAndSend, RecordOwn, VanishTell
    <3> QED BY <3>1
  <2> QED BY <2>1, <2>2
<1>6. CASE Reader(c) /\ e = c
  <2>1. CASE OnKeyRequest(c)
    <3>1. rd'[c] = IF rk[c] = NoKey THEN Idle ELSE [at |-> "wrap", who |-> Head(inbox[c]).who, key |-> rk[c]]
      BY <1>1, <2>1 DEF OnKeyRequest
    <3>2. rk[c] # NoKey BY <1>6, <3>1, RdFacts
    <3> QED BY <1>6, <2>1, <3>1, <3>2 DEF OnKeyRequest
  <2>2. CASE OnMemberJoined(c) \/ OnMemberLeft(c) BY <1>6, <2>2 DEF OnMemberJoined, OnMemberLeft
  <2>3. CASE DeliverKey(c) \/ OnControlReset(c)
    <3>1. rd'[c] = Idle BY <1>1, <2>3 DEF DeliverKey, OnControlReset
    <3> QED BY <1>6, <3>1, RdFacts
  <2>4. CASE OnControl(c)
    <3>1. rd'[c] = [at |-> "reset"] BY <1>1, <2>4 DEF OnControl
    <3> QED BY <1>6, <3>1
  <2>5. CASE OnWelcome(c) \/ OnKeyDeliver(c)
    <3>1. rd[c] = Idle BY <2>5 DEF OnWelcome, OnKeyDeliver, Take
    <3>2. rd' = rd \/ rd'[c] = Resume(pending[c]) BY <1>1, <2>5 DEF OnWelcome, OnKeyDeliver
    <3> QED BY <1>1, <1>6, <3>1, <3>2, RdFacts
  <2>6. ASSUME NEW m \in Enc, NEW left \in Seq(Enc), HandleEncrypted(c, m, left) PROVE FALSE
    <3>1. rd'[c] = Resume(left) \/ rd'[c] = [at |-> "open", m |-> m, left |-> left, key |-> rk[c]]
      BY <1>1, <2>6 DEF HandleEncrypted
    <3>2. Resume(left).at # "wrap" BY RdFacts
    <3> QED BY <1>6, <3>1, <3>2
  <2>7. CASE OnEncrypted(c)
    <3>1. Take(c, "enc") /\ Taken(c) BY <2>7 DEF OnEncrypted
    <3>2. Head(inbox[c]) \in Enc BY <1>0, <3>1, TakeIs, FrameFacts
    <3> QED BY <1>1, <2>6, <2>7, <3>2 DEF OnEncrypted
  <2>8. CASE ReplayNext(c)
    <3>1. rd[c].left \in Seq(Enc) /\ rd[c].left # <<>> BY <1>1, <2>8, RdFacts DEF ReplayNext
    <3>2. Head(rd[c].left) \in Enc /\ Tail(rd[c].left) \in Seq(Enc) BY <3>1
    <3> QED BY <2>6, <2>8, <3>2 DEF ReplayNext
  <2>9. CASE OpenMessage(c) \/ RecordPeer(c)
    <3>1. rd[c].left \in Seq(Enc) BY <1>1, <2>9, RdFacts DEF OpenMessage, RecordPeer
    <3>2. rd'[c] = [at |-> "record", m |-> rd[c].m, left |-> rd[c].left] \/ rd'[c] = Resume(rd[c].left)
      BY <1>1, <2>9 DEF OpenMessage, RecordPeer
    <3>3. Resume(rd[c].left).at # "wrap" BY <3>1, RdFacts
    <3> QED BY <1>6, <3>2, <3>3
  <2> QED BY <1>6, <2>1, <2>2, <2>3, <2>4, <2>5, <2>7, <2>8, <2>9 DEF Reader
<1> QED BY <1>2, <1>3, <1>4, <1>5, <1>6 DEF Acts

\* Nothing is due when all is calm.
LEMMA CalmDue ==
  ASSUME SessionTypeOK, Calm, NEW c \in Clients
  PROVE  Due(c) = 0
<1>1. Telling(c) = {} BY DEF Calm, Telling
<1>2. Sending(c) = {} BY DEF Calm, Sending
<1>3. VanishesIn(inbox[c]) = {} BY DEF Calm, VanishesIn
<1>4. Cardinality({}) = 0 BY FS_EmptySet
<1> QED BY <1>1, <1>2, <1>3, <1>4 DEF Due

\* Nothing is due to a settled client.
LEMMA SettledDue ==
  ASSUME SessionTypeOK, NEW c \in Clients, KeySettled(c)
  PROVE  Due(c) = 0
<1>1. Telling(c) = {} BY DEF KeySettled, Telling
<1>2. Sending(c) = {} BY DEF KeySettled, InFlight, Sending
<1>3. VanishesIn(inbox[c]) = {} BY DEF KeySettled, InFlight, VanishesIn
<1>4. Cardinality({}) = 0 BY FS_EmptySet
<1> QED BY <1>1, <1>2, <1>3, <1>4 DEF Due

\* Holders with nothing due have the same key.
LEMMA KeysSame ==
  ASSUME SessionTypeOK, Level, NEW c \in Clients, NEW d \in Clients, Holder(c), Holder(d), Due(c) = 0, Due(d) = 0
  PROVE  rk[c] = rk[d]
<1>1. rk[c] \in Keys /\ rk[d] \in Keys BY DEF SessionTypeOK, Holder
<1>2. rk[c].epoch \in Nat /\ rk[d].epoch \in Nat BY <1>1, KeyFacts
<1>3. rk[c].by = rk[d].by /\ rk[c].root = rk[d].root /\ rk[c].epoch = rk[d].epoch BY <1>2 DEF Level
<1> QED BY <1>1, <1>3, KeyFacts

\* A key on its way means somebody waits.
LEMMA FrameWaits ==
  ASSUME SessionInv, NEW d \in Clients, NEW i \in DOMAIN inbox[d], KeyFrame(d, i)
  PROVE  Waiting
<1>1. i \in Nat /\ TokInv BY InboxNat DEF SessionInv, KeyInv
<1>2. Tok(d, d, i) BY DEF Tok, KeyFrame
<1>3. rk[d] = NoKey BY <1>1, <1>2 DEF TokInv, TokWaits
<1> QED BY <1>3 DEF Waiting, KeyFrame

\* Only /vanish disturbs the calm.
LEMMA CalmKept ==
  ASSUME SessionInv, NEW c \in Clients, Acts(c), ~Vanish(c), Calm
  PROVE  Calm'
<1>0. SessionTypeOK /\ SeatsInv BY StepFacts
<1>1. ASSUME NEW d \in Clients PROVE ui'[d].at # "vanish" BY <1>0, Tells DEF Acts, Calm
<1>2. ~VanishTell(c) BY DEF VanishTell, Calm
<1>3. ASSUME NEW d \in Clients PROVE ~(todo'[d].to # {} /\ todo'[d].msg.t = "vanish") BY <1>0, <1>2, Tells DEF Acts, Calm
<1>4. ASSUME NEW d \in Clients, NEW i \in DOMAIN inbox'[d] PROVE inbox'[d][i].t # "vanish"
  <2>1. \/ \E j \in DOMAIN inbox[d] : inbox'[d][i] = inbox[d][j]
        \/ inbox'[d][i].t \in {"welcome", "enc", "keyreq", "joined", "left"}
        \/ \E s \in Clients : d \in todo[s].to /\ inbox'[d][i] = todo[s].msg
        \/ inbox'[d][i].t = "key"
    BY <1>0, Arrives DEF Acts
  <2>2. ASSUME NEW s \in Clients, d \in todo[s].to, inbox'[d][i] = todo[s].msg PROVE inbox'[d][i].t # "vanish"
    BY <2>2 DEF Calm
  <2>3. ASSUME NEW j \in DOMAIN inbox[d], inbox'[d][i] = inbox[d][j] PROVE inbox'[d][i].t # "vanish" BY <2>3 DEF Calm
  <2> QED BY <2>1, <2>2, <2>3
<1> QED BY <1>1, <1>3, <1>4 DEF Calm

\* Joining while a vanish is under way is a race.
LEMMA JoinCalm ==
  ASSUME SessionInv, NEW c \in Clients, Join(c), ~raced'
  PROVE  Calm
<1>0. SessionTypeOK BY DEF SessionInv
<1>1. \A d \in Clients : ~InFlight(d, "vanish") /\ ui[d].at # "vanish" BY DEF Join
<1>2. ASSUME NEW s \in Clients, todo[s].to # {} PROVE todo[s].msg.t # "vanish"
  <2>1. PICK d \in Clients : d \in todo[s].to BY <1>0, <1>2, TodoFacts
  <2> QED BY <1>1, <2>1 DEF InFlight
<1>3. \A d \in Clients : \A i \in DOMAIN inbox[d] : inbox[d][i].t # "vanish" BY <1>1 DEF InFlight
<1> QED BY <1>1, <1>2, <1>3 DEF Calm

\* Only a join makes somebody wait.
LEMMA WaitsStill ==
  ASSUME SessionInv, NEW c \in Clients, Acts(c), ~Join(c), Waiting'
  PROVE  Waiting
<1>0. SessionTypeOK /\ SeatsInv /\ TokInv /\ SessionTypeOK' BY StepFacts
<1>1. PICK d \in Present' : rk'[d] = NoKey BY DEF Waiting
<1>2. d \in Clients
  <2>1. room' \in Seq(Clients) BY <1>0 DEF SessionTypeOK
  <2>2. PICK i \in DOMAIN room' : d = room'[i] BY DEF Present, ToSet
  <2> QED BY <2>1, <2>2
<1>3. d \in Present /\ ~(d = c /\ Leave(c)) BY <1>1, <1>2, PresentMoves
<1>4. rk[d] = NoKey
  <2>1. CASE RelayStep(c) BY <1>1, <2>1, RelayKeys DEF clientVars
  <2>2. CASE Leave(c)
    <3>1. rk' = [rk EXCEPT ![c] = NoKey] BY <2>2 DEF Leave
    <3> QED BY <1>0, <1>1, <1>2, <1>3, <2>2, <3>1 DEF SessionTypeOK
  <2>3. CASE Reader(c) \/ Caller(c)
    <3>1. CASE d # c BY <1>0, <1>1, <1>2, <2>3, <3>1, Local
    <3>2. CASE d = c
      <4>1. rk[c] = NoKey \/ rk[c] \in Keys BY <1>0 DEF SessionTypeOK
      <4>2. \/ rk'[c] = rk[c]
            \/ rk'[c] = Ratcheted(rk[c])
            \/ rk[c] = NoKey
        BY <1>0, <2>3, KeyMoves
      <4> QED BY <1>1, <3>2, <4>1, <4>2, KeyFacts
    <3> QED BY <3>1, <3>2
  <2> QED BY <2>1, <2>2, <2>3 DEF Acts
<1> QED BY <1>3, <1>4 DEF Waiting

\* Whoever waits, waits in calm.
LEMMA WaitCalm ==
  ASSUME SessionInv, NEW c \in Clients, Acts(c), Waiting => Calm, ~raced', Waiting'
  PROVE  Calm'
<1>1. CASE Join(c)
  <2>1. conn[c] = "new" BY <1>1 DEF Join
  <2>2. ~Vanish(c) BY <2>1 DEF Vanish
  <2> QED BY <1>1, <2>2, JoinCalm, CalmKept
<1>2. CASE ~Join(c)
  <2>1. Waiting BY <1>2, WaitsStill
  <2>2. ~Vanish(c) BY <2>1 DEF Waiting, Vanish
  <2> QED BY <2>1, <2>2, CalmKept
<1> QED BY <1>1, <1>2

\* Everybody's count moves by the same amount.
LEMMA LevelShift ==
  ASSUME SessionTypeOK, SessionTypeOK', Level, NEW k \in Int,
         \A e \in Clients : Holder(e)' => /\ Holder(e) /\ rk'[e].by = rk[e].by /\ rk'[e].root = rk[e].root
                                          /\ rk'[e].epoch + Due(e)' = rk[e].epoch + Due(e) + k
  PROVE  Level'
<1> SUFFICES ASSUME NEW c \in Clients, NEW d \in Clients, Holder(c)', Holder(d)'
             PROVE  rk'[c].by = rk'[d].by /\ rk'[c].root = rk'[d].root /\ rk'[c].epoch + Due(c)' = rk'[d].epoch + Due(d)'
  BY DEF Level
<1>1. /\ Holder(c) /\ rk'[c].by = rk[c].by /\ rk'[c].root = rk[c].root /\ rk'[c].epoch + Due(c)' = rk[c].epoch + Due(c) + k
      /\ Holder(d) /\ rk'[d].by = rk[d].by /\ rk'[d].root = rk[d].root /\ rk'[d].epoch + Due(d)' = rk[d].epoch + Due(d) + k
  OBVIOUS
<1>2. rk[c].by = rk[d].by /\ rk[c].root = rk[d].root /\ rk[c].epoch + Due(c) = rk[d].epoch + Due(d) BY <1>1 DEF Level
<1> QED BY <1>1, <1>2

\* Every step keeps holders level.
LEMMA LevelStep ==
  ASSUME SessionInv, NEW c \in Clients, Acts(c), Waiting => Calm, Level, Carried, Unfounded, ~raced'
  PROVE  Level'
<1>0. SessionTypeOK /\ SeatsInv /\ TokInv /\ SessionTypeOK' BY StepFacts
<1>1. \A e \in Clients : /\ Holder(e) => e \in Present /\ rk[e] \in Keys /\ rk[e].epoch \in Nat
                         /\ Due(e) \in Nat
  <2>1. ASSUME NEW e \in Clients, Holder(e) PROVE e \in Present /\ rk[e] \in Keys /\ rk[e].epoch \in Nat
    <3>1. e \in Present /\ rk[e] \in Keys BY <1>0, <2>1 DEF SessionTypeOK, Holder
    <3> QED BY <3>1, KeyFacts
  <2>2. \A e \in Clients : Due(e) \in Nat BY <1>0, DueNat
  <2> QED BY <2>1, <2>2
<1>2. CASE RelayStep(c)
  <2>2. rk' = rk BY <1>2, RelayKeys DEF clientVars
  <2>3. ASSUME NEW e \in Clients, Holder(e)' PROVE Holder(e) /\ Due(e)' = Due(e)
    <3>1. e \in Present BY <2>2, <2>3, PresentMoves DEF Holder
    <3> QED BY <1>0, <1>2, <2>2, <2>3, <3>1, DueRelay DEF Holder
  <2>4. 0 \in Int /\ \A e \in Clients : Holder(e)' => /\ Holder(e) /\ rk'[e].by = rk[e].by /\ rk'[e].root = rk[e].root
                                          /\ rk'[e].epoch + Due(e)' = rk[e].epoch + Due(e) + 0
    BY <1>1, <2>2, <2>3
  <2> QED BY <1>0, <2>4, LevelShift
<1>3. CASE Leave(c)
  <2>1. PICK k \in {0, 1} : k = IF ui[c].at = "vanish" THEN 1 ELSE 0 OBVIOUS
  <2>2. rk' = [rk EXCEPT ![c] = NoKey] BY <1>3 DEF Leave
  <2>3. ASSUME NEW e \in Clients, Holder(e)' PROVE Holder(e) /\ rk'[e] = rk[e] /\ Due(e) = Due(e)' + k /\ Due(e)' \in Nat
    <3>1. e # c BY <1>0, <2>2, <2>3 DEF Holder, SessionTypeOK
    <3>2. rk'[e] = rk[e] BY <1>0, <2>2, <3>1 DEF SessionTypeOK
    <3>3. e \in Present BY <2>3, <3>1, PresentMoves, <3>2, <1>3 DEF Holder, Join, Leave
    <3> QED BY <1>0, <1>3, <2>1, <2>3, <3>1, <3>2, <3>3, DueLeave DEF Holder
  <2>4. -k \in Int /\ \A e \in Clients : Holder(e)' => /\ Holder(e) /\ rk'[e].by = rk[e].by /\ rk'[e].root = rk[e].root
                                          /\ rk'[e].epoch + Due(e)' = rk[e].epoch + Due(e) + (-k)
    BY <1>1, <2>3
  <2> QED BY <1>0, <2>4, LevelShift
<1>4. CASE Vanish(c)
  <2>1. Caller(c) BY <1>4 DEF Caller
  <2>2. rk'[c] = Ratcheted(rk[c]) /\ UNCHANGED room BY <1>0, <1>4 DEF Vanish, SessionTypeOK, relayVars
  <2>3. ASSUME NEW e \in Clients, Holder(e)'
        PROVE /\ Holder(e) /\ rk'[e].by = rk[e].by /\ rk'[e].root = rk[e].root
              /\ rk'[e].epoch + Due(e)' = rk[e].epoch + Due(e) + 1
    <3>1. e \in Present BY <2>2, <2>3 DEF Holder, Present
    <3>2. CASE e = c
      <4>1. rk[c] # NoKey BY <2>2, <2>3, <3>2, KeyFacts DEF Holder
      <4>2. Holder(c) BY <3>1, <3>2, <4>1 DEF Holder
      <4>3. Due(c)' = Due(c) BY <1>0, <2>1, <3>1, <3>2, DueCaller
      <4>4. rk'[c].epoch = rk[c].epoch + 1 /\ rk'[c].by = rk[c].by /\ rk'[c].root = rk[c].root BY <1>1, <2>2, <4>2, KeyFacts
      <4> QED BY <1>1, <3>2, <4>2, <4>3, <4>4
    <3>3. CASE e # c
      <4>1. rk'[e] = rk[e] BY <1>0, <2>1, <3>3, Local
      <4>2. Due(e)' = Due(e) + 1 BY <1>0, <1>4, <2>1, <3>1, <3>3, DueCaller
      <4>3. Holder(e) BY <2>3, <3>1, <4>1 DEF Holder
      <4> QED BY <1>1, <4>1, <4>2, <4>3
    <3> QED BY <3>2, <3>3
  <2> QED BY <1>0, <2>3, LevelShift
<1>5. CASE Caller(c) /\ ~Vanish(c)
  <2>1. UNCHANGED <<room, rk>> BY <1>5 DEF Caller, StartSend, SealAndSend, RecordOwn, VanishTell, relayVars
  <2>2. ASSUME NEW e \in Clients, Holder(e)' PROVE Holder(e) /\ Due(e)' = Due(e)
    <3>1. Holder(e) BY <2>1, <2>2 DEF Holder, Present
    <3> QED BY <1>0, <1>1, <1>5, <3>1, DueCaller
  <2>3. 0 \in Int /\ \A e \in Clients : Holder(e)' => /\ Holder(e) /\ rk'[e].by = rk[e].by /\ rk'[e].root = rk[e].root
                                          /\ rk'[e].epoch + Due(e)' = rk[e].epoch + Due(e) + 0
    BY <1>1, <2>1, <2>2
  <2> QED BY <1>0, <2>3, LevelShift
<1>6. CASE Reader(c) /\ (rk[c] # NoKey \/ rk'[c] = NoKey)
  <2>1. ASSUME NEW e \in Clients, Holder(e)'
        PROVE /\ Holder(e) /\ rk'[e].by = rk[e].by /\ rk'[e].root = rk[e].root
              /\ rk'[e].epoch + Due(e)' = rk[e].epoch + Due(e) + 0
    <3>1. rk'[e] # NoKey BY <2>1 DEF Holder
    <3>2. \/ Holder(e) /\ rk'[e] = rk[e]
          \/ e = c /\ Holder(c) /\ (OnControl(c) \/ Vanish(c)) /\ rk'[c] = Ratcheted(rk[c])
      BY <1>6, <2>1, <3>1, HolderFrom
    <3>3. CASE OnControl(c) /\ e = c
      <4>1. rk'[c] = Ratcheted(rk[c]) BY <1>0, <3>3 DEF OnControl, SessionTypeOK
      <4>2. Holder(c) BY <3>2, <3>3
      <4>3. Due(c) # 0 /\ Due(c)' = Due(c) - 1 BY <1>0, <1>6, <3>3, DueReader
      <4>4. rk'[c].epoch = rk[c].epoch + 1 /\ rk'[c].by = rk[c].by /\ rk'[c].root = rk[c].root BY <1>1, <4>1, <4>2, KeyFacts
      <4>5. Due(c) \in Nat /\ rk[c].epoch \in Nat BY <1>1, <4>2
      <4>6. rk'[c].epoch + Due(c)' = rk[c].epoch + Due(c) + 0 BY <4>3, <4>4, <4>5
      <4> QED BY <3>3, <4>2, <4>4, <4>6
    <3>4. CASE ~(OnControl(c) /\ e = c)
      <4>1. ~Vanish(c) \/ e # c
        <5>1. OnControl(c) => rk'[c] = Ratcheted(rk[c]) BY <1>0 DEF OnControl, SessionTypeOK
        <5>2. Vanish(c) => UNCHANGED inbox /\ ui'[c].at = "vanish" /\ ui[c].at = "idle"
          BY <1>0, UiFacts DEF Vanish, SessionTypeOK
        <5>3. \A s \in Clients : ui'[s].at = "vanish" => ui[s].at = "vanish"
          <6>1. UNCHANGED ui \/ ui' = ZeroHeld(ui, c)
            BY <1>6 DEF Reader, OnWelcome, OnMemberJoined, OnMemberLeft, OnKeyRequest, DeliverKey, OnKeyDeliver, OnEncrypted,
               ReplayNext, HandleEncrypted, OpenMessage, RecordPeer, OnControl, OnControlReset
          <6> QED BY <1>0, <6>1, WipeUi
        <5> QED BY <5>2, <5>3
      <4>2. Holder(e) /\ rk'[e] = rk[e] BY <3>2, <3>4, <4>1
      <4>3. Due(e)' = Due(e) BY <1>0, <1>6, <3>4, DueReader
      <4> QED BY <1>1, <4>2, <4>3
    <3> QED BY <3>3, <3>4
  <2>2. 0 \in Int OBVIOUS
  <2> QED BY <1>0, <2>1, <2>2, LevelShift
<1>7. CASE Reader(c) /\ rk[c] = NoKey /\ rk'[c] # NoKey
  <2>1. conn[c] \in Serving /\ room' = room /\ c \in Present
    BY <1>0, <1>7, Busy, Local DEF SeatsInv, Roster
  <2>2. Holder(c)' BY <1>7, <2>1 DEF Holder, Present
  <2>3. /\ ~OnControl(c)
        /\ Founder(c) \/ (KeyFrame(c, 1) /\ rk'[c] = inbox[c][1].key)
    BY <1>7, <2>2, HolderFrom DEF Holder
  <2>4. Waiting BY <1>7, <2>1 DEF Waiting
  <2>5. \A e \in Clients : Due(e)' = 0 BY <1>0, <1>7, <2>3, <2>4, CalmDue, DueReader
  <2>6. \A e \in Clients : Due(e) = 0 BY <1>0, <2>4, CalmDue
  <2>7. ASSUME NEW e \in Clients, Holder(e)' PROVE rk'[e] = rk'[c]
    <3>1. CASE e = c BY <3>1
    <3>2. CASE e # c
      <4>1. Holder(e) /\ rk'[e] = rk[e] BY <2>7, <3>2, HolderFrom
      <4>2. ~Founder(c) BY <4>1 DEF Unfounded
      <4>3. KeyFrame(c, 1) /\ rk'[c] = inbox[c][1].key BY <2>3, <4>2
      <4>4. 1 \in DOMAIN inbox[c] BY <4>3 DEF KeyFrame
      <4>5. inbox[c][1].key = rk[e] BY <4>1, <4>3, <4>4 DEF Carried
      <4> QED BY <4>1, <4>3, <4>5
    <3> QED BY <3>1, <3>2
  <2> QED BY <2>5, <2>7 DEF Level
<1> QED BY <1>2, <1>3, <1>4, <1>5, <1>6, <1>7 DEF Acts

\* Every step keeps keys on their way equal to those held.
LEMMA CarriedStep ==
  ASSUME SessionInv, NEW c \in Clients, Acts(c), Waiting => Calm, Level, Carried, Wraps, Wrapped, Unfounded, ~raced'
  PROVE  Carried'
<1>0. SessionTypeOK /\ SeatsInv /\ TokInv /\ SessionTypeOK' BY StepFacts
<1>1. CASE DeliverKey(c) /\ rd[c].who \in Present
  <2>1. rd[c].at = "wrap" /\ rd[c].key = rk[c] /\ rk[c] # NoKey BY <1>1 DEF DeliverKey, Wraps, Wrapped
  <2>2. Reader(c) BY <1>1 DEF Reader
  <2>3. c \in Present BY <1>0, <2>2, Busy DEF SeatsInv, Roster
  <2>4. Holder(c) /\ UNCHANGED <<rk, room>> BY <1>1, <2>1, <2>3 DEF Holder, DeliverKey, relayVars
  <2>5. rd[c].who \in Clients /\ Tok(rd[c].who, c, 0)
    <3>1. rd[c] \in RdStates BY <1>0 DEF SessionTypeOK
    <3>2. rd[c].who \in Clients BY <2>1, <3>1, RdFacts
    <3> QED BY <2>1, <3>2 DEF Tok
  <2>6. rk[rd[c].who] = NoKey BY <1>0, <2>5 DEF TokInv, TokWaits
  <2>7. Calm BY <1>1, <2>6 DEF Waiting
  <2>8. ASSUME NEW e \in Clients, Holder(e)' PROVE rk'[e] = rk[c]
    <3>1. Holder(e) /\ rk'[e] = rk[e] BY <2>4, <2>8 DEF Holder, Present
    <3>2. Due(e) = 0 /\ Due(c) = 0 BY <1>0, <2>7, CalmDue
    <3> QED BY <1>0, <2>4, <3>1, <3>2, KeysSame
  <2>9. ASSUME NEW d \in Clients, NEW i \in DOMAIN inbox'[d], KeyFrame(d, i)' PROVE inbox'[d][i].key = rk[c]
    <3>1. CASE \E j \in DOMAIN inbox[d] : KeyFrame(d, j) /\ inbox'[d][i].key = inbox[d][j].key
      BY <2>4, <3>1 DEF Carried
    <3> QED BY <2>1, <2>9, <3>1, KeyFrameFrom
  <2> QED BY <2>8, <2>9 DEF Carried
<1>2. CASE ~(DeliverKey(c) /\ rd[c].who \in Present)
  <2>1. ASSUME NEW d \in Clients, NEW i \in DOMAIN inbox'[d], KeyFrame(d, i)'
        PROVE  \E j \in DOMAIN inbox[d] : KeyFrame(d, j) /\ inbox'[d][i].key = inbox[d][j].key
    BY <1>2, <2>1, KeyFrameFrom
  <2>2. ASSUME NEW d \in Clients, NEW i \in DOMAIN inbox'[d], KeyFrame(d, i)', NEW e \in Clients, Holder(e)'
        PROVE  inbox'[d][i].key = rk'[e]
    <3>1. PICK j \in DOMAIN inbox[d] : KeyFrame(d, j) /\ inbox'[d][i].key = inbox[d][j].key BY <2>1, <2>2
    <3>2. Waiting /\ Calm BY <3>1, FrameWaits
    <3>3. CASE Holder(e) /\ rk'[e] = rk[e] BY <3>1, <3>3 DEF Carried
    <3>4. ~Vanish(c) BY <3>2 DEF Vanish, Waiting
    <3>5. ~OnControl(c)
      <4>1. SUFFICES ASSUME OnControl(c) PROVE FALSE OBVIOUS
      <4>2. Take(c, "vanish") /\ Taken(c) BY <4>1 DEF OnControl
      <4>3. inbox[c][1].t = "vanish" /\ 1 \in DOMAIN inbox[c] BY <1>0, <4>2, TakeIs, TakenIs
      <4> QED BY <3>2, <4>3 DEF Calm
    <3>6. CASE e = c /\ (Founder(c) \/ (KeyFrame(c, 1) /\ rk'[c] = inbox[c][1].key))
      <4>1. ~Founder(c) BY <3>1 DEF Unfounded
      <4>2. KeyFrame(c, 1) /\ rk'[c] = inbox[c][1].key BY <3>6, <4>1
      <4>3. 1 \in DOMAIN inbox[c] BY <4>2 DEF KeyFrame
      <4>4. inbox[d][j].key = inbox[c][1].key BY <3>1, <4>2, <4>3 DEF Carried
      <4> QED BY <3>1, <3>6, <4>2, <4>4
    <3> QED BY <2>2, <3>3, <3>4, <3>5, <3>6, HolderFrom
  <2>3. ASSUME NEW d \in Clients, NEW i \in DOMAIN inbox'[d], KeyFrame(d, i)',
               NEW e \in Clients, NEW h \in DOMAIN inbox'[e], KeyFrame(e, h)'
        PROVE  inbox'[d][i].key = inbox'[e][h].key
    <3>1. PICK j \in DOMAIN inbox[d] : KeyFrame(d, j) /\ inbox'[d][i].key = inbox[d][j].key BY <2>1, <2>3
    <3>2. PICK g \in DOMAIN inbox[e] : KeyFrame(e, g) /\ inbox'[e][h].key = inbox[e][g].key BY <2>1, <2>3
    <3>3. inbox[d][j].key = inbox[e][g].key BY <3>1, <3>2 DEF Carried
    <3> QED BY <3>1, <3>2, <3>3
  <2> QED BY <2>2, <2>3 DEF Carried
<1> QED BY <1>1, <1>2

\* Every step keeps Wraps.
LEMMA WrapsStep ==
  ASSUME SessionInv, NEW c \in Clients, Acts(c), Wraps
  PROVE  Wraps'
<1>0. SessionTypeOK BY DEF SessionInv
<1> SUFFICES ASSUME NEW e \in Clients, rd'[e].at = "wrap" PROVE rk'[e] # NoKey BY DEF Wraps
<1>1. CASE rd'[e] = rd[e] /\ rk'[e] = rk[e] BY <1>1 DEF Wraps
<1>2. CASE e = c /\ rd[c].at = "wrap" /\ rk'[c] = Ratcheted(rk[c])
  <2>1. rk[c] \in Keys BY <1>0, <1>2 DEF Wraps, SessionTypeOK
  <2> QED BY <1>2, <2>1, KeyFacts
<1> QED BY <1>1, <1>2, WrapFrom

\* Every step keeps Wrapped.
LEMMA WrappedStep ==
  ASSUME SessionInv, NEW c \in Clients, Acts(c), Wrapped, ~raced'
  PROVE  Wrapped'
<1>0. SessionTypeOK /\ TokInv /\ SessionTypeOK' BY StepFacts
<1> SUFFICES ASSUME NEW e \in Clients, rd'[e].at = "wrap", rd'[e].who \in Present' PROVE rd'[e].key = rk'[e] BY DEF Wrapped
<1>1. rd'[e].who \in Clients BY <1>0, RdFacts DEF SessionTypeOK
<1>2. CASE rd'[e] = rd[e] /\ rk'[e] = rk[e]
  <2>1. Tok(rd[e].who, e, 0) BY <1>2 DEF Tok
  <2>2. conn[rd[e].who] \in {"relay", "leaving", "gone"} BY <1>0, <1>1, <1>2, <2>1 DEF TokInv, TokWaits
  <2>3. rd[e].who \in Present BY <1>1, <1>2, <2>2, PresentMoves DEF Join
  <2> QED BY <1>2, <2>3 DEF Wrapped
<1>3. CASE e = c /\ Vanish(c) /\ rd[c].at = "wrap" /\ rd'[c].who = rd[c].who
  <2>1. Tok(rd[c].who, c, 0) BY <1>3 DEF Tok
  <2>2. rk[rd[c].who] = NoKey BY <1>0, <1>1, <1>3, <2>1 DEF TokInv, TokWaits
  <2>3. UNCHANGED room BY <1>3 DEF Vanish, relayVars
  <2>4. rd[c].who \in Present BY <1>3, <2>3 DEF Present
  <2> QED BY <1>3, <2>2, <2>4 DEF Vanish
<1>4. CASE e = c /\ rk'[c] = rk[c] /\ rd'[c].key = rk[c] BY <1>4
<1> QED BY <1>2, <1>3, <1>4, WrapFrom

\* Every step keeps Unfounded.
LEMMA UnfoundedStep ==
  ASSUME SessionInv, NEW c \in Clients, Acts(c), Wraps, Unfounded
  PROVE  Unfounded'
<1>0. SessionTypeOK /\ SeatsInv /\ TokInv /\ SessionTypeOK' BY StepFacts
<1>1. ASSUME NEW e \in Clients, Founder(e)' PROVE Founder(e) \/ (e = c /\ Join(c) /\ room = <<>>)
  <2>1. e \in Present' /\ joinRes'[e] = <<>> /\ rk'[e] = NoKey BY <1>1 DEF Founder
  <2>2. CASE e = c /\ Join(c)
    <3>1. joinRes'[c] = room BY <1>0, <2>2 DEF Join, SessionTypeOK
    <3> QED BY <2>1, <2>2, <3>1
  <2>3. CASE e \in Present /\ joinRes'[e] = joinRes[e] /\ ~(e = c /\ Leave(c))
    <3>1. rk[e] = NoKey
      <4>1. CASE RelayStep(c) BY <2>1, <4>1, RelayKeys DEF clientVars
      <4>2. CASE Leave(c)
        <5>1. rk' = [rk EXCEPT ![c] = NoKey] BY <4>2 DEF Leave
        <5> QED BY <1>0, <2>1, <2>3, <4>2, <5>1 DEF SessionTypeOK
      <4>3. CASE Reader(c) \/ Caller(c)
        <5>1. CASE e # c BY <1>0, <2>1, <4>3, <5>1, Local
        <5>2. CASE e = c
          <6>1. rk[c] = NoKey \/ rk[c] \in Keys BY <1>0 DEF SessionTypeOK
          <6>2. rk'[c] = rk[c] \/ rk'[c] = Ratcheted(rk[c]) \/ rk[c] = NoKey BY <1>0, <4>3, KeyMoves
          <6> QED BY <2>1, <5>2, <6>1, <6>2, KeyFacts
        <5> QED BY <5>1, <5>2
      <4> QED BY <4>1, <4>2, <4>3 DEF Acts
    <3> QED BY <2>1, <2>3, <3>1 DEF Founder
  <2> QED BY <2>1, <2>2, <2>3, PresentMoves
<1>2. ASSUME NEW f \in Clients, f = c, Join(c), room = <<>>, Founder(f)', NEW d \in Clients
      PROVE  ~Holder(d)' /\ (\A i \in DOMAIN inbox'[d] : ~KeyFrame(d, i)') /\ (Founder(d)' => d = f)
  <2>1. \A e \in Clients : e \notin Present BY <1>2 DEF Present, ToSet
  <2>2. \A e \in Clients : e \in Present' => e = f BY <1>2, <2>1, PresentMoves
  <2>3. ~Holder(d)' BY <1>2, <2>2 DEF Holder, Founder
  <2>4. \A i \in DOMAIN inbox'[d] : ~KeyFrame(d, i)' BY <2>1, KeyFrameFrom DEF KeyFrame
  <2> QED BY <2>2, <2>3, <2>4 DEF Founder
<1>3. ASSUME NEW f \in Clients, Founder(f), Founder(f)', NEW d \in Clients
      PROVE  ~Holder(d)' /\ (\A i \in DOMAIN inbox'[d] : ~KeyFrame(d, i)') /\ (Founder(d)' => d = f)
  <2>1. \A e \in Clients : ~Holder(e) /\ (\A i \in DOMAIN inbox[e] : ~KeyFrame(e, i)) /\ (Founder(e) => e = f)
    BY <1>3 DEF Unfounded
  <2>2. ~Holder(d)'
    <3>1. SUFFICES ASSUME Holder(d)' PROVE FALSE OBVIOUS
    <3>2. d = c /\ (Founder(c) \/ KeyFrame(c, 1)) BY <2>1, <3>1, HolderFrom
    <3>3. ~KeyFrame(c, 1) BY <2>1 DEF KeyFrame
    <3>4. d = f BY <2>1, <3>2, <3>3
    <3> QED BY <1>3, <3>1, <3>4 DEF Founder, Holder
  <2>3. ~DeliverKey(c)
    <3>1. SUFFICES ASSUME DeliverKey(c) PROVE FALSE OBVIOUS
    <3>2. Reader(c) /\ rd[c].at = "wrap" BY <3>1 DEF Reader, DeliverKey
    <3>3. c \in Present BY <1>0, <3>2, Busy DEF SeatsInv, Roster
    <3> QED BY <2>1, <3>2, <3>3 DEF Wraps, Holder
  <2>4. \A i \in DOMAIN inbox'[d] : ~KeyFrame(d, i)' BY <2>1, <2>3, KeyFrameFrom
  <2>5. Founder(d)' => d = f
    <3>1. room # <<>> BY <1>3 DEF Founder, Present, ToSet
    <3> QED BY <1>1, <2>1, <3>1
  <2> QED BY <2>2, <2>4, <2>5
<1>4. ASSUME NEW f \in Clients, Founder(f)', NEW d \in Clients
      PROVE  ~Holder(d)' /\ (\A i \in DOMAIN inbox'[d] : ~KeyFrame(d, i)') /\ (Founder(d)' => d = f)
  BY <1>1, <1>2, <1>3, <1>4
<1> QED BY <1>4 DEF Unfounded

\* A settled room agrees.
LEMMA AgreeInit == Init => AgreeInv
<1> SUFFICES ASSUME Init PROVE AgreeInv OBVIOUS
<1>0. SessionTypeOK /\ SeatsInv BY SessionTypeInit, SeatsInit
<1>1. /\ \A c \in Clients : inbox[c] = <<>> /\ todo[c] = NoSends /\ rd[c] = Idle /\ ui[c] = Idle /\ joinRes[c] = <<>>
      /\ Idle.at = "idle" /\ NoSends.to = {}
  BY DEF Init, Idle, NoSends
<1>2. PICK r \in Scenarios : Seated(r) BY DEF Init
<1>3. PICK k : k = [by |-> Head(r.seated), root |-> 0, epoch |-> 0] OBVIOUS
<1>4. \A c \in Clients : c \in Present => rk[c] = k
  BY <1>2, <1>3 DEF Seated, Present
<1>5. \A c \in Clients : DOMAIN inbox[c] = {} BY <1>1
<1>6. Calm BY <1>1, <1>5 DEF Calm
<1>7. \A c \in Clients : Due(c) = 0 BY <1>0, <1>6, CalmDue
<1>8. Wraps /\ Wrapped BY <1>1 DEF Wraps, Wrapped
<1>9. Carried BY <1>5 DEF Carried
<1>10. Level BY <1>4, <1>7 DEF Level, Holder
<1>11. Unfounded
  <2>1. \A c \in Clients : c \in Present => rk[c] \in Keys
    <3>1. ASSUME NEW c \in Clients, c \in Present PROVE rk[c] \in Keys
      <4>1. r.seated \in Seq(Clients) /\ r.seated # <<>> BY <1>2, <3>1, ScenarioShape DEF Seated, Present, ToSet
      <4>2. Head(r.seated) \in Clients BY <4>1
      <4> QED BY <1>3, <1>4, <3>1, <4>2, KeyFacts
    <3> QED BY <3>1
  <2> QED BY <2>1, KeyFacts DEF Unfounded, Founder
<1> QED BY <1>6, <1>8, <1>9, <1>10, <1>11 DEF AgreeInv

\* Every step keeps the agreement.
LEMMA AgreeStep == SessionInv /\ AgreeInv /\ [Next]_vars => AgreeInv'
<1> SUFFICES ASSUME SessionInv, AgreeInv, [Next]_vars PROVE AgreeInv' OBVIOUS
<1>1. ASSUME NEW c \in Clients, Acts(c) PROVE AgreeInv'
  <2>1. Wraps' /\ Unfounded' BY <1>1, WrapsStep, UnfoundedStep DEF AgreeInv
  <2>2. ASSUME ~raced' PROVE (Waiting' => Calm') /\ Level' /\ Carried' /\ Wrapped'
    <3>1. (Waiting => Calm) /\ Level /\ Carried /\ Wrapped /\ Wraps /\ Unfounded BY <1>1, <2>2, RacedStays DEF AgreeInv
    <3>2. Waiting' => Calm' BY <1>1, <2>2, <3>1, WaitCalm
    <3>3. Level' BY <1>1, <2>2, <3>1, LevelStep
    <3>4. Carried' BY <1>1, <2>2, <3>1, CarriedStep
    <3>5. Wrapped' BY <1>1, <2>2, <3>1, WrappedStep
    <3> QED BY <3>2, <3>3, <3>4, <3>5
  <2> QED BY <2>1, <2>2 DEF AgreeInv
<1>2. CASE UNCHANGED vars
  <2> USE DEF vars, relayVars, clientVars, countVars
  <2>1. /\ UNCHANGED <<room, rk, joinRes, raced>> /\ UNCHANGED inbox /\ UNCHANGED todo /\ UNCHANGED ui /\ UNCHANGED rd
        /\ Present' = Present
    BY <1>2 DEF Present
  <2>2. \A c \in Clients : Due(c)' = Due(c) BY <2>1 DEF Due, Telling, Sending
  <2>3. Wraps' /\ Unfounded' BY <2>1 DEF AgreeInv, Wraps, Unfounded, Founder, Holder, KeyFrame
  <2>4. ~raced' => (Waiting' => Calm') BY <2>1 DEF AgreeInv, Waiting, Calm
  <2>5. ~raced' => Level' BY <2>1, <2>2 DEF AgreeInv, Level, Holder
  <2>6. ~raced' => Carried' /\ Wrapped' BY <2>1 DEF AgreeInv, Carried, Wrapped, Holder, KeyFrame
  <2> QED BY <2>3, <2>4, <2>5, <2>6 DEF AgreeInv
<1> QED BY <1>1, <1>2 DEF Next, Acts

\* Members that hold a key and have no vanish coming hold the same key, for any number of clients
\* that /vanish, join, found and leave in any order the relay may fan it out, unless a /vanish
\* overlapped a member's wait for its key, a member was asked for a key it did not hold, or a full
\* buffer dropped a frame (client.go Vanish, onControl, onKeyRequest, onKeyDeliver).
THEOREM KeysStayAgreed == Spec => []KeysAgree
<1>1. SessionInv /\ AgreeInv => KeysAgree
  <2> SUFFICES ASSUME SessionInv, AgreeInv, ~raced, NEW c \in Present, NEW d \in Present,
                      rk[c] # NoKey, rk[d] # NoKey, KeySettled(c), KeySettled(d)
               PROVE  rk[c] = rk[d]
    BY DEF KeysAgree
  <2>1. SessionTypeOK /\ Level BY DEF SessionInv, AgreeInv
  <2>2. c \in Clients /\ d \in Clients /\ Holder(c) /\ Holder(d) BY <2>1, TodoFacts DEF Holder
  <2>3. Due(c) = 0 /\ Due(d) = 0 BY <2>1, <2>2, SettledDue
  <2> QED BY <2>1, <2>2, <2>3, KeysSame
<1>2. Spec => []AgreeInv BY AgreeInit, AgreeStep, SessionInvHolds, PTL DEF Spec
<1> QED BY <1>1, <1>2, SessionInvHolds, PTL
==============================================================================
