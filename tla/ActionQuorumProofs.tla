------------------------- MODULE ActionQuorumProofs -------------------------
(***************************************************************************)
(* Proofs about ActionQuorum for any set of clients and identities, any    *)
(* quorum of at least two, any number of /vanish and a server that burns   *)
(* or not.                                                                 *)
(*                                                                         *)
(* TwoPerson speaks of the moment of performing; the invariant carries it  *)
(* back to the moment of signing.  Counted: whoever a client counted has   *)
(* signed and is not the requester.  InFlight: so has the sender of every  *)
(* approval on its way, and every client that has yet to count itself.     *)
(* Gated: from the decision to perform on, the quorum is there.            *)
(***************************************************************************)
EXTENDS ActionQuorum, FiniteSetTheorems, TLAPS

Enough == Cardinality(Others(signed)) >= Quorum - 1

Counted == \A c \in Clients : approvers[c] \subseteq Others(signed)

InFlight ==
  /\ \A s, d \in Clients : \A i \in 1..Len(net[s][d]) :
       net[s][d][i].op = "approval" => Fpr[s] \in signed
  /\ \A c \in mid : Fpr[c] \in signed

Gated ==
  /\ rpc[Requester] = "perform" \/ performed > 0 => Enough
  /\ round \/ burns > 0 => performed > 0

Inv == ActionTypeOK /\ Counted /\ InFlight /\ Gated /\ PerformOnce

Frame == [op : Ops, ep : Nat]

\* Every queue of net' holds only frames like the old ones of that queue and frames f of s.
Adds(s, f) ==
  \A x, y \in Clients : \A i \in 1..Len(net'[x][y]) :
    \/ \E j \in 1..Len(net[x][y]) : net'[x][y][i].op = net[x][y][j].op
    \/ x = s /\ net'[x][y][i] = f

\* What appending f to a queue, and cutting its head off, leaves in it.
LEMMA QueueFacts ==
  ASSUME NEW q \in Seq(Frame), NEW f \in Frame
  PROVE  /\ Append(q, f) \in Seq(Frame)
         /\ \A i \in 1..Len(Append(q, f)) :
              (\E j \in 1..Len(q) : Append(q, f)[i] = q[j]) \/ Append(q, f)[i] = f
         /\ q # <<>> => /\ Tail(q) \in Seq(Frame)
                        /\ \A i \in 1..Len(Tail(q)) : \E j \in 1..Len(q) : Tail(q)[i] = q[j]
<1>1. Append(q, f) \in Seq(Frame)  OBVIOUS
<1>2. ASSUME NEW i \in 1..Len(Append(q, f))
      PROVE  (\E j \in 1..Len(q) : Append(q, f)[i] = q[j]) \/ Append(q, f)[i] = f
  <2>1. CASE i \in 1..Len(q)
    <3>1. Append(q, f)[i] = q[i]  BY <2>1
    <3> QED  BY <2>1, <3>1
  <2>2. CASE i = Len(q) + 1
    <3>1. Append(q, f)[i] = f  BY <2>2
    <3> QED  BY <3>1
  <2> QED  BY <2>1, <2>2
<1>3. ASSUME q # <<>>
      PROVE  /\ Tail(q) \in Seq(Frame)
             /\ \A i \in 1..Len(Tail(q)) : \E j \in 1..Len(q) : Tail(q)[i] = q[j]
  <2>1. Tail(q) \in Seq(Frame)  BY <1>3
  <2>2. ASSUME NEW i \in 1..Len(Tail(q)) PROVE \E j \in 1..Len(q) : Tail(q)[i] = q[j]
    <3>1. i + 1 \in 1..Len(q) /\ Tail(q)[i] = q[i + 1]  BY <1>3
    <3> QED  BY <3>1
  <2> QED  BY <2>1, <2>2
<1> QED  BY <1>1, <1>2, <1>3

\* A broadcast adds its frame to the sender's queues.
LEMMA BroadcastAdds ==
  ASSUME ActionTypeOK, NEW s \in Clients, NEW op \in Ops, Broadcast(s, op)
  PROVE  /\ net' \in [Clients -> [Clients -> Seq(Frame)]]
         /\ Adds(s, [op |-> op, ep |-> epoch[s]])
<1> DEFINE f == [op |-> op, ep |-> epoch[s]]
<1>1. f \in Frame  BY DEF Frame, ActionTypeOK
<1>2. net \in [Clients -> [Clients -> Seq(Frame)]]  BY DEF ActionTypeOK, Frame
<1>3. net' = [net EXCEPT ![s] = [d \in Clients |->
                IF d = s THEN net[s][d] ELSE Append(net[s][d], f)]]
  BY <1>2 DEF Broadcast, Sent
<1> HIDE DEF f
<1>4. \A d \in Clients : Append(net[s][d], f) \in Seq(Frame)  BY <1>1, <1>2
<1>5. net' \in [Clients -> [Clients -> Seq(Frame)]]  BY <1>2, <1>3, <1>4
<1>6. \A x, y \in Clients :
        net'[x][y] = IF x = s /\ y # s THEN Append(net[x][y], f) ELSE net[x][y]
  BY <1>2, <1>3
<1>7. ASSUME NEW x \in Clients, NEW y \in Clients, NEW i \in 1..Len(net'[x][y])
      PROVE  \/ \E j \in 1..Len(net[x][y]) : net'[x][y][i] = net[x][y][j]
             \/ x = s /\ net'[x][y][i] = f
  <2>1. net[x][y] \in Seq(Frame)  BY <1>2
  <2>2. CASE x = s /\ y # s
    <3>1. net'[x][y] = Append(net[x][y], f)  BY <1>6, <2>2
    <3> QED  BY <2>1, <2>2, <3>1, <1>1, QueueFacts
  <2>3. CASE ~(x = s /\ y # s)
    <3>1. net'[x][y] = net[x][y]  BY <1>6, <2>3
    <3> QED  BY <3>1
  <2> QED  BY <2>2, <2>3
<1> QED  BY <1>5, <1>7 DEF Adds, f

\* A /vanish over an opened frame sends the control frame and changes that frame's epoch only.
LEMMA OverAdds ==
  ASSUME ActionTypeOK, NEW s \in Clients, NEW c \in Clients, VanishOver(s, c)
  PROVE  /\ net' \in [Clients -> [Clients -> Seq(Frame)]]
         /\ Adds(c, [op |-> "vanish", ep |-> epoch[c]])
<1> DEFINE v == [op |-> "vanish", ep |-> epoch[c]]
           q == net[s][c]
           h == [q[1] EXCEPT !.ep = @ + 1]
           w == [q EXCEPT ![1] = h]
           new == Sent(c, "vanish")
<1>1. \A x, y \in Clients : net[x][y] \in Seq(Frame)  BY DEF ActionTypeOK, Frame
<1>2. v \in Frame  BY DEF ActionTypeOK, Frame, Ops
<1>3. q \in Seq(Frame) /\ q # <<>> /\ s # c  BY <1>1 DEF VanishOver
<1>4. Len(q) \in Nat /\ 1 \in 1..Len(q) /\ q[1] \in Frame  BY <1>3
<1>5. h \in Frame /\ h.op = q[1].op  BY <1>4 DEF Frame
<1>6. net' = [net EXCEPT ![c] = new, ![s][c][1].ep = @ + 1]  BY DEF VanishOver
<1> HIDE DEF h
<1>7. w \in Seq(Frame) /\ Len(w) = Len(q) /\ \A k \in 1..Len(q) : w[k] = IF k = 1 THEN h ELSE q[k]
  BY <1>3, <1>4, <1>5
<1> HIDE DEF v
<1>8. \A d \in Clients : new[d] = net[c][d] \/ new[d] = Append(net[c][d], v)  BY DEF Sent, v
<1>9. new \in [Clients -> Seq(Frame)]
  <2>1. new = [d \in Clients |-> new[d]]  BY DEF Sent
  <2> HIDE DEF new
  <2>2. ASSUME NEW d \in Clients PROVE new[d] \in Seq(Frame)
    <3>1. net[c][d] \in Seq(Frame)  BY <1>1
    <3>2. Append(net[c][d], v) \in Seq(Frame)  BY <1>2, <3>1
    <3> QED  BY <1>8, <3>1, <3>2
  <2> QED  BY <2>1, <2>2
<1> HIDE DEF new
<1>10. \A x, y \in Clients : net'[x][y] = IF x = c THEN new[y] ELSE IF x = s /\ y = c THEN w ELSE net[x][y]
  BY <1>3, <1>6, <1>9 DEF ActionTypeOK, h
<1>11. net' \in [Clients -> [Clients -> Seq(Frame)]]
  <2>1. ASSUME NEW x \in Clients, NEW y \in Clients PROVE net'[x][y] \in Seq(Frame)
    <3>1. net'[x][y] = new[y] \/ net'[x][y] = w \/ net'[x][y] = net[x][y]  BY <1>10
    <3>2. new[y] \in Seq(Frame)  BY <1>9
    <3> HIDE DEF w
    <3> QED  BY <1>1, <1>7, <3>1, <3>2
  <2>2. net' = [x \in Clients |-> net'[x]] /\ \A x \in Clients : net'[x] = [y \in Clients |-> net'[x][y]]
    BY <1>6, <1>9 DEF ActionTypeOK
  <2> QED  BY <2>1, <2>2
<1>12. ASSUME NEW x \in Clients, NEW y \in Clients, NEW i \in 1..Len(net'[x][y])
       PROVE  \/ \E j \in 1..Len(net[x][y]) : net'[x][y][i].op = net[x][y][j].op
              \/ x = c /\ net'[x][y][i] = v
  <2>1. net[x][y] \in Seq(Frame)  BY <1>1
  <2>2. CASE x = c
    <3>1. net'[x][y] = net[x][y] \/ net'[x][y] = Append(net[x][y], v)  BY <1>8, <1>10, <2>2
    <3>2. CASE net'[x][y] = net[x][y]  BY <3>2
    <3>3. CASE net'[x][y] = Append(net[x][y], v)  BY <1>2, <2>1, <2>2, <3>3, QueueFacts
    <3> QED  BY <3>1, <3>2, <3>3
  <2>3. CASE x = s /\ y = c
    <3>1. net'[x][y] = w /\ net[x][y] = q  BY <1>3, <1>10, <2>3
    <3> HIDE DEF q, w
    <3>2. i \in 1..Len(q)  BY <1>12, <1>7, <3>1
    <3>3. net'[x][y][i] = IF i = 1 THEN h ELSE q[i]  BY <1>7, <3>1, <3>2
    <3> QED  BY <1>4, <1>5, <3>1, <3>2, <3>3
  <2>4. CASE x # c /\ ~(x = s /\ y = c)  BY <1>10, <1>12, <2>4
  <2> QED  BY <2>2, <2>3, <2>4
<1> QED  BY <1>11, <1>12 DEF Adds, v

\* Reading a frame adds nothing to any queue.
LEMMA ReadAdds ==
  ASSUME ActionTypeOK, NEW s \in Clients, NEW d \in Clients, net[s][d] # <<>>,
         net' = [net EXCEPT ![s][d] = Tail(@)]
  PROVE  /\ net' \in [Clients -> [Clients -> Seq(Frame)]]
         /\ \A x, y \in Clients : \A i \in 1..Len(net'[x][y]) :
              \E j \in 1..Len(net[x][y]) : net'[x][y][i] = net[x][y][j]
<1>1. net \in [Clients -> [Clients -> Seq(Frame)]]  BY DEF ActionTypeOK, Frame
<1>2. [op |-> "veto", ep |-> 0] \in Frame  BY DEF Frame, Ops
<1>3. Tail(net[s][d]) \in Seq(Frame)  BY <1>1
<1>4. net' \in [Clients -> [Clients -> Seq(Frame)]]  BY <1>1, <1>3
<1>5. \A x, y \in Clients :
        net'[x][y] = IF x = s /\ y = d THEN Tail(net[s][d]) ELSE net[x][y]
  BY <1>1
<1>6. \A i \in 1..Len(Tail(net[s][d])) : \E j \in 1..Len(net[s][d]) :
        Tail(net[s][d])[i] = net[s][d][j]
  BY <1>1, <1>2, QueueFacts
<1>7. ASSUME NEW x \in Clients, NEW y \in Clients, NEW i \in 1..Len(net'[x][y])
      PROVE  \E j \in 1..Len(net[x][y]) : net'[x][y][i] = net[x][y][j]
  <2>1. CASE x = s /\ y = d
    <3>1. net'[x][y] = Tail(net[x][y])  BY <1>5, <2>1
    <3> QED  BY <3>1, <2>1, <1>6
  <2>2. CASE ~(x = s /\ y = d)
    <3>1. net'[x][y] = net[x][y]  BY <1>5, <2>2
    <3> QED  BY <3>1
  <2> QED  BY <2>1, <2>2
<1> QED  BY <1>4, <1>7

\* InFlight after a step that adds f of s, which is an approval only of a signer.
LEMMA InFlightKept ==
  ASSUME InFlight, NEW s \in Clients, NEW f, Adds(s, f), signed \subseteq signed',
         f.op = "approval" => Fpr[s] \in signed',
         \A c \in mid' : c \in mid \/ Fpr[c] \in signed'
  PROVE  InFlight'
<1>1. ASSUME NEW x \in Clients, NEW y \in Clients, NEW i \in 1..Len(net'[x][y]),
             net'[x][y][i].op = "approval"
      PROVE  Fpr[x] \in signed'
  <2>1. CASE \E j \in 1..Len(net[x][y]) : net'[x][y][i].op = net[x][y][j].op
    <3>1. PICK j \in 1..Len(net[x][y]) : net'[x][y][i].op = net[x][y][j].op  BY <2>1
    <3> QED  BY <1>1, <3>1 DEF InFlight
  <2>2. CASE x = s /\ net'[x][y][i] = f  BY <1>1, <2>2
  <2> QED  BY <2>1, <2>2 DEF Adds
<1>2. \A c \in mid' : Fpr[c] \in signed'  BY DEF InFlight
<1> QED  BY <1>1, <1>2 DEF InFlight

\* The quorum, once there, stays: signatures are never withdrawn.
LEMMA EnoughKept ==
  ASSUME ActionTypeOK, NEW t \in SUBSET Ids, signed \subseteq t, Enough
  PROVE  Cardinality(Others(t)) >= Quorum - 1
<1>1. IsFiniteSet(Others(t)) /\ Others(signed) \subseteq Others(t)
  BY ActionClientsAssumption, FS_Subset DEF Others
<1>2. /\ Cardinality(Others(signed)) <= Cardinality(Others(t))
      /\ Cardinality(Others(signed)) \in Nat /\ Cardinality(Others(t)) \in Nat
  BY <1>1, FS_Subset, FS_CardinalityType
<1> QED  BY <1>2, ActionQuorumAssumption DEF Enough

\* What countApproval does to the invariant when it is handed a signed approval, on a
\* read loop or command that is not already performing.
LEMMA CountFacts ==
  ASSUME Inv, NEW c \in Clients, NEW f \in signed, CountApproval(c, f),
         signed' = signed, performed' = performed, round' = round, burns' = burns
  PROVE  /\ phase' \in [Clients -> Phases]
         /\ approvers' \in [Clients -> SUBSET Ids]
         /\ rpc' \in [Clients -> {"idle", "perform", "check", "finalize", "reset", "stopped"}]
         /\ Counted' /\ Gated' /\ PerformOnce'
<1> USE DEF Inv
<1> DEFINE counts == phase[c] = "tracked" /\ f # Fpr[Requester] /\ f \notin approvers[c]
           reached == 1 + Cardinality(approvers[c] \cup {f}) >= Quorum
<1>1. /\ approvers' = [approvers EXCEPT ![c] = IF counts THEN @ \cup {f} ELSE @]
      /\ phase' = [phase EXCEPT ![c] = IF counts /\ reached THEN "executed" ELSE @]
      /\ rpc' = [rpc EXCEPT ![c] = IF counts /\ reached /\ c = Requester THEN "perform" ELSE @]
  BY DEF CountApproval
<1>2. counts => f \in Others(signed)  BY DEF Others
<1>3. counts /\ reached => Enough
  <2> SUFFICES ASSUME counts, reached PROVE Enough  OBVIOUS
  <2>1. approvers[c] \cup {f} \subseteq Others(signed)  BY <1>2 DEF Counted
  <2>2. IsFiniteSet(Others(signed))
    BY ActionClientsAssumption, FS_Subset DEF Others, ActionTypeOK
  <2>3. /\ Cardinality(approvers[c] \cup {f}) <= Cardinality(Others(signed))
        /\ Cardinality(Others(signed)) \in Nat
        /\ Cardinality(approvers[c] \cup {f}) \in Nat
    BY <2>1, <2>2, FS_Subset, FS_CardinalityType
  <2> QED  BY <2>3, ActionQuorumAssumption DEF Enough
<1>4. f \in Ids  BY DEF ActionTypeOK
<1> HIDE DEF reached
<1>5. /\ phase' \in [Clients -> Phases]
      /\ approvers' \in [Clients -> SUBSET Ids]
      /\ rpc' \in [Clients -> {"idle", "perform", "check", "finalize", "reset", "stopped"}]
  BY <1>1, <1>4 DEF ActionTypeOK, Phases
<1>6. Counted'
  <2> SUFFICES ASSUME NEW x \in Clients PROVE approvers'[x] \subseteq Others(signed)
    BY DEF Counted, Others
  <2> QED  BY <1>1, <1>2 DEF Counted, ActionTypeOK
<1>7. rpc'[Requester] = "perform" =>
        rpc[Requester] = "perform" \/ (counts /\ reached /\ c = Requester)
  BY <1>1, RequesterAssumption DEF ActionTypeOK
<1>8. Gated'
  BY <1>3, <1>7 DEF Gated, Enough, Others
<1>9. PerformOnce'
  <2>1. counts => phase[c] # "executed"  OBVIOUS
  <2>2. CASE counts /\ reached /\ c = Requester
    <3>1. phase'[Requester] = "executed"  BY <1>1, <2>2 DEF ActionTypeOK
    <3>2. performed = 0  BY <2>1, <2>2 DEF PerformOnce, ActionTypeOK
    <3> QED  BY <3>1, <3>2 DEF PerformOnce
  <2>3. CASE ~(counts /\ reached /\ c = Requester)
    <3>1. rpc'[Requester] = rpc[Requester]
      BY <1>1, <2>3, RequesterAssumption DEF ActionTypeOK
    <3>2. phase[Requester] = "executed" => phase'[Requester] = "executed"
      BY <1>1, RequesterAssumption DEF ActionTypeOK
    <3> QED  BY <3>1, <3>2 DEF PerformOnce
  <2> QED  BY <2>2, <2>3
<1> QED  BY <1>5, <1>6, <1>8, <1>9

\* A step that signs nothing, performs nothing and counts nobody.
LEMMA PlainStep ==
  ASSUME Inv, ActionTypeOK', InFlight', signed' = signed, performed' = performed,
         \A c \in Clients : approvers'[c] \subseteq approvers[c],
         rpc'[Requester] = "perform" => rpc[Requester] = "perform",
         round' \/ burns' > 0 => round \/ burns > 0,
         phase[Requester] = "executed" => phase'[Requester] = "executed"
  PROVE  Inv'
<1>1. Counted'  BY DEF Inv, Counted, Others
<1>2. Gated'  BY DEF Inv, Gated, Enough, Others
<1>3. PerformOnce'  BY DEF Inv, PerformOnce
<1> QED  BY <1>1, <1>2, <1>3 DEF Inv

\* InFlight after a step that adds no frame.
LEMMA InFlightRead ==
  ASSUME InFlight, mid' \subseteq mid, signed' = signed,
         \A x, y \in Clients : \A i \in 1..Len(net'[x][y]) :
           \E j \in 1..Len(net[x][y]) : net'[x][y][i] = net[x][y][j]
  PROVE  InFlight'
<1>1. Adds(Requester, [op |-> "veto"])  BY DEF Adds
<1> QED  BY <1>1, InFlightKept, RequesterAssumption

\* ratchetForward and resetCoordinationLocked keep the types and lose only what
\* PlainStep lets a step lose.
LEMMA ResetFacts ==
  ASSUME ActionTypeOK, NEW c \in Clients, Reset(c)
  PROVE  /\ epoch' \in [Clients -> Nat] /\ phase' \in [Clients -> Phases]
         /\ approvers' \in [Clients -> SUBSET Ids]
         /\ round' \in BOOLEAN /\ rsigs' \in SUBSET Ids /\ timer' \in {"none", "armed"}
         /\ done' = done /\ receipts' = receipts /\ burns' = burns
         /\ \A x \in Clients : approvers'[x] \subseteq approvers[x]
         /\ round' => round
         /\ phase[Requester] = "executed" => phase'[Requester] = "executed"
<1>1. epoch' \in [Clients -> Nat]  BY DEF Reset, ActionTypeOK
<1>2. phase' \in [Clients -> Phases]  BY DEF Reset, ActionTypeOK, Phases
<1>3. /\ approvers' \in [Clients -> SUBSET Ids]
      /\ \A x \in Clients : approvers'[x] \subseteq approvers[x]
  BY DEF Reset, ActionTypeOK
<1>4. phase[Requester] = "executed" => phase'[Requester] = "executed"
  BY RequesterAssumption DEF Reset, ActionTypeOK
<1>5. /\ round' \in BOOLEAN /\ rsigs' \in SUBSET Ids /\ timer' \in {"none", "armed"}
      /\ (round' => round) /\ done' = done /\ receipts' = receipts /\ burns' = burns
  BY DEF Reset, ActionTypeOK
<1> QED  BY <1>1, <1>2, <1>3, <1>4, <1>5

\* finalizeReceipt keeps the types and closes the round it burns for.
LEMMA FinalizeFacts ==
  ASSUME ActionTypeOK, FinalizeReceipt
  PROVE  /\ round' \in BOOLEAN /\ rsigs' \in SUBSET Ids /\ timer' \in {"none", "armed"}
         /\ done' \in SUBSET Clients /\ receipts' \in [Clients -> Nat] /\ burns' \in Nat
         /\ round' \/ burns' > 0 => round \/ burns > 0
<1>1. CASE round
  <2>1. /\ round' = FALSE /\ rsigs' = {} /\ timer' = "none"
        /\ done' = done \cup {Requester} /\ burns' = burns + 1
        /\ receipts' = [receipts EXCEPT ![Requester] = @ + 1]
    BY <1>1 DEF FinalizeReceipt
  <2>2. round' \in BOOLEAN /\ (round' \/ burns' > 0 => round \/ burns > 0)
    BY <1>1, <2>1, Zenon
  <2>3. rsigs' \in SUBSET Ids /\ timer' \in {"none", "armed"}  BY <2>1
  <2>4. done' \in SUBSET Clients  BY <2>1, RequesterAssumption DEF ActionTypeOK
  <2>5. receipts' \in [Clients -> Nat] /\ burns' \in Nat
    BY <2>1, RequesterAssumption DEF ActionTypeOK
  <2> QED  BY <2>2, <2>3, <2>4, <2>5
<1>2. CASE ~round
  BY <1>2 DEF FinalizeReceipt, receiptVars, ActionTypeOK
<1> QED  BY <1>1, <1>2

\* The initial state satisfies the invariant.
LEMMA InitInv == ActionInit => Inv
<1> SUFFICES ASSUME ActionInit PROVE Inv  OBVIOUS
<1>1. \A s, d \in Clients : net[s][d] = <<>>  BY DEF ActionInit
<1>2. ActionTypeOK
  <2>1. net \in [Clients -> [Clients -> Seq(Frame)]]  BY DEF ActionInit
  <2>2. round \in BOOLEAN  BY Zenon DEF ActionInit
  <2>3. /\ phase \in [Clients -> Phases] /\ approvers \in [Clients -> SUBSET Ids]
        /\ rpc \in [Clients -> {"idle", "perform", "check", "finalize", "reset", "stopped"}]
        /\ epoch \in [Clients -> Nat] /\ receipts \in [Clients -> Nat]
    BY DEF ActionInit, Phases
  <2>4. /\ mid \in SUBSET Clients /\ approved \in SUBSET Clients
        /\ noticed \in SUBSET Clients /\ done \in SUBSET Clients
        /\ rsigs \in SUBSET Ids /\ signed \in SUBSET Ids
        /\ timer \in {"none", "armed"} /\ due \in Nat /\ vanished \in Nat
        /\ performed \in Nat /\ burns \in Nat
    BY DEF ActionInit
  <2> QED  BY <2>1, <2>2, <2>3, <2>4 DEF ActionTypeOK, Frame
<1>3. Counted  BY DEF ActionInit, Counted
<1>4. InFlight  BY <1>1 DEF ActionInit, InFlight
<1>5. rpc[Requester] = "idle"  BY RequesterAssumption DEF ActionInit
<1>6. Gated /\ PerformOnce  BY <1>5 DEF ActionInit, Gated, PerformOnce
<1> QED  BY <1>2, <1>3, <1>4, <1>6 DEF Inv

\* The commands and timers of the two-person rule keep the invariant.
LEMMA GateSteps ==
  ASSUME Inv,
         RequestAction \/ (\E c \in Clients : ApproveSend(c) \/ ApproveCount(c)
                                              \/ VetoAction(c) \/ ExpireAction(c))
  PROVE  Inv'
<1> USE DEF Inv
<1>1. CASE RequestAction
  <2>1. Broadcast(Requester, "request") /\ "request" \in Ops
    BY <1>1 DEF RequestAction, Ops
  <2>2. /\ net' \in [Clients -> [Clients -> Seq(Frame)]]
        /\ Adds(Requester, [op |-> "request", ep |-> epoch[Requester]])
    BY <2>1, BroadcastAdds, RequesterAssumption
  <2>3. InFlight'
    BY <1>1, <2>2, InFlightKept, RequesterAssumption DEF RequestAction, histVars
  <2>4. ActionTypeOK'
    BY <1>1, <2>2 DEF RequestAction, ActionTypeOK, Phases, Frame, histVars, receiptVars
  <2>5. phase[Requester] # "executed"  BY <1>1 DEF RequestAction
  <2> QED
    BY <1>1, <2>3, <2>4, <2>5, PlainStep DEF RequestAction, histVars, receiptVars
<1>2. ASSUME NEW c \in Clients, ApproveSend(c) PROVE Inv'
  <2>1. Broadcast(c, "approval") /\ "approval" \in Ops /\ signed' = signed \cup {Fpr[c]}
        /\ mid' = mid \cup {c}
    BY <1>2 DEF ApproveSend, Ops
  <2>2. /\ net' \in [Clients -> [Clients -> Seq(Frame)]]
        /\ Adds(c, [op |-> "approval", ep |-> epoch[c]])
    BY <2>1, BroadcastAdds
  <2>3. InFlight'  BY <2>1, <2>2, InFlightKept
  <2>4. Fpr[c] \in Ids  BY ActionFprAssumption
  <2>5. ActionTypeOK'
    BY <1>2, <2>1, <2>2, <2>4 DEF ApproveSend, ActionTypeOK, Frame, trackVars, receiptVars
  <2>6. Counted'  BY <1>2, <2>1 DEF ApproveSend, trackVars, Counted, Others
  <2>7. signed' \in SUBSET Ids /\ signed \subseteq signed'  BY <2>1, <2>5 DEF ActionTypeOK
  <2>8. Enough => Enough'
    <3>1. Enough => Cardinality(Others(signed')) >= Quorum - 1  BY <2>7, EnoughKept
    <3> QED  BY <3>1 DEF Enough, Others
  <2>9. Gated'  BY <1>2, <2>8 DEF ApproveSend, Gated, receiptVars
  <2>10. PerformOnce'  BY <1>2 DEF ApproveSend, PerformOnce, trackVars
  <2> QED  BY <2>3, <2>5, <2>6, <2>9, <2>10
<1>3. ASSUME NEW c \in Clients, ApproveCount(c) PROVE Inv'
  <2>1. /\ CountApproval(c, Fpr[c]) /\ Fpr[c] \in signed
        /\ mid' = mid \ {c} /\ net' = net /\ signed' = signed /\ performed' = performed
        /\ round' = round /\ burns' = burns
    BY <1>3 DEF ApproveCount, InFlight, histVars, receiptVars
  <2>2. /\ phase' \in [Clients -> Phases] /\ approvers' \in [Clients -> SUBSET Ids]
        /\ rpc' \in [Clients -> {"idle", "perform", "check", "finalize", "reset", "stopped"}]
        /\ Counted' /\ Gated' /\ PerformOnce'
    BY <2>1, CountFacts
  <2>3. InFlight'  BY <2>1, InFlightRead
  <2>4. ActionTypeOK'
    BY <1>3, <2>1, <2>2 DEF ApproveCount, ActionTypeOK, histVars, receiptVars
  <2> QED  BY <2>2, <2>3, <2>4
<1>4. ASSUME NEW c \in Clients, VetoAction(c) PROVE Inv'
  <2>1. Broadcast(c, "veto") /\ "veto" \in Ops  BY <1>4 DEF VetoAction, Ops
  <2>2. /\ net' \in [Clients -> [Clients -> Seq(Frame)]]
        /\ Adds(c, [op |-> "veto", ep |-> epoch[c]])
    BY <2>1, BroadcastAdds
  <2>3. InFlight'  BY <1>4, <2>2, InFlightKept DEF VetoAction, histVars
  <2>5. ActionTypeOK'
    BY <1>4, <2>2 DEF VetoAction, ActionTypeOK, Phases, Frame, receiptVars, histVars
  <2>6. phase[Requester] = "executed" => phase'[Requester] = "executed"
    BY <1>4, RequesterAssumption DEF VetoAction, ActionTypeOK
  <2> QED  BY <1>4, <2>3, <2>5, <2>6, PlainStep DEF VetoAction, receiptVars, histVars
<1>5. ASSUME NEW c \in Clients, ExpireAction(c) PROVE Inv'
  <2>1. InFlight'  BY <1>5, InFlightRead DEF ExpireAction, histVars
  <2>2. ActionTypeOK'
    BY <1>5 DEF ExpireAction, ActionTypeOK, Phases, receiptVars, histVars
  <2>3. phase[Requester] = "executed" => phase'[Requester] = "executed"
    BY <1>5, RequesterAssumption DEF ExpireAction, ActionTypeOK
  <2> QED  BY <1>5, <2>1, <2>2, <2>3, PlainStep DEF ExpireAction, receiptVars, histVars
<1> QED  BY <1>1, <1>2, <1>3, <1>4, <1>5

\* The receipt round, its timer and the server keep the invariant.
LEMMA ReceiptSteps ==
  ASSUME Inv, Perform \/ MaybeFinalizeReceipt \/ ReaderFinalizes \/ ReceiptTimerFires
              \/ TimerFinalizes \/ ServerScuttle
  PROVE  Inv'
<1> USE DEF Inv
<1>1. CASE Perform
  <2>1. rpc[Requester] = "perform" /\ performed' = performed + 1
    BY <1>1 DEF Perform
  <2>2. Enough /\ phase[Requester] = "executed" /\ performed = 0
    BY <2>1 DEF Gated, PerformOnce
  <2>3. /\ phase' = phase /\ approvers' = approvers /\ signed' = signed /\ mid' = mid
        /\ rpc'[Requester] # "perform"
    BY <1>1, RequesterAssumption DEF Perform, trackVars, histVars, ActionTypeOK
  <2>4. /\ net' \in [Clients -> [Clients -> Seq(Frame)]] /\ InFlight'
    <3>1. CASE net' = net
      BY <3>1, <2>3, InFlightRead DEF ActionTypeOK, Frame
    <3>2. CASE Broadcast(Requester, "rrequest")
      <4>1. "rrequest" \in Ops  BY DEF Ops
      <4>2. /\ net' \in [Clients -> [Clients -> Seq(Frame)]]
            /\ Adds(Requester, [op |-> "rrequest", ep |-> epoch[Requester]])
        BY <3>2, <4>1, BroadcastAdds, RequesterAssumption
      <4> QED  BY <4>2, <2>3, InFlightKept, RequesterAssumption
    <3> QED  BY <1>1, <3>1, <3>2 DEF Perform
  <2>5. /\ rpc' \in [Clients -> {"idle", "perform", "check", "finalize", "reset", "stopped"}]
        /\ round' \in BOOLEAN /\ rsigs' \in SUBSET Ids /\ timer' \in {"none", "armed"}
        /\ burns' \in Nat
    <3>1. CASE Requester \in done \/ round
      <4>1. /\ burns' = burns + 1 /\ rpc' = [rpc EXCEPT ![Requester] = "idle"]
            /\ rsigs' = rsigs /\ timer' = timer
        BY <1>1, <3>1 DEF Perform
      <4>2. round' \in BOOLEAN
        <5>1. round' = round  BY <1>1, <3>1 DEF Perform
        <5> QED  BY <5>1, Zenon DEF ActionTypeOK
      <4>3. rpc' \in [Clients -> {"idle", "perform", "check", "finalize", "reset", "stopped"}]
        BY <4>1 DEF ActionTypeOK
      <4>4. rsigs' \in SUBSET Ids /\ timer' \in {"none", "armed"}  BY <4>1 DEF ActionTypeOK
      <4>5. burns' \in Nat  BY <4>1 DEF ActionTypeOK
      <4> QED  BY <4>2, <4>3, <4>4, <4>5
    <3>2. CASE ~(Requester \in done \/ round)
      <4>1. /\ round' = TRUE /\ rsigs' = {Fpr[Requester]} /\ timer' = "armed"
            /\ rpc' = [rpc EXCEPT ![Requester] = "check"] /\ burns' = burns
        BY <1>1, <3>2 DEF Perform
      <4>2. round' \in BOOLEAN  BY <4>1, Zenon
      <4>3. /\ rsigs' \in SUBSET Ids /\ timer' \in {"none", "armed"} /\ burns' \in Nat
            /\ rpc' \in [Clients -> {"idle", "perform", "check", "finalize", "reset", "stopped"}]
        BY <4>1, ActionFprAssumption, RequesterAssumption DEF ActionTypeOK
      <4> QED  BY <4>2, <4>3
    <3> QED  BY <3>1, <3>2, Zenon
  <2>6. ActionTypeOK'
    <3>1. /\ phase' = phase /\ approvers' = approvers /\ mid' = mid /\ epoch' = epoch
          /\ approved' = approved
          /\ done' = done /\ receipts' = receipts /\ due' = due /\ noticed' = noticed
          /\ signed' = signed /\ vanished' = vanished
          /\ performed' = performed + 1
      BY <1>1 DEF Perform, trackVars, histVars
    <3>2. performed' \in Nat  BY <3>1 DEF ActionTypeOK
    <3> QED  BY <3>1, <3>2, <2>4, <2>5 DEF ActionTypeOK, Frame
  <2>7. Counted'  BY <2>3 DEF Counted, Others
  <2>8. Gated'  BY <2>1, <2>2, <2>3 DEF Gated, Enough, Others
  <2>9. PerformOnce'  BY <2>1, <2>2, <2>3 DEF PerformOnce
  <2> QED  BY <2>4, <2>6, <2>7, <2>8, <2>9
<1>2. CASE MaybeFinalizeReceipt
  <2>1. InFlight'  BY <1>2, InFlightRead DEF MaybeFinalizeReceipt, histVars
  <2>2. rpc' \in [Clients -> {"idle", "perform", "check", "finalize", "reset", "stopped"}]
    BY <1>2 DEF MaybeFinalizeReceipt, ActionTypeOK
  <2>3. ActionTypeOK'
    BY <1>2, <2>2 DEF MaybeFinalizeReceipt, ActionTypeOK, trackVars, receiptVars, histVars
  <2>4. rpc'[Requester] # "perform"
    BY <1>2, RequesterAssumption DEF MaybeFinalizeReceipt, ActionTypeOK
  <2> QED
    BY <1>2, <2>1, <2>3, <2>4, PlainStep
    DEF MaybeFinalizeReceipt, trackVars, receiptVars, histVars
<1>3. CASE ReaderFinalizes
  <2>1. InFlight'  BY <1>3, InFlightRead DEF ReaderFinalizes, histVars
  <2>2. /\ round' \in BOOLEAN /\ rsigs' \in SUBSET Ids /\ timer' \in {"none", "armed"}
        /\ done' \in SUBSET Clients /\ receipts' \in [Clients -> Nat] /\ burns' \in Nat
        /\ round' \/ burns' > 0 => round \/ burns > 0
    BY <1>3, FinalizeFacts DEF ReaderFinalizes
  <2>3. ActionTypeOK'
    <3>1. rpc' \in [Clients -> {"idle", "perform", "check", "finalize", "reset", "stopped"}]
      BY <1>3 DEF ReaderFinalizes, ActionTypeOK
    <3> QED  BY <1>3, <2>2, <3>1 DEF ReaderFinalizes, ActionTypeOK, trackVars, histVars
  <2>4. rpc'[Requester] # "perform"
    BY <1>3, RequesterAssumption DEF ReaderFinalizes, ActionTypeOK
  <2> QED
    BY <1>3, <2>1, <2>2, <2>3, <2>4, PlainStep DEF ReaderFinalizes, trackVars, histVars
<1>4. CASE ReceiptTimerFires
  <2>1. InFlight'  BY <1>4, InFlightRead DEF ReceiptTimerFires, histVars
  <2>2. ActionTypeOK'
    <3>1. due' \in Nat /\ timer' \in {"none", "armed"}  BY <1>4 DEF ReceiptTimerFires, ActionTypeOK
    <3> QED  BY <1>4, <3>1 DEF ReceiptTimerFires, ActionTypeOK, trackVars, histVars
  <2> QED  BY <1>4, <2>1, <2>2, PlainStep DEF ReceiptTimerFires, trackVars, histVars
<1>5. CASE TimerFinalizes
  <2>1. InFlight'  BY <1>5, InFlightRead DEF TimerFinalizes, histVars
  <2>2. /\ round' \in BOOLEAN /\ rsigs' \in SUBSET Ids /\ timer' \in {"none", "armed"}
        /\ done' \in SUBSET Clients /\ receipts' \in [Clients -> Nat] /\ burns' \in Nat
        /\ round' \/ burns' > 0 => round \/ burns > 0
    BY <1>5, FinalizeFacts DEF TimerFinalizes
  <2>3. ActionTypeOK'
    <3>1. due' \in Nat  BY <1>5 DEF TimerFinalizes, ActionTypeOK
    <3> QED  BY <1>5, <2>2, <3>1 DEF TimerFinalizes, ActionTypeOK, trackVars, histVars
  <2> QED  BY <1>5, <2>1, <2>2, <2>3, PlainStep DEF TimerFinalizes, trackVars, histVars
<1>6. CASE ServerScuttle
  <2>1. InFlight'  BY <1>6, InFlightRead DEF ServerScuttle, histVars
  <2>2. ActionTypeOK'  BY <1>6 DEF ServerScuttle, ActionTypeOK, trackVars, receiptVars, histVars
  <2> QED
    BY <1>6, <2>1, <2>2, PlainStep DEF ServerScuttle, trackVars, receiptVars, histVars
<1> QED  BY <1>1, <1>2, <1>3, <1>4, <1>5, <1>6

\* The read loop and the two controls keep the invariant.
LEMMA ReadSteps ==
  ASSUME Inv,
         (\E c \in Clients : \/ Vanish(c) \/ OnScuttle(c) \/ OnScuttleReset(c)
                              \/ \E s \in Clients : VanishOver(s, c))
           \/ (\E s, d \in Clients : Read(s, d))
  PROVE  Inv'
<1> USE DEF Inv
<1>1. ASSUME NEW c \in Clients, Vanish(c) \/ \E s \in Clients : VanishOver(s, c) PROVE Inv'
  <2>1. Ratchets(c) /\ Reset(c)  BY <1>1 DEF Vanish, VanishOver, Ratchets
  <2>2. /\ net' \in [Clients -> [Clients -> Seq(Frame)]]
        /\ Adds(c, [op |-> "vanish", ep |-> epoch[c]])
    <3>1. CASE Vanish(c)
      <4>1. Broadcast(c, "vanish") /\ "vanish" \in Ops  BY <3>1 DEF Vanish, Ops
      <4> QED  BY <4>1, BroadcastAdds
    <3>2. CASE \E s \in Clients : VanishOver(s, c)  BY <3>2, OverAdds
    <3> QED  BY <1>1, <3>1, <3>2
  <2>3. InFlight'  BY <2>1, <2>2, InFlightKept DEF Ratchets
  <2>4. /\ epoch' \in [Clients -> Nat] /\ phase' \in [Clients -> Phases]
        /\ approvers' \in [Clients -> SUBSET Ids]
        /\ round' \in BOOLEAN /\ rsigs' \in SUBSET Ids /\ timer' \in {"none", "armed"}
        /\ done' = done /\ receipts' = receipts /\ burns' = burns
        /\ \A x \in Clients : approvers'[x] \subseteq approvers[x]
        /\ round' => round
        /\ phase[Requester] = "executed" => phase'[Requester] = "executed"
    BY <2>1, ResetFacts
  <2>5. ActionTypeOK'
    <3>1. vanished' \in Nat  BY <2>1 DEF Ratchets, ActionTypeOK
    <3> QED  BY <2>1, <2>2, <2>4, <3>1 DEF Ratchets, ActionTypeOK, Frame
  <2> QED  BY <2>1, <2>3, <2>4, <2>5, PlainStep DEF Ratchets
<1>2. ASSUME NEW d \in Clients, OnScuttle(d) PROVE Inv'
  <2>1. InFlight'  BY <1>2, InFlightRead DEF OnScuttle, histVars
  <2>2. /\ rpc' \in [Clients -> {"idle", "perform", "check", "finalize", "reset", "stopped"}]
        /\ receipts' \in [Clients -> Nat] /\ done' \in SUBSET Clients
        /\ noticed' \in SUBSET Clients
    BY <1>2 DEF OnScuttle, ActionTypeOK
  <2>3. ActionTypeOK'  BY <1>2, <2>2 DEF OnScuttle, ActionTypeOK, trackVars, histVars
  <2>4. rpc'[Requester] = "perform" => rpc[Requester] = "perform"
    BY <1>2, RequesterAssumption DEF OnScuttle, ActionTypeOK
  <2> QED  BY <1>2, <2>1, <2>3, <2>4, PlainStep DEF OnScuttle, trackVars, histVars
<1>3. ASSUME NEW d \in Clients, OnScuttleReset(d) PROVE Inv'
  <2>1. InFlight'  BY <1>3, InFlightRead DEF OnScuttleReset, histVars
  <2>2. /\ epoch' \in [Clients -> Nat] /\ phase' \in [Clients -> Phases]
        /\ approvers' \in [Clients -> SUBSET Ids]
        /\ round' \in BOOLEAN /\ rsigs' \in SUBSET Ids /\ timer' \in {"none", "armed"}
        /\ done' = done /\ receipts' = receipts /\ burns' = burns
        /\ \A x \in Clients : approvers'[x] \subseteq approvers[x]
        /\ round' => round
        /\ phase[Requester] = "executed" => phase'[Requester] = "executed"
    BY <1>3, ResetFacts DEF OnScuttleReset
  <2>3. rpc' \in [Clients -> {"idle", "perform", "check", "finalize", "reset", "stopped"}]
    BY <1>3 DEF OnScuttleReset, ActionTypeOK
  <2>4. ActionTypeOK'  BY <1>3, <2>2, <2>3 DEF OnScuttleReset, ActionTypeOK, histVars
  <2>5. rpc'[Requester] = "perform" => rpc[Requester] = "perform"
    BY <1>3, RequesterAssumption DEF OnScuttleReset, ActionTypeOK
  <2> QED  BY <1>3, <2>1, <2>2, <2>4, <2>5, PlainStep DEF OnScuttleReset, histVars
<1>4. ASSUME NEW s \in Clients, NEW d \in Clients, NEW op, Reads(s, d, op)
      PROVE  /\ net' \in [Clients -> [Clients -> Seq(Frame)]]
             /\ \A x, y \in Clients : \A i \in 1..Len(net'[x][y]) :
                  \E j \in 1..Len(net[x][y]) : net'[x][y][i] = net[x][y][j]
  BY <1>4, ReadAdds DEF Reads
<1>5. ASSUME NEW s \in Clients, NEW d \in Clients, Undecryptable(s, d) PROVE Inv'
  <2>1. PICK op \in Ops : Reads(s, d, op)  BY <1>5 DEF Undecryptable
  <2>2. net' \in [Clients -> [Clients -> Seq(Frame)]] /\ InFlight'
    BY <1>4, <1>5, <2>1, InFlightRead DEF Undecryptable, histVars
  <2>3. ActionTypeOK'
    BY <1>5, <2>2 DEF Undecryptable, ActionTypeOK, Frame, trackVars, receiptVars, histVars
  <2> QED
    BY <1>5, <2>2, <2>3, PlainStep DEF Undecryptable, trackVars, receiptVars, histVars
<1>6. ASSUME NEW s \in Clients, NEW d \in Clients, OnActionRequest(s, d) PROVE Inv'
  <2>1. net' \in [Clients -> [Clients -> Seq(Frame)]] /\ InFlight'
    BY <1>4, <1>6, InFlightRead DEF OnActionRequest, Opens, histVars
  <2>2. phase' \in [Clients -> Phases]  BY <1>6 DEF OnActionRequest, ActionTypeOK, Phases
  <2>3. ActionTypeOK'
    BY <1>6, <2>1, <2>2 DEF OnActionRequest, ActionTypeOK, Frame, receiptVars, histVars
  <2>4. phase[Requester] = "executed" => phase'[Requester] = "executed"
    BY <1>6, RequesterAssumption DEF OnActionRequest, ActionTypeOK
  <2> QED
    BY <1>6, <2>1, <2>3, <2>4, PlainStep DEF OnActionRequest, receiptVars, histVars
<1>7. ASSUME NEW s \in Clients, NEW d \in Clients, OnActionApproval(s, d) PROVE Inv'
  <2>1. /\ Reads(s, d, "approval") /\ CountApproval(d, Fpr[s]) /\ mid' = mid
        /\ signed' = signed /\ performed' = performed /\ round' = round /\ burns' = burns
    BY <1>7 DEF OnActionApproval, Opens, histVars, receiptVars
  <2>2. net' \in [Clients -> [Clients -> Seq(Frame)]] /\ InFlight'
    BY <1>4, <2>1, InFlightRead
  <2>3. Fpr[s] \in signed
    <3>1. net[s][d] \in Seq(Frame)  BY DEF ActionTypeOK, Frame
    <3>2. net[s][d] # <<>> /\ Head(net[s][d]).op = "approval"  BY <2>1 DEF Reads
    <3>3. 1 \in 1..Len(net[s][d]) /\ net[s][d][1].op = "approval"  BY <3>1, <3>2
    <3> QED  BY <3>3 DEF InFlight
  <2>4. /\ phase' \in [Clients -> Phases] /\ approvers' \in [Clients -> SUBSET Ids]
        /\ rpc' \in [Clients -> {"idle", "perform", "check", "finalize", "reset", "stopped"}]
        /\ Counted' /\ Gated' /\ PerformOnce'
    BY <2>1, <2>3, CountFacts
  <2>5. ActionTypeOK'
    BY <1>7, <2>2, <2>4 DEF OnActionApproval, ActionTypeOK, Frame, receiptVars, histVars
  <2> QED  BY <2>2, <2>4, <2>5
<1>8. ASSUME NEW s \in Clients, NEW d \in Clients, OnActionVeto(s, d) PROVE Inv'
  <2>1. net' \in [Clients -> [Clients -> Seq(Frame)]] /\ InFlight'
    BY <1>4, <1>8, InFlightRead DEF OnActionVeto, Opens, histVars
  <2>2. phase' \in [Clients -> Phases]  BY <1>8 DEF OnActionVeto, ActionTypeOK, Phases
  <2>3. ActionTypeOK'
    BY <1>8, <2>1, <2>2 DEF OnActionVeto, ActionTypeOK, Frame, receiptVars, histVars
  <2>4. phase[Requester] = "executed" => phase'[Requester] = "executed"
    BY <1>8, RequesterAssumption DEF OnActionVeto, ActionTypeOK
  <2> QED  BY <1>8, <2>1, <2>3, <2>4, PlainStep DEF OnActionVeto, receiptVars, histVars
<1>9. ASSUME NEW s \in Clients, NEW d \in Clients, OnReceiptRequest(s, d) PROVE Inv'
  <2> DEFINE f == [op |-> "rack", ep |-> epoch[d]]
  <2>1. net \in [Clients -> [Clients -> Seq(Frame)]]  BY DEF ActionTypeOK, Frame
  <2>2. f \in Frame  BY DEF ActionTypeOK, Frame, Ops
  <2>3. net[s][d] # <<>>  BY <1>9 DEF OnReceiptRequest
  <2>4. net' = [x \in Clients |-> [y \in Clients |->
                  IF x = s /\ y = d THEN Tail(net[x][y])
                  ELSE IF x = d /\ y # d THEN Append(net[x][y], f) ELSE net[x][y]]]
    BY <1>9 DEF OnReceiptRequest
  <2> HIDE DEF f
  <2>5. \A x, y \in Clients :
          net'[x][y] = IF x = s /\ y = d THEN Tail(net[x][y])
                       ELSE IF x = d /\ y # d THEN Append(net[x][y], f) ELSE net[x][y]
    BY <2>4
  <2>6. ASSUME NEW x \in Clients, NEW y \in Clients
        PROVE  /\ net'[x][y] \in Seq(Frame)
               /\ \A i \in 1..Len(net'[x][y]) :
                    \/ \E j \in 1..Len(net[x][y]) : net'[x][y][i] = net[x][y][j]
                    \/ x = d /\ net'[x][y][i] = f
    <3>1. net[x][y] \in Seq(Frame)  BY <2>1
    <3>2. CASE x = s /\ y = d
      <4>1. net'[x][y] = Tail(net[x][y]) /\ net[x][y] # <<>>  BY <2>3, <2>5, <3>2
      <4> QED  BY <4>1, <3>1, <2>2, QueueFacts
    <3>3. CASE ~(x = s /\ y = d) /\ x = d /\ y # d
      <4>1. net'[x][y] = Append(net[x][y], f)  BY <2>5, <3>3
      <4> QED  BY <4>1, <3>1, <3>3, <2>2, QueueFacts
    <3>4. CASE ~(x = s /\ y = d) /\ ~(x = d /\ y # d)
      <4>1. net'[x][y] = net[x][y]  BY <2>5, <3>4
      <4> QED  BY <4>1, <3>1
    <3> QED  BY <3>2, <3>3, <3>4
  <2>9. net' \in [Clients -> [Clients -> Seq(Frame)]]  BY <2>4, <2>6
  <2>12. \A x, y \in Clients : \A i \in 1..Len(net'[x][y]) :
           \/ \E j \in 1..Len(net[x][y]) : net'[x][y][i] = net[x][y][j]
           \/ x = d /\ net'[x][y][i] = f
    BY <2>6
  <2>13. Adds(d, f)  BY <2>12 DEF Adds
  <2>14. f.op # "approval"  BY DEF f
  <2>15. InFlight'  BY <1>9, <2>13, <2>14, InFlightKept DEF OnReceiptRequest, histVars
  <2>16. ActionTypeOK'
    BY <1>9, <2>9 DEF OnReceiptRequest, ActionTypeOK, Frame, trackVars, receiptVars, histVars
  <2> QED
    BY <1>9, <2>15, <2>16, PlainStep DEF OnReceiptRequest, trackVars, receiptVars, histVars
<1>10. ASSUME NEW s \in Clients, NEW d \in Clients, OnReceiptAck(s, d) PROVE Inv'
  <2>1. net' \in [Clients -> [Clients -> Seq(Frame)]] /\ InFlight'
    BY <1>4, <1>10, InFlightRead DEF OnReceiptAck, Opens, histVars
  <2>2. /\ rpc' \in [Clients -> {"idle", "perform", "check", "finalize", "reset", "stopped"}]
        /\ rsigs' \in SUBSET Ids
        /\ rpc'[Requester] = "perform" => rpc[Requester] = "perform"
    <3>1. CASE d = Requester /\ round
      <4>1. rsigs' = rsigs \cup {Fpr[s]} /\ rpc' = [rpc EXCEPT ![d] = "check"]
        BY <1>10, <3>1 DEF OnReceiptAck
      <4> QED  BY <4>1, <3>1, ActionFprAssumption DEF ActionTypeOK
    <3>2. CASE ~(d = Requester /\ round)
      <4>1. rsigs' = rsigs /\ rpc' = rpc  BY <1>10, <3>2 DEF OnReceiptAck
      <4> QED  BY <4>1 DEF ActionTypeOK
    <3> QED  BY <3>1, <3>2, Zenon
  <2>3. ActionTypeOK'
    BY <1>10, <2>1, <2>2 DEF OnReceiptAck, ActionTypeOK, Frame, trackVars, histVars
  <2> QED  BY <1>10, <2>1, <2>2, <2>3, PlainStep DEF OnReceiptAck, trackVars, histVars
<1>11. ASSUME NEW s \in Clients, NEW d \in Clients, OnVanish(s, d) PROVE Inv'
  <2>1. net' \in [Clients -> [Clients -> Seq(Frame)]] /\ InFlight'
    BY <1>4, <1>11, InFlightRead DEF OnVanish, histVars
  <2>2. /\ epoch' \in [Clients -> Nat] /\ phase' \in [Clients -> Phases]
        /\ approvers' \in [Clients -> SUBSET Ids]
        /\ round' \in BOOLEAN /\ rsigs' \in SUBSET Ids /\ timer' \in {"none", "armed"}
        /\ done' = done /\ receipts' = receipts /\ burns' = burns
        /\ \A x \in Clients : approvers'[x] \subseteq approvers[x]
        /\ round' => round
        /\ phase[Requester] = "executed" => phase'[Requester] = "executed"
    BY <1>11, ResetFacts DEF OnVanish
  <2>3. ActionTypeOK'  BY <1>11, <2>1, <2>2 DEF OnVanish, ActionTypeOK, Frame, histVars
  <2> QED  BY <1>11, <2>1, <2>2, <2>3, PlainStep DEF OnVanish, histVars
<1> QED
  BY <1>1, <1>2, <1>3, <1>5, <1>6, <1>7, <1>8, <1>9, <1>10, <1>11 DEF Read

\* The inductive invariant holds of the whole specification.
THEOREM ActionInvariant == ActionSpec => []Inv
<1>1. Inv /\ [ActionNext]_actionVars => Inv'
  <2> SUFFICES ASSUME Inv, [ActionNext]_actionVars PROVE Inv'  OBVIOUS
  <2>1. CASE UNCHANGED actionVars
    <3> USE <2>1 DEF actionVars, trackVars, receiptVars, histVars
    <3>1. ActionTypeOK'  BY DEF Inv, ActionTypeOK
    <3>2. InFlight'  BY InFlightRead DEF Inv
    <3> QED  BY <3>1, <3>2, PlainStep
  <2>2. CASE ActionNext
    BY <2>2, GateSteps, ReceiptSteps, ReadSteps DEF ActionNext, Command
  <2> QED  BY <2>1, <2>2
<1> QED  BY <1>1, InitInv, PTL DEF ActionSpec

\* Every variable keeps its type.
THEOREM ActionTypes == ActionSpec => []ActionTypeOK
<1>1. Inv => ActionTypeOK  BY DEF Inv
<1> QED  BY <1>1, ActionInvariant, PTL

\* countApproval lets nobody scuttle alone: performing or burning takes Quorum - 1
\* signatures of identities other than the requester's.
THEOREM NobodyActsAlone == ActionSpec => []TwoPerson
<1>1. Inv => TwoPerson
  BY DEF Inv, ActionTypeOK, Gated, TwoPerson, Enough
<1> QED  BY <1>1, ActionInvariant, PTL

\* The callback of an approved request runs at most once, and never for a request
\* the requester saw vetoed, expired or dropped.
THEOREM PerformsAtMostOnce == ActionSpec => []PerformOnce
<1>1. Inv => PerformOnce  BY DEF Inv
<1> QED  BY <1>1, ActionInvariant, PTL
\* finalizeReceipt burns for an open round only, and closes it.
LEMMA FinalizeBurns ==
  ASSUME ActionTypeOK, BurnAfterReceipt, FinalizeReceipt
  PROVE  BurnAfterReceipt'
<1>1. CASE round
  <2>1. burns = 0  BY <1>1 DEF BurnAfterReceipt, ActionTypeOK
  <2>2. burns' = 1 /\ Requester \in done' /\ ~round'  BY <1>1, <2>1 DEF FinalizeReceipt
  <2> QED  BY <2>2 DEF BurnAfterReceipt
<1>2. CASE ~round
  BY <1>2 DEF FinalizeReceipt, receiptVars, BurnAfterReceipt
<1> QED  BY <1>1, <1>2

\* A step that burns nothing, opens no round and keeps the receiptDone latch.
LEMMA BurnKept ==
  ASSUME BurnAfterReceipt, burns' = burns, done \subseteq done', round' => round
  PROVE  BurnAfterReceipt'
BY DEF BurnAfterReceipt

\* One approval burns once, and only after the receipt of its round was emitted or the
\* server's own scuttle had emitted one.
THEOREM BurnFollowsReceipt == ActionSpec => []BurnAfterReceipt
<1>1. ActionInit => BurnAfterReceipt  BY DEF ActionInit, BurnAfterReceipt
<1>2. Inv /\ BurnAfterReceipt /\ [ActionNext]_actionVars => BurnAfterReceipt'
  <2> SUFFICES ASSUME Inv, BurnAfterReceipt, [ActionNext]_actionVars PROVE BurnAfterReceipt'
    OBVIOUS
  <2>1. CASE Perform
    <3>1. performed = 0 /\ ~round /\ burns = 0
      BY <2>1 DEF Perform, Inv, PerformOnce, Gated, ActionTypeOK
    <3>2. CASE Requester \in done
      <4>1. burns' = 1 /\ round' = round /\ done' = done  BY <2>1, <3>1, <3>2 DEF Perform
      <4> QED  BY <4>1, <3>1, <3>2 DEF BurnAfterReceipt
    <3>3. CASE Requester \notin done
      <4>1. burns' = 0  BY <2>1, <3>1, <3>3 DEF Perform
      <4> QED  BY <4>1 DEF BurnAfterReceipt
    <3> QED  BY <3>2, <3>3
  <2>2. CASE ReaderFinalizes \/ TimerFinalizes
    BY <2>2, FinalizeBurns DEF Inv, ReaderFinalizes, TimerFinalizes
  <2>3. CASE RequestAction \/ MaybeFinalizeReceipt \/ ReceiptTimerFires \/ ServerScuttle
    BY <2>3, BurnKept
    DEF RequestAction, MaybeFinalizeReceipt, ReceiptTimerFires, ServerScuttle, receiptVars
  <2>4. ASSUME NEW c \in Clients, Vanish(c) \/ OnScuttleReset(c) \/ (\E s \in Clients : VanishOver(s, c)) PROVE BurnAfterReceipt'
    <3>1. Reset(c)  BY <2>4 DEF Vanish, VanishOver, Ratchets, OnScuttleReset
    <3> QED  BY <3>1, ResetFacts, BurnKept DEF Inv
  <2>5. ASSUME NEW c \in Clients,
               ApproveSend(c) \/ ApproveCount(c) \/ VetoAction(c) \/ ExpireAction(c)
                 \/ OnScuttle(c)
        PROVE  BurnAfterReceipt'
    BY <2>5, BurnKept
    DEF ApproveSend, ApproveCount, VetoAction, ExpireAction, OnScuttle, receiptVars
  <2>6. ASSUME NEW s \in Clients, NEW d \in Clients, Read(s, d) PROVE BurnAfterReceipt'
    <3>1. CASE OnVanish(s, d)
      <4>1. Reset(d)  BY <3>1 DEF OnVanish
      <4> QED  BY <4>1, ResetFacts, BurnKept DEF Inv
    <3>2. CASE ~OnVanish(s, d)
      <4>1. burns' = burns /\ done' = done /\ round' = round
        BY <2>6, <3>2 DEF Read, Undecryptable, OnActionRequest, OnActionApproval,
             OnActionVeto, OnReceiptRequest, OnReceiptAck, receiptVars
      <4> QED  BY <4>1, BurnKept
    <3> QED  BY <3>1, <3>2
  <2>7. CASE UNCHANGED actionVars  BY <2>7, BurnKept DEF actionVars, receiptVars
  <2> QED
    BY <2>1, <2>2, <2>3, <2>4, <2>5, <2>6, <2>7 DEF ActionNext, Command
<1> QED  BY <1>1, <1>2, ActionInvariant, PTL DEF ActionSpec
==============================================================================
