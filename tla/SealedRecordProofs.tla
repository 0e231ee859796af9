------------------------- MODULE SealedRecordProofs --------------------------
(***************************************************************************)
(* Proofs about SealedRecord, for any number of clients, entries, rounds,  *)
(* losses and ratchets.                                                    *)
(*                                                                         *)
(* RecordSound says what a client holds; what it is about to hold is still *)
(* on the wire, in the hands of its read loop or in a half-run command.    *)
(* ChainInv follows every entry from its author to whoever appends it,     *)
(* SignInv every signature from the head its signer held to the round that *)
(* files it, CollectInv a round from its first signature to its last.      *)
(***************************************************************************)
EXTENDS SealedRecord, SequenceTheorems, TLAPS

\* The frames of each client that somebody has yet to handle.
Flight == [s \in Clients |-> UNION {{net[s][d][k] : k \in 1..Len(net[s][d])} : d \in Clients}]

\* A frame on its way to everyone else.
LEMMA BroadcastFrames ==
  ASSUME TypeOK, NEW s \in Clients, NEW op \in {"entry", "request", "ack", "vanish", "left"}, NEW head \in Heads, NEW e \in Nat,
         Broadcast(s, op, head, e)
  PROVE  /\ net' \in [Clients -> [Clients -> Seq(Frame)]]
         /\ \A t \in Clients : t # s => Flight'[t] = Flight[t]
         /\ Flight'[s] \subseteq Flight[s] \cup {[op |-> op, head |-> head, e |-> e, ep |-> epoch[s]]}
<1> DEFINE f == [op |-> op, head |-> head, e |-> e, ep |-> epoch[s]]
<1> DEFINE new == [d \in Clients |-> IF d = s \/ {s, d} \cap gone # {} THEN net[s][d] ELSE Append(net[s][d], f)]
<1>1. f \in Frame BY DEF TypeOK, Frame
<1>2. net' = [net EXCEPT ![s] = new] BY DEF Broadcast, Sent
<1>3. \A d \in Clients : net[s][d] \in Seq(Frame) BY DEF TypeOK
<1> HIDE DEF f
<1>4. \A d \in Clients : new[d] \in Seq(Frame) BY <1>1, <1>3
<1>5. new \in [Clients -> Seq(Frame)] BY <1>4
<1>6. \A d \in Clients : \A k \in 1..Len(new[d]) : new[d][k] = f \/ (k \in 1..Len(net[s][d]) /\ new[d][k] = net[s][d][k])
  <2> TAKE d \in Clients
  <2> DEFINE q == net[s][d]
  <2>1. q \in Seq(Frame) BY <1>3
  <2>2. new[d] = q \/ new[d] = Append(q, f) OBVIOUS
  <2> HIDE DEF q
  <2>3. CASE new[d] = q BY <2>1, <2>3 DEF q
  <2>4. CASE new[d] = Append(q, f)
    <3> TAKE k \in 1..Len(new[d])
    <3>1. Len(new[d]) = Len(q) + 1 /\ Len(q) \in Nat BY <2>1, <2>4, <1>1
    <3>2. k \in 1..Len(q) \/ k = Len(q) + 1 BY <3>1
    <3>3. k \in 1..Len(q) => Append(q, f)[k] = q[k] BY <2>1, <1>1
    <3>4. Append(q, f)[Len(q) + 1] = f BY <2>1, <1>1
    <3> QED BY <2>4, <3>2, <3>3, <3>4 DEF q
  <2> QED BY <2>2, <2>3, <2>4
<1> HIDE DEF new
<1>7. net' \in [Clients -> [Clients -> Seq(Frame)]] BY <1>2, <1>5 DEF TypeOK
<1>8. net'[s] = new /\ \A t \in Clients : t # s => net'[t] = net[t] BY <1>2 DEF TypeOK
<1>9. \A t \in Clients : t # s => Flight'[t] = Flight[t] BY <1>8 DEF Flight
<1>10. Flight'[s] \subseteq Flight[s] \cup {f} BY <1>6, <1>8 DEF Flight
<1> QED BY <1>7, <1>9, <1>10 DEF f

\* A /vanish over an opened frame sends the control frame and changes that frame's epoch only.
LEMMA OverFrames ==
  ASSUME TypeOK, NEW s \in Clients, NEW c \in Clients, VanishOver(s, c)
  PROVE  /\ net' \in [Clients -> [Clients -> Seq(Frame)]]
         /\ \A t \in Clients : \A f \in Flight'[t] :
              f.op = "vanish" \/ \E g \in Flight[t] : g.op = f.op /\ g.head = f.head /\ g.e = f.e
<1> DEFINE v == [op |-> "vanish", head |-> <<>>, e |-> 0, ep |-> epoch[c]]
           q == net[s][c]
           g == q[1]
           h == [g EXCEPT !.ep = @ + 1]
           w == [q EXCEPT ![1] = h]
           new == Sent(c, "vanish", <<>>, 0)
<1>1. \A x, y \in Clients : net[x][y] \in Seq(Frame) BY DEF TypeOK
<1>2. v \in Frame BY DEF TypeOK, Frame, Heads
<1>3. q \in Seq(Frame) /\ q # <<>> /\ s # c BY <1>1 DEF VanishOver
<1>4. Len(q) \in Nat /\ 1 \in 1..Len(q) /\ g \in Frame BY <1>3
<1>5. h \in Frame /\ h.op = g.op /\ h.head = g.head /\ h.e = g.e BY <1>4 DEF Frame
<1>6. net' = [net EXCEPT ![c] = new, ![s][c][1].ep = @ + 1] BY DEF VanishOver
<1> HIDE DEF h
<1>7. w \in Seq(Frame) /\ Len(w) = Len(q) /\ \A k \in 1..Len(q) : w[k] = IF k = 1 THEN h ELSE q[k] BY <1>3, <1>4, <1>5
<1> HIDE DEF v
<1>8. \A d \in Clients : new[d] = net[c][d] \/ new[d] = Append(net[c][d], v) BY DEF Sent, v
<1>9. new \in [Clients -> Seq(Frame)]
  <2>1. new = [d \in Clients |-> new[d]] BY DEF Sent
  <2> HIDE DEF new
  <2>2. ASSUME NEW d \in Clients PROVE new[d] \in Seq(Frame)
    <3>1. net[c][d] \in Seq(Frame) BY <1>1
    <3>2. Append(net[c][d], v) \in Seq(Frame) BY <1>2, <3>1
    <3> QED BY <1>8, <3>1, <3>2
  <2> QED BY <2>1, <2>2
<1> HIDE DEF new
<1>10. \A x, y \in Clients : net'[x][y] = IF x = c THEN new[y] ELSE IF x = s /\ y = c THEN w ELSE net[x][y]
  BY <1>3, <1>6, <1>9 DEF TypeOK, h
<1>11. net' \in [Clients -> [Clients -> Seq(Frame)]]
  <2>1. ASSUME NEW x \in Clients, NEW y \in Clients PROVE net'[x][y] \in Seq(Frame)
    <3>1. net'[x][y] = new[y] \/ net'[x][y] = w \/ net'[x][y] = net[x][y] BY <1>10
    <3>2. new[y] \in Seq(Frame) BY <1>9
    <3> HIDE DEF w
    <3> QED BY <1>1, <1>7, <3>1, <3>2
  <2>2. net' = [x \in Clients |-> net'[x]] /\ \A x \in Clients : net'[x] = [y \in Clients |-> net'[x][y]] BY <1>6, <1>9 DEF TypeOK
  <2> QED BY <2>1, <2>2
<1>12. ASSUME NEW t \in Clients, NEW d \in Clients, NEW k \in 1..Len(net'[t][d]), net'[t][d][k].op # "vanish"
       PROVE  \E j \in 1..Len(net[t][d]) : /\ net[t][d][j].op = net'[t][d][k].op /\ net[t][d][j].head = net'[t][d][k].head
                                           /\ net[t][d][j].e = net'[t][d][k].e
  <2>1. v.op = "vanish" BY DEF v
  <2>2. CASE t = c
    <3>1. net'[t][d] = net[t][d] \/ net'[t][d] = Append(net[t][d], v) BY <1>8, <1>10, <2>2
    <3>2. CASE net'[t][d] = net[t][d] BY <1>12, <3>2
    <3>3. CASE net'[t][d] = Append(net[t][d], v)
      <4>1. net[t][d] \in Seq(Frame) BY <1>1
      <4>2. k \in 1..Len(net[t][d]) \/ k = Len(net[t][d]) + 1 BY <3>3, <4>1, <1>2
      <4>3. k # Len(net[t][d]) + 1 BY <1>12, <2>1, <3>3, <4>1, <1>2
      <4>4. net'[t][d][k] = net[t][d][k] BY <3>3, <4>1, <4>2, <4>3, <1>2
      <4> QED BY <4>2, <4>3, <4>4
    <3> QED BY <3>1, <3>2, <3>3
  <2>3. CASE t = s /\ d = c
    <3>1. net'[t][d] = w /\ net[t][d] = q BY <1>3, <1>10, <2>3
    <3> HIDE DEF q, w
    <3>2. k \in 1..Len(q) BY <1>12, <1>7, <3>1
    <3>3. net'[t][d][k] = IF k = 1 THEN h ELSE q[k] BY <1>7, <3>1, <3>2
    <3> QED BY <1>4, <1>5, <3>1, <3>2, <3>3
  <2>4. CASE t # c /\ ~(t = s /\ d = c) BY <1>10, <1>12, <2>4
  <2> QED BY <2>2, <2>3, <2>4
<1>13. ASSUME NEW t \in Clients, NEW f \in Flight'[t], f.op # "vanish"
       PROVE  \E x \in Flight[t] : x.op = f.op /\ x.head = f.head /\ x.e = f.e
  <2>0. PICK d \in Clients : f \in {net'[t][d][k] : k \in 1..Len(net'[t][d])} BY <1>13 DEF Flight
  <2>1. PICK k \in 1..Len(net'[t][d]) : f = net'[t][d][k] BY <2>0
  <2>2. PICK j \in 1..Len(net[t][d]) : /\ net[t][d][j].op = f.op /\ net[t][d][j].head = f.head /\ net[t][d][j].e = f.e
    BY <1>12, <1>13, <2>1
  <2>3. net[t][d][j] \in Flight[t] BY <2>2 DEF Flight
  <2> QED BY <2>2, <2>3
<1> QED BY <1>11, <1>13

\* A frame taken from the wire.
LEMMA ReadFrames ==
  ASSUME TypeOK, NEW s \in Clients, NEW c \in Clients, net[s][c] # <<>>, net' = [net EXCEPT ![s][c] = Tail(@)]
  PROVE  /\ net' \in [Clients -> [Clients -> Seq(Frame)]]
         /\ Head(net[s][c]) \in Frame /\ Head(net[s][c]) \in Flight[s]
         /\ \A t \in Clients : Flight'[t] \subseteq Flight[t]
<1> DEFINE q == net[s][c]
<1>1. q \in Seq(Frame) /\ q # <<>> BY DEF TypeOK
<1>2. net'[s][c] = Tail(q) BY DEF TypeOK
<1>3. net' = [net EXCEPT ![s] = [net[s] EXCEPT ![c] = Tail(q)]] OBVIOUS
<1>4. \A t \in Clients, d \in Clients : t # s \/ d # c => net'[t][d] = net[t][d] BY <1>3 DEF TypeOK
<1> HIDE DEF q
<1>5. Tail(q) \in Seq(Frame) /\ Head(q) \in Frame /\ Head(q) = q[1] /\ 1 \in 1..Len(q) BY <1>1
<1>6. Len(q) \in Nat /\ Len(Tail(q)) = Len(q) - 1 BY <1>1
<1>7. \A k \in 1..Len(Tail(q)) : k + 1 \in 1..Len(q) /\ Tail(q)[k] = q[k + 1] BY <1>1, <1>6
<1>8. net' \in [Clients -> [Clients -> Seq(Frame)]] BY SMTT(30), <1>3, <1>5 DEF TypeOK
<1>9. Head(q) \in Flight[s] BY <1>5 DEF Flight, q
<1>10. \A t \in Clients, d \in Clients : \A k \in 1..Len(net'[t][d]) : \E j \in 1..Len(net[t][d]) : net'[t][d][k] = net[t][d][j]
  <2> TAKE t \in Clients, d \in Clients
  <2>1. CASE t = s /\ d = c BY <1>2, <1>7, <2>1 DEF q
  <2>2. CASE t # s \/ d # c BY <1>4, <2>2
  <2> QED BY <2>1, <2>2
<1>11. \A t \in Clients : Flight'[t] \subseteq Flight[t] BY <1>10 DEF Flight
<1> QED BY <1>5, <1>8, <1>9, <1>11 DEF q

\* Every step keeps the types.
LEMMA TypeStep ==
  ASSUME TypeOK, Next
  PROVE  TypeOK'
<1> USE DEF chainVars, roundVars, userVars, readVars, roomVars
<1>0. <<>> \in Heads /\ 0 \in Nat /\ \A c \in Clients : /\ chain[c] \in Heads /\ pending[c] \in Heads /\ sealHead[c] \in Heads
                                        /\ uhead[c] \in Heads /\ rhead[c] \in Heads
  BY DEF TypeOK, Heads
<1>a. ASSUME NEW c \in Clients, AppendSpec(c)
      PROVE  /\ net' \in [Clients -> [Clients -> Seq(Frame)]] /\ prevOf' \in Seq(Heads) /\ chain' \in [Clients -> Heads]
             /\ held' \in [Clients -> SUBSET Heads]
  <2> DEFINE e == Len(prevOf) + 1
  <2>1. e \in Nat BY DEF TypeOK
  <2>2. net' \in [Clients -> [Clients -> Seq(Frame)]] BY <1>0, <1>a, <2>1, BroadcastFrames DEF AppendSpec
  <2>3. prevOf' \in Seq(Heads) BY <1>0, <1>a DEF AppendSpec, TypeOK
  <2>4. chain' = [chain EXCEPT ![c] = Append(chain[c], e)] BY <1>a DEF AppendSpec
  <2> HIDE DEF e
  <2>5. Append(chain[c], e) \in Heads BY <1>0, <2>1 DEF Heads
  <2>6. chain' \in [Clients -> Heads] BY <2>4, <2>5 DEF TypeOK
  <2>7. held' \in [Clients -> SUBSET Heads]
    <3>1. chain'[c] \in Heads BY <2>6
    <3>2. held' = [held EXCEPT ![c] = held[c] \cup {chain'[c]}] /\ held[c] \cup {chain'[c]} \in SUBSET Heads
      BY <1>a, <3>1 DEF AppendSpec, TypeOK
    <3> QED BY <3>2 DEF TypeOK
  <2> QED BY <2>2, <2>3, <2>6, <2>7
<1>1. ASSUME NEW c \in Clients, Decide(c) PROVE TypeOK'
  BY <1>1, <1>a DEF Decide, TypeOK
<1>2. ASSUME NEW c \in Clients, Seal(c) PROVE TypeOK'
  BY <1>2 DEF Seal, TypeOK
<1>3. ASSUME NEW c \in Clients, AppendClockNotes(c) PROVE TypeOK'
  <2>1. /\ net' \in [Clients -> [Clients -> Seq(Frame)]] /\ prevOf' \in Seq(Heads) /\ chain' \in [Clients -> Heads]
        /\ held' \in [Clients -> SUBSET Heads]
    BY <1>3, <1>a DEF AppendClockNotes, TypeOK
  <2> QED BY <1>3, <2>1 DEF AppendClockNotes, TypeOK
<1>4. ASSUME NEW c \in Clients, SealCosigns(c) PROVE TypeOK'
  BY <1>0, <1>4 DEF SealCosigns, TypeOK
<1>5. ASSUME NEW c \in Clients, SealRefused(c) PROVE TypeOK'
  BY <1>5 DEF SealRefused, TypeOK
<1>6. ASSUME NEW c \in Clients, SealInitiates(c) PROVE TypeOK'
  BY <1>0, <1>6 DEF SealInitiates, TypeOK
<1>7. ASSUME NEW c \in Clients, SealRequest(c) PROVE TypeOK'
  <2>1. net' \in [Clients -> [Clients -> Seq(Frame)]] BY <1>0, <1>7, BroadcastFrames DEF SealRequest
  <2> QED BY <1>0, <1>7, <2>1 DEF SealRequest, TypeOK
<1>b. ASSUME NEW c \in Clients, NEW h \in Heads, SendSealAck(c, h)
      PROVE  /\ net' \in [Clients -> [Clients -> Seq(Frame)]] /\ signed' \in SUBSET (Clients \X Heads)
             /\ pending' \in [Clients -> Heads]
  <2>1. net' \in [Clients -> [Clients -> Seq(Frame)]] BY <1>0, <1>b, BroadcastFrames DEF SendSealAck
  <2>2. signed' = signed \cup {<<c, h>>} /\ pending' = [pending EXCEPT ![c] = <<>>] BY <1>b DEF SendSealAck
  <2>3. <<c, h>> \in Clients \X Heads OBVIOUS
  <2>4. pending' \in [Clients -> Heads] BY <1>0, <2>2 DEF TypeOK
  <2>5. signed' \in SUBSET (Clients \X Heads) BY <2>2, <2>3 DEF TypeOK
  <2> QED BY <2>1, <2>4, <2>5
<1>8. ASSUME NEW c \in Clients, UserAcks(c) PROVE TypeOK'
  <2>1. /\ net' \in [Clients -> [Clients -> Seq(Frame)]] /\ signed' \in SUBSET (Clients \X Heads) /\ pending' \in [Clients -> Heads]
    BY <1>0, <1>8, <1>b DEF UserAcks
  <2> QED BY <1>0, <1>8, <2>1 DEF UserAcks, TypeOK
<1>c. ASSUME NEW c \in Clients, Reset(c)
      PROVE  /\ epoch' \in [Clients -> Nat] /\ chain' \in [Clients -> Heads] /\ clock' \in SUBSET Clients
             /\ pending' \in [Clients -> Heads] /\ sealHead' \in [Clients -> Heads] /\ lastHead' \in [Clients -> Heads]
             /\ sigs' \in [Clients -> SUBSET Clients] /\ lastSigs' \in [Clients -> SUBSET Clients]
             /\ handled' \in [Clients -> SUBSET Clients] /\ timer' \in [Clients -> {"none", "armed", "expired"}]
  BY <1>0, <1>c DEF Reset, TypeOK
<1>9. ASSUME NEW c \in Clients, Vanish(c) \/ \E s \in Clients : VanishOver(s, c) PROVE TypeOK'
  <2>1. net' \in [Clients -> [Clients -> Seq(Frame)]]
    <3>1. CASE Vanish(c) BY <1>0, <3>1, BroadcastFrames DEF Vanish
    <3>2. CASE \E s \in Clients : VanishOver(s, c) BY <1>0, <3>2, OverFrames
    <3> QED BY <1>9, <3>1, <3>2
  <2>2. vanished' \in Nat BY <1>9 DEF Vanish, VanishOver, Ratchets, TypeOK
  <2>3. Reset(c) BY <1>9 DEF Vanish, VanishOver, Ratchets
  <2> QED BY <1>c, <2>1, <2>2, <2>3 DEF Reset, TypeOK
<1>10. ASSUME NEW c \in Clients, ReaderAcks(c) PROVE TypeOK'
  <2>1. /\ net' \in [Clients -> [Clients -> Seq(Frame)]] /\ signed' \in SUBSET (Clients \X Heads) /\ pending' \in [Clients -> Heads]
    BY <1>0, <1>10, <1>b DEF ReaderAcks
  <2> QED BY <1>0, <1>10, <2>1 DEF ReaderAcks, TypeOK
<1>11. ASSUME NEW c \in Clients, MaybeFinalize(c) PROVE TypeOK'
  <2>1. upc' \in [Clients -> {"idle", "notes", "decide", "ack", "request", "check", "finalize"}] BY <1>11 DEF MaybeFinalize, TypeOK
  <2>2. rpc' \in [Clients -> {"idle", "ack", "check", "finalize"}] BY <1>11 DEF MaybeFinalize, TypeOK
  <2> QED BY <1>11, <2>1, <2>2 DEF MaybeFinalize, TypeOK
<1>d. ASSUME NEW c \in Clients, FinalizeSeal(c)
      PROVE  /\ sealHead' \in [Clients -> Heads] /\ lastHead' \in [Clients -> Heads]
             /\ sigs' \in [Clients -> SUBSET Clients] /\ lastSigs' \in [Clients -> SUBSET Clients]
             /\ handled' \in [Clients -> SUBSET Clients] /\ timer' \in [Clients -> {"none", "armed", "expired"}]
             /\ complete' \in [Clients -> Nat]
  <2>1. CASE Sealing(c)
    <3>1. /\ sealHead' = [sealHead EXCEPT ![c] = <<>>] /\ lastHead' = [lastHead EXCEPT ![c] = sealHead[c]]
          /\ sigs' = [sigs EXCEPT ![c] = {}] /\ lastSigs' = [lastSigs EXCEPT ![c] = sigs[c]]
          /\ timer' = [timer EXCEPT ![c] = "none"] /\ complete' = [complete EXCEPT ![c] = @ + 1] /\ handled' = handled
      BY <1>d, <2>1 DEF FinalizeSeal
    <3>2. sealHead' \in [Clients -> Heads] /\ lastHead' \in [Clients -> Heads] BY <1>0, <3>1 DEF TypeOK
    <3>3. sigs' \in [Clients -> SUBSET Clients] /\ lastSigs' \in [Clients -> SUBSET Clients] BY <3>1 DEF TypeOK
    <3>4. timer' \in [Clients -> {"none", "armed", "expired"}] /\ complete' \in [Clients -> Nat] BY <3>1 DEF TypeOK
    <3> QED BY <3>1, <3>2, <3>3, <3>4 DEF TypeOK
  <2>2. CASE ~Sealing(c) BY <1>0, <1>d, <2>2 DEF FinalizeSeal, TypeOK
  <2> QED BY <2>1, <2>2
<1>12. ASSUME NEW c \in Clients, CallerFinalizes(c) PROVE TypeOK'
  <2>1. upc' \in [Clients -> {"idle", "notes", "decide", "ack", "request", "check", "finalize"}] BY <1>12 DEF CallerFinalizes, TypeOK
  <2>2. rpc' \in [Clients -> {"idle", "ack", "check", "finalize"}] BY <1>12 DEF CallerFinalizes, TypeOK
  <2>3. FinalizeSeal(c) BY <1>12 DEF CallerFinalizes
  <2> QED BY <1>12, <1>d, <2>1, <2>2, <2>3 DEF CallerFinalizes, TypeOK
<1>13. ASSUME NEW c \in Clients, TimerFires(c) PROVE TypeOK'
  BY SMTT(30), <1>13 DEF TimerFires, TypeOK
<1>14. ASSUME NEW c \in Clients, TimerFinalizes(c) PROVE TypeOK'
  <2>1. due' \in [Clients -> Nat] BY <1>14 DEF TimerFinalizes, TypeOK
  <2>2. FinalizeSeal(c) BY <1>14 DEF TimerFinalizes
  <2> QED BY <1>14, <1>d, <2>1, <2>2 DEF TimerFinalizes, TypeOK
<1>15. ASSUME NEW c \in Clients, Leave(c) PROVE TypeOK'
  <2>1. net' \in [Clients -> [Clients -> Seq(Frame)]] BY <1>0, <1>15, BroadcastFrames DEF Leave
  <2> QED BY <1>15, <2>1 DEF Leave, TypeOK
<1>e. ASSUME NEW s \in Clients, NEW d \in Clients, NEW op, Reads(s, d, op)
      PROVE  net' \in [Clients -> [Clients -> Seq(Frame)]] /\ Head(net[s][d]) \in Frame
  BY <1>e, ReadFrames DEF Reads
<1>16. ASSUME NEW s \in Clients, NEW d \in Clients, Undecryptable(s, d) PROVE TypeOK'
  BY <1>16, <1>e DEF Undecryptable, TypeOK
<1>17. ASSUME NEW s \in Clients, NEW d \in Clients, OnRecordEntry(s, d) PROVE TypeOK'
  <2> DEFINE f == Head(net[s][d])
  <2>1. net' \in [Clients -> [Clients -> Seq(Frame)]] /\ f \in Frame BY <1>17, <1>e DEF OnRecordEntry, Opens
  <2>2. f.e \in Nat BY <2>1 DEF Frame
  <2>3. chain' = [chain EXCEPT ![d] = IF Links(d, f) THEN Append(chain[d], f.e) ELSE chain[d]] BY <1>17 DEF OnRecordEntry
  <2>4. Append(chain[d], f.e) \in Heads
    <3> HIDE DEF f
    <3> QED BY <1>0, <2>2 DEF Heads
  <2> HIDE DEF f
  <2>5. chain' \in [Clients -> Heads] BY <2>3, <2>4 DEF TypeOK
  <2>6. held' \in [Clients -> SUBSET Heads]
    <3>1. chain'[d] \in Heads BY <2>5
    <3>2. held' = [held EXCEPT ![d] = held[d] \cup {chain'[d]}] /\ held[d] \cup {chain'[d]} \in SUBSET Heads
      BY <1>17, <3>1 DEF OnRecordEntry, TypeOK
    <3> QED BY <3>2 DEF TypeOK
  <2> QED BY <1>17, <2>1, <2>5, <2>6 DEF OnRecordEntry, TypeOK
<1>18. ASSUME NEW s \in Clients, NEW d \in Clients, OnSealRequest(s, d) PROVE TypeOK'
  <2>1. net' \in [Clients -> [Clients -> Seq(Frame)]] /\ Head(net[s][d]).head \in Heads
    BY <1>18, <1>e DEF OnSealRequest, Opens, Frame
  <2> QED BY <1>18, <2>1 DEF OnSealRequest, TypeOK
<1>19. ASSUME NEW s \in Clients, NEW d \in Clients, OnSealAck(s, d) PROVE TypeOK'
  <2>1. net' \in [Clients -> [Clients -> Seq(Frame)]] BY <1>19, <1>e DEF OnSealAck, Opens
  <2>2. /\ \E b \in BOOLEAN : sigs' = [sigs EXCEPT ![d] = IF b THEN sigs[d] \cup {s} ELSE sigs[d]]
        /\ lastSigs' = [lastSigs EXCEPT ![d] = lastSigs[d] \cup {s}] \/ lastSigs' = [lastSigs EXCEPT ![d] = lastSigs[d]]
        /\ \E b \in BOOLEAN : handled' = [handled EXCEPT ![d] = IF b THEN handled[d] \cup {s} ELSE handled[d]]
        /\ \E b \in BOOLEAN : rpc' = [rpc EXCEPT ![d] = IF b THEN "check" ELSE rpc[d]]
    BY <1>19 DEF OnSealAck
  <2>3. sigs' \in [Clients -> SUBSET Clients] BY <2>2 DEF TypeOK
  <2>4. lastSigs' \in [Clients -> SUBSET Clients]
    <3>1. lastSigs \in [Clients -> SUBSET Clients] BY DEF TypeOK
    <3>2. lastSigs[d] \in SUBSET Clients /\ lastSigs[d] \cup {s} \in SUBSET Clients BY <3>1
    <3>3. PICK x \in SUBSET Clients : lastSigs' = [lastSigs EXCEPT ![d] = x] BY <2>2, <3>2
    <3> QED BY <3>1, <3>3
  <2>5. handled' \in [Clients -> SUBSET Clients] BY <2>2 DEF TypeOK
  <2>6. rpc' \in [Clients -> {"idle", "ack", "check", "finalize"}] BY <2>2 DEF TypeOK
  <2> QED BY <1>19, <2>1, <2>3, <2>4, <2>5, <2>6 DEF OnSealAck, TypeOK
<1>20. ASSUME NEW s \in Clients, NEW d \in Clients, OnMemberLeft(s, d) PROVE TypeOK'
  <2>1. net' \in [Clients -> [Clients -> Seq(Frame)]] BY <1>20, <1>e DEF OnMemberLeft
  <2> QED BY <1>20, <2>1 DEF OnMemberLeft, TypeOK
<1>21. ASSUME NEW s \in Clients, NEW d \in Clients, OnVanish(s, d) PROVE TypeOK'
  <2>1. net' \in [Clients -> [Clients -> Seq(Frame)]] BY <1>21, <1>e DEF OnVanish
  <2>2. Reset(d) /\ vanished' = vanished BY <1>21 DEF OnVanish
  <2> QED BY <1>c, <2>1, <2>2 DEF Reset, TypeOK
<1> QED BY <1>1, <1>2, <1>3, <1>4, <1>5, <1>6, <1>7, <1>8, <1>9, <1>10, <1>11, <1>12, <1>13, <1>14, <1>15, <1>16, <1>17,
           <1>18, <1>19, <1>20, <1>21 DEF Next, Command, Read

\* A chain each of whose entries was appended to what comes before it.
Linked(q, p) == \A i \in 1..Len(q) : q[i] \in 1..Len(p) /\ p[q[i]] = SubSeq(q, 1, i - 1)

\* An entry more leaves the prefixes.
LEMMA PrefixKept ==
  ASSUME NEW q \in Heads, NEW e \in Nat
  PROVE  /\ \A i \in 1..Len(q) : SubSeq(Append(q, e), 1, i - 1) = SubSeq(q, 1, i - 1)
         /\ SubSeq(Append(q, e), 1, Len(q)) = q
<1> DEFINE r == Append(q, e)
<1>1. q \in Seq(Nat) /\ Len(q) \in Nat /\ r \in Seq(Nat) /\ \A j \in 1..Len(q) : r[j] = q[j] /\ q[j] \in Nat BY DEF Heads
<1> HIDE DEF r
<1>2. ASSUME NEW n \in 0..Len(q) PROVE SubSeq(r, 1, n) = SubSeq(q, 1, n)
  <2>1. \A j \in 1..n : j \in 1..Len(q) BY <1>1
  <2>2. 1 \in Int /\ n \in Int BY <1>1
  <2>3. /\ SubSeq(r, 1, n) \in Seq(Nat) /\ Len(SubSeq(r, 1, n)) = (IF 1 <= n THEN n - 1 + 1 ELSE 0)
        /\ \A j \in 1..(n - 1 + 1) : SubSeq(r, 1, n)[j] = r[1 + j - 1]
    BY <1>1, <2>1, <2>2, SubSeqProperties
  <2>4. /\ SubSeq(q, 1, n) \in Seq(Nat) /\ Len(SubSeq(q, 1, n)) = (IF 1 <= n THEN n - 1 + 1 ELSE 0)
        /\ \A j \in 1..(n - 1 + 1) : SubSeq(q, 1, n)[j] = q[1 + j - 1]
    BY <1>1, <2>1, <2>2, SubSeqProperties
  <2>5. \A j \in 1..n : 1 + j - 1 = j /\ j \in 1..(n - 1 + 1) BY <1>1
  <2>6. \A j \in 1..n : SubSeq(r, 1, n)[j] = r[j] /\ SubSeq(q, 1, n)[j] = q[j] /\ r[j] = q[j] BY <1>1, <2>1, <2>3, <2>4, <2>5
  <2>7. Len(SubSeq(r, 1, n)) = n /\ Len(SubSeq(q, 1, n)) = n BY <1>1, <2>3, <2>4
  <2> DEFINE x == SubSeq(r, 1, n)
  <2> DEFINE y == SubSeq(q, 1, n)
  <2>8. x \in Seq(Nat) /\ y \in Seq(Nat) /\ Len(x) = Len(y) /\ \A j \in 1..Len(x) : x[j] = y[j] BY <2>3, <2>4, <2>6, <2>7
  <2> HIDE DEF x, y
  <2>9. x = y BY <2>8, SeqEqual
  <2> QED BY <2>9 DEF x, y
<1>3. SubSeq(q, 1, Len(q)) = q BY <1>1, SubSeqFull
<1>4. \A i \in 1..Len(q) : i - 1 \in 0..Len(q) BY <1>1
<1>5. Len(q) \in 0..Len(q) BY <1>1
<1> QED BY <1>2, <1>3, <1>4, <1>5 DEF r

\* A linked chain with one entry more.
LEMMA LinkOn ==
  ASSUME NEW q \in Heads, NEW p \in Seq(Heads), Linked(q, p), NEW e \in 1..Len(p), p[e] = q
  PROVE  Linked(Append(q, e), p)
<1>1. e \in Nat /\ q \in Seq(Nat) /\ Len(q) \in Nat BY DEF Heads
<1>2. Len(Append(q, e)) = Len(q) + 1 /\ \A i \in 1..Len(q) : Append(q, e)[i] = q[i] BY <1>1
<1>3. Append(q, e)[Len(q) + 1] = e BY <1>1
<1>4. ASSUME NEW i \in 1..(Len(q) + 1) PROVE Append(q, e)[i] \in 1..Len(p) /\ p[Append(q, e)[i]] = SubSeq(Append(q, e), 1, i - 1)
  <2>1. CASE i \in 1..Len(q) BY SMTT(30), <1>1, <1>2, <2>1, PrefixKept DEF Linked
  <2>2. CASE i = Len(q) + 1
    <3>1. i - 1 = Len(q) BY <1>1, <2>2
    <3> QED BY <1>1, <1>3, <2>2, <3>1, PrefixKept
  <2> QED BY <1>1, <2>1, <2>2
<1> QED BY <1>2, <1>4 DEF Linked

\* An entry appended elsewhere leaves a chain linked.
LEMMA LinkStays ==
  ASSUME NEW q \in Heads, NEW p \in Seq(Heads), NEW h \in Heads, Linked(q, p)
  PROVE  Linked(q, Append(p, h))
<1>1. Len(p) \in Nat /\ Len(Append(p, h)) = Len(p) + 1 /\ \A i \in 1..Len(p) : Append(p, h)[i] = p[i] /\ i \in 1..Len(Append(p, h)) OBVIOUS
<1> QED BY <1>1 DEF Linked

\* Where the chains and the entries on their way come from.
ChainInv ==
  /\ \A c \in Clients : Linked(chain[c], prevOf) /\ <<>> \in held[c] /\ chain[c] \in held[c]
  /\ \A s \in Clients : \A f \in Flight[s] : f.op = "entry" => f.e \in 1..Len(prevOf) /\ prevOf[f.e] = f.head
\* A step puts no frame of that kind on the wire.
NoNew(op) ==
  \A s \in Clients : \A f \in Flight'[s] : f.op = op => \E g \in Flight[s] : g.op = op /\ g.head = f.head /\ g.e = f.e

\* A frame of one kind is no frame of another.
LEMMA SentNothing ==
  ASSUME TypeOK, NEW s \in Clients, NEW op \in {"entry", "request", "ack", "vanish", "left"}, NEW head \in Heads, NEW e \in Nat,
         Broadcast(s, op, head, e), NEW other, other # op
  PROVE  NoNew(other)
<1>1. /\ \A t \in Clients : t # s => Flight'[t] = Flight[t]
      /\ Flight'[s] \subseteq Flight[s] \cup {[op |-> op, head |-> head, e |-> e, ep |-> epoch[s]]}
  BY BroadcastFrames
<1> QED BY <1>1 DEF NoNew

\* Reading sends nothing.
LEMMA ReadNothing ==
  ASSUME TypeOK, NEW s \in Clients, NEW d \in Clients, NEW op, Reads(s, d, op)
  PROVE  /\ \A other : NoNew(other)
         /\ Head(net[s][d]) \in Frame /\ Head(net[s][d]) \in Flight[s] /\ Head(net[s][d]).op = op
BY ReadFrames DEF Reads, NoNew

\* A step that leaves the chains alone.
LEMMA ChainKept ==
  ASSUME ChainInv, UNCHANGED chainVars, NoNew("entry")
  PROVE  ChainInv'
BY DEF ChainInv, NoNew, chainVars

\* A ratchet drops the chain.
LEMMA ChainReset ==
  ASSUME TypeOK, ChainInv, NEW c \in Clients, Reset(c), NoNew("entry")
  PROVE  ChainInv'
<1>1. chain' = [chain EXCEPT ![c] = <<>>] /\ prevOf' = prevOf /\ held' = held BY DEF Reset
<1>2. Linked(<<>>, prevOf) BY DEF Linked
<1>3. \A d \in Clients : chain'[d] = chain[d] \/ chain'[d] = <<>> BY <1>1 DEF TypeOK
<1> QED BY <1>1, <1>2, <1>3 DEF ChainInv, NoNew

\* appendRecord links its entry to the chain it holds.
LEMMA ChainAppends ==
  ASSUME TypeOK, ChainInv, NEW c \in Clients, AppendSpec(c)
  PROVE  ChainInv'
<1> DEFINE e == Len(prevOf) + 1
<1> DEFINE q == chain[c]
<1>1. /\ prevOf' = Append(prevOf, q) /\ chain' = [chain EXCEPT ![c] = Append(q, e)]
      /\ held' = [held EXCEPT ![c] = held[c] \cup {chain'[c]}] /\ Broadcast(c, "entry", q, e)
  BY DEF AppendSpec
<1>2. prevOf \in Seq(Heads) /\ q \in Heads /\ e \in Nat BY DEF TypeOK
<1>3. prevOf' \in Seq(Heads) /\ Len(prevOf') = e /\ e \in 1..Len(prevOf') /\ prevOf'[e] = q
      /\ \A i \in 1..Len(prevOf) : prevOf'[i] = prevOf[i] /\ i \in 1..Len(prevOf') BY <1>1, <1>2
<1>4. \A d \in Clients : Linked(chain[d], prevOf')
  <2>1. \A d \in Clients : chain[d] \in Heads BY DEF TypeOK
  <2> QED BY <1>1, <1>2, <2>1, LinkStays DEF ChainInv
<1> HIDE DEF e, q
<1>5. Linked(Append(q, e), prevOf') BY <1>2, <1>3, <1>4, LinkOn DEF q
<1>6. \A d \in Clients : Linked(chain'[d], prevOf')
  <2>1. \A d \in Clients : chain'[d] = chain[d] \/ chain'[d] = Append(q, e) BY <1>1 DEF TypeOK
  <2> QED BY <1>4, <1>5, <2>1
<1>7. \A d \in Clients : <<>> \in held'[d] /\ chain'[d] \in held'[d]
  <2>1. CASE TRUE BY <1>1 DEF TypeOK, ChainInv
  <2> QED BY <2>1
<1>8. /\ \A t \in Clients : t # c => Flight'[t] = Flight[t]
      /\ Flight'[c] \subseteq Flight[c] \cup {[op |-> "entry", head |-> q, e |-> e, ep |-> epoch[c]]}
  BY <1>1, <1>2, BroadcastFrames
<1>9. ASSUME NEW t \in Clients, NEW f \in Flight'[t], f.op = "entry" PROVE f.e \in 1..Len(prevOf') /\ prevOf'[f.e] = f.head
  <2>1. CASE f \in Flight[t] BY <1>3, <1>9, <2>1 DEF ChainInv
  <2>2. CASE f = [op |-> "entry", head |-> q, e |-> e, ep |-> epoch[c]] BY <1>3, <2>2
  <2> QED BY <1>8, <2>1, <2>2
<1> QED BY <1>6, <1>7, <1>9 DEF ChainInv

\* onRecordEntry takes an entry only where it continues the chain.
LEMMA ChainReceives ==
  ASSUME TypeOK, ChainInv, NEW s \in Clients, NEW d \in Clients, OnRecordEntry(s, d)
  PROVE  ChainInv'
<1> DEFINE f == Head(net[s][d])
<1> DEFINE q == chain[d]
<1>1. Reads(s, d, "entry") BY DEF OnRecordEntry, Opens
<1>2. NoNew("entry") /\ f \in Frame /\ f \in Flight[s] /\ f.op = "entry" BY <1>1, ReadNothing
<1>3. /\ prevOf' = prevOf /\ chain' = [chain EXCEPT ![d] = IF f.head = q THEN Append(q, f.e) ELSE q]
      /\ held' = [held EXCEPT ![d] = held[d] \cup {chain'[d]}]
  BY DEF OnRecordEntry, Links
<1>4. prevOf \in Seq(Heads) /\ q \in Heads BY DEF TypeOK
<1>5. f.e \in 1..Len(prevOf) /\ prevOf[f.e] = f.head BY <1>2 DEF ChainInv
<1> HIDE DEF f, q
<1>6. Linked(q, prevOf) BY DEF ChainInv, q
<1>7. f.head = q => Linked(Append(q, f.e), prevOf) BY <1>4, <1>5, <1>6, LinkOn
<1>8. \A t \in Clients : Linked(chain'[t], prevOf')
  <2>1. \A t \in Clients : t # d => chain'[t] = chain[t] BY <1>3 DEF TypeOK
  <2>2. chain'[d] = IF f.head = q THEN Append(q, f.e) ELSE q BY <1>3 DEF TypeOK
  <2> QED BY <1>3, <1>6, <1>7, <2>1, <2>2 DEF ChainInv
<1>9. \A t \in Clients : <<>> \in held'[t] /\ chain'[t] \in held'[t] BY <1>3 DEF TypeOK, ChainInv
<1> QED BY <1>2, <1>3, <1>8, <1>9 DEF ChainInv, NoNew

\* Every step keeps the chains linked.
LEMMA ChainStep ==
  ASSUME TypeOK, ChainInv, Next
  PROVE  ChainInv'
<1>0. /\ <<>> \in Heads /\ 0 \in Nat /\ \A c \in Clients : uhead[c] \in Heads /\ rhead[c] \in Heads
      /\ "request" \in {"entry", "request", "ack", "vanish", "left"} /\ "vanish" \in {"entry", "request", "ack", "vanish", "left"}
      /\ "ack" \in {"entry", "request", "ack", "vanish", "left"} /\ "left" \in {"entry", "request", "ack", "vanish", "left"}
  BY DEF TypeOK, Heads
<1>s. (net' = net) => NoNew("entry") BY DEF NoNew, Flight
<1>1. ASSUME NEW c \in Clients, Decide(c) \/ (AppendClockNotes(c) /\ c \in clock) PROVE ChainInv'
  BY <1>1, ChainAppends DEF Decide, AppendClockNotes
<1>2. ASSUME NEW c \in Clients, \/ Seal(c) \/ (AppendClockNotes(c) /\ c \notin clock) \/ SealCosigns(c) \/ SealRefused(c)
                                \/ SealInitiates(c) \/ MaybeFinalize(c) \/ CallerFinalizes(c) \/ TimerFires(c) \/ TimerFinalizes(c)
      PROVE ChainInv'
  <2>1. UNCHANGED chainVars /\ net' = net
    BY <1>2 DEF Seal, AppendClockNotes, SealCosigns, SealRefused, SealInitiates, MaybeFinalize, CallerFinalizes, TimerFires, TimerFinalizes
  <2> QED BY <1>s, <2>1, ChainKept
<1>3. ASSUME NEW c \in Clients, SealRequest(c) PROVE ChainInv'
  <2>1. UNCHANGED chainVars /\ Broadcast(c, "request", uhead[c], 0) BY <1>3 DEF SealRequest
  <2>2. NoNew("entry") BY <1>0, <2>1, SentNothing
  <2> QED BY <2>1, <2>2, ChainKept
<1>4. ASSUME NEW c \in Clients, UserAcks(c) PROVE ChainInv'
  <2>1. UNCHANGED chainVars /\ Broadcast(c, "ack", uhead[c], 0) BY <1>4 DEF UserAcks, SendSealAck
  <2>2. NoNew("entry") BY <1>0, <2>1, SentNothing
  <2> QED BY <2>1, <2>2, ChainKept
<1>5. ASSUME NEW c \in Clients, ReaderAcks(c) PROVE ChainInv'
  <2>1. UNCHANGED chainVars /\ Broadcast(c, "ack", rhead[c], 0) BY <1>5 DEF ReaderAcks, SendSealAck
  <2>2. NoNew("entry") BY <1>0, <2>1, SentNothing
  <2> QED BY <2>1, <2>2, ChainKept
<1>6. ASSUME NEW c \in Clients, Leave(c) PROVE ChainInv'
  <2>1. UNCHANGED chainVars /\ Broadcast(c, "left", <<>>, 0) BY <1>6 DEF Leave
  <2>2. NoNew("entry") BY <1>0, <2>1, SentNothing
  <2> QED BY <2>1, <2>2, ChainKept
<1>7. ASSUME NEW c \in Clients, Vanish(c) \/ \E s \in Clients : VanishOver(s, c) PROVE ChainInv'
  <2>1. Reset(c) BY <1>7 DEF Vanish, VanishOver, Ratchets
  <2>2. NoNew("entry")
    <3>1. CASE Vanish(c) BY <1>0, <3>1, SentNothing DEF Vanish
    <3>2. CASE \E s \in Clients : VanishOver(s, c)
      <4>1. \A t \in Clients : \A f \in Flight'[t] :
              f.op = "vanish" \/ \E g \in Flight[t] : g.op = f.op /\ g.head = f.head /\ g.e = f.e
        BY <1>0, <3>2, OverFrames
      <4> QED BY <4>1 DEF NoNew
    <3> QED BY <1>7, <3>1, <3>2
  <2> QED BY <2>1, <2>2, ChainReset
<1>8. ASSUME NEW s \in Clients, NEW d \in Clients, OnVanish(s, d) PROVE ChainInv'
  <2>1. NoNew("entry") /\ Reset(d) BY <1>8, ReadNothing DEF OnVanish
  <2> QED BY <2>1, ChainReset
<1>9. ASSUME NEW s \in Clients, NEW d \in Clients, OnRecordEntry(s, d) PROVE ChainInv'
  BY <1>9, ChainReceives
<1>10. ASSUME NEW s \in Clients, NEW d \in Clients, Undecryptable(s, d) \/ OnSealRequest(s, d) \/ OnSealAck(s, d) \/ OnMemberLeft(s, d)
       PROVE ChainInv'
  <2>1. (\E op : Reads(s, d, op)) /\ UNCHANGED chainVars
    BY <1>10, Zenon DEF Undecryptable, OnSealRequest, OnSealAck, OnMemberLeft, Opens
  <2>2. NoNew("entry") BY <2>1, ReadNothing
  <2> QED BY <2>1, <2>2, ChainKept
<1> QED BY <1>1, <1>2, <1>3, <1>4, <1>5, <1>6, <1>7, <1>8, <1>9, <1>10 DEF Next, Command, Read

\* The heads a goroutine carries across an unlock, and the acks on their way.
SignInv ==
  /\ \A x \in signed : x[2] # <<>> /\ x[2] \in held[x[1]]
  /\ \A c \in Clients : /\ \A d \in sigs[c] : <<d, sealHead[c]>> \in signed
                        /\ \A d \in lastSigs[c] : <<d, lastHead[c]>> \in signed
                        /\ sealHead[c] # <<>> => sealHead[c] \in held[c]
                        /\ upc[c] = "ack" => uhead[c] # <<>> /\ uhead[c] \in held[c]
                        /\ rpc[c] = "ack" => rhead[c] # <<>> /\ rhead[c] \in held[c]
  /\ \A s \in Clients : \A f \in Flight[s] : f.op = "ack" => <<s, f.head>> \in signed

\* What was held stays in the history.
LEMMA HeldStays ==
  ASSUME TypeOK, Next
  PROVE  \A c \in Clients : held[c] \subseteq held'[c]
<1> USE DEF chainVars
<1>1. ASSUME NEW c \in Clients, AppendSpec(c) PROVE \A d \in Clients : held[d] \subseteq held'[d]
  BY <1>1 DEF AppendSpec, TypeOK
<1>2. ASSUME NEW s \in Clients, NEW d \in Clients, OnRecordEntry(s, d) PROVE \A c \in Clients : held[c] \subseteq held'[c]
  BY <1>2 DEF OnRecordEntry, TypeOK
<1>3. ASSUME NEW c \in Clients, Command(c) PROVE held' = held \/ AppendSpec(c)
  BY <1>3 DEF Command, Decide, Seal, AppendClockNotes, SealCosigns, SealRefused, SealInitiates, SealRequest, UserAcks, Vanish, VanishOver, Ratchets, Reset
<1>4. ASSUME NEW c \in Clients, \/ ReaderAcks(c) \/ MaybeFinalize(c) \/ CallerFinalizes(c)
                                \/ TimerFires(c) \/ TimerFinalizes(c) \/ Leave(c)
      PROVE  held' = held
  BY <1>4 DEF ReaderAcks, MaybeFinalize, CallerFinalizes, TimerFires, TimerFinalizes, Leave
<1>5. ASSUME NEW s \in Clients, NEW d \in Clients, Read(s, d) PROVE held' = held \/ OnRecordEntry(s, d)
  BY <1>5 DEF Read, Undecryptable, OnSealRequest, OnSealAck, OnMemberLeft, OnVanish, Reset
<1> QED BY <1>1, <1>2, <1>3, <1>4, <1>5 DEF Next

\* A step that signs nothing, sends no ack and leaves the rounds alone.
LEMMA SignKept ==
  ASSUME SignInv, \A c \in Clients : held[c] \subseteq held'[c], NoNew("ack"), signed \in SUBSET (Clients \X Heads),
         UNCHANGED <<sigs, sealHead, lastSigs, lastHead, signed>>,
         \A c \in Clients : upc'[c] = "ack" => upc[c] = "ack" /\ uhead'[c] = uhead[c],
         \A c \in Clients : rpc'[c] = "ack" => rpc[c] = "ack" /\ rhead'[c] = rhead[c]
  PROVE  SignInv'
BY DEF SignInv, NoNew

\* finalizeSeal files the round's signatures.
LEMMA SignFinalizes ==
  ASSUME TypeOK, SignInv, NEW c \in Clients, FinalizeSeal(c), \A d \in Clients : held[d] \subseteq held'[d], NoNew("ack"),
         signed' = signed,
         \A d \in Clients : upc'[d] = "ack" => upc[d] = "ack" /\ uhead'[d] = uhead[d],
         \A d \in Clients : rpc'[d] = "ack" => rpc[d] = "ack" /\ rhead'[d] = rhead[d]
  PROVE  SignInv'
<1>0. signed \in SUBSET (Clients \X Heads) BY DEF TypeOK
<1>1. CASE ~Sealing(c)
  <2>1. UNCHANGED <<sigs, sealHead, lastSigs, lastHead, signed>> BY <1>1 DEF FinalizeSeal, roundVars
  <2> QED BY <1>0, <2>1, SignKept
<1>2. CASE Sealing(c)
  <2>1. /\ sealHead' = [sealHead EXCEPT ![c] = <<>>] /\ lastHead' = [lastHead EXCEPT ![c] = sealHead[c]]
        /\ sigs' = [sigs EXCEPT ![c] = {}] /\ lastSigs' = [lastSigs EXCEPT ![c] = sigs[c]]
    BY <1>2 DEF FinalizeSeal
  <2>2. \A d \in Clients : /\ d = c => sealHead'[d] = <<>> /\ lastHead'[d] = sealHead[d] /\ sigs'[d] = {} /\ lastSigs'[d] = sigs[d]
                           /\ d # c => sealHead'[d] = sealHead[d] /\ lastHead'[d] = lastHead[d] /\ sigs'[d] = sigs[d] /\ lastSigs'[d] = lastSigs[d]
    BY <2>1 DEF TypeOK
  <2> QED BY <1>0, <2>2 DEF SignInv, NoNew
<1> QED BY <1>1, <1>2

\* A ratchet drops the round.
LEMMA SignResets ==
  ASSUME TypeOK, SignInv, NEW c \in Clients, Reset(c), \A d \in Clients : held[d] \subseteq held'[d], NoNew("ack")
  PROVE  SignInv'
<1>0. signed \in SUBSET (Clients \X Heads) BY DEF TypeOK
<1>1. /\ sealHead' = [sealHead EXCEPT ![c] = <<>>] /\ lastHead' = [lastHead EXCEPT ![c] = <<>>]
      /\ sigs' = [sigs EXCEPT ![c] = {}] /\ lastSigs' = [lastSigs EXCEPT ![c] = {}]
      /\ signed' = signed /\ upc' = upc /\ uhead' = uhead /\ rpc' = rpc /\ rhead' = rhead
  BY DEF Reset, userVars, readVars
<1>2. \A d \in Clients : /\ d = c => sealHead'[d] = <<>> /\ sigs'[d] = {} /\ lastSigs'[d] = {}
                         /\ d # c => sealHead'[d] = sealHead[d] /\ lastHead'[d] = lastHead[d] /\ sigs'[d] = sigs[d] /\ lastSigs'[d] = lastSigs[d]
  BY <1>1 DEF TypeOK
<1> QED BY <1>0, <1>1, <1>2 DEF SignInv, NoNew

\* sendSealAck, for a head this client has held.
LEMMA SignAcks ==
  ASSUME TypeOK, SignInv, NEW c \in Clients, NEW h \in Heads, h # <<>>, h \in held[c], SendSealAck(c, h),
         held' = held, UNCHANGED <<sigs, sealHead, lastSigs, lastHead>>,
         \A d \in Clients : upc'[d] = "ack" => upc[d] = "ack" /\ uhead'[d] = uhead[d],
         \A d \in Clients : rpc'[d] = "ack" => rpc[d] = "ack" /\ rhead'[d] = rhead[d]
  PROVE  SignInv'
<1>1. signed' = signed \cup {<<c, h>>} /\ Broadcast(c, "ack", h, 0) BY DEF SendSealAck
<1>2. "ack" \in {"entry", "request", "ack", "vanish", "left"} /\ 0 \in Nat OBVIOUS
<1>3. /\ \A t \in Clients : t # c => Flight'[t] = Flight[t]
      /\ Flight'[c] \subseteq Flight[c] \cup {[op |-> "ack", head |-> h, e |-> 0, ep |-> epoch[c]]}
  BY <1>1, <1>2, BroadcastFrames
<1>4. \A s \in Clients : \A f \in Flight'[s] : f.op = "ack" => <<s, f.head>> \in signed'
  BY <1>1, <1>3 DEF SignInv
<1>5. \A x \in signed' : x[2] # <<>> /\ x[2] \in held'[x[1]] BY <1>1 DEF SignInv
<1>6. \A d \in Clients : /\ \A x \in sigs'[d] : <<x, sealHead'[d]>> \in signed'
                         /\ \A x \in lastSigs'[d] : <<x, lastHead'[d]>> \in signed'
  BY <1>1 DEF SignInv
<1> QED BY <1>4, <1>5, <1>6 DEF SignInv

\* A seal begins with its initiator's own signature.
LEMMA SignInitiates ==
  ASSUME TypeOK, ChainInv, SignInv, NEW c \in Clients, SealInitiates(c)
  PROVE  SignInv'
<1> DEFINE h == chain[c]
<1>1. /\ h # <<>> /\ signed' = signed \cup {<<c, h>>} /\ held' = held /\ net' = net
      /\ sealHead' = [sealHead EXCEPT ![c] = h] /\ lastHead' = [lastHead EXCEPT ![c] = <<>>]
      /\ sigs' = [sigs EXCEPT ![c] = {c}] /\ lastSigs' = [lastSigs EXCEPT ![c] = {}]
      /\ uhead' = [uhead EXCEPT ![c] = h] /\ upc' = [upc EXCEPT ![c] = "request"] /\ rpc' = rpc /\ rhead' = rhead
  BY DEF SealInitiates, chainVars, readVars
<1>2. h \in held[c] BY DEF ChainInv
<1>3. \A d \in Clients : /\ d = c => sealHead'[d] = h /\ sigs'[d] = {c} /\ lastSigs'[d] = {} /\ upc'[d] = "request"
                         /\ d # c => /\ sealHead'[d] = sealHead[d] /\ lastHead'[d] = lastHead[d] /\ sigs'[d] = sigs[d]
                                     /\ lastSigs'[d] = lastSigs[d] /\ upc'[d] = upc[d] /\ uhead'[d] = uhead[d]
  BY <1>1 DEF TypeOK
<1>4. Flight' = Flight BY <1>1 DEF Flight
<1> HIDE DEF h
<1>5. \A x \in signed' : x[2] # <<>> /\ x[2] \in held'[x[1]] BY <1>1, <1>2 DEF SignInv
<1>6. \A d \in Clients : /\ \A x \in sigs'[d] : <<x, sealHead'[d]>> \in signed'
                         /\ \A x \in lastSigs'[d] : <<x, lastHead'[d]>> \in signed'
  BY <1>1, <1>3 DEF SignInv
<1>7. \A s \in Clients : \A f \in Flight'[s] : f.op = "ack" => <<s, f.head>> \in signed' BY <1>1, <1>4 DEF SignInv
<1>8. \A d \in Clients : /\ sealHead'[d] # <<>> => sealHead'[d] \in held'[d]
                         /\ upc'[d] = "ack" => uhead'[d] # <<>> /\ uhead'[d] \in held'[d]
                         /\ rpc'[d] = "ack" => rhead'[d] # <<>> /\ rhead'[d] \in held'[d]
  BY <1>1, <1>2, <1>3 DEF SignInv
<1> QED BY <1>5, <1>6, <1>7, <1>8 DEF SignInv

\* Every step keeps each signature one of a head its signer held.
LEMMA SignStep ==
  ASSUME TypeOK, ChainInv, SignInv, Next
  PROVE  SignInv'
<1> USE DEF roundVars, userVars, readVars
<1> DEFINE Ops == {"entry", "request", "ack", "vanish", "left"}
<1>0. /\ <<>> \in Heads /\ 0 \in Nat /\ \A c \in Clients : chain[c] \in Heads /\ uhead[c] \in Heads /\ rhead[c] \in Heads
      /\ "request" \in Ops /\ "vanish" \in Ops /\ "entry" \in Ops /\ "left" \in Ops /\ Len(prevOf) + 1 \in Nat
  BY DEF TypeOK, Heads
<1>g. \A c \in Clients : held[c] \subseteq held'[c] BY HeldStays
<1>h. signed \in SUBSET (Clients \X Heads) BY DEF TypeOK
<1>s. (net' = net) => NoNew("ack") BY DEF NoNew, Flight
<1>1. ASSUME NEW c \in Clients, Decide(c) PROVE SignInv'
  <2>1. NoNew("ack") BY <1>0, <1>1, SentNothing DEF Decide, AppendSpec
  <2> QED BY <1>1, <1>g, <1>h, <2>1, SignKept DEF Decide
<1>2. ASSUME NEW c \in Clients, Seal(c) PROVE SignInv'
  <2>1. NoNew("ack") BY <1>2, <1>s DEF Seal
  <2>2. \A d \in Clients : upc'[d] = "ack" => upc[d] = "ack" BY <1>2 DEF Seal, TypeOK
  <2> QED BY <1>2, <1>g, <1>h, <2>1, <2>2, SignKept DEF Seal
<1>3. ASSUME NEW c \in Clients, AppendClockNotes(c) PROVE SignInv'
  <2>1. NoNew("ack") BY <1>0, <1>3, <1>s, SentNothing DEF AppendClockNotes, AppendSpec
  <2>2. \A d \in Clients : upc'[d] = "ack" => upc[d] = "ack" BY <1>3 DEF AppendClockNotes, TypeOK
  <2> QED BY <1>3, <1>g, <1>h, <2>1, <2>2, SignKept DEF AppendClockNotes
<1>4. ASSUME NEW c \in Clients, SealCosigns(c) PROVE SignInv'
  <2>1. NoNew("ack") BY <1>4, <1>s DEF SealCosigns
  <2>2. \A d \in Clients : upc'[d] = "ack" => (upc[d] = "ack" /\ uhead'[d] = uhead[d]) \/ (d = c /\ uhead'[d] = chain[d] /\ chain[d] # <<>>)
    BY <1>4 DEF SealCosigns, TypeOK
  <2>3. UNCHANGED <<sigs, sealHead, lastSigs, lastHead, signed, rpc, rhead>> BY <1>4 DEF SealCosigns
  <2>4. \A d \in Clients : chain[d] \in held[d] BY DEF ChainInv
  <2> QED BY <1>g, <1>h, <2>1, <2>2, <2>3, <2>4 DEF SignInv, NoNew
<1>5. ASSUME NEW c \in Clients, SealRefused(c) PROVE SignInv'
  <2>1. NoNew("ack") BY <1>5, <1>s DEF SealRefused
  <2>2. \A d \in Clients : upc'[d] = "ack" => upc[d] = "ack" BY <1>5 DEF SealRefused, TypeOK
  <2> QED BY <1>5, <1>g, <1>h, <2>1, <2>2, SignKept DEF SealRefused
<1>6. ASSUME NEW c \in Clients, SealInitiates(c) PROVE SignInv'
  BY <1>6, SignInitiates
<1>7. ASSUME NEW c \in Clients, SealRequest(c) PROVE SignInv'
  <2>1. NoNew("ack") BY <1>0, <1>7, SentNothing DEF SealRequest
  <2>2. \A d \in Clients : upc'[d] = "ack" => upc[d] = "ack" /\ uhead'[d] = uhead[d] BY <1>7 DEF SealRequest, TypeOK
  <2> QED BY <1>7, <1>g, <1>h, <2>1, <2>2, SignKept DEF SealRequest
<1>8. ASSUME NEW c \in Clients, UserAcks(c) PROVE SignInv'
  <2>1. uhead[c] # <<>> /\ uhead[c] \in held[c] BY <1>8 DEF UserAcks, SignInv
  <2>2. \A d \in Clients : upc'[d] = "ack" => upc[d] = "ack" /\ uhead'[d] = uhead[d] BY <1>8 DEF UserAcks, TypeOK
  <2> QED BY <1>0, <1>8, <2>1, <2>2, SignAcks DEF UserAcks, chainVars
<1>9. ASSUME NEW c \in Clients, Vanish(c) \/ \E s \in Clients : VanishOver(s, c) PROVE SignInv'
  <2>1. NoNew("ack")
    <3>1. CASE Vanish(c) BY <1>0, <3>1, SentNothing DEF Vanish
    <3>2. CASE \E s \in Clients : VanishOver(s, c)
      <4>1. \A t \in Clients : \A f \in Flight'[t] :
              f.op = "vanish" \/ \E g \in Flight[t] : g.op = f.op /\ g.head = f.head /\ g.e = f.e
        BY <1>0, <3>2, OverFrames
      <4> QED BY <4>1 DEF NoNew
    <3> QED BY <1>9, <3>1, <3>2
  <2>2. Reset(c) BY <1>9 DEF Vanish, VanishOver, Ratchets
  <2> QED BY <1>g, <2>1, <2>2, SignResets
<1>10. ASSUME NEW c \in Clients, ReaderAcks(c) PROVE SignInv'
  <2>1. rhead[c] # <<>> /\ rhead[c] \in held[c] BY <1>10 DEF ReaderAcks, SignInv
  <2>2. \A d \in Clients : rpc'[d] = "ack" => rpc[d] = "ack" /\ rhead'[d] = rhead[d] BY <1>10 DEF ReaderAcks, TypeOK
  <2> QED BY <1>0, <1>10, <2>1, <2>2, SignAcks DEF ReaderAcks, chainVars
<1>11. ASSUME NEW c \in Clients, MaybeFinalize(c) PROVE SignInv'
  <2>1. NoNew("ack") BY <1>11, <1>s DEF MaybeFinalize
  <2>2. \A d \in Clients : upc'[d] = "ack" => upc[d] = "ack" BY <1>11 DEF MaybeFinalize, TypeOK
  <2>3. \A d \in Clients : rpc'[d] = "ack" => rpc[d] = "ack" BY <1>11 DEF MaybeFinalize, TypeOK
  <2> QED BY <1>11, <1>g, <1>h, <2>1, <2>2, <2>3, SignKept DEF MaybeFinalize
<1>12. ASSUME NEW c \in Clients, CallerFinalizes(c) PROVE SignInv'
  <2>1. NoNew("ack") BY <1>12, <1>s DEF CallerFinalizes
  <2>2. \A d \in Clients : upc'[d] = "ack" => upc[d] = "ack" BY <1>12 DEF CallerFinalizes, TypeOK
  <2>3. \A d \in Clients : rpc'[d] = "ack" => rpc[d] = "ack" BY <1>12 DEF CallerFinalizes, TypeOK
  <2>4. FinalizeSeal(c) /\ signed' = signed /\ uhead' = uhead /\ rhead' = rhead BY <1>12 DEF CallerFinalizes
  <2> QED BY <1>g, <2>1, <2>2, <2>3, <2>4, SignFinalizes
<1>13. ASSUME NEW c \in Clients, TimerFires(c) PROVE SignInv'
  <2>1. NoNew("ack") BY <1>13, <1>s DEF TimerFires
  <2> QED BY <1>13, <1>g, <1>h, <2>1, SignKept DEF TimerFires
<1>14. ASSUME NEW c \in Clients, TimerFinalizes(c) PROVE SignInv'
  <2>1. NoNew("ack") BY <1>14, <1>s DEF TimerFinalizes
  <2> QED BY <1>14, <1>g, <2>1, SignFinalizes DEF TimerFinalizes
<1>15. ASSUME NEW c \in Clients, Leave(c) PROVE SignInv'
  <2>1. NoNew("ack") BY <1>0, <1>15, SentNothing DEF Leave
  <2> QED BY <1>15, <1>g, <1>h, <2>1, SignKept DEF Leave
<1>16. ASSUME NEW s \in Clients, NEW d \in Clients, Undecryptable(s, d) \/ OnRecordEntry(s, d) \/ OnMemberLeft(s, d) PROVE SignInv'
  <2>1. (\E op : Reads(s, d, op)) /\ UNCHANGED <<roundVars, userVars, readVars, signed>>
    BY <1>16, Zenon DEF Undecryptable, OnRecordEntry, OnMemberLeft, Opens
  <2>2. NoNew("ack") BY <2>1, ReadNothing
  <2> QED BY <1>g, <1>h, <2>1, <2>2, SignKept
<1>17. ASSUME NEW s \in Clients, NEW d \in Clients, OnSealRequest(s, d) PROVE SignInv'
  <2>1. NoNew("ack") BY <1>17, ReadNothing DEF OnSealRequest, Opens
  <2>2. \A c \in Clients : rpc'[c] = "ack" => (rpc[c] = "ack" /\ rhead'[c] = rhead[c]) \/ (rhead'[c] = sealHead[c] /\ sealHead[c] # <<>>)
    BY <1>17 DEF OnSealRequest, TypeOK, Sealing
  <2>3. UNCHANGED <<sigs, sealHead, lastSigs, lastHead, signed, upc, uhead>> BY <1>17 DEF OnSealRequest
  <2> QED BY <1>g, <1>h, <2>1, <2>2, <2>3 DEF SignInv, NoNew
<1>18. ASSUME NEW s \in Clients, NEW d \in Clients, OnSealAck(s, d) PROVE SignInv'
  <2> DEFINE f == Head(net[s][d])
  <2>1. NoNew("ack") /\ f \in Flight[s] /\ f.op = "ack" BY <1>18, ReadNothing DEF OnSealAck, Opens
  <2>2. <<s, f.head>> \in signed BY <2>1 DEF SignInv
  <2>3. \A c \in Clients : sigs'[c] = sigs[c] \/ (sigs'[c] = sigs[c] \cup {s} /\ f.head = sealHead[c]) BY <1>18 DEF OnSealAck, TypeOK
  <2>4. \A c \in Clients : lastSigs'[c] = lastSigs[c] \/ (lastSigs'[c] = lastSigs[c] \cup {s} /\ f.head = lastHead[c])
    BY <1>18 DEF OnSealAck, TypeOK
  <2>5. UNCHANGED <<sealHead, lastHead, signed, upc, uhead, rhead>> BY <1>18 DEF OnSealAck
  <2>6. \A c \in Clients : rpc'[c] = "ack" => rpc[c] = "ack" BY <1>18 DEF OnSealAck, TypeOK
  <2> HIDE DEF f
  <2> QED BY <1>g, <1>h, <2>1, <2>2, <2>3, <2>4, <2>5, <2>6 DEF SignInv, NoNew
<1>19. ASSUME NEW s \in Clients, NEW d \in Clients, OnVanish(s, d) PROVE SignInv'
  <2>1. NoNew("ack") BY <1>19, ReadNothing DEF OnVanish
  <2> QED BY <1>19, <1>g, <2>1, SignResets DEF OnVanish
<1> QED BY <1>1, <1>2, <1>3, <1>4, <1>5, <1>6, <1>7, <1>8, <1>9, <1>10, <1>11, <1>12, <1>13, <1>14, <1>15, <1>16, <1>17,
           <1>18, <1>19 DEF Next, Command, Read

\* No second round is open while the last one can still be amended.
CollectInv ==
  \A c \in Clients :
    /\ handled[c] \subseteq (IF sealHead[c] # <<>> THEN sigs[c] ELSE lastSigs[c])
    /\ sealHead[c] # <<>> => lastHead[c] = <<>>
    /\ complete[c] + (IF sealHead[c] # <<>> THEN 1 ELSE 0) <= rounds[c]

\* Every step keeps a round's signatures one per member.
LEMMA CollectStep ==
  ASSUME TypeOK, CollectInv, Next
  PROVE  CollectInv'
<1> USE DEF roundVars
<1>0. \A c \in Clients : complete[c] \in Nat /\ rounds[c] \in Nat BY DEF TypeOK
<1>s. ASSUME UNCHANGED <<sealHead, sigs, lastHead, lastSigs, handled, complete, rounds>> PROVE CollectInv'
  BY <1>s DEF CollectInv
<1>f. ASSUME NEW c \in Clients, FinalizeSeal(c), rounds' = rounds PROVE CollectInv'
  <2>1. CASE ~Sealing(c) BY <1>f, <1>s, <2>1 DEF FinalizeSeal
  <2>2. CASE Sealing(c)
    <3>1. /\ sealHead' = [sealHead EXCEPT ![c] = <<>>] /\ lastSigs' = [lastSigs EXCEPT ![c] = sigs[c]]
          /\ lastHead' = [lastHead EXCEPT ![c] = sealHead[c]] /\ sigs' = [sigs EXCEPT ![c] = {}]
          /\ complete' = [complete EXCEPT ![c] = complete[c] + 1] /\ handled' = handled
      BY <1>f, <2>2 DEF FinalizeSeal
    <3>2. \A d \in Clients : /\ d = c => /\ sealHead'[d] = <<>> /\ lastSigs'[d] = sigs[d] /\ complete'[d] = complete[d] + 1
                             /\ d # c => /\ sealHead'[d] = sealHead[d] /\ lastHead'[d] = lastHead[d] /\ sigs'[d] = sigs[d]
                                         /\ lastSigs'[d] = lastSigs[d] /\ complete'[d] = complete[d]
      BY <3>1 DEF TypeOK
    <3> QED BY <1>0, <1>f, <2>2, <3>1, <3>2 DEF CollectInv, Sealing
  <2> QED BY <2>1, <2>2
<1>r. ASSUME NEW c \in Clients, Reset(c) PROVE CollectInv'
  <2>1. /\ sealHead' = [sealHead EXCEPT ![c] = <<>>] /\ lastSigs' = [lastSigs EXCEPT ![c] = {}]
        /\ lastHead' = [lastHead EXCEPT ![c] = <<>>] /\ sigs' = [sigs EXCEPT ![c] = {}]
        /\ handled' = [handled EXCEPT ![c] = {}] /\ complete' = complete /\ rounds' = rounds
    BY <1>r DEF Reset
  <2>2. \A d \in Clients : /\ d = c => sealHead'[d] = <<>> /\ handled'[d] = {}
                           /\ d # c => /\ sealHead'[d] = sealHead[d] /\ lastHead'[d] = lastHead[d] /\ sigs'[d] = sigs[d]
                                       /\ lastSigs'[d] = lastSigs[d] /\ handled'[d] = handled[d]
    BY <2>1 DEF TypeOK
  <2> QED BY <1>0, <2>1, <2>2 DEF CollectInv
<1>1. ASSUME NEW c \in Clients, SealInitiates(c) PROVE CollectInv'
  <2>1. /\ sealHead' = [sealHead EXCEPT ![c] = chain[c]] /\ lastSigs' = [lastSigs EXCEPT ![c] = {}]
        /\ lastHead' = [lastHead EXCEPT ![c] = <<>>] /\ sigs' = [sigs EXCEPT ![c] = {c}] /\ sealHead[c] = <<>>
        /\ handled' = [handled EXCEPT ![c] = {}] /\ complete' = complete /\ rounds' = [rounds EXCEPT ![c] = rounds[c] + 1]
    BY <1>1 DEF SealInitiates, Sealing
  <2>2. \A d \in Clients : /\ d = c => handled'[d] = {} /\ rounds'[d] = rounds[d] + 1 /\ lastHead'[d] = <<>>
                           /\ d # c => /\ sealHead'[d] = sealHead[d] /\ lastHead'[d] = lastHead[d] /\ sigs'[d] = sigs[d]
                                       /\ lastSigs'[d] = lastSigs[d] /\ handled'[d] = handled[d] /\ rounds'[d] = rounds[d]
    BY <2>1 DEF TypeOK
  <2>3. complete[c] <= rounds[c] BY <1>0, <2>1 DEF CollectInv
  <2> QED BY <1>0, <2>1, <2>2, <2>3 DEF CollectInv
<1>2. ASSUME NEW s \in Clients, NEW d \in Clients, OnSealAck(s, d) PROVE CollectInv'
  <2> DEFINE f == Head(net[s][d])
  <2> DEFINE active == sealHead[d] # <<>> /\ f.head = sealHead[d]
  <2> DEFINE amend == ~active /\ lastHead[d] # <<>> /\ f.head = lastHead[d]
  <2>1. /\ sigs' = [sigs EXCEPT ![d] = IF active THEN sigs[d] \cup {s} ELSE sigs[d]]
        /\ lastSigs' = [lastSigs EXCEPT ![d] = IF amend THEN lastSigs[d] \cup {s} ELSE lastSigs[d]]
        /\ handled' = [handled EXCEPT ![d] = IF active \/ amend THEN handled[d] \cup {s} ELSE handled[d]]
        /\ UNCHANGED <<sealHead, lastHead, complete, rounds>>
    BY <1>2 DEF OnSealAck, Sealing
  <2>2. amend => sealHead[d] = <<>> BY DEF CollectInv
  <2>3. active => sealHead[d] # <<>> OBVIOUS
  <2> HIDE DEF active, amend
  <2>4. \A c \in Clients : /\ c = d => /\ sigs'[c] = IF active THEN sigs[c] \cup {s} ELSE sigs[c]
                                       /\ lastSigs'[c] = IF amend THEN lastSigs[c] \cup {s} ELSE lastSigs[c]
                                       /\ handled'[c] = IF active \/ amend THEN handled[c] \cup {s} ELSE handled[c]
                           /\ c # d => sigs'[c] = sigs[c] /\ lastSigs'[c] = lastSigs[c] /\ handled'[c] = handled[c]
    BY <2>1 DEF TypeOK
  <2>5. ASSUME NEW c \in Clients PROVE handled'[c] \subseteq (IF sealHead'[c] # <<>> THEN sigs'[c] ELSE lastSigs'[c])
    <3>1. handled[c] \subseteq (IF sealHead[c] # <<>> THEN sigs[c] ELSE lastSigs[c]) /\ sealHead'[c] = sealHead[c] BY <2>1 DEF CollectInv
    <3>2. CASE c # d BY <2>4, <3>1, <3>2
    <3>3. CASE c = d /\ active BY <2>3, <2>4, <3>1, <3>3
    <3>4. CASE c = d /\ ~active /\ amend BY <2>2, <2>4, <3>1, <3>4
    <3>5. CASE c = d /\ ~active /\ ~amend BY <2>4, <3>1, <3>5
    <3> QED BY <3>2, <3>3, <3>4, <3>5
  <2>6. \A c \in Clients : /\ sealHead'[c] # <<>> => lastHead'[c] = <<>>
                           /\ complete'[c] + (IF sealHead'[c] # <<>> THEN 1 ELSE 0) <= rounds'[c]
    BY <2>1 DEF CollectInv
  <2> QED BY <2>5, <2>6 DEF CollectInv
<1>3. ASSUME NEW c \in Clients, \/ Decide(c) \/ Seal(c) \/ AppendClockNotes(c) \/ SealCosigns(c) \/ SealRefused(c)
                                \/ SealRequest(c) \/ UserAcks(c) \/ ReaderAcks(c) \/ MaybeFinalize(c) \/ TimerFires(c) \/ Leave(c)
      PROVE CollectInv'
  BY <1>3, <1>s DEF Decide, Seal, AppendClockNotes, SealCosigns, SealRefused, SealRequest, UserAcks, ReaderAcks, MaybeFinalize,
                    TimerFires, Leave
<1>4. ASSUME NEW c \in Clients, CallerFinalizes(c) \/ TimerFinalizes(c) PROVE CollectInv'
  BY <1>4, <1>f DEF CallerFinalizes, TimerFinalizes
<1>5. ASSUME NEW c \in Clients, Vanish(c) \/ \E s \in Clients : VanishOver(s, c) PROVE CollectInv'
  <2>1. Reset(c) BY <1>5 DEF Vanish, VanishOver, Ratchets
  <2> QED BY <1>r, <2>1
<1>6. ASSUME NEW s \in Clients, NEW d \in Clients, OnVanish(s, d) PROVE CollectInv'
  BY <1>6, <1>r DEF OnVanish
<1>7. ASSUME NEW s \in Clients, NEW d \in Clients, Undecryptable(s, d) \/ OnRecordEntry(s, d) \/ OnSealRequest(s, d) \/ OnMemberLeft(s, d)
      PROVE CollectInv'
  BY <1>7, <1>s DEF Undecryptable, OnRecordEntry, OnSealRequest, OnMemberLeft
<1> QED BY <1>1, <1>2, <1>3, <1>4, <1>5, <1>6, <1>7 DEF Next, Command, Read

\* The inductive invariant of the record.
SealedInv == TypeOK /\ ChainInv /\ SignInv /\ CollectInv

\* A room begins with it.
LEMMA SealedStart == Init => SealedInv
<1> SUFFICES ASSUME Init PROVE SealedInv OBVIOUS
<1>0. <<>> \in Heads /\ <<>> \in Seq(Frame) /\ <<>> \in Seq(Heads) /\ 0 \in Nat BY DEF Heads
<1>1. TypeOK BY <1>0, ClockedAssumption DEF Init, TypeOK
<1>2. \A s \in Clients : Flight[s] = {} BY DEF Init, Flight
<1>3. Linked(<<>>, prevOf) BY DEF Linked
<1>4. ChainInv BY <1>2, <1>3 DEF Init, ChainInv
<1>5. SignInv BY <1>2 DEF Init, SignInv
<1>6. CollectInv BY DEF Init, CollectInv
<1> QED BY <1>1, <1>4, <1>5, <1>6 DEF SealedInv

\* It holds throughout.
LEMMA SealedInvTrue == Spec => []SealedInv
<1>1. ASSUME SealedInv, [Next]_vars PROVE SealedInv'
  <2>1. CASE Next BY <1>1, <2>1, TypeStep, ChainStep, SignStep, CollectStep DEF SealedInv
  <2>2. CASE UNCHANGED vars
    <3> USE DEF vars, chainVars, roundVars, userVars, readVars, roomVars
    <3>0. Flight' = Flight BY <2>2 DEF Flight
    <3>1. TypeOK' BY <1>1, <2>2 DEF SealedInv, TypeOK
    <3>2. ChainInv' BY <1>1, <2>2, <3>0 DEF SealedInv, ChainInv
    <3>3. SignInv' BY <1>1, <2>2, <3>0 DEF SealedInv, SignInv
    <3>4. CollectInv' BY <1>1, <2>2 DEF SealedInv, CollectInv
    <3> QED BY <3>1, <3>2, <3>3, <3>4 DEF SealedInv
  <2> QED BY <1>1, <2>1, <2>2
<1> QED BY <1>1, SealedStart, PTL DEF Spec

\* Whatever is appended, sealed, lost and vanished, a client's chain is one chain of linked entries,
\* and every signature it collects or files is over a head its signer held (client/record.go).
THEOREM RecordStaysSound == Spec => []RecordSound
<1>1. SealedInv => RecordSound
  BY DEF SealedInv, ChainInv, SignInv, Linked, RecordSound, ChainLinked, SealSound, Entries
<1> QED BY <1>1, SealedInvTrue, PTL

\* Of the signatures a round was handed none is dropped, and a round completes at most once,
\* whichever of read loop, command and timer finishes it (client/record.go onSealAck, finalizeSeal).
THEOREM SignaturesCollectedOnce == Spec => []CollectedOnce
<1>1. SealedInv => CollectedOnce
  BY DEF SealedInv, CollectInv, CollectedOnce, NoSignatureLost, OneCompletion, Sealing
<1> QED BY <1>1, SealedInvTrue, PTL
==============================================================================
