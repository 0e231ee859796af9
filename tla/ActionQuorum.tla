----------------------------- MODULE ActionQuorum -----------------------------
(***************************************************************************)
(* The two-person rule for one /scuttle now, tui/client/action.go, and     *)
(* what it gates: the scuttle receipt round and the burn that follows it   *)
(* (scuttleBurn in client.go, receipt.go, cosign.go).                      *)
(*                                                                         *)
(* Every client tracks the request and counts endorsements by itself; only *)
(* the requester performs.  Performing opens a co-signature round for the  *)
(* receipt; the burn is the round's onDone.  A client's read loop handles  *)
(* one frame at a time but unlocks inside it: rpc is where it is.  The     *)
(* round's 30 s timer is a goroutine of its own.                           *)
(*                                                                         *)
(* A frame carries the epoch it was sealed in, as in SealedRecord; the     *)
(* vanish and scuttle controls are not encrypted.                          *)
(***************************************************************************)
EXTENDS Naturals, Sequences, FiniteSets

CONSTANTS Clients,
          Requester,   \* who types /scuttle now
          Ids, Fpr,    \* identities, and the one of each client
          Quorum,      \* [action.scuttle] quorum
          MaxVanish,   \* bound: /vanish commands
          ServerBurns  \* whether the server may scuttle by itself (idle, armed, owner loss)

ASSUME RequesterAssumption == Requester \in Clients
ASSUME ActionFprAssumption == Fpr \in [Clients -> Ids]
ASSUME ActionQuorumAssumption == Quorum \in Nat \ {0, 1}
ASSUME ActionClientsAssumption == IsFiniteSet(Clients) /\ IsFiniteSet(Ids)
ASSUME VanishAssumption == MaxVanish \in Nat /\ ServerBurns \in BOOLEAN

VARIABLES phase,     \* the request as a client sees it
          approvers, \* trackedAction.approvers
          mid,       \* ApproveAction has sent and not yet counted itself
          approved,  \* ta.approved: the client's own approval was accounted
          rpc,       \* read loop: idle, perform, check, finalize, reset, stopped
          epoch,     \* rk.Epoch
          round,     \* the requester's receiptRound is open
          rsigs,     \* its co-signers
          timer,     \* its timer: none, armed
          due,       \* timer callbacks that wait for the lock
          done,      \* receiptDone
          noticed,   \* clients to which the server's scuttle notice is on its way
          net,
          signed,    \* history: identities that signed an approval
          performed, \* history: runs of onApprove
          receipts,  \* history: EvScuttleReceipt per client
          burns,     \* history: ActionScuttle controls the requester sent
          vanished   \* history: /vanish commands so far

trackVars == <<phase, approvers>>
receiptVars == <<round, rsigs, timer, done, receipts, burns>>
histVars == <<signed, vanished>>
actionVars == <<trackVars, mid, approved, rpc, epoch, receiptVars, due, noticed, net, histVars,
          performed>>

Ops == {"request", "approval", "veto", "rrequest", "rack", "vanish"}
Phases == {"unknown", "tracked", "executed", "vetoed", "expired", "cleared"}

ActionTypeOK ==
  /\ phase \in [Clients -> Phases]
  /\ approvers \in [Clients -> SUBSET Ids]
  /\ mid \in SUBSET Clients /\ approved \in SUBSET Clients
  /\ noticed \in SUBSET Clients /\ done \in SUBSET Clients
  /\ rpc \in [Clients -> {"idle", "perform", "check", "finalize", "reset", "stopped"}]
  /\ epoch \in [Clients -> Nat]
  /\ round \in BOOLEAN /\ rsigs \in SUBSET Ids /\ timer \in {"none", "armed"}
  /\ due \in Nat
  /\ net \in [Clients -> [Clients -> Seq([op : Ops, ep : Nat])]]
  /\ signed \in SUBSET Ids /\ vanished \in Nat
  /\ performed \in Nat /\ burns \in Nat /\ receipts \in [Clients -> Nat]

ActionInit ==
  /\ phase = [c \in Clients |-> "unknown"]
  /\ approvers = [c \in Clients |-> {}]
  /\ mid = {} /\ approved = {} /\ noticed = {} /\ done = {} /\ signed = {}
  /\ rpc = [c \in Clients |-> "idle"]
  /\ epoch = [c \in Clients |-> 0]
  /\ round = FALSE /\ rsigs = {} /\ timer = "none" /\ due = 0
  /\ net = [s \in Clients |-> [d \in Clients |-> <<>>]]
  /\ performed = 0 /\ burns = 0 /\ vanished = 0
  /\ receipts = [c \in Clients |-> 0]

Live(c) == rpc[c] # "stopped"

Sent(s, op) ==
  [d \in Clients |-> IF d = s THEN net[s][d] ELSE Append(net[s][d], [op |-> op, ep |-> epoch[s]])]
Broadcast(s, op) == net' = [net EXCEPT ![s] = Sent(s, op)]

------------------------------------------------------------------------------
(* The gate *)

\* gateAction with quorum >= 2, RequestAction: track, then send.
RequestAction ==
  /\ phase[Requester] = "unknown" /\ Live(Requester)
  /\ phase' = [phase EXCEPT ![Requester] = "tracked"]
  /\ Broadcast(Requester, "request")
  /\ UNCHANGED <<approvers, mid, approved, rpc, epoch, receiptVars, due, noticed, histVars,
                 performed>>

\* ApproveActionAs up to the send.
ApproveSend(c) ==
  /\ phase[c] = "tracked" /\ c \notin mid /\ Live(c)
  /\ Fpr[c] # Fpr[Requester] /\ c \notin approved
  /\ mid' = mid \cup {c}
  /\ signed' = signed \cup {Fpr[c]}
  /\ Broadcast(c, "approval")
  /\ UNCHANGED <<trackVars, approved, rpc, epoch, receiptVars, due, noticed, vanished,
                 performed>>

\* Mutation: the requester's own identity counts twice.
CountApprovalSelf(c, f) ==
  LET counts == phase[c] = "tracked" /\ f \notin approvers[c]
      reached == Cardinality(approvers[c] \cup {f}) + 2 >= Quorum
  IN /\ approvers' = [approvers EXCEPT ![c] = IF counts THEN @ \cup {f} ELSE @]
     /\ phase' = [phase EXCEPT ![c] = IF counts /\ reached THEN "executed" ELSE @]
     /\ rpc' = [rpc EXCEPT ![c] =
                  IF counts /\ reached /\ c = Requester THEN "perform" ELSE @]

\* Mutation: a request that is resolved already is counted on.
CountApprovalResolved(c, f) ==
  LET counts == phase[c] # "unknown" /\ f # Fpr[Requester] /\ f \notin approvers[c]
      reached == 1 + Cardinality(approvers[c] \cup {f}) >= Quorum
  IN /\ approvers' = [approvers EXCEPT ![c] = IF counts THEN @ \cup {f} ELSE @]
     /\ phase' = [phase EXCEPT ![c] = IF counts /\ reached /\ @ = "tracked" THEN "executed" ELSE @]
     /\ rpc' = [rpc EXCEPT ![c] =
                  IF counts /\ reached /\ c = Requester THEN "perform" ELSE @]

\* countApproval: a new approver other than the requester; requester and approvers
\* together reaching the quorum resolve the request, and the requester's callback runs
\* next on this goroutine.
CountApproval(c, f) ==
  LET counts == phase[c] = "tracked" /\ f # Fpr[Requester] /\ f \notin approvers[c]
      reached == 1 + Cardinality(approvers[c] \cup {f}) >= Quorum
  IN /\ approvers' = [approvers EXCEPT ![c] = IF counts THEN @ \cup {f} ELSE @]
     /\ phase' = [phase EXCEPT ![c] = IF counts /\ reached THEN "executed" ELSE @]
     /\ rpc' = [rpc EXCEPT ![c] =
                  IF counts /\ reached /\ c = Requester THEN "perform" ELSE @]

\* ApproveActionAs after the send.
ApproveCount(c) ==
  /\ c \in mid
  /\ mid' = mid \ {c}
  /\ approved' = IF phase[c] = "tracked" THEN approved \cup {c} ELSE approved
  /\ CountApproval(c, Fpr[c])
  /\ UNCHANGED <<epoch, receiptVars, due, noticed, net, histVars, performed>>

\* VetoAction: resolve locally, tell the room.
VetoAction(c) ==
  /\ phase[c] = "tracked" /\ Live(c)
  /\ phase' = [phase EXCEPT ![c] = "vetoed"]
  /\ Broadcast(c, "veto")
  /\ UNCHANGED <<approvers, mid, approved, rpc, epoch, receiptVars, due, noticed, histVars,
                 performed>>

\* expireAction, from the client's own timer.
ExpireAction(c) ==
  /\ phase[c] = "tracked"
  /\ phase' = [phase EXCEPT ![c] = "expired"]
  /\ UNCHANGED <<approvers, mid, approved, rpc, epoch, receiptVars, due, noticed, net,
                 histVars, performed>>

------------------------------------------------------------------------------
(* What the gate guards: receipt round, then burn *)

\* scuttleBurn / startReceiptRound: open a round, or burn at once if there is a
\* receipt or a round already; then maybeFinalizeReceipt.
Perform ==
  /\ rpc[Requester] = "perform"
  /\ performed' = performed + 1
  /\ IF Requester \in done \/ round
     THEN /\ burns' = burns + 1
          /\ rpc' = [rpc EXCEPT ![Requester] = "idle"]
          /\ UNCHANGED <<round, rsigs, timer, net>>
     ELSE /\ round' = TRUE /\ rsigs' = {Fpr[Requester]} /\ timer' = "armed"
          /\ Broadcast(Requester, "rrequest")
          /\ rpc' = [rpc EXCEPT ![Requester] = "check"]
          /\ UNCHANGED burns
  /\ UNCHANGED <<trackVars, mid, approved, epoch, done, receipts, due, noticed, histVars>>

\* maybeFinalizeReceipt: look under the lock, finalize after it.
MaybeFinalizeReceipt ==
  /\ rpc[Requester] = "check"
  /\ rpc' = [rpc EXCEPT ![Requester] =
               IF round /\ Cardinality(rsigs) >= Cardinality(Clients) THEN "finalize" ELSE "idle"]
  /\ UNCHANGED <<trackVars, mid, approved, epoch, receiptVars, due, noticed, net, histVars,
                 performed>>

\* Mutation: the burn is forgotten.
FinalizeReceiptOnly ==
  IF round
  THEN /\ round' = FALSE /\ rsigs' = {} /\ timer' = "none"
       /\ done' = done \cup {Requester}
       /\ receipts' = [receipts EXCEPT ![Requester] = @ + 1]
       /\ UNCHANGED burns
  ELSE UNCHANGED receiptVars

\* Mutation: the round stays open.
FinalizeReceiptAgain ==
  IF round
  THEN /\ timer' = "none"
       /\ done' = done \cup {Requester}
       /\ receipts' = [receipts EXCEPT ![Requester] = @ + 1]
       /\ burns' = burns + 1
       /\ UNCHANGED <<round, rsigs>>
  ELSE UNCHANGED receiptVars

\* finalizeReceipt: emit the receipt and run onDone, which asks the server to burn.
FinalizeReceipt ==
  IF round
  THEN /\ round' = FALSE /\ rsigs' = {} /\ timer' = "none"
       /\ done' = done \cup {Requester}
       /\ receipts' = [receipts EXCEPT ![Requester] = @ + 1]
       /\ burns' = burns + 1
  ELSE UNCHANGED receiptVars

ReaderFinalizes ==
  /\ rpc[Requester] = "finalize"
  /\ rpc' = [rpc EXCEPT ![Requester] = "idle"]
  /\ FinalizeReceipt
  /\ UNCHANGED <<trackVars, mid, approved, epoch, due, noticed, net, histVars, performed>>

ReceiptTimerFires ==
  /\ timer = "armed"
  /\ timer' = "none"
  /\ due' = due + 1
  /\ UNCHANGED <<trackVars, mid, approved, rpc, epoch, round, rsigs, done, receipts, burns,
                 noticed, net,
                 histVars, performed>>

TimerFinalizes ==
  /\ due > 0
  /\ due' = due - 1
  /\ FinalizeReceipt
  /\ UNCHANGED <<trackVars, mid, approved, rpc, epoch, noticed, net, histVars, performed>>

\* The server scuttles: because the requester asked it to, or by its own policy.
ServerScuttle ==
  /\ burns > 0 \/ ServerBurns
  /\ noticed = {} /\ \A c \in Clients : Live(c)
  /\ noticed' = Clients
  /\ UNCHANGED <<trackVars, mid, approved, rpc, epoch, receiptVars, due, net, histVars,
                 performed>>

------------------------------------------------------------------------------
(* The read loop *)

Reads(s, d, op) ==
  /\ rpc[d] = "idle"
  /\ net[s][d] # <<>> /\ Head(net[s][d]).op = op
  /\ net' = [net EXCEPT ![s][d] = Tail(@)]

Opens(s, d, op) == Reads(s, d, op) /\ Head(net[s][d]).ep = epoch[d]

Undecryptable(s, d) ==
  /\ \E op \in Ops \ {"vanish"} : Reads(s, d, op)
  /\ Head(net[s][d]).ep # epoch[d]
  /\ UNCHANGED <<trackVars, mid, approved, rpc, epoch, receiptVars, due, noticed, histVars,
                 performed>>

\* onActionRequest: track a request seen for the first time.  Frames of one sender
\* keep their order, so the request cannot be older than the epoch it is opened in.
OnActionRequest(s, d) ==
  /\ Opens(s, d, "request")
  /\ phase' = [phase EXCEPT ![d] = IF @ = "unknown" THEN "tracked" ELSE @]
  /\ UNCHANGED <<approvers, mid, approved, rpc, epoch, receiptVars, due, noticed, histVars,
                 performed>>

\* onActionApproval: verified against the tracked request, then counted.
OnActionApproval(s, d) ==
  /\ Opens(s, d, "approval")
  /\ CountApproval(d, Fpr[s])
  /\ UNCHANGED <<mid, approved, epoch, receiptVars, due, noticed, histVars, performed>>

\* onActionVeto.
OnActionVeto(s, d) ==
  /\ Opens(s, d, "veto")
  /\ phase' = [phase EXCEPT ![d] = IF @ = "tracked" THEN "vetoed" ELSE @]
  /\ UNCHANGED <<approvers, mid, approved, rpc, epoch, receiptVars, due, noticed, histVars,
                 performed>>

\* onScuttleReceiptRequest: any member of the room co-signs.
OnReceiptRequest(s, d) ==
  /\ rpc[d] = "idle"
  /\ net[s][d] # <<>> /\ Head(net[s][d]) = [op |-> "rrequest", ep |-> epoch[d]]
  /\ net' = [x \in Clients |-> [y \in Clients |->
               IF x = s /\ y = d THEN Tail(net[x][y])
               ELSE IF x = d /\ y # d THEN Append(net[x][y], [op |-> "rack", ep |-> epoch[d]])
                    ELSE net[x][y]]]
  /\ UNCHANGED <<trackVars, mid, approved, rpc, epoch, receiptVars, due, noticed, histVars,
                 performed>>

\* onScuttleReceiptAck: the requester collects, everyone else discards.
OnReceiptAck(s, d) ==
  /\ Opens(s, d, "rack")
  /\ IF d = Requester /\ round
     THEN rsigs' = rsigs \cup {Fpr[s]} /\ rpc' = [rpc EXCEPT ![d] = "check"]
     ELSE UNCHANGED <<rsigs, rpc>>
  /\ UNCHANGED <<trackVars, mid, approved, epoch, round, timer, done, receipts, burns, due,
                 noticed,
                 histVars, performed>>

\* ratchetForward and resetCoordinationLocked: requests and receipt round are dropped
\* (clearActionsLocked, clearReceiptLocked), the receiptDone latch stays.
Reset(c) ==
  /\ epoch' = [epoch EXCEPT ![c] = @ + 1]
  /\ phase' = [phase EXCEPT ![c] = IF @ = "tracked" THEN "cleared" ELSE @]
  /\ approvers' = [approvers EXCEPT ![c] = {}]
  /\ IF c = Requester THEN round' = FALSE /\ rsigs' = {} /\ timer' = "none"
                      ELSE UNCHANGED <<round, rsigs, timer>>
  /\ UNCHANGED <<done, receipts, burns>>

\* The /vanish command.
Ratchets(c) ==
  /\ Live(c) /\ vanished < MaxVanish
  /\ vanished' = vanished + 1
  /\ Reset(c)
  /\ UNCHANGED <<mid, approved, rpc, due, noticed, signed, performed>>
Vanish(c) == Ratchets(c) /\ Broadcast(c, "vanish")

\* The same while the read loop, which has opened the first frame of s, waits for the
\* lock of its handler: the frame is handled all the same, as one of the new epoch.
VanishOver(s, c) ==
  /\ Ratchets(c) /\ s # c /\ rpc[c] = "idle"
  /\ net[s][c] # <<>> /\ Head(net[s][c]).op # "vanish" /\ Head(net[s][c]).ep = epoch[c]
  /\ net' = [net EXCEPT ![c] = Sent(c, "vanish"), ![s][c][1].ep = @ + 1]

\* onControl / ActionVanish.
OnVanish(s, d) ==
  /\ Reads(s, d, "vanish")
  /\ Reset(d)
  /\ UNCHANGED <<mid, approved, rpc, due, noticed, histVars, performed>>

\* onControl / ActionScuttle: writeSelfReceiptIfNeeded, under its own lock ...
OnScuttle(d) ==
  /\ d \in noticed /\ rpc[d] = "idle"
  /\ noticed' = noticed \ {d}
  /\ done' = done \cup {d}
  /\ receipts' = [receipts EXCEPT ![d] = IF d \in done THEN @ ELSE @ + 1]
  /\ rpc' = [rpc EXCEPT ![d] = "reset"]
  /\ UNCHANGED <<trackVars, mid, approved, epoch, round, rsigs, timer, burns, due, net,
                 histVars, performed>>

\* ... then ratchet and reset; the server closes the connection after its grace.
OnScuttleReset(d) ==
  /\ rpc[d] = "reset"
  /\ rpc' = [rpc EXCEPT ![d] = "stopped"]
  /\ Reset(d)
  /\ UNCHANGED <<mid, approved, due, noticed, net, histVars, performed>>

Command(c) ==
  \/ ApproveSend(c) \/ ApproveCount(c) \/ VetoAction(c) \/ ExpireAction(c) \/ Vanish(c)
  \/ \E s \in Clients : VanishOver(s, c)

Read(s, d) ==
  \/ Undecryptable(s, d) \/ OnActionRequest(s, d) \/ OnActionApproval(s, d)
  \/ OnActionVeto(s, d) \/ OnReceiptRequest(s, d) \/ OnReceiptAck(s, d) \/ OnVanish(s, d)

ActionNext ==
  \/ RequestAction \/ Perform \/ MaybeFinalizeReceipt \/ ReaderFinalizes
  \/ ReceiptTimerFires \/ TimerFinalizes \/ ServerScuttle
  \/ \E c \in Clients : Command(c) \/ OnScuttle(c) \/ OnScuttleReset(c)
  \/ \E s, d \in Clients : Read(s, d)

ActionSpec == ActionInit /\ [][ActionNext]_actionVars

\* Goroutines of the requester that can run do run, and its timer fires.
ActionFair ==
  /\ WF_actionVars(Perform) /\ WF_actionVars(MaybeFinalizeReceipt) /\ WF_actionVars(ReaderFinalizes)
  /\ WF_actionVars(ReceiptTimerFires) /\ WF_actionVars(TimerFinalizes)
ActionFairSpec == ActionSpec /\ ActionFair

------------------------------------------------------------------------------
(* Properties *)

Others(s) == s \ {Fpr[Requester]}

\* Nobody acts alone: when the requester performs, and when it asks for the burn, at
\* least Quorum - 1 identities other than its own have signed an approval.
TwoPerson == performed + burns > 0 => Cardinality(Others(signed)) >= Quorum - 1

\* "onApprove runs exactly once": never twice, and never for a request that the
\* requester saw vetoed, expired or dropped.
PerformOnce ==
  /\ performed <= 1
  /\ performed = 1 \/ rpc[Requester] = "perform" => phase[Requester] = "executed"
  /\ rpc[Requester] = "perform" => performed = 0

\* The burn comes after the receipt: a round that is open has not burned, and one
\* burn at most is asked for by one approval.
BurnAfterReceipt == burns <= 1 /\ (burns = 1 => Requester \in done /\ ~round)

\* An approved scuttle burns: what startReceiptRound queued behind the receipt is sent,
\* though co-signers may never answer, unless a /vanish or the server's own scuttle
\* reset the requester's room meanwhile.
BurnsUnlessReset ==
  (performed > 0) ~> (burns > 0 \/ vanished > 0 \/ rpc[Requester] = "stopped")

\* What countApproval says: whoever sees EvActionExecuted "is guaranteed the action's
\* side effects" - so the burn happens, whatever else does.
ExecutedBurns == (performed > 0) ~> (burns > 0)
==============================================================================
