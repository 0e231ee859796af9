--------------------------- MODULE ArtifactQuorum ---------------------------
(***************************************************************************)
(* The human approval of one artifact proposal, tui/client/artifact.go, on *)
(* every client of a room.  Each client tracks the proposal on its own,    *)
(* counts the approvals it sees, and decides by itself that quorum is      *)
(* reached and whether it is the one to write the record entry.            *)
(*                                                                         *)
(* net[s][d] holds the frames of sender s not yet handled by d: the relay  *)
(* keeps the order of one sender's frames per receiver (server.go relay,   *)
(* conn.send), not the order across senders, and drops a frame when the    *)
(* receiver's buffer is full.  Frames carry verified signatures, so a      *)
(* frame from s stands for s's identity Fpr[s].                            *)
(***************************************************************************)
EXTENDS Naturals, Sequences

CONSTANTS Clients,
          Proposer,   \* the client that proposes
          Fpr,        \* client -> fingerprint of its identity, ordered as strings are
          Quorum,     \* prop.Quorum
          MaxLoss     \* bound: frames the relay drops in one behaviour

ASSUME ProposerAssumption == Proposer \in Clients
ASSUME FprAssumption == Fpr \in [Clients -> Nat]
ASSUME QuorumAssumption == Quorum \in Nat \ {0}
ASSUME MaxLossAssumption == MaxLoss \in Nat

VARIABLES phase,    \* the client's view: unknown, tracked, approved, rejected, expired, cleared
          order,    \* tp.order: approver fingerprints as they were counted
          mid,      \* ApproveArtifact has sent and not yet taken the lock again
          approved, \* tp.approved: the client's own approval was accounted
          signed,   \* history: fingerprints whose approval was broadcast
          wrote,    \* clients that wrote the artifact entry
          net,      \* frames in flight
          lost      \* frames dropped so far

vars == <<phase, order, mid, approved, signed, wrote, net, lost>>

Frames == {"proposal", "approval", "rejection"}
Phases == {"unknown", "tracked", "approved", "rejected", "expired", "cleared"}

TypeOK ==
  /\ phase \in [Clients -> Phases]
  /\ order \in [Clients -> Seq(Nat)]
  /\ mid \in SUBSET Clients /\ approved \in SUBSET Clients
  /\ signed \in SUBSET Nat
  /\ wrote \in SUBSET Clients
  /\ net \in [Clients -> [Clients -> Seq(Frames)]]
  /\ lost \in Nat

Init ==
  /\ phase = [c \in Clients |-> "unknown"]
  /\ order = [c \in Clients |-> <<>>]
  /\ mid = {} /\ approved = {} /\ signed = {} /\ wrote = {}
  /\ net = [s \in Clients |-> [d \in Clients |-> <<>>]]
  /\ lost = 0

\* A frame of s on its way to everyone else; the relay never echoes it to s.
Broadcast(s, f) ==
  net' = [net EXCEPT ![s] = [d \in Clients |-> IF d = s THEN @[d] ELSE Append(@[d], f)]]

\* d takes the oldest frame s sent it.
Take(s, d) == net' = [net EXCEPT ![s][d] = Tail(@)]

Counted(c, f) == \E i \in 1..Len(order[c]) : order[c][i] = f

\* minFpr(approvers) = f.
Lowest(s, f) == (\E i \in 1..Len(s) : s[i] = f) /\ (\A i \in 1..Len(s) : f <= s[i])

\* Mutation: one approval too few is enough.
CountEarly(c, f) ==
  LET counts == phase[c] = "tracked" /\ f # Fpr[Proposer] /\ ~Counted(c, f)
      s == Append(order[c], f)
      reached == Len(s) + 1 >= Quorum
  IN IF counts
     THEN /\ order' = [order EXCEPT ![c] = s]
          /\ phase' = [phase EXCEPT ![c] = IF reached THEN "approved" ELSE @]
          /\ wrote' = IF reached /\ Lowest(s, Fpr[c]) THEN wrote \cup {c} ELSE wrote
     ELSE UNCHANGED <<order, phase, wrote>>

\* Mutation: "whoever completed it" writes.
CountCompleter(c, f) ==
  LET counts == phase[c] = "tracked" /\ f # Fpr[Proposer] /\ ~Counted(c, f)
      s == Append(order[c], f)
      reached == Len(s) >= Quorum
  IN IF counts
     THEN /\ order' = [order EXCEPT ![c] = s]
          /\ phase' = [phase EXCEPT ![c] = IF reached THEN "approved" ELSE @]
          /\ wrote' = IF reached /\ f = Fpr[c] THEN wrote \cup {c} ELSE wrote
     ELSE UNCHANGED <<order, phase, wrote>>

\* countArtifactApproval: an approver that is new and not the proposer is counted; at
\* quorum the proposal resolves and the lowest approver writes the entry.
Count(c, f) ==
  LET counts == phase[c] = "tracked" /\ f # Fpr[Proposer] /\ ~Counted(c, f)
      s == Append(order[c], f)
      reached == Len(s) >= Quorum
  IN IF counts
     THEN /\ order' = [order EXCEPT ![c] = s]
          /\ phase' = [phase EXCEPT ![c] = IF reached THEN "approved" ELSE @]
          /\ wrote' = IF reached /\ Lowest(s, Fpr[c]) THEN wrote \cup {c} ELSE wrote
     ELSE UNCHANGED <<order, phase, wrote>>

\* Propose: track the proposal, then broadcast it.
Propose ==
  /\ phase[Proposer] = "unknown"
  /\ phase' = [phase EXCEPT ![Proposer] = "tracked"]
  /\ Broadcast(Proposer, "proposal")
  /\ UNCHANGED <<order, mid, approved, signed, wrote, lost>>

\* ApproveArtifact up to sealAndSend: refused for the proposer's identity, for a
\* resolved proposal and for a client that has approved.
ApproveSend(c) ==
  /\ phase[c] = "tracked" /\ c \notin mid
  /\ Fpr[c] # Fpr[Proposer] /\ c \notin approved
  /\ mid' = mid \cup {c}
  /\ signed' = signed \cup {Fpr[c]}
  /\ Broadcast(c, "approval")
  /\ UNCHANGED <<phase, order, approved, wrote, lost>>

\* ApproveArtifact after the send: the lock is taken again and the client's own
\* approval counted, whatever arrived in between.
ApproveCount(c) ==
  /\ c \in mid
  /\ mid' = mid \ {c}
  /\ approved' = IF phase[c] = "tracked" THEN approved \cup {c} ELSE approved
  /\ Count(c, Fpr[c])
  /\ UNCHANGED <<signed, net, lost>>

\* RejectArtifact: drop the proposal and tell the room.
RejectArtifact(c) ==
  /\ phase[c] = "tracked"
  /\ phase' = [phase EXCEPT ![c] = "rejected"]
  /\ Broadcast(c, "rejection")
  /\ UNCHANGED <<order, mid, approved, signed, wrote, lost>>

\* onArtifactProposal: track a proposal seen for the first time, unless it expired in
\* flight.
OnProposal(s, d) ==
  /\ net[s][d] # <<>> /\ Head(net[s][d]) = "proposal"
  /\ Take(s, d)
  /\ \E p \in {"tracked", "expired"} :
       phase' = [phase EXCEPT ![d] = IF @ = "unknown" THEN p ELSE @]
  /\ UNCHANGED <<order, mid, approved, signed, wrote, lost>>

\* onArtifactApproval: an approval of a proposal this client does not know is discarded.
OnApproval(s, d) ==
  /\ net[s][d] # <<>> /\ Head(net[s][d]) = "approval"
  /\ Take(s, d)
  /\ Count(d, Fpr[s])
  /\ UNCHANGED <<mid, approved, signed, lost>>

\* onArtifactRejection.
OnRejection(s, d) ==
  /\ net[s][d] # <<>> /\ Head(net[s][d]) = "rejection"
  /\ Take(s, d)
  /\ phase' = [phase EXCEPT ![d] = IF @ = "tracked" THEN "rejected" ELSE @]
  /\ UNCHANGED <<order, mid, approved, signed, wrote, lost>>

\* expireProposal, from the client's own timer.
ExpireProposal(c) ==
  /\ phase[c] = "tracked"
  /\ phase' = [phase EXCEPT ![c] = "expired"]
  /\ UNCHANGED <<order, mid, approved, signed, wrote, net, lost>>

\* clearProposalsLocked, on /vanish and scuttle: proposal and retained proofs go.
ClearProposals(c) ==
  /\ phase[c] \in {"tracked", "approved"}
  /\ phase' = [phase EXCEPT ![c] = "cleared"]
  /\ order' = [order EXCEPT ![c] = <<>>]
  /\ UNCHANGED <<mid, approved, signed, wrote, net, lost>>

\* The relay's send buffer for d is full, or d has ratcheted past the frame's epoch.
Lose(s, d) ==
  /\ net[s][d] # <<>> /\ lost < MaxLoss
  /\ Take(s, d)
  /\ lost' = lost + 1
  /\ UNCHANGED <<phase, order, mid, approved, signed, wrote>>

Next ==
  \/ Propose
  \/ \E c \in Clients : \/ ApproveSend(c) \/ ApproveCount(c) \/ RejectArtifact(c)
                        \/ ExpireProposal(c) \/ ClearProposals(c)
  \/ \E s, d \in Clients : OnProposal(s, d) \/ OnApproval(s, d) \/ OnRejection(s, d) \/ Lose(s, d)

Spec == Init /\ [][Next]_vars

------------------------------------------------------------------------------
(* Properties *)

\* Nothing is approved without a quorum of people: what a client counted are distinct
\* identities other than the proposer's, each of which really signed, and a client
\* that calls the proposal approved counted at least Quorum of them.
QuorumSound ==
  \A c \in Clients :
    /\ \A i \in 1..Len(order[c]) : order[c][i] \in signed /\ order[c][i] # Fpr[Proposer]
    /\ \A i, j \in 1..Len(order[c]) : order[c][i] = order[c][j] => i = j
    /\ phase[c] = "approved" => Len(order[c]) >= Quorum

\* Who writes the entry has approved: its signature on the entry says so.
WriterSigned == \A c \in wrote : Fpr[c] \in signed /\ Fpr[c] # Fpr[Proposer]

\* "Exactly one client writes ... there is no double-write (chain fork)": at most one.
AtMostOneWriter == \A c, d \in wrote : c = d

\* An approved artifact stands on people who signed it, and is written by one of them.
QuorumBacked == QuorumSound /\ WriterSigned
==============================================================================
