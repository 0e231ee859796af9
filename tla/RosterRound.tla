----------------------------- MODULE RosterRound -----------------------------
(***************************************************************************)
(* The signed roster (tui/client/roster.go, cosign.go, tui/attest/         *)
(* roster.go): one member asks the others to sign the set of identities    *)
(* that hold the room's keys in this epoch, collects what comes back for   *)
(* 30 s or until everyone present has signed, and emits the attestation.   *)
(*                                                                         *)
(* As in SealedRecord, a client is a user's goroutine, a read loop and the *)
(* round's timer over Client.mu; usr and rdr are where the first two are   *)
(* between two critical sections, with what they carry across the unlock.  *)
(* A fingerprint stands for its key, so a set of them for its hash, and a  *)
(* signature is [by, epoch, set].  Members have distinct keys.             *)
(***************************************************************************)
EXTENDS Naturals, Sequences, FiniteSets

CONSTANTS Holders,        \* members that hold the room key
          Joiners,        \* come later and have no key yet: they are seen and do nothing
          Attesters,      \* holders that run /roster --signed
          MaxRosters,     \* bound: rounds of one attester
          MaxRatchets,    \* bound: /vanish commands
          MaxFlux         \* bound: members that come or go

ASSUME RosterAssumption == IsFiniteSet(Holders) /\ IsFiniteSet(Joiners)

VARIABLES seats,     \* client -> Client.members and itself
          rkEpoch,   \* client -> rk.Epoch
          cosign,    \* client -> Client.roster with its rosterMeta
          timersDue, \* client -> timer callbacks that wait for the lock
          usr,       \* client -> the user's goroutine
          rdr,       \* client -> the read loop
          cable,     \* cable[s][d]: frames of, or about, s that d has yet to handle
          away,      \* members that left
          seated,    \* joiners that came
          started,   \* history: rounds, per client
          ratchets,  \* history: /vanish commands
          emitted,   \* history: <<client, number of the emission, attestation>>
          been       \* history: every <<client, epoch, members>> a client was ever in

seatVars == <<seats, rkEpoch, been>>
fluxVars == <<away, seated, ratchets>>
rosterVars == <<seatVars, fluxVars, cosign, timersDue, usr, rdr, cable, started, emitted>>

NoRound == [on |-> FALSE, armed |-> FALSE, epoch |-> 0, members |-> {}, sigs |-> {}]
Resting == [pc |-> "idle", epoch |-> 0, set |-> {}, total |-> 0, from |-> "", op |-> ""]
AllSeats == Holders \cup Joiners

RosterInit ==
  /\ seats = [c \in Holders |-> Holders] /\ rkEpoch = [c \in Holders |-> 0]
  /\ cosign = [c \in Holders |-> NoRound] /\ timersDue = [c \in Holders |-> 0]
  /\ usr = [c \in Holders |-> Resting] /\ rdr = [c \in Holders |-> Resting]
  /\ cable = [s \in AllSeats |-> [d \in Holders |-> <<>>]]
  /\ away = {} /\ seated = {} /\ ratchets = 0 /\ emitted = {}
  /\ started = [c \in Holders |-> 0]
  /\ been = {<<c, 0, Holders>> : c \in Holders}

Here(c) == c \in Holders \ away

\* sealAndSend and the relay's fan-out: the frame carries the key's epoch at this moment.
SealAndSend(s, op, epoch, set) ==
  cable' = [cable EXCEPT ![s] = [d \in Holders |->
    IF d = s \/ d \in away THEN @[d]
    ELSE Append(@[d], [op |-> op, ep |-> IF s \in Holders THEN rkEpoch[s] ELSE 0, epoch |-> epoch, set |-> set])]]

Remember == been' = been \cup {<<c, rkEpoch'[c], seats'[c]>> : c \in Holders}

------------------------------------------------------------------------------
(* The attestation *)

\* NewRoster: from the snapshot of the round, not from the room as it is now.
NewRoster(c, r) == [by |-> c, epoch |-> r.epoch, members |-> r.members, sigs |-> r.sigs]

\* VerifyRoster: signatures over this epoch and the hash of the members listed.
VerifyRoster(a) ==
  a.sigs # {} /\ \A s \in a.sigs : s.epoch = a.epoch /\ s.set = a.members

------------------------------------------------------------------------------
(* The attester *)

\* SignRoster, its critical section: snapshot, own signature, timer.
SignRoster(c) ==
  /\ c \in Attesters /\ Here(c) /\ usr[c].pc = "idle" /\ ~cosign[c].on
  /\ started[c] < MaxRosters
  /\ started' = [started EXCEPT ![c] = @ + 1]
  /\ cosign' = [cosign EXCEPT ![c] =
       [on |-> TRUE, armed |-> TRUE, epoch |-> rkEpoch[c], members |-> seats[c],
        sigs |-> {[by |-> c, epoch |-> rkEpoch[c], set |-> seats[c]]}]]
  /\ usr' = [usr EXCEPT ![c] =
       [Resting EXCEPT !.pc = "request", !.epoch = rkEpoch[c], !.set = seats[c], !.total = Cardinality(seats[c])]]
  /\ UNCHANGED <<fluxVars, seatVars, timersDue, rdr, cable, emitted>>

\* ... and the broadcast of the request, or a failure to seal it, which drops the round.
RosterRequested(c) ==
  /\ Here(c) /\ usr[c].pc = "request"
  /\ \/ /\ SealAndSend(c, "request", usr[c].epoch, usr[c].set)
        /\ usr' = [usr EXCEPT ![c].pc = "check"]
        /\ UNCHANGED cosign
     \/ /\ cosign' = [cosign EXCEPT ![c] = NoRound]
        /\ usr' = [usr EXCEPT ![c] = Resting]
        /\ UNCHANGED cable
  /\ UNCHANGED <<fluxVars, seatVars, timersDue, rdr, started, emitted>>

\* maybeFinalizeRoster: everyone who was present when total was read has signed.
AllSigned(c, total) == cosign[c].on /\ Cardinality(cosign[c].sigs) >= total

\* finalizeRoster: whoever comes first emits, the other finds no round.
FinalizeRoster(c) ==
  /\ cosign' = [cosign EXCEPT ![c] = NoRound]
  /\ emitted' = IF cosign[c].on
                THEN emitted \cup {<<c, Cardinality({e \in emitted : e[1] = c}) + 1, NewRoster(c, cosign[c])>>}
                ELSE emitted

MaybeFinalizeByUser(c) ==
  \/ /\ usr[c].pc = "check"
     /\ usr' = [usr EXCEPT ![c] = IF AllSigned(c, usr[c].total) THEN [@ EXCEPT !.pc = "finalize"] ELSE Resting]
     /\ UNCHANGED <<fluxVars, seatVars, cosign, timersDue, rdr, cable, started, emitted>>
  \/ /\ usr[c].pc = "finalize"
     /\ FinalizeRoster(c)
     /\ usr' = [usr EXCEPT ![c] = Resting]
     /\ UNCHANGED <<fluxVars, seatVars, timersDue, rdr, cable, started>>

MaybeFinalizeByReader(c) ==
  \/ /\ rdr[c].pc = "check"
     /\ rdr' = [rdr EXCEPT ![c] = IF AllSigned(c, rdr[c].total) THEN [@ EXCEPT !.pc = "finalize"] ELSE Resting]
     /\ UNCHANGED <<fluxVars, seatVars, cosign, timersDue, usr, cable, started, emitted>>
  \/ /\ rdr[c].pc = "finalize"
     /\ FinalizeRoster(c)
     /\ rdr' = [rdr EXCEPT ![c] = Resting]
     /\ UNCHANGED <<fluxVars, seatVars, timersDue, usr, cable, started>>

\* The 30 s are over: from here on stop() does not hold the callback back.
RosterTimer(c) ==
  /\ cosign[c].armed
  /\ cosign' = [cosign EXCEPT ![c].armed = FALSE]
  /\ timersDue' = [timersDue EXCEPT ![c] = @ + 1]
  /\ UNCHANGED <<fluxVars, seatVars, usr, rdr, cable, started, emitted>>

\* The callback gets the lock; the round it meets need not be the one it was armed for.
FinalizeByTimer(c) ==
  /\ timersDue[c] > 0
  /\ timersDue' = [timersDue EXCEPT ![c] = @ - 1]
  /\ FinalizeRoster(c)
  /\ UNCHANGED <<fluxVars, seatVars, usr, rdr, cable, started>>

------------------------------------------------------------------------------
(* The read loop *)

\* One frame off the connection.  Notices of the relay are not sealed; a sealed frame
\* opens under the key held now, and its handler runs after the lock is released.
HandleRosterFrame(c, s) ==
  /\ Here(c) /\ rdr[c].pc = "idle" /\ cable[s][c] # <<>>
  /\ LET f == Head(cable[s][c])
     IN /\ seats' = [seats EXCEPT ![c] =
             CASE f.op = "joined" -> @ \cup {s} [] f.op = "left" -> @ \ {s} [] OTHER -> @]
        /\ rkEpoch' = [rkEpoch EXCEPT ![c] = IF f.op = "vanish" THEN @ + 1 ELSE @]
        /\ rdr' = [rdr EXCEPT ![c] =
             CASE f.op = "vanish" -> [Resting EXCEPT !.pc = "reset"]
               [] f.op \in {"request", "ack"} /\ s \in seats[c] /\ f.ep = rkEpoch[c] ->
                    [Resting EXCEPT !.pc = "opened", !.op = f.op, !.from = s, !.epoch = f.epoch, !.set = f.set]
               [] OTHER -> Resting]
  /\ cable' = [cable EXCEPT ![s][c] = Tail(@)]
  /\ Remember
  /\ UNCHANGED <<fluxVars, cosign, timersDue, usr, started, emitted>>

\* onRosterRequest, its critical section: our own view must be the one proposed.
OnRosterRequest(c) ==
  /\ Here(c) /\ rdr[c].pc = "opened" /\ rdr[c].op = "request"
  /\ rdr' = [rdr EXCEPT ![c] =
       IF rdr[c].epoch = rkEpoch[c] /\ rdr[c].set = seats[c] THEN [@ EXCEPT !.pc = "sign"] ELSE Resting]
  /\ UNCHANGED <<fluxVars, seatVars, cosign, timersDue, usr, cable, started, emitted>>

\* ... and the signature and its broadcast, with no look back at the view; either may fail.
SendRosterAck(c) ==
  /\ Here(c) /\ rdr[c].pc = "sign"
  /\ SealAndSend(c, "ack", rdr[c].epoch, rdr[c].set) \/ UNCHANGED cable
  /\ rdr' = [rdr EXCEPT ![c] = Resting]
  /\ UNCHANGED <<fluxVars, seatVars, cosign, timersDue, usr, started, emitted>>

\* Mutation: the hash is compared and the signature is not checked.
OnRosterAckUnverified(c) ==
  /\ Here(c) /\ rdr[c].pc = "opened" /\ rdr[c].op = "ack"
  /\ LET sig == [by |-> rdr[c].from, epoch |-> rdr[c].epoch, set |-> rdr[c].set]
     IN IF cosign[c].on /\ sig.set = cosign[c].members
        THEN /\ cosign' = [cosign EXCEPT ![c].sigs = {s \in @ : s.by # sig.by} \cup {sig}]
             /\ rdr' = [rdr EXCEPT ![c].pc = "check", ![c].total = Cardinality(seats[c])]
        ELSE rdr' = [rdr EXCEPT ![c] = Resting] /\ UNCHANGED cosign
  /\ UNCHANGED <<fluxVars, seatVars, timersDue, usr, cable, started, emitted>>

\* onRosterAck: for the round's own hash, and the signature verifies over its preimage.
OnRosterAck(c) ==
  /\ Here(c) /\ rdr[c].pc = "opened" /\ rdr[c].op = "ack"
  /\ LET sig == [by |-> rdr[c].from, epoch |-> rdr[c].epoch, set |-> rdr[c].set]
     IN IF cosign[c].on /\ sig.set = cosign[c].members /\ sig.epoch = cosign[c].epoch
        THEN /\ cosign' = [cosign EXCEPT ![c].sigs = {s \in @ : s.by # sig.by} \cup {sig}]
             /\ rdr' = [rdr EXCEPT ![c].pc = "check", ![c].total = Cardinality(seats[c])]
        ELSE rdr' = [rdr EXCEPT ![c] = Resting] /\ UNCHANGED cosign
  /\ UNCHANGED <<fluxVars, seatVars, timersDue, usr, cable, started, emitted>>

\* onControl, a /vanish: the ratchet was one critical section, resetCoordination is another.
ResetByReader(c) ==
  /\ Here(c) /\ rdr[c].pc = "reset"
  /\ cosign' = [cosign EXCEPT ![c] = NoRound]
  /\ rdr' = [rdr EXCEPT ![c] = Resting]
  /\ UNCHANGED <<fluxVars, seatVars, timersDue, usr, cable, started, emitted>>

------------------------------------------------------------------------------
(* The room around the round *)

\* Vanish: ratchetForward ...
VanishRatchets(c) ==
  /\ Here(c) /\ usr[c].pc = "idle" /\ ratchets < MaxRatchets
  /\ ratchets' = ratchets + 1
  /\ rkEpoch' = [rkEpoch EXCEPT ![c] = @ + 1]
  /\ usr' = [usr EXCEPT ![c] = [Resting EXCEPT !.pc = "reset"]]
  /\ UNCHANGED <<seats, cosign, timersDue, rdr, cable, away, seated, started, emitted>>
  /\ Remember

\* ... resetCoordinationLocked, then the control frame.
VanishResets(c) ==
  /\ Here(c) /\ usr[c].pc = "reset"
  /\ cosign' = [cosign EXCEPT ![c] = NoRound]
  /\ usr' = [usr EXCEPT ![c] = Resting]
  /\ SealAndSend(c, "vanish", 0, {})
  /\ UNCHANGED <<fluxVars, seatVars, timersDue, rdr, started, emitted>>

\* The relay unregisters a member, or registers one, and tells the others (Relay has the rest).
SeatLeft(c) ==
  /\ Here(c) /\ Cardinality(away \cup seated) < MaxFlux
  /\ away' = away \cup {c}
  /\ SealAndSend(c, "left", 0, {})
  /\ UNCHANGED <<seatVars, cosign, timersDue, usr, rdr, seated, started, ratchets, emitted>>

SeatTaken(j) ==
  /\ j \in Joiners \ seated /\ Cardinality(away \cup seated) < MaxFlux
  /\ seated' = seated \cup {j}
  /\ SealAndSend(j, "joined", 0, {})
  /\ UNCHANGED <<seatVars, cosign, timersDue, usr, rdr, away, started, ratchets, emitted>>

RosterNext ==
  \/ \E c \in Holders : \/ SignRoster(c) \/ RosterRequested(c) \/ MaybeFinalizeByUser(c)
                        \/ MaybeFinalizeByReader(c) \/ RosterTimer(c) \/ FinalizeByTimer(c)
                        \/ OnRosterRequest(c) \/ SendRosterAck(c) \/ OnRosterAck(c)
                        \/ ResetByReader(c) \/ VanishRatchets(c) \/ VanishResets(c) \/ SeatLeft(c)
  \/ \E c \in Holders, s \in AllSeats : HandleRosterFrame(c, s)
  \/ \E j \in Joiners : SeatTaken(j)

------------------------------------------------------------------------------
(* Properties *)

\* Whatever membership changes, ratchets, late co-signatures and late timers come in
\* between, an emitted attestation verifies, and each of its signers is one of the
\* members it lists and has itself been in a room of exactly these members in exactly
\* this epoch; a round emits at most one (SignRoster, onRosterRequest, onRosterAck,
\* finalizeRoster).
RosterTrue ==
  /\ \A e \in emitted : VerifyRoster(e[3]) /\ \A s \in e[3].sigs :
       s.by \in e[3].members /\ <<s.by, e[3].epoch, e[3].members>> \in been
  /\ \A c \in Holders : Cardinality({e \in emitted : e[1] = c}) <= started[c]
=============================================================================
