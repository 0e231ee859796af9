------------------------------- MODULE Invites -------------------------------
(***************************************************************************)
(* The one-time invite tokens of server/internal/invite/invite.go.  A      *)
(* token is "unminted" before Generate, "live" while it is in the map and  *)
(* inside its lifetime, "expired" while it is in the map past its expiry,  *)
(* and "spent" once it has left the map (redeemed, or reclaimed).          *)
(***************************************************************************)
EXTENDS RelayParams

CONSTANT Tokens   \* the tokens a behaviour may mint (a bound)

VARIABLES tokState,  \* where the token is in its life
          tokRoom    \* entry.room: the room the token was minted for

inviteVars == <<tokState, tokRoom>>

InviteTypeOK ==
  /\ tokState \in [Tokens -> {"unminted", "live", "expired", "spent"}]
  /\ tokRoom \in [Tokens -> Rooms \cup {NoRoom}]

InviteInit ==
  /\ tokState = [t \in Tokens |-> "unminted"]
  /\ tokRoom = [t \in Tokens |-> NoRoom]

\* Store.Generate, for every token of ts (tokens are random, hence fresh).
Generate(ts, r) ==
  /\ \A t \in ts : tokState[t] = "unminted"
  /\ tokState' = [t \in Tokens |-> IF t \in ts THEN "live" ELSE tokState[t]]
  /\ tokRoom' = [t \in Tokens |-> IF t \in ts THEN r ELSE tokRoom[t]]

\* What Store.Redeem answers.
Redeemable(t, r) == tokState[t] = "live" /\ tokRoom[t] = r

\* Mutation: only an expired token is deleted.
RedeemKeeps(t, r) ==
  /\ tokState' = [tokState EXCEPT ![t] = IF @ = "expired" THEN "spent" ELSE @]
  /\ UNCHANGED tokRoom

\* What Store.Redeem leaves: a redeemed or an expired token is deleted, a token
\* presented for another room stays.
Redeem(t, r) ==
  /\ tokState' = [tokState EXCEPT ![t] =
                    IF Redeemable(t, r) \/ @ = "expired" THEN "spent" ELSE @]
  /\ UNCHANGED tokRoom

\* time.Now passes the token's expiry.
TokenExpires(t) ==
  /\ tokState[t] = "live"
  /\ tokState' = [tokState EXCEPT ![t] = "expired"]
  /\ UNCHANGED tokRoom

\* Store.sweep: the janitor reclaims every expired token, and only those.
InviteSweep ==
  /\ \E t \in Tokens : tokState[t] = "expired"
  /\ tokState' = [t \in Tokens |-> IF tokState[t] = "expired" THEN "spent" ELSE tokState[t]]
  /\ UNCHANGED tokRoom

==============================================================================
