------------------------------ MODULE RoomView ------------------------------
(***************************************************************************)
(* What the terminal interface says about the people of a room and about   *)
(* the credentials filed in its record (tui/ui/app: attribution.go,        *)
(* roomidentity.go, verify.go), on the decisions of Identity.              *)
(*                                                                         *)
(* A roster row is decided again by the clock; a line of the log is        *)
(* decided once, when its entry lands, and keeps that moment.  Wording and *)
(* colour are left out: what a surface states is a member of a small set.  *)
(* Nobody shares a key here, so a row is found by its fingerprint.         *)
(***************************************************************************)
EXTENDS Identity

CONSTANTS Handle,    \* the name each key's holder typed
          Trusts,    \* the [[trust]] tables a netherchat.toml may have: handle -> pinned fingerprint
          MaxShown   \* bound: identity entries on the log

ASSUME RoomViewAssumption == DOMAIN Handle = Subjects /\ MaxShown \in Nat

VARIABLES trust,     \* this client's [[trust]] table
          verified,  \* fingerprints marked with /verify @handle ok
          lines      \* identity entries on the room's log, as decided when they landed
viewVars == <<trust, verified, lines>>
roomVars == <<identityVars, viewVars>>

------------------------------------------------------------------------------
(* attribution.go *)

ClassOf(reason) ==
  CASE reason = "" -> ""
    [] reason = "no_issuer_pinned" -> "unconfigured"
    [] reason = "no_pinned_issuer_verified" -> "unanchored"
    [] reason \in {"not_yet_valid", "expired", "revoked"} -> "lifecycle"
    [] reason \in {"signature_invalid", "revocation_unverifiable"} -> "forged"
    [] OTHER -> "malformed"

\* carriedWords: why a credential is a claim and no more.
carriedWords(d, pinned) ==
  CASE d.reason = "subject_mismatch" -> "another key"
    [] d.reason = "malformed_artifact" -> "not an artifact"
    [] d.reason \notin {"subject_mismatch", "malformed_artifact"} ->
         IF ~pinned \/ ClassOf(d.reason) \in {"", "unconfigured"} THEN "not checked"
         ELSE IF ClassOf(d.reason) = "unanchored" THEN "unpinned authority"
         ELSE IF ClassOf(d.reason) = "lifecycle" THEN "checked, out of its time"
         ELSE "checked, did not verify"

credentialStateOf(fpr) == IF fpr \in DOMAIN rows THEN rows[fpr].identity ELSE Display("asserted", "", "")
isPinned(fpr) == Handle[fpr] \in DOMAIN trust /\ trust[Handle[fpr]] = fpr
trustLevelOf(fpr) == IF fpr \in verified THEN "SAS" ELSE IF isPinned(fpr) THEN "pin" ELSE ""

\* The one mark of a roster row and of a message: the strongest thing this client can say.
trustMark(fpr) == LET d == credentialStateOf(fpr) IN
  IF Verified(d) THEN "attested"
  ELSE IF trustLevelOf(fpr) # "" THEN trustLevelOf(fpr)
  ELSE IF d.state # "carried" THEN ""
  ELSE IF d.reason = "subject_mismatch" THEN "claim, refuted" ELSE "claim"
\* The same decision in /verify and /roster.
trustWords(fpr) == LET d == credentialStateOf(fpr) IN
  IF Verified(d) THEN "attested"
  ELSE IF trustLevelOf(fpr) # "" THEN trustLevelOf(fpr)
  ELSE IF d.state = "carried" THEN carriedWords(d, pins # {}) ELSE "unverified"

\* The last line of /whois and /whoami about a credential.
credentialBlock(d, pinned) ==
  IF d.state = "asserted" THEN ""
  ELSE IF Verified(d) THEN "checked"
  ELSE IF ~pinned THEN "not checked"
  ELSE IF d.reason = "subject_mismatch" THEN "another key"
  ELSE IF ClassOf(d.reason) = "unanchored" THEN "unpinned authority"
  ELSE "checked, did not verify"

------------------------------------------------------------------------------
(* roomidentity.go *)

\* The name somebody present, this operator's own row included, typed for that key.
handleHolding(fpr) == IF fpr \in DOMAIN rows THEN Handle[fpr] ELSE ""

decideRecordIdentity(author, a, replayed, at) ==
  IF "parse" \in a.faults
  THEN [of |-> a, author |-> author, subject |-> "", handle |-> "", selfFiled |-> FALSE, checkedAt |-> Never,
        replayed |-> replayed, malformed |-> TRUE, display |-> Display("carried", "", "malformed_artifact")]
  ELSE [of |-> a, author |-> author, subject |-> a.subject, handle |-> handleHolding(a.subject),
        selfFiled |-> a.subject = author, checkedAt |-> IF replayed \/ pins = {} THEN Never ELSE at,
        replayed |-> replayed, malformed |-> FALSE,
        display |-> IF replayed THEN IdentityDisplayFor(a.subject, a, FALSE, "")
                    ELSE attribute(a.subject, <<a>>, at)]

\* Whose credential the line says was filed, and under which name.
Heading(l) ==
  IF l.malformed THEN <<"a credential that does not parse", "">>
  ELSE IF l.selfFiled THEN <<"their own", IF Verified(l.display) THEN l.display.name ELSE "">>
  ELSE <<"somebody's", IF Verified(l.display) THEN l.display.name ELSE l.handle>>
identityVerdict(l) ==
  IF l.replayed THEN "not checked"
  ELSE IF Verified(l.display) THEN "checked" ELSE carriedWords(l.display, pins # {})

------------------------------------------------------------------------------
(* Steps *)

\* An identity entry lands, from a member or from a replayed record.
appendRecordLine(author, a, replayed) ==
  /\ use = "room" /\ Len(lines) < MaxShown
  /\ lines' = Append(lines, decideRecordIdentity(author, a, replayed, now))
  /\ UNCHANGED <<identityVars, trust, verified>>

\* /verify @handle ok, for somebody who is present.
markVerified(fpr) ==
  /\ use = "room" /\ fpr \in DOMAIN rows \ verified
  /\ verified' = verified \cup {fpr}
  /\ UNCHANGED <<identityVars, trust, lines>>

RoomInit == IdentityInit /\ trust \in Trusts /\ verified = {} /\ lines = <<>>
RoomNext ==
  \/ IdentityNext /\ UNCHANGED viewVars
  \/ \E a \in artifacts, author \in Members, replayed \in BOOLEAN : appendRecordLine(author, a, replayed)
  \/ \E s \in Members : markVerified(s)

------------------------------------------------------------------------------
(* Properties *)

\* A line of the log never shows a signed name unless a pinned issuer had signed it, for the
\* moment the line says it was checked; a replayed entry is never shown as checked; and a
\* name is put to the author's own credential only where the statement is about that key.
LinesAreEarned ==
  \A i \in DOMAIN lines : LET l == lines[i] IN
    /\ Verified(l.display) => ~l.replayed /\ l.checkedAt # Never /\ Backed(l.of, pins, l.checkedAt)
    /\ Heading(l)[1] = "their own" /\ Heading(l)[2] # "" =>
         Backed(l.of, pins, l.checkedAt) /\ l.of.subject = l.author

\* "Not checked here" is said only where no check was made, and never where one failed.
NotCheckedIsTrue ==
  /\ \A i \in DOMAIN lines : identityVerdict(lines[i]) = "not checked" => lines[i].checkedAt = Never
  /\ \A s \in DOMAIN rows : trustWords(s) = "not checked" =>
       pins = {} /\ rows[s].carried[1].subject = s /\ "parse" \notin rows[s].carried[1].faults

\* A row, its sentence and a log line decided at the same moment about the same credential
\* say the same of it.
SurfacesAgree ==
  /\ \A s \in DOMAIN rows :
       /\ trustMark(s) = "claim, refuted" <=> trustWords(s) = "another key"
       /\ trustMark(s) = "attested" <=> credentialBlock(rows[s].identity, pins # {}) = "checked"
  /\ \A i \in DOMAIN lines, s \in DOMAIN rows :
       (lines[i].checkedAt = now /\ checkedAt = now /\ rows[s].carried = <<lines[i].of>> /\ lines[i].of.subject = s) =>
         lines[i].display = rows[s].identity

\* A name shown as verified, on the roster, on the log or in a record, is one a pinned issuer
\* vouched for, and the surfaces that show it tell one story.
NamesAreVouched == MarkIsEarned /\ RecheckExact /\ BindingIsSigned /\ LinesAreEarned /\ NotCheckedIsTrue /\ SurfacesAgree
=============================================================================
