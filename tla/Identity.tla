------------------------------ MODULE Identity ------------------------------
(***************************************************************************)
(* Identity attestations: an issuer's signed statement that a key belongs  *)
(* to a person, for a time.  The issuing tool (cmd/netherchat-identity),   *)
(* the verifier (tui/attest), what a room's rows show of a statement a     *)
(* member carries and when a row is looked at again (tui/ui/app), and the  *)
(* statements a sealed record carries (tui/record/identity.go).            *)
(*                                                                         *)
(* Nothing here is online: statements and revocations are files that are   *)
(* copied about, possibly damaged, and the verifier decides from the keys  *)
(* it pins and its own clock.  A signature is the pair of its key and the  *)
(* bytes it covers.  "faults" are fields that do not have their form.      *)
(***************************************************************************)
EXTENDS Naturals, Sequences, FiniteSets

CONSTANTS Issuers, Subjects, Serials,
          Members,       \* the keys that join the room
          Displays,      \* display names an issuer signs, "" for none
          Lifetimes,     \* windows the issuing tool is asked for
          LongLived,     \* longest window without --long-lived
          Skews,         \* how far an issuer's clock is ahead of this machine's
          Faults,        \* field checks a damaged copy may fail
          MaxTime, MaxIssued, MaxStatements, MaxDamage, MaxFiled  \* bounds

ASSUME IdentityAssumption ==
  /\ MaxTime \in Nat /\ MaxIssued \in Nat /\ MaxStatements \in Nat /\ MaxDamage \in Nat /\ MaxFiled \in Nat
  /\ Lifetimes \subseteq Nat /\ LongLived \in Nat /\ Skews \subseteq Nat

VARIABLES now,
          use,         \* who runs the verifier: a room client, a reader of a record, a
                       \* program that links the library and supplies revocations
          pins,        \* the pinned issuer keys of this client
          artifacts,   \* identity files in circulation
          statements,  \* revocation files in circulation
          rows,        \* members present, and this client itself: what each row shows
          checkedAt,   \* when recheckIdentities last ran (lastCheckedAt, which admitMember
                       \* also sets, is only printed by /issuer and left out)
          filed,       \* identity entries of the record, in order
          damage,
          vouched      \* history: what each issuer signed
identityVars == <<now, use, pins, artifacts, statements, rows, checkedAt, filed, damage, vouched>>

Never == 0           \* the zero time.Time

------------------------------------------------------------------------------
(* attest/identity.go *)

\* IdentitySigningBytes: every field but the version, the signatures and their keys.
IdentitySigningBytes(a) ==
  <<"identity", a.serial, a.subject, a.display, a.from, a.until, a.issuer, a.faults \ {"version"}>>
RevocationSigningBytes(s) == <<"revocation", s.issuer, s.number, s.serials>>
Issued(k, bytes) == [by |-> k, over |-> bytes]

\* The reason of the first check that fails, in the order the code makes them.
FirstFailing(checks) ==
  LET bad == {i \in DOMAIN checks : ~checks[i][2]}
  IN IF bad = {} THEN "" ELSE checks[CHOOSE i \in bad : \A j \in bad : i <= j][1]

\* What one pinned key makes of the signature filed under its fingerprint.
keyOutcome(x, k, bytes) ==
  FirstFailing(<<
    <<"signer_key_malformed", x.keys[k] # "garbled">>,
    <<"signer_key_mismatch", x.keys[k] \in {k, "absent"}>>,
    <<"signature_malformed", x.sigs[k].by # "garbled">>,
    <<"signature_invalid", x.sigs[k] = Issued(k, bytes)>> >>)
Severity == <<"signature_malformed", "signer_key_malformed", "signer_key_mismatch", "signature_invalid">>

Named(x, ps) == {k \in ps : k \in DOMAIN x.sigs}
VerifiedBy(x, ps, bytes) == {k \in Named(x, ps) : keyOutcome(x, k, bytes) = ""}
worst(x, ps, bytes) ==
  LET seen == {keyOutcome(x, k, bytes) : k \in Named(x, ps)} \ {""}
  IN IF seen = {} THEN "no_pinned_issuer_verified"
     ELSE Severity[CHOOSE i \in DOMAIN Severity :
                     Severity[i] \in seen /\ \A j \in DOMAIN Severity : Severity[j] \in seen => j <= i]

FieldOrder == <<"version", "algorithm", "serial", "subject", "principal", "type", "roles", "issuer", "time">>
FieldChecks(x) == [i \in DOMAIN FieldOrder |-> <<FieldOrder[i], FieldOrder[i] \notin x.faults>>]

SignerChecks(x, ps, bytes) ==
  << <<"issuer_did_not_sign", x.issuer \in DOMAIN x.sigs>>,
     <<"no_issuer_pinned", ps # {}>>,
     <<worst(x, ps, bytes), VerifiedBy(x, ps, bytes) # {}>> >>

\* attest/revocation.go
VerifyRevocation(s, ps) ==
  FirstFailing(<< <<"malformed", s.faults = {}>> >> \o SignerChecks(s, ps, RevocationSigningBytes(s))) = ""
\* Mutation: of one issuer's statements the one with the highest number counts.
ListedByLatest(a, revs) ==
  \E s \in revs : /\ s.issuer = a.issuer /\ a.serial \in s.serials
                  /\ \A t \in revs : t.issuer = s.issuer => t.number <= s.number
Listed(a, revs) == \E s \in revs : s.issuer = a.issuer /\ a.serial \in s.serials
RevocationChecks(a, ps, revs) ==
  << <<"revocation_unverifiable", \A s \in revs : VerifyRevocation(s, ps)>>,
     <<"revoked", ~Listed(a, revs)>> >>

\* VerifyIdentity: the stable reason, "" when valid.
VerifyIdentity(a, ps, at, revs) ==
  FirstFailing(FieldChecks(a) \o << <<"inverted_window", a.from <= a.until>> >>
    \o SignerChecks(a, ps, IdentitySigningBytes(a))
    \o << <<"not_yet_valid", a.from <= at>>, <<"expired", at <= a.until>> >>
    \o RevocationChecks(a, ps, revs))

------------------------------------------------------------------------------
(* attest/identity_display.go, ui/app/issuerpin.go *)

Display(state, name, reason) == [state |-> state, name |-> name, reason |-> reason]

\* Mutation: the name is taken from the statement, whichever key it came with.
IdentityDisplayForAny(fpr, a, checked, reason) ==
  IF ~checked \/ reason # "" THEN Display("carried", "", reason)
  ELSE IF a.display # "" THEN Display("verified_named", a.display, "")
  ELSE Display("verified_unnamed", "principal", "")
\* IdentityDisplayFor, for a credential that parsed.  checked is FALSE where no result
\* was computed.
IdentityDisplayFor(fpr, a, checked, reason) ==
  IF a.subject # fpr THEN Display("carried", "", "subject_mismatch")
  ELSE IF ~checked \/ reason # "" THEN Display("carried", "", reason)
  ELSE IF a.display # "" THEN Display("verified_named", a.display, "")
  ELSE Display("verified_unnamed", "principal", "")

\* carried is <<>> (no credential) or <<a>>; a file that does not parse has the fault "parse".
attribute(fpr, carried, at) ==
  IF carried = <<>> THEN Display("asserted", "", "")
  ELSE IF "parse" \in carried[1].faults THEN Display("carried", "", "malformed_artifact")
  ELSE IdentityDisplayFor(fpr, carried[1], pins # {},
         IF pins = {} THEN "" ELSE VerifyIdentity(carried[1], pins, at, {}))

Verified(d) == d.state \in {"verified_named", "verified_unnamed"}
\* When the clock next changes what a row shows: the window's end (the instant after
\* it, on this clock of whole steps the next one), or its beginning.
nextClockEvent(d, carried) ==
  IF Verified(d) THEN carried[1].until + 1
  ELSE IF d.reason = "not_yet_valid" THEN carried[1].from
  ELSE Never

Row(fpr, carried, at) ==
  LET d == attribute(fpr, carried, at)
  IN [carried |-> carried, identity |-> d, recheckAt |-> nextClockEvent(d, carried)]
due(row) == row.recheckAt # Never /\ row.recheckAt <= now

------------------------------------------------------------------------------
(* record/identity.go *)

\* The IdentityOutcome of one entry.
EntryReason(a, ps, at) ==
  IF "parse" \in a.faults THEN "malformed_artifact" ELSE VerifyIdentity(a, ps, at, {})
BindingKey(a) == <<a.subject, a.issuer, a.serial>>
\* VerifyWithIdentity: the entries surfaced as bindings, the first of each key.
Bindings(ps, at) ==
  {i \in DOMAIN filed :
     /\ EntryReason(filed[i], ps, at) = ""
     /\ \A j \in 1..(i - 1) :
          EntryReason(filed[j], ps, at) = "" => BindingKey(filed[j]) # BindingKey(filed[i])}
\* identityResultForEntry: the fields rendered for entry i are those of the binding that
\* carries its subject, issuer and serial.
IdentityDisplayForEntry(i, ps, at) ==
  LET reason == EntryReason(filed[i], ps, at)
      b == CHOOSE j \in Bindings(ps, at) : BindingKey(filed[j]) = BindingKey(filed[i])
  IN IF ps = {} \/ reason # "" THEN IdentityDisplayFor(filed[i].subject, filed[i], ps # {}, reason)
     ELSE IdentityDisplayFor(filed[b].subject, filed[b], TRUE, "")

------------------------------------------------------------------------------
(* Steps *)

SignWith(x, ks, bytes) ==
  [x EXCEPT !.sigs = [k \in ks |-> Issued(k, bytes)], !.keys = [k \in Issuers |-> k]]
Vouch(ks, bytes) == vouched' = vouched \cup {Issued(k, bytes) : k \in ks}
Unsigned == [x \in {} |-> Issued("garbled", "")]

\* The tool's issue command: a window of positive length, at most LongLived unless the
\* operator insists; the issuer's clock may be ahead.
checkLifetime(life, longLived) == life > 0 /\ (life > LongLived => longLived)
Issue(k, s, sn, display, life, skew) ==
  LET a == [serial |-> sn, subject |-> s, display |-> display, from |-> now + skew,
            until |-> now + skew + life, issuer |-> k, faults |-> {}, sigs |-> Unsigned, keys |-> [x \in {} |-> ""]]
  IN /\ Cardinality(artifacts) < MaxIssued + damage /\ a.until < MaxTime
     /\ checkLifetime(life, life > LongLived)
     /\ artifacts' = artifacts \cup {SignWith(a, {k}, IdentitySigningBytes(a))}
     /\ Vouch({k}, IdentitySigningBytes(a))
     /\ UNCHANGED <<now, use, pins, statements, rows, checkedAt, filed, damage>>

\* WithSignatures with a second issuer's, as in the rotation of an issuing key, before the
\* statement is carried into a room.
CoSign(a, k) ==
  /\ use # "room" /\ a \in artifacts /\ k \notin DOMAIN a.sigs /\ a.faults = {}
  /\ artifacts' = (artifacts \ {a}) \cup
       {[a EXCEPT !.sigs = [x \in DOMAIN a.sigs \cup {k} |->
                              IF x = k THEN Issued(k, IdentitySigningBytes(a)) ELSE a.sigs[x]]]}
  /\ Vouch({k}, IdentitySigningBytes(a))
  /\ UNCHANGED <<now, use, pins, statements, rows, checkedAt, filed, damage>>

\* The operator numbers an issuer's statements from 1 upwards.
Revoke(k, serials) ==
  LET number == Cardinality({s \in statements : s.issuer = k}) + 1
      s == [issuer |-> k, number |-> number, serials |-> serials, faults |-> {},
            sigs |-> Unsigned, keys |-> [x \in {} |-> ""]]
  IN /\ use = "library" /\ Cardinality(statements) < MaxStatements
     /\ statements' = statements \cup {SignWith(s, {k}, RevocationSigningBytes(s))}
     /\ Vouch({k}, RevocationSigningBytes(s))
     /\ UNCHANGED <<now, use, pins, artifacts, rows, checkedAt, filed, damage>>

\* A copy is altered on its way.
Altered1(a) ==
  {[a EXCEPT !.subject = s] : s \in Subjects} \cup {[a EXCEPT !.until = MaxTime], [a EXCEPT !.display = "Eve"]}
  \cup {[a EXCEPT !.faults = {f}] : f \in Faults}
  \cup {[a EXCEPT !.keys[k] = v] : k \in DOMAIN a.sigs, v \in Issuers \cup {"garbled", "absent"}}
  \cup {[a EXCEPT !.sigs[k].by = "garbled"] : k \in DOMAIN a.sigs}
  \cup {[a EXCEPT !.sigs = [x \in {k} |-> a.sigs[CHOOSE y \in DOMAIN a.sigs : TRUE]]] : k \in Issuers}
DamageCopy(a) ==
  /\ damage < MaxDamage /\ damage' = damage + 1 /\ a \in artifacts
  /\ \E b \in Altered1(a) \ artifacts : artifacts' = artifacts \cup {b}
  /\ UNCHANGED <<now, use, pins, statements, rows, checkedAt, filed, vouched>>

Tick ==
  /\ use # "library" /\ now < MaxTime /\ now' = now + 1  \* the library is told the time
  /\ UNCHANGED <<use, pins, artifacts, statements, rows, checkedAt, filed, damage, vouched>>

\* A member joins (room.go, memberView) or the client's own credential is installed
\* (useCredential): the row is decided at once.
Admit(s, carried) ==
  /\ use = "room" /\ s \notin DOMAIN rows
  /\ rows' = [x \in DOMAIN rows \cup {s} |-> IF x = s THEN Row(s, carried, now) ELSE rows[x]]
  /\ UNCHANGED <<now, use, pins, artifacts, statements, checkedAt, filed, damage, vouched>>
Departs(s) ==
  /\ s \in DOMAIN rows /\ rows' = [x \in DOMAIN rows \ {s} |-> rows[x]]
  /\ UNCHANGED <<now, use, pins, artifacts, statements, checkedAt, filed, damage, vouched>>

\* The 15 s tick: only the rows whose time has come are decided again.
recheckIdentities ==
  /\ use = "room" /\ checkedAt # now /\ checkedAt' = now
  /\ rows' = [x \in DOMAIN rows |-> IF due(rows[x]) THEN Row(x, rows[x].carried, now) ELSE rows[x]]
  /\ UNCHANGED <<now, use, pins, artifacts, statements, filed, damage, vouched>>

\* AppendIdentity: anyone may file any statement.
AppendIdentity(a) ==
  /\ use = "reader" /\ Len(filed) < MaxFiled /\ filed' = Append(filed, a)
  /\ UNCHANGED <<now, use, pins, artifacts, statements, rows, checkedAt, damage, vouched>>

IdentityInit ==
  /\ now = 1 /\ use \in {"room", "reader", "library"}
  /\ pins \in SUBSET Issuers /\ (use = "library" => pins = {})  \* the library's caller passes its own
  /\ artifacts = {} /\ statements = {}
  /\ rows = [x \in {} |-> <<>>] /\ checkedAt = Never /\ filed = <<>> /\ damage = 0 /\ vouched = {}

IdentityNext ==
  \/ \E k \in Issuers, s \in Subjects, sn \in Serials, d \in Displays, l \in Lifetimes, w \in Skews :
       Issue(k, s, sn, d, l, w)
  \/ \E k \in Issuers, sn \in Serials \cup {"other"} : Revoke(k, {sn})
  \/ \E a \in artifacts : DamageCopy(a) \/ AppendIdentity(a) \/ \E k \in Issuers : CoSign(a, k)
  \/ \E s \in Members : Departs(s) \/ \E c \in {<<>>} \cup {<<a>> : a \in artifacts} : Admit(s, c)
  \/ Tick \/ recheckIdentities

------------------------------------------------------------------------------
(* Properties *)

Backed(a, ps, at) ==
  /\ \E k \in ps : Issued(k, IdentitySigningBytes(a)) \in vouched
  /\ a.from <= at /\ at <= a.until

\* The solid mark: a pinned issuer vouched for this very key, under the name shown, and
\* the window had not run out when the client last looked at its clock (issuerpin.go).
MarkIsEarned ==
  \A s \in DOMAIN rows : Verified(rows[s].identity) =>
    LET a == rows[s].carried[1]
    IN /\ a.subject = s /\ \E k \in pins : Issued(k, IdentitySigningBytes(a)) \in vouched
       /\ checkedAt = now => Backed(a, pins, now)

\* Looking only at the rows that are due shows what looking at every row would
\* (recheckIdentities, nextClockEvent).
RecheckExact ==
  checkedAt = now => \A s \in DOMAIN rows : rows[s].identity = attribute(s, rows[s].carried, now)

\* Another pinned key never takes a verdict away, and another revocation statement
\* never gives one back (VerifyIdentity, checkRevocations).
VerdictMonotone ==
  use = "library" =>
    \A a \in artifacts, at \in 1..MaxTime, ps \in SUBSET Issuers, revs \in SUBSET statements :
      VerifyIdentity(a, ps, at, revs) = "" =>
        /\ \A k \in Issuers \ ps : VerifyIdentity(a, ps \cup {k}, at, revs) = ""
        /\ \A r \in revs : VerifyIdentity(a, ps, at, revs \ {r}) = ""

\* A binding read out of a record is one a pinned issuer signed for the time asked
\* about, and the entry is shown under that binding's own name (VerifyWithIdentity).
BindingIsSigned ==
  \A i \in DOMAIN filed :
    LET d == IdentityDisplayForEntry(i, pins, now)
    IN /\ i \in Bindings(pins, now) => Backed(filed[i], pins, now) /\ Verified(d)
       /\ Verified(d) => \E j \in Bindings(pins, now) :
                           /\ filed[j].subject = filed[i].subject
                           /\ d.name \in {filed[j].display, "principal"}
=============================================================================
