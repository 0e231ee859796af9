----------------------------- MODULE RecordSeal -----------------------------
(***************************************************************************)
(* The sealed-record library (tui/record): a chain of signed entries       *)
(* (record.go), the offline Sealer that collects co-signatures and         *)
(* artifact approvals over it (sealer.go), the record file it writes, and  *)
(* Verify, which judges a file with nothing but the file (sealed.go).      *)
(*                                                                         *)
(* SHA-256 is collision-free: the hash of an entry is the entry's signed   *)
(* content in brackets, the fingerprint of a key is the key.  A signature  *)
(* is the pair of its key and the bytes it covers; nobody makes one for a  *)
(* key that is not theirs.  An Endorsement's meaning, name and time are    *)
(* one value, and a body is what ArtifactOf would parse from it.           *)
(*                                                                         *)
(* Between sealing and verification the file is handed about, and a copy   *)
(* may be altered: Alter changes one part of it at a time.                 *)
(***************************************************************************)
EXTENDS Naturals, Sequences, FiniteSets

CONSTANTS Authors,      \* the key holders
          Rooms,        \* the room sealed, and another one
          EntrySpecs,   \* what Append is called with: [kind, body, schema]
          Meanings, Roles,
          MaxChain,     \* bound: entries in a chain
          MaxSealerOps, \* bound: calls on the Sealer before Finalize
          MaxAlter      \* bound: alterations of the file

ASSUME RecordAssumption ==
  MaxChain \in Nat /\ MaxSealerOps \in Nat /\ MaxAlter \in Nat /\ "" \notin Meanings \cup Roles

Home == CHOOSE r \in Rooms : TRUE
BuiltIn == {"decision", "action", "note", "artifact"}
NoFile == [version |-> "none"]

VARIABLES stage,    \* chain: before NewSealer; seal; file: after Finalize
          links,    \* Chain.entries
          sealer,   \* the Sealer: entries, head, sigs, ends, proofs
          ops,
          file,     \* the record file as it now is
          alters,
          acts      \* history: what key holders did
recordVars == <<stage, links, sealer, ops, file, alters, acts>>

-----------------------------------------------------------------------------
(* record.go *)

Fingerprint(k) == k
zeroHash == <<>>
extended(e) == e.kind = "typed" \/ e.schema # ""
canonical(e) ==
  [layout |-> IF extended(e) THEN 2 ELSE 1, seq |-> e.seq, author |-> e.author,
   kind |-> e.kind, body |-> e.body, schema |-> e.schema, prev |-> e.prev]
HashOf(e) == <<canonical(e)>>
headOf(entries) == IF entries = <<>> THEN zeroHash ELSE HashOf(entries[Len(entries)])
Content(entries) == [i \in DOMAIN entries |-> canonical(entries[i])]

Signature(k, bytes) == [by |-> k, over |-> bytes]
SignedBy(sig, k, bytes) == sig = Signature(k, bytes)
EntryBytes(e) == <<"record", canonical(e)>>

VerifyEntry(e) ==
  /\ Fingerprint(e.key) = e.author
  /\ \/ e.kind \in BuiltIn /\ e.schema = ""
     \/ e.kind = "typed" /\ e.schema # ""
  /\ SignedBy(e.sig, e.key, EntryBytes(e))

NewEntry(a, spec) ==
  LET e == [seq |-> Len(links), author |-> Fingerprint(a), key |-> a, kind |-> spec.kind,
            body |-> spec.body, schema |-> spec.schema, prev |-> headOf(links), sig |-> <<>>]
  IN [e EXCEPT !.sig = Signature(a, EntryBytes(e))]

\* Append checks nothing about its spec: a typed entry without a schema is signed too.
AppendEntry(a, spec) ==
  /\ stage # "file" /\ Len(links) < MaxChain
  /\ LET e == NewEntry(a, spec)
     IN /\ links' = Append(links, e)
        /\ acts' = acts \cup {[act |-> "append", by |-> a, what |-> <<canonical(e)>>]}
  /\ UNCHANGED <<stage, sealer, ops, file, alters>>

-----------------------------------------------------------------------------
(* sealer.go *)

SealBytes(room, head) == <<"seal/v1", room, head>>
SealBytesV2(room, meaning, head) == <<"seal/v2", room, meaning, head>>
ApprovalBytes(pid, body, fpr, role) ==
  IF role = "" THEN <<"approval/v1", pid, body.hash, fpr, body.nonce>>
  ELSE <<"approval/v2", pid, body.hash, fpr, body.nonce, role>>

Put(f, k, v) == [x \in DOMAIN f \cup {k} |-> IF x = k THEN v ELSE f[x]]
Drop(f, k) == [x \in DOMAIN f \ {k} |-> f[x]]
Nil == [x \in {} |-> ""]

NewSealer ==
  /\ stage = "chain" /\ stage' = "seal"
  /\ sealer' = [entries |-> links, head |-> headOf(links),
                sigs |-> Nil, keys |-> Nil, ends |-> Nil, proofs |-> Nil]
  /\ UNCHANGED <<links, ops, file, alters, acts>>

Call == stage = "seal" /\ ops < MaxSealerOps /\ ops' = ops + 1

\* addVerified: the co-signature of a signer replaces an earlier one; an endorsement is
\* set when this signature carries one and otherwise left as it was.
addVerified(k, bytes, meaning) ==
  sealer' = [sealer EXCEPT !.sigs = Put(@, Fingerprint(k), Signature(k, bytes)),
                           !.keys = Put(@, Fingerprint(k), k),
                           !.ends = IF meaning = "" THEN @ ELSE Put(@, Fingerprint(k), meaning)]
Sealed(k, meaning) ==
  acts' = acts \cup {[act |-> "seal", by |-> k, what |-> <<Home, meaning, Content(sealer.entries)>>]}

Sign(k) ==
  /\ Call /\ addVerified(k, SealBytes(Home, sealer.head), "") /\ Sealed(k, "")
  /\ UNCHANGED <<stage, links, file, alters>>
SignAs(k, meaning) ==
  /\ Call /\ addVerified(k, SealBytesV2(Home, meaning, sealer.head), meaning) /\ Sealed(k, meaning)
  /\ UNCHANGED <<stage, links, file, alters>>

ArtifactOf(e) == e.kind = "artifact" /\ e.body.parses
\* The first artifact entry of the snapshot with this proposal id, or 0.
artifactMetaByProposal(entries, pid) ==
  LET at == {i \in DOMAIN entries : ArtifactOf(entries[i]) /\ entries[i].body.pid = pid}
  IN IF at = {} THEN 0 ELSE CHOOSE i \in at : \A j \in at : i <= j

ProposalIds(entries) == {entries[i].body.pid : i \in {j \in DOMAIN entries : ArtifactOf(entries[j])}}

\* Mutation: an artifact without a nonce is approved all the same.
AddArtifactApprovalBare(k, pid, role) ==
  LET body == sealer.entries[artifactMetaByProposal(sealer.entries, pid)].body
      proof == [fpr |-> Fingerprint(k), key |-> k, role |-> role,
                sig |-> Signature(k, ApprovalBytes(pid, body, Fingerprint(k), role))]
      others == IF pid \in DOMAIN sealer.proofs THEN sealer.proofs[pid] ELSE <<>>
  IN /\ Call /\ artifactMetaByProposal(sealer.entries, pid) # 0
     /\ sealer' = [sealer EXCEPT !.proofs = Put(@, pid, Append(others, proof))]
     /\ acts' = acts \cup {[act |-> "approve", by |-> k, what |-> <<pid, body.hash, role>>]}
     /\ UNCHANGED <<stage, links, file, alters>>
\* AddArtifactApproval (role "") and AddArtifactApprovalV2.
AddArtifactApproval(k, pid, role) ==
  LET body == sealer.entries[artifactMetaByProposal(sealer.entries, pid)].body
      proof == [fpr |-> Fingerprint(k), key |-> k, role |-> role,
                sig |-> Signature(k, ApprovalBytes(pid, body, Fingerprint(k), role))]
      others == IF pid \in DOMAIN sealer.proofs THEN sealer.proofs[pid] ELSE <<>>
  IN /\ Call /\ artifactMetaByProposal(sealer.entries, pid) # 0 /\ body.nonce # ""
     /\ sealer' = [sealer EXCEPT !.proofs = Put(@, pid, Append(others, proof))]
     /\ acts' = acts \cup {[act |-> "approve", by |-> k, what |-> <<pid, body.hash, role>>]}
     /\ UNCHANGED <<stage, links, file, alters>>

recordVersion(s) ==
  IF DOMAIN s.ends # {} \/ DOMAIN s.proofs # {} \/ \E i \in DOMAIN s.entries : extended(s.entries[i])
  THEN "v2" ELSE "v1"
FileOf(s) ==
  [version |-> recordVersion(s), room |-> Home, entries |-> s.entries, head |-> s.head,
   sigs |-> s.sigs, keys |-> s.keys, ends |-> s.ends, proofs |-> s.proofs]
Finalize ==
  /\ stage = "seal" /\ DOMAIN sealer.sigs # {}
  /\ stage' = "file" /\ file' = FileOf(sealer)
  /\ UNCHANGED <<links, sealer, ops, alters, acts>>

-----------------------------------------------------------------------------
(* sealed.go: Verify *)

ChainSound(entries) ==
  \A i \in DOMAIN entries :
    /\ entries[i].seq = i - 1
    /\ entries[i].prev = headOf(SubSeq(entries, 1, i - 1))
    /\ VerifyEntry(entries[i])

\* A signer with a recorded endorsement signed the meaning, one without the bare head.
SealPreimage(r, f) ==
  IF f \in DOMAIN r.ends THEN SealBytesV2(r.room, r.ends[f], headOf(r.entries))
  ELSE SealBytes(r.room, headOf(r.entries))
SealsSound(r) ==
  /\ DOMAIN r.sigs # {}
  /\ \A f \in DOMAIN r.sigs :
       /\ f \in DOMAIN r.keys /\ Fingerprint(r.keys[f]) = f
       /\ SignedBy(r.sigs[f], r.keys[f], SealPreimage(r, f))

\* verifyArtifactApprovals.  Entries without a proposal id anchor no proof.
Anchors(r, pid) == {i \in DOMAIN r.entries : ArtifactOf(r.entries[i]) /\ r.entries[i].body.pid = pid}
ProofSound(p, pid, body) ==
  /\ Fingerprint(p.key) = p.fpr
  /\ SignedBy(p.sig, p.key, ApprovalBytes(pid, body, p.fpr, p.role))
verifyArtifactApprovals(r) ==
  DOMAIN r.proofs # {} =>
    /\ \A pid \in ProposalIds(r.entries) \ {""} : Cardinality(Anchors(r, pid)) = 1
    /\ \A pid \in DOMAIN r.proofs :
         /\ pid # "" /\ Anchors(r, pid) # {}
         /\ LET body == r.entries[CHOOSE i \in Anchors(r, pid) : TRUE].body
            IN body.nonce # "" /\ \A i \in DOMAIN r.proofs[pid] : ProofSound(r.proofs[pid][i], pid, body)

\* Mutation: only the author of the entry is left out.
ExcludedAuthor(e) == {e.author}
\* The second law: neither the entry's author nor the recorded proposer is surfaced.
Excluded(e) == {e.author, e.body.proposer}
\* dedupApproverRoles: <<fingerprint, role>> pairs; those without a role are in
\* ArtifactApprovers alone.
ArtifactApprovals(r, pid) ==
  {<<r.proofs[pid][i].fpr, r.proofs[pid][i].role>> : i \in
     {j \in DOMAIN r.proofs[pid] :
        r.proofs[pid][j].fpr \notin Excluded(r.entries[CHOOSE i \in Anchors(r, pid) : TRUE])}}

Verify(r) ==
  /\ r.version \in {"v1", "v2"}
  /\ ChainSound(r.entries)
  /\ r.head = headOf(r.entries)
  /\ SealsSound(r)
  /\ verifyArtifactApprovals(r)

-----------------------------------------------------------------------------
(* A copy of the file is altered: one part of it at a time. *)

Without(s, i) == SubSeq(s, 1, i - 1) \o SubSeq(s, i + 1, Len(s))
Renumbered(s) == [i \in DOMAIN s |-> [s[i] EXCEPT !.seq = i - 1]]
EntryAltered(e) ==
  {[e EXCEPT !.author = f] : f \in Authors} \cup {[e EXCEPT !.key = k] : k \in Authors}
  \cup {[e EXCEPT !.body = s.body] : s \in EntrySpecs}
EntriesAltered(s) ==
  {Renumbered(Without(s, i)) : i \in DOMAIN s} \cup {Renumbered(Reverse) : Reverse \in {[i \in DOMAIN s |-> s[Len(s) + 1 - i]]}}
  \cup UNION {{[s EXCEPT ![i] = e] : e \in EntryAltered(s[i])} : i \in DOMAIN s}
ProofAltered(p) ==
  {[p EXCEPT !.role = x] : x \in Roles \cup {""}} \cup {[p EXCEPT !.fpr = f] : f \in Authors}
  \cup {[p EXCEPT !.key = k] : k \in Authors}
ProofsAltered(ps, pids) ==
  {Drop(ps, pid) : pid \in DOMAIN ps}
  \cup {Put(Drop(ps, pid), other, ps[pid]) : pid \in DOMAIN ps, other \in pids}
  \cup UNION {{[ps EXCEPT ![pid][1] = p] : p \in ProofAltered(ps[pid][1])} : pid \in DOMAIN ps}
Altered(r) ==
  {[r EXCEPT !.entries = s] : s \in EntriesAltered(r.entries)}
  \cup {[r EXCEPT !.head = headOf(r.entries)], [r EXCEPT !.version = "v1"]}
  \cup {[r EXCEPT !.room = x] : x \in Rooms}
  \cup {[r EXCEPT !.sigs = Drop(@, f)] : f \in DOMAIN r.sigs}
  \cup {[r EXCEPT !.sigs = Put(Drop(@, f), g, r.sigs[f])] : f \in DOMAIN r.sigs, g \in Authors}
  \cup {[r EXCEPT !.keys = Put(@, f, k)] : f \in DOMAIN r.sigs, k \in Authors}
  \cup {[r EXCEPT !.ends = Drop(@, f)] : f \in DOMAIN r.ends}
  \cup {[r EXCEPT !.ends = Put(@, f, m)] : f \in DOMAIN r.sigs, m \in Meanings}
  \cup {[r EXCEPT !.proofs = p] : p \in ProofsAltered(r.proofs, ProposalIds(r.entries))}

Alter ==
  /\ stage = "file" /\ alters < MaxAlter /\ alters' = alters + 1
  /\ file' \in Altered(file) \ {file}
  /\ UNCHANGED <<stage, links, sealer, ops, acts>>

RecordInit ==
  /\ stage = "chain" /\ links = <<>> /\ ops = 0 /\ alters = 0 /\ file = NoFile /\ acts = {}
  /\ sealer = [entries |-> <<>>, head |-> zeroHash, sigs |-> Nil, keys |-> Nil, ends |-> Nil, proofs |-> Nil]

RecordNext ==
  \/ \E a \in Authors, s \in EntrySpecs : AppendEntry(a, s)
  \/ NewSealer \/ Finalize \/ Alter
  \/ \E k \in Authors : Sign(k) \/ \E m \in Meanings : SignAs(k, m)
  \/ \E k \in Authors, pid \in ProposalIds(sealer.entries), role \in Roles \cup {""} :
       AddArtifactApproval(k, pid, role)

-----------------------------------------------------------------------------
(* Properties *)

Valid == stage = "file" /\ Verify(file)

\* Whatever was done to the file, a signer that Verify reports sealed exactly these
\* entries in this order, in this room, with the meaning the file declares, and every
\* entry is one its named author signed for that place (Verify, checks 1 to 4).
SealsAreBacked ==
  Valid =>
    /\ \A f \in DOMAIN file.sigs :
         [act |-> "seal", by |-> f,
          what |-> <<file.room, IF f \in DOMAIN file.ends THEN file.ends[f] ELSE "", Content(file.entries)>>] \in acts
    /\ \A i \in DOMAIN file.entries :
         [act |-> "append", by |-> file.entries[i].author, what |-> <<canonical(file.entries[i])>>] \in acts

\* An approver that Verify surfaces approved this very artifact in this role, and is
\* neither the entry's author nor its proposer (verifyArtifactApprovals).
ApproversAreSecond ==
  Valid => \A pid \in DOMAIN file.proofs : \A x \in ArtifactApprovals(file, pid) :
    \E i \in DOMAIN file.entries :
      LET e == file.entries[i]
      IN /\ e.body.pid = pid /\ x[1] \notin {e.author, e.body.proposer}
         /\ [act |-> "approve", by |-> x[1], what |-> <<pid, e.body.hash, x[2]>>] \in acts

\* What the Sealer writes verifies, provided each entry does, no signer signs bare after
\* declaring a meaning, and approved proposals are named and unambiguous.
SealerVerifies ==
  (stage = "file" /\ alters = 0) =>
    \/ Verify(file)
    \/ ~ChainSound(file.entries)
    \/ \E f \in DOMAIN file.ends : file.sigs[f].over[1] = "seal/v1"
    \/ "" \in DOMAIN file.proofs
    \/ DOMAIN file.proofs # {} /\ \E pid \in ProposalIds(file.entries) : Cardinality(Anchors(file, pid)) > 1

\* Whatever was done to a file that Verify passes, every signer and approver it names did
\* what it says.
EvidenceBacked == SealsAreBacked /\ ApproversAreSecond
=============================================================================
