---------------------------- MODULE AttestProofs -----------------------------
(***************************************************************************)
(* Proofs about what leaves a room as evidence: the sealed record          *)
(* (RecordSeal), the signed roster (RosterRound), the verdict on a         *)
(* credential (Identity), what a room shows of it (RoomView), and the      *)
(* approval of an artifact (ArtifactQuorum).  Each is proved of its own    *)
(* specification, for every set of people, keys and contents.              *)
(***************************************************************************)
EXTENDS ArtifactQuorum, RecordSeal, RosterRound, RoomView,
        FiniteSetTheorems, SequenceTheorems, WellFoundedInduction, TLAPS

------------------------------------------------------------------------------
(* The sealed record.  A signature stands for an act.  The invariant is that every *)
(* signature in the Sealer and in the file was made, whatever else was altered around it. *)

\* A record file: sealed by the library, altered by anyone, verified.
RecordSpec == RecordInit /\ [][RecordNext]_recordVars

\* A sequence of whatever it holds; an entry and a proof have the parts the code gives them.
IsSeq(s) == s \in Seq({s[i] : i \in DOMAIN s})
IsEntry(e) ==
  e = [seq |-> e.seq, author |-> e.author, key |-> e.key, kind |-> e.kind, body |-> e.body,
       schema |-> e.schema, prev |-> e.prev, sig |-> e.sig]
IsProof(p) == p = [fpr |-> p.fpr, key |-> p.key, role |-> p.role, sig |-> p.sig]

\* The links of a chain, whether or not its entries verify.
Linked(s) ==
  /\ IsSeq(s)
  /\ \A i \in 1..Len(s) : s[i].seq = i - 1 /\ s[i].prev = IF i = 1 THEN zeroHash ELSE HashOf(s[i - 1])

\* Signatures somebody made, read from their bytes.
EntryMade(sg, A) == [act |-> "append", by |-> sg.by, what |-> <<sg.over[2]>>] \in A
SealMade(sg, A, s) ==
  \/ /\ sg.over = SealBytes(Home, headOf(s))
     /\ [act |-> "seal", by |-> sg.by, what |-> <<Home, "", Content(s)>>] \in A
  \/ /\ sg.over = SealBytesV2(Home, sg.over[3], headOf(s))
     /\ [act |-> "seal", by |-> sg.by, what |-> <<Home, sg.over[3], Content(s)>>] \in A
ApprovalMade(sg, A) ==
  \/ /\ sg.over = <<"approval/v1", sg.over[2], sg.over[3], sg.by, sg.over[5]>>
     /\ [act |-> "approve", by |-> sg.by, what |-> <<sg.over[2], sg.over[3], "">>] \in A
  \/ /\ sg.over = <<"approval/v2", sg.over[2], sg.over[3], sg.by, sg.over[5], sg.over[6]>>
     /\ [act |-> "approve", by |-> sg.by, what |-> <<sg.over[2], sg.over[3], sg.over[6]>>] \in A

\* A chain, its seals and its approval proofs whose signatures were all made.
LinksMade(s, A) == \A i \in DOMAIN s : IsEntry(s[i]) /\ EntryMade(s[i].sig, A)
SealsMade(sigs, A, s) == \A f \in DOMAIN sigs : SealMade(sigs[f], A, s)
ProofsMade(ps, A) ==
  \A pid \in DOMAIN ps : \A i \in DOMAIN ps[pid] : IsProof(ps[pid][i]) /\ ApprovalMade(ps[pid][i].sig, A)

\* The parts of the file and of the Sealer.
FileParts ==
  file = [version |-> file.version, room |-> file.room, entries |-> file.entries, head |-> file.head,
          sigs |-> file.sigs, keys |-> file.keys, ends |-> file.ends, proofs |-> file.proofs]
SealerParts ==
  sealer = [entries |-> sealer.entries, head |-> sealer.head, sigs |-> sealer.sigs, keys |-> sealer.keys,
            ends |-> sealer.ends, proofs |-> sealer.proofs]

\* What the library holds: linked chains, and signatures that were made over them.
SealerInv ==
  /\ SealerParts
  /\ Linked(links) /\ LinksMade(links, acts)
  /\ Linked(sealer.entries) /\ LinksMade(sealer.entries, acts)
  /\ sealer.head = headOf(sealer.entries)
  /\ SealsMade(sealer.sigs, acts, sealer.entries)
  /\ ProofsMade(sealer.proofs, acts)
  /\ \A pid \in DOMAIN sealer.proofs : IsSeq(sealer.proofs[pid])

\* What a file holds however it was altered: signatures that were made, perhaps over something else.
FileInv ==
  stage = "file" =>
    /\ FileParts
    /\ IsSeq(file.entries) /\ LinksMade(file.entries, acts)
    /\ SealsMade(file.sigs, acts, sealer.entries)
    /\ ProofsMade(file.proofs, acts)

\* What a sequence of anything satisfies.
LEMMA SeqFacts ==
  ASSUME NEW s, IsSeq(s)
  PROVE  /\ Len(s) \in Nat /\ DOMAIN s = 1..Len(s)
         /\ \A S : (\A i \in 1..Len(s) : s[i] \in S) => s \in Seq(S)
         /\ s = <<>> <=> Len(s) = 0
<1>1. s \in Seq({s[i] : i \in DOMAIN s}) BY DEF IsSeq
<1>2. Len(s) \in Nat /\ DOMAIN s = 1..Len(s) BY <1>1
<1>3. s = <<>> <=> Len(s) = 0 BY <1>1
<1>4. ASSUME NEW S, \A i \in 1..Len(s) : s[i] \in S PROVE s \in Seq(S)
  BY <1>1, <1>2, <1>4, SeqDef
<1> QED BY <1>2, <1>3, <1>4

\* A sequence over a known set is one.
LEMMA MakeSeq ==
  ASSUME NEW S, NEW s \in Seq(S)
  PROVE  IsSeq(s)
<1>1. DOMAIN s = 1..Len(s) /\ Len(s) \in Nat OBVIOUS
<1>2. \A i \in 1..Len(s) : s[i] \in {s[j] : j \in DOMAIN s} BY <1>1
<1>3. s = [i \in 1..Len(s) |-> s[i]] BY <1>1
<1> QED BY <1>1, <1>2, <1>3, SeqDef DEF IsSeq

\* Appending to a sequence.
LEMMA AppendFacts ==
  ASSUME NEW s, IsSeq(s), NEW e
  PROVE  /\ IsSeq(Append(s, e)) /\ Len(Append(s, e)) = Len(s) + 1
         /\ DOMAIN Append(s, e) = 1..(Len(s) + 1)
         /\ \A i \in 1..Len(s) : Append(s, e)[i] = s[i]
         /\ Append(s, e)[Len(s) + 1] = e
<1> DEFINE S == {s[i] : i \in DOMAIN s} \cup {e}
<1>1. s \in Seq(S)
  <2>1. \A i \in 1..Len(s) : s[i] \in S BY SeqFacts
  <2> QED BY <2>1, SeqFacts
<1>2. e \in S OBVIOUS
<1> HIDE DEF S
<1>3. Append(s, e) \in Seq(S) BY <1>1, <1>2
<1>4. IsSeq(Append(s, e)) BY <1>3, MakeSeq
<1> QED BY <1>1, <1>2, <1>3, <1>4

\* The head says which entry is last, and each entry which one came before it.
LEMMA HeadFixesContent ==
  ASSUME NEW a, NEW b, Linked(a), Linked(b), headOf(a) = headOf(b)
  PROVE  Content(a) = Content(b)
<1>1. /\ Len(a) \in Nat /\ DOMAIN a = 1..Len(a) /\ Len(b) \in Nat /\ DOMAIN b = 1..Len(b)
      /\ (a = <<>> <=> Len(a) = 0) /\ (b = <<>> <=> Len(b) = 0)
  BY SeqFacts DEF Linked
<1>2. \A x, y : HashOf(x) # zeroHash /\ (HashOf(x) = HashOf(y) => canonical(x) = canonical(y))
  BY DEF HashOf, zeroHash
<1>3. \A x, y : canonical(x) = canonical(y) => x.seq = y.seq /\ x.prev = y.prev
  BY DEF canonical
<1>4. CASE Len(a) = 0
  <2>1. headOf(a) = zeroHash BY <1>1, <1>4 DEF headOf
  <2>2. Len(b) = 0 BY <1>1, <1>2, <2>1 DEF headOf
  <2> QED BY <1>1, <1>4, <2>2
<1>5. CASE Len(a) # 0
  <2>1. Len(b) # 0 BY <1>1, <1>2, <1>5 DEF headOf
  <2>2. canonical(a[Len(a)]) = canonical(b[Len(b)]) BY <1>1, <1>2, <1>5, <2>1 DEF headOf
  <2>3. Len(a) \in 1..Len(a) /\ Len(b) \in 1..Len(b) BY <1>1, <1>5, <2>1
  <2>4. a[Len(a)].seq = Len(a) - 1 /\ b[Len(b)].seq = Len(b) - 1 BY <2>3 DEF Linked
  <2>5. Len(a) = Len(b)
    <3>1. a[Len(a)].seq = b[Len(b)].seq BY <1>3, <2>2
    <3>2. \A x, y \in Nat : x - 1 = y - 1 => x = y OBVIOUS
    <3>3. Len(a) \in Nat /\ Len(b) \in Nat BY <1>1
    <3>4. Len(a) - 1 = Len(b) - 1 BY <2>4, <3>1
    <3> QED BY <3>2, <3>3, <3>4
  <2> DEFINE n == Len(a)
  <2> DEFINE Bad == {j \in Nat : j < n /\ canonical(a[n - j]) # canonical(b[n - j])}
  <2> DEFINE R == OpToRel(<, Nat)
  <2>6. Bad = {}
    <3> SUFFICES ASSUME Bad # {} PROVE FALSE OBVIOUS
    <3>1. PICK x : x \in Bad OBVIOUS
    <3>2. IsWellFoundedOn(R, Nat) BY NatLessThanWellFounded, Zenon
    <3>3. Bad \subseteq Nat OBVIOUS
    <3>4. PICK j \in Bad : \A y \in Bad : ~(<<y, j>> \in R)
      <4> HIDE DEF R, Bad
      <4> QED BY <3>1, <3>2, <3>3, WFMin
    <3>5. \A y \in Bad : ~(y < j) BY <3>3, <3>4 DEF OpToRel
    <3>6. j \in Nat /\ j < n /\ canonical(a[n - j]) # canonical(b[n - j]) BY <3>4
    <3>7. n \in Nat BY <1>1
    <3>8. j # 0
      <4> SUFFICES ASSUME j = 0 PROVE FALSE OBVIOUS
      <4>1. n - j = n BY <3>7
      <4> QED BY <2>2, <2>5, <3>6, <4>1
    <3>9. j - 1 \in Nat /\ j - 1 < n /\ j - 1 < j BY <3>6, <3>7, <3>8
    <3>10. canonical(a[n - (j - 1)]) = canonical(b[n - (j - 1)]) BY <3>5, <3>9
    <3>11. PICK m : m = n - (j - 1) OBVIOUS
    <3>12. m \in 1..n /\ m # 1 /\ m - 1 = n - j BY <3>6, <3>7, <3>8, <3>11
    <3>13. a[m].prev = b[m].prev BY <1>3, <3>10, <3>11
    <3>14. a[m].prev = HashOf(a[m - 1]) /\ b[m].prev = HashOf(b[m - 1]) BY <2>5, <3>12 DEF Linked
    <3>15. canonical(a[m - 1]) = canonical(b[m - 1]) BY <1>2, <3>13, <3>14
    <3> QED BY <3>6, <3>12, <3>15
  <2>7. \A i \in 1..n : canonical(a[i]) = canonical(b[i])
    <3> TAKE i \in 1..n
    <3>1. n - i \in Nat /\ n - i < n /\ n - (n - i) = i BY <1>1
    <3> QED BY <2>6, <3>1
  <2> QED BY <1>1, <2>5, <2>7 DEF Content
<1> QED BY <1>4, <1>5

\* A chain that verifies is linked.
LEMMA SoundIsLinked ==
  ASSUME NEW s, IsSeq(s), ChainSound(s)
  PROVE  Linked(s)
<1>1. Len(s) \in Nat /\ DOMAIN s = 1..Len(s) BY SeqFacts
<1>2. ASSUME NEW i \in 1..Len(s) PROVE s[i].prev = IF i = 1 THEN zeroHash ELSE HashOf(s[i - 1])
  <2>1. s[i].prev = headOf(SubSeq(s, 1, i - 1)) BY <1>1 DEF ChainSound
  <2>2. s \in Seq({s[j] : j \in DOMAIN s}) BY DEF IsSeq
  <2>3. i - 1 \in 0..Len(s) BY <1>1
  <2>4. Len(SubSeq(s, 1, i - 1)) = i - 1 BY <1>1, <2>2, <2>3, SubSeqProperties
  <2>5. CASE i = 1
    <3>1. SubSeq(s, 1, 0) = <<>> BY <2>2
    <3> QED BY <2>1, <2>5, <3>1 DEF headOf
  <2>6. CASE i # 1
    <3>1. SubSeq(s, 1, i - 1)[i - 1] = s[i - 1] BY <1>1, <2>2, <2>3, <2>6, SubSeqProperties
    <3>2. SubSeq(s, 1, i - 1) # <<>> BY <2>4, <2>6
    <3> QED BY <2>1, <2>4, <2>6, <3>1, <3>2 DEF headOf
  <2> QED BY <2>5, <2>6
<1> QED BY <1>1, <1>2 DEF Linked, ChainSound

\* A file that verifies is backed by what its signers did.
LEMMA InvBacks ==
  ASSUME SealerInv, FileInv, Valid
  PROVE  EvidenceBacked
<1>0. /\ FileParts /\ IsSeq(file.entries) /\ LinksMade(file.entries, acts)
      /\ SealsMade(file.sigs, acts, sealer.entries) /\ ProofsMade(file.proofs, acts)
      /\ Linked(sealer.entries)
  BY DEF FileInv, SealerInv, Valid
<1>1. ChainSound(file.entries) /\ SealsSound(file) /\ verifyArtifactApprovals(file) BY DEF Valid, Verify
<1>2. Linked(file.entries) BY <1>0, <1>1, SoundIsLinked
<1>3. ASSUME NEW f \in DOMAIN file.sigs
      PROVE  [act |-> "seal", by |-> f,
              what |-> <<file.room, IF f \in DOMAIN file.ends THEN file.ends[f] ELSE "", Content(file.entries)>>] \in acts
  <2> DEFINE sg == file.sigs[f]
  <2>1. sg = [by |-> f, over |-> SealPreimage(file, f)] BY <1>1 DEF SealsSound, SignedBy, Signature, Fingerprint
  <2>2. SealMade(sg, acts, sealer.entries) BY <1>0 DEF SealsMade
  <2>3. sg.by = f /\ sg.over = SealPreimage(file, f) BY <2>1
  <2> HIDE DEF sg
  <2>4. CASE f \in DOMAIN file.ends
    <3>1. sg.over = <<"seal/v2", file.room, file.ends[f], headOf(file.entries)>> BY <2>3, <2>4 DEF SealPreimage, SealBytesV2
    <3>2. sg.over # SealBytes(Home, headOf(sealer.entries)) BY <3>1 DEF SealBytes
    <3>3. /\ sg.over = SealBytesV2(Home, sg.over[3], headOf(sealer.entries))
          /\ [act |-> "seal", by |-> f, what |-> <<Home, sg.over[3], Content(sealer.entries)>>] \in acts
      BY <2>2, <2>3, <3>2 DEF SealMade
    <3>4. file.room = Home /\ headOf(file.entries) = headOf(sealer.entries) /\ sg.over[3] = file.ends[f]
      BY <3>1, <3>3 DEF SealBytesV2
    <3>5. Content(file.entries) = Content(sealer.entries) BY <1>0, <1>2, <3>4, HeadFixesContent
    <3> QED BY <2>4, <3>3, <3>4, <3>5
  <2>5. CASE f \notin DOMAIN file.ends
    <3>1. sg.over = <<"seal/v1", file.room, headOf(file.entries)>> BY <2>3, <2>5 DEF SealPreimage, SealBytes
    <3>2. sg.over # SealBytesV2(Home, sg.over[3], headOf(sealer.entries)) BY <3>1 DEF SealBytesV2
    <3>3. /\ sg.over = SealBytes(Home, headOf(sealer.entries))
          /\ [act |-> "seal", by |-> f, what |-> <<Home, "", Content(sealer.entries)>>] \in acts
      BY <2>2, <2>3, <3>2 DEF SealMade
    <3>4. file.room = Home /\ headOf(file.entries) = headOf(sealer.entries)
      <4>1. <<"seal/v1", file.room, headOf(file.entries)>> = <<"seal/v1", Home, headOf(sealer.entries)>>
        BY <3>1, <3>3 DEF SealBytes
      <4> QED BY <4>1
    <3>5. Content(file.entries) = Content(sealer.entries) BY <1>0, <1>2, <3>4, HeadFixesContent
    <3> QED BY <2>5, <3>3, <3>4, <3>5
  <2> QED BY <2>4, <2>5
<1>4. ASSUME NEW i \in DOMAIN file.entries
      PROVE  [act |-> "append", by |-> file.entries[i].author, what |-> <<canonical(file.entries[i])>>] \in acts
  <2> DEFINE e == file.entries[i]
  <2>1. e.key = e.author /\ e.sig = [by |-> e.key, over |-> <<"record", canonical(e)>>]
    BY <1>1 DEF ChainSound, VerifyEntry, SignedBy, Signature, EntryBytes, Fingerprint
  <2>2. EntryMade(e.sig, acts) BY <1>0 DEF LinksMade
  <2> HIDE DEF e
  <2>3. e.sig.by = e.author /\ e.sig.over[2] = canonical(e) BY <2>1
  <2>4. [act |-> "append", by |-> e.author, what |-> <<canonical(e)>>] \in acts BY <2>2, <2>3 DEF EntryMade
  <2> QED BY <2>4 DEF e
<1>5. SealsAreBacked BY <1>3, <1>4 DEF SealsAreBacked
<1>6. ASSUME NEW pid \in DOMAIN file.proofs, NEW x \in ArtifactApprovals(file, pid)
      PROVE  \E i \in DOMAIN file.entries :
               LET e == file.entries[i]
               IN /\ e.body.pid = pid /\ x[1] \notin {e.author, e.body.proposer}
                  /\ [act |-> "approve", by |-> x[1], what |-> <<pid, e.body.hash, x[2]>>] \in acts
  <2> DEFINE c == CHOOSE i \in Anchors(file, pid) : TRUE
  <2> DEFINE body == file.entries[c].body
  <2>1. Anchors(file, pid) # {} /\ \A i \in DOMAIN file.proofs[pid] : ProofSound(file.proofs[pid][i], pid, body)
    BY <1>1 DEF verifyArtifactApprovals
  <2>2. c \in Anchors(file, pid) BY <2>1
  <2> HIDE DEF c
  <2>3. c \in DOMAIN file.entries /\ body.pid = pid BY <2>2 DEF Anchors
  <2>4. PICK j \in DOMAIN file.proofs[pid] :
          /\ x = <<file.proofs[pid][j].fpr, file.proofs[pid][j].role>>
          /\ file.proofs[pid][j].fpr \notin Excluded(file.entries[c])
    BY DEF ArtifactApprovals, c
  <2> DEFINE p == file.proofs[pid][j]
  <2>5. p.key = p.fpr /\ p.sig = [by |-> p.key, over |-> ApprovalBytes(pid, body, p.fpr, p.role)]
    BY <2>1 DEF ProofSound, Fingerprint, SignedBy, Signature
  <2>6. ApprovalMade(p.sig, acts) BY <1>0 DEF ProofsMade
  <2>7. x[1] = p.fpr /\ x[2] = p.role /\ p.fpr \notin {file.entries[c].author, body.proposer} BY <2>4 DEF Excluded
  <2> HIDE DEF p, body
  <2>8. p.sig.by = p.fpr /\ p.sig.over = ApprovalBytes(pid, body, p.fpr, p.role) BY <2>5
  <2>9. [act |-> "approve", by |-> p.fpr, what |-> <<pid, body.hash, p.role>>] \in acts
    <3>1. CASE p.role = ""
      <4>1. p.sig.over = <<"approval/v1", pid, body.hash, p.fpr, body.nonce>> BY <2>8, <3>1 DEF ApprovalBytes
      <4>2. /\ p.sig.over[1] = "approval/v1" /\ p.sig.over[2] = pid /\ p.sig.over[3] = body.hash
        BY <4>1
      <4>3. p.sig.over # <<"approval/v2", p.sig.over[2], p.sig.over[3], p.sig.by, p.sig.over[5], p.sig.over[6]>>
        BY <4>2
      <4> QED BY <2>6, <2>8, <3>1, <4>2, <4>3 DEF ApprovalMade
    <3>2. CASE p.role # ""
      <4>1. p.sig.over = <<"approval/v2", pid, body.hash, p.fpr, body.nonce, p.role>> BY <2>8, <3>2 DEF ApprovalBytes
      <4>2. /\ p.sig.over[1] = "approval/v2" /\ p.sig.over[2] = pid /\ p.sig.over[3] = body.hash
            /\ p.sig.over[6] = p.role
        BY <4>1
      <4>3. p.sig.over # <<"approval/v1", p.sig.over[2], p.sig.over[3], p.sig.by, p.sig.over[5]>>
        BY <4>2
      <4> QED BY <2>6, <2>8, <3>2, <4>2, <4>3 DEF ApprovalMade
    <3> QED BY <3>1, <3>2
  <2> QED BY <2>3, <2>7, <2>9 DEF body
<1>7. ApproversAreSecond BY <1>6 DEF ApproversAreSecond
<1> QED BY <1>5, <1>7 DEF EvidenceBacked

\* A signature that was made stays made.
LEMMA MadeStays ==
  ASSUME NEW A, NEW B, A \subseteq B, NEW s
  PROVE  /\ \A l : LinksMade(l, A) => LinksMade(l, B)
         /\ \A sigs : SealsMade(sigs, A, s) => SealsMade(sigs, B, s)
         /\ \A ps : ProofsMade(ps, A) => ProofsMade(ps, B)
<1>1. \A sg : EntryMade(sg, A) => EntryMade(sg, B) BY DEF EntryMade
<1>2. \A sg : SealMade(sg, A, s) => SealMade(sg, B, s) BY DEF SealMade
<1>3. \A sg : ApprovalMade(sg, A) => ApprovalMade(sg, B) BY DEF ApprovalMade
<1> QED BY <1>1, <1>2, <1>3, Zenon DEF LinksMade, SealsMade, ProofsMade

\* AppendSpec makes a signed entry that continues the chain.
LEMMA NewEntryFacts ==
  ASSUME NEW a, NEW spec, NEW A, [act |-> "append", by |-> a, what |-> <<canonical(NewEntry(a, spec))>>] \in A
  PROVE  /\ IsEntry(NewEntry(a, spec)) /\ EntryMade(NewEntry(a, spec).sig, A)
         /\ NewEntry(a, spec).seq = Len(links) /\ NewEntry(a, spec).prev = headOf(links)
<1> DEFINE e == [seq |-> Len(links), author |-> Fingerprint(a), key |-> a, kind |-> spec.kind,
                 body |-> spec.body, schema |-> spec.schema, prev |-> headOf(links), sig |-> <<>>]
<1> DEFINE g == Signature(a, EntryBytes(e))
<1>1. NewEntry(a, spec) = [e EXCEPT !.sig = g] BY DEF NewEntry
<1>2. [e EXCEPT !.sig = g] =
        [seq |-> Len(links), author |-> Fingerprint(a), key |-> a, kind |-> spec.kind,
         body |-> spec.body, schema |-> spec.schema, prev |-> headOf(links), sig |-> g]
  <2> HIDE DEF g
  <2> QED OBVIOUS
<1>3. canonical(NewEntry(a, spec)) = canonical(e)
  <2> HIDE DEF g
  <2> QED BY <1>1, <1>2 DEF canonical, extended
<1>4. g.by = a /\ g.over[2] = canonical(e)
  <2> HIDE DEF e
  <2> QED BY DEF Signature, EntryBytes
<1>5. NewEntry(a, spec).sig = g
  <2> HIDE DEF g
  <2> QED BY <1>1, <1>2
<1>6. EntryMade(NewEntry(a, spec).sig, A)
  <2> HIDE DEF g, e
  <2> QED BY <1>3, <1>4, <1>5 DEF EntryMade
<1>7. IsEntry(NewEntry(a, spec))
  <2> HIDE DEF g
  <2> QED BY <1>1, <1>2 DEF IsEntry
<1>8. NewEntry(a, spec).seq = Len(links) /\ NewEntry(a, spec).prev = headOf(links)
  <2> HIDE DEF g
  <2> QED BY <1>1, <1>2
<1> QED BY <1>6, <1>7, <1>8

\* A linked chain with one entry more.
LEMMA LinkOn ==
  ASSUME NEW s, Linked(s), NEW e, e.seq = Len(s), e.prev = headOf(s)
  PROVE  Linked(Append(s, e))
<1> DEFINE t == Append(s, e)
<1>1. IsSeq(s) /\ Len(s) \in Nat /\ (s = <<>> <=> Len(s) = 0) BY SeqFacts DEF Linked
<1>2. /\ IsSeq(t) /\ Len(t) = Len(s) + 1 /\ t[Len(s) + 1] = e
      /\ \A i \in 1..Len(s) : t[i] = s[i]
  BY <1>1, AppendFacts
<1> HIDE DEF t
<1>3. ASSUME NEW i \in 1..Len(t)
      PROVE  t[i].seq = i - 1 /\ t[i].prev = IF i = 1 THEN zeroHash ELSE HashOf(t[i - 1])
  <2>1. CASE i \in 1..Len(s)
    <3>1. i # 1 => i - 1 \in 1..Len(s) BY <1>1, <2>1
    <3> QED BY <1>2, <2>1, <3>1 DEF Linked
  <2>2. CASE i \notin 1..Len(s)
    <3>1. i = Len(s) + 1 BY <1>1, <1>2, <2>2
    <3>2. i - 1 = Len(s) BY <1>1, <3>1
    <3>3. t[i] = e BY <1>2, <3>1
    <3>4. CASE Len(s) = 0
      <4>1. headOf(s) = zeroHash /\ i = 1 BY <1>1, <3>1, <3>4 DEF headOf
      <4> QED BY <3>2, <3>3, <4>1
    <3>5. CASE Len(s) # 0
      <4>1. Len(s) \in 1..Len(s) /\ i # 1 BY <1>1, <3>1, <3>5
      <4>2. headOf(s) = HashOf(t[i - 1]) BY <1>1, <1>2, <3>2, <3>5, <4>1 DEF headOf
      <4> QED BY <3>2, <3>3, <4>1, <4>2
    <3> QED BY <3>4, <3>5
  <2> QED BY <2>1, <2>2
<1> QED BY <1>2, <1>3 DEF Linked, t

\* Every call of the library keeps what the Sealer holds in order.
LEMMA SealerStep ==
  ASSUME SealerInv, RecordNext
  PROVE  SealerInv'
<1>0. /\ SealerParts /\ Linked(links) /\ LinksMade(links, acts) /\ Linked(sealer.entries) /\ LinksMade(sealer.entries, acts)
      /\ sealer.head = headOf(sealer.entries) /\ SealsMade(sealer.sigs, acts, sealer.entries) /\ ProofsMade(sealer.proofs, acts)
      /\ \A pid \in DOMAIN sealer.proofs : IsSeq(sealer.proofs[pid])
  BY DEF SealerInv
<1>1. ASSUME NEW a \in Authors, NEW spec \in EntrySpecs, AppendEntry(a, spec) PROVE SealerInv'
  <2> DEFINE e == NewEntry(a, spec)
  <2>1. sealer' = sealer /\ links' = Append(links, e) /\ acts' = acts \cup {[act |-> "append", by |-> a, what |-> <<canonical(e)>>]}
    BY <1>1 DEF AppendEntry
  <2>2. IsEntry(e) /\ EntryMade(e.sig, acts') /\ e.seq = Len(links) /\ e.prev = headOf(links) BY <2>1, NewEntryFacts
  <2> HIDE DEF e
  <2>3. Linked(links') BY <1>0, <2>1, <2>2, LinkOn
  <2>4. acts \subseteq acts' BY <2>1
  <2>5. LinksMade(links, acts') /\ LinksMade(sealer.entries, acts') /\ SealsMade(sealer.sigs, acts', sealer.entries) /\ ProofsMade(sealer.proofs, acts')
    BY <1>0, <2>4, MadeStays
  <2>6. LinksMade(links', acts')
    <3>1. IsSeq(links) /\ Len(links) \in Nat /\ DOMAIN links = 1..Len(links) BY <1>0, SeqFacts DEF Linked
    <3>2. DOMAIN links' = 1..(Len(links) + 1) /\ (\A i \in 1..Len(links) : links'[i] = links[i]) /\ links'[Len(links) + 1] = e
      BY <2>1, <3>1, AppendFacts
    <3>3. \A i \in 1..(Len(links) + 1) : i \in 1..Len(links) \/ i = Len(links) + 1 BY <3>1
    <3> QED BY <2>2, <2>5, <3>1, <3>2, <3>3 DEF LinksMade
  <2> QED BY <1>0, <2>1, <2>3, <2>5, <2>6 DEF SealerInv, SealerParts
<1>2. CASE NewSealer
  <2>1. /\ sealer' = [entries |-> links, head |-> headOf(links), sigs |-> Nil, keys |-> Nil, ends |-> Nil, proofs |-> Nil]
        /\ links' = links /\ acts' = acts
    BY <1>2 DEF NewSealer
  <2>2. DOMAIN Nil = {} BY DEF Nil
  <2>3. sealer'.entries = links /\ sealer'.head = headOf(links) /\ DOMAIN sealer'.sigs = {} /\ DOMAIN sealer'.proofs = {} BY <2>1, <2>2
  <2>4. SealsMade(sealer'.sigs, acts', sealer'.entries) /\ ProofsMade(sealer'.proofs, acts') BY <2>3 DEF SealsMade, ProofsMade
  <2>5. SealerParts' BY <2>1 DEF SealerParts
  <2> QED BY <1>0, <2>1, <2>3, <2>4, <2>5 DEF SealerInv
<1>3. ASSUME NEW k \in Authors, NEW m, NEW bytes, addVerified(k, bytes, m), Sealed(k, m), UNCHANGED links,
             (m = "" /\ bytes = SealBytes(Home, sealer.head)) \/ bytes = SealBytesV2(Home, m, sealer.head)
      PROVE  SealerInv'
  <2> DEFINE g == Signature(k, bytes)
  <2>1. /\ sealer'.entries = sealer.entries /\ sealer'.head = sealer.head /\ sealer'.proofs = sealer.proofs
        /\ sealer'.sigs = Put(sealer.sigs, k, g) /\ SealerParts'
    BY <1>0, <1>3 DEF addVerified, SealerParts, Fingerprint
  <2>2. acts' = acts \cup {[act |-> "seal", by |-> k, what |-> <<Home, m, Content(sealer.entries)>>]} BY <1>3 DEF Sealed
  <2>3. acts \subseteq acts' BY <2>2
  <2>4. LinksMade(links, acts') /\ LinksMade(sealer.entries, acts') /\ SealsMade(sealer.sigs, acts', sealer.entries) /\ ProofsMade(sealer.proofs, acts')
    BY <1>0, <2>3, MadeStays
  <2>5. g.by = k /\ g.over = bytes BY DEF Signature
  <2>6. SealMade(g, acts', sealer.entries)
    <3> HIDE DEF g
    <3>1. CASE m = "" /\ bytes = SealBytes(Home, sealer.head) BY <1>0, <2>2, <2>5, <3>1 DEF SealMade
    <3>2. CASE bytes = SealBytesV2(Home, m, sealer.head)
      <4>1. g.over[3] = m BY <2>5, <3>2 DEF SealBytesV2
      <4> QED BY <1>0, <2>2, <2>5, <3>2, <4>1 DEF SealMade
    <3> QED BY <1>3, <3>1, <3>2
  <2> HIDE DEF g
  <2>7. SealsMade(sealer'.sigs, acts', sealer.entries) BY <2>1, <2>4, <2>6 DEF SealsMade, Put
  <2> QED BY <1>0, <1>3, <2>1, <2>4, <2>7 DEF SealerInv
<1>4. ASSUME NEW k \in Authors, Sign(k) PROVE SealerInv'
  <2>1. addVerified(k, SealBytes(Home, sealer.head), "") /\ Sealed(k, "") /\ UNCHANGED links BY <1>4 DEF Sign
  <2> QED BY <1>3, <2>1
<1>5. ASSUME NEW k \in Authors, NEW m \in Meanings, SignAs(k, m) PROVE SealerInv'
  <2>1. addVerified(k, SealBytesV2(Home, m, sealer.head), m) /\ Sealed(k, m) /\ UNCHANGED links BY <1>5 DEF SignAs
  <2> QED BY <1>3, <2>1
<1>6. ASSUME NEW k \in Authors, NEW pid, NEW role, AddArtifactApproval(k, pid, role) PROVE SealerInv'
  <2> DEFINE body == sealer.entries[artifactMetaByProposal(sealer.entries, pid)].body
  <2> DEFINE proof == [fpr |-> Fingerprint(k), key |-> k, role |-> role,
                       sig |-> Signature(k, ApprovalBytes(pid, body, Fingerprint(k), role))]
  <2> DEFINE others == IF pid \in DOMAIN sealer.proofs THEN sealer.proofs[pid] ELSE <<>>
  <2>1. /\ sealer' = [sealer EXCEPT !.proofs = Put(@, pid, Append(others, proof))] /\ links' = links
        /\ acts' = acts \cup {[act |-> "approve", by |-> k, what |-> <<pid, body.hash, role>>]}
    BY <1>6 DEF AddArtifactApproval
  <2>2. IsProof(proof) /\ proof.sig.by = k /\ proof.sig.over = ApprovalBytes(pid, body, k, role)
    <3> HIDE DEF body
    <3> QED BY DEF IsProof, Signature, Fingerprint
  <2> HIDE DEF body, proof
  <2>3. ApprovalMade(proof.sig, acts')
    <3>1. CASE role = ""
      <4>1. proof.sig.over = <<"approval/v1", pid, body.hash, k, body.nonce>> BY <2>2, <3>1 DEF ApprovalBytes
      <4>2. proof.sig.over[2] = pid /\ proof.sig.over[3] = body.hash /\ proof.sig.over[5] = body.nonce BY <4>1
      <4> QED BY <2>1, <2>2, <3>1, <4>1, <4>2 DEF ApprovalMade
    <3>2. CASE role # ""
      <4>1. proof.sig.over = <<"approval/v2", pid, body.hash, k, body.nonce, role>> BY <2>2, <3>2 DEF ApprovalBytes
      <4>2. proof.sig.over[2] = pid /\ proof.sig.over[3] = body.hash /\ proof.sig.over[5] = body.nonce /\ proof.sig.over[6] = role BY <4>1
      <4> QED BY <2>1, <2>2, <3>2, <4>1, <4>2 DEF ApprovalMade
    <3> QED BY <3>1, <3>2
  <2>4. acts \subseteq acts' BY <2>1
  <2>5. LinksMade(links, acts') /\ LinksMade(sealer.entries, acts') /\ SealsMade(sealer.sigs, acts', sealer.entries) /\ ProofsMade(sealer.proofs, acts')
    BY <1>0, <2>4, MadeStays
  <2>6. IsSeq(others) /\ (\A i \in DOMAIN others : IsProof(others[i]) /\ ApprovalMade(others[i].sig, acts'))
    <3>1. CASE pid \in DOMAIN sealer.proofs BY <1>0, <2>5, <3>1 DEF ProofsMade
    <3>2. CASE pid \notin DOMAIN sealer.proofs
      <4>1. others = <<>> BY <3>2
      <4>2. DOMAIN others = {} BY <4>1
      <4>3. others \in Seq(Nat)
        <5>1. <<>> \in Seq(Nat) OBVIOUS
        <5> HIDE DEF others
        <5> QED BY <4>1, <5>1
      <4> QED BY <4>2, <4>3, MakeSeq
    <3> QED BY <3>1, <3>2
  <2>7. /\ sealer'.entries = sealer.entries /\ sealer'.head = sealer.head /\ sealer'.sigs = sealer.sigs
        /\ sealer'.proofs = Put(sealer.proofs, pid, Append(others, proof)) /\ SealerParts'
    <3> HIDE DEF others
    <3> QED BY <1>0, <2>1 DEF SealerParts
  <2> HIDE DEF others
  <2> DEFINE new == Append(others, proof)
  <2>8. IsSeq(new) /\ (\A i \in DOMAIN new : IsProof(new[i]) /\ ApprovalMade(new[i].sig, acts'))
    <3>1. Len(others) \in Nat /\ DOMAIN others = 1..Len(others) BY <2>6, SeqFacts
    <3>2. IsSeq(new) /\ DOMAIN new = 1..(Len(others) + 1) /\ (\A i \in 1..Len(others) : new[i] = others[i]) /\ new[Len(others) + 1] = proof
      BY <2>6, AppendFacts
    <3>3. \A i \in 1..(Len(others) + 1) : i \in 1..Len(others) \/ i = Len(others) + 1 BY <3>1
    <3> HIDE DEF new
    <3> QED BY <2>2, <2>3, <2>6, <3>1, <3>2, <3>3
  <2> HIDE DEF new
  <2>9. /\ DOMAIN sealer'.proofs = DOMAIN sealer.proofs \cup {pid} /\ sealer'.proofs[pid] = new
        /\ \A x \in DOMAIN sealer.proofs : x # pid => sealer'.proofs[x] = sealer.proofs[x]
    BY <2>7 DEF Put, new
  <2>10. ProofsMade(sealer'.proofs, acts') BY <2>5, <2>8, <2>9 DEF ProofsMade
  <2>11. \A x \in DOMAIN sealer'.proofs : IsSeq(sealer'.proofs[x]) BY <1>0, <2>8, <2>9
  <2> QED BY <1>0, <2>1, <2>5, <2>7, <2>10, <2>11 DEF SealerInv
<1>7. CASE Finalize
  BY <1>0, <1>7 DEF Finalize, SealerInv, SealerParts
<1>8. CASE Alter
  BY <1>0, <1>8 DEF Alter, SealerInv, SealerParts
<1> QED BY <1>1, <1>2, <1>4, <1>5, <1>6, <1>7, <1>8 DEF RecordNext

\* Altering an entry leaves its signature.
LEMMA SigStays ==
  ASSUME NEW x, IsEntry(x), NEW y, NEW v,
         y = [x EXCEPT !.seq = v] \/ y = [x EXCEPT !.author = v] \/ y = [x EXCEPT !.key = v] \/ y = [x EXCEPT !.body = v]
  PROVE  IsEntry(y) /\ y.sig = x.sig
<1> DEFINE E(seq, author, key, body) ==
      [seq |-> seq, author |-> author, key |-> key, kind |-> x.kind, body |-> body,
       schema |-> x.schema, prev |-> x.prev, sig |-> x.sig]
<1>1. x = E(x.seq, x.author, x.key, x.body) BY DEF IsEntry
<1>2. \/ y = E(v, x.author, x.key, x.body) \/ y = E(x.seq, v, x.key, x.body)
      \/ y = E(x.seq, x.author, v, x.body) \/ y = E(x.seq, x.author, x.key, v)
  <2>1. CASE y = [x EXCEPT !.seq = v] BY <1>1, <2>1
  <2>2. CASE y = [x EXCEPT !.author = v] BY <1>1, <2>2
  <2>3. CASE y = [x EXCEPT !.key = v] BY <1>1, <2>3
  <2>4. CASE y = [x EXCEPT !.body = v] BY <1>1, <2>4
  <2> QED BY <2>1, <2>2, <2>3, <2>4
<1> QED BY <1>2 DEF IsEntry

\* Altering a proof leaves its signature.
LEMMA ProofSigStays ==
  ASSUME NEW x, IsProof(x), NEW y, NEW v,
         y = [x EXCEPT !.role = v] \/ y = [x EXCEPT !.fpr = v] \/ y = [x EXCEPT !.key = v]
  PROVE  IsProof(y) /\ y.sig = x.sig
BY DEF IsProof

\* Leaving an entry out, or turning the list round, makes no signature.
LEMMA EntriesAlteredMade ==
  ASSUME NEW s, IsSeq(s), NEW A, LinksMade(s, A), NEW t \in EntriesAltered(s)
  PROVE  IsSeq(t) /\ LinksMade(t, A)
<1>1. Len(s) \in Nat /\ DOMAIN s = 1..Len(s) BY SeqFacts
<1>2. s \in Seq({s[i] : i \in DOMAIN s}) BY DEF IsSeq
<1>3. ASSUME NEW u, IsSeq(u), LinksMade(u, A) PROVE IsSeq(Renumbered(u)) /\ LinksMade(Renumbered(u), A)
  <2> DEFINE v == Renumbered(u)
  <2>1. Len(u) \in Nat /\ DOMAIN u = 1..Len(u) BY <1>3, SeqFacts
  <2>2. v = [i \in 1..Len(u) |-> [u[i] EXCEPT !.seq = i - 1]] BY <2>1 DEF Renumbered
  <2>3. v \in Seq({v[i] : i \in 1..Len(u)})
    <3> HIDE DEF v
    <3>1. v \in [1..Len(u) -> {v[i] : i \in 1..Len(u)}] BY <2>2
    <3> QED BY <2>1, <3>1, SeqDef
  <2>5. LinksMade(v, A)
    <3>1. DOMAIN v = 1..Len(u) BY <2>2
    <3>2. \A i \in 1..Len(u) : v[i] = [u[i] EXCEPT !.seq = i - 1] BY <2>2
    <3> HIDE DEF v
    <3>3. ASSUME NEW i \in 1..Len(u) PROVE IsEntry(v[i]) /\ EntryMade(v[i].sig, A)
      <4>1. IsEntry(u[i]) /\ EntryMade(u[i].sig, A) BY <1>3, <2>1 DEF LinksMade
      <4>2. IsEntry(v[i]) /\ v[i].sig = u[i].sig BY <3>2, <4>1, SigStays
      <4> QED BY <4>1, <4>2
    <3> QED BY <3>1, <3>3 DEF LinksMade
  <2> QED BY <2>3, <2>5, MakeSeq
<1> DEFINE S == {s[j] : j \in DOMAIN s}
<1>4. ASSUME NEW u \in Seq(S) PROVE IsSeq(u) /\ LinksMade(u, A)
  <2>1. DOMAIN u = 1..Len(u) /\ \A i \in 1..Len(u) : u[i] \in S BY <1>4
  <2> QED BY <1>4, <2>1, MakeSeq DEF LinksMade
<1>5. ASSUME NEW i \in DOMAIN s PROVE IsSeq(Without(s, i)) /\ LinksMade(Without(s, i), A)
  <2>1. i \in Int /\ 1 <= i /\ i <= Len(s) BY <1>1
  <2>2. SubSeq(s, 1, i - 1) \in Seq(S)
    <3>1. \A j \in 1..(i - 1) : s[j] \in S BY <1>1, <2>1
    <3> HIDE DEF S
    <3> QED BY <2>1, <3>1, SubSeqProperties
  <2>3. SubSeq(s, i + 1, Len(s)) \in Seq(S)
    <3>1. \A j \in (i + 1)..Len(s) : s[j] \in S BY <1>1, <2>1
    <3> HIDE DEF S
    <3> QED BY <1>1, <2>1, <3>1, SubSeqProperties
  <2>4. Without(s, i) \in Seq(S)
    <3> HIDE DEF S
    <3> QED BY <2>2, <2>3, ConcatProperties DEF Without
  <2> QED BY <1>4, <2>4
<1>6. IsSeq([i \in DOMAIN s |-> s[Len(s) + 1 - i]]) /\ LinksMade([i \in DOMAIN s |-> s[Len(s) + 1 - i]], A)
  <2>1. \A i \in 1..Len(s) : s[Len(s) + 1 - i] \in S BY <1>1
  <2> DEFINE u == [i \in DOMAIN s |-> s[Len(s) + 1 - i]]
  <2>2. u \in [1..Len(s) -> S]
    <3> HIDE DEF S
    <3> QED BY <1>1, <2>1
  <2>3. u \in Seq(S)
    <3> HIDE DEF S, u
    <3> QED BY <1>1, <2>2, SeqDef
  <2> HIDE DEF u
  <2> QED BY <1>4, <2>3 DEF u
<1>7. ASSUME NEW i \in DOMAIN s, NEW e \in EntryAltered(s[i]), t = [s EXCEPT ![i] = e]
      PROVE  IsSeq(t) /\ LinksMade(t, A)
  <2>1. IsEntry(s[i]) /\ EntryMade(s[i].sig, A) BY DEF LinksMade
  <2>3. IsEntry(e) /\ e.sig = s[i].sig
    <3>1. \E v : e = [s[i] EXCEPT !.author = v] \/ e = [s[i] EXCEPT !.key = v] \/ e = [s[i] EXCEPT !.body = v]
      BY <1>7 DEF EntryAltered
    <3> QED BY <2>1, <3>1, SigStays
  <2>4. DOMAIN t = 1..Len(s) /\ t[i] = e /\ \A j \in 1..Len(s) : j # i => t[j] = s[j] BY <1>1, <1>7
  <2>5. LinksMade(t, A) BY <1>1, <2>1, <2>3, <2>4 DEF LinksMade
  <2>6. t = [j \in 1..Len(s) |-> t[j]] BY <1>1, <1>7
  <2>7. t \in Seq({t[j] : j \in 1..Len(s)})
    <3>1. t \in [1..Len(s) -> {t[j] : j \in 1..Len(s)}] BY <2>6
    <3> QED BY <1>1, <3>1, SeqDef
  <2> QED BY <2>5, <2>7, MakeSeq
<1>8. \/ \E i \in DOMAIN s : t = Renumbered(Without(s, i))
      \/ t = Renumbered([i \in DOMAIN s |-> s[Len(s) + 1 - i]])
      \/ \E i \in DOMAIN s : \E e \in EntryAltered(s[i]) : t = [s EXCEPT ![i] = e]
  BY DEF EntriesAltered
<1> QED BY <1>3, <1>5, <1>6, <1>7, <1>8

\* Altered proofs carry only signatures that were made.
LEMMA ProofsAlteredMade ==
  ASSUME NEW ps, NEW A, ProofsMade(ps, A), NEW pids, NEW qs \in ProofsAltered(ps, pids)
  PROVE  ProofsMade(qs, A)
<1>1. \/ \E pid \in DOMAIN ps : qs = Drop(ps, pid)
      \/ \E pid \in DOMAIN ps, other \in pids : qs = Put(Drop(ps, pid), other, ps[pid])
      \/ \E pid \in DOMAIN ps : \E p \in ProofAltered(ps[pid][1]) : qs = [ps EXCEPT ![pid][1] = p]
  BY DEF ProofsAltered
<1>2. CASE \E pid \in DOMAIN ps : qs = Drop(ps, pid) BY <1>2 DEF Drop, ProofsMade
<1>3. CASE \E pid \in DOMAIN ps, other \in pids : qs = Put(Drop(ps, pid), other, ps[pid])
  <2>1. PICK pid \in DOMAIN ps, other \in pids : qs = Put(Drop(ps, pid), other, ps[pid]) BY <1>3
  <2>2. \A x \in DOMAIN qs : \E y \in DOMAIN ps : qs[x] = ps[y] BY <2>1 DEF Put, Drop
  <2> QED BY <2>2 DEF ProofsMade
<1>4. ASSUME NEW pid \in DOMAIN ps, NEW p \in ProofAltered(ps[pid][1]), qs = [ps EXCEPT ![pid][1] = p]
      PROVE  ProofsMade(qs, A)
  <2>0. CASE 1 \notin DOMAIN ps[pid]
    <3>1. qs = [ps EXCEPT ![pid] = [ps[pid] EXCEPT ![1] = p]] BY <1>4
    <3>2. /\ DOMAIN qs = DOMAIN ps /\ DOMAIN qs[pid] = DOMAIN ps[pid]
          /\ (\A i \in DOMAIN ps[pid] : qs[pid][i] = ps[pid][i])
          /\ \A x \in DOMAIN ps : x # pid => qs[x] = ps[x]
      BY <2>0, <3>1
    <3> QED BY <3>2 DEF ProofsMade
  <2> SUFFICES ASSUME 1 \in DOMAIN ps[pid] PROVE ProofsMade(qs, A) BY <2>0
  <2>1. IsProof(ps[pid][1]) /\ ApprovalMade(ps[pid][1].sig, A) BY DEF ProofsMade
  <2>3. \E v : p = [ps[pid][1] EXCEPT !.role = v] \/ p = [ps[pid][1] EXCEPT !.fpr = v] \/ p = [ps[pid][1] EXCEPT !.key = v]
    BY <1>4 DEF ProofAltered
  <2>4. IsProof(p) /\ p.sig = ps[pid][1].sig BY <2>1, <2>3, ProofSigStays
  <2>5. qs = [ps EXCEPT ![pid] = [ps[pid] EXCEPT ![1] = p]] BY <1>4
  <2>6. /\ DOMAIN qs = DOMAIN ps /\ DOMAIN qs[pid] = DOMAIN ps[pid] /\ qs[pid][1] = p
        /\ (\A i \in DOMAIN ps[pid] : i # 1 => qs[pid][i] = ps[pid][i])
        /\ \A x \in DOMAIN ps : x # pid => qs[x] = ps[x]
    BY <2>5
  <2> QED BY <2>1, <2>4, <2>6 DEF ProofsMade
<1> QED BY <1>1, <1>2, <1>3, <1>4

\* What altering a file may change.
LEMMA AlteredParts ==
  ASSUME FileParts, NEW r \in Altered(file)
  PROVE  /\ r = [version |-> r.version, room |-> r.room, entries |-> r.entries, head |-> r.head,
                 sigs |-> r.sigs, keys |-> r.keys, ends |-> r.ends, proofs |-> r.proofs]
         /\ r.entries = file.entries \/ r.entries \in EntriesAltered(file.entries)
         /\ r.proofs = file.proofs \/ r.proofs \in ProofsAltered(file.proofs, ProposalIds(file.entries))
         /\ \/ r.sigs = file.sigs
            \/ \E f \in DOMAIN file.sigs : r.sigs = Drop(file.sigs, f)
            \/ \E f \in DOMAIN file.sigs, g \in Authors : r.sigs = Put(Drop(file.sigs, f), g, file.sigs[f])
<1> DEFINE R(version, room, entries, head, sigs, keys, ends, proofs) ==
      [version |-> version, room |-> room, entries |-> entries, head |-> head,
       sigs |-> sigs, keys |-> keys, ends |-> ends, proofs |-> proofs]
<1>0. file = R(file.version, file.room, file.entries, file.head, file.sigs, file.keys, file.ends, file.proofs) BY DEF FileParts
<1>1. ASSUME NEW v
      PROVE  /\ [file EXCEPT !.entries = v] = R(file.version, file.room, v, file.head, file.sigs, file.keys, file.ends, file.proofs)
             /\ [file EXCEPT !.head = v] = R(file.version, file.room, file.entries, v, file.sigs, file.keys, file.ends, file.proofs)
             /\ [file EXCEPT !.version = v] = R(v, file.room, file.entries, file.head, file.sigs, file.keys, file.ends, file.proofs)
             /\ [file EXCEPT !.room = v] = R(file.version, v, file.entries, file.head, file.sigs, file.keys, file.ends, file.proofs)
             /\ [file EXCEPT !.sigs = v] = R(file.version, file.room, file.entries, file.head, v, file.keys, file.ends, file.proofs)
             /\ [file EXCEPT !.keys = v] = R(file.version, file.room, file.entries, file.head, file.sigs, v, file.ends, file.proofs)
             /\ [file EXCEPT !.ends = v] = R(file.version, file.room, file.entries, file.head, file.sigs, file.keys, v, file.proofs)
             /\ [file EXCEPT !.proofs = v] = R(file.version, file.room, file.entries, file.head, file.sigs, file.keys, file.ends, v)
  <2>1. [file EXCEPT !.entries = v] = R(file.version, file.room, v, file.head, file.sigs, file.keys, file.ends, file.proofs) BY <1>0
  <2>2. [file EXCEPT !.head = v] = R(file.version, file.room, file.entries, v, file.sigs, file.keys, file.ends, file.proofs) BY <1>0
  <2>3. [file EXCEPT !.version = v] = R(v, file.room, file.entries, file.head, file.sigs, file.keys, file.ends, file.proofs) BY <1>0
  <2>4. [file EXCEPT !.room = v] = R(file.version, v, file.entries, file.head, file.sigs, file.keys, file.ends, file.proofs) BY <1>0
  <2>5. [file EXCEPT !.sigs = v] = R(file.version, file.room, file.entries, file.head, v, file.keys, file.ends, file.proofs) BY <1>0
  <2>6. [file EXCEPT !.keys = v] = R(file.version, file.room, file.entries, file.head, file.sigs, v, file.ends, file.proofs) BY <1>0
  <2>7. [file EXCEPT !.ends = v] = R(file.version, file.room, file.entries, file.head, file.sigs, file.keys, v, file.proofs) BY <1>0
  <2>8. [file EXCEPT !.proofs = v] = R(file.version, file.room, file.entries, file.head, file.sigs, file.keys, file.ends, v) BY <1>0
  <2> HIDE DEF R
  <2> QED BY <2>1, <2>2, <2>3, <2>4, <2>5, <2>6, <2>7, <2>8
<1>2. \/ \E v \in EntriesAltered(file.entries) : r = [file EXCEPT !.entries = v]
      \/ \E v : r = [file EXCEPT !.head = v] \/ r = [file EXCEPT !.version = v] \/ r = [file EXCEPT !.room = v]
                 \/ r = [file EXCEPT !.keys = v] \/ r = [file EXCEPT !.ends = v]
      \/ \E f \in DOMAIN file.sigs : r = [file EXCEPT !.sigs = Drop(@, f)]
      \/ \E f \in DOMAIN file.sigs, g \in Authors : r = [file EXCEPT !.sigs = Put(Drop(@, f), g, file.sigs[f])]
      \/ \E v \in ProofsAltered(file.proofs, ProposalIds(file.entries)) : r = [file EXCEPT !.proofs = v]
  BY DEF Altered
<1>3. CASE \E v \in EntriesAltered(file.entries) : r = [file EXCEPT !.entries = v]
  BY <1>1, <1>3
<1>4. CASE \E v : r = [file EXCEPT !.head = v] \/ r = [file EXCEPT !.version = v] \/ r = [file EXCEPT !.room = v]
                  \/ r = [file EXCEPT !.keys = v] \/ r = [file EXCEPT !.ends = v]
  BY ZenonT(30), <1>1, <1>4
<1>5. ASSUME NEW f \in DOMAIN file.sigs, r = [file EXCEPT !.sigs = Drop(file.sigs, f)]
      PROVE  r = R(file.version, file.room, file.entries, file.head, Drop(file.sigs, f), file.keys, file.ends, file.proofs)
  <2> HIDE DEF R
  <2> QED BY <1>1, <1>5
<1>6. ASSUME NEW f \in DOMAIN file.sigs, NEW g \in Authors, r = [file EXCEPT !.sigs = Put(Drop(file.sigs, f), g, file.sigs[f])]
      PROVE  r = R(file.version, file.room, file.entries, file.head, Put(Drop(file.sigs, f), g, file.sigs[f]), file.keys, file.ends, file.proofs)
  <2> HIDE DEF R
  <2> QED BY <1>1, <1>6
<1>7. CASE \E v \in ProofsAltered(file.proofs, ProposalIds(file.entries)) : r = [file EXCEPT !.proofs = v]
  BY <1>1, <1>7
<1>8. CASE \E f \in DOMAIN file.sigs : r = [file EXCEPT !.sigs = Drop(@, f)] BY <1>5, <1>8
<1>9. CASE \E f \in DOMAIN file.sigs, g \in Authors : r = [file EXCEPT !.sigs = Put(Drop(@, f), g, file.sigs[f])] BY <1>6, <1>9
<1> QED BY <1>2, <1>3, <1>4, <1>7, <1>8, <1>9

\* Every step keeps what a file's signatures stand for.
LEMMA FileStep ==
  ASSUME SealerInv, FileInv, RecordNext
  PROVE  FileInv'
<1>1. CASE Finalize
  <2>1. file' = FileOf(sealer) /\ sealer' = sealer /\ acts' = acts BY <1>1 DEF Finalize
  <2>2. /\ FileParts' /\ file'.entries = sealer.entries /\ file'.sigs = sealer.sigs /\ file'.proofs = sealer.proofs
    BY <2>1 DEF FileOf, FileParts
  <2> QED BY <2>1, <2>2 DEF FileInv, SealerInv, Linked
<1>2. CASE Alter
  <2>1. stage = "file" /\ file' \in Altered(file) /\ sealer' = sealer /\ acts' = acts BY <1>2 DEF Alter
  <2>2. /\ FileParts /\ IsSeq(file.entries) /\ LinksMade(file.entries, acts)
        /\ SealsMade(file.sigs, acts, sealer.entries) /\ ProofsMade(file.proofs, acts)
    BY <2>1 DEF FileInv
  <2>3. /\ FileParts'
        /\ file'.entries = file.entries \/ file'.entries \in EntriesAltered(file.entries)
        /\ file'.proofs = file.proofs \/ file'.proofs \in ProofsAltered(file.proofs, ProposalIds(file.entries))
        /\ \/ file'.sigs = file.sigs
           \/ \E f \in DOMAIN file.sigs : file'.sigs = Drop(file.sigs, f)
           \/ \E f \in DOMAIN file.sigs, g \in Authors : file'.sigs = Put(Drop(file.sigs, f), g, file.sigs[f])
    BY <2>1, <2>2, AlteredParts DEF FileParts
  <2>4. IsSeq(file'.entries) /\ LinksMade(file'.entries, acts) BY <2>2, <2>3, EntriesAlteredMade
  <2>5. ProofsMade(file'.proofs, acts) BY <2>2, <2>3, ProofsAlteredMade
  <2>6. \A x \in DOMAIN file'.sigs : \E y \in DOMAIN file.sigs : file'.sigs[x] = file.sigs[y] BY ZenonT(30), <2>3 DEF Put, Drop
  <2>7. SealsMade(file'.sigs, acts, sealer.entries) BY <2>2, <2>6 DEF SealsMade
  <2> QED BY <2>1, <2>3, <2>4, <2>5, <2>7 DEF FileInv
<1>3. CASE stage' # "file" BY <1>3 DEF FileInv
<1>4. Finalize \/ Alter \/ stage' # "file"
  <2>1. (\E a \in Authors, s \in EntrySpecs : AppendEntry(a, s)) => stage' # "file" BY DEF AppendEntry
  <2>2. NewSealer => stage' # "file" BY DEF NewSealer
  <2>3. (\E k \in Authors : Sign(k) \/ \E m \in Meanings : SignAs(k, m)) => stage' # "file" BY DEF Sign, SignAs, Call
  <2>4. (\E k \in Authors, pid \in ProposalIds(sealer.entries), role \in Roles \cup {""} : AddArtifactApproval(k, pid, role)) => stage' # "file"
    BY DEF AddArtifactApproval, Call
  <2> QED BY <2>1, <2>2, <2>3, <2>4, Zenon DEF RecordNext
<1> QED BY <1>1, <1>2, <1>3, <1>4

\* An empty room's record satisfies both.
LEMMA RecordStart ==
  ASSUME RecordInit
  PROVE  SealerInv /\ FileInv
<1>1. /\ sealer = [entries |-> <<>>, head |-> zeroHash, sigs |-> Nil, keys |-> Nil, ends |-> Nil, proofs |-> Nil]
      /\ links = <<>> /\ stage = "chain"
  BY DEF RecordInit
<1>2. DOMAIN Nil = {} BY DEF Nil
<1>3. SealerParts /\ sealer.entries = <<>> /\ sealer.head = zeroHash /\ DOMAIN sealer.sigs = {} /\ DOMAIN sealer.proofs = {}
  BY <1>1, <1>2 DEF SealerParts
<1>4. Linked(<<>>) /\ LinksMade(<<>>, acts)
  <2>1. <<>> \in Seq(Nat) /\ Len(<<>>) = 0 OBVIOUS
  <2>2. IsSeq(<<>>) BY <2>1, MakeSeq
  <2>3. DOMAIN <<>> = {} OBVIOUS
  <2>4. 1..0 = {} OBVIOUS
  <2> QED BY <2>1, <2>2, <2>3, <2>4 DEF Linked, LinksMade
<1>5. headOf(<<>>) = zeroHash BY DEF headOf
<1>6. SealsMade(sealer.sigs, acts, sealer.entries) /\ ProofsMade(sealer.proofs, acts) BY <1>3 DEF SealsMade, ProofsMade
<1>7. FileInv BY <1>1 DEF FileInv
<1> QED BY <1>1, <1>3, <1>4, <1>5, <1>6, <1>7 DEF SealerInv

\* Whatever is done to a file between sealing and verifying, every signer and approver named by a
\* file that Verify passes did what it says: its seals were made over this very content in this
\* room, and its approvals by a second person, of that proposal (record/sealed.go).
THEOREM EvidenceStaysBacked == RecordSpec => []EvidenceBacked
<1>1. RecordInit => SealerInv /\ FileInv BY RecordStart
<1>2. SealerInv /\ FileInv /\ [RecordNext]_recordVars => (SealerInv /\ FileInv)'
  <2>1. CASE RecordNext BY <2>1, SealerStep, FileStep
  <2>2. CASE UNCHANGED recordVars BY <2>2 DEF recordVars, SealerInv, FileInv, SealerParts, FileParts
  <2> QED BY <2>1, <2>2
<1>3. SealerInv /\ FileInv => EvidenceBacked
  <2>1. ~Valid => EvidenceBacked BY DEF EvidenceBacked, SealsAreBacked, ApproversAreSecond
  <2> QED BY <2>1, InvBacks
<1> QED BY <1>1, <1>2, <1>3, PTL DEF RecordSpec

\* What VerifySealedRecord asks of a file, of what the Sealer holds.
SealerGood ==
  /\ alters \in Nat
  /\ \A f \in DOMAIN sealer.sigs :
       /\ f \in DOMAIN sealer.keys /\ sealer.keys[f] = f
       /\ \/ sealer.sigs[f] = Signature(f, SealBytes(Home, sealer.head))
          \/ f \in DOMAIN sealer.ends /\ sealer.sigs[f] = Signature(f, SealBytesV2(Home, sealer.ends[f], sealer.head))
  /\ \A pid \in DOMAIN sealer.proofs :
       LET at == artifactMetaByProposal(sealer.entries, pid)
       IN /\ at \in {i \in DOMAIN sealer.entries : ArtifactOf(sealer.entries[i]) /\ sealer.entries[i].body.pid = pid}
          /\ sealer.entries[at].body.nonce # ""
          /\ \A i \in DOMAIN sealer.proofs[pid] : ProofSound(sealer.proofs[pid][i], pid, sealer.entries[at].body)
  /\ stage = "file" => DOMAIN sealer.sigs # {}
  /\ (stage = "file" /\ alters = 0) => file = FileOf(sealer)

\* artifactMetaByProposal finds an artifact entry of that proposal.
LEMMA FirstArtifact ==
  ASSUME NEW s, IsSeq(s), NEW pid, artifactMetaByProposal(s, pid) # 0
  PROVE  artifactMetaByProposal(s, pid) \in {i \in DOMAIN s : ArtifactOf(s[i]) /\ s[i].body.pid = pid}
<1> DEFINE at == {i \in DOMAIN s : ArtifactOf(s[i]) /\ s[i].body.pid = pid}
<1> DEFINE R == OpToRel(<, Nat)
<1>1. at # {} BY DEF artifactMetaByProposal
<1>2. at \subseteq Nat BY SeqFacts
<1>3. \E i \in at : \A j \in at : i <= j
  <2>1. IsWellFoundedOn(R, Nat) BY NatLessThanWellFounded, Zenon
  <2>2. PICK x : x \in at BY <1>1
  <2>3. PICK m \in at : \A y \in at : ~(<<y, m>> \in R)
    <3> HIDE DEF R, at
    <3> QED BY <1>2, <2>1, <2>2, WFMin
  <2>4. \A y \in at : ~(y < m) BY <1>2, <2>3 DEF OpToRel
  <2> HIDE DEF at
  <2> QED BY <1>2, <2>4
<1>4. artifactMetaByProposal(s, pid) = CHOOSE i \in at : \A j \in at : i <= j BY <1>1 DEF artifactMetaByProposal
<1> HIDE DEF at
<1> QED BY <1>3, <1>4 DEF at

\* Every call of the library keeps the Sealer's state one that verifies.
LEMMA GoodStep ==
  ASSUME SealerInv, SealerGood, RecordNext
  PROVE  SealerGood'
<1>0. SealerParts /\ IsSeq(sealer.entries) /\ \A pid \in DOMAIN sealer.proofs : IsSeq(sealer.proofs[pid]) BY DEF SealerInv, Linked
<1>1. CASE \E a \in Authors, s \in EntrySpecs : AppendEntry(a, s)
  BY <1>1 DEF AppendEntry, SealerGood
<1>2. CASE NewSealer
  <2>1. /\ sealer' = [entries |-> links, head |-> headOf(links), sigs |-> Nil, keys |-> Nil, ends |-> Nil, proofs |-> Nil]
        /\ alters' = alters /\ stage' = "seal"
    BY <1>2 DEF NewSealer
  <2>2. DOMAIN sealer'.sigs = {} /\ DOMAIN sealer'.proofs = {} BY <2>1 DEF Nil
  <2> QED BY <2>1, <2>2 DEF SealerGood
<1>3. ASSUME NEW k \in Authors, NEW m, NEW bytes, addVerified(k, bytes, m), UNCHANGED <<stage, alters>>, stage = "seal",
             \/ m = "" /\ bytes = SealBytes(Home, sealer.head)
             \/ m # "" /\ bytes = SealBytesV2(Home, m, sealer.head)
      PROVE  SealerGood'
  <2>1. /\ sealer'.entries = sealer.entries /\ sealer'.head = sealer.head /\ sealer'.proofs = sealer.proofs
        /\ sealer'.sigs = Put(sealer.sigs, k, Signature(k, bytes)) /\ sealer'.keys = Put(sealer.keys, k, k)
        /\ sealer'.ends = IF m = "" THEN sealer.ends ELSE Put(sealer.ends, k, m)
    BY <1>0, <1>3 DEF addVerified, SealerParts, Fingerprint
  <2>2. /\ DOMAIN sealer'.sigs = DOMAIN sealer.sigs \cup {k} /\ sealer'.sigs[k] = Signature(k, bytes)
        /\ \A f \in DOMAIN sealer.sigs : f # k => sealer'.sigs[f] = sealer.sigs[f]
    BY <2>1 DEF Put
  <2>3. /\ DOMAIN sealer'.keys = DOMAIN sealer.keys \cup {k} /\ sealer'.keys[k] = k
        /\ \A f \in DOMAIN sealer.keys : f # k => sealer'.keys[f] = sealer.keys[f]
    BY <2>1 DEF Put
  <2>4. \A f \in DOMAIN sealer.ends : f # k => f \in DOMAIN sealer'.ends /\ sealer'.ends[f] = sealer.ends[f]
    BY <2>1 DEF Put
  <2>5. m # "" => k \in DOMAIN sealer'.ends /\ sealer'.ends[k] = m BY <2>1 DEF Put
  <2>6. \A f \in DOMAIN sealer'.sigs :
       /\ f \in DOMAIN sealer'.keys /\ sealer'.keys[f] = f
       /\ \/ sealer'.sigs[f] = Signature(f, SealBytes(Home, sealer'.head))
          \/ f \in DOMAIN sealer'.ends /\ sealer'.sigs[f] = Signature(f, SealBytesV2(Home, sealer'.ends[f], sealer'.head))
    <3> TAKE f \in DOMAIN sealer'.sigs
    <3>1. CASE f = k BY <1>3, <2>1, <2>2, <2>3, <2>5, <3>1
    <3>2. CASE f # k BY <2>1, <2>2, <2>3, <2>4, <3>2 DEF SealerGood
    <3> QED BY <3>1, <3>2
  <2> QED BY <1>3, <2>1, <2>6 DEF SealerGood
<1>4. ASSUME NEW k \in Authors, Sign(k) PROVE SealerGood'
  <2>1. addVerified(k, SealBytes(Home, sealer.head), "") /\ UNCHANGED <<stage, alters>> /\ stage = "seal" BY <1>4 DEF Sign, Call
  <2> QED BY <1>3, <2>1
<1>5. ASSUME NEW k \in Authors, NEW m \in Meanings, SignAs(k, m) PROVE SealerGood'
  <2>1. addVerified(k, SealBytesV2(Home, m, sealer.head), m) /\ UNCHANGED <<stage, alters>> /\ stage = "seal" BY <1>5 DEF SignAs, Call
  <2>2. m # "" BY RecordAssumption
  <2> QED BY <1>3, <2>1, <2>2
<1>6. ASSUME NEW k \in Authors, NEW pid, NEW role, AddArtifactApproval(k, pid, role) PROVE SealerGood'
  <2> DEFINE at == artifactMetaByProposal(sealer.entries, pid)
  <2> DEFINE body == sealer.entries[at].body
  <2> DEFINE proof == [fpr |-> Fingerprint(k), key |-> k, role |-> role,
                       sig |-> Signature(k, ApprovalBytes(pid, body, Fingerprint(k), role))]
  <2> DEFINE others == IF pid \in DOMAIN sealer.proofs THEN sealer.proofs[pid] ELSE <<>>
  <2>1. /\ sealer' = [sealer EXCEPT !.proofs = Put(@, pid, Append(others, proof))]
        /\ UNCHANGED <<stage, alters>> /\ stage = "seal" /\ at # 0 /\ body.nonce # ""
    BY <1>6 DEF AddArtifactApproval, Call
  <2>2. at \in {i \in DOMAIN sealer.entries : ArtifactOf(sealer.entries[i]) /\ sealer.entries[i].body.pid = pid}
    BY <1>0, <2>1, FirstArtifact
  <2>3. ProofSound(proof, pid, body)
    <3> HIDE DEF body
    <3> QED BY DEF ProofSound, SignedBy, Fingerprint
  <2> HIDE DEF proof
  <2>4. IsSeq(others) /\ (\A i \in DOMAIN others : ProofSound(others[i], pid, body))
    <3>1. CASE pid \in DOMAIN sealer.proofs BY <1>0, <3>1 DEF SealerGood
    <3>2. CASE pid \notin DOMAIN sealer.proofs
      <4>1. others = <<>> BY <3>2
      <4>2. <<>> \in Seq(Nat) /\ DOMAIN <<>> = {} OBVIOUS
      <4> HIDE DEF others
      <4> QED BY <4>1, <4>2, MakeSeq
    <3> QED BY <3>1, <3>2
  <2> HIDE DEF others
  <2> DEFINE new == Append(others, proof)
  <2>5. /\ sealer'.entries = sealer.entries /\ sealer'.head = sealer.head /\ sealer'.sigs = sealer.sigs
        /\ sealer'.keys = sealer.keys /\ sealer'.ends = sealer.ends
        /\ sealer'.proofs = Put(sealer.proofs, pid, new)
    BY <1>0, <2>1 DEF SealerParts
  <2>6. \A i \in DOMAIN new : ProofSound(new[i], pid, body)
    <3>1. Len(others) \in Nat /\ DOMAIN others = 1..Len(others) BY <2>4, SeqFacts
    <3>2. DOMAIN new = 1..(Len(others) + 1) /\ (\A i \in 1..Len(others) : new[i] = others[i]) /\ new[Len(others) + 1] = proof
      BY <2>4, AppendFacts
    <3>3. \A i \in 1..(Len(others) + 1) : i \in 1..Len(others) \/ i = Len(others) + 1 BY <3>1
    <3> HIDE DEF new, body
    <3> QED BY <2>3, <2>4, <3>1, <3>2, <3>3
  <2> HIDE DEF new
  <2>7. /\ DOMAIN sealer'.proofs = DOMAIN sealer.proofs \cup {pid} /\ sealer'.proofs[pid] = new
        /\ \A x \in DOMAIN sealer.proofs : x # pid => sealer'.proofs[x] = sealer.proofs[x]
    BY <2>5 DEF Put
  <2>8. ASSUME NEW q \in DOMAIN sealer'.proofs
        PROVE  LET a == artifactMetaByProposal(sealer.entries, q)
               IN /\ a \in {i \in DOMAIN sealer.entries : ArtifactOf(sealer.entries[i]) /\ sealer.entries[i].body.pid = q}
                  /\ sealer.entries[a].body.nonce # ""
                  /\ \A i \in DOMAIN sealer'.proofs[q] : ProofSound(sealer'.proofs[q][i], q, sealer.entries[a].body)
    <3>1. CASE q = pid BY <2>1, <2>2, <2>6, <2>7, <3>1
    <3>2. CASE q # pid BY <2>7, <3>2 DEF SealerGood
    <3> QED BY <3>1, <3>2
  <2> QED BY ZenonT(30), <2>1, <2>5, <2>8 DEF SealerGood
<1>7. CASE Finalize BY <1>7 DEF Finalize, SealerGood
<1>8. CASE Alter
  <2>1. alters' = alters + 1 /\ sealer' = sealer /\ stage = "file" BY <1>8 DEF Alter
  <2>2. alters' \in Nat /\ alters' # 0
    <3>1. alters \in Nat BY DEF SealerGood
    <3> QED BY <2>1, <3>1
  <2> QED BY <2>1, <2>2 DEF SealerGood
<1> QED BY <1>1, <1>2, <1>4, <1>5, <1>6, <1>7, <1>8 DEF RecordNext

\* What the Sealer writes, verifies.
LEMMA GoodVerifies ==
  ASSUME SealerInv, SealerGood
  PROVE  SealerVerifies
<1>0. SUFFICES ASSUME stage = "file", alters = 0, ChainSound(file.entries),
                    \A f \in DOMAIN file.ends : file.sigs[f].over[1] # "seal/v1",
                    "" \notin DOMAIN file.proofs,
                    DOMAIN file.proofs # {} => \A pid \in ProposalIds(file.entries) : ~(Cardinality(Anchors(file, pid)) > 1)
             PROVE  Verify(file)
  BY DEF SealerVerifies
<1>1. /\ file.entries = sealer.entries /\ file.head = sealer.head /\ file.sigs = sealer.sigs /\ file.keys = sealer.keys
      /\ file.ends = sealer.ends /\ file.proofs = sealer.proofs /\ file.room = Home /\ file.version = recordVersion(sealer)
  <2>1. file = FileOf(sealer)
    <3>1. (stage = "file" /\ alters = 0) => file = FileOf(sealer) BY Zenon DEF SealerGood
    <3> QED BY <1>0, <3>1
  <2>2. FileOf(sealer) = [version |-> recordVersion(sealer), room |-> Home, entries |-> sealer.entries, head |-> sealer.head,
             sigs |-> sealer.sigs, keys |-> sealer.keys, ends |-> sealer.ends, proofs |-> sealer.proofs] BY Zenon DEF FileOf
  <2> QED BY <2>1, <2>2
<1>2. file.version \in {"v1", "v2"} BY <1>1 DEF recordVersion
<1>3. file.head = headOf(file.entries) BY <1>1 DEF SealerInv
<1>4. SealsSound(file)
  <2>1. DOMAIN file.sigs # {} BY <1>0, <1>1 DEF SealerGood
  <2>2. ASSUME NEW f \in DOMAIN file.sigs
        PROVE  /\ f \in DOMAIN file.keys /\ Fingerprint(file.keys[f]) = f
               /\ SignedBy(file.sigs[f], file.keys[f], SealPreimage(file, f))
    <3>1. /\ f \in DOMAIN file.keys /\ file.keys[f] = f
          /\ \/ file.sigs[f] = Signature(f, SealBytes(Home, headOf(file.entries)))
             \/ f \in DOMAIN file.ends /\ file.sigs[f] = Signature(f, SealBytesV2(Home, file.ends[f], headOf(file.entries)))
      BY <1>1, <1>3 DEF SealerGood
    <3>2. ASSUME f \in DOMAIN file.ends PROVE file.sigs[f] # Signature(f, SealBytes(Home, headOf(file.entries)))
      <4>1. Signature(f, SealBytes(Home, headOf(file.entries))).over[1] = "seal/v1" BY DEF Signature, SealBytes
      <4> QED BY <1>0, <3>2, <4>1
    <3> QED BY <1>1, <3>1, <3>2 DEF SealPreimage, SignedBy, Fingerprint
  <2> QED BY <2>1, <2>2 DEF SealsSound
<1>5. verifyArtifactApprovals(file)
  <2>0. SUFFICES ASSUME DOMAIN file.proofs # {}
               PROVE  /\ \A pid \in ProposalIds(file.entries) \ {""} : Cardinality(Anchors(file, pid)) = 1
                      /\ \A pid \in DOMAIN file.proofs :
                           /\ pid # "" /\ Anchors(file, pid) # {}
                           /\ LET body == file.entries[CHOOSE i \in Anchors(file, pid) : TRUE].body
                              IN body.nonce # "" /\ \A i \in DOMAIN file.proofs[pid] : ProofSound(file.proofs[pid][i], pid, body)
    BY DEF verifyArtifactApprovals
  <2>1. IsSeq(file.entries) BY <1>1 DEF SealerInv, Linked
  <2>2. ASSUME NEW pid \in ProposalIds(file.entries) PROVE Cardinality(Anchors(file, pid)) = 1 /\ \E x : Anchors(file, pid) = {x}
    <3>1. Len(file.entries) \in Nat /\ DOMAIN file.entries = 1..Len(file.entries) BY <2>1, SeqFacts
    <3>2. IsFiniteSet(DOMAIN file.entries)
      <4>1. 1 \in Int /\ Len(file.entries) \in Int BY <3>1
      <4>2. IsFiniteSet(1..Len(file.entries)) BY <4>1, FS_Interval
      <4> QED BY <3>1, <4>2
    <3>3. IsFiniteSet(Anchors(file, pid)) BY <3>2, FS_Subset DEF Anchors
    <3>4. Anchors(file, pid) # {} BY <2>2 DEF Anchors, ProposalIds
    <3>5. PICK n : n = Cardinality(Anchors(file, pid)) OBVIOUS
    <3>6. n \in Nat /\ n # 0 BY <3>3, <3>4, <3>5, FS_CardinalityType, FS_EmptySet
    <3>7. ~(n > 1) BY <1>0, <2>0, <2>2, <3>5
    <3>8. n = 1
      <4>1. \A x \in Nat : x # 0 /\ ~(x > 1) => x = 1 OBVIOUS
      <4> QED BY <3>6, <3>7, <4>1
    <3> QED BY <3>3, <3>5, <3>8, FS_Singleton
  <2>3. ASSUME NEW pid \in DOMAIN file.proofs
        PROVE  /\ pid # "" /\ Anchors(file, pid) # {}
               /\ LET body == file.entries[CHOOSE i \in Anchors(file, pid) : TRUE].body
                  IN body.nonce # "" /\ \A i \in DOMAIN file.proofs[pid] : ProofSound(file.proofs[pid][i], pid, body)
    <3> DEFINE at == artifactMetaByProposal(file.entries, pid)
    <3>1. /\ at \in Anchors(file, pid) /\ file.entries[at].body.nonce # ""
          /\ \A i \in DOMAIN file.proofs[pid] : ProofSound(file.proofs[pid][i], pid, file.entries[at].body)
      BY <1>1 DEF SealerGood, Anchors
    <3> HIDE DEF at
    <3>2. pid \in ProposalIds(file.entries) BY <3>1 DEF Anchors, ProposalIds
    <3>3. (CHOOSE i \in Anchors(file, pid) : TRUE) = at
      <4>1. (CHOOSE i \in Anchors(file, pid) : TRUE) \in Anchors(file, pid) BY <3>1
      <4>2. PICK x : Anchors(file, pid) = {x} BY <2>2, <3>2
      <4> QED BY <3>1, <4>1, <4>2
    <3> QED BY <1>0, <3>1, <3>3
  <2> QED BY <2>2, <2>3
<1> QED BY <1>0, <1>2, <1>3, <1>4, <1>5 DEF Verify

\* Whatever calls were made, in whatever order, the file the library writes passes its own
\* verifier, save in the four cases SealerVerifies names (record/sealer.go, record/sealed.go).
THEOREM SealerOutputVerifies == RecordSpec => []SealerVerifies
<1>1. RecordInit => SealerInv /\ SealerGood
  <2> SUFFICES ASSUME RecordInit PROVE SealerInv /\ SealerGood OBVIOUS
  <2>1. stage = "chain" /\ alters = 0 /\ DOMAIN sealer.sigs = {} /\ DOMAIN sealer.proofs = {} BY DEF RecordInit, Nil
  <2> QED BY <2>1, RecordStart DEF SealerGood
<1>2. SealerInv /\ SealerGood /\ [RecordNext]_recordVars => (SealerInv /\ SealerGood)'
  <2>1. CASE RecordNext BY <2>1, SealerStep, GoodStep
  <2>2. CASE UNCHANGED recordVars BY <2>2 DEF recordVars, SealerInv, SealerGood, SealerParts
  <2> QED BY <2>1, <2>2
<1>3. SealerInv /\ SealerGood => SealerVerifies BY GoodVerifies
<1> QED BY <1>1, <1>2, <1>3, PTL DEF RecordSpec

------------------------------------------------------------------------------
(* The signed roster.  An acknowledgement is a promise about a view its sender held: *)
(* RosterInv follows it over the wire, through the reader and into the round. *)

\* The signed rosters of a room, on their own.
RosterSpec == RosterInit /\ [][RosterNext]_rosterVars

\* What rounds, goroutines and frames are made of.
Signatures == [by : AllSeats \cup {""}, epoch : Nat, set : SUBSET AllSeats]
Rounds == [on : BOOLEAN, armed : BOOLEAN, epoch : Nat, members : SUBSET AllSeats, sigs : SUBSET Signatures]
HandPlaces == {"idle", "request", "check", "finalize", "reset", "opened", "sign"}
Ops == {"request", "ack", "vanish", "left", "joined"}
Hands == [pc : HandPlaces, epoch : Nat, set : SUBSET AllSeats, total : Nat, from : AllSeats \cup {""}, op : Ops \cup {""}]
RosterFrames == [op : Ops, ep : Nat, epoch : Nat, set : SUBSET AllSeats]

\* What each variable of a roster round holds.
RosterTypeOK ==
  /\ seats \in [Holders -> SUBSET AllSeats] /\ rkEpoch \in [Holders -> Nat]
  /\ cosign \in [Holders -> Rounds] /\ timersDue \in [Holders -> Nat]
  /\ usr \in [Holders -> Hands] /\ rdr \in [Holders -> Hands]
  /\ cable \in [AllSeats -> [Holders -> Seq(RosterFrames)]]
  /\ started \in [Holders -> Nat] /\ ratchets \in Nat
  /\ been \subseteq Holders \X Nat \X SUBSET AllSeats

\* A client is a member of every view it ever held, and sends itself nothing.
OwnSeat ==
  /\ \A c \in Holders : c \in seats[c] /\ <<c, rkEpoch[c], seats[c]>> \in been /\ cable[c][c] = <<>>
  /\ \A b \in been : b[1] \in b[3]

\* Every acknowledgement on its way is of a view its sender held.
AcksMeant ==
  \A s \in AllSeats, d \in Holders : \A k \in 1..Len(cable[s][d]) :
    cable[s][d][k].op = "ack" => <<s, cable[s][d][k].epoch, cable[s][d][k].set>> \in been

\* So is the one a reader has opened, and the view a reader is about to sign.
ReaderMeans ==
  \A c \in Holders :
    /\ rdr[c].pc = "opened" /\ rdr[c].op = "ack" => <<rdr[c].from, rdr[c].epoch, rdr[c].set>> \in been
    /\ rdr[c].pc = "sign" => <<c, rdr[c].epoch, rdr[c].set>> \in been

\* Every signature of an open round is over that round's view, by somebody who held it.
RoundBacked ==
  \A c \in Holders : cosign[c].on =>
    /\ cosign[c].sigs # {}
    /\ \A s \in cosign[c].sigs :
         s.epoch = cosign[c].epoch /\ s.set = cosign[c].members /\ <<s.by, s.epoch, s.set>> \in been

\* Every roster handed out verifies, and its signers are members that held it.
EmittedBacked ==
  \A e \in emitted : VerifyRoster(e[3]) /\ \A s \in e[3].sigs :
    s.by \in e[3].members /\ <<s.by, e[3].epoch, e[3].members>> \in been

\* The emissions of one attester.
Emissions == [c \in Holders |-> {e \in emitted : e[1] = c}]
\* A round hands out its roster once.
EmittedOnce ==
  /\ IsFiniteSet(emitted)
  /\ \A c \in Holders : Cardinality(Emissions[c]) + (IF cosign[c].on THEN 1 ELSE 0) <= started[c]

\* The inductive invariant of the rounds: RosterTrue is about what was handed out, and says
\* nothing of the signatures still on their way.
RosterInv == OwnSeat /\ AcksMeant /\ ReaderMeans /\ RoundBacked /\ EmittedBacked /\ EmittedOnce

\* A room has finitely many seats.
LEMMA RosterConsts ==
  /\ IsFiniteSet(AllSeats) /\ \A S \in SUBSET AllSeats : IsFiniteSet(S) /\ Cardinality(S) \in Nat
  /\ NoRound \in Rounds /\ Resting \in Hands /\ Holders \subseteq AllSeats
<1>1. IsFiniteSet(AllSeats) BY RosterAssumption, FS_Union DEF AllSeats
<1>2. \A S \in SUBSET AllSeats : IsFiniteSet(S) /\ Cardinality(S) \in Nat
  BY <1>1, FS_Subset, FS_CardinalityType
<1>3. NoRound \in Rounds BY DEF NoRound, Rounds
<1>4. Resting \in Hands BY DEF Resting, Hands, HandPlaces
<1> QED BY <1>1, <1>2, <1>3, <1>4 DEF AllSeats

\* A frame on its way to everyone else.
LEMMA SealAndSendFrames ==
  ASSUME RosterTypeOK, NEW s \in AllSeats, NEW op \in Ops, NEW epoch \in Nat, NEW set \in SUBSET AllSeats,
         SealAndSend(s, op, epoch, set)
  PROVE  /\ cable' \in [AllSeats -> [Holders -> Seq(RosterFrames)]]
         /\ \A t \in AllSeats, d \in Holders : t # s \/ d = s => cable'[t][d] = cable[t][d]
         /\ \A d \in Holders : \A k \in 1..Len(cable'[s][d]) :
              \/ k \in 1..Len(cable[s][d]) /\ cable'[s][d][k] = cable[s][d][k]
              \/ cable'[s][d][k].op = op /\ cable'[s][d][k].epoch = epoch /\ cable'[s][d][k].set = set
<1> DEFINE f == [op |-> op, ep |-> IF s \in Holders THEN rkEpoch[s] ELSE 0, epoch |-> epoch, set |-> set]
<1> DEFINE new == [d \in Holders |-> IF d = s \/ d \in away THEN cable[s][d] ELSE Append(cable[s][d], f)]
<1>1. f \in RosterFrames BY DEF RosterTypeOK, RosterFrames
<1>2. cable' = [cable EXCEPT ![s] = new]
  BY DEF SealAndSend
<1>3. \A d \in Holders : cable[s][d] \in Seq(RosterFrames) BY DEF RosterTypeOK
<1>4. \A d \in Holders : new[d] \in Seq(RosterFrames)
  <2> HIDE DEF f
  <2> QED BY <1>1, <1>3
<1>5. new \in [Holders -> Seq(RosterFrames)]
  BY <1>4
<1>6. \A d \in Holders : \A k \in 1..Len(new[d]) :
              \/ k \in 1..Len(cable[s][d]) /\ new[d][k] = cable[s][d][k]
              \/ new[d][k] = f
  <2> HIDE DEF f
  <2> TAKE d \in Holders
  <2> DEFINE q == cable[s][d]
  <2>1. q \in Seq(RosterFrames) BY <1>3
  <2>2. new[d] = q \/ new[d] = Append(q, f) OBVIOUS
  <2> HIDE DEF q
  <2>3. CASE new[d] = q BY <2>1, <2>3 DEF q
  <2>4. CASE new[d] = Append(q, f)
    <3> TAKE k \in 1..Len(new[d])
    <3>1. Len(new[d]) = Len(q) + 1 BY <2>1, <2>4, <1>1
    <3>2. Len(q) \in Nat BY <2>1
    <3>3. k \in 1..Len(q) \/ k = Len(q) + 1 BY <3>1, <3>2
    <3>4. k \in 1..Len(q) => Append(q, f)[k] = q[k] BY <2>1, <1>1
    <3>5. Append(q, f)[Len(q) + 1] = f BY <2>1, <1>1
    <3> QED BY <2>4, <3>3, <3>4, <3>5 DEF q
  <2> QED BY <2>2, <2>3, <2>4
<1>7. f.op = op /\ f.epoch = epoch /\ f.set = set OBVIOUS
<1>8. \A d \in Holders : d = s => new[d] = cable[s][d] OBVIOUS
<1> QED
  <2> HIDE DEF f, new
  <2> QED BY <1>2, <1>5, <1>6, <1>7, <1>8 DEF RosterTypeOK

\* A frame taken from the wire.
LEMMA FrameFacts ==
  ASSUME RosterTypeOK, NEW s \in AllSeats, NEW c \in Holders, cable[s][c] # <<>>,
         cable' = [cable EXCEPT ![s][c] = Tail(@)]
  PROVE  /\ Head(cable[s][c]) \in RosterFrames /\ Len(cable[s][c]) > 0 /\ Head(cable[s][c]) = cable[s][c][1]
         /\ cable' \in [AllSeats -> [Holders -> Seq(RosterFrames)]]
         /\ \A t \in AllSeats, d \in Holders : t # s \/ d # c => cable'[t][d] = cable[t][d]
         /\ \A k \in 1..Len(cable'[s][c]) : k + 1 \in 1..Len(cable[s][c]) /\ cable'[s][c][k] = cable[s][c][k + 1]
<1> DEFINE q == cable[s][c]
<1>1. q \in Seq(RosterFrames) /\ q # <<>> BY DEF RosterTypeOK
<1>2. cable'[s][c] = Tail(q) BY DEF RosterTypeOK
<1>3. cable' = [cable EXCEPT ![s] = [cable[s] EXCEPT ![c] = Tail(q)]] OBVIOUS
<1>4. \A t \in AllSeats, d \in Holders : t # s \/ d # c => cable'[t][d] = cable[t][d]
  BY <1>3 DEF RosterTypeOK
<1> HIDE DEF q
<1>5. Tail(q) \in Seq(RosterFrames) /\ Head(q) \in RosterFrames /\ Len(q) > 0 /\ Head(q) = q[1] BY <1>1
<1>6. Len(q) \in Nat /\ Len(Tail(q)) = Len(q) - 1 BY <1>1
<1>7. \A k \in 1..Len(Tail(q)) : k + 1 \in 1..Len(q) /\ Tail(q)[k] = q[k + 1] BY <1>1, <1>6
<1>8. cable' \in [AllSeats -> [Holders -> Seq(RosterFrames)]]
  BY <1>3, <1>5 DEF RosterTypeOK
<1> QED BY <1>2, <1>4, <1>5, <1>7, <1>8 DEF q

\* Every step keeps the types.
LEMMA RosterTypeStep ==
  ASSUME RosterTypeOK, RosterNext
  PROVE  RosterTypeOK'
<1> USE RosterConsts
<1>1. ASSUME NEW c \in Holders, SignRoster(c) PROVE RosterTypeOK'
  <2>1. c \in AllSeats /\ rkEpoch[c] \in Nat /\ seats[c] \in SUBSET AllSeats /\ Cardinality(seats[c]) \in Nat BY DEF RosterTypeOK
  <2>2. [by |-> c, epoch |-> rkEpoch[c], set |-> seats[c]] \in Signatures BY <2>1 DEF Signatures
  <2>3. cosign' \in [Holders -> Rounds]
    BY <1>1, <2>1, <2>2 DEF SignRoster, RosterTypeOK, Rounds
  <2>4. [Resting EXCEPT !.pc = "request", !.epoch = rkEpoch[c], !.set = seats[c], !.total = Cardinality(seats[c])] \in Hands
    BY <2>1 DEF Resting, Hands, HandPlaces
  <2>5. usr' \in [Holders -> Hands] BY <1>1, <2>4 DEF SignRoster, RosterTypeOK
  <2> QED BY <1>1, <2>3, <2>5 DEF SignRoster, RosterTypeOK, fluxVars, seatVars
<1>2. ASSUME NEW c \in Holders, RosterRequested(c) PROVE RosterTypeOK'
  <2>1. usr[c] \in Hands BY DEF RosterTypeOK
  <2>2. usr[c].epoch \in Nat /\ usr[c].set \in SUBSET AllSeats /\ [usr[c] EXCEPT !.pc = "check"] \in Hands
    BY <2>1 DEF Hands, HandPlaces
  <2>3. usr' \in [Holders -> Hands] BY <1>2, <2>2 DEF RosterRequested, RosterTypeOK
  <2>4. cable' \in [AllSeats -> [Holders -> Seq(RosterFrames)]]
    BY <1>2, <2>2, SealAndSendFrames DEF RosterRequested, RosterTypeOK, Ops
  <2>5. cosign' \in [Holders -> Rounds] BY <1>2 DEF RosterRequested, RosterTypeOK
  <2> QED BY <1>2, <2>3, <2>4, <2>5 DEF RosterRequested, RosterTypeOK, fluxVars, seatVars
<1>3. ASSUME NEW c \in Holders, MaybeFinalizeByUser(c) PROVE RosterTypeOK'
  <2>1. usr[c] \in Hands BY DEF RosterTypeOK
  <2>2. [usr[c] EXCEPT !.pc = "finalize"] \in Hands BY <2>1 DEF Hands, HandPlaces
  <2>3. usr' \in [Holders -> Hands] BY <1>3, <2>2 DEF MaybeFinalizeByUser, RosterTypeOK
  <2>4. cosign' \in [Holders -> Rounds] BY <1>3 DEF MaybeFinalizeByUser, FinalizeRoster, RosterTypeOK
  <2> QED BY <1>3, <2>3, <2>4 DEF MaybeFinalizeByUser, RosterTypeOK, fluxVars, seatVars
<1>4. ASSUME NEW c \in Holders, MaybeFinalizeByReader(c) PROVE RosterTypeOK'
  <2>1. rdr[c] \in Hands BY DEF RosterTypeOK
  <2>2. [rdr[c] EXCEPT !.pc = "finalize"] \in Hands BY <2>1 DEF Hands, HandPlaces
  <2>3. rdr' \in [Holders -> Hands] BY <1>4, <2>2 DEF MaybeFinalizeByReader, RosterTypeOK
  <2>4. cosign' \in [Holders -> Rounds] BY <1>4 DEF MaybeFinalizeByReader, FinalizeRoster, RosterTypeOK
  <2> QED BY <1>4, <2>3, <2>4 DEF MaybeFinalizeByReader, RosterTypeOK, fluxVars, seatVars
<1>5. ASSUME NEW c \in Holders, RosterTimer(c) PROVE RosterTypeOK'
  <2>1. cosign[c] \in Rounds BY DEF RosterTypeOK
  <2>2. [cosign[c] EXCEPT !.armed = FALSE] \in Rounds BY <2>1 DEF Rounds
  <2>3. cosign' \in [Holders -> Rounds] BY <1>5, <2>2 DEF RosterTimer, RosterTypeOK
  <2> QED BY <1>5, <2>3 DEF RosterTimer, RosterTypeOK, fluxVars, seatVars
<1>6. ASSUME NEW c \in Holders, FinalizeByTimer(c) PROVE RosterTypeOK'
  BY <1>6 DEF FinalizeByTimer, FinalizeRoster, RosterTypeOK, fluxVars, seatVars
<1>7. ASSUME NEW c \in Holders, OnRosterRequest(c) PROVE RosterTypeOK'
  <2>1. rdr[c] \in Hands BY DEF RosterTypeOK
  <2>2. [rdr[c] EXCEPT !.pc = "sign"] \in Hands BY <2>1 DEF Hands, HandPlaces
  <2>3. rdr' \in [Holders -> Hands] BY <1>7, <2>2 DEF OnRosterRequest, RosterTypeOK
  <2> QED BY <1>7, <2>3 DEF OnRosterRequest, RosterTypeOK, fluxVars, seatVars
<1>8. ASSUME NEW c \in Holders, SendRosterAck(c) PROVE RosterTypeOK'
  <2>1. rdr[c] \in Hands BY DEF RosterTypeOK
  <2>2. rdr[c].epoch \in Nat /\ rdr[c].set \in SUBSET AllSeats BY <2>1 DEF Hands
  <2>3. cable' \in [AllSeats -> [Holders -> Seq(RosterFrames)]]
    BY <1>8, <2>2, SealAndSendFrames DEF SendRosterAck, RosterTypeOK, Ops
  <2> QED BY <1>8, <2>3 DEF SendRosterAck, RosterTypeOK, fluxVars, seatVars
<1>9. ASSUME NEW c \in Holders, OnRosterAck(c) PROVE RosterTypeOK'
  <2> DEFINE sig == [by |-> rdr[c].from, epoch |-> rdr[c].epoch, set |-> rdr[c].set]
  <2>1. rdr[c] \in Hands /\ cosign[c] \in Rounds /\ Cardinality(seats[c]) \in Nat BY DEF RosterTypeOK
  <2>2. [[rdr[c] EXCEPT !.pc = "check"] EXCEPT !.total = Cardinality(seats[c])] \in Hands BY <2>1 DEF Hands, HandPlaces
  <2>3. rdr' \in [Holders -> Hands] BY ZenonT(30), <1>9, <2>2 DEF OnRosterAck, RosterTypeOK
  <2>4. sig \in Signatures BY <2>1 DEF Hands, Signatures
  <2>5. [cosign[c] EXCEPT !.sigs = {s \in cosign[c].sigs : s.by # sig.by} \cup {sig}] \in Rounds
    BY <2>1, <2>4 DEF Rounds
  <2>6. cosign' = [cosign EXCEPT ![c] = [cosign[c] EXCEPT !.sigs = {s \in cosign[c].sigs : s.by # sig.by} \cup {sig}]] \/ cosign' = cosign
    BY <1>9 DEF OnRosterAck
  <2>7. cosign' \in [Holders -> Rounds] BY <2>5, <2>6 DEF RosterTypeOK
  <2> QED BY <1>9, <2>3, <2>7 DEF OnRosterAck, RosterTypeOK, fluxVars, seatVars
<1>10. ASSUME NEW c \in Holders, ResetByReader(c) PROVE RosterTypeOK'
  BY <1>10 DEF ResetByReader, RosterTypeOK, fluxVars, seatVars
<1>11. ASSUME NEW c \in Holders, VanishRatchets(c) PROVE RosterTypeOK'
  <2>1. [Resting EXCEPT !.pc = "reset"] \in Hands BY DEF Hands, HandPlaces, Resting
  <2>2. rkEpoch' \in [Holders -> Nat] /\ seats' \in [Holders -> SUBSET AllSeats] BY <1>11 DEF VanishRatchets, RosterTypeOK
  <2>3. been' \subseteq Holders \X Nat \X SUBSET AllSeats BY SMTT(30), <1>11, <2>2 DEF VanishRatchets, Remember, RosterTypeOK
  <2> QED BY <1>11, <2>1, <2>2, <2>3 DEF VanishRatchets, RosterTypeOK
<1>12. ASSUME NEW c \in Holders, VanishResets(c) PROVE RosterTypeOK'
  <2>0. SealAndSend(c, "vanish", 0, {}) /\ c \in AllSeats BY <1>12 DEF VanishResets
  <2>1. cable' \in [AllSeats -> [Holders -> Seq(RosterFrames)]]
    <3>1. "vanish" \in Ops /\ 0 \in Nat /\ {} \in SUBSET AllSeats BY DEF Ops
    <3> QED BY <2>0, <3>1, SealAndSendFrames
  <2> QED BY <1>12, <2>1 DEF VanishResets, RosterTypeOK, fluxVars, seatVars
<1>13. ASSUME NEW c \in Holders, SeatLeft(c) PROVE RosterTypeOK'
  <2>0. SealAndSend(c, "left", 0, {}) /\ c \in AllSeats BY <1>13 DEF SeatLeft
  <2>1. cable' \in [AllSeats -> [Holders -> Seq(RosterFrames)]]
    <3>1. "left" \in Ops /\ 0 \in Nat /\ {} \in SUBSET AllSeats BY DEF Ops
    <3> QED BY <2>0, <3>1, SealAndSendFrames
  <2> QED BY <1>13, <2>1 DEF SeatLeft, RosterTypeOK, seatVars
<1>14. ASSUME NEW j \in Joiners, SeatTaken(j) PROVE RosterTypeOK'
  <2>0. j \in AllSeats /\ SealAndSend(j, "joined", 0, {}) BY <1>14 DEF AllSeats, SeatTaken
  <2>1. cable' \in [AllSeats -> [Holders -> Seq(RosterFrames)]]
    <3>1. "joined" \in Ops /\ 0 \in Nat /\ {} \in SUBSET AllSeats BY DEF Ops
    <3> QED BY <2>0, <3>1, SealAndSendFrames
  <2> QED BY <1>14, <2>1 DEF SeatTaken, RosterTypeOK, seatVars
<1>15. ASSUME NEW c \in Holders, NEW s \in AllSeats, HandleRosterFrame(c, s) PROVE RosterTypeOK'
  <2> DEFINE f == Head(cable[s][c])
  <2>1. f \in RosterFrames /\ cable' \in [AllSeats -> [Holders -> Seq(RosterFrames)]]
    BY <1>15, FrameFacts DEF HandleRosterFrame
  <2>2. seats' \in [Holders -> SUBSET AllSeats] BY <1>15 DEF HandleRosterFrame, RosterTypeOK
  <2>3. rkEpoch' \in [Holders -> Nat] BY <1>15 DEF HandleRosterFrame, RosterTypeOK
  <2>4. been' \subseteq Holders \X Nat \X SUBSET AllSeats BY SMTT(30), <1>15, <2>2, <2>3 DEF HandleRosterFrame, Remember, RosterTypeOK
  <2>5. [Resting EXCEPT !.pc = "reset"] \in Hands BY DEF Hands, HandPlaces, Resting
  <2>6. [Resting EXCEPT !.pc = "opened", !.op = f.op, !.from = s, !.epoch = f.epoch, !.set = f.set] \in Hands
    BY <2>1 DEF Hands, HandPlaces, Resting, RosterFrames
  <2>7. rdr' \in [Holders -> Hands] BY <1>15, <2>5, <2>6 DEF HandleRosterFrame, RosterTypeOK
  <2> QED BY <1>15, <2>1, <2>2, <2>3, <2>4, <2>7 DEF HandleRosterFrame, RosterTypeOK, fluxVars
<1> QED BY <1>1, <1>2, <1>3, <1>4, <1>5, <1>6, <1>7, <1>8, <1>9, <1>10, <1>11, <1>12, <1>13, <1>14, <1>15 DEF RosterNext

\* A frame that is no acknowledgement, or one of the sender's own view.
LEMMA SentMeant ==
  ASSUME RosterTypeOK, OwnSeat, AcksMeant, NEW s \in AllSeats, NEW op \in Ops, NEW epoch \in Nat, NEW set \in SUBSET AllSeats,
         SealAndSend(s, op, epoch, set), UNCHANGED seatVars, op = "ack" => <<s, epoch, set>> \in been
  PROVE  AcksMeant' /\ OwnSeat'
<1>1. /\ \A t \in AllSeats, d \in Holders : t # s \/ d = s => cable'[t][d] = cable[t][d]
      /\ \A d \in Holders : \A k \in 1..Len(cable'[s][d]) :
              \/ k \in 1..Len(cable[s][d]) /\ cable'[s][d][k] = cable[s][d][k]
              \/ cable'[s][d][k].op = op /\ cable'[s][d][k].epoch = epoch /\ cable'[s][d][k].set = set
  BY SealAndSendFrames
<1>2. been' = been /\ seats' = seats /\ rkEpoch' = rkEpoch BY DEF seatVars
<1>3. OwnSeat' BY <1>1, <1>2, RosterConsts DEF OwnSeat
<1>4. ASSUME NEW t \in AllSeats, NEW d \in Holders, NEW k \in 1..Len(cable'[t][d]), cable'[t][d][k].op = "ack"
      PROVE  <<t, cable'[t][d][k].epoch, cable'[t][d][k].set>> \in been'
  <2>1. CASE t # s BY <1>1, <1>2, <1>4, <2>1 DEF AcksMeant
  <2>2. CASE t = s BY <1>1, <1>2, <1>4, <2>2 DEF AcksMeant
  <2> QED BY <2>1, <2>2
<1> QED BY <1>3, <1>4 DEF AcksMeant

\* finalizeRoster hands out what the round has, once.
LEMMA FinalizeKeeps ==
  ASSUME RosterTypeOK, OwnSeat, RoundBacked, EmittedBacked, EmittedOnce, NEW c \in Holders, FinalizeRoster(c),
         UNCHANGED <<seatVars, started>>
  PROVE  RoundBacked' /\ EmittedBacked' /\ EmittedOnce'
<1> DEFINE n == Cardinality({e \in emitted : e[1] = c}) + 1
<1> DEFINE e0 == <<c, n, NewRoster(c, cosign[c])>>
<1>1. been' = been /\ started' = started BY DEF seatVars
<1>2. cosign' = [cosign EXCEPT ![c] = NoRound] BY DEF FinalizeRoster
<1>3. RoundBacked' BY <1>1, <1>2 DEF RoundBacked, RosterTypeOK, NoRound
<1>4. CASE ~cosign[c].on
  <2>1. emitted' = emitted BY <1>4 DEF FinalizeRoster
  <2>2. EmittedBacked' BY <1>1, <2>1 DEF EmittedBacked
  <2>3. Emissions' = Emissions BY <2>1 DEF Emissions
  <2>4. \A d \in Holders : cosign'[d].on => cosign[d].on BY <1>2 DEF RosterTypeOK, NoRound
  <2>5. \A d \in Holders : Cardinality(Emissions[d]) \in Nat BY FS_Subset, FS_CardinalityType DEF EmittedOnce, Emissions
  <2>6. \A d \in Holders : started[d] \in Nat BY DEF RosterTypeOK
  <2>7. EmittedOnce' BY <1>1, <2>1, <2>3, <2>4, <2>5, <2>6 DEF EmittedOnce
  <2> QED BY <1>3, <2>2, <2>7
<1>5. CASE cosign[c].on
  <2>1. emitted' = emitted \cup {e0} BY <1>5 DEF FinalizeRoster
  <2>2. e0[1] = c /\ e0[3] = [by |-> c, epoch |-> cosign[c].epoch, members |-> cosign[c].members, sigs |-> cosign[c].sigs]
    BY DEF NewRoster
  <2>3. /\ cosign[c].sigs # {}
        /\ \A s \in cosign[c].sigs : /\ s.epoch = cosign[c].epoch /\ s.set = cosign[c].members
                                     /\ <<s.by, cosign[c].epoch, cosign[c].members>> \in been
    BY <1>5 DEF RoundBacked
  <2>4. \A x, y, z : <<x, y, z>> \in been => x \in z
    <3> TAKE x, y, z
    <3> HAVE <<x, y, z>> \in been
    <3> QED BY DEF OwnSeat
  <2>5. VerifyRoster(e0[3])
    <3> DEFINE a == e0[3]
    <3>1. a.sigs = cosign[c].sigs /\ a.epoch = cosign[c].epoch /\ a.members = cosign[c].members BY <2>2
    <3> HIDE DEF a
    <3> QED BY <2>3, <3>1 DEF VerifyRoster, a
  <2>6. \A s \in e0[3].sigs : s.by \in e0[3].members /\ <<s.by, e0[3].epoch, e0[3].members>> \in been
    BY <2>2, <2>3, <2>4
  <2> HIDE DEF e0
  <2>7. EmittedBacked' BY <1>1, <2>1, <2>5, <2>6 DEF EmittedBacked
  <2>8. Emissions'[c] = Emissions[c] \cup {e0} BY <2>1, <2>2 DEF Emissions
  <2>9. \A d \in Holders : d # c => Emissions'[d] = Emissions[d] BY <2>1, <2>2 DEF Emissions
  <2>10. \A d \in Holders : IsFiniteSet(Emissions[d]) /\ Cardinality(Emissions[d]) \in Nat BY FS_Subset, FS_CardinalityType DEF EmittedOnce, Emissions
  <2>11. Cardinality(Emissions'[c]) <= Cardinality(Emissions[c]) + 1
    <3>1. PICK m : m = Cardinality(Emissions[c]) OBVIOUS
    <3>2. Cardinality(Emissions[c] \cup {e0}) = m \/ Cardinality(Emissions[c] \cup {e0}) = m + 1
      BY <2>10, <3>1, FS_AddElement
    <3> QED BY <2>8, <2>10, <3>1, <3>2
  <2>12. Cardinality(Emissions'[c]) \in Nat BY <2>8, <2>10, FS_AddElement, FS_CardinalityType
  <2>13. IsFiniteSet(emitted') BY <2>1, FS_AddElement DEF EmittedOnce
  <2>14. Cardinality(Emissions[c]) + 1 <= started[c] BY <1>5 DEF EmittedOnce
  <2>15. ~cosign'[c].on /\ \A d \in Holders : d # c => cosign'[d] = cosign[d] BY <1>2 DEF NoRound, RosterTypeOK
  <2>16. started[c] \in Nat BY DEF RosterTypeOK
  <2>17. Cardinality(Emissions'[c]) + (IF cosign'[c].on THEN 1 ELSE 0) <= started'[c]
    BY <1>1, <2>10, <2>11, <2>12, <2>14, <2>15, <2>16
  <2>18. \A d \in Holders : d # c => Cardinality(Emissions'[d]) + (IF cosign'[d].on THEN 1 ELSE 0) <= started'[d]
    BY <1>1, <2>9, <2>15 DEF EmittedOnce
  <2>19. EmittedOnce' BY <2>13, <2>17, <2>18 DEF EmittedOnce
  <2> QED BY <1>3, <2>7, <2>19
<1> QED BY <1>4, <1>5

\* A round dropped, disarmed or left alone.
LEMMA RoundKept ==
  ASSUME RosterTypeOK, RoundBacked, EmittedOnce, UNCHANGED <<seatVars, emitted, started>>,
         NEW c \in Holders, \/ cosign' = [cosign EXCEPT ![c] = NoRound]
                            \/ cosign' = [cosign EXCEPT ![c].armed = FALSE]
                            \/ cosign' = cosign
  PROVE  RoundBacked' /\ EmittedOnce'
<1>1. been' = been /\ started' = started /\ emitted' = emitted BY DEF seatVars
<1>2. \A d \in Holders : cosign[d] \in Rounds BY DEF RosterTypeOK
<1>3. \A d \in Holders : cosign'[d].on => /\ cosign[d].on /\ cosign'[d].sigs = cosign[d].sigs
                                         /\ cosign'[d].epoch = cosign[d].epoch /\ cosign'[d].members = cosign[d].members
  <2>1. CASE cosign' = [cosign EXCEPT ![c] = NoRound] BY <2>1 DEF RosterTypeOK, NoRound
  <2>2. CASE cosign' = [cosign EXCEPT ![c].armed = FALSE]
    <3>1. cosign'[c] = [cosign[c] EXCEPT !.armed = FALSE] /\ \A d \in Holders : d # c => cosign'[d] = cosign[d]
      BY <2>2 DEF RosterTypeOK
    <3> QED BY <1>2, <3>1 DEF Rounds
  <2> QED BY <2>1, <2>2
<1>4. RoundBacked' BY <1>1, <1>3 DEF RoundBacked
<1>5. Emissions' = Emissions BY <1>1 DEF Emissions
<1>6. \A d \in Holders : started[d] \in Nat /\ Cardinality(Emissions[d]) \in Nat
  BY FS_Subset, FS_CardinalityType DEF EmittedOnce, Emissions, RosterTypeOK
<1>7. EmittedOnce' BY <1>1, <1>3, <1>5, <1>6 DEF EmittedOnce
<1> QED BY <1>4, <1>7

\* A step that changes no view and sends nothing.
LEMMA ViewKept ==
  ASSUME RosterTypeOK, OwnSeat, AcksMeant, UNCHANGED <<seatVars, cable>>
  PROVE  OwnSeat' /\ AcksMeant'
BY DEF OwnSeat, AcksMeant, seatVars

\* A reader that does not go on to sign.
LEMMA ReaderKept ==
  ASSUME ReaderMeans, been \subseteq been', NEW c \in Holders, RosterTypeOK,
         rdr' = rdr \/ \E r \in Hands : r.pc \notin {"opened", "sign"} /\ rdr' = [rdr EXCEPT ![c] = r]
  PROVE  ReaderMeans'
BY DEF ReaderMeans, RosterTypeOK

\* A roster once handed out stays true.
LEMMA EmittedKept ==
  ASSUME EmittedBacked, been \subseteq been', UNCHANGED emitted
  PROVE  EmittedBacked'
BY DEF EmittedBacked

\* Every step of a client, of its reader and of its timers keeps the invariant.
LEMMA RosterInvStep ==
  ASSUME RosterTypeOK, RosterInv, RosterNext
  PROVE  RosterInv'
<1> USE RosterConsts
<1>0. OwnSeat /\ AcksMeant /\ ReaderMeans /\ RoundBacked /\ EmittedBacked /\ EmittedOnce BY DEF RosterInv
<1>r. Resting.pc \notin {"opened", "sign"} BY DEF Resting
<1>1. ASSUME NEW c \in Holders, SignRoster(c) PROVE RosterInv'
  <2>0. UNCHANGED <<seatVars, cable, rdr, emitted>> BY <1>1 DEF SignRoster
  <2> DEFINE sig == [by |-> c, epoch |-> rkEpoch[c], set |-> seats[c]]
  <2>1. OwnSeat' /\ AcksMeant' BY <1>0, <2>0, ViewKept
  <2>2. ReaderMeans' BY <1>0, <2>0, ReaderKept DEF seatVars
  <2>3. EmittedBacked' BY <1>0, <2>0, EmittedKept DEF seatVars
  <2>4. /\ cosign'[c].sigs = {sig} /\ cosign'[c].epoch = rkEpoch[c] /\ cosign'[c].members = seats[c]
        /\ \A d \in Holders : d # c => cosign'[d] = cosign[d]
    BY <1>1 DEF SignRoster, RosterTypeOK
  <2>5. RoundBacked'
    <3>1. been' = been BY <2>0 DEF seatVars
    <3>2. <<c, rkEpoch[c], seats[c]>> \in been BY <1>0 DEF OwnSeat
    <3>3. sig.by = c /\ sig.epoch = rkEpoch[c] /\ sig.set = seats[c] OBVIOUS
    <3> HIDE DEF sig
    <3> QED BY <1>0, <2>4, <3>1, <3>2, <3>3 DEF RoundBacked
  <2>6. ~cosign[c].on /\ started' = [started EXCEPT ![c] = @ + 1] BY <1>1 DEF SignRoster
  <2>7. Emissions' = Emissions BY <2>0 DEF Emissions
  <2>8. \A d \in Holders : started[d] \in Nat /\ Cardinality(Emissions[d]) \in Nat
    BY <1>0, FS_Subset, FS_CardinalityType DEF EmittedOnce, Emissions, RosterTypeOK
  <2>9. started'[c] = started[c] + 1 /\ \A d \in Holders : d # c => started'[d] = started[d] BY <2>6 DEF RosterTypeOK
  <2>10. EmittedOnce' BY <1>0, <2>0, <2>4, <2>6, <2>7, <2>8, <2>9 DEF EmittedOnce
  <2> QED BY <2>1, <2>2, <2>3, <2>5, <2>10 DEF RosterInv
<1>2. ASSUME NEW c \in Holders, RosterRequested(c) PROVE RosterInv'
  <2>0. UNCHANGED <<seatVars, rdr, emitted, started>> BY <1>2 DEF RosterRequested
  <2>1. usr[c].epoch \in Nat /\ usr[c].set \in SUBSET AllSeats BY DEF RosterTypeOK, Hands
  <2>2. SealAndSend(c, "request", usr[c].epoch, usr[c].set) \/ UNCHANGED cable BY <1>2 DEF RosterRequested
  <2>3. "request" \in Ops /\ "request" # "ack" BY DEF Ops
  <2>4. OwnSeat' /\ AcksMeant' BY <1>0, <2>0, <2>1, <2>2, <2>3, ViewKept, SentMeant
  <2>5. ReaderMeans' BY <1>0, <2>0, ReaderKept DEF seatVars
  <2>6. EmittedBacked' BY <1>0, <2>0, EmittedKept DEF seatVars
  <2>7. cosign' = [cosign EXCEPT ![c] = NoRound] \/ cosign' = cosign BY <1>2 DEF RosterRequested
  <2>8. RoundBacked' /\ EmittedOnce' BY <1>0, <2>0, <2>7, RoundKept
  <2> QED BY <2>4, <2>5, <2>6, <2>8 DEF RosterInv
<1>3. ASSUME NEW c \in Holders, MaybeFinalizeByUser(c) PROVE RosterInv'
  <2>0. UNCHANGED <<seatVars, cable, rdr, started>> BY <1>3 DEF MaybeFinalizeByUser
  <2>1. OwnSeat' /\ AcksMeant' BY <1>0, <2>0, ViewKept
  <2>2. ReaderMeans' BY <1>0, <2>0, ReaderKept DEF seatVars
  <2>3. UNCHANGED <<cosign, emitted>> \/ FinalizeRoster(c) BY <1>3 DEF MaybeFinalizeByUser
  <2>4. CASE UNCHANGED <<cosign, emitted>>
    BY <1>0, <2>0, <2>1, <2>2, <2>4, RoundKept, EmittedKept DEF RosterInv, seatVars
  <2>5. CASE FinalizeRoster(c) BY <1>0, <2>0, <2>1, <2>2, <2>5, FinalizeKeeps DEF RosterInv
  <2> QED BY <2>3, <2>4, <2>5
<1>4. ASSUME NEW c \in Holders, MaybeFinalizeByReader(c) PROVE RosterInv'
  <2>0. UNCHANGED <<seatVars, cable, started>> BY <1>4 DEF MaybeFinalizeByReader
  <2>1. OwnSeat' /\ AcksMeant' BY <1>0, <2>0, ViewKept
  <2>2. rdr[c] \in Hands BY DEF RosterTypeOK
  <2>3. [rdr[c] EXCEPT !.pc = "finalize"] \in Hands /\ [rdr[c] EXCEPT !.pc = "finalize"].pc \notin {"opened", "sign"}
    BY <2>2 DEF Hands, HandPlaces
  <2>4. ReaderMeans' BY <1>0, <1>4, <1>r, <2>0, <2>3, ReaderKept DEF MaybeFinalizeByReader, seatVars
  <2>5. UNCHANGED <<cosign, emitted>> \/ FinalizeRoster(c) BY <1>4 DEF MaybeFinalizeByReader
  <2>6. CASE UNCHANGED <<cosign, emitted>>
    BY <1>0, <2>0, <2>1, <2>4, <2>6, RoundKept, EmittedKept DEF RosterInv, seatVars
  <2>7. CASE FinalizeRoster(c) BY <1>0, <2>0, <2>1, <2>4, <2>7, FinalizeKeeps DEF RosterInv
  <2> QED BY <2>5, <2>6, <2>7
<1>5. ASSUME NEW c \in Holders, RosterTimer(c) PROVE RosterInv'
  <2>0. UNCHANGED <<seatVars, cable, rdr, started, emitted>> /\ cosign' = [cosign EXCEPT ![c].armed = FALSE] BY <1>5 DEF RosterTimer
  <2>1. OwnSeat' /\ AcksMeant' BY <1>0, <2>0, ViewKept
  <2>2. ReaderMeans' /\ EmittedBacked' BY <1>0, <2>0, ReaderKept, EmittedKept DEF seatVars
  <2>3. RoundBacked' /\ EmittedOnce' BY <1>0, <2>0, RoundKept
  <2> QED BY <2>1, <2>2, <2>3 DEF RosterInv
<1>6. ASSUME NEW c \in Holders, FinalizeByTimer(c) PROVE RosterInv'
  <2>0. UNCHANGED <<seatVars, cable, rdr, started>> /\ FinalizeRoster(c) BY <1>6 DEF FinalizeByTimer
  <2>1. OwnSeat' /\ AcksMeant' BY <1>0, <2>0, ViewKept
  <2>2. ReaderMeans' BY <1>0, <2>0, ReaderKept DEF seatVars
  <2> QED BY <1>0, <2>0, <2>1, <2>2, FinalizeKeeps DEF RosterInv
<1>7. ASSUME NEW c \in Holders, OnRosterRequest(c) PROVE RosterInv'
  <2>0. UNCHANGED <<seatVars, cable, cosign, started, emitted>> BY <1>7 DEF OnRosterRequest
  <2>1. OwnSeat' /\ AcksMeant' BY <1>0, <2>0, ViewKept
  <2>2. EmittedBacked' BY <1>0, <2>0, EmittedKept DEF seatVars
  <2>3. RoundBacked' /\ EmittedOnce' BY <1>0, <2>0, RoundKept
  <2>4. CASE rdr[c].epoch = rkEpoch[c] /\ rdr[c].set = seats[c]
    <3>1. rdr' = [rdr EXCEPT ![c] = [rdr[c] EXCEPT !.pc = "sign"]] BY <1>7, <2>4 DEF OnRosterRequest
    <3>2. rdr[c] \in Hands BY DEF RosterTypeOK
    <3>3. [rdr[c] EXCEPT !.pc = "sign"].epoch = rdr[c].epoch /\ [rdr[c] EXCEPT !.pc = "sign"].set = rdr[c].set
          /\ [rdr[c] EXCEPT !.pc = "sign"].pc = "sign"
      BY <3>2 DEF Hands
    <3>4. <<c, rdr[c].epoch, rdr[c].set>> \in been BY <1>0, <2>4 DEF OwnSeat
    <3>5. been' = been BY <2>0 DEF seatVars
    <3>6. rdr'[c] = [rdr[c] EXCEPT !.pc = "sign"] /\ \A d \in Holders : d # c => rdr'[d] = rdr[d] BY <3>1 DEF RosterTypeOK
    <3>7. ReaderMeans' BY <1>0, <3>3, <3>4, <3>5, <3>6 DEF ReaderMeans
    <3> QED BY <2>1, <2>2, <2>3, <3>7 DEF RosterInv
  <2>5. CASE ~(rdr[c].epoch = rkEpoch[c] /\ rdr[c].set = seats[c])
    <3>1. ReaderMeans' BY <1>0, <1>7, <1>r, <2>0, <2>5, ReaderKept DEF OnRosterRequest, seatVars
    <3> QED BY <2>1, <2>2, <2>3, <3>1 DEF RosterInv
  <2> QED BY <2>4, <2>5
<1>8. ASSUME NEW c \in Holders, SendRosterAck(c) PROVE RosterInv'
  <2>0. UNCHANGED <<seatVars, cosign, started, emitted>> BY <1>8 DEF SendRosterAck
  <2>1. rdr[c].epoch \in Nat /\ rdr[c].set \in SUBSET AllSeats BY DEF RosterTypeOK, Hands
  <2>2. <<c, rdr[c].epoch, rdr[c].set>> \in been BY <1>0, <1>8 DEF ReaderMeans, SendRosterAck
  <2>3. SealAndSend(c, "ack", rdr[c].epoch, rdr[c].set) \/ UNCHANGED cable BY <1>8 DEF SendRosterAck
  <2>4. "ack" \in Ops /\ c \in AllSeats BY DEF Ops
  <2>5. OwnSeat' /\ AcksMeant' BY <1>0, <2>0, <2>1, <2>2, <2>3, <2>4, ViewKept, SentMeant
  <2>6. ReaderMeans' BY <1>0, <1>8, <1>r, <2>0, ReaderKept DEF SendRosterAck, seatVars
  <2>7. EmittedBacked' BY <1>0, <2>0, EmittedKept DEF seatVars
  <2>8. RoundBacked' /\ EmittedOnce' BY <1>0, <2>0, RoundKept
  <2> QED BY <2>5, <2>6, <2>7, <2>8 DEF RosterInv
<1>9. ASSUME NEW c \in Holders, OnRosterAck(c) PROVE RosterInv'
  <2> DEFINE sig == [by |-> rdr[c].from, epoch |-> rdr[c].epoch, set |-> rdr[c].set]
  <2>0. UNCHANGED <<seatVars, cable, started, emitted>> BY <1>9 DEF OnRosterAck
  <2>1. OwnSeat' /\ AcksMeant' BY <1>0, <2>0, ViewKept
  <2>2. EmittedBacked' BY <1>0, <2>0, EmittedKept DEF seatVars
  <2>3. rdr[c] \in Hands /\ cosign[c] \in Rounds /\ Cardinality(seats[c]) \in Nat BY DEF RosterTypeOK
  <2>4. CASE cosign[c].on /\ sig.set = cosign[c].members /\ sig.epoch = cosign[c].epoch
    <3> DEFINE r == [[rdr[c] EXCEPT !.pc = "check"] EXCEPT !.total = Cardinality(seats[c])]
    <3> DEFINE g == [cosign[c] EXCEPT !.sigs = {s \in cosign[c].sigs : s.by # sig.by} \cup {sig}]
    <3>1. r \in Hands /\ r.pc \notin {"opened", "sign"} BY <2>3 DEF Hands, HandPlaces
    <3>2. rdr' = [rdr EXCEPT ![c] = r] BY <1>9, <2>4 DEF OnRosterAck
    <3>3. ReaderMeans' BY <1>0, <2>0, <3>1, <3>2, ReaderKept DEF seatVars
    <3>4. cosign' = [cosign EXCEPT ![c] = g] BY <1>9, <2>4 DEF OnRosterAck
    <3>5. /\ g.on /\ g.epoch = cosign[c].epoch /\ g.members = cosign[c].members
          /\ g.sigs = {s \in cosign[c].sigs : s.by # sig.by} \cup {sig}
      BY <2>3, <2>4 DEF Rounds
    <3>6. <<rdr[c].from, rdr[c].epoch, rdr[c].set>> \in been BY <1>0, <1>9 DEF OnRosterAck, ReaderMeans
    <3>7. sig.by = rdr[c].from /\ sig.epoch = rdr[c].epoch /\ sig.set = rdr[c].set OBVIOUS
    <3>8. cosign'[c] = g /\ \A d \in Holders : d # c => cosign'[d] = cosign[d] BY <3>4 DEF RosterTypeOK
    <3>9. been' = been /\ started' = started /\ emitted' = emitted BY <2>0 DEF seatVars
    <3>10. \A s \in g.sigs : s.epoch = g.epoch /\ s.set = g.members /\ <<s.by, s.epoch, s.set>> \in been
      <4> HIDE DEF g, sig
      <4> QED BY <1>0, <2>4, <3>5, <3>6, <3>7 DEF RoundBacked
    <3>11. g.sigs # {}
      <4> HIDE DEF g, sig
      <4> QED BY <3>5
    <3>12. RoundBacked'
      <4> HIDE DEF g, sig
      <4> QED BY <1>0, <3>8, <3>9, <3>10, <3>11 DEF RoundBacked
    <3>13. \A d \in Holders : cosign'[d].on <=> cosign[d].on
      <4> HIDE DEF g, sig
      <4> QED BY <2>4, <3>5, <3>8
    <3>14. Emissions' = Emissions BY <3>9 DEF Emissions
    <3>15. EmittedOnce' BY <1>0, <3>9, <3>13, <3>14 DEF EmittedOnce
    <3> QED BY <2>1, <2>2, <3>3, <3>12, <3>15 DEF RosterInv
  <2>5. CASE ~(cosign[c].on /\ sig.set = cosign[c].members /\ sig.epoch = cosign[c].epoch)
    <3>1. rdr' = [rdr EXCEPT ![c] = Resting] /\ cosign' = cosign BY <1>9, <2>5 DEF OnRosterAck
    <3>2. ReaderMeans' BY <1>0, <1>r, <2>0, <3>1, ReaderKept DEF seatVars
    <3>3. RoundBacked' /\ EmittedOnce' BY <1>0, <2>0, <3>1, RoundKept
    <3> QED BY <2>1, <2>2, <3>2, <3>3 DEF RosterInv
  <2> QED BY <2>4, <2>5
<1>10. ASSUME NEW c \in Holders, ResetByReader(c) PROVE RosterInv'
  <2>0. /\ UNCHANGED <<seatVars, cable, started, emitted>>
        /\ cosign' = [cosign EXCEPT ![c] = NoRound] /\ rdr' = [rdr EXCEPT ![c] = Resting] BY <1>10 DEF ResetByReader
  <2>1. OwnSeat' /\ AcksMeant' BY <1>0, <2>0, ViewKept
  <2>2. ReaderMeans' /\ EmittedBacked' BY <1>0, <1>r, <2>0, ReaderKept, EmittedKept DEF seatVars
  <2>3. RoundBacked' /\ EmittedOnce' BY <1>0, <2>0, RoundKept
  <2> QED BY <2>1, <2>2, <2>3 DEF RosterInv
<1>11. ASSUME NEW c \in Holders, VanishRatchets(c) PROVE RosterInv'
  <2>0. UNCHANGED <<seats, cosign, rdr, cable, started, emitted>> /\ Remember BY <1>11 DEF VanishRatchets
  <2>1. been \subseteq been' /\ \A d \in Holders : <<d, rkEpoch'[d], seats'[d]>> \in been' BY <2>0 DEF Remember
  <2>2. \A b \in been' : b \in been \/ \E d \in Holders : b = <<d, rkEpoch'[d], seats'[d]>> BY <2>0 DEF Remember
  <2>3. OwnSeat'
    <3>1. \A d \in Holders : d \in seats'[d] /\ cable'[d][d] = <<>> BY <1>0, <2>0 DEF OwnSeat
    <3> QED BY <1>0, <2>1, <2>2, <3>1 DEF OwnSeat
  <2>4. AcksMeant' /\ ReaderMeans' /\ RoundBacked' /\ EmittedBacked' BY <1>0, <2>0, <2>1 DEF AcksMeant, ReaderMeans, RoundBacked, EmittedBacked
  <2>5. EmittedOnce' BY <1>0, <2>0 DEF EmittedOnce, Emissions
  <2> QED BY <2>3, <2>4, <2>5 DEF RosterInv
<1>12. ASSUME NEW c \in Holders, VanishResets(c) PROVE RosterInv'
  <2>0. UNCHANGED <<seatVars, rdr, started, emitted>> /\ cosign' = [cosign EXCEPT ![c] = NoRound] /\ SealAndSend(c, "vanish", 0, {})
    BY <1>12 DEF VanishResets
  <2>1. c \in AllSeats /\ "vanish" \in Ops /\ 0 \in Nat /\ {} \in SUBSET AllSeats /\ "vanish" # "ack" BY DEF Ops
  <2>2. OwnSeat' /\ AcksMeant' BY <1>0, <2>0, <2>1, SentMeant
  <2>3. ReaderMeans' /\ EmittedBacked' BY <1>0, <2>0, ReaderKept, EmittedKept DEF seatVars
  <2>4. RoundBacked' /\ EmittedOnce' BY <1>0, <2>0, RoundKept
  <2> QED BY <2>2, <2>3, <2>4 DEF RosterInv
<1>13. ASSUME NEW c \in Holders, SeatLeft(c) PROVE RosterInv'
  <2>0. UNCHANGED <<seatVars, rdr, cosign, started, emitted>> /\ SealAndSend(c, "left", 0, {})
    BY <1>13 DEF SeatLeft
  <2>1. c \in AllSeats /\ "left" \in Ops /\ 0 \in Nat /\ {} \in SUBSET AllSeats /\ "left" # "ack" BY DEF Ops
  <2>2. OwnSeat' /\ AcksMeant' BY <1>0, <2>0, <2>1, SentMeant
  <2>3. ReaderMeans' /\ EmittedBacked' BY <1>0, <2>0, ReaderKept, EmittedKept DEF seatVars
  <2>4. RoundBacked' /\ EmittedOnce' BY <1>0, <2>0, RoundKept
  <2> QED BY <2>2, <2>3, <2>4 DEF RosterInv
<1>14. ASSUME NEW j \in Joiners, SeatTaken(j) PROVE RosterInv'
  <2>0. UNCHANGED <<seatVars, rdr, cosign, started, emitted>> /\ SealAndSend(j, "joined", 0, {})
    BY <1>14 DEF SeatTaken
  <2>1. j \in AllSeats /\ "joined" \in Ops /\ 0 \in Nat /\ {} \in SUBSET AllSeats /\ "joined" # "ack" BY DEF Ops, AllSeats
  <2>2. OwnSeat' /\ AcksMeant' BY <1>0, <2>0, <2>1, SentMeant
  <2>3. ReaderMeans' BY <1>0, <2>0 DEF seatVars, ReaderMeans
  <2>4. EmittedBacked' BY <1>0, <2>0, EmittedKept DEF seatVars
  <2>5. RoundBacked' /\ EmittedOnce' BY <1>0, <2>0 DEF seatVars, RoundBacked, EmittedOnce, Emissions
  <2> QED BY <2>2, <2>3, <2>4, <2>5 DEF RosterInv
<1>15. ASSUME NEW c \in Holders, NEW s \in AllSeats, HandleRosterFrame(c, s) PROVE RosterInv'
  <2> DEFINE f == Head(cable[s][c])
  <2>0. UNCHANGED <<cosign, started, emitted>> /\ Remember /\ cable[s][c] # <<>> /\ cable' = [cable EXCEPT ![s][c] = Tail(@)]
    BY <1>15 DEF HandleRosterFrame
  <2>1. been \subseteq been' /\ \A d \in Holders : <<d, rkEpoch'[d], seats'[d]>> \in been' BY <2>0 DEF Remember
  <2>2. \A b \in been' : b \in been \/ \E d \in Holders : b = <<d, rkEpoch'[d], seats'[d]>> BY <2>0 DEF Remember
  <2>3. s # c BY <1>0, <2>0 DEF OwnSeat
  <2>4. /\ f \in RosterFrames /\ Len(cable[s][c]) > 0 /\ f = cable[s][c][1]
        /\ \A t \in AllSeats, d \in Holders : t # s \/ d # c => cable'[t][d] = cable[t][d]
        /\ \A k \in 1..Len(cable'[s][c]) : k + 1 \in 1..Len(cable[s][c]) /\ cable'[s][c][k] = cable[s][c][k + 1]
    BY ZenonT(30), <2>0, FrameFacts
  <2>5. OwnSeat'
    <3>1. \A d \in Holders : d \in seats'[d] BY <1>0, <1>15, <2>3 DEF OwnSeat, HandleRosterFrame, RosterTypeOK
    <3>2. \A d \in Holders : cable'[d][d] = <<>> BY ZenonT(30), <1>0, <2>3, <2>4 DEF OwnSeat
    <3> QED BY <1>0, <2>1, <2>2, <3>1, <3>2 DEF OwnSeat
  <2>6. AcksMeant'
    <3> SUFFICES ASSUME NEW t \in AllSeats, NEW d \in Holders, NEW k \in 1..Len(cable'[t][d]), cable'[t][d][k].op = "ack"
                 PROVE  <<t, cable'[t][d][k].epoch, cable'[t][d][k].set>> \in been'
      BY DEF AcksMeant
    <3>1. CASE t # s \/ d # c BY ZenonT(30), <1>0, <2>1, <2>4, <3>1 DEF AcksMeant
    <3>2. CASE t = s /\ d = c
      <4>1. k + 1 \in 1..Len(cable[t][d]) /\ cable'[t][d][k] = cable[t][d][k + 1] BY <2>4, <3>2
      <4>2. <<t, cable[t][d][k + 1].epoch, cable[t][d][k + 1].set>> \in been BY <1>0, <4>1 DEF AcksMeant
      <4> QED BY <2>1, <4>1, <4>2
    <3> QED BY <3>1, <3>2
  <2>7. RoundBacked' /\ EmittedBacked' BY <1>0, <2>0, <2>1 DEF RoundBacked, EmittedBacked
  <2>8. EmittedOnce' BY <1>0, <2>0 DEF EmittedOnce, Emissions
  <2>9. ReaderMeans'
    <3> DEFINE r == [Resting EXCEPT !.pc = "opened", !.op = f.op, !.from = s, !.epoch = f.epoch, !.set = f.set]
    <3>1. \/ rdr' = [rdr EXCEPT ![c] = [Resting EXCEPT !.pc = "reset"]]
          \/ rdr' = [rdr EXCEPT ![c] = r]
          \/ rdr' = [rdr EXCEPT ![c] = Resting]
      BY <1>15 DEF HandleRosterFrame
    <3>2. [Resting EXCEPT !.pc = "reset"] \in Hands /\ [Resting EXCEPT !.pc = "reset"].pc \notin {"opened", "sign"}
      BY DEF Hands, HandPlaces, Resting
    <3>3. CASE rdr' = [rdr EXCEPT ![c] = r]
      <4>1. r.pc = "opened" /\ r.op = f.op /\ r.from = s /\ r.epoch = f.epoch /\ r.set = f.set BY DEF Resting
      <4>2. f.op = "ack" => <<s, f.epoch, f.set>> \in been
        <5>1. Len(cable[s][c]) \in Nat BY DEF RosterTypeOK
        <5>2. 1 \in 1..Len(cable[s][c]) BY <2>4, <5>1
        <5> QED BY <1>0, <2>4, <5>2 DEF AcksMeant
      <4>3. rdr'[c] = r /\ \A d \in Holders : d # c => rdr'[d] = rdr[d] BY <3>3 DEF RosterTypeOK
      <4> HIDE DEF r, f
      <4> QED BY <1>0, <2>1, <4>1, <4>2, <4>3 DEF ReaderMeans
    <3> QED BY <1>0, <1>r, <2>1, <3>1, <3>2, <3>3, ReaderKept
  <2> QED BY <2>5, <2>6, <2>7, <2>8, <2>9 DEF RosterInv
<1> QED BY <1>1, <1>2, <1>3, <1>4, <1>5, <1>6, <1>7, <1>8, <1>9, <1>10, <1>11, <1>12, <1>13, <1>14, <1>15 DEF RosterNext

\* A room begins with it.
LEMMA RosterStart ==
  ASSUME RosterInit
  PROVE  RosterTypeOK /\ RosterInv
<1> USE RosterConsts
<1>1. RosterTypeOK BY DEF RosterInit, RosterTypeOK
<1>2. ReaderMeans /\ RoundBacked /\ EmittedBacked
  BY DEF RosterInit, ReaderMeans, RoundBacked, EmittedBacked, Resting, NoRound
<1>5. OwnSeat
  <2>1. \A c \in Holders : seats[c] = Holders /\ rkEpoch[c] = 0 /\ cable[c][c] = <<>> BY DEF RosterInit
  <2>2. been = {<<c, 0, Holders>> : c \in Holders} BY DEF RosterInit
  <2>3. \A b \in been : b[1] \in b[3] BY <2>2
  <2>4. \A c \in Holders : <<c, rkEpoch[c], seats[c]>> \in been BY <2>1, <2>2
  <2> QED BY <2>1, <2>3, <2>4 DEF OwnSeat
<1>3. AcksMeant BY DEF RosterInit, AcksMeant
<1>4. EmittedOnce
  <2>1. emitted = {} /\ \A c \in Holders : Emissions[c] = {} /\ ~cosign[c].on /\ started[c] = 0
    BY DEF RosterInit, Emissions, NoRound
  <2>2. IsFiniteSet({}) /\ Cardinality({}) = 0 BY FS_EmptySet
  <2> QED BY <2>1, <2>2 DEF EmittedOnce
<1> QED BY <1>1, <1>2, <1>3, <1>4, <1>5 DEF RosterInv

\* The invariant says what RosterTrue says.
LEMMA RosterInvTrue ==
  ASSUME RosterTypeOK, RosterInv
  PROVE  RosterTrue
<1>1. \A c \in Holders : Emissions[c] = {e \in emitted : e[1] = c} BY DEF Emissions
<1>2. \A c \in Holders : started[c] \in Nat /\ Cardinality(Emissions[c]) \in Nat
    BY FS_Subset, FS_CardinalityType DEF RosterInv, EmittedOnce, Emissions, RosterTypeOK
<1>3. \A c \in Holders : Cardinality(Emissions[c]) <= started[c] BY <1>2 DEF RosterInv, EmittedOnce
<1> QED BY <1>1, <1>3 DEF RosterInv, EmittedBacked, RosterTrue

\* A signed roster states a view each of its signers held at that epoch, is well formed, and is
\* handed out once per round, through stale requests, ratchets between the snapshot and the lock,
\* late acknowledgements and timers (roster.go).
THEOREM RosterStaysTrue == RosterSpec => []RosterTrue
<1>1. RosterInit => RosterTypeOK /\ RosterInv BY RosterStart
<1>2. RosterTypeOK /\ RosterInv /\ [RosterNext]_rosterVars => (RosterTypeOK /\ RosterInv)'
  <2>1. CASE RosterNext BY <2>1, RosterTypeStep, RosterInvStep
  <2>2. CASE UNCHANGED rosterVars
    BY <2>2 DEF rosterVars, seatVars, fluxVars, RosterTypeOK, RosterInv, OwnSeat, AcksMeant, ReaderMeans, RoundBacked, EmittedBacked, EmittedOnce, Emissions
  <2> QED BY <2>1, <2>2
<1>3. RosterTypeOK /\ RosterInv => RosterTrue BY RosterInvTrue
<1> QED BY <1>1, <1>2, <1>3, PTL DEF RosterSpec

------------------------------------------------------------------------------
(* The verdict on a credential. *)

\* The credentials one client sees, on their own.
IdentitySpec == IdentityInit /\ [][IdentityNext]_identityVars

\* A list of checks: a reason that is not empty, and whether the check passed.
IsCheck(x) == x[1] # "" /\ x[2] \in BOOLEAN
Passed(x) == x[2]
IsChecks(c) == IsSeq(c) /\ \A i \in 1..Len(c) : IsCheck(c[i])
Passes(c) == \A i \in 1..Len(c) : Passed(c[i])

\* A list whose checks do not all pass has a first one that fails, and FirstFailing names it.
LEMMA FirstFailingAt ==
  ASSUME NEW c, IsChecks(c), ~Passes(c)
  PROVE  \E i \in 1..Len(c) : /\ ~Passed(c[i]) /\ FirstFailing(c) = c[i][1]
                             /\ \A j \in 1..Len(c) : j < i => Passed(c[j])
<1> DEFINE bad == {i \in DOMAIN c : ~c[i][2]}
<1> DEFINE R == OpToRel(<, Nat)
<1>1. DOMAIN c = 1..Len(c) /\ Len(c) \in Nat BY SeqFacts DEF IsChecks
<1>2. bad # {} BY <1>1 DEF Passes, Passed
<1>3. \E i \in bad : \A j \in bad : i <= j
  <2>1. IsWellFoundedOn(R, Nat) BY NatLessThanWellFounded, Zenon
  <2>2. bad \subseteq Nat BY <1>1
  <2>3. PICK x : x \in bad BY <1>2
  <2>4. PICK m \in bad : \A y \in bad : ~(<<y, m>> \in R)
    <3> HIDE DEF R, bad
    <3> QED BY <2>1, <2>2, <2>3, WFMin
  <2>5. \A y \in bad : ~(y < m) BY <2>2, <2>4 DEF OpToRel
  <2> HIDE DEF bad
  <2> QED BY <2>2, <2>5
<1> DEFINE f == CHOOSE i \in bad : \A j \in bad : i <= j
<1>4. f \in bad /\ \A j \in bad : f <= j
  <2> HIDE DEF bad
  <2> QED BY <1>3
<1>5. FirstFailing(c) = c[f][1] BY <1>2 DEF FirstFailing
<1> HIDE DEF f
<1>6. f \in 1..Len(c) /\ ~Passed(c[f]) BY <1>1, <1>4 DEF Passed
<1>7. \A j \in 1..Len(c) : j < f => Passed(c[j])
  <2> TAKE j \in 1..Len(c)
  <2> HAVE j < f
  <2>1. j \notin bad BY <1>4, <1>6
  <2> QED BY <1>1, <2>1 DEF Passed
<1> QED BY <1>5, <1>6, <1>7

\* FirstFailing names nothing exactly when every check passes.
LEMMA FirstFailingPasses ==
  ASSUME NEW c, IsChecks(c)
  PROVE  FirstFailing(c) = "" <=> Passes(c)
<1>1. DOMAIN c = 1..Len(c) BY SeqFacts DEF IsChecks
<1>2. CASE Passes(c) BY <1>1, <1>2 DEF FirstFailing, Passes, Passed
<1>3. CASE ~Passes(c)
  <2>1. PICK i \in 1..Len(c) : FirstFailing(c) = c[i][1] BY <1>3, FirstFailingAt
  <2>2. c[i][1] # "" BY <2>1 DEF IsChecks, IsCheck
  <2> QED BY <1>3, <2>1, <2>2
<1> QED BY <1>2, <1>3

\* Lists are checked one after the other.
LEMMA ChecksJoin ==
  ASSUME NEW c, NEW d, IsChecks(c), IsChecks(d)
  PROVE  IsChecks(c \o d) /\ (Passes(c \o d) <=> Passes(c) /\ Passes(d))
<1> DEFINE e == c \o d
<1> DEFINE S == {c[i] : i \in DOMAIN c} \cup {d[i] : i \in DOMAIN d}
<1>0. c \in Seq(S) /\ d \in Seq(S)
  <2>1. DOMAIN c = 1..Len(c) /\ DOMAIN d = 1..Len(d) BY SeqFacts DEF IsChecks
  <2>2. (\A i \in 1..Len(c) : c[i] \in S) /\ (\A i \in 1..Len(d) : d[i] \in S) BY <2>1
  <2> HIDE DEF S
  <2> QED BY <2>2, SeqFacts DEF IsChecks
<1> HIDE DEF S
<1>1. /\ e \in Seq(S) /\ Len(e) = Len(c) + Len(d) /\ Len(c) \in Nat /\ Len(d) \in Nat
      /\ \A i \in 1..(Len(c) + Len(d)) : e[i] = IF i <= Len(c) THEN c[i] ELSE d[i - Len(c)]
  BY <1>0, ConcatProperties
<1>2. IsSeq(e) BY <1>1, MakeSeq
<1> HIDE DEF e
<1>3. \A i \in 1..Len(c) : i \in 1..Len(e) /\ e[i] = c[i] BY <1>1
<1>4. \A i \in 1..Len(d) : i + Len(c) \in 1..Len(e) /\ e[i + Len(c)] = d[i]
  <2> TAKE i \in 1..Len(d)
  <2>1. i + Len(c) \in 1..(Len(c) + Len(d)) /\ ~(i + Len(c) <= Len(c)) /\ (i + Len(c)) - Len(c) = i BY <1>1
  <2> QED BY <1>1, <2>1
<1>5. \A i \in 1..Len(e) : (i \in 1..Len(c) /\ e[i] = c[i]) \/ (i - Len(c) \in 1..Len(d) /\ e[i] = d[i - Len(c)])
  BY <1>1
<1>6. IsChecks(e) BY <1>2, <1>5 DEF IsChecks
<1>7. Passes(e) <=> Passes(c) /\ Passes(d) BY <1>3, <1>4, <1>5 DEF Passes
<1> QED BY <1>6, <1>7 DEF e

\* The check that FirstFailing names is the only one that could be.
LEMMA FirstFailingIs ==
  ASSUME NEW c, IsChecks(c), NEW i \in 1..Len(c), ~Passed(c[i]), \A j \in 1..Len(c) : j < i => Passed(c[j])
  PROVE  FirstFailing(c) = c[i][1]
<1>1. Len(c) \in Nat BY SeqFacts DEF IsChecks
<1>2. ~Passes(c) BY DEF Passes
<1>3. PICK f \in 1..Len(c) : /\ ~Passed(c[f]) /\ FirstFailing(c) = c[f][1]
                             /\ \A j \in 1..Len(c) : j < f => Passed(c[j])
  BY <1>2, FirstFailingAt
<1>4. f = i BY <1>1, <1>3
<1> QED BY <1>3, <1>4

\* Of two lists in a row the first decides, unless all of it passes.
LEMMA FirstFailingJoin ==
  ASSUME NEW c, NEW d, IsChecks(c), IsChecks(d)
  PROVE  FirstFailing(c \o d) = IF Passes(c) THEN FirstFailing(d) ELSE FirstFailing(c)
<1> DEFINE e == c \o d
<1>1. IsChecks(e) /\ (Passes(e) <=> Passes(c) /\ Passes(d)) BY ChecksJoin
<1>2. /\ Len(c) \in Nat /\ Len(d) \in Nat /\ Len(e) = Len(c) + Len(d)
      /\ \A i \in 1..(Len(c) + Len(d)) : e[i] = IF i <= Len(c) THEN c[i] ELSE d[i - Len(c)]
  BY SeqFacts DEF IsChecks
<1> HIDE DEF e
<1>3. CASE ~Passes(c)
  <2>1. PICK i \in 1..Len(c) : /\ ~Passed(c[i]) /\ FirstFailing(c) = c[i][1]
                               /\ \A j \in 1..Len(c) : j < i => Passed(c[j])
    BY <1>3, FirstFailingAt
  <2>2. i \in 1..Len(e) /\ e[i] = c[i] BY <1>2
  <2>3. \A j \in 1..Len(e) : j < i => Passed(e[j]) BY <1>2, <2>1
  <2>4. ~Passed(e[i]) BY <2>1, <2>2
  <2>5. FirstFailing(e) = e[i][1] BY <1>1, <2>2, <2>3, <2>4, FirstFailingIs
  <2> QED BY <1>3, <2>1, <2>2, <2>5 DEF e
<1>4. CASE Passes(c) /\ ~Passes(d)
  <2>1. PICK i \in 1..Len(d) : /\ ~Passed(d[i]) /\ FirstFailing(d) = d[i][1]
                               /\ \A j \in 1..Len(d) : j < i => Passed(d[j])
    BY <1>4, FirstFailingAt
  <2>2. i + Len(c) \in 1..Len(e) /\ e[i + Len(c)] = d[i]
    <3>1. i + Len(c) \in 1..(Len(c) + Len(d)) /\ ~(i + Len(c) <= Len(c)) /\ (i + Len(c)) - Len(c) = i BY <1>2
    <3> QED BY <1>2, <3>1
  <2>3. ASSUME NEW j \in 1..Len(e), j < i + Len(c) PROVE Passed(e[j])
    <3>1. CASE j <= Len(c)
      <4>1. j \in 1..Len(c) /\ e[j] = c[j] BY <1>2, <3>1
      <4> QED BY <1>4, <4>1 DEF Passes
    <3>2. CASE ~(j <= Len(c))
      <4>1. j - Len(c) \in 1..Len(d) /\ j - Len(c) < i /\ e[j] = d[j - Len(c)] BY <1>2, <2>3, <3>2
      <4> QED BY <2>1, <4>1
    <3> QED BY <3>1, <3>2
  <2>4. ~Passed(e[i + Len(c)]) BY <2>1, <2>2
  <2>5. FirstFailing(e) = e[i + Len(c)][1] BY <1>1, <2>2, <2>3, <2>4, FirstFailingIs
  <2> QED BY <1>4, <2>1, <2>2, <2>5 DEF e
<1>5. CASE Passes(c) /\ Passes(d)
  <2>1. FirstFailing(e) = "" /\ FirstFailing(d) = "" BY <1>1, <1>5, FirstFailingPasses
  <2> QED BY <1>5, <2>1 DEF e
<1> QED BY <1>3, <1>4, <1>5

\* keyOutcome names a reason or none.
LEMMA OutcomeNamed ==
  ASSUME NEW x, NEW k, NEW bytes
  PROVE  keyOutcome(x, k, bytes) \in {"", "signer_key_malformed", "signer_key_mismatch", "signature_malformed", "signature_invalid"}
<1> DEFINE c == << <<"signer_key_malformed", x.keys[k] # "garbled">>,
                   <<"signer_key_mismatch", x.keys[k] \in {k, "absent"}>>,
                   <<"signature_malformed", x.sigs[k].by # "garbled">>,
                   <<"signature_invalid", x.sigs[k] = Issued(k, bytes)>> >>
<1>1. keyOutcome(x, k, bytes) = FirstFailing(c) BY DEF keyOutcome
<1>2. DOMAIN c = 1..4 OBVIOUS
<1>3. /\ c[1][1] = "signer_key_malformed" /\ c[2][1] = "signer_key_mismatch"
      /\ c[3][1] = "signature_malformed" /\ c[4][1] = "signature_invalid" OBVIOUS
<1> HIDE DEF c
<1> DEFINE bad == {i \in DOMAIN c : ~c[i][2]}
<1>4. CASE bad = {} BY <1>1, <1>4 DEF FirstFailing
<1>5. CASE bad # {}
  <2>1. \E i \in bad : \A j \in bad : i <= j
    <3>1. bad \subseteq 1..4 BY <1>2
    <3> HIDE DEF bad
    <3>2. CASE 1 \in bad BY <3>1, <3>2
    <3>3. CASE 1 \notin bad /\ 2 \in bad BY <3>1, <3>3
    <3>4. CASE 1 \notin bad /\ 2 \notin bad /\ 3 \in bad BY <3>1, <3>4
    <3>5. CASE 1 \notin bad /\ 2 \notin bad /\ 3 \notin bad
      <4>1. \A i \in bad : i = 4 BY <3>1, <3>5
      <4>2. 4 \in bad BY <1>5, <4>1
      <4> QED BY <4>1, <4>2
    <3> QED BY <3>2, <3>3, <3>4, <3>5
  <2> DEFINE f == CHOOSE i \in bad : \A j \in bad : i <= j
  <2>2. f \in bad
    <3> HIDE DEF bad
    <3> QED BY <2>1
  <2>3. keyOutcome(x, k, bytes) = c[f][1] BY <1>1, <1>5 DEF FirstFailing
  <2> HIDE DEF f
  <2>4. f \in 1..4 BY <1>2, <2>2
  <2>5. f = 1 \/ f = 2 \/ f = 3 \/ f = 4 BY <2>4
  <2> QED BY <1>3, <2>3, <2>5
<1> QED BY <1>4, <1>5

\* worst always names one of these.
LEMMA WorstIs ==
  ASSUME NEW x, NEW ps, NEW bytes
  PROVE  worst(x, ps, bytes) \in {"no_pinned_issuer_verified", "signature_malformed", "signer_key_malformed",
                                  "signer_key_mismatch", "signature_invalid"}
<1> DEFINE seen == {keyOutcome(x, k, bytes) : k \in Named(x, ps)} \ {""}
<1>1. CASE seen = {} BY <1>1 DEF worst
<1>2. CASE seen # {}
  <2> DEFINE P(i) == Severity[i] \in seen /\ \A j \in DOMAIN Severity : Severity[j] \in seen => j <= i
  <2>1. DOMAIN Severity = 1..4 /\ Severity[1] = "signature_malformed" /\ Severity[2] = "signer_key_malformed"
        /\ Severity[3] = "signer_key_mismatch" /\ Severity[4] = "signature_invalid" BY DEF Severity
  <2>2. \A v \in seen : v \in {Severity[1], Severity[2], Severity[3], Severity[4]}
    <3>1. \A k : keyOutcome(x, k, bytes) \in {"", "signer_key_malformed", "signer_key_mismatch", "signature_malformed", "signature_invalid"}
      BY OutcomeNamed
    <3> QED BY <2>1, <3>1
  <2>3. worst(x, ps, bytes) = Severity[CHOOSE i \in DOMAIN Severity : P(i)] BY <1>2 DEF worst
  <2> HIDE DEF seen
  <2>4. \E i \in DOMAIN Severity : P(i)
    <3>1. CASE Severity[4] \in seen BY <2>1, <3>1
    <3>2. CASE Severity[4] \notin seen /\ Severity[3] \in seen BY <2>1, <3>2
    <3>3. CASE Severity[4] \notin seen /\ Severity[3] \notin seen /\ Severity[2] \in seen BY <2>1, <3>3
    <3>4. CASE Severity[4] \notin seen /\ Severity[3] \notin seen /\ Severity[2] \notin seen BY <1>2, <2>1, <2>2, <3>4
    <3> QED BY <3>1, <3>2, <3>3, <3>4
  <2> DEFINE g == CHOOSE i \in DOMAIN Severity : P(i)
  <2>5. g \in DOMAIN Severity
    <3> HIDE DEF P
    <3> QED BY <2>4
  <2>6. worst(x, ps, bytes) = Severity[g] BY <2>3
  <2> HIDE DEF g
  <2>7. g = 1 \/ g = 2 \/ g = 3 \/ g = 4 BY <2>1, <2>5
  <2> QED BY <2>1, <2>6, <2>7
<1> QED BY <1>1, <1>2

\* One, two or three checks in a row.
LEMMA ListsOf ==
  ASSUME NEW x, NEW y, NEW z
  PROVE  /\ IsSeq(<<x>>) /\ IsSeq(<<x, y>>) /\ IsSeq(<<x, y, z>>)
         /\ Len(<<x>>) = 1 /\ <<x>>[1] = x
         /\ Len(<<x, y>>) = 2 /\ <<x, y>>[1] = x /\ <<x, y>>[2] = y
         /\ Len(<<x, y, z>>) = 3 /\ <<x, y, z>>[1] = x /\ <<x, y, z>>[2] = y /\ <<x, y, z>>[3] = z
<1>1. <<x>> \in Seq({x, y, z}) /\ <<x, y>> \in Seq({x, y, z}) /\ <<x, y, z>> \in Seq({x, y, z}) OBVIOUS
<1> QED BY <1>1, MakeSeq

\* Short lists of checks.
LEMMA ChecksOf ==
  ASSUME NEW x, NEW y, NEW z, IsCheck(x), IsCheck(y), IsCheck(z)
  PROVE  /\ IsChecks(<<x>>) /\ (Passes(<<x>>) <=> Passed(x))
         /\ IsChecks(<<x, y>>) /\ (Passes(<<x, y>>) <=> Passed(x) /\ Passed(y))
         /\ IsChecks(<<x, y, z>>) /\ (Passes(<<x, y, z>>) <=> Passed(x) /\ Passed(y) /\ Passed(z))
<1>1. ASSUME NEW s, IsSeq(s), Len(s) = 1, s[1] = x PROVE IsChecks(s) /\ (Passes(s) <=> Passed(x))
  BY <1>1 DEF IsChecks, Passes
<1>2. ASSUME NEW s, IsSeq(s), Len(s) = 2, s[1] = x, s[2] = y PROVE IsChecks(s) /\ (Passes(s) <=> Passed(x) /\ Passed(y))
  BY <1>2 DEF IsChecks, Passes
<1>3. ASSUME NEW s, IsSeq(s), Len(s) = 3, s[1] = x, s[2] = y, s[3] = z
      PROVE  IsChecks(s) /\ (Passes(s) <=> Passed(x) /\ Passed(y) /\ Passed(z))
  BY <1>3 DEF IsChecks, Passes
<1>4. IsChecks(<<x>>) /\ (Passes(<<x>>) <=> Passed(x)) BY <1>1, ListsOf
<1>5. IsChecks(<<x, y>>) /\ (Passes(<<x, y>>) <=> Passed(x) /\ Passed(y)) BY <1>2, ListsOf
<1>6. IsChecks(<<x, y, z>>) /\ (Passes(<<x, y, z>>) <=> Passed(x) /\ Passed(y) /\ Passed(z)) BY <1>3, ListsOf
<1> QED BY <1>4, <1>5, <1>6

\* One check.
LEMMA CheckOf ==
  ASSUME NEW n, n # "", NEW b \in BOOLEAN
  PROVE  IsCheck(<<n, b>>) /\ (Passed(<<n, b>>) <=> b)
<1>1. <<n, b>>[1] = n /\ <<n, b>>[2] = b OBVIOUS
<1> QED BY <1>1 DEF IsCheck, Passed

\* The signer checks pass exactly when a pinned issuer verified.
LEMMA SignerPasses ==
  ASSUME NEW x, NEW ps, NEW bytes
  PROVE  /\ IsChecks(SignerChecks(x, ps, bytes))
         /\ Passes(SignerChecks(x, ps, bytes)) <=>
              x.issuer \in DOMAIN x.sigs /\ ps # {} /\ VerifiedBy(x, ps, bytes) # {}
<1> DEFINE a == <<"issuer_did_not_sign", x.issuer \in DOMAIN x.sigs>>
<1> DEFINE b == <<"no_issuer_pinned", ps # {}>>
<1> DEFINE c == <<worst(x, ps, bytes), VerifiedBy(x, ps, bytes) # {}>>
<1>1. worst(x, ps, bytes) # "" BY WorstIs, Zenon
<1>2. IsCheck(a) /\ (Passed(a) <=> x.issuer \in DOMAIN x.sigs)
  <2>1. "issuer_did_not_sign" # "" /\ (x.issuer \in DOMAIN x.sigs) \in BOOLEAN OBVIOUS
  <2> QED BY <2>1, CheckOf
<1>3. IsCheck(b) /\ (Passed(b) <=> ps # {})
  <2>1. "no_issuer_pinned" # "" /\ (ps # {}) \in BOOLEAN OBVIOUS
  <2> QED BY <2>1, CheckOf
<1>4. IsCheck(c) /\ (Passed(c) <=> VerifiedBy(x, ps, bytes) # {})
  <2>1. (VerifiedBy(x, ps, bytes) # {}) \in BOOLEAN OBVIOUS
  <2> QED BY <1>1, <2>1, CheckOf
<1>5. SignerChecks(x, ps, bytes) = <<a, b, c>> BY DEF SignerChecks
<1> HIDE DEF a, b, c
<1> QED BY <1>2, <1>3, <1>4, <1>5, ChecksOf

\* VerifyRevocation, as the facts it stands for.
LEMMA RevocationPasses ==
  ASSUME NEW s, NEW ps
  PROVE  VerifyRevocation(s, ps) <=>
           /\ s.faults = {} /\ s.issuer \in DOMAIN s.sigs /\ ps # {}
           /\ VerifiedBy(s, ps, RevocationSigningBytes(s)) # {}
<1> DEFINE a == <<"malformed", s.faults = {}>>
<1> DEFINE d == SignerChecks(s, ps, RevocationSigningBytes(s))
<1>1. IsCheck(a) /\ (Passed(a) <=> s.faults = {})
  <2>1. "malformed" # "" /\ (s.faults = {}) \in BOOLEAN OBVIOUS
  <2> QED BY <2>1, CheckOf
<1>2. IsChecks(d) /\ (Passes(d) <=> s.issuer \in DOMAIN s.sigs /\ ps # {} /\ VerifiedBy(s, ps, RevocationSigningBytes(s)) # {})
  BY SignerPasses
<1>3. VerifyRevocation(s, ps) <=> FirstFailing(<<a>> \o d) = "" BY DEF VerifyRevocation
<1> HIDE DEF a, d
<1>4. IsChecks(<<a>>) /\ (Passes(<<a>>) <=> Passed(a)) BY <1>1, ChecksOf
<1>5. IsChecks(<<a>> \o d) /\ (Passes(<<a>> \o d) <=> Passes(<<a>>) /\ Passes(d)) BY <1>2, <1>4, ChecksJoin
<1>6. FirstFailing(<<a>> \o d) = "" <=> Passes(<<a>> \o d) BY <1>5, FirstFailingPasses
<1> QED BY <1>1, <1>2, <1>3, <1>4, <1>5, <1>6

\* The field checks are checks.
LEMMA FieldsAreChecks ==
  ASSUME NEW x
  PROVE  IsChecks(FieldChecks(x))
<1>1. DOMAIN FieldOrder = 1..9 BY DEF FieldOrder
<1>2. \A i \in 1..9 : FieldOrder[i] # ""
  <2>1. \A i \in 1..9 : i = 1 \/ i = 2 \/ i = 3 \/ i = 4 \/ i = 5 \/ i = 6 \/ i = 7 \/ i = 8 \/ i = 9 OBVIOUS
  <2>2. /\ FieldOrder[1] = "version" /\ FieldOrder[2] = "algorithm" /\ FieldOrder[3] = "serial"
        /\ FieldOrder[4] = "subject" /\ FieldOrder[5] = "principal" /\ FieldOrder[6] = "type"
        /\ FieldOrder[7] = "roles" /\ FieldOrder[8] = "issuer" /\ FieldOrder[9] = "time" BY DEF FieldOrder
  <2> QED BY <2>1, <2>2
<1> DEFINE c == FieldChecks(x)
<1> DEFINE f(i) == <<FieldOrder[i], FieldOrder[i] \notin x.faults>>
<1>3. c = [i \in 1..9 |-> f(i)] BY <1>1 DEF FieldChecks
<1>4. \A i \in 1..9 : IsCheck(f(i))
  <2> TAKE i \in 1..9
  <2>1. (FieldOrder[i] \notin x.faults) \in BOOLEAN OBVIOUS
  <2> QED BY <1>2, <2>1, CheckOf
<1> HIDE DEF c, f
<1>5. c \in Seq({f(i) : i \in 1..9})
  <2>1. c = [i \in 1..9 |-> c[i]] /\ \A i \in 1..9 : c[i] \in {f(j) : j \in 1..9} BY <1>3
  <2>2. 9 \in Nat OBVIOUS
  <2> QED BY <2>1, <2>2, SeqDef
<1>6. IsSeq(c) BY <1>5, MakeSeq
<1>7. Len(c) = 9 BY <1>3, <1>5
<1>8. \A i \in 1..Len(c) : IsCheck(c[i]) BY <1>3, <1>4, <1>7
<1> QED BY <1>6, <1>8 DEF IsChecks, c

\* VerifyIdentity accepts exactly when every fact it is meant to establish holds.
LEMMA VerdictPasses ==
  ASSUME NEW a, NEW ps, NEW at, NEW revs
  PROVE  VerifyIdentity(a, ps, at, revs) = "" <=>
           /\ Passes(FieldChecks(a)) /\ a.from <= a.until
           /\ a.issuer \in DOMAIN a.sigs /\ ps # {} /\ VerifiedBy(a, ps, IdentitySigningBytes(a)) # {}
           /\ a.from <= at /\ at <= a.until
           /\ (\A s \in revs : VerifyRevocation(s, ps)) /\ ~Listed(a, revs)
<1> DEFINE c1 == FieldChecks(a)
<1> DEFINE w == <<"inverted_window", a.from <= a.until>>
<1> DEFINE c3 == SignerChecks(a, ps, IdentitySigningBytes(a))
<1> DEFINE n == <<"not_yet_valid", a.from <= at>>
<1> DEFINE e == <<"expired", at <= a.until>>
<1> DEFINE u == <<"revocation_unverifiable", \A s \in revs : VerifyRevocation(s, ps)>>
<1> DEFINE r == <<"revoked", ~Listed(a, revs)>>
<1>1. IsChecks(c1) BY FieldsAreChecks
<1>2. IsCheck(w) /\ (Passed(w) <=> a.from <= a.until)
  <2>1. "inverted_window" # "" /\ (a.from <= a.until) \in BOOLEAN OBVIOUS
  <2> QED BY <2>1, CheckOf
<1>3. IsChecks(c3) /\ (Passes(c3) <=> a.issuer \in DOMAIN a.sigs /\ ps # {} /\ VerifiedBy(a, ps, IdentitySigningBytes(a)) # {})
  BY SignerPasses
<1>4. IsCheck(n) /\ (Passed(n) <=> a.from <= at)
  <2>1. "not_yet_valid" # "" /\ (a.from <= at) \in BOOLEAN OBVIOUS
  <2> QED BY <2>1, CheckOf
<1>5. IsCheck(e) /\ (Passed(e) <=> at <= a.until)
  <2>1. "expired" # "" /\ (at <= a.until) \in BOOLEAN OBVIOUS
  <2> QED BY <2>1, CheckOf
<1>6. IsCheck(u) /\ (Passed(u) <=> \A s \in revs : VerifyRevocation(s, ps))
  <2>1. "revocation_unverifiable" # "" /\ (\A s \in revs : VerifyRevocation(s, ps)) \in BOOLEAN OBVIOUS
  <2> QED BY <2>1, CheckOf
<1>7. IsCheck(r) /\ (Passed(r) <=> ~Listed(a, revs))
  <2>1. "revoked" # "" /\ (~Listed(a, revs)) \in BOOLEAN OBVIOUS
  <2> QED BY <2>1, CheckOf
<1>8. VerifyIdentity(a, ps, at, revs) = FirstFailing(c1 \o <<w>> \o c3 \o <<n, e>> \o <<u, r>>)
  BY DEF VerifyIdentity, RevocationChecks
<1> HIDE DEF c1, w, c3, n, e, u, r
<1>9. IsChecks(<<w>>) /\ (Passes(<<w>>) <=> Passed(w)) BY <1>2, ChecksOf
<1>10. IsChecks(<<n, e>>) /\ (Passes(<<n, e>>) <=> Passed(n) /\ Passed(e)) BY <1>4, <1>5, ChecksOf
<1>11. IsChecks(<<u, r>>) /\ (Passes(<<u, r>>) <=> Passed(u) /\ Passed(r)) BY <1>6, <1>7, ChecksOf
<1> DEFINE d1 == c1 \o <<w>>
<1> DEFINE d2 == d1 \o c3
<1> DEFINE d3 == d2 \o <<n, e>>
<1> DEFINE d4 == d3 \o <<u, r>>
<1>12. VerifyIdentity(a, ps, at, revs) = FirstFailing(d4) BY <1>8
<1>13. IsChecks(d1) /\ (Passes(d1) <=> Passes(c1) /\ Passes(<<w>>)) BY <1>1, <1>9, ChecksJoin
<1> HIDE DEF d1
<1>14. IsChecks(d2) /\ (Passes(d2) <=> Passes(d1) /\ Passes(c3)) BY <1>3, <1>13, ChecksJoin
<1> HIDE DEF d2
<1>15. IsChecks(d3) /\ (Passes(d3) <=> Passes(d2) /\ Passes(<<n, e>>)) BY <1>10, <1>14, ChecksJoin
<1> HIDE DEF d3
<1>16. IsChecks(d4) /\ (Passes(d4) <=> Passes(d3) /\ Passes(<<u, r>>)) BY <1>11, <1>15, ChecksJoin
<1> HIDE DEF d4
<1>17. FirstFailing(d4) = "" <=> Passes(d4) BY <1>16, FirstFailingPasses
<1> QED BY <1>2, <1>3, <1>4, <1>5, <1>6, <1>7, <1>9, <1>10, <1>11, <1>12, <1>13, <1>14, <1>15, <1>16, <1>17 DEF c1

\* Pinning one key more verifies no less.
LEMMA MorePins ==
  ASSUME NEW x, NEW ps, NEW k, NEW bytes
  PROVE  VerifiedBy(x, ps, bytes) \subseteq VerifiedBy(x, ps \cup {k}, bytes)
BY DEF VerifiedBy, Named

\* However VerifyIdentity orders its checks and picks the reason it names, pinning one more issuer
\* never takes a verdict away and one more revocation statement never gives one back, for any
\* credential, issuers, moment and statements (attest/identity.go VerifyIdentity, checkRevocations).
THEOREM VerdictAlwaysMonotone == IdentitySpec => []VerdictMonotone
<1> DEFINE Q(a, at, ps, revs) == /\ \A k \in Issuers \ ps : VerifyIdentity(a, ps \cup {k}, at, revs) = ""
                                /\ \A r \in revs : VerifyIdentity(a, ps, at, revs \ {r}) = ""
<1>1. ASSUME NEW a, NEW at, NEW ps, NEW revs, VerifyIdentity(a, ps, at, revs) = ""
      PROVE  Q(a, at, ps, revs)
  <2>1. /\ Passes(FieldChecks(a)) /\ a.from <= a.until
        /\ a.issuer \in DOMAIN a.sigs /\ ps # {} /\ VerifiedBy(a, ps, IdentitySigningBytes(a)) # {}
        /\ a.from <= at /\ at <= a.until
        /\ (\A s \in revs : VerifyRevocation(s, ps)) /\ ~Listed(a, revs)
    BY <1>1, VerdictPasses
  <2>2. ASSUME NEW k \in Issuers \ ps PROVE VerifyIdentity(a, ps \cup {k}, at, revs) = ""
    <3>1. ps \cup {k} # {} OBVIOUS
    <3>2. VerifiedBy(a, ps \cup {k}, IdentitySigningBytes(a)) # {} BY <2>1, MorePins
    <3>3. ASSUME NEW s \in revs PROVE VerifyRevocation(s, ps \cup {k})
      <4>1. VerifyRevocation(s, ps) BY <2>1
      <4>2. /\ s.faults = {} /\ s.issuer \in DOMAIN s.sigs
            /\ VerifiedBy(s, ps, RevocationSigningBytes(s)) # {} BY <4>1, RevocationPasses
      <4>3. VerifiedBy(s, ps \cup {k}, RevocationSigningBytes(s)) # {} BY <4>2, MorePins
      <4> QED BY <3>1, <4>2, <4>3, RevocationPasses
    <3>4. \A s \in revs : VerifyRevocation(s, ps \cup {k}) BY <3>3
    <3> QED BY <2>1, <3>1, <3>2, <3>4, VerdictPasses
  <2>3. ASSUME NEW r \in revs PROVE VerifyIdentity(a, ps, at, revs \ {r}) = ""
    <3>1. \A s \in revs \ {r} : VerifyRevocation(s, ps) BY <2>1
    <3>2. ~Listed(a, revs \ {r}) BY <2>1 DEF Listed
    <3> QED BY <2>1, <3>1, <3>2, VerdictPasses
  <2> QED BY <2>2, <2>3
<1>2. VerdictMonotone
  <2>1. VerdictMonotone <=> (use = "library" =>
          \A a \in artifacts, at \in 1..MaxTime, ps \in SUBSET Issuers, revs \in SUBSET statements :
            VerifyIdentity(a, ps, at, revs) = "" => Q(a, at, ps, revs)) BY DEF VerdictMonotone
  <2> HIDE DEF Q
  <2> QED BY <1>1, <2>1
<1> QED BY <1>2, PTL

\* What VerifyIdentity decides before it looks at the clock.
Before(a, ps) ==
  FirstFailing(FieldChecks(a) \o << <<"inverted_window", a.from <= a.until>> >>
    \o SignerChecks(a, ps, IdentitySigningBytes(a)))

\* One check alone, and two in a row.
LEMMA FirstOfTwo ==
  ASSUME NEW x, NEW y, IsCheck(x), IsCheck(y)
  PROVE  /\ FirstFailing(<<x>>) = IF Passed(x) THEN "" ELSE x[1]
         /\ FirstFailing(<<x, y>>) = IF ~Passed(x) THEN x[1] ELSE IF ~Passed(y) THEN y[1] ELSE ""
<1> DEFINE c == <<x>>
<1> DEFINE d == <<x, y>>
<1>3. IsChecks(c) /\ (Passes(c) <=> Passed(x)) /\ IsChecks(d) /\ (Passes(d) <=> Passed(x) /\ Passed(y)) BY ChecksOf
<1>4. Len(c) = 1 /\ c[1] = x /\ Len(d) = 2 /\ d[1] = x /\ d[2] = y BY ListsOf
<1> HIDE DEF c, d
<1>5. FirstFailing(c) = IF Passed(x) THEN "" ELSE x[1]
  <2>1. CASE Passed(x) BY <1>3, <2>1, FirstFailingPasses
  <2>2. CASE ~Passed(x)
    <3>1. 1 \in 1..Len(c) /\ \A j \in 1..Len(c) : ~(j < 1) BY <1>4
    <3> QED BY <1>3, <1>4, <2>2, <3>1, FirstFailingIs
  <2> QED BY <2>1, <2>2
<1>6. FirstFailing(d) = IF ~Passed(x) THEN x[1] ELSE IF ~Passed(y) THEN y[1] ELSE ""
  <2>1. CASE Passed(x) /\ Passed(y) BY <1>3, <2>1, FirstFailingPasses
  <2>2. CASE ~Passed(x)
    <3>1. 1 \in 1..Len(d) /\ \A j \in 1..Len(d) : ~(j < 1) BY <1>4
    <3> QED BY <1>3, <1>4, <2>2, <3>1, FirstFailingIs
  <2>3. CASE Passed(x) /\ ~Passed(y)
    <3>1. 2 \in 1..Len(d) /\ \A j \in 1..Len(d) : j < 2 => j = 1 BY <1>4
    <3>2. \A j \in 1..Len(d) : j < 2 => Passed(d[j]) BY <1>4, <2>3, <3>1
    <3> QED BY <1>3, <1>4, <2>3, <3>1, <3>2, FirstFailingIs
  <2> QED BY <2>1, <2>2, <2>3
<1> QED BY <1>5, <1>6 DEF c, d

\* Without revocations a verdict depends on the clock only through the window.
LEMMA VerdictOverTime ==
  ASSUME NEW a, NEW ps, NEW at
  PROVE  VerifyIdentity(a, ps, at, {}) =
           IF Before(a, ps) # "" THEN Before(a, ps)
           ELSE IF ~(a.from <= at) THEN "not_yet_valid" ELSE IF ~(at <= a.until) THEN "expired" ELSE ""
<1> DEFINE c1 == FieldChecks(a)
<1> DEFINE c2 == << <<"inverted_window", a.from <= a.until>> >>
<1> DEFINE c3 == SignerChecks(a, ps, IdentitySigningBytes(a))
<1> DEFINE c4 == << <<"not_yet_valid", a.from <= at>>, <<"expired", at <= a.until>> >>
<1> DEFINE c5 == << <<"revocation_unverifiable", \A s \in {} : VerifyRevocation(s, ps)>>, <<"revoked", ~Listed(a, {})>> >>
<1> DEFINE d1 == c1 \o c2
<1> DEFINE d2 == d1 \o c3
<1> DEFINE d3 == d2 \o c4
<1> DEFINE d4 == d3 \o c5
<1>1. VerifyIdentity(a, ps, at, {}) = FirstFailing(d4) BY DEF VerifyIdentity, RevocationChecks
<1>2. Before(a, ps) = FirstFailing(d2) BY DEF Before
<1>3. IsChecks(c1) BY FieldsAreChecks
<1>4. IsChecks(c2)
  <2> DEFINE w == <<"inverted_window", a.from <= a.until>>
  <2>1. "inverted_window" # "" /\ (a.from <= a.until) \in BOOLEAN OBVIOUS
  <2>2. IsCheck(w) BY <2>1, CheckOf
  <2> HIDE DEF w
  <2>3. IsChecks(<<w>>) BY <2>2, ChecksOf
  <2> QED BY <2>3 DEF w
<1>5. IsChecks(c3) BY SignerPasses
<1>6. IsChecks(c4) /\ FirstFailing(c4) = IF ~(a.from <= at) THEN "not_yet_valid" ELSE IF ~(at <= a.until) THEN "expired" ELSE ""
  <2> DEFINE x == <<"not_yet_valid", a.from <= at>>
  <2> DEFINE y == <<"expired", at <= a.until>>
  <2>1. "not_yet_valid" # "" /\ "expired" # "" /\ (a.from <= at) \in BOOLEAN /\ (at <= a.until) \in BOOLEAN OBVIOUS
  <2>2. IsCheck(x) /\ (Passed(x) <=> a.from <= at) /\ x[1] = "not_yet_valid" BY <2>1, CheckOf
  <2>3. IsCheck(y) /\ (Passed(y) <=> at <= a.until) /\ y[1] = "expired" BY <2>1, CheckOf
  <2> HIDE DEF x, y
  <2>4. IsChecks(<<x, y>>) /\ FirstFailing(<<x, y>>) = IF ~Passed(x) THEN x[1] ELSE IF ~Passed(y) THEN y[1] ELSE ""
    BY <2>2, <2>3, ChecksOf, FirstOfTwo
  <2>5. c4 = <<x, y>> BY DEF x, y
  <2> HIDE DEF c4
  <2> QED BY <2>2, <2>3, <2>4, <2>5
<1>7. IsChecks(c5) /\ FirstFailing(c5) = ""
  <2> DEFINE x == <<"revocation_unverifiable", \A s \in {} : VerifyRevocation(s, ps)>>
  <2> DEFINE y == <<"revoked", ~Listed(a, {})>>
  <2>1. /\ "revocation_unverifiable" # "" /\ (\A s \in {} : VerifyRevocation(s, ps)) \in BOOLEAN
        /\ "revoked" # "" /\ (~Listed(a, {})) \in BOOLEAN OBVIOUS
  <2>2. IsCheck(x) /\ (Passed(x) <=> \A s \in {} : VerifyRevocation(s, ps)) BY <2>1, CheckOf
  <2>3. IsCheck(y) /\ (Passed(y) <=> ~Listed(a, {})) BY <2>1, CheckOf
  <2>4. Passed(x) /\ Passed(y) BY <2>2, <2>3 DEF Listed
  <2>5. c5 = <<x, y>> OBVIOUS
  <2> HIDE DEF c5, x, y
  <2> QED BY <2>2, <2>3, <2>4, <2>5, ChecksOf, FirstOfTwo
<1> HIDE DEF c1, c2, c3, c4, c5
<1>8. IsChecks(d1) BY <1>3, <1>4, ChecksJoin
<1> HIDE DEF d1
<1>9. IsChecks(d2) BY <1>5, <1>8, ChecksJoin
<1> HIDE DEF d2
<1>10. IsChecks(d3) /\ FirstFailing(d3) = IF Passes(d2) THEN FirstFailing(c4) ELSE FirstFailing(d2)
  BY <1>6, <1>9, ChecksJoin, FirstFailingJoin
<1> HIDE DEF d3
<1>11. FirstFailing(d4) = IF Passes(d3) THEN FirstFailing(c5) ELSE FirstFailing(d3)
  BY <1>7, <1>10, FirstFailingJoin
<1> HIDE DEF d4
<1>12. (FirstFailing(d2) = "" <=> Passes(d2)) /\ (FirstFailing(d3) = "" <=> Passes(d3))
  BY <1>9, <1>10, FirstFailingPasses
<1>13. FirstFailing(d4) = FirstFailing(d3) BY <1>7, <1>11, <1>12
<1> QED BY <1>1, <1>2, <1>6, <1>10, <1>12, <1>13

\* The reasons that say something else than a verdict are not among those of VerifyIdentity, and
\* it says that no issuer is pinned only when none is.
LEMMA BeforeNamed ==
  ASSUME NEW a, NEW ps
  PROVE  /\ Before(a, ps) \notin {"subject_mismatch", "malformed_artifact"}
         /\ Before(a, ps) = "no_issuer_pinned" => ps = {}
<1> DEFINE Good(n) == n \notin {"subject_mismatch", "malformed_artifact"} /\ (n = "no_issuer_pinned" => ps = {})
<1> DEFINE c1 == FieldChecks(a)
<1> DEFINE c2 == << <<"inverted_window", a.from <= a.until>> >>
<1> DEFINE c3 == SignerChecks(a, ps, IdentitySigningBytes(a))
<1> DEFINE d1 == c1 \o c2
<1>1. Before(a, ps) = FirstFailing(d1 \o c3) BY DEF Before
<1>2. IsChecks(c1) BY FieldsAreChecks
<1>3. IsChecks(c2) /\ FirstFailing(c2) = IF a.from <= a.until THEN "" ELSE "inverted_window"
  <2> DEFINE w == <<"inverted_window", a.from <= a.until>>
  <2>1. "inverted_window" # "" /\ (a.from <= a.until) \in BOOLEAN OBVIOUS
  <2>2. IsCheck(w) /\ (Passed(w) <=> a.from <= a.until) /\ w[1] = "inverted_window" BY <2>1, CheckOf
  <2>3. c2 = <<w>> OBVIOUS
  <2> HIDE DEF w, c2
  <2> QED BY <2>2, <2>3, ChecksOf, FirstOfTwo
<1>4. IsChecks(c3) BY SignerPasses
<1>5. Good(FirstFailing(c1))
  <2>1. CASE Passes(c1) BY <1>2, <2>1, FirstFailingPasses
  <2>2. CASE ~Passes(c1)
    <3>1. PICK i \in 1..Len(c1) : FirstFailing(c1) = c1[i][1] BY <1>2, <2>2, FirstFailingAt
    <3>2. DOMAIN c1 = 1..9 BY DEF FieldChecks, FieldOrder
    <3>3. i \in 1..9 BY <1>2, <3>1, <3>2, SeqFacts DEF IsChecks
    <3>4. c1[i][1] = FieldOrder[i]
      <4>1. DOMAIN FieldOrder = 1..9 BY DEF FieldOrder
      <4> QED BY <3>3, <4>1 DEF FieldChecks
    <3>5. i = 1 \/ i = 2 \/ i = 3 \/ i = 4 \/ i = 5 \/ i = 6 \/ i = 7 \/ i = 8 \/ i = 9 BY <3>3
    <3>6. /\ FieldOrder[1] = "version" /\ FieldOrder[2] = "algorithm" /\ FieldOrder[3] = "serial"
          /\ FieldOrder[4] = "subject" /\ FieldOrder[5] = "principal" /\ FieldOrder[6] = "type"
          /\ FieldOrder[7] = "roles" /\ FieldOrder[8] = "issuer" /\ FieldOrder[9] = "time" BY DEF FieldOrder
    <3> HIDE DEF c1
    <3> QED BY <3>1, <3>4, <3>5, <3>6
  <2> QED BY <2>1, <2>2
<1>6. Good(FirstFailing(c3))
  <2>1. CASE Passes(c3) BY <1>4, <2>1, FirstFailingPasses
  <2>2. CASE ~Passes(c3)
    <3>1. PICK i \in 1..Len(c3) : FirstFailing(c3) = c3[i][1] /\ ~Passed(c3[i]) BY <1>4, <2>2, FirstFailingAt
    <3> DEFINE w == worst(a, ps, IdentitySigningBytes(a))
    <3> DEFINE v == VerifiedBy(a, ps, IdentitySigningBytes(a)) # {}
    <3> DEFINE x == <<"issuer_did_not_sign", a.issuer \in DOMAIN a.sigs>>
    <3> DEFINE y == <<"no_issuer_pinned", ps # {}>>
    <3> DEFINE z == <<w, v>>
    <3>2. c3 = <<x, y, z>> BY DEF SignerChecks
    <3>3. x[1] = "issuer_did_not_sign" /\ y[1] = "no_issuer_pinned" /\ y[2] = (ps # {}) /\ z[1] = w OBVIOUS
    <3>4. w \in {"no_pinned_issuer_verified", "signature_malformed", "signer_key_malformed", "signer_key_mismatch", "signature_invalid"}
      BY WorstIs
    <3> HIDE DEF c3, x, y, z, w
    <3>5. Len(c3) = 3 /\ c3[1] = x /\ c3[2] = y /\ c3[3] = z BY <3>2, ListsOf
    <3>6. i = 1 \/ i = 2 \/ i = 3 BY <3>1, <3>5
    <3> QED BY <3>1, <3>3, <3>4, <3>5, <3>6 DEF Passed
  <2> QED BY <2>1, <2>2
<1> HIDE DEF c1, c2, c3
<1>7. Good(FirstFailing(d1))
  <2>1. FirstFailing(d1) = IF Passes(c1) THEN FirstFailing(c2) ELSE FirstFailing(c1) BY <1>2, <1>3, FirstFailingJoin
  <2> HIDE DEF d1
  <2> QED BY <1>3, <1>5, <2>1
<1>8. IsChecks(d1) BY <1>2, <1>3, ChecksJoin
<1> HIDE DEF d1
<1>9. FirstFailing(d1 \o c3) = IF Passes(d1) THEN FirstFailing(c3) ELSE FirstFailing(d1) BY <1>4, <1>8, FirstFailingJoin
<1> QED BY <1>1, <1>6, <1>7, <1>9

\* What a row shows, with the pinned keys it was decided from.
Shown(ps, fpr, carried, at) ==
  IF carried = <<>> THEN Display("asserted", "", "")
  ELSE IF "parse" \in carried[1].faults THEN Display("carried", "", "malformed_artifact")
  ELSE IdentityDisplayFor(fpr, carried[1], ps # {}, IF ps = {} THEN "" ELSE VerifyIdentity(carried[1], ps, at, {}))

\* A credential in circulation: it has its fields, its window is in whole steps, and each of
\* its signatures was made by an issuer or is garbled.
IsCredential(a) ==
  a = [serial |-> a.serial, subject |-> a.subject, display |-> a.display, from |-> a.from, until |-> a.until,
       issuer |-> a.issuer, faults |-> a.faults, sigs |-> a.sigs, keys |-> a.keys]
Made(g, vs) == g = Issued(g.by, g.over) /\ (g.by = "garbled" \/ g \in vs)
Known(a, vs) ==
  /\ IsCredential(a) /\ a.from \in Nat /\ a.until \in Nat
  /\ DOMAIN a.sigs # {} /\ \A k \in DOMAIN a.sigs : Made(a.sigs[k], vs)

\* A display has its parts.
LEMMA DisplayParts ==
  ASSUME NEW st, NEW n, NEW re
  PROVE  /\ Display(st, n, re).state = st /\ Display(st, n, re).name = n /\ Display(st, n, re).reason = re
         /\ Verified(Display(st, n, re)) <=> st \in {"verified_named", "verified_unnamed"}
BY DEF Display, Verified

\* The mark of a verified credential is given for the right key, by a pinned issuer, or not at all.
LEMMA ShownVerified ==
  ASSUME NEW ps, NEW s, NEW c, NEW at, Verified(Shown(ps, s, c, at))
  PROVE  /\ c # <<>> /\ "parse" \notin c[1].faults /\ c[1].subject = s /\ ps # {}
         /\ VerifyIdentity(c[1], ps, at, {}) = ""
<1>1. ~Verified(Display("asserted", "", "")) /\ \A r : ~Verified(Display("carried", "", r)) BY DEF Verified, Display
<1> QED BY <1>1 DEF Shown, IdentityDisplayFor

\* A failed check is shown with its reason.
LEMMA ShownReason ==
  ASSUME NEW ps, NEW s, NEW c, NEW at, ~Verified(Shown(ps, s, c, at)), c # <<>>, "parse" \notin c[1].faults,
         c[1].subject = s, ps # {}
  PROVE  /\ Shown(ps, s, c, at) = Display("carried", "", VerifyIdentity(c[1], ps, at, {}))
         /\ VerifyIdentity(c[1], ps, at, {}) # ""
<1>1. /\ Verified(Display("verified_unnamed", "principal", ""))
      /\ \A r : Verified(Display("verified_named", r, "")) BY DEF Verified, Display
<1> QED BY <1>1 DEF Shown, IdentityDisplayFor

\* A key accepts a signature.
Accepts(x, k, bytes) == keyOutcome(x, k, bytes) = ""

\* A key that accepts a signature finds its own over the bytes, and that one was made.
LEMMA OutcomePasses ==
  ASSUME NEW x, NEW k, NEW bytes, Accepts(x, k, bytes)
  PROVE  x.sigs[k].by # "garbled" /\ x.sigs[k] = Issued(k, bytes)
<1> DEFINE p == <<"signer_key_malformed", x.keys[k] # "garbled">>
<1> DEFINE q == <<"signer_key_mismatch", x.keys[k] \in {k, "absent"}>>
<1> DEFINE r == <<"signature_malformed", x.sigs[k].by # "garbled">>
<1> DEFINE t == <<"signature_invalid", x.sigs[k] = Issued(k, bytes)>>
<1> DEFINE c == <<p, q, r, t>>
<1>1. FirstFailing(c) = "" BY DEF keyOutcome, Accepts
<1>2. IsCheck(p)
  <2>1. "signer_key_malformed" # "" /\ (x.keys[k] # "garbled") \in BOOLEAN OBVIOUS
  <2> QED BY <2>1, CheckOf
<1>3. IsCheck(q)
  <2>1. "signer_key_mismatch" # "" /\ (x.keys[k] \in {k, "absent"}) \in BOOLEAN OBVIOUS
  <2> QED BY <2>1, CheckOf
<1>4. IsCheck(r) /\ (Passed(r) <=> x.sigs[k].by # "garbled")
  <2>1. "signature_malformed" # "" /\ (x.sigs[k].by # "garbled") \in BOOLEAN OBVIOUS
  <2> QED BY <2>1, CheckOf
<1>5. IsCheck(t) /\ (Passed(t) <=> x.sigs[k] = Issued(k, bytes))
  <2>1. "signature_invalid" # "" /\ (x.sigs[k] = Issued(k, bytes)) \in BOOLEAN OBVIOUS
  <2> QED BY <2>1, CheckOf
<1> HIDE DEF p, q, r, t
<1>6. c \in Seq({p, q, r, t}) /\ Len(c) = 4 /\ c[1] = p /\ c[2] = q /\ c[3] = r /\ c[4] = t OBVIOUS
<1> HIDE DEF c
<1>7. IsSeq(c) BY <1>6, MakeSeq
<1>8. \A i \in 1..Len(c) : i = 1 \/ i = 2 \/ i = 3 \/ i = 4 BY <1>6
<1>9. IsChecks(c) BY <1>2, <1>3, <1>4, <1>5, <1>6, <1>7, <1>8 DEF IsChecks
<1>10. Passes(c) BY <1>1, <1>9, FirstFailingPasses
<1>11. 3 \in 1..Len(c) /\ 4 \in 1..Len(c) BY <1>6
<1> QED BY <1>4, <1>5, <1>6, <1>10, <1>11 DEF Passes

\* A verdict of valid rests on a signature that a pinned issuer made.
LEMMA ValidIsVouched ==
  ASSUME NEW a, NEW ps, NEW at, NEW vs, Known(a, vs), VerifyIdentity(a, ps, at, {}) = ""
  PROVE  /\ \E k \in ps : Issued(k, IdentitySigningBytes(a)) \in vs
         /\ a.from <= at /\ at <= a.until
<1> DEFINE bytes == IdentitySigningBytes(a)
<1>1. VerifiedBy(a, ps, bytes) # {} /\ a.from <= at /\ at <= a.until BY VerdictPasses
<1> HIDE DEF bytes
<1>2. PICK k \in ps : k \in DOMAIN a.sigs /\ Accepts(a, k, bytes) BY <1>1 DEF VerifiedBy, Named, Accepts
<1>3. a.sigs[k].by # "garbled" /\ a.sigs[k] = Issued(k, bytes) BY <1>2, OutcomePasses
<1>4. Made(a.sigs[k], vs) BY <1>2 DEF Known
<1>5. Issued(k, bytes) \in vs BY <1>3, <1>4 DEF Made
<1> QED BY <1>1, <1>5 DEF bytes

\* Until its next clock event a row would be decided as it was.
LEMMA ShownHolds ==
  ASSUME NEW ps, NEW s, NEW c, NEW t \in Nat, NEW u \in Nat, t <= u,
         c # <<>> => c[1].from \in Nat /\ c[1].until \in Nat,
         NEW e, e = nextClockEvent(Shown(ps, s, c, t), c), e = Never \/ ~(e <= u)
  PROVE  Shown(ps, s, c, u) = Shown(ps, s, c, t)
<1>1. CASE c = <<>> \/ "parse" \in c[1].faults BY <1>1 DEF Shown
<1>2. CASE c # <<>> /\ "parse" \notin c[1].faults /\ (ps = {} \/ c[1].subject # s) BY <1>2 DEF Shown, IdentityDisplayFor
<1>3. CASE c # <<>> /\ "parse" \notin c[1].faults /\ ps # {} /\ c[1].subject = s
  <2> DEFINE a == c[1]
  <2> DEFINE v(x) == VerifyIdentity(a, ps, x, {})
  <2> DEFINE b == Before(a, ps)
  <2>1. \A x : v(x) = IF b # "" THEN b
                      ELSE IF ~(a.from <= x) THEN "not_yet_valid" ELSE IF ~(x <= a.until) THEN "expired" ELSE ""
    BY VerdictOverTime
  <2>2. \A x : Shown(ps, s, c, x) = IdentityDisplayFor(s, a, TRUE, v(x)) BY <1>3 DEF Shown
  <2>3. a.from \in Nat /\ a.until \in Nat BY <1>3
  <2>4. v(u) = v(t)
    <3>1. CASE v(t) = ""
      <4>0. Shown(ps, s, c, t) = IdentityDisplayFor(s, a, TRUE, "") BY <2>2, <3>1, Zenon
      <4>1. Verified(Shown(ps, s, c, t))
        <5>1. \A n : Verified(Display("verified_named", n, "")) /\ Verified(Display("verified_unnamed", n, ""))
          BY DEF Display, Verified
        <5>2. a.subject = s BY <1>3
        <5> QED BY <4>0, <5>1, <5>2, Zenon DEF IdentityDisplayFor
      <4>2. e = a.until + 1 BY <4>1 DEF nextClockEvent
      <4> HIDE DEF v, b, a
      <4>3. b = "" /\ a.from <= t /\ t <= a.until BY <2>1, <3>1
      <4>4. u <= a.until BY <2>3, <4>2 DEF Never
      <4>5. a.from <= u
        <5>1. a.from <= t BY <4>3
        <5> QED BY <2>3, <5>1
      <4>6. v(u) = "" BY <2>1, <4>3, <4>4, <4>5
      <4> QED BY <3>1, <4>6
    <3>2. CASE v(t) # ""
      <4>1. Shown(ps, s, c, t) = Display("carried", "", v(t)) BY <1>3, <2>2, <3>2 DEF IdentityDisplayFor
      <4>2. ~Verified(Shown(ps, s, c, t)) /\ Shown(ps, s, c, t).reason = v(t) 
        <5>1. \A n : ~Verified(Display("carried", "", n)) /\ Display("carried", "", n).reason = n BY DEF Display, Verified
        <5> QED BY <4>1, <5>1, Zenon
      <4>3. v(t) = "not_yet_valid" => e = a.from BY <4>2 DEF nextClockEvent
      <4> HIDE DEF v, b, a
      <4>4. CASE b # "" BY <2>1, <4>4
      <4>5. CASE b = "" /\ ~(a.from <= t)
        <5>1. v(t) = "not_yet_valid" BY <2>1, <4>5
        <5>2. e = a.from /\ ~(a.from <= t) BY <4>3, <4>5, <5>1
        <5>3. ~(a.from <= u) BY <2>3, <5>2 DEF Never
        <5> QED BY <2>1, <4>5, <5>1, <5>3
      <4>6. CASE b = "" /\ a.from <= t
        <5>1. ~(t <= a.until) BY <2>1, <3>2, <4>6
        <5>2. a.from <= t BY <4>6
        <5>3. a.from <= u /\ ~(u <= a.until) BY <2>3, <5>1, <5>2
        <5> QED BY <2>1, <4>6, <5>1, <5>3
      <4> QED BY <4>4, <4>5, <4>6
    <3> QED BY <3>1, <3>2
  <2> HIDE DEF v
  <2> QED BY <2>2, <2>4
<1> QED BY <1>1, <1>2, <1>3

\* More statements vouched for take nothing away.
LEMMA KnownGrows ==
  ASSUME NEW a, NEW vs, NEW ws, vs \subseteq ws, Known(a, vs)
  PROVE  Known(a, ws)
BY DEF Known, Made

\* A new statement, signed by its issuer.
LEMMA IssuedKnown ==
  ASSUME NEW k \in Issuers, NEW s, NEW sn, NEW d, NEW f \in Nat, NEW u \in Nat, NEW a, NEW vs, NEW b,
         a = [serial |-> sn, subject |-> s, display |-> d, from |-> f, until |-> u, issuer |-> k, faults |-> {},
              sigs |-> Unsigned, keys |-> [x \in {} |-> ""]],
         b = SignWith(a, {k}, IdentitySigningBytes(a)), Issued(k, IdentitySigningBytes(a)) \in vs
  PROVE  Known(b, vs)
<1> DEFINE g == Issued(k, IdentitySigningBytes(a))
<1> DEFINE q == [x \in {k} |-> Issued(x, IdentitySigningBytes(a))]
<1>1. b = [a EXCEPT !.sigs = q, !.keys = [x \in Issuers |-> x]] BY DEF SignWith
<1>2. DOMAIN q = {k} /\ q[k] = g OBVIOUS
<1>3. g = Issued(g.by, g.over) BY DEF Issued
<1> HIDE DEF q, g
<1>4. IsCredential(b) /\ b.sigs = q /\ b.from = f /\ b.until = u BY <1>1 DEF IsCredential
<1> QED BY <1>2, <1>3, <1>4 DEF Known, Made, g

\* A second issuer's signature.
LEMMA CoSignedKnown ==
  ASSUME NEW a, NEW k, NEW vs, NEW b, Known(a, vs), Issued(k, IdentitySigningBytes(a)) \in vs,
         b = [a EXCEPT !.sigs = [x \in DOMAIN a.sigs \cup {k} |->
                                   IF x = k THEN Issued(k, IdentitySigningBytes(a)) ELSE a.sigs[x]]]
  PROVE  Known(b, vs)
<1> DEFINE g == Issued(k, IdentitySigningBytes(a))
<1> DEFINE q == [x \in DOMAIN a.sigs \cup {k} |-> IF x = k THEN g ELSE a.sigs[x]]
<1>1. b = [a EXCEPT !.sigs = q] OBVIOUS
<1>2. DOMAIN q = DOMAIN a.sigs \cup {k} /\ q[k] = g /\ \A x \in DOMAIN a.sigs : q[x] \in {g, a.sigs[x]} OBVIOUS
<1>3. g = Issued(g.by, g.over) BY DEF Issued
<1>4. Made(g, vs) BY <1>3 DEF Made, g
<1> HIDE DEF q, g
<1>5. IsCredential(b) /\ b.sigs = q /\ b.from = a.from /\ b.until = a.until BY <1>1 DEF IsCredential, Known
<1>6. \A x \in DOMAIN q : Made(q[x], vs) BY <1>2, <1>4 DEF Known
<1> QED BY <1>2, <1>5, <1>6 DEF Known

\* A copy altered in any one place is still a credential whose signatures were made.
LEMMA AlteredKnown ==
  ASSUME NEW a, NEW vs, Known(a, vs), NEW b \in Altered1(a)
  PROVE  Known(b, vs)
<1> USE IdentityAssumption
<1>1. CASE \E s \in Subjects : b = [a EXCEPT !.subject = s]
  <2>1. PICK s \in Subjects : b = [a EXCEPT !.subject = s] BY <1>1
  <2>2. IsCredential(b) /\ b.sigs = a.sigs /\ b.from = a.from /\ b.until = a.until BY <2>1 DEF IsCredential, Known
  <2> QED BY <2>2 DEF Known
<1>2. CASE b = [a EXCEPT !.until = MaxTime]
  <2>1. IsCredential(b) /\ b.sigs = a.sigs /\ b.from = a.from /\ b.until = MaxTime BY <1>2 DEF IsCredential, Known
  <2> QED BY <2>1 DEF Known
<1>3. CASE b = [a EXCEPT !.display = "Eve"]
  <2>1. IsCredential(b) /\ b.sigs = a.sigs /\ b.from = a.from /\ b.until = a.until BY <1>3 DEF IsCredential, Known
  <2> QED BY <2>1 DEF Known
<1>4. CASE \E f \in Faults : b = [a EXCEPT !.faults = {f}]
  <2>1. PICK f \in Faults : b = [a EXCEPT !.faults = {f}] BY <1>4
  <2>2. IsCredential(b) /\ b.sigs = a.sigs /\ b.from = a.from /\ b.until = a.until BY <2>1 DEF IsCredential, Known
  <2> QED BY <2>2 DEF Known
<1>5. CASE \E k \in DOMAIN a.sigs, v \in Issuers \cup {"garbled", "absent"} : b = [a EXCEPT !.keys[k] = v]
  <2>1. PICK k \in DOMAIN a.sigs, v \in Issuers \cup {"garbled", "absent"} : b = [a EXCEPT !.keys[k] = v] BY <1>5
  <2>2. IsCredential(b) /\ b.sigs = a.sigs /\ b.from = a.from /\ b.until = a.until BY <2>1 DEF IsCredential, Known
  <2> QED BY <2>2 DEF Known
<1>6. CASE \E k \in DOMAIN a.sigs : b = [a EXCEPT !.sigs[k].by = "garbled"]
  <2>1. PICK k \in DOMAIN a.sigs : b = [a EXCEPT !.sigs[k].by = "garbled"] BY <1>6
  <2> DEFINE g == [a.sigs[k] EXCEPT !.by = "garbled"]
  <2> DEFINE q == [a.sigs EXCEPT ![k] = g]
  <2>2. b = [a EXCEPT !.sigs = q] BY <2>1
  <2>3. DOMAIN q = DOMAIN a.sigs /\ \A x \in DOMAIN a.sigs : q[x] \in {g, a.sigs[x]} OBVIOUS
  <2>4. Made(a.sigs[k], vs) BY DEF Known
  <2>5. Made(g, vs) BY <2>4 DEF Made, Issued
  <2> HIDE DEF q, g
  <2>6. IsCredential(b) /\ b.sigs = q /\ b.from = a.from /\ b.until = a.until BY <2>2 DEF IsCredential, Known
  <2>7. \A x \in DOMAIN q : Made(q[x], vs) BY <2>3, <2>5 DEF Known
  <2> QED BY <2>3, <2>6, <2>7 DEF Known
<1>7. CASE \E k \in Issuers : b = [a EXCEPT !.sigs = [x \in {k} |-> a.sigs[CHOOSE y \in DOMAIN a.sigs : TRUE]]]
  <2>1. PICK k \in Issuers : b = [a EXCEPT !.sigs = [x \in {k} |-> a.sigs[CHOOSE y \in DOMAIN a.sigs : TRUE]]] BY <1>7
  <2> DEFINE y0 == CHOOSE y \in DOMAIN a.sigs : TRUE
  <2> DEFINE q == [x \in {k} |-> a.sigs[y0]]
  <2>2. b = [a EXCEPT !.sigs = q] BY <2>1
  <2>3. y0 \in DOMAIN a.sigs BY DEF Known
  <2>4. Made(a.sigs[y0], vs) BY <2>3 DEF Known
  <2>5. DOMAIN q = {k} /\ q[k] = a.sigs[y0] OBVIOUS
  <2> HIDE DEF q, y0
  <2>6. IsCredential(b) /\ b.sigs = q /\ b.from = a.from /\ b.until = a.until BY <2>2 DEF IsCredential, Known
  <2> QED BY <2>4, <2>5, <2>6 DEF Known
<1>8. \/ \E s \in Subjects : b = [a EXCEPT !.subject = s]
      \/ b = [a EXCEPT !.until = MaxTime] \/ b = [a EXCEPT !.display = "Eve"]
      \/ \E f \in Faults : b = [a EXCEPT !.faults = {f}]
      \/ \E k \in DOMAIN a.sigs, v \in Issuers \cup {"garbled", "absent"} : b = [a EXCEPT !.keys[k] = v]
      \/ \E k \in DOMAIN a.sigs : b = [a EXCEPT !.sigs[k].by = "garbled"]
      \/ \E k \in Issuers : b = [a EXCEPT !.sigs = [x \in {k} |-> a.sigs[CHOOSE y \in DOMAIN a.sigs : TRUE]]]
  <2> DEFINE S1 == {[a EXCEPT !.subject = s] : s \in Subjects}
  <2> DEFINE S2 == {[a EXCEPT !.until = MaxTime], [a EXCEPT !.display = "Eve"]}
  <2> DEFINE S3 == {[a EXCEPT !.faults = {f}] : f \in Faults}
  <2> DEFINE S4 == {[a EXCEPT !.keys[k] = v] : k \in DOMAIN a.sigs, v \in Issuers \cup {"garbled", "absent"}}
  <2> DEFINE S5 == {[a EXCEPT !.sigs[k].by = "garbled"] : k \in DOMAIN a.sigs}
  <2> DEFINE S6 == {[a EXCEPT !.sigs = [x \in {k} |-> a.sigs[CHOOSE y \in DOMAIN a.sigs : TRUE]]] : k \in Issuers}
  <2>0. Altered1(a) = S1 \cup S2 \cup S3 \cup S4 \cup S5 \cup S6 BY DEF Altered1
  <2>1. b \in S1 => \E s \in Subjects : b = [a EXCEPT !.subject = s] BY Zenon
  <2>2. b \in S2 => b = [a EXCEPT !.until = MaxTime] \/ b = [a EXCEPT !.display = "Eve"] BY Zenon
  <2>3. b \in S3 => \E f \in Faults : b = [a EXCEPT !.faults = {f}] BY Zenon
  <2>4. b \in S4 => \E k \in DOMAIN a.sigs, v \in Issuers \cup {"garbled", "absent"} : b = [a EXCEPT !.keys[k] = v] OBVIOUS
  <2>5. b \in S5 => \E k \in DOMAIN a.sigs : b = [a EXCEPT !.sigs[k].by = "garbled"] BY Zenon
  <2>6. b \in S6 => \E k \in Issuers : b = [a EXCEPT !.sigs = [x \in {k} |-> a.sigs[CHOOSE y \in DOMAIN a.sigs : TRUE]]] BY Zenon
  <2> HIDE DEF S1, S2, S3, S4, S5, S6
  <2> QED BY <2>0, <2>1, <2>2, <2>3, <2>4, <2>5, <2>6, Zenon
<1> QED BY <1>1, <1>2, <1>3, <1>4, <1>5, <1>6, <1>7, <1>8, Zenon

------------------------------------------------------------------------------
(* What a room shows of credentials.  A surface is decided once and shown later, while the *)
(* clock moves: the invariant keeps, for each row and line, the moment it was decided at. *)

\* A room with its credentials, rows and record lines.
RoomSpec == RoomInit /\ [][RoomNext]_roomVars

\* A row shows what was decided at some moment that is past, about a credential in circulation,
\* and will be looked at again when the clock changes that.
Decided(s, r, ps, n) == \E t \in 1..n : r.identity = Shown(ps, s, r.carried, t)
RowFits(s, r, ps, vs, n) ==
  /\ r.carried = <<>> \/ \E a : r.carried = <<a>> /\ Known(a, vs)
  /\ Decided(s, r, ps, n) /\ r.recheckAt = nextClockEvent(r.identity, r.carried)

\* A line that says it was checked shows what the check at that moment gave, one that says it
\* was not shows no mark.
LineFits(l, ps, vs) ==
  /\ Known(l.of, vs)
  /\ l.checkedAt # Never =>
       /\ ~l.replayed /\ ps # {} /\ "parse" \notin l.of.faults
       /\ l.display = Shown(ps, l.of.subject, <<l.of>>, l.checkedAt)
  /\ l.checkedAt = Never => ~Verified(l.display)
  /\ l.selfFiled => l.author = l.of.subject

\* The clock, and the moment of the last look at it.
ClockFits == now \in Nat \ {0} /\ checkedAt \in Nat /\ checkedAt <= now
Circulating == \A a \in artifacts : Known(a, vouched)
RowsFit == \A s \in DOMAIN rows : RowFits(s, rows[s], pins, vouched, now)
RowsCurrent == checkedAt = now => \A s \in DOMAIN rows : rows[s].identity = Shown(pins, s, rows[s].carried, now)
FiledFit == IsSeq(filed) /\ \A i \in 1..Len(filed) : Known(filed[i], vouched)
LinesFit == IsSeq(lines) /\ \A i \in 1..Len(lines) : LineFits(lines[i], pins, vouched)
\* The invariant behind NamesAreVouched.
VouchInv == ClockFits /\ Circulating /\ RowsFit /\ RowsCurrent /\ FiledFit /\ LinesFit

\* Time and further statements leave a row as it was decided.
LEMMA RowGrows ==
  ASSUME NEW s, NEW r, NEW ps, NEW vs, NEW ws, NEW n \in Nat, NEW m \in Nat, n <= m, vs \subseteq ws,
         RowFits(s, r, ps, vs, n)
  PROVE  RowFits(s, r, ps, ws, m)
<1>1. r.carried = <<>> \/ \E a : r.carried = <<a>> /\ Known(a, ws)
  <2>1. CASE r.carried = <<>> BY <2>1
  <2>2. CASE \E a : r.carried = <<a>> /\ Known(a, vs)
    <3>1. PICK a : r.carried = <<a>> /\ Known(a, vs) BY <2>2
    <3>2. Known(a, ws) BY <3>1, KnownGrows
    <3> QED BY <3>1, <3>2
  <2> QED BY <2>1, <2>2 DEF RowFits
<1>2. Decided(s, r, ps, m)
  <2>1. PICK t \in 1..n : r.identity = Shown(ps, s, r.carried, t) BY DEF RowFits, Decided
  <2>2. t \in 1..m OBVIOUS
  <2> QED BY <2>1, <2>2 DEF Decided
<1> QED BY <1>1, <1>2 DEF RowFits

\* The same of a line.
LEMMA LineGrows ==
  ASSUME NEW l, NEW ps, NEW vs, NEW ws, vs \subseteq ws, LineFits(l, ps, vs)
  PROVE  LineFits(l, ps, ws)
<1>1. Known(l.of, ws) BY KnownGrows DEF LineFits
<1> QED BY <1>1 DEF LineFits

\* A row decided now.
LEMMA RowDecided ==
  ASSUME VouchInv, NEW s, NEW c, c = <<>> \/ \E a : c = <<a>> /\ Known(a, vouched)
  PROVE  /\ RowFits(s, Row(s, c, now), pins, vouched, now)
         /\ Row(s, c, now).carried = c /\ Row(s, c, now).identity = Shown(pins, s, c, now)
<1> DEFINE d == attribute(s, c, now)
<1> DEFINE r == Row(s, c, now)
<1>1. d = Shown(pins, s, c, now) BY Zenon DEF attribute, Shown
<1>2. r.carried = c /\ r.identity = d /\ r.recheckAt = nextClockEvent(d, c) BY DEF Row
<1> HIDE DEF d, r
<1>3. now \in 1..now BY DEF VouchInv, ClockFits
<1>4. Decided(s, r, pins, now) BY <1>1, <1>2, <1>3 DEF Decided
<1>5. RowFits(s, r, pins, vouched, now) BY <1>2, <1>4 DEF RowFits
<1> QED BY <1>1, <1>2, <1>5 DEF r

\* A step that only makes credentials.
LEMMA VouchMakes ==
  ASSUME VouchInv, vouched \subseteq vouched', Circulating', UNCHANGED <<now, pins, rows, checkedAt, filed, lines>>
  PROVE  VouchInv'
<1>1. ClockFits' /\ RowsCurrent' BY DEF VouchInv, ClockFits, RowsCurrent
<1>2. RowsFit'
  <2>1. PICK v : v = vouched' OBVIOUS
  <2>2. vouched \subseteq v /\ now \in Nat /\ now <= now BY <2>1 DEF VouchInv, ClockFits
  <2>3. \A s \in DOMAIN rows : RowFits(s, rows[s], pins, v, now) BY <2>2, RowGrows DEF VouchInv, RowsFit
  <2> QED BY <2>1, <2>3 DEF RowsFit
<1>3. FiledFit' /\ LinesFit'
  <2>1. PICK v : v = vouched' OBVIOUS
  <2>2. vouched \subseteq v BY <2>1
  <2>3. \A i \in 1..Len(filed) : Known(filed[i], v) BY <2>2, KnownGrows DEF VouchInv, FiledFit
  <2>4. \A i \in 1..Len(lines) : LineFits(lines[i], pins, v) BY <2>2, LineGrows DEF VouchInv, LinesFit
  <2> QED BY <2>1, <2>3, <2>4 DEF FiledFit, LinesFit, VouchInv
<1> QED BY <1>1, <1>2, <1>3 DEF VouchInv

\* A step that only changes who is there.
LEMMA VouchRows ==
  ASSUME VouchInv, RowsFit', RowsCurrent', UNCHANGED <<now, pins, artifacts, vouched, filed, lines>>,
         checkedAt' \in {checkedAt, now}
  PROVE  VouchInv'
<1>1. ClockFits' BY DEF VouchInv, ClockFits
<1>2. Circulating' /\ FiledFit' /\ LinesFit' BY DEF VouchInv, Circulating, FiledFit, LinesFit
<1> QED BY <1>1, <1>2 DEF VouchInv

\* Every step of the credentials and rows.
LEMMA VouchIdentity ==
  ASSUME VouchInv, IdentityNext, UNCHANGED viewVars
  PROVE  VouchInv'
<1> USE IdentityAssumption
<1>0. lines' = lines BY DEF viewVars
<1>c. now \in Nat \ {0} /\ checkedAt \in Nat /\ checkedAt <= now BY DEF VouchInv, ClockFits
<1>1. ASSUME NEW k \in Issuers, NEW s \in Subjects, NEW sn \in Serials, NEW d \in Displays, NEW l \in Lifetimes,
             NEW w \in Skews, Issue(k, s, sn, d, l, w)
      PROVE  VouchInv'
  <2> DEFINE a == [serial |-> sn, subject |-> s, display |-> d, from |-> now + w, until |-> now + w + l, issuer |-> k,
                   faults |-> {}, sigs |-> Unsigned, keys |-> [x \in {} |-> ""]]
  <2> DEFINE g == Issued(k, IdentitySigningBytes(a))
  <2> DEFINE b == SignWith(a, {k}, IdentitySigningBytes(a))
  <2>1. artifacts' = artifacts \cup {b} /\ vouched' = vouched \cup {Issued(x, IdentitySigningBytes(a)) : x \in {k}}
        /\ UNCHANGED <<now, pins, rows, checkedAt, filed>>
    BY <1>1, Zenon DEF Issue, Vouch
  <2>2. vouched' = vouched \cup {g} BY <2>1
  <2>3. PICK v : v = vouched' OBVIOUS
  <2>4. now + w \in Nat /\ now + w + l \in Nat BY <1>c
  <2>5. Known(b, v)
    <3>1. PICK f \in Nat, u \in Nat : f = now + w /\ u = now + w + l BY <2>4
    <3>2. PICK y : y = [serial |-> sn, subject |-> s, display |-> d, from |-> f, until |-> u, issuer |-> k,
                        faults |-> {}, sigs |-> Unsigned, keys |-> [x \in {} |-> ""]] OBVIOUS
    <3>3. y = a BY <3>1, <3>2
    <3>4. PICK z : z = SignWith(y, {k}, IdentitySigningBytes(y)) OBVIOUS
    <3>5. Issued(k, IdentitySigningBytes(y)) \in v BY <2>2, <2>3, <3>3
    <3> HIDE DEF a, g
    <3>6. Known(z, v) BY <3>2, <3>4, <3>5, IssuedKnown
    <3> QED BY <3>3, <3>4, <3>6
  <2> HIDE DEF a, b, g
  <2>6. vouched \subseteq v BY <2>2, <2>3
  <2>7. \A x \in artifacts : Known(x, v) BY <2>6, KnownGrows DEF VouchInv, Circulating
  <2>8. Circulating' BY <2>1, <2>3, <2>5, <2>7 DEF Circulating
  <2> QED BY <1>0, <2>1, <2>3, <2>6, <2>8, VouchMakes
<1>2. ASSUME NEW k \in Issuers, NEW sn, Revoke(k, {sn}) PROVE VouchInv'
  <2>1. PICK S : vouched' = vouched \cup S BY <1>2 DEF Revoke, Vouch
  <2>2. UNCHANGED <<now, pins, artifacts, rows, checkedAt, filed>> BY <1>2 DEF Revoke
  <2>3. PICK v : v = vouched' OBVIOUS
  <2>4. vouched \subseteq v BY <2>1, <2>3
  <2>5. \A x \in artifacts : Known(x, v) BY <2>4, KnownGrows DEF VouchInv, Circulating
  <2>6. Circulating' BY <2>2, <2>3, <2>5 DEF Circulating
  <2> QED BY <1>0, <2>2, <2>3, <2>4, <2>6, VouchMakes
<1>3. ASSUME NEW a \in artifacts, DamageCopy(a) PROVE VouchInv'
  <2>1. PICK b \in Altered1(a) : artifacts' = artifacts \cup {b} BY <1>3 DEF DamageCopy
  <2>2. UNCHANGED <<now, pins, vouched, rows, checkedAt, filed>> BY <1>3 DEF DamageCopy
  <2>3. Known(a, vouched) BY DEF VouchInv, Circulating
  <2>4. Known(b, vouched) BY <2>3, AlteredKnown
  <2>5. Circulating' BY <2>1, <2>2, <2>4 DEF VouchInv, Circulating
  <2> QED BY <1>0, <2>2, <2>5, VouchMakes
<1>4. ASSUME NEW a \in artifacts, AppendIdentity(a) PROVE VouchInv'
  <2>1. filed' = Append(filed, a) /\ UNCHANGED <<now, pins, artifacts, rows, checkedAt, vouched>> BY <1>4 DEF AppendIdentity
  <2>2. Known(a, vouched) BY DEF VouchInv, Circulating
  <2>3. IsSeq(filed) /\ \A i \in 1..Len(filed) : Known(filed[i], vouched) BY DEF VouchInv, FiledFit
  <2>4. PICK f : f = Append(filed, a) OBVIOUS
  <2>5. /\ IsSeq(f) /\ Len(f) = Len(filed) + 1 /\ Len(filed) \in Nat
        /\ (\A i \in 1..Len(filed) : f[i] = filed[i]) /\ f[Len(filed) + 1] = a
    BY <2>3, <2>4, AppendFacts, SeqFacts
  <2>6. \A i \in 1..Len(f) : i \in 1..Len(filed) \/ i = Len(filed) + 1 BY <2>5
  <2>7. \A i \in 1..Len(f) : Known(f[i], vouched) BY <2>2, <2>3, <2>5, <2>6
  <2>8. FiledFit' BY <2>1, <2>4, <2>5, <2>7 DEF FiledFit
  <2>9. ClockFits' /\ Circulating' /\ RowsFit' /\ RowsCurrent' /\ LinesFit'
    BY <1>0, <2>1 DEF VouchInv, ClockFits, Circulating, RowsFit, RowsCurrent, LinesFit
  <2> QED BY <2>8, <2>9 DEF VouchInv
<1>5. ASSUME NEW a \in artifacts, NEW k \in Issuers, CoSign(a, k) PROVE VouchInv'
  <2> DEFINE g == Issued(k, IdentitySigningBytes(a))
  <2> DEFINE b == [a EXCEPT !.sigs = [x \in DOMAIN a.sigs \cup {k} |-> IF x = k THEN g ELSE a.sigs[x]]]
  <2>1. /\ artifacts' = (artifacts \ {a}) \cup {b}
        /\ vouched' = vouched \cup {Issued(x, IdentitySigningBytes(a)) : x \in {k}}
        /\ UNCHANGED <<now, pins, rows, checkedAt, filed>>
    BY <1>5, Zenon DEF CoSign, Vouch
  <2>2. vouched' = vouched \cup {g} BY <2>1
  <2>3. PICK v : v = vouched' OBVIOUS
  <2>4. vouched \subseteq v BY <2>2, <2>3
  <2>5. \A x \in artifacts : Known(x, v) BY <2>4, KnownGrows DEF VouchInv, Circulating
  <2>6. Known(a, v) /\ g \in v BY <2>2, <2>3, <2>5
  <2>7. Known(b, v) BY <2>6, CoSignedKnown
  <2> HIDE DEF b, g
  <2>8. Circulating' BY <2>1, <2>3, <2>5, <2>7 DEF Circulating
  <2> QED BY <1>0, <2>1, <2>3, <2>4, <2>8, VouchMakes
<1>6. ASSUME NEW s, Departs(s) PROVE VouchInv'
  <2>1. rows' = [x \in DOMAIN rows \ {s} |-> rows[x]] /\ UNCHANGED <<now, pins, artifacts, checkedAt, filed, vouched>>
    BY <1>6 DEF Departs
  <2>2. DOMAIN rows' \subseteq DOMAIN rows /\ \A x \in DOMAIN rows' : rows'[x] = rows[x] BY <2>1
  <2>3. RowsFit' /\ RowsCurrent' BY <2>1, <2>2 DEF VouchInv, RowsFit, RowsCurrent
  <2> QED BY <1>0, <2>1, <2>3, VouchRows
<1>7. ASSUME NEW s, NEW c \in {<<>>} \cup {<<a>> : a \in artifacts}, Admit(s, c) PROVE VouchInv'
  <2> DEFINE r == Row(s, c, now)
  <2>1. /\ rows' = [x \in DOMAIN rows \cup {s} |-> IF x = s THEN r ELSE rows[x]]
        /\ UNCHANGED <<now, pins, artifacts, checkedAt, filed, vouched>>
    BY <1>7 DEF Admit
  <2>2. c = <<>> \/ \E a : c = <<a>> /\ Known(a, vouched) BY DEF VouchInv, Circulating
  <2>3. RowFits(s, r, pins, vouched, now) /\ r.carried = c /\ r.identity = Shown(pins, s, c, now) BY <2>2, RowDecided
  <2> HIDE DEF r
  <2>4. /\ DOMAIN rows' = DOMAIN rows \cup {s} /\ rows'[s] = r
        /\ \A x \in DOMAIN rows' : x # s => x \in DOMAIN rows /\ rows'[x] = rows[x] BY <2>1
  <2>5. RowsFit' BY <2>1, <2>3, <2>4 DEF VouchInv, RowsFit
  <2>6. RowsCurrent' BY <2>1, <2>3, <2>4 DEF VouchInv, RowsCurrent
  <2> QED BY <1>0, <2>1, <2>5, <2>6, VouchRows
<1>8. CASE Tick
  <2>1. now' = now + 1 /\ UNCHANGED <<pins, artifacts, rows, checkedAt, filed, vouched>> BY <1>8 DEF Tick
  <2>2. PICK n : n = now' OBVIOUS
  <2>3. n \in Nat /\ n = now + 1 /\ now <= n BY <1>c, <2>1, <2>2
  <2>4. \A s \in DOMAIN rows : RowFits(s, rows[s], pins, vouched, n) BY <1>c, <2>3, RowGrows DEF VouchInv, RowsFit
  <2>5. RowsFit' BY <2>1, <2>2, <2>4 DEF RowsFit
  <2>6. ClockFits' BY <1>c, <2>1, <2>2, <2>3 DEF ClockFits
  <2>7. RowsCurrent'
    <3>1. checkedAt # n BY <1>c, <2>3
    <3> QED BY <2>1, <2>2, <3>1 DEF RowsCurrent
  <2>8. Circulating' /\ FiledFit' /\ LinesFit' BY <1>0, <2>1 DEF VouchInv, Circulating, FiledFit, LinesFit
  <2> QED BY <2>5, <2>6, <2>7, <2>8 DEF VouchInv
<1>9. CASE recheckIdentities
  <2>1. /\ rows' = [x \in DOMAIN rows |-> IF due(rows[x]) THEN Row(x, rows[x].carried, now) ELSE rows[x]]
        /\ checkedAt' = now /\ UNCHANGED <<now, pins, artifacts, filed, vouched>>
    BY <1>9 DEF recheckIdentities
  <2>2. DOMAIN rows' = DOMAIN rows BY <2>1
  <2>3. ASSUME NEW s \in DOMAIN rows
        PROVE  /\ RowFits(s, rows'[s], pins, vouched, now)
               /\ rows'[s].identity = Shown(pins, s, rows'[s].carried, now)
    <3> DEFINE r == rows[s]
    <3>1. RowFits(s, r, pins, vouched, now) BY DEF VouchInv, RowsFit
    <3>2. r.carried = <<>> \/ \E a : r.carried = <<a>> /\ Known(a, vouched) BY <3>1 DEF RowFits
    <3>3. CASE due(r)
      <4>1. rows'[s] = Row(s, r.carried, now) BY <2>1, <3>3
      <4>2. PICK c : c = r.carried OBVIOUS
      <4>3. c = <<>> \/ \E a : c = <<a>> /\ Known(a, vouched) BY <3>2, <4>2
      <4> HIDE DEF r
      <4>4. PICK q : q = Row(s, c, now) OBVIOUS
      <4>5. RowFits(s, q, pins, vouched, now) /\ q.carried = c /\ q.identity = Shown(pins, s, c, now)
        BY <4>3, <4>4, RowDecided
      <4>6. rows'[s] = q BY <4>1, <4>2, <4>4
      <4> QED BY <4>5, <4>6
    <3>4. CASE ~due(r)
      <4>1. rows'[s] = r BY <2>1, <3>4
      <4>2. PICK t \in 1..now : r.identity = Shown(pins, s, r.carried, t) BY <3>1 DEF RowFits, Decided
      <4>3. r.recheckAt = Never \/ ~(r.recheckAt <= now) BY <3>4 DEF due
      <4>4. r.recheckAt = nextClockEvent(r.identity, r.carried) BY <3>1 DEF RowFits
      <4>5. r.carried # <<>> => r.carried[1].from \in Nat /\ r.carried[1].until \in Nat BY <3>2 DEF Known
      <4> HIDE DEF r
      <4>6. PICK e : e = r.recheckAt OBVIOUS
      <4>7. PICK u \in Nat : u = now BY <1>c
      <4>8. PICK t0 \in Nat : t0 = t /\ t0 <= u BY <1>c, <4>2, <4>7
      <4>9. e = nextClockEvent(Shown(pins, s, r.carried, t0), r.carried) /\ (e = Never \/ ~(e <= u))
        BY <4>2, <4>3, <4>4, <4>6, <4>7, <4>8
      <4>10. Shown(pins, s, r.carried, u) = Shown(pins, s, r.carried, t0) BY <4>5, <4>8, <4>9, ShownHolds
      <4>11. r.identity = Shown(pins, s, r.carried, now) BY <4>2, <4>7, <4>8, <4>10
      <4> QED BY <3>1, <4>1, <4>11
    <3> QED BY <3>3, <3>4
  <2>4. RowsFit' /\ RowsCurrent' BY <2>1, <2>2, <2>3 DEF RowsFit, RowsCurrent
  <2> QED BY <1>0, <2>1, <2>4, VouchRows
<1> QED BY <1>1, <1>2, <1>3, <1>4, <1>5, <1>6, <1>7, <1>8, <1>9 DEF IdentityNext

\* A display of a credential nobody checked has no mark.
LEMMA UncheckedShown ==
  ASSUME NEW s, NEW a
  PROVE  ~Verified(IdentityDisplayFor(s, a, FALSE, ""))
<1>1. \A r : ~Verified(Display("carried", "", r)) BY DEF Verified, Display
<1> QED BY <1>1, Zenon DEF IdentityDisplayFor

\* A line as it lands.
LEMMA LineDecided ==
  ASSUME VouchInv, NEW a \in artifacts, NEW author, NEW replayed \in BOOLEAN, NEW l,
         l = decideRecordIdentity(author, a, replayed, now)
  PROVE  LineFits(l, pins, vouched)
<1>1. Known(a, vouched) BY DEF VouchInv, Circulating
<1>2. now # Never BY DEF VouchInv, ClockFits, Never
<1>3. CASE "parse" \in a.faults
  <2> DEFINE d == Display("carried", "", "malformed_artifact")
  <2>1. /\ l.of = a /\ l.checkedAt = Never /\ l.selfFiled = FALSE /\ l.display = d BY <1>3 DEF decideRecordIdentity
  <2>2. ~Verified(d) BY DEF Verified, Display
  <2> HIDE DEF d
  <2> QED BY <1>1, <2>1, <2>2 DEF LineFits
<1>4. CASE "parse" \notin a.faults
  <2>1. /\ l.of = a /\ l.author = author /\ l.replayed = replayed /\ l.selfFiled = (a.subject = author)
        /\ l.checkedAt = IF replayed \/ pins = {} THEN Never ELSE now
        /\ l.display = IF replayed THEN IdentityDisplayFor(a.subject, a, FALSE, "") ELSE attribute(a.subject, <<a>>, now)
    BY <1>4 DEF decideRecordIdentity
  <2>2. attribute(a.subject, <<a>>, now) = Shown(pins, a.subject, <<a>>, now) BY Zenon DEF attribute, Shown
  <2>3. CASE replayed
    <3>1. l.checkedAt = Never /\ l.display = IdentityDisplayFor(a.subject, a, FALSE, "") BY <2>1, <2>3, Zenon
    <3>2. ~Verified(l.display) BY <3>1, UncheckedShown, Zenon
    <3> QED BY <1>1, <2>1, <3>1, <3>2, Zenon DEF LineFits
  <2>4. CASE ~replayed /\ pins = {}
    <3>1. l.checkedAt = Never /\ l.display = Shown(pins, a.subject, <<a>>, now) BY <2>1, <2>2, <2>4, Zenon
    <3>2. ~Verified(l.display)
      <4>1. Verified(Shown(pins, a.subject, <<a>>, now)) => pins # {} BY ShownVerified
      <4> QED BY <2>4, <3>1, <4>1, Zenon
    <3> QED BY <1>1, <2>1, <3>1, <3>2, Zenon DEF LineFits
  <2>5. CASE ~replayed /\ pins # {}
    <3>1. l.checkedAt = now /\ l.display = Shown(pins, a.subject, <<a>>, now) /\ ~l.replayed
      BY <2>1, <2>2, <2>5, Zenon
    <3> QED BY <1>1, <1>2, <1>4, <2>1, <2>5, <3>1, Zenon DEF LineFits
  <2> QED BY <2>3, <2>4, <2>5, Zenon
<1> QED BY <1>3, <1>4

\* Every step of a room.
LEMMA VouchStep ==
  ASSUME VouchInv, RoomNext
  PROVE  VouchInv'
<1>1. ASSUME NEW a \in artifacts, NEW author, NEW replayed \in BOOLEAN, appendRecordLine(author, a, replayed)
      PROVE  VouchInv'
  <2>1. PICK l : l = decideRecordIdentity(author, a, replayed, now) OBVIOUS
  <2>2. lines' = Append(lines, l) /\ UNCHANGED identityVars BY <1>1, <2>1 DEF appendRecordLine
  <2>3. LineFits(l, pins, vouched) BY <2>1, LineDecided
  <2>4. IsSeq(lines) /\ \A i \in 1..Len(lines) : LineFits(lines[i], pins, vouched) BY DEF VouchInv, LinesFit
  <2>5. PICK f : f = Append(lines, l) OBVIOUS
  <2>6. /\ IsSeq(f) /\ Len(f) = Len(lines) + 1 /\ Len(lines) \in Nat
        /\ (\A i \in 1..Len(lines) : f[i] = lines[i]) /\ f[Len(lines) + 1] = l
    BY <2>4, <2>5, AppendFacts, SeqFacts
  <2>7. \A i \in 1..Len(f) : i \in 1..Len(lines) \/ i = Len(lines) + 1 BY <2>6
  <2>8. \A i \in 1..Len(f) : LineFits(f[i], pins, vouched) BY <2>3, <2>4, <2>6, <2>7
  <2>9. UNCHANGED <<now, pins, artifacts, rows, checkedAt, filed, vouched>> BY <2>2 DEF identityVars
  <2>10. LinesFit' BY <2>2, <2>5, <2>6, <2>8, <2>9 DEF LinesFit
  <2>11. ClockFits' /\ Circulating' /\ RowsFit' /\ RowsCurrent' /\ FiledFit'
    BY <2>9 DEF VouchInv, ClockFits, Circulating, RowsFit, RowsCurrent, FiledFit
  <2> QED BY <2>10, <2>11 DEF VouchInv
<1>2. ASSUME NEW s, markVerified(s) PROVE VouchInv'
  <2>1. UNCHANGED <<now, pins, artifacts, rows, checkedAt, filed, vouched, lines>> BY <1>2 DEF markVerified, identityVars
  <2> QED BY <2>1 DEF VouchInv, ClockFits, Circulating, RowsFit, RowsCurrent, FiledFit, LinesFit
<1>3. CASE IdentityNext /\ UNCHANGED viewVars BY <1>3, VouchIdentity
<1> QED BY <1>1, <1>2, <1>3 DEF RoomNext

\* A room begins with it.
LEMMA VouchStart ==
  ASSUME RoomInit
  PROVE  VouchInv
<1>1. now = 1 /\ checkedAt = 0 /\ artifacts = {} /\ DOMAIN rows = {} /\ filed = <<>> /\ lines = <<>>
  BY DEF RoomInit, IdentityInit, Never
<1>2. IsSeq(<<>>) /\ Len(<<>>) = 0
  <2>1. <<>> \in Seq({}) OBVIOUS
  <2> QED BY <2>1, MakeSeq
<1> QED BY <1>1, <1>2 DEF VouchInv, ClockFits, Circulating, RowsFit, RowsCurrent, FiledFit, LinesFit

\* What a row's mark rests on.
LEMMA MarksVouched ==
  ASSUME VouchInv
  PROVE  MarkIsEarned /\ RecheckExact
<1>1. \A s, c, t : attribute(s, c, t) = Shown(pins, s, c, t) BY Zenon DEF attribute, Shown
<1>2. RecheckExact BY <1>1 DEF VouchInv, RowsCurrent, RecheckExact
<1>3. ASSUME NEW s \in DOMAIN rows, Verified(rows[s].identity)
      PROVE  LET a == rows[s].carried[1]
             IN /\ a.subject = s /\ \E k \in pins : Issued(k, IdentitySigningBytes(a)) \in vouched
                /\ checkedAt = now => Backed(a, pins, now)
  <2>1. PICK c : c = rows[s].carried OBVIOUS
  <2>2. RowFits(s, rows[s], pins, vouched, now) BY DEF VouchInv, RowsFit
  <2>3. PICK t \in 1..now : rows[s].identity = Shown(pins, s, c, t) BY <2>1, <2>2 DEF RowFits, Decided
  <2>4. /\ c # <<>> /\ c[1].subject = s /\ VerifyIdentity(c[1], pins, t, {}) = ""
    <3>1. Verified(Shown(pins, s, c, t)) BY <1>3, <2>3
    <3> QED BY <3>1, ShownVerified
  <2>5. PICK a : c = <<a>> /\ Known(a, vouched) BY <2>1, <2>2, <2>4 DEF RowFits
  <2>6. c[1] = a BY <2>5
  <2>7. \E k \in pins : Issued(k, IdentitySigningBytes(a)) \in vouched BY <2>4, <2>5, <2>6, ValidIsVouched
  <2>8. ASSUME checkedAt = now PROVE Backed(a, pins, now)
    <3>1. rows[s].identity = Shown(pins, s, c, now) BY <2>1, <2>8 DEF VouchInv, RowsCurrent
    <3>2. Verified(Shown(pins, s, c, now)) BY <1>3, <3>1
    <3>3. VerifyIdentity(c[1], pins, now, {}) = "" BY <3>2, ShownVerified
    <3>4. a.from <= now /\ now <= a.until BY <2>5, <2>6, <3>3, ValidIsVouched
    <3> QED BY <2>7, <3>4 DEF Backed
  <2> QED BY <2>1, <2>4, <2>6, <2>7, <2>8
<1> QED BY <1>2, <1>3 DEF MarkIsEarned

\* An entry of the record that verifies.
Binds(i, ps, at) == EntryReason(filed[i], ps, at) = ""

\* Of the entries that bind a key the first is surfaced.
LEMMA FirstBinding ==
  ASSUME NEW i \in DOMAIN filed, IsSeq(filed), NEW ps, NEW at, Binds(i, ps, at)
  PROVE  \E j \in Bindings(ps, at) : BindingKey(filed[j]) = BindingKey(filed[i])
<1> DEFINE ok(j) == Binds(j, ps, at)
<1> DEFINE S == {j \in DOMAIN filed : ok(j) /\ BindingKey(filed[j]) = BindingKey(filed[i])}
<1> DEFINE R == OpToRel(<, Nat)
<1>1. DOMAIN filed = 1..Len(filed) /\ Len(filed) \in Nat BY SeqFacts, Zenon
<1>2. IsWellFoundedOn(R, Nat) BY NatLessThanWellFounded, Zenon
<1>3. S \subseteq Nat
  <2>1. 1..Len(filed) \subseteq Nat BY <1>1
  <2> QED BY <1>1, <2>1, Zenon
<1>4. i \in S BY Zenon
<1>5. PICK m \in S : \A y \in S : ~(<<y, m>> \in R)
  <2> HIDE DEF R, S
  <2> QED BY <1>2, <1>3, <1>4, WFMin
<1>6. \A j \in 1..(m - 1) : ok(j) => BindingKey(filed[j]) # BindingKey(filed[m])
  <2> SUFFICES ASSUME NEW j \in 1..(m - 1), ok(j), BindingKey(filed[j]) = BindingKey(filed[m]) PROVE FALSE BY Zenon
  <2>1. m \in DOMAIN filed /\ BindingKey(filed[m]) = BindingKey(filed[i]) BY Zenon
  <2> HIDE DEF ok
  <2>2. j \in DOMAIN filed /\ j \in Nat /\ m \in Nat /\ j < m
    <3> HIDE DEF S
    <3>1. m \in 1..Len(filed) BY <1>1, <2>1, Zenon
    <3>2. j \in 1..Len(filed) /\ j \in Nat /\ m \in Nat /\ j < m BY <1>1, <3>1
    <3> QED BY <1>1, <3>2
  <2>3. j \in S BY <2>1, <2>2
  <2>4. <<j, m>> \in R BY <2>2 DEF OpToRel
  <2> QED BY <1>5, <2>3, <2>4
<1>7. m \in DOMAIN filed /\ ok(m) /\ BindingKey(filed[m]) = BindingKey(filed[i]) BY <1>5, Zenon
<1>8. m \in Bindings(ps, at) BY <1>6, <1>7, Zenon DEF Bindings, Binds
<1> QED BY <1>7, <1>8, Zenon

\* What a binding rests on.
LEMMA BindingsVouched ==
  ASSUME VouchInv
  PROVE  BindingIsSigned
<1>0. DOMAIN filed = 1..Len(filed) /\ IsSeq(filed) BY SeqFacts DEF VouchInv, FiledFit
<1>1. \A n : /\ Verified(Display("verified_named", n, "")) /\ Verified(Display("verified_unnamed", n, ""))
             /\ ~Verified(Display("carried", "", n)) /\ Display("verified_named", n, "").name = n
             /\ Display("verified_unnamed", n, "").name = n
  BY DEF Verified, Display
<1>2. ASSUME NEW a PROVE /\ Verified(IdentityDisplayFor(a.subject, a, TRUE, ""))
                         /\ IdentityDisplayFor(a.subject, a, TRUE, "").name \in {a.display, "principal"}
  BY <1>1, Zenon DEF IdentityDisplayFor
<1>4. ASSUME NEW i \in DOMAIN filed, i \in Bindings(pins, now) PROVE Backed(filed[i], pins, now) /\ pins # {} /\ EntryReason(filed[i], pins, now) = ""
  <2>1. EntryReason(filed[i], pins, now) = "" BY <1>4 DEF Bindings
  <2>2. VerifyIdentity(filed[i], pins, now, {}) = "" BY <2>1, Zenon DEF EntryReason
  <2>3. Known(filed[i], vouched) BY <1>0 DEF VouchInv, FiledFit
  <2>4. (\E k \in pins : Issued(k, IdentitySigningBytes(filed[i])) \in vouched) /\ filed[i].from <= now /\ now <= filed[i].until
    BY <2>2, <2>3, ValidIsVouched
  <2> QED BY <2>1, <2>4 DEF Backed
<1>5. ASSUME NEW i \in DOMAIN filed
      PROVE  LET d == IdentityDisplayForEntry(i, pins, now)
             IN /\ i \in Bindings(pins, now) => Backed(filed[i], pins, now) /\ Verified(d)
                /\ Verified(d) => \E j \in Bindings(pins, now) :
                     /\ filed[j].subject = filed[i].subject
                     /\ d.name \in {filed[j].display, "principal"}
  <2> DEFINE reason == EntryReason(filed[i], pins, now)
  <2> DEFINE b == CHOOSE j \in Bindings(pins, now) : BindingKey(filed[j]) = BindingKey(filed[i])
  <2> DEFINE d == IdentityDisplayForEntry(i, pins, now)
  <2>1. d = IF pins = {} \/ reason # "" THEN IdentityDisplayFor(filed[i].subject, filed[i], pins # {}, reason)
            ELSE IdentityDisplayFor(filed[b].subject, filed[b], TRUE, "")
    BY Zenon DEF IdentityDisplayForEntry
  <2> HIDE DEF d
  <2>2. CASE pins = {} \/ reason # ""
    <3>1. ~Verified(d)
      <4>1. d = IdentityDisplayFor(filed[i].subject, filed[i], pins # {}, reason) BY <2>1, <2>2, Zenon
      <4>2. PICK x, y, re : x = filed[i].subject /\ y = filed[i] /\ re = reason OBVIOUS
      <4>3. Verified(IdentityDisplayFor(x, y, pins # {}, re)) => pins # {} /\ re = ""
        BY <1>1, Zenon DEF IdentityDisplayFor
      <4> HIDE DEF reason
      <4> QED BY <2>2, <4>1, <4>2, <4>3, Zenon
    <3>2. i \notin Bindings(pins, now) BY <1>4, <2>2, Zenon
    <3> QED BY <3>1, <3>2, Zenon DEF d
  <2>3. CASE ~(pins = {} \/ reason # "")
    <3>1. d = IdentityDisplayFor(filed[b].subject, filed[b], TRUE, "") BY <2>1, <2>3, Zenon
    <3>2. reason = "" BY <2>3, Zenon
    <3>3. \E j \in Bindings(pins, now) : BindingKey(filed[j]) = BindingKey(filed[i]) BY <1>0, <3>2, FirstBinding, Zenon DEF Binds
    <3>4. b \in Bindings(pins, now) /\ BindingKey(filed[b]) = BindingKey(filed[i]) BY <3>3, Zenon
    <3> HIDE DEF b
    <3>5. filed[b].subject = filed[i].subject BY <3>4 DEF BindingKey
    <3>6. Verified(d) /\ d.name \in {filed[b].display, "principal"} BY <1>2, <3>1, Zenon
    <3> QED BY <1>4, <3>4, <3>5, <3>6, Zenon DEF d
  <2> QED BY <2>2, <2>3, Zenon
<1> QED BY <1>5, Zenon DEF BindingIsSigned

\* What a line rests on.
LEMMA LinesVouched ==
  ASSUME VouchInv
  PROVE  LinesAreEarned
<1>0. DOMAIN lines = 1..Len(lines) BY SeqFacts DEF VouchInv, LinesFit
<1>1. ASSUME NEW i \in DOMAIN lines, Verified(lines[i].display)
      PROVE  ~lines[i].replayed /\ lines[i].checkedAt # Never /\ Backed(lines[i].of, pins, lines[i].checkedAt)
  <2>1. PICK l : l = lines[i] OBVIOUS
  <2>2. LineFits(l, pins, vouched) BY <1>0, <2>1 DEF VouchInv, LinesFit
  <2>3. l.checkedAt # Never BY <1>1, <2>1, <2>2 DEF LineFits
  <2>4. ~l.replayed /\ l.display = Shown(pins, l.of.subject, <<l.of>>, l.checkedAt) /\ Known(l.of, vouched)
    BY <2>2, <2>3 DEF LineFits
  <2>5. PICK c : c = <<l.of>> OBVIOUS
  <2>6. c[1] = l.of BY <2>5
  <2>7. Verified(Shown(pins, l.of.subject, c, l.checkedAt)) BY <1>1, <2>1, <2>4, <2>5
  <2>8. VerifyIdentity(l.of, pins, l.checkedAt, {}) = ""
    <3>1. PICK s, t : s = l.of.subject /\ t = l.checkedAt OBVIOUS
    <3>2. Verified(Shown(pins, s, c, t)) BY <2>7, <3>1
    <3>3. VerifyIdentity(c[1], pins, t, {}) = "" BY <3>2, ShownVerified
    <3> QED BY <2>6, <3>1, <3>3, Zenon
  <2>9. /\ \E k \in pins : Issued(k, IdentitySigningBytes(l.of)) \in vouched
        /\ l.of.from <= l.checkedAt /\ l.checkedAt <= l.of.until BY <2>4, <2>8, ValidIsVouched
  <2> QED BY <2>1, <2>3, <2>4, <2>9 DEF Backed
<1>2. ASSUME NEW i \in DOMAIN lines, Heading(lines[i])[1] = "their own", Heading(lines[i])[2] # ""
      PROVE  Verified(lines[i].display) /\ lines[i].of.subject = lines[i].author
  <2>1. PICK l : l = lines[i] OBVIOUS
  <2>2. LineFits(l, pins, vouched) BY <1>0, <2>1 DEF VouchInv, LinesFit
  <2>3. Heading(l)[1] = "their own" /\ Heading(l)[2] # "" BY <1>2, <2>1
  <2>4. ~l.malformed /\ l.selfFiled /\ Verified(l.display) BY <2>3 DEF Heading
  <2> QED BY <2>1, <2>2, <2>4 DEF LineFits
<1> QED BY <1>1, <1>2 DEF LinesAreEarned

\* A verdict is no other surface's word, and says that no issuer is pinned only when none is.
LEMMA VerdictNamed ==
  ASSUME NEW a, NEW ps, NEW at, NEW v, v = VerifyIdentity(a, ps, at, {})
  PROVE  /\ v \notin {"subject_mismatch", "malformed_artifact"}
         /\ v = "no_issuer_pinned" => ps = {}
<1>1. PICK b : b = Before(a, ps) OBVIOUS
<1>2. b \notin {"subject_mismatch", "malformed_artifact"} /\ (b = "no_issuer_pinned" => ps = {}) BY <1>1, BeforeNamed
<1>3. v \in {b, "not_yet_valid", "expired", ""} BY <1>1, VerdictOverTime, Zenon
<1> QED BY <1>2, <1>3

\* What the sentence on a claim says of its reason.
LEMMA CarriedSays ==
  ASSUME NEW d, NEW pinned
  PROVE  /\ carriedWords(d, pinned) = "another key" <=> d.reason = "subject_mismatch"
         /\ carriedWords(d, pinned) = "not checked" =>
              /\ d.reason \notin {"subject_mismatch", "malformed_artifact"}
              /\ ~pinned \/ d.reason \in {"", "no_issuer_pinned"}
<1> DEFINE W == IF ~pinned \/ ClassOf(d.reason) \in {"", "unconfigured"} THEN "not checked"
                ELSE IF ClassOf(d.reason) = "unanchored" THEN "unpinned authority"
                ELSE IF ClassOf(d.reason) = "lifecycle" THEN "checked, out of its time"
                ELSE "checked, did not verify"
<1>1. CASE d.reason = "subject_mismatch"
  <2>1. carriedWords(d, pinned) = "another key" BY <1>1, Zenon DEF carriedWords
  <2> QED BY <1>1, <2>1, Zenon
<1>2. CASE d.reason = "malformed_artifact"
  <2>1. carriedWords(d, pinned) = "not an artifact" BY <1>2, Zenon DEF carriedWords
  <2> QED BY <1>2, <2>1, Zenon
<1>3. CASE d.reason \notin {"subject_mismatch", "malformed_artifact"}
  <2>1. carriedWords(d, pinned) = W BY <1>3, Zenon DEF carriedWords
  <2>2. W # "another key" BY Zenon
  <2>3. W = "not checked" => ~pinned \/ d.reason \in {"", "no_issuer_pinned"}
    <3>1. ClassOf(d.reason) \in {"", "unconfigured"} => d.reason \in {"", "no_issuer_pinned"}
      BY Zenon DEF ClassOf
    <3>2. W = "not checked" => ~pinned \/ ClassOf(d.reason) \in {"", "unconfigured"} BY Zenon
    <3> HIDE DEF W
    <3> QED BY <3>1, <3>2, Zenon
  <2> HIDE DEF W
  <2> QED BY <1>3, <2>1, <2>2, <2>3, Zenon
<1> QED BY <1>1, <1>2, <1>3, Zenon

\* Where a check was made and failed, the sentence says so.
LEMMA FailedIsSaid ==
  ASSUME NEW ps, NEW s, NEW c, NEW at, NEW pinned, pinned <=> ps # {}, c # <<>>,
         ~Verified(Shown(ps, s, c, at)), carriedWords(Shown(ps, s, c, at), pinned) = "not checked"
  PROVE  ps = {} /\ c[1].subject = s /\ "parse" \notin c[1].faults
<1> DEFINE d == Shown(ps, s, c, at)
<1>1. d.reason \notin {"subject_mismatch", "malformed_artifact"} /\ (~pinned \/ d.reason \in {"", "no_issuer_pinned"})
  BY CarriedSays, Zenon
<1>2. \A n : Display("carried", "", n).reason = n BY DEF Display
<1>3. "parse" \notin c[1].faults
  <2>1. "parse" \in c[1].faults => d = Display("carried", "", "malformed_artifact") BY Zenon DEF Shown
  <2> HIDE DEF d
  <2> QED BY <1>1, <1>2, <2>1, Zenon
<1>4. c[1].subject = s
  <2>1. c[1].subject # s => d = Display("carried", "", "subject_mismatch") BY <1>3, Zenon DEF Shown, IdentityDisplayFor
  <2> HIDE DEF d
  <2> QED BY <1>1, <1>2, <2>1, Zenon
<1>5. CASE ps # {}
  <2>1. PICK v : v = VerifyIdentity(c[1], ps, at, {}) OBVIOUS
  <2>2. d = Display("carried", "", v) /\ v # "" BY <1>3, <1>4, <1>5, <2>1, ShownReason, Zenon
  <2>3. v = "no_issuer_pinned" => ps = {} BY <2>1, VerdictNamed, Zenon
  <2> HIDE DEF d
  <2>4. d.reason = v BY <1>2, <2>2, Zenon
  <2> QED BY <1>1, <1>5, <2>2, <2>3, <2>4, Zenon
<1> QED BY <1>3, <1>4, <1>5, Zenon

\* "Not checked" is said where no check was made.
LEMMA NotCheckedVouched ==
  ASSUME VouchInv
  PROVE  NotCheckedIsTrue
<1>1. ASSUME NEW i \in DOMAIN lines, identityVerdict(lines[i]) = "not checked", lines[i].checkedAt # Never PROVE FALSE
  <2>1. PICK l : l = lines[i] OBVIOUS
  <2>2. LineFits(l, pins, vouched)
    <3>1. DOMAIN lines = 1..Len(lines) BY SeqFacts DEF VouchInv, LinesFit
    <3> QED BY <2>1, <3>1 DEF VouchInv, LinesFit
  <2>3. PICK c, s, t : c = <<l.of>> /\ s = l.of.subject /\ t = l.checkedAt OBVIOUS
  <2>4. ~l.replayed /\ pins # {} /\ l.display = Shown(pins, s, c, t) BY <1>1, <2>1, <2>2, <2>3 DEF LineFits
  <2>5. ~Verified(l.display) /\ carriedWords(l.display, pins # {}) = "not checked"
    <3>1. identityVerdict(l) = "not checked" BY <1>1, <2>1, Zenon
    <3> QED BY <2>4, <3>1, Zenon DEF identityVerdict
  <2>6. c # <<>> BY <2>3
  <2>7. ~Verified(Shown(pins, s, c, t)) /\ carriedWords(Shown(pins, s, c, t), pins # {}) = "not checked"
    BY <2>4, <2>5, Zenon
  <2>8. pins = {} BY <2>6, <2>7, FailedIsSaid
  <2> QED BY <2>4, <2>8
<1>2. ASSUME NEW s \in DOMAIN rows, trustWords(s) = "not checked"
      PROVE  pins = {} /\ rows[s].carried[1].subject = s /\ "parse" \notin rows[s].carried[1].faults
  <2>1. PICK d : d = rows[s].identity OBVIOUS
  <2>2. ~Verified(d) /\ d.state = "carried" /\ carriedWords(d, pins # {}) = "not checked"
    <3>1. credentialStateOf(s) = d BY <2>1 DEF credentialStateOf
    <3>2. trustLevelOf(s) \in {"SAS", "pin", ""} BY Zenon DEF trustLevelOf
    <3> QED BY <1>2, <3>1, <3>2, Zenon DEF trustWords
  <2>3. PICK c : c = rows[s].carried OBVIOUS
  <2>4. RowFits(s, rows[s], pins, vouched, now) BY DEF VouchInv, RowsFit
  <2>5. PICK t \in 1..now : d = Shown(pins, s, c, t) BY <2>1, <2>3, <2>4 DEF RowFits, Decided
  <2>6. c # <<>>
    <3>1. c = <<>> => d = Display("asserted", "", "") BY <2>5, Zenon DEF Shown
    <3>2. Display("asserted", "", "").state = "asserted" BY DEF Display
    <3> QED BY <2>2, <3>1, <3>2, Zenon
  <2>7. ~Verified(Shown(pins, s, c, t)) /\ carriedWords(Shown(pins, s, c, t), pins # {}) = "not checked"
    BY <2>2, <2>5, Zenon
  <2>8. pins = {} /\ c[1].subject = s /\ "parse" \notin c[1].faults BY <2>6, <2>7, FailedIsSaid
  <2> QED BY <2>3, <2>8
<1> QED BY <1>1, <1>2 DEF NotCheckedIsTrue

\* The surfaces tell one story.
LEMMA SurfacesVouched ==
  ASSUME VouchInv
  PROVE  SurfacesAgree
<1>1. ASSUME NEW s \in DOMAIN rows
      PROVE  /\ trustMark(s) = "claim, refuted" <=> trustWords(s) = "another key"
             /\ trustMark(s) = "attested" <=> credentialBlock(rows[s].identity, pins # {}) = "checked"
  <2>1. PICK d : d = rows[s].identity OBVIOUS
  <2>2. credentialStateOf(s) = d BY <2>1 DEF credentialStateOf
  <2>3. PICK v : v = trustLevelOf(s) OBVIOUS
  <2>4. v \in {"SAS", "pin", ""} BY <2>3, Zenon DEF trustLevelOf
  <2>5. Verified(d) => d.state # "asserted" BY DEF Verified
  <2>6. PICK w : w = carriedWords(d, pins # {}) OBVIOUS
  <2>7. w = "another key" <=> d.reason = "subject_mismatch" BY <2>6, CarriedSays, Zenon
  <2>8. trustMark(s) = IF Verified(d) THEN "attested" ELSE IF v # "" THEN v ELSE IF d.state # "carried" THEN ""
                       ELSE IF d.reason = "subject_mismatch" THEN "claim, refuted" ELSE "claim"
    BY <2>2, <2>3, Zenon DEF trustMark
  <2>9. trustWords(s) = IF Verified(d) THEN "attested" ELSE IF v # "" THEN v
                        ELSE IF d.state = "carried" THEN w ELSE "unverified"
    BY <2>2, <2>3, <2>6, Zenon DEF trustWords
  <2>10. credentialBlock(d, pins # {}) = "checked" <=> Verified(d) BY <2>5, Zenon DEF credentialBlock
  <2>11. trustMark(s) = "attested" <=> Verified(d) BY <2>4, <2>8, Zenon
  <2>12. trustMark(s) = "claim, refuted" <=> ~Verified(d) /\ v = "" /\ d.state = "carried" /\ d.reason = "subject_mismatch"
    BY <2>4, <2>8, Zenon
  <2>13. trustWords(s) = "another key" <=> ~Verified(d) /\ v = "" /\ d.state = "carried" /\ w = "another key"
    BY <2>4, <2>9, Zenon
  <2> QED BY <2>1, <2>7, <2>10, <2>11, <2>12, <2>13, Zenon
<1>2. ASSUME NEW i \in DOMAIN lines, NEW s \in DOMAIN rows, lines[i].checkedAt = now, checkedAt = now,
             rows[s].carried = <<lines[i].of>>, lines[i].of.subject = s
      PROVE  lines[i].display = rows[s].identity
  <2>1. LineFits(lines[i], pins, vouched)
    <3>1. DOMAIN lines = 1..Len(lines) BY SeqFacts DEF VouchInv, LinesFit
    <3> QED BY <3>1 DEF VouchInv, LinesFit
  <2>2. now # Never BY DEF VouchInv, ClockFits, Never
  <2>3. lines[i].display = Shown(pins, s, rows[s].carried, now) BY <1>2, <2>1, <2>2 DEF LineFits
  <2>4. rows[s].identity = Shown(pins, s, rows[s].carried, now) BY <1>2 DEF VouchInv, RowsCurrent
  <2> QED BY <2>3, <2>4
<1> QED BY <1>1, <1>2 DEF SurfacesAgree

\* A name shown as verified, on the roster, in the log or on a sealed record, is one a pinned issuer
\* vouched for at the moment it says; a row looked at only when its clock event is due shows what
\* looking always would; and no sentence says "not checked" of a check that failed: for any issuers,
\* credentials, damage to copies, clock and order of events (attribution.go, roomidentity.go,
\* issuerpin.go, record/identity.go).
THEOREM NamesStayVouched == RoomSpec => []NamesAreVouched
<1>1. RoomInit => VouchInv BY VouchStart
<1>2. VouchInv /\ [RoomNext]_roomVars => VouchInv'
  <2>1. CASE RoomNext BY <2>1, VouchStep
  <2>2. CASE UNCHANGED roomVars
    BY <2>2 DEF roomVars, identityVars, viewVars, VouchInv, ClockFits, Circulating, RowsFit, RowsCurrent, FiledFit, LinesFit
  <2> QED BY <2>1, <2>2
<1>3. VouchInv => NamesAreVouched
  BY MarksVouched, BindingsVouched, LinesVouched, NotCheckedVouched, SurfacesVouched DEF NamesAreVouched
<1> QED BY <1>1, <1>2, <1>3, PTL DEF RoomSpec

------------------------------------------------------------------------------
(* The approval of an artifact, for any number of clients, any assignment of fingerprints (two *)
(* clients may share an identity) and any quorum.  QuorumSound is not inductive: an approval *)
(* is counted when it is handled and signed when it is sent. *)

\* Every approval in flight, and every approval its sender has yet to count, was signed by
\* somebody other than the proposer.
Vouched ==
  /\ \A s, d \in Clients : \A i \in 1..Len(net[s][d]) :
       net[s][d][i] = "approval" => Fpr[s] \in signed /\ Fpr[s] # Fpr[Proposer]
  /\ \A c \in mid : Fpr[c] \in signed

ApprovalInv == TypeOK /\ QuorumSound /\ WriterSigned /\ Vouched

\* Taking a frame keeps every queue's type and adds nothing to any queue.
LEMMA TakeFacts ==
  ASSUME TypeOK, NEW s \in Clients, NEW d \in Clients, net[s][d] # <<>>, Take(s, d)
  PROVE  /\ net' \in [Clients -> [Clients -> Seq(Frames)]]
         /\ \A x, y \in Clients : \A i \in 1..Len(net'[x][y]) :
              \E j \in 1..Len(net[x][y]) : net'[x][y][i] = net[x][y][j]
<1>1. net[s][d] \in Seq(Frames)  BY DEF TypeOK
<1>2. Tail(net[s][d]) \in Seq(Frames)  BY <1>1
<1>3. \A x, y \in Clients :
        net'[x][y] = IF x = s /\ y = d THEN Tail(net[s][d]) ELSE net[x][y]
  BY DEF Take, TypeOK
<1>4. net' \in [Clients -> [Clients -> Seq(Frames)]]
  BY <1>2 DEF Take, TypeOK
<1>5. ASSUME NEW i \in 1..Len(Tail(net[s][d]))
      PROVE  \E j \in 1..Len(net[s][d]) : Tail(net[s][d])[i] = net[s][d][j]
  <2>1. i + 1 \in 1..Len(net[s][d]) /\ Tail(net[s][d])[i] = net[s][d][i + 1]  BY <1>1
  <2> QED  BY <2>1
<1> QED  BY ZenonT(40), <1>3, <1>4, <1>5

\* Broadcasting f appends it to the sender's queues and to no other.
LEMMA BroadcastFacts ==
  ASSUME TypeOK, NEW s \in Clients, NEW f \in Frames, Broadcast(s, f)
  PROVE  /\ net' \in [Clients -> [Clients -> Seq(Frames)]]
         /\ \A x, y \in Clients : \A i \in 1..Len(net'[x][y]) :
              \/ \E j \in 1..Len(net[x][y]) : net'[x][y][i] = net[x][y][j]
              \/ x = s /\ net'[x][y][i] = f
<1>1. \A x, y \in Clients : net[x][y] \in Seq(Frames)  BY DEF TypeOK
<1>2. \A x, y \in Clients :
        net'[x][y] = IF x = s /\ y # s THEN Append(net[x][y], f) ELSE net[x][y]
  BY DEF Broadcast, TypeOK
<1>3. net' \in [Clients -> [Clients -> Seq(Frames)]]
  <2>1. \A d \in Clients : Append(net[s][d], f) \in Seq(Frames)  BY <1>1
  <2> QED  BY <1>1, <2>1 DEF Broadcast, TypeOK
<1>4. ASSUME NEW x \in Clients, NEW y \in Clients, NEW i \in 1..Len(net'[x][y])
      PROVE  \/ \E j \in 1..Len(net[x][y]) : net'[x][y][i] = net[x][y][j]
             \/ x = s /\ net'[x][y][i] = f
  <2>1. CASE x = s /\ y # s
    <3>1. net'[x][y] = Append(net[x][y], f)  BY <1>2, <2>1
    <3>2. CASE i \in 1..Len(net[x][y])  BY <3>1, <3>2, <1>1
    <3>3. CASE i = Len(net[x][y]) + 1  BY <3>1, <3>3, <1>1, <2>1
    <3> QED  BY <3>1, <3>2, <3>3, <1>1
  <2>2. CASE ~(x = s /\ y # s)  BY <1>2, <2>2
  <2> QED  BY <2>1, <2>2
<1> QED  BY <1>3, <1>4

\* What countArtifactApproval preserves when the approval is a signed one.
LEMMA CountFacts ==
  ASSUME TypeOK, QuorumSound, WriterSigned, NEW c \in Clients, NEW f \in signed,
         Count(c, f), signed' = signed
  PROVE  /\ phase' \in [Clients -> Phases]
         /\ order' \in [Clients -> Seq(Nat)]
         /\ wrote' \in SUBSET Clients
         /\ QuorumSound'
         /\ WriterSigned'
<1> DEFINE s == Append(order[c], f)
           reached == Len(s) >= Quorum
<1>1. f \in Nat /\ order[c] \in Seq(Nat) /\ Quorum \in Nat
  BY QuorumAssumption DEF TypeOK
<1>2. CASE phase[c] = "tracked" /\ f # Fpr[Proposer] /\ ~Counted(c, f)
  <2>1. /\ order' = [order EXCEPT ![c] = s]
        /\ phase' = [phase EXCEPT ![c] = IF reached THEN "approved" ELSE @]
        /\ wrote' = IF reached /\ Lowest(s, Fpr[c]) THEN wrote \cup {c} ELSE wrote
    BY <1>2 DEF Count
  <2>2. /\ s \in Seq(Nat) /\ Len(s) = Len(order[c]) + 1
        /\ \A i \in 1..Len(order[c]) : s[i] = order[c][i]
        /\ s[Len(order[c]) + 1] = f
        /\ Len(order[c]) \in Nat
    BY <1>1
  <2>3. \A i \in 1..Len(s) : s[i] \in signed /\ s[i] # Fpr[Proposer]
    BY <1>2, <2>2 DEF QuorumSound
  <2>4. \A i, j \in 1..Len(s) : s[i] = s[j] => i = j
    <3> SUFFICES ASSUME NEW i \in 1..Len(s), NEW j \in 1..Len(s), s[i] = s[j]
                 PROVE  i = j
      OBVIOUS
    <3>1. CASE i \in 1..Len(order[c]) /\ j \in 1..Len(order[c])
      BY <3>1, <2>2 DEF QuorumSound
    <3>2. CASE i \in 1..Len(order[c]) /\ j = Len(order[c]) + 1
      BY <3>2, <1>2, <2>2 DEF Counted
    <3>3. CASE i = Len(order[c]) + 1 /\ j \in 1..Len(order[c])
      BY <3>3, <1>2, <2>2 DEF Counted
    <3>4. /\ i \in 1..Len(order[c]) \/ i = Len(order[c]) + 1
          /\ j \in 1..Len(order[c]) \/ j = Len(order[c]) + 1
      <4> HIDE DEF s
      <4> QED  BY <2>2
    <3> QED  BY <3>1, <3>2, <3>3, <3>4
  <2>5. \A x \in Clients : /\ order'[x] = IF x = c THEN s ELSE order[x]
                           /\ x # c => phase'[x] = phase[x]
                           /\ phase'[c] = IF reached THEN "approved" ELSE phase[c]
    BY <2>1 DEF TypeOK
  <2>6. QuorumSound'
    <3> SUFFICES ASSUME NEW x \in Clients
                 PROVE  /\ \A i \in 1..Len(order'[x]) :
                             order'[x][i] \in signed /\ order'[x][i] # Fpr[Proposer]
                        /\ \A i, j \in 1..Len(order'[x]) :
                             order'[x][i] = order'[x][j] => i = j
                        /\ phase'[x] = "approved" => Len(order'[x]) >= Quorum
      BY DEF QuorumSound
    <3>1. CASE x = c
      <4> HIDE DEF s, reached
      <4>1. order'[x] = s  BY <3>1, <2>5
      <4>2. phase'[x] = "approved" => reached  BY <3>1, <2>5, <1>2
      <4>3. reached => Len(s) >= Quorum  BY DEF reached
      <4> QED  BY <4>1, <4>2, <4>3, <2>3, <2>4
    <3>2. CASE x # c
      <4>1. order'[x] = order[x] /\ phase'[x] = phase[x]  BY <3>2, <2>5
      <4> QED  BY <4>1 DEF QuorumSound
    <3> QED  BY <3>1, <3>2
  <2>7. WriterSigned'
    <3>1. CASE reached /\ Lowest(s, Fpr[c])
      <4>1. Fpr[c] \in signed /\ Fpr[c] # Fpr[Proposer]  BY <3>1, <2>3 DEF Lowest
      <4> HIDE DEF s, reached
      <4>2. wrote' = wrote \cup {c}  BY <3>1, <2>1
      <4> QED  BY <4>1, <4>2 DEF WriterSigned
    <3>2. CASE ~(reached /\ Lowest(s, Fpr[c]))
      <4> HIDE DEF s, reached
      <4> QED  BY <3>2, <2>1 DEF WriterSigned
    <3> QED  BY <3>1, <3>2
  <2>8. /\ phase' \in [Clients -> Phases] /\ order' \in [Clients -> Seq(Nat)]
        /\ wrote' \in SUBSET Clients
    BY <2>1, <2>2 DEF TypeOK, Phases
  <2> QED  BY <2>6, <2>7, <2>8
<1>3. CASE ~(phase[c] = "tracked" /\ f # Fpr[Proposer] /\ ~Counted(c, f))
  <2>1. order' = order /\ phase' = phase /\ wrote' = wrote  BY <1>3 DEF Count
  <2> QED  BY <2>1 DEF TypeOK, QuorumSound, WriterSigned
<1> QED  BY <1>2, <1>3

\* Vouched survives a step that only takes a frame, or none, and signs nothing away.
LEMMA VouchedKept ==
  ASSUME Vouched, mid' \subseteq mid, signed \subseteq signed',
         \A x, y \in Clients : \A i \in 1..Len(net'[x][y]) :
           \E j \in 1..Len(net[x][y]) : net'[x][y][i] = net[x][y][j]
  PROVE  Vouched'
<1>1. ASSUME NEW x \in Clients, NEW y \in Clients, NEW i \in 1..Len(net'[x][y]),
             net'[x][y][i] = "approval"
      PROVE  Fpr[x] \in signed' /\ Fpr[x] # Fpr[Proposer]
  <2>1. PICK j \in 1..Len(net[x][y]) : net'[x][y][i] = net[x][y][j]  OBVIOUS
  <2> QED  BY <1>1, <2>1 DEF Vouched
<1>2. \A c \in mid' : Fpr[c] \in signed'  BY DEF Vouched
<1> QED  BY <1>1, <1>2 DEF Vouched

\* ... and one that broadcasts f, which may be an approval only of a fresh signer.
LEMMA VouchedSent ==
  ASSUME Vouched, NEW s \in Clients, NEW f \in Frames, signed \subseteq signed',
         f = "approval" => Fpr[s] \in signed' /\ Fpr[s] # Fpr[Proposer],
         \A c \in mid' : c \in mid \/ Fpr[c] \in signed',
         \A x, y \in Clients : \A i \in 1..Len(net'[x][y]) :
           \/ \E j \in 1..Len(net[x][y]) : net'[x][y][i] = net[x][y][j]
           \/ x = s /\ net'[x][y][i] = f
  PROVE  Vouched'
<1>1. ASSUME NEW x \in Clients, NEW y \in Clients, NEW i \in 1..Len(net'[x][y]),
             net'[x][y][i] = "approval"
      PROVE  Fpr[x] \in signed' /\ Fpr[x] # Fpr[Proposer]
  <2>1. CASE \E j \in 1..Len(net[x][y]) : net'[x][y][i] = net[x][y][j]
    <3>1. PICK j \in 1..Len(net[x][y]) : net'[x][y][i] = net[x][y][j]  BY <2>1
    <3> QED  BY <1>1, <3>1 DEF Vouched
  <2>2. CASE x = s /\ net'[x][y][i] = f  BY <1>1, <2>2
  <2> QED  BY <2>1, <2>2
<1>2. \A c \in mid' : Fpr[c] \in signed'  BY DEF Vouched
<1> QED  BY <1>1, <1>2 DEF Vouched

\* The inductive invariant holds of the whole specification.
THEOREM InvHolds == Spec => []ApprovalInv
<1>1. Init => ApprovalInv
  <2> SUFFICES ASSUME Init PROVE ApprovalInv  OBVIOUS
  <2>1. \A s, d \in Clients : net[s][d] = <<>>  BY DEF Init
  <2>2. \A c \in Clients : order[c] = <<>> /\ phase[c] = "unknown"  BY DEF Init
  <2>3. TypeOK  BY DEF Init, TypeOK, Phases
  <2> QED  BY <2>1, <2>2, <2>3 DEF ApprovalInv, QuorumSound, WriterSigned, Vouched, Init
<1>2. ApprovalInv /\ [Next]_vars => ApprovalInv'
  <2> SUFFICES ASSUME ApprovalInv, [Next]_vars PROVE ApprovalInv'  OBVIOUS
  <2> USE DEF ApprovalInv
  <2>same. ASSUME net' = net
           PROVE  \A x, y \in Clients : \A i \in 1..Len(net'[x][y]) :
                    \E j \in 1..Len(net[x][y]) : net'[x][y][i] = net[x][y][j]
    BY <2>same
  <2>1. CASE Propose
    <3>1. Broadcast(Proposer, "proposal")  BY <2>1 DEF Propose
    <3>2. "proposal" \in Frames /\ Proposer \in Clients
      BY ProposerAssumption DEF Frames
    <3>3. /\ net' \in [Clients -> [Clients -> Seq(Frames)]]
          /\ \A x, y \in Clients : \A i \in 1..Len(net'[x][y]) :
               \/ \E j \in 1..Len(net[x][y]) : net'[x][y][i] = net[x][y][j]
               \/ x = Proposer /\ net'[x][y][i] = "proposal"
      BY <3>1, <3>2, BroadcastFacts
    <3>4. Vouched'  BY <2>1, <3>2, <3>3, VouchedSent DEF Propose
    <3>5. TypeOK'  BY <2>1, <3>3 DEF Propose, TypeOK, Phases
    <3>6. QuorumSound' /\ WriterSigned'
      BY <2>1 DEF Propose, QuorumSound, WriterSigned, TypeOK
    <3> QED  BY <3>4, <3>5, <3>6
  <2>2. ASSUME NEW c \in Clients, ApproveSend(c) PROVE ApprovalInv'
    <3>1. Broadcast(c, "approval") /\ signed' = signed \cup {Fpr[c]} /\ mid' = mid \cup {c}
      BY <2>2 DEF ApproveSend
    <3>2. "approval" \in Frames /\ Fpr[c] \in Nat  BY FprAssumption DEF Frames
    <3>3. /\ net' \in [Clients -> [Clients -> Seq(Frames)]]
          /\ \A x, y \in Clients : \A i \in 1..Len(net'[x][y]) :
               \/ \E j \in 1..Len(net[x][y]) : net'[x][y][i] = net[x][y][j]
               \/ x = c /\ net'[x][y][i] = "approval"
      BY <3>1, <3>2, BroadcastFacts
    <3>4. Fpr[c] \in signed' /\ Fpr[c] # Fpr[Proposer]  BY <2>2, <3>1 DEF ApproveSend
    <3>5. Vouched'  BY <3>1, <3>2, <3>3, <3>4, VouchedSent
    <3>6. TypeOK'  BY <2>2, <3>1, <3>2, <3>3 DEF ApproveSend, TypeOK
    <3>7. QuorumSound' /\ WriterSigned'
      BY <2>2, <3>1 DEF ApproveSend, QuorumSound, WriterSigned
    <3> QED  BY <3>6, <3>7, <3>5
  <2>3. ASSUME NEW c \in Clients, ApproveCount(c) PROVE ApprovalInv'
    <3>1. Count(c, Fpr[c]) /\ Fpr[c] \in signed  BY <2>3 DEF ApproveCount, Vouched
    <3>2. /\ mid' \subseteq mid /\ signed' = signed /\ net' = net /\ lost' = lost
          /\ approved' = approved \/ approved' = approved \cup {c}
      BY <2>3 DEF ApproveCount
    <3>3. QuorumSound' /\ WriterSigned' /\ phase' \in [Clients -> Phases]
          /\ order' \in [Clients -> Seq(Nat)] /\ wrote' \in SUBSET Clients
      BY <3>1, <3>2, CountFacts
    <3>4. Vouched'  BY <3>2, <2>same, VouchedKept
    <3>5. TypeOK'  BY <3>2, <3>3 DEF TypeOK
    <3> QED  BY <3>3, <3>4, <3>5
  <2>4. ASSUME NEW c \in Clients, RejectArtifact(c) PROVE ApprovalInv'
    <3>1. Broadcast(c, "rejection")  BY <2>4 DEF RejectArtifact
    <3>2. "rejection" \in Frames  BY DEF Frames
    <3>3. /\ net' \in [Clients -> [Clients -> Seq(Frames)]]
          /\ \A x, y \in Clients : \A i \in 1..Len(net'[x][y]) :
               \/ \E j \in 1..Len(net[x][y]) : net'[x][y][i] = net[x][y][j]
               \/ x = c /\ net'[x][y][i] = "rejection"
      BY <3>1, <3>2, BroadcastFacts
    <3>4. Vouched'  BY <2>4, <3>2, <3>3, VouchedSent DEF RejectArtifact
    <3>5. TypeOK'  BY <2>4, <3>3 DEF RejectArtifact, TypeOK, Phases
    <3>6. QuorumSound' /\ WriterSigned'
      BY <2>4 DEF RejectArtifact, QuorumSound, WriterSigned, TypeOK
    <3> QED  BY <3>4, <3>5, <3>6
  <2>5. ASSUME NEW c \in Clients, ExpireProposal(c) PROVE ApprovalInv'
    <3>1. Vouched'  BY <2>5, <2>same, VouchedKept DEF ExpireProposal
    <3>2. TypeOK'  BY <2>5 DEF ExpireProposal, TypeOK, Phases
    <3>3. QuorumSound' /\ WriterSigned'
      BY <2>5 DEF ExpireProposal, QuorumSound, WriterSigned, TypeOK
    <3> QED  BY <3>1, <3>2, <3>3
  <2>6. ASSUME NEW c \in Clients, ClearProposals(c) PROVE ApprovalInv'
    <3>1. Vouched'  BY <2>6, <2>same, VouchedKept DEF ClearProposals
    <3>2. TypeOK'  BY <2>6 DEF ClearProposals, TypeOK, Phases
    <3>3. \A x \in Clients :
            /\ x = c => order'[x] = <<>> /\ phase'[x] = "cleared"
            /\ x # c => order'[x] = order[x] /\ phase'[x] = phase[x]
      BY <2>6 DEF ClearProposals, TypeOK
    <3>4. signed' = signed /\ wrote' = wrote  BY <2>6 DEF ClearProposals
    <3>5. QuorumSound'
      <4> SUFFICES ASSUME NEW x \in Clients
                   PROVE  /\ \A i \in 1..Len(order'[x]) :
                               order'[x][i] \in signed /\ order'[x][i] # Fpr[Proposer]
                          /\ \A i, j \in 1..Len(order'[x]) :
                               order'[x][i] = order'[x][j] => i = j
                          /\ phase'[x] = "approved" => Len(order'[x]) >= Quorum
        BY <3>4 DEF QuorumSound
      <4>1. CASE x = c  BY <4>1, <3>3
      <4>2. CASE x # c  BY <4>2, <3>3 DEF QuorumSound
      <4> QED  BY <4>1, <4>2
    <3> QED  BY <3>1, <3>2, <3>4, <3>5 DEF WriterSigned
  <2>7. ASSUME NEW s \in Clients, NEW d \in Clients, OnProposal(s, d) PROVE ApprovalInv'
    <3>1. net[s][d] # <<>> /\ Take(s, d)  BY <2>7 DEF OnProposal
    <3>2. /\ net' \in [Clients -> [Clients -> Seq(Frames)]]
          /\ \A x, y \in Clients : \A i \in 1..Len(net'[x][y]) :
               \E j \in 1..Len(net[x][y]) : net'[x][y][i] = net[x][y][j]
      BY <3>1, TakeFacts
    <3>3. Vouched'  BY <2>7, <3>2, VouchedKept DEF OnProposal
    <3>4. PICK p \in {"tracked", "expired"} :
            phase' = [phase EXCEPT ![d] = IF @ = "unknown" THEN p ELSE @]
      BY <2>7 DEF OnProposal
    <3>5. TypeOK'  BY <2>7, <3>2, <3>4 DEF OnProposal, TypeOK, Phases
    <3>6. \A x \in Clients : phase'[x] = "approved" => phase[x] = "approved"
      BY <3>4 DEF TypeOK
    <3>7. QuorumSound' /\ WriterSigned'
      BY <2>7, <3>6 DEF OnProposal, QuorumSound, WriterSigned
    <3> QED  BY <3>3, <3>5, <3>7
  <2>8. ASSUME NEW s \in Clients, NEW d \in Clients, OnApproval(s, d) PROVE ApprovalInv'
    <3>1. /\ net[s][d] # <<>> /\ Head(net[s][d]) = "approval" /\ Take(s, d)
          /\ Count(d, Fpr[s]) /\ mid' = mid /\ approved' = approved
          /\ signed' = signed /\ lost' = lost
      BY <2>8 DEF OnApproval
    <3>2. /\ net' \in [Clients -> [Clients -> Seq(Frames)]]
          /\ \A x, y \in Clients : \A i \in 1..Len(net'[x][y]) :
               \E j \in 1..Len(net[x][y]) : net'[x][y][i] = net[x][y][j]
      BY <3>1, TakeFacts
    <3>3. Fpr[s] \in signed
      <4>1. net[s][d] \in Seq(Frames)  BY DEF TypeOK
      <4>2. 1 \in 1..Len(net[s][d]) /\ net[s][d][1] = "approval"  BY <4>1, <3>1
      <4> QED  BY <4>2 DEF Vouched
    <3>4. QuorumSound' /\ WriterSigned' /\ phase' \in [Clients -> Phases]
          /\ order' \in [Clients -> Seq(Nat)] /\ wrote' \in SUBSET Clients
      BY <3>1, <3>3, CountFacts
    <3>5. Vouched'  BY <3>1, <3>2, VouchedKept
    <3>6. TypeOK'  BY <3>1, <3>2, <3>4 DEF TypeOK
    <3> QED  BY <3>4, <3>5, <3>6
  <2>9. ASSUME NEW s \in Clients, NEW d \in Clients, OnRejection(s, d) PROVE ApprovalInv'
    <3>1. net[s][d] # <<>> /\ Take(s, d)  BY <2>9 DEF OnRejection
    <3>2. /\ net' \in [Clients -> [Clients -> Seq(Frames)]]
          /\ \A x, y \in Clients : \A i \in 1..Len(net'[x][y]) :
               \E j \in 1..Len(net[x][y]) : net'[x][y][i] = net[x][y][j]
      BY <3>1, TakeFacts
    <3>3. Vouched'  BY <2>9, <3>2, VouchedKept DEF OnRejection
    <3>4. TypeOK'  BY <2>9, <3>2 DEF OnRejection, TypeOK, Phases
    <3>5. \A x \in Clients : phase'[x] = "approved" => phase[x] = "approved"
      BY <2>9 DEF OnRejection, TypeOK
    <3>6. QuorumSound' /\ WriterSigned'
      BY <2>9, <3>5 DEF OnRejection, QuorumSound, WriterSigned
    <3> QED  BY <3>3, <3>4, <3>6
  <2>10. ASSUME NEW s \in Clients, NEW d \in Clients, Lose(s, d) PROVE ApprovalInv'
    <3>1. net[s][d] # <<>> /\ Take(s, d)  BY <2>10 DEF Lose
    <3>2. /\ net' \in [Clients -> [Clients -> Seq(Frames)]]
          /\ \A x, y \in Clients : \A i \in 1..Len(net'[x][y]) :
               \E j \in 1..Len(net[x][y]) : net'[x][y][i] = net[x][y][j]
      BY <3>1, TakeFacts
    <3>3. Vouched'  BY <2>10, <3>2, VouchedKept DEF Lose
    <3>4. TypeOK'  BY <2>10, <3>2 DEF Lose, TypeOK
    <3>5. QuorumSound' /\ WriterSigned'  BY <2>10 DEF Lose, QuorumSound, WriterSigned
    <3> QED  BY <3>3, <3>4, <3>5
  <2>11. CASE UNCHANGED vars
    <3>1. Vouched'  BY <2>11, <2>same, VouchedKept DEF vars
    <3> QED  BY <2>11, <3>1 DEF vars, TypeOK, QuorumSound, WriterSigned
  <2> QED
    BY <2>1, <2>2, <2>3, <2>4, <2>5, <2>6, <2>7, <2>8, <2>9, <2>10, <2>11 DEF Next
<1> QED  BY <1>1, <1>2, PTL DEF Spec

\* Every variable keeps its type.
THEOREM ArtifactTypes == Spec => []TypeOK
<1>1. ApprovalInv => TypeOK  BY DEF ApprovalInv
<1> QED  BY <1>1, InvHolds, PTL

\* countArtifactApproval never resolves a proposal without Quorum distinct people
\* other than the proposer, all of whom really signed.
THEOREM NoApprovalWithoutQuorum == Spec => []QuorumSound
<1>1. ApprovalInv => QuorumSound  BY DEF ApprovalInv
<1> QED  BY <1>1, InvHolds, PTL

\* Whoever writes the artifact entry has itself approved, and is not the proposer.
THEOREM OnlyApproversWrite == Spec => []WriterSigned
<1>1. ApprovalInv => WriterSigned  BY DEF ApprovalInv
<1> QED  BY <1>1, InvHolds, PTL

\* A proposal that resolves, and a record entry that is written for it, both rest on signed
\* approvals, for any clients, fingerprints, quorum and losses.
THEOREM ApprovalIsBacked == Spec => []QuorumBacked
<1>1. QuorumSound /\ WriterSigned => QuorumBacked  BY DEF QuorumBacked
<1> QED  BY <1>1, NoApprovalWithoutQuorum, OnlyApproversWrite, PTL

------------------------------------------------------------------------------
(* Who writes. *)

\* "There is no double-write (chain fork)" is false as it stands, as the ArtifactFork run
\* shows.  What the rule "the lowest approver I counted writes" does give, with nothing assumed
\* of quorum, identities or relay: two people write for one proposal only when more people
\* signed an approval than the quorum asks for.
ForkTakesMore == \A c, d \in wrote : Fpr[c] # Fpr[d] => Cardinality(signed) > Quorum

\* Why: behind every writer are a quorum of signatures, none of them lower than its own.  What
\* it had counted is forgotten by a /vanish, the signatures are not.
WriterLowest ==
  /\ IsFiniteSet(signed)
  /\ \A c \in wrote : \E S \in SUBSET signed : Cardinality(S) >= Quorum /\ \A f \in S : Fpr[c] <= f

\* That many different counted approvers are a set of that size.
LEMMA CountedSet ==
  ASSUME NEW s \in Seq(Nat), \A i, j \in 1..Len(s) : s[i] = s[j] => i = j
  PROVE  Cardinality({s[i] : i \in 1..Len(s)}) = Len(s)
<1> DEFINE n == Len(s)
           S == {s[i] : i \in 1..n}
<1>1. n \in Nat /\ s \in [1..n -> S] BY DEF n
<1>2. s \in Surjection(1..n, S) /\ s \in Injection(1..n, S)
  BY <1>1 DEF Surjection, Injection, IsInjective
<1>3. IsFiniteSet(1..n) /\ Cardinality(1..n) = n
  <2>1. 1 \in Int /\ n \in Int BY <1>1
  <2> HIDE DEF n
  <2>2. IsFiniteSet(1..n) /\ Cardinality(1..n) = IF 1 > n THEN 0 ELSE n - 1 + 1 BY <2>1, FS_Interval
  <2> QED BY <1>1, <2>2
<1> HIDE DEF n, S
<1>4. Cardinality(S) = n BY <1>2, <1>3, FS_Surjection
<1> QED BY <1>4 DEF n, S

\* Who writes at quorum has counted one.
LEMMA CountLowest ==
  ASSUME ApprovalInv, WriterLowest, NEW c \in Clients, NEW f \in signed, Count(c, f), signed' = signed
  PROVE  WriterLowest'
<1> DEFINE s == Append(order[c], f)
           S == {s[i] : i \in 1..Len(s)}
<1>1. ASSUME wrote' # wrote PROVE S \in SUBSET signed /\ Cardinality(S) >= Quorum /\ \A g \in S : Fpr[c] <= g
  <2>1. /\ order' = [order EXCEPT ![c] = s] /\ Len(s) >= Quorum /\ Lowest(s, Fpr[c])
    BY <1>1 DEF Count
  <2>2. TypeOK /\ QuorumSound /\ WriterSigned BY DEF ApprovalInv
  <2>3. order' \in [Clients -> Seq(Nat)] /\ QuorumSound' BY <2>2, CountFacts
  <2>4. order'[c] = s BY <2>1, <2>2 DEF TypeOK
  <2>5. /\ s \in Seq(Nat) /\ \A i \in 1..Len(s) : s[i] \in signed
        /\ \A i, j \in 1..Len(s) : s[i] = s[j] => i = j
    <3> HIDE DEF s
    <3> QED BY <2>3, <2>4 DEF QuorumSound
  <2> HIDE DEF s
  <2>6. Cardinality(S) = Len(s) BY <2>5, CountedSet
  <2> QED BY <2>1, <2>5, <2>6 DEF Lowest
<1>2. wrote' = wrote \/ wrote' = wrote \cup {c} BY DEF Count
<1> HIDE DEF S
<1> QED BY <1>1, <1>2 DEF WriterLowest

\* Two writers of one proposal took an approver more than its quorum, whatever the relay
\* loses or reorders, whoever shares an identity, and whatever any client forgets.
THEOREM ForkNeedsAnExtraApprover == Spec => []ForkTakesMore
<1>1. Init => WriterLowest BY FS_EmptySet DEF Init, WriterLowest
<1>2. ASSUME ApprovalInv, WriterLowest, [Next]_vars
      PROVE  WriterLowest'
  <2>1. ASSUME NEW c \in Clients, ApproveSend(c) PROVE WriterLowest'
    <3>1. signed' = signed \cup {Fpr[c]} /\ wrote' = wrote BY <2>1 DEF ApproveSend
    <3>2. IsFiniteSet(signed') BY <1>2, <3>1, FS_AddElement DEF WriterLowest
    <3> QED BY <1>2, <3>1, <3>2 DEF WriterLowest
  <2>2. ASSUME NEW c \in Clients, ApproveCount(c) PROVE WriterLowest'
    <3>1. Fpr[c] \in signed /\ Count(c, Fpr[c]) /\ signed' = signed BY <1>2, <2>2 DEF ApproveCount, ApprovalInv, Vouched
    <3> QED BY <1>2, <3>1, CountLowest
  <2>3. ASSUME NEW s \in Clients, NEW d \in Clients, OnApproval(s, d) PROVE WriterLowest'
    <3>1. net[s][d] # <<>> /\ Head(net[s][d]) = "approval" /\ Count(d, Fpr[s]) /\ signed' = signed
      BY <2>3 DEF OnApproval
    <3>2. Fpr[s] \in signed
      <4>1. net[s][d] \in Seq(Frames)  BY <1>2 DEF ApprovalInv, TypeOK
      <4>2. 1 \in 1..Len(net[s][d]) /\ net[s][d][1] = "approval"  BY <4>1, <3>1
      <4> QED  BY <1>2, <4>2 DEF ApprovalInv, Vouched
    <3> QED BY <1>2, <3>1, <3>2, CountLowest
  <2>4. CASE UNCHANGED <<signed, wrote>>
    BY <1>2, <2>4 DEF WriterLowest
  <2>5. CASE Propose \/ (\E c \in Clients : RejectArtifact(c) \/ ExpireProposal(c) \/ ClearProposals(c))
             \/ (\E s, d \in Clients : OnProposal(s, d) \/ OnRejection(s, d) \/ Lose(s, d)) \/ UNCHANGED vars
    BY <2>4, <2>5 DEF Propose, RejectArtifact, ExpireProposal, ClearProposals, OnProposal, OnRejection, Lose, vars
  <2> QED BY <1>2, <2>1, <2>2, <2>3, <2>5 DEF Next
<1>3. ASSUME ApprovalInv, WriterLowest, NEW c \in wrote, NEW d \in wrote, Fpr[c] < Fpr[d]
      PROVE  Cardinality(signed) > Quorum
  <2>1. /\ c \in Clients /\ d \in Clients /\ Fpr[c] \in Nat /\ Fpr[d] \in Nat /\ Quorum \in Nat
        /\ Fpr[c] \in signed /\ signed \in SUBSET Nat
    BY <1>3, FprAssumption, QuorumAssumption DEF ApprovalInv, TypeOK, WriterSigned
  <2>2. PICK S \in SUBSET signed : Cardinality(S) >= Quorum /\ \A f \in S : Fpr[d] <= f
    BY <1>3 DEF WriterLowest
  <2>3. IsFiniteSet(S) /\ Cardinality(S) \in Nat BY <1>3, FS_Subset, FS_CardinalityType DEF WriterLowest
  <2>4. Fpr[c] \notin S BY <1>3, <2>1, <2>2
  <2>5. Cardinality(S \cup {Fpr[c]}) = Cardinality(S) + 1 BY <2>3, <2>4, FS_AddElement
  <2>6. S \cup {Fpr[c]} \in SUBSET signed BY <2>1
  <2>7. IsFiniteSet(signed) /\ Cardinality(signed) \in Nat BY <1>3, FS_CardinalityType DEF WriterLowest
  <2>8. Cardinality(S \cup {Fpr[c]}) <= Cardinality(signed) BY <2>6, <2>7, FS_Subset
  <2> QED BY <2>1, <2>2, <2>3, <2>5, <2>7, <2>8
<1>4. ApprovalInv /\ WriterLowest => ForkTakesMore
  <2> SUFFICES ASSUME ApprovalInv, WriterLowest, NEW c \in wrote, NEW d \in wrote, Fpr[c] # Fpr[d]
      PROVE Cardinality(signed) > Quorum BY DEF ForkTakesMore
  <2>1. Fpr[c] \in Nat /\ Fpr[d] \in Nat BY FprAssumption DEF ApprovalInv, TypeOK
  <2>2. Fpr[c] < Fpr[d] \/ Fpr[d] < Fpr[c] BY <2>1
  <2> QED BY <1>3, <2>2
<1> QED BY <1>1, <1>2, <1>4, InvHolds, PTL DEF Spec
=============================================================================
