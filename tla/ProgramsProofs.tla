--------------------------- MODULE ProgramsProofs ---------------------------
(***************************************************************************)
(* Proofs about what opens war rooms from outside: the relay's alert       *)
(* socket and webhook (Ingest) and the programs in front of them           *)
(* (Adapters).  The first keeps its callers' limits by token buckets, and  *)
(* is proved fair for every rate and period; the second must not lose an   *)
(* alert on the way.                                                       *)
(***************************************************************************)
EXTENDS Adapters, FiniteSetTheorems, SequenceTheorems, TLAPS

------------------------------------------------------------------------------
(* The relay's limits.  A bucket is read against the history it leaves.  The invariant keeps *)
(* two accounts for every stretch of time that ends now: what was opened was paid for, and *)
(* what is missing was served.  The first bounds what a caller gets, the second what it may *)
(* be refused; neither property says enough of the buckets' levels to be inductive. *)

\* The relay and whoever sends to it.
IngestSpec == IngestInit /\ [][IngestNext]_ingestVars

\* Keys of the buckets that limit war rooms; the others limit requests.
SpawnKind(k) == k[1] \in {"spawn", "wh-spawn"}

\* A bucket, and the time its burst takes to come back.
Buckets == [level : Nat, burst : Nat, period : Nat]
PeriodOf(k) == IF SpawnKind(k) THEN Hour ELSE Minute

\* What Append adds to a sequence.
LEMMA AppendIs ==
  ASSUME NEW S, NEW s \in Seq(S), NEW x \in S, NEW t, t = Append(s, x)
  PROVE  /\ Len(s) + 1 \in Nat /\ t \in Seq(S) /\ DOMAIN t = DOMAIN s \cup {Len(s) + 1} /\ t[Len(s) + 1] = x
         /\ \A k \in DOMAIN s : t[k] = s[k]
<1>1. Len(s) \in Nat /\ DOMAIN s = 1..Len(s) OBVIOUS
<1>2. t \in Seq(S) /\ Len(t) = Len(s) + 1 /\ t[Len(s) + 1] = x OBVIOUS
<1>3. DOMAIN t = 1..(Len(s) + 1) BY <1>2
<1>4. 1..(Len(s) + 1) = 1..Len(s) \cup {Len(s) + 1} BY <1>1
<1>5. \A k \in DOMAIN s : t[k] = s[k] BY <1>1
<1> QED BY <1>1, <1>2, <1>3, <1>4, <1>5

\* Products of naturals: the facts the bounds below need.
LEMMA Times ==
  ASSUME NEW m \in Nat, NEW x \in Nat, NEW y \in Nat
  PROVE  /\ m * x \in Nat /\ m * (x + 1) = m * x + m /\ m * x = x * m
         /\ x <= y => m * x <= m * y
<1>1. m * x \in Nat /\ m * (x + 1) = m * x + m /\ m * x = x * m OBVIOUS
<1>2. ASSUME x <= y PROVE m * x <= m * y
  <2>1. PICK d \in Nat : y = x + d BY <1>2
  <2>2. m * y = m * x + m * d BY <2>1
  <2>3. m * d \in Nat /\ m * x \in Nat OBVIOUS
  <2> QED BY <2>2, <2>3
<1> QED BY <1>1, <1>2

\* A bucket that lacks a whole request lacks all that was served from it.
LEMMA AtLeast ==
  ASSUME NEW m \in Nat \ {0}, NEW c \in Nat, NEW b \in Nat, NEW lev \in Nat, lev < m, lev + m * c >= b * m
  PROVE  c >= b
<1> SUFFICES ASSUME c < b PROVE FALSE OBVIOUS
<1>1. m * (c + 1) <= m * b BY Times
<1>2. m * (c + 1) = m * c + m /\ m * b = b * m BY Times
<1>3. PICK p \in Nat, q \in Nat : p = m * c /\ q = b * m BY Times
<1> QED BY <1>1, <1>2, <1>3

\* What was opened, counted in whole requests.
LEMMA AtMost ==
  ASSUME NEW m \in Nat \ {0}, NEW c \in Nat, NEW b \in Nat, m * c <= b * m + b * m
  PROVE  c <= 2 * b
<1> SUFFICES ASSUME 2 * b < c PROVE FALSE OBVIOUS
<1>0. 2 * b \in Nat OBVIOUS
<1>1. m * (2 * b + 1) <= m * c BY <1>0, Times
<1>2. m * (2 * b + 1) = m * (2 * b) + m BY <1>0, Times
<1>3. m * (2 * b) = b * m + b * m OBVIOUS
<1>4. PICK p \in Nat, q \in Nat : p = m * c /\ q = b * m BY Times
<1> QED BY <1>1, <1>2, <1>3, <1>4

\* The rooms opened for a key after s and until t.
Within(S, k, s, t) == {w \in S : w.key = k /\ s < w.at /\ w.at <= t}

\* Every room opened since s was paid for: with what the bucket held at s, at most its
\* burst, or with what it has gained since.
PaidAt(l, S, k, t) ==
  \A s \in 0..t : l.period * Cardinality(Within(S, k, s, t)) + l.level <= l.burst * l.period + l.burst * (t - s)
\* A bucket within its bounds.
Fits(l) == l \in Buckets /\ l.level <= l.burst * l.period

\* Only finitely many rooms were opened.
LEMMA WithinFinite ==
  ASSUME NEW S, IsFiniteSet(S), NEW k, NEW s, NEW t
  PROVE  IsFiniteSet(Within(S, k, s, t)) /\ Cardinality(Within(S, k, s, t)) \in Nat
<1>1. Within(S, k, s, t) \subseteq S BY DEF Within
<1>2. IsFiniteSet(Within(S, k, s, t)) BY <1>1, FS_Subset
<1> QED BY <1>2, FS_CardinalityType

\* A bucket with another level is a bucket.
LEMMA BucketFacts ==
  ASSUME NEW l \in Buckets
  PROVE  /\ l.level \in Nat /\ l.burst \in Nat /\ l.period \in Nat /\ l.burst * l.period \in Nat
         /\ \A n \in Nat : /\ [l EXCEPT !.level = n] \in Buckets /\ [l EXCEPT !.level = n].level = n
                           /\ [l EXCEPT !.level = n].burst = l.burst /\ [l EXCEPT !.level = n].period = l.period
<1>1. l.level \in Nat /\ l.burst \in Nat /\ l.period \in Nat BY DEF Buckets
<1>2. l.burst * l.period \in Nat BY <1>1, Times
<1>3. ASSUME NEW n \in Nat PROVE /\ [l EXCEPT !.level = n] \in Buckets /\ [l EXCEPT !.level = n].level = n
                           /\ [l EXCEPT !.level = n].burst = l.burst /\ [l EXCEPT !.level = n].period = l.period
  BY DEF Buckets
<1> QED BY <1>1, <1>2, <1>3

\* A new bucket has nothing to pay for.
LEMMA PaidFresh ==
  ASSUME NEW l, Fits(l), NEW S, NEW k, NEW t \in Nat, \A w \in S : w.key # k
  PROVE  PaidAt(l, S, k, t)
<1> SUFFICES ASSUME NEW s \in 0..t
             PROVE  l.period * Cardinality(Within(S, k, s, t)) + l.level <= l.burst * l.period + l.burst * (t - s)
  BY DEF PaidAt
<1>1. Within(S, k, s, t) = {} BY DEF Within
<1>2. Cardinality(Within(S, k, s, t)) = 0 BY <1>1, FS_EmptySet
<1>3. PICK p \in Nat, b \in Nat, lev \in Nat, d \in Nat : p = l.period /\ b = l.burst /\ lev = l.level /\ d = t - s
  BY DEF Fits, Buckets
<1>4. lev <= b * p BY <1>3 DEF Fits
<1>5. b * p \in Nat /\ b * d \in Nat /\ p * 0 = 0 BY Times
<1>6. p * 0 + lev <= b * p + b * d BY <1>4, <1>5
<1> QED BY <1>2, <1>3, <1>6

\* Allow takes a request's worth for the room it lets through.
LEMMA PaidTaken ==
  ASSUME NEW l, Fits(l), NEW S, NEW k, NEW t \in Nat, PaidAt(l, S, k, t), IsFiniteSet(S), l.level >= l.period,
         NEW m \in Buckets, m.level = l.level - l.period, m.burst = l.burst, m.period = l.period,
         NEW w, NEW T, T \subseteq S \cup {w}
  PROVE  PaidAt(m, T, k, t) /\ Fits(m)
<1>3. PICK p \in Nat, b \in Nat, lev \in Nat : p = l.period /\ b = l.burst /\ lev = l.level
  BY DEF Fits, Buckets
<1>0. lev - p \in Nat /\ lev <= b * p /\ b * p \in Nat BY <1>3, Times DEF Fits
<1>4. m \in Buckets /\ m.level = lev - p /\ m.burst = b /\ m.period = p BY <1>3
<1>5. Fits(m) BY <1>0, <1>4 DEF Fits
<1>6. ASSUME NEW s \in 0..t
      PROVE  m.period * Cardinality(Within(T, k, s, t)) + m.level <= m.burst * m.period + m.burst * (t - s)
  <2>1. PICK A, B : A = Within(S, k, s, t) /\ B = Within(T, k, s, t) OBVIOUS
  <2>2. B \subseteq A \cup {w} BY <2>1 DEF Within
  <2>3. IsFiniteSet(A) /\ Cardinality(A) \in Nat BY <2>1, WithinFinite
  <2>4. IsFiniteSet(A \cup {w}) /\ Cardinality(A \cup {w}) <= Cardinality(A) + 1
        /\ Cardinality(A \cup {w}) \in Nat
    <3>1. IsFiniteSet(A \cup {w}) BY <2>3, FS_AddElement
    <3>2. Cardinality(A \cup {w}) \in Nat BY <3>1, FS_CardinalityType
    <3>3. Cardinality(A \cup {w}) = Cardinality(A) \/ Cardinality(A \cup {w}) = Cardinality(A) + 1
      BY <2>3, FS_AddElement
    <3> QED BY <2>3, <3>1, <3>2, <3>3
  <2>5. IsFiniteSet(B) /\ Cardinality(B) <= Cardinality(A \cup {w}) /\ Cardinality(B) \in Nat
    BY <2>2, <2>4, FS_Subset, FS_CardinalityType
  <2>6. PICK x \in Nat, y \in Nat, d \in Nat : x = Cardinality(A) /\ y = Cardinality(B) /\ d = t - s BY <2>3, <2>5
  <2>7. y <= x + 1 BY <2>3, <2>4, <2>5, <2>6
  <2>8. p * x + lev <= b * p + b * d BY <1>3, <2>1, <2>6 DEF PaidAt
  <2>0. PICK z \in Nat : z = x + 1 OBVIOUS
  <2>12. p * y <= p * z BY <2>0, <2>7, Times
  <2>13. p * (x + 1) = p * x + p BY Times
  <2>9. p * y <= p * x + p BY <2>0, <2>12, <2>13
  <2>10. p * x \in Nat /\ p * y \in Nat /\ b * d \in Nat BY Times
  <2>11. p * y + (lev - p) <= b * p + b * d BY <1>0, <2>8, <2>9, <2>10
  <2> QED BY <1>4, <2>1, <2>6, <2>11
<1> QED BY <1>5, <1>6 DEF PaidAt

\* What a bucket holds after a step of time.
LEMMA RefilledIs ==
  ASSUME NEW l, Fits(l)
  PROVE  /\ Fits(Refilled(l)) /\ Refilled(l).burst = l.burst /\ Refilled(l).period = l.period
         /\ Refilled(l).level = IF l.level + l.burst > l.burst * l.period THEN l.burst * l.period ELSE l.level + l.burst
<1>1. PICK n \in Nat : n = IF l.level + l.burst > l.burst * l.period THEN l.burst * l.period ELSE l.level + l.burst
  BY BucketFacts DEF Fits
<1>2. Refilled(l) = [l EXCEPT !.level = n] BY <1>1 DEF Refilled
<1>3. Refilled(l) \in Buckets /\ Refilled(l).level = n /\ Refilled(l).burst = l.burst /\ Refilled(l).period = l.period
  BY <1>2, BucketFacts DEF Fits
<1>4. PICK c \in Nat, x \in Nat : c = l.burst * l.period /\ x = l.level + l.burst BY BucketFacts DEF Fits
<1>5. n <= c BY <1>1, <1>4
<1> QED BY <1>1, <1>3, <1>4, <1>5 DEF Fits

\* Time adds no more than the bound grows.
LEMMA PaidTick ==
  ASSUME NEW l, Fits(l), NEW S, NEW k, NEW t \in Nat, PaidAt(l, S, k, t), IsFiniteSet(S),
         \A w \in S : w.at \in Nat /\ w.at <= t
  PROVE  PaidAt(Refilled(l), S, k, t + 1)
<1>1. PICK p \in Nat, b \in Nat, lev \in Nat : p = l.period /\ b = l.burst /\ lev = l.level BY DEF Fits, Buckets
<1>2. PICK n \in Nat : n = Refilled(l).level BY RefilledIs, BucketFacts DEF Fits
<1>3. b * p \in Nat BY Times
<1>4. n <= b * p /\ n <= lev + b BY <1>1, <1>2, <1>3, RefilledIs
<1>5. Refilled(l).burst = b /\ Refilled(l).period = p BY <1>1, RefilledIs
<1>6. ASSUME NEW s \in 0..(t + 1)
      PROVE  p * Cardinality(Within(S, k, s, t + 1)) + n <= b * p + b * ((t + 1) - s)
  <2>1. CASE s = t + 1
    <3>1. Within(S, k, s, t + 1) = {} BY <2>1 DEF Within
    <3>2. Cardinality(Within(S, k, s, t + 1)) = 0 BY <3>1, FS_EmptySet
    <3>3. p * 0 = 0 /\ b * ((t + 1) - s) = 0 BY <2>1
    <3> QED BY <1>3, <1>4, <3>2, <3>3
  <2>2. CASE s # t + 1
    <3>0. s \in 0..t BY <2>2
    <3>1. Within(S, k, s, t + 1) = Within(S, k, s, t) BY DEF Within
    <3>2. PICK x \in Nat, d \in Nat : x = Cardinality(Within(S, k, s, t)) /\ d = t - s BY <3>0, WithinFinite
    <3>3. p * x + lev <= b * p + b * d BY <1>1, <3>0, <3>2 DEF PaidAt
    <3>4. b * (d + 1) = b * d + b /\ b * d \in Nat /\ p * x \in Nat BY Times
    <3>5. p * x + n <= b * p + b * (d + 1) BY <1>3, <1>4, <3>3, <3>4
    <3>6. (t + 1) - s = d + 1 BY <3>0, <3>2
    <3> QED BY <3>1, <3>2, <3>5, <3>6
  <2> QED BY <2>1, <2>2
<1> QED BY <1>2, <1>5, <1>6 DEF PaidAt

\* The requests of a token that were let through, from s on.
OkIn(q, token, s) == {j \in DOMAIN q : q[j].token = token /\ q[j].ok /\ q[j].at >= s}

\* What is missing from a bucket was served from it: nothing is missing that was not, and
\* within one period the bucket has come back.
SpentAt(l, q, token, t) ==
  /\ l.level + Minute * Cardinality(OkIn(q, token, 0)) >= l.burst * Minute
  /\ \A s \in 0..t : l.level + Minute * Cardinality(OkIn(q, token, s))
                       >= IF t - s >= Minute THEN l.burst * Minute ELSE l.burst * (t - s)

\* Only finitely many requests were served.
LEMMA OkFinite ==
  ASSUME NEW S, NEW q \in Seq(S), NEW token, NEW s
  PROVE  IsFiniteSet(OkIn(q, token, s)) /\ Cardinality(OkIn(q, token, s)) \in Nat
<1>1. IsFiniteSet(DOMAIN q) BY FS_Interval, FS_CardinalityType
<1>2. OkIn(q, token, s) \subseteq DOMAIN q BY DEF OkIn
<1>3. IsFiniteSet(OkIn(q, token, s)) BY <1>1, <1>2, FS_Subset
<1> QED BY <1>3, FS_CardinalityType

\* Nothing is missing from a full bucket.
LEMMA SpentFull ==
  ASSUME NEW l, Fits(l), l.period = Minute, l.level = l.burst * Minute,
         NEW S, NEW q \in Seq(S), NEW token, NEW t \in Nat
  PROVE  SpentAt(l, q, token, t)
<1>1. PICK b \in Nat, M \in Nat : b = l.burst /\ M = Minute BY IngestAssumption DEF Fits, Buckets
<1>2. b * M \in Nat BY Times
<1>3. ASSUME NEW s PROVE l.level + M * Cardinality(OkIn(q, token, s)) >= b * M
  <2>1. PICK c \in Nat : c = Cardinality(OkIn(q, token, s)) BY OkFinite
  <2>2. M * c \in Nat BY Times
  <2> QED BY <1>1, <1>2, <2>1, <2>2
<1>4. ASSUME NEW s \in 0..t, ~(t - s >= M) PROVE l.level + M * Cardinality(OkIn(q, token, s)) >= b * (t - s)
  <2>1. PICK c \in Nat, d \in Nat : c = Cardinality(OkIn(q, token, s)) /\ d = t - s BY OkFinite
  <2>2. M * c \in Nat /\ b * d \in Nat BY Times
  <2>3. d <= M BY <1>4, <2>1
  <2>4. b * d <= b * M BY <2>3, Times
  <2>5. b * M + M * c >= b * d BY <1>2, <2>2, <2>4
  <2> QED BY <1>1, <2>1, <2>5
<1> QED BY <1>1, <1>3, <1>4 DEF SpentAt

\* A request that is let through takes from the bucket what it adds to the history.
LEMMA SpentTaken ==
  ASSUME NEW l, Fits(l), l.period = Minute, NEW S, NEW q \in Seq(S), NEW token, NEW t \in Nat, SpentAt(l, q, token, t),
         l.level >= Minute, NEW m \in Buckets, m.level = l.level - l.period, m.burst = l.burst, m.period = l.period,
         NEW x \in S, x.token = token, x.ok, x.at = t, NEW r, r = Append(q, x)
  PROVE  SpentAt(m, r, token, t) /\ Fits(m)
<1>1. PICK b \in Nat, M \in Nat, lev \in Nat : b = l.burst /\ M = Minute /\ lev = l.level
  BY IngestAssumption DEF Fits, Buckets
<1>0. lev <= b * M BY <1>1 DEF Fits
<1>8. lev - M \in Nat BY <1>1
<1>2. lev - M \in Nat /\ b * M \in Nat /\ lev <= b * M BY <1>0, <1>8, Times
<1>3. m \in Buckets /\ m.level = lev - M /\ m.burst = b /\ m.period = M BY <1>1
<1>4. Fits(m) BY <1>2, <1>3 DEF Fits
<1>5. ASSUME NEW s \in 0..t
      PROVE  \E c \in Nat : c = Cardinality(OkIn(q, token, s)) /\ Cardinality(OkIn(r, token, s)) = c + 1
                            /\ M * (c + 1) = M * c + M /\ M * c \in Nat
  <2>1. PICK n \in Nat : n = Len(q) + 1 BY LenProperties
  <2>2. DOMAIN r = DOMAIN q \cup {n} /\ r[n] = x /\ n \notin DOMAIN q /\ \A j \in DOMAIN q : r[j] = q[j]
    <3>1. DOMAIN r = DOMAIN q \cup {n} /\ r[n] = x /\ \A j \in DOMAIN q : r[j] = q[j] BY <2>1, AppendIs
    <3>2. n \notin DOMAIN q BY <2>1
    <3> QED BY <3>1, <3>2
  <2>3. PICK A, B : A = OkIn(q, token, s) /\ B = OkIn(r, token, s) OBVIOUS
  <2>4. B = A \cup {n} /\ n \notin A BY <2>2, <2>3 DEF OkIn
  <2>5. IsFiniteSet(A) /\ Cardinality(A) \in Nat BY <2>3, OkFinite
  <2>6. Cardinality(B) = Cardinality(A) + 1 BY <2>4, <2>5, FS_AddElement
  <2>7. PICK c \in Nat : c = Cardinality(A) BY <2>5
  <2>8. M * (c + 1) = M * c + M /\ M * c \in Nat BY Times
  <2> QED BY <2>3, <2>6, <2>7, <2>8
<1>6. m.level + Minute * Cardinality(OkIn(r, token, 0)) >= m.burst * Minute
  <2>1. PICK c \in Nat : c = Cardinality(OkIn(q, token, 0)) /\ Cardinality(OkIn(r, token, 0)) = c + 1
                         /\ M * (c + 1) = M * c + M /\ M * c \in Nat BY <1>5
  <2>2. lev + M * c >= b * M BY <1>1, <2>1 DEF SpentAt
  <2>3. (lev - M) + M * (c + 1) >= b * M BY <1>2, <2>1, <2>2
  <2> QED BY <1>1, <1>3, <2>1, <2>3
<1>7. ASSUME NEW s \in 0..t
      PROVE  m.level + Minute * Cardinality(OkIn(r, token, s))
                >= IF t - s >= Minute THEN m.burst * Minute ELSE m.burst * (t - s)
  <2>1. PICK c \in Nat : c = Cardinality(OkIn(q, token, s)) /\ Cardinality(OkIn(r, token, s)) = c + 1
                         /\ M * (c + 1) = M * c + M /\ M * c \in Nat BY <1>5
  <2>2. PICK d \in Nat : d = t - s OBVIOUS
  <2>3. PICK v \in Nat : v = IF d >= M THEN b * M ELSE b * d BY Times
  <2>4. lev + M * c >= v BY <1>1, <2>1, <2>2, <2>3 DEF SpentAt
  <2>5. (lev - M) + M * (c + 1) >= v BY <1>2, <2>1, <2>4
  <2> QED BY <1>1, <1>3, <2>1, <2>2, <2>3, <2>5
<1> QED BY <1>4, <1>6, <1>7 DEF SpentAt

\* Time gives back the burst over a period and never more than the burst.
LEMMA SpentTick ==
  ASSUME NEW l, Fits(l), l.period = Minute, NEW S, NEW q \in Seq(S), NEW token, NEW t \in Nat, SpentAt(l, q, token, t)
  PROVE  SpentAt(Refilled(l), q, token, t + 1)
<1>1. PICK b \in Nat, M \in Nat \ {0}, lev \in Nat : b = l.burst /\ M = Minute /\ lev = l.level
  BY IngestAssumption DEF Fits, Buckets
<1>2. PICK n \in Nat : n = Refilled(l).level BY RefilledIs, BucketFacts DEF Fits
<1>3. b * M \in Nat BY Times
<1>4. (n = b * M \/ n = lev + b) /\ n >= lev
  <2>1. n = IF lev + b > b * M THEN b * M ELSE lev + b BY <1>1, <1>2, RefilledIs
  <2>2. lev <= b * M BY <1>1 DEF Fits
  <2> QED BY <1>3, <2>1, <2>2
<1>5. Refilled(l).burst = b BY <1>1, RefilledIs
<1>6. n + M * Cardinality(OkIn(q, token, 0)) >= b * M
  <2>1. PICK c \in Nat : c = Cardinality(OkIn(q, token, 0)) BY OkFinite
  <2>2. lev + M * c >= b * M /\ M * c \in Nat BY <1>1, <2>1, Times DEF SpentAt
  <2> QED BY <1>3, <1>4, <2>1, <2>2
<1>7. ASSUME NEW s \in 0..(t + 1)
      PROVE  n + M * Cardinality(OkIn(q, token, s)) >= IF (t + 1) - s >= M THEN b * M ELSE b * ((t + 1) - s)
  <2>1. PICK c \in Nat : c = Cardinality(OkIn(q, token, s)) BY OkFinite
  <2>2. M * c \in Nat BY Times
  <2>3. CASE s = t + 1
    <3>1. (t + 1) - s = 0 /\ b * 0 = 0 BY <2>3
    <3>2. ~(0 >= M) BY <1>1, IngestAssumption
    <3>3. n + M * c >= b * 0 BY <2>2, <3>1
    <3> QED BY <2>1, <3>1, <3>2, <3>3
  <2>4. CASE s # t + 1
    <3>0. s \in 0..t BY <2>4
    <3>1. PICK d \in Nat : d = t - s BY <3>0
    <3>2. (t + 1) - s = d + 1 BY <3>0, <3>1
    <3>3. b * (d + 1) = b * d + b /\ b * d \in Nat /\ d + 1 \in Nat BY Times
    <3>4. lev + M * c >= IF d >= M THEN b * M ELSE b * d BY <1>1, <2>1, <3>0, <3>1 DEF SpentAt
    <3>5. d + 1 <= M => b * (d + 1) <= b * M BY <3>3, Times
    <3>6. n + M * c >= IF d + 1 >= M THEN b * M ELSE b * (d + 1)
      <4>1. CASE n = b * M
        <5>1. b * M + M * c >= b * M BY <1>3, <2>2
        <5>2. d + 1 <= M => b * M + M * c >= b * (d + 1) BY <1>3, <2>2, <3>3, <3>5
        <5> QED BY <4>1, <5>1, <5>2
      <4>2. CASE n = lev + b
        <5>1. CASE d >= M BY <1>3, <2>2, <3>4, <4>2, <5>1
        <5>2. CASE d < M
          <6>1. lev + M * c >= b * d BY <3>4, <5>2
          <6>2. n + M * c >= b * (d + 1) BY <2>2, <3>3, <4>2, <6>1
          <6>3. d + 1 >= M => d + 1 = M BY <5>2
          <6> QED BY <6>2, <6>3
        <5> QED BY <5>1, <5>2
      <4> QED BY <1>4, <4>1, <4>2
    <3> QED BY <2>1, <3>2, <3>6
  <2> QED BY <2>3, <2>4
<1> QED BY <1>1, <1>2, <1>5, <1>6, <1>7 DEF SpentAt

\* The history of webhook requests.
Serves == [at : Nat, token : STRING, ok : BOOLEAN]

\* Every bucket is within its bounds, with the period of its kind.
Kept(ls) == \A k \in DOMAIN ls : Fits(ls[k]) /\ ls[k].period = PeriodOf(k)

\* Every room opened was charged to a bucket that is still there.
Opened(ls, S, t) ==
  IsFiniteSet(S) /\ \A w \in S : w.at \in Nat /\ w.at <= t /\ w.key \in DOMAIN ls /\ SpawnKind(w.key)

\* Every request served was charged to a bucket that is still there.
Listed(ls, q, t) ==
  q \in Seq(Serves) /\ \A j \in DOMAIN q : q[j].at <= t /\ HookRateKey(q[j].token) \in DOMAIN ls

\* Both accounts, for all buckets.
AllPaid(ls, S, t) == \A k \in DOMAIN ls : SpawnKind(k) => PaidAt(ls[k], S, k, t)
AllSpent(ls, q, t) == \A k \in DOMAIN ls : k[1] = "wh-rate" => SpentAt(ls[k], q, k[2], t)

\* The two halves of LimitsFair, of the buckets and the history they are read from.
HourBefore(u) == IF u > Hour THEN u - Hour ELSE 0
SpawnsFair(ls, S) == \A w \in S : Cardinality(Within(S, w.key, HourBefore(w.at), w.at)) <= 2 * ls[w.key].burst
Mine(q, i) ==
  {j \in 1..(i - 1) : q[j].token = q[i].token /\ q[j].ok /\ q[j].at + Minute >= q[i].at}
HoldersFair(ls, q) ==
  \A i \in DOMAIN q : ~q[i].ok => Cardinality(Mine(q, i)) >= ls[HookRateKey(q[i].token)].burst

\* The books of a relay: buckets, rooms opened, requests served, and the time.
Books(ls, S, q, t) ==
  /\ t \in Nat /\ Kept(ls) /\ Opened(ls, S, t) /\ Listed(ls, q, t)
  /\ AllPaid(ls, S, t) /\ AllSpent(ls, q, t) /\ SpawnsFair(ls, S) /\ HoldersFair(ls, q)

\* The bucket l of a key, new or kept, and the buckets T once Allow has run on it.
TakenFrom(ls, key, l, T) ==
  /\ Fits(l) /\ l.period = PeriodOf(key)
  /\ key \in DOMAIN ls => l = ls[key]
  /\ key \notin DOMAIN ls => l.level = l.burst * l.period
  /\ DOMAIN T = DOMAIN ls \cup {key} /\ \A k \in DOMAIN ls : k # key => T[k] = ls[k]
  /\ Fits(T[key]) /\ T[key].period = l.period /\ T[key].burst = l.burst
  /\ l.level >= l.period => T[key].level = l.level - l.period
  /\ ~(l.level >= l.period) => T[key].level = l.level

\* Taken leaves a bucket within its bounds, its burst and the other buckets alone.
LEMMA TakenIs ==
  ASSUME NEW ls, Kept(ls), NEW key, NEW burst \in Nat, NEW per, per = PeriodOf(key),
         NEW l, l = limiter(ls, key, burst, per), NEW T, T = Taken(ls, key, burst, per)
  PROVE  TakenFrom(ls, key, l, T)
<1>1. PICK p \in Nat : p = PeriodOf(key) /\ p = per BY IngestAssumption DEF PeriodOf
<1>2. burst * p \in Nat BY Times
<1>3. l = limiter(ls, key, burst, p) BY <1>1
<1>4. key \in DOMAIN ls => l = ls[key] BY <1>3 DEF limiter
<1>5. key \notin DOMAIN ls => l = [level |-> burst * p, burst |-> burst, period |-> p] BY <1>3 DEF limiter
<1>6. Fits(l) /\ l.period = p
  <2>1. CASE key \in DOMAIN ls BY <1>1, <1>4, <2>1 DEF Kept
  <2>2. CASE key \notin DOMAIN ls BY <1>2, <1>5, <2>2 DEF Fits, Buckets
  <2> QED BY <2>1, <2>2
<1>7. PICK lev \in Nat, b \in Nat : lev = l.level /\ b = l.burst BY <1>6 DEF Fits, Buckets
<1>8. PICK left : left = IF l.level >= p THEN l.level - p ELSE l.level OBVIOUS
<1>9. T = [k \in DOMAIN ls \cup {key} |-> IF k = key THEN [l EXCEPT !.level = left] ELSE ls[k]]
  BY <1>1, <1>3, <1>8 DEF Taken
<1>10. DOMAIN T = DOMAIN ls \cup {key} /\ T[key] = [l EXCEPT !.level = left] /\ \A k \in DOMAIN ls : k # key => T[k] = ls[k]
  BY <1>9
<1>11. left \in Nat /\ left <= lev BY <1>7, <1>8
<1>12. T[key] \in Buckets /\ T[key].level = left /\ T[key].burst = l.burst /\ T[key].period = l.period
  BY <1>6, <1>10, <1>11, BucketFacts DEF Fits
<1>13. lev <= b * p /\ b * p \in Nat BY <1>6, <1>7, Times DEF Fits
<1>14. left <= b * p BY <1>11, <1>13
<1>15. Fits(T[key]) BY <1>6, <1>7, <1>12, <1>14 DEF Fits
<1>16. l.level >= l.period => T[key].level = l.level - l.period BY <1>6, <1>8, <1>12
<1>17. ~(l.level >= l.period) => T[key].level = l.level BY <1>6, <1>8, <1>12
<1>18. key \notin DOMAIN ls => l.level = l.burst * l.period BY <1>5
<1> QED BY <1>1, <1>4, <1>6, <1>10, <1>12, <1>15, <1>16, <1>17, <1>18 DEF TakenFrom

\* What taking from one bucket leaves as it was.
Rest(ls, S, q, t, key, T) ==
  /\ Kept(T) /\ Opened(T, S, t) /\ Listed(T, q, t) /\ SpawnsFair(T, S) /\ HoldersFair(T, q)
  /\ DOMAIN T = DOMAIN ls \cup {key}
  /\ \A k \in DOMAIN ls : T[k].burst = ls[k].burst /\ (k # key => T[k] = ls[k])

\* Whatever the bucket, what was settled before stays settled.
LEMMA TakenKeeps ==
  ASSUME NEW ls, NEW S, NEW q, NEW t, Books(ls, S, q, t), NEW key, NEW l, NEW T, TakenFrom(ls, key, l, T)
  PROVE  Rest(ls, S, q, t, key, T)
<1>0. Kept(ls) /\ Opened(ls, S, t) /\ Listed(ls, q, t) /\ SpawnsFair(ls, S) /\ HoldersFair(ls, q) BY DEF Books
<1>1. /\ key \in DOMAIN ls => l = ls[key]
      /\ DOMAIN T = DOMAIN ls \cup {key}
      /\ \A k \in DOMAIN ls : k # key => T[k] = ls[k]
      /\ Fits(T[key]) /\ T[key].period = PeriodOf(key) /\ T[key].burst = l.burst
  BY DEF TakenFrom
<1>2. Kept(T) BY <1>0, <1>1 DEF Kept
<1>3. Opened(T, S, t) BY <1>0, <1>1 DEF Opened
<1>4. Listed(T, q, t) BY <1>0, <1>1 DEF Listed
<1>5. \A k \in DOMAIN ls : T[k].burst = ls[k].burst BY <1>1
<1>6. SpawnsFair(T, S) BY <1>0, <1>5 DEF SpawnsFair, Opened
<1>7. HoldersFair(T, q) BY <1>0, <1>5 DEF HoldersFair, Listed
<1> QED BY <1>1, <1>2, <1>3, <1>4, <1>5, <1>6, <1>7 DEF Rest

\* A bucket neither account is about.
LEMMA TakeOther ==
  ASSUME NEW ls, NEW S, NEW q, NEW t, Books(ls, S, q, t), NEW key, NEW burst \in Nat,
         ~SpawnKind(key), key[1] # "wh-rate", NEW T, T = Taken(ls, key, burst, Minute)
  PROVE  Books(T, S, q, t)
<1>1. PICK l, per : per = Minute /\ per = PeriodOf(key) /\ l = limiter(ls, key, burst, per) BY DEF PeriodOf
<1>0. Kept(ls) BY DEF Books
<1>2. TakenFrom(ls, key, l, T) BY <1>0, <1>1, TakenIs
<1>3. Rest(ls, S, q, t, key, T) BY <1>2, TakenKeeps
<1>4. AllPaid(T, S, t) BY <1>3 DEF AllPaid, Books, Rest
<1>5. AllSpent(T, q, t) BY <1>3 DEF AllSpent, Books, Rest
<1> QED BY <1>3, <1>4, <1>5 DEF Books, Rest

\* A war room is opened only if its bucket allows it.
LEMMA TakeSpawn ==
  ASSUME NEW ls, NEW S, NEW q, NEW t, Books(ls, S, q, t), NEW key, NEW burst \in Nat,
         SpawnKind(key), NEW T, T = Taken(ls, key, burst, Hour), NEW R,
         R # S => /\ Allow(ls, key, burst, Hour)
                  /\ \E w : w.key = key /\ w.at = t /\ R = S \cup {w}
  PROVE  Books(T, R, q, t)
<1>1. PICK l, per : per = Hour /\ per = PeriodOf(key) /\ l = limiter(ls, key, burst, per) BY DEF PeriodOf
<1>0. /\ Kept(ls) /\ t \in Nat /\ Opened(ls, S, t) /\ AllPaid(ls, S, t) /\ AllSpent(ls, q, t) /\ SpawnsFair(ls, S)
      /\ Listed(ls, q, t) /\ IsFiniteSet(S)
  BY DEF Books, Opened
<1>2. TakenFrom(ls, key, l, T) BY <1>0, <1>1, TakenIs
<1>3. Rest(ls, S, q, t, key, T) BY <1>2, TakenKeeps
<1>4. Fits(l) /\ l.period = Hour BY <1>1, <1>2 DEF TakenFrom
<1>5. PaidAt(l, S, key, t)
  <2>1. CASE key \in DOMAIN ls BY <1>0, <1>2, <2>1 DEF AllPaid, TakenFrom
  <2>2. CASE key \notin DOMAIN ls
    <3>1. \A w \in S : w.key # key BY <1>0, <2>2 DEF Opened
    <3> QED BY <1>0, <1>4, <3>1, PaidFresh
  <2> QED BY <2>1, <2>2
<1>6. PICK w : (R # S => w.key = key /\ w.at = t /\ R = S \cup {w}) /\ S \subseteq R /\ R \subseteq S \cup {w}
  <2>1. CASE R = S BY <2>1
  <2>2. CASE R # S BY <2>2
  <2> QED BY <2>1, <2>2
<1>7. PICK m \in Buckets : m = T[key] /\ m.burst = l.burst /\ m.period = l.period BY <1>2 DEF TakenFrom, Fits
<1>8. PaidAt(m, R, key, t)
  <2>1. CASE l.level >= l.period
    <3>1. m.level = l.level - l.period BY <1>2, <1>7, <2>1 DEF TakenFrom
    <3> QED BY <1>0, <1>4, <1>5, <1>6, <1>7, <2>1, <3>1, PaidTaken
  <2>2. CASE ~(l.level >= l.period)
    <3>1. R = S BY <1>1, <1>4, <2>2 DEF Allow
    <3>2. m.level = l.level BY <1>2, <1>7, <2>2 DEF TakenFrom
    <3> QED BY <1>5, <1>7, <3>1, <3>2 DEF PaidAt
  <2> QED BY <2>1, <2>2
<1>9. AllPaid(T, R, t)
  <2> SUFFICES ASSUME NEW k \in DOMAIN T, SpawnKind(k) PROVE PaidAt(T[k], R, k, t) BY DEF AllPaid
  <2>1. CASE k = key BY <1>7, <1>8, <2>1
  <2>2. CASE k # key
    <3>1. k \in DOMAIN ls /\ T[k] = ls[k] BY <1>3, <2>2 DEF Rest
    <3>2. PaidAt(ls[k], S, k, t) BY <1>0, <3>1 DEF AllPaid
    <3>3. \A s : Within(R, k, s, t) = Within(S, k, s, t) BY <1>6, <2>2 DEF Within
    <3> QED BY <3>1, <3>2, <3>3 DEF PaidAt
  <2> QED BY <2>1, <2>2
<1>10. AllSpent(T, q, t) BY <1>0, <1>3 DEF AllSpent, Rest, SpawnKind
<1>11. Opened(T, R, t)
  <2>1. IsFiniteSet(R) BY <1>0, <1>6, FS_AddElement
  <2>2. Opened(T, S, t) /\ key \in DOMAIN T BY <1>3 DEF Rest
  <2> QED BY <1>0, <1>6, <2>1, <2>2 DEF Opened
<1>12. SpawnsFair(T, R)
  <2> SUFFICES ASSUME NEW x \in R PROVE Cardinality(Within(R, x.key, HourBefore(x.at), x.at)) <= 2 * T[x.key].burst
    BY DEF SpawnsFair
  <2>0. x.at \in Nat /\ x.at <= t /\ x.key \in DOMAIN T /\ SpawnKind(x.key) BY <1>11 DEF Opened
  <2>1. CASE x.at < t
    <3>0. ~(x.at = t) BY <1>0, <2>0, <2>1
    <3>1. x \in S BY <1>6, <3>0
    <3>2. Within(R, x.key, HourBefore(x.at), x.at) = Within(S, x.key, HourBefore(x.at), x.at) BY <1>0, <1>6, <2>0, <2>1 DEF Within
    <3> QED BY <1>3, <3>1, <3>2 DEF Rest, SpawnsFair
  <2>2. CASE x.at = t
    <3>1. PICK b \in Nat, h \in Nat \ {0}, c \in Nat, s \in 0..t :
            b = T[x.key].burst /\ h = T[x.key].period /\ h = Hour /\ s = HourBefore(t) /\ c = Cardinality(Within(R, x.key, s, t))
      <4>1. T[x.key] \in Buckets /\ T[x.key].period = Hour BY <1>3, <2>0 DEF Rest, Kept, Fits, PeriodOf
      <4>2. HourBefore(t) \in 0..t BY <1>0, IngestAssumption DEF HourBefore
      <4>3. Cardinality(Within(R, x.key, HourBefore(t), t)) \in Nat BY <1>11, WithinFinite DEF Opened
      <4> QED BY <4>1, <4>2, <4>3, IngestAssumption DEF Buckets
    <3>0. T[x.key].level \in Nat BY <1>3, <2>0 DEF Rest, Kept, Fits, Buckets
    <3>9. PICK d \in Nat : d = t - s BY <1>0
    <3>2. PICK lev \in Nat : lev = T[x.key].level BY <3>0
    <3>3. h * c + lev <= b * h + b * d BY <1>9, <2>0, <3>1, <3>2, <3>9 DEF AllPaid, PaidAt
    <3>4. d <= h BY <1>0, <3>1, <3>9 DEF HourBefore
    <3>5. b * d <= b * h BY <3>4, Times
    <3>6. h * c \in Nat /\ b * h \in Nat /\ b * d \in Nat BY Times
    <3>7. h * c <= b * h + b * h BY <3>3, <3>5, <3>6
    <3>8. c <= 2 * b BY <3>7, AtMost
    <3> QED BY <2>2, <3>1, <3>8
  <2> QED BY <1>0, <2>0, <2>1, <2>2
<1> QED BY <1>0, <1>3, <1>9, <1>10, <1>11, <1>12 DEF Books, Rest

\* One more request served takes nothing back.
LEMMA SpentMore ==
  ASSUME NEW l \in Buckets, NEW q \in Seq(Serves), NEW token, NEW t \in Nat, SpentAt(l, q, token, t),
         NEW x \in Serves, NEW r, r = Append(q, x), NEW m \in Buckets, m.level = l.level, m.burst = l.burst
  PROVE  SpentAt(m, r, token, t)
<1>1. PICK n : /\ r \in Seq(Serves) /\ DOMAIN r = DOMAIN q \cup {n} /\ \A j \in DOMAIN q : r[j] = q[j]
  <2>1. r \in Seq(Serves) /\ DOMAIN r = DOMAIN q \cup {Len(q) + 1} /\ \A j \in DOMAIN q : r[j] = q[j] BY AppendIs
  <2> QED BY <2>1
<1>2. PICK M \in Nat, lev \in Nat, b \in Nat : M = Minute /\ lev = l.level /\ b = l.burst BY IngestAssumption DEF Buckets
<1>3. ASSUME NEW s, NEW v, lev + M * Cardinality(OkIn(q, token, s)) >= v, v \in Nat
      PROVE  lev + M * Cardinality(OkIn(r, token, s)) >= v
  <2>1. OkIn(q, token, s) \subseteq OkIn(r, token, s) BY <1>1 DEF OkIn
  <2>2. IsFiniteSet(OkIn(r, token, s)) BY <1>1, OkFinite
  <2>3. Cardinality(OkIn(q, token, s)) <= Cardinality(OkIn(r, token, s)) BY <2>1, <2>2, FS_Subset
  <2>4. PICK c \in Nat : c = Cardinality(OkIn(q, token, s)) BY OkFinite
  <2>5. PICK d \in Nat : d = Cardinality(OkIn(r, token, s)) BY <1>1, OkFinite
  <2>6. M * c <= M * d BY <2>3, <2>4, <2>5, Times
  <2>7. M * c \in Nat /\ M * d \in Nat BY Times
  <2>8. lev + M * d >= v BY <1>3, <2>4, <2>6, <2>7
  <2> QED BY <2>5, <2>8
<1>4. lev + M * Cardinality(OkIn(r, token, 0)) >= b * M
  <2>1. b * M \in Nat BY Times
  <2> QED BY <1>2, <1>3, <2>1 DEF SpentAt
<1>5. ASSUME NEW s \in 0..t
      PROVE  lev + M * Cardinality(OkIn(r, token, s)) >= IF t - s >= M THEN b * M ELSE b * (t - s)
  <2>1. PICK d \in Nat : d = t - s OBVIOUS
  <2>2. PICK v \in Nat : v = IF d >= M THEN b * M ELSE b * d BY Times
  <2>3. lev + M * Cardinality(OkIn(q, token, s)) >= v BY <1>2, <2>1, <2>2 DEF SpentAt
  <2>4. lev + M * Cardinality(OkIn(r, token, s)) >= v BY <1>3, <2>3
  <2> QED BY <2>1, <2>2, <2>4
<1> QED BY <1>2, <1>4, <1>5 DEF SpentAt

\* A webhook request with the right token: refused only when its bucket lacks a request's worth.
LEMMA TakeServed ==
  ASSUME NEW ls, NEW S, NEW q, NEW t, Books(ls, S, q, t), NEW token \in STRING, NEW burst \in Nat,
         NEW T, T = Taken(ls, HookRateKey(token), burst, Minute), NEW ok \in BOOLEAN,
         ok <=> Allow(ls, HookRateKey(token), burst, Minute),
         NEW r, r = Append(q, [at |-> t, token |-> token, ok |-> ok])
  PROVE  Books(T, S, r, t)
<1>k. PICK key : key = HookRateKey(token) /\ key[1] = "wh-rate" /\ key[2] = token /\ ~SpawnKind(key)
  BY DEF HookRateKey, SpawnKind
<1>1. PICK l, per : per = Minute /\ per = PeriodOf(key) /\ l = limiter(ls, key, burst, per) BY <1>k DEF PeriodOf
<1>0. /\ Kept(ls) /\ t \in Nat /\ AllPaid(ls, S, t) /\ AllSpent(ls, q, t) /\ Listed(ls, q, t) /\ q \in Seq(Serves)
      /\ HoldersFair(ls, q)
  BY DEF Books, Listed
<1>2. TakenFrom(ls, key, l, T) BY <1>0, <1>1, <1>k, TakenIs
<1>3. Rest(ls, S, q, t, key, T) BY <1>2, TakenKeeps
<1>4. Fits(l) /\ l \in Buckets /\ l.period = Minute BY <1>1, <1>2 DEF TakenFrom, Fits
<1>5. SpentAt(l, q, token, t)
  <2>1. CASE key \in DOMAIN ls BY <1>0, <1>2, <1>k, <2>1 DEF AllSpent, TakenFrom
  <2>2. CASE key \notin DOMAIN ls
    <3>1. l.level = l.burst * Minute BY <1>2, <1>4, <2>2 DEF TakenFrom
    <3> QED BY <1>0, <1>4, <3>1, SpentFull
  <2> QED BY <2>1, <2>2
<1>6. PICK x \in Serves : x = [at |-> t, token |-> token, ok |-> ok] BY <1>0 DEF Serves
<1>7. x.at = t /\ x.token = token /\ x.ok = ok /\ r = Append(q, x) BY <1>6
<1>8. PICK n \in Nat : /\ r \in Seq(Serves) /\ DOMAIN r = DOMAIN q \cup {n} /\ r[n] = x /\ \A j \in DOMAIN q : r[j] = q[j]
                       /\ DOMAIN q = 1..(n - 1)
  <2>1. Len(q) + 1 \in Nat /\ r \in Seq(Serves) /\ DOMAIN r = DOMAIN q \cup {Len(q) + 1} /\ r[Len(q) + 1] = x
        /\ \A j \in DOMAIN q : r[j] = q[j]
    BY <1>0, <1>7, AppendIs
  <2>2. DOMAIN q = 1..((Len(q) + 1) - 1) BY <1>0
  <2> QED BY <2>1, <2>2
<1>9. PICK m \in Buckets : m = T[key] /\ m.burst = l.burst /\ m.period = l.period BY <1>2 DEF TakenFrom, Fits
<1>10. SpentAt(m, r, token, t)
  <2>1. CASE ok
    <3>1. l.level >= l.period /\ l.level >= Minute BY <1>1, <1>4, <1>k, <2>1 DEF Allow
    <3>2. m.level = l.level - l.period BY <1>2, <1>9, <3>1 DEF TakenFrom
    <3>3. x.ok /\ x.token = token /\ x.at = t BY <1>7, <2>1
    <3>4. r = Append(q, x) BY <1>7
    <3> QED BY <1>0, <1>4, <1>5, <1>9, <3>1, <3>2, <3>3, <3>4, SpentTaken, ZenonT(60)
  <2>2. CASE ~ok
    <3>1. ~(l.level >= l.period) BY <1>1, <1>4, <1>k, <2>2 DEF Allow
    <3>2. m.level = l.level BY <1>2, <1>9, <3>1 DEF TakenFrom
    <3> QED BY <1>0, <1>4, <1>5, <1>7, <1>9, <3>2, SpentMore
  <2> QED BY <2>1, <2>2
<1>11. AllSpent(T, r, t)
  <2> SUFFICES ASSUME NEW k \in DOMAIN T, k[1] = "wh-rate" PROVE SpentAt(T[k], r, k[2], t) BY DEF AllSpent
  <2>1. CASE k = key BY <1>9, <1>10, <1>k, <2>1
  <2>2. CASE k # key
    <3>1. k \in DOMAIN ls /\ T[k] = ls[k] BY <1>3, <2>2 DEF Rest
    <3>5. PICK tok : tok = k[2] OBVIOUS
    <3>2. PICK y \in Buckets : y = ls[k] BY <1>0, <3>1 DEF Kept, Fits
    <3>3. SpentAt(y, q, tok, t) BY <1>0, <3>1, <3>2, <3>5 DEF AllSpent
    <3>4. SpentAt(y, r, tok, t) BY <1>0, <1>7, <3>3, SpentMore
    <3> QED BY <3>1, <3>2, <3>4, <3>5
  <2> QED BY <2>1, <2>2
<1>12. AllPaid(T, S, t) BY <1>0, <1>3, <1>k DEF AllPaid, Rest
<1>13. Listed(T, r, t)
  <2>1. \A j \in DOMAIN q : q[j].at <= t /\ HookRateKey(q[j].token) \in DOMAIN T BY <1>3 DEF Rest, Listed
  <2>2. x.at <= t /\ HookRateKey(x.token) \in DOMAIN T BY <1>0, <1>3, <1>7, <1>k DEF Rest
  <2> QED BY <1>8, <2>1, <2>2 DEF Listed
<1>14. HoldersFair(T, r)
  <2> SUFFICES ASSUME NEW i \in DOMAIN r, ~r[i].ok PROVE Cardinality(Mine(r, i)) >= T[HookRateKey(r[i].token)].burst
    BY DEF HoldersFair
  <2>1. CASE i \in DOMAIN q
    <3>1. r[i] = q[i] /\ i \in Nat /\ i <= n BY <1>8, <2>1
    <3>2. \A j \in 1..(i - 1) : j \in DOMAIN q /\ r[j] = q[j] BY <1>8, <2>1
    <3>3. Mine(r, i) = Mine(q, i) BY <3>1, <3>2 DEF Mine
    <3>4. HoldersFair(T, q) BY <1>3 DEF Rest
    <3> QED BY <2>1, <3>1, <3>3, <3>4 DEF HoldersFair
  <2>2. CASE i = n
    <3>1. ~ok /\ r[i] = x BY <1>7, <1>8, <2>2
    <3>2. ~(l.level >= Minute) BY <1>1, <1>k, <3>1 DEF Allow
    <3>3. PICK M \in Nat \ {0}, lev \in Nat, b \in Nat : M = Minute /\ lev = l.level /\ b = l.burst
      BY <1>4, IngestAssumption DEF Buckets
    <3>15. t >= M => t - M \in 0..t BY <1>0
    <3>16. 0 \in 0..t BY <1>0
    <3>4. PICK s \in 0..t : s = IF t >= M THEN t - M ELSE 0 BY <3>15, <3>16
    <3>5. PICK c \in Nat : c = Cardinality(OkIn(q, token, s)) BY <1>0, OkFinite
    <3>6. lev + M * c >= b * M
      <4>1. CASE t >= M
        <5>1. t - s >= M BY <1>0, <3>4, <4>1
        <5> QED BY <1>5, <3>3, <3>5, <5>1 DEF SpentAt
      <4>2. CASE ~(t >= M)
        <5>1. s = 0 BY <3>4, <4>2
        <5> QED BY <1>5, <3>3, <3>5, <5>1 DEF SpentAt
      <4> QED BY <4>1, <4>2
    <3>7. lev < M BY <3>2, <3>3
    <3>8. c >= b BY <3>6, <3>7, AtLeast
    <3>9. OkIn(q, token, s) \subseteq Mine(r, i)
      <4> SUFFICES ASSUME NEW j \in OkIn(q, token, s) PROVE j \in Mine(r, i) OBVIOUS
      <4>1. j \in DOMAIN q /\ q[j].token = token /\ q[j].ok /\ q[j].at >= s BY DEF OkIn
      <4>2. r[j] = q[j] /\ j \in 1..(i - 1) BY <1>8, <2>2, <4>1
      <4>5. q[j] \in Serves BY <1>0, <4>1
      <4>3. PICK u \in Nat : u = q[j].at BY <4>5 DEF Serves
      <4>4. u + M >= t BY <1>0, <3>4, <4>1, <4>3
      <4> QED BY <1>7, <3>1, <3>3, <4>1, <4>2, <4>3, <4>4 DEF Mine
    <3>10. IsFiniteSet(Mine(r, i)) /\ Cardinality(Mine(r, i)) \in Nat
      <4>1. Mine(r, i) \subseteq DOMAIN q BY <1>8, <2>2 DEF Mine
      <4>2. IsFiniteSet(DOMAIN q) BY <1>8, FS_Interval
      <4> QED BY <4>1, <4>2, FS_Subset, FS_CardinalityType
    <3>11. Cardinality(OkIn(q, token, s)) <= Cardinality(Mine(r, i)) BY <3>9, <3>10, FS_Subset
    <3>12. T[HookRateKey(r[i].token)].burst = b BY <1>7, <1>9, <1>k, <3>1, <3>3
    <3>13. PICK e \in Nat : e = Cardinality(Mine(r, i)) BY <3>10
    <3>14. e >= b BY <3>5, <3>8, <3>11, <3>13
    <3> QED BY <3>12, <3>13, <3>14
  <2> QED BY <1>8, <2>1, <2>2
<1> QED BY <1>0, <1>3, <1>11, <1>12, <1>13, <1>14 DEF Books, Rest

\* Time passes for every bucket at once.
LEMMA BooksTick ==
  ASSUME NEW ls, NEW S, NEW q, NEW t, Books(ls, S, q, t),
         NEW T, T = [k \in DOMAIN ls |-> Refilled(ls[k])], NEW u, u = t + 1
  PROVE  Books(T, S, q, u)
<1>0. /\ t \in Nat /\ u \in Nat /\ Kept(ls) /\ Opened(ls, S, t) /\ Listed(ls, q, t) /\ AllPaid(ls, S, t)
      /\ AllSpent(ls, q, t) /\ SpawnsFair(ls, S) /\ HoldersFair(ls, q)
  BY DEF Books
<1>1. DOMAIN T = DOMAIN ls /\ \A k \in DOMAIN ls : T[k] = Refilled(ls[k]) OBVIOUS
<1>2. ASSUME NEW k \in DOMAIN ls PROVE Fits(T[k]) /\ T[k].burst = ls[k].burst /\ T[k].period = ls[k].period
  <2>1. PICK l : l = ls[k] /\ Fits(l) BY <1>0 DEF Kept
  <2>2. Fits(Refilled(l)) /\ Refilled(l).burst = l.burst /\ Refilled(l).period = l.period BY <2>1, RefilledIs
  <2> QED BY <1>1, <2>1, <2>2
<1>3. Kept(T) BY <1>0, <1>1, <1>2 DEF Kept
<1>4. Opened(T, S, u)
  <2>1. \A w \in S : w.at \in Nat /\ w.at <= u BY <1>0 DEF Opened
  <2> QED BY <1>0, <1>1, <2>1 DEF Opened
<1>5. Listed(T, q, u)
  <2>1. \A j \in DOMAIN q : q[j].at <= u
    <3> SUFFICES ASSUME NEW j \in DOMAIN q PROVE q[j].at <= u OBVIOUS
    <3>1. q[j] \in Serves BY <1>0 DEF Listed
    <3>2. q[j].at \in Nat /\ q[j].at <= t BY <1>0, <3>1 DEF Serves, Listed
    <3> QED BY <1>0, <3>2
  <2> QED BY <1>0, <1>1, <2>1 DEF Listed
<1>6. AllPaid(T, S, u)
  <2> SUFFICES ASSUME NEW k \in DOMAIN ls, SpawnKind(k) PROVE PaidAt(T[k], S, k, u) BY <1>1 DEF AllPaid
  <2>1. PICK l : l = ls[k] /\ Fits(l) BY <1>0 DEF Kept
  <2>2. PaidAt(l, S, k, t) BY <1>0, <2>1 DEF AllPaid
  <2>3. PaidAt(Refilled(l), S, k, t + 1) BY <1>0, <2>1, <2>2, PaidTick DEF Opened
  <2> QED BY <1>1, <2>1, <2>3
<1>7. AllSpent(T, q, u)
  <2> SUFFICES ASSUME NEW k \in DOMAIN ls, k[1] = "wh-rate" PROVE SpentAt(T[k], q, k[2], u) BY <1>1 DEF AllSpent
  <2>1. PICK l : l = ls[k] /\ Fits(l) /\ l.period = Minute BY <1>0 DEF Kept, PeriodOf, SpawnKind
  <2>2. PICK token : token = k[2] OBVIOUS
  <2>3. SpentAt(l, q, token, t) BY <1>0, <2>1, <2>2 DEF AllSpent
  <2>4. q \in Seq(Serves) BY <1>0 DEF Listed
  <2>5. SpentAt(Refilled(l), q, token, t + 1) BY <1>0, <2>1, <2>3, <2>4, SpentTick
  <2> QED BY <1>1, <2>1, <2>2, <2>5
<1>8. SpawnsFair(T, S) BY <1>0, <1>2 DEF SpawnsFair, Opened
<1>9. HoldersFair(T, q) BY <1>0, <1>2 DEF HoldersFair, Listed
<1> QED BY <1>0, <1>3, <1>4, <1>5, <1>6, <1>7, <1>8, <1>9 DEF Books

\* The caps in force, after normalize, and the tokens.
Caps ==
  /\ \A s \in DOMAIN cfg.sources : RateOf(s) \in Nat /\ SpawnOf(s) \in Nat
  /\ \A r \in DOMAIN cfg.rooms : WebhookRate(r) \in Nat /\ WebhookSpawn(r) \in Nat /\ cfg.rooms[r].token \in STRING
  /\ cfg.webhook.unauth \in Nat

\* The invariant behind LimitsFair.
LimitsInv == Caps /\ Books(limiters, spawned, served, clock)

\* It holds at the start, for every file that loads.
LEMMA LimitsInit == IngestInit => LimitsInv
<1> SUFFICES ASSUME IngestInit PROVE LimitsInv OBVIOUS
<1>1. PICK raw \in RawConfigs : cfg = normalize(raw) BY DEF IngestInit
<1>2. /\ raw = [sources |-> raw.sources, routes |-> raw.routes, rooms |-> raw.rooms, webhook |-> raw.webhook,
                window |-> raw.window, skew |-> raw.skew, tls |-> raw.tls]
      /\ \A s \in DOMAIN raw.sources : raw.sources[s].rate \in Int /\ raw.sources[s].spawn \in Int
      /\ \A x \in DOMAIN raw.rooms : raw.rooms[x].rate \in Int /\ raw.rooms[x].spawn \in Int /\ raw.rooms[x].token \in STRING
      /\ raw.webhook.rate \in Int /\ raw.webhook.spawn \in Int /\ raw.webhook.unauth \in Int
  BY ConfigsAssumption
<1>3. \A n \in Int, d \in Nat : Positive(n, d) \in Nat BY DEF Positive
<1>4. DefaultRate \in Nat /\ DefaultSpawn \in Nat /\ DefaultUnauth \in Nat BY IngestAssumption
<1>5. PICK hook : hook = [rate |-> Positive(raw.webhook.rate, DefaultRate), spawn |-> Positive(raw.webhook.spawn, DefaultSpawn),
                          unauth |-> Positive(raw.webhook.unauth, DefaultUnauth)] OBVIOUS
<1>6. hook.rate \in Nat /\ hook.spawn \in Nat /\ hook.unauth \in Nat BY <1>2, <1>3, <1>4, <1>5
<1>7. cfg.sources = raw.sources /\ cfg.rooms = raw.rooms /\ cfg.webhook = hook BY <1>1, <1>2, <1>5 DEF normalize
<1>8. Caps BY <1>2, <1>3, <1>4, <1>6, <1>7 DEF Caps, RateOf, SpawnOf, WebhookRate, WebhookSpawn
<1>9. clock \in Nat /\ DOMAIN limiters = {} /\ spawned = {} /\ served = <<>> BY DEF IngestInit
<1>10. IsFiniteSet({}) BY FS_EmptySet
<1>11. <<>> \in Seq(Serves) /\ DOMAIN <<>> = {} OBVIOUS
<1> QED BY <1>8, <1>9, <1>10, <1>11
  DEF LimitsInv, Books, Kept, Opened, Listed, AllPaid, AllSpent, SpawnsFair, HoldersFair

\* It reads nothing else.
LEMMA LimitsStill ==
  ASSUME LimitsInv, UNCHANGED <<cfg, clock, limiters, spawned, served>>
  PROVE  LimitsInv'
<1>1. Caps' BY DEF LimitsInv, Caps, RateOf, SpawnOf, WebhookRate, WebhookSpawn
<1>2. Books(limiters, spawned, served, clock)' BY DEF LimitsInv
<1> QED BY <1>1, <1>2 DEF LimitsInv

\* The configuration is read once.
LEMMA CapsStay ==
  ASSUME Caps, cfg' = cfg
  PROVE  Caps'
BY DEF Caps, RateOf, SpawnOf, WebhookRate, WebhookSpawn

\* spawnWarRoom adds one room to the history, at this time and for this key.
LEMMA SpawnAdds ==
  ASSUME NEW rule, NEW key, NEW notice, NEW a, spawnWarRoom(rule, key, notice, a)
  PROVE  \E w : w.key = key /\ w.at = clock /\ spawned' = spawned \cup {w}
<1>1. PICK w : w = [id |-> Cardinality(spawned) + 1, at |-> clock, key |-> key, alert |-> a] OBVIOUS
<1>2. w.key = key /\ w.at = clock BY <1>1
<1>3. spawned' = spawned \cup {w} BY <1>1 DEF spawnWarRoom
<1> QED BY <1>2, <1>3

\* The alert socket: the source's rate, then its spawn cap.
LEMMA LimitsAlert ==
  ASSUME LimitsInv, NEW a, a.source \in DOMAIN cfg.sources, alertHandled(a)
  PROVE  LimitsInv'
<1>0. Caps /\ Books(limiters, spawned, served, clock) BY DEF LimitsInv
<1>1. PICK rate \in Nat, cap \in Nat : rate = RateOf(a.source) /\ cap = SpawnOf(a.source) BY <1>0 DEF Caps
<1>8. PICK rk, sk : rk = RateKey(a.source) /\ sk = SpawnKey(a.source) OBVIOUS
<1>9. rk[1] = "source" /\ sk[1] = "spawn" BY <1>8 DEF RateKey, SpawnKey
<1>2. /\ rk = RateKey(a.source) /\ sk = SpawnKey(a.source) /\ ~SpawnKind(rk) /\ rk[1] # "wh-rate"
      /\ SpawnKind(sk) /\ sk # rk
  BY <1>8, <1>9 DEF SpawnKind
<1>3. PICK rated : rated = Taken(limiters, rk, rate, Minute) OBVIOUS
<1>4. Books(rated, spawned, served, clock) BY <1>0, <1>2, <1>3, TakeOther
<1>5. cfg' = cfg /\ clock' = clock /\ served' = served BY DEF alertHandled
<1>6. CASE Passes(a) /\ Match(a.payload) # 0
  <2>1. limiters' = Taken(rated, sk, cap, Hour) BY <1>1, <1>2, <1>3, <1>6 DEF alertHandled
  <2>2. spawned' # spawned => Allow(rated, sk, cap, Hour) /\ \E w : w.key = sk /\ w.at = clock /\ spawned' = spawned \cup {w}
    <3> SUFFICES ASSUME spawned' # spawned
                 PROVE  Allow(rated, sk, cap, Hour) /\ \E w : w.key = sk /\ w.at = clock /\ spawned' = spawned \cup {w}
      OBVIOUS
    <3>1. Opens(a) BY DEF alertHandled
    <3>2. Allow(limiters, sk, cap, Hour) BY <1>1, <1>2, <3>1 DEF Opens
    <3>3. limiter(rated, sk, cap, Hour) = limiter(limiters, sk, cap, Hour) BY <1>2, <1>3 DEF limiter, Taken
    <3>4. Allow(rated, sk, cap, Hour) BY <3>2, <3>3 DEF Allow
    <3>5. PICK rule, n : spawnWarRoom(rule, sk, TRUE, n) BY <1>2, <3>1 DEF alertHandled
    <3>6. \E w : w.key = sk /\ w.at = clock /\ spawned' = spawned \cup {w} BY <3>5, SpawnAdds
    <3> QED BY <3>4, <3>6
  <2>3. PICK T, R : T = limiters' /\ R = spawned' OBVIOUS
  <2>4. Books(T, R, served, clock) BY <1>2, <1>4, <2>1, <2>2, <2>3, TakeSpawn
  <2> QED BY <1>0, <1>5, <2>3, <2>4, CapsStay DEF LimitsInv
<1>7. CASE ~(Passes(a) /\ Match(a.payload) # 0)
  <2>1. limiters' = rated /\ spawned' = spawned BY <1>1, <1>2, <1>3, <1>7 DEF alertHandled, Opens
  <2> QED BY <1>0, <1>4, <1>5, <2>1, CapsStay DEF LimitsInv
<1> QED BY <1>6, <1>7

\* The webhook: the token's rate, then its spawn cap.
LEMMA LimitsHook ==
  ASSUME LimitsInv, NEW room \in DOMAIN cfg.rooms, NEW token, NEW payload, webhook(room, token, payload)
  PROVE  LimitsInv'
<1>0. Caps /\ Books(limiters, spawned, served, clock) BY DEF LimitsInv
<1>1. PICK rate \in Nat, cap \in Nat : rate = WebhookRate(room) /\ cap = WebhookSpawn(room) BY <1>0 DEF Caps
<1>2. token \in STRING BY <1>0 DEF Caps, webhook, TokenFits
<1>3. PICK rk, sk : rk = HookRateKey(token) /\ sk = HookSpawnKey(token) OBVIOUS
<1>4. rk[1] = "wh-rate" /\ sk[1] = "wh-spawn" BY <1>3 DEF HookRateKey, HookSpawnKey
<1>5. SpawnKind(sk) /\ sk # rk BY <1>4 DEF SpawnKind
<1>6. PICK ok \in BOOLEAN : ok <=> Allow(limiters, rk, rate, Minute) BY Zenon
<1>7. webhookAdmit(room, token, ok, payload)
  <2>1. webhookAdmit(room, token, Allow(limiters, rk, rate, Minute), payload) BY <1>1, <1>3 DEF webhook
  <2>2. Allow(limiters, rk, rate, Minute) \in BOOLEAN BY DEF Allow
  <2>3. ok = Allow(limiters, rk, rate, Minute) BY <1>6, <2>2
  <2> QED BY <2>1, <2>3
<1>8. PICK rated : rated = Taken(limiters, rk, rate, Minute) OBVIOUS
<1>9. PICK q : q = Append(served, [at |-> clock, token |-> token, ok |-> ok]) OBVIOUS
<1>10. Books(rated, spawned, q, clock) BY <1>0, <1>2, <1>3, <1>6, <1>8, <1>9, TakeServed
<1>11. cfg' = cfg /\ clock' = clock /\ served' = q BY <1>7, <1>9 DEF webhookAdmit
<1>12. CASE ok /\ payload # {} /\ Match(payload) # 0
  <2>1. limiters' = Taken(rated, sk, cap, Hour) BY <1>1, <1>3, <1>7, <1>8, <1>12 DEF webhookAdmit
  <2>2. spawned' # spawned => Allow(rated, sk, cap, Hour) /\ \E w : w.key = sk /\ w.at = clock /\ spawned' = spawned \cup {w}
    <3> SUFFICES ASSUME spawned' # spawned
                 PROVE  Allow(rated, sk, cap, Hour) /\ \E w : w.key = sk /\ w.at = clock /\ spawned' = spawned \cup {w}
      OBVIOUS
    <3>1. Allow(rated, sk, cap, Hour) BY <1>1, <1>3, <1>7, <1>8 DEF webhookAdmit
    <3>2. PICK rule : spawnWarRoom(rule, sk, FALSE, 0) BY <1>1, <1>3, <1>7, <1>8 DEF webhookAdmit
    <3>3. \E w : w.key = sk /\ w.at = clock /\ spawned' = spawned \cup {w} BY <3>2, SpawnAdds
    <3> QED BY <3>1, <3>3
  <2>3. PICK T, R : T = limiters' /\ R = spawned' OBVIOUS
  <2>4. Books(T, R, q, clock) BY <1>5, <1>10, <2>1, <2>2, <2>3, TakeSpawn
  <2> QED BY <1>0, <1>11, <2>3, <2>4, CapsStay DEF LimitsInv
<1>13. CASE ~(ok /\ payload # {} /\ Match(payload) # 0)
  <2>1. limiters' = rated /\ spawned' = spawned BY <1>1, <1>3, <1>7, <1>8, <1>13 DEF webhookAdmit
  <2> QED BY <1>0, <1>10, <1>11, <2>1, CapsStay DEF LimitsInv
<1> QED BY <1>12, <1>13

\* A step of time.
LEMMA LimitsElapse ==
  ASSUME LimitsInv, Elapse
  PROVE  LimitsInv'
<1>0. Caps /\ Books(limiters, spawned, served, clock) BY DEF LimitsInv
<1>1. PICK T, u : T = limiters' /\ u = clock' OBVIOUS
<1>2. T = [k \in DOMAIN limiters |-> Refilled(limiters[k])] /\ u = clock + 1 BY <1>1 DEF Elapse
<1>3. Books(T, spawned, served, u) BY <1>0, <1>2, BooksTick
<1>4. cfg' = cfg /\ spawned' = spawned /\ served' = served BY DEF Elapse
<1> QED BY <1>0, <1>1, <1>3, <1>4, CapsStay DEF LimitsInv

\* Every step of the relay.
LEMMA LimitsStep ==
  ASSUME LimitsInv, IngestNext
  PROVE  LimitsInv'
<1>1. ASSUME NEW s, NEW p, NEW ts, NEW good, PostAlert(s, p, ts, good) PROVE LimitsInv'
  BY <1>1, LimitsStill DEF PostAlert
<1>2. ASSUME NEW a, AlertUnknown(a) PROVE LimitsInv' BY <1>2, LimitsStill DEF AlertUnknown
<1>3. ASSUME NEW a, alert(a) PROVE LimitsInv' BY <1>3, LimitsAlert DEF alert
<1>4. ASSUME NEW room, NEW token, webhookRejected(room, token) PROVE LimitsInv'
  <2>0. Caps /\ Books(limiters, spawned, served, clock) BY DEF LimitsInv
  <2>1. PICK key, T : key = UnauthKey /\ T = limiters' OBVIOUS
  <2>2. key[1] = "wh-unauth" BY <2>1 DEF UnauthKey
  <2>3. ~SpawnKind(key) /\ key[1] # "wh-rate" BY <2>2 DEF SpawnKind
  <2>4. PICK cap \in Nat : cap = cfg.webhook.unauth BY <2>0 DEF Caps
  <2>5. T = Taken(limiters, key, cap, Minute) BY <1>4, <2>1, <2>4 DEF webhookRejected
  <2>6. Books(T, spawned, served, clock) BY <2>0, <2>3, <2>5, TakeOther
  <2>7. cfg' = cfg /\ clock' = clock /\ spawned' = spawned /\ served' = served BY <1>4 DEF webhookRejected
  <2> QED BY <2>0, <2>1, <2>6, <2>7, CapsStay DEF LimitsInv
<1>5. ASSUME NEW room \in DOMAIN cfg.rooms, NEW token, NEW p, webhook(room, token, p) PROVE LimitsInv' BY <1>5, LimitsHook
<1>6. ASSUME Elapse PROVE LimitsInv' BY <1>6, LimitsElapse
<1>7. ASSUME sweep PROVE LimitsInv' BY <1>7, LimitsStill DEF sweep
<1> QED BY <1>1, <1>2, <1>3, <1>4, <1>5, <1>6, <1>7 DEF IngestNext

\* What the invariant says of callers.
LEMMA LimitsGive == LimitsInv => LimitsFair
<1> SUFFICES ASSUME LimitsInv PROVE LimitsFair OBVIOUS
<1>1. SpawnsFair(limiters, spawned) /\ HoldersFair(limiters, served) BY DEF LimitsInv, Books
<1>2. SpawnsBounded BY <1>1 DEF SpawnsFair, SpawnsBounded, OpenedBy, Within, HourBefore
<1>3. HolderServed BY <1>1 DEF HoldersFair, HolderServed, Mine
<1> QED BY <1>2, <1>3 DEF LimitsFair

\* However alerts and webhook requests are repeated, delayed and mixed, and for every rate,
\* cap and period: no source or token opens more than twice its cap of war rooms within an
\* hour, and a token's holder is refused only for its own requests of the minute before
\* (Guards.AllowSpawn, AllowWebhookSpawn, AllowWebhookRequest).
THEOREM LimitsStayFair == IngestSpec => []LimitsFair
<1>1. LimitsInv /\ [IngestNext]_ingestVars => LimitsInv'
  <2> SUFFICES ASSUME LimitsInv, [IngestNext]_ingestVars PROVE LimitsInv' OBVIOUS
  <2>1. CASE IngestNext BY <2>1, LimitsStep
  <2>2. CASE UNCHANGED ingestVars BY <2>2, LimitsStill DEF ingestVars
  <2> QED BY <2>1, <2>2
<1> QED BY <1>1, LimitsInit, LimitsGive, PTL DEF IngestSpec

------------------------------------------------------------------------------
(* The programs in front of it.  The invariant follows a delivery's cursor: an item behind *)
(* it may be left out or was accepted, unless an item failed, and then the delivery can no *)
(* longer be answered 200. *)

\* The adapters in front of the relay, with the senders' deliveries and repeats.
AdaptersSpec == IngestInit /\ AdaptersInit /\ [][AdaptersNext]_<<ingestVars, adapterVars>>

\* A severity has a rank, negative when it is unknown.
LEMMA RankIsInt ==
  ASSUME NEW sev
  PROVE  SeverityRank(sev) \in Int
BY DEF SeverityRank

\* MeetsMin turns away only a severity known to be below the minimum.
LEMMA BelowMin ==
  ASSUME NEW sev, ~MeetsMin(sev, setup.min)
  PROVE  setup.min # "" /\ SeverityRank(sev) >= 0 /\ SeverityRank(sev) < SeverityRank(setup.min)
<1>1. PICK a \in Int : a = SeverityRank(sev) BY RankIsInt
<1>2. PICK b \in Int : b = SeverityRank(setup.min) BY RankIsInt
<1>3. setup.min # "" BY DEF MeetsMin
<1>4. ~(a < 0) /\ ~(b < 0) /\ ~(a >= b) BY <1>1, <1>2 DEF MeetsMin
<1>5. a >= 0 BY <1>4
<1>6. a < b BY <1>4
<1> QED BY <1>1, <1>2, <1>3, <1>5, <1>6

\* The same of an event that was translated and then filtered.
LEMMA FilteredIsBelow ==
  ASSUME NEW sev, NEW kind, NEW ts, AboveMin(Out(sev, kind, ts)).do = "ignore"
  PROVE  setup.min # "" /\ SeverityRank(sev) >= 0 /\ SeverityRank(sev) < SeverityRank(setup.min)
<1>1. Out(sev, kind, ts).sev = sev /\ Out(sev, kind, ts).do = "send" BY DEF Out
<1>2. ~MeetsMin(sev, setup.min) BY <1>1 DEF AboveMin
<1> QED BY <1>2, BelowMin

\* Whatever a program ignores, it may leave out: one case for each of the nine.
LEMMA IgnoredMayBeOmitted ==
  ASSUME NEW e \in Items, Decide(e).do = "ignore",
         setup.ad \in Programs
  PROVE  LeftOut(e)
<1>1. CASE setup.ad = "paging"
  <2>1. Decide(e) = handlePaging(e) BY <1>1 DEF Decide
  <2>2. CASE setup.mode = "pd"
    <3>1. handlePaging(e) = AboveMin(translatePagerDuty(e)) BY <2>2 DEF handlePaging
    <3>2. SeverityOf(e) = mapPDUrgency(e.label) BY <1>1, <2>2 DEF SeverityOf
    <3>3. CASE ~e.opens \/ ~e.named BY <3>3 DEF LeftOut, MayOmit
    <3>4. CASE e.opens /\ e.named
      <4>1. translatePagerDuty(e) = Out(SeverityOf(e), "page", clock) BY <3>2, <3>4 DEF translatePagerDuty
      <4>2. Decide(e) = AboveMin(Out(SeverityOf(e), "page", clock)) BY <2>1, <3>1, <4>1
      <4> QED BY <4>2, FilteredIsBelow DEF LeftOut, MayOmit, ReadAsMedium, BelowMinimum
    <3> QED BY <3>3, <3>4
  <2>3. CASE setup.mode # "pd"
    <3>1. handlePaging(e) = AboveMin(translateOpsgenie(e)) BY <2>3 DEF handlePaging
    <3>2. SeverityOf(e) = mapOGPriority(e.label) BY <1>1, <2>3 DEF SeverityOf
    <3>3. CASE ~e.opens \/ ~e.named BY <3>3 DEF LeftOut, MayOmit
    <3>4. CASE e.opens /\ e.named
      <4>1. translateOpsgenie(e) = Out(SeverityOf(e), "page", clock) BY <3>2, <3>4 DEF translateOpsgenie
      <4>2. Decide(e) = AboveMin(Out(SeverityOf(e), "page", clock)) BY <2>1, <3>1, <4>1
      <4> QED BY <4>2, FilteredIsBelow DEF LeftOut, MayOmit, ReadAsMedium, BelowMinimum
    <3> QED BY <3>3, <3>4
  <2> QED BY <2>2, <2>3
<1>2. CASE setup.ad = "siem"
  <2>1. Decide(e) = handleSiem(e) BY <1>2 DEF Decide
  <2>2. CASE setup.mode = "splunk"
    <3>1. handleSiem(e) = AboveMin(translateSplunk(e)) BY <2>2 DEF handleSiem
    <3>2. SeverityOf(e) = mapSplunkSeverity(e.label) BY <1>2, <2>2 DEF SeverityOf
    <3>3. CASE ~e.named BY <3>3 DEF LeftOut, MayOmit
    <3>4. CASE e.named
      <4>1. translateSplunk(e) = Out(SeverityOf(e), "siem", e.at) BY <3>2, <3>4 DEF translateSplunk
      <4>2. Decide(e) = AboveMin(Out(SeverityOf(e), "siem", e.at)) BY <2>1, <3>1, <4>1
      <4> QED BY <4>2, FilteredIsBelow DEF LeftOut, MayOmit, ReadAsMedium, BelowMinimum
    <3> QED BY <3>3, <3>4
  <2>3. CASE setup.mode # "splunk"
    <3>1. handleSiem(e) = AboveMin(translateSentinel(e)) BY <2>3 DEF handleSiem
    <3>2. SeverityOf(e) = mapSentinelSeverity(e.label) BY <1>2, <2>3 DEF SeverityOf
    <3>3. CASE ~e.named BY <3>3 DEF LeftOut, MayOmit
    <3>4. CASE e.named
      <4>1. translateSentinel(e) = Out(SeverityOf(e), "siem", e.at) BY <3>2, <3>4 DEF translateSentinel
      <4>2. Decide(e) = AboveMin(Out(SeverityOf(e), "siem", e.at)) BY <2>1, <3>1, <4>1
      <4> QED BY <4>2, FilteredIsBelow DEF LeftOut, MayOmit, ReadAsMedium, BelowMinimum
    <3> QED BY <3>3, <3>4
  <2> QED BY <2>2, <2>3
<1>3. CASE setup.ad = "alertmanager"
  <2>1. Decide(e) = AboveMin(translateAlert(e)) BY <1>3 DEF Decide, handleAlertmanager
  <2>2. SeverityOf(e) = mapSeverity(e.label) BY <1>3 DEF SeverityOf
  <2>3. CASE ~e.opens \/ ~e.named BY <2>3 DEF LeftOut, MayOmit
  <2>4. CASE e.opens /\ e.named
    <3>1. translateAlert(e) = Out(SeverityOf(e), "prometheus", e.at) BY <2>2, <2>4 DEF translateAlert
    <3>2. Decide(e) = AboveMin(Out(SeverityOf(e), "prometheus", e.at)) BY <2>1, <3>1
    <3> QED BY <3>2, FilteredIsBelow DEF LeftOut, MayOmit, ReadAsMedium, BelowMinimum
  <2> QED BY <2>3, <2>4
<1>4. CASE setup.ad = "cicd"
  <2>1. Decide(e) = handleCI(e) BY <1>4 DEF Decide
  <2>2. CASE normalizeStatus(e.label) = "" BY <1>4, <2>2 DEF LeftOut, MayOmit
  <2>3. CASE ~e.opens BY <2>3 DEF LeftOut, MayOmit
  <2>4. CASE normalizeStatus(e.label) # "" /\ e.opens
    <3>1. handleCI(e) = translateCI(normalizeStatus(e.label)) BY <2>4 DEF handleCI, parseGitHub, parseGitLab, runCLI
    <3>2. translateCI(normalizeStatus(e.label)).do # "ignore" BY DEF translateCI, Out, Bad
    <3> QED BY <2>1, <3>1, <3>2
  <2> QED BY <2>2, <2>3, <2>4
<1>5. CASE setup.ad = "findings"
  <2>1. Decide(e) = processFinding(e) BY <1>5 DEF Decide
  <2>2. translateFinding(e).do # "ignore" BY DEF translateFinding, Out, Bad
  <2>3. ~MeetsMin(e.label, setup.min) BY <2>1, <2>2 DEF processFinding
  <2>4. SeverityOf(e) = e.label BY <1>5 DEF SeverityOf
  <2> QED BY <2>3, <2>4, BelowMin DEF LeftOut, MayOmit, ReadAsMedium, BelowMinimum
<1>6. CASE setup.ad = "egress"
  <2>1. Decide(e) = processEgress(e) BY <1>6 DEF Decide
  <2>2. translateEgress(e).do # "ignore" BY DEF translateEgress, Out, Bad
  <2>3. ~MeetsMin(e.label, setup.min) BY <2>1, <2>2 DEF processEgress
  <2>4. SeverityOf(e) = e.label BY <1>6 DEF SeverityOf
  <2> QED BY <2>3, <2>4, BelowMin DEF LeftOut, MayOmit, ReadAsMedium, BelowMinimum
<1>7. CASE setup.ad = "agent"
  <2>1. Decide(e) = processAgent(e) BY <1>7 DEF Decide
  <2>2. translateAgent(e).do # "ignore" BY DEF translateAgent, Out, Bad
  <2>3. ~MeetsMin(e.label, setup.min) BY <2>1, <2>2 DEF processAgent
  <2>4. SeverityOf(e) = e.label BY <1>7 DEF SeverityOf
  <2> QED BY <2>3, <2>4, BelowMin DEF LeftOut, MayOmit, ReadAsMedium, BelowMinimum
<1>8. CASE setup.ad \in {"slack", "teams"}
  <2>1. Decide(e) = parseCommand(e) BY <1>8 DEF Decide, handleSlack, handleTeams, parseTeamsCommand
  <2> QED BY <1>8, <2>1 DEF LeftOut, MayOmit, Bots
<1> QED BY <1>1, <1>2, <1>3, <1>4, <1>5, <1>6, <1>7, <1>8 DEF Programs

\* What a sender is told, and a delivery being worked through.
Answers == {"", "200", "400", "401", "502", "could not open", "exit 1"}
Deliveries == [items : Seq(Items), parses : BOOLEAN, signed : BOOLEAN, next : Nat \ {0}, failed : Nat,
               answer : Answers, repeats : Nat]

\* The program is one of the nine.
SetupFits == setup.ad \in Programs

\* The items before the cursor are accounted for.
Done(i, d) == \A j \in DOMAIN d.items : j < d.next => LeftOut(d.items[j]) \/ <<i, j>> \in accepted

\* A delivery that has not failed has accounted for every item up to its cursor; one
\* answered 200 has come to its end.
Progress == \A i \in DOMAIN deliveries :
  /\ deliveries[i].answer = "200" => deliveries[i].failed = 0 /\ deliveries[i].next > Len(deliveries[i].items)
  /\ deliveries[i].failed = 0 => Done(i, deliveries[i])

\* The invariant behind NothingSwallowed.
DeliveryInv == SetupFits /\ deliveries \in Seq(Deliveries) /\ Progress

\* Starting a program keeps which program it is.
LEMMA StartedFits ==
  ASSUME NEW s \in Setups, NEW t \in Started(s)
  PROVE  t.ad \in Programs
<1>1. s \in [ad : Programs, mode : STRING, server : BOOLEAN, source : STRING, token : BOOLEAN,
             hmac : BOOLEAN, secret : BOOLEAN, min : STRING]
  BY SetupsAssumption
<1>2. ASSUME NEW x, x.ad = s.ad, DOMAIN x = DOMAIN s, NEW d PROVE Sourced(x, d).ad = s.ad BY <1>1, <1>2 DEF Sourced
<1>3. ASSUME NEW x, x.ad = s.ad, DOMAIN x = DOMAIN s, NEW n, t \in SourcedBy(x, n) PROVE t.ad = s.ad
  BY <1>2, <1>3 DEF SourcedBy
<1>4. CASE s.ad = "paging"
  <2>1. Started(s) = PagingMain(s) BY <1>4 DEF Started
  <2> QED BY <1>1, <1>3, <2>1 DEF PagingMain
<1>5. CASE s.ad = "siem"
  <2>1. Started(s) = SiemMain(s) BY <1>5 DEF Started
  <2> QED BY <1>1, <1>3, <2>1 DEF SiemMain
<1>6. CASE s.ad = "alertmanager"
  <2>1. Started(s) = AlertmanagerMain(s) BY <1>6 DEF Started
  <2> QED BY <1>1, <1>2, <2>1 DEF AlertmanagerMain
<1>7. CASE s.ad = "cicd"
  <2>1. Started(s) = CicdMain(s) BY <1>7 DEF Started
  <2> QED BY <1>1, <1>3, <2>1 DEF CicdMain
<1>8. CASE s.ad \in Pipes
  <2>1. Started(s) = FindingsMain(s) \/ Started(s) = EgressMain(s) \/ Started(s) = AgentMain(s) BY <1>8 DEF Started, Pipes
  <2> QED BY <1>1, <2>1 DEF FindingsMain, EgressMain, AgentMain
<1>9. CASE s.ad \in Bots
  <2>1. Started(s) = SlackBotMain(s) \/ Started(s) = TeamsBotMain(s) BY <1>9 DEF Started, Bots
  <2>2. PICK d : t = [Sourced(s, d) EXCEPT !.hmac = FALSE, !.min = ""] BY <2>1 DEF SlackBotMain, TeamsBotMain
  <2>3. t.ad = s.ad BY <1>1, <2>2 DEF Sourced
  <2> QED BY <1>1, <2>3
<1> QED BY <1>1, <1>4, <1>5, <1>6, <1>7, <1>8, <1>9 DEF Programs, Pipes, Bots

\* It holds before anything is delivered.
LEMMA DeliveryInit == AdaptersInit => DeliveryInv
<1> SUFFICES ASSUME AdaptersInit PROVE DeliveryInv OBVIOUS
<1>1. PICK s \in Setups : setup \in Started(s) BY DEF AdaptersInit
<1>2. setup.ad \in Programs BY <1>1, StartedFits
<1> QED BY <1>2 DEF AdaptersInit, DeliveryInv, SetupFits, Progress

\* What the steps make of a delivery is a delivery.
LEMMA DeliveryFacts ==
  ASSUME NEW d \in Deliveries
  PROVE  /\ d.items \in Seq(Items) /\ d.next \in Nat /\ d.failed \in Nat
         /\ Advances(d) \in Deliveries
         /\ [d EXCEPT !.next = @ + 1, !.failed = @ + 1] \in Deliveries
         /\ \A a \in Answers : [d EXCEPT !.answer = a] \in Deliveries
         /\ Delivery(d.items, d.parses, d.signed) \in Deliveries
         /\ \A n \in Nat : [Delivery(d.items, d.parses, d.signed) EXCEPT !.repeats = n] \in Deliveries
<1>1. d.items \in Seq(Items) /\ d.next \in Nat /\ d.failed \in Nat /\ d.parses \in BOOLEAN /\ d.signed \in BOOLEAN
  BY DEF Deliveries
<1>2. Advances(d) \in Deliveries BY DEF Deliveries, Advances
<1>3. [d EXCEPT !.next = @ + 1, !.failed = @ + 1] \in Deliveries
  <2>1. PICK n \in Nat \ {0}, f \in Nat : n = d.next + 1 /\ f = d.failed + 1 BY <1>1
  <2>2. [d EXCEPT !.next = n, !.failed = f] \in Deliveries BY DEF Deliveries
  <2> QED BY <2>1, <2>2
<1>4. \A a \in Answers : [d EXCEPT !.answer = a] \in Deliveries BY DEF Deliveries
<1>0. 1 \in Nat \ {0} /\ 0 \in Nat /\ "" \in Answers BY DEF Answers
<1>5. Delivery(d.items, d.parses, d.signed) \in Deliveries BY <1>0, <1>1 DEF Deliveries, Delivery
<1>6. \A n \in Nat : [Delivery(d.items, d.parses, d.signed) EXCEPT !.repeats = n] \in Deliveries
  BY <1>5 DEF Deliveries
<1> QED BY <1>1, <1>2, <1>3, <1>4, <1>5, <1>6

\* What may be left out does not change while a program runs.
LEMMA OmitStays ==
  ASSUME setup' = setup, NEW e
  PROVE  LeftOut(e)' <=> LeftOut(e)
<1>1. SeverityOf(e)' = SeverityOf(e) BY Zenon DEF SeverityOf
<1>2. (parseCommand(e).do = "ignore")' <=> parseCommand(e).do = "ignore" BY DEF parseCommand, Out, Ignored, Bad
<1>3. Recognised(e)' <=> Recognised(e) BY Zenon DEF Recognised, Vocabulary
<1>4. BelowMinimum(e)' <=> BelowMinimum(e) BY <1>1 DEF BelowMinimum
<1> QED BY <1>1, <1>2, <1>3, <1>4 DEF LeftOut, MayOmit, ReadAsMedium

\* One delivery changes and the others stay.
LEMMA OneDelivery ==
  ASSUME DeliveryInv, NEW i \in DOMAIN deliveries, NEW d \in Deliveries,
         deliveries' = [deliveries EXCEPT ![i] = d], setup' = setup, accepted \subseteq accepted',
         d.answer = "200" => d.failed = 0 /\ d.next > Len(d.items),
         d.failed = 0 => Done(i, d)'
  PROVE  DeliveryInv'
<1>1. deliveries' \in Seq(Deliveries) /\ DOMAIN deliveries' = DOMAIN deliveries /\ deliveries'[i] = d
      /\ \A k \in DOMAIN deliveries : k # i => deliveries'[k] = deliveries[k]
  BY DEF DeliveryInv
<1>2. ASSUME NEW e PROVE LeftOut(e)' <=> LeftOut(e) BY OmitStays
<1>3. ASSUME NEW k \in DOMAIN deliveries, k # i, Done(k, deliveries[k]) PROVE Done(k, deliveries[k])'
  BY <1>1, <1>2, <1>3 DEF Done
<1>4. ASSUME NEW k \in DOMAIN deliveries
      PROVE  /\ deliveries'[k].answer = "200" => deliveries'[k].failed = 0 /\ deliveries'[k].next > Len(deliveries'[k].items)
             /\ deliveries'[k].failed = 0 => Done(k, deliveries[k])'
  <2>1. CASE k = i BY <1>1, <2>1
  <2>2. CASE k # i BY <1>1, <1>3, <2>2 DEF DeliveryInv, Progress
  <2> QED BY <2>1, <2>2
<1> QED BY <1>1, <1>4 DEF DeliveryInv, Progress, SetupFits

\* The relay's own steps leave deliveries alone.
LEMMA DeliveryStill ==
  ASSUME DeliveryInv, UNCHANGED adapterVars
  PROVE  DeliveryInv'
<1>1. setup' = setup /\ deliveries' = deliveries /\ accepted' = accepted BY DEF adapterVars
<1>2. ASSUME NEW e PROVE LeftOut(e)' <=> LeftOut(e) BY <1>1, OmitStays
<1>3. ASSUME NEW k \in DOMAIN deliveries, Done(k, deliveries[k]) PROVE Done(k, deliveries[k])'
  BY <1>1, <1>2, <1>3 DEF Done
<1> QED BY <1>1, <1>3 DEF DeliveryInv, Progress, SetupFits

\* Every step of a program.
LEMMA DeliveryStep ==
  ASSUME DeliveryInv, AdaptersNext
  PROVE  DeliveryInv'
<1>t. deliveries \in Seq(Deliveries) /\ setup.ad \in Programs BY DEF DeliveryInv, SetupFits
<1>m. ASSUME setup' = setup, NEW e PROVE LeftOut(e)' <=> LeftOut(e) BY <1>m, OmitStays
\* A delivery that stays where it is.
<1>k. ASSUME NEW i \in DOMAIN deliveries, NEW d \in Deliveries, d.items = deliveries[i].items, d.next = deliveries[i].next,
             d.failed = 0 => deliveries[i].failed = 0, setup' = setup, accepted \subseteq accepted', d.failed = 0
      PROVE  Done(i, d)'
  <2>1. Done(i, deliveries[i]) BY <1>k DEF DeliveryInv, Progress
  <2> QED BY <1>m, <1>k, <2>1 DEF Done
\* A delivery that has dealt with one item more.
<1>n. ASSUME NEW i \in DOMAIN deliveries, Handling(i), setup' = setup, accepted \subseteq accepted',
             LeftOut(Item(i)) \/ <<i, deliveries[i].next>> \in accepted', NEW d \in Deliveries,
             d.items = deliveries[i].items, d.next = deliveries[i].next + 1, deliveries[i].failed = 0
      PROVE  Done(i, d)'
  <2>1. Done(i, deliveries[i]) BY <1>n DEF DeliveryInv, Progress
  <2>0. PICK y \in Deliveries : y = deliveries[i] BY <1>t
  <2>2. deliveries[i].next \in Nat /\ d.items \in Seq(Items) BY <2>0, DeliveryFacts
  <2>3. ASSUME NEW j \in DOMAIN d.items, j < d.next PROVE LeftOut(d.items[j])' \/ <<i, j>> \in accepted'
    <3>1. j \in Nat BY <2>2, <2>3
    <3>2. CASE j < deliveries[i].next BY <1>m, <1>n, <2>1, <2>3, <3>2 DEF Done
    <3>3. CASE j = deliveries[i].next BY <1>m, <1>n, <3>3 DEF Item
    <3> QED BY <1>n, <2>2, <2>3, <3>1, <3>2, <3>3
  <2> QED BY <2>3 DEF Done
\* What an item that failed leaves.
<1>f. ASSUME NEW i \in DOMAIN deliveries, Open(i), deliveries' = [deliveries EXCEPT ![i] = Fails(@)], setup' = setup,
             accepted \subseteq accepted'
      PROVE  DeliveryInv'
  <2>1. PICK d \in Deliveries : d = deliveries[i] BY <1>t
  <2>2. d.next \in Nat /\ d.failed \in Nat BY DeliveryFacts
  <2>3. CASE setup.ad \in Pipes
    <3>1. PICK x \in Deliveries : x = [d EXCEPT !.next = @ + 1, !.failed = @ + 1] BY DeliveryFacts
    <3>2. x.answer = d.answer /\ x.failed = d.failed + 1 BY <3>1 DEF Deliveries
    <3>3. d.answer = "" BY <1>f, <2>1 DEF Open
    <3>4. deliveries' = [deliveries EXCEPT ![i] = x] BY <1>f, <2>1, <2>3, <3>1 DEF Fails
    <3>5. x.answer # "200" BY <3>2, <3>3
    <3>6. x.failed # 0 BY <2>2, <3>2
    <3> QED BY <1>f, <3>4, <3>5, <3>6, OneDelivery
  <2>4. CASE setup.ad \notin Pipes
    <3>1. PICK a \in {"502", "could not open"} : Fails(d) = [d EXCEPT !.answer = a] BY <2>4 DEF Fails
    <3>0. a \in Answers BY DEF Answers
    <3>2. PICK x \in Deliveries : x = [d EXCEPT !.answer = a] BY <3>0, DeliveryFacts
    <3>3. x.items = d.items /\ x.next = d.next /\ x.failed = d.failed /\ x.answer = a BY <3>2 DEF Deliveries
    <3>4. deliveries' = [deliveries EXCEPT ![i] = x] BY <1>f, <2>1, <3>1, <3>2
    <3>5. x.failed = 0 => Done(i, x)' BY <1>f, <1>k, <2>1, <3>3
    <3>6. x.answer # "200" BY <3>3
    <3> QED BY <1>f, <3>4, <3>5, <3>6, OneDelivery
  <2> QED BY <2>3, <2>4
<1>1. ASSUME NEW b \in Batches[setup.ad], NEW parses \in BOOLEAN, NEW signed \in BOOLEAN, Deliver(b, parses, signed)
      PROVE  DeliveryInv'
  <2>1. b \in Seq(Items) BY <1>t, SetupsAssumption
  <2>2. PICK d : d = Delivery(b, parses, signed) OBVIOUS
  <2>3. d \in Deliveries /\ d.answer = "" /\ d.next = 1 /\ d.items = b
    <3>1. 1 \in Nat \ {0} /\ 0 \in Nat /\ "" \in Answers BY DEF Answers
    <3> QED BY <2>1, <2>2, <3>1 DEF Delivery, Deliveries
  <2>4. deliveries' = Append(deliveries, d) /\ setup' = setup /\ accepted' = accepted BY <1>1, <2>2 DEF Deliver
  <2>5. PICK n \in Nat :
          /\ deliveries' \in Seq(Deliveries) /\ DOMAIN deliveries' = DOMAIN deliveries \cup {n} /\ deliveries'[n] = d
          /\ \A k \in DOMAIN deliveries : deliveries'[k] = deliveries[k]
    <3>1. PICK t : t = deliveries' OBVIOUS
    <3>2. PICK s \in Seq(Deliveries) : s = deliveries BY <1>t
    <3>3. t = Append(s, d) /\ d \in Deliveries BY <2>3, <2>4, <3>1, <3>2
    <3>4. /\ Len(s) + 1 \in Nat /\ t \in Seq(Deliveries) /\ DOMAIN t = DOMAIN s \cup {Len(s) + 1} /\ t[Len(s) + 1] = d
          /\ \A k \in DOMAIN s : t[k] = s[k]
      BY <3>3, AppendIs
    <3> QED BY <3>1, <3>2, <3>4
  <2>6. ASSUME NEW k \in DOMAIN deliveries
        PROVE  /\ deliveries'[k].answer = "200" => deliveries'[k].failed = 0 /\ deliveries'[k].next > Len(deliveries'[k].items)
               /\ deliveries'[k].failed = 0 => Done(k, deliveries[k])'
    <3>1. Done(k, deliveries[k]) => Done(k, deliveries[k])' BY <1>m, <2>4, <2>5 DEF Done
    <3> QED BY <2>5, <3>1 DEF DeliveryInv, Progress
  <2>7. \A j \in DOMAIN b : ~(j < 1) BY <2>1
  <2>8. deliveries'[n].answer # "200" BY <2>3, <2>5
  <2>9. Done(n, deliveries[n])' BY <2>3, <2>5, <2>7 DEF Done
  <2>10. Progress' BY <2>5, <2>6, <2>8, <2>9 DEF Progress
  <2> QED BY <1>t, <2>4, <2>5, <2>10 DEF DeliveryInv, SetupFits
<1>2. ASSUME NEW i \in DOMAIN deliveries, NEW a \in Answers, deliveries' = [deliveries EXCEPT ![i].answer = a],
             setup' = setup, accepted' = accepted,
             a = "200" => deliveries[i].failed = 0 /\ deliveries[i].next > Len(deliveries[i].items)
      PROVE  DeliveryInv'
  <2>1. PICK d \in Deliveries : d = deliveries[i] BY <1>t
  <2>2. PICK x \in Deliveries : x = [d EXCEPT !.answer = a] BY DeliveryFacts
  <2>3. x.items = d.items /\ x.next = d.next /\ x.failed = d.failed /\ x.answer = a BY <2>2 DEF Deliveries
  <2>4. deliveries' = [deliveries EXCEPT ![i] = x] BY <1>2, <2>1, <2>2
  <2>5. x.failed = 0 => Done(i, x)' BY <1>2, <1>k, <2>1, <2>3
  <2> QED BY <1>2, <2>1, <2>3, <2>4, <2>5, OneDelivery
<1>3. ASSUME NEW i \in DOMAIN deliveries, Refuse(i) PROVE DeliveryInv'
  <2>1. PICK a \in {"401", "400"} : deliveries' = [deliveries EXCEPT ![i].answer = a] BY <1>3 DEF Refuse, Answer
  <2>2. a \in Answers /\ a # "200" BY DEF Answers
  <2> QED BY <1>2, <1>3, <2>1, <2>2 DEF Refuse
<1>4. ASSUME NEW i \in DOMAIN deliveries, Finish(i) PROVE DeliveryInv'
  <2>1. PICK a \in {"200", "exit 1"} : deliveries' = [deliveries EXCEPT ![i].answer = a] /\ (a = "200" => deliveries[i].failed = 0)
    BY <1>4 DEF Finish, Answer
  <2>2. a \in Answers BY DEF Answers
  <2> QED BY <1>2, <1>4, <2>1, <2>2 DEF Finish
<1>5. ASSUME NEW i \in DOMAIN deliveries, Handling(i), deliveries' = [deliveries EXCEPT ![i] = Advances(@)], setup' = setup,
             accepted \subseteq accepted', LeftOut(Item(i)) \/ <<i, deliveries[i].next>> \in accepted'
      PROVE  DeliveryInv'
  <2>1. PICK d \in Deliveries : d = deliveries[i] BY <1>t
  <2>2. PICK x \in Deliveries : x = Advances(d) BY DeliveryFacts
  <2>3. x.items = d.items /\ x.next = d.next + 1 /\ x.failed = d.failed /\ x.answer = d.answer BY <2>2 DEF Deliveries, Advances
  <2>4. deliveries' = [deliveries EXCEPT ![i] = x] BY <1>5, <2>1, <2>2
  <2>5. x.failed = 0 => Done(i, x)' BY <1>5, <1>n, <2>1, <2>3
  <2>6. x.answer # "200" BY <1>5, <2>1, <2>3 DEF Handling, Open
  <2> QED BY <1>5, <2>4, <2>5, <2>6, OneDelivery
<1>6. ASSUME NEW i \in DOMAIN deliveries, Pass(i) PROVE DeliveryInv'
  <2>1. Handling(i) /\ Decide(Item(i)).do = "ignore" BY <1>6 DEF Pass
  <2>2. Item(i) \in Items
    <3>1. PICK d \in Deliveries : d = deliveries[i] BY <1>t
    <3>2. d.items \in Seq(Items) /\ d.next \in Nat \ {0} BY DEF Deliveries
    <3>3. d.next <= Len(d.items) BY <2>1, <3>1 DEF Handling
    <3>4. d.items[d.next] \in Items BY <3>2, <3>3
    <3> QED BY <3>1, <3>4 DEF Item
  <2>3. LeftOut(Item(i)) BY <1>t, <2>1, <2>2, IgnoredMayBeOmitted
  <2> QED BY <1>5, <1>6, <2>1, <2>3 DEF Pass
<1>7. ASSUME NEW i \in DOMAIN deliveries, Malformed(i) PROVE DeliveryInv'
  <2>1. Open(i) /\ setup' = setup /\ accepted' = accepted BY <1>7 DEF Malformed, Handling
  <2>2. CASE setup.ad \in Pipes BY <1>7, <1>f, <2>1, <2>2 DEF Malformed
  <2>3. CASE setup.ad \notin Pipes
    <3>1. deliveries' = [deliveries EXCEPT ![i].answer = "400"] BY <1>7, <2>3 DEF Malformed
    <3>2. "400" \in Answers BY DEF Answers
    <3> QED BY <1>2, <2>1, <3>1, <3>2
  <2> QED BY <2>2, <2>3
<1>8. ASSUME NEW i \in DOMAIN deliveries, SendLost(i) PROVE DeliveryInv' BY <1>8, <1>f DEF SendLost, Handling
<1>9. ASSUME NEW i \in DOMAIN deliveries, NEW replied \in BOOLEAN, Send(i, replied) PROVE DeliveryInv'
  <2>1. Handling(i) /\ setup' = setup /\ accepted \subseteq accepted' BY <1>9 DEF Send
  <2>2. CASE deliveries' = [deliveries EXCEPT ![i] = Fails(@)] BY <1>f, <2>1, <2>2 DEF Handling
  <2>3. CASE deliveries' = [deliveries EXCEPT ![i] = Advances(@)] /\ <<i, deliveries[i].next>> \in accepted'
    BY <1>5, <2>1, <2>3
  <2>4. \/ deliveries' = [deliveries EXCEPT ![i] = Fails(@)]
        \/ deliveries' = [deliveries EXCEPT ![i] = Advances(@)] /\ <<i, deliveries[i].next>> \in accepted'
    <3>1. PICK a : a = AlertOf(i, Decide(Item(i))) OBVIOUS
    <3>2. CASE Accepted(a) /\ replied
      <4>1. deliveries' = [deliveries EXCEPT ![i] = Advances(@)] BY <1>9, <3>1, <3>2, Zenon DEF Send
      <4>2. accepted' = accepted \cup {<<i, deliveries[i].next>>} BY <1>9, <3>1, <3>2, Zenon DEF Send
      <4> QED BY <4>1, <4>2
    <3>3. CASE ~(Accepted(a) /\ replied) BY <1>9, <3>1, <3>3, Zenon DEF Send
    <3> QED BY <3>2, <3>3
  <2> QED BY <2>2, <2>3, <2>4
<1>10. ASSUME NEW i \in DOMAIN deliveries, Repeat(i) PROVE DeliveryInv'
  <2>1. PICK d \in Deliveries : d = deliveries[i] BY <1>t
  <2>2. d.items \in Seq(Items) /\ d.repeats + 1 \in Nat BY DEF Deliveries
  <2>3. PICK x \in Deliveries : x = [Delivery(d.items, d.parses, d.signed) EXCEPT !.repeats = d.repeats + 1]
    BY <2>2, DeliveryFacts
  <2>4. x.items = d.items /\ x.next = 1 /\ x.answer = "" BY <2>3 DEF Delivery, Deliveries
  <2>5. deliveries' = [deliveries EXCEPT ![i] = x] /\ setup' = setup /\ accepted' = accepted BY <1>10, <2>1, <2>3 DEF Repeat
  <2>6. \A j \in DOMAIN d.items : ~(j < 1) BY <2>2
  <2>7. Done(i, x)' BY <2>4, <2>6 DEF Done
  <2> QED BY <2>4, <2>5, <2>7, OneDelivery
<1>11. ASSUME UNCHANGED adapterVars PROVE DeliveryInv' BY <1>11, DeliveryStill
<1> QED BY <1>1, <1>3, <1>4, <1>6, <1>7, <1>8, <1>9, <1>10, <1>11 DEF AdaptersNext

\* For every program, setup, batch and interleaving of failures and repeats: a sender that
\* is told all went well has had every event accepted that the filters do not exclude
\* (pkg/adapter severity.go: "must never silently swallow an alert").
THEOREM NothingIsSwallowed == AdaptersSpec => []NothingSwallowed
<1>1. AdaptersInit => DeliveryInv BY DeliveryInit
<1>2. DeliveryInv /\ [AdaptersNext]_<<ingestVars, adapterVars>> => DeliveryInv'
  <2> SUFFICES ASSUME DeliveryInv, [AdaptersNext]_<<ingestVars, adapterVars>> PROVE DeliveryInv' OBVIOUS
  <2>1. CASE AdaptersNext BY <2>1, DeliveryStep
  <2>2. CASE UNCHANGED <<ingestVars, adapterVars>> BY <2>2, DeliveryStill
  <2> QED BY <2>1, <2>2
<1>3. DeliveryInv => NothingSwallowed
  <2> SUFFICES ASSUME DeliveryInv, NEW i \in DOMAIN deliveries, deliveries[i].answer = "200",
                      NEW j \in DOMAIN deliveries[i].items
               PROVE  LeftOut(deliveries[i].items[j]) \/ <<i, j>> \in accepted
    BY DEF NothingSwallowed
  <2>1. PICK d \in Deliveries : d = deliveries[i] BY DEF DeliveryInv
  <2>2. d.items \in Seq(Items) /\ d.next \in Nat BY DeliveryFacts
  <2>3. d.failed = 0 /\ d.next > Len(d.items) /\ Done(i, d) BY <2>1 DEF DeliveryInv, Progress
  <2>4. j \in Nat /\ j < d.next BY <2>1, <2>2, <2>3
  <2> QED BY <2>1, <2>3, <2>4 DEF Done
<1> QED BY <1>1, <1>2, <1>3, PTL DEF AdaptersSpec

------------------------------------------------------------------------------
(* The relay behind the programs: they reach it through the alert socket only. *)

\* The programs' retries and repeats do not unsettle the relay's limits.
THEOREM LimitsHoldBehindAdapters == AdaptersSpec => []LimitsFair
<1>1. LimitsInv /\ [AdaptersNext]_<<ingestVars, adapterVars>> => LimitsInv'
  <2> SUFFICES ASSUME LimitsInv, [AdaptersNext]_<<ingestVars, adapterVars>> PROVE LimitsInv' OBVIOUS
  <2>1. ASSUME NEW b, NEW parses, NEW signed, Deliver(b, parses, signed) PROVE LimitsInv'
    BY <2>1, LimitsStill DEF Deliver, ingestVars
  <2>2. ASSUME NEW i, Refuse(i) \/ Pass(i) \/ Malformed(i) \/ SendLost(i) \/ Finish(i) \/ Repeat(i) PROVE LimitsInv'
    BY <2>2, LimitsStill DEF Refuse, Pass, Malformed, SendLost, Finish, Repeat, ingestVars
  <2>3. ASSUME NEW i, NEW replied, Send(i, replied) PROVE LimitsInv'
    <3>1. PICK a : a = AlertOf(i, Decide(Item(i))) OBVIOUS
    <3>2. CASE a.source \in DOMAIN cfg.sources
      <4>1. alertHandled(a) BY <2>3, <3>1, <3>2, Zenon DEF Send
      <4> QED BY <3>2, <4>1, LimitsAlert
    <3>3. CASE a.source \notin DOMAIN cfg.sources
      <4>1. UNCHANGED <<cfg, clock, limiters, warned, posted, rooms, invited, notices, spawned, served>>
        BY <2>3, <3>1, <3>3, Zenon DEF Send
      <4> QED BY <4>1, LimitsStill
    <3> QED BY <3>2, <3>3
  <2>4. ASSUME Elapse PROVE LimitsInv' BY <2>4, LimitsElapse
  <2>5. CASE UNCHANGED <<ingestVars, adapterVars>> BY <2>5, LimitsStill DEF ingestVars
  <2> QED BY <2>1, <2>2, <2>3, <2>4, <2>5 DEF AdaptersNext
<1> QED BY <1>1, LimitsInit, LimitsGive, PTL DEF AdaptersSpec
=============================================================================
