------------------------- MODULE SoundBuffer_proofs -------------------------
(***************************************************************************)
(* For any number of addresses and of copies: the render thread never      *)
(* reads freed data or data that is being written, and replaced data does  *)
(* not pile up. For any source, period, ring, history and number of calls: *)
(* the sound buffer uses its sample data only as AudioSnapshot allows, so  *)
(* that the same holds of the buffer; the voice is counted exactly once;   *)
(* the history gives what is heard at every output frame; and what the     *)
(* game is told of position and status is what is heard.                   *)
(***************************************************************************)
EXTENDS MCSoundBuffer, FiniteSetTheorems, WellFoundedInduction, TLAPS

-----------------------------------------------------------------------------
(* Integers.                                                               *)
LEMMA MinOfTwo ==
    ASSUME NEW a \in Int, NEW b \in Int
    PROVE  Min({a, b}) = IF a <= b THEN a ELSE b
  <1> DEFINE m == IF a <= b THEN a ELSE b
  <1>1. m \in {a, b} /\ \A y \in {a, b} : m <= y
    OBVIOUS
  <1>2. ASSUME NEW z \in {a, b}, \A y \in {a, b} : z <= y PROVE z = m
    BY <1>1, <1>2
  <1>3. QED  BY <1>1, <1>2, Zenon DEF Min

LEMMA MaxOfTwo ==
    ASSUME NEW a \in Int, NEW b \in Int
    PROVE  Max({a, b}) = IF a >= b THEN a ELSE b
  <1> DEFINE m == IF a >= b THEN a ELSE b
  <1>1. m \in {a, b} /\ \A y \in {a, b} : m >= y
    OBVIOUS
  <1>2. ASSUME NEW z \in {a, b}, \A y \in {a, b} : z >= y PROVE z = m
    BY <1>1, <1>2
  <1>3. QED  BY <1>1, <1>2, Zenon DEF Max

LEMMA Division ==
    ASSUME NEW a \in Int, NEW n \in Nat \ {0}
    PROVE  a % n \in 0..n - 1 /\ a \div n \in Int /\ a = n * (a \div n) + (a % n)
  OBVIOUS

LEMMA DivisionUnique ==
    ASSUME NEW n \in Nat \ {0}, NEW q \in Int, NEW r \in 0..n - 1
    PROVE  (n * q + r) % n = r /\ (n * q + r) \div n = q
  <1> DEFINE a == n * q + r
             p == a \div n
             s == a % n
  <1>1. a \in Int
    OBVIOUS
  <1>2. p \in Int /\ s \in 0..n - 1 /\ n * q + r = n * p + s
    BY <1>1, Division
  <1> HIDE DEF p, s
  <1>3. n * (q - p) = s - r
    BY <1>2
  <1>4. q = p
    <2> DEFINE d == q - p
    <2>1. d \in Int /\ n * d < n /\ n * d > -n
      BY <1>2, <1>3
    <2>2. ~ d >= 1
      <3>1. SUFFICES ASSUME d >= 1 PROVE FALSE
        OBVIOUS
      <3>2. n * (d - 1) >= 0
        BY <2>1, <3>1
      <3>3. QED  BY <2>1, <3>2
    <2>3. ~ d <= -1
      <3>1. SUFFICES ASSUME d <= -1 PROVE FALSE
        OBVIOUS
      <3>2. n * (-1 - d) >= 0
        BY <2>1, <3>1
      <3>3. QED  BY <2>1, <3>2
    <2>4. QED  BY <2>1, <2>2, <2>3, <1>2
  <1>5. s = r
    BY <1>2, <1>4
  <1>6. QED  BY <1>4, <1>5 DEF p, s

LEMMA ModSmall ==
    ASSUME NEW n \in Nat \ {0}, NEW r \in 0..n - 1
    PROVE  r % n = r
  BY DivisionUnique, n * 0 + r = r

LEMMA ModSum ==
    ASSUME NEW n \in Nat \ {0}, NEW a \in Int, NEW d \in Int
    PROVE  ((a % n) + d) % n = (a + d) % n
  <1> DEFINE q == a \div n
             r == a % n
             p == (r + d) \div n
             s == (r + d) % n
  <1>1. q \in Int /\ r \in 0..n - 1 /\ a = n * q + r
    BY Division
  <1> HIDE DEF q, r
  <1>2. p \in Int /\ s \in 0..n - 1 /\ r + d = n * p + s
    <2>1. r + d \in Int
      BY <1>1
    <2>2. QED  BY <2>1, Division
  <1> HIDE DEF p, s
  <1>3. a + d = n * (q + p) + s
    BY <1>1, <1>2
  <1>4. (a + d) % n = s
    <2>1. (n * (q + p) + s) % n = s
      BY <1>1, <1>2, DivisionUnique
    <2>2. QED  BY <2>1, <1>3
  <1>5. QED  BY <1>4 DEF s, r

LEMMA ModBack ==
    ASSUME NEW n \in Nat \ {0}, NEW a \in Int
    PROVE  (a - n) % n = a % n
  <1> DEFINE q == a \div n
             r == a % n
  <1>1. q \in Int /\ r \in 0..n - 1 /\ a = n * q + r
    BY Division
  <1> HIDE DEF q, r
  <1>2. a - n = n * (q - 1) + r
    BY <1>1
  <1>3. (a - n) % n = r
    BY <1>1, <1>2, DivisionUnique
  <1>4. QED  BY <1>3 DEF r

LEMMA LeastExists ==
    ASSUME NEW S, S \subseteq Nat, S # {}
    PROVE  \E x \in S : \A y \in S : x <= y
  <1>1. IsWellFoundedOn(OpToRel(<, Nat), Nat)
    BY NatLessThanWellFounded
  <1>2. PICK x \in S : \A y \in S : ~(<<y, x>> \in OpToRel(<, Nat))
    BY <1>1, WFMin, Zenon
  <1>3. \A y \in S : ~(y < x)
    BY <1>2 DEF OpToRel
  <1>4. QED  BY <1>3

LEMMA MaxIsIn ==
    ASSUME NEW n \in Nat, NEW S, S \subseteq 0..n, S # {}
    PROVE  Max(S) \in S /\ \A y \in S : y <= Max(S)
  <1> DEFINE T == {n - y : y \in S}
  <1>1. T \subseteq Nat /\ T # {}
    <2>1. \A y \in S : y \in 0..n /\ n - y \in Nat
      OBVIOUS
    <2>2. QED  BY <2>1
  <1>2. PICK t \in T : \A u \in T : t <= u
    BY <1>1, LeastExists
  <1>3. PICK x \in S : t = n - x
    OBVIOUS
  <1>4. \A y \in S : x >= y
    <2>1. SUFFICES ASSUME NEW y \in S PROVE x >= y
      OBVIOUS
    <2>2. n - x <= n - y
      BY <1>2, <1>3
    <2>3. x \in 0..n /\ y \in 0..n
      OBVIOUS
    <2>4. QED  BY <2>2, <2>3
  <1>5. Max(S) \in S /\ \A y \in S : Max(S) >= y
    BY <1>3, <1>4, Zenon DEF Max
  <1>6. QED
    <2>1. ASSUME NEW y \in S PROVE y <= Max(S)
      <3>1. y \in 0..n /\ Max(S) \in 0..n /\ Max(S) >= y
        BY <1>5
      <3>2. QED  BY ONLY <3>1
    <2>2. QED  BY <1>5, <2>1

-----------------------------------------------------------------------------
(* A stretch of whole output periods that begins with one maps each of its *)
(* frames exactly.                                                         *)
LEMMA WholePeriodsExact ==
    ASSUME NEW source \in Nat, NEW output \in Nat \ {0},
           NEW q \in Nat, NEW k \in Nat \ {0}
    PROVE  SegmentMatchesCumulativeMapping(
               output * q, output * k, [source |-> source, output |-> output])
  <1> DEFINE rate == [source |-> source, output |-> output]
             begin == output * q
             length == output * k
  <1>1. begin \in Nat /\ length \in Nat /\ length # 0
    <2>1. \A a, b \in Nat : a * b \in Nat
      OBVIOUS
    <2>2. output * k # 0
      BY k >= 1, output >= 1
    <2>3. QED  BY <2>1, <2>2
  <1>2. SUFFICES ASSUME NEW offset \in 1..length - 1
                 PROVE  Interpolated(offset, begin, length, rate) =
                            MappedSourceFrame(begin + offset, rate)
    BY DEF SegmentMatchesCumulativeMapping
  <1> DEFINE p == (offset * source) \div output
             r == (offset * source) % output
  <1>3. /\ p \in Int /\ r \in 0..output - 1
        /\ offset * source = output * p + r
    <2>1. offset * source \in Int
      BY <1>1
    <2>2. QED  BY <2>1, Division
  <1> HIDE DEF p, r
  <1>4. MappedSourceFrame(begin, rate) = q * source
    <2>1. begin * source = output * (q * source) + 0 /\ q * source \in Int
      OBVIOUS
    <2>2. QED  BY <2>1, DivisionUnique DEF MappedSourceFrame
  <1>5. MappedSourceFrame(begin + length, rate) = (q + k) * source
    <2>1. (begin + length) * source = output * ((q + k) * source) + 0
          /\ (q + k) * source \in Int
      OBVIOUS
    <2>2. QED  BY <2>1, DivisionUnique DEF MappedSourceFrame
  <1>6. MappedSourceFrame(begin + offset, rate) = q * source + p
    <2>1. begin \in Int /\ offset \in Int
      BY <1>1
    <2>2. (begin + offset) * source = begin * source + offset * source
      BY <2>1
    <2>3. begin * source = output * (q * source)
      OBVIOUS
    <2>4. output * (q * source + p) = output * (q * source) + output * p
      BY <1>3
    <2>5. (begin + offset) * source = output * (q * source + p) + r
          /\ q * source + p \in Int
      BY <2>2, <2>3, <2>4, <1>3
    <2>6. (output * (q * source + p) + r) \div output = q * source + p
      BY <2>5, <1>3, DivisionUnique
    <2>7. QED  BY <2>5, <2>6 DEF MappedSourceFrame
  <1>7. (offset * ((q + k) * source - q * source)) \div length = p
    <2>1. offset \in Int
      BY <1>1
    <2>2. (q + k) * source - q * source = k * source
      OBVIOUS
    <2>3. offset * (k * source) = k * (offset * source)
      BY <2>1
    <2>4. k * (output * p + r) = (output * k) * p + k * r
      BY <1>3
    <2>5. offset * ((q + k) * source - q * source) = length * p + k * r
      BY <2>2, <2>3, <2>4, <1>3
    <2>6. k * r \in 0..length - 1
      <3>1. k * r \in Int /\ k * r >= 0
        BY <1>3
      <3>2. k * (output - 1 - r) >= 0
        BY <1>3
      <3>3. k * (output - 1 - r) = output * k - k - k * r
        BY <1>3
      <3>4. QED  BY <3>1, <3>2, <3>3, <1>1
    <2>7. (length * p + k * r) \div length = p
      BY <2>6, <1>1, <1>3, DivisionUnique
    <2>8. QED  BY <2>5, <2>7
  <1>8. QED  BY <1>4, <1>5, <1>6, <1>7 DEF Interpolated

(* However much of an epoch has been put out and however much is to come,  *)
(* and for any pair of rates, the segment that is cut gives each of its    *)
(* frames the source frame of the mapping as a whole (the cutting in       *)
(* PublishMappedSpans).                                                    *)
THEOREM SegmentLengthExact ==
    ASSUME NEW begin \in Nat, NEW remaining \in Nat \ {0},
           NEW source \in Nat, NEW output \in Nat \ {0}
    PROVE  LET rate == [source |-> source, output |-> output]
           IN  SegmentMatchesCumulativeMapping(
                   begin, SegmentLength(begin, remaining, rate), rate)
  <1> DEFINE rate == [source |-> source, output |-> output]
             phase == begin % output
             upto == IF phase = 0 THEN output - 1 ELSE output - phase
             most == IF remaining < upto THEN remaining ELSE upto
             exact_lengths == {1} \cup {n \in 2..most :
                       SegmentMatchesCumulativeMapping(begin, n, rate)}
  <1>1. phase \in 0..output - 1
    BY Division
  <1>2. CASE phase = 0 /\ remaining >= output
    <2> DEFINE q == begin \div output
               k == remaining \div output
    <2>1. begin = output * q /\ q \in Nat
      <3>1. q \in Int /\ begin = output * q + phase
        BY <1>1, Division
      <3> HIDE DEF q
      <3>2. begin = output * q
        BY <3>1, <1>1, <1>2
      <3>3. ~ q <= -1
        <4>1. SUFFICES ASSUME q <= -1 PROVE FALSE
          OBVIOUS
        <4>2. output * (-1 - q) >= 0
          BY <1>1, <3>1, <4>1
        <4>3. QED  BY <4>2, <3>1, <3>2, <1>1
      <3>4. QED  BY <3>1, <3>2, <3>3
    <2>2. /\ remaining - (remaining % output) = output * k
          /\ k \in Nat \ {0}
      <3>1. k \in Int /\ remaining % output \in 0..output - 1
            /\ remaining = output * k + (remaining % output)
        BY <1>1, Division
      <3> HIDE DEF k
      <3>3. ~ k <= 0
        <4>1. SUFFICES ASSUME k <= 0 PROVE FALSE
          OBVIOUS
        <4>2. output * (0 - k) >= 0
          BY <1>1, <3>1, <4>1
        <4>3. QED  BY <4>2, <3>1, <1>1, <1>2
      <3>4. QED  BY <3>1, <3>3
    <2>3. SegmentLength(begin, remaining, rate) = output * k
      BY <1>2, <2>2 DEF SegmentLength
    <2> HIDE DEF q, k
    <2>4. SegmentMatchesCumulativeMapping(output * q, output * k, rate)
      BY <2>1, <2>2, WholePeriodsExact
    <2>5. QED  BY <2>1, <2>3, <2>4
  <1>3. CASE ~(phase = 0 /\ remaining >= output)
    <2>1. SegmentLength(begin, remaining, rate) = Max(exact_lengths)
      BY <1>3 DEF SegmentLength
    <2>2. most + 1 \in Nat
      BY <1>1
    <2>3. exact_lengths \subseteq 0..most + 1 /\ exact_lengths # {}
      BY <2>2
    <2> HIDE DEF most
    <2>4. Max(exact_lengths) \in exact_lengths
      <3> HIDE DEF exact_lengths
      <3>1. QED  BY <2>2, <2>3, MaxIsIn
    <2>5. SegmentMatchesCumulativeMapping(begin, 1, rate)
      BY DEF SegmentMatchesCumulativeMapping
    <2>6. QED  BY <2>1, <2>4, <2>5
  <1>4. QED  BY <1>2, <1>3

-----------------------------------------------------------------------------
(* AudioSnapshot.                                                          *)
(* Who owns what. The pointer lags behind its owner only inside Unlock.    *)
Ownership ==
    /\ writer \in {"publish", "retire"} <=> replaced # None
    /\ writer = "lock" => outstanding = None
    /\ writer = "unlock" => outstanding # None
    /\ published = IF writer = "publish" THEN replaced ELSE published_owner
    /\ outstanding # published_owner /\ replaced # published_owner
    /\ outstanding # None => outstanding # replaced
    /\ published_owner \notin retired
    /\ outstanding \notin retired /\ replaced \notin retired

(* The hazard is the candidate from its announcement to its release.       *)
Announced ==
    /\ render_hazard = IF reader \in {"confirm", "render"} THEN candidate
                                                           ELSE None
    /\ reader \in {"announce", "confirm", "render"} <=> candidate # None

(* What is read is in use, or retired, and then a reclamation under way    *)
(* has seen its hazard.                                                    *)
Protected ==
    reader = "render" =>
        /\ candidate \in {published_owner, replaced} \cup retired
        /\ candidate \in retired /\ writer \in {"lock", "unlock", "reclaim"}
               => saw = candidate

(* A copy is not older than what it replaces.                              *)
Ages ==
    /\ outstanding # None =>
           generation[outstanding] >= generation[published_owner]
    /\ writer = "publish" =>
           generation[published_owner] >= generation[replaced]
    /\ reader # "idle" => since <= generation[published]
    /\ reader = "render" => since <= generation[candidate]

(* A reclamation keeps at most one, and only Unlock retires, which ends    *)
(* with a reclamation.                                                     *)
OneRetired ==
    writer \in {"idle", "lock", "unlock"} =>
        \E s \in Snapshots \cup {None} : retired \subseteq {s}

SnapshotInv ==
    /\ SnapshotTypeOK /\ Ownership /\ Announced /\ Protected /\ Ages
    /\ OneRetired
-----------------------------------------------------------------------------
LEMMA InitSnapshotInv == SnapshotInit => SnapshotInv
  BY SnapshotAssumption
  DEF SnapshotInit, SnapshotInv, SnapshotTypeOK, Ownership, Announced,
      Protected, Ages, OneRetired

(* The writer's calls, one lemma for each part of the invariant.           *)
LEMMA WriterTypeOK ==
    ASSUME SnapshotInv, SnapshotWriter
    PROVE  SnapshotTypeOK'
  <1> USE SnapshotAssumption
      DEF SnapshotInv, SnapshotTypeOK, readerVars, LoadHazard, KeepHazarded
  <1>1. CASE BeginLock   BY <1>1 DEF BeginLock
  <1>2. CASE Lock        BY <1>2 DEF Lock, Allocated
  <1>3. CASE BeginUnlock BY <1>3 DEF BeginUnlock
  <1>4. CASE Unlock      BY <1>4 DEF Unlock, Ownership
  <1>5. CASE Publish     BY <1>5 DEF Publish
  <1>6. CASE Retire      BY <1>6 DEF Retire, Ownership
  <1>7. CASE Restore     BY <1>7 DEF Restore
  <1>8. CASE ReclaimRetired BY <1>8 DEF ReclaimRetired
  <1>9. QED
    BY <1>1, <1>2, <1>3, <1>4, <1>5, <1>6, <1>7, <1>8 DEF SnapshotWriter

LEMMA WriterOwnership ==
    ASSUME SnapshotInv, SnapshotWriter
    PROVE  Ownership'
  <1> USE SnapshotAssumption
      DEF SnapshotInv, SnapshotTypeOK, Ownership, readerVars, LoadHazard,
          KeepHazarded
  <1>1. CASE BeginLock   BY <1>1 DEF BeginLock
  <1>2. CASE Lock        BY <1>2 DEF Lock, Allocated
  <1>3. CASE BeginUnlock BY <1>3 DEF BeginUnlock
  <1>4. CASE Unlock      BY <1>4 DEF Unlock
  <1>5. CASE Publish     BY <1>5 DEF Publish
  <1>6. CASE Retire      BY <1>6 DEF Retire
  <1>7. CASE Restore     BY <1>7 DEF Restore
  <1>8. CASE ReclaimRetired BY <1>8 DEF ReclaimRetired
  <1>9. QED
    BY <1>1, <1>2, <1>3, <1>4, <1>5, <1>6, <1>7, <1>8 DEF SnapshotWriter

LEMMA WriterAnnounced ==
    ASSUME SnapshotInv, SnapshotWriter
    PROVE  Announced'
  BY DEF SnapshotInv, Announced, SnapshotWriter, readerVars, BeginLock, Lock,
         BeginUnlock, Unlock, Publish, Retire, Restore, ReclaimRetired

(* Whoever loads the hazard after the reader has been confirmed sees it.   *)
LEMMA WriterProtected ==
    ASSUME SnapshotInv, SnapshotWriter
    PROVE  Protected'
  <1> USE SnapshotAssumption
      DEF SnapshotInv, SnapshotTypeOK, Ownership, Announced, Protected,
          readerVars, LoadHazard, KeepHazarded
  <1>1. CASE BeginLock   BY <1>1 DEF BeginLock
  <1>2. CASE Lock        BY <1>2 DEF Lock, Allocated
  <1>3. CASE BeginUnlock BY <1>3 DEF BeginUnlock
  <1>4. CASE Unlock      BY <1>4 DEF Unlock
  <1>5. CASE Publish     BY <1>5 DEF Publish
  <1>6. CASE Retire      BY <1>6 DEF Retire
  <1>7. CASE Restore     BY <1>7 DEF Restore
  <1>8. CASE ReclaimRetired BY <1>8 DEF ReclaimRetired
  <1>9. QED
    BY <1>1, <1>2, <1>3, <1>4, <1>5, <1>6, <1>7, <1>8 DEF SnapshotWriter

(* A copy is made at an address that is neither published nor being read.  *)
LEMMA WriterAges ==
    ASSUME SnapshotInv, SnapshotWriter
    PROVE  Ages'
  <1> USE SnapshotAssumption
      DEF SnapshotInv, SnapshotTypeOK, Ownership, Announced, Protected, Ages,
          readerVars, LoadHazard, KeepHazarded
  <1>1. CASE BeginLock   BY <1>1 DEF BeginLock
  <1>2. CASE Lock
    <2>1. CASE UNCHANGED <<outstanding, generation>>
      BY <1>2, <2>1 DEF Lock
    <2>2. ASSUME NEW copy \in (Snapshots \ Allocated) \cup (retired \ retired'),
                 outstanding' = copy,
                 generation' = [generation EXCEPT
                                   ![copy] = generation[published_owner] + 1]
          PROVE  Ages'
      <3>1. copy \in Snapshots /\ copy # published_owner /\ copy # published
        BY <1>2 DEF Lock, Allocated
      <3>2. reader = "render" => copy # candidate
        BY <1>2 DEF Lock, Allocated
      <3>3. reader \in {"announce", "confirm", "render"} => candidate \in Snapshots
        OBVIOUS
      <3>4. generation'[copy] = generation[published_owner] + 1
        BY <2>2, <3>1
      <3>5. \A s \in Snapshots \ {copy} : generation'[s] = generation[s]
        BY <2>2
      <3>6. generation[published_owner] \in Nat
        OBVIOUS
      <3>7. writer' = "idle" /\ published_owner' = published_owner
                /\ published' = published /\ UNCHANGED readerVars
        BY <1>2 DEF Lock
      <3>8. QED
        BY <2>2, <3>1, <3>2, <3>3, <3>4, <3>5, <3>6, <3>7
    <2>3. QED
      BY <1>2, <2>1, <2>2 DEF Lock
  <1>3. CASE BeginUnlock BY <1>3 DEF BeginUnlock
  <1>4. CASE Unlock      BY <1>4 DEF Unlock
  <1>5. CASE Publish     BY <1>5 DEF Publish
  <1>6. CASE Retire      BY <1>6 DEF Retire
  <1>7. CASE Restore     BY <1>7 DEF Restore
  <1>8. CASE ReclaimRetired BY <1>8 DEF ReclaimRetired
  <1>9. QED
    BY <1>1, <1>2, <1>3, <1>4, <1>5, <1>6, <1>7, <1>8 DEF SnapshotWriter

LEMMA WriterOneRetired ==
    ASSUME SnapshotInv, SnapshotWriter
    PROVE  OneRetired'
  <1> USE DEF SnapshotInv, SnapshotTypeOK, OneRetired, readerVars, LoadHazard,
              KeepHazarded
  <1>1. CASE BeginLock   BY <1>1 DEF BeginLock
  <1>2. CASE Lock        BY <1>2 DEF Lock
  <1>3. CASE BeginUnlock BY <1>3 DEF BeginUnlock
  <1>4. CASE Unlock      BY <1>4 DEF Unlock
  <1>5. CASE Publish     BY <1>5 DEF Publish
  <1>6. CASE Retire      BY <1>6 DEF Retire
  <1>7. CASE Restore     BY <1>7 DEF Restore
  <1>8. CASE ReclaimRetired BY <1>8 DEF ReclaimRetired
  <1>9. QED
    BY <1>1, <1>2, <1>3, <1>4, <1>5, <1>6, <1>7, <1>8 DEF SnapshotWriter

(* The reader. What it confirms is published and so not retired.           *)
LEMMA ReaderInv ==
    ASSUME SnapshotInv, SnapshotReader \/ ReleaseView
    PROVE  SnapshotInv'
  <1> USE SnapshotAssumption
      DEF SnapshotInv, SnapshotTypeOK, Ownership, Announced, Protected, Ages,
          OneRetired, writerVars
  <1>1. CASE LoadPublished BY <1>1 DEF LoadPublished
  <1>2. CASE Announce      BY <1>2 DEF Announce
  <1>3. CASE Confirm       BY <1>3 DEF Confirm, Confirmed
  <1>4. CASE ReleaseView   BY <1>4 DEF ReleaseView
  <1>5. QED
    BY <1>1, <1>2, <1>3, <1>4 DEF SnapshotReader

LEMMA NextSnapshotInv == SnapshotInv /\ [SnapshotNext]_snapshotVars => SnapshotInv'
  <1> SUFFICES ASSUME SnapshotInv, [SnapshotNext]_snapshotVars
               PROVE  SnapshotInv'
    OBVIOUS
  <1>1. CASE SnapshotWriter
    BY <1>1, WriterTypeOK, WriterOwnership, WriterAnnounced, WriterProtected,
       WriterAges, WriterOneRetired DEF SnapshotInv
  <1>2. CASE SnapshotReader \/ ReleaseView
    BY <1>2, ReaderInv
  <1>3. CASE UNCHANGED snapshotVars
    BY <1>3 DEF snapshotVars, SnapshotInv, SnapshotTypeOK, Ownership,
                Announced, Protected, Ages, OneRetired
  <1>4. QED
    BY <1>1, <1>2, <1>3 DEF SnapshotNext

(* Whatever the order of the loads and stores, the invariant holds         *)
(* (AudioSnapshot.cpp, CaptureSingleReaderSnapshot).                       *)
THEOREM SnapshotInvariant == SnapshotSpec => []SnapshotInv
  BY InitSnapshotInv, NextSnapshotInv, PTL DEF SnapshotSpec

LEMMA InvImpliesView == SnapshotInv => ViewIsLive
  BY SnapshotAssumption
  DEF SnapshotInv, SnapshotTypeOK, Ownership, Protected, Ages, ViewIsLive,
      Allocated, Announced

(* The render thread never reads freed data, data that the game is writing *)
(* into, or data older than what was published when it began to acquire.   *)
THEOREM SnapshotViewIsLive == SnapshotSpec => []ViewIsLive
  BY SnapshotInvariant, InvImpliesView, PTL

LEMMA InvImpliesBounded == SnapshotInv => RetiredBounded
  <1> SUFFICES ASSUME SnapshotInv, writer \in {"idle", "lock", "unlock"}
               PROVE  Cardinality(retired) <= 1
    BY DEF RetiredBounded
  <1>1. PICK s \in Snapshots \cup {None} : retired \subseteq {s}
    BY DEF SnapshotInv, OneRetired
  <1>2. IsFiniteSet({s}) /\ Cardinality({s}) = 1
    BY FS_Singleton
  <1>3. QED
    BY <1>1, <1>2, FS_Subset

(* Outside a call at most one replaced snapshot is kept.                   *)
THEOREM SnapshotRetiredBounded == SnapshotSpec => []RetiredBounded
  BY SnapshotInvariant, InvImpliesBounded, PTL

-----------------------------------------------------------------------------
(* SoundBuffer.                                                            *)
(* Every step of the buffer is a step of the sample data or leaves it.     *)
LEMMA InitIsSnapshotInit == Init => SnapshotInit
  BY DEF Init, VoiceInit

LEMMA RenderUsesSnapshot ==
    ASSUME RenderStep
    PROVE  [SnapshotNext]_snapshotVars
  <1>1. CASE AcquireForRender
    BY <1>1 DEF AcquireForRender, SnapshotNext
  <1>2. CASE MixPeriod
    BY <1>2 DEF MixPeriod, SnapshotNext
  <1>3. CASE \/ BeginPeriod \/ CapturePlayingRun \/ ReadStableSeek
             \/ ApplySeek \/ SeekApplied \/ AdvanceVoiceAcrossDiscontinuity
             \/ BeginEnd \/ PublishDrain \/ VoiceEnded \/ CompleteEnd
             \/ PeriodRendered
    BY <1>3 DEF BeginPeriod, CapturePlayingRun, ReadStableSeek, ApplySeek,
                SeekApplied, AdvanceVoiceAcrossDiscontinuity, BeginEnd,
                PublishDrain, VoiceEnded, CompleteEnd, PeriodRendered
  <1>4. QED
    BY <1>1, <1>2, <1>3 DEF RenderStep

LEMMA NextUsesSnapshot == [Next]_allVars => [SnapshotNext]_snapshotVars
  <1> SUFFICES ASSUME [Next]_allVars
               PROVE  [SnapshotNext]_snapshotVars
    OBVIOUS
  <1>1. CASE WriteSamples
    BY <1>1 DEF WriteSamples, SnapshotNext
  <1>2. CASE RenderStep
    BY <1>2, RenderUsesSnapshot
  <1>3. CASE VoiceControl
    BY <1>3 DEF VoiceControl, BeginPlay, LoadFallback, PublishForPlay,
                PlayPublished, CommitPlay, BeginStop, CompleteStop,
                PublishSeek, SeekPublished
  <1>4. CASE \/ Play \/ SetCurrentPosition \/ ControlAccepted \/ BeginQuery
             \/ ReadAudibleUntil \/ ReadClock \/ SearchSpan \/ Return
             \/ StopVoice \/ Stopped \/ Release \/ Released
    BY <1>4 DEF Play, SetCurrentPosition, ControlAccepted, BeginQuery,
                ReadAudibleUntil, ReadClock, SearchSpan, Return, StopVoice,
                Stopped, Release, Released
  <1>5. CASE UNCHANGED allVars
    BY <1>5 DEF allVars
  <1>6. QED
    BY <1>1, <1>2, <1>3, <1>4, <1>5 DEF Next

(* The buffer and its render thread use the sample data as AudioSnapshot   *)
(* says (MiniaudioMixer.cpp, VoiceNodeProcess; DirectSoundFacade.cpp).     *)
THEOREM BufferImplementsSnapshot == Spec => SnapshotSpec
  BY InitIsSnapshotInit, NextUsesSnapshot, PTL DEF Spec, SnapshotSpec

(* So the data that a period is mixed from is live.                        *)
THEOREM BufferViewIsLive == Spec => []ViewIsLive
  BY BufferImplementsSnapshot, SnapshotViewIsLive, PTL
-----------------------------------------------------------------------------
(* The records that the two threads keep have the fields that are used.    *)
Shape ==
    /\ playback \in [phase : {"Stopped", "Starting", "Playing", "Stopping",
                              "Ending", "Ended"}, run : Nat]
    /\ "at" \in DOMAIN control /\ "at" \in DOMAIN render
    /\ control.at \in {"play", "load", "publish", "published", "commit"}
           => "started" \in DOMAIN control /\ control.started \in BOOLEAN

(* A control operation belongs to a call that has not returned.            *)
CallUnderWay ==
    control.at # "idle" => game.at \in {"control", "stopping", "releasing"}

(* Each thread holds the phases it has entered.                            *)
PhasesHeld ==
    /\ playback.phase = "Starting"
           <=> control.at \in {"load", "publish", "published", "commit"}
    /\ playback.phase = "Stopping" <=> control.at = "stopping"
    /\ playback.phase = "Ending"
           <=> render.at \in {"drain", "stop_node", "complete"}

CountInv == Shape /\ CallUnderWay /\ PhasesHeld /\ ActiveVoicesCounted

LEMMA InitCountInv == Init => CountInv
  BY DEF Init, VoiceInit, Idle, CountInv, Shape, CallUnderWay, PhasesHeld,
         ActiveVoicesCounted

(* The calls of the game: none is begun while another is under way.        *)
LEMMA GameCountInv ==
    ASSUME CountInv,
           \/ Play \/ SetCurrentPosition \/ ControlAccepted \/ BeginQuery
           \/ ReadAudibleUntil \/ ReadClock \/ SearchSpan \/ Return
           \/ StopVoice \/ Stopped \/ Release \/ Released \/ WriteSamples
    PROVE  CountInv'
  <1> USE DEF CountInv, Shape, CallUnderWay, PhasesHeld, ActiveVoicesCounted,
              Idle, Returned, bufferVars, stateVars, sharedVars, cursorVars,
              renderVars, historyVars, voiceVars
  <1>1. CASE Play               BY <1>1 DEF Play, StartPlay
  <1>2. CASE SetCurrentPosition BY <1>2 DEF SetCurrentPosition, StartSeek
  <1>3. CASE ControlAccepted    BY <1>3 DEF ControlAccepted
  <1>4. CASE BeginQuery         BY <1>4 DEF BeginQuery
  <1>5. CASE ReadAudibleUntil   BY <1>5 DEF ReadAudibleUntil
  <1>6. CASE ReadClock          BY <1>6 DEF ReadClock
  <1>7. CASE SearchSpan         BY <1>7 DEF SearchSpan
  <1>8. CASE Return             BY <1>8 DEF Return
  <1>9. CASE StopVoice          BY <1>9 DEF StopVoice, StartStop
  <1>10. CASE Stopped           BY <1>10 DEF Stopped
  <1>11. CASE Release           BY <1>11 DEF Release, StartStop
  <1>12. CASE Released          BY <1>12 DEF Released
  <1>13. CASE WriteSamples      BY <1>13 DEF WriteSamples
  <1>14. QED
    BY <1>1, <1>2, <1>3, <1>4, <1>5, <1>6, <1>7, <1>8, <1>9, <1>10, <1>11,
       <1>12, <1>13

(* The control operations.                                                 *)
LEMMA ControlCountInv ==
    ASSUME CountInv, VoiceControl, UNCHANGED game
    PROVE  CountInv'
  <1> USE DEF CountInv, Shape, CallUnderWay, PhasesHeld, ActiveVoicesCounted,
              stateVars, sharedVars, cursorVars, renderVars, Phase
  <1>1. CASE BeginPlay
    <2> DEFINE playing == playback.phase = "Playing"
    <2> USE <1>1 DEF BeginPlay
    <2>1. /\ control'.at = "load" /\ "at" \in DOMAIN control'
          /\ "started" \in DOMAIN control' /\ control'.started = playing
      OBVIOUS
    <2>2. /\ playback'.phase = "Starting" /\ playback'.run \in Nat
          /\ playback' = [phase |-> "Starting", run |-> playback.run + 1]
      OBVIOUS
    <2>3. active_voices = IF playing THEN 1 ELSE 0
      OBVIOUS
    <2>4. UNCHANGED <<active_voices, render, game>>
      OBVIOUS
    <2>5. Shape'
      BY <2>1, <2>2, <2>4
    <2>6. CallUnderWay' /\ PhasesHeld'
      BY <2>1, <2>2, <2>4
    <2>7. ActiveVoicesCounted'
      BY <2>1, <2>2, <2>3, <2>4
    <2>8. QED
      BY <2>5, <2>6, <2>7
  <1>2. CASE LoadFallback   BY <1>2 DEF LoadFallback
  <1>3. CASE PublishForPlay BY <1>3 DEF PublishForPlay
  <1>4. CASE PlayPublished  BY <1>4 DEF PlayPublished
  <1>5. CASE CommitPlay     BY <1>5 DEF CommitPlay
  <1>6. CASE BeginStop      BY <1>6 DEF BeginStop
  <1>7. CASE CompleteStop   BY <1>7 DEF CompleteStop
  <1>8. CASE PublishSeek    BY <1>8 DEF PublishSeek
  <1>9. CASE SeekPublished  BY <1>9 DEF SeekPublished
  <1>10. QED
    BY <1>1, <1>2, <1>3, <1>4, <1>5, <1>6, <1>7, <1>8, <1>9 DEF VoiceControl

(* The render thread: it enters Ending only from Playing, which no control *)
(* operation holds.                                                        *)
LEMMA RenderCountInv ==
    ASSUME CountInv, RenderStep, UNCHANGED game
    PROVE  CountInv'
  <1> USE DEF CountInv, Shape, CallUnderWay, PhasesHeld, ActiveVoicesCounted,
              Idle, stateVars, sharedVars, cursorVars, historyVars, voiceVars,
              Phase, To, Ends
  <1>1. CASE BeginPeriod       BY <1>1 DEF BeginPeriod
  <1>2. CASE CapturePlayingRun BY <1>2 DEF CapturePlayingRun
  <1>3. CASE ReadStableSeek    BY <1>3 DEF ReadStableSeek, AfterSeek
  <1>4. CASE ApplySeek         BY <1>4 DEF ApplySeek
  <1>5. CASE SeekApplied       BY <1>5 DEF SeekApplied
  <1>6. CASE AdvanceVoiceAcrossDiscontinuity
    BY <1>6 DEF AdvanceVoiceAcrossDiscontinuity
  <1>7. CASE AcquireForRender
    BY <1>7 DEF AcquireForRender, renderVars
  <1>8. CASE MixPeriod         BY <1>8 DEF MixPeriod
  <1>9. CASE BeginEnd          BY <1>9 DEF BeginEnd
  <1>10. CASE PublishDrain     BY <1>10 DEF PublishDrain
  <1>11. CASE VoiceEnded       BY <1>11 DEF VoiceEnded
  <1>12. CASE CompleteEnd      BY <1>12 DEF CompleteEnd
  <1>13. CASE PeriodRendered   BY <1>13 DEF PeriodRendered
  <1>14. QED
    BY <1>1, <1>2, <1>3, <1>4, <1>5, <1>6, <1>7, <1>8, <1>9, <1>10, <1>11,
       <1>12, <1>13 DEF RenderStep

LEMMA NextCountInv == CountInv /\ [Next]_allVars => CountInv'
  <1> SUFFICES ASSUME CountInv, [Next]_allVars
               PROVE  CountInv'
    OBVIOUS
  <1>1. CASE UNCHANGED allVars
    BY <1>1 DEF allVars, voiceVars, stateVars, renderVars, CountInv, Shape,
                CallUnderWay, PhasesHeld, ActiveVoicesCounted
  <1>2. CASE Next
    BY <1>2, GameCountInv, ControlCountInv, RenderCountInv DEF Next
  <1>3. QED
    BY <1>1, <1>2

(* Whichever thread ends the voice, in whatever order, it is counted       *)
(* exactly while it is active (MiniaudioMixer.cpp, VoiceStarted,           *)
(* VoiceStopped and the state machine between them).                       *)
THEOREM BufferVoicesCounted == Spec => []ActiveVoicesCounted
  <1>1. CountInv => ActiveVoicesCounted
    BY DEF CountInv
  <1>2. QED
    BY InitCountInv, NextCountInv, <1>1, PTL DEF Spec

-----------------------------------------------------------------------------
(* What the variables hold.                                                *)
SourceOffsets == 0..SourceLength - 1
Origins  == {"Play", "Seek"}
Requests == [sequence : Nat, frame : SourceOffsets, epoch : Nat,
             origin : Origins]
Stages   == {"capture", "seek", "apply", "applied", "advance", "mix", "end",
             "drain", "stop_node", "complete", "finish"}
Periods  == [at : Stages, begin : Nat, gap : Nat, run : Nat,
             request : Requests, until : Nat]
Spans    == [begin : Nat, end : Nat, source : Nat, epoch : Nat]
Closures == {"none", "LaterEpoch", "NaturalEnd", "WriterQuiescedRelease"}
Epochs   == [generation : Nat, origin : Origins, output_origin : Nat,
             source_origin : SourceOffsets, tail : Nat, closure : Closures,
             closed_tail : Int]
Controls ==
    [at : {"idle", "stop", "stopping", "done"}]
        \cup [at : {"seek", "sought"}, frame : SourceOffsets, epoch : Nat]
        \cup [at : {"play", "load", "publish", "published", "commit"},
              loop : BOOLEAN, epoch : Nat, frame : SourceOffsets,
              started : BOOLEAN, unapplied : BOOLEAN]

VoiceTypeOK ==
    /\ ended \in BOOLEAN /\ looping \in BOOLEAN
    /\ overlapped \in BOOLEAN
    /\ seek_mailbox \in Requests /\ applied_seek_sequence \in Nat
    /\ accepted_epoch \in Nat /\ playback_generation \in Nat
    /\ cursor \in 0..SourceLength
    /\ audible_drain \in [end : Nat, run : Nat, epoch : Nat]
    /\ mapping \in [epoch : Nat, source_start : SourceOffsets,
                    output_frames : Nat, origin : Origins]
    /\ render \in {Idle} \cup Periods
    /\ control \in Controls
    /\ heard \in [0..MaxOutput - 1 ->
                     {Silent} \cup [epoch : Nat, source : Nat]]
    /\ presented \in Int

TimelineTypeOK ==
    /\ slots \in [0..kRenderSpanCapacity - 1 ->
                     [sequence : Int, span : Spans]]
    /\ published_generation \in Nat
    /\ exact \in [epochs : Seq(Epochs), evicted : BOOLEAN,
                  discontinuous : BOOLEAN, requested : Nat]

(* What has been put out of an epoch is part of what has been rendered; a  *)
(* period under way has passed Edge.                                       *)
Edge ==
    IF render.at \in {"idle", "capture", "seek", "apply", "applied", "advance"}
    THEN output_frame
    ELSE IF render.at = "mix" THEN render.begin ELSE render.begin + PeriodFrames

Placed ==
    /\ output_frame \in 0..MaxOutput
    /\ render.at # "idle" =>
           /\ render.begin = output_frame + render.gap
           /\ render.begin + PeriodFrames <= MaxOutput
    /\ mapping.output_frames <= Edge

TypeInv == VoiceTypeOK /\ TimelineTypeOK /\ Placed

LEMMA InitTypeInv == Init => TypeInv
  <1> SUFFICES ASSUME Init PROVE TypeInv
    OBVIOUS
  <1> USE VoiceAssumption, TimelineAssumption DEF Init, VoiceInit, TimelineInit
  <1>1. TimelineTypeOK
    BY DEF TimelineTypeOK, NoSpan, Spans
  <1>2. VoiceTypeOK
    <2>1. seek_mailbox \in Requests
      BY DEF Requests, SourceOffsets, Origins
    <2>2. control \in Controls /\ render = Idle
      BY DEF Idle, Controls
    <2>3. mapping \in [epoch : Nat, source_start : SourceOffsets,
                       output_frames : Nat, origin : Origins]
      BY DEF SourceOffsets, Origins
    <2>4. heard \in [0..MaxOutput - 1 -> {Silent} \cup [epoch : Nat, source : Nat]]
      OBVIOUS
    <2>5. cursor \in 0..SourceLength
      OBVIOUS
    <2>6. /\ applied_seek_sequence \in Nat /\ accepted_epoch \in Nat
          /\ playback_generation \in Nat /\ presented \in Int
      OBVIOUS
    <2>9. /\ ended \in BOOLEAN /\ looping \in BOOLEAN
          /\ overlapped \in BOOLEAN
      BY Zenon
    <2>7. audible_drain \in [end : Nat, run : Nat, epoch : Nat]
      OBVIOUS
    <2>8. QED
      BY ONLY <2>1, <2>2, <2>3, <2>4, <2>5, <2>6, <2>7, <2>9 DEF VoiceTypeOK
  <1>3. Placed
    BY DEF Placed, Edge, Idle
  <1>4. QED  BY <1>1, <1>2, <1>3 DEF TypeInv

(* How many frames a stretch takes of the source.                          *)
LEMMA StretchRange ==
    ASSUME TypeInv, NEW frames \in Nat
    PROVE  /\ UntilSourceEnd \in Nat
           /\ UntilSourceEnd = IF mapping.source_start + mapping.output_frames
                                    <= SourceLength
                               THEN SourceLength - mapping.source_start
                                        - mapping.output_frames
                               ELSE 0
           /\ SourceFrames(frames) \in 0..frames
           /\ SourceFrames(frames) =
                  IF looping \/ frames <= UntilSourceEnd THEN frames
                                                         ELSE UntilSourceEnd
           /\ CursorFrames(frames) \in 0..frames
           /\ CursorFrames(frames) =
                  IF looping \/ frames <= SourceLength - cursor
                  THEN frames ELSE SourceLength - cursor
  <1> USE VoiceAssumption DEF TypeInv, VoiceTypeOK, SourceOffsets
  <1>1. mapping.source_start \in Int /\ mapping.output_frames \in Int
    OBVIOUS
  <1>2. UntilSourceEnd =
            IF mapping.source_start + mapping.output_frames <= SourceLength
            THEN SourceLength - mapping.source_start - mapping.output_frames
            ELSE 0
    <2> DEFINE left == SourceLength - mapping.source_start
                           - mapping.output_frames
    <2>1. left \in Int
      BY <1>1
    <2>2. UntilSourceEnd = Max({0, left})
      BY DEF UntilSourceEnd
    <2> HIDE DEF left
    <2>3. UntilSourceEnd = IF 0 >= left THEN 0 ELSE left
      BY <2>1, <2>2, MaxOfTwo
    <2>4. QED  BY <1>1, <2>1, <2>3 DEF left
  <1>3. UntilSourceEnd \in Nat
    BY <1>1, <1>2
  <1>4. SourceFrames(frames) =
            IF looping \/ frames <= UntilSourceEnd THEN frames
                                                   ELSE UntilSourceEnd
    BY <1>3, MinOfTwo DEF SourceFrames
  <1>5. SourceLength - cursor \in Nat
    OBVIOUS
  <1>6. CursorFrames(frames) =
            IF looping \/ frames <= SourceLength - cursor
            THEN frames ELSE SourceLength - cursor
    BY <1>5, MinOfTwo DEF CursorFrames
  <1>7. QED  BY <1>2, <1>3, <1>4, <1>5, <1>6

LEMMA MappedEpochIs ==
    ASSUME NEW begin, NEW frames, NEW over \in BOOLEAN
    PROVE  MappedEpoch(begin, frames, over) =
               [generation |-> mapping.epoch, origin |-> mapping.origin,
                output_origin |-> begin - mapping.output_frames,
                source_origin |-> mapping.source_start,
                tail |-> begin + frames,
                closure |-> IF over THEN "NaturalEnd" ELSE "none",
                closed_tail |-> IF over THEN SourceLength ELSE 0]
  <1>1. CASE over
    BY <1>1 DEF MappedEpoch, EpochOf, Closed
  <1>2. CASE ~over
    BY <1>2 DEF MappedEpoch, EpochOf
  <1>3. QED  BY <1>1, <1>2

LEMMA MappedEpochType ==
    ASSUME TypeInv, NEW begin \in Nat, NEW frames \in Nat, NEW over \in BOOLEAN,
           mapping.output_frames <= begin
    PROVE  MappedEpoch(begin, frames, over) \in Epochs
  <1>1. /\ mapping.epoch \in Nat /\ mapping.origin \in Origins
        /\ mapping.source_start \in SourceOffsets
        /\ begin - mapping.output_frames \in Nat /\ begin + frames \in Nat
    BY DEF TypeInv, VoiceTypeOK
  <1>2. SourceLength \in Int
    BY VoiceAssumption
  <1>3. QED
    BY <1>1, <1>2, MappedEpochIs DEF Epochs, Closures

LEMMA SourceTailType ==
    ASSUME NEW epoch \in Epochs
    PROVE  /\ SourceTail(epoch) \in Int
           /\ \A closure \in Closures :
                  Closed(epoch, closure, SourceTail(epoch)) \in Epochs
  <1>1. epoch.source_origin \in Int
    BY VoiceAssumption DEF Epochs, SourceOffsets
  <1>2. SourceTail(epoch) \in Int
    BY <1>1 DEF Epochs, SourceTail
  <1>3. QED  BY <1>2 DEF Epochs, Closed

LEMMA PublishExactType ==
    ASSUME TimelineTypeOK, NEW epoch \in Epochs, PublishExactMappedSpan(epoch)
    PROVE  exact' \in [epochs : Seq(Epochs), evicted : BOOLEAN,
                       discontinuous : BOOLEAN, requested : Nat]
  <1> USE DEF TimelineTypeOK
  <1> DEFINE kept == exact.epochs
             count == Len(kept)
  <1>1. kept \in Seq(Epochs) /\ count \in Nat
    OBVIOUS
  <1>2. kept # <<>> => Newest \in Epochs /\ count \in 1..count
    BY <1>1 DEF Newest
  <1>3. Appended(epoch) \in Seq(Epochs)
    <2> DEFINE last == Closed(kept[count], "LaterEpoch", SourceTail(kept[count]))
               closed == IF Newest.closure = "none"
                         THEN [kept EXCEPT ![count] = last] ELSE kept
               all == IF count = 0 THEN <<epoch>> ELSE Append(closed, epoch)
    <2>1. count # 0 => closed \in Seq(Epochs)
      <3>1. count # 0 => last \in Epochs
        BY <1>2, SourceTailType DEF Newest, Closures
      <3> HIDE DEF last
      <3>2. QED  BY <1>1, <3>1
    <2>2. all \in Seq(Epochs) /\ all # <<>>
      <3> HIDE DEF closed
      <3>1. QED  BY <2>1, <1>1
    <2>3. Appended(epoch) =
              IF Len(all) > kExactPlaybackEpochCapacity THEN Tail(all) ELSE all
      BY DEF Appended, Newest
    <2> HIDE DEF all
    <2>4. QED  BY <2>2, <2>3
  <1>4. CASE ~Accepts(epoch)
    BY <1>4 DEF PublishExactMappedSpan
  <1>5. CASE Accepts(epoch) /\ NewEpoch(epoch.generation)
    BY <1>3, <1>5 DEF PublishExactMappedSpan, Stored
  <1>6. CASE Accepts(epoch) /\ ~NewEpoch(epoch.generation)
    <2>1. kept # <<>>
      BY <1>6 DEF NewEpoch
    <2>2. [kept EXCEPT ![count] = epoch] \in Seq(Epochs)
      BY <1>1, <1>2, <2>1
    <2>3. exact' = [exact EXCEPT !.epochs = [kept EXCEPT ![count] = epoch]]
      BY <1>6 DEF PublishExactMappedSpan, Stored
    <2>4. QED  BY <2>2, <2>3
  <1>7. QED  BY <1>4, <1>5, <1>6

(* The calls of the game but for the writes, which concern the snapshots.  *)
GameCall ==
    \/ Play \/ SetCurrentPosition \/ ControlAccepted \/ BeginQuery
    \/ ReadAudibleUntil \/ ReadClock \/ SearchSpan \/ Return
    \/ StopVoice \/ Stopped \/ Release \/ Released

timelessVars == <<looping, seek_mailbox, accepted_epoch, applied_seek_sequence,
                  cursor, ended, mapping, audible_drain, output_frame, render,
                  heard, overlapped, slots, published_generation>>

LEMMA GameCallKeeps ==
    ASSUME GameCall
    PROVE  UNCHANGED <<playback, timelessVars>>
  BY Zenon DEF GameCall, Play, SetCurrentPosition, ControlAccepted, BeginQuery,
     ReadAudibleUntil, ReadClock, SearchSpan, Return, StopVoice, Stopped,
     Release, Released, timelessVars, voiceVars, stateVars, sharedVars,
     cursorVars, renderVars, historyVars, timelineVars

LEMMA GameTypeInv ==
    ASSUME TypeInv, GameCall
    PROVE  TypeInv'
  <1> USE DEF TypeInv
  <1>1. UNCHANGED timelessVars
    BY GameCallKeeps
  <1>2. Placed'
    BY <1>1 DEF Placed, Edge, timelessVars
  <1>3. /\ slots' \in [0..kRenderSpanCapacity - 1 ->
                          [sequence : Int, span : Spans]]
        /\ published_generation' \in Nat
    BY <1>1 DEF timelessVars, TimelineTypeOK
  <1>4. control' \in Controls
    <2> USE VoiceAssumption, SeekAssumption
        DEF Controls, VoiceTypeOK, Idle, SourceOffsets
    <2>1. CASE Play
      BY <2>1 DEF Play, StartPlay
    <2>2. CASE SetCurrentPosition
      BY <2>2 DEF SetCurrentPosition, StartSeek
    <2>3. CASE UNCHANGED control
      BY <2>3
    <2>4. CASE control' = Idle
      BY <2>4
    <2>5. CASE control' = [at |-> "stop"]
      BY <2>5
    <2>6. QED
      BY <2>1, <2>2, <2>3, <2>4, <2>5, Zenon
      DEF GameCall, ControlAccepted, BeginQuery, ReadAudibleUntil, ReadClock,
          SearchSpan, Return, StopVoice, Stopped, Release, Released, StartStop,
          voiceVars
  <1>5. playback_generation' \in Nat
    <2>1. \/ playback_generation' = playback_generation
          \/ playback_generation' = playback_generation + 1
      BY Zenon DEF GameCall, Play, SetCurrentPosition, ControlAccepted,
         BeginQuery, ReadAudibleUntil, ReadClock, SearchSpan, Return, StopVoice,
         Stopped, Release, Released, bufferVars
    <2>2. QED  BY <2>1 DEF VoiceTypeOK
  <1>6. presented' \in Int
    <2>1. CASE ReadClock
      <3>1. \A frame \in OutputFrames : frame \in Int
        <4>1. Max({presented, 0}) \in Int
          <5>1. presented \in Int
            BY DEF VoiceTypeOK
          <5>2. QED  BY <5>1, MaxOfTwo
        <4>2. QED  BY <4>1 DEF OutputFrames
      <3>2. QED  BY <2>1, <3>1 DEF ReadClock, VoiceTypeOK
    <2>2. CASE ~ReadClock
      BY <2>2 DEF GameCall, Play, SetCurrentPosition, ControlAccepted,
         BeginQuery, ReadAudibleUntil, SearchSpan, Return, StopVoice, Stopped,
         Release, Released, bufferVars, VoiceTypeOK
    <2>3. QED  BY <2>1, <2>2
  <1>7. exact' \in [epochs : Seq(Epochs), evicted : BOOLEAN,
                    discontinuous : BOOLEAN, requested : Nat]
    <2>1. CASE UNCHANGED exact
      BY <2>1 DEF TimelineTypeOK
    <2>2. CASE ControlAccepted
      <3>1. \A a, b \in Nat : Max({a, b}) \in Nat
        BY MaxOfTwo
      <3>2. QED
        <4>1. exact' = [exact EXCEPT !.requested =
                            Max({exact.requested, playback_generation + 1})]
          BY <2>2 DEF ControlAccepted, Expect
        <4>2. Max({exact.requested, playback_generation + 1}) \in Nat
          BY <3>1 DEF TimelineTypeOK, VoiceTypeOK
        <4>3. QED  BY <4>1, <4>2 DEF TimelineTypeOK
    <2>3. CASE CloseExactWriter
      <3> DEFINE kept == exact.epochs
                 count == Len(kept)
                 last == IF Newest.closure = "none"
                         THEN Closed(Newest, "WriterQuiescedRelease",
                                     SourceTail(Newest))
                         ELSE Newest
      <3>1. CASE kept = <<>>
        BY <2>3, <3>1 DEF CloseExactWriter, TimelineTypeOK
      <3>2. CASE kept # <<>>
        <4>1. kept \in Seq(Epochs) /\ count \in 1..count /\ Newest \in Epochs
              /\ Newest = kept[count]
          BY <3>2 DEF TimelineTypeOK, Newest
        <4>2. last \in Epochs
          BY <4>1, SourceTailType DEF Closures
        <4>3. exact' = [exact EXCEPT !.requested = Newest.generation,
                                     !.epochs = [kept EXCEPT ![count] = last]]
          BY <2>3, <3>2, <4>1 DEF CloseExactWriter
        <4> HIDE DEF last
        <4>4. [kept EXCEPT ![count] = last] \in Seq(Epochs)
          BY <4>1, <4>2
        <4>5. Newest.generation \in Nat
          BY <4>1 DEF Epochs
        <4>6. QED  BY <4>3, <4>4, <4>5 DEF TimelineTypeOK
      <3>3. QED  BY <3>1, <3>2
    <2>4. QED
      BY <2>1, <2>2, <2>3, Zenon
      DEF GameCall, Play, SetCurrentPosition, BeginQuery, ReadAudibleUntil,
          ReadClock, SearchSpan, Return, StopVoice, Stopped, Release, Released,
          timelineVars
  <1>8. VoiceTypeOK'
    BY <1>1, <1>4, <1>5, <1>6, Zenon DEF VoiceTypeOK, timelessVars
  <1>9. TimelineTypeOK'
    BY <1>3, <1>7 DEF TimelineTypeOK
  <1>10. QED  BY <1>2, <1>8, <1>9

LEMMA ControlShape ==
    ASSUME control \in Controls
    PROVE  /\ control.at \in {"play", "load", "publish", "published", "commit"}
              => control \in [at : {"play", "load", "publish", "published",
                                    "commit"},
                              loop : BOOLEAN, epoch : Nat,
                              frame : SourceOffsets, started : BOOLEAN,
                              unapplied : BOOLEAN]
           /\ control.at \in {"seek", "sought"}
              => control \in [at : {"seek", "sought"}, frame : SourceOffsets,
                              epoch : Nat]
  BY DEF Controls

LEMMA ControlTypeInv ==
    ASSUME TypeInv, VoiceControl, UNCHANGED bufferVars
    PROVE  TypeInv'
  <1> USE DEF TypeInv
  <1>1. UNCHANGED <<timelineVars, applied_seek_sequence, cursor, ended, mapping,
                    audible_drain, output_frame, render, heard>>
    BY Zenon DEF VoiceControl, BeginPlay, LoadFallback, PublishForPlay,
       PlayPublished, CommitPlay, BeginStop, CompleteStop, PublishSeek,
       SeekPublished, cursorVars, renderVars
  <1>2. Placed' /\ TimelineTypeOK'
    BY <1>1 DEF Placed, Edge, TimelineTypeOK, timelineVars
  <1>3. /\ Fallback \in SourceOffsets /\ seek_mailbox.frame \in SourceOffsets
        /\ seek_mailbox.epoch \in Nat /\ seek_mailbox.origin \in Origins
        /\ seek_mailbox.sequence + 1 \in Nat
    BY VoiceAssumption
    DEF Fallback, VoiceTypeOK, SourceOffsets, Requests
  <1>4. control \in Controls /\ seek_mailbox \in Requests
    BY DEF VoiceTypeOK
  <1>5. /\ control' \in Controls /\ looping' \in BOOLEAN
        /\ seek_mailbox' \in Requests /\ overlapped' \in BOOLEAN
        /\ accepted_epoch' \in Nat
    <2> HIDE DEF TypeInv
    <2>1. CASE BeginPlay
      <3>1. /\ control'.at = "load" /\ control'.started \in BOOLEAN
            /\ control' = [control EXCEPT !.at = "load",
                                          !.started = playback.phase = "Playing"]
        BY <2>1, <1>4, ControlShape DEF BeginPlay
      <3>2. control' \in Controls
        BY <3>1, <2>1, <1>4, ControlShape DEF BeginPlay, Controls
      <3>3. QED
        BY <2>1, <3>2, Zenon DEF BeginPlay, sharedVars, historyVars, TypeInv, VoiceTypeOK
    <2>2. CASE LoadFallback
      <3>1. UnappliedSeek \in BOOLEAN
        BY DEF UnappliedSeek, PendingSeek
      <3>2. control' \in Controls /\ looping' \in BOOLEAN
        BY <2>2, <3>1, <1>3, <1>4, ControlShape DEF LoadFallback, Controls
      <3>3. QED
        BY <2>2, <3>2, Zenon DEF LoadFallback, historyVars, TypeInv, VoiceTypeOK
    <2>3. CASE PublishForPlay
      <3>1. PlayFrame \in SourceOffsets
        BY <2>3, <1>3, <1>4, ControlShape DEF PublishForPlay, PlayFrame
      <3>2. control' \in Controls
        BY <2>3, <3>1, <1>4, ControlShape DEF PublishForPlay, Controls
      <3>3. seek_mailbox' \in Requests
        BY <2>3, <1>3, <1>4 DEF PublishForPlay, Requests
      <3>4. overlapped' \in BOOLEAN
        BY <2>3, Zenon DEF PublishForPlay
      <3>5. QED
        BY <2>3, <3>2, <3>3, <3>4, Zenon DEF PublishForPlay, TypeInv, VoiceTypeOK
    <2>4. CASE PlayPublished
      <3>1. control.frame \in SourceOffsets /\ control.epoch \in Nat
        BY <2>4, <1>4, ControlShape DEF PlayPublished
      <3>2. control' \in Controls
        BY <2>4, <1>4, ControlShape DEF PlayPublished, Controls
      <3>3. seek_mailbox' \in Requests /\ accepted_epoch' \in Nat
        BY <2>4, <3>1, <1>3 DEF PlayPublished, StoreRequest, Requests, Origins
      <3>4. QED
        BY <2>4, <3>2, <3>3, Zenon DEF PlayPublished, historyVars, TypeInv, VoiceTypeOK
    <2>5. CASE PublishSeek
      <3>1. control' \in Controls
        BY <2>5, <1>4, ControlShape DEF PublishSeek, Controls
      <3>2. seek_mailbox' \in Requests
        BY <2>5, <1>3, <1>4 DEF PublishSeek, Requests
      <3>3. QED
        BY <2>5, <3>1, <3>2, Zenon DEF PublishSeek, historyVars, TypeInv, VoiceTypeOK
    <2>6. CASE SeekPublished
      <3>1. control.frame \in SourceOffsets /\ control.epoch \in Nat
        BY <2>6, <1>4, ControlShape DEF SeekPublished
      <3>2. control' \in Controls
        BY <2>6 DEF SeekPublished, Controls
      <3>3. seek_mailbox' \in Requests /\ accepted_epoch' \in Nat
        BY <2>6, <3>1, <1>3 DEF SeekPublished, StoreRequest, Requests, Origins
      <3>4. QED
        BY <2>6, <3>2, <3>3, Zenon DEF SeekPublished, historyVars, TypeInv, VoiceTypeOK
    <2>7. CASE CommitPlay \/ BeginStop \/ CompleteStop
      <3>1. control' \in Controls
        <4>1. CASE BeginStop
          <5>1. CASE playback.phase = "Playing"
            <6>1. control' = [control EXCEPT !.at = "stopping"]
                  /\ control.at = "stop"
              BY <4>1, <5>1 DEF BeginStop
            <6>2. QED  BY <6>1, <1>4 DEF Controls
          <5>2. CASE playback.phase # "Playing"
            BY <4>1, <5>2 DEF BeginStop, Controls
          <5>3. QED  BY <5>1, <5>2
        <4>2. QED  BY <2>7, <4>1 DEF CommitPlay, CompleteStop, Controls
      <3>2. QED
        BY <2>7, <3>1, Zenon
        DEF CommitPlay, BeginStop, CompleteStop, sharedVars, historyVars, TypeInv,
            VoiceTypeOK
    <2>8. QED
      BY <2>1, <2>2, <2>3, <2>4, <2>5, <2>6, <2>7 DEF VoiceControl
  <1>6. playback_generation' \in Nat /\ presented' \in Int
    BY DEF bufferVars, VoiceTypeOK
  <1>7. VoiceTypeOK'
    BY <1>1, <1>5, <1>6, Zenon DEF VoiceTypeOK
  <1>10. QED  BY <1>2, <1>7

LEMMA PeriodShape ==
    ASSUME TypeInv, render.at # "idle"
    PROVE  /\ render \in Periods
           /\ render.begin = output_frame + render.gap
           /\ render.begin + PeriodFrames <= MaxOutput
           /\ output_frame \in Nat /\ render.gap \in Nat /\ render.begin \in Nat
           /\ render.request \in Requests
  BY DEF TypeInv, VoiceTypeOK, Placed, Idle, Periods

(* Where a period stands after a step, and the edge with it.               *)
LEMMA MovedShape ==
    ASSUME TypeInv, render.at # "idle", NEW at \in Stages, To(at)
    PROVE  /\ render' \in Periods
           /\ render' = [render EXCEPT !.at = at]
           /\ render'.at = at /\ render'.begin = render.begin
           /\ render'.gap = render.gap /\ render'.run = render.run
           /\ render'.request = render.request
           /\ render'.until = render.until
  BY PeriodShape DEF To, Periods

LEMMA EndsShape ==
    ASSUME TypeInv, render.at # "idle", NEW until \in Nat, Ends(until)
    PROVE  /\ render' \in Periods
           /\ render'.at = "end" /\ render'.begin = render.begin
           /\ render'.gap = render.gap /\ render'.run = render.run
           /\ render'.until = until
  BY PeriodShape DEF Ends, Periods, Stages

(* The steps that only move the period on.                                 *)
LEMMA PlacedMoves ==
    ASSUME TypeInv, render.at # "idle", render' \in Periods,
           render'.begin = render.begin, render'.gap = render.gap,
           UNCHANGED output_frame,
           Edge \in Nat, Edge' \in Nat, Edge' >= Edge,
           mapping' = mapping \/ mapping'.output_frames <= Edge'
    PROVE  Placed'
  <1>1. mapping.output_frames \in Nat /\ mapping.output_frames <= Edge
    BY DEF TypeInv, Placed, VoiceTypeOK
  <1>2. mapping'.output_frames <= Edge'
    BY <1>1
  <1>3. QED  BY <1>2, PeriodShape DEF TypeInv, Placed

LEMMA EdgeMoves ==
    ASSUME TypeInv, render.at # "idle", render' \in Periods,
           render'.begin = render.begin, UNCHANGED output_frame,
           \/ render.at \in {"capture", "seek", "apply", "applied", "advance"}
           \/ render.at = "mix" /\ render'.at \in {"mix", "end", "finish"}
           \/ /\ render.at \in {"end", "drain", "stop_node", "complete"}
              /\ render'.at \in {"drain", "stop_node", "complete", "finish"}
    PROVE  Edge' >= Edge /\ Edge \in Nat /\ Edge' \in Nat
  BY PeriodShape, VoiceAssumption
  DEF Edge, Periods, Stages, TypeInv, Placed

(* The steps of the render thread that neither map nor sound.              *)
SilentStep ==
    \/ CapturePlayingRun \/ ReadStableSeek \/ ApplySeek \/ SeekApplied
    \/ BeginEnd \/ PublishDrain \/ VoiceEnded \/ CompleteEnd

LEMMA SilentShape ==
    ASSUME CountInv, TypeInv, SilentStep
    PROVE  /\ render.at # "idle" /\ render' \in Periods
           /\ render'.begin = render.begin /\ render'.gap = render.gap
           /\ render'.until = render.until
           /\ Edge' >= Edge /\ Edge \in Nat /\ Edge' \in Nat
           /\ UNCHANGED <<output_frame, heard, timelineVars, sharedVars,
                          control, historyVars>>
  <1>1. UNCHANGED <<output_frame, heard, timelineVars, sharedVars, control,
                    historyVars>>
    BY Zenon DEF SilentStep, CapturePlayingRun, ReadStableSeek, ApplySeek,
       SeekApplied, BeginEnd, PublishDrain, VoiceEnded, CompleteEnd
  <1>2. render.at # "idle"
    BY DEF SilentStep, CapturePlayingRun, ReadStableSeek, ApplySeek,
       SeekApplied, BeginEnd, PublishDrain, VoiceEnded, CompleteEnd
  <1>3. PICK at \in Stages, run \in Nat, request \in Requests :
            /\ render' = [render EXCEPT !.at = at, !.run = run,
                                        !.request = request]
            /\ \/ render.at \in {"capture", "seek", "apply", "applied"}
               \/ /\ render.at \in {"end", "drain", "stop_node", "complete"}
                  /\ at \in {"drain", "stop_node", "complete", "finish"}
    <2> DEFINE Result(at, run, request) ==
            /\ render' = [render EXCEPT !.at = at, !.run = run,
                                        !.request = request]
            /\ \/ render.at \in {"capture", "seek", "apply", "applied"}
               \/ /\ render.at \in {"end", "drain", "stop_node", "complete"}
                  /\ at \in {"drain", "stop_node", "complete", "finish"}
    <2> SUFFICES \E at \in Stages, run \in Nat, request \in Requests :
                     Result(at, run, request)
      OBVIOUS
    <2>1. render \in Periods /\ render.run \in Nat /\ render.request \in Requests
      BY <1>2, PeriodShape DEF Periods
    <2>2. playback.run \in Nat /\ seek_mailbox \in Requests
      BY DEF CountInv, Shape, TypeInv, VoiceTypeOK
    <2>3. ASSUME NEW at \in Stages, To(at)
          PROVE  render' = [render EXCEPT !.at = at, !.run = render.run,
                                          !.request = render.request]
      BY <2>1, <2>3 DEF To, Periods
    <2>4. CASE CapturePlayingRun
      <3>1. CASE playback.phase = "Playing"
        <4>1. Result("seek", playback.run, render.request)
          BY <2>4, <3>1, <2>1 DEF CapturePlayingRun, Periods
        <4>2. QED  BY <4>1, <2>1, <2>2 DEF Stages
      <3>2. CASE playback.phase # "Playing"
        <4>1. Result("finish", render.run, render.request)
          BY <2>4, <3>2, <2>3 DEF CapturePlayingRun, Stages
        <4>2. QED  BY <4>1, <2>1 DEF Stages
      <3>3. QED  BY <3>1, <3>2
    <2>5. CASE ReadStableSeek
      <3>1. CASE seek_mailbox.sequence % 2 = 1
        <4>1. Result("finish", render.run, render.request)
          BY <2>5, <3>1, <2>3 DEF ReadStableSeek, Stages
        <4>2. QED  BY <4>1, <2>1 DEF Stages
      <3>2. CASE seek_mailbox.sequence % 2 # 1
        <4>1. AfterSeek \in Stages
          BY DEF AfterSeek, Stages
        <4>2. Result(AfterSeek, render.run, seek_mailbox)
          BY <2>5, <3>2, <2>1 DEF ReadStableSeek, Periods
        <4>3. QED  BY <4>1, <4>2, <2>1, <2>2
      <3>3. QED  BY <3>1, <3>2
    <2>6. CASE ApplySeek \/ SeekApplied
      <3>1. \E at \in Stages : Result(at, render.run, render.request)
        BY <2>6, <2>3 DEF ApplySeek, SeekApplied, Stages
      <3>2. QED  BY <3>1, <2>1
    <2>7. CASE BeginEnd \/ PublishDrain \/ VoiceEnded \/ CompleteEnd
      <3>1. \E at \in Stages : Result(at, render.run, render.request)
        BY <2>7, <2>3 DEF BeginEnd, PublishDrain, VoiceEnded, CompleteEnd, Stages
      <3>2. QED  BY <3>1, <2>1
    <2>8. QED  BY <2>4, <2>5, <2>6, <2>7 DEF SilentStep
  <1>4. /\ render' \in Periods /\ render'.at = at
        /\ render'.begin = render.begin /\ render'.gap = render.gap
        /\ render'.until = render.until
    BY <1>2, <1>3, PeriodShape DEF Periods
  <1>5. Edge' >= Edge /\ Edge \in Nat /\ Edge' \in Nat
    BY <1>1, <1>2, <1>3, <1>4, EdgeMoves
  <1>6. QED  BY <1>1, <1>2, <1>4, <1>5

LEMMA SilentTypeInv ==
    ASSUME CountInv, TypeInv, SilentStep, UNCHANGED bufferVars
    PROVE  TypeInv'
  <1>1. /\ render.at # "idle" /\ render' \in Periods
        /\ render'.begin = render.begin /\ render'.gap = render.gap
        /\ Edge' >= Edge /\ Edge \in Nat /\ Edge' \in Nat
        /\ UNCHANGED <<output_frame, heard, slots, published_generation, exact,
                       seek_mailbox, looping, accepted_epoch, control,
                       lost_anchor, overlapped>>
    BY SilentShape DEF timelineVars, sharedVars, historyVars
  <1>2. TimelineTypeOK'
    BY <1>1 DEF TypeInv, TimelineTypeOK
  <1>3. \/ UNCHANGED mapping
        \/ /\ mapping' \in [epoch : Nat, source_start : SourceOffsets,
                            output_frames : Nat, origin : Origins]
           /\ mapping'.output_frames = 0
    <2>1. CASE ApplySeek
      BY <2>1, <1>1, PeriodShape DEF ApplySeek, Requests
    <2>2. CASE ~ApplySeek
      BY <2>2 DEF SilentStep, CapturePlayingRun, ReadStableSeek, SeekApplied,
         BeginEnd, PublishDrain, VoiceEnded, CompleteEnd, cursorVars
    <2>3. QED  BY <2>1, <2>2
  <1>4. Placed'
    BY <1>1, <1>3, PlacedMoves
  <1>5. ended' \in BOOLEAN
    BY Zenon DEF SilentStep, CapturePlayingRun, ReadStableSeek, ApplySeek,
       SeekApplied, BeginEnd, PublishDrain, VoiceEnded, CompleteEnd, cursorVars,
       TypeInv, VoiceTypeOK
  <1>6. cursor' \in 0..SourceLength /\ applied_seek_sequence' \in Nat
    <2>1. /\ render.request.frame \in 0..SourceLength
          /\ render.request.sequence \in Nat
      BY <1>1, PeriodShape, VoiceAssumption DEF Requests, SourceOffsets
    <2>2. cursor \in 0..SourceLength /\ applied_seek_sequence \in Nat
      BY DEF TypeInv, VoiceTypeOK
    <2>3. QED
      BY <2>1, <2>2 DEF SilentStep, CapturePlayingRun, ReadStableSeek, ApplySeek,
         SeekApplied, BeginEnd, PublishDrain, VoiceEnded, CompleteEnd, cursorVars
  <1>7. audible_drain' \in [end : Nat, run : Nat, epoch : Nat]
    <2>1. /\ [end |-> render.until, run |-> render.run, epoch |-> mapping.epoch]
                 \in [end : Nat, run : Nat, epoch : Nat]
          /\ audible_drain \in [end : Nat, run : Nat, epoch : Nat]
      BY <1>1, PeriodShape DEF Periods, TypeInv, VoiceTypeOK
    <2>2. QED
      BY <2>1 DEF SilentStep, CapturePlayingRun, ReadStableSeek, ApplySeek,
         SeekApplied, BeginEnd, PublishDrain, VoiceEnded, CompleteEnd
  <1>8. VoiceTypeOK'
    <2>1. mapping' \in [epoch : Nat, source_start : SourceOffsets,
                        output_frames : Nat, origin : Origins]
      BY <1>3 DEF TypeInv, VoiceTypeOK
    <2>2. QED
      BY <1>1, <1>5, <1>6, <1>7, <2>1, Zenon DEF TypeInv, VoiceTypeOK, bufferVars
  <1>9. QED  BY <1>2, <1>4, <1>8 DEF TypeInv

(* A stretch of the output: what is published of it and what is heard.     *)
Stretch(begin, frames, over) ==
    /\ IF frames = 0 THEN PublishNothing
       ELSE PublishMappedSpans(begin, frames, over)
    /\ Sounds(begin, frames)

LEMMA StretchType ==
    ASSUME TypeInv, NEW begin \in Nat, NEW frames \in Nat, NEW over \in BOOLEAN,
           mapping.output_frames <= begin, Stretch(begin, frames, over)
    PROVE  /\ TimelineTypeOK'
           /\ heard' \in [0..MaxOutput - 1 ->
                             {Silent} \cup [epoch : Nat, source : Nat]]
           /\ mapping' \in [epoch : Nat, source_start : SourceOffsets,
                            output_frames : Nat, origin : Origins]
           /\ mapping'.output_frames <= begin + frames
  <1>1. /\ mapping \in [epoch : Nat, source_start : SourceOffsets,
                        output_frames : Nat, origin : Origins]
        /\ mapping.epoch \in Nat /\ mapping.output_frames \in Nat
        /\ mapping.source_start \in Nat
    BY DEF TypeInv, VoiceTypeOK, SourceOffsets
  <1>2. heard' \in [0..MaxOutput - 1 ->
                       {Silent} \cup [epoch : Nat, source : Nat]]
    <2>1. heard \in [0..MaxOutput - 1 ->
                        {Silent} \cup [epoch : Nat, source : Nat]]
          /\ cursor \in Int
      BY DEF TypeInv, VoiceTypeOK
    <2>2. \A f \in DOMAIN heard : (cursor + f - begin) % SourceLength \in Nat
      <3>1. SUFFICES ASSUME NEW f \in DOMAIN heard
                     PROVE  (cursor + f - begin) % SourceLength \in Nat
        OBVIOUS
      <3>2. cursor + f - begin \in Int
        BY <2>1
      <3>3. QED  BY <3>2, VoiceAssumption, Division
    <2>3. QED  BY <1>1, <2>1, <2>2 DEF Stretch, Sounds
  <1>3. CASE frames = 0
    BY <1>1, <1>2, <1>3
    DEF Stretch, PublishNothing, timelineVars, TypeInv, TimelineTypeOK
  <1>4. CASE frames # 0
    <2> DEFINE epoch == MappedEpoch(begin, frames, over)
               span == MappedSpan(begin, frames)
    <2>1. epoch \in Epochs
      BY MappedEpochType
    <2>2. span \in Spans
      BY <1>1 DEF MappedSpan, Spans
    <2>3. PublishSpan(span) /\ PublishExactMappedSpan(epoch)
          /\ mapping' = [mapping EXCEPT
                 !.output_frames = IF Accepts(epoch) THEN @ + frames ELSE @]
      BY <1>4 DEF Stretch, PublishMappedSpans
    <2> HIDE DEF epoch, span
    <2>4. TimelineTypeOK'
      <3>1. exact' \in [epochs : Seq(Epochs), evicted : BOOLEAN,
                        discontinuous : BOOLEAN, requested : Nat]
        BY <2>1, <2>3, PublishExactType DEF TypeInv
      <3>2. SlotOf(published_generation) \in 0..kRenderSpanCapacity - 1
        BY TimelineAssumption, Division DEF SlotOf, TypeInv, TimelineTypeOK
      <3>3. slots' \in [0..kRenderSpanCapacity - 1 ->
                           [sequence : Int, span : Spans]]
            /\ published_generation' \in Nat
        BY <2>2, <2>3, <3>2 DEF PublishSpan, TypeInv, TimelineTypeOK
      <3>4. QED  BY <3>1, <3>3 DEF TimelineTypeOK
    <2>5. QED  BY <1>1, <1>2, <2>3, <2>4
  <1>5. QED  BY <1>3, <1>4

(* The two steps that map and sound, as stretches.                         *)
AdvanceFrames == SourceFrames(render.gap)
AdvanceEnds   == ~looping /\ AdvanceFrames = UntilSourceEnd
MixFrames     == CursorFrames(PeriodFrames)
MixEnds       == ~looping /\ cursor + MixFrames = SourceLength

LEMMA AdvanceIsStretch ==
    ASSUME TypeInv, AdvanceVoiceAcrossDiscontinuity
    PROVE  /\ render.at = "advance" /\ render.at # "idle"
           /\ GapBegin = output_frame /\ GapBegin \in Nat
           /\ AdvanceFrames \in 0..render.gap /\ AdvanceEnds \in BOOLEAN
           /\ Stretch(GapBegin, AdvanceFrames, AdvanceEnds)
           /\ mapping.output_frames <= GapBegin
           /\ UNCHANGED <<stateVars, sharedVars, applied_seek_sequence, ended,
                          audible_drain, active_voices, output_frame, control,
                          historyVars, snapshotVars>>
  <1>1. render.at = "advance" /\ render.at # "idle"
    BY DEF AdvanceVoiceAcrossDiscontinuity
  <1>2. GapBegin = output_frame /\ GapBegin \in Nat /\ render.gap \in Nat
    BY <1>1, PeriodShape DEF GapBegin
  <1>3. mapping.output_frames <= GapBegin
    BY <1>1, <1>2 DEF TypeInv, Placed, Edge
  <1>4. AdvanceFrames \in 0..render.gap
    BY <1>2, StretchRange DEF AdvanceFrames
  <1>5. Stretch(GapBegin, AdvanceFrames, AdvanceEnds)
    BY DEF AdvanceVoiceAcrossDiscontinuity, Stretch, AdvanceFrames, AdvanceEnds
  <1>6. QED
    BY <1>1, <1>2, <1>3, <1>4, <1>5, Zenon
    DEF AdvanceVoiceAcrossDiscontinuity, AdvanceEnds

LEMMA MixIsStretch ==
    ASSUME TypeInv, MixPeriod
    PROVE  /\ render.at = "mix" /\ render.at # "idle"
           /\ render.begin \in Nat
           /\ MixFrames \in 0..PeriodFrames /\ MixEnds \in BOOLEAN
           /\ Stretch(render.begin, MixFrames, MixEnds)
           /\ mapping.output_frames <= render.begin
           /\ UNCHANGED <<stateVars, sharedVars, applied_seek_sequence, ended,
                          audible_drain, active_voices, output_frame, control,
                          historyVars>>
  <1>1. render.at = "mix" /\ render.at # "idle"
    BY DEF MixPeriod
  <1>2. render.begin \in Nat
    BY <1>1, PeriodShape
  <1>3. mapping.output_frames <= render.begin
    BY <1>1, <1>2 DEF TypeInv, Placed, Edge
  <1>4. MixFrames \in 0..PeriodFrames
    BY VoiceAssumption, StretchRange DEF MixFrames
  <1>5. Stretch(render.begin, MixFrames, MixEnds)
    BY DEF MixPeriod, Stretch, MixFrames, MixEnds
  <1>6. QED
    BY <1>1, <1>2, <1>3, <1>4, <1>5, Zenon DEF MixPeriod, MixEnds

LEMMA AdvanceTypeInv ==
    ASSUME TypeInv, AdvanceVoiceAcrossDiscontinuity, UNCHANGED bufferVars
    PROVE  TypeInv' /\ render' \in Periods
           /\ render'.begin = render.begin /\ render'.gap = render.gap
           /\ render'.run = render.run
  <1> DEFINE until == GapBegin + AdvanceFrames
  <1>1. /\ render.at = "advance" /\ render.at # "idle"
        /\ GapBegin = output_frame /\ GapBegin \in Nat
        /\ AdvanceFrames \in 0..render.gap /\ AdvanceEnds \in BOOLEAN
        /\ Stretch(GapBegin, AdvanceFrames, AdvanceEnds)
        /\ mapping.output_frames <= GapBegin
        /\ UNCHANGED <<stateVars, sharedVars, applied_seek_sequence, ended,
                       audible_drain, active_voices, output_frame, control,
                       historyVars, snapshotVars>>
    BY AdvanceIsStretch
  <1>2. AdvanceFrames \in Nat /\ until \in Nat /\ until <= render.begin
    BY <1>1, PeriodShape DEF GapBegin
  <1>3. /\ TimelineTypeOK'
        /\ heard' \in [0..MaxOutput - 1 ->
                          {Silent} \cup [epoch : Nat, source : Nat]]
        /\ mapping' \in [epoch : Nat, source_start : SourceOffsets,
                         output_frames : Nat, origin : Origins]
        /\ mapping'.output_frames <= until
    BY <1>1, <1>2, StretchType
  <1>4. To("finish") \/ Ends(until) \/ To("mix")
    BY DEF AdvanceVoiceAcrossDiscontinuity, AdvanceFrames
  <1> HIDE DEF until
  <1>5. /\ render' \in Periods /\ render'.begin = render.begin
        /\ render'.gap = render.gap /\ render'.run = render.run
        /\ render'.at \in {"finish", "end", "mix"}
    <2>1. {"finish", "mix"} \subseteq Stages
      BY DEF Stages
    <2>2. CASE To("finish") \/ To("mix")
      BY <1>1, <2>1, <2>2, MovedShape
    <2>3. CASE Ends(until)
      BY <1>1, <1>2, <2>3, EndsShape
    <2>4. QED  BY <1>4, <2>2, <2>3
  <1>6. Edge' \in Nat /\ Edge' >= until
    BY <1>1, <1>2, <1>5, VoiceAssumption, PeriodShape DEF Edge
  <1>7. Placed'
    BY <1>1, <1>2, <1>3, <1>5, <1>6, PeriodShape DEF Placed, TypeInv
  <1>8. cursor' \in 0..SourceLength
    <2>1. MappedPosition(AdvanceFrames) \in 0..SourceLength
      <3> DEFINE position == mapping.source_start + mapping.output_frames
                                 + AdvanceFrames
      <3>1. position \in Nat
        BY <1>2 DEF TypeInv, VoiceTypeOK, SourceOffsets
      <3>2. MappedPosition(AdvanceFrames) =
                IF looping THEN position % SourceLength
                           ELSE Min({position, SourceLength})
        BY DEF MappedPosition
      <3> HIDE DEF position
      <3>3. position % SourceLength \in 0..SourceLength - 1
        BY <3>1, VoiceAssumption, Division
      <3>4. Min({position, SourceLength}) =
                IF position <= SourceLength THEN position ELSE SourceLength
        BY <3>1, VoiceAssumption, MinOfTwo
      <3>5. QED  BY <3>1, <3>2, <3>3, <3>4, VoiceAssumption
    <2>2. cursor' = cursor \/ cursor' = MappedPosition(AdvanceFrames)
      BY DEF AdvanceVoiceAcrossDiscontinuity, AdvanceFrames
    <2>3. QED  BY <2>1, <2>2 DEF TypeInv, VoiceTypeOK
  <1>9. VoiceTypeOK'
    BY <1>1, <1>3, <1>5, <1>8, Zenon
    DEF TypeInv, VoiceTypeOK, sharedVars, historyVars, bufferVars
  <1>10. QED  BY <1>3, <1>5, <1>7, <1>9 DEF TypeInv

LEMMA MixTypeInv ==
    ASSUME TypeInv, MixPeriod, UNCHANGED bufferVars
    PROVE  TypeInv' /\ render' \in Periods
           /\ render'.begin = render.begin /\ render'.gap = render.gap
           /\ render'.run = render.run /\ render'.at \in {"end", "finish"}
  <1> DEFINE until == render.begin + MixFrames
  <1>1. /\ render.at = "mix" /\ render.at # "idle"
        /\ render.begin \in Nat
        /\ MixFrames \in 0..PeriodFrames /\ MixEnds \in BOOLEAN
        /\ Stretch(render.begin, MixFrames, MixEnds)
        /\ mapping.output_frames <= render.begin
        /\ UNCHANGED <<stateVars, sharedVars, applied_seek_sequence, ended,
                       audible_drain, active_voices, output_frame, control,
                       historyVars>>
    BY MixIsStretch
  <1>2. MixFrames \in Nat /\ until \in Nat
        /\ until <= render.begin + PeriodFrames
    BY <1>1, VoiceAssumption
  <1>3. /\ TimelineTypeOK'
        /\ heard' \in [0..MaxOutput - 1 ->
                          {Silent} \cup [epoch : Nat, source : Nat]]
        /\ mapping' \in [epoch : Nat, source_start : SourceOffsets,
                         output_frames : Nat, origin : Origins]
        /\ mapping'.output_frames <= until
    BY <1>1, <1>2, StretchType
  <1>4. Ends(until) \/ Ends(0) \/ To("finish")
    BY DEF MixPeriod, MixFrames
  <1> HIDE DEF until
  <1>5. /\ render' \in Periods /\ render'.begin = render.begin
        /\ render'.gap = render.gap /\ render'.run = render.run
        /\ render'.at \in {"finish", "end"}
    <2>1. "finish" \in Stages
      BY DEF Stages
    <2>2. CASE To("finish")
      BY <1>1, <2>1, <2>2, MovedShape
    <2>3. CASE Ends(until) \/ Ends(0)
      BY <1>1, <1>2, <2>3, EndsShape
    <2>4. QED  BY <1>4, <2>2, <2>3
  <1>6. Edge' \in Nat /\ Edge' >= until
    BY <1>1, <1>2, <1>5, VoiceAssumption, PeriodShape DEF Edge
  <1>7. Placed'
    BY <1>1, <1>2, <1>3, <1>5, <1>6, PeriodShape DEF Placed, TypeInv
  <1>8. cursor' \in 0..SourceLength
    <2>1. cursor' = Moved(MixFrames) /\ cursor \in 0..SourceLength
      BY DEF MixPeriod, MixFrames, TypeInv, VoiceTypeOK
    <2>2. cursor + MixFrames \in Nat
      BY <1>2, <2>1
    <2>3. (cursor + MixFrames) % SourceLength \in 0..SourceLength - 1
      <3>1. cursor + MixFrames \in Int /\ SourceLength \in Nat \ {0}
        BY <2>2, VoiceAssumption
      <3>2. QED  BY ONLY <3>1, Division
    <2>4. ~looping => cursor + MixFrames <= SourceLength
      BY <1>2, <2>1, StretchRange, VoiceAssumption DEF MixFrames
    <2>5. QED  BY <2>1, <2>2, <2>3, <2>4, VoiceAssumption DEF Moved
  <1>9. VoiceTypeOK'
    BY <1>1, <1>3, <1>5, <1>8, Zenon
    DEF TypeInv, VoiceTypeOK, sharedVars, historyVars, bufferVars
  <1>10. QED  BY <1>3, <1>5, <1>7, <1>9 DEF TypeInv

LEMMA PeriodTypeInv ==
    ASSUME TypeInv, BeginPeriod \/ PeriodRendered, UNCHANGED bufferVars
    PROVE  TypeInv'
  <1>1. UNCHANGED <<sharedVars, cursorVars, audible_drain, heard, control,
                    historyVars, timelineVars>>
    BY Zenon DEF BeginPeriod, PeriodRendered
  <1>2. render' \in {Idle} \cup Periods /\ Placed'
    <2>1. CASE BeginPeriod
      <3>1. PICK gap \in Discontinuities :
                /\ output_frame + gap + PeriodFrames <= MaxOutput
                /\ render' = [at |-> IF node THEN "capture" ELSE "finish",
                              begin |-> output_frame + gap, gap |-> gap,
                              run |-> 0, request |-> seek_mailbox, until |-> 0]
        BY <2>1 DEF BeginPeriod
      <3>2. gap \in Nat /\ seek_mailbox \in Requests /\ output_frame \in Nat
            /\ PeriodFrames \in Nat
        BY VoiceAssumption DEF TypeInv, VoiceTypeOK, Placed
      <3>3. render' \in Periods /\ render'.at \in {"capture", "finish"}
            /\ render'.begin = output_frame + gap /\ render'.gap = gap
        BY <3>1, <3>2 DEF Periods, Stages
      <3>4. mapping.output_frames \in Nat
            /\ mapping.output_frames <= output_frame
        BY <2>1 DEF BeginPeriod, TypeInv, VoiceTypeOK, Placed, Edge
      <3>5. Placed'
        BY <1>1, <2>1, <3>1, <3>2, <3>3, <3>4
        DEF BeginPeriod, TypeInv, Placed, Edge, cursorVars
      <3>6. QED  BY <3>3, <3>5
    <2>2. CASE PeriodRendered
      <3>1. render.at = "finish" /\ render.at # "idle" /\ render' = Idle
            /\ output_frame' = render.begin + PeriodFrames
        BY <2>2 DEF PeriodRendered
      <3>2. output_frame' \in 0..MaxOutput
        BY <3>1, PeriodShape, VoiceAssumption
      <3>3. Placed'
        BY <1>1, <3>1, <3>2 DEF TypeInv, Placed, Edge, cursorVars, Idle
      <3>4. QED  BY <3>1, <3>3
    <2>3. QED  BY <2>1, <2>2
  <1>3. QED
    BY <1>1, <1>2, Zenon
    DEF TypeInv, VoiceTypeOK, TimelineTypeOK, bufferVars, sharedVars, cursorVars,
        historyVars, timelineVars

(* What the types rest on is left alone by the rest.                       *)
LEMMA TypeInvKept ==
    ASSUME TypeInv, UNCHANGED <<bufferVars, voiceVars, timelineVars>>
    PROVE  TypeInv'
  BY Zenon
  DEF TypeInv, VoiceTypeOK, TimelineTypeOK, Placed, Edge, bufferVars, voiceVars,
      sharedVars, cursorVars, renderVars, historyVars, timelineVars

LEMMA NextTypeInv ==
    ASSUME CountInv, TypeInv, [Next]_allVars
    PROVE  TypeInv'
  <1>1. CASE UNCHANGED allVars
    BY <1>1, TypeInvKept DEF allVars
  <1>2. CASE GameCall
    BY <1>2, GameTypeInv
  <1>3. CASE WriteSamples
    BY <1>3, TypeInvKept DEF WriteSamples
  <1>4. CASE VoiceControl /\ UNCHANGED <<bufferVars, game>>
    BY <1>4, ControlTypeInv
  <1>5. CASE RenderStep /\ UNCHANGED <<bufferVars, game>>
    <2>1. CASE AcquireForRender
      BY <1>5, <2>1, TypeInvKept DEF AcquireForRender
    <2>2. CASE BeginPeriod \/ PeriodRendered
      BY <1>5, <2>2, PeriodTypeInv
    <2>3. CASE SilentStep
      BY <1>5, <2>3, SilentTypeInv
    <2>4. CASE AdvanceVoiceAcrossDiscontinuity
      BY <1>5, <2>4, AdvanceTypeInv
    <2>5. CASE MixPeriod
      BY <1>5, <2>5, MixTypeInv
    <2>6. QED
      BY <1>5, <2>1, <2>2, <2>3, <2>4, <2>5 DEF RenderStep, SilentStep
  <1>6. QED  BY <1>1, <1>2, <1>3, <1>4, <1>5 DEF Next, GameCall

LEMMA InvImpliesSegments == TypeInv => SegmentsExact
  <1> SUFFICES ASSUME TypeInv PROVE SegmentsExact
    OBVIOUS
  <1>1. mapping.output_frames \in 0..MaxOutput
    <2>1. mapping.output_frames \in Nat /\ mapping.output_frames <= Edge
      BY DEF TypeInv, VoiceTypeOK, Placed
    <2>2. Edge <= MaxOutput /\ Edge \in Int
      <3>1. CASE render.at = "idle"
        BY <3>1, VoiceAssumption DEF TypeInv, Placed, Edge
      <3>2. CASE render.at # "idle"
        BY <3>2, PeriodShape, VoiceAssumption DEF Edge
      <3>3. QED  BY <3>1, <3>2
    <2>3. QED  BY <2>1, <2>2, VoiceAssumption
  <1>2. SUFFICES ASSUME NEW rate \in LowestTerms, NEW remaining \in 1..15
                 PROVE  SegmentMatchesCumulativeMapping(
                            mapping.output_frames,
                            SegmentLength(mapping.output_frames, remaining, rate),
                            rate)
    BY <1>1, Zenon DEF SegmentsExact, ExactFrom
  <1>3. /\ rate = [source |-> rate.source, output |-> rate.output]
        /\ rate.source \in Nat /\ rate.output \in Nat \ {0}
    BY DEF LowestTerms
  <1>4. mapping.output_frames \in Nat /\ remaining \in Nat \ {0}
    BY <1>1
  <1>5. QED  BY <1>3, <1>4, SegmentLengthExact

(* However the voice has come to where it is, the cutting of what comes    *)
(* next maps every frame as the epoch does as a whole.                     *)
THEOREM BufferSegmentsExact == Spec => []SegmentsExact
  BY InitCountInv, NextCountInv, InitTypeInv, NextTypeInv, InvImpliesSegments,
     PTL DEF Spec

-----------------------------------------------------------------------------
(* The calls and the control operations they make. A request is of a new   *)
(* generation, which the buffer takes over when the voice has accepted it. *)
Asking == {"play", "load", "publish", "published", "seek", "sought"}

Called ==
    /\ accepted_epoch =
           IF game.at = "control" /\ control.at \in {"commit", "done"}
           THEN playback_generation + 1 ELSE playback_generation
    /\ control.at \in Asking =>
           game.at = "control" /\ control.epoch = playback_generation + 1
    /\ game.at = "control" => control.at \in Asking \cup {"commit", "done"}
    /\ game.at \in {"stopping", "releasing"} =>
           /\ control.at \in {"stop", "stopping", "done"}
           /\ control.at = "done" => playback.phase = "Stopped"
    /\ game.at = "released" =>
           /\ playback.phase = "Stopped"
           /\ render.at \in {"idle", "capture", "finish"}
    /\ playback.phase # "Stopped" => playback.run # 0

(* A search under way and what a position query has found.                 *)
Searches == [published : Nat, offset : Nat, generation : Nat, frame : Nat,
             seen : BOOLEAN, earliest : Int]

Searching ==
    /\ game.at \in {"drain", "clock"} => game.call \in {"position", "status"}
    /\ game.at = "search" =>
           /\ game \in [at : {"search"}, call : {"position", "status"},
                        search : Searches]
           /\ game.search.generation = playback_generation
           /\ game.search.frame < output_frame
           /\ game.search.published <= published_generation
    /\ game.at = "report" /\ game.verdict \in {"resolved", "pending", "unmapped"}
           => game.frame \in 0..output_frame - 1

LEMMA InitCalled == Init => Called
  BY DEF Init, VoiceInit, Idle, Called, Asking

LEMMA GameCalled ==
    ASSUME CountInv, TypeInv, Searching, Called, GameCall
    PROVE  Called'
  <1> USE DEF Called, Asking
  <1>1. UNCHANGED <<playback, accepted_epoch, render>>
    BY GameCallKeeps DEF timelessVars
  <1>2. playback_generation \in Nat /\ accepted_epoch \in Nat
    BY DEF TypeInv, VoiceTypeOK
  <1>3. control.at # "idle" => game.at \in {"control", "stopping", "releasing"}
    BY DEF CountInv, CallUnderWay
  <1>4. CASE Play
    BY <1>1, <1>2, <1>3, <1>4 DEF Play, StartPlay, Returned, bufferVars
  <1>5. CASE SetCurrentPosition
    BY <1>1, <1>2, <1>3, <1>5
    DEF SetCurrentPosition, StartSeek, Returned, bufferVars
  <1>6. CASE ControlAccepted
    BY <1>1, <1>2, <1>3, <1>6 DEF ControlAccepted, Idle
  <1>7. CASE BeginQuery \/ ReadAudibleUntil \/ ReadClock \/ Return
    <2>1. UNCHANGED <<control, playback_generation>>
      BY <1>7, Zenon DEF BeginQuery, ReadAudibleUntil, ReadClock, Return, bufferVars,
         voiceVars
    <2>2. /\ game.at \in {"idle", "drain", "clock", "report"}
          /\ game'.at \in {"idle", "drain", "clock", "search", "report"}
      BY <1>7 DEF BeginQuery, ReadAudibleUntil, ReadClock, Return, Returned,
         Reports, ReportsOf, Idle
    <2>3. QED  BY <1>1, <1>2, <1>3, <2>1, <2>2
  <1>8. CASE SearchSpan
    <2>1. UNCHANGED <<control, playback_generation>>
      BY <1>8, Zenon DEF SearchSpan, voiceVars
    <2>2. /\ game.at = "search"
          /\ game'.at = "report" \/ game' = [game EXCEPT !.search = NextSlot(game.search)]
      BY <1>8 DEF SearchSpan, Reports, ReportsOf
    <2>3. control.at = "idle"
      BY <1>3, <2>2
    <2>4. game'.at \in {"search", "report"}
      BY <2>2 DEF Searching
    <2>5. QED  BY <1>1, <1>2, <2>1, <2>2, <2>3, <2>4
  <1>9. CASE StopVoice
    BY <1>1, <1>2, <1>3, <1>9 DEF StopVoice, StartStop, bufferVars
  <1>10. CASE Stopped
    BY <1>1, <1>2, <1>3, <1>10 DEF Stopped, bufferVars, Idle
  <1>11. CASE Release
    BY <1>1, <1>2, <1>3, <1>11 DEF Release, StartStop, bufferVars, Returned
  <1>12. CASE Released
    BY <1>1, <1>2, <1>3, <1>12 DEF Released, bufferVars, Idle, Detached
  <1>13. QED
    BY <1>4, <1>5, <1>6, <1>7, <1>8, <1>9, <1>10, <1>11, <1>12 DEF GameCall

LEMMA ControlCalled ==
    ASSUME CountInv, TypeInv, Called, VoiceControl, UNCHANGED <<bufferVars, game>>
    PROVE  Called'
  <1> USE DEF Called, Asking, Phase
  <1>1. UNCHANGED <<playback_generation, game, render>>
    BY Zenon DEF VoiceControl, BeginPlay, LoadFallback, PublishForPlay,
       PlayPublished, CommitPlay, BeginStop, CompleteStop, PublishSeek,
       SeekPublished, bufferVars, renderVars
  <1>2. /\ playback_generation \in Nat /\ accepted_epoch \in Nat
        /\ control \in Controls
        /\ playback \in [phase : {"Stopped", "Starting", "Playing", "Stopping",
                                  "Ending", "Ended"}, run : Nat]
    BY DEF TypeInv, VoiceTypeOK, CountInv, Shape
  <1>3. control.at # "idle" => game.at \in {"control", "stopping", "releasing"}
    BY DEF CountInv, CallUnderWay
  <1>4. /\ playback.phase = "Starting"
               <=> control.at \in {"load", "publish", "published", "commit"}
        /\ playback.phase = "Stopping" <=> control.at = "stopping"
    BY DEF CountInv, PhasesHeld
  <1>5. CASE BeginPlay
    <2>1. /\ control.at = "play" /\ control'.at = "load"
          /\ control'.epoch = control.epoch
      BY <1>2, <1>5, ControlShape DEF BeginPlay
    <2>2. QED
      BY <1>1, <1>2, <1>3, <1>5, <2>1 DEF BeginPlay, sharedVars
  <1>6. CASE LoadFallback
    <2>1. control.at = "load" /\ control'.at = "publish"
          /\ control'.epoch = control.epoch
      BY <1>2, <1>6, ControlShape DEF LoadFallback
    <2>2. QED
      BY <1>1, <1>2, <1>3, <1>6, <2>1 DEF LoadFallback, stateVars
  <1>7. CASE PublishForPlay
    <2>1. control.at = "publish" /\ control'.at = "published"
          /\ control'.epoch = control.epoch
      BY <1>2, <1>7, ControlShape DEF PublishForPlay
    <2>2. QED
      BY <1>1, <1>2, <1>3, <1>7, <2>1 DEF PublishForPlay, stateVars
  <1>8. CASE PlayPublished
    <2>1. control.at = "published" /\ control'.at = "commit"
      BY <1>2, <1>8, ControlShape DEF PlayPublished
    <2>2. QED
      BY <1>1, <1>2, <1>3, <1>8, <2>1 DEF PlayPublished, stateVars
  <1>9. CASE CommitPlay
    BY <1>1, <1>2, <1>3, <1>4, <1>9 DEF CommitPlay, sharedVars
  <1>10. CASE BeginStop
    <2>1. CASE playback.phase = "Playing"
      <3>1. control.at = "stop" /\ control'.at = "stopping"
        BY <1>10, <2>1 DEF BeginStop, CountInv, Shape
      <3>2. QED
        BY <1>1, <1>2, <1>3, <1>10, <2>1, <3>1 DEF BeginStop, sharedVars
    <2>2. CASE playback.phase # "Playing"
      BY <1>1, <1>2, <1>3, <1>10, <2>2 DEF BeginStop, sharedVars
    <2>3. QED  BY <2>1, <2>2
  <1>11. CASE CompleteStop
    BY <1>1, <1>2, <1>3, <1>4, <1>11 DEF CompleteStop, sharedVars
  <1>12. CASE PublishSeek
    <2>1. control.at = "seek" /\ control'.at = "sought"
          /\ control'.epoch = control.epoch
      BY <1>2, <1>12, ControlShape DEF PublishSeek
    <2>2. QED
      BY <1>1, <1>2, <1>3, <1>12, <2>1 DEF PublishSeek, stateVars
  <1>13. CASE SeekPublished
    BY <1>1, <1>2, <1>3, <1>13 DEF SeekPublished, stateVars
  <1>14. QED
    BY <1>5, <1>6, <1>7, <1>8, <1>9, <1>10, <1>11, <1>12, <1>13
    DEF VoiceControl

LEMMA RenderCalled ==
    ASSUME CountInv, TypeInv, Called, RenderStep, UNCHANGED <<bufferVars, game>>
    PROVE  Called'
  <1> USE DEF Called, Asking, Phase
  <1>1. UNCHANGED <<playback_generation, game, control, accepted_epoch>>
    BY Zenon DEF RenderStep, BeginPeriod, CapturePlayingRun, ReadStableSeek,
       ApplySeek, SeekApplied, AdvanceVoiceAcrossDiscontinuity,
       AcquireForRender, MixPeriod, BeginEnd, PublishDrain, VoiceEnded,
       CompleteEnd, PeriodRendered, bufferVars, sharedVars, voiceVars
  <1>2. /\ playback \in [phase : {"Stopped", "Starting", "Playing", "Stopping",
                                  "Ending", "Ended"}, run : Nat]
        /\ playback.phase = "Ending"
               <=> render.at \in {"drain", "stop_node", "complete"}
    BY DEF CountInv, Shape, PhasesHeld
  <1>3. CASE UNCHANGED playback
    <2>1. game.at = "released" => render'.at \in {"idle", "capture", "finish"}
      <3>1. SUFFICES ASSUME game.at = "released"
                     PROVE  render'.at \in {"idle", "capture", "finish"}
        OBVIOUS
      <3>2. render.at \in {"idle", "capture", "finish"}
            /\ playback.phase = "Stopped"
        BY <3>1
      <3>3. CASE render.at = "idle"
        BY <3>3 DEF RenderStep, BeginPeriod, CapturePlayingRun, ReadStableSeek,
           ApplySeek, SeekApplied, AdvanceVoiceAcrossDiscontinuity,
           AcquireForRender, MixPeriod, BeginEnd, PublishDrain, VoiceEnded,
           CompleteEnd, PeriodRendered
      <3>4. CASE render.at = "capture"
        <4>1. To("finish")
          BY <3>2, <3>4 DEF RenderStep, BeginPeriod, CapturePlayingRun,
             ReadStableSeek, ApplySeek, SeekApplied,
             AdvanceVoiceAcrossDiscontinuity, AcquireForRender, MixPeriod,
             BeginEnd, PublishDrain, VoiceEnded, CompleteEnd, PeriodRendered
        <4>2. QED  BY <3>4, <4>1, MovedShape DEF Stages
      <3>5. CASE render.at = "finish"
        <4>1. render' = Idle
          BY <3>5 DEF RenderStep, BeginPeriod, CapturePlayingRun,
             ReadStableSeek, ApplySeek, SeekApplied,
             AdvanceVoiceAcrossDiscontinuity, AcquireForRender, MixPeriod,
             BeginEnd, PublishDrain, VoiceEnded, CompleteEnd, PeriodRendered
        <4>2. QED  BY <4>1 DEF Idle
      <3>6. QED  BY <3>2, <3>3, <3>4, <3>5
    <2>2. QED  BY <1>1, <1>3, <2>1
  <1>4. CASE ~UNCHANGED playback
    <2>1. \/ BeginEnd /\ playback.phase = "Playing" /\ Phase("Ending")
          \/ CompleteEnd /\ Phase("Ended")
      BY <1>4 DEF RenderStep, BeginPeriod, CapturePlayingRun, ReadStableSeek,
         ApplySeek, SeekApplied, AdvanceVoiceAcrossDiscontinuity,
         AcquireForRender, MixPeriod, BeginEnd, PublishDrain, VoiceEnded,
         CompleteEnd, PeriodRendered, stateVars, voiceVars
    <2>2. /\ playback.phase \in {"Playing", "Ending"}
          /\ playback'.phase \in {"Ending", "Ended"}
          /\ playback'.run = playback.run
      BY <1>2, <2>1 DEF CompleteEnd
    <2>3. QED
      BY <1>1, <1>2, <2>2
  <1>5. QED  BY <1>3, <1>4

(* The seek mailbox: the render thread maps the request it has applied,    *)
(* and a later one is of a later generation. The sequence is odd while the *)
(* request is written.                                                     *)
MappedSequence == IF render.at = "applied" THEN render.request.sequence
                                           ELSE applied_seek_sequence

RequestRead ==
    LET request == render.request
    IN  /\ request.sequence % 2 = 0
        /\ applied_seek_sequence < request.sequence
        /\ request.sequence <= seek_mailbox.sequence
        /\ mapping.epoch < request.epoch
        /\ request.epoch <= seek_mailbox.epoch
        /\ request.sequence + 2 <= seek_mailbox.sequence
               => request.epoch < seek_mailbox.epoch

Mailed ==
    /\ MappedSequence <= seek_mailbox.sequence
    /\ MappedSequence % 2 = 0 /\ applied_seek_sequence <= MappedSequence
    /\ seek_mailbox.sequence % 2 = 1 <=> control.at \in {"published", "sought"}
    /\ seek_mailbox.epoch = accepted_epoch
    /\ mapping.epoch <= seek_mailbox.epoch
    /\ MappedSequence + 2 <= seek_mailbox.sequence
           => mapping.epoch < seek_mailbox.epoch
    /\ render.at = "apply" => RequestRead

LEMMA InitMailed == Init => Mailed
  BY DEF Init, VoiceInit, Idle, Mailed, MappedSequence

LEMMA MailTypes ==
    ASSUME TypeInv, Mailed
    PROVE  /\ MappedSequence \in Nat /\ seek_mailbox.sequence \in Nat
           /\ seek_mailbox.epoch \in Nat /\ applied_seek_sequence \in Nat
           /\ mapping.epoch \in Nat
           /\ render.at # "idle" => render.request.sequence \in Nat
                                        /\ render.request.epoch \in Nat
  <1>1. render.at # "idle" => render.request.sequence \in Nat
                                  /\ render.request.epoch \in Nat
    BY PeriodShape DEF Requests
  <1>2. QED
    BY <1>1 DEF TypeInv, VoiceTypeOK, Requests, MappedSequence

LEMMA GameMailed ==
    ASSUME CountInv, TypeInv, Mailed, GameCall
    PROVE  Mailed'
  <1>1. UNCHANGED <<seek_mailbox, applied_seek_sequence, render, mapping,
                    accepted_epoch>>
    BY GameCallKeeps DEF timelessVars
  <1>2. control.at \in {"published", "sought"}
            <=> control'.at \in {"published", "sought"}
    <2>1. control.at # "idle" => game.at \in {"control", "stopping", "releasing"}
      BY DEF CountInv, CallUnderWay
    <2>2. CASE UNCHANGED control
      BY <2>2
    <2>3. CASE Play \/ SetCurrentPosition \/ StopVoice \/ Release
      BY <2>1, <2>3
      DEF Play, StartPlay, SetCurrentPosition, StartSeek, StopVoice, StartStop,
          Release, Returned
    <2>4. CASE ControlAccepted \/ Stopped \/ Released
      BY <2>4 DEF ControlAccepted, Stopped, Released, Idle
    <2>5. QED
      BY <2>2, <2>3, <2>4, Zenon
      DEF GameCall, BeginQuery, ReadAudibleUntil, ReadClock, SearchSpan,
          Return, voiceVars
  <1>3. QED  BY <1>1, <1>2 DEF Mailed, MappedSequence, RequestRead

LEMMA ControlMailed ==
    ASSUME CountInv, TypeInv, Called, Mailed, VoiceControl
    PROVE  Mailed'
  <1>1. UNCHANGED <<applied_seek_sequence, render, mapping>>
    BY Zenon DEF VoiceControl, BeginPlay, LoadFallback, PublishForPlay,
       PlayPublished, CommitPlay, BeginStop, CompleteStop, PublishSeek,
       SeekPublished, cursorVars, renderVars
  <1>2. control \in Controls /\ seek_mailbox \in Requests
        /\ playback_generation \in Nat
    BY DEF TypeInv, VoiceTypeOK
  <1> USE MailTypes
  <1>3. CASE /\ UNCHANGED <<seek_mailbox, accepted_epoch>>
             /\ control.at \notin {"published", "sought"}
             /\ control'.at \notin {"published", "sought"}
    BY <1>1, <1>3 DEF Mailed, MappedSequence, RequestRead
  <1>4. CASE PublishForPlay \/ PublishSeek
    <2>1. /\ seek_mailbox' = [seek_mailbox EXCEPT !.sequence = @ + 1]
          /\ accepted_epoch' = accepted_epoch
          /\ control.at \in {"publish", "seek"}
      BY <1>4, Zenon DEF PublishForPlay, PublishSeek
    <2>2. control'.at \in {"published", "sought"}
      BY <1>2, <1>4, ControlShape DEF PublishForPlay, PublishSeek
    <2>3. /\ seek_mailbox'.sequence = seek_mailbox.sequence + 1
          /\ seek_mailbox'.epoch = seek_mailbox.epoch
      BY <1>2, <2>1 DEF Requests
    <2>4. seek_mailbox.sequence % 2 = 0
      BY <2>1 DEF Mailed
    <2>5. QED
      BY <1>1, <2>1, <2>2, <2>3, <2>4 DEF Mailed, MappedSequence, RequestRead
  <1>5. CASE PlayPublished \/ SeekPublished
    <2>1. /\ \E origin : StoreRequest(origin)
          /\ accepted_epoch' = control.epoch
          /\ control.at \in {"published", "sought"}
      BY <1>5, Zenon DEF PlayPublished, SeekPublished
    <2>2. control'.at \in {"commit", "done"}
      BY <1>2, <1>5, ControlShape DEF PlayPublished, SeekPublished
    <2>3. /\ seek_mailbox'.sequence = seek_mailbox.sequence + 1
          /\ seek_mailbox'.epoch = control.epoch
      BY <2>1 DEF StoreRequest
    <2>4. /\ control.epoch = playback_generation + 1
          /\ accepted_epoch = playback_generation
          /\ seek_mailbox.sequence % 2 = 1
      BY <2>1 DEF Called, Asking, Mailed
    <2>5. QED
      BY <1>1, <1>2, <2>1, <2>2, <2>3, <2>4
      DEF Mailed, MappedSequence, RequestRead
  <1>6. QED
    <2>1. CASE BeginPlay
      <3>1. control'.at = "load"
        BY <1>2, <2>1, ControlShape DEF BeginPlay
      <3>2. QED  BY <1>3, <2>1, <3>1 DEF BeginPlay, sharedVars
    <2>2. CASE LoadFallback
      <3>1. control'.at = "publish"
        BY <1>2, <2>2, ControlShape DEF LoadFallback
      <3>2. QED  BY <1>3, <2>2, <3>1 DEF LoadFallback
    <2>3. CASE CommitPlay \/ CompleteStop
      BY <1>3, <2>3 DEF CommitPlay, CompleteStop, sharedVars
    <2>4. CASE BeginStop
      <3>1. control.at = "stop" /\ control'.at \in {"stopping", "done"}
        BY <2>4 DEF BeginStop, CountInv, Shape
      <3>2. QED  BY <1>3, <2>4, <3>1 DEF BeginStop, sharedVars
    <2>5. QED
      BY <1>4, <1>5, <2>1, <2>2, <2>3, <2>4 DEF VoiceControl

LEMMA RenderMailed ==
    ASSUME CountInv, TypeInv, Mailed, RenderStep
    PROVE  Mailed'
  <1>1. UNCHANGED <<seek_mailbox, accepted_epoch, control>>
    BY Zenon DEF RenderStep, BeginPeriod, CapturePlayingRun, ReadStableSeek,
       ApplySeek, SeekApplied, AdvanceVoiceAcrossDiscontinuity,
       AcquireForRender, MixPeriod, BeginEnd, PublishDrain, VoiceEnded,
       CompleteEnd, PeriodRendered, sharedVars, voiceVars
  <1> USE MailTypes DEF Mailed, MappedSequence
  <1>2. CASE BeginPeriod
    BY <1>1, <1>2 DEF BeginPeriod, cursorVars
  <1>3. CASE CapturePlayingRun
    <2>1. render'.at \in {"seek", "finish"} /\ render.at = "capture"
      BY <1>3, PeriodShape, MovedShape DEF CapturePlayingRun, Periods, Stages
    <2>2. QED  BY <1>1, <1>3, <2>1 DEF CapturePlayingRun, cursorVars
  <1>4. CASE ReadStableSeek
    <2>1. CASE seek_mailbox.sequence % 2 = 1
      <3>1. render'.at = "finish" /\ render.at = "seek"
        BY <1>4, <2>1, PeriodShape, MovedShape DEF ReadStableSeek, Stages
      <3>2. QED  BY <1>1, <1>4, <3>1 DEF ReadStableSeek, cursorVars
    <2>2. CASE seek_mailbox.sequence % 2 # 1
      <3>1. render'.at = AfterSeek /\ render'.request = seek_mailbox
            /\ render.at = "seek"
        BY <1>4, <2>2, PeriodShape DEF ReadStableSeek, Periods
      <3>2. AfterSeek = "apply" => PendingSeek
        BY DEF AfterSeek
      <3>3. AfterSeek # "applied"
        BY DEF AfterSeek
      <3>4. UNCHANGED <<applied_seek_sequence, mapping>>
        BY <1>4 DEF ReadStableSeek, cursorVars
      <3>5. QED
        <4>1. AfterSeek = "apply" => RequestRead'
          <5>1. SUFFICES ASSUME AfterSeek = "apply" PROVE RequestRead'
            OBVIOUS
          <5>2. /\ seek_mailbox.sequence % 2 = 0
                /\ applied_seek_sequence % 2 = 0
                /\ applied_seek_sequence < seek_mailbox.sequence
            BY <2>2, <3>1, <3>2, <5>1 DEF PendingSeek
          <5>3. applied_seek_sequence + 2 <= seek_mailbox.sequence
            BY <5>2
          <5>4. mapping.epoch < seek_mailbox.epoch
            BY <3>1, <5>3
          <5>5. QED
            BY <1>1, <3>1, <3>4, <5>2, <5>4 DEF RequestRead
        <4>2. QED  BY <1>1, <3>1, <3>3, <3>4, <4>1
    <2>3. QED  BY <2>1, <2>2
  <1>5. CASE ApplySeek
    <2>1. render'.at = "applied" /\ render'.request = render.request
          /\ render.at = "apply"
      BY <1>5, PeriodShape, MovedShape DEF ApplySeek, Stages
    <2>2. mapping'.epoch = render.request.epoch
          /\ applied_seek_sequence' = applied_seek_sequence
      BY <1>5 DEF ApplySeek
    <2>3. QED  BY <1>1, <2>1, <2>2 DEF RequestRead
  <1>6. CASE SeekApplied
    <2>1. render'.at = "mix" /\ render.at = "applied"
      BY <1>6, PeriodShape, MovedShape DEF SeekApplied, Stages
    <2>2. mapping' = mapping
          /\ applied_seek_sequence' = render.request.sequence
      BY <1>6 DEF SeekApplied
    <2>3. QED  BY <1>1, <2>1, <2>2 DEF RequestRead
  <1>7. CASE AdvanceVoiceAcrossDiscontinuity \/ MixPeriod
    <2>1. mapping'.epoch = mapping.epoch
          /\ applied_seek_sequence' = applied_seek_sequence
      BY <1>7 DEF AdvanceVoiceAcrossDiscontinuity, MixPeriod, PublishNothing,
         PublishMappedSpans, TypeInv, VoiceTypeOK
    <2>2. render.at \in {"advance", "mix"}
          /\ render'.at \in {"finish", "end", "mix"}
      <3>1. {"finish", "mix"} \subseteq Stages
        BY DEF Stages
      <3>2. CASE AdvanceVoiceAcrossDiscontinuity
        BY <3>1, <3>2, MovedShape, PeriodShape
        DEF AdvanceVoiceAcrossDiscontinuity, Ends, Periods
      <3>3. CASE MixPeriod
        BY <3>1, <3>3, MovedShape, PeriodShape DEF MixPeriod, Ends, Periods
      <3>4. QED  BY <1>7, <3>2, <3>3
    <2>3. QED  BY <1>1, <2>1, <2>2 DEF RequestRead
  <1>8. CASE AcquireForRender
    BY <1>1, <1>8 DEF AcquireForRender, voiceVars, cursorVars, renderVars, RequestRead
  <1>9. CASE BeginEnd \/ PublishDrain \/ VoiceEnded \/ CompleteEnd
    <2>1. UNCHANGED <<applied_seek_sequence, mapping>>
      BY <1>9 DEF BeginEnd, PublishDrain, VoiceEnded, CompleteEnd, cursorVars
    <2>2. render.at \in {"end", "drain", "stop_node", "complete"}
          /\ render'.at \in {"drain", "stop_node", "complete", "finish"}
      BY <1>9, PeriodShape, MovedShape
      DEF BeginEnd, PublishDrain, VoiceEnded, CompleteEnd, Stages
    <2>3. QED  BY <1>1, <2>1, <2>2
  <1>10. CASE PeriodRendered
    BY <1>1, <1>10 DEF PeriodRendered, cursorVars, Idle
  <1>11. QED
    BY <1>2, <1>3, <1>4, <1>5, <1>6, <1>7, <1>8, <1>9, <1>10,
       RenderStep DEF RenderStep

LEMMA InitSearching == Init => Searching
  BY DEF Init, Idle, Searching

LEMMA ClockRange ==
    ASSUME TypeInv, NEW frame \in OutputFrames
    PROVE  frame \in 0..output_frame - 1
  <1>1. Max({presented, 0}) = IF presented >= 0 THEN presented ELSE 0
    BY MaxOfTwo DEF TypeInv, VoiceTypeOK
  <1>2. presented \in Int /\ output_frame \in Nat
    BY DEF TypeInv, VoiceTypeOK, Placed
  <1>3. QED  BY <1>1, <1>2 DEF OutputFrames

(* What a search sees in a slot has the shape of a span.                   *)
LEMMA StableSpanType ==
    ASSUME TypeInv, NEW search \in Searches
    PROVE  /\ StableSpan(search) \in Spans
           /\ NextSlot(search) \in Searches
  <1>1. StableSpan(search) \in Spans
    <2> DEFINE count == search.published - search.offset - 1
    <2>1. count \in Int
      BY DEF Searches
    <2>2. SlotOf(count) \in 0..kRenderSpanCapacity - 1
      BY <2>1, TimelineAssumption, Division DEF SlotOf
    <2>3. slots[SlotOf(count)].span \in Spans
      BY <2>2 DEF TypeInv, TimelineTypeOK
    <2>4. NoSpan \in Spans
      BY DEF NoSpan, Spans
    <2>5. QED  BY <2>3, <2>4 DEF StableSpan
  <1>2. NextSlot(search) \in Searches
    <2> DEFINE span == StableSpan(search)
    <2>1. span.begin \in Nat
      BY <1>1 DEF Spans
    <2>2. search.offset + 1 \in Nat
      BY DEF Searches
    <2>3. NextSlot(search) =
              IF span.epoch # search.generation
              THEN [search EXCEPT !.offset = search.offset + 1]
              ELSE [search EXCEPT !.offset = search.offset + 1, !.seen = TRUE,
                        !.earliest = IF span.begin < search.earliest
                                     THEN span.begin ELSE search.earliest]
      BY DEF NextSlot
    <2> HIDE DEF span
    <2>4. CASE span.epoch # search.generation
      BY <2>2, <2>3, <2>4 DEF Searches
    <2>5. CASE span.epoch = search.generation
      <3> DEFINE early == IF span.begin < search.earliest
                          THEN span.begin ELSE search.earliest
      <3>1. early \in Int
        BY <2>1 DEF Searches
      <3>2. NextSlot(search) = [search EXCEPT !.offset = search.offset + 1,
                                    !.seen = TRUE, !.earliest = early]
        BY <2>3, <2>5
      <3> HIDE DEF early
      <3>3. QED  BY <2>2, <3>1, <3>2 DEF Searches
    <2>6. QED  BY <2>4, <2>5
  <1>3. QED  BY <1>1, <1>2

LEMMA GameSearching ==
    ASSUME CountInv, TypeInv, Searching, GameCall
    PROVE  Searching'
  <1> USE DEF Searching
  <1>1. UNCHANGED <<output_frame, published_generation>>
    BY GameCallKeeps DEF timelessVars
  <1>2. CASE \/ Play \/ SetCurrentPosition \/ ControlAccepted \/ Return
             \/ StopVoice \/ Stopped \/ Release \/ Released
    <2>1. game'.at \in {"control", "idle", "stopping", "releasing", "released"}
      BY <1>2 DEF Play, SetCurrentPosition, ControlAccepted, Return, StopVoice,
         Stopped, Release, Released, Idle
    <2>2. QED  BY <2>1
  <1>3. CASE BeginQuery
    BY <1>3 DEF BeginQuery, ReportsOf
  <1>4. CASE ReadAudibleUntil
    BY <1>4 DEF ReadAudibleUntil, Reports, ReportsOf
  <1>5. CASE ReadClock
    <2>1. CASE presented = -1 /\ Reports(TRUE, -1, "none")
      BY <2>1 DEF Reports, ReportsOf
    <2>2. ASSUME NEW frame \in OutputFrames,
                 IF game.call = "status"
                 THEN Reports(frame < game.until, frame, "none")
                 ELSE IF ~game.mixing /\ frame >= game.until
                 THEN Reports(FALSE, frame, "inactive")
                 ELSE game' = [at |-> "search", call |-> game.call,
                               search |-> Search(playback_generation, frame)]
          PROVE  Searching'
      <3>1. frame \in 0..output_frame - 1 /\ frame \in Nat /\ frame < output_frame
        BY ClockRange DEF TypeInv, Placed
      <3>2. CASE game'.at = "report"
        BY <2>2, <3>2 DEF Reports, ReportsOf
      <3>3. CASE game' = [at |-> "search", call |-> game.call,
                          search |-> Search(playback_generation, frame)]
        <4>1. game.call \in {"position", "status"}
          BY <1>5 DEF ReadClock
        <4>2. Search(playback_generation, frame) \in Searches
          BY <3>1 DEF Search, Searches, TypeInv, VoiceTypeOK, TimelineTypeOK
        <4>3. /\ game'.search = Search(playback_generation, frame)
              /\ game'.search.generation = playback_generation
              /\ game'.search.frame = frame
              /\ game'.search.published = published_generation
          BY <3>3 DEF Search
        <4>4. playback_generation' = playback_generation
          BY <1>5 DEF ReadClock
        <4>5. published_generation <= published_generation
          BY DEF TypeInv, TimelineTypeOK
        <4>6. QED  BY <1>1, <3>1, <3>3, <4>1, <4>2, <4>3, <4>4, <4>5
      <3>4. QED  BY <2>2, <3>2, <3>3 DEF Reports, ReportsOf
    <2>3. QED  BY <1>5, <2>1, <2>2 DEF ReadClock
  <1>6. CASE SearchSpan
    <2> DEFINE search == game.search
    <2>1. /\ game.at = "search" /\ search \in Searches
          /\ game \in [at : {"search"}, call : {"position", "status"},
                       search : Searches]
          /\ search.frame \in 0..output_frame - 1
          /\ playback_generation' = playback_generation
      BY <1>6 DEF SearchSpan, Searches, TypeInv, Placed
    <2>2. CASE Exhausted(search)
      BY <1>1, <1>6, <2>1, <2>2 DEF SearchSpan, Reports, ReportsOf
    <2>3. CASE ~Exhausted(search) /\ Found(search)
      BY <1>1, <1>6, <2>1, <2>3 DEF SearchSpan, Reports, ReportsOf
    <2>4. CASE ~Exhausted(search) /\ ~Found(search)
      <3>1. game' = [game EXCEPT !.search = NextSlot(search)]
        BY <1>6, <2>4 DEF SearchSpan
      <3>2. NextSlot(search) \in Searches
        BY <2>1, StableSpanType
      <3>3. /\ NextSlot(search).generation = search.generation
            /\ NextSlot(search).frame = search.frame
            /\ NextSlot(search).published = search.published
        BY <2>1 DEF NextSlot, Searches
      <3>4. game'.at = "search" /\ game'.search = NextSlot(search)
            /\ game' \in [at : {"search"}, call : {"position", "status"},
                          search : Searches]
        BY <2>1, <3>1, <3>2
      <3>5. QED  BY <1>1, <2>1, <3>3, <3>4
    <2>5. QED  BY <2>2, <2>3, <2>4
  <1>7. QED  BY <1>2, <1>3, <1>4, <1>5, <1>6 DEF GameCall

(* The voice only goes forward under a call of the game.                   *)
LEMMA VoiceForward ==
    ASSUME CountInv, TypeInv, VoiceControl \/ RenderStep
    PROVE  /\ output_frame' >= output_frame
           /\ published_generation' >= published_generation
           /\ output_frame \in Nat /\ output_frame' \in Int
           /\ published_generation \in Nat /\ published_generation' \in Int
  <1>1. output_frame \in Nat /\ published_generation \in Nat
    BY DEF TypeInv, Placed, TimelineTypeOK
  <1>2. CASE PeriodRendered
    BY <1>1, <1>2, PeriodShape, VoiceAssumption DEF PeriodRendered, timelineVars
  <1>3. CASE AdvanceVoiceAcrossDiscontinuity \/ MixPeriod
    BY <1>1, <1>3
    DEF AdvanceVoiceAcrossDiscontinuity, MixPeriod, PublishNothing,
        PublishMappedSpans, PublishSpan, timelineVars
  <1>4. CASE UNCHANGED <<output_frame, timelineVars>>
    BY <1>1, <1>4 DEF timelineVars
  <1>5. QED
    BY <1>2, <1>3, <1>4, Zenon
    DEF VoiceControl, BeginPlay, LoadFallback, PublishForPlay, PlayPublished,
        CommitPlay, BeginStop, CompleteStop, PublishSeek, SeekPublished,
        RenderStep, BeginPeriod, CapturePlayingRun, ReadStableSeek,
        ApplySeek, SeekApplied, AcquireForRender, BeginEnd, PublishDrain,
        VoiceEnded, CompleteEnd, renderVars, voiceVars

LEMMA VoiceSearching ==
    ASSUME CountInv, TypeInv, Searching, VoiceControl \/ RenderStep,
           UNCHANGED <<bufferVars, game>>
    PROVE  Searching'
  <1>1. UNCHANGED <<game, playback_generation>>
    BY DEF bufferVars
  <1>2. game.at = "search" => /\ game.search.frame \in Nat
                              /\ game.search.published \in Nat
    BY DEF Searching, Searches
  <1>3. QED  BY <1>1, <1>2, VoiceForward DEF Searching

(* The part of the invariant that holds in every case.                     *)
VoiceInv ==
    CountInv /\ TypeInv /\ Searching /\ Called /\ Mailed

LEMMA InitVoiceInv == Init => VoiceInv
  BY InitCountInv, InitTypeInv, InitSearching, InitCalled, InitMailed
  DEF VoiceInv

LEMMA CalledKept ==
    ASSUME Searching, Called, Mailed,
           UNCHANGED <<bufferVars, voiceVars, timelineVars, game>>
    PROVE  Searching' /\ Called' /\ Mailed'
  BY DEF Searching, Called, Mailed, MappedSequence, RequestRead, PendingSeek,
     bufferVars, voiceVars, stateVars, sharedVars, cursorVars, renderVars,
     timelineVars

LEMMA NextVoiceInv == VoiceInv /\ [Next]_allVars => VoiceInv'
  <1> SUFFICES ASSUME VoiceInv, [Next]_allVars
               PROVE  VoiceInv'
    OBVIOUS
  <1> USE DEF VoiceInv
  <1>1. CountInv' /\ TypeInv'
    BY NextCountInv, NextTypeInv
  <1>2. CASE UNCHANGED allVars \/ WriteSamples
    BY <1>1, <1>2, CalledKept DEF allVars, WriteSamples
  <1>3. CASE GameCall
    BY <1>1, <1>3, GameSearching, GameCalled, GameMailed
  <1>4. CASE VoiceControl /\ UNCHANGED <<bufferVars, game>>
    BY <1>1, <1>4, VoiceSearching, ControlCalled, ControlMailed
  <1>5. CASE RenderStep /\ UNCHANGED <<bufferVars, game>>
    BY <1>1, <1>5, VoiceSearching, RenderCalled, RenderMailed
  <1>6. QED  BY <1>2, <1>3, <1>4, <1>5 DEF Next, GameCall

-----------------------------------------------------------------------------
(* Where each step leads.                                                  *)
LEMMA GameMoves ==
    ASSUME CountInv, GameCall
    PROVE  \/ UNCHANGED control
           \/ /\ control.at \in {"idle", "done"}
              /\ control'.at \in {"idle", "play", "seek", "stop"}
  <1>1. control.at # "idle" => game.at \in {"control", "stopping", "releasing"}
    BY DEF CountInv, CallUnderWay
  <1>2. CASE Play \/ SetCurrentPosition \/ StopVoice \/ Release
    BY <1>1, <1>2
    DEF Play, StartPlay, SetCurrentPosition, StartSeek, StopVoice, StartStop,
        Release, Returned
  <1>3. CASE ControlAccepted \/ Stopped \/ Released
    BY <1>3 DEF ControlAccepted, Stopped, Released, Idle
  <1>4. QED
    BY <1>2, <1>3, Zenon
    DEF GameCall, BeginQuery, ReadAudibleUntil, ReadClock, SearchSpan, Return,
        voiceVars

LEMMA ControlMoves ==
    ASSUME CountInv, TypeInv, VoiceControl
    PROVE  /\ UNCHANGED <<timelineVars, applied_seek_sequence, cursor, ended,
                          mapping, audible_drain, output_frame, render, heard>>
           /\ \/ /\ BeginPlay
                 /\ control.at = "play" /\ control'.at = "load"
                 /\ playback' = [phase |-> "Starting", run |-> playback.run + 1]
                 /\ UNCHANGED <<seek_mailbox, node, overlapped>>
              \/ /\ LoadFallback
                 /\ control.at = "load" /\ control'.at = "publish"
                 /\ UNCHANGED <<playback, seek_mailbox, node, overlapped>>
              \/ /\ PublishForPlay
                 /\ control.at = "publish" /\ control'.at = "published"
                 /\ seek_mailbox' = [seek_mailbox EXCEPT !.sequence = @ + 1]
                 /\ overlapped' = (overlapped \/ RenderingEarlierRun)
                 /\ UNCHANGED <<playback, node>>
              \/ /\ PlayPublished
                 /\ control.at = "published" /\ control'.at = "commit"
                 /\ seek_mailbox'.sequence = seek_mailbox.sequence + 1
                 /\ UNCHANGED <<playback, node, overlapped>>
              \/ /\ CommitPlay
                 /\ control.at = "commit" /\ control'.at = "done"
                 /\ playback' = [playback EXCEPT !.phase = "Playing"]
                 /\ UNCHANGED <<seek_mailbox, overlapped>>
              \/ /\ BeginStop \/ CompleteStop
                 /\ control.at \in {"stop", "stopping"}
                 /\ control'.at \in {"stopping", "done"}
                 /\ \E phase \in {"Stopping", "Stopped"} :
                        playback' = [playback EXCEPT !.phase = phase]
                 /\ UNCHANGED <<seek_mailbox, node, overlapped>>
              \/ /\ PublishSeek \/ SeekPublished
                 /\ control.at \in {"seek", "sought"}
                 /\ control'.at \in {"sought", "done"}
                 /\ seek_mailbox'.sequence = seek_mailbox.sequence + 1
                 /\ UNCHANGED <<playback, node, overlapped>>
  <1>1. UNCHANGED <<timelineVars, applied_seek_sequence, cursor, ended,
                    mapping, audible_drain, output_frame, render, heard>>
    BY Zenon DEF VoiceControl, BeginPlay, LoadFallback, PublishForPlay,
       PlayPublished, CommitPlay, BeginStop, CompleteStop, PublishSeek,
       SeekPublished, cursorVars, renderVars
  <1>2. control \in Controls /\ seek_mailbox \in Requests
    BY DEF TypeInv, VoiceTypeOK
  <1> USE DEF stateVars, sharedVars, historyVars
  <1>3. CASE BeginPlay
    <2>1. control'.at = "load"
      BY <1>2, <1>3, ControlShape DEF BeginPlay
    <2>2. QED  BY <1>1, <1>3, <2>1, Zenon DEF BeginPlay
  <1>4. CASE LoadFallback
    <2>1. control'.at = "publish"
      BY <1>2, <1>4, ControlShape DEF LoadFallback
    <2>2. QED  BY <1>1, <1>4, <2>1, Zenon DEF LoadFallback
  <1>5. CASE PublishForPlay
    <2>1. control'.at = "published"
      BY <1>2, <1>5, ControlShape DEF PublishForPlay
    <2>2. QED  BY <1>1, <1>5, <2>1, Zenon DEF PublishForPlay
  <1>6. CASE PlayPublished
    <2>1. control'.at = "commit"
          /\ seek_mailbox'.sequence = seek_mailbox.sequence + 1
      BY <1>2, <1>6, ControlShape DEF PlayPublished, StoreRequest
    <2>2. QED  BY <1>1, <1>6, <2>1, Zenon DEF PlayPublished
  <1>7. CASE CommitPlay
    <2>1. control'.at = "done"
      BY <1>7 DEF CommitPlay
    <2>2. QED  BY <1>1, <1>7, <2>1, Zenon DEF CommitPlay, Phase
  <1>8. CASE BeginStop \/ CompleteStop
    <2>1. /\ control.at \in {"stop", "stopping"}
          /\ control'.at \in {"stopping", "done"}
      BY <1>8 DEF BeginStop, CompleteStop, CountInv, Shape
    <2>2. /\ \E phase \in {"Stopping", "Stopped"} :
                 playback' = [playback EXCEPT !.phase = phase]
          /\ UNCHANGED <<seek_mailbox, node, overlapped>>
      BY <1>8, Zenon DEF BeginStop, CompleteStop, Phase
    <2>3. QED  BY <1>1, <1>8, <2>1, <2>2, Zenon
  <1>9. CASE PublishSeek \/ SeekPublished
    <2>1. /\ control.at \in {"seek", "sought"}
          /\ control'.at \in {"sought", "done"}
          /\ seek_mailbox'.sequence = seek_mailbox.sequence + 1
      BY <1>2, <1>9, ControlShape
      DEF PublishSeek, SeekPublished, StoreRequest, Requests
    <2>2. UNCHANGED <<playback, node, overlapped>>
      BY <1>9, Zenon DEF PublishSeek, SeekPublished
    <2>3. QED  BY <1>1, <1>9, <2>1, <2>2, Zenon
  <1>10. QED
    BY <1>3, <1>4, <1>5, <1>6, <1>7, <1>8, <1>9 DEF VoiceControl

(* One move of the period under way.                                       *)
Moves(from, to) ==
    /\ render.at = from /\ render'.at = to
    /\ render'.begin = render.begin /\ render'.gap = render.gap
    /\ render'.run = render.run

LEMMA RenderMoves ==
    ASSUME CountInv, TypeInv, RenderStep
    PROVE  /\ UNCHANGED <<seek_mailbox, accepted_epoch, control, overlapped, looping>>
           /\ \/ /\ BeginPeriod
                 /\ render.at = "idle"
                 /\ render'.at = IF node THEN "capture" ELSE "finish"
                 /\ render'.run = 0
                 /\ UNCHANGED <<playback, applied_seek_sequence, ended>>
              \/ /\ CapturePlayingRun
                 /\ render.at = "capture"
                 /\ render'.begin = render.begin /\ render'.gap = render.gap
                 /\ IF playback.phase = "Playing"
                    THEN render'.at = "seek" /\ render'.run = playback.run
                    ELSE render'.at = "finish" /\ render'.run = render.run
                 /\ UNCHANGED <<playback, applied_seek_sequence, ended>>
              \/ /\ ReadStableSeek
                 /\ Moves("seek", IF seek_mailbox.sequence % 2 = 1
                                  THEN "finish" ELSE AfterSeek)
                 /\ UNCHANGED <<playback, applied_seek_sequence, ended>>
              \/ /\ ApplySeek /\ Moves("apply", "applied")
                 /\ render'.request = render.request
                 /\ UNCHANGED <<playback, applied_seek_sequence, ended>>
              \/ /\ SeekApplied /\ Moves("applied", "mix")
                 /\ UNCHANGED playback
              \/ /\ AdvanceVoiceAcrossDiscontinuity
                 /\ \E to \in {"finish", "end", "mix"} : Moves("advance", to)
                 /\ UNCHANGED <<playback, applied_seek_sequence, ended>>
              \/ AcquireForRender /\ UNCHANGED <<voiceVars, timelineVars>>
              \/ /\ MixPeriod
                 /\ \E to \in {"finish", "end"} : Moves("mix", to)
                 /\ UNCHANGED <<playback, applied_seek_sequence, ended>>
              \/ /\ BeginEnd
                 /\ Moves("end", IF playback = [phase |-> "Playing",
                                                run |-> render.run]
                                 THEN "drain" ELSE "finish")
                 /\ render'.until = render.until
                 /\ playback' = [playback EXCEPT !.phase =
                                     IF playback = [phase |-> "Playing",
                                                    run |-> render.run]
                                     THEN "Ending" ELSE @]
                 /\ UNCHANGED <<applied_seek_sequence, ended>>
              \/ /\ PublishDrain /\ Moves("drain", "stop_node")
                 /\ UNCHANGED <<playback, applied_seek_sequence, ended>>
              \/ /\ VoiceEnded /\ Moves("stop_node", "complete")
                 /\ UNCHANGED <<playback, applied_seek_sequence>>
                 /\ ended' = TRUE
              \/ /\ CompleteEnd /\ Moves("complete", "finish")
                 /\ playback' = [playback EXCEPT !.phase = "Ended"]
                 /\ UNCHANGED <<applied_seek_sequence, ended>>
              \/ /\ PeriodRendered
                 /\ render.at = "finish" /\ render'.at = "idle"
                 /\ UNCHANGED <<playback, applied_seek_sequence, ended>>
  <1>1. UNCHANGED <<seek_mailbox, accepted_epoch, control, overlapped, looping>>
    BY Zenon DEF RenderStep, BeginPeriod, CapturePlayingRun, ReadStableSeek,
       ApplySeek, SeekApplied, AdvanceVoiceAcrossDiscontinuity,
       AcquireForRender, MixPeriod, BeginEnd, PublishDrain, VoiceEnded,
       CompleteEnd, PeriodRendered, sharedVars, voiceVars, historyVars
  <1>2. /\ "finish" \in Stages /\ "applied" \in Stages /\ "mix" \in Stages
        /\ "drain" \in Stages /\ "stop_node" \in Stages /\ "complete" \in Stages
    BY DEF Stages
  <1>3. playback \in [phase : {"Stopped", "Starting", "Playing", "Stopping",
                               "Ending", "Ended"}, run : Nat]
    BY DEF CountInv, Shape
  <1> USE <1>1, <1>2 DEF stateVars, cursorVars, Moves
  <1>4. CASE BeginPeriod
    BY <1>4 DEF BeginPeriod
  <1>5. CASE CapturePlayingRun
    <2>1. CASE playback.phase = "Playing"
      BY <1>5, <2>1, PeriodShape DEF CapturePlayingRun, Periods
    <2>2. CASE playback.phase # "Playing"
      BY <1>5, <2>2, MovedShape DEF CapturePlayingRun
    <2>3. QED  BY <2>1, <2>2
  <1>6. CASE ReadStableSeek
    <2>1. CASE seek_mailbox.sequence % 2 = 1
      BY <1>6, <2>1, MovedShape DEF ReadStableSeek
    <2>2. CASE seek_mailbox.sequence % 2 # 1
      BY <1>6, <2>2, PeriodShape DEF ReadStableSeek, Periods
    <2>3. QED  BY <2>1, <2>2
  <1>7. CASE ApplySeek
    BY <1>7, MovedShape DEF ApplySeek
  <1>8. CASE SeekApplied
    BY <1>8, MovedShape DEF SeekApplied
  <1>9. CASE AdvanceVoiceAcrossDiscontinuity
    <2>1. render.at = "advance" /\ render \in Periods
      BY <1>9, PeriodShape DEF AdvanceVoiceAcrossDiscontinuity
    <2>2. To("finish") \/ To("mix") \/ \E until : Ends(until)
      BY <1>9, Zenon DEF AdvanceVoiceAcrossDiscontinuity
    <2>3. \E to \in {"finish", "end", "mix"} : Moves("advance", to)
      BY <2>1, <2>2 DEF To, Ends, Periods
    <2>4. UNCHANGED <<playback, applied_seek_sequence, ended>>
      BY <1>9, Zenon DEF AdvanceVoiceAcrossDiscontinuity
    <2>5. QED  BY <1>9, <2>3, <2>4
  <1>10. CASE MixPeriod
    <2>1. render.at = "mix" /\ render \in Periods
      BY <1>10, PeriodShape DEF MixPeriod
    <2>2. To("finish") \/ \E until : Ends(until)
      BY <1>10, Zenon DEF MixPeriod
    <2>3. \E to \in {"finish", "end"} : Moves("mix", to)
      BY <2>1, <2>2 DEF To, Ends, Periods
    <2>4. UNCHANGED <<playback, applied_seek_sequence, ended>>
      BY <1>10, Zenon DEF MixPeriod
    <2>5. QED  BY <1>10, <2>3, <2>4
  <1>11. CASE AcquireForRender
    BY <1>11 DEF AcquireForRender
  <1>12. CASE BeginEnd
    BY <1>3, <1>12, MovedShape DEF BeginEnd, Phase
  <1>13. CASE PublishDrain
    BY <1>13, MovedShape DEF PublishDrain
  <1>14. CASE VoiceEnded
    BY <1>14, MovedShape DEF VoiceEnded
  <1>15. CASE CompleteEnd
    BY <1>15, MovedShape DEF CompleteEnd, Phase
  <1>16. CASE PeriodRendered
    BY <1>16 DEF PeriodRendered, Idle
  <1>17. QED
    BY <1>4, <1>5, <1>6, <1>7, <1>8, <1>9, <1>10, <1>11, <1>12, <1>13, <1>14,
       <1>15, <1>16 DEF RenderStep

-----------------------------------------------------------------------------
(* The run the render thread holds is the one that plays, or the game is   *)
(* about to publish the next. Unless that happens while the thread still   *)
(* holds the earlier run, a play's request is found by the run it starts.  *)
Held ==
    /\ render.at # "idle" =>
           /\ render.run # 0 =>
                  /\ \/ playback.run = render.run
                     \/ control.at \in {"load", "publish"}
                  /\ control.at \notin {"published", "commit"}
           /\ render.run = 0 => render.at \in {"capture", "finish"}
           /\ render.at = "capture" => render.run = 0
    /\ control.at = "commit" => PendingSeek
    /\ playback.phase = "Ended" => render.at \in {"idle", "capture", "finish"}
    /\ render.at = "complete" => ended

LEMMA InitHeld == Init => Held
  BY DEF Init, VoiceInit, Idle, Held

LEMMA OverlappedStays ==
    ASSUME VoiceInv, [Next]_allVars, ~overlapped'
    PROVE  ~overlapped
  <1>1. CASE UNCHANGED allVars \/ WriteSamples
    BY <1>1, Zenon DEF allVars, WriteSamples, voiceVars, historyVars
  <1>2. CASE GameCall
    BY <1>2, GameCallKeeps, Zenon DEF timelessVars
  <1>3. CASE VoiceControl
    BY <1>3, ControlMoves, Zenon DEF VoiceInv
  <1>4. CASE RenderStep
    BY <1>4, RenderMoves, Zenon DEF VoiceInv
  <1>5. QED  BY <1>1, <1>2, <1>3, <1>4, Zenon DEF Next, GameCall

LEMMA ControlHeld ==
    ASSUME VoiceInv, Held, VoiceControl, ~overlapped'
    PROVE  Held'
  <1> USE DEF Held, PendingSeek
  <1>1. UNCHANGED <<render, applied_seek_sequence, ended>>
    BY ControlMoves DEF VoiceInv
  <1>2. /\ playback \in [phase : {"Stopped", "Starting", "Playing", "Stopping",
                                  "Ending", "Ended"}, run : Nat]
        /\ playback.phase = "Starting"
               <=> control.at \in {"load", "publish", "published", "commit"}
    BY DEF VoiceInv, CountInv, Shape, PhasesHeld
  <1>3. /\ seek_mailbox \in Requests /\ seek_mailbox.sequence \in Nat
        /\ applied_seek_sequence \in Nat
        /\ applied_seek_sequence <= seek_mailbox.sequence
    BY MailTypes DEF VoiceInv, TypeInv, VoiceTypeOK, Mailed
  <1>4. CASE PublishForPlay
    <2>1. /\ control.at = "publish" /\ control'.at = "published"
          /\ UNCHANGED playback /\ ~RenderingEarlierRun
      <3>1. control.at = "publish"
        BY <1>4 DEF PublishForPlay
      <3>2. QED  BY <3>1, ControlMoves DEF VoiceInv
    <2>2. QED  BY <1>1, <1>2, <2>1 DEF RenderingEarlierRun
  <1>5. CASE ~PublishForPlay
    <2>1. \/ /\ control.at = "play" /\ control'.at = "load"
             /\ playback'.phase = "Starting"
             /\ UNCHANGED seek_mailbox
          \/ /\ control.at = "load" /\ control'.at = "publish"
             /\ UNCHANGED <<playback, seek_mailbox>>
          \/ /\ control.at = "published" /\ control'.at = "commit"
             /\ seek_mailbox'.sequence = seek_mailbox.sequence + 1
             /\ UNCHANGED playback
          \/ /\ control.at = "commit" /\ control'.at = "done"
             /\ playback'.phase = "Playing" /\ playback'.run = playback.run
             /\ UNCHANGED seek_mailbox
          \/ /\ control.at \in {"stop", "stopping"}
             /\ control'.at \in {"stopping", "done"}
             /\ playback'.phase \in {"Stopping", "Stopped"}
             /\ playback'.run = playback.run
             /\ UNCHANGED seek_mailbox
          \/ /\ control.at \in {"seek", "sought"}
             /\ control'.at \in {"sought", "done"}
             /\ UNCHANGED playback
      BY <1>2, <1>5, ControlMoves DEF VoiceInv
    <2>2. QED  BY <1>1, <1>2, <1>3, <2>1
  <1>6. QED  BY <1>4, <1>5

LEMMA RenderHeld ==
    ASSUME VoiceInv, Held, RenderStep, ~overlapped'
    PROVE  Held'
  <1> USE DEF Held, Moves
  <1>1. UNCHANGED <<seek_mailbox, control>>
    BY RenderMoves DEF VoiceInv
  <1>2. /\ playback \in [phase : {"Stopped", "Starting", "Playing", "Stopping",
                                  "Ending", "Ended"}, run : Nat]
        /\ playback.phase = "Starting"
               <=> control.at \in {"load", "publish", "published", "commit"}
        /\ playback.phase = "Ending"
               <=> render.at \in {"drain", "stop_node", "complete"}
        /\ playback.phase # "Stopped" => playback.run # 0
    BY DEF VoiceInv, CountInv, Shape, PhasesHeld, Called
  <1>3. CASE SeekApplied
    <2>1. Moves("applied", "mix") /\ UNCHANGED playback
      <3>1. render.at = "applied" /\ ~AcquireForRender
        BY <1>3 DEF SeekApplied, AcquireForRender
      <3>2. QED  BY <3>1, RenderMoves DEF VoiceInv
    <2>2. QED  BY <1>1, <1>2, <2>1
  <1>4. CASE AcquireForRender /\ UNCHANGED <<voiceVars, timelineVars>>
    BY <1>4 DEF voiceVars, stateVars, sharedVars, cursorVars, renderVars,
       PendingSeek
  <1>5. CASE ~SeekApplied /\ ~(AcquireForRender
                                  /\ UNCHANGED <<voiceVars, timelineVars>>)
    <2>1. applied_seek_sequence' = applied_seek_sequence
      BY <1>5, RenderMoves DEF VoiceInv
    <2>2. (PendingSeek)' <=> PendingSeek
      BY <1>1, <2>1 DEF PendingSeek
    <2>3. AfterSeek \in {"apply", "finish", "advance", "mix"}
      BY DEF AfterSeek
    <2>4. \/ /\ render.at = "idle" /\ render'.at \in {"capture", "finish"}
             /\ render'.run = 0 /\ UNCHANGED <<playback, ended>>
          \/ /\ render.at = "capture"
             /\ UNCHANGED <<playback, ended>>
             /\ \/ /\ playback.phase = "Playing" /\ render'.at = "seek"
                   /\ render'.run = playback.run
                \/ /\ render'.at = "finish" /\ render'.run = render.run
          \/ /\ render.at = "seek"
             /\ render'.at \in {"apply", "finish", "advance", "mix"}
             /\ render'.run = render.run /\ UNCHANGED <<playback, ended>>
          \/ /\ render.at \in {"apply", "advance", "mix", "drain"}
             /\ render'.at \in {"applied", "finish", "end", "mix", "stop_node"}
             /\ render'.run = render.run /\ UNCHANGED <<playback, ended>>
          \/ /\ render.at = "end" /\ render'.run = render.run
             /\ \/ /\ playback.phase = "Playing" /\ render'.at = "drain"
                   /\ playback'.phase = "Ending" /\ playback'.run = playback.run
                \/ /\ render'.at = "finish" /\ UNCHANGED playback
             /\ UNCHANGED ended
          \/ /\ render.at = "stop_node" /\ render'.at = "complete"
             /\ render'.run = render.run /\ UNCHANGED playback /\ ended'
          \/ /\ render.at = "complete" /\ render'.at = "finish"
             /\ render'.run = render.run
             /\ playback'.phase = "Ended" /\ playback'.run = playback.run
          \/ /\ render.at = "finish" /\ render'.at = "idle"
             /\ UNCHANGED <<playback, ended>>
      <3>1. CASE render.at = "idle"
        BY <1>5, <3>1, RenderMoves DEF VoiceInv
      <3>2. CASE render.at = "capture"
        BY <1>5, <3>2, RenderMoves DEF VoiceInv
      <3>3. CASE render.at = "seek"
        BY <1>5, <2>3, <3>3, RenderMoves DEF VoiceInv
      <3>4. CASE render.at \in {"apply", "advance", "mix", "drain"}
        BY <1>5, <3>4, RenderMoves DEF VoiceInv
      <3>5. CASE render.at = "end"
        BY <1>2, <1>5, <3>5, RenderMoves DEF VoiceInv
      <3>6. CASE render.at \in {"stop_node", "complete", "finish"}
        BY <1>2, <1>5, <3>6, RenderMoves DEF VoiceInv
      <3>7. QED
        BY <1>5, <3>1, <3>2, <3>3, <3>4, <3>5, <3>6, RenderMoves DEF VoiceInv
    <2>5. QED  BY <1>1, <1>2, <2>2, <2>4
  <1>6. QED  BY <1>3, <1>4, <1>5

LEMMA GameHeld ==
    ASSUME VoiceInv, Held, GameCall
    PROVE  Held'
  <1>1. UNCHANGED <<render, playback, seek_mailbox, applied_seek_sequence, ended>>
    BY GameCallKeeps DEF timelessVars
  <1>2. \/ UNCHANGED control
        \/ /\ control.at \in {"idle", "done"}
           /\ control'.at \in {"idle", "play", "seek", "stop"}
    BY GameMoves DEF VoiceInv
  <1>3. QED  BY <1>1, <1>2 DEF Held, PendingSeek

-----------------------------------------------------------------------------
(* The history and what is heard. Every epoch kept gives what is heard     *)
(* where it says; what is heard is in an epoch kept or before the first,   *)
(* of those evicted.                                                       *)
EpochHeard(e) ==
    \A f \in e.output_origin..e.tail - 1 :
        heard[f] = [epoch  |-> e.generation,
                    source |-> (e.source_origin + (f - e.output_origin))
                                   % SourceLength]

EpochOK(e) ==
    /\ e.tail > e.output_origin /\ e.tail <= Edge
    /\ e.closure \in {"LaterEpoch", "WriterQuiescedRelease"}
           => e.closed_tail = SourceTail(e)
    /\ EpochHeard(e)

Ordered(e, later) ==
    /\ e.tail <= later.output_origin /\ e.generation < later.generation
    /\ e.closure \in {"LaterEpoch", "NaturalEnd"}

Remembered(f) ==
    /\ exact.epochs # <<>>
    /\ \/ exact.evicted /\ f < exact.epochs[1].output_origin
       \/ \E i \in DOMAIN exact.epochs :
              f \in exact.epochs[i].output_origin..exact.epochs[i].tail - 1

HistoryOK ==
    /\ ~exact.discontinuous
    /\ Len(exact.epochs) <= kExactPlaybackEpochCapacity
    /\ \A i \in DOMAIN exact.epochs : EpochOK(exact.epochs[i])
    /\ \A i, j \in DOMAIN exact.epochs :
           i < j => Ordered(exact.epochs[i], exact.epochs[j])
    /\ exact.epochs # <<>> =>
           \/ Newest.closure \in {"none", "NaturalEnd"}
           \/ game.at = "released" /\ Newest.closure = "WriterQuiescedRelease"

HeardOK ==
    \A f \in DOMAIN heard : heard[f] # Silent =>
        f < Edge /\ heard[f].epoch <= mapping.epoch /\ Remembered(f)

(* The epoch that the render thread maps is the newest one kept, as far as *)
(* anything of it has been put out.                                        *)
MappingKept ==
    /\ mapping.output_frames # 0 =>
           /\ exact.epochs # <<>>
           /\ Newest.generation = mapping.epoch
           /\ Newest.origin = mapping.origin
           /\ Newest.source_origin = mapping.source_start
           /\ Newest.tail = Newest.output_origin + mapping.output_frames
    /\ mapping.output_frames = 0 =>
           \A i \in DOMAIN exact.epochs :
               exact.epochs[i].generation < mapping.epoch

Position == mapping.source_start + mapping.output_frames

(* The next stretch may begin at an output frame: the voice is where its   *)
(* mapping is.                                                             *)
Ready(begin) ==
    /\ cursor \in SourceOffsets /\ cursor = Position % SourceLength
    /\ mapping.output_frames # 0 =>
           Newest.closure = "none" /\ Newest.tail = begin

LEMMA EdgeRange == TypeInv => Edge \in 0..MaxOutput
  <1> SUFFICES ASSUME TypeInv PROVE Edge \in 0..MaxOutput
    OBVIOUS
  <1>1. CASE render.at = "idle"
    BY <1>1, VoiceAssumption DEF TypeInv, Placed, Edge
  <1>2. CASE render.at # "idle"
    BY <1>2, PeriodShape, VoiceAssumption DEF Edge
  <1>3. QED  BY <1>1, <1>2

LEMMA KeptTypes ==
    ASSUME TypeInv
    PROVE  /\ exact.epochs \in Seq(Epochs) /\ Len(exact.epochs) \in Nat
           /\ DOMAIN exact.epochs = 1..Len(exact.epochs)
           /\ \A i \in DOMAIN exact.epochs : exact.epochs[i] \in Epochs
           /\ exact.epochs # <<>> =>
                  /\ Len(exact.epochs) \in DOMAIN exact.epochs
                  /\ Newest \in Epochs
                  /\ Newest = exact.epochs[Len(exact.epochs)]
  BY DEF TypeInv, TimelineTypeOK, Newest

(* An epoch that ends before a stretch is as true after it.                *)
LEMMA EpochStillOK ==
    ASSUME TypeInv, NEW e \in Epochs, EpochOK(e),
           NEW begin \in Nat, NEW frames \in Nat, Sounds(begin, frames),
           e.tail <= begin, Edge <= Edge', Edge' \in Int
    PROVE  EpochOK(e)'
  <1>1. e.output_origin \in Nat /\ e.tail \in Nat /\ Edge \in 0..MaxOutput
    BY EdgeRange DEF Epochs
  <1>2. DOMAIN heard = 0..MaxOutput - 1
    BY DEF TypeInv, VoiceTypeOK
  <1>3. ASSUME NEW f \in e.output_origin..e.tail - 1
        PROVE  heard'[f] = heard[f]
    <2>1. f \in 0..MaxOutput - 1 /\ f \notin begin..begin + frames - 1
      BY <1>1, VoiceAssumption DEF EpochOK
    <2>2. QED  BY <1>2, <2>1 DEF Sounds
  <1>4. EpochHeard(e)'
    BY <1>3 DEF EpochOK, EpochHeard
  <1>5. QED  BY <1>1, <1>4 DEF EpochOK, SourceTail

(* What a stretch sounds is what the epoch it extends says.                *)
LEMMA EpochSounds ==
    ASSUME TypeInv, NEW begin \in Nat, NEW frames \in Nat \ {0},
           NEW over \in BOOLEAN, Stretch(begin, frames, over),
           begin + frames <= MaxOutput, mapping.output_frames <= begin,
           cursor \in SourceOffsets, cursor = Position % SourceLength,
           NEW f \in begin..begin + frames - 1
    PROVE  heard'[f] = [epoch  |-> mapping.epoch,
                        source |-> (mapping.source_start
                                        + (f - (begin - mapping.output_frames)))
                                       % SourceLength]
  <1>1. /\ DOMAIN heard = 0..MaxOutput - 1 /\ f \in 0..MaxOutput - 1
        /\ mapping.source_start \in Int /\ mapping.output_frames \in Int
        /\ Position \in Int /\ f \in Int /\ cursor \in Int
    BY VoiceAssumption DEF TypeInv, VoiceTypeOK, SourceOffsets, Position
  <1>2. heard'[f] = [epoch |-> mapping.epoch,
                     source |-> (cursor + f - begin) % SourceLength]
    BY <1>1 DEF Stretch, Sounds
  <1>3. (cursor + (f - begin)) % SourceLength
            = (Position + (f - begin)) % SourceLength
    <2> DEFINE d == f - begin
    <2>1. d \in Int
      BY <1>1
    <2> HIDE DEF d
    <2>2. ((Position % SourceLength) + d) % SourceLength
              = (Position + d) % SourceLength
      BY <1>1, <2>1, VoiceAssumption, ModSum
    <2>3. (cursor + d) % SourceLength = (Position + d) % SourceLength
      BY <2>2
    <2>4. QED  BY <2>3 DEF d
  <1>4. /\ cursor + (f - begin) = cursor + f - begin
        /\ Position + (f - begin) =
               mapping.source_start + (f - (begin - mapping.output_frames))
    BY <1>1 DEF Position
  <1>5. QED  BY <1>2, <1>3, <1>4

-----------------------------------------------------------------------------
(* What a stretch makes of the epochs kept: the first m of them stay, but  *)
(* for the oldest if it had to go, and the epoch that the stretch is of    *)
(* comes after them.                                                       *)
SameEpoch(e, kept) ==
    /\ e.generation = kept.generation /\ e.output_origin = kept.output_origin
    /\ e.source_origin = kept.source_origin /\ e.tail = kept.tail

Recorded(gone, m, epoch) ==
    /\ gone \in {0, 1} /\ m \in Nat /\ m <= Len(exact.epochs) /\ gone <= m
    /\ exact'.epochs \in Seq(Epochs)
    /\ Len(exact'.epochs) = m + 1 - gone
    /\ m + 1 - gone <= kExactPlaybackEpochCapacity
    /\ exact'.epochs[m + 1 - gone] = epoch
    /\ \A i \in 1..m - gone :
           LET e == exact'.epochs[i]
           IN  /\ SameEpoch(e, exact.epochs[i + gone])
               /\ e.closure \in {"LaterEpoch", "NaturalEnd"}
               /\ e.closure = "LaterEpoch" => e.closed_tail = SourceTail(e)
    /\ exact.evicted \/ gone = 1 => exact'.evicted
    /\ exact'.discontinuous = exact.discontinuous

(* The epoch comes after those, and holds what the others held.            *)
Follow(m, epoch) ==
    /\ \A i \in 1..m : /\ exact.epochs[i].generation < epoch.generation
                       /\ exact.epochs[i].tail <= epoch.output_origin
    /\ \A i \in DOMAIN exact.epochs : i > m =>
           /\ epoch.output_origin = exact.epochs[i].output_origin
           /\ exact.epochs[i].tail <= epoch.tail

LEMMA ExtendRecorded ==
    ASSUME TypeInv, HistoryOK, NEW epoch \in Epochs, exact.epochs # <<>>,
           Newest.generation = epoch.generation,
           Newest.output_origin = epoch.output_origin,
           Newest.tail <= epoch.tail,
           exact' = [exact EXCEPT !.epochs[Len(exact.epochs)] = epoch]
    PROVE  \E m \in Nat : Recorded(0, m, epoch) /\ Follow(m, epoch)
  <1> DEFINE kept == exact.epochs
             count == Len(kept)
             m == count - 1
  <1>1. /\ kept \in Seq(Epochs) /\ count \in Nat \ {0} /\ DOMAIN kept = 1..count
        /\ Newest = kept[count] /\ exact.evicted \in BOOLEAN
        /\ \A i \in 1..count : kept[i] \in Epochs
    BY KeptTypes DEF TypeInv, TimelineTypeOK
  <1>2. exact'.epochs = [kept EXCEPT ![count] = epoch]
        /\ exact'.evicted = exact.evicted
        /\ exact'.discontinuous = exact.discontinuous
    BY DEF TypeInv, TimelineTypeOK
  <1>3. /\ exact'.epochs \in Seq(Epochs) /\ Len(exact'.epochs) = count
        /\ exact'.epochs[count] = epoch
        /\ \A i \in 1..m : exact'.epochs[i] = kept[i]
    BY <1>1, <1>2
  <1>4. \A i \in 1..m : Ordered(kept[i], Newest)
    BY <1>1 DEF HistoryOK
  <1>5. \A i \in 1..m : EpochOK(kept[i])
    BY <1>1 DEF HistoryOK
  <1>6. count <= kExactPlaybackEpochCapacity
    BY DEF HistoryOK
  <1>7. m \in Nat /\ m + 1 - 0 = count /\ m - 0 = m /\ m <= count
    BY <1>1
  <1>8. \A i \in 1..m : i + 0 = i
    OBVIOUS
  <1> HIDE DEF kept, count, m
  <1>9. ASSUME NEW i \in 1..m
        PROVE  /\ SameEpoch(exact'.epochs[i], kept[i + 0])
               /\ exact'.epochs[i].closure \in {"LaterEpoch", "NaturalEnd"}
               /\ exact'.epochs[i].closure = "LaterEpoch" =>
                      exact'.epochs[i].closed_tail = SourceTail(exact'.epochs[i])
    <2>1. exact'.epochs[i] = kept[i] /\ kept[i + 0] = kept[i]
      BY <1>3, <1>8
    <2>2. QED  BY <2>1, <1>4, <1>5 DEF SameEpoch, Ordered, EpochOK
  <1>10. Recorded(0, m, epoch)
    BY <1>2, <1>3, <1>6, <1>7, <1>9 DEF Recorded, kept, count
  <1>11. Follow(m, epoch)
    <2>1. \A i \in DOMAIN kept : i > m => kept[i] = Newest
      BY <1>1, <1>7
    <2>2. epoch.output_origin \in Int
      BY DEF Epochs
    <2>3. QED
      BY <1>1, <1>4, <2>1, <2>2 DEF Ordered, Follow, kept
  <1>12. QED  BY <1>7, <1>10, <1>11

LEMMA AppendRecorded ==
    ASSUME TypeInv, HistoryOK, NEW epoch \in Epochs,
           exact.epochs # <<>> => Newest.closure \in {"none", "NaturalEnd"},
           \A i \in DOMAIN exact.epochs :
               /\ exact.epochs[i].generation < epoch.generation
               /\ exact.epochs[i].tail <= epoch.output_origin,
           exact' = [exact EXCEPT
               !.epochs  = Appended(epoch),
               !.evicted = @ \/ Len(exact.epochs) = kExactPlaybackEpochCapacity]
    PROVE  \E gone \in {0, 1}, m \in Nat :
               Recorded(gone, m, epoch) /\ Follow(m, epoch)
  <1> DEFINE kept == exact.epochs
             count == Len(kept)
             last == Closed(kept[count], "LaterEpoch", SourceTail(kept[count]))
             closed == IF Newest.closure = "none"
                       THEN [kept EXCEPT ![count] = last] ELSE kept
             all == IF count = 0 THEN <<epoch>> ELSE Append(closed, epoch)
             gone == IF count = kExactPlaybackEpochCapacity THEN 1 ELSE 0
  <1>1. /\ kept \in Seq(Epochs) /\ count \in Nat /\ DOMAIN kept = 1..count
        /\ \A i \in 1..count : kept[i] \in Epochs /\ EpochOK(kept[i])
        /\ count <= kExactPlaybackEpochCapacity
        /\ exact.evicted \in BOOLEAN
        /\ kept # <<>> => Newest = kept[count] /\ count \in 1..count
    BY KeptTypes DEF HistoryOK, TypeInv, TimelineTypeOK
  <1>2. kept = <<>> <=> count = 0
    BY <1>1
  <1>3. kept # <<>> => /\ last \in Epochs /\ SameEpoch(last, kept[count])
                       /\ last.closure = "LaterEpoch"
                       /\ last.closed_tail = SourceTail(last)
    <2>1. SUFFICES ASSUME kept # <<>>
                   PROVE  /\ last \in Epochs /\ SameEpoch(last, kept[count])
                          /\ last.closure = "LaterEpoch"
                          /\ last.closed_tail = SourceTail(last)
      OBVIOUS
    <2>2. kept[count] \in Epochs
      BY <1>1, <2>1
    <2>3. last \in Epochs
      BY <2>2, SourceTailType DEF Closures
    <2>4. QED
      BY <2>2, <2>3 DEF Closed, SameEpoch, Epochs, SourceTail
  <1> HIDE DEF last
  <1>4. /\ kept # <<>> => closed \in Seq(Epochs) /\ Len(closed) = count
        /\ \A i \in 1..count :
               /\ SameEpoch(closed[i], kept[i])
               /\ closed[i].closure \in {"LaterEpoch", "NaturalEnd"}
               /\ closed[i].closure = "LaterEpoch" =>
                      closed[i].closed_tail = SourceTail(closed[i])
    <2>1. \A i \in 1..count : i # count =>
              kept[i].closure \in {"LaterEpoch", "NaturalEnd"}
      <3>1. SUFFICES ASSUME NEW i \in 1..count, i # count
                     PROVE  Ordered(kept[i], kept[count])
        BY DEF Ordered
      <3>2. i < count /\ count \in 1..count
        BY <1>1, <3>1
      <3>3. QED  BY <1>1, <3>2 DEF HistoryOK
    <2>2. \A i \in 1..count :
              /\ SameEpoch(kept[i], kept[i])
              /\ kept[i].closure = "LaterEpoch" =>
                     kept[i].closed_tail = SourceTail(kept[i])
      BY <1>1 DEF SameEpoch, EpochOK
    <2>3. CASE kept # <<>> /\ Newest.closure = "none"
      <3>1. closed = [kept EXCEPT ![count] = last]
        BY <2>3
      <3>2. /\ closed \in Seq(Epochs) /\ Len(closed) = count
            /\ closed[count] = last
            /\ \A i \in 1..count : i # count => closed[i] = kept[i]
        BY <1>1, <1>3, <2>3, <3>1
      <3> HIDE DEF closed
      <3>3. QED  BY <1>3, <2>1, <2>2, <2>3, <3>2
    <2>4. CASE kept # <<>> /\ Newest.closure # "none"
      <3>1. closed = kept /\ kept[count].closure = "NaturalEnd"
        BY <1>1, <2>4
      <3> HIDE DEF closed
      <3>2. QED  BY <1>1, <2>1, <2>2, <3>1
    <2>5. CASE kept = <<>>
      <3> HIDE DEF closed
      <3>1. count = 0
        BY <2>5, <1>2
      <3>2. QED  BY <2>5, <3>1
    <2>6. QED  BY <2>3, <2>4, <2>5
  <1> HIDE DEF closed
  <1>5. /\ all \in Seq(Epochs) /\ Len(all) = count + 1
        /\ all[count + 1] = epoch /\ \A i \in 1..count : all[i] = closed[i]
    <2>1. CASE count = 0
      <3>1. all = <<epoch>>
        BY <2>1
      <3> HIDE DEF all
      <3>2. QED  BY <2>1, <3>1
    <2>2. CASE count # 0
      <3>1. all = Append(closed, epoch) /\ closed \in Seq(Epochs)
            /\ Len(closed) = count
        BY <1>2, <1>4, <2>2
      <3> HIDE DEF all
      <3>2. QED  BY <1>1, <3>1
    <2>3. QED  BY <2>1, <2>2
  <1>6. Appended(epoch) =
            IF Len(all) > kExactPlaybackEpochCapacity THEN Tail(all) ELSE all
    BY DEF Appended, Newest, closed, last
  <1> HIDE DEF all
  <1>7. /\ Appended(epoch) \in Seq(Epochs)
        /\ Len(Appended(epoch)) = count + 1 - gone
        /\ \A i \in 1..count + 1 - gone : Appended(epoch)[i] = all[i + gone]
    <2>1. CASE count = kExactPlaybackEpochCapacity
      BY <1>1, <1>5, <1>6, <2>1, TimelineAssumption
    <2>2. CASE count # kExactPlaybackEpochCapacity
      BY <1>1, <1>5, <1>6, <2>2, TimelineAssumption
    <2>3. QED  BY <2>1, <2>2
  <1>8. /\ exact'.epochs = Appended(epoch)
        /\ exact'.discontinuous = exact.discontinuous
        /\ exact.evicted \/ gone = 1 => exact'.evicted
    <2>1. exact'.epochs = Appended(epoch)
          /\ exact'.discontinuous = exact.discontinuous
      BY DEF TypeInv, TimelineTypeOK
    <2>2. exact'.evicted = (exact.evicted
                               \/ count = kExactPlaybackEpochCapacity)
      BY DEF TypeInv, TimelineTypeOK
    <2>3. exact.evicted \/ gone = 1 => exact'.evicted
      <3>1. gone = 1 => count = kExactPlaybackEpochCapacity
        OBVIOUS
      <3> HIDE DEF gone, count
      <3>2. QED  BY <2>2, <3>1, Zenon
    <2>4. QED  BY <2>1, <2>3
  <1>9. /\ gone \in {0, 1} /\ gone <= count
        /\ count + 1 - gone <= kExactPlaybackEpochCapacity
        /\ count + 1 - gone \in 1..count + 1 - gone
        /\ (count + 1 - gone) + gone = count + 1
        /\ \A i \in 1..count - gone : /\ i \in 1..count + 1 - gone
                                      /\ i + gone \in 1..count
    <2>1. CASE count = kExactPlaybackEpochCapacity
      <3>1. gone = 1 /\ count \in Nat \ {0}
        BY <2>1, TimelineAssumption
      <3> HIDE DEF gone, count
      <3>2. QED  BY <1>1, <2>1, <3>1
    <2>2. CASE count # kExactPlaybackEpochCapacity
      <3>1. gone = 0 /\ count < kExactPlaybackEpochCapacity
        BY <1>1, <2>2, TimelineAssumption
      <3> HIDE DEF gone, count
      <3>2. QED  BY <1>1, <3>1, TimelineAssumption
    <2>3. QED  BY <2>1, <2>2
  <1> HIDE DEF gone
  <1>10. Recorded(gone, count, epoch)
    <2>1. exact'.epochs[count + 1 - gone] = epoch
      BY <1>5, <1>7, <1>8, <1>9
    <2>2. ASSUME NEW i \in 1..count - gone
          PROVE  /\ SameEpoch(exact'.epochs[i], kept[i + gone])
                 /\ exact'.epochs[i].closure \in {"LaterEpoch", "NaturalEnd"}
                 /\ exact'.epochs[i].closure = "LaterEpoch" =>
                        exact'.epochs[i].closed_tail = SourceTail(exact'.epochs[i])
      <3>1. exact'.epochs[i] = closed[i + gone] /\ i + gone \in 1..count
        BY <1>5, <1>7, <1>8, <1>9
      <3>2. QED  BY <1>4, <3>1
    <2>3. QED
      BY <1>1, <1>7, <1>8, <1>9, <2>1, <2>2 DEF Recorded, kept, count
  <1>11. Follow(count, epoch)
    BY <1>1 DEF Follow
  <1>12. QED  BY <1>1, <1>9, <1>10, <1>11

LEMMA StretchRecorded ==
    ASSUME TypeInv, HistoryOK, MappingKept, game.at # "released",
           NEW begin \in Nat, NEW frames \in Nat \ {0}, NEW over \in BOOLEAN,
           Ready(begin), Edge <= begin, mapping.output_frames <= begin,
           Stretch(begin, frames, over)
    PROVE  LET epoch == MappedEpoch(begin, frames, over)
           IN  /\ epoch \in Epochs /\ Accepts(epoch)
               /\ \E gone \in {0, 1}, m \in Nat :
                      Recorded(gone, m, epoch) /\ Follow(m, epoch)
               /\ mapping' = [mapping EXCEPT !.output_frames = @ + frames]
               /\ PublishSpan(MappedSpan(begin, frames))
  <1> DEFINE epoch == MappedEpoch(begin, frames, over)
  <1>1. /\ epoch \in Epochs
        /\ epoch.generation = mapping.epoch /\ epoch.origin = mapping.origin
        /\ epoch.output_origin = begin - mapping.output_frames
        /\ epoch.source_origin = mapping.source_start
        /\ epoch.tail = begin + frames
    BY MappedEpochType, MappedEpochIs
  <1>2. /\ frames # 0 /\ mapping.output_frames \in Nat
        /\ mapping.epoch \in Nat
        /\ Edge \in Int
    BY EdgeRange DEF TypeInv, VoiceTypeOK
  <1>3. /\ PublishSpan(MappedSpan(begin, frames))
        /\ PublishExactMappedSpan(epoch)
        /\ mapping' = [mapping EXCEPT !.output_frames =
               IF Accepts(epoch) THEN @ + frames ELSE @]
    BY <1>2, Zenon DEF Stretch, PublishMappedSpans
  <1> HIDE DEF epoch
  <1>4. CASE mapping.output_frames # 0
    <2>1. /\ exact.epochs # <<>> /\ Newest \in Epochs
          /\ Newest.generation = mapping.epoch /\ Newest.origin = mapping.origin
          /\ Newest.source_origin = mapping.source_start
          /\ Newest.tail = Newest.output_origin + mapping.output_frames
          /\ Newest.closure = "none" /\ Newest.tail = begin
      BY <1>4, KeptTypes DEF MappingKept, Ready
    <2>2. Newest.output_origin \in Nat /\ Newest.tail \in Nat
      BY <2>1 DEF Epochs
    <2>3. Newest.output_origin = epoch.output_origin /\ Newest.tail <= epoch.tail
          /\ epoch.tail > Newest.tail /\ epoch.tail > epoch.output_origin
      BY <1>1, <1>2, <2>1, <2>2
    <2>4. ~NewEpoch(epoch.generation)
      BY <1>1, <2>1 DEF NewEpoch
    <2>5. Accepts(epoch)
      BY <1>1, <2>1, <2>3, <2>4 DEF Accepts
    <2>6. exact' = [exact EXCEPT !.epochs[Len(exact.epochs)] = epoch]
      BY <1>3, <2>4, <2>5 DEF PublishExactMappedSpan, Stored
    <2>7. \E m \in Nat : Recorded(0, m, epoch) /\ Follow(m, epoch)
      BY <1>1, <2>1, <2>3, <2>6, ExtendRecorded
    <2>8. QED  BY <1>1, <1>3, <2>5, <2>7 DEF epoch
  <1>5. CASE mapping.output_frames = 0
    <2>1. \A i \in DOMAIN exact.epochs :
              /\ exact.epochs[i].generation < epoch.generation
              /\ exact.epochs[i].tail <= epoch.output_origin
      <3>1. SUFFICES ASSUME NEW i \in DOMAIN exact.epochs
                     PROVE  /\ exact.epochs[i].generation < epoch.generation
                            /\ exact.epochs[i].tail <= epoch.output_origin
        OBVIOUS
      <3>2. exact.epochs[i].tail \in Nat /\ exact.epochs[i].tail <= Edge
        BY KeptTypes DEF HistoryOK, EpochOK, Epochs
      <3>3. QED  BY <1>1, <1>2, <1>5, <3>2 DEF MappingKept
    <2>2. exact.epochs # <<>> =>
              /\ Newest.closure \in {"none", "NaturalEnd"}
              /\ Newest.generation < epoch.generation
              /\ Newest.generation \in Nat
      BY <2>1, KeptTypes DEF HistoryOK, Epochs
    <2>3. NewEpoch(epoch.generation)
      BY <1>1, <1>2, <2>2 DEF NewEpoch
    <2>4. Accepts(epoch)
      BY <1>1, <1>2, <1>5, <2>2, <2>3 DEF Accepts
    <2>5. exact' = [exact EXCEPT
               !.epochs  = Appended(epoch),
               !.evicted = @ \/ Len(exact.epochs) = kExactPlaybackEpochCapacity]
      BY <1>3, <2>3, <2>4 DEF PublishExactMappedSpan, Stored
    <2>6. \E gone \in {0, 1}, m \in Nat :
              Recorded(gone, m, epoch) /\ Follow(m, epoch)
      BY <1>1, <2>1, <2>2, <2>5, AppendRecorded
    <2>7. QED  BY <1>1, <1>3, <2>4, <2>6 DEF epoch
  <1>6. QED  BY <1>4, <1>5

(* The history stays what it says it is.                                   *)
LEMMA RecordedHistory ==
    ASSUME TypeInv, HistoryOK, NEW epoch \in Epochs,
           NEW begin \in Nat, NEW frames \in Nat, Sounds(begin, frames),
           Edge <= begin, Edge <= Edge', Edge' \in Int,
           (EpochOK(epoch))', epoch.closure \in {"none", "NaturalEnd"},
           NEW gone \in {0, 1}, NEW m \in Nat,
           Recorded(gone, m, epoch), Follow(m, epoch)
    PROVE  HistoryOK' /\ (Newest = epoch)' /\ (exact.epochs # <<>>)'
  <1> DEFINE kept == exact.epochs
             next == exact'.epochs
             count == m + 1 - gone
  <1>1. /\ count \in Nat \ {0} /\ Len(next) = count /\ next \in Seq(Epochs)
        /\ count <= kExactPlaybackEpochCapacity
        /\ DOMAIN next = 1..count /\ next[count] = epoch
        /\ m - gone = count - 1 /\ m <= Len(kept)
        /\ DOMAIN kept = 1..Len(kept) /\ Len(kept) \in Nat
    BY KeptTypes DEF Recorded
  <1>2. (Newest = epoch)' /\ (exact.epochs # <<>>)'
    BY <1>1 DEF Newest
  <1>3. ASSUME NEW i \in 1..count - 1
        PROVE  /\ i + gone \in 1..m /\ i + gone \in DOMAIN kept
               /\ kept[i + gone] \in Epochs
               /\ SameEpoch(next[i], kept[i + gone])
               /\ next[i].closure \in {"LaterEpoch", "NaturalEnd"}
               /\ next[i].closure = "LaterEpoch" =>
                      next[i].closed_tail = SourceTail(next[i])
    <2>1. i + gone \in 1..m
      BY <1>1
    <2>2. i + gone \in DOMAIN kept
      BY <1>1, <2>1
    <2>3. QED  BY <1>1, <2>1, <2>2, KeptTypes DEF Recorded
  <1>4. ASSUME NEW i \in 1..count
        PROVE  (EpochOK(exact.epochs[i]))'
    <2>1. CASE i = count
      BY <1>1, <2>1
    <2>2. CASE i # count
      <3>1. i \in 1..count - 1
        BY <1>1, <2>2
      <3>2. PICK e \in Epochs : EpochOK(e) /\ SameEpoch(next[i], e)
        BY <1>3, <3>1 DEF HistoryOK
      <3>3. e.tail \in Nat /\ e.tail <= begin
        BY <3>2, EdgeRange DEF EpochOK, Epochs
      <3>4. (EpochOK(e))'
        BY <3>2, <3>3, EpochStillOK
      <3>5. e.tail > e.output_origin /\ e.tail <= Edge'
        BY <3>4 DEF EpochOK
      <3>6. next[i].closure \in {"LaterEpoch", "WriterQuiescedRelease"} =>
                next[i].closed_tail = SourceTail(next[i])
        BY <1>3, <3>1
      <3>7. next[i].tail > next[i].output_origin /\ next[i].tail <= Edge'
        BY <3>2, <3>5 DEF SameEpoch
      <3>8. (EpochHeard(exact.epochs[i]))'
        BY <3>2, <3>4 DEF EpochOK, EpochHeard, SameEpoch
      <3>9. QED  BY <3>6, <3>7, <3>8 DEF EpochOK, SourceTail
    <2>3. QED  BY <2>1, <2>2
  <1>5. ASSUME NEW i \in 1..count, NEW j \in 1..count, i < j
        PROVE  Ordered(next[i], next[j])
    <2>1. i \in 1..count - 1
      BY <1>1, <1>5
    <2>2. CASE j = count
      <3>1. /\ kept[i + gone].generation < epoch.generation
            /\ kept[i + gone].tail <= epoch.output_origin
        BY <1>3, <2>1 DEF Follow
      <3>2. QED  BY <1>1, <1>3, <2>1, <2>2, <3>1 DEF SameEpoch, Ordered
    <2>3. CASE j # count
      <3>1. j \in 1..count - 1 /\ i + gone < j + gone
        BY <1>1, <1>5, <2>3
      <3>2. i + gone \in DOMAIN kept /\ j + gone \in DOMAIN kept
        BY <1>3, <2>1, <3>1
      <3>3. Ordered(kept[i + gone], kept[j + gone])
        BY <3>1, <3>2 DEF HistoryOK
      <3>4. QED  BY <1>3, <2>1, <3>1, <3>3 DEF SameEpoch, Ordered
    <2>4. QED  BY <2>2, <2>3
  <1>6. ~exact'.discontinuous
    BY DEF Recorded, HistoryOK
  <1>7. QED
    <2>1. (\A i \in DOMAIN exact.epochs : EpochOK(exact.epochs[i]))'
      BY <1>1, <1>4
    <2>2. (\A i, j \in DOMAIN exact.epochs :
               i < j => Ordered(exact.epochs[i], exact.epochs[j]))'
      BY <1>1, <1>5 DEF Ordered
    <2>3. (Newest.closure \in {"none", "NaturalEnd"})'
      BY <1>2
    <2>4. (Len(exact.epochs) <= kExactPlaybackEpochCapacity)'
      BY <1>1
    <2>5. QED  BY <1>2, <1>6, <2>1, <2>2, <2>3, <2>4, Zenon DEF HistoryOK

LEMMA RecordedHeard ==
    ASSUME TypeInv, HistoryOK, HeardOK, NEW epoch \in Epochs,
           NEW begin \in Nat, NEW frames \in Nat, Sounds(begin, frames),
           Edge <= begin, Edge <= Edge', Edge' \in Int, begin + frames <= Edge',
           epoch.output_origin <= begin, epoch.tail = begin + frames,
           mapping'.epoch = mapping.epoch,
           NEW gone \in {0, 1}, NEW m \in Nat,
           Recorded(gone, m, epoch), Follow(m, epoch)
    PROVE  HeardOK'
  <1> DEFINE kept == exact.epochs
             next == exact'.epochs
             count == m + 1 - gone
  <1>1. /\ count \in Nat \ {0} /\ Len(next) = count /\ next \in Seq(Epochs)
        /\ DOMAIN next = 1..count /\ next[count] = epoch /\ next # <<>>
        /\ m - gone = count - 1 /\ m <= Len(kept) /\ gone <= m
        /\ DOMAIN kept = 1..Len(kept) /\ Len(kept) \in Nat
        /\ \A i \in DOMAIN kept : kept[i] \in Epochs /\ EpochOK(kept[i])
    BY KeptTypes DEF Recorded, HistoryOK
  <1>2. /\ \A i \in 1..m - gone : SameEpoch(next[i], kept[i + gone])
        /\ exact.evicted \/ gone = 1 => exact'.evicted
    BY Zenon DEF Recorded
  <1>3. /\ \A i \in 1..m : kept[i].tail <= epoch.output_origin
        /\ \A i \in DOMAIN kept : i > m =>
               /\ epoch.output_origin = kept[i].output_origin
               /\ kept[i].tail <= epoch.tail
    BY DEF Follow
  <1>4. \A i \in 1..Len(kept) : /\ kept[i].output_origin \in Int
                                /\ kept[i].tail \in Int
                                /\ kept[i].output_origin < kept[i].tail
    <2>1. SUFFICES ASSUME NEW i \in 1..Len(kept)
                   PROVE  /\ kept[i].output_origin \in Int
                          /\ kept[i].tail \in Int
                          /\ kept[i].output_origin < kept[i].tail
      OBVIOUS
    <2>2. kept[i] \in Epochs /\ EpochOK(kept[i])
      BY <1>1, <2>1
    <2>3. QED  BY <2>2 DEF EpochOK, Epochs
  <1>5. epoch.output_origin \in Int /\ epoch.tail \in Int
    BY DEF Epochs
  <1> HIDE DEF kept, next, count
  <1>6. kept # <<>> =>
            /\ kept[1].output_origin <= next[1].output_origin
            /\ gone = 1 => kept[1].tail <= next[1].output_origin
    <2>1. SUFFICES ASSUME kept # <<>>
                   PROVE  /\ kept[1].output_origin <= next[1].output_origin
                          /\ gone = 1 => kept[1].tail <= next[1].output_origin
      OBVIOUS
    <2>2. 1 \in DOMAIN kept /\ 1 \in 1..Len(kept)
      BY <1>1, <2>1, KeptTypes DEF kept
    <2>3. CASE count = 1
      <3>1. next[1] = epoch /\ m = gone
        BY <1>1, <2>3
      <3>2. CASE gone = 1
        BY <1>3, <1>4, <1>5, <2>2, <3>1, <3>2
      <3>3. CASE gone = 0
        BY <1>3, <1>4, <1>5, <2>2, <3>1, <3>3
      <3>4. QED  BY <3>2, <3>3
    <2>4. CASE count # 1
      <3>1. 1 \in 1..m - gone /\ 1 + gone \in DOMAIN kept
        BY <1>1, <2>4
      <3>2. next[1].output_origin = kept[1 + gone].output_origin
        BY <1>2, <3>1 DEF SameEpoch
      <3>3. gone = 1 => Ordered(kept[1], kept[1 + gone])
        BY <2>2, <3>1 DEF HistoryOK, kept
      <3>4. CASE gone = 1
        <4>1. kept[1].tail <= kept[2].output_origin
          BY <3>3, <3>4 DEF Ordered
        <4>2. 1 \in 1..Len(kept) /\ 2 \in 1..Len(kept)
          BY <1>1, <2>2, <3>1, <3>4
        <4>3. 1 + gone = 2
          BY <3>4
        <4>4. next[1].output_origin = kept[2].output_origin
          BY <3>2, <4>3
        <4>5. /\ kept[1].output_origin < kept[1].tail
              /\ kept[1].output_origin \in Int /\ kept[1].tail \in Int
              /\ kept[2].output_origin \in Int
          BY <1>4, <4>2
        <4>6. QED  BY <4>1, <4>4, <4>5
      <3>5. CASE gone = 0
        BY <1>4, <2>2, <3>2, <3>5
      <3>6. QED  BY <3>4, <3>5
    <2>5. QED  BY <2>3, <2>4
  <1>7. /\ DOMAIN heard = 0..MaxOutput - 1 /\ DOMAIN heard' = DOMAIN heard
        /\ Edge \in Int /\ mapping.epoch \in Nat
    BY EdgeRange DEF TypeInv, VoiceTypeOK, Sounds
  <1>8. ASSUME NEW f \in 0..MaxOutput - 1, heard'[f] # Silent
        PROVE  f < Edge' /\ heard'[f].epoch <= mapping'.epoch
    <2>1. CASE f \in begin..begin + frames - 1
      BY <1>7, <2>1 DEF Sounds
    <2>2. CASE f \notin begin..begin + frames - 1
      <3>1. heard'[f] = heard[f]
        BY <1>7, <2>2 DEF Sounds
      <3>2. QED  BY <1>7, <1>8, <3>1 DEF HeardOK
    <2>3. QED  BY <2>1, <2>2
  <1>9. ASSUME NEW f \in 0..MaxOutput - 1, heard'[f] # Silent
        PROVE  \/ exact'.evicted /\ f < next[1].output_origin
               \/ \E i \in 1..count :
                      f \in next[i].output_origin..next[i].tail - 1
    <2>1. CASE f \in epoch.output_origin..epoch.tail - 1
      BY <1>1, <2>1 DEF count
    <2>2. CASE f \notin epoch.output_origin..epoch.tail - 1
      <3>1. f \notin begin..begin + frames - 1
        BY <1>5, <2>2
      <3>2. heard[f] # Silent
        BY <1>7, <1>9, <3>1 DEF Sounds
      <3>3. /\ kept # <<>>
            /\ \/ exact.evicted /\ f < kept[1].output_origin
               \/ \E i \in DOMAIN kept :
                      f \in kept[i].output_origin..kept[i].tail - 1
        BY <1>7, <3>2 DEF HeardOK, Remembered, kept
      <3>4. next[1].output_origin \in Int /\ kept[1].output_origin \in Int
            /\ kept[1].tail \in Int
        <4>1. 1 \in 1..count /\ 1 \in 1..Len(kept)
          BY <1>1, <3>3, KeptTypes DEF kept
        <4>2. next[1] \in Epochs
          BY <1>1, <4>1
        <4>3. next[1].output_origin \in Int
          BY <4>2 DEF Epochs
        <4>4. kept[1].output_origin \in Int /\ kept[1].tail \in Int
          BY <1>4, <4>1
        <4>5. QED  BY <4>3, <4>4
      <3>5. CASE exact.evicted /\ f < kept[1].output_origin
        <4>1. exact'.evicted
          BY <1>2, <3>5, Zenon
        <4>2. f < next[1].output_origin
          BY <1>6, <3>3, <3>4, <3>5
        <4>3. QED  BY <4>1, <4>2
      <3>6. ASSUME NEW i \in DOMAIN kept,
                   f \in kept[i].output_origin..kept[i].tail - 1
            PROVE  \/ exact'.evicted /\ f < next[1].output_origin
                   \/ \E j \in 1..count :
                          f \in next[j].output_origin..next[j].tail - 1
        <4>1. i \in 1..Len(kept) /\ i <= m
          <5>1. i \in 1..Len(kept)
            BY <1>1, <3>6
          <5>2. kept[i].output_origin \in Int /\ kept[i].tail \in Int
            BY <1>4, <5>1
          <5>3. ~(i > m)
            BY <1>3, <1>5, <2>2, <3>6, <5>1, <5>2
          <5>4. QED  BY <5>1, <5>3
        <4>2. CASE i - gone >= 1
          <5> DEFINE j == i - gone
          <5>1. j \in 1..m - gone /\ j \in 1..count /\ j + gone = i
            BY <1>1, <4>1, <4>2
          <5>2. SameEpoch(next[j], kept[j + gone])
            BY <1>2, <5>1
          <5> HIDE DEF j
          <5>3. f \in next[j].output_origin..next[j].tail - 1
            BY <3>6, <5>1, <5>2 DEF SameEpoch
          <5>4. QED  BY <5>1, <5>3
        <4>3. CASE ~(i - gone >= 1)
          <5>1. i = 1 /\ gone = 1
            BY <4>1, <4>3
          <5>2. exact'.evicted
            BY <1>2, <5>1, Zenon
          <5>3. f < next[1].output_origin
            BY <1>6, <3>3, <3>4, <3>6, <5>1
          <5>4. QED  BY <5>2, <5>3
        <4>4. QED  BY <4>2, <4>3
      <3>7. QED  BY <3>3, <3>5, <3>6
    <2>3. QED  BY <2>1, <2>2
  <1>10. QED
    <2>1. (exact.epochs # <<>>)' /\ (DOMAIN exact.epochs)' = 1..count
      BY <1>1 DEF next
    <2>2. ASSUME NEW f \in 0..MaxOutput - 1, heard'[f] # Silent
          PROVE  Remembered(f)'
      BY <1>9, <2>1, <2>2 DEF Remembered, next
    <2>3. QED  BY <1>7, <1>8, <2>2 DEF HeardOK

(* What is not a stretch leaves the history as true as it was.             *)
LEMMA HistoryStays ==
    ASSUME TypeInv, HistoryOK, HeardOK, UNCHANGED heard,
           exact'.epochs = exact.epochs, exact'.evicted = exact.evicted,
           exact'.discontinuous = exact.discontinuous,
           Edge <= Edge', Edge' \in Int,
           mapping.epoch <= mapping'.epoch, mapping'.epoch \in Int,
           game.at = "released" => game'.at = "released"
    PROVE  HistoryOK' /\ HeardOK'
  <1>1. Edge \in Int /\ mapping.epoch \in Int
    BY EdgeRange DEF TypeInv, VoiceTypeOK
  <1>2. (Newest = Newest)' /\ Newest' = Newest
    BY DEF Newest
  <1>3. ASSUME NEW i \in DOMAIN exact.epochs
        PROVE  (EpochOK(exact.epochs[i]))'
    <2>1. EpochOK(exact.epochs[i]) /\ exact.epochs[i].tail \in Nat
      BY KeptTypes DEF HistoryOK, Epochs
    <2>2. exact'.epochs[i].tail <= Edge'
      BY <1>1, <2>1 DEF EpochOK
    <2>3. QED  BY <2>1, <2>2 DEF EpochOK, EpochHeard, SourceTail
  <1>4. HistoryOK'
    <2>1. (\A i \in DOMAIN exact.epochs : EpochOK(exact.epochs[i]))'
      BY <1>3
    <2>2. (\A i, j \in DOMAIN exact.epochs :
               i < j => Ordered(exact.epochs[i], exact.epochs[j]))'
      BY DEF HistoryOK, Ordered
    <2>3. (exact.epochs # <<>> =>
               \/ Newest.closure \in {"none", "NaturalEnd"}
               \/ game.at = "released"
                  /\ Newest.closure = "WriterQuiescedRelease")'
      BY <1>2 DEF HistoryOK
    <2>4. (~exact.discontinuous)'
          /\ (Len(exact.epochs) <= kExactPlaybackEpochCapacity)'
      BY DEF HistoryOK
    <2>5. QED  BY <2>1, <2>2, <2>3, <2>4, Zenon DEF HistoryOK
  <1>5. HeardOK'
    <2>1. SUFFICES ASSUME NEW f \in DOMAIN heard, heard[f] # Silent
                   PROVE  /\ f < Edge' /\ heard[f].epoch <= mapping'.epoch
                          /\ Remembered(f)'
      BY DEF HeardOK
    <2>2. f < Edge /\ heard[f].epoch <= mapping.epoch /\ Remembered(f)
      BY <2>1 DEF HeardOK
    <2>3. heard[f].epoch \in Int /\ f \in Int
      BY <2>1 DEF TypeInv, VoiceTypeOK
    <2>4. Remembered(f)'
      BY <2>2 DEF Remembered
    <2>5. QED  BY <1>1, <2>2, <2>3, <2>4
  <1>6. QED  BY <1>4, <1>5

(* A stretch that goes on from where the voice is is accepted, and the     *)
(* history then tells it too.                                              *)
LEMMA StretchTrue ==
    ASSUME TypeInv, HistoryOK, HeardOK, MappingKept, game.at # "released",
           NEW begin \in Nat, NEW frames \in Nat \ {0}, NEW over \in BOOLEAN,
           Ready(begin), Edge <= begin, mapping.output_frames <= begin,
           Stretch(begin, frames, over), begin + frames <= MaxOutput,
           Edge' \in Int, begin + frames <= Edge'
    PROVE  /\ HistoryOK' /\ HeardOK' /\ MappingKept'
           /\ Accepts(MappedEpoch(begin, frames, over))
           /\ mapping' = [mapping EXCEPT !.output_frames = @ + frames]
           /\ PublishSpan(MappedSpan(begin, frames))
           /\ (Newest.tail)' = begin + frames
           /\ (Newest.closure)' = IF over THEN "NaturalEnd" ELSE "none"
  <1>1. PICK epoch \in Epochs : epoch = MappedEpoch(begin, frames, over)
    BY StretchRecorded, Zenon
  <1>2. PICK gone \in {0, 1}, m \in Nat :
            Recorded(gone, m, epoch) /\ Follow(m, epoch)
    BY <1>1, StretchRecorded
  <1>3. /\ epoch.generation = mapping.epoch /\ epoch.origin = mapping.origin
        /\ epoch.output_origin = begin - mapping.output_frames
        /\ epoch.source_origin = mapping.source_start
        /\ epoch.tail = begin + frames
        /\ epoch.closure = IF over THEN "NaturalEnd" ELSE "none"
    BY <1>1, MappedEpochIs
  <1>4. /\ mapping \in [epoch : Nat, source_start : SourceOffsets,
                        output_frames : Nat, origin : Origins]
        /\ mapping' = [mapping EXCEPT !.output_frames = @ + frames]
        /\ Sounds(begin, frames) /\ Edge \in Int /\ Edge <= Edge'
        /\ DOMAIN heard = 0..MaxOutput - 1
    <2>1. mapping' = [mapping EXCEPT !.output_frames = @ + frames]
      BY StretchRecorded
    <2>2. Edge \in Int /\ Edge <= Edge'
      BY EdgeRange, VoiceAssumption
    <2>3. QED  BY <2>1, <2>2 DEF TypeInv, VoiceTypeOK, Stretch
  <1>5. mapping'.epoch = mapping.epoch
        /\ mapping'.output_frames = mapping.output_frames + frames
        /\ mapping'.origin = mapping.origin
        /\ mapping'.source_start = mapping.source_start
        /\ mapping.output_frames \in Nat
    BY <1>4
  <1>6. (EpochOK(epoch))'
    <2>1. epoch.tail > epoch.output_origin /\ epoch.tail <= Edge'
          /\ epoch.output_origin <= begin
      BY <1>3, <1>5
    <2>2. ASSUME NEW f \in epoch.output_origin..epoch.tail - 1
          PROVE  heard'[f] = [epoch  |-> epoch.generation,
                              source |-> (epoch.source_origin
                                              + (f - epoch.output_origin))
                                             % SourceLength]
      <3>1. f \in Int /\ epoch.output_origin \in Nat
        BY DEF Epochs
      <3>2. CASE f >= begin
        <4>1. f \in begin..begin + frames - 1
          BY <1>3, <3>1, <3>2
        <4>2. QED  BY <1>3, <4>1, EpochSounds DEF Ready
      <3>3. CASE f < begin
        <4>1. mapping.output_frames # 0
          BY <1>3, <1>5, <3>1, <3>3
        <4>2. /\ exact.epochs # <<>> /\ Newest \in Epochs
              /\ Newest.generation = mapping.epoch
              /\ Newest.source_origin = mapping.source_start
              /\ Newest.tail = Newest.output_origin + mapping.output_frames
              /\ Newest.tail = begin
          BY <4>1, KeptTypes DEF MappingKept, Ready
        <4>3. Newest.output_origin = epoch.output_origin
          <5>1. /\ Newest.output_origin \in Nat /\ mapping.output_frames \in Nat
                /\ Newest.output_origin + mapping.output_frames = begin
                /\ epoch.output_origin = begin - mapping.output_frames
            BY <1>3, <4>2 DEF Epochs, TypeInv, VoiceTypeOK
          <5>2. QED  BY ONLY <5>1
        <4>4. EpochOK(Newest)
          BY <4>2, KeptTypes DEF HistoryOK
        <4>5. f \in Newest.output_origin..Newest.tail - 1
          BY <3>1, <3>3, <4>2, <4>3
        <4>6. heard[f] = [epoch  |-> epoch.generation,
                          source |-> (epoch.source_origin
                                          + (f - epoch.output_origin))
                                         % SourceLength]
          BY <1>3, <4>2, <4>3, <4>4, <4>5 DEF EpochOK, EpochHeard
        <4>7. f \in 0..MaxOutput - 1 /\ f \notin begin..begin + frames - 1
          BY <3>1, <3>3, VoiceAssumption
        <4>8. heard'[f] = heard[f]
          BY <1>4, <4>7 DEF Sounds
        <4>9. QED  BY <4>6, <4>8
      <3>4. QED  BY <3>1, <3>2, <3>3
    <2>3. (EpochHeard(epoch))'
      BY <2>2 DEF EpochHeard
    <2>4. epoch.closure \notin {"LaterEpoch", "WriterQuiescedRelease"}
      BY <1>3
    <2>5. QED  BY <2>1, <2>3, <2>4 DEF EpochOK
  <1>7. HistoryOK' /\ (Newest = epoch)' /\ (exact.epochs # <<>>)'
    BY <1>2, <1>3, <1>4, <1>6, RecordedHistory
  <1>8. HeardOK'
    BY <1>2, <1>3, <1>4, <1>5, RecordedHeard
  <1>9. MappingKept'
    <2>1. (mapping.output_frames)' # 0
      BY <1>5
    <2>2. Newest' = epoch /\ epoch.output_origin \in Nat
      BY <1>7 DEF Epochs
    <2>3. (Newest.tail = Newest.output_origin + mapping.output_frames)'
      BY <1>3, <1>5, <2>2
    <2>4. QED  BY <1>3, <1>5, <1>7, <2>1, <2>2, <2>3 DEF MappingKept
  <1>10. QED
    <2>1. Newest' = epoch
      BY <1>7
    <2>2. Accepts(MappedEpoch(begin, frames, over))
          /\ PublishSpan(MappedSpan(begin, frames))
      BY StretchRecorded
    <2>3. QED  BY <1>3, <1>4, <1>7, <1>8, <1>9, <2>1, <2>2

(* An empty stretch changes nothing.                                       *)
LEMMA EmptyStretch ==
    ASSUME TypeInv, NEW begin \in Nat, NEW over \in BOOLEAN,
           Stretch(begin, 0, over)
    PROVE  UNCHANGED <<timelineVars, mapping, heard>>
  <1>1. UNCHANGED <<timelineVars, mapping>>
    BY Zenon DEF Stretch, PublishNothing
  <1>2. heard' = [f \in DOMAIN heard |-> heard[f]]
    BY DEF Stretch, Sounds
  <1>3. QED  BY <1>1, <1>2 DEF TypeInv, VoiceTypeOK

-----------------------------------------------------------------------------
(* Where the voice is between two stretches: while it plays on, what comes *)
(* next begins where its mapping has come to.                              *)
Resumes == playback.phase = "Playing" /\ ~PendingSeek /\ ~ended
Goes(at) == mapping.output_frames # 0 /\ Ready(at)

Steady ==
    /\ render.at = "idle" /\ node /\ Resumes => Goes(output_frame)
    /\ render.at = "capture" /\ Resumes => Goes(output_frame)
    /\ render.at = "seek" /\ ~PendingSeek /\ ~ended => Goes(output_frame)
    /\ render.at = "advance" => Goes(output_frame)
    /\ render.at = "applied" =>
           mapping.output_frames = 0 /\ cursor = mapping.source_start
    /\ render.at = "mix" => Ready(render.begin)
    /\ render.at = "finish" /\ node /\ Resumes =>
           Goes(render.begin + PeriodFrames)

Truth == HistoryOK /\ HeardOK /\ MappingKept /\ Steady

LEMMA InitTruth == Init => Truth
  <1> SUFFICES ASSUME Init PROVE Truth
    OBVIOUS
  <1> USE DEF Init, VoiceInit, TimelineInit, Idle
  <1>1. HistoryOK
    BY TimelineAssumption DEF HistoryOK
  <1>2. HeardOK
    BY DEF HeardOK
  <1>3. MappingKept
    BY DEF MappingKept
  <1>4. Steady
    BY DEF Steady
  <1>5. QED  BY <1>1, <1>2, <1>3, <1>4 DEF Truth

(* The calls of the game.                                                  *)
LEMMA CloseHistory ==
    ASSUME TypeInv, HistoryOK, HeardOK, MappingKept, Released
    PROVE  HistoryOK' /\ HeardOK' /\ MappingKept'
  <1>1. /\ UNCHANGED <<mapping, heard, render, output_frame>>
        /\ game'.at = "released" /\ CloseExactWriter
    <2>1. CloseExactWriter /\ game'.at = "released"
      BY DEF Released
    <2>2. GameCall
      BY Zenon DEF GameCall
    <2>3. QED  BY <2>1, <2>2, GameCallKeeps DEF timelessVars
  <1>2. Edge' = Edge /\ Edge \in Int /\ mapping.epoch \in Int
    BY <1>1, EdgeRange DEF Edge, TypeInv, VoiceTypeOK
  <1>3. CASE exact' = exact
    <2>1. HistoryOK' /\ HeardOK'
      BY <1>1, <1>2, <1>3, HistoryStays
    <2>2. QED  BY <1>1, <1>3, <2>1 DEF MappingKept, Newest
  <1>4. CASE exact' # exact
    <2> DEFINE kept == exact.epochs
               count == Len(kept)
               last == IF Newest.closure = "none"
                       THEN Closed(Newest, "WriterQuiescedRelease",
                                   SourceTail(Newest))
                       ELSE Newest
    <2>1. /\ kept # <<>> /\ kept \in Seq(Epochs) /\ count \in 1..count
          /\ DOMAIN kept = 1..count /\ Newest \in Epochs
          /\ Newest = kept[count] /\ EpochOK(Newest)
      BY <1>1, <1>4, KeptTypes DEF CloseExactWriter, HistoryOK
    <2>2. /\ last \in Epochs /\ SameEpoch(last, Newest)
          /\ last.origin = Newest.origin
          /\ \/ last.closure = "WriterQuiescedRelease"
                /\ last.closed_tail = SourceTail(last)
             \/ last = Newest /\ Newest.closure \in
                                     {"NaturalEnd", "WriterQuiescedRelease"}
      <3>1. CASE Newest.closure = "none"
        <4>1. last = [Newest EXCEPT !.closure = "WriterQuiescedRelease",
                                    !.closed_tail = SourceTail(Newest)]
          BY <3>1 DEF Closed
        <4>2. last \in Epochs
          BY <2>1, <3>1, SourceTailType DEF Closures
        <4> HIDE DEF last
        <4>3. /\ SameEpoch(last, Newest) /\ last.origin = Newest.origin
              /\ last.closure = "WriterQuiescedRelease"
              /\ last.closed_tail = SourceTail(Newest)
          BY <2>1, <4>1 DEF Epochs, SameEpoch
        <4>4. SourceTail(last) = SourceTail(Newest)
          BY <4>3 DEF SameEpoch, SourceTail
        <4>5. QED  BY <4>2, <4>3, <4>4
      <3>2. CASE Newest.closure # "none"
        BY <2>1, <3>2 DEF HistoryOK, SameEpoch
      <3>3. QED  BY <3>1, <3>2
    <2>3. exact' = [exact EXCEPT !.requested = Newest.generation,
                                 !.epochs = [kept EXCEPT ![count] = last]]
      BY <1>1, <2>1 DEF CloseExactWriter
    <2> HIDE DEF last
    <2>4. /\ exact'.epochs = [kept EXCEPT ![count] = last]
          /\ exact'.evicted = exact.evicted
          /\ exact'.discontinuous = exact.discontinuous
      BY <2>3 DEF TypeInv, TimelineTypeOK
    <2>5. /\ exact'.epochs \in Seq(Epochs) /\ Len(exact'.epochs) = count
          /\ DOMAIN exact'.epochs = 1..count /\ exact'.epochs # <<>>
          /\ exact'.epochs[count] = last /\ Newest' = last
          /\ \A i \in 1..count : i # count => exact'.epochs[i] = kept[i]
          /\ \A i \in 1..count : SameEpoch(exact'.epochs[i], kept[i])
      BY <2>1, <2>2, <2>4 DEF Newest, SameEpoch
    <2>6. ASSUME NEW i \in 1..count
          PROVE  (EpochOK(exact.epochs[i]))'
      <3>1. EpochOK(kept[i]) /\ SameEpoch(exact'.epochs[i], kept[i])
        BY <2>1, <2>5 DEF HistoryOK
      <3>2. exact'.epochs[i].closure \in {"LaterEpoch", "WriterQuiescedRelease"}
                => exact'.epochs[i].closed_tail = SourceTail(exact'.epochs[i])
        BY <2>1, <2>2, <2>5, <3>1 DEF EpochOK
      <3>3. QED
        BY <1>1, <1>2, <3>1, <3>2
        DEF EpochOK, EpochHeard, SameEpoch, SourceTail
    <2>7. HistoryOK'
      <3>1. (\A i \in DOMAIN exact.epochs : EpochOK(exact.epochs[i]))'
        BY <2>5, <2>6
      <3>2. (\A i, j \in DOMAIN exact.epochs :
                 i < j => Ordered(exact.epochs[i], exact.epochs[j]))'
        <4>1. SUFFICES ASSUME NEW i \in 1..count, NEW j \in 1..count, i < j
                       PROVE  Ordered(exact'.epochs[i], exact'.epochs[j])
          BY <2>5 DEF Ordered
        <4>2. i # count /\ Ordered(kept[i], kept[j])
          BY <2>1, <4>1 DEF HistoryOK
        <4>3. QED  BY <2>5, <4>2 DEF Ordered, SameEpoch
      <3>3. (exact.epochs # <<>> =>
                 \/ Newest.closure \in {"none", "NaturalEnd"}
                 \/ game.at = "released"
                    /\ Newest.closure = "WriterQuiescedRelease")'
        BY <1>1, <2>2, <2>5
      <3>4. (~exact.discontinuous)'
            /\ (Len(exact.epochs) <= kExactPlaybackEpochCapacity)'
        BY <2>4, <2>5 DEF HistoryOK
      <3>5. QED  BY <3>1, <3>2, <3>3, <3>4, Zenon DEF HistoryOK
    <2>8. HeardOK'
      <3>1. SUFFICES ASSUME NEW f \in DOMAIN heard, heard[f] # Silent
                     PROVE  f < Edge /\ heard[f].epoch <= mapping.epoch
                            /\ Remembered(f)'
        BY <1>1, <1>2 DEF HeardOK
      <3>2. f < Edge /\ heard[f].epoch <= mapping.epoch /\ Remembered(f)
        BY <3>1 DEF HeardOK
      <3>3. 1 \in 1..count
        BY <2>1
      <3>4. QED
        BY <2>1, <2>4, <2>5, <3>2, <3>3 DEF Remembered, SameEpoch
    <2>9. MappingKept'
      BY <1>1, <2>1, <2>2, <2>5 DEF MappingKept, SameEpoch
    <2>10. QED  BY <2>7, <2>8, <2>9
  <1>5. QED  BY <1>3, <1>4

LEMMA GameTruth ==
    ASSUME VoiceInv, Truth, GameCall
    PROVE  Truth'
  <1> USE DEF VoiceInv, Truth
  <1>1. /\ UNCHANGED <<playback, seek_mailbox, applied_seek_sequence, cursor,
                       ended, mapping, output_frame, render, heard>>
        /\ node' => node
    <2>1. node' => node
      BY Zenon DEF GameCall, Play, StartPlay, SetCurrentPosition, StartSeek,
         ControlAccepted, BeginQuery, ReadAudibleUntil, ReadClock, SearchSpan,
         Return, StopVoice, StartStop, Stopped, Release, Released, voiceVars,
         stateVars
    <2>2. QED  BY <2>1, GameCallKeeps DEF timelessVars
  <1>2. (PendingSeek)' = PendingSeek /\ (Resumes)' = Resumes
    BY <1>1, Zenon DEF PendingSeek, Resumes
  <1>3. CASE Released
    <2>1. HistoryOK' /\ HeardOK' /\ MappingKept'
      BY <1>3, CloseHistory
    <2>2. render.at \in {"idle", "finish"} /\ playback.phase = "Stopped"
      BY <1>3 DEF Released, Detached, Called
    <2>3. Steady'
      BY <1>1, <2>2 DEF Steady, Resumes
    <2>4. QED  BY <2>1, <2>3
  <1>4. CASE ~Released
    <2>1. exact'.epochs = exact.epochs /\ exact'.evicted = exact.evicted
          /\ exact'.discontinuous = exact.discontinuous
      <3>1. CASE ControlAccepted
        BY <3>1 DEF ControlAccepted, Expect, TypeInv, TimelineTypeOK
      <3>2. CASE ~ControlAccepted
        BY <1>4, <3>2, Zenon DEF GameCall, Play, SetCurrentPosition, BeginQuery,
           ReadAudibleUntil, ReadClock, SearchSpan, Return, StopVoice, Stopped,
           Release, timelineVars
      <3>3. QED  BY <3>1, <3>2
    <2>2. game.at # "released"
      BY <1>4 DEF GameCall, Play, SetCurrentPosition, ControlAccepted, BeginQuery,
         ReadAudibleUntil, ReadClock, SearchSpan, Return, StopVoice, Stopped,
         Release, Returned
    <2>3. Edge' = Edge /\ Edge \in Int /\ mapping.epoch \in Int
      BY <1>1, EdgeRange DEF Edge, TypeInv, VoiceTypeOK
    <2>4. HistoryOK' /\ HeardOK'
      BY <1>1, <2>1, <2>2, <2>3, HistoryStays
    <2>5. MappingKept'
      BY <1>1, <2>1 DEF MappingKept, Newest
    <2>6. Steady'
      BY <1>1, <1>2, <2>1 DEF Steady, Goes, Ready, Position, Newest
    <2>7. QED  BY <2>4, <2>5, <2>6
  <1>5. QED  BY <1>3, <1>4

(* The control operations: none leaves the voice playing with nothing      *)
(* asked for.                                                              *)
LEMMA ControlPending ==
    ASSUME VoiceInv, Held, VoiceControl
    PROVE  /\ ~Resumes'
           /\ ~(PendingSeek)' => ~PendingSeek
           /\ UNCHANGED <<timelineVars, cursor, ended, mapping, output_frame,
                          render, heard>>
  <1>1. UNCHANGED <<timelineVars, applied_seek_sequence, cursor, ended, mapping,
                    output_frame, render, heard>>
    BY ControlMoves DEF VoiceInv
  <1>2. /\ playback \in [phase : {"Stopped", "Starting", "Playing", "Stopping",
                                  "Ending", "Ended"}, run : Nat]
        /\ playback.phase = "Starting"
               <=> control.at \in {"load", "publish", "published", "commit"}
    BY DEF VoiceInv, CountInv, Shape, PhasesHeld
  <1>3. /\ seek_mailbox \in Requests /\ seek_mailbox.sequence \in Nat
        /\ applied_seek_sequence \in Nat
        /\ applied_seek_sequence <= seek_mailbox.sequence
    BY MailTypes DEF VoiceInv, TypeInv, VoiceTypeOK, Mailed
  <1>4. \/ UNCHANGED seek_mailbox
        \/ seek_mailbox'.sequence = seek_mailbox.sequence + 1
    BY <1>3, ControlMoves DEF VoiceInv, Requests
  <1>5. (PendingSeek)' \/ seek_mailbox' = seek_mailbox
    BY <1>1, <1>3, <1>4 DEF PendingSeek
  <1>6. playback'.phase = "Playing" => (PendingSeek)'
    <2>1. \/ playback'.phase # "Playing"
          \/ UNCHANGED playback /\ playback.phase = "Starting"
          \/ control.at = "commit" /\ UNCHANGED seek_mailbox
          \/ seek_mailbox'.sequence = seek_mailbox.sequence + 1
      BY <1>2, ControlMoves DEF VoiceInv
    <2>2. QED  BY <1>1, <1>2, <1>3, <2>1 DEF Held, PendingSeek
  <1>7. ~(PendingSeek)' => ~PendingSeek
    BY <1>1, <1>5 DEF PendingSeek
  <1>8. QED  BY <1>1, <1>6, <1>7 DEF Resumes

LEMMA ControlTruth ==
    ASSUME VoiceInv, Held, Truth, VoiceControl, UNCHANGED game
    PROVE  Truth'
  <1> USE DEF VoiceInv, Truth
  <1>1. /\ ~Resumes'
        /\ ~(PendingSeek)' => ~PendingSeek
        /\ UNCHANGED <<slots, published_generation, exact, cursor, ended,
                       mapping, output_frame, render, heard>>
    BY ControlPending DEF timelineVars
  <1>2. Edge' = Edge /\ Edge \in Int /\ mapping.epoch \in Int
    BY <1>1, EdgeRange DEF Edge, TypeInv, VoiceTypeOK
  <1>3. HistoryOK' /\ HeardOK'
    BY <1>1, <1>2, HistoryStays
  <1>4. MappingKept'
    BY <1>1 DEF MappingKept, Newest
  <1>5. Steady'
    <2>1. /\ Goes(output_frame) => (Goes(output_frame))'
          /\ Ready(render.begin) => (Ready(render.begin))'
      BY <1>1 DEF Goes, Ready, Position, Newest
    <2>2. /\ render.at = "seek" /\ ~(PendingSeek)' /\ ~ended'
                 => Goes(output_frame)
          /\ render.at = "advance" => Goes(output_frame)
          /\ render.at = "applied" =>
                 mapping.output_frames = 0 /\ cursor = mapping.source_start
          /\ render.at = "mix" => Ready(render.begin)
      BY <1>1, Zenon DEF Steady
    <2>3. render' = render /\ mapping' = mapping /\ cursor' = cursor
      BY <1>1, Zenon
    <2>4. QED
      BY ONLY <1>1, <2>1, <2>2, <2>3 DEF Steady
  <1>6. QED  BY <1>3, <1>4, <1>5

(* The steps of the render thread that neither map nor sound.              *)
LEMMA SilentHistory ==
    ASSUME VoiceInv, HistoryOK, HeardOK, MappingKept,
           SilentStep, UNCHANGED game
    PROVE  HistoryOK' /\ HeardOK' /\ MappingKept'
  <1> USE DEF VoiceInv
  <1>1. Edge' >= Edge /\ Edge \in Nat /\ Edge' \in Nat
        /\ UNCHANGED <<heard, exact>>
    BY SilentShape DEF timelineVars
  <1>2. CASE ApplySeek
    <2>1. /\ render.at = "apply" /\ mapping'.epoch = render.request.epoch
          /\ mapping'.output_frames = 0
      BY <1>2 DEF ApplySeek
    <2>2. /\ mapping.epoch < mapping'.epoch /\ mapping.epoch \in Nat
          /\ mapping'.epoch \in Nat
      BY <2>1, MailTypes DEF Mailed, RequestRead
    <2>3. HistoryOK' /\ HeardOK'
      BY <1>1, <2>2, HistoryStays
    <2>4. ASSUME NEW i \in DOMAIN exact.epochs
          PROVE  exact.epochs[i].generation < mapping'.epoch
      <3>1. exact.epochs[i] \in Epochs /\ exact.epochs[i].generation \in Nat
            /\ exact.epochs # <<>> /\ Newest \in Epochs
            /\ Newest.generation \in Nat
        BY KeptTypes DEF Epochs
      <3>2. CASE mapping.output_frames = 0
        BY <2>2, <3>1, <3>2 DEF MappingKept
      <3>3. CASE mapping.output_frames # 0
        <4>1. Newest.generation = mapping.epoch
          BY <3>3 DEF MappingKept
        <4>2. exact.epochs[i].generation <= Newest.generation
          <5>1. /\ Newest = exact.epochs[Len(exact.epochs)]
                /\ Len(exact.epochs) \in DOMAIN exact.epochs
                /\ DOMAIN exact.epochs = 1..Len(exact.epochs)
                /\ Len(exact.epochs) \in Nat
            BY <3>1, KeptTypes
          <5>2. CASE i = Len(exact.epochs)
            BY <3>1, <5>1, <5>2
          <5>3. CASE i < Len(exact.epochs)
            BY <3>1, <5>1, <5>3 DEF HistoryOK, Ordered
          <5>4. QED  BY <5>1, <5>2, <5>3
        <4>3. QED  BY <2>2, <3>1, <4>1, <4>2
      <3>4. QED  BY <3>2, <3>3
    <2>5. QED  BY <1>1, <2>1, <2>3, <2>4 DEF MappingKept
  <1>3. CASE ~ApplySeek
    <2>1. UNCHANGED mapping
      BY <1>3, Zenon DEF SilentStep, CapturePlayingRun, ReadStableSeek,
         SeekApplied, BeginEnd, PublishDrain, VoiceEnded, CompleteEnd, cursorVars
    <2>2. mapping.epoch \in Int
      BY DEF TypeInv, VoiceTypeOK
    <2>3. HistoryOK' /\ HeardOK'
      BY <1>1, <2>1, <2>2, HistoryStays
    <2>4. QED  BY <1>1, <2>1, <2>3 DEF MappingKept, Newest
  <1>4. QED  BY <1>2, <1>3

LEMMA SilentSteady ==
    ASSUME VoiceInv, Held, Truth, SilentStep
    PROVE  Steady'
  <1> USE DEF VoiceInv, Truth
  <1>1. /\ render.at # "idle" /\ render' \in Periods
        /\ render'.begin = render.begin /\ render'.gap = render.gap
        /\ UNCHANGED <<output_frame, exact, control, seek_mailbox>>
    BY SilentShape DEF timelineVars, sharedVars
  <1>2. /\ render.begin = output_frame + render.gap /\ output_frame \in Nat
        /\ render.gap \in Nat /\ render.request \in Requests
    BY <1>1, PeriodShape
  <1>3. playback \in [phase : {"Stopped", "Starting", "Playing", "Stopping",
                               "Ending", "Ended"}, run : Nat]
    BY DEF CountInv, Shape
  <1> USE DEF Steady, Resumes
  <1>4. CASE CapturePlayingRun
    <2>1. /\ render.at = "capture"
          /\ UNCHANGED <<playback, applied_seek_sequence, ended, cursor, mapping>>
          /\ playback.phase = "Playing" => render'.at = "seek"
          /\ playback.phase # "Playing" => render'.at = "finish"
      <3>1. UNCHANGED <<playback, applied_seek_sequence, ended, cursor, mapping>>
            /\ render.at = "capture"
        BY <1>4, Zenon DEF CapturePlayingRun, stateVars, cursorVars
      <3>2. CASE playback.phase = "Playing"
        BY <1>4, <3>1, <3>2, <1>1, PeriodShape DEF CapturePlayingRun, Periods
      <3>3. CASE playback.phase # "Playing"
        BY <1>4, <3>1, <3>3, <1>1, MovedShape DEF CapturePlayingRun, Stages
      <3>4. QED  BY <3>1, <3>2, <3>3
    <2>2. PendingSeek' = PendingSeek
      BY <1>1, <2>1 DEF PendingSeek
    <2>3. QED
      BY <1>1, <2>1, <2>2 DEF Goes, Ready, Position, Newest
  <1>5. CASE ReadStableSeek
    <2>1. /\ render.at = "seek"
          /\ UNCHANGED <<playback, applied_seek_sequence, ended, cursor, mapping>>
      BY <1>5, Zenon DEF ReadStableSeek, stateVars, cursorVars
    <2>2. PendingSeek' = PendingSeek
      BY <1>1, <2>1 DEF PendingSeek
    <2>3. CASE seek_mailbox.sequence % 2 = 1
      <3>1. render'.at = "finish"
        BY <1>1, <1>5, <2>3, MovedShape DEF ReadStableSeek, Stages
      <3>2. PendingSeek
        BY <2>1, <2>3 DEF Mailed, MappedSequence, PendingSeek
      <3>3. QED  BY <2>2, <3>1, <3>2
    <2>4. CASE seek_mailbox.sequence % 2 # 1
      <3>1. render'.at = AfterSeek
        BY <1>1, <1>5, <2>4, PeriodShape DEF ReadStableSeek, Periods
      <3>2. CASE PendingSeek
        BY <3>1, <3>2 DEF AfterSeek
      <3>3. CASE ~PendingSeek /\ ended
        BY <2>1, <2>2, <3>1, <3>3 DEF AfterSeek
      <3>4. CASE ~PendingSeek /\ ~ended
        <4>1. Goes(output_frame)
          BY <2>1, <3>4
        <4>2. (Goes(output_frame))'
          BY <1>1, <2>1, <4>1 DEF Goes, Ready, Position, Newest
        <4>3. render'.at = IF render.gap # 0 THEN "advance" ELSE "mix"
          BY <3>1, <3>4 DEF AfterSeek
        <4>4. CASE render.gap # 0
          BY <4>2, <4>3, <4>4
        <4>5. CASE render.gap = 0
          <5>1. render'.begin = output_frame' /\ render'.at = "mix"
            BY <1>1, <1>2, <4>3, <4>5
          <5>2. Ready(render.begin)'
            BY <4>2, <5>1 DEF Goes, Ready
          <5>3. QED  BY <5>1, <5>2
        <4>6. QED  BY <4>4, <4>5
      <3>5. QED  BY <3>2, <3>3, <3>4
    <2>5. QED  BY <2>3, <2>4
  <1>6. CASE ApplySeek
    BY <1>1, <1>6, MovedShape DEF ApplySeek, Stages
  <1>7. CASE SeekApplied
    <2>1. /\ render.at = "applied" /\ render'.at = "mix"
          /\ UNCHANGED <<cursor, mapping>>
      BY <1>1, <1>7, MovedShape DEF SeekApplied, Stages
    <2>2. /\ mapping.output_frames = 0 /\ cursor = mapping.source_start
          /\ mapping.source_start \in SourceOffsets
      BY <2>1 DEF TypeInv, VoiceTypeOK
    <2>3. Position = mapping.source_start /\ mapping.source_start \in Int
      BY <2>2 DEF Position, SourceOffsets
    <2>4. Position % SourceLength = cursor
      <3>1. SourceLength \in Nat \ {0}
        BY VoiceAssumption
      <3>2. mapping.source_start % SourceLength = mapping.source_start
        BY <2>2, <3>1, ModSmall DEF SourceOffsets
      <3>3. QED  BY <2>2, <2>3, <3>2
    <2>5. Ready(render.begin)'
      BY <2>1, <2>2, <2>4 DEF Ready, Position
    <2>6. QED  BY <2>1, <2>5
  <1>8. CASE BeginEnd
    <2>1. render.at = "end" /\ UNCHANGED <<applied_seek_sequence, ended>>
          /\ render'.at \in {"drain", "finish"}
      BY <1>1, <1>8, MovedShape, Zenon DEF BeginEnd, cursorVars, Stages
    <2>2. render'.at = "finish" => playback'.phase # "Playing"
      <3>1. SUFFICES ASSUME render'.at = "finish" PROVE playback'.phase # "Playing"
        OBVIOUS
      <3>2. UNCHANGED playback
            /\ playback # [phase |-> "Playing", run |-> render.run]
        BY <1>1, <1>8, <3>1, MovedShape DEF BeginEnd, Stages
      <3>3. playback.run = render.run \/ playback.phase = "Starting"
        BY <2>1 DEF Held, CountInv, PhasesHeld
      <3>4. QED  BY <1>3, <3>2, <3>3
    <2>3. QED  BY <2>1, <2>2
  <1>9. CASE PublishDrain \/ VoiceEnded
    <2>1. render'.at \in {"stop_node", "complete"}
      BY <1>1, <1>9, MovedShape DEF PublishDrain, VoiceEnded, Stages
    <2>2. QED  BY <2>1
  <1>10. CASE CompleteEnd
    <2>1. render'.at = "finish" /\ playback'.phase = "Ended"
      BY <1>1, <1>3, <1>10, MovedShape DEF CompleteEnd, Phase, Stages
    <2>2. QED  BY <2>1
  <1>11. QED
    BY <1>4, <1>5, <1>6, <1>7, <1>8, <1>9, <1>10 DEF SilentStep

LEMMA TruthKept ==
    ASSUME TypeInv, Truth, UNCHANGED <<voiceVars, timelineVars>>, UNCHANGED game
    PROVE  Truth'
  <1>1. /\ UNCHANGED <<playback, node, seek_mailbox, applied_seek_sequence,
                       cursor, ended, mapping, heard, exact, render, output_frame>>
    BY Zenon DEF voiceVars, stateVars, sharedVars, cursorVars, renderVars,
       timelineVars
  <1>2. (Resumes)' = Resumes /\ (PendingSeek)' = PendingSeek
    BY <1>1, Zenon DEF Resumes, PendingSeek
  <1>3. Edge' = Edge /\ Edge \in Int /\ mapping.epoch \in Int
    BY <1>1, EdgeRange DEF Edge, TypeInv, VoiceTypeOK
  <1>4. HistoryOK' /\ HeardOK'
    BY <1>1, <1>3, HistoryStays DEF Truth
  <1>5. MappingKept'
    BY <1>1 DEF Truth, MappingKept, Newest
  <1>6. Steady'
    BY <1>1, <1>2 DEF Truth, Steady, Goes, Ready, Position, Newest
  <1>7. QED  BY <1>4, <1>5, <1>6 DEF Truth

LEMMA PeriodTruth ==
    ASSUME VoiceInv, Truth, BeginPeriod \/ PeriodRendered, UNCHANGED game,
           TypeInv'
    PROVE  Truth' /\ Edge <= Edge' /\ Edge' \in Int
  <1> USE DEF VoiceInv, Truth
  <1>1. /\ UNCHANGED <<playback, node, seek_mailbox, applied_seek_sequence,
                       cursor, ended, mapping, heard, exact>>
    BY Zenon DEF BeginPeriod, PeriodRendered, stateVars, sharedVars, cursorVars,
       timelineVars
  <1>2. (Resumes)' = Resumes
    BY <1>1, Zenon DEF Resumes, PendingSeek
  <1>3. Edge <= Edge' /\ Edge' \in Int /\ mapping.epoch \in Int
    <2>1. Edge \in Int /\ Edge' \in Int /\ mapping.epoch \in Int
      <3>1. Edge \in 0..MaxOutput
        BY EdgeRange
      <3>2. (Edge \in 0..MaxOutput)'
        BY EdgeRange, PTL
      <3>3. QED  BY <3>1, <3>2 DEF TypeInv, VoiceTypeOK
    <2>2. CASE BeginPeriod
      <3>1. PICK gap \in Discontinuities :
                render' = [at |-> IF node THEN "capture" ELSE "finish",
                           begin |-> output_frame + gap, gap |-> gap,
                           run |-> 0, request |-> seek_mailbox, until |-> 0]
        BY <2>2 DEF BeginPeriod
      <3>2. gap \in Nat /\ output_frame \in Nat /\ render.at = "idle"
            /\ output_frame' = output_frame
        BY <2>2, VoiceAssumption DEF BeginPeriod, TypeInv, Placed
      <3>3. Edge = output_frame
        BY <3>2 DEF Edge
      <3>4. Edge' = output_frame \/ Edge' = output_frame + gap + PeriodFrames
        BY <3>1, <3>2 DEF Edge
      <3>5. QED  BY <2>1, <3>2, <3>3, <3>4, VoiceAssumption
    <2>3. CASE PeriodRendered
      <3>1. Edge = render.begin + PeriodFrames /\ Edge' = output_frame'
            /\ output_frame' = render.begin + PeriodFrames
        BY <2>3 DEF PeriodRendered, Edge, Idle
      <3>2. QED  BY <2>1, <3>1
    <2>4. QED  BY <2>2, <2>3
  <1>4. HistoryOK' /\ HeardOK'
    BY <1>1, <1>3, HistoryStays
  <1>5. MappingKept'
    BY <1>1 DEF MappingKept, Newest
  <1>6. Steady'
    <2>1. CASE BeginPeriod
      <3>1. /\ render.at = "idle" /\ output_frame' = output_frame
            /\ render'.at = IF node THEN "capture" ELSE "finish"
        BY <2>1 DEF BeginPeriod
      <3>2. Goes(output_frame) => (Goes(output_frame))'
        BY <1>1, <3>1 DEF Goes, Ready, Position, Newest
      <3>3. CASE node
        BY <1>2, <3>1, <3>2, <3>3 DEF Steady
      <3>4. CASE ~node
        BY <1>1, <3>1, <3>4 DEF Steady
      <3>5. QED  BY <3>3, <3>4
    <2>2. CASE PeriodRendered
      <3>1. /\ render.at = "finish" /\ render'.at = "idle"
            /\ output_frame' = render.begin + PeriodFrames
        BY <2>2 DEF PeriodRendered, Idle
      <3>2. Goes(render.begin + PeriodFrames) => (Goes(output_frame))'
        BY <1>1, <3>1 DEF Goes, Ready, Position, Newest
      <3>3. (node)' = node
        BY <1>1, Zenon
      <3>4. QED
        BY <1>2, <3>1, <3>2, <3>3 DEF Steady
    <2>3. QED  BY <2>1, <2>2
  <1>7. QED  BY <1>3, <1>4, <1>5, <1>6

(* The two stretches leave the voice where its mapping has come to, unless *)
(* the source has ended.                                                   *)
LEMMA AdvanceTruth ==
    ASSUME VoiceInv, Truth, AdvanceVoiceAcrossDiscontinuity, UNCHANGED game,
           UNCHANGED bufferVars
    PROVE  /\ Truth'
           /\ IF AdvanceEnds THEN Ends(GapBegin + AdvanceFrames) ELSE To("mix")
           /\ AdvanceFrames # 0 =>
                  PublishSpan(MappedSpan(GapBegin, AdvanceFrames))
           /\ mapping'.epoch = mapping.epoch
           /\ Ready(GapBegin) /\ Edge = GapBegin
           /\ GapBegin + AdvanceFrames <= MaxOutput
           /\ GapBegin + AdvanceFrames <= Edge' /\ Edge' \in Int
  <1> USE DEF VoiceInv, Truth
  <1>1. /\ render.at = "advance" /\ render.at # "idle"
        /\ GapBegin = output_frame /\ GapBegin \in Nat
        /\ AdvanceFrames \in 0..render.gap /\ AdvanceEnds \in BOOLEAN
        /\ Stretch(GapBegin, AdvanceFrames, AdvanceEnds)
        /\ mapping.output_frames <= GapBegin
        /\ game.at # "released"
    BY AdvanceIsStretch DEF Called
  <1>2. /\ TypeInv' /\ render' \in Periods /\ render'.begin = render.begin
    BY AdvanceTypeInv
  <1>3. PICK begin \in Nat, frames \in Nat, over \in BOOLEAN :
            begin = GapBegin /\ frames = AdvanceFrames /\ over = AdvanceEnds
    BY <1>1, PeriodShape
  <1>4. /\ Ready(begin) /\ mapping.output_frames # 0
        /\ Edge = begin /\ begin + frames <= render.begin
        /\ begin + render.gap = render.begin /\ render.begin \in Nat
        /\ render.begin <= MaxOutput /\ render.gap \in Nat
    <2>1. Goes(output_frame) /\ begin = output_frame /\ Edge = begin
      BY <1>1, <1>3 DEF Steady, Edge
    <2>2. /\ render.begin = begin + render.gap /\ render.begin \in Nat
          /\ render.begin + PeriodFrames <= MaxOutput /\ render.gap \in Nat
      BY <1>1, <2>1, PeriodShape
    <2>3. frames <= render.gap
      BY <1>1, <1>3, <2>2
    <2>4. QED  BY <2>1, <2>2, <2>3, VoiceAssumption DEF Goes
  <1>5. Edge' \in Int /\ begin + frames <= Edge' /\ Edge <= Edge'
    <2>1. render'.at \in {"finish", "end", "mix"}
      <3>1. Ends(begin + frames) \/ To("finish") \/ To("mix")
        BY <1>3, Zenon DEF AdvanceVoiceAcrossDiscontinuity, AdvanceFrames
      <3>2. begin + frames \in Nat /\ "finish" \in Stages /\ "mix" \in Stages
        BY DEF Stages
      <3>3. QED  BY <1>1, <3>1, <3>2, MovedShape, EndsShape
    <2>2. Edge' = render.begin \/ Edge' = render.begin + PeriodFrames
      BY <1>2, <2>1 DEF Edge
    <2>3. QED  BY <1>4, <2>2, VoiceAssumption
  <1>6. /\ HistoryOK' /\ HeardOK' /\ MappingKept'
        /\ mapping' = [mapping EXCEPT !.output_frames = @ + frames]
        /\ frames # 0 => Accepts(MappedEpoch(begin, frames, over))
        /\ frames # 0 => PublishSpan(MappedSpan(begin, frames))
        /\ (Newest.tail)' = begin + frames
        /\ ~over => (Newest.closure)' = "none"
    <2>1. CASE frames = 0
      <3>1. UNCHANGED <<slots, published_generation, exact, mapping, heard>>
        BY <1>1, <1>3, <2>1, EmptyStretch DEF timelineVars
      <3>2. mapping.epoch \in Int
        BY DEF TypeInv, VoiceTypeOK
      <3>3. HistoryOK' /\ HeardOK'
        BY <1>5, <3>1, <3>2, HistoryStays
      <3>4. MappingKept'
        BY <3>1 DEF MappingKept, Newest
      <3>5. mapping' = [mapping EXCEPT !.output_frames = @ + frames]
        BY <2>1, <3>1 DEF TypeInv, VoiceTypeOK
      <3>6. Newest.tail = begin /\ Newest.closure = "none" /\ Newest' = Newest
        BY <1>4, <3>1 DEF Ready, Newest
      <3>7. QED  BY <2>1, <3>3, <3>4, <3>5, <3>6
    <2>2. CASE frames # 0
      <3>1. frames \in Nat \ {0}
        BY <2>2
      <3>2. Stretch(begin, frames, over) /\ mapping.output_frames <= begin
            /\ begin + frames <= MaxOutput /\ Edge <= begin
        <4>1. Stretch(begin, frames, over) /\ mapping.output_frames <= begin
          BY <1>1, <1>3, Zenon
        <4>2. begin + frames <= MaxOutput /\ Edge <= begin
          BY ONLY <1>3, <1>4, VoiceAssumption
        <4>3. QED  BY <4>1, <4>2
      <3>3. QED
        BY <1>1, <1>4, <1>5, <3>1, <3>2, StretchTrue
    <2>3. QED  BY <2>1, <2>2
  <1>7. /\ cursor' = MappedPosition(frames)
        /\ IF over THEN Ends(begin + frames) ELSE To("mix")
    <2>1. ~(frames # 0 /\ ~Accepts(MappedEpoch(begin, frames, over)))
      BY <1>6
    <2>2. QED
      BY <1>3, <2>1, Zenon
      DEF AdvanceVoiceAcrossDiscontinuity, AdvanceFrames, AdvanceEnds
  <1>8. Steady'
    <2>1. CASE over
      <3>1. render'.at = "end"
        BY <1>1, <1>7, <2>1, EndsShape
      <3>2. QED  BY <3>1 DEF Steady
    <2>2. CASE ~over
      <3>1. render'.at = "mix"
        BY <1>1, <1>7, <2>2, MovedShape DEF Stages
      <3>2. frames = render.gap /\ (~looping => frames < UntilSourceEnd)
        <4>1. /\ AdvanceFrames = IF looping \/ render.gap <= UntilSourceEnd
                                 THEN render.gap ELSE UntilSourceEnd
              /\ UntilSourceEnd \in Nat
          BY <1>4, StretchRange DEF AdvanceFrames
        <4>2. looping \/ frames # UntilSourceEnd
          BY <1>3, <2>2, Zenon DEF AdvanceEnds
        <4>3. QED  BY <1>3, <1>4, <4>1, <4>2
      <3>3. /\ Position' = Position + frames /\ Position + frames \in Nat
            /\ Position \in Nat
        <4>1. mapping'.source_start = mapping.source_start
              /\ mapping'.output_frames = mapping.output_frames + frames
              /\ mapping.source_start \in Nat /\ mapping.output_frames \in Nat
          BY <1>6 DEF TypeInv, VoiceTypeOK, SourceOffsets
        <4>2. QED  BY <4>1 DEF Position
      <3>4. cursor' \in SourceOffsets /\ cursor' = Position' % SourceLength
        <4>1. SourceLength \in Nat \ {0}
          BY VoiceAssumption
        <4> DEFINE p == Position + frames
        <4>2. p \in Nat /\ Position' = p /\ p = mapping.source_start
                                                   + mapping.output_frames + frames
          BY <3>3 DEF Position
        <4>3. cursor' = IF looping THEN p % SourceLength
                                   ELSE Min({p, SourceLength})
          BY <1>7, <4>2 DEF MappedPosition
        <4>4. ~looping => p < SourceLength
          <5>1. SUFFICES ASSUME ~looping PROVE p < SourceLength
            OBVIOUS
          <5>2. frames < UntilSourceEnd
            BY <3>2, <5>1
          <5>3. mapping.source_start \in Int /\ mapping.output_frames \in Int
            BY DEF TypeInv, VoiceTypeOK, SourceOffsets
          <5>4. UntilSourceEnd = SourceLength - mapping.source_start
                                     - mapping.output_frames
                \/ UntilSourceEnd = 0
            BY StretchRange
          <5>5. QED  BY <4>1, <4>2, <5>2, <5>3, <5>4
        <4> HIDE DEF p
        <4>5. p % SourceLength \in 0..SourceLength - 1
          BY <4>1, <4>2, Division
        <4>6. p < SourceLength => Min({p, SourceLength}) = p
                                      /\ p % SourceLength = p
          BY <4>1, <4>2, MinOfTwo, ModSmall
        <4>7. CASE looping
          BY <4>2, <4>3, <4>5, <4>7 DEF SourceOffsets
        <4>8. CASE ~looping
          BY <4>1, <4>2, <4>3, <4>4, <4>6, <4>8 DEF SourceOffsets
        <4>9. QED  BY <4>7, <4>8
      <3>5. Ready(render.begin)'
        BY <1>2, <1>4, <1>6, <2>2, <3>2, <3>4 DEF Ready
      <3>6. QED  BY <3>1, <3>5 DEF Steady
    <2>3. QED  BY <2>1, <2>2
  <1>9. QED
    <2>1. mapping'.epoch = mapping.epoch
      BY <1>6 DEF TypeInv, VoiceTypeOK
    <2>2. IF AdvanceEnds THEN Ends(GapBegin + AdvanceFrames) ELSE To("mix")
      BY <1>3, <1>7
    <2>3. AdvanceFrames # 0 => PublishSpan(MappedSpan(GapBegin, AdvanceFrames))
      BY <1>3, <1>6
    <2>4. /\ Ready(GapBegin) /\ Edge = GapBegin
          /\ GapBegin + AdvanceFrames <= MaxOutput
          /\ GapBegin + AdvanceFrames <= Edge' /\ Edge' \in Int
      <3>1. begin + frames <= MaxOutput
        BY <1>4, VoiceAssumption
      <3>2. QED  BY <1>3, <1>4, <1>5, <3>1
    <2>5. QED  BY <1>6, <1>8, <2>1, <2>2, <2>3, <2>4

LEMMA MixTruth ==
    ASSUME VoiceInv, Truth, MixPeriod, UNCHANGED game, UNCHANGED bufferVars
    PROVE  /\ Truth'
           /\ MixFrames # 0 /\ PublishSpan(MappedSpan(render.begin, MixFrames))
           /\ IF MixEnds THEN Ends(render.begin + MixFrames) ELSE To("finish")
           /\ mapping'.epoch = mapping.epoch
           /\ Ready(render.begin) /\ Edge = render.begin
           /\ render.begin + MixFrames <= MaxOutput
           /\ render.begin + MixFrames <= Edge' /\ Edge' \in Int
  <1> USE DEF VoiceInv, Truth
  <1>1. /\ render.at = "mix" /\ render.at # "idle" /\ render.begin \in Nat
        /\ MixFrames \in 0..PeriodFrames /\ MixEnds \in BOOLEAN
        /\ Stretch(render.begin, MixFrames, MixEnds)
        /\ mapping.output_frames <= render.begin
        /\ game.at # "released"
    BY MixIsStretch DEF Called
  <1>2. /\ render' \in Periods /\ render'.begin = render.begin
        /\ render'.at \in {"end", "finish"}
    BY MixTypeInv
  <1>3. PICK begin \in Nat, over \in BOOLEAN :
            begin = render.begin /\ over = MixEnds
    BY <1>1
  <1>4. PICK frames \in Nat : frames = MixFrames
    BY <1>1, VoiceAssumption
  <1>5. Ready(begin) /\ Edge = begin
    BY <1>1, <1>3 DEF Steady, Edge
  <1>6. /\ SourceLength \in Nat \ {0} /\ PeriodFrames \in Nat \ {0}
        /\ cursor \in 0..SourceLength - 1 /\ cursor = Position % SourceLength
        /\ frames \in Nat \ {0} /\ frames <= PeriodFrames
        /\ ~over => frames = PeriodFrames
        /\ ~over /\ ~looping => cursor + frames < SourceLength
    <2>1. /\ SourceLength \in Nat \ {0} /\ PeriodFrames \in Nat \ {0}
          /\ cursor \in 0..SourceLength - 1 /\ cursor = Position % SourceLength
      BY <1>5, VoiceAssumption DEF Ready, SourceOffsets
    <2>2. frames = IF looping \/ PeriodFrames <= SourceLength - cursor
                   THEN PeriodFrames ELSE SourceLength - cursor
      BY <1>4, <2>1, StretchRange DEF MixFrames
    <2>3. over <=> ~looping /\ cursor + frames = SourceLength
      BY <1>3, <1>4, Zenon DEF MixEnds
    <2>4. QED
      <3>1. CASE looping
        BY <2>1, <2>2, <2>3, <3>1
      <3>2. CASE ~looping /\ PeriodFrames <= SourceLength - cursor
        BY <2>1, <2>2, <2>3, <3>2
      <3>3. CASE ~looping /\ ~(PeriodFrames <= SourceLength - cursor)
        BY <2>1, <2>2, <2>3, <3>3
      <3>4. QED  BY <3>1, <3>2, <3>3
  <1>7. /\ begin + frames <= MaxOutput /\ Edge' = begin + PeriodFrames
        /\ begin + frames <= Edge' /\ Edge' \in Int
    <2>1. begin + PeriodFrames <= MaxOutput
      BY <1>1, <1>3, PeriodShape
    <2>2. Edge' = begin + PeriodFrames
      BY <1>2, <1>3 DEF Edge
    <2>3. QED  BY <1>6, <2>1, <2>2, VoiceAssumption
  <1>8. /\ HistoryOK' /\ HeardOK' /\ MappingKept'
        /\ Accepts(MappedEpoch(begin, frames, over))
        /\ mapping' = [mapping EXCEPT !.output_frames = @ + frames]
        /\ PublishSpan(MappedSpan(begin, frames))
        /\ (Newest.tail)' = begin + frames
        /\ (Newest.closure)' = IF over THEN "NaturalEnd" ELSE "none"
    <2>1. Stretch(begin, frames, over) /\ mapping.output_frames <= begin
      BY <1>1, <1>3, <1>4, Zenon
    <2>2. Edge <= begin
      BY <1>5
    <2>3. QED
      BY <1>1, <1>5, <1>6, <1>7, <2>1, <2>2, StretchTrue
  <1>9. IF over THEN Ends(begin + frames) ELSE To("finish")
    <2>1. frames # 0 /\ Accepts(MappedEpoch(begin, frames, over))
      BY <1>6, <1>8
    <2>2. QED
      BY <1>3, <1>4, <2>1, Zenon DEF MixPeriod, MixFrames, MixEnds
  <1>10. Steady'
    <2>1. CASE over
      <3>1. render'.at = "end"
        BY <1>1, <1>3, <1>9, <2>1, EndsShape
      <3>2. QED  BY <3>1 DEF Steady
    <2>2. CASE ~over
      <3>1. render'.at = "finish"
        BY <1>1, <1>9, <2>2, MovedShape DEF Stages
      <3>2. /\ Position' = Position + frames /\ Position \in Nat
            /\ mapping'.output_frames # 0
        <4>1. mapping'.source_start = mapping.source_start
              /\ mapping'.output_frames = mapping.output_frames + frames
              /\ mapping.source_start \in Nat /\ mapping.output_frames \in Nat
          BY <1>8 DEF TypeInv, VoiceTypeOK, SourceOffsets
        <4>2. QED  BY <1>6, <4>1 DEF Position
      <3>3. (cursor + frames) % SourceLength = (Position + frames) % SourceLength
        <4>1. ((Position % SourceLength) + frames) % SourceLength
                  = (Position + frames) % SourceLength
          <5>1. Position \in Int /\ frames \in Int /\ SourceLength \in Nat \ {0}
            BY <1>6, <3>2, VoiceAssumption
          <5>2. QED  BY ONLY <5>1, ModSum
        <4>2. QED  BY <1>6, <4>1
      <3>4. cursor' = IF looping THEN (cursor + frames) % SourceLength
                                 ELSE cursor + frames
        BY <1>4, Zenon DEF MixPeriod, MixFrames, Moved
      <3>5. cursor' \in 0..SourceLength - 1
            /\ cursor' = (Position + frames) % SourceLength
        <4>1. cursor + frames \in Int
          BY <1>6
        <4>2. (cursor + frames) % SourceLength \in 0..SourceLength - 1
          BY <1>6, <4>1, Division
        <4>3. CASE looping
          BY <3>3, <3>4, <4>2, <4>3
        <4>4. CASE ~looping
          <5>1. cursor + frames \in 0..SourceLength - 1
            BY <1>6, <2>2, <4>4
          <5>2. (cursor + frames) % SourceLength = cursor + frames
            BY <1>6, <5>1, ModSmall
          <5>3. QED  BY <3>3, <3>4, <4>4, <5>1, <5>2
        <4>5. QED  BY <4>3, <4>4
      <3>6. (Goes(render.begin + PeriodFrames))'
        BY <1>2, <1>3, <1>6, <1>8, <2>2, <3>2, <3>5
        DEF Goes, Ready, SourceOffsets
      <3>7. QED  BY <3>1, <3>6 DEF Steady
    <2>3. QED  BY <2>1, <2>2
  <1>11. QED
    <2>1. mapping'.epoch = mapping.epoch
      BY <1>8 DEF TypeInv, VoiceTypeOK
    <2>2. IF MixEnds THEN Ends(render.begin + MixFrames) ELSE To("finish")
      BY <1>3, <1>4, <1>9
    <2>3. MixFrames # 0 /\ PublishSpan(MappedSpan(render.begin, MixFrames))
      BY <1>3, <1>4, <1>6, <1>8
    <2>4. /\ Ready(render.begin) /\ Edge = render.begin
          /\ render.begin + MixFrames <= MaxOutput
          /\ render.begin + MixFrames <= Edge' /\ Edge' \in Int
      BY <1>3, <1>4, <1>5, <1>7
    <2>5. QED  BY <1>6, <1>8, <1>10, <2>1, <2>2, <2>3, <2>4

LEMMA RenderTruth ==
    ASSUME VoiceInv, Held, Truth, RenderStep, UNCHANGED <<bufferVars, game>>
    PROVE  Truth'
  <1>1. UNCHANGED bufferVars /\ UNCHANGED game
    OBVIOUS
  <1>2. CASE SilentStep
    BY <1>1, <1>2, SilentHistory, SilentSteady DEF Truth
  <1>3. CASE BeginPeriod \/ PeriodRendered
    <2>1. TypeInv'
      BY <1>1, <1>3, PeriodTypeInv DEF VoiceInv
    <2>2. QED  BY <1>1, <1>3, <2>1, PeriodTruth
  <1>4. CASE AdvanceVoiceAcrossDiscontinuity
    BY <1>1, <1>4, AdvanceTruth
  <1>5. CASE MixPeriod
    BY <1>1, <1>5, MixTruth
  <1>6. CASE AcquireForRender
    <2>1. TypeInv
      BY DEF VoiceInv
    <2>2. UNCHANGED voiceVars /\ UNCHANGED timelineVars
      BY <1>6 DEF AcquireForRender
    <2>3. QED  BY <1>1, <2>1, <2>2, TruthKept
  <1>7. QED
    BY <1>2, <1>3, <1>4, <1>5, <1>6 DEF RenderStep, SilentStep

-----------------------------------------------------------------------------
(* No two epochs kept hold the same frame.                                 *)
LEMMA HeldOnce ==
    ASSUME TypeInv, HistoryOK, NEW f \in Nat,
           NEW i \in Holding(f), NEW j \in Holding(f)
    PROVE  i = j
  <1>1. /\ i \in DOMAIN exact.epochs /\ j \in DOMAIN exact.epochs
        /\ f \in exact.epochs[i].output_origin..exact.epochs[i].tail - 1
        /\ f \in exact.epochs[j].output_origin..exact.epochs[j].tail - 1
    BY DEF Holding
  <1>2. /\ exact.epochs[i].output_origin \in Nat /\ exact.epochs[i].tail \in Nat
        /\ exact.epochs[j].output_origin \in Nat /\ exact.epochs[j].tail \in Nat
    BY <1>1, KeptTypes DEF Epochs
  <1>3. i \in Int /\ j \in Int
    BY <1>1, KeptTypes
  <1>4. ~(i < j)
    <2>1. i < j => exact.epochs[i].tail <= exact.epochs[j].output_origin
      BY <1>1 DEF HistoryOK, Ordered
    <2>2. QED  BY <1>1, <1>2, <2>1
  <1>5. ~(j < i)
    <2>1. j < i => exact.epochs[j].tail <= exact.epochs[i].output_origin
      BY <1>1 DEF HistoryOK, Ordered
    <2>2. QED  BY <1>1, <1>2, <2>1
  <1>6. QED  BY <1>3, <1>4, <1>5

LEMMA HistoryConsistent ==
    ASSUME TypeInv, HistoryOK, exact.epochs # <<>>
    PROVE  Consistent
  <1>1. \A i \in DOMAIN exact.epochs : WellFormed(exact.epochs[i])
    BY DEF HistoryOK, EpochOK, WellFormed
  <1>2. ASSUME NEW i \in 2..Len(exact.epochs)
        PROVE  Follows(exact.epochs[i], exact.epochs[i - 1])
    <2>1. i - 1 \in DOMAIN exact.epochs /\ i \in DOMAIN exact.epochs /\ i - 1 < i
      BY KeptTypes
    <2>2. Ordered(exact.epochs[i - 1], exact.epochs[i]) /\ EpochOK(exact.epochs[i - 1])
      BY <2>1 DEF HistoryOK
    <2>3. exact.epochs[i] \in Epochs /\ exact.epochs[i - 1] \in Epochs
      BY <2>1, KeptTypes
    <2>4. QED  BY <2>2, <2>3 DEF Ordered, EpochOK, Follows, Epochs
  <1>3. Newest.closure # "LaterEpoch"
    BY DEF HistoryOK
  <1>4. QED  BY <1>1, <1>2, <1>3 DEF Consistent

LEMMA InvImpliesHistory ==
    ASSUME TypeInv, ~overlapped => Truth
    PROVE  ExactHistoryTruthful
  <1> SUFFICES ASSUME ~overlapped PROVE
          /\ ~exact.discontinuous
          /\ \A f \in DOMAIN heard :
                 LET answer == ResolveExactSourceFrame(f)
                 IN  /\ answer.status # "Discontinuous"
                     /\ answer.status = "Resolved" =>
                            heard[f] = [epoch  |-> answer.generation,
                                        source |-> answer.source % SourceLength]
                     /\ heard[f] # Silent =>
                            answer.status \in {"Resolved", "HistoryLost"}
    BY DEF ExactHistoryTruthful
  <1> USE DEF Truth
  <1>1. ~exact.discontinuous
    BY DEF HistoryOK
  <1>2. SUFFICES ASSUME NEW f \in DOMAIN heard
                 PROVE  /\ ResolveExactSourceFrame(f).status # "Discontinuous"
                        /\ ResolveExactSourceFrame(f).status = "Resolved" =>
                              heard[f] =
                                [epoch  |-> ResolveExactSourceFrame(f).generation,
                                 source |-> ResolveExactSourceFrame(f).source
                                                % SourceLength]
                        /\ heard[f] # Silent =>
                              ResolveExactSourceFrame(f).status
                                  \in {"Resolved", "HistoryLost"}
    BY <1>1
  <1>3. f \in Nat
    BY DEF TypeInv, VoiceTypeOK
  <1>4. CASE exact.epochs = <<>>
    <2>1. ResolveExactSourceFrame(f) = Answer("Pending", 0, 0)
      BY <1>4 DEF ResolveExactSourceFrame
    <2>2. heard[f] = Silent
      BY <1>4 DEF HeardOK, Remembered
    <2>3. QED  BY <2>1, <2>2 DEF Answer
  <1>5. CASE exact.epochs # <<>>
    <2>1. Consistent
      BY <1>5, HistoryConsistent
    <2>2. ~\E i, j \in Holding(f) : ExactSource(i, f) # ExactSource(j, f)
      BY <1>3, HeldOnce
    <2>3. CASE Holding(f) # {}
      <3> DEFINE i == Max(Holding(f))
      <3>1. Holding(f) \subseteq 0..Len(exact.epochs)
        BY KeptTypes DEF Holding
      <3>2. Len(exact.epochs) \in Nat
        BY KeptTypes
      <3>3. i \in Holding(f)
        BY <2>3, <3>1, <3>2, MaxIsIn
      <3>4. ResolveExactSourceFrame(f) =
                Answer("Resolved", exact.epochs[i].generation, ExactSource(i, f))
        BY <1>1, <1>5, <2>1, <2>2, <2>3 DEF ResolveExactSourceFrame
      <3> HIDE DEF i
      <3>5. i \in DOMAIN exact.epochs
            /\ f \in exact.epochs[i].output_origin..exact.epochs[i].tail - 1
        BY <3>3 DEF Holding
      <3>6. EpochHeard(exact.epochs[i])
        BY <3>5 DEF HistoryOK, EpochOK
      <3>7. heard[f] = [epoch  |-> exact.epochs[i].generation,
                        source |-> ExactSource(i, f) % SourceLength]
        BY <3>5, <3>6 DEF EpochHeard, ExactSource
      <3>8. QED  BY <3>4, <3>7 DEF Answer
    <2>4. CASE Holding(f) = {}
      <3>1. heard[f] # Silent =>
                exact.evicted /\ f < exact.epochs[1].output_origin
        BY <2>4 DEF HeardOK, Remembered, Holding
      <3>2. CASE f < exact.epochs[1].output_origin
        <4>1. ResolveExactSourceFrame(f) =
                  Answer(IF exact.evicted THEN "HistoryLost"
                                          ELSE "OutsidePlayback", 0, 0)
          BY <1>1, <1>5, <2>1, <2>2, <2>4, <3>2 DEF ResolveExactSourceFrame
        <4>2. QED  BY <3>1, <4>1 DEF Answer
      <3>3. CASE ~(f < exact.epochs[1].output_origin)
        <4>1. \E epoch, source :
                  \/ ResolveExactSourceFrame(f)
                         = Answer("Pending", epoch, source)
                  \/ ResolveExactSourceFrame(f)
                         = Answer("OutsidePlayback", epoch, source)
          BY <1>1, <1>5, <2>1, <2>2, <2>4, <3>3 DEF ResolveExactSourceFrame
        <4>2. QED  BY <3>1, <3>3, <4>1 DEF Answer
      <3>4. QED  BY <3>2, <3>3
    <2>5. QED  BY <2>3, <2>4
  <1>6. QED  BY <1>4, <1>5

LEMMA NextTruth ==
    ASSUME VoiceInv, Held, Truth, [Next]_allVars, ~overlapped'
    PROVE  Held' /\ Truth'
  <1>1. CASE UNCHANGED allVars \/ WriteSamples
    <2>1. UNCHANGED voiceVars /\ UNCHANGED timelineVars /\ UNCHANGED game
      BY <1>1, Zenon DEF allVars, WriteSamples
    <2>2. Held'
      BY <2>1 DEF Held, PendingSeek, voiceVars, stateVars, sharedVars,
         cursorVars, renderVars
    <2>3. TypeInv
      BY DEF VoiceInv
    <2>4. QED  BY <2>1, <2>2, <2>3, TruthKept
  <1>2. CASE GameCall
    BY <1>2, GameHeld, GameTruth
  <1>3. CASE VoiceControl /\ UNCHANGED <<bufferVars, game>>
    BY <1>3, ControlHeld, ControlTruth
  <1>4. CASE RenderStep /\ UNCHANGED <<bufferVars, game>>
    BY <1>4, RenderHeld, RenderTruth
  <1>5. QED  BY <1>1, <1>2, <1>3, <1>4, Zenon DEF Next, GameCall

(* The inductive invariant of the history: a play that has met the render  *)
(* thread inside the voice (overlapped) leaves only the first part.        *)
HistoryInv == VoiceInv /\ (~overlapped => Held /\ Truth)

LEMMA NextHistoryInv == HistoryInv /\ [Next]_allVars => HistoryInv'
  <1>1. SUFFICES ASSUME HistoryInv, [Next]_allVars PROVE HistoryInv'
    OBVIOUS
  <1>2. VoiceInv'
    BY <1>1, NextVoiceInv DEF HistoryInv
  <1>3. ~overlapped' => Held' /\ Truth'
    BY <1>1, OverlappedStays, NextTruth DEF HistoryInv
  <1>4. QED  BY <1>2, <1>3 DEF HistoryInv

(* Until a play has met the render thread inside the voice, the exact      *)
(* history is never broken, and gives for every output frame what is heard *)
(* there (ResolveExactSourceFrame, PublishMappedSpans).                    *)
THEOREM BufferHistoryTruthful == Spec => []ExactHistoryTruthful
  <1>1. Init => HistoryInv
    BY InitVoiceInv, InitHeld, InitTruth DEF HistoryInv
  <1>2. HistoryInv => ExactHistoryTruthful
    BY InvImpliesHistory DEF HistoryInv, VoiceInv
  <1>3. QED  BY <1>1, <1>2, NextHistoryInv, PTL DEF Spec

-----------------------------------------------------------------------------
(* The ring. A slot holds one of the last spans published, in the place of *)
(* its number, and a span says what is heard where it lies.                *)
SpanHeard(span) ==
    \A f \in span.begin..span.end - 1 :
        heard[f] = [epoch |-> span.epoch, source |-> SourceAt(span, f) % SourceLength]

SpanOK(i, slot) ==
    /\ slot.sequence \in Nat /\ slot.sequence < published_generation
    /\ slot.sequence >= published_generation - kRenderSpanCapacity
    /\ SlotOf(slot.sequence) = i
    /\ slot.span.end <= Edge
    /\ SpanHeard(slot.span)

RingOK ==
    \A i \in DOMAIN slots : slots[i].span = NoSpan \/ SpanOK(i, slots[i])

(* What the game has been told of stays: what is heard before the edge and *)
(* the spans of the ring, but for new ones after the edge.                 *)
HeardStays == \A f \in DOMAIN heard : f < Edge => heard'[f] = heard[f]
RingGrows ==
    \A i \in DOMAIN slots : slots'[i] = slots[i] \/ slots'[i].span.begin >= Edge

LEMMA InitRing == Init => RingOK
  BY DEF Init, VoiceInit, TimelineInit, RingOK

LEMMA SlotsType ==
    ASSUME TypeInv, NEW i \in DOMAIN slots
    PROVE  /\ i \in 0..kRenderSpanCapacity - 1
           /\ slots[i].span \in Spans /\ slots[i].sequence \in Int
           /\ DOMAIN slots = 0..kRenderSpanCapacity - 1
           /\ published_generation \in Nat
  BY DEF TypeInv, TimelineTypeOK

(* A span that ends before the edge is as true after a step.               *)
LEMMA SpanStays ==
    ASSUME TypeInv, NEW span \in Spans, SpanHeard(span), span.end <= Edge,
           HeardStays
    PROVE  (SpanHeard(span))'
  <1>1. /\ span.begin \in Nat /\ span.end \in Nat /\ Edge \in 0..MaxOutput
        /\ MaxOutput \in Nat /\ DOMAIN heard = 0..MaxOutput - 1
    BY EdgeRange, VoiceAssumption DEF Spans, TypeInv, VoiceTypeOK
  <1>2. ASSUME NEW f \in span.begin..span.end - 1
        PROVE  heard'[f] = heard[f]
    BY <1>1 DEF HeardStays
  <1>3. QED  BY <1>2 DEF SpanHeard, SourceAt

LEMMA RingStays ==
    ASSUME TypeInv, RingOK, UNCHANGED <<slots, published_generation>>,
           HeardStays, Edge <= Edge', Edge' \in Int
    PROVE  RingOK' /\ RingGrows
  <1>1. Edge \in Int
    BY EdgeRange, VoiceAssumption
  <1>2. ASSUME NEW i \in DOMAIN slots, SpanOK(i, slots[i])
        PROVE  (SpanOK(i, slots[i]))'
    <2>1. PICK slot : slot = slots[i]
      OBVIOUS
    <2>2. slot.span \in Spans /\ slot.span.end \in Nat
      BY <2>1, SlotsType DEF Spans
    <2>3. (SpanHeard(slot.span))'
      BY <1>2, <2>1, <2>2, SpanStays DEF SpanOK
    <2>4. SpanOK(i, slot)'
      BY <1>1, <1>2, <2>1, <2>2, <2>3 DEF SpanOK
    <2>5. slots'[i] = slot
      BY <2>1
    <2>6. QED  BY <2>4, <2>5 DEF SpanOK
  <1>3. QED  BY <1>2 DEF RingOK, RingGrows

LEMMA StretchRing ==
    ASSUME TypeInv, RingOK, NEW begin \in Nat, NEW frames \in Nat \ {0},
           NEW over \in BOOLEAN, Stretch(begin, frames, over),
           begin + frames <= MaxOutput, mapping.output_frames <= begin,
           cursor \in SourceOffsets, cursor = Position % SourceLength,
           Edge <= begin, Edge' \in Int, begin + frames <= Edge',
           PublishSpan(MappedSpan(begin, frames))
    PROVE  RingOK' /\ RingGrows /\ HeardStays
  <1>1. /\ Edge \in 0..MaxOutput /\ MaxOutput \in Nat
        /\ DOMAIN heard = 0..MaxOutput - 1
        /\ kRenderSpanCapacity \in Nat \ {0} /\ published_generation \in Nat
        /\ DOMAIN slots = 0..kRenderSpanCapacity - 1
        /\ mapping.source_start \in Int /\ mapping.output_frames \in Int
    <2>1. Edge \in 0..MaxOutput /\ MaxOutput \in Nat /\ DOMAIN heard = 0..MaxOutput - 1
      BY EdgeRange, VoiceAssumption DEF TypeInv, VoiceTypeOK
    <2>2. /\ kRenderSpanCapacity \in Nat \ {0} /\ published_generation \in Nat
          /\ DOMAIN slots = 0..kRenderSpanCapacity - 1
      BY TimelineAssumption DEF TypeInv, TimelineTypeOK
    <2>3. mapping.source_start \in Int /\ mapping.output_frames \in Int
      BY VoiceAssumption DEF TypeInv, VoiceTypeOK, SourceOffsets
    <2>4. QED  BY <2>1, <2>2, <2>3
  <1>2. HeardStays
    <2>1. ASSUME NEW f \in DOMAIN heard, f < Edge
          PROVE  heard'[f] = heard[f]
      <3>1. f \in 0..MaxOutput - 1 /\ f \notin begin..begin + frames - 1
        BY <1>1, <2>1
      <3>2. QED  BY <1>1, <3>1 DEF Stretch, Sounds
    <2>2. QED  BY <2>1 DEF HeardStays
  <1>3. PICK span : span = MappedSpan(begin, frames)
    OBVIOUS
  <1>4. /\ span.begin = begin /\ span.end = begin + frames
        /\ span.epoch = mapping.epoch
        /\ span.source = mapping.source_start + mapping.output_frames
    BY <1>3 DEF MappedSpan
  <1>5. SpanHeard(span)'
    <2>1. ASSUME NEW f \in begin..begin + frames - 1
          PROVE  heard'[f] = [epoch  |-> span.epoch,
                              source |-> SourceAt(span, f) % SourceLength]
      <3>1. heard'[f] = [epoch  |-> mapping.epoch,
                         source |-> (mapping.source_start
                                        + (f - (begin - mapping.output_frames)))
                                       % SourceLength]
        BY EpochSounds
      <3>2. mapping.source_start + (f - (begin - mapping.output_frames))
                = SourceAt(span, f)
        <4>1. /\ mapping.source_start \in Int /\ mapping.output_frames \in Int
              /\ f \in Int /\ begin \in Int
          BY <1>1
        <4>2. SourceAt(span, f) =
                  mapping.source_start + mapping.output_frames + (f - begin)
          BY <1>4 DEF SourceAt
        <4>3. QED  BY ONLY <4>1, <4>2
      <3>3. QED  BY <1>4, <3>1, <3>2
    <2>2. QED  BY <1>4, <2>1 DEF SpanHeard, SourceAt
  <1>6. PICK at : at = SlotOf(published_generation)
    OBVIOUS
  <1>7. /\ at \in DOMAIN slots
        /\ slots' = [slots EXCEPT ![at] = [sequence |-> published_generation,
                                           span |-> span]]
        /\ published_generation' = published_generation + 1
    <2>1. published_generation % kRenderSpanCapacity \in 0..kRenderSpanCapacity - 1
      <3>1. published_generation \in Int /\ kRenderSpanCapacity \in Nat \ {0}
        BY <1>1
      <3>2. QED  BY ONLY <3>1, Division
    <2>2. QED  BY <1>1, <1>3, <1>6, <2>1 DEF PublishSpan, SlotOf
  <1>8. ASSUME NEW i \in DOMAIN slots
        PROVE  /\ slots'[i].span = NoSpan \/ (SpanOK(i, slots[i]))'
               /\ slots'[i] = slots[i] \/ slots'[i].span.begin >= Edge
    <2>1. CASE i = at
      <3>1. slots'[i] = [sequence |-> published_generation, span |-> span]
        BY <1>7, <2>1
      <3>2. /\ slots'[i].sequence = published_generation
            /\ slots'[i].span = span
        BY <3>1
      <3>3. (SpanOK(i, slots[i]))'
        <4>1. (SpanHeard(slots[i].span))'
          BY <1>5, <3>2 DEF SpanHeard, SourceAt
        <4>2. /\ published_generation < published_generation'
              /\ published_generation >= published_generation' - kRenderSpanCapacity
              /\ span.end <= Edge'
          <5>1. /\ published_generation \in Nat /\ kRenderSpanCapacity \in Nat \ {0}
                /\ published_generation' = published_generation + 1
            BY <1>1, <1>7
          <5>2. /\ published_generation < published_generation'
                /\ published_generation >=
                       published_generation' - kRenderSpanCapacity
            BY ONLY <5>1
          <5>3. QED  BY <1>4, <5>2
        <4>3. SlotOf(published_generation) = i
          BY <1>6, <2>1
        <4>4. QED  BY <1>1, <3>2, <4>1, <4>2, <4>3 DEF SpanOK, SlotOf
      <3>4. QED  BY <1>1, <1>4, <3>2, <3>3
    <2>2. CASE i # at
      <3>1. slots'[i] = slots[i]
        BY <1>7, <2>2
      <3>2. CASE slots[i].span = NoSpan
        BY <3>1, <3>2
      <3>3. CASE SpanOK(i, slots[i])
        <4>1. PICK slot : slot = slots[i]
          OBVIOUS
        <4>2. slot.span \in Spans /\ slot.span.end \in Nat
          BY <4>1, SlotsType DEF Spans
        <4>3. (SpanHeard(slot.span))'
          BY <1>2, <3>3, <4>1, <4>2, SpanStays DEF SpanOK
        <4>4. slot.sequence # published_generation - kRenderSpanCapacity
          <5>1. (published_generation - kRenderSpanCapacity) % kRenderSpanCapacity
                    = published_generation % kRenderSpanCapacity
            <6>1. published_generation \in Int /\ kRenderSpanCapacity \in Nat \ {0}
              BY <1>1
            <6>2. QED  BY ONLY <6>1, ModBack
          <5>2. SlotOf(published_generation - kRenderSpanCapacity) = at
            BY <1>6, <5>1 DEF SlotOf
          <5>3. QED  BY <2>2, <3>3, <4>1, <5>2 DEF SpanOK
        <4>5. /\ slot.sequence \in Nat /\ slot.sequence < published_generation
              /\ slot.sequence >= published_generation - kRenderSpanCapacity
              /\ SlotOf(slot.sequence) = i /\ slot.span.end <= Edge
          BY <3>3, <4>1 DEF SpanOK
        <4>6. /\ slot.sequence < published_generation'
              /\ slot.sequence >= published_generation' - kRenderSpanCapacity
              /\ slot.span.end <= Edge'
          <5>1. begin + frames \in Int /\ Edge \in Int
            BY <1>1
          <5>2. slot.span.end <= Edge'
            BY <1>1, <4>2, <4>5, <5>1
          <5>3. /\ slot.sequence \in Nat /\ published_generation \in Nat
                /\ kRenderSpanCapacity \in Nat
                /\ published_generation' = published_generation + 1
                /\ slot.sequence < published_generation
                /\ slot.sequence >= published_generation - kRenderSpanCapacity
                /\ slot.sequence # published_generation - kRenderSpanCapacity
            BY <1>1, <1>7, <4>4, <4>5
          <5>4. /\ slot.sequence < published_generation'
                /\ slot.sequence >= published_generation' - kRenderSpanCapacity
            BY ONLY <5>3
          <5>5. QED  BY <5>2, <5>4
        <4>7. SpanOK(i, slot)'
          BY <4>3, <4>5, <4>6 DEF SpanOK, SlotOf
        <4>8. slots'[i] = slot
          BY <3>1, <4>1
        <4>9. QED  BY <3>1, <4>7, <4>8 DEF SpanOK
      <3>4. QED  BY <3>2, <3>3 DEF RingOK
    <2>3. QED  BY <2>1, <2>2
  <1>9. DOMAIN slots' = DOMAIN slots
    BY <1>7
  <1>10. QED  BY <1>2, <1>8, <1>9 DEF RingOK, RingGrows

LEMMA RenderRing ==
    ASSUME VoiceInv, Truth, RingOK, RenderStep, UNCHANGED <<bufferVars, game>>
    PROVE  RingOK' /\ RingGrows /\ HeardStays
  <1>1. UNCHANGED bufferVars /\ UNCHANGED game /\ TypeInv
    BY DEF VoiceInv
  <1>2. Edge \in Int
    BY <1>1, EdgeRange, VoiceAssumption
  <1>3. ASSUME UNCHANGED heard, UNCHANGED <<slots, published_generation>>,
               Edge <= Edge', Edge' \in Int
        PROVE  RingOK' /\ RingGrows /\ HeardStays
    <2>1. HeardStays
      BY <1>3 DEF HeardStays
    <2>2. QED  BY <1>1, <1>3, <2>1, RingStays
  <1>4. CASE SilentStep
    <2>1. CountInv
      BY DEF VoiceInv
    <2>2. Edge' >= Edge /\ Edge' \in Nat /\ UNCHANGED heard /\ UNCHANGED timelineVars
      BY <1>1, <1>4, <2>1, SilentShape
    <2>3. QED  BY <1>2, <1>3, <2>2 DEF timelineVars
  <1>5. CASE BeginPeriod \/ PeriodRendered
    <2>1. TypeInv'
      BY <1>1, <1>5, PeriodTypeInv
    <2>2. Edge <= Edge' /\ Edge' \in Int
      BY <1>1, <1>5, <2>1, PeriodTruth
    <2>3. UNCHANGED heard /\ UNCHANGED timelineVars
      BY <1>5, Zenon DEF BeginPeriod, PeriodRendered
    <2>4. QED  BY <1>3, <2>2, <2>3 DEF timelineVars
  <1>6. CASE AcquireForRender
    <2>1. UNCHANGED voiceVars /\ UNCHANGED timelineVars
      BY <1>6 DEF AcquireForRender
    <2>2. UNCHANGED <<heard, output_frame, render>>
      BY <2>1 DEF voiceVars, renderVars
    <2>3. Edge' = Edge
      BY <2>2 DEF Edge
    <2>4. QED  BY <1>2, <1>3, <2>1, <2>2, <2>3 DEF timelineVars
  <1>7. CASE AdvanceVoiceAcrossDiscontinuity
    <2>1. PICK begin \in Nat, frames \in Nat, over \in BOOLEAN :
              /\ begin = GapBegin /\ frames = AdvanceFrames /\ over = AdvanceEnds
              /\ Stretch(begin, frames, over) /\ mapping.output_frames <= begin
      <3>1. render.gap \in Nat
        BY <1>1, <1>7, AdvanceIsStretch, PeriodShape
      <3>2. AdvanceFrames \in Nat
        BY <1>1, <1>7, <3>1, AdvanceIsStretch
      <3>3. QED  BY <1>1, <1>7, <3>2, AdvanceIsStretch
    <2>2. /\ Ready(begin) /\ Edge = begin /\ begin + frames <= MaxOutput
          /\ begin + frames <= Edge' /\ Edge' \in Int
          /\ frames # 0 => PublishSpan(MappedSpan(begin, frames))
      BY <1>1, <1>7, <2>1, AdvanceTruth
    <2>3. CASE frames = 0
      <3>1. UNCHANGED <<timelineVars, mapping, heard>>
        BY <1>1, <2>1, <2>3, EmptyStretch
      <3>2. Edge <= Edge'
        BY <2>2, <2>3
      <3>3. QED  BY <1>3, <2>2, <3>1, <3>2 DEF timelineVars
    <2>4. CASE frames # 0
      <3>1. frames \in Nat \ {0} /\ Edge <= begin
        BY <2>2, <2>4
      <3>2. cursor \in SourceOffsets /\ cursor = Position % SourceLength
        BY <2>2 DEF Ready
      <3>3. QED  BY <1>1, <2>1, <2>2, <2>4, <3>1, <3>2, StretchRing
    <2>5. QED  BY <2>3, <2>4
  <1>8. CASE MixPeriod
    <2>1. PICK begin \in Nat, frames \in Nat \ {0}, over \in BOOLEAN :
              /\ begin = render.begin /\ frames = MixFrames /\ over = MixEnds
              /\ Stretch(begin, frames, over) /\ mapping.output_frames <= begin
      <3>1. MixFrames # 0
        BY <1>1, <1>8, MixTruth
      <3>2. MixFrames \in Nat \ {0}
        BY <1>1, <1>8, <3>1, MixIsStretch, VoiceAssumption
      <3>3. QED  BY <1>1, <1>8, <3>2, MixIsStretch
    <2>2. /\ Ready(begin) /\ Edge = begin /\ begin + frames <= MaxOutput
          /\ begin + frames <= Edge' /\ Edge' \in Int
          /\ PublishSpan(MappedSpan(begin, frames))
      BY <1>1, <1>8, <2>1, MixTruth
    <2>3. cursor \in SourceOffsets /\ cursor = Position % SourceLength
          /\ Edge <= begin
      BY <2>2 DEF Ready
    <2>4. QED  BY <1>1, <2>1, <2>2, <2>3, StretchRing
  <1>9. QED
    BY <1>4, <1>5, <1>6, <1>7, <1>8 DEF RenderStep, SilentStep

(* The steps of the game leave the ring.                                   *)
LEMMA RingKept ==
    ASSUME TypeInv, RingOK,
           UNCHANGED <<slots, published_generation, heard, render, output_frame>>
    PROVE  RingOK' /\ RingGrows /\ HeardStays
  <1>1. Edge' = Edge /\ Edge \in Int
    BY EdgeRange, VoiceAssumption DEF Edge
  <1>2. HeardStays
    BY DEF HeardStays
  <1>3. QED  BY <1>1, <1>2, RingStays
-----------------------------------------------------------------------------
(* The search for a position. What the spans of the ring that have been    *)
(* looked at did not cover, none covers; what it has found is heard.       *)
Uncovered(frame, before) ==
    \A i \in DOMAIN slots :
        Covers(slots[i].span, playback_generation, frame)
            => slots[i].sequence < before

ReportOK ==
    game.at = "report" =>
        /\ game.verdict = "resolved" =>
               heard[game.frame] = [epoch  |-> playback_generation,
                                    source |-> last_reported_source_frame]
        /\ game.verdict \in {"pending", "unmapped"} => ~RingHolds(game.frame)

SearchOK ==
    /\ game.at = "search" =>
           Uncovered(game.search.frame, game.search.published - game.search.offset)
    /\ ReportOK

LEMMA InitSearchOK == Init => SearchOK
  BY DEF Init, Idle, SearchOK, ReportOK

(* A step that leaves the query leaves what it has found.                  *)
LEMMA SearchStays ==
    ASSUME VoiceInv, TypeInv', SearchOK, RingGrows, HeardStays,
           UNCHANGED <<game, playback_generation, last_reported_source_frame>>
    PROVE  SearchOK'
  <1> USE DEF VoiceInv
  <1>1. /\ output_frame \in Nat /\ Edge \in Int /\ output_frame <= Edge
        /\ Edge <= MaxOutput /\ MaxOutput \in Nat
        /\ DOMAIN heard = 0..MaxOutput - 1 /\ DOMAIN slots' = DOMAIN slots
    <2>1. Edge \in 0..MaxOutput /\ MaxOutput \in Nat
      BY EdgeRange, VoiceAssumption
    <2>2. output_frame \in Nat /\ output_frame <= Edge
      <3>1. CASE render.at = "idle"
        BY <3>1 DEF TypeInv, Placed, Edge
      <3>2. CASE render.at # "idle"
        BY <3>2, PeriodShape, VoiceAssumption DEF Edge
      <3>3. QED  BY <3>1, <3>2
    <2>3. DOMAIN heard = 0..MaxOutput - 1 /\ DOMAIN slots = 0..kRenderSpanCapacity - 1
      BY DEF TypeInv, VoiceTypeOK, TimelineTypeOK
    <2>4. DOMAIN slots' = 0..kRenderSpanCapacity - 1
      BY DEF TypeInv, TimelineTypeOK
    <2>5. QED  BY <2>1, <2>2, <2>3, <2>4
  <1>2. ASSUME NEW frame \in 0..output_frame - 1, NEW i \in DOMAIN slots,
               Covers(slots'[i].span, playback_generation, frame)
        PROVE  slots'[i] = slots[i]
    <2>1. slots'[i].span \in Spans
      BY <1>1 DEF TypeInv, TimelineTypeOK
    <2>2. slots'[i].span.begin \in Int /\ slots'[i].span.end \in Int
      BY <2>1 DEF Spans
    <2>3. ~(slots'[i].span.begin >= Edge)
      BY <1>1, <1>2, <2>2 DEF Covers
    <2>4. QED  BY <2>3 DEF RingGrows
  <1>3. ASSUME game.at = "search"
        PROVE  (Uncovered(game.search.frame,
                          game.search.published - game.search.offset))'
    <2>1. game.search.frame \in 0..output_frame - 1
      BY <1>1, <1>3 DEF Searching, Searches
    <2>2. QED  BY <1>1, <1>2, <1>3, <2>1 DEF SearchOK, Uncovered
  <1>4. ASSUME game.at = "report", game.verdict = "resolved"
        PROVE  heard'[game.frame] = heard[game.frame]
    <2>1. game.frame \in 0..output_frame - 1
      BY <1>4 DEF Searching
    <2>2. QED  BY <1>1, <2>1 DEF HeardStays
  <1>5. ASSUME game.at = "report", game.verdict \in {"pending", "unmapped"},
               (RingHolds(game.frame))'
        PROVE  RingHolds(game.frame)
    <2>1. game.frame \in 0..output_frame - 1
      BY <1>5 DEF Searching
    <2>2. PICK i \in DOMAIN slots :
              Covers(slots'[i].span, playback_generation, game.frame)
      BY <1>1, <1>5 DEF RingHolds
    <2>3. QED  BY <1>2, <2>1, <2>2 DEF RingHolds
  <1>6. (ReportOK)'
    BY <1>4, <1>5 DEF SearchOK, ReportOK
  <1>7. QED  BY <1>3, <1>6 DEF SearchOK

LEMMA CoveredSpan ==
    ASSUME TypeInv, RingOK, NEW i \in DOMAIN slots, NEW epoch, NEW frame,
           Covers(slots[i].span, epoch, frame)
    PROVE  SpanOK(i, slots[i])
  <1>1. slots[i].span # NoSpan
    BY DEF Covers, NoSpan
  <1>2. QED  BY <1>1 DEF RingOK

(* A search begins with the newest span published.                         *)
LEMMA SearchBegins ==
    ASSUME TypeInv, RingOK, NEW frame
    PROVE  LET search == Search(playback_generation, frame)
           IN  Uncovered(search.frame, search.published - search.offset)
  <1>1. published_generation \in Nat
    BY DEF TypeInv, TimelineTypeOK
  <1>2. published_generation - 0 = published_generation
    BY <1>1
  <1>3. Uncovered(frame, published_generation)
    BY CoveredSpan DEF Uncovered, SpanOK
  <1>4. QED  BY <1>2, <1>3 DEF Search

(* One slot that does not cover the frame; and one that does.              *)
LEMMA SearchGoesOn ==
    ASSUME TypeInv, RingOK, NEW search \in Searches,
           search.generation = playback_generation,
           Uncovered(search.frame, search.published - search.offset),
           ~Found(search)
    PROVE  Uncovered(NextSlot(search).frame,
                     NextSlot(search).published - NextSlot(search).offset)
  <1> DEFINE count == search.published - search.offset - 1
  <1>1. /\ NextSlot(search).frame = search.frame
        /\ NextSlot(search).published = search.published
        /\ NextSlot(search).offset = search.offset + 1
        /\ search.published \in Nat /\ search.offset \in Nat
    BY DEF NextSlot, Searches
  <1>2. ASSUME NEW i \in DOMAIN slots,
               Covers(slots[i].span, playback_generation, search.frame)
        PROVE  slots[i].sequence < count
    <2>1. SpanOK(i, slots[i])
      BY <1>2, CoveredSpan
    <2>2. slots[i].sequence \in Nat /\ slots[i].sequence < search.published - search.offset
      BY <1>2, <2>1 DEF Uncovered, SpanOK
    <2>3. slots[i].sequence # count
      <3>1. SUFFICES ASSUME slots[i].sequence = count PROVE FALSE
        OBVIOUS
      <3>2. SlotOf(count) = i
        BY <2>1, <3>1 DEF SpanOK
      <3>3. StableSpan(search) = slots[i].span
        BY <3>1, <3>2 DEF StableSpan
      <3>4. QED  BY <1>2, <3>3 DEF Found
    <2>4. count \in Int /\ count + 1 = search.published - search.offset
      BY <1>1
    <2> HIDE DEF count
    <2>5. QED  BY <2>2, <2>3, <2>4
  <1>3. NextSlot(search).published - NextSlot(search).offset = count
    BY <1>1
  <1>4. QED  BY <1>1, <1>2, <1>3 DEF Uncovered

LEMMA SearchFinds ==
    ASSUME TypeInv, RingOK, NEW search \in Searches, Found(search)
    PROVE  heard[search.frame] =
               [epoch  |-> search.generation,
                source |-> SourceAt(StableSpan(search), search.frame)
                               % SourceLength]
  <1> DEFINE i == SlotOf(search.published - search.offset - 1)
             span == StableSpan(search)
  <1>1. span.epoch = search.generation /\ search.frame \in span.begin..span.end - 1
    BY DEF Found, Covers
  <1>2. span = slots[i].span
    BY <1>1 DEF StableSpan, NoSpan
  <1>3. i \in DOMAIN slots
    <2>1. /\ search.published - search.offset - 1 \in Int
          /\ kRenderSpanCapacity \in Nat \ {0}
      BY TimelineAssumption DEF Searches
    <2>2. i \in 0..kRenderSpanCapacity - 1
      BY ONLY <2>1, Division DEF SlotOf
    <2>3. QED  BY <2>2 DEF TypeInv, TimelineTypeOK
  <1> HIDE DEF i, span
  <1>4. SpanOK(i, slots[i])
    BY <1>1, <1>2, <1>3, CoveredSpan DEF Covers
  <1>5. QED  BY <1>1, <1>2, <1>4 DEF SpanOK, SpanHeard, span

LEMMA SearchMisses ==
    ASSUME TypeInv, RingOK, NEW search \in Searches,
           search.generation = playback_generation,
           search.published <= published_generation,
           Uncovered(search.frame, search.published - search.offset),
           Exhausted(search)
    PROVE  ~RingHolds(search.frame)
  <1> SUFFICES ASSUME NEW i \in DOMAIN slots,
                      Covers(slots[i].span, playback_generation, search.frame)
               PROVE  FALSE
    BY DEF RingHolds
  <1>1. /\ slots[i].sequence \in Nat
        /\ slots[i].sequence >= published_generation - kRenderSpanCapacity
    BY CoveredSpan DEF SpanOK
  <1>2. slots[i].sequence < search.published - search.offset
    BY DEF Uncovered
  <1>3. search.published \in Nat /\ search.offset \in Nat
        /\ published_generation \in Nat /\ kRenderSpanCapacity \in Nat
    BY TimelineAssumption DEF Searches, TypeInv, TimelineTypeOK
  <1>4. QED  BY <1>1, <1>2, <1>3 DEF Exhausted

LEMMA GameSearch ==
    ASSUME VoiceInv, RingOK, SearchOK, GameCall
    PROVE  SearchOK'
  <1> USE DEF VoiceInv
  <1>1. UNCHANGED <<slots, heard, published_generation>>
    BY GameCallKeeps DEF timelessVars
  <1>2. CASE \/ Play \/ SetCurrentPosition \/ ControlAccepted \/ Return
             \/ StopVoice \/ Stopped \/ Release \/ Released
    <2>1. game'.at \in {"control", "idle", "stopping", "releasing", "released"}
      BY <1>2 DEF Play, SetCurrentPosition, ControlAccepted, Return, StopVoice,
         Stopped, Release, Released, Idle
    <2>2. QED  BY <2>1 DEF SearchOK, ReportOK
  <1>3. CASE BeginQuery
    BY <1>3 DEF BeginQuery, ReportsOf, SearchOK, ReportOK
  <1>4. CASE ReadAudibleUntil
    BY <1>4 DEF ReadAudibleUntil, Reports, ReportsOf, SearchOK, ReportOK
  <1>5. CASE ReadClock
    <2>1. CASE game'.at = "report" /\ game'.verdict \in {"none", "inactive"}
      BY <2>1 DEF SearchOK, ReportOK
    <2>2. ASSUME NEW frame \in OutputFrames,
                 game' = [at |-> "search", call |-> game.call,
                          search |-> Search(playback_generation, frame)]
          PROVE  SearchOK'
      <3>1. game'.at = "search"
            /\ game'.search = Search(playback_generation, frame)
        BY <2>2
      <3>2. UNCHANGED playback_generation
        BY <1>5 DEF ReadClock
      <3>3. PICK search : search = Search(playback_generation, frame)
        OBVIOUS
      <3>4. Uncovered(search.frame, search.published - search.offset)
        BY <3>3, SearchBegins
      <3>5. Uncovered(search.frame, search.published - search.offset)'
        BY <1>1, <3>2, <3>4 DEF Uncovered
      <3>6. game'.search = search
        BY <3>1, <3>3
      <3>7. QED  BY <3>1, <3>5, <3>6 DEF SearchOK, ReportOK, Uncovered
    <2>3. QED
      BY <1>5, <2>1, <2>2 DEF ReadClock, Reports, ReportsOf
  <1>6. CASE SearchSpan
    <2>1. PICK search \in Searches : search = game.search
      BY <1>6 DEF SearchSpan, Searching
    <2>2. /\ game.at = "search" /\ UNCHANGED playback_generation
          /\ search.generation = playback_generation
          /\ search.published <= published_generation
          /\ Uncovered(search.frame, search.published - search.offset)
          /\ game \in [at : {"search"}, call : {"position", "status"},
                       search : Searches]
      BY <1>6, <2>1 DEF SearchSpan, Searching, SearchOK
    <2>3. CASE Exhausted(search)
      <3>1. game'.at = "report" /\ game'.frame = search.frame
            /\ game'.verdict \in {"pending", "unmapped"}
        BY <1>6, <2>1, <2>3 DEF SearchSpan, Reports, ReportsOf, Miss
      <3>2. ~RingHolds(search.frame)
        BY <2>2, <2>3, SearchMisses
      <3>3. ~(RingHolds(search.frame))'
        BY <1>1, <2>2, <3>2 DEF RingHolds
      <3>4. QED  BY <3>1, <3>3 DEF SearchOK, ReportOK, RingHolds
    <2>4. CASE ~Exhausted(search) /\ Found(search)
      <3>1. /\ game'.at = "report" /\ game'.frame = search.frame
            /\ game'.verdict = "resolved"
            /\ last_reported_source_frame' =
                   SourceAt(StableSpan(search), search.frame) % SourceLength
        BY <1>6, <2>1, <2>4 DEF SearchSpan, Reports, ReportsOf
      <3>2. heard[search.frame] =
                [epoch |-> playback_generation,
                 source |-> SourceAt(StableSpan(search), search.frame)
                                % SourceLength]
        BY <2>2, <2>4, SearchFinds
      <3>3. QED  BY <1>1, <2>2, <3>1, <3>2 DEF SearchOK, ReportOK
    <2>5. CASE ~Exhausted(search) /\ ~Found(search)
      <3>1. game' = [game EXCEPT !.search = NextSlot(search)]
        BY <1>6, <2>1, <2>5 DEF SearchSpan
      <3>2. game'.at = "search" /\ game'.search = NextSlot(search)
        BY <2>2, <3>1
      <3>3. PICK next : next = NextSlot(search)
        OBVIOUS
      <3>4. Uncovered(next.frame, next.published - next.offset)
        BY <2>2, <2>5, <3>3, SearchGoesOn
      <3>5. Uncovered(next.frame, next.published - next.offset)'
        BY <1>1, <2>2, <3>4 DEF Uncovered
      <3>6. QED  BY <3>2, <3>3, <3>5 DEF SearchOK, ReportOK, Uncovered
    <2>6. QED  BY <2>3, <2>4, <2>5
  <1>7. QED  BY <1>2, <1>3, <1>4, <1>5, <1>6 DEF GameCall

-----------------------------------------------------------------------------
(* The end of the source. From the render thread's end of the voice until  *)
(* the game's next play nothing is heard after the end published, which is *)
(* of the run that ended and of the epoch mapped last.                     *)
AllHeardBefore(limit) ==
    limit > 0 /\ \A f \in DOMAIN heard : heard[f] # Silent => f < limit

Drained ==
    /\ AllHeardBefore(audible_drain.end)
    /\ audible_drain.run = playback.run
    /\ audible_drain.epoch = mapping.epoch

DrainOK ==
    /\ render.at \in {"end", "drain"} => AllHeardBefore(render.until)
    /\ render.at \in {"drain", "stop_node", "complete"} =>
           playback.run = render.run
    /\ render.at \in {"stop_node", "complete"} \/ playback.phase = "Ended"
           => Drained

LEMMA InitDrain == Init => DrainOK
  BY DEF Init, VoiceInit, Idle, DrainOK

LEMMA GameDrain ==
    ASSUME DrainOK, GameCall
    PROVE  DrainOK'
  <1>1. UNCHANGED <<playback, render, heard, audible_drain, mapping>>
    BY GameCallKeeps DEF timelessVars
  <1>2. QED  BY <1>1 DEF DrainOK, Drained, AllHeardBefore

LEMMA ControlDrain ==
    ASSUME VoiceInv, DrainOK, VoiceControl
    PROVE  DrainOK'
  <1>1. UNCHANGED <<render, heard, audible_drain, mapping>>
    BY ControlMoves DEF VoiceInv
  <1>2. /\ playback \in [phase : {"Stopped", "Starting", "Playing", "Stopping",
                                  "Ending", "Ended"}, run : Nat]
        /\ playback.phase = "Starting"
               <=> control.at \in {"load", "publish", "published", "commit"}
        /\ playback.phase = "Stopping" <=> control.at = "stopping"
        /\ playback.phase = "Ending"
               <=> render.at \in {"drain", "stop_node", "complete"}
    BY DEF VoiceInv, CountInv, Shape, PhasesHeld
  <1>3. \/ UNCHANGED playback
        \/ /\ render.at \notin {"drain", "stop_node", "complete"}
           /\ playback'.phase # "Ended"
    <2>1. CASE BeginPlay \/ BeginStop
      BY <1>2, <2>1 DEF BeginPlay, BeginStop, Phase
    <2>2. CASE CommitPlay \/ CompleteStop
      BY <1>2, <2>2 DEF CommitPlay, CompleteStop, Phase
    <2>3. CASE \/ LoadFallback \/ PublishForPlay \/ PlayPublished
               \/ PublishSeek \/ SeekPublished
      BY <2>3, Zenon DEF LoadFallback, PublishForPlay, PlayPublished,
         PublishSeek, SeekPublished, stateVars
    <2>4. QED  BY <2>1, <2>2, <2>3 DEF VoiceControl
  <1>4. CASE UNCHANGED playback
    BY <1>1, <1>4 DEF DrainOK, Drained, AllHeardBefore
  <1>5. CASE ~UNCHANGED playback
    BY <1>1, <1>3, <1>5 DEF DrainOK, AllHeardBefore
  <1>6. QED  BY <1>4, <1>5

(* A stretch at the edge is the last that is heard.                        *)
LEMMA StretchLast ==
    ASSUME TypeInv, HeardOK, NEW begin \in Nat, NEW frames \in Nat,
           NEW over \in BOOLEAN, Stretch(begin, frames, over),
           Edge = begin, begin + frames # 0
    PROVE  (AllHeardBefore(begin + frames))'
  <1>1. DOMAIN heard = 0..MaxOutput - 1 /\ MaxOutput \in Nat
    BY VoiceAssumption DEF TypeInv, VoiceTypeOK
  <1>2. heard' = [f \in DOMAIN heard |->
                     IF f \in begin..begin + frames - 1
                     THEN [epoch |-> mapping.epoch,
                           source |-> (cursor + f - begin) % SourceLength]
                     ELSE heard[f]]
    BY DEF Stretch, Sounds
  <1>3. ASSUME NEW f \in DOMAIN heard, heard'[f] # Silent
        PROVE  f < begin + frames
    <2>1. f \in Nat
      BY <1>1
    <2>2. CASE f \in begin..begin + frames - 1
      BY <2>1, <2>2
    <2>3. CASE f \notin begin..begin + frames - 1
      <3>1. heard[f] # Silent
        BY <1>2, <1>3, <2>3
      <3>2. f < begin
        BY <3>1 DEF HeardOK
      <3>3. QED  BY <2>1, <3>2
    <2>4. QED  BY <2>2, <2>3
  <1>4. DOMAIN heard' = DOMAIN heard
    BY <1>2
  <1>5. QED  BY <1>3, <1>4 DEF AllHeardBefore

LEMMA RenderDrain ==
    ASSUME VoiceInv, Held, Truth, DrainOK, RenderStep,
           UNCHANGED <<bufferVars, game>>
    PROVE  DrainOK'
  <1>1. UNCHANGED bufferVars /\ UNCHANGED game /\ TypeInv /\ CountInv
    BY DEF VoiceInv
  <1>2. /\ playback \in [phase : {"Stopped", "Starting", "Playing", "Stopping",
                                  "Ending", "Ended"}, run : Nat]
        /\ playback.phase = "Ending"
               <=> render.at \in {"drain", "stop_node", "complete"}
        /\ playback.phase = "Ended" => render.at \in {"idle", "capture", "finish"}
    BY <1>1 DEF CountInv, Shape, PhasesHeld, Held
  <1>3. CASE \/ BeginPeriod \/ CapturePlayingRun \/ ReadStableSeek \/ SeekApplied
             \/ PeriodRendered
    <2>1. UNCHANGED <<playback, heard, audible_drain, mapping>>
      BY <1>3, Zenon DEF BeginPeriod, CapturePlayingRun, ReadStableSeek,
         SeekApplied, PeriodRendered, stateVars, cursorVars
    <2>2. /\ render.at \notin {"stop_node", "complete"}
          /\ render'.at \notin {"end", "drain", "stop_node", "complete"}
      <3>1. AfterSeek \in {"apply", "finish", "advance", "mix"}
        BY DEF AfterSeek
      <3>2. CASE BeginPeriod \/ PeriodRendered
        BY <3>2 DEF BeginPeriod, PeriodRendered, Idle
      <3>3. CASE CapturePlayingRun
        <4>1. render.at = "capture" /\ render \in Periods /\ "finish" \in Stages
          BY <1>1, <3>3, PeriodShape DEF CapturePlayingRun, Stages
        <4>2. render' = [render EXCEPT !.at = "seek", !.run = playback.run]
                  \/ To("finish")
          BY <3>3, Zenon DEF CapturePlayingRun
        <4>3. render'.at \in {"seek", "finish"}
          BY <1>1, <4>1, <4>2, MovedShape DEF Periods
        <4>4. QED  BY <4>1, <4>3
      <3>4. CASE ReadStableSeek
        <4>1. render.at = "seek" /\ render \in Periods /\ "finish" \in Stages
          BY <1>1, <3>4, PeriodShape DEF ReadStableSeek, Stages
        <4>2. render' = [render EXCEPT !.at = AfterSeek, !.request = seek_mailbox]
                  \/ To("finish")
          BY <3>4, Zenon DEF ReadStableSeek
        <4>3. render'.at \in {AfterSeek, "finish"}
          BY <1>1, <4>1, <4>2, MovedShape DEF Periods
        <4>4. QED  BY <3>1, <4>1, <4>3
      <3>5. CASE SeekApplied
        <4>1. render.at = "applied" /\ "mix" \in Stages /\ To("mix")
          BY <3>5 DEF SeekApplied, Stages
        <4>2. QED  BY <1>1, <4>1, MovedShape
      <3>6. QED  BY <1>3, <3>2, <3>3, <3>4, <3>5
    <2>3. QED  BY <2>1, <2>2 DEF DrainOK, Drained, AllHeardBefore
  <1>4. CASE AcquireForRender
    <2>1. UNCHANGED <<playback, heard, audible_drain, mapping, render>>
      BY <1>4 DEF AcquireForRender, voiceVars, stateVars, cursorVars, renderVars
    <2>2. QED  BY <2>1 DEF DrainOK, Drained, AllHeardBefore
  <1>5. CASE ApplySeek
    <2>1. render.at = "apply" /\ "applied" \in Stages /\ To("applied")
      BY <1>5 DEF ApplySeek, Stages
    <2>2. render'.at = "applied"
      BY <1>1, <2>1, MovedShape
    <2>3. playback' = playback
      BY <1>5 DEF ApplySeek, stateVars
    <2>4. QED  BY <1>2, <2>1, <2>2, <2>3 DEF DrainOK
  <1>6. CASE AdvanceVoiceAcrossDiscontinuity
    <2>1. PICK begin \in Nat, frames \in Nat, over \in BOOLEAN :
              /\ begin = GapBegin /\ frames = AdvanceFrames /\ over = AdvanceEnds
              /\ Stretch(begin, frames, over) /\ mapping.output_frames <= begin
      <3>1. render.gap \in Nat
        BY <1>1, <1>6, AdvanceIsStretch, PeriodShape
      <3>2. AdvanceFrames \in Nat
        BY <1>1, <1>6, <3>1, AdvanceIsStretch
      <3>3. QED  BY <1>1, <1>6, <3>2, AdvanceIsStretch
    <2>2. /\ IF over THEN Ends(begin + frames) ELSE To("mix")
          /\ Edge = begin /\ render.at = "advance" /\ UNCHANGED stateVars
      BY <1>1, <1>6, <2>1, AdvanceIsStretch, AdvanceTruth
    <2>3. begin # 0
      BY <2>1, <2>2 DEF Truth, Steady, Goes, TypeInv, VoiceTypeOK, VoiceInv
    <2>4. begin + frames # 0 /\ begin + frames \in Nat
      BY <2>1, <2>3
    <2>5. (AllHeardBefore(begin + frames))'
      BY <1>1, <2>1, <2>2, <2>4, StretchLast DEF Truth
    <2>6. \/ render'.at = "end" /\ render'.until = begin + frames
          \/ render'.at = "mix"
      <3>1. CASE over
        BY <1>1, <2>2, <2>4, <3>1, EndsShape
      <3>2. CASE ~over
        BY <1>1, <2>2, <3>2, MovedShape DEF Stages
      <3>3. QED  BY <3>1, <3>2
    <2>7. playback'.phase # "Ended"
      BY <1>2, <2>2 DEF stateVars
    <2>8. QED  BY <2>5, <2>6, <2>7 DEF DrainOK, AllHeardBefore
  <1>7. CASE MixPeriod
    <2>1. PICK begin \in Nat, frames \in Nat \ {0}, over \in BOOLEAN :
              /\ begin = render.begin /\ frames = MixFrames /\ over = MixEnds
              /\ Stretch(begin, frames, over)
      <3>1. MixFrames # 0
        BY <1>1, <1>7, MixTruth
      <3>2. MixFrames \in Nat \ {0}
        BY <1>1, <1>7, <3>1, MixIsStretch, VoiceAssumption
      <3>3. QED  BY <1>1, <1>7, <3>2, MixIsStretch
    <2>2. /\ IF over THEN Ends(begin + frames) ELSE To("finish")
          /\ Edge = begin /\ render.at = "mix" /\ UNCHANGED stateVars
      BY <1>1, <1>7, <2>1, MixIsStretch, MixTruth
    <2>3. begin + frames # 0 /\ begin + frames \in Nat
      BY <2>1
    <2>4. (AllHeardBefore(begin + frames))'
      BY <1>1, <2>1, <2>2, <2>3, StretchLast DEF Truth
    <2>5. \/ render'.at = "end" /\ render'.until = begin + frames
          \/ render'.at = "finish"
      <3>1. CASE over
        BY <1>1, <2>2, <2>3, <3>1, EndsShape
      <3>2. CASE ~over
        BY <1>1, <2>2, <3>2, MovedShape DEF Stages
      <3>3. QED  BY <3>1, <3>2
    <2>6. playback'.phase # "Ended"
      BY <1>2, <2>2 DEF stateVars
    <2>7. QED  BY <2>4, <2>5, <2>6 DEF DrainOK, AllHeardBefore
  <1>8. CASE BeginEnd
    <2>1. UNCHANGED <<heard, audible_drain, mapping>> /\ render.at = "end"
      BY <1>8 DEF BeginEnd, cursorVars
    <2>2. CASE playback = [phase |-> "Playing", run |-> render.run]
      <3>1. /\ render'.at = "drain" /\ render'.until = render.until
            /\ render'.run = render.run
            /\ playback'.run = playback.run /\ playback'.phase = "Ending"
        <4>1. To("drain") /\ Phase("Ending") /\ "drain" \in Stages
          BY <1>8, <2>2 DEF BeginEnd, Stages
        <4>2. QED  BY <1>1, <1>2, <2>1, <4>1, MovedShape DEF Phase
      <3>2. QED  BY <2>1, <2>2, <3>1 DEF DrainOK, AllHeardBefore
    <2>3. CASE playback # [phase |-> "Playing", run |-> render.run]
      <3>1. To("finish") /\ UNCHANGED playback /\ "finish" \in Stages
        BY <1>8, <2>3 DEF BeginEnd, Stages
      <3>2. render'.at = "finish"
        BY <1>1, <2>1, <3>1, MovedShape
      <3>3. QED  BY <1>2, <2>1, <3>1, <3>2 DEF DrainOK
    <2>4. QED  BY <2>2, <2>3
  <1>9. CASE PublishDrain
    <2>1. /\ render.at = "drain" /\ UNCHANGED <<heard, mapping, playback>>
          /\ audible_drain' = [end |-> render.until, run |-> render.run,
                               epoch |-> mapping.epoch]
          /\ To("stop_node") /\ "stop_node" \in Stages
      BY <1>9 DEF PublishDrain, stateVars, cursorVars, Stages
    <2>2. render'.at = "stop_node" /\ render'.run = render.run
      BY <1>1, <2>1, MovedShape
    <2>3. QED  BY <2>1, <2>2 DEF DrainOK, Drained, AllHeardBefore
  <1>10. CASE VoiceEnded \/ CompleteEnd
    <2>1. /\ UNCHANGED <<heard, mapping, audible_drain>>
          /\ playback'.run = playback.run
          /\ render.at \in {"stop_node", "complete"}
      BY <1>2, <1>10 DEF VoiceEnded, CompleteEnd, Phase, cursorVars
    <2>2. /\ render'.at \in {"complete", "finish"} /\ render'.run = render.run
      <3>1. /\ To("complete") \/ To("finish")
            /\ "complete" \in Stages /\ "finish" \in Stages
        BY <1>10 DEF VoiceEnded, CompleteEnd, Stages
      <3>2. QED  BY <1>1, <2>1, <3>1, MovedShape
    <2>3. QED  BY <2>1, <2>2 DEF DrainOK, Drained, AllHeardBefore
  <1>11. QED
    BY <1>3, <1>4, <1>5, <1>6, <1>7, <1>8, <1>9, <1>10 DEF RenderStep

-----------------------------------------------------------------------------
(* The status. A query that may answer that the buffer does not play has   *)
(* seen it stopped or ended, and it stays so until the query returns.      *)
AllBefore(limit) ==
    \A f \in DOMAIN heard :
        heard[f] # Silent /\ heard[f].epoch = playback_generation => f < limit

NoLater(limit) ==
    /\ playback.phase \in {"Stopped", "Ended"}
    /\ playback.phase = "Ended" => AllBefore(limit)

StatusOK ==
    game.at \in {"drain", "clock", "report"} /\ game.call = "status" =>
        /\ game.at = "drain" =>
               game.mixing = FALSE /\ playback.phase \in {"Stopped", "Ended"}
        /\ game.at = "clock" => game.until \in Nat /\ NoLater(game.until)
        /\ game.at = "report" => \/ game.playing = TRUE
                                 \/ game.playing = FALSE /\ NoLater(game.frame)

LEMMA InitStatus == Init => StatusOK
  BY DEF Init, Idle, StatusOK

(* While the game asks, the voice that has ended is left as it is.         *)
LEMMA StatusStays ==
    ASSUME VoiceInv, Held, StatusOK, VoiceControl \/ RenderStep,
           UNCHANGED <<bufferVars, game>>
    PROVE  StatusOK'
  <1>1. SUFFICES ASSUME game.at \in {"drain", "clock", "report"},
                        playback.phase \in {"Stopped", "Ended"}
                 PROVE  /\ UNCHANGED playback
                        /\ playback.phase = "Ended" => UNCHANGED heard
    BY DEF StatusOK, NoLater, AllBefore, bufferVars
  <1>2. /\ control.at = "idle" /\ playback.phase # "Ending"
        /\ playback.phase = "Ended" => render.at \in {"idle", "capture", "finish"}
    BY <1>1 DEF VoiceInv, CountInv, CallUnderWay, Held
  <1>3. RenderStep
    BY <1>2 DEF VoiceControl, BeginPlay, LoadFallback, PublishForPlay,
       PlayPublished, CommitPlay, BeginStop, CompleteStop, PublishSeek,
       SeekPublished
  <1>4. UNCHANGED playback
    <2>1. CASE BeginEnd
      <3>1. playback.phase # "Playing"
        BY <1>1
      <3>2. QED  BY <2>1, <3>1 DEF BeginEnd
    <2>2. CASE CompleteEnd
      <3>1. render.at = "complete"
        BY <2>2 DEF CompleteEnd
      <3>2. playback.phase = "Ending"
        BY <3>1 DEF VoiceInv, CountInv, PhasesHeld
      <3>3. QED  BY <1>2, <3>2
    <2>3. QED
      BY <1>3, <2>1, <2>2, Zenon DEF RenderStep, BeginPeriod,
         CapturePlayingRun, ReadStableSeek, ApplySeek, SeekApplied,
         AdvanceVoiceAcrossDiscontinuity, AcquireForRender, MixPeriod,
         PublishDrain, VoiceEnded, PeriodRendered, voiceVars, stateVars
  <1>5. ASSUME playback.phase = "Ended"
        PROVE  UNCHANGED heard
    <2>1. ~MixPeriod /\ ~AdvanceVoiceAcrossDiscontinuity
      BY <1>2, <1>5 DEF MixPeriod, AdvanceVoiceAcrossDiscontinuity
    <2>2. QED
      BY <1>3, <2>1, Zenon DEF RenderStep, BeginPeriod,
         CapturePlayingRun, ReadStableSeek, ApplySeek, SeekApplied,
         AcquireForRender, BeginEnd, CompleteEnd,
         PublishDrain, VoiceEnded, PeriodRendered, voiceVars, renderVars
  <1>6. QED  BY <1>4, <1>5

(* What the game finds as the audible end of an ended voice.               *)
LEMMA EndIsAudible ==
    ASSUME VoiceInv, Truth, DrainOK, playback.phase = "Ended",
           game.at # "control"
    PROVE  /\ AudibleUntil \in Nat
           /\ AudibleUntil = 0 => AllBefore(-1)
           /\ AudibleUntil # 0 => AllBefore(AudibleUntil)
  <1>1. Drained /\ audible_drain.end \in Nat
    BY DEF DrainOK, VoiceInv, TypeInv, VoiceTypeOK
  <1>2. DrainingRun # 0 /\ DrainingRun = playback.run
    BY DEF DrainingRun, VoiceInv, Called
  <1>3. accepted_epoch = playback_generation /\ accepted_epoch \in Nat
        /\ mapping.epoch <= accepted_epoch /\ mapping.epoch \in Nat
    BY DEF VoiceInv, Called, Mailed, TypeInv, VoiceTypeOK
  <1>4. CASE mapping.epoch = accepted_epoch
    <2>1. AudibleUntil = audible_drain.end
      BY <1>1, <1>2, <1>4 DEF AudibleUntil, DrainMatches, Drained
    <2>2. AllBefore(AudibleUntil) /\ AudibleUntil # 0
      BY <1>1, <2>1 DEF AllBefore, Drained, AllHeardBefore
    <2>3. QED  BY <1>1, <2>1, <2>2
  <1>5. CASE mapping.epoch # accepted_epoch
    <2>1. AudibleUntil = 0
      BY <1>1, <1>5 DEF AudibleUntil, DrainMatches, Drained
    <2>2. ASSUME NEW f \in DOMAIN heard, heard[f] # Silent
          PROVE  heard[f].epoch # playback_generation
      <3>1. heard[f].epoch <= mapping.epoch
        BY <2>2 DEF Truth, HeardOK
      <3>2. heard[f].epoch \in Nat
        BY <2>2 DEF VoiceInv, TypeInv, VoiceTypeOK
      <3>3. QED  BY <1>3, <1>5, <3>1, <3>2
    <2>3. QED  BY <2>1, <2>2 DEF AllBefore
  <1>6. QED  BY <1>4, <1>5

LEMMA GameStatus ==
    ASSUME VoiceInv, Truth, DrainOK, StatusOK, GameCall
    PROVE  StatusOK'
  <1>1. UNCHANGED <<playback, heard>>
    BY GameCallKeeps DEF timelessVars
  <1>2. CASE \/ Play \/ SetCurrentPosition \/ ControlAccepted \/ Return
             \/ StopVoice \/ Stopped \/ Release \/ Released
    <2>1. game'.at \in {"control", "idle", "stopping", "releasing", "released"}
      BY <1>2 DEF Play, SetCurrentPosition, ControlAccepted, Return, StopVoice,
         Stopped, Release, Released, Idle
    <2>2. QED  BY <2>1 DEF StatusOK
  <1>3. CASE BeginQuery
    <2>1. control.at = "idle" \/ game.at # "idle"
      BY DEF VoiceInv, CountInv, CallUnderWay
    <2>2. game.at = "idle"
      BY <1>3 DEF BeginQuery, Returned
    <2>3. playback.phase \in {"Stopped", "Playing", "Ending", "Ended"}
      BY <2>1, <2>2 DEF VoiceInv, CountInv, Shape, PhasesHeld
    <2>4. CASE Playing
      BY <1>1, <1>3, <2>4 DEF BeginQuery, ReportsOf, StatusOK
    <2>5. CASE ~Playing
      <3>1. playback.phase \in {"Stopped", "Ended"} /\ Playing = FALSE
        BY <2>3, <2>5 DEF Playing
      <3>2. PICK call \in {"position", "status"} :
                game' = [at |-> "drain", call |-> call, mixing |-> FALSE]
        BY <1>3, <3>1, Zenon DEF BeginQuery
      <3>3. QED  BY <1>1, <3>1, <3>2 DEF StatusOK
    <2>6. QED  BY <2>4, <2>5
  <1>4. CASE ReadAudibleUntil
    <2>1. SUFFICES ASSUME game'.call = "status" PROVE StatusOK'
      BY DEF StatusOK
    <2>2. UNCHANGED playback_generation /\ game.at = "drain"
      BY <1>4 DEF ReadAudibleUntil, bufferVars
    <2>3. game.call = "status"
      BY <1>4, <2>1 DEF ReadAudibleUntil, Reports, ReportsOf
    <2>4. game.mixing = FALSE /\ playback.phase \in {"Stopped", "Ended"}
      BY <2>2, <2>3 DEF StatusOK
    <2>5. AudibleUntil \in Nat
      BY DEF AudibleUntil, VoiceInv, TypeInv, VoiceTypeOK
    <2>6. playback.phase = "Ended" =>
              IF AudibleUntil = 0 THEN AllBefore(-1) ELSE AllBefore(AudibleUntil)
      BY <2>2, EndIsAudible
    <2>7. CASE AudibleUntil = 0
      <3>1. game' = [at |-> "report", call |-> game.call, playing |-> FALSE,
                     frame |-> -1, verdict |-> "inactive"]
        BY <1>4, <2>4, <2>7 DEF ReadAudibleUntil, Reports, ReportsOf
      <3>2. game'.at = "report" /\ game'.playing = FALSE /\ game'.frame = -1
        BY <3>1
      <3>3. (NoLater(game.frame))'
        BY <1>1, <2>2, <2>4, <2>6, <2>7, <3>2 DEF NoLater, AllBefore
      <3>4. QED  BY <3>2, <3>3 DEF StatusOK
    <2>8. CASE AudibleUntil # 0
      <3>1. PICK until \in Nat : until = AudibleUntil
        BY <2>5
      <3>2. game'.at = "clock" /\ game'.until = until
        BY <1>4, <2>8, <3>1 DEF ReadAudibleUntil
      <3>3. (NoLater(game.until))'
        BY <1>1, <2>2, <2>4, <2>6, <2>8, <3>1, <3>2 DEF NoLater, AllBefore
      <3>4. QED  BY <3>1, <3>2, <3>3 DEF StatusOK
    <2>9. QED  BY <2>7, <2>8
  <1>5. CASE ReadClock
    <2>1. SUFFICES ASSUME game'.call = "status" PROVE StatusOK'
      BY DEF StatusOK
    <2>2. game.at = "clock" /\ UNCHANGED playback_generation
      BY <1>5 DEF ReadClock
    <2>3. CASE presented = -1 /\ Reports(TRUE, -1, "none")
      BY <2>3 DEF Reports, ReportsOf, StatusOK
    <2>4. ASSUME NEW frame \in OutputFrames,
                 IF game.call = "status"
                 THEN Reports(frame < game.until, frame, "none")
                 ELSE IF ~game.mixing /\ frame >= game.until
                 THEN Reports(FALSE, frame, "inactive")
                 ELSE game' = [at |-> "search", call |-> game.call,
                               search |-> Search(playback_generation, frame)]
          PROVE  StatusOK'
      <3>1. game.call = "status"
        BY <2>1, <2>4 DEF Reports, ReportsOf
      <3>2. game.until \in Nat /\ NoLater(game.until)
        BY <2>2, <3>1 DEF StatusOK
      <3>3. frame \in Nat
        BY ClockRange DEF VoiceInv
      <3>4. PICK status \in BOOLEAN : status <=> frame < game.until
        OBVIOUS
      <3>5. game' = [at |-> "report", call |-> game.call, playing |-> status,
                     frame |-> frame, verdict |-> "none"]
        BY <2>4, <3>1, <3>4 DEF Reports, ReportsOf
      <3>6. game'.at = "report" /\ game'.playing = status /\ game'.frame = frame
        BY <3>5
      <3>7. CASE status = TRUE
        BY <3>6, <3>7 DEF StatusOK
      <3>8. CASE status = FALSE
        <4>1. frame >= game.until
          BY <3>2, <3>3, <3>4, <3>8
        <4>2. ASSUME playback.phase = "Ended"
              PROVE  AllBefore(frame)
          <5>1. DOMAIN heard = 0..MaxOutput - 1
            BY DEF VoiceInv, TypeInv, VoiceTypeOK
          <5>2. QED
            BY <3>2, <3>3, <4>1, <4>2, <5>1, VoiceAssumption
            DEF NoLater, AllBefore
        <4>3. (NoLater(game.frame))'
          BY <1>1, <2>2, <3>2, <3>6, <4>2 DEF NoLater, AllBefore
        <4>4. QED  BY <3>6, <3>8, <4>3 DEF StatusOK
      <3>9. QED  BY <3>4, <3>7, <3>8
    <2>5. QED  BY <1>5, <2>3, <2>4 DEF ReadClock
  <1>6. CASE SearchSpan
    <2>1. \/ game'.at = "search"
          \/ game'.at = "report" /\ game'.playing = TRUE
      <3>1. game \in [at : {"search"}, call : {"position", "status"},
                      search : Searches]
        BY <1>6 DEF SearchSpan, VoiceInv, Searching
      <3>2. QED  BY <1>6, <3>1 DEF SearchSpan, Reports, ReportsOf
    <2>2. QED  BY <2>1 DEF StatusOK
  <1>7. QED  BY <1>2, <1>3, <1>4, <1>5, <1>6 DEF GameCall

-----------------------------------------------------------------------------
(* What the game is told, as long as no play has met the render thread     *)
(* inside the voice.                                                       *)
Told == RingOK /\ SearchOK /\ DrainOK /\ StatusOK

LEMMA NextTold ==
    ASSUME VoiceInv, VoiceInv', Held, Truth, Told, [Next]_allVars, ~overlapped'
    PROVE  Told'
  <1> USE DEF Told
  <1>1. TypeInv /\ TypeInv'
    BY DEF VoiceInv
  <1>2. CASE UNCHANGED allVars \/ WriteSamples
    <2>1. /\ UNCHANGED voiceVars /\ UNCHANGED timelineVars /\ UNCHANGED game
          /\ UNCHANGED bufferVars
      BY <1>2, Zenon DEF allVars, WriteSamples
    <2>2. /\ UNCHANGED <<slots, published_generation, heard, render, output_frame,
                         playback, audible_drain, mapping>>
          /\ UNCHANGED <<game, playback_generation, last_reported_source_frame>>
      BY <2>1 DEF voiceVars, stateVars, cursorVars, renderVars, timelineVars,
         bufferVars
    <2>3. RingOK' /\ RingGrows /\ HeardStays
      BY <1>1, <2>2, RingKept
    <2>4. SearchOK'
      BY <1>1, <2>2, <2>3, SearchStays
    <2>5. DrainOK'
      BY <2>2 DEF DrainOK, Drained, AllHeardBefore
    <2>6. StatusOK'
      BY <2>2 DEF StatusOK, NoLater, AllBefore
    <2>7. QED  BY <2>3, <2>4, <2>5, <2>6
  <1>3. CASE GameCall
    <2>1. UNCHANGED <<slots, published_generation, heard, render, output_frame>>
      BY <1>3, GameCallKeeps DEF timelessVars
    <2>2. RingOK'
      BY <1>1, <2>1, RingKept
    <2>3. SearchOK'
      BY <1>3, GameSearch
    <2>4. DrainOK'
      BY <1>3, GameDrain
    <2>5. StatusOK'
      BY <1>3, GameStatus
    <2>6. QED  BY <2>2, <2>3, <2>4, <2>5
  <1>4. CASE VoiceControl /\ UNCHANGED <<bufferVars, game>>
    <2>1. UNCHANGED <<slots, published_generation, heard, render, output_frame>>
      BY <1>4, ControlMoves DEF VoiceInv, timelineVars
    <2>2. UNCHANGED <<game, playback_generation, last_reported_source_frame>>
      BY <1>4 DEF bufferVars
    <2>3. RingOK' /\ RingGrows /\ HeardStays
      BY <1>1, <2>1, RingKept
    <2>4. SearchOK'
      BY <1>1, <2>2, <2>3, SearchStays
    <2>5. DrainOK'
      BY <1>4, ControlDrain
    <2>6. StatusOK'
      BY <1>4, StatusStays
    <2>7. QED  BY <2>3, <2>4, <2>5, <2>6
  <1>5. CASE RenderStep /\ UNCHANGED <<bufferVars, game>>
    <2>1. UNCHANGED <<game, playback_generation, last_reported_source_frame>>
      BY <1>5 DEF bufferVars
    <2>2. RingOK' /\ RingGrows /\ HeardStays
      BY <1>5, RenderRing
    <2>3. SearchOK'
      BY <1>1, <2>1, <2>2, SearchStays
    <2>4. DrainOK'
      BY <1>5, RenderDrain
    <2>5. StatusOK'
      BY <1>5, StatusStays
    <2>6. QED  BY <2>2, <2>3, <2>4, <2>5
  <1>6. QED  BY <1>2, <1>3, <1>4, <1>5, Zenon DEF Next, GameCall

(* The inductive invariant.                                                *)
BufferInv == HistoryInv /\ (~overlapped => Told)

LEMMA NextBufferInv == BufferInv /\ [Next]_allVars => BufferInv'
  <1>1. SUFFICES ASSUME BufferInv, [Next]_allVars PROVE BufferInv'
    OBVIOUS
  <1>2. HistoryInv /\ HistoryInv'
    BY <1>1, NextHistoryInv DEF BufferInv
  <1>3. ASSUME ~overlapped' PROVE Told'
    <2>1. ~overlapped /\ VoiceInv /\ VoiceInv'
      BY <1>1, <1>2, <1>3, OverlappedStays DEF HistoryInv
    <2>2. Held /\ Truth /\ Told
      BY <1>1, <1>2, <2>1 DEF HistoryInv, BufferInv
    <2>3. QED  BY <1>1, <1>3, <2>1, <2>2, NextTold
  <1>4. QED  BY <1>2, <1>3 DEF BufferInv

LEMMA InvImpliesReports == BufferInv => ReportsAreHeard
  <1> SUFFICES ASSUME BufferInv PROVE ReportsAreHeard
    OBVIOUS
  <1>1. ~overlapped => SearchOK /\ StatusOK
    BY DEF BufferInv, Told
  <1>2. ReportTruthful
    BY <1>1 DEF ReportTruthful, SearchOK, ReportOK
  <1>3. StatusNotEarly
    BY <1>1 DEF StatusNotEarly, StatusOK, NoLater, AllBefore
  <1>4. QED  BY <1>2, <1>3 DEF ReportsAreHeard

(* Until a play has met the render thread inside the voice, what the game  *)
(* is told of position and status is what is heard, however its other      *)
(* calls meet that thread (GetCurrentPosition, GetStatus,                  *)
(* ResolveSourceFrame).                                                    *)
THEOREM BufferReportsHeard == Spec => []ReportsAreHeard
  <1>1. Init => BufferInv
    <2>1. Init => HistoryInv
      BY InitVoiceInv, InitHeld, InitTruth DEF HistoryInv
    <2>2. QED
      BY <2>1, InitRing, InitSearchOK, InitDrain, InitStatus DEF BufferInv, Told
  <1>2. QED  BY <1>1, NextBufferInv, InvImpliesReports, PTL DEF Spec
=============================================================================
