-------------------------- MODULE AudioPlayoutProofs --------------------------
(***************************************************************************)
(* Proofs about JitterBuffer and AudioPlayout, for every sequence space,   *)
(* window, delay and adaptation, and any number of faults.                 *)
(***************************************************************************)
EXTENDS AudioPlayout, SequenceTheorems, WellFoundedInduction, TLAPS

(* What a buffer without a first frame is, and what one with it has.       *)
BufferInv ==
  /\ buf.next = None => buf.frames = <<>> /\ heard = <<>>
  /\ buf.next # None => buf.latest # None

(* The frame with this sequence was sent before this time, at the pace of  *)
(* the capture from its first frame, base.                                 *)
Reached(base, s, time) == (Distance(base, s) + 1) * FrameDuration <= time

(* What was rendered was rendered in order, and before the slot `next`.    *)
Rendered(base, frames, next) ==
  /\ \A i \in DOMAIN frames : Distance(base, frames[i]) < Distance(base, next)
  /\ \A i, j \in DOMAIN frames : i < j => Distance(base, frames[i]) < Distance(base, frames[j])

(* Nothing is ahead of the capture's pace: not what was sent, what arrived *)
(* or what is played.                                                      *)
Paced(base) ==
  /\ Distance(base, sent) * FrameDuration <= now
  /\ \A s \in flight : Reached(base, s, now)
  /\ buf.next # None =>
       /\ Reached(base, buf.anchor.seq, buf.anchor.at)
       /\ buf.anchor.at <= now
       /\ Distance(base, buf.anchor.seq) <= Distance(base, buf.next)
       /\ Distance(base, buf.next) * FrameDuration <= now
       /\ \A s \in Resident(buf) : Reached(base, s, now)
       /\ Rendered(base, heard, buf.next)

QueueInv == TypeOK /\ BufferInv /\ FifoOrdered

PaceInv ==
  /\ QueueInv
  /\ \E base \in Sequence : Paced(base)
  /\ PlayoutDelayInRange
  /\ ResidentsInWindow

-----------------------------------------------------------------------------
(* Distances.                                                              *)

LEMMA Wrap ==
  ASSUME NEW b \in Nat \ {0}, NEW a \in Int
  PROVE  /\ a \in 0..(b - 1) => a % b = a
         /\ a < 0 /\ -b <= a => a % b = a + b
         /\ b <= a /\ a < 2 * b => a % b = a - b
         /\ a % b \in 0..(b - 1)
  BY SMT

LEMMA Halves ==
  ASSUME NEW b \in Nat
  PROVE  b \div 2 \in Nat /\ 2 * (b \div 2) <= b /\ b <= 2 * (b \div 2) + 1
  BY SMT

LEMMA LeastOf ==
  ASSUME NEW T \in SUBSET Nat, T # {}
  PROVE  \E x \in T : \A y \in T : x <= y
  <1>1. IsWellFoundedOn(OpToRel(<, Nat), Nat)
    BY NatLessThanWellFounded
  <1>2. PICK x \in T : \A y \in T : ~(<<y, x>> \in OpToRel(<, Nat))
    BY <1>1, WFMin
  <1>3. \A y \in T : ~(y < x)
    BY <1>2 DEF OpToRel
  <1> QED
    BY <1>3

-----------------------------------------------------------------------------
(* Constants.                                                              *)

LEMMA Constants ==
  /\ SequenceRange \in Nat \ {0} /\ Half \in Nat /\ MaxBufferedFrames \in Nat \ {0}
  /\ MaxBufferedFrames <= Half /\ 2 * Half <= SequenceRange /\ Half < SequenceRange
  /\ \A s \in Sequence : s \in Nat /\ s # None
  /\ 0 \in Sequence
  <1>1. SequenceRange \in Nat /\ MaxBufferedFrames \in Nat \ {0}
        /\ SequenceRange > 2 * MaxBufferedFrames
    BY SequenceAssumption, JitterConstantsAssumption
  <1>2. Half \in Nat /\ 2 * Half <= SequenceRange /\ SequenceRange <= 2 * Half + 1
    BY <1>1, Halves DEF Half
  <1> QED
    BY <1>1, <1>2, NoSequenceIsNone DEF Sequence

(* The distance from one sequence to another, without the wrapping.        *)
LEMMA DistanceIs ==
  ASSUME NEW x \in Sequence, NEW y \in Sequence
  PROVE  /\ Distance(x, y) = IF x <= y THEN y - x ELSE y - x + SequenceRange
         /\ Distance(x, y) \in 0..(SequenceRange - 1)
  <1>1. SequenceRange \in Nat \ {0} /\ x \in 0..(SequenceRange - 1) /\ y \in 0..(SequenceRange - 1)
    BY Constants DEF Sequence
  <1>2. y - x \in Int /\ (x <= y => y - x \in 0..(SequenceRange - 1))
        /\ (~(x <= y) => y - x < 0 /\ -SequenceRange <= y - x)
    BY <1>1
  <1>3. /\ x <= y => (y - x) % SequenceRange = y - x
        /\ ~(x <= y) => (y - x) % SequenceRange = y - x + SequenceRange
    BY <1>1, <1>2, Wrap
  <1> QED
    BY <1>1, <1>3 DEF Distance

LEMMA DistanceTyped ==
  ASSUME NEW x \in Sequence, NEW y \in Sequence
  PROVE  Distance(x, y) \in Nat
  <1>1. SequenceRange \in Nat /\ Distance(x, y) \in 0..(SequenceRange - 1)
    BY Constants, DistanceIs
  <1> QED
    BY <1>1

LEMMA SuccessorIs ==
  ASSUME NEW x \in Sequence
  PROVE  /\ Successor(x) = IF x + 1 < SequenceRange THEN x + 1 ELSE 0
         /\ Successor(x) \in Sequence
  <1>1. SequenceRange \in Nat \ {0} /\ x \in 0..(SequenceRange - 1)
    BY Constants DEF Sequence
  <1>2. x + 1 \in Int /\ (x + 1 < SequenceRange => x + 1 \in 0..(SequenceRange - 1))
    BY <1>1
  <1>3. /\ x + 1 < SequenceRange => (x + 1) % SequenceRange = x + 1
        /\ ~(x + 1 < SequenceRange) => (x + 1) % SequenceRange = 0
    <2>1. CASE x + 1 < SequenceRange
      BY <1>1, <1>2, <2>1, Wrap
    <2>2. CASE ~(x + 1 < SequenceRange)
      <3>1. x + 1 = SequenceRange /\ SequenceRange < 2 * SequenceRange
        BY <1>1, <2>2
      <3>2. SequenceRange % SequenceRange = SequenceRange - SequenceRange
        BY <1>1, <3>1, Wrap
      <3> QED
        BY <1>1, <2>2, <3>1, <3>2
    <2> QED
      BY <2>1, <2>2
  <1>4. Successor(x) = IF x + 1 < SequenceRange THEN x + 1 ELSE 0
    BY <1>3 DEF Successor
  <1>5. x + 1 < SequenceRange => x + 1 \in Sequence
    BY <1>2 DEF Sequence
  <1> QED
    BY <1>4, <1>5, Constants

(* Two sequences as far from a third are one.                              *)
LEMMA DistanceSeparates ==
  ASSUME NEW x \in Sequence, NEW y \in Sequence, NEW z \in Sequence, y # z
  PROVE  Distance(x, y) # Distance(x, z)
  <1>1. /\ SequenceRange \in Nat \ {0} /\ x \in 0..(SequenceRange - 1)
        /\ y \in 0..(SequenceRange - 1) /\ z \in 0..(SequenceRange - 1)
    BY Constants DEF Sequence
  <1>2. Distance(x, y) = IF x <= y THEN y - x ELSE y - x + SequenceRange
    BY DistanceIs
  <1>3. Distance(x, z) = IF x <= z THEN z - x ELSE z - x + SequenceRange
    BY DistanceIs
  <1> QED
    BY <1>1, <1>2, <1>3

LEMMA DistanceOfItself ==
  ASSUME NEW x \in Sequence, NEW y \in Sequence
  PROVE  Distance(x, y) = 0 <=> x = y
  <1>1. /\ SequenceRange \in Nat \ {0} /\ x \in 0..(SequenceRange - 1)
        /\ y \in 0..(SequenceRange - 1)
    BY Constants DEF Sequence
  <1>2. Distance(x, y) = IF x <= y THEN y - x ELSE y - x + SequenceRange
    BY DistanceIs
  <1> QED
    BY <1>1, <1>2

(* A slot later everything but the slot itself is nearer by one.           *)
LEMMA SlotLater ==
  ASSUME NEW x \in Sequence, NEW y \in Sequence, x # y
  PROVE  Distance(Successor(x), y) = Distance(x, y) - 1
  <1>1. SequenceRange \in Nat \ {0} /\ x \in 0..(SequenceRange - 1) /\ y \in 0..(SequenceRange - 1)
    BY Constants DEF Sequence
  <1>2. Successor(x) \in Sequence
    BY SuccessorIs
  <1>3. Distance(x, y) = IF x <= y THEN y - x ELSE y - x + SequenceRange
    BY DistanceIs
  <1>4. Distance(Successor(x), y) =
          IF Successor(x) <= y THEN y - Successor(x) ELSE y - Successor(x) + SequenceRange
    BY <1>2, DistanceIs
  <1> QED
    BY <1>1, <1>3, <1>4, SuccessorIs

(* Seen from a base that all of them follow, sequences do not wrap.        *)
LEMMA DistanceFromBase ==
  ASSUME NEW base \in Sequence, NEW x \in Sequence, NEW y \in Sequence
  PROVE  Distance(x, y) = IF Distance(base, x) <= Distance(base, y)
                          THEN Distance(base, y) - Distance(base, x)
                          ELSE Distance(base, y) - Distance(base, x) + SequenceRange
  <1>1. /\ SequenceRange \in Nat \ {0} /\ base \in 0..(SequenceRange - 1)
        /\ x \in 0..(SequenceRange - 1) /\ y \in 0..(SequenceRange - 1)
    BY Constants DEF Sequence
  <1>2. Distance(base, x) = IF base <= x THEN x - base ELSE x - base + SequenceRange
    BY DistanceIs
  <1>3. Distance(base, y) = IF base <= y THEN y - base ELSE y - base + SequenceRange
    BY DistanceIs
  <1>4. Distance(x, y) = IF x <= y THEN y - x ELSE y - x + SequenceRange
    BY DistanceIs
  <1> QED
    BY <1>1, <1>2, <1>3, <1>4

-----------------------------------------------------------------------------
(* The FIFO.                                                               *)

Members(frames) == {frames[i] : i \in DOMAIN frames}

(* In the order in which the slots come up from this one.                  *)
Sorted(from, frames) ==
  \A i, j \in DOMAIN frames :
    i < j => Distance(from, frames[i]) < Distance(from, frames[j])

LEMMA SameInterval ==
  ASSUME NEW n \in Nat, NEW m \in Nat, 1..n = 1..m
  PROVE  n = m
  <1>1. CASE n < m
    <2>1. m \in 1..m /\ m \notin 1..n
      BY <1>1
    <2> QED
      BY <2>1
  <1>2. CASE m < n
    <2>1. n \in 1..n /\ n \notin 1..m
      BY <1>2
    <2> QED
      BY <2>1
  <1> QED
    BY <1>1, <1>2

LEMMA FramesAre ==
  ASSUME NEW n \in Nat, NEW f \in [1..n -> Sequence]
  PROVE  f \in Seq(Sequence) /\ Len(f) = n /\ DOMAIN f = 1..n
  <1>1. f \in Seq(Sequence)
    BY SeqDef
  <1>2. Len(f) \in Nat /\ DOMAIN f = 1..Len(f)
    BY <1>1, LenProperties
  <1>3. DOMAIN f = 1..n
    OBVIOUS
  <1> QED
    BY <1>1, <1>2, <1>3, SameInterval

LEMMA RemovedIs ==
  ASSUME NEW frames \in Seq(Sequence), NEW p \in 1..Len(frames)
  PROVE  /\ Removed(frames, p) \in Seq(Sequence)
         /\ Len(Removed(frames, p)) = Len(frames) - 1
         /\ DOMAIN Removed(frames, p) = 1..(Len(frames) - 1)
         /\ \A i \in 1..(Len(frames) - 1) :
              Removed(frames, p)[i] = IF i < p THEN frames[i] ELSE frames[i + 1]
  <1>1. Len(frames) \in Nat /\ DOMAIN frames = 1..Len(frames) /\ Len(frames) - 1 \in Nat
    BY LenProperties
  <1>2. \A i \in 1..(Len(frames) - 1) : frames[i] \in Sequence /\ frames[i + 1] \in Sequence
    <2> TAKE i \in 1..(Len(frames) - 1)
    <2>1. i \in 1..Len(frames) /\ i + 1 \in 1..Len(frames)
      BY <1>1
    <2> QED
      BY <2>1, ElementOfSeq
  <1>3. Removed(frames, p) \in [1..(Len(frames) - 1) -> Sequence]
    BY <1>2 DEF Removed
  <1>4. \A i \in 1..(Len(frames) - 1) :
          Removed(frames, p)[i] = IF i < p THEN frames[i] ELSE frames[i + 1]
    BY DEF Removed
  <1> QED
    BY <1>1, <1>3, <1>4, FramesAre

LEMMA RemovedKeeps ==
  ASSUME NEW frames \in Seq(Sequence), NEW p \in 1..Len(frames)
  PROVE  /\ Members(Removed(frames, p)) \subseteq Members(frames)
         /\ \A from : Sorted(from, frames) => Sorted(from, Removed(frames, p))
  <1>1. Len(frames) \in Nat /\ DOMAIN frames = 1..Len(frames)
    BY LenProperties
  <1> DEFINE Was(i) == IF i < p THEN i ELSE i + 1
  <1>2. \A i \in 1..(Len(frames) - 1) :
          Was(i) \in DOMAIN frames /\ Removed(frames, p)[i] = frames[Was(i)]
    BY <1>1, RemovedIs
  <1>3. \A i, j \in 1..(Len(frames) - 1) : i < j => Was(i) < Was(j)
    BY <1>1
  <1>4. DOMAIN Removed(frames, p) = 1..(Len(frames) - 1)
    BY RemovedIs
  <1> HIDE DEF Was
  <1> QED
    BY <1>2, <1>3, <1>4 DEF Members, Sorted

LEMMA InsertedIs ==
  ASSUME NEW frames \in Seq(Sequence), NEW p \in 1..(Len(frames) + 1), NEW s \in Sequence
  PROVE  /\ Inserted(frames, p, s) \in Seq(Sequence)
         /\ Len(Inserted(frames, p, s)) = Len(frames) + 1
         /\ DOMAIN Inserted(frames, p, s) = 1..(Len(frames) + 1)
         /\ \A i \in 1..(Len(frames) + 1) :
              Inserted(frames, p, s)[i] =
                IF i < p THEN frames[i] ELSE IF i = p THEN s ELSE frames[i - 1]
  <1>1. Len(frames) \in Nat /\ DOMAIN frames = 1..Len(frames) /\ Len(frames) + 1 \in Nat
    BY LenProperties
  <1>2. \A i \in 1..(Len(frames) + 1) :
          (i < p => frames[i] \in Sequence) /\ (i > p => frames[i - 1] \in Sequence)
    <2> TAKE i \in 1..(Len(frames) + 1)
    <2>1. (i < p => i \in 1..Len(frames)) /\ (i > p => i - 1 \in 1..Len(frames))
      BY <1>1
    <2> QED
      BY <2>1, ElementOfSeq
  <1>3. \A i \in 1..(Len(frames) + 1) : i < p \/ i = p \/ i > p
    BY <1>1
  <1>4. Inserted(frames, p, s) \in [1..(Len(frames) + 1) -> Sequence]
    BY <1>2, <1>3 DEF Inserted
  <1>5. \A i \in 1..(Len(frames) + 1) :
          Inserted(frames, p, s)[i] =
            IF i < p THEN frames[i] ELSE IF i = p THEN s ELSE frames[i - 1]
    BY DEF Inserted
  <1> QED
    BY <1>1, <1>4, <1>5, FramesAre

(* There is a place for every frame.                                       *)
LEMMA PositionExists ==
  ASSUME NEW b, NEW frames \in Seq(Sequence), NEW s \in Sequence, b.next \in Sequence
  PROVE  \E p \in 1..(Len(frames) + 1) : IsPosition(b, frames, s, p)
  <1>1. Len(frames) \in Nat /\ \A i \in 1..Len(frames) : frames[i] \in Sequence
    BY LenProperties, ElementOfSeq
  <1>2. \A x \in Sequence : Distance(b.next, x) \in Nat
    BY DistanceTyped
  <1> DEFINE d(i) == Distance(b.next, frames[i])
             own == Distance(b.next, s)
             Later == {i \in 1..Len(frames) : d(i) > own}
  <1>3. own \in Nat /\ \A i \in 1..Len(frames) : d(i) \in Nat
    BY <1>1, <1>2
  <1>4. CASE Later = {}
    <2>1. \A i \in 1..Len(frames) : d(i) <= own
      BY <1>3, <1>4
    <2>2. Len(frames) + 1 \in 1..(Len(frames) + 1) /\ (Len(frames) + 1) - 1 = Len(frames)
          /\ ~(Len(frames) + 1 <= Len(frames))
      BY <1>1
    <2>3. IsPosition(b, frames, s, Len(frames) + 1)
      BY <2>1, <2>2 DEF IsPosition
    <2> QED
      BY <2>2, <2>3
  <1>5. CASE Later # {}
    <2>1. Later \in SUBSET Nat
      BY <1>1
    <2>2. PICK p \in Later : \A q \in Later : p <= q
      BY <1>5, <2>1, LeastOf
    <2>3. p \in 1..Len(frames) /\ d(p) > own
      BY <2>2
    <2>4. \A i \in 1..(p - 1) : i \in 1..Len(frames) /\ ~(p <= i)
      BY <1>1, <2>3
    <2>5. \A i \in 1..(p - 1) : d(i) <= own
      BY <1>3, <2>2, <2>4
    <2>6. p \in 1..(Len(frames) + 1)
      BY <1>1, <2>3
    <2>7. IsPosition(b, frames, s, p)
      BY <2>3, <2>5, <2>6 DEF IsPosition
    <2> QED
      BY <2>6, <2>7
  <1> QED
    BY <1>4, <1>5

(* A frame that was not resident is queued in its place.                   *)
LEMMA InsertedKeeps ==
  ASSUME NEW b, NEW frames \in Seq(Sequence), NEW s \in Sequence, b.next \in Sequence,
         s \notin Members(frames), Sorted(b.next, frames),
         NEW p \in 1..(Len(frames) + 1), IsPosition(b, frames, s, p)
  PROVE  /\ Members(Inserted(frames, p, s)) = Members(frames) \cup {s}
         /\ Sorted(b.next, Inserted(frames, p, s))
  <1>1. Len(frames) \in Nat /\ DOMAIN frames = 1..Len(frames)
        /\ \A i \in 1..Len(frames) : frames[i] \in Sequence
    BY LenProperties, ElementOfSeq
  <1> DEFINE new == Inserted(frames, p, s)
             d(x) == Distance(b.next, x)
  <1>2. DOMAIN new = 1..(Len(frames) + 1)
        /\ \A i \in 1..(Len(frames) + 1) :
             new[i] = IF i < p THEN frames[i] ELSE IF i = p THEN s ELSE frames[i - 1]
    BY InsertedIs
  <1>3. d(s) \in Nat /\ \A i \in 1..Len(frames) : d(frames[i]) \in Nat /\ d(frames[i]) # d(s)
    <2>1. \A i \in 1..Len(frames) : frames[i] # s
      BY <1>1 DEF Members
    <2>2. \A x \in Sequence : d(x) \in Nat /\ (x # s => d(x) # d(s))
      BY DistanceTyped, DistanceSeparates
    <2> QED
      BY <1>1, <2>1, <2>2
  <1>4. \A i \in 1..Len(frames) : i < p => d(frames[i]) < d(s)
    <2> TAKE i \in 1..Len(frames)
    <2> HAVE i < p
    <2>1. i \in 1..(p - 1)
      BY <1>1
    <2>2. d(frames[i]) <= d(s)
      BY <2>1 DEF IsPosition
    <2> QED
      BY <1>3, <2>2
  <1>5. p <= Len(frames) => d(frames[p]) > d(s)
    BY DEF IsPosition
  <1>6. \A i \in 1..Len(frames) : i >= p => d(frames[i]) > d(s)
    <2> TAKE i \in 1..Len(frames)
    <2> HAVE i >= p
    <2>1. p \in 1..Len(frames) /\ (i = p \/ p < i)
      BY <1>1
    <2>2. d(frames[p]) > d(s)
      BY <1>1, <1>5, <2>1
    <2>3. p < i => d(frames[p]) < d(frames[i])
      BY <1>1, <2>1 DEF Sorted
    <2> QED
      BY <1>3, <2>1, <2>2, <2>3
  <1>7. Sorted(b.next, new)
    <2> SUFFICES ASSUME NEW i \in 1..(Len(frames) + 1), NEW j \in 1..(Len(frames) + 1), i < j
                 PROVE  d(new[i]) < d(new[j])
      BY <1>2 DEF Sorted
    <2>1. CASE j < p
      <3>1. new[i] = frames[i] /\ new[j] = frames[j] /\ i \in 1..Len(frames) /\ j \in 1..Len(frames)
        BY <1>1, <1>2, <2>1
      <3> QED
        BY <1>1, <3>1 DEF Sorted
    <2>2. CASE j = p
      <3>1. new[i] = frames[i] /\ new[j] = s /\ i \in 1..Len(frames) /\ i < p
        BY <1>1, <1>2, <2>2
      <3> QED
        BY <1>4, <3>1
    <2>3. CASE j > p /\ i < p
      <3>1. /\ new[i] = frames[i] /\ new[j] = frames[j - 1]
            /\ i \in 1..Len(frames) /\ j - 1 \in 1..Len(frames) /\ i < j - 1
        BY <1>1, <1>2, <2>3
      <3> QED
        BY <1>1, <3>1 DEF Sorted
    <2>4. CASE i = p
      <3>1. new[i] = s /\ new[j] = frames[j - 1] /\ j - 1 \in 1..Len(frames) /\ j - 1 >= p
        BY <1>1, <1>2, <2>4
      <3> QED
        BY <1>6, <3>1
    <2>5. CASE i > p
      <3>1. /\ new[i] = frames[i - 1] /\ new[j] = frames[j - 1]
            /\ i - 1 \in 1..Len(frames) /\ j - 1 \in 1..Len(frames) /\ i - 1 < j - 1
        BY <1>1, <1>2, <2>5
      <3> QED
        BY <1>1, <3>1 DEF Sorted
    <2>6. j < p \/ j = p \/ (j > p /\ i < p) \/ i = p \/ i > p
      BY <1>1
    <2> QED
      BY <2>1, <2>2, <2>3, <2>4, <2>5, <2>6
  <1>8. Members(new) \subseteq Members(frames) \cup {s}
    <2> SUFFICES ASSUME NEW i \in 1..(Len(frames) + 1)
                 PROVE  new[i] \in Members(frames) \cup {s}
      BY <1>2 DEF Members
    <2>1. (i < p => i \in 1..Len(frames)) /\ (i > p => i - 1 \in 1..Len(frames))
          /\ (i < p \/ i = p \/ i > p)
      BY <1>1
    <2> QED
      BY <1>1, <1>2, <2>1 DEF Members
  <1>9. s \in Members(new)
    BY <1>1, <1>2 DEF Members
  <1>10. \A i \in 1..Len(frames) : frames[i] \in Members(new)
    <2> TAKE i \in 1..Len(frames)
    <2>1. CASE i < p
      <3>1. i \in 1..(Len(frames) + 1) /\ new[i] = frames[i]
        BY <1>1, <1>2, <2>1
      <3> QED
        BY <1>2, <3>1 DEF Members
    <2>2. CASE i >= p
      <3>1. i + 1 \in 1..(Len(frames) + 1) /\ ~(i + 1 < p) /\ i + 1 # p /\ (i + 1) - 1 = i
        BY <1>1, <2>2
      <3>2. new[i + 1] = frames[i]
        BY <1>2, <3>1
      <3> QED
        BY <1>2, <3>1, <3>2 DEF Members
    <2> QED
      BY <1>1, <2>1, <2>2
  <1>11. Members(frames) \subseteq Members(new)
    BY <1>1, <1>10 DEF Members
  <1> QED
    BY <1>7, <1>8, <1>9, <1>11

-----------------------------------------------------------------------------
(* The buffer.                                                             *)

Ordered(b) == Len(b.frames) <= MaxBufferedFrames /\ Sorted(b.next, b.frames)

LEMMA ResidentIs ==
  ASSUME NEW b
  PROVE  Resident(b) = Members(b.frames)
  BY DEF Resident, Members

LEMMA FieldsTyped ==
  ASSUME NEW b \in BufferRecord
  PROVE  /\ b.frames \in Seq(Sequence)
         /\ b.next \in Sequence \cup {None} /\ b.latest \in Sequence \cup {None}
         /\ b.anchor.seq \in Sequence /\ b.anchor.at \in Nat /\ b.playout \in Nat
         /\ b.target \in MinTargetDelay..MaxTargetDelay
         /\ b.adverse \in 0..(GrowthThreshold - 1) /\ b.stable \in 0..(StablePeriod - 1)
  BY DEF BufferRecord

LEMMA RoomIs ==
  ASSUME NEW frames \in Seq(Sequence), Len(frames) <= MaxBufferedFrames
  PROVE  /\ Room(frames) \in Seq(Sequence)
         /\ Len(Room(frames)) + 1 <= MaxBufferedFrames
         /\ Members(Room(frames)) \subseteq Members(frames)
         /\ \A from : Sorted(from, frames) => Sorted(from, Room(frames))
  <1>1. Len(frames) \in Nat /\ MaxBufferedFrames \in Nat \ {0}
    BY LenProperties, Constants
  <1>2. CASE Len(frames) >= MaxBufferedFrames
    <2>1. 1 \in 1..Len(frames) /\ (Len(frames) - 1) + 1 <= MaxBufferedFrames
      BY <1>1, <1>2
    <2>2. Room(frames) = Removed(frames, 1)
      BY <1>2 DEF Room
    <2> QED
      BY <2>1, <2>2, RemovedIs, RemovedKeeps
  <1>3. CASE ~(Len(frames) >= MaxBufferedFrames)
    <2>1. Len(frames) + 1 <= MaxBufferedFrames
      BY <1>1, <1>3
    <2> QED
      BY <1>3, <2>1 DEF Room
  <1> QED
    BY <1>2, <1>3

(* A buffer that differs in its frames only.                               *)
SameTiming(b, c) ==
  /\ c.next = b.next /\ c.latest = b.latest /\ c.lastPlayed = b.lastPlayed
  /\ c.anchor = b.anchor /\ c.playout = b.playout

LEMMA QueueFrameIs ==
  ASSUME NEW b \in BufferRecord, NEW s \in Sequence, b.next \in Sequence,
         Ordered(b), s \notin Resident(b)
  PROVE  /\ QueueFrame(b, s) \in BufferRecord
         /\ SameTiming(b, QueueFrame(b, s))
         /\ Ordered(QueueFrame(b, s))
         /\ Resident(QueueFrame(b, s)) \subseteq Resident(b) \cup {s}
  <1> DEFINE frames == Room(b.frames)
             p == CHOOSE p \in 1..(Len(frames) + 1) : IsPosition(b, frames, s, p)
             new == Inserted(frames, p, s)
  <1>1. /\ frames \in Seq(Sequence) /\ Len(frames) + 1 <= MaxBufferedFrames
        /\ Members(frames) \subseteq Members(b.frames) /\ Sorted(b.next, frames)
    BY RoomIs, FieldsTyped DEF Ordered
  <1>2. p \in 1..(Len(frames) + 1) /\ IsPosition(b, frames, s, p)
    BY <1>1, PositionExists
  <1>3. s \notin Members(frames)
    BY <1>1, ResidentIs
  <1> HIDE DEF frames, p
  <1>4. new \in Seq(Sequence) /\ Len(new) = Len(frames) + 1
    BY <1>1, <1>2, InsertedIs
  <1>5. Members(new) = Members(frames) \cup {s} /\ Sorted(b.next, new)
    BY <1>1, <1>2, <1>3, InsertedKeeps
  <1>6. QueueFrame(b, s) = [b EXCEPT !.frames = new]
    BY DEF QueueFrame, frames, p
  <1> HIDE DEF new
  <1>7. QueueFrame(b, s) \in BufferRecord /\ QueueFrame(b, s).frames = new
        /\ SameTiming(b, QueueFrame(b, s))
    BY <1>4, <1>6 DEF BufferRecord, SameTiming
  <1>8. Ordered(QueueFrame(b, s))
    BY <1>1, <1>4, <1>5, <1>7 DEF Ordered, SameTiming
  <1> QED
    BY <1>1, <1>5, <1>7, <1>8, ResidentIs

-----------------------------------------------------------------------------
(* The adaptation.                                                         *)

(* What the adaptation may change: the delay, and with it the next slot's  *)
(* time, which is only extended, and no further than the longest delay     *)
(* after the anchor.                                                       *)
Adapted(b, c) ==
  /\ c \in BufferRecord
  /\ c.frames = b.frames /\ c.next = b.next /\ c.latest = b.latest /\ c.anchor = b.anchor
  /\ \/ c.playout = b.playout
     \/ c.playout > b.playout /\ c.playout <= b.anchor.at + MaxTargetDelay

LEMMA AdaptedTwice ==
  ASSUME NEW b \in BufferRecord, NEW c, NEW d, Adapted(b, c), Adapted(c, d)
  PROVE  Adapted(b, d)
  <1>1. b.playout \in Nat /\ c.playout \in Nat /\ d.playout \in Nat
    BY FieldsTyped DEF Adapted
  <1> QED
    BY <1>1 DEF Adapted

LEMMA Quotient ==
  ASSUME NEW a \in Nat, NEW b \in Nat \ {0}
  PROVE  a \div b \in Nat
  BY SMT

LEMMA Product ==
  ASSUME NEW a \in Nat, NEW b \in Nat
  PROVE  a * b \in Nat
  BY SMT

LEMMA ExtendIs ==
  ASSUME NEW b \in BufferRecord
  PROVE  Adapted(b, ExtendStartDeadline(b))
  <1> DEFINE c == ExtendStartDeadline(b)
             to == b.anchor.at + b.target
  <1>1. b.playout \in Nat /\ to \in Nat /\ to <= b.anchor.at + MaxTargetDelay
    BY FieldsTyped, JitterConstantsAssumption
  <1>2. c = [b EXCEPT !.playout = IF to > b.playout THEN to ELSE b.playout]
    BY DEF ExtendStartDeadline
  <1> HIDE DEF to
  <1>3. c \in BufferRecord
    BY <1>1, <1>2 DEF BufferRecord
  <1>4. /\ c.frames = b.frames /\ c.next = b.next /\ c.latest = b.latest /\ c.anchor = b.anchor
        /\ c.playout = IF to > b.playout THEN to ELSE b.playout
    BY <1>2 DEF BufferRecord
  <1> QED
    BY <1>1, <1>3, <1>4 DEF Adapted

LEMMA AdverseIs ==
  ASSUME NEW b \in BufferRecord, NEW n \in Nat
  PROVE  Adapted(b, RegisterAdverse(b, n))
  <1> DEFINE total == b.adverse + n
             grown == b.target + (total \div GrowthThreshold) * GrowthStep
             target == IF grown < MaxTargetDelay THEN grown ELSE MaxTargetDelay
             c == [b EXCEPT !.stable = 0, !.adverse = total % GrowthThreshold, !.target = target]
  <1>1. /\ GrowthThreshold \in Nat \ {0} /\ GrowthStep \in Nat /\ StablePeriod \in Nat \ {0}
        /\ MinTargetDelay \in Nat /\ MaxTargetDelay \in Nat /\ MinTargetDelay <= MaxTargetDelay
    BY JitterConstantsAssumption
  <1>2. total \in Nat /\ b.target \in MinTargetDelay..MaxTargetDelay
    BY <1>1, FieldsTyped
  <1> HIDE DEF total
  <1>3. total \div GrowthThreshold \in Nat
    BY <1>1, <1>2, Quotient
  <1>4. (total \div GrowthThreshold) * GrowthStep \in Nat
    BY <1>1, <1>3, Product
  <1>5. grown \in Nat /\ MinTargetDelay <= grown
    BY <1>1, <1>2, <1>4
  <1> HIDE DEF grown
  <1>6. target \in MinTargetDelay..MaxTargetDelay
    BY <1>1, <1>5
  <1>7. total % GrowthThreshold \in 0..(GrowthThreshold - 1)
    BY <1>1, <1>2, Wrap
  <1>8. 0 \in 0..(StablePeriod - 1)
    BY <1>1
  <1> HIDE DEF target
  <1>9. c \in BufferRecord
    BY <1>6, <1>7, <1>8 DEF BufferRecord
  <1>10. /\ c.frames = b.frames /\ c.next = b.next /\ c.latest = b.latest /\ c.anchor = b.anchor
         /\ c.playout = b.playout
    BY DEF BufferRecord
  <1>11. RegisterAdverse(b, n) = ExtendStartDeadline(c)
    BY DEF RegisterAdverse, total, grown, target
  <1>12. Adapted(b, c)
    BY <1>9, <1>10 DEF Adapted
  <1> HIDE DEF c
  <1> QED
    BY <1>9, <1>11, <1>12, ExtendIs, AdaptedTwice

LEMMA StableIs ==
  ASSUME NEW b \in BufferRecord
  PROVE  Adapted(b, RegisterStable(b))
  <1> DEFINE less == IF b.target - DecayStep > MinTargetDelay THEN b.target - DecayStep
                     ELSE MinTargetDelay
  <1>1. /\ GrowthThreshold \in Nat \ {0} /\ DecayStep \in Nat /\ StablePeriod \in Nat \ {0}
        /\ MinTargetDelay \in Nat /\ MaxTargetDelay \in Nat /\ MinTargetDelay <= MaxTargetDelay
    BY JitterConstantsAssumption
  <1>2. b.target \in MinTargetDelay..MaxTargetDelay /\ b.stable \in 0..(StablePeriod - 1)
    BY FieldsTyped
  <1>3. less \in MinTargetDelay..MaxTargetDelay
    BY <1>1, <1>2
  <1>4. 0 \in 0..(StablePeriod - 1) /\ 0 \in 0..(GrowthThreshold - 1)
    BY <1>1
  <1>5. CASE b.stable + 1 < StablePeriod
    <2> DEFINE c == [b EXCEPT !.adverse = 0, !.stable = b.stable + 1]
    <2>1. b.stable + 1 \in 0..(StablePeriod - 1)
      BY <1>1, <1>2, <1>5
    <2>2. c \in BufferRecord
      BY <1>4, <2>1 DEF BufferRecord
    <2>3. /\ c.frames = b.frames /\ c.next = b.next /\ c.latest = b.latest /\ c.anchor = b.anchor
          /\ c.playout = b.playout
      BY DEF BufferRecord
    <2>4. RegisterStable(b) = c
      BY <1>5 DEF RegisterStable
    <2> QED
      BY <2>2, <2>3, <2>4 DEF Adapted
  <1>6. CASE ~(b.stable + 1 < StablePeriod)
    <2> DEFINE c == [b EXCEPT !.adverse = 0, !.stable = 0, !.target = less]
    <2>1. RegisterStable(b) = c
      BY <1>6 DEF RegisterStable
    <2> HIDE DEF less
    <2>2. c \in BufferRecord
      BY <1>3, <1>4 DEF BufferRecord
    <2>3. /\ c.frames = b.frames /\ c.next = b.next /\ c.latest = b.latest /\ c.anchor = b.anchor
          /\ c.playout = b.playout
      BY DEF BufferRecord
    <2> QED
      BY <2>1, <2>2, <2>3 DEF Adapted
  <1> QED
    BY <1>5, <1>6

LEMMA LateIs ==
  ASSUME NEW b \in BufferRecord, NEW s \in Sequence, NEW at \in Nat
  PROVE  LateFrames(b, s, at) \in Nat
  <1> DEFINE distance == Distance(b.anchor.seq, s)
             lateBy == at - (b.anchor.at + distance * FrameDuration)
  <1>1. FrameDuration \in Nat \ {0}
    BY JitterConstantsAssumption
  <1>2. distance \in Nat /\ b.anchor.at \in Nat
    BY FieldsTyped, DistanceTyped
  <1> HIDE DEF distance
  <1>3. distance * FrameDuration \in Nat
    BY <1>1, <1>2, Product
  <1>4. lateBy \in Int
    BY <1>2, <1>3
  <1> HIDE DEF lateBy
  <1>5. lateBy > FrameDuration => lateBy \div FrameDuration \in Nat
    BY <1>1, <1>4, Quotient
  <1>6. LateFrames(b, s, at) =
          IF distance >= Half \/ lateBy <= FrameDuration THEN 0 ELSE lateBy \div FrameDuration
    BY DEF LateFrames, distance, lateBy
  <1> QED
    BY <1>1, <1>4, <1>5, <1>6

-----------------------------------------------------------------------------
(* What a push and a poll do.                                              *)

(* A buffer that took a frame, or refused it, without starting again.      *)
Kept(b, s, c) ==
  /\ c \in BufferRecord /\ Ordered(c)
  /\ c.next = b.next /\ c.latest # None /\ c.anchor = b.anchor
  /\ \A x \in Resident(c) : x \in Resident(b) \/ (x = s /\ ~IsOutsideWindow(b, s))
  /\ \/ c.playout = b.playout
     \/ c.playout > b.playout /\ c.playout <= b.anchor.at + MaxTargetDelay

(* A buffer whose window starts at this frame.                             *)
Started(s, at, c) ==
  /\ c \in BufferRecord /\ Ordered(c)
  /\ c.next = s /\ c.latest # None /\ c.anchor = [seq |-> s, at |-> at]
  /\ \A x \in Resident(c) : x = s
  /\ c.playout - at \in MinTargetDelay..MaxTargetDelay

LEMMA ResetIs ==
  ASSUME NEW b \in BufferRecord, NEW s \in Sequence, NEW at \in Nat, b.latest # None
  PROVE  Started(s, at, QueueFrame(ResetPlayoutWindow(b, s, at), s))
  <1> DEFINE c == ResetPlayoutWindow(b, s, at)
  <1>1. b.target \in MinTargetDelay..MaxTargetDelay /\ MinTargetDelay \in Nat
        /\ MaxTargetDelay \in Nat /\ b.target \in Nat /\ at + b.target \in Nat
        /\ (at + b.target) - at = b.target
    BY FieldsTyped, JitterConstantsAssumption
  <1>2. <<>> \in Seq(Sequence) /\ [seq |-> s, at |-> at] \in [seq : Sequence, at : Nat]
    BY EmptySeq
  <1>3. c \in BufferRecord
    BY <1>1, <1>2 DEF BufferRecord, ResetPlayoutWindow
  <1>4. /\ c.frames = <<>> /\ c.next = s /\ c.latest = b.latest
        /\ c.anchor = [seq |-> s, at |-> at] /\ c.playout = at + b.target
    BY DEF BufferRecord, ResetPlayoutWindow
  <1> HIDE DEF c
  <1>5. Len(c.frames) = 0 /\ DOMAIN c.frames = {}
    BY <1>4, EmptySeq
  <1>6. Ordered(c)
    BY <1>5, Constants DEF Ordered, Sorted
  <1>7. Resident(c) = {}
    BY <1>5 DEF Resident
  <1>8. c.next \in Sequence /\ s \notin Resident(c)
    BY <1>4, <1>7
  <1> DEFINE d == QueueFrame(c, s)
  <1>9. d \in BufferRecord /\ SameTiming(c, d) /\ Ordered(d) /\ Resident(d) \subseteq {s}
    BY <1>3, <1>6, <1>7, <1>8, QueueFrameIs
  <1> HIDE DEF d
  <1>10. Started(s, at, d)
    BY <1>1, <1>4, <1>9 DEF Started, SameTiming
  <1> QED
    BY <1>10 DEF d, c

LEMMA QueueIs ==
  ASSUME NEW b \in BufferRecord, NEW c, NEW s \in Sequence, NEW at \in Nat,
         b.next \in Sequence, b.latest # None, Ordered(b), s \notin Resident(b), Adapted(b, c)
  PROVE  Kept(b, s, Queue(c, s, at)) \/ (IsOutsideWindow(b, s) /\ Started(s, at, Queue(c, s, at)))
  <1>1. /\ c \in BufferRecord /\ c.frames = b.frames /\ c.next = b.next
        /\ c.latest = b.latest /\ c.anchor = b.anchor
    BY DEF Adapted
  <1>2. IsOutsideWindow(c, s) <=> IsOutsideWindow(b, s)
    BY <1>1 DEF IsOutsideWindow
  <1>3. CASE IsOutsideWindow(b, s)
    <2>1. Queue(c, s, at) = QueueFrame(ResetPlayoutWindow(c, s, at), s)
      BY <1>2, <1>3 DEF Queue
    <2> QED
      BY <1>1, <1>3, <2>1, ResetIs
  <1>4. CASE ~IsOutsideWindow(b, s)
    <2> DEFINE d == QueueFrame(c, s)
    <2>1. Queue(c, s, at) = d
      BY <1>2, <1>4 DEF Queue
    <2>2. Ordered(c) /\ s \notin Resident(c) /\ c.next \in Sequence /\ Resident(c) = Resident(b)
      BY <1>1 DEF Ordered, Resident
    <2>3. d \in BufferRecord /\ SameTiming(c, d) /\ Ordered(d)
          /\ Resident(d) \subseteq Resident(c) \cup {s}
      BY <1>1, <2>2, QueueFrameIs
    <2> HIDE DEF d
    <2>4. \A x \in Resident(d) : x \in Resident(b) \/ (x = s /\ ~IsOutsideWindow(b, s))
      BY <1>4, <2>2, <2>3
    <2>5. Kept(b, s, d)
      BY <1>1, <2>3, <2>4 DEF Kept, SameTiming, Adapted
    <2> QED
      BY <2>1, <2>5
  <1> QED
    BY <1>3, <1>4

(* Noting the newest frame changes nothing else.                           *)
LEMMA SeenIs ==
  ASSUME NEW b \in BufferRecord, NEW s \in Sequence, b.next \in Sequence, Ordered(b),
         s \notin Resident(b)
  PROVE  LET seen == [b EXCEPT !.latest = s]
         IN  /\ seen \in BufferRecord /\ seen.next = b.next /\ seen.latest # None
             /\ seen.anchor = b.anchor /\ seen.playout = b.playout
             /\ Ordered(seen) /\ s \notin Resident(seen)
             /\ \A c : Kept(seen, s, c) => Kept(b, s, c)
             /\ IsOutsideWindow(seen, s) <=> IsOutsideWindow(b, s)
  <1> DEFINE seen == [b EXCEPT !.latest = s]
  <1>1. seen \in BufferRecord
    BY DEF BufferRecord
  <1>2. /\ seen.next = b.next /\ seen.latest = s /\ seen.anchor = b.anchor
        /\ seen.playout = b.playout /\ seen.frames = b.frames
    BY DEF BufferRecord
  <1> HIDE DEF seen
  <1>3. seen.latest # None
    BY <1>2, Constants
  <1>4. Ordered(seen) /\ Resident(seen) = Resident(b)
        /\ (IsOutsideWindow(seen, s) <=> IsOutsideWindow(b, s))
    BY <1>2 DEF Ordered, Resident, IsOutsideWindow
  <1>5. \A c : Kept(seen, s, c) => Kept(b, s, c)
    BY <1>2, <1>4 DEF Kept
  <1> QED
    BY <1>1, <1>2, <1>3, <1>4, <1>5 DEF seen

LEMMA PushIs ==
  ASSUME NEW b \in BufferRecord, NEW s \in Sequence, NEW at \in Nat,
         b.next \in Sequence, b.latest \in Sequence, Ordered(b)
  PROVE  LET to == Push(b, s, at).to
         IN  Kept(b, s, to) \/ (IsOutsideWindow(b, s) /\ Started(s, at, to))
  <1> DEFINE late == LateFrames(b, s, at)
             Good(c) == Kept(b, s, c) \/ (IsOutsideWindow(b, s) /\ Started(s, at, c))
             seen == [b EXCEPT !.latest = s]
  <1>1. late \in Nat /\ b.next # None /\ b.latest # None
    BY LateIs, Constants
  <1>2. Adapted(b, b)
    BY DEF Adapted
  <1>3. \A c : Adapted(b, c) => Kept(b, s, c)
    BY <1>1 DEF Kept, Adapted, Ordered, Resident
  <1>4. CASE IsDuplicate(b, s)
    <2>1. Push(b, s, at).to = b
      BY <1>1, <1>4 DEF Push, Pushed
    <2> QED
      BY <1>2, <1>3, <2>1
  <1>5. CASE ~IsDuplicate(b, s)
    <2>1. s \notin Resident(b)
      BY <1>5 DEF IsDuplicate
    <2>2. /\ seen \in BufferRecord /\ seen.next = b.next /\ seen.latest # None
          /\ Ordered(seen) /\ s \notin Resident(seen)
          /\ \A c : Kept(seen, s, c) => Kept(b, s, c)
          /\ IsOutsideWindow(seen, s) <=> IsOutsideWindow(b, s)
      BY <2>1, SeenIs
    <2>3. Push(b, s, at) =
            CASE ClassifySequence(b.latest, s) = "InOrder" -> PushInOrder(b, s, at, late)
              [] ClassifySequence(b.latest, s) = "Gap" -> PushGap(b, s, at, late)
              [] OTHER -> PushBehind(b, s, at, late)
      BY <1>1, <1>5 DEF Push
    <2> HIDE DEF late, seen
    <2>4. \A c : Adapted(seen, c) => Good(Queue(c, s, at))
      BY <2>2, QueueIs
    <2>5. \A c : Adapted(b, c) => Good(Queue(c, s, at))
      BY <1>1, <2>1, QueueIs
    <2>6. Good(PushInOrder(b, s, at, late).to)
      <3>1. PushInOrder(b, s, at, late).to =
              IF late > 0 THEN Queue(RegisterAdverse(seen, late), s, at)
              ELSE Queue(RegisterStable(seen), s, at)
        BY DEF PushInOrder, Pushed, seen
      <3>2. Adapted(seen, RegisterAdverse(seen, late)) /\ Adapted(seen, RegisterStable(seen))
        BY <1>1, <2>2, AdverseIs, StableIs
      <3> HIDE DEF Good
      <3> QED
        BY <2>4, <3>1, <3>2
    <2>7. ASSUME ClassifySequence(b.latest, s) = "Gap"
          PROVE  Good(PushGap(b, s, at, late).to)
      <3> DEFINE missed == RegisterAdverse(seen, Distance(b.latest, s) - 1)
                 delayed == IF late > 0 THEN RegisterAdverse(missed, late) ELSE missed
      <3>1. Distance(b.latest, s) \in Nat
        BY DistanceTyped
      <3>2. Distance(b.latest, s) > 1
        BY <2>7 DEF ClassifySequence
      <3>3. Distance(b.latest, s) - 1 \in Nat
        BY <3>1, <3>2
      <3>4. Adapted(seen, missed)
        BY <2>2, <3>3, AdverseIs
      <3>5. missed \in BufferRecord
        BY <3>4 DEF Adapted
      <3>6. PushGap(b, s, at, late).to = Queue(delayed, s, at)
        BY DEF PushGap, Pushed, seen
      <3> HIDE DEF missed
      <3>7. Adapted(missed, RegisterAdverse(missed, late))
        BY <1>1, <3>5, AdverseIs
      <3>8. Adapted(seen, delayed)
        BY <2>2, <3>4, <3>7, AdaptedTwice
      <3> HIDE DEF delayed, Good
      <3> QED
        BY <2>4, <3>6, <3>8
    <2>8. Good(PushBehind(b, s, at, late).to)
      <3>1. PushBehind(b, s, at, late).to =
              IF IsFuture(b, s)
              THEN Queue(IF late > 0 THEN RegisterAdverse(b, late) ELSE b, s, at)
              ELSE RegisterAdverse(b, 1)
        BY DEF PushBehind, Pushed
      <3>2. Adapted(b, RegisterAdverse(b, late)) /\ Adapted(b, RegisterAdverse(b, 1))
        BY <1>1, AdverseIs
      <3> QED
        BY <1>2, <1>3, <2>5, <3>1, <3>2
    <2> HIDE DEF Good
    <2>9. Good(Push(b, s, at).to)
      BY <2>3, <2>6, <2>7, <2>8
    <2> QED
      BY <2>9 DEF Good
  <1> QED
    BY <1>4, <1>5

LEMMA PushFirstIs ==
  ASSUME NEW b \in BufferRecord, NEW s \in Sequence, NEW at \in Nat,
         b.next = None, b.frames = <<>>
  PROVE  Started(s, at, Push(b, s, at).to)
  <1> DEFINE c == Push(b, s, at).to
  <1>1. b.target \in MinTargetDelay..MaxTargetDelay /\ MinTargetDelay \in Nat
        /\ MaxTargetDelay \in Nat /\ b.target \in Nat /\ at + b.target \in Nat
        /\ (at + b.target) - at = b.target
    BY FieldsTyped, JitterConstantsAssumption
  <1>2. Append(<<>>, s) = <<s>>
    OBVIOUS
  <1>3. c = [b EXCEPT !.next = s, !.latest = s, !.anchor = [seq |-> s, at |-> at],
                      !.playout = at + b.target, !.frames = <<s>>]
    BY <1>2 DEF Push, PushFirst, Pushed
  <1>4. <<s>> \in Seq(Sequence) /\ Len(<<s>>) = 1 /\ DOMAIN <<s>> = {1} /\ <<s>>[1] = s
    OBVIOUS
  <1> HIDE DEF c
  <1>5. c \in BufferRecord
    BY <1>1, <1>3, <1>4 DEF BufferRecord
  <1>6. /\ c.frames = <<s>> /\ c.next = s /\ c.latest = s
        /\ c.anchor = [seq |-> s, at |-> at] /\ c.playout = at + b.target
    BY <1>3 DEF BufferRecord
  <1>7. Sorted(c.next, c.frames)
    BY <1>4, <1>6 DEF Sorted
  <1>8. Len(c.frames) <= MaxBufferedFrames
    BY <1>4, <1>6, Constants
  <1>9. \A x \in Resident(c) : x = s
    BY <1>4, <1>6 DEF Resident
  <1>10. Started(s, at, c)
    BY <1>1, <1>5, <1>6, <1>7, <1>8, <1>9, Constants DEF Started, Ordered
  <1> QED
    BY <1>10 DEF c

LEMMA PollIs ==
  ASSUME NEW b \in BufferRecord, b.next \in Sequence, Ordered(b)
  PROVE  LET c == Poll(b)
         IN  /\ c \in BufferRecord /\ Ordered(c)
             /\ c.next = Successor(b.next) /\ c.latest = b.latest /\ c.anchor = b.anchor
             /\ c.playout = b.playout + FrameDuration
             /\ \A x \in Resident(c) : x \in Resident(b) /\ x # b.next
  <1> DEFINE c == Poll(b)
             p == CHOOSE i \in DOMAIN b.frames : b.frames[i] = b.next
             left == IF PlaysAudio(b) THEN Removed(b.frames, p) ELSE b.frames
  <1>1. /\ b.frames \in Seq(Sequence) /\ Len(b.frames) \in Nat
        /\ DOMAIN b.frames = 1..Len(b.frames) /\ Len(b.frames) <= MaxBufferedFrames
        /\ Sorted(b.next, b.frames)
    BY FieldsTyped, LenProperties DEF Ordered
  <1>2. PlaysAudio(b) => p \in 1..Len(b.frames) /\ b.frames[p] = b.next
    <2>1. PlaysAudio(b) => \E i \in DOMAIN b.frames : b.frames[i] = b.next
      BY DEF PlaysAudio, Resident
    <2> QED
      BY <1>1, <2>1
  <1> HIDE DEF p
  <1>3. /\ left \in Seq(Sequence) /\ Len(left) <= MaxBufferedFrames /\ Sorted(b.next, left)
        /\ Members(left) \subseteq Members(b.frames)
    <2>1. CASE PlaysAudio(b)
      <3>1. left = Removed(b.frames, p) /\ p \in 1..Len(b.frames)
        BY <1>2, <2>1
      <3>2. Len(b.frames) - 1 <= MaxBufferedFrames
        BY <1>1, Constants
      <3> HIDE DEF left
      <3> QED
        BY <1>1, <3>1, <3>2, RemovedIs, RemovedKeeps
    <2>2. CASE ~PlaysAudio(b)
      BY <1>1, <2>2
    <2> QED
      BY <2>1, <2>2
  <1>4. b.next \notin Members(left)
    <2>1. CASE PlaysAudio(b)
      <3>1. /\ left = Removed(b.frames, p) /\ p \in 1..Len(b.frames)
            /\ b.frames[p] = b.next
        BY <1>2, <2>1
      <3> HIDE DEF left
      <3> SUFFICES ASSUME NEW i \in 1..(Len(b.frames) - 1), left[i] = b.next
                   PROVE  FALSE
        BY <1>1, <3>1, RemovedIs DEF Members
      <3> DEFINE was == IF i < p THEN i ELSE i + 1
      <3>2. was \in 1..Len(b.frames) /\ (was < p \/ p < was)
        BY <1>1, <3>1
      <3>3. b.frames[was] = b.next
        BY <1>1, <3>1, RemovedIs
      <3> HIDE DEF was
      <3>4. Distance(b.next, b.frames[was]) = 0 /\ Distance(b.next, b.frames[p]) = 0
        BY <3>1, <3>3, DistanceOfItself
      <3>5. Distance(b.next, b.frames[was]) < Distance(b.next, b.frames[p])
            \/ Distance(b.next, b.frames[p]) < Distance(b.next, b.frames[was])
        BY <1>1, <3>1, <3>2 DEF Sorted
      <3> QED
        BY <3>4, <3>5
    <2>2. CASE ~PlaysAudio(b)
      BY <2>2 DEF PlaysAudio, Resident, Members
    <2> QED
      BY <2>1, <2>2
  <1>5. c = [b EXCEPT !.next = Successor(b.next), !.playout = b.playout + FrameDuration,
                      !.lastPlayed = b.next, !.frames = left]
    BY DEF Poll, p
  <1> HIDE DEF left, c
  <1>6. Successor(b.next) \in Sequence /\ b.playout + FrameDuration \in Nat
    BY SuccessorIs, FieldsTyped, JitterConstantsAssumption
  <1>7. c \in BufferRecord
    BY <1>3, <1>5, <1>6 DEF BufferRecord
  <1>8. /\ c.next = Successor(b.next) /\ c.latest = b.latest /\ c.anchor = b.anchor
        /\ c.playout = b.playout + FrameDuration /\ c.frames = left
    BY <1>5 DEF BufferRecord
  <1>9. \A x \in Members(left) : x \in Sequence /\ x # b.next
    <2>1. \A i \in DOMAIN left : left[i] \in Sequence
      BY <1>3, LenProperties, ElementOfSeq
    <2> QED
      BY <1>4, <2>1 DEF Members
  <1>10. Sorted(c.next, left)
    <2> SUFFICES ASSUME NEW i \in DOMAIN left, NEW j \in DOMAIN left, i < j
                 PROVE  Distance(c.next, left[i]) < Distance(c.next, left[j])
      BY DEF Sorted
    <2>1. /\ left[i] \in Sequence /\ left[i] # b.next
          /\ left[j] \in Sequence /\ left[j] # b.next
      BY <1>9 DEF Members
    <2>2. Distance(c.next, left[i]) = Distance(b.next, left[i]) - 1
          /\ Distance(c.next, left[j]) = Distance(b.next, left[j]) - 1
      BY <1>8, <2>1, SlotLater
    <2>3. Distance(b.next, left[i]) < Distance(b.next, left[j])
      BY <1>3 DEF Sorted
    <2>4. Distance(b.next, left[i]) \in Nat /\ Distance(b.next, left[j]) \in Nat
      BY <2>1, DistanceTyped
    <2> QED
      BY <2>2, <2>3, <2>4
  <1>11. Ordered(c)
    BY <1>3, <1>8, <1>10 DEF Ordered
  <1>12. \A x \in Resident(c) : x \in Resident(b) /\ x # b.next
    BY <1>3, <1>8, <1>9, ResidentIs
  <1> QED
    BY <1>7, <1>8, <1>11, <1>12 DEF c

-----------------------------------------------------------------------------
(* The queue, however long the session.                                    *)

LEMMA FifoIsOrdered == FifoOrdered <=> Ordered(buf)
  BY DEF FifoOrdered, Ordered, Sorted

LEMMA Bounds ==
  /\ MaxTime \in Nat /\ MaxFaults \in Nat /\ FrameDuration \in Nat \ {0}
  /\ MinTargetDelay \in Nat /\ MaxTargetDelay \in Nat /\ MinTargetDelay <= MaxTargetDelay
  BY PlayoutBoundsAssumption, JitterConstantsAssumption

LEMMA EmptyIs ==
  EmptyBuffer \in BufferRecord /\ Ordered(EmptyBuffer) /\ EmptyBuffer.next = None
  /\ EmptyBuffer.frames = <<>>
  <1>1. /\ 0 \in 0..(GrowthThreshold - 1) /\ 0 \in 0..(StablePeriod - 1)
        /\ MinTargetDelay \in MinTargetDelay..MaxTargetDelay /\ 0 \in Sequence
    BY JitterConstantsAssumption, Constants
  <1>2. <<>> \in Seq(Sequence) /\ Len(<<>>) = 0 /\ DOMAIN <<>> = {}
    BY EmptySeq
  <1>3. EmptyBuffer \in BufferRecord
    BY <1>1, <1>2 DEF EmptyBuffer, BufferRecord
  <1>4. EmptyBuffer.frames = <<>> /\ EmptyBuffer.next = None
    BY DEF EmptyBuffer
  <1>5. Ordered(EmptyBuffer)
    BY <1>2, <1>4, Constants DEF Ordered, Sorted
  <1> QED
    BY <1>3, <1>4, <1>5

LEMMA SpendTyped ==
  ASSUME faults \in 0..MaxFaults, NEW n \in Nat, Spend(n)
  PROVE  faults' \in 0..MaxFaults
  BY Bounds DEF Spend

LEMMA OneIs == \A c : One(c) \in 0..1
  BY DEF One

(* What Deliver does to the buffer.                                        *)
LEMMA Delivered ==
  ASSUME QueueInv, NEW s \in flight, Deliver(s)
  PROVE  \/ buf.next = None /\ Started(s, now, buf')
         \/ buf.next # None /\ Kept(buf, s, buf')
         \/ buf.next # None /\ IsOutsideWindow(buf, s) /\ Started(s, now, buf')
  <1>1. buf \in BufferRecord /\ Ordered(buf) /\ s \in Sequence /\ now \in Nat
    BY FifoIsOrdered, Bounds DEF QueueInv, TypeOK
  <1>2. buf' = Push(buf, s, now).to
    BY DEF Deliver
  <1>3. CASE buf.next = None
    BY <1>1, <1>2, <1>3, PushFirstIs DEF QueueInv, BufferInv
  <1>4. CASE buf.next # None
    <2>1. buf.next \in Sequence /\ buf.latest \in Sequence
      BY <1>1, <1>4, FieldsTyped DEF QueueInv, BufferInv
    <2> QED
      BY <1>1, <1>2, <1>4, <2>1, PushIs
  <1> QED
    BY <1>3, <1>4

LEMMA QueueInit == Init => QueueInv
  <1> SUFFICES ASSUME Init PROVE QueueInv
    OBVIOUS
  <1>1. TypeOK
    <2>1. 0 \in 0..MaxTime /\ 0 \in 0..MaxFaults /\ FALSE \in BOOLEAN
      BY Bounds
    <2>2. now = 0 /\ faults = 0 /\ heldUp = FALSE /\ flight = {} /\ dueFrames = {}
          /\ heard = <<>> /\ buf = EmptyBuffer /\ sent \in Sequence
      BY DEF Init
    <2> QED
      BY <2>1, <2>2, EmptyIs, EmptySeq DEF TypeOK
  <1>2. BufferInv
    BY EmptyIs DEF Init, BufferInv
  <1>3. FifoOrdered
    BY EmptyIs, FifoIsOrdered DEF Init
  <1> QED
    BY <1>1, <1>2, <1>3 DEF QueueInv

LEMMA QueueStep ==
  ASSUME QueueInv, [Next]_vars
  PROVE  QueueInv'
  <1>1. /\ now \in Nat /\ now <= MaxTime /\ sent \in Sequence /\ flight \subseteq Sequence
        /\ heldUp \in BOOLEAN /\ buf \in BufferRecord /\ heard \in Seq(Sequence)
        /\ dueFrames \subseteq Sequence /\ faults \in 0..MaxFaults /\ Ordered(buf)
    BY Bounds, FifoIsOrdered DEF QueueInv, TypeOK
  <1>2. Ordered(buf') => FifoOrdered'
    BY DEF FifoOrdered, Ordered, Sorted
  <1>3. \A c, d, e : One(c) + One(d) + One(e) \in Nat /\ One(c) + One(d) \in Nat
    <2>1. \A a, b, c \in 0..1 : a + b + c \in Nat /\ a + b \in Nat
      OBVIOUS
    <2> QED
      BY <2>1, OneIs
  <1>4. CASE Tick
    <2>1. faults' \in 0..MaxFaults
      BY <1>1, <1>3, <1>4, SpendTyped DEF Tick
    <2>2. now' \in 0..MaxTime
      BY <1>1, <1>4, Bounds DEF Tick
    <2>3. sent' \in Sequence /\ flight' \subseteq Sequence
      BY <1>1, <1>4, SuccessorIs DEF Tick
    <2>4. UNCHANGED <<heldUp, buf, heard, dueFrames>>
      BY <1>4 DEF Tick
    <2> QED
      BY <1>1, <1>2, <2>1, <2>2, <2>3, <2>4 DEF QueueInv, TypeOK, BufferInv
  <1>5. CASE HoldUp
    <2>1. faults' \in 0..MaxFaults
      BY <1>1, <1>5, SpendTyped DEF HoldUp
    <2> QED
      BY <1>1, <1>2, <1>5, <2>1, Bounds DEF HoldUp, QueueInv, TypeOK, BufferInv
  <1>6. CASE Resume
    BY <1>1, <1>2, <1>6, Bounds DEF Resume, QueueInv, TypeOK, BufferInv
  <1>7. ASSUME NEW s \in flight, Lose(s)
        PROVE  QueueInv'
    <2>1. faults' \in 0..MaxFaults
      BY <1>1, <1>7, SpendTyped DEF Lose
    <2>2. flight' \subseteq Sequence /\ UNCHANGED <<now, sent, heldUp, buf, heard, dueFrames>>
      BY <1>1, <1>7 DEF Lose
    <2> QED
      BY <1>1, <1>2, <2>1, <2>2, Bounds DEF QueueInv, TypeOK, BufferInv
  <1>8. ASSUME NEW s \in flight, Deliver(s)
        PROVE  QueueInv'
    <2>1. faults' \in 0..MaxFaults
      BY <1>1, <1>3, <1>8, SpendTyped DEF Deliver
    <2>2. flight' \subseteq Sequence /\ UNCHANGED <<now, sent, heldUp, heard>>
      BY <1>1, <1>8 DEF Deliver
    <2>3. dueFrames' \subseteq Sequence
      <3>1. dueFrames' = dueFrames \/ dueFrames' = {s} \/ dueFrames' = dueFrames \cup {s}
        BY <1>8 DEF Deliver
      <3> QED
        BY <1>1, <3>1
    <2>4. s \in Sequence
      BY <1>1
    <2>5. buf' \in BufferRecord /\ Ordered(buf') /\ buf'.next # None /\ buf'.latest # None
      BY <1>8, <2>4, Delivered, Constants DEF Started, Kept
    <2> QED
      BY <1>1, <1>2, <2>1, <2>2, <2>3, <2>5, Bounds DEF QueueInv, TypeOK, BufferInv
  <1>9. CASE Play
    <2>1. buf.next \in Sequence /\ buf.latest # None
      BY <1>1, <1>9, FieldsTyped DEF Play, PollReady, QueueInv, BufferInv
    <2>2. buf' = Poll(buf)
      BY <1>9 DEF Play
    <2>3. buf' \in BufferRecord /\ Ordered(buf') /\ buf'.next = Successor(buf.next)
          /\ buf'.latest = buf.latest
      BY <1>1, <2>1, <2>2, PollIs
    <2>4. buf'.next # None
      BY <2>1, <2>3, SuccessorIs, Constants
    <2>5. heard' \in Seq(Sequence) /\ dueFrames' \subseteq Sequence
          /\ UNCHANGED <<now, sent, flight, heldUp, faults>>
      BY <1>1, <1>9, <2>1, AppendProperties DEF Play
    <2> QED
      BY <1>1, <1>2, <2>1, <2>3, <2>4, <2>5, Bounds DEF QueueInv, TypeOK, BufferInv
  <1>10. CASE Clear
    <2>1. faults' \in 0..MaxFaults
      BY <1>1, <1>10, SpendTyped DEF Clear
    <2>2. /\ buf' = EmptyBuffer /\ heard' = <<>> /\ dueFrames' = {}
          /\ UNCHANGED <<now, sent, flight, heldUp>>
      BY <1>10 DEF Clear
    <2> QED
      BY <1>1, <1>2, <2>1, <2>2, EmptyIs, Bounds DEF QueueInv, TypeOK, BufferInv
  <1>11. CASE UNCHANGED vars
    BY <1>1, <1>2, <1>11, Bounds DEF vars, QueueInv, TypeOK, BufferInv
  <1> QED
    BY <1>4, <1>5, <1>6, <1>7, <1>8, <1>9, <1>10, <1>11 DEF Next

LEMMA QueueInvariant == Spec => []QueueInv
  <1>1. QueueInv /\ [Next]_vars => QueueInv'
    BY QueueStep
  <1> QED
    BY QueueInit, <1>1, PTL DEF Spec

(* queue_frame never lets the FIFO grow past MAX_BUFFERED_FRAMES, and      *)
(* keeps it strictly in the order of the slots to come, across wrap-around,*)
(* eviction, a restarted window and a session of any length: no frame is   *)
(* resident twice, pop_front takes the front slot, and poll the only frame *)
(* of its sequence.                                                        *)
THEOREM QueueStaysOrdered == Spec => []FifoOrdered
  <1>1. QueueInv => FifoOrdered
    BY DEF QueueInv
  <1> QED
    BY QueueInvariant, <1>1, PTL

-----------------------------------------------------------------------------
(* The pace of the capture, in a session too short to send half of the     *)
(* sequence space: with 2^32 sequences and 5 ms frames, in 124 days.       *)

ShortSession == MaxTime < Half * FrameDuration

LEMMA Times ==
  ASSUME NEW a \in Nat, NEW b \in Nat, NEW f \in Nat \ {0}
  PROVE  /\ (a + b) * f = a * f + b * f
         /\ a * f \in Nat
         /\ a <= b => a * f <= b * f
         /\ 1 * f = f /\ 0 * f = 0
  BY SMT

LEMMA DelayedFrom ==
  ASSUME NEW base \in Sequence, NEW s \in Sequence, NEW time \in Nat
  PROVE  /\ Distance(base, s) * FrameDuration \in Nat
         /\ Reached(base, s, time) <=> Distance(base, s) * FrameDuration + FrameDuration <= time
  <1>1. Distance(base, s) \in Nat /\ FrameDuration \in Nat \ {0} /\ 1 \in Nat
    BY DistanceTyped, Bounds
  <1> DEFINE d == Distance(base, s)
  <1> HIDE DEF d
  <1>2. (d + 1) * FrameDuration = d * FrameDuration + 1 * FrameDuration
        /\ 1 * FrameDuration = FrameDuration /\ d * FrameDuration \in Nat
    BY <1>1, Times DEF d
  <1>3. Reached(base, s, time) <=> d * FrameDuration + FrameDuration <= time
    BY <1>2 DEF Reached, d
  <1> QED
    BY <1>2, <1>3 DEF d

(* What keeps to the pace is not half the sequence space from the base.    *)
LEMMA Early ==
  ASSUME ShortSession, NEW base \in Sequence, NEW s \in Sequence, NEW time \in Nat,
         time <= MaxTime, Distance(base, s) * FrameDuration <= time
  PROVE  Distance(base, s) < Half
  <1>1. Distance(base, s) \in Nat /\ FrameDuration \in Nat \ {0} /\ Half \in Nat /\ MaxTime \in Nat
    BY DistanceTyped, Bounds, Constants
  <1> DEFINE d == Distance(base, s)
             h == Half * FrameDuration
             e == d * FrameDuration
  <1>2. Half <= d => h <= e
    BY <1>1, Times
  <1>3. h \in Nat /\ e \in Nat
    BY <1>1, Times
  <1>4. MaxTime < h /\ e <= time
    BY DEF ShortSession
  <1> HIDE DEF h, e
  <1>5. ~(h <= e)
    BY <1>1, <1>3, <1>4
  <1> QED
    BY <1>1, <1>2, <1>5

(* Sequences in the same half do not wrap.                                 *)
LEMMA Positions ==
  ASSUME NEW base \in Sequence, NEW x \in Sequence, NEW y \in Sequence,
         Distance(base, x) < Half, Distance(base, y) < Half
  PROVE  /\ Distance(x, y) < Half <=> Distance(base, x) <= Distance(base, y)
         /\ Distance(base, x) <= Distance(base, y) =>
              Distance(x, y) = Distance(base, y) - Distance(base, x)
         /\ Distance(x, y) # Half
  <1>1. /\ Distance(base, x) \in Nat /\ Distance(base, y) \in Nat /\ Half \in Nat
        /\ 2 * Half <= SequenceRange /\ SequenceRange \in Nat
    BY DistanceTyped, Constants
  <1>2. Distance(x, y) = IF Distance(base, x) <= Distance(base, y)
                         THEN Distance(base, y) - Distance(base, x)
                         ELSE Distance(base, y) - Distance(base, x) + SequenceRange
    BY DistanceFromBase
  <1> DEFINE p == Distance(base, x)
             q == Distance(base, y)
  <1> HIDE DEF p, q
  <1>3. p \in Nat /\ q \in Nat /\ p < Half /\ q < Half
        /\ Distance(x, y) = IF p <= q THEN q - p ELSE q - p + SequenceRange
    BY <1>1, <1>2 DEF p, q
  <1>4. /\ Distance(x, y) < Half <=> p <= q
        /\ p <= q => Distance(x, y) = q - p
        /\ Distance(x, y) # Half
    BY <1>1, <1>3
  <1> QED
    BY <1>4 DEF p, q

LEMMA NextPosition ==
  ASSUME NEW base \in Sequence, NEW x \in Sequence
  PROVE  /\ Distance(base, x) < Half => Distance(base, Successor(x)) = Distance(base, x) + 1
         /\ Distance(base, Successor(x)) <= Distance(base, x) + 1
  <1>1. /\ SequenceRange \in Nat \ {0} /\ x \in 0..(SequenceRange - 1)
        /\ base \in 0..(SequenceRange - 1) /\ Half \in Nat /\ Half < SequenceRange
        /\ 2 * Half <= SequenceRange /\ Half \in Nat \ {0}
    <2>1. Half \in Nat \ {0}
      BY Constants
    <2> QED
      BY <2>1, Constants DEF Sequence
  <1>2. Distance(base, x) = IF base <= x THEN x - base ELSE x - base + SequenceRange
    BY DistanceIs
  <1>3. Successor(x) \in Sequence /\ Successor(x) = IF x + 1 < SequenceRange THEN x + 1 ELSE 0
    BY SuccessorIs
  <1>4. Distance(base, Successor(x)) =
          IF base <= Successor(x) THEN Successor(x) - base ELSE Successor(x) - base + SequenceRange
    BY <1>3, DistanceIs
  <1> QED
    BY <1>1, <1>2, <1>3, <1>4

LEMMA NoDistance == ASSUME NEW s \in Sequence PROVE Distance(s, s) = 0
  BY DistanceOfItself

(* What was rendered, with the slot moved on and with one more frame.      *)
LEMMA RenderedNothing == ASSUME NEW base, NEW next PROVE Rendered(base, <<>>, next)
  BY EmptySeq DEF Rendered

LEMMA RenderedLater ==
  ASSUME NEW base \in Sequence, NEW next \in Sequence, NEW later \in Sequence,
         NEW frames \in Seq(Sequence), Rendered(base, frames, next),
         Distance(base, next) <= Distance(base, later)
  PROVE  Rendered(base, frames, later)
  <1>1. ASSUME NEW i \in DOMAIN frames
        PROVE  Distance(base, frames[i]) < Distance(base, later)
    <2>1. frames[i] \in Sequence
      BY LenProperties, ElementOfSeq
    <2>2. Distance(base, frames[i]) < Distance(base, next)
      BY DEF Rendered
    <2>3. Distance(base, frames[i]) \in Nat /\ Distance(base, next) \in Nat
          /\ Distance(base, later) \in Nat
      BY <2>1, DistanceTyped
    <2> QED
      BY <2>2, <2>3
  <1> QED
    BY <1>1 DEF Rendered

LEMMA RenderedMore ==
  ASSUME NEW base \in Sequence, NEW next \in Sequence, NEW later \in Sequence,
         NEW frames \in Seq(Sequence), Rendered(base, frames, next),
         Distance(base, next) < Distance(base, later)
  PROVE  Rendered(base, Append(frames, next), later)
  <1> DEFINE more == Append(frames, next)
  <1>1. /\ DOMAIN frames = 1..Len(frames) /\ Len(frames) \in Nat
        /\ DOMAIN more = 1..(Len(frames) + 1)
        /\ \A i \in DOMAIN frames : more[i] = frames[i]
        /\ more[Len(frames) + 1] = next
    <2>1. Len(frames) \in Nat /\ DOMAIN frames = 1..Len(frames)
      BY LenProperties
    <2> QED
      BY <2>1, AppendProperties, LenProperties
  <1> HIDE DEF more
  <1>2. \A i \in DOMAIN more : i \in DOMAIN frames \/ (more[i] = next /\ i = Len(frames) + 1)
    BY <1>1
  <1>3. Distance(base, next) <= Distance(base, later)
    BY DistanceTyped
  <1>4. Rendered(base, frames, later)
    BY <1>3, RenderedLater
  <1>5. \A i \in DOMAIN more : Distance(base, more[i]) < Distance(base, later)
    BY <1>1, <1>2, <1>4 DEF Rendered
  <1>6. ASSUME NEW i \in DOMAIN more, NEW j \in DOMAIN more, i < j
        PROVE  Distance(base, more[i]) < Distance(base, more[j])
    <2>1. i \in DOMAIN frames
      BY <1>1, <1>6
    <2>2. CASE j \in DOMAIN frames
      BY <1>1, <1>6, <2>1, <2>2 DEF Rendered
    <2>3. CASE more[j] = next
      BY <1>1, <2>1, <2>3 DEF Rendered
    <2> QED
      BY <1>2, <2>2, <2>3
  <1>7. Rendered(base, more, later)
    BY <1>5, <1>6 DEF Rendered
  <1> QED
    BY <1>7 DEF more

LEMMA PaceInit == Init => PaceInv
  <1> SUFFICES ASSUME Init PROVE PaceInv
    OBVIOUS
  <1>1. QueueInv
    BY QueueInit
  <1>2. /\ now = 0 /\ flight = {} /\ buf = EmptyBuffer /\ heard = <<>> /\ sent \in Sequence
        /\ buf.next = None /\ buf.frames = <<>>
    BY EmptyIs DEF Init
  <1>3. Paced(sent)
    <2>1. Distance(sent, sent) * FrameDuration = 0
      BY <1>2, NoDistance, Times, Bounds
    <2> QED
      BY <1>2, <2>1 DEF Paced
  <1>4. PlayoutDelayInRange
    BY <1>2 DEF PlayoutDelayInRange
  <1>5. ResidentsInWindow
    BY <1>2, EmptySeq DEF ResidentsInWindow, Resident
  <1> QED
    BY <1>1, <1>2, <1>3, <1>4, <1>5 DEF PaceInv

(* The slots of a buffer, placed on the capture's time.                    *)
LEMMA Placed ==
  ASSUME ShortSession, QueueInv, NEW base \in Sequence, Paced(base), buf.next # None
  PROVE  /\ now \in Nat /\ now <= MaxTime
         /\ buf.next \in Sequence /\ Distance(base, buf.next) < Half
         /\ buf.anchor.seq \in Sequence /\ buf.anchor.at \in Nat /\ buf.playout \in Nat
         /\ Distance(base, buf.anchor.seq) < Half
         /\ Distance(buf.anchor.seq, buf.next) < Half
         /\ Distance(base, buf.next)
              = Distance(base, buf.anchor.seq) + Distance(buf.anchor.seq, buf.next)
         /\ \A x \in Resident(buf) : x \in Sequence /\ Distance(base, x) < Half
  <1>1. buf \in BufferRecord /\ now \in Nat /\ now <= MaxTime
    BY Bounds DEF QueueInv, TypeOK
  <1>2. /\ buf.next \in Sequence /\ buf.anchor.seq \in Sequence /\ buf.anchor.at \in Nat
        /\ buf.playout \in Nat
    BY <1>1, FieldsTyped
  <1>3. /\ Distance(base, buf.anchor.seq) <= Distance(base, buf.next)
        /\ Distance(base, buf.next) * FrameDuration <= now
        /\ \A s \in Resident(buf) : Reached(base, s, now)
    BY DEF Paced
  <1>4. Distance(base, buf.next) < Half
    BY <1>1, <1>2, <1>3, Early
  <1>5. Distance(base, buf.anchor.seq) < Half
    <2>1. Half \in Nat /\ Distance(base, buf.anchor.seq) \in Nat /\ Distance(base, buf.next) \in Nat
      BY <1>2, DistanceTyped, Constants
    <2> QED
      BY <1>3, <1>4, <2>1
  <1>6. \A x \in Resident(buf) : x \in Sequence /\ Distance(base, x) < Half
    <2> TAKE x \in Resident(buf)
    <2>1. x \in Sequence
      <3>1. buf.frames \in Seq(Sequence)
        BY <1>1, FieldsTyped
      <3> QED
        BY <3>1, LenProperties, ElementOfSeq DEF Resident
    <2>2. Reached(base, x, now)
      BY <1>3
    <2>3. Distance(base, x) * FrameDuration <= now
      BY <1>1, <2>1, <2>2, DelayedFrom, Bounds
    <2> QED
      BY <1>1, <2>1, <2>3, Early
  <1>7. /\ Distance(buf.anchor.seq, buf.next) < Half
        /\ Distance(buf.anchor.seq, buf.next)
             = Distance(base, buf.next) - Distance(base, buf.anchor.seq)
    BY <1>2, <1>3, <1>4, <1>5, Positions
  <1>8. Distance(base, buf.next) \in Nat /\ Distance(base, buf.anchor.seq) \in Nat
    BY <1>2, DistanceTyped
  <1> QED
    BY <1>1, <1>2, <1>4, <1>5, <1>6, <1>7, <1>8

LEMMA PaceTick ==
  ASSUME ShortSession, QueueInv, NEW base \in Sequence, Paced(base), Tick
  PROVE  Paced(base)'
  <1>1. /\ now \in Nat /\ sent \in Sequence /\ flight \subseteq Sequence
        /\ FrameDuration \in Nat \ {0} /\ buf \in BufferRecord
    BY Bounds DEF QueueInv, TypeOK
  <1>2. /\ now' = now + FrameDuration /\ now' \in Nat /\ now <= now'
        /\ sent' = sent \/ sent' = Successor(sent)
        /\ flight' \subseteq flight \cup {sent}
        /\ UNCHANGED <<buf, heard>>
    BY <1>1 DEF Tick
  <1>3. Distance(base, sent) * FrameDuration <= now
    BY DEF Paced
  <1>4. \A s \in Sequence : Reached(base, s, now) => Reached(base, s, now')
    <2> TAKE s \in Sequence
    <2>1. Distance(base, s) * FrameDuration \in Nat
      BY DelayedFrom, <1>1
    <2>2. Reached(base, s, now) <=> Distance(base, s) * FrameDuration + FrameDuration <= now
      BY DelayedFrom, <1>1
    <2>3. Reached(base, s, now') <=> Distance(base, s) * FrameDuration + FrameDuration <= now'
      BY DelayedFrom, <1>1, <1>2
    <2> QED
      BY <1>1, <1>2, <2>1, <2>2, <2>3
  <1>5. Reached(base, sent, now')
    <2>1. Distance(base, sent) * FrameDuration \in Nat
      BY DelayedFrom, <1>1
    <2>2. Reached(base, sent, now') <=> Distance(base, sent) * FrameDuration + FrameDuration <= now'
      BY DelayedFrom, <1>1, <1>2
    <2> QED
      BY <1>1, <1>2, <1>3, <2>1, <2>2
  <1>6. Distance(base, sent') * FrameDuration <= now'
    <2>1. Distance(base, sent) * FrameDuration \in Nat
      BY DelayedFrom, <1>1
    <2>2. CASE sent' = sent
      BY <1>1, <1>2, <1>3, <2>1, <2>2
    <2>3. CASE sent' = Successor(sent)
      <3>1. /\ sent' \in Sequence /\ Distance(base, sent') \in Nat /\ Distance(base, sent) \in Nat
            /\ Distance(base, sent') <= Distance(base, sent) + 1
        BY <1>1, <2>3, SuccessorIs, DistanceTyped, NextPosition
      <3>2. Distance(base, sent) + 1 \in Nat
        BY <3>1
      <3>3. Distance(base, sent') * FrameDuration <= (Distance(base, sent) + 1) * FrameDuration
        BY <1>1, <3>1, <3>2, Times
      <3>4. (Distance(base, sent) + 1) * FrameDuration <= now'
        BY <1>5 DEF Reached
      <3>5. Distance(base, sent') * FrameDuration \in Nat
            /\ (Distance(base, sent) + 1) * FrameDuration \in Nat
        BY <1>1, <3>1, <3>2, Times
      <3> QED
        BY <1>2, <3>3, <3>4, <3>5
    <2> QED
      BY <1>2, <2>2, <2>3
  <1>7. \A s \in flight' : Reached(base, s, now')
    BY <1>1, <1>2, <1>4, <1>5 DEF Paced
  <1>8. ASSUME buf.next # None
        PROVE  /\ buf.anchor.at <= now'
               /\ Distance(base, buf.next) * FrameDuration <= now'
               /\ \A s \in Resident(buf) : Reached(base, s, now')
    <2>1. buf.anchor.at \in Nat /\ buf.next \in Sequence
          /\ Distance(base, buf.next) * FrameDuration \in Nat
      BY <1>1, <1>8, FieldsTyped, DelayedFrom
    <2>2. buf.anchor.at <= now /\ Distance(base, buf.next) * FrameDuration <= now
          /\ \A s \in Resident(buf) : Reached(base, s, now)
      BY <1>8 DEF Paced
    <2>3. \A s \in Resident(buf) : s \in Sequence
      BY <1>8, Placed
    <2> QED
      BY <1>1, <1>2, <1>4, <2>1, <2>2, <2>3
  <1> QED
    BY <1>2, <1>6, <1>7, <1>8 DEF Paced

LEMMA PaceDeliver ==
  ASSUME ShortSession, QueueInv, NEW base \in Sequence, Paced(base), ResidentsInWindow,
         PlayoutDelayInRange, NEW s \in flight, Deliver(s)
  PROVE  Paced(base)' /\ PlayoutDelayInRange' /\ ResidentsInWindow'
  <1>1. /\ now \in Nat /\ sent \in Sequence /\ flight \subseteq Sequence /\ s \in Sequence
        /\ now <= MaxTime
    BY Bounds DEF QueueInv, TypeOK
  <1>2. /\ UNCHANGED <<now, sent, heard>> /\ flight' \subseteq flight
    BY DEF Deliver
  <1>3. /\ Distance(base, sent) * FrameDuration <= now
        /\ \A x \in flight : Reached(base, x, now)
    BY DEF Paced
  <1>4. Reached(base, s, now) /\ Distance(base, s) * FrameDuration <= now
        /\ Distance(base, s) < Half
    <2>1. Reached(base, s, now)
      BY <1>3
    <2>2. Distance(base, s) * FrameDuration <= now
      BY <1>1, <2>1, DelayedFrom, Bounds
    <2> QED
      BY <1>1, <2>1, <2>2, Early
  <1>5. ASSUME Started(s, now, buf'), Rendered(base, heard, s)
        PROVE  Paced(base)' /\ PlayoutDelayInRange' /\ ResidentsInWindow'
    <2>1. /\ buf'.next = s /\ buf'.anchor = [seq |-> s, at |-> now]
          /\ \A x \in Resident(buf') : x = s
          /\ buf'.playout - now \in MinTargetDelay..MaxTargetDelay
          /\ buf'.anchor.seq = s /\ buf'.anchor.at = now
      BY <1>5 DEF Started
    <2>2. Distance(s, s) = 0 /\ Distance(base, s) \in Nat
      BY <1>1, NoDistance, DistanceTyped
    <2>3. Paced(base)'
      BY <1>1, <1>2, <1>3, <1>4, <1>5, <2>1, <2>2 DEF Paced
    <2>4. PlayoutDelayInRange'
      <3>1. 0 * FrameDuration = 0 /\ now + 0 = now
        BY <1>1, Times, Bounds
      <3> QED
        BY <2>1, <2>2, <3>1 DEF PlayoutDelayInRange
    <2>5. ResidentsInWindow'
      BY <2>1, <2>2, Constants DEF ResidentsInWindow
    <2> QED
      BY <2>3, <2>4, <2>5
  <1>6. CASE buf.next = None /\ Started(s, now, buf')
    <2>1. Rendered(base, heard, s)
      BY <1>6, RenderedNothing DEF QueueInv, BufferInv
    <2> QED
      BY <1>5, <1>6, <2>1
  <1>7. CASE buf.next # None /\ IsOutsideWindow(buf, s) /\ Started(s, now, buf')
    <2>1. buf.next \in Sequence /\ Distance(base, buf.next) < Half
      BY <1>7, Placed
    <2>2. Distance(buf.next, s) \in Nat /\ Distance(base, buf.next) \in Nat /\ Half \in Nat
          /\ Distance(base, s) \in Nat /\ MaxBufferedFrames \in Nat \ {0}
      BY <1>1, <2>1, DistanceTyped, Constants
    <2>3. Distance(buf.next, s) < Half
      BY <1>7, <2>2 DEF IsOutsideWindow
    <2>4. Distance(base, buf.next) <= Distance(base, s)
      BY <1>1, <1>4, <2>1, <2>3, Positions
    <2>5. Rendered(base, heard, s)
      <3>1. Rendered(base, heard, buf.next) /\ heard \in Seq(Sequence)
        BY <1>7 DEF Paced, QueueInv, TypeOK
      <3> QED
        BY <1>1, <2>1, <2>4, <3>1, RenderedLater
    <2> QED
      BY <1>5, <1>7, <2>5
  <1>8. CASE buf.next # None /\ Kept(buf, s, buf')
    <2>1. /\ buf'.next = buf.next /\ buf'.anchor = buf.anchor
          /\ \A x \in Resident(buf') : x \in Resident(buf) \/ (x = s /\ ~IsOutsideWindow(buf, s))
          /\ \/ buf'.playout = buf.playout
             \/ buf'.playout > buf.playout /\ buf'.playout <= buf.anchor.at + MaxTargetDelay
          /\ buf' \in BufferRecord
      BY <1>8 DEF Kept
    <2>2. /\ buf.next \in Sequence /\ buf.anchor.seq \in Sequence /\ buf.anchor.at \in Nat
          /\ buf.playout \in Nat /\ buf'.playout \in Nat
          /\ Distance(buf.anchor.seq, buf.next) < Half
      BY <1>8, <2>1, Placed, FieldsTyped
    <2>3. Paced(base)'
      <3>1. \A x \in Resident(buf') : Reached(base, x, now)
        BY <1>4, <1>8, <2>1 DEF Paced
      <3>2. \A x \in flight' : Reached(base, x, now)
        BY <1>2, <1>3
      <3> QED
        BY <1>2, <1>3, <1>8, <2>1, <3>1, <3>2 DEF Paced
    <2>4. PlayoutDelayInRange'
      <3> DEFINE ahead == Distance(buf.anchor.seq, buf.next) * FrameDuration
      <3>1. ahead \in Nat
        BY <2>2, DelayedFrom
      <3>2. buf.playout - (buf.anchor.at + ahead) \in MinTargetDelay..MaxTargetDelay
        BY <1>8 DEF PlayoutDelayInRange
      <3>3. buf'.playout - (buf.anchor.at + ahead) \in MinTargetDelay..MaxTargetDelay
            => PlayoutDelayInRange'
        BY <2>1 DEF PlayoutDelayInRange
      <3> HIDE DEF ahead
      <3>4. buf'.playout - (buf.anchor.at + ahead) \in MinTargetDelay..MaxTargetDelay
        BY <2>1, <2>2, <3>1, <3>2, Bounds
      <3> QED
        BY <3>3, <3>4
    <2>5. ResidentsInWindow'
      <3> SUFFICES ASSUME NEW x \in Resident(buf'), Distance(buf.next, x) < Half
                   PROVE  Distance(buf.next, x) < MaxBufferedFrames
        BY <2>1 DEF ResidentsInWindow
      <3>1. CASE x \in Resident(buf)
        BY <3>1 DEF ResidentsInWindow
      <3>2. CASE x = s /\ ~IsOutsideWindow(buf, s)
        <4>1. Distance(buf.next, s) \in Nat /\ Half \in Nat /\ MaxBufferedFrames \in Nat
          BY <1>1, <2>2, DistanceTyped, Constants
        <4>2. Distance(buf.next, s) \notin MaxBufferedFrames..(Half - 1)
          BY <3>2 DEF IsOutsideWindow
        <4> QED
          BY <3>2, <4>1, <4>2
      <3> QED
        BY <2>1, <3>1, <3>2
    <2> QED
      BY <2>3, <2>4, <2>5
  <1> QED
    BY <1>6, <1>7, <1>8, Delivered

LEMMA PacePlay ==
  ASSUME ShortSession, QueueInv, NEW base \in Sequence, Paced(base), ResidentsInWindow,
         PlayoutDelayInRange, Play
  PROVE  Paced(base)' /\ PlayoutDelayInRange' /\ ResidentsInWindow'
  <1>1. buf.next # None /\ now >= buf.playout /\ buf' = Poll(buf)
        /\ UNCHANGED <<now, sent, flight>> /\ (heard' = Append(heard, buf.next) \/ heard' = heard)
    BY DEF Play, PollReady
  <1>2. /\ now \in Nat /\ now <= MaxTime
        /\ buf.next \in Sequence /\ Distance(base, buf.next) < Half
        /\ buf.anchor.seq \in Sequence /\ buf.anchor.at \in Nat /\ buf.playout \in Nat
        /\ Distance(base, buf.anchor.seq) < Half
        /\ Distance(buf.anchor.seq, buf.next) < Half
        /\ Distance(base, buf.next)
             = Distance(base, buf.anchor.seq) + Distance(buf.anchor.seq, buf.next)
        /\ \A x \in Resident(buf) : x \in Sequence /\ Distance(base, x) < Half
    BY <1>1, Placed
  <1>3. buf \in BufferRecord /\ Ordered(buf)
    BY FifoIsOrdered DEF QueueInv, TypeOK
  <1>4. /\ buf'.next = Successor(buf.next) /\ buf'.anchor = buf.anchor
        /\ buf'.playout = buf.playout + FrameDuration
        /\ \A x \in Resident(buf') : x \in Resident(buf) /\ x # buf.next
    BY <1>1, <1>2, <1>3, PollIs
  <1>5. /\ Distance(base, buf'.next) = Distance(base, buf.next) + 1
        /\ Distance(buf.anchor.seq, buf'.next) = Distance(buf.anchor.seq, buf.next) + 1
    BY <1>2, <1>4, NextPosition
  <1> DEFINE d == Distance(buf.anchor.seq, buf.next)
             a == Distance(base, buf.anchor.seq)
             n == Distance(base, buf.next)
             paced == buf.anchor.at + d * FrameDuration
  <1>6. d \in Nat /\ a \in Nat /\ n \in Nat /\ n = a + d /\ FrameDuration \in Nat \ {0}
    BY <1>2, DistanceTyped, Bounds
  <1>7. buf.playout - paced \in MinTargetDelay..MaxTargetDelay
    BY <1>1 DEF PlayoutDelayInRange
  <1>8. (a + 1) * FrameDuration <= buf.anchor.at
    BY <1>1 DEF Paced, Reached
  <1>9. Distance(base, buf'.next) * FrameDuration <= now
    <2> HIDE DEF d, a, n
    <2>1. n + 1 = (a + 1) + d /\ a + 1 \in Nat
      BY <1>6
    <2>2. (n + 1) * FrameDuration = (a + 1) * FrameDuration + d * FrameDuration
          /\ (a + 1) * FrameDuration \in Nat /\ d * FrameDuration \in Nat
      BY <1>6, <2>1, Times
    <2> DEFINE x == (a + 1) * FrameDuration
               y == d * FrameDuration
    <2> HIDE DEF x, y
    <2>3. x \in Nat /\ y \in Nat /\ (n + 1) * FrameDuration = x + y /\ x <= buf.anchor.at
          /\ buf.playout - (buf.anchor.at + y) \in MinTargetDelay..MaxTargetDelay
      BY <1>7, <1>8, <2>2 DEF x, y
    <2>4. (n + 1) * FrameDuration <= now
      BY <1>1, <1>2, <2>3, Bounds
    <2> QED
      BY <1>5, <2>4 DEF n
  <1>10. Paced(base)'
    <2>1. Rendered(base, heard', buf'.next)
      <3>1. Rendered(base, heard, buf.next) /\ heard \in Seq(Sequence)
        BY <1>1 DEF Paced, QueueInv, TypeOK
      <3>2. buf'.next \in Sequence
        BY <1>2, <1>4, SuccessorIs
      <3>3. Distance(base, buf.next) < Distance(base, buf'.next)
            /\ Distance(base, buf.next) <= Distance(base, buf'.next)
        BY <1>5, <1>6
      <3> QED
        BY <1>1, <1>2, <3>1, <3>2, <3>3, RenderedLater, RenderedMore
    <2>2. Distance(base, buf.anchor.seq) <= Distance(base, buf'.next)
      BY <1>5, <1>6
    <2>3. \A x \in Resident(buf') : Reached(base, x, now)
      BY <1>1, <1>4 DEF Paced
    <2> QED
      BY <1>1, <1>4, <1>9, <2>1, <2>2, <2>3 DEF Paced
  <1>11. PlayoutDelayInRange'
    <2> HIDE DEF d
    <2>1. (d + 1) * FrameDuration = d * FrameDuration + FrameDuration /\ d * FrameDuration \in Nat
      BY <1>6, Times
    <2> DEFINE y == d * FrameDuration
    <2>2. (buf.playout + FrameDuration) - (buf.anchor.at + (y + FrameDuration))
            = buf.playout - (buf.anchor.at + y)
      <3>1. y \in Nat
        BY <2>1
      <3> HIDE DEF y
      <3> QED
        BY <1>2, <1>6, <3>1
    <2>3. buf'.playout - (buf'.anchor.at + Distance(buf'.anchor.seq, buf'.next) * FrameDuration)
            \in MinTargetDelay..MaxTargetDelay
      <3>1. Distance(buf'.anchor.seq, buf'.next) * FrameDuration = y + FrameDuration
        BY <1>4, <1>5, <2>1 DEF d
      <3> QED
        BY <1>4, <1>7, <2>2, <3>1
    <2> QED
      BY <2>3 DEF PlayoutDelayInRange
  <1>12. ResidentsInWindow'
    <2> SUFFICES ASSUME NEW x \in Resident(buf'), Distance(buf'.next, x) < Half
                 PROVE  Distance(buf'.next, x) < MaxBufferedFrames
      BY DEF ResidentsInWindow
    <2>1. x \in Resident(buf) /\ x # buf.next /\ x \in Sequence /\ Distance(base, x) < Half
      BY <1>2, <1>4
    <2>2. Distance(buf'.next, x) = Distance(buf.next, x) - 1
      BY <1>2, <1>4, <2>1, SlotLater
    <2>3. Distance(buf.next, x) # Half
      BY <1>2, <2>1, Positions
    <2>4. Distance(buf.next, x) \in Nat /\ Half \in Nat /\ MaxBufferedFrames \in Nat
      BY <1>2, <2>1, DistanceTyped, Constants
    <2>5. Distance(buf.next, x) < Half
      BY <2>2, <2>3, <2>4
    <2>6. Distance(buf.next, x) < MaxBufferedFrames
      BY <2>1, <2>5 DEF ResidentsInWindow
    <2> QED
      BY <2>2, <2>4, <2>6
  <1> QED
    BY <1>10, <1>11, <1>12

LEMMA PaceStep ==
  ASSUME ShortSession, PaceInv, [Next]_vars
  PROVE  PaceInv'
  <1>1. QueueInv /\ PlayoutDelayInRange /\ ResidentsInWindow
    BY DEF PaceInv
  <1>2. PICK base \in Sequence : Paced(base)
    BY DEF PaceInv
  <1>3. QueueInv'
    BY <1>1, QueueStep
  <1>4. UNCHANGED buf => /\ PlayoutDelayInRange => PlayoutDelayInRange'
                         /\ ResidentsInWindow => ResidentsInWindow'
    BY DEF PlayoutDelayInRange, ResidentsInWindow, Resident
  <1>5. ASSUME UNCHANGED <<now, sent, buf, heard>>, flight' \subseteq flight
        PROVE  Paced(base)'
    BY <1>2, <1>5 DEF Paced, Resident
  <1>6. Paced(base)' /\ PlayoutDelayInRange' /\ ResidentsInWindow'
    <2>1. CASE Tick
      <3>1. UNCHANGED buf
        BY <2>1 DEF Tick
      <3> QED
        BY <1>1, <1>2, <1>4, <2>1, <3>1, PaceTick
    <2>2. CASE HoldUp
      BY <1>1, <1>4, <1>5, <2>2 DEF HoldUp
    <2>3. CASE Resume
      BY <1>1, <1>4, <1>5, <2>3 DEF Resume
    <2>4. ASSUME NEW s \in flight, Lose(s)
          PROVE  Paced(base)' /\ PlayoutDelayInRange' /\ ResidentsInWindow'
      BY <1>1, <1>4, <1>5, <2>4 DEF Lose
    <2>5. ASSUME NEW s \in flight, Deliver(s)
          PROVE  Paced(base)' /\ PlayoutDelayInRange' /\ ResidentsInWindow'
      BY <1>1, <1>2, <2>5, PaceDeliver
    <2>6. CASE Play
      BY <1>1, <1>2, <2>6, PacePlay
    <2>7. CASE Clear
      <3>1. buf' = EmptyBuffer /\ heard' = <<>> /\ UNCHANGED <<now, sent, flight>>
        BY <2>7 DEF Clear
      <3>2. buf'.next = None /\ buf'.frames = <<>>
        BY <3>1, EmptyIs
      <3>3. Paced(base)'
        BY <1>2, <3>1, <3>2 DEF Paced
      <3>4. PlayoutDelayInRange'
        BY <3>2 DEF PlayoutDelayInRange
      <3>5. ResidentsInWindow'
        BY <3>2, EmptySeq DEF ResidentsInWindow, Resident
      <3> QED
        BY <3>3, <3>4, <3>5
    <2>8. CASE UNCHANGED vars
      BY <1>1, <1>4, <1>5, <2>8 DEF vars
    <2> QED
      BY <2>1, <2>2, <2>3, <2>4, <2>5, <2>6, <2>7, <2>8 DEF Next
  <1> QED
    BY <1>2, <1>3, <1>6 DEF PaceInv

LEMMA PaceInvariant == ASSUME ShortSession PROVE Spec => []PaceInv
  <1>1. PaceInv /\ [Next]_vars => PaceInv'
    BY PaceStep
  <1> QED
    BY PaceInit, <1>1, PTL DEF Spec

(* In a session that does not send half of the sequence space, the delay   *)
(* the buffer adds stays between MIN_TARGET_DELAY_MS and                   *)
(* MAX_TARGET_DELAY_MS, and so does the target: however many losses and    *)
(* late frames register_adverse counts, however often a window restarts,   *)
(* extend_start_deadline never pushes the playout further than the ceiling *)
(* after the anchor, and register_stable never below the floor.            *)
THEOREM DelayStaysInRange == ASSUME ShortSession PROVE Spec => []PlayoutInv
  <1>1. PaceInv => PlayoutInv
    BY DEF PaceInv, QueueInv, PlayoutInv
  <1> QED
    BY PaceInvariant, <1>1, PTL

(* In such a session no frame that is still to come waits further ahead    *)
(* than MAX_BUFFERED_FRAMES: a frame beyond is_outside_window restarts the *)
(* window, and the frames that in-order arrival queues behind next stay    *)
(* behind it.                                                              *)
THEOREM WindowHoldsResidents == ASSUME ShortSession PROVE Spec => []ResidentsInWindow
  <1>1. PaceInv => ResidentsInWindow
    BY DEF PaceInv
  <1> QED
    BY PaceInvariant, <1>1, PTL

(* In such a session poll never renders a frame again or after a later     *)
(* one, however frames are lost, duplicated, reordered or held up.         *)
THEOREM PlaybackMovesForward == ASSUME ShortSession PROVE Spec => []AudioMovesForward
  <1>1. ASSUME PaceInv
        PROVE  AudioMovesForward
    <2> SUFFICES ASSUME NEW i \in DOMAIN heard, NEW j \in DOMAIN heard, i < j
                 PROVE  Distance(heard[i], heard[j]) \in 1..(Half - 1)
      BY DEF AudioMovesForward
    <2>1. QueueInv /\ heard \in Seq(Sequence)
      BY <1>1 DEF PaceInv, QueueInv, TypeOK
    <2>2. buf.next # None
      BY <2>1, EmptySeq DEF QueueInv, BufferInv
    <2>3. PICK base \in Sequence : Paced(base)
      BY <1>1 DEF PaceInv
    <2>4. buf.next \in Sequence /\ Distance(base, buf.next) < Half
      BY <2>1, <2>2, <2>3, Placed
    <2>5. heard[i] \in Sequence /\ heard[j] \in Sequence
      BY <2>1, LenProperties, ElementOfSeq
    <2>6. Distance(base, heard[i]) < Distance(base, heard[j])
          /\ Distance(base, heard[j]) < Distance(base, buf.next)
      BY <2>2, <2>3 DEF Paced, Rendered
    <2>7. Distance(base, heard[i]) \in Nat /\ Distance(base, heard[j]) \in Nat
          /\ Distance(base, buf.next) \in Nat /\ Half \in Nat
          /\ Distance(heard[i], heard[j]) \in Nat
      BY <2>4, <2>5, DistanceTyped, Constants
    <2>8. Distance(base, heard[j]) < Half /\ Distance(base, heard[i]) < Half
          /\ Distance(base, heard[i]) <= Distance(base, heard[j])
      BY <2>4, <2>6, <2>7
    <2>9. /\ Distance(heard[i], heard[j]) = Distance(base, heard[j]) - Distance(base, heard[i])
          /\ Distance(heard[i], heard[j]) < Half
      BY <2>5, <2>8, Positions
    <2> QED
      BY <2>6, <2>7, <2>9
  <1> QED
    BY PaceInvariant, <1>1, PTL

=============================================================================
