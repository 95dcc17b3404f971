--------------------------- MODULE ShmRingProofs ---------------------------
(***************************************************************************)
(* The chunk ring is safe for every ring size and every length of stream:  *)
(* RingInv is inductive, and the safety properties of ShmRing follow.      *)
(* Then its segment: what sweeps of stale rings may remove.                *)
(***************************************************************************)
EXTENDS ShmRing, RingSweep, TLAPS

(* Euclidean division, as the provers know it. *)
LEMMA DivMod ==
  ASSUME NEW n \in Nat \ {0}, NEW a \in Nat
  PROVE  /\ a = n * (a \div n) + (a % n)
         /\ a \div n \in Nat
         /\ a % n \in 0 .. n - 1
  BY SMT

(* Two chunks of one slot are at least a ring apart. *)
LEMMA SameSlotApart ==
  ASSUME NEW n \in Nat \ {0}, NEW a \in Nat, NEW b \in Nat,
         a % n = b % n, a < b
  PROVE  a + n <= b
<1> DEFINE qa == a \div n
           qb == b \div n
<1>1. /\ a = n * qa + (a % n) /\ qa \in Nat
      /\ b = n * qb + (b % n) /\ qb \in Nat
      /\ a % n \in 0 .. n - 1
  BY DivMod
<1> HIDE DEF qa, qb
<1>2. b - a = n * (qb - qa)
  BY <1>1, SMT
<1>3. qb > qa
  BY <1>1, <1>2, SMT
<1>4. n * (qb - qa) >= n
  BY <1>1, <1>3, SMT
<1> QED
  BY <1>2, <1>4, SMT

(* A chunk and the one a ring later share their slot. *)
LEMMA NextLapSameSlot ==
  ASSUME NEW n \in Nat \ {0}, NEW a \in Nat
  PROVE  (a + n) % n = a % n
<1> DEFINE b  == a + n
           qa == a \div n
           qb == b \div n
           ra == a % n
           rb == b % n
<1>1. a = n * qa + ra /\ qa \in Nat /\ ra \in 0 .. n - 1
  BY DivMod
<1>2. b \in Nat /\ b = a + n
  OBVIOUS
<1> HIDE DEF b
<1>3. b = n * qb + rb /\ qb \in Nat /\ rb \in 0 .. n - 1
  BY <1>2, DivMod
<1> HIDE DEF qa, qb, ra, rb
<1>4. n * (qb - qa - 1) = ra - rb
  BY <1>1, <1>2, <1>3, SMT
<1>5. CASE qb - qa - 1 >= 1
  <2>1. n * (qb - qa - 1) >= n
    BY <1>1, <1>3, <1>5, SMT
  <2> QED
    BY <1>1, <1>3, <1>4, <2>1, SMT
<1>6. CASE qb - qa - 1 <= -1
  <2>1. n * (qb - qa - 1) <= -n
    BY <1>1, <1>3, <1>6, SMT
  <2> QED
    BY <1>1, <1>3, <1>4, <2>1, SMT
<1>7. CASE qb - qa - 1 = 0
  <2>1. ra = rb
    BY <1>1, <1>3, <1>4, <1>7, SMT
  <2> QED
    BY <2>1 DEF ra, rb, b
<1> QED
  BY <1>1, <1>3, <1>5, <1>6, <1>7, SMT

(* The same three facts, about the slots of the ring. *)
LEMMA SlotInRange ==
  ASSUME NEW s \in Nat PROVE SlotOf(s) \in Slots
  BY DivMod, RingAssumption DEF SlotOf, Slots

LEMMA SlotApart ==
  ASSUME NEW s \in Nat, NEW t \in Nat, SlotOf(s) = SlotOf(t), s < t
  PROVE  s + SlotCount <= t
  BY SameSlotApart, RingAssumption DEF SlotOf

LEMMA SlotNextLap ==
  ASSUME NEW s \in Nat PROVE SlotOf(s + SlotCount) = SlotOf(s)
  BY NextLapSameSlot, RingAssumption DEF SlotOf
-----------------------------------------------------------------------------
(* Types. *)

LEMMA InitTypeOK == Init => TypeOK
  BY RingAssumption DEF Init, TypeOK, Blank, SlotRecord, Cell, Unwritten,
     WriterPC, ReaderPC

LEMMA WriteTypeOK == TypeOK /\ (Write \/ ProducerDies) => TypeOK'
<1> SUFFICES ASSUME TypeOK, Write \/ ProducerDies PROVE TypeOK'
  OBVIOUS
<1> USE DEF TypeOK, ReaderUnchanged, call, returned, SlotRecord, Cell, WriterPC
<1>1. CASE WritePayloadLo
  BY SMTT(20), <1>1, SlotInRange DEF WritePayloadLo
<1>2. CASE WritePayloadHi
  BY SMTT(20), <1>2, SlotInRange DEF WritePayloadHi
<1>3. CASE WriteTail
  BY SMTT(20), <1>3, SlotInRange DEF WriteTail
<1>4. CASE WriteSlotSeq
  BY SMTT(20), <1>4, SlotInRange DEF WriteSlotSeq
<1>5. CASE WriteWriteSeq
  BY <1>5 DEF WriteWriteSeq
<1>6. CASE ProducerDies
  BY <1>6 DEF ProducerDies
<1> QED
  BY <1>1, <1>2, <1>3, <1>4, <1>5, <1>6 DEF Write

LEMMA ReadTypeOK == TypeOK /\ Read => TypeOK'
<1> SUFFICES ASSUME TypeOK, Read PROVE TypeOK'
  OBVIOUS
<1> USE DEF TypeOK, WriterUnchanged, producer, call, returned, SlotRecord,
        Cell, ReaderPC
<1>1. CASE ReadWriteSeq
  BY <1>1, RingAssumption DEF ReadWriteSeq
<1>2. CASE ReadSeq0
  BY <1>2, SlotInRange DEF ReadSeq0, SlotBehind
<1>3. CASE ReadTail
  BY <1>3, SlotInRange DEF ReadTail
<1>4. CASE ReadPayloadLo
  BY <1>4, SlotInRange DEF ReadPayloadLo
<1>5. CASE ReadPayloadHi
  BY <1>5, SlotInRange DEF ReadPayloadHi
<1>6. CASE ReadSeq1Retry
  BY <1>6 DEF ReadSeq1Retry
<1>7. CASE ReadSeq1Return
  BY <1>7 DEF ReadSeq1Return
<1> QED
  BY <1>1, <1>2, <1>3, <1>4, <1>5, <1>6, <1>7 DEF Read

LEMMA NextTypeOK == TypeOK /\ [Next]_vars => TypeOK'
<1>1. TypeOK /\ UNCHANGED vars => TypeOK'
  BY DEF TypeOK, vars, shared, producer, call, returned
<1> QED
  BY <1>1, WriteTypeOK, ReadTypeOK DEF Next

(* The ring's variables always have their types. *)
THEOREM TypeCorrect == Spec => []TypeOK
  BY InitTypeOK, NextTypeOK, PTL DEF Spec
-----------------------------------------------------------------------------
(* The inductive invariant. *)

LEMMA InitRingInv == Init => RingInv
<1> SUFFICES ASSUME Init PROVE RingInv
  OBVIOUS
<1>1. TypeOK
  BY InitTypeOK
<1>2. SlotsHoldPublished /\ CellsBelong
  BY DEF Init, SlotsHoldPublished, CellsBelong, Published
<1>3. WriterProgress
  BY DEF Init, WriterProgress
<1>4. ReaderPosition /\ CopyGoodOrLapped
  BY DEF Init, ReaderPosition, CopyGoodOrLapped, Published
<1>5. TornOnlyByOverlap /\ Accounted
  BY DEF Init, TornOnlyByOverlap, Accounted
<1> QED
  BY <1>1, <1>2, <1>3, <1>4, <1>5 DEF RingInv

(* Of the published chunks in the slot being written, all are at least a   *)
(* ring older than the new one.                                            *)
LEMMA OverwrittenIsALapOld ==
  ASSUME TypeOK, NEW s \in Nat, s < next_seq, SlotOf(s) = SlotOf(next_seq)
  PROVE  s + SlotCount <= next_seq
  BY SlotApart DEF TypeOK

(* A cell the reader loads for chunk s is good, or s has been lapped. *)
LEMMA LoadedCell ==
  ASSUME TypeOK, SlotsHoldPublished, CellsBelong,
         NEW s \in 0 .. Published - 1, NEW c \in Cells(slots[SlotOf(s)])
  PROVE  Good(c, s) \/ slots[SlotOf(s)].seq > s
<1> DEFINE held == slots[SlotOf(s)].seq
<1>1. held >= s /\ held \in Nat
  BY SlotInRange DEF SlotsHoldPublished, TypeOK, SlotRecord, Published
<1>2. CASE c = held
  BY <1>1, <1>2 DEF Good
<1>3. CASE c = next_seq /\ Overwriting(SlotOf(s)) /\ held = s
  <2>1. s \in Nat /\ s < next_seq /\ SlotOf(s) = SlotOf(next_seq)
    BY <1>3 DEF Overwriting, Published, TypeOK
  <2>2. s + SlotCount <= next_seq
    BY <2>1, OverwrittenIsALapOld
  <2>3. s + SlotCount >= next_seq
    <3> SUFFICES ASSUME s + SlotCount < next_seq PROVE FALSE
      BY <2>1, RingAssumption DEF TypeOK
    <3> DEFINE t == next_seq - SlotCount
    <3>1. t \in Nat /\ t > s /\ t + SlotCount = next_seq
      BY <2>1, RingAssumption DEF TypeOK
    <3>2. SlotOf(t) = SlotOf(s)
      BY <2>1, <3>1, SlotNextLap
    <3>3. Published = next_seq
      BY <1>3 DEF Overwriting, Published
    <3>4. t \in 0 .. Published - 1 /\ t + SlotCount >= Published
      BY <3>1, <3>3, RingAssumption DEF TypeOK
    <3>5. slots[SlotOf(t)].seq = t
      BY <3>4 DEF SlotsHoldPublished
    <3> QED
      BY <1>3, <3>1, <3>2, <3>5
  <2>4. c = s + SlotCount /\ Begun(c)
    BY <1>3, <2>1, <2>2, <2>3, RingAssumption DEF Begun, Overwriting, TypeOK
  <2> QED
    BY <2>4 DEF Good
<1>4. c = held \/ (c = next_seq /\ Overwriting(SlotOf(s)))
  BY DEF CellsBelong
<1>5. held = s \/ held > s
  BY <1>1
<1> QED
  BY <1>2, <1>3, <1>4, <1>5

(* A store to the payload or the tail of the slot being written keeps      *)
(* everything but the progress of the writer, which each store shows.      *)
LEMMA StoreKeepsInv ==
  ASSUME RingInv, TypeOK', WriterProgress', ReaderUnchanged,
         UNCHANGED <<write_seq, next_seq>>,
         wpc \in {"idle", "hi", "tail"}, wpc' \in {"hi", "tail", "seq"},
         \A i \in Slots : slots'[i].seq = slots[i].seq,
         \A i \in Slots : i # SlotOf(next_seq) => slots'[i] = slots[i],
         \A c \in Cells(slots[SlotOf(next_seq)])' :
            c = next_seq \/ c \in Cells(slots[SlotOf(next_seq)])
  PROVE  RingInv'
<1> USE DEF ReaderUnchanged, call, returned
<1>1. TypeOK
  BY DEF RingInv
<1>2. Published' = Published /\ \A c : Begun(c) => Begun(c)'
  BY DEF Published, Begun
<1>3. \A s \in 0 .. Published - 1 : SlotOf(s) \in Slots
  BY <1>1, SlotInRange DEF Published, TypeOK
<1>4. SlotsHoldPublished'
  BY <1>2, <1>3 DEF RingInv, SlotsHoldPublished
<1>5. CellsBelong'
  <2> SUFFICES ASSUME NEW s \in 0 .. Published - 1,
                      NEW c \in Cells(slots'[SlotOf(s)])
               PROVE  \/ c = slots'[SlotOf(s)].seq
                      \/ c = next_seq /\ Overwriting(SlotOf(s))'
    BY <1>2 DEF CellsBelong, Cells
  <2>1. CASE SlotOf(s) = SlotOf(next_seq)
    <3>1. c = next_seq \/ c \in Cells(slots[SlotOf(s)])
      BY <2>1
    <3> QED
      BY <1>3, <2>1, <3>1 DEF RingInv, CellsBelong, Overwriting
  <2>2. CASE SlotOf(s) # SlotOf(next_seq)
    BY <1>3, <2>2 DEF RingInv, CellsBelong, Overwriting
  <2> QED
    BY <2>1, <2>2
<1>6. ReaderPosition'
  <2>1. last_consumed_seq + 1 \in Nat
    BY <1>1 DEF TypeOK
  <2>2. SlotOf(last_consumed_seq + 1) \in Slots
    BY <2>1, SlotInRange
  <2> QED
    BY <1>2, <2>2 DEF RingInv, ReaderPosition
<1>7. CopyGoodOrLapped'
  BY <1>1, <1>2, SlotInRange DEF RingInv, CopyGoodOrLapped, Good, Lapped, TypeOK
<1>8. TornOnlyByOverlap' /\ Accounted'
  BY <1>2 DEF RingInv, TornOnlyByOverlap, Accounted, Good
<1> QED
  BY <1>4, <1>5, <1>6, <1>7, <1>8 DEF RingInv

LEMMA WritePayloadLoInv == RingInv /\ WritePayloadLo => RingInv'
<1> SUFFICES ASSUME RingInv, WritePayloadLo PROVE RingInv'
  OBVIOUS
<1>1. TypeOK /\ TypeOK' /\ SlotOf(next_seq) \in Slots
  BY WriteTypeOK, SlotInRange DEF RingInv, Write, TypeOK
<1>2. WriterProgress'
  BY <1>1 DEF WritePayloadLo, WriterProgress, TypeOK, SlotRecord
<1> QED
  BY <1>1, <1>2, StoreKeepsInv
  DEF WritePayloadLo, TypeOK, SlotRecord, Cells

LEMMA WritePayloadHiInv == RingInv /\ WritePayloadHi => RingInv'
<1> SUFFICES ASSUME RingInv, WritePayloadHi PROVE RingInv'
  OBVIOUS
<1>1. TypeOK /\ TypeOK' /\ SlotOf(next_seq) \in Slots
  BY WriteTypeOK, SlotInRange DEF RingInv, Write, TypeOK
<1>2. WriterProgress'
  BY <1>1 DEF WritePayloadHi, RingInv, WriterProgress, TypeOK, SlotRecord
<1> QED
  BY <1>1, <1>2, StoreKeepsInv
  DEF WritePayloadHi, TypeOK, SlotRecord, Cells

LEMMA WriteTailInv == RingInv /\ WriteTail => RingInv'
<1> SUFFICES ASSUME RingInv, WriteTail PROVE RingInv'
  OBVIOUS
<1>1. TypeOK /\ TypeOK' /\ SlotOf(next_seq) \in Slots
  BY WriteTypeOK, SlotInRange DEF RingInv, Write, TypeOK
<1>2. WriterProgress'
  BY <1>1 DEF WriteTail, RingInv, WriterProgress, TypeOK, SlotRecord
<1> QED
  BY <1>1, <1>2, StoreKeepsInv
  DEF WriteTail, TypeOK, SlotRecord, Cells

(* The sequence word is stored: the chunk is published, and the one that   *)
(* was in the slot is a ring behind it.                                    *)
LEMMA WriteSlotSeqInv == RingInv /\ WriteSlotSeq => RingInv'
<1> SUFFICES ASSUME RingInv, WriteSlotSeq PROVE RingInv'
  OBVIOUS
<1> DEFINE w == SlotOf(next_seq)
<1>1. TypeOK /\ TypeOK' /\ w \in Slots
  BY WriteTypeOK, SlotInRange DEF RingInv, Write, TypeOK
<1>2. /\ wpc = "seq" /\ wpc' = "write_seq"
      /\ UNCHANGED <<write_seq, next_seq, rpc, read_seq, next_expected,
                     dropped_chunks, copy, last_consumed_seq, result,
                     delivered, lost>>
  BY DEF WriteSlotSeq, ReaderUnchanged, call, returned
<1>3. /\ \A i \in Slots : i # w => slots'[i] = slots[i]
      /\ slots'[w].seq = next_seq
      /\ slots'[w].lo = slots[w].lo
      /\ slots'[w].hi = slots[w].hi
      /\ slots'[w].tail = slots[w].tail
  BY <1>1 DEF WriteSlotSeq, TypeOK, SlotRecord
<1>4. /\ Published = next_seq /\ Published' = next_seq + 1
      /\ \A c : Begun(c) => Begun(c)'
  BY <1>2 DEF Published, Begun
<1>5. \A s \in 0 .. next_seq : SlotOf(s) \in Slots
  BY <1>1, SlotInRange DEF TypeOK
<1>6. SlotsHoldPublished'
  <2> SUFFICES ASSUME NEW s \in 0 .. next_seq
               PROVE  LET held == slots'[SlotOf(s)].seq
                      IN  /\ s <= held /\ held < next_seq + 1
                          /\ SlotOf(held) = SlotOf(s)
                          /\ s + SlotCount >= next_seq + 1 => held = s
    BY <1>1, <1>2, <1>4 DEF RingInv, SlotsHoldPublished, TypeOK
  <2>1. CASE SlotOf(s) = w
    <3>1. s = next_seq \/ s + SlotCount <= next_seq
      BY <1>1, <2>1, OverwrittenIsALapOld DEF TypeOK
    <3> QED
      BY <1>1, <1>3, <2>1, <3>1, RingAssumption DEF TypeOK
  <2>2. CASE SlotOf(s) # w
    <3>1. s \in 0 .. Published - 1
      BY <1>1, <1>4, <2>2 DEF TypeOK
    <3>2. slots'[SlotOf(s)] = slots[SlotOf(s)]
      BY <1>3, <1>5, <2>2
    <3> QED
      BY <1>1, <1>4, <1>5, <3>1, <3>2, RingAssumption
      DEF RingInv, SlotsHoldPublished, TypeOK, SlotRecord
  <2> QED
    BY <2>1, <2>2
<1>7. WriterProgress'
  BY <1>2, <1>3 DEF RingInv, WriterProgress
<1>8. CellsBelong'
  <2> SUFFICES ASSUME NEW s \in 0 .. next_seq,
                      NEW c \in Cells(slots'[SlotOf(s)])
               PROVE  c = slots'[SlotOf(s)].seq
    BY <1>1, <1>4 DEF CellsBelong, TypeOK, Cells
  <2>1. CASE SlotOf(s) = w
    BY <1>2, <1>3, <2>1 DEF RingInv, WriterProgress, Cells
  <2>2. CASE SlotOf(s) # w
    <3>1. s \in 0 .. Published - 1
      BY <1>1, <1>4, <2>2 DEF TypeOK
    <3> QED
      BY <1>3, <1>5, <2>2, <3>1 DEF RingInv, CellsBelong, Overwriting
  <2> QED
    BY <2>1, <2>2
<1>9. \A s \in Nat : s < next_seq =>
        /\ slots[SlotOf(s)].seq \in Nat /\ slots'[SlotOf(s)].seq \in Nat
        /\ slots[SlotOf(s)].seq <= slots'[SlotOf(s)].seq
  <2> TAKE s \in Nat
  <2> HAVE s < next_seq
  <2>1. SlotOf(s) \in Slots /\ s \in 0 .. Published - 1
    BY <1>1, <1>4, SlotInRange DEF TypeOK
  <2>2. slots[SlotOf(s)].seq \in Nat /\ slots'[SlotOf(s)].seq \in Nat
    BY <1>1, <2>1 DEF TypeOK, SlotRecord
  <2>3. slots[SlotOf(s)].seq < next_seq
    BY <1>4, <2>1 DEF RingInv, SlotsHoldPublished
  <2> QED
    BY <1>1, <1>3, <2>1, <2>2, <2>3 DEF TypeOK
<1>10. ReaderPosition'
  <2>1. last_consumed_seq + 1 \in Nat
    BY <1>1 DEF TypeOK
  <2>2. rpc # "idle" => last_consumed_seq + 1 < next_seq
    BY <1>1, <1>4 DEF RingInv, ReaderPosition, TypeOK
  <2> QED
    BY <1>1, <1>2, <1>4, <1>9, <2>1, <2>2 DEF RingInv, ReaderPosition, TypeOK
<1>11. CopyGoodOrLapped'
  <2>1. rpc # "idle" => next_expected \in Nat /\ next_expected < next_seq
    BY <1>1, <1>4 DEF RingInv, ReaderPosition, TypeOK
  <2>2. rpc # "idle" /\ Lapped => Lapped'
    BY <1>1, <1>2, <1>9, <2>1 DEF Lapped, TypeOK, SlotRecord
  <2> QED
    BY <1>2, <1>4, <2>2 DEF RingInv, CopyGoodOrLapped, Good
<1>12. TornOnlyByOverlap' /\ Accounted'
  BY <1>2, <1>4 DEF RingInv, TornOnlyByOverlap, Accounted, Good
<1> QED
  BY <1>1, <1>6, <1>7, <1>8, <1>10, <1>11, <1>12 DEF RingInv

LEMMA WriteWriteSeqInv == RingInv /\ WriteWriteSeq => RingInv'
<1> SUFFICES ASSUME RingInv, WriteWriteSeq PROVE RingInv'
  OBVIOUS
<1>1. TypeOK /\ TypeOK'
  BY WriteTypeOK DEF RingInv, Write
<1>2. /\ wpc = "write_seq" /\ wpc' = "idle"
      /\ next_seq' = next_seq + 1 /\ write_seq' = next_seq + 1
      /\ UNCHANGED <<slots, rpc, read_seq, next_expected,
                     dropped_chunks, copy, last_consumed_seq, result,
                     delivered, lost>>
  BY DEF WriteWriteSeq, ReaderUnchanged, call, returned
<1>3. Published' = Published /\ \A c \in Int : Begun(c) => Begun(c)'
  BY <1>1, <1>2 DEF Published, Begun, TypeOK
<1>4. SlotsHoldPublished' /\ WriterProgress'
  BY <1>2, <1>3 DEF RingInv, SlotsHoldPublished, WriterProgress
<1>5. CellsBelong'
  BY <1>2, <1>3 DEF RingInv, CellsBelong, Overwriting
<1>6. ReaderPosition'
  BY <1>2, <1>3 DEF RingInv, ReaderPosition
<1>7. CopyGoodOrLapped'
  BY <1>1, <1>2, <1>3
  DEF RingInv, CopyGoodOrLapped, Good, Lapped, TypeOK, SlotRecord, Cell
<1>8. TornOnlyByOverlap' /\ Accounted'
  BY <1>1, <1>2, <1>3
  DEF RingInv, TornOnlyByOverlap, Accounted, Good, Cells, TypeOK, SlotRecord, Cell
<1> QED
  BY <1>1, <1>4, <1>5, <1>6, <1>7, <1>8 DEF RingInv

LEMMA ProducerDiesInv == RingInv /\ ProducerDies => RingInv'
<1> SUFFICES ASSUME RingInv, ProducerDies PROVE RingInv'
  OBVIOUS
<1>1. TypeOK'
  BY WriteTypeOK DEF RingInv
<1>2. UNCHANGED <<slots, write_seq, read_seq, next_seq, wpc, rpc, call, returned>>
  BY DEF ProducerDies, ReaderUnchanged
<1> QED
  BY <1>1, <1>2
  DEF RingInv, SlotsHoldPublished, WriterProgress, CellsBelong, Overwriting,
      ReaderPosition, CopyGoodOrLapped, Lapped, Good, Begun, Published,
      TornOnlyByOverlap, Accounted, call, returned

(* A load changes nothing the writer's conjuncts speak of. *)
LEMMA ReadKeepsMemory ==
  ASSUME RingInv, WriterUnchanged
  PROVE  /\ SlotsHoldPublished' /\ WriterProgress' /\ CellsBelong'
         /\ Published' = Published
         /\ \A c, s : Good(c, s)' <=> Good(c, s)
  BY DEF RingInv, WriterUnchanged, producer, SlotsHoldPublished, WriterProgress,
         CellsBelong, Overwriting, Published, Good, Begun

(* The first load: what a late reader skips has been overwritten. *)
LEMMA ReadWriteSeqInv == RingInv /\ ReadWriteSeq => RingInv'
<1> SUFFICES ASSUME RingInv, ReadWriteSeq PROVE RingInv'
  OBVIOUS
<1> DEFINE expected == last_consumed_seq + 1
<1>1. TypeOK /\ TypeOK' /\ WriterUnchanged
  BY ReadTypeOK DEF RingInv, Read, ReadWriteSeq
<1>2. /\ SlotsHoldPublished' /\ WriterProgress' /\ CellsBelong'
      /\ Published' = Published
      /\ \A c, s : Good(c, s)' <=> Good(c, s)
  BY <1>1, ReadKeepsMemory
<1>3. /\ rpc' = "seq0"
      /\ slots' = slots
      /\ UNCHANGED <<last_consumed_seq, copy, result, delivered, lost>>
      /\ write_seq = next_seq /\ write_seq > expected /\ expected \in Nat
      /\ write_seq <= Published
  BY <1>1 DEF RingInv, ReadWriteSeq, WriterUnchanged, returned, TypeOK,
              SlotsHoldPublished, Published
<1>4. ReaderPosition'
  <2>1. CASE write_seq - expected > SlotCount
    <3> DEFINE t == expected + SlotCount
    <3>1. next_expected' = write_seq - SlotCount
          /\ dropped_chunks' = next_expected' - expected
      BY <1>1, <2>1 DEF ReadWriteSeq
    <3>2. t \in 0 .. Published - 1 /\ t > expected
      BY <1>1, <1>3, <2>1, RingAssumption DEF TypeOK, Published
    <3>3. slots[SlotOf(t)].seq >= t
      BY <3>2 DEF RingInv, SlotsHoldPublished
    <3>4. SlotOf(expected) = SlotOf(t) /\ SlotOf(expected) \in Slots
      BY <1>3, SlotNextLap, SlotInRange
    <3>5. slots[SlotOf(expected)].seq > expected
      BY <1>1, <1>3, <3>2, <3>3, <3>4 DEF TypeOK, SlotRecord
    <3>6. last_consumed_seq >= -1 /\ last_consumed_seq < Published
      BY DEF RingInv, ReaderPosition
    <3>7. /\ last_consumed_seq < next_expected' /\ next_expected' < Published
          /\ dropped_chunks' = next_expected' - last_consumed_seq - 1
      BY <1>1, <1>3, <2>1, <3>1, RingAssumption DEF TypeOK, Published
    <3> QED
      BY <1>2, <1>3, <3>5, <3>6, <3>7 DEF ReaderPosition
  <2>2. CASE ~(write_seq - expected > SlotCount)
    <3>1. next_expected' = expected /\ dropped_chunks' = expected - expected
      BY <2>2 DEF ReadWriteSeq
    <3>2. last_consumed_seq >= -1 /\ last_consumed_seq < Published
      BY DEF RingInv, ReaderPosition
    <3>3. /\ last_consumed_seq < next_expected' /\ next_expected' < Published
          /\ ~(dropped_chunks' > 0)
          /\ dropped_chunks' = next_expected' - last_consumed_seq - 1
      BY <1>1, <1>3, <3>1 DEF TypeOK, Published
    <3> QED
      BY <1>2, <1>3, <3>2, <3>3 DEF ReaderPosition
  <2> QED
    BY <2>1, <2>2
<1>5. CopyGoodOrLapped'
  BY <1>3 DEF CopyGoodOrLapped
<1>6. TornOnlyByOverlap' /\ Accounted'
  BY <1>2, <1>3 DEF RingInv, TornOnlyByOverlap, Accounted
<1> QED
  BY <1>1, <1>2, <1>4, <1>5, <1>6 DEF RingInv

(* The sequence word: a published chunk's slot is never behind. *)
LEMMA ReadSeq0Inv == RingInv /\ ReadSeq0 => RingInv'
<1> SUFFICES ASSUME RingInv, ReadSeq0 PROVE RingInv'
  OBVIOUS
<1> DEFINE seq0 == slots[SlotOf(next_expected)].seq
<1>1. TypeOK /\ TypeOK' /\ WriterUnchanged
  BY ReadTypeOK DEF RingInv, Read, ReadSeq0
<1>2. /\ SlotsHoldPublished' /\ WriterProgress' /\ CellsBelong'
      /\ Published' = Published
      /\ \A c, s : Good(c, s)' <=> Good(c, s)
  BY <1>1, ReadKeepsMemory
<1>3. /\ rpc = "seq0" /\ slots' = slots
      /\ UNCHANGED <<last_consumed_seq, result, delivered, lost>>
  BY DEF ReadSeq0, WriterUnchanged, returned
<1>4. /\ last_consumed_seq < next_expected
      /\ dropped_chunks = next_expected - last_consumed_seq - 1
      /\ dropped_chunks > 0 =>
           slots[SlotOf(last_consumed_seq + 1)].seq > last_consumed_seq + 1
      /\ last_consumed_seq >= -1 /\ last_consumed_seq < Published
      /\ next_expected \in 0 .. Published - 1
  BY <1>1, <1>3 DEF RingInv, ReaderPosition, TypeOK, Published
<1>5. seq0 \in Nat /\ next_expected <= seq0 /\ seq0 < Published
  BY <1>1, <1>4, SlotInRange
  DEF RingInv, SlotsHoldPublished, TypeOK, SlotRecord
<1>6. /\ dropped_chunks' = dropped_chunks + (seq0 - next_expected)
      /\ next_expected' = seq0 /\ copy' = [copy EXCEPT !.seq = seq0]
      /\ rpc' = "tail"
  BY <1>1, <1>5 DEF ReadSeq0, SlotBehind, TypeOK
<1>7. ReaderPosition'
  <2>1. copy'.seq = next_expected'
    BY <1>1, <1>6 DEF TypeOK, SlotRecord
  <2>2. dropped_chunks' = next_expected' - last_consumed_seq - 1
    BY <1>1, <1>4, <1>5, <1>6 DEF TypeOK
  <2>3. last_consumed_seq < next_expected' /\ next_expected' < Published
    BY <1>1, <1>4, <1>5, <1>6 DEF TypeOK, Published
  <2>4. ASSUME dropped_chunks' > 0
        PROVE  slots[SlotOf(last_consumed_seq + 1)].seq > last_consumed_seq + 1
    <3>1. CASE dropped_chunks > 0
      BY <1>4, <3>1
    <3>2. CASE ~(dropped_chunks > 0)
      <4>1. next_expected = last_consumed_seq + 1 /\ seq0 > next_expected
        BY <1>1, <1>4, <1>5, <1>6, <2>4, <3>2 DEF TypeOK
      <4> QED
        BY <4>1
    <3> QED
      BY <3>1, <3>2
  <2> QED
    BY <1>2, <1>3, <1>4, <1>6, <2>1, <2>2, <2>3, <2>4 DEF ReaderPosition
<1>8. CopyGoodOrLapped'
  BY <1>6 DEF CopyGoodOrLapped
<1>9. TornOnlyByOverlap' /\ Accounted'
  BY <1>2, <1>3 DEF RingInv, TornOnlyByOverlap, Accounted
<1> QED
  BY <1>1, <1>2, <1>7, <1>8, <1>9 DEF RingInv

(* The three loads that copy the slot. *)
LEMMA ReadCellInv ==
  RingInv /\ (ReadTail \/ ReadPayloadLo \/ ReadPayloadHi) => RingInv'
<1> SUFFICES ASSUME RingInv, ReadTail \/ ReadPayloadLo \/ ReadPayloadHi
             PROVE  RingInv'
  OBVIOUS
<1> DEFINE slot == slots[SlotOf(next_expected)]
<1>1. TypeOK /\ TypeOK' /\ WriterUnchanged
  BY ReadTypeOK DEF RingInv, Read, ReadTail, ReadPayloadLo, ReadPayloadHi
<1>2. /\ SlotsHoldPublished' /\ WriterProgress' /\ CellsBelong'
      /\ Published' = Published
      /\ \A c, s : Good(c, s)' <=> Good(c, s)
  BY <1>1, ReadKeepsMemory
<1>3. /\ rpc \in {"tail", "lo", "hi"} /\ rpc' \in {"lo", "hi", "seq1"}
      /\ slots' = slots
      /\ UNCHANGED <<next_expected, dropped_chunks, last_consumed_seq,
                     result, delivered, lost>>
      /\ copy'.seq = copy.seq
  BY <1>1 DEF ReadTail, ReadPayloadLo, ReadPayloadHi, WriterUnchanged,
              returned, TypeOK, SlotRecord
<1>4. /\ next_expected \in 0 .. Published - 1 /\ copy.seq = next_expected
  BY <1>1, <1>3 DEF RingInv, ReaderPosition, TypeOK, Published
<1>5. \A c \in Cells(slot) : Good(c, copy.seq) \/ Lapped
  BY <1>1, <1>4, LoadedCell DEF RingInv, Lapped
<1>6. ReaderPosition'
  BY <1>2, <1>3 DEF RingInv, ReaderPosition
<1>7. Lapped' <=> Lapped
  BY <1>3 DEF Lapped
<1>8. CopyGoodOrLapped'
  <2>1. CASE ReadTail
    <3>1. rpc' = "lo" /\ copy'.tail = slot.tail
      BY <1>1, <2>1 DEF ReadTail, TypeOK, SlotRecord
    <3> QED
      BY <1>2, <1>3, <1>5, <1>7, <3>1 DEF CopyGoodOrLapped, Cells
  <2>2. CASE ReadPayloadLo
    <3>1. /\ rpc = "lo" /\ rpc' = "hi"
          /\ copy'.lo = slot.lo /\ copy'.tail = copy.tail
      BY <1>1, <2>2 DEF ReadPayloadLo, TypeOK, SlotRecord
    <3> QED
      BY <1>2, <1>3, <1>5, <1>7, <3>1 DEF RingInv, CopyGoodOrLapped, Cells
  <2>3. CASE ReadPayloadHi
    <3>1. /\ rpc = "hi" /\ rpc' = "seq1" /\ copy'.hi = slot.hi
          /\ copy'.lo = copy.lo /\ copy'.tail = copy.tail
      BY <1>1, <2>3 DEF ReadPayloadHi, TypeOK, SlotRecord
    <3> QED
      BY <1>2, <1>3, <1>5, <1>7, <3>1 DEF RingInv, CopyGoodOrLapped, Cells
  <2> QED
    BY <2>1, <2>2, <2>3
<1>9. TornOnlyByOverlap' /\ Accounted'
  BY <1>2, <1>3 DEF RingInv, TornOnlyByOverlap, Accounted
<1> QED
  BY <1>1, <1>2, <1>6, <1>8, <1>9 DEF RingInv

LEMMA ReadSeq1RetryInv == RingInv /\ ReadSeq1Retry => RingInv'
<1> SUFFICES ASSUME RingInv, ReadSeq1Retry PROVE RingInv'
  OBVIOUS
<1>1. TypeOK' /\ WriterUnchanged
  BY ReadTypeOK DEF RingInv, Read, ReadSeq1Retry
<1>2. /\ SlotsHoldPublished' /\ WriterProgress' /\ CellsBelong'
      /\ Published' = Published
      /\ \A c, s : Good(c, s)' <=> Good(c, s)
  BY <1>1, ReadKeepsMemory
<1>3. rpc = "seq1" /\ rpc' = "seq0" /\ UNCHANGED <<slots, call, returned>>
  BY DEF ReadSeq1Retry, WriterUnchanged
<1>4. ReaderPosition' /\ CopyGoodOrLapped'
  BY <1>2, <1>3 DEF RingInv, ReaderPosition, CopyGoodOrLapped, call, returned
<1>5. TornOnlyByOverlap' /\ Accounted'
  BY <1>2, <1>3 DEF RingInv, TornOnlyByOverlap, Accounted, returned
<1> QED
  BY <1>1, <1>2, <1>4, <1>5 DEF RingInv

(* The sequence word has not moved: the copy is good, and is returned. *)
LEMMA ReadSeq1ReturnInv == RingInv /\ ReadSeq1Return => RingInv'
<1> SUFFICES ASSUME RingInv, ReadSeq1Return PROVE RingInv'
  OBVIOUS
<1>1. TypeOK /\ TypeOK' /\ WriterUnchanged
  BY ReadTypeOK DEF RingInv, Read, ReadSeq1Return
<1>2. /\ SlotsHoldPublished' /\ WriterProgress' /\ CellsBelong'
      /\ Published' = Published
      /\ \A c, s : Good(c, s)' <=> Good(c, s)
  BY <1>1, ReadKeepsMemory
<1>3. /\ rpc = "seq1" /\ rpc' = "idle"
      /\ last_consumed_seq' = copy.seq /\ result' = copy
      /\ delivered' = delivered + 1 /\ lost' = lost + dropped_chunks
  BY DEF ReadSeq1Return
<1>4. /\ copy.seq = next_expected /\ next_expected < Published
      /\ dropped_chunks = next_expected - last_consumed_seq - 1
  BY <1>3 DEF RingInv, ReaderPosition
<1>5. ReaderPosition' /\ CopyGoodOrLapped'
  BY <1>1, <1>2, <1>3, <1>4 DEF ReaderPosition, CopyGoodOrLapped, TypeOK
<1>6. ~Lapped
  BY <1>1 DEF ReadSeq1Return, SeqUnchanged, Lapped, TypeOK, SlotRecord
<1>7. TornOnlyByOverlap'
  BY <1>2, <1>3, <1>6 DEF RingInv, CopyGoodOrLapped, TornOnlyByOverlap, Cells
<1>8. Accounted'
  BY <1>1, <1>3, <1>4 DEF RingInv, Accounted, TypeOK
<1> QED
  BY <1>1, <1>2, <1>5, <1>7, <1>8 DEF RingInv

LEMMA NextRingInv == RingInv /\ [Next]_vars => RingInv'
<1>1. RingInv /\ UNCHANGED vars => RingInv'
  <2> SUFFICES ASSUME RingInv, UNCHANGED vars PROVE RingInv'
    OBVIOUS
  <2>1. WriterUnchanged /\ UNCHANGED <<rpc, call, returned>> /\ TypeOK'
    BY NextTypeOK DEF vars, shared, WriterUnchanged, RingInv
  <2>2. /\ SlotsHoldPublished' /\ WriterProgress' /\ CellsBelong'
        /\ Published' = Published
        /\ \A c, s : Good(c, s)' <=> Good(c, s)
    BY <2>1, ReadKeepsMemory
  <2> QED
    BY <2>1, <2>2
    DEF RingInv, ReaderPosition, CopyGoodOrLapped, Lapped, TornOnlyByOverlap,
        Accounted, WriterUnchanged, call, returned
<1>2. RingInv /\ (Write \/ ProducerDies) => RingInv'
  BY WritePayloadLoInv, WritePayloadHiInv, WriteTailInv, WriteSlotSeqInv,
     WriteWriteSeqInv, ProducerDiesInv DEF Write
<1>3. RingInv /\ Read => RingInv'
  BY ReadWriteSeqInv, ReadSeq0Inv, ReadCellInv, ReadSeq1RetryInv,
     ReadSeq1ReturnInv DEF Read
<1> QED
  BY <1>1, <1>2, <1>3 DEF Next

(* The inductive invariant holds of every reachable state. *)
THEOREM RingInvHolds == Spec => []RingInv
  BY InitRingInv, NextRingInv, PTL DEF Spec
-----------------------------------------------------------------------------
(* What the ring promises, for every SlotCount and every length of stream. *)

(* A chunk read_next returns carries the data of the sequence number it is *)
(* returned under, or cells of exactly one lap later, of a chunk whose     *)
(* write had already begun.                                                *)
THEOREM TearingIsBounded == Spec => []TornOnlyByOverlap
<1>1. RingInv => TornOnlyByOverlap
  BY DEF RingInv
<1> QED
  BY <1>1, RingInvHolds, PTL

(* Every chunk up to the last returned one is returned or counted, once. *)
THEOREM LossIsAccounted == Spec => []Accounted
<1>1. RingInv => Accounted
  BY DEF RingInv
<1> QED
  BY <1>1, RingInvHolds, PTL

(* What a step does to the reader's position: nothing, or a return. *)
LEMMA OnlyReturnsConsume ==
  ASSUME Next \/ UNCHANGED vars, ~ReadSeq1Return
  PROVE  UNCHANGED <<last_consumed_seq, delivered, lost>>
  BY DEF Next, Write, Read, WritePayloadLo, WritePayloadHi, WriteTail,
         WriteSlotSeq, WriteWriteSeq, ProducerDies, ReadWriteSeq, ReadSeq0,
         ReadTail, ReadPayloadLo, ReadPayloadHi, ReadSeq1Retry,
         ReaderUnchanged, returned, vars

(* A reader jumps over a chunk only after it has been overwritten. *)
THEOREM LossNeedsOverrun == Spec => LossOnlyByOverrun
<1> DEFINE Jump == last_consumed_seq' > last_consumed_seq + 1 =>
             slots[SlotOf(last_consumed_seq + 1)].seq > last_consumed_seq + 1
<1>1. RingInv /\ [Next]_vars => Jump
  <2> SUFFICES ASSUME RingInv, [Next]_vars,
                      last_consumed_seq' > last_consumed_seq + 1
               PROVE  slots[SlotOf(last_consumed_seq + 1)].seq
                        > last_consumed_seq + 1
    OBVIOUS
  <2>1. TypeOK
    BY DEF RingInv
  <2>2. ReadSeq1Return
    <3> SUFFICES ASSUME ~ReadSeq1Return PROVE FALSE
      OBVIOUS
    <3>1. last_consumed_seq' = last_consumed_seq
      BY OnlyReturnsConsume
    <3> QED
      BY <2>1, <3>1 DEF TypeOK
  <2>3. /\ rpc = "seq1" /\ last_consumed_seq' = next_expected
        /\ dropped_chunks = next_expected - last_consumed_seq - 1
    BY <2>2 DEF ReadSeq1Return, RingInv, ReaderPosition
  <2>4. dropped_chunks > 0
    BY <2>1, <2>3 DEF TypeOK
  <2> QED
    BY <2>3, <2>4 DEF RingInv, ReaderPosition
<1> QED
  BY <1>1, RingInvHolds, PTL DEF Spec, LossOnlyByOverrun

(* The chunk a read returns is the next one, unless that was overwritten;  *)
(* and it has not been overwritten itself.                                 *)
LEMMA ReturnedIsDeliverable ==
  ASSUME RingInv, ReadSeq1Return
  PROVE  Fifo!Deliverable(copy.seq)
<1> DEFINE n == SlotCount
           p == Published
           last == last_consumed_seq
           at(s) == slots[SlotOf(s)].seq
<1>1. /\ last \in Int /\ copy.seq \in Nat /\ p \in Int
      /\ n \in Int /\ last >= -1
  BY RingAssumption DEF RingInv, TypeOK, SlotRecord, Published, ReaderPosition
<1>2. /\ last < copy.seq /\ copy.seq < p
      /\ copy.seq = next_expected
      /\ dropped_chunks = copy.seq - last - 1
      /\ dropped_chunks > 0 => at(last + 1) > last + 1
  BY DEF ReadSeq1Return, RingInv, ReaderPosition
<1>3. at(copy.seq) = copy.seq
  BY <1>2 DEF ReadSeq1Return, SeqUnchanged
<1>4. SlotsHoldPublished
  BY DEF RingInv
<1>5. copy.seq \in 0 .. p - 1 /\ last + 1 \in 0 .. p - 1
  BY <1>1, <1>2
<1>6. last + 1 + n >= p => at(last + 1) = last + 1
  BY <1>4, <1>5 DEF SlotsHoldPublished
<1>7. copy.seq + n >= p
  <2> SUFFICES ASSUME copy.seq + n < p PROVE FALSE
    BY <1>1
  <2>1. copy.seq + n \in 0 .. p - 1
    BY <1>1, RingAssumption
  <2>2. SlotOf(copy.seq + n) = SlotOf(copy.seq)
    BY <1>1, SlotNextLap
  <2>3. copy.seq + n <= at(copy.seq)
    BY <1>4, <2>1, <2>2 DEF SlotsHoldPublished
  <2> QED
    BY <1>1, <1>3, <2>3, RingAssumption
<1> HIDE DEF n, p, last, at
<1>8. last + 1 + n >= p => copy.seq = last + 1
  BY <1>1, <1>2, <1>6
<1> QED
  BY <1>1, <1>2, <1>7, <1>8 DEF Fifo!Deliverable, Fifo!Resident, n, p, last

(* The ring of shared memory, step by step, is the lossy FIFO: a read      *)
(* returns the next chunk or, when that was overwritten, a newer one that  *)
(* is still there, and reports how many it jumped over; every other step   *)
(* publishes one chunk or is invisible.                                    *)
THEOREM RingImplementsLossyFifo == Spec => ImplementsLossyFifo
<1>1. Init => Fifo!Init
  BY DEF Init, Fifo!Init, Published
<1>2. RingInv /\ [Next]_vars => [Fifo!Next]_(Fifo!vars)
  <2> SUFFICES ASSUME RingInv, [Next]_vars PROVE [Fifo!Next]_(Fifo!vars)
    OBVIOUS
  <2>1. TypeOK
    BY DEF RingInv
  <2>2. CASE ReadSeq1Return
    <3>1. Published' = Published
      BY <2>2 DEF ReadSeq1Return, WriterUnchanged, producer, Published
    <3>2. /\ last_consumed_seq < copy.seq /\ copy.seq < Published
          /\ copy.seq = next_expected
          /\ dropped_chunks = copy.seq - last_consumed_seq - 1
      BY <2>2 DEF ReadSeq1Return, RingInv, ReaderPosition
    <3>3. copy.seq \in 0 .. Published - 1
      BY <2>1, <3>2 DEF TypeOK, Published
    <3>4. Fifo!Deliverable(copy.seq)
      BY <2>2, <3>2, ReturnedIsDeliverable
    <3>5. Fifo!Deliver(copy.seq)
      BY <2>2, <3>1, <3>2, <3>4 DEF ReadSeq1Return, Fifo!Deliver
    <3> QED
      BY <3>3, <3>5 DEF Fifo!Next
  <2>3. CASE WriteSlotSeq
    <3>1. Published' = Published + 1
      BY <2>3 DEF WriteSlotSeq, Published
    <3>2. UNCHANGED <<last_consumed_seq, delivered, lost>>
      BY <2>3 DEF WriteSlotSeq, ReaderUnchanged, returned
    <3> QED
      BY <3>1, <3>2 DEF Fifo!Next, Fifo!Publish
  <2>4. CASE ~ReadSeq1Return /\ ~WriteSlotSeq
    <3>1. UNCHANGED <<last_consumed_seq, delivered, lost>>
      BY <2>4, OnlyReturnsConsume
    <3>2. Published' = Published
      BY <2>4 DEF Next, Write, Read, WritePayloadLo, WritePayloadHi, WriteTail,
         WriteWriteSeq, ProducerDies, ReadWriteSeq, ReadSeq0,
         ReadTail, ReadPayloadLo, ReadPayloadHi, ReadSeq1Retry,
         WriterUnchanged, producer, vars, Published
    <3> QED
      BY <3>1, <3>2 DEF Fifo!vars
  <2> QED
    BY <2>2, <2>3, <2>4
<1> QED
  BY <1>1, <1>2, RingInvHolds, PTL DEF Spec, ImplementsLossyFifo, Fifo!Spec
-----------------------------------------------------------------------------
(* The names of the rings (RingSweep): the same file decides which segment *)
(* in /dev/shm is stale and removes it, for any set of sources, finite or  *)
(* not, that are opened, killed and closed at the same time.               *)
SweepPart(s) ==
  \/ List(s) \/ \E r \in Sources : Attach(s, r)
  \/ CheckPid(s) \/ Unlink(s) \/ SweepDone(s)

OwnPart(s) ==
  \/ Create(s) \/ Pack(s) \/ Spawn(s) \/ StartupAlive(s)
  \/ StartupFails(s) \/ Close(s) \/ ConsumerKilled(s)

SourceStep(s) ==
  \/ Constructor(s) \/ Process(s)
  \/ Close(s) \/ ConsumerKilled(s)

Sweeping == {"sweep", "check", "unlink"}
InUse == {"pack", "spawn", "startup", "open"}

(* The order in which one source's ring comes into being: its name, its    *)
(* header, its producer, the pid of that producer.                         *)
RingIsBuilt ==
  \A s \in Sources :
    /\ pc[s] \in {"list", "create"} \cup Sweeping => s \notin linked
    /\ pc[s] \in {"spawn", "startup", "open"} \/ process[s] # "none" => s \in packed
    /\ s \in packed => pc[s] \notin {"list", "create", "pack"} \cup Sweeping
    /\ process[s] # "none" =>
         pc[s] \in {"startup", "open", "failed", "closed", "killed"}
    /\ s \in recorded => process[s] \in {"running", "dead"}
    /\ process[s] = "running" => s \in recorded

(* A sweep visits rings that exist or existed, and what was stale when it  *)
(* listed the directory stays stale and stays ahead of it until removed.   *)
SweepIsSound ==
  \A s \in Sources :
    /\ pc[s] \in Sweeping =>
         \A r \in entries[s] : pc[r] \notin {"list", "create"} \cup Sweeping
    /\ pc[s] \in {"check", "unlink"} => entry[s] \in entries[s]
    /\ \A r \in stale[s] : Stale(r)
    /\ pc[s] \in Sweeping => stale[s] \cap linked \subseteq entries[s]
    /\ pc[s] = "create" => stale[s] \cap linked = {}

(* A ring in use that a sweep has listed, or is about to unlink, had no    *)
(* recorded producer when some sweep listed it.                            *)
UnlinkNeedsOverlap ==
  \A s, r \in Sources :
    pc[r] \in InUse /\ process[r] # "dead" /\ r \notin disturbed =>
      /\ pc[s] \in Sweeping /\ r \in entries[s] =>
           r \in recorded /\ process[r] = "running"
      /\ pc[s] = "unlink" => entry[s] # r

SweepInv ==
  /\ SweepTypeOK
  /\ RingIsBuilt
  /\ SweepIsSound
  /\ UnlinkNeedsOverlap
  /\ HarmNeedsOverlap

USE DEF SweepPart, OwnPart, SourceStep, Goto, ProcessLives,
        ConsumerPC, sweepVars

LEMMA InitSweep == SweepInit => SweepInv
  BY DEF SweepInit, SweepInv, SweepTypeOK, RingIsBuilt, SweepIsSound,
         UnlinkNeedsOverlap, HarmNeedsOverlap, Sweeping, InUse

LEMMA TypeStep ==
  ASSUME SweepTypeOK, RingIsBuilt, NEW s \in Sources,
         SourceStep(s)
  PROVE  SweepTypeOK'
<1> USE DEF SweepTypeOK
<1>1. CASE SweepPart(s)
  BY <1>1 DEF List, Attach, CheckPid, Unlink,
              SweepDone
<1>2. CASE OwnPart(s)
  BY <1>2 DEF Create, Pack, Spawn, StartupAlive,
              StartupFails, Close, Remove,
              ConsumerKilled
<1>3. CASE Heartbeat(s)
  BY <1>3 DEF Heartbeat, RingIsBuilt
<1>4. CASE ProcessAttaches(s) \/ ProcessDies(s)
  BY <1>4 DEF ProcessAttaches, ProcessDies
<1> QED
  BY <1>1, <1>2, <1>3, <1>4 DEF Constructor, Process

LEMMA BuiltStep ==
  ASSUME SweepTypeOK, RingIsBuilt, NEW s \in Sources,
         SourceStep(s)
  PROVE  RingIsBuilt'
<1> USE DEF SweepTypeOK, RingIsBuilt, Sweeping
<1>1. CASE SweepPart(s)
  BY <1>1 DEF List, Attach, CheckPid, Unlink,
              SweepDone
<1>2. CASE OwnPart(s)
  BY <1>2 DEF Create, Pack, Spawn, StartupAlive,
              StartupFails, Close, Remove,
              ConsumerKilled
<1>3. CASE Process(s)
  BY <1>3 DEF Process, ProcessAttaches, Heartbeat,
              ProcessDies
<1> QED
  BY <1>1, <1>2, <1>3 DEF Constructor

(* A ring that is stale stays stale, and a dead producer stays dead. *)
LEMMA StaleIsStable ==
  ASSUME SweepTypeOK, RingIsBuilt, NEW s \in Sources,
         SourceStep(s),
         NEW r \in Sources, Stale(r)
  PROVE  Stale(r)' /\ (r \in linked' => r \in linked)
<1> USE DEF SweepTypeOK, RingIsBuilt, Sweeping, Stale
<1>1. CASE SweepPart(s)
  BY <1>1 DEF List, Attach, CheckPid, Unlink,
              SweepDone
<1>2. CASE OwnPart(s)
  BY <1>2 DEF Create, Pack, Spawn, StartupAlive,
              StartupFails, Close, Remove,
              ConsumerKilled
<1>3. CASE Process(s)
  BY <1>3 DEF Process, ProcessAttaches, Heartbeat,
              ProcessDies
<1> QED
  BY <1>1, <1>2, <1>3 DEF Constructor

LEMMA SweepStep ==
  ASSUME SweepTypeOK, RingIsBuilt, SweepIsSound, NEW s \in Sources,
         SourceStep(s)
  PROVE  SweepIsSound'
<1> USE DEF SweepTypeOK, SweepIsSound, Sweeping
<1>1. CASE List(s)
  BY <1>1 DEF List, RingIsBuilt, Stale
<1>2. ASSUME NEW r \in Sources, Attach(s, r) PROVE SweepIsSound'
  <2>1. CASE r \in linked \cap packed
    BY <1>2, <2>1, StaleIsStable DEF Attach, Constructor,
                                     Stale
  <2>2. CASE r \notin linked \cap packed
    <3>1. r \in stale[s] => r \notin linked
      BY <2>2 DEF Stale
    <3> QED
      BY <1>2, <2>2, <3>1 DEF Attach, Stale
  <2> QED
    BY <2>1, <2>2
<1>3. CASE CheckPid(s)
  <2>1. PidAlive(entry[s]) => entry[s] \notin stale[s]
    BY <1>3 DEF PidAlive, Stale
  <2> QED
    BY <1>3, <2>1 DEF CheckPid, Stale
<1>4. CASE Unlink(s)
  BY <1>4 DEF Unlink, Stale
<1>5. CASE SweepDone(s)
  BY <1>5 DEF SweepDone, Stale
<1>6. CASE OwnPart(s)
  <2>1. /\ UNCHANGED <<entries, entry, stale>>
        /\ \A r \in Sources \ {s} : pc'[r] = pc[r]
        /\ pc'[s] \notin {"list", "create"} \cup Sweeping
    BY <1>6 DEF Create, Pack, Spawn, StartupAlive,
                StartupFails, Close, Remove,
                ConsumerKilled
  <2>2. \A t \in Sources : \A r \in stale[t] :
          Stale(r)' /\ (r \in linked' => r \in linked)
    BY StaleIsStable
  <2> QED
    BY <2>1, <2>2
<1>7. CASE Process(s)
  <2>1. UNCHANGED <<entries, entry, stale, pc, linked>>
    BY <1>7 DEF Process, ProcessAttaches, Heartbeat,
                ProcessDies
  <2>2. \A t \in Sources : \A r \in stale[t] : Stale(r)'
    BY StaleIsStable
  <2> QED
    BY <2>1, <2>2
<1> QED
  BY <1>1, <1>2, <1>3, <1>4, <1>5, <1>6, <1>7 DEF Constructor

(* A ring that is in use after a step, with a producer that is not dead,   *)
(* was listed before, or is as it was, or has just been created.           *)
LEMMA UseIsNotResumed ==
  ASSUME SweepTypeOK, RingIsBuilt, NEW s \in Sources,
         SourceStep(s),
         NEW r \in Sources, pc'[r] \in InUse, process'[r] # "dead"
  PROVE  /\ process[r] # "dead"
         /\ pc[r] \in InUse \/ (pc[r] = "create" /\ r \in linked')
         /\ recorded \subseteq recorded' /\ disturbed \subseteq disturbed'
         /\ process[r] = "running" => process'[r] = "running"
<1> USE DEF SweepTypeOK, RingIsBuilt, Sweeping, InUse
<1>1. CASE SweepPart(s)
  BY <1>1 DEF List, Attach, CheckPid, Unlink,
              SweepDone
<1>2. CASE OwnPart(s)
  BY <1>2 DEF Create, Pack, Spawn, StartupAlive,
              StartupFails, Close, Remove,
              ConsumerKilled
<1>3. CASE Process(s)
  BY <1>3 DEF Process, ProcessAttaches, Heartbeat,
              ProcessDies
<1> QED
  BY <1>1, <1>2, <1>3 DEF Constructor

LEMMA OverlapStep ==
  ASSUME SweepTypeOK, RingIsBuilt, SweepIsSound, UnlinkNeedsOverlap,
         NEW s \in Sources,
         SourceStep(s)
  PROVE  UnlinkNeedsOverlap'
<1> SUFFICES ASSUME NEW t \in Sources, NEW r \in Sources,
                    pc'[r] \in InUse, process'[r] # "dead", r \notin disturbed'
             PROVE  /\ pc'[t] \in Sweeping /\ r \in entries'[t] =>
                         r \in recorded' /\ process'[r] = "running"
                    /\ pc'[t] = "unlink" => entry'[t] # r
  BY DEF UnlinkNeedsOverlap
<1> USE DEF SweepTypeOK
<1>1. /\ process[r] # "dead" /\ r \notin disturbed
      /\ pc[r] \in InUse \/ pc[r] = "create"
      /\ r \in recorded => r \in recorded'
      /\ process[r] = "running" => process'[r] = "running"
  BY UseIsNotResumed
<1>2. ASSUME pc[t] \in Sweeping, r \in entries[t]
      PROVE  r \in recorded' /\ process'[r] = "running"
  BY <1>1, <1>2 DEF SweepIsSound, UnlinkNeedsOverlap
<1>3. ASSUME pc[t] = "unlink" PROVE entry[t] # r
  BY <1>1, <1>3 DEF SweepIsSound, UnlinkNeedsOverlap, Sweeping
<1>4. CASE t # s
  <2>1. UNCHANGED <<pc[t], entries[t], entry[t]>>
    BY <1>4 DEF Constructor, List, Attach, CheckPid,
                Unlink, SweepDone, Create, Pack,
                Spawn, StartupAlive, StartupFails,
                Close, Remove, ConsumerKilled,
                Process, ProcessAttaches, Heartbeat,
                ProcessDies
  <2> QED
    BY <1>2, <1>3, <2>1
<1>5. CASE t = s /\ List(s)
  BY <1>1, <1>5 DEF List, RingIsBuilt
<1>6. CASE t = s /\ \E q \in Sources : Attach(s, q)
  BY <1>2, <1>6 DEF Attach, Sweeping
<1>7. CASE t = s /\ CheckPid(s)
  <2>1. entry[s] = r => PidAlive(r)
    BY <1>1, <1>7 DEF CheckPid, SweepIsSound, UnlinkNeedsOverlap,
                      Sweeping, PidAlive
  <2> QED
    BY <1>2, <1>7, <2>1 DEF CheckPid, Sweeping
<1>8. CASE t = s /\ Unlink(s)
  BY <1>2, <1>8 DEF Unlink, Sweeping
<1>9. CASE /\ t = s
           /\ ~List(s) /\ ~\E q \in Sources : Attach(s, q)
           /\ ~CheckPid(s) /\ ~Unlink(s)
  <2>1. CASE Process(s)
    BY <1>2, <1>3, <1>9, <2>1 DEF Process, ProcessAttaches,
                                  Heartbeat, ProcessDies
  <2>2. CASE ~Process(s)
    BY <1>9, <2>2 DEF Constructor, SweepDone, Create,
                      Pack, Spawn, StartupAlive,
                      StartupFails, Close, Remove,
                      ConsumerKilled, Sweeping
  <2> QED
    BY <2>1, <2>2
<1> QED
  BY <1>4, <1>5, <1>6, <1>7, <1>8, <1>9

LEMMA HarmStep ==
  ASSUME SweepTypeOK, RingIsBuilt, SweepIsSound, UnlinkNeedsOverlap,
         HarmNeedsOverlap,
         NEW s \in Sources,
         SourceStep(s)
  PROVE  HarmNeedsOverlap'
<1> SUFFICES ASSUME NEW r \in Sources, pc'[r] \in InUse, process'[r] # "dead"
             PROVE  r \in linked' \cup disturbed'
  BY DEF HarmNeedsOverlap, InUse
<1> USE DEF SweepTypeOK
<1>1. /\ process[r] # "dead" /\ disturbed \subseteq disturbed'
      /\ pc[r] \in InUse \/ (pc[r] = "create" /\ r \in linked')
  BY UseIsNotResumed
<1>2. CASE pc[r] = "create" /\ r \in linked'
  BY <1>2
<1>3. CASE pc[r] \in InUse
  <2>1. r \in linked \cup disturbed
    BY <1>1, <1>3 DEF HarmNeedsOverlap, InUse
  <2>2. CASE Unlink(s)
    <3>1. entry[s] = r => r \in disturbed
      BY <1>1, <1>3, <2>2 DEF Unlink, UnlinkNeedsOverlap
    <3> QED
      BY <1>1, <2>1, <2>2, <3>1 DEF Unlink
  <2>3. CASE ~Unlink(s)
    <3>1. /\ linked \ {s} \subseteq linked'
          /\ s \notin linked' => s \notin linked \/ pc'[s] \notin InUse
      BY <2>3 DEF Constructor, List, Attach, CheckPid,
                  SweepDone, Create, Pack, Spawn,
                  StartupAlive, StartupFails, Close,
                  Remove, ConsumerKilled, Process,
                  ProcessAttaches, Heartbeat, ProcessDies,
                  InUse
    <3> QED
      BY <1>1, <2>1, <3>1
  <2> QED
    BY <2>2, <2>3
<1> QED
  BY <1>1, <1>2, <1>3
-----------------------------------------------------------------------------
LEMMA NextSweep ==
  ASSUME SweepInv, [SweepNext]_sweepVars
  PROVE  SweepInv'
<1>1. ASSUME NEW s \in Sources,
             SourceStep(s)
      PROVE  SweepInv'
  BY <1>1, TypeStep, BuiltStep, SweepStep, OverlapStep, HarmStep DEF SweepInv
<1>2. CASE UNCHANGED sweepVars
  BY <1>2 DEF SweepInv, SweepTypeOK, RingIsBuilt, SweepIsSound,
              UnlinkNeedsOverlap, HarmNeedsOverlap, Stale
<1> QED
  BY <1>1, <1>2 DEF SweepNext

(* What concurrent sweeps, constructors and kills preserve. *)
THEOREM SweepInvHolds == SweepSpec => []SweepInv
  BY InitSweep, NextSweep, PTL DEF SweepSpec

(* A sweep removes every ring that was stale when it began, and a ring in  *)
(* use is removed only if it was listed before its producer's pid was      *)
(* recorded, for any number of sources.                                    *)
THEOREM SweepTakesTheStale == SweepSpec => []SweepsTheStaleOnly
<1>1. SweepInv => SweepsTheStaleOnly
  BY DEF SweepInv, SweepsTheStaleOnly, SweepIsComplete,
         SweepIsSound
<1> QED
  BY <1>1, SweepInvHolds, PTL
=============================================================================
