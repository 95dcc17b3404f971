------------------------------ MODULE ShmRing ------------------------------
(***************************************************************************)
(* The single-producer single-consumer chunk ring of sdr/shmring.py, one   *)
(* step per access to the shared memory, so that a write and a read of the *)
(* same slot interleave the way two processes on two cores do.             *)
(*                                                                         *)
(* A chunk is identified by its sequence number.  The memory cells of a    *)
(* slot hold the number of the chunk they were last written for, so a      *)
(* mixture of two chunks is visible as a disagreement between cells.  The  *)
(* payload copy is not atomic: it is represented by two cells, lo and hi.  *)
(* Each process's stores become visible in program order (x86-TSO), and a  *)
(* word of eight bytes is stored and loaded as a whole: the byte stores of *)
(* struct.pack_into within one word are not told apart.                    *)
(***************************************************************************)
EXTENDS Integers

CONSTANTS
  SlotCount,   \* slot_count of the ring's global header
  MaxSeq       \* bound: the producer publishes at most this many chunks

ASSUME RingAssumption == SlotCount \in Nat \ {0} /\ MaxSeq \in Nat

VARIABLES
  slots,       \* shared: per slot the seqlock word and the cells it covers
  write_seq,   \* shared: global header, stored last by write_chunk
  read_seq,    \* shared: global header, stored by read_next, read by nobody
  next_seq,    \* producer: _next_seq
  wpc,         \* producer: the store write_chunk does next
  alive,       \* producer: its process runs
  rpc,         \* consumer: the load read_next does next
  last_consumed_seq, \* consumer: _last_consumed_seq
  next_expected,     \* consumer: local of read_next
  dropped_chunks,    \* consumer: local of read_next
  copy,        \* consumer: seq0, and what has been copied from the slot
  result,      \* consumer: what the last successful read_next returned
  delivered,   \* history: number of results returned
  lost         \* history: sum of the dropped chunk counts of the results

shared == <<slots, write_seq, read_seq>>
producer == <<next_seq, wpc, alive>>
call == <<next_expected, dropped_chunks, copy>>
returned == <<last_consumed_seq, result, delivered, lost>>
vars == <<shared, producer, rpc, call, returned>>

Slots == 0 .. SlotCount - 1
SlotOf(s) == s % SlotCount

Unwritten == -1          \* a cell no chunk was ever written to (zero-filled)
Cell == Int
SlotRecord == [seq : Nat, tail : Cell, lo : Cell, hi : Cell]

WriterPC == {"idle", "hi", "tail", "seq", "write_seq"}
ReaderPC == {"idle", "seq0", "tail", "lo", "hi", "seq1"}

TypeOK ==
  /\ slots \in [Slots -> SlotRecord]
  /\ write_seq \in Nat
  /\ read_seq \in Nat
  /\ next_seq \in Nat
  /\ wpc \in WriterPC
  /\ alive \in BOOLEAN
  /\ rpc \in ReaderPC
  /\ last_consumed_seq \in Nat \cup {-1}
  /\ next_expected \in Nat
  /\ dropped_chunks \in Nat
  /\ copy \in SlotRecord
  /\ result \in SlotRecord
  /\ delivered \in Nat
  /\ lost \in Nat

Blank == [seq |-> 0, tail |-> Unwritten, lo |-> Unwritten, hi |-> Unwritten]

Init ==
  /\ slots = [i \in Slots |-> Blank]
  /\ write_seq = 0
  /\ read_seq = 0
  /\ next_seq = 0
  /\ wpc = "idle"
  /\ alive = TRUE
  /\ rpc = "idle"
  /\ last_consumed_seq = -1
  /\ next_expected = 0
  /\ dropped_chunks = 0
  /\ copy = Blank
  /\ result = Blank
  /\ delivered = 0
  /\ lost = 0
-----------------------------------------------------------------------------
(* The producer: write_chunk.  It never looks at the reader. *)

ReaderUnchanged == UNCHANGED <<rpc, call, returned, read_seq>>

WritePayloadLo ==
  /\ alive
  /\ wpc = "idle"
  /\ next_seq < MaxSeq
  /\ slots' = [slots EXCEPT ![SlotOf(next_seq)].lo = next_seq]
  /\ wpc' = "hi"
  /\ ReaderUnchanged /\ UNCHANGED <<write_seq, next_seq, alive>>

WritePayloadHi ==
  /\ alive
  /\ wpc = "hi"
  /\ slots' = [slots EXCEPT ![SlotOf(next_seq)].hi = next_seq]
  /\ wpc' = "tail"
  /\ ReaderUnchanged /\ UNCHANGED <<write_seq, next_seq, alive>>

(* Defective: write_seq is stored before the slot's sequence word. *)
WriteTailAnnounced ==
  /\ alive
  /\ wpc = "tail"
  /\ slots' = [slots EXCEPT ![SlotOf(next_seq)].tail = next_seq]
  /\ write_seq' = next_seq + 1
  /\ wpc' = "seq"
  /\ ReaderUnchanged /\ UNCHANGED <<next_seq, alive>>

WriteTail ==
  /\ alive
  /\ wpc = "tail"
  /\ slots' = [slots EXCEPT ![SlotOf(next_seq)].tail = next_seq]
  /\ wpc' = "seq"
  /\ ReaderUnchanged /\ UNCHANGED <<write_seq, next_seq, alive>>

(* The slot's sequence word is stored after everything it covers. *)
WriteSlotSeq ==
  /\ alive
  /\ wpc = "seq"
  /\ slots' = [slots EXCEPT ![SlotOf(next_seq)].seq = next_seq]
  /\ wpc' = "write_seq"
  /\ ReaderUnchanged /\ UNCHANGED <<write_seq, next_seq, alive>>

WriteWriteSeq ==
  /\ alive
  /\ wpc = "write_seq"
  /\ next_seq' = next_seq + 1
  /\ write_seq' = next_seq + 1
  /\ wpc' = "idle"
  /\ ReaderUnchanged /\ UNCHANGED <<slots, alive>>

(* The producer process exits or is killed, between any two stores. *)
ProducerDies ==
  /\ alive
  /\ alive' = FALSE
  /\ ReaderUnchanged /\ UNCHANGED <<slots, write_seq, next_seq, wpc>>

Write ==
  \/ WritePayloadLo \/ WritePayloadHi \/ WriteTail
  \/ WriteSlotSeq \/ WriteWriteSeq
-----------------------------------------------------------------------------
(* The consumer: read_next. *)

WriterUnchanged == UNCHANGED <<slots, write_seq, producer>>

(* Defective: the newest chunk is not read. *)
ReadWriteSeqOneShort ==
  /\ rpc = "idle"
  /\ write_seq > last_consumed_seq + 2
  /\ next_expected' = last_consumed_seq + 1
  /\ dropped_chunks' = 0
  /\ rpc' = "seq0"
  /\ WriterUnchanged /\ UNCHANGED <<read_seq, copy, returned>>

(* Defective: a reader exactly one ring behind skips. *)
ReadWriteSeqEager ==
  /\ rpc = "idle"
  /\ write_seq > last_consumed_seq + 1
  /\ LET expected == last_consumed_seq + 1
         skip_to  == IF write_seq - expected >= SlotCount
                     THEN write_seq - SlotCount + 1 ELSE expected
     IN  /\ next_expected' = skip_to
         /\ dropped_chunks' = skip_to - expected
  /\ rpc' = "seq0"
  /\ WriterUnchanged /\ UNCHANGED <<read_seq, copy, returned>>

(* The first load.  A call that finds nothing new returns None here and    *)
(* changes nothing; one that is more than a ring behind skips ahead.       *)
ReadWriteSeq ==
  /\ rpc = "idle"
  /\ write_seq > last_consumed_seq + 1
  /\ LET expected == last_consumed_seq + 1
         skip_to  == IF write_seq - expected > SlotCount
                     THEN write_seq - SlotCount ELSE expected
     IN  /\ next_expected' = skip_to
         /\ dropped_chunks' = skip_to - expected
  /\ rpc' = "seq0"
  /\ WriterUnchanged /\ UNCHANGED <<read_seq, copy, returned>>

(* The slot's sequence word.  Older than expected: read_next returns None   *)
(* (with words stored as a whole, it finds none older).  Newer: the reader *)
(* was lapped, and it resumes from the newer chunk.                        *)
SlotBehind == slots[SlotOf(next_expected)].seq < next_expected

ReadSeq0 ==
  /\ rpc = "seq0"
  /\ IF SlotBehind
     THEN rpc' = "idle" /\ UNCHANGED call
     ELSE LET seq0 == slots[SlotOf(next_expected)].seq
          IN  /\ dropped_chunks' = dropped_chunks + (seq0 - next_expected)
              /\ next_expected' = seq0
              /\ copy' = [copy EXCEPT !.seq = seq0]
              /\ rpc' = "tail"
  /\ WriterUnchanged /\ UNCHANGED <<read_seq, returned>>

ReadTail ==
  /\ rpc = "tail"
  /\ copy' = [copy EXCEPT !.tail = slots[SlotOf(next_expected)].tail]
  /\ rpc' = "lo"
  /\ WriterUnchanged
  /\ UNCHANGED <<read_seq, next_expected, dropped_chunks, returned>>

ReadPayloadLo ==
  /\ rpc = "lo"
  /\ copy' = [copy EXCEPT !.lo = slots[SlotOf(next_expected)].lo]
  /\ rpc' = "hi"
  /\ WriterUnchanged
  /\ UNCHANGED <<read_seq, next_expected, dropped_chunks, returned>>

ReadPayloadHi ==
  /\ rpc = "hi"
  /\ copy' = [copy EXCEPT !.hi = slots[SlotOf(next_expected)].hi]
  /\ rpc' = "seq1"
  /\ WriterUnchanged
  /\ UNCHANGED <<read_seq, next_expected, dropped_chunks, returned>>

(* Defective: the sequence word is not checked again. *)
SeqUnchecked == TRUE

SeqUnchanged == slots[SlotOf(next_expected)].seq = copy.seq

(* The sequence word moved during the copy: retry from the same slot. *)
ReadSeq1Retry ==
  /\ rpc = "seq1"
  /\ ~SeqUnchanged
  /\ rpc' = "seq0"
  /\ WriterUnchanged /\ UNCHANGED <<read_seq, call, returned>>

ReadSeq1Return ==
  /\ rpc = "seq1"
  /\ SeqUnchanged
  /\ last_consumed_seq' = copy.seq
  /\ read_seq' = copy.seq
  /\ result' = copy
  /\ delivered' = delivered + 1
  /\ lost' = lost + dropped_chunks
  /\ rpc' = "idle"
  /\ WriterUnchanged /\ UNCHANGED call

Read ==
  \/ ReadWriteSeq \/ ReadSeq0 \/ ReadTail
  \/ ReadPayloadLo \/ ReadPayloadHi \/ ReadSeq1Retry \/ ReadSeq1Return

Next == Write \/ ProducerDies \/ Read

Spec == Init /\ [][Next]_vars

(* The consumer polls read_next in a loop that never blocks for good; the  *)
(* producer owes nothing, it may stop or die at any point.                 *)
FairSpec == Spec /\ WF_vars(Read)
-----------------------------------------------------------------------------
(* Chunks whose slot has been published: write_seq lags by one between the *)
(* last two stores of write_chunk.                                         *)
Published == IF wpc = "write_seq" THEN next_seq + 1 ELSE next_seq

(* write_chunk has made its first store for chunk s. *)
Begun(s) == s < next_seq \/ (s = next_seq /\ wpc # "idle")

Cells(r) == {r.tail, r.lo, r.hi}

(* A cell of chunk seq, or of the chunk that is overwriting it. *)
Good(c, seq) == c = seq \/ (c = seq + SlotCount /\ Begun(c))

(* What the seqlock does guarantee: a returned chunk differs from the one  *)
(* its sequence number names only if the producer had begun to overwrite   *)
(* the slot, and then only by cells of the very next lap: read_next never  *)
(* returns data older than the sequence number, nor two laps newer.        *)
TornOnlyByOverlap ==
  delivered > 0 => \A c \in Cells(result) : Good(c, result.seq)

(* Every chunk up to the last one returned was either returned or counted  *)
(* in some result's drop count, and none was counted twice.                *)
Accounted == delivered + lost = last_consumed_seq + 1

(* A read jumps over chunks only if the oldest of them has been            *)
(* overwritten: a reader less than a ring behind loses nothing.  LossyFifo *)
(* has it too, as a condition of Deliver; here it is said of the slot.     *)
LossOnlyByOverrun ==
  [][last_consumed_seq' > last_consumed_seq + 1 =>
       slots[SlotOf(last_consumed_seq + 1)].seq > last_consumed_seq + 1]_vars

(* Every chunk write_seq announces is eventually returned or reported as   *)
(* dropped, also when the producer dies in the middle of a write.          *)
CatchesUp ==
  \A s \in 0 .. MaxSeq : (write_seq > s) ~> (last_consumed_seq >= s)

(* The ring implements the lossy FIFO of its size, with exact loss         *)
(* accounting and no loss but by overrun.                                  *)
Fifo == INSTANCE LossyFifo WITH
          published <- Published, last <- last_consumed_seq

ImplementsLossyFifo == Fifo!Spec

-----------------------------------------------------------------------------
(* The inductive invariant behind the safety properties. *)

(* A published chunk's slot holds it or a later chunk of the same slot, and *)
(* the last SlotCount published chunks are all there.                      *)
SlotsHoldPublished ==
  /\ write_seq = next_seq
  /\ \A s \in 0 .. Published - 1 :
       LET held == slots[SlotOf(s)].seq
       IN  /\ s <= held /\ held < Published
           /\ SlotOf(held) = SlotOf(s)
           /\ s + SlotCount >= Published => held = s

(* The stores of write_chunk done so far are in the slot. *)
WriterProgress ==
  LET slot == slots[SlotOf(next_seq)]
  IN  /\ wpc # "idle" => slot.lo = next_seq
      /\ wpc \in {"tail", "seq", "write_seq"} => slot.hi = next_seq
      /\ wpc \in {"seq", "write_seq"} => slot.tail = next_seq
      /\ wpc = "write_seq" => slot.seq = next_seq

(* A cell of a published slot belongs to the chunk its sequence word names *)
(* or to the one being written over it.                                    *)
Overwriting(i) == SlotOf(next_seq) = i /\ wpc \in {"hi", "tail", "seq"}
CellsBelong ==
  \A s \in 0 .. Published - 1 :
    LET slot == slots[SlotOf(s)]
    IN  \A c \in Cells(slot) :
          c = slot.seq \/ (c = next_seq /\ Overwriting(SlotOf(s)))

(* The reader's position, between the last chunk and the published ones.   *)
ReaderPosition ==
  /\ last_consumed_seq >= -1 /\ last_consumed_seq < Published
  /\ rpc # "idle" =>
       /\ last_consumed_seq < next_expected /\ next_expected < Published
       /\ dropped_chunks = next_expected - last_consumed_seq - 1
       /\ dropped_chunks > 0 =>
            slots[SlotOf(last_consumed_seq + 1)].seq > last_consumed_seq + 1
  /\ rpc \in {"tail", "lo", "hi", "seq1"} => copy.seq = next_expected

(* What has been copied is good, or the recheck is going to fail. *)
Lapped == slots[SlotOf(next_expected)].seq > copy.seq
CopyGoodOrLapped ==
  /\ rpc \in {"lo", "hi", "seq1"} => Good(copy.tail, copy.seq) \/ Lapped
  /\ rpc \in {"hi", "seq1"} => Good(copy.lo, copy.seq) \/ Lapped
  /\ rpc = "seq1" => Good(copy.hi, copy.seq) \/ Lapped

(* What holds between any two stores and loads of the two processes: the    *)
(* slots hold the chunks write_seq announces, the reader's position lies    *)
(* among them, what it has copied is good or its recheck will fail, and     *)
(* therefore no chunk it returns is torn beyond one lap or uncounted.       *)
RingInv ==
  /\ TypeOK
  /\ SlotsHoldPublished
  /\ WriterProgress
  /\ CellsBelong
  /\ ReaderPosition
  /\ CopyGoodOrLapped
  /\ TornOnlyByOverlap
  /\ Accounted
=============================================================================
