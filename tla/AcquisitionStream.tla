------------------------- MODULE AcquisitionStream -------------------------
(***************************************************************************)
(* The data path from the radio to StreamAssembler.push across the process *)
(* boundary: the acquisition loop and the control server of                *)
(* sdr/producer_main.py, and the reader thread of sdr/process_source.py.   *)
(* It follows what is said about a chunk: its place in the stream, its     *)
(* centre frequency, its RETUNE flag and its readback epoch.               *)
(*                                                                         *)
(* Samples are counted in chunks.  Between the antenna and the loop the    *)
(* device, its driver and the leftover of the last packet hold what has    *)
(* been received and not been read: a chunk may be older than a tune that  *)
(* is over.  The ring between the two processes is the lossy FIFO that     *)
(* ShmRing implements: a read may return what LossyFifo may deliver.       *)
(***************************************************************************)
EXTENDS Integers, Sequences

CONSTANTS
  SlotCount,   \* slots of the ring
  Held,        \* chunks' worth of samples that device and driver can hold
  Centres,     \* centre frequencies
  Gaps,        \* gap_samples the device reports in front of a chunk
  MaxIndex,    \* bound: length of the stream
  MaxEpoch     \* bound: changes of the readback

ASSUME StreamAssumption ==
  /\ SlotCount \in Nat \ {0} /\ Held \in Nat \ {0}
  /\ Centres # {}
  /\ Gaps \subseteq Nat
  /\ MaxIndex \in Nat /\ MaxEpoch \in Nat

VARIABLES
  hw,            \* the device: frequency its oscillator is set to
  waiting,       \* device: what it has received and not handed over, a chunk
                 \* at a time, each by the frequencies it was received at
  filling,       \* device: frequencies of the chunk it is receiving
  mpc,           \* acquisition loop
  cap,           \* acquisition loop: frequencies of the chunk read
  taken,         \* history: chunks read since the device was last tuned,
                 \* as long as those held at that moment last
  next_sample_index, hdr,             \* acquisition loop: locals of run()
  skipped,       \* history: chunks the producer knows it has lost so far
  center_freq_hz, retune_pending, meta_epoch, \* state, guarded by its lock
  tpc, freq,     \* control server: a tune between its two steps
  centre_at,     \* history: center_freq_hz at each meta_epoch
  log,           \* the chunks written to the ring, oldest first
  rpc,           \* reader thread
  next,          \* reader: sequence number it reads next
  rhdr, rdrop,   \* reader: the chunk in hand and the drops reported with it
  last_end,      \* reader: _last_sample_index_end, None before any chunk
  epoch_seen, readback, fetched,  \* reader: epoch of the cached readback
  host_dropped, host_overruns,    \* reader: the two totals
  pushes, pushed_centre,          \* history: what was pushed
  begun          \* history: place in the log of the first chunk pushed

None == -1

device   == <<hw, waiting, filling, tpc, freq>>
state    == <<center_freq_hz, retune_pending, meta_epoch, centre_at>>
loop     == <<mpc, cap, taken, next_sample_index, skipped, hdr>>
reader   == <<rpc, next, rhdr, rdrop, last_end, epoch_seen, readback, fetched,
              host_dropped, host_overruns, pushes, pushed_centre, begun>>
vars == <<device, state, loop, log, reader>>

(* The header of a chunk; and, as history, what it was received at, whether *)
(* a tune was between its two steps when it was labelled, and how much the *)
(* producer had lost by then.                                              *)
Header == [index : Nat, flag : BOOLEAN, centre : Centres, epoch : Nat,
           los : SUBSET Centres, midtune : BOOLEAN, skipped : Nat]

TypeOK ==
  /\ hw \in Centres /\ freq \in Centres /\ tpc \in {"idle", "tuned"}
  /\ waiting \in Seq(SUBSET Centres) /\ Len(waiting) <= Held
  /\ filling \subseteq Centres
  /\ mpc \in {"read", "label", "write"}
  /\ cap \subseteq Centres /\ taken \in 0 .. Held + 2
  /\ next_sample_index \in 0 .. MaxIndex /\ skipped \in Nat /\ hdr \in Header
  /\ center_freq_hz \in Centres /\ retune_pending \in BOOLEAN
  /\ meta_epoch \in 0 .. MaxEpoch /\ Len(centre_at) = meta_epoch + 1
  /\ log \in Seq(Header)
  /\ rpc \in {"read", "epoch", "fetch", "push"}
  /\ next \in 0 .. Len(log) /\ rhdr \in Header /\ rdrop \in Nat
  /\ last_end \in Nat \cup {None}
  /\ epoch_seen \in Nat \cup {None} /\ readback \in 0 .. meta_epoch
  /\ fetched \in BOOLEAN
  /\ host_dropped \in Nat /\ host_overruns \in Nat
  /\ pushes \in 0 .. next /\ pushed_centre \in Centres /\ begun \in 0 .. next

(* The device is open and tuned, the constructor has fetched its readback. *)
Init ==
  \E c \in Centres :
    LET first == [index |-> 0, flag |-> FALSE, centre |-> c, epoch |-> 0,
                  los |-> {c}, midtune |-> FALSE, skipped |-> 0]
    IN  /\ hw = c /\ waiting = <<>> /\ filling = {c}
        /\ freq = c /\ tpc = "idle"
        /\ center_freq_hz = c /\ retune_pending = FALSE
        /\ meta_epoch = 0 /\ centre_at = <<c>>
        /\ mpc = "read" /\ cap = {c} /\ taken = Held + 2
        /\ next_sample_index = 0 /\ skipped = 0 /\ hdr = first /\ log = <<>>
        /\ rpc = "read" /\ next = 0 /\ rhdr = first /\ rdrop = 0
        /\ last_end = None /\ epoch_seen = None /\ readback = 0
        /\ fetched = TRUE /\ host_dropped = 0 /\ host_overruns = 0
        /\ pushes = 0 /\ pushed_centre = c /\ begun = 0
-----------------------------------------------------------------------------
(* The device, whatever the two processes do.  *)

Receive ==
  /\ Len(waiting) < Held
  /\ waiting' = Append(waiting, filling)
  /\ filling' = {hw}
  /\ UNCHANGED <<hw, tpc, freq, state, loop, log, reader>>
-----------------------------------------------------------------------------
(* The acquisition loop. *)

(* The oldest samples the device holds, leftover first.                    *)
TakeHeld ==
  /\ mpc = "read" /\ waiting # <<>>
  /\ waiting' = Tail(waiting)
  /\ taken' = IF taken < Held + 2 THEN taken + 1 ELSE taken

(* A chunk, with the device's exact count of what it lost in front of it.  *)
ReadChunk(gap) ==
  /\ TakeHeld
  /\ next_sample_index + gap < MaxIndex
  /\ next_sample_index' = next_sample_index + gap
  /\ skipped' = skipped + gap
  /\ cap' = Head(waiting)
  /\ mpc' = "label"
  /\ UNCHANGED <<hw, filling, tpc, freq, state, hdr, log, reader>>

(* Defective: a chunk that is dropped takes the pending flag with it. *)
DropReadClears ==
  /\ TakeHeld
  /\ next_sample_index < MaxIndex
  /\ next_sample_index' = next_sample_index + 1
  /\ skipped' = skipped + 1
  /\ retune_pending' = FALSE
  /\ UNCHANGED <<hw, filling, tpc, freq, center_freq_hz, meta_epoch, centre_at,
                 mpc, cap, hdr, log, reader>>

(* raw is None: no slot is written, the sample counter advances. *)
DropRead ==
  /\ TakeHeld
  /\ next_sample_index < MaxIndex
  /\ next_sample_index' = next_sample_index + 1
  /\ skipped' = skipped + 1
  /\ UNCHANGED <<hw, filling, tpc, freq, state, mpc, cap, hdr, log, reader>>

(* Under the lock: the chunk's flag, centre and epoch. *)
Label ==
  /\ mpc = "label"
  /\ hdr' = [index |-> next_sample_index, flag |-> retune_pending,
             centre |-> center_freq_hz, epoch |-> meta_epoch,
             los |-> cap, midtune |-> tpc = "tuned", skipped |-> skipped]
  /\ retune_pending' = FALSE
  /\ mpc' = "write"
  /\ UNCHANGED <<device, center_freq_hz, meta_epoch, centre_at, cap, taken,
                 next_sample_index, skipped, log, reader>>

WriteChunk ==
  /\ mpc = "write"
  /\ log' = Append(log, hdr)
  /\ next_sample_index' = next_sample_index + 1
  /\ mpc' = "read"
  /\ UNCHANGED <<device, state, cap, taken, skipped, hdr, reader>>
-----------------------------------------------------------------------------
(* The control server, concurrently with the loop. *)

(* tune, first step: the device is retuned, without any lock, and drops    *)
(* nothing of what it has received.                                        *)
TuneDevice(f) ==
  /\ tpc = "idle" /\ meta_epoch < MaxEpoch
  /\ hw' = f /\ freq' = f
  /\ filling' = filling \cup {f}
  /\ taken' = 0
  /\ tpc' = "tuned"
  /\ UNCHANGED <<waiting, state, mpc, cap, next_sample_index, skipped, hdr, log,
                 reader>>

(* Defective: the centre changes, the flag is not raised. *)
TuneStateUnflagged ==
  /\ tpc = "tuned"
  /\ center_freq_hz' = freq
  /\ meta_epoch' = meta_epoch + 1
  /\ centre_at' = Append(centre_at, freq)
  /\ tpc' = "idle"
  /\ UNCHANGED <<hw, waiting, filling, freq, retune_pending, loop, log, reader>>

(* tune, second step, under the lock. *)
TuneState ==
  /\ tpc = "tuned"
  /\ center_freq_hz' = freq
  /\ retune_pending' = TRUE
  /\ meta_epoch' = meta_epoch + 1
  /\ centre_at' = Append(centre_at, freq)
  /\ tpc' = "idle"
  /\ UNCHANGED <<hw, waiting, filling, freq, loop, log, reader>>

(* set_params changes the readback only. *)
SetParams ==
  /\ tpc = "idle" /\ meta_epoch < MaxEpoch
  /\ meta_epoch' = meta_epoch + 1
  /\ centre_at' = Append(centre_at, center_freq_hz)
  /\ UNCHANGED <<device, center_freq_hz, retune_pending, loop, log, reader>>
-----------------------------------------------------------------------------
(* The reader thread. *)

ProducerUnchanged == UNCHANGED <<device, state, loop, log>>

(* The ring as the reader thread sees it: the chunks written are published, *)
(* and last is the one read_next returned last.                            *)
InHand == rpc # "read"
Returned == pushes + (IF InHand THEN 1 ELSE 0)
Fifo == INSTANCE LossyFifo WITH
          published <- Len(log), last <- next - 1, delivered <- Returned,
          lost <- next - Returned

ReadRing ==
  /\ rpc = "read" /\ next < Len(log)
  /\ \E s \in next .. Len(log) - 1 :
       /\ Fifo!Deliverable(s)
       /\ rhdr' = log[s + 1] /\ rdrop' = s - next /\ next' = s + 1
  /\ rpc' = "epoch"
  /\ ProducerUnchanged
  /\ UNCHANGED <<last_end, epoch_seen, readback, fetched, host_dropped,
                 host_overruns, pushes, pushed_centre, begun>>

SeeEpoch ==
  /\ rpc = "epoch"
  /\ epoch_seen' = rhdr.epoch
  /\ rpc' = IF rhdr.epoch = epoch_seen THEN "push" ELSE "fetch"
  /\ ProducerUnchanged
  /\ UNCHANGED <<next, rhdr, rdrop, last_end, readback, fetched, host_dropped,
                 host_overruns, pushes, pushed_centre, begun>>

(* get_readback, answered by the server between two other requests. *)
Fetch ==
  /\ rpc = "fetch" /\ tpc = "idle"
  /\ readback' = meta_epoch
  /\ fetched' = TRUE
  /\ rpc' = "push"
  /\ ProducerUnchanged
  /\ UNCHANGED <<next, rhdr, rdrop, last_end, epoch_seen, host_dropped,
                 host_overruns, pushes, pushed_centre, begun>>

(* ... or not answered: the cached readback stays, until the epoch changes *)
(* again.                                                                  *)
FetchFails ==
  /\ rpc = "fetch"
  /\ fetched' = FALSE
  /\ rpc' = "push"
  /\ ProducerUnchanged
  /\ UNCHANGED <<next, rhdr, rdrop, last_end, epoch_seen, readback,
                 host_dropped, host_overruns, pushes, pushed_centre, begun>>

(* Defective: a jump of sample_index is not looked at. *)
ProducerGapIgnored == 0

(* A jump of sample_index since the last chunk, whatever its cause. *)
ProducerGap ==
  IF last_end # None /\ rhdr.index > last_end THEN rhdr.index - last_end ELSE 0

Push ==
  /\ rpc = "push"
  /\ last_end' = rhdr.index + 1
  /\ host_dropped' = host_dropped + rdrop + ProducerGap
  /\ host_overruns' = host_overruns + (IF rdrop > 0 THEN 1 ELSE 0)
  /\ pushes' = pushes + 1
  /\ pushed_centre' = rhdr.centre
  /\ begun' = IF last_end = None THEN next ELSE begun
  /\ rpc' = "read"
  /\ ProducerUnchanged
  /\ UNCHANGED <<next, rhdr, rdrop, epoch_seen, readback, fetched>>

Loop == (\E gap \in Gaps : ReadChunk(gap)) \/ DropRead \/ Label \/ WriteChunk
Control == (\E f \in Centres : TuneDevice(f)) \/ TuneState \/ SetParams
Reader == ReadRing \/ SeeEpoch \/ Fetch \/ FetchFails \/ Push

Next == Receive \/ Loop \/ Control \/ Reader

Spec == Init /\ [][Next]_vars
-----------------------------------------------------------------------------
(* Properties. *)

(* The place in the ring's order of the last chunk pushed; what the stream *)
(* lost up to it, to the producer's knowledge or in the ring; and the part *)
(* of it that the producer had lost before the first chunk pushed, which   *)
(* the reader has nothing to compare with.                                 *)
Position == IF InHand THEN next - 1 - rdrop ELSE next
Overwritten == Position - pushes
Lost == IF pushes = 0 THEN 0 ELSE log[Position].skipped + Overwritten
Unseen == IF pushes = 0 THEN 0 ELSE log[begun].skipped

(* host_dropped_samples falls short of the loss by what the producer lost  *)
(* in front of the first chunk pushed, and by no more, also when the ring  *)
(* was overrun before that chunk was read; it exceeds the rest by no more  *)
(* than the chunks overwritten in the ring, which its drop count and the   *)
(* jump of sample_index report both; and it is exact but for the shortfall *)
(* while the ring is not overrun.                                          *)
LossBounded ==
  /\ TypeOK
  /\ Lost - Unseen <= host_dropped /\ host_dropped <= Lost - Unseen + Overwritten
  /\ host_overruns = 0 => host_dropped = Lost - Unseen

LabelMatchesEpoch ==
  \A i \in DOMAIN log : log[i].centre = centre_at[log[i].epoch + 1]
StaleOnlyAfterRetune ==
  \A i \in DOMAIN log :
    log[i].los # {log[i].centre} =>
      log[i].midtune \/ \E p \in 1 .. i : log[p].flag /\ i - p <= Held + 1

(* How far the label of a chunk can be trusted: its centre is the one the  *)
(* readback of its epoch names, and it was received at that centre, unless *)
(* it was labelled while a tune was between the device and the state, or   *)
(* it is the flagged chunk after a retune or one of those that follow it   *)
(* while what the device held at the tune lasts.                           *)
LabelsTrue == LabelMatchesEpoch /\ StaleOnlyAfterRetune

FlushedUnlessOverrun ==
  [][pushes' > pushes /\ pushes > 0 /\ pushed_centre' # pushed_centre =>
       rhdr.flag \/ rdrop > 0]_vars
ReadbackFresh ==
  [][pushes' > pushes /\ fetched => readback >= rhdr.epoch]_vars

(* A retune reaches the windows: the reader flushes the assembler before   *)
(* it pushes the first chunk labelled with a new centre, unless the flagged *)
(* chunk was overwritten in the ring; and the readback cached when a chunk *)
(* is pushed is at least as recent as the chunk, unless its last fetch     *)
(* failed.                                                                 *)
RetuneReachesWindows == FlushedUnlessOverrun /\ ReadbackFresh
=============================================================================
