# AerixRF: TLA+ specifications

AerixRF receives radio samples from an SDR, cuts them into windows, looks for
drone signals in each window, and records and reports what it finds. This
directory holds TLA+ models of it, the TLC configurations that check them, and
TLAPS proofs about eight of them. The models are of two kinds: state machines of
the parts where several processes or threads share state, or where files
outlive a crash; and operators for the computations that keep no state, checked
over enumerated inputs. Every definition was translated from the Python source;
`PROJECT.json` gives the file and the lines of each (its `map`). Paths below are relative to
`src/aerix_rf/`.

    tlasany ShmRing.tla                                  # parse
    tlc -workers 4 -config MCShmRing.cfg MCShmRing       # model-check
    tlapm ShmRingProofs.tla                              # check the proofs

## 1. The system

### Data path and processes

    producer process (sdr/producer_main.py)        consumer process
    +---------------------------------------+      +----------------------------------------------+
    | device --> acquisition loop --write-->| ring |--> reader thread --push--> StreamAssembler   |
    |            ^ state (lock)             | shm  |                                | read_window   |
    |         control server <== pipes =====|======|== main thread, tune()          v              |
    +---------------------------------------+      |      windows() --> process_window --> writer  |
                                                   |                                  thread --> disk
                                                   +----------------------------------------------+

The producer process owns the device and writes fixed-size chunks to a ring
in shared memory. A reader thread in the consumer process moves them to a
bounded queue. Whoever iterates `windows()` assembles windows from that queue,
analyses each of them and, in the `lock` and `capture` commands, hands it to a
writer thread that stores it. Older backends (libhackrf, antsdr_iio) run the
same assembler with their own callback or thread as the pushing side.

### Inventory

| component | state | operations | correct when | module |
|---|---|---|---|---|
| acquisition ring, `sdr/shmring.py` | slots (header with sequence word, payload), `write_seq`, `read_seq`, producer pid, state, heartbeat | `create`, `attach`, `write_chunk`, `read_next`, `heartbeat`, `mark_error`, `close`, `unlink`, `sweep_stale_rings` | chunks in order, tears bounded, losses counted; a sweep takes stale rings only | `ShmRing`, `RingSweep` |
| window assembly, `sdr/stream.py` | bounded queue, leftover, counters | `push`, `flush`, `mark_stopped`, `read_window` | no sample vanishes from the accounts, calls return | `StreamAssembler` |
| producer supervision, `sdr/process_source.py` | process handle, control client and lock, flags, cached readback | constructor, reader thread, `windows`, `tune`, `close` | no orphan, no silent end, nothing hangs | `ProcessSource` |
| acquisition producer, `sdr/producer_main.py` | stop event, centre, RETUNE flag, readback and epoch behind a lock, `next_sample_index` | acquisition loop, control server | labels and loss reports true | `AcquisitionStream` |
| USRP device, `sdr/uhd_device.py` | leftover, expected time, pending overflow | `recv_chunk`, `tune`, `close` | nothing discarded at a packet boundary, gaps exact | `UhdDevice` |
| direct receivers, `sdr/libhackrf.py`, `antsdr_iio*.py`; backend choice, `sdr/registry.py`, `capture.py` | device handle, RX thread, flags, assembler | `make_source`, `tune`, `windows`, `close` | one owner of the radio; a retune cleans up; loss ends windows | `Receivers` |
| spectrum sweeps, `sdr/sweep.py`, `scan/` | a sweep file, candidate lists | sweep, retry, tile, cluster, rank | a spectrum is of one pass, no hot region lost | `BandScan` |
| session recording, `session/store.py`, `cli.py` | metadata, file list, jsonl files, futures, IQ bytes | `create`, `write_iq`, `log_detection`, `finalize`, ... | records and files agree after any crash | `SessionRecorder` |
| annotation, `annotate.py` | a timeline, intervals | anchor, annotate | a window has the label in force | `DatasetCorpus` |
| detection node, `main.py`, `pipeline.py`, `config.py` | window in hand, recent cues, cadence store | main loop, `process_window` | verified windows have evidence | `Node`, `LivePipeline` |
| IQ evidence ring, `buffer/iq_ring.py` | directory of sample files and sidecars | `store`, `get`, `purge` | files in pairs, retention kept | `Node` |
| cue delivery, `uplink/client.py`, `local/server.py` | last 64 cues, HTTP session | push, drain, poll, post | - | `Node` |
| detection, `detect/`, `dsp/` | none between windows | burst extraction, labels | no burst lost or made up, labels earned | `LinkSignature` |
| DroneID decoding, `decode/` | none between windows | search, turbo code, frame | a frame is the one sent | `DroneIdSearch`, `DroneIdCode` |
| SiK telemetry, `decode/sik/` | MAVLink buffers within a window | Golay, frames, evidence, reassembly | each message once; a link is confirmed for cause | `SikCodes`, `SikLink` |
| classification, `classify/` | cached bundle | label a window, train | features fit the bundle; fair splits | `LivePipeline`, `Evaluation` |
| datasets, `datasets/` | index, tensors, sidecars | list, prepare, split, load | rows true, held out stays held out | `DatasetCorpus` |
| measurement scripts, `bench/` | none | folds, verdicts | figures earned | `Evaluation` |
| reports, `session/report.py`; stand-ins for hardware | none | text, test doubles | - | - |

### What is hard in it

* **Interleaving without locks.** The ring has none: its safety rests on the
  order of stores and on one sequence word. The assembler's queue is locked,
  but `push`, `flush` and `read_window` touch it, the leftover and the
  counters in several separate steps.
* **Failure at any point.** The producer can crash, hang, lose its device or
  refuse a tune. The constructor, the reader, `windows()`, `tune()` and
  `close()` can each be anywhere when it does.
* **Timeouts.** Replies arrive after their request has timed out. `close()`
  gives up waiting for the reader, for the producer's `stop`, for SIGTERM.
* **Loss and its accounts.** Samples are lost at the device, in the ring, in
  the queue, at a flush and at the end of the stream. Each is reported by a
  different counter and a consumer is told that the counts are exact.
* **Labels.** A chunk's frequency, RETUNE flag and readback epoch are set by
  one thread while another changes them, and pass through a lossy ring.
* **Crash consistency.** A session directory, the evidence ring and a prepared
  dataset are each written in several files that refer to each other, and read
  while they are written, or after a run was cut.
* **Bookkeeping over long inputs.** Splits of a dataset that grows, budgets and
  caps of a search, evidence that adds up over bursts and windows: the cases
  are many and a test has a few of them.

`PROJECT.json` lists these hazards one by one under `hazards`, each at its
line, with the properties that cover it.

## 2. The modules

| module | code | abstraction |
|---|---|---|
| `LossyFifo` | what a user of the ring may rely on | published chunks in order, the overwritten skipped, the number skipped exact |
| `ShmRing` | `write_chunk`, `read_next` | one action per store or load; implements `LossyFifo` |
| `RingSweep` | `sweep_stale_rings`, `create`, `attach`, the constructor's and `close`'s use of them | several sources; ring contents left out |
| `ProcessSource` | `process_source.py`, process life and control channel of `producer_main.py` | chunks counted only |
| `AcquisitionStream` | data path of both: loop, control server, reader | the ring is what `LossyFifo` promises; the device holds chunks |
| `StreamAssembler` | `stream.py` | samples are numbers along the stream |
| `SessionRecorder` | `_run_locked` of `cli.py`, the writes of `store.py` | a file is whole or not, a record is the window it is about |
| `UhdDevice` | `recv_chunk`, `tune` of `uhd_device.py` | a sample is its place on the device's clock and its tune |
| `Receivers` | `make_source`, `libhackrf.py`, `antsdr_iio*.py` | a frequency is the number of a tune; extends `UhdDevice` |
| `Node` | `main.py`, `iq_ring.py`, `server.py`, `client.py` | a key of the ring is the tick its window was captured in |
| `DatasetCorpus` | `annotate.py`, `datasets/`, split of `train_v2.py` | a uid is what it is a hash of, a length is in grid steps |
| `SikLink` | `decode/sik/pipeline.py`, `mavlink.py` | a byte is its value and where it comes from |
| `SikCodes` | `golay.py`, `frame.py`, burst search, hop maps | a word is the set of its one bits |
| `DroneIdCode` | `decode/turbo.py`, `frame.py` | metrics are integers |
| `DroneIdSearch` | `decode/droneid.py` | scores per cent, a clock that counts trials |
| `LinkSignature` | `detect/bursts.py`, `raster.py`, `energy.py` | frequencies in 10 kHz, times in 50 us |
| `LivePipeline` | `classify/model.py`, the cadence store of `pipeline.py` | folds over the windows of a run |
| `BandScan` | `scan/`, `sdr/sweep.py` | a power is hot or not |
| `Evaluation` | `bench/`, `classify/train/` | folds and scores of the libraries are part of the case |
| `Offline` | composes the seven above it, `SikCodes` included | picks a case, computes, stops |
| `ShmRingProofs`, `ProcessSourceProofs`, `AcquisitionStreamProofs`, `StreamAssemblerProofs`, `SessionRecorderProofs`, `ReceiversProofs`, `NodeProofs`, `DatasetCorpusProofs` | - | the theorems (section 4) |

The first parts form one pipeline with a narrow state between them: the ring
(`ShmRing` below, which is shown to implement `LossyFifo`; `AcquisitionStream`
above, which reads whatever `LossyFifo` may deliver), the pushed chunk (`AcquisitionStream`, `Receivers`
below, `StreamAssembler` above), the window (`StreamAssembler` below,
`SessionRecorder` and `Node` above). `ProcessSource` is the life-cycle of the
same two processes whose data path `AcquisitionStream` is; the process state of
the one and the data of the other do not influence each other except through
the end of the stream and the failed readback fetch, which both have.
`UhdDevice` is what `AcquisitionStream` knows as a read with a gap. What the
stages of a window compute is in the operator modules; `DroneIdSearch` extends
`DroneIdCode` and `LinkSignature`, `LivePipeline` extends `LinkSignature`.

In each module, comments starting "Defective:" mark operators that are not
part of the specification: they are variants of the action that follows
them, with a plausible bug in it. `PROJECT.json` pairs each checked property
with the variant under which it fails; this shows that the property depends
on what the code does there.

### ShmRing

State: a slot is its sequence word and three cells, `tail` (the rest of the
header) and `lo`, `hi` (two halves of the payload). Each cell holds the
number of the chunk it was written for, so a mixture is visible.
`write_chunk` is `WritePayloadLo`, `WritePayloadHi`, `WriteTail`,
`WriteSlotSeq`, `WriteWriteSeq`, in the order of its `pack_into` calls.
`read_next` is `ReadWriteSeq` (return None, or choose the position),
`ReadSeq0` (slot behind, at the expected chunk, or lapped), `ReadTail`,
`ReadPayloadLo`, `ReadPayloadHi`, and `ReadSeq1Retry` or `ReadSeq1Return`.
The producer may die between any two stores.

Assumptions: each process's stores become visible in program order (x86-TSO),
and an eight-byte word (`write_seq`, a slot's sequence word) is stored and loaded
as a whole. The Python code has no barrier, so a weaker memory could also
reorder the stores; and `struct.pack_into('<Q', ...)` stores bytes, so a reader
on another core can see part of a word's new bytes. The early return of
`read_next` for a slot that is behind (`shmring.py:315-318`, "race with a
concurrent writer") is for that; the model has the branch, and with whole words
no state takes it. Nothing is claimed of it.

### StreamAssembler

A step is the stretch of one thread between two accesses to shared state.
`push` is `StartPush`, `Put` or `PutFull`, `Evict`, `Reput`; `flush` is
`FlushLeftover`, then `FlushChunk` until the queue is empty, then
`FlushDone`; `read_window` is `Begin`, then `Pull` or `PollEmpty` (with
`StillActive`), then `ReturnFull`, `ReturnTimeout` or `ReturnNone`. Each
chunk carries the frequency it was really received at beside its label.
Time stamps, rate estimates and clip statistics are left out; nothing in
the control depends on them. The counter of short reads is left out too.

### ProcessSource

Threads of the consumer process: main (constructor and `close`), reader,
the iterator of `windows()`, a user of `tune()`; of the producer: the loop
and the control server. `Send`, `Answered`, `Fails` and `Completes` are the
control client's `request`, with its lock held across the wait: an answer
comes, the wait times out, or the pipe ends. `TuneRaises` is a device that
refuses a tune: the exception ends the control thread, whose `finally`
stops the loop, and the producer ends with exit code 0. `SIGKILL` is
effective. A read of the pipe that outlives the two-second join is the only
way in which the join times out; the other statements of the reader's loop
take no longer than its 50 ms sleep. Pid reuse and Python's resource tracker
are not modelled.

### AcquisitionStream

The device is `Receive`: it fills chunks at the frequency it is set to and holds
up to `Held` of them (libiio's kernel buffers; the leftover and the stream
buffers of the USRP) until they are read. The loop is `ReadChunk` (the oldest of
them, with what the device says of a gap) or `DropRead` (no chunk), `Label`
(under the lock), `WriteChunk`. A tune is `TuneDevice`, which discards nothing of
what is held, then `TuneState` under the lock. The reader is `ReadRing`,
`SeeEpoch`, `Fetch` or `FetchFails`, `Push`. `ReadRing` returns what
`Fifo!Deliverable` allows; that the ring delivers nothing else is `ShmRing`'s
`ImplementsLossyFifo`, here a premise. A loss that the device does not report
(libiio reports none) is not in the stream at all.

`taken`, `skipped` and `begun` are history: how long ago the device was tuned,
what the producer knows it has lost, and which chunk the reader got first. Of the
losses before that chunk the reader counts only what the ring reports, since it
has no earlier `sample_index` to compare with; `Unseen` is the rest.

### RingSweep

Per source: the constructor lists `/dev/shm`, attaches each entry, tests its
pid, unlinks it or not, then creates its own ring, writes the header, spawns
and awaits the producer. The consumer process and the producer may be killed
anywhere. The pid in the header is 0 until the producer's first heartbeat. A
ring whose creator was killed before it wrote the header can be attached by
no sweep, and stays; `Stale` says so.

### SessionRecorder

Main thread: `NextWindow` (receive, analyse, decide under the cap), `Reap`,
`Submit` or `ResultRaises`, `LoopEnds` at any point of the loop, `Shutdown`,
`Finalize` or `FinalizeFails`. Writer: `Take`, `OpenIq`, `WriteIq`,
`ListIq`, `WritePng`, `LogDetection`, `LogDecode`, each of which may fail.
`Crash` at any point. A failure after the entry or the line has been made
leaves it in memory; a line may be broken off. The crash is one of the
process: what was written stays written (power loss is not modelled). The
session starts created; a second Ctrl-C during shutdown is not modelled, nor
are `open`, `verify`, replay and the other commands.

### UhdDevice and Receivers

`recv_chunk` is `BeginChunk` (the leftover first), `Recv...` for each outcome
of `rx.recv` (packet, overflow, nothing), `FileAway` and `ReturnChunk`; `tune`
runs on another thread as `TuneSetsFreq`, `TuneForgetsEnd`,
`TuneForgetsOverflow`. Opening, gains and the readback dictionary are left out.

In `Receivers` the main thread opens backends in `make_source`'s order
(`ProbeFails`, `ProbeOk`, `OpenDevice`, `Configure`, `StartStream`, and
`ConstructorFails` at each), asks for windows, tunes and closes; the RX thread
of libiio or the callback of libhackrf refills, labels and pushes. libhackrf
tunes the radio and then the label, libiio the label and then the radio. The
radio admits one handle. A behaviour is of a direct receiver or of a USRP,
never of both: the two share no state in the program either.

### Node

The loop of `main.run` is `TakeWindow`, `GatherCues`, `SaveBegins`,
`SaveEnds`, `WriteSidecar`, `PurgeLists`, `UnlinkIq` and `UnlinkSidecar` for
each old key, `PostAndBeat`; the API's threads are `PushCue`, `GetLooks` and
`GetLoads`. `Stop` ends the process anywhere and `Start` begins anew with the
files it left. The clock never goes back; the capture time of a window may lag
it, or be in the past when a file is replayed.

### SikLink and SikCodes

A window of `SikLink` is a list of bursts with the channel as estimated
(`LinkSends` for the link whose stream is followed, `OtherSends` for another),
closed by `EndOfDwell`, which is `decode_sik_window` up to the evidence level.
`Feed` gives the next of the confirmed link's frames (`Unfed`, by their places)
to the decoder, as `SikMavlinkDecoder.feed` does with its buffer, its parser and
`_consumed_prefix_len`; `heard` is all it was given in this window. A new window has a new
decoder, as in the code. A checksum matches if the bytes it covers are those of
one message; of the header the start byte, the length and the flags are kept.

`SikCodes` has the Golay code (its tables were compared with the definitions),
the checksums, both framings, the search for preamble and sync word in either
polarity, the rate hypotheses, the generator of hop maps and the search for the
seed. GFSK demodulation is what bits it returns.

### DatasetCorpus

`Arrive` (a download completes), `Annotate` (`annotate_session` on an
operator's log), `UpdateCode`; `StartRun` lists the recordings of one dataset
with its adapter and cuts them into windows, then `WriteTensor`, `AppendRow`,
`WriteSidecar` for each, and `Cut` at any of them, which may leave half of what
was being written; `Train` is `iter_dataset`, `load_rows` and
`assign_splits`. The hash of a group is a constant, its place in 0..99. Reading
foreign formats, resampling and the tensors' contents are left out.

### The modules of Offline

`DroneIdCode` is the encoder, the interleaver, rate matching, the max-log
decoder and the frame's fields. A round trip through it is checked on a block
of 40 bits; of the program's own code of 1408 bits the interleaver and the
rate matching are checked. `DroneIdSearch` goes from the envelope (240 blocks)
and the spectrum (40 bins of 500 kHz) to segments, to hypotheses of the centre,
to the order of their trial under the budget of time, candidates and centres,
to frames. A correlation is a given score, and a frame decodes only at the true
centre. In the clock only trials of a centre take time.

`LinkSignature` has the burst extraction of `bursts.py` (arming, hysteresis,
bridging, components, the cap) on spectrograms of 8 by 8, and `raster.py`'s
channels, spacing, period, cadence and suppression on lists of bursts. Angles
are rounded to 64 directions, and the free search steps by 100 kHz.
`LivePipeline` adds what is carried from window to window: the cached bundle
(its time of modification and its content are one look, although `model.py`
reads them at 202 and 214), and the store of beacons. `BandScan` cuts rows into sweeps, tiles bands,
clusters and ranks. `Evaluation` has the loading rules, the tiers' folds, the
probe's subset and verdict, the false-alarm budget and the first trainer's
split; how a library spreads groups over folds, and how well a fitted model
does, belong to the case.

`Offline` picks a case, `Run` records in `out` what the code returns for it, and
the properties compare `out` with the case.

## 3. What is checked

A property of a run is often a conjunction of named parts; the parts are in the
middle column.

| run | properties, and their parts | bounds | states |
|---|---|---|---|
| `ring` | `RingInv`; `TornOnlyByOverlap`; `CatchesUp`; `ImplementsLossyFifo` | 2 slots, 6 chunks | 27 000 |
| `assembler` | `AccountsHold` (samples conserved, newest kept, health exact without overflow); `InOrder`; `ReadsEnd` (calls return, iteration ends) | window 3, chunks of 2 and 4, queue of 2, 9 samples, gaps 0, 1 and unknown, one retune | 260 000 |
| `assembler_hole` | *violated*: `CompleteIsContiguous` | chunks of 2, 10 samples | - |
| `supervision` | `EndsCleanly` (no orphan, no unmapped ring used, readback the device's); `EndIsTold` (a loss is unexpected, an end is never silent); `NothingHangs` (close and constructor return, a death is noticed) | 2 chunks, 1 tune | 218 000 |
| `stream` | `LossBounded`; `LabelsTrue` (label matches epoch, stale only after a retune); `RetuneReachesWindows` (flush unless overrun, readback fresh) | 2 slots, 1 chunk held, 2 frequencies, 4 chunks, gaps 0 and 1, 2 epochs | 2 510 000 |
| `sweep` | `SweepsTheStaleOnly` (a sweep is complete, harm needs an overlapping start) | 3 sources | 175 000 |
| `session` | `ListedFilesVerify`; `EvidenceIsListed`; `DoneIsRecorded`; `FinalIsFinal`; `FinalisedEitherWay` | 4 windows of 3 kinds, 2 failed writes | 1 190 000 |
| `node` | `EvidenceReadable` (files consistent, a fetch fails only in a race); `VerifiedHasEvidence`; `RetentionKept` (evidence kept, purged on write) | 2 serials, bus of 2, clock of 4, retention 1, lag 1, one stop | 3 720 000 |
| `receivers` | `RetuneCleansUp`; `HandleIsTheSources`; `ChunksTrue` (order and completeness, gaps exact); `LossEndsWindows` | 2 tunes, 2 buffers in flight, queue of 2; chunks of 2, packets up to 3, 8 samples | 226 000 |
| `sik` | `MessagesReportedOnce` (each byte once, split messages reported); `ConfirmedByJitterOnly` | 4 streams, packets of 2 and 3, jitter 0 and 1, 4 bursts, 2 windows, buffer 8 | 1 220 000 |
| `datasets` | `RowsTrue` (tensor, row and sidecar agree, annotations true); `HeldOutStaysHeldOut`; `TrainFailsOnlyAfterCut` | small mirrors of five datasets, day of 4, 2 runs, 1 cut, 2 timelines, 2 trainings | 854 000 |
| `offline` | `BurstTrue`, `FramesTrue`, `BurstsTried`, `HopsTrue`, `ScanTrue`, `SignalsTrue`, `ModelTrue`, `VerdictsTrue` | enumerated inputs | 145 000 |

Type invariants are parts of the first property of each run. What each property
says is in the comment in front of it.

### Why the bounds are enough

* Ring: 6 chunks on 2 slots are three laps. A read that overlaps a write
  meets the same lap, the next one, and the one after; further laps repeat
  these cases, since slots and reader only depend on differences of sequence
  numbers. The proofs cover every slot count and every length.
* Assembler: with windows of 3 and chunks of 2 and 4 a chunk is shorter or
  longer than a window, spills over, or ends with it; 9 samples fill the
  queue of 2, evict, and still complete windows.
* Supervision: the chunks only matter as "there was one more".
* Stream: with 2 slots and 4 chunks the reader can be overrun by one and
  by two, before its first read and after it; two epochs let a tune and a
  parameter change follow each other. One chunk held, one being filled and one
  in the loop's hand are the three places where a chunk can be older than a tune.
* Sweep: a third source is needed for two sweeps over the ring of one.
* Session: the fourth window is the first that meets a full backlog, and the
  first that the cap refuses.
* Node: with a retention of one tick and a clock of four a key is stored, kept,
  purged and met again after a restart. The bus of two (64 in the code)
  overflows. Serials are only compared for equality, hence the symmetry.
* Receivers: a chunk of 2 from packets of up to 3 leaves a leftover of one, none
  or the whole next chunk; two tunes overlap one call. Two buffers in flight are
  the least for which one is labelled while another waits.
* SiK: the minimum of bursts, frames and channels is met exactly, missed by one
  and exceeded; every stream has a message over three frames. The buffer's cap
  of 4096 bytes is never reached within a window, neither here nor in the
  program: the longest window carries less.
* Datasets: two runs and two trainings are the least between which something
  can change; a day of four ticks puts midnight inside a session.
* Offline: every pattern of up to four errors in a Golay word; codes, files,
  hop schedules, bands, scenes and corpora with each rule's two sides
  (`MCOffline.tla` says what each set varies).

Deadlock is checked by `offline` only (its behaviours end in `Done`, a
stutter). The stream, the chunks and the windows of the others are bounded, a
source is opened once, and a finalised session has nothing to do. Their
liveness properties take its place.

### Fairness

* `ShmRing`: the reader is scheduled. Nothing is assumed of the producer.
* `StreamAssembler`: the consumer is scheduled (weak), and its deadline is
  wall-clock time: a call that keeps polling is cut short (strong fairness of
  `ReturnTimeout`, since a chunk that arrives disables it for a moment).
* `ProcessSource`: the consumer's threads are scheduled and their waits time
  out, which every wait in the source does. The producer may hang for ever.
* `SessionRecorder`: both threads run until the process is killed. Nothing
  is assumed of the receiver: `FinalisedEitherWay` says that the loop is not
  held by the writer, and that shutdown ends.
* `Receivers`: the thread that owns the source keeps asking for windows, and a
  tune in progress completes. Nothing is assumed of the radio or of the RX
  thread but, in `LossEndsWindows`, that the device is lost.
* The others have safety properties only.

The bound on the ring's stream hides one thing: `read_next` retries as long
as the writer laps it during each copy. With an endless stream `CatchesUp`
needs a pause of the writer, and the code bounds neither.

### Where the code and its documentation differ

One difference is a run that TLC must find violated, and an entry of `findings`:

* **`CompleteIsContiguous`** (run `assembler_hole`): an eviction charges the
  evicted chunk's samples to the *newest* chunk's gap. The hole is in front of
  the *oldest* one left, so a window can be called complete and have a hole;
  `stream.py:22` says that it surfaces between windows.

For the following the run checks what the code does keep, and the property's
comment says where it stops short of the text:

* Ring: only the slot's sequence word is rechecked, and it is the *last* store
  of the slot (`shmring.py:279`, 349). While the next lap's payload is being
  stored it still has the old value, so a copy made then is accepted, although
  `shmring.py:19` and `tests/test_shmring.py:135` say it is retried, "never a
  torn mix". `TornOnlyByOverlap`: foreign cells are of the very next lap.
* Assembly: `flush` cannot reach the parts that a `read_window` in progress has
  taken already (`stream.py:270`); `libhackrf.py:18` says that the next window
  is clean.
* Stream: what device, driver and leftover hold at a tune is older than it.
  `docs/design/antsdr-backend.md:423` has a retune applied between refills and
  the first chunk after it flagged, on which the assembler is flushed; but the
  flagged chunk and those that follow it while the stock lasts are of the old
  frequency under the new label. `LabelsTrue` bounds how many.
* Stream: once a chunk has been read, an overrun is counted by the ring and again
  as a jump of `sample_index` (`process_source.py:423`); `process_source.py:24`
  and `docs/design/antsdr-backend.md:460`, 489 call the count exact.
  `LossBounded` allows for each chunk overwritten once more.
* Stream: what the producer lost before the first chunk the reader gets is in no
  count (`process_source.py:417`), although `antsdr-backend.md:489` wants every
  gap. `LossBounded` says how much that is.
* Sweep: the pid is 0 until the first heartbeat, which comes after the device
  is open; until then the ring looks abandoned (`shmring.py:409`, 423). The
  part `HarmNeedsOverlap` bounds this.
* Session: the cap counts two bytes per sample (`cli.py:435`); cs16 has four.
* Evidence: only a store purges, so the last windows of a node that stores no
  more stay for ever; the module text of `iq_ring.py` says they never outlive
  the window.
* MAVLink: a payload byte equal to a start byte can lose a message that is
  split over frames (`mavlink.py:465`, 526), and so can the start of a message
  whose rest was lost: the parser returns a frame there, verified or not, that
  reaches into the whole message behind it, and goes on behind that frame.
  `mavlink.py:430` says that a start byte that leads to no valid frame is skipped
  alone. `MessagesReportedOnce` names both cases; short of them a whole message
  is reported.
* Scan: a sweep is cut where a bin would be filled twice, so a pass whose first
  row was lost takes the first row of the next one, and the cut stays there:
  with two passes and the first row of the first lost, one sweep made of both is
  returned. `sweep.py:117` says that a sweep with a dropped row must not swallow
  the next one. `ScanTrue` keeps the passes before the first such loss whole, and
  bounds how many passes a sweep is made of by the rows lost.
* Annotation: windows in a transition are marked, and
  `docs/field/positives-protocol.md:34` and `train_v2.py:13` say they must be
  dropped; nothing reads the mark.
* USRP: `last_device_time_ns` is not the time of the first sample when the
  chunk begins with a leftover.
* Node: when a cue of a batch verifies the window the rest of the batch is
  dropped (`main.py:52-60`); `local/server.py:5` says that a cue "triggers a
  verified snapshot".
* DroneID: `frame.py:5` says one table of offsets drives packing and parsing;
  the packer does not use it (`FramesTrue` shows that they agree).
* Sweeps: with a step of 12 MHz trimmed to 0.82 and bins of 500 kHz two grid
  points of 5650-5950 MHz lie in seams no dwell reaches; `sdr/sweep.py:207`
  says the dwells tile the band.

### Seen on the way

Not errors against a text, but behaviour a maintainer may not expect. The
properties are stated so that they hold with it.

* Acquisition: when `read_next` is lapped inside a slot it counts chunks as
  dropped that are still resident (the count agrees with what it returns, which
  is what `Accounted` says); the parts held by a `read_window` that returns None
  at the end are not in `tail_discarded_samples` (`abandoned` in the model); a
  producer that dies just before `close()` is reported as `user_stop`; a chunk
  received across a retune has one label; a writer's future that failed and was
  reaped is not reported.
* Receivers: a libhackrf constructor that fails after `hackrf_open` keeps the
  device; `open_buffer` of antsdr_iio stands outside the try, so a failure there
  never reaches the assembler; `recv_chunk` has no bound on its timeouts; its
  leftover holds samples of the old centre after a retune.
* SiK: a link on one channel can be confirmed by the jitter of its centre
  estimates, rounded to 1 kHz; only the first confirmed NETID is decoded; zero
  bits after a sync word are a valid frame of NETID 0 under both hypotheses.
* Datasets: a rerun of prepare appends rows again; `_assert_group_splits_disjoint`
  cannot fire; annotating again moves a window to another group; a first line
  after midnight is anchored a day early; a line cut in `index.jsonl` takes the
  next with it; a torn tensor raises outside the try of
  `benchmark_features_v2.py:243`; a sweep that returns to a frequency gives two
  dwells one uid; an unknown emitter trains as background; half of a Zenodo pair
  becomes a recording.
* Scan and labels: a retry of `sweep_once` can return a file kept from before;
  `SessionCadenceStore.add` returns early on an empty window, and old events go
  on promoting; a burst in the second or last-but-one frame is extended to the
  edge by the bridging; with frames longer than 0.5 ms the period test is not
  available and a BLE connection is told a grid hopper; the session's cadence
  does not reach the classifier.
* Scripts: the probe is conclusive only with five recordings per receiver;
  tier functions take all ANTSDR rows as negatives, whatever their label;
  `save_bundle` is not atomic, and a torn bundle stays cached until its time of
  modification changes.
* DroneID: neither the inner CRC16 nor the length byte is checked; a sequence
  number that wraps is flagged; an exception while candidates are ranked is
  outside the try of each.

## 4. What is proved

Each state machine of the acquisition path, the session recorder, the node and
the datasets has its proofs in a module `...Proofs`; those of the SiK decoder are
in `DatasetCorpusProofs`, whose lemmas on joined sequences they share, and those
of `Offline` in `NodeProofs`. A theorem holds for every value of the constants that
the named assumption admits: the bounds on streams, tunes and the like are any
natural numbers there, and the invariants do not depend on them. Where an
assumption says more than that a constant is a number, it is what the code
checks or passes (a ring has a slot, a window and a queue are not empty, no
chunk is empty).

None of the properties is inductive alone. Each module states the inductive
invariant in named parts, one lemma per part or per group of actions, and
derives the properties from it. TLC found each invariant true on the instance
of the component's run before it was proved: an MC module that extends the
module of proofs as well can name it as an INVARIANT (for `NothingMissing` of
the assembler with its four places taken from `0 .. pos`).

### ShmRing (`RingAssumption`)

| theorem | statement |
|---|---|
| `TypeCorrect`, `RingInvHolds` | `TypeOK`; `RingInv`, the inductive invariant |
| `TearingIsBounded` | `TornOnlyByOverlap` |
| `LossIsAccounted` | `Accounted` |
| `LossNeedsOverrun` | `LossOnlyByOverrun`, an action property (the refinement implies it, so no run repeats it) |
| `RingImplementsLossyFifo` | `ImplementsLossyFifo`, the safety refinement |

To know what a returned chunk can hold one must know what the reader's copy can
hold at each load, hence what the slot can hold at each store, hence where the
writer is. `RingInv` says this in parts:

* `SlotsHoldPublished`: a published chunk's slot holds it or a later chunk of
  that slot, and the last `SlotCount` published chunks are all there.
* `WriterProgress`: the stores done so far are in the slot being written.
* `CellsBelong`: a cell of a published slot belongs to the chunk its sequence
  word names, or to the chunk being written over it.
* `ReaderPosition`: the reader is between the last chunk it returned and the
  published ones, and `dropped_chunks` is the difference.
* `CopyGoodOrLapped`: what has been copied is of the chunk or of its next
  lap, *or* the slot's sequence word has passed it and the recheck will fail.

The proof has one lemma per action. `StoreKeepsInv` carries the three stores
that leave the sequence words alone, `LoadedCell` says what a load can find,
and `WriteSlotSeqInv` is where a slot changes its chunk. The arithmetic of
`s % SlotCount` is confined to the first six lemmas (two chunks of one slot
are `SlotCount` apart or more). The refinement maps `published` to
`Published`, the chunks whose sequence word is stored, and `last` to
`last_consumed_seq`; `WriteSlotSeq` publishes, `ReadSeq1Return` delivers, and
every other step stutters. `ReturnedIsDeliverable` is its substance: the chunk
returned has not been overwritten, and it is the next one unless that was.

### AcquisitionStream (`StreamAssumption`)

| theorem | statement |
|---|---|
| `StreamInvHolds` | `StreamInv`, the inductive invariant |
| `LossIsBounded` | `LossBounded` |
| `LabelsAreTrue` | `LabelsTrue` |
| `RetuneReachesTheWindows` | `RetuneReachesWindows`, two action properties |

A read is a step that `LossyFifo` allows. `RingImplementsLossyFifo` is that the
ring makes no other, so what is proved here rests on the ring's stores and loads.

Loss: a chunk's place in the stream is its place in the ring and what the
producer has lost before it (`IndexTrue`), so a jump of `sample_index` is the
chunks overwritten and what the producer lost between the two. `ReaderInOrder`
ties both counters to the same chunk, and `LossCounted` sums: each pushed chunk
adds its jump, which is exact, and its drop count once more, except the first,
which has no jump. Labels: epochs index the readbacks given out (`CentresKnown`).
Once more chunks than the device holds have been taken since a tune, all that is
left is of the current frequency (`StockIsFresh`); until then the flag of the
tune is pending or on one of the chunks labelled since (`FlagIsRecent`), so a
stale chunk in hand is near a flag (`StaleInHand`). The flush comes in time
because the flag is pending as long as the centre is not the one last
labelled (`FlagMarksChange`): the first chunk written at a new centre has it,
and if that chunk is lost so is the continuity of sequence numbers.

### StreamAssembler (`AssemblerAssumption`)

| theorem | statement |
|---|---|
| `AccountsInvHolds` | `AccountsInv`, the inductive invariant |
| `AccountsAlwaysHold` | `AccountsHold`: conservation, newest kept, health exact without overflow |
| `InOrderHolds` | `InOrder` |

The producer and the consumer move samples between the packet in flight, the
queue, the leftover, the parts and the window; in every step between two
accesses the sum of these and the counters is the length of the stream
(`Conserved`). The sum changes hands only if nothing else can hold the same
samples, which is `HeldByOne`. Order needs the whole line of holders at once
(`LineInOrder`), and exact health needs that what is held is an unbroken end of
the stream until something is evicted or flushed (`NothingMissing`). The
lemmas about the module's sums and pieces (what the sum of an appended, popped
or split sequence is, what a window and its leftover take of the parts) come
first. The sums are recursive
functions; the facts about them are proved from a least counterexample
(`WFMin` on the natural numbers), which takes the place of induction.

### ProcessSource (`SupervisionAssumption`)

| theorem | statement |
|---|---|
| `SupervisionInvHolds` | `SupervisionInv`, the inductive invariant |
| `SourceEndsCleanly` | `EndsCleanly`: no orphan, no unmapped ring read, readback the device's |
| `TheEndIsTold` | `EndIsTold`: a loss is unexpected, an end is never silent |

The parts tie the four consumer threads to the producer's life:
`ProcessHandled` (the producer is gone before its ring), `ReaderHandled` (when
`close()` cleans up, the reader is over or in a fetch it will leave),
`MergedFirst` (nothing is asked before the settings are merged), `OneRequest`
(the pipe holds at most the request of the thread with the lock, so an answer
is for whoever waits, until a read has failed), `StopIsAsked` and
`EndHasACause` (a stream that ends was stopped or lost its producer).

### RingSweep

| theorem | statement |
|---|---|
| `SweepInvHolds` | `SweepInv`, the inductive invariant |
| `SweepTakesTheStale` | `SweepsTheStaleOnly` |

The proofs are the last part of `ShmRingProofs`, which extends both modules, as
both are of the same file (that is why the definitions of a specification have
a prefix in `RingSweep`). The theorem holds for any
set of sources, also an infinite one. `RingIsBuilt` is the
order in which a ring comes into being, `SweepIsSound` that what was stale when
the directory was listed stays stale and ahead of the sweep, and
`UnlinkNeedsOverlap` that a ring in use is on some sweep's list only if its
producer's pid was recorded then, or else it counts as disturbed.

### UhdDevice and Receivers (`UhdAssumption`, `ReceiversAssumption`)

| theorem | statement |
|---|---|
| `ReceiversInvHolds` | `UhdInv` and `DirectInv`, the inductive invariant |
| `FewChunksAreStale` | `RetuneCleansUp` |
| `HandleHasOwner` | `HandleIsTheSources` |
| `NothingIsDiscarded` | `ChunksTrue`: chunks in order and complete, gaps exact |

`UhdInv`: packet, chunk and leftover are a division of what was received
(`PartsInPlace`, `NothingDropped`, `TakenInOrder`), samples of an old centre
are a prefix no longer than the leftover was (`OldInFront`), and as long as the
end of the last packet is remembered it and the samples lost since add up to
the device's clock (`EndIsKnown`, `LossInBounds`, `GapsExact`). `DirectInv`:
whoever has the radio open (`TrialsInOrder`, `HandleOwned`), to whom the RX
thread belongs (`ThreadHasSource`), how far a tune has got (`TuneOrder`), and
`FewAreWrong`, the counting argument: what was handed over with a wrong
frequency since the tune, and what of that kind is still on its way, is
together at most the buffers in flight and the one in hand. The lemmas about
`HitCount` say how the count changes when a sequence is appended to or popped.

### SessionRecorder (`RecorderAssumption`)

| theorem | statement |
|---|---|
| `RecorderInvHolds` | `RecorderInv`, the inductive invariant of the files |
| `ListedFilesAreWhole` | `ListedFilesVerify` |
| `EvidencePrecedesRecords` | `EvidenceIsListed` |
| `FinalisedIsFinal` | `FinalIsFinal`, an action property |
| `CompletedIsRecorded` | `DoneIsRecorded`, and `TypeOK` with the bound on the backlog |

The parts of `RecorderInv`:

* `QueueInOrder`: windows reach the writer in order, each once. From it follows
  that there are never more files than windows taken.
* `FilesWhole`: the files listed in memory are whole, and the one being written
  is not among them, although a failed write leaves its number to be reused.
* `DiskBehindMeta`: session.json lists a prefix of what is listed in memory (a
  failed flush leaves it behind).
* `KeptIsListed`: when the writer comes to append the record of a window that
  is kept, session.json lists its file. This is what `EvidenceIsListed` needs:
  a flush that fails skips the record.
* `QueuedIsAhead`: a future that is not completed is the writer's task or in
  its queue, so that nothing is left once shutdown has waited for both.

`CompletedIsRecorded` adds two parts about the futures. `FuturesHeld`: every
future not yet completed is in the list, and the main thread has no more of
them than the backlog allows. `RecordsKept` is a count: the windows whose
record was attempted and cannot be read back, plus one if the file ends in a
broken line, are no more than the futures that failed.

### Node (`NodeAssumption`)

| theorem | statement |
|---|---|
| `NodeInvHolds` | `NodeInv`, the inductive invariant |
| `EvidenceIsReadable` | `EvidenceReadable`: files in pairs, a fetch fails only in a race |
| `ReportsHaveEvidence` | `VerifiedHasEvidence` |
| `RetentionIsKept` | `RetentionKept`, two action properties |

A purge works from a list made before its first removal. `PurgeListed` says
that all the list has is older than the cutoff and that all older files still
there are on it, `FirstFileDone` which of a pair of files exists in between,
`StoredIsKept` that a window stored within the retention time survives its own
purge,
`FetchSeen` that a request that found its file will load it unless a purge
overtook it. `SetToSeqLists` says of the library's `SetToSeq` that it lists a
finite set and all of it.

### DatasetCorpus (`CorpusAssumption`, `MirrorAssumption`, `TimelineAssumption`)

| theorem | statement |
|---|---|
| `HeldOut` | `HeldOutStaysHeldOut` |
| `TrainFails` | `TrainFailsOnlyAfterCut` |
| `RowsAreTrue` | `RowsTrue`: files agree with rows, rows with originals, annotations with the log |

They hold for every finite mirror of the five datasets, every set of timelines,
and any number of runs, cuts and trainings. `MirrorAssumption` says what a file
system and a hash give: within a dataset two originals have different names
(`NameOf`: a path, or what the adapter reads of it) and different places in
their order, and two slices with one SHA-256 have one length.
`TimelineAssumption` says that an operator writes the log in the order in which
things happen; `_events_to_utc` relies on it to know when midnight has passed.

* `HeldInv`, for `HeldOut`: two rows of one uid with different groups make the
  uid a regrouped one (`GroupsKnown`), and what a training used was a row, in
  the split of its group (`UsedWereRows`). A group's place does not depend on
  what other groups there are, so one group has one split.
* `FilesInv`, for `TrainFails`: between the tensor and the sidecar the uid
  counts as hurt (`Begun`), half-written tensors and lines come from cuts
  (`CutTensors`, `CutLines`), and the files of a uid that is not hurt are those
  of its last row (`Written`).
* `SourceInv`, for `RowsAreTrue`: each row and each window still to be written
  was cut from a recording of originals that are on disk. From it
  `SameSamples` concludes that two rows of a uid are of the same samples, or the
  sweep came back to a frequency. One lemma per adapter (`ZenodoGenuine` to
  `AerixGenuine`) says that it lists such recordings only; below them are the
  lemmas on what `InOrder`, `TotalSteps` and the library's `FlattenSeq` return.
* `AnchorsTruly`: each line of a log that leaves out no whole day is anchored
  at the time it was written (two lines less than a day apart are on the day
  the code puts them on), so `AnnotatesTruly`: a window has the label in force.

### SikLink (`SikAssumption`, `BufferAssumption`)

| theorem | statement |
|---|---|
| `LinkInvHolds` | `LinkInv`, the inductive invariant |
| `MessagesAreReported` | `MessagesReportedOnce`: no byte reported twice, a whole message reported unless an earlier readable frame reaches into it or a start byte is inside |
| `ConfirmationsAreEarned` | `ConfirmedByJitterOnly`: a link is confirmed for cause, level 4 is a verified message of its sender |

They hold for every set of streams, every split into frames, every loss, error of
a centre estimate and threshold. `SikAssumption` says that a message's length is
one byte and that a frame carries at least one. `BufferAssumption` says that the
buffer holds what may be left of a message and the payload of one more frame; in
the code that is 279 and 252 bytes against `_MAX_BUFFER`, 4096. Without it the
cap could cut a message's start off.

A start byte inside a payload, or one whose message was cut off, can make the
parser misread what follows, so the invariant speaks of messages with no start
byte inside and into which no frame read at an earlier place reaches
(`Unmistaken`, and `Partial` while such a message is still incomplete). Bytes
that come later only add to the frames that can be read (`FrameOfPart`,
`FramesOfPart`), so a message that is clear in the end was clear before. Its parts:

* `LinkBytes`, `BurstsFit`: all bytes are of one stream, a frame's payload fits a
  packet, and frames of the other link carry none of the stream.
* `Reassembly`: the buffer is the end of what was heard (`EndsIn`) and has the
  start of each incomplete message (`NotLost`); each whole one is reported
  (`ReportedIn`); reports lie one behind the other (`Ordered`) and all before the
  buffer (`Behind`). `NotLost` is what the property lacks: a message whole only
  after the next frame is found because its start was not dropped with this one.
* `LinkEvidence`: a netid is confirmed by the window's frames, a window of the
  other link has heard nothing, and level 4 comes with a verified message.

`ParseFinds` says what the walk of `parse_mavlink_stream` finds, by a
counterexample nearest to the end of the data: its frames lie in order, each is
one that `FrameEnd` finds, and each place where a frame could start is in one or
was passed over. `PartialNotConsumed` and `StillThere` say that neither the
consumed prefix nor the cap reaches the start of an incomplete message,
`EndOfMessage` that a message is read to its own end and `PlainFound` that a whole
one is found.
`FeedKeeps`, `FeedReports` and `FeedOrders` put these together for one `Feed`.

### Offline (`OfflineAssumption`, `EvaluationAssumption`)

| theorem | statement |
|---|---|
| `ModelTrueHolds` | `ModelTrue` |
| `HopsTrueHolds` | `HopsTrue` |
| `VerdictsTrueHolds` | `VerdictsTrue`: folds are fair, verdicts are earned |

These proofs are the second half of `NodeProofs`, since the node runs the first
two computations. A behaviour is one step here, and the work is in what a fold,
a search or a count returns for an input of any size. The sets of cases are
constants; `OfflineAssumption` says that a schedule has two channels or more and
a seed among those tried, that bands have limits and that histories are finite;
`EvaluationAssumption` that rows and lists are finite, that a loader meets a file
once, and that the first two corpora of the benchmark are of different datasets
or the same: `load_rows` returns what the prepared index of one dataset id has,
and `--zenodo-dataset` may name the id of `--antsdr-dataset`.

* Folds over sequences are recursive functions on sets of numbers in the library.
  `FoldExists` gives that function (each bound on the set's elements has one, by a
  least counterexample), and `StepsOf` unrolls it: a fold over `n` elements is the
  last of `n + 1` values, each the step of the one before. A statement on a fold
  is then proved from its least exception.
* `ModelTrue`: the bundle cached is the content of some look before that had the
  cached key (`SoundCache`), and a step keeps that (`LoadKeepsSound`), whatever
  is written to the file in between; `LoadOfClean` is what a key used for one
  content gives.
* `HopsTrue`: the shuffle only swaps, so a hop map is a permutation (`HopMapIs`);
  a hop heard right has the phase of the start, `PhaseOf`, so all of them vote for
  one phase, and no more than the misheard can vote for another (`SeedFound`).
* `VerdictsTrue`: `NoLeak` reads the leak check of the benchmark, `TierAFair` and
  `TierDFair` add that the held-out sets are a partition. `TotalIsZero` (a sum of
  counts is zero only if each is) carries the budget; `DronerfFramesAre` and
  `DronedetectFramesAre` say what the loaders put in a frame's group. The probe
  needs that a maximum over finitely many classes exists and that rows of a class
  come from two datasets (`HighestExists`, `LabelMatchedIs`), and that a receiver
  in the test part of each of five folds has five recordings (`ProbeEarned`).

The proof corrected `FoldsAreFair`. It said that a corpus given twice leaves no
fold of tier D; the instance only gave it without RUB recordings. With them, and
with no drone signal in the corpus itself, tier D has folds, and they are fair.
The run now has these corpora as well.

That a step records the result of the case it was given is the lemma `CaseIsKept`;
the three theorems rest on it, and it says nothing of the code by itself.

### Only model-checked

* Liveness under fairness (`CatchesUp`, `ReadsEnd`, `NothingHangs`,
  `FinalisedEitherWay`, `LossEndsWindows`): it rests on ENABLED, which the
  prover does not treat. `ImplementsLossyFifo` is a safety specification.
* `BurstTrue`, `FramesTrue`, `BurstsTried`, `ScanTrue` and `SignalsTrue` of
  `Offline`, on enumerated inputs. The codes of the first two are correct by
  computation: the Golay code's distance, the table of the CRC and the
  interleaver are facts about given numbers, which a solver does not find and
  TLC evaluates. The others rest on nested folds whose every step sorts, merges
  or searches a list, with sums of angles and rounded shares among them; what
  each returns for every input is an induction of its own over the data.

## 5. What is not modelled, and the plan

Not modelled: what is computed from samples (transforms, demodulation,
correlation, features, fitted models, the analogue video detector, conversions
between sample formats), given by its result where a decision depends on it;
`session/report.py`, formatting and argument parsing; reopening, verifying and
replaying a session; reading foreign formats; timing scripts; the stand-ins for
hardware used by the tests, and the patch under `integration/` for another
program. `PROJECT.json` says for each component what of it is left out.

Hazards without a property: the cues of a batch behind the one that verifies the
window (no text says what becomes of them), a producer that hangs without exiting (the code has
no mechanism to state a property of), an exception in the reader thread, and a
reaped future that failed. The device time given to a leftover is left out (no
control depends on it). The unbounded retry of `read_next` is hidden by the bound on the stream
(section 3, Fairness).

Next: a refinement of the assembler to one bounded buffer that drops its oldest,
and of `UhdDevice` to the read with a gap that `AcquisitionStream` takes
for granted.
