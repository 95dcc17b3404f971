----------------------------- MODULE UhdDevice ------------------------------
(***************************************************************************)
(* One USRP behind the UHD bindings: recv_chunk cuts packets of the        *)
(* driver's size into chunks of the caller's size, keeps what is over for  *)
(* the next call, and turns the driver's overflow reports into exact gaps. *)
(* The control thread of the producer tunes the device while the           *)
(* acquisition thread is inside recv_chunk.                                *)
(*                                                                         *)
(* Time is counted in samples: a sample is known by its place on the       *)
(* device's clock and by the tune that was in force when it was taken.     *)
(***************************************************************************)
EXTENDS Integers, Sequences

CONSTANTS
    ChunkSamples,  \* n_samples of a call
    MaxPacket,     \* max_num_samps of the driver
    MaxClock,      \* bound: samples the device takes
    MaxTunes       \* bound: retunes

ASSUME UhdAssumption ==
    /\ {ChunkSamples, MaxPacket} \subseteq Nat \ {0}
    /\ MaxClock \in Nat /\ MaxTunes \in Nat

VARIABLES
    timed,     \* the driver gives its packets a time_spec
    clock,     \* the device: number of the next sample
    tunes,     \* the device: how often set_rx_freq took effect
    tuneStep,  \* tune: the step it is about to do
    upc,       \* recv_chunk: where it is
    pkt,       \* recv_chunk: the packet just received
    filled,    \* recv_chunk: out[:filled]
    gap, time, \* recv_chunk: gap_samples, chunk_device_time
    left,      \* self._leftover
    lastEnd,   \* self._last_end_time_s
    pending,   \* self._overflow_pending
    \* history, read by the properties only
    begun,     \* tunes at the start of the call, with the samples carried into it
    taken,     \* samples received and not yet returned
    lost,      \* samples lost: all, since the last packet, and whether a tune came since
    doubt,     \* samples lost around a tune or before the first packet
    reported   \* samples that the gaps of the chunks returned tell of

uhdCall == <<upc, pkt, filled, gap, time, begun, reported>>
uhdTrack == <<left, lastEnd, pending>>
uhdVars == <<timed, clock, tunes, tuneStep, uhdCall, uhdTrack, taken, lost, doubt>>

None == -1
NoPacket == <<>>

UhdTypeOK ==
    /\ timed \in BOOLEAN
    /\ clock \in 0..MaxClock /\ tunes \in 0..MaxTunes
    /\ tuneStep \in {"idle", "end", "overflow"}
    /\ upc \in {"idle", "recv", "got", "closed"}
    /\ Len(pkt) <= MaxPacket /\ Len(filled) <= ChunkSamples
    /\ gap \in Nat /\ time \in Nat \cup {None}
    /\ lastEnd \in Nat \cup {None} /\ pending \in BOOLEAN
    /\ {lost.total, lost.since, doubt, reported} \subseteq 0..MaxClock

(* __init__ opens, tunes and configures the device; a refused step raises   *)
(* before there is an object.                                              *)
UhdInit ==
    /\ timed \in BOOLEAN
    /\ clock = 0 /\ tunes = 0 /\ tuneStep = "idle"
    /\ upc = "idle" /\ pkt = NoPacket /\ filled = <<>> /\ gap = 0 /\ time = None
    /\ left = <<>> /\ lastEnd = None /\ pending = FALSE
    /\ begun = [tunes |-> 0, carried |-> 0] /\ taken = <<>>
    /\ lost = [total |-> 0, since |-> 0, anew |-> TRUE] /\ doubt = 0 /\ reported = 0

Samples(first, k, tune) == [i \in 1..k |-> [at |-> first + i - 1, tune |-> tune]]
SampleMin(a, b) == IF a < b THEN a ELSE b
Front(s, n) == SubSeq(s, 1, n)
After(s, n) == SubSeq(s, n + 1, Len(s))

(* Defective: the leftover of the last packet is lost. *)
BeginChunkForgets ==
    /\ upc = "idle"
    /\ filled' = <<>> /\ left' = <<>> /\ begun' = [tunes |-> tunes, carried |-> 0]
    /\ gap' = 0 /\ time' = None /\ upc' = "recv"
    /\ UNCHANGED <<timed, clock, tunes, tuneStep, pkt, reported, lastEnd, pending, taken, lost, doubt>>

(* The start of a call: the leftover comes first.                          *)
BeginChunk ==
    /\ upc = "idle"
    /\ LET take == SampleMin(Len(left), ChunkSamples)
       IN  /\ filled' = Front(left, take) /\ left' = After(left, take)
           /\ begun' = [tunes |-> tunes, carried |-> take]
    /\ gap' = 0 /\ time' = None /\ upc' = "recv"
    /\ UNCHANGED <<timed, clock, tunes, tuneStep, pkt, reported, lastEnd, pending, taken, lost, doubt>>

(* rx.recv() gives a packet.                                               *)
RecvPacket(k) ==
    /\ upc = "recv" /\ Len(filled) < ChunkSamples /\ clock + k <= MaxClock
    /\ pkt' = Samples(clock, k, tunes) /\ clock' = clock + k
    /\ taken' = taken \o pkt'
    /\ upc' = "got"
    /\ UNCHANGED <<timed, tunes, tuneStep, filled, gap, time, begun, reported, uhdTrack, lost, doubt>>

(* rx.recv() reports an overflow: the device took samples nobody read.     *)
RecvOverflow(k) ==
    /\ upc = "recv" /\ Len(filled) < ChunkSamples /\ clock + k <= MaxClock
    /\ clock' = clock + k /\ pending' = TRUE
    /\ lost' = [lost EXCEPT !.total = @ + k, !.since = @ + k]
    /\ UNCHANGED <<timed, tunes, tuneStep, uhdCall, left, lastEnd, taken, doubt>>

(* rx.recv() times out, or reports another error: the loop goes round.     *)
RecvNothing ==
    /\ upc = "recv" /\ Len(filled) < ChunkSamples
    /\ UNCHANGED uhdVars

(* A packet's time tells the gap in front of it, if an overflow is pending  *)
(* and the end of an earlier packet is known.                              *)
GapBefore == IF pending /\ lastEnd # None /\ pkt[1].at > lastEnd
             THEN pkt[1].at - lastEnd ELSE 0
GapSoFar == gap + GapBefore

FileAway ==
    /\ upc = "got"
    /\ IF timed
       THEN /\ gap' = GapSoFar /\ pending' = FALSE
            /\ time' = IF time = None THEN pkt[1].at ELSE time
            /\ lastEnd' = pkt[1].at + Len(pkt)
       ELSE UNCHANGED <<gap, pending, time, lastEnd>>
    /\ LET take == SampleMin(Len(pkt), ChunkSamples - Len(filled))
       IN  /\ filled' = filled \o Front(pkt, take)
           /\ left' = IF take < Len(pkt) THEN After(pkt, take) ELSE left
    /\ doubt' = IF lost.anew THEN doubt + lost.since ELSE doubt
    /\ lost' = [lost EXCEPT !.since = 0, !.anew = tuneStep # "idle"]
    /\ pkt' = NoPacket /\ upc' = "recv"
    /\ UNCHANGED <<timed, clock, tunes, tuneStep, begun, reported, taken>>

ReturnChunk ==
    /\ upc = "recv" /\ Len(filled) = ChunkSamples
    /\ reported' = reported + gap
    /\ taken' = After(taken, ChunkSamples)
    /\ upc' = "idle" /\ filled' = <<>> /\ gap' = 0 /\ time' = None
    /\ begun' = [tunes |-> 0, carried |-> 0]
    /\ UNCHANGED <<timed, clock, tunes, tuneStep, pkt, uhdTrack, lost, doubt>>

(* tune() on the control thread, step by step: the new frequency takes      *)
(* effect, then the continuity of the packet times is given up.            *)
Tuning(step, then) ==
    /\ tuneStep = step /\ tuneStep' = then
    /\ lost' = [lost EXCEPT !.anew = TRUE]
    /\ UNCHANGED <<timed, clock, uhdCall, left, taken, doubt>>

TuneSetsFreq ==
    /\ upc # "closed" /\ tunes < MaxTunes /\ tunes' = tunes + 1
    /\ Tuning("idle", "end") /\ UNCHANGED <<lastEnd, pending>>

TuneForgetsEnd ==
    /\ lastEnd' = None
    /\ Tuning("end", "overflow") /\ UNCHANGED <<tunes, pending>>

TuneForgetsOverflow ==
    /\ pending' = FALSE
    /\ Tuning("overflow", "idle") /\ UNCHANGED <<tunes, lastEnd>>

(* close(), once the acquisition loop has left recv_chunk.                 *)
UhdClose ==
    /\ upc = "idle" /\ tuneStep = "idle" /\ upc' = "closed"
    /\ UNCHANGED <<timed, clock, tunes, tuneStep, pkt, filled, gap, time, begun, reported,
                   uhdTrack, taken, lost, doubt>>

UhdNext ==
    \/ BeginChunk \/ FileAway \/ ReturnChunk \/ RecvNothing
    \/ \E k \in 1..MaxPacket : RecvPacket(k) \/ RecvOverflow(k)
    \/ TuneSetsFreq \/ TuneForgetsEnd \/ TuneForgetsOverflow \/ UhdClose

-----------------------------------------------------------------------------
(* Correctness.                                                            *)

SamplesTrue ==
    /\ taken = filled \o (IF upc = "got" THEN pkt ELSE left)
    /\ \A i \in 1..Len(taken) - 1 : taken[i].at < taken[i + 1].at
    /\ \A i \in 1..Len(filled) : filled[i].tune < begun.tunes => i <= begun.carried
    /\ begun.carried < MaxPacket
GapsExact ==
    timed => LET told  == reported + gap
                 known == lost.total - lost.since - doubt
             IN  known <= told /\ told <= known + doubt

(* recv_chunk: "no data is discarded at a packet boundary": what has been   *)
(* received and not returned is in the chunk being filled, the packet in   *)
(* hand and the leftover, in the order of the device's clock.  A chunk     *)
(* holds samples of an earlier tune than the one its call began under only *)
(* where the leftover was, and that is less than a packet.  With packet    *)
(* times, the gaps of the chunks returned and of the one being filled add  *)
(* up to the samples lost; only of those lost around a tune, or before the *)
(* first packet, they may tell or not.                                     *)
ChunksTrue ==
    /\ UhdTypeOK
    /\ SamplesTrue
    /\ GapsExact
=============================================================================
