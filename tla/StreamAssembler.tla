-------------------------- MODULE StreamAssembler --------------------------
(***************************************************************************)
(* StreamAssembler of sdr/stream.py: one producer thread pushes chunks     *)
(* into a bounded queue that evicts its oldest entry when full, and now    *)
(* and then flushes it (a retune); one consumer thread cuts the stream     *)
(* into windows of Want samples.  A step is a stretch of one thread        *)
(* between two accesses to what they share: the queue, the leftover, the   *)
(* counters and the stop flag.                                             *)
(*                                                                         *)
(* Samples are numbered along the stream as the radio delivered it, losses *)
(* included, so a window's pieces say exactly which samples it holds.      *)
(***************************************************************************)
EXTENDS Integers, Sequences

CONSTANTS
  Want,          \* n_samples of every read_window call
  QueueMax,      \* maxsize of the queue
  ChunkSizes,    \* sample counts of pushed chunks
  Gaps,          \* dropped_before values the producer reports
  ReportsDrops,  \* reports_drops of the constructor
  MaxPos,        \* bound: stream samples that are ever produced
  MaxRetunes     \* bound: flushes

Unknown == -1    \* dropped_before = None: a gap of unknown size

ASSUME AssemblerAssumption ==
  /\ Want \in Nat \ {0}
  /\ QueueMax \in Nat \ {0}
  /\ ChunkSizes \subseteq Nat \ {0}
  /\ Gaps \subseteq Nat \cup {Unknown}
  /\ ReportsDrops \in BOOLEAN
  /\ MaxPos \in Nat
  /\ MaxRetunes \in Nat

VARIABLES
  q,              \* shared: the bounded queue of chunks
  leftover,       \* shared: _leftover, a sequence of at most one chunk
  stopped,        \* shared: still_active() is false
  overflow_count, tail_discarded_samples, total_samples, \* the counters
  ppc,            \* producer: where it is in push or flush
  item,           \* producer: the chunk push is handing over
  pos,            \* producer: stream number of the next sample
  lo,             \* producer: centre frequency of the incoming samples
  cpc,            \* consumer: where it is in read_window
  parts,          \* consumer: parts, with the gap in front of each
  polled,         \* consumer: the call has been round its loop once
  win,            \* consumer: the last window read_window returned
  reported,       \* history: gap samples reported in or before a window
  flushed_gap,    \* history: gap samples in front of chunks flush discarded
  unsized,        \* history: samples lost in gaps of unknown size
  abandoned       \* history: samples and gaps in parts when None was returned

counters == <<overflow_count, tail_discarded_samples, total_samples>>
producer == <<ppc, item, pos, lo>>
consumer == <<cpc, parts, polled, win>>
history  == <<reported, flushed_gap, unsized, abandoned>>
vars == <<q, leftover, stopped, counters, producer, consumer, history>>

Gap == Nat \cup {Unknown}
(* lo is the frequency the samples were received at, centre the label.  *)
Chunk == [start : Nat, n : Nat, lo : Nat, centre : Nat, dropped : Gap]
NoChunk == [start |-> 0, n |-> 0, lo |-> 0, centre |-> 0, dropped |-> 0]
Window == [pieces : Seq(Chunk), centre : Nat, complete : BOOLEAN,
           dropped : Gap, gap_before : Nat]

TypeOK ==
  /\ q \in Seq(Chunk) /\ Len(q) <= QueueMax
  /\ leftover \in Seq(Chunk) /\ Len(leftover) <= 1
  /\ stopped \in BOOLEAN
  /\ overflow_count \in Nat /\ tail_discarded_samples \in Nat
  /\ total_samples \in Nat
  /\ ppc \in {"idle", "put", "evict", "reput", "drain"}
  /\ item \in Chunk
  /\ pos \in Nat
  /\ lo \in Nat
  /\ cpc \in {"idle", "fill", "check", "ended"}
  /\ parts \in Seq(Chunk)
  /\ polled \in BOOLEAN
  /\ win \in Window
  /\ reported \in Nat /\ flushed_gap \in Nat
  /\ unsized \in Nat /\ abandoned \in Nat

Init ==
  /\ q = <<>> /\ leftover = <<>> /\ stopped = FALSE
  /\ overflow_count = 0 /\ tail_discarded_samples = 0
  /\ total_samples = 0
  /\ ppc = "idle" /\ item = NoChunk /\ pos = 0 /\ lo = 0
  /\ cpc = "idle" /\ parts = <<>> /\ polled = FALSE
  /\ win = [pieces |-> <<>>, centre |-> 0, complete |-> FALSE,
            dropped |-> Unknown, gap_before |-> 0]
  /\ reported = 0 /\ flushed_gap = 0 /\ unsized = 0 /\ abandoned = 0

Sized(d) == IF d = Unknown THEN 0 ELSE d

(* The sum of a sequence of numbers, as a function of its length. *)
Total(w) ==
  LET upTo[i \in 0 .. Len(w)] == IF i = 0 THEN 0 ELSE w[i] + upTo[i - 1]
  IN  upTo[Len(w)]

Samples(s)   == Total([i \in DOMAIN s |-> s[i].n])
SizedGaps(s) == Total([i \in DOMAIN s |-> Sized(s[i].dropped)])
-----------------------------------------------------------------------------
(* The producer thread: push. *)

ConsumerUnchanged ==
  UNCHANGED <<consumer, total_samples, reported, abandoned>>

(* A gap the producer cannot size hides at least one sample. *)
HoleOf(d) == IF d = Unknown THEN 1 ELSE d

StartPush(n, d) ==
  /\ ppc = "idle" /\ ~stopped
  /\ pos + HoleOf(d) + n <= MaxPos
  /\ item' = [start |-> pos + HoleOf(d), n |-> n, lo |-> lo, centre |-> lo,
              dropped |-> d]
  /\ pos' = pos + HoleOf(d) + n
  /\ unsized' = unsized + HoleOf(d) - Sized(d)
  /\ ppc' = "put"
  /\ ConsumerUnchanged
  /\ UNCHANGED <<q, leftover, stopped, overflow_count, tail_discarded_samples,
                 lo, flushed_gap>>

Put ==
  /\ ppc = "put" /\ Len(q) < QueueMax
  /\ q' = Append(q, item)
  /\ ppc' = "idle"
  /\ ConsumerUnchanged
  /\ UNCHANGED <<leftover, stopped, overflow_count, tail_discarded_samples,
                 item, pos, lo, flushed_gap, unsized>>

PutFull ==
  /\ ppc = "put" /\ Len(q) = QueueMax
  /\ overflow_count' = overflow_count + 1
  /\ ppc' = "evict"
  /\ ConsumerUnchanged
  /\ UNCHANGED <<q, leftover, stopped, tail_discarded_samples,
                 item, pos, lo, flushed_gap, unsized>>

(* Defective: the evicted chunk's own samples are not part of the gap. *)
MergedGapForgetsEvicted(evicted, new) ==
  IF evicted.dropped = Unknown \/ new.dropped = Unknown THEN Unknown
  ELSE evicted.dropped + new.dropped

(* The gap in front of a chunk that takes the place of an evicted one. *)
MergedGap(evicted, new) ==
  IF evicted.dropped = Unknown \/ new.dropped = Unknown THEN Unknown
  ELSE evicted.dropped + evicted.n + new.dropped

(* The oldest chunk goes, unless the consumer emptied the queue meanwhile. *)
Evict ==
  /\ ppc = "evict"
  /\ IF q = <<>> THEN UNCHANGED <<q, item, unsized>>
     ELSE /\ item' = [item EXCEPT !.dropped = MergedGap(Head(q), item)]
          /\ q' = Tail(q)
          /\ unsized' = unsized + IF item'.dropped # Unknown THEN 0
                                 ELSE Head(q).n + SizedGaps(<<Head(q), item>>)
  /\ ppc' = "reput"
  /\ ConsumerUnchanged
  /\ UNCHANGED <<leftover, stopped, overflow_count, tail_discarded_samples,
                 pos, lo, flushed_gap>>

(* A queue that is full again makes push drop the new chunk. *)
Reput ==
  /\ ppc = "reput"
  /\ q' = IF Len(q) < QueueMax THEN Append(q, item) ELSE q
  /\ ppc' = "idle"
  /\ ConsumerUnchanged
  /\ UNCHANGED <<leftover, stopped, overflow_count, tail_discarded_samples,
                 item, pos, lo, flushed_gap, unsized>>
-----------------------------------------------------------------------------
(* The producer thread: flush, called before the first chunk at a new      *)
(* frequency is pushed.  It empties the leftover, then the queue chunk by  *)
(* chunk; the consumer runs in between.                                    *)

FlushLeftover ==
  /\ ppc = "idle" /\ ~stopped /\ lo < MaxRetunes
  /\ lo' = lo + 1
  /\ tail_discarded_samples' = tail_discarded_samples + Samples(leftover)
  /\ leftover' = <<>>
  /\ ppc' = "drain"
  /\ ConsumerUnchanged
  /\ UNCHANGED <<q, stopped, overflow_count, item, pos, flushed_gap, unsized>>

FlushChunk ==
  /\ ppc = "drain" /\ q # <<>>
  /\ tail_discarded_samples' = tail_discarded_samples + Head(q).n
  /\ flushed_gap' = flushed_gap + Sized(Head(q).dropped)
  /\ q' = Tail(q)
  /\ ConsumerUnchanged
  /\ UNCHANGED <<leftover, stopped, overflow_count, unsized, producer>>

FlushDone ==
  /\ ppc = "drain" /\ q = <<>>
  /\ ppc' = "idle"
  /\ ConsumerUnchanged
  /\ UNCHANGED <<q, leftover, stopped, overflow_count, tail_discarded_samples,
                 item, pos, lo, flushed_gap, unsized>>

(* mark_stopped, or the source's own still_active predicate turning false: *)
(* by the producer thread when it ends, or by another thread in close().   *)
Stop ==
  /\ ~stopped
  /\ stopped' = TRUE
  /\ UNCHANGED <<q, leftover, counters, producer, consumer, history>>
-----------------------------------------------------------------------------
(* The consumer thread: read_window. *)

ProducerUnchanged ==
  UNCHANGED <<producer, stopped, overflow_count, tail_discarded_samples,
              flushed_gap, unsized>>

Have == Samples(parts)

(* Defective: the leftover is used but not taken away. *)
BeginKeepsLeftover ==
  /\ cpc = "idle"
  /\ parts' = leftover
  /\ polled' = FALSE
  /\ cpc' = "fill"
  /\ ProducerUnchanged
  /\ UNCHANGED <<q, leftover, win, total_samples, reported,
                 abandoned>>

Begin ==
  /\ cpc = "idle"
  /\ parts' = leftover
  /\ leftover' = <<>>
  /\ polled' = FALSE
  /\ cpc' = "fill"
  /\ ProducerUnchanged
  /\ UNCHANGED <<q, win, total_samples, reported, abandoned>>

Pull ==
  /\ cpc = "fill" /\ Have < Want /\ q # <<>>
  /\ parts' = Append(parts, Head(q))
  /\ q' = Tail(q)
  /\ polled' = TRUE
  /\ ProducerUnchanged
  /\ UNCHANGED <<leftover, cpc, win, total_samples, reported,
                 abandoned>>

(* The queue stayed empty for the poll interval: queue.Empty is raised ... *)
PollEmpty ==
  /\ cpc = "fill" /\ Have < Want /\ q = <<>>
  /\ cpc' = "check"
  /\ ProducerUnchanged
  /\ UNCHANGED <<q, leftover, parts, polled, win, total_samples,
                 reported, abandoned>>

(* Defective: polling again without asking whether the stream has stopped. *)
StillActiveUnasked ==
  /\ cpc = "check"
  /\ polled' = TRUE
  /\ cpc' = "fill"
  /\ ProducerUnchanged
  /\ UNCHANGED <<q, leftover, parts, win, total_samples, reported,
                 abandoned>>

(* ... and then still_active() is asked.  When the stream has stopped the  *)
(* call returns None and the parts collected so far are gone.              *)
StillActive ==
  /\ cpc = "check" /\ ~stopped
  /\ polled' = TRUE
  /\ cpc' = "fill"
  /\ ProducerUnchanged
  /\ UNCHANGED <<q, leftover, parts, win, total_samples, reported,
                 abandoned>>

ReturnNone ==
  /\ cpc = "check" /\ stopped
  /\ abandoned' = abandoned + Have + SizedGaps(parts)
  /\ parts' = <<>>
  /\ cpc' = "ended"
  /\ ProducerUnchanged
  /\ UNCHANGED <<q, leftover, polled, win, total_samples, reported>>

(* The window keeps Want samples; what the last piece has beyond that is   *)
(* carried over, labelled with the frequency of the window's first piece.  *)
Over == Have - Want
LastPart == parts[Len(parts)]
Pieces ==
  IF Over > 0 THEN [parts EXCEPT ![Len(parts)].n = @ - Over] ELSE parts
Spill ==
  IF Over > 0
  THEN <<[LastPart EXCEPT !.start = @ + LastPart.n - Over, !.n = Over,
                          !.centre = parts[1].centre, !.dropped = 0]>>
  ELSE <<>>

(* The gap before the first piece lies between two windows, the others lie *)
(* inside this one.                                                        *)
GapsInside == IF parts = <<>> THEN <<>> ELSE Tail(parts)
GapBefore  == IF parts = <<>> THEN 0 ELSE Sized(parts[1].dropped)
KnownGap   == SizedGaps(GapsInside)
UnknownGap == \E i \in DOMAIN GapsInside : GapsInside[i].dropped = Unknown
Short      == Have < Want

Assembled ==
  [pieces     |-> Pieces,
   centre     |-> IF parts = <<>> THEN 0 ELSE parts[1].centre,
   gap_before |-> GapBefore,
   complete   |-> ~Short /\ (ReportsDrops => ~UnknownGap /\ KnownGap = 0),
   dropped    |-> IF ~ReportsDrops \/ UnknownGap THEN Unknown
                  ELSE KnownGap + (IF Short THEN Want - Have ELSE 0)]

(* Past the loop: the window is full, or the deadline has passed, which    *)
(* it cannot have before the loop body has run once.                       *)
Return ==
  /\ win' = Assembled
  /\ leftover' = Spill
  /\ total_samples' = total_samples + Samples(Pieces)
  /\ reported' = reported + GapBefore + KnownGap
  /\ parts' = <<>>
  /\ cpc' = "idle"
  /\ ProducerUnchanged
  /\ UNCHANGED <<q, polled, abandoned>>

ReturnFull    == cpc = "fill" /\ ~Short /\ Return
ReturnTimeout == cpc = "fill" /\ Short /\ polled /\ Return

Producer ==
  \/ \E n \in ChunkSizes, d \in Gaps : StartPush(n, d)
  \/ Put \/ PutFull \/ Evict \/ Reput
  \/ FlushLeftover \/ FlushChunk \/ FlushDone

Consumer ==
  Begin \/ Pull \/ PollEmpty \/ StillActive \/ ReturnNone \/ ReturnFull
        \/ ReturnTimeout

Next == Producer \/ Stop \/ Consumer

Spec == Init /\ [][Next]_vars

(* The consumer thread is scheduled, and its deadline is wall-clock time:  *)
(* a call that keeps polling is cut short eventually.  Nothing is assumed  *)
(* of the producer.                                                        *)
FairSpec == Spec /\ WF_vars(Consumer) /\ SF_vars(ReturnTimeout)
-----------------------------------------------------------------------------
(* Properties. *)

InFlight == IF ppc \in {"put", "evict", "reput"} THEN <<item>> ELSE <<>>
Held == parts \o leftover \o q \o InFlight

End(c) == c.start + c.n
HoleAfter(s, i) == s[i + 1].start - End(s[i])

(* Conservation of the stream across evictions, flushes, leftovers and     *)
(* timeouts: every sample the radio produced, lost ones included, is in    *)
(* exactly one place: handed out, reported as lost, discarded by a flush,  *)
(* given up when the stream ended, inside a gap of unknown size, or still  *)
(* on its way.                                                             *)
Conserved ==
  pos = total_samples + reported + tail_discarded_samples + flushed_gap
          + abandoned + unsized + Samples(Held) + SizedGaps(Held)

(* Windows carry the stream in order: no sample is handed out twice or     *)
(* after a later one, whatever the leftover, evictions and flushes do.     *)
InOrder ==
  LET stream == win.pieces \o Held
  IN  \A i \in 1 .. Len(stream) - 1 : HoleAfter(stream, i) >= 0

(* As long as push evicts nothing and flush discards nothing, a window's   *)
(* health is the truth: it is complete exactly if it holds Want            *)
(* consecutive samples, and a dropped count is the size of its holes plus  *)
(* what is missing at its end.                                             *)
HealthExactWithoutOverflow ==
  ReportsDrops /\ overflow_count = 0 /\ tail_discarded_samples = 0 =>
    LET later == IF win.pieces = <<>> THEN <<>> ELSE Tail(win.pieces)
        holes == Total([i \in DOMAIN later |-> HoleAfter(win.pieces, i)])
        size  == Samples(win.pieces)
    IN  /\ win.complete <=> (size = Want /\ holes = 0)
        /\ win.dropped # Unknown => win.dropped = holes + Want - size

(* After an eviction there is room for the chunk being pushed, so the      *)
(* newest chunk is never the one that is lost.                             *)
NewestKept == ppc = "reput" => Len(q) < QueueMax

(* The accounts of push, flush and read_window together: the stream's      *)
(* samples are conserved, the newest chunk is never the one that goes, and *)
(* without evictions the health of every window says what is missing.      *)
AccountsHold ==
  /\ TypeOK
  /\ Conserved
  /\ NewestKept
  /\ HealthExactWithoutOverflow

EveryCallReturns == cpc \in {"fill", "check"} ~> cpc \in {"idle", "ended"}
EndsAfterStop == stopped ~> cpc = "ended"

(* No call of read_window blocks its consumer: it returns a window or None *)
(* whatever the producer does, and once the stream has stopped the         *)
(* consumer's loop over windows comes to its end.                          *)
ReadsEnd == EveryCallReturns /\ EndsAfterStop

(* What the module's docstring says of evictions: a window is complete, or *)
(* its loss is reported; a hole is never inside a window called complete.  *)
CompleteIsContiguous ==
  win.complete =>
    \A i \in 1 .. Len(win.pieces) - 1 : HoleAfter(win.pieces, i) = 0

=============================================================================
