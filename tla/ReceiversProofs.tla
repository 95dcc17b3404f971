-------------------------- MODULE ReceiversProofs ---------------------------
(***************************************************************************)
(* Safety of the receivers that run in the process of their reader, for    *)
(* any number of buffers in flight and of retunes, and of the calls of a   *)
(* USRP, for any sizes of chunk and packet and any length of the stream.   *)
(***************************************************************************)
EXTENDS Receivers, TLAPS, SequenceTheorems, FiniteSetTheorems
-----------------------------------------------------------------------------
(* The USRP: its inductive invariant. *)

Sample == [at : Nat, tune : Nat]
InHand == IF upc = "got" THEN pkt ELSE left
Carries == upc \in {"recv", "got"}

UhdFlags == timed \in BOOLEAN /\ pending \in BOOLEAN

UhdShape ==
    /\ clock \in 0..MaxClock /\ tunes \in 0..MaxTunes
    /\ tuneStep \in {"idle", "end", "overflow"}
    /\ upc \in {"idle", "recv", "got", "closed"}
    /\ pkt \in Seq(Sample) /\ filled \in Seq(Sample)
    /\ left \in Seq(Sample) /\ taken \in Seq(Sample)
    /\ gap \in Nat /\ time \in Nat \cup {None}
    /\ lastEnd \in Nat \cup {None}
    /\ begun \in [tunes : Nat, carried : Nat]
    /\ lost \in [total : Nat, since : Nat, anew : BOOLEAN]
    /\ doubt \in Nat /\ reported \in Nat

(* Where samples can be: the packet only while it is in hand, a leftover    *)
(* only behind a chunk that is full, and always less than a packet.        *)
PartsInPlace ==
    /\ upc = "got" => Len(pkt) \in 1..MaxPacket /\ Len(filled) < ChunkSamples
    /\ upc # "got" => pkt = <<>>
    /\ Carries /\ Len(filled) < ChunkSamples => left = <<>>
    /\ ~Carries => filled = <<>>
    /\ Len(filled) <= ChunkSamples /\ Len(left) < MaxPacket
    /\ begun.carried < MaxPacket

NothingDropped == taken = filled \o InHand

TakenInOrder ==
    /\ \A i \in 1..Len(taken) : taken[i].at < clock
    /\ \A i \in 1..Len(taken) - 1 : taken[i].at < taken[i + 1].at

(* Old samples are at the front of the chunk, where the leftover was.      *)
OldInFront ==
    /\ Carries => begun.tunes <= tunes
    /\ \A i \in 1..Len(pkt) : begun.tunes <= pkt[i].tune
    /\ \A i \in 1..Len(filled) : filled[i].tune < begun.tunes => i <= begun.carried

(* What the device knows of its own clock: as long as the end of the last   *)
(* packet is remembered, it and the samples lost since give the present.   *)
EndIsKnown ==
    /\ upc = "got" => pkt[1].at + Len(pkt) = clock
    /\ timed /\ lastEnd # None =>
         lastEnd + lost.since = IF upc = "got" THEN pkt[1].at ELSE clock
    /\ timed /\ ~lost.anew => lastEnd # None /\ (lost.since > 0 => pending)
    /\ tuneStep # "idle" => lost.anew

LossInBounds ==
    /\ doubt + lost.since <= lost.total /\ lost.total <= clock
    /\ ~Carries => gap = 0
    /\ ~timed => gap = 0 /\ reported = 0

UhdInv ==
    /\ UhdFlags
    /\ UhdShape
    /\ PartsInPlace
    /\ NothingDropped
    /\ TakenInOrder
    /\ OldInFront
    /\ EndIsKnown
    /\ LossInBounds
    /\ GapsExact

-----------------------------------------------------------------------------
(* Cutting and joining sequences. *)

LEMMA Cut ==
  ASSUME NEW S, NEW s \in Seq(S), NEW n \in 0 .. Len(s)
  PROVE  /\ Front(s, n) \in Seq(S) /\ Len(Front(s, n)) = n
         /\ \A i \in 1 .. n : Front(s, n)[i] = s[i]
         /\ After(s, n) \in Seq(S) /\ Len(After(s, n)) = Len(s) - n
         /\ \A i \in 1 .. Len(s) - n : After(s, n)[i] = s[n + i]
         /\ Front(s, n) \o After(s, n) = s
<1>1. Len(s) \in Nat /\ \A i \in 1 .. Len(s) : s[i] \in S
  BY LenProperties, ElementOfSeq
<1>2. /\ Front(s, n) \in Seq(S) /\ Len(Front(s, n)) = n
      /\ \A i \in 1 .. n : Front(s, n)[i] = s[i]
  <2>1. \A i \in 1 .. n : s[i] \in S
    BY <1>1
  <2> QED  BY <1>1, <2>1, SubSeqProperties DEF Front
<1>3. /\ After(s, n) \in Seq(S) /\ Len(After(s, n)) = Len(s) - n
      /\ \A i \in 1 .. Len(s) - n : After(s, n)[i] = s[n + i]
  <2>1. \A i \in n + 1 .. Len(s) : s[i] \in S
    BY <1>1
  <2>2. /\ SubSeq(s, n + 1, Len(s)) \in Seq(S)
        /\ Len(SubSeq(s, n + 1, Len(s))) =
             IF n + 1 <= Len(s) THEN Len(s) - (n + 1) + 1 ELSE 0
        /\ \A i \in 1 .. Len(s) - (n + 1) + 1 :
             SubSeq(s, n + 1, Len(s))[i] = s[(n + 1) + i - 1]
    BY <1>1, <2>1, SubSeqProperties
  <2> QED  BY <1>1, <2>2 DEF After
<1>4. Front(s, n) \o After(s, n) = s
  <2>1. /\ 1 \in 1 .. Len(s) + 1 /\ n \in 1 - 1 .. Len(s)
        /\ Len(s) \in n .. Len(s)
    BY <1>1
  <2>2. SubSeq(s, 1, n) \o SubSeq(s, n + 1, Len(s)) = SubSeq(s, 1, Len(s))
    BY <2>1, ConcatAdjacentSubSeq
  <2> QED  BY <2>2, SubSeqFull DEF Front, After
<1> QED  BY <1>2, <1>3, <1>4

LEMMA CutOfConcat ==
  ASSUME NEW S, NEW s \in Seq(S), NEW t \in Seq(S)
  PROVE  After(s \o t, Len(s)) = t
<1> DEFINE n == Len(s)
           u == After(s \o t, n)
<1>1. n \in Nat /\ Len(t) \in Nat
  BY LenProperties
<1>2. /\ s \o t \in Seq(S) /\ Len(s \o t) = n + Len(t)
      /\ \A i \in 1 .. n + Len(t) : (s \o t)[i] = IF i <= n THEN s[i] ELSE t[i - n]
  BY ConcatProperties
<1>3. n \in 0 .. Len(s \o t)
  BY <1>1, <1>2
<1>4. /\ u \in Seq(S) /\ Len(u) = Len(s \o t) - n
      /\ \A i \in 1 .. Len(s \o t) - n : u[i] = (s \o t)[n + i]
  BY <1>2, <1>3, Cut
<1>5. Len(u) = Len(t)
  BY <1>1, <1>2, <1>4
<1>6. ASSUME NEW i \in 1 .. Len(u)
      PROVE  u[i] = t[i]
  <2>1. u[i] = (s \o t)[n + i]
    BY <1>4, <1>6
  <2>2. n + i \in 1 .. n + Len(t) /\ ~(n + i <= n) /\ (n + i) - n = i
    BY <1>1, <1>5, <1>6
  <2> QED  BY <1>2, <2>1, <2>2
<1> HIDE DEF u
<1>7. u = t
  BY <1>4, <1>5, <1>6, SeqEqual
<1> QED  BY <1>7 DEF u

LEMMA PacketSamples ==
  ASSUME NEW first \in Nat, NEW k \in Nat, NEW t \in Nat
  PROVE  /\ Samples(first, k, t) \in Seq(Sample)
         /\ Len(Samples(first, k, t)) = k
         /\ \A i \in 1 .. k : /\ Samples(first, k, t)[i].at = first + i - 1
                              /\ Samples(first, k, t)[i].tune = t
<1>1. \A i \in 1 .. k : [at |-> first + i - 1, tune |-> t] \in Sample
  BY DEF Sample
<1> QED  BY <1>1 DEF Samples

-----------------------------------------------------------------------------
(* The USRP: the parts of the invariant, one at a time. *)

USE DEF uhdCall, uhdTrack, uhdVars

LEMMA UhdSizes ==
  /\ ChunkSamples \in Nat /\ ChunkSamples > 0
  /\ MaxPacket \in Nat /\ MaxPacket > 0
  /\ MaxClock \in Nat /\ MaxTunes \in Nat
BY UhdAssumption

LEMMA UhdInitInv == UhdInit => UhdInv
<1> SUFFICES ASSUME UhdInit PROVE UhdInv
  OBVIOUS
<1> USE UhdSizes DEF UhdInit
<1>0. UhdFlags
  BY Zenon DEF UhdFlags
<1>1. UhdShape
  <2>1. <<>> \in Seq(Sample)
    BY EmptySeq
  <2>2. begun \in [tunes : Nat, carried : Nat]
    OBVIOUS
  <2>3. lost \in [total : Nat, since : Nat, anew : BOOLEAN]
    OBVIOUS
  <2> QED  BY <2>1, <2>2, <2>3 DEF UhdShape, NoPacket, None
<1>2. PartsInPlace /\ NothingDropped
  BY DEF PartsInPlace, NothingDropped, InHand, Carries, NoPacket
<1>3. TakenInOrder /\ OldInFront
  BY DEF TakenInOrder, OldInFront, Carries, NoPacket
<1>4. EndIsKnown /\ LossInBounds /\ GapsExact
  BY DEF EndIsKnown, LossInBounds, GapsExact, Carries, None
<1> QED  BY <1>0, <1>1, <1>2, <1>3, <1>4 DEF UhdInv

(* What a step of recv_chunk does to the samples, with the facts about its  *)
(* cuts that the parts of the invariant need.                              *)
LEMMA BeginCuts ==
  ASSUME UhdShape, PartsInPlace, BeginChunk
  PROVE  \E n \in 0 .. ChunkSamples :
           /\ n <= Len(left) /\ (n < ChunkSamples => n = Len(left))
           /\ filled' \in Seq(Sample) /\ Len(filled') = n
           /\ left' \in Seq(Sample) /\ Len(left') = Len(left) - n
           /\ filled' \o left' = left
           /\ begun' = [tunes |-> tunes, carried |-> n]
<1> DEFINE n == SampleMin(Len(left), ChunkSamples)
<1>1. Len(left) \in Nat
  BY LenProperties DEF UhdShape
<1>2. /\ n \in 0 .. ChunkSamples /\ n \in 0 .. Len(left)
      /\ n < ChunkSamples => n = Len(left)
  BY <1>1, UhdSizes DEF SampleMin
<1>3. /\ filled' = Front(left, n) /\ left' = After(left, n)
      /\ begun' = [tunes |-> tunes, carried |-> n]
  BY DEF BeginChunk
<1> HIDE DEF n
<1>4. /\ Front(left, n) \in Seq(Sample) /\ Len(Front(left, n)) = n
      /\ After(left, n) \in Seq(Sample) /\ Len(After(left, n)) = Len(left) - n
      /\ Front(left, n) \o After(left, n) = left
  <2>1. left \in Seq(Sample) /\ n \in 0 .. Len(left)
    BY <1>2 DEF UhdShape
  <2> QED  BY <2>1, Cut
<1> QED  BY <1>2, <1>3, <1>4

LEMMA FileAwayCuts ==
  ASSUME UhdShape, PartsInPlace, FileAway
  PROVE  \E n \in 1 .. Len(pkt), head \in Seq(Sample) :
           /\ Len(head) = n /\ \A i \in 1 .. n : head[i] = pkt[i]
           /\ filled' = filled \o head /\ filled' \in Seq(Sample)
           /\ Len(filled') = Len(filled) + n /\ Len(filled') <= ChunkSamples
           /\ Len(filled') < ChunkSamples => n = Len(pkt)
           /\ left' \in Seq(Sample) /\ Len(left') = Len(pkt) - n
           /\ head \o left' = pkt
<1> DEFINE n == SampleMin(Len(pkt), ChunkSamples - Len(filled))
<1>1. /\ Len(pkt) \in 1 .. MaxPacket /\ Len(filled) < ChunkSamples
      /\ Len(filled) \in Nat /\ left = <<>> /\ ChunkSamples \in Nat
  BY LenProperties, UhdSizes DEF UhdShape, PartsInPlace, FileAway, Carries
<1>2. /\ n \in 1 .. Len(pkt) /\ n \in 0 .. Len(pkt)
      /\ Len(filled) + n <= ChunkSamples
      /\ Len(filled) + n < ChunkSamples => n = Len(pkt)
  BY <1>1, UhdSizes DEF SampleMin
<1>3. /\ filled' = filled \o Front(pkt, n)
      /\ left' = IF n < Len(pkt) THEN After(pkt, n) ELSE left
  BY DEF FileAway
<1> HIDE DEF n
<1>4. /\ Front(pkt, n) \in Seq(Sample) /\ Len(Front(pkt, n)) = n
      /\ \A i \in 1 .. n : Front(pkt, n)[i] = pkt[i]
      /\ After(pkt, n) \in Seq(Sample) /\ Len(After(pkt, n)) = Len(pkt) - n
      /\ Front(pkt, n) \o After(pkt, n) = pkt
  <2>1. pkt \in Seq(Sample) /\ n \in 0 .. Len(pkt)
    BY <1>2 DEF UhdShape
  <2> QED  BY <2>1, Cut
<1>5. left' = After(pkt, n)
  <2>1. CASE n < Len(pkt)
    BY <1>3, <2>1
  <2>2. CASE ~(n < Len(pkt))
    <3>1. Len(After(pkt, n)) = 0
      <4> DEFINE total == Len(pkt)
                 over == Len(After(pkt, n))
      <4>1. total \in Nat /\ n \in 1 .. total /\ ~(n < total) /\ over = total - n
        BY <1>1, <1>2, <1>4, <2>2
      <4> HIDE DEF total, over
      <4>2. over = 0
        BY <4>1
      <4> QED  BY <4>2 DEF over
    <3>2. After(pkt, n) = <<>>
      BY <1>4, <3>1, EmptySeq
    <3> QED  BY <1>1, <1>3, <2>2, <3>2
  <2> QED  BY <2>1, <2>2
<1>6. filled' \in Seq(Sample) /\ Len(filled') = Len(filled) + n
  <2>1. filled \in Seq(Sample)
    BY DEF UhdShape
  <2>2. /\ filled \o Front(pkt, n) \in Seq(Sample)
        /\ Len(filled \o Front(pkt, n)) = Len(filled) + Len(Front(pkt, n))
    BY <1>4, <2>1, ConcatProperties
  <2> QED  BY <1>3, <1>4, <2>2
<1> DEFINE h == Front(pkt, n)
<1>7. /\ h \in Seq(Sample) /\ Len(h) = n /\ \A i \in 1 .. n : h[i] = pkt[i]
      /\ filled' = filled \o h /\ h \o left' = pkt
      /\ left' \in Seq(Sample) /\ Len(left') = Len(pkt) - n
  BY <1>3, <1>4, <1>5
<1> HIDE DEF h
<1> QED  BY <1>2, <1>6, <1>7

LEMMA UhdFlagsStep ==
  ASSUME UhdFlags, UhdNext
  PROVE  UhdFlags'
<1>1. CASE BeginChunk \/ ReturnChunk \/ RecvNothing \/ UhdClose
  BY Zenon, <1>1 DEF BeginChunk, ReturnChunk, RecvNothing, UhdClose, UhdFlags
<1>2. CASE FileAway
  BY Zenon, <1>2 DEF FileAway, UhdFlags
<1>3. ASSUME NEW k \in 1 .. MaxPacket, RecvPacket(k) \/ RecvOverflow(k)
      PROVE  UhdFlags'
  BY Zenon, <1>3 DEF RecvPacket, RecvOverflow, UhdFlags
<1>4. CASE TuneSetsFreq \/ TuneForgetsEnd \/ TuneForgetsOverflow
  BY Zenon, <1>4 DEF TuneSetsFreq, TuneForgetsEnd, TuneForgetsOverflow, Tuning, UhdFlags
<1> QED  BY <1>1, <1>2, <1>3, <1>4 DEF UhdNext

LEMMA UhdShapeStep ==
  ASSUME UhdShape, PartsInPlace, UhdNext
  PROVE  UhdShape'
<1> USE UhdSizes
<1>1. CASE BeginChunk
  <2>1. PICK n \in 0 .. ChunkSamples :
           /\ filled' \in Seq(Sample) /\ left' \in Seq(Sample)
           /\ begun' = [tunes |-> tunes, carried |-> n]
    BY <1>1, BeginCuts
  <2> QED  BY <1>1, <2>1 DEF BeginChunk, UhdShape
<1>2. CASE FileAway
  <2>1. filled' \in Seq(Sample) /\ left' \in Seq(Sample)
    BY <1>2, FileAwayCuts
  <2>2. pkt[1].at \in Nat /\ Len(pkt) \in Nat
    <3>1. Len(pkt) \in Nat /\ 1 \in 1 .. Len(pkt)
      BY <1>2 DEF FileAway, PartsInPlace
    <3>2. pkt \in Seq(Sample)
      BY DEF UhdShape
    <3>3. pkt[1] \in Sample
      BY <3>1, <3>2, ElementOfSeq
    <3> QED  BY <3>1, <3>3 DEF Sample
  <2>3. pkt' \in Seq(Sample) /\ upc' = "recv"
    BY <1>2, EmptySeq DEF FileAway, NoPacket
  <2>4. /\ gap' \in Nat
        /\ time' \in Nat \cup {None} /\ lastEnd' \in Nat \cup {None}
    <3>1. CASE timed
      <4>1. GapBefore \in Nat
        BY <2>2 DEF GapBefore, UhdShape, None
      <4>2. /\ gap' = gap + GapBefore
            /\ time' = IF time = None THEN pkt[1].at ELSE time
            /\ lastEnd' = pkt[1].at + Len(pkt)
        BY <1>2, <3>1 DEF FileAway, GapSoFar
      <4>3. gap \in Nat /\ time \in Nat \cup {None}
        BY DEF UhdShape
      <4> QED  BY <2>2, <4>1, <4>2, <4>3
    <3>2. CASE ~timed
      BY <1>2, <3>2 DEF FileAway, UhdShape
    <3> QED  BY <3>1, <3>2
  <2>5. /\ lost' \in [total : Nat, since : Nat, anew : BOOLEAN] /\ doubt' \in Nat
    <3>1. lost' = [lost EXCEPT !.since = 0, !.anew = (tuneStep # "idle")]
      BY <1>2 DEF FileAway
    <3>2. doubt' = IF lost.anew THEN doubt + lost.since ELSE doubt
      BY <1>2 DEF FileAway
    <3>3. lost \in [total : Nat, since : Nat, anew : BOOLEAN] /\ doubt \in Nat
      BY DEF UhdShape
    <3>4. lost' \in [total : Nat, since : Nat, anew : BOOLEAN]
      BY <3>1, <3>3
    <3>5. lost.since \in Nat
      BY <3>3
    <3> QED  BY <3>2, <3>3, <3>4, <3>5
  <2>6. UNCHANGED <<timed, clock, tunes, tuneStep, begun, reported, taken>>
    BY <1>2 DEF FileAway
  <2> QED  BY <2>1, <2>3, <2>4, <2>5, <2>6 DEF UhdShape
<1>3. CASE ReturnChunk
  <2>1. Len(filled) \in Nat /\ upc = "recv" /\ Len(filled) = ChunkSamples
    BY <1>3, LenProperties DEF ReturnChunk, UhdShape
  <2>2. taken' \in Seq(Sample)
    <3>1. taken' = After(taken, ChunkSamples)
      BY <1>3 DEF ReturnChunk
    <3>2. Len(taken) \in Nat /\ \A i \in 1 .. Len(taken) : taken[i] \in Sample
      BY LenProperties, ElementOfSeq DEF UhdShape
    <3>3. \A i \in ChunkSamples + 1 .. Len(taken) : taken[i] \in Sample
      BY <3>2
    <3> QED  BY <3>1, <3>2, <3>3, SubSeqProperties DEF After
  <2>3. filled' \in Seq(Sample)
    BY <1>3, EmptySeq DEF ReturnChunk
  <2> QED  BY <1>3, <2>2, <2>3 DEF ReturnChunk, UhdShape
<1>4. CASE RecvNothing \/ UhdClose
  BY <1>4 DEF RecvNothing, UhdClose, UhdShape
<1>5. ASSUME NEW k \in 1 .. MaxPacket, RecvPacket(k)
      PROVE  UhdShape'
  <2>1. pkt' \in Seq(Sample)
    <3>1. k \in Nat /\ clock \in Nat /\ tunes \in Nat
      BY DEF UhdShape
    <3>2. Samples(clock, k, tunes) \in Seq(Sample)
      BY <3>1, PacketSamples
    <3> QED  BY <1>5, <3>2 DEF RecvPacket
  <2>2. taken' \in Seq(Sample)
    BY <1>5, <2>1, ConcatProperties DEF RecvPacket, UhdShape
  <2> QED  BY <1>5, <2>1, <2>2 DEF RecvPacket, UhdShape
<1>6. ASSUME NEW k \in 1 .. MaxPacket, RecvOverflow(k)
      PROVE  UhdShape'
  <2>1. lost' \in [total : Nat, since : Nat, anew : BOOLEAN]
    <3>1. lost \in [total : Nat, since : Nat, anew : BOOLEAN]
      BY DEF UhdShape
    <3> DEFINE t == lost.total + k
               s == lost.since + k
    <3>2. t \in Nat /\ s \in Nat
      BY <3>1
    <3>3. lost' = [lost EXCEPT !.total = t, !.since = s]
      BY <1>6 DEF RecvOverflow
    <3> HIDE DEF t, s
    <3> QED  BY <3>1, <3>2, <3>3
  <2>2. clock' \in 0 .. MaxClock
    <3>1. clock \in 0 .. MaxClock /\ k \in Nat
      BY DEF UhdShape
    <3>2. clock' = clock + k /\ clock + k <= MaxClock
      BY <1>6 DEF RecvOverflow
    <3> QED  BY <3>1, <3>2
  <2>3. UNCHANGED <<tunes, tuneStep, uhdCall, left, lastEnd, taken, doubt>>
    BY <1>6 DEF RecvOverflow
  <2> QED  BY <2>1, <2>2, <2>3 DEF UhdShape
<1>7. CASE TuneSetsFreq \/ TuneForgetsEnd \/ TuneForgetsOverflow
  <2>1. lost' \in [total : Nat, since : Nat, anew : BOOLEAN]
    <3>1. lost \in [total : Nat, since : Nat, anew : BOOLEAN]
      BY DEF UhdShape
    <3>2. lost' = [lost EXCEPT !.anew = TRUE]
      BY <1>7 DEF TuneSetsFreq, TuneForgetsEnd, TuneForgetsOverflow, Tuning
    <3> QED  BY <3>1, <3>2
  <2>2. lastEnd' \in Nat \cup {None}
    BY <1>7 DEF TuneSetsFreq, TuneForgetsEnd, TuneForgetsOverflow, UhdShape
  <2>3. tunes' \in 0 .. MaxTunes /\ tuneStep' \in {"idle", "end", "overflow"}
    <3>1. tunes \in 0 .. MaxTunes
      BY DEF UhdShape
    <3>2. CASE TuneSetsFreq
      BY <3>1, <3>2 DEF TuneSetsFreq, Tuning
    <3>3. CASE TuneForgetsEnd \/ TuneForgetsOverflow
      BY <3>1, <3>3 DEF TuneForgetsEnd, TuneForgetsOverflow, Tuning
    <3> QED  BY <1>7, <3>2, <3>3
  <2>4. UNCHANGED <<clock, uhdCall, left, taken, doubt>>
    BY <1>7 DEF TuneSetsFreq, TuneForgetsEnd, TuneForgetsOverflow, Tuning
  <2> QED  BY <2>1, <2>2, <2>3, <2>4 DEF UhdShape
<1> QED  BY <1>1, <1>2, <1>3, <1>4, <1>5, <1>6, <1>7 DEF UhdNext

(* The steps of tune() touch no sample, and the others that touch none. *)
UhdIdles == RecvNothing \/ UhdClose \/ TuneSetsFreq \/ TuneForgetsEnd \/ TuneForgetsOverflow

LEMMA TouchNoSample ==
  ASSUME UhdIdles \/ \E k \in 1 .. MaxPacket : RecvOverflow(k)
  PROVE  /\ UNCHANGED <<pkt, filled, left, taken, begun, gap, reported, timed, doubt>>
         /\ \/ upc' = upc
            \/ upc = "idle" /\ upc' = "closed"
<1>1. CASE UhdIdles
  BY Zenon, <1>1 DEF UhdIdles, RecvNothing, UhdClose, TuneSetsFreq, TuneForgetsEnd,
                     TuneForgetsOverflow, Tuning
<1>2. CASE \E k \in 1 .. MaxPacket : RecvOverflow(k)
  BY Zenon, <1>2 DEF RecvOverflow
<1> QED  BY <1>1, <1>2

LEMMA UhdCases ==
  ASSUME UhdNext
  PROVE  \/ BeginChunk \/ FileAway \/ ReturnChunk
         \/ \E k \in 1 .. MaxPacket : RecvPacket(k)
         \/ UhdIdles \/ \E k \in 1 .. MaxPacket : RecvOverflow(k)
BY DEF UhdNext, UhdIdles

LEMMA PartsInPlaceStep ==
  ASSUME UhdShape, PartsInPlace, UhdNext
  PROVE  PartsInPlace'
<1> USE UhdSizes
<1>0. /\ pkt \in Seq(Sample) /\ filled \in Seq(Sample) /\ left \in Seq(Sample)
      /\ Len(pkt) \in Nat /\ Len(filled) \in Nat /\ Len(left) \in Nat
  BY LenProperties DEF UhdShape
<1>1. CASE BeginChunk
  <2>1. PICK n \in 0 .. ChunkSamples :
           /\ n <= Len(left) /\ (n < ChunkSamples => n = Len(left))
           /\ Len(filled') = n
           /\ left' \in Seq(Sample) /\ Len(left') = Len(left) - n
           /\ begun' = [tunes |-> tunes, carried |-> n]
    BY <1>1, BeginCuts
  <2>2. n < ChunkSamples => left' = <<>>
    <3>1. n < ChunkSamples => Len(left') = 0
      BY <1>0, <2>1
    <3> QED  BY <2>1, <3>1, EmptySeq
  <2>3. begun'.carried = n /\ n < MaxPacket /\ Len(left') < MaxPacket
    BY <1>0, <2>1 DEF PartsInPlace
  <2>4. upc' = "recv" /\ pkt' = <<>>
    BY <1>1 DEF BeginChunk, PartsInPlace
  <2> QED  BY <2>1, <2>2, <2>3, <2>4 DEF PartsInPlace, Carries
<1>2. CASE FileAway
  <2>1. PICK n \in 1 .. Len(pkt) :
           /\ filled' \in Seq(Sample)
           /\ Len(filled') = Len(filled) + n /\ Len(filled') <= ChunkSamples
           /\ Len(filled') < ChunkSamples => n = Len(pkt)
           /\ left' \in Seq(Sample) /\ Len(left') = Len(pkt) - n
    BY <1>2, FileAwayCuts
  <2>2. Len(pkt) \in 1 .. MaxPacket
    BY <1>2 DEF FileAway, PartsInPlace
  <2>3. Len(filled') < ChunkSamples => left' = <<>>
    <3>1. Len(filled') < ChunkSamples => Len(left') = 0
      BY <1>0, <2>1
    <3> QED  BY <2>1, <3>1, EmptySeq
  <2>4. Len(left') < MaxPacket
    BY <2>1, <2>2
  <2>5. upc' = "recv" /\ pkt' = <<>> /\ begun' = begun
    BY <1>2 DEF FileAway, NoPacket
  <2> QED  BY <2>1, <2>3, <2>4, <2>5 DEF PartsInPlace, Carries
<1>3. CASE ReturnChunk
  BY <1>3 DEF ReturnChunk, PartsInPlace, Carries
<1>4. ASSUME NEW k \in 1 .. MaxPacket, RecvPacket(k)
      PROVE  PartsInPlace'
  <2>1. k \in Nat /\ clock \in Nat /\ tunes \in Nat
    BY DEF UhdShape
  <2>2. Len(pkt') = k
    BY <1>4, <2>1, PacketSamples DEF RecvPacket
  <2> QED  BY <1>4, <2>2 DEF RecvPacket, PartsInPlace, Carries
<1>5. CASE UhdIdles \/ \E k \in 1 .. MaxPacket : RecvOverflow(k)
  BY <1>5, TouchNoSample DEF PartsInPlace, Carries
<1> QED  BY <1>1, <1>2, <1>3, <1>4, <1>5, UhdCases

LEMMA NothingDroppedStep ==
  ASSUME UhdShape, PartsInPlace, NothingDropped, UhdNext
  PROVE  NothingDropped'
<1> USE UhdSizes
<1>0. /\ pkt \in Seq(Sample) /\ filled \in Seq(Sample) /\ left \in Seq(Sample)
      /\ Len(filled) \in Nat
  BY LenProperties DEF UhdShape
<1>1. CASE BeginChunk
  <2>1. filled' \o left' = left
    BY <1>1, BeginCuts
  <2>2. filled = <<>> /\ upc = "idle" /\ upc' = "recv" /\ taken' = taken
    BY <1>1 DEF BeginChunk, PartsInPlace, Carries
  <2>3. taken = left
    BY <1>0, <2>2, ConcatEmptySeq DEF NothingDropped, InHand
  <2> QED  BY <2>1, <2>2, <2>3 DEF NothingDropped, InHand
<1>2. CASE FileAway
  <2>1. PICK head \in Seq(Sample) :
           filled' = filled \o head /\ left' \in Seq(Sample) /\ head \o left' = pkt
    BY <1>2, FileAwayCuts
  <2>2. upc = "got" /\ upc' = "recv" /\ taken' = taken
    BY <1>2 DEF FileAway
  <2>3. taken = filled \o (head \o left')
    BY <2>1, <2>2 DEF NothingDropped, InHand
  <2>4. (filled \o head) \o left' = filled \o (head \o left')
    <3> DEFINE rest == left'
    <3>1. rest \in Seq(Sample)
      BY <2>1
    <3> HIDE DEF rest
    <3>2. filled \in Seq(Sample) /\ head \in Seq(Sample)
      BY <1>0, <2>1
    <3>3. (filled \o head) \o rest = filled \o (head \o rest)
      BY <3>1, <3>2
    <3> QED  BY <3>3 DEF rest
  <2> QED  BY <2>1, <2>2, <2>3, <2>4 DEF NothingDropped, InHand
<1>3. CASE ReturnChunk
  <2>1. /\ Len(filled) = ChunkSamples /\ upc = "recv" /\ upc' = "idle"
        /\ taken' = After(taken, ChunkSamples) /\ filled' = <<>> /\ left' = left
    BY <1>3 DEF ReturnChunk
  <2>2. taken = filled \o left
    BY <2>1 DEF NothingDropped, InHand
  <2>3. After(filled \o left, Len(filled)) = left
    BY <1>0, CutOfConcat
  <2>4. <<>> \o left = left
    BY <1>0, ConcatEmptySeq
  <2> QED  BY <2>1, <2>2, <2>3, <2>4 DEF NothingDropped, InHand
<1>4. ASSUME NEW k \in 1 .. MaxPacket, RecvPacket(k)
      PROVE  NothingDropped'
  <2>1. /\ upc = "recv" /\ Len(filled) < ChunkSamples /\ upc' = "got"
        /\ taken' = taken \o pkt' /\ filled' = filled
    BY <1>4 DEF RecvPacket
  <2>2. left = <<>>
    BY <2>1 DEF PartsInPlace, Carries
  <2>3. taken = filled
    BY <1>0, <2>1, <2>2, ConcatEmptySeq DEF NothingDropped, InHand
  <2> QED  BY <2>1, <2>3 DEF NothingDropped, InHand
<1>5. CASE UhdIdles \/ \E k \in 1 .. MaxPacket : RecvOverflow(k)
  <2>1. UNCHANGED <<pkt, filled, left, taken>> /\ (upc' = "got" <=> upc = "got")
    BY <1>5, TouchNoSample
  <2> QED  BY <2>1 DEF NothingDropped, InHand
<1> QED  BY <1>1, <1>2, <1>3, <1>4, <1>5, UhdCases

(* The samples of recv_chunk are numbered by the device's clock. *)
LEMMA TakenInOrderStep ==
  ASSUME UhdShape, PartsInPlace, NothingDropped, TakenInOrder, UhdNext
  PROVE  TakenInOrder'
<1> USE UhdSizes
<1>0. /\ taken \in Seq(Sample) /\ Len(taken) \in Nat /\ clock \in Nat
      /\ \A i \in 1 .. Len(taken) : taken[i].at \in Nat
  <2>1. taken \in Seq(Sample) /\ clock \in Nat
    BY DEF UhdShape
  <2>2. Len(taken) \in Nat /\ \A i \in 1 .. Len(taken) : taken[i] \in Sample
    BY <2>1, LenProperties, ElementOfSeq
  <2> QED  BY <2>1, <2>2 DEF Sample
<1>1. CASE BeginChunk \/ FileAway
  BY <1>1 DEF BeginChunk, FileAway, TakenInOrder
<1>2. CASE ReturnChunk
  <2>1. /\ upc = "recv" /\ Len(filled) = ChunkSamples
        /\ taken' = After(taken, ChunkSamples) /\ clock' = clock
    BY <1>2 DEF ReturnChunk
  <2>2. ChunkSamples \in 0 .. Len(taken)
    <3>1. filled \in Seq(Sample) /\ left \in Seq(Sample) /\ taken = filled \o left
      BY <2>1 DEF UhdShape, NothingDropped, InHand
    <3>2. Len(taken) = Len(filled) + Len(left) /\ Len(left) \in Nat
      BY <3>1, ConcatProperties, LenProperties
    <3> QED  BY <2>1, <3>2
  <2>3. /\ Len(taken') = Len(taken) - ChunkSamples
        /\ \A i \in 1 .. Len(taken) - ChunkSamples : taken'[i] = taken[ChunkSamples + i]
    BY <1>0, <2>1, <2>2, Cut
  <2>4. ASSUME NEW i \in 1 .. Len(taken')
        PROVE  taken'[i].at < clock
    <3>1. ChunkSamples + i \in 1 .. Len(taken) /\ i \in 1 .. Len(taken) - ChunkSamples
      BY <1>0, <2>2, <2>3, <2>4
    <3> QED  BY <2>3, <3>1 DEF TakenInOrder
  <2>5. ASSUME NEW i \in 1 .. Len(taken') - 1
        PROVE  taken'[i].at < taken'[i + 1].at
    <3> DEFINE j == ChunkSamples + i
    <3>1. /\ j \in 1 .. Len(taken) - 1 /\ ChunkSamples + (i + 1) = j + 1
          /\ i \in 1 .. Len(taken) - ChunkSamples
          /\ i + 1 \in 1 .. Len(taken) - ChunkSamples
      BY <1>0, <2>2, <2>3, <2>5
    <3>2. taken'[i] = taken[j] /\ taken'[i + 1] = taken[j + 1]
      BY <2>3, <3>1
    <3> HIDE DEF j
    <3> QED  BY <3>1, <3>2 DEF TakenInOrder
  <2> QED  BY <2>1, <2>4, <2>5 DEF TakenInOrder
<1>3. ASSUME NEW k \in 1 .. MaxPacket, RecvPacket(k)
      PROVE  TakenInOrder'
  <2>1. k \in Nat /\ clock \in Nat /\ tunes \in Nat
    BY DEF UhdShape
  <2>2. /\ pkt' = Samples(clock, k, tunes) /\ clock' = clock + k
        /\ taken' = taken \o pkt'
    BY <1>3 DEF RecvPacket
  <2>3. /\ pkt' \in Seq(Sample) /\ Len(pkt') = k
        /\ \A i \in 1 .. k : pkt'[i].at = clock + i - 1
    <3> DEFINE p == Samples(clock, k, tunes)
    <3>1. /\ p \in Seq(Sample) /\ Len(p) = k
          /\ \A i \in 1 .. k : p[i].at = clock + i - 1
      BY <2>1, PacketSamples
    <3>2. pkt' = p
      BY <2>2
    <3> HIDE DEF p
    <3> QED  BY <3>1, <3>2
  <2> DEFINE n == Len(taken)
             new == taken'
  <2>4. /\ Len(new) = n + k
        /\ \A i \in 1 .. n + k : new[i] = IF i <= n THEN taken[i] ELSE pkt'[i - n]
    <3> DEFINE p == pkt'
    <3>1. p \in Seq(Sample) /\ Len(p) = k /\ new = taken \o p
      BY <2>2, <2>3
    <3> HIDE DEF p
    <3>2. /\ Len(taken \o p) = Len(taken) + Len(p)
          /\ \A i \in 1 .. Len(taken) + Len(p) : (taken \o p)[i] =
               IF i <= Len(taken) THEN taken[i] ELSE p[i - Len(taken)]
      BY <1>0, <3>1, ConcatProperties
    <3> HIDE DEF new
    <3>3. /\ Len(new) = n + k
          /\ \A i \in 1 .. n + k : new[i] = IF i <= n THEN taken[i] ELSE p[i - n]
      BY <3>1, <3>2
    <3> QED  BY <3>3 DEF p
  <2>5. ASSUME NEW i \in 1 .. n + k
        PROVE  new[i].at = IF i <= n THEN taken[i].at ELSE clock + (i - n) - 1
    <3>1. CASE i <= n
      BY <2>4, <3>1
    <3>2. CASE ~(i <= n)
      <4>1. i - n \in 1 .. k
        BY <1>0, <2>1, <2>5, <3>2
      <4>2. new[i] = pkt'[i - n]
        BY <2>4, <2>5, <3>2
      <4> QED  BY <2>3, <3>2, <4>1, <4>2
    <3> QED  BY <3>1, <3>2
  <2>6. n \in Nat /\ \A i \in 1 .. n : taken[i].at \in Nat /\ taken[i].at < clock
    BY <1>0 DEF TakenInOrder
  <2>7. \A i \in 1 .. n - 1 : taken[i].at < taken[i + 1].at
    BY DEF TakenInOrder
  <2> HIDE DEF n, new
  <2>8. ASSUME NEW i \in 1 .. n + k
        PROVE  new[i].at < clock + k
    BY <2>1, <2>5, <2>6, <2>8
  <2>9. ASSUME NEW i \in 1 .. (n + k) - 1
        PROVE  new[i].at < new[i + 1].at
    <3>1. i \in 1 .. n + k /\ i + 1 \in 1 .. n + k
      BY <2>1, <2>6, <2>9
    <3>2. /\ new[i].at = IF i <= n THEN taken[i].at ELSE clock + (i - n) - 1
          /\ new[i + 1].at = IF i + 1 <= n THEN taken[i + 1].at ELSE clock + ((i + 1) - n) - 1
      BY <2>5, <3>1
    <3>3. CASE i + 1 <= n
      <4>1. i \in 1 .. n - 1 /\ i <= n
        BY <2>6, <2>9, <3>3
      <4> QED  BY <2>7, <3>2, <3>3, <4>1
    <3>4. CASE i = n
      <4>1. i \in 1 .. n
        BY <2>6, <2>9, <3>4
      <4>2. taken[i].at < clock /\ taken[i].at \in Nat
        BY <2>6, <4>1
      <4> QED  BY <2>1, <2>6, <3>2, <3>4, <4>2
    <3>5. CASE i > n
      BY <2>1, <2>6, <2>9, <3>2, <3>5
    <3> QED  BY <2>6, <2>9, <3>3, <3>4, <3>5
  <2>10. Len(new) = n + k
    BY <2>4
  <2> QED  BY <2>2, <2>8, <2>9, <2>10 DEF TakenInOrder, new
<1>4. CASE UhdIdles \/ \E k \in 1 .. MaxPacket : RecvOverflow(k)
  <2>1. taken' = taken
    BY <1>4, TouchNoSample
  <2>2. clock' \in Nat /\ clock' >= clock
    <3>1. CASE UhdIdles
      BY <1>0, <3>1 DEF UhdIdles, RecvNothing, UhdClose, TuneSetsFreq, TuneForgetsEnd,
                        TuneForgetsOverflow, Tuning
    <3>2. CASE \E k \in 1 .. MaxPacket : RecvOverflow(k)
      BY <1>0, <3>2 DEF RecvOverflow
    <3> QED  BY <1>4, <3>1, <3>2
  <2> QED  BY <1>0, <2>1, <2>2 DEF TakenInOrder
<1> QED  BY <1>1, <1>2, <1>3, <1>4, UhdCases

LEMMA OldInFrontStep ==
  ASSUME UhdShape, PartsInPlace, OldInFront, UhdNext
  PROVE  OldInFront'
<1> USE UhdSizes
<1>0. /\ pkt \in Seq(Sample) /\ filled \in Seq(Sample) /\ left \in Seq(Sample)
      /\ Len(filled) \in Nat /\ Len(pkt) \in Nat
      /\ begun.tunes \in Nat /\ begun.carried \in Nat /\ tunes \in Nat
  BY LenProperties DEF UhdShape
<1>1. CASE BeginChunk
  <2>1. PICK n \in 0 .. ChunkSamples :
           Len(filled') = n /\ begun' = [tunes |-> tunes, carried |-> n]
    BY <1>1, BeginCuts
  <2>2. upc = "idle" /\ pkt' = pkt /\ tunes' = tunes
    BY <1>1 DEF BeginChunk
  <2>3. pkt' = <<>>
    BY <2>2 DEF PartsInPlace
  <2> QED  BY <1>0, <2>1, <2>2, <2>3 DEF OldInFront
<1>2. CASE FileAway
  <2>1. PICK n \in 1 .. Len(pkt), head \in Seq(Sample) :
           /\ Len(head) = n /\ \A i \in 1 .. n : head[i] = pkt[i]
           /\ filled' = filled \o head
           /\ Len(filled') = Len(filled) + n
    BY <1>2, FileAwayCuts
  <2>2. upc = "got" /\ pkt' = <<>> /\ begun' = begun /\ tunes' = tunes
    BY <1>2 DEF FileAway, NoPacket
  <2>3. \A i \in 1 .. Len(filled) + n :
          (filled \o head)[i] = IF i <= Len(filled) THEN filled[i] ELSE head[i - Len(filled)]
    BY <1>0, <2>1, ConcatProperties
  <2>4. ASSUME NEW i \in 1 .. Len(filled'), filled'[i].tune < begun.tunes
        PROVE  i <= begun.carried
    <3>1. CASE i <= Len(filled)
      BY <1>0, <2>1, <2>3, <2>4, <3>1 DEF OldInFront
    <3>2. CASE ~(i <= Len(filled))
      <4> DEFINE j == i - Len(filled)
      <4>1. j \in 1 .. n
        BY <1>0, <2>1, <2>4, <3>2
      <4>2. filled'[i] = head[j]
        BY <2>1, <2>3, <2>4, <3>2
      <4>3. filled'[i] = pkt[j] /\ j \in 1 .. Len(pkt)
        BY <1>0, <2>1, <4>1, <4>2
      <4> HIDE DEF j
      <4>4. begun.tunes <= pkt[j].tune
        BY <4>3 DEF OldInFront
      <4>5. pkt[j].tune \in Nat
        <5>1. pkt[j] \in Sample
          BY <1>0, <4>3, ElementOfSeq
        <5> QED  BY <5>1 DEF Sample
      <4> QED  BY <1>0, <2>4, <4>3, <4>4, <4>5
    <3> QED  BY <3>1, <3>2
  <2> QED  BY <1>0, <2>2, <2>4 DEF OldInFront, Carries
<1>3. CASE ReturnChunk
  <2>1. filled' = <<>> /\ pkt' = pkt /\ pkt = <<>> /\ upc' = "idle"
    BY <1>3 DEF ReturnChunk, PartsInPlace
  <2> QED  BY <2>1 DEF OldInFront, Carries
<1>4. ASSUME NEW k \in 1 .. MaxPacket, RecvPacket(k)
      PROVE  OldInFront'
  <2>1. k \in Nat /\ clock \in Nat /\ begun.tunes <= tunes
    BY <1>4 DEF UhdShape, OldInFront, Carries, RecvPacket
  <2>2. /\ pkt' = Samples(clock, k, tunes) /\ tunes' = tunes
        /\ begun' = begun /\ filled' = filled /\ upc = "recv"
    BY <1>4 DEF RecvPacket
  <2>3. /\ Len(Samples(clock, k, tunes)) = k
        /\ \A i \in 1 .. k : Samples(clock, k, tunes)[i].tune = tunes
    <3>1. clock \in Nat /\ k \in Nat /\ tunes \in Nat
      BY <1>0, <2>1
    <3> QED  BY <3>1, PacketSamples
  <2>4. \A i \in 1 .. Len(pkt') : begun.tunes <= pkt'[i].tune
    BY <2>1, <2>2, <2>3
  <2> QED  BY <2>1, <2>2, <2>4 DEF OldInFront
<1>5. CASE UhdIdles \/ \E k \in 1 .. MaxPacket : RecvOverflow(k)
  <2>1. /\ UNCHANGED <<pkt, filled, begun>>
        /\ \/ upc' = upc
           \/ upc = "idle" /\ upc' = "closed"
    BY <1>5, TouchNoSample
  <2>2. tunes' \in Nat /\ tunes <= tunes'
    <3>1. tunes' = tunes \/ tunes' = tunes + 1
      <4>1. CASE UhdIdles
        BY <4>1 DEF UhdIdles, RecvNothing, UhdClose, TuneSetsFreq, TuneForgetsEnd,
                    TuneForgetsOverflow
      <4>2. CASE \E k \in 1 .. MaxPacket : RecvOverflow(k)
        BY <4>2 DEF RecvOverflow
      <4> QED  BY <1>5, <4>1, <4>2
    <3> QED  BY <1>0, <3>1
  <2> QED  BY <1>0, <2>1, <2>2 DEF OldInFront, Carries
<1> QED  BY <1>1, <1>2, <1>3, <1>4, <1>5, UhdCases

(* Booleans apart, the numbers that tell where the device is.              *)
Packet1 == pkt[1].at

LEMMA PacketPlace ==
  ASSUME UhdShape, PartsInPlace
  PROVE  /\ upc = "got" => Packet1 \in Nat /\ Len(pkt) \in Nat /\ Len(pkt) > 0
         /\ lost.total \in Nat /\ lost.since \in Nat
         /\ gap \in Nat /\ reported \in Nat /\ doubt \in Nat /\ clock \in Nat
<1>1. ASSUME upc = "got"
      PROVE  Packet1 \in Nat /\ Len(pkt) \in Nat /\ Len(pkt) > 0
  <2>1. Len(pkt) \in 1 .. MaxPacket /\ pkt \in Seq(Sample)
    BY <1>1 DEF PartsInPlace, UhdShape
  <2>2. Len(pkt) \in Nat /\ 1 \in 1 .. Len(pkt)
    BY <2>1, UhdSizes
  <2>3. pkt[1] \in Sample
    BY <2>1, <2>2, ElementOfSeq
  <2> QED  BY <2>2, <2>3 DEF Sample, Packet1
<1>2. /\ lost.total \in Nat /\ lost.since \in Nat
      /\ gap \in Nat /\ reported \in Nat /\ doubt \in Nat /\ clock \in Nat
  BY DEF UhdShape
<1> QED  BY <1>1, <1>2

(* What FileAway does to the accounts.  The gap it reports is all that was  *)
(* lost since the last packet, if no tune came between.                    *)
LEMMA FileAwayAccounts ==
  ASSUME UhdFlags, UhdShape, PartsInPlace, EndIsKnown, FileAway
  PROVE  /\ UNCHANGED <<timed, clock, tuneStep, reported>> /\ upc = "got" /\ upc' = "recv"
         /\ lost'.total = lost.total /\ lost'.since = 0
         /\ lost'.anew <=> tuneStep # "idle"
         /\ doubt' = IF lost.anew THEN doubt + lost.since ELSE doubt
         /\ ~timed => gap' = gap
         /\ timed => /\ lastEnd' = clock /\ gap' \in gap .. gap + lost.since
                     /\ ~lost.anew => gap' = gap + lost.since
<1>1. /\ Packet1 \in Nat /\ Len(pkt) \in Nat /\ Len(pkt) > 0 /\ upc = "got"
      /\ lost.since \in Nat /\ gap \in Nat /\ doubt \in Nat /\ clock \in Nat
      /\ lastEnd \in Nat \cup {None}
  BY PacketPlace DEF FileAway, UhdShape
<1>2. /\ UNCHANGED <<clock, tuneStep, reported>> /\ upc' = "recv"
      /\ doubt' = IF lost.anew THEN doubt + lost.since ELSE doubt
  BY DEF FileAway
<1>3. /\ lost'.total = lost.total /\ lost'.since = 0
      /\ lost'.anew = (tuneStep # "idle")
  BY DEF FileAway, UhdShape
<1>4. timed' = timed
  BY Zenon DEF FileAway
<1>5. ~timed => gap' = gap
  BY DEF FileAway
<1>6. ASSUME timed
      PROVE  /\ lastEnd' = clock /\ gap' \in gap .. gap + lost.since
             /\ ~lost.anew => gap' = gap + lost.since
  <2>1. lastEnd' = Packet1 + Len(pkt) /\ gap' = gap + GapBefore
    BY <1>6 DEF FileAway, GapSoFar, Packet1
  <2>2. /\ Packet1 + Len(pkt) = clock
        /\ lastEnd # None => lastEnd + lost.since = Packet1
        /\ ~lost.anew => lastEnd # None /\ (lost.since > 0 => pending)
    BY <1>1, <1>6 DEF EndIsKnown, Packet1
  <2>3. GapBefore = IF pending /\ lastEnd # None /\ Packet1 > lastEnd
                    THEN Packet1 - lastEnd ELSE 0
    BY DEF GapBefore, Packet1
  <2>4. GapBefore \in 0 .. lost.since
    <3>1. CASE pending /\ lastEnd # None /\ Packet1 > lastEnd
      BY <1>1, <2>2, <2>3, <3>1 DEF None
    <3>2. CASE ~(pending /\ lastEnd # None /\ Packet1 > lastEnd)
      BY <1>1, <2>3, <3>2
    <3> QED  BY <3>1, <3>2
  <2>5. ASSUME ~lost.anew
        PROVE  GapBefore = lost.since
    <3>1. CASE lost.since > 0
      <4>1. pending /\ lastEnd # None /\ Packet1 = lastEnd + lost.since
        BY <2>2, <2>5, <3>1
      <4> QED  BY <1>1, <2>3, <3>1, <4>1
    <3>2. CASE ~(lost.since > 0)
      BY <1>1, <2>4, <3>2
    <3> QED  BY <3>1, <3>2
  <2> DEFINE g == GapBefore
  <2>6. gap' = gap + g /\ g \in 0 .. lost.since /\ (~lost.anew => g = lost.since)
    BY <2>1, <2>4, <2>5
  <2> HIDE DEF g
  <2> QED  BY <1>1, <2>1, <2>2, <2>6
<1> QED  BY <1>1, <1>2, <1>3, <1>4, <1>5, <1>6

LEMMA EndIsKnownStep ==
  ASSUME UhdFlags, UhdShape, PartsInPlace, EndIsKnown, UhdNext
  PROVE  EndIsKnown'
<1>0. /\ lost.since \in Nat /\ clock \in Nat /\ lastEnd \in Nat \cup {None}
      /\ upc = "got" => Packet1 \in Nat /\ Len(pkt) \in Nat
  BY PacketPlace DEF UhdShape
<1>1. CASE BeginChunk \/ ReturnChunk \/ RecvNothing \/ UhdClose
  <2>1. /\ UNCHANGED <<pkt, clock, lastEnd, lost, tuneStep>>
        /\ upc = "got" <=> upc' = "got"
    BY <1>1 DEF BeginChunk, ReturnChunk, RecvNothing, UhdClose
  <2>2. UNCHANGED <<timed, pending>>
    BY Zenon, <1>1 DEF BeginChunk, ReturnChunk, RecvNothing, UhdClose
  <2> QED  BY <2>1, <2>2 DEF EndIsKnown
<1>2. CASE FileAway
  <2>1. /\ clock' = clock /\ tuneStep' = tuneStep /\ upc' = "recv"
        /\ lost'.since = 0 /\ (lost'.anew <=> tuneStep # "idle")
        /\ timed' = timed /\ timed => lastEnd' = clock
    BY <1>2, FileAwayAccounts
  <2>2. timed' => lastEnd' = clock
    BY <1>2, FileAwayAccounts
  <2>3. timed' => lastEnd' # None /\ lastEnd' + lost'.since = clock'
    BY <1>0, <2>1, <2>2 DEF None
  <2>4. ~(lost'.since > 0)
    BY <2>1
  <2> QED  BY <2>1, <2>3, <2>4 DEF EndIsKnown
<1>3. ASSUME NEW k \in 1 .. MaxPacket, RecvPacket(k)
      PROVE  EndIsKnown'
  <2>1. k \in Nat /\ tunes \in Nat /\ 1 \in 1 .. k
    BY UhdSizes DEF UhdShape
  <2>2. /\ Len(Samples(clock, k, tunes)) = k
        /\ Samples(clock, k, tunes)[1].at = clock + 1 - 1
    <3>1. clock \in Nat /\ k \in Nat /\ tunes \in Nat
      BY <1>0, <2>1
    <3>2. /\ Len(Samples(clock, k, tunes)) = k
          /\ \A i \in 1 .. k : /\ Samples(clock, k, tunes)[i].at = clock + i - 1
                               /\ Samples(clock, k, tunes)[i].tune = tunes
      BY Zenon, <3>1, PacketSamples
    <3> QED  BY <2>1, <3>2
  <2>3. /\ upc = "recv" /\ upc' = "got" /\ pkt' = Samples(clock, k, tunes)
        /\ clock' = clock + k /\ UNCHANGED <<lastEnd, lost, tuneStep>>
    BY <1>3 DEF RecvPacket
  <2>4. UNCHANGED <<timed, pending>>
    BY Zenon, <1>3 DEF RecvPacket
  <2>5. pkt'[1].at = clock /\ pkt'[1].at + Len(pkt') = clock'
    BY <1>0, <2>1, <2>2, <2>3
  <2>6. timed /\ lastEnd # None => lastEnd + lost.since = clock
    BY <2>3 DEF EndIsKnown
  <2> QED  BY <2>3, <2>4, <2>5, <2>6 DEF EndIsKnown
<1>4. ASSUME NEW k \in 1 .. MaxPacket, RecvOverflow(k)
      PROVE  EndIsKnown'
  <2>1. /\ upc = "recv" /\ upc' = "recv" /\ clock' = clock + k
        /\ UNCHANGED <<lastEnd, tuneStep>>
    BY <1>4 DEF RecvOverflow
  <2>2. lost'.since = lost.since + k /\ lost'.anew = lost.anew
    BY <1>4 DEF RecvOverflow, UhdShape
  <2>3. timed' = timed /\ pending' = TRUE
    BY Zenon, <1>4 DEF RecvOverflow
  <2>4. timed /\ lastEnd # None => lastEnd + lost.since = clock
    BY <2>1 DEF EndIsKnown
  <2>5. k \in Nat
    BY UhdSizes
  <2>6. timed' /\ lastEnd' # None => lastEnd' + lost'.since = clock'
    BY <1>0, <2>1, <2>2, <2>3, <2>4, <2>5
  <2>7. timed' /\ ~lost'.anew => lastEnd' # None /\ pending'
    BY Zenon, <2>1, <2>2, <2>3 DEF EndIsKnown
  <2>8. tuneStep' # "idle" => lost'.anew
    BY <2>1, <2>2 DEF EndIsKnown
  <2> QED  BY <2>1, <2>6, <2>7, <2>8 DEF EndIsKnown
<1>5. CASE TuneSetsFreq \/ TuneForgetsEnd \/ TuneForgetsOverflow
  <2>1. /\ UNCHANGED <<pkt, clock, upc>> /\ lastEnd' \in {lastEnd, None}
        /\ lost'.since = lost.since
    BY <1>5 DEF TuneSetsFreq, TuneForgetsEnd, TuneForgetsOverflow, Tuning, UhdShape
  <2>2. lost'.anew
    BY <1>5 DEF TuneSetsFreq, TuneForgetsEnd, TuneForgetsOverflow, Tuning, UhdShape
  <2>3. timed' = timed
    BY Zenon, <1>5 DEF TuneSetsFreq, TuneForgetsEnd, TuneForgetsOverflow, Tuning
  <2> QED  BY <2>1, <2>2, <2>3 DEF EndIsKnown
<1> QED  BY <1>1, <1>2, <1>3, <1>4, <1>5 DEF UhdNext

(* The sums of the accounts. *)
LEMMA AccountsStep ==
  ASSUME UhdFlags, UhdShape, PartsInPlace, EndIsKnown, LossInBounds, GapsExact, UhdNext
  PROVE  LossInBounds' /\ GapsExact'
<1>0. /\ lost.total \in Nat /\ lost.since \in Nat /\ gap \in Nat /\ reported \in Nat
      /\ doubt \in Nat /\ clock \in Nat
  BY PacketPlace
<1>1. /\ doubt + lost.since <= lost.total /\ lost.total <= clock
      /\ ~Carries => gap = 0
      /\ ~timed => gap = 0 /\ reported = 0
      /\ timed => /\ lost.total - lost.since - doubt <= reported + gap
                  /\ reported + gap <= (lost.total - lost.since - doubt) + doubt
  BY DEF LossInBounds, GapsExact
<1> SUFFICES /\ doubt' + lost'.since <= lost'.total /\ lost'.total <= clock'
             /\ ~Carries' => gap' = 0
             /\ ~timed' => gap' = 0 /\ reported' = 0
             /\ timed' =>
                  /\ lost'.total - lost'.since - doubt' <= reported' + gap'
                  /\ reported' + gap' <= (lost'.total - lost'.since - doubt') + doubt'
  BY DEF LossInBounds, GapsExact
<1>2. CASE BeginChunk \/ ReturnChunk \/ RecvNothing \/ UhdClose
  <2>1. /\ UNCHANGED <<clock, lost, doubt>>
        /\ \/ reported' = reported /\ gap' = gap /\ Carries' = Carries
           \/ reported' = reported + gap /\ gap' = 0
           \/ reported' = reported /\ gap' = 0 /\ ~Carries
    BY <1>2 DEF BeginChunk, ReturnChunk, RecvNothing, UhdClose, Carries
  <2>2. timed' = timed
    BY Zenon, <1>2 DEF BeginChunk, ReturnChunk, RecvNothing, UhdClose
  <2>3. /\ reported' + gap' = reported + gap
        /\ ~Carries' => gap' = 0
        /\ ~timed => gap' = 0 /\ reported' = 0
    BY <1>0, <1>1, <2>1
  <2> QED  BY <1>1, <2>1, <2>2, <2>3
<1>3. CASE FileAway
  <2>1. /\ clock' = clock /\ timed' = timed /\ reported' = reported /\ Carries'
        /\ lost'.total = lost.total /\ lost'.since = 0
        /\ doubt' = IF lost.anew THEN doubt + lost.since ELSE doubt
        /\ ~timed => gap' = gap
        /\ timed => /\ gap' \in gap .. gap + lost.since
                    /\ ~lost.anew => gap' = gap + lost.since
    BY <1>3, FileAwayAccounts DEF Carries
  <2>2. CASE timed
    <3>1. CASE lost.anew
      BY <1>0, <1>1, <2>1, <2>2, <3>1
    <3>2. CASE ~lost.anew
      BY <1>0, <1>1, <2>1, <2>2, <3>2
    <3> QED  BY <3>1, <3>2
  <2>3. CASE ~timed
    BY <1>0, <1>1, <2>1, <2>3
  <2> QED  BY <2>2, <2>3
<1>4. ASSUME NEW k \in 1 .. MaxPacket, RecvPacket(k)
      PROVE  LossInBounds' /\ GapsExact'
  <2>1. /\ UNCHANGED <<lost, doubt, gap, reported>> /\ clock' = clock + k /\ Carries /\ Carries'
    BY <1>4 DEF RecvPacket, Carries
  <2>2. timed' = timed
    BY Zenon, <1>4 DEF RecvPacket
  <2>3. lost.total <= clock' /\ k \in Nat
    BY <1>0, <1>1, <2>1, UhdSizes
  <2> QED  BY <1>1, <2>1, <2>2, <2>3 DEF LossInBounds, GapsExact
<1>5. ASSUME NEW k \in 1 .. MaxPacket, RecvOverflow(k)
      PROVE  LossInBounds' /\ GapsExact'
  <2>1. /\ UNCHANGED <<doubt, gap, reported>> /\ clock' = clock + k /\ Carries' = Carries
    BY <1>5 DEF RecvOverflow, Carries
  <2>2. timed' = timed
    BY Zenon, <1>5 DEF RecvOverflow
  <2>3. lost'.total = lost.total + k /\ lost'.since = lost.since + k /\ k \in Nat
    BY <1>5, UhdSizes DEF RecvOverflow, UhdShape
  <2>4. /\ doubt + lost'.since <= lost'.total /\ lost'.total <= clock'
        /\ lost'.total - lost'.since - doubt = lost.total - lost.since - doubt
    BY <1>0, <1>1, <2>1, <2>3
  <2> QED  BY <1>1, <2>1, <2>2, <2>4 DEF LossInBounds, GapsExact
<1>6. CASE TuneSetsFreq \/ TuneForgetsEnd \/ TuneForgetsOverflow
  <2>1. UNCHANGED <<clock, doubt, gap, reported>> /\ Carries' = Carries
    BY <1>6 DEF TuneSetsFreq, TuneForgetsEnd, TuneForgetsOverflow, Tuning, Carries
  <2>2. timed' = timed
    BY Zenon, <1>6 DEF TuneSetsFreq, TuneForgetsEnd, TuneForgetsOverflow, Tuning
  <2>3. lost'.total = lost.total /\ lost'.since = lost.since
    BY <1>6 DEF TuneSetsFreq, TuneForgetsEnd, TuneForgetsOverflow, Tuning, UhdShape
  <2> QED  BY <1>1, <2>1, <2>2, <2>3
<1> QED  BY <1>2, <1>3, <1>4, <1>5, <1>6 DEF UhdNext, LossInBounds, GapsExact

LEMMA UhdNextInv ==
  ASSUME UhdInv, [UhdNext]_uhdVars
  PROVE  UhdInv'
<1>1. CASE UhdNext
  BY <1>1, UhdFlagsStep, UhdShapeStep, PartsInPlaceStep, NothingDroppedStep,
     TakenInOrderStep, OldInFrontStep, EndIsKnownStep, AccountsStep DEF UhdInv
<1>2. CASE UNCHANGED uhdVars
  <2>1. UhdFlags'
    BY Zenon, <1>2 DEF UhdInv, UhdFlags
  <2>2. UhdShape' /\ PartsInPlace' /\ NothingDropped'
    BY <1>2 DEF UhdInv, UhdShape, PartsInPlace, NothingDropped, InHand, Carries
  <2>3. TakenInOrder' /\ OldInFront'
    BY <1>2 DEF UhdInv, TakenInOrder, OldInFront, InHand, Carries
  <2>4. timed' = timed /\ pending' = pending
    BY Zenon, <1>2
  <2>5. EndIsKnown' /\ LossInBounds' /\ GapsExact'
    BY <1>2, <2>4 DEF UhdInv, EndIsKnown, LossInBounds, GapsExact, Carries
  <2> QED  BY <2>1, <2>2, <2>3, <2>5 DEF UhdInv
<1> QED  BY <1>1, <1>2

LEMMA UhdInvTrue == UhdInv => ChunksTrue
<1> SUFFICES ASSUME UhdInv PROVE ChunksTrue
  OBVIOUS
<1>1. /\ lost.total \in Nat /\ lost.since \in Nat /\ gap \in Nat /\ reported \in Nat
      /\ doubt \in Nat /\ clock \in Nat /\ clock <= MaxClock /\ MaxClock \in Nat
  BY PacketPlace, UhdSizes DEF UhdInv, UhdShape
<1>2. /\ doubt + lost.since <= lost.total /\ lost.total <= clock
      /\ ~timed => reported = 0
      /\ timed => reported + gap <= (lost.total - lost.since - doubt) + doubt
  BY DEF UhdInv, LossInBounds, GapsExact
<1>3. {lost.total, lost.since, doubt, reported} \subseteq 0 .. MaxClock
  <2>1. reported <= MaxClock
    BY <1>1, <1>2
  <2>2. /\ lost.total \in 0 .. MaxClock /\ lost.since \in 0 .. MaxClock
        /\ doubt \in 0 .. MaxClock /\ reported \in 0 .. MaxClock
    BY <1>1, <1>2, <2>1
  <2> QED  BY <2>2
<1>4. UhdTypeOK
  <2>1. timed \in BOOLEAN /\ pending \in BOOLEAN
    BY Zenon DEF UhdInv, UhdFlags
  <2>2. Len(pkt) <= MaxPacket /\ Len(filled) <= ChunkSamples
    <3>1. Len(<<>>) = 0
      BY EmptySeq
    <3> QED  BY <3>1, UhdSizes DEF UhdInv, PartsInPlace
  <2> QED  BY <1>3, <2>1, <2>2 DEF UhdInv, UhdShape, UhdTypeOK
<1>5. SamplesTrue
  BY DEF UhdInv, NothingDropped, InHand, TakenInOrder, OldInFront, PartsInPlace, SamplesTrue
<1> QED  BY <1>4, <1>5 DEF UhdInv, ChunksTrue

-----------------------------------------------------------------------------
(* The direct receivers: their inductive invariant. *)

Chunk == [real : 0 .. MaxRetunes, label : 0 .. MaxRetunes]

DirectFlags ==
    /\ leaked \in BOOLEAN /\ mismatch \in BOOLEAN /\ tuneFailed \in BOOLEAN
    /\ running \in BOOLEAN /\ stopped \in BOOLEAN /\ buffer \in BOOLEAN
    /\ ended \in BOOLEAN /\ latePush \in BOOLEAN

DirectShape ==
    /\ step \in {"probe", "open", "configure", "start"}
    /\ src \in Registry \cup {"none", "error", "closing", "closed"}
    /\ held \in Registry \cup {"none"}
    /\ hw \in 0 .. MaxRetunes /\ centre \in 0 .. MaxRetunes
    /\ tstep \in {"idle", "freq", "centre", "flush"}
    /\ flight \in Seq(0 .. MaxRetunes) /\ Len(flight) <= InFlight
    /\ asm \in Seq(Chunk) /\ Len(asm) <= AsmMax
    /\ hand \in Chunk /\ dirty \in Nat
    /\ rx \in {"off", "open", "loop", "wait", "label", "push", "dead"}

(* The backends still to be tried are an end of the auto order, or the one  *)
(* that was asked for.  libhackrf comes first, and is not tried again.     *)
AutoRest == {<<"soapy", "hackrf_transfer">>, <<"hackrf_transfer">>, <<>>}
Trials == {AutoOrder} \cup AutoRest \cup {<<b>> : b \in Registry}

TrialsInOrder ==
    /\ todo \in Trials
    /\ src = "none" <=> todo # <<>>
    /\ leaked => todo \in AutoRest
    /\ src = "none" /\ step = "configure" => Trying # "hackrf_transfer"

(* Whoever has the radio open: the constructor at work, then the source, or *)
(* a libhackrf that failed, for as long as the process lives.              *)
HandleOwned ==
    /\ IF leaked THEN held = "libhackrf" /\ src \notin Threaded \cup {"soapy"}
       ELSE held # "none" => \/ src \in {held, "closing"}
                             \/ src = "none" /\ held = Trying /\ step \in {"configure", "start"}
    /\ src = "none" /\ step \in {"configure", "start"} /\ Trying # "hackrf_transfer" =>
         held = Trying /\ ~leaked
    /\ src \in Threaded => held = src

(* The RX thread is one of the source, and pushes nothing once that is      *)
(* closed: close() took the buffer, or waited for the thread.              *)
ThreadHasSource ==
    /\ ~latePush
    /\ rx # "off" => src \in Threaded \cup {"closing", "closed"}
    /\ src = "closed" =>
         /\ rx \in {"off", "open", "loop", "wait", "dead"}
         /\ rx \in {"open", "loop", "wait"} => held = "none"
         /\ rx = "wait" => ~buffer

NotStarted ==
    src = "none" => /\ rx = "off" /\ flight = <<>> /\ asm = <<>> /\ dirty = 0
                    /\ hw = centre /\ tstep = "idle"

(* tune(): libhackrf is a tune ahead of its label in the middle, libiio's   *)
(* label ahead of its radio; at the end they agree unless the radio did not *)
(* obey, and then the readback tells.                                      *)
TuneOrder ==
    /\ tstep # "idle" => src \in Threaded /\ dirty = 0
    /\ tstep = "centre" => centre < MaxRetunes
    /\ tstep = "freq" /\ src = "libhackrf" => centre < MaxRetunes
    /\ tstep = "centre" /\ src = "libhackrf" => hw = centre + 1
    /\ tstep \in {"idle", "flush"} => hw = centre \/ mismatch \/ tuneFailed

(* What is on its way to the windows and not of the present frequency, and  *)
(* what of it they have been given since the last tune.                    *)
Hits(s, B) == {i \in DOMAIN s : s[i] \in B}
HitCount(s, B) == Cardinality(Hits(s, B))
WrongFreq == (0 .. MaxRetunes) \ {centre}
WrongChunk == {c \in Chunk : ~Current(c)}
WrongInHand == \/ rx = "label" /\ hand.real # centre
               \/ rx = "push" /\ ~Current(hand)
OnItsWay == HitCount(asm, WrongChunk) + (IF WrongInHand THEN 1 ELSE 0)
            + HitCount(flight, WrongFreq)
Clean == tstep = "idle" /\ ~tuneFailed /\ ~mismatch /\ src \in Threaded

FewAreWrong == Clean => dirty + OnItsWay <= InFlight + 1

DirectInv ==
    /\ DirectFlags
    /\ DirectShape
    /\ TrialsInOrder
    /\ HandleOwned
    /\ ThreadHasSource
    /\ NotStarted
    /\ TuneOrder
    /\ FewAreWrong

ReceiversInv ==
    /\ who \in {"direct", "uhd"}
    /\ UhdInv
    /\ DirectInv

-----------------------------------------------------------------------------
(* Counting in a queue. *)

LEMMA HitsFinite ==
  ASSUME NEW S, NEW s \in Seq(S), NEW B
  PROVE  /\ IsFiniteSet(Hits(s, B)) /\ HitCount(s, B) \in 0 .. Len(s)
         /\ Hits(s, B) \subseteq 1 .. Len(s)
<1>1. Len(s) \in Nat /\ DOMAIN s = 1 .. Len(s)
  BY LenProperties
<1>2. IsFiniteSet(1 .. Len(s)) /\ Cardinality(1 .. Len(s)) = Len(s)
  BY <1>1, FS_Interval
<1>3. Hits(s, B) \subseteq 1 .. Len(s)
  BY <1>1 DEF Hits
<1>4. IsFiniteSet(Hits(s, B)) /\ Cardinality(Hits(s, B)) <= Len(s)
  BY <1>2, <1>3, FS_Subset
<1>5. Cardinality(Hits(s, B)) \in Nat
  BY <1>4, FS_CardinalityType
<1> QED  BY <1>1, <1>3, <1>4, <1>5 DEF HitCount

LEMMA HitsOfEmpty == ASSUME NEW B PROVE HitCount(<<>>, B) = 0
<1>1. Hits(<<>>, B) = {}
  BY DEF Hits
<1> QED  BY <1>1, FS_EmptySet DEF HitCount

LEMMA HitsOfAppend ==
  ASSUME NEW S, NEW s \in Seq(S), NEW e \in S, NEW B
  PROVE  HitCount(Append(s, e), B) = HitCount(s, B) + (IF e \in B THEN 1 ELSE 0)
<1> DEFINE n == Len(s) + 1
           t == Append(s, e)
<1>1. /\ Len(s) \in Nat /\ DOMAIN s = 1 .. Len(s) /\ t \in Seq(S) /\ Len(t) = n
      /\ \A i \in 1 .. Len(s) : t[i] = s[i]
      /\ t[n] = e
  BY LenProperties, AppendProperties
<1>2. DOMAIN t = 1 .. n
  BY <1>1, LenProperties
<1>3. IsFiniteSet(Hits(s, B)) /\ Hits(s, B) \subseteq 1 .. Len(s)
  BY HitsFinite
<1> HIDE DEF t
<1>4. CASE e \in B
  <2>1. Hits(t, B) = Hits(s, B) \cup {n}
    BY <1>1, <1>2, <1>4 DEF Hits
  <2>2. n \notin Hits(s, B)
    BY <1>1, <1>3
  <2>3. Cardinality(Hits(s, B) \cup {n}) = Cardinality(Hits(s, B)) + 1
    BY <1>3, <2>2, FS_AddElement
  <2> QED  BY <1>4, <2>1, <2>3 DEF HitCount, t
<1>5. CASE e \notin B
  <2>1. Hits(t, B) = Hits(s, B)
    BY <1>1, <1>2, <1>5 DEF Hits
  <2>2. HitCount(s, B) \in Nat
    BY <1>1, HitsFinite
  <2> QED  BY <1>5, <2>1, <2>2 DEF HitCount, t
<1> QED  BY <1>4, <1>5

LEMMA HitsOfTail ==
  ASSUME NEW S, NEW s \in Seq(S), s # <<>>, NEW B
  PROVE  HitCount(s, B) = HitCount(Tail(s), B) + (IF Head(s) \in B THEN 1 ELSE 0)
<1> DEFINE t == Tail(s)
           later == Hits(s, B) \ {1}
           f == [i \in Hits(t, B) |-> i + 1]
<1>1. /\ Len(s) \in Nat \ {0} /\ DOMAIN s = 1 .. Len(s) /\ t \in Seq(S)
      /\ Len(t) = Len(s) - 1 /\ \A i \in 1 .. Len(t) : t[i] = s[i + 1]
      /\ Head(s) = s[1]
  BY LenProperties, HeadTailProperties, EmptySeq
<1>2. DOMAIN t = 1 .. Len(t)
  BY <1>1, LenProperties
<1>3. IsFiniteSet(Hits(s, B)) /\ IsFiniteSet(Hits(t, B)) /\ HitCount(t, B) \in Nat
  <2> HIDE DEF t
  <2>1. IsFiniteSet(Hits(s, B))
    BY HitsFinite
  <2>2. IsFiniteSet(Hits(t, B)) /\ HitCount(t, B) \in 0 .. Len(t)
    BY <1>1, HitsFinite
  <2>3. HitCount(t, B) \in Nat
    BY <1>1, <2>2
  <2> QED  BY <2>1, <2>2, <2>3
<1> HIDE DEF t
<1>4. Cardinality(later) = Cardinality(Hits(t, B))
  <2>1. f \in [Hits(t, B) -> later]
    BY <1>1, <1>2 DEF Hits
  <2>2. \A i, j \in Hits(t, B) : f[i] = f[j] => i = j
    BY <1>1, <1>2 DEF Hits
  <2>3. ASSUME NEW k \in later
        PROVE  \E i \in Hits(t, B) : f[i] = k
    <3>1. k - 1 \in Hits(t, B) /\ (k - 1) + 1 = k
      BY <1>1, <1>2, <2>3 DEF Hits
    <3> QED  BY <3>1
  <2>4. f \in Bijection(Hits(t, B), later)
    BY <2>1, <2>2, <2>3 DEF Bijection, Injection, Surjection, IsInjective
  <2> QED  BY <1>3, <2>4, FS_Bijection DEF ExistsBijection
<1>5. CASE Head(s) \in B
  <2>1. 1 \in Hits(s, B)
    BY <1>1, <1>5 DEF Hits
  <2>2. Cardinality(later) = Cardinality(Hits(s, B)) - 1
    BY <1>3, <2>1, FS_RemoveElement
  <2>3. Cardinality(Hits(s, B)) \in Nat
    BY <1>3, FS_CardinalityType
  <2> QED  BY <1>3, <1>4, <1>5, <2>2, <2>3 DEF HitCount, t
<1>6. CASE Head(s) \notin B
  <2>1. later = Hits(s, B)
    BY <1>1, <1>6 DEF Hits
  <2>2. HitCount(s, B) = HitCount(t, B)
    BY <1>4, <2>1 DEF HitCount
  <2>3. HitCount(s, B) = HitCount(t, B) + (IF Head(s) \in B THEN 1 ELSE 0)
    BY <1>3, <1>6, <2>2
  <2> QED  BY <2>3 DEF t
<1> QED  BY <1>5, <1>6

-----------------------------------------------------------------------------
(* The direct receivers: the parts of the invariant, one at a time. *)

USE DEF make, radio, thread, direct

OpeningActs == ProbeFails \/ ProbeOk \/ OpenDevice \/ Configure \/ StartStream \/ ConstructorFails
ThreadActs ==
    \/ RadioFills \/ OpenBuffer \/ OpenBufferFails \/ Refill \/ RunGoesOn \/ RunStops
    \/ DeviceLost \/ LabelChunk \/ Push
TuneActs == TuneBegins \/ TuneRadio \/ TuneRefused \/ TuneLabel \/ Flush
WindowActs == ReadWindow \/ WindowsEnd \/ TransferFails
CloseActs == CloseBegins \/ CloseHackRF \/ CloseIio

LEMMA DirectCases ==
  DirectNext <=> OpeningActs \/ ThreadActs \/ TuneActs \/ WindowActs \/ CloseActs
BY DEF DirectNext, OpeningActs, ThreadActs, TuneActs, WindowActs, CloseActs

LEMMA DirectSizes ==
  /\ InFlight \in Nat /\ InFlight > 0 /\ AsmMax \in Nat /\ AsmMax > 0
  /\ MaxRetunes \in Nat
BY ReceiversAssumption

LEMMA TrialsFacts ==
  ASSUME NEW t \in Trials, t # <<>>
  PROVE  /\ Head(t) \in Registry /\ Tail(t) \in AutoRest
         /\ t \in AutoRest => Head(t) \in {"soapy", "hackrf_transfer"}
<1>1. CASE t = AutoOrder
  BY <1>1 DEF AutoOrder, AutoRest, Registry, Threaded
<1>2. CASE t \in AutoRest
  <2>1. CASE t = <<"soapy", "hackrf_transfer">>
    <3>1. Head(t) = "soapy" /\ Tail(t) = <<"hackrf_transfer">>
      BY <2>1
    <3> QED  BY <3>1 DEF AutoRest, Registry, Threaded
  <2>2. CASE t = <<"hackrf_transfer">>
    <3>1. Head(t) = "hackrf_transfer" /\ Tail(t) = <<>>
      BY <2>2
    <3> QED  BY <3>1 DEF AutoRest, Registry, Threaded
  <2> QED  BY <1>2, <2>1, <2>2 DEF AutoRest
<1>3. ASSUME NEW b \in Registry, t = <<b>>
      PROVE  Head(t) = b /\ Tail(t) = <<>>
  BY <1>3
<1>4. t \in AutoRest => Head(t) \in {"soapy", "hackrf_transfer"}
  BY DEF AutoRest
<1>5. ASSUME NEW b \in Registry, t = <<b>>
      PROVE  Head(t) \in Registry /\ Tail(t) \in AutoRest
  BY <1>3, <1>5 DEF AutoRest
<1> QED  BY <1>1, <1>2, <1>4, <1>5 DEF Trials

LEMMA DirectInitInv ==
  ASSUME Init PROVE DirectInv
<1> USE DirectSizes DEF Init
<1>1. DirectFlags
  BY Zenon DEF DirectFlags
<1>2. DirectShape
  <2>1. <<>> \in Seq(0 .. MaxRetunes) /\ <<>> \in Seq(Chunk) /\ Len(<<>>) = 0
    BY EmptySeq
  <2>2. hand \in Chunk
    BY DEF NoHand, Chunk
  <2> QED  BY <2>1, <2>2 DEF DirectShape
<1>3. TrialsInOrder
  <2>1. todo \in Trials /\ todo # <<>>
    <3>1. CASE todo = AutoOrder
      BY <3>1 DEF Trials, AutoOrder
    <3>2. ASSUME NEW b \in Registry, todo = <<b>>
          PROVE  todo \in Trials /\ todo # <<>>
      BY <3>2 DEF Trials
    <3> QED  BY <3>1, <3>2
  <2> QED  BY <2>1 DEF TrialsInOrder
<1>4. HandleOwned /\ ThreadHasSource /\ NotStarted /\ TuneOrder /\ FewAreWrong
  BY DEF HandleOwned, ThreadHasSource, NotStarted, TuneOrder, FewAreWrong, Clean, Threaded
<1> QED  BY <1>1, <1>2, <1>3, <1>4 DEF DirectInv

LEMMA DirectFlagsStep ==
  ASSUME DirectFlags, DirectNext
  PROVE  DirectFlags'
<1>1. CASE OpeningActs
  <2>1. CASE ProbeFails \/ ProbeOk \/ OpenDevice
    BY Zenon, <2>1 DEF ProbeFails, ProbeOk, OpenDevice, DirectFlags
  <2>2. CASE Configure
    BY Zenon, <2>2 DEF Configure, DirectFlags
  <2>3. CASE StartStream
    <3>1. running' \in BOOLEAN
      BY <2>3 DEF StartStream
    <3> QED  BY Zenon, <2>3, <3>1 DEF StartStream, DirectFlags
  <2>4. CASE ConstructorFails
    BY Zenon, <2>4 DEF ConstructorFails, DirectFlags
  <2> QED  BY <1>1, <2>1, <2>2, <2>3, <2>4 DEF OpeningActs
<1>2. CASE ThreadActs
  <2>1. CASE RadioFills \/ OpenBufferFails \/ RunGoesOn \/ LabelChunk
    <3>1. UNCHANGED <<leaked, mismatch, tuneFailed, running, stopped, buffer, ended, latePush>>
      BY Zenon, <2>1 DEF RadioFills, OpenBufferFails, RunGoesOn, LabelChunk
    <3> QED  BY Zenon, <3>1 DEF DirectFlags
  <2>4. CASE OpenBuffer \/ Push
    BY Zenon, <2>4 DEF OpenBuffer, Push, DirectFlags
  <2>2. CASE Refill
    BY Zenon, <2>2 DEF Refill, RunEnds, DirectFlags
  <2>3. CASE RunStops \/ DeviceLost
    BY Zenon, <2>3 DEF RunStops, DeviceLost, RunEnds, DirectFlags
  <2> QED  BY <1>2, <2>1, <2>2, <2>3, <2>4 DEF ThreadActs
<1>3. CASE TuneActs
  <2>1. CASE TuneBegins \/ TuneRefused \/ TuneLabel \/ Flush
    BY Zenon, <2>1 DEF TuneBegins, TuneRefused, TuneLabel, Flush, DirectFlags
  <2>2. CASE TuneRadio
    <3>1. mismatch' \in BOOLEAN
      <4>1. CASE src = "libhackrf"
        BY Zenon, <2>2, <4>1 DEF TuneRadio, DirectFlags
      <4>2. CASE src # "libhackrf"
        BY Zenon, <2>2, <4>2 DEF TuneRadio, Mismatch
      <4> QED  BY <4>1, <4>2
    <3>2. UNCHANGED <<leaked, tuneFailed, running, stopped, buffer, ended, latePush>>
      BY Zenon, <2>2 DEF TuneRadio
    <3> QED  BY Zenon, <3>1, <3>2 DEF DirectFlags
  <2> QED  BY <1>3, <2>1, <2>2 DEF TuneActs
<1>4. CASE WindowActs
  BY Zenon, <1>4 DEF WindowActs, ReadWindow, WindowsEnd, TransferFails, DirectFlags
<1>5. CASE CloseActs
  BY Zenon, <1>5 DEF CloseActs, CloseBegins, CloseHackRF, CloseIio, DirectFlags
<1> QED  BY <1>1, <1>2, <1>3, <1>4, <1>5, DirectCases

LEMMA DirectShapeStep ==
  ASSUME DirectShape, TrialsInOrder, TuneOrder, DirectNext
  PROVE  DirectShape'
<1> USE DirectSizes
<1>1. CASE OpeningActs
  <2>1. Opening /\ Trying \in Registry
    <3>1. Opening
      BY <1>1 DEF OpeningActs, ProbeFails, ProbeOk, OpenDevice, Configure, StartStream,
                  ConstructorFails
    <3> QED  BY <3>1, TrialsFacts DEF Opening, Trying, TrialsInOrder
  <2>2. UNCHANGED <<hw, centre, tstep, flight, asm, hand, dirty>>
    BY <1>1 DEF OpeningActs, ProbeFails, ProbeOk, OpenDevice, Configure, StartStream,
                ConstructorFails
  <2>3. /\ step' \in {"probe", "open", "configure", "start"}
        /\ src' \in Registry \cup {"none", "error", "closing", "closed"}
        /\ held' \in Registry \cup {"none"}
        /\ rx' \in {"off", "open", "loop", "wait", "label", "push", "dead"}
    BY <1>1, <2>1 DEF OpeningActs, ProbeFails, ProbeOk, OpenDevice, Configure, StartStream,
                ConstructorFails, SkipTo, DirectShape
  <2> QED  BY <2>2, <2>3 DEF DirectShape
<1>2. CASE ThreadActs
  <2>1. UNCHANGED <<step, src, held, hw, centre, tstep, dirty>>
    BY <1>2 DEF ThreadActs, RadioFills, OpenBuffer, OpenBufferFails, Refill, RunGoesOn,
                RunStops, DeviceLost, LabelChunk, Push
  <2>2. rx' \in {"off", "open", "loop", "wait", "label", "push", "dead"}
    BY <1>2 DEF ThreadActs, RadioFills, OpenBuffer, OpenBufferFails, Refill, RunGoesOn,
                RunStops, DeviceLost, LabelChunk, Push, RunEnds, Loop, DirectShape
  <2>3. flight' \in Seq(0 .. MaxRetunes) /\ Len(flight') <= InFlight
    <3>1. CASE RadioFills
      BY <3>1, AppendProperties DEF RadioFills, DirectShape
    <3>2. CASE Refill
      BY <3>2, HeadTailProperties, LenProperties DEF Refill, DirectShape
    <3>3. CASE ~RadioFills /\ ~Refill
      <4>1. flight' = flight
        BY <1>2, <3>3 DEF ThreadActs, OpenBuffer, OpenBufferFails, RunGoesOn, RunStops,
                          DeviceLost, LabelChunk, Push
      <4> QED  BY <4>1 DEF DirectShape
    <3> QED  BY <3>1, <3>2, <3>3
  <2>4. hand' \in Chunk
    <3>1. CASE Refill
      <4>1. Head(flight) \in 0 .. MaxRetunes
        BY <3>1, HeadTailProperties DEF Refill, DirectShape
      <4>2. hand' = hand \/ hand' = [NoHand EXCEPT !.real = Head(flight)]
        BY <3>1 DEF Refill
      <4> QED  BY <4>1, <4>2 DEF DirectShape, NoHand, Chunk
    <3>2. CASE LabelChunk
      BY <3>2 DEF LabelChunk, DirectShape, Chunk
    <3>3. CASE Push
      BY <3>3 DEF Push, NoHand, Chunk
    <3>4. CASE ~Refill /\ ~LabelChunk /\ ~Push
      <4>1. hand' = hand
        BY <1>2, <3>4 DEF ThreadActs, RadioFills, OpenBuffer, OpenBufferFails, RunGoesOn,
                          RunStops, DeviceLost
      <4> QED  BY <4>1 DEF DirectShape
    <3> QED  BY <3>1, <3>2, <3>3, <3>4
  <2>5. asm' \in Seq(Chunk) /\ Len(asm') <= AsmMax
    <3>1. CASE Push
      <4> DEFINE kept == IF Len(asm) = AsmMax THEN Tail(asm) ELSE asm
      <4>1. asm \in Seq(Chunk) /\ hand \in Chunk /\ Len(asm) \in Nat /\ Len(asm) <= AsmMax
        BY LenProperties DEF DirectShape
      <4>2. asm' = Append(kept, hand)
        BY <3>1 DEF Push
      <4>3. kept \in Seq(Chunk) /\ Len(kept) < AsmMax
        <5>1. CASE Len(asm) = AsmMax
          <6>1. asm # <<>>
            BY <5>1, EmptySeq
          <6>2. Tail(asm) \in Seq(Chunk) /\ Len(Tail(asm)) = Len(asm) - 1
            BY <4>1, <6>1, HeadTailProperties
          <6> QED  BY <4>1, <5>1, <6>2
        <5>2. CASE Len(asm) # AsmMax
          BY <4>1, <5>2
        <5> QED  BY <5>1, <5>2
      <4> HIDE DEF kept
      <4>4. Append(kept, hand) \in Seq(Chunk) /\ Len(Append(kept, hand)) = Len(kept) + 1
        BY <4>1, <4>3, AppendProperties
      <4>5. Len(kept) \in Nat
        BY <4>3, LenProperties
      <4> QED  BY <4>2, <4>3, <4>4, <4>5
    <3>2. CASE ~Push
      <4>1. asm' = asm
        BY <1>2, <3>2 DEF ThreadActs, RadioFills, OpenBuffer, OpenBufferFails, Refill,
                          RunGoesOn, RunStops, DeviceLost, LabelChunk
      <4> QED  BY <4>1 DEF DirectShape
    <3> QED  BY <3>1, <3>2
  <2> QED  BY <2>1, <2>2, <2>3, <2>4, <2>5 DEF DirectShape
<1>3. CASE TuneActs
  <2>1. /\ UNCHANGED <<step, src, held, flight, hand, rx>>
        /\ asm' = asm \/ asm' = <<>>
        /\ dirty' = dirty \/ dirty' = 0
        /\ tstep' \in {"idle", "freq", "centre", "flush"}
    BY <1>3 DEF TuneActs, TuneBegins, TuneRadio, TuneRefused, TuneLabel, Flush, FirstStep,
                AfterStep
  <2>2. hw' \in 0 .. MaxRetunes /\ centre' \in 0 .. MaxRetunes
    <3>1. hw \in 0 .. MaxRetunes /\ centre \in 0 .. MaxRetunes
      BY DEF DirectShape
    <3>2. CASE TuneRadio
      <4>1. src = "libhackrf" => centre < MaxRetunes
        BY <3>2 DEF TuneRadio, TuneOrder
      <4> QED  BY <3>1, <3>2, <4>1 DEF TuneRadio
    <3>3. CASE TuneLabel
      BY <3>1, <3>3 DEF TuneLabel, TuneOrder
    <3>4. CASE TuneBegins \/ TuneRefused \/ Flush
      BY <3>1, <3>4 DEF TuneBegins, TuneRefused, Flush
    <3> QED  BY <1>3, <3>2, <3>3, <3>4 DEF TuneActs
  <2>3. asm' \in Seq(Chunk) /\ Len(asm') <= AsmMax
    <3>1. <<>> \in Seq(Chunk) /\ Len(<<>>) <= AsmMax
      BY EmptySeq
    <3> QED  BY <2>1, <3>1 DEF DirectShape
  <2>4. dirty' \in Nat
    BY <2>1 DEF DirectShape
  <2> QED  BY <2>1, <2>2, <2>3, <2>4 DEF DirectShape
<1>4. CASE WindowActs
  <2>1. UNCHANGED <<step, src, held, hw, centre, tstep, flight, hand, rx>>
    BY <1>4 DEF WindowActs, ReadWindow, WindowsEnd, TransferFails
  <2>2. dirty' \in Nat /\ asm' \in Seq(Chunk) /\ Len(asm') <= AsmMax
    <3>1. CASE ReadWindow
      <4>1. asm # <<>> /\ asm' = Tail(asm) /\ dirty' \in {dirty, dirty + 1}
        BY <3>1 DEF ReadWindow
      <4>2. asm \in Seq(Chunk) /\ Len(asm) <= AsmMax /\ dirty \in Nat
        BY DEF DirectShape
      <4>3. Tail(asm) \in Seq(Chunk) /\ Len(Tail(asm)) = Len(asm) - 1 /\ Len(asm) \in Nat
        BY <4>1, <4>2, HeadTailProperties, LenProperties
      <4> QED  BY <4>1, <4>2, <4>3
    <3>2. CASE WindowsEnd \/ TransferFails
      BY <3>2 DEF WindowsEnd, TransferFails, DirectShape
    <3> QED  BY <1>4, <3>1, <3>2 DEF WindowActs
  <2> QED  BY <2>1, <2>2 DEF DirectShape
<1>5. CASE CloseActs
  <2>1. /\ UNCHANGED <<step, hw, centre, tstep, hand, asm, dirty>>
        /\ flight' = flight \/ flight' = <<>>
        /\ rx' \in {rx, "off", "dead"} /\ src' \in {"closing", "closed"}
        /\ held' \in {held, "none"}
    BY <1>5 DEF CloseActs, CloseBegins, CloseHackRF, CloseIio
  <2>2. flight' \in Seq(0 .. MaxRetunes) /\ Len(flight') <= InFlight
    <3>1. <<>> \in Seq(0 .. MaxRetunes) /\ Len(<<>>) <= InFlight
      BY EmptySeq
    <3> QED  BY <2>1, <3>1 DEF DirectShape
  <2>3. held' \in Registry \cup {"none"}
    BY <2>1 DEF DirectShape
  <2>4. rx' \in {"off", "open", "loop", "wait", "label", "push", "dead"}
    BY <2>1 DEF DirectShape
  <2> QED  BY <2>1, <2>2, <2>3, <2>4 DEF DirectShape
<1> QED  BY <1>1, <1>2, <1>3, <1>4, <1>5, DirectCases

(* Only make_source and close() change who has the radio. *)
LEMMA OthersKeepHandle ==
  ASSUME ThreadActs \/ TuneActs \/ WindowActs
  PROVE  UNCHANGED <<todo, step, leaked, src, held>>
<1>1. CASE ThreadActs
  BY Zenon, <1>1 DEF ThreadActs, RadioFills, OpenBuffer, OpenBufferFails, Refill, RunGoesOn,
                     RunStops, DeviceLost, LabelChunk, Push
<1>2. CASE TuneActs
  BY Zenon, <1>2 DEF TuneActs, TuneBegins, TuneRadio, TuneRefused, TuneLabel, Flush
<1>3. CASE WindowActs
  BY Zenon, <1>3 DEF WindowActs, ReadWindow, WindowsEnd, TransferFails
<1> QED  BY <1>1, <1>2, <1>3

LEMMA CloseKeepsTrials ==
  ASSUME CloseActs, DirectShape
  PROVE  /\ UNCHANGED <<todo, step, leaked>>
         /\ src \notin {"none", "error", "closed"} /\ src' \in {"closing", "closed"}
<1>1. UNCHANGED <<todo, step, leaked>>
  BY Zenon DEF CloseActs, CloseBegins, CloseHackRF, CloseIio
<1>2. src \in Registry \cup {"closing"} /\ src' \in {"closing", "closed"}
  BY DEF CloseActs, CloseBegins, CloseHackRF, CloseIio
<1> QED  BY <1>1, <1>2 DEF Registry, Threaded

LEMMA TrialsInOrderStep ==
  ASSUME DirectShape, TrialsInOrder, HandleOwned, DirectNext
  PROVE  TrialsInOrder'
<1>1. CASE OpeningActs
  <2>1. /\ Opening /\ todo # <<>> /\ src = "none" /\ todo \in Trials
        /\ Trying \in Registry /\ Tail(todo) \in AutoRest
        /\ todo \in AutoRest => Trying \in {"soapy", "hackrf_transfer"}
    <3>1. Opening
      BY <1>1 DEF OpeningActs, ProbeFails, ProbeOk, OpenDevice, Configure, StartStream,
                  ConstructorFails
    <3> QED  BY <3>1, TrialsFacts DEF Opening, Trying, TrialsInOrder
  <2>2. AutoRest \subseteq Trials
    BY DEF Trials
  <2>3. CASE ProbeFails \/ ConstructorFails
    <3>1. /\ todo' = Tail(todo) /\ step' = "probe"
          /\ src' = IF todo' = <<>> THEN "error" ELSE "none"
      BY <2>3 DEF ProbeFails, ConstructorFails, SkipTo
    <3>2. src' = "none" <=> todo' # <<>>
      BY <3>1
    <3> QED  BY <2>1, <2>2, <3>1, <3>2 DEF TrialsInOrder
  <2>4. CASE ProbeOk \/ OpenDevice \/ Configure
    <3>1. todo' = todo /\ src' = src
      BY <2>4 DEF ProbeOk, OpenDevice, Configure
    <3>2. leaked' = leaked
      BY Zenon, <2>4 DEF ProbeOk, OpenDevice, Configure
    <3>3. step' = "configure" => Trying # "hackrf_transfer"
      BY <2>4 DEF ProbeOk, OpenDevice, Configure
    <3> QED  BY <3>1, <3>2, <3>3 DEF TrialsInOrder, Trying
  <2>5. CASE StartStream
    <3>1. todo' = <<>> /\ src' = Trying
      BY <2>5 DEF StartStream
    <3>2. src' # "none"
      BY <2>1, <3>1 DEF Registry, Threaded
    <3> QED  BY <3>1, <3>2 DEF TrialsInOrder, AutoRest, Trials
  <2> QED  BY <1>1, <2>3, <2>4, <2>5 DEF OpeningActs
<1>2. CASE ThreadActs \/ TuneActs \/ WindowActs
  BY <1>2, OthersKeepHandle DEF TrialsInOrder, Trying
<1>3. CASE CloseActs
  BY <1>3, CloseKeepsTrials DEF TrialsInOrder, Trying
<1> QED  BY <1>1, <1>2, <1>3, DirectCases

LEMMA HandleOwnedStep ==
  ASSUME DirectShape, TrialsInOrder, HandleOwned, DirectNext
  PROVE  HandleOwned'
<1>1. CASE OpeningActs
  <2>1. /\ src = "none" /\ todo # <<>> /\ Trying \in Registry
        /\ leaked => Trying \in {"soapy", "hackrf_transfer"}
        /\ step = "configure" => Trying # "hackrf_transfer"
    <3>1. Opening
      BY <1>1 DEF OpeningActs, ProbeFails, ProbeOk, OpenDevice, Configure, StartStream,
                  ConstructorFails
    <3> QED  BY <3>1, TrialsFacts DEF Opening, Trying, TrialsInOrder
  <2>2. /\ leaked => held = "libhackrf"
        /\ ~leaked => IF step \in {"configure", "start"} /\ Trying # "hackrf_transfer"
                      THEN held = Trying ELSE held \in {"none", Trying}
        /\ ~leaked /\ step \in {"probe", "open"} => held = "none"
        /\ step \in {"configure", "start"} /\ Trying # "hackrf_transfer" => ~leaked
    BY <2>1 DEF HandleOwned, Registry, Threaded
  <2>3. CASE ProbeFails
    <3>1. leaked' = leaked
      BY Zenon, <2>3 DEF ProbeFails
    <3>2. held' = held /\ step' = "probe" /\ src' \in {"none", "error"} /\ step = "probe"
      BY <2>3 DEF ProbeFails, SkipTo
    <3> QED  BY <2>2, <3>1, <3>2 DEF HandleOwned, Threaded
  <2>4. CASE ProbeOk
    <3>1. leaked' = leaked
      BY Zenon, <2>4 DEF ProbeOk
    <3>2. held' = held /\ step' = "open" /\ src' = "none" /\ step = "probe"
      BY <2>1, <2>4 DEF ProbeOk
    <3> QED  BY <2>2, <3>1, <3>2 DEF HandleOwned, Threaded
  <2>5. CASE OpenDevice
    <3>1. leaked' = leaked
      BY Zenon, <2>5 DEF OpenDevice
    <3>2. todo' = todo /\ src' = "none" /\ step = "open" /\ CanOpen(Trying)
      BY <2>1, <2>5 DEF OpenDevice
    <3>3. CASE Trying = "hackrf_transfer"
      <4>1. held' = held /\ Trying' = Trying
        BY <2>5, <3>2, <3>3 DEF OpenDevice, Trying
      <4> QED  BY <2>2, <3>1, <3>2, <3>3, <4>1 DEF HandleOwned, Threaded
    <3>4. CASE Trying # "hackrf_transfer"
      <4>1. held' = Trying /\ Trying' = Trying /\ step' = "configure"
        BY <2>5, <3>2, <3>4 DEF OpenDevice, Trying
      <4>2. ~leaked
        BY <2>1, <2>2, <3>2, <3>4 DEF CanOpen, IsHackRF
      <4> QED  BY <3>1, <3>2, <4>1, <4>2 DEF HandleOwned, Threaded
    <3> QED  BY <3>3, <3>4
  <2>6. CASE Configure
    <3>1. leaked' = leaked
      BY Zenon, <2>6 DEF Configure
    <3>2. /\ held' = held /\ src' = "none" /\ step = "configure" /\ step' = "start"
          /\ Trying' = Trying
      BY <2>1, <2>6 DEF Configure, Trying
    <3> QED  BY <2>1, <2>2, <3>1, <3>2 DEF HandleOwned, Threaded
  <2>7. CASE StartStream
    <3>1. leaked' = leaked
      BY Zenon, <2>7 DEF StartStream
    <3>2. held' = held /\ src' = Trying /\ step = "start"
      BY <2>7 DEF StartStream
    <3>3. CASE Trying = "hackrf_transfer"
      <4>1. ~leaked => held \in {"none", Trying}
        BY <2>2
      <4> QED  BY <2>2, <3>1, <3>2, <3>3, <4>1 DEF HandleOwned, Threaded
    <3>4. CASE Trying # "hackrf_transfer"
      <4>1. held = Trying /\ ~leaked
        BY <2>2, <3>2, <3>4
      <4>2. src' # "none"
        BY <2>1, <3>2 DEF Registry, Threaded
      <4> QED  BY <3>1, <3>2, <4>1, <4>2 DEF HandleOwned
    <3> QED  BY <3>3, <3>4
  <2>8. CASE ConstructorFails
    <3>1. leaked' <=> leaked \/ Leaks
      BY Zenon, <2>8 DEF ConstructorFails
    <3>2. /\ Trying # "hackrf_transfer" /\ step # "probe" /\ step' = "probe"
          /\ held' = (IF step = "open" \/ Leaks THEN held ELSE "none")
          /\ src' \in {"none", "error"}
      BY <2>8 DEF ConstructorFails, SkipTo
    <3>3. step \in {"open", "configure", "start"}
      BY <3>2 DEF DirectShape
    <3>4. CASE Leaks
      <4>1. Trying = "libhackrf" /\ step \in {"configure", "start"}
        BY <3>4 DEF Leaks
      <4>2. held = "libhackrf"
        BY <2>2, <4>1
      <4> QED  BY <3>1, <3>2, <3>4, <4>2 DEF HandleOwned, Threaded
    <3>5. CASE ~Leaks /\ step = "open"
      BY <2>2, <3>1, <3>2, <3>5 DEF HandleOwned, Threaded
    <3>6. CASE ~Leaks /\ step \in {"configure", "start"}
      BY <2>2, <3>1, <3>2, <3>6 DEF HandleOwned, Threaded
    <3> QED  BY <3>3, <3>4, <3>5, <3>6
  <2> QED  BY <1>1, <2>3, <2>4, <2>5, <2>6, <2>7, <2>8 DEF OpeningActs
<1>2. CASE ThreadActs \/ TuneActs \/ WindowActs
  BY <1>2, OthersKeepHandle DEF HandleOwned, Trying
<1>3. CASE CloseActs
  <2>1. /\ leaked' = leaked /\ src \notin {"none", "error", "closed"}
        /\ src' \in {"closing", "closed"}
    BY <1>3, CloseKeepsTrials
  <2>2. /\ leaked => held = "libhackrf"
        /\ \/ held' = held /\ src' = "closing"
           \/ held' = (IF leaked THEN held ELSE "none")
    <3>1. leaked => held = "libhackrf"
      BY DEF HandleOwned
    <3>2. CASE CloseBegins
      BY <3>1, <3>2 DEF CloseBegins
    <3>3. CASE CloseHackRF
      BY <3>1, <3>3 DEF CloseHackRF
    <3>4. CASE CloseIio
      BY <3>1, <3>4 DEF CloseIio
    <3> QED  BY <1>3, <3>2, <3>3, <3>4 DEF CloseActs
  <2> QED  BY <2>1, <2>2 DEF HandleOwned, Threaded
<1> QED  BY <1>1, <1>2, <1>3, DirectCases

LEMMA ThreadHasSourceStep ==
  ASSUME DirectShape, TrialsInOrder, HandleOwned, ThreadHasSource, NotStarted, DirectNext
  PROVE  ThreadHasSource'
<1>1. CASE OpeningActs
  <2>1. src = "none" /\ rx = "off" /\ Trying \in Registry
    <3>1. Opening
      BY <1>1 DEF OpeningActs, ProbeFails, ProbeOk, OpenDevice, Configure, StartStream,
                  ConstructorFails
    <3> QED  BY <3>1, TrialsFacts DEF Opening, Trying, TrialsInOrder, NotStarted
  <2>2. latePush' = latePush
    BY Zenon, <1>1 DEF OpeningActs, ProbeFails, ProbeOk, OpenDevice, Configure, StartStream,
                       ConstructorFails
  <2>3. CASE ~StartStream
    <3>1. rx' = rx /\ src' \in {"none", "error"}
      BY <1>1, <2>1, <2>3 DEF OpeningActs, ProbeFails, ProbeOk, OpenDevice, Configure,
                              ConstructorFails, SkipTo
    <3> QED  BY <2>1, <2>2, <3>1 DEF ThreadHasSource
  <2>4. CASE StartStream
    <3>1. /\ src' = Trying
          /\ rx' = CASE Trying = "libhackrf"  -> "wait"
                     [] Trying = "antsdr_iio" -> "open"
                     [] OTHER                 -> "off"
      BY <2>4 DEF StartStream
    <3>2. src' # "closed" /\ (rx' # "off" => src' \in Threaded)
      BY <2>1, <3>1 DEF Registry, Threaded
    <3> QED  BY <2>2, <3>2 DEF ThreadHasSource
  <2> QED  BY <2>3, <2>4
<1>2. CASE ThreadActs
  <2>1. src' = src /\ held' = held
    BY <1>2, OthersKeepHandle
  <2>2. rx # "off" /\ src \in Threaded \cup {"closing", "closed"}
    <3>1. rx # "off"
      BY <1>2 DEF ThreadActs, RadioFills, OpenBuffer, OpenBufferFails, Refill, RunGoesOn,
                  RunStops, DeviceLost, LabelChunk, Push
    <3> QED  BY <3>1 DEF ThreadHasSource
  <2>3. latePush' <=> latePush \/ (rx = "push" /\ src = "closed")
    <3>1. CASE Push
      <4>1. latePush' <=> latePush \/ src = "closed"
        BY Zenon, <3>1 DEF Push
      <4>2. rx = "push"
        BY <3>1 DEF Push
      <4> QED  BY <4>1, <4>2
    <3>2. CASE ~Push
      <4>1. latePush' = latePush
        BY Zenon, <1>2, <3>2 DEF ThreadActs, RadioFills, OpenBuffer, OpenBufferFails, Refill,
                                 RunGoesOn, RunStops, DeviceLost, LabelChunk
      <4>2. ~(rx = "push" /\ src = "closed")
        BY DEF ThreadHasSource
      <4> QED  BY <4>1, <4>2
    <3> QED  BY <3>1, <3>2
  <2>4. ~latePush'
    BY <2>3 DEF ThreadHasSource
  <2>5. ASSUME src = "closed"
        PROVE  /\ rx' \in {"off", "open", "loop", "wait", "dead"}
               /\ rx' \in {"open", "loop", "wait"} => held = "none"
               /\ rx' = "wait" => ~buffer'
    <3>1. /\ rx \in {"open", "loop", "wait", "dead"}
          /\ rx \in {"open", "loop", "wait"} => held = "none"
          /\ rx = "wait" => ~buffer
      BY <2>2, <2>5 DEF ThreadHasSource
    <3>2. CASE OpenBuffer
      BY <3>1, <3>2 DEF OpenBuffer
    <3>3. CASE OpenBufferFails \/ RunStops \/ DeviceLost
      BY <3>1, <3>3 DEF OpenBufferFails, RunStops, DeviceLost, RunEnds
    <3>4. CASE Refill
      <4>1. rx = "wait" /\ held = "none" /\ ~buffer
        BY <3>1, <3>4 DEF Refill
      <4> QED  BY <3>4, <4>1 DEF Refill, RunEnds
    <3>5. CASE RadioFills
      <4>1. held \in Threaded /\ rx' = rx
        BY <3>5 DEF RadioFills
      <4>2. buffer' = buffer
        BY Zenon, <3>5 DEF RadioFills
      <4> QED  BY <3>1, <4>1, <4>2
    <3>6. CASE RunGoesOn \/ LabelChunk \/ Push
      BY <2>5, <3>1, <3>6 DEF RunGoesOn, LabelChunk, Push
    <3> QED  BY <1>2, <3>2, <3>3, <3>4, <3>5, <3>6 DEF ThreadActs
  <2> QED  BY <2>1, <2>2, <2>4, <2>5 DEF ThreadHasSource
<1>3. CASE TuneActs \/ WindowActs
  <2>1. src' = src /\ held' = held
    BY <1>3, OthersKeepHandle
  <2>2. rx' = rx
    BY <1>3 DEF TuneActs, TuneBegins, TuneRadio, TuneRefused, TuneLabel, Flush,
                WindowActs, ReadWindow, WindowsEnd, TransferFails
  <2>3. buffer' = buffer /\ latePush' = latePush
    <3>1. CASE TuneActs
      BY Zenon, <3>1 DEF TuneActs, TuneBegins, TuneRadio, TuneRefused, TuneLabel, Flush
    <3>2. CASE WindowActs
      BY Zenon, <3>2 DEF WindowActs, ReadWindow, WindowsEnd, TransferFails
    <3> QED  BY <1>3, <3>1, <3>2
  <2> QED  BY <2>1, <2>2, <2>3 DEF ThreadHasSource
<1>4. CASE CloseActs
  <2>1. latePush' = latePush
    BY Zenon, <1>4 DEF CloseActs, CloseBegins, CloseHackRF, CloseIio
  <2>2. CASE CloseBegins
    <3>1. src' = "closing"
      BY <2>2 DEF CloseBegins
    <3> QED  BY <2>1, <3>1 DEF ThreadHasSource
  <2>3. CASE CloseHackRF
    <3>1. src' = "closed" /\ rx' \in {"off", "dead"}
      BY <2>3 DEF CloseHackRF
    <3> QED  BY <2>1, <3>1 DEF ThreadHasSource
  <2>4. CASE CloseIio
    <3>1. src' = "closed" /\ rx' = rx /\ rx \in {"open", "wait", "dead"} /\ held' = "none"
      BY <2>4 DEF CloseIio
    <3>2. ~buffer'
      BY Zenon, <2>4 DEF CloseIio
    <3> QED  BY <2>1, <3>1, <3>2 DEF ThreadHasSource
  <2> QED  BY <1>4, <2>2, <2>3, <2>4 DEF CloseActs
<1> QED  BY <1>1, <1>2, <1>3, <1>4, DirectCases

LEMMA NotStartedStep ==
  ASSUME DirectShape, TrialsInOrder, NotStarted, ThreadHasSource, TuneOrder, DirectNext
  PROVE  NotStarted'
<1>1. CASE OpeningActs
  <2>1. src = "none" /\ Trying \in Registry
    <3>1. Opening
      BY <1>1 DEF OpeningActs, ProbeFails, ProbeOk, OpenDevice, Configure, StartStream,
                  ConstructorFails
    <3> QED  BY <3>1, TrialsFacts DEF Opening, Trying, TrialsInOrder
  <2>2. CASE StartStream
    <3>1. src' = Trying
      BY <2>2 DEF StartStream
    <3>2. src' # "none"
      BY <2>1, <3>1 DEF Registry, Threaded
    <3> QED  BY <3>2 DEF NotStarted
  <2>3. CASE ~StartStream
    <3>1. UNCHANGED <<rx, flight, asm, dirty, hw, centre, tstep>>
      BY <1>1, <2>3 DEF OpeningActs, ProbeFails, ProbeOk, OpenDevice, Configure,
                        ConstructorFails
    <3> QED  BY <2>1, <3>1 DEF NotStarted
  <2> QED  BY <2>2, <2>3
<1>2. CASE ThreadActs \/ TuneActs \/ WindowActs
  <2>1. src' = src
    BY <1>2, OthersKeepHandle
  <2>2. src # "none"
    <3>1. CASE ThreadActs
      <4>1. rx # "off"
        BY <3>1 DEF ThreadActs, RadioFills, OpenBuffer, OpenBufferFails, Refill, RunGoesOn,
                    RunStops, DeviceLost, LabelChunk, Push
      <4> QED  BY <4>1 DEF NotStarted
    <3>2. CASE TuneActs
      <4>1. src \in Threaded \/ tstep # "idle"
        BY <3>2 DEF TuneActs, TuneBegins, TuneRadio, TuneRefused, TuneLabel, Flush, Live
      <4> QED  BY <4>1 DEF NotStarted, Threaded
    <3>3. CASE WindowActs
      BY <3>3 DEF WindowActs, ReadWindow, WindowsEnd, TransferFails, Live, Threaded
    <3> QED  BY <1>2, <3>1, <3>2, <3>3
  <2> QED  BY <2>1, <2>2 DEF NotStarted
<1>3. CASE CloseActs
  BY <1>3, CloseKeepsTrials DEF NotStarted
<1> QED  BY <1>1, <1>2, <1>3, DirectCases

LEMMA TuneOrderStep ==
  ASSUME DirectFlags, DirectShape, HandleOwned, NotStarted, TuneOrder, DirectNext
  PROVE  TuneOrder'
<1> USE DirectSizes
<1>0. hw \in 0 .. MaxRetunes /\ centre \in 0 .. MaxRetunes
  BY DEF DirectShape
<1>1. CASE OpeningActs
  <2>1. UNCHANGED <<hw, centre, tstep>> /\ src = "none"
    BY <1>1 DEF OpeningActs, ProbeFails, ProbeOk, OpenDevice, Configure, StartStream,
                ConstructorFails, Opening
  <2> QED  BY <2>1 DEF TuneOrder, NotStarted
<1>2. CASE ThreadActs \/ WindowActs
  <2>1. src' = src
    BY <1>2, OthersKeepHandle
  <2>2. UNCHANGED <<hw, centre, tstep>>
    BY <1>2 DEF ThreadActs, RadioFills, OpenBuffer, OpenBufferFails, Refill, RunGoesOn,
                RunStops, DeviceLost, LabelChunk, Push, WindowActs, ReadWindow, WindowsEnd,
                TransferFails
  <2>3. mismatch' = mismatch /\ tuneFailed' = tuneFailed
    <3>1. CASE ThreadActs
      BY Zenon, <3>1 DEF ThreadActs, RadioFills, OpenBuffer, OpenBufferFails, Refill,
                         RunGoesOn, RunStops, DeviceLost, LabelChunk, Push
    <3>2. CASE WindowActs
      BY Zenon, <3>2 DEF WindowActs, ReadWindow, WindowsEnd, TransferFails
    <3> QED  BY <1>2, <3>1, <3>2
  <2>4. tstep # "idle" => dirty' = dirty
    BY <1>2 DEF ThreadActs, RadioFills, OpenBuffer, OpenBufferFails, Refill, RunGoesOn,
                RunStops, DeviceLost, LabelChunk, Push, WindowActs, ReadWindow, WindowsEnd,
                TransferFails, Live
  <2> QED  BY <2>1, <2>2, <2>3, <2>4 DEF TuneOrder
<1>3. CASE TuneBegins
  <2>1. /\ src \in Threaded /\ centre < MaxRetunes /\ tstep' = FirstStep /\ dirty' = 0
        /\ UNCHANGED <<src, hw, centre>> /\ tstep = "idle"
    BY <1>3 DEF TuneBegins, Live
  <2> QED  BY <2>1 DEF TuneOrder, FirstStep, Threaded
<1>4. CASE TuneRadio
  <2>1. /\ tstep = "freq" /\ tstep' = AfterStep("freq") /\ UNCHANGED <<src, centre, dirty>>
    BY <1>4 DEF TuneRadio
  <2>2. src \in Threaded /\ dirty = 0
    BY <2>1 DEF TuneOrder
  <2>3. CASE src = "libhackrf"
    <3>1. hw' = centre + 1 /\ tstep' = "centre" /\ centre < MaxRetunes
      BY <1>4, <2>1, <2>3 DEF TuneRadio, AfterStep, FirstStep, TuneOrder
    <3> QED  BY <2>1, <2>2, <2>3, <3>1 DEF TuneOrder
  <2>4. CASE src # "libhackrf"
    <3>1. tstep' = "flush"
      BY <2>1, <2>4 DEF AfterStep, FirstStep
    <3>2. PICK obeys \in BOOLEAN, readable \in BOOLEAN :
             /\ hw' = IF obeys THEN centre ELSE hw
             /\ mismatch' = Mismatch(readable, obeys)
      BY <1>4, <2>4 DEF TuneRadio
    <3>3. ~obeys => mismatch'
      BY Zenon, <3>2 DEF Mismatch
    <3>4. hw' = centre' \/ mismatch'
      BY <2>1, <3>2, <3>3
    <3> QED  BY <2>1, <2>2, <3>1, <3>4 DEF TuneOrder
  <2> QED  BY <2>3, <2>4
<1>5. CASE TuneRefused
  <2>1. /\ tstep' = "idle" /\ UNCHANGED <<src, centre, hw, dirty>>
    BY <1>5 DEF TuneRefused
  <2>2. tuneFailed'
    BY Zenon, <1>5 DEF TuneRefused
  <2> QED  BY <2>1, <2>2 DEF TuneOrder
<1>6. CASE TuneLabel
  <2>1. /\ tstep = "centre" /\ tstep' = AfterStep("centre") /\ UNCHANGED <<src, hw, dirty>>
        /\ centre' = centre + 1
    BY <1>6 DEF TuneLabel
  <2>2. src \in Threaded /\ dirty = 0 /\ (src = "libhackrf" => hw = centre + 1)
    BY <2>1 DEF TuneOrder
  <2>3. CASE src = "libhackrf"
    <3>1. tstep' = "flush"
      BY <2>1, <2>3 DEF AfterStep, FirstStep
    <3> QED  BY <2>1, <2>2, <2>3, <3>1 DEF TuneOrder
  <2>4. CASE src # "libhackrf"
    <3>1. tstep' = "freq"
      BY <2>1, <2>4 DEF AfterStep, FirstStep
    <3> QED  BY <2>1, <2>2, <2>4, <3>1 DEF TuneOrder
  <2> QED  BY <2>3, <2>4
<1>7. CASE Flush
  <2>1. /\ tstep = "flush" /\ tstep' = "idle" /\ UNCHANGED <<src, centre, hw, dirty>>
    BY <1>7 DEF Flush
  <2>2. mismatch' = mismatch /\ tuneFailed' = tuneFailed
    BY Zenon, <1>7 DEF Flush
  <2> QED  BY <2>1, <2>2 DEF TuneOrder
<1>8. CASE CloseActs
  <2>1. tstep = "idle"
    <3>1. src \notin Threaded \/ tstep = "idle"
      BY <1>8 DEF CloseActs, CloseBegins, CloseHackRF, CloseIio, Threaded
    <3> QED  BY <3>1 DEF TuneOrder
  <2>2. UNCHANGED <<hw, centre, tstep>>
    BY <1>8 DEF CloseActs, CloseBegins, CloseHackRF, CloseIio
  <2>3. mismatch' = mismatch /\ tuneFailed' = tuneFailed
    BY Zenon, <1>8 DEF CloseActs, CloseBegins, CloseHackRF, CloseIio
  <2> QED  BY <2>1, <2>2, <2>3 DEF TuneOrder
<1> QED  BY <1>1, <1>2, <1>3, <1>4, <1>5, <1>6, <1>7, <1>8, DirectCases DEF TuneActs

(* The three places a chunk can be, each with what it holds of wrong ones. *)
HandCount == IF WrongInHand THEN 1 ELSE 0

LEMMA CountsAreNumbers ==
  ASSUME DirectShape
  PROVE  /\ HitCount(asm, WrongChunk) \in Nat
         /\ HandCount \in {0, 1}
         /\ HitCount(flight, WrongFreq) \in Nat /\ HitCount(flight, WrongFreq) <= InFlight
         /\ dirty \in Nat
<1>1. Len(asm) \in Nat /\ Len(flight) \in Nat /\ Len(flight) <= InFlight /\ InFlight \in Nat
  BY LenProperties, DirectSizes DEF DirectShape
<1>2. asm \in Seq(Chunk) /\ flight \in Seq(0 .. MaxRetunes) /\ dirty \in Nat
  BY DEF DirectShape
<1>3. HitCount(asm, WrongChunk) \in 0 .. Len(asm)
  BY <1>2, HitsFinite
<1>4. HitCount(flight, WrongFreq) \in 0 .. Len(flight)
  BY <1>2, HitsFinite
<1> QED  BY <1>1, <1>2, <1>3, <1>4 DEF HandCount

CountsTyped ==
  /\ HitCount(asm, WrongChunk) \in Nat
  /\ HandCount \in {0, 1} /\ dirty \in Nat
  /\ HitCount(flight, WrongFreq) \in Nat
  /\ HitCount(flight, WrongFreq) <= InFlight

LEMMA CountsAreNumbersNext == DirectShape' => CountsTyped'
<1>1. DirectShape => CountsTyped
  BY CountsAreNumbers DEF CountsTyped
<1> QED  BY <1>1, PTL

(* A step that does not touch the tune adds no wrong chunk: the radio fills *)
(* and the thread labels with the present frequency.                       *)
LEMMA NoMoreWrong ==
  ASSUME DirectShape, TuneOrder, Clean, ThreadActs \/ WindowActs
  PROVE  dirty' + OnItsWay' <= dirty + OnItsWay
<1> DEFINE a == HitCount(asm, WrongChunk)
           f == HitCount(flight, WrongFreq)
           a1 == HitCount(asm', WrongChunk)
           f1 == HitCount(flight', WrongFreq)
           h == HandCount
           h1 == HandCount'
           d1 == dirty'
<1>1. a \in Nat /\ f \in Nat /\ h \in {0, 1} /\ dirty \in Nat
  BY CountsAreNumbers
<1>2. /\ asm \in Seq(Chunk) /\ flight \in Seq(0 .. MaxRetunes) /\ hand \in Chunk
      /\ hw = centre /\ centre \in 0 .. MaxRetunes
  BY DEF DirectShape, TuneOrder, Clean
<1>3. UNCHANGED centre
  BY DEF ThreadActs, RadioFills, OpenBuffer, OpenBufferFails, Refill, RunGoesOn,
         RunStops, DeviceLost, LabelChunk, Push, WindowActs, ReadWindow, WindowsEnd,
         TransferFails
<1>4. /\ OnItsWay = a + h + f /\ OnItsWay' = a1 + h1 + f1
  <2>1. WrongChunk' = WrongChunk /\ WrongFreq' = WrongFreq
    BY <1>3 DEF WrongChunk, WrongFreq, Current
  <2> QED  BY <2>1 DEF OnItsWay, HandCount
<1>5. WrongInHand' <=> \/ rx' = "label" /\ hand'.real # centre
                       \/ rx' = "push" /\ ~(hand'.real = centre /\ hand'.label = centre)
  BY <1>3 DEF WrongInHand, Current
<1> SUFFICES d1 + (a1 + h1 + f1) <= dirty + (a + h + f)
  BY <1>4
<1>6. CASE RadioFills
  <2>1. flight' = Append(flight, centre) /\ UNCHANGED <<rx, hand, asm, dirty>>
    BY <1>2, <1>6 DEF RadioFills
  <2>2. f1 = f + (IF centre \in WrongFreq THEN 1 ELSE 0)
    <3>1. flight \in Seq(0 .. MaxRetunes) /\ centre \in 0 .. MaxRetunes
      BY <1>2
    <3>2. HitCount(Append(flight, centre), WrongFreq)
            = HitCount(flight, WrongFreq) + (IF centre \in WrongFreq THEN 1 ELSE 0)
      BY <3>1, HitsOfAppend
    <3> QED  BY <2>1, <3>2
  <2>3. f1 = f
    BY <1>1, <2>2 DEF WrongFreq
  <2>4. h1 = h
    BY <1>3, <2>1 DEF HandCount, WrongInHand, Current
  <2>5. a1 = a /\ d1 = dirty
    BY <2>1
  <2> HIDE DEF a, f, a1, f1, h, h1, d1
  <2> QED  BY <1>1, <2>3, <2>4, <2>5
<1>7. CASE Refill
  <2>1. /\ rx = "wait" /\ flight # <<>> /\ flight' = Tail(flight) /\ UNCHANGED <<asm, dirty>>
        /\ \/ hand' = [NoHand EXCEPT !.real = Head(flight)] /\ rx' = "label"
           \/ rx' = "dead"
    BY <1>7 DEF Refill, RunEnds
  <2>2. f = f1 + (IF Head(flight) \in WrongFreq THEN 1 ELSE 0)
    BY <1>2, <2>1, HitsOfTail
  <2>3. Head(flight) \in 0 .. MaxRetunes
    BY <1>2, <2>1, HeadTailProperties
  <2>4. h = 0
    BY <2>1 DEF HandCount, WrongInHand
  <2>5. h1 <= (IF Head(flight) \in WrongFreq THEN 1 ELSE 0)
    <3>1. CASE rx' = "dead"
      BY <3>1 DEF HandCount, WrongInHand
    <3>2. CASE hand' = [NoHand EXCEPT !.real = Head(flight)] /\ rx' = "label"
      <4>1. hand'.real = Head(flight)
        BY <3>2 DEF NoHand
      <4>2. WrongInHand' <=> Head(flight) # centre
        BY <1>5, <3>2, <4>1
      <4> QED  BY <2>3, <4>2 DEF HandCount, WrongFreq
    <3> QED  BY <2>1, <3>1, <3>2
  <2>6. f1 \in Nat
    <3>1. Tail(flight) \in Seq(0 .. MaxRetunes)
      BY <1>2, <2>1, HeadTailProperties
    <3>2. Len(Tail(flight)) \in Nat /\ f1 \in 0 .. Len(Tail(flight))
      BY <2>1, <3>1, LenProperties, HitsFinite
    <3> QED  BY <3>2
  <2>7. a1 = a /\ d1 = dirty /\ h1 \in {0, 1}
    BY <2>1 DEF HandCount
  <2> HIDE DEF a, f, a1, f1, h, h1, d1
  <2> QED  BY <1>1, <2>2, <2>4, <2>5, <2>6, <2>7
<1>8. CASE LabelChunk
  <2>1. /\ rx = "label" /\ hand' = [hand EXCEPT !.label = centre] /\ rx' = "push"
        /\ UNCHANGED <<flight, asm, dirty>>
    BY <1>8 DEF LabelChunk
  <2>2. hand'.real = hand.real /\ hand'.label = centre
    BY <1>2, <2>1 DEF Chunk
  <2>3. WrongInHand' <=> WrongInHand
    BY <1>5, <2>1, <2>2 DEF WrongInHand
  <2>4. h1 = h /\ a1 = a /\ f1 = f /\ d1 = dirty
    BY <2>1, <2>3 DEF HandCount
  <2> HIDE DEF a, f, a1, f1, h, h1, d1
  <2> QED  BY <1>1, <2>4
<1>9. CASE Push
  <2> DEFINE kept == IF Len(asm) = AsmMax THEN Tail(asm) ELSE asm
             k == HitCount(kept, WrongChunk)
  <2>1. /\ rx = "push" /\ asm' = Append(kept, hand) /\ rx' \in {"wait", "loop"}
        /\ UNCHANGED <<flight, dirty>>
    BY <1>9 DEF Push, Loop
  <2>2. kept \in Seq(Chunk) /\ k \in Nat /\ k <= a
    <3>1. CASE Len(asm) = AsmMax
      <4>1. asm # <<>>
        BY <3>1, EmptySeq, DirectSizes
      <4>2. Tail(asm) \in Seq(Chunk)
        BY <1>2, <4>1, HeadTailProperties
      <4>3. a = HitCount(Tail(asm), WrongChunk) + (IF Head(asm) \in WrongChunk THEN 1 ELSE 0)
        BY <1>2, <4>1, HitsOfTail
      <4>4. Len(Tail(asm)) \in Nat /\ HitCount(Tail(asm), WrongChunk) \in 0 .. Len(Tail(asm))
        BY <4>2, LenProperties, HitsFinite
      <4>5. kept = Tail(asm)
        BY <3>1
      <4> HIDE DEF a, kept
      <4>6. k = HitCount(Tail(asm), WrongChunk)
        BY <4>5
      <4> HIDE DEF k
      <4> QED  BY <1>1, <4>2, <4>3, <4>4, <4>5, <4>6
    <3>2. CASE Len(asm) # AsmMax
      BY <1>1, <1>2, <3>2
    <3> QED  BY <3>1, <3>2
  <2> HIDE DEF kept
  <2>3. a1 = k + (IF hand \in WrongChunk THEN 1 ELSE 0)
    BY <1>2, <2>1, <2>2, HitsOfAppend
  <2>4. h = (IF hand \in WrongChunk THEN 1 ELSE 0)
    BY <1>2, <2>1 DEF HandCount, WrongInHand, WrongChunk
  <2>5. h1 = 0
    BY <2>1 DEF HandCount, WrongInHand
  <2>6. f1 = f /\ d1 = dirty
    BY <2>1
  <2> HIDE DEF a, f, a1, f1, h, h1, d1, k
  <2> QED  BY <1>1, <2>2, <2>3, <2>4, <2>5, <2>6
<1>10. CASE ReadWindow
  <2>1. /\ asm # <<>> /\ asm' = Tail(asm) /\ UNCHANGED <<flight, rx, hand>>
        /\ dirty' = IF Current(Head(asm)) \/ dirty > InFlight + 1 THEN dirty ELSE dirty + 1
    BY <1>10 DEF ReadWindow
  <2>2. a = a1 + (IF Head(asm) \in WrongChunk THEN 1 ELSE 0)
    BY <1>2, <2>1, HitsOfTail
  <2>3. Head(asm) \in Chunk /\ Tail(asm) \in Seq(Chunk)
    BY <1>2, <2>1, HeadTailProperties
  <2>4. d1 <= dirty + (IF Head(asm) \in WrongChunk THEN 1 ELSE 0) /\ d1 \in Nat
    <3>1. Head(asm) \in WrongChunk <=> ~Current(Head(asm))
      BY <2>3 DEF WrongChunk
    <3> HIDE DEF d1
    <3>2. d1 = IF Current(Head(asm)) \/ dirty > InFlight + 1 THEN dirty ELSE dirty + 1
      BY <2>1 DEF d1
    <3> QED  BY <1>1, <3>1, <3>2
  <2>5. a1 \in Nat
    <3>1. Len(Tail(asm)) \in Nat /\ a1 \in 0 .. Len(Tail(asm))
      BY <2>1, <2>3, LenProperties, HitsFinite
    <3> QED  BY <3>1
  <2>6. h1 = h /\ f1 = f
    BY <1>3, <2>1 DEF HandCount, WrongInHand, Current
  <2> HIDE DEF a, f, a1, f1, h, h1, d1
  <2> QED  BY <1>1, <2>2, <2>4, <2>5, <2>6
<1>11. CASE \/ OpenBuffer \/ OpenBufferFails \/ RunGoesOn \/ RunStops \/ DeviceLost
            \/ WindowsEnd \/ TransferFails
  <2>1. /\ UNCHANGED <<flight, asm, hand, dirty>>
        /\ rx' = rx \/ (rx \notin {"label", "push"} /\ rx' \notin {"label", "push"})
    BY <1>11 DEF OpenBuffer, OpenBufferFails, RunGoesOn, RunStops, DeviceLost, RunEnds,
                 WindowsEnd, TransferFails
  <2>2. h1 = h /\ a1 = a /\ f1 = f /\ d1 = dirty
    BY <1>3, <2>1 DEF HandCount, WrongInHand, Current
  <2> HIDE DEF a, f, a1, f1, h, h1, d1
  <2> QED  BY <1>1, <2>2
<1> QED  BY <1>6, <1>7, <1>8, <1>9, <1>10, <1>11 DEF ThreadActs, WindowActs

LEMMA FewAreWrongStep ==
  ASSUME DirectFlags, DirectShape, TrialsInOrder, NotStarted, TuneOrder, FewAreWrong,
         DirectShape', DirectNext
  PROVE  FewAreWrong'
<1> USE DirectSizes
<1> SUFFICES ASSUME Clean' PROVE dirty' + OnItsWay' <= InFlight + 1
  BY DEF FewAreWrong
<1>1. /\ HitCount(asm', WrongChunk') \in Nat /\ HandCount' \in {0, 1} /\ dirty' \in Nat
      /\ HitCount(flight', WrongFreq') \in Nat /\ HitCount(flight', WrongFreq') <= InFlight
      /\ OnItsWay' = HitCount(asm', WrongChunk') + HandCount' + HitCount(flight', WrongFreq')
  <2>1. /\ HitCount(asm, WrongChunk)' \in Nat /\ HandCount' \in {0, 1} /\ dirty' \in Nat
        /\ HitCount(flight, WrongFreq)' \in Nat /\ HitCount(flight, WrongFreq)' <= InFlight
    BY CountsAreNumbersNext DEF CountsTyped
  <2> QED  BY <2>1 DEF OnItsWay, HandCount
<1>2. CASE OpeningActs
  <2>1. Trying \in Registry
    <3>1. Opening
      BY <1>2 DEF OpeningActs, ProbeFails, ProbeOk, OpenDevice, Configure, StartStream,
                  ConstructorFails
    <3> QED  BY <3>1, TrialsFacts DEF Opening, Trying, TrialsInOrder
  <2>2. src = "none" /\ src' \in Threaded
    BY <1>2 DEF OpeningActs, ProbeFails, ProbeOk, OpenDevice, Configure, StartStream,
                ConstructorFails, Opening, Clean
  <2>3. StartStream
    BY <1>2, <2>2 DEF OpeningActs, ProbeFails, ProbeOk, OpenDevice, Configure,
                      ConstructorFails, SkipTo, Threaded
  <2>4. asm' = <<>> /\ flight' = <<>> /\ dirty' = 0
    BY <2>2, <2>3 DEF StartStream, NotStarted
  <2>5. HitCount(asm', WrongChunk') = 0 /\ HitCount(flight', WrongFreq') = 0
    BY <2>4, HitsOfEmpty
  <2> QED  BY <1>1, <2>4, <2>5
<1>3. CASE ThreadActs \/ WindowActs
  <2>1. Clean
    <3>1. src' = src
      BY <1>3, OthersKeepHandle
    <3>2. tstep' = tstep
      BY <1>3 DEF ThreadActs, RadioFills, OpenBuffer, OpenBufferFails, Refill, RunGoesOn,
                  RunStops, DeviceLost, LabelChunk, Push, WindowActs, ReadWindow, WindowsEnd,
                  TransferFails
    <3>3. mismatch' = mismatch /\ tuneFailed' = tuneFailed
      <4>1. CASE ThreadActs
        BY Zenon, <4>1 DEF ThreadActs, RadioFills, OpenBuffer, OpenBufferFails, Refill,
                           RunGoesOn, RunStops, DeviceLost, LabelChunk, Push
      <4>2. CASE WindowActs
        BY Zenon, <4>2 DEF WindowActs, ReadWindow, WindowsEnd, TransferFails
      <4> QED  BY <1>3, <4>1, <4>2
    <3> QED  BY <3>1, <3>2, <3>3 DEF Clean
  <2>2. dirty' + OnItsWay' <= dirty + OnItsWay
    BY <1>3, <2>1, NoMoreWrong
  <2>3. dirty + OnItsWay <= InFlight + 1
    BY <2>1 DEF FewAreWrong
  <2>4. dirty \in Nat /\ OnItsWay \in Nat /\ OnItsWay' \in Nat
    BY <1>1, CountsAreNumbers DEF OnItsWay, HandCount
  <2> QED  BY <1>1, <2>2, <2>3, <2>4
<1>4. CASE Flush
  <2>1. asm' = <<>> /\ dirty' = 0
    BY <1>4 DEF Flush, TuneOrder
  <2>2. HitCount(asm', WrongChunk') = 0
    BY <2>1, HitsOfEmpty
  <2> QED  BY <1>1, <2>1, <2>2
<1>5. CASE TuneRefused
  <2>1. tuneFailed'
    BY Zenon, <1>5 DEF TuneRefused
  <2> QED  BY <2>1 DEF Clean
<1>6. CASE TuneBegins \/ TuneRadio \/ TuneLabel
  <2>1. tstep' # "idle"
    BY <1>6 DEF TuneBegins, TuneRadio, TuneLabel, FirstStep, AfterStep
  <2> QED  BY <2>1 DEF Clean
<1>7. CASE CloseActs
  <2>1. src' \notin Threaded
    BY <1>7, CloseKeepsTrials DEF Threaded
  <2> QED  BY <2>1 DEF Clean
<1> QED  BY <1>2, <1>3, <1>4, <1>5, <1>6, <1>7, DirectCases DEF TuneActs

-----------------------------------------------------------------------------
(* The theorems. *)

LEMMA DirectNextInv ==
  ASSUME DirectInv, [DirectNext]_direct
  PROVE  DirectInv'
<1>1. CASE DirectNext
  BY <1>1, DirectFlagsStep, DirectShapeStep, TrialsInOrderStep, HandleOwnedStep,
     ThreadHasSourceStep, NotStartedStep, TuneOrderStep, FewAreWrongStep DEF DirectInv
<1>2. CASE UNCHANGED direct
  <2>1. /\ UNCHANGED <<leaked, mismatch, tuneFailed, running, stopped, buffer, ended, latePush>>
        /\ UNCHANGED <<todo, step, src, held, hw, centre, tstep, flight, rx, hand, asm, dirty>>
    BY Zenon, <1>2
  <2>2. DirectFlags'
    BY Zenon, <2>1 DEF DirectInv, DirectFlags
  <2>3. DirectShape' /\ TrialsInOrder' /\ HandleOwned' /\ ThreadHasSource' /\ NotStarted' /\ TuneOrder'
    BY <2>1 DEF DirectInv, DirectShape, TrialsInOrder, HandleOwned, ThreadHasSource,
                NotStarted, TuneOrder, Trying
  <2>4. FewAreWrong'
    <3>1. WrongChunk' = WrongChunk /\ WrongFreq' = WrongFreq
      BY <2>1 DEF WrongChunk, WrongFreq, Current
    <3>2. WrongInHand' <=> WrongInHand
      BY <2>1 DEF WrongInHand, Current
    <3>3. Clean' <=> Clean
      BY <2>1 DEF Clean
    <3>4. OnItsWay' = OnItsWay
      BY <2>1, <3>1, <3>2 DEF OnItsWay
    <3> QED  BY <2>1, <3>3, <3>4 DEF DirectInv, FewAreWrong
  <2> QED  BY <2>2, <2>3, <2>4 DEF DirectInv
<1> QED  BY <1>1, <1>2

(* make_source, tune, close and recv_chunk keep ReceiversInv: who owns the  *)
(* radio at each step of an attempt, where chunks of an old frequency can   *)
(* still be, and where each sample of a USRP is.                           *)
THEOREM ReceiversInvHolds == Spec => []ReceiversInv
<1>1. Init => ReceiversInv
  BY UhdInitInv, DirectInitInv DEF Init, ReceiversInv
<1>2. ReceiversInv /\ [Next]_vars => ReceiversInv'
  <2> SUFFICES ASSUME ReceiversInv, [Next]_vars PROVE ReceiversInv'
    OBVIOUS
  <2>1. /\ who' = who
        /\ [DirectNext]_direct /\ [UhdNext]_uhdVars
    <3>1. CASE Next
      BY Zenon, <3>1 DEF Next
    <3>2. CASE UNCHANGED vars
      BY Zenon, <3>2 DEF vars
    <3> QED  BY <3>1, <3>2
  <2> QED  BY <2>1, UhdNextInv, DirectNextInv DEF ReceiversInv
<1> QED  BY <1>1, <1>2, PTL DEF Spec

LEMMA ReceiversTyped == ReceiversInv => TypeOK
<1> SUFFICES ASSUME ReceiversInv PROVE TypeOK
  OBVIOUS
<1>1. UhdTypeOK
  BY UhdInvTrue DEF ReceiversInv, ChunksTrue
<1>2. {leaked, mismatch, tuneFailed, running, stopped, buffer, ended, latePush} \subseteq BOOLEAN
  BY Zenon DEF ReceiversInv, DirectInv, DirectFlags
<1>3. {hw, centre} \subseteq 0 .. MaxRetunes
  BY DEF ReceiversInv, DirectInv, DirectShape
<1> QED  BY <1>1, <1>2, <1>3 DEF ReceiversInv, DirectInv, DirectShape, TypeOK

(* After a retune no more than InFlight + 1 chunks of another frequency, or *)
(* labelled with one, reach the windows.                                   *)
THEOREM FewChunksAreStale == Spec => []RetuneCleansUp
<1>1. ReceiversInv => RetuneCleansUp
  <2> SUFFICES ASSUME ReceiversInv PROVE RetuneCleansUp
    OBVIOUS
  <2>1. TypeOK
    BY ReceiversTyped
  <2>2. ASSUME tstep = "idle" /\ ~tuneFailed /\ ~mismatch /\ src \in Threaded
        PROVE  dirty + Cardinality({i \in DOMAIN asm : ~Current(asm[i])}) <= InFlight + 1
    <3>1. DirectShape /\ dirty + OnItsWay <= InFlight + 1
      BY <2>2 DEF ReceiversInv, DirectInv, FewAreWrong, Clean
    <3>2. {i \in DOMAIN asm : ~Current(asm[i])} = Hits(asm, WrongChunk)
      <4>1. DOMAIN asm = 1 .. Len(asm) /\ \A i \in 1 .. Len(asm) : asm[i] \in Chunk
        BY <3>1, LenProperties, ElementOfSeq DEF DirectShape
      <4> QED  BY <4>1 DEF Hits, WrongChunk
    <3>3. /\ HitCount(asm, WrongChunk) \in Nat /\ HandCount \in {0, 1}
          /\ HitCount(flight, WrongFreq) \in Nat /\ dirty \in Nat
      BY <3>1, CountsAreNumbers
    <3>4. OnItsWay = HitCount(asm, WrongChunk) + HandCount + HitCount(flight, WrongFreq)
      BY DEF OnItsWay, HandCount
    <3>5. dirty + HitCount(asm, WrongChunk) <= InFlight + 1
      BY <3>1, <3>3, <3>4, DirectSizes
    <3> QED  BY <3>2, <3>5 DEF HitCount
  <2> QED  BY <2>1, <2>2 DEF RetuneCleansUp
<1> QED  BY <1>1, ReceiversInvHolds, PTL

(* The radio is held by the source or by the constructor at work; close()   *)
(* lets go of it, and nothing is pushed after it.                          *)
THEOREM HandleHasOwner == Spec => []HandleIsTheSources
<1>1. ReceiversInv => HandleIsTheSources
  BY DEF ReceiversInv, DirectInv, HandleOwned, ThreadHasSource, HandleIsTheSources, Threaded
<1> QED  BY <1>1, ReceiversInvHolds, PTL

(* recv_chunk of the USRP discards nothing between packets, keeps the order *)
(* of the device's clock, and its gaps are exact but for losses around a    *)
(* tune.                                                                   *)
THEOREM NothingIsDiscarded == Spec => []ChunksTrue
<1>1. ReceiversInv => ChunksTrue
  BY UhdInvTrue DEF ReceiversInv
<1> QED  BY <1>1, ReceiversInvHolds, PTL
=============================================================================
