---------------------- MODULE AcquisitionStreamProofs ----------------------
(***************************************************************************)
(* Safety of the data path from the radio to the windows, for a ring of    *)
(* any size, any set of centre frequencies and of gaps, and a stream of    *)
(* any length.                                                             *)
(***************************************************************************)
EXTENDS AcquisitionStream, TLAPS
-----------------------------------------------------------------------------
(* The inductive invariant, in the order in which its parts are needed. *)

(* A chunk's place in the stream is its place in the ring's order and what *)
(* the producer had lost by then, which never decreases.                   *)
IndexTrue ==
  /\ next_sample_index = skipped + Len(log)
  /\ \A i \in 1 .. Len(log) :
       log[i].index = log[i].skipped + (i - 1) /\ log[i].skipped <= skipped
  /\ \A i, j \in 1 .. Len(log) : i <= j => log[i].skipped <= log[j].skipped
  /\ mpc \in {"label", "write"} => next_sample_index < MaxIndex
  /\ mpc = "write" => hdr.index = next_sample_index /\ hdr.skipped = skipped

(* The epochs and centres handed out, and what a chunk was received at. *)
CentresKnown ==
  /\ centre_at \in Seq(Centres)
  /\ centre_at[meta_epoch + 1] = center_freq_hz
  /\ hdr.epoch <= meta_epoch /\ hdr.centre = centre_at[hdr.epoch + 1]
  /\ \A i \in 1 .. Len(log) : log[i].epoch <= meta_epoch
TuneIsSeen ==
  /\ freq = hw
  /\ tpc = "idle" => hw = center_freq_hz
  /\ tpc = "tuned" => meta_epoch < MaxEpoch

(* What the device received after its last tune is of one frequency; it    *)
(* comes after the Held + 2 chunks that were in hand, waiting or being     *)
(* received at the tune.                                                   *)
StockIsFresh ==
  /\ \A j \in 1 .. Len(waiting) : taken + j > Held + 1 => waiting[j] = {hw}
  /\ taken + Len(waiting) > Held => filling = {hw}
  /\ mpc = "label" /\ taken > Held + 1 => cap = {hw}

(* As long as those last, the flag of the tune is pending, or a chunk that *)
(* has it was labelled since: no more than taken chunks before the last.   *)
Labelled == Len(log) + (IF mpc = "write" THEN 1 ELSE 0)
Flagged(p) == IF p <= Len(log) THEN log[p].flag ELSE hdr.flag
FlagWithin(d) == \E p \in 1 .. Labelled : Flagged(p) /\ Labelled - p <= d
FlagIsRecent ==
  tpc = "idle" /\ ~retune_pending /\ taken <= Held + 1 =>
    FlagWithin(IF mpc = "label" THEN taken - 1 ELSE taken)
StaleInHand ==
  mpc = "write" /\ hdr.los # {hdr.centre} => hdr.midtune \/ FlagWithin(Held + 1)

(* The first chunk written at a new centre has the flag: it is pending     *)
(* while the centre differs from the last one labelled.                    *)
FlagMarksChange ==
  /\ center_freq_hz # hdr.centre => retune_pending
  /\ Len(log) > 0 =>
       IF mpc = "write"
       THEN hdr.centre # log[Len(log)].centre => hdr.flag
       ELSE hdr = log[Len(log)]
  /\ \A i \in 1 .. Len(log) - 1 :
       log[i + 1].centre # log[i].centre => log[i + 1].flag

(* The chunk in the reader's hand, and what the reader remembers of the    *)
(* one before it.                                                          *)
ReaderInOrder ==
  /\ pushes = 0 <=> last_end = None
  /\ Position \in 0 .. Len(log) /\ pushes <= Position
  /\ pushes = 0 => Position = 0
  /\ InHand => next \in 1 .. Len(log) /\ rhdr = log[next]
  /\ InHand /\ pushes > 0 /\ rdrop = 0 /\ rhdr.centre # pushed_centre => rhdr.flag
  /\ pushes > 0 =>
       /\ Position > 0 /\ begun \in 1 .. Len(log)
       /\ last_end = log[Position].index + 1
       /\ ~InHand => pushed_centre = log[next].centre
LossCounted ==
  /\ Lost - Unseen <= host_dropped /\ host_dropped <= Lost - Unseen + Overwritten
  /\ host_overruns = 0 => host_dropped = Lost - Unseen

(* The cached readback is as recent as the last epoch acted upon. *)
ReadbackKnown ==
  /\ rpc \in {"fetch", "push"} => epoch_seen = rhdr.epoch
  /\ rpc # "fetch" /\ fetched /\ epoch_seen # None => readback >= epoch_seen

StreamInv ==
  /\ TypeOK
  /\ IndexTrue
  /\ CentresKnown
  /\ TuneIsSeen
  /\ StockIsFresh
  /\ FlagIsRecent
  /\ StaleInHand
  /\ FlagMarksChange
  /\ ReaderInOrder
  /\ LossCounted
  /\ ReadbackKnown
  /\ LabelsTrue

USE DEF vars, device, state, loop, reader, ProducerUnchanged

(* The initial state has an empty ring and nothing pushed. *)
LEMMA InitStream == Init => StreamInv
<1> SUFFICES ASSUME NEW c \in Centres,
         /\ hw = c /\ waiting = <<>> /\ filling = {c} /\ freq = c /\ tpc = "idle"
         /\ center_freq_hz = c /\ retune_pending = FALSE
         /\ meta_epoch = 0 /\ centre_at = <<c>>
         /\ mpc = "read" /\ cap = {c} /\ taken = Held + 2
         /\ next_sample_index = 0 /\ skipped = 0 /\ log = <<>>
         /\ hdr = [index |-> 0, flag |-> FALSE, centre |-> c, epoch |-> 0,
                   los |-> {c}, midtune |-> FALSE, skipped |-> 0]
         /\ rpc = "read" /\ next = 0 /\ rhdr = hdr /\ rdrop = 0
         /\ last_end = None /\ epoch_seen = None /\ readback = 0
         /\ fetched = TRUE /\ host_dropped = 0 /\ host_overruns = 0
         /\ pushes = 0 /\ pushed_centre = c /\ begun = 0
             PROVE  StreamInv
  BY DEF Init
<1>1. TypeOK
  <2>1. hdr \in Header
    BY DEF Header
  <2>2. /\ next_sample_index \in 0 .. MaxIndex /\ meta_epoch \in 0 .. MaxEpoch
        /\ readback \in 0 .. meta_epoch /\ next \in 0 .. Len(log) /\ pushes \in 0 .. next
    BY StreamAssumption
  <2>3. log \in Seq(Header) /\ Len(centre_at) = meta_epoch + 1 /\ rhdr \in Header
    BY <2>1
  <2>4. /\ waiting \in Seq(SUBSET Centres) /\ Len(waiting) <= Held
        /\ taken \in 0 .. Held + 2 /\ begun \in 0 .. next
    BY StreamAssumption
  <2> QED
    BY <2>1, <2>2, <2>3, <2>4 DEF TypeOK
<1>2. IndexTrue /\ ReaderInOrder /\ LossCounted /\ ReadbackKnown
  BY DEF IndexTrue, ReaderInOrder, InHand, Position, LossCounted, Lost, Unseen,
         Overwritten, ReadbackKnown, None
<1>3. CentresKnown /\ TuneIsSeen /\ FlagMarksChange /\ LabelsTrue
  BY DEF CentresKnown, TuneIsSeen, FlagMarksChange, LabelsTrue, LabelMatchesEpoch,
         StaleOnlyAfterRetune
<1>4. StockIsFresh /\ FlagIsRecent /\ StaleInHand
  BY StreamAssumption DEF StockIsFresh, FlagIsRecent, StaleInHand
<1> QED
  BY <1>1, <1>2, <1>3, <1>4 DEF StreamInv

(* The log of chunks written: one more, or as it was. *)
LEMMA LogGrows ==
  ASSUME TypeOK, Next
  PROVE  /\ log' \in Seq(Header)
         /\ \/ WriteChunk /\ Len(log') = Len(log) + 1 /\ log'[Len(log) + 1] = hdr
               /\ \A i \in 1 .. Len(log) : log'[i] = log[i]
            \/ UNCHANGED log
<1>1. CASE WriteChunk
  BY <1>1 DEF WriteChunk, TypeOK
<1>2. CASE ~WriteChunk
  BY <1>2 DEF Next, Receive, Loop, ReadChunk, DropRead, Label, Control, TuneDevice,
     TuneState, SetParams, Reader, ReadRing, SeeEpoch, Fetch, FetchFails, Push, TypeOK
<1> QED
  BY <1>1, <1>2

(* What the log is made of. *)
LEMMA LogFacts ==
  ASSUME TypeOK
  PROVE  /\ log \in Seq(Header) /\ Len(log) \in Nat
         /\ \A i \in 1 .. Len(log) :
              /\ log[i] \in Header /\ log[i].index \in Nat /\ log[i].flag \in BOOLEAN
              /\ log[i].centre \in Centres /\ log[i].epoch \in Nat
              /\ log[i].skipped \in Nat
<1>1. log \in Seq(Header)
  BY DEF TypeOK
<1>2. Len(log) \in Nat /\ \A i \in 1 .. Len(log) : log[i] \in Header
  BY <1>1
<1> QED
  BY <1>1, <1>2 DEF Header

LEMMA IndexStep ==
  ASSUME TypeOK, IndexTrue, Next
  PROVE  IndexTrue'
<1>0. /\ Len(log) \in Nat /\ next_sample_index \in Nat /\ skipped \in Nat
      /\ \A i \in 1 .. Len(log) : log[i].skipped \in Nat
  BY LogFacts, StreamAssumption DEF TypeOK
<1>1. CASE WriteChunk
  <2> DEFINE n == Len(log)
  <2>1. /\ Len(log') = n + 1 /\ log'[n + 1] = hdr /\ n \in Nat
        /\ \A i \in 1 .. n : log'[i] = log[i]
        /\ next_sample_index' = next_sample_index + 1 /\ skipped' = skipped
        /\ mpc = "write" /\ mpc' = "read"
    BY <1>0, <1>1, LogGrows DEF WriteChunk
  <2>2. /\ next_sample_index = skipped + n
        /\ \A i \in 1 .. n : log[i].index = log[i].skipped + (i - 1) /\ log[i].skipped <= skipped
        /\ \A i, j \in 1 .. n : i <= j => log[i].skipped <= log[j].skipped
        /\ hdr.index = next_sample_index /\ hdr.skipped = skipped
    BY <2>1 DEF IndexTrue
  <2> HIDE DEF n
  <2>3. \A i \in 1 .. n + 1 : i \in 1 .. n \/ i = n + 1
    BY <2>1
  <2>4. ASSUME NEW i \in 1 .. n + 1
        PROVE  log'[i].index = log'[i].skipped + (i - 1) /\ log'[i].skipped <= skipped
    <3>1. CASE i \in 1 .. n
      BY <2>1, <2>2, <3>1
    <3>2. CASE i = n + 1
      BY <1>0, <2>1, <2>2, <3>2
    <3> QED
      BY <2>3, <3>1, <3>2
  <2>5. ASSUME NEW i \in 1 .. n + 1, NEW j \in 1 .. n + 1, i <= j
        PROVE  log'[i].skipped <= log'[j].skipped
    <3>1. CASE j = n + 1
      BY <2>1, <2>2, <2>4, <3>1
    <3>2. CASE j \in 1 .. n
      <4>1. i \in 1 .. n
        BY <2>1, <2>5, <3>2
      <4> QED
        BY <2>1, <2>2, <2>5, <3>2, <4>1
    <3> QED
      BY <2>3, <3>1, <3>2
  <2>6. next_sample_index' = skipped' + (n + 1)
    BY <1>0, <2>1, <2>2
  <2> QED
    BY <2>1, <2>4, <2>5, <2>6 DEF IndexTrue
<1>2. CASE (\E gap \in Gaps : ReadChunk(gap)) \/ DropRead
  <2>1. PICK d \in Nat : next_sample_index' = next_sample_index + d /\ skipped' = skipped + d
    BY <1>2, StreamAssumption DEF ReadChunk, DropRead
  <2>2. UNCHANGED <<log, hdr>>
    BY <1>2 DEF ReadChunk, DropRead
  <2>3. /\ mpc' = "label" \/ mpc' = "read"
        /\ mpc' = "label" => next_sample_index' < MaxIndex
    BY <1>2 DEF ReadChunk, DropRead, TakeHeld
  <2>4. next_sample_index' = skipped' + Len(log)
    BY <1>0, <2>1 DEF IndexTrue
  <2>5. \A i \in 1 .. Len(log) : log[i].skipped <= skipped'
    BY <1>0, <2>1 DEF IndexTrue
  <2> QED
    BY <2>2, <2>3, <2>4, <2>5 DEF IndexTrue
<1>3. CASE Label
  BY <1>3 DEF Label, IndexTrue
<1>4. CASE Receive \/ Control \/ Reader
  BY <1>4 DEF Receive, Control, TuneDevice, TuneState, SetParams, Reader, ReadRing,
     SeeEpoch, Fetch, FetchFails, Push, IndexTrue
<1> QED
  BY <1>1, <1>2, <1>3, <1>4 DEF Next, Loop

(* The centre at an epoch is never changed afterwards. *)
LEMMA EpochStep ==
  ASSUME TypeOK, CentresKnown, Next
  PROVE  /\ centre_at' \in Seq(Centres) /\ Len(centre_at') = meta_epoch' + 1
         /\ centre_at'[meta_epoch' + 1] = center_freq_hz'
         /\ meta_epoch' \in Nat /\ meta_epoch' >= meta_epoch
         /\ center_freq_hz' \in Centres
         /\ \A e \in 0 .. meta_epoch : centre_at'[e + 1] = centre_at[e + 1]
<1>1. /\ centre_at \in Seq(Centres) /\ Len(centre_at) = meta_epoch + 1
      /\ meta_epoch \in Nat /\ center_freq_hz \in Centres /\ freq \in Centres
      /\ centre_at[meta_epoch + 1] = center_freq_hz
  BY StreamAssumption DEF TypeOK, CentresKnown
<1>2. ASSUME NEW f \in Centres, centre_at' = Append(centre_at, f),
             meta_epoch' = meta_epoch + 1, center_freq_hz' = f
      PROVE  /\ centre_at' \in Seq(Centres) /\ Len(centre_at') = meta_epoch' + 1
             /\ centre_at'[meta_epoch' + 1] = center_freq_hz'
             /\ meta_epoch' \in Nat /\ meta_epoch' >= meta_epoch
             /\ center_freq_hz' \in Centres
             /\ \A e \in 0 .. meta_epoch : centre_at'[e + 1] = centre_at[e + 1]
  <2>1. /\ Append(centre_at, f) \in Seq(Centres)
        /\ Len(Append(centre_at, f)) = Len(centre_at) + 1
        /\ Append(centre_at, f)[Len(centre_at) + 1] = f
        /\ \A j \in 1 .. Len(centre_at) : Append(centre_at, f)[j] = centre_at[j]
    BY <1>1
  <2>2. \A e \in 0 .. meta_epoch : e + 1 \in 1 .. Len(centre_at)
    BY <1>1
  <2> QED
    BY <1>1, <1>2, <2>1, <2>2
<1>3. CASE TuneState
  BY <1>1, <1>2, <1>3 DEF TuneState
<1>4. CASE SetParams
  BY <1>1, <1>2, <1>4 DEF SetParams
<1>5. CASE ~TuneState /\ ~SetParams
  <2>1. UNCHANGED <<centre_at, meta_epoch, center_freq_hz>>
    BY <1>5 DEF Next, Receive, Loop, ReadChunk, DropRead, Label, WriteChunk, Control,
       TuneDevice, Reader, ReadRing, SeeEpoch, Fetch, FetchFails, Push
  <2> QED
    BY <1>1, <2>1
<1> QED
  BY <1>3, <1>4, <1>5

LEMMA CentresStep ==
  ASSUME TypeOK, CentresKnown, LabelMatchesEpoch, Next
  PROVE  CentresKnown' /\ LabelMatchesEpoch'
<1>1. /\ meta_epoch \in Nat /\ meta_epoch' \in Nat /\ meta_epoch' >= meta_epoch
      /\ hdr.epoch \in 0 .. meta_epoch
      /\ \A e \in 0 .. meta_epoch : e \in 0 .. meta_epoch' /\ centre_at'[e + 1] = centre_at[e + 1]
  <2>1. hdr.epoch \in Nat /\ hdr.epoch <= meta_epoch /\ meta_epoch \in Nat
    BY StreamAssumption DEF TypeOK, Header, CentresKnown
  <2> QED
    BY <2>1, EpochStep
<1>2. \A i \in 1 .. Len(log) :
        log[i].epoch \in 0 .. meta_epoch /\ log[i].centre = centre_at[log[i].epoch + 1]
  BY <1>1, LogFacts DEF CentresKnown, LabelMatchesEpoch
<1>3. hdr'.epoch \in 0 .. meta_epoch' /\ hdr'.centre = centre_at'[hdr'.epoch + 1]
  <2>1. CASE Label
    <3>1. /\ hdr'.epoch = meta_epoch /\ hdr'.centre = center_freq_hz
      BY <2>1 DEF Label
    <3> QED
      BY <1>1, <3>1 DEF CentresKnown
  <2>2. CASE ~Label
    <3>1. UNCHANGED hdr
      BY <2>2 DEF Next, Receive, Loop, ReadChunk, DropRead, WriteChunk, Control,
         TuneDevice, TuneState, SetParams, Reader, ReadRing, SeeEpoch, Fetch,
         FetchFails, Push
    <3>2. hdr.centre = centre_at[hdr.epoch + 1]
      BY DEF CentresKnown
    <3> QED
      BY <1>1, <3>1, <3>2
  <2> QED
    BY <2>1, <2>2
<1>4. \A i \in 1 .. Len(log') :
        log'[i].epoch \in 0 .. meta_epoch' /\ log'[i].centre = centre_at'[log'[i].epoch + 1]
  <2>1. CASE WriteChunk
    <3>1. /\ Len(log') = Len(log) + 1 /\ log'[Len(log) + 1] = hdr /\ Len(log) \in Nat
          /\ \A i \in 1 .. Len(log) : log'[i] = log[i]
          /\ hdr' = hdr
      BY <2>1, LogGrows, LogFacts DEF WriteChunk
    <3>2. ASSUME NEW i \in 1 .. Len(log')
          PROVE  /\ log'[i].epoch \in 0 .. meta_epoch'
                 /\ log'[i].centre = centre_at'[log'[i].epoch + 1]
      <4>1. i \in 1 .. Len(log) \/ i = Len(log) + 1
        BY <3>1
      <4>2. CASE i \in 1 .. Len(log)
        BY <1>1, <1>2, <3>1, <4>2
      <4>3. CASE i = Len(log) + 1
        BY <1>3, <3>1, <4>3
      <4> QED
        BY <4>1, <4>2, <4>3
    <3> QED
      BY <3>2
  <2>2. CASE UNCHANGED log
    BY <1>1, <1>2, <2>2
  <2> QED
    BY <2>1, <2>2, LogGrows
<1>5. log' \in Seq(Header) /\ DOMAIN log' = 1 .. Len(log')
  BY LogGrows
<1>6. \A i \in 1 .. Len(log') : log'[i].epoch <= meta_epoch'
  BY <1>1, <1>4
<1>7. hdr'.epoch <= meta_epoch'
  BY <1>1, <1>3
<1> QED
  BY <1>3, <1>4, <1>5, <1>6, <1>7, EpochStep DEF CentresKnown, LabelMatchesEpoch

(* Without a tune under way the device is where the state says it is. *)
LEMMA TuneStep ==
  ASSUME TypeOK, TuneIsSeen, Next
  PROVE  TuneIsSeen'
<1>1. CASE Receive \/ Loop
  BY <1>1 DEF Receive, Loop, ReadChunk, DropRead, Label, WriteChunk, TuneIsSeen
<1>2. CASE Control
  BY <1>2 DEF Control, TuneDevice, TuneState, SetParams, TuneIsSeen, TypeOK
<1>3. CASE Reader
  BY <1>3 DEF Reader, ReadRing, SeeEpoch, Fetch, FetchFails, Push, TuneIsSeen
<1> QED
  BY <1>1, <1>2, <1>3 DEF Next

(* What the device holds is read in the order in which it was received. *)
LEMMA StockStep ==
  ASSUME TypeOK, StockIsFresh, Next
  PROVE  StockIsFresh'
<1>0. /\ waiting \in Seq(SUBSET Centres) /\ Len(waiting) \in Nat /\ Len(waiting) <= Held
      /\ taken \in Nat /\ Held \in Nat
  BY StreamAssumption DEF TypeOK
<1>1. CASE Receive
  <2> DEFINE n == Len(waiting)
  <2>1. /\ waiting' = Append(waiting, filling) /\ filling' = {hw}
        /\ UNCHANGED <<hw, taken, mpc, cap>>
    BY <1>1 DEF Receive
  <2>2. /\ Len(waiting') = n + 1 /\ waiting'[n + 1] = filling
        /\ \A j \in 1 .. n : waiting'[j] = waiting[j]
    BY <1>0, <2>1
  <2>3. ASSUME NEW j \in 1 .. n + 1, taken + j > Held + 1 PROVE waiting'[j] = {hw}
    <3>1. CASE j \in 1 .. n
      BY <2>2, <2>3, <3>1 DEF StockIsFresh
    <3>2. CASE j = n + 1
      <4>1. taken + n > Held
        BY <1>0, <2>3, <3>2
      <4> QED
        BY <2>2, <3>2, <4>1 DEF StockIsFresh
    <3> QED
      BY <1>0, <3>1, <3>2
  <2> QED
    BY <2>1, <2>2, <2>3 DEF StockIsFresh
<1>2. CASE TakeHeld /\ UNCHANGED <<hw, filling>>
           /\ (mpc' = "label" => cap' = Head(waiting))
  <2> DEFINE n == Len(waiting)
  <2>1. /\ waiting' = Tail(waiting) /\ waiting # <<>>
        /\ taken' = IF taken < Held + 2 THEN taken + 1 ELSE taken
    BY <1>2 DEF TakeHeld
  <2>2. /\ n > 0 /\ Len(waiting') = n - 1 /\ Head(waiting) = waiting[1]
        /\ \A j \in 1 .. n - 1 : waiting'[j] = waiting[j + 1]
    BY <1>0, <2>1
  <2>3. taken' <= taken + 1 /\ taken' \in Nat /\ n \in Nat
    BY <1>0, <2>1
  <2>4. ASSUME NEW j \in 1 .. n - 1, taken' + j > Held + 1 PROVE waiting'[j] = {hw}
    <3>1. j \in Int /\ 1 <= j /\ j <= n - 1
      BY <2>3, <2>4
    <3>2. j + 1 \in 1 .. n
      BY <2>3, <3>1
    <3>3. taken \in Int /\ taken' \in Int /\ Held \in Int
      BY <2>3, StreamAssumption DEF TypeOK
    <3>4. taken + (j + 1) > Held + 1
      <4> DEFINE t == taken'
      <4>1. t \in Int /\ t <= taken + 1 /\ t + j > Held + 1 /\ j \in Int
        BY <2>3, <2>4, <3>1, <3>3
      <4> HIDE DEF t, n
      <4> QED
        BY <3>3, <4>1
    <3> QED
      BY <2>2, <3>2, <3>4 DEF StockIsFresh
  <2>5. taken' + (n - 1) > Held => filling = {hw}
    <3>1. taken' + (n - 1) > Held => taken + n > Held
      BY <1>0, <2>2, <2>3
    <3> QED
      BY <3>1 DEF StockIsFresh
  <2>6. taken' > Held + 1 => Head(waiting) = {hw}
    <3>1. 1 \in 1 .. n /\ (taken' > Held + 1 => taken + 1 > Held + 1)
      BY <1>0, <2>2, <2>3
    <3> QED
      BY <2>2, <3>1 DEF StockIsFresh
  <2> QED
    BY <1>2, <2>2, <2>4, <2>5, <2>6 DEF StockIsFresh
<1>3. CASE \E f \in Centres : TuneDevice(f)
  <2>1. taken' = 0 /\ UNCHANGED waiting
    BY <1>3 DEF TuneDevice
  <2>2. \A j \in 1 .. Len(waiting) : ~(0 + j > Held + 1)
    BY <1>0
  <2>3. ~(0 + Len(waiting) > Held) /\ ~(0 > Held + 1)
    BY <1>0
  <2> QED
    BY <2>1, <2>2, <2>3 DEF StockIsFresh
<1>4. CASE Label \/ WriteChunk \/ TuneState \/ SetParams
  BY <1>4 DEF Label, WriteChunk, TuneState, SetParams, StockIsFresh
<1>5. CASE Reader
  BY <1>5 DEF Reader, ReadRing, SeeEpoch, Fetch, FetchFails, Push, StockIsFresh
<1>6. (\E gap \in Gaps : ReadChunk(gap)) \/ DropRead =>
        TakeHeld /\ UNCHANGED <<hw, filling>> /\ (mpc' = "label" => cap' = Head(waiting))
  BY DEF ReadChunk, DropRead, TakeHeld
<1> QED
  BY <1>1, <1>2, <1>3, <1>4, <1>5, <1>6 DEF Next, Loop, Control

(* The flags of the chunks labelled so far, the one in hand included. *)
LEMMA FlagsKept ==
  ASSUME TypeOK, Next
  PROVE  /\ Labelled \in Nat
         /\ Labelled' = IF Label THEN Labelled + 1 ELSE Labelled
         /\ \A p \in 1 .. Labelled : Flagged(p)' <=> Flagged(p)
         /\ Label => \A p \in Int : p = Labelled + 1 => (Flagged(p)' <=> retune_pending)
<1>0. Len(log) \in Nat /\ Labelled \in Nat
  BY LogFacts DEF Labelled
<1>1. CASE Label
  <2>1. /\ mpc = "label" /\ mpc' = "write" /\ UNCHANGED log /\ hdr'.flag = retune_pending
    BY <1>1 DEF Label
  <2>2. Labelled = Len(log) /\ Labelled' = Len(log) + 1
    BY <1>0, <2>1 DEF Labelled
  <2>3. \A p \in 1 .. Labelled : Flagged(p)' <=> Flagged(p)
    BY <1>0, <2>1, <2>2 DEF Flagged
  <2>4. ~(Len(log) + 1 <= Len(log))
    BY <1>0
  <2>5. \A p \in Int : p = Labelled + 1 => (Flagged(p)' <=> retune_pending)
    BY <2>1, <2>2, <2>4 DEF Flagged
  <2> QED
    BY <1>0, <1>1, <2>2, <2>3, <2>5
<1>2. CASE WriteChunk
  <2>1. /\ mpc = "write" /\ mpc' = "read" /\ UNCHANGED hdr /\ Len(log') = Len(log) + 1
        /\ log'[Len(log) + 1] = hdr /\ \A i \in 1 .. Len(log) : log'[i] = log[i]
    BY <1>2, LogGrows DEF WriteChunk
  <2>2. Labelled = Len(log) + 1 /\ Labelled' = Len(log) + 1 /\ ~Label
    BY <1>0, <2>1 DEF Labelled, Label
  <2>3. ASSUME NEW p \in 1 .. Labelled PROVE Flagged(p)' <=> Flagged(p)
    <3>1. CASE p \in 1 .. Len(log)
      <4>1. p <= Len(log) /\ p <= Len(log')
        BY <1>0, <2>1, <3>1
      <4> QED
        BY <2>1, <3>1, <4>1 DEF Flagged
    <3>2. CASE p = Len(log) + 1
      <4>1. ~(p <= Len(log)) /\ p <= Len(log')
        BY <1>0, <2>1, <3>2
      <4> QED
        BY <2>1, <3>2, <4>1 DEF Flagged
    <3> QED
      BY <1>0, <2>2, <3>1, <3>2
  <2> QED
    BY <1>0, <2>2, <2>3
<1>3. CASE ~Label /\ ~WriteChunk
  <2>1. UNCHANGED <<log, hdr>> /\ (mpc' = "write" <=> mpc = "write")
    BY <1>3 DEF Next, Receive, Loop, ReadChunk, DropRead, TakeHeld, Control,
       TuneDevice, TuneState, SetParams, Reader, ReadRing, SeeEpoch, Fetch,
       FetchFails, Push
  <2> QED
    BY <1>0, <1>3, <2>1 DEF Labelled, Flagged
<1> QED
  BY <1>1, <1>2, <1>3

(* A flag is one chunk further away after each one labelled. *)
LEMMA FlagStays ==
  ASSUME TypeOK, Next, NEW d \in Int, FlagWithin(d)
  PROVE  \E p \in 1 .. Labelled' :
           Flagged(p)' /\ Labelled' - p <= (IF Label THEN d + 1 ELSE d)
<1>1. PICK p \in 1 .. Labelled : Flagged(p) /\ Labelled - p <= d
  BY DEF FlagWithin
<1>2. Flagged(p)' /\ Labelled \in Nat
  BY <1>1, FlagsKept
<1>3. CASE Label
  <2>1. Labelled' = Labelled + 1
    BY <1>3, FlagsKept
  <2>2. p \in 1 .. Labelled' /\ Labelled' - p <= d + 1
    BY <1>1, <1>2, <2>1
  <2> QED
    BY <1>2, <1>3, <2>2
<1>4. CASE ~Label
  <2>1. Labelled' = Labelled
    BY <1>4, FlagsKept
  <2> QED
    BY <1>1, <1>2, <1>4, <2>1
<1> QED
  BY <1>3, <1>4

(* A chunk received at another centre than its label's is near a flag. *)
LEMMA RecentStep ==
  ASSUME TypeOK, TuneIsSeen, StockIsFresh, FlagIsRecent, StaleInHand, Next
  PROVE  FlagIsRecent' /\ StaleInHand'
<1>0. /\ taken \in Nat /\ Held \in Nat
      /\ (IF mpc = "label" THEN taken - 1 ELSE taken) \in Int /\ Held + 1 \in Int
  BY StreamAssumption DEF TypeOK
<1>1. CASE Label
  <2>1. /\ mpc = "label" /\ mpc' = "write" /\ ~retune_pending'
        /\ UNCHANGED <<tpc, taken, hw, center_freq_hz>>
        /\ hdr'.los = cap /\ hdr'.centre = center_freq_hz
        /\ hdr'.midtune = (tpc = "tuned")
    BY <1>1 DEF Label
  <2>2. ASSUME tpc = "idle", taken <= Held + 1
        PROVE  \E p \in 1 .. Labelled' : Flagged(p)' /\ Labelled' - p <= taken
    <3>1. CASE retune_pending
      <4>1. PICK q \in Int : q = Labelled + 1
        BY FlagsKept
      <4>2. Labelled' = q /\ Flagged(q)' /\ q \in 1 .. q /\ q - q <= taken
        BY <1>0, <1>1, <3>1, <4>1, FlagsKept
      <4> QED
        BY <4>2
    <3>2. CASE ~retune_pending
      <4>1. FlagWithin(taken - 1)
        BY <2>1, <2>2, <3>2 DEF FlagIsRecent
      <4>2. taken - 1 \in Int /\ taken - 1 + 1 = taken
        BY <1>0
      <4> QED
        BY <1>1, <4>1, <4>2, FlagStays
    <3> QED
      BY <3>1, <3>2
  <2>3. FlagIsRecent'
    <3>1. (IF mpc' = "label" THEN taken' - 1 ELSE taken') = taken
      BY <2>1
    <3> QED
      BY <2>1, <2>2, <3>1 DEF FlagIsRecent, FlagWithin
  <2>4. ASSUME cap # {center_freq_hz}, tpc # "tuned" PROVE FlagWithin(Held + 1)'
    <3>1. tpc = "idle" /\ hw = center_freq_hz
      BY <2>4 DEF TypeOK, TuneIsSeen
    <3>2. taken <= Held + 1
      BY <1>0, <2>1, <2>4, <3>1 DEF StockIsFresh
    <3>3. PICK p \in 1 .. Labelled' : Flagged(p)' /\ Labelled' - p <= taken
      BY <2>2, <3>1, <3>2
    <3>4. Labelled' \in Int
      BY <1>1, FlagsKept
    <3>5. Labelled' - p <= Held + 1
      <4> DEFINE x == Labelled'
      <4>1. x \in Int /\ p \in Int /\ x - p <= taken
        BY <3>3, <3>4
      <4> HIDE DEF x
      <4>2. x - p <= Held + 1
        BY <1>0, <3>2, <4>1
      <4> QED
        BY <4>2 DEF x
    <3> QED
      BY <3>3, <3>5 DEF FlagWithin
  <2> QED
    BY <2>1, <2>3, <2>4 DEF StaleInHand
<1>2. CASE ~Label
  <2>1. ASSUME NEW d \in Int, FlagWithin(d)
        PROVE  \E p \in 1 .. Labelled' : Flagged(p)' /\ Labelled' - p <= d
    BY <1>2, <2>1, FlagStays
  <2>2. FlagWithin(Held + 1) => FlagWithin(Held + 1)'
    BY <1>0, <2>1 DEF FlagWithin
  <2>3. StaleInHand'
    <3>1. CASE WriteChunk
      BY <3>1 DEF WriteChunk, StaleInHand
    <3>2. CASE ~WriteChunk
      <4>1. UNCHANGED hdr /\ (mpc' = "write" => mpc = "write")
        BY <1>2, <3>2 DEF Next, Receive, Loop, ReadChunk, DropRead, TakeHeld, Control,
           TuneDevice, TuneState, SetParams, Reader, ReadRing, SeeEpoch, Fetch,
           FetchFails, Push
      <4> QED
        BY <2>2, <4>1 DEF StaleInHand
    <3> QED
      BY <3>1, <3>2
  <2>4. FlagIsRecent'
    <3>1. CASE \E f \in Centres : TuneDevice(f)
      BY <3>1 DEF TuneDevice, FlagIsRecent
    <3>2. CASE TuneState
      BY <3>2 DEF TuneState, FlagIsRecent
    <3>3. CASE (\E gap \in Gaps : ReadChunk(gap)) \/ DropRead
      <4>1. /\ mpc = "read" /\ (mpc' = "label" \/ mpc' = "read")
            /\ taken' = IF taken < Held + 2 THEN taken + 1 ELSE taken
            /\ UNCHANGED <<tpc, retune_pending>>
        BY <3>3 DEF ReadChunk, DropRead, TakeHeld
      <4>2. ASSUME tpc = "idle", ~retune_pending, taken' <= Held + 1
            PROVE  \E p \in 1 .. Labelled' :
                     /\ Flagged(p)'
                     /\ Labelled' - p <= (IF mpc' = "label" THEN taken' - 1 ELSE taken')
        <5>1. taken' = taken + 1 /\ taken <= Held + 1
          BY <1>0, <4>1, <4>2
        <5>2. FlagWithin(taken)
          BY <4>1, <4>2, <5>1 DEF FlagIsRecent
        <5>3. PICK p \in 1 .. Labelled' : Flagged(p)' /\ Labelled' - p <= taken
          BY <1>0, <2>1, <5>2
        <5>4. Labelled' \in Int
          BY <1>2, FlagsKept
        <5> DEFINE x == Labelled' - p
        <5>5. x \in Int /\ x <= taken
          BY <5>3, <5>4
        <5> HIDE DEF x
        <5>6. x <= (IF mpc' = "label" THEN taken' - 1 ELSE taken')
          BY <1>0, <5>1, <5>5
        <5> QED
          BY <5>3, <5>6 DEF x
      <4> QED
        BY <4>1, <4>2 DEF FlagIsRecent, FlagWithin
    <3>4. CASE Receive \/ WriteChunk \/ SetParams \/ Reader
      <4>1. /\ UNCHANGED <<tpc, retune_pending, taken>>
            /\ (mpc' = "label" <=> mpc = "label")
        BY <3>4 DEF Receive, WriteChunk, SetParams, Reader, ReadRing, SeeEpoch, Fetch,
           FetchFails, Push
      <4> DEFINE d == IF mpc = "label" THEN taken - 1 ELSE taken
      <4>2. d \in Int /\ (IF mpc' = "label" THEN taken' - 1 ELSE taken') = d
        BY <1>0, <4>1
      <4>3. FlagIsRecent <=> (tpc = "idle" /\ ~retune_pending /\ taken <= Held + 1 => FlagWithin(d))
        BY DEF FlagIsRecent
      <4> HIDE DEF d
      <4>4. FlagWithin(d) => \E p \in 1 .. Labelled' : Flagged(p)' /\ Labelled' - p <= d
        BY <2>1, <4>2
      <4> QED
        BY <4>1, <4>2, <4>3, <4>4 DEF FlagIsRecent, FlagWithin
    <3> QED
      BY <1>2, <3>1, <3>2, <3>3, <3>4 DEF Next, Loop, Control
  <2> QED
    BY <2>3, <2>4
<1> QED
  BY <1>1, <1>2

LEMMA StaleStep ==
  ASSUME TypeOK, StaleInHand, StaleOnlyAfterRetune, Next
  PROVE  StaleOnlyAfterRetune'
<1>1. DOMAIN log = 1 .. Len(log) /\ DOMAIN log' = 1 .. Len(log') /\ Len(log) \in Nat
      /\ Held \in Nat
  BY LogGrows, LogFacts, StreamAssumption
<1>2. CASE WriteChunk
  <2> DEFINE n == Len(log)
  <2>1. /\ Len(log') = n + 1 /\ log'[n + 1] = hdr /\ mpc = "write" /\ n \in Nat
        /\ \A i \in 1 .. n : log'[i] = log[i]
    BY <1>2, LogGrows, LogFacts DEF WriteChunk
  <2>2. Labelled = n + 1 /\ \A p \in 1 .. n + 1 : Flagged(p) <=> log'[p].flag
    <3>1. Labelled = n + 1
      BY <2>1 DEF Labelled
    <3>2. ASSUME NEW p \in 1 .. n + 1 PROVE Flagged(p) <=> log'[p].flag
      <4>1. CASE p <= n
        <5>1. p \in 1 .. n
          BY <2>1, <4>1
        <5> QED
          BY <2>1, <4>1, <5>1 DEF Flagged
      <4>2. CASE ~(p <= n)
        <5>1. p = n + 1
          BY <2>1, <4>2
        <5> QED
          BY <2>1, <4>2, <5>1 DEF Flagged
      <4> QED
        BY <4>1, <4>2
    <3> QED
      BY <3>1, <3>2
  <2>3. ASSUME hdr.los # {hdr.centre}
        PROVE  hdr.midtune \/ \E p \in 1 .. n + 1 : log'[p].flag /\ n + 1 - p <= Held + 1
    BY <2>1, <2>2, <2>3 DEF StaleInHand, FlagWithin
  <2>4. ASSUME NEW i \in 1 .. n, log[i].los # {log[i].centre}
        PROVE  log[i].midtune \/ \E p \in 1 .. i : log'[p].flag /\ i - p <= Held + 1
    <3>1. log[i].midtune \/ \E p \in 1 .. i : log[p].flag /\ i - p <= Held + 1
      BY <1>1, <2>4 DEF StaleOnlyAfterRetune
    <3>2. \A p \in 1 .. i : log'[p] = log[p]
      BY <2>1
    <3> QED
      BY <3>1, <3>2
  <2> HIDE DEF n
  <2>5. \A i \in 1 .. n + 1 : i \in 1 .. n \/ i = n + 1
    BY <2>1
  <2>6. ASSUME NEW i \in 1 .. n + 1, log'[i].los # {log'[i].centre}
        PROVE  log'[i].midtune \/ \E p \in 1 .. i : log'[p].flag /\ i - p <= Held + 1
    <3>1. CASE i \in 1 .. n
      <4>1. log'[i] = log[i]
        BY <2>1, <3>1
      <4>2. log[i].los # {log[i].centre}
        BY <2>6, <4>1
      <4>3. log[i].midtune \/ \E p \in 1 .. i : log'[p].flag /\ i - p <= Held + 1
        BY <2>4, <3>1, <4>2
      <4> QED
        BY <4>1, <4>3
    <3>2. CASE i = n + 1
      BY <2>1, <2>3, <2>6, <3>2
    <3> QED
      BY <2>5, <3>1, <3>2
  <2> QED
    BY <1>1, <2>1, <2>6 DEF StaleOnlyAfterRetune
<1>3. CASE UNCHANGED log
  BY <1>3 DEF StaleOnlyAfterRetune
<1> QED
  BY <1>2, <1>3, LogGrows

LEMMA FlagStep ==
  ASSUME TypeOK, FlagMarksChange, Next
  PROVE  FlagMarksChange'
<1>0. Len(log) \in Nat
  BY LogFacts
<1>1. CASE WriteChunk
  <2> DEFINE n == Len(log)
  <2>1. /\ Len(log') = n + 1 /\ log'[n + 1] = hdr /\ n \in Nat
        /\ \A i \in 1 .. n : log'[i] = log[i]
        /\ UNCHANGED <<hdr, retune_pending, center_freq_hz>> /\ mpc = "write" /\ mpc' = "read"
    BY <1>0, <1>1, LogGrows DEF WriteChunk
  <2>2. /\ n > 0 /\ hdr.centre # log[n].centre => hdr.flag
        /\ \A i \in 1 .. n - 1 : log[i + 1].centre # log[i].centre => log[i + 1].flag
        /\ center_freq_hz # hdr.centre => retune_pending
    BY <2>1 DEF FlagMarksChange
  <2> HIDE DEF n
  <2>3. ASSUME NEW i \in 1 .. n, log'[i + 1].centre # log'[i].centre
        PROVE  log'[i + 1].flag
    <3>1. CASE i = n
      <4>1. log'[i + 1] = hdr /\ log'[i] = log[n] /\ n > 0
        BY <2>1, <3>1
      <4> QED
        BY <2>2, <2>3, <4>1
    <3>2. CASE i # n
      <4>1. i \in 1 .. n - 1 /\ i + 1 \in 1 .. n
        BY <2>1, <3>2
      <4> QED
        BY <2>1, <2>2, <2>3, <4>1
    <3> QED
      BY <3>1, <3>2
  <2>4. 1 .. Len(log') - 1 = 1 .. n
    BY <2>1
  <2> QED
    BY <2>1, <2>2, <2>3, <2>4 DEF FlagMarksChange
<1>2. CASE Label
  <2>1. /\ hdr'.centre = center_freq_hz /\ hdr'.flag = retune_pending /\ mpc' = "write"
        /\ mpc = "label" /\ UNCHANGED <<log, center_freq_hz>>
    BY <1>2 DEF Label
  <2>2. Len(log) > 0 => hdr = log[Len(log)]
    BY <2>1 DEF FlagMarksChange
  <2> QED
    BY <2>1, <2>2 DEF FlagMarksChange
<1>3. CASE Receive \/ (Loop /\ ~WriteChunk /\ ~Label)
  BY <1>3 DEF Receive, Loop, ReadChunk, DropRead, TakeHeld, FlagMarksChange
<1>4. CASE Control
  <2>1. UNCHANGED <<log, hdr, mpc>> /\ (retune_pending' \/ UNCHANGED <<retune_pending, center_freq_hz>>)
    BY <1>4 DEF Control, TuneDevice, TuneState, SetParams
  <2> QED
    BY <2>1 DEF FlagMarksChange
<1>5. CASE Reader
  BY <1>5 DEF Reader, ReadRing, SeeEpoch, Fetch, FetchFails, Push, FlagMarksChange
<1> QED
  BY <1>1, <1>2, <1>3, <1>4, <1>5 DEF Next

(* The next chunk the reader takes up is a later one than the last. *)
LEMMA TakenUp ==
  ASSUME TypeOK, FlagMarksChange, ReaderInOrder, ReadRing
  PROVE  /\ ReaderInOrder' /\ Position' = Position
         /\ rhdr' \in Header /\ rdrop' \in Nat /\ next' \in 1 .. Len(log) /\ next' > next
<1>1. PICK s \in next .. Len(log) - 1 :
        rhdr' = log[s + 1] /\ rdrop' = s - next /\ next' = s + 1
  BY DEF ReadRing
<1>2. /\ Len(log) \in Nat /\ s \in Nat /\ s >= next /\ next \in Nat
      /\ s + 1 \in 1 .. Len(log) /\ rpc' = "epoch" /\ ~InHand
      /\ UNCHANGED <<log, last_end, pushes, pushed_centre, begun>>
  <2>1. Len(log) \in Nat /\ next \in Nat
    BY LogFacts DEF TypeOK
  <2>2. /\ rpc = "read" /\ rpc' = "epoch"
        /\ UNCHANGED <<log, last_end, pushes, pushed_centre, begun>>
    BY DEF ReadRing, ProducerUnchanged
  <2> QED
    BY <1>1, <2>1, <2>2 DEF InHand
<1>3. log[s + 1] \in Header
  BY <1>2, LogFacts
<1>4. Position = next /\ Position' = next /\ InHand'
  <2>1. Position' = next' - 1 - rdrop' /\ InHand'
    BY <1>2 DEF Position, InHand
  <2>2. next' - 1 - rdrop' = next
    BY <1>1, <1>2
  <2> QED
    BY <1>2, <2>1, <2>2 DEF Position
<1>5. ASSUME pushes > 0, rdrop' = 0, rhdr'.centre # pushed_centre PROVE rhdr'.flag
  <2>1. s = next /\ next > 0 /\ pushed_centre = log[next].centre
    BY <1>1, <1>2, <1>4, <1>5 DEF ReaderInOrder
  <2>2. next \in 1 .. Len(log) - 1
    BY <1>2, <2>1
  <2> QED
    BY <1>1, <1>5, <2>1, <2>2 DEF FlagMarksChange
<1>6. next' \in 1 .. Len(log) /\ rhdr' = log'[next'] /\ rdrop' \in Nat /\ next' > next
  BY <1>1, <1>2
<1>7. ReaderInOrder'
  BY <1>2, <1>4, <1>5, <1>6 DEF ReaderInOrder
<1> QED
  BY <1>1, <1>3, <1>4, <1>6, <1>7

(* What the loss is counted from, in a state in order. *)
LEMMA Counted ==
  ASSUME TypeOK, ReaderInOrder
  PROVE  /\ Position \in Nat /\ Lost \in Int /\ Unseen \in Nat /\ Overwritten \in Nat
         /\ pushes \in Nat /\ rdrop \in Nat /\ host_dropped \in Nat /\ host_overruns \in Nat
         /\ next \in Nat /\ Len(log) \in Nat
<1>1. /\ pushes \in Nat /\ rdrop \in Nat /\ host_dropped \in Nat /\ host_overruns \in Nat
      /\ next \in Nat /\ Len(log) \in Nat
  BY LogFacts DEF TypeOK
<1>2. Position \in Nat /\ Overwritten \in Nat
  BY <1>1 DEF ReaderInOrder, Overwritten
<1>3. pushes > 0 => log[Position].skipped \in Nat /\ log[begun].skipped \in Nat
  <2>1. pushes > 0 => Position \in 1 .. Len(log) /\ begun \in 1 .. Len(log)
    BY <1>1, <1>2 DEF ReaderInOrder
  <2> QED
    BY <2>1, LogFacts
<1>4. Unseen \in Nat /\ Lost \in Int
  BY <1>1, <1>2, <1>3 DEF Unseen, Lost
<1> QED
  BY <1>1, <1>2, <1>4

(* A step of the producer leaves the chunks the reader refers to alone. *)
LEMMA ProducerKeepsReader ==
  ASSUME TypeOK, ReaderInOrder, Receive \/ Loop \/ Control
  PROVE  /\ ReaderInOrder' /\ UNCHANGED reader
         /\ UNCHANGED <<Lost, Unseen, Overwritten>>
<1>1. UNCHANGED reader
  BY DEF Receive, Loop, ReadChunk, DropRead, Label, WriteChunk, Control, TuneDevice,
         TuneState, SetParams
<1>2. /\ Len(log) \in Nat /\ Len(log') >= Len(log) /\ Len(log') \in Nat
      /\ \A i \in 1 .. Len(log) : log'[i] = log[i]
  BY LogGrows, LogFacts DEF Next
<1>3. Position' = Position /\ InHand' = InHand /\ Overwritten' = Overwritten
  BY <1>1 DEF Position, InHand, Overwritten
<1>4. /\ pushes > 0 => Position \in 1 .. Len(log) /\ begun \in 1 .. Len(log)
      /\ InHand => next \in 1 .. Len(log)
      /\ ~InHand => next = Position
  BY <1>2 DEF ReaderInOrder, Position
<1>5. Lost' = Lost /\ Unseen' = Unseen
  <2>1. pushes \in Nat /\ UNCHANGED <<pushes, begun>>
    BY <1>1, Counted
  <2>2. pushes # 0 => /\ log'[Position'].skipped = log[Position].skipped
                      /\ log'[begun'].skipped = log[begun].skipped
    BY <1>2, <1>3, <1>4, <2>1
  <2> QED
    BY <1>3, <2>1, <2>2 DEF Lost, Unseen
<1>6. ReaderInOrder'
  BY <1>1, <1>2, <1>3, <1>4 DEF ReaderInOrder
<1> QED
  BY <1>1, <1>3, <1>5, <1>6

LEMMA PushedInOrder ==
  ASSUME TypeOK, ReaderInOrder, Push
  PROVE  ReaderInOrder' /\ Position' = next
<1>1. /\ rpc = "push" /\ rpc' = "read" /\ UNCHANGED <<log, next>>
      /\ last_end' = rhdr.index + 1 /\ pushes' = pushes + 1
      /\ pushed_centre' = rhdr.centre
      /\ begun' = IF last_end = None THEN next ELSE begun
  BY DEF Push
<1>2. /\ InHand /\ ~InHand' /\ next \in 1 .. Len(log) /\ rhdr = log[next]
      /\ rhdr.index \in Nat /\ Position = next - 1 - rdrop /\ Position' = next
  BY <1>1 DEF ReaderInOrder, InHand, Position, TypeOK, Header
<1>3. /\ pushes' > 0 /\ pushes' # 0 /\ last_end' # None /\ pushes' <= next
      /\ next \in 0 .. Len(log) /\ next > 0
  <2>1. pushes \in Nat /\ pushes <= Position /\ rdrop \in Nat /\ next \in Nat /\ Len(log) \in Nat
    BY Counted DEF ReaderInOrder
  <2>2. next \in 0 .. Len(log) /\ next > 0
    BY <1>2, <2>1
  <2>3. pushes + 1 <= next
    BY <1>2, <2>1
  <2>4. rhdr.index + 1 # None
    BY <1>2 DEF None
  <2> QED
    BY <1>1, <2>1, <2>2, <2>3, <2>4
<1>4. begun' \in 1 .. Len(log)
  <2>1. CASE pushes = 0
    BY <1>1, <1>2, <2>1 DEF ReaderInOrder
  <2>2. CASE pushes > 0
    BY <1>1, <1>2, <2>2, Counted DEF ReaderInOrder
  <2> QED
    BY <2>1, <2>2, Counted
<1> QED
  BY <1>1, <1>2, <1>3, <1>4 DEF ReaderInOrder

LEMMA ReaderStep ==
  ASSUME TypeOK, FlagMarksChange, ReaderInOrder, Next
  PROVE  ReaderInOrder'
<1>1. CASE SeeEpoch \/ Fetch \/ FetchFails
  BY <1>1 DEF SeeEpoch, Fetch, FetchFails, ReaderInOrder, InHand, Position
<1> QED
  BY <1>1, TakenUp, ProducerKeepsReader, PushedInOrder DEF Next, Reader

(* What one push adds to the loss, to the chunks overwritten and to what is *)
(* reported: g is what the producer lost between the two chunks pushed.     *)
LEMMA PushCounts ==
  ASSUME TypeOK, IndexTrue, ReaderInOrder, Push
  PROVE  /\ Overwritten' = Overwritten + rdrop
         /\ IF pushes = 0
            THEN /\ Lost' - Unseen' = rdrop /\ Lost - Unseen = 0
                 /\ host_dropped' = host_dropped + rdrop
            ELSE \E g \in Nat :
                   /\ Lost' - Unseen' = Lost - Unseen + rdrop + g
                   /\ host_dropped' = host_dropped + rdrop + (rdrop + g)
<1>1. /\ last_end' = rhdr.index + 1 /\ pushes' = pushes + 1
      /\ host_dropped' = host_dropped + rdrop + ProducerGap
      /\ begun' = IF last_end = None THEN next ELSE begun
      /\ InHand /\ log' = log
  BY DEF Push, InHand
<1> DEFINE q == next
           r == Position
           a == log[q].skipped
           b == log[r].skipped
<1>2. /\ q \in 1 .. Len(log) /\ r = q - 1 - rdrop /\ Position' = q /\ rhdr = log[q]
      /\ r \in Nat /\ pushes \in Nat /\ rdrop \in Nat /\ q \in Nat /\ a \in Nat
      /\ host_dropped \in Nat /\ pushes' # 0
  <2>1. q \in 1 .. Len(log) /\ rhdr = log[q] /\ r = q - 1 - rdrop /\ Position' = q
    BY <1>1, PushedInOrder DEF ReaderInOrder, Position
  <2>2. a \in Nat
    BY <2>1, LogFacts
  <2>3. r \in Nat /\ pushes \in Nat /\ rdrop \in Nat /\ q \in Nat /\ host_dropped \in Nat
    BY Counted
  <2> QED
    BY <1>1, <2>1, <2>2, <2>3
<1>3. Overwritten' = Overwritten + rdrop
  <2>1. Overwritten' = q - (pushes + 1) /\ Overwritten = r - pushes
    BY <1>1, <1>2 DEF Overwritten
  <2> HIDE DEF q, r
  <2> QED
    BY <1>2, <2>1
<1>4. Lost' = a + Overwritten' /\ Unseen' = log[begun'].skipped
  BY <1>1, <1>2 DEF Lost, Unseen
<1>5. CASE pushes = 0
  <2>1. last_end = None /\ r = 0 /\ Lost = 0 /\ Unseen = 0 /\ Overwritten = 0
    BY <1>5, Counted DEF ReaderInOrder, Lost, Unseen, Overwritten
  <2>2. ProducerGap = 0 /\ begun' = q
    BY <1>1, <2>1 DEF ProducerGap
  <2> HIDE DEF q, r, a
  <2>3. Lost' = a + rdrop /\ host_dropped' = host_dropped + rdrop
    BY <1>1, <1>2, <1>3, <1>4, <2>1, <2>2
  <2>4. Unseen' = a
    BY <1>4, <2>2 DEF a
  <2> QED
    BY <1>2, <1>3, <1>5, <2>1, <2>3, <2>4
<1>6. CASE pushes > 0
  <2>1. /\ last_end # None /\ r \in 1 .. Len(log) /\ last_end = log[r].index + 1
        /\ begun' = begun
    BY <1>1, <1>2, <1>6, Counted DEF ReaderInOrder
  <2>2. /\ log[r].index = b + (r - 1) /\ log[q].index = a + (q - 1) /\ b \in Nat
    BY <1>2, <2>1, LogFacts DEF IndexTrue
  <2>3. r <= q /\ b <= a
    <3>1. r <= q
      BY <1>2
    <3> QED
      BY <1>2, <2>1, <3>1 DEF IndexTrue
  <2>4. Lost = b + Overwritten /\ Unseen' = Unseen
    BY <1>4, <1>6, <2>1, Counted DEF Lost, Unseen
  <2>5. ProducerGap = IF log[q].index > last_end THEN log[q].index - last_end ELSE 0
    BY <1>2, <2>1 DEF ProducerGap
  <2>6. Overwritten \in Nat /\ Unseen \in Nat
    BY Counted
  <2> DEFINE g == a - b
  <2> HIDE DEF q, r, a, b
  <2>7. g \in Nat /\ ProducerGap = rdrop + g
    BY <1>2, <2>1, <2>2, <2>3, <2>5
  <2>8. Lost' - Unseen' = Lost - Unseen + rdrop + g
    BY <1>2, <1>3, <1>4, <2>2, <2>4, <2>6
  <2> HIDE DEF g
  <2>9. host_dropped' = host_dropped + rdrop + (rdrop + g)
    BY <1>1, <2>7
  <2> QED
    BY <1>3, <1>6, <2>7, <2>8, <2>9
<1> QED
  BY <1>2, <1>5, <1>6

LEMMA LossStep ==
  ASSUME TypeOK, IndexTrue, FlagMarksChange, ReaderInOrder, LossCounted, Next
  PROVE  LossCounted'
<1>1. CASE Push
  <2> DEFINE m == Lost - Unseen
             m1 == Lost' - Unseen'
             o == Overwritten
             o1 == Overwritten'
             h == host_dropped
             h1 == host_dropped'
  <2>1. /\ m \in Int /\ o \in Nat /\ h \in Nat /\ rdrop \in Nat /\ host_overruns \in Nat
        /\ pushes \in Nat
    BY Counted
  <2>2. m <= h /\ h <= m + o /\ (host_overruns = 0 => h = m)
    BY DEF LossCounted
  <2>3. /\ o1 = o + rdrop
        /\ IF pushes = 0 THEN m1 = rdrop /\ m = 0 /\ h1 = h + rdrop
           ELSE \E g \in Nat : m1 = m + rdrop + g /\ h1 = h + rdrop + (rdrop + g)
    BY <1>1, PushCounts
  <2>4. host_overruns' = IF rdrop > 0 THEN host_overruns + 1 ELSE host_overruns
    BY <1>1, <2>1 DEF Push
  <2>5. pushes = 0 => o = 0
    BY <2>1 DEF ReaderInOrder, Overwritten
  <2>6. m1 <= h1 /\ h1 <= m1 + o1 /\ (host_overruns' = 0 => h1 = m1) => LossCounted'
    BY DEF LossCounted
  <2> HIDE DEF m, m1, o, o1, h, h1
  <2>7. CASE pushes = 0
    BY <2>1, <2>2, <2>3, <2>4, <2>5, <2>6, <2>7
  <2>8. CASE pushes # 0
    <3>1. PICK g \in Nat : m1 = m + rdrop + g /\ h1 = h + rdrop + (rdrop + g)
      BY <2>3, <2>8
    <3>2. m1 <= h1 /\ h1 <= m1 + o1
      BY <2>1, <2>2, <2>3, <3>1
    <3>3. host_overruns' = 0 => h1 = m1
      BY <2>1, <2>2, <2>4, <3>1
    <3> QED
      BY <2>6, <3>2, <3>3
  <2> QED
    BY <2>7, <2>8
<1>2. CASE ReadRing
  <2>1. Position' = Position /\ UNCHANGED <<pushes, log, begun, host_dropped, host_overruns>>
    BY <1>2, TakenUp DEF ReadRing, ProducerUnchanged
  <2> QED
    BY <2>1 DEF LossCounted, Lost, Unseen, Overwritten
<1>3. CASE SeeEpoch \/ Fetch \/ FetchFails
  BY <1>3 DEF SeeEpoch, Fetch, FetchFails, LossCounted, Lost, Unseen, Overwritten,
     Position, InHand
<1>4. CASE Receive \/ Loop \/ Control
  BY <1>4, ProducerKeepsReader DEF LossCounted
<1> QED
  BY <1>1, <1>2, <1>3, <1>4 DEF Next, Reader

(* The readback is fetched after the chunk that asks for it was labelled. *)
LEMMA ReadbackStep ==
  ASSUME TypeOK, CentresKnown, ReaderInOrder, ReadbackKnown, Next
  PROVE  ReadbackKnown'
<1>1. CASE Fetch
  <2>1. rhdr = log[next] /\ next \in 1 .. Len(log) /\ epoch_seen = rhdr.epoch
    BY <1>1, LogFacts DEF Fetch, ReaderInOrder, InHand, ReadbackKnown, TypeOK
  <2>2. rhdr.epoch <= meta_epoch
    BY <2>1 DEF CentresKnown
  <2> QED
    BY <1>1, <2>1, <2>2 DEF Fetch, ReadbackKnown
<1>2. CASE SeeEpoch
  BY <1>2 DEF SeeEpoch, ReadbackKnown
<1>3. CASE Receive \/ Loop \/ Control \/ ReadRing \/ FetchFails \/ Push
  BY <1>3 DEF Receive, Loop, ReadChunk, DropRead, Label, WriteChunk, Control,
     TuneDevice, TuneState, SetParams, ReadRing, FetchFails, Push, ReadbackKnown
<1> QED
  BY <1>1, <1>2, <1>3 DEF Next, Reader

LEMMA TypeStep ==
  ASSUME TypeOK, IndexTrue, FlagMarksChange, TuneIsSeen, CentresKnown,
         ReaderInOrder, Next
  PROVE  TypeOK'
<1> USE DEF TypeOK
<1>1. log' \in Seq(Header) /\ Len(centre_at') = meta_epoch' + 1
  BY LogGrows, EpochStep
<1>2. CASE Loop
  <2>1. UNCHANGED <<hw, filling, freq, tpc, center_freq_hz, meta_epoch, reader>>
    BY <1>2 DEF Loop, ReadChunk, DropRead, Label, WriteChunk
  <2>2. /\ waiting' \in Seq(SUBSET Centres) /\ Len(waiting') <= Held
        /\ taken' \in 0 .. Held + 2 /\ mpc' \in {"read", "label", "write"}
        /\ cap' \subseteq Centres
    <3>1. CASE (\E gap \in Gaps : ReadChunk(gap)) \/ DropRead
      <4>1. /\ waiting # <<>> /\ waiting' = Tail(waiting)
            /\ taken' = IF taken < Held + 2 THEN taken + 1 ELSE taken
            /\ mpc' \in {"label", "read"} /\ cap' \in {Head(waiting), cap}
        BY <3>1 DEF ReadChunk, DropRead, TakeHeld
      <4>2. /\ Head(waiting) \in SUBSET Centres /\ Tail(waiting) \in Seq(SUBSET Centres)
            /\ Len(Tail(waiting)) = Len(waiting) - 1 /\ Len(waiting) \in Nat
        BY <4>1
      <4> QED
        BY <4>1, <4>2, StreamAssumption
    <3>2. CASE Label \/ WriteChunk
      BY <3>2 DEF Label, WriteChunk
    <3> QED
      BY <1>2, <3>1, <3>2 DEF Loop
  <2>3. retune_pending' \in BOOLEAN
    BY Zenon, <1>2 DEF Loop, ReadChunk, DropRead, Label, WriteChunk
  <2>4. next_sample_index' \in 0 .. MaxIndex /\ skipped' \in Nat
    <3>1. CASE \E gap \in Gaps : ReadChunk(gap)
      <4>1. PICK gap \in Gaps : /\ next_sample_index + gap < MaxIndex
                               /\ next_sample_index' = next_sample_index + gap
                               /\ skipped' = skipped + gap
        BY <3>1 DEF ReadChunk
      <4> QED
        BY <4>1, StreamAssumption
    <3>2. CASE DropRead
      BY <3>2, StreamAssumption DEF DropRead
    <3>3. CASE WriteChunk
      BY <3>3, StreamAssumption DEF WriteChunk, IndexTrue
    <3> QED
      BY <1>2, <3>1, <3>2, <3>3 DEF Loop, Label
  <2>5. hdr' \in Header
    <3>1. CASE Label
      <4>1. next_sample_index \in Nat /\ meta_epoch \in Nat /\ (tpc = "tuned") \in BOOLEAN
        BY StreamAssumption
      <4> QED
        BY <3>1, <4>1 DEF Label, Header
    <3>2. CASE ~Label
      BY <1>2, <3>2 DEF Loop, ReadChunk, DropRead, WriteChunk
    <3> QED
      BY <3>1, <3>2
  <2>6. next \in 0 .. Len(log')
    BY LogGrows, LogFacts
  <2> QED
    BY <1>1, <2>1, <2>2, <2>3, <2>4, <2>5, <2>6
<1>3. CASE Control
  <2>1. UNCHANGED <<waiting, mpc, cap, next_sample_index, skipped, hdr, log, reader>>
    BY <1>3 DEF Control, TuneDevice, TuneState, SetParams
  <2>2. /\ hw' \in Centres /\ freq' \in Centres /\ tpc' \in {"idle", "tuned"}
        /\ filling' \subseteq Centres /\ center_freq_hz' \in Centres
    BY <1>3 DEF Control, TuneDevice, TuneState, SetParams
  <2>3. retune_pending' \in BOOLEAN
    BY Zenon, <1>3 DEF Control, TuneDevice, TuneState, SetParams
  <2>4. meta_epoch' \in 0 .. MaxEpoch /\ readback \in 0 .. meta_epoch'
    <3>1. CASE TuneState
      <4>1. meta_epoch < MaxEpoch
        BY <3>1 DEF TuneState, TuneIsSeen
      <4> QED
        BY <3>1, <4>1, StreamAssumption DEF TuneState
    <3>2. CASE SetParams
      <4>1. meta_epoch < MaxEpoch /\ meta_epoch' = meta_epoch + 1
        BY <3>2 DEF SetParams
      <4> QED
        BY <4>1, StreamAssumption
    <3>3. CASE ~TuneState /\ ~SetParams
      <4>1. meta_epoch' = meta_epoch
        BY <1>3, <3>3 DEF Control, TuneDevice
      <4> QED
        BY <4>1
    <3> QED
      BY <3>1, <3>2, <3>3
  <2>5. taken' \in 0 .. Held + 2
    <3>1. taken' = 0 \/ taken' = taken
      BY <1>3 DEF Control, TuneDevice, TuneState, SetParams
    <3> QED
      BY <3>1, StreamAssumption
  <2> QED
    BY <1>1, <2>1, <2>2, <2>3, <2>4, <2>5
<1>4. CASE ReadRing
  <2>1. rhdr' \in Header /\ rdrop' \in Nat /\ next' \in 1 .. Len(log)
    BY <1>4, TakenUp
  <2>2. UNCHANGED <<device, state, loop, log, last_end, epoch_seen, readback, fetched,
                    host_dropped, host_overruns, pushes, pushed_centre, begun>>
        /\ rpc' = "epoch"
    BY <1>4 DEF ReadRing
  <2>3. pushes \in 0 .. next' /\ begun \in 0 .. next'
    <3>1. next' > next
      BY <1>4, TakenUp
    <3> QED
      BY <2>1, <3>1, LogFacts
  <2> QED
    BY <1>1, <2>1, <2>2, <2>3, LogFacts
<1>5. CASE SeeEpoch \/ Fetch \/ FetchFails
  <2>1. /\ UNCHANGED <<device, state, loop, log, next, rhdr, rdrop, last_end, host_dropped,
                       host_overruns, pushes, pushed_centre, begun>>
        /\ rpc' \in {"fetch", "push"} /\ fetched' \in BOOLEAN
    BY <1>5 DEF SeeEpoch, Fetch, FetchFails
  <2>2. epoch_seen' \in Nat \cup {None} /\ readback' \in 0 .. meta_epoch
    <3>1. rhdr.epoch \in Nat /\ meta_epoch \in 0 .. meta_epoch
      BY StreamAssumption DEF Header
    <3> QED
      BY <1>5, <3>1 DEF SeeEpoch, Fetch, FetchFails
  <2> QED
    BY <1>1, <2>1, <2>2
<1>6. CASE Push
  <2>1. begun' \in 0 .. next /\ last_end' \in Nat /\ pushed_centre' \in Centres
    <3>1. rhdr.index \in Nat /\ rhdr.centre \in Centres
      BY DEF Header
    <3>2. /\ last_end' = rhdr.index + 1 /\ pushed_centre' = rhdr.centre
          /\ begun' = next \/ begun' = begun
      BY <1>6 DEF Push
    <3>3. next \in 0 .. next
      BY LogFacts
    <3> QED
      BY <3>1, <3>2, <3>3
  <2>2. host_dropped' \in Nat /\ host_overruns' \in Nat
    <3> DEFINE g == ProducerGap
    <3>1. g \in Nat
      BY DEF ProducerGap, Header, None
    <3>2. host_dropped' = host_dropped + rdrop + g
      BY <1>6 DEF Push
    <3>3. host_overruns' = host_overruns \/ host_overruns' = host_overruns + 1
      BY <1>6 DEF Push
    <3> HIDE DEF g
    <3> QED
      BY <3>1, <3>2, <3>3
  <2>3. pushes' \in 0 .. next
    <3>1. pushes' = pushes + 1 /\ UNCHANGED next
      BY <1>6 DEF Push
    <3>2. ReaderInOrder' /\ Position' = next
      BY <1>6, PushedInOrder
    <3> QED
      BY <3>1, <3>2, Counted DEF ReaderInOrder
  <2> QED
    BY <1>1, <1>6, <2>1, <2>2, <2>3 DEF Push
<1>7. CASE Receive
  <2>1. /\ waiting' = Append(waiting, filling) /\ filling' = {hw} /\ Len(waiting) < Held
        /\ UNCHANGED <<hw, tpc, freq, state, loop, log, reader>>
    BY <1>7 DEF Receive
  <2>2. Append(waiting, filling) \in Seq(SUBSET Centres)
        /\ Len(Append(waiting, filling)) = Len(waiting) + 1 /\ Len(waiting) \in Nat
    BY <1>7
  <2> QED
    BY <1>1, <2>1, <2>2, StreamAssumption
<1> QED
  BY <1>2, <1>3, <1>4, <1>5, <1>6, <1>7 DEF Next, Reader
-----------------------------------------------------------------------------
LEMMA NextStream == StreamInv /\ [Next]_vars => StreamInv'
<1>1. ASSUME StreamInv, Next PROVE StreamInv'
  BY <1>1, TypeStep, IndexStep, CentresStep, TuneStep, StockStep, RecentStep, StaleStep,
     FlagStep, ReaderStep, LossStep, ReadbackStep
  DEF StreamInv, LabelsTrue
<1>2. ASSUME StreamInv, UNCHANGED vars PROVE StreamInv'
  <2>1. TypeOK' /\ IndexTrue' /\ CentresKnown' /\ TuneIsSeen'
    BY <1>2 DEF StreamInv, TypeOK, IndexTrue, CentresKnown, TuneIsSeen
  <2>2. FlagMarksChange' /\ ReaderInOrder' /\ LossCounted'
    BY <1>2 DEF StreamInv, FlagMarksChange, ReaderInOrder, InHand, Position, LossCounted,
                Lost, Unseen, Overwritten
  <2>3. ReadbackKnown' /\ LabelsTrue'
    BY <1>2 DEF StreamInv, ReadbackKnown, LabelsTrue, LabelMatchesEpoch,
                StaleOnlyAfterRetune
  <2>4. StockIsFresh' /\ FlagIsRecent' /\ StaleInHand'
    BY <1>2 DEF StreamInv, StockIsFresh, FlagIsRecent, StaleInHand, FlagWithin, Labelled,
                Flagged
  <2> QED
    BY <2>1, <2>2, <2>3, <2>4 DEF StreamInv
<1> QED
  BY <1>1, <1>2

LEMMA OnlyPushPushes ==
  ASSUME TypeOK, Next, pushes' > pushes
  PROVE  Push
<1>1. pushes \in Int
  BY LogFacts DEF TypeOK
<1>2. ~Push => UNCHANGED pushes
  BY DEF Next, Receive, Loop, ReadChunk, DropRead, Label, WriteChunk, Control,
         TuneDevice, TuneState, SetParams, Reader, ReadRing, SeeEpoch, Fetch,
         FetchFails
<1> QED
  BY <1>1, <1>2

(* What the loop, the control server and the reader preserve, however they *)
(* interleave.                                                             *)
THEOREM StreamInvHolds == Spec => []StreamInv
  BY InitStream, NextStream, PTL DEF Spec

(* The reader's count of lost samples falls short of the loss by what the  *)
(* producer lost in front of the first chunk pushed and by no more, it     *)
(* exceeds the rest by no more than the chunks overwritten, and it equals  *)
(* the rest while the ring is not overrun, for a ring of any size and any  *)
(* gaps the device reports.                                                *)
THEOREM LossIsBounded == Spec => []LossBounded
<1>1. StreamInv => LossBounded
  BY DEF StreamInv, LossBounded, LossCounted
<1> QED
  BY <1>1, StreamInvHolds, PTL

(* A chunk's centre is that of its epoch's readback; and it is the one     *)
(* frequency it was received at, unless a tune was between its two steps   *)
(* when it was labelled or a flagged chunk is at most Held + 1 before it.  *)
THEOREM LabelsAreTrue == Spec => []LabelsTrue
<1>1. StreamInv => LabelsTrue
  BY DEF StreamInv
<1> QED
  BY <1>1, StreamInvHolds, PTL

(* A retune reaches the windows: the first chunk pushed at a new centre is *)
(* preceded by a flush or by a ring drop, and the cached readback is not   *)
(* older than the chunk pushed, unless its last fetch failed.              *)
THEOREM RetuneReachesTheWindows == Spec => RetuneReachesWindows
<1>1. StreamInv /\ [Next]_vars =>
        [pushes' > pushes /\ pushes > 0 /\ pushed_centre' # pushed_centre =>
           rhdr.flag \/ rdrop > 0]_vars
  <2> SUFFICES ASSUME StreamInv, Next, pushes' > pushes, pushes > 0,
                      pushed_centre' # pushed_centre, ~rhdr.flag
               PROVE  rdrop > 0
    OBVIOUS
  <2>1. Push
    BY OnlyPushPushes DEF StreamInv
  <2>2. InHand /\ pushed_centre' = rhdr.centre /\ rdrop \in Nat
    BY <2>1 DEF Push, InHand, StreamInv, TypeOK
  <2> QED
    BY <2>2 DEF StreamInv, ReaderInOrder
<1>2. StreamInv /\ [Next]_vars =>
        [pushes' > pushes /\ fetched => readback >= rhdr.epoch]_vars
  <2> SUFFICES ASSUME StreamInv, Next, pushes' > pushes, fetched
               PROVE  readback >= rhdr.epoch
    OBVIOUS
  <2>1. Push
    BY OnlyPushPushes DEF StreamInv
  <2>2. rpc = "push" /\ rhdr.epoch \in Nat
    BY <2>1 DEF Push, StreamInv, TypeOK, Header
  <2> QED
    BY <2>2 DEF StreamInv, ReadbackKnown, None
<1> QED
  BY <1>1, <1>2, StreamInvHolds, PTL
  DEF Spec, RetuneReachesWindows, FlushedUnlessOverrun, ReadbackFresh
=============================================================================
