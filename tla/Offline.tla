------------------------------ MODULE Offline -------------------------------
(***************************************************************************)
(* The computations that keep no state, run over every case of a set: the  *)
(* words of the Golay code, bursts of the SiK radio and of DroneID, the    *)
(* windows they are searched for in, sequences of hops,                    *)
(* files of hackrf_sweep, bands tiled by dwells, scans with hot regions,   *)
(* spectrograms and scenes of emitters, runs of windows, and corpora a     *)
(* classifier is trained and judged on.  A behaviour picks a case and      *)
(* computes what the code returns.                                         *)
(***************************************************************************)
EXTENDS SikCodes, DroneIdSearch, BandScan, Evaluation, LivePipeline

CONSTANTS Words,       \* data words of the Golay code
          Payloads,    \* payloads of a radio frame
          Flips,       \* bit errors in each word of 24 bits of a burst
          Codes,       \* the turbo codes
          Blocks,      \* data bytes of a turbo block
          Hits,        \* bits on the air received wrong
          Frames,      \* fields of a DroneID frame
          Envelopes,   \* bursts of energy: at, len, fade, level
          Spectra,     \* bands of a burst's spectrum: lo, hi, power
          Windows,     \* candidates of a window, and the budget
          Seeds,       \* seeds of the hop maps that are tried
          Schedules,   \* hops observed: seed, n, start, hops, misheard
          Boards,      \* the bands of a SiK radio: lo, hi, default
          Files,       \* sweep files: order, segments, sweeps
          Bands,       \* bands and receivers: lo, hi, step, bin, res
          Scans,       \* hot bins per frame
          Grids,       \* rectangles of power in a spectrogram
          Scenes,      \* emitters on the air, and the resolution
          Looks,       \* states of the bundle's file, in pairs
          Sessions,    \* which beacons are heard, and when a window is quiet
          Loadings,    \* windows of a corpus and a limit
          Corpora,     \* the three corpora of the benchmark
          Probes,      \* rows, folds and margins of the receiver probe
          Budgets,     \* sessions whose windows have labels
          Trainings    \* files of a loader, and what is held out
ASSUME OfflineAssumption ==
    /\ Words \subseteq SUBSET (0..11) /\ Seeds \subseteq Nat
    /\ \A j \in Schedules : j.seed \in Seeds /\ j.n \in Nat \ {0, 1}
                           /\ {j.start, j.hops} \subseteq Nat
    /\ \A board \in Boards : board.lo \in Int /\ board.hi \in Int
    /\ \A looks \in Looks : looks \in Seq(Range(looks))

(* A file is listed once.  The benchmark's corpora are of different        *)
(* datasets, unless one is given twice.                                    *)
ASSUME EvaluationAssumption ==
    /\ \A j \in Loadings : j.windows \in Seq(Range(j.windows))
    /\ \A c \in Corpora :
         c.zenodo = c.antsdr \/ \A r \in c.zenodo, s \in c.antsdr : r.ds # s.ds
    /\ \A p \in Probes : IsFiniteSet(p.rows) /\ \A r \in p.rows : r.n \in Nat
    /\ \A sessions \in Budgets :
         /\ sessions \in Seq(Range(sessions))
         /\ \A i \in DOMAIN sessions : sessions[i] \in Seq(Range(sessions[i]))
    /\ \A t \in Trainings :
         /\ t.files \in Seq(Range(t.files))
         /\ \A i \in DOMAIN t.files : t.files[i].windows \in Nat
         /\ \A i, k \in DOMAIN t.files : t.files[i].path = t.files[k].path => i = k

VARIABLES job,   \* the case
          out    \* what the code returns for it, or "pending"

offlineVars == <<job, out>>

-----------------------------------------------------------------------------
(* The transmitter: preamble, sync word, frame; then bits that are not the *)
(* radio's.  Positions flip counts from 0 in the preamble, in the sync word *)
(* and in each word of the frame.                                          *)
Flipped(bits, S) == [n \in DOMAIN bits |-> IF n \in S THEN 1 - bits[n] ELSE bits[n]]
Sent(j) == EncodeFrame(j.netid, j.payload, j.trailer, j.ecc)
Framed(j, body) ==
    LET preamble == [n \in 1..40 |-> n % 2]
        hit == {n \in DOMAIN body : (n - 1) % 24 \in j.body}
    IN  Flipped(preamble, j.preamble) \o Flipped(SyncWord, j.sync) \o Flipped(body, hit)
          \o <<0, 1, 1, 0, 1>>
OnAir(j) ==
    LET all == Framed(j, ToBits(Sent(j)))
    IN  IF j.inverted THEN Flipped(all, DOMAIN all) ELSE all
Noise == [n \in 1..60 |-> IF n % 3 = 0 THEN 1 ELSE 0]
Heard(j) == [r \in 1..3 |-> IF r = 2 THEN OnAir(j) ELSE Noise]

Observed(j) ==
    LET map == HopMap(j.seed, j.n)
    IN  [w \in 1..j.hops |-> LET ch == map[(j.start + w) % j.n]
                             IN  IF w \in j.misheard THEN (ch + 1) % j.n ELSE ch]

HopMaps(n) == [seed \in Seeds |-> HopMap(seed, n)]

(* A turbo block on the air, some of its bits received wrong.              *)
SmallCode == [k |-> 40, f1 |-> 3, f2 |-> 10, e |-> 225]
TurboAir(bytes) ==
    RateMatch(TurboEncode(ToBits(Words8(TurboPayload(bytes, 0))), Qpp(SmallCode)),
              Selected(SmallCode.k + 4, SmallCode.e))
TurboCases ==
    UNION {{[block |-> b, hit |-> h, bits |-> Tuple([n \in DOMAIN air |-> IF n \in h THEN 1 - air[n] ELSE air[n]])]
              : h \in Hits, air \in {TurboAir(b)}} : b \in Blocks}

(* An envelope of 240 blocks; a burst may fade in its middle.  A spectrum  *)
(* of 40 bins, two to the MHz.                                             *)
FadesAt(b) == (b.at + 10)..(b.at + 9 + b.fade)
Envelope(bursts) ==
    Tuple([i \in 1..240 |->
             Max({1 + (i % 2)} \cup {bursts[k].level :
                    k \in {m \in DOMAIN bursts : /\ i \in bursts[m].at..bursts[m].at + bursts[m].len - 1
                                                  /\ i \notin FadesAt(bursts[m])}})])
Spectrum(bands) == [i \in 1..40 |-> Max({1} \cup {b.power : b \in {c \in bands : i \in c.lo..c.hi}})]

(* The spectrogram of a window of eight frames and eight bins: a rectangle *)
(* of power, but for the frames in which it dips.                          *)
Lit(r, t, f) == t \in r.frames \ r.dips /\ f \in r.bins
Spectrogram(rects) ==
    [t \in 1..8 |-> [f \in 1..8 |-> Max({1} \cup {r.power : r \in {q \in rects : Lit(q, t, f)}})]]

(* An emitter's bursts: the channel of each, its start, late or not, and a *)
(* centre that drifts.                                                     *)
BurstsOf(e) ==
    [i \in 1..e.n |->
       Event(e.period * (i - 1) + IF i \in e.late THEN 100 ELSE 0, e.dur,
             e.base + e.spacing * ((i * e.step) % e.channels) + e.drift * i, e.bw, e.clipped)]
OnTheAir(emitters) == FlattenSeq([i \in DOMAIN emitters |-> BurstsOf(emitters[i])])

(* Fourteen windows of a second, with the beacons of a drone heard in them. *)
BeaconAt(j, k) == j.period * k
SessionWindow(j, w) ==
    LET in == {k \in j.beacons : BeaconAt(j, k) \div 20000 = w - 1}
    IN  [at |-> 20000 * (w - 1), strong |-> TRUE,
         heard |-> [i \in 1..Cardinality(in) |->
                      Event(BeaconAt(j, CHOOSE k \in in : Cardinality({m \in in : m < k}) = i - 1)
                              - 20000 * (w - 1), 12, 243000, 900, FALSE)],
         shape |-> [noise |-> w \in j.quiet, bw |-> 900, continuous |-> FALSE,
                    bursts |-> Cardinality(in), flat |-> TRUE, duty |-> 1]]

-----------------------------------------------------------------------------
GolayCases == [data : Words, errors : {{a, b, c, d} : a, b, c, d \in 0..22} \cup {{}}]
BurstCases ==
    [netid : {{0, 9, 12}}, payload : Payloads, ecc : BOOLEAN, inverted : BOOLEAN,
     trailer : {[window |-> {0, 12}, command |-> {0}, bonus |-> {}, resend |-> {0}]},
     preamble : {{}, {12, 20, 40}, {12, 20, 30, 40}}, sync : {{}, {3, 16}, {1, 2, 3}},
     body : Flips, est : 1..3]
ChannelCases == [board : Boards, n : 1..50, seen : 3..50]
PassCases == [attempts : UNION {[1..k -> {"sweeps", "none", "failed"}] : k \in 1..3},
              kept : {"none", "new", "old"}]
ModelCases == [looks : Looks, active : {"v1", "v2"}]

Cases ==
  [golay |-> GolayCases, burst |-> BurstCases, code |-> Codes, turbo |-> TurboCases,
   frame |-> Frames, envelope |-> Envelopes, spectrum |-> Spectra, window |-> Windows,
   hops |-> Schedules, channels |-> ChannelCases, file |-> Files, pass |-> PassCases,
   band |-> Bands, scan |-> Scans, grid |-> Grids, scene |-> Scenes, model |-> ModelCases,
   session |-> Sessions, loading |-> Loadings, bench |-> Corpora, probe |-> Probes,
   budget |-> Budgets, trainer |-> Trainings]

Regions(scan) ==
    LET Of(f) == SetToSeq(FrameRegions(f, scan[f].smooth, scan[f].raw, scan[f].peak, 2))
    IN  SortSeq(FlattenSeq([f \in DOMAIN scan |-> Of(f)]),
                LAMBDA a, b : \/ CentreOf(a) < CentreOf(b)
                              \/ CentreOf(a) = CentreOf(b) /\ a.frame < b.frame)

Result(kind, j) ==
    CASE kind = "golay" -> Decode12(Xor(Codeword(j.data), j.errors))
      [] kind = "burst" -> DecodeOneBurst(1..3, j.est, Heard(j))
      [] kind = "code" -> [sent |-> Selected(j.k + 4, j.e), pi |-> Qpp(j)]
      [] kind = "turbo" -> DecodeFrameBits(SmallCode, j.bits)
      [] kind = "frame" -> DecodeFrame(TurboPayload(PackDjiFrame(j), 82))
      [] kind = "envelope" -> Segments(Envelope(j), 8)
      [] kind = "spectrum" -> CentreHypotheses(Spectrum(j), 2)
      [] kind = "window" -> DecodeAll(j.cands, j.most, j.budget)
      [] kind = "hops" -> SeedCandidates(Observed(j), j.n, HopMaps(j.n))
      [] kind = "channels" -> NumChannels(j.board, NominalSpacing(j.board, j.n), j.seen)
      [] kind = "file" -> ParseSweeps(Readable(SweepFile(j.order, j.segments, j.sweeps), j.lost))
      [] kind = "pass" -> SweepOnce(j.attempts, j.kept)
      [] kind = "band" -> BinRow(BuildGrid(j.lo, j.hi, j.bin),
                                 StepCenters(j.lo, j.hi, j.stride), j.stride, j.res)
      [] kind = "scan" -> [clusters |-> Cluster(Regions(j), 2),
                           ranked |-> RankCandidates(Regions(j), 2, Len(j), 10)]
      [] kind = "grid" -> DetectBursts(Spectrogram(j.rects), j.most)
      [] kind = "scene" -> AnalyzeRaster(OnTheAir(j.emitters), j.frame, j.bin)
      [] kind = "model" -> ClassifyRun(j.looks, j.active)
      [] kind = "session" -> ProcessRun([w \in 1..14 |-> SessionWindow(j, w)], 4, 2)
      [] kind = "loading" -> UsedRows(j.windows, j.limit)
      [] kind = "bench" -> Benchmark(j.zenodo, j.antsdr, j.rub)
      [] kind = "probe" -> Probe(j.rows, j.held, j.margin)
      [] kind = "budget" -> BudgetMet(j)
      [] kind = "trainer" -> TrainAndSave(j.dataset, j.files, j.cap, j.draw)

OfflineInit == /\ \E kind \in DOMAIN Cases : \E j \in Cases[kind] : job = <<kind, j>>
               /\ out = "pending"
Run == /\ out = "pending"
       /\ out' = <<Result(job[1], job[2])>>
       /\ UNCHANGED job
Done == out # "pending" /\ UNCHANGED offlineVars
OfflineNext == Run \/ Done
OfflineSpec == OfflineInit /\ [][OfflineNext]_offlineVars

-----------------------------------------------------------------------------
Ran(kind) == job[1] = kind /\ out # "pending"

(* Golay and burst (golay.py, pipeline.py): every pattern of at most three *)
(* bit errors in a codeword is corrected, and four errors always give other *)
(* data than was sent.  A burst that is reported is the one that was sent, *)
(* whatever the polarity, the errors and the hypothesis tried first; and it *)
(* is reported if its errors are within what the preamble gate, the sync   *)
(* search and the Golay code allow (without Golay nothing is corrected) and *)
(* the air rate is estimated at most one step off.                         *)
BurstTrue ==
    /\ Ran("golay") => (out[1] = job[2].data <=> Cardinality(job[2].errors) <= 3)
    /\ Ran("burst") =>
         LET j == job[2]
             within == /\ Cardinality({n \in j.preamble : n > 8}) <= 3
                       /\ Cardinality(j.sync) <= 2
                       /\ Cardinality(j.body) <= IF j.ecc THEN 3 ELSE 0
         IN  /\ out[1] # <<>> => /\ out[1][1].netid = j.netid /\ out[1][1].payload = j.payload
                                 /\ out[1][1].trailer = <<j.trailer>> /\ out[1][1].ecc = j.ecc
             /\ within => out[1] # <<>>

(* A DroneID frame is read as it was packed, and flagged for what is not    *)
(* plausible in it only.  Every bit of the code is sent, the interleaver   *)
(* is a permutation, and a block with one bit in eight received wrong, or  *)
(* with a burst of 26 wrong, is still the block that was sent; whatever is *)
(* wrong, no other block is ever returned (turbo.py, frame.py).            *)
FramesTrue ==
    /\ Ran("code") =>
         /\ Cardinality(Range(out[1].sent)) = 3 * (job[2].k + 4)
         /\ Range(out[1].pi) = 1..job[2].k
    /\ Ran("turbo") =>
         LET j == job[2]
             within == \/ Max(j.hit \cup {0}) - Min(j.hit \cup {300}) < 26
                       \/ \A a, b \in j.hit : a < b => b - a >= 8
         IN  /\ out[1] # <<>> => SubSeq(out[1][1], 1, Len(j.block)) = j.block
             /\ within => out[1] # <<>>
    /\ Ran("frame") =>
         /\ out[1] # <<>>
         /\ \A name \in DOMAIN out[1][1].frame : out[1][1].frame[name] = job[2][name]
         /\ \A who \in {"drone", "operator", "home"} :
              (\E flag \in out[1][1].flags : flag[1] = who) => <<who, "zero">> \in out[1][1].flags
         /\ (job[2].product_type = 58) = (<<"product_type", "unknown">> \notin out[1][1].flags)

(* A loud burst of DroneID's length, silence around it, is one segment even *)
(* when it fades for a tenth of a millisecond.  A band of DroneID's width   *)
(* gives a hypothesis of its centre whatever is stronger elsewhere.  With  *)
(* no budget every burst is decoded whose centre is among its hypotheses,  *)
(* or near enough to the best of them for the fine grid, whatever happens  *)
(* to the others; with one, no more centres are tried than it allows and   *)
(* one of the first candidate's, no candidate goes before one of DroneID's *)
(* width, what is skipped is told, and frames in sequence are not flagged   *)
(* (droneid.py).                                                           *)
BurstsTried ==
    /\ Ran("envelope") =>
         \A k \in DOMAIN job[2] :
           LET b == job[2][k]
               silent == \A m \in DOMAIN job[2] \ {k} :
                           \/ job[2][m].at > b.at + b.len + 5
                           \/ job[2][m].at + job[2][m].len + 5 < b.at
           IN  silent /\ b.level > 4 /\ b.len \in 20..75 /\ b.fade <= 5 =>
                 Cardinality({i \in DOMAIN out[1] : /\ out[1][i].start = b.at
                                                    /\ out[1][i].end = b.at + b.len - 1}) = 1
    /\ Ran("spectrum") =>
         \A b \in job[2] :
           /\ b.hi - b.lo + 1 \in 8..22 /\ b.lo > 3 /\ b.hi < 38
           /\ \A c \in job[2] \ {b} : c.lo > b.hi + 2 \/ c.hi < b.lo - 2
           => \E i \in DOMAIN out[1] : SameCentre(out[1][i], b.lo + b.hi - 1 - 40, 2)
    /\ Ran("window") =>
         LET j == job[2]
             as == out[1].attempts
             Started == {as[i].cand : i \in DOMAIN as}
             Reachable(c) ==
               \/ c.truth \in Range(c.hyps)
               \/ LET best == BestOf(c, c.hyps)
                      s == PilotScores(c, best)
                  IN  s[1] < RefineBelow /\ s[2] >= Gate /\ Magnitude(best - c.truth) <= 4
         IN  /\ j.budget = 1000 /\ j.most >= Cardinality(j.cands) =>
                  \A c \in j.cands : /\ ~c.raises /\ c.frame # <<>> /\ c.zc6[1] >= Confirm /\ Reachable(c)
                                      => \E i \in DOMAIN as : as[i].cand = c /\ as[i].level = "C"
             /\ out[1].clock <= Max({j.budget, 1})
             /\ \A c \in Started, d \in j.cands \ Started : d.shaped => c.shaped
             /\ Cardinality(Started) < Min({j.most, Cardinality(j.cands)}) =>
                  \E i \in DOMAIN as : "candidates skipped" \in as[i].notes
             /\ out[1].flagged # {} =>
                  \E a, b \in Started : /\ a.frame # <<>> /\ b.frame # <<>> /\ a.start < b.start
                                         /\ b.frame[1] - a.frame[1] # 1

(* The seed a link hops with is among the candidates if at most two hops of *)
(* enough were misheard; and the channel count reported can hold every     *)
(* channel seen and has the spacing seen, wherever some count does.        *)
HopsTrue ==
    /\ Ran("hops") =>
         (Cardinality(job[2].misheard \cap 1..job[2].hops) <= job[2].hops - Max({5, job[2].hops - 2})
            => job[2].seed \in out[1])
    /\ Ran("channels") =>
         LET j == job[2]
             able == {n \in j.seen..50 : NominalSpacing(j.board, n) = NominalSpacing(j.board, j.n)}
         IN  able # {} => out[1] \in able

(* A window is labelled by a bundle only with the features it was trained  *)
(* on; and once the file holds a whole bundle for these features, under a  *)
(* time of modification no other content had, it is that bundle's label    *)
(* (model.py).                                                             *)
ModelTrue ==
    Ran("model") =>
      LET j == job[2]
          Clean(f, i) == \A k \in 1..i :
                            j.looks[k].mtime = f.mtime => j.looks[k].content = f.content
      IN  \A i \in DOMAIN out[1] :
            LET first == j.looks[2 * i - 1]
                second == j.looks[2 * i]
                from == out[1][i].from
            IN  /\ from # <<>> => from[1].features = j.active
                /\ /\ first = second /\ Clean(first, 2 * i)
                   /\ first.content.kind = "bundle"
                   => from = IF first.content.features = j.active THEN <<first.content>> ELSE <<>>

(* The passes over the band that lost a row of the file, and the first that *)
(* lost the row it begins with: from there on the sweeps are cut elsewhere. *)
PassOf(j, k) == (k - 1) \div Len(j.order) + 1
RowsLost(j) == j.lost \cap 1..(Len(j.order) * j.sweeps)
Hurt(j) == {PassOf(j, k) : k \in RowsLost(j)}
CutMoves(j) == Min({PassOf(j, k) : k \in {l \in RowsLost(j) : (l - 1) % Len(j.order) = 0}}
                   \cup {j.sweeps + 1})
Returned(j, p) == \E i \in DOMAIN out[1] : /\ Range(out[1][i]) = {p}
                                          /\ DOMAIN out[1][i] = UNION Range(j.segments)

(* What rows that cannot be read cost: every pass that lost none is         *)
(* returned whole, up to the first pass whose first row is lost; the cut    *)
(* between sweeps moves there, and a later sweep may be made of two passes  *)
(* (the comment in parse_sweep_csv_multi does not expect that).            *)
(* No sweep is made of more passes than one and the rows lost, the sweeps   *)
(* keep their order, and without losses they are the passes.  A live sweep  *)
(* returns another sweep's file only if its process never ran and the       *)
(* caller asked to keep a file that was there.  And dwells tile the band: a *)
(* grid point that no dwell reaches lies in the seam between two of them,   *)
(* nearer to it than the dwells' own resolution (scan/sweep.py,             *)
(* sdr/sweep.py).                                                           *)
ScansAreWhole ==
    /\ Ran("file") =>
         LET j == job[2]
             from(i) == Range(out[1][i])
         IN  /\ \A p \in 1..CutMoves(j) - 1 : p \in Hurt(j) \/ Returned(j, p)
             /\ \A i \in DOMAIN out[1] :
                  /\ Max(from(i)) - Min(from(i)) <= Cardinality(RowsLost(j))
                  /\ Cardinality(from(i)) > 1 => Max(from(i)) >= CutMoves(j)
                  /\ \A k \in i + 1..Len(out[1]) : Max(from(i)) <= Min(from(k))
             /\ j.lost = {} => Len(out[1]) = j.sweeps
    /\ Ran("pass") =>
         (out[1] = "old" => job[2].kept = "old" /\ job[2].attempts[1] # "sweeps")
    /\ Ran("band") =>
         LET j == job[2]
             cs == StepCenters(j.lo, j.hi, j.stride)
         IN  \A g \in BuildGrid(j.lo, j.hi, j.bin) \ out[1] :
               \E i \in DOMAIN cs : AbsOf(g - (cs[i] + j.stride \div 2)) < j.res

(* Every hot region belongs to one cluster; two clusters that are near are  *)
(* one; the members of a hop set are those linked, directly or through     *)
(* others; and the candidates are ranked by score.                         *)
CandidatesTrue ==
    Ran("scan") =>
      LET cs == out[1].clusters
          all == Regions(job[2])
          ranked == out[1].ranked
      IN  /\ Len(FlattenSeq(cs)) = Len(all) /\ Range(FlattenSeq(cs)) = Range(all)
          /\ \A i \in 1..Len(cs) - 1 : GapOf(Extent(cs[i]), Extent(cs[i + 1])) > 2
          /\ \A a, b \in DOMAIN cs : Linked(cs[a], cs[b]) =>
               \E g \in HopGroups(cs) : {a, b} \subseteq g
          /\ \A i \in 1..Len(ranked) - 1 :
               Score(ranked[i], Len(job[2])) >= Score(ranked[i + 1], Len(job[2]))

(* How far a scan can be trusted from the file to the ranked candidates:    *)
(* passes are mixed only from the first lost first row on, nothing of the   *)
(* band is silently skipped but the seams of its dwells, and no hot region  *)
(* is lost or counted twice.                                                *)
ScanTrue == ScansAreWhole /\ CandidatesTrue

(* A burst that stands alone in the spectrogram, dips for one frame at most *)
(* and is among the strongest that may be reported is reported once, with  *)
(* its frames and its bins, whatever else is on the air (one that begins in *)
(* the second frame, or ends in the last but one, is told to touch the     *)
(* edge); and nothing is reported where nothing was armed (bursts.py).     *)
BurstsWhole ==
    Ran("grid") =>
      LET rects == job[2].rects
          Alone(r) == \A q \in rects \ {r} : \A f \in r.bins : q.bins \cap (f - 1)..(f + 1) = {}
          Steady(r) == \A t \in r.dips : t + 1 \notin r.dips
          Told(e, r) == /\ e.first = IF 2 \in r.frames THEN 1 ELSE Min(r.frames)
                        /\ e.last = IF 7 \in r.frames THEN 8 ELSE Max(r.frames)
                        /\ e.lo = Min(r.bins) /\ e.hi = Max(r.bins)
      IN  /\ \A r \in rects :
               /\ Alone(r) /\ Steady(r) /\ r.power > 4
               /\ Cardinality({q \in rects : q.power >= r.power}) <= job[2].most
               => Cardinality({e \in out[1] : Told(e, r)}) = 1
          /\ \A e \in out[1] : \E r \in rects : r.power >= 4 /\ r.frames \cap e.first..e.last # {}

(* What a scene is told to be needs emitters that are: the labels of a hop *)
(* need as many channels as they claim, so one emitter whose centre drifts *)
(* is never a hopper; what the beacons of an access point explain is not    *)
(* told a link, nor the interval of a BLE connection where the frames are  *)
(* short enough to measure it; a drone's beacons alone are told once they  *)
(* span three seconds (raster.py).  A window is told a drone's by its run  *)
(* only on five beacons or more that were heard within ten seconds of each *)
(* other, and never when it is noise (pipeline.py).                        *)
LinksTold ==
    /\ Ran("scene") =>
         LET es == Range(job[2].emitters)
             channels == FoldSet(LAMBDA e, n : n + e.channels, 0, es)
             labels == out[1].labels
         IN  /\ "hopping" \in labels => channels >= 5
             /\ labels \cap {"fhss1", "fhss2"} # {} => channels >= 10
             /\ (\E e \in es : e.kind = "wifi") => labels \cap {"fhss1", "fhss2", "rc"} = {}
             /\ (\A e \in es : e.kind = "ble") /\ 2 * job[2].frame <= 20 => labels \cap {"fhss1", "fhss2", "rc"} = {}
             /\ (\A e \in es : e.kind = "drone" /\ 12800 * (e.n - 1) >= 60000) => "droneid" \in labels
    /\ Ran("session") =>
         \A w \in DOMAIN out[1] : out[1][w].told.promoted =>
           /\ w \notin job[2].quiet
           /\ \E k \in job[2].beacons :
                LET At(n) == BeaconAt(job[2], n)
                IN  /\ At(k) < 20000 * w
                    /\ Cardinality({m \in job[2].beacons : m <= k /\ At(k) - At(m) <= 200000}) >= 5

(* From a window's spectrogram to what is said of its emitters, no burst is *)
(* lost or made up, and no label is given that the bursts do not bear out. *)
SignalsTrue == BurstsWhole /\ LinksTold

(* What is reported of a classifier rests on recordings it was not trained *)
(* on: no fold of a tier tests, or keeps for its negatives, a group it     *)
(* trains on, nor tier A a drone model; every group is tested once; a      *)
(* corpus given twice leaves no fold of tier A, nor of tier D if it has    *)
(* drone signals (benchmark_features_v2.py).  The windows of a run without *)
(* typed fields are all used or none is, and those whose fields are good   *)
(* are used.  The first trainer splits a recording only when there is one, *)
(* or one frame of each (train.py, data.py).                               *)
FoldsAreFair ==
    /\ Ran("bench") /\ out[1].exit = 0 =>
         LET b == out[1]
             Models(R) == {<<r.ds, r.dev>> : r \in R}
             Once(R, folds) == \A g \in GroupsIn(R) :
                                 Cardinality({f \in folds : g \in GroupsIn(f.test)}) = 1
         IN  /\ \A f \in b.a \cup b.b \cup b.d :
                  GroupsIn(f.train) \cap GroupsIn(f.test \cup f.reserved) = {}
             /\ \A f \in b.a : Models(DroneLink(f.train)) \cap Models(f.test) = {}
             /\ b.a # {} => Once(DroneLink(job[2].zenodo), b.a)
             /\ b.d # {} => Once(job[2].antsdr, b.d)
    /\ Ran("bench") /\ job[2].zenodo = job[2].antsdr =>
         (out[1].exit = 0 =>
            out[1].a = {} /\ (DroneLink(job[2].zenodo) # {} => out[1].d = {}))
    /\ Ran("loading") /\ job[2].limit = 0 =>
         LET ws == job[2].windows
             good == {i \in DOMAIN ws : ws[i].tensor = "good"}
         IN  /\ \A i, k \in {n \in good : ws[n].typed = "absent"} :
                  ws[i].run = ws[k].run => (i \in out[1] <=> k \in out[1])
             /\ \A i \in good : ws[i].typed = "ok" => i \in out[1]
    /\ Ran("trainer") =>
         LET fr == out[1].frames
             val == out[1].split.val
         IN  \/ \A i, k \in DOMAIN fr : fr[i].file = fr[k].file => (i \in val <=> k \in val)
             \/ ~out[1].split.grouped /\ Cardinality({fr[i].group : i \in DOMAIN fr}) = 1
                                     /\ fr[1].group # <<>>

(* The probe succeeds only on rows of one class, of two receivers at least, *)
(* each with five recordings or more: with fewer some fold cannot test all *)
(* receivers, and a fold that cannot makes the verdict inconclusive.  A    *)
(* budget is met only if no window of any session was told a hop of a grid, *)
(* and none a drone's, by its own labels, by what was put on top, or by the *)
(* session at its end (receiver_id_probe.py, stage1_fa_budget.py).         *)
VerdictsEarned ==
    /\ Ran("probe") /\ out[1].exit = 0 =>
         LET S == out[1].subset
         IN  /\ Cardinality({r.cls : r \in S}) = 1 /\ Cardinality({r.ds : r \in S}) >= 2
             /\ \A d \in {r.ds : r \in S} :
                  Cardinality(GroupsIn({r \in S : r.ds = d})) >= 5
    /\ Ran("budget") /\ out[1] =>
         \A i \in DOMAIN job[2] :
           LET s == job[2][i]
           IN  \A w \in DOMAIN s : /\ s[w].labels \cap {"fhss1", "fhss2", "droneid"} = {}
                                    /\ s[w].morphology # "droneid"
                                    /\ w = Len(s) => ~s[w].cadence

(* No figure or verdict of the classifier's scripts comes from a recording  *)
(* on both sides of a split, or from too few receivers or sessions.        *)
VerdictsTrue == FoldsAreFair /\ VerdictsEarned
=============================================================================
