---------------------------- MODULE LinkSignature ----------------------------
(***************************************************************************)
(* Stage 1: the bursts of a window cut out of its spectrogram, and the     *)
(* labels their channels, periods and cadences are given.                  *)
(*                                                                         *)
(* Frequencies are in units of 10 kHz, times in units of 50 us, powers in  *)
(* multiples of the noise floor.  Circular means are taken over a circle   *)
(* of 64 directions, cosines in per cent.                                  *)
(***************************************************************************)
EXTENDS Integers, Sequences, FiniteSets, SequencesExt, FiniteSetsExt

Magnitude(x) == IF x < 0 THEN -x ELSE x
SumSeq(s) == FoldLeft(LAMBDA a, x : a + x, 0, s)
MedianOf(s) ==
    LET t == SortSeq(s, <)
    IN  (t[(Len(t) + 1) \div 2] + t[Len(t) \div 2 + 1]) \div 2
Diffs(s) == [i \in 1..Len(s) - 1 |-> s[i + 1] - s[i]]
Mapped(f(_), s) == [i \in DOMAIN s |-> f(s[i])]
(* The first of those for which f is greatest.                             *)
FirstMax(f(_), S) == LET most == Max({f(x) : x \in S}) IN Min({x \in S : f(x) = most})

-----------------------------------------------------------------------------
(* bursts.py.  power[t][f] is the spectrogram of a window.                 *)

Pixels(power) == (DOMAIN power) \X (DOMAIN power[1])

(* _bridge_1frame_gaps: a bin is held over one frame in which it dips.     *)
Bridged(power, low) ==
    LET Dilated(t, f) == \E u \in {t - 1, t, t + 1} \cap DOMAIN power : <<u, f>> \in low
    IN  {p \in Pixels(power) :
           \A u \in {p[1] - 1, p[1], p[1] + 1} \cap DOMAIN power : Dilated(u, p[2])}

(* label: the components of neighbours in time or in frequency.            *)
Touch(p, q) == Magnitude(p[1] - q[1]) + Magnitude(p[2] - q[2]) = 1
Components(pixels) ==
    LET Add(p, cs) ==
          LET near == {c \in cs : \E q \in c : Touch(p, q)}
          IN  (cs \ near) \cup {{p} \cup UNION near}
    IN  FoldSet(Add, {}, pixels)

(* _channelise: components held at twice the floor and armed at four times *)
(* it somewhere; the strongest maxEvents of them.                          *)
PeakPower(power, c) == Max({power[p[1]][p[2]] : p \in c})
Armed(power) ==
    LET low == {p \in Pixels(power) : power[p[1]][p[2]] >= 2}
    IN  {c \in Components(Bridged(power, low)) : PeakPower(power, c) >= 4}
Strongest(power, cs, maxEvents) ==
    {c \in cs : Cardinality({d \in cs : PeakPower(power, d) > PeakPower(power, c)}) < maxEvents}

(* _edge_cross: from the peak of the component's own bins to where the     *)
(* time-integrated power has fallen to a quarter.                          *)
Profile(power, c) ==
    LET frames == {p[1] : p \in c}
    IN  [f \in DOMAIN power[1] |-> FoldSet(LAMBDA t, s : s + power[t][f], 0, frames)]
Edge(profile, peak, step) ==
    LET beyond == {k \in 1..Len(profile) : /\ peak + step * k \in DOMAIN profile
                                           /\ 4 * profile[peak + step * k] < profile[peak]}
    IN  IF beyond = {} THEN [at |-> IF step = 1 THEN Len(profile) ELSE 1, clipped |-> TRUE]
        ELSE [at |-> peak + step * (Min(beyond) - 1), clipped |-> FALSE]

BurstOf(power, c) ==
    LET frames == {p[1] : p \in c}
        own == {p[2] : p \in c}
        profile == Profile(power, c)
        peak == FirstMax(LAMBDA f : profile[f], own)
        left == Edge(profile, peak, -1)
        right == Edge(profile, peak, 1)
    IN  [first |-> Min(frames), last |-> Max(frames), lo |-> left.at, hi |-> right.at,
         clipped |-> \/ left.clipped \/ right.clipped
                     \/ 1 \in frames \/ Len(power) \in frames]

DetectBursts(power, maxEvents) ==
    {BurstOf(power, c) : c \in Strongest(power, Armed(power), maxEvents)}

-----------------------------------------------------------------------------
(* raster.py: concentration on a period.                                   *)

Quarter == <<100, 100, 98, 96, 92, 88, 83, 77, 71, 63, 56, 47, 38, 29, 20, 10, 0>>
Cosine(k) == CASE k <= 16 -> Quarter[k + 1] [] k \in 17..32 -> -Quarter[33 - k]
               [] k \in 33..48 -> -Quarter[k - 31] [] OTHER -> Quarter[65 - k]

(* _rayleigh_stat: the squared length of the sum of the unit vectors.      *)
Resultant(values, period) ==
    LET Direction(v) == ((v % period) * 64) \div period
        c == SumSeq(Mapped(LAMBDA v : Cosine(Direction(v)), values))
        s == SumSeq(Mapped(LAMBDA v : Cosine((Direction(v) + 48) % 64), values))
    IN  c * c + s * s
Concentrated(values, period, percent) ==
    Resultant(values, period) >= (percent * Len(values)) * (percent * Len(values))

(* An event is a burst at its start, its duration, its centre, its width    *)
(* and whether an edge of the window cut it off.                           *)
Event(start, dur, centre, bw, clipped) ==
    [start |-> start, dur |-> dur, centre |-> centre, bw |-> bw, clipped |-> clipped]
Starts(events) == SortSeq(Mapped(LAMBDA e : e.start, events), <)
ByStart(events) == SortSeq(events, LAMBDA a, b : a.start < b.start)

(* cluster_centres: neighbours by centre, not further apart than three     *)
(* quarters of the wider one's width (0.1 MHz at least, 1.875 at most),    *)
(* nor the cluster wider than 5 MHz.                                       *)
ChannelClusters(events) ==
    LET usable == SortSeq(SelectSeq(events, LAMBDA e : ~e.clipped),
                          LAMBDA a, b : a.centre < b.centre)
        Parts(c, e) == \/ 4 * (e.centre - Last(c).centre)
                            > Min({750, Max({40, 3 * Last(c).bw, 3 * e.bw})})
                       \/ e.centre - c[1].centre > 500
        Join(acc, e) == IF acc = <<>> \/ Parts(Last(acc), e) THEN Append(acc, <<e>>)
                        ELSE Front(acc) \o <<Append(Last(acc), e)>>
    IN  FoldLeft(Join, <<>>, usable)

(* _make_cluster, _repeat_clusters.                                        *)
MeanCentre(c) == SumSeq(Mapped(LAMBDA e : e.centre, c)) \div Len(c)
MedianBw(c) == MedianOf(Mapped(LAMBDA e : e.bw, c))
Repeated(clusters) == SelectSeq(clusters, LAMBDA c : Len(c) >= 2)

(* raster_test: the widest spacing the centres of ten channels sit on, of  *)
(* the six and the one a free search finds; <<>> if none.                  *)
Spacings == {60, 100, 150, 200, 250, 500}
FreeSpacing(centres) == FirstMax(LAMBDA d : Resultant(centres, d), {10 * k : k \in 3..60})
Passing(centres) ==
    {d \in Spacings \cup {FreeSpacing(centres)} : Concentrated(centres, d, 93)}
Widest(passing) == IF passing = {} THEN <<>> ELSE <<Max(passing)>>
RasterSpacing(clusters) ==
    IF Len(clusters) < 10 THEN <<>> ELSE Widest(Passing(Mapped(MeanCentre, clusters)))

(* _grid_resolution_guard: bins fine enough for the spacing and the bursts. *)
Resolved(clusters, d, bin) ==
    20 * bin <= d /\ MedianOf(Mapped(MedianBw, clusters)) >= 8 * bin

(* _duration_histogram: the commonest of the five bins.                    *)
DurationMode(events) ==
    LET BinOf(d) == Cardinality({x \in {8, 20, 60, 200} : x <= d})
        Count(b) == Len(SelectSeq(events, LAMBDA e : BinOf(e.dur) = b))
    IN  FirstMax(Count, 0..4)

(* period_test: the median of the intervals that a frame can tell apart,   *)
(* if they concentrate on it; a period of the ELRS set if one is near.      *)
ElrsPeriods == {400, 133, 80, 40, 20}
PeriodTest(clusters, frame) ==
    LET events == FlattenSeq(clusters)
        dts == SelectSeq(Diffs(Starts(events)), LAMBDA d : d >= frame)
        t0 == MedianOf(dts)
        near == {p \in ElrsPeriods : 20 * Magnitude(p - t0) <= t0}
        none == [t |-> <<>>, passed |-> FALSE, n |-> Len(dts), elrs |-> FALSE, ble |-> FALSE]
    IN  IF Len(events) < 2 \/ Len(dts) < 10 THEN none
        ELSE IF t0 >= 19623 \/ 2 * frame > 20 THEN none
        ELSE [t |-> <<IF near = {} THEN t0
                      ELSE CHOOSE p \in near : \A q \in near : Magnitude(p - t0) <= Magnitude(q - t0)>>,
              passed |-> Concentrated(dts, t0, 93), n |-> Len(dts), elrs |-> near # {},
              ble |-> Concentrated(dts, t0, 90)]

-----------------------------------------------------------------------------
(* raster.py: cadences.                                                    *)

(* _wifi_beacon_like: a channel of 16 MHz on a multiple of 102.4 ms.        *)
WifiBeaconLike(c) ==
    /\ MedianBw(c) >= 1600 /\ Len(c) >= 3
    /\ \E k \in 1..5 : Concentrated(Starts(c), 2048 * k, 85)

(* _wideband_events, _wideband_groups.                                     *)
Wideband(events) == SelectSeq(events, LAMBDA e : e.bw >= 800 \/ e.clipped)
WidebandGroups(events) ==
    LET Join(acc, e) == IF acc = <<>> \/ e.centre - Last(Last(acc)).centre > 300
                        THEN Append(acc, <<e>>) ELSE Front(acc) \o <<Append(Last(acc), e)>>
    IN  FoldLeft(Join, <<>>, SortSeq(Wideband(events), LAMBDA a, b : a.centre < b.centre))

(* _wifi_beacon_like_wideband: most intervals of a group are a multiple of *)
(* 102.4 ms, or up to 8 ms late.                                           *)
BeaconInterval(dt) ==
    LET k == (dt + 1024) \div 2048 IN k \in 1..5 /\ dt - 2048 * k \in -10..160
WidebandBeacon(events) ==
    LET groups == WidebandGroups(events)
        On(g) == LET dts == Diffs(Starts(g))
                     ok == Len(SelectSeq(dts, BeaconInterval))
                 IN  Len(g) >= 4 /\ ok >= 3 /\ 10 * ok >= 6 * Len(dts)
    IN  \E i \in DOMAIN groups : On(groups[i])

(* _ble_connection_like: twenty narrow channels on a connection interval.   *)
BleConnectionLike(clusters, period) ==
    /\ clusters # <<>> /\ period.t # <<>> /\ ~period.elrs
    /\ LET t == period.t[1]
       IN  t \in 150..80000 /\ Magnitude(t - 25 * ((2 * t + 25) \div 50)) <= 3
    /\ \A i \in DOMAIN clusters : MedianBw(clusters[i]) <= 200
    /\ Len(clusters) >= 20 /\ period.ble

(* _droneid_cadence_candidate.                                             *)
DroneIdCadence(c) ==
    /\ MedianBw(c) \in 700..1100 /\ Len(c) >= 5
    /\ LET t == Starts(c) IN Last(t) - t[1] >= 60000 /\ Concentrated(t, 12800, 90)

(* cadence_discount.                                                       *)
CadenceTags(clusters, period, events) ==
    LET wifi == {i \in DOMAIN clusters : WifiBeaconLike(clusters[i])}
    IN  [wifi |-> wifi, beacon |-> wifi # {} \/ WidebandBeacon(events),
         ble |-> BleConnectionLike(clusters, period),
         droneid |-> \E i \in DOMAIN clusters : DroneIdCadence(clusters[i])]

(* fixed_vs_hopping: one channel that keeps its centre, or five narrow ones *)
(* used twice and in no order.                                             *)
OneChannel(c) ==
    LET d == Mapped(LAMBDA e : e.centre - c[1].centre, c)
        n == Len(c)
        varNN == n * SumSeq(Mapped(LAMBDA x : x * x, d)) - SumSeq(d) * SumSeq(d)
    IN  MedianBw(c) > 0 /\ 16 * varNN < n * n * MedianBw(c) * MedianBw(c)
Hops(clusters) ==
    LET narrow == SelectSeq(clusters, LAMBDA c : MedianBw(c) <= 250)
        events == ByStart(FlattenSeq(narrow))
        x == LET mean == SumSeq(Mapped(LAMBDA e : e.centre, events)) \div Len(events)
             IN  Mapped(LAMBDA e : e.centre - mean, events)
        power == SumSeq(Mapped(LAMBDA y : y * y, x))
        lag1 == SumSeq([i \in 1..Len(x) - 1 |-> x[i] * x[i + 1]])
    IN  /\ Len(Repeated(narrow)) >= 5 /\ Len(events) >= 6 /\ Len(events) >= 2 * Len(narrow)
        /\ power > 0 /\ Magnitude(lag1) < 3 * (power \div 10)
FixedOrHopping(clusters) ==
    IF Len(clusters) = 1
    THEN IF OneChannel(clusters[1]) THEN {"fixed"} ELSE {}
    ELSE IF Hops(clusters) THEN {"hopping"} ELSE {}

-----------------------------------------------------------------------------
(* analyze_raster: the labels of a window's events, frame and bin being    *)
(* its resolution in time and in frequency (the tag that says this is too  *)
(* coarse is left out).                                                    *)
GridLabel(clusters, d, bin) ==
    IF d = <<>> \/ ~Resolved(clusters, d[1], bin) THEN {}
    ELSE {l \in {"fhss1", "fhss2"} :
            IF l = "fhss1" THEN Magnitude(d[1] - 100) <= 10 ELSE Magnitude(d[1] - 200) <= 20}
GridLabels(clusters, bin) == GridLabel(clusters, RasterSpacing(clusters), bin)

(* Defective: a BLE connection explains nothing. *)
SuppressedByWifi(labels, cadence) == IF cadence.beacon THEN {} ELSE labels

(* What a cadence of Wi-Fi or BLE explains is not said of a link.          *)
Suppressed(labels, cadence) == IF cadence.beacon \/ cadence.ble THEN {} ELSE labels

RcLike(clusters, period, cadence, hop) ==
    LET repeated == Repeated(clusters)
    IN  /\ hop = {"hopping"} /\ period.passed /\ period.t # <<>> /\ period.t[1] \in 20..400
        /\ \A i \in DOMAIN repeated : MedianBw(repeated[i]) <= 200
        /\ DurationMode(FlattenSeq(clusters)) \in 0..2
        /\ ~cadence.ble /\ ~cadence.beacon
Labelled(events, bin, clusters, period, cadence, hop) ==
    LET rc == RcLike(clusters, period, cadence, hop)
    IN  [labels |-> Suppressed(GridLabels(clusters, bin), cadence)
                      \cup (IF cadence.droneid THEN {"droneid"} ELSE {})
                      \cup hop \cup (IF rc THEN {"rc"} ELSE {}),
         clusters |-> clusters, period |-> period, cadence |-> cadence,
         tags |-> (IF Len(clusters) < 10 THEN {"insufficient"} ELSE {})
                    \cup (IF cadence.beacon THEN {"wifi_beacon"} ELSE {})
                    \cup (IF cadence.ble THEN {"ble"} ELSE {})
                    \cup (IF Len(Wideband(events)) >= 3 THEN {"wideband"} ELSE {})]
WithPeriod(events, bin, clusters, period) ==
    Labelled(events, bin, clusters, period, CadenceTags(clusters, period, events),
             FixedOrHopping(clusters))
AnalyzeRaster(events, frame, bin) ==
    LET clusters == ChannelClusters(events)
    IN  WithPeriod(events, bin, clusters, PeriodTest(clusters, frame))

-----------------------------------------------------------------------------
(* energy.py.                                                              *)

(* _cluster_cadence_ms: of the channel with most bursts, four at least,    *)
(* unless they are beacons.                                                *)
ClusterCadence(result) ==
    LET cs == result.clusters
        most == FirstMax(LAMBDA i : Len(cs[i]), DOMAIN cs)
        t == MedianOf(Diffs(Starts(cs[most])))
    IN  IF cs = <<>> \/ Len(cs[most]) < 4 \/ most \in result.cadence.wifi \/ t <= 0
        THEN <<>> ELSE <<t>>

(* _morphology: of what is above the floor, a link's label first, then by  *)
(* width and duty.                                                         *)
Priority == <<"droneid", "fhss2", "fhss1", "rc", "hopping">>
Morphology(shape, labels) ==
    LET known == SelectSeq(Priority, LAMBDA l : l \in labels)
    IN  CASE shape.noise -> "noise"
          [] ~shape.noise /\ shape.bw = 0 -> "unknown"
          [] ~shape.noise /\ shape.bw > 0 ->
               IF known # <<>> THEN known[1]
               ELSE IF shape.bw < 200 THEN "narrowband"
               ELSE IF shape.bw < 600 THEN "wideband"
               ELSE IF shape.continuous
                    THEN IF shape.bw >= 1800 THEN "analog" ELSE "continuous_wideband"
               ELSE IF shape.bursts >= 1
                    THEN IF shape.flat THEN "ofdm" ELSE "burst_wideband"
               ELSE IF "fixed" \in labels THEN "fixed" ELSE "wideband"
=============================================================================
