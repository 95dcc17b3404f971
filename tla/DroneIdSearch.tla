--------------------------- MODULE DroneIdSearch ----------------------------
(***************************************************************************)
(* The search of a window for bursts of DJI DroneID (decode/droneid.py):   *)
(* the segments of the envelope, the hypotheses of a burst's centre, their *)
(* trial under a budget of time, and what is told of the frames decoded.   *)
(*                                                                         *)
(* A clock counts the trials of a centre, each of which costs one unit;    *)
(* nothing else takes time.  Scores are per cent.                          *)
(***************************************************************************)
EXTENDS DroneIdCode, LinkSignature

(* find_burst_candidates, _segment_envelope: blocks of 20 us that stand out *)
(* of the median by 3 dB; gaps of up to 5 blocks are closed, and segments   *)
(* of 20 to 75 blocks kept, the strongest first.                           *)
GapBlocks == 5
BurstBlocks == 20..75
Hot(env) ==
    LET t == SortSeq(env, <)
        twiceMedian == t[(Len(t) + 1) \div 2] + t[Len(t) \div 2 + 1]
    IN  {i \in DOMAIN env : 400 * env[i] > 399 * twiceMedian}
Runs(hot) ==
    LET starts == {i \in hot : hot \cap (i - GapBlocks - 1)..(i - 1) = {}}
        ends == {i \in hot : hot \cap (i + 1)..(i + GapBlocks + 1) = {}}
    IN  {[start |-> s, end |-> Min({e \in ends : e >= s})] : s \in starts}
Loudest(env, s) == Max({env[i] : i \in s.start..s.end})
Segments(env, most) ==
    LET kept == {s \in Runs(Hot(env)) : s.end - s.start + 1 \in BurstBlocks}
        Before(s, t) == \/ Loudest(env, s) > Loudest(env, t)
                        \/ Loudest(env, s) = Loudest(env, t) /\ s.start < t.start
    IN  IF env = <<>> THEN <<>>
        ELSE LET all == SetToSortSeq(kept, Before) IN SubSeq(all, 1, Min({most, Len(all)}))

-----------------------------------------------------------------------------
(* A spectrum is a sequence of n powers, perMHz of them to the MHz, the     *)
(* centre of the window between bin n / 2 and the next.  A band is grown    *)
(* over the bins within 10 dB of its peak, across gaps of one bin.          *)
GrowBandBins(psd, peak) ==
    LET above == {i \in DOMAIN psd : 10 * psd[i] > psd[peak]}
    IN  <<Max({k \in 1..peak : above \cap (k - 2)..(k - 1) = {}}),
          Min({k \in peak..Len(psd) : above \cap (k + 1)..(k + 2) = {}})>>

(* _grow_band: the centre in half bins.  A band that is cut by one edge of  *)
(* the window, and narrower than the 9 MHz of DroneID, is centred from the  *)
(* edge that is seen.                                                      *)
EdgeBins == 2
GrowBand(psd, peak, perMHz) ==
    LET n == Len(psd)
        band == GrowBandBins(psd, peak)
        low == 2 * (band[1] - 1) - n
        high == 2 * band[2] - n
        cutLow == band[1] - 1 <= EdgeBins
        cutHigh == band[2] - 1 >= n - 1 - EdgeBins
        narrow == high - low < 18 * perMHz
    IN  [width |-> high - low,
         centre |-> IF cutLow /\ ~cutHigh /\ narrow THEN high - 9 * perMHz
                    ELSE IF cutHigh /\ ~cutLow /\ narrow THEN low + 9 * perMHz
                    ELSE (low + high) \div 2]

(* _centre_hypotheses: the bands of a burst's spectrum, each taken away     *)
(* before the next is looked for; those as wide as DroneID's give a centre. *)
(* The middle of the window is the last hypothesis.                        *)
PeelRounds == 8
MostCentres == 4
SameCentre(a, b, perMHz) == Magnitude(a - b) < perMHz
Shaped(band, n, perMHz) ==
    /\ Magnitude(band.centre) < n - 2 * perMHz
    /\ band.width \in 8 * perMHz..22 * perMHz
(* Defective: the strongest band is found again and again. *)
PeelUncleared(psd, acc, perMHz) ==
    LET band == GrowBand(psd, FirstMax(LAMBDA i : psd[i], DOMAIN psd), perMHz)
    IN  IF acc.out = <<>> /\ Shaped(band, Len(psd), perMHz)
        THEN [acc EXCEPT !.out = <<band.centre>>] ELSE acc

PeelOnce(psd, acc, perMHz) ==
    LET peak == FirstMax(LAMBDA i : acc.work[i], DOMAIN psd)
        bins == GrowBandBins(acc.work, peak)
        band == GrowBand(acc.work, peak, perMHz)
        new == /\ Shaped(band, Len(psd), perMHz)
               /\ \A i \in DOMAIN acc.out : ~SameCentre(band.centre, acc.out[i], perMHz)
    IN  IF acc.work[peak] = 0 THEN acc
        ELSE [work |-> Tuple([i \in DOMAIN psd |-> IF i \in bins[1]..bins[2] THEN 0 ELSE acc.work[i]]),
              out |-> IF new THEN Append(acc.out, band.centre) ELSE acc.out]
WithMiddle(kept, perMHz) ==
    IF \E i \in DOMAIN kept : SameCentre(kept[i], 0, perMHz) THEN kept ELSE Append(kept, 0)
CentreHypotheses(psd, perMHz) ==
    LET peeled == FoldLeft(LAMBDA acc, round : PeelOnce(psd, acc, perMHz), [work |-> psd, out |-> <<>>],
                           [n \in 1..PeelRounds |-> n])
    IN  WithMiddle(Prefix(peeled.out, MostCentres - 1), perMHz)

-----------------------------------------------------------------------------
(* _score_centre: a centre in units of 100 kHz is mixed, filtered and      *)
(* demodulated; its scores are those of the first pilot and the second.    *)
(* The second is looked at only when the first is found.                   *)
Threshold == 50
Gate == 40
Accept == 75
RefineBelow == 35
Confirm == 30
PilotScores(cand, centre) ==
    LET off == Magnitude(centre - cand.truth) + 1
        zc4 == IF off \in DOMAIN cand.zc4 THEN cand.zc4[off] ELSE 0
    IN  <<IF zc4 >= Threshold THEN cand.zc6[off] ELSE 0, zc4>>

(* One trial: free for a centre scored before, refused past the deadline.   *)
Try(cand, acc, centre, deadline) ==
    IF acc.stop THEN acc
    ELSE IF centre \in acc.cache
    THEN [acc EXCEPT !.scored = Append(@, centre)]
    ELSE IF acc.clock >= deadline THEN [acc EXCEPT !.stop = TRUE]
    ELSE [acc EXCEPT !.scored = Append(@, centre), !.cache = @ \cup {centre}, !.clock = @ + 1]

BestOf(cand, scored) ==
    LET Rank(i) == PilotScores(cand, scored[i])
        Above(a, b) == a[1] > b[1] \/ (a[1] = b[1] /\ a[2] > b[2])
    IN  scored[Min({i \in DOMAIN scored : \A k \in DOMAIN scored : ~Above(Rank(k), Rank(i))})]

(* _select_centre: the hypotheses in turn until one is accepted; then, if  *)
(* the best has the shape but not the selectivity, a grid around it; never *)
(* a centre that the second pilot does not confirm, but the first one.      *)
FineGrid == <<-1, 1, -2, 2, -3, 3, -4, 4>>
Refined(cand, first, best, deadline) ==
    IF PilotScores(cand, best)[1] < RefineBelow /\ PilotScores(cand, best)[2] >= Gate
    THEN FoldLeft(LAMBDA acc, off : Try(cand, acc, best + off, deadline),
                  [first EXCEPT !.stop = FALSE], FineGrid)
    ELSE first
Confirmed(cand, hyp, fine, last) ==
    [centre |-> IF PilotScores(cand, last)[1] < Confirm THEN hyp ELSE last,
     tried |-> Cardinality(fine.cache), clock |-> fine.clock]
Chosen(cand, hyps, first, deadline, refine) ==
    LET fine == IF refine THEN Refined(cand, first, BestOf(cand, first.scored), deadline) ELSE first
    IN  IF first.accepted
        THEN [centre |-> Last(first.scored), tried |-> Cardinality(first.cache), clock |-> first.clock]
        ELSE IF first.scored = <<>> THEN [centre |-> hyps[1], tried |-> 0, clock |-> first.clock]
        ELSE Confirmed(cand, hyps[1], fine, BestOf(cand, fine.scored))
SelectCentre(cand, hyps, clock, deadline, refine) ==
    LET Next1(acc, h) ==
          LET tried == Try(cand, acc, h, deadline)
          IN  IF ~tried.stop /\ PilotScores(cand, h)[1] >= Accept
              THEN [tried EXCEPT !.stop = TRUE, !.accepted = TRUE] ELSE tried
        first == FoldLeft(Next1, [cache |-> {}, scored |-> <<>>, clock |-> clock, stop |-> FALSE,
                                  accepted |-> FALSE], hyps)
    IN  Chosen(cand, hyps, first, deadline, refine)

-----------------------------------------------------------------------------
(* _grade: C once the frame of a burst graded B is decoded, which needs its *)
(* true centre.                                                            *)
Grade(cand, centre) ==
    LET s == PilotScores(cand, centre)
    IN  IF s[2] < Threshold THEN "none" ELSE IF s[1] < Confirm THEN "A" ELSE "B"

(* One candidate of decode_all: its first hypothesis is tried whatever the *)
(* budget.  One that raises is reported as such, and stops no other.       *)
Outcome(cand, chosen, budget) ==
    LET decoded == Grade(cand, chosen.centre) = "B" /\ chosen.centre = cand.truth /\ cand.frame # <<>>
    IN  [cand |-> cand, tried |-> chosen.tried, centre |-> chosen.centre,
         level |-> IF decoded THEN "C" ELSE Grade(cand, chosen.centre),
         notes |-> IF chosen.clock >= budget /\ chosen.tried < Len(cand.hyps)
                   THEN {"hypotheses skipped"} ELSE {},
         frame |-> IF decoded THEN cand.frame ELSE <<>>, clock |-> chosen.clock]
AtLeastOne(cand, timed, clock) ==
    IF timed.tried > 0 THEN timed
    ELSE SelectCentre(cand, SubSeq(cand.hyps, 1, 1), clock, clock + 1, FALSE)
AttemptOf(cand, clock, budget) ==
    IF cand.raises
    THEN [cand |-> cand, tried |-> 0, centre |-> 0, level |-> "none", notes |-> {"raised"},
          frame |-> <<>>, clock |-> clock]
    ELSE Outcome(cand, AtLeastOne(cand, SelectCentre(cand, cand.hyps, clock, budget, TRUE), clock),
                 budget)

(* _rank_candidates: those of DroneID's width first, then by power.         *)
Ahead(c, d) ==
    \/ c.shaped /\ ~d.shaped
    \/ c.shaped = d.shaped /\ c.power > d.power
    \/ c.shaped = d.shaped /\ c.power = d.power /\ c.start < d.start
RankCandidatesIn(cands, most) ==
    Prefix(SetToSortSeq(cands, Ahead), most)

(* decode_all: no further candidate is started once the budget is spent.    *)
(* Attempts are returned in time order, and a frame that does not follow    *)
(* the one before by one is flagged.                                       *)
Attempted(ranked, budget) ==
    LET Add(acc, a) == [out |-> Append(acc.out, a), clock |-> a.clock]
        One(acc, cand) ==
          IF acc.out # <<>> /\ acc.clock >= budget
          THEN [acc EXCEPT !.out = Append(Front(@), [Last(@) EXCEPT !.notes = @ \cup {"candidates skipped"}])]
          ELSE Add(acc, AttemptOf(cand, acc.clock, budget))
    IN  FoldLeft(One, [out |-> <<>>, clock |-> 0], ranked)
Monotonic(attempts) ==
    LET framed == SelectSeq(attempts, LAMBDA a : a.frame # <<>>)
    IN  {framed[i].cand : i \in {k \in 2..Len(framed) : framed[k].frame[1] - framed[k - 1].frame[1] # 1}}
InTimeOrder(done) ==
    LET ordered == SortSeq(done.out, LAMBDA a, b : a.cand.start < b.cand.start)
    IN  [attempts |-> ordered, flagged |-> Monotonic(ordered), clock |-> done.clock]
DecodeAll(cands, most, budget) == InTimeOrder(Attempted(RankCandidatesIn(cands, most), budget))

-----------------------------------------------------------------------------
(* _semantic_flags, decode_frame: labels on a frame, which never drop it.   *)
(* Coordinates are in 174533ths of a degree; a time is a pair as in the     *)
(* frame, between 2015 and 2035.                                           *)
CoordFlags(name, lat, lon) ==
    IF lat = 0 /\ lon = 0 THEN {<<name, "zero">>}
    ELSE IF Magnitude(lat) > 90 * 174533 \/ Magnitude(lon) > 180 * 174533 THEN {<<name, "range">>}
    ELSE {}
KnownProducts == {58, 63}
PlausibleTime(t) ==
    /\ t[1] > 84642 \/ (t[1] = 84642 /\ t[2] >= 13283328)
    /\ t[1] < 122262 \/ (t[1] = 122262 /\ t[2] < 6417408)
SemanticFlags(f) ==
    CoordFlags("drone", f.drone_lat, f.drone_lon)
      \cup CoordFlags("operator", f.operator_lat, f.operator_lon)
      \cup CoordFlags("home", f.home_lat, f.home_lon)
      \cup (IF PlausibleTime(f.gps_time_ms) THEN {} ELSE {<<"gps_time", "implausible">>})
      \cup (IF f.product_type \in KnownProducts THEN {} ELSE {<<"product_type", "unknown">>})
DecodeFrame(block) ==
    LET parsed == ParseFrame(block)
    IN  IF parsed = <<>> THEN <<>> ELSE <<[frame |-> parsed[1], flags |-> SemanticFlags(parsed[1])]>>
=============================================================================
