------------------------------ MODULE BandScan ------------------------------
(***************************************************************************)
(* The scan of a band, as functions of what the receiver delivered: the    *)
(* rows of a hackrf_sweep file cut into sweeps, the retries of one live    *)
(* pass, the dwells that tile a band for a receiver that cannot sweep, and *)
(* the candidates ranked from the hot regions of a pass.                   *)
(*                                                                         *)
(* Frequencies are integers in a unit fine enough for the case at hand.  A *)
(* power is what it is compared for: hot or not, and a peak in dB.         *)
(***************************************************************************)
EXTENDS Integers, Sequences, FiniteSets, SequencesExt, FiniteSetsExt

-----------------------------------------------------------------------------
(* scan/sweep.py: parse_sweep_csv_multi.                                   *)

(* A row fills the bins of one segment; from is the sweep it was taken in.  *)
Row(bins, from) == [bins |-> bins, from |-> from]
AllKeys(rows) == UNION {rows[i].bins : i \in DOMAIN rows}

(* Defective: only the lowest bin, filled again, starts a sweep. *)
StartsSweepAtLowest(cur, row) == \E b \in row.bins : b = 1 /\ DOMAIN cur # {}

(* A sweep ends where a row would fill a bin that is filled already.       *)
StartsSweep(cur, row) == row.bins \cap DOMAIN cur # {}

FillBins(cur, row) ==
    [b \in DOMAIN cur \cup row.bins |-> IF b \in row.bins THEN row.from ELSE cur[b]]

CutSweeps(rows) ==
    LET Take(acc, row) ==
          IF StartsSweep(acc.cur, row)
          THEN [done |-> Append(acc.done, acc.cur), cur |-> FillBins(<<>>, row)]
          ELSE [acc EXCEPT !.cur = FillBins(acc.cur, row)]
        all == FoldLeft(Take, [done |-> <<>>, cur |-> <<>>], rows)
    IN  Append(all.done, all.cur)

(* Sweeps with missing bins are dropped, unless there is no other.         *)
ParseSweeps(rows) ==
    LET Whole(s) == DOMAIN s = AllKeys(rows)
        cut == CutSweeps(rows)
    IN  IF rows = <<>> THEN <<>>
        ELSE IF \E i \in DOMAIN cut : Whole(cut[i]) THEN SelectSeq(cut, Whole) ELSE cut

(* A file as hackrf_sweep writes it: every sweep the same segments in the  *)
(* order of its tune steps; some rows cannot be parsed, and it may be cut. *)
SweepFile(order, segments, sweeps) ==
    LET n == Len(order)
        Nth(k) == Row(segments[order[((k - 1) % n) + 1]], (k - 1) \div n + 1)
    IN  [k \in 1..(n * sweeps) |-> Nth(k)]

Readable(file, lost) ==
    LET Keep(k) == k \notin lost
    IN  [i \in 1..Cardinality({k \in DOMAIN file : Keep(k)}) |->
           file[CHOOSE k \in DOMAIN file :
                  Keep(k) /\ Cardinality({j \in 1..k : Keep(j)}) = i]]

(* scan/sweep.py: sweep_once.  A pass of the process ends in a file that    *)
(* holds this pass's sweeps, none, or, when the process never opened the   *)
(* file the caller asked to keep, whatever was in it.                      *)
PassFile(attempt, kept) ==
    CASE attempt = "sweeps" -> "fresh"
      [] attempt = "none"   -> "empty"
      [] attempt = "failed" -> IF kept = "old" THEN "old" ELSE "empty"

SweepOnce(attempts, kept) ==
    LET Good(i) == PassFile(attempts[i], kept) # "empty"
        tries == {i \in DOMAIN attempts : Good(i)}
    IN  IF tries = {} THEN "error" ELSE PassFile(attempts[Min(tries)], kept)

-----------------------------------------------------------------------------
(* sdr/sweep.py: RetuneWelchSweep.                                         *)

(* __init__: the stride between two centres is the part of a dwell that is *)
(* trusted, and half of it lies on either side of the centre.              *)
Interior(stepHz, num, den) == (stepHz * num) \div den

CeilDiv(a, b) == (a + b - 1) \div b
MaxOf(a, b) == IF a > b THEN a ELSE b

(* _step_centers: the last centre is moved so that it ends at the band.    *)
StepCenters(lo, hi, stride) ==
    LET n == CeilDiv(MaxOf(hi - lo, stride), stride)
    IN  [i \in 1..n |-> IF i = n /\ n > 1 THEN hi - stride \div 2
                        ELSE lo + stride * (i - 1) + stride \div 2]

(* _build_grid, for a band of whole bins.                                  *)
BuildGrid(lo, hi, bin) ==
    {lo + bin * k + bin \div 2 : k \in 0..MaxOf(1, (hi - lo) \div bin) - 1}

(* _dwell_psd: the dwell has a value at every res from its centre; those   *)
(* of the interior are kept.                                               *)
DwellReach(stride, res) == ((stride \div 2) \div res) * res

(* _bin_row: a dwell contributes to the grid points between its outermost  *)
(* values; a point that no dwell reaches stays NaN.                        *)
BinRow(grid, centers, stride, res) ==
    {g \in grid : \E i \in DOMAIN centers :
       /\ centers[i] - DwellReach(stride, res) <= g
       /\ g <= centers[i] + DwellReach(stride, res)}

-----------------------------------------------------------------------------
(* scan/candidates.py.                                                     *)

(* _runs: the inclusive bounds of the runs of a set of bins.               *)
HotRuns(hot) ==
    {r \in hot \X hot : /\ r[1] <= r[2] /\ r[1]..r[2] \subseteq hot
                        /\ r[1] - 1 \notin hot /\ r[2] + 1 \notin hot}

(* rank_candidates: a run of the smoothed rise is trimmed to where the raw *)
(* one clears the threshold (one bin is left if none does), and must be     *)
(* wide enough.                                                            *)
Trim(run, raw) ==
    LET in == {k \in run[1]..run[2] : k \in raw}
    IN  IF in = {} THEN <<run[2], run[2]>> ELSE <<Min(in), Max(in)>>

FrameRegions(f, smooth, raw, peak, minBins) ==
    {[frame |-> f, i |-> t[1], j |-> t[2], peak |-> peak] :
       t \in {u \in {Trim(r, raw) : r \in HotRuns(smooth)} : u[2] - u[1] + 1 >= minBins}}

(* A region's centre, in half bins (its powers weighted alike).            *)
CentreOf(r) == r.i + r.j

(* _Cluster: its mean centre as a pair <<sum, count>>, its extent between  *)
(* the 10th and 90th percentile of its regions' edges.                     *)
SortNumbers(s) == SortSeq(s, LAMBDA a, b : a < b)
Percentile10(s) ==
    LET t == SortNumbers(s)
        k == (Len(s) - 1) \div 10
        r == (Len(s) - 1) % 10
        up == IF r = 0 THEN t[k + 1] ELSE t[k + 2]
    IN  t[k + 1] + (r * (up - t[k + 1])) \div 10
Percentile90(s) == -Percentile10([n \in DOMAIN s |-> -s[n]])

Extent(regions) ==
    [lo |-> Percentile10([n \in DOMAIN regions |-> regions[n].i]),
     hi |-> Percentile90([n \in DOMAIN regions |-> regions[n].j])]

CentreSum(regions) == FoldLeft(LAMBDA a, r : a + CentreOf(r), 0, regions)
Near(regions, r, reach) ==
    LET d == CentreOf(r) * Len(regions) - CentreSum(regions)
    IN  (IF d < 0 THEN -d ELSE d) <= 2 * reach * Len(regions)

(* _cluster, first pass: the regions by their centre, each joining the     *)
(* cluster before it if near enough.                                       *)
FirstPass(regions, reach) ==
    LET Join(acc, r) ==
          IF acc # <<>> /\ Near(Last(acc), r, reach)
          THEN Front(acc) \o <<Append(Last(acc), r)>> ELSE Append(acc, <<r>>)
    IN  FoldLeft(Join, <<>>, regions)

(* _cluster, second pass: a cluster whose extent touches the one before is *)
(* merged into it.                                                         *)
GapOf(a, b) == MaxOf(a.lo, b.lo) - 1 - (IF a.hi < b.hi THEN a.hi ELSE b.hi)
MergePass(clusters, reach) ==
    LET Join(acc, c) ==
          IF acc # <<>> /\ GapOf(Extent(Last(acc)), Extent(c)) <= reach
          THEN Front(acc) \o <<Last(acc) \o c>> ELSE Append(acc, c)
    IN  FoldLeft(Join, <<>>, clusters)

Cluster(regions, reach) == MergePass(FirstPass(regions, reach), reach)

(* _hop_groups: two clusters are linked if they are alike in width and     *)
(* peak, hardly ever on together, and hand over at least twice.            *)
FramesOf(c) == {c[n].frame : n \in DOMAIN c}
WidthOf(c) == Extent(c).hi - Extent(c).lo + 1
PeakOf(c) == Max({c[n].peak : n \in DOMAIN c})
Handovers(fa, fb) ==
    Cardinality({f \in fa : f + 1 \in fb \ fa}) + Cardinality({f \in fb : f + 1 \in fa \ fb})
Linked(a, b) ==
    LET fa == FramesOf(a) fb == FramesOf(b)
        smaller == Min({Cardinality(fa), Cardinality(fb)})
    IN  /\ WidthOf(a) <= 2 * WidthOf(b) /\ WidthOf(b) <= 2 * WidthOf(a)
        /\ PeakOf(a) - PeakOf(b) \in -10..10
        /\ 10 * Cardinality(fa \cap fb) < 3 * smaller
        /\ Handovers(fa, fb) >= 2

(* The groups of a union-find over the linked pairs, taken in order.       *)
Pairs(n) == FlattenSeq([a \in 1..n |-> [k \in 1..n - a |-> <<a, a + k>>]])
Unite(root, p) == [a \in DOMAIN root |-> IF root[a] = root[p[1]] THEN root[p[2]] ELSE root[a]]
HopGroups(clusters) ==
    LET n == Len(clusters)
        Take(root, p) == IF Linked(clusters[p[1]], clusters[p[2]]) THEN Unite(root, p) ELSE root
        root == FoldLeft(Take, [a \in 1..n |-> a], Pairs(n))
    IN  {{a \in 1..n : root[a] = r} : r \in {root[a] : a \in 1..n}}

(* rank_candidates: the strongest member of a group is the one active in a *)
(* frame, the first by centre among equals.                                *)
StrongestIn(c, f) == Max({c[n].peak : n \in {m \in DOMAIN c : c[m].frame = f}})
ActiveIn(clusters, group, f) ==
    LET on == {a \in group : f \in FramesOf(clusters[a])}
        best == Max({StrongestIn(clusters[a], f) : a \in on})
    IN  Min({a \in on : StrongestIn(clusters[a], f) = best})

Candidate(clusters, group) ==
    LET hot == UNION {FramesOf(clusters[a]) : a \in group}
        pairs == {f \in hot : f + 1 \in hot}
        moved == {f \in pairs : ActiveIn(clusters, group, f) # ActiveIn(clusters, group, f + 1)}
    IN  [lo |-> Min({Extent(clusters[a]).lo : a \in group}),
         hi |-> Max({Extent(clusters[a]).hi : a \in group}),
         delta |-> Max({PeakOf(clusters[a]) : a \in group}),
         frames |-> hot, hopping |-> Cardinality(group) > 1,
         moves |-> Cardinality(moved), pairs |-> Cardinality(pairs)]

(* _score, weighed by what it rises with: persistence and dynamics.        *)
Score(c, frames) ==
    20 * Cardinality(c.frames) * MaxOf(1, c.pairs)
      + IF c.hopping THEN 25 * c.moves * frames ELSE 0

FirstOf(s, n) == SubSeq(s, 1, Min({n, Len(s)}))

(* The candidates, best first, of the regions in order of their centre.    *)
RankCandidates(regions, reach, frames, max) ==
    LET clusters == Cluster(regions, reach)
        cands == SetToSeq({Candidate(clusters, g) : g \in HopGroups(clusters)})
        Better(a, b) == \/ Score(a, frames) > Score(b, frames)
                        \/ Score(a, frames) = Score(b, frames) /\ a.delta > b.delta
    IN  FirstOf(SortSeq(cands, Better), max)
=============================================================================
