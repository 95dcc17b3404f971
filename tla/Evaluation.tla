----------------------------- MODULE Evaluation -----------------------------
(***************************************************************************)
(* How a trained classifier is judged: which rows are left out for lost    *)
(* samples, the folds of the three tiers of the feature benchmark, the     *)
(* probe that asks whether the receiver can be told from the features, the *)
(* false-alarm budget of stage 1, and the split of the first trainer.      *)
(*                                                                         *)
(* A row stands for the n windows of one run that carry one class; ds, dev *)
(* and run are numbers, ordered as their names are.  Which groups a fold   *)
(* holds out, and how well a fitted model does, are the libraries' and are *)
(* part of the case.                                                       *)
(***************************************************************************)
EXTENDS Integers, Sequences, FiniteSets, SequencesExt, FiniteSetsExt

GroupOf(r) == <<r.ds, r.dev, r.run>>
GroupsIn(R) == {GroupOf(r) : r \in R}
DroneLink(R) == {r \in R : r.cls = "drone_link"}
WindowsIn(R) == FoldSet(LAMBDA r, n : n + r.n, 0, R)

-----------------------------------------------------------------------------
(* benchmark_features_v2.py, receiver_id_probe.py: the rows used.          *)

(* _session_rate_ratio_medians: of the windows of a run whose notes give a *)
(* ratio, in per cent; <<>> if none does.  A median of two is their mean.   *)
RunMedian(ws, run) ==
    LET noted == SelectSeq(ws, LAMBDA w : w.run = run /\ w.ratio # <<>>)
        s == SortSeq([i \in DOMAIN noted |-> noted[i].ratio[1]], <)
        n == Len(s)
    IN  IF n = 0 THEN <<>> ELSE <<s[(n + 1) \div 2] + s[n \div 2 + 1]>>

RunRatioTooLow(ws, w) == LET m == RunMedian(ws, w.run) IN m # <<>> /\ m[1] < 2 * 95
RateDeficit(ws, w) ==
    IF w.typed = "absent" THEN RunRatioTooLow(ws, w) ELSE w.typed # "ok"

(* load_rows: until limit rows are used (0: no limit); windows without a   *)
(* tensor, or with one too short, are passed over.                         *)
UsedRows(ws, limit) ==
    LET Use(used, i) ==
          IF (limit > 0 /\ Cardinality(used) >= limit) \/ RateDeficit(ws, ws[i])
               \/ ws[i].tensor # "good"
          THEN used ELSE used \cup {i}
    IN  FoldLeft(Use, {}, [i \in DOMAIN ws |-> i])

-----------------------------------------------------------------------------
(* benchmark_features_v2.py: the tiers.                                    *)

(* _assert_disjoint_groups: two parts of a fold share a group.             *)
Overlap(parts) == \E i, j \in DOMAIN parts : i < j /\ parts[i] \cap parts[j] # {}
Leaks(f) == Overlap(<<GroupsIn(f.train), GroupsIn(f.test), GroupsIn(f.reserved)>>)
Fold(train, test, reserved) == [train |-> train, test |-> test, reserved |-> reserved]

Before(g, h) == \E k \in 1..3 : g[k] < h[k] /\ \A i \in 1..k - 1 : g[i] = h[i]
(* _reserve_one_group: the rows of the first group.                        *)
Reserved(R) ==
    {r \in R : \A s \in R : ~Before(GroupOf(s), GroupOf(r))}

(* Defective: a recording is held out instead of a drone model. *)
HeldOutRuns(pos) == {{r \in pos : GroupOf(r) = g} : g \in GroupsIn(pos)}

(* run_tier_a: every drone model held out in turn.                         *)
HeldOut(pos) == {{r \in pos : r.dev = m} : m \in {r.dev : r \in pos}}
TierA(zenodo, antsdr) ==
    LET pos == DroneLink(zenodo)
        kept == Reserved(antsdr)
        pool == antsdr \ kept
    IN  IF pool = {} \/ Cardinality({r.dev : r \in pos}) < 2 THEN {}
        ELSE {Fold((pos \ test) \cup pool, test, kept) : test \in HeldOut(pos)}

(* run_tier_b: trained on all of the first two, tested on RUB.             *)
TierB(zenodo, antsdr, rub) ==
    IF DroneLink(zenodo) = {} \/ antsdr = {} \/ DroneLink(rub) = {} THEN {}
    ELSE {Fold(DroneLink(zenodo) \cup antsdr, DroneLink(rub), {})}

(* run_tier_d: every ambient session held out in turn.                     *)
TierD(antsdr, public) ==
    IF Cardinality(GroupsIn(antsdr)) < 2 \/ public = {} THEN {}
    ELSE {LET test == {r \in antsdr : GroupOf(r) = g}
          IN  Fold((antsdr \ test) \cup public, test, {}) : g \in GroupsIn(antsdr)}

(* run_benchmark and main: a leak in any fold ends it with 4, nothing to   *)
(* do with 2.                                                              *)
Benchmark(zenodo, antsdr, rub) ==
    LET a == TierA(zenodo, antsdr)
        b == TierB(zenodo, antsdr, rub)
        d == TierD(antsdr, DroneLink(zenodo \cup rub))
    IN  IF \E f \in a \cup b \cup d : Leaks(f) THEN [exit |-> 4]
        ELSE IF zenodo \cup antsdr \cup rub = {} THEN [exit |-> 2]
        ELSE [exit |-> 0, a |-> a, b |-> b, d |-> d]

-----------------------------------------------------------------------------
(* receiver_id_probe.py.                                                   *)

(* label_matched_subset: the rows of the class most datasets have, then    *)
(* most windows; {} if no class is in two.                                 *)
DatasetsWith(R, c) == {r.ds : r \in {s \in R : s.cls = c}}
LabelMatched(R) ==
    LET Of(c) == {r \in R : r.cls = c}
        matched == {c \in {r.cls : r \in R} : Cardinality(DatasetsWith(R, c)) >= 2}
        Rank(c) == 1000 * Cardinality(DatasetsWith(R, c)) + WindowsIn(Of(c))
    IN  IF matched = {} THEN {}
        ELSE Of(CHOOSE c \in matched : \A d \in matched : Rank(c) >= Rank(d))

(* run_probe: held says which fold tests a group; a fold with too few      *)
(* groups or windows of a dataset is dropped.                              *)
FoldCount(R) == Min({5, Cardinality(GroupsIn(R))})
ProbeFolds(R, held) ==
    {LET test == {r \in R : held[GroupOf(r)] = k} IN Fold(R \ test, test, {}) :
       k \in 1..FoldCount(R)}
FoldDropped(R, f) ==
    \/ Cardinality(GroupsIn(f.train)) < 2
    \/ \E d \in {r.ds : r \in R} :
         \/ WindowsIn({r \in f.train : r.ds = d}) < 5
         \/ WindowsIn({r \in f.test : r.ds = d}) < 5

Verdict(R, folds, margin) ==
    LET dropped == {f \in folds : FoldDropped(R, f)}
    IN  IF dropped # {} \/ Cardinality(folds) < 2 \/ margin = "below"
        THEN "inconclusive" ELSE margin

(* main: the exit code rests on the label-matched probe.                   *)
Probe(R, held, margin) ==
    LET subset == LabelMatched(R)
        folds == ProbeFolds(subset, held)
        runnable == Cardinality(GroupsIn(subset)) >= 2
        verdict == IF runnable THEN Verdict(subset, folds, margin) ELSE ""
    IN  [subset |-> subset, folds |-> folds,
         exit |-> CASE R = {} -> 2 [] R # {} /\ subset = {} -> 3
                    [] subset # {} -> IF verdict \in {"pass", "conditional"} THEN 0 ELSE 1]

-----------------------------------------------------------------------------
(* stage1_fa_budget.py: a session is a sequence of windows, each with the  *)
(* labels of stage 1, its morphology and what the session's cadence store  *)
(* said after it.                                                          *)
Counted(w) == w.labels \cup IF w.morphology = "droneid" THEN {"droneid"} ELSE {}
CountIn(session, label) ==
    Cardinality({i \in DOMAIN session : label \in Counted(session[i])})
DroneIdEver(session) ==
    \/ CountIn(session, "droneid") > 0
    \/ session # <<>> /\ Last(session).cadence

BudgetMet(sessions) ==
    LET Total(label) == FoldLeft(LAMBDA n, s : n + CountIn(s, label), 0, sessions)
        windows == FoldLeft(LAMBDA n, s : n + Len(s), 0, sessions)
    IN  /\ Total("fhss1") = 0 /\ Total("fhss2") = 0 /\ Total("rc") <= 1
        /\ Total("droneid") = 0 /\ \A i \in DOMAIN sessions : ~DroneIdEver(sessions[i])
        /\ 100 * Total("hopping") <= 5 * windows

-----------------------------------------------------------------------------
(* train/data.py, train/train.py: frames of recordings, and their split.   *)

(* _dronerf_label: from the first digits of the activity code; <<>> leaves *)
(* the file out.                                                           *)
DronerfLabel(bui) ==
    CASE bui[1] = 0 -> <<"noise">>
      [] bui[1] = 1 /\ bui[2] = 1 -> <<"dji_ocusync">>
      [] bui[1] = 1 /\ bui[2] = 0 -> <<"wifi_drone">>
      [] OTHER -> <<>>

CountOfLabel(frames, label) ==
    Cardinality({i \in DOMAIN frames : frames[i].label = label})
Capped(frames, label, cap) == cap > 0 /\ CountOfLabel(frames, label) >= cap

(* load_dronerf: every window of every file that is not silent, until the  *)
(* class is full; a frame carries its file's name as its group.            *)
DronerfFrames(files, cap) ==
    LET Take(frames, f) ==
          FoldLeft(LAMBDA acc, w :
                     IF DronerfLabel(f.bui) = <<>> \/ w \in f.silent
                          \/ Capped(acc, DronerfLabel(f.bui)[1], cap)
                     THEN acc
                     ELSE Append(acc, [label |-> DronerfLabel(f.bui)[1], file |-> f.path,
                                       group |-> <<f.name>>]),
                   frames, [w \in 1..f.windows |-> w])
    IN  FoldLeft(Take, <<>>, files)

(* load_dronedetect: the first window of every file, no group.             *)
DronedetectFrames(files, cap) ==
    LET Take(frames, f) ==
          IF f.windows = 0 \/ Capped(frames, f.label, cap) THEN frames
          ELSE Append(frames, [label |-> f.label, file |-> f.path, group |-> <<>>])
    IN  FoldLeft(Take, <<>>, files)

(* _split: whole groups are held out if there are two; else frames.  The   *)
(* draw says which, by their position.                                     *)
SplitByFrame(frames, draw) == [grouped |-> FALSE, val |-> DOMAIN frames \cap draw]
Split(frames, draw) ==
    LET groups == {frames[i].group : i \in DOMAIN frames} \ {<<>>}
        first == {i \in DOMAIN frames : \A k \in 1..i - 1 : frames[k].group # frames[i].group}
        held == {frames[i].group : i \in {f \in first : Cardinality(first \cap 1..f) \in draw}}
    IN  IF Cardinality(groups) >= 2
        THEN [grouped |-> TRUE, val |-> {i \in DOMAIN frames : frames[i].group \in held}]
        ELSE SplitByFrame(frames, draw)

(* train_and_save: what the loader gives, split.                           *)
TrainAndSave(dataset, files, cap, draw) ==
    LET frames == IF dataset = "dronerf" THEN DronerfFrames(files, cap)
                  ELSE DronedetectFrames(files, cap)
    IN  [frames |-> frames, split |-> Split(frames, draw)]
=============================================================================
