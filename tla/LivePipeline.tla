---------------------------- MODULE LivePipeline ----------------------------
(***************************************************************************)
(* What is carried from one window of a run to the next: the classifier's  *)
(* bundle, reloaded when its file changes under the run, and the store of  *)
(* bursts that recognises a cadence too slow for one window.  Each is      *)
(* folded over the windows of a run.                                       *)
(***************************************************************************)
EXTENDS LinkSignature

-----------------------------------------------------------------------------
(* classify/model.py: the bundle.  The file is missing, torn (a dump in    *)
(* progress, or no bundle) or a bundle, at a time of modification; a       *)
(* bundle scores one version of the features and raises on the other's.    *)

NoBundle == [key |-> <<>>, bundle |-> <<>>]
(* Defective: a bundle that was replaced is not read again. *)
KeyByPath(file) == <<file.path>>

KeyOf(file) == <<file.path, file.mtime>>

(* _load_bundle: a load that failed is remembered as one that succeeded.   *)
LoadBundle(cache, file) ==
    IF file.content.kind = "missing" THEN NoBundle
    ELSE IF cache.key = KeyOf(file) THEN cache
    ELSE [key |-> KeyOf(file),
          bundle |-> IF file.content.kind = "torn" THEN <<>> ELSE <<file.content>>]

Bundle(features, n) == [kind |-> "bundle", features |-> features, n |-> n]
NoBundleIn(kind) == [kind |-> kind, features |-> "none", n |-> 0]
Scores(bundle, features) == bundle # <<>> /\ bundle[1].features = features

(* classify_window: the file is looked at, and with the v1 features looked *)
(* at again by classify_spectrogram.  From says whose label the window has. *)
Classified(cache, from, mismatch) == [cache |-> cache, from |-> from, mismatch |-> mismatch]
ClassifyWindow(cache, look, again, active) ==
    LET c1 == LoadBundle(cache, look)
        c2 == LoadBundle(c1, again)
    IN  IF c1.bundle # <<>> /\ c1.bundle[1].features # active THEN Classified(c1, <<>>, TRUE)
        ELSE IF active = "v1"
        THEN Classified(c2, IF Scores(c2.bundle, "v1") THEN c2.bundle ELSE <<>>, FALSE)
        ELSE Classified(c1, c1.bundle, FALSE)

(* The windows of a run, looks[2 i - 1] and looks[2 i] being those of the  *)
(* i-th.                                                                   *)
ClassifyRun(looks, active) ==
    LET Take(acc, i) ==
          Append(acc, ClassifyWindow(IF acc = <<>> THEN NoBundle ELSE Last(acc).cache,
                                     looks[2 * i - 1], looks[2 * i], active))
    IN  FoldLeft(Take, <<>>, [i \in 1..Len(looks) \div 2 |-> i])

(* classify: the rules, on the measured shape.  Cadences in units of 50 us. *)
Rule(morphology, cadence, shape) ==
    CASE morphology = "noise" -> "non_uas"
      [] /\ morphology \in {"ofdm", "burst_wideband"}
         /\ cadence # <<>> /\ cadence[1] \in 6000..20000
         /\ shape.bw \in 600..1599 /\ shape.bursts \in 2..8 /\ shape.duty < 20 -> "dji_ocusync"
      [] morphology = "analog" -> "analog_fpv"
      [] OTHER -> "unknown"

-----------------------------------------------------------------------------
(* pipeline.py: SessionCadenceStore.  Ten seconds are 200000 units.        *)

EndOf(e) == e.start + e.dur
Keep(events, cutoff) == SelectSeq(events, LAMBDA e : EndOf(e) >= cutoff)

AddToStore(store, heard, capturedAt) ==
    LET shifted == Mapped(LAMBDA e : [e EXCEPT !.start = @ + capturedAt], heard)
        all == store \o shifted
        newest == Max({EndOf(all[i]) : i \in DOMAIN all})
    IN  IF heard = <<>> THEN store ELSE Keep(all, newest - 200000)

(* process_window: a window is analysed alone, then what its run's store   *)
(* says is put on top of it, unless it is noise.                           *)
Promote(result, stored, shape) ==
    LET alone == Morphology(shape, result.labels)
        promoted == alone # "noise" /\ "droneid" \in stored.labels
        own == ClusterCadence(result)
    IN  [promoted |-> promoted,
         morphology |-> IF promoted THEN "droneid" ELSE alone,
         cadence |-> IF own = <<>> /\ stored.period.passed /\ stored.period.n >= 3
                     THEN stored.period.t ELSE own,
         class |-> Rule(alone, own, shape)]

(* A decoding is tried of anything but noise.                              *)
TriesDecode(morphology, strong) ==
    /\ morphology # "noise"
    /\ strong \/ morphology \notin {"narrowband", "analog"}

ProcessRun(windows, frame, bin) ==
    LET Before(acc) == IF acc = <<>> THEN <<>> ELSE Last(acc).store
        Result(w, store, alone, told) ==
          [store |-> store, labels |-> alone.labels, told |-> told,
           decodes |-> TriesDecode(told.morphology, w.strong)]
        ProcessWindow(w, store, alone) ==
          Result(w, store, alone, Promote(alone, AnalyzeRaster(store, frame, 0), w.shape))
        Take(acc, w) ==
          Append(acc, ProcessWindow(w, AddToStore(Before(acc), w.heard, w.at),
                                    AnalyzeRaster(w.heard, frame, bin)))
    IN  FoldLeft(Take, <<>>, windows)
=============================================================================
