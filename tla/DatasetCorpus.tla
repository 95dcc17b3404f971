---------------------------- MODULE DatasetCorpus ----------------------------
(***************************************************************************)
(* A prepared dataset, from the originals on disk to the rows a classifier *)
(* is trained on: annotate gives the windows of a session an operator's     *)
(* labels, prepare lists the originals with the adapter of the dataset and  *)
(* writes for each window a tensor, a row of the index and a sidecar, and   *)
(* train_v2 reads the index, with a split by group.  Downloads complete,    *)
(* sessions are annotated again and the code is updated between two runs   *)
(* of prepare, and a run may be cut at any point.                          *)
(*                                                                         *)
(* A uid is the tuple it is a hash of.  Lengths are grid steps.            *)
(***************************************************************************)
EXTENDS Integers, Sequences, FiniteSets, SequencesExt, FiniteSetsExt

CONSTANTS Mirror,         \* the original files, as records with a position n
          Rars,           \* stems of the .rar files of the RFUAV mirror
          Timelines,      \* operator's logs: sequences of [at, id]
          Day, Guard,     \* length of a day, transition guard
          SessionStart,   \* started_at
          TestLabels,     \* what session.json's test block may say
          Position,       \* of the run of a group: where its hash falls in 0..99
          Limits,         \* values of --limit
          WindowSteps, MaxRuns, MaxCuts, MaxTimelines, MaxTrainings
ASSUME CorpusAssumption ==
    /\ Day \in Nat \ {0} /\ WindowSteps \in Nat \ {0} /\ Guard \in Nat /\ SessionStart \in Nat
    /\ \A limit \in Limits : limit \in Nat

(* What names an original within its dataset: a path, or what its path or  *)
(* its XML says.                                                           *)
NameOf(f) ==
    CASE f.ds = "zenodo" -> <<f.key, f.part>> [] f.ds = "rub" -> f.key
      [] f.ds = "rfuav" -> f.n                [] f.ds = "analog" -> f.sweep
      [] f.ds = "aerix" -> f.n

(* The positions are the order of the names, so both are unique; slices    *)
(* with the same bytes have the same length.                               *)
ASSUME MirrorAssumption ==
    /\ IsFiniteSet(Mirror)
    /\ \A f \in Mirror :
         /\ f.n \in Nat
         /\ f.ds # "analog" => f.steps \in Nat
         /\ f.ds = "analog" => f.blocks \in Seq(Nat)
         /\ f.ds = "aerix" => f.at \in Nat
    /\ \A f, g \in Mirror :
         /\ f.ds = g.ds /\ (f.n = g.n \/ NameOf(f) = NameOf(g)) => f = g
         /\ f.ds = "rfuav" /\ g.ds = "rfuav" /\ f.data = g.data => f.steps = g.steps

(* An operator logs in the order in which it happens.                      *)
ASSUME TimelineAssumption ==
    \A lines \in Timelines :
      /\ lines \in Seq([at : Nat, id : STRING])
      /\ \A i, j \in DOMAIN lines : i < j => lines[i].at <= lines[j].at

Datasets == {"zenodo", "rub", "rfuav", "analog", "aerix"}
Splits == {"train", "val", "test"}

VARIABLES
    ds,        \* the dataset prepared and trained on
    there,     \* positions of the originals on disk, complete (without an .aria2)
    test,      \* the session's test block: a label
    ann,       \* annotations.json: by file, [id, label, transition]; <<>> if none
    log,       \* the log it was made from
    code,      \* code_version
    pc,        \* of prepare: "idle", "tensor", "row", "sidecar"
    tensors,   \* --no-tensor was not given
    todo,      \* windows the run has still to write
    index,     \* the lines of index.jsonl
    npy, json, \* tensor and sidecar files by uid
    hurt,      \* uids whose files a run began to write and none has since finished
    regrouped, \* uids prepared again under another group
    used,      \* <<uid, split>> of every row a classifier was trained or tested on
    failed,    \* the last training raised
    runs, cuts, notes, trainings

disk == <<there, test, ann, log>>
prep == <<pc, tensors, todo, index, npy, json, hurt, regrouped>>
vars == <<ds, disk, code, prep, used, failed, runs, cuts, notes, trainings>>

-----------------------------------------------------------------------------
(* annotate.py.                                                            *)

(* _events_to_utc: a line has only a time of day; it is put on the day the *)
(* session started, or on the first day that keeps the lines in order.     *)
Midnight(t) == (t \div Day) * Day
Anchor(lines) ==
    LET base == Midnight(SessionStart)
        At[i \in 0..Len(lines)] ==
          IF i = 0 THEN base
          ELSE LET tod == lines[i].at % Day
                   prev == At[i - 1]
               IN  Midnight(prev) + tod + IF tod < prev % Day THEN Day ELSE 0
    IN  [i \in DOMAIN lines |-> At[i]]

(* The interval in force at t: that of the last line not after t.          *)
InForce(starts, t) == Max({0} \cup {i \in DOMAIN starts : starts[i] <= t})

LabelForInterval(id) ==
    CASE id \in {"off", "gap"} -> "background"
      [] id \in {"on", "rc-only"} -> "drone_link"
      [] OTHER -> "unknown"

SessionFiles == {f \in Mirror : f.ds = "aerix"}
CapturedAt(n) == (CHOOSE f \in SessionFiles : f.n = n).at

(* annotate_session, for the files listed so far; none if it raises.       *)
Annotation(lines, files) ==
    LET starts == Anchor(lines)
        Window(t) ==
          LET id == lines[InForce(starts, t)].id
          IN  [id |-> id, label |-> LabelForInterval(id),
               transition |-> \E i \in DOMAIN starts : t - starts[i] \in -Guard..Guard]
    IN  IF \E f \in files : InForce(starts, f.at) = 0 THEN <<>>
        ELSE [n \in {f.n : f \in files} |-> Window(CapturedAt(n))]

-----------------------------------------------------------------------------
(* adapters.py: what each adapter lists.                                   *)

OnDisk == {f \in Mirror : f.ds = ds /\ f.n \in there}
Recording(rec, src, chan, off, run, device, label, steps) ==
    [rec |-> rec, src |-> src, chan |-> chan, off |-> off, run |-> run, device |-> device,
     label |-> label, steps |-> steps, drop |-> FALSE, transition |-> FALSE, loads |-> TRUE]
InOrder(S, pos) ==
    CHOOSE s \in [1..Cardinality(S) -> S] : \A i, j \in DOMAIN s : i < j => pos[s[i]] < pos[s[j]]
Listed(files, of) ==
    LET s == InOrder(files, [f \in files |-> f.n]) IN [i \in DOMAIN s |-> of[s[i]]]
TotalSteps(files) ==
    LET steps == Listed(files, [f \in files |-> f.steps])
        Upto[i \in 0..Len(steps)] == IF i = 0 THEN 0 ELSE Upto[i - 1] + steps[i]
    IN  Upto[Len(steps)]

(* Zenodo: one recording per key, of the parts that are complete; those    *)
(* with one part come first.                                               *)
ZenodoRecordings ==
    LET Parts(f) == {g \in OnDisk : g.key = f.key}
        of == [f \in OnDisk |->
                 Recording(f.key, {<<g.key, g.part>> : g \in Parts(f)}, f.band, 0, <<f.key, "">>,
                           f.key, "drone_link", TotalSteps(Parts(f)))]
        first == {f \in OnDisk : \A g \in Parts(f) : f.part <= g.part}
    IN  Listed({f \in first : Cardinality(Parts(f)) = 1}, of)
          \o Listed({f \in first : Cardinality(Parts(f)) > 1}, of)

RubRecordings ==
    LET of == [f \in OnDisk |->
                 Recording(f.key, f.key, "", 0, <<f.key, "">>, f.key, "drone_link", f.steps)]
    IN  Listed(OnDisk, of)

(* RFUAV: an extraction without its archive is a duplicate and is skipped; *)
(* load_iq refuses a slice that is longer than its XML says.                *)
RfuavRecordings ==
    LET of == [f \in OnDisk |->
                 [Recording(<<f.device, f.pack, f.slice>>, f.data, "", 0, <<f.device, f.pack>>,
                            f.device, IF f.known THEN "drone_link" ELSE "unknown", f.steps)
                    EXCEPT !.loads = f.steps <= f.declared]]
    IN  Listed({f \in OnDisk : Rars = {} \/ f.archive \in Rars}, of)

(* Analogue FPV: one recording per dwell, a run of blocks at one centre.   *)
Dwells(blocks) ==
    {d \in (DOMAIN blocks) \X (DOMAIN blocks) :
       /\ d[1] <= d[2] /\ \A i \in d[1]..d[2] : blocks[i] = blocks[d[1]]
       /\ d[1] > 1 => blocks[d[1] - 1] # blocks[d[1]]
       /\ d[2] < Len(blocks) => blocks[d[2] + 1] # blocks[d[2]]}
DwellLabel(f, centre) ==
    CASE f.drone = 0 -> "background" [] f.drone = centre -> "drone_link"
      [] OTHER -> "background inferred"
AnalogRecordings ==
    LET of == [f \in OnDisk |->
          LET s == InOrder(Dwells(f.blocks), [d \in Dwells(f.blocks) |-> d[1]])
          IN  [i \in DOMAIN s |->
                 LET centre == f.blocks[s[i][1]]
                 IN  Recording(<<f.sweep, centre>>, f.sweep, centre, s[i][1], <<f.sweep, "">>,
                               IF f.drone = 0 THEN "no_tx" ELSE "vtx",
                               DwellLabel(f, centre), s[i][2] - s[i][1] + 1)]]
    IN  FlattenSeq(Listed({f \in OnDisk : f.incsv}, of))

(* Own sessions: an annotated interval is a group of its own; the missing  *)
(* samples of a window and of the session up to it travel with the window. *)
AerixRecordings ==
    LET upto(f) == {g \in OnDisk : g.n <= f.n}
        lost(f) == FoldSet(LAMBDA g, a : a + g.lost, 0, upto(f))
        annotated(f) == f.n \in DOMAIN ann
        of == [f \in OnDisk |->
          [Recording(<<"session", f.n>>, f.n, "", 0,
                     IF annotated(f) THEN <<"session", ann[f.n].id>> ELSE <<"session", "all">>,
                     "antsdr", IF annotated(f) THEN ann[f.n].label ELSE test, f.steps)
             EXCEPT !.drop = f.lost > 1 \/ lost(f) > 10 * Cardinality(upto(f)),
                    !.transition = annotated(f) /\ ann[f.n].transition]]
    IN  Listed(OnDisk, of)

Recordings ==
    CASE ds = "zenodo" -> ZenodoRecordings [] ds = "rub" -> RubRecordings
      [] ds = "rfuav" -> RfuavRecordings   [] ds = "analog" -> AnalogRecordings
      [] ds = "aerix" -> AerixRecordings

-----------------------------------------------------------------------------
(* window.py and prepare.py.                                               *)

(* iter_windows: <<first step, steps>> of each window, none of them padded. *)
IterWindows(steps) ==
    LET From(k) == (k - 1) * WindowSteps
    IN  [k \in 1..(steps + WindowSteps - 1) \div WindowSteps |->
           <<From(k), Min({WindowSteps, steps - From(k)})>>]

(* Defective: the number of the window is not part of its name. *)
UidOfRecording(r, k) == <<r.src, r.rec, r.chan>>

Uid(r, k) == <<r.src, r.rec, r.chan, k>>

(* The windows of a run, up to the first recording that does not load.     *)
WindowsOf(r) ==
    LET w == IterWindows(r.steps)
    IN  [k \in DOMAIN w |->
           [uid |-> Uid(r, k), what |-> <<r.src, r.off, w[k]>>, group |-> <<r.device, r.run>>,
            label |-> r.label, drop |-> r.drop, transition |-> r.transition]]
Plan(recs) ==
    LET bad == {i \in DOMAIN recs : ~recs[i].loads}
        good == IF bad = {} THEN recs ELSE SubSeq(recs, 1, Min(bad) - 1)
    IN  FlattenSeq([i \in DOMAIN good |-> WindowsOf(good[i])])

Rows == {i \in DOMAIN index : index[i].kind = "row"}
LastRow(u) == index[Max({i \in Rows : index[i].w.uid = u})]
HasRow(u) == \E i \in Rows : index[i].w.uid = u
Now == Head(todo)
Put(f, u, v) == [x \in DOMAIN f \cup {u} |-> IF x = u THEN v ELSE f[x]]

Positions == {f.n : f \in {g \in Mirror : g.ds = ds}}

Init ==
    /\ ds \in Datasets
    /\ there \in SUBSET Positions
    /\ test \in TestLabels /\ (ds # "aerix" => test = "unknown")
    /\ ann = <<>> /\ log = <<>> /\ code = 1
    /\ pc = "idle" /\ tensors = TRUE /\ todo = <<>> /\ index = <<>>
    /\ npy = <<>> /\ json = <<>> /\ hurt = {} /\ regrouped = {}
    /\ used = {} /\ failed = FALSE
    /\ runs = 0 /\ cuts = 0 /\ notes = 0 /\ trainings = 0

(* An original arrives: a part of a download, a file of a session.         *)
Arrive ==
    /\ \E n \in Positions \ there : there' = there \cup {n}
    /\ UNCHANGED <<ds, test, ann, log, code, prep, used, failed, runs, cuts, notes,
                   trainings>>

(* aerix-rf annotate, with a log or a corrected one.                       *)
Annotate(lines) ==
    /\ ds = "aerix" /\ notes < MaxTimelines
    /\ LET a == Annotation(lines, OnDisk)
       IN  a # <<>> /\ ann' = a /\ log' = lines
    /\ notes' = notes + 1
    /\ UNCHANGED <<ds, there, test, code, prep, used, failed, runs, cuts, trainings>>

UpdateCode ==
    /\ code = 1 /\ pc = "idle" /\ code' = 2
    /\ UNCHANGED <<ds, disk, prep, used, failed, runs, cuts, notes, trainings>>

(* prepare_dataset lists the recordings, annotations included.             *)
StartRun(limit, withTensors) ==
    /\ pc = "idle" /\ runs < MaxRuns
    /\ LET recs == Recordings
           plan == Plan(SubSeq(recs, 1, Min({limit, Len(recs)})))
       IN  /\ todo' = plan
           /\ pc' = IF plan = <<>> THEN "idle" ELSE "tensor"
    /\ tensors' = withTensors /\ runs' = runs + 1
    /\ UNCHANGED <<ds, disk, code, index, npy, json, hurt, regrouped, used, failed,
                   cuts, notes, trainings>>

WriteTensor ==
    /\ pc = "tensor" /\ pc' = "row"
    /\ npy' = IF tensors THEN Put(npy, Now.uid, <<Now.what, code>>) ELSE npy
    /\ hurt' = hurt \cup {Now.uid}
    /\ UNCHANGED <<ds, disk, code, tensors, todo, index, json, regrouped, used, failed,
                   runs, cuts, notes, trainings>>

(* index.append: what follows a line that was cut short is lost with it.   *)
AppendTo(lines, row) ==
    IF lines # <<>> /\ Last(lines).kind = "cut"
    THEN Front(lines) \o <<[kind |-> "bad"]>>
    ELSE Append(lines, row)

RowOf(w) == [kind |-> "row", w |-> w, artifact |-> IF tensors THEN <<w.what, code>> ELSE <<>>]

AppendRow ==
    /\ pc = "row" /\ pc' = "sidecar"
    /\ index' = AppendTo(index, RowOf(Now))
    /\ regrouped' = IF HasRow(Now.uid) /\ LastRow(Now.uid).w.group # Now.group
                    THEN regrouped \cup {Now.uid} ELSE regrouped
    /\ UNCHANGED <<ds, disk, code, tensors, todo, npy, json, hurt, used, failed, runs,
                   cuts, notes, trainings>>

WriteSidecar ==
    /\ pc = "sidecar"
    /\ json' = Put(json, Now.uid, RowOf(Now))
    /\ hurt' = IF Last(index).kind = "row" /\ (tensors \/ Now.uid \notin DOMAIN npy)
               THEN hurt \ {Now.uid} ELSE hurt
    /\ todo' = Tail(todo)
    /\ pc' = IF Tail(todo) = <<>> THEN "idle" ELSE "tensor"
    /\ UNCHANGED <<ds, disk, code, tensors, index, npy, regrouped, used, failed, runs,
                   cuts, notes, trainings>>

(* The run is cut: killed, or out of disk space, with a file half written. *)
Cut ==
    /\ pc # "idle" /\ cuts < MaxCuts /\ cuts' = cuts + 1
    /\ pc' = "idle" /\ todo' = <<>>
    /\ \/ UNCHANGED <<npy, index, hurt>>
       \/ /\ pc = "tensor" /\ tensors /\ npy' = Put(npy, Now.uid, <<"cut">>)
          /\ hurt' = hurt \cup {Now.uid} /\ UNCHANGED index
       \/ /\ pc = "row" /\ index' = IF index # <<>> /\ Last(index).kind = "cut" THEN index
                                    ELSE Append(index, [kind |-> "cut"])
          /\ UNCHANGED <<npy, hurt>>
    /\ json' = IF pc = "sidecar" THEN Put(json, Now.uid, <<"cut">>) ELSE json
    /\ UNCHANGED <<ds, disk, code, tensors, regrouped, used, failed, runs, notes,
                   trainings>>

-----------------------------------------------------------------------------
(* benchmark_features_v2.load_rows and train_v2.                           *)

Raises == \E i \in DOMAIN index : index[i].kind # "row"
(* Defective: rows whose tensor was never written are kept. *)
KeptWithoutTensor(i) == ~index[i].w.drop

Kept(i) == ~index[i].w.drop /\ index[i].w.uid \in DOMAIN npy
LoadsTensor(u) == u \in DOMAIN npy /\ npy[u] # <<"cut">>
LoadRaises == Raises \/ \E i \in Rows : Kept(i) /\ ~LoadsTensor(index[i].w.uid)

(* assign_splits: the names in order, with bounds 15, 85 and 100.          *)
Hash(group) == Position[group[2]]
SplitAt(p) == CASE p < 15 -> "test" [] p \in 15..84 -> "train" [] OTHER -> "val"
(* Defective: the split depends on what other groups there are. *)
AssignSplitsByRank(groups) ==
    LET s == SetToSeq(groups)
    IN  [g \in groups |-> IF g = s[1] THEN "test" ELSE "train"]

AssignSplits(groups) == [g \in groups |-> SplitAt(Hash(g))]

Train ==
    /\ trainings < MaxTrainings /\ trainings' = trainings + 1
    /\ failed' = LoadRaises
    /\ used' = IF LoadRaises THEN used
               ELSE LET rows == {index[i].w : i \in {j \in Rows : Kept(j)}}
                        split == AssignSplits({w.group : w \in rows})
                    IN  used \cup {[uid |-> w.uid, split |-> split[w.group], label |-> w.label,
                                    transition |-> w.transition] : w \in rows}
    /\ UNCHANGED <<ds, disk, code, prep, runs, cuts, notes>>

Next ==
    \/ Arrive
    \/ \E lines \in Timelines : Annotate(lines)
    \/ UpdateCode
    \/ \E limit \in Limits, withTensors \in BOOLEAN : StartRun(limit, withTensors)
    \/ WriteTensor \/ AppendRow \/ WriteSidecar \/ Cut
    \/ Train
Spec == Init /\ [][Next]_vars

-----------------------------------------------------------------------------
TypeOK ==
    /\ ds \in Datasets /\ there \subseteq Positions
    /\ pc \in {"idle", "tensor", "row", "sidecar"} /\ tensors \in BOOLEAN
    /\ (pc = "idle") = (todo = <<>>)
    /\ DOMAIN ann \subseteq there
    /\ \A r \in used : r.split \in Splits

ComesBack(f) ==
    f.ds = "analog" /\ \E d, e \in Dwells(f.blocks) : d # e /\ f.blocks[d[1]] = f.blocks[e[1]]
ArtefactsAgree ==
    /\ \A u \in {index[i].w.uid : i \in Rows} \ hurt :
         /\ json[u] = LastRow(u)
         /\ LastRow(u).artifact # <<>> => npy[u] = LastRow(u).artifact
    /\ \A i, j \in Rows :
         /\ index[i].w.uid = index[j].w.uid
         /\ index[i].w.what # index[j].w.what
         => \E f \in OnDisk : ComesBack(f) /\ f.sweep = index[i].w.uid[1]
AnnotationTrue ==
    LET plain == /\ Midnight(log[1].at) = Midnight(SessionStart)
                 /\ \A i \in 2..Len(log) : log[i].at - log[i - 1].at < Day
        True(n) == Max({0} \cup {i \in DOMAIN log : log[i].at <= CapturedAt(n)})
    IN  (ann # <<>> /\ plain) =>
          \A n \in DOMAIN ann : True(n) > 0 /\ ann[n].id = log[True(n)].id

(* What is on file of a window is true of it.  Unless its writing was cut,  *)
(* the last row of a uid is its sidecar and names the tensor on disk; two  *)
(* rows of a uid are of the same samples, except in a sweep that comes     *)
(* back to a frequency, whose dwells there share their uids (prepare.py:    *)
(* _uid and the order tensor, row, sidecar; adapters.py: recording_id).     *)
(* And an annotation says of each window what the operator logged as in    *)
(* force then, if the log begins on the day the session started and leaves *)
(* out no whole day (annotate.py: _events_to_utc, annotate_session).        *)
RowsTrue ==
    /\ TypeOK
    /\ ArtefactsAgree
    /\ AnnotationTrue

(* A window that was held out stays held out: with one seed no window is   *)
(* in two splits, in one training or in two, however the dataset grew in   *)
(* between, unless it was prepared again under another group after its     *)
(* session had been annotated (index.py: assign_splits, group_key;         *)
(* adapters.py: run_id of an annotated interval).                          *)
HeldOutStaysHeldOut ==
    \A a, b \in used : (a.uid = b.uid /\ a.split # b.split) => a.uid \in regrouped

(* Training raises only where a run of prepare was cut while it appended   *)
(* to the index or replaced a tensor that a row names (index.py:            *)
(* iter_dataset; benchmark_features_v2.py: load_rows, np.load).            *)
TrainFailsOnlyAfterCut ==
    /\ failed => cuts > 0
    /\ LoadRaises => \/ \E i \in DOMAIN index : index[i].kind # "row"
                     \/ \E i \in Rows : index[i].w.uid \in hurt
=============================================================================
