--------------------------- MODULE MCDatasetCorpus ---------------------------
(* Small mirrors: two parts of a Zenodo recording and a single file, a RUB *)
(* sample, two RFUAV slices (the second longer than its XML says) and a     *)
(* stray duplicate, a sweep that comes back to a frequency and a control    *)
(* sweep, and a session of two files across midnight.                      *)
EXTENDS DatasetCorpus

Zenodo(n, key, part) ==
    [ds |-> "zenodo", n |-> n, key |-> key, part |-> part, band |-> "5G", steps |-> 1]
Rub == [ds |-> "rub", n |-> 1, key |-> "k1", steps |-> 3]
Rfuav(n, archive, slice, steps) ==
    [ds |-> "rfuav", n |-> n, archive |-> archive, device |-> "mini", pack |-> "pack1",
     slice |-> slice, data |-> slice, known |-> TRUE, steps |-> steps, declared |-> 2]
Sweep(n, sweep, drone, blocks) ==
    [ds |-> "analog", n |-> n, sweep |-> sweep, incsv |-> TRUE, drone |-> drone, blocks |-> blocks]
SessionFile(n, at, lost) ==
    [ds |-> "aerix", n |-> n, at |-> at, lost |-> lost, steps |-> 2]

MCMirror ==
    {Zenodo(1, "k1", 1), Zenodo(2, "k1", 2), Zenodo(3, "k2", 1), Rub,
     Rfuav(1, "arc", 1, 2), Rfuav(2, "arc", 2, 3), Rfuav(3, "stray", 1, 2),
     Sweep(1, "k1", 5, <<5, 5, 6, 5>>), Sweep(2, "k2", 0, <<5, 6>>),
     SessionFile(1, 3, 0), SessionFile(2, 6, 1)}

Line(at, id) == [at |-> at, id |-> id]
MCTimelines ==
    {<<Line(3, "off"), Line(5, "on")>>, <<Line(2, "off"), Line(3, "on"), Line(6, "off")>>,
     <<Line(4, "off"), Line(6, "on")>>}
MCPosition ==
    LET Runs == {<<k, "">> : k \in {"k1", "k2"}} \cup {<<"mini", "pack1">>}
                  \cup {<<"session", id>> : id \in {"all", "on", "off"}}
    IN  [r \in Runs |-> IF r[2] = "on" THEN 10 ELSE IF r[1] = "k2" THEN 90 ELSE 50]
MCTestLabels == {"unknown"}
=============================================================================
