----------------------- MODULE SessionRecorderProofs ------------------------
(***************************************************************************)
(* Safety of the session recorder, for every set of windows, every cap,    *)
(* every number of windows and of failing writes.                          *)
(***************************************************************************)
EXTENDS SessionRecorder, FiniteSetTheorems, WellFoundedInduction, TLAPS

USE DEF mainVars, files

(* The session has been created, with nothing in it. *)
LEMMA InitRecorderInv == Init => RecorderInv
  <1> SUFFICES ASSUME Init PROVE RecorderInv
    OBVIOUS
  <1> USE DEF Init
  <1>1. Empty \in Session /\ Empty.files = <<>> /\ Empty.final = FALSE
    BY DEF Empty, Session
  <1>2. ShapeOK
    <2>1. iq \in [Window -> [win : Window \cup {0}, whole : BOOLEAN]]
      BY DEF Absent
    <2>2. /\ wins \in Seq(Kind) /\ Len(wins) <= MaxWindows
          /\ queue \in Seq(Window)
      BY RecorderAssumption
    <2>3. det \in Seq([win : Window, file : Window \cup {NoFile}])
      OBVIOUS
    <2>4. /\ status \in [Window -> {"none", "queued", "done", "failed"}]
          /\ faults \in 0 .. MaxFaults
      BY RecorderAssumption
    <2> QED BY <1>1, <2>1, <2>2, <2>3, <2>4 DEF ShapeOK
  <1>3. QueueInOrder /\ FilesWhole /\ DiskBehindMeta /\ KeptIsListed
    BY <1>1 DEF QueueInOrder, FilesWhole, DiskBehindMeta, KeptIsListed, Listing
  <1>4. QueuedIsAhead /\ EvidenceIsListed /\ FinalIsFinal
    BY <1>1 DEF QueuedIsAhead, EvidenceIsListed, FinalIsFinal
  <1> QED BY <1>2, <1>3, <1>4 DEF RecorderInv

LEMMA NextWindowInv ==
  ASSUME RecorderInv, NEW k \in Kinds, NextWindow(k)
  PROVE  RecorderInv'
  <1>1. /\ UNCHANGED <<queue, status, wpc, task, meta, disk, iq, det, torn, faults,
                       crashed>>
        /\ main = "loop" /\ main' = "reap" /\ Len(wins) < MaxWindows
    BY DEF NextWindow, WriterUnchanged
  <1>2. /\ \E w \in Kind : wins' = Append(wins, w)
        /\ iq_bytes' \in Nat
    <2>1. k \in Kind /\ k.size \in Nat /\ iq_bytes \in Nat
      BY RecorderAssumption DEF Kind, RecorderInv, ShapeOK
    <2>2. PICK keep \in BOOLEAN :
            /\ wins' = Append(wins, [k EXCEPT !.keep = keep])
            /\ iq_bytes' = IF keep THEN iq_bytes + 2 * k.size ELSE iq_bytes
      <3>1. (k.keep /\ iq_bytes + 2 * k.size <= MaxBytes) \in BOOLEAN
        OBVIOUS
      <3> QED BY <3>1, Zenon DEF NextWindow
    <2>3. [k EXCEPT !.keep = keep] \in Kind
      BY <2>1 DEF Kind
    <2> QED BY <2>1, <2>2, <2>3
  <1>3. /\ wins' \in Seq(Kind) /\ Len(wins') = Len(wins) + 1
        /\ \A i \in 1 .. Len(wins) : wins'[i] = wins[i]
    BY <1>2 DEF RecorderInv, ShapeOK
  <1>4. ShapeOK'
    BY <1>1, <1>2, <1>3, RecorderAssumption DEF RecorderInv, ShapeOK, Window
  <1>5. QueueInOrder'
    <2>1. Len(wins) \in Nat /\ task \in Nat /\ \A i \in DOMAIN queue : queue[i] \in Nat
      BY RecorderAssumption DEF RecorderInv, ShapeOK, Window
    <2> QED BY <1>1, <1>3, <2>1 DEF RecorderInv, QueueInOrder
  <1>6. FilesWhole' /\ DiskBehindMeta' /\ EvidenceIsListed' /\ FinalIsFinal'
    BY <1>1 DEF RecorderInv, FilesWhole, FileNo, Listing, DiskBehindMeta,
                EvidenceIsListed, FinalIsFinal
  <1>7. KeptIsListed'
    BY <1>1, <1>3 DEF RecorderInv, KeptIsListed, QueueInOrder, ShapeOK, Window
  <1>8. QueuedIsAhead'
    BY <1>1 DEF RecorderInv, QueuedIsAhead
  <1> QED BY <1>4, <1>5, <1>6, <1>7, <1>8 DEF RecorderInv

(* What the records say of session.json's list stays true when it grows.   *)
LEMMA LongerListKeepsEvidence ==
  ASSUME RecorderInv, disk' \in Session, Len(disk.files) <= Len(disk'.files),
         \A n \in DOMAIN disk.files : disk'.files[n] = disk.files[n],
         NEW i \in DOMAIN det, det[i].file # NoFile
  PROVE  /\ det[i].file <= Len(disk'.files)
         /\ disk'.files[det[i].file] = det[i].win
  <1> DEFINE Line == [win : Window, file : Window \cup {NoFile}]
  <1>1. det[i] \in Line
    <2>1. det \in Seq(Line)
      BY DEF RecorderInv, ShapeOK
    <2> HIDE DEF Line
    <2> QED BY <2>1
  <1>2. det[i].file \in Window
    BY <1>1
  <1>3. disk.files \in Seq(Window) /\ disk'.files \in Seq(Window)
    BY DEF RecorderInv, ShapeOK, Session
  <1>4. det[i].file <= Len(disk.files) /\ disk.files[det[i].file] = det[i].win
    BY DEF RecorderInv, EvidenceIsListed
  <1>5. det[i].file \in DOMAIN disk.files
    BY <1>2, <1>3, <1>4, RecorderAssumption DEF Window
  <1>6. disk'.files[det[i].file] = det[i].win
    BY <1>4, <1>5
  <1>7. det[i].file \in Nat /\ Len(disk.files) \in Nat /\ Len(disk'.files) \in Nat
    BY <1>2, <1>3, RecorderAssumption DEF Window
  <1> QED BY <1>4, <1>6, <1>7

(* The other steps of the main thread leave the files alone. *)
LEMMA MainKeepsFiles ==
  ASSUME RecorderInv, WriterUnchanged, UNCHANGED wins
  PROVE  FilesWhole' /\ DiskBehindMeta' /\ KeptIsListed' /\ EvidenceIsListed'
  BY DEF WriterUnchanged, RecorderInv, FilesWhole, FileNo, Listing,
         DiskBehindMeta, KeptIsListed, EvidenceIsListed

LEMMA SubmitInv == RecorderInv /\ Submit => RecorderInv'
  <1> SUFFICES ASSUME RecorderInv, Submit PROVE RecorderInv'
    OBVIOUS
  <1> USE DEF Submit, WriterUnchanged
  <1>1. ShapeOK'
    BY RecorderAssumption DEF RecorderInv, ShapeOK, Window, QueueInOrder
  <1>2. QueueInOrder'
    BY DEF RecorderInv, ShapeOK, QueueInOrder, Window
  <1>3. FilesWhole' /\ DiskBehindMeta' /\ KeptIsListed' /\ EvidenceIsListed'
    BY MainKeepsFiles
  <1>4. \A w \in Window : status'[w] = "queued" =>
          status[w] = "queued" \/ w = Len(wins)
    BY DEF RecorderInv, ShapeOK
  <1>5. /\ \A i \in DOMAIN queue : i \in DOMAIN queue' /\ queue'[i] = queue[i]
        /\ Len(queue') \in DOMAIN queue' /\ queue'[Len(queue')] = Len(wins)
    BY DEF RecorderInv, ShapeOK
  <1>6. QueuedIsAhead'
    BY <1>4, <1>5 DEF RecorderInv, QueuedIsAhead
  <1>7. FinalIsFinal'
    BY DEF RecorderInv, FinalIsFinal, QueuedIsAhead
  <1> QED BY <1>1, <1>2, <1>3, <1>6, <1>7 DEF RecorderInv

(* Reaping futures, a result that raises, and the end of the loop. *)
LEMMA MainMovesInv == RecorderInv /\ (Reap \/ ResultRaises \/ LoopEnds \/ Shutdown) => RecorderInv'
  <1> SUFFICES ASSUME RecorderInv, Reap \/ ResultRaises \/ LoopEnds \/ Shutdown
               PROVE  RecorderInv'
    OBVIOUS
  <1>0. WriterUnchanged /\ UNCHANGED <<wins, iq_bytes, queue, status>>
    BY DEF Reap, ResultRaises, LoopEnds, Shutdown
  <1>1. ShapeOK'
    BY <1>0 DEF RecorderInv, ShapeOK, WriterUnchanged, Reap, ResultRaises, LoopEnds, Shutdown
  <1>2. QueueInOrder'
    BY <1>0 DEF RecorderInv, ShapeOK, QueueInOrder, WriterUnchanged, Reap, ResultRaises, LoopEnds, Shutdown
  <1>3. FilesWhole' /\ DiskBehindMeta' /\ KeptIsListed' /\ EvidenceIsListed'
    BY <1>0, MainKeepsFiles
  <1>4. QueuedIsAhead' /\ FinalIsFinal'
    BY <1>0 DEF RecorderInv, ShapeOK, QueuedIsAhead, FinalIsFinal, WriterUnchanged, Reap, ResultRaises, LoopEnds, Shutdown
  <1> QED BY <1>1, <1>2, <1>3, <1>4 DEF RecorderInv

LEMMA FinalizeInv == RecorderInv /\ (Finalize \/ FinalizeFails) => RecorderInv'
  <1> SUFFICES ASSUME RecorderInv, Finalize \/ FinalizeFails PROVE RecorderInv'
    OBVIOUS
  <1>1. /\ UNCHANGED <<wins, iq_bytes, queue, status, wpc, task, iq, det, torn, crashed>>
        /\ main = "finalize" /\ main' = "ended"
        /\ meta' = Finalized /\ disk' \in {disk, meta'}
        /\ faults' \in 0 .. MaxFaults
    BY RecorderAssumption DEF Finalize, FinalizeFails, RecorderInv, ShapeOK
  <1>2. /\ meta' \in Session /\ meta'.files = meta.files
        /\ meta'.logged = Len(det)
    BY <1>1 DEF Finalized, Session, RecorderInv, ShapeOK
  <1>3. ShapeOK'
    BY <1>1, <1>2 DEF RecorderInv, ShapeOK
  <1>4. QueueInOrder'
    BY <1>1 DEF RecorderInv, QueueInOrder
  <1>5. /\ queue = <<>> /\ wpc = "idle"
        /\ \A w \in Window : status[w] # "queued"
    BY <1>1 DEF RecorderInv, QueuedIsAhead
  <1>6. FilesWhole' /\ KeptIsListed'
    BY <1>1, <1>2, <1>5 DEF RecorderInv, FilesWhole, FileNo, Listing, KeptIsListed
  <1>7. DiskBehindMeta'
    BY <1>1, <1>2 DEF RecorderInv, ShapeOK, DiskBehindMeta, Session
  <1>8. EvidenceIsListed'
    <2>1. /\ disk' \in Session /\ Len(disk.files) <= Len(disk'.files)
          /\ \A n \in DOMAIN disk.files : disk'.files[n] = disk.files[n]
      BY <1>1, <1>2 DEF RecorderInv, ShapeOK, DiskBehindMeta, Session
    <2> QED BY <1>1, <2>1, LongerListKeepsEvidence DEF EvidenceIsListed
  <1>9. QueuedIsAhead' /\ FinalIsFinal'
    BY <1>1, <1>2, <1>5 DEF RecorderInv, QueuedIsAhead, FinalIsFinal
  <1> QED BY <1>3, <1>4, <1>6, <1>7, <1>8, <1>9 DEF RecorderInv
-----------------------------------------------------------------------------
(* The writer thread. *)

(* While the writer has a window in hand the session is not finalised.     *)
LEMMA WriterBusy ==
  ASSUME RecorderInv, wpc # "idle"
  PROVE  /\ task \in Window /\ task <= Len(wins) /\ wins[task] \in Kind
         /\ main \notin {"finalize", "ended"} /\ ~meta.final /\ ~disk.final
         /\ Listing => FileNo \in Window
  <1>1. task \in Window /\ task <= Len(wins)
    BY DEF RecorderInv, ShapeOK, QueueInOrder
  <1>2. wins[task] \in Kind
    BY <1>1, RecorderAssumption DEF RecorderInv, ShapeOK, Window
  <1>3. main \notin {"finalize", "ended"} /\ ~meta.final /\ ~disk.final
    BY DEF RecorderInv, QueuedIsAhead
  <1>4. Len(meta.files) \in Nat
    BY DEF RecorderInv, ShapeOK, Session
  <1>5. Listing => FileNo \in Window
    BY <1>1, <1>4, RecorderAssumption DEF RecorderInv, FilesWhole, FileNo, Window
  <1> QED BY <1>1, <1>2, <1>3, <1>5

LEMMA TakeInv == RecorderInv /\ Take => RecorderInv'
  <1> SUFFICES ASSUME RecorderInv, Take PROVE RecorderInv'
    OBVIOUS
  <1>1. /\ UNCHANGED <<main, wins, iq_bytes, status, meta, disk, iq, det, torn,
                       faults, crashed>>
        /\ wpc = "idle" /\ queue # <<>>
        /\ task' = Head(queue) /\ queue' = Tail(queue)
        /\ wpc' = IF wins[task'].keep THEN "open" ELSE AfterIq(task')
    BY DEF Take, MainUnchanged
  <1>2. wpc' \in {"open", "png", "det"} /\ (wins[task'].keep => wpc' = "open")
    BY <1>1 DEF AfterIq
  <1>3. /\ queue \in Seq(Window) /\ 1 \in DOMAIN queue /\ task' = queue[1]
        /\ queue' \in Seq(Window)
        /\ \A i \in DOMAIN queue' : i + 1 \in DOMAIN queue /\ queue'[i] = queue[i + 1]
        /\ \A i \in DOMAIN queue : i # 1 => i - 1 \in DOMAIN queue' /\ queue'[i - 1] = queue[i]
    BY <1>1 DEF RecorderInv, ShapeOK
  <1>4. ShapeOK'
    BY <1>1, <1>2, <1>3 DEF RecorderInv, ShapeOK
  <1>5. task \in Nat /\ task < task' /\ task' \in Window /\ task' <= Len(wins)
    BY <1>3, RecorderAssumption DEF RecorderInv, ShapeOK, QueueInOrder, Window
  <1>6. QueueInOrder'
    <2>1. /\ task' > 0
          /\ main \in {"reap", "wait"} => task' < Len(wins)
      BY <1>3, <1>5, RecorderAssumption DEF RecorderInv, QueueInOrder, Window
    <2>2. ASSUME NEW i \in DOMAIN queue'
          PROVE  /\ task' < queue'[i] /\ queue'[i] <= Len(wins)
                 /\ main \in {"reap", "wait"} => queue'[i] < Len(wins)
                 /\ \A j \in DOMAIN queue' : i < j => queue'[i] < queue'[j]
      <3>1. i \in Nat /\ 1 < i + 1
        BY <1>3
      <3>2. i + 1 \in DOMAIN queue /\ queue'[i] = queue[i + 1]
        BY <1>3
      <3>3. \A j \in DOMAIN queue' : /\ j \in Nat /\ j + 1 \in DOMAIN queue
                                     /\ queue'[j] = queue[j + 1]
        BY <1>3
      <3> QED BY <1>3, <3>1, <3>2, <3>3 DEF RecorderInv, QueueInOrder
    <2> QED BY <1>1, <1>2, <1>5, <2>1, <2>2 DEF QueueInOrder
  <1>7. FilesWhole'
    <2>1. Len(meta.files) \in Nat /\ Len(meta.files) <= task
      BY DEF RecorderInv, ShapeOK, Session, FilesWhole
    <2>2. Len(meta.files) < task' /\ wpc' \notin {"data", "list"}
      BY <1>2, <1>5, <2>1, RecorderAssumption DEF Window
    <2>3. \A n \in DOMAIN meta.files : iq[n] = [win |-> meta.files[n], whole |-> TRUE]
      BY DEF RecorderInv, FilesWhole
    <2>4. UNCHANGED <<meta, iq>>
      BY <1>1
    <2>5. task' \in Nat
      BY <1>5, RecorderAssumption DEF Window
    <2> QED BY <2>1, <2>2, <2>3, <2>4, <2>5 DEF FilesWhole
  <1>8. DiskBehindMeta' /\ EvidenceIsListed' /\ FinalIsFinal'
    BY <1>1 DEF RecorderInv, DiskBehindMeta, EvidenceIsListed, FinalIsFinal
  <1>9. KeptIsListed'
    BY <1>1, <1>2 DEF KeptIsListed
  <1>10. QueuedIsAhead'
    <2>1. /\ main \notin {"finalize", "ended"}
          /\ ~meta.final /\ ~disk.final
      BY <1>1 DEF RecorderInv, QueuedIsAhead
    <2>2. ASSUME NEW w \in Window, status[w] = "queued", w # task'
          PROVE  \E i \in DOMAIN queue' : queue'[i] = w
      <3>1. PICK i \in DOMAIN queue : queue[i] = w
        BY <1>1, <2>2 DEF RecorderInv, QueuedIsAhead
      <3> QED BY <1>3, <2>2, <3>1
    <2> QED BY <1>1, <1>2, <2>1, <2>2 DEF QueuedIsAhead
  <1> QED BY <1>4, <1>6, <1>7, <1>8, <1>9, <1>10 DEF RecorderInv

(* What all other steps of the writer have in common: the window in hand   *)
(* stays so, or its future is completed.                                   *)
LEMMA WriterKeepsQueue ==
  ASSUME RecorderInv, wpc # "idle", MainUnchanged, UNCHANGED <<queue, task>>,
         meta'.final = meta.final, disk'.final \in {meta.final, disk.final},
         \/ UNCHANGED status /\ wpc' # "idle"
         \/ \E s \in {"done", "failed"} : status' = [status EXCEPT ![task] = s]
  PROVE  /\ QueueInOrder' /\ QueuedIsAhead' /\ FinalIsFinal'
         /\ status' \in [Window -> {"none", "queued", "done", "failed"}]
  <1>1. UNCHANGED <<main, wins>>
    BY DEF MainUnchanged
  <1>2. QueueInOrder'
    BY <1>1, WriterBusy, RecorderAssumption DEF RecorderInv, QueueInOrder, Window
  <1>3. /\ status' \in [Window -> {"none", "queued", "done", "failed"}]
        /\ \A w \in Window : status'[w] = "queued" =>
             status[w] = "queued" /\ (w = task => wpc' # "idle")
    BY WriterBusy DEF RecorderInv, ShapeOK
  <1>4. QueuedIsAhead' /\ FinalIsFinal'
    BY <1>1, <1>3, WriterBusy DEF RecorderInv, QueuedIsAhead, FinalIsFinal
  <1> QED BY <1>2, <1>3, <1>4

(* Steps that touch neither an IQ file nor the list of files. *)
LEMMA FilesUntouched ==
  ASSUME RecorderInv, wpc # "idle", MainUnchanged,
         UNCHANGED <<task, iq>>, wpc' \notin {"open", "data", "list"},
         meta'.files = meta.files, meta' \in Session,
         disk' \in {disk, meta, meta'}
  PROVE  FilesWhole' /\ DiskBehindMeta' /\ disk' \in Session
  <1>1. FilesWhole'
    BY DEF RecorderInv, FilesWhole, FileNo, Listing
  <1>2. DiskBehindMeta'
    BY DEF RecorderInv, ShapeOK, DiskBehindMeta, Session
  <1> QED BY <1>1, <1>2 DEF RecorderInv, ShapeOK

(* The records stay as they are, and session.json lists what it listed.    *)
LEMMA EvidenceStays ==
  ASSUME RecorderInv, det' = det, disk' \in {disk, meta}
  PROVE  EvidenceIsListed'
  <1>1. /\ disk' \in Session /\ Len(disk.files) <= Len(disk'.files)
        /\ \A n \in DOMAIN disk.files : disk'.files[n] = disk.files[n]
    BY DEF RecorderInv, ShapeOK, DiskBehindMeta, Session
  <1> QED BY <1>1, LongerListKeepsEvidence DEF EvidenceIsListed

LEMMA OpenIqInv == RecorderInv /\ OpenIq => RecorderInv'
  <1> SUFFICES ASSUME RecorderInv, OpenIq PROVE RecorderInv'
    OBVIOUS
  <1> USE DEF OpenIq
  <1>1. task \in Window /\ FileNo \in Window /\ MainUnchanged
    BY WriterBusy DEF Listing
  <1>2. QueueInOrder' /\ QueuedIsAhead' /\ FinalIsFinal'
    BY WriterKeepsQueue
  <1>3. /\ iq' \in [Window -> [win : Window \cup {0}, whole : BOOLEAN]]
        /\ iq'[FileNo].win = task
        /\ \A n \in DOMAIN meta.files : iq'[n] = iq[n]
    BY <1>1 DEF RecorderInv, ShapeOK, Session, FileNo
  <1>4. ShapeOK'
    BY <1>1, <1>3 DEF RecorderInv, ShapeOK, MainUnchanged
  <1>5. FilesWhole'
    BY <1>3 DEF RecorderInv, FilesWhole, FileNo, Listing
  <1>6. DiskBehindMeta' /\ KeptIsListed'
    BY DEF RecorderInv, DiskBehindMeta, KeptIsListed
  <1>7. EvidenceIsListed'
    BY EvidenceStays
  <1> QED BY <1>2, <1>4, <1>5, <1>6, <1>7 DEF RecorderInv

LEMMA WriteIqInv == RecorderInv /\ WriteIq => RecorderInv'
  <1> SUFFICES ASSUME RecorderInv, WriteIq PROVE RecorderInv'
    OBVIOUS
  <1> USE DEF WriteIq
  <1>1. task \in Window /\ FileNo \in Window /\ MainUnchanged
    BY WriterBusy DEF Listing
  <1>2. QueueInOrder' /\ QueuedIsAhead' /\ FinalIsFinal'
    BY WriterKeepsQueue
  <1>3. /\ iq' \in [Window -> [win : Window \cup {0}, whole : BOOLEAN]]
        /\ iq'[FileNo] = [win |-> task, whole |-> TRUE]
        /\ \A n \in DOMAIN meta.files : iq'[n] = iq[n]
    BY <1>1 DEF RecorderInv, ShapeOK, Session, FilesWhole, FileNo
  <1>4. ShapeOK'
    BY <1>1, <1>3 DEF RecorderInv, ShapeOK, MainUnchanged
  <1>5. FilesWhole'
    BY <1>3 DEF RecorderInv, FilesWhole, FileNo, Listing
  <1>6. DiskBehindMeta' /\ KeptIsListed'
    BY DEF RecorderInv, DiskBehindMeta, KeptIsListed
  <1>7. EvidenceIsListed'
    BY EvidenceStays
  <1> QED BY <1>2, <1>4, <1>5, <1>6, <1>7 DEF RecorderInv

(* Listing the file whose data has been written. *)
LEMMA ListingKeepsFiles ==
  ASSUME RecorderInv, wpc = "list", UNCHANGED <<iq, task>>,
         meta' = [meta EXCEPT !.files = Append(@, task)],
         wpc' \notin {"open", "data", "list"}
  PROVE  /\ meta' \in Session /\ meta'.final = meta.final
         /\ Len(meta'.files) = Len(meta.files) + 1
         /\ meta'.files[Len(meta'.files)] = task
         /\ \A n \in DOMAIN meta.files : n \in DOMAIN meta'.files /\ meta'.files[n] = meta.files[n]
         /\ FilesWhole'
  <1>1. task \in Window /\ meta.files \in Seq(Window)
    BY WriterBusy DEF RecorderInv, ShapeOK, Session
  <1> DEFINE longer == Append(meta.files, task)
  <1>2. longer \in Seq(Window) /\ meta' = [meta EXCEPT !.files = longer]
    BY <1>1
  <1>3. /\ meta' \in Session /\ meta'.final = meta.final
        /\ meta'.files = longer
    <2> HIDE DEF longer
    <2> QED BY <1>2 DEF RecorderInv, ShapeOK, Session
  <1>4. /\ Len(meta'.files) = Len(meta.files) + 1
        /\ meta'.files[Len(meta'.files)] = task
        /\ DOMAIN meta.files = 1 .. Len(meta.files)
        /\ DOMAIN meta'.files = 1 .. Len(meta.files) + 1
        /\ \A n \in DOMAIN meta.files : meta'.files[n] = meta.files[n]
    <2>1. meta'.files = Append(meta.files, task)
      BY <1>3
    <2> QED BY <1>1, <2>1, Len(meta.files) \in Nat
  <1> HIDE DEF longer
  <1>5. /\ Len(meta.files) \in Nat /\ Len(meta.files) < task
        /\ \A n \in DOMAIN meta.files : iq[n] = [win |-> meta.files[n], whole |-> TRUE]
        /\ iq[Len(meta.files) + 1] = [win |-> task, whole |-> TRUE]
    <2>1. Listing
      BY DEF Listing
    <2>2. FilesWhole
      BY DEF RecorderInv
    <2>3. Len(meta.files) \in Nat
      BY <1>1
    <2> QED BY <2>1, <2>2, <2>3 DEF FilesWhole, FileNo
  <1>6. Len(meta'.files) <= task
    BY <1>1, <1>4, <1>5, RecorderAssumption DEF Window
  <1>7. ASSUME NEW n \in DOMAIN meta'.files
        PROVE  iq[n] = [win |-> meta'.files[n], whole |-> TRUE]
    <2>1. CASE n \in DOMAIN meta.files
      BY <1>4, <1>5, <2>1
    <2>2. CASE n \notin DOMAIN meta.files
      <3>1. n = Len(meta.files) + 1
        BY <1>4, <1>5, <2>2
      <3> QED BY <1>4, <1>5, <3>1
    <2> QED BY <2>1, <2>2
  <1> QED BY <1>3, <1>4, <1>6, <1>7 DEF FilesWhole, Listing

LEMMA ListIqInv == RecorderInv /\ ListIq => RecorderInv'
  <1> SUFFICES ASSUME RecorderInv, ListIq PROVE RecorderInv'
    OBVIOUS
  <1>1. /\ wpc = "list" /\ MainUnchanged /\ UNCHANGED <<queue, status, task, iq, det, torn, faults>>
        /\ meta' = [meta EXCEPT !.files = Append(@, task)] /\ disk' = meta'
        /\ wpc' \in {"png", "det"}
    BY DEF ListIq, AfterIq
  <1>2. /\ meta' \in Session /\ meta'.final = meta.final
        /\ Len(meta'.files) = Len(meta.files) + 1
        /\ meta'.files[Len(meta'.files)] = task
        /\ \A n \in DOMAIN meta.files : n \in DOMAIN meta'.files /\ meta'.files[n] = meta.files[n]
        /\ FilesWhole'
    BY <1>1, ListingKeepsFiles
  <1>3. QueueInOrder' /\ QueuedIsAhead' /\ FinalIsFinal'
    BY <1>1, <1>2, WriterKeepsQueue
  <1>4. ShapeOK'
    BY <1>1, <1>2 DEF RecorderInv, ShapeOK, MainUnchanged
  <1>5. Len(meta.files) \in Nat /\ Len(disk.files) \in Nat
    BY DEF RecorderInv, ShapeOK, Session
  <1>6. DiskBehindMeta' /\ KeptIsListed'
    BY <1>1, <1>2, <1>5 DEF DiskBehindMeta, KeptIsListed
  <1>7. EvidenceIsListed'
    <2>1. Len(disk.files) <= Len(disk'.files)
      BY <1>1, <1>2, <1>5 DEF RecorderInv, DiskBehindMeta
    <2>2. \A n \in DOMAIN disk.files : disk'.files[n] = disk.files[n]
      BY <1>1, <1>2, <1>5 DEF RecorderInv, ShapeOK, Session, DiskBehindMeta
    <2> QED BY <1>1, <1>2, <2>1, <2>2, LongerListKeepsEvidence DEF EvidenceIsListed
  <1> QED BY <1>2, <1>3, <1>4, <1>6, <1>7 DEF RecorderInv

(* The flush fails: session.json stays one entry behind the metadata. *)
LEMMA ListFailsInv == RecorderInv /\ ListFails => RecorderInv'
  <1> SUFFICES ASSUME RecorderInv, ListFails PROVE RecorderInv'
    OBVIOUS
  <1>1. /\ wpc = "list" /\ MainUnchanged /\ UNCHANGED <<queue, task, disk, iq, det, torn>>
        /\ meta' = [meta EXCEPT !.files = Append(@, task)]
        /\ wpc' = "idle" /\ status' = [status EXCEPT ![task] = "failed"]
        /\ faults' \in 0 .. MaxFaults
    BY RecorderAssumption DEF ListFails, WriteFails, FailsWithError, RecorderInv, ShapeOK
  <1>2. /\ meta' \in Session /\ meta'.final = meta.final
        /\ Len(meta'.files) = Len(meta.files) + 1
        /\ \A n \in DOMAIN meta.files : n \in DOMAIN meta'.files /\ meta'.files[n] = meta.files[n]
        /\ FilesWhole'
    BY <1>1, ListingKeepsFiles
  <1>3. /\ QueueInOrder' /\ QueuedIsAhead' /\ FinalIsFinal'
        /\ status' \in [Window -> {"none", "queued", "done", "failed"}]
    BY <1>1, <1>2, WriterKeepsQueue
  <1>4. ShapeOK'
    BY <1>1, <1>2, <1>3 DEF RecorderInv, ShapeOK, MainUnchanged
  <1>5. Len(meta.files) \in Nat /\ Len(disk.files) \in Nat
        /\ DOMAIN disk.files = 1 .. Len(disk.files) /\ DOMAIN meta.files = 1 .. Len(meta.files)
    BY DEF RecorderInv, ShapeOK, Session
  <1>6. DiskBehindMeta' /\ KeptIsListed'
    BY <1>1, <1>2, <1>5 DEF RecorderInv, DiskBehindMeta, KeptIsListed
  <1>7. EvidenceIsListed'
    BY <1>1, EvidenceStays
  <1> QED BY <1>2, <1>3, <1>4, <1>6, <1>7 DEF RecorderInv

(* Appending a record: one that names a file names the last one listed, and *)
(* session.json lists it already.                                           *)
LEMMA RecordIsListed ==
  ASSUME RecorderInv, wpc = "det", AppendLine, disk' \in Session,
         disk'.files \in {disk.files, meta.files}
  PROVE  /\ det' \in Seq([win : Window, file : Window \cup {NoFile}])
         /\ torn' \in BOOLEAN
         /\ EvidenceIsListed'
  <1> DEFINE Line == [win : Window, file : Window \cup {NoFile}]
  <1>1. task \in Window /\ wins[task] \in Kind
    BY WriterBusy
  <1>2. /\ det \in Seq(Line) /\ torn \in BOOLEAN
        /\ meta.files \in Seq(Window) /\ disk.files \in Seq(Window)
    BY DEF RecorderInv, ShapeOK, Session
  <1>3. wins[task].keep =>
          /\ Len(meta.files) \in Window /\ disk'.files = meta.files
          /\ meta.files[Len(meta.files)] = task
    <2>1. Len(meta.files) \in Nat /\ Len(meta.files) <= task
      BY <1>2 DEF RecorderInv, FilesWhole
    <2>2. wins[task].keep =>
            /\ Len(meta.files) > 0 /\ disk.files = meta.files
            /\ meta.files[Len(meta.files)] = task
      BY DEF RecorderInv, KeptIsListed
    <2> QED BY <1>1, <2>1, <2>2, RecorderAssumption DEF Window
  <1>4. /\ Record \in Line /\ Record.win = task
        /\ Record.file # NoFile => wins[task].keep /\ Record.file = Len(meta.files)
    BY <1>1, <1>3 DEF Record, NoFile
  <1>5. det' = det \/ det' = Append(det, Record)
    BY DEF AppendLine
  <1>6. det' \in Seq(Line) /\ torn' \in BOOLEAN
    <2>1. torn' \in BOOLEAN
      BY DEF AppendLine
    <2> HIDE DEF Line
    <2>2. det \in Seq(Line) /\ Record \in Line
      BY <1>2, <1>4
    <2>3. Append(det, Record) \in Seq(Line)
      BY <2>2
    <2> QED BY <1>5, <2>1, <2>2, <2>3
  <1>7. \A i \in DOMAIN det' : (i \in DOMAIN det /\ det'[i] = det[i]) \/ det'[i] = Record
    <2> HIDE DEF Line
    <2> QED BY <1>2, <1>4, <1>5
  <1>8. /\ Len(disk.files) <= Len(disk'.files)
        /\ \A n \in DOMAIN disk.files : disk'.files[n] = disk.files[n]
    BY <1>2 DEF RecorderInv, DiskBehindMeta
  <1>9. ASSUME NEW i \in DOMAIN det', det'[i].file # NoFile
        PROVE  /\ det'[i].file <= Len(disk'.files)
               /\ disk'.files[det'[i].file] = det'[i].win
    <2>1. CASE i \in DOMAIN det /\ det'[i] = det[i]
      BY <1>8, <1>9, <2>1, LongerListKeepsEvidence
    <2>2. CASE det'[i] = Record
      <3> HIDE DEF Line
      <3>1. wins[task].keep /\ det'[i].file = Len(meta.files) /\ det'[i].win = task
        BY <1>4, <1>9, <2>2
      <3>2. Len(meta.files) <= Len(disk'.files) /\ disk'.files[Len(meta.files)] = task
        BY <1>2, <1>3, <3>1
      <3> QED BY <3>1, <3>2
    <2> QED BY <1>7, <2>1, <2>2
  <1> QED BY <1>6, <1>9 DEF EvidenceIsListed

LEMMA LogDetectionInv == RecorderInv /\ LogDetection => RecorderInv'
  <1> SUFFICES ASSUME RecorderInv, LogDetection PROVE RecorderInv'
    OBVIOUS
  <1>1. /\ wpc = "det" /\ MainUnchanged /\ UNCHANGED <<queue, task, iq, faults>>
        /\ AppendLine /\ disk' = meta'
        /\ wpc' \in {"dec", "idle"}
        /\ IF wpc' = "idle" THEN status' = [status EXCEPT ![task] = "done"] ELSE UNCHANGED status
    BY DEF LogDetection, Done, AfterDet
  <1>2. meta' \in Session /\ meta'.files = meta.files /\ meta'.final = meta.final
    <2>1. meta \in Session /\ meta' = [meta EXCEPT !.logged = @ + 1]
      BY DEF LogDetection, RecorderInv, ShapeOK
    <2> QED BY <2>1 DEF Session
  <1>3. FilesWhole' /\ DiskBehindMeta'
    BY <1>1, <1>2, FilesUntouched
  <1>4. /\ QueueInOrder' /\ QueuedIsAhead' /\ FinalIsFinal'
        /\ status' \in [Window -> {"none", "queued", "done", "failed"}]
    BY <1>1, <1>2, WriterKeepsQueue
  <1>5. /\ det' \in Seq([win : Window, file : Window \cup {NoFile}])
        /\ torn' \in BOOLEAN /\ EvidenceIsListed'
    BY <1>1, <1>2, RecordIsListed
  <1>6. ShapeOK'
    BY <1>1, <1>2, <1>4, <1>5 DEF RecorderInv, ShapeOK, MainUnchanged
  <1>7. KeptIsListed'
    BY <1>1 DEF KeptIsListed
  <1> QED BY <1>3, <1>4, <1>5, <1>6, <1>7 DEF RecorderInv

LEMMA LogFailsInv == RecorderInv /\ LogFails => RecorderInv'
  <1> SUFFICES ASSUME RecorderInv, LogFails PROVE RecorderInv'
    OBVIOUS
  <1>1. /\ wpc = "det" /\ MainUnchanged /\ UNCHANGED <<queue, task, disk, iq>>
        /\ wpc' = "idle" /\ status' = [status EXCEPT ![task] = "failed"]
        /\ faults' \in 0 .. MaxFaults
    BY RecorderAssumption DEF LogFails, WriteFails, FailsWithError, RecorderInv, ShapeOK
  <1>2. meta' \in Session /\ meta'.files = meta.files /\ meta'.final = meta.final
    <2>1. meta \in Session /\ meta' \in {meta, [meta EXCEPT !.logged = @ + 1]}
      BY DEF LogFails, RecorderInv, ShapeOK
    <2> QED BY <2>1 DEF Session
  <1>3. FilesWhole' /\ DiskBehindMeta'
    BY <1>1, <1>2, FilesUntouched
  <1>4. /\ QueueInOrder' /\ QueuedIsAhead' /\ FinalIsFinal'
        /\ status' \in [Window -> {"none", "queued", "done", "failed"}]
    BY <1>1, <1>2, WriterKeepsQueue
  <1>5. /\ det' \in Seq([win : Window, file : Window \cup {NoFile}])
        /\ torn' \in BOOLEAN /\ EvidenceIsListed'
    <2>1. AppendLine \/ (det' = det /\ torn' \in BOOLEAN)
      <3>1. torn \in BOOLEAN
        BY DEF RecorderInv, ShapeOK
      <3>2. \/ AppendLine
            \/ torn' = TRUE /\ UNCHANGED det
            \/ UNCHANGED <<det, torn>>
        BY Zenon DEF LogFails
      <3> QED BY <3>1, <3>2, Zenon
    <2>2. disk' \in Session
      BY <1>1 DEF RecorderInv, ShapeOK
    <2>3. CASE AppendLine
      BY <1>1, <2>2, <2>3, RecordIsListed
    <2>4. CASE det' = det /\ torn' \in BOOLEAN
      BY <1>1, <2>4, EvidenceStays DEF RecorderInv, ShapeOK
    <2> QED BY <2>1, <2>3, <2>4
  <1>6. ShapeOK'
    BY <1>1, <1>2, <1>4, <1>5 DEF RecorderInv, ShapeOK, MainUnchanged
  <1>7. KeptIsListed'
    BY <1>1 DEF KeptIsListed
  <1> QED BY <1>3, <1>4, <1>5, <1>6, <1>7 DEF RecorderInv

(* Flushing session.json unchanged, or failing to; a file that fails.      *)
LEMMA FlushInv == RecorderInv /\ (WritePng \/ LogDecode) => RecorderInv'
  <1> SUFFICES ASSUME RecorderInv, WritePng \/ LogDecode PROVE RecorderInv'
    OBVIOUS
  <1>1. /\ wpc \in {"png", "dec"} /\ MainUnchanged
        /\ UNCHANGED <<queue, task, meta, iq, det, torn, faults>> /\ disk' = meta
        /\ \/ wpc = "png" /\ wpc' = "det" /\ UNCHANGED status
           \/ wpc' = "idle" /\ status' = [status EXCEPT ![task] = "done"]
    BY DEF WritePng, LogDecode, Done
  <1>2. meta' \in Session /\ disk' \in Session
    BY <1>1 DEF RecorderInv, ShapeOK
  <1>3. FilesWhole' /\ DiskBehindMeta'
    BY <1>1, <1>2, FilesUntouched
  <1>4. /\ QueueInOrder' /\ QueuedIsAhead' /\ FinalIsFinal'
        /\ status' \in [Window -> {"none", "queued", "done", "failed"}]
    BY <1>1, <1>2, WriterKeepsQueue
  <1>5. ShapeOK'
    BY <1>1, <1>2, <1>4 DEF RecorderInv, ShapeOK, MainUnchanged
  <1>6. EvidenceIsListed'
    BY <1>1, EvidenceStays
  <1>7. KeptIsListed'
    BY <1>1 DEF RecorderInv, KeptIsListed, MainUnchanged
  <1> QED BY <1>3, <1>4, <1>5, <1>6, <1>7 DEF RecorderInv

LEMMA FileFailsInv == RecorderInv /\ FileFails => RecorderInv'
  <1> SUFFICES ASSUME RecorderInv, FileFails PROVE RecorderInv'
    OBVIOUS
  <1>1. /\ wpc # "idle" /\ MainUnchanged
        /\ UNCHANGED <<queue, task, meta, disk, iq, det, torn>>
        /\ wpc' = "idle" /\ status' = [status EXCEPT ![task] = "failed"]
        /\ faults' \in 0 .. MaxFaults
    BY RecorderAssumption DEF FileFails, WriteFails, FailsWithError, RecorderInv, ShapeOK
  <1>2. meta' \in Session /\ disk' \in Session
    BY <1>1 DEF RecorderInv, ShapeOK
  <1>3. FilesWhole' /\ DiskBehindMeta'
    BY <1>1, <1>2, FilesUntouched
  <1>4. /\ QueueInOrder' /\ QueuedIsAhead' /\ FinalIsFinal'
        /\ status' \in [Window -> {"none", "queued", "done", "failed"}]
    BY <1>1, <1>2, WriterKeepsQueue
  <1>5. ShapeOK'
    BY <1>1, <1>2, <1>4 DEF RecorderInv, ShapeOK, MainUnchanged
  <1>6. KeptIsListed' /\ EvidenceIsListed'
    BY <1>1, EvidenceStays DEF KeptIsListed
  <1> QED BY <1>3, <1>4, <1>5, <1>6 DEF RecorderInv

LEMMA CrashInv == RecorderInv /\ (Crash \/ UNCHANGED vars) => RecorderInv'
  <1> SUFFICES ASSUME RecorderInv, Crash \/ UNCHANGED vars PROVE RecorderInv'
    OBVIOUS
  <1>1. /\ UNCHANGED <<mainVars, queue, status, wpc, task, meta, disk, files, faults>>
        /\ crashed' \in BOOLEAN
    BY DEF Crash, vars, RecorderInv, ShapeOK
  <1> QED
    BY <1>1 DEF RecorderInv, ShapeOK, QueueInOrder, FilesWhole, FileNo, Listing,
       DiskBehindMeta, KeptIsListed, QueuedIsAhead, EvidenceIsListed, FinalIsFinal

LEMMA NextRecorderInv == RecorderInv /\ [Next]_vars => RecorderInv'
  <1> SUFFICES ASSUME RecorderInv, [Next]_vars PROVE RecorderInv'
    OBVIOUS
  <1>1. ASSUME NEW k \in Kinds, NextWindow(k) PROVE RecorderInv'
    BY <1>1, NextWindowInv
  <1>2. CASE LoopEnds \/ Main
    BY <1>2, SubmitInv, MainMovesInv, FinalizeInv DEF Main
  <1>3. CASE Writer
    BY <1>3, TakeInv, OpenIqInv, WriteIqInv, ListIqInv, FlushInv, LogDetectionInv,
       FileFailsInv, ListFailsInv, LogFailsInv DEF Writer
  <1>4. CASE Crash \/ UNCHANGED vars
    BY <1>4, CrashInv
  <1> QED BY <1>1, <1>2, <1>3, <1>4, Zenon DEF Next
-----------------------------------------------------------------------------
(* The inductive invariant of the recorder: the writer's order, what it    *)
(* has on disk and in memory after each of its writes, and what is left    *)
(* when the main thread finalises.                                         *)
THEOREM RecorderInvHolds == Spec => []RecorderInv
  BY InitRecorderInv, NextRecorderInv, PTL DEF Spec

(* What verify() of store.py checks, at any crash: the files session.json  *)
(* lists are whole and hold the windows they were listed for.              *)
THEOREM ListedFilesAreWhole == Spec => []ListedFilesVerify
  <1>1. RecorderInv => ListedFilesVerify
    <2> SUFFICES ASSUME RecorderInv, NEW n \in DOMAIN disk.files
                 PROVE  iq[n] = [win |-> disk.files[n], whole |-> TRUE]
      BY DEF ListedFilesVerify
    <2>1. n \in DOMAIN meta.files /\ disk.files[n] = meta.files[n]
      BY DEF RecorderInv, DiskBehindMeta, ShapeOK, Session
    <2> QED BY <2>1 DEF RecorderInv, FilesWhole
  <1> QED BY <1>1, RecorderInvHolds, PTL

(* Evidence precedes what refers to it: a detection record names only a    *)
(* file that session.json lists for the same window.                       *)
THEOREM EvidencePrecedesRecords == Spec => []EvidenceIsListed
  <1>1. RecorderInv => EvidenceIsListed
    BY DEF RecorderInv
  <1> QED BY <1>1, RecorderInvHolds, PTL

(* A finalised session is never written again, and its counts are right,   *)
(* because shutdown waits for the writer on every path out of the loop.    *)
THEOREM FinalisedIsFinal == Spec => []FinalIsFinal
  <1>1. RecorderInv => FinalIsFinal
    BY DEF RecorderInv
  <1> QED BY <1>1, RecorderInvHolds, PTL

-----------------------------------------------------------------------------
(***************************************************************************)
(* The futures and the records.  The states of the futures count what the  *)
(* writer has done: the backlog is bounded because the main thread waits   *)
(* for its oldest future, and a window is done without a readable record   *)
(* only if it was appended to a line that an earlier failure broke off.    *)
(***************************************************************************)
With(state) == {w \in Window : status[w] = state}

FuturesHeld ==
  /\ pending \subseteq Window
  /\ With("queued") \subseteq pending
  /\ Cardinality(With("queued")) <= Backlog
  /\ main = "wait" => Cardinality(pending) <= Backlog
  /\ wpc # "idle" => status[task] = "queued"
  /\ \A i \in DOMAIN queue : status[queue[i]] = "queued"
  /\ \A w \in Window :
       w > Len(wins) \/ (w = Len(wins) /\ main \in {"reap", "wait"}) => status[w] = "none"

(* A window whose record has been attempted is done or in its last write.  *)
Readable == {det[i].win : i \in DOMAIN det}
Attempted == With("done") \cup (IF wpc = "dec" THEN {task} ELSE {})
BrokenLines == IF torn THEN 1 ELSE 0

RecordsKept ==
  Cardinality(Attempted \ Readable) + BrokenLines <= Cardinality(With("failed"))

FuturesInv == RecorderInv /\ FuturesHeld /\ RecordsKept

(* Sets of windows are finite and can be counted.                          *)
LEMMA WindowsCount ==
  ASSUME NEW S, S \subseteq Window
  PROVE  /\ IsFiniteSet(S) /\ Cardinality(S) \in Nat
         /\ \A T : T \subseteq S => Cardinality(T) <= Cardinality(S)
         /\ \A x \in Window : Cardinality(S \cup {x}) <= Cardinality(S) + 1
         /\ \A x \in Window \ S : Cardinality(S \cup {x}) = Cardinality(S) + 1
         /\ \A x \in S : Cardinality(S \ {x}) = Cardinality(S) - 1
  <1>1. IsFiniteSet(Window)
    BY FS_Interval, RecorderAssumption DEF Window
  <1>2. IsFiniteSet(S)
    BY <1>1, FS_Subset
  <1>3. Cardinality(S) \in Nat
    BY <1>2, FS_CardinalityType
  <1>4. \A T : T \subseteq S => Cardinality(T) <= Cardinality(S)
    BY <1>2, FS_Subset
  <1>5. \A x : Cardinality(S \cup {x}) = IF x \in S THEN Cardinality(S) ELSE Cardinality(S) + 1
    BY <1>2, FS_AddElement
  <1>6. \A x : Cardinality(S \ {x}) = IF x \in S THEN Cardinality(S) - 1 ELSE Cardinality(S)
    BY <1>2, FS_RemoveElement
  <1> QED BY <1>2, <1>3, <1>4, <1>5, <1>6

LEMMA OldestIsHeld ==
  ASSUME NEW S, S \subseteq Window, S # {}
  PROVE  \E w \in S : \A v \in S : w <= v
  <1>1. S \subseteq Nat
    BY RecorderAssumption DEF Window
  <1>2. PICK w \in S : \A v \in S : ~(<<v, w>> \in OpToRel(<, Nat))
    BY <1>1, WFMin, NatLessThanWellFounded
  <1>3. SUFFICES ASSUME NEW v \in S, v < w PROVE FALSE
    BY <1>1
  <1>4. <<v, w>> \in Nat \X Nat /\ <<v, w>>[1] < <<v, w>>[2]
    BY <1>1, <1>3
  <1>5. <<v, w>> \in OpToRel(<, Nat)
    BY <1>4 DEF OpToRel
  <1> QED BY <1>2, <1>5

LEMMA InitFutures == Init => FuturesInv
  <1> SUFFICES ASSUME Init PROVE FuturesInv
    OBVIOUS
  <1>1. With("queued") = {} /\ With("done") = {} /\ With("failed") = {}
    BY DEF Init, With
  <1>2. Cardinality({}) = 0
    BY FS_EmptySet
  <1>3. FuturesHeld
    <2>1. Cardinality(With("queued")) = 0
      BY <1>1, <1>2
    <2>2. /\ pending = {} /\ queue = <<>> /\ main = "loop" /\ wpc = "idle"
          /\ \A w \in Window : status[w] = "none"
      BY DEF Init
    <2> QED BY <1>1, <2>1, <2>2 DEF FuturesHeld, Backlog
  <1>4. Attempted \ Readable = {}
    BY <1>1 DEF Init, Attempted
  <1>5. BrokenLines = 0
    BY Zenon DEF Init, BrokenLines
  <1> QED BY <1>1, <1>2, <1>3, <1>4, <1>5, InitRecorderInv DEF FuturesInv, RecordsKept

(* What a step of the writer may do to a future: leave it, or end the one  *)
(* of the window it has in hand and be idle.                               *)
LEMMA WriterOutcomes ==
  ASSUME RecorderInv, FuturesHeld, Writer, ~Take
  PROVE  /\ wpc # "idle" /\ UNCHANGED <<main, wins, pending, queue, task>>
         /\ \/ status' = status /\ wpc' # "idle"
            \/ status' = [status EXCEPT ![task] = "done"] /\ wpc' = "idle"
            \/ status' = [status EXCEPT ![task] = "failed"] /\ wpc' = "idle"
  <1> USE DEF MainUnchanged, mainVars, AfterIq, AfterDet
  <1>1. CASE OpenIq \/ WriteIq \/ ListIq \/ WritePng
    BY <1>1 DEF OpenIq, WriteIq, ListIq, WritePng
  <1>2. CASE LogDetection \/ LogDecode
    BY <1>2 DEF LogDetection, LogDecode, Done
  <1>3. CASE FileFails \/ ListFails \/ LogFails
    BY <1>3 DEF FileFails, ListFails, LogFails, WriteFails, FailsWithError
  <1> QED BY <1>1, <1>2, <1>3 DEF Writer

LEMMA FuturesStep == FuturesInv /\ Next => FuturesHeld'
  <1> SUFFICES ASSUME FuturesInv, Next PROVE FuturesHeld'
    OBVIOUS
  <1> USE DEF With, WriterUnchanged
  <1>0. /\ RecorderInv /\ FuturesHeld /\ Len(wins) \in Nat /\ Len(wins) <= MaxWindows
        /\ status \in [Window -> {"none", "queued", "done", "failed"}]
        /\ queue \in Seq(Window) /\ task \in Nat
    BY RecorderAssumption DEF FuturesInv, RecorderInv, ShapeOK, Window
  <1>1. CASE \E k \in Kinds : NextWindow(k)
    <2>1. PICK k \in Kinds : NextWindow(k)
      BY <1>1
    <2>2. Len(wins') = Len(wins) + 1
      BY <2>1, <1>0 DEF NextWindow, RecorderInv, ShapeOK
    <2>3. /\ main' = "reap" /\ UNCHANGED <<pending, queue, status, wpc, task>>
      BY <2>1 DEF NextWindow
    <2>4. \A w \in Window : w >= Len(wins) + 1 => status[w] = "none"
      BY <1>0 DEF FuturesHeld, Window
    <2> QED BY <2>2, <2>3, <2>4, <1>0 DEF FuturesHeld, Window
  <1>2. CASE Reap
    <2>1. pending' = With("queued") /\ UNCHANGED <<wins, queue, status, wpc, task>>
      BY <1>2, <1>0 DEF Reap, NotDone, FuturesHeld
    <2>2. main = "reap" /\ main' = "wait"
      BY <1>2 DEF Reap
    <2> QED BY <2>1, <2>2, <1>0 DEF FuturesHeld
  <1>3. CASE Submit
    <2> DEFINE n == Len(wins)
    <2>1. n \in Window /\ status[n] = "none"
      BY <1>0, <1>3, RecorderAssumption
         DEF Submit, FuturesHeld, RecorderInv, QueueInOrder, Window
    <2>2. Cardinality(With("queued")) <= 2
      <3>1. CASE FullBacklog
        <4>1. Cardinality(pending) = 3
          <5>1. Cardinality(pending) \in Nat
            BY WindowsCount, <1>0 DEF FuturesHeld
          <5> QED BY <3>1, <5>1, <1>0, <1>3 DEF FullBacklog, Backlog, FuturesHeld, Submit
        <4>2. Oldest \in pending
          <5>1. pending # {}
            BY <4>1, FS_EmptySet
          <5> QED BY <5>1, <1>0, OldestIsHeld DEF FuturesHeld, Oldest
        <4>3. With("queued") \subseteq pending \ {Oldest}
          BY <3>1, <1>0, <1>3 DEF FuturesHeld, Submit
        <4>4. Cardinality(pending \ {Oldest}) = 2
          BY <4>1, <4>2, <1>0, WindowsCount DEF FuturesHeld
        <4> QED BY <4>3, <4>4, <1>0, WindowsCount DEF FuturesHeld
      <3>2. CASE ~FullBacklog
        <4>1. Cardinality(With("queued")) <= Cardinality(pending)
          BY <1>0, WindowsCount DEF FuturesHeld
        <4>2. Cardinality(pending) \in Nat /\ Cardinality(With("queued")) \in Nat
          BY <1>0, WindowsCount DEF FuturesHeld
        <4> QED BY <4>1, <4>2, <3>2 DEF FullBacklog, Backlog
      <3> QED BY <3>1, <3>2
    <2>3. /\ status' = [status EXCEPT ![n] = "queued"] /\ queue' = Append(queue, n)
          /\ pending' = pending \cup {n} /\ main' = "loop"
          /\ UNCHANGED <<wins, wpc, task>>
      BY <1>3 DEF Submit
    <2>4. With("queued")' = With("queued") \cup {n}
      BY <2>1, <2>3, <1>0
    <2>5. Cardinality(With("queued")') <= 3
      <3>1. With("queued") \subseteq Window
        OBVIOUS
      <3>2. Cardinality(With("queued") \cup {n}) <= Cardinality(With("queued")) + 1
        BY <3>1, <2>1, WindowsCount
      <3>3. Cardinality(With("queued")) \in Nat /\ Cardinality(With("queued") \cup {n}) \in Nat
        BY <3>1, <2>1, WindowsCount
      <3>4. Cardinality(With("queued") \cup {n}) <= 3
        <4> HIDE DEF With
        <4> QED BY <3>2, <3>3, <2>2
      <3> QED BY <2>4, <3>4, Zenon
    <2>6. \A i \in DOMAIN queue' : status'[queue'[i]] = "queued"
      BY <2>1, <2>3, <1>0 DEF FuturesHeld
    <2>7. wpc' # "idle" => status'[task'] = "queued"
      <3>1. wpc # "idle" => task \in Window
        BY <1>0, WriterBusy
      <3> QED BY <3>1, <2>1, <2>3, <1>0 DEF FuturesHeld
    <2>8. \A w \in Window : w > n => status'[w] = "none"
      BY <2>1, <2>3, <1>0 DEF FuturesHeld, Window
    <2>9. pending' \subseteq Window /\ With("queued")' \subseteq pending'
      <3> HIDE DEF With
      <3> QED BY <2>1, <2>3, <2>4, <1>0 DEF FuturesHeld
    <2> QED BY <2>3, <2>5, <2>6, <2>7, <2>8, <2>9 DEF FuturesHeld, Backlog
  <1>4. CASE ResultRaises \/ LoopEnds \/ Shutdown \/ Finalize \/ FinalizeFails \/ Crash
    <2>1. UNCHANGED <<wins, pending, queue, status, wpc, task>>
      BY <1>4 DEF ResultRaises, LoopEnds, Shutdown, Finalize, FinalizeFails, Crash, mainVars
    <2>2. main' \in {main, "close", "finalize", "ended"}
      BY <1>4 DEF ResultRaises, LoopEnds, Shutdown, Finalize, FinalizeFails, Crash, mainVars
    <2> QED BY <2>1, <2>2, <1>0 DEF FuturesHeld
  <1>5. CASE Take
    <2>1. /\ UNCHANGED <<main, wins, pending, status>> /\ queue # <<>>
          /\ task' = Head(queue) /\ queue' = Tail(queue)
      BY <1>5 DEF Take, MainUnchanged, mainVars
    <2>2. status'[task'] = "queued"
      BY <2>1, <1>0 DEF FuturesHeld
    <2>3. \A i \in DOMAIN queue' : status'[queue'[i]] = "queued"
      <3> SUFFICES ASSUME NEW i \in DOMAIN queue' PROVE status'[queue'[i]] = "queued"
        OBVIOUS
      <3>1. i + 1 \in DOMAIN queue /\ queue'[i] = queue[i + 1]
        BY <2>1, <1>0
      <3> QED BY <3>1, <2>1, <1>0 DEF FuturesHeld
    <2> QED BY <2>1, <2>2, <2>3, <1>0 DEF FuturesHeld
  <1>6. CASE Writer /\ ~Take
    <2>1. /\ wpc # "idle" /\ UNCHANGED <<main, wins, pending, queue, task>>
          /\ \/ status' = status /\ wpc' # "idle"
             \/ status' = [status EXCEPT ![task] = "done"] /\ wpc' = "idle"
             \/ status' = [status EXCEPT ![task] = "failed"] /\ wpc' = "idle"
      BY <1>0, <1>6, WriterOutcomes
    <2>2. task \in Window /\ \A i \in DOMAIN queue : queue[i] \in Window /\ queue[i] # task
      <3>1. task \in Window
        BY <2>1, <1>0, WriterBusy
      <3> SUFFICES ASSUME NEW i \in DOMAIN queue PROVE queue[i] \in Window /\ queue[i] # task
        BY <3>1
      <3>2. queue[i] \in Window
        BY <1>0
      <3>3. task < queue[i]
        BY <1>0 DEF RecorderInv, QueueInOrder
      <3> QED BY <3>1, <3>2, <3>3 DEF Window
    <2>3. \A w \in Window : w # task => status'[w] = status[w]
      BY <2>1, <1>0
    <2>4. With("queued")' \subseteq With("queued")
      BY <2>1, <1>0
    <2>5. Cardinality(With("queued")') <= Cardinality(With("queued"))
      BY <2>4, WindowsCount
    <2>6. /\ Cardinality(With("queued")') <= Backlog /\ With("queued")' \subseteq pending'
      <3>1. With("queued")' \subseteq Window /\ With("queued") \subseteq Window
        OBVIOUS
      <3>2. Cardinality(With("queued")') \in Nat /\ Cardinality(With("queued")) \in Nat
        BY <3>1, WindowsCount
      <3> HIDE DEF With
      <3> QED BY <2>1, <2>4, <2>5, <3>2, <1>0 DEF FuturesHeld, Backlog
    <2>7. \A i \in DOMAIN queue' : status'[queue'[i]] = "queued"
      BY <2>1, <2>2, <2>3, <1>0 DEF FuturesHeld
    <2>8. wpc' # "idle" => status'[task'] = "queued"
      BY <2>1, <1>0 DEF FuturesHeld
    <2>9. \A w \in Window :
            w > Len(wins) \/ (w = Len(wins) /\ main \in {"reap", "wait"}) =>
              status'[w] = "none"
      BY <2>1, <2>3, <1>0 DEF FuturesHeld
    <2> QED BY <2>1, <2>6, <2>7, <2>8, <2>9, <1>0 DEF FuturesHeld
  <1> QED BY <1>1, <1>2, <1>3, <1>4, <1>5, <1>6 DEF Next, Main

(* What AppendLine makes readable: the window's record, unless it was lost *)
(* to a broken line.                                                       *)
LEMMA AppendLineReads ==
  ASSUME RecorderInv, AppendLine, wpc # "idle"
  PROVE  /\ torn => Readable' = Readable
         /\ ~torn => Readable' = Readable \cup {task}
         /\ BrokenLines' = 0
  <1>1. torn => det' = det
    BY Zenon DEF AppendLine
  <1>2. ~torn => det' = Append(det, Record)
    BY Zenon DEF AppendLine
  <1>3. torn => Readable' = Readable
    BY <1>1 DEF Readable
  <1>4. ASSUME ~torn PROVE Readable' = Readable \cup {task}
    <2> DEFINE n == Len(det)
    <2>1. n \in Nat /\ DOMAIN det = 1 .. n
      BY DEF RecorderInv, ShapeOK
    <2>2. /\ DOMAIN det' = 1 .. n + 1 /\ det'[n + 1] = Record
          /\ \A i \in 1 .. n : det'[i] = det[i]
      BY <1>2, <1>4, <2>1 DEF RecorderInv, ShapeOK
    <2>3. Record.win = task
      BY DEF Record
    <2>4. \A x : (\E i \in DOMAIN det' : x = det'[i].win)
                   <=> (\E i \in DOMAIN det : x = det[i].win) \/ x = task
      BY <2>1, <2>2, <2>3
    <2> QED BY <2>4 DEF Readable
  <1>5. BrokenLines' = 0
    BY Zenon DEF AppendLine, BrokenLines
  <1> QED BY <1>3, <1>4, <1>5

LEMMA BrokenIs == (torn => BrokenLines = 1) /\ (~torn => BrokenLines = 0)
  BY Zenon DEF BrokenLines

LEMMA BrokenWillBe == (torn' => BrokenLines' = 1) /\ (~torn' => BrokenLines' = 0)
  BY Zenon DEF BrokenLines

(* A window that is neither done nor failed yet.                           *)
LEMMA TaskIsQueued ==
  ASSUME FuturesInv, wpc # "idle"
  PROVE  task \in Window /\ task \notin With("done") /\ task \notin With("failed")
  BY WriterBusy DEF FuturesInv, FuturesHeld, With

LEMMA AttemptedIs ==
  /\ wpc = "dec" => Attempted = With("done") \cup {task}
  /\ wpc # "dec" => Attempted = With("done")
  BY DEF Attempted

LEMMA AttemptedWillBe ==
  /\ wpc' = "dec" => Attempted' = With("done")' \cup {task'}
  /\ wpc' # "dec" => Attempted' = With("done")'
  BY DEF Attempted

LEMMA LoggedStep ==
  ASSUME FuturesInv, LogDetection
  PROVE  RecordsKept'
  <1> DEFINE U == Attempted \ Readable
             V == (Attempted \ Readable)'
             F == With("failed")
             G == With("failed")'
  <1>0. /\ RecorderInv /\ RecordsKept /\ wpc = "det" /\ task' = task /\ AppendLine
        /\ status \in [Window -> {"none", "queued", "done", "failed"}]
    BY DEF FuturesInv, LogDetection, RecorderInv, ShapeOK
  <1>1. task \in Window /\ task \notin With("done") /\ task \notin With("failed")
    BY <1>0, TaskIsQueued
  <1>2. \/ wpc' = "dec" /\ status' = status
        \/ wpc' = "idle" /\ status' = [status EXCEPT ![task] = "done"]
    BY DEF LogDetection, Done, AfterDet
  <1>3. G = F
    BY <1>0, <1>1, <1>2 DEF With
  <1>4. Attempted = With("done")
    BY <1>0, AttemptedIs
  <1>5. Attempted' = With("done") \cup {task}
    <2>1. CASE wpc' = "dec" /\ status' = status
      <3>1. With("done")' = With("done")
        BY <2>1 DEF With
      <3> QED BY <3>1, <2>1, <1>0, AttemptedWillBe
    <2>2. CASE wpc' = "idle" /\ status' = [status EXCEPT ![task] = "done"]
      <3>1. With("done")' = With("done") \cup {task}
        BY <2>2, <1>0, <1>1 DEF With
      <3> QED BY <3>1, <2>2, AttemptedWillBe
    <2> QED BY <1>2, <2>1, <2>2
  <1>6. /\ torn => Readable' = Readable
        /\ ~torn => Readable' = Readable \cup {task}
        /\ BrokenLines' = 0
    BY <1>0, AppendLineReads
  <1>7. U \subseteq Window /\ V \subseteq Window /\ F \subseteq Window
    BY <1>1, <1>4, <1>5 DEF With
  <1>8. Cardinality(U) \in Nat /\ Cardinality(V) \in Nat /\ Cardinality(F) \in Nat
    BY <1>7, WindowsCount
  <1>9. Cardinality(U) + BrokenLines <= Cardinality(F)
    BY <1>0 DEF RecordsKept
  <1>10. CASE torn
    <2>1. V = U \cup {task} \/ V = U
      BY <1>4, <1>5, <1>6, <1>10
    <2>2. Cardinality(V) <= Cardinality(U) + 1
      <3>1. CASE V = U \cup {task}
        BY <3>1, <1>1, <1>7, WindowsCount
      <3>2. CASE V = U
        <4>1. Cardinality(V) = Cardinality(U)
          BY <3>2
        <4> HIDE DEF U, V
        <4> QED BY <4>1, <1>8
      <3> QED BY <2>1, <3>1, <3>2
    <2>3. BrokenLines = 1
      BY <1>10, BrokenIs, Zenon
    <2>4. Cardinality(V) + BrokenLines' <= Cardinality(F)
      <3> HIDE DEF U, V, F
      <3> QED BY <1>6, <1>8, <1>9, <2>2, <2>3
    <2> QED BY <2>4, <1>3 DEF RecordsKept
  <1>11. CASE ~torn
    <2>1. V \subseteq U
      BY <1>4, <1>5, <1>6, <1>11
    <2>2. Cardinality(V) <= Cardinality(U)
      BY <2>1, <1>7, WindowsCount
    <2>3. BrokenLines = 0
      BY <1>11, BrokenIs, Zenon
    <2>4. Cardinality(V) + BrokenLines' <= Cardinality(F)
      <3> HIDE DEF U, V, F
      <3> QED BY <1>6, <1>8, <1>9, <2>2, <2>3
    <2> QED BY <2>4, <1>3 DEF RecordsKept
  <1> QED BY <1>10, <1>11, Zenon

LEMMA FailedStep ==
  ASSUME FuturesInv, FileFails \/ ListFails \/ LogFails
  PROVE  RecordsKept'
  <1> DEFINE U == Attempted \ Readable
             V == (Attempted \ Readable)'
             F == With("failed")
             G == With("failed")'
  <1>0. /\ RecorderInv /\ RecordsKept
        /\ status \in [Window -> {"none", "queued", "done", "failed"}]
    BY DEF FuturesInv, RecorderInv, ShapeOK
  <1>1. /\ wpc # "idle" /\ wpc' = "idle" /\ status' = [status EXCEPT ![task] = "failed"]
    BY DEF FileFails, ListFails, LogFails, WriteFails, FailsWithError
  <1>2. task \in Window /\ task \notin With("done") /\ task \notin With("failed")
    BY <1>1, TaskIsQueued
  <1>3. Readable \subseteq Readable'
    <2>1. CASE det' = det
      BY <2>1 DEF Readable
    <2>2. CASE AppendLine
      <3>1. Readable' = Readable \/ Readable' = Readable \cup {task}
        BY <2>2, <1>0, <1>1, AppendLineReads, Zenon
      <3> QED BY <3>1
    <2> QED BY <2>1, <2>2, Zenon DEF FileFails, ListFails, LogFails
  <1>4. G = F \cup {task} /\ With("done")' = With("done")
    BY <1>0, <1>1, <1>2 DEF With
  <1>5. V \subseteq U
    BY <1>1, <1>3, <1>4, AttemptedIs, AttemptedWillBe
  <1>6. U \subseteq Window /\ V \subseteq Window /\ F \subseteq Window
    BY <1>2, <1>5, AttemptedIs DEF With
  <1>7. Cardinality(U) \in Nat /\ Cardinality(V) \in Nat /\ Cardinality(F) \in Nat
    BY <1>6, WindowsCount
  <1>8. Cardinality(V) <= Cardinality(U)
    BY <1>5, <1>6, WindowsCount
  <1>9. Cardinality(G) = Cardinality(F) + 1
    BY <1>2, <1>4, <1>6, WindowsCount
  <1>10. Cardinality(U) + BrokenLines <= Cardinality(F)
    BY <1>0 DEF RecordsKept
  <1>11. BrokenLines \in {0, 1} /\ BrokenLines' \in {0, 1}
    BY Zenon DEF BrokenLines
  <1>12. Cardinality(V) + BrokenLines' <= Cardinality(G)
    <2> HIDE DEF U, V, F, G
    <2> QED BY <1>7, <1>8, <1>9, <1>10, <1>11
  <1> QED BY <1>12 DEF RecordsKept

LEMMA RecordsStep == FuturesInv /\ Next => RecordsKept'
  <1> SUFFICES ASSUME FuturesInv, Next PROVE RecordsKept'
    OBVIOUS
  <1>0. /\ RecorderInv /\ FuturesHeld /\ RecordsKept
        /\ status \in [Window -> {"none", "queued", "done", "failed"}]
    BY DEF FuturesInv, RecorderInv, ShapeOK
  <1>1. ASSUME With("failed")' = With("failed"), Attempted' = Attempted, UNCHANGED <<det, torn>>
        PROVE  RecordsKept'
    <2>1. Readable' = Readable /\ BrokenLines' = BrokenLines
      BY <1>1, Zenon DEF Readable, BrokenLines
    <2>2. /\ Cardinality((Attempted \ Readable)') = Cardinality(Attempted \ Readable)
          /\ Cardinality(With("failed")') = Cardinality(With("failed"))
      BY <1>1, <2>1, Zenon
    <2> QED BY <2>1, <2>2, <1>0, Zenon DEF RecordsKept
  <1>2. ASSUME UNCHANGED <<status, det, torn>>, wpc' = wpc \/ "dec" \notin {wpc, wpc'},
               wpc # "idle" => task' = task
        PROVE  RecordsKept'
    <2>1. With("failed")' = With("failed") /\ With("done")' = With("done")
      BY <1>2 DEF With
    <2>2. Attempted' = Attempted
      BY <1>2, <2>1, AttemptedIs, AttemptedWillBe
    <2> QED BY <1>1, <1>2, <2>1, <2>2
  <1>3. CASE \E k \in Kinds : NextWindow(k)
    BY <1>2, <1>3 DEF NextWindow, WriterUnchanged, files
  <1>4. CASE Reap \/ ResultRaises \/ LoopEnds \/ Shutdown \/ Finalize \/ FinalizeFails \/ Crash
    <2>1. UNCHANGED <<status, det, torn, wpc, task>>
      BY <1>4, Zenon DEF Reap, ResultRaises, LoopEnds, Shutdown, Finalize, FinalizeFails, Crash,
                  WriterUnchanged, files
    <2> QED BY <2>1, <1>2
  <1>5. CASE Submit
    <2> DEFINE n == Len(wins)
    <2>1. n \in Window /\ status[n] = "none"
      BY <1>0, <1>5, RecorderAssumption
         DEF Submit, FuturesHeld, RecorderInv, ShapeOK, QueueInOrder, Window
    <2>2. status' = [status EXCEPT ![n] = "queued"] /\ UNCHANGED <<det, torn, wpc, task>>
      BY <1>5, Zenon DEF Submit, WriterUnchanged, files
    <2>3. With("failed")' = With("failed") /\ With("done")' = With("done")
      BY <2>1, <2>2, <1>0 DEF With
    <2>4. Attempted' = Attempted
      BY <2>2, <2>3, AttemptedIs, AttemptedWillBe
    <2> QED BY <1>1, <2>2, <2>3, <2>4
  <1>6. CASE Take
    BY <1>2, <1>6 DEF Take, MainUnchanged, AfterIq, files
  <1>7. CASE OpenIq \/ WriteIq \/ ListIq \/ WritePng
    BY <1>2, <1>7 DEF OpenIq, WriteIq, ListIq, WritePng, AfterIq, files
  <1>8. CASE LogDetection
    BY <1>8, LoggedStep
  <1>9. CASE LogDecode
    <2>1. /\ wpc = "dec" /\ wpc' = "idle" /\ status' = [status EXCEPT ![task] = "done"]
          /\ UNCHANGED <<det, torn>>
      BY <1>9, Zenon DEF LogDecode, Done, files
    <2>2. task \in Window /\ task \notin With("done") /\ task \notin With("failed")
      BY <2>1, TaskIsQueued
    <2>3. With("failed")' = With("failed") /\ With("done")' = With("done") \cup {task}
      BY <2>1, <2>2, <1>0 DEF With
    <2>4. Attempted' = Attempted
      BY <2>1, <2>3, AttemptedIs, AttemptedWillBe
    <2> QED BY <1>1, <2>1, <2>3, <2>4
  <1>10. CASE FileFails \/ ListFails \/ LogFails
    BY <1>10, FailedStep
  <1> QED BY <1>3, <1>4, <1>5, <1>6, <1>7, <1>8, <1>9, <1>10, Zenon DEF Next, Main, Writer

LEMMA NextFutures == FuturesInv /\ [Next]_vars => FuturesInv'
  <1> SUFFICES ASSUME FuturesInv, [Next]_vars PROVE FuturesInv'
    OBVIOUS
  <1>1. RecorderInv'
    BY NextRecorderInv DEF FuturesInv
  <1>2. CASE Next
    BY <1>1, <1>2, FuturesStep, RecordsStep DEF FuturesInv
  <1>3. CASE UNCHANGED vars
    <2>1. FuturesHeld'
      BY <1>3 DEF FuturesInv, FuturesHeld, With, vars, mainVars
    <2>2. RecordsKept'
      BY <1>3, Zenon DEF FuturesInv, RecordsKept, Attempted, Readable, BrokenLines, With, vars, files
    <2> QED BY <1>1, <2>1, <2>2 DEF FuturesInv
  <1> QED BY <1>2, <1>3

(* Every window whose future completed has a readable record but for at    *)
(* most one per write that failed, and no more than the backlog waits.     *)
THEOREM CompletedIsRecorded == Spec => []DoneIsRecorded
  <1>1. Spec => []FuturesInv
    BY InitFutures, NextFutures, PTL DEF Spec
  <1>2. FuturesInv => DoneIsRecorded
    <2> SUFFICES ASSUME FuturesInv PROVE DoneIsRecorded
      OBVIOUS
    <2>1. TypeOK
      BY DEF FuturesInv, RecorderInv, FuturesHeld, With, TypeOK
    <2>2. With("done") \ Readable \subseteq Attempted \ Readable /\ Attempted \ Readable \subseteq Window
      <3>1. Attempted \subseteq Window /\ With("done") \subseteq Attempted
        BY AttemptedIs, TaskIsQueued DEF With
      <3> QED BY <3>1
    <2>3. Cardinality(With("done") \ Readable) <= Cardinality(Attempted \ Readable)
      BY <2>2, WindowsCount
    <2> DEFINE a == Cardinality(With("done") \ Readable)
               b == Cardinality(Attempted \ Readable)
               c == Cardinality(With("failed"))
    <2>4. a \in Nat /\ b \in Nat /\ c \in Nat
      <3>1. With("failed") \subseteq Window /\ With("done") \ Readable \subseteq Window
        BY DEF With
      <3> QED BY <3>1, <2>2, WindowsCount
    <2>5. b + BrokenLines <= c
      BY DEF FuturesInv, RecordsKept
    <2>6. BrokenLines \in {0, 1}
      BY Zenon DEF BrokenLines
    <2>7. a <= c
      <3> HIDE DEF a, b, c
      <3> QED BY <2>3, <2>4, <2>5, <2>6 DEF a, b
    <2> QED BY <2>1, <2>7, Zenon DEF DoneIsRecorded, With, Readable
  <1> QED BY <1>1, <1>2, PTL
=============================================================================
