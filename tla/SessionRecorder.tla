-------------------------- MODULE SessionRecorder --------------------------
(***************************************************************************)
(* Recording a session: the body of the lock and capture commands          *)
(* (_run_locked of cli.py) and the session directory it writes             *)
(* (session/store.py).  The main thread takes windows from the receiver    *)
(* and hands each to one writer thread, which stores its IQ, lists the     *)
(* file in session.json and appends the detection record.  Any write can   *)
(* fail, and the process can be killed between any two of them.            *)
(*                                                                         *)
(* Windows are numbered in capture order; the i-th entry of session.json's *)
(* file list is the file numbered i.                                       *)
(***************************************************************************)
EXTENDS Integers, Sequences, FiniteSets

CONSTANTS
  Kinds,           \* windows: samples, and what is to be written for them
  BytesPerSample,  \* of a stored IQ sample: 2 for cs8, 4 for cs16
  MaxBytes,        \* the cap on raw IQ, --max-gb
  MaxWindows,      \* bound: windows received
  MaxFaults        \* bound: writes that fail

Kind == [size : Nat, keep : BOOLEAN, png : BOOLEAN, decodes : BOOLEAN]

ASSUME RecorderAssumption ==
  /\ Kinds \subseteq Kind
  /\ BytesPerSample \in {2, 4}
  /\ MaxBytes \in Nat /\ MaxWindows \in Nat /\ MaxFaults \in Nat

VARIABLES
  main,      \* main thread: where it is
  wins,      \* main: the windows so far, with keep as decided under the cap
  iq_bytes,  \* main: what the cap is compared with
  pending,   \* main: futures it holds, as window numbers: its list is in
             \* order of submission, so the first is the least
  queue,     \* shared: windows submitted and not yet begun
  status,    \* shared: per window, the state of its future
  wpc, task, \* writer thread: its next write, and for which window
  meta,      \* writer: the session's metadata in memory
  disk,      \* on disk: session.json
  iq,        \* on disk: the IQ files
  det, torn, \* on disk: readable lines of detections.jsonl, and whether its
             \* last line was broken off
  faults,    \* history: number of writes that failed
  crashed    \* the process has been killed

mainVars == <<main, wins, iq_bytes, pending>>
files == <<iq, det, torn>>
vars == <<mainVars, queue, status, wpc, task, meta, disk, files, faults,
          crashed>>

Window == 1 .. MaxWindows
Backlog == 3
NoFile == 0
Absent == [win |-> 0, whole |-> FALSE]
Session == [files : Seq(Window), logged : Nat, final : BOOLEAN]

(* What is left of the types without the futures held. *)
ShapeOK ==
  /\ main \in {"loop", "reap", "wait", "close", "finalize", "ended"}
  /\ wins \in Seq(Kind) /\ Len(wins) <= MaxWindows
  /\ iq_bytes \in Nat
  /\ queue \in Seq(Window)
  /\ status \in [Window -> {"none", "queued", "done", "failed"}]
  /\ wpc \in {"idle", "open", "data", "list", "png", "det", "dec"}
  /\ task \in Window \cup {0}
  /\ meta \in Session /\ disk \in Session
  /\ iq \in [Window -> [win : Window \cup {0}, whole : BOOLEAN]]
  /\ det \in Seq([win : Window, file : Window \cup {NoFile}])
  /\ torn \in BOOLEAN
  /\ faults \in 0 .. MaxFaults /\ crashed \in BOOLEAN

(* No more than Backlog windows wait to be written, or are being written.  *)
TypeOK ==
  /\ ShapeOK
  /\ pending \subseteq Window
  /\ Cardinality({w \in Window : status[w] = "queued"}) <= Backlog

(* The session has been created: its directory and first session.json.     *)
Empty == [files |-> <<>>, logged |-> 0, final |-> FALSE]

Init ==
  /\ main = "loop" /\ wins = <<>> /\ iq_bytes = 0 /\ pending = {}
  /\ queue = <<>> /\ status = [w \in Window |-> "none"]
  /\ wpc = "idle" /\ task = 0
  /\ meta = Empty /\ disk = Empty
  /\ iq = [n \in Window |-> Absent] /\ det = <<>> /\ torn = FALSE
  /\ faults = 0 /\ crashed = FALSE
-----------------------------------------------------------------------------
(* The main thread. *)

WriterUnchanged == UNCHANGED <<wpc, task, meta, disk, files, faults, crashed>>

(* A window arrives and is analysed; its IQ is kept if it is of interest   *)
(* and fits under the cap.                                                 *)
NextWindow(k) ==
  /\ main = "loop" /\ Len(wins) < MaxWindows
  /\ LET keep == k.keep /\ iq_bytes + 2 * k.size <= MaxBytes
     IN  /\ wins' = Append(wins, [k EXCEPT !.keep = keep])
         /\ iq_bytes' = IF keep THEN iq_bytes + 2 * k.size ELSE iq_bytes
  /\ main' = "reap"
  /\ WriterUnchanged /\ UNCHANGED <<pending, queue, status>>

(* Futures that are done, or failed, are let go. *)
NotDone == {w \in pending : status[w] = "queued"}

Reap ==
  /\ main = "reap"
  /\ pending' = NotDone
  /\ main' = "wait"
  /\ WriterUnchanged /\ UNCHANGED <<wins, iq_bytes, queue, status>>

FullBacklog == Cardinality(pending) >= Backlog
Oldest == CHOOSE w \in pending : \A v \in pending : w <= v

(* With a full backlog the oldest future is waited for. *)
Submit ==
  /\ main = "wait"
  /\ FullBacklog => status[Oldest] = "done"
  /\ queue' = Append(queue, Len(wins))
  /\ status' = [status EXCEPT ![Len(wins)] = "queued"]
  /\ pending' = pending \cup {Len(wins)}
  /\ main' = "loop"
  /\ WriterUnchanged /\ UNCHANGED <<wins, iq_bytes>>

(* ... and raises here what it raised in the writer. *)
ResultRaises ==
  /\ main = "wait"
  /\ FullBacklog /\ status[Oldest] = "failed"
  /\ main' = "close"
  /\ WriterUnchanged /\ UNCHANGED <<wins, iq_bytes, pending, queue, status>>

(* The time is up, the stream has ended or failed, or Ctrl-C, which comes  *)
(* at any point of the loop.                                               *)
LoopEnds ==
  /\ main \in {"loop", "reap", "wait"}
  /\ main' = "close"
  /\ WriterUnchanged /\ UNCHANGED <<wins, iq_bytes, pending, queue, status>>

(* Defective: the writer is not waited for. *)
ShutdownNow ==
  /\ main = "close"
  /\ main' = "finalize"
  /\ WriterUnchanged /\ UNCHANGED <<wins, iq_bytes, pending, queue, status>>

(* The source is closed, then the writer finishes what was submitted. *)
Shutdown ==
  /\ main = "close" /\ queue = <<>> /\ wpc = "idle"
  /\ main' = "finalize"
  /\ WriterUnchanged /\ UNCHANGED <<wins, iq_bytes, pending, queue, status>>

(* The counts are taken again from what is on disk. *)
Finalized == [files |-> meta.files, logged |-> Len(det), final |-> TRUE]

Finalize ==
  /\ main = "finalize"
  /\ meta' = Finalized
  /\ disk' = meta'
  /\ main' = "ended"
  /\ UNCHANGED <<wins, iq_bytes, pending, queue, status, wpc, task, files,
                 faults, crashed>>

FinalizeFails ==
  /\ main = "finalize" /\ faults < MaxFaults
  /\ faults' = faults + 1
  /\ meta' = Finalized
  /\ main' = "ended"
  /\ UNCHANGED <<wins, iq_bytes, pending, queue, status, wpc, task, disk,
                 files, crashed>>
-----------------------------------------------------------------------------
(* The writer thread: _persist, one window at a time. *)

MainUnchanged == UNCHANGED <<mainVars, crashed>>

AfterIq(w)  == IF wins[w].png THEN "png" ELSE "det"
AfterDet(w) == IF wins[w].decodes THEN "dec" ELSE "idle"

Take ==
  /\ wpc = "idle" /\ queue # <<>>
  /\ task' = Head(queue) /\ queue' = Tail(queue)
  /\ wpc' = IF wins[task'].keep THEN "open" ELSE AfterIq(task')
  /\ MainUnchanged /\ UNCHANGED <<status, meta, disk, files, faults>>

(* The next free number, by what is listed. *)
FileNo == Len(meta.files) + 1

(* Defective: the entry is made without waiting for the data. *)
OpenIqUnsynced ==
  /\ wpc = "open"
  /\ iq' = [iq EXCEPT ![FileNo] = [win |-> task, whole |-> FALSE]]
  /\ wpc' = "list"
  /\ MainUnchanged
  /\ UNCHANGED <<queue, status, task, meta, disk, det, torn, faults>>

OpenIq ==
  /\ wpc = "open"
  /\ iq' = [iq EXCEPT ![FileNo] = [win |-> task, whole |-> FALSE]]
  /\ wpc' = "data"
  /\ MainUnchanged
  /\ UNCHANGED <<queue, status, task, meta, disk, det, torn, faults>>

WriteIq ==
  /\ wpc = "data"
  /\ iq' = [iq EXCEPT ![FileNo] = [win |-> task, whole |-> TRUE]]
  /\ wpc' = "list"
  /\ MainUnchanged
  /\ UNCHANGED <<queue, status, task, meta, disk, det, torn, faults>>

(* Defective: session.json is left for later. *)
ListIqUnflushed ==
  /\ wpc = "list"
  /\ meta' = [meta EXCEPT !.files = Append(@, task)]
  /\ wpc' = AfterIq(task)
  /\ MainUnchanged
  /\ UNCHANGED <<queue, status, task, disk, files, faults>>

ListIq ==
  /\ wpc = "list"
  /\ meta' = [meta EXCEPT !.files = Append(@, task)]
  /\ disk' = meta'
  /\ wpc' = AfterIq(task)
  /\ MainUnchanged
  /\ UNCHANGED <<queue, status, task, files, faults>>

WritePng ==
  /\ wpc = "png"
  /\ disk' = meta
  /\ wpc' = "det"
  /\ MainUnchanged
  /\ UNCHANGED <<queue, status, task, meta, files, faults>>

(* The future of the window is done. *)
Done(step) ==
  /\ wpc' = step
  /\ status' = IF step = "idle" THEN [status EXCEPT ![task] = "done"] ELSE status

(* The record names the file its window was stored in.  Appended to a line *)
(* that was broken off, it makes one unreadable line with it.              *)
Record == [win |-> task, file |-> IF wins[task].keep THEN Len(meta.files) ELSE NoFile]

(* Defective: a broken line spoils every record after it. *)
AppendLineToTorn ==
  /\ det' = IF torn THEN det ELSE Append(det, Record)
  /\ torn' = torn

AppendLine ==
  /\ det' = IF torn THEN det ELSE Append(det, Record)
  /\ torn' = FALSE

LogDetection ==
  /\ wpc = "det"
  /\ AppendLine
  /\ meta' = [meta EXCEPT !.logged = @ + 1]
  /\ disk' = meta'
  /\ Done(AfterDet(task))
  /\ MainUnchanged /\ UNCHANGED <<queue, task, iq, faults>>

LogDecode ==
  /\ wpc = "dec"
  /\ disk' = meta
  /\ Done("idle")
  /\ MainUnchanged /\ UNCHANGED <<queue, task, meta, files, faults>>

(* Defective: the future of a failed write never completes. *)
FailsUnnoticed == UNCHANGED status

FailsWithError == status' = [status EXCEPT ![task] = "failed"]

(* A write fails: whatever it was, the rest of the window's are skipped.   *)
WriteFails ==
  /\ wpc # "idle" /\ faults < MaxFaults
  /\ faults' = faults + 1
  /\ FailsWithError
  /\ wpc' = "idle"
  /\ MainUnchanged /\ UNCHANGED <<queue, task, disk, iq>>

(* Opening or writing a file, or flushing session.json unchanged. *)
FileFails ==
  /\ wpc \in {"open", "data", "png", "dec"}
  /\ WriteFails
  /\ UNCHANGED <<meta, det, torn>>

(* The flush fails after the entry has been made. *)
ListFails ==
  /\ wpc = "list"
  /\ meta' = [meta EXCEPT !.files = Append(@, task)]
  /\ WriteFails
  /\ UNCHANGED <<det, torn>>

(* The flush fails after the line has been appended and counted, or the    *)
(* line breaks off, or nothing of it is written.                           *)
LogFails ==
  /\ wpc = "det"
  /\ \/ AppendLine /\ meta' = [meta EXCEPT !.logged = @ + 1]
     \/ torn' = TRUE /\ UNCHANGED <<det, meta>>
     \/ UNCHANGED <<det, torn, meta>>
  /\ WriteFails

Main ==
  \/ Reap \/ Submit \/ ResultRaises \/ Shutdown \/ Finalize \/ FinalizeFails
Writer ==
  \/ Take \/ OpenIq \/ WriteIq \/ ListIq \/ WritePng \/ LogDetection
  \/ LogDecode \/ FileFails \/ ListFails \/ LogFails

(* The process is killed. *)
Crash ==
  /\ crashed' = TRUE
  /\ UNCHANGED <<mainVars, queue, status, wpc, task, meta, disk, files, faults>>

Next ==
  /\ ~crashed
  /\ \/ \E k \in Kinds : NextWindow(k)
     \/ LoopEnds \/ Main \/ Writer \/ Crash

Spec == Init /\ [][Next]_vars

(* Both threads are scheduled; nothing is assumed of the receiver, nor     *)
(* that the loop is ever left.                                             *)
FairSpec == Spec /\ WF_vars(~crashed /\ Main) /\ WF_vars(~crashed /\ Writer)
-----------------------------------------------------------------------------
(* Properties. *)

(* Every file that session.json lists, at any crash, is complete and holds *)
(* the window it was listed for: verify() finds nothing wrong, and a file  *)
(* number is never used for two listed windows.                            *)
ListedFilesVerify ==
  \A n \in DOMAIN disk.files : iq[n] = [win |-> disk.files[n], whole |-> TRUE]

(* A detection record that names an IQ file names the one that session.json *)
(* lists for the same window: evidence is on disk before what refers to it. *)
EvidenceIsListed ==
  \A i \in DOMAIN det :
    det[i].file # NoFile =>
      det[i].file <= Len(disk.files) /\ disk.files[det[i].file] = det[i].win

(* A window whose future completed has a readable record, whatever failed  *)
(* before or after it; an append that broke off costs one later record.    *)
DoneIsRecorded ==
  /\ TypeOK
  /\ LET readable == {det[i].win : i \in DOMAIN det}
     IN  Cardinality({w \in Window : status[w] = "done"} \ readable)
           <= Cardinality({w \in Window : status[w] = "failed"})

(* Once the session is finalised nothing is written to it any more, and    *)
(* its count of detections is what a reader of detections.jsonl finds.     *)
FinalIsFinal ==
  disk.final =>
    /\ \A w \in Window : status[w] # "queued"
    /\ disk.logged = Len(det)
    /\ disk.files = meta.files

(* The inductive invariant behind the safety properties. *)

(* The writer is given the windows in order, each once.                    *)
QueueInOrder ==
  /\ task <= Len(wins) /\ (wpc # "idle" => task > 0)
  /\ \A i \in DOMAIN queue :
       /\ task < queue[i] /\ queue[i] <= Len(wins)
       /\ main \in {"reap", "wait"} => queue[i] < Len(wins)
       /\ \A j \in DOMAIN queue : i < j => queue[i] < queue[j]
  /\ main \in {"reap", "wait"} => task < Len(wins)

(* At most one file per window has been listed, and the files listed are   *)
(* whole; the one the writer works on is not among them.                   *)
Listing == wpc \in {"open", "data", "list"}
FilesWhole ==
  /\ Len(meta.files) <= task /\ (Listing => Len(meta.files) < task)
  /\ \A n \in DOMAIN meta.files : iq[n] = [win |-> meta.files[n], whole |-> TRUE]
  /\ wpc = "data" => iq[FileNo].win = task
  /\ wpc = "list" => iq[FileNo] = [win |-> task, whole |-> TRUE]

(* session.json lists the files of the metadata, but perhaps not the last. *)
DiskBehindMeta ==
  /\ Len(disk.files) <= Len(meta.files)
  /\ \A n \in DOMAIN disk.files : disk.files[n] = meta.files[n]

(* Past ListIq, a window that is kept is the last one listed, on disk.     *)
KeptIsListed ==
  wpc \in {"png", "det"} /\ wins[task].keep =>
    /\ Len(meta.files) > 0 /\ meta.files[Len(meta.files)] = task
    /\ disk.files = meta.files

(* A future not completed is one the writer has still to do; at the end    *)
(* there is none.                                                          *)
QueuedIsAhead ==
  /\ \A w \in Window :
       status[w] = "queued" =>
         (wpc # "idle" /\ w = task) \/ \E i \in DOMAIN queue : queue[i] = w
  /\ main \in {"finalize", "ended"} => queue = <<>> /\ wpc = "idle"
  /\ meta.final \/ disk.final => main = "ended"

RecorderInv ==
  /\ ShapeOK
  /\ QueueInOrder
  /\ FilesWhole
  /\ DiskBehindMeta
  /\ KeptIsListed
  /\ QueuedIsAhead
  /\ EvidenceIsListed
  /\ FinalIsFinal

(* What the README says of lock: Ctrl-C stops early, the session is        *)
(* finalised either way; and no failed or slow write blocks the loop.      *)
FinalisedEitherWay ==
  main \in {"reap", "wait", "close", "finalize"}
    ~> main \in {"loop", "ended"} \/ crashed

=============================================================================
