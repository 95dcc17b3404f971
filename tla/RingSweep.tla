----------------------------- MODULE RingSweep -----------------------------
(***************************************************************************)
(* Who owns a ring in /dev/shm: ProcessIQSource constructors of several    *)
(* processes that each sweep stale rings (sweep_stale_rings of             *)
(* sdr/shmring.py), create a ring of their own, start a producer for it    *)
(* and, in the end, remove it; processes and producers may be killed.      *)
(*                                                                         *)
(* The ring, the consumer and the producer of one source share a name.     *)
(***************************************************************************)
EXTENDS Integers, FiniteSets

CONSTANT Sources   \* the sources that are opened, each once

ASSUME SweepAssumption == Sources # {}

NoRing == "none"

VARIABLES
  linked,    \* rings that have a name in /dev/shm
  packed,    \* rings whose global header has been written
  recorded,  \* rings whose header names a producer pid
  process,  \* per source: its producer process
  pc,        \* per source: where its consumer process is
  entries,   \* per source: the directory entries its sweep has still to visit
  entry,     \* per source: the entry it has attached
  stale,     \* history: rings that were stale when the sweep listed them
  disturbed  \* history: sources another sweep listed before their pid was recorded

sweepVars == <<linked, packed, recorded, process, pc, entries, entry, stale,
          disturbed>>

ConsumerPC == {"list", "sweep", "check", "unlink", "create", "pack", "spawn",
               "startup", "open", "failed", "closed", "killed"}

SweepTypeOK ==
  /\ linked \subseteq Sources
  /\ packed \subseteq Sources
  /\ recorded \subseteq packed
  /\ process \in [Sources -> {"none", "started", "attached", "running", "dead"}]
  /\ pc \in [Sources -> ConsumerPC]
  /\ entries \in [Sources -> SUBSET Sources]
  /\ entry \in [Sources -> Sources \cup {NoRing}]
  /\ stale \in [Sources -> SUBSET Sources]
  /\ disturbed \subseteq Sources

SweepInit ==
  /\ linked = {} /\ packed = {} /\ recorded = {}
  /\ process = [s \in Sources |-> "none"]
  /\ pc = [s \in Sources |-> "list"]
  /\ entries = [s \in Sources |-> {}]
  /\ entry = [s \in Sources |-> NoRing]
  /\ stale = [s \in Sources |-> {}]
  /\ disturbed = {}

Goto(s, at) == pc' = [pc EXCEPT ![s] = at]
ProcessLives(r) == process[r] \in {"started", "attached", "running"}

(* A ring nobody will ever use again.  (One whose creator was killed before *)
(* it had written the header is never removed: no sweep can attach it.)     *)
Stale(r) == r \in packed /\ pc[r] = "killed" /\ ~ProcessLives(r)
-----------------------------------------------------------------------------
(* sweep_stale_rings, called first in the constructor. *)

List(s) ==
  /\ pc[s] = "list"
  /\ entries' = [entries EXCEPT ![s] = linked]
  /\ stale' = [stale EXCEPT ![s] = {r \in linked : Stale(r)}]
  /\ disturbed' = disturbed \cup (linked \ recorded)
  /\ Goto(s, "sweep")
  /\ UNCHANGED <<linked, packed, recorded, process, entry>>

(* An entry that is gone, or has no valid header yet, is passed over. *)
Attach(s, r) ==
  /\ pc[s] = "sweep" /\ r \in entries[s]
  /\ IF r \in linked \cap packed
     THEN entry' = [entry EXCEPT ![s] = r] /\ Goto(s, "check") /\ UNCHANGED entries
     ELSE entries' = [entries EXCEPT ![s] = @ \ {r}] /\ UNCHANGED <<entry, pc>>
  /\ UNCHANGED <<linked, packed, recorded, process, stale, disturbed>>

(* Defective: no pid is taken for a live one. *)
PidAliveNever(r) == FALSE

(* Is the recorded producer alive?  A pid of 0, none recorded, is not. *)
PidAlive(r) == r \in recorded /\ ProcessLives(r)

CheckPid(s) ==
  /\ pc[s] = "check"
  /\ IF PidAlive(entry[s])
     THEN entries' = [entries EXCEPT ![s] = @ \ {entry[s]}] /\ Goto(s, "sweep")
     ELSE Goto(s, "unlink") /\ UNCHANGED entries
  /\ UNCHANGED <<linked, packed, recorded, process, entry, stale, disturbed>>

Unlink(s) ==
  /\ pc[s] = "unlink"
  /\ linked' = linked \ {entry[s]}
  /\ entries' = [entries EXCEPT ![s] = @ \ {entry[s]}]
  /\ Goto(s, "sweep")
  /\ UNCHANGED <<packed, recorded, process, entry, stale, disturbed>>
-----------------------------------------------------------------------------
(* The rest of the constructor. *)

SweepDone(s) ==
  /\ pc[s] = "sweep" /\ entries[s] = {}
  /\ Goto(s, "create")
  /\ UNCHANGED <<linked, packed, recorded, process, entries, entry, stale,
                 disturbed>>

(* The segment gets its name first, its header next. *)
Create(s) ==
  /\ pc[s] = "create"
  /\ linked' = linked \cup {s}
  /\ Goto(s, "pack")
  /\ UNCHANGED <<packed, recorded, process, entries, entry, stale, disturbed>>

Pack(s) ==
  /\ pc[s] = "pack"
  /\ packed' = packed \cup {s}
  /\ Goto(s, "spawn")
  /\ UNCHANGED <<linked, recorded, process, entries, entry, stale, disturbed>>

Spawn(s) ==
  /\ pc[s] = "spawn"
  /\ process' = [process EXCEPT ![s] = "started"]
  /\ Goto(s, "startup")
  /\ UNCHANGED <<linked, packed, recorded, entries, entry, stale, disturbed>>

StartupAlive(s) ==
  /\ pc[s] = "startup" /\ process[s] = "running"
  /\ Goto(s, "open")
  /\ UNCHANGED <<linked, packed, recorded, process, entries, entry, stale,
                 disturbed>>

(* _cleanup: the producer is gone, then the ring. *)
Remove(s, at) ==
  /\ process' = [process EXCEPT ![s] = "dead"]
  /\ linked' = linked \ {s}
  /\ Goto(s, at)
  /\ UNCHANGED <<packed, recorded, entries, entry, stale, disturbed>>

(* Popen fails, the producer exits, or it is not alive within the timeout. *)
StartupFails(s) == pc[s] \in {"spawn", "startup"} /\ Remove(s, "failed")

Close(s) == pc[s] = "open" /\ Remove(s, "closed")

(* SIGKILL: nothing is cleaned up. *)
ConsumerKilled(s) ==
  /\ pc[s] \notin {"failed", "closed", "killed"}
  /\ Goto(s, "killed")
  /\ UNCHANGED <<linked, packed, recorded, process, entries, entry, stale,
                 disturbed>>
-----------------------------------------------------------------------------
(* The producer process. *)

(* ShmRing.attach opens the segment by its name. *)
ProcessAttaches(s) ==
  /\ process[s] = "started"
  /\ process' = [process EXCEPT ![s] = IF s \in linked THEN "attached" ELSE "dead"]
  /\ UNCHANGED <<linked, packed, recorded, pc, entries, entry, stale, disturbed>>

(* The first heartbeat records the pid. *)
Heartbeat(s) ==
  /\ process[s] = "attached"
  /\ process' = [process EXCEPT ![s] = "running"]
  /\ recorded' = recorded \cup {s}
  /\ UNCHANGED <<linked, packed, pc, entries, entry, stale, disturbed>>

ProcessDies(s) ==
  /\ ProcessLives(s)
  /\ process' = [process EXCEPT ![s] = "dead"]
  /\ UNCHANGED <<linked, packed, recorded, pc, entries, entry, stale, disturbed>>

Constructor(s) ==
  \/ List(s) \/ (\E r \in Sources : Attach(s, r)) \/ CheckPid(s) \/ Unlink(s)
  \/ SweepDone(s) \/ Create(s) \/ Pack(s) \/ Spawn(s)
  \/ StartupAlive(s) \/ StartupFails(s)

Process(s) == ProcessAttaches(s) \/ Heartbeat(s) \/ ProcessDies(s)

SweepNext ==
  \E s \in Sources :
    Constructor(s) \/ Process(s) \/ Close(s) \/ ConsumerKilled(s)

SweepSpec == SweepInit /\ [][SweepNext]_sweepVars
-----------------------------------------------------------------------------
(* Properties. *)

SweepIsComplete ==
  \A s \in Sources : pc[s] = "create" => stale[s] \cap linked = {}
HarmNeedsOverlap ==
  \A s \in Sources :
    pc[s] \in {"pack", "spawn", "startup", "open"} /\ process[s] # "dead" =>
      s \in linked \cup disturbed

(* A sweep that has ended has removed every ring that was stale when it    *)
(* began, however many other sweeps ran at the same time; and a source in  *)
(* use, its producer not dead, still has its ring in /dev/shm, unless      *)
(* another constructor listed the directory between the creation of that   *)
(* ring and the first heartbeat of its producer.                           *)
SweepsTheStaleOnly ==
  /\ SweepTypeOK
  /\ SweepIsComplete
  /\ HarmNeedsOverlap
=============================================================================
