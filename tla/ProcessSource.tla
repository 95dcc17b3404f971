--------------------------- MODULE ProcessSource ---------------------------
(***************************************************************************)
(* Supervision of the acquisition producer: the life of a ProcessIQSource  *)
(* (sdr/process_source.py) and of the producer process it owns             *)
(* (sdr/producer_main.py), from the constructor to close().                *)
(*                                                                         *)
(* Four threads of the consumer process take part: main (constructor,      *)
(* close), the reader thread, the thread that iterates windows(), and a    *)
(* user of tune(); and two of the producer: the acquisition loop and the   *)
(* control server.  Chunks are only counted here.                          *)
(***************************************************************************)
EXTENDS Integers, Sequences

CONSTANTS
  MaxChunks,   \* bound: chunks the producer publishes
  MaxTunes     \* bound: calls of tune()

ASSUME SupervisionAssumption == MaxChunks \in Nat /\ MaxTunes \in Nat

VARIABLES
  proc,          \* producer process: "none" before Popen ... "exited"
  exit_code,     \* its exit code, NoCode while it has none
  stop,          \* its state["stop"] event
  merged,        \* its readback holds the device's own settings
  ring_state,    \* producer_state of the ring's global header
  heartbeat,     \* heartbeat_mono_ns is not 0
  published,     \* chunks written to the ring
  ring_linked,   \* the ring exists: mapped by the consumer, in /dev/shm
  reqs,          \* control channel: requests the server has not handled
  reply,         \* control channel: the answer its client waits for
  broken,        \* control channel: a client's read has failed for good
  server,        \* control channel: the producer's control thread runs
  lock,          \* ControlClient._lock: the thread that holds it, or "free"
  cpc,           \* main thread
  rpc,           \* reader thread
  wpc,           \* the thread iterating windows()
  upc, tunes,    \* the thread calling tune()
  running, stopping, producer_lost,   \* _running, _stopping, _producer_lost
  readback,      \* _readback
  consumed       \* chunks read from the ring

process  == <<proc, exit_code, stop, merged>>
ring     == <<ring_state, heartbeat, published>>
control  == <<reqs, reply, broken, server, lock>>
user     == <<upc, tunes>>
flags    == <<running, stopping, producer_lost>>
vars == <<process, ring, ring_linked, control, cpc, rpc, wpc, user, flags,
          readback, consumed>>

NoCode == -1
KilledCode == -9
EXIT_OK == 0
EXIT_SOURCE_INIT_FAILED == 1
EXIT_MAIN_LOOP_ERROR == 3
EXIT_DEVICE_LOST == 4

Live == {"init", "ready", "up", "final"}

TypeOK ==
  /\ proc \in Live \cup {"none", "exited"}
  /\ exit_code \in {NoCode, KilledCode, EXIT_OK, EXIT_SOURCE_INIT_FAILED,
                    EXIT_MAIN_LOOP_ERROR, EXIT_DEVICE_LOST}
  /\ stop \in BOOLEAN /\ merged \in BOOLEAN
  /\ ring_state \in {"INIT", "RUNNING", "STOPPED", "ERROR"}
  /\ heartbeat \in BOOLEAN /\ ring_linked \in BOOLEAN
  /\ published \in 0 .. MaxChunks /\ consumed \in 0 .. published
  /\ reqs \in Seq({"get_readback", "stop", "tune"})
  /\ reply \in {"none", "ok", "placeholder", "device"}
  /\ broken \in BOOLEAN /\ server \in BOOLEAN
  /\ lock \in {"free", "main", "reader", "user"}
  /\ cpc \in {"spawn", "startup", "fetch", "fetch_wait", "open", "stop",
              "stop_wait", "join", "wait", "term_wait", "unlink", "closed"}
  /\ rpc \in {"none", "check", "read", "poll", "judge", "handle", "fetch_wait",
              "push", "end", "done"}
  /\ wpc \in {"none", "reading", "judge", "returned", "raised"}
  /\ upc \in {"idle", "wait"} /\ tunes \in 0 .. MaxTunes
  /\ running \in BOOLEAN /\ stopping \in BOOLEAN /\ producer_lost \in BOOLEAN
  /\ readback \in {"empty", "placeholder", "device"}

(* The ring has been created; the producer is about to be spawned. *)
Init ==
  /\ proc = "none" /\ exit_code = NoCode /\ stop = FALSE /\ merged = FALSE
  /\ ring_state = "INIT" /\ heartbeat = FALSE /\ ring_linked = TRUE
  /\ published = 0 /\ consumed = 0
  /\ reqs = <<>> /\ reply = "none" /\ broken = FALSE /\ server = TRUE
  /\ lock = "free"
  /\ cpc = "spawn" /\ rpc = "none" /\ wpc = "none" /\ upc = "idle" /\ tunes = 0
  /\ running = FALSE /\ stopping = FALSE /\ producer_lost = FALSE
  /\ readback = "empty"
-----------------------------------------------------------------------------
(* The producer process. *)

ConsumerUnchanged ==
  UNCHANGED <<ring_linked, control, cpc, rpc, wpc, user, flags, readback,
              consumed>>

(* The source is open and its settings are merged into the readback ...    *)
ProducerMerges ==
  /\ proc = "init"
  /\ proc' = "ready" /\ merged' = TRUE
  /\ ConsumerUnchanged /\ UNCHANGED <<exit_code, stop, ring>>

(* ... before the first heartbeat, which is what the constructor awaits.   *)
ProducerStarts ==
  /\ proc = "ready"
  /\ proc' = "up" /\ ring_state' = "RUNNING" /\ heartbeat' = TRUE
  /\ ConsumerUnchanged /\ UNCHANGED <<exit_code, stop, merged, published>>

SourceInitFails ==
  /\ proc = "init"
  /\ proc' = "exited" /\ exit_code' = EXIT_SOURCE_INIT_FAILED
  /\ ring_state' = "ERROR"
  /\ ConsumerUnchanged /\ UNCHANGED <<stop, merged, heartbeat, published>>

Publish ==
  /\ proc = "up" /\ published < MaxChunks
  /\ published' = published + 1
  /\ ring_state' = "RUNNING"
  /\ ConsumerUnchanged /\ UNCHANGED <<process, heartbeat>>

(* The acquisition loop ends: asked to stop, device lost, or an exception. *)
LoopEnds(code) ==
  /\ proc = "up"
  /\ code = EXIT_OK => stop
  /\ proc' = "final" /\ exit_code' = code
  /\ ring_state' = IF code = EXIT_OK THEN ring_state ELSE "ERROR"
  /\ ConsumerUnchanged /\ UNCHANGED <<stop, merged, heartbeat, published>>

(* The finally clause, then the process exits. *)
ProducerExits ==
  /\ proc = "final"
  /\ proc' = "exited" /\ stop' = TRUE
  /\ ring_state' = IF exit_code = EXIT_OK THEN "STOPPED" ELSE "ERROR"
  /\ ConsumerUnchanged /\ UNCHANGED <<exit_code, merged, heartbeat, published>>

ProducerCrashes ==
  /\ proc \in Live
  /\ proc' = "exited" /\ exit_code' = KilledCode
  /\ ConsumerUnchanged /\ UNCHANGED <<stop, merged, ring>>

(* The control server takes the next request; the answer reaches the       *)
(* client only if that client is still waiting for it.                     *)
Serve ==
  /\ proc \in Live /\ server /\ reqs # <<>>
  /\ reqs' = Tail(reqs)
  /\ stop' = (stop \/ Head(reqs) = "stop")
  /\ reply' = IF lock = "free" \/ broken THEN reply
              ELSE IF Head(reqs) # "get_readback" THEN "ok"
              ELSE IF merged THEN "device" ELSE "placeholder"
  /\ UNCHANGED <<proc, exit_code, merged, ring, ring_linked, broken, server,
                 lock, cpc, rpc, wpc, user, flags, readback, consumed>>

(* The device refuses to be tuned: the exception ends the control thread,  *)
(* unanswered, and that stops the acquisition loop.                        *)
TuneRaises ==
  /\ proc \in Live /\ server /\ reqs # <<>> /\ Head(reqs) = "tune"
  /\ reqs' = Tail(reqs)
  /\ server' = FALSE
  /\ stop' = TRUE
  /\ UNCHANGED <<proc, exit_code, merged, ring, ring_linked, reply, broken,
                 lock, cpc, rpc, wpc, user, flags, readback, consumed>>
-----------------------------------------------------------------------------
(* ControlClient.request: one request at a time, under its lock. *)

Send(thread, op) ==
  /\ lock = "free"
  /\ lock' = thread
  /\ reqs' = IF proc \in Live THEN Append(reqs, op) ELSE reqs
  /\ reply' = "none"
  /\ UNCHANGED <<broken, server>>

(* A timeout, or the end of the stream: ControlChannelError.  The socket   *)
(* file refuses every later read, so no stale answer is ever taken.        *)
Fails(thread) ==
  /\ lock = thread /\ reply = "none"
  /\ lock' = "free" /\ broken' = TRUE
  /\ UNCHANGED <<reqs, reply, server>>

Answered(thread) ==
  /\ lock = thread /\ reply # "none"
  /\ lock' = "free" /\ reply' = "none"
  /\ UNCHANGED <<reqs, broken, server>>

Completes(thread) == Fails(thread) \/ Answered(thread)

(* _fetch_readback: a failed fetch leaves the cached readback alone. *)
FetchCompletes(thread) ==
  /\ Completes(thread)
  /\ readback' = IF reply = "none" THEN readback ELSE reply
-----------------------------------------------------------------------------
(* The main thread: constructor. *)

ProducerUnchanged == UNCHANGED <<process, ring>>
OthersUnchanged == UNCHANGED <<wpc, user, consumed>>

Spawn ==
  /\ cpc = "spawn"
  /\ proc' = "init" /\ cpc' = "startup"
  /\ OthersUnchanged
  /\ UNCHANGED <<exit_code, stop, merged, ring, ring_linked, control, rpc,
                 flags, readback>>

SpawnFails ==
  /\ cpc = "spawn"
  /\ cpc' = "unlink"
  /\ ProducerUnchanged /\ OthersUnchanged
  /\ UNCHANGED <<ring_linked, control, rpc, flags, readback>>

ProducerAlive == heartbeat /\ ring_state \notin {"ERROR", "STOPPED"}

StartupAlive ==
  /\ cpc = "startup" /\ ProducerAlive
  /\ cpc' = "fetch"
  /\ running' = TRUE
  /\ ProducerUnchanged /\ OthersUnchanged
  /\ UNCHANGED <<ring_linked, control, rpc, stopping, producer_lost, readback>>

(* The process exited, or start_timeout has passed: clean up and raise. *)
StartupFails ==
  /\ cpc = "startup"
  /\ cpc' = "wait"
  /\ ProducerUnchanged /\ OthersUnchanged
  /\ UNCHANGED <<ring_linked, control, rpc, flags, readback>>

StartupFetch ==
  /\ cpc = "fetch"
  /\ Send("main", "get_readback")
  /\ cpc' = "fetch_wait"
  /\ ProducerUnchanged /\ OthersUnchanged
  /\ UNCHANGED <<ring_linked, rpc, flags, readback>>

(* The reader thread starts only now, and windows() can be called. *)
Opened ==
  /\ cpc = "fetch_wait"
  /\ FetchCompletes("main")
  /\ cpc' = "open" /\ rpc' = "check" /\ wpc' = "reading"
  /\ ProducerUnchanged
  /\ UNCHANGED <<ring_linked, user, flags, consumed>>
-----------------------------------------------------------------------------
(* The main thread: close and _cleanup. *)

Close ==
  /\ cpc = "open"
  /\ stopping' = TRUE
  /\ cpc' = "stop"
  /\ ProducerUnchanged /\ OthersUnchanged
  /\ UNCHANGED <<ring_linked, control, rpc, running, producer_lost, readback>>

CloseSendsStop ==
  /\ cpc = "stop"
  /\ Send("main", "stop")
  /\ cpc' = "stop_wait"
  /\ ProducerUnchanged /\ OthersUnchanged
  /\ UNCHANGED <<ring_linked, rpc, flags, readback>>

CloseStopsReader ==
  /\ cpc = "stop_wait"
  /\ Completes("main")
  /\ running' = FALSE
  /\ cpc' = "join"
  /\ ProducerUnchanged /\ OthersUnchanged
  /\ UNCHANGED <<ring_linked, rpc, stopping, producer_lost, readback>>

(* join(timeout=2.0): only a readback fetch can keep the reader that long. *)
JoinReader ==
  /\ cpc = "join"
  /\ rpc \in {"done", "fetch_wait"}
  /\ cpc' = "wait"
  /\ ProducerUnchanged /\ OthersUnchanged
  /\ UNCHANGED <<ring_linked, control, rpc, flags, readback>>

ProcessWait ==
  /\ cpc \in {"wait", "term_wait"} /\ proc = "exited"
  /\ cpc' = "unlink"
  /\ ProducerUnchanged /\ OthersUnchanged
  /\ UNCHANGED <<ring_linked, control, rpc, flags, readback>>

(* Defective: SIGTERM is the last resort. *)
TerminateAndGo ==
  /\ cpc = "wait" /\ proc \in Live
  /\ \/ proc' = "exited" /\ exit_code' = KilledCode
     \/ UNCHANGED <<proc, exit_code>>
  /\ cpc' = "unlink"
  /\ OthersUnchanged
  /\ UNCHANGED <<stop, merged, ring, ring_linked, control, rpc, flags, readback>>

(* wait(2) timed out: SIGTERM, which the process may not react to in time. *)
Terminate ==
  /\ cpc = "wait" /\ proc \in Live
  /\ \/ proc' = "exited" /\ exit_code' = KilledCode
     \/ UNCHANGED <<proc, exit_code>>
  /\ cpc' = "term_wait"
  /\ OthersUnchanged
  /\ UNCHANGED <<stop, merged, ring, ring_linked, control, rpc, flags, readback>>

Kill ==
  /\ cpc = "term_wait" /\ proc \in Live
  /\ proc' = "exited" /\ exit_code' = KilledCode
  /\ cpc' = "unlink"
  /\ OthersUnchanged
  /\ UNCHANGED <<stop, merged, ring, ring_linked, control, rpc, flags, readback>>

Unlink ==
  /\ cpc = "unlink"
  /\ ring_linked' = FALSE
  /\ cpc' = "closed"
  /\ ProducerUnchanged /\ OthersUnchanged
  /\ UNCHANGED <<control, rpc, flags, readback>>
-----------------------------------------------------------------------------
(* The reader thread: _read_loop. *)

MainUnchanged ==
  UNCHANGED <<process, ring, ring_linked, cpc, wpc, user, stopping>>

(* while not self._stopping *)
ReaderChecks ==
  /\ rpc = "check"
  /\ rpc' = IF stopping THEN "end" ELSE "read"
  /\ MainUnchanged
  /\ UNCHANGED <<control, running, producer_lost, readback, consumed>>

ReaderReads ==
  /\ rpc = "read"
  /\ IF consumed < published
     THEN rpc' = "handle" /\ consumed' = consumed + 1
     ELSE rpc' = "poll" /\ UNCHANGED consumed
  /\ MainUnchanged
  /\ UNCHANGED <<control, running, producer_lost, readback>>

(* Defective: nobody asks whether the process has exited. *)
ReaderNeverPolls ==
  /\ rpc = "poll"
  /\ rpc' = "check"
  /\ MainUnchanged
  /\ UNCHANGED <<control, running, producer_lost, readback, consumed>>

(* Nothing to read: has the process exited? *)
ReaderPolls ==
  /\ rpc = "poll"
  /\ rpc' = IF proc = "exited" THEN "judge" ELSE "check"
  /\ MainUnchanged
  /\ UNCHANGED <<control, running, producer_lost, readback, consumed>>

(* Defective: an exit during close() counts as a loss too. *)
ReaderJudgesAlways ==
  /\ rpc = "judge"
  /\ rpc' = "end"
  /\ producer_lost' = TRUE
  /\ MainUnchanged
  /\ UNCHANGED <<control, running, readback, consumed>>

(* It has: unless close() is under way, the producer was lost. *)
ReaderJudges ==
  /\ rpc = "judge"
  /\ rpc' = IF stopping THEN "check" ELSE "end"
  /\ producer_lost' = ~stopping
  /\ MainUnchanged
  /\ UNCHANGED <<control, running, readback, consumed>>

(* A chunk with a new meta_epoch makes the reader fetch the readback. *)
ReaderFetches ==
  /\ rpc = "handle"
  /\ Send("reader", "get_readback")
  /\ rpc' = "fetch_wait"
  /\ MainUnchanged
  /\ UNCHANGED <<running, producer_lost, readback, consumed>>

ReaderFetched ==
  /\ rpc = "fetch_wait"
  /\ FetchCompletes("reader")
  /\ rpc' = "push"
  /\ MainUnchanged
  /\ UNCHANGED <<running, producer_lost, consumed>>

ReaderPushes ==
  /\ rpc \in {"handle", "push"}
  /\ rpc' = "check"
  /\ MainUnchanged
  /\ UNCHANGED <<control, running, producer_lost, readback, consumed>>

(* The finally clause. *)
ReaderEnds ==
  /\ rpc = "end"
  /\ running' = FALSE
  /\ rpc' = "done"
  /\ MainUnchanged
  /\ UNCHANGED <<control, producer_lost, readback, consumed>>

Reader ==
  \/ ReaderChecks \/ ReaderReads \/ ReaderPolls \/ ReaderJudges
  \/ ReaderFetches \/ ReaderFetched \/ ReaderPushes \/ ReaderEnds
-----------------------------------------------------------------------------
(* The thread iterating windows(), and the one calling tune(). *)

(* read_window has returned None: still_active() was false. *)
WindowsNone ==
  /\ wpc = "reading" /\ ~running
  /\ wpc' = "judge"
  /\ UNCHANGED <<process, ring, ring_linked, control, cpc, rpc, user, flags,
                 readback, consumed>>

WindowsEnd ==
  /\ wpc = "judge"
  /\ wpc' = IF producer_lost THEN "raised" ELSE "returned"
  /\ UNCHANGED <<process, ring, ring_linked, control, cpc, rpc, user, flags,
                 readback, consumed>>

Windows == WindowsNone \/ WindowsEnd

Tune ==
  /\ upc = "idle" /\ tunes < MaxTunes /\ rpc # "none"
  /\ Send("user", "tune")
  /\ upc' = "wait" /\ tunes' = tunes + 1
  /\ UNCHANGED <<process, ring, ring_linked, cpc, rpc, wpc, flags, readback,
                 consumed>>

TuneReturns ==
  /\ upc = "wait"
  /\ Completes("user")
  /\ upc' = "idle"
  /\ UNCHANGED <<process, ring, ring_linked, cpc, rpc, wpc, tunes, flags,
                 readback, consumed>>
-----------------------------------------------------------------------------
Producer ==
  \/ ProducerMerges \/ ProducerStarts \/ SourceInitFails \/ Publish
  \/ \E code \in {EXIT_OK, EXIT_MAIN_LOOP_ERROR, EXIT_DEVICE_LOST} :
       LoopEnds(code)
  \/ ProducerExits \/ ProducerCrashes \/ Serve \/ TuneRaises

Cleanup == ProcessWait \/ Terminate \/ Kill \/ Unlink

Constructor ==
  Spawn \/ SpawnFails \/ StartupAlive \/ StartupFails \/ StartupFetch \/ Opened

Closing == CloseSendsStop \/ CloseStopsReader \/ JoinReader \/ Cleanup

Next ==
  Producer \/ Constructor \/ Close \/ Closing \/ Reader \/ Windows
    \/ Tune \/ TuneReturns

Spec == Init /\ [][Next]_vars

(* The consumer's threads are scheduled, and their waits time out.  The    *)
(* producer owes nothing: it may hang, anywhere, for ever; and nobody has  *)
(* to call close() or tune().                                              *)
FairSpec ==
  /\ Spec
  /\ WF_vars(Constructor) /\ WF_vars(Closing)
  /\ WF_vars(Reader) /\ WF_vars(Windows) /\ WF_vars(TuneReturns)
-----------------------------------------------------------------------------
(* Properties. *)

NoOrphan == cpc = "closed" => proc \in {"none", "exited"} /\ ~ring_linked
NeverReadsClosedRing == rpc = "read" => ring_linked
ReadbackIsTheDevices == readback # "placeholder"

(* However the source ends, constructor failure or close(), no producer    *)
(* process and no shared memory are left behind; the reader never touches  *)
(* the ring after close() has unmapped it, though close() gives up waiting *)
(* for it after two seconds; and every readback ever cached, from the      *)
(* constructor's on, is the device's and never the placeholder.            *)
EndsCleanly ==
  /\ TypeOK
  /\ NoOrphan
  /\ NeverReadsClosedRing
  /\ ReadbackIsTheDevices

LostIsUnexpected ==
  producer_lost =>
    proc = "exited" /\ exit_code # NoCode /\ (exit_code = EXIT_OK => ~server)
NoSilentEnd == wpc = "returned" => stopping

(* The verdict on how the stream ended is true both ways.  A producer that *)
(* close() asked to end is never reported as lost, nor is a live one: one  *)
(* that is lost failed, or stopped when a tune killed its control thread.  *)
(* And windows() ends without an exception only if close() was called: a   *)
(* lost producer is never mistaken for the end of the stream.              *)
EndIsTold == LostIsUnexpected /\ NoSilentEnd

CloseReturns == stopping ~> cpc = "closed"
ConstructorReturns == cpc = "startup" ~> cpc \in {"open", "closed"}
DeathIsNoticed ==
  (proc = "exited" /\ wpc = "reading") ~> wpc \in {"raised", "returned"}

(* Nothing waits for ever on a producer that hangs or has died: close() and *)
(* the constructor return whatever lock, join or wait they are in, and when *)
(* the producer process dies the iteration over windows() ends.             *)
NothingHangs ==
  /\ CloseReturns
  /\ ConstructorReturns
  /\ DeathIsNoticed
=============================================================================
