------------------------ MODULE ProcessSourceProofs ------------------------
(***************************************************************************)
(* Safety of the supervision of the producer, for any number of chunks and *)
(* of tune() calls.                                                        *)
(***************************************************************************)
EXTENDS ProcessSource, TLAPS, SequenceTheorems
-----------------------------------------------------------------------------
(* The inductive invariant, in the order in which its parts are needed. *)

Startup  == {"spawn", "startup", "fetch", "fetch_wait"}
Cleaning == {"wait", "term_wait", "unlink", "closed"}

(* The producer exists from Popen on, and is gone before the ring is; its  *)
(* exit code is set when its loop ends, not before.                        *)
ProcessHandled ==
  /\ proc = "none" => cpc \in {"spawn", "unlink", "closed"}
  /\ cpc = "spawn" => proc = "none"
  /\ cpc \in {"unlink", "closed"} => proc \in {"none", "exited"}
  /\ ring_linked <=> cpc # "closed"
  /\ proc \in {"none", "init", "ready", "up"} => exit_code = NoCode
  /\ proc \in {"final", "exited"} => exit_code # NoCode

(* The reader runs only after the constructor; once close() cleans up it   *)
(* is over, or at most on its way out of a readback fetch.                 *)
ReaderHandled ==
  /\ rpc = "none" <=> wpc = "none"
  /\ cpc \in Startup => rpc = "none"
  /\ cpc \in {"open", "stop", "stop_wait", "join"} => rpc # "none"
  /\ cpc \in Startup \cup {"open"} => ~stopping
  /\ cpc \in {"stop", "stop_wait", "join"} => stopping
  /\ cpc \in Cleaning =>
       \/ rpc = "none"
       \/ stopping /\ rpc \in {"check", "fetch_wait", "push", "end", "done"}

(* Nothing is asked of the producer before it has merged its settings. *)
MergedFirst ==
  /\ proc = "ready" \/ heartbeat => merged
  /\ cpc \in {"fetch", "fetch_wait"} => merged
  /\ rpc # "none" => merged
  /\ reqs # <<>> => merged

AwaitedOp ==
  IF lock = "user" THEN "tune"
  ELSE IF lock = "main" /\ cpc = "stop_wait" THEN "stop" ELSE "get_readback"

(* Until a client's read has failed the channel holds at most the request  *)
(* of the thread that has the lock, or its answer; afterwards no answer.   *)
OneRequest ==
  /\ lock = "main" => cpc \in {"fetch_wait", "stop_wait"}
  /\ lock = "reader" => rpc = "fetch_wait"
  /\ lock = "user" => rpc # "none"
  /\ broken \/ lock = "free" => reply = "none"
  /\ reply # "none" =>
       reply = IF AwaitedOp = "get_readback" THEN "device" ELSE "ok"
  /\ ~broken /\ (lock = "free" \/ reply # "none") => reqs = <<>>
  /\ ~broken => reqs = <<>> \/ reqs = <<AwaitedOp>>

(* The producer stops in good order only if close() asked for it, or if a  *)
(* tune has ended its control thread.                                      *)
StopIsAsked ==
  /\ \A i \in 1 .. Len(reqs) : reqs[i] = "stop" => stopping
  /\ stop /\ proc \in {"none", "init", "ready", "up"} => stopping \/ ~server
  /\ exit_code = EXIT_OK => stopping \/ ~server

(* What made the stream end, at every point after the decision to end it. *)
EndHasACause ==
  /\ rpc = "judge" => proc = "exited"
  /\ rpc = "end" => stopping \/ producer_lost
  /\ cpc \in {"fetch", "fetch_wait"} => running
  /\ rpc # "none" /\ ~running => stopping \/ producer_lost
  /\ wpc \in {"judge", "returned", "raised"} => ~running

SupervisionInv ==
  /\ TypeOK
  /\ ProcessHandled
  /\ ReaderHandled
  /\ MergedFirst
  /\ OneRequest
  /\ ReadbackIsTheDevices
  /\ StopIsAsked
  /\ EndHasACause
  /\ LostIsUnexpected
  /\ NoSilentEnd

USE DEF vars, process, ring, control, user, flags,
        ConsumerUnchanged, ProducerUnchanged, OthersUnchanged, MainUnchanged

LEMMA InitSupervision ==
  ASSUME Init
  PROVE  SupervisionInv
<1> USE DEF Init
<1>1. TypeOK
  <2>1. published \in 0 .. MaxChunks /\ tunes \in 0 .. MaxTunes
    BY SupervisionAssumption
  <2>2. consumed \in 0 .. published /\ reqs \in Seq({"get_readback", "stop", "tune"})
    OBVIOUS
  <2> QED
    BY <2>1, <2>2 DEF TypeOK, Live
<1>2. ProcessHandled /\ ReaderHandled /\ MergedFirst /\ OneRequest
  BY DEF ProcessHandled, ReaderHandled, MergedFirst, OneRequest, Startup, Cleaning
<1>3. /\ ReadbackIsTheDevices /\ StopIsAsked /\ EndHasACause
      /\ LostIsUnexpected /\ NoSilentEnd
  BY DEF ReadbackIsTheDevices, StopIsAsked, EndHasACause, LostIsUnexpected,
         NoSilentEnd, NoCode, EXIT_OK
<1> QED
  BY <1>1, <1>2, <1>3 DEF SupervisionInv

(* The life of the process. *)
LEMMA ProcessStep ==
  ASSUME TypeOK, ProcessHandled, Next
  PROVE  ProcessHandled'
<1> USE DEF TypeOK, ProcessHandled, Live, NoCode, KilledCode, EXIT_OK,
            EXIT_SOURCE_INIT_FAILED, EXIT_MAIN_LOOP_ERROR, EXIT_DEVICE_LOST
<1>1. CASE Producer
  BY <1>1 DEF Producer, ProducerMerges, ProducerStarts, SourceInitFails, Publish,
              LoopEnds, ProducerExits, ProducerCrashes, Serve, TuneRaises
<1>2. CASE Constructor
  BY <1>2 DEF Constructor, Spawn, SpawnFails, StartupAlive, StartupFails,
              StartupFetch, Opened
<1>3. CASE Close \/ Closing
  BY <1>3 DEF Close, Closing, CloseSendsStop, CloseStopsReader, JoinReader,
              Cleanup, ProcessWait, Terminate, Kill, Unlink
<1>4. CASE Reader
  BY <1>4 DEF Reader, ReaderChecks, ReaderReads, ReaderPolls, ReaderJudges,
              ReaderFetches, ReaderFetched, ReaderPushes, ReaderEnds
<1>5. CASE Windows \/ Tune \/ TuneReturns
  BY <1>5 DEF Windows, WindowsNone, WindowsEnd, Tune, TuneReturns
<1> QED
  BY <1>1, <1>2, <1>3, <1>4, <1>5 DEF Next

(* The reader, against the main thread that starts it and waits for it. *)
LEMMA ReaderStep ==
  ASSUME TypeOK, ProcessHandled, ReaderHandled, Next
  PROVE  ReaderHandled'
<1> USE DEF TypeOK, ReaderHandled, Startup, Cleaning, Live
<1>1. CASE Producer
  BY <1>1 DEF Producer, ProducerMerges, ProducerStarts, SourceInitFails, Publish,
              LoopEnds, ProducerExits, ProducerCrashes, Serve, TuneRaises
<1>2. CASE Constructor
  BY <1>2 DEF Constructor, Spawn, SpawnFails, StartupAlive, StartupFails,
              StartupFetch, Opened
<1>3. CASE Close \/ Closing
  BY <1>3 DEF Close, Closing, CloseSendsStop, CloseStopsReader, JoinReader,
              Cleanup, ProcessWait, Terminate, Kill, Unlink
<1>4. CASE Reader
  BY <1>4 DEF Reader, ReaderChecks, ReaderReads, ReaderPolls, ReaderJudges,
              ReaderFetches, ReaderFetched, ReaderPushes, ReaderEnds
<1>5. CASE Windows \/ Tune \/ TuneReturns
  BY <1>5 DEF Windows, WindowsNone, WindowsEnd, Tune, TuneReturns
<1> QED
  BY <1>1, <1>2, <1>3, <1>4, <1>5 DEF Next

(* The control channel holds a sequence of requests of the three kinds. *)
LEMMA RequestsStay ==
  ASSUME TypeOK, Next
  PROVE  reqs' \in Seq({"get_readback", "stop", "tune"})
<1> DEFINE Op == {"get_readback", "stop", "tune"}
<1>0. reqs \in Seq(Op)
  BY DEF TypeOK
<1>1. reqs # <<>> => Tail(reqs) \in Seq(Op)
  BY <1>0
<1>2. \A op \in Op : Append(reqs, op) \in Seq(Op)
  BY <1>0
<1>3. \/ UNCHANGED reqs
      \/ reqs # <<>> /\ reqs' = Tail(reqs)
      \/ \E op \in Op : reqs' = Append(reqs, op)
  <2>1. CASE Producer
    BY <2>1 DEF Producer, ProducerMerges, ProducerStarts, SourceInitFails, Publish,
                LoopEnds, ProducerExits, ProducerCrashes, Serve, TuneRaises
  <2>2. CASE Constructor
    BY <2>2 DEF Constructor, Spawn, SpawnFails, StartupAlive, StartupFails,
                StartupFetch, Send, Opened, FetchCompletes, Completes, Fails, Answered
  <2>3. CASE Close \/ Closing
    BY <2>3 DEF Close, Closing, CloseSendsStop, Send, CloseStopsReader, Completes,
                Fails, Answered, JoinReader, Cleanup, ProcessWait, Terminate, Kill,
                Unlink
  <2>4. CASE Reader
    BY <2>4 DEF Reader, ReaderChecks, ReaderReads, ReaderPolls, ReaderJudges,
                ReaderFetches, Send, ReaderFetched, FetchCompletes, Completes, Fails,
                Answered, ReaderPushes, ReaderEnds
  <2>5. CASE Windows \/ Tune \/ TuneReturns
    BY <2>5 DEF Windows, WindowsNone, WindowsEnd, Tune, Send, TuneReturns, Completes,
                Fails, Answered
  <2> QED
    BY <2>1, <2>2, <2>3, <2>4, <2>5 DEF Next
<1> HIDE DEF Op
<1>4. reqs' \in Seq(Op)
  BY <1>0, <1>1, <1>2, <1>3
<1> QED
  BY <1>4 DEF Op

LEMMA MergedStep ==
  ASSUME TypeOK, ProcessHandled, ReaderHandled, MergedFirst, Next
  PROVE  MergedFirst'
<1> USE DEF TypeOK, ReaderHandled, MergedFirst, Startup, Cleaning, Live
<1>1. CASE Producer
  <2>1. CASE ProducerMerges \/ ProducerStarts
    BY <2>1 DEF ProducerMerges, ProducerStarts
  <2>2. CASE Serve \/ TuneRaises
    BY <2>2 DEF Serve, TuneRaises
  <2>3. ASSUME ~ProducerMerges, ~ProducerStarts, ~Serve, ~TuneRaises
        PROVE  proc' # "ready" /\ UNCHANGED <<heartbeat, merged, cpc, rpc, reqs>>
    BY <1>1, <2>3 DEF Producer, SourceInitFails, Publish, LoopEnds, ProducerExits,
                      ProducerCrashes
  <2> QED
    BY <2>1, <2>2, <2>3
<1>2. CASE Constructor
  BY <1>2 DEF Constructor, Spawn, SpawnFails, StartupAlive, ProducerAlive,
              StartupFails, StartupFetch, Send, Opened, FetchCompletes, Completes,
              Fails, Answered
<1>3. CASE Close \/ Closing
  BY <1>3 DEF Close, Closing, CloseSendsStop, Send, CloseStopsReader, Completes,
              Fails, Answered, JoinReader, Cleanup, ProcessWait, Terminate, Kill,
              Unlink
<1>4. CASE Reader
  BY <1>4 DEF Reader, ReaderChecks, ReaderReads, ReaderPolls, ReaderJudges,
              ReaderFetches, Send, ReaderFetched, FetchCompletes, Completes, Fails,
              Answered, ReaderPushes, ReaderEnds
<1>5. CASE Windows \/ Tune \/ TuneReturns
  BY <1>5 DEF Windows, WindowsNone, WindowsEnd, Tune, Send, TuneReturns, Completes,
              Fails, Answered
<1> QED
  BY <1>1, <1>2, <1>3, <1>4, <1>5 DEF Next

(* Where a thread takes the lock for a request, and where it gives it back. *)
LEMMA LockIsTaken ==
  ASSUME TypeOK, OneRequest, NEW op, NEW thread, Send(thread, op)
  PROVE  /\ lock = "free" /\ lock' = thread /\ reply' = "none"
         /\ UNCHANGED <<broken, server>>
         /\ ~broken => reqs' = <<>> \/ reqs' = <<op>>
<1>1. Append(<<>>, op) = <<op>>
  OBVIOUS
<1> QED
  BY <1>1 DEF Send, OneRequest

LEMMA LockIsReleased ==
  ASSUME NEW thread, Completes(thread)
  PROVE  /\ lock = thread /\ lock' = "free"
         /\ UNCHANGED <<reqs, server>>
         /\ \/ reply = "none" /\ broken' = TRUE /\ UNCHANGED reply
            \/ reply # "none" /\ reply' = "none" /\ UNCHANGED broken
  BY DEF Completes, Fails, Answered

(* The channel between a client and the control server. *)
LEMMA RequestStep ==
  ASSUME TypeOK, ProcessHandled, ReaderHandled, MergedFirst, OneRequest, Next
  PROVE  OneRequest'
<1> USE DEF TypeOK, ReaderHandled, OneRequest, AwaitedOp, Startup, Cleaning
<1>1. CASE Producer
  <2>1. CASE Serve
    <3>1. /\ reqs # <<>> /\ reqs' = Tail(reqs) /\ UNCHANGED <<lock, broken, cpc, rpc>>
          /\ lock = "free" \/ broken => UNCHANGED reply
          /\ ~(lock = "free" \/ broken) =>
               reply' = IF Head(reqs) # "get_readback" THEN "ok" ELSE "device"
      BY <2>1 DEF Serve, MergedFirst
    <3>2. CASE broken
      BY <3>1, <3>2
    <3>3. CASE ~broken
      <4>1. reqs = <<AwaitedOp>> /\ lock # "free"
        BY <3>1, <3>3
      <4>2. Head(reqs) = AwaitedOp /\ Tail(reqs) = <<>>
        BY <4>1
      <4> QED
        BY <3>1, <3>3, <4>1, <4>2
    <3> QED
      BY <3>2, <3>3
  <2>2. CASE TuneRaises
    <3>1. reqs # <<>> /\ reqs' = Tail(reqs) /\ UNCHANGED <<lock, reply, broken, cpc, rpc>>
      BY <2>2 DEF TuneRaises
    <3>2. ~broken => Tail(reqs) = <<>>
      BY <3>1
    <3> QED
      BY <3>1, <3>2
  <2>3. ASSUME ~Serve, ~TuneRaises
        PROVE  UNCHANGED <<reqs, reply, broken, lock, cpc, rpc>>
    BY <1>1, <2>3 DEF Producer, ProducerMerges, ProducerStarts, SourceInitFails,
                      Publish, LoopEnds, ProducerExits, ProducerCrashes
  <2> QED
    BY <2>1, <2>2, <2>3
<1>2. CASE Constructor
  <2>1. CASE StartupFetch
    BY <2>1, LockIsTaken DEF StartupFetch
  <2>2. CASE Opened
    BY <2>2, LockIsReleased DEF Opened, FetchCompletes
  <2> QED
    BY <1>2, <2>1, <2>2 DEF Constructor, Spawn, SpawnFails, StartupAlive, StartupFails
<1>3. CASE Close \/ Closing
  <2>1. CASE CloseSendsStop
    BY <2>1, LockIsTaken DEF CloseSendsStop
  <2>2. CASE CloseStopsReader
    BY <2>2, LockIsReleased DEF CloseStopsReader
  <2> QED
    BY <1>3, <2>1, <2>2 DEF Close, Closing, JoinReader, Cleanup, ProcessWait,
                            Terminate, Kill, Unlink
<1>4. CASE Reader
  <2>1. CASE ReaderFetches
    BY <2>1, LockIsTaken DEF ReaderFetches
  <2>2. CASE ReaderFetched
    BY <2>2, LockIsReleased DEF ReaderFetched, FetchCompletes
  <2> QED
    BY <1>4, <2>1, <2>2 DEF Reader, ReaderChecks, ReaderReads, ReaderPolls,
                            ReaderJudges, ReaderPushes, ReaderEnds
<1>5. CASE Windows
  BY <1>5 DEF Windows, WindowsNone, WindowsEnd
<1>6. CASE Tune
  BY <1>6, LockIsTaken DEF Tune
<1>7. CASE TuneReturns
  BY <1>7, LockIsReleased DEF TuneReturns
<1> QED
  BY <1>1, <1>2, <1>3, <1>4, <1>5, <1>6, <1>7 DEF Next

(* What is cached is what a fetch was answered. *)
LEMMA ReadbackStep ==
  ASSUME TypeOK, OneRequest, ReadbackIsTheDevices, Next
  PROVE  ReadbackIsTheDevices' /\ readback' \in {"empty", "device"}
<1> USE DEF TypeOK, ReadbackIsTheDevices
<1>1. ASSUME NEW thread \in {"main", "reader"}, FetchCompletes(thread),
             thread = "main" => cpc = "fetch_wait"
      PROVE  readback' \in {"empty", "device"}
  BY <1>1 DEF FetchCompletes, Completes, Fails, Answered, OneRequest, AwaitedOp
<1>2. CASE Opened \/ ReaderFetched
  <2>1. CASE Opened
    <3>1. FetchCompletes("main") /\ cpc = "fetch_wait"
      BY <2>1 DEF Opened
    <3> QED
      BY <1>1, <3>1
  <2>2. CASE ReaderFetched
    <3>1. FetchCompletes("reader")
      BY <2>2 DEF ReaderFetched
    <3>2. readback' \in {"empty", "device"}
      BY <1>1, <3>1
    <3> QED
      BY <3>2
  <2> QED
    BY <1>2, <2>1, <2>2
<1>3. CASE Producer
  BY <1>3 DEF Producer, ProducerMerges, ProducerStarts, SourceInitFails, Publish,
              LoopEnds, ProducerExits, ProducerCrashes, Serve, TuneRaises
<1>4. CASE (Constructor /\ ~Opened) \/ Close \/ Closing
  BY <1>4 DEF Constructor, Spawn, SpawnFails, StartupAlive, StartupFails,
              StartupFetch, Close, Closing, CloseSendsStop, CloseStopsReader,
              JoinReader, Cleanup, ProcessWait, Terminate, Kill, Unlink
<1>5. CASE Reader /\ ~ReaderFetched
  BY <1>5 DEF Reader, ReaderChecks, ReaderReads, ReaderPolls, ReaderJudges,
              ReaderFetches, ReaderPushes, ReaderEnds
<1>6. CASE Windows \/ Tune \/ TuneReturns
  BY <1>6 DEF Windows, WindowsNone, WindowsEnd, Tune, TuneReturns
<1> QED
  BY <1>2, <1>3, <1>4, <1>5, <1>6 DEF Next

(* Who asked the producer to stop. *)
LEMMA StopStep ==
  ASSUME TypeOK, ProcessHandled, ReaderHandled, StopIsAsked, Next
  PROVE  StopIsAsked'
<1> USE DEF TypeOK, ReaderHandled, StopIsAsked, Startup, Cleaning, Live,
            NoCode, KilledCode, EXIT_OK, EXIT_SOURCE_INIT_FAILED,
            EXIT_MAIN_LOOP_ERROR, EXIT_DEVICE_LOST
<1> DEFINE Asked(rs) == \A i \in 1 .. Len(rs) : rs[i] = "stop" => stopping'
<1>1. stopping => stopping'
  BY DEF Next, Producer, ProducerMerges, ProducerStarts, SourceInitFails, Publish,
         LoopEnds, ProducerExits, ProducerCrashes, Serve, TuneRaises,
         Constructor, Spawn, SpawnFails, StartupAlive, StartupFails, StartupFetch,
         Opened, Close, Closing, CloseSendsStop, CloseStopsReader, JoinReader,
         Cleanup, ProcessWait, Terminate, Kill, Unlink, Reader, ReaderChecks,
         ReaderReads, ReaderPolls, ReaderJudges, ReaderFetches, ReaderFetched,
         ReaderPushes, ReaderEnds, Windows, WindowsNone, WindowsEnd, Tune, TuneReturns
<1>2. ASSUME reqs # <<>> PROVE Asked(Tail(reqs)) /\ (Head(reqs) = "stop" => stopping)
  <2>1. Len(Tail(reqs)) = Len(reqs) - 1 /\ Len(reqs) \in Nat \ {0}
    BY <1>2
  <2>2. \A i \in 1 .. Len(Tail(reqs)) : Tail(reqs)[i] = reqs[i + 1]
    BY <1>2
  <2>3. \A i \in 1 .. Len(Tail(reqs)) : i + 1 \in 1 .. Len(reqs)
    BY <2>1
  <2>4. Asked(Tail(reqs))
    BY <1>1, <2>2, <2>3
  <2>5. 1 \in 1 .. Len(reqs) /\ Head(reqs) = reqs[1]
    BY <1>2, <2>1
  <2> QED
    BY <2>4, <2>5
<1>3. ASSUME NEW op, NEW thread, Send(thread, op), op = "stop" => stopping
      PROVE  Asked(reqs') /\ UNCHANGED server
  <2>1. CASE reqs' = reqs
    BY <1>1, <1>3, <2>1 DEF Send
  <2>2. CASE reqs' = Append(reqs, op)
    <3>1. /\ Len(Append(reqs, op)) = Len(reqs) + 1 /\ Len(reqs) \in Nat
          /\ Append(reqs, op)[Len(reqs) + 1] = op
          /\ \A i \in 1 .. Len(reqs) : Append(reqs, op)[i] = reqs[i]
      OBVIOUS
    <3> QED
      BY <1>1, <1>3, <2>2, <3>1 DEF Send
  <2> QED
    BY <1>3, <2>1, <2>2 DEF Send
<1> HIDE DEF Asked
<1>4. CASE Producer
  <2>1. CASE Serve
    <3>1. /\ Asked(reqs') /\ UNCHANGED <<stopping, server, exit_code, proc>>
          /\ stop' => stop \/ stopping
      BY <1>2, <2>1 DEF Serve
    <3> QED
      BY <3>1 DEF Asked
  <2>2. CASE TuneRaises
    <3>1. Asked(reqs') /\ ~server'
      BY <1>2, <2>2 DEF TuneRaises
    <3> QED
      BY <3>1 DEF Asked
  <2>3. CASE \E code \in {EXIT_OK, EXIT_MAIN_LOOP_ERROR, EXIT_DEVICE_LOST} :
               LoopEnds(code)
    BY <2>3 DEF LoopEnds
  <2> QED
    BY <1>4, <2>1, <2>2, <2>3 DEF Producer, ProducerMerges, ProducerStarts,
       SourceInitFails, Publish, ProducerExits, ProducerCrashes
<1>5. CASE Constructor
  <2>1. CASE StartupFetch
    <3>1. Asked(reqs') /\ UNCHANGED <<server, stopping, stop, proc, exit_code>>
      BY <1>3, <2>1 DEF StartupFetch
    <3> QED
      BY <3>1 DEF Asked
  <2>2. CASE Opened
    BY <2>2, LockIsReleased DEF Opened, FetchCompletes
  <2>3. CASE Spawn
    BY <2>3 DEF Spawn, ProcessHandled
  <2> QED
    BY <1>5, <2>1, <2>2, <2>3 DEF Constructor, SpawnFails, StartupAlive, StartupFails
<1>6. CASE Close \/ Closing
  <2>1. CASE CloseSendsStop
    <3>1. Asked(reqs') /\ UNCHANGED <<server, stopping, stop, proc, exit_code>>
      BY <1>3, <2>1 DEF CloseSendsStop
    <3> QED
      BY <3>1 DEF Asked
  <2>2. CASE CloseStopsReader
    BY <2>2, LockIsReleased DEF CloseStopsReader
  <2>3. CASE Close
    BY <2>3 DEF Close
  <2> QED
    BY <1>6, <2>1, <2>2, <2>3 DEF Closing, JoinReader, Cleanup, ProcessWait,
                                  Terminate, Kill, Unlink
<1>7. CASE Reader
  <2>1. CASE ReaderFetches
    <3>1. Asked(reqs') /\ UNCHANGED <<server, stopping, stop, proc, exit_code>>
      BY <1>3, <2>1 DEF ReaderFetches
    <3> QED
      BY <3>1 DEF Asked
  <2>2. CASE ReaderFetched
    BY <2>2, LockIsReleased DEF ReaderFetched, FetchCompletes
  <2> QED
    BY <1>7, <2>1, <2>2 DEF Reader, ReaderChecks, ReaderReads, ReaderPolls,
                            ReaderJudges, ReaderPushes, ReaderEnds
<1>8. CASE Windows
  BY <1>8 DEF Windows, WindowsNone, WindowsEnd
<1>9. CASE Tune
  <2>1. Asked(reqs') /\ UNCHANGED <<server, stopping, stop, proc, exit_code>>
    BY <1>3, <1>9 DEF Tune
  <2> QED
    BY <2>1 DEF Asked
<1>10. CASE TuneReturns
  BY <1>10, LockIsReleased DEF TuneReturns
<1> QED
  BY <1>4, <1>5, <1>6, <1>7, <1>8, <1>9, <1>10 DEF Next

(* Why the reader ended, whether the producer was lost, and what windows() *)
(* made of it.                                                             *)
LEMMA EndStep ==
  ASSUME TypeOK, ProcessHandled, ReaderHandled, StopIsAsked, EndHasACause,
         LostIsUnexpected, NoSilentEnd, Next
  PROVE  EndHasACause' /\ LostIsUnexpected' /\ NoSilentEnd'
<1> USE DEF TypeOK, ProcessHandled, ReaderHandled, StopIsAsked, EndHasACause,
            LostIsUnexpected, NoSilentEnd, Startup, Cleaning, Live, NoCode,
            KilledCode, EXIT_OK, EXIT_SOURCE_INIT_FAILED, EXIT_MAIN_LOOP_ERROR,
            EXIT_DEVICE_LOST
<1>1. CASE Producer
  BY <1>1 DEF Producer, ProducerMerges, ProducerStarts, SourceInitFails, Publish,
              LoopEnds, ProducerExits, ProducerCrashes, Serve, TuneRaises
<1>2. CASE Constructor
  <2>1. CASE Opened
    BY <2>1, LockIsReleased DEF Opened, FetchCompletes
  <2>2. CASE StartupFetch
    BY <2>2 DEF StartupFetch, Send
  <2> QED
    BY <1>2, <2>1, <2>2 DEF Constructor, Spawn, SpawnFails, StartupAlive, StartupFails
<1>3. CASE Close \/ Closing
  <2>1. CASE CloseSendsStop
    BY <2>1 DEF CloseSendsStop, Send
  <2>2. CASE CloseStopsReader
    BY <2>2, LockIsReleased DEF CloseStopsReader
  <2>3. CASE Terminate \/ Kill
    BY <2>3 DEF Terminate, Kill
  <2> QED
    BY <1>3, <2>1, <2>2, <2>3 DEF Close, Closing, JoinReader, Cleanup, ProcessWait,
                                  Unlink
<1>4. CASE Reader
  <2>1. CASE ReaderFetches
    BY <2>1 DEF ReaderFetches, Send
  <2>2. CASE ReaderFetched
    BY <2>2, LockIsReleased DEF ReaderFetched, FetchCompletes
  <2>3. CASE ReaderJudges
    BY <2>3 DEF ReaderJudges
  <2> QED
    BY <1>4, <2>1, <2>2, <2>3 DEF Reader, ReaderChecks, ReaderReads, ReaderPolls,
                                  ReaderPushes, ReaderEnds
<1>5. CASE Windows
  BY <1>5 DEF Windows, WindowsNone, WindowsEnd
<1>6. CASE Tune
  BY <1>6 DEF Tune, Send
<1>7. CASE TuneReturns
  BY <1>7, LockIsReleased DEF TuneReturns
<1> QED
  BY <1>1, <1>2, <1>3, <1>4, <1>5, <1>6, <1>7 DEF Next

LEMMA TypeStep ==
  ASSUME TypeOK, OneRequest, ReadbackIsTheDevices, Next
  PROVE  TypeOK'
<1> USE DEF TypeOK
<1>1. reqs' \in Seq({"get_readback", "stop", "tune"})
  BY RequestsStay
<1>2. readback' \in {"empty", "placeholder", "device"}
  BY ReadbackStep
<1>3. /\ published' \in 0 .. MaxChunks /\ consumed' \in 0 .. published'
      /\ tunes' \in 0 .. MaxTunes
  <2>1. CASE Producer
    BY <2>1, SupervisionAssumption
    DEF Producer, ProducerMerges, ProducerStarts, SourceInitFails, Publish,
        LoopEnds, ProducerExits, ProducerCrashes, Serve, TuneRaises
  <2>2. CASE Reader
    BY <2>2, SupervisionAssumption
    DEF Reader, ReaderChecks, ReaderReads, ReaderPolls, ReaderJudges,
        ReaderFetches, ReaderFetched, ReaderPushes, ReaderEnds
  <2>3. CASE Tune
    BY <2>3, SupervisionAssumption DEF Tune
  <2> QED
    BY <2>1, <2>2, <2>3
    DEF Next, Constructor, Spawn, SpawnFails, StartupAlive, StartupFails,
        StartupFetch, Opened, Close, Closing, CloseSendsStop, CloseStopsReader,
        JoinReader, Cleanup, ProcessWait, Terminate, Kill, Unlink, Windows,
        WindowsNone, WindowsEnd, TuneReturns
<1>4. CASE Producer
  <2>1. CASE Serve \/ TuneRaises
    <3>1. UNCHANGED <<proc, exit_code, merged, ring_state, heartbeat, ring_linked,
                      broken, lock, cpc, rpc, wpc, upc, running, stopping,
                      producer_lost>>
      BY <2>1 DEF Serve, TuneRaises
    <3>2. reply' \in {"none", "ok", "placeholder", "device"}
      BY <2>1 DEF Serve, TuneRaises
    <3>3. stop' \in BOOLEAN /\ server' \in BOOLEAN
      BY Zenon, <2>1 DEF Serve, TuneRaises
    <3> QED
      BY <1>1, <1>2, <1>3, <3>1, <3>2, <3>3
  <2>2. CASE \E code \in {EXIT_OK, EXIT_MAIN_LOOP_ERROR, EXIT_DEVICE_LOST} :
               LoopEnds(code)
    BY ZenonT(30), <1>1, <1>2, <1>3, <2>2 DEF LoopEnds, Live
  <2> QED
    BY ZenonT(30), <1>1, <1>2, <1>3, <1>4, <2>1, <2>2
    DEF Producer, ProducerMerges, ProducerStarts, SourceInitFails, Publish,
        ProducerExits, ProducerCrashes, Live
<1>5. CASE Constructor
  BY ZenonT(30), <1>1, <1>2, <1>3, <1>5, LockIsTaken, LockIsReleased
  DEF Constructor, Spawn, SpawnFails, StartupAlive, StartupFails, StartupFetch,
      Opened, FetchCompletes, Live
<1>6. CASE Close \/ Closing
  BY ZenonT(30), <1>1, <1>2, <1>3, <1>6, LockIsTaken, LockIsReleased
  DEF Close, Closing, CloseSendsStop, CloseStopsReader, JoinReader, Cleanup,
      ProcessWait, Terminate, Kill, Unlink
<1>7. CASE Reader
  BY ZenonT(30), <1>1, <1>2, <1>3, <1>7, LockIsTaken, LockIsReleased
  DEF Reader, ReaderChecks, ReaderReads, ReaderPolls, ReaderJudges, ReaderFetches,
      ReaderFetched, FetchCompletes, ReaderPushes, ReaderEnds
<1>8. CASE Windows \/ Tune \/ TuneReturns
  BY ZenonT(30), <1>1, <1>2, <1>3, <1>8, LockIsTaken, LockIsReleased
  DEF Windows, WindowsNone, WindowsEnd, Tune, TuneReturns
<1> QED
  BY <1>4, <1>5, <1>6, <1>7, <1>8 DEF Next
-----------------------------------------------------------------------------
LEMMA NextSupervision ==
  ASSUME SupervisionInv, [Next]_vars
  PROVE  SupervisionInv'
<1>1. CASE Next
  BY <1>1, TypeStep, ProcessStep, ReaderStep, MergedStep, RequestStep,
     ReadbackStep, StopStep, EndStep
  DEF SupervisionInv
<1>2. CASE UNCHANGED vars
  BY <1>2 DEF SupervisionInv, TypeOK, ProcessHandled, ReaderHandled, MergedFirst,
     OneRequest, AwaitedOp, ReadbackIsTheDevices, StopIsAsked, EndHasACause,
     LostIsUnexpected, NoSilentEnd
<1> QED
  BY <1>1, <1>2

(* The supervision invariant holds in every reachable state, with any      *)
(* number of chunks and tune() calls.                                      *)
THEOREM SupervisionInvHolds == Spec => []SupervisionInv
  BY InitSupervision, NextSupervision, PTL DEF Spec

(* No orphaned process or ring after the source has ended, no read of an   *)
(* unmapped ring by a reader that close() stopped waiting for, and no      *)
(* placeholder readback ever cached.                                       *)
THEOREM SourceEndsCleanly == Spec => []EndsCleanly
<1>1. SupervisionInv => EndsCleanly
  BY DEF SupervisionInv, EndsCleanly, NoOrphan, NeverReadsClosedRing, TypeOK,
         ProcessHandled, ReaderHandled, Cleaning
<1> QED
  BY <1>1, SupervisionInvHolds, PTL

(* A producer reported as lost has failed, or was ended by a tune; and     *)
(* windows() ends without an exception only after close() was called.      *)
THEOREM TheEndIsTold == Spec => []EndIsTold
<1>1. SupervisionInv => EndIsTold
  BY DEF SupervisionInv, EndIsTold
<1> QED
  BY <1>1, SupervisionInvHolds, PTL
=============================================================================
