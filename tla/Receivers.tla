----------------------------- MODULE Receivers ------------------------------
(***************************************************************************)
(* make_source and the receivers it opens in this process: the order in    *)
(* which backends are tried and what a failed attempt leaves behind, the   *)
(* RX thread of libhackrf and of the libiio ANTSDR around their assembler, *)
(* retunes, loss of the device, and close().                               *)
(*                                                                         *)
(* A frequency is the number of the tune that asked for it.  The assembler *)
(* is a short queue of chunks that drops its oldest (StreamAssembler has   *)
(* the rest).  A USRP (UhdDevice) is read by a producer process: its moves *)
(* are part of this module's Next, in behaviours of their own.             *)
(***************************************************************************)
EXTENDS UhdDevice, FiniteSets

CONSTANTS
    InFlight,   \* buffers between the radio and the RX thread
    AsmMax,     \* chunks the assembler holds
    MaxRetunes  \* bound: calls of tune()

ASSUME ReceiversAssumption ==
    /\ {InFlight, AsmMax} \subseteq Nat \ {0}
    /\ MaxRetunes \in Nat

VARIABLES
    who,       \* "direct" or "uhd": whose behaviour this is
    todo,      \* make_source: backends still to be tried
    step,      \* make_source: constructor step of the backend being tried
    src,       \* the source: "none", "error", "closed" or a backend
    held,      \* the backend whose handle has the radio open, or "none"
    leaked,    \* a failed constructor left its handle open
    hw,        \* the radio's frequency
    centre,    \* center_freq_hz, which labels the chunks
    tstep,     \* tune: where it is
    mismatch,  \* libiio: readback_mismatch
    tuneFailed,\* history: the radio refused a frequency
    flight,    \* frequencies of the buffers in flight
    rx,        \* the RX thread
    hand,      \* the chunk in the RX thread's hands
    running,   \* _running (libiio), _streaming (libhackrf)
    stopped,   \* StreamAssembler.mark_stopped was called
    buffer,    \* libiio: _buf is not None
    asm,       \* the chunks in the assembler
    dirty,     \* history: chunks taken since the last tune that are not of it
               \* (counted up to InFlight + 2)
    ended,     \* windows() has ended
    latePush   \* history: a chunk was pushed after close() returned

make   == <<todo, step, leaked>>
radio  == <<hw, mismatch, tuneFailed>>
thread == <<flight, rx, hand>>
direct == <<make, src, held, radio, centre, tstep, thread, running, stopped,
            buffer, asm, dirty, ended, latePush>>
vars   == <<who, direct, uhdVars>>

Threaded == {"libhackrf", "antsdr_iio"}
AutoOrder == <<"libhackrf", "soapy", "hackrf_transfer">>
Registry == Threaded \cup {"soapy", "hackrf_transfer"}
NoHand   == [real |-> 0, label |-> 0]

TypeOK ==
    /\ UhdTypeOK
    /\ who \in {"direct", "uhd"}
    /\ step \in {"probe", "open", "configure", "start"}
    /\ src \in Registry \cup {"none", "error", "closing", "closed"}
    /\ held \in Registry \cup {"none"}
    /\ {hw, centre} \subseteq 0..MaxRetunes
    /\ tstep \in {"idle", "freq", "centre", "flush"}
    /\ Len(flight) <= InFlight /\ Len(asm) <= AsmMax
    /\ rx \in {"off", "open", "loop", "wait", "label", "push", "dead"}
    /\ {leaked, mismatch, tuneFailed, running, stopped, buffer, ended, latePush} \subseteq BOOLEAN

(* make_source(cfg, prefer): one backend if one is asked for, else the auto *)
(* order.  (--sim and --iq-file give a source that opens nothing.)         *)
Init ==
    /\ who \in {"direct", "uhd"}
    /\ UhdInit
    /\ todo \in {AutoOrder} \cup IF who = "uhd" THEN {} ELSE {<<b>> : b \in Registry}
    /\ step = "probe" /\ src = "none" /\ held = "none" /\ leaked = FALSE
    /\ hw = 0 /\ centre = 0 /\ tstep = "idle" /\ mismatch = FALSE /\ tuneFailed = FALSE
    /\ flight = <<>> /\ rx = "off" /\ hand = NoHand
    /\ running = FALSE /\ stopped = FALSE /\ buffer = FALSE
    /\ asm = <<>> /\ dirty = 0 /\ ended = FALSE /\ latePush = FALSE

-----------------------------------------------------------------------------
(* make_source.                                                            *)

Trying == Head(todo)
Opening == src = "none" /\ todo # <<>>
SkipTo(rest) ==
    /\ todo' = rest /\ step' = "probe"
    /\ src' = IF rest = <<>> THEN "error" ELSE "none"

(* entry.probe() says that something is missing: the next one.             *)
ProbeFails ==
    /\ Opening /\ step = "probe"
    /\ SkipTo(Tail(todo))
    /\ UNCHANGED <<held, leaked, radio, centre, tstep, thread, running,
                   stopped, buffer, asm, dirty, ended, latePush>>

ProbeOk ==
    /\ Opening /\ step = "probe"
    /\ step' = "open"
    /\ UNCHANGED <<todo, src, held, leaked, radio, centre, tstep, thread,
                   running, stopped, buffer, asm, dirty, ended, latePush>>

(* The radio admits one handle.  The constructor of the hackrf_transfer    *)
(* source opens nothing: its process does, window by window.               *)
IsHackRF(b) == b # "antsdr_iio"
CanOpen(b) == held = "none" \/ ~IsHackRF(b) \/ b = "hackrf_transfer"

OpenDevice ==
    /\ Opening /\ step = "open" /\ CanOpen(Trying)
    /\ held' = IF Trying = "hackrf_transfer" THEN held ELSE Trying
    /\ step' = IF Trying = "hackrf_transfer" THEN "start" ELSE "configure"
    /\ UNCHANGED <<todo, src, leaked, radio, centre, tstep, thread, running,
                   stopped, buffer, asm, dirty, ended, latePush>>

(* Defective: an attribute that cannot be read is taken for right. *)
MismatchIfRead(readable, obeys) == readable /\ ~obeys

(* _refresh_readback: an attribute that cannot be read is no match.         *)
Mismatch(readable, obeys) == ~(readable /\ obeys)

Configure ==
    /\ Opening /\ step = "configure" /\ step' = "start"
    /\ \E readable \in BOOLEAN :
         mismatch' = (Trying = "antsdr_iio" /\ Mismatch(readable, TRUE))
    /\ UNCHANGED <<todo, src, held, leaked, hw, tuneFailed, centre, tstep, thread,
                   running, stopped, buffer, asm, dirty, ended, latePush>>

(* The last step of the constructor: the stream is on, and the RX thread   *)
(* of a threaded receiver exists.                                          *)
StartStream ==
    /\ Opening /\ step = "start"
    /\ src' = Trying /\ running' = (Trying \in Threaded)
    /\ rx' = CASE Trying = "libhackrf"  -> "wait"
               [] Trying = "antsdr_iio" -> "open"
               [] OTHER                 -> "off"
    /\ todo' = <<>> /\ step' = "probe"
    /\ UNCHANGED <<held, leaked, radio, centre, tstep, flight, hand, stopped,
                   buffer, asm, dirty, ended, latePush>>

(* A constructor raises.  HackRFStream has no way back once hackrf_open has *)
(* succeeded; the other objects let go of the device with their last       *)
(* reference.  make_source goes on to the next backend.                    *)
Leaks == Trying = "libhackrf" /\ step \in {"configure", "start"}

ConstructorFails ==
    /\ Opening /\ step # "probe"
    /\ Trying # "hackrf_transfer"
    /\ leaked' = (leaked \/ Leaks)
    /\ held' = IF step = "open" \/ Leaks THEN held ELSE "none"
    /\ SkipTo(Tail(todo))
    /\ UNCHANGED <<radio, centre, tstep, thread, running, stopped, buffer,
                   asm, dirty, ended, latePush>>

-----------------------------------------------------------------------------
(* The RX thread: libusb's for libhackrf, _run for libiio.                  *)

(* The radio fills a buffer; with all of them full it loses samples.       *)
RadioFills ==
    /\ rx \in {"loop", "wait", "label", "push"} /\ held \in Threaded
    /\ Len(flight) < InFlight
    /\ flight' = Append(flight, hw)
    /\ UNCHANGED <<make, src, held, radio, centre, tstep, rx, hand, running, stopped,
                   buffer, asm, dirty, ended, latePush>>

OpenBuffer ==
    /\ rx = "open"
    /\ rx' = "loop" /\ buffer' = TRUE
    /\ UNCHANGED <<make, src, held, radio, centre, tstep, flight, hand, running,
                   stopped, asm, dirty, ended, latePush>>

(* open_buffer() stands before the try: the thread ends without a word.    *)
OpenBufferFails ==
    /\ rx = "open" /\ rx' = "dead"
    /\ UNCHANGED <<make, src, held, radio, centre, tstep, flight, hand, running,
                   stopped, buffer, asm, dirty, ended, latePush>>

(* Defective: the thread ends without telling the assembler. *)
RunEndsSilently == rx' = "dead" /\ UNCHANGED <<running, stopped>>

(* _run's finally clause.                                                  *)
RunEnds == rx' = "dead" /\ running' = FALSE /\ stopped' = TRUE

(* The thread's loop, until it is told to stop.                             *)
RunGoesOn ==
    /\ rx = "loop" /\ src \notin {"closing", "closed"} /\ rx' = "wait"
    /\ UNCHANGED <<make, src, held, radio, centre, tstep, flight, hand, running,
                   stopped, buffer, asm, dirty, ended, latePush>>

RunStops ==
    /\ rx = "loop" /\ src \in {"closing", "closed"}
    /\ RunEnds
    /\ UNCHANGED <<make, src, held, radio, centre, tstep, flight, hand, buffer, asm,
                   dirty, ended, latePush>>

(* A buffer arrives; libiio raises if close() has taken the buffer object.  *)
Loop == IF held = "libhackrf" THEN "wait" ELSE "loop"

(* Defective: the buffer that close() has taken is used. *)
RefillUnchecked ==
    /\ rx = "wait" /\ flight # <<>>
    /\ hand' = [NoHand EXCEPT !.real = Head(flight)] /\ flight' = Tail(flight)
    /\ rx' = "label" /\ UNCHANGED <<running, stopped>>
    /\ UNCHANGED <<make, src, held, radio, centre, tstep, buffer, asm, dirty, ended,
                   latePush>>

Refill ==
    /\ rx = "wait" /\ flight # <<>>
    /\ flight' = Tail(flight)
    /\ IF buffer \/ held = "libhackrf"
       THEN /\ hand' = [NoHand EXCEPT !.real = Head(flight)] /\ rx' = "label"
            /\ UNCHANGED <<running, stopped>>
       ELSE RunEnds /\ UNCHANGED hand
    /\ UNCHANGED <<make, src, held, radio, centre, tstep, buffer, asm, dirty, ended,
                   latePush>>

(* The device is unplugged: refill raises, hackrf_is_streaming says no.     *)
DeviceLost ==
    /\ rx = "wait" /\ src \in Threaded
    /\ IF src = "antsdr_iio" THEN RunEnds
       ELSE rx' = "dead" /\ UNCHANGED <<running, stopped>>
    /\ UNCHANGED <<make, src, held, radio, centre, tstep, flight, hand, buffer, asm,
                   dirty, ended, latePush>>

LabelChunk ==
    /\ rx = "label" /\ hand' = [hand EXCEPT !.label = centre] /\ rx' = "push"
    /\ UNCHANGED <<make, src, held, radio, centre, tstep, flight, running, stopped,
                   buffer, asm, dirty, ended, latePush>>

Push ==
    /\ rx = "push"
    /\ asm' = Append(IF Len(asm) = AsmMax THEN Tail(asm) ELSE asm, hand)
    /\ hand' = NoHand /\ rx' = Loop
    /\ latePush' = (latePush \/ src = "closed")
    /\ UNCHANGED <<make, src, held, radio, centre, tstep, flight, running, stopped,
                   buffer, dirty, ended>>

-----------------------------------------------------------------------------
(* The thread that owns the source.                                        *)

Live == src \in Threaded /\ tstep = "idle" /\ ~ended
Current(c) == c.real = centre /\ c.label = centre

ReadWindow ==
    /\ Live /\ asm # <<>>
    /\ asm' = Tail(asm)
    /\ dirty' = IF Current(Head(asm)) \/ dirty > InFlight + 1 THEN dirty ELSE dirty + 1
    /\ UNCHANGED <<make, src, held, radio, centre, tstep, thread, running, stopped,
                   buffer, ended, latePush>>

StillActive == IF src = "libhackrf" THEN running /\ rx # "dead" ELSE running

(* read_window gave None, and the iterator ends.                           *)
WindowsEnd ==
    /\ Live /\ asm = <<>> /\ (stopped \/ ~StillActive)
    /\ ended' = TRUE
    /\ UNCHANGED <<make, src, held, radio, centre, tstep, thread, running, stopped,
                   buffer, asm, dirty, latePush>>

(* tune(): libhackrf sets the radio, then the label; libiio the label, then *)
(* the radio.  Both flush the assembler when that has succeeded.           *)
FirstStep == IF src = "libhackrf" THEN "freq" ELSE "centre"
AfterStep(s) == IF s = FirstStep THEN (IF s = "freq" THEN "centre" ELSE "freq") ELSE "flush"

TuneBegins ==
    /\ Live /\ centre < MaxRetunes /\ ~tuneFailed
    /\ tstep' = FirstStep /\ dirty' = 0
    /\ UNCHANGED <<make, src, held, radio, centre, thread, running, stopped, buffer,
                   asm, ended, latePush>>

TuneRadio ==
    /\ tstep = "freq" /\ tstep' = AfterStep("freq")
    /\ IF src = "libhackrf"
       THEN hw' = centre + 1 /\ UNCHANGED mismatch
       ELSE \E obeys, readable \in BOOLEAN :
              /\ hw' = IF obeys THEN centre ELSE hw
              /\ mismatch' = Mismatch(readable, obeys)
    /\ UNCHANGED <<make, src, held, tuneFailed, centre, thread, running, stopped, buffer,
                   asm, dirty, ended, latePush>>

(* set_freq fails, or the write of the attribute does: tune() raises.      *)
TuneRefused ==
    /\ tstep = "freq"
    /\ tuneFailed' = TRUE /\ tstep' = "idle"
    /\ UNCHANGED <<make, src, held, hw, mismatch, centre, thread, running, stopped,
                   buffer, asm, dirty, ended, latePush>>

TuneLabel ==
    /\ tstep = "centre"
    /\ centre' = centre + 1 /\ tstep' = AfterStep("centre")
    /\ UNCHANGED <<make, src, held, radio, thread, running, stopped, buffer,
                   asm, dirty, ended, latePush>>

Flush ==
    /\ tstep = "flush" /\ tstep' = "idle"
    /\ asm' = <<>>
    /\ UNCHANGED <<make, src, held, radio, centre, thread, running, stopped, buffer,
                   dirty, ended, latePush>>

(* hackrf_transfer: a process that fails, for one because the radio is held *)
(* by a handle that was left open, ends the iterator with an exception.    *)
TransferFails ==
    /\ src = "hackrf_transfer" /\ ~ended
    /\ ended' = TRUE
    /\ UNCHANGED <<make, src, held, radio, centre, tstep, thread, running, stopped,
                   buffer, asm, dirty, latePush>>

(* close(): the flags first.                                               *)
CloseBegins ==
    /\ src \in Registry /\ tstep = "idle" /\ ended' = TRUE /\ src' = "closing"
    /\ running' = FALSE
    /\ stopped' = (stopped \/ held = "antsdr_iio")
    /\ UNCHANGED <<make, held, radio, centre, tstep, thread, buffer, asm, dirty,
                   latePush>>

CloseHackRF ==
    /\ src = "closing" /\ held # "antsdr_iio" /\ rx \in {"off", "wait", "dead"}
    /\ src' = "closed" /\ held' = IF leaked THEN held ELSE "none"
    /\ rx' = IF rx = "off" THEN "off" ELSE "dead"
    /\ flight' = <<>>
    /\ UNCHANGED <<make, radio, centre, tstep, hand, running, stopped, buffer,
                   asm, dirty, ended, latePush>>

(* libiio: join() gives up after five seconds on a thread that is blocked   *)
(* in the device, and the buffer is taken away from it.                    *)
CloseIio ==
    /\ src = "closing" /\ held = "antsdr_iio" /\ rx \in {"open", "wait", "dead"}
    /\ src' = "closed" /\ held' = "none" /\ buffer' = FALSE
    /\ UNCHANGED <<make, radio, centre, tstep, thread, running, stopped,
                   asm, dirty, ended, latePush>>

DirectNext ==
    \/ ProbeFails \/ ProbeOk \/ OpenDevice \/ Configure \/ StartStream \/ ConstructorFails
    \/ RadioFills \/ OpenBuffer \/ OpenBufferFails \/ Refill \/ RunGoesOn \/ RunStops \/ DeviceLost
    \/ LabelChunk \/ Push \/ ReadWindow \/ WindowsEnd
    \/ TuneBegins \/ TuneRadio \/ TuneRefused \/ TuneLabel \/ Flush
    \/ TransferFails \/ CloseBegins \/ CloseHackRF \/ CloseIio

Next ==
    \/ who = "direct" /\ DirectNext /\ UNCHANGED <<who, uhdVars>>
    \/ who = "uhd" /\ UhdNext /\ UNCHANGED <<who, direct>>

(* The thread that owns the source keeps asking for windows.               *)
Spec ==
    /\ Init /\ [][Next]_vars
    /\ WF_vars((ReadWindow \/ WindowsEnd) /\ UNCHANGED <<who, uhdVars>>)
    /\ WF_vars((TuneRadio \/ TuneRefused \/ TuneLabel \/ Flush) /\ UNCHANGED <<who, uhdVars>>)

-----------------------------------------------------------------------------
(* Correctness.                                                            *)

(* tune() of both receivers: after a retune that neither raised nor was     *)
(* reported as a readback mismatch, no more chunks of another frequency, or *)
(* labelled with one, reach the windows than there were buffers in flight  *)
(* and one in the RX thread's hands.                                       *)
RetuneCleansUp ==
    /\ TypeOK
    /\ tstep = "idle" /\ ~tuneFailed /\ ~mismatch /\ src \in Threaded =>
         dirty + Cardinality({i \in DOMAIN asm : ~Current(asm[i])}) <= InFlight + 1

(* make_source and close(): a handle on the radio belongs to the source or  *)
(* to the constructor at work, and after close() there is none and nothing *)
(* more is pushed.  A constructor of libhackrf that failed half-way is the *)
(* exception: it keeps the radio, and no backend but hackrf_transfer, whose *)
(* windows then fail, can be fallen back to.                               *)
HandleIsTheSources ==
    /\ ~latePush
    /\ IF leaked THEN held = "libhackrf" /\ src \notin {"libhackrf", "soapy"}
       ELSE held # "none" => \/ src \in {held, "closing"}
                             \/ src = "none" /\ held = Trying /\ step \in {"configure", "start"}

(* windows(): when the device is lost the iteration ends.  (Not when        *)
(* open_buffer fails: then nothing tells the assembler.)                   *)
LossEndsWindows ==
    (rx = "dead" /\ src \in Threaded /\ (src = "antsdr_iio" => buffer))
      ~> (ended \/ src \notin Threaded)
=============================================================================
