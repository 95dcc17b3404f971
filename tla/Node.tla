-------------------------------- MODULE Node --------------------------------
(***************************************************************************)
(* The 1 Hz box service: the loop of main.run with the per-window pipeline,*)
(* the cue bus filled by the local API, the best-effort uplink, and the    *)
(* on-disk ring of raw IQ that the loop writes while the API reads it.     *)
(*                                                                         *)
(* Time is counted in ticks of one window.  A key of the IQ ring is the    *)
(* capture time of its window, so a key and a time are the same number.    *)
(***************************************************************************)
EXTENDS Integers, Sequences, SequencesExt, FiniteSets

CONSTANTS
    Serials,         \* what the serial of a cue may be, "unknown" included
    BusCap,          \* CueBus: maxlen of the deque
    Retention,       \* IQRing: retention_s
    DedupGap,        \* main.run: a serial is not handled twice within this
    HeartbeatEvery,  \* main.run: seconds between heartbeats
    Epoch,           \* the wall clock when the box is first started
    MaxTime,         \* bound: the wall clock stops here
    MaxLag,          \* bound: how far a live window may be behind the clock
    MaxStops         \* bound: how often the process ends

ASSUME NodeAssumption ==
    /\ BusCap \in Nat \ {0}
    /\ {Retention, DedupGap, HeartbeatEvery, MaxLag, MaxStops} \subseteq Nat
    /\ Epoch \in Nat /\ MaxTime \in Nat /\ Epoch <= MaxTime

VARIABLES
    cfg,      \* the configuration, fixed for a behaviour
    now,      \* time.time()
    pc,       \* where the loop of main.run is
    win,      \* the window the loop holds, with what the pipeline said of it
    verified, \* main.run: active_cue is not None
    bus,      \* CueBus._items
    recent,   \* main.run: recent_cues
    lastBeat, \* main.run: last_heartbeat
    npy,      \* the .npy files of the ring: absent, partly written or whole
    sidecar,  \* the keys whose .json file is there
    cutoff,   \* IQRing.purge: the oldest time that the last purge kept
    doomed,   \* IQRing.purge: keys listed as too old and not yet unlinked
    api,      \* the GET /iq/{key} request being served
    stops,    \* how often the process has ended
    \* history, read by the properties only
    torn      \* keys whose files a stop may have left half written or removed

vars == <<cfg, now, pc, win, verified, bus, recent, lastBeat, npy, sidecar,
          cutoff, doomed, api, stops, torn>>
disk == <<npy, sidecar, cutoff, doomed, torn>>

Keys == 0..MaxTime
NoWindow == [at |-> 0, plausible |-> FALSE, decoded |-> FALSE]
NoRequest == [state |-> "idle", key |-> 0, raced |-> FALSE]

(* config: an unset or empty environment variable means the default, and   *)
(* an unrecognised word means off.                                         *)
EnvFlag(v, default) == IF v \in {"unset", "empty"} THEN default ELSE v = "on"

(* Config.from_env and Uplink.enabled: the flags that the loop reads.      *)
FromEnv(mode4, uplink, replayed) ==
    [mode4 |-> EnvFlag(mode4, TRUE), uplink |-> uplink, replayed |-> replayed]

(* pipeline.process_window: the score band and the morphology gate decoding;*)
(* only an attempt with a good CRC gives a decoded result.                 *)
DecodesWindow(score, morph) ==
    /\ morph # "noise"
    /\ score # "low" \/ morph = "candidate"

ProcessWindow(at, score, morph, crcOk) ==
    [at |-> at, plausible |-> score = "plausible",
     decoded |-> DecodesWindow(score, morph) /\ crcOk]

TypeOK ==
    /\ now \in Keys
    /\ pc \in {"stopped", "window", "cues", "save", "saving", "sidecar",
               "purge", "unlink", "unlinkSidecar", "post"}
    /\ win \in [at : Keys, plausible : BOOLEAN, decoded : BOOLEAN]
    /\ verified \in BOOLEAN
    /\ bus \in Seq(Serials) /\ Len(bus) <= BusCap
    /\ recent \in [Serials -> Keys]
    /\ lastBeat \in Keys
    /\ npy \in [Keys -> {"absent", "partial", "whole"}]
    /\ sidecar \subseteq Keys /\ torn \subseteq Keys
    /\ cutoff \in Int /\ doomed \in Seq(Keys)
    /\ api \in [state : {"idle", "load", "error"},
                key : Keys, raced : BOOLEAN]
    /\ stops \in 0..MaxStops

Init ==
    /\ \E mode4 \in {"empty", "off"}, uplink, replayed \in BOOLEAN :
         cfg = FromEnv(mode4, uplink, replayed)
    /\ now = Epoch /\ pc = "stopped"
    /\ win = NoWindow /\ verified = FALSE
    /\ bus = <<>> /\ recent = [s \in Serials |-> 0] /\ lastBeat = 0
    /\ npy = [k \in Keys |-> "absent"] /\ sidecar = {} /\ cutoff = 0 /\ doomed = <<>>
    /\ api = NoRequest /\ stops = 0 /\ torn = {}

-----------------------------------------------------------------------------
(* The process.                                                            *)

(* main.run before the loop: source, ring, uplink, bus and the API thread. *)
Start ==
    /\ pc = "stopped"
    /\ pc' = "window"
    /\ UNCHANGED <<cfg, now, win, verified, bus, recent, lastBeat, api, stops>>
    /\ UNCHANGED disk

(* An interrupt, a crash or the end of the source: the files stay as they  *)
(* are, everything in memory goes.                                         *)
Stop ==
    /\ pc # "stopped" /\ stops < MaxStops
    /\ pc' = "stopped" /\ stops' = stops + 1
    /\ win' = NoWindow /\ verified' = FALSE
    /\ bus' = <<>> /\ recent' = [s \in Serials |-> 0] /\ lastBeat' = 0
    /\ cutoff' = 0 /\ doomed' = <<>> /\ api' = NoRequest
    /\ torn' = torn \cup (CASE pc \in {"saving", "sidecar"} -> {win.at}
                            [] pc = "unlinkSidecar"         -> {Head(doomed)}
                            [] OTHER                        -> {})
    /\ UNCHANGED <<cfg, now, npy, sidecar>>

Tick ==
    /\ now < MaxTime
    /\ now' = now + 1
    /\ UNCHANGED <<cfg, pc, win, verified, bus, recent, lastBeat, api, stops>>
    /\ UNCHANGED disk

-----------------------------------------------------------------------------
(* The loop of main.run.                                                   *)

(* A live window was captured a little while ago; one replayed from a file *)
(* carries the times of the recording.                                     *)
CaptureTimes ==
    IF ~cfg.replayed THEN {t \in Keys : t > win.at /\ t <= now /\ now - t <= MaxLag}
    ELSE IF win.at = 0 THEN 1..Epoch ELSE {win.at + 1} \cap Keys

TakeWindow ==
    /\ pc = "window"
    /\ \E at \in CaptureTimes, score \in {"low", "medium", "plausible"},
          morph \in {"noise", "candidate"}, crcOk \in BOOLEAN :
         win' = ProcessWindow(at, score, morph, crcOk)
    /\ pc' = "cues" /\ verified' = FALSE
    /\ UNCHANGED <<cfg, now, bus, recent, lastBeat, api, stops>>
    /\ UNCHANGED disk

Fresh(s) == win.at - recent[s] >= DedupGap

(* A failed poll of the server is an empty answer.                         *)
PollOdidCues == IF cfg.uplink THEN {<<>>} \cup {<<s>> : s \in Serials} ELSE {<<>>}

(* Defective: the evidence of a cued window is not kept. *)
KeepsIqUnlessVerified(cued) == (win.plausible \/ win.decoded) /\ cfg.mode4

(* main.run: the raw samples of a window worth evidence are retained.      *)
KeepsIq(cued) == (win.plausible \/ cued \/ win.decoded) /\ cfg.mode4

(* uplink.poll_odid_cues() + bus.drain(): the first cue not handled lately *)
(* verifies the window, and the rest of the batch is forgotten.            *)
GatherCues ==
    /\ pc = "cues"
    /\ \E served \in PollOdidCues :
         LET cues  == served \o bus
             first == SelectInSeq(cues, Fresh)
         IN  IF first = 0
             THEN verified' = FALSE /\ UNCHANGED recent
             ELSE /\ verified' = TRUE
                  /\ recent' = [recent EXCEPT ![cues[first]] = win.at]
    /\ bus' = <<>>
    /\ pc' = IF KeepsIq(verified') THEN "save" ELSE "post"
    /\ UNCHANGED <<cfg, now, win, lastBeat, api, stops>> /\ UNCHANGED disk

(* Whether the request being served is for a file changed while it is.     *)
Race(k) == [api EXCEPT !.raced = @ \/ (api.state = "load" /\ api.key = k)]

(* IQRing.store: np.save creates or truncates the file and then fills it.  *)
SaveBegins ==
    /\ pc = "save"
    /\ npy' = [npy EXCEPT ![win.at] = "partial"]
    /\ api' = Race(win.at) /\ pc' = "saving"
    /\ UNCHANGED <<cfg, now, win, verified, bus, recent, lastBeat, sidecar,
                   cutoff, doomed, stops, torn>>

SaveEnds ==
    /\ pc = "saving"
    /\ npy' = [npy EXCEPT ![win.at] = "whole"] /\ pc' = "sidecar"
    /\ UNCHANGED <<cfg, now, win, verified, bus, recent, lastBeat, sidecar,
                   cutoff, doomed, api, stops, torn>>

WriteSidecar ==
    /\ pc = "sidecar"
    /\ sidecar' = sidecar \cup {win.at} /\ torn' = torn \ {win.at}
    /\ pc' = "purge"
    /\ UNCHANGED <<cfg, now, win, verified, bus, recent, lastBeat, npy, cutoff,
                   doomed, api, stops>>

(* Defective: the purge takes what is exactly as old as the limit. *)
TooOldInclusive(limit) == {k \in Keys : npy[k] # "absent" /\ k <= limit}

(* IQRing.purge: the cutoff is taken from the clock once, before the walk. *)
TooOld(limit) == {k \in Keys : npy[k] # "absent" /\ k < limit}

PurgeLists ==
    /\ pc = "purge"
    /\ cutoff' = now - Retention
    /\ doomed' = SetToSeq(TooOld(cutoff'))
    /\ pc' = IF doomed' = <<>> THEN "post" ELSE "unlink"
    /\ UNCHANGED <<cfg, now, win, verified, bus, recent, lastBeat, npy, sidecar,
                   api, stops, torn>>

UnlinkIq ==
    /\ pc = "unlink"
    /\ npy' = [npy EXCEPT ![Head(doomed)] = "absent"]
    /\ api' = Race(Head(doomed)) /\ pc' = "unlinkSidecar"
    /\ UNCHANGED <<cfg, now, win, verified, bus, recent, lastBeat, sidecar,
                   cutoff, doomed, stops, torn>>

(* Defective: the metadata outlives its samples. *)
UnlinkSidecarNever ==
    /\ pc = "unlinkSidecar"
    /\ doomed' = Tail(doomed)
    /\ pc' = IF Tail(doomed) = <<>> THEN "post" ELSE "unlink"
    /\ UNCHANGED <<cfg, now, win, verified, bus, recent, lastBeat, npy, sidecar,
                   cutoff, api, stops, torn>>

UnlinkSidecar ==
    /\ pc = "unlinkSidecar"
    /\ sidecar' = sidecar \ {Head(doomed)} /\ torn' = torn \ {Head(doomed)}
    /\ doomed' = Tail(doomed)
    /\ pc' = IF Tail(doomed) = <<>> THEN "post" ELSE "unlink"
    /\ UNCHANGED <<cfg, now, win, verified, bus, recent, lastBeat, npy,
                   cutoff, api, stops>>

(* The post is best effort and nothing reads its outcome; the heartbeat's  *)
(* time is taken whether or not the server heard it.                       *)
PostAndBeat ==
    /\ pc = "post"
    /\ lastBeat' = IF cfg.uplink /\ win.at - lastBeat > HeartbeatEvery
                   THEN win.at ELSE lastBeat
    /\ pc' = "window" /\ win' = [NoWindow EXCEPT !.at = win.at]
    /\ verified' = FALSE /\ cutoff' = 0
    /\ UNCHANGED <<cfg, now, bus, recent, npy, sidecar, doomed, api, stops, torn>>

-----------------------------------------------------------------------------
(* The threads of the local API.                                           *)

(* POST /cue and /snapshot: CueBus.push on a deque of bounded length.      *)
PushCue(s) ==
    /\ pc # "stopped"
    /\ bus' = IF Len(bus) = BusCap THEN Append(Tail(bus), s) ELSE Append(bus, s)
    /\ UNCHANGED <<cfg, now, pc, win, verified, recent, lastBeat, api, stops>>
    /\ UNCHANGED disk

(* GET /iq/{key}: IQRing.get looks for the file and then loads it.         *)
GetLooks(k) ==
    /\ pc # "stopped" /\ api.state # "load"
    /\ api' = IF npy[k] = "absent" THEN NoRequest
              ELSE [state |-> "load", key |-> k,
                    raced |-> k \in torn \/ (pc = "saving" /\ k = win.at)]
    /\ UNCHANGED <<cfg, now, pc, win, verified, bus, recent, lastBeat, stops>>
    /\ UNCHANGED disk

GetLoads ==
    /\ api.state = "load"
    /\ api' = IF npy[api.key] = "whole" THEN NoRequest
              ELSE [api EXCEPT !.state = "error", !.key = 0]
    /\ UNCHANGED <<cfg, now, pc, win, verified, bus, recent, lastBeat, stops>>
    /\ UNCHANGED disk

Next ==
    \/ Start \/ Stop \/ Tick
    \/ TakeWindow \/ GatherCues
    \/ SaveBegins \/ SaveEnds \/ WriteSidecar
    \/ PurgeLists \/ UnlinkIq \/ UnlinkSidecar \/ PostAndBeat
    \/ \E s \in Serials : PushCue(s)
    \/ \E k \in Keys : GetLooks(k)
    \/ GetLoads

Spec == Init /\ [][Next]_vars

-----------------------------------------------------------------------------
(* Correctness.                                                            *)

InHand == CASE pc \in {"saving", "sidecar"} -> {win.at}
            [] pc = "unlinkSidecar"         -> {Head(doomed)}
            [] OTHER                        -> {}

FilesConsistent ==
    \A k \in Keys \ (torn \cup InHand) :
       npy[k] # "partial" /\ (npy[k] = "whole" <=> k \in sidecar)
FetchFailsOnlyInRace == api.state = "error" => api.raced

(* IQRing and GET /iq/{key}: outside a store or a purge, and unless a stop  *)
(* fell into one, the raw samples and their metadata are there together,   *)
(* and whole; and a request fails instead of answering only if the loop    *)
(* wrote or removed the file meanwhile, or a stop had torn it.             *)
EvidenceReadable ==
    /\ TypeOK
    /\ FilesConsistent
    /\ FetchFailsOnlyInRace

EvidenceKept ==
    [][\A k \in Keys :
         npy[k] = "whole" /\ k >= now - Retention /\ npy[k]' # "whole"
           => pc = "save" /\ win.at = k]_vars
PurgedOnWrite ==
    [][(pc \in {"purge", "unlinkSidecar"} /\ pc' = "post")
         => \A k \in Keys : npy[k]' # "absent" => k >= cutoff']_vars

(* IQRing.purge against store: no step takes away raw samples that are     *)
(* still inside the retention time, except to write the same window again; *)
(* and when a store is over, nothing older than the cutoff of its purge is *)
(* left, the window just stored included.                                  *)
RetentionKept == EvidenceKept /\ PurgedOnWrite

(* main.run: a report that says a cue verified the window leaves the node   *)
(* with the raw samples on disk, unless the window was older than the      *)
(* retention time when it was stored.                                      *)
VerifiedHasEvidence ==
    pc = "post" /\ verified /\ cfg.mode4 /\ win.at >= cutoff => npy[win.at] = "whole"

=============================================================================
