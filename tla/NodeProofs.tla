------------------------------ MODULE NodeProofs ------------------------------
(***************************************************************************)
(* The evidence of the detection node, for every retention time, bound on  *)
(* the cue bus, lag of the live windows and number of restarts: what the   *)
(* ring of raw IQ keeps and removes, what a request for it may find, and   *)
(* what a verified report leaves on disk.  Then the node's computations    *)
(* that touch no state it shares (Offline): the verdict of a run, the      *)
(* hopping of a radio, and the verdicts on a classifier.                   *)
(***************************************************************************)
EXTENDS Node, Offline, FiniteSetTheorems, SequenceTheorems, WellFoundedInduction, TLAPS
-----------------------------------------------------------------------------
(* The inductive invariant.                                                *)

Purging == pc \in {"unlink", "unlinkSidecar"}

ConfigOK == cfg \in [mode4 : BOOLEAN, uplink : BOOLEAN, replayed : BOOLEAN]

(* The purge has listed all that is older than its cutoff and still there, *)
(* and nothing else; time only makes the cutoff more generous.             *)
PurgeListed ==
  /\ Purging <=> doomed # <<>>
  /\ Purging =>
       /\ cutoff <= now - Retention
       /\ \A i \in DOMAIN doomed : doomed[i] < cutoff
       /\ \A k \in Keys : npy[k] # "absent" /\ k < cutoff =>
            \E i \in DOMAIN doomed : doomed[i] = k

(* Between the two files of a store, and of a removal, the first is done.  *)
FirstFileDone ==
  /\ pc = "sidecar" => npy[win.at] = "whole"
  /\ pc = "unlinkSidecar" => npy[Head(doomed)] = "absent"

(* The window just stored outlives its own purge if it is recent enough.   *)
StoredIsKept ==
  /\ pc = "purge" => npy[win.at] = "whole"
  /\ Purging /\ win.at >= cutoff => npy[win.at] = "whole"

(* A request that found its file will load it, or has been overtaken.      *)
FetchSeen == api.state = "load" => npy[api.key] = "whole" \/ api.raced

NodeInv ==
  /\ TypeOK
  /\ ConfigOK
  /\ PurgeListed
  /\ FirstFileDone
  /\ StoredIsKept
  /\ FilesConsistent
  /\ FetchSeen
  /\ FetchFailsOnlyInRace
  /\ VerifiedHasEvidence

USE NodeAssumption DEF Keys, disk

-----------------------------------------------------------------------------
(* SetToSeq of the community modules lists a finite set, and all of it.    *)
LEMMA SetToSeqLists ==
  ASSUME NEW S, IsFiniteSet(S)
  PROVE  /\ SetToSeq(S) \in Seq(S)
         /\ \A x \in S : \E i \in DOMAIN SetToSeq(S) : SetToSeq(S)[i] = x
<1> DEFINE n == Cardinality(S)
           f == SetToSeq(S)
<1>1. n \in Nat /\ ExistsBijection(1 .. n, S)
  BY FS_CardinalityType
<1>2. PICK g : g \in Bijection(1 .. n, S)
  BY <1>1 DEF ExistsBijection
<1>3. g \in [1 .. n -> S] /\ IsInjective(g)
  BY <1>2, Zenon DEF Bijection, Injection, IsInjective
<1>4. f \in [1 .. n -> S] /\ IsInjective(f)
  BY <1>3, Zenon DEF SetToSeq
<1>5. f \in Injection(1 .. n, S)
  BY <1>4, Zenon DEF Injection, IsInjective
<1>6. IsFiniteSet(1 .. n) /\ Cardinality(1 .. n) = n
  BY <1>1, FS_Interval
<1>7. f \in Surjection(1 .. n, S)
  BY <1>5, <1>6, FS_Injection
<1>8. \A x \in S : \E i \in 1 .. n : f[i] = x
  BY <1>7, Zenon DEF Surjection
<1>9. DOMAIN f = 1 .. n
  BY <1>4
<1>10. f \in Seq(S)
  BY <1>1, <1>4
<1> QED
  BY <1>8, <1>9, <1>10

LEMMA InitNode == Init => NodeInv
<1> SUFFICES ASSUME Init PROVE NodeInv
  OBVIOUS
<1>1. TypeOK
  <2>1. NoWindow \in [at : Keys, plausible : BOOLEAN, decoded : BOOLEAN]
    BY DEF NoWindow
  <2>2. NoRequest \in [state : {"idle", "load", "error"}, key : Keys, raced : BOOLEAN]
    BY DEF NoRequest
  <2>3. /\ win \in [at : Keys, plausible : BOOLEAN, decoded : BOOLEAN]
        /\ api \in [state : {"idle", "load", "error"}, key : Keys, raced : BOOLEAN]
    BY <2>1, <2>2 DEF Init
  <2>4. verified \in BOOLEAN
    BY Zenon DEF Init
  <2>5. /\ now \in Keys /\ lastBeat \in Keys /\ recent \in [Serials -> Keys]
        /\ npy \in [Keys -> {"absent", "partial", "whole"}]
    BY DEF Init
  <2> QED
    BY <2>3, <2>4, <2>5 DEF Init, TypeOK
<1>2. ConfigOK
  <2>1. PICK mode4 \in {"empty", "off"}, uplink \in BOOLEAN, replayed \in BOOLEAN :
          cfg = FromEnv(mode4, uplink, replayed)
    BY Zenon DEF Init
  <2>2. EnvFlag(mode4, TRUE) \in BOOLEAN
    <3>1. CASE mode4 = "empty"
      BY <3>1, Zenon DEF EnvFlag
    <3>2. CASE mode4 = "off"
      BY <3>2, Zenon DEF EnvFlag
    <3> QED
      BY <3>1, <3>2
  <2> QED
    BY <2>1, <2>2, Zenon DEF ConfigOK, FromEnv
<1>3. PurgeListed /\ FirstFileDone /\ StoredIsKept
  BY DEF Init, PurgeListed, FirstFileDone, StoredIsKept, Purging
<1>4. FilesConsistent /\ FetchSeen /\ FetchFailsOnlyInRace /\ VerifiedHasEvidence
  BY DEF Init, FilesConsistent, FetchSeen, FetchFailsOnlyInRace, VerifiedHasEvidence,
         NoRequest
<1> QED
  BY <1>1, <1>2, <1>3, <1>4 DEF NodeInv

(***************************************************************************)
(* Types.  Each conjunct names the actions that touch it.                  *)
(***************************************************************************)
Request == [state : {"idle", "load", "error"}, key : Keys, raced : BOOLEAN]

LEMMA RaceType ==
  ASSUME TypeOK, NEW k \in Keys
  PROVE  Race(k) \in Request
<1>1. api \in Request
  BY DEF TypeOK, Request
<1>2. api.state \in {"idle", "load", "error"} /\ api.key \in Keys
  BY <1>1 DEF Request
<1>3. (api.raced \/ (api.state = "load" /\ api.key = k)) \in BOOLEAN
  OBVIOUS
<1> QED
  BY <1>1, <1>2, <1>3 DEF Race, Request

LEMMA ApiType ==
  ASSUME TypeOK, PurgeListed, Next
  PROVE  api' \in Request
<1>0. api \in Request /\ NoRequest \in Request
  BY DEF TypeOK, Request, NoRequest
<1>1. win.at \in Keys
  BY DEF TypeOK
<1>2. pc = "unlink" => Head(doomed) \in Keys
  <2>1. doomed \in Seq(Keys)
    BY DEF TypeOK
  <2>2. pc = "unlink" => doomed # <<>>
    BY Zenon DEF PurgeListed, Purging
  <2> QED
    BY <2>1, <2>2
<1>3. CASE SaveBegins \/ UnlinkIq
  BY <1>1, <1>2, <1>3, RaceType DEF SaveBegins, UnlinkIq
<1>4. CASE \E k \in Keys : GetLooks(k)
  <2>1. PICK k \in Keys : GetLooks(k)
    BY <1>4
  <2>2. (k \in torn \/ (pc = "saving" /\ k = win.at)) \in BOOLEAN
    OBVIOUS
  <2>3. [state |-> "load", key |-> k,
         raced |-> k \in torn \/ (pc = "saving" /\ k = win.at)] \in Request
    BY <2>2 DEF Request
  <2> QED
    BY <2>1, <2>3, <1>0 DEF GetLooks
<1>5. CASE GetLoads
  <2>1. [api EXCEPT !.state = "error", !.key = 0] \in Request
    <3> DEFINE r == [api EXCEPT !.state = "error"]
    <3>1. r \in Request
      BY <1>0 DEF Request
    <3>2. 0 \in Keys
      OBVIOUS
    <3>3. \A q \in Request, k \in Keys : [q EXCEPT !.key = k] \in Request
      BY DEF Request
    <3>4. [r EXCEPT !.key = 0] \in Request
      BY <3>1, <3>2, <3>3
    <3>5. [r EXCEPT !.key = 0] = [api EXCEPT !.state = "error", !.key = 0]
      OBVIOUS
    <3> QED
      BY <3>4, <3>5
  <2> QED
    BY <2>1, <1>0, <1>5, Zenon DEF GetLoads
<1>6. CASE Stop
  BY <1>0, <1>6 DEF Stop
<1>7. CASE api' = api
  BY <1>0, <1>7
<1> QED
  BY <1>3, <1>4, <1>5, <1>6, <1>7, Zenon
     DEF Next, Start, Tick, TakeWindow, GatherCues, SaveEnds, WriteSidecar,
         PurgeLists, UnlinkSidecar, PostAndBeat, PushCue

LEMMA WindowType ==
  ASSUME TypeOK, ConfigOK, Next
  PROVE  /\ win' \in [at : Keys, plausible : BOOLEAN, decoded : BOOLEAN]
         /\ verified' \in BOOLEAN
         /\ ConfigOK'
<1> DEFINE W == [at : Keys, plausible : BOOLEAN, decoded : BOOLEAN]
<1>0. win \in W /\ win.at \in Keys /\ verified \in BOOLEAN
  BY Zenon DEF TypeOK
<1>01. win.at \in Keys
  BY <1>0
<1>1. CASE TakeWindow
  <2>1. PICK at \in CaptureTimes, score \in {"low", "medium", "plausible"},
             morph \in {"noise", "candidate"}, crcOk \in BOOLEAN :
          win' = ProcessWindow(at, score, morph, crcOk)
    BY <1>1, Zenon DEF TakeWindow
  <2>2. at \in Keys
    BY <2>1 DEF CaptureTimes
  <2>3. (score = "plausible") \in BOOLEAN /\ (DecodesWindow(score, morph) /\ crcOk) \in BOOLEAN
    BY Zenon
  <2>4. ProcessWindow(at, score, morph, crcOk) \in W
    BY <2>2, <2>3, Zenon DEF ProcessWindow
  <2> QED
    BY <2>1, <2>4, <1>1, Zenon DEF TakeWindow, ConfigOK
<1>2. CASE GatherCues
  <2>1. verified' \in BOOLEAN
    BY <1>2, Zenon DEF GatherCues
  <2> QED
    BY <2>1, <1>2, <1>0, Zenon DEF GatherCues, ConfigOK
<1>3. CASE PostAndBeat \/ Stop
  <2>0. \A w \in W, k \in Keys : [w EXCEPT !.at = k] \in W
    OBVIOUS
  <2>1. NoWindow \in W
    BY DEF NoWindow
  <2>2. [NoWindow EXCEPT !.at = win.at] \in W
    BY <2>0, <2>1, <1>01, Zenon
  <2> QED
    BY <2>1, <2>2, <1>3, Zenon DEF PostAndBeat, Stop, ConfigOK
<1>4. CASE UNCHANGED <<cfg, win, verified>>
  BY <1>0, <1>4, Zenon DEF ConfigOK
<1> QED
  BY <1>1, <1>2, <1>3, <1>4, Zenon
     DEF Next, Start, Tick, SaveBegins, SaveEnds, WriteSidecar, PurgeLists, UnlinkIq,
         UnlinkSidecar, PushCue, GetLooks, GetLoads

LEMMA CuesType ==
  ASSUME TypeOK, ConfigOK, Next
  PROVE  /\ bus' \in Seq(Serials) /\ Len(bus') <= BusCap
         /\ recent' \in [Serials -> Keys]
         /\ lastBeat' \in Keys
         /\ now' \in Keys /\ now <= now' /\ stops' \in 0..MaxStops
<1>0. /\ bus \in Seq(Serials) /\ Len(bus) <= BusCap /\ recent \in [Serials -> Keys]
      /\ lastBeat \in Keys /\ now \in Keys /\ stops \in 0..MaxStops
      /\ win.at \in Keys
  BY DEF TypeOK
<1>1. CASE GatherCues
  <2>1. recent' = recent \/ \E s : recent' = [recent EXCEPT ![s] = win.at]
    BY <1>1, Zenon DEF GatherCues
  <2>2. recent' \in [Serials -> Keys]
    BY <2>1, <1>0
  <2> QED
    BY <2>2, <1>0, <1>1 DEF GatherCues
<1>2. CASE \E s \in Serials : PushCue(s)
  <2>1. PICK s \in Serials : PushCue(s)
    BY <1>2
  <2>2. CASE Len(bus) = BusCap
    <3>1. bus # <<>> /\ Tail(bus) \in Seq(Serials) /\ Len(Tail(bus)) = Len(bus) - 1
      BY <1>0, <2>2
    <3>2. bus' = Append(Tail(bus), s)
      BY <2>1, <2>2 DEF PushCue
    <3>3. bus' \in Seq(Serials) /\ Len(bus') = Len(bus)
      BY <3>1, <3>2
    <3> QED
      BY <3>3, <2>1, <1>0 DEF PushCue
  <2>3. CASE Len(bus) # BusCap
    BY <1>0, <2>1, <2>3 DEF PushCue
  <2> QED
    BY <2>2, <2>3
<1>3. CASE Tick \/ PostAndBeat \/ Stop
  <2>1. CASE Tick
    BY <1>0, <2>1 DEF Tick
  <2>2. CASE PostAndBeat
    BY <1>0, <2>2 DEF PostAndBeat
  <2>3. CASE Stop
    <3>1. <<>> \in Seq(Serials) /\ Len(<<>>) = 0
      OBVIOUS
    <3>2. bus' = <<>> /\ lastBeat' = 0 /\ now' = now
      BY <2>3 DEF Stop
    <3>3. recent' \in [Serials -> Keys]
      BY <2>3 DEF Stop
    <3>4. stops' \in 0..MaxStops
      BY <1>0, <2>3 DEF Stop
    <3> QED
      BY <3>1, <3>2, <3>3, <3>4, <1>0
  <2> QED
    BY <2>1, <2>2, <2>3, <1>3
<1>4. CASE UNCHANGED <<bus, recent, lastBeat, now, stops>>
  BY <1>0, <1>4
<1> QED
  BY <1>1, <1>2, <1>3, <1>4, Zenon
     DEF Next, Start, TakeWindow, SaveBegins, SaveEnds, WriteSidecar, PurgeLists, UnlinkIq,
         UnlinkSidecar, GetLooks, GetLoads

LEMMA DiskType ==
  ASSUME TypeOK, PurgeListed, Next
  PROVE  /\ npy' \in [Keys -> {"absent", "partial", "whole"}]
         /\ sidecar' \subseteq Keys /\ torn' \subseteq Keys
         /\ cutoff' \in Int /\ doomed' \in Seq(Keys)
         /\ pc' \in {"stopped", "window", "cues", "save", "saving", "sidecar",
                     "purge", "unlink", "unlinkSidecar", "post"}
<1>0. /\ npy \in [Keys -> {"absent", "partial", "whole"}]
      /\ sidecar \subseteq Keys /\ torn \subseteq Keys
      /\ cutoff \in Int /\ doomed \in Seq(Keys) /\ win.at \in Keys /\ now \in Int
      /\ pc \in {"stopped", "window", "cues", "save", "saving", "sidecar",
                 "purge", "unlink", "unlinkSidecar", "post"}
  BY DEF TypeOK
<1>1. Purging => doomed # <<>>
  BY DEF PurgeListed
<1>2. Purging => Head(doomed) \in Keys /\ Tail(doomed) \in Seq(Keys)
  BY <1>0, <1>1
<1>3. CASE PurgeLists
  <2>1. cutoff' \in Int
    BY <1>0, <1>3 DEF PurgeLists
  <2>2. IsFiniteSet(TooOld(cutoff')) /\ TooOld(cutoff') \subseteq Keys
    <3>1. IsFiniteSet(Keys)
      BY FS_Interval
    <3>2. TooOld(cutoff') \in SUBSET Keys
      BY DEF TooOld
    <3> QED
      BY <3>1, <3>2, FS_Subset
  <2>3. doomed' \in Seq(TooOld(cutoff'))
    BY <2>2, <1>3, SetToSeqLists, Zenon DEF PurgeLists
  <2>4. doomed' \in Seq(Keys)
    BY <2>2, <2>3
  <2> QED
    BY <2>1, <2>4, <1>0, <1>3 DEF PurgeLists
<1>4. CASE SaveBegins \/ SaveEnds \/ WriteSidecar
  BY <1>0, <1>4 DEF SaveBegins, SaveEnds, WriteSidecar
<1>5. CASE UnlinkIq \/ UnlinkSidecar
  BY <1>0, <1>2, <1>5 DEF UnlinkIq, UnlinkSidecar, Purging
<1>6. CASE Stop
  <2>1. torn' \subseteq Keys
    BY <1>0, <1>2, <1>6 DEF Stop, Purging
  <2> QED
    BY <2>1, <1>0, <1>6 DEF Stop
<1>7. CASE Start \/ TakeWindow \/ GatherCues \/ PostAndBeat
  BY <1>0, <1>7 DEF Start, TakeWindow, GatherCues, PostAndBeat
<1>8. CASE UNCHANGED <<disk, pc>>
  BY <1>0, <1>8
<1> QED
  BY <1>3, <1>4, <1>5, <1>6, <1>7, <1>8, Zenon
     DEF Next, Tick, PushCue, GetLooks, GetLoads

LEMMA TypeStep == TypeOK /\ ConfigOK /\ PurgeListed /\ Next => TypeOK' /\ ConfigOK'
  BY ApiType, WindowType, CuesType, DiskType DEF TypeOK, Request

(***************************************************************************)
(* The purge.                                                              *)
(***************************************************************************)
LEMMA PurgeListsAll ==
  ASSUME TypeOK, PurgeLists
  PROVE  /\ cutoff' = now - Retention
         /\ \A i \in DOMAIN doomed' : doomed'[i] < cutoff'
         /\ \A k \in Keys : npy[k] # "absent" /\ k < cutoff' =>
              \E i \in DOMAIN doomed' : doomed'[i] = k
<1>1. IsFiniteSet(TooOld(cutoff'))
  <2>1. IsFiniteSet(Keys)
    BY FS_Interval
  <2>2. TooOld(cutoff') \in SUBSET Keys
    BY DEF TooOld
  <2> QED
    BY <2>1, <2>2, FS_Subset
<1>2. doomed' = SetToSeq(TooOld(cutoff')) /\ cutoff' = now - Retention
  BY DEF PurgeLists
<1>3. /\ doomed' \in Seq(TooOld(cutoff'))
      /\ \A k \in TooOld(cutoff') : \E i \in DOMAIN doomed' : doomed'[i] = k
  BY <1>1, <1>2, SetToSeqLists, Zenon
<1>4. \A i \in DOMAIN doomed' : doomed'[i] \in TooOld(cutoff')
  BY <1>3
<1> QED
  BY <1>2, <1>3, <1>4 DEF TooOld

LEMMA PurgeStep == NodeInv /\ Next => PurgeListed'
<1> SUFFICES ASSUME NodeInv, Next PROVE PurgeListed'
  OBVIOUS
<1> USE DEF Purging
<1>0. /\ TypeOK /\ PurgeListed /\ FirstFileDone
      /\ npy \in [Keys -> {"absent", "partial", "whole"}]
      /\ doomed \in Seq(Keys) /\ cutoff \in Int /\ now \in Int
  BY DEF NodeInv, TypeOK
<1>1. CASE PurgeLists
  <2>1. /\ cutoff' = now - Retention
        /\ \A i \in DOMAIN doomed' : doomed'[i] < cutoff'
        /\ \A k \in Keys : npy[k] # "absent" /\ k < cutoff' =>
             \E i \in DOMAIN doomed' : doomed'[i] = k
    BY <1>0, <1>1, PurgeListsAll
  <2>2. /\ now' = now /\ npy' = npy
        /\ pc' = IF doomed' = <<>> THEN "post" ELSE "unlink"
    BY <1>1 DEF PurgeLists
  <2> QED
    BY <2>1, <2>2, <1>0 DEF PurgeListed
<1>2. CASE UnlinkIq
  BY <1>0, <1>2 DEF UnlinkIq, PurgeListed
<1>3. CASE UnlinkSidecar
  <2>1. /\ doomed' = Tail(doomed) /\ npy' = npy /\ now' = now /\ cutoff' = cutoff
        /\ pc = "unlinkSidecar" /\ pc' = IF Tail(doomed) = <<>> THEN "post" ELSE "unlink"
    BY <1>3 DEF UnlinkSidecar
  <2>2. /\ doomed # <<>> /\ npy[doomed[1]] = "absent"
        /\ Len(doomed') = Len(doomed) - 1 /\ Len(doomed) \in Nat
        /\ DOMAIN doomed = 1 .. Len(doomed) /\ DOMAIN doomed' = 1 .. Len(doomed) - 1
        /\ \A i \in 1 .. Len(doomed) - 1 : doomed'[i] = doomed[i + 1]
    BY <2>1, <1>0 DEF PurgeListed, FirstFileDone
  <2>3. \A i \in DOMAIN doomed' : doomed'[i] < cutoff'
    <3> SUFFICES ASSUME NEW i \in DOMAIN doomed' PROVE doomed'[i] < cutoff'
      OBVIOUS
    <3>1. i + 1 \in DOMAIN doomed /\ doomed'[i] = doomed[i + 1]
      BY <2>2
    <3> QED
      BY <3>1, <2>1, <1>0 DEF PurgeListed
  <2>4. ASSUME NEW k \in Keys, npy[k] # "absent", k < cutoff
        PROVE  \E i \in DOMAIN doomed' : doomed'[i] = k
    <3>1. PICK i \in DOMAIN doomed : doomed[i] = k
      BY <2>1, <2>4, <1>0 DEF PurgeListed
    <3>2. i # 1
      BY <3>1, <2>2, <2>4
    <3>3. i - 1 \in 1 .. Len(doomed) - 1 /\ (i - 1) + 1 = i
      BY <3>1, <3>2, <2>2
    <3>4. i - 1 \in DOMAIN doomed' /\ doomed'[i - 1] = k
      BY <3>3, <3>1, <2>2
    <3> QED
      BY <3>4
  <2>5. (Purging)' <=> (doomed # <<>>)'
    BY <2>1
  <2> QED
    BY <2>1, <2>3, <2>4, <2>5, <1>0 DEF PurgeListed
<1>4. CASE Stop
  BY <1>4 DEF Stop, PurgeListed
<1>5. CASE Tick
  BY <1>0, <1>5 DEF Tick, PurgeListed
<1>6. CASE SaveBegins \/ SaveEnds \/ WriteSidecar
  BY <1>0, <1>6 DEF SaveBegins, SaveEnds, WriteSidecar, PurgeListed
<1>7. CASE Start \/ TakeWindow \/ GatherCues \/ PostAndBeat
  BY <1>0, <1>7 DEF Start, TakeWindow, GatherCues, PostAndBeat, PurgeListed
<1>8. CASE UNCHANGED <<disk, pc, now>>
  BY <1>0, <1>8 DEF PurgeListed
<1> QED
  BY <1>1, <1>2, <1>3, <1>4, <1>5, <1>6, <1>7, <1>8, Zenon
     DEF Next, PushCue, GetLooks, GetLoads

(***************************************************************************)
(* The files.                                                              *)
(***************************************************************************)
LEMMA FirstFileStep == NodeInv /\ Next => FirstFileDone' /\ StoredIsKept'
<1> SUFFICES ASSUME NodeInv, Next PROVE FirstFileDone' /\ StoredIsKept'
  OBVIOUS
<1> USE DEF Purging, FirstFileDone, StoredIsKept
<1>0. /\ TypeOK /\ PurgeListed /\ FirstFileDone /\ StoredIsKept
      /\ npy \in [Keys -> {"absent", "partial", "whole"}]
      /\ doomed \in Seq(Keys) /\ cutoff \in Int /\ now \in Int /\ win.at \in Keys
  BY DEF NodeInv, TypeOK
<1>1. CASE PurgeLists
  BY <1>0, <1>1 DEF PurgeLists
<1>2. CASE UnlinkIq
  <2>1. Head(doomed) \in Keys /\ Head(doomed) < cutoff
    BY <1>0, <1>2 DEF UnlinkIq, PurgeListed
  <2> QED
    BY <2>1, <1>0, <1>2 DEF UnlinkIq
<1>3. CASE UnlinkSidecar
  BY <1>0, <1>3 DEF UnlinkSidecar
<1>4. CASE Stop
  BY <1>4 DEF Stop
<1>5. CASE SaveBegins \/ SaveEnds \/ WriteSidecar
  BY <1>0, <1>5 DEF SaveBegins, SaveEnds, WriteSidecar
<1>6. CASE Start \/ TakeWindow \/ GatherCues \/ PostAndBeat
  BY <1>0, <1>6 DEF Start, TakeWindow, GatherCues, PostAndBeat
<1>7. CASE UNCHANGED <<disk, pc, win>>
  BY <1>0, <1>7
<1> QED
  BY <1>1, <1>2, <1>3, <1>4, <1>5, <1>6, <1>7, Zenon
     DEF Next, Tick, PushCue, GetLooks, GetLoads

LEMMA InHandIs ==
  /\ pc \in {"saving", "sidecar"} => InHand = {win.at}
  /\ pc = "unlinkSidecar" => InHand = {Head(doomed)}
  /\ pc \notin {"saving", "sidecar", "unlinkSidecar"} => InHand = {}
  BY DEF InHand

LEMMA InHandWillBe ==
  /\ pc' \in {"saving", "sidecar"} => InHand' = {(win.at)'}
  /\ pc' = "unlinkSidecar" => InHand' = {Head(doomed')}
  /\ pc' \notin {"saving", "sidecar", "unlinkSidecar"} => InHand' = {}
  BY DEF InHand

LEMMA FilesStep == NodeInv /\ Next => FilesConsistent'
<1> SUFFICES ASSUME NodeInv, Next PROVE FilesConsistent'
  OBVIOUS
<1> USE DEF FilesConsistent
<1>0. /\ FirstFileDone /\ FilesConsistent
      /\ npy \in [Keys -> {"absent", "partial", "whole"}] /\ win.at \in Keys
  BY DEF NodeInv, TypeOK
<1>1. CASE SaveBegins
  BY <1>0, <1>1, InHandIs, InHandWillBe DEF SaveBegins
<1>2. CASE SaveEnds
  BY <1>0, <1>2, InHandIs, InHandWillBe DEF SaveEnds
<1>3. CASE WriteSidecar
  BY <1>0, <1>3, InHandIs, InHandWillBe DEF WriteSidecar, FirstFileDone
<1>4. CASE PurgeLists
  BY <1>0, <1>4, InHandIs, InHandWillBe DEF PurgeLists
<1>5. CASE UnlinkIq
  BY <1>0, <1>5, InHandIs, InHandWillBe DEF UnlinkIq
<1>6. CASE UnlinkSidecar
  BY <1>0, <1>6, InHandIs, InHandWillBe DEF UnlinkSidecar, FirstFileDone
<1>7. CASE Stop
  BY <1>0, <1>7, InHandIs, InHandWillBe DEF Stop
<1>8. CASE Start \/ TakeWindow \/ GatherCues \/ PostAndBeat
  BY <1>0, <1>8, InHandIs, InHandWillBe DEF Start, TakeWindow, GatherCues, PostAndBeat
<1>9. CASE UNCHANGED <<disk, pc, win>>
  <2>1. UNCHANGED <<npy, sidecar, torn>> /\ InHand' = InHand
    BY <1>9, InHandIs, InHandWillBe
  <2> QED
    BY <2>1, <1>0
<1> QED
  BY <1>1, <1>2, <1>3, <1>4, <1>5, <1>6, <1>7, <1>8, <1>9, Zenon
     DEF Next, Tick, PushCue, GetLooks, GetLoads

(***************************************************************************)
(* The requests.  A request that goes on while the loop touches its file   *)
(* is marked by Race; one that begins then is marked when it looks.        *)
(***************************************************************************)
LEMMA RaceIs ==
  ASSUME TypeOK, NEW k \in Keys
  PROVE  /\ Race(k).state = api.state /\ Race(k).key = api.key
         /\ api.raced => Race(k).raced
         /\ api.state = "load" /\ api.key = k => Race(k).raced
<1>1. api \in Request
  BY DEF TypeOK, Request
<1>2. Race(k).raced <=> api.raced \/ (api.state = "load" /\ api.key = k)
  BY <1>1 DEF Race, Request
<1>3. Race(k).state = api.state /\ Race(k).key = api.key
  BY <1>1 DEF Race, Request
<1> QED
  BY <1>2, <1>3, Zenon

LEMMA LookIsSound ==
  ASSUME NodeInv, NEW k \in Keys, npy[k] # "absent", k \notin torn,
         ~(pc = "saving" /\ k = win.at)
  PROVE  npy[k] = "whole"
<1>1. npy[k] \in {"absent", "partial", "whole"}
  BY DEF NodeInv, TypeOK
<1>2. CASE k \in InHand
  BY <1>2, InHandIs DEF NodeInv, FirstFileDone
<1>3. CASE k \notin InHand
  BY <1>1, <1>3 DEF NodeInv, FilesConsistent
<1> QED
  BY <1>2, <1>3

LEMMA FetchStep == NodeInv /\ Next => FetchSeen' /\ FetchFailsOnlyInRace'
<1> SUFFICES ASSUME NodeInv, Next PROVE FetchSeen' /\ FetchFailsOnlyInRace'
  OBVIOUS
<1> USE DEF FetchSeen, FetchFailsOnlyInRace
<1>0. /\ TypeOK /\ FetchSeen /\ FetchFailsOnlyInRace /\ FirstFileDone /\ PurgeListed
      /\ npy \in [Keys -> {"absent", "partial", "whole"}] /\ win.at \in Keys
      /\ api \in Request /\ api.key \in Keys
  BY DEF NodeInv, TypeOK, Request
<1>1. ASSUME NEW k \in Keys, api' = Race(k), \A j \in Keys \ {k} : npy'[j] = npy[j]
      PROVE  FetchSeen' /\ FetchFailsOnlyInRace'
  <2>1. /\ api'.state = api.state /\ api'.key = api.key
        /\ api.raced => api'.raced
        /\ api.state = "load" /\ api.key = k => api'.raced
    BY <1>0, <1>1, RaceIs
  <2>2. FetchFailsOnlyInRace'
    BY <2>1, <1>0, Zenon
  <2>3. CASE api.key = k
    BY <2>1, <2>2, <2>3, Zenon
  <2>4. CASE api.key # k
    <3>1. npy'[api.key] = npy[api.key]
      BY <2>4, <1>0, <1>1
    <3> QED
      BY <3>1, <2>1, <2>2, <1>0, Zenon
  <2> QED
    BY <2>3, <2>4
<1>2. CASE SaveBegins
  BY <1>0, <1>1, <1>2 DEF SaveBegins
<1>3. CASE UnlinkIq
  <2>1. Head(doomed) \in Keys
    <3>1. doomed \in Seq(Keys)
      BY <1>0 DEF TypeOK
    <3>2. doomed # <<>>
      BY <1>0, <1>3 DEF UnlinkIq, PurgeListed, Purging
    <3> QED
      BY <3>1, <3>2
  <2> QED
    BY <2>1, <1>0, <1>1, <1>3 DEF UnlinkIq
<1>4. CASE SaveEnds
  <2>1. npy'[api.key] = npy[api.key] \/ npy'[api.key] = "whole"
    BY <1>0, <1>4 DEF SaveEnds
  <2>2. api' = api
    BY <1>4 DEF SaveEnds
  <2> QED
    BY <2>1, <2>2, <1>0, Zenon
<1>5. CASE \E k \in Keys : GetLooks(k)
  <2>1. PICK k \in Keys : GetLooks(k)
    BY <1>5
  <2> DEFINE seen == k \in torn \/ (pc = "saving" /\ k = win.at)
  <2>2. npy' = npy
    BY <2>1 DEF GetLooks, disk
  <2>3. CASE npy[k] = "absent"
    <3>1. api' = NoRequest
      BY <2>1, <2>3, Zenon DEF GetLooks
    <3>2. NoRequest.state = "idle"
      BY DEF NoRequest
    <3> QED
      BY <3>1, <3>2
  <2>4. CASE npy[k] # "absent"
    <3>1. api' = [state |-> "load", key |-> k, raced |-> seen]
      BY <2>1, <2>4, Zenon DEF GetLooks
    <3>2. api'.state = "load" /\ api'.key = k
      BY <3>1
    <3>3. api'.raced <=> seen
      BY <3>1
    <3>4. npy[k] = "whole" \/ seen
      BY <2>4, LookIsSound
    <3>5. api'.state # "error"
      BY <3>2
    <3> QED
      BY <3>2, <3>3, <3>4, <3>5, <2>2, Zenon
  <2> QED
    BY <2>3, <2>4
<1>6. CASE GetLoads
  <2>1. CASE npy[api.key] = "whole"
    <3>1. api' = NoRequest /\ NoRequest.state = "idle"
      BY <1>6, <2>1 DEF GetLoads, NoRequest
    <3> QED
      BY <3>1
  <2>2. CASE npy[api.key] # "whole"
    <3>1. api' = [api EXCEPT !.state = "error", !.key = 0] /\ api.state = "load"
      BY <1>6, <2>2 DEF GetLoads
    <3>2. api'.state = "error"
      BY <3>1, <1>0 DEF Request
    <3>3. api'.raced = api.raced
      BY <3>1, <1>0 DEF Request
    <3>4. api.raced
      BY <3>1, <2>2, <1>0, Zenon
    <3> QED
      BY <3>2, <3>3, <3>4
  <2> QED
    BY <2>1, <2>2
<1>7. CASE Stop
  <2>1. api' = NoRequest /\ NoRequest.state = "idle"
    BY <1>7 DEF Stop, NoRequest
  <2> QED
    BY <2>1
<1>8. CASE UNCHANGED <<npy, api>>
  BY <1>0, <1>8, Zenon
<1> QED
  BY <1>2, <1>3, <1>4, <1>5, <1>6, <1>7, <1>8, Zenon
     DEF Next, Start, Tick, TakeWindow, GatherCues, WriteSidecar, PurgeLists,
         UnlinkSidecar, PostAndBeat, PushCue, disk

(***************************************************************************)
(* The reports.                                                            *)
(***************************************************************************)
LEMMA ReportStep == NodeInv /\ Next => VerifiedHasEvidence'
<1> SUFFICES ASSUME NodeInv, Next PROVE VerifiedHasEvidence'
  OBVIOUS
<1> USE DEF VerifiedHasEvidence
<1>0. /\ TypeOK /\ PurgeListed /\ FirstFileDone /\ StoredIsKept /\ VerifiedHasEvidence
      /\ npy \in [Keys -> {"absent", "partial", "whole"}] /\ win.at \in Keys
  BY DEF NodeInv, TypeOK
<1>1. CASE GatherCues
  <2>1. cfg' = cfg
    BY <1>1, Zenon DEF GatherCues
  <2>2. pc' = IF KeepsIq(verified') THEN "save" ELSE "post"
    BY <1>1, Zenon DEF GatherCues
  <2>3. CASE verified' /\ cfg.mode4
    BY <2>2, <2>3 DEF KeepsIq
  <2>4. CASE ~(verified' /\ cfg.mode4)
    BY <2>1, <2>4, Zenon
  <2> QED
    BY <2>3, <2>4
<1>2. CASE PurgeLists
  BY <1>0, <1>2 DEF PurgeLists, StoredIsKept
<1>3. CASE UnlinkSidecar
  BY <1>0, <1>3 DEF UnlinkSidecar, StoredIsKept, Purging
<1>4. CASE pc' # "post"
  BY <1>4
<1>5. CASE UNCHANGED <<cfg, npy, pc, win, verified, cutoff>>
  BY <1>0, <1>5, Zenon
<1>6. CASE TakeWindow \/ Start \/ SaveBegins \/ SaveEnds \/ WriteSidecar \/ UnlinkIq \/ Stop
           \/ PostAndBeat
  <2>1. pc' # "post"
    BY <1>6 DEF TakeWindow, Start, SaveBegins, SaveEnds, WriteSidecar, UnlinkIq, Stop,
                PostAndBeat
  <2> QED
    BY <2>1
<1> QED
  BY <1>1, <1>2, <1>3, <1>5, <1>6, Zenon
     DEF Next, Tick, PushCue, GetLooks, GetLoads, disk

LEMMA StutterNode == NodeInv /\ UNCHANGED vars => NodeInv'
<1> SUFFICES ASSUME NodeInv, UNCHANGED vars PROVE NodeInv'
  OBVIOUS
<1>1. TypeOK' /\ ConfigOK'
  BY DEF NodeInv, TypeOK, ConfigOK, vars
<1>2. PurgeListed' /\ FirstFileDone' /\ StoredIsKept'
  BY DEF NodeInv, PurgeListed, FirstFileDone, StoredIsKept, Purging, vars
<1>3. FilesConsistent'
  <2>1. UNCHANGED <<npy, sidecar, torn>> /\ InHand' = InHand
    BY InHandIs, InHandWillBe DEF vars
  <2> QED
    BY <2>1 DEF NodeInv, FilesConsistent
<1>4. FetchSeen' /\ FetchFailsOnlyInRace' /\ VerifiedHasEvidence'
  BY Zenon DEF NodeInv, FetchSeen, FetchFailsOnlyInRace, VerifiedHasEvidence, vars
<1> QED
  BY <1>1, <1>2, <1>3, <1>4 DEF NodeInv

LEMMA NextNode == NodeInv /\ [Next]_vars => NodeInv'
<1> SUFFICES ASSUME NodeInv, [Next]_vars PROVE NodeInv'
  OBVIOUS
<1>1. CASE Next
  BY <1>1, TypeStep, PurgeStep, FirstFileStep, FilesStep, FetchStep, ReportStep, Zenon
     DEF NodeInv
<1>2. CASE UNCHANGED vars
  BY <1>2, StutterNode
<1> QED
  BY <1>1, <1>2
-----------------------------------------------------------------------------
(* The node never leaves its invariant: what the purge has listed, which   *)
(* of a window's two files is done at each step of a store or a removal,   *)
(* and what a request has seen of them.                                    *)
THEOREM NodeInvHolds == Spec => []NodeInv
  BY InitNode, NextNode, PTL DEF Spec

(* The raw samples of a window and their metadata are there together and   *)
(* whole, except in a store or purge or where a stop fell into one, and a  *)
(* request fails only if the file was touched while it was served.         *)
THEOREM EvidenceIsReadable == Spec => []EvidenceReadable
<1>1. NodeInv => EvidenceReadable
  BY DEF NodeInv, EvidenceReadable
<1> QED
  BY <1>1, NodeInvHolds, PTL

(* A report that says a cue verified the window leaves its raw samples on  *)
(* disk, unless the window was too old to be kept when it was stored.      *)
THEOREM ReportsHaveEvidence == Spec => []VerifiedHasEvidence
<1>1. NodeInv => VerifiedHasEvidence
  BY DEF NodeInv
<1> QED
  BY <1>1, NodeInvHolds, PTL

(***************************************************************************)
(* Retention.                                                              *)
(***************************************************************************)
LEMMA KeptStep ==
  ASSUME NodeInv, Next, NEW k \in Keys, npy[k] = "whole", k >= now - Retention,
         npy'[k] # "whole"
  PROVE  pc = "save" /\ win.at = k
<1>0. /\ PurgeListed /\ npy \in [Keys -> {"absent", "partial", "whole"}]
      /\ doomed \in Seq(Keys) /\ cutoff \in Int /\ now \in Int /\ win.at \in Keys
  BY DEF NodeInv, TypeOK
<1>1. CASE SaveBegins
  BY <1>0, <1>1 DEF SaveBegins
<1>2. CASE SaveEnds
  BY <1>0, <1>2 DEF SaveEnds
<1>3. CASE UnlinkIq
  <2>1. Head(doomed) \in Keys /\ Head(doomed) < cutoff /\ cutoff <= now - Retention
    BY <1>0, <1>3 DEF UnlinkIq, PurgeListed, Purging
  <2>2. Head(doomed) # k
    BY <2>1, <1>0
  <2> QED
    BY <2>2, <1>0, <1>3 DEF UnlinkIq
<1>4. CASE npy' = npy
  BY <1>4
<1> QED
  BY <1>1, <1>2, <1>3, <1>4, Zenon
     DEF Next, Start, Stop, Tick, TakeWindow, GatherCues, WriteSidecar, PurgeLists,
         UnlinkSidecar, PostAndBeat, PushCue, GetLooks, GetLoads, disk

LEMMA PurgedStep ==
  ASSUME NodeInv, Next, pc \in {"purge", "unlinkSidecar"}, pc' = "post",
         NEW k \in Keys, npy'[k] # "absent"
  PROVE  k >= cutoff'
<1>0. /\ TypeOK /\ PurgeListed /\ FirstFileDone
      /\ doomed \in Seq(Keys) /\ cutoff \in Int /\ now \in Int
  BY DEF NodeInv, TypeOK
<1>1. CASE PurgeLists
  <2>1. /\ cutoff' \in Int
        /\ npy[k] # "absent" /\ k < cutoff' => \E i \in DOMAIN doomed' : doomed'[i] = k
    BY <1>0, <1>1, PurgeListsAll
  <2>2. npy' = npy /\ doomed' = <<>>
    BY <1>1 DEF PurgeLists
  <2> QED
    BY <2>1, <2>2
<1>2. CASE UnlinkSidecar
  <2>1. npy' = npy /\ cutoff' = cutoff /\ Tail(doomed) = <<>> /\ doomed # <<>>
    BY <1>0, <1>2 DEF UnlinkSidecar, PurgeListed, Purging
  <2>2. Len(doomed) = 1 /\ DOMAIN doomed = 1 .. 1
    <3>1. Len(<<>>) = 0
      OBVIOUS
    <3>2. Len(Tail(doomed)) = 0
      BY <3>1, <2>1, Zenon
    <3> QED
      BY <3>2, <2>1, <1>0
  <2>3. npy[doomed[1]] = "absent"
    BY <2>1, <2>2, <1>0, <1>2 DEF FirstFileDone, UnlinkSidecar
  <2>4. npy[k] # "absent" /\ k < cutoff => \E i \in DOMAIN doomed : doomed[i] = k
    BY <1>0, <1>2 DEF PurgeListed, Purging, UnlinkSidecar
  <2> QED
    BY <2>1, <2>2, <2>3, <2>4, <1>0
<1>3. CASE pc' = pc \/ pc \notin {"purge", "unlinkSidecar"} \/ pc' = "stopped"
  BY <1>3
<1> QED
  BY <1>1, <1>2, <1>3, Zenon
     DEF Next, Start, Stop, Tick, TakeWindow, GatherCues, SaveBegins, SaveEnds,
         WriteSidecar, UnlinkIq, PostAndBeat, PushCue, GetLooks, GetLoads

(* No step takes away raw samples still inside the retention time but to   *)
(* write the same window again, and when a store is over nothing older     *)
(* than the cutoff of its purge is left.                                   *)
THEOREM RetentionIsKept == Spec => RetentionKept
<1>1. NodeInv /\ [Next]_vars =>
        [\A k \in Keys : npy[k] = "whole" /\ k >= now - Retention /\ npy[k]' # "whole"
           => pc = "save" /\ win.at = k]_vars
  BY KeptStep
<1>2. NodeInv /\ [Next]_vars =>
        [(pc \in {"purge", "unlinkSidecar"} /\ pc' = "post")
           => \A k \in Keys : npy[k]' # "absent" => k >= cutoff']_vars
  BY PurgedStep
<1> QED
  BY <1>1, <1>2, NodeInvHolds, PTL DEF Spec, RetentionKept, EvidenceKept, PurgedOnWrite

-----------------------------------------------------------------------------
(* The computations of Offline: their results, for every input.            *)

(* A result is that of the case.                                           *)
OfflineInv ==
  /\ job[1] = "hops" => job[2] \in Schedules
  /\ job[1] = "channels" => job[2] \in ChannelCases
  /\ job[1] = "model" => job[2] \in ModelCases
  /\ job[1] = "loading" => job[2] \in Loadings
  /\ job[1] = "bench" => job[2] \in Corpora
  /\ job[1] = "probe" => job[2] \in Probes
  /\ job[1] = "budget" => job[2] \in Budgets
  /\ job[1] = "trainer" => job[2] \in Trainings
  /\ out # "pending" => out = <<Result(job[1], job[2])>>

LEMMA InitOffline == OfflineInit => OfflineInv
<1> SUFFICES ASSUME OfflineInit PROVE OfflineInv
  OBVIOUS
<1>1. PICK kind \in DOMAIN Cases : \E j \in Cases[kind] : job = <<kind, j>>
  BY DEF OfflineInit
<1>2. PICK j \in Cases[kind] : job = <<kind, j>>
  BY <1>1
<1>3. job[1] = kind /\ job[2] = j
  BY <1>2
<1>4. out = "pending"
  BY DEF OfflineInit
<1>5. /\ Cases["hops"] = Schedules /\ Cases["channels"] = ChannelCases
      /\ Cases["model"] = ModelCases
      /\ Cases["loading"] = Loadings /\ Cases["bench"] = Corpora
      /\ Cases["probe"] = Probes /\ Cases["budget"] = Budgets
      /\ Cases["trainer"] = Trainings
  BY DEF Cases
<1> QED
  BY <1>2, <1>3, <1>4, <1>5 DEF OfflineInv

LEMMA NextOffline == OfflineInv /\ [OfflineNext]_offlineVars => OfflineInv'
<1> SUFFICES ASSUME OfflineInv, [OfflineNext]_offlineVars PROVE OfflineInv'
  OBVIOUS
<1>1. CASE Run
  BY <1>1 DEF Run, OfflineInv
<1>2. CASE UNCHANGED offlineVars
  BY <1>2 DEF offlineVars, OfflineInv
<1> QED
  BY <1>1, <1>2 DEF OfflineNext, Done

(* The case stays what it was picked from, and Run stores its result: what  *)
(* the theorems below need of the state, which says nothing of the program  *)
(* by itself.                                                               *)
LEMMA CaseIsKept == OfflineSpec => []OfflineInv
<1> QED
  BY InitOffline, NextOffline, PTL DEF OfflineSpec

LEMMA ResultOf ==
  ASSUME OfflineInv, out # "pending"
  PROVE  /\ job[1] = "hops" =>
              out[1] = SeedCandidates(Observed(job[2]), job[2].n, HopMaps(job[2].n))
         /\ job[1] = "channels" =>
              out[1] = NumChannels(job[2].board, NominalSpacing(job[2].board, job[2].n), job[2].seen)
         /\ job[1] = "model" => out[1] = ClassifyRun(job[2].looks, job[2].active)
         /\ job[1] = "loading" => out[1] = UsedRows(job[2].windows, job[2].limit)
         /\ job[1] = "bench" => out[1] = Benchmark(job[2].zenodo, job[2].antsdr, job[2].rub)
         /\ job[1] = "probe" => out[1] = Probe(job[2].rows, job[2].held, job[2].margin)
         /\ job[1] = "budget" => out[1] = BudgetMet(job[2])
         /\ job[1] = "trainer" =>
              out[1] = TrainAndSave(job[2].dataset, job[2].files, job[2].cap, job[2].draw)
<1>1. out[1] = Result(job[1], job[2])
  BY DEF OfflineInv
<1> QED
  BY <1>1 DEF Result

-----------------------------------------------------------------------------
(* Folds over a sequence, which the library defines on sets of positions   *)
(* from the last down.                                                     *)

LEMMA LeastNumber ==
  ASSUME NEW T, T \subseteq Nat, T # {}
  PROVE  \E m \in T : \A k \in T : m <= k
<1>1. PICK m \in T : \A k \in T : ~(<<k, m>> \in OpToRel(<, Nat))
  BY WFMin, NatLessThanWellFounded
<1>2. SUFFICES ASSUME NEW k \in T, k < m PROVE FALSE
  OBVIOUS
<1>3. <<k, m>> \in Nat \X Nat /\ <<k, m>>[1] < <<k, m>>[2]
  BY <1>2
<1>4. <<k, m>> \in OpToRel(<, Nat)
  BY <1>3 DEF OpToRel
<1> QED
  BY <1>1, <1>4

LEMMA LastIsMax ==
  ASSUME NEW n \in Nat, NEW s \in SUBSET (1..n), n \in s
  PROVE  Max(s) = n
<1>1. \A x \in s : x \in 1..n
  OBVIOUS
<1>2. \E x \in s : \A y \in s : x >= y
  BY <1>1
<1>3. Max(s) \in s /\ \A y \in s : Max(s) >= y
  BY <1>2 DEF Max
<1>4. Max(s) \in 1..n /\ Max(s) >= n
  BY <1>1, <1>3
<1> QED
  BY <1>4

LEMMA MaxInside ==
  ASSUME NEW n \in Nat, NEW s \in SUBSET (1..n), s # {}
  PROVE  Max(s) \in s /\ Max(s) \in 1..n /\ s \ {Max(s)} \in SUBSET (1..n)
<1> DEFINE T == {k \in 0..n : \A x \in s : x <= k}
<1>1. T \subseteq Nat
  OBVIOUS
<1>2. n \in T
  BY DEF T
<1>3. PICK m \in T : \A k \in T : m <= k
  <2> HIDE DEF T
  <2> QED
    BY <1>1, <1>2, LeastNumber
<1>4. m \in s
  <2>1. SUFFICES ASSUME m \notin s PROVE FALSE
    OBVIOUS
  <2>2. PICK x \in s : TRUE
    OBVIOUS
  <2>3. x \in 1..n /\ m \in 0..n /\ x <= m
    BY <1>3
  <2>4. \A y \in s : y \in 1..n /\ y <= m /\ y # m
    BY <1>3, <2>1
  <2>5. m - 1 \in 0..n /\ \A y \in s : y <= m - 1
    BY <2>3, <2>4
  <2>6. m - 1 \in T
    BY <2>5
  <2> HIDE DEF T
  <2> QED
    BY <1>3, <2>3, <2>6
<1>5. \E x \in s : \A y \in s : x >= y
  <2>1. \A y \in s : y \in 1..n /\ y <= m
    BY <1>3
  <2> HIDE DEF T
  <2> QED
    BY <1>4, <2>1
<1>6. Max(s) \in s
  BY <1>5 DEF Max
<1> QED
  BY <1>6

FoldsBy(f, V, G, base, n) ==
  /\ f \in [SUBSET (1..n) -> V]
  /\ f[{}] = base
  /\ \A s \in SUBSET (1..n) : s # {} => f[s] = G[<<f[s \ {Max(s)}], Max(s)>>]

LEMMA FoldExists ==
  ASSUME NEW V, NEW N \in Nat, NEW G \in [V \X (1..N) -> V], NEW base \in V
  PROVE  \E f : FoldsBy(f, V, G, base, N)
<1> DEFINE T == {m \in 0..N : ~ \E f : FoldsBy(f, V, G, base, m)}
<1>1. SUFFICES ASSUME T # {} PROVE FALSE
  <2>1. N \in 0..N
    OBVIOUS
  <2> QED
    BY <2>1
<1>2. PICK m \in T : \A k \in T : m <= k
  <2>1. T \subseteq Nat
    OBVIOUS
  <2> HIDE DEF T
  <2> QED
    BY <2>1, <1>1, LeastNumber
<1>3. m # 0
  <2>1. \A s \in SUBSET (1..0) : s = {}
    OBVIOUS
  <2>2. FoldsBy([s \in SUBSET (1..0) |-> base], V, G, base, 0)
    BY <2>1 DEF FoldsBy
  <2> QED
    BY <2>2
<1>4. m \in 1..N /\ m - 1 \in 0..N
  BY <1>3
<1>5. PICK f : FoldsBy(f, V, G, base, m - 1)
  <2>1. m - 1 \notin T
    <3> HIDE DEF T
    <3>1. ~(m <= m - 1)
      BY <1>4
    <3> QED
      BY <1>2, <3>1
  <2> QED
    BY <2>1, <1>4
<1> DEFINE g == [s \in SUBSET (1..m) |-> IF m \in s THEN G[<<f[s \ {m}], m>>] ELSE f[s]]
<1>6. \A s \in SUBSET (1..m) : s \ {m} \in SUBSET (1..m - 1) /\ (m \notin s => s \ {m} = s)
  BY <1>4
<1>7. /\ f \in [SUBSET (1..m - 1) -> V] /\ f[{}] = base
      /\ \A s \in SUBSET (1..m - 1) : s # {} => f[s] = G[<<f[s \ {Max(s)}], Max(s)>>]
  BY <1>5 DEF FoldsBy
<1>8. g \in [SUBSET (1..m) -> V]
  <2>1. ASSUME NEW s \in SUBSET (1..m) PROVE g[s] \in V
    <3>1. f[s \ {m}] \in V
      BY <1>6, <1>7
    <3>2. <<f[s \ {m}], m>> \in V \X (1..N)
      BY <3>1, <1>4
    <3>3. m \notin s => s = s \ {m}
      OBVIOUS
    <3> QED
      BY <3>1, <3>2, <3>3
  <2> QED
    BY <2>1
<1>9. g[{}] = base
  BY <1>7
<1>10. ASSUME NEW s \in SUBSET (1..m), s # {} PROVE g[s] = G[<<g[s \ {Max(s)}], Max(s)>>]
  <2>1. CASE m \in s
    <3>1. Max(s) = m
      BY <2>1, <1>4, LastIsMax
    <3>2. g[s] = G[<<f[s \ {m}], m>>] /\ g[s \ {m}] = f[s \ {m}]
      BY <2>1
    <3> QED
      BY <3>1, <3>2
  <2>2. CASE m \notin s
    <3>1. s \in SUBSET (1..m - 1) /\ s \ {Max(s)} \in SUBSET (1..m)
      BY <2>2, <1>6
    <3>2. g[s] = f[s] /\ g[s \ {Max(s)}] = f[s \ {Max(s)}]
      BY <2>2, <3>1
    <3> QED
      BY <3>1, <3>2, <1>7, <1>10
  <2> QED
    BY <2>1, <2>2
<1> HIDE DEF g
<1>11. FoldsBy(g, V, G, base, m)
  BY <1>8, <1>9, <1>10 DEF FoldsBy
<1> QED
  BY <1>2, <1>11

(* The values of a fold: h over the first 0 .. n positions.                *)
Steps(h, V, G, base, n) ==
  /\ h[0] = base
  /\ \A k \in 0..n : h[k] \in V
  /\ \A k \in 1..n : h[k] = G[<<h[k - 1], k>>]

(* What is known of the function a fold is defined by.                     *)
Iterates(iter, V, G, base, n) ==
  /\ iter[{}] = base
  /\ \A s \in SUBSET (1..n) : s # {} /\ iter[s \ {Max(s)}] \in V =>
       iter[s] = G[<<iter[s \ {Max(s)}], Max(s)>>]

EndsAs(h, iter, n) == h[n] = iter[1..n]

LEMMA StepsOf ==
  ASSUME NEW V, NEW n \in Nat, NEW G \in [V \X (1..n) -> V], NEW base \in V, NEW iter,
         Iterates(iter, V, G, base, n)
  PROVE  \E h : Steps(h, V, G, base, n) /\ EndsAs(h, iter, n)
<1> DEFINE h == [k \in 0..n |-> iter[1..k]]
           T == {k \in 0..n : h[k] \notin V}
<1> USE DEF Iterates
<1>1. h[0] = base
  <2>1. 1..0 = {}
    OBVIOUS
  <2> QED
    BY <2>1
<1>2. ASSUME NEW k \in 1..n, h[k - 1] \in V
      PROVE  h[k] = G[<<h[k - 1], k>>] /\ h[k] \in V
  <2>1. 1..k \in SUBSET (1..n) /\ k \in 1..k /\ k - 1 \in 0..n
    OBVIOUS
  <2>2. Max(1..k) = k
    BY LastIsMax
  <2>3. (1..k) \ {k} = 1..k - 1
    OBVIOUS
  <2>4. h[k] = iter[1..k] /\ h[k - 1] = iter[1..k - 1]
    BY <2>1
  <2>5. h[k] = G[<<h[k - 1], k>>]
    BY <2>1, <2>2, <2>3, <2>4, <1>2
  <2> QED
    BY <2>5, <1>2
<1>3. T = {}
  <2>1. SUFFICES ASSUME T # {} PROVE FALSE
    OBVIOUS
  <2>2. PICK m \in T : \A k \in T : m <= k
    <3>1. T \subseteq Nat
      OBVIOUS
    <3> HIDE DEF T
    <3> QED
      BY <3>1, <2>1, LeastNumber
  <2>3. m # 0
    BY <1>1
  <2>4. m \in 1..n /\ m - 1 \in 0..n /\ ~(m <= m - 1)
    BY <2>3
  <2>5. h[m - 1] \in V
    <3>1. m - 1 \notin T
      <4> HIDE DEF T
      <4> QED
        BY <2>2, <2>4
    <3> QED
      BY <3>1, <2>4
  <2>6. h[m] \notin V
    BY <2>2
  <2> HIDE DEF h
  <2> QED
    BY <1>2, <2>4, <2>5, <2>6
<1>4. \A k \in 0..n : h[k] \in V
  BY <1>3
<1>5. \A k \in 1..n : h[k] = G[<<h[k - 1], k>>]
  <2>1. \A k \in 1..n : k - 1 \in 0..n
    OBVIOUS
  <2> HIDE DEF h
  <2> QED
    BY <2>1, <1>2, <1>4
<1> HIDE DEF h
<1>6. Steps(h, V, G, base, n)
  BY <1>1, <1>4, <1>5 DEF Steps
<1>7. EndsAs(h, iter, n)
  BY DEF h, EndsAs
<1> QED
  BY <1>6, <1>7

(* load_rows without a limit: the windows with a tensor and no deficit.    *)
LEMMA UsedRowsAre ==
  ASSUME NEW S, NEW ws \in Seq(S)
  PROVE  UsedRows(ws, 0) = {i \in DOMAIN ws : ~RateDeficit(ws, ws[i]) /\ ws[i].tensor = "good"}
<1> DEFINE n == Len(ws)
           V == SUBSET (1..n)
           pos == [i \in DOMAIN ws |-> i]
           bad == [i \in 1..n |-> RateDeficit(ws, ws[i]) \/ ws[i].tensor # "good"]
           Use(used, i) ==
             IF (0 > 0 /\ Cardinality(used) >= 0) \/ RateDeficit(ws, ws[i]) \/ ws[i].tensor # "good"
             THEN used ELSE used \cup {i}
           G == [p \in V \X (1..n) |-> IF bad[p[2]] THEN p[1] ELSE p[1] \cup {p[2]}]
           IsFold(h) ==
             h = [s \in SUBSET (DOMAIN pos) |->
                    IF s = {} THEN {} ELSE Use(h[s \ {Max(s)}], pos[Max(s)])]
           iter == CHOOSE h : IsFold(h)
<1>1. n \in Nat /\ DOMAIN pos = 1..n /\ {} \in V /\ DOMAIN ws = 1..n
  OBVIOUS
<1>2. UsedRows(ws, 0) = iter[DOMAIN pos]
  BY DEF UsedRows, FoldLeft, MapThenFoldSet
<1>3. G \in [V \X (1..n) -> V]
  OBVIOUS
<1>4. \A v \in V, i \in 1..n : Use(v, pos[i]) = G[<<v, i>>]
  <2> TAKE v \in V, i \in 1..n
  <2>2. pos[i] = i /\ ~(0 > 0)
    BY <1>1
  <2>3. G[<<v, i>>] = IF bad[i] THEN v ELSE v \cup {i}
    OBVIOUS
  <2>4. bad[i] = (RateDeficit(ws, ws[i]) \/ ws[i].tensor # "good")
    OBVIOUS
  <2> HIDE DEF G, bad, pos
  <2> QED
    BY <2>2, <2>3, <2>4
<1>5. \A v \in V, i \in 1..n : G[<<v, i>>] = IF bad[i] THEN v ELSE v \cup {i}
  OBVIOUS
<1> HIDE DEF G, Use, pos, bad, V
<1>6. PICK g : FoldsBy(g, V, G, {}, n)
  BY <1>1, <1>3, FoldExists
<1>7. /\ g = [s \in SUBSET (1..n) |-> g[s]] /\ \A s \in SUBSET (1..n) : g[s] \in V
      /\ g[{}] = {}
      /\ \A s \in SUBSET (1..n) : s # {} => g[s] = G[<<g[s \ {Max(s)}], Max(s)>>]
  BY <1>6 DEF FoldsBy
<1>8. \A s \in SUBSET (1..n) : s # {} => Max(s) \in 1..n /\ s \ {Max(s)} \in SUBSET (1..n)
  BY <1>1, MaxInside
<1>9. \A s \in SUBSET (1..n) : s # {} => g[s] = Use(g[s \ {Max(s)}], pos[Max(s)])
  BY <1>4, <1>7, <1>8
<1>10. IsFold(g)
  <2>1. \A s \in SUBSET (1..n) : g[s] = IF s = {} THEN {} ELSE Use(g[s \ {Max(s)}], pos[Max(s)])
    BY <1>7, <1>9
  <2> QED
    BY <1>1, <1>7, <2>1
<1>11. IsFold(iter)
  BY <1>10
<1> HIDE DEF iter
<1>12. iter[{}] = {}
  BY <1>11
<1>13. \A s \in SUBSET (1..n) : s # {} => iter[s] = Use(iter[s \ {Max(s)}], pos[Max(s)])
  BY <1>1, <1>11
<1>14. \A s \in SUBSET (1..n) : s # {} /\ iter[s \ {Max(s)}] \in V =>
        iter[s] = G[<<iter[s \ {Max(s)}], Max(s)>>]
  BY <1>4, <1>8, <1>13
<1> HIDE DEF n
<1>15. Iterates(iter, V, G, {}, n)
  BY <1>12, <1>14 DEF Iterates
<1>16. PICK h : Steps(h, V, G, {}, n) /\ EndsAs(h, iter, n)
  BY <1>1, <1>3, <1>15, StepsOf
<1>17. /\ h[0] = {}
       /\ \A k \in 1..n : h[k] = IF bad[k] THEN h[k - 1] ELSE h[k - 1] \cup {k}
  <2>1. \A k \in 1..n : k - 1 \in 0..n
    BY <1>1
  <2> QED
    BY <2>1, <1>5, <1>16 DEF Steps
<1> DEFINE T == {k \in 0..n : h[k] # {i \in 1..k : ~bad[i]}}
<1>18. T = {}
  <2>1. SUFFICES ASSUME T # {} PROVE FALSE
    OBVIOUS
  <2>2. PICK m \in T : \A k \in T : m <= k
    <3>1. T \subseteq Nat
      BY <1>1
    <3> HIDE DEF T
    <3> QED
      BY <3>1, <2>1, LeastNumber
  <2>3. m \in 0..n /\ h[m] # {i \in 1..m : ~bad[i]}
    BY <2>2
  <2>4. m # 0
    <3>1. {i \in 1..0 : ~bad[i]} = {}
      OBVIOUS
    <3> QED
      BY <3>1, <2>3, <1>17
  <2>5. m \in 1..n /\ m - 1 \in 0..n /\ ~(m <= m - 1)
    BY <2>3, <2>4, <1>1
  <2>6. h[m - 1] = {i \in 1..m - 1 : ~bad[i]}
    <3>1. m - 1 \notin T
      <4> HIDE DEF T
      <4> QED
        BY <2>2, <2>5
    <3> QED
      BY <3>1, <2>5
  <2>7. 1..m = (1..m - 1) \cup {m} /\ m \notin 1..m - 1
    BY <2>5
  <2>8. h[m] = IF bad[m] THEN h[m - 1] ELSE h[m - 1] \cup {m}
    BY <1>17, <2>5
  <2>9. {i \in 1..m : ~bad[i]} = IF bad[m] THEN h[m - 1] ELSE h[m - 1] \cup {m}
    BY <2>6, <2>7
  <2> HIDE DEF T
  <2> QED
    BY <2>3, <2>8, <2>9
<1>19. h[n] = {i \in 1..n : ~bad[i]}
  BY <1>1, <1>18
<1>20. \A i \in 1..n : bad[i] = (RateDeficit(ws, ws[i]) \/ ws[i].tensor # "good")
  BY DEF bad
<1> QED
  BY <1>1, <1>2, <1>16, <1>19, <1>20 DEF EndsAs

-----------------------------------------------------------------------------
(* The bundle of a run.                                                    *)

KeysOf(R) == {<<>>} \cup {KeyOf(f) : f \in R}
BundlesOf(R) == {<<>>} \cup {<<f.content>> : f \in R}
CachesOf(R) == [key : KeysOf(R), bundle : BundlesOf(R)]
LabelsOf(R) == [cache : CachesOf(R), from : BundlesOf(R), mismatch : BOOLEAN]

LEMMA LoadedIn ==
  ASSUME NEW R, NEW cache \in CachesOf(R), NEW f \in R
  PROVE  LoadBundle(cache, f) \in CachesOf(R)
<1>1. <<>> \in KeysOf(R) /\ KeyOf(f) \in KeysOf(R)
  BY DEF KeysOf
<1>2. <<>> \in BundlesOf(R) /\ <<f.content>> \in BundlesOf(R)
  BY DEF BundlesOf
<1>3. [key |-> <<>>, bundle |-> <<>>] \in CachesOf(R)
  BY <1>1, <1>2 DEF CachesOf
<1>4. /\ [key |-> KeyOf(f), bundle |-> <<>>] \in CachesOf(R)
      /\ [key |-> KeyOf(f), bundle |-> <<f.content>>] \in CachesOf(R)
  BY <1>1, <1>2 DEF CachesOf
<1> QED
  BY <1>3, <1>4 DEF LoadBundle, NoBundle

LEMMA ClassifiedIn ==
  ASSUME NEW R, NEW cache \in CachesOf(R), NEW f \in R, NEW g \in R, NEW active
  PROVE  ClassifyWindow(cache, f, g, active) \in LabelsOf(R)
<1> DEFINE c1 == LoadBundle(cache, f)
           c2 == LoadBundle(c1, g)
<1>1. c1 \in CachesOf(R)
  BY LoadedIn
<1>2. c2 \in CachesOf(R)
  BY <1>1, LoadedIn
<1>3. c1.bundle \in BundlesOf(R) /\ c2.bundle \in BundlesOf(R) /\ <<>> \in BundlesOf(R)
  BY <1>1, <1>2 DEF CachesOf, BundlesOf
<1> HIDE DEF c1, c2
<1>4. \A from \in BundlesOf(R), m \in BOOLEAN :
        Classified(c1, from, m) \in LabelsOf(R) /\ Classified(c2, from, m) \in LabelsOf(R)
  BY <1>1, <1>2 DEF Classified, LabelsOf
<1>5. ClassifyWindow(cache, f, g, active) =
        IF c1.bundle # <<>> /\ c1.bundle[1].features # active THEN Classified(c1, <<>>, TRUE)
        ELSE IF active = "v1"
        THEN Classified(c2, IF Scores(c2.bundle, "v1") THEN c2.bundle ELSE <<>>, FALSE)
        ELSE Classified(c1, c1.bundle, FALSE)
  BY DEF ClassifyWindow, c1, c2
<1> QED
  BY <1>3, <1>4, <1>5

(* A cache holds what a look up to the t-th gave, under that look's key.   *)
SoundCache(cache, looks, t) ==
  \/ cache = NoBundle
  \/ \E k \in 1..t :
       /\ cache.key = KeyOf(looks[k])
       /\ cache.bundle = IF looks[k].content.kind = "torn" THEN <<>> ELSE <<looks[k].content>>

LEMMA LoadKeepsSound ==
  ASSUME NEW looks, NEW t \in Nat, NEW u \in 1..t, NEW cache, SoundCache(cache, looks, t)
  PROVE  SoundCache(LoadBundle(cache, looks[u]), looks, t)
<1>1. CASE looks[u].content.kind = "missing" \/ cache.key = KeyOf(looks[u])
  BY <1>1 DEF LoadBundle, SoundCache
<1>2. CASE ~(looks[u].content.kind = "missing" \/ cache.key = KeyOf(looks[u]))
  <2>1. LoadBundle(cache, looks[u]) =
          [key |-> KeyOf(looks[u]),
           bundle |-> IF looks[u].content.kind = "torn" THEN <<>> ELSE <<looks[u].content>>]
    BY <1>2 DEF LoadBundle
  <2> QED
    BY <2>1 DEF SoundCache
<1> QED
  BY <1>1, <1>2

(* What a look gives whose key was used for no other content.              *)
CleanLook(looks, u, t) ==
  /\ looks[u].content.kind = "bundle"
  /\ \A k \in 1..t : looks[k].mtime = looks[u].mtime => looks[k].content = looks[u].content

LoadsIt(cache, look) == LoadBundle(cache, look).bundle = <<look.content>>

LEMMA LoadOfClean ==
  ASSUME NEW looks, NEW t \in Nat, NEW u \in 1..t, NEW cache, SoundCache(cache, looks, t),
         CleanLook(looks, u, t)
  PROVE  LoadsIt(cache, looks[u])
<1> USE DEF LoadsIt
<1>1. CASE cache.key = KeyOf(looks[u])
  <2>1. cache # NoBundle
    <3>1. KeyOf(looks[u]) # <<>>
      BY DEF KeyOf
    <3>2. NoBundle.key = <<>>
      BY DEF NoBundle
    <3> QED
      BY <1>1, <3>1, <3>2
  <2>2. PICK k \in 1..t :
          /\ cache.key = KeyOf(looks[k])
          /\ cache.bundle = IF looks[k].content.kind = "torn" THEN <<>> ELSE <<looks[k].content>>
    BY <2>1 DEF SoundCache
  <2>3. looks[k].mtime = looks[u].mtime
    BY <1>1, <2>2 DEF KeyOf
  <2>4. looks[k].content = looks[u].content /\ looks[u].content.kind # "torn"
    BY <2>3 DEF CleanLook
  <2>5. LoadBundle(cache, looks[u]) = cache
    BY <1>1 DEF LoadBundle, CleanLook
  <2> QED
    BY <2>2, <2>4, <2>5
<1>2. CASE cache.key # KeyOf(looks[u])
  BY <1>2 DEF LoadBundle, CleanLook
<1> QED
  BY <1>1, <1>2

(* What is said of the i-th window.                                        *)
LabelTrue(o, looks, active, i) ==
  LET first == looks[2 * i - 1]
  IN  /\ o.from # <<>> => o.from[1].features = active
      /\ /\ first = looks[2 * i] /\ first.content.kind = "bundle"
         /\ \A k \in 1..2 * i : looks[k].mtime = first.mtime => looks[k].content = first.content
         => o.from = IF first.content.features = active THEN <<first.content>> ELSE <<>>

LEMMA WindowLabelled ==
  ASSUME NEW looks, NEW i \in Nat \ {0}, NEW active, NEW cache,
         SoundCache(cache, looks, 2 * i)
  PROVE  LET o == ClassifyWindow(cache, looks[2 * i - 1], looks[2 * i], active)
         IN  SoundCache(o.cache, looks, 2 * i) /\ LabelTrue(o, looks, active, i)
<1> DEFINE u == 2 * i - 1
           v == 2 * i
           c1 == LoadBundle(cache, looks[u])
           c2 == LoadBundle(c1, looks[v])
           o == ClassifyWindow(cache, looks[u], looks[v], active)
<1>1. v \in Nat /\ u \in 1..v /\ v \in 1..v
  OBVIOUS
<1> HIDE DEF u, v
<1>2. SoundCache(cache, looks, v)
  BY DEF v
<1>3. SoundCache(c1, looks, v)
  BY <1>1, <1>2, LoadKeepsSound
<1>4. SoundCache(c2, looks, v)
  BY <1>1, <1>3, LoadKeepsSound
<1>5. o = IF c1.bundle # <<>> /\ c1.bundle[1].features # active THEN Classified(c1, <<>>, TRUE)
          ELSE IF active = "v1"
          THEN Classified(c2, IF Scores(c2.bundle, "v1") THEN c2.bundle ELSE <<>>, FALSE)
          ELSE Classified(c1, c1.bundle, FALSE)
  BY DEF ClassifyWindow
<1>6. ASSUME looks[u] = looks[v], looks[u].content.kind = "bundle",
             \A k \in 1..v : looks[k].mtime = looks[u].mtime => looks[k].content = looks[u].content
      PROVE  c1.bundle = <<looks[u].content>> /\ c2.bundle = <<looks[u].content>>
  <2>1. c1.bundle = <<looks[u].content>>
    <3>1. CleanLook(looks, u, v)
      BY <1>6 DEF CleanLook
    <3>2. LoadsIt(cache, looks[u])
      BY <1>1, <1>2, <3>1, LoadOfClean
    <3> QED
      BY <3>2 DEF LoadsIt
  <2>2. c2.bundle = <<looks[v].content>>
    <3>1. CleanLook(looks, v, v)
      BY <1>6 DEF CleanLook
    <3>2. LoadsIt(c1, looks[v])
      <4> HIDE DEF c1
      <4> QED
        BY <1>1, <1>3, <3>1, LoadOfClean
    <3> QED
      BY <3>2 DEF LoadsIt
  <2> QED
    BY <1>6, <2>1, <2>2
<1> HIDE DEF c1, c2, o
<1>7. SoundCache(o.cache, looks, v)
  BY <1>3, <1>4, <1>5 DEF Classified
<1>8. o.from # <<>> => o.from[1].features = active
  BY <1>5 DEF Classified, Scores
<1>9. ASSUME looks[u] = looks[v], looks[u].content.kind = "bundle",
             \A k \in 1..v : looks[k].mtime = looks[u].mtime => looks[k].content = looks[u].content
      PROVE  o.from = IF looks[u].content.features = active THEN <<looks[u].content>> ELSE <<>>
  <2> DEFINE w == looks[u].content
  <2>1. c1.bundle = <<w>> /\ c2.bundle = <<w>>
    BY <1>6, <1>9
  <2> HIDE DEF w
  <2>2. <<w>> # <<>> /\ <<w>>[1] = w
    OBVIOUS
  <2>3. o.from = IF w.features # active THEN <<>>
                 ELSE IF active = "v1" THEN (IF w.features = "v1" THEN <<w>> ELSE <<>>)
                 ELSE <<w>>
    BY <1>5, <2>1, <2>2 DEF Classified, Scores
  <2>4. o.from = IF w.features = active THEN <<w>> ELSE <<>>
    BY <2>3
  <2> QED
    BY <2>4 DEF w
<1>10. LabelTrue(o, looks, active, i)
  BY <1>8, <1>9 DEF LabelTrue, u, v
<1> QED
  BY <1>7, <1>10 DEF o, u, v
LEMMA RunLabelled ==
  ASSUME NEW R, NEW looks \in Seq(R), NEW active
  PROVE  \A i \in DOMAIN ClassifyRun(looks, active) :
           /\ 2 * i \in 1..Len(looks)
           /\ LabelTrue(ClassifyRun(looks, active)[i], looks, active, i)
<1> DEFINE n == Len(looks) \div 2
           V == Seq(LabelsOf(R))
           pos == [i \in 1..n |-> i]
           Prev(acc) == IF acc = <<>> THEN NoBundle ELSE Last(acc).cache
           Take(acc, i) ==
             Append(acc, ClassifyWindow(Prev(acc), looks[2 * i - 1], looks[2 * i], active))
           G == [p \in V \X (1..n) |-> Take(p[1], p[2])]
           IsFold(h) ==
             h = [s \in SUBSET (DOMAIN pos) |->
                    IF s = {} THEN <<>> ELSE Take(h[s \ {Max(s)}], pos[Max(s)])]
           iter == CHOOSE h : IsFold(h)
<1>1. n \in Nat /\ DOMAIN pos = 1..n /\ <<>> \in V
  OBVIOUS
<1>2. \A i \in 1..n : /\ 2 * i - 1 \in 1..Len(looks) /\ 2 * i \in 1..Len(looks)
                      /\ i \in Nat \ {0} /\ pos[i] = i
  OBVIOUS
<1>3. ClassifyRun(looks, active) = iter[DOMAIN pos]
  BY DEF ClassifyRun, FoldLeft, MapThenFoldSet
<1> HIDE DEF n, pos
<1>4. \A acc \in V : Prev(acc) \in CachesOf(R)
  <2>1. NoBundle \in CachesOf(R)
    BY DEF NoBundle, CachesOf, KeysOf, BundlesOf
  <2>2. ASSUME NEW acc \in V, acc # <<>> PROVE Last(acc).cache \in CachesOf(R)
    <3>1. acc[Len(acc)] \in LabelsOf(R)
      BY <2>2
    <3> QED
      BY <3>1 DEF Last, LabelsOf
  <2> QED
    BY <2>1, <2>2
<1> HIDE DEF Prev
<1>5. \A acc \in V, i \in 1..n : Take(acc, i) \in V
  <2> TAKE acc \in V, i \in 1..n
  <2>1. looks[2 * i - 1] \in R /\ looks[2 * i] \in R
    BY <1>2
  <2>2. ClassifyWindow(Prev(acc), looks[2 * i - 1], looks[2 * i], active) \in LabelsOf(R)
    BY <1>4, <2>1, ClassifiedIn
  <2> QED
    BY <2>2
<1>6. G \in [V \X (1..n) -> V] /\ \A acc \in V, i \in 1..n : G[<<acc, i>>] = Take(acc, i)
  <2> HIDE DEF V, Take
  <2>1. \A p \in V \X (1..n) : p[1] \in V /\ p[2] \in 1..n
    OBVIOUS
  <2> QED
    BY <1>5, <2>1
<1>7. \A acc \in V, i \in 1..n :
        /\ Len(Take(acc, i)) = Len(acc) + 1
        /\ \A k \in 1..Len(acc) : Take(acc, i)[k] = acc[k]
        /\ Take(acc, i)[Len(acc) + 1] =
             ClassifyWindow(Prev(acc), looks[2 * i - 1], looks[2 * i], active)
        /\ acc # <<>> => Prev(acc) = acc[Len(acc)].cache
        /\ acc = <<>> => Prev(acc) = NoBundle
        /\ Len(acc) \in Nat /\ (acc = <<>> <=> Len(acc) = 0) /\ DOMAIN acc = 1..Len(acc)
  BY DEF Prev, Last
<1> HIDE DEF G, Take, V
<1>8. PICK g : FoldsBy(g, V, G, <<>>, n)
  BY <1>1, <1>6, FoldExists
<1>9. /\ g = [s \in SUBSET (1..n) |-> g[s]] /\ \A s \in SUBSET (1..n) : g[s] \in V
      /\ g[{}] = <<>>
      /\ \A s \in SUBSET (1..n) : s # {} => g[s] = G[<<g[s \ {Max(s)}], Max(s)>>]
  BY <1>8 DEF FoldsBy
<1>10. \A s \in SUBSET (1..n) : s # {} =>
         /\ Max(s) \in 1..n /\ pos[Max(s)] = Max(s) /\ s \ {Max(s)} \in SUBSET (1..n)
  BY <1>1, <1>2, MaxInside
<1>11. \A s \in SUBSET (1..n) : s # {} => g[s] = Take(g[s \ {Max(s)}], pos[Max(s)])
  <2> TAKE s \in SUBSET (1..n)
  <2> HAVE s # {}
  <2>1. g[s \ {Max(s)}] \in V /\ Max(s) \in 1..n /\ pos[Max(s)] = Max(s)
    BY <1>9, <1>10
  <2>2. g[s] = G[<<g[s \ {Max(s)}], Max(s)>>]
    BY <1>9
  <2> QED
    BY <1>6, <2>1, <2>2
<1>12. IsFold(g)
  <2>1. \A s \in SUBSET (1..n) :
          g[s] = IF s = {} THEN <<>> ELSE Take(g[s \ {Max(s)}], pos[Max(s)])
    BY <1>9, <1>11
  <2> QED
    BY <1>1, <1>9, <2>1
<1>13. IsFold(iter)
  BY <1>12
<1> HIDE DEF iter
<1>14. iter[{}] = <<>>
  BY <1>13
<1>15. \A s \in SUBSET (1..n) : s # {} => iter[s] = Take(iter[s \ {Max(s)}], pos[Max(s)])
  BY <1>1, <1>13
<1>16. Iterates(iter, V, G, <<>>, n)
  <2>1. ASSUME NEW s \in SUBSET (1..n), s # {}, iter[s \ {Max(s)}] \in V
        PROVE  iter[s] = G[<<iter[s \ {Max(s)}], Max(s)>>]
    <3>1. iter[s] = Take(iter[s \ {Max(s)}], Max(s)) /\ Max(s) \in 1..n
      BY <1>10, <1>15, <2>1
    <3> QED
      BY <1>6, <2>1, <3>1
  <2> QED
    BY <1>14, <2>1 DEF Iterates
<1>17. PICK h : Steps(h, V, G, <<>>, n) /\ EndsAs(h, iter, n)
  BY <1>1, <1>6, <1>16, StepsOf
<1>18. /\ h[0] = <<>> /\ \A k \in 0..n : h[k] \in V
       /\ \A k \in 1..n : h[k] = Take(h[k - 1], k)
  <2>1. \A k \in 1..n : k - 1 \in 0..n
    BY <1>1
  <2> QED
    BY <2>1, <1>6, <1>17 DEF Steps
<1> DEFINE Good(k) ==
             /\ Len(h[k]) = k
             /\ \A i \in 1..k : /\ SoundCache(h[k][i].cache, looks, 2 * i)
                               /\ LabelTrue(h[k][i], looks, active, i)
           T == {k \in 0..n : ~Good(k)}
<1>19. T = {}
  <2>1. SUFFICES ASSUME T # {} PROVE FALSE
    OBVIOUS
  <2>2. PICK m \in T : \A k \in T : m <= k
    <3>1. T \subseteq Nat
      BY <1>1
    <3> HIDE DEF T
    <3> QED
      BY <3>1, <2>1, LeastNumber
  <2>3. m \in 0..n /\ ~Good(m)
    BY <2>2
  <2>4. m # 0
    <3>1. Len(h[0]) = 0 /\ 1..0 = {}
      BY <1>18
    <3>2. Good(0)
      BY <3>1
    <3> QED
      BY <3>2, <2>3
  <2>5. m \in 1..n /\ m - 1 \in 0..n /\ ~(m <= m - 1) /\ (m - 1) + 1 = m
    BY <2>3, <2>4, <1>1
  <2>6. Good(m - 1)
    <3>1. m - 1 \notin T
      <4> HIDE DEF T, Good
      <4> QED
        BY <2>2, <2>5
    <3> HIDE DEF Good
    <3> QED
      BY <3>1, <2>5
  <2>7. h[m] = Take(h[m - 1], m) /\ h[m - 1] \in V
    BY <1>18, <2>5
  <2> DEFINE o == ClassifyWindow(Prev(h[m - 1]), looks[2 * m - 1], looks[2 * m], active)
  <2>8. Len(h[m]) = m /\ (\A i \in 1..m - 1 : h[m][i] = h[m - 1][i]) /\ h[m][m] = o
    <3>1. Len(h[m - 1]) = m - 1
      BY <2>6
    <3>2. /\ Len(Take(h[m - 1], m)) = Len(h[m - 1]) + 1
          /\ \A k \in 1..Len(h[m - 1]) : Take(h[m - 1], m)[k] = h[m - 1][k]
          /\ Take(h[m - 1], m)[Len(h[m - 1]) + 1] = o
      BY <1>7, <2>5, <2>7
    <3> HIDE DEF o
    <3> QED
      BY <2>5, <2>7, <3>1, <3>2
  <2>9. SoundCache(Prev(h[m - 1]), looks, 2 * m)
    <3>1. CASE m = 1
      <4>1. Prev(h[m - 1]) = NoBundle
        BY <1>7, <2>5, <2>6, <2>7, <3>1
      <4> QED
        BY <4>1 DEF SoundCache
    <3>2. CASE m # 1
      <4>1. m - 1 \in 1..m - 1 /\ 2 * (m - 1) \in Nat /\ 2 * m \in Nat /\ 2 * (m - 1) <= 2 * m
        BY <2>5, <3>2
      <4>2. h[m - 1] # <<>>
        BY <1>7, <2>5, <2>6, <2>7, <3>2
      <4>3. Prev(h[m - 1]) = h[m - 1][m - 1].cache
        BY <1>7, <2>5, <2>6, <2>7, <4>2
      <4>4. SoundCache(Prev(h[m - 1]), looks, 2 * (m - 1))
        BY <2>6, <4>1, <4>3
      <4>5. \A k \in 1..2 * (m - 1) : k \in 1..2 * m
        BY <4>1
      <4> QED
        BY <4>4, <4>5 DEF SoundCache
    <3> QED
      BY <3>1, <3>2
  <2>10. SoundCache(o.cache, looks, 2 * m) /\ LabelTrue(o, looks, active, m)
    <3>1. m \in Nat \ {0}
      BY <1>2, <2>5
    <3> QED
      BY <2>9, <3>1, WindowLabelled
  <2>11. \A i \in 1..m : i = m \/ i \in 1..m - 1
    BY <2>5
  <2> HIDE DEF o
  <2>12. Good(m)
    BY <2>6, <2>8, <2>10, <2>11
  <2> QED
    BY <2>3, <2>12
<1>20. Good(n) /\ h[n] \in V
  <2>1. n \in 0..n
    BY <1>1
  <2> HIDE DEF Good
  <2> QED
    BY <1>18, <1>19, <2>1
<1>21. DOMAIN h[n] = 1..n /\ ClassifyRun(looks, active) = h[n]
  <2>1. DOMAIN h[n] = 1..Len(h[n])
    BY <1>20 DEF V
  <2> QED
    BY <1>1, <1>3, <1>17, <1>20, <2>1 DEF EndsAs
<1> QED
  BY <1>2, <1>20, <1>21

LEMMA ModelIsTrue == OfflineInv => ModelTrue
<1> SUFFICES ASSUME OfflineInv, job[1] = "model", out # "pending" PROVE ModelTrue
  BY DEF ModelTrue, Ran
<1> DEFINE j == job[2]
           looks == j.looks
           run == ClassifyRun(looks, j.active)
<1>1. j \in ModelCases /\ out[1] = run
  BY ResultOf DEF OfflineInv
<1>2. looks \in Seq(Range(looks))
  BY <1>1, OfflineAssumption DEF ModelCases
<1>3. \A i \in DOMAIN run : LabelTrue(run[i], looks, j.active, i)
  BY <1>2, RunLabelled
<1> HIDE DEF run
<1> QED
  BY <1>1, <1>3 DEF ModelTrue, LabelTrue

(* A window is labelled only by a bundle with the features the run works   *)
(* with, and by the bundle that is in the file once the file has been read *)
(* (model.py).                                                             *)
THEOREM ModelTrueHolds == OfflineSpec => []ModelTrue
<1> QED
  BY CaseIsKept, ModelIsTrue, PTL

-----------------------------------------------------------------------------
(* The hops of a link.                                                     *)

LEMMA MinOfNumbers ==
  ASSUME NEW T, T \subseteq Nat, T # {}
  PROVE  Min(T) \in T /\ \A k \in T : Min(T) <= k
<1>1. \E x \in T : \A y \in T : x <= y
  BY LeastNumber
<1> QED
  BY <1>1 DEF Min

LEMMA MaxOfBounded ==
  ASSUME NEW n \in Nat, NEW s \in SUBSET (0..n), s # {}
  PROVE  Max(s) \in s /\ \A k \in s : Max(s) >= k
<1> DEFINE T == {n - k : k \in s}
<1>1. T \subseteq Nat /\ T # {}
  <2>1. \A k \in s : k \in 0..n /\ n - k \in Nat
    OBVIOUS
  <2> QED
    BY <2>1
<1>2. PICK m \in T : \A k \in T : m <= k
  <2> HIDE DEF T
  <2> QED
    BY <1>1, LeastNumber
<1>3. PICK x \in s : m = n - x
  BY <1>2
<1>4. \A y \in s : x >= y
  <2> TAKE y \in s
  <2>1. n - y \in T
    OBVIOUS
  <2>2. m <= n - y
    BY <1>2, <2>1
  <2> QED
    BY <1>3, <2>2
<1> QED
  BY <1>3, <1>4 DEF Max

LEMMA SpacingIsInt ==
  ASSUME NEW board \in Boards, NEW n \in 1..50
  PROVE  NominalSpacing(board, n) \in Int
<1>1. board.lo \in Int /\ board.hi \in Int
  BY OfflineAssumption
<1>2. board.hi - board.lo \in Int /\ n + 2 \in Nat \ {0}
  BY <1>1
<1>3. (board.hi - board.lo) \div (n + 2) \in Int
  BY <1>2
<1>4. ((board.hi - board.lo) \div (n + 2) + 5000) \div 10000 \in Int
  BY <1>3
<1> QED
  BY <1>4 DEF NominalSpacing

Able(board, n, m) == {k \in m..50 : NominalSpacing(board, k) = NominalSpacing(board, n)}

LEMMA CountFits ==
  ASSUME NEW board \in Boards, NEW n \in 1..50, NEW m \in 3..50, Able(board, n, m) # {}
  PROVE  NumChannels(board, NominalSpacing(board, n), m) \in Able(board, n, m)
<1>0. PICK k \in m..50 : NominalSpacing(board, k) = NominalSpacing(board, n)
  BY DEF Able
<1> DEFINE NS(i) == NominalSpacing(board, i)
           spacing == NS(n)
           legal == HoldsChannels(LegalPairs(board), m)
           diffs == {AbsOf(p[1] - spacing) : p \in legal}
           best == Min(diffs)
           tied == {p[2] : p \in {q \in legal : AbsOf(q[1] - spacing) = best}}
<1>1. \A i \in 1..50 : NS(i) \in Int
  BY SpacingIsInt
<1>2. LegalPairs(board) = {<<NS(i), i>> : i \in 1..50}
  BY DEF LegalPairs
<1> HIDE DEF NS
<1>3. k \in 1..50 /\ m \in Nat
  OBVIOUS
<1>4. legal = {p \in LegalPairs(board) : p[2] >= m} /\ <<NS(k), k>> \in legal
  <2>1. <<NS(k), k>> \in {p \in LegalPairs(board) : p[2] >= m}
    BY <1>2, <1>3
  <2> QED
    BY <2>1 DEF HoldsChannels
<1>5. \A p \in legal : p[2] \in m..50 /\ p[1] = NS(p[2]) /\ p[1] \in Int
  BY <1>1, <1>2, <1>4
<1> HIDE DEF legal
<1>6. spacing \in Int /\ NS(k) = spacing
  BY <1>0, <1>1 DEF NS
<1> HIDE DEF spacing
<1>7. diffs \subseteq Nat /\ 0 \in diffs
  <2>1. \A p \in legal : AbsOf(p[1] - spacing) \in Nat
    BY <1>5, <1>6 DEF AbsOf
  <2>2. AbsOf(NS(k) - spacing) = 0
    BY <1>6 DEF AbsOf
  <2>3. <<NS(k), k>>[1] = NS(k)
    OBVIOUS
  <2> QED
    BY <1>4, <2>1, <2>2, <2>3
<1> HIDE DEF diffs
<1>8. best = 0
  <2>1. best \in diffs /\ \A d \in diffs : best <= d
    BY <1>7, MinOfNumbers DEF best
  <2>2. best \in Nat /\ best <= 0
    BY <1>7, <2>1
  <2> QED
    BY <2>2
<1> HIDE DEF best
<1>9. \A i \in tied : i \in m..50 /\ NS(i) = spacing
  <2> TAKE i \in tied
  <2>1. PICK p \in legal : AbsOf(p[1] - spacing) = best /\ i = p[2]
    OBVIOUS
  <2>2. p[1] = spacing
    BY <1>5, <1>6, <1>8, <2>1 DEF AbsOf
  <2> QED
    BY <1>5, <2>1, <2>2
<1>10. k \in tied
  <2>1. AbsOf(<<NS(k), k>>[1] - spacing) = best
    BY <1>6, <1>8 DEF AbsOf
  <2> QED
    BY <1>4, <2>1
<1>11. tied \subseteq Nat /\ tied # {}
  <2>1. \A i \in m..50 : i \in Nat
    BY <1>3
  <2> QED
    BY <1>9, <1>10, <2>1
<1> HIDE DEF tied
<1>12. Min(tied) \in tied
  BY <1>11, MinOfNumbers
<1>13. NumChannels(board, spacing, m) =
         IF best > 5000 THEN 0
         ELSE IF board.default \in tied THEN board.default ELSE Min(tied)
  BY DEF NumChannels, legal, diffs, best, tied
<1>14. NumChannels(board, spacing, m) \in tied
  BY <1>8, <1>12, <1>13
<1> QED
  BY <1>9, <1>14 DEF NS, spacing, Able

(* A draw of the hop map keeps it a permutation of the channels.           *)
MapsOf(n) == {f \in [0..n - 1 -> 0..n - 1] : \A i, k \in 0..n - 1 : f[i] = f[k] => i = k}

LEMMA SwapKeeps ==
  ASSUME NEW n \in Nat, NEW f \in MapsOf(n), NEW i \in 0..n - 1, NEW k \in 0..n - 1
  PROVE  SwapAt(f, i, k) \in MapsOf(n)
<1> DEFINE D == 0..n - 1
           g == SwapAt(f, i, k)
<1>1. f \in [D -> D] /\ \A a, b \in D : f[a] = f[b] => a = b
  BY DEF MapsOf
<1>2. g \in [D -> D]
  BY <1>1 DEF SwapAt
<1>3. \A a \in D : g[a] = IF a = k THEN f[i] ELSE IF a = i THEN f[k] ELSE f[a]
  BY <1>1 DEF SwapAt
<1> HIDE DEF g
<1>4. \A a, b \in D : g[a] = g[b] => a = b
  BY <1>1, <1>3
<1> HIDE DEF D
<1> QED
  BY <1>2, <1>4 DEF MapsOf, D, g

LEMMA NextStateIsNat == ASSUME NEW s \in Nat PROVE NextState(s) \in Nat
<1> DEFINE x == ((s \div 4096) * 3693 + (s % 4096) * 3172) % 4096
<1>1. s \div 4096 \in Int /\ s % 4096 \in Int
  OBVIOUS
<1>2. x \in Int
  BY <1>1
<1> HIDE DEF x
<1>3. x * 4096 + (s % 4096) * 3693 + 12345 \in Int
  BY <1>1, <1>2
<1>4. (x * 4096 + (s % 4096) * 3693 + 12345) % 16777216 \in Nat
  BY <1>3
<1> QED
  BY <1>4 DEF NextState, x

LEMMA DrawIsInside ==
  ASSUME NEW s \in Nat, NEW n \in Nat \ {0}
  PROVE  (s \div 65536) % n \in 0..n - 1
<1>1. s \div 65536 \in Int
  OBVIOUS
<1> QED
  BY <1>1

LEMMA HopMapIs ==
  ASSUME NEW seed \in Nat, NEW n \in Nat \ {0, 1}
  PROVE  HopMap(seed, n) \in MapsOf(n)
<1> DEFINE N == n - 1
           V == [s : Nat, map : MapsOf(n)]
           pos == [k \in 1..n - 1 |-> k - 1]
           base == [s |-> seed % 65536, map |-> [i \in 0..n - 1 |-> i]]
           Draw(acc, i) ==
             [s |-> NextState(acc.s),
              map |-> SwapAt(acc.map, i, (NextState(acc.s) \div 65536) % n)]
           G == [p \in V \X (1..N) |-> Draw(p[1], p[2] - 1)]
           IsFold(h) ==
             h = [s \in SUBSET (DOMAIN pos) |->
                    IF s = {} THEN base ELSE Draw(h[s \ {Max(s)}], pos[Max(s)])]
           iter == CHOOSE h : IsFold(h)
<1>1. N \in Nat /\ DOMAIN pos = 1..N
  OBVIOUS
<1>2. \A k \in 1..N : pos[k] = k - 1 /\ k - 1 \in 0..n - 1
  OBVIOUS
<1>3. HopMap(seed, n) = iter[DOMAIN pos].map
  BY DEF HopMap, FoldLeft, MapThenFoldSet
<1> HIDE DEF pos
<1>4. base \in V
  <2>1. [i \in 0..n - 1 |-> i] \in MapsOf(n)
    BY DEF MapsOf
  <2>2. seed % 65536 \in Nat
    OBVIOUS
  <2> QED
    BY <2>1, <2>2
<1>5. \A acc \in V, k \in 1..N : Draw(acc, k - 1) \in V
  <2> TAKE acc \in V, k \in 1..N
  <2>1. acc.s \in Nat /\ acc.map \in MapsOf(n)
    OBVIOUS
  <2>2. NextState(acc.s) \in Nat
    BY <2>1, NextStateIsNat
  <2>3. (NextState(acc.s) \div 65536) % n \in 0..n - 1
    BY <2>2, DrawIsInside
  <2>4. SwapAt(acc.map, k - 1, (NextState(acc.s) \div 65536) % n) \in MapsOf(n)
    BY <1>2, <2>1, <2>3, SwapKeeps
  <2> QED
    BY <2>2, <2>4
<1> HIDE DEF base, V, Draw
<1>6. G \in [V \X (1..N) -> V] /\ \A acc \in V, k \in 1..N : G[<<acc, k>>] = Draw(acc, k - 1)
  <2>1. \A p \in V \X (1..N) : p[1] \in V /\ p[2] \in 1..N
    OBVIOUS
  <2> HIDE DEF N
  <2> QED
    BY <1>5, <2>1
<1> HIDE DEF G, N
<1>8. PICK g : FoldsBy(g, V, G, base, N)
  BY <1>1, <1>4, <1>6, FoldExists
<1>9. /\ g = [s \in SUBSET (1..N) |-> g[s]] /\ \A s \in SUBSET (1..N) : g[s] \in V
      /\ g[{}] = base
      /\ \A s \in SUBSET (1..N) : s # {} => g[s] = G[<<g[s \ {Max(s)}], Max(s)>>]
  BY <1>8 DEF FoldsBy
<1>10. \A s \in SUBSET (1..N) : s # {} =>
         /\ Max(s) \in 1..N /\ pos[Max(s)] = Max(s) - 1 /\ s \ {Max(s)} \in SUBSET (1..N)
  BY <1>1, <1>2, MaxInside
<1>11. \A s \in SUBSET (1..N) : s # {} => g[s] = Draw(g[s \ {Max(s)}], pos[Max(s)])
  <2> TAKE s \in SUBSET (1..N)
  <2> HAVE s # {}
  <2>1. g[s \ {Max(s)}] \in V /\ Max(s) \in 1..N /\ pos[Max(s)] = Max(s) - 1
    BY <1>9, <1>10
  <2>2. g[s] = G[<<g[s \ {Max(s)}], Max(s)>>]
    BY <1>9
  <2> QED
    BY <1>6, <2>1, <2>2
<1>12. IsFold(g)
  <2>1. \A s \in SUBSET (1..N) :
          g[s] = IF s = {} THEN base ELSE Draw(g[s \ {Max(s)}], pos[Max(s)])
    BY <1>9, <1>11
  <2> QED
    BY <1>1, <1>9, <2>1
<1>13. IsFold(iter)
  BY <1>12
<1> HIDE DEF iter
<1>14. iter[{}] = base
  BY <1>13
<1>15. \A s \in SUBSET (1..N) : s # {} => iter[s] = Draw(iter[s \ {Max(s)}], pos[Max(s)])
  BY <1>1, <1>13
<1>16. Iterates(iter, V, G, base, N)
  <2>1. ASSUME NEW s \in SUBSET (1..N), s # {}, iter[s \ {Max(s)}] \in V
        PROVE  iter[s] = G[<<iter[s \ {Max(s)}], Max(s)>>]
    <3>1. Max(s) \in 1..N /\ pos[Max(s)] = Max(s) - 1
      BY <1>10, <2>1
    <3>2. iter[s] = Draw(iter[s \ {Max(s)}], pos[Max(s)])
      BY <1>15, <2>1
    <3> QED
      BY <1>6, <2>1, <3>1, <3>2
  <2> QED
    BY <1>14, <2>1 DEF Iterates
<1>17. PICK h : Steps(h, V, G, base, N) /\ EndsAs(h, iter, N)
  BY <1>1, <1>4, <1>6, <1>16, StepsOf
<1>18. iter[1..N] \in V
  <2>1. N \in 0..N
    BY <1>1
  <2> QED
    BY <1>17, <2>1 DEF Steps, EndsAs
<1> QED
  BY <1>1, <1>3, <1>18 DEF V

-----------------------------------------------------------------------------
(* Remainders: of a number, and of one that differs by a multiple.         *)
LEMMA QuotientOf ==
  ASSUME NEW a \in Int, NEW n \in Nat \ {0}
  PROVE  a \div n \in Int /\ a % n \in 0..n - 1 /\ a = n * (a \div n) + (a % n)
OBVIOUS

LEMMA OneRemainder ==
  ASSUME NEW n \in Nat \ {0}, NEW p \in Int, NEW q \in Int,
         NEW r \in 0..n - 1, NEW s \in 0..n - 1, n * p + r = n * q + s
  PROVE  r = s
<1>1. CASE p = q
  BY <1>1
<1>2. CASE p > q
  <2>1. n * (p - q) >= n
    BY <1>2
  <2> QED
    BY <2>1
<1>3. CASE q > p
  <2>1. n * (q - p) >= n
    BY <1>3
  <2> QED
    BY <2>1
<1> QED
  BY <1>1, <1>2, <1>3

PhaseAt(a, w, n) == (((a + w) % n) - w) % n

LEMMA PhaseOf ==
  ASSUME NEW a \in Int, NEW w \in Int, NEW n \in Nat \ {0}
  PROVE  PhaseAt(a, w, n) = a % n
<1> DEFINE q == (a + w) \div n
           b == (a + w) % n
<1>1. q \in Int /\ b \in Int /\ a + w = n * q + b
  BY QuotientOf
<1> HIDE DEF q, b
<1>2. b - w \in Int
  BY <1>1
<1>3. /\ (b - w) \div n \in Int /\ (b - w) % n \in 0..n - 1
      /\ b - w = n * ((b - w) \div n) + ((b - w) % n)
  BY <1>2, QuotientOf
<1>4. a \div n \in Int /\ a % n \in 0..n - 1 /\ a = n * (a \div n) + (a % n)
  BY QuotientOf
<1>5. n * ((b - w) \div n + q) + ((b - w) % n) = n * (a \div n) + (a % n)
  BY <1>1, <1>3, <1>4
<1>6. (b - w) % n = a % n
  <2> DEFINE p == (b - w) \div n + q
             r == (b - w) % n
             c == a \div n
             d == a % n
  <2>1. p \in Int /\ c \in Int /\ r \in 0..n - 1 /\ d \in 0..n - 1 /\ n * p + r = n * c + d
    BY <1>1, <1>3, <1>4, <1>5
  <2> HIDE DEF p, r, c, d
  <2>2. r = d
    BY <2>1, OneRemainder
  <2> QED
    BY <2>2 DEF r, d
<1> QED
  BY <1>6 DEF b, PhaseAt

LEMMA FiveMax ==
  ASSUME NEW b \in Int
  PROVE  Max({5, b}) \in Int /\ Max({5, b}) >= 5
<1>1. \E x \in {5, b} : \A y \in {5, b} : x >= y
  OBVIOUS
<1> QED
  BY <1>1 DEF Max

LEMMA SeedFound ==
  ASSUME NEW j \in Schedules,
         Cardinality(j.misheard \cap 1..j.hops) <= j.hops - Max({5, j.hops - 2})
  PROVE  j.seed \in SeedCandidates(Observed(j), j.n, HopMaps(j.n))
<1> DEFINE n == j.n
           hops == j.hops
           start == j.start
           map == HopMap(j.seed, n)
           obs == Observed(j)
           wrong == j.misheard \cap 1..hops
           Phase(w) == (PositionOf(map, obs[w]) - w) % n
           At(r) == {w \in DOMAIN obs : Phase(w) = r}
           need == Max({5, hops - 2})
<1>1. /\ j.seed \in Seeds /\ j.seed \in Nat /\ n \in Nat \ {0, 1}
      /\ start \in Nat /\ hops \in Nat
  BY OfflineAssumption
<1>2. map \in MapsOf(n)
  BY <1>1, HopMapIs
<1>3. obs = [w \in 1..hops |-> IF w \in j.misheard THEN (map[(start + w) % n] + 1) % n
                               ELSE map[(start + w) % n]]
  BY DEF Observed
<1>4. DOMAIN obs = 1..hops
  BY <1>3
<1>5. Len(obs) = hops /\ (hops > 0 => obs # <<>>)
  BY <1>1, <1>3
<1>6. HopMaps(n)[j.seed] = map /\ j.seed \in DOMAIN HopMaps(n)
  BY <1>1 DEF HopMaps
<1> HIDE DEF map, obs, n, hops, start
<1>0. need \in Int /\ need >= 5
  <2> DEFINE b == hops - 2
  <2>1. b \in Int
    BY <1>1
  <2> HIDE DEF b
  <2>2. Max({5, b}) \in Int /\ Max({5, b}) >= 5
    BY <2>1, FiveMax
  <2> QED
    BY <2>2 DEF b
<1>7. ASSUME NEW w \in (1..hops) \ wrong PROVE Phase(w) = start % n
  <2>0. n \in Nat \ {0} /\ start \in Int /\ w \in Int /\ start + w \in Int
    BY <1>1
  <2>1. (start + w) % n \in 0..n - 1
    BY <2>0, QuotientOf
  <2>2. obs[w] = map[(start + w) % n]
    BY <1>3
  <2>3. /\ DOMAIN map = 0..n - 1
        /\ \A p \in DOMAIN map : map[p] = obs[w] => p = (start + w) % n
    BY <1>2, <2>1, <2>2 DEF MapsOf
  <2>4. PositionOf(map, obs[w]) = (start + w) % n
    BY <2>1, <2>2, <2>3 DEF PositionOf
  <2>6. PhaseAt(start, w, n) = start % n
    BY <2>0, PhaseOf
  <2> QED
    BY <2>4, <2>6 DEF PhaseAt
<1>8. start % n \in 0..n - 1
  BY <1>1, QuotientOf
<1>9. /\ IsFiniteSet(1..hops) /\ Cardinality(1..hops) = hops
      /\ Cardinality((1..hops) \ wrong) = hops - Cardinality(wrong)
  <2>1. IsFiniteSet(1..hops) /\ Cardinality(1..hops) = hops
    <3>1. 1 \in Int /\ hops \in Int
      BY <1>1
    <3>2. IsFiniteSet(1..hops) /\ Cardinality(1..hops) = IF 1 > hops THEN 0 ELSE hops - 1 + 1
      BY <3>1, FS_Interval
    <3> QED
      BY <1>1, <3>2
  <2>2. (1..hops) \cap wrong = wrong
    OBVIOUS
  <2>3. Cardinality((1..hops) \ wrong) = Cardinality(1..hops) - Cardinality((1..hops) \cap wrong)
    <3> HIDE DEF wrong
    <3> QED
      BY <2>1, FS_Difference
  <2> QED
    BY <2>1, <2>2, <2>3
<1>10. ASSUME NEW r PROVE Cardinality(At(r)) \in 0..hops
  <2>1. At(r) \subseteq 1..hops
    BY <1>4
  <2> HIDE DEF At
  <2>2. /\ IsFiniteSet(At(r)) /\ Cardinality(At(r)) \in Nat
        /\ Cardinality(At(r)) <= Cardinality(1..hops)
    BY <1>9, <2>1, FS_Subset, FS_CardinalityType
  <2> QED
    BY <1>1, <1>9, <2>2
<1>11. Cardinality(At(start % n)) >= need
  <2>1. (1..hops) \ wrong \subseteq At(start % n) /\ At(start % n) \subseteq 1..hops
    BY <1>4, <1>7
  <2> HIDE DEF At
  <2>2. /\ IsFiniteSet(At(start % n)) /\ Cardinality(At(start % n)) \in Nat
        /\ Cardinality((1..hops) \ wrong) <= Cardinality(At(start % n))
    BY <1>9, <2>1, FS_Subset, FS_CardinalityType
  <2>3. IsFiniteSet(wrong) /\ Cardinality(wrong) \in Nat
    BY <1>9, FS_Subset, FS_CardinalityType
  <2>4. Cardinality(wrong) <= hops - need
    BY DEF hops
  <2>5. need \in Int
    BY <1>0
  <2> HIDE DEF need, wrong
  <2> QED
    BY <1>1, <1>9, <2>2, <2>3, <2>4, <2>5
<1> DEFINE counts == {Cardinality(At(r)) : r \in 0..n - 1}
<1>12. BestMatch(map, obs, n) = Max(counts)
  BY DEF BestMatch
<1>13. counts \in SUBSET (0..hops) /\ Cardinality(At(start % n)) \in counts
  <2> HIDE DEF At
  <2> QED
    BY <1>8, <1>10
<1> HIDE DEF counts
<1>14. Max(counts) \in 0..hops /\ Max(counts) >= Cardinality(At(start % n))
  BY <1>1, <1>13, MaxOfBounded
<1>15. need \in Int /\ need >= 5
  BY <1>0
<1>16. BestMatch(map, obs, n) >= need
  <2> DEFINE c == Cardinality(At(start % n))
  <2>1. c \in 0..hops /\ c >= need
    BY <1>10, <1>11
  <2> HIDE DEF c, need
  <2> QED
    BY <1>1, <1>12, <1>14, <1>15, <2>1 DEF c
<1>17. hops > 0
  <2>1. IsFiniteSet(wrong) /\ Cardinality(wrong) \in Nat
    BY <1>9, FS_Subset, FS_CardinalityType
  <2>2. Cardinality(wrong) <= hops - need
    BY DEF hops
  <2> HIDE DEF need, wrong
  <2> QED
    BY <1>1, <1>15, <2>1, <2>2
<1>18. /\ obs # <<>> /\ n >= 2
       /\ BestMatch(HopMaps(n)[j.seed], obs, n) >= Max({5, Len(obs) - 2})
  BY <1>1, <1>5, <1>6, <1>16, <1>17
<1> QED
  BY <1>6, <1>18 DEF SeedCandidates, obs, n

LEMMA HopsAreTrue == OfflineInv => HopsTrue
<1> SUFFICES ASSUME OfflineInv, out # "pending" PROVE HopsTrue
  BY DEF HopsTrue, Ran
<1>1. ASSUME job[1] = "hops",
             Cardinality(job[2].misheard \cap 1..job[2].hops)
               <= job[2].hops - Max({5, job[2].hops - 2})
      PROVE  job[2].seed \in out[1]
  <2>1. out[1] = SeedCandidates(Observed(job[2]), job[2].n, HopMaps(job[2].n))
    BY <1>1, ResultOf
  <2>2. job[2] \in Schedules
    BY <1>1 DEF OfflineInv
  <2> QED
    BY <1>1, <2>1, <2>2, SeedFound
<1>2. ASSUME job[1] = "channels"
      PROVE  LET j == job[2]
                 able == {n \in j.seen..50 : NominalSpacing(j.board, n) = NominalSpacing(j.board, j.n)}
             IN  able # {} => out[1] \in able
  <2> DEFINE j == job[2]
             able == {n \in j.seen..50 : NominalSpacing(j.board, n) = NominalSpacing(j.board, j.n)}
  <2>1. out[1] = NumChannels(j.board, NominalSpacing(j.board, j.n), j.seen)
    BY <1>2, ResultOf
  <2>2. j.board \in Boards /\ j.n \in 1..50 /\ j.seen \in 3..50
    BY <1>2 DEF OfflineInv, ChannelCases
  <2>3. ASSUME able # {} PROVE out[1] \in able
    <3>1. Able(j.board, j.n, j.seen) # {}
      BY <2>3 DEF Able
    <3> HIDE DEF j
    <3>2. NumChannels(j.board, NominalSpacing(j.board, j.n), j.seen) \in Able(j.board, j.n, j.seen)
      BY <2>2, <3>1, CountFits
    <3> QED
      BY <2>1, <3>2 DEF Able, j
  <2> QED
    BY <2>3
<1> QED
  BY <1>1, <1>2 DEF HopsTrue, Ran

(* The seed of a link is among the candidates when enough hops were heard   *)
(* right, and the channel count fits what was seen, for every seed, count, *)
(* start and set of misheard hops (hop_decode.py, raster.py).              *)
THEOREM HopsTrueHolds == OfflineSpec => []HopsTrue
<1> QED
  BY CaseIsKept, HopsAreTrue, PTL

-----------------------------------------------------------------------------
(* The benchmark of the features.                                          *)

LEMMA NoLeak ==
  ASSUME NEW f, ~Leaks(f)
  PROVE  /\ GroupsIn(f.train) \cap GroupsIn(f.test) = {}
         /\ GroupsIn(f.train) \cap GroupsIn(f.reserved) = {}
         /\ GroupsIn(f.test) \cap GroupsIn(f.reserved) = {}
<1> DEFINE A == GroupsIn(f.train)
           B == GroupsIn(f.test)
           C == GroupsIn(f.reserved)
           parts == <<A, B, C>>
<1>1. ~Overlap(parts)
  BY DEF Leaks
<1>2. \A i, k \in DOMAIN parts : i < k => parts[i] \cap parts[k] = {}
  BY <1>1 DEF Overlap
<1>3. DOMAIN parts = 1..3 /\ parts[1] = A /\ parts[2] = B /\ parts[3] = C
  OBVIOUS
<1>4. 1 \in 1..3 /\ 2 \in 1..3 /\ 3 \in 1..3 /\ 1 < 2 /\ 1 < 3 /\ 2 < 3
  OBVIOUS
<1> HIDE DEF parts
<1> QED
  BY <1>2, <1>3, <1>4

(* A fold of tier A holds out the rows of a model of the drones.           *)
LEMMA TierAFolds ==
  ASSUME NEW zenodo, NEW antsdr
  PROVE  \/ TierA(zenodo, antsdr) = {}
         \/ LET pos == DroneLink(zenodo)
                kept == Reserved(antsdr)
                Of(m) == {r \in pos : r.dev = m}
            IN  /\ \A f \in TierA(zenodo, antsdr) : \E q \in pos :
                     f = Fold((pos \ Of(q.dev)) \cup (antsdr \ kept), Of(q.dev), kept)
                /\ \A q \in pos :
                     Fold((pos \ Of(q.dev)) \cup (antsdr \ kept), Of(q.dev), kept)
                       \in TierA(zenodo, antsdr)
<1> DEFINE pos == DroneLink(zenodo)
           kept == Reserved(antsdr)
           pool == antsdr \ kept
           Of(m) == {r \in pos : r.dev = m}
<1>1. HeldOut(pos) = {Of(m) : m \in {r.dev : r \in pos}}
  BY DEF HeldOut
<1>2. \/ TierA(zenodo, antsdr) = {}
      \/ TierA(zenodo, antsdr) = {Fold((pos \ test) \cup pool, test, kept) : test \in HeldOut(pos)}
  BY DEF TierA
<1> HIDE DEF pos, kept, pool, Of
<1>3. \A test : test \in HeldOut(pos) <=> \E q \in pos : test = Of(q.dev)
  BY <1>1
<1>4. \/ TierA(zenodo, antsdr) = {}
      \/ /\ \A f \in TierA(zenodo, antsdr) : \E q \in pos :
              f = Fold((pos \ Of(q.dev)) \cup pool, Of(q.dev), kept)
         /\ \A q \in pos :
              Fold((pos \ Of(q.dev)) \cup pool, Of(q.dev), kept) \in TierA(zenodo, antsdr)
  <2> DEFINE FoldOf(test) == Fold((pos \ test) \cup pool, test, kept)
             A == TierA(zenodo, antsdr)
  <2>1. CASE A = {FoldOf(test) : test \in HeldOut(pos)}
    <3>1. \A f : f \in A <=> \E test \in HeldOut(pos) : f = FoldOf(test)
      BY <2>1
    <3> HIDE DEF FoldOf, A
    <3>2. \A f \in A : \E q \in pos : f = FoldOf(Of(q.dev))
      BY <1>3, <3>1
    <3>3. \A q \in pos : FoldOf(Of(q.dev)) \in A
      BY <1>3, <3>1
    <3> QED
      BY <3>2, <3>3 DEF FoldOf, A
  <2> QED
    BY <1>2, <2>1
<1> QED
  BY <1>4 DEF pos, kept, pool, Of

LEMMA TierDFolds ==
  ASSUME NEW antsdr, NEW public
  PROVE  \/ TierD(antsdr, public) = {}
         \/ LET Of(g) == {r \in antsdr : GroupOf(r) = g}
            IN  /\ \A f \in TierD(antsdr, public) : \E q \in antsdr :
                     f = Fold((antsdr \ Of(GroupOf(q))) \cup public, Of(GroupOf(q)), {})
                /\ \A q \in antsdr :
                     Fold((antsdr \ Of(GroupOf(q))) \cup public, Of(GroupOf(q)), {})
                       \in TierD(antsdr, public)
BY DEF TierD, GroupsIn

LEMMA BenchmarkIs ==
  ASSUME NEW zenodo, NEW antsdr, NEW rub, Benchmark(zenodo, antsdr, rub).exit = 0
  PROVE  LET b == Benchmark(zenodo, antsdr, rub)
         IN  /\ b.a = TierA(zenodo, antsdr) /\ b.b = TierB(zenodo, antsdr, rub)
             /\ b.d = TierD(antsdr, DroneLink(zenodo \cup rub))
             /\ \A f \in b.a \cup b.b \cup b.d : ~Leaks(f)
<1> DEFINE a == TierA(zenodo, antsdr)
           b == TierB(zenodo, antsdr, rub)
           d == TierD(antsdr, DroneLink(zenodo \cup rub))
           got == Benchmark(zenodo, antsdr, rub)
<1>1. got = IF \E f \in a \cup b \cup d : Leaks(f) THEN [exit |-> 4]
            ELSE IF zenodo \cup antsdr \cup rub = {} THEN [exit |-> 2]
            ELSE [exit |-> 0, a |-> a, b |-> b, d |-> d]
  BY DEF Benchmark
<1>2. got.exit = 0
  OBVIOUS
<1> HIDE DEF a, b, d, got
<1>3. (\A f \in a \cup b \cup d : ~Leaks(f)) /\ got = [exit |-> 0, a |-> a, b |-> b, d |-> d]
  BY <1>1, <1>2
<1>4. got.a = a /\ got.b = b /\ got.d = d
  BY <1>3
<1>5. \A f \in got.a \cup got.b \cup got.d : ~Leaks(f)
  BY <1>3, <1>4
<1> QED
  BY <1>4, <1>5 DEF a, b, d, got

LEMMA TierAFair ==
  ASSUME NEW zenodo, NEW antsdr,
         zenodo = antsdr \/ \A r \in zenodo, s \in antsdr : r.ds # s.ds,
         \A f \in TierA(zenodo, antsdr) : ~Leaks(f)
  PROVE  LET Models(R) == {<<r.ds, r.dev>> : r \in R}
             a == TierA(zenodo, antsdr)
         IN  /\ zenodo = antsdr => a = {}
             /\ \A f \in a : Models(DroneLink(f.train)) \cap Models(f.test) = {}
             /\ a # {} => \A g \in GroupsIn(DroneLink(zenodo)) :
                            Cardinality({f \in a : g \in GroupsIn(f.test)}) = 1
<1> DEFINE Models(R) == {<<r.ds, r.dev>> : r \in R}
           a == TierA(zenodo, antsdr)
           pos == DroneLink(zenodo)
           kept == Reserved(antsdr)
           pool == antsdr \ kept
           Of(m) == {r \in pos : r.dev = m}
           FoldOf(q) == Fold((pos \ Of(q.dev)) \cup pool, Of(q.dev), kept)
<1>0. CASE a = {}
  BY <1>0
<1>1. CASE a # {}
  <2>1. /\ \A f \in a : \E q \in pos : f = FoldOf(q)
        /\ \A q \in pos : FoldOf(q) \in a
    BY <1>1, TierAFolds
  <2>2. pos \subseteq zenodo
    BY DEF DroneLink
  <2>3. \A q : /\ FoldOf(q).train = (pos \ Of(q.dev)) \cup pool
               /\ FoldOf(q).test = Of(q.dev) /\ FoldOf(q).reserved = kept
    BY DEF Fold
  <2> HIDE DEF a, FoldOf, pos
  <2>4. zenodo # antsdr
    <3>1. SUFFICES ASSUME zenodo = antsdr PROVE FALSE
      OBVIOUS
    <3>2. PICK f \in a : TRUE
      BY <1>1
    <3>3. PICK q \in pos : f = FoldOf(q)
      BY <2>1
    <3>4. ~Leaks(f)
      BY DEF a
    <3>5. q \in f.test /\ (q \in f.train \/ q \in f.reserved)
      BY <2>2, <2>3, <3>1, <3>3
    <3>6. /\ GroupOf(q) \in GroupsIn(f.test)
          /\ GroupOf(q) \in GroupsIn(f.train) \/ GroupOf(q) \in GroupsIn(f.reserved)
      BY <3>5 DEF GroupsIn
    <3> QED
      BY <3>4, <3>6, NoLeak
  <2>5. ASSUME NEW f \in a PROVE Models(DroneLink(f.train)) \cap Models(f.test) = {}
    <3>1. PICK q \in pos : f = FoldOf(q)
      BY <2>1
    <3>2. ASSUME NEW r \in DroneLink(f.train), NEW t \in f.test, <<r.ds, r.dev>> = <<t.ds, t.dev>>
          PROVE  FALSE
      <4>1. r.ds = t.ds /\ r.dev = t.dev
        BY <3>2
      <4>2. r \in f.train
        BY DEF DroneLink
      <4>3. t \in pos /\ t.dev = q.dev
        BY <2>3, <3>1
      <4>4. r \in pool
        BY <2>3, <3>1, <4>1, <4>2, <4>3
      <4>5. t.ds # r.ds
        BY <2>2, <2>4, <4>3, <4>4
      <4> QED
        BY <4>1, <4>5
    <3>3. \A x \in Models(DroneLink(f.train)) : \E r \in DroneLink(f.train) : x = <<r.ds, r.dev>>
      OBVIOUS
    <3>4. \A x \in Models(f.test) : \E t \in f.test : x = <<t.ds, t.dev>>
      OBVIOUS
    <3> HIDE DEF Models
    <3> QED
      BY <3>2, <3>3, <3>4
  <2>6. ASSUME NEW g \in GroupsIn(pos)
        PROVE  Cardinality({f \in a : g \in GroupsIn(f.test)}) = 1
    <3>1. PICK q \in pos : g = GroupOf(q)
      BY DEF GroupsIn
    <3>2. FoldOf(q) \in a /\ g \in GroupsIn(FoldOf(q).test)
      <4>1. q \in FoldOf(q).test
        BY <2>3
      <4> QED
        BY <2>1, <3>1, <4>1 DEF GroupsIn
    <3>3. ASSUME NEW f \in a, g \in GroupsIn(f.test) PROVE f = FoldOf(q)
      <4>1. PICK p \in pos : f = FoldOf(p)
        BY <2>1
      <4>2. PICK r \in f.test : g = GroupOf(r)
        BY <3>3 DEF GroupsIn
      <4>3. r.dev = p.dev
        BY <2>3, <4>1
      <4>4. r.dev = q.dev
        BY <3>1, <4>2 DEF GroupOf
      <4> QED
        BY <4>1, <4>3, <4>4 DEF FoldOf
    <3>4. {f \in a : g \in GroupsIn(f.test)} = {FoldOf(q)}
      BY <3>2, <3>3
    <3> QED
      BY <3>4, FS_Singleton
  <2> QED
    BY <2>4, <2>5, <2>6 DEF a, pos
<1> QED
  BY <1>0, <1>1

LEMMA TierDFair ==
  ASSUME NEW antsdr, NEW public, \A f \in TierD(antsdr, public) : ~Leaks(f)
  PROVE  LET d == TierD(antsdr, public)
         IN  /\ public \cap antsdr # {} => d = {}
             /\ d # {} => \A g \in GroupsIn(antsdr) :
                            Cardinality({f \in d : g \in GroupsIn(f.test)}) = 1
<1> DEFINE d == TierD(antsdr, public)
           Of(g) == {r \in antsdr : GroupOf(r) = g}
           FoldOf(q) == Fold((antsdr \ Of(GroupOf(q))) \cup public, Of(GroupOf(q)), {})
<1>0. CASE d = {}
  BY <1>0
<1>1. CASE d # {}
  <2>1. /\ \A f \in d : \E q \in antsdr : f = FoldOf(q)
        /\ \A q \in antsdr : FoldOf(q) \in d
    BY <1>1, TierDFolds
  <2>2. \A q : /\ FoldOf(q).train = (antsdr \ Of(GroupOf(q))) \cup public
               /\ FoldOf(q).test = Of(GroupOf(q))
    BY DEF Fold
  <2>3. \A f \in d : ~Leaks(f)
    OBVIOUS
  <2> HIDE DEF d, FoldOf
  <2>4. public \cap antsdr = {}
    <3>1. SUFFICES ASSUME NEW q \in public \cap antsdr PROVE FALSE
      OBVIOUS
    <3>2. q \in FoldOf(q).test /\ q \in FoldOf(q).train /\ ~Leaks(FoldOf(q))
      BY <2>1, <2>2, <2>3
    <3>3. GroupOf(q) \in GroupsIn(FoldOf(q).test) /\ GroupOf(q) \in GroupsIn(FoldOf(q).train)
      BY <3>2 DEF GroupsIn
    <3> QED
      BY <3>2, <3>3, NoLeak
  <2>5. ASSUME NEW g \in GroupsIn(antsdr)
        PROVE  Cardinality({f \in d : g \in GroupsIn(f.test)}) = 1
    <3>1. PICK q \in antsdr : g = GroupOf(q)
      BY DEF GroupsIn
    <3>2. FoldOf(q) \in d /\ g \in GroupsIn(FoldOf(q).test)
      <4>1. q \in FoldOf(q).test
        BY <2>2
      <4> QED
        BY <2>1, <3>1, <4>1 DEF GroupsIn
    <3>3. ASSUME NEW f \in d, g \in GroupsIn(f.test) PROVE f = FoldOf(q)
      <4>1. PICK p \in antsdr : f = FoldOf(p)
        BY <2>1
      <4>2. PICK r \in f.test : g = GroupOf(r)
        BY <3>3 DEF GroupsIn
      <4>3. GroupOf(r) = GroupOf(p)
        BY <2>2, <4>1
      <4> QED
        BY <3>1, <4>1, <4>2, <4>3 DEF FoldOf
    <3>4. {f \in d : g \in GroupsIn(f.test)} = {FoldOf(q)}
      BY <3>2, <3>3
    <3> QED
      BY <3>4, FS_Singleton
  <2> QED
    BY <2>4, <2>5 DEF d
<1> QED
  BY <1>0, <1>1

(* What the first two conjuncts of FoldsAreFair say of the benchmark.      *)
BenchFair(b, c) ==
  /\ b.exit = 0 =>
       LET Models(R) == {<<r.ds, r.dev>> : r \in R}
           Once(R, folds) == \A g \in GroupsIn(R) :
                               Cardinality({f \in folds : g \in GroupsIn(f.test)}) = 1
       IN  /\ \A f \in b.a \cup b.b \cup b.d :
                GroupsIn(f.train) \cap GroupsIn(f.test \cup f.reserved) = {}
           /\ \A f \in b.a : Models(DroneLink(f.train)) \cap Models(f.test) = {}
           /\ b.a # {} => Once(DroneLink(c.zenodo), b.a)
           /\ b.d # {} => Once(c.antsdr, b.d)
  /\ c.zenodo = c.antsdr =>
       (b.exit = 0 => b.a = {} /\ (DroneLink(c.zenodo) # {} => b.d = {}))

LEMMA BenchIsFair ==
  ASSUME NEW c \in Corpora
  PROVE  BenchFair(Benchmark(c.zenodo, c.antsdr, c.rub), c)
<1> DEFINE b == Benchmark(c.zenodo, c.antsdr, c.rub)
           public == DroneLink(c.zenodo \cup c.rub)
<1>1. SUFFICES ASSUME b.exit = 0 PROVE BenchFair(b, c)
  BY DEF BenchFair
<1>2. /\ b.a = TierA(c.zenodo, c.antsdr) /\ b.d = TierD(c.antsdr, public)
      /\ \A f \in b.a \cup b.b \cup b.d : ~Leaks(f)
  <2>1. \A f \in b.a \cup b.b \cup b.d : ~Leaks(f)
    BY <1>1, BenchmarkIs, Zenon
  <2>2. b.a = TierA(c.zenodo, c.antsdr) /\ b.d = TierD(c.antsdr, public)
    BY <1>1, BenchmarkIs
  <2> QED
    BY <2>1, <2>2
<1>3. c.zenodo = c.antsdr \/ \A r \in c.zenodo, s \in c.antsdr : r.ds # s.ds
  BY EvaluationAssumption
<1> HIDE DEF b
<1>4. ASSUME NEW f \in b.a \cup b.b \cup b.d
      PROVE  GroupsIn(f.train) \cap GroupsIn(f.test \cup f.reserved) = {}
  <2>1. GroupsIn(f.test \cup f.reserved) = GroupsIn(f.test) \cup GroupsIn(f.reserved)
    BY DEF GroupsIn
  <2>2. ~Leaks(f)
    BY <1>2
  <2> QED
    BY <2>1, <2>2, NoLeak
<1>5. LET Models(R) == {<<r.ds, r.dev>> : r \in R}
      IN  /\ c.zenodo = c.antsdr => b.a = {}
          /\ \A f \in b.a : Models(DroneLink(f.train)) \cap Models(f.test) = {}
          /\ b.a # {} => \A g \in GroupsIn(DroneLink(c.zenodo)) :
                           Cardinality({f \in b.a : g \in GroupsIn(f.test)}) = 1
  <2>1. \A f \in TierA(c.zenodo, c.antsdr) : ~Leaks(f)
    BY <1>2
  <2> QED
    BY <1>2, <1>3, <2>1, TierAFair
<1>6. /\ public \cap c.antsdr # {} => b.d = {}
      /\ b.d # {} => \A g \in GroupsIn(c.antsdr) :
                       Cardinality({f \in b.d : g \in GroupsIn(f.test)}) = 1
  <2>1. \A f \in TierD(c.antsdr, public) : ~Leaks(f)
    BY <1>2
  <2> HIDE DEF public
  <2> QED
    BY <1>2, <2>1, TierDFair
<1>7. c.zenodo = c.antsdr /\ DroneLink(c.zenodo) # {} => public \cap c.antsdr # {}
  BY DEF DroneLink
<1> HIDE DEF public
<1> QED
  BY <1>4, <1>5, <1>6, <1>7 DEF BenchFair

LEMMA LoadingIsFair ==
  ASSUME NEW j \in Loadings, j.limit = 0
  PROVE  LET ws == j.windows
             used == UsedRows(ws, j.limit)
             good == {i \in DOMAIN ws : ws[i].tensor = "good"}
         IN  /\ \A i, k \in {n \in good : ws[n].typed = "absent"} :
                  ws[i].run = ws[k].run => (i \in used <=> k \in used)
             /\ \A i \in good : ws[i].typed = "ok" => i \in used
<1> DEFINE ws == j.windows
           used == UsedRows(ws, 0)
           good == {i \in DOMAIN ws : ws[i].tensor = "good"}
<1>1. ws \in Seq(Range(ws))
  BY EvaluationAssumption
<1>2. used = {i \in DOMAIN ws : ~RateDeficit(ws, ws[i]) /\ ws[i].tensor = "good"}
  BY <1>1, UsedRowsAre
<1> HIDE DEF ws, used
<1>3. ASSUME NEW i \in {n \in good : ws[n].typed = "absent"},
             NEW k \in {n \in good : ws[n].typed = "absent"}, ws[i].run = ws[k].run
      PROVE  i \in used <=> k \in used
  <2>1. /\ RateDeficit(ws, ws[i]) = RunRatioTooLow(ws, ws[i])
        /\ RateDeficit(ws, ws[k]) = RunRatioTooLow(ws, ws[k])
    BY DEF RateDeficit
  <2>2. RunRatioTooLow(ws, ws[i]) = RunRatioTooLow(ws, ws[k])
    BY <1>3 DEF RunRatioTooLow
  <2> QED
    BY <1>2, <2>1, <2>2
<1>4. ASSUME NEW i \in good, ws[i].typed = "ok" PROVE i \in used
  <2>1. ~RateDeficit(ws, ws[i])
    BY <1>4 DEF RateDeficit
  <2> QED
    BY <1>2, <2>1
<1> QED
  BY <1>3, <1>4 DEF ws, used

-----------------------------------------------------------------------------
(* The budget of stage 1.                                                  *)

TotalOf(sessions, label) == FoldLeft(LAMBDA n, s : n + CountIn(s, label), 0, sessions)

LEMMA TotalIsZero ==
  ASSUME NEW S, NEW sessions \in Seq(S), NEW label,
         \A i \in DOMAIN sessions : CountIn(sessions[i], label) \in Nat,
         TotalOf(sessions, label) = 0
  PROVE  \A i \in DOMAIN sessions : CountIn(sessions[i], label) = 0
<1> DEFINE n == Len(sessions)
           V == Nat
           Add(t, s) == t + CountIn(s, label)
           G == [p \in V \X (1..n) |-> Add(p[1], sessions[p[2]])]
           IsFold(h) ==
             h = [s \in SUBSET (DOMAIN sessions) |->
                    IF s = {} THEN 0 ELSE Add(h[s \ {Max(s)}], sessions[Max(s)])]
           iter == CHOOSE h : IsFold(h)
<1>1. n \in Nat /\ DOMAIN sessions = 1..n /\ 0 \in V
  OBVIOUS
<1>2. TotalOf(sessions, label) = iter[DOMAIN sessions]
  BY DEF TotalOf, FoldLeft, MapThenFoldSet
<1> HIDE DEF n
<1>3. \A t \in Nat, i \in 1..n : /\ Add(t, sessions[i]) \in Nat
                                /\ Add(t, sessions[i]) >= t
                                /\ Add(t, sessions[i]) >= CountIn(sessions[i], label)
  <2> TAKE t \in Nat, i \in 1..n
  <2>1. CountIn(sessions[i], label) \in Nat
    BY <1>1
  <2> QED
    BY <2>1
<1> HIDE DEF Add, V
<1>4. G \in [V \X (1..n) -> V] /\ \A t \in V, i \in 1..n : G[<<t, i>>] = Add(t, sessions[i])
  <2>1. \A p \in V \X (1..n) : p[1] \in Nat /\ p[2] \in 1..n
    BY DEF V
  <2> QED
    BY <1>3, <2>1 DEF V
<1> HIDE DEF G
<1>5. PICK g : FoldsBy(g, V, G, 0, n)
  BY <1>1, <1>4, FoldExists
<1>6. /\ g = [s \in SUBSET (1..n) |-> g[s]] /\ \A s \in SUBSET (1..n) : g[s] \in V
      /\ g[{}] = 0
      /\ \A s \in SUBSET (1..n) : s # {} => g[s] = G[<<g[s \ {Max(s)}], Max(s)>>]
  BY <1>5 DEF FoldsBy
<1>7. \A s \in SUBSET (1..n) : s # {} => Max(s) \in 1..n /\ s \ {Max(s)} \in SUBSET (1..n)
  BY <1>1, MaxInside
<1>8. \A s \in SUBSET (1..n) : s # {} => g[s] = Add(g[s \ {Max(s)}], sessions[Max(s)])
  <2> TAKE s \in SUBSET (1..n)
  <2> HAVE s # {}
  <2>1. g[s \ {Max(s)}] \in V /\ Max(s) \in 1..n
    BY <1>6, <1>7
  <2>2. g[s] = G[<<g[s \ {Max(s)}], Max(s)>>]
    BY <1>6
  <2> QED
    BY <1>4, <2>1, <2>2
<1>9. IsFold(g)
  <2>1. \A s \in SUBSET (1..n) :
          g[s] = IF s = {} THEN 0 ELSE Add(g[s \ {Max(s)}], sessions[Max(s)])
    BY <1>6, <1>8
  <2> QED
    BY <1>1, <1>6, <2>1
<1>10. IsFold(iter)
  BY <1>9
<1> HIDE DEF iter
<1>11. iter[{}] = 0
  BY <1>10
<1>12. \A s \in SUBSET (1..n) : s # {} => iter[s] = Add(iter[s \ {Max(s)}], sessions[Max(s)])
  BY <1>1, <1>10
<1>13. Iterates(iter, V, G, 0, n)
  <2>1. ASSUME NEW s \in SUBSET (1..n), s # {}, iter[s \ {Max(s)}] \in V
        PROVE  iter[s] = G[<<iter[s \ {Max(s)}], Max(s)>>]
    <3>1. iter[s] = Add(iter[s \ {Max(s)}], sessions[Max(s)]) /\ Max(s) \in 1..n
      BY <1>7, <1>12, <2>1
    <3> QED
      BY <1>4, <2>1, <3>1
  <2> QED
    BY <1>11, <2>1 DEF Iterates
<1>14. PICK h : Steps(h, V, G, 0, n) /\ EndsAs(h, iter, n)
  BY <1>1, <1>4, <1>13, StepsOf
<1>15. /\ \A k \in 0..n : h[k] \in V
       /\ \A k \in 1..n : h[k] = Add(h[k - 1], sessions[k])
  <2>1. \A k \in 1..n : k - 1 \in 0..n
    BY <1>1
  <2> QED
    BY <2>1, <1>4, <1>14 DEF Steps
<1> DEFINE Bounds(k) == \A i \in 1..k : h[k] >= CountIn(sessions[i], label)
           T == {k \in 0..n : ~Bounds(k)}
<1>16. T = {}
  <2>1. SUFFICES ASSUME T # {} PROVE FALSE
    OBVIOUS
  <2>2. PICK m \in T : \A k \in T : m <= k
    <3>1. T \subseteq Nat
      BY <1>1
    <3> HIDE DEF T
    <3> QED
      BY <3>1, <2>1, LeastNumber
  <2>3. m \in 0..n /\ ~Bounds(m)
    BY <2>2
  <2>4. m \in 1..n /\ m - 1 \in 0..n /\ ~(m <= m - 1)
    BY <2>3, <1>1
  <2>5. Bounds(m - 1)
    <3>1. m - 1 \notin T
      <4> HIDE DEF T, Bounds
      <4> QED
        BY <2>2, <2>4
    <3> HIDE DEF Bounds
    <3> QED
      BY <3>1, <2>4
  <2>6. /\ h[m - 1] \in Nat /\ h[m] \in Nat /\ h[m] >= h[m - 1]
        /\ h[m] >= CountIn(sessions[m], label)
    <3>1. h[m] = Add(h[m - 1], sessions[m]) /\ h[m - 1] \in V /\ h[m] \in V
      BY <1>15, <2>4
    <3> QED
      BY <1>3, <2>4, <3>1 DEF V
  <2>7. ASSUME NEW i \in 1..m PROVE h[m] >= CountIn(sessions[i], label)
    <3>1. CASE i = m
      BY <2>6, <3>1
    <3>2. CASE i # m
      <4>1. i \in 1..m - 1 /\ i \in 1..n
        BY <1>1, <2>4, <3>2
      <4>2. h[m - 1] >= CountIn(sessions[i], label) /\ CountIn(sessions[i], label) \in Nat
        BY <1>1, <2>5, <4>1
      <4> QED
        BY <2>6, <4>2
    <3> QED
      BY <3>1, <3>2
  <2> QED
    BY <2>3, <2>7
<1>17. Bounds(n)
  <2>1. n \in 0..n
    BY <1>1
  <2> HIDE DEF Bounds
  <2> QED
    BY <1>16, <2>1
<1>18. h[n] = 0
  BY <1>1, <1>2, <1>14 DEF EndsAs
<1> QED
  BY <1>1, <1>17, <1>18

LEMMA CountIsNat ==
  ASSUME NEW S, NEW session \in Seq(S), NEW label
  PROVE  /\ CountIn(session, label) \in Nat
         /\ CountIn(session, label) = 0 => \A i \in DOMAIN session : label \notin Counted(session[i])
<1> DEFINE A == {i \in DOMAIN session : label \in Counted(session[i])}
<1>1. IsFiniteSet(1..Len(session)) /\ A \subseteq 1..Len(session)
  <2>1. Len(session) \in Nat /\ DOMAIN session = 1..Len(session)
    OBVIOUS
  <2>2. IsFiniteSet(1..Len(session))
    BY <2>1, FS_Interval
  <2> QED
    BY <2>1, <2>2
<1>2. CountIn(session, label) = Cardinality(A)
  BY DEF CountIn
<1>3. \A i \in DOMAIN session : label \in Counted(session[i]) => i \in A
  OBVIOUS
<1> HIDE DEF A
<1>4. IsFiniteSet(A) /\ Cardinality(A) \in Nat
  BY <1>1, FS_Subset, FS_CardinalityType
<1>5. Cardinality(A) = 0 => A = {}
  BY <1>4, FS_EmptySet
<1> QED
  BY <1>2, <1>3, <1>4, <1>5

LEMMA BudgetEarned ==
  ASSUME NEW sessions \in Budgets, BudgetMet(sessions)
  PROVE  \A i \in DOMAIN sessions :
           LET s == sessions[i]
           IN  \A w \in DOMAIN s : /\ s[w].labels \cap {"fhss1", "fhss2", "droneid"} = {}
                                    /\ s[w].morphology # "droneid"
                                    /\ w = Len(s) => ~s[w].cadence
<1>1. /\ sessions \in Seq(Range(sessions))
      /\ \A i \in DOMAIN sessions : sessions[i] \in Seq(Range(sessions[i]))
  BY EvaluationAssumption
<1>2. /\ TotalOf(sessions, "fhss1") = 0 /\ TotalOf(sessions, "fhss2") = 0
      /\ TotalOf(sessions, "droneid") = 0 /\ \A i \in DOMAIN sessions : ~DroneIdEver(sessions[i])
  BY DEF BudgetMet, TotalOf, FoldLeft, MapThenFoldSet
<1> SUFFICES ASSUME NEW i \in DOMAIN sessions, NEW w \in DOMAIN sessions[i]
             PROVE  LET s == sessions[i]
                    IN  /\ s[w].labels \cap {"fhss1", "fhss2", "droneid"} = {}
                        /\ s[w].morphology # "droneid"
                        /\ w = Len(s) => ~s[w].cadence
  OBVIOUS
<1> DEFINE s == sessions[i]
<1>4. s \in Seq(Range(s)) /\ ~DroneIdEver(s)
  BY <1>1, <1>2
<1> HIDE DEF s
<1>5. \A label : \A k \in DOMAIN sessions : CountIn(sessions[k], label) \in Nat
  BY <1>1, CountIsNat
<1>6. \A label \in {"fhss1", "fhss2", "droneid"} : CountIn(s, label) = 0
  <2> TAKE label \in {"fhss1", "fhss2", "droneid"}
  <2>1. TotalOf(sessions, label) = 0
    BY <1>2
  <2>2. \A k \in DOMAIN sessions : CountIn(sessions[k], label) \in Nat
    BY <1>5
  <2>3. \A k \in DOMAIN sessions : CountIn(sessions[k], label) = 0
    BY <1>1, <2>1, <2>2, TotalIsZero
  <2> QED
    BY <2>3 DEF s
<1>7. \A label \in {"fhss1", "fhss2", "droneid"} : label \notin Counted(s[w])
  <2>1. w \in DOMAIN s
    BY DEF s
  <2> QED
    BY <1>4, <1>6, <2>1, CountIsNat
<1>8. s[w].labels \cap {"fhss1", "fhss2", "droneid"} = {}
  BY <1>7 DEF Counted
<1>9. s[w].morphology # "droneid"
  BY <1>7 DEF Counted
<1>10. ASSUME w = Len(s) PROVE ~s[w].cadence
  <2>1. s # <<>> /\ Last(s) = s[w]
    <3>1. w \in DOMAIN s
      BY DEF s
    <3> QED
      BY <1>4, <1>10, <3>1 DEF Last
  <2> QED
    BY <1>4, <2>1 DEF DroneIdEver
<1> QED
  BY <1>8, <1>9, <1>10 DEF s

-----------------------------------------------------------------------------
(* The first trainer: a frame carries its file's path and, of DroneRF, its  *)
(* name as its group.                                                      *)

FrameOf(f) == [label |-> DronerfLabel(f.bui)[1], file |-> f.path, group |-> <<f.name>>]
WindowsOf(frames, f, cap) ==
  FoldLeft(LAMBDA acc, w :
             IF DronerfLabel(f.bui) = <<>> \/ w \in f.silent
                  \/ Capped(acc, DronerfLabel(f.bui)[1], cap)
             THEN acc ELSE Append(acc, FrameOf(f)),
           frames, [w \in 1..f.windows |-> w])

LEMMA WindowsAreFrames ==
  ASSUME NEW F, NEW frames \in Seq(F), NEW f, NEW cap, FrameOf(f) \in F, f.windows \in Nat
  PROVE  WindowsOf(frames, f, cap) \in Seq(F)
<1> DEFINE n == f.windows
           V == Seq(F)
           pos == [w \in 1..f.windows |-> w]
           Use(acc, w) ==
             IF DronerfLabel(f.bui) = <<>> \/ w \in f.silent
                  \/ Capped(acc, DronerfLabel(f.bui)[1], cap)
             THEN acc ELSE Append(acc, FrameOf(f))
           G == [p \in V \X (1..n) |-> Use(p[1], p[2])]
           IsFold(h) ==
             h = [s \in SUBSET (DOMAIN pos) |->
                    IF s = {} THEN frames ELSE Use(h[s \ {Max(s)}], pos[Max(s)])]
           iter == CHOOSE h : IsFold(h)
<1>1. n \in Nat /\ DOMAIN pos = 1..n /\ frames \in V /\ \A w \in 1..n : pos[w] = w
  OBVIOUS
<1>2. WindowsOf(frames, f, cap) = iter[DOMAIN pos]
  BY DEF WindowsOf, FoldLeft, MapThenFoldSet
<1>3. \A acc \in V, w \in 1..n : Use(acc, w) \in V
  OBVIOUS
<1> HIDE DEF n, pos, Use, V
<1>4. G \in [V \X (1..n) -> V] /\ \A acc \in V, w \in 1..n : G[<<acc, w>>] = Use(acc, w)
  <2>1. \A p \in V \X (1..n) : p[1] \in V /\ p[2] \in 1..n
    OBVIOUS
  <2> QED
    BY <1>3, <2>1
<1> HIDE DEF G
<1>5. PICK g : FoldsBy(g, V, G, frames, n)
  BY <1>1, <1>4, FoldExists
<1>6. /\ g = [s \in SUBSET (1..n) |-> g[s]] /\ \A s \in SUBSET (1..n) : g[s] \in V
      /\ g[{}] = frames
      /\ \A s \in SUBSET (1..n) : s # {} => g[s] = G[<<g[s \ {Max(s)}], Max(s)>>]
  BY <1>5 DEF FoldsBy
<1>7. \A s \in SUBSET (1..n) : s # {} => /\ Max(s) \in 1..n /\ s \ {Max(s)} \in SUBSET (1..n)
                                      /\ pos[Max(s)] = Max(s)
  BY <1>1, MaxInside
<1>8. \A s \in SUBSET (1..n) : s # {} => g[s] = Use(g[s \ {Max(s)}], pos[Max(s)])
  <2> TAKE s \in SUBSET (1..n)
  <2> HAVE s # {}
  <2>1. g[s \ {Max(s)}] \in V /\ Max(s) \in 1..n /\ pos[Max(s)] = Max(s)
    BY <1>6, <1>7
  <2>2. g[s] = G[<<g[s \ {Max(s)}], Max(s)>>]
    BY <1>6
  <2> QED
    BY <1>4, <2>1, <2>2
<1>9. IsFold(g)
  <2>1. \A s \in SUBSET (1..n) :
          g[s] = IF s = {} THEN frames ELSE Use(g[s \ {Max(s)}], pos[Max(s)])
    BY <1>6, <1>8
  <2> QED
    BY <1>1, <1>6, <2>1
<1>10. IsFold(iter)
  BY <1>9
<1> HIDE DEF iter
<1>11. iter[{}] = frames
  BY <1>10
<1>12. \A s \in SUBSET (1..n) : s # {} => iter[s] = Use(iter[s \ {Max(s)}], pos[Max(s)])
  BY <1>1, <1>10
<1>13. Iterates(iter, V, G, frames, n)
  <2>1. ASSUME NEW s \in SUBSET (1..n), s # {}, iter[s \ {Max(s)}] \in V
        PROVE  iter[s] = G[<<iter[s \ {Max(s)}], Max(s)>>]
    <3>1. /\ iter[s] = Use(iter[s \ {Max(s)}], pos[Max(s)])
          /\ Max(s) \in 1..n /\ pos[Max(s)] = Max(s)
      BY <1>7, <1>12, <2>1
    <3> QED
      BY <1>4, <2>1, <3>1
  <2> QED
    BY <1>11, <2>1 DEF Iterates
<1>14. PICK h : Steps(h, V, G, frames, n) /\ EndsAs(h, iter, n)
  BY <1>1, <1>4, <1>13, StepsOf
<1>15. iter[1..n] \in V
  <2>1. n \in 0..n
    BY <1>1
  <2> QED
    BY <1>14, <2>1 DEF Steps, EndsAs
<1> QED
  BY <1>1, <1>2, <1>15 DEF V

LEMMA DronerfFramesAre ==
  ASSUME NEW S, NEW files \in Seq(S), NEW cap,
         \A i \in DOMAIN files : files[i].windows \in Nat
  PROVE  DronerfFrames(files, cap) \in Seq({FrameOf(files[i]) : i \in DOMAIN files})
<1> DEFINE n == Len(files)
           F == {FrameOf(files[i]) : i \in DOMAIN files}
           V == Seq(F)
           G == [p \in V \X (1..n) |-> WindowsOf(p[1], files[p[2]], cap)]
           IsFold(h) ==
             h = [s \in SUBSET (DOMAIN files) |->
                    IF s = {} THEN <<>> ELSE WindowsOf(h[s \ {Max(s)}], files[Max(s)], cap)]
           iter == CHOOSE h : IsFold(h)
<1>1. n \in Nat /\ DOMAIN files = 1..n /\ <<>> \in V
  OBVIOUS
<1>2. DronerfFrames(files, cap) = iter[DOMAIN files]
  BY DEF DronerfFrames, WindowsOf, FrameOf, FoldLeft, MapThenFoldSet
<1>3. \A acc \in V, i \in 1..n : WindowsOf(acc, files[i], cap) \in V
  <2> TAKE acc \in V, i \in 1..n
  <2>1. FrameOf(files[i]) \in F /\ files[i].windows \in Nat
    BY <1>1
  <2> HIDE DEF F
  <2> QED
    BY <2>1, WindowsAreFrames
<1> HIDE DEF n, V
<1>4. /\ G \in [V \X (1..n) -> V]
      /\ \A acc \in V, i \in 1..n : G[<<acc, i>>] = WindowsOf(acc, files[i], cap)
  <2>1. \A p \in V \X (1..n) : p[1] \in V /\ p[2] \in 1..n
    OBVIOUS
  <2> QED
    BY <1>3, <2>1
<1> HIDE DEF G
<1>5. PICK g : FoldsBy(g, V, G, <<>>, n)
  BY <1>1, <1>4, FoldExists
<1>6. /\ g = [s \in SUBSET (1..n) |-> g[s]] /\ \A s \in SUBSET (1..n) : g[s] \in V
      /\ g[{}] = <<>>
      /\ \A s \in SUBSET (1..n) : s # {} => g[s] = G[<<g[s \ {Max(s)}], Max(s)>>]
  BY <1>5 DEF FoldsBy
<1>7. \A s \in SUBSET (1..n) : s # {} => Max(s) \in 1..n /\ s \ {Max(s)} \in SUBSET (1..n)
  BY <1>1, MaxInside
<1>8. \A s \in SUBSET (1..n) : s # {} => g[s] = WindowsOf(g[s \ {Max(s)}], files[Max(s)], cap)
  <2> TAKE s \in SUBSET (1..n)
  <2> HAVE s # {}
  <2>1. g[s \ {Max(s)}] \in V /\ Max(s) \in 1..n
    BY <1>6, <1>7
  <2>2. g[s] = G[<<g[s \ {Max(s)}], Max(s)>>]
    BY <1>6
  <2> QED
    BY <1>4, <2>1, <2>2
<1>9. IsFold(g)
  <2>1. \A s \in SUBSET (1..n) :
          g[s] = IF s = {} THEN <<>> ELSE WindowsOf(g[s \ {Max(s)}], files[Max(s)], cap)
    BY <1>6, <1>8
  <2> QED
    BY <1>1, <1>6, <2>1
<1>10. IsFold(iter)
  BY <1>9
<1> HIDE DEF iter
<1>11. iter[{}] = <<>>
  BY <1>10
<1>12. \A s \in SUBSET (1..n) : s # {} =>
         iter[s] = WindowsOf(iter[s \ {Max(s)}], files[Max(s)], cap)
  BY <1>1, <1>10
<1>13. Iterates(iter, V, G, <<>>, n)
  <2>1. ASSUME NEW s \in SUBSET (1..n), s # {}, iter[s \ {Max(s)}] \in V
        PROVE  iter[s] = G[<<iter[s \ {Max(s)}], Max(s)>>]
    <3>1. iter[s] = WindowsOf(iter[s \ {Max(s)}], files[Max(s)], cap) /\ Max(s) \in 1..n
      BY <1>7, <1>12, <2>1
    <3> QED
      BY <1>4, <2>1, <3>1
  <2> QED
    BY <1>11, <2>1 DEF Iterates
<1>14. PICK h : Steps(h, V, G, <<>>, n) /\ EndsAs(h, iter, n)
  BY <1>1, <1>4, <1>13, StepsOf
<1>15. iter[1..n] \in V
  <2>1. n \in 0..n
    BY <1>1
  <2> QED
    BY <1>14, <2>1 DEF Steps, EndsAs
<1> QED
  BY <1>1, <1>2, <1>15 DEF V

FirstFrameOf(f) == [label |-> f.label, file |-> f.path, group |-> <<>>]

LEMMA DronedetectFramesAre ==
  ASSUME NEW S, NEW files \in Seq(S), NEW cap,
         \A i, k \in DOMAIN files : files[i].path = files[k].path => i = k
  PROVE  LET fr == DronedetectFrames(files, cap)
         IN  \A i, k \in DOMAIN fr : fr[i].file = fr[k].file => i = k
<1> DEFINE n == Len(files)
           F == {FirstFrameOf(files[i]) : i \in DOMAIN files}
           V == Seq(F)
           Take(acc, f) ==
             IF f.windows = 0 \/ Capped(acc, f.label, cap) THEN acc
             ELSE Append(acc, FirstFrameOf(f))
           G == [p \in V \X (1..n) |-> Take(p[1], files[p[2]])]
           IsFold(h) ==
             h = [s \in SUBSET (DOMAIN files) |->
                    IF s = {} THEN <<>> ELSE Take(h[s \ {Max(s)}], files[Max(s)])]
           iter == CHOOSE h : IsFold(h)
<1>1. n \in Nat /\ DOMAIN files = 1..n /\ <<>> \in V
  OBVIOUS
<1>2. DronedetectFrames(files, cap) = iter[DOMAIN files]
  BY DEF DronedetectFrames, FirstFrameOf, FoldLeft, MapThenFoldSet
<1>3. \A acc \in V, i \in 1..n : Take(acc, files[i]) \in V
  <2> TAKE acc \in V, i \in 1..n
  <2>1. FirstFrameOf(files[i]) \in F
    BY <1>1
  <2> HIDE DEF F
  <2> QED
    BY <2>1
<1>4. \A acc \in V, i \in 1..n :
        /\ Len(acc) \in Nat /\ DOMAIN acc = 1..Len(acc)
        /\ Take(acc, files[i]) # acc =>
             /\ DOMAIN Take(acc, files[i]) = 1..Len(acc) + 1
             /\ \A k \in 1..Len(acc) : Take(acc, files[i])[k] = acc[k]
             /\ Take(acc, files[i])[Len(acc) + 1].file = files[i].path
  BY DEF FirstFrameOf
<1> HIDE DEF n, V, Take
<1>5. /\ G \in [V \X (1..n) -> V]
      /\ \A acc \in V, i \in 1..n : G[<<acc, i>>] = Take(acc, files[i])
  <2>1. \A p \in V \X (1..n) : p[1] \in V /\ p[2] \in 1..n
    OBVIOUS
  <2> QED
    BY <1>3, <2>1
<1> HIDE DEF G
<1>6. PICK g : FoldsBy(g, V, G, <<>>, n)
  BY <1>1, <1>5, FoldExists
<1>7. /\ g = [s \in SUBSET (1..n) |-> g[s]] /\ \A s \in SUBSET (1..n) : g[s] \in V
      /\ g[{}] = <<>>
      /\ \A s \in SUBSET (1..n) : s # {} => g[s] = G[<<g[s \ {Max(s)}], Max(s)>>]
  BY <1>6 DEF FoldsBy
<1>8. \A s \in SUBSET (1..n) : s # {} => Max(s) \in 1..n /\ s \ {Max(s)} \in SUBSET (1..n)
  BY <1>1, MaxInside
<1>9. \A s \in SUBSET (1..n) : s # {} => g[s] = Take(g[s \ {Max(s)}], files[Max(s)])
  <2> TAKE s \in SUBSET (1..n)
  <2> HAVE s # {}
  <2>1. g[s \ {Max(s)}] \in V /\ Max(s) \in 1..n
    BY <1>7, <1>8
  <2>2. g[s] = G[<<g[s \ {Max(s)}], Max(s)>>]
    BY <1>7
  <2> QED
    BY <1>5, <2>1, <2>2
<1>10. IsFold(g)
  <2>1. \A s \in SUBSET (1..n) :
          g[s] = IF s = {} THEN <<>> ELSE Take(g[s \ {Max(s)}], files[Max(s)])
    BY <1>7, <1>9
  <2> QED
    BY <1>1, <1>7, <2>1
<1>11. IsFold(iter)
  BY <1>10
<1> HIDE DEF iter
<1>12. iter[{}] = <<>>
  BY <1>11
<1>13. \A s \in SUBSET (1..n) : s # {} => iter[s] = Take(iter[s \ {Max(s)}], files[Max(s)])
  BY <1>1, <1>11
<1>14. Iterates(iter, V, G, <<>>, n)
  <2>1. ASSUME NEW s \in SUBSET (1..n), s # {}, iter[s \ {Max(s)}] \in V
        PROVE  iter[s] = G[<<iter[s \ {Max(s)}], Max(s)>>]
    <3>1. iter[s] = Take(iter[s \ {Max(s)}], files[Max(s)]) /\ Max(s) \in 1..n
      BY <1>8, <1>13, <2>1
    <3> QED
      BY <1>5, <2>1, <3>1
  <2> QED
    BY <1>12, <2>1 DEF Iterates
<1>15. PICK h : Steps(h, V, G, <<>>, n) /\ EndsAs(h, iter, n)
  BY <1>1, <1>5, <1>14, StepsOf
<1>16. /\ h[0] = <<>> /\ \A k \in 0..n : h[k] \in V
       /\ \A k \in 1..n : h[k] = Take(h[k - 1], files[k])
  <2>1. \A k \in 1..n : k - 1 \in 0..n
    BY <1>1
  <2> QED
    BY <2>1, <1>5, <1>15 DEF Steps
<1> DEFINE Good(k) ==
             /\ \A i \in DOMAIN h[k] : \E q \in 1..k : h[k][i].file = files[q].path
             /\ \A i, l \in DOMAIN h[k] : h[k][i].file = h[k][l].file => i = l
           T == {k \in 0..n : ~Good(k)}
<1>17. T = {}
  <2>1. SUFFICES ASSUME T # {} PROVE FALSE
    OBVIOUS
  <2>2. PICK m \in T : \A k \in T : m <= k
    <3>1. T \subseteq Nat
      BY <1>1
    <3> HIDE DEF T
    <3> QED
      BY <3>1, <2>1, LeastNumber
  <2>3. m \in 0..n /\ ~Good(m)
    BY <2>2
  <2>4. m # 0
    <3>1. DOMAIN h[0] = {}
      BY <1>16
    <3>2. Good(0)
      BY <3>1
    <3> QED
      BY <3>2, <2>3
  <2>5. m \in 1..n /\ m - 1 \in 0..n /\ ~(m <= m - 1)
    BY <2>3, <2>4, <1>1
  <2>6. Good(m - 1)
    <3>1. m - 1 \notin T
      <4> HIDE DEF T, Good
      <4> QED
        BY <2>2, <2>5
    <3> HIDE DEF Good
    <3> QED
      BY <3>1, <2>5
  <2>7. h[m] = Take(h[m - 1], files[m]) /\ h[m - 1] \in V
    BY <1>16, <2>5
  <2>8. \A q \in 1..m - 1 : q \in 1..m /\ q # m /\ q \in 1..n
    BY <1>1, <2>5
  <2>9. CASE h[m] = h[m - 1]
    BY <2>3, <2>6, <2>8, <2>9
  <2>10. CASE h[m] # h[m - 1]
    <3> DEFINE l == Len(h[m - 1])
    <3>1. /\ l \in Nat /\ DOMAIN h[m - 1] = 1..l /\ DOMAIN h[m] = 1..l + 1
          /\ \A k \in 1..l : h[m][k] = h[m - 1][k]
          /\ h[m][l + 1].file = files[m].path
      <4>1. Take(h[m - 1], files[m]) # h[m - 1] /\ m \in 1..n
        BY <2>5, <2>7, <2>10
      <4>2. LET acc == h[m - 1]
                got == Take(acc, files[m])
            IN  /\ Len(acc) \in Nat /\ DOMAIN acc = 1..Len(acc)
                /\ DOMAIN got = 1..Len(acc) + 1
                /\ \A k \in 1..Len(acc) : got[k] = acc[k]
                /\ got[Len(acc) + 1].file = files[m].path
        BY <1>4, <2>7, <4>1
      <4> QED
        BY <2>7, <4>2
    <3> HIDE DEF l
    <3>2. \A i \in 1..l + 1 : i = l + 1 \/ i \in 1..l
      BY <3>1
    <3>3. \A i \in 1..l : \E q \in 1..m - 1 : h[m][i].file = files[q].path
      <4> TAKE i \in 1..l
      <4>1. i \in DOMAIN h[m - 1] /\ h[m][i] = h[m - 1][i]
        BY <3>1
      <4> QED
        BY <2>6, <4>1
    <3>4. \A i \in 1..l : h[m][i].file # files[m].path
      BY <1>1, <2>5, <2>8, <3>3
    <3>5. \A i \in DOMAIN h[m] : \E q \in 1..m : h[m][i].file = files[q].path
      <4>1. m \in 1..m
        BY <2>5
      <4> QED
        BY <2>8, <3>1, <3>2, <3>3, <4>1
    <3>6. \A i, k \in 1..l : h[m][i].file = h[m][k].file => i = k
      BY <2>6, <3>1
    <3>7. \A i, k \in DOMAIN h[m] : h[m][i].file = h[m][k].file => i = k
      BY <3>1, <3>2, <3>4, <3>6
    <3> QED
      BY <2>3, <3>5, <3>7
  <2> QED
    BY <2>9, <2>10
<1>18. Good(n)
  <2>1. n \in 0..n
    BY <1>1
  <2> HIDE DEF Good
  <2> QED
    BY <1>17, <2>1
<1>19. DronedetectFrames(files, cap) = h[n]
  BY <1>1, <1>2, <1>15 DEF EndsAs
<1> QED
  BY <1>18, <1>19

LEMMA ImageIsFinite ==
  ASSUME NEW f, IsFiniteSet(DOMAIN f)
  PROVE  IsFiniteSet({f[x] : x \in DOMAIN f})
<1> DEFINE T == {f[x] : x \in DOMAIN f}
           g == [x \in DOMAIN f |-> f[x]]
<1>1. g \in [DOMAIN f -> T] /\ \A y \in T : \E x \in DOMAIN f : g[x] = y
  OBVIOUS
<1> HIDE DEF T, g
<1>2. g \in Surjection(DOMAIN f, T)
  BY <1>1 DEF Surjection
<1> QED
  BY <1>2, FS_Surjection DEF T

TrainFair(got) ==
  LET fr == got.frames
      val == got.split.val
  IN  \/ \A i, k \in DOMAIN fr : fr[i].file = fr[k].file => (i \in val <=> k \in val)
      \/ ~got.split.grouped /\ Cardinality({fr[i].group : i \in DOMAIN fr}) = 1
                           /\ fr[1].group # <<>>

LEMMA TrainingIsFair ==
  ASSUME NEW t \in Trainings
  PROVE  TrainFair(TrainAndSave(t.dataset, t.files, t.cap, t.draw))
<1> DEFINE files == t.files
           fr == IF t.dataset = "dronerf" THEN DronerfFrames(files, t.cap)
                 ELSE DronedetectFrames(files, t.cap)
           got == TrainAndSave(t.dataset, files, t.cap, t.draw)
           split == Split(fr, t.draw)
<1>1. got.frames = fr /\ got.split = split
  BY DEF TrainAndSave
<1>2. /\ files \in Seq(Range(files))
      /\ \A i \in DOMAIN files : files[i].windows \in Nat
      /\ \A i, k \in DOMAIN files : files[i].path = files[k].path => i = k
  BY EvaluationAssumption
<1> SUFFICES TrainFair(got)
  OBVIOUS
<1> HIDE DEF files, got
<1>3. CASE t.dataset # "dronerf"
  <2>1. \A i, k \in DOMAIN fr : fr[i].file = fr[k].file => i = k
    BY <1>2, <1>3, DronedetectFramesAre
  <2> HIDE DEF fr, split
  <2> QED
    BY <1>1, <2>1 DEF TrainFair
<1>4. CASE t.dataset = "dronerf"
  <2> DEFINE F == {FrameOf(files[i]) : i \in DOMAIN files}
             all == {fr[i].group : i \in DOMAIN fr}
  <2>1. fr \in Seq(F)
    BY <1>2, <1>4, DronerfFramesAre
  <2> HIDE DEF fr
  <2>2. Len(fr) \in Nat /\ DOMAIN fr = 1..Len(fr) /\ \A i \in DOMAIN fr : fr[i] \in F
    <3> HIDE DEF F
    <3> QED
      BY <2>1
  <2>3. \A i \in DOMAIN fr : \E q \in DOMAIN files :
          fr[i].file = files[q].path /\ fr[i].group = <<files[q].name>>
    BY <2>2 DEF FrameOf
  <2>4. \A i, k \in DOMAIN fr : fr[i].file = fr[k].file => fr[i].group = fr[k].group
    <3> TAKE i, k \in DOMAIN fr
    <3>1. PICK p \in DOMAIN files : fr[i].file = files[p].path /\ fr[i].group = <<files[p].name>>
      BY <2>3
    <3>2. PICK q \in DOMAIN files : fr[k].file = files[q].path /\ fr[k].group = <<files[q].name>>
      BY <2>3
    <3> QED
      BY <1>2, <3>1, <3>2
  <2>5. \A i \in DOMAIN fr : fr[i].group # <<>>
    <3>1. \A q : <<files[q].name>> # <<>>
      OBVIOUS
    <3> QED
      BY <2>3, <3>1
  <2>6. all \ {<<>>} = all
    BY <2>5
  <2>7. CASE Cardinality(all) >= 2
    <3>1. PICK held : split = [grouped |-> TRUE, val |-> {i \in DOMAIN fr : fr[i].group \in held}]
      BY <2>6, <2>7 DEF Split
    <3>2. split.val = {i \in DOMAIN fr : fr[i].group \in held}
      BY <3>1
    <3> HIDE DEF split
    <3> QED
      BY <1>1, <2>4, <3>2 DEF TrainFair
  <2>8. CASE ~(Cardinality(all) >= 2)
    <3>1. ~split.grouped
      BY <2>6, <2>8 DEF Split, SplitByFrame
    <3>2. CASE DOMAIN fr = {}
      BY <1>1, <3>2 DEF TrainFair
    <3>3. CASE DOMAIN fr # {}
      <4>1. 1 \in DOMAIN fr
        BY <2>2, <3>3
      <4>2. IsFiniteSet(DOMAIN fr)
        BY <2>2, FS_Interval
      <4>3. IsFiniteSet(all)
        <5> DEFINE f == [i \in DOMAIN fr |-> fr[i].group]
        <5>1. DOMAIN f = DOMAIN fr /\ all = {f[i] : i \in DOMAIN f}
          OBVIOUS
        <5> HIDE DEF f, all
        <5> QED
          BY <4>2, <5>1, ImageIsFinite
      <4>4. all # {}
        BY <4>1
      <4> HIDE DEF all
      <4>5. Cardinality(all) \in Nat /\ Cardinality(all) # 0
        BY <4>3, <4>4, FS_CardinalityType, FS_EmptySet
      <4>6. Cardinality(all) = 1
        BY <2>8, <4>5
      <4> HIDE DEF split
      <4> QED
        BY <1>1, <2>5, <3>1, <4>1, <4>6 DEF all, TrainFair
    <3> QED
      BY <3>2, <3>3
  <2> QED
    BY <2>7, <2>8
<1> QED
  BY <1>3, <1>4

-----------------------------------------------------------------------------
(* The probe of the receiver.                                              *)

AnyOf(s) == CHOOSE x \in s : TRUE
SumsTo(f, R, m) ==
  LET small == {s \in SUBSET R : Cardinality(s) <= m}
  IN  /\ f \in [small -> Nat]
      /\ \A s \in small : f[s] = IF s = {} THEN 0 ELSE f[s \ {AnyOf(s)}] + AnyOf(s).n

LEMMA SmallerSet ==
  ASSUME NEW R, IsFiniteSet(R), NEW s \in SUBSET R
  PROVE  /\ IsFiniteSet(s) /\ Cardinality(s) \in Nat /\ Cardinality(s) <= Cardinality(R)
         /\ Cardinality(s) = 0 <=> s = {}
         /\ s # {} => /\ AnyOf(s) \in s /\ s \ {AnyOf(s)} \in SUBSET R
                      /\ Cardinality(s \ {AnyOf(s)}) = Cardinality(s) - 1
<1>1. IsFiniteSet(s) /\ Cardinality(s) <= Cardinality(R)
  BY FS_Subset
<1>2. Cardinality(s) \in Nat /\ (Cardinality(s) = 0 <=> s = {})
  BY <1>1, FS_CardinalityType, FS_EmptySet
<1>3. s # {} => AnyOf(s) \in s
  BY DEF AnyOf
<1>4. \A x \in s : Cardinality(s \ {x}) = Cardinality(s) - 1
  BY <1>1, FS_RemoveElement
<1> QED
  BY <1>1, <1>2, <1>3, <1>4

LEMMA SumExists ==
  ASSUME NEW R, IsFiniteSet(R), \A r \in R : r.n \in Nat
  PROVE  \E f : SumsTo(f, R, Cardinality(R))
<1> DEFINE N == Cardinality(R)
           T == {m \in 0..N : ~ \E f : SumsTo(f, R, m)}
<1>1. N \in Nat
  BY FS_CardinalityType
<1> HIDE DEF N
<1>2. SUFFICES ASSUME T # {} PROVE FALSE
  <2>1. N \in 0..N
    BY <1>1
  <2> QED
    BY <2>1 DEF N
<1>3. PICK m \in T : \A k \in T : m <= k
  <2>1. T \subseteq Nat
    OBVIOUS
  <2> HIDE DEF T
  <2> QED
    BY <2>1, <1>2, LeastNumber
<1>4. m # 0
  <2> DEFINE small == {s \in SUBSET R : Cardinality(s) <= 0}
             f == [s \in small |-> 0]
  <2>1. \A s \in small : s = {}
    <3> TAKE s \in small
    <3>1. Cardinality(s) \in Nat /\ (Cardinality(s) = 0 <=> s = {})
      BY SmallerSet
    <3> QED
      BY <3>1
  <2>2. SumsTo(f, R, 0)
    BY <2>1 DEF SumsTo
  <2> QED
    BY <2>2
<1>5. m \in 1..N /\ m - 1 \in 0..N /\ ~(m <= m - 1) /\ m \in Nat
  BY <1>1, <1>4
<1>6. PICK f : SumsTo(f, R, m - 1)
  <2>1. m - 1 \notin T
    <3> HIDE DEF T
    <3> QED
      BY <1>3, <1>5
  <2> QED
    BY <2>1, <1>5
<1> DEFINE low == {s \in SUBSET R : Cardinality(s) <= m - 1}
           small == {s \in SUBSET R : Cardinality(s) <= m}
           g == [s \in small |-> IF s = {} THEN 0 ELSE f[s \ {AnyOf(s)}] + AnyOf(s).n]
<1>7. /\ f \in [low -> Nat]
      /\ \A s \in low : f[s] = IF s = {} THEN 0 ELSE f[s \ {AnyOf(s)}] + AnyOf(s).n
  BY <1>6 DEF SumsTo
<1>8. \A s \in small : s # {} => AnyOf(s) \in R /\ s \ {AnyOf(s)} \in low
  <2> TAKE s \in small
  <2> HAVE s # {}
  <2>1. /\ Cardinality(s) \in Nat /\ Cardinality(s) <= m
        /\ AnyOf(s) \in s /\ s \ {AnyOf(s)} \in SUBSET R
        /\ Cardinality(s \ {AnyOf(s)}) = Cardinality(s) - 1
    BY SmallerSet
  <2>2. Cardinality(s \ {AnyOf(s)}) <= m - 1
    BY <1>5, <2>1
  <2> QED
    BY <2>1, <2>2
<1>9. \A s \in low : s \in small
  <2> TAKE s \in low
  <2>1. Cardinality(s) \in Nat /\ Cardinality(s) <= m - 1
    BY SmallerSet
  <2> QED
    BY <1>5, <2>1
<1> HIDE DEF small, low
<1>10. \A s \in small : g[s] = IF s = {} THEN 0 ELSE f[s \ {AnyOf(s)}] + AnyOf(s).n
  OBVIOUS
<1>11. g \in [small -> Nat]
  <2>1. \A s \in small : g[s] \in Nat
    <3> TAKE s \in small
    <3>1. s # {} => f[s \ {AnyOf(s)}] \in Nat /\ AnyOf(s).n \in Nat
      BY <1>7, <1>8
    <3>2. g[s] = IF s = {} THEN 0 ELSE f[s \ {AnyOf(s)}] + AnyOf(s).n
      BY <1>10
    <3> HIDE DEF g
    <3>3. CASE s = {}
      BY <3>2, <3>3
    <3>4. CASE s # {}
      BY <3>1, <3>2, <3>4
    <3> QED
      BY <3>3, <3>4
  <2> QED
    BY <2>1
<1> HIDE DEF g
<1>12. \A s \in low : g[s] = f[s]
  BY <1>7, <1>9, <1>10
<1>13. \A s \in small : g[s] = IF s = {} THEN 0 ELSE g[s \ {AnyOf(s)}] + AnyOf(s).n
  BY <1>8, <1>10, <1>12
<1>14. SumsTo(g, R, m)
  BY <1>11, <1>13 DEF SumsTo, small
<1> QED
  BY <1>3, <1>14

LEMMA WindowsAreCounted ==
  ASSUME NEW R, IsFiniteSet(R), \A r \in R : r.n \in Nat
  PROVE  WindowsIn(R) \in Nat /\ (R = {} => WindowsIn(R) = 0)
<1> DEFINE N == Cardinality(R)
           IsFold(h) ==
             h = [s \in SUBSET R |->
                    IF s = {} THEN 0 ELSE h[s \ {AnyOf(s)}] + AnyOf(s).n]
           iter == CHOOSE h : IsFold(h)
<1>1. WindowsIn(R) = iter[R]
  BY DEF WindowsIn, FoldSet, MapThenFoldSet, AnyOf
<1>2. \A s \in SUBSET R :
        /\ Cardinality(s) \in Nat /\ Cardinality(s) <= N
        /\ s # {} => AnyOf(s) \in R /\ s \ {AnyOf(s)} \in SUBSET R
        /\ s # {} => Cardinality(s \ {AnyOf(s)}) = Cardinality(s) - 1
  BY SmallerSet
<1>3. PICK f : SumsTo(f, R, N)
  BY SumExists
<1>4. {s \in SUBSET R : Cardinality(s) <= N} = SUBSET R
  BY <1>2
<1>5. /\ f \in [SUBSET R -> Nat]
      /\ \A s \in SUBSET R : f[s] = IF s = {} THEN 0 ELSE f[s \ {AnyOf(s)}] + AnyOf(s).n
  BY <1>3, <1>4 DEF SumsTo
<1>6. IsFold(f)
  BY <1>5
<1>7. IsFold(iter)
  BY <1>6
<1> HIDE DEF iter, N
<1>8. \A s \in SUBSET R : iter[s] = IF s = {} THEN 0 ELSE iter[s \ {AnyOf(s)}] + AnyOf(s).n
  BY <1>7
<1> DEFINE T == {Cardinality(s) : s \in {q \in SUBSET R : iter[q] \notin Nat}}
<1>9. T = {}
  <2>1. SUFFICES ASSUME T # {} PROVE FALSE
    OBVIOUS
  <2>2. PICK m \in T : \A k \in T : m <= k
    <3>1. T \subseteq Nat
      BY <1>2
    <3> HIDE DEF T
    <3> QED
      BY <3>1, <2>1, LeastNumber
  <2>3. PICK s \in SUBSET R : iter[s] \notin Nat /\ m = Cardinality(s)
    BY <2>2
  <2>4. s # {}
    <3>1. {} \in SUBSET R
      OBVIOUS
    <3>2. iter[{}] = 0
      BY <1>8, <3>1
    <3> QED
      BY <2>3, <3>2
  <2>5. /\ AnyOf(s) \in R /\ s \ {AnyOf(s)} \in SUBSET R
        /\ Cardinality(s \ {AnyOf(s)}) = m - 1 /\ m \in Nat
    BY <1>2, <2>3, <2>4
  <2>6. iter[s] = iter[s \ {AnyOf(s)}] + AnyOf(s).n /\ AnyOf(s).n \in Nat
    BY <1>8, <2>4, <2>5
  <2>7. iter[s \ {AnyOf(s)}] \notin Nat
    BY <2>3, <2>6
  <2>8. m - 1 \in T
    BY <2>5, <2>7
  <2> HIDE DEF T
  <2> QED
    BY <2>2, <2>5, <2>8
<1>10. iter[R] \in Nat
  BY <1>9
<1>11. R = {} => iter[R] = 0
  BY <1>8
<1> QED
  BY <1>1, <1>10, <1>11

LEMMA ImageOfRows ==
  ASSUME NEW R, IsFiniteSet(R)
  PROVE  /\ IsFiniteSet(GroupsIn(R)) /\ Cardinality(GroupsIn(R)) \in Nat
         /\ IsFiniteSet({r.ds : r \in R}) /\ IsFiniteSet({r.cls : r \in R})
<1> DEFINE g == [r \in R |-> GroupOf(r)]
           d == [r \in R |-> r.ds]
           c == [r \in R |-> r.cls]
<1>1. GroupsIn(R) = {g[r] : r \in DOMAIN g} /\ DOMAIN g = R
  BY DEF GroupsIn
<1>2. {r.ds : r \in R} = {d[r] : r \in DOMAIN d} /\ DOMAIN d = R
  OBVIOUS
<1>3. {r.cls : r \in R} = {c[r] : r \in DOMAIN c} /\ DOMAIN c = R
  OBVIOUS
<1> HIDE DEF g, d, c
<1>4. IsFiniteSet(GroupsIn(R))
  BY <1>1, ImageIsFinite
<1>5. IsFiniteSet({r.ds : r \in R})
  BY <1>2, ImageIsFinite
<1>6. IsFiniteSet({r.cls : r \in R})
  BY <1>3, ImageIsFinite
<1> QED
  BY <1>4, <1>5, <1>6, FS_CardinalityType

(* Of finitely many numbered things one has the highest number.            *)
LEMMA HighestExists ==
  ASSUME NEW M, IsFiniteSet(M), M # {}, NEW rank \in [M -> Int]
  PROVE  \E c \in M : \A d \in M : rank[c] >= rank[d]
<1> DEFINE Above(c) == {d \in M : rank[d] > rank[c]}
           T == {Cardinality(Above(c)) : c \in M}
<1>1. \A c \in M : IsFiniteSet(Above(c)) /\ Cardinality(Above(c)) \in Nat
  <2> TAKE c \in M
  <2>1. Above(c) \subseteq M
    OBVIOUS
  <2> HIDE DEF Above
  <2> QED
    BY <2>1, FS_Subset, FS_CardinalityType
<1>2. PICK m \in T : \A k \in T : m <= k
  <2>1. T \subseteq Nat /\ T # {}
    <3> HIDE DEF Above
    <3> QED
      BY <1>1
  <2> HIDE DEF T
  <2> QED
    BY <2>1, LeastNumber
<1>3. PICK c \in M : m = Cardinality(Above(c))
  BY <1>2
<1>4. ASSUME NEW d \in Above(c) PROVE FALSE
  <2>1. d \in M /\ rank[d] > rank[c]
    OBVIOUS
  <2>2. Above(d) \subseteq Above(c) \ {d}
    BY <2>1
  <2>3. d \in Above(c)
    OBVIOUS
  <2>4. Cardinality(Above(d)) \in T
    BY <2>1
  <2> HIDE DEF Above, T
  <2>5. /\ IsFiniteSet(Above(c) \ {d})
        /\ Cardinality(Above(c) \ {d}) = Cardinality(Above(c)) - 1
    BY <1>1, <2>3, FS_RemoveElement
  <2>6. Cardinality(Above(d)) <= Cardinality(Above(c)) - 1
    BY <2>2, <2>5, FS_Subset
  <2>7. /\ Cardinality(Above(c)) <= Cardinality(Above(d))
        /\ Cardinality(Above(c)) \in Nat /\ Cardinality(Above(d)) \in Nat
    BY <1>1, <1>2, <1>3, <2>1, <2>4
  <2> QED
    BY <2>6, <2>7
<1>5. \A d \in M : rank[c] >= rank[d]
  BY <1>4
<1> QED
  BY <1>5

(* The label-matched rows are of one class, of two receivers at least.     *)
LEMMA LabelMatchedIs ==
  ASSUME NEW R, IsFiniteSet(R), \A r \in R : r.n \in Nat, LabelMatched(R) # {}
  PROVE  /\ LabelMatched(R) \subseteq R
         /\ Cardinality({r.cls : r \in LabelMatched(R)}) = 1
         /\ Cardinality({r.ds : r \in LabelMatched(R)}) >= 2
<1> DEFINE Of(c) == {r \in R : r.cls = c}
           classes == {r.cls : r \in R}
           matched == {c \in classes : Cardinality(DatasetsWith(R, c)) >= 2}
           Rank(c) == 1000 * Cardinality(DatasetsWith(R, c)) + WindowsIn(Of(c))
           rank == [c \in matched |-> Rank(c)]
           best == CHOOSE c \in matched : \A d \in matched : Rank(c) >= Rank(d)
           S == LabelMatched(R)
<1>1. S = IF matched = {} THEN {} ELSE Of(best)
  BY DEF LabelMatched
<1>2. matched # {} /\ S = Of(best)
  BY <1>1
<1>3. \A c : Rank(c) \in Int
  <2> TAKE c
  <2>1. IsFiniteSet(Of(c)) /\ \A r \in Of(c) : r.n \in Nat
    BY FS_Subset
  <2>2. DatasetsWith(R, c) = {r.ds : r \in Of(c)}
    BY DEF DatasetsWith
  <2> HIDE DEF Of
  <2>3. WindowsIn(Of(c)) \in Nat
    BY <2>1, WindowsAreCounted
  <2>4. Cardinality(DatasetsWith(R, c)) \in Nat
    BY <2>1, <2>2, ImageOfRows, FS_CardinalityType
  <2> QED
    BY <2>3, <2>4
<1>4. IsFiniteSet(matched)
  <2>1. IsFiniteSet(classes) /\ matched \subseteq classes
    BY ImageOfRows
  <2> HIDE DEF classes, matched
  <2> QED
    BY <2>1, FS_Subset
<1>5. best \in matched
  <2> HIDE DEF matched, Rank
  <2>1. rank \in [matched -> Int]
    BY <1>3
  <2>2. \A c \in matched : rank[c] = Rank(c)
    OBVIOUS
  <2> HIDE DEF rank
  <2>3. \E c \in matched : \A d \in matched : rank[c] >= rank[d]
    BY <1>2, <1>4, <2>1, HighestExists
  <2>4. \E c \in matched : \A d \in matched : Rank(c) >= Rank(d)
    BY <2>2, <2>3
  <2> QED
    BY <2>4
<1> HIDE DEF best
<1>6. DatasetsWith(R, best) = {r.ds : r \in S}
  BY <1>2 DEF DatasetsWith
<1>7. Cardinality({r.ds : r \in S}) >= 2
  BY <1>5, <1>6
<1> HIDE DEF S
<1>8. {r.cls : r \in S} = {best}
  BY <1>2 DEF S
<1>9. Cardinality({r.cls : r \in S}) = 1
  BY <1>8, FS_Singleton
<1> QED
  BY <1>2, <1>7, <1>9 DEF S

LEMMA ProbeEarned ==
  ASSUME NEW p \in Probes, Probe(p.rows, p.held, p.margin).exit = 0
  PROVE  LET S == Probe(p.rows, p.held, p.margin).subset
         IN  /\ Cardinality({r.cls : r \in S}) = 1 /\ Cardinality({r.ds : r \in S}) >= 2
             /\ \A d \in {r.ds : r \in S} :
                  Cardinality(GroupsIn({r \in S : r.ds = d})) >= 5
<1> DEFINE R == p.rows
           held == p.held
           got == Probe(R, held, p.margin)
           S == LabelMatched(R)
           folds == ProbeFolds(S, held)
           m == FoldCount(S)
           Of(d) == {r \in S : r.ds = d}
<1>1. IsFiniteSet(R) /\ \A r \in R : r.n \in Nat
  BY EvaluationAssumption
<1>2. got.subset = S
  BY DEF Probe
<1>3. S # {} /\ Cardinality(GroupsIn(S)) >= 2 /\ Verdict(S, folds, p.margin) \in {"pass", "conditional"}
  <2> DEFINE runnable == Cardinality(GroupsIn(S)) >= 2
             verdict == IF runnable THEN Verdict(S, folds, p.margin) ELSE ""
  <2>1. R = {} => S = {}
    BY DEF LabelMatched
  <2>2. got.exit = CASE R = {} -> 2 [] R # {} /\ S = {} -> 3
                    [] S # {} -> IF verdict \in {"pass", "conditional"} THEN 0 ELSE 1
    BY DEF Probe
  <2>3. got.exit = 0
    OBVIOUS
  <2> HIDE DEF got, S, verdict, R
  <2>4. S # {} /\ verdict \in {"pass", "conditional"}
    BY <2>1, <2>2, <2>3
  <2>5. runnable
    BY <2>4 DEF verdict
  <2> QED
    BY <2>4, <2>5 DEF verdict
<1> HIDE DEF R, got
<1>4. /\ S \subseteq R /\ Cardinality({r.cls : r \in S}) = 1
      /\ Cardinality({r.ds : r \in S}) >= 2
  BY <1>1, <1>3, LabelMatchedIs
<1> HIDE DEF S
<1>5. IsFiniteSet(S) /\ \A r \in S : r.n \in Nat
  BY <1>1, <1>4, FS_Subset
<1>6. \A f \in folds : ~FoldDropped(S, f)
  <2> HIDE DEF folds
  <2> QED
    BY <1>3 DEF Verdict
<1>7. Cardinality(GroupsIn(S)) \in Nat /\ IsFiniteSet(GroupsIn(S))
  BY <1>5, ImageOfRows
<1>8. m \in Nat /\ m >= 2 /\ (m = 5 \/ m = Cardinality(GroupsIn(S)))
  <2> DEFINE c == Cardinality(GroupsIn(S))
  <2>1. c \in Nat /\ c >= 2 /\ m = Min({5, c})
    BY <1>3, <1>7 DEF FoldCount
  <2> HIDE DEF c, m
  <2>2. \E x \in {5, c} : \A y \in {5, c} : x <= y
    BY <2>1
  <2>3. m \in {5, c}
    BY <2>1, <2>2 DEF Min
  <2> QED
    BY <2>1, <2>3 DEF c
<1> HIDE DEF m
<1>9. ASSUME NEW d \in {r.ds : r \in S}, NEW k \in 1..m
      PROVE  \E g \in GroupsIn(Of(d)) : held[g] = k
  <2> DEFINE test == {r \in S : held[GroupOf(r)] = k}
             f == Fold(S \ test, test, {})
             both == {r \in test : r.ds = d}
  <2>1. f \in folds
    BY DEF ProbeFolds, m
  <2>2. f.test = test
    BY DEF Fold
  <2>3. ~FoldDropped(S, f)
    BY <1>6, <2>1
  <2>4. ~(WindowsIn({r \in f.test : r.ds = d}) < 5)
    BY <2>3 DEF FoldDropped
  <2>5. ~(WindowsIn(both) < 5)
    BY <2>2, <2>4
  <2>6. IsFiniteSet(both) /\ \A r \in both : r.n \in Nat
    BY <1>5, FS_Subset
  <2>7. both # {}
    <3> HIDE DEF both
    <3> QED
      BY <2>5, <2>6, WindowsAreCounted
  <2>8. PICK r \in both : TRUE
    BY <2>7
  <2>9. r \in Of(d) /\ held[GroupOf(r)] = k
    OBVIOUS
  <2> QED
    BY <2>9 DEF GroupsIn
<1>10. ASSUME NEW d \in {r.ds : r \in S}
       PROVE  /\ IsFiniteSet(GroupsIn(Of(d))) /\ Cardinality(GroupsIn(Of(d))) \in Nat
              /\ Cardinality(GroupsIn(Of(d))) >= m
  <2> DEFINE G == GroupsIn(Of(d))
             phi == [k \in 1..m |-> CHOOSE g \in G : held[g] = k]
  <2>1. IsFiniteSet(Of(d))
    BY <1>5, FS_Subset
  <2>2. IsFiniteSet(G) /\ Cardinality(G) \in Nat
    <3> HIDE DEF Of
    <3> QED
      BY <2>1, ImageOfRows
  <2>3. \A k \in 1..m : \E g \in G : held[g] = k
    BY <1>9
  <2> HIDE DEF G
  <2>4. \A k \in 1..m : phi[k] \in G /\ held[phi[k]] = k
    BY <2>3
  <2>5. phi \in Injection(1..m, G)
    <3>1. phi \in [1..m -> G]
      BY <2>4
    <3> HIDE DEF phi
    <3> QED
      BY <2>4, <3>1 DEF Injection, IsInjective
  <2> HIDE DEF phi
  <2>6. Cardinality(1..m) <= Cardinality(G)
    BY <2>2, <2>5, FS_Injection
  <2>7. Cardinality(1..m) = m
    <3>1. 1 \in Int /\ m \in Int
      BY <1>8
    <3>2. Cardinality(1..m) = IF 1 > m THEN 0 ELSE m - 1 + 1
      BY <3>1, FS_Interval
    <3> QED
      BY <1>8, <3>2
  <2> QED
    BY <1>8, <2>2, <2>6, <2>7 DEF G
<1>11. m = 5
  <2>1. SUFFICES ASSUME m # 5 PROVE FALSE
    OBVIOUS
  <2>2. m = Cardinality(GroupsIn(S))
    BY <1>8, <2>1
  <2> DEFINE D == {r.ds : r \in S}
  <2>3. IsFiniteSet(D) /\ Cardinality(D) \in Nat
    BY <1>5, ImageOfRows, FS_CardinalityType
  <2>4. PICK d \in D, e \in D : d # e
    <3> HIDE DEF D
    <3>1. SUFFICES ASSUME \A x, y \in D : x = y PROVE FALSE
      OBVIOUS
    <3>2. D # {}
      <4>1. Cardinality(D) # 0
        BY <1>4, <2>3 DEF D
      <4> QED
        BY <2>3, <4>1, FS_EmptySet
    <3>3. PICK x \in D : D = {x}
      BY <3>1, <3>2
    <3>4. Cardinality(D) = 1
      BY <3>3, FS_Singleton
    <3> QED
      BY <1>4, <3>4 DEF D
  <2> DEFINE A == GroupsIn(Of(d))
             B == GroupsIn(Of(e))
  <2>5. A \cap B = {}
    <3>1. ASSUME NEW q \in Of(d), NEW r \in Of(e), GroupOf(q) = GroupOf(r) PROVE FALSE
      BY <2>4, <3>1 DEF GroupOf
    <3> HIDE DEF Of
    <3> QED
      BY <3>1 DEF GroupsIn
  <2>6. A \cup B \subseteq GroupsIn(S)
    BY DEF GroupsIn
  <2>7. /\ IsFiniteSet(A) /\ Cardinality(A) \in Nat /\ Cardinality(A) >= m
        /\ IsFiniteSet(B) /\ Cardinality(B) \in Nat /\ Cardinality(B) >= m
    BY <1>10
  <2> HIDE DEF A, B
  <2>8. Cardinality(A \cup B) = Cardinality(A) + Cardinality(B)
    <3>1. Cardinality(A \cup B) = Cardinality(A) + Cardinality(B) - Cardinality(A \cap B)
      BY <2>7, FS_Union
    <3>2. Cardinality(A \cap B) = 0
      BY <2>5, FS_EmptySet
    <3> QED
      BY <2>7, <3>1, <3>2
  <2>9. Cardinality(A \cup B) <= Cardinality(GroupsIn(S))
    BY <1>7, <2>6, FS_Subset
  <2> QED
    BY <1>7, <1>8, <2>2, <2>7, <2>8, <2>9
<1>12. \A d \in {r.ds : r \in S} : Cardinality(GroupsIn({r \in S : r.ds = d})) >= 5
  BY <1>10, <1>11
<1> QED
  BY <1>2, <1>4, <1>12 DEF got, R

LEMMA VerdictsAreTrue == OfflineInv => VerdictsTrue
<1> SUFFICES ASSUME OfflineInv, out # "pending" PROVE VerdictsTrue
  BY DEF VerdictsTrue, FoldsAreFair, VerdictsEarned, Ran
<1> DEFINE j == job[2]
<1>1. CASE job[1] = "bench"
  <2>1. j \in Corpora /\ out[1] = Benchmark(j.zenodo, j.antsdr, j.rub)
    BY <1>1, ResultOf DEF OfflineInv
  <2>2. BenchFair(out[1], j)
    BY <2>1, BenchIsFair
  <2> QED
    BY <1>1, <2>2 DEF VerdictsTrue, FoldsAreFair, VerdictsEarned, Ran, BenchFair
<1>2. CASE job[1] = "loading"
  <2>1. j \in Loadings /\ out[1] = UsedRows(j.windows, j.limit)
    BY <1>2, ResultOf DEF OfflineInv
  <2> HIDE DEF j
  <2>2. j.limit = 0 =>
          LET ws == j.windows
              good == {i \in DOMAIN ws : ws[i].tensor = "good"}
          IN  /\ \A i, k \in {n \in good : ws[n].typed = "absent"} :
                   ws[i].run = ws[k].run => (i \in out[1] <=> k \in out[1])
              /\ \A i \in good : ws[i].typed = "ok" => i \in out[1]
    BY <2>1, LoadingIsFair
  <2> QED
    BY <1>2, <2>2 DEF VerdictsTrue, FoldsAreFair, VerdictsEarned, Ran, j
<1>3. CASE job[1] = "trainer"
  <2>1. j \in Trainings /\ out[1] = TrainAndSave(j.dataset, j.files, j.cap, j.draw)
    BY <1>3, ResultOf DEF OfflineInv
  <2>2. TrainFair(out[1])
    BY <2>1, TrainingIsFair
  <2> QED
    BY <1>3, <2>2 DEF VerdictsTrue, FoldsAreFair, VerdictsEarned, Ran, TrainFair
<1>4. CASE job[1] = "probe"
  <2>1. j \in Probes /\ out[1] = Probe(j.rows, j.held, j.margin)
    BY <1>4, ResultOf DEF OfflineInv
  <2>2. out[1].exit = 0 =>
          LET S == out[1].subset
          IN  /\ Cardinality({r.cls : r \in S}) = 1 /\ Cardinality({r.ds : r \in S}) >= 2
              /\ \A d \in {r.ds : r \in S} : Cardinality(GroupsIn({r \in S : r.ds = d})) >= 5
    BY <2>1, ProbeEarned
  <2> QED
    BY <1>4, <2>2 DEF VerdictsTrue, FoldsAreFair, VerdictsEarned, Ran
<1>5. CASE job[1] = "budget"
  <2>1. j \in Budgets /\ out[1] = BudgetMet(j)
    BY <1>5, ResultOf DEF OfflineInv
  <2>2. out[1] => \A i \in DOMAIN j :
          LET s == j[i]
          IN  \A w \in DOMAIN s : /\ s[w].labels \cap {"fhss1", "fhss2", "droneid"} = {}
                                   /\ s[w].morphology # "droneid"
                                   /\ w = Len(s) => ~s[w].cadence
    BY <2>1, BudgetEarned
  <2> QED
    BY <1>5, <2>2 DEF VerdictsTrue, FoldsAreFair, VerdictsEarned, Ran
<1>6. CASE job[1] \notin {"bench", "loading", "trainer", "probe", "budget"}
  BY <1>6 DEF VerdictsTrue, FoldsAreFair, VerdictsEarned, Ran
<1> QED
  BY <1>1, <1>2, <1>3, <1>4, <1>5, <1>6

(* No figure of a classifier's scripts rests on a recording on both sides  *)
(* of a split, nor on too few receivers or sessions, for every corpus, run *)
(* of windows and session (benchmark_features_v2.py, receiver_id_probe.py, *)
(* stage1_fa_budget.py, train.py).                                         *)
THEOREM VerdictsTrueHolds == OfflineSpec => []VerdictsTrue
<1> QED
  BY CaseIsKept, VerdictsAreTrue, PTL
=============================================================================
