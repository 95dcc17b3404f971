------------------------------ MODULE SikLink -------------------------------
(***************************************************************************)
(* Passive decoding of SiK telemetry: the bursts of a dwell window, what   *)
(* decode_sik_window concludes from them, and the reassembly of MAVLink    *)
(* messages from the payloads of a link's frames.                          *)
(*                                                                         *)
(* A byte on the link is its value and where it comes from: message m,     *)
(* byte k.  The decoder looks at values only.  A checksum matches exactly  *)
(* if the bytes it covers are those of one message.  Of a MAVLink header    *)
(* the start byte, the length and the flags are kept.                      *)
(***************************************************************************)
EXTENDS Integers, Sequences, FiniteSets, SequencesExt, FiniteSetsExt

CONSTANTS Streams,         \* what the link may have to send: sequences of messages
          Packets,         \* the numbers of bytes one radio frame may carry
          Jitter,          \* errors of a burst's centre estimate, in kHz
          MinBursts, MinFrames, MinChannels, MaxBuffer,
          MaxBursts, MaxWindows    \* bounds of the model
(* The length of a body is one byte; the signature is version 2's.         *)
Messages ==
    [ver : {"v1", "v2"}, known : BOOLEAN, signed : BOOLEAN, body : Seq(0..255)]

ASSUME SikAssumption ==
    /\ Packets # {} /\ Packets \subseteq Nat \ {0} /\ Jitter \subseteq Int
    /\ {MinFrames, MinChannels, MaxBuffer} \subseteq Nat \ {0}
    /\ MaxBursts \in Nat /\ MaxWindows \in Nat
    /\ \A stream \in Streams :
         stream \in Seq(Messages) /\ \A m \in DOMAIN stream : Len(stream[m].body) <= 255

Mavlink == "mavlink link"       \* NETID of the link that carries the stream
Other == "other link"           \* NETID of a second link in the band
Channels == 0..2
SpacingKHz == 250

VARIABLES
    unsent,   \* bytes the link has still to send
    hop,      \* the channel of its next frame
    enabled,  \* decode_third_party_mavlink
    windows,  \* dwell windows so far
    phase,    \* "listen", "feed" while the decoder is fed, "report"
    bursts,   \* the bursts of the window
    netid,    \* confirmed_netid, or "none"
    level,    \* evidence_level
    fed,      \* the last frame fed to the decoder, by its place
    heard,    \* their payloads, joined
    buf,      \* SikMavlinkDecoder._buffers[netid]
    out       \* the messages: their bytes in heard, and crc_ok

linkVars == <<unsent, hop, enabled, windows, phase, bursts, netid, level, fed, heard,
              buf, out>>

-----------------------------------------------------------------------------
(* Messages and their bytes.                                               *)

Stx == [v1 |-> 254, v2 |-> 253]
HeadLen == [v1 |-> 2, v2 |-> 3]
CrcLen == 1
SigLen == 1

(* Byte values of message msg, from the start byte to the signature.       *)
Values(msg) ==
    <<Stx[msg.ver], Len(msg.body)>>
      \o (IF msg.ver = "v2" THEN <<IF msg.signed THEN 1 ELSE 0>> ELSE <<>>)
      \o msg.body \o <<0>> \o (IF msg.ver = "v2" /\ msg.signed THEN <<0>> ELSE <<>>)

(* _MAX_BUFFER (4096) holds what may be left of a message (at most 280     *)
(* bytes long) and the payload of a frame (at most 252).                   *)
ASSUME BufferAssumption ==
    \A stream \in Streams, n \in Packets :
      \A m \in DOMAIN stream : Len(Values(stream[m])) - 1 + n <= MaxBuffer

BytesOf(stream) ==
    LET Of(m) == LET vs == Values(stream[m])
                 IN  [k \in DOMAIN vs |-> [v |-> vs[k], m |-> m, k |-> k, n |-> Len(vs),
                                           known |-> stream[m].known]]
    IN  FlattenSeq([m \in DOMAIN stream |-> Of(m)])

-----------------------------------------------------------------------------
(* mavlink.py.                                                             *)

IsStx(b) == b.v \in {Stx.v1, Stx.v2}

(* _try_parse_v1, _try_parse_v2: the last byte of the frame at i, or 0 if  *)
(* there is none or it is not all there.                                   *)
FrameEnd(data, i) ==
    LET ver == IF data[i].v = Stx.v1 THEN "v1" ELSE "v2"
        here == IsStx(data[i]) /\ i + HeadLen[ver] - 1 <= Len(data)
        sig == IF ver = "v2" /\ data[i + 2].v % 2 = 1 THEN SigLen ELSE 0
        end == i + HeadLen[ver] - 1 + data[i + 1].v + CrcLen + sig
    IN  IF here /\ end <= Len(data) THEN end ELSE 0

(* mavlink_crc: with no CRC_EXTRA for the message nothing can be verified. *)
CrcOk(data, i, end) ==
    /\ \A j \in i..end : data[j].m = data[i].m /\ data[j].k = j - i + 1
    /\ end - i + 1 = data[i].n
    /\ data[i].known

(* parse_mavlink_stream: a search; a byte that starts no complete frame is *)
(* skipped, one that does is passed over with the whole frame, whether its *)
(* checksum matches or not.                                                *)
ParseStream(data) ==
    LET From[i \in 1..Len(data) + 1] ==
          IF i > Len(data) THEN <<>>
          ELSE IF FrameEnd(data, i) = 0 THEN From[i + 1]
               ELSE <<[first |-> i, last |-> FrameEnd(data, i),
                       ok |-> CrcOk(data, i, FrameEnd(data, i))]>>
                    \o From[FrameEnd(data, i) + 1]
    IN  From[1]

(* Defective: messages that fail their checksum are not consumed. *)
ConsumedVerifiedOnly(data, messages) ==
    LET good == SelectSeq(messages, LAMBDA x : x.ok)
    IN  IF good = <<>> THEN 0 ELSE Last(good).last

(* _consumed_prefix_len: with no message, the tail from the last byte that *)
(* could start one is kept.                                                *)
ConsumedPrefix(data, messages) ==
    LET starts == {j \in DOMAIN data : IsStx(data[j])}
    IN  IF messages # <<>> THEN Last(messages).last
        ELSE IF starts # {} THEN Max(starts) - 1
             ELSE IF Len(data) > 0 THEN Len(data) - 1 ELSE 0

Drop(s, n) == SubSeq(s, n + 1, Len(s))

-----------------------------------------------------------------------------
(* raster.py and pipeline.py.                                              *)

Centre(b) == b.ch * SpacingKHz + b.off

(* _cluster_raw_centres: centres within 20 kHz of their neighbour are one   *)
(* channel.                                                                *)
ClusterCount(found) ==
    LET cs == {Centre(found[i]) : i \in DOMAIN found}
    IN  Cardinality({c \in cs : \A d \in cs : d < c => c - d > 20})

(* estimate_sik_raster, whose lattice test may pass or fail for three      *)
(* clusters or more.                                                       *)
RasterOutcomes(found) == IF ClusterCount(found) < 3 THEN {FALSE} ELSE {TRUE, FALSE}

(* The frames of a link, by their places among the bursts.                 *)
FramesOf(id) == {i \in DOMAIN bursts : bursts[i].frame /\ bursts[i].netid = id}

(* Defective: frames on one channel count as channels. *)
SeenChannelsPerFrame(frames) == frames

(* The distinct channels a link was seen on: its centres, rounded to 1 kHz. *)
SeenChannels(frames) == {Centre(bursts[i]) : i \in frames}

Confirmed(id) == /\ Cardinality(FramesOf(id)) >= MinFrames
                 /\ Cardinality(SeenChannels(FramesOf(id))) >= MinChannels

(* The links are tried in the order of their first frame.                  *)
FirstFrame(id) == Min(FramesOf(id))
ConfirmedNetid ==
    LET ids == {id \in {Mavlink, Other} : Confirmed(id)}
    IN  IF ids = {} THEN "none"
        ELSE CHOOSE id \in ids : \A other \in ids : FirstFrame(id) <= FirstFrame(other)

Level(hopper, id, messages) ==
    CASE \E i \in DOMAIN messages : messages[i].ok -> 4
      [] id # "none" -> 3
      [] hopper -> 2
      [] OTHER -> IF bursts # <<>> THEN 1 ELSE 0

-----------------------------------------------------------------------------
LinkInit ==
    /\ \E s \in Streams : unsent = BytesOf(s)
    /\ hop = 0 /\ enabled \in BOOLEAN /\ windows = 0
    /\ phase = "listen" /\ bursts = <<>> /\ netid = "none" /\ level = 0
    /\ fed = 0 /\ heard = <<>> /\ buf = <<>> /\ out = <<>>

Burst(ch, off, id, frame, payload) ==
    bursts' = Append(bursts, [ch |-> ch, off |-> off, netid |-> id, frame |-> frame,
                              payload |-> payload])

(* The link sends its next frame.  The burst is found and decoded, found   *)
(* and not decoded (_decode_one_burst: no sync, no CRC-valid frame), or    *)
(* not found at all.                                                       *)
LinkSends ==
    /\ phase = "listen" /\ unsent # <<>> /\ Len(bursts) < MaxBursts
    /\ \E n \in Packets :
         LET k == Min({n, Len(unsent)})
         IN  /\ unsent' = Drop(unsent, k)
             /\ \/ \E off \in Jitter, frame \in BOOLEAN :
                     Burst(hop, off, Mavlink, frame, SubSeq(unsent, 1, k))
                \/ UNCHANGED bursts
    /\ hop' = (hop + 1) % Cardinality(Channels)
    /\ UNCHANGED <<enabled, windows, phase, netid, level, fed, heard, buf, out>>

(* A frame of another link.                                                *)
OtherSends ==
    /\ phase = "listen" /\ Len(bursts) < MaxBursts
    /\ Burst(2, 0, Other, TRUE, <<>>)
    /\ UNCHANGED <<unsent, hop, enabled, windows, phase, netid, level, fed, heard, buf,
                   out>>

(* The dwell is over: decode_sik_window up to the MAVLink parse.           *)
EndOfDwell ==
    /\ phase = "listen" /\ windows < MaxWindows
    /\ windows' = windows + 1
    /\ netid' = ConfirmedNetid
    /\ \E consistent \in RasterOutcomes(bursts) :
         level' = Level(consistent /\ Len(bursts) >= MinBursts, ConfirmedNetid, <<>>)
    /\ phase' = IF enabled /\ ConfirmedNetid # "none" THEN "feed" ELSE "report"
    /\ fed' = 0 /\ heard' = <<>> /\ buf' = <<>> /\ out' = <<>>
    /\ UNCHANGED <<unsent, hop, enabled, bursts>>

Unfed == {i \in FramesOf(netid) : i > fed}

(* SikMavlinkDecoder.feed of the next frame of the confirmed link.          *)
Feed ==
    /\ phase = "feed" /\ Unfed # {}
    /\ LET payload == bursts[Min(Unfed)].payload
           all == buf \o payload
           data == IF Len(all) > MaxBuffer THEN Drop(all, Len(all) - MaxBuffer) ELSE all
           messages == ParseStream(data)
           base == Len(heard) + Len(payload) - Len(data)
           Place(x) == [x EXCEPT !.first = @ + base, !.last = @ + base]
       IN  /\ heard' = heard \o payload
           /\ buf' = Drop(data, ConsumedPrefix(data, messages))
           /\ out' = out \o [i \in DOMAIN messages |-> Place(messages[i])]
    /\ fed' = Min(Unfed)
    /\ UNCHANGED <<unsent, hop, enabled, windows, phase, bursts, netid, level>>

Fed ==
    /\ phase = "feed" /\ Unfed = {}
    /\ level' = IF \E i \in DOMAIN out : out[i].ok THEN 4 ELSE level
    /\ phase' = "report"
    /\ UNCHANGED <<unsent, hop, enabled, windows, bursts, netid, fed, heard, buf, out>>

(* The window's result is returned; the next window has a new decoder.     *)
NextWindow ==
    /\ phase = "report" /\ phase' = "listen"
    /\ bursts' = <<>> /\ netid' = "none" /\ level' = 0
    /\ fed' = 0 /\ heard' = <<>> /\ buf' = <<>> /\ out' = <<>>
    /\ UNCHANGED <<unsent, hop, enabled, windows>>

LinkNext == LinkSends \/ OtherSends \/ EndOfDwell \/ Feed \/ Fed \/ NextWindow
LinkSpec == LinkInit /\ [][LinkNext]_linkVars

-----------------------------------------------------------------------------
LinkTypeOK ==
    /\ phase \in {"listen", "feed", "report"} /\ enabled \in BOOLEAN
    /\ windows \in 0..MaxWindows /\ hop \in Channels /\ level \in 0..4
    /\ netid \in {"none", Mavlink, Other}
    /\ Len(bursts) <= MaxBursts /\ Len(buf) <= MaxBuffer /\ fed \in 0..MaxBursts

EachByteReportedOnce ==
    /\ \A i \in DOMAIN out :
         /\ out[i].first <= out[i].last
         /\ i > 1 => out[i - 1].last < out[i].first
    /\ buf = Drop(heard, Len(heard) - Len(buf))
    /\ out # <<>> => Last(out).last <= Len(heard) - Len(buf)

WholeIn(j, data) ==
    /\ data[j].k = 1 /\ j + data[j].n - 1 <= Len(data)
    /\ \A i \in 0..data[j].n - 1 : data[j + i].m = data[j].m /\ data[j + i].k = i + 1
ClearIn(j, data) ==
    /\ \A i \in 1..j - 1 : FrameEnd(data, i) < j
    /\ \A i \in j + 1..j + data[j].n - 1 : ~IsStx(data[i])
Reported(j) ==
    \E i \in DOMAIN out : out[i].first = j /\ (out[i].ok <=> heard[j].known)
SplitMessagesReported ==
    heard # <<>> /\ phase = "report" /\ enabled /\ netid # "none" =>
      \A j \in DOMAIN heard : WholeIn(j, heard) /\ ClearIn(j, heard) => Reported(j)

(* feed and _consumed_prefix_len of mavlink.py, which find the same bytes   *)
(* in two walks: no byte is reported twice and none is parsed again once   *)
(* it was consumed; the messages of a window lie one behind the other in   *)
(* what was fed, and the buffer is its end, behind the last of them.  And  *)
(* a message received whole in one window, in any number of frames, is     *)
(* reported, with crc_ok if its checksum can be verified, except in two    *)
(* cases: a frame that the parser could read at an earlier start byte, up  *)
(* to the end it claims, reaches into the message; or the message has a    *)
(* byte inside that looks like a start byte.  (In the first the message    *)
(* may be passed over with that frame: a start byte inside an earlier      *)
(* payload claims one, and so does the start of a message whose rest was   *)
(* lost with a radio frame.  In the second the message's own start may be  *)
(* dropped for consumed.)                                                  *)
MessagesReportedOnce ==
    /\ LinkTypeOK
    /\ EachByteReportedOnce
    /\ SplitMessagesReported

(* A link confirmed on too few channels was confirmed because the centres  *)
(* of one channel were estimated apart (pipeline.py: the channels are told *)
(* apart by the estimate, rounded to 1 kHz); a confirmed link was decoded  *)
(* often enough, and level 4 is a verified message of that link.           *)
ConfirmedByJitterOnly ==
    netid # "none" =>
      LET frames == FramesOf(netid)
      IN  /\ Cardinality(frames) >= MinFrames
          /\ \/ Cardinality({bursts[i].ch : i \in frames}) >= MinChannels
             \/ \E i, j \in frames :
                  bursts[i].ch = bursts[j].ch /\ bursts[i].off # bursts[j].off
          /\ level = 4 =>
               netid = Mavlink /\ (phase = "report" => \E i \in DOMAIN out : out[i].ok)
=============================================================================
