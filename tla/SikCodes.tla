------------------------------ MODULE SikCodes ------------------------------
(***************************************************************************)
(* The codes of a SiK radio burst: the Golay code, the two checksums, the  *)
(* hardware frame under its two ECC hypotheses, the search for the sync    *)
(* word, and the hop map.                                                  *)
(*                                                                         *)
(* A word of w bits is the set of the numbers of its one bits, bit 0 the   *)
(* least significant; a byte is a word of 8 bits.                          *)
(***************************************************************************)
EXTENDS Integers, Sequences, FiniteSets, TLC, SequencesExt, FiniteSetsExt

Xor(a, b) == (a \ b) \cup (b \ a)
XorAll(S, Of(_)) == FoldSet(LAMBDA x, acc : Xor(acc, Of(x)), {}, S)
Shift(w, by) == {i + by : i \in w}
Field(w, lo, hi) == Shift(w \cap lo..hi, -lo)
Value(w) == MapThenSumSet(LAMBDA i : 2^i, w)
BitsOf(v, n) == {i \in 0..n - 1 : (v \div 2^i) % 2 = 1}

-----------------------------------------------------------------------------
(* golay.py.                                                               *)

(* _GOLAY23_ENCODE is linear: the syndrome of a word of 12 bits is the sum *)
(* of those of its bits.                                                   *)
EncodeRow ==
    (0 :> {0,2,4,5,6,10}) @@ (1 :> {0,1,2,3,4,7,10}) @@ (2 :> {0,1,3,6,8,10})
 @@ (3 :> {0,1,5,6,7,9,10}) @@ (4 :> {0,1,4,5,7,8}) @@ (5 :> {1,2,5,6,8,9})
 @@ (6 :> {2,3,6,7,9,10}) @@ (7 :> {0,2,3,5,6,7,8}) @@ (8 :> {1,3,4,6,7,8,9})
 @@ (9 :> {2,4,5,7,8,9,10}) @@ (10 :> {0,2,3,4,8,9}) @@ (11 :> {1,3,4,5,9,10})
Syndrome(v) == XorAll(v, LAMBDA i : EncodeRow[i])

(* A codeword on the air: the syndrome in bits 0 to 10, the data in bits   *)
(* 11 to 22; bit 23 fills up the third byte and is not looked at.          *)
SyndromeBits == 0..10
DataBits == 11..22
Codeword(v) == Syndrome(v) \cup Shift(v, 11)

(* _GOLAY23_DECODE: the data bits in error for each syndrome, found from   *)
(* the patterns of up to three errors.                                     *)
Patterns(n) == {e \in {{a, b, c} : a, b, c \in 0..22} \cup {{}} : Cardinality(e) <= n}
Mismatch(w) == Xor(Syndrome(Field(w, 11, 22)), w \cap 0..10)
DecodeTable(n) ==
    LET pairs == {<<Value(Mismatch(e)), Field(e, 11, 22)>> : e \in Patterns(n)}
    IN  [v \in 0..2047 |-> UNION {p[2] : p \in {q \in pairs : q[1] = v}}]
(* Defective: three errors are not corrected. *)
Decode23OfTwo == DecodeTable(2)

Decode23 == DecodeTable(3)

Bytes(w) == [k \in 1..3 |-> Field(w, 8 * (k - 1), 8 * k - 1)]
WordOf(bytes) == UNION {Shift(bytes[k], 8 * (k - 1)) : k \in DOMAIN bytes}

(* golay_encode, golay_decode: three bytes are two words of 12 bits.       *)
Encode24(g) ==
    Bytes(Codeword(g[1] \cup Shift(g[2] \cap 0..3, 8)))
      \o Bytes(Codeword(g[3] \cup Shift(g[2] \cap 4..7, 4)))
GolayEncode(data) ==
    FlattenSeq([k \in 1..Len(data) \div 3 |-> Encode24(SubSeq(data, 3 * k - 2, 3 * k))])

ErrorIn(w) == Decode23[Value(Mismatch(w))]
Decode12(w) == Xor(Field(w, 11, 22), ErrorIn(w))
Decode24(g) ==
    LET v == Decode12(WordOf(SubSeq(g, 1, 3)))
        u == Decode12(WordOf(SubSeq(g, 4, 6)))
    IN  <<v \cap 0..7, Field(v, 8, 11) \cup Shift(Field(u, 8, 11), 4), u \cap 0..7>>
GolayDecode(data) ==
    FlattenSeq([k \in 1..Len(data) \div 6 |-> Decode24(SubSeq(data, 6 * k - 5, 6 * k))])

-----------------------------------------------------------------------------
(* frame.py.                                                               *)

Times(n, Op(_), w) == FoldLeft(LAMBDA acc, k : Op(acc), w, [k \in 1..n |-> k])

(* crc16_hw_arc: reflected, polynomial 0xA001.                             *)
ArcShift(crc) == Xor(Shift(crc \ {0}, -1), IF 0 \in crc THEN {0, 13, 15} ELSE {})
Crc16Arc(data) == FoldLeft(LAMBDA crc, b : Times(8, ArcShift, Xor(crc, b)), {}, data)

(* _CRC_TAB1 and _CRC_TAB2 hold the high byte shifted out by polynomial     *)
(* 0x1021; sik_crc16 brings the data in at the low end.                    *)
TableShift(crc) == Xor(Shift(crc \ {15}, 1), IF 15 \in crc THEN {0, 5, 12} ELSE {})
CrcTable(high) == Times(8, TableShift, Shift(high, 8))
SikCrc16(data) ==
    FoldLeft(LAMBDA crc, b : Xor(Shift(crc \cap 0..7, 8) \cup b, CrcTable(Field(crc, 8, 15))),
             {}, data)

Low(w) == w \cap 0..7
High(w) == Field(w, 8, 15)
Ceil3(n) == 3 * ((n + 2) \div 3)

(* sik_encode_frame: the transmitter, with its trailer of window, command,  *)
(* bonus and resend packed into 16 bits.                                   *)
TrailerWord(t) ==
    t.window \cup Shift(t.command, 13) \cup Shift(t.bonus, 14) \cup Shift(t.resend, 15)
TrailerOf(w) ==
    [window |-> w \cap 0..12, command |-> Field(w, 13, 13),
     bonus |-> Field(w, 14, 14), resend |-> Field(w, 15, 15)]
EncodeFrame(netid, payload, trailer, ecc) ==
    LET full == payload \o <<Low(TrailerWord(trailer)), High(TrailerWord(trailer))>>
        length == BitsOf(Len(full), 8)
        head == <<High(netid), Low(netid), length>>
        arc == Crc16Arc(head \o full)
        crc == SikCrc16(full)
        padded == full \o [k \in 1..Ceil3(Len(full)) - Len(full) |-> {}]
    IN  IF ecc
        THEN GolayEncode(<<Low(netid), High(netid), length>>)
               \o GolayEncode(<<Low(crc), High(crc), length>>) \o GolayEncode(padded)
        ELSE head \o full \o <<High(arc), Low(arc)>>

(* SikFrame and _split_trailer.  What may be missing is a sequence of at    *)
(* most one element.                                                       *)
Prefix(s, n) == SubSeq(s, 1, Min({n, Len(s)}))
First(frames) == Prefix(frames, 1)
SikFrame(netid, full, ok, ecc) ==
    LET n == Len(full)
    IN  [netid |-> netid, crc_ok |-> ok, ecc |-> ecc,
         payload |-> IF n < 2 THEN full ELSE SubSeq(full, 1, n - 2),
         trailer |-> IF n < 2 THEN <<>> ELSE <<TrailerOf(WordOf(SubSeq(full, n - 1, n)))>>]

ParseEcc0(d) ==
    LET length == Value(d[3])
        crc == Shift(d[4 + length], 8) \cup d[5 + length]
    IN  IF Len(d) < 5 \/ Len(d) < length + 5 THEN <<>>
        ELSE <<SikFrame(Shift(d[1], 8) \cup d[2], SubSeq(d, 4, 3 + length),
                        Crc16Arc(SubSeq(d, 1, 3 + length)) = crc, FALSE)>>

CrcOkEcc1(crc, full, hdr_length, length, rlen) ==
    crc = SikCrc16(full) /\ length <= rlen /\ hdr_length = length

Ecc1Frame(hdr, crc, full, rlen) ==
    SikFrame(Shift(hdr[2], 8) \cup hdr[1], full,
             CrcOkEcc1(Shift(crc[2], 8) \cup crc[1], full, Value(hdr[3]), Value(crc[3]), rlen), TRUE)
Ecc1Body(d, hdr, crc, rlen) ==
    IF Len(d) < 12 + 2 * rlen THEN <<>>
    ELSE <<Ecc1Frame(hdr, crc, Prefix(GolayDecode(SubSeq(d, 13, 12 + 2 * rlen)),
                                      Min({Value(crc[3]), rlen})), rlen)>>
ParseEcc1(d) ==
    LET hdr == GolayDecode(SubSeq(d, 1, 6))
    IN  IF Len(d) < 12 THEN <<>>
        ELSE Ecc1Body(d, hdr, GolayDecode(SubSeq(d, 7, 12)), Ceil3(Value(hdr[3])))

(* parse_hw_frame and deframe: ECC 0 is tried before ECC 1.                 *)
ParseHwFrame(d, ecc) == IF ecc THEN ParseEcc1(d) ELSE ParseEcc0(d)
Deframe(d) ==
    First(SelectSeq(ParseHwFrame(d, FALSE) \o ParseHwFrame(d, TRUE), LAMBDA f : f.crc_ok))

-----------------------------------------------------------------------------
(* gfsk.py and pipeline.py: from the bits of a burst to a frame.           *)

(* _bits_to_bytes, the most significant bit first; what is left over of the *)
(* last byte is dropped.                                                   *)
ToBytes(bits) ==
    [k \in 1..Len(bits) \div 8 |-> {i \in 0..7 : bits[8 * k - i] = 1}]
ToBits(bytes) == [n \in 1..8 * Len(bytes) |->
                    IF 7 - ((n - 1) % 8) \in bytes[(n - 1) \div 8 + 1] THEN 1 ELSE 0]

SyncWord == [n \in 1..16 |-> IF 16 - n \in {2, 4, 6, 7, 8, 10, 11, 13} THEN 1 ELSE 0]

(* _alternating_errors, over the bits from first to first + width - 1.      *)
AlternatingErrors(bits, first, width) ==
    LET d == Cardinality({i \in 0..width - 1 : bits[first + i] # i % 2})
    IN  Min({d, width - d})

(* find_sync: offsets with at most two errors in the sync word and three in *)
(* the preamble before it, for each polarity and bit order.                *)
Distance(bits, at, inverted, order) ==
    LET Bit(n) == IF inverted THEN 1 - bits[at + n - 1] ELSE bits[at + n - 1]
        Want(n) == IF order = "msb" THEN SyncWord[n] ELSE SyncWord[17 - n]
    IN  Cardinality({n \in 1..16 : Bit(n) # Want(n)})
InSync(bits, at) == AlternatingErrors(bits, at - 32, 32) <= 3
FindSync(bits) ==
    LET hits == {h \in {at \in 33..Len(bits) - 15 : InSync(bits, at)} \X BOOLEAN \X {"lsb", "msb"} :
                   Distance(bits, h[1], h[2], h[3]) <= 2}
        Rank(h) == 4 * h[1] + (IF h[2] THEN 2 ELSE 0) + (IF h[3] = "msb" THEN 1 ELSE 0)
    IN  SetToSortSeq(hits, LAMBDA h, g : Rank(h) < Rank(g))

(* _normalize_payload_bits.                                                *)
Normalize(bits, inverted, order) ==
    LET flat == [n \in DOMAIN bits |-> IF inverted THEN 1 - bits[n] ELSE bits[n]]
    IN  IF order = "msb" THEN flat
        ELSE [n \in 1..8 * (Len(bits) \div 8) |-> flat[8 * ((n - 1) \div 8) + 8 - ((n - 1) % 8)]]

(* _decode_one_burst: the estimated air rate and its legal neighbours, the  *)
(* hits of each in order; the first frame whose checksum matches.           *)
RatesTried(rates, est) == {est - 1, est, est + 1} \cap rates
FrameAt(bits, h) == Deframe(ToBytes(Normalize(SubSeq(bits, h[1] + 16, Len(bits)), h[2], h[3])))
FirstFrame(bits, hits) == First(FlattenSeq([k \in DOMAIN hits |-> FrameAt(bits, hits[k])]))
DecodeAt(bits) == IF Len(bits) < 48 THEN <<>> ELSE FirstFrame(bits, FindSync(bits))
DecodeOneBurst(rates, est, bitsAt) ==
    LET order == <<est>> \o SetToSortSeq(RatesTried(rates, est) \ {est}, <)
    IN  First(FlattenSeq([k \in DOMAIN order |-> DecodeAt(bitsAt[order[k]])]))

-----------------------------------------------------------------------------
(* raster.py.                                                              *)

(* _nominal_spacing_hz: the firmware's division, rounded half up to 10 kHz. *)
NominalSpacing(band, n) ==
    (((band.hi - band.lo) \div (n + 2) + 5000) \div 10000) * 10000
LegalPairs(band) == {<<NominalSpacing(band, n), n>> : n \in 1..50}

(* Defective: counts too small for the channels seen are taken. *)
HoldsAny(legal, m) == legal

(* estimate_sik_raster, the choice of N: of the counts that can hold the    *)
(* channels on the lattice, one whose spacing is nearest; the board's      *)
(* default if it is among them, else the smallest.                         *)
HoldsChannels(legal, m) ==
    LET able == {p \in legal : p[2] >= m} IN IF able = {} THEN legal ELSE able
AbsOf(x) == IF x < 0 THEN -x ELSE x
NumChannels(band, spacing, m) ==
    LET legal == HoldsChannels(LegalPairs(band), m)
        best == Min({AbsOf(p[1] - spacing) : p \in legal})
        tied == {p[2] : p \in {q \in legal : AbsOf(q[1] - spacing) = best}}
    IN  IF best > 5000 THEN 0
        ELSE IF band.default \in tied THEN band.default ELSE Min(tied)

(* hop_map: a swap per draw of the generator, whose bits 16 to 23 depend on *)
(* its state modulo 2^24 only: computed in halves of 12 bits.              *)
NextState(s) ==
    LET sh == s \div 4096  sl == s % 4096
        ah == 3172  al == 3693
    IN  (((sh * al + sl * ah) % 4096) * 4096 + sl * al + 12345) % 16777216
SwapAt(map, i, j) == [map EXCEPT ![i] = map[j], ![j] = map[i]]
HopMap(seed, n) ==
    LET Draw(acc, i) ==
          LET s == NextState(acc.s) IN [s |-> s, map |-> SwapAt(acc.map, i, (s \div 65536) % n)]
    IN  FoldLeft(Draw, [s |-> seed % 65536, map |-> [i \in 0..n - 1 |-> i]],
                 [k \in 1..n - 1 |-> k - 1]).map

(* netid_candidates_from_sequence: the seeds under which the hops observed  *)
(* in consecutive windows lie in the schedule, all but two of them.        *)
PositionOf(map, channel) == CHOOSE p \in DOMAIN map : map[p] = channel
BestMatch(map, obs, n) ==
    LET Phase(w) == (PositionOf(map, obs[w]) - w) % n
    IN  Max({Cardinality({w \in DOMAIN obs : Phase(w) = r}) : r \in 0..n - 1})
SeedCandidates(obs, n, maps) ==
    {seed \in DOMAIN maps : obs # <<>> /\ n >= 2
                            /\ BestMatch(maps[seed], obs, n) >= Max({5, Len(obs) - 2})}
=============================================================================
