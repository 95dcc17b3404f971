---------------------------- MODULE DroneIdCode -----------------------------
(***************************************************************************)
(* The channel code and the frame of DJI DroneID: the turbo code with its  *)
(* interleaver, its rate matching and its iterative decoder, the two       *)
(* checksums, and the fields of the frame (decode/turbo.py, decode/frame.py). *)
(*                                                                         *)
(* A code is a record: k, the bits of a block; f1 and f2, the coefficients *)
(* of the interleaver; e, the bits on the air.  The program's is 1408, 43, *)
(* 88, 7200.  A register and a byte that is checked are words as in        *)
(* SikCodes; the bytes of a frame are numbers.                             *)
(***************************************************************************)
EXTENDS SikCodes

(* A sequence, each of whose elements is computed once; an operator whose  *)
(* argument is computed first; and the fold of a long sequence with it,     *)
(* sixteen elements at a time.                                             *)
Tuple(f) == SubSeq(f, 1, Len(f))
After(op(_, _), x, y) == CHOOSE r \in {op(v, y) : v \in {x}} : TRUE
FoldRows(op(_, _), base, s) ==
    LET Row(acc, row) == FoldLeft(LAMBDA a, y : After(op, a, y), acc, row)
    IN  FoldLeft(LAMBDA acc, n : After(Row, acc, SubSeq(s, 16 * n - 15, Min({16 * n, Len(s)}))),
                 base, [n \in 1..(Len(s) + 15) \div 16 |-> n])

-----------------------------------------------------------------------------
(* turbo.py: the interleaver, counted from 1.                              *)
Qpp(code) ==
    Tuple([i \in 1..code.k |-> ((code.f1 * (i - 1) + code.f2 * (i - 1) * (i - 1)) % code.k) + 1])
Inverted(pi) == Tuple([p \in DOMAIN pi |-> CHOOSE i \in DOMAIN pi : pi[i] = p])

(* The constituent encoder: a register of three bits, feedback 13 octal,   *)
(* parity 15 octal.  The parity bits of a block, and the register it leaves. *)
Odd(w) == Cardinality(w) % 2
Feedback(reg) == Odd(reg \cap {0, 1, 3})
Loaded(reg, c) == reg \cup IF Feedback(reg) # c THEN {3} ELSE {}
NextReg(reg, c) == Shift(Loaded(reg, c) \ {0}, -1)
ParityBit(reg, c) == Odd(Loaded(reg, c) \cap {0, 2, 3})
EncodeRsc(info) ==
    FoldLeft(LAMBDA acc, c : [reg |-> NextReg(acc.reg, c), z |-> Append(acc.z, ParityBit(acc.reg, c))],
             [reg |-> {}, z |-> <<>>], info)

(* term: three steps that drive the register to zero; input and parity.    *)
TailStep(reg) == [x |-> Feedback(reg), z |-> ParityBit(reg, Feedback(reg))]
Termination(reg) == [n \in 1..3 |-> TailStep(Times(n - 1, LAMBDA r : NextReg(r, Feedback(r)), reg))]

TurboEncode(info, pi) ==
    LET one == EncodeRsc(info)
        two == EncodeRsc([i \in DOMAIN info |-> info[pi[i]]])
        t == Termination(one.reg)
        u == Termination(two.reg)
    IN  <<info \o <<t[1].x, t[2].z, u[1].x, u[2].z>>,
          one.z \o <<t[1].z, t[3].x, u[1].z, u[3].x>>,
          two.z \o <<t[2].x, t[3].z, u[2].x, u[3].z>>>>

-----------------------------------------------------------------------------
(* turbo.py: rate matching of three streams of d bits.  Each is padded in  *)
(* front to whole rows of 32 and read by columns in bit-reversed order; the *)
(* third one bit later.                                                    *)
Cols == 32
ColPerm(c) == MapThenSumSet(LAMBDA i : 2^(4 - i), BitsOf(c, 5))
Rows32(d) == (d + Cols - 1) \div Cols
ReadAt(d, k, by) == ((k % Rows32(d)) * Cols + ColPerm(k \div Rows32(d)) + by) % (Cols * Rows32(d))

(* The stream, and the place in it, of an entry of the circular buffer: the *)
(* first stream, then the other two interlaced; places below 1 are padding. *)
Origin(d, w) ==
    LET size == Cols * Rows32(d)
        Place(k, by) == ReadAt(d, k, by) - (size - d) + 1
    IN  IF w < size THEN <<1, Place(w, 0)>>
        ELSE IF (w - size) % 2 = 0 THEN <<2, Place((w - size) \div 2, 0)>>
        ELSE <<3, Place((w - size) \div 2, 1)>>

(* The origins of the e bits on the air: round the buffer from 2R on,      *)
(* without the padding.                                                    *)
Selected(d, e) ==
    LET all == 3 * Cols * Rows32(d)
        live == SelectSeq([j \in 1..all |-> Origin(d, (2 * Rows32(d) + j - 1) % all)],
                          LAMBDA o : o[2] >= 1)
    IN  Tuple([n \in 1..e |-> live[((n - 1) % Len(live)) + 1]])

RateMatch(streams, selected) ==
    Tuple([n \in DOMAIN selected |-> streams[selected[n][1]][selected[n][2]]])

(* The likelihoods received for a bit add up; one never received has none.  *)
Copies(selected, s, i) == {n \in DOMAIN selected : selected[n] = <<s, i>>}
(* Defective: the last copy of a bit counts, instead of the sum. *)
DeRateMatchLast(llr, selected, d) ==
    Tuple([s \in 1..3 |-> Tuple([i \in 1..d |-> llr[Max(Copies(selected, s, i))]])])

DeRateMatch(llr, selected, d) ==
    Tuple([s \in 1..3 |-> Tuple([i \in 1..d |-> MapThenSumSet(LAMBDA n : llr[n], Copies(selected, s, i))])])

-----------------------------------------------------------------------------
(* turbo.py: _bcjr, the max-log decoder of one constituent code.  Metrics   *)
(* are twice the program's, which halves its branch metric.                *)
Regs == 1..8
RegOf(n) == BitsOf(n - 1, 3)
Branches == Regs \X {0, 1}
To == [b \in Branches |-> Value(NextReg(RegOf(b[1]), b[2])) + 1]
SysSym == [b \in Branches |-> 1 - 2 * b[2]]
ParSym == [b \in Branches |-> 1 - 2 * ParityBit(RegOf(b[1]), b[2])]
Into == [n \in Regs |-> {b \in Branches : To[b] = n}]
NegInf == -100000000
Ended == <<0>> \o [n \in 1..7 |-> NegInf]

Bcjr(ls, lp, la) ==
    LET n == Len(ls)
        Gamma(k, b) == SysSym[b] * (ls[k] + la[k]) + ParSym[b] * lp[k]
        Forward(as, k) ==
          Append(as, Tuple([reg \in Regs |-> Max({Last(as)[b[1]] + Gamma(k, b) : b \in Into[reg]})]))
        Backward(bs, k) ==
          <<Tuple([reg \in Regs |-> Max({bs[1][To[b]] + Gamma(k, b) : b \in {reg} \X {0, 1}})])>> \o bs
        alpha == FoldLeft(Forward, <<Ended>>, [k \in 1..n |-> k])
        beta == FoldLeft(Backward, <<Ended>>, [k \in 1..n |-> n + 1 - k])
        Best(k, c) == Max({alpha[k][b[1]] + Gamma(k, b) + beta[k + 1][To[b]] : b \in Regs \X {c}})
    IN  Tuple([k \in 1..n |-> (Best(k, 0) - Best(k, 1)) \div 2])

(* turbo.py: crc24a (0x864CFB) and crc16_dji (0x8408, from 0x3692).         *)
Crc24Shift(crc) ==
    Xor(Shift(crc \ {23}, 1), IF 23 \in crc THEN {0, 1, 3, 4, 5, 6, 7, 10, 11, 14, 17, 18, 23} ELSE {})
Crc24Byte(crc, b) == Times(8, Crc24Shift, Xor(crc, Shift(b, 16)))
Crc24a(data) == FoldRows(Crc24Byte, {}, data)
DjiShift(crc) == Xor(Shift(crc \ {0}, -1), IF 0 \in crc THEN {3, 10, 15} ELSE {})
Crc16Dji(data) ==
    FoldRows(LAMBDA crc, b : Times(8, DjiShift, Xor(crc, b)), {1, 4, 7, 9, 10, 12, 13}, data)

(* turbo_decode: the two decoders in turn, each with what the other has    *)
(* added, until the checksum of the block matches.                         *)
Permuted(v, pi) == Tuple([i \in DOMAIN pi |-> v[pi[i]]])
ThreeMore(v) == v \o <<0, 0, 0>>
TurboDecode(l, pi, iterations) ==
    LET k == Len(pi)
        inv == Inverted(pi)
        Info(v) == SubSeq(v, 1, k)
        ls1 == Info(l[1]) \o <<l[1][k + 1], l[3][k + 1], l[2][k + 2]>>
        lp1 == Info(l[2]) \o <<l[2][k + 1], l[1][k + 2], l[3][k + 2]>>
        ls2 == Permuted(l[1], pi) \o <<l[1][k + 3], l[3][k + 3], l[2][k + 4]>>
        lp2 == Info(l[3]) \o <<l[2][k + 3], l[1][k + 4], l[3][k + 4]>>
        Extrinsic(app, ls, la) == Tuple([i \in 1..k |-> app[i] - ls[i] - la[i]])
        Judged(app2, la2, info, n) ==
          [la |-> ThreeMore(Permuted(Extrinsic(app2, ls2, la2), inv)), info |-> info, used |-> n,
           passed |-> Crc24a(ToBytes(info)) = {}]
        Second(app2, la2, n) ==
          Judged(app2, la2, Tuple([i \in 1..k |-> IF app2[inv[i]] < 0 THEN 1 ELSE 0]), n)
        Half(la2, n) == Second(Bcjr(ls2, lp2, la2), la2, n)
        Iterate(acc, n) ==
          IF acc.passed THEN acc
          ELSE Half(ThreeMore(Permuted(Extrinsic(Bcjr(ls1, lp1, acc.la), ls1, acc.la), pi)), n)
    IN  FoldLeft(Iterate, [la |-> [i \in 1..k + 3 |-> 0], info |-> <<>>, used |-> 0, passed |-> FALSE],
                 [n \in 1..iterations |-> n])

-----------------------------------------------------------------------------
Words8(bytes) == [n \in DOMAIN bytes |-> BitsOf(bytes[n], 8)]
Numbers8(ws) == [n \in DOMAIN ws |-> Value(ws[n])]

(* frame.py: build_turbo_payload, with as many zeros as fill the block.     *)
TurboPayload(frame, zeros) ==
    LET full == frame \o [n \in 1..zeros |-> 0]
        crc == Crc24a(Words8(full))
    IN  full \o Numbers8(<<Field(crc, 16, 23), Field(crc, 8, 15), Field(crc, 0, 7)>>)

(* turbo.py: decode_frame_bits, from hard bits to a block whose checksum    *)
(* matches, if any.  bits_to_llr: a bit is a likelihood of 8 either way.    *)
BitsToLlr(bits) == Tuple([n \in DOMAIN bits |-> (1 - 2 * bits[n]) * 8])
Checked(done) == IF done.passed THEN <<Numbers8(ToBytes(done.info))>> ELSE <<>>
DecodeFrameBits(code, bits) ==
    LET selected == Selected(code.k + 4, code.e)
        l == DeRateMatch(BitsToLlr(bits), selected, code.k + 4)
    IN  Checked(TurboDecode(l, Qpp(code), 8))

-----------------------------------------------------------------------------
(* frame.py: the fields of the frame in the order pack_dji_frame appends   *)
(* them, with their width in bytes, and the offsets parse_frame reads at.   *)
FieldOrder ==
    <<<<"message_type", 1>>, <<"version", 1>>, <<"sequence", 2>>, <<"state0", 1>>, <<"state1", 1>>,
      <<"serial", 16>>, <<"drone_lon", 4>>, <<"drone_lat", 4>>, <<"height", 2>>, <<"altitude", 2>>,
      <<"velocity_north", 2>>, <<"velocity_east", 2>>, <<"velocity_up", 2>>, <<"yaw", 2>>,
      <<"gps_time_ms", 8>>, <<"operator_lat", 4>>, <<"operator_lon", 4>>, <<"home_lon", 4>>,
      <<"home_lat", 4>>, <<"product_type", 1>>, <<"uuid_len", 1>>, <<"uuid", 19>>, <<"zero", 1>>>>
Off == [sequence |-> 3, serial |-> 7, drone_lon |-> 23, drone_lat |-> 27, height |-> 31,
        altitude |-> 33, velocity_north |-> 35, velocity_east |-> 37, velocity_up |-> 39, yaw |-> 41,
        gps_time_ms |-> 43, operator_lat |-> 51, operator_lon |-> 55, home_lon |-> 59,
        home_lat |-> 63, product_type |-> 67]
OffUuidLen == 68
OffUuid == 69

(* A number's bytes, the lowest first; a text's, cut or filled with zeros.  *)
(* The time of 8 bytes is a pair of its upper 5, the last 0, and lower 3.   *)
NumberBytes(v, width) == [i \in 1..width |-> IF i > 4 THEN 0 ELSE (v \div 256^(i - 1)) % 256]
TextBytes(text, width) == [i \in 1..width |-> IF i <= Len(text) THEN text[i] ELSE 0]
PackDjiFrame(f) ==
    LET fixed == [message_type |-> 16, version |-> 2, uuid_len |-> 19, zero |-> 0]
        Packed(name, width) ==
          IF name \in {"serial", "uuid"} THEN TextBytes(f[name], width)
          ELSE IF name = "gps_time_ms" THEN NumberBytes(f[name][2], 3) \o NumberBytes(f[name][1], 5)
          ELSE IF name \in DOMAIN fixed THEN NumberBytes(fixed[name], width)
          ELSE NumberBytes(f[name], width)
        body == FlattenSeq([n \in DOMAIN FieldOrder |-> Packed(FieldOrder[n][1], FieldOrder[n][2])])
        frame == <<Len(body)>> \o body
        crc == Crc16Dji(Words8(frame))
    IN  frame \o Numbers8(<<Field(crc, 0, 7), Field(crc, 8, 15)>>)

(* parse_frame: only the type and the version are looked at, neither the   *)
(* length nor the inner checksum.                                          *)
UpToNul(text) ==
    LET ends == {n \in DOMAIN text : text[n] = 0} \cup {Len(text) + 1} IN SubSeq(text, 1, Min(ends) - 1)
Unsigned(frame, at, width) ==
    FoldLeft(LAMBDA acc, i : acc + frame[at + i] * 256^(i - 1), 0, [i \in 1..width |-> i])
Signed(frame, at, width) ==
    Unsigned(frame, at, width - 1)
      + (LET top == frame[at + width] IN IF top < 128 THEN top ELSE top - 256) * 256^(width - 1)
ParseFrame(frame) ==
    LET At(name) ==
          CASE name = "serial" -> UpToNul(SubSeq(frame, Off.serial + 1, Off.serial + 16))
            [] name \in {"drone_lon", "drone_lat", "operator_lat", "operator_lon", "home_lon", "home_lat"}
                 -> Signed(frame, Off[name], 4)
            [] name \in {"height", "altitude", "velocity_north", "velocity_east", "velocity_up", "yaw"}
                 -> Signed(frame, Off[name], 2)
            [] name = "sequence" -> Unsigned(frame, Off.sequence, 2)
            [] name = "gps_time_ms" -> <<Unsigned(frame, Off.gps_time_ms + 3, 4), Unsigned(frame, Off.gps_time_ms, 3)>>
            [] name = "product_type" -> frame[Off.product_type + 1]
        uuid == SubSeq(frame, OffUuid + 1, OffUuid + Min({frame[OffUuidLen + 1], 19}))
    IN  IF Len(frame) < 91 \/ frame[2] # 16 \/ frame[3] # 2 THEN <<>>
        ELSE <<[name \in DOMAIN Off |-> At(name)] @@ [uuid |-> UpToNul(uuid)]>>
=============================================================================
