------------------------------ MODULE MCOffline -----------------------------
EXTENDS Offline

MCWords == {{}, {0, 1, 4, 11}}
MCPayloads == {<<>>, <<{1, 7}, {0}>>}
MCFlips == {{}, {4}, {0, 11, 22}, {13, 14, 15, 23}, {2, 9, 12, 20}}

(* The program's code and a small one; errors spread evenly and in bursts,  *)
(* and more of them than are corrected.                                    *)
MCCodes == {[k |-> 40, f1 |-> 3, f2 |-> 10, e |-> 225], [k |-> 1408, f1 |-> 43, f2 |-> 88, e |-> 7200]}
MCBlocks == {<<165, 60>>, <<0, 255>>}
MCHits == {{}} \cup {at..at + 25 : at \in {1, 60, 133, 200}}
            \cup {{n \in 1..225 : n % 8 = at} : at \in {0, 3, 6}}
            \cup {{n \in 1..225 : n % m = 1} : m \in {2, 4}}
            
MCFrames ==
    LET F == [state0 |-> 0, state1 |-> 0, serial |-> <<65, 66, 67>>, height |-> 0, altitude |-> 120,
              velocity_north |-> -3, velocity_east |-> 300, velocity_up |-> 0, uuid |-> <<49, 50>>]
        Places == {0, 9162983, -31415926}
    IN  {F @@ [drone_lon |-> p[1], drone_lat |-> p[2], operator_lat |-> p[2], operator_lon |-> p[3],
               home_lon |-> p[3], home_lat |-> p[1] \div 4, sequence |-> q, yaw |-> y,
               gps_time_ms |-> t, product_type |-> c] :
           p \in Places \X {0, 9162983} \X Places, q \in {0, 258, 65535}, y \in {-32768, 90},
           t \in {<<0, 0>>, <<100000, 77>>}, c \in {58, 200}}

Burst(at, len, fade, level) == [at |-> at, len |-> len, fade |-> fade, level |-> level]
MCEnvelopes ==
    {<<Burst(20, n, f, 9), Burst(20 + n + g, m, 0, l)>> :
       n \in {19, 20, 32, 75, 76}, f \in {0, 5, 6}, g \in {5, 6, 30}, m \in {12, 32}, l \in {3, 20}}
MCBands1 == {[lo |-> b[1], hi |-> b[2], power |-> p] :
               b \in {<<5, 22>>, <<5, 12>>, <<4, 25>>, <<16, 33>>, <<20, 37>>, <<27, 30>>, <<3, 3>>},
               p \in {20, 100, 5000}}
MCSpectra == {{a, b, c} : a, b, c \in MCBands1}

(* Candidates: clean, weak, another signal; the true centre first, behind  *)
(* others, 300 kHz off, or not there.                                      *)
BurstHeard(shaped, truth, hyps, zc4, zc6, frame, raises) ==
    [shaped |-> shaped, truth |-> truth, hyps |-> hyps, zc4 |-> zc4, zc6 |-> zc6, frame |-> frame,
     raises |-> raises]
MCKinds ==
    {BurstHeard(s, 37, h, z[1], z[2], <<>>, FALSE) :
       s \in BOOLEAN, h \in {<<37, 0>>, <<-50, 37, 0>>, <<34, 0>>, <<34, 37>>, <<0>>},
       z \in {<<<<95, 90, 80, 60, 45>>, <<90, 60, 40, 20, 0>>>>, <<<<70, 60, 55, 45>>, <<40, 32, 20, 0>>>>}}
    \cup {BurstHeard(FALSE, 0, <<-60, 0>>, <<20>>, <<0>>, <<>>, r) : r \in BOOLEAN}
MCWindows ==
    {[cands |-> {[start |-> 100, power |-> w[1], frame |-> <<7>>] @@ a,
                 [start |-> 200, power |-> 5, frame |-> IF q THEN <<8>> ELSE <<>>] @@ b,
                 [start |-> 300, power |-> 4, frame |-> <<9>>] @@ BurstHeard(TRUE, 0, <<0>>, <<95>>, <<90>>, <<>>, FALSE)},
      most |-> m, budget |-> t] :
       a \in MCKinds, b \in MCKinds, w \in {<<3>>, <<9>>}, q \in BOOLEAN, m \in {2, 8},
       t \in {0, 1, 3, 1000}}

MCSeeds == {7, 25, 26, 1000, 65535}
MCSchedules == [seed : MCSeeds, n : {5, 10}, start : {0, 3}, hops : {4, 6, 7},
                misheard : {{}, {2}, {2, 5}, {1, 3, 6}}]
MCBoards == {[lo |-> 915000000, hi |-> 928000000, default |-> 50],
             [lo |-> 868000000, hi |-> 870000000, default |-> 10],
             [lo |-> 433050000, hi |-> 434790000, default |-> 10]}
MCFiles == [order : {<<1, 2, 3>>, <<2, 1, 3>>}, sweeps : 1..3,
            segments : {<<{1}, {2, 3}, {4}>>},
            lost : {L \in SUBSET (1..9) : Cardinality(L) <= 2}]

(* In units of 31.25 Hz: a step of 12 MHz trimmed to 0.82 with 1024 points, *)
(* and steps of 10, 16 and 8 MHz; bands in MHz, bins of 500 and 1000 kHz.   *)
MHz == 32000
MCBands == {[lo |-> 0, hi |-> w * MHz, stride |-> Interior(s * MHz, u, 100),
             bin |-> b, res |-> (s * MHz) \div 1024] :
             w \in {8, 80, 150, 300}, s \in {8, 12, 16}, u \in {82, 100}, b \in {16000, 32000}}

(* Frames over twelve bins, each quiet or with one region or two, near each *)
(* other or far apart, smoothing having widened them by a bin; and sets of  *)
(* three channels a hopper moves between.                                  *)
Frame(S, peak) ==
    [smooth |-> UNION {b - 1..b + 1 : b \in S}, raw |-> S, peak |-> peak]
MCScans == [1..4 -> {Frame({}, 10), Frame({2, 3}, 20), Frame({9, 10}, 24),
                     Frame({2, 3, 9, 10}, 20), Frame(5..6, 40)}]
           \cup [1..6 -> {Frame({2, 3}, 20), Frame({9, 10}, 24), Frame({16, 17}, 22)}]

(* Rectangles: steady, dipping for a frame or for two; not armed, armed and *)
(* strong.                                                                 *)
MCRects ==
    {[frames |-> f[1], dips |-> f[2], bins |-> b, power |-> p] :
       f \in {<<3..4, {}>>, <<2..6, {}>>, <<3..6, {5}>>, <<2..6, {3, 4}>>, <<5..7, {}>>},
       b \in {2..3, 5..6}, p \in {3, 6, 20}}
MCGrids == {[rects |-> {a, b}, most |-> m] : a, b \in MCRects, m \in {1, 8}}

(* A fixed channel that drifts, hoppers of the RC kind, a BLE connection,   *)
(* an access point, a drone's beacons; alone and two at a time.            *)
Emitter(kind, channels, step, spacing, base, period, n, dur, bw) ==
    [kind |-> kind, channels |-> channels, step |-> step, spacing |-> spacing, base |-> base,
     period |-> period, n |-> n, dur |-> dur, bw |-> bw, late |-> {}, drift |-> 0,
     clipped |-> FALSE]
MCEmitters ==
    {[Emitter("fixed", 1, 1, 0, 244000, 200, 14, 12, 100) EXCEPT !.drift = d] : d \in {0, 3, 12, 40}}
    \cup {Emitter("rc", c[1], c[2], s, 240040, t, 40, 12, 60) :
             c \in {<<4, 1>>, <<8, 7>>, <<14, 3>>, <<16, 3>>}, s \in {100, 200}, t \in {80, 140}}
    \cup {Emitter("ble", 37, 7, 200, 240400, 600, n, 6, 150) : n \in {25, 37, 60}}
    \cup {[Emitter("wifi", 1, 1, 0, 246200, 2048, 6, 20, 1000) EXCEPT !.clipped = TRUE, !.late = l] :
             l \in {{}, {2, 4}}}
    \cup {Emitter("wifi", 1, 1, 0, 246200, 2048, 6, 20, 1700)}
    \cup {Emitter("drone", 1, 1, 0, 243000, 12800, n, 12, 900) : n \in {5, 6, 8}}
MCScenes ==
    {[emitters |-> <<a>>, frame |-> f, bin |-> 2] : a \in MCEmitters, f \in {4, 12}}
    \cup {[emitters |-> <<p[1], p[2]>>, frame |-> 4, bin |-> 2] :
            p \in {q \in MCEmitters \X MCEmitters :
                     /\ q[1].kind # q[2].kind
                     /\ q[1].kind \in {"wifi", "drone", "fixed"} /\ q[1].n # 8
                     /\ q[2].kind \notin {"wifi", "drone"}}}

File(mtime, content) == [path |-> "signature", mtime |-> mtime, content |-> content]
MCLooks == [1..4 -> {File(0, NoBundleIn("missing")), File(1, NoBundleIn("torn")), File(1, Bundle("v1", 1)),
                     File(2, Bundle("v1", 1)), File(3, Bundle("v1", 2)), File(4, Bundle("v2", 3))}]

MCSessions == {[period |-> p, beacons |-> b, quiet |-> q] :
                 p \in {6000, 12800},
                 b \in {0..4, 0..5, 0..15, {0, 1, 2, 3, 6}, {0, 1, 20, 21}, {0, 1, 19, 20, 21},
                        {0, 3, 8, 12, 15}, {0, 1, 2, 3, 18, 19, 20, 21}, {}},
                 q \in {{}, {5, 6}, 1..14}}

MCLoadings ==
    LET W == {[run |-> r, typed |-> t[1], ratio |-> t[2], tensor |-> t[3]] :
                r \in 1..2, t \in {<<"absent", <<>>, "good">>, <<"absent", <<90>>, "good">>,
                                  <<"absent", <<99>>, "good">>, <<"absent", <<99>>, "short">>,
                                  <<"ok", <<90>>, "good">>, <<"deficit", <<>>, "good">>}}
    IN  {[windows |-> ws, limit |-> l] : ws \in [1..3 -> W], l \in {0, 1}}

Rows(ds, runs, cls, n) ==
    {[ds |-> ds, dev |-> r[1], run |-> r[2], cls |-> cls, n |-> n] : r \in runs}
Zenodo == Rows(1, {<<1, 1>>, <<1, 2>>, <<2, 1>>, <<3, 1>>}, "drone_link", 1)
            \cup Rows(1, {<<2, 1>>}, "background", 1)
Antsdr == Rows(2, {<<1, 1>>, <<1, 2>>, <<1, 3>>}, "background", 1) \cup Rows(2, {<<1, 2>>}, "drone_link", 1)
MCCorpora ==
    {[zenodo |-> z, antsdr |-> a, rub |-> r] : z \in SUBSET Zenodo, a \in SUBSET Antsdr,
       r \in SUBSET Rows(3, {<<1, 1>>, <<1, 2>>}, "drone_link", 1)}
    \cup {[zenodo |-> z, antsdr |-> z, rub |-> r] : z \in SUBSET Zenodo,
            r \in {{}, Rows(3, {<<1, 1>>}, "drone_link", 1)}}

(* A receiver with r recordings of a class and another with five, the first *)
(* of n windows each; another class only one receiver has; folds that      *)
(* spread the recordings evenly, or that leave one fold without.           *)
MCProbes ==
    {[rows |-> Rows(1, {1} \X (1..r), c, n) \cup Rows(2, {1} \X (1..5), "background", 6)
                 \cup Rows(1, o, "drone_link", 9),
      held |-> h, margin |-> m] :
       r \in {2, 4, 5}, n \in {4, 5, 9}, c \in {"background", "drone_link"}, o \in {{}, {<<2, 1>>}},
       h \in {[g \in {1, 2} \X {1, 2} \X (1..5) |-> IF g[1] = 1 THEN p[g[3]] ELSE q[g[3]]] :
               p, q \in {<<1, 2, 3, 4, 5>>, <<3, 1, 2, 5, 4>>, <<1, 1, 2, 3, 4>>}},
       m \in {"below", "pass", "conditional", "fail"}}

Quiet == [labels |-> {}, morphology |-> "wideband", cadence |-> FALSE]
MCBudgets ==
    LET W == [labels : {{}, {"hopping"}, {"rc"}, {"fhss1"}}, morphology : {"wideband", "droneid"},
              cadence : BOOLEAN]
    IN  {<<s, t>> : s \in UNION {[1..k -> W] : k \in 0..2}, t \in {<<>>, [i \in 1..20 |-> Quiet]}}

MCTrainings ==
    LET F == {[path |-> p[1], name |-> p[2], bui |-> b, label |-> "noise", windows |-> w, silent |-> s] :
                p \in {<<1, 1>>, <<2, 1>>, <<3, 2>>}, b \in {<<0, 0>>, <<1, 1>>, <<1, 2>>}, w \in {0, 1, 3},
                s \in {{}, {1}}}
    IN  {[dataset |-> d, files |-> f, cap |-> c, draw |-> r] : d \in {"dronerf", "dronedetect"},
           f \in {g \in [1..2 -> F] : g[1].path < g[2].path}, c \in {0, 2},
           r \in {{1}, {2}, {1, 3}}}
=============================================================================
