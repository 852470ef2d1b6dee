-------------------------------- MODULE Hardware --------------------------------
(***************************************************************************)
(* python/phantom/model_profiles/hardware_detect.py and                    *)
(* hardware_simulator.py: what a machine is found to have, what is         *)
(* promised and recommended for it, and where the layers of a model go.    *)
(*                                                                         *)
(* Sizes are in fifths of a megabyte, so that every constant of the source *)
(* is whole; bandwidths in tenths of GB/s, parameters in hundredths of a   *)
(* billion, times in microseconds.                                         *)
(***************************************************************************)
EXTENDS Integers, FiniteSets

GB == 5120
Lesser(a, b) == IF a < b THEN a ELSE b
Greater(a, b) == IF a > b THEN a ELSE b
Percent(p, x) == p * (x \div 100) + (p * (x % 100)) \div 100
(* round(x, 1) of a size in GB.  Of the ties only those of whole bytes are *)
(* sizes, a quarter and three quarters of a GB, and go to even.            *)
Tenth(x) == LET q == x \div 512
                r == x % 512
            IN  512 * (IF r > 256 \/ (r = 256 /\ q % 2 = 1) THEN q + 1 ELSE q)

-----------------------------------------------------------------------------
(* Detection.  A machine says which probes answer: nvml is "absent",       *)
(* "raises" (after it started) or "works"; smi and torch may be absent.    *)
(* vram is what the card has, 0 without a card.                            *)
None == [found |-> FALSE]
Smi(m) == IF m.smi /\ m.vram > 0 THEN [found |-> TRUE, vram |-> Tenth(m.vram)]
                                 ELSE None
Nvml(m) == IF m.nvml = "absent" THEN Smi(m)
           ELSE IF m.nvml = "raises" THEN [found |-> TRUE, vram |-> -1]
           ELSE IF m.vram > 0 THEN [found |-> TRUE, vram |-> m.vram]
           ELSE None
Gpu(m) == IF Nvml(m).found THEN Nvml(m)
          ELSE IF m.torch /\ m.vram > 0 THEN [found |-> TRUE, vram |-> Tenth(m.vram)]
          ELSE [found |-> TRUE, vram |-> 6 * GB]  (* simulated *)

(* The candidates for swap space in order; of those on one anchor (the     *)
(* drive on Windows, always the root elsewhere) only the first counts, and *)
(* the first three of these are used.  max compares what is left of their  *)
(* free space after rounding, and takes the first of the largest.          *)
Kept(disks) == {i \in DOMAIN disks :
  disks[i].readable /\ \A j \in 1..(i - 1) : disks[j].readable => disks[j].anchor # disks[i].anchor}
Devices(disks) == {i \in Kept(disks) : Cardinality({j \in Kept(disks) : j < i}) < 3}
Free(disk) == Tenth(disk.free)
Best(disks, i) == \A j \in Devices(disks) : \/ Free(disks[j]) < Free(disks[i])
                                            \/ Free(disks[j]) = Free(disks[i]) /\ i <= j
BestDevice(disks) ==
  IF Devices(disks) = {} THEN [path |-> 0, free |-> 0]  (* below home *)
  ELSE LET d == disks[CHOOSE i \in Devices(disks) : Best(disks, i)]
       IN  [path |-> d.path, free |-> Free(d)]

Tiers == <<"LAPTOP", "MID", "DESKTOP", "PRO", "SERVER">>
Rank(vram) == Cardinality({i \in 1..4 : vram >= <<8, 16, 32, 80>>[i] * GB}) + 1

(* Sizes of models in billions of 4-bit weights: half a byte each.         *)
Ceilings_Fault(vram, ram, free) ==  (* the whole of RAM is counted *)
  LET usable == Greater(GB \div 2, vram - (12 * GB) \div 10)
      fast == usable + ram
  IN  [native |-> 2 * usable, fast |-> 2 * fast,
       phantom |-> Lesser(72 * GB, 2 * (fast + Lesser(free \div 2, 60 * GB))),
       sweetMin |-> Greater(2 * usable, 7 * GB), sweetMax |-> Lesser(2 * fast, 33 * GB)]
Ceilings(vram, ram, free) ==
  LET usable == Greater(GB \div 2, vram - (12 * GB) \div 10)
      fast == usable + Greater(GB, ram - 6 * GB)
  IN  [native |-> 2 * usable, fast |-> 2 * fast,
       phantom |-> Lesser(72 * GB, 2 * (fast + Lesser(free \div 2, 60 * GB))),
       sweetMin |-> Greater(2 * usable, 7 * GB), sweetMax |-> Lesser(2 * fast, 33 * GB)]

(* Share of the device in percent and cap in GB: hot, warm, swap; users.   *)
Shares == << <<75, 4, 50, 24, 100, 1>>,  <<80, 10, 60, 40, 200, 1>>,
             <<85, 20, 70, 80, 400, 2>>, <<90, 60, 70, 200, 1000, 3>>,
             <<90, 100000, 80, 400, 2000, 5>> >>
Recommend(rank, vram, ram, free) ==
  LET s == Shares[rank]
  IN  [hot |-> Lesser(Percent(s[1], vram), s[2] * GB),
       warm |-> Lesser(Percent(s[3], ram), s[4] * GB),
       swap |-> Lesser(Percent(80, free), s[5] * GB), users |-> s[6]]

DetectHardware(m) ==
  LET v == Gpu(m).vram
      d == BestDevice(m.disks)
  IN  IF v < 0 THEN [raised |-> TRUE]
      ELSE [raised |-> FALSE, rank |-> Rank(v), vram |-> v, path |-> d.path,
            free |-> d.free, ceilings |-> Ceilings(v, m.ram, d.free),
            config |-> Recommend(Rank(v), v, m.ram, d.free)]

-----------------------------------------------------------------------------
(* Simulation.  VRAM, its bandwidth, RAM, its bandwidth, what the system   *)
(* keeps, disk, its bandwidth, TFLOPS in tenths.                           *)
Preset(v, vb, r, rb, os, n, nb, t) ==
  [vram |-> v, vramBw |-> vb, ram |-> r, ramBw |-> rb, os |-> os, nvme |-> n,
   nvmeBw |-> nb, tflops |-> t]
Presets ==
  <<Preset(6 * GB, 1920, 24 * GB, 480, (13 * GB) \div 2, 500 * GB, 45, 180),
    Preset(8 * GB, 2560, 16 * GB, 380, (11 * GB) \div 2, 500 * GB, 45, 240),
    Preset(12 * GB, 5040, 32 * GB, 550, 7 * GB, 1000 * GB, 60, 400),
    Preset(24 * GB, 10080, 64 * GB, 650, 8 * GB, 2000 * GB, 70, 825),
    Preset(15 * GB, 3200, (127 * GB) \div 10, 250, (5 * GB) \div 2, 100 * GB, 18, 650),
    Preset(14 * GB, 1500, 18 * GB, 1500, 4 * GB, 512 * GB, 50, 180)>>

(* Parameters, active parameters, layers, width, heads, KV heads, experts  *)
(* active and in all (1 of 1 in a dense model).                            *)
Model(p, a, l, w, h, k, ea, e) ==
  [params |-> p, active |-> a, layers |-> l, width |-> w, heads |-> h, kv |-> k,
   moe |-> e > 1, activeExperts |-> ea, experts |-> e]
Dense(p, l, w, h, k) == Model(p, p, l, w, h, k, 1, 1)
KnownModels ==
  <<Dense(14, 30, 576, 9, 3), Dense(321, 28, 3072, 24, 8), Dense(761, 28, 3584, 28, 4),
    Dense(803, 32, 4096, 32, 8), Dense(1470, 48, 5120, 40, 8),
    Model(3050, 330, 48, 4096, 32, 8, 8, 128), Model(4670, 1290, 32, 4096, 32, 8, 2, 8),
    Dense(3276, 64, 5120, 40, 8), Dense(7060, 80, 8192, 64, 8),
    Dense(7270, 80, 8192, 64, 8), Model(67100, 3700, 61, 7168, 128, 128, 8, 256)>>

(* A reference names some of the models above, or says 8x7b or 13b, or     *)
(* nothing of the kind: -1.  Zeros are numbers, too.                       *)
Generic(p) ==
  LET l == IF p >= 6000 THEN 80 ELSE IF p >= 3000 THEN 64 ELSE IF p >= 1200 THEN 48
           ELSE IF p >= 600 THEN 32 ELSE 24
      w == IF p >= 6000 THEN 8192 ELSE IF p >= 3000 THEN 5120 ELSE 4096
  IN  Dense(p, l, w, Greater(8, w \div 128), 8)
Custom(experts, size) ==
  [Model(10 * ((Percent(82, experts * size) + 5) \div 10), 2 * size, 32, 4096, 32, 8, 2, experts)
    EXCEPT !.moe = TRUE]
Resolve(ref) ==
  IF ref.names # {} THEN KnownModels[CHOOSE i \in ref.names : \A j \in ref.names : i <= j]
  ELSE IF ref.experts >= 0 THEN Custom(ref.experts, ref.size)
  ELSE IF ref.size >= 0 THEN Generic(ref.size)
  ELSE KnownModels[8]

(* bits: tenths of a bit per weight; ctx: tokens.  A layer with weights    *)
(* has at least the size of a unit, of one without see Simulate.           *)
WarmSplit_Fault(layers, vram, budget, per) == Lesser(layers, budget \div per)
WarmSplit(layers, vram, budget, per) == Lesser(layers - vram, budget \div per)
Place(model, hw, bits, ctx) ==
  LET weight == (((model.params * bits) \div 10) * 596) \div 100
      heads == model.layers * model.kv * (model.width \div Greater(1, model.heads))
      kv == (((heads \div 1024) * ctx * 5) \div 2048)  (* after the 8x cache *)
      fixed == (65 * GB) \div 100 + kv
                 + (IF model.params >= 3000 THEN GB \div 2 ELSE (4 * GB) \div 10)
      usable == Greater(GB \div 10, hw.vram - fixed)
      host == Greater(GB \div 2, hw.ram - hw.os)
      per == Greater(1, weight \div Greater(1, model.layers))
      vram == Lesser(model.layers, usable \div per)
      ram == WarmSplit(model.layers, vram, host, per)
      nvme == model.layers - vram - ram
      read == IF model.moe
                THEN Percent(25 + (75 * model.activeExperts) \div Greater(1, model.experts), weight)
                ELSE weight
      Time(n, bw) == (10 * ((195 * ((read * n) \div Greater(1, model.layers))) \div bw))
      memory == Time(vram, Greater(10, hw.vramBw)) + Time(ram, Greater(10, hw.ramBw))
                  + Percent(65, Time(nvme, Greater(5, hw.nvmeBw)))
      compute == (model.active * 20000) \div (18 * Greater(6, hw.tflops))
      latency == Greater(1000, Greater(memory, compute))
  IN  [raised |-> FALSE, vram |-> vram, ram |-> ram, nvme |-> nvme, per |-> per,
       fixed |-> fixed, usable |-> usable, host |-> host, latency |-> latency,
       bound |-> IF nvme > 0 THEN "disk" ELSE IF ram > 0 THEN "ram" ELSE "vram",
       (* round(tokens per second, 2) >= 0.1                               *)
       supported |-> nvme * per <= hw.nvme /\ latency <= 10526315]

(* The layers of a model of no weights have the size 0, and the code       *)
(* divides by it.                                                          *)
Simulate(model, hw, bits, ctx) ==
  IF model.params * bits = 0 THEN [raised |-> TRUE] ELSE Place(model, hw, bits, ctx)

-----------------------------------------------------------------------------
(* hardware_detect.py.  Two probes put one card into the same tier unless  *)
(* rounding to a tenth carries it over a limit; the space for swap is, but *)
(* for a tenth of a GB, the largest the scan kept, and its budget is there *)
(* unless less than 0.2 GB are; the other budgets stay below the device;   *)
(* and what is promised grows with the card, with two exceptions by size:  *)
(* above 72B the "phantom" ceiling lies below the native one, and the      *)
(* sweet spot is empty once the card alone holds more than 33B.            *)
SwapHonest(disks, d) ==
  (\E i \in DOMAIN disks : disks[i].readable) =>
    \E i \in DOMAIN disks :
      /\ disks[i].readable /\ disks[i].path = d.path
      /\ d.config.swap <= disks[i].free \/ disks[i].free < GB \div 5
      /\ \A j \in DOMAIN disks :
           disks[j].readable /\ disks[j].free > disks[i].free + GB \div 10
             => \E k \in 1..(j - 1) : disks[k].readable /\ disks[k].anchor = disks[j].anchor
Honest(m, d, other, larger) ==
  LET c == d.ceilings
  IN  \/ d.raised /\ m.nvml = "raises"
      \/ /\ ~d.raised
         /\ m.vram > 0 /\ Nvml(m).found
              => \/ d.rank = other.rank
                 \/ \E limit \in {8, 16, 32, 80} :
                      m.vram < limit * GB /\ Tenth(m.vram) >= limit * GB
         /\ SwapHonest(m.disks, d)
         /\ d.config.hot <= d.vram /\ d.config.warm <= m.ram
         /\ c.native <= c.fast
         /\ c.phantom < c.native <=> c.native > 72 * GB
         /\ c.sweetMin > c.sweetMax <=> c.native > 33 * GB \/ c.fast < 7 * GB
         /\ c.fast <= 2 * (Greater(GB, d.vram) + Greater(GB, m.ram - 6 * GB))
         /\ m.vram > 0 /\ (Nvml(m).found \/ m.torch)
              => /\ d.rank <= larger.rank /\ c.native <= larger.ceilings.native
                 /\ d.config.hot <= larger.config.hot
HardwareHonest(m) ==
  Honest(m, DetectHardware(m),
         DetectHardware([m EXCEPT !.nvml = IF @ = "absent" THEN "works" ELSE "absent",
                                  !.smi = TRUE]),
         DetectHardware([m EXCEPT !.vram = @ + GB]))

(* hardware_simulator.py.  Only a model of no weights raises.  Each layer  *)
(* of any other is in one tier, a tier overflows only when a layer more    *)
(* would not fit, and VRAM is overcommitted only when the fixed parts leave*)
(* less than the floor of 0.1 GB.  More VRAM never moves a layer down or   *)
(* makes the model slower.                                                 *)
Placed(model, hw, s, t) ==
  /\ {s.vram, s.ram, s.nvme} \subseteq 0..model.layers
  /\ s.vram + s.ram + s.nvme = model.layers
  /\ s.ram + s.nvme > 0 => (s.vram + 1) * s.per > s.usable
  /\ s.nvme > 0 => (s.ram + 1) * s.per > s.host
  /\ s.vram * s.per + s.fixed > hw.vram => s.usable = GB \div 10
  /\ s.ram * s.per + hw.os <= Greater(hw.ram, hw.os + GB \div 2)
  /\ s.bound = "vram" => s.vram = model.layers
  /\ t.vram >= s.vram /\ t.nvme <= s.nvme
  /\ t.latency <= s.latency + 40  (* the times above are rounded *)
Sound(model, hw, bits, s, t) ==
  IF s.raised \/ t.raised THEN model.params = 0 \/ bits = 0 ELSE Placed(model, hw, s, t)
PlacementSound(ref, hw, bits, ctx) ==
  LET model == Resolve(ref)
  IN  Sound(model, hw, bits, Simulate(model, hw, bits, ctx),
            Simulate(model, [hw EXCEPT !.vram = @ + GB], bits, ctx))
=============================================================================
