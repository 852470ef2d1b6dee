-------------------------------- MODULE LruMap --------------------------------
(***************************************************************************)
(* core/src/memory/lru_map.rs: how often each layer is used, kept across   *)
(* sessions.  record_access reads the clock before it takes the mutex, and *)
(* the stamps it keeps count from the start of the engine that wrote them. *)
(* The file is nvme_path.lru.msgpack: engine/mod.rs:68 gives the map the   *)
(* name under which phantom_pages.rs:117 keeps the page table.  What a     *)
(* session has learned is therefore not safe: lost names what it was lost  *)
(* for, risk what a restart would lose it for now.                         *)
(*                                                                         *)
(* Data.  A frequency is an integer in hundredths of an access per second, *)
(* rounded down; order and thresholds are what is read from it.            *)
(***************************************************************************)
EXTENDS Naturals, Sequences, FiniteSets, SequencesExt

CONSTANTS NumLayers, Threads,
          Width,                  (* slots are below it: u32, 2^32 in the code *)
          Histories,              (* what former sessions may have saved    *)
          Moments,                (* bound: what the clock shows, ms, but 0 *)
          MaxCalls, MaxRestarts   (* bounds: calls that write a record      *)

VARIABLES records,   (* the layers that have a record                      *)
          clock,     (* start_time.elapsed(), ms                           *)
          stamp,     (* what a thread in record_access is about to record  *)
          saving,    (* the mutex is held by save_to_disk                  *)
          poisoned,  (* a thread has panicked under the mutex              *)
          checked,   (* the build checks arithmetic (debug) or wraps       *)
          saved,     (* the file                                           *)
          begun,     (* history: the records this session started from     *)
          taken,     (* history: accesses of all sessions                  *)
          risk, lost,(* history: see above                                 *)
          calls, restarts

vars == <<records, clock, stamp, saving, poisoned, checked, saved, begun, taken, risk, lost,
          calls, restarts>>

Ids == 0..(NumLayers - 1)
Slots == 0..(Width - 1)
Heats == {"hot", "warm", "cold"}
Tiers == {"vram", "ram", "nvme"}
Record == [count : Nat, session : Nat, freq : Nat, last : Nat, tier : Tiers, heat : Heats]
Recorded(r) == DOMAIN r \subseteq Ids /\ \A l \in DOMAIN r : r[l] \in Record
NoRecords == [l \in {} |-> {}]
NoStamp == [layer |-> NumLayers, now |-> 0]
File(kind, r) == [kind |-> kind, records |-> r]

LruAssumption == /\ NumLayers \in Nat \ {0} /\ Width \in Nat /\ NumLayers < Width
                 /\ Moments \subseteq Nat \ {0}
                 /\ MaxCalls \in Nat /\ MaxRestarts \in Nat
                 /\ \A h \in Histories : Recorded(h)

TypeOK ==
  /\ Recorded(records)
  /\ clock \in {0} \cup Moments /\ {saving, poisoned, checked} \subseteq BOOLEAN
  /\ \A t \in Threads : stamp[t] = NoStamp \/ stamp[t] \in [layer : Ids, now : {0} \cup Moments]
  /\ taken \in [Ids -> Nat] /\ risk \cup lost \subseteq {"unsaved", "torn", "shared", "poisoned"}
  /\ saved.kind \in {"none", "torn", "pages", "map"}
  /\ saved.kind # "map" => saved.records = NoRecords

(* load_from_disk: a file that does not hold records counts as none.       *)
Loaded_Fault(f) == [l \in DOMAIN f.records |-> [f.records[l] EXCEPT !.session = 0, !.count = 0]]
Loaded(f) == [l \in DOMAIN f.records |-> [f.records[l] EXCEPT !.session = 0]]

Count(r, l) == IF l \in DOMAIN r THEN r[l].count ELSE 0

Init == /\ saved \in {File("none", NoRecords)} \cup {File("map", h) : h \in Histories}
        /\ records = Loaded(saved) /\ begun = records
        /\ taken = [l \in Ids |-> Count(saved.records, l)] /\ risk = {} /\ lost = {}
        /\ clock = 0 /\ stamp = [t \in Threads |-> NoStamp] /\ checked \in BOOLEAN
        /\ saving = FALSE /\ poisoned = FALSE /\ calls = 0 /\ restarts = 0

Tick ==
  /\ clock' \in Moments /\ clock' > clock
  /\ UNCHANGED <<records, stamp, saving, poisoned, checked, saved, begun, taken, risk, lost,
                 calls, restarts>>

(* record_access up to the mutex.                                          *)
Stamp(t) ==
  /\ stamp[t] = NoStamp /\ calls < MaxCalls /\ calls' = calls + 1
  /\ \E l \in Ids : stamp' = [stamp EXCEPT ![t] = [layer |-> l, now |-> clock]]
  /\ UNCHANGED <<records, clock, saving, poisoned, checked, saved, begun, taken, risk, lost, restarts>>

Classify(f) == IF f >= 1000 THEN "hot" ELSE IF f >= 100 THEN "warm" ELSE "cold"

(* 0.1 / elapsed + 0.9 * freq.  A stamp behind the last one wraps to some  *)
(* 500 million years, which adds nothing.                                  *)
Ema(f, now, last) ==
  ((9 * f) \div 10) + (IF now < last THEN 0 ELSE 10000 \div (IF now = last THEN 1 ELSE now - last))

Seen(l, now) ==
  IF l \in DOMAIN records THEN records[l]
  ELSE [count |-> 0, session |-> 0, freq |-> 0, last |-> now, tier |-> "nvme", heat |-> "cold"]
Set(l, r) == [k \in DOMAIN records \cup {l} |-> IF k = l THEN r ELSE records[k]]

Counted(l, now) == [Seen(l, now) EXCEPT !.count = @ + 1, !.session = @ + 1]

(* record_access under the mutex.  A build that checks panics on a stamp   *)
(* that is behind, after it has counted, and the mutex is poisoned: from   *)
(* then on nothing is recorded.                                            *)
Access(t) ==
  LET l == stamp[t].layer
      now == stamp[t].now
      r == Counted(l, now)
      f == Ema(r.freq, now, r.last)
      behind == checked /\ now < r.last
  IN  /\ stamp[t] # NoStamp /\ ~ saving
      /\ stamp' = [stamp EXCEPT ![t] = NoStamp]
      /\ poisoned' = (poisoned \/ behind)
      /\ records' = IF poisoned THEN records
                    ELSE IF behind THEN Set(l, r)
                    ELSE Set(l, [r EXCEPT !.freq = f, !.last = now, !.heat = Classify(f)])
      /\ taken' = [taken EXCEPT ![l] = @ + 1]
      /\ lost' = IF poisoned THEN lost \cup {"poisoned"} ELSE lost
      /\ risk' = IF poisoned THEN risk ELSE risk \cup {"unsaved"}
      /\ UNCHANGED <<clock, saving, checked, saved, begun, calls, restarts>>

UpdateTier ==
  /\ ~ saving /\ ~ poisoned /\ calls < MaxCalls /\ calls' = calls + 1
  /\ \E l \in DOMAIN records, tier \in Tiers : records' = [records EXCEPT ![l].tier = tier]
  /\ UNCHANGED <<clock, stamp, saving, poisoned, checked, saved, begun, taken, risk, lost, restarts>>

(* get_initial_placement adds the slots as u32 under the mutex; warm_up    *)
(* makes them of f32 quotients that saturate, so that a layer of no or few *)
(* bytes gives sums that do not fit, and a build that checks panics.       *)
Fits(vram, ram) == vram + ram < Width
PlacePanics ==
  /\ checked /\ ~ saving /\ ~ poisoned /\ \E vram, ram \in Slots : ~ Fits(vram, ram)
  /\ poisoned' = TRUE
  /\ UNCHANGED <<records, clock, stamp, saving, checked, saved, begun, taken, risk, lost,
                 calls, restarts>>

(* save_to_disk writes in place and holds the mutex meanwhile; the write   *)
(* may fail half way, and the session goes on.                             *)
SaveBegin ==
  /\ ~ saving /\ ~ poisoned /\ saving' = TRUE
  /\ saved' = File("torn", NoRecords) /\ risk' = {"torn"}
  /\ UNCHANGED <<records, clock, stamp, poisoned, checked, begun, taken, lost, calls, restarts>>
SaveEnd ==
  /\ saving /\ saving' = FALSE
  /\ \/ UNCHANGED <<saved, risk>>
     \/ saved' = File("map", records) /\ risk' = {}
  /\ UNCHANGED <<records, clock, stamp, poisoned, checked, begun, taken, lost, calls, restarts>>

(* The page manager's save_lru_state, into the same file.                  *)
PagesSave ==
  /\ saved' = File("pages", NoRecords) /\ risk' = risk \cup {"shared"}
  /\ UNCHANGED <<records, clock, stamp, saving, poisoned, checked, begun, taken, lost, calls, restarts>>

Restart ==
  /\ restarts < MaxRestarts /\ restarts' = restarts + 1
  /\ records' = Loaded(saved) /\ begun' = records'
  /\ clock' = 0 /\ stamp' = [t \in Threads |-> NoStamp]
  /\ saving' = FALSE /\ poisoned' = FALSE
  /\ lost' = lost \cup risk /\ risk' = {}
  /\ UNCHANGED <<checked, saved, taken, calls>>

Next == \/ Tick \/ UpdateTier \/ PlacePanics \/ SaveBegin \/ SaveEnd \/ PagesSave \/ Restart
        \/ \E t \in Threads : Stamp(t) \/ Access(t)
Spec == Init /\ [][Next]_vars

-----------------------------------------------------------------------------
(* get_hot_layers: the hottest first, ties in the order of the hash map.   *)
Freq(l) == IF l \in DOMAIN records THEN records[l].freq ELSE 0
HottestFirst == {s \in SetToSeqs(DOMAIN records) :
              \A i, j \in DOMAIN s : i < j => Freq(s[i]) >= Freq(s[j])}
HotLayers(n) == {ToSet(SubSeq(s, 1, IF n < Len(s) THEN n ELSE Len(s))) : s \in HottestFirst}
WithHeat(h) == {l \in DOMAIN records : records[l].heat = h}

(* get_initial_placement: the layers, hottest first and ties by number,    *)
(* cut after vram and after vram + ram, a sum that wraps for the cold ones *)
(* only; by number alone without records, where the sum saturates.         *)
Before(a, b) == \/ ~ poisoned /\ Freq(a) > Freq(b)
                \/ a < b /\ (poisoned \/ Freq(a) = Freq(b))
Order == CHOOSE s \in SetToSeqs(Ids) : \A i, j \in DOMAIN s : i < j => Before(s[i], s[j])
Cut(s, from, to) == {s[i] : i \in {k \in DOMAIN s : from < k /\ k <= to}}
ColdFrom(vram, ram) == IF Fits(vram, ram) THEN vram + ram
                       ELSE IF poisoned THEN Width - 1 ELSE (vram + ram) % Width

(* Every layer gets one tier, the tiers are filled from the top, and none  *)
(* is put below a layer that is used less, whatever the slots: but where   *)
(* their sum does not fit in 32 bits a build that checks panics and one    *)
(* that wraps lists layers that it has placed as cold once more.           *)
PlacementSound ==
  LET s == Order IN
  \A vram, ram \in Slots :
    LET hot == Cut(s, 0, vram)
        warm == Cut(s, vram, vram + ram)
        cold == Cut(s, ColdFrom(vram, ram), NumLayers)
    IN  /\ hot \cup warm \cup cold = Ids
        /\ Fits(vram, ram) \/ poisoned =>
             Cardinality(hot) + Cardinality(warm) + Cardinality(cold) = NumLayers
        /\ warm # {} => Cardinality(hot) = vram
        /\ Ids # hot \cup warm => Cardinality(hot) = vram /\ Cardinality(warm) = ram
        /\ ~ poisoned =>
             /\ \A a \in hot, b \in Ids \ hot : Freq(a) >= Freq(b)
             /\ \A a \in warm, b \in Ids \ (hot \cup warm) : Freq(a) >= Freq(b)
(* A memory report that nothing interrupts names the hot layers: as many   *)
(* of the hottest as stats counts are those classified hot.                *)
ReportNamesTheHot ==
  ~ poisoned => HotLayers(Cardinality(WithHeat("hot"))) = {WithHeat("hot")}
(* Counts are those loaded from the file plus this session's, also when an *)
(* access has panicked, and a stamp ahead of the clock is one of a former  *)
(* session.                                                                *)
CountsAddUp ==
  \A l \in DOMAIN records :
    /\ records[l].count = records[l].session +
                            (IF l \in DOMAIN begun THEN begun[l].count ELSE 0)
    /\ records[l].last > clock => l \in DOMAIN begun /\ records[l].last = begun[l].last
(* No access takes a layer from hot to cold at once, nor below nine tenths *)
(* of its frequency, though the subtraction wraps; and only a new session  *)
(* forgets a layer.                                                        *)
CoolsSlowly ==
  restarts' = restarts =>
    \A l \in DOMAIN records :
      /\ l \in DOMAIN records'
      /\ 10 * records'[l].freq + 10 > 9 * records[l].freq
      /\ records[l].heat = "hot" => records'[l].heat # "cold"
(* "The LRU state persists between runs" (lru_map.rs:4) up to four losses: *)
(* a session that ends before it saves what it has recorded (nothing saves *)
(* on the way out), one that ends with a save cut short or failed, one     *)
(* whose page manager saved last into the same file, and accesses after a  *)
(* panic.  Without one of these every layer counts the accesses of all     *)
(* sessions.                                                               *)
HistorySurvives == lost = {} => \A l \in Ids : Count(records, l) = taken[l]
(* What the map has learned counts up, and its answers follow from it.     *)
Learned == CountsAddUp /\ HistorySurvives /\ PlacementSound /\ ReportNamesTheHot
=============================================================================
