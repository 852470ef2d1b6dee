------------------------------ MODULE Calibration ------------------------------
(***************************************************************************)
(* python/phantom/calibrate.py (CalibrationPipeline) and the script        *)
(* calibration/run_calibration.py that starts it: runs that write the      *)
(* artifacts of one output directory and then a profile that names them.   *)
(* The directory is the stem of the model path, so that models of one stem *)
(* share it; only the profile itself is named after the model.             *)
(***************************************************************************)
EXTENDS Naturals, Sequences, FiniteSets

CONSTANTS Runners,   (* processes that calibrate                           *)
          Models,    (* model paths with one stem                          *)
          Layers,    (* of each model: 0..Layers-1                         *)
          PerLayer,  (* linears of a layer that step D takes for a gate    *)
          MaxRuns,   (* bound: runs started                                *)
          MaxFaults  (* bound: failures of a step and interruptions        *)

CalibrationAssumption ==
  /\ Layers \in Nat /\ PerLayer \in {0, 1, 2} /\ {MaxRuns, MaxFaults} \subseteq Nat

VARIABLES file,     (* per artifact: [run, kind, gates]                    *)
          profile,  (* per model: [run, kind, gates]                       *)
          state,    (* per runner: what it does                            *)
          started,  (* runs started                                        *)
          mishaps,
          mixed     (* history: runs that wrote at the same time as others *)

vars == <<file, profile, state, started, mishaps, mixed>>

(* gate_config is keyed by the number of the linear, not of the layer.     *)
Linears == 0..(Layers * PerLayer) - 1
NoFile == [run |-> 0, kind |-> "none", gates |-> {}]
NoProfile == NoFile

(* The files in the order they are written; each belongs to the step whose *)
(* exception handler covers it: steps C, D and E.  The profile has none.   *)
Artifacts == <<"kv_autoencoder.pt", "kv_ae_cuda_weights.bin", "gate_weights.npz",
               "gate_config.json", "wraith_init.pt">>
StepOf == <<"C", "C", "D", "D", "E", "profile">>
ProfileAt == Len(StepOf)
FirstOf(step) == CHOOSE i \in 1..ProfileAt :
                   StepOf[i] = step /\ \A j \in 1..(i - 1) : StepOf[j] # step
HasFallback(step) == step # "profile"

Idle == [pc |-> "idle", run |-> 0, model |-> "none", at |-> 1, kind |-> "real",
         gates |-> {}]

TypeOK ==
  /\ \A i \in DOMAIN Artifacts :
       /\ file[i].run \in 0..MaxRuns /\ file[i].gates \subseteq Linears
       /\ file[i].kind \in {"none", "torn", "real", "placeholder"}
  /\ \A m \in Models :
       /\ profile[m].kind \in {"none", "torn", "real"}
       /\ profile[m].gates \subseteq Linears \cup (0..Layers)
  /\ \A r \in Runners : /\ state[r].pc \in {"idle", "load", "train", "open", "fill"}
                        /\ state[r].at \in 1..ProfileAt
  /\ started \in 0..MaxRuns /\ mishaps \in 0..MaxFaults /\ mixed \subseteq 1..MaxRuns

Init ==
  /\ file = [i \in DOMAIN Artifacts |-> NoFile]
  /\ profile = [m \in Models |-> NoProfile]
  /\ state = [r \in Runners |-> Idle]
  /\ started = 0 /\ mishaps = 0 /\ mixed = {}

Active == {state[r].run : r \in {q \in Runners : state[q].pc # "idle"}}
Mishap == mishaps < MaxFaults /\ mishaps' = mishaps + 1

-----------------------------------------------------------------------------
(* main and __init__: the directory is made; --skip is parsed and printed, *)
(* and every step runs all the same.                                       *)
Start(r, m) ==
  /\ state[r].pc = "idle" /\ started < MaxRuns
  /\ started' = started + 1
  /\ state' = [state EXCEPT ![r] = [Idle EXCEPT !.pc = "load", !.model = m,
                                                 !.run = started + 1]]
  /\ mixed' = IF Active = {} THEN mixed ELSE mixed \cup Active \cup {started + 1}
  /\ UNCHANGED <<file, profile, mishaps>>

(* The model is read and the layers are profiled (steps A and B have no    *)
(* file of their own).  A model that does not load ends the run here: the  *)
(* loader returns nothing and the next use of it raises.                   *)
Loaded(r) ==
  /\ state[r].pc = "load"
  /\ state' = [state EXCEPT ![r].pc = "train"]
  /\ UNCHANGED <<file, profile, started, mishaps, mixed>>

NotLoaded(r) ==
  /\ state[r].pc = "load" /\ Mishap
  /\ state' = [state EXCEPT ![r] = Idle]
  /\ UNCHANGED <<file, profile, started, mixed>>

(* Step D: a linear whose hook saw no sample is not in the result, one     *)
(* with few samples, too many outputs or a bad F1 is there and disabled.   *)
(* gates: the enabled ones, whose weights are kept.                        *)
Gates(enough, good) == {id \in Linears : id \in enough /\ id \in good}
GateWeights_Fault(s) == {}  (* npz written without its arrays *)
GateWeights(s) == IF s.kind = "real" THEN s.gates ELSE {}
DefaultGates == 0..(Layers - 1)

(* What precedes the first file of a step, all in its try block.           *)
Train(r) ==
  /\ state[r].pc = "train"
  /\ \E enough, good \in IF StepOf[state[r].at] = "D" THEN SUBSET Linears ELSE {{}} :
       /\ state' = [state EXCEPT ![r].pc = "open",
                      ![r].gates = IF StepOf[state[r].at] = "D" THEN Gates(enough, good)
                                   ELSE @]
  /\ UNCHANGED <<file, profile, started, mishaps, mixed>>

(* The file is truncated, then filled.                                     *)
Open(r) ==
  LET s == state[r] IN
  /\ s.pc = "open"
  /\ IF s.at = ProfileAt
       THEN /\ profile' = [profile EXCEPT ![s.model] =
                             [NoProfile EXCEPT !.run = s.run, !.kind = "torn"]]
            /\ UNCHANGED file
       ELSE /\ file' = [file EXCEPT ![s.at] =
                          [NoFile EXCEPT !.run = s.run, !.kind = "torn"]]
            /\ UNCHANGED profile
  /\ state' = [state EXCEPT ![r].pc = "fill"]
  /\ UNCHANGED <<started, mishaps, mixed>>

(* After a file comes the next of its step, or the training of the next    *)
(* step; after the profile, the end.                                       *)
After_Fault(s) ==  (* the profile is written before step E *)
  IF s.at = ProfileAt THEN [s EXCEPT !.at = 5, !.pc = "train"]
  ELSE IF s.at = 4 THEN [s EXCEPT !.at = ProfileAt, !.kind = "real", !.pc = "open"]
  ELSE IF s.at = 5 THEN Idle
  ELSE [s EXCEPT !.at = @ + 1, !.kind = IF StepOf[s.at + 1] = StepOf[s.at] THEN @ ELSE "real",
                 !.pc = IF StepOf[s.at + 1] = StepOf[s.at] THEN "open" ELSE "train"]

After(s) ==
  IF s.at = ProfileAt THEN Idle
  ELSE LET next == s.at + 1 IN
       IF StepOf[next] = StepOf[s.at] THEN [s EXCEPT !.at = next, !.pc = "open"]
       ELSE [s EXCEPT !.at = next, !.kind = "real",
                      !.pc = IF HasFallback(StepOf[next]) THEN "train" ELSE "open"]
Shares(r) == \E q \in Runners \ {r} : /\ state[q].pc = "fill" /\ state[q].at = state[r].at
                                      /\ \/ state[r].at # ProfileAt
                                         \/ state[q].model = state[r].model

Fill(r) ==
  LET s == state[r]
      torn == IF Shares(r) THEN {TRUE, FALSE} ELSE {FALSE}
  IN
  /\ s.pc = "fill"
  /\ \E t \in torn :
       IF s.at = ProfileAt
       THEN /\ profile' = [profile EXCEPT ![s.model] =
                 [run |-> s.run, kind |-> IF t THEN "torn" ELSE "real",
                  gates |-> s.gates]]
            /\ UNCHANGED file
       ELSE /\ file' = [file EXCEPT ![s.at] =
                 [run |-> s.run, kind |-> IF t THEN "torn" ELSE s.kind,
                  gates |-> IF StepOf[s.at] = "D" THEN GateWeights(s) ELSE {}]]
            /\ UNCHANGED profile
  /\ state' = [state EXCEPT ![r] = After(s)]
  /\ UNCHANGED <<started, mishaps, mixed>>

(* An exception in a step: its handler writes a placeholder over every     *)
(* file of the step, and step D's enables the gate of every layer.  One in *)
(* the handler, or while the profile is written, ends the run.             *)
Fails_Fault(r) ==  (* the handler replaces only the file that failed *)
  LET s == state[r] IN
  /\ s.pc \in {"train", "open", "fill"} /\ Mishap
  /\ state' = [state EXCEPT ![r] =
       IF s.kind = "real" /\ HasFallback(StepOf[s.at])
       THEN [s EXCEPT !.kind = "placeholder", !.pc = "open",
                      !.gates = IF StepOf[s.at] = "D" THEN DefaultGates ELSE @]
       ELSE Idle]
  /\ UNCHANGED <<file, profile, started, mixed>>

Fails(r) ==
  LET s == state[r] IN
  /\ s.pc \in {"train", "open", "fill"} /\ Mishap
  /\ state' = [state EXCEPT ![r] =
       IF s.kind = "real" /\ HasFallback(StepOf[s.at])
       THEN [s EXCEPT !.kind = "placeholder", !.pc = "open", !.at = FirstOf(StepOf[s.at]),
                      !.gates = IF StepOf[s.at] = "D" THEN DefaultGates ELSE @]
       ELSE Idle]
  /\ UNCHANGED <<file, profile, started, mixed>>

(* Ctrl-C (exit 130) or the end of the process: no handler runs.           *)
Interrupted(r) ==
  /\ state[r].pc # "idle" /\ Mishap
  /\ state' = [state EXCEPT ![r] = Idle]
  /\ UNCHANGED <<file, profile, started, mixed>>

Next ==
  \E r \in Runners :
    \/ \E m \in Models : Start(r, m)
    \/ Loaded(r)
    \/ NotLoaded(r)
    \/ Train(r)
    \/ Open(r)
    \/ Fill(r)
    \/ Fails(r)
    \/ Interrupted(r)

-----------------------------------------------------------------------------
(* A whole profile names files that are whole and that its own run wrote,  *)
(* with the two forms of the cache's weights of one kind, as long as no    *)
(* later run has started in the directory and none was at it meanwhile:    *)
(* the profile is the last file, and a step's handler replaces all of it.  *)
ProfileIsLast ==
  \A m \in Models :
    LET p == profile[m] IN
    p.kind = "real" /\ p.run = started /\ p.run \notin mixed =>
      /\ \A i \in DOMAIN Artifacts : file[i].run = p.run /\ file[i].kind # "torn"
      /\ \A i, j \in DOMAIN Artifacts : StepOf[i] = StepOf[j] => file[i].kind = file[j].kind

(* Such a profile enables exactly the gates whose weights are in the npz,  *)
(* unless the npz is the placeholder of a step D that failed: the gates of *)
(* all layers are then enabled and none has weights, where that step, for  *)
(* a gate it could not train, would disable it.                            *)
GatesHaveWeights ==
  \A m \in Models :
    LET p   == profile[m]
        npz == file[FirstOf("D")]
    IN p.kind = "real" /\ p.run = started /\ p.run \notin mixed /\ npz.kind = "real" =>
         p.gates = npz.gates
=============================================================================
