-------------------------------- MODULE MCDesk --------------------------------
(***************************************************************************)
(* What a user has at the desk: the interactive session, the composer and  *)
(* its menus, the command line, calibration, and the profile of the machine*)
(* all of them start from.  They share no memory, so a behaviour exercises *)
(* one of them; the profile is a function of what the probes answer.       *)
(***************************************************************************)
EXTENDS TuiSession, TLC

CONSTANTS Parts, MaxEvents,    (* of this; a bound on the installs, edits,  *)
                               (* restarts and failed saves of a behaviour,*)
                               (* which has no edit beside the last two    *)
          Runners, Paths, Layers, PerLayer, MaxRuns, MaxFaults, (* Calibration *)
          Sizes, Quants, HubFiles, References, OllamaLists, Tokens, MaxOps,
                                                                (* CommandLine *)
          Letters, CommandTable, ProjectFiles, EditorTexts,
          MaxText, MaxKeys                                      (* TuiInput    *)

VARIABLES part, input,
          file, profile, state, started, mishaps, mixed,
          manifest, ggufs, offered, pulled, run, screen, ops,
          buffer, history, at, token, idx, dialog, pending, leader, mode, keys, stale, last
calibrationVars == <<file, profile, state, started, mishaps, mixed>>
commandVars == <<manifest, ggufs, offered, pulled, run, screen, ops>>
inputVars == <<buffer, history, at, token, idx, dialog, pending, leader, mode, keys, stale,
               last>>
others == <<part, input, calibrationVars, commandVars, inputVars>>

(* The hub offers one quantization of the smaller model and two of the     *)
(* larger, and the index knows both; Ollama has both, the larger first, or *)
(* none.                                                                   *)
MCHubFiles == {[size |-> "7b", quant |-> "q4"], [size |-> "14b", quant |-> "q4"],
               [size |-> "14b", quant |-> "q8"]}
MCReferences == {[size |-> s, form |-> "colon"] : s \in Sizes}
MCOllamaLists == {<<>>, <<"14b", "7b">>}
(* Names near one another, one an alias, and four effects: the leader key  *)
(* opens the form that is the fifth.                                       *)
Cmd(name, also, does) == [name |-> name, also |-> also, does |-> does]
MCCommandTable ==
  <<Cmd(<<"b", "a">>, {}, "pick"), Cmd(<<"a", "b">>, {<<"b">>}, "args"),
    Cmd(<<"a", "a">>, {}, "editor"), Cmd(<<"b", "b">>, {}, "exit")>>
MCProjectFiles == {<<"a">>}
MCEditorTexts == {<<"/", "a">>}

K == INSTANCE Calibration WITH Models <- Paths
C == INSTANCE CommandLine WITH files <- ggufs, Hub <- HubFiles, Indexed <- References,
                               Offered <- OllamaLists
I == INSTANCE TuiInput WITH Commands <- CommandTable, Files <- ProjectFiles,
                            Written <- EditorTexts
H == INSTANCE Hardware
ASSUME DeskAssumption == K!CalibrationAssumption /\ C!CommandAssumption /\ I!InputAssumption

-----------------------------------------------------------------------------
(* Machines: which probes answer, cards below, at and above the limits of  *)
(* the tiers, RAM, and disks that share a drive, are full or unreadable,   *)
(* differ by less than a tenth of a GB, or have little space.              *)
Disk(path, free, readable, anchor) ==
  [path |-> path, free |-> free, readable |-> readable, anchor |-> anchor]
Disks == {<<Disk(1, 100 * H!GB, TRUE, "c")>>,
          <<Disk(1, 50 * H!GB + 60, TRUE, "c"), Disk(2, 50 * H!GB + 250, TRUE, "d"),
            Disk(3, 0, FALSE, "e")>>,
          <<Disk(1, 20 * H!GB, TRUE, "c"), Disk(2, 400 * H!GB, TRUE, "c"),
            Disk(3, 60 * H!GB, TRUE, "d")>>,
          <<Disk(1, 0, FALSE, "c"), Disk(2, 770, TRUE, "d")>>,
          <<Disk(1, 0, FALSE, "c")>>}
Cards == {0, 4 * H!GB, 5 * 8188, 5 * 8100, 16 * H!GB, 5 * 24564, 38 * H!GB, 80 * H!GB}
Machines == [nvml : {"absent", "raises", "works"}, smi : BOOLEAN, torch : BOOLEAN,
             vram : Cards, ram : {4 * H!GB, 16 * H!GB, 64 * H!GB}, disks : Disks]

(* References: one or two known names, 8x7b, a size, or nothing.           *)
Ref(names, experts, size) == [names |-> names, experts |-> experts, size |-> size]
ModelRefs == {Ref({i, j}, -1, -1) : i \in 1..11, j \in {1, 8}}
               \cup {Ref({i}, -1, -1) : i \in 1..11} \cup {Ref({}, -1, -1)}
               \cup {Ref({}, e, s) : e \in {-1, 0, 1, 8}, s \in {0, 100, 700, 1300, 3300, 7000}}
Inputs == [m : Machines]
            \cup [ref : ModelRefs, hw : 1..6, bits : {45, 85, 160}, ctx : {4096, 32768}]
NoInput == [bits |-> 0]

-----------------------------------------------------------------------------
(* Models, runners and paths do not differ among themselves; TLC exchanges *)
(* the two of each kind all at once.                                       *)
DeskSymmetry ==
  {t[1] @@ t[2] @@ t[3] : t \in {u \in Permutations(Models) \X Permutations(Runners)
                                      \X Permutations(Paths) :
    \A i, j \in 1..3 : (\A s \in DOMAIN u[i] : u[i][s] = s)
                      = (\A s \in DOMAIN u[j] : u[j][s] = s)}}

MCInit ==
  /\ part \in Parts
  /\ Init /\ K!Init /\ C!Init /\ I!Init
  /\ part # "session" => active = NoModel
  /\ part # "command" => offered = (CHOOSE o \in OllamaLists : TRUE)
  /\ IF part = "hardware" THEN input \in Inputs ELSE input = NoInput
MCNext ==
  \/ /\ part = "session" /\ Next /\ UNCHANGED others
     /\ count'.installs + count'.edits + count'.restarts + failures' <= MaxEvents
     /\ count'.edits = 0 \/ count'.restarts + failures' = 0
  \/ /\ part = "calibration" /\ K!Next
     /\ UNCHANGED <<vars, part, input, commandVars, inputVars>>
  \/ /\ part = "command" /\ C!Next
     /\ UNCHANGED <<vars, part, input, calibrationVars, inputVars>>
  \/ /\ part = "keys" /\ I!Next
     /\ UNCHANGED <<vars, part, input, calibrationVars, commandVars>>
MCSpec == MCInit /\ [][MCNext]_<<vars, others>>

(* Each part keeps its types.                                              *)
DeskTypeOK ==
  CASE part = "session" -> TypeOK
    [] part = "calibration" -> K!TypeOK
    [] part = "command" -> C!TypeOK
    [] part = "keys" -> I!TypeOK
    [] OTHER -> part \in Parts
(* TuiSession.tla: shell commands show their output and the screen names  *)
(* the model that answers.                                                 *)
ScreenHonest == part = "session" => ShellTurnsFilled /\ ShownModelAnswers
(* Calibration.tla: a whole profile names whole files of its own run, and  *)
(* enables the gates that have weights, unless step D failed.              *)
CalibrationSound == part = "calibration" => K!ProfileIsLast /\ K!GatesHaveWeights
(* CommandLine.tla: a reference finds what its pull installed, and weights *)
(* of another size answer only when those of the asked one are not there;  *)
(* an engine prints after another only where that one has broken off.      *)
CommandsHonest == part = "command" => C!PulledIsFound /\ C!OwnSizeFirst /\ C!PrintedOnce
(* TuiInput.tla: Enter does what the screen points at.                     *)
EnterMeansTheScreen == part = "keys" =>
  I!MenuRunsHighlighted /\ I!PickerPointsAtItem /\ I!AnswersOwnForm
(* Hardware.tla: the profile of a machine is consistent, and layers are    *)
(* placed without overcommitting a tier.                                   *)
MachineProfiled ==
  part = "hardware" =>
    IF "m" \in DOMAIN input THEN H!HardwareHonest(input.m)
    ELSE H!PlacementSound(input.ref, H!Presets[input.hw], input.bits, input.ctx)
(* docs/PLUGINS.md:141-144, see CommandLine.tla.                           *)
PersonaRuns == C!PersonaRuns
(* phantom_tui.py:1235, see TuiInput.tla.                                  *)
PickedIsReferenced == I!PickedIsReferenced
=============================================================================
