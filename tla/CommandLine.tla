------------------------------ MODULE CommandLine ------------------------------
(***************************************************************************)
(* python/phantom/phantom_cli.py and the resolution of names in            *)
(* registry/model_manager.py: which directory a pull makes for a model     *)
(* reference, which GGUF a later run of that reference finds, and which    *)
(* engine prints the answer.  Several commands run at once, in several     *)
(* terminals.  A pull is one step here: what may happen inside it is the   *)
(* subject of ModelLibrary.                                                *)
(***************************************************************************)
EXTENDS Naturals, Sequences, FiniteSets, SequencesExt

CONSTANTS Sizes,     (* of the models of one family, as in qwen:7b         *)
          Quants,
          Hub,       (* GGUFs the hub offers: a subset of Files            *)
          Indexed,   (* references the curated index knows                 *)
          Offered,   (* values of: the list of the models Ollama serves    *)
          Tokens,    (* of an answer                                       *)
          MaxOps     (* bound: commands, and deletions of a GGUF           *)

CommandAssumption ==
  /\ {"any", "none"} \cap Sizes = {} /\ Hub \subseteq [size : Sizes, quant : Quants]
  /\ Offered \subseteq Seq(Sizes) /\ Tokens \in Nat /\ MaxOps \in Nat

(* A reference is the family with a size, as "qwen:7b" or "qwen-7b", as a  *)
(* repository "org/qwen-7b-GGUF" or as the directory "org_qwen-7b-GGUF"    *)
(* that a pull of it makes; or the family alone.  Directories of models_dir*)
(* are named in the same ways.                                             *)
Base == [size |-> "any", form |-> "dash"]
Refs == [size : Sizes, form : {"colon", "dash", "repo", "listed"}] \cup {Base}
Dirs == {r \in Refs : r.form # "repo"}
Files == [size : Sizes, quant : Quants]
NoFile == [size |-> "none", quant |-> "none"]
Manifests == [kind : {"none", "passthrough", "native", "persona"},
              gguf : Files \cup {NoFile}, base : Refs]
NoPull == [gguf |-> NoFile, skip |-> FALSE, reused |-> FALSE]
NoManifest == [kind |-> "none", gguf |-> NoFile, base |-> Base]

VARIABLES manifest,  (* per directory                                      *)
          files,     (* the GGUFs in downloads_dir                         *)
          offered,   (* Ollama's models, in its order                      *)
          pulled,    (* history, per reference: what its install is made of*)
          run,       (* the "phantom run" command: see NoRun               *)
          screen,    (* the menu and the REPL it opens                     *)
          ops

vars == <<manifest, files, offered, pulled, run, screen, ops>>

NoRun == [at |-> "idle", asked |-> Base, use |-> NoFile, own |-> FALSE,
          printed |-> <<>>, broke |-> FALSE]
NoScreen == [at |-> "shell", list |-> {}, asked |-> Base, use |-> NoFile, own |-> FALSE]

TypeOK ==
  /\ manifest \in [Dirs -> Manifests] /\ files \subseteq Files
  /\ \A i \in DOMAIN offered : offered[i] \in Sizes
  /\ pulled \in [Refs -> [gguf : Files \cup {NoFile}, skip : BOOLEAN, reused : BOOLEAN]]
  /\ run.at \in {"idle", "ollama", "find", "load", "generate", "hung", "failed"}
  /\ screen.at \in {"shell", "menu", "gpu", "loading", "local", "simulated"}
  /\ screen.list \subseteq Dirs /\ ops \in 0..MaxOps

Init ==
  /\ manifest = [d \in Dirs |-> NoManifest] /\ files = {} /\ offered \in Offered
  /\ pulled = [r \in Refs |-> NoPull] /\ run = NoRun /\ screen = NoScreen /\ ops = 0

Op == ops < MaxOps /\ ops' = ops + 1

-----------------------------------------------------------------------------
(* pull: the directory's name has no ":" and no "/".                       *)
DirOf(ref) == CASE ref.form = "colon" -> [ref EXCEPT !.form = "dash"]
                [] ref.form = "repo"  -> [ref EXCEPT !.form = "listed"]
                [] OTHER -> ref

(* The name of a file holds "qwen" and "qwen-7b", and none of the others.  *)
InName(ref, f) == ref.form = "dash" /\ ref.size \in {"any", f.size}

(* What pull installs for a reference of the index, else a GGUF that is    *)
(* there already, of the quantisation if there is one, else any; else one  *)
(* of the repository, likewise.                                            *)
Preferred(set, quant) == IF \E f \in set : f.quant = quant
                         THEN {f \in set : f.quant = quant} ELSE set
Resolve(ref, quant) ==
  LET known == {f \in Hub : f.quant = quant /\ ref.size = f.size}
      here  == {f \in files : InName(ref, f)}
      there == {f \in Hub : ref.form = "repo" /\ ref.size = f.size}
  IN IF ref \in Indexed /\ known # {} THEN known
     ELSE Preferred(IF here # {} THEN here ELSE there, quant)

(* A manifest, of whatever kind, ends the pull.  Without --skip-convert an *)
(* install of the same GGUF under another name is taken for this one's     *)
(* before anything is downloaded, be its GGUF still there or not.          *)
Reused_Fault(f, skip) ==  (* with --skip-convert, too *)
  \E d \in Dirs : manifest[d].kind = "passthrough" /\ manifest[d].gguf = f

Reused(f, skip) ==
  ~ skip /\ \E d \in Dirs : manifest[d].kind = "passthrough" /\ manifest[d].gguf = f

(* A GGUF that is converted is not named by the manifest.                  *)
Installed(f, skip) == [kind |-> IF skip THEN "passthrough" ELSE "native",
                       gguf |-> IF skip THEN f ELSE NoFile, base |-> Base]

Pull(ref, quant, skip) ==
  /\ manifest[DirOf(ref)].kind = "none" /\ Op
  /\ \E f \in Resolve(ref, quant) :
       /\ \/ Reused(f, skip) /\ UNCHANGED <<manifest, files>>
          \/ /\ ~ Reused(f, skip) /\ files' = files \cup {f}
             /\ manifest' = [manifest EXCEPT ![DirOf(ref)] = Installed(f, skip)]
       /\ pulled' = [pulled EXCEPT ![ref] =
                       [gguf |-> f, skip |-> skip, reused |-> Reused(f, skip)]]
  /\ UNCHANGED <<offered, run, screen>>

(* create: a persona of any name; what the manifest of that name said      *)
(* before is lost.                                                         *)
Forget(d) == pulled' = [r \in Refs |-> IF DirOf(r) = d THEN NoPull ELSE pulled[r]]
Create(d, base) ==
  /\ Op
  /\ manifest' = [manifest EXCEPT ![d] = [NoManifest EXCEPT !.kind = "persona", !.base = base]]
  /\ Forget(d)
  /\ UNCHANGED <<files, offered, run, screen>>

(* rm, confirmed: the directory goes, and the GGUF in downloads stays.     *)
Rm(d) ==
  /\ manifest[d].kind # "none" /\ Op
  /\ manifest' = [manifest EXCEPT ![d] = NoManifest]
  /\ Forget(d)
  /\ UNCHANGED <<files, offered, run, screen>>

(* The user makes room.                                                    *)
DeleteGguf(f) ==
  /\ f \in files /\ Op
  /\ files' = files \ {f}
  /\ pulled' = [r \in Refs |-> IF pulled[r].gguf = f THEN NoPull ELSE pulled[r]]
  /\ UNCHANGED <<manifest, offered, run, screen>>

-----------------------------------------------------------------------------
(* _find_gguf_path: the directories named as the reference, as pull names  *)
(* them and as the family; then any file, in the order of the directory,   *)
(* whose name holds one of these.                                          *)
Candidates(ref) == CASE ref.form = "colon" -> <<ref, DirOf(ref), Base>>
                     [] ref.form = "repo"  -> <<DirOf(ref)>>
                     [] OTHER -> <<ref>>
Usable(d) == manifest[d].gguf \in files
FirstUsable(dirs) ==
  {d \in Dirs : \E i \in DOMAIN dirs : /\ d = dirs[i] /\ Usable(d)
                                       /\ \A j \in 1..(i - 1) : ~ Usable(dirs[j])}
Find_Fault(ref) ==  (* the downloads are searched first *)
  LET first == FirstUsable(Candidates(ref))
      named == {f \in files : \E c \in ToSet(Candidates(ref)) : InName(c, f)}
  IN IF named # {} THEN named ELSE {manifest[d].gguf : d \in first}

Find(ref) ==
  LET first == FirstUsable(Candidates(ref)) IN
  IF first # {} THEN {manifest[d].gguf : d \in first}
  ELSE {f \in files : \E c \in ToSet(Candidates(ref)) : InName(c, f)}
Own(ref) == manifest[DirOf(ref)].kind = "passthrough" /\ Usable(DirOf(ref))

(* _ollama_model_name: the first of its models with the same name before   *)
(* the colon answers, of whatever size, and one of the size that was asked *)
(* for only if it is the first.                                            *)
InOllama(ref) == offered # <<>> /\ (ref.form = "colon" \/ ref = Base)

-----------------------------------------------------------------------------
(* run: a "/" makes the reference a path, which is not there.              *)
Run(ref) ==
  /\ run.at \in {"idle", "failed"} /\ Op
  /\ run' = [NoRun EXCEPT !.asked = ref,
               !.at = IF ref.form = "repo" THEN "failed"
                      ELSE IF InOllama(ref) THEN "ollama" ELSE "find"]
  /\ UNCHANGED <<manifest, files, offered, pulled, screen>>

Still == UNCHANGED <<manifest, files, offered, pulled, screen, ops>>
Says(engine) == run' = [run EXCEPT !.printed = Append(@, engine)]
Count(engine) == Cardinality({i \in DOMAIN run.printed : run.printed[i] = engine})

OllamaToken == run.at = "ollama" /\ Count("ollama") < Tokens /\ Says("ollama") /\ Still
OllamaDone == run.at = "ollama" /\ Count("ollama") = Tokens /\ run' = NoRun /\ Still

OllamaBreaks_Fault ==  (* the failure is not seen until a token has come *)
  /\ run.at = "ollama"
  /\ run' = [run EXCEPT !.at = "find", !.broke = run.printed = <<>>]
  /\ Still

(* Whatever it has printed by then, the local engine starts again.         *)
OllamaBreaks ==
  /\ run.at = "ollama"
  /\ run' = [run EXCEPT !.at = "find", !.broke = TRUE]
  /\ Still

FindWeights ==
  /\ run.at = "find"
  /\ IF Find(run.asked) = {} THEN run' = [run EXCEPT !.at = "failed"]
     ELSE \E f \in Find(run.asked) :
            run' = [run EXCEPT !.at = "load", !.use = f, !.own = Own(run.asked)]
  /\ Still

(* A failure to load, for instance of a file that is gone by now.          *)
LoadWeights ==
  /\ run.at = "load"
  /\ \/ run.use \in files /\ run' = [run EXCEPT !.at = "generate"]
     \/ run' = [run EXCEPT !.at = "failed"]
  /\ Still

(* The thread of generate hands its text to the streamer.  If it raises,   *)
(* nothing tells the streamer, which waits until the user interrupts it.   *)
LocalToken == run.at = "generate" /\ Count("local") < Tokens /\ Says("local") /\ Still
LocalDone == run.at = "generate" /\ run' = NoRun /\ Still
GenerateRaises == run.at = "generate" /\ run' = [run EXCEPT !.at = "hung"] /\ Still
Interrupt == run.at \notin {"idle", "failed"} /\ run' = NoRun /\ Still

-----------------------------------------------------------------------------
(* menu: the models that have a manifest are listed, then the user is      *)
(* asked.                                                                  *)
Listed == {d \in Dirs : manifest[d].kind # "none"}
Menu ==
  /\ screen.at = "shell" /\ Op
  /\ screen' = [NoScreen EXCEPT !.at = "menu", !.list = Listed]
  /\ UNCHANGED <<manifest, files, offered, pulled, run>>

(* The choice: 1, and phantom with no command, ask for a model and offer   *)
(* the first of the list; the name of a listed model opens it.  A number   *)
(* up to 14 is a command, so that none opens the model listed beside it    *)
(* unless fifteen are installed.  Any other command is the step of its own *)
(* and comes back here.                                                    *)
Pickable == screen.list \cup {r \in Refs : r.form = "colon"}

(* _repl: the REPL of the model that was chosen, in the library or not.    *)
Repl ==
  \E m \in Pickable :
    /\ screen.at = "menu"
    /\ IF InOllama(m) THEN screen' = [screen EXCEPT !.at = "gpu", !.asked = m]
       ELSE IF Find(m) = {} THEN screen' = [screen EXCEPT !.at = "simulated", !.asked = m]
       ELSE \E f \in Find(m) : screen' = [screen EXCEPT !.at = "loading", !.asked = m,
                                                         !.use = f, !.own = Own(m)]
    /\ UNCHANGED <<manifest, files, offered, pulled, run, ops>>

ReplLoads ==
  /\ screen.at = "loading"
  /\ \/ screen.use \in files /\ screen' = [screen EXCEPT !.at = "local"]
     \/ screen' = [screen EXCEPT !.at = "simulated"]
  /\ UNCHANGED <<manifest, files, offered, pulled, run, ops>>

Leave == /\ screen.at # "shell" /\ screen' = NoScreen
         /\ UNCHANGED <<manifest, files, offered, pulled, run, ops>>

Next ==
  \/ \E ref \in Refs : \/ Run(ref)
                       \/ \E quant \in Quants, skip \in BOOLEAN : Pull(ref, quant, skip)
  \/ \E d \in Dirs : Rm(d) \/ \E base \in Refs : base.form = "colon" /\ Create(d, base)
  \/ \E f \in Files : DeleteGguf(f)
  \/ OllamaToken
  \/ OllamaDone
  \/ OllamaBreaks
  \/ FindWeights
  \/ LoadWeights
  \/ LocalToken
  \/ LocalDone
  \/ GenerateRaises
  \/ Interrupt
  \/ Menu
  \/ Repl
  \/ ReplLoads
  \/ Leave

-----------------------------------------------------------------------------
(* What a pull has installed under a reference is what that reference      *)
(* finds later, until it is removed, overwritten by a persona or deleted:  *)
(* exactly so for a passthrough install.  A converted or a reused one      *)
(* leaves its GGUF to be found by name: a reference by repository or       *)
(* directory may find nothing, and the others a file of the same family.   *)
(* A reused install is ready even when the user has deleted its GGUF: only *)
(* then may nothing be found for the others, too.                          *)
PulledIsFound ==
  \A ref \in Refs :
    LET p == pulled[ref] IN
    p # NoPull =>
      /\ p.skip => Find(ref) = {p.gguf}
      /\ ~ p.reused => p.gguf \in files
      /\ Find(ref) = {} => ref.form \in {"repo", "listed"} \/ p.gguf \notin files

(* Weights of another size than the one asked for answer only when the     *)
(* asked one had no install of its own whose GGUF was there.               *)
OwnSizeFirst ==
  \A u \in {run, screen} :
    u.use # NoFile /\ u.asked.size \notin {"any", u.use.size} => ~ u.own

(* An answer is one engine's, token for token, with one exception: where   *)
(* Ollama has broken off, the local engine's answer, from its beginning,   *)
(* comes after the tokens that Ollama had printed.                         *)
PrintedOnce ==
  \E i \in 0..Tokens, j \in 0..Tokens :
    /\ run.printed = [k \in 1..(i + j) |-> IF k <= i THEN "ollama" ELSE "local"]
    /\ i > 0 /\ (j > 0 \/ run.at \in {"find", "load", "generate"}) => run.broke

(* docs/PLUGINS.md:141-144: "Build and run: phantom create ..., phantom run *)
(* ..." of the model made by create.  A run that looks for the weights of  *)
(* a persona finds some when a run of its base would.                      *)
PersonaRuns ==
  \A d \in Dirs :
    /\ run.at = "find" /\ run.asked = d
    /\ manifest[d].kind = "persona" /\ Find(manifest[d].base) # {}
    => Find(d) # {}
=============================================================================
