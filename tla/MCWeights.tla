------------------------------- MODULE MCWeights -------------------------------
(***************************************************************************)
(* Weights on disk: the library that fetches and converts them, the readers*)
(* that take them out of a model file and the pager that swaps them.  They *)
(* meet only in files, so a behaviour exercises one of them.               *)
(***************************************************************************)
EXTENDS TilePaging, Sequences, TLC

CONSTANTS Procs, Chunks, LibraryLayers, HasSha, MaxFaults

VARIABLES which, input, sha, part, gguf, dir, weights, manifest, sentinel, pc, fd,
          have, left, hash, conv, faults, lied, overlapped, cut, rebuilding
libraryVars == <<sha, part, gguf, dir, weights, manifest, sentinel, pc, fd, have, left,
                 hash, conv, faults, lied, overlapped, cut, rebuilding>>
allVars == <<which, input, vars, libraryVars>>
L == INSTANCE ModelLibrary WITH Layers <- LibraryLayers
F == INSTANCE ModelFormats
ASSUME LibrarySized == L!LibraryAssumption

-----------------------------------------------------------------------------
(* A GGUF of three tensors of any types, whole blocks or not.              *)
Tensor(q, n) == [name |-> 5, dims |-> 2, q |-> q, n |-> n]
Scalar == [key |-> 9, value |-> [type |-> "scalar", width |-> 4]]
Array == [key |-> 20, value |-> [type |-> "array", items |-> <<9, 12>>]]
File(q, r, n, kv, a) ==
  [kv |-> kv, alignment |-> a, tensors |-> <<Tensor(q, n), Tensor(r, 300), Tensor(q, n)>>]
SomeFile == File("F16", "F32", 256, <<>>, 32)
GgufFiles ==
  {File(q, r, n, kv, a) : q \in F!Enumerated \cup {"TQ2_0"}, r \in {"F32", "Q4_K", "TQ2_0"},
                          n \in {0, 256, 300}, kv \in {<<>>, <<Scalar, Array>>}, a \in {32, 64}}

Path(kind, suffix, has, n) == [kind |-> kind, suffix |-> suffix, has |-> has, files |-> n]
Paths ==
  {Path("file", s, {}, 1) : s \in {"gguf", "safetensors", "phantom", "bin", "other"}}
    \cup {Path("dir", "other", s, n) : n \in 1..2,
          s \in SUBSET {"manifest", "weights", "config", "gguf", "safetensors"}}
Directory == Path("dir", "other", {"config"}, 1)

Small == [hidden_size |-> 64, num_attention_heads |-> 4, intermediate_size |-> 96,
          num_hidden_layers |-> 2, vocab_size |-> 100]
Config(type, tags, gg) == [type |-> type, tags |-> tags, gguf |-> gg]
Families == {Config("llama", {"llama"}, "llama"), Config("qwen2", {"qwen"}, "qwen"),
             Config("qwen2_moe", {"qwen", "qwen2_moe"}, "qwen"),
             Config("mixtral", {"mixtral"}, "llama"),
             Config("deepseek_v2", {"deepseek"}, "deepseek")}
Keys == {[num_key_value_heads |-> 2], [head_dim |-> 24], [experts |-> 8], [kv_lora_rank |-> 16],
         [experts |-> 8, head_dim |-> 24], [n_routed_experts |-> 8]}
(* Keys left out, whose defaults then count.                               *)
Partial == {Small, [hidden_size |-> 64, num_attention_heads |-> 4, num_hidden_layers |-> 1],
            [intermediate_size |-> 96, num_hidden_layers |-> 2, vocab_size |-> 100],
         [n_embd |-> 80, n_head |-> 5, n_layer |-> 3]}
(* The keys of f and those of g, f's value where both have one.            *)
With(f, g) == [k \in DOMAIN f \cup DOMAIN g |-> IF k \in DOMAIN f THEN f[k] ELSE g[k]]
Configs ==
  {With(With(y[1], Small), y[2]) : y \in {x \in Families \X Keys :
     {"experts", "n_routed_experts"} \cap DOMAIN x[2] \subseteq
       IF "deepseek" \in x[1].tags THEN {"n_routed_experts"} ELSE {"experts"}}}
  \cup {With(c, s) : c \in Families, s \in Partial}

(* What a caller overrides: nothing, a number of KV heads, the family.     *)
Overrides == {F!NoKeys, [num_key_value_heads |-> 1], [type |-> "qwen2", head_dim |-> 24]}

SomeConfig == With(Config("llama", {"llama"}, "llama"), Small)
Inputs == [f : GgufFiles, cuda : BOOLEAN, p : {Directory}, c : {SomeConfig}, o : {F!NoKeys}]
            \cup [f : {SomeFile}, cuda : {FALSE}, p : Paths, c : {SomeConfig}, o : Overrides]
            \cup [f : {SomeFile}, cuda : {FALSE}, p : {Directory}, c : Configs, o : Overrides]
NoInput == [cuda |-> FALSE]

-----------------------------------------------------------------------------
MCInit == /\ which \in {"library", "formats", "tiles"}
          /\ L!Init /\ Init
          /\ IF which = "formats" THEN input \in Inputs ELSE input = NoInput
          /\ which # "library" => sha = (TRUE \in HasSha)
          /\ which # "tiles" => platform = CHOOSE p \in Platforms : TRUE
LibraryWork(p) == which = "library" /\ L!Work(p) /\ UNCHANGED <<which, input, vars>>
MCNext == \/ which = "library" /\ L!Next /\ UNCHANGED <<which, input, vars>>
          \/ which = "tiles" /\ Next /\ UNCHANGED <<which, input, libraryVars>>
          \/ which # "library" /\ UNCHANGED allVars
MCSpec == /\ MCInit /\ [][MCNext]_allVars /\ Fairness
          /\ \A p \in Procs : WF_allVars(LibraryWork(p))

(* The library keeps its types.                                            *)
LibraryTypeOK == L!TypeOK
(* ModelLibrary.tla: the GGUF in downloads is the remote one, and a        *)
(* manifest comes after its layers, but for the causes named there.        *)
FilesWhole == L!GgufWhole /\ L!ManifestIsLast
(* ModelLibrary.tla: a user who asks again gets the model, or is stuck in  *)
(* one of the three named ways.                                            *)
RetriesInstall == []<>(which # "library" \/ L!Installed \/ L!Stuck)
(* ModelFormats.tla: tensors are cut out where they were written and       *)
(* decoded alike, a model is streamed whole, its layers are sized right    *)
(* and its two descriptions agree, but for what is said there.             *)
ModelsReadRight ==
  which = "formats" => /\ F!LoaderFaithful(input.f, input.cuda)
                       /\ F!StreamsWholeModel(input.p)
                       /\ F!ArchitectureSized(input.p, input.c, input.o)
                       /\ F!TwoDescriptionsAgree(input.c)
=============================================================================
