----------------------------- MODULE ModelFormats -----------------------------
(***************************************************************************)
(* python/phantom/loader and model_profiles/auto_detect.py: what is read   *)
(* out of a model file.  The catalogue of a GGUF file, where each weight   *)
(* of a quantized block comes from in the two decoders (NumPy and CUDA),   *)
(* which files of a model are read, and the architecture and layer sizes   *)
(* derived from the metadata.  Weights are identified by their place.      *)
(***************************************************************************)
EXTENDS Integers, Sequences, Functions, FiniteSets

Optional(f, key, default) == IF key \in DOMAIN f THEN f[key] ELSE default
AlignUp(x, a) == ((x + a - 1) \div a) * a
Total(s) == SumFunction(s)
Mapped(s, Op(_)) == [i \in DOMAIN s |-> Op(s[i])]

-----------------------------------------------------------------------------
(* The catalogue.                                                          *)
QuantSpecs ==
  [F32 |-> <<1, 4>>, F16 |-> <<1, 2>>, BF16 |-> <<1, 2>>, Q4_0 |-> <<32, 18>>,
   Q4_1 |-> <<32, 20>>, Q5_0 |-> <<32, 22>>, Q5_1 |-> <<32, 24>>, Q8_0 |-> <<32, 34>>,
   Q8_1 |-> <<32, 40>>, Q4_K |-> <<256, 144>>, Q5_K |-> <<256, 176>>,
   Q6_K |-> <<256, 210>>]
(* Known by number, without a specification (Q2_K stands for all of them); *)
(* a number the enumeration does not know is read as F32.                  *)
Enumerated == DOMAIN QuantSpecs \cup {"Q2_K"}
ReadAs(q) == IF q \in Enumerated THEN q ELSE "F32"
Bytes(spec, n) == ((n + spec[1] - 1) \div spec[1]) * spec[2]
SizeBytes(q, n) == Bytes(Optional(QuantSpecs, ReadAs(q), <<1, 4>>), n)

(* A value is a scalar (its width), a string (its length) or an array.     *)
ValueBytes(v) ==
  CASE v.type = "scalar" -> v.width [] v.type = "string" -> 8 + v.width
    [] v.type = "array" -> 12 + Total(v.items)

(* A file: key-value pairs, tensors (name length, dimensions, type, number *)
(* of elements), alignment.  Offsets are relative to the data.             *)
HeaderEnd(f) ==
  24 + Total(Mapped(f.kv, LAMBDA e : 8 + e.key + 4 + ValueBytes(e.value)))
     + Total(Mapped(f.tensors, LAMBDA t : 8 + t.name + 4 + 8 * t.dims + 4 + 8))
DataOffset(f) == AlignUp(HeaderEnd(f), f.alignment)

(* The writer.  What the format says of a block: its weights, the bytes of *)
(* its scales and the bits of a weight (TQ2_0 stands for the types the     *)
(* loader has never heard of); a tensor begins at a multiple of the        *)
(* alignment, where the one before has ended, and the catalogue has its    *)
(* offset, so that a reader can go wrong about the start of the data and   *)
(* about the length of a tensor.                                           *)
Layout ==
  [F32 |-> <<1, 0, 32>>, F16 |-> <<1, 0, 16>>, BF16 |-> <<1, 0, 16>>,
   Q4_0 |-> <<32, 2, 4>>, Q4_1 |-> <<32, 4, 4>>, Q5_0 |-> <<32, 2, 5>>,
   Q5_1 |-> <<32, 4, 5>>, Q8_0 |-> <<32, 2, 8>>, Q8_1 |-> <<32, 8, 8>>,
   Q4_K |-> <<256, 16, 4>>, Q5_K |-> <<256, 16, 5>>, Q6_K |-> <<256, 18, 6>>,
   Q2_K |-> <<256, 20, 2>>, TQ2_0 |-> <<256, 2, 2>>]
Stored(q) == <<Layout[q][1], Layout[q][2] + (Layout[q][1] * Layout[q][3]) \div 8>>
StoredBytes(q, n) ==
  (n \div Stored(q)[1] + IF n % Stored(q)[1] = 0 THEN 0 ELSE 1) * Stored(q)[2]
Padded(x, a) == IF x % a = 0 THEN x ELSE x + (a - (x % a))
DataStart(f) == Padded(HeaderEnd(f), f.alignment)
WrittenOffset(f, i) ==
  Total([j \in 1..(i - 1) |-> Padded(StoredBytes(f.tensors[j].q, f.tensors[j].n), f.alignment)])
FileEnd(f) == DataStart(f) + WrittenOffset(f, Len(f.tensors))
                + StoredBytes(f.tensors[Len(f.tensors)].q, f.tensors[Len(f.tensors)].n)

-----------------------------------------------------------------------------
(* Where weight e of a block lies: byte and nibble of the quants, byte and *)
(* bit pair (or bit) of the high bits, number of the scale.                *)
Halves(e) == [q |-> <<e % 16, e \div 16>>, h |-> <<e>>, s |-> 0]
Whole(e) == [q |-> <<e, 0>>, h |-> <<>>, s |-> 0]
CpuPlace(q, e) ==
  CASE q \in {"Q4_0", "Q4_1", "Q5_0"} -> Halves(e)
    [] q \in {"F32", "F16", "BF16", "Q8_0", "Q8_1"} -> Whole(e)
    [] q = "Q4_K" -> [q |-> <<(e \div 32) * 16 + (e % 16), (e % 32) \div 16>>, h |-> <<>>,
                      s |-> e \div 32]
    [] q = "Q6_K" -> [q |-> <<(e \div 16) * 8 + (e % 8), (e % 16) \div 8>>,
                      h |-> <<(e \div 16) * 4 + (e % 4), (e % 16) \div 4>>, s |-> e \div 16]
CudaPlace_Fault(q, e) ==  (* the two nibbles of a byte taken in turn *)
  CASE q \in {"Q4_0", "Q4_1", "Q5_0", "Q5_1"} -> [Halves(e) EXCEPT !.q = <<e \div 2, e % 2>>]
    [] OTHER -> Whole(e)
CudaPlace(q, e) ==
  CASE q \in {"Q4_0", "Q4_1", "Q5_0", "Q5_1"} -> Halves(e)
    [] q \in {"F32", "F16", "BF16", "Q8_0", "Q8_1"} -> Whole(e)
    [] q \in {"Q4_K", "Q5_K"} ->
         [q |-> <<(e \div 64) * 32 + (e % 32), (e \div 32) % 2>>,
          h |-> IF q = "Q5_K" THEN <<e % 32, e \div 32>> ELSE <<>>, s |-> e \div 32]
    [] q = "Q6_K" ->
         [q |-> <<(e \div 128) * 64 + (e % 64), (e \div 64) % 2>>,
          h |-> <<(e \div 128) * 32 + (e % 32), (e \div 32) % 4>>, s |-> e \div 16]
(* The 6-bit scales 4..7 of Q4_K: low nibble of c, top two bits of a.      *)
CpuScale(a, c) == (c % 16) + (a \div 64) * 16
CudaScale(a, c) == (c % 16) + (((a \div 4) \div 16) % 4) * 16

CpuTypes == {"F32", "F16", "BF16", "Q4_0", "Q4_1", "Q5_0", "Q8_0", "Q8_1", "Q4_K", "Q6_K"}
CudaTypes == CpuTypes \cup {"Q5_1", "Q5_K"}

(* load_tensor: what the tensor's weights are afterwards.  A type read as  *)
(* F32 takes four bytes a weight, which are those of its neighbours, and   *)
(* too few at the end of the file.                                         *)
Short(f, i) == DataOffset(f) + WrittenOffset(f, i) + SizeBytes(f.tensors[i].q, f.tensors[i].n)
                 > FileEnd(f)
(* What the CUDA decoder makes of weights of type q: it counts whole       *)
(* blocks, where the catalogue counts a last one that is not full.         *)
Partial(q, n) == n % QuantSpecs[q][1] # 0
DecodedCuda(q, n) == IF n = 0 \/ (q \in CudaTypes /\ ~Partial(q, n)) THEN "exact" ELSE "raises"
Dequantized(f, i, cuda) ==
  LET t == f.tensors[i]
      q == ReadAs(t.q)
  IN  IF t.n = 0 THEN "exact"
      ELSE IF cuda /\ (DecodedCuda(q, t.n) = "raises" \/ Short(f, i)) THEN "zeros"
      ELSE IF ~cuda /\ q \notin CpuTypes THEN "zeros"
      ELSE IF ~cuda /\ (Partial(q, t.n) \/ Short(f, i)) THEN "raises"
      ELSE IF q # t.q THEN "foreign"
      ELSE IF \E e \in 0..(QuantSpecs[q][1] - 1) :
                ~cuda /\ CpuPlace(q, e) # CudaPlace(q, e) THEN "permuted"
      ELSE "exact"
(* dequantize through the hook: the library's own decoder when CUDA fails. *)
HookedDequantize(t, original) ==
  IF DecodedCuda(t.q, t.n) = "raises" THEN original ELSE "exact"

-----------------------------------------------------------------------------
(* Files.  A path is a file with a suffix or a directory with some files.  *)
DetectFormat(p) ==
  IF p.kind = "file" THEN
    CASE p.suffix \in {"gguf", "safetensors", "phantom"} -> p.suffix
      [] p.suffix = "bin" -> "huggingface"
      [] OTHER -> "unknown"
  ELSE IF {"manifest", "weights"} \subseteq p.has THEN "phantom"
  ELSE IF "config" \in p.has THEN "huggingface"
  ELSE IF "gguf" \in p.has THEN "gguf"
  ELSE IF "safetensors" \in p.has THEN "safetensors"
  ELSE "unknown"
(* The files whose tensors stream_layers yields: a directory's first one.  *)
StreamLayers(p) == IF DetectFormat(p) \in {"gguf", "safetensors"} THEN {1} ELSE {}
LoadModelMeta(p) ==
  CASE DetectFormat(p) \in {"gguf", "safetensors"} -> [raised |-> FALSE, files |-> {1}]
    [] DetectFormat(p) = "huggingface" -> [raised |-> FALSE, files |-> {}]
    [] OTHER -> [raised |-> TRUE]

-----------------------------------------------------------------------------
(* Architectures.  A configuration has some of the keys, those of GPT-2    *)
(* among them; tags are the family names its model_type contains, gguf the *)
(* name a GGUF gives the architecture.                                     *)
Shape(c) ==
  LET width == Optional(c, "hidden_size", Optional(c, "n_embd", 4096))
      heads == Optional(c, "num_attention_heads", Optional(c, "n_head", 32))
  IN  [layers |-> Optional(c, "num_hidden_layers", Optional(c, "n_layer", 32)),
       width |-> width, heads |-> heads,
       kv |-> Optional(c, "num_key_value_heads", heads),
       ffn |-> Optional(c, "intermediate_size", 4 * width),
       vocab |-> Optional(c, "vocab_size", 32000)]
HfSpec(c) ==
  LET Is(name) == name \in c.tags
      lora == {"kv_lora_rank", "q_lora_rank"} \cap DOMAIN c # {}
  IN  [shape |-> Shape(c),
       family |-> IF Is("deepseek") THEN "deepseek" ELSE IF Is("mixtral") THEN "mistral"
                  ELSE IF Is("mistral") THEN "mistral" ELSE IF Is("qwen") THEN "qwen"
                  ELSE IF Is("phi") THEN "phi" ELSE IF Is("gemma") THEN "gemma"
                  ELSE IF Is("falcon") THEN "falcon" ELSE "llama",
       moe |-> IF Is("deepseek") THEN "n_routed_experts" \in DOMAIN c
               ELSE Is("mixtral") \/ Is("qwen2_moe"),
       mla |-> Is("deepseek") /\ lora]
(* llama.cpp's converter writes the keys of a configuration under names of *)
(* its own, and _build_arch_spec reads those, with defaults of its own.    *)
Names ==
  [block_count |-> <<"num_hidden_layers", "n_layer">>,
   embedding_length |-> <<"hidden_size", "n_embd">>,
   head_count |-> <<"num_attention_heads", "n_head">>,
   head_count_kv |-> <<"num_key_value_heads", "num_key_value_heads">>,
   feed_forward_length |-> <<"intermediate_size", "intermediate_size">>,
   vocab_size |-> <<"vocab_size", "vocab_size">>,
   expert_count |-> <<"experts", "n_routed_experts">>,
   q_lora_rank |-> <<"q_lora_rank", "q_lora_rank">>,
   kv_lora_rank |-> <<"kv_lora_rank", "kv_lora_rank">>,
   architecture |-> <<"gguf", "gguf">>]
Converted(c) ==
  [g \in {n \in DOMAIN Names : Names[n][1] \in DOMAIN c \/ Names[n][2] \in DOMAIN c} |->
     IF Names[g][1] \in DOMAIN c THEN c[Names[g][1]] ELSE c[Names[g][2]]]
GgufSpec(m) ==
  LET width == Optional(m, "embedding_length", 4096)
      heads == Optional(m, "head_count", 32)
      family == Optional(m, "architecture", "llama")
  IN  [family |-> family,
       shape |-> [layers |-> Optional(m, "block_count", Optional(m, "layer_count", 32)),
                  width |-> width, heads |-> heads,
                  kv |-> Optional(m, "head_count_kv", heads),
                  ffn |-> Optional(m, "feed_forward_length", width * 4),
                  vocab |-> Optional(m, "vocab_size", Optional(m, "tokenizer", 32000))],
       moe |-> Optional(m, "expert_count", 0) > 0,
       mla |-> "q_lora_rank" \in DOMAIN m \/ "kv_lora_rank" \in DOMAIN m
                 \/ family = "deepseek"]

(* Rows and columns of a layer's weights; a bias or norm has one column.   *)
LlamaShapes(s, hd) ==
  <<<<s.heads * hd, s.width>>, <<s.kv * hd, s.width>>, <<s.kv * hd, s.width>>,
    <<s.width, s.heads * hd>>, <<s.ffn, s.width>>, <<s.ffn, s.width>>, <<s.width, s.ffn>>,
    <<s.width, 1>>, <<s.width, 1>>>>
QwenShapes(s, hd) ==
  LlamaShapes(s, hd) \o <<<<s.heads * hd, 1>>, <<s.kv * hd, 1>>, <<s.kv * hd, 1>>>>
MixtralShapes(s, hd, experts) ==
  SubSeq(LlamaShapes(s, hd), 1, 4) \o <<<<experts, s.width>>, <<s.width, 1>>, <<s.width, 1>>>>
    \o [e \in 1..(3 * experts) |-> IF e % 3 = 2 THEN <<s.width, s.ffn>>
                                                ELSE <<s.ffn, s.width>>]
LayerSizeBytes(shapes) == 2 * Total(Mapped(shapes, LAMBDA r : r[1] * r[2]))
(* The closed forms the builders store.                                    *)
Attention(s, hd) == (s.heads + 2 * s.kv) * hd * s.width + s.width * s.heads * hd
LlamaLayer(s, hd) == 2 * (Attention(s, hd) + 3 * s.ffn * s.width + 2 * s.width)
QwenLayer(s, hd) == LlamaLayer(s, hd) + 2 * (s.heads + 2 * s.kv) * hd
MixtralLayer(s, hd, experts) ==
  2 * (Attention(s, hd) + experts * 3 * s.ffn * s.width + experts * s.width + 2 * s.width)

(* detect_architecture (auto_detect.py) of a path, whose config.json is c, *)
(* and of a config_override o.  For a .gguf it imports a function the      *)
(* loader package does not have.  The total is the embedding's bytes and   *)
(* those of a layer for each of them.                                      *)
NoKeys == [k \in {} |-> 0]
Updated(c, o) == [k \in DOMAIN c \cup DOMAIN o |-> IF k \in DOMAIN o THEN o[k] ELSE c[k]]
Configured(p, c, o) == Updated(IF p.kind = "dir" /\ "config" \in p.has THEN c ELSE NoKeys, o)
Missing(p) == p.kind = "file" /\ p.suffix = "gguf"
DetectArchitecture(p, c, o) ==
  LET e == Configured(p, c, o)
      s == Shape(e)
      hd == s.width \div s.heads
      type == Optional(e, "type", "llama")
      experts == Optional(e, "experts", 0)
      layer == IF experts > 1 /\ type = "mixtral" THEN MixtralLayer(s, hd, experts)
               ELSE IF type \in {"qwen2", "qwen"} THEN QwenLayer(s, hd)
               ELSE LlamaLayer(s, hd)
  IN  IF Missing(p) \/ DOMAIN e = {} THEN [raised |-> TRUE]
      ELSE [raised |-> FALSE, shape |-> s, moe |-> experts > 1, gqa |-> s.kv < s.heads,
            layer |-> layer, embedding |-> 2 * s.vocab * s.width]

-----------------------------------------------------------------------------
(* Each decoder takes every weight of a block from a place of its own, and *)
(* both read the packed scales alike.                                      *)
Layouts ==
  /\ \A q \in CudaTypes :
       LET weights == 0..(QuantSpecs[q][1] - 1)
       IN  /\ Cardinality({CudaPlace(q, e).q : e \in weights}) = Cardinality(weights)
           /\ q \in CpuTypes
                => Cardinality({CpuPlace(q, e).q : e \in weights}) = Cardinality(weights)
  /\ \A a, c \in {0, 15, 16, 63, 64, 127, 128, 191, 192, 240, 255} :
       CpuScale(a, c) = CudaScale(a, c)

(* gguf_loader.py.  Of a file that a writer has written, every tensor of a *)
(* type with a size is cut out where the writer put it and as long as the  *)
(* writer made it; and its weights are taken from their places, by the CPU *)
(* decoder as by the CUDA one.  The exceptions: a type without a size; a   *)
(* last block that is not full, which raises on the CPU and gives zeros    *)
(* with CUDA; Q4_K and Q6_K on the CPU, taken in another order than with   *)
(* CUDA; and Q5_1 and Q5_K on the CPU, which come out as zeros although    *)
(* the docstring of dequantize_tensor (:338) lists them as supported.      *)
(* Through the hook the library's decoder takes what CUDA cannot, and that *)
(* alone.                                                                  *)
TensorFaithful(f, i, cuda) ==
  LET t == f.tensors[i]
      r == Dequantized(f, i, cuda)
      sized == t.q \in DOMAIN QuantSpecs
      cuts == t.n > 0 /\ Partial(t.q, t.n)
  IN  /\ sized => /\ DataOffset(f) = DataStart(f) /\ ~Short(f, i)
                  /\ SizeBytes(t.q, t.n) = StoredBytes(t.q, t.n)
      /\ \/ r = "exact" \/ ~sized
         \/ cuts /\ r = IF cuda \/ t.q \notin CpuTypes THEN "zeros" ELSE "raises"
         \/ ~cuda /\ t.q \in {"Q4_K", "Q6_K"} /\ r = "permuted"
         \/ ~cuda /\ t.q \in {"Q5_1", "Q5_K"} /\ r = "zeros"
      /\ HookedDequantize(t, "library") = "library" <=> t.n > 0 /\ (~sized \/ cuts)
LoaderFaithful(f, cuda) ==
  /\ \A i \in DOMAIN f.tensors : TensorFaithful(f, i, cuda)
  /\ Layouts

(* loader/__init__.py.  A model is read whole or an error is raised,       *)
(* except that a Hugging Face directory yields no tensor at all, a .phantom *)
(* one neither, and of a model in several files only one is read.          *)
StreamsWholeModel(p) ==
  /\ \/ StreamLayers(p) = 1..p.files
     \/ DetectFormat(p) \in {"huggingface", "phantom", "unknown"}
     \/ p.files > 1
  /\ ~LoadModelMeta(p).raised => LoadModelMeta(p).files = StreamLayers(p)

(* How many experts the model has: deepseek says it under a key of its own.*)
ExpertCount(c) == Optional(c, "experts", Optional(c, "n_routed_experts", 0))

(* auto_detect.py.  The sizes the builders store are                       *)
(* those of their weights, in the configuration that the override leaves:  *)
(* a layer is sized right unless it has experts and is not called mixtral, *)
(* or heads of another width than the quotient.  From its path alone no    *)
(* model is sized whose tensors can be streamed.                           *)
ArchitectureSized(p, c, o) ==
  LET d == DetectArchitecture(p, c, o)
      e == Configured(p, c, o)
      s == Shape(e)
      hd == s.width \div s.heads
      true == Optional(e, "head_dim", hd)
      experts == ExpertCount(e)
      type == Optional(e, "type", "llama")
      weights == IF experts > 1 THEN MixtralShapes(s, true, experts)
                 ELSE IF type \in {"qwen2", "qwen"} THEN QwenShapes(s, true)
                 ELSE LlamaShapes(s, true)
  IN  /\ ~d.raised => \/ d.layer = LayerSizeBytes(weights)
                      \/ d.layer < LayerSizeBytes(weights)
                           /\ experts > 1 /\ type # "mixtral"
                      \/ true # hd
      /\ DOMAIN o = {} => d.raised \/ StreamLayers(p) = {}

(* format_detect.py, gguf_loader.py.  A model's config.json and the GGUF   *)
(* made of it say the same of its layers, widths, heads and vocabulary,    *)
(* whichever keys are left out; they differ on experts only for a family   *)
(* whose experts format_detect.py does not look for, or a configuration    *)
(* that does not count them, and on latent attention only where a deepseek *)
(* has no ranks or another family has them.                                *)
TwoDescriptionsAgree(c) ==
  LET hf == HfSpec(c)
      gg == GgufSpec(Converted(c))
  IN  /\ hf.shape = gg.shape
      /\ hf.moe # gg.moe
           => c.tags \cap {"mixtral", "qwen2_moe", "deepseek"} = {} \/ ExpertCount(c) = 0
      /\ hf.mla # gg.mla
           => \/ "deepseek" \in c.tags /\ ~hf.mla
              \/ "deepseek" \notin c.tags
=============================================================================
