# PHANTOM: a TLA+ verification project

PHANTOM runs language models that do not fit into VRAM.  A Rust core
(`src/core/`) keeps layers in three tiers (VRAM, RAM, an NVMe swap file) and
schedules requests; a Python package (`src/python/phantom/`) holds the API
server, plugins, the model library, loaders and converter, calibration, a
tile-paging engine, the command line and the terminal user interface;
`src/kernels/` holds CUDA code the core does not call yet.  This directory models
the parts of it in which order, failure, concurrency or a boundary decide whether
the program is correct.  Every definition is translated from the source named for
it in `PROJECT.json` ("map"), and every property from what the callers of that
code rely on.

    tlc -workers 2 -config <run>.cfg <module>.tla       # one run
    tlapm <Component>Proofs.tla                         # the proofs

## 1. Inventory

| component | state it keeps | operations | what is hard | module |
|---|---|---|---|---|
| NVMe page manager `core/src/memory/phantom_pages.rs` | swap file, `next_offset`, page table, two state files | evict, load, has/get, save, open | tasks interleave at every await; loads share one file position; failing I/O after a reservation; crash during or between saves; capacity | PhantomPages |
| VRAM manager `memory/vram_manager.rs` | table of allocations, ledger of bytes | register, unregister, pin, suggest, can_allocate | check-then-act over several calls; the ledger over a long run | VramManager |
| CPU offload `memory/cpu_offload.rs` | layers in RAM, ledger | store, load, remove, suggest | two mutexes taken in two orders; unsigned ledger | CpuOffload |
| LRU map `memory/lru_map.rs` | access records, tiers, a state file | record, update_tier, placement, report, save, load | a clock read ahead of the mutex; stamps of former sessions; arithmetic that wraps or panics | LruMap |
| Chronos scheduler `scheduler/mod.rs` | FIFO queue, slots, active model | enqueue, tick, finish_prefill, finish_slot, switch | calls race; requests given up; starvation | ChronosScheduler |
| Engine, IPC server, sampler `engine/`, `ipc/`, `sampler/` | own the above; a socket; logits | skeletons in this revision | protocol of the socket | (section 7) |
| API server and IPC client `api/openai_compat.py` | one connection, a lock, a semaphore | requests, streams, metrics | coroutines on one connection; time-outs; a core that restarts | IpcClient |
| Gateway `api/gateway.py`, `ollama_compat.py`, endpoints of `openai_compat.py` | token buckets, `queue_depth`, `active_sessions`, semaphore | admit, answer, stream, socket, release | three counters on different paths; clients that leave or stall; a clock set back | Gateway |
| WebSocket stream `api/websocket_stream.py` | bounded queue, cancel flag | generate, drain | back-pressure against disconnects, send errors, time-outs | TokenStream |
| Plugins `plugins/` | tool tables, prefix cache, contexts | register, pre_prompt, post_response | several generations and registrations between one another; late binding | Plugins |
| Byte counter `instrumentation/byte_counter.py` | cumulative counters, one open record, history | start, record, end, reset, report | calls of several threads in any order | ByteCounter |
| Tile paging `instrumentation/nvme_pipeline.py` | two buffers, futures, a swap file | write, prefetch, await, close | a pool of readers against one consumer; shared file position | TilePaging |
| Model library `registry/model_manager.py`, `downloader.py` | GGUF and `.part` in downloads, model directory | pull, resume, rm | interruption anywhere, resumed pieces, two processes without a lock | ModelLibrary |
| Converter `converter/` | layer files, manifest, sentinel | convert, skip when complete | a rebuild under an old manifest; torn files | ModelLibrary |
| Model loaders `loader/`, `model_profiles/auto_detect.py` | none | catalogue, dequantize, stream, detect | block sizes rounded two ways; two decoders of one format | ModelFormats |
| Hardware profiles `model_profiles/hardware_*.py` | none | detect, recommend, simulate | probes that disagree; split of layers at exact sizes | Hardware |
| Calibration `calibrate.py`, `calibration/` | five artifacts and a profile | run, step by step | handlers that replace two files; shared output directory | Calibration |
| CLI `phantom_cli.py` | model directories, downloads | pull, create, rm, run, menu, REPL | names resolved twice by different rules; an engine that breaks off | CommandLine |
| TUI session `phantom_tui.py` | conversation, turns, undo/redo, session files, model | chat, shell, undo, redo, compact, sessions, install | an install thread adds turns at any time; kills; stacks of snapshots | TuiSession |
| TUI input `phantom_tui.py` | composer, history, menu, dialogs, leader | keys | the same text read in three places; selections that outlive their list | TuiInput |
| Phantomfile, look-ups, networks, kernels, fingerprint, scripts | see section 7 | | pure or numeric | |

How they interact: the engine would call scheduler, VRAM manager, CPU offload,
LRU map and page manager by shared references (each method under its own
mutexes, or, for the page manager, async); the map and the page manager share a
file name.  The API server talks to the core by length-prefixed frames on a
socket, and to its clients by HTTP or WebSockets through the gateway's
middleware; one asyncio loop runs all of it.  TUI, CLI and API each call the
library, which meets other processes only in the file system, as do calibration
and the loaders; the TUI's installer shares the session object with its key
thread without a lock.

What makes each component correct is stated by the properties of section 3; the
hazards they answer, each at its line, are listed in `PROJECT.json`, "hazards".

## 2. Modules, and how they correspond to the code

### Memory of the core

**PhantomPages** (abstract: **PageStore**).  A worker is a tokio task; a step is
what it does between two awaits, so `evict_layer` is `Reserve`, `WriteFrame` or
`WriteFails`, `Register`, and `load_layer` is `LoadSeek`, `LoadRead` or
`LoadFails`, `Return`.  The mutex of the read handle is held over seek and read.
`SaveBegin`/`SaveEnd` bracket a save, so a crash in between leaves a torn state
file.  `Restart` is a crash anywhere and the next `new`: the persisted table
comes back if it parses, `next_offset` starts at 0.  A frame stands for a tensor
and its LZ4 block; the disk is the set of frames that lie intact in it.
PageStore says what callers rely on: a write-once store whose tickets read back
exactly what they were issued for, in the session that issued them.

**VramManager**.  Every method is one step (it holds its mutexes throughout).
The loaders that call `can_allocate`, `suggest_evictions`, `unregister_layer`
and `register_layer` in turn are external, as are the clients that pin; they are
the callers the interface is made for.  A loader may load a layer that is
resident, and evicts what was suggested in any order.  `replaced` is a history
variable.

**CpuOffload**.  A step is what a call does between two lock operations:
`StoreBegin` takes `used_bytes`, `StoreEnd` needs `layers` too; `RemoveBegin`
takes `layers`, `RemoveEnd` needs `used_bytes`.

**LruMap**.  `record_access` is two steps, `Stamp` (the clock) and `Access`
(under the mutex), since the clock is read first; an access with a stamp behind
the record panics and poisons the map in a build that checks arithmetic and wraps
in one that does not.  Saving in place is `SaveBegin`/`SaveEnd`; `PagesSave` is
the page manager writing its table under the same name; `Restart` loads what is
there.  `taken` counts the accesses of all sessions; `lost` names what a restart
has lost some of them for (a session that did not save them, a save cut short or
failed, the page manager's save over the file, a panic), `risk` what the next one
would.  Slots are numbers below `Width` (2^32 in the code): where their sum does
not fit, `get_initial_placement` panics under the mutex or wraps (`PlacePanics`,
`ColdFrom`).  Frequencies are hundredths of an access per second, rounded down.

### The way of a request

**ChronosScheduler** (abstract: **JobService**).  Each method is one step.
`Complete` and `Cancel` are the executor and a caller that gives up, both by
`finish_slot`.  JobService is a line, a set of running jobs and a set of done
ones; the refinement maps queue, slots and a history of finished requests.

**IpcClient**.  A task is one API request: at once, streamed, or a metrics read
(no semaphore).  Steps lie between awaits: the connection test, connect, the
lock, write, read, wait.  The core answers the requests of a connection in
order, may be slow, stall or crash; clients may leave a stream.  It is external
and modelled as the client expects it; the Rust server of this revision is
discussed in section 6.

**Gateway**.  A request is a completion, a stream, a socket or any other page.
`Arrive` is the middleware up to `call_next` (bucket, queue bound); `Release` its
way back; `Plain`, `Begin`, `Iterate`, `Accept`, `Prompt` the endpoints up to the
semaphore, `Acquire` the semaphore (first come, first served, as asyncio's).
`Finish` is the end of the `async with`, well or by an exception: the permit is
free and the request still counted while it sends its last chunks; `Close` is the
`finally` after them.  A client may stop reading or go on either side of that
point (`Stall`, `Leave`), and the event loop closes what was left (`Finalize`).
The clock may be set back (`Tick`).

**TokenStream**.  `run_generation` (Generate) and `stream_to_websocket` (Drain)
under one gather, over a bounded queue.

**Plugins**.  A passage of one request through `pre_prompt` or `post_response` is
a step, since no built-in plugin suspends there; registrations and other
generations come between.  Handlers are what they call, so that the late-bound
lambdas of a server are all the tool registered last.  A server may offer a tool
without a name, which a prompt lists as "unknown" and nothing registers.

**ByteCounter**.  Every method holds one lock and is one step.

### Weights on disk

**TilePaging**.  The consumer submits, awaits, writes and closes; a pool of two
threads reads.  Platforms with `os.pread` read in one step, the others seek and
read under `_lock`, which the consumer's `await_tile` takes too (`Swap`, `Raise`)
and its `write_tile` does not.

**ModelLibrary**.  Library and converter of one model, by two processes.  Files
are sets with at most one content; open, each chunk, the rename, each layer's
truncation and filling, manifest and sentinel are steps; `Stop` is an
interruption anywhere, `RmCut` a removal cut short.  A process's open file
survives the removal or replacement of its name, as in the file system.

**ModelFormats**.  Operators only.  The catalogue of a GGUF (header walk, data
start, sizes from the loader's table `QuantSpecs`) against what a writer lays down,
whose sizes come from the make-up of a block (`Layout`: weights, bytes of scales,
bits of a weight) and not from that table; the writer also puts the offsets of the
tensors into the file, which the loader only copies.  For each block type and each
weight, which nibble, high bit and scale the NumPy and the CUDA decoder take
(`CpuPlace`, `CudaPlace`, `CpuScale`, `CudaScale`), identified by place and never
by value; what a tensor with a partial last block becomes; which files of a model
are read; shapes and layer sizes derived from a configuration and the caller's
override against the count of its weights; and the description of a model by its
config.json (`HfSpec`) against that by a GGUF (`GgufSpec`), whose keys a converter
has written under names of its own (`Names`, `Converted`, external).

### The desk

**TuiSession**.  The key thread reads keys only between commands, so a command
is one step except for chat turns and shell commands, during which the installer
may end; the installer's `running = False` and its notice are two steps.
Sessions are saved at the end of a chat turn, when switching session or model,
and on the way out; a kill may leave a torn file, and so may a write that fails,
which `_save_session` passes over: the key thread goes on, also to another session
(`SavesAs`).  `/load` puts the messages of a file for the conversation, without a
snapshot; of the files there may be, those that `/save` wrote from an earlier
point of this conversation are followed, and one of none of its messages.

**TuiInput**.  One step per key: typing, erasing, moving, editing, history, Tab,
Enter in the composer, menu, palette, file picker and forms, Ctrl-C, the leader
key.  A text is a sequence of characters of a small alphabet, since what the menu
shows and what Enter runs depend on it; the table of commands has names that are
near one another, an alias, and one command of each kind of effect.

**CommandLine**.  A model reference is a size and the form it is written in; a
directory is named in the same way.  `Resolve`, `Installs` and `Pull` are the
library's rules of naming, `Candidates` and `Find` those of `run`, which differ.
A pull that meets an install of the same file (`Reused`) returns before the
download, whether the GGUF is there or not.
`run` is a sequence of steps (ask Ollama, print its tokens, fall back, find and
load weights, print, raise), the menu and its REPL another; pulls, removals,
personas and deletions of a GGUF come between.

**Calibration**.  A run is a runner that opens, fills and leaves five artifacts
in three steps, with the handler of each step writing placeholders, and then the
profile.  Two models of one stem and two runners may share the directory.
A step D that fails enables the gates of all layers, by its own default.

**Hardware**.  Operators only.  `DetectHardware` on a machine described by which
probes answer and with what; `Simulate` on a model, a machine, a width and a
context, which for a model without weights (a reference "0b" or "8x0b", or no
bits) raises ZeroDivisionError, and is `Place` otherwise.  Disks are compared and
reported by their free space after rounding to a tenth of a GB.  Sizes are in
fifths of a megabyte, so that the source's constants are whole numbers.

### Compositions

Parts that share no state in this code are checked in one run by an MC module
whose behaviours each exercise one of them (the variable `part` or `which` picks
it), so that state spaces add up instead of multiplying: **MCServing**
(TokenStream, Gateway), **MCRequests** (ChronosScheduler, IpcClient, Plugins,
ByteCounter), **MCMemory** (VramManager, CpuOffload, LruMap), **MCWeights**
(ModelLibrary, TilePaging, ModelFormats), **MCDesk** (TuiSession, TuiInput,
CommandLine, Calibration, Hardware).  Where parts do interact, the other side is
in the module itself: the installer in TuiSession, the page manager's save in
LruMap, the core in IpcClient, the converter in ModelLibrary.  Purely
computational modules enter as inputs chosen in the initial state.

Operators whose name ends in `_Fault` are plausible bugs of the definition that
follows them; each property is broken by one of them (`PROJECT.json`, "mutants"),
which shows that it can fail.

## 3. Runs and bounds

Passing runs:

| run | bounds | what it shows |
|---|---|---|
| `pages` | 2 workers, 2 layers, a small and a large frame, 2 capacities | handles issued in this session read back what was evicted under them (`HandlesReadBack`), ranges never overlap and stay in the file (`NoSharedBytes`), a layer evicted now is never found through an old handle (`TableIsFresh`), concurrent loads get their own bytes, and the manager implements PageStore |
| `serving` | queue of 2, up to 4 tokens, all faults; 3 requests of 4 kinds by 2 clients, capacity and rate 1, queue bound 1, 1 permit, clock 0-1 | tokens arrive once and in order, the end marker last (`TokensArrive`); a session ends unless its sender has left a producer waiting on the full queue (`StreamsEnd`); the three counters say how many requests are where (`CountersExact`), a bucket admits no more than capacity and refills (`AdmissionBound`), and who has asked for a generation gets it unless a client that does not read keeps the permit (`GenerationsStart`) |
| `requests` | 3 requests for 2 slots and 2 models; a stream, a generation and a metrics read, 1 permit, 3 connections, slow, stall, leave, crash; 1 tool name besides the tool without one, 1 server, 3 prefixes for a cache of 2, 2 chats, 4 steps (fill the cache, use the older again, and the next goes by use and not by entry); 4 bytes of 2 kinds in 3 tokens | requests start in order of arrival, JobService is implemented and everyone is served; a request alone on its connection gets its answer (`AnswersMatch`), requests mix and fail only for a cause named (`FailuresHaveACause`), every request ends; a listed tool can be called, "unknown" apart, and the cache keeps what was used last, every byte is in its token's record (`MiddlewareSound`) |
| `memory` | 2 loaders, 3 layers of 1-2 in 3 usable; 2 threads, 2 layers of 1-2 in 3 bytes; 2 threads, 2 layers, moments 0, 20, 1500 ms, 2 calls, 2 restarts, slots below 4, with and without the history of a former session, both builds | the VRAM ledger drifts by exactly what `register_layer` replaced and overcommit is bounded by what other loaders were after (`VramAccounted`), only registrations starve a load (`LoadsEnd`); the RAM ledger is exact and within budget, threads block each other only in the inverted lock order; counts are those of all sessions up to four named losses, placements follow them, also where the slots' sum wraps, and a frequency falls by no more than its decay (`HistoryKept`) |
| `weights` | 2 processes, 2 chunks, 2 layers, 2 faults; 2 layers, pool of 2, 3 reads, both platforms; GGUFs of 3 tensors of every type with whole and partial blocks, 2 alignments, with and without keys; a type the loader does not know, every directory layout; 5 families with 6 sets of keys and 4 that leave keys out, no override, one of a number, one of the family | which files are intact after which interruptions (`FilesWhole`), that asking again installs the model except in three stuck states it names (`RetriesInstall`); a tile prefetched alone stays intact in its view, the file is intact unless a write shares the position with a read, awaits return; tensors are cut out exactly and decoded alike, models are streamed whole and layers sized right, except for what is named (`ModelsReadRight`) |
| `desk` | sessions: 2 exchanges, 2 sessions, 2 models, an install, an edit (/compact, /system, /load, a switch), a restart, a save that fails, of these 2 in one behaviour and no edit beside a restart or a failed save; 7 keys, texts of 3 characters; 2 sizes, 2 quantizations, 2 tokens, 3 commands; 2 runners, 2 models of one stem, 2 runs, 1 fault; 1440 machines with 5 layouts of disks, 55 model references on 6 presets | nothing a session was told is lost but for the five causes `NothingForgotten` names, undo takes back one exchange unless the conversation was rewritten without a snapshot, threads disturb each other in one place and the shown model answers (`ScreenHonest`); Enter does what the screen points at; a reference finds what its pull installed, another size answers only when the asked one is not there, an answer is printed twice only after Ollama broke off (`CommandsHonest`); a whole profile of the last run names whole files of its own run and, unless its step D failed, exactly the gates that have weights (`CalibrationSound`); profiles and splits of layers are consistent (`MachineProfiled`) |

Runs that expect a violation, one for each finding of section 6: `pages_restart`,
`ipc_leftover`, `tiles_ahead`, `tools`, `persona`, `picker`.

Why the bounds are enough.  The conflicts in this code are between two actors
and over one object at a time: two evictions, a load and an eviction, a store and
a remove, a request and the one before it, a reader and the consumer, two
processes and one file, a registration and the prompt that listed it.  Two of
everything, with more elements than fit (three requests for two slots, three
prefixes for two places, three reads for two buffers, four tokens for two places,
layers of up to six bytes in all for a budget of three), makes queues, buffers
and budgets fill and be reused.  Counters are capped in the guards; all caps are
CONSTANTS marked "bound" where they are declared (`MaxLedger`, `MaxAccesses`, `MaxReads`,
`MaxConns`, `MaxFaults`, `MaxCalls`, `MaxRestarts`, `MaxSteps`, `MaxOps`,
`MaxKeys`, `MaxText`, `MaxRuns`, `MaxBytes`, `MaxTokens` of ByteCounter,
`MaxClock`, the bounds of TuiSession and `MaxEvents` of MCDesk).  Where the code
is wrong in a known way the history variables (`replaced`, `raced`,
`overlapped`, `lied`, `cut`, `adopted`, `faulted`, `mixed`, `unsteady`, `stale`, `lost`)
say precisely when, so that the rest of the promise is still checked.  Symmetry
is used for layers and workers in `pages`, and in `desk` for models, runners and
paths, the two of each exchanged at once; all properties of these runs are safety or
action formulae.

`CHECK_DEADLOCK FALSE` stands where the system may stop: CpuOffload really
deadlocks, a poisoned map stays poisoned, a wedged stream really waits for ever,
requests and their clients come to an end, a core without requests
is quiet, the user leaves the desk, and the inputs of computational modules have
no next step.  In `weights` the loop `which # "library"` stutters instead.

## 4. Fairness

- TokenStream, Gateway, IpcClient: each coroutine that can go on does (the event
  loop runs every ready task and closes generators that were dropped), the core
  serves each connection, a core that died is started again.  No fairness for
  clients: nothing makes one come, read or leave, and none for disconnects,
  time-outs that are a fault, or failures.
- ChronosScheduler: the engine goes on calling `tick`, and each executor ends its
  prefill and its decoding.  None for arrivals, cancellations, model switches.
- VramManager: each loader goes on with the load it has begun.
- TilePaging: the pool works, and the consumer's blocking call goes on.
- ModelLibrary: a process goes on with what it has begun, and a user whose model
  is not installed asks again; interruptions are bounded by `MaxFaults`.
- PhantomPages, CpuOffload, LruMap, Plugins, ByteCounter and all of the desk:
  safety only, no fairness.

## 5. What is proved

For every value of the constants that satisfies the named assumption of the
module (`PagesAssumption`, `SchedulerAssumption`, `OffloadAssumption`,
`MemoryAssumption`, `TilesAssumption`, `GatewayAssumption`, `StreamAssumption`,
`RequestsAssumption`, `LibrarySized`, `TuiAssumption`, `DeskAssumption`), by
TLAPS.  Each of these says little more than that bounds are naturals, that null
values are not among the values, that there are finitely many loaders and sizes,
and what a table of the source looks like; every run evaluates them.

- **PhantomPagesProofs**: type correctness, `HandlesReadBack`, `NoSharedBytes`,
  `TableIsFresh`, `LoadsReturnOwnFrame` and that it implements PageStore.
  None is inductive alone.  `IInv` adds where things lie: offsets are aligned and
  every range handed out ends at or before `next_offset` (`PlacedInv`), hence
  ranges are pairwise disjoint (`DisjointInv`), hence a write destroys no frame a
  handle of the session names (`DiskInv`); the reader of the shared handle has
  its position where its own handle says (`ReaderInv`); a saved table is not
  mixed with the table of the session (`SavedInv`).  Each action has a lemma; the
  refinement theorem maps every step to a store step or a stutter.  The
  assumption is that frames have positive sizes and capacities are naturals:
  overflow of 64-bit offsets is outside of it.
- **DataProofs**: what the operators of the community modules do to data of any
  size, cited by the two modules below: sums over a function (one element more or
  less, renamed, a part, a bound), `SetToSeqs` sorted by an order, `RemoveAt`,
  `RemoveFirst` and `RemoveFirstMatch`, a prefix moved to the end.  The induction
  theorems of the library take an operator as a parameter, which no installed
  prover instantiates.  These lemmas go by the least counterexample instead: the
  sizes for which a claim fails are a set of naturals, which has a least member if
  it has any (`LeastNatural`), and one step down from it is a contradiction.
- **MemoryProofs** (over MCMemory): `VramAccounted`, `LedgerExact`,
  `StuckOnlyWhenInverted`, `HistoryKept` and `MemoryTypeOK`, from one invariant
  `MInv` with a part for each manager.
  *VRAM*: the ledger's drift is inductive, the bound on overcommit is not.
  `Allowed` adds what was found room for and not registered yet: what is resident
  and what those loaders are after is together no more than fits and than the
  largest layer for each loader but one.  A loader that finds room has it beside
  what is resident, and every other one is after one layer at most; evicting and
  replacing a layer only lower the sum.
  *RAM*: the ledger is the sum of what is staged.  A store that has found room
  keeps it while it holds the mutex of `used_bytes` (`RoomKept`), and the entry a
  call takes off is part of the sum, so that the subtraction does not wrap.  The
  blocking is from who may hold which mutex in which call.
  *hot layers*: each record is as hot as its frequency says, in the map and in the
  file, and no layer of the session's beginning is missing (`LruKept`); while nothing
  is lost every layer's count is that of all sessions, and the file has it too unless
  something is at risk.  The placement is a cut of a sorted list,
  so a layer above the cut is used no less than one below it.  That an access never
  cools a layer from hot to cold is arithmetic on the decayed average.
- **WeightsProofs** (over MCWeights).
  *Tiles*: type correctness, `LoneViewIntact` and `FileIntact` for any number of
  layers and reads, from invariants on read numbers, on who is at the file
  position, on the one read in flight and on the active buffer.
  *Library*: `FilesWhole` and `LibraryTypeOK` for any processes, files and
  interruptions.  The invariant (`LInv`) says, as long as no two processes have
  worked on one file at once, that a temporary file is what its one writer has
  written so far, in which part, from which source (`ConvertInv`), and that a
  partial download is a beginning of the file upstream that its reader goes on
  with (`DownloadInv`); `Alone` says who can be at work then.
  *Readers*: `ModelsReadRight`.  ModelFormats keeps no state, so the work is in
  theorems on its operators for inputs of any size: `LoaderIsFaithful` (any number
  of tensors of any sizes, any metadata, any alignment), `StreamsWhole` (any
  number of files), `Architectures` (any widths, heads, layers and experts, and any
  override) and `DescriptionsAgree` (any configuration that names its family); the
  inputs of the run are then shown to be of that form.  That a tensor is as long for
  the reader as for the writer is a comparison of two tables and two ways to round
  up (`SizesAgree`), type by type; a decoder takes no nibble twice because its place is a number
  in a mixed radix; and a layer of experts weighs more than the dense layer it is
  taken for, provided the number of experts is under the key of its family
  (`Described`: `n_routed_experts` for deepseek, the other one for mixtral).
- **TokenStreamProofs**: `InOrder` and `DoneIsLast`, the two parts of
  `TokensArrive`, for every queue size, every length and every set of faults.  The
  invariant says that, until the sender ends, what was delivered, held, queued and
  is being put are together the numbers of the tokens produced, with the end
  marker once it was put; and that a client which has seen the end marker has all
  of that.  The second part is needed because it must survive the sender's end,
  when the first says nothing.  Every step moves an element from one part of that
  concatenation to the next, so the argument is associativity, and that the end
  marker is no token's number.
- **ServingProofs** (over MCServing): `AdmissionBound` for any clients, rate,
  capacity and clock, also one that is set back; `CountersExact`; `TokensArrive`
  and the types, by instance of the theorems on the stream.  The bound is not
  inductive: the invariant `Spent` adds, for each admission, that what was admitted
  since plus what is left in the bucket is no more than the capacity plus what was
  refilled.  The counters are cardinalities of who is in which phase, so every
  action has to say which request enters or leaves which of these sets; for the
  permits one also needs that the semaphore's line holds exactly those who wait,
  each once.
- **RequestsProofs** (over MCRequests), part by part, and together
  `RequestsTypeOK`:
  *scheduler*: `OnePlace`, `FirstComeFirstServed`, and JobService.  The inductive
  invariant adds that exactly the idle slots hold no request, without which `tick`
  could overwrite one, and the history of arrivals.
  *client*: `AnswersMatch`, `FailuresHaveACause` and `ErrorsAreOwn`, for any sets of
  requests, streams and metrics reads, any length of an answer and any number of
  connections.  The invariant says that a request which has not shared its
  connection is the only one that reads (`Alone`), that what lies on that
  connection is the rest of its answer, in order, while the core is at work on the
  frame after it (`Own`), and that the connection of whoever met no fault of the
  core is open (`Sound`).  `FailuresHaveACause` assumes one permit, the default of
  `PHANTOM_MAX_CONCURRENT` (`openai_compat.py:339`): only then is a connection free
  to be written to silent (`Apart`); with more, two requests mix with no cause of
  their own.
  *plugins and byte counter*: `MiddlewareSound`.  Tables only grow, so what a prompt
  has listed stays (`RouterInv`).  The prefix cache holds as many prefixes as were
  used, up to its limit (`CacheFilled`), and, as long as no two look-ups read one
  time, whichever prefix was used after a cached one is cached too, with a later
  time (`CacheOrdered`): the entry with the least time is then the one used longest
  ago, and what is cached is an end of the list of uses.  Each counter is the sum of
  the moves of its kind, in all, in the tokens and in the token that is open
  (`Ledger`); the average of a token is no more than its largest.
- **DeskProofs** (over MCDesk), an inductive invariant for each part that keeps
  state:
  *session*: `NothingForgotten`, `UndoRollsBackOneExchange`, `ScreenHonest`, with
  /load and saves that fail.  The
  snapshots of undo and redo and the conversation between them are one exchange
  apart (`Chain`), and outside of a shell command no turn waits for its output, on
  the screen, in a snapshot or in a file (`AllFilled`: a snapshot with such a turn
  would bring it back).
  *calibration*: `CalibrationSound`.  A run that began alone and is the last is the
  only one; the files it has behind it are whole, its own, and of one kind within
  a step (`Progress`), and its profile ends it (`Ended`).
  *command line*: `CommandsHonest`, for any order of pulls, reused installs,
  removals and deletions.  No install is in a directory with a ":" in
  its name, and a directory named after a size holds that size (`Installed`), a
  pull leaves what the look-up asks for (`Findable`), and an answer is i tokens of
  Ollama's and then j of the local engine's (`Printed`).
  *composer*: `EnterMeansTheScreen` for any table of commands, any files and any
  editor.  As long as the menu has looked at the text, the highlight is in it and
  its token is what the text says, or the text is a command taken from the menu
  (`Fits`); taking one leaves the menu as it was, and a text that names a command
  exactly is not looked up.  A dialog's selection is in its list (`Points`).
  *hardware*: `MachineProfiled`, from two theorems on the operators.
  `ProfilesHonest` holds for any memory, RAM and disks on at most three anchors
  (only four candidates are scanned and the scan drops what comes fourth, so with
  four the largest may be missing): rounding to a tenth never carries a size over a
  tier's limit downwards, and moves free space by half a tenth at most, so that the
  device named is a tenth short of the largest at worst and 80% of what is said to be
  free is there from a fifth of a GB on (`SwapFits`); the shares of a tier are below
  the whole, and the budgets grow with the tier.  `LayersPlaced` holds for any model,
  width and context (without weights it says that the code raises) and any host whose card has at least 40 GB/s, is no slower than its RAM, and is faster
  than its disk by more than the 35% discount on disk reads, which `PresetsAreHosts`
  shows of all six presets: what moves up a tier then takes no longer, up to the 40
  microseconds that rounding three parts can lose.
  Together the parts give `DeskTypeOK`, whose part of the composer (the cursor is inside
  the text) rests on the arithmetic of the editing keys.

Only model-checked is liveness (`EveryoneIsServed`, `RequestsEnd`, `StreamsEnd`,
`GenerationsStart`, `AwaitsReturn`, `LoadsEnd`, `RetriesInstall`), since ENABLED and
fairness are beyond the prover.

No module uses RECURSIVE.

## 6. What the work found

Six findings are in `PROJECT.json`, each shown by a run:

- `pages_restart`: `PhantomPageManager::new` restores the page table and not the
  space it uses, so that the new session overwrites what the table still names.
- `ipc_leftover`: a stream that ends early leaves its frames on the connection,
  and the next request takes them for its answer.
- `tiles_ahead`: two tiles submitted before the first is awaited, as
  `benchmark_pipeline` does, are read into one buffer.
- `tools`: the handlers of a server's tools are lambdas over the loop variable:
  each of them calls the tool registered last.
- `persona`: `phantom run` of a persona made by `phantom create` finds no weights.
- `picker`: a file picked after `@` is not put into the composer.

Disagreements that need no run to be seen, or that a passing run states as an
exception:

Core
- `cpu_offload.rs:72,91,128,131`: store and remove take two mutexes in opposite
  orders and can block for ever (the exception of `StuckOnlyWhenInverted`).
  Line 184 says "oldest, least accessed first"; the code sorts by access count
  only and never looks at `stored_at`.
- `vram_manager.rs:133` says "Pin a layer so it cannot be evicted.";
  `unregister_layer` does not look at the pin.  `register_layer` of a resident
  layer counts it twice (`LedgerDrift`).
- `phantom_pages.rs:120`: the receiver of the prefetch channel is dropped in
  `new`, so every hint fails.  Space reserved for a write that failed is never
  given back.
- `engine/mod.rs:68` and `phantom_pages.rs:117` give the LRU map and the page table
  one file name: each save destroys the other's.  No caller saves either, or
  records an access.
- `lru_map.rs`: the first access of a layer counts one millisecond and makes it
  hot at once, and nothing cools a layer that is not used again.  A stamp behind
  the record's (a former session, two threads) panics in a debug build and poisons
  the map, after which reads return defaults and saving fails; in a release build
  it wraps.  The tier is kept across sessions although nothing is resident.  "The
  LRU state persists between runs" (:4) holds up to four losses (`HistorySurvives`);
  `vram_slots + ram_slots` (:228) may not fit in its 32 bits.
- `scheduler/mod.rs:130`: `finish_slot` names a slot and no request; a completion
  reported twice would end the next request of that slot.
- `openai_compat.py:145` sends JSON, `ipc/server.rs` decodes MessagePack.

Serving
- `websocket_stream.py`: `cancel()` does not release a producer that waits on the
  full queue; a failed send and a time-out do not call it (`Wedged`).
- Gateway: a stream leaves `queue_depth` when its headers are out, so that the
  bound does not see generations; a client that stops reading keeps its permit
  without a time-out (the exception of `GenerationsStart`); a bucket may go
  negative when the clock is set back.
- Plugins: `cached_tokens` and `ratio` stay in the metadata after a miss, and the
  hit flag after a prompt without a prefix; of prefixes used at one time the first
  in the dictionary goes; `max_cached_prefixes = 0` raises; `min_prefix_tokens` and
  the time to live are not read; only the first tool call of an answer is made; a
  tool that returns None leaves its call in the answer; registering a server again
  keeps handlers it no longer has; a tool of a server without a name is listed as
  "unknown" (line 118) and never registered (95), so that a model which calls what it
  was told of is told there is none.
- Byte counter: what moves between two tokens is only in the cumulative counters,
  so averages per token leave it out.

Weights
- Library: a `.part` left complete is answered 416 for ever; `pull` takes a torn
  manifest for an install; a rebuild interrupted under the old manifest and
  sentinel passes for "True when this exact GGUF has already been fully
  converted here." (`phantom_convert.py:83`).
- Loaders: the docstring of `dequantize_tensor` (`gguf_loader.py:338`) lists Q5_1
  and the Q5_K types as supported, and the CPU path returns zeros for them
  (`TensorFaithful` names it as an exception, and shows that it is the only one of
  whole blocks besides the order of Q4_K and Q6_K); the CPU and CUDA decoders take the weights of Q4_K and Q6_K
  in different orders; an unknown type is read as F32; a partial last block is
  counted (line 183) but not decoded, which raises on the CPU and gives zeros with
  CUDA; a Hugging Face directory streams no tensor; of a model in several files
  one is read.
- `auto_detect.py`: a mixture of experts not called mixtral is sized as if dense,
  `head_dim` is not read, and a GGUF is never sized.
- Calibration: gates are numbered by linears while their default set is numbered
  by layers; "Fallback: disable sparse routing for F1 < 0.70 layers"
  (`calibrate.py:244`) is what training does, but when step D fails all gates are
  enabled and none has weights (:666; `GatesHaveWeights` says nothing of such a
  profile); `--skip` is not read; models of one stem share their artifacts.

Desk
- Hardware: above 72 GB of VRAM the promised phantom ceiling is below the native
  one, and the "sweet spot" is empty for cards above 33 GB or small hosts; an NVML
  that starts and then raises ends detection; only the first disk of an anchor
  counts; of two disks less than a tenth of a GB apart the smaller may be named, and
  with less than 0.2 GB free the swap budget may pass it; the simulation of "0b"
  or "8x0b" divides by zero (`hardware_simulator.py:443`).
- Command line: a number beside an installed model runs a command; `phantom run
  org/repo` never finds what its own pull made; Ollama's first model of the same
  family answers whatever size was asked; a generation that raises leaves the
  streamer waiting (`failed`); `rm` leaves the GGUF; `create` overwrites a
  manifest; a pull without the asked quantization takes another; a pull that reuses
  an install says ready when its GGUF has been deleted, and `run` finds nothing.
- Phantomfile: the documented `PHANTOM_PARAM sparsity_routing 0.60` is refused by
  the validator, which wants on or off; text after the closing quotes of a
  one-line triple quote swallows the directives that follow.
- TUI: a save that fails is passed over (`phantom_tui.py:474`), and switching
  sessions after it drops the conversation; `/load` takes no snapshot, so that the
  next `/undo`, which says that "The last message and its response were rolled
  back.", puts back a conversation from before the load; `turns[-1] = ...` at `phantom_tui.py:2840` may overwrite the installer's
  notice (`ShellTurnsFilled`); picking the current session reverts it to its last
  save although line 2208 says "persist current first"; "(esc to cancel)" at 1103
  cannot happen, since keys are not read while a turn is generated; a session's
  model name is adopted without its weights (`ShownModelAnswers`).
- TUI input: Delete, Ctrl-W, Ctrl-T, Ctrl-U and the history change the text and not
  `slash_token`, so that the menu shows candidates of another text while Enter runs
  a match of its own (the exception of `MenuRunsHighlighted`); Enter on a command
  that needs arguments clears the text it has just put back; a palette command
  with arguments replaces the draft, and so does Up; dialogs take Ctrl-C and
  Ctrl-D; `/a ` with a space runs a prefix match that no menu shows.

## 7. Not modelled

- **Resonance sampler, Neural components, CUDA kernels**: floating point, out of
  TLC's reach.  The parts of `loader/` that do arithmetic on weights likewise.
- **IPC server** and most of the **Engine**: skeletons; the server cannot decode
  what the client sends.  What the engine owns is modelled.
- **Registry look-ups**: HTTP queries with a cached answer.
- **Phantomfile**: a sequential parser and validator without state; CommandLine
  takes a file as accepted or refused.
- **Fingerprint, Scripts and benchmarks**: print and compare numbers.

Within modelled parts: the contents of tensors, messages and tokens are model
values, numbers or places; time is a nondeterministic choice to time out, except
where a clock is read (Gateway, LruMap); statistics, printing and logging are left
out; hints that always fail (prefetch) are left out; texts of several lines in the
composer; the texts plugins put before a prompt; `pin_layer` and other tables
nothing reads.  Each component's note in `PROJECT.json` names what it leaves out.

Three weak points of section 6 have no property of their own:
space never given back and the dropped prefetch receiver (nothing in the code
relies on either), and a completion reported twice (its callers are not in the
repository).

## 8. Plan

The modelling follows the order of importance: page manager, stream, scheduler,
memory ledgers, IPC client, tiles, library with converter, TUI session; then
gateway, LRU map, loaders, hardware profiles, calibration, command line, composer,
plugins and byte counter.  What is left:

1. The core of the API server and the engine, once the engine loads layers and the
   IPC server speaks the client's format: the composition of scheduler, tiers and
   page manager that the skeleton only announces.
2. The Phantomfile parser, if it grows beyond line by line.

The project keeps to a dozen runs so that checking it stays a matter of minutes: a
new module takes the place of a run that has become part of a composition.
