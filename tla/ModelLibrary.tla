----------------------------- MODULE ModelLibrary -----------------------------
(***************************************************************************)
(* python/phantom/registry (ModelManager, ResumableDownloader) and         *)
(* converter (PhantomConverter): one model of the local library.  Processes*)
(* (the CLI, the TUI's install thread, the API) pull it, convert a local   *)
(* GGUF into its directory and remove it; nothing locks the files.  A GGUF *)
(* is a sequence of chunks; the remote one is 1..Chunks.                   *)
(***************************************************************************)
EXTENDS Naturals, Sequences, SequencesExt

CONSTANTS Procs,
          Chunks,    (* of the remote GGUF                                 *)
          Layers,    (* of the model: layers 1..Layers                     *)
          HasSha,    (* values of: does the index know the SHA-256?        *)
          MaxFaults  (* bound: failures, bad responses, removals, overlaps *)

LibraryAssumption ==
  /\ Chunks \in Nat \ {0} /\ Layers \in Nat \ {0} /\ MaxFaults \in Nat
  /\ HasSha \subseteq BOOLEAN

VARIABLES sha,        (* expected_sha256 is given                          *)
          part, gguf, (* the .part file and the GGUF: {} or {chunks}       *)
          dir,        (* the model directory exists                        *)
          weights,    (* its layer files: "none", "torn" or a source       *)
          manifest,   (* "none", "torn", "passthrough" or a source         *)
          sentinel,   (* .phantom-converted exists                         *)
          pc,         (* per process, see Phases                           *)
          fd,         (* per process: the file its download writes to      *)
          have,       (* per process: chunks written, or found in .part    *)
          left,       (* per process: chunks its response still brings     *)
          hash,       (* per process: the chunks its hasher has seen       *)
          conv,       (* per process: [source, skip, next, lost]           *)
          faults,     (* failures so far                                   *)
          lied,       (* history: a response that was not the rest         *)
          overlapped, (* history: two processes were at it together        *)
          cut,        (* history: a removal stopped half way               *)
          rebuilding  (* history: a model is being overwritten, or was and *)
                      (* the conversion has not been finished since        *)

library == <<dir, weights, manifest, sentinel>>
download == <<part, gguf, fd, have, left, hash>>
history == <<lied, overlapped, cut, rebuilding>>
vars == <<sha, library, download, pc, conv, faults, history>>

Full == [i \in 1..Chunks |-> i]
Sources == {"pulled", "spoilt", "local"}
Phases == {"idle", "request", "open", "fetch", "convert", "layer", "fill",
           "manifest", "entries", "sentinel"}
NoConv == [source |-> "pulled", skip |-> FALSE, next |-> 1, lost |-> FALSE]
Nothing == [k \in 1..Layers |-> "none"]

TypeOK ==
  /\ sha \in HasSha
  /\ \A f \in part \cup gguf : f \in Seq(0..Chunks)
  /\ \A f, g \in part : f = g
  /\ \A f, g \in gguf : f = g
  /\ dir \in BOOLEAN /\ weights \in [1..Layers -> Sources \cup {"none", "torn"}]
  /\ manifest \in Sources \cup {"none", "torn", "passthrough"}
  /\ sentinel \in BOOLEAN
  /\ ~ dir => manifest = "none" /\ ~ sentinel /\ weights = Nothing
  /\ pc \in [Procs -> Phases] /\ fd \in [Procs -> {"none", "part", "gguf", "gone"}]
  /\ \A p \in Procs : have[p] \in Nat /\ {left[p], hash[p]} \subseteq Seq(0..Chunks)
  /\ conv \in [Procs -> [source : Sources, skip : BOOLEAN, next : 1..Layers,
                         lost : BOOLEAN]]
  /\ faults \in 0..MaxFaults

Init ==
  /\ sha \in HasSha /\ part = {} /\ gguf = {} /\ dir = FALSE
  /\ weights = Nothing /\ manifest = "none" /\ sentinel = FALSE
  /\ pc = [p \in Procs |-> "idle"] /\ fd = [p \in Procs |-> "none"]
  /\ have = [p \in Procs |-> 0] /\ left = [p \in Procs |-> <<>>]
  /\ hash = [p \in Procs |-> <<>>] /\ conv = [p \in Procs |-> NoConv]
  /\ faults = 0 /\ lied = FALSE /\ overlapped = FALSE /\ cut = FALSE
  /\ rebuilding = FALSE

Busy == {p \in Procs : pc[p] # "idle"}
Fault == faults < MaxFaults /\ faults' = faults + 1

GoTo(p, phase) == pc' = [pc EXCEPT ![p] = phase]
(* A second process at it at the same time counts as a failure: this bound *)
(* is on how often.                                                        *)
Starts == IF Busy = {} THEN UNCHANGED <<faults, overlapped>>
                       ELSE Fault /\ overlapped' = TRUE
Ends(p) == GoTo(p, "idle") /\ conv' = [conv EXCEPT ![p] = NoConv]

(* The response is closed, and the file.                                   *)
Closes(p) == /\ have' = [have EXCEPT ![p] = 0] /\ left' = [left EXCEPT ![p] = <<>>]
             /\ hash' = [hash EXCEPT ![p] = <<>>]

-----------------------------------------------------------------------------
Pull_Fault(p) ==  (* the directory is not made for a GGUF that is there *)
  \E skip \in BOOLEAN :
    /\ pc[p] = "idle" /\ manifest = "none"
    /\ GoTo(p, IF gguf = {} THEN "request" ELSE IF skip THEN "manifest" ELSE "convert")
    /\ conv' = [conv EXCEPT ![p].skip = skip]
    /\ Starts
    /\ UNCHANGED <<sha, library, download, lied, cut, rebuilding>>

(* pull.  A manifest ends it at once, a GGUF in downloads saves the        *)
(* download.                                                               *)
Pull(p) ==
  \E skip \in BOOLEAN :
    /\ pc[p] = "idle" /\ manifest = "none"
    /\ GoTo(p, IF gguf = {} THEN "request" ELSE IF skip THEN "manifest" ELSE "convert")
    /\ conv' = [conv EXCEPT ![p].skip = skip]
    /\ dir' = (dir \/ (skip /\ gguf # {}))
    /\ Starts
    /\ UNCHANGED <<sha, weights, manifest, sentinel, download, lied, cut, rebuilding>>

(* The size of .part decides which range is asked for.                     *)
Content(file) == CHOOSE f \in file : TRUE
Found == IF part = {} THEN 0 ELSE Len(Content(part))
Answer(p, chunks) == /\ left' = [left EXCEPT ![p] = chunks]
                     /\ have' = [have EXCEPT ![p] = Found]
                     /\ GoTo(p, "open")

Request(p) ==
  /\ pc[p] = "request" /\ Found < Chunks
  /\ Answer(p, SubSeq(Full, Found + 1, Chunks))
  /\ UNCHANGED <<sha, library, part, gguf, fd, hash, conv, faults, history>>

(* A server that ignores the range, or whose file has changed meanwhile    *)
(* (chunks of another file are 0): the status 206 is not looked for.       *)
RequestOther(p) ==
  /\ pc[p] = "request" /\ 0 < Found /\ Fault
  /\ \/ Answer(p, Full)
     \/ Found < Chunks /\ Answer(p, [i \in 1..Chunks - Found |-> 0])
  /\ lied' = TRUE
  /\ UNCHANGED <<sha, library, part, gguf, fd, hash, conv, overlapped, cut, rebuilding>>

(* Nothing is left to ask for: the server answers 416, and .part stays.    *)
NotSatisfiable(p) ==
  /\ pc[p] = "request" /\ Found >= Chunks
  /\ Ends(p)
  /\ UNCHANGED <<sha, library, download, faults, history>>

(* Hash what is there and append to it, or start afresh.                   *)
Open(p) ==
  /\ pc[p] = "open" /\ (have[p] > 0 => part # {})
  /\ part' = IF have[p] = 0 THEN {<<>>} ELSE part
  /\ hash' = [hash EXCEPT ![p] = IF have[p] = 0 THEN <<>> ELSE Content(part)]
  /\ fd' = [fd EXCEPT ![p] = "part"] /\ GoTo(p, "fetch")
  /\ UNCHANGED <<sha, library, gguf, have, left, conv, faults, history>>

OpenFails(p) ==
  /\ pc[p] = "open" /\ have[p] > 0 /\ part = {}
  /\ Ends(p) /\ Closes(p)
  /\ UNCHANGED <<sha, library, part, gguf, fd, faults, history>>

(* One chunk of the response, to the file this process has opened: at its  *)
(* end ("ab"), or behind what this process wrote ("wb").  Each chunk is    *)
(* hashed as it came.                                                      *)
Written(f, at, chunk) ==
  [i \in 1..(IF at < Len(f) THEN Len(f) ELSE at + 1) |->
     IF i = at + 1 THEN chunk ELSE IF i <= Len(f) THEN f[i] ELSE 0]
Position(p, f) == IF have[p] = 0 THEN Len(hash[p]) ELSE Len(f)
Put(p, file) == {Written(f, Position(p, f), Head(left[p])) : f \in file}

Fetch(p) ==
  /\ pc[p] = "fetch" /\ left[p] # <<>>
  /\ part' = IF fd[p] = "part" THEN Put(p, part) ELSE part
  /\ gguf' = IF fd[p] = "gguf" THEN Put(p, gguf) ELSE gguf
  /\ hash' = [hash EXCEPT ![p] = Append(@, Head(left[p]))]
  /\ left' = [left EXCEPT ![p] = Tail(@)]
  /\ UNCHANGED <<sha, library, fd, have, pc, conv, faults, history>>

(* The connection ends early: read returns no bytes, which is the end.     *)
Truncated(p) ==
  /\ pc[p] = "fetch" /\ left[p] # <<>> /\ Fault
  /\ left' = [left EXCEPT ![p] = <<>>] /\ lied' = TRUE
  /\ UNCHANGED <<sha, library, part, gguf, fd, have, hash, pc, conv, overlapped, cut,
                 rebuilding>>

(* An open file keeps its contents when the name goes: appends follow a    *)
(* renamed file and are lost with an unlinked one.                         *)
Moved(p, map) == fd' = [q \in Procs |-> IF q = p THEN "none"
                        ELSE IF fd[q] \in DOMAIN map THEN map[fd[q]] ELSE fd[q]]

Mismatch(p) ==
  /\ pc[p] = "fetch" /\ left[p] = <<>> /\ sha /\ hash[p] # Full
  /\ part' = {} /\ Moved(p, [part |-> "gone"])
  /\ Ends(p) /\ Closes(p)
  /\ UNCHANGED <<sha, library, gguf, faults, history>>

Verified(p) == pc[p] = "fetch" /\ left[p] = <<>> /\ (sha => hash[p] = Full)

(* dest is unlinked, then .part takes its place; then the conversion, or a *)
(* manifest that names the GGUF.                                           *)
Rename(p) ==
  /\ Verified(p) /\ part # {}
  /\ gguf' = part /\ part' = {} /\ Moved(p, [part |-> "gguf", gguf |-> "gone"])
  /\ GoTo(p, IF conv[p].skip THEN "manifest" ELSE "convert")
  /\ dir' = (dir \/ conv[p].skip)
  /\ Closes(p)
  /\ UNCHANGED <<sha, weights, manifest, sentinel, conv, faults, history>>

RenameFails(p) ==
  /\ Verified(p) /\ part = {}
  /\ gguf' = {} /\ Moved(p, [gguf |-> "gone"])
  /\ Ends(p) /\ Closes(p)
  /\ UNCHANGED <<sha, library, part, faults, history>>

-----------------------------------------------------------------------------
(* convert: into the directory the pull has chosen, or the one the user    *)
(* names on the command line.  The manifest holds a hash of the first      *)
(* 100 MB, which is that of the intact GGUF even if its end is wrong.      *)
Sample(source) == IF source = "spoilt" THEN "pulled" ELSE source
Complete(source) == sentinel /\ Sample(manifest) = Sample(source)

Build(p, source, force) ==
  /\ dir' = TRUE
  /\ IF ~ force /\ Complete(source) THEN Ends(p)
     ELSE /\ GoTo(p, "layer")
          /\ conv' = [conv EXCEPT ![p].source = source, ![p].next = 1]

ConvertLocal(p) ==
  \E force \in BOOLEAN :
    /\ pc[p] = "idle" /\ Build(p, "local", force) /\ Starts
    /\ UNCHANGED <<sha, weights, manifest, sentinel, download, lied, cut, rebuilding>>

(* A GGUF without its end does not parse; one with wrong or repeated bytes *)
(* at its end does.                                                        *)
Parses == gguf # {} /\ Len(Content(gguf)) >= Chunks

ConvertPulled(p) ==
  /\ pc[p] = "convert" /\ Parses
  /\ Build(p, IF gguf = {Full} THEN "pulled" ELSE "spoilt", FALSE)
  /\ UNCHANGED <<sha, weights, manifest, sentinel, download, faults, history>>

ConvertFails(p) ==
  /\ pc[p] = "convert" /\ ~ Parses
  /\ dir' = TRUE /\ Ends(p)
  /\ UNCHANGED <<sha, weights, manifest, sentinel, download, faults, history>>

(* write_to_file makes the directory, truncates the file and fills it.     *)
OpenLayer(p) ==
  /\ pc[p] = "layer"
  /\ dir' = TRUE /\ weights' = [weights EXCEPT ![conv[p].next] = "torn"]
  /\ rebuilding' = (rebuilding \/ manifest # "none")
  /\ GoTo(p, "fill") /\ conv' = [conv EXCEPT ![p].lost = FALSE]
  /\ UNCHANGED <<sha, manifest, sentinel, download, faults, lied, overlapped, cut>>

Shared(p) == \E q \in Procs \ {p} : pc[q] = "fill" /\ conv[q].next = conv[p].next

FillLayer_Fault(p) ==  (* stops one layer early *)
  /\ pc[p] = "fill"
  /\ weights' = IF conv[p].lost THEN weights
                ELSE [weights EXCEPT ![conv[p].next] = conv[p].source]
  /\ IF conv[p].next + 1 < Layers
       THEN GoTo(p, "layer") /\ conv' = [conv EXCEPT ![p].next = @ + 1]
       ELSE GoTo(p, "manifest") /\ UNCHANGED conv
  /\ UNCHANGED <<sha, dir, manifest, sentinel, download, faults, history>>

FillLayer(p) ==
  /\ pc[p] = "fill"
  /\ \E w \in {conv[p].source} \cup (IF Shared(p) THEN {"torn"} ELSE {}) :
       weights' = IF conv[p].lost THEN weights ELSE [weights EXCEPT ![conv[p].next] = w]
  /\ IF conv[p].next < Layers
       THEN GoTo(p, "layer") /\ conv' = [conv EXCEPT ![p].next = @ + 1]
       ELSE GoTo(p, "manifest") /\ UNCHANGED conv
  /\ UNCHANGED <<sha, dir, manifest, sentinel, download, faults, history>>

(* The GGUF is opened again for its hash.                                  *)
InputGone(p) == ~ conv[p].skip /\ conv[p].source # "local" /\ gguf = {}

OpenManifest(p) ==
  /\ pc[p] = "manifest" /\ dir /\ ~ InputGone(p)
  /\ manifest' = "torn"
  /\ GoTo(p, "entries") /\ conv' = [conv EXCEPT ![p].lost = FALSE]
  /\ UNCHANGED <<sha, dir, weights, sentinel, download, faults, history>>

(* pull without a conversion ends here.                                    *)
FillManifest(p) ==
  /\ pc[p] = "entries"
  /\ manifest' = IF conv[p].lost THEN manifest
                 ELSE IF conv[p].skip THEN "passthrough" ELSE conv[p].source
  /\ IF conv[p].skip THEN Ends(p) ELSE GoTo(p, "sentinel") /\ UNCHANGED conv
  /\ UNCHANGED <<sha, dir, weights, sentinel, download, faults, history>>

WriteSentinel_Fault(p) ==  (* in a directory that may be gone *)
  /\ pc[p] = "sentinel"
  /\ sentinel' = TRUE /\ rebuilding' = FALSE
  /\ Ends(p)
  /\ UNCHANGED <<sha, dir, weights, manifest, download, faults, lied, overlapped, cut>>

WriteSentinel(p) ==
  /\ pc[p] = "sentinel" /\ dir
  /\ sentinel' = TRUE /\ rebuilding' = FALSE
  /\ Ends(p)
  /\ UNCHANGED <<sha, dir, weights, manifest, download, faults, lied, overlapped, cut>>

(* open() in a directory that is gone, or of an input that is.             *)
OpenLastFails(p) ==
  /\ \/ pc[p] \in {"manifest", "sentinel"} /\ ~ dir
     \/ pc[p] = "manifest" /\ InputGone(p)
  /\ Ends(p)
  /\ UNCHANGED <<sha, library, download, faults, history>>

-----------------------------------------------------------------------------
(* An exception, the cancel of an install, or the end of the process, in   *)
(* whatever phase: nothing is cleaned up.                                  *)
Stop(p) ==
  /\ pc[p] # "idle" /\ Fault
  /\ Ends(p) /\ Closes(p) /\ fd' = [fd EXCEPT ![p] = "none"]
  /\ UNCHANGED <<sha, library, part, gguf, history>>

(* rm: files that are open in it lose their names.  The model's GGUF stays.*)
Orphan == conv' = [q \in Procs |->
            [conv[q] EXCEPT !.lost = @ \/ pc[q] \in {"fill", "entries"}]]

Rm ==
  /\ dir /\ Fault /\ overlapped' = (overlapped \/ Busy # {})
  /\ dir' = FALSE /\ weights' = Nothing /\ manifest' = "none" /\ sentinel' = FALSE
  /\ rebuilding' = FALSE /\ Orphan
  /\ UNCHANGED <<sha, download, pc, lied, cut>>

(* rmtree is stopped, or fails, after some of the files.                   *)
RmCut ==
  /\ dir /\ Fault /\ overlapped' = (overlapped \/ Busy # {})
  /\ \E gone \in SUBSET (1..Layers) :
       weights' = [k \in 1..Layers |-> IF k \in gone THEN "none" ELSE weights[k]]
  /\ manifest' \in {manifest, "none"}
  /\ sentinel' \in {sentinel, FALSE}
  /\ cut' = TRUE /\ Orphan
  /\ UNCHANGED <<sha, dir, download, pc, lied, rebuilding>>

Work(p) ==
  \/ Pull(p)
  \/ Request(p)
  \/ NotSatisfiable(p)
  \/ Open(p)
  \/ OpenFails(p)
  \/ Fetch(p)
  \/ Mismatch(p)
  \/ Rename(p)
  \/ RenameFails(p)
  \/ ConvertPulled(p)
  \/ ConvertFails(p)
  \/ OpenLayer(p)
  \/ FillLayer(p)
  \/ OpenManifest(p)
  \/ FillManifest(p)
  \/ WriteSentinel(p)
  \/ OpenLastFails(p)

Next ==
  \/ \E p \in Procs : \/ Work(p)
                     \/ ConvertLocal(p)
                     \/ RequestOther(p)
                     \/ Truncated(p)
                     \/ Stop(p)
  \/ Rm
  \/ RmCut

(* A process that runs goes on, and a user whose model is not there asks   *)
(* for it again.                                                           *)
Fairness == \A p \in Procs : WF_vars(Work(p))

Spec == Init /\ [][Next]_vars /\ Fairness

-----------------------------------------------------------------------------
(* The GGUF in downloads is the remote one, byte for byte, whatever was    *)
(* interrupted and resumed, unless two processes were at it together or,   *)
(* without a SHA-256 in the index, a server answered with something else.  *)
GgufWhole == gguf \subseteq {Full} \/ overlapped \/ (~ sha /\ lied)

(* The manifest is written after the layers: a directory that is not being *)
(* rebuilt, with a manifest naming a source, holds every layer of it, as   *)
(* long as one process at a time works and no removal was cut short.       *)
ManifestIsLast ==
  manifest \in Sources /\ ~ overlapped /\ ~ cut /\ ~ rebuilding =>
    \A k \in 1..Layers : weights[k] = manifest

(* A user who asks again gets the model in the end, except when the        *)
(* complete .part was left behind (416 for ever), the manifest is torn     *)
(* (pull takes it for an install) or the GGUF in downloads does not parse. *)
Installed == manifest \in Sources \cup {"passthrough"}
Stuck == Found >= Chunks \/ manifest = "torn" \/ (gguf # {} /\ ~ Parses)
RetriesInstall == []<>(Installed \/ Stuck)
=============================================================================
