------------------------------ MODULE TuiSession ------------------------------
(***************************************************************************)
(* python/phantom/phantom_tui.py: the interactive session.  One thread     *)
(* reads keys, runs commands, shell commands and chat turns to their end,  *)
(* and saves the session at some of them; a second one, the installer,     *)
(* adds the result of an install to the turns whenever it is done.         *)
(*                                                                         *)
(* Messages and turns carry the number of the exchange they belong to.     *)
(* The notices the key thread itself adds to the turns are left out.       *)
(***************************************************************************)
EXTENDS Naturals, Sequences, SequencesExt

CONSTANTS Models,
          NoModel,
          MaxExchanges,  (* bound: chat turns and shell commands           *)
          MaxSessions,   (* bound: sessions 1..MaxSessions                 *)
          MaxInstalls,   (* bound                                          *)
          MaxEdits,      (* bound: compactions, /system, /load, switches   *)
          MaxRestarts,   (* bound                                          *)
          MaxFailures    (* bound: saves that fail                         *)

ASSUME TuiAssumption ==
  /\ NoModel \notin Models /\ Models # {}
  /\ {MaxExchanges, MaxInstalls, MaxEdits, MaxRestarts, MaxFailures} \subseteq Nat
  /\ MaxSessions \in Nat \ {0}

VARIABLES phase,     (* "idle", "chat", "shell" or "down"                  *)
          turns,     (* what the screen shows                              *)
          talk,      (* conversation_history                               *)
          undo, redo,
          session,   (* session_id                                         *)
          disk,      (* the saved sessions: none, torn or saved            *)
          failures,  (* how many saves have failed                         *)
          shown,     (* model_id                                           *)
          active,    (* the model that answers                             *)
          installing, (* install["running"]                                *)
          reporting, (* installers between running = False and their turn  *)
          count,     (* how many of each so far                            *)
          kept,      (* history: what each session was told and not asked  *)
                     (* to take back                                       *)
          raced,     (* history: an install or the session ended during a  *)
                     (* shell command                                      *)
          edited,    (* history: talk was rewritten between two exchanges  *)
          adopted    (* history: shown was taken from a session            *)

content == <<turns, talk, undo, redo>>
files == <<session, disk, failures>>
model == <<shown, active, adopted>>
installer == <<installing, reporting>>
vars == <<phase, content, files, model, installer, count, kept, raced, edited>>

Phases == {"idle", "chat", "shell", "down"}
Turn == [of : 0..MaxExchanges, kind : {"chat", "pending", "tool", "install"}]
Message == [of : 0..MaxExchanges, role : {"user", "assistant", "system", "summary"}]
Snapshot == [turns : Seq(Turn), talk : Seq(Message)]
Sessions == 1..MaxSessions
None == [state |-> "none"]
Torn == [state |-> "torn"]
Data_Fault ==  (* the loaded model for the selected one *)
  [state |-> "saved", turns |-> turns, talk |-> talk, model |-> active]
Data == [state |-> "saved", turns |-> turns, talk |-> talk, model |-> shown]

TypeOK ==
  /\ phase \in Phases
  /\ turns \in Seq(Turn) /\ talk \in Seq(Message)
  /\ undo \in Seq(Snapshot) /\ redo \in Seq(Snapshot)
  /\ session \in Sessions /\ failures \in 0..MaxFailures
  /\ \A s \in Sessions :
       \/ disk[s] \in {None, Torn}
       \/ disk[s].turns \in Seq(Turn) /\ disk[s].talk \in Seq(Message)
            /\ disk[s].model \in Models
  /\ shown \in Models /\ active \in Models \cup {NoModel}
  /\ installing \in BOOLEAN /\ reporting \in 0..MaxInstalls
  /\ count \in [exchanges : 0..MaxExchanges, installs : 0..MaxInstalls,
                edits : 0..MaxEdits, restarts : 0..MaxRestarts]
  /\ phase \in {"chat", "shell"} => count.exchanges > 0

Init ==
  /\ phase = "idle"
  /\ turns = <<>> /\ talk = <<>> /\ undo = <<>> /\ redo = <<>>
  /\ session = 1 /\ disk = [s \in Sessions |-> None] /\ failures = 0
  /\ shown \in Models /\ active \in {shown, NoModel} /\ adopted = FALSE
  /\ installing = FALSE /\ reporting = 0
  /\ count = [exchanges |-> 0, installs |-> 0, edits |-> 0, restarts |-> 0]
  /\ kept = [s \in Sessions |-> {}]
  /\ raced = FALSE /\ edited = FALSE

(* Keys are read only here, between commands.  A command is typed, picked  *)
(* from a list or bound to a key; a list is modal, and what it shows is    *)
(* changed by nothing else while it is open.                               *)
Ready == phase = "idle"
Edits == count.edits < MaxEdits /\ count' = [count EXCEPT !.edits = @ + 1]
(* A save that fails is not noticed: the file is as it was, or torn.       *)
SavesAs(s, data) ==
  \/ disk' = [disk EXCEPT ![s] = data] /\ UNCHANGED failures
  \/ /\ failures < MaxFailures /\ failures' = failures + 1
     /\ disk' \in {disk, [disk EXCEPT ![s] = Torn]}

(* What is left of a session whose memory is gone: all of it if its save   *)
(* went well, what its file holds otherwise.                               *)
Surviving(s) == IF disk'[s].state = "saved" THEN kept[s] \cap ToSet(disk'[s].talk) ELSE {}
Leaves(s) == kept' = IF disk'[s] = Data THEN kept ELSE [kept EXCEPT ![s] = Surviving(s)]

-----------------------------------------------------------------------------
(* A chat turn: the answer is streamed by this same thread, and the        *)
(* session saved at its end.                                               *)
Exchange(turn) ==
  /\ Ready /\ count.exchanges < MaxExchanges
  /\ count' = [count EXCEPT !.exchanges = @ + 1]
  /\ undo' = Append(undo, [turns |-> turns, talk |-> talk]) /\ redo' = <<>>
  /\ turns' = Append(turns, [of |-> count'.exchanges, kind |-> turn])

Said(role) == [of |-> count.exchanges, role |-> role]

ServiceTurn ==
  /\ Exchange("chat") /\ phase' = "chat"
  /\ talk' = Append(talk, [of |-> count'.exchanges, role |-> "user"])
  /\ UNCHANGED <<files, model, installer, kept, raced, edited>>

ServiceTurnEnds ==
  /\ phase = "chat" /\ phase' = "idle"
  /\ talk' = Append(talk, Said("assistant"))
  /\ SavesAs(session, [Data EXCEPT !.talk = talk'])
  /\ kept' = [kept EXCEPT ![session] = @ \cup {Said("user"), Said("assistant")}]
  /\ UNCHANGED <<turns, undo, redo, session, model, installer, count, raced, edited>>

(* !cmd: the last turn is replaced by the output; nothing is saved.        *)
RunShellTurn_Fault ==  (* the snapshot is taken after the turn is added *)
  /\ Ready /\ count.exchanges < MaxExchanges
  /\ count' = [count EXCEPT !.exchanges = @ + 1]
  /\ turns' = Append(turns, [of |-> count'.exchanges, kind |-> "pending"])
  /\ undo' = Append(undo, [turns |-> turns', talk |-> talk]) /\ redo' = <<>>
  /\ phase' = "shell"
  /\ UNCHANGED <<talk, files, model, installer, kept, raced, edited>>

RunShellTurn ==
  /\ Exchange("pending") /\ phase' = "shell"
  /\ UNCHANGED <<talk, files, model, installer, kept, raced, edited>>

ShellTurnEnds_Fault ==  (* the answer is not added to the history *)
  /\ phase = "shell" /\ phase' = "idle"
  /\ turns' = [turns EXCEPT ![Len(turns)] = [of |-> count.exchanges, kind |-> "tool"]]
  /\ talk' = Append(talk, Said("user"))
  /\ kept' = [kept EXCEPT ![session] = @ \cup {Said("user")}]
  /\ UNCHANGED <<undo, redo, files, model, installer, count, raced, edited>>

ShellTurnEnds ==
  /\ phase = "shell" /\ phase' = "idle"
  /\ turns' = [turns EXCEPT ![Len(turns)] = [of |-> count.exchanges, kind |-> "tool"]]
  /\ talk' = talk \o <<Said("user"), Said("assistant")>>
  /\ kept' = [kept EXCEPT ![session] = @ \cup {Said("user"), Said("assistant")}]
  /\ UNCHANGED <<undo, redo, files, model, installer, count, raced, edited>>

-----------------------------------------------------------------------------
Takes(snapshot) == turns' = snapshot.turns /\ talk' = snapshot.talk
Current == [turns |-> turns, talk |-> talk]

Undo ==
  /\ Ready /\ undo # <<>>
  /\ Takes(Last(undo)) /\ undo' = Front(undo) /\ redo' = Append(redo, Current)
  /\ kept' = [kept EXCEPT ![session] = @ \cap ToSet(talk')]
  /\ UNCHANGED <<phase, files, model, installer, count, raced, edited>>

Redo ==
  /\ Ready /\ redo # <<>>
  /\ Takes(Last(redo)) /\ redo' = Front(redo) /\ undo' = Append(undo, Current)
  /\ kept' = [kept EXCEPT ![session] = ToSet(talk')]
  /\ UNCHANGED <<phase, files, model, installer, count, raced, edited>>

(* /compact keeps a first notice, if an install's is the first, and puts a *)
(* summary for the messages.                                               *)
Compact ==
  /\ Ready /\ talk # <<>> /\ Edits
  /\ talk' = <<[of |-> 0, role |-> "system"], [of |-> 0, role |-> "summary"]>>
  /\ turns' \in {<<>>} \cup {<<t>> : t \in {turns[i] : i \in {1} \cap DOMAIN turns}
                                            \cap [of : {0}, kind : {"install"}]}
  /\ kept' = [kept EXCEPT ![session] = {}] /\ edited' = TRUE
  /\ UNCHANGED <<phase, undo, redo, files, model, installer, raced>>

(* /system: the first message.                                             *)
System ==
  /\ Ready /\ Edits
  /\ talk' = <<[of |-> 0, role |-> "system"]>> \o
             (IF talk # <<>> /\ Head(talk).role = "system" THEN Tail(talk) ELSE talk)
  /\ edited' = TRUE
  /\ UNCHANGED <<phase, turns, undo, redo, files, model, installer, kept, raced>>

(* /load: the messages of a file, this conversation's at an earlier point, *)
(* as /save wrote it, or none of it: another conversation's messages are   *)
(* not followed.                                                           *)
Histories == {<<>>} \cup {s.talk : s \in ToSet(undo)}
LoadConversation ==
  /\ Ready /\ Edits
  /\ talk' \in Histories
  /\ kept' = [kept EXCEPT ![session] = @ \cap ToSet(talk')] /\ edited' = TRUE
  /\ UNCHANGED <<phase, turns, undo, redo, files, model, installer, raced>>

Cleared == undo' = <<>> /\ redo' = <<>> /\ edited' = FALSE

NewSession_Fault ==  (* the current one is not saved *)
  /\ Ready /\ \E s \in Sessions : s > session /\ disk[s] = None /\ session' = s
  /\ turns' = <<>> /\ talk' = <<>> /\ Cleared
  /\ UNCHANGED <<phase, disk, failures, model, installer, count, kept, raced>>

NewSession ==
  /\ Ready /\ \E s \in Sessions \ {session} : disk[s] = None /\ session' = s
  /\ SavesAs(session, Data) /\ Leaves(session)
  /\ turns' = <<>> /\ talk' = <<>> /\ Cleared
  /\ UNCHANGED <<phase, model, installer, count, raced>>

(* The chosen session is read before the current one is saved, the current *)
(* one too.  The weights of its model are not.                             *)
Adopts(data) == /\ turns' = data.turns /\ talk' = data.talk /\ shown' = data.model
                /\ adopted' = (adopted \/ data.model # shown)

LoadSession(s) ==
  /\ Ready /\ disk[s].state = "saved"
  /\ SavesAs(session, Data)
  /\ Adopts(disk[s]) /\ session' = s
  /\ IF s = session THEN kept' = [kept EXCEPT ![s] = @ \cap ToSet(talk')]
                    ELSE Leaves(session)
  /\ Cleared
  /\ UNCHANGED <<phase, active, installer, count, raced>>

(* /models and F2; weights that fail to load leave no model.               *)
SwitchModel(m) ==
  /\ Ready /\ Edits
  /\ shown' = m /\ active' \in {m, NoModel} /\ adopted' = FALSE
  /\ SavesAs(session, [Data EXCEPT !.model = m])
  /\ UNCHANGED <<phase, content, session, installer, kept, raced, edited>>

-----------------------------------------------------------------------------
(* /install: one at a time.                                                *)
StartInstall ==
  /\ Ready /\ ~ installing
  /\ count.installs < MaxInstalls
  /\ count' = [count EXCEPT !.installs = @ + 1]
  /\ installing' = TRUE
  /\ UNCHANGED <<phase, content, files, model, reporting, kept, raced, edited>>

(* The installer: done, failed or cancelled, it clears running first.      *)
InstallEnds ==
  /\ installing /\ installing' = FALSE /\ reporting' = reporting + 1
  /\ UNCHANGED <<phase, content, files, model, count, kept, raced, edited>>

InstallReports ==
  /\ reporting > 0 /\ reporting' = reporting - 1
  /\ turns' = Append(turns, [of |-> 0, kind |-> "install"])
  /\ raced' = (raced \/ phase = "shell")
  /\ UNCHANGED <<phase, talk, undo, redo, files, model, installing, count, kept, edited>>

-----------------------------------------------------------------------------
(* Leaving saves the session, in the middle of an exchange too (Ctrl-C is  *)
(* a signal there); the installer ends with the process.                   *)
Down == phase' = "down" /\ installing' = FALSE /\ reporting' = 0

Exit ==
  /\ phase # "down" /\ Down
  /\ SavesAs(session, Data) /\ Leaves(session)
  /\ raced' = (raced \/ phase = "shell")
  /\ UNCHANGED <<content, session, model, count, edited>>

(* Killed: what was not saved is lost; so is the file if it was about to   *)
(* be written.                                                             *)
Crash ==
  /\ phase # "down" /\ Down
  /\ disk' \in {disk, [disk EXCEPT ![session] = Torn]}
  /\ kept' = [s \in Sessions |-> Surviving(s)]
  /\ UNCHANGED <<content, session, failures, model, count, raced, edited>>

(* Started again: with a saved session (--continue, --session), if it can  *)
(* be read, or with a new one.                                             *)
Fresh(s) == /\ disk[s] = None /\ session' = s
            /\ turns' = <<>> /\ talk' = <<>> /\ shown' \in Models /\ adopted' = FALSE
            /\ active' \in {shown', NoModel}
Continued(s) == /\ disk[s].state = "saved" /\ session' = s
                /\ turns' = disk[s].turns /\ talk' = disk[s].talk
                /\ shown' = disk[s].model
                /\ active' \in Models \cup {NoModel} /\ adopted' = TRUE
Restart ==
  /\ phase = "down" /\ phase' = "idle"
  /\ \E s \in Sessions : Fresh(s) \/ Continued(s)
  /\ count.restarts < MaxRestarts /\ count' = [count EXCEPT !.restarts = @ + 1]
  /\ Cleared
  /\ UNCHANGED <<disk, failures, installer, kept, raced>>

KeyThread ==
  \/ ServiceTurn
  \/ ServiceTurnEnds
  \/ RunShellTurn
  \/ ShellTurnEnds
  \/ Undo
  \/ Redo
  \/ Compact
  \/ System
  \/ LoadConversation
  \/ NewSession
  \/ \E s \in Sessions : LoadSession(s)
  \/ \E m \in Models : SwitchModel(m)
  \/ StartInstall
Installer == InstallEnds \/ InstallReports
Next == KeyThread \/ Installer \/ Exit \/ Crash \/ Restart

Spec == Init /\ [][Next]_vars

-----------------------------------------------------------------------------
(* Nothing a session was told is lost but by an undo, a compaction, /load, *)
(* a crash, a save that failed as one left the session, or by picking the  *)
(* session one is in from the list: every message of every finished        *)
(* exchange is in the conversation or in its file.  A failed save alone    *)
(* loses nothing: the conversation is still there for the next one.        *)
Talk(s) == IF s = session /\ phase # "down" THEN ToSet(talk)
           ELSE IF disk[s].state = "saved" THEN ToSet(disk[s].talk) ELSE {}
NothingForgotten == \A s \in Sessions : kept[s] \subseteq Talk(s)

(* /undo: "The last message and its response were rolled back."  It takes  *)
(* back one exchange, both its messages and no other, through any mix of   *)
(* chat turns, shell commands, undo, redo and installs; only /compact,     *)
(* /system and /load, which no snapshot is taken for, go with it.          *)
UndoRollsBackOneExchange ==
  [][Undo => \/ edited
             \/ \E n \in 1..count.exchanges :
                  talk = talk' \o <<[of |-> n, role |-> "user"],
                                    [of |-> n, role |-> "assistant"]>>]_vars

(* A shell command shows its output, unless an install ended while it ran  *)
(* (the last turn is then the installer's) or the session was left.        *)
ShellTurnsFilled ==
  phase = "idle" /\ ~ raced => \A i \in DOMAIN turns : turns[i].kind # "pending"

(* The model that answers is the one the screen names, or none, unless the *)
(* name came with a session.                                               *)
ShownModelAnswers == active \in {shown, NoModel} \/ adopted
=============================================================================
