------------------------------- MODULE DeskProofs -------------------------------
(***************************************************************************)
(* Theorems about the parts of MCDesk: the interactive session             *)
(* (TuiSession.tla) for any number of exchanges, sessions, installs, edits *)
(* and restarts; calibration (Calibration.tla) for any runs, layers and    *)
(* failures; the command line (CommandLine.tla) for any sizes,             *)
(* quantizations and commands; the composer (TuiInput.tla) for any table   *)
(* of commands and any keys; and the profile of a machine (Hardware.tla)   *)
(* for any probes and sizes, any model and any host whose card is faster   *)
(* than what is behind it.  MCDesk holds the parts' variables side by      *)
(* side, so each part has an inductive invariant of its own.               *)
(***************************************************************************)
EXTENDS MCDesk, SequenceTheorems, FiniteSetTheorems, WellFoundedInduction, TLAPS

-----------------------------------------------------------------------------
(* Sequences.                                                              *)
LEMMA ToSetAppend ==
  ASSUME NEW S, NEW s \in Seq(S), NEW x
  PROVE  ToSet(Append(s, x)) = ToSet(s) \cup {x}
  <1>1. /\ DOMAIN Append(s, x) = DOMAIN s \cup {Len(s) + 1}
        /\ \A i \in DOMAIN s : Append(s, x)[i] = s[i]
        /\ Append(s, x)[Len(s) + 1] = x
    OBVIOUS
  <1> QED BY <1>1 DEF ToSet

LEMMA ToSetPair ==
  ASSUME NEW S, NEW s \in Seq(S), NEW x, NEW y
  PROVE  ToSet(s \o <<x, y>>) = ToSet(s) \cup {x, y}
  <1> DEFINE t == s \o <<x, y>>
  <1>1. /\ DOMAIN t = DOMAIN s \cup {Len(s) + 1, Len(s) + 2}
        /\ \A i \in DOMAIN s : t[i] = s[i]
        /\ t[Len(s) + 1] = x /\ t[Len(s) + 2] = y
    OBVIOUS
  <1> HIDE DEF t
  <1>2. ToSet(t) = ToSet(s) \cup {x, y}
    BY <1>1 DEF ToSet
  <1> QED BY <1>2 DEF t

LEMMA ToSetType == ASSUME NEW S, NEW s \in Seq(S) PROVE ToSet(s) \subseteq S
  BY DEF ToSet

LEMMA ToSetEmpty == ToSet(<<>>) = {}
  BY DEF ToSet

LEMMA SeqGrows == ASSUME NEW S, NEW T, S \subseteq T, NEW s \in Seq(S) PROVE s \in Seq(T)
  OBVIOUS

LEMMA LastFront ==
  ASSUME NEW S, NEW s \in Seq(S), s # <<>>
  PROVE  /\ Len(s) \in Nat \ {0} /\ Last(s) = s[Len(s)] /\ Last(s) \in S
         /\ Front(s) \in Seq(S) /\ Len(Front(s)) = Len(s) - 1
         /\ \A i \in 1..(Len(s) - 1) : Front(s)[i] = s[i]
  <1>1. Len(s) \in Nat \ {0}
    OBVIOUS
  <1>2. Last(s) = s[Len(s)] /\ Last(s) \in S
    BY <1>1 DEF Last
  <1>3. Len(s) - 1 \in 0..Len(s)
    BY <1>1
  <1>4. Front(s) \in Seq(S)
    BY <1>1 DEF Front
  <1>5. /\ Len(Front(s)) = Len(s) - 1
        /\ \A i \in 1..(Len(s) - 1) : Front(s)[i] = s[i]
    <2> DEFINE n == Len(s) - 1
               t == SubSeq(s, 1, n)
    <2>1. n \in Nat /\ 1 \in Int /\ \A i \in 1..n : s[i] \in S
      BY <1>1
    <2> HIDE DEF n
    <2>2. Len(t) = IF 1 <= n THEN n - 1 + 1 ELSE 0
      BY <2>1, SubSeqProperties
    <2>3. \A i \in 1..(n - 1 + 1) : t[i] = s[1 + i - 1]
      BY <2>1, SubSeqProperties
    <2> HIDE DEF t
    <2>4. Len(t) = n /\ \A i \in 1..n : t[i] = s[i]
      BY <2>1, <2>2, <2>3
    <2> QED BY <2>4 DEF t, n, Front
  <1> QED BY <1>1, <1>2, <1>4, <1>5

-----------------------------------------------------------------------------
(* The session.  A message of the system belongs to no exchange.           *)
Messages == {m \in Message : m.role = "system" => m.of = 0}
Snapshots == [turns : Seq(Turn), talk : Seq(Messages)]
Saved == [state : {"saved"}, turns : Seq(Turn), talk : Seq(Messages), model : Models]
Counts == [exchanges : 0..MaxExchanges, installs : 0..MaxInstalls,
           edits : 0..MaxEdits, restarts : 0..MaxRestarts]

ContentOK ==
  /\ turns \in Seq(Turn) /\ talk \in Seq(Messages)
  /\ undo \in Seq(Snapshots) /\ redo \in Seq(Snapshots)
FilesOK ==
  /\ session \in Sessions /\ disk \in [Sessions -> {None, Torn} \cup Saved]
  /\ kept \in [Sessions -> SUBSET Messages] /\ failures \in 0..MaxFailures
ModelOK == /\ shown \in Models /\ active \in Models \cup {NoModel}
FlagsOK ==
  /\ phase \in Phases /\ adopted \in BOOLEAN /\ raced \in BOOLEAN /\ edited \in BOOLEAN
  /\ count \in Counts /\ (phase \in {"chat", "shell"} => count.exchanges > 0)
(* Every install is running, about to report, or over.                     *)
InstallsOK ==
  /\ installing \in BOOLEAN /\ reporting \in Nat
  /\ reporting + (IF installing THEN 1 ELSE 0) <= count.installs

(* While a chat turn runs, its question is the last message.               *)
Asked == phase = "chat" => talk # <<>> /\ Last(talk) = Said("user")

(* The snapshots are one exchange apart, and so is the conversation, from  *)
(* the newest of undo to the newest of redo; a running exchange has cleared*)
(* redo and said what its handler adds first.                              *)
Both(n) == <<[of |-> n, role |-> "user"], [of |-> n, role |-> "assistant"]>>
OneMore(a, b) == \E n \in 1..count.exchanges : b = a \o Both(n)
Steps ==
  /\ \A i \in 1..(Len(undo) - 1) : OneMore(undo[i].talk, undo[i + 1].talk)
  /\ \A i \in 1..(Len(redo) - 1) : OneMore(redo[i + 1].talk, redo[i].talk)
NowIdle ==
  phase = "idle" => /\ undo # <<>> => OneMore(undo[Len(undo)].talk, talk)
                    /\ redo # <<>> => OneMore(talk, redo[Len(redo)].talk)
NowBusy ==
  phase \in {"chat", "shell"} =>
    /\ undo # <<>> /\ redo = <<>>
    /\ talk = undo[Len(undo)].talk \o (IF phase = "chat" THEN <<Said("user")>> ELSE <<>>)
Chain == ~ edited => Steps /\ NowIdle /\ NowBusy

(* Outside of a shell command no turn waits for its output, on the screen, *)
(* in a snapshot or in a file; during one only the last does.              *)
Filled(ts) == \A i \in DOMAIN ts : ts[i].kind # "pending"
ScreenFilled ==
  /\ phase \in {"idle", "chat"} => Filled(turns)
  /\ phase = "shell" => turns # <<>> /\ \A i \in 1..(Len(turns) - 1) : turns[i].kind # "pending"
StacksFilled ==
  /\ \A i \in DOMAIN undo : Filled(undo[i].turns)
  /\ \A i \in DOMAIN redo : Filled(redo[i].turns)
FilesFilled == \A s \in Sessions : disk[s].state = "saved" => Filled(disk[s].turns)
AllFilled == ~ raced => ScreenFilled /\ StacksFilled /\ FilesFilled

SessionTyped == ContentOK /\ FilesOK /\ ModelOK /\ FlagsOK /\ InstallsOK
SessionInv ==
  SessionTyped /\ Asked /\ NothingForgotten /\ Chain /\ AllFilled /\ ShownModelAnswers


LEMMA SaidTypes ==
  ASSUME SessionTyped, NEW r \in {"user", "assistant"}
  PROVE  Said(r) \in Messages
  BY TuiAssumption DEF SessionTyped, FlagsOK, Counts, Said, Messages, Message

LEMMA NowTyped == ASSUME SessionTyped PROVE Current \in Snapshots
  BY DEF SessionTyped, ContentOK, Current, Snapshots

LEMMA SavedTyped ==
  ASSUME SessionTyped, NEW s \in Sessions, disk[s].state = "saved"
  PROVE  /\ disk[s] \in Saved /\ disk[s].turns \in Seq(Turn) /\ disk[s].talk \in Seq(Messages)
         /\ disk[s].model \in Models
  <1>1. disk[s] \in {None, Torn} \cup Saved
    BY DEF SessionTyped, FilesOK
  <1>2. disk[s] \in Saved
    BY <1>1 DEF None, Torn
  <1> QED BY <1>2 DEF Saved

LEMMA ExchangeTypes ==
  ASSUME SessionTyped, NEW k \in {"chat", "pending"}, Exchange(k)
  PROVE  /\ count' \in Counts /\ count'.exchanges \in 1..MaxExchanges
         /\ count'.exchanges = count.exchanges + 1 /\ count'.installs = count.installs
         /\ turns' \in Seq(Turn) /\ turns' = Append(turns, [of |-> count'.exchanges, kind |-> k])
         /\ undo' \in Seq(Snapshots) /\ undo' = Append(undo, Current)
         /\ redo' = <<>> /\ redo' \in Seq(Snapshots)
  <1>1. /\ count' \in Counts /\ count'.exchanges \in 1..MaxExchanges
        /\ count'.exchanges = count.exchanges + 1 /\ count'.installs = count.installs
    <2>1. count \in Counts /\ MaxExchanges \in Nat
      BY TuiAssumption DEF SessionTyped, FlagsOK
    <2>2. /\ count.exchanges < MaxExchanges
          /\ count' = [count EXCEPT !.exchanges = @ + 1]
      BY DEF Exchange
    <2>3. count.exchanges + 1 \in 1..MaxExchanges
      BY <2>1, <2>2 DEF Counts
    <2>4. count'.exchanges = count.exchanges + 1 /\ count'.installs = count.installs
      BY <2>1, <2>2 DEF Counts
    <2>5. count' \in Counts
      BY <2>1, <2>2, <2>3 DEF Counts
    <2> QED BY <2>3, <2>4, <2>5
  <1>2. turns' = Append(turns, [of |-> count'.exchanges, kind |-> k])
    BY DEF Exchange
  <1>3. [of |-> count'.exchanges, kind |-> k] \in Turn
    BY <1>1 DEF Turn
  <1>4. turns \in Seq(Turn) /\ undo \in Seq(Snapshots)
    BY DEF SessionTyped, ContentOK
  <1>5. turns' \in Seq(Turn)
    BY <1>2, <1>3, <1>4
  <1>6. undo' = Append(undo, Current)
    BY DEF Exchange, Current
  <1>7. undo' \in Seq(Snapshots)
    BY <1>4, <1>6, NowTyped
  <1>8. redo' = <<>> /\ redo' \in Seq(Snapshots)
    BY DEF Exchange
  <1> QED BY <1>1, <1>2, <1>5, <1>6, <1>7, <1>8

LEMMA StackTypes ==
  ASSUME NEW st \in Seq(Snapshots), st # <<>>
  PROVE  /\ Last(st) = st[Len(st)] /\ Last(st) \in Snapshots
         /\ Last(st).turns \in Seq(Turn) /\ Last(st).talk \in Seq(Messages)
         /\ Front(st) \in Seq(Snapshots)
  <1>1. Last(st) \in Snapshots
    BY LastFront
  <1> QED BY <1>1, LastFront DEF Snapshots

LEMMA ContentStep == ASSUME SessionTyped, [Next]_vars PROVE ContentOK'
  <1> USE DEF ContentOK
  <1>1. /\ turns \in Seq(Turn) /\ talk \in Seq(Messages)
        /\ undo \in Seq(Snapshots) /\ redo \in Seq(Snapshots)
    BY DEF SessionTyped
  <1>2. CASE ServiceTurn
    <2>1. Exchange("chat")
      BY <1>2 DEF ServiceTurn
    <2>2. [of |-> count'.exchanges, role |-> "user"] \in Messages
      BY <2>1, ExchangeTypes DEF Messages, Message
    <2>3. talk' \in Seq(Messages)
      BY <1>2, <1>1, <2>2 DEF ServiceTurn
    <2> QED BY <2>1, <2>3, ExchangeTypes
  <1>3. CASE ServiceTurnEnds
    BY <1>3, <1>1, SaidTypes DEF ServiceTurnEnds
  <1>4. CASE RunShellTurn
    <2>1. Exchange("pending") /\ talk' = talk
      BY <1>4 DEF RunShellTurn
    <2> QED BY <1>1, <2>1, ExchangeTypes
  <1>5. CASE ShellTurnEnds
    <2>1. [of |-> count.exchanges, kind |-> "tool"] \in Turn
      BY TuiAssumption DEF SessionTyped, FlagsOK, Counts, Turn
    <2>2. turns' \in Seq(Turn)
      <3> DEFINE e == [of |-> count.exchanges, kind |-> "tool"]
      <3> HIDE DEF e
      <3>1. turns' = [turns EXCEPT ![Len(turns)] = e]
        BY <1>5 DEF ShellTurnEnds, e
      <3>2. CASE turns = <<>>
        <4>1. turns' = turns
          BY <3>1, <3>2
        <4> QED BY <4>1, <1>1
      <3>3. CASE turns # <<>>
        <4>1. Len(turns) \in 1..Len(turns)
          BY <1>1, <3>3
        <4>2. e \in Turn
          BY <2>1 DEF e
        <4> QED BY <1>1, <3>1, <4>1, <4>2, ExceptSeq
      <3> QED BY <3>2, <3>3
    <2>3. <<Said("user"), Said("assistant")>> \in Seq(Messages)
      BY SaidTypes
    <2> QED BY <1>5, <1>1, <2>2, <2>3 DEF ShellTurnEnds
  <1>6. CASE Undo
    <2>1. /\ undo # <<>> /\ Takes(Last(undo)) /\ undo' = Front(undo)
          /\ redo' = Append(redo, Current)
      BY <1>6 DEF Undo
    <2> QED BY <1>1, <2>1, StackTypes, NowTyped DEF Takes
  <1>7. CASE Redo
    <2>1. /\ redo # <<>> /\ Takes(Last(redo)) /\ redo' = Front(redo)
          /\ undo' = Append(undo, Current)
      BY <1>7 DEF Redo
    <2> QED BY <1>1, <2>1, StackTypes, NowTyped DEF Takes
  <1>8. CASE Compact
    <2>1. talk' \in Seq(Messages)
      <3>1. \A r \in {"system", "summary"} : [of |-> 0, role |-> r] \in Messages
        BY TuiAssumption DEF Messages, Message
      <3>2. talk' = <<[of |-> 0, role |-> "system"], [of |-> 0, role |-> "summary"]>>
        BY <1>8 DEF Compact
      <3> QED BY <3>1, <3>2
    <2>2. turns' \in Seq(Turn)
      <3>1. turns' \in {<<>>} \cup {<<t>> : t \in {turns[i] : i \in {1} \cap DOMAIN turns}
                                            \cap [of : {0}, kind : {"install"}]}
        BY <1>8 DEF Compact
      <3>2. turns' = <<>> \/ \E i \in DOMAIN turns : turns' = <<turns[i]>>
        BY <3>1
      <3>3. \A i \in DOMAIN turns : turns[i] \in Turn
        BY <1>1
      <3>4. \A t \in Turn : <<t>> \in Seq(Turn)
        OBVIOUS
      <3>5. <<>> \in Seq(Turn)
        OBVIOUS
      <3> QED BY <3>2, <3>3, <3>4, <3>5, Zenon
    <2> QED BY <1>8, <1>1, <2>1, <2>2 DEF Compact
  <1>9. CASE System
    <2>1. <<[of |-> 0, role |-> "system"]>> \in Seq(Messages)
      BY TuiAssumption DEF Messages, Message
    <2>2. (IF talk # <<>> /\ Head(talk).role = "system" THEN Tail(talk) ELSE talk)
            \in Seq(Messages)
      BY <1>1
    <2>3. talk' \in Seq(Messages)
      BY <1>9, <2>1, <2>2, ConcatProperties DEF System
    <2> QED BY <1>9, <1>1, <2>3 DEF System
  <1>16. CASE LoadConversation
    <2>1. talk' \in Histories
      BY <1>16 DEF LoadConversation
    <2>2. <<>> \in Seq(Messages)
      OBVIOUS
    <2>3. ASSUME NEW s \in ToSet(undo) PROVE s.talk \in Seq(Messages)
      <3>1. s \in Snapshots
        BY <1>1, ToSetType
      <3> QED BY <3>1 DEF Snapshots
    <2>4. talk' \in Seq(Messages)
      BY <2>1, <2>2, <2>3, Zenon DEF Histories
    <2> QED BY <1>16, <1>1, <2>4 DEF LoadConversation
  <1>10. CASE NewSession
    BY <1>10 DEF NewSession, Cleared
  <1>11. CASE \E s \in Sessions : LoadSession(s)
    <2>1. PICK s \in Sessions : LoadSession(s)
      BY <1>11
    <2>2. /\ disk[s].state = "saved" /\ turns' = disk[s].turns /\ talk' = disk[s].talk
          /\ undo' = <<>> /\ redo' = <<>>
      BY <2>1 DEF LoadSession, Adopts, Cleared
    <2> QED BY <2>2, SavedTyped
  <1>12. CASE (\E m \in Models : SwitchModel(m)) \/ StartInstall \/ InstallEnds \/ Exit \/ Crash
    BY <1>12, <1>1 DEF SwitchModel, StartInstall, InstallEnds, Exit, Crash, content
  <1>13. CASE InstallReports
    <2>1. [of |-> 0, kind |-> "install"] \in Turn
      BY TuiAssumption DEF Turn
    <2> QED BY <1>13, <1>1, <2>1 DEF InstallReports
  <1>14. CASE Restart
    <2>1. PICK s \in Sessions : Fresh(s) \/ Continued(s)
      BY <1>14 DEF Restart
    <2>2. undo' = <<>> /\ redo' = <<>>
      BY <1>14 DEF Restart, Cleared
    <2>3. CASE Fresh(s)
      BY <2>2, <2>3 DEF Fresh
    <2>4. CASE Continued(s)
      BY <2>2, <2>4, SavedTyped DEF Continued
    <2> QED BY <2>1, <2>3, <2>4
  <1>15. CASE UNCHANGED vars
    BY <1>15, <1>1 DEF vars, content
  <1> QED
    BY <1>2, <1>3, <1>4, <1>5, <1>6, <1>7, <1>8, <1>9, <1>10, <1>11, <1>12, <1>13, <1>14, <1>15,
       <1>16
    DEF Next, KeyThread, Installer

LEMMA DataTyped == ASSUME SessionTyped PROVE Data \in Saved
  BY DEF SessionTyped, ContentOK, ModelOK, Data, Saved

(* A save writes the session's file, tears it or leaves it, and no other. *)
LEMMA SaveOutcomes ==
  ASSUME SessionTyped, NEW d, SavesAs(session, d)
  PROVE  /\ disk'[session] \in {d, disk[session], Torn}
         /\ \A s \in Sessions \ {session} : disk'[s] = disk[s]
         /\ DOMAIN disk' = Sessions /\ disk' = [s \in Sessions |-> disk'[s]]
         /\ failures' \in 0..MaxFailures
  <1>1. /\ disk \in [Sessions -> {None, Torn} \cup Saved] /\ session \in Sessions
        /\ failures \in 0..MaxFailures /\ MaxFailures \in Nat
    BY TuiAssumption DEF SessionTyped, FilesOK
  <1>2. PICK x \in {d, disk[session], Torn} : disk' = [disk EXCEPT ![session] = x]
    <2>1. disk = [disk EXCEPT ![session] = disk[session]]
      BY <1>1
    <2> QED BY <2>1 DEF SavesAs
  <1>3. failures' \in 0..MaxFailures
    BY <1>1 DEF SavesAs
  <1> QED BY <1>1, <1>2, <1>3

(* A session written over the file of one keeps the files typed.           *)
LEMMA SavesTypes ==
  ASSUME SessionTyped, NEW d \in Saved, SavesAs(session, d)
  PROVE  disk' \in [Sessions -> {None, Torn} \cup Saved] /\ failures' \in 0..MaxFailures
  <1>1. disk \in [Sessions -> {None, Torn} \cup Saved] /\ session \in Sessions
    BY DEF SessionTyped, FilesOK
  <1> HIDE DEF Saved, Torn, None
  <1>2. \A s \in Sessions : disk'[s] \in {None, Torn} \cup Saved
    BY <1>1, SaveOutcomes
  <1> QED BY <1>2, SaveOutcomes

(* What leaving a session keeps of it is in its file.                      *)
LEMMA LeavesKeeps ==
  ASSUME SessionTyped, kept[session] \subseteq ToSet(talk), SavesAs(session, Data),
         Leaves(session)
  PROVE  /\ kept' \in [Sessions -> SUBSET Messages]
         /\ \A r \in Sessions \ {session} : kept'[r] = kept[r]
         /\ kept'[session] \subseteq IF disk'[session].state = "saved"
                                    THEN ToSet(disk'[session].talk) ELSE {}
  <1>1. session \in Sessions /\ kept \in [Sessions -> SUBSET Messages]
    BY DEF SessionTyped, FilesOK
  <1>2. Surviving(session) \in SUBSET Messages
    BY <1>1 DEF Surviving
  <1>3. CASE disk'[session] = Data
    <2>1. kept' = kept
      BY <1>3 DEF Leaves
    <2>2. disk'[session].state = "saved" /\ disk'[session].talk = talk
      BY <1>3 DEF Data
    <2> QED BY <1>1, <2>1, <2>2
  <1>4. CASE disk'[session] # Data
    <2>1. kept' = [kept EXCEPT ![session] = Surviving(session)]
      BY <1>4 DEF Leaves
    <2> QED BY <1>1, <1>2, <2>1 DEF Surviving
  <1> QED BY <1>3, <1>4

(* The kept messages of one session replaced.                              *)
LEMMA KeptTypes ==
  ASSUME SessionTyped, NEW s \in Sessions, NEW K1 \in SUBSET Messages
  PROVE  [kept EXCEPT ![s] = K1] \in [Sessions -> SUBSET Messages]
  <1>1. kept \in [Sessions -> SUBSET Messages]
    BY DEF SessionTyped, FilesOK
  <1> QED BY <1>1

LEMMA FilesStep == ASSUME SessionTyped, [Next]_vars PROVE FilesOK'
  <1> USE DEF FilesOK
  <1>1. /\ session \in Sessions /\ disk \in [Sessions -> {None, Torn} \cup Saved]
        /\ kept \in [Sessions -> SUBSET Messages] /\ kept[session] \in SUBSET Messages
        /\ failures \in 0..MaxFailures
    BY DEF SessionTyped
  <1>15. ASSUME SavesAs(session, Data)
         PROVE  disk' \in [Sessions -> {None, Torn} \cup Saved] /\ failures' \in 0..MaxFailures
    BY <1>15, DataTyped, SavesTypes
  <1>16. ASSUME Leaves(session) PROVE kept' \in [Sessions -> SUBSET Messages]
    <2>1. Surviving(session) \in SUBSET Messages
      BY <1>1 DEF Surviving
    <2> QED BY <1>16, <1>1, <2>1, KeptTypes DEF Leaves
  <1>2. ToSet(talk') \in SUBSET Messages
    BY ContentStep, ToSetType DEF ContentOK
  <1>3. {Said("user"), Said("assistant")} \in SUBSET Messages
    BY SaidTypes
  <1>4. CASE ServiceTurn \/ RunShellTurn \/ System \/ StartInstall \/ InstallEnds
               \/ InstallReports
    BY <1>4, <1>1
    DEF ServiceTurn, RunShellTurn, System, StartInstall, InstallEnds, InstallReports, files
  <1>5. CASE ServiceTurnEnds
    <2>1. [Data EXCEPT !.talk = talk'] \in Saved
      BY DataTyped, ContentStep DEF Saved, ContentOK
    <2>2. disk' \in [Sessions -> {None, Torn} \cup Saved] /\ failures' \in 0..MaxFailures
      BY <1>5, <2>1, SavesTypes DEF ServiceTurnEnds
    <2>3. kept' \in [Sessions -> SUBSET Messages]
      BY <1>5, <1>1, <1>3, KeptTypes DEF ServiceTurnEnds
    <2> QED BY <1>5, <1>1, <2>2, <2>3 DEF ServiceTurnEnds
  <1>6. CASE ShellTurnEnds
    <2>1. kept' \in [Sessions -> SUBSET Messages]
      BY <1>6, <1>1, <1>3, KeptTypes DEF ShellTurnEnds
    <2> QED BY <1>6, <1>1, <2>1 DEF ShellTurnEnds, files
  <1>7. CASE Undo \/ Redo \/ Compact \/ LoadConversation
    <2>1. kept' \in [Sessions -> SUBSET Messages]
      BY <1>7, <1>1, <1>2, KeptTypes DEF Undo, Redo, Compact, LoadConversation
    <2> QED BY <1>7, <1>1, <2>1 DEF Undo, Redo, Compact, LoadConversation, files
  <1>8. CASE NewSession
    <2>1. SavesAs(session, Data) /\ session' \in Sessions /\ Leaves(session)
      BY <1>8 DEF NewSession
    <2> QED BY <1>15, <1>16, <2>1
  <1>9. CASE \E s \in Sessions : LoadSession(s)
    <2>1. PICK s \in Sessions : LoadSession(s)
      BY <1>9
    <2>2. /\ SavesAs(session, Data) /\ session' = s
          /\ IF s = session THEN kept' = [kept EXCEPT ![s] = @ \cap ToSet(talk')]
                            ELSE Leaves(session)
      BY <2>1 DEF LoadSession
    <2>3. kept' \in [Sessions -> SUBSET Messages]
      BY <2>2, <1>1, <1>2, <1>16, KeptTypes
    <2> QED BY <1>15, <2>2, <2>3
  <1>10. CASE \E m \in Models : SwitchModel(m)
    <2>1. PICK m \in Models : SwitchModel(m)
      BY <1>10
    <2>2. [Data EXCEPT !.model = m] \in Saved
      BY DataTyped DEF Saved
    <2>3. SavesAs(session, [Data EXCEPT !.model = m]) /\ session' = session /\ kept' = kept
      BY <2>1 DEF SwitchModel
    <2> QED BY <1>1, <2>2, <2>3, SavesTypes
  <1>11. CASE Exit
    BY <1>11, <1>1, <1>15, <1>16 DEF Exit
  <1>12. CASE Crash
    <2>1. /\ session' = session /\ failures' = failures
          /\ disk' \in {disk, [disk EXCEPT ![session] = Torn]}
      BY <1>12 DEF Crash
    <2>2. disk' \in [Sessions -> {None, Torn} \cup Saved]
      BY <1>1, <2>1, Zenon
    <2>3. \A s \in Sessions : Surviving(s) \in SUBSET Messages
      BY <1>1 DEF Surviving
    <2>4. kept' = [s \in Sessions |-> Surviving(s)]
      BY <1>12 DEF Crash
    <2> QED BY <1>1, <2>1, <2>2, <2>3, <2>4
  <1>13. CASE Restart
    BY <1>13, <1>1 DEF Restart, Fresh, Continued
  <1>14. CASE UNCHANGED vars
    BY <1>14, <1>1 DEF vars, files
  <1> QED
    BY <1>4, <1>5, <1>6, <1>7, <1>8, <1>9, <1>10, <1>11, <1>12, <1>13, <1>14
    DEF Next, KeyThread, Installer

LEMMA ModelStep == ASSUME SessionTyped, [Next]_vars PROVE ModelOK'
  <1> USE DEF ModelOK
  <1>1. shown \in Models /\ active \in Models \cup {NoModel}
    BY DEF SessionTyped
  <1>2. CASE \E s \in Sessions : LoadSession(s)
    BY <1>2, <1>1, SavedTyped DEF LoadSession, Adopts
  <1>3. CASE \E m \in Models : SwitchModel(m)
    BY <1>3 DEF SwitchModel
  <1>4. CASE Restart
    BY <1>4, SavedTyped DEF Restart, Fresh, Continued
  <1>5. CASE \/ ServiceTurn \/ ServiceTurnEnds \/ RunShellTurn \/ ShellTurnEnds \/ Undo \/ Redo
             \/ Compact \/ System \/ LoadConversation \/ NewSession \/ StartInstall \/ InstallEnds
             \/ InstallReports \/ Exit \/ Crash \/ UNCHANGED vars
    <2>1. UNCHANGED model
      BY <1>5 DEF ServiceTurn, ServiceTurnEnds, RunShellTurn, ShellTurnEnds, Undo, Redo, Compact,
                  System, LoadConversation, NewSession, StartInstall, InstallEnds,
                  InstallReports, Exit, Crash, vars
    <2> QED BY <1>1, <2>1 DEF model
  <1> QED BY <1>2, <1>3, <1>4, <1>5 DEF Next, KeyThread, Installer

(* What each action does to the counts.                                    *)
LEMMA CountsStep ==
  ASSUME SessionTyped, [Next]_vars
  PROVE  /\ count' \in Counts /\ count'.exchanges >= count.exchanges
         /\ ServiceTurn \/ RunShellTurn => count'.exchanges > 0
         /\ count'.installs = IF StartInstall THEN count.installs + 1 ELSE count.installs
         /\ ~ ServiceTurn /\ ~ RunShellTurn => count'.exchanges = count.exchanges
  <1>1. count \in Counts /\ MaxInstalls \in Nat /\ MaxEdits \in Nat /\ MaxRestarts \in Nat
    BY TuiAssumption DEF SessionTyped, FlagsOK
  <1>2. count.exchanges \in Nat /\ count.installs \in Nat
    BY <1>1, TuiAssumption DEF Counts
  <1>3. ~ StartInstall \/ ~ (ServiceTurn \/ RunShellTurn)
    <2>1. ServiceTurn \/ RunShellTurn => phase' \in {"chat", "shell"}
      BY DEF ServiceTurn, RunShellTurn
    <2>2. StartInstall => phase' = "idle"
      BY DEF StartInstall, Ready
    <2> QED BY <2>1, <2>2
  <1>4. CASE ServiceTurn \/ RunShellTurn
    <2>1. PICK k \in {"chat", "pending"} : Exchange(k)
      BY <1>4 DEF ServiceTurn, RunShellTurn
    <2>2. /\ count' \in Counts /\ count'.exchanges = count.exchanges + 1
          /\ count'.installs = count.installs
      BY <2>1, ExchangeTypes
    <2> QED BY <1>4, <1>2, <1>3, <2>2
  <1>5. CASE StartInstall
    <2>1. count.installs < MaxInstalls /\ count' = [count EXCEPT !.installs = @ + 1]
      BY <1>5 DEF StartInstall
    <2>2. count.installs + 1 \in 0..MaxInstalls
      BY <1>2, <1>1, <2>1
    <2> QED BY <1>5, <1>2, <1>1, <1>3, <2>1, <2>2 DEF Counts
  <1>6. CASE ~ StartInstall /\ ~ (ServiceTurn \/ RunShellTurn) /\ count' # count
    <2>1. Edits \/ Restart
      BY <1>6
      DEF Next, KeyThread, Installer, ServiceTurnEnds, ShellTurnEnds, Undo, Redo, Compact,
          System, LoadConversation, NewSession, LoadSession, SwitchModel, InstallEnds,
          InstallReports, Exit,
          Crash, vars
    <2>2. CASE Edits
      <3>1. count.edits < MaxEdits /\ count' = [count EXCEPT !.edits = @ + 1]
        BY <2>2 DEF Edits
      <3>2. count.edits + 1 \in 0..MaxEdits
        BY <1>1, <3>1 DEF Counts
      <3> QED BY <1>6, <1>2, <1>1, <3>1, <3>2 DEF Counts
    <2>3. CASE Restart
      <3>1. count.restarts < MaxRestarts /\ count' = [count EXCEPT !.restarts = @ + 1]
        BY <2>3 DEF Restart
      <3>2. count.restarts + 1 \in 0..MaxRestarts
        BY <1>1, <3>1 DEF Counts
      <3> QED BY <1>6, <1>2, <1>1, <3>1, <3>2 DEF Counts
    <2> QED BY <2>1, <2>2, <2>3
  <1>7. CASE count' = count /\ ~ StartInstall /\ ~ (ServiceTurn \/ RunShellTurn)
    BY <1>7, <1>1, <1>2
  <1> QED BY <1>4, <1>5, <1>6, <1>7

LEMMA FlagsStep == ASSUME SessionTyped, [Next]_vars PROVE FlagsOK'
  <1>1. /\ phase \in Phases /\ adopted \in BOOLEAN /\ raced \in BOOLEAN /\ edited \in BOOLEAN
        /\ count \in Counts /\ (phase \in {"chat", "shell"} => count.exchanges > 0)
    BY DEF SessionTyped, FlagsOK
  <1>2. phase' \in Phases
    BY <1>1
    DEF Next, KeyThread, Installer, ServiceTurn, RunShellTurn, ServiceTurnEnds, ShellTurnEnds,
        Undo, Redo, Compact, System, LoadConversation, NewSession, LoadSession, SwitchModel,
        StartInstall,
        InstallEnds, InstallReports, Exit, Crash, Restart, Down, Phases, vars
  <1>3. adopted' \in BOOLEAN
    BY <1>1
    DEF Next, KeyThread, Installer, ServiceTurn, RunShellTurn, ServiceTurnEnds, ShellTurnEnds,
        Undo, Redo, Compact, System, LoadConversation, NewSession, LoadSession, Adopts,
        SwitchModel, StartInstall,
        InstallEnds, InstallReports, Exit, Crash, Restart, Fresh, Continued, model, vars
  <1>4. raced' \in BOOLEAN /\ edited' \in BOOLEAN
    BY <1>1
    DEF Next, KeyThread, Installer, ServiceTurn, RunShellTurn, ServiceTurnEnds, ShellTurnEnds,
        Undo, Redo, Compact, System, LoadConversation, NewSession, LoadSession, SwitchModel,
        StartInstall,
        InstallEnds, InstallReports, Exit, Crash, Restart, Cleared, vars
  <1>5. phase' \in {"chat", "shell"} => phase' = phase \/ ServiceTurn \/ RunShellTurn
    BY DEF Next, KeyThread, Installer, ServiceTurn, RunShellTurn, ServiceTurnEnds, ShellTurnEnds,
        Undo, Redo, Compact, System, LoadConversation, NewSession, LoadSession, SwitchModel,
        StartInstall,
        InstallEnds, InstallReports, Exit, Crash, Restart, Down, vars
  <1>6. phase' \in {"chat", "shell"} => count'.exchanges > 0
    <2>1. count.exchanges \in Nat /\ count'.exchanges \in Nat
      BY <1>1, CountsStep, TuiAssumption DEF Counts
    <2> QED BY <1>1, <1>5, <2>1, CountsStep
  <1> QED BY <1>2, <1>3, <1>4, <1>6, CountsStep DEF FlagsOK

LEMMA InstallsStep == ASSUME SessionTyped, [Next]_vars PROVE InstallsOK'
  <1>1. /\ installing \in BOOLEAN /\ reporting \in Nat
        /\ reporting + (IF installing THEN 1 ELSE 0) <= count.installs
        /\ count.installs \in Nat
    BY TuiAssumption DEF SessionTyped, InstallsOK, FlagsOK, Counts
  <1>2. count'.installs = IF StartInstall THEN count.installs + 1 ELSE count.installs
    BY CountsStep
  <1>3. CASE StartInstall
    BY <1>3, <1>1, <1>2 DEF StartInstall, InstallsOK
  <1>4. CASE InstallEnds
    <2>1. count' = count /\ installing /\ ~ installing' /\ reporting' = reporting + 1
      BY <1>4 DEF InstallEnds
    <2>2. installing' \in BOOLEAN
      BY <1>4 DEF InstallEnds
    <2> QED BY <1>1, <2>1, <2>2 DEF InstallsOK
  <1>5. CASE InstallReports
    <2>1. count' = count /\ installing' = installing /\ reporting' = reporting - 1 /\ reporting > 0
      BY <1>5 DEF InstallReports
    <2> QED BY <1>1, <2>1 DEF InstallsOK
  <1>6. CASE Exit \/ Crash
    <2>1. count' = count /\ ~ installing' /\ reporting' = 0
      BY <1>6 DEF Exit, Crash, Down
    <2>2. installing' \in BOOLEAN
      BY <1>6 DEF Exit, Crash, Down
    <2> QED BY <1>1, <2>1, <2>2 DEF InstallsOK
  <1>7. CASE ~ StartInstall /\ UNCHANGED installer
    BY <1>7, <1>1, <1>2 DEF installer, InstallsOK
  <1>8. StartInstall \/ InstallEnds \/ InstallReports \/ Exit \/ Crash \/ UNCHANGED installer
    BY DEF Next, KeyThread, Installer, ServiceTurn, RunShellTurn, ServiceTurnEnds, ShellTurnEnds,
        Undo, Redo, Compact, System, LoadConversation, NewSession, LoadSession, SwitchModel,
        Restart, vars
  <1> QED BY <1>3, <1>4, <1>5, <1>6, <1>7, <1>8

LEMMA SessionTypesStep == ASSUME SessionTyped, [Next]_vars PROVE SessionTyped'
  BY ContentStep, FilesStep, ModelStep, FlagsStep, InstallsStep DEF SessionTyped

-----------------------------------------------------------------------------
LEMMA AskedStep == ASSUME SessionTyped, Asked, [Next]_vars PROVE Asked'
  <1>1. CASE ServiceTurn
    <2>1. /\ Exchange("chat")
          /\ talk' = Append(talk, [of |-> count'.exchanges, role |-> "user"])
      BY <1>1 DEF ServiceTurn
    <2>2. talk \in Seq(Messages)
      BY DEF SessionTyped, ContentOK
    <2>3. talk' # <<>> /\ Last(talk') = [of |-> count'.exchanges, role |-> "user"]
      BY <2>1, <2>2 DEF Last
    <2> QED BY <2>3 DEF Asked, Said
  <1>2. CASE ~ ServiceTurn /\ phase' = "chat"
    <2>1. phase = "chat" /\ talk' = talk /\ count' = count
      BY <1>2
      DEF Next, KeyThread, Installer, RunShellTurn, ServiceTurnEnds, ShellTurnEnds,
          Undo, Redo, Compact, System, LoadConversation, NewSession, LoadSession, SwitchModel,
          StartInstall,
          InstallEnds, InstallReports, Exit, Crash, Restart, Down, Ready, vars, content
    <2> QED BY <2>1 DEF Asked, Said, Last
  <1> QED BY <1>1, <1>2 DEF Asked

LEMMA ModelAnswersStep ==
  ASSUME SessionTyped, ShownModelAnswers, [Next]_vars PROVE ShownModelAnswers'
  <1>1. CASE \E s \in Sessions : LoadSession(s)
    <2>1. PICK s \in Sessions : /\ shown' = disk[s].model /\ active' = active
                                /\ adopted' = (adopted \/ disk[s].model # shown)
      BY <1>1 DEF LoadSession, Adopts
    <2> QED BY <2>1 DEF ShownModelAnswers
  <1>2. CASE \E m \in Models : SwitchModel(m)
    BY <1>2 DEF SwitchModel, ShownModelAnswers
  <1>3. CASE Restart
    BY <1>3 DEF Restart, Fresh, Continued, ShownModelAnswers
  <1>4. CASE \/ ServiceTurn \/ ServiceTurnEnds \/ RunShellTurn \/ ShellTurnEnds \/ Undo \/ Redo
             \/ Compact \/ System \/ LoadConversation \/ NewSession \/ StartInstall \/ InstallEnds
             \/ InstallReports \/ Exit \/ Crash \/ UNCHANGED vars
    <2>1. UNCHANGED model
      BY <1>4 DEF ServiceTurn, ServiceTurnEnds, RunShellTurn, ShellTurnEnds, Undo, Redo, Compact,
                  System, LoadConversation, NewSession, StartInstall, InstallEnds,
                  InstallReports, Exit, Crash, vars
    <2> QED BY <2>1 DEF model, ShownModelAnswers
  <1> QED BY <1>1, <1>2, <1>3, <1>4 DEF Next, KeyThread, Installer

-----------------------------------------------------------------------------
(* What Talk comes to, in a session that is up and in one that is not.     *)
LEMMA TalkUp ==
  ASSUME phase # "down" PROVE Talk(session) = ToSet(talk)
  BY DEF Talk
LEMMA TalkFile ==
  ASSUME NEW s \in Sessions, s # session \/ phase = "down"
  PROVE  Talk(s) = IF disk[s].state = "saved" THEN ToSet(disk[s].talk) ELSE {}
  BY DEF Talk

(* A step that keeps session and files, in a session that stays up.        *)
LEMMA TalksOn ==
  ASSUME SessionTyped, NothingForgotten, phase # "down", phase' # "down", session' = session,
         \A s \in Sessions \ {session} : disk'[s] = disk[s] /\ kept'[s] = kept[s],
         kept'[session] \subseteq ToSet(talk')
  PROVE  NothingForgotten'
  <1>1. session \in Sessions
    BY DEF SessionTyped, FilesOK
  <1>2. ASSUME NEW s \in Sessions \ {session} PROVE kept'[s] \subseteq Talk(s)'
    BY <1>2 DEF NothingForgotten, Talk
  <1>3. kept'[session] \subseteq Talk(session)'
    BY DEF Talk
  <1> QED BY <1>1, <1>2, <1>3 DEF NothingForgotten

(* The session in hand is saved, and one picks up another with nothing in  *)
(* it or as it was saved, or its own as it was saved.                      *)
LEMMA SavesAndMoves ==
  ASSUME SessionTyped, NothingForgotten, phase # "down", phase' # "down",
         NEW s \in Sessions, session' = s, SavesAs(session, Data),
         kept'[s] \subseteq ToSet(talk'), s # session => Leaves(session),
         \A r \in Sessions \ {s, session} : kept'[r] = kept[r]
  PROVE  NothingForgotten'
  <1>1. session \in Sessions /\ kept[session] \subseteq ToSet(talk)
    BY TalkUp DEF SessionTyped, FilesOK, NothingForgotten
  <1>2. \A r \in Sessions \ {session} : disk'[r] = disk[r]
    BY SaveOutcomes
  <1>3. ASSUME NEW r \in Sessions \ {s} PROVE kept'[r] \subseteq Talk(r)'
    <2>1. CASE r = session
      BY <1>1, <1>3, <2>1, LeavesKeeps DEF Talk
    <2>2. CASE r # session
      <3>1. kept[r] \subseteq Talk(r) /\ kept'[r] = kept[r]
        BY <1>3, <2>2 DEF NothingForgotten
      <3> QED BY <1>2, <1>3, <2>2, <3>1 DEF Talk
    <2> QED BY <2>1, <2>2
  <1>4. kept'[s] \subseteq Talk(s)'
    BY DEF Talk
  <1> QED BY <1>3, <1>4 DEF NothingForgotten

LEMMA KeptStep ==
  ASSUME SessionTyped, Asked, NothingForgotten, [Next]_vars PROVE NothingForgotten'
  <1>1. /\ session \in Sessions /\ kept \in [Sessions -> SUBSET Messages]
        /\ disk \in [Sessions -> {None, Torn} \cup Saved] /\ talk \in Seq(Messages)
    BY DEF SessionTyped, FilesOK, ContentOK
  <1>2. phase # "down" => kept[session] \subseteq ToSet(talk)
    BY <1>1, TalkUp DEF NothingForgotten
  <1>3. CASE ServiceTurn
    <2>1. /\ phase # "down" /\ phase' # "down" /\ UNCHANGED <<session, disk, kept>>
          /\ talk' = Append(talk, [of |-> count'.exchanges, role |-> "user"])
      BY <1>3 DEF ServiceTurn, Exchange, Ready, files
    <2>2. kept'[session] \subseteq ToSet(talk')
      BY <1>2, <1>1, <2>1, ToSetAppend
    <2> QED BY <2>1, <2>2, TalksOn
  <1>4. CASE ServiceTurnEnds
    <2> DEFINE q == Said("user")
               a == Said("assistant")
               d == [Data EXCEPT !.talk = talk']
    <2>1. /\ phase = "chat" /\ phase' = "idle" /\ talk' = Append(talk, a)
          /\ session' = session /\ kept' = [kept EXCEPT ![session] = @ \cup {q, a}]
          /\ SavesAs(session, d)
      BY <1>4 DEF ServiceTurnEnds
    <2>2. q \in ToSet(talk)
      <3>1. talk # <<>> /\ Last(talk) = q
        BY <2>1 DEF Asked
      <3>2. Len(talk) \in DOMAIN talk
        BY <1>1, <3>1
      <3> HIDE DEF q
      <3> QED BY <3>1, <3>2 DEF Last, ToSet
    <2> HIDE DEF q, a, d
    <2>3. kept'[session] \subseteq ToSet(talk')
      BY <1>2, <1>1, <2>1, <2>2, ToSetAppend
    <2>4. \A s \in Sessions \ {session} : disk'[s] = disk[s] /\ kept'[s] = kept[s]
      BY <1>1, <2>1, SaveOutcomes
    <2> QED BY <2>1, <2>3, <2>4, TalksOn
  <1>5. CASE ShellTurnEnds
    <2> DEFINE q == Said("user")
               a == Said("assistant")
    <2>1. /\ phase = "shell" /\ phase' = "idle" /\ talk' = talk \o <<q, a>>
          /\ session' = session /\ kept' = [kept EXCEPT ![session] = @ \cup {q, a}]
          /\ disk' = disk
      BY <1>5 DEF ShellTurnEnds, files
    <2> HIDE DEF q, a
    <2>2. kept'[session] \subseteq ToSet(talk')
      BY <1>2, <1>1, <2>1, ToSetPair
    <2>3. \A s \in Sessions \ {session} : disk'[s] = disk[s] /\ kept'[s] = kept[s]
      BY <1>1, <2>1
    <2> QED BY <2>1, <2>2, <2>3, TalksOn
  <1>6. CASE Undo \/ Redo \/ Compact \/ LoadConversation
    <2>1. /\ phase = "idle" /\ phase' = "idle" /\ UNCHANGED <<session, disk>>
          /\ kept' \in {[kept EXCEPT ![session] = @ \cap ToSet(talk')],
                        [kept EXCEPT ![session] = ToSet(talk')],
                        [kept EXCEPT ![session] = {}]}
      BY <1>6 DEF Undo, Redo, Compact, LoadConversation, Ready, files
    <2>2. /\ kept'[session] \subseteq ToSet(talk')
          /\ \A s \in Sessions \ {session} : disk'[s] = disk[s] /\ kept'[s] = kept[s]
      BY <1>1, <2>1
    <2> QED BY <2>1, <2>2, TalksOn
  <1>7. CASE System
    <2> DEFINE h == [of |-> 0, role |-> "system"]
               rest == IF talk # <<>> /\ Head(talk).role = "system" THEN Tail(talk) ELSE talk
    <2>1. /\ phase = "idle" /\ phase' = "idle" /\ UNCHANGED <<session, disk, kept>>
          /\ talk' = <<h>> \o rest
      BY <1>7 DEF System, Ready, files
    <2>2. ToSet(talk) \subseteq ToSet(rest) \cup {h}
      <3>1. CASE talk # <<>> /\ Head(talk).role = "system"
        <4>1. Head(talk) \in Messages
          BY <1>1, <3>1
        <4>2. Head(talk) = h
          BY <3>1, <4>1 DEF Messages, Message
        <4>3. \A i \in DOMAIN talk : i = 1 \/ (i - 1 \in DOMAIN Tail(talk)
                                               /\ Tail(talk)[i - 1] = talk[i])
          BY <1>1, <3>1
        <4>4. talk[1] = h
          BY <1>1, <3>1, <4>2
        <4> HIDE DEF h
        <4>5. \A i \in DOMAIN talk : talk[i] \in ToSet(Tail(talk)) \cup {h}
          BY <4>3, <4>4 DEF ToSet
        <4> QED BY <3>1, <4>5 DEF ToSet
      <3> QED BY <3>1
    <2>3. rest \in Seq(Messages)
      BY <1>1
    <2> HIDE DEF h, rest
    <2>4. ToSet(talk') = {h} \cup ToSet(rest)
      <3>1. /\ DOMAIN talk' = {1} \cup {i + 1 : i \in DOMAIN rest} /\ talk'[1] = h
            /\ \A i \in DOMAIN rest : talk'[i + 1] = rest[i]
        BY <2>1, <2>3
      <3> QED BY <3>1 DEF ToSet
    <2>5. kept'[session] \subseteq ToSet(talk')
      BY <1>2, <2>1, <2>2, <2>4
    <2> QED BY <2>1, <2>5, TalksOn
  <1>8. CASE NewSession
    <2>1. PICK s \in Sessions \ {session} : disk[s] = None /\ session' = s
      BY <1>8 DEF NewSession
    <2>2. kept[s] = {}
      BY <2>1, TalkFile DEF NothingForgotten, None
    <2>3. /\ phase # "down" /\ phase' # "down" /\ SavesAs(session, Data) /\ Leaves(session)
      BY <1>8 DEF NewSession, Ready
    <2>4. \A r \in Sessions \ {session} : kept'[r] = kept[r]
      BY <1>2, <2>3, LeavesKeeps
    <2> QED BY <2>1, <2>2, <2>3, <2>4, SavesAndMoves
  <1>9. CASE \E s \in Sessions : LoadSession(s)
    <2>1. PICK s \in Sessions : LoadSession(s)
      BY <1>9
    <2>2. /\ phase # "down" /\ phase' # "down" /\ SavesAs(session, Data) /\ session' = s
          /\ disk[s].state = "saved" /\ talk' = disk[s].talk
          /\ IF s = session THEN kept' = [kept EXCEPT ![s] = @ \cap ToSet(talk')]
                            ELSE Leaves(session)
      BY <2>1 DEF LoadSession, Adopts, Ready
    <2>3. /\ kept'[s] \subseteq ToSet(talk')
          /\ \A r \in Sessions \ {s, session} : kept'[r] = kept[r]
      <3>1. CASE s = session
        BY <1>1, <2>2, <3>1
      <3>2. CASE s # session
        <4>1. kept[s] \subseteq Talk(s)
          BY DEF NothingForgotten
        <4>2. \A r \in Sessions \ {session} : kept'[r] = kept[r]
          BY <1>2, <2>2, <3>2, LeavesKeeps
        <4> QED BY <2>2, <3>2, <4>1, <4>2, TalkFile
      <3> QED BY <3>1, <3>2
    <2> QED BY <2>2, <2>3, SavesAndMoves
  <1>10. CASE \E m \in Models : SwitchModel(m)
    <2>1. PICK m \in Models : SwitchModel(m)
      BY <1>10
    <2> DEFINE d == [Data EXCEPT !.model = m]
    <2>2. /\ phase = "idle" /\ phase' = "idle" /\ session' = session /\ kept' = kept
          /\ talk' = talk /\ SavesAs(session, d)
      BY <2>1 DEF SwitchModel, Ready, content
    <2> HIDE DEF d
    <2>3. \A s \in Sessions \ {session} : disk'[s] = disk[s]
      BY <2>2, SaveOutcomes
    <2> QED BY <1>2, <2>2, <2>3, TalksOn
  <1>11. CASE RunShellTurn \/ StartInstall
    <2>1. /\ phase = "idle" /\ phase' # "down" /\ UNCHANGED <<session, disk, kept, talk>>
      BY <1>11 DEF RunShellTurn, Exchange, StartInstall, Ready, content, files
    <2> QED BY <1>2, <2>1, TalksOn
  <1>12. CASE InstallEnds \/ InstallReports \/ UNCHANGED vars
    <2>1. UNCHANGED <<phase, session, disk, kept, talk>>
      BY <1>12 DEF InstallEnds, InstallReports, content, files, vars
    <2> QED BY <2>1 DEF NothingForgotten, Talk
  <1>13. CASE Exit
    <2>1. /\ phase # "down" /\ phase' = "down" /\ session' = session
          /\ SavesAs(session, Data) /\ Leaves(session)
      BY <1>13 DEF Exit, Down
    <2>2. kept'[session] \subseteq Talk(session)'
      BY <1>2, <2>1, LeavesKeeps DEF Talk
    <2>3. \A r \in Sessions \ {session} : kept'[r] = kept[r] /\ disk'[r] = disk[r]
      BY <1>2, <2>1, LeavesKeeps, SaveOutcomes
    <2>4. ASSUME NEW r \in Sessions \ {session} PROVE kept'[r] \subseteq Talk(r)'
      <3>1. kept[r] \subseteq Talk(r)
        BY DEF NothingForgotten
      <3>2. kept'[r] = kept[r] /\ disk'[r] = disk[r] /\ r # session /\ r # session'
        BY <2>1, <2>3, <2>4
      <3> QED BY <2>1, <3>1, <3>2 DEF Talk
    <2> QED BY <1>1, <2>1, <2>2, <2>4 DEF NothingForgotten
  <1>14. CASE Crash
    <2>1. phase' = "down" /\ kept' = [s \in Sessions |-> Surviving(s)]
      BY <1>14 DEF Crash, Down
    <2>2. \A s \in Sessions : Surviving(s) \subseteq Talk(s)'
      BY <2>1 DEF Surviving, Talk
    <2> QED BY <2>1, <2>2 DEF NothingForgotten
  <1>15. CASE Restart
    <2>1. phase = "down" /\ phase' = "idle" /\ UNCHANGED <<disk, kept>>
      BY <1>15 DEF Restart
    <2>2. PICK s \in Sessions : Fresh(s) \/ Continued(s)
      BY <1>15 DEF Restart
    <2>3. session' = s /\ kept[s] \subseteq ToSet(talk')
      <3>1. kept[s] \subseteq IF disk[s].state = "saved" THEN ToSet(disk[s].talk) ELSE {}
        BY <2>1, TalkFile DEF NothingForgotten
      <3>2. CASE Fresh(s)
        BY <3>1, <3>2 DEF Fresh, None
      <3>3. CASE Continued(s)
        BY <3>1, <3>3 DEF Continued
      <3> QED BY <2>2, <3>2, <3>3
    <2>4. ASSUME NEW r \in Sessions PROVE kept[r] \subseteq Talk(r)'
      <3>1. kept[r] \subseteq Talk(r)
        BY DEF NothingForgotten
      <3> QED BY <2>1, <2>3, <3>1 DEF Talk
    <2> QED BY <2>1, <2>4 DEF NothingForgotten
  <1> QED
    BY <1>3, <1>4, <1>5, <1>6, <1>7, <1>8, <1>9, <1>10, <1>11, <1>12, <1>13, <1>14, <1>15
    DEF Next, KeyThread, Installer

-----------------------------------------------------------------------------
LEMMA FilledMore ==
  ASSUME NEW ts \in Seq(Turn), Filled(ts), NEW t, t.kind # "pending"
  PROVE  Filled(Append(ts, t))
  BY DEF Filled

LEMMA PushFilled ==
  ASSUME NEW st \in Seq(Snapshots), \A i \in DOMAIN st : Filled(st[i].turns),
         NEW x, Filled(x.turns)
  PROVE  \A i \in DOMAIN Append(st, x) : Filled(Append(st, x)[i].turns)
  <1>1. /\ DOMAIN Append(st, x) = DOMAIN st \cup {Len(st) + 1}
        /\ \A i \in DOMAIN st : Append(st, x)[i] = st[i]
        /\ Append(st, x)[Len(st) + 1] = x
    OBVIOUS
  <1> QED BY <1>1

LEMMA PopFilled ==
  ASSUME NEW st \in Seq(Snapshots), st # <<>>, \A i \in DOMAIN st : Filled(st[i].turns)
  PROVE  /\ Filled(Last(st).turns)
         /\ \A i \in DOMAIN Front(st) : Filled(Front(st)[i].turns)
  <1>1. /\ Len(st) \in DOMAIN st /\ DOMAIN Front(st) = 1..(Len(st) - 1)
        /\ \A i \in 1..(Len(st) - 1) : i \in DOMAIN st
    BY LastFront
  <1> QED BY <1>1, LastFront

LEMMA SaveFilled ==
  ASSUME SessionTyped, FilesFilled, Filled(turns), NEW d, d.turns = turns,
         SavesAs(session, d)
  PROVE  FilesFilled'
  <1>1. \A s \in Sessions : disk'[s] \in {d, disk[s], Torn}
    BY SaveOutcomes
  <1> QED BY <1>1 DEF FilesFilled, Torn

LEMMA FilledStep == ASSUME SessionTyped, AllFilled, [Next]_vars PROVE AllFilled'
  <1> SUFFICES ASSUME ~ raced' PROVE ScreenFilled' /\ StacksFilled' /\ FilesFilled'
    BY DEF AllFilled
  <1>1. ~ raced
    BY DEF Next, KeyThread, Installer, ServiceTurn, RunShellTurn, ServiceTurnEnds, ShellTurnEnds,
        Undo, Redo, Compact, System, LoadConversation, NewSession, LoadSession, SwitchModel,
        StartInstall,
        InstallEnds, InstallReports, Exit, Crash, Restart, vars
  <1>2. ScreenFilled /\ StacksFilled /\ FilesFilled
    BY <1>1 DEF AllFilled
  <1>3. /\ turns \in Seq(Turn) /\ undo \in Seq(Snapshots) /\ redo \in Seq(Snapshots)
        /\ disk \in [Sessions -> {None, Torn} \cup Saved] /\ session \in Sessions
    BY DEF SessionTyped, ContentOK, FilesOK
  <1>4. phase = "idle" => Filled(turns) /\ Filled(Current.turns)
    BY <1>2 DEF ScreenFilled, Current
  <1>5. Data.turns = turns
    BY DEF Data
  <1>6. /\ Filled(<<>>)
        /\ undo' = <<>> /\ redo' = <<>> => StacksFilled'
    BY DEF Filled, StacksFilled
  <1>7. /\ UNCHANGED disk => FilesFilled'
        /\ UNCHANGED <<undo, redo>> => StacksFilled'
        /\ UNCHANGED <<phase, turns>> => ScreenFilled'
    BY <1>2 DEF FilesFilled, StacksFilled, ScreenFilled
  <1>8. phase' \in {"idle", "chat"} /\ Filled(turns') => ScreenFilled'
    BY DEF ScreenFilled
  <1>9. CASE ServiceTurn \/ RunShellTurn
    <2>1. PICK k \in {"chat", "pending"} :
            /\ Exchange(k) /\ phase' = (IF k = "chat" THEN "chat" ELSE "shell") /\ disk' = disk
      BY <1>9 DEF ServiceTurn, RunShellTurn, files
    <2> DEFINE t == [of |-> count'.exchanges, kind |-> k]
    <2>2. turns' = Append(turns, t) /\ undo' = Append(undo, Current) /\ redo' = <<>>
      BY <2>1, ExchangeTypes
    <2>3. phase = "idle"
      BY <2>1 DEF Exchange, Ready
    <2>4. \A i \in DOMAIN undo' : Filled(undo'[i].turns)
      BY <1>3, <1>2, <1>4, <2>2, <2>3, PushFilled DEF StacksFilled
    <2>5. StacksFilled'
      BY <2>2, <2>4 DEF StacksFilled
    <2>6. t.kind = k
      OBVIOUS
    <2> HIDE DEF t
    <2>7. CASE k = "chat"
      <3>1. t.kind # "pending"
        BY <2>6, <2>7
      <3>2. Filled(turns')
        BY <1>3, <1>4, <2>2, <2>3, <3>1, FilledMore
      <3>3. phase' \in {"idle", "chat"}
        BY <2>1, <2>7
      <3> QED BY <1>7, <1>8, <2>1, <2>5, <3>2, <3>3
    <2>8. CASE k = "pending"
      <3>1. turns' # <<>> /\ Len(turns') = Len(turns) + 1
            /\ \A i \in 1..Len(turns) : turns'[i] = turns[i] /\ i \in DOMAIN turns
        BY <1>3, <2>2
      <3>2. \A i \in 1..(Len(turns') - 1) : turns'[i].kind # "pending"
        BY <1>3, <1>4, <2>3, <3>1 DEF Filled
      <3>3. phase' = "shell"
        BY <2>1, <2>8
      <3>4. ScreenFilled'
        BY <3>1, <3>2, <3>3 DEF ScreenFilled
      <3> QED BY <1>7, <2>1, <2>5, <3>4
    <2> QED BY <2>7, <2>8
  <1>10. CASE ServiceTurnEnds
    <2> DEFINE d == [Data EXCEPT !.talk = talk']
    <2>1. /\ phase = "chat" /\ phase' = "idle" /\ UNCHANGED <<turns, undo, redo>>
          /\ SavesAs(session, d)
      BY <1>10 DEF ServiceTurnEnds
    <2>2. d.turns = turns
      BY DEF Data
    <2>3. Filled(turns)
      BY <1>2, <2>1 DEF ScreenFilled
    <2> HIDE DEF d
    <2> QED BY <1>2, <1>7, <1>8, <2>1, <2>2, <2>3, SaveFilled
  <1>11. CASE ShellTurnEnds
    <2> DEFINE e == [of |-> count.exchanges, kind |-> "tool"]
    <2>1. /\ phase = "shell" /\ phase' = "idle" /\ UNCHANGED <<undo, redo, disk>>
          /\ turns' = [turns EXCEPT ![Len(turns)] = e]
      BY <1>11 DEF ShellTurnEnds, files
    <2>2. e.kind # "pending"
      OBVIOUS
    <2> HIDE DEF e
    <2>3. \A i \in 1..(Len(turns) - 1) : turns[i].kind # "pending"
      BY <1>2, <2>1 DEF ScreenFilled
    <2>4. ASSUME NEW i \in DOMAIN turns' PROVE turns'[i].kind # "pending"
      BY <1>3, <2>1, <2>2, <2>3, <2>4
    <2>5. Filled(turns')
      BY <2>4 DEF Filled
    <2> QED BY <1>7, <1>8, <2>1, <2>5
  <1>12. CASE Undo
    <2>1. /\ undo # <<>> /\ turns' = Last(undo).turns /\ undo' = Front(undo)
          /\ redo' = Append(redo, Current) /\ phase = "idle" /\ phase' = "idle" /\ disk' = disk
      BY <1>12 DEF Undo, Takes, Ready, files
    <2>2. Filled(turns') /\ \A i \in DOMAIN undo' : Filled(undo'[i].turns)
      BY <1>2, <1>3, <2>1, PopFilled DEF StacksFilled
    <2>3. \A i \in DOMAIN redo' : Filled(redo'[i].turns)
      BY <1>2, <1>3, <1>4, <2>1, PushFilled DEF StacksFilled
    <2> QED BY <1>7, <1>8, <2>1, <2>2, <2>3 DEF StacksFilled
  <1>13. CASE Redo
    <2>1. /\ redo # <<>> /\ turns' = Last(redo).turns /\ redo' = Front(redo)
          /\ undo' = Append(undo, Current) /\ phase = "idle" /\ phase' = "idle" /\ disk' = disk
      BY <1>13 DEF Redo, Takes, Ready, files
    <2>2. Filled(turns') /\ \A i \in DOMAIN redo' : Filled(redo'[i].turns)
      BY <1>2, <1>3, <2>1, PopFilled DEF StacksFilled
    <2>3. \A i \in DOMAIN undo' : Filled(undo'[i].turns)
      BY <1>2, <1>3, <1>4, <2>1, PushFilled DEF StacksFilled
    <2> QED BY <1>7, <1>8, <2>1, <2>2, <2>3 DEF StacksFilled
  <1>14. CASE Compact
    <2>1. /\ phase = "idle" /\ phase' = "idle" /\ UNCHANGED <<undo, redo, disk>>
          /\ turns' \in {<<>>} \cup {<<t>> : t \in {turns[i] : i \in {1} \cap DOMAIN turns}
                                            \cap [of : {0}, kind : {"install"}]}
      BY <1>14 DEF Compact, Ready, files
    <2>2. turns' = <<>> \/ \E t \in [of : {0}, kind : {"install"}] : turns' = <<t>>
      BY <2>1
    <2>3. \A t \in [of : {0}, kind : {"install"}] : Filled(<<t>>)
      BY DEF Filled
    <2>4. Filled(turns')
      BY <2>2, <2>3, <1>6
    <2> QED BY <1>7, <1>8, <2>1, <2>4
  <1>15. CASE NewSession
    <2>1. /\ phase = "idle" /\ phase' = "idle" /\ SavesAs(session, Data)
          /\ turns' = <<>> /\ undo' = <<>> /\ redo' = <<>>
      BY <1>15 DEF NewSession, Ready, Cleared
    <2> QED BY <1>5, <1>6, <1>2, <1>4, <1>8, <2>1, SaveFilled
  <1>16. CASE \E s \in Sessions : LoadSession(s)
    <2>1. PICK s \in Sessions : LoadSession(s)
      BY <1>16
    <2>2. /\ phase = "idle" /\ phase' = "idle" /\ SavesAs(session, Data)
          /\ turns' = disk[s].turns /\ undo' = <<>> /\ redo' = <<>> /\ disk[s].state = "saved"
      BY <2>1 DEF LoadSession, Ready, Cleared, Adopts
    <2>3. Filled(turns')
      BY <1>2, <2>2 DEF FilesFilled
    <2> QED BY <1>5, <1>6, <1>2, <1>4, <1>8, <2>2, <2>3, SaveFilled
  <1>17. CASE \E m \in Models : SwitchModel(m)
    <2>1. PICK m \in Models : SwitchModel(m)
      BY <1>17
    <2> DEFINE d == [Data EXCEPT !.model = m]
    <2>2. /\ phase = "idle" /\ UNCHANGED <<phase, turns, undo, redo>>
          /\ SavesAs(session, d)
      BY <2>1 DEF SwitchModel, Ready, content
    <2>3. d.turns = turns
      BY DEF Data
    <2> HIDE DEF d
    <2> QED BY <1>2, <1>4, <1>7, <2>2, <2>3, SaveFilled
  <1>23. CASE LoadConversation
    <2>1. /\ phase = "idle" /\ UNCHANGED <<phase, turns, undo, redo, disk>>
      BY <1>23 DEF LoadConversation, Ready, files
    <2> QED BY <1>7, <2>1
  <1>18. CASE System \/ StartInstall \/ InstallEnds \/ UNCHANGED vars
    BY <1>18, <1>7 DEF System, StartInstall, InstallEnds, content, files, vars
  <1>19. CASE InstallReports
    <2> DEFINE t == [of |-> 0, kind |-> "install"]
    <2>1. /\ UNCHANGED <<phase, undo, redo, disk>> /\ turns' = Append(turns, t)
          /\ raced' = (raced \/ phase = "shell")
      BY <1>19 DEF InstallReports, files
    <2>2. t.kind # "pending"
      OBVIOUS
    <2> HIDE DEF t
    <2>3. phase \in {"idle", "chat"} => Filled(turns')
      BY <1>2, <1>3, <2>1, <2>2, FilledMore DEF ScreenFilled
    <2>4. ScreenFilled'
      BY <2>1, <2>3 DEF ScreenFilled
    <2> QED BY <1>7, <2>1, <2>4
  <1>20. CASE Exit
    <2>1. /\ phase # "down" /\ phase' = "down" /\ SavesAs(session, Data)
          /\ raced' = (raced \/ phase = "shell") /\ UNCHANGED <<undo, redo>>
      BY <1>20 DEF Exit, Down, content
    <2>2. phase \in {"idle", "chat"}
      BY <2>1 DEF SessionTyped, FlagsOK, Phases
    <2>3. Filled(turns)
      BY <1>2, <2>2 DEF ScreenFilled
    <2>4. ScreenFilled'
      BY <2>1 DEF ScreenFilled
    <2> QED BY <1>5, <1>2, <1>7, <2>1, <2>3, <2>4, SaveFilled
  <1>21. CASE Crash
    <2>1. /\ phase' = "down" /\ UNCHANGED <<undo, redo>>
          /\ disk' \in {disk, [disk EXCEPT ![session] = Torn]}
      BY <1>21 DEF Crash, Down, content
    <2>2. FilesFilled'
      <3>1. \A s \in Sessions : disk'[s] \in {disk[s], Torn}
        BY <1>3, <2>1
      <3> QED BY <1>2, <3>1 DEF FilesFilled, Torn
    <2>3. ScreenFilled'
      BY <2>1 DEF ScreenFilled
    <2> QED BY <1>7, <2>1, <2>2, <2>3
  <1>22. CASE Restart
    <2>1. /\ phase' = "idle" /\ undo' = <<>> /\ redo' = <<>> /\ disk' = disk
      BY <1>22 DEF Restart, Cleared
    <2>2. Filled(turns')
      BY <1>22, <1>6, <1>2 DEF Restart, Fresh, Continued, FilesFilled
    <2> QED BY <1>6, <1>7, <1>8, <2>1, <2>2
  <1> QED
    BY <1>9, <1>10, <1>11, <1>12, <1>13, <1>14, <1>15, <1>16, <1>17, <1>18, <1>19, <1>20, <1>21, <1>22,
       <1>23
    DEF Next, KeyThread, Installer

-----------------------------------------------------------------------------
LEMMA OneMoreStays ==
  ASSUME SessionTyped, [Next]_vars, NEW a, NEW b, OneMore(a, b)
  PROVE  \E n \in 1..count'.exchanges : b = a \o Both(n)
  <1>1. /\ count.exchanges \in Nat /\ count'.exchanges \in Nat
        /\ count'.exchanges >= count.exchanges
    BY CountsStep, TuiAssumption DEF SessionTyped, FlagsOK, Counts
  <1>2. PICK n \in 1..count.exchanges : b = a \o Both(n)
    BY DEF OneMore
  <1>3. n \in 1..count'.exchanges
    BY <1>1
  <1> QED BY <1>2, <1>3

(* A question and its answer after a conversation.                         *)
LEMMA AnswerFollows ==
  ASSUME NEW t \in Seq(Messages), NEW q \in Messages, NEW a \in Messages
  PROVE  /\ Append(t \o <<q>>, a) = t \o <<q, a>>
         /\ (t \o <<>>) \o <<q, a>> = t \o <<q, a>>
  OBVIOUS

(* Pushing onto undo, popping from a stack.                                *)
LEMMA PushSteps ==
  ASSUME NEW st \in Seq(Snapshots), NEW x \in Snapshots, NEW new, new = Append(st, x)
  PROVE  /\ new # <<>> /\ Len(new) = Len(st) + 1 /\ Len(st) \in Nat /\ new[Len(new)] = x
         /\ \A i \in 1..(Len(new) - 1) :
              \/ i \in 1..(Len(st) - 1) /\ new[i] = st[i] /\ new[i + 1] = st[i + 1]
              \/ i = Len(st) /\ st # <<>> /\ new[i] = st[Len(st)] /\ new[i + 1] = x
  <1>1. /\ new # <<>> /\ Len(new) = Len(st) + 1 /\ Len(st) \in Nat /\ new[Len(new)] = x
    OBVIOUS
  <1>2. \A i \in 1..Len(st) : new[i] = st[i]
    OBVIOUS
  <1>3. new[Len(st) + 1] = x
    OBVIOUS
  <1>4. \A i \in 1..Len(st) : st # <<>>
    OBVIOUS
  <1>5. ASSUME NEW i \in 1..(Len(new) - 1)
        PROVE  \/ i \in 1..(Len(st) - 1) /\ new[i] = st[i] /\ new[i + 1] = st[i + 1]
               \/ i = Len(st) /\ st # <<>> /\ new[i] = st[Len(st)] /\ new[i + 1] = x
    BY <1>1, <1>2, <1>3, <1>4
  <1> QED BY <1>1, <1>5

LEMMA PopSteps ==
  ASSUME NEW st \in Seq(Snapshots), st # <<>>
  PROVE  LET new == Front(st) IN
         /\ Last(st) = st[Len(st)] /\ Len(new) = Len(st) - 1 /\ Len(new) \in Nat
         /\ \A i \in 1..(Len(new) - 1) : /\ i \in 1..(Len(st) - 1) /\ new[i] = st[i]
                                         /\ new[i + 1] = st[i + 1]
         /\ new # <<>> => /\ Len(new) \in 1..(Len(st) - 1) /\ Len(new) + 1 = Len(st)
                          /\ new[Len(new)] = st[Len(st) - 1]
  <1> DEFINE new == Front(st)
  <1>1. /\ Len(st) \in Nat \ {0} /\ Last(st) = st[Len(st)] /\ new \in Seq(Snapshots)
        /\ Len(new) = Len(st) - 1 /\ \A i \in 1..(Len(st) - 1) : new[i] = st[i]
    BY LastFront
  <1>2. new # <<>> => Len(new) > 0
    BY <1>1
  <1> HIDE DEF new
  <1>3. ASSUME NEW i \in 1..(Len(new) - 1)
        PROVE  i \in 1..(Len(st) - 1) /\ new[i] = st[i] /\ new[i + 1] = st[i + 1]
    BY <1>1
  <1>4. new # <<>> => /\ Len(new) \in 1..(Len(st) - 1) /\ Len(new) + 1 = Len(st)
                      /\ new[Len(new)] = st[Len(st) - 1]
    BY <1>1, <1>2
  <1> QED BY <1>1, <1>3, <1>4 DEF new

LEMMA ChainStep == ASSUME SessionTyped, Chain, [Next]_vars PROVE Chain'
  <1> SUFFICES ASSUME ~ edited' PROVE Steps' /\ NowIdle' /\ NowBusy'
    BY DEF Chain
  <1>1. /\ undo \in Seq(Snapshots) /\ redo \in Seq(Snapshots) /\ talk \in Seq(Messages)
        /\ Current \in Snapshots /\ Current.talk = talk
    BY NowTyped DEF SessionTyped, ContentOK, Current
  <1> DEFINE More(a, b) == \E n \in 1..count'.exchanges : b = a \o Both(n)
  <1>2. \A a, b : OneMore(a, b) => More(a, b)
    BY OneMoreStays
  <1>3. \A a, b : OneMore(a, b)' <=> (\E n \in 1..count'.exchanges : b' = a' \o Both(n))
    BY DEF OneMore, Both
  <1>4. CASE edited
    <2>1. phase' = "idle" /\ undo' = <<>> /\ redo' = <<>>
      BY <1>4
      DEF Next, KeyThread, Installer, ServiceTurn, RunShellTurn, ServiceTurnEnds, ShellTurnEnds,
          Undo, Redo, Compact, System, LoadConversation, NewSession, LoadSession, SwitchModel,
          StartInstall,
          InstallEnds, InstallReports, Exit, Crash, Restart, Cleared, Ready, vars
    <2> QED BY <2>1 DEF Steps, NowIdle, NowBusy
  <1>5. CASE ~ edited /\ undo' = <<>> /\ redo' = <<>> /\ phase' \in {"idle", "down"}
    BY <1>5 DEF Steps, NowIdle, NowBusy
  <1>6. CASE ~ edited /\ (ServiceTurn \/ RunShellTurn)
    <2>1. Steps /\ NowIdle
      BY <1>6 DEF Chain
    <2>2. PICK k \in {"chat", "pending"} : Exchange(k) /\ phase' = (IF k = "chat" THEN "chat" ELSE "shell")
            /\ talk' = IF k = "chat" THEN Append(talk, [of |-> count'.exchanges, role |-> "user"])
                       ELSE talk
      BY <1>6 DEF ServiceTurn, RunShellTurn
    <2>3. /\ undo' = Append(undo, Current) /\ redo' = <<>>
      BY <2>2, ExchangeTypes
    <2>4. phase = "idle"
      BY <2>2 DEF Exchange, Ready
    <2>5. /\ undo' # <<>> /\ undo'[Len(undo')] = Current
          /\ \A i \in 1..(Len(undo') - 1) :
               \/ i \in 1..(Len(undo) - 1) /\ undo'[i] = undo[i] /\ undo'[i + 1] = undo[i + 1]
               \/ i = Len(undo) /\ undo # <<>> /\ undo'[i] = undo[Len(undo)] /\ undo'[i + 1] = Current
      <3>1. undo \in Seq(Snapshots) /\ Current \in Snapshots /\ undo' = Append(undo, Current)
        BY <1>1, <2>3
      <3> QED BY <3>1, PushSteps
    <2>6. ASSUME NEW i \in 1..(Len(undo') - 1) PROVE More(undo'[i].talk, undo'[i + 1].talk)
      <3>1. OneMore(undo'[i].talk, undo'[i + 1].talk)
        BY <1>1, <2>1, <2>4, <2>5, <2>6 DEF Steps, NowIdle
      <3> QED BY <3>1, <1>2
    <2>7. Steps'
      <3>1. \A i \in 1..(Len(redo') - 1) : FALSE
        BY <2>3
      <3> QED BY <3>1, <2>6 DEF Steps, OneMore, Both
    <2>8. talk' = undo'[Len(undo')].talk
                    \o (IF phase' = "chat" THEN <<Said("user")'>> ELSE <<>>)
      <3>1. undo'[Len(undo')].talk = talk
        BY <1>1, <2>5
      <3>2. CASE k = "chat"
        <4> DEFINE q == [of |-> count'.exchanges, role |-> "user"]
        <4>1. Said("user")' = q
          BY DEF Said
        <4>2. talk' = Append(talk, q) /\ phase' = "chat"
          BY <2>2, <3>2
        <4> HIDE DEF q
        <4>3. Append(talk, q) = talk \o <<q>>
          BY <1>1
        <4> QED BY <3>1, <4>1, <4>2, <4>3
      <3>3. CASE k = "pending"
        <4>1. talk' = talk /\ phase' = "shell"
          BY <2>2, <3>3
        <4>2. talk = talk \o <<>>
          BY <1>1
        <4> QED BY <3>1, <4>1, <4>2
      <3> QED BY <3>2, <3>3
    <2>9. phase' # "idle"
      BY <2>2
    <2> QED BY <2>3, <2>5, <2>7, <2>8, <2>9 DEF NowIdle, NowBusy
  <1>7. CASE ~ edited /\ (ServiceTurnEnds \/ ShellTurnEnds)
    <2> DEFINE q == Said("user")
               a == Said("assistant")
               u == undo[Len(undo)].talk
    <2>1. Steps /\ NowBusy
      BY <1>7 DEF Chain
    <2>2. /\ phase \in {"chat", "shell"} /\ phase' = "idle" /\ UNCHANGED <<undo, redo, count>>
          /\ talk' = IF phase = "chat" THEN Append(talk, a) ELSE talk \o <<q, a>>
      BY <1>7 DEF ServiceTurnEnds, ShellTurnEnds
    <2>3. undo # <<>> /\ redo = <<>> /\ talk = u \o (IF phase = "chat" THEN <<q>> ELSE <<>>)
      BY <2>1, <2>2 DEF NowBusy
    <2>4. q \in Messages /\ a \in Messages /\ u \in Seq(Messages)
      <3>1. undo[Len(undo)] \in Snapshots
        BY <1>1, <2>3, StackTypes
      <3> QED BY <3>1, SaidTypes DEF Snapshots
    <2> HIDE DEF q, a, u
    <2>5. talk' = u \o <<q, a>>
      BY <2>2, <2>3, <2>4, AnswerFollows
    <2>6. <<q, a>> = Both(count.exchanges)
      BY DEF q, a, Said, Both
    <2>7. count.exchanges \in 1..count'.exchanges
      BY <2>2, TuiAssumption DEF SessionTyped, FlagsOK, Counts
    <2>8. More(u, talk')
      BY <2>5, <2>6, <2>7
    <2>9. NowIdle'
      BY <2>2, <2>3, <2>8 DEF NowIdle, OneMore, Both, u
    <2>10. Steps'
      BY <2>1, <2>2 DEF Steps, OneMore, Both
    <2> QED BY <2>2, <2>9, <2>10 DEF NowBusy
  <1>8. CASE ~ edited /\ Undo
    <2>1. Steps /\ NowIdle
      BY <1>8 DEF Chain
    <2>2. /\ undo # <<>> /\ talk' = Last(undo).talk /\ undo' = Front(undo)
          /\ redo' = Append(redo, Current) /\ phase = "idle" /\ phase' = "idle" /\ count' = count
      BY <1>8 DEF Undo, Takes, Ready
    <2>3. /\ talk' = undo[Len(undo)].talk
          /\ \A i \in 1..(Len(undo') - 1) : /\ i \in 1..(Len(undo) - 1) /\ undo'[i] = undo[i]
                                            /\ undo'[i + 1] = undo[i + 1]
          /\ undo' # <<>> => /\ Len(undo') \in 1..(Len(undo) - 1) /\ Len(undo') + 1 = Len(undo)
                             /\ undo'[Len(undo')] = undo[Len(undo) - 1]
                             /\ Len(undo) - 1 = Len(undo')
      BY <1>1, <2>2, PopSteps
    <2>4. /\ redo' # <<>> /\ redo'[Len(redo')] = Current
          /\ \A i \in 1..(Len(redo') - 1) :
               \/ i \in 1..(Len(redo) - 1) /\ redo'[i] = redo[i] /\ redo'[i + 1] = redo[i + 1]
               \/ i = Len(redo) /\ redo # <<>> /\ redo'[i] = redo[Len(redo)] /\ redo'[i + 1] = Current
      BY <1>1, <2>2, PushSteps
    <2>5. ASSUME NEW i \in 1..(Len(undo') - 1) PROVE OneMore(undo'[i].talk, undo'[i + 1].talk)
      BY <2>1, <2>3 DEF Steps
    <2>6. ASSUME NEW i \in 1..(Len(redo') - 1) PROVE OneMore(redo'[i + 1].talk, redo'[i].talk)
      BY <1>1, <2>1, <2>2, <2>4 DEF Steps, NowIdle
    <2>7. Steps'
      BY <2>2, <2>5, <2>6 DEF Steps, OneMore, Both
    <2>8. undo' # <<>> => OneMore(undo'[Len(undo')].talk, talk')
      BY <2>1, <2>3 DEF Steps
    <2>9. OneMore(talk', redo'[Len(redo')].talk)
      BY <1>1, <2>1, <2>2, <2>3, <2>4 DEF NowIdle
    <2>10. NowIdle'
      BY <2>2, <2>8, <2>9 DEF NowIdle, OneMore, Both
    <2> QED BY <2>2, <2>7, <2>10 DEF NowBusy
  <1>9. CASE ~ edited /\ Redo
    <2>1. Steps /\ NowIdle
      BY <1>9 DEF Chain
    <2>2. /\ redo # <<>> /\ talk' = Last(redo).talk /\ redo' = Front(redo)
          /\ undo' = Append(undo, Current) /\ phase = "idle" /\ phase' = "idle" /\ count' = count
      BY <1>9 DEF Redo, Takes, Ready
    <2>3. /\ talk' = redo[Len(redo)].talk
          /\ \A i \in 1..(Len(redo') - 1) : /\ i \in 1..(Len(redo) - 1) /\ redo'[i] = redo[i]
                                            /\ redo'[i + 1] = redo[i + 1]
          /\ redo' # <<>> => /\ Len(redo') \in 1..(Len(redo) - 1) /\ Len(redo') + 1 = Len(redo)
                             /\ redo'[Len(redo')] = redo[Len(redo) - 1]
                             /\ Len(redo) - 1 = Len(redo')
      BY <1>1, <2>2, PopSteps
    <2>4. /\ undo' # <<>> /\ undo'[Len(undo')] = Current
          /\ \A i \in 1..(Len(undo') - 1) :
               \/ i \in 1..(Len(undo) - 1) /\ undo'[i] = undo[i] /\ undo'[i + 1] = undo[i + 1]
               \/ i = Len(undo) /\ undo # <<>> /\ undo'[i] = undo[Len(undo)] /\ undo'[i + 1] = Current
      <3>1. undo \in Seq(Snapshots) /\ Current \in Snapshots
        BY <1>1
      <3>2. undo' = Append(undo, Current)
        BY <2>2
      <3> QED BY <3>1, <3>2, PushSteps
    <2>5. ASSUME NEW i \in 1..(Len(redo') - 1) PROVE OneMore(redo'[i + 1].talk, redo'[i].talk)
      BY <2>1, <2>3 DEF Steps
    <2>6. ASSUME NEW i \in 1..(Len(undo') - 1) PROVE OneMore(undo'[i].talk, undo'[i + 1].talk)
      BY <1>1, <2>1, <2>2, <2>4 DEF Steps, NowIdle
    <2>7. Steps'
      BY <2>2, <2>5, <2>6 DEF Steps, OneMore, Both
    <2>8. redo' # <<>> => OneMore(talk', redo'[Len(redo')].talk)
      BY <2>1, <2>3 DEF Steps
    <2>9. OneMore(undo'[Len(undo')].talk, talk')
      BY <1>1, <2>1, <2>2, <2>3, <2>4 DEF NowIdle
    <2>10. NowIdle'
      BY <2>2, <2>8, <2>9 DEF NowIdle, OneMore, Both
    <2> QED BY <2>2, <2>7, <2>10 DEF NowBusy
  <1>10. CASE ~ edited /\ UNCHANGED <<talk, undo, redo>> /\ phase' = phase /\ count'.exchanges = count.exchanges
    <2>1. Steps /\ NowIdle /\ NowBusy
      BY <1>10 DEF Chain
    <2> QED BY <1>10, <2>1 DEF Steps, NowIdle, NowBusy, OneMore, Both, Said
  <1>11. CASE ~ edited /\ (Exit \/ Crash)
    <2>1. Steps /\ UNCHANGED <<undo, redo, count>> /\ phase' = "down"
      BY <1>11 DEF Exit, Crash, Down, content, Chain
    <2> QED BY <2>1 DEF Steps, NowIdle, NowBusy, OneMore, Both
  <1>12. CASE ~ edited /\ ~ (ServiceTurn \/ RunShellTurn \/ ServiceTurnEnds \/ ShellTurnEnds
                            \/ Undo \/ Redo \/ Exit \/ Crash)
    <2>1. CASE NewSession \/ (\E s \in Sessions : LoadSession(s)) \/ Restart
      <3>1. undo' = <<>> /\ redo' = <<>> /\ phase' = "idle"
        BY <2>1 DEF NewSession, LoadSession, Restart, Cleared, Ready
      <3> QED BY <1>5, <1>12, <3>1
    <2>2. CASE (\E m \in Models : SwitchModel(m)) \/ StartInstall \/ InstallEnds \/ InstallReports
                 \/ UNCHANGED vars
      <3>1. UNCHANGED <<talk, undo, redo>> /\ phase' = phase
        BY <2>2 DEF SwitchModel, StartInstall, InstallEnds, InstallReports, content, vars
      <3> QED BY <1>10, <1>12, <3>1, CountsStep
    <2>3. ~ Compact /\ ~ System /\ ~ LoadConversation
      BY DEF Compact, System, LoadConversation
    <2> QED BY <1>12, <2>1, <2>2, <2>3 DEF Next, KeyThread, Installer
  <1> QED BY <1>4, <1>6, <1>7, <1>8, <1>9, <1>11, <1>12

-----------------------------------------------------------------------------
LEMMA SessionStart == Init => SessionInv
  <1> SUFFICES ASSUME Init PROVE SessionInv
    OBVIOUS
  <1>1. ContentOK
    BY DEF Init, ContentOK
  <1>2. FilesOK
    BY TuiAssumption DEF Init, FilesOK, Sessions
  <1>3. ModelOK /\ ShownModelAnswers
    BY DEF Init, ModelOK, ShownModelAnswers
  <1>4. FlagsOK
    <2>1. 0 \in 0..MaxExchanges /\ 0 \in 0..MaxInstalls /\ 0 \in 0..MaxEdits /\ 0 \in 0..MaxRestarts
      BY TuiAssumption
    <2>2. count \in Counts
      BY <2>1 DEF Init, Counts
    <2>3. adopted \in BOOLEAN /\ raced \in BOOLEAN /\ edited \in BOOLEAN /\ phase = "idle"
      BY DEF Init
    <2> QED BY <2>2, <2>3 DEF FlagsOK, Phases
  <1>5. InstallsOK
    <2>1. installing \in BOOLEAN /\ ~ installing /\ reporting = 0 /\ count.installs = 0
      BY DEF Init
    <2> QED BY <2>1 DEF InstallsOK
  <1>6. Asked /\ NothingForgotten
    BY DEF Init, Asked, NothingForgotten
  <1>7. Chain
    BY DEF Init, Chain, Steps, NowIdle, NowBusy
  <1>8. AllFilled
    BY DEF Init, AllFilled, ScreenFilled, StacksFilled, FilesFilled, Filled, None
  <1> QED BY <1>1, <1>2, <1>3, <1>4, <1>5, <1>6, <1>7, <1>8 DEF SessionInv, SessionTyped

LEMMA SessionStep == SessionInv /\ [Next]_vars => SessionInv'
  <1> SUFFICES ASSUME SessionInv, [Next]_vars PROVE SessionInv'
    OBVIOUS
  <1>1. SessionTyped /\ Asked /\ NothingForgotten /\ Chain /\ AllFilled /\ ShownModelAnswers
    BY DEF SessionInv
  <1>2. SessionTyped'
    BY <1>1, SessionTypesStep
  <1>3. Asked'
    BY <1>1, AskedStep
  <1>4. NothingForgotten'
    BY <1>1, KeptStep
  <1>5. Chain'
    BY <1>1, ChainStep
  <1>6. AllFilled'
    BY <1>1, FilledStep
  <1>7. ShownModelAnswers'
    BY <1>1, ModelAnswersStep
  <1> QED BY <1>2, <1>3, <1>4, <1>5, <1>6, <1>7 DEF SessionInv

LEMMA SessionTypeOK == SessionTyped => TypeOK
  <1> SUFFICES ASSUME SessionTyped PROVE TypeOK
    OBVIOUS
  <1>1. turns \in Seq(Turn) /\ talk \in Seq(Message)
    BY SeqGrows DEF SessionTyped, ContentOK, Messages
  <1>2. Snapshots \subseteq Snapshot
    BY SeqGrows DEF Snapshots, Snapshot, Messages
  <1>3. undo \in Seq(Snapshot) /\ redo \in Seq(Snapshot)
    BY <1>2, SeqGrows DEF SessionTyped, ContentOK
  <1>4. ASSUME NEW s \in Sessions
        PROVE  \/ disk[s] \in {None, Torn}
               \/ disk[s].turns \in Seq(Turn) /\ disk[s].talk \in Seq(Message)
                    /\ disk[s].model \in Models
    <2>1. disk[s] \in {None, Torn} \/ disk[s] \in Saved
      BY DEF SessionTyped, FilesOK
    <2> QED BY <2>1, SeqGrows DEF Saved, Messages
  <1>5. reporting \in 0..MaxInstalls
    <2>1. /\ reporting \in Nat /\ installing \in BOOLEAN
          /\ reporting + (IF installing THEN 1 ELSE 0) <= count.installs
          /\ count.installs \in 0..MaxInstalls
      BY DEF SessionTyped, InstallsOK, FlagsOK, Counts
    <2> QED BY <2>1, TuiAssumption
  <1> QED
    BY <1>1, <1>3, <1>4, <1>5
    DEF TypeOK, SessionTyped, FilesOK, ModelOK, FlagsOK, InstallsOK, Counts

LEMMA IdleScreenFilled == AllFilled => ShellTurnsFilled
  BY DEF AllFilled, ScreenFilled, Filled, ShellTurnsFilled

(* Undo takes back what the newest snapshot is short of: one exchange.     *)
LEMMA UndoOne ==
  ASSUME SessionInv, Undo
  PROVE  \/ edited
         \/ \E n \in 1..count.exchanges :
              talk = talk' \o <<[of |-> n, role |-> "user"], [of |-> n, role |-> "assistant"]>>
  <1>1. /\ undo # <<>> /\ talk' = Last(undo).talk /\ phase = "idle" /\ undo \in Seq(Snapshots)
    BY DEF Undo, Takes, Ready, SessionInv, SessionTyped, ContentOK
  <1>2. talk' = undo[Len(undo)].talk
    BY <1>1, LastFront
  <1>3. ~ edited => OneMore(undo[Len(undo)].talk, talk)
    BY <1>1 DEF SessionInv, Chain, NowIdle
  <1> QED BY <1>2, <1>3 DEF OneMore, Both

LEMMA DeskSteps == [MCNext]_<<vars, others>> => [Next]_vars
  BY DEF MCNext, vars

(* TuiSession: nothing a session was told is lost, but by an undo, a       *)
(* compaction, /load, a crash, a failed save as one leaves the session, or *)
(* by loading the session one is in; whatever mix of turns, edits,         *)
(* installs, saves that succeed or fail, crashes and restarts came before. *)
THEOREM NothingForgottenTheorem == MCSpec => []NothingForgotten
  <1>1. MCInit => SessionInv
    BY SessionStart DEF MCInit
  <1>2. SessionInv /\ [MCNext]_<<vars, others>> => SessionInv'
    BY SessionStep, DeskSteps
  <1>3. SessionInv => NothingForgotten
    BY DEF SessionInv
  <1> QED BY <1>1, <1>2, <1>3, PTL DEF MCSpec

(* TuiSession, _cmd_undo: it takes back one exchange, both its messages and*)
(* no other, unless /compact, /system or /load has changed the conversation*)
(* since.                                                                  *)
THEOREM UndoTheorem == MCSpec => UndoRollsBackOneExchange
  <1>1. MCInit => SessionInv
    BY SessionStart DEF MCInit
  <1>2. SessionInv /\ [MCNext]_<<vars, others>> => SessionInv'
    BY SessionStep, DeskSteps
  <1>3. SessionInv /\ [MCNext]_<<vars, others>> =>
          [Undo => \/ edited
                   \/ \E n \in 1..count.exchanges :
                        talk = talk' \o <<[of |-> n, role |-> "user"],
                                          [of |-> n, role |-> "assistant"]>>]_vars
    BY UndoOne
  <1> QED BY <1>1, <1>2, <1>3, PTL DEF MCSpec, UndoRollsBackOneExchange

(* TuiSession: a shell command shows its output, and the model the screen  *)
(* names is the one that answers, but for the races and the sessions taken *)
(* over that the property names.                                           *)
THEOREM ScreenTheorem == MCSpec => []ScreenHonest
  <1>1. MCInit => SessionInv
    BY SessionStart DEF MCInit
  <1>2. SessionInv /\ [MCNext]_<<vars, others>> => SessionInv'
    BY SessionStep, DeskSteps
  <1>3. SessionInv => ScreenHonest
    BY IdleScreenFilled DEF SessionInv, ScreenHonest
  <1> QED BY <1>1, <1>2, <1>3, PTL DEF MCSpec

-----------------------------------------------------------------------------
(* Calibration.  The six files of a run, in order, and their steps.        *)
LEMMA StepTable ==
  /\ K!StepOf[1] = "C" /\ K!StepOf[2] = "C" /\ K!StepOf[3] = "D"
  /\ K!StepOf[4] = "D" /\ K!StepOf[5] = "E" /\ K!StepOf[6] = "profile"
  /\ K!ProfileAt = 6 /\ DOMAIN K!Artifacts = 1..5
  BY DEF K!StepOf, K!ProfileAt, K!Artifacts

LEMMA FirstTable == K!FirstOf("C") = 1 /\ K!FirstOf("D") = 3 /\ K!FirstOf("E") = 5
  <1> DEFINE First(step, i) ==
        /\ i \in 1..K!ProfileAt /\ K!StepOf[i] = step
        /\ \A j \in 1..(i - 1) : K!StepOf[j] # step
  <1>1. \A i : First("C", i) <=> i = 1
    BY StepTable
  <1>2. \A i : First("D", i) <=> i = 3
    BY StepTable
  <1>3. \A i : First("E", i) <=> i = 5
    BY StepTable
  <1> QED BY <1>1, <1>2, <1>3 DEF K!FirstOf

Gateable == K!Linears \cup (0..Layers)
Runs == [pc : {"idle", "load", "train", "open", "fill"}, run : Nat,
         model : Paths \cup {"none"}, at : 1..6, kind : {"real", "placeholder"},
         gates : SUBSET Gateable]
Artifact == [run : Nat, kind : {"none", "torn", "real", "placeholder"},
             gates : SUBSET K!Linears]
Profile == [run : Nat, kind : {"none", "torn", "real"}, gates : SUBSET Gateable]
Busy(r) == state[r].pc # "idle"

RunnersOK ==
  /\ state \in [Runners -> Runs]
  /\ \A r \in Runners : Busy(r) => state[r].run \in 1..started /\ state[r].model \in Paths
OutputOK ==
  /\ file \in [1..5 -> Artifact] /\ \A i \in 1..5 : file[i].run <= started
  /\ profile \in [Paths -> Profile] /\ \A m \in Paths : profile[m].run <= started
LimitsOK ==
  /\ started \in 0..MaxRuns /\ mishaps \in 0..MaxFaults /\ mixed \subseteq 1..started

(* What a runner is at, at each point of a step.                           *)
Shape(s) ==
  /\ s.pc = "load" => s.at = 1 /\ s.kind = "real"
  /\ s.pc = "train" => s.at \in {1, 3, 5} /\ s.kind = "real"
  /\ s.at = 6 => s.pc \in {"open", "fill"}
  /\ s.at \in {3, 4} /\ s.pc \in {"open", "fill"} /\ s.kind = "real" => s.gates \subseteq K!Linears
Shaped == \A r \in Runners : Busy(r) => Shape(state[r])

(* A run that began alone and is the last is the only one.                 *)
Sole == started \notin mixed
OnlyOne ==
  Sole => \A r \in Runners : Busy(r) => /\ state[r].run = started
                                        /\ \A q \in Runners : Busy(q) => q = r

(* The files such a run has behind it are whole, its own, and of one kind  *)
(* within a step; what it enabled is in the weights.                       *)
Whole(i, n) == file[i].run = n /\ file[i].kind \in {"real", "placeholder"}
Behind(s) ==
  /\ \A i \in 1..5 : i < s.at => Whole(i, s.run)
  /\ s.at = 2 => file[1].kind = s.kind
  /\ s.at > 2 => file[1].kind = file[2].kind
  /\ s.at = 4 => file[3].kind = s.kind
  /\ s.at > 4 => file[3].kind = file[4].kind
  /\ s.at > 3 /\ file[3].kind = "real" => file[3].gates = s.gates
Progress == Sole => \A r \in Runners : Busy(r) => Behind(state[r])

(* Its profile ends it.                                                    *)
Complete(p) ==
  /\ \A r \in Runners : ~ Busy(r)
  /\ \A i \in 1..5 : Whole(i, p.run)
  /\ file[1].kind = file[2].kind /\ file[3].kind = file[4].kind
  /\ file[3].kind = "real" => p.gates = file[3].gates
Ended ==
  Sole => \A m \in Paths : profile[m].kind = "real" /\ profile[m].run = started
                             => Complete(profile[m])

CalTyped == RunnersOK /\ OutputOK /\ LimitsOK
CalInv == CalTyped /\ Shaped /\ OnlyOne /\ Progress /\ Ended

LEMMA CalBounds == MaxRuns \in Nat /\ MaxFaults \in Nat /\ Layers \in Nat
  BY DeskAssumption DEF K!CalibrationAssumption

LEMMA IdleTyped ==
  /\ K!Idle \in Runs /\ K!Idle.pc = "idle" /\ K!Idle.at = 1 /\ K!Idle.kind = "real"
  /\ K!Idle.gates = {}
  BY DEF K!Idle, Runs

(* One runner moves on within its run, or gives it up: the files stay.     *)
LEMMA MovesOn ==
  ASSUME CalInv, NEW r \in Runners, Busy(r), NEW t \in Runs,
         state' = [state EXCEPT ![r] = t], UNCHANGED <<file, profile, started, mixed>>,
         mishaps' \in 0..MaxFaults,
         t.pc # "idle" => /\ t.run = state[r].run /\ t.model = state[r].model /\ Shape(t)
                          /\ Sole => Behind(t)
  PROVE  CalInv'
  <1>1. /\ state \in [Runners -> Runs] /\ state' \in [Runners -> Runs] /\ state'[r] = t
        /\ \A q \in Runners \ {r} : state'[q] = state[q]
    BY DEF CalInv, CalTyped, RunnersOK
  <1>2. \A q \in Runners : Busy(q)' => Busy(q)
    BY <1>1 DEF Busy
  <1>3. RunnersOK'
    <2>1. ASSUME NEW q \in Runners, Busy(q)'
          PROVE  state'[q].run \in 1..started /\ state'[q].model \in Paths
      <3>1. state[q].run \in 1..started /\ state[q].model \in Paths
        BY <1>2, <2>1 DEF CalInv, CalTyped, RunnersOK
      <3> QED BY <1>1, <2>1, <3>1 DEF Busy
    <2> QED BY <1>1, <2>1 DEF RunnersOK, Busy
  <1>4. OutputOK' /\ LimitsOK'
    BY DEF CalInv, CalTyped, OutputOK, LimitsOK
  <1>5. Shaped'
    BY <1>1, <1>2 DEF CalInv, Shaped, Busy
  <1>6. OnlyOne'
    BY <1>1, <1>2 DEF CalInv, OnlyOne, Sole, Busy
  <1>7. Progress'
    <2>1. ASSUME Sole, NEW q \in Runners, Busy(q)' PROVE Behind(state[q])'
      <3>1. Behind(state'[q])
        BY <1>1, <1>2, <2>1 DEF CalInv, Progress, Busy
      <3> QED BY <3>1 DEF Behind, Whole
    <2>2. Sole' => Sole
      BY DEF Sole
    <2> QED BY <2>1, <2>2 DEF Progress
  <1>8. Ended'
    <2>1. ASSUME Sole, NEW m \in Paths, profile[m].kind = "real", profile[m].run = started
          PROVE  FALSE
      BY <2>1 DEF CalInv, Ended, Complete
    <2> QED BY <2>1 DEF Ended, Sole
  <1> QED BY <1>3, <1>4, <1>5, <1>6, <1>7, <1>8 DEF CalInv, CalTyped

LEMMA StartKeeps ==
  ASSUME CalInv, NEW r \in Runners, NEW m \in Paths, K!Start(r, m)
  PROVE  CalInv'
  <1> DEFINE t == [K!Idle EXCEPT !.pc = "load", !.model = m, !.run = started + 1]
  <1>1. started \in Nat /\ started + 1 \in 1..MaxRuns /\ started + 1 \in Nat
    BY CalBounds DEF CalInv, CalTyped, LimitsOK, K!Start
  <1>2. /\ t \in Runs /\ t.pc = "load" /\ t.at = 1 /\ t.kind = "real"
        /\ t.run = started + 1 /\ t.model = m
    BY IdleTyped, <1>1 DEF Runs
  <1>3. state' = [state EXCEPT ![r] = t]
    BY DEF K!Start
  <1> HIDE DEF t
  <1>4. /\ started' = started + 1 /\ UNCHANGED <<file, profile, mishaps>> /\ ~ Busy(r)
        /\ mixed' = IF K!Active = {} THEN mixed ELSE mixed \cup K!Active \cup {started + 1}
    BY DEF K!Start, Busy
  <1>5. /\ state \in [Runners -> Runs] /\ state' \in [Runners -> Runs] /\ state'[r] = t
        /\ \A q \in Runners \ {r} : state'[q] = state[q]
    BY <1>2, <1>3 DEF CalInv, CalTyped, RunnersOK
  <1>6. K!Active = {state[q].run : q \in {p \in Runners : Busy(p)}}
    BY DEF K!Active, Busy
  <1>7. K!Active \subseteq 1..started
    BY <1>6 DEF CalInv, CalTyped, RunnersOK
  <1>8. started' \notin mixed' => \A q \in Runners : ~ Busy(q)
    BY <1>4, <1>6
  <1>9. RunnersOK'
    <2>1. ASSUME NEW q \in Runners, Busy(q)'
          PROVE  state'[q].run \in 1..started' /\ state'[q].model \in Paths
      <3>1. CASE q = r
        BY <1>5, <1>2, <1>1, <1>4, <3>1
      <3>2. CASE q # r
        <4>1. state[q].run \in 1..started /\ state[q].model \in Paths
          BY <1>5, <2>1, <3>2 DEF CalInv, CalTyped, RunnersOK, Busy
        <4> QED BY <1>5, <1>1, <1>4, <3>2, <4>1
      <3> QED BY <3>1, <3>2
    <2> QED BY <1>5, <2>1 DEF RunnersOK, Busy
  <1>10. OutputOK'
    <2>1. /\ \A i \in 1..5 : file[i].run <= started /\ file[i].run \in Nat
          /\ \A p \in Paths : profile[p].run <= started /\ profile[p].run \in Nat
      BY DEF CalInv, CalTyped, OutputOK, Artifact, Profile
    <2> QED BY <1>4, <1>1, <2>1 DEF CalInv, CalTyped, OutputOK
  <1>11. LimitsOK'
    <2>1. mixed \subseteq 1..started
      BY DEF CalInv, CalTyped, LimitsOK
    <2>2. mixed' \subseteq 1..(started + 1)
      BY <1>4, <1>7, <1>1, <2>1
    <2> QED BY <1>4, <1>1, <2>2 DEF CalInv, CalTyped, LimitsOK
  <1>12. Shaped'
    <2>1. Shape(t)
      BY <1>2 DEF Shape
    <2> QED BY <1>5, <2>1 DEF CalInv, Shaped, Busy
  <1>13. OnlyOne'
    BY <1>5, <1>2, <1>4, <1>8 DEF OnlyOne, Sole, Busy
  <1>14. Progress'
    <2>1. Behind(state[r])'
      BY <1>5, <1>2 DEF Behind
    <2>2. ASSUME Sole', NEW q \in Runners, Busy(q)' PROVE q = r
      BY <1>5, <1>8, <2>2 DEF Sole, Busy
    <2> QED BY <2>1, <2>2 DEF Progress
  <1>15. Ended'
    <2>1. \A p \in Paths : profile[p].run <= started /\ profile[p].run \in Nat
      BY DEF CalInv, CalTyped, OutputOK, Profile
    <2> QED BY <1>4, <1>1, <2>1 DEF Ended
  <1> QED BY <1>9, <1>10, <1>11, <1>12, <1>13, <1>14, <1>15 DEF CalInv, CalTyped

LEMMA RunTyped ==
  ASSUME CalInv, NEW r \in Runners
  PROVE  /\ state[r] \in Runs /\ state[r].at \in 1..6 /\ state[r].kind \in {"real", "placeholder"}
         /\ state[r].gates \subseteq Gateable
         /\ state[r].run \in Nat
         /\ Busy(r) => Shape(state[r]) /\ (Sole => Behind(state[r]))
  BY DEF CalInv, CalTyped, RunnersOK, Runs, Shaped, Progress

LEMMA Mishaps == ASSUME CalInv, K!Mishap PROVE mishaps' \in 0..MaxFaults
  BY CalBounds DEF CalInv, CalTyped, LimitsOK, K!Mishap

LEMMA DefaultTyped == K!DefaultGates \subseteq Gateable
  BY CalBounds DEF K!DefaultGates, Gateable

LEMMA LoadedKeeps == ASSUME CalInv, NEW r \in Runners, K!Loaded(r) PROVE CalInv'
  <1> DEFINE s == state[r]
             t == [s EXCEPT !.pc = "train"]
  <1>1. /\ Busy(r) /\ s.pc = "load" /\ UNCHANGED <<file, profile, started, mishaps, mixed>>
        /\ state' = [state EXCEPT ![r].pc = "train"]
    BY DEF K!Loaded, Busy
  <1>2. s \in Runs /\ Shape(s) /\ (Sole => Behind(s))
    BY <1>1, RunTyped
  <1>3. /\ t \in Runs /\ t.pc = "train" /\ t.at = s.at /\ t.kind = s.kind /\ t.run = s.run
        /\ t.model = s.model /\ t.gates = s.gates
    BY <1>2 DEF Runs
  <1>4. state' = [state EXCEPT ![r] = t]
    BY <1>1
  <1>5. mishaps' \in 0..MaxFaults
    BY <1>1 DEF CalInv, CalTyped, LimitsOK
  <1> HIDE DEF s, t
  <1>6. Shape(t)
    BY <1>1, <1>2, <1>3 DEF Shape
  <1>7. Sole => Behind(t)
    BY <1>2, <1>3 DEF Behind
  <1> QED BY <1>1, <1>3, <1>4, <1>6, <1>7, <1>5, MovesOn DEF s

LEMMA StopsKeeps ==
  ASSUME CalInv, NEW r \in Runners, K!NotLoaded(r) \/ K!Interrupted(r)
  PROVE  CalInv'
  <1>1. /\ Busy(r) /\ UNCHANGED <<file, profile, started, mixed>> /\ K!Mishap
        /\ state' = [state EXCEPT ![r] = K!Idle]
    BY DEF K!NotLoaded, K!Interrupted, Busy
  <1> QED BY <1>1, IdleTyped, Mishaps, MovesOn

LEMMA TrainKeeps == ASSUME CalInv, NEW r \in Runners, K!Train(r) PROVE CalInv'
  <1> DEFINE s == state[r]
  <1>1. /\ Busy(r) /\ s.pc = "train" /\ UNCHANGED <<file, profile, started, mishaps, mixed>>
    BY DEF K!Train, Busy
  <1>2. s \in Runs /\ Shape(s) /\ (Sole => Behind(s)) /\ s.at \in {1, 3, 5} /\ s.kind = "real"
    BY <1>1, RunTyped DEF Shape
  <1>3. PICK g \in SUBSET K!Linears :
          state' = [state EXCEPT ![r].pc = "open",
                      ![r].gates = IF K!StepOf[s.at] = "D" THEN g ELSE @]
    <2>1. \A enough, good : K!Gates(enough, good) \in SUBSET K!Linears
      BY DEF K!Gates
    <2> QED BY <2>1 DEF K!Train
  <1> DEFINE t == [s EXCEPT !.pc = "open", !.gates = IF s.at = 3 THEN g ELSE @]
  <1>4. K!StepOf[s.at] = "D" <=> s.at = 3
    BY <1>2, StepTable
  <1>5. state' = [state EXCEPT ![r] = t]
    BY <1>3, <1>4
  <1>6. /\ t \in Runs /\ t.pc = "open" /\ t.at = s.at /\ t.kind = s.kind /\ t.run = s.run
        /\ t.model = s.model
        /\ t.gates = (IF s.at = 3 THEN g ELSE s.gates)
    BY <1>2 DEF Runs, Gateable
  <1>7. mishaps' \in 0..MaxFaults
    BY <1>1 DEF CalInv, CalTyped, LimitsOK
  <1> HIDE DEF s, t
  <1>8. Shape(t)
    BY <1>1, <1>2, <1>6 DEF Shape
  <1>9. Sole => Behind(t)
    BY <1>2, <1>6 DEF Behind
  <1> QED BY <1>1, <1>5, <1>6, <1>8, <1>9, <1>7, MovesOn DEF s

LEMMA FailsKeeps == ASSUME CalInv, NEW r \in Runners, K!Fails(r) PROVE CalInv'
  <1> DEFINE s == state[r]
             d == K!StepOf[s.at] = "D"
             t == [s EXCEPT !.kind = "placeholder", !.pc = "open",
                            !.at = K!FirstOf(K!StepOf[s.at]),
                            !.gates = IF d THEN K!DefaultGates ELSE @]
  <1>1. /\ Busy(r) /\ s.pc \in {"train", "open", "fill"} /\ K!Mishap
        /\ UNCHANGED <<file, profile, started, mixed>>
        /\ state' = [state EXCEPT ![r] =
             IF s.kind = "real" /\ K!HasFallback(K!StepOf[s.at]) THEN t ELSE K!Idle]
    BY DEF K!Fails, Busy
  <1>2. mishaps' \in 0..MaxFaults
    BY <1>1, Mishaps
  <1>3. s \in Runs /\ Shape(s) /\ (Sole => Behind(s)) /\ s.at \in 1..6
    BY <1>1, RunTyped
  <1>4. CASE s.kind = "real" /\ K!HasFallback(K!StepOf[s.at])
    <2>1. s.at \in 1..5
      BY <1>3, <1>4, StepTable DEF K!HasFallback
    <2>2. d <=> s.at \in {3, 4}
      BY <2>1, StepTable
    <2> DEFINE f == IF s.at \in {1, 2} THEN 1 ELSE IF s.at \in {3, 4} THEN 3 ELSE 5
    <2>3. K!FirstOf(K!StepOf[s.at]) = f
      BY <2>1, StepTable, FirstTable
    <2>4. f \in 1..6 /\ f <= s.at /\ f \in {1, 3, 5}
          /\ (s.at \in {1, 2} <=> f = 1) /\ (s.at \in {3, 4} <=> f = 3) /\ (f = 5 <=> s.at = 5)
      BY <2>1
    <2> HIDE DEF f, d
    <2>5. /\ t \in Runs /\ t.pc = "open" /\ t.at = f /\ t.kind = "placeholder"
          /\ t.run = s.run /\ t.model = s.model
          /\ t.gates = (IF d THEN K!DefaultGates ELSE s.gates)
      BY <1>3, <2>3, <2>4, DefaultTyped DEF Runs
    <2> HIDE DEF s, t
    <2>6. Shape(t)
      BY <1>1, <1>3, <2>1, <2>2, <2>4, <2>5 DEF Shape
    <2>7. Sole => Behind(t)
      BY <1>3, <2>1, <2>2, <2>4, <2>5 DEF Behind, Whole
    <2>8. state' = [state EXCEPT ![r] = t]
      BY <1>1, <1>4
    <2> QED BY <1>1, <1>2, <2>5, <2>6, <2>7, <2>8, MovesOn DEF s
  <1>5. CASE ~ (s.kind = "real" /\ K!HasFallback(K!StepOf[s.at]))
    <2>1. state' = [state EXCEPT ![r] = K!Idle]
      BY <1>1, <1>5
    <2> QED BY <1>1, <1>2, <2>1, IdleTyped, MovesOn
  <1> QED BY <1>4, <1>5

(* What a step of one runner leaves: the others, and who is alone.         *)
LEMMA OthersStay ==
  ASSUME CalInv, NEW r \in Runners, Busy(r), NEW t \in Runs,
         state' = [state EXCEPT ![r] = t], UNCHANGED <<started, mishaps, mixed>>,
         t.pc # "idle" => t.run = state[r].run /\ t.model = state[r].model /\ Shape(t)
  PROVE  /\ state'[r] = t /\ \A q \in Runners \ {r} : state'[q] = state[q]
         /\ \A q \in Runners : Busy(q)' => Busy(q)
         /\ RunnersOK' /\ LimitsOK' /\ Shaped' /\ OnlyOne' /\ (Sole' <=> Sole)
         /\ Sole => \A q \in Runners : Busy(q) => q = r
         /\ Sole => \A m \in Paths : ~ (profile[m].kind = "real" /\ profile[m].run = started)
         /\ state[r].run \in 1..started /\ state[r].model \in Paths
         /\ Sole => state[r].run = started
  <1>1. /\ state \in [Runners -> Runs] /\ state' \in [Runners -> Runs] /\ state'[r] = t
        /\ \A q \in Runners \ {r} : state'[q] = state[q]
    BY DEF CalInv, CalTyped, RunnersOK
  <1>2. \A q \in Runners : Busy(q)' => Busy(q)
    BY <1>1 DEF Busy
  <1>3. RunnersOK'
    <2>1. ASSUME NEW q \in Runners, Busy(q)'
          PROVE  state'[q].run \in 1..started /\ state'[q].model \in Paths
      <3>1. state[q].run \in 1..started /\ state[q].model \in Paths
        BY <1>2, <2>1 DEF CalInv, CalTyped, RunnersOK
      <3> QED BY <1>1, <2>1, <3>1 DEF Busy
    <2> QED BY <1>1, <2>1 DEF RunnersOK, Busy
  <1>4. LimitsOK'
    BY DEF CalInv, CalTyped, LimitsOK
  <1>5. Shaped'
    BY <1>1, <1>2 DEF CalInv, Shaped, Busy
  <1>6. OnlyOne'
    BY <1>1, <1>2 DEF CalInv, OnlyOne, Sole, Busy
  <1>7. Sole' <=> Sole
    BY DEF Sole
  <1>8. Sole => /\ \A q \in Runners : Busy(q) => q = r
                /\ state[r].run = started
                /\ \A m \in Paths : ~ (profile[m].kind = "real" /\ profile[m].run = started)
    BY DEF CalInv, OnlyOne, Ended, Complete
  <1>9. state[r].run \in 1..started /\ state[r].model \in Paths
    BY DEF CalInv, CalTyped, RunnersOK
  <1> QED BY <1>1, <1>2, <1>3, <1>4, <1>5, <1>6, <1>7, <1>8, <1>9

LEMMA WritesFile ==
  ASSUME CalInv, NEW r \in Runners, Busy(r), NEW t \in Runs,
         state' = [state EXCEPT ![r] = t], UNCHANGED <<started, mishaps, mixed>>,
         t.pc # "idle", t.run = state[r].run, t.model = state[r].model, Shape(t),
         NEW i \in 1..5, NEW e \in Artifact, e.run = state[r].run,
         file' = [file EXCEPT ![i] = e], profile' = profile,
         Sole => Behind(state[r])'
  PROVE  CalInv'
  <1>1. /\ state'[r] = t /\ \A q \in Runners \ {r} : state'[q] = state[q]
        /\ \A q \in Runners : Busy(q)' => Busy(q)
        /\ RunnersOK' /\ LimitsOK' /\ Shaped' /\ OnlyOne' /\ (Sole' <=> Sole)
        /\ Sole => \A q \in Runners : Busy(q) => q = r
        /\ Sole => \A m \in Paths : ~ (profile[m].kind = "real" /\ profile[m].run = started)
        /\ state[r].run \in 1..started
    BY OthersStay
  <1>2. OutputOK'
    <2>1. /\ file \in [1..5 -> Artifact] /\ \A j \in 1..5 : file[j].run <= started
      BY DEF CalInv, CalTyped, OutputOK
    <2>2. e.run <= started
      BY <1>1 DEF CalInv, CalTyped, LimitsOK
    <2>3. file' \in [1..5 -> Artifact] /\ \A j \in 1..5 : file'[j].run <= started
      BY <2>1, <2>2
    <2> QED BY <2>3 DEF CalInv, CalTyped, OutputOK
  <1>3. Progress'
    BY <1>1 DEF Progress
  <1>4. Ended'
    BY <1>1 DEF Ended
  <1> QED BY <1>1, <1>2, <1>3, <1>4 DEF CalInv, CalTyped

LEMMA WritesProfile ==
  ASSUME CalInv, NEW r \in Runners, Busy(r), NEW t \in Runs,
         state' = [state EXCEPT ![r] = t], UNCHANGED <<started, mishaps, mixed>>,
         t.pc # "idle" => /\ t.run = state[r].run /\ t.model = state[r].model /\ Shape(t)
                          /\ Sole => Behind(t),
         NEW p \in Profile, p.run = state[r].run,
         profile' = [profile EXCEPT ![state[r].model] = p], file' = file,
         Sole /\ p.kind = "real" =>
           /\ t.pc = "idle" /\ \A i \in 1..5 : Whole(i, p.run)
           /\ file[1].kind = file[2].kind /\ file[3].kind = file[4].kind
           /\ file[3].kind = "real" => p.gates = file[3].gates
  PROVE  CalInv'
  <1>1. /\ state'[r] = t /\ \A q \in Runners \ {r} : state'[q] = state[q]
        /\ \A q \in Runners : Busy(q)' => Busy(q)
        /\ RunnersOK' /\ LimitsOK' /\ Shaped' /\ OnlyOne' /\ (Sole' <=> Sole)
        /\ Sole => \A q \in Runners : Busy(q) => q = r
        /\ Sole => \A m \in Paths : ~ (profile[m].kind = "real" /\ profile[m].run = started)
        /\ state[r].run \in 1..started /\ state[r].model \in Paths
    BY OthersStay
  <1>2. /\ profile \in [Paths -> Profile] /\ \A m \in Paths : profile[m].run <= started
    BY DEF CalInv, CalTyped, OutputOK
  <1>3. /\ profile' \in [Paths -> Profile]
        /\ \A m \in Paths : profile'[m] = IF m = state[r].model THEN p ELSE profile[m]
    BY <1>2
  <1>4. OutputOK'
    <2>1. p.run <= started
      BY <1>1 DEF CalInv, CalTyped, LimitsOK
    <2>2. \A m \in Paths : profile'[m].run <= started
      BY <1>2, <1>3, <2>1
    <2> QED BY <1>3, <2>2 DEF CalInv, CalTyped, OutputOK
  <1>5. Progress'
    <2>1. ASSUME Sole, NEW q \in Runners, Busy(q)' PROVE Behind(state[q])'
      <3>1. q = r /\ t.pc # "idle"
        BY <1>1, <2>1 DEF Busy
      <3>2. Behind(t)
        BY <2>1, <3>1
      <3>3. state'[q] = t /\ file' = file
        BY <1>1, <3>1
      <3> QED BY <3>2, <3>3 DEF Behind, Whole
    <2> QED BY <1>1, <2>1 DEF Progress
  <1>6. Ended'
    <2>1. ASSUME Sole, NEW m \in Paths, profile'[m].kind = "real", profile'[m].run = started
          PROVE  Complete(profile[m])'
      <3>1. profile'[m] = p
        BY <1>1, <1>3, <2>1
      <3>2. t.pc = "idle"
        BY <2>1, <3>1
      <3>3. \A q \in Runners : ~ Busy(q)'
        BY <1>1, <2>1, <3>2 DEF Busy
      <3>4. /\ \A i \in 1..5 : Whole(i, p.run)
            /\ file[1].kind = file[2].kind /\ file[3].kind = file[4].kind
            /\ file[3].kind = "real" => p.gates = file[3].gates
        BY <2>1, <3>1
      <3> QED BY <3>1, <3>3, <3>4 DEF Complete, Whole
    <2> QED BY <1>1, <2>1 DEF Ended
  <1> QED BY <1>1, <1>4, <1>5, <1>6 DEF CalInv, CalTyped

LEMMA OpenKeeps == ASSUME CalInv, NEW r \in Runners, K!Open(r) PROVE CalInv'
  <1> DEFINE s == state[r]
             t == [s EXCEPT !.pc = "fill"]
  <1>1. /\ Busy(r) /\ s.pc = "open" /\ UNCHANGED <<started, mishaps, mixed>>
        /\ state' = [state EXCEPT ![r] = t]
    BY DEF K!Open, Busy
  <1>2. s \in Runs /\ Shape(s) /\ (Sole => Behind(s)) /\ s.at \in 1..6 /\ s.run \in Nat
    BY <1>1, RunTyped
  <1>3. /\ t \in Runs /\ t.pc = "fill" /\ t.at = s.at /\ t.kind = s.kind /\ t.run = s.run
        /\ t.model = s.model /\ t.gates = s.gates
    BY <1>2 DEF Runs
  <1>4. state'[r] = t
    BY <1>1 DEF CalInv, CalTyped, RunnersOK
  <1>5. CASE s.at = 6
    <2> DEFINE p == [K!NoProfile EXCEPT !.run = s.run, !.kind = "torn"]
    <2>1. profile' = [profile EXCEPT ![s.model] = p] /\ file' = file
      BY <1>5, StepTable DEF K!Open
    <2>2. p \in Profile /\ p.run = s.run /\ p.kind = "torn"
      BY <1>2 DEF Profile, K!NoProfile, K!NoFile
    <2> HIDE DEF s, t, p
    <2>3. Shape(t)
      BY <1>1, <1>2, <1>3 DEF Shape
    <2>4. Sole => Behind(t)
      BY <1>2, <1>3 DEF Behind
    <2> QED BY <1>1, <1>3, <2>1, <2>2, <2>3, <2>4, WritesProfile DEF s
  <1>6. CASE s.at # 6
    <2> DEFINE e == [K!NoFile EXCEPT !.run = s.run, !.kind = "torn"]
    <2>1. file' = [file EXCEPT ![s.at] = e] /\ profile' = profile /\ s.at \in 1..5
      BY <1>2, <1>6, StepTable DEF K!Open
    <2>2. e \in Artifact /\ e.run = s.run
      BY <1>2 DEF Artifact, K!NoFile
    <2> HIDE DEF s, t, e
    <2>3. Shape(t)
      BY <1>1, <1>2, <1>3 DEF Shape
    <2>4. \A i \in 1..5 : i # s.at => file'[i] = file[i]
      BY <2>1 DEF CalInv, CalTyped, OutputOK
    <2>5. Sole => Behind(state[r])'
      BY <1>2, <1>3, <1>4, <2>1, <2>4 DEF Behind, Whole
    <2> QED BY <1>1, <1>3, <2>1, <2>2, <2>3, <2>5, WritesFile DEF s
  <1> QED BY <1>5, <1>6

LEMMA AfterRun ==
  ASSUME NEW s \in Runs, s.at \in 1..5, s.pc = "fill", Shape(s)
  PROVE  LET t == K!After(s) IN
         /\ t \in Runs /\ t.at = s.at + 1 /\ t.run = s.run /\ t.model = s.model
         /\ t.gates = s.gates /\ Shape(t) /\ t.pc # "idle"
         /\ t.kind = IF s.at \in {1, 3} THEN s.kind ELSE "real"
  <1> DEFINE pc1 == IF s.at \in {1, 3} THEN "open" ELSE IF s.at = 5 THEN "open" ELSE "train"
             kind1 == IF s.at \in {1, 3} THEN s.kind ELSE "real"
             t == K!After(s)
  <1>1. t = [s EXCEPT !.at = s.at + 1, !.kind = kind1, !.pc = pc1]
    <2>1. CASE s.at \in {1, 3}
      <3>1. K!StepOf[s.at + 1] = K!StepOf[s.at] /\ s.at # K!ProfileAt
        BY <2>1, StepTable
      <3>2. t = [s EXCEPT !.at = s.at + 1, !.pc = "open"]
        BY <3>1 DEF K!After
      <3>3. kind1 = s.kind /\ pc1 = "open"
        BY <2>1
      <3> QED BY <3>2, <3>3 DEF Runs
    <2>2. CASE s.at \in {2, 4, 5}
      <3>1. K!StepOf[s.at + 1] # K!StepOf[s.at] /\ s.at # K!ProfileAt
        BY <2>2, StepTable
      <3>2. K!HasFallback(K!StepOf[s.at + 1]) <=> s.at # 5
        BY <2>2, StepTable DEF K!HasFallback
      <3>3. t = [s EXCEPT !.at = s.at + 1, !.kind = "real",
                          !.pc = IF s.at # 5 THEN "train" ELSE "open"]
        BY <3>1, <3>2 DEF K!After
      <3>4. kind1 = "real" /\ pc1 = IF s.at # 5 THEN "train" ELSE "open"
        BY <2>2
      <3> QED BY <3>3, <3>4
    <2> QED BY <2>1, <2>2
  <1>2. pc1 \in {"open", "train"} /\ kind1 \in {"real", "placeholder"} /\ s.at + 1 \in 1..6
    BY DEF Runs
  <1>3. /\ pc1 = "train" => s.at \in {2, 4} /\ kind1 = "real"
        /\ s.at + 1 = 4 => kind1 = s.kind
        /\ s.at + 1 = 3 => pc1 = "train"
        /\ s.at = 5 => pc1 = "open"
    OBVIOUS
  <1> HIDE DEF pc1, kind1, t
  <1>4. /\ t \in Runs /\ t.at = s.at + 1 /\ t.run = s.run /\ t.model = s.model
        /\ t.gates = s.gates /\ t.pc = pc1 /\ t.kind = kind1
    BY <1>1, <1>2 DEF Runs
  <1>5. Shape(t)
    BY <1>2, <1>3, <1>4 DEF Shape
  <1> QED BY <1>2, <1>4, <1>5 DEF t, kind1

LEMMA FillKeeps == ASSUME CalInv, NEW r \in Runners, K!Fill(r) PROVE CalInv'
  <1> DEFINE s == state[r]
             t == K!After(s)
  <1>1. /\ Busy(r) /\ s.pc = "fill" /\ UNCHANGED <<started, mishaps, mixed>>
        /\ state' = [state EXCEPT ![r] = t]
    BY DEF K!Fill, Busy
  <1>2. s \in Runs /\ Shape(s) /\ (Sole => Behind(s)) /\ s.at \in 1..6 /\ s.run \in Nat
        /\ s.kind \in {"real", "placeholder"} /\ s.gates \subseteq Gateable
    BY <1>1, RunTyped
  <1>3. PICK b \in BOOLEAN :
          /\ b => K!Shares(r)
          /\ IF s.at = 6
             THEN /\ profile' = [profile EXCEPT ![s.model] =
                       [run |-> s.run, kind |-> IF b THEN "torn" ELSE "real",
                        gates |-> s.gates]]
                  /\ file' = file
             ELSE /\ file' = [file EXCEPT ![s.at] =
                       [run |-> s.run, kind |-> IF b THEN "torn" ELSE s.kind,
                        gates |-> IF K!StepOf[s.at] = "D" THEN K!GateWeights(s) ELSE {}]]
                  /\ profile' = profile
    BY StepTable DEF K!Fill
  <1>4. Sole => ~ b
    BY <1>1, <1>3 DEF K!Shares, CalInv, OnlyOne, Busy
  <1>5. CASE s.at = 6
    <2> DEFINE p == [run |-> s.run, kind |-> IF b THEN "torn" ELSE "real",
                     gates |-> s.gates]
    <2>1. profile' = [profile EXCEPT ![s.model] = p] /\ file' = file
      BY <1>3, <1>5
    <2>2. p \in Profile /\ p.run = s.run /\ p.gates = s.gates
      BY <1>2 DEF Profile
    <2>3. t = K!Idle
      BY <1>5, StepTable DEF K!After
    <2>4. t \in Runs /\ t.pc = "idle"
      BY <2>3, IdleTyped
    <2> HIDE DEF s, t, p
    <2>5. Sole => /\ \A i \in 1..5 : Whole(i, p.run)
                  /\ file[1].kind = file[2].kind /\ file[3].kind = file[4].kind
                  /\ file[3].kind = "real" => p.gates = file[3].gates
      BY <1>2, <1>5, <2>2 DEF Behind, Shape
    <2> QED BY <1>1, <2>1, <2>2, <2>4, <2>5, WritesProfile DEF s
  <1>6. CASE s.at # 6
    <2> DEFINE e == [run |-> s.run, kind |-> IF b THEN "torn" ELSE s.kind,
                     gates |-> IF K!StepOf[s.at] = "D" THEN K!GateWeights(s) ELSE {}]
    <2>1. file' = [file EXCEPT ![s.at] = e] /\ profile' = profile /\ s.at \in 1..5
      BY <1>2, <1>3, <1>6
    <2>2. /\ t \in Runs /\ t.at = s.at + 1 /\ t.run = s.run /\ t.model = s.model
          /\ t.gates = s.gates /\ Shape(t) /\ t.pc # "idle"
          /\ t.kind = IF s.at \in {1, 3} THEN s.kind ELSE "real"
      BY <1>1, <1>2, <2>1, AfterRun
    <2>3. K!StepOf[s.at] = "D" <=> s.at \in {3, 4}
      BY <2>1, StepTable
    <2>4. s.at \in {3, 4} => /\ K!GateWeights(s) = (IF s.kind = "real" THEN s.gates ELSE {})
                             /\ s.kind = "real" => s.gates \subseteq K!Linears
      BY <1>1, <1>2 DEF Shape, K!GateWeights
    <2>5. /\ e \in Artifact /\ e.run = s.run /\ (~ b => e.kind = s.kind)
          /\ s.at = 3 /\ e.kind = "real" => e.gates = s.gates
      BY <1>2, <2>3, <2>4 DEF Artifact
    <2>6. state'[r] = t
      BY <1>1, <2>2 DEF CalInv, CalTyped, RunnersOK
    <2> HIDE DEF s, t, e
    <2>7. file'[s.at] = e /\ \A i \in 1..5 : i # s.at => file'[i] = file[i]
      BY <2>1 DEF CalInv, CalTyped, OutputOK
    <2>8. ASSUME Sole PROVE Behind(state[r])'
      <3>1. Behind(s) /\ e.kind = s.kind
        BY <1>2, <1>4, <2>5, <2>8
      <3>2. \A i \in 1..5 : i < t.at => /\ file'[i].run = t.run
                                         /\ file'[i].kind \in {"real", "placeholder"}
        BY <1>2, <2>1, <2>2, <2>5, <2>7, <3>1 DEF Behind, Whole
      <3>3. /\ t.at = 2 => file'[1].kind = t.kind
            /\ t.at > 2 => file'[1].kind = file'[2].kind
            /\ t.at = 4 => file'[3].kind = t.kind
            /\ t.at > 4 => file'[3].kind = file'[4].kind
        BY <1>2, <2>1, <2>2, <2>5, <2>7, <3>1 DEF Behind
      <3>4. t.at > 3 /\ file'[3].kind = "real" => file'[3].gates = t.gates
        BY <2>1, <2>2, <2>5, <2>7, <3>1 DEF Behind
      <3> QED BY <2>6, <3>2, <3>3, <3>4 DEF Behind, Whole
    <2> QED BY <1>1, <2>1, <2>2, <2>5, <2>8, WritesFile DEF s
  <1> QED BY <1>5, <1>6

LEMMA CalStart == K!Init => CalInv
  <1> SUFFICES ASSUME K!Init PROVE CalInv
    OBVIOUS
  <1>1. /\ file = [i \in 1..5 |-> K!NoFile] /\ profile = [m \in Paths |-> K!NoProfile]
        /\ state = [r \in Runners |-> K!Idle] /\ started = 0 /\ mishaps = 0 /\ mixed = {}
    BY StepTable DEF K!Init
  <1>2. K!NoFile \in Artifact /\ K!NoFile.run = 0 /\ K!NoProfile \in Profile
        /\ K!NoProfile.run = 0 /\ K!NoProfile.kind = "none"
    BY DEF K!NoFile, K!NoProfile, Artifact, Profile
  <1>3. \A r \in Runners : ~ Busy(r)
    BY <1>1, IdleTyped DEF Busy
  <1>4. RunnersOK
    BY <1>1, <1>3, IdleTyped DEF RunnersOK
  <1>5. OutputOK
    BY <1>1, <1>2 DEF OutputOK
  <1>6. LimitsOK
    BY <1>1, CalBounds DEF LimitsOK
  <1>7. Shaped /\ OnlyOne /\ Progress
    BY <1>3 DEF Shaped, OnlyOne, Progress
  <1>8. Ended
    BY <1>1, <1>2 DEF Ended
  <1> QED BY <1>4, <1>5, <1>6, <1>7, <1>8 DEF CalInv, CalTyped

LEMMA CalSame == CalInv /\ UNCHANGED calibrationVars => CalInv'
  <1> SUFFICES ASSUME CalInv, UNCHANGED calibrationVars PROVE CalInv'
    OBVIOUS
  <1> USE DEF calibrationVars
  <1>1. CalTyped'
    BY DEF CalInv, CalTyped, RunnersOK, OutputOK, LimitsOK, Busy
  <1>2. Shaped' /\ OnlyOne'
    BY DEF CalInv, Shaped, OnlyOne, Sole, Busy
  <1>3. Progress'
    BY DEF CalInv, Progress, Sole, Busy, Behind, Whole
  <1>4. Ended'
    BY DEF CalInv, Ended, Sole, Complete, Busy, Whole
  <1> QED BY <1>1, <1>2, <1>3, <1>4 DEF CalInv

LEMMA CalStep == CalInv /\ [K!Next]_calibrationVars => CalInv'
  <1>1. ASSUME CalInv, K!Next PROVE CalInv'
    <2>1. PICK r \in Runners :
            \/ \E m \in Paths : K!Start(r, m)
            \/ K!Loaded(r) \/ K!NotLoaded(r) \/ K!Train(r) \/ K!Open(r) \/ K!Fill(r)
            \/ K!Fails(r) \/ K!Interrupted(r)
      BY <1>1 DEF K!Next
    <2> QED
      BY <1>1, <2>1, StartKeeps, LoadedKeeps, StopsKeeps, TrainKeeps, OpenKeeps, FillKeeps,
         FailsKeeps
  <1> QED BY <1>1, CalSame

LEMMA CalSound == CalInv => K!ProfileIsLast /\ K!GatesHaveWeights
  <1> SUFFICES ASSUME CalInv PROVE K!ProfileIsLast /\ K!GatesHaveWeights
    OBVIOUS
  <1>1. ASSUME NEW m \in Paths, profile[m].kind = "real", profile[m].run = started,
               profile[m].run \notin mixed
        PROVE  Complete(profile[m])
    BY <1>1 DEF CalInv, Ended, Sole
  <1>2. ASSUME NEW m \in Paths, profile[m].kind = "real", profile[m].run = started,
               profile[m].run \notin mixed
        PROVE  /\ \A i \in 1..5 : file[i].run = profile[m].run /\ file[i].kind # "torn"
               /\ \A i, j \in 1..5 : K!StepOf[i] = K!StepOf[j] => file[i].kind = file[j].kind
    <2>1. Complete(profile[m])
      BY <1>1, <1>2
    <2>2. ASSUME NEW i \in 1..5, NEW j \in 1..5, K!StepOf[i] = K!StepOf[j]
          PROVE  \/ i = j \/ {i, j} = {1, 2} \/ {i, j} = {3, 4}
      BY <2>2, StepTable
    <2>3. ASSUME NEW i \in 1..5, NEW j \in 1..5, K!StepOf[i] = K!StepOf[j]
          PROVE  file[i].kind = file[j].kind
      <3>1. \/ i = j \/ (i = 1 /\ j = 2) \/ (i = 2 /\ j = 1) \/ (i = 3 /\ j = 4)
            \/ (i = 4 /\ j = 3)
        BY <2>2, <2>3
      <3> QED BY <2>1, <3>1 DEF Complete
    <2> QED BY <2>1, <2>3 DEF Complete, Whole
  <1>3. K!ProfileIsLast
    BY <1>2, StepTable DEF K!ProfileIsLast
  <1>4. K!GatesHaveWeights
    BY <1>1, FirstTable DEF K!GatesHaveWeights, Complete
  <1> QED BY <1>3, <1>4

LEMMA CalTypeOK == CalInv => K!TypeOK
  <1> SUFFICES ASSUME CalInv PROVE K!TypeOK
    OBVIOUS
  <1>1. started \in 0..MaxRuns /\ mishaps \in 0..MaxFaults /\ mixed \subseteq 1..MaxRuns
    BY CalBounds DEF CalInv, CalTyped, LimitsOK
  <1>2. ASSUME NEW i \in 1..5
        PROVE  /\ file[i].run \in 0..MaxRuns /\ file[i].gates \subseteq K!Linears
               /\ file[i].kind \in {"none", "torn", "real", "placeholder"}
    BY <1>1, CalBounds DEF CalInv, CalTyped, OutputOK, Artifact
  <1>3. ASSUME NEW m \in Paths
        PROVE  /\ profile[m].kind \in {"none", "torn", "real"}
               /\ profile[m].gates \subseteq K!Linears \cup (0..Layers)
    BY DEF CalInv, CalTyped, OutputOK, Profile, Gateable
  <1>4. ASSUME NEW r \in Runners
        PROVE  state[r].pc \in {"idle", "load", "train", "open", "fill"} /\ state[r].at \in 1..6
    BY DEF CalInv, CalTyped, RunnersOK, Runs
  <1> QED BY <1>1, <1>2, <1>3, <1>4, StepTable DEF K!TypeOK

LEMMA CalibrationSteps == [MCNext]_<<vars, others>> => [K!Next]_calibrationVars
  BY DEF MCNext, others

(* CalibrationPipeline: whatever runs share the directory, fail or are     *)
(* interrupted, a whole profile whose run was alone and is the last names  *)
(* whole files of that run, and enables the gates that have weights unless *)
(* the file of weights is the placeholder of a failed step D.              *)
THEOREM CalibrationTheorem == MCSpec => []CalibrationSound
  <1>1. MCInit => CalInv
    BY CalStart DEF MCInit
  <1>2. CalInv /\ [MCNext]_<<vars, others>> => CalInv'
    BY CalStep, CalibrationSteps
  <1>3. CalInv => CalibrationSound
    BY CalSound DEF CalibrationSound
  <1> QED BY <1>1, <1>2, <1>3, PTL DEF MCSpec

-----------------------------------------------------------------------------
(* The command line.                                                       *)
NoneOr(S) == S \cup {C!NoFile}
Command == [at : {"idle", "ollama", "find", "load", "generate", "hung", "failed"},
            asked : C!Refs, use : NoneOr(C!Files), own : BOOLEAN,
            printed : Seq({"ollama", "local"}), broke : BOOLEAN]
Screen == [at : {"shell", "menu", "gpu", "loading", "local", "simulated"},
           list : SUBSET C!Dirs, asked : C!Refs, use : NoneOr(C!Files), own : BOOLEAN]

Pulls == [gguf : NoneOr(C!Files), skip : BOOLEAN, reused : BOOLEAN]
LibraryOK ==
  /\ manifest \in [C!Dirs -> C!Manifests] /\ ggufs \subseteq C!Files
  /\ pulled \in [C!Refs -> Pulls]
ScreensOK ==
  /\ offered \in Seq(Sizes) /\ run \in Command /\ screen \in Screen /\ ops \in 0..MaxOps

(* No pull makes a directory with a ":" in its name, and what an install   *)
(* passes through has the size its directory is named after.               *)
Installed ==
  \A d \in C!Dirs :
    /\ d.form = "colon" => manifest[d].gguf = C!NoFile
    /\ manifest[d].kind = "passthrough" =>
         manifest[d].gguf \in C!Files /\ d.size \in {"any", manifest[d].gguf.size}

(* What a pull leaves to be found: its GGUF unless it took another install *)
(* for this one's, the manifest if it was not converted, and, but for      *)
(* repositories and directories, the name.                                 *)
Findable ==
  \A ref \in C!Refs : pulled[ref] # C!NoPull =>
    /\ pulled[ref].gguf \in ggufs \/ pulled[ref].reused
    /\ pulled[ref].skip => /\ manifest[C!DirOf(ref)].kind = "passthrough"
                           /\ manifest[C!DirOf(ref)].gguf = pulled[ref].gguf
                           /\ ~ pulled[ref].reused
    /\ ref.form \notin {"repo", "listed"} => C!InName(C!DirOf(ref), pulled[ref].gguf)

OwnSize(u) == u.own /\ u.use # C!NoFile => u.asked.size \in {"any", u.use.size}
OwnSizes ==
  /\ OwnSize(run) /\ OwnSize(screen)
  /\ screen.at \in {"shell", "menu"} => screen.use = C!NoFile

(* The answer so far: i tokens of Ollama's, then j of the local engine's.  *)
Answer(i, j) == [k \in 1..(i + j) |-> IF k <= i THEN "ollama" ELSE "local"]
Printed ==
  \E i, j \in 0..Tokens :
    /\ run.printed = Answer(i, j)
    /\ i > 0 /\ (j > 0 \/ run.at \in {"find", "load", "generate"}) => run.broke
    /\ run.at \in {"ollama", "find", "load"} => j = 0

CmdInv == LibraryOK /\ ScreensOK /\ Installed /\ Findable /\ OwnSizes /\ Printed

LEMMA CmdBounds ==
  /\ "any" \notin Sizes /\ "none" \notin Sizes /\ Tokens \in Nat /\ MaxOps \in Nat
  /\ HubFiles \subseteq C!Files
  /\ \A o \in OllamaLists : o \in Seq(Sizes)
  BY DeskAssumption DEF C!CommandAssumption, C!Files

LEMMA NoFileIsNone == C!NoFile \notin C!Files
  BY CmdBounds DEF C!NoFile, C!Files

LEMMA RefTypes ==
  ASSUME NEW ref \in C!Refs
  PROVE  /\ C!DirOf(ref) \in C!Dirs /\ C!DirOf(ref) \in C!Refs /\ C!DirOf(ref).size = ref.size
         /\ ref.form = "colon" => C!DirOf(ref).form = "dash"
         /\ ref.form = "repo" => C!DirOf(ref).form = "listed"
         /\ ref.form \notin {"colon", "repo"} => C!DirOf(ref) = ref
         /\ C!DirOf(ref).form \in {"dash", "listed"}
         /\ ref.form \in {"colon", "dash", "repo", "listed"}
         /\ ref.form # "repo" => ref \in C!Dirs
  <1>1. ref \in [size : Sizes, form : {"colon", "dash", "repo", "listed"}] \/ ref = C!Base
    BY DEF C!Refs
  <1>2. CASE ref = C!Base
    BY <1>2 DEF C!Refs, C!Dirs, C!DirOf, C!Base
  <1>3. CASE ref \in [size : Sizes, form : {"colon", "dash", "repo", "listed"}]
    BY <1>3 DEF C!Refs, C!Dirs, C!DirOf
  <1> QED BY <1>1, <1>2, <1>3

LEMMA CmdStart == C!Init => CmdInv
  <1> SUFFICES ASSUME C!Init PROVE CmdInv
    OBVIOUS
  <1>1. /\ manifest = [d \in C!Dirs |-> C!NoManifest] /\ ggufs = {}
        /\ offered \in OllamaLists
        /\ pulled = [r \in C!Refs |-> C!NoPull] /\ run = C!NoRun /\ screen = C!NoScreen
        /\ ops = 0
    BY DEF C!Init
  <1>2. C!NoManifest \in C!Manifests /\ C!NoManifest.gguf = C!NoFile
        /\ C!NoManifest.kind = "none"
    BY DEF C!NoManifest, C!Manifests, C!Refs
  <1>3. LibraryOK
    BY <1>1, <1>2 DEF LibraryOK, NoneOr, C!NoPull, Pulls
  <1>4. ScreensOK
    <2>1. C!Base \in C!Refs /\ C!NoFile \in NoneOr(C!Files)
      BY DEF C!Refs, NoneOr
    <2>2. run \in Command
      BY <1>1, <2>1 DEF Command, C!NoRun
    <2>3. screen \in Screen
      BY <1>1, <2>1 DEF Screen, C!NoScreen
    <2>4. offered \in Seq(Sizes)
      BY <1>1, CmdBounds, Zenon
    <2>5. ops \in 0..MaxOps
      BY <1>1, CmdBounds
    <2> QED BY <2>2, <2>3, <2>4, <2>5 DEF ScreensOK
  <1>5. Installed /\ Findable
    BY <1>1, <1>2 DEF Installed, Findable
  <1>6. OwnSizes
    BY <1>1 DEF OwnSizes, OwnSize, C!NoRun, C!NoScreen
  <1>7. Printed
    <2>1. <<>> = Answer(0, 0)
      BY DEF Answer
    <2>2. 0 \in 0..Tokens
      BY CmdBounds
    <2>3. run.printed = <<>>
      BY <1>1 DEF C!NoRun
    <2> QED BY <2>1, <2>2, <2>3 DEF Printed
  <1> QED BY <1>3, <1>4, <1>5, <1>6, <1>7 DEF CmdInv

(* What a pull takes is a file, and of the size of the reference.          *)
LEMMA ResolveFits ==
  ASSUME CmdInv, NEW ref \in C!Refs, NEW quant, NEW f \in C!Resolve(ref, quant)
  PROVE  /\ f \in C!Files /\ C!DirOf(ref).size \in {"any", f.size}
         /\ ref.form \notin {"repo", "listed"} => C!InName(C!DirOf(ref), f)
  <1> DEFINE known == {g \in HubFiles : g.quant = quant /\ ref.size = g.size}
             here  == {g \in ggufs : C!InName(ref, g)}
             there == {g \in HubFiles : ref.form = "repo" /\ ref.size = g.size}
  <1>1. f \in known \/ f \in here \/ f \in there
    <2>1. C!Resolve(ref, quant) = IF ref \in References /\ known # {} THEN known
                                  ELSE C!Preferred(IF here # {} THEN here ELSE there, quant)
      BY DEF C!Resolve
    <2>2. \A set : C!Preferred(set, quant) \subseteq set
      BY DEF C!Preferred
    <2> HIDE DEF known, here, there
    <2> QED BY <2>1, <2>2
  <1>2. HubFiles \subseteq C!Files /\ ggufs \subseteq C!Files
    BY CmdBounds DEF CmdInv, LibraryOK
  <1>3. f \in C!Files
    BY <1>1, <1>2
  <1>4. ref.size = f.size \/ C!InName(ref, f)
    BY <1>1
  <1>5. ref.size \in {"any", f.size}
    BY <1>4 DEF C!InName
  <1>6. C!InName(ref, f) => ref.form = "dash"
    BY DEF C!InName
  <1>7. ref.form \notin {"repo", "listed"} => C!DirOf(ref).form = "dash"
    BY RefTypes
  <1> QED BY <1>3, <1>5, <1>7, RefTypes DEF C!InName

LEMMA PullKeeps ==
  ASSUME CmdInv, NEW ref \in C!Refs, NEW quant, NEW skip \in BOOLEAN, C!Pull(ref, quant, skip)
  PROVE  CmdInv'
  <1> DEFINE d == C!DirOf(ref)
  <1>1. PICK f \in C!Resolve(ref, quant) :
          /\ \/ C!Reused(f, skip) /\ UNCHANGED <<manifest, ggufs>>
             \/ /\ ~ C!Reused(f, skip) /\ ggufs' = ggufs \cup {f}
                /\ manifest' = [manifest EXCEPT ![d] = C!Installed(f, skip)]
          /\ pulled' = [pulled EXCEPT ![ref] =
                          [gguf |-> f, skip |-> skip, reused |-> C!Reused(f, skip)]]
    BY DEF C!Pull
  <1>2. /\ manifest[d].kind = "none" /\ ops' \in 0..MaxOps /\ UNCHANGED <<offered, run, screen>>
    BY CmdBounds DEF C!Pull, C!Op, CmdInv, ScreensOK
  <1>3. /\ f \in C!Files /\ d.size \in {"any", f.size} /\ d \in C!Dirs
        /\ ref.form \notin {"repo", "listed"} => C!InName(d, f)
        /\ d.form # "colon"
    BY <1>1, ResolveFits, RefTypes
  <1> DEFINE new == C!Installed(f, skip)
             reuse == C!Reused(f, skip)
  <1>4. /\ reuse \in BOOLEAN /\ (reuse => ~ skip)
        /\ (reuse /\ manifest' = manifest) \/ (~ reuse /\ manifest' = [manifest EXCEPT ![d] = new])
        /\ ggufs \subseteq ggufs' /\ ggufs' \subseteq ggufs \cup {f} /\ (reuse \/ f \in ggufs')
    BY <1>1 DEF C!Reused
  <1>5. skip => new.kind = "passthrough" /\ new.gguf = f
    BY DEF C!Installed
  <1>6. new.kind = "passthrough" => new.gguf = f
    BY DEF C!Installed
  <1>7. new \in C!Manifests
    BY <1>3 DEF C!Installed, C!Manifests, C!Refs
  <1> DEFINE np == [gguf |-> f, skip |-> skip, reused |-> reuse]
  <1>8. np.gguf = f /\ np.skip = skip /\ np.reused = reuse
    OBVIOUS
  <1> HIDE DEF new, reuse
  <1>9. np \in Pulls
    BY <1>3, <1>4 DEF NoneOr, Pulls
  <1> HIDE DEF d, np
  <1>10. /\ manifest \in [C!Dirs -> C!Manifests] /\ ggufs \subseteq C!Files
        /\ pulled \in [C!Refs -> Pulls]
    BY DEF CmdInv, LibraryOK
  <1>11. manifest' \in [C!Dirs -> C!Manifests]
        /\ (\A x \in C!Dirs : x # d => manifest'[x] = manifest[x])
        /\ manifest'[d] \in {manifest[d], new} /\ (skip => manifest'[d] = new)
    BY <1>3, <1>4, <1>7, <1>10
  <1>12. pulled' = [pulled EXCEPT ![ref] = np]
    BY <1>1 DEF np, reuse
  <1>13. LibraryOK'
    BY <1>3, <1>4, <1>9, <1>11, <1>12, <1>10 DEF LibraryOK
  <1>14. ScreensOK' /\ OwnSizes' /\ Printed'
    BY <1>2 DEF CmdInv, ScreensOK, OwnSizes, OwnSize, Printed
  <1>15. Installed'
    <2>1. ASSUME NEW x \in C!Dirs
          PROVE  /\ x.form = "colon" => manifest'[x].gguf = C!NoFile
                 /\ manifest'[x].kind = "passthrough" =>
                      manifest'[x].gguf \in C!Files /\ x.size \in {"any", manifest'[x].gguf.size}
      <3>1. CASE manifest'[x] = manifest[x]
        BY <3>1 DEF CmdInv, Installed
      <3>2. CASE x = d /\ manifest'[x] = new
        BY <1>3, <1>6, <3>2
      <3> QED BY <1>11, <3>1, <3>2
    <2> QED BY <2>1 DEF Installed
  <1>16. Findable'
    <2>1. ASSUME NEW r \in C!Refs, pulled'[r] # C!NoPull
          PROVE  /\ pulled'[r].gguf \in ggufs' \/ pulled'[r].reused
                 /\ pulled'[r].skip =>
                      /\ manifest'[C!DirOf(r)].kind = "passthrough"
                      /\ manifest'[C!DirOf(r)].gguf = pulled'[r].gguf
                      /\ ~ pulled'[r].reused
                 /\ r.form \notin {"repo", "listed"} => C!InName(C!DirOf(r), pulled'[r].gguf)
      <3>1. CASE r = ref
        <4>1. pulled'[r] = np
          BY <1>12, <1>10, <3>1
        <4> QED BY <1>3, <1>4, <1>5, <1>8, <1>11, <3>1, <4>1 DEF d
      <3>2. CASE r # ref
        <4>1. pulled'[r] = pulled[r]
          BY <1>12, <1>10, <3>2
        <4>2. /\ pulled[r].gguf \in ggufs \/ pulled[r].reused
              /\ pulled[r].skip => /\ manifest[C!DirOf(r)].kind = "passthrough"
                                   /\ manifest[C!DirOf(r)].gguf = pulled[r].gguf
                                   /\ ~ pulled[r].reused
              /\ r.form \notin {"repo", "listed"} => C!InName(C!DirOf(r), pulled[r].gguf)
          BY <2>1, <4>1 DEF CmdInv, Findable
        <4>3. pulled[r].skip => C!DirOf(r) # d
          BY <1>2, <4>2
        <4> QED BY <1>4, <1>11, <4>1, <4>2, <4>3, RefTypes
      <3> QED BY <3>1, <3>2
    <2> QED BY <2>1 DEF Findable
  <1> QED BY <1>13, <1>14, <1>15, <1>16 DEF CmdInv

(* A directory gets another manifest: what was pulled into it is forgotten.*)
LEMMA ReplaceKeeps ==
  ASSUME CmdInv, NEW d \in C!Dirs, NEW new \in C!Manifests, new.gguf = C!NoFile,
         new.kind # "passthrough", manifest' = [manifest EXCEPT ![d] = new], C!Forget(d),
         UNCHANGED <<ggufs, offered, run, screen>>, ops' \in 0..MaxOps
  PROVE  CmdInv'
  <1>1. /\ manifest \in [C!Dirs -> C!Manifests] /\ ggufs \subseteq C!Files
        /\ pulled \in [C!Refs -> Pulls]
    BY DEF CmdInv, LibraryOK
  <1>2. manifest' \in [C!Dirs -> C!Manifests] /\ manifest'[d] = new
        /\ \A x \in C!Dirs \ {d} : manifest'[x] = manifest[x]
    BY <1>1
  <1>3. C!NoPull \in Pulls
    BY DEF C!NoPull, NoneOr, Pulls
  <1>4. /\ pulled' \in [C!Refs -> Pulls]
        /\ \A r \in C!Refs : pulled'[r] = IF C!DirOf(r) = d THEN C!NoPull ELSE pulled[r]
    <2>1. pulled' = [r \in C!Refs |-> IF C!DirOf(r) = d THEN C!NoPull ELSE pulled[r]]
      BY DEF C!Forget
    <2> QED BY <1>1, <1>3, <2>1
  <1>5. LibraryOK'
    BY <1>2, <1>4, <1>1 DEF LibraryOK
  <1>6. ScreensOK' /\ OwnSizes' /\ Printed'
    BY DEF CmdInv, ScreensOK, OwnSizes, OwnSize, Printed
  <1>7. Installed'
    <2>1. ASSUME NEW x \in C!Dirs
          PROVE  /\ x.form = "colon" => manifest'[x].gguf = C!NoFile
                 /\ manifest'[x].kind = "passthrough" =>
                      manifest'[x].gguf \in C!Files /\ x.size \in {"any", manifest'[x].gguf.size}
      BY <1>2 DEF CmdInv, Installed
    <2> QED BY <2>1 DEF Installed
  <1>8. Findable'
    <2>1. ASSUME NEW r \in C!Refs, pulled'[r] # C!NoPull
          PROVE  /\ pulled'[r].gguf \in ggufs' \/ pulled'[r].reused
                 /\ pulled'[r].skip =>
                      /\ manifest'[C!DirOf(r)].kind = "passthrough"
                      /\ manifest'[C!DirOf(r)].gguf = pulled'[r].gguf
                      /\ ~ pulled'[r].reused
                 /\ r.form \notin {"repo", "listed"} => C!InName(C!DirOf(r), pulled'[r].gguf)
      <3>1. pulled'[r] = pulled[r] /\ C!DirOf(r) # d
        BY <1>4, <2>1
      <3>2. C!DirOf(r) \in C!Dirs
        BY RefTypes
      <3> QED BY <1>2, <2>1, <3>1, <3>2 DEF CmdInv, Findable
    <2> QED BY <2>1 DEF Findable
  <1> QED BY <1>5, <1>6, <1>7, <1>8 DEF CmdInv

LEMMA CreateRmKeeps ==
  ASSUME CmdInv, NEW d \in C!Dirs, NEW b \in C!Refs, C!Create(d, b) \/ C!Rm(d)
  PROVE  CmdInv'
  <1>1. ops' \in 0..MaxOps
    BY CmdBounds DEF C!Create, C!Rm, C!Op, CmdInv, ScreensOK
  <1>2. CASE C!Create(d, b)
    <2> DEFINE new == [C!NoManifest EXCEPT !.kind = "persona", !.base = b]
    <2>1. new \in C!Manifests /\ new.gguf = C!NoFile /\ new.kind # "passthrough"
      BY DEF C!NoManifest, C!Manifests, C!Refs
    <2>2. /\ manifest' = [manifest EXCEPT ![d] = new] /\ C!Forget(d)
          /\ UNCHANGED <<ggufs, offered, run, screen>>
      BY <1>2 DEF C!Create
    <2> HIDE DEF new
    <2> QED BY <1>1, <2>1, <2>2, ReplaceKeeps
  <1>3. CASE C!Rm(d)
    <2>1. C!NoManifest \in C!Manifests /\ C!NoManifest.gguf = C!NoFile
          /\ C!NoManifest.kind # "passthrough"
      BY DEF C!NoManifest, C!Manifests, C!Refs
    <2>2. /\ manifest' = [manifest EXCEPT ![d] = C!NoManifest] /\ C!Forget(d)
          /\ UNCHANGED <<ggufs, offered, run, screen>>
      BY <1>3 DEF C!Rm
    <2> QED BY <1>1, <2>1, <2>2, ReplaceKeeps
  <1> QED BY <1>2, <1>3

LEMMA DeleteKeeps ==
  ASSUME CmdInv, NEW f \in C!Files, C!DeleteGguf(f)
  PROVE  CmdInv'
  <1>1. /\ ggufs' = ggufs \ {f} /\ UNCHANGED <<manifest, offered, run, screen>>
        /\ pulled' = [r \in C!Refs |-> IF pulled[r].gguf = f THEN C!NoPull ELSE pulled[r]]
        /\ ops' \in 0..MaxOps
    BY CmdBounds DEF C!DeleteGguf, C!Op, CmdInv, ScreensOK
  <1>2. /\ manifest \in [C!Dirs -> C!Manifests] /\ ggufs \subseteq C!Files
        /\ pulled \in [C!Refs -> Pulls]
    BY DEF CmdInv, LibraryOK
  <1>3. C!NoPull \in Pulls
    BY DEF C!NoPull, NoneOr, Pulls
  <1>4. LibraryOK'
    BY <1>1, <1>3, <1>2 DEF LibraryOK
  <1>5. ScreensOK' /\ OwnSizes' /\ Printed' /\ Installed'
    BY <1>1 DEF CmdInv, ScreensOK, OwnSizes, OwnSize, Printed, Installed
  <1>6. Findable'
    <2>1. ASSUME NEW r \in C!Refs, pulled'[r] # C!NoPull
          PROVE  pulled'[r] = pulled[r] /\ pulled[r] # C!NoPull /\ pulled[r].gguf # f
      BY <1>1, <2>1
    <2> QED BY <1>1, <2>1 DEF CmdInv, Findable
  <1> QED BY <1>4, <1>5, <1>6 DEF CmdInv

(* The directory named as the reference wins, as no install can be found   *)
(* under a name with a ":" in it.                                          *)
LEMMA OwnFind ==
  ASSUME CmdInv, NEW ref \in C!Refs, C!Usable(C!DirOf(ref))
  PROVE  C!Find(ref) = {manifest[C!DirOf(ref)].gguf}
  <1> DEFINE d == C!DirOf(ref)
             dirs == C!Candidates(ref)
  <1>1. d \in C!Dirs
    BY RefTypes
  <1>2. C!FirstUsable(dirs) = {d}
    <2>1. CASE ref.form = "colon"
      <3>1. dirs = <<ref, d, C!Base>>
        BY <2>1 DEF C!Candidates
      <3>2. ref \in C!Dirs /\ manifest[ref].gguf = C!NoFile
        BY <2>1, RefTypes DEF CmdInv, Installed
      <3>3. ~ C!Usable(ref)
        BY <3>2, NoFileIsNone DEF C!Usable, CmdInv, LibraryOK
      <3> HIDE DEF d, dirs
      <3>4. DOMAIN dirs = 1..3 /\ dirs[1] = ref /\ dirs[2] = d /\ C!Usable(d)
        BY <3>1 DEF d
      <3>5. d \in C!FirstUsable(dirs)
        <4>1. 2 \in DOMAIN dirs /\ \A j \in 1..(2 - 1) : ~ C!Usable(dirs[j])
          BY <3>3, <3>4
        <4> QED BY <1>1, <3>4, <4>1 DEF C!FirstUsable, d
      <3>6. ASSUME NEW x \in C!FirstUsable(dirs) PROVE x = d
        <4>1. PICK i \in DOMAIN dirs : /\ x = dirs[i] /\ C!Usable(x)
                                       /\ \A j \in 1..(i - 1) : ~ C!Usable(dirs[j])
          BY <3>6 DEF C!FirstUsable
        <4>2. i \in 1..3 /\ i # 1
          BY <3>3, <3>4, <4>1
        <4>3. i # 3
          BY <3>4, <4>1
        <4> QED BY <3>4, <4>1, <4>2, <4>3
      <3> QED BY <3>5, <3>6
    <2>2. CASE ref.form # "colon"
      <3>1. dirs = <<d>>
        BY <2>2, RefTypes DEF C!Candidates
      <3> HIDE DEF d, dirs
      <3>2. DOMAIN dirs = {1} /\ dirs[1] = d /\ C!Usable(d)
        BY <3>1 DEF d
      <3> QED BY <1>1, <3>2 DEF C!FirstUsable, d
    <2> QED BY <2>1, <2>2
  <1> HIDE DEF d, dirs
  <1>3. C!Find(ref) = {manifest[x].gguf : x \in C!FirstUsable(dirs)}
    BY <1>2 DEF C!Find, dirs
  <1> QED BY <1>2, <1>3 DEF d

LEMMA FoundIsFile ==
  ASSUME CmdInv, NEW ref \in C!Refs, NEW f \in C!Find(ref)
  PROVE  f \in C!Files
  <1>1. f \in ggufs \/ \E x \in C!FirstUsable(C!Candidates(ref)) : f = manifest[x].gguf
    BY DEF C!Find
  <1>2. \A x \in C!FirstUsable(C!Candidates(ref)) : manifest[x].gguf \in ggufs
    BY DEF C!FirstUsable, C!Usable
  <1> QED BY <1>1, <1>2 DEF CmdInv, LibraryOK

(* What is found in an install of its own has the size that was asked for. *)
LEMMA OwnFits ==
  ASSUME CmdInv, NEW ref \in C!Refs, NEW f \in C!Find(ref), C!Own(ref)
  PROVE  ref.size \in {"any", f.size}
  <1>1. f = manifest[C!DirOf(ref)].gguf
    BY OwnFind DEF C!Own
  <1> QED BY <1>1, RefTypes DEF C!Own, CmdInv, Installed

(* A name that holds the file's is a way to find some file.                *)
LEMMA NamedIsFound ==
  ASSUME CmdInv, NEW ref \in C!Refs, NEW g \in ggufs, C!InName(C!DirOf(ref), g)
  PROVE  C!Find(ref) # {}
  <1> DEFINE dirs == C!Candidates(ref)
  <1>1. C!DirOf(ref) \in ToSet(dirs)
    <2>1. CASE ref.form = "colon"
      <3>1. dirs = <<ref, C!DirOf(ref), C!Base>>
        BY <2>1 DEF C!Candidates
      <3> HIDE DEF dirs
      <3>2. 2 \in DOMAIN dirs /\ dirs[2] = C!DirOf(ref)
        BY <3>1
      <3> QED BY <3>2 DEF ToSet
    <2>2. CASE ref.form # "colon"
      <3>1. dirs = <<C!DirOf(ref)>>
        BY <2>2, RefTypes DEF C!Candidates
      <3> HIDE DEF dirs
      <3>2. 1 \in DOMAIN dirs /\ dirs[1] = C!DirOf(ref)
        BY <3>1
      <3> QED BY <3>2 DEF ToSet
    <2> QED BY <2>1, <2>2
  <1> HIDE DEF dirs
  <1>2. g \in {f \in ggufs : \E c \in ToSet(dirs) : C!InName(c, f)}
    BY <1>1
  <1>3. C!Find(ref) = IF C!FirstUsable(dirs) # {}
                      THEN {manifest[d].gguf : d \in C!FirstUsable(dirs)}
                      ELSE {f \in ggufs : \E c \in ToSet(dirs) : C!InName(c, f)}
    BY DEF C!Find, dirs, C!ToSet, ToSet
  <1>4. C!FirstUsable(dirs) # {} => {manifest[d].gguf : d \in C!FirstUsable(dirs)} # {}
    OBVIOUS
  <1> QED BY <1>2, <1>3, <1>4

-----------------------------------------------------------------------------
LEMMA AnswerGrows ==
  ASSUME NEW i \in Nat, NEW j \in Nat
  PROVE  /\ Answer(i, j) \in Seq({"ollama", "local"})
         /\ Append(Answer(i, 0), "ollama") = Answer(i + 1, 0)
         /\ Append(Answer(i, j), "local") = Answer(i, j + 1)
  <1>1. Answer(i, j) \in Seq({"ollama", "local"}) /\ Len(Answer(i, j)) = i + j
    BY DEF Answer
  <1>2. Append(Answer(i, 0), "ollama") = Answer(i + 1, 0)
    BY DEF Answer
  <1>3. Append(Answer(i, j), "local") = Answer(i, j + 1)
    BY DEF Answer
  <1> QED BY <1>1, <1>2, <1>3

LEMMA AnswerCounts ==
  ASSUME NEW m \in Nat, NEW n \in Nat, run.printed = Answer(m, n)
  PROVE  C!Count("ollama") = m /\ C!Count("local") = n
  <1> DEFINE s == run.printed
  <1>1. DOMAIN s = 1..(m + n) /\ \A i \in 1..(m + n) : s[i] = IF i <= m THEN "ollama" ELSE "local"
    BY DEF Answer
  <1> HIDE DEF s
  <1>2. {i \in DOMAIN s : s[i] = "ollama"} = 1..m
    BY <1>1
  <1>3. {i \in DOMAIN s : s[i] = "local"} = (m + 1)..(m + n)
    BY <1>1
  <1>4. Cardinality(1..m) = m
    BY FS_Interval
  <1>5. Cardinality((m + 1)..(m + n)) = n
    <2>1. Cardinality((m + 1)..(m + n)) = IF m + 1 > m + n THEN 0 ELSE (m + n) - (m + 1) + 1
      BY FS_Interval
    <2> QED BY <2>1
  <1>6. /\ C!Count("ollama") = Cardinality({i \in DOMAIN s : s[i] = "ollama"})
        /\ C!Count("local") = Cardinality({i \in DOMAIN s : s[i] = "local"})
    BY DEF C!Count, s, C!Cardinality, Cardinality
  <1> QED BY <1>2, <1>3, <1>4, <1>5, <1>6

(* A command that leaves the library and the screen alone.                 *)
LEMMA RunMoves ==
  ASSUME CmdInv, NEW new \in Command, run' = new, OwnSize(new),
         NEW i \in 0..Tokens, NEW j \in 0..Tokens, new.printed = Answer(i, j),
         i > 0 /\ (j > 0 \/ new.at \in {"find", "load", "generate"}) => new.broke,
         new.at \in {"ollama", "find", "load"} => j = 0,
         UNCHANGED <<manifest, ggufs, offered, pulled, screen>>, ops' \in 0..MaxOps
  PROVE  CmdInv'
  <1>1. LibraryOK' /\ Installed' /\ Findable'
    BY DEF CmdInv, LibraryOK, Installed, Findable
  <1>2. ScreensOK'
    BY DEF CmdInv, ScreensOK
  <1>3. OwnSizes'
    BY DEF CmdInv, OwnSizes, OwnSize
  <1>4. Printed'
    BY DEF Printed
  <1> QED BY <1>1, <1>2, <1>3, <1>4 DEF CmdInv

LEMMA NoRunFits ==
  /\ C!NoRun \in Command /\ OwnSize(C!NoRun) /\ C!NoRun.printed = Answer(0, 0)
  /\ C!NoRun.at = "idle" /\ 0 \in 0..Tokens
  <1>1. C!Base \in C!Refs /\ C!NoFile \in NoneOr(C!Files)
    BY DEF C!Refs, NoneOr
  <1>2. C!NoRun \in Command
    BY <1>1 DEF Command, C!NoRun
  <1>3. OwnSize(C!NoRun)
    BY DEF OwnSize, C!NoRun
  <1>4. C!NoRun.printed = <<>> /\ <<>> = Answer(0, 0) /\ C!NoRun.at = "idle"
    BY DEF C!NoRun, Answer
  <1>5. 0 \in 0..Tokens
    BY CmdBounds
  <1> QED BY <1>2, <1>3, <1>4, <1>5

LEMMA RunKeeps == ASSUME CmdInv, NEW ref \in C!Refs, C!Run(ref) PROVE CmdInv'
  <1>1. PICK at0 \in {"failed", "ollama", "find"} :
          run' = [C!NoRun EXCEPT !.asked = ref, !.at = at0]
    BY DEF C!Run
  <1> DEFINE new == [C!NoRun EXCEPT !.asked = ref, !.at = at0]
  <1>2. new \in Command /\ OwnSize(new) /\ new.printed = Answer(0, 0)
    <2>1. new \in Command /\ new.use = C!NoRun.use /\ new.printed = C!NoRun.printed
      BY NoRunFits DEF Command
    <2>2. C!NoRun.use = C!NoFile
      BY DEF C!NoRun
    <2> QED BY <2>1, <2>2, NoRunFits DEF OwnSize
  <1>3. UNCHANGED <<manifest, ggufs, offered, pulled, screen>> /\ ops' \in 0..MaxOps
    BY CmdBounds DEF C!Run, C!Op, CmdInv, ScreensOK
  <1>4. 0 \in 0..Tokens /\ ~ (0 > 0)
    BY CmdBounds
  <1> HIDE DEF new
  <1>5. run' = new
    BY <1>1 DEF new
  <1> QED BY <1>2, <1>3, <1>4, <1>5, RunMoves

LEMMA RunStops ==
  ASSUME CmdInv, run' = C!NoRun, UNCHANGED <<manifest, ggufs, offered, pulled, screen, ops>>
  PROVE  CmdInv'
  <1>1. ops' \in 0..MaxOps /\ ~ (0 > 0)
    BY DEF CmdInv, ScreensOK
  <1> QED BY <1>1, NoRunFits, RunMoves

LEMMA RunSays ==
  ASSUME CmdInv, NEW engine \in {"ollama", "local"}, C!Says(engine)
  PROVE  [run EXCEPT !.printed = Append(@, engine)] \in Command
  BY AppendProperties DEF CmdInv, ScreensOK, Command

LEMMA TokenKeeps ==
  ASSUME CmdInv, C!OllamaToken \/ C!LocalToken
  PROVE  CmdInv'
  <1>1. PICK i, j \in 0..Tokens :
          /\ run.printed = Answer(i, j)
          /\ i > 0 /\ (j > 0 \/ run.at \in {"find", "load", "generate"}) => run.broke
          /\ run.at \in {"ollama", "find", "load"} => j = 0
    BY DEF CmdInv, Printed
  <1>2. i \in Nat /\ j \in Nat /\ Tokens \in Nat
    BY CmdBounds
  <1>3. C!Count("ollama") = i /\ C!Count("local") = j
    BY <1>1, <1>2, AnswerCounts
  <1>4. UNCHANGED <<manifest, ggufs, offered, pulled, screen>> /\ ops' \in 0..MaxOps
    BY DEF C!OllamaToken, C!LocalToken, C!Still, CmdInv, ScreensOK
  <1>5. OwnSize(run) /\ run \in Command
    BY DEF CmdInv, OwnSizes, ScreensOK
  <1>6. CASE C!OllamaToken
    <2> DEFINE new == [run EXCEPT !.printed = Append(@, "ollama")]
    <2>1. run' = new /\ new \in Command /\ run.at = "ollama" /\ i < Tokens
      BY <1>3, <1>6, RunSays DEF C!OllamaToken, C!Says
    <2>2. new.at = "ollama" /\ OwnSize(new) /\ new.printed = Append(run.printed, "ollama")
      BY <1>5, <2>1 DEF OwnSize, Command
    <2> HIDE DEF new
    <2>5. i + 1 \in 0..Tokens /\ 0 \in 0..Tokens /\ ~ (0 > 0)
      BY <1>2, <2>1
    <2>6. j = 0
      BY <1>1, <2>1
    <2>3. new.printed = Answer(i + 1, 0)
      BY <1>1, <1>2, <2>2, <2>6, AnswerGrows, Zenon
    <2>4. new.at \notin {"find", "load", "generate"}
      BY <2>2
    <2> QED BY <1>4, <2>1, <2>2, <2>3, <2>4, <2>5, RunMoves
  <1>7. CASE C!LocalToken
    <2> DEFINE new == [run EXCEPT !.printed = Append(@, "local")]
    <2>1. run' = new /\ new \in Command /\ run.at = "generate" /\ j < Tokens
      BY <1>3, <1>7, RunSays DEF C!LocalToken, C!Says
    <2>2. /\ new.at = "generate" /\ OwnSize(new) /\ new.broke = run.broke
          /\ new.printed = Append(run.printed, "local")
      BY <1>5, <2>1 DEF OwnSize, Command
    <2>3. new.printed = Answer(i, j + 1)
      BY <1>1, <1>2, <2>2, AnswerGrows, Zenon
    <2>6. j + 1 \in 0..Tokens
      BY <1>2, <2>1
    <2> HIDE DEF new
    <2>4. i > 0 => new.broke
      BY <1>1, <2>1, <2>2
    <2>5. new.at \notin {"ollama", "find", "load"}
      BY <2>2
    <2> QED BY <1>4, <2>1, <2>2, <2>3, <2>4, <2>5, <2>6, RunMoves
  <1> QED BY <1>6, <1>7

(* The command moves on and says nothing.                                  *)
LEMMA RunOnly ==
  ASSUME CmdInv, NEW new \in Command, run' = new, OwnSize(new), new.printed = run.printed,
         new.broke \/ new.broke = run.broke,
         UNCHANGED <<manifest, ggufs, offered, pulled, screen, ops>>,
         \/ run.at = "ollama" /\ new.at = "find" /\ new.broke
         \/ run.at = "find" /\ new.at \in {"load", "failed"}
         \/ run.at = "load" /\ new.at \in {"generate", "failed"}
         \/ run.at = "generate" /\ new.at = "hung"
  PROVE  CmdInv'
  <1>1. PICK i, j \in 0..Tokens :
          /\ run.printed = Answer(i, j)
          /\ i > 0 /\ (j > 0 \/ run.at \in {"find", "load", "generate"}) => run.broke
          /\ run.at \in {"ollama", "find", "load"} => j = 0
    BY DEF CmdInv, Printed
  <1>2. i > 0 /\ (j > 0 \/ new.at \in {"find", "load", "generate"}) => new.broke
    BY <1>1, CmdBounds
  <1>3. new.at \in {"ollama", "find", "load"} => j = 0
    BY <1>1
  <1>4. ops' \in 0..MaxOps /\ new.printed = Answer(i, j)
    BY <1>1 DEF CmdInv, ScreensOK
  <1> QED BY <1>2, <1>3, <1>4, RunMoves

LEMMA RunStepKeeps ==
  ASSUME CmdInv, C!OllamaBreaks \/ C!FindWeights \/ C!LoadWeights \/ C!GenerateRaises
  PROVE  CmdInv'
  <1>1. OwnSize(run) /\ run \in Command
    BY DEF CmdInv, OwnSizes, ScreensOK
  <1>2. UNCHANGED <<manifest, ggufs, offered, pulled, screen, ops>>
    BY DEF C!OllamaBreaks, C!FindWeights, C!LoadWeights, C!GenerateRaises, C!Still
  <1>3. CASE C!OllamaBreaks
    <2> DEFINE new == [run EXCEPT !.at = "find", !.broke = TRUE]
    <2>1. run' = new /\ run.at = "ollama"
      BY <1>3 DEF C!OllamaBreaks
    <2>2. /\ new \in Command /\ OwnSize(new) /\ new.printed = run.printed /\ new.broke
          /\ new.at = "find"
      BY <1>1 DEF Command, OwnSize
    <2> HIDE DEF new
    <2> QED BY <1>2, <2>1, <2>2, RunOnly
  <1>4. ASSUME NEW to \in {"failed", "generate", "hung"}, run' = [run EXCEPT !.at = to],
               \/ run.at = "find" /\ to = "failed"
               \/ run.at = "load" /\ to \in {"generate", "failed"}
               \/ run.at = "generate" /\ to = "hung"
        PROVE  CmdInv'
    <2> DEFINE new == [run EXCEPT !.at = to]
    <2>1. run' = new
      BY <1>4
    <2>2. /\ new \in Command /\ OwnSize(new) /\ new.printed = run.printed
          /\ new.broke = run.broke /\ new.at = to
      BY <1>1 DEF Command, OwnSize
    <2> HIDE DEF new
    <2> QED BY <1>2, <1>4, <2>1, <2>2, RunOnly
  <1>5. CASE C!FindWeights
    <2>1. run.at = "find"
      BY <1>5 DEF C!FindWeights
    <2>2. CASE C!Find(run.asked) = {}
      BY <1>4, <1>5, <2>1, <2>2 DEF C!FindWeights
    <2>3. CASE C!Find(run.asked) # {}
      <3>1. PICK f \in C!Find(run.asked) :
              run' = [run EXCEPT !.at = "load", !.use = f, !.own = C!Own(run.asked)]
        BY <1>5, <2>3 DEF C!FindWeights
      <3>2. run.asked \in C!Refs
        BY <1>1 DEF Command
      <3>3. f \in C!Files /\ (C!Own(run.asked) => run.asked.size \in {"any", f.size})
        BY <3>2, FoundIsFile, OwnFits
      <3>4. C!Own(run.asked) \in BOOLEAN
        BY DEF C!Own, C!Usable
      <3> DEFINE new == [run EXCEPT !.at = "load", !.use = f, !.own = C!Own(run.asked)]
      <3>5. /\ new \in Command /\ new.printed = run.printed /\ new.broke = run.broke
            /\ new.at = "load" /\ new.use = f /\ new.asked = run.asked
            /\ new.own = C!Own(run.asked)
        BY <1>1, <3>3, <3>4 DEF Command, NoneOr
      <3> HIDE DEF new
      <3>6. OwnSize(new)
        BY <3>3, <3>5 DEF OwnSize
      <3>7. run' = new
        BY <3>1 DEF new
      <3> QED BY <1>2, <2>1, <3>5, <3>6, <3>7, RunOnly
    <2> QED BY <2>2, <2>3
  <1>6. CASE C!LoadWeights
    BY <1>4, <1>6 DEF C!LoadWeights
  <1>7. CASE C!GenerateRaises
    BY <1>4, <1>7 DEF C!GenerateRaises
  <1> QED BY <1>3, <1>5, <1>6, <1>7

(* The menu, and the REPL it opens.                                        *)
LEMMA ScreenMoves ==
  ASSUME CmdInv, NEW new \in Screen, screen' = new, OwnSize(new),
         new.at \in {"shell", "menu"} => new.use = C!NoFile,
         UNCHANGED <<manifest, ggufs, offered, pulled, run>>, ops' \in 0..MaxOps
  PROVE  CmdInv'
  <1>1. LibraryOK' /\ Installed' /\ Findable'
    BY DEF CmdInv, LibraryOK, Installed, Findable
  <1>2. ScreensOK'
    BY DEF CmdInv, ScreensOK
  <1>3. OwnSizes'
    BY DEF CmdInv, OwnSizes, OwnSize
  <1>4. Printed'
    BY DEF CmdInv, Printed
  <1> QED BY <1>1, <1>2, <1>3, <1>4 DEF CmdInv

LEMMA MenuKeeps == ASSUME CmdInv, C!Menu \/ C!Leave PROVE CmdInv'
  <1>1. C!NoScreen \in Screen /\ C!NoScreen.use = C!NoFile
    <2>1. C!Base \in C!Refs /\ C!NoFile \in NoneOr(C!Files)
      BY DEF C!Refs, NoneOr
    <2> QED BY <2>1 DEF C!NoScreen, Screen
  <1>2. UNCHANGED <<manifest, ggufs, offered, pulled, run>> /\ ops' \in 0..MaxOps
    BY CmdBounds DEF C!Menu, C!Leave, C!Op, CmdInv, ScreensOK
  <1>3. CASE C!Menu
    <2> DEFINE new == [C!NoScreen EXCEPT !.at = "menu", !.list = C!Listed]
    <2>1. screen' = new /\ C!Listed \in SUBSET C!Dirs
      BY <1>3 DEF C!Menu, C!Listed
    <2>2. new \in Screen /\ new.use = C!NoFile
      BY <1>1, <2>1 DEF Screen
    <2> HIDE DEF new
    <2> QED BY <1>2, <2>1, <2>2, ScreenMoves DEF OwnSize
  <1>4. CASE C!Leave
    <2>1. screen' = C!NoScreen
      BY <1>4 DEF C!Leave
    <2> QED BY <1>1, <1>2, <2>1, ScreenMoves DEF OwnSize
  <1> QED BY <1>3, <1>4

LEMMA ReplKeeps == ASSUME CmdInv, C!Repl PROVE CmdInv'
  <1>1. screen \in Screen /\ ops \in 0..MaxOps /\ OwnSize(screen)
        /\ (screen.at = "menu" => screen.use = C!NoFile)
    BY DEF CmdInv, ScreensOK, OwnSizes
  <1>2. PICK m \in C!Pickable :
          /\ screen.at = "menu"
          /\ \/ \E to \in {"gpu", "simulated"} : screen' = [screen EXCEPT !.at = to, !.asked = m]
             \/ \E f \in C!Find(m) : screen' = [screen EXCEPT !.at = "loading", !.asked = m,
                                                               !.use = f, !.own = C!Own(m)]
          /\ UNCHANGED <<manifest, ggufs, offered, pulled, run, ops>>
    BY DEF C!Repl
  <1>3. m \in C!Refs
    BY <1>1 DEF C!Pickable, Screen, C!Dirs
  <1>4. CASE \E to \in {"gpu", "simulated"} : screen' = [screen EXCEPT !.at = to, !.asked = m]
    <2>1. PICK to \in {"gpu", "simulated"} : screen' = [screen EXCEPT !.at = to, !.asked = m]
      BY <1>4
    <2> DEFINE new == [screen EXCEPT !.at = to, !.asked = m]
    <2>2. new \in Screen /\ new.use = screen.use /\ new.at = to
      BY <1>1, <1>3 DEF Screen
    <2> HIDE DEF new
    <2>3. OwnSize(new) /\ screen' = new
      BY <1>1, <1>2, <2>1, <2>2 DEF OwnSize, new
    <2> QED BY <1>1, <1>2, <2>2, <2>3, ScreenMoves
  <1>5. CASE \E f \in C!Find(m) : screen' = [screen EXCEPT !.at = "loading", !.asked = m,
                                                            !.use = f, !.own = C!Own(m)]
    <2>1. PICK f \in C!Find(m) : screen' = [screen EXCEPT !.at = "loading", !.asked = m,
                                                           !.use = f, !.own = C!Own(m)]
      BY <1>5
    <2> DEFINE new == [screen EXCEPT !.at = "loading", !.asked = m, !.use = f, !.own = C!Own(m)]
    <2>2. f \in C!Files /\ (C!Own(m) => m.size \in {"any", f.size})
      BY <1>3, FoundIsFile, OwnFits
    <2>3. C!Own(m) \in BOOLEAN
      BY DEF C!Own, C!Usable
    <2>4. /\ new \in Screen /\ new.use = f /\ new.asked = m /\ new.own = C!Own(m)
          /\ new.at = "loading"
      BY <1>1, <1>3, <2>2, <2>3 DEF Screen, NoneOr
    <2> HIDE DEF new
    <2>5. OwnSize(new) /\ screen' = new
      BY <2>1, <2>2, <2>4 DEF OwnSize, new
    <2> QED BY <1>1, <1>2, <2>4, <2>5, ScreenMoves
  <1> QED BY <1>2, <1>4, <1>5

LEMMA ReplLoadsKeeps == ASSUME CmdInv, C!ReplLoads PROVE CmdInv'
  <1>1. PICK to \in {"local", "simulated"} :
          /\ screen' = [screen EXCEPT !.at = to]
          /\ UNCHANGED <<manifest, ggufs, offered, pulled, run, ops>>
    BY DEF C!ReplLoads
  <1>2. screen \in Screen /\ ops \in 0..MaxOps /\ OwnSize(screen)
    BY DEF CmdInv, ScreensOK, OwnSizes
  <1> DEFINE new == [screen EXCEPT !.at = to]
  <1>3. new \in Screen /\ OwnSize(new) /\ new.at = to
    BY <1>2 DEF Screen, OwnSize
  <1> HIDE DEF new
  <1>4. screen' = new
    BY <1>1 DEF new
  <1> QED BY <1>1, <1>2, <1>3, <1>4, ScreenMoves

LEMMA CmdSame == CmdInv /\ UNCHANGED commandVars => CmdInv'
  BY DEF commandVars, CmdInv, LibraryOK, ScreensOK, Installed, Findable, OwnSizes, OwnSize,
         Printed

LEMMA CmdStep == CmdInv /\ [C!Next]_commandVars => CmdInv'
  <1>1. ASSUME CmdInv, C!Next PROVE CmdInv'
    <2>1. CASE \E ref \in C!Refs : \/ C!Run(ref)
                                   \/ \E quant \in Quants, skip \in BOOLEAN :
                                        C!Pull(ref, quant, skip)
      BY <1>1, <2>1, RunKeeps, PullKeeps
    <2>2. CASE \E d \in C!Dirs : \/ C!Rm(d)
                                 \/ \E b \in C!Refs : b.form = "colon" /\ C!Create(d, b)
      <3>1. C!Base \in C!Refs
        BY DEF C!Refs
      <3> QED BY <1>1, <2>2, <3>1, CreateRmKeeps
    <2>3. CASE \E f \in C!Files : C!DeleteGguf(f)
      BY <1>1, <2>3, DeleteKeeps
    <2>4. CASE C!OllamaToken \/ C!LocalToken
      BY <1>1, <2>4, TokenKeeps
    <2>5. CASE C!OllamaBreaks \/ C!FindWeights \/ C!LoadWeights \/ C!GenerateRaises
      BY <1>1, <2>5, RunStepKeeps
    <2>6. CASE C!OllamaDone \/ C!LocalDone \/ C!Interrupt
      BY <1>1, <2>6, RunStops DEF C!OllamaDone, C!LocalDone, C!Interrupt, C!Still
    <2>7. CASE C!Menu \/ C!Leave \/ C!Repl \/ C!ReplLoads
      BY <1>1, <2>7, MenuKeeps, ReplKeeps, ReplLoadsKeeps
    <2> QED BY <1>1, <2>1, <2>2, <2>3, <2>4, <2>5, <2>6, <2>7 DEF C!Next
  <1> QED BY <1>1, CmdSame

LEMMA CmdSound == CmdInv => C!PulledIsFound /\ C!OwnSizeFirst /\ C!PrintedOnce
  <1> SUFFICES ASSUME CmdInv PROVE C!PulledIsFound /\ C!OwnSizeFirst /\ C!PrintedOnce
    OBVIOUS
  <1>1. ASSUME NEW ref \in C!Refs, pulled[ref] # C!NoPull
        PROVE  /\ ~ pulled[ref].reused => pulled[ref].gguf \in ggufs
               /\ pulled[ref].skip => C!Find(ref) = {pulled[ref].gguf}
               /\ C!Find(ref) = {} => \/ ref.form \in {"repo", "listed"}
                                     \/ pulled[ref].gguf \notin ggufs
    <2>1. /\ pulled[ref].gguf \in ggufs \/ pulled[ref].reused
          /\ pulled[ref].skip => /\ manifest[C!DirOf(ref)].kind = "passthrough"
                                 /\ manifest[C!DirOf(ref)].gguf = pulled[ref].gguf
                                 /\ ~ pulled[ref].reused
          /\ ref.form \notin {"repo", "listed"} => C!InName(C!DirOf(ref), pulled[ref].gguf)
      BY <1>1 DEF CmdInv, Findable
    <2>2. pulled[ref].skip => C!Find(ref) = {pulled[ref].gguf}
      BY <2>1, OwnFind DEF C!Usable
    <2>3. C!Find(ref) = {} => ref.form \in {"repo", "listed"} \/ pulled[ref].gguf \notin ggufs
      BY <2>1, NamedIsFound
    <2> QED BY <2>1, <2>2, <2>3
  <1>2. C!PulledIsFound
    BY <1>1 DEF C!PulledIsFound
  <1>3. C!OwnSizeFirst
    BY DEF C!OwnSizeFirst, CmdInv, OwnSizes, OwnSize
  <1>4. C!PrintedOnce
    BY DEF C!PrintedOnce, CmdInv, Printed, Answer
  <1> QED BY <1>2, <1>3, <1>4

LEMMA CmdTypeOK == CmdInv => C!TypeOK
  <1> SUFFICES ASSUME CmdInv PROVE C!TypeOK
    OBVIOUS
  <1>1. \A i \in DOMAIN offered : offered[i] \in Sizes
    BY DEF CmdInv, ScreensOK
  <1> QED BY <1>1 DEF CmdInv, LibraryOK, ScreensOK, Command, Screen, NoneOr, Pulls, C!TypeOK

LEMMA CommandSteps == [MCNext]_<<vars, others>> => [C!Next]_commandVars
  BY DEF MCNext, others

(* CommandLine: what a pull installed under a reference is what the        *)
(* reference finds later, weights of another size never pass for an        *)
(* install of the asked one, and an engine prints after another only where *)
(* that one broke off, for any commands in any order.                      *)
THEOREM CommandsTheorem == MCSpec => []CommandsHonest
  <1>1. MCInit => CmdInv
    BY CmdStart DEF MCInit
  <1>2. CmdInv /\ [MCNext]_<<vars, others>> => CmdInv'
    BY CmdStep, CommandSteps
  <1>3. CmdInv => CommandsHonest
    BY CmdSound DEF CommandsHonest
  <1> QED BY <1>1, <1>2, <1>3, PTL DEF MCSpec

-----------------------------------------------------------------------------
(* The composer and its menus.                                             *)
LEMMA InputBounds ==
  /\ I!Space \notin Letters /\ I!Space # "/" /\ "/" \notin Letters /\ MaxKeys \in Nat
  /\ CommandTable \in Seq([name : Seq(Letters) \ {<<>>}, also : SUBSET Seq(Letters),
                           does : I!Does])
  /\ IsFiniteSet(ProjectFiles)
  /\ ProjectFiles \subseteq Seq(I!Chars) /\ EditorTexts \subseteq Seq(I!Chars)
  BY DeskAssumption DEF I!InputAssumption, I!IsFiniteSet, IsFiniteSet

LEMMA SameCardinality == \A S : I!Cardinality(S) = Cardinality(S)
  BY DEF I!Cardinality, Cardinality

(* The least and the greatest of a set of numbers.                         *)
LEMMA Least ==
  ASSUME NEW S, S \subseteq Nat, S # {}
  PROVE  \E n \in S : \A m \in S : n <= m
  <1> DEFINE Lt == OpToRel(<, Nat)
  <1>1. PICK n \in S : \A m \in S : ~ (<<m, n>> \in Lt)
    <2> HIDE DEF Lt
    <2>1. IsWellFoundedOn(Lt, Nat)
      BY NatLessThanWellFounded, Zenon DEF Lt
    <2> QED BY <2>1, WFMin
  <1>2. \A i, j \in Nat : i < j => <<i, j>> \in Lt
    BY DEF OpToRel
  <1> HIDE DEF Lt
  <1>3. n \in Nat /\ \A m \in S : m \in Nat /\ ~ (m < n)
    BY <1>1, <1>2
  <1>4. \A i, j \in Nat : i < j \/ j <= i
    OBVIOUS
  <1> QED BY <1>3, <1>4

LEMMA Greatest ==
  ASSUME NEW b \in Nat, NEW S, S \subseteq 0..b, S # {}
  PROVE  \E n \in S : \A m \in S : n >= m
  <1> DEFINE T == {b - n : n \in S}
  <1>1. ASSUME NEW n \in S PROVE n \in 0..b /\ b - n \in Nat /\ b - n \in T
    <2>1. n \in 0..b
      OBVIOUS
    <2>2. b - n \in Nat
      BY <2>1
    <2> QED BY <2>1, <2>2
  <1>2. PICK k \in T : \A m \in T : k <= m
    <2>1. T \subseteq Nat /\ T # {}
      BY <1>1
    <2> HIDE DEF T
    <2> QED BY <2>1, Least
  <1>3. PICK n \in S : k = b - n
    OBVIOUS
  <1>4. ASSUME NEW m \in S PROVE n >= m
    <2>1. b - n <= b - m
      BY <1>1, <1>2, <1>3
    <2> QED BY <1>1, <2>1
  <1> QED BY <1>4

(* The k-th of a set of positions, in order.                               *)
LEMMA NthIn ==
  ASSUME NEW n \in Nat, NEW S, S \subseteq 1..n, NEW k \in Nat, k < Cardinality(S)
  PROVE  I!Nth(S, k) \in S
  <1> DEFINE Below(i) == {j \in S : j < i}
             T == {i \in 1..(n + 1) : Cardinality(Below(i)) > k}
  <1>1. IsFiniteSet(S)
    <2>1. IsFiniteSet(1..n)
      BY FS_Interval
    <2> QED BY <2>1, FS_Subset
  <1>2. \A i \in Int : IsFiniteSet(Below(i)) /\ Cardinality(Below(i)) \in Nat
    BY <1>1, FS_Subset, FS_CardinalityType
  <1>3. \A j \in S : j \in Nat /\ 1 <= j /\ j <= n
    OBVIOUS
  <1>4. Below(n + 1) = S /\ Below(1) = {}
    <2>1. \A j \in S : j < n + 1 /\ ~ (j < 1)
      BY <1>3
    <2> QED BY <2>1
  <1>5. n + 1 \in T /\ 1 \notin T
    BY <1>4, FS_EmptySet
  <1>6. PICK i \in T : \A m \in T : i <= m
    <2>1. T \subseteq Nat /\ T # {}
      <3>1. T \subseteq 1..(n + 1)
        OBVIOUS
      <3> HIDE DEF T
      <3> QED BY <1>5, <3>1
    <2> HIDE DEF T
    <2> QED BY <2>1, Least
  <1>7. i \in 1..(n + 1) /\ Cardinality(Below(i)) > k /\ i # 1
    BY <1>5, <1>6
  <1>8. i - 1 \in 1..n /\ ~ Cardinality(Below(i - 1)) > k
    <2>1. i - 1 \notin T /\ i - 1 \in 1..n
      BY <1>6, <1>7
    <2> QED BY <2>1
  <1>9. Below(i) = IF i - 1 \in S THEN Below(i - 1) \cup {i - 1} ELSE Below(i - 1)
    <2>1. \A j \in S : j < i <=> (j < i - 1 \/ j = i - 1)
      BY <1>7, <1>3
    <2> QED BY <2>1
  <1>10. i - 1 \notin Below(i - 1)
    BY <1>7
  <1>11. IsFiniteSet(Below(i - 1)) /\ Cardinality(Below(i - 1)) \in Nat
    BY <1>2, <1>7
  <1>12. i - 1 \in S /\ Cardinality(Below(i)) = Cardinality(Below(i - 1)) + 1
    <2> HIDE DEF Below
    <2> QED BY <1>7, <1>8, <1>9, <1>10, <1>11, FS_AddElement
  <1>13. Cardinality(Below(i - 1)) = k
    <2> HIDE DEF Below
    <2> QED BY <1>7, <1>8, <1>11, <1>12
  <1>14. \E x \in S : I!Cardinality({j \in S : j < x}) = k
    BY <1>12, <1>13, SameCardinality
  <1> QED BY <1>14 DEF I!Nth

LEMMA SubSeqIn ==
  ASSUME NEW S, NEW s \in Seq(S), NEW a \in Int, NEW b \in Int, 1 <= a, b <= Len(s)
  PROVE  /\ SubSeq(s, a, b) \in Seq(S)
         /\ Len(SubSeq(s, a, b)) = IF a <= b THEN b - a + 1 ELSE 0
  <1>1. \A i \in a..b : s[i] \in S
    OBVIOUS
  <1> QED BY <1>1, SubSeqProperties

LEMMA SubSeqAll ==
  ASSUME NEW S, NEW s \in Seq(S)
  PROVE  SubSeq(s, 1, Len(s)) = s
  <1>1. \A i \in 1..Len(s) : s[i] \in S
    OBVIOUS
  <1>2. /\ SubSeq(s, 1, Len(s)) \in Seq(S) /\ Len(SubSeq(s, 1, Len(s))) = Len(s)
        /\ \A i \in 1..Len(s) : SubSeq(s, 1, Len(s))[i] = s[i]
    BY <1>1, SubSeqProperties
  <1> QED BY <1>2, SeqEqual

-----------------------------------------------------------------------------
(* Texts.                                                                  *)
Text == Seq(I!Chars)
Buffer(b) == b \in [text : Text, pos : Nat] /\ b.pos <= Len(b.text)

LEMMA WholeFits == ASSUME NEW t \in Text PROVE Buffer(I!Whole(t)) /\ I!Whole(t).text = t
  BY DEF I!Whole, Buffer, Text

LEMMA CutFits ==
  ASSUME NEW t \in Text, NEW a \in Nat, NEW b \in Nat, a <= b, a <= Len(t)
  PROVE  I!Cut(t, a, b) \in Text /\ a <= Len(I!Cut(t, a, b))
  <1> DEFINE l == SubSeq(t, 1, a)
             r == SubSeq(t, b + 1, Len(t))
  <1>1. l \in Text /\ Len(l) = a
    BY SubSeqIn DEF Text
  <1>2. r \in Text
    BY SubSeqIn DEF Text
  <1> HIDE DEF l, r
  <1>3. l \o r \in Text /\ Len(l \o r) = Len(l) + Len(r) /\ Len(r) \in Nat
    BY <1>1, <1>2, ConcatProperties DEF Text
  <1>4. I!Cut(t, a, b) = l \o r
    BY DEF I!Cut, l, r
  <1> QED BY <1>1, <1>3, <1>4

LEMMA InsertFits ==
  ASSUME NEW b, Buffer(b), NEW ch \in I!Chars
  PROVE  Buffer(I!Insert(b, <<ch>>))
  <1> DEFINE t == b.text
             p == b.pos
             l == SubSeq(t, 1, p)
             r == SubSeq(t, p + 1, Len(t))
             w == l \o <<ch>> \o r
  <1>1. t \in Text /\ p \in Nat /\ p <= Len(t)
    BY DEF Buffer
  <1> HIDE DEF t, p
  <1>2. l \in Text /\ Len(l) = p /\ r \in Text
    BY <1>1, SubSeqIn DEF Text
  <1>3. <<ch>> \in Text /\ Len(<<ch>>) = 1
    BY DEF Text
  <1> HIDE DEF l, r
  <1>4. l \o <<ch>> \in Text /\ Len(l \o <<ch>>) = p + 1
    BY <1>2, <1>3, ConcatProperties DEF Text
  <1>5. w \in Text /\ Len(w) = p + 1 + Len(r) /\ Len(r) \in Nat
    <2> DEFINE lc == l \o <<ch>>
    <2>1. lc \in Seq(I!Chars) /\ Len(lc) = p + 1 /\ r \in Seq(I!Chars)
      BY <1>2, <1>4 DEF Text
    <2> HIDE DEF lc
    <2>2. lc \o r \in Seq(I!Chars) /\ Len(lc \o r) = Len(lc) + Len(r) /\ Len(r) \in Nat
      BY <2>1, ConcatProperties, LenProperties
    <2> QED BY <2>1, <2>2 DEF lc, Text
  <1>6. I!Insert(b, <<ch>>) = [text |-> w, pos |-> p + 1]
    BY <1>3 DEF I!Insert, l, r, t, p
  <1> HIDE DEF w
  <1> QED BY <1>1, <1>5, <1>6 DEF Buffer

LEMMA BackspaceFits ==
  ASSUME NEW b, Buffer(b)
  PROVE  Buffer(I!Backspace(b))
  <1>1. CASE b.pos = 0
    BY <1>1 DEF I!Backspace
  <1>2. CASE b.pos # 0
    <2>1. b.text \in Text /\ b.pos \in Nat /\ b.pos <= Len(b.text) /\ b.pos - 1 \in Nat
      BY <1>2 DEF Buffer
    <2>2. I!Cut(b.text, b.pos - 1, b.pos) \in Text
          /\ b.pos - 1 <= Len(I!Cut(b.text, b.pos - 1, b.pos))
      <3>1. b.pos - 1 <= b.pos /\ b.pos - 1 <= Len(b.text)
        BY <2>1 DEF Text
      <3> QED BY <2>1, <3>1, CutFits
    <2> QED BY <1>2, <2>1, <2>2 DEF I!Backspace, Buffer
  <1> QED BY <1>1, <1>2

(* A word ends where the blanks before the cursor begin, and so on: there  *)
(* is such a place.                                                        *)
LEMMA BackFits ==
  ASSUME NEW t, NEW p \in Nat
  PROVE  I!WordBackward(t, p) \in 0..p
  <1>1. p \in 0..p
    OBVIOUS
  <1> DEFINE B == {q \in 0..p : I!Blank(t, q, p)}
  <1>2. PICK q \in Nat : q \in B /\ \A m \in B : q <= m
    <2>1. B \subseteq Nat
      OBVIOUS
    <2>2. I!Blank(t, p, p)
      BY <1>1 DEF I!Blank
    <2>3. p \in B
      BY <1>1, <2>2
    <2> HIDE DEF B
    <2> QED BY <2>1, <2>3, Least
  <1>3. q \in 0..p /\ I!Blank(t, q, p)
    BY <1>2
  <1>4. q = 0 \/ t[q] # I!Space
    <2> SUFFICES ASSUME q # 0, t[q] = I!Space PROVE FALSE
      OBVIOUS
    <2>1. q - 1 \in 0..p /\ ~ (q <= q - 1)
      BY <1>1, <1>3
    <2>2. I!Blank(t, q - 1, p)
      BY <1>1, <1>3 DEF I!Blank
    <2>3. q - 1 \in B
      BY <2>1, <2>2
    <2> HIDE DEF B
    <2> QED BY <1>2, <2>1, <2>3
  <1> DEFINE D == {r \in 0..q : I!Solid(t, r, q)}
  <1>5. PICK r \in Nat : r \in D /\ \A m \in D : r <= m
    <2>1. D \subseteq Nat
      OBVIOUS
    <2>2. I!Solid(t, q, q)
      BY <1>3 DEF I!Solid
    <2>3. q \in D
      BY <1>3, <2>2
    <2> HIDE DEF D
    <2> QED BY <2>1, <2>3, Least
  <1>6. r \in 0..q /\ I!Solid(t, r, q)
    BY <1>5
  <1>7. r = 0 \/ t[r] = I!Space
    <2> SUFFICES ASSUME r # 0, t[r] # I!Space PROVE FALSE
      OBVIOUS
    <2>1. r - 1 \in 0..q /\ ~ (r <= r - 1)
      BY <1>3, <1>6
    <2>2. I!Solid(t, r - 1, q)
      BY <1>3, <1>6 DEF I!Solid
    <2>3. r - 1 \in D
      BY <2>1, <2>2
    <2> HIDE DEF D
    <2> QED BY <1>5, <2>1, <2>3
  <1>8. r \in 0..p /\ q \in r..p
    BY <1>1, <1>3, <1>6
  <1> HIDE DEF B, D
  <1>9. \E x \in 0..p : \E y \in x..p :
          /\ I!Blank(t, y, p) /\ (y = 0 \/ t[y] # I!Space)
          /\ I!Solid(t, x, y) /\ (x = 0 \/ t[x] = I!Space)
    BY <1>3, <1>4, <1>6, <1>7, <1>8
  <1> QED BY <1>9 DEF I!WordBackward

LEMMA ForwardFits ==
  ASSUME NEW t, NEW n \in Nat, n = Len(t), NEW p \in Nat, p <= n
  PROVE  I!WordForward(t, p) \in p..n
  <1> DEFINE B == {q \in p..n : q = n \/ t[q + 1] # I!Space}
  <1>1. n \in Nat /\ p \in Nat /\ p <= n
    OBVIOUS
  <1>2. PICK q \in Nat : q \in B /\ \A m \in B : q <= m
    <2>1. B \subseteq p..n
      OBVIOUS
    <2>2. n \in B
      BY <1>1
    <2> HIDE DEF B
    <2>3. B \subseteq Nat
      BY <1>1, <2>1
    <2> QED BY <2>2, <2>3, Least
  <1>3. q \in p..n /\ (q = n \/ t[q + 1] # I!Space)
    BY <1>2
  <1>4. I!Blank(t, p, q)
    <2> SUFFICES ASSUME NEW i \in Nat, i \in (p + 1)..q, t[i] # I!Space PROVE FALSE
      BY <1>3 DEF I!Blank
    <2>1. i - 1 \in p..n /\ (i - 1) + 1 = i /\ ~ (q <= i - 1)
      BY <1>3, <1>1
    <2>2. i - 1 \in B
      BY <2>1
    <2> HIDE DEF B
    <2> QED BY <1>2, <2>1, <2>2
  <1> DEFINE D == {r \in q..n : r = n \/ t[r + 1] = I!Space}
  <1>5. PICK r \in Nat : r \in D /\ \A m \in D : r <= m
    <2>1. D \subseteq q..n
      OBVIOUS
    <2>2. n \in D
      BY <1>1, <1>3
    <2> HIDE DEF D
    <2>3. D \subseteq Nat
      BY <1>1, <1>3, <2>1
    <2> QED BY <2>2, <2>3, Least
  <1>6. r \in q..n /\ (r = n \/ t[r + 1] = I!Space)
    BY <1>5
  <1>7. I!Solid(t, q, r)
    <2> SUFFICES ASSUME NEW i \in Nat, i \in (q + 1)..r, t[i] = I!Space PROVE FALSE
      BY <1>3, <1>6 DEF I!Solid
    <2>1. i - 1 \in q..n /\ (i - 1) + 1 = i /\ ~ (r <= i - 1)
      BY <1>3, <1>6, <1>1
    <2>2. i - 1 \in D
      BY <2>1
    <2> HIDE DEF D
    <2> QED BY <1>5, <2>1, <2>2
  <1>8. r \in p..n /\ q \in p..r
    <2> HIDE DEF B, D
    <2> QED BY <1>3, <1>6, <1>1
  <1> HIDE DEF B, D
  <1>9. \E x \in p..n : \E y \in p..x :
          /\ I!Blank(t, p, y) /\ (y = n \/ t[y + 1] # I!Space)
          /\ I!Solid(t, y, x) /\ (x = n \/ t[x + 1] = I!Space)
    BY <1>3, <1>4, <1>6, <1>7, <1>8
  <1> QED BY <1>9 DEF I!WordForward

LEMMA TransposeFits ==
  ASSUME NEW t \in Text, NEW p \in 0..Len(t)
  PROVE  Buffer(I!Transpose(t, p))
  <1>1. t \in Seq(I!Chars) /\ Len(t) \in Nat
    BY DEF Text
  <1>2. CASE Len(t) < 2 \/ p = 0
    <2>1. I!Transpose(t, p) = [text |-> t, pos |-> p]
      BY <1>2 DEF I!Transpose
    <2> QED BY <1>1, <2>1 DEF Buffer, Text
  <1>3. CASE ~ (Len(t) < 2 \/ p = 0)
    <2> DEFINE q == IF p = Len(t) THEN p - 1 ELSE p
               u == [t EXCEPT ![q] = t[q + 1]]
               v == [u EXCEPT ![q + 1] = t[q]]
    <2>1. q \in 1..Len(t) /\ q + 1 \in 1..Len(t) /\ t[q] \in I!Chars /\ t[q + 1] \in I!Chars
      BY <1>3, <1>1
    <2> HIDE DEF q
    <2>2. u \in Seq(I!Chars) /\ Len(u) = Len(t)
      BY <1>1, <2>1, ExceptSeq
    <2>3. v \in Seq(I!Chars) /\ Len(v) = Len(t)
      <3> HIDE DEF u
      <3> QED BY <2>1, <2>2, ExceptSeq
    <2>4. I!Transpose(t, p) = [text |-> v, pos |-> q + 1]
      BY <1>3 DEF I!Transpose, q
    <2> HIDE DEF u, v
    <2> QED BY <1>1, <2>1, <2>3, <2>4 DEF Buffer, Text
  <1> QED BY <1>2, <1>3
-----------------------------------------------------------------------------
(* What every key keeps.  Composing: the composer, and a place in the      *)
(* history.  Menued: as long as the text has been looked at by the menu,   *)
(* the highlight is on an item of it, and the token is what the text says, *)
(* unless the text is a command taken from the menu.  Windowed: a dialog   *)
(* with a list has its selection in it, one with a form has its target.    *)
Menu(t, tok) == IF I!Bare(t) THEN I!Candidates(IF t = <<"/">> THEN <<>> ELSE tok) ELSE {}
Fits(t, tok, i) ==
  /\ Menu(t, tok) # {} => i < Cardinality(Menu(t, tok))
  /\ I!Bare(t) => /\ t = <<"/">> => tok = <<>>
                  /\ tok = Tail(t) \/ \E c \in DOMAIN CommandTable : t = I!Slash(c)
Forms == {"none", "init", "connect"}
Windows == [kind : {"none", "palette", "files", "pick", "input"},
            items : Seq(Seq(I!Chars \cup {"hf", "ollama"})), filter : Seq(Letters),
            selected : Nat, form : Forms]
Found(d) == {i \in DOMAIN d.items : I!Includes(d.items[i], d.filter)}
Points(d) == d.kind \in {"palette", "files", "pick"} /\ Found(d) # {}
               => d.selected < Cardinality(Found(d))

Composing == Buffer(buffer) /\ history \in Seq(Text) /\ at \in 0..Len(history)
Menued == idx \in Nat /\ (~stale => Fits(buffer.text, token, idx))
WindowOK(d, p) ==
  /\ d \in Windows /\ Points(d) /\ p \in Forms
  /\ d.kind = "palette" => d.items \in Seq(Text)
  /\ d.kind = "input" => p = d.form
Windowed == WindowOK(dialog, pending)
Keyed == leader \in BOOLEAN /\ stale \in BOOLEAN /\ mode \in {"on", "off"} /\ keys \in 0..MaxKeys
Ran == last.shown # 0 /\ ~last.exact /\ ~last.stale => last.ran = last.shown
InputInv == Composing /\ Menued /\ Windowed /\ Keyed /\ Ran

LEMMA StartsSlash ==
  ASSUME NEW t \in Text
  PROVE  I!Starts(t, <<"/">>) <=> Len(t) >= 1 /\ t[1] = "/"
  <1> DEFINE u == <<"/">>
             a == SubSeq(t, 1, 1)
  <1>1. u \in Seq(I!Chars) /\ Len(u) = 1 /\ u[1] = "/"
    BY DEF I!Chars
  <1>2. t \in Seq(I!Chars) /\ Len(t) \in Nat
    BY DEF Text
  <1>3. SubSeq(u, 1, 1) = u
    <2> HIDE DEF u
    <2> QED BY <1>1, SubSeqAll
  <1>4. I!Starts(t, u) <=> Len(t) >= 1 /\ u = a
    <2> HIDE DEF u
    <2>1. 1 <= Len(t) <=> Len(t) >= 1
      BY <1>2
    <2> QED BY <1>1, <1>3, <2>1 DEF I!Starts, I!IsPrefix, a
  <1>5. ASSUME Len(t) >= 1 PROVE (u = a) <=> t[1] = "/"
    <2>1. \A i \in 1..1 : t[i] \in I!Chars
      BY <1>5, <1>2
    <2>2. a \in Seq(I!Chars) /\ Len(a) = 1 /\ a[1] = t[1]
      BY <1>5, <1>2, <2>1, SubSeqProperties
    <2> HIDE DEF u, a
    <2>3. t[1] = "/" => u = a
      BY <1>1, <2>2, SeqEqual
    <2> QED BY <1>1, <2>2, <2>3
  <1> QED BY <1>4, <1>5

LEMMA BareEmpty == ~ I!Bare(<<>>) /\ <<>> \in Text
  <1>1. <<>> \in Text /\ Len(<<>>) = 0
    BY DEF Text
  <1> QED BY <1>1, StartsSlash DEF I!Bare

LEMMA SlashFits ==
  ASSUME NEW c \in DOMAIN CommandTable
  PROVE  /\ I!Slash(c) \in Text /\ I!Bare(I!Slash(c)) /\ I!Slash(c) # <<"/">>
         /\ Len(I!Slash(c)) >= 2 /\ I!Slash(c)[1] = "/"
         /\ SubSeq(I!Slash(c), 2, Len(I!Slash(c))) = CommandTable[c].name
  <1> DEFINE u == <<"/">>
             n == CommandTable[c].name
             s == I!Slash(c)
  <1>1. n \in Seq(Letters) /\ n # <<>>
    <2> DEFINE R == [name : Seq(Letters) \ {<<>>}, also : SUBSET Seq(Letters), does : I!Does]
    <2>1. CommandTable \in Seq(R)
      BY InputBounds
    <2> HIDE DEF R
    <2>2. CommandTable[c] \in R
      BY <2>1
    <2> QED BY <2>2 DEF R
  <1>2. u \in Seq(I!Chars) /\ Len(u) = 1 /\ u[1] = "/"
    BY DEF I!Chars
  <1>3. \A x \in Letters : x \in I!Chars /\ x # I!Space
    BY InputBounds DEF I!Chars
  <1>4. s = u \o n
    BY DEF I!Slash
  <1> HIDE DEF n, u, s
  <1>5. n \in Seq(I!Chars) /\ Len(n) \in Nat /\ Len(n) >= 1
    BY <1>1, <1>3
  <1>6. /\ s \in Seq(I!Chars) /\ Len(s) = 1 + Len(n)
        /\ \A i \in 1..Len(s) : s[i] = IF i <= 1 THEN u[i] ELSE n[i - 1]
    <2>1. /\ u \o n \in Seq(I!Chars) /\ Len(u \o n) = Len(u) + Len(n)
          /\ \A i \in 1..Len(u) + Len(n) :
               (u \o n)[i] = IF i <= Len(u) THEN u[i] ELSE n[i - Len(u)]
      BY <1>2, <1>5, ConcatProperties
    <2> QED BY <1>2, <1>5, <1>4, <2>1
  <1>7. s[1] = "/" /\ \A i \in 2..Len(s) : s[i] = n[i - 1] /\ s[i] \in Letters
    BY <1>1, <1>2, <1>5, <1>6
  <1>8. \A i \in DOMAIN s : s[i] # I!Space
    <2>1. ASSUME NEW i \in Nat, i \in 1..Len(s) PROVE s[i] # I!Space
      <3>1. i = 1 \/ i \in 2..Len(s)
        BY <2>1
      <3> QED BY <1>7, <1>3, <3>1, InputBounds
    <2> QED BY <1>6, <2>1
  <1>9. SubSeq(s, 2, Len(s)) = n
    <2>1. \A i \in 2..Len(s) : s[i] \in I!Chars
      BY <1>6
    <2>2. /\ SubSeq(s, 2, Len(s)) \in Seq(I!Chars) /\ Len(SubSeq(s, 2, Len(s))) = Len(n)
          /\ \A i \in 1..Len(n) : SubSeq(s, 2, Len(s))[i] = s[i + 1]
      BY <1>5, <1>6, <2>1, SubSeqProperties
    <2>3. \A i \in 1..Len(n) : s[i + 1] = n[i]
      BY <1>5, <1>6, <1>7
    <2> QED BY <1>5, <2>2, <2>3, SeqEqual
  <1>10. I!Starts(s, <<"/">>)
    BY <1>5, <1>6, <1>7, StartsSlash DEF Text
  <1>11. s # <<"/">>
    BY <1>5, <1>6, <1>2 DEF u
  <1>12. Len(s) >= 2
    BY <1>5, <1>6
  <1>13. s \in Text /\ I!Bare(s)
    BY <1>6, <1>8, <1>10 DEF Text, I!Bare
  <1> QED BY <1>7, <1>9, <1>11, <1>12, <1>13 DEF s, n

LEMMA CandidatesOK ==
  ASSUME NEW s
  PROVE  /\ I!Candidates(s) \subseteq 1..Len(CommandTable) /\ Len(CommandTable) \in Nat
         /\ I!Candidates(s) \subseteq DOMAIN CommandTable
         /\ Cardinality(I!Candidates(s)) \in Nat
         /\ I!Candidates(s) # {} => 0 < Cardinality(I!Candidates(s))
  <1>1. I!Candidates(s) \subseteq DOMAIN CommandTable
    BY DEF I!Candidates
  <1>2. DOMAIN CommandTable = 1..Len(CommandTable) /\ Len(CommandTable) \in Nat
    BY InputBounds
  <1>3. IsFiniteSet(I!Candidates(s))
    <2>1. IsFiniteSet(1..Len(CommandTable))
      BY <1>2, FS_Interval
    <2> QED BY <1>1, <1>2, <2>1, FS_Subset
  <1>4. Cardinality(I!Candidates(s)) \in Nat
        /\ (I!Candidates(s) # {} => Cardinality(I!Candidates(s)) # 0)
    BY <1>3, FS_CardinalityType, FS_EmptySet
  <1> QED BY <1>1, <1>2, <1>4

LEMMA MenuOK ==
  ASSUME NEW t, NEW tok
  PROVE  /\ Menu(t, tok) \subseteq 1..Len(CommandTable) /\ Len(CommandTable) \in Nat
         /\ Menu(t, tok) \subseteq DOMAIN CommandTable
         /\ Cardinality(Menu(t, tok)) \in Nat
         /\ Menu(t, tok) # {} => 0 < Cardinality(Menu(t, tok))
  <1>1. CASE I!Bare(t)
    <2> DEFINE w == IF t = <<"/">> THEN <<>> ELSE tok
    <2>1. Menu(t, tok) = I!Candidates(w)
      BY <1>1 DEF Menu
    <2> HIDE DEF w
    <2> QED BY <2>1, CandidatesOK
  <1>2. CASE ~ I!Bare(t)
    <2>1. Menu(t, tok) = {}
      BY <1>2 DEF Menu
    <2>2. Len(CommandTable) \in Nat
      BY InputBounds
    <2> QED BY <2>1, <2>2, FS_EmptySet
  <1> QED BY <1>1, <1>2

LEMMA MatchesAreMenu == I!Matches = Menu(buffer.text, token)
  BY DEF I!Matches, Menu

LEMMA SlashNth ==
  ASSUME NEW t, NEW tok, NEW k \in Nat, k < Cardinality(Menu(t, tok))
  PROVE  I!Nth(Menu(t, tok), k) \in DOMAIN CommandTable
         /\ I!Slash(I!Nth(Menu(t, tok), k)) \in Text
  <1> DEFINE m == Menu(t, tok)
             n == Len(CommandTable)
  <1>1. m \subseteq 1..n /\ n \in Nat /\ m \subseteq DOMAIN CommandTable
        /\ k < Cardinality(m)
    BY MenuOK
  <1> HIDE DEF m, n
  <1>2. I!Nth(m, k) \in m
    BY <1>1, NthIn
  <1> QED BY <1>1, <1>2, SlashFits DEF m

(* A command taken from the menu leaves the menu as it was.                *)
LEMMA PickedFits ==
  ASSUME NEW t, NEW tok, t = <<"/">> => tok = <<>>, I!Bare(t),
         NEW k \in Nat, k < Cardinality(Menu(t, tok))
  PROVE  Fits(I!Slash(I!Nth(Menu(t, tok), k)), tok, k)
  <1> DEFINE c == I!Nth(Menu(t, tok), k)
             s == I!Slash(c)
  <1>1. c \in DOMAIN CommandTable
    BY SlashNth
  <1>2. s \in Text /\ I!Bare(s) /\ s # <<"/">>
    BY <1>1, SlashFits
  <1>3. Menu(s, tok) = I!Candidates(tok)
    BY <1>2 DEF Menu
  <1>4. Menu(t, tok) = I!Candidates(tok)
    BY DEF Menu
  <1>5. \E d \in DOMAIN CommandTable : s = I!Slash(d)
    BY <1>1
  <1>6. k < Cardinality(Menu(s, tok))
    BY <1>3, <1>4
  <1> HIDE DEF s, c
  <1>7. Fits(s, tok, k)
    BY <1>2, <1>5, <1>6 DEF Fits
  <1> QED BY <1>7 DEF s, c

LEMMA TailOfSlash == ASSUME NEW t, t = <<"/">> PROVE Tail(t) = <<>>
  OBVIOUS

(* The menu looks at the text.                                             *)
LEMMA ClampFits ==
  ASSUME NEW t, NEW i \in Nat
  PROVE  LET tok == IF I!Bare(t) THEN Tail(t) ELSE <<>>
             j == IF i < I!Cardinality(I!MatchesOf(t)) THEN i ELSE 0
         IN  j \in Nat /\ Fits(t, tok, j)
  <1> DEFINE tok == IF I!Bare(t) THEN Tail(t) ELSE <<>>
             j == IF i < I!Cardinality(I!MatchesOf(t)) THEN i ELSE 0
  <1>1. Menu(t, tok) = I!MatchesOf(t)
    BY TailOfSlash DEF Menu, I!MatchesOf
  <1>2. I!Bare(t) => tok = Tail(t) /\ (t = <<"/">> => tok = <<>>)
    BY TailOfSlash
  <1> HIDE DEF tok
  <1>3. j \in Nat /\ (Menu(t, tok) # {} => j < Cardinality(Menu(t, tok)))
    BY <1>1, MenuOK, SameCardinality
  <1> HIDE DEF j
  <1>4. Fits(t, tok, j)
    BY <1>2, <1>3 DEF Fits
  <1> QED BY <1>3, <1>4 DEF tok, j

LEMMA NotBareFits == ASSUME NEW t, NEW tok, NEW i, ~ I!Bare(t) PROVE Fits(t, tok, i)
  BY DEF Fits, Menu

-----------------------------------------------------------------------------
(* What Enter makes of the text.                                           *)
LEMMA StripIn == ASSUME NEW t \in Text PROVE I!Strip(t) \in Text
  <1> DEFINE solid == {i \in DOMAIN t : t[i] # I!Space}
             a == CHOOSE i \in solid : \A j \in solid : i <= j
             b == CHOOSE i \in solid : \A j \in solid : i >= j
  <1>1. t \in Seq(I!Chars) /\ Len(t) \in Nat /\ DOMAIN t = 1..Len(t)
    BY DEF Text
  <1>2. CASE solid = {}
    <2>1. I!Strip(t) = <<>>
      BY <1>2 DEF I!Strip
    <2> QED BY <2>1, BareEmpty
  <1>3. CASE solid # {}
    <2>1. solid \subseteq 1..Len(t)
      BY <1>1
    <2>2. I!Strip(t) = SubSeq(t, a, b)
      BY <1>3 DEF I!Strip
    <2> HIDE DEF solid
    <2>3. a \in solid
      <3>1. solid \subseteq Nat
        BY <1>1, <2>1
      <3> QED BY <1>3, <3>1, Least
    <2>4. b \in solid
      <3>1. solid \subseteq 0..Len(t)
        BY <1>1, <2>1
      <3> QED BY <1>1, <1>3, <3>1, Greatest
    <2> HIDE DEF a, b
    <2>5. a \in Int /\ b \in Int /\ 1 <= a /\ b <= Len(t)
      BY <1>1, <2>1, <2>3, <2>4
    <2> QED BY <1>1, <2>2, <2>5, SubSeqIn DEF Text
  <1> QED BY <1>2, <1>3

LEMMA StripBare == ASSUME NEW t \in Text, I!Bare(t) PROVE I!Strip(t) = t
  <1> DEFINE n == Len(t)
             solid == {i \in DOMAIN t : t[i] # I!Space}
             a == CHOOSE i \in solid : \A j \in solid : i <= j
             b == CHOOSE i \in solid : \A j \in solid : i >= j
  <1>1. t \in Seq(I!Chars) /\ n \in Nat /\ DOMAIN t = 1..n /\ n >= 1
    BY StartsSlash DEF Text, I!Bare
  <1>2. solid = 1..n
    BY <1>1 DEF I!Bare
  <1>3. I!Strip(t) = SubSeq(t, a, b)
    <2>1. solid # {}
      BY <1>1, <1>2
    <2> QED BY <2>1 DEF I!Strip
  <1> HIDE DEF solid, n
  <1>4. a = 1
    <2>1. a \in 1..n /\ \A j \in 1..n : a <= j
      <3>1. 1 \in 1..n /\ \A j \in 1..n : 1 <= j
        BY <1>1
      <3> QED BY <1>2, <3>1
    <2> HIDE DEF a
    <2>2. a \in Nat /\ a <= 1 /\ a >= 1
      BY <1>1, <2>1
    <2> QED BY <2>2
  <1>5. b = n
    <2>1. b \in 1..n /\ \A j \in 1..n : b >= j
      <3>1. n \in 1..n /\ \A j \in 1..n : n >= j
        BY <1>1
      <3> QED BY <1>2, <3>1
    <2> HIDE DEF b
    <2>2. b \in Nat /\ b <= n /\ b >= n
      BY <1>1, <2>1
    <2> QED BY <1>1, <2>2
  <1> HIDE DEF a, b
  <1> QED BY <1>1, <1>3, <1>4, <1>5, SubSeqAll DEF n

LEMMA SlashIsNamed == ASSUME NEW c \in DOMAIN CommandTable PROVE I!Named(I!Slash(c)).exact
  <1> DEFINE t == I!Slash(c)
             word == I!Until(t, I!Space)
             deep == {k \in DOMAIN word : \A j \in 1..k : word[j] = "/"}
             found == UNION {I!Exact(SubSeq(word, i + 1, Len(word))) : i \in deep}
  <1>1. /\ t \in Text /\ I!Bare(t) /\ Len(t) >= 2 /\ t[1] = "/"
        /\ SubSeq(t, 2, Len(t)) = CommandTable[c].name
    BY SlashFits
  <1> HIDE DEF t
  <1>2. word = t
    BY <1>1 DEF I!Until, I!Bare
  <1> HIDE DEF word
  <1>3. 1 \in deep
    <2>1. 1 \in DOMAIN t
      BY <1>1 DEF Text
    <2>2. \A j \in 1..1 : t[j] = "/"
      BY <1>1
    <2> QED BY <1>2, <2>1, <2>2
  <1>4. c \in I!Exact(SubSeq(word, 1 + 1, Len(word)))
    BY <1>1, <1>2 DEF I!Exact
  <1>5. c \in found
    <2> HIDE DEF deep
    <2> QED BY <1>3, <1>4
  <1>6. I!Named(t) = [cmd |-> CHOOSE x \in found : TRUE, exact |-> TRUE]
    BY <1>5 DEF I!Named, word
  <1> QED BY <1>6 DEF t

LEMMA NamedIsHighlighted ==
  ASSUME NEW t, NEW tok, NEW i \in Nat, idx = i, Fits(t, tok, i), Menu(t, tok) # {},
         ~ I!Named(t).exact
  PROVE  I!Named(t).cmd = I!Nth(Menu(t, tok), i)
  <1>1. I!Bare(t)
    BY DEF Menu
  <1>2. tok = Tail(t)
    BY <1>1, SlashIsNamed DEF Fits
  <1>3. Menu(t, tok) = I!MatchesOf(t)
    BY <1>1, <1>2, TailOfSlash DEF Menu, I!MatchesOf
  <1> DEFINE m == I!MatchesOf(t)
  <1>4. i < Cardinality(m) /\ Cardinality(m) \in Nat /\ m # {}
    BY <1>3, MenuOK DEF Fits
  <1>5. I!Named(t).cmd = I!Nth(m, idx % I!Cardinality(m))
    <2>1. I!Named(t) = [cmd |-> IF m = {} THEN 0 ELSE I!Nth(m, idx % I!Cardinality(m)),
                        exact |-> FALSE]
      BY DEF I!Named
    <2> QED BY <1>4, <2>1
  <1> HIDE DEF m
  <1>6. i % Cardinality(m) = i
    BY <1>4
  <1> QED BY <1>3, <1>5, <1>6, SameCardinality DEF m

-----------------------------------------------------------------------------
(* Dialogs.                                                                *)
LEMMA TextIsItem ==
  ASSUME NEW t \in Seq(I!Chars)
  PROVE  t \in Seq(I!Chars \cup {"hf", "ollama"})
  <1> DEFINE C2 == I!Chars \cup {"hf", "ollama"}
  <1>1. I!Chars \subseteq C2
    OBVIOUS
  <1> HIDE DEF C2
  <1>2. t \in Seq(C2)
    BY <1>1
  <1> QED BY <1>2 DEF C2

LEMMA FoundOK ==
  ASSUME NEW d, d \in Windows
  PROVE  /\ Found(d) \subseteq 1..Len(d.items) /\ Len(d.items) \in Nat
         /\ Found(d) \subseteq DOMAIN d.items
         /\ Cardinality(Found(d)) \in Nat
         /\ Found(d) # {} => 0 < Cardinality(Found(d))
  <1>1. d.items \in Seq(Seq(I!Chars \cup {"hf", "ollama"}))
    BY DEF Windows
  <1>2. DOMAIN d.items = 1..Len(d.items) /\ Len(d.items) \in Nat
    BY <1>1
  <1>3. Found(d) \subseteq DOMAIN d.items
    BY DEF Found
  <1>4. IsFiniteSet(Found(d))
    <2>1. IsFiniteSet(1..Len(d.items))
      BY <1>2, FS_Interval
    <2> QED BY <1>2, <1>3, <2>1, FS_Subset
  <1>5. Cardinality(Found(d)) \in Nat /\ (Found(d) # {} => Cardinality(Found(d)) # 0)
    BY <1>4, FS_CardinalityType, FS_EmptySet
  <1> QED BY <1>2, <1>3, <1>5

LEMMA EmptyWindow ==
  /\ I!NoDialog \in Windows /\ I!NoDialog.kind = "none" /\ I!NoDialog.selected = 0
  BY DEF I!NoDialog, Windows, Forms

LEMMA OpenedOK ==
  ASSUME NEW k \in {"palette", "files", "pick"}, NEW p \in Forms,
         NEW items \in Seq(Seq(I!Chars \cup {"hf", "ollama"})),
         k = "palette" => items \in Seq(Text)
  PROVE  WindowOK(I!Opened(k, items), p)
  <1> DEFINE d == I!Opened(k, items)
  <1>1. d.kind = k /\ d.items = items /\ d.selected = 0
    BY EmptyWindow DEF Windows, I!Opened
  <1>2. d \in Windows
    BY EmptyWindow DEF Windows, I!Opened
  <1> HIDE DEF d
  <1>3. Points(d)
    BY <1>1, <1>2, FoundOK DEF Points
  <1> QED BY <1>1, <1>2, <1>3 DEF WindowOK, d

LEMMA NoDialogOK == ASSUME NEW p \in Forms PROVE WindowOK(I!NoDialog, p)
  BY DEF I!NoDialog, WindowOK, Windows, Points, Forms

LEMMA FormOK ==
  ASSUME NEW f \in {"init", "connect"}
  PROVE  WindowOK(I!Form(f), f)
  <1>1. I!Form(f) \in Windows /\ I!Form(f).kind = "input" /\ I!Form(f).form = f
    BY EmptyWindow DEF I!Form, Windows, Forms
  <1> QED BY <1>1 DEF WindowOK, Points, Forms

LEMMA FilePickerOK == ASSUME NEW p \in Forms PROVE WindowOK(I!FilePicker, p)
  <1> DEFINE n == I!Cardinality(ProjectFiles)
             s == I!SetToSeq(ProjectFiles)
  <1>1. n \in Nat /\ ExistsBijection(1..n, ProjectFiles)
    <2>1. PICK k \in Nat : ExistsBijection(1..k, ProjectFiles)
      BY InputBounds, FS_NatBijection
    <2>2. Cardinality(ProjectFiles) = k
      BY <2>1, FS_CountingElements
    <2> QED BY <2>1, <2>2, SameCardinality
  <1>2. \E f \in [1..n -> ProjectFiles] : I!IsInjective(f)
    <2>1. PICK f : f \in Bijection(1..n, ProjectFiles)
      BY <1>1 DEF ExistsBijection
    <2> HIDE DEF n
    <2> QED BY <2>1 DEF Bijection, Injection, Surjection, IsInjective, I!IsInjective
  <1>3. s \in [1..n -> ProjectFiles]
    BY <1>2 DEF I!SetToSeq
  <1> HIDE DEF n, s
  <1>4. s \in Seq(ProjectFiles)
    BY <1>1, <1>3
  <1>5. s \in Seq(Seq(I!Chars \cup {"hf", "ollama"}))
    <2> DEFINE B == Seq(I!Chars \cup {"hf", "ollama"})
    <2>1. ProjectFiles \subseteq B
      BY InputBounds, TextIsItem
    <2> HIDE DEF B
    <2>2. s \in Seq(B)
      BY <1>4, <2>1
    <2> QED BY <2>2 DEF B
  <1>6. WindowOK(I!Opened("files", s), p)
    BY <1>5, OpenedOK
  <1> QED BY <1>6 DEF I!FilePicker, s

LEMMA PickListOK == ASSUME NEW p \in Forms PROVE WindowOK(I!Opened("pick", I!PickList), p)
  <1>1. I!PickList \in Seq(Seq(I!Chars \cup {"hf", "ollama"}))
    BY DEF I!PickList
  <1> QED BY <1>1, OpenedOK

LEMMA PaletteOK ==
  ASSUME NEW items \in Seq(Text), NEW p \in Forms
  PROVE  WindowOK(I!Opened("palette", items), p)
  <1>1. items \in Seq(Seq(I!Chars \cup {"hf", "ollama"}))
    <2> DEFINE B == Seq(I!Chars \cup {"hf", "ollama"})
    <2>1. Text \subseteq B
      BY TextIsItem DEF Text
    <2> HIDE DEF B
    <2>2. items \in Seq(B)
      BY <2>1
    <2> QED BY <2>2 DEF B
  <1> QED BY <1>1, OpenedOK

LEMMA ExecuteOK ==
  ASSUME NEW c, I!Execute(c), WindowOK(dialog, pending), mode \in {"on", "off"}
  PROVE  WindowOK(dialog', pending') /\ mode' \in {"on", "off"}
  <1>1. pending \in Forms
    BY DEF WindowOK
  <1>2. mode' \in {"on", "off"}
    BY DEF I!Execute
  <1>3. CASE CommandTable[c].does = "form"
    <2>1. dialog' = I!Form("init") /\ pending' = "init"
      BY <1>3 DEF I!Execute, I!OpenForm
    <2> QED BY <1>2, <2>1, FormOK
  <1>4. CASE CommandTable[c].does # "form"
    <2>1. pending' = pending
          /\ (dialog' = I!Opened("pick", I!PickList) \/ dialog' = I!NoDialog)
      BY <1>4 DEF I!Execute
    <2> QED BY <1>1, <1>2, <2>1, PickListOK, NoDialogOK
  <1> QED BY <1>3, <1>4

-----------------------------------------------------------------------------
(* The parts of the invariant one by one.                                  *)
LEMMA ComposingKept ==
  ASSUME Composing, Buffer(buffer'), history' = history, at' \in {0, at}
  PROVE  Composing'
  <1>1. Buffer(buffer)'
    BY DEF Buffer, Text, I!Chars
  <1>2. at' \in 0..Len(history')
    BY DEF Composing
  <1> QED BY <1>1, <1>2 DEF Composing, Text, I!Chars

LEMMA MenuedKept ==
  ASSUME Menued, buffer'.text = buffer.text, idx' = idx, token' = token, stale' = stale
  PROVE  Menued'
  BY DEF Menued, Fits, Menu

LEMMA MenuedStale == ASSUME Menued, idx' = idx, stale' PROVE Menued'
  BY DEF Menued

(* An edit that may leave the composer as it was.                          *)
LEMMA MenuedMaybe ==
  ASSUME Menued, idx' = idx, token' = token, stale \in BOOLEAN,
         stale' = (stale \/ buffer' # buffer)
  PROVE  Menued'
  <1>1. CASE buffer' = buffer /\ ~stale
    <2>1. stale' = stale /\ buffer'.text = buffer.text
      BY <1>1
    <2> QED BY <2>1, MenuedKept
  <1>2. CASE ~ (buffer' = buffer /\ ~stale)
    BY <1>2 DEF Menued
  <1> QED BY <1>1, <1>2

LEMMA MenuedClamped == ASSUME Menued, I!Clamp(buffer'.text) PROVE Menued'
  <1> DEFINE t == buffer'.text
  <1>1. idx \in Nat
    BY DEF Menued
  <1>2. /\ token' = IF I!Bare(t) THEN Tail(t) ELSE <<>>
        /\ idx' = IF idx < I!Cardinality(I!MatchesOf(t)) THEN idx ELSE 0
    BY DEF I!Clamp
  <1> HIDE DEF t
  <1>3. idx' \in Nat /\ Fits(t, token', idx')
    BY <1>1, <1>2, ClampFits
  <1> QED BY <1>3 DEF Menued, t

LEMMA KeyedKept ==
  ASSUME Keyed, I!Press, leader' \in BOOLEAN, stale' \in BOOLEAN, mode' \in {"on", "off"}
  PROVE  Keyed'
  BY InputBounds DEF Keyed, I!Press

LEMMA RanNothing == ASSUME I!Forget PROVE Ran'
  BY DEF Ran, I!Forget, I!Nothing

(* The part that is left alone.                                            *)
LEMMA Left ==
  /\ InputInv => Composing /\ Menued /\ Windowed /\ Keyed /\ Ran
  /\ Composing => Buffer(buffer) /\ buffer.text \in Text
  /\ Keyed => leader \in BOOLEAN /\ stale \in BOOLEAN /\ mode \in {"on", "off"}
  /\ Windowed => pending \in Forms
  /\ Windowed /\ dialog' = dialog /\ pending' = pending => Windowed'
  /\ Composing' /\ Menued' /\ Windowed' /\ Keyed' /\ Ran' => InputInv'
  BY DEF InputInv, Composing, Buffer, Keyed, Windowed, WindowOK

LEMMA TypeKeeps == ASSUME InputInv, NEW ch \in I!Chars, I!Type(ch) PROVE InputInv'
  <1>1. Composing'
    <2>1. buffer' = I!Insert(buffer, <<ch>>) /\ history' = history /\ at' = 0
      BY DEF I!Type
    <2> QED BY <2>1, Left, InsertFits, ComposingKept
  <1>2. Menued'
    <2>1. I!Clamp(buffer'.text)
      BY DEF I!Type
    <2> QED BY <2>1, Left, MenuedClamped
  <1>3. Windowed'
    <2>1. pending' = pending /\ (dialog' = dialog \/ dialog' = I!FilePicker)
      BY DEF I!Type
    <2>2. CASE dialog' = I!FilePicker
      BY <2>1, <2>2, Left, FilePickerOK DEF Windowed
    <2> QED BY <2>1, <2>2, Left
  <1>4. Keyed' /\ Ran'
    BY Left, KeyedKept, RanNothing DEF I!Type, I!Free
  <1> QED BY <1>1, <1>2, <1>3, <1>4, Left

LEMMA EraseKeeps == ASSUME InputInv, I!Erase PROVE InputInv'
  <1>1. Composing'
    BY Left, BackspaceFits, ComposingKept DEF I!Erase
  <1>2. Menued'
    BY Left, MenuedClamped DEF I!Erase
  <1>3. Windowed'
    BY Left DEF I!Erase
  <1>4. Keyed' /\ Ran'
    BY Left, KeyedKept, RanNothing DEF I!Erase, I!Free
  <1> QED BY <1>1, <1>2, <1>3, <1>4, Left

LEMMA MovesFit ==
  ASSUME NEW b, Buffer(b), NEW p \in I!Moves(b.text, b.pos)
  PROVE  Buffer([b EXCEPT !.pos = p]) /\ [b EXCEPT !.pos = p].text = b.text
  <1> DEFINE t == b.text
             n == Len(t)
             q == b.pos
  <1>1. t \in Text /\ n \in Nat /\ q \in Nat /\ q <= n
    BY DEF Buffer, Text
  <1>2. I!WordBackward(t, q) \in 0..q
    <2> HIDE DEF t, q
    <2> QED BY <1>1, BackFits
  <1>3. I!WordForward(t, q) \in q..n
    <2> HIDE DEF t, q
    <2> QED BY <1>1, ForwardFits
  <1>4. p \in 0..n
    <2>1. p \in {0, n, I!WordBackward(t, q), I!WordForward(t, q)} \/ p \in 0..n
      BY DEF I!Moves
    <2> HIDE DEF t, n, q
    <2> QED BY <1>1, <1>2, <1>3, <2>1
  <1> QED BY <1>4 DEF Buffer, Text

LEMMA MoveKeeps == ASSUME InputInv, I!Move PROVE InputInv'
  <1>1. PICK p \in I!Moves(buffer.text, buffer.pos) : buffer' = [buffer EXCEPT !.pos = p]
    BY DEF I!Move
  <1>2. Buffer(buffer') /\ buffer'.text = buffer.text
    BY <1>1, Left, MovesFit
  <1>3. Composing' /\ Menued' /\ Windowed'
    BY <1>2, Left, ComposingKept, MenuedKept DEF I!Move, I!menu
  <1>4. Keyed' /\ Ran'
    BY Left, KeyedKept, RanNothing DEF I!Move, I!Free
  <1> QED BY <1>3, <1>4, Left

LEMMA CutBuffer ==
  ASSUME NEW t \in Text, NEW a \in Nat, NEW b \in Nat, a <= b, a <= Len(t)
  PROVE  Buffer([text |-> I!Cut(t, a, b), pos |-> a])
  BY CutFits DEF Buffer

LEMMA EditsFit ==
  ASSUME NEW b, Buffer(b), NEW e \in I!Edits(b.text, b.pos)
  PROVE  Buffer(e)
  <1> DEFINE t == b.text
             n == Len(t)
             p == b.pos
             u == I!WordBackward(t, p)
             v == I!WordForward(t, p)
  <1>1. t \in Text /\ n \in Nat /\ p \in Nat /\ p <= n
    BY DEF Buffer, Text
  <1>2. u \in Nat /\ u <= p
    <2> HIDE DEF t, p
    <2> QED BY <1>1, BackFits
  <1>3. v \in Nat /\ p <= v
    <2> HIDE DEF t, p
    <2> QED BY <1>1, ForwardFits
  <1> HIDE DEF u, v
  <1>4. e \in {[text |-> I!Cut(t, p, p + 1), pos |-> p], [text |-> I!Cut(t, p, n), pos |-> p],
               [text |-> I!Cut(t, 0, p), pos |-> 0], [text |-> I!Cut(t, u, p), pos |-> u],
               [text |-> I!Cut(t, p, v), pos |-> p], I!Transpose(t, p)}
    BY DEF I!Edits, u, v
  <1> HIDE DEF t, n, p
  <1>5. 0 <= p /\ p <= p + 1 /\ p + 1 \in Nat /\ 0 <= n /\ u <= n /\ p <= Len(t)
        /\ u <= Len(t) /\ 0 <= Len(t) /\ p \in 0..Len(t)
    BY <1>1, <1>2 DEF n
  <1>6. Buffer([text |-> I!Cut(t, p, p + 1), pos |-> p])
    BY <1>1, <1>5, CutBuffer
  <1>7. Buffer([text |-> I!Cut(t, p, n), pos |-> p])
    BY <1>1, <1>5, CutBuffer
  <1>8. Buffer([text |-> I!Cut(t, 0, p), pos |-> 0])
    BY <1>1, <1>5, CutBuffer
  <1>9. Buffer([text |-> I!Cut(t, u, p), pos |-> u])
    BY <1>1, <1>2, <1>5, CutBuffer
  <1>10. Buffer([text |-> I!Cut(t, p, v), pos |-> p])
    BY <1>1, <1>3, <1>5, CutBuffer
  <1>11. Buffer(I!Transpose(t, p))
    BY <1>1, <1>5, TransposeFits
  <1> QED BY <1>4, <1>6, <1>7, <1>8, <1>9, <1>10, <1>11

LEMMA EditKeeps == ASSUME InputInv, I!Edit PROVE InputInv'
  <1>1. Composing' /\ Windowed'
    BY Left, EditsFit, ComposingKept DEF I!Edit
  <1>2. Menued'
    BY Left, MenuedStale DEF I!Edit, I!menu
  <1>3. Keyed' /\ Ran'
    BY Left, KeyedKept, RanNothing DEF I!Edit, I!Free
  <1> QED BY <1>1, <1>2, <1>3, Left

LEMMA CycleKeeps ==
  ASSUME Menued, I!Active, NEW d \in {-1, 1}, I!Cycle(d), stale' = stale
  PROVE  Buffer(buffer') /\ Menued'
  <1> DEFINE m == Menu(buffer.text, token)
             k == (idx + d) % Cardinality(m)
             s == I!Slash(I!Nth(m, k))
  <1>1. m # {} /\ Cardinality(m) \in Nat /\ 0 < Cardinality(m) /\ idx \in Nat
    BY MatchesAreMenu, MenuOK DEF I!Active, Menued
  <1>2. idx' = k /\ buffer' = I!Whole(s) /\ token' = token
    BY MatchesAreMenu, SameCardinality DEF I!Cycle
  <1>3. k \in Nat /\ k < Cardinality(m)
    <2> DEFINE n == Cardinality(m)
    <2>1. n \in Nat /\ 0 < n /\ idx + d \in Int
      BY <1>1
    <2> HIDE DEF m, n
    <2> QED BY <2>1 DEF n
  <1> HIDE DEF k
  <1>4. s \in Text
    BY <1>3, SlashNth
  <1>5. ASSUME ~stale PROVE Fits(s, token, k)
    <2>1. I!Bare(buffer.text) /\ (buffer.text = <<"/">> => token = <<>>)
      BY <1>1, <1>5 DEF Menued, Fits, Menu
    <2> QED BY <1>3, <2>1, PickedFits
  <1> HIDE DEF s
  <1>6. Buffer(buffer') /\ buffer'.text = s
    BY <1>2, <1>4, WholeFits
  <1> QED BY <1>2, <1>3, <1>5, <1>6 DEF Menued

LEMMA UpKeeps == ASSUME InputInv, I!Up PROVE InputInv'
  <1>1. Keyed' /\ Ran' /\ Windowed'
    <2>1. stale' \in BOOLEAN
      BY Left DEF I!Up
    <2> QED BY <2>1, Left, KeyedKept, RanNothing DEF I!Up, I!Free
  <1>2. CASE I!Active
    <2>1. I!Cycle(-1) /\ stale' = stale /\ history' = history /\ at' = at
      BY <1>2 DEF I!Up
    <2>2. Buffer(buffer') /\ Menued'
      BY <1>2, <2>1, Left, CycleKeeps
    <2> QED BY <1>1, <2>1, <2>2, Left, ComposingKept
  <1>3. CASE ~ I!Active
    <2> DEFINE n == Len(history)
    <2>1. /\ history # <<>> /\ history' = history /\ buffer' = I!Whole(history[at'])
          /\ at' = IF at = 0 THEN n ELSE IF at > 1 THEN at - 1 ELSE at
          /\ stale' /\ idx' = idx
      BY <1>3 DEF I!Up, I!menu
    <2>2. history \in Seq(Text) /\ n \in Nat /\ n >= 1 /\ at \in 0..n
      BY <2>1, Left DEF Composing
    <2>3. at' \in 1..n
      <3> HIDE DEF n
      <3> QED BY <2>1, <2>2
    <2>4. history[at'] \in Text
      BY <2>2, <2>3
    <2>7. Buffer(buffer')
      BY <2>1, <2>4, WholeFits
    <2>8. history' \in Seq(Text) /\ at' \in 0..Len(history')
      <3> HIDE DEF n
      <3>1. at' \in 0..n
        BY <2>2, <2>3
      <3> QED BY <2>1, <2>2, <3>1 DEF n
    <2>5. Composing'
      BY <2>7, <2>8 DEF Composing, Buffer
    <2>6. Menued'
      BY <2>1, Left, MenuedStale
    <2> QED BY <1>1, <2>5, <2>6, Left
  <1> QED BY <1>2, <1>3

LEMMA DownKeeps == ASSUME InputInv, I!Down PROVE InputInv'
  <1>1. Keyed' /\ Ran' /\ Windowed'
    <2>1. stale' \in BOOLEAN
      BY Left DEF I!Down
    <2> QED BY <2>1, Left, KeyedKept, RanNothing DEF I!Down, I!Free
  <1>2. CASE I!Active
    <2>1. I!Cycle(1) /\ stale' = stale /\ history' = history /\ at' = at
      BY <1>2 DEF I!Down
    <2>2. Buffer(buffer') /\ Menued'
      BY <1>2, <2>1, Left, CycleKeeps
    <2> QED BY <1>1, <2>1, <2>2, Left, ComposingKept
  <1>3. CASE ~ I!Active
    <2> DEFINE n == Len(history)
               t == IF at' = 0 THEN <<>> ELSE history[at']
    <2>1. /\ history' = history /\ buffer' = I!Whole(t) /\ at # 0
          /\ at' = IF at < n THEN at + 1 ELSE 0
          /\ stale' /\ idx' = idx
      BY <1>3 DEF I!Down, I!menu
    <2>2. history \in Seq(Text) /\ n \in Nat /\ at \in 0..n
      BY Left DEF Composing
    <2>3. at' \in 0..n
      <3> HIDE DEF n
      <3> QED BY <2>1, <2>2
    <2>4. t \in Text
      BY <2>2, <2>3, BareEmpty
    <2> HIDE DEF t
    <2>5. Composing'
      BY <2>1, <2>2, <2>3, <2>4, WholeFits DEF Composing, Buffer, Text, I!Chars
    <2>6. Menued'
      BY <2>1, Left, MenuedStale
    <2> QED BY <1>1, <2>5, <2>6, Left
  <1> QED BY <1>2, <1>3

LEMMA FirstKeeps ==
  ASSUME Menued, I!Active, idx' = 0, buffer' = I!Whole(I!Slash(I!Nth(I!Matches, 0))),
         token' = token, stale' = stale
  PROVE  Buffer(buffer') /\ Menued'
  <1> DEFINE m == Menu(buffer.text, token)
             s == I!Slash(I!Nth(m, 0))
  <1>1. m # {} /\ 0 < Cardinality(m)
    BY MatchesAreMenu, MenuOK DEF I!Active
  <1>2. buffer' = I!Whole(s)
    BY MatchesAreMenu
  <1>4. s \in Text
    BY <1>1, SlashNth
  <1>5. ASSUME ~stale PROVE Fits(s, token, 0)
    <2>1. I!Bare(buffer.text) /\ (buffer.text = <<"/">> => token = <<>>)
      BY <1>1, <1>5 DEF Menued, Fits, Menu
    <2> QED BY <1>1, <2>1, PickedFits
  <1> HIDE DEF s
  <1>6. Buffer(buffer') /\ buffer'.text = s
    BY <1>2, <1>4, WholeFits
  <1> QED BY <1>5, <1>6 DEF Menued

LEMMA SpacedFits ==
  ASSUME NEW t \in Text
  PROVE  t \o <<I!Space>> \in Text /\ ~ I!Bare(t \o <<I!Space>>)
  <1> DEFINE u == <<I!Space>>
             w == t \o u
  <1>1. u \in Seq(I!Chars) /\ Len(u) = 1 /\ u[1] = I!Space
    BY DEF I!Chars
  <1>2. t \in Seq(I!Chars) /\ Len(t) \in Nat
    BY DEF Text
  <1> HIDE DEF u
  <1>3. /\ w \in Seq(I!Chars) /\ Len(w) = Len(t) + Len(u)
        /\ \A i \in 1..Len(t) + Len(u) : w[i] = IF i <= Len(t) THEN t[i] ELSE u[i - Len(t)]
    BY <1>1, <1>2, ConcatProperties
  <1> HIDE DEF w
  <1>4. Len(t) + 1 \in DOMAIN w /\ w[Len(t) + 1] = I!Space
    BY <1>1, <1>2, <1>3
  <1> QED BY <1>3, <1>4 DEF Text, I!Bare, w, u

LEMMA CompletesKeeps ==
  ASSUME InputInv, I!Completes, idx' = idx, token' = token, stale' = stale,
         pending' = pending
  PROVE  Buffer(buffer') /\ Menued' /\ Windowed'
  <1> DEFINE s == I!Strip(buffer.text)
             found == {c \in DOMAIN CommandTable : I!Starts(CommandTable[c].name, Tail(s))}
             n == Cardinality(found)
             items == [i \in 1..n |-> I!Slash(I!Nth(found, i - 1))]
  <1>1. found \subseteq 1..Len(CommandTable) /\ found \subseteq DOMAIN CommandTable
        /\ Len(CommandTable) \in Nat /\ IsFiniteSet(found) /\ n \in Nat
    <2>1. DOMAIN CommandTable = 1..Len(CommandTable) /\ Len(CommandTable) \in Nat
      BY InputBounds
    <2>2. IsFiniteSet(1..Len(CommandTable))
      BY <2>1, FS_Interval
    <2>3. found \subseteq DOMAIN CommandTable
      OBVIOUS
    <2> HIDE DEF found
    <2> QED BY <2>1, <2>2, <2>3, FS_Subset, FS_CardinalityType
  <1>2. ASSUME NEW k \in Nat, k < n PROVE I!Slash(I!Nth(found, k)) \in Text
    <2>1. I!Nth(found, k) \in found
      <3> DEFINE l == Len(CommandTable)
      <3>1. found \subseteq 1..l /\ l \in Nat /\ k < Cardinality(found)
        BY <1>1, <1>2
      <3> HIDE DEF found, l
      <3> QED BY <3>1, NthIn
    <2> QED BY <1>1, <2>1, SlashFits
  <1>3. items \in Seq(Text)
    <2>1. \A i \in 1..n : i - 1 \in Nat /\ i - 1 < n
      BY <1>1
    <2> HIDE DEF n, found
    <2>2. \A i \in 1..n : I!Slash(I!Nth(found, i - 1)) \in Text
      BY <1>2, <2>1
    <2> QED BY <1>1, <2>2
  <1>4. \/ buffer' = buffer /\ dialog' = dialog
        \/ buffer' = buffer /\ dialog' = I!FilePicker
        \/ buffer' = buffer /\ dialog' = I!Opened("palette", items)
        \/ /\ n = 1 /\ dialog' = dialog
           /\ buffer' = I!Whole(I!Slash(I!Nth(found, 0)) \o <<I!Space>>)
    <2> DEFINE cond == I!Starts(s, <<"/">>) /\ Len(s) > 1 /\ found # {}
    <2>1. CASE cond
      BY <2>1, SameCardinality DEF I!Completes
    <2>2. CASE ~ cond
      BY <2>2 DEF I!Completes
    <2> QED BY <2>1, <2>2
  <1> HIDE DEF items
  <1>5. CASE buffer' = buffer
    <2>1. Buffer(buffer') /\ Menued'
      BY <1>5, Left, MenuedKept
    <2>2. pending \in Forms
      BY Left
    <2>3. Windowed'
      <3>1. CASE dialog' = I!FilePicker
        BY <2>2, <3>1, FilePickerOK DEF Windowed
      <3>2. CASE dialog' = I!Opened("palette", items)
        BY <1>3, <2>2, <3>2, PaletteOK DEF Windowed
      <3>3. CASE dialog' = dialog
        BY <3>3, Left
      <3>4. CASE buffer' # buffer
        BY <1>5, <3>4
      <3>5. CASE n = 1 /\ dialog' = dialog
        BY <3>5, Left
      <3> QED BY <1>4, <3>1, <3>2, <3>3, <3>5
    <2> QED BY <2>1, <2>3
  <1>6. CASE buffer' # buffer
    <2> DEFINE t == I!Slash(I!Nth(found, 0))
    <2>1. t \in Text
      BY <1>2, <1>4, <1>6
    <2>2. dialog' = dialog /\ buffer' = I!Whole(t \o <<I!Space>>)
      BY <1>4, <1>6
    <2> HIDE DEF t
    <2>3. Buffer(buffer') /\ ~ I!Bare(buffer'.text)
      BY <2>1, <2>2, SpacedFits, WholeFits
    <2>4. Menued'
      BY <2>3, Left, NotBareFits DEF Menued
    <2>5. Windowed'
      BY <2>2, Left
    <2> QED BY <2>3, <2>4, <2>5
  <1> QED BY <1>5, <1>6

LEMMA TabKeeps == ASSUME InputInv, I!Tab PROVE InputInv'
  <1>1. Keyed' /\ Ran'
    BY Left, KeyedKept, RanNothing DEF I!Tab, I!Free
  <1>2. history' = history /\ at' = at /\ stale' = stale /\ pending' = pending
    BY DEF I!Tab
  <1>3. CASE I!Active
    <2>1. dialog' = dialog
      BY <1>3 DEF I!Tab
    <2>2. \/ I!Cycle(1)
          \/ idx' = 0 /\ buffer' = I!Whole(I!Slash(I!Nth(I!Matches, 0))) /\ token' = token
      BY <1>3 DEF I!Tab
    <2>3. Buffer(buffer') /\ Menued'
      BY <1>2, <1>3, <2>2, Left, CycleKeeps, FirstKeeps
    <2> QED BY <1>1, <1>2, <2>1, <2>3, Left, ComposingKept
  <1>4. CASE ~ I!Active
    <2>1. I!Completes /\ idx' = idx /\ token' = token
      BY <1>4 DEF I!Tab, I!menu
    <2>2. Buffer(buffer') /\ Menued' /\ Windowed'
      BY <1>2, <2>1, CompletesKeeps
    <2> QED BY <1>1, <1>2, <2>2, Left, ComposingKept
  <1> QED BY <1>3, <1>4

LEMMA HighlightRuns ==
  ASSUME Composing, Menued, ~stale, I!Highlighted # 0,
         ~ I!Named(I!Strip(buffer.text)).exact
  PROVE  I!Named(I!Strip(buffer.text)).cmd = I!Highlighted
  <1> DEFINE t == buffer.text
             m == Menu(t, token)
  <1>1. t \in Text /\ idx \in Nat /\ Fits(t, token, idx)
    BY Left DEF Menued
  <1>2. idx < Cardinality(m) /\ I!Highlighted = I!Nth(m, idx)
    BY MatchesAreMenu, SameCardinality DEF I!Highlighted
  <1>3. m # {}
    <2>1. m = {} => Cardinality(m) = 0
      BY FS_EmptySet
    <2> HIDE DEF m
    <2> QED BY <1>1, <1>2, <2>1
  <1>4. I!Strip(t) = t
    <2>1. I!Bare(t)
      BY <1>3 DEF Menu
    <2> HIDE DEF t
    <2> QED BY <1>1, <2>1, StripBare
  <1>5. ~ I!Named(t).exact
    BY <1>4
  <1> HIDE DEF t
  <1>6. I!Named(t).cmd = I!Nth(Menu(t, token), idx)
    BY <1>1, <1>3, <1>5, NamedIsHighlighted DEF m
  <1> QED BY <1>2, <1>4, <1>6 DEF t, m

LEMMA EnterKeeps == ASSUME InputInv, I!Enter PROVE InputInv'
  <1> DEFINE t == I!Strip(buffer.text)
             n == I!Named(t)
  <1>1. /\ history' = IF t = <<>> THEN history ELSE Append(history, t)
        /\ buffer' = I!Whole(<<>>) /\ at' = 0 /\ idx' = 0 /\ stale' = FALSE /\ leader' = leader
    BY DEF I!Enter
  <1>2. \/ /\ I!Execute(n.cmd)
           /\ last' = [I!Nothing EXCEPT !.shown = I!Highlighted, !.ran = n.cmd,
                                        !.exact = n.exact, !.stale = stale]
        \/ I!Forget /\ dialog' = dialog /\ pending' = pending /\ mode' = mode
    BY DEF I!Enter
  <1>3. t \in Text
    BY Left, StripIn
  <1>4. Composing'
    <2>1. history' \in Seq(Text)
      <3> HIDE DEF t
      <3> QED BY <1>1, <1>3, Left DEF Composing
    <2>2. Buffer(buffer')
      BY <1>1, BareEmpty, WholeFits
    <2>3. at' \in 0..Len(history')
      BY <1>1, <2>1
    <2> QED BY <2>1, <2>2, <2>3 DEF Composing, Buffer, Text, I!Chars
  <1>5. Menued'
    <2>1. buffer'.text = <<>>
      BY <1>1, BareEmpty, WholeFits
    <2>2. Fits(<<>>, token', 0)
      BY BareEmpty, NotBareFits
    <2> QED BY <1>1, <2>1, <2>2 DEF Menued
  <1>6. Windowed' /\ mode' \in {"on", "off"}
    <2>1. CASE I!Execute(n.cmd)
      BY <2>1, Left, ExecuteOK DEF Windowed
    <2>2. CASE dialog' = dialog /\ pending' = pending /\ mode' = mode
      BY <2>2, Left
    <2> QED BY <1>2, <2>1, <2>2
  <1>7. Keyed'
    BY <1>1, <1>6, Left, KeyedKept DEF I!Enter, I!Free
  <1>8. Ran'
    <2>1. CASE I!Forget
      BY <2>1, RanNothing
    <2>2. CASE last' = [I!Nothing EXCEPT !.shown = I!Highlighted, !.ran = n.cmd,
                                         !.exact = n.exact, !.stale = stale]
      <3>1. last'.shown = I!Highlighted /\ last'.ran = n.cmd /\ last'.exact = n.exact
            /\ last'.stale = stale
        <4> HIDE DEF n
        <4> QED BY <2>2 DEF I!Nothing
      <3>2. ~stale /\ I!Highlighted # 0 /\ ~n.exact => n.cmd = I!Highlighted
        BY Left, HighlightRuns
      <3> HIDE DEF n
      <3> QED BY <3>1, <3>2 DEF Ran
    <2> QED BY <1>2, <2>1, <2>2
  <1> QED BY <1>4, <1>5, <1>6, <1>7, <1>8, Left

LEMMA ClearKeeps == ASSUME InputInv, I!Clear PROVE InputInv'
  <1>1. buffer' = I!Whole(<<>>) /\ Buffer(buffer') /\ buffer'.text = <<>>
    BY BareEmpty, WholeFits DEF I!Clear
  <1>2. Composing' /\ Windowed'
    BY <1>1, Left, ComposingKept DEF I!Clear
  <1>3. Menued'
    <2>1. Fits(<<>>, token', idx')
      BY BareEmpty, NotBareFits
    <2> QED BY <1>1, <2>1, Left DEF Menued, I!Clear, I!menu
  <1>4. Keyed' /\ Ran'
    BY Left, KeyedKept, RanNothing DEF I!Clear, I!Free
  <1> QED BY <1>2, <1>3, <1>4, Left

(* Leaving, the palette and the leader key do not touch the composer.      *)
LEMMA AsideKeeps == ASSUME InputInv, I!Leave \/ I!Palette \/ I!LeaderDown PROVE InputInv'
  <1>1. Composing' /\ Menued'
    BY Left, ComposingKept, MenuedKept DEF I!Leave, I!Palette, I!LeaderDown, I!menu
  <1>2. Keyed' /\ Ran'
    BY Left, KeyedKept, RanNothing DEF I!Leave, I!Palette, I!LeaderDown, I!Free
  <1>3. Windowed'
    <2>1. CASE I!Palette
      <3> DEFINE items == [c \in DOMAIN CommandTable |-> I!Slash(c)]
      <3>1. dialog' = I!Opened("palette", items) /\ pending' = pending
        BY <2>1 DEF I!Palette
      <3>2. items \in Seq(Text)
        <4>1. DOMAIN CommandTable = 1..Len(CommandTable) /\ Len(CommandTable) \in Nat
          BY InputBounds
        <4>2. \A c \in DOMAIN CommandTable : I!Slash(c) \in Text
          BY SlashFits
        <4> QED BY <4>1, <4>2
      <3> HIDE DEF items
      <3> QED BY <3>1, <3>2, Left, PaletteOK DEF Windowed
    <2>2. CASE I!Leave \/ I!LeaderDown
      BY <2>2, Left DEF I!Leave, I!LeaderDown
    <2> QED BY <2>1, <2>2
  <1> QED BY <1>1, <1>2, <1>3, Left

LEMMA ComposedFits == ASSUME Composing, I!Composed PROVE Buffer(buffer')
  <1>1. CASE buffer' = buffer
    BY <1>1, Left
  <1>2. CASE buffer' # buffer
    <2>1. PICK w \in EditorTexts : buffer' = I!Whole(w)
      BY <1>2 DEF I!Composed
    <2>2. w \in Text
      BY InputBounds DEF Text
    <2> QED BY <2>1, <2>2, WholeFits
  <1> QED BY <1>1, <1>2

LEMMA LeaderKeyKeeps == ASSUME InputInv, I!LeaderKey PROVE InputInv'
  <1>1. /\ history' = history /\ at' = at /\ idx' = idx /\ token' = token /\ leader' = FALSE
        /\ stale' = (stale \/ buffer' # buffer) /\ I!Press /\ I!Forget
    BY DEF I!LeaderKey, I!menu
  <1>2. \/ mode' = "off" /\ buffer' = buffer /\ dialog' = dialog /\ pending' = pending
        \/ I!OpenForm("init") /\ buffer' = buffer /\ mode' = mode
        \/ /\ dialog' = I!Opened("pick", I!PickList)
           /\ buffer' = buffer /\ pending' = pending /\ mode' = mode
        \/ I!Composed /\ dialog' = dialog /\ pending' = pending /\ mode' = mode
    BY DEF I!LeaderKey
  <1>3. Buffer(buffer') /\ mode' \in {"on", "off"}
    BY <1>2, Left, ComposedFits
  <1>4. stale' \in BOOLEAN
    BY <1>1, Left
  <1>5. Composing' /\ Menued' /\ Keyed' /\ Ran'
    BY <1>1, <1>3, <1>4, Left, ComposingKept, MenuedMaybe, KeyedKept, RanNothing
  <1>6. Windowed'
    <2>1. CASE I!OpenForm("init")
      BY <2>1, FormOK DEF I!OpenForm, Windowed
    <2>2. CASE dialog' = I!Opened("pick", I!PickList) /\ pending' = pending
      BY <2>2, Left, PickListOK DEF Windowed
    <2>3. CASE dialog' = dialog /\ pending' = pending
      BY <2>3, Left
    <2> QED BY <1>2, <2>1, <2>2, <2>3
  <1> QED BY <1>5, <1>6, Left

-----------------------------------------------------------------------------
(* Keys of a dialog.                                                       *)
LEMMA FilterOK ==
  ASSUME NEW d, NEW p, WindowOK(d, p), NEW f \in Seq(Letters)
  PROVE  WindowOK([d EXCEPT !.filter = f, !.selected = 0], p)
  <1> DEFINE e == [d EXCEPT !.filter = f, !.selected = 0]
  <1>1. d \in Windows
    BY DEF WindowOK
  <1>2. e \in Windows /\ e.kind = d.kind /\ e.items = d.items /\ e.form = d.form
        /\ e.selected = 0
    BY <1>1 DEF Windows
  <1> HIDE DEF e
  <1>3. Points(e)
    BY <1>2, FoundOK DEF Points
  <1>4. WindowOK(e, p)
    BY <1>2, <1>3 DEF WindowOK
  <1> QED BY <1>4 DEF e

LEMMA SelectOK ==
  ASSUME NEW d, NEW p, WindowOK(d, p), NEW k \in Nat,
         Found(d) # {} => k < Cardinality(Found(d))
  PROVE  WindowOK([d EXCEPT !.selected = k], p)
  <1> DEFINE e == [d EXCEPT !.selected = k]
  <1>1. d \in Windows
    BY DEF WindowOK
  <1>2. e \in Windows /\ e.kind = d.kind /\ e.items = d.items /\ e.form = d.form
        /\ e.selected = k /\ e.filter = d.filter
    BY <1>1 DEF Windows
  <1> HIDE DEF e
  <1>3. Found(e) = Found(d)
    BY <1>2 DEF Found
  <1>4. Points(e)
    BY <1>2, <1>3 DEF Points
  <1>5. WindowOK(e, p)
    BY <1>2, <1>4 DEF WindowOK
  <1> QED BY <1>5 DEF e

LEMMA FilteredIsFound == I!Filtered = Found(dialog)
  BY DEF I!Filtered, Found

(* A key of a dialog that leaves the composer alone.                       *)
LEMMA DialogKeeps ==
  ASSUME InputInv, I!Press, I!Forget, Windowed',
         buffer' = buffer, history' = history, at' = at, token' = token, idx' = idx,
         leader' = leader, stale' = stale, mode' = mode
  PROVE  InputInv'
  <1>1. Composing' /\ Menued' /\ Keyed' /\ Ran'
    BY Left, ComposingKept, MenuedKept, KeyedKept, RanNothing
  <1> QED BY <1>1, Left

LEMMA FilterKeeps == ASSUME InputInv, I!Filter PROVE InputInv'
  <1>1. Windowed'
    <2>1. pending' = pending /\ WindowOK(dialog, pending) /\ dialog.filter \in Seq(Letters)
      BY Left DEF I!Filter, Windowed, WindowOK, Windows
    <2>2. \E f \in Seq(Letters) : dialog' = [dialog EXCEPT !.filter = f, !.selected = 0]
      <3>1. CASE \E ch \in Letters : dialog' = [dialog EXCEPT !.filter = Append(@, ch),
                                                              !.selected = 0]
        <4>1. PICK ch \in Letters : dialog' = [dialog EXCEPT !.filter = Append(@, ch),
                                                             !.selected = 0]
          BY <3>1
        <4>2. Append(dialog.filter, ch) \in Seq(Letters)
          BY <2>1, AppendProperties
        <4> QED BY <4>1, <4>2
      <3>2. CASE dialog.filter # <<>> /\ dialog' = [dialog EXCEPT !.filter = I!Front(@),
                                                                  !.selected = 0]
        <4> DEFINE f == dialog.filter
        <4>1. SubSeq(f, 1, Len(f) - 1) \in Seq(Letters)
          <5>1. f \in Seq(Letters) /\ 1 \in Int /\ Len(f) - 1 \in Int /\ Len(f) - 1 <= Len(f)
            BY <2>1
          <5> HIDE DEF f
          <5> QED BY <5>1, SubSeqIn
        <4>2. I!Front(f) \in Seq(Letters)
          BY <4>1 DEF I!Front
        <4> QED BY <3>2, <4>2
      <3> QED BY <3>1, <3>2 DEF I!Filter
    <2>3. PICK f \in Seq(Letters) : dialog' = [dialog EXCEPT !.filter = f, !.selected = 0]
      BY <2>2
    <2>4. WindowOK(dialog', pending)
      BY <2>1, <2>3, FilterOK
    <2> QED BY <2>1, <2>4 DEF Windowed
  <1> QED BY <1>1, DialogKeeps DEF I!Filter, I!menu

LEMMA SelectKeeps == ASSUME InputInv, I!Select PROVE InputInv'
  <1> DEFINE n == Cardinality(Found(dialog))
             s == dialog.selected
             within(k) == IF n = 0 \/ k < 0 THEN 0 ELSE IF k < n THEN k ELSE n - 1
             turned == IF n = 0 THEN {s} ELSE {(s - 1) % n, (s + 1) % n}
  <1>1. WindowOK(dialog, pending) /\ dialog \in Windows /\ s \in Nat /\ n \in Nat
        /\ (Found(dialog) # {} => n # 0)
    <2>1. WindowOK(dialog, pending)
      BY Left DEF Windowed
    <2>2. dialog \in Windows
      BY <2>1 DEF WindowOK
    <2>3. s \in Nat
      BY <2>2 DEF Windows
    <2>4. n \in Nat /\ (Found(dialog) # {} => n # 0)
      BY <2>2, FoundOK
    <2> QED BY <2>1, <2>2, <2>3, <2>4
  <1>2. PICK k \in turned \cup {0, within(n - 1), within(s - 12), within(s + 12)} :
          dialog' = [dialog EXCEPT !.selected = k]
    BY FilteredIsFound, SameCardinality DEF I!Select
  <1>3. k \in Nat /\ (n # 0 => k < n)
    <2> HIDE DEF n, s
    <2>1. CASE n = 0
      BY <1>1, <1>2, <2>1
    <2>2. CASE n # 0
      <3>1. (s - 1) % n \in 0..(n - 1) /\ (s + 1) % n \in 0..(n - 1)
        BY <1>1, <2>2
      <3>2. \A j \in Int : within(j) \in 0..(n - 1)
        BY <1>1, <2>2
      <3>3. k \in 0..(n - 1)
        BY <1>1, <1>2, <2>2, <3>1, <3>2
      <3> QED BY <1>1, <3>3
    <2> QED BY <2>1, <2>2
  <1>4. Windowed'
    <2>1. pending' = pending
      BY DEF I!Select
    <2> HIDE DEF within, turned
    <2> QED BY <1>1, <1>2, <1>3, <2>1, SelectOK DEF Windowed
  <1> QED BY <1>4, DialogKeeps DEF I!Select, I!menu

LEMMA CloseKeeps == ASSUME InputInv, I!Close \/ I!Answer PROVE InputInv'
  <1>1. Windowed'
    <2>1. dialog' = I!NoDialog /\ pending' \in Forms
      BY Left DEF I!Close, I!Answer, Forms
    <2> QED BY <2>1, NoDialogOK DEF Windowed
  <1> QED BY <1>1, DialogKeeps DEF I!Close, I!Answer, I!menu

LEMMA ChooseKeeps == ASSUME InputInv, I!Choose PROVE InputInv'
  <1> DEFINE i == I!Nth(Found(dialog), dialog.selected)
             item == dialog.items[i]
             cmd == CHOOSE c \in DOMAIN CommandTable : I!Slash(c) = item
  <1>1. /\ history' = history /\ at' = at /\ token' = token /\ idx' = idx /\ leader' = leader
        /\ stale' = (stale \/ buffer' # buffer) /\ I!Press
        /\ dialog.kind \in {"palette", "files", "pick"}
        /\ dialog.selected < Cardinality(Found(dialog))
    BY FilteredIsFound, SameCardinality DEF I!Choose, I!Listing, I!menu
  <1>2. dialog \in Windows /\ pending \in Forms /\ WindowOK(dialog, pending)
    BY Left DEF Windowed, WindowOK
  <1>3. CASE dialog.kind = "palette"
    <2>1. /\ \/ buffer' = I!Whole(item \o <<I!Space>>)
             \/ I!Composed
             \/ buffer' = buffer
          /\ I!Execute(cmd) /\ I!Forget
      BY <1>3, FilteredIsFound DEF I!Choose
    <2>2. item \in Text
      <3> DEFINE f == Found(dialog)
                 n == Len(dialog.items)
                 k == dialog.selected
      <3>1. f \subseteq 1..n /\ n \in Nat /\ f \subseteq DOMAIN dialog.items /\ k \in Nat
            /\ k < Cardinality(f)
        BY <1>1, <1>2, FoundOK DEF Windows
      <3>2. dialog.items \in Seq(Text)
        BY <1>2, <1>3 DEF WindowOK
      <3>3. i \in DOMAIN dialog.items
        <4> HIDE DEF f, n, k
        <4>1. I!Nth(f, k) \in f
          BY <3>1, NthIn
        <4> QED BY <3>1, <4>1 DEF f, k
      <3> HIDE DEF i
      <3> QED BY <3>2, <3>3
    <2> HIDE DEF item
    <2>3. Buffer(buffer')
      <3>1. CASE buffer' = I!Whole(item \o <<I!Space>>)
        BY <2>2, <3>1, SpacedFits, WholeFits
      <3>2. CASE I!Composed \/ buffer' = buffer
        BY <3>2, Left, ComposedFits
      <3> QED BY <2>1, <3>1, <3>2
    <2>4. Windowed' /\ mode' \in {"on", "off"}
      BY <1>2, <2>1, Left, ExecuteOK DEF Windowed
    <2>5. stale' \in BOOLEAN
      BY <1>1, Left
    <2>6. Composing' /\ Menued' /\ Keyed' /\ Ran'
      BY <1>1, <2>1, <2>3, <2>4, <2>5, Left, ComposingKept, MenuedMaybe, KeyedKept, RanNothing
    <2> QED BY <2>4, <2>6, Left
  <1>4. CASE dialog.kind = "files"
    <2>1. /\ dialog' = I!NoDialog /\ buffer' = I!InsertFileRef(dialog', buffer, item)
          /\ last' = [I!Nothing EXCEPT !.picked = item] /\ pending' = pending /\ mode' = mode
      BY <1>4, FilteredIsFound DEF I!Choose
    <2>2. buffer' = buffer
      <3>1. dialog'.kind # "files"
        BY <2>1, EmptyWindow
      <3> QED BY <2>1, <3>1 DEF I!InsertFileRef
    <2>3. Windowed'
      BY <1>2, <2>1, NoDialogOK DEF Windowed
    <2>4. Ran'
      <3>1. last'.shown = 0
        <4> HIDE DEF item
        <4> QED BY <2>1 DEF I!Nothing
      <3> QED BY <3>1 DEF Ran
    <2>5. stale' = stale
      BY <1>1, <2>2, Left
    <2>6. Composing' /\ Menued' /\ Keyed'
      BY <1>1, <2>1, <2>2, <2>5, Left, ComposingKept, MenuedKept, KeyedKept
    <2> QED BY <2>3, <2>4, <2>6, Left
  <1>5. CASE dialog.kind = "pick"
    <2>1. /\ \/ I!OpenForm("connect")
             \/ dialog' = I!NoDialog /\ pending' = pending
          /\ I!Forget /\ buffer' = buffer /\ mode' = mode
      BY <1>5 DEF I!Choose
    <2>2. Windowed'
      <3>1. CASE I!OpenForm("connect")
        BY <3>1, FormOK DEF I!OpenForm, Windowed
      <3>2. CASE dialog' = I!NoDialog /\ pending' = pending
        BY <1>2, <3>2, NoDialogOK DEF Windowed
      <3> QED BY <2>1, <3>1, <3>2
    <2>3. stale' = stale
      BY <1>1, <2>1, Left
    <2> QED BY <1>1, <2>1, <2>2, <2>3, DialogKeeps
  <1> QED BY <1>1, <1>3, <1>4, <1>5

-----------------------------------------------------------------------------
LEMMA InputStart == I!Init => InputInv
  <1> SUFFICES ASSUME I!Init PROVE InputInv
    OBVIOUS
  <1>1. Composing
    BY BareEmpty DEF I!Init, Composing, Buffer, Text
  <1>2. Menued
    <2>1. Fits(<<>>, <<>>, 0)
      BY BareEmpty, NotBareFits
    <2> QED BY <2>1 DEF I!Init, Menued
  <1>3. Windowed
    BY NoDialogOK DEF I!Init, Windowed, Forms
  <1>4. Keyed
    <2>1. leader = FALSE /\ stale = FALSE /\ mode = "on" /\ keys = 0
      BY DEF I!Init
    <2>2. MaxKeys \in Nat
      BY InputBounds
    <2>3. keys \in 0..MaxKeys
      <3>1. keys = 0
        BY <2>1
      <3> QED BY <2>2, <3>1
    <2>4. leader \in BOOLEAN /\ stale \in BOOLEAN
      BY <2>1, Zenon
    <2> QED BY <2>1, <2>3, <2>4 DEF Keyed
  <1>5. Ran
    <2>1. last = I!Nothing /\ I!Nothing.shown = 0
      BY DEF I!Init, I!Nothing
    <2> QED BY <2>1 DEF Ran
  <1> QED BY <1>1, <1>2, <1>3, <1>4, <1>5 DEF InputInv

LEMMA InputSame == InputInv /\ UNCHANGED inputVars => InputInv'
  <1> SUFFICES ASSUME InputInv, UNCHANGED inputVars PROVE InputInv'
    OBVIOUS
  <1>1. Composing' /\ Menued'
    BY Left, ComposingKept, MenuedKept DEF inputVars
  <1>2. Windowed'
    BY Left DEF inputVars
  <1>3. Keyed'
    BY Left DEF inputVars, Keyed
  <1>4. Ran'
    BY Left DEF inputVars, Ran
  <1> QED BY <1>1, <1>2, <1>3, <1>4, Left

LEMMA InputStep == InputInv /\ [I!Next]_inputVars => InputInv'
  <1> SUFFICES ASSUME InputInv, [I!Next]_inputVars PROVE InputInv'
    OBVIOUS
  <1>1. CASE \E ch \in I!Chars : I!Type(ch)
    BY <1>1, TypeKeeps
  <1>2. CASE I!Erase
    BY <1>2, EraseKeeps
  <1>3. CASE I!Move
    BY <1>3, MoveKeeps
  <1>4. CASE I!Edit
    BY <1>4, EditKeeps
  <1>5. CASE I!Up
    BY <1>5, UpKeeps
  <1>6. CASE I!Down
    BY <1>6, DownKeeps
  <1>7. CASE I!Tab
    BY <1>7, TabKeeps
  <1>8. CASE I!Enter
    BY <1>8, EnterKeeps
  <1>9. CASE I!Clear
    BY <1>9, ClearKeeps
  <1>10. CASE I!Leave \/ I!Palette \/ I!LeaderDown
    BY <1>10, AsideKeeps
  <1>11. CASE I!LeaderKey
    BY <1>11, LeaderKeyKeeps
  <1>12. CASE I!Filter
    BY <1>12, FilterKeeps
  <1>13. CASE I!Select
    BY <1>13, SelectKeeps
  <1>14. CASE I!Close \/ I!Answer
    BY <1>14, CloseKeeps
  <1>15. CASE I!Choose
    BY <1>15, ChooseKeeps
  <1>16. CASE UNCHANGED inputVars
    BY <1>16, InputSame
  <1> QED BY <1>1, <1>2, <1>3, <1>4, <1>5, <1>6, <1>7, <1>8, <1>9, <1>10, <1>11, <1>12, <1>13,
             <1>14, <1>15, <1>16 DEF I!Next

LEMMA InputTypeOK == InputInv => I!TypeOK
  BY DEF InputInv, Composing, Buffer, Text, Menued, Windowed, WindowOK, Windows, Forms, Keyed,
         I!TypeOK

LEMMA InputSound ==
  InputInv => I!MenuRunsHighlighted /\ I!PickerPointsAtItem /\ I!AnswersOwnForm
  <1> SUFFICES ASSUME InputInv
               PROVE  I!MenuRunsHighlighted /\ I!PickerPointsAtItem /\ I!AnswersOwnForm
    OBVIOUS
  <1>1. I!PickerPointsAtItem /\ I!AnswersOwnForm
    BY Left, FilteredIsFound, SameCardinality
       DEF Windowed, WindowOK, Points, I!PickerPointsAtItem, I!AnswersOwnForm, I!Listing
  <1>2. ASSUME I!Active, ~stale PROVE I!Highlighted # 0
    <2> DEFINE m == Menu(buffer.text, token)
    <2>1. m # {} /\ idx \in Nat /\ idx < Cardinality(m)
      BY <1>2, Left, MatchesAreMenu DEF I!Active, Menued, Fits
    <2>2. I!Highlighted = I!Nth(m, idx)
      BY <2>1, MatchesAreMenu, SameCardinality DEF I!Highlighted
    <2>3. I!Nth(m, idx) \in DOMAIN CommandTable
      BY <2>1, SlashNth
    <2>4. 0 \notin DOMAIN CommandTable
      BY InputBounds
    <2> HIDE DEF m
    <2> QED BY <2>2, <2>3, <2>4
  <1> QED BY <1>1, <1>2, Left DEF I!MenuRunsHighlighted, Ran

LEMMA InputSteps == [MCNext]_<<vars, others>> => [I!Next]_inputVars
  BY DEF MCNext, others, inputVars

(* Enter does what the screen points at: it runs the command highlighted   *)
(* in the menu as long as the text was only typed, erased or taken from the*)
(* menu, an item of a list that is not empty is always selected, and the   *)
(* answer of a form goes to that form (phantom_tui.py, _clamp_slash_idx,   *)
(* _run_command_text, Dialog, _dialog_input_done), for any commands, any   *)
(* files and any keys.                                                     *)
THEOREM EnterTheorem == MCSpec => []EnterMeansTheScreen
  <1>1. MCInit => InputInv
    BY InputStart DEF MCInit
  <1>2. InputInv /\ [MCNext]_<<vars, others>> => InputInv'
    BY InputSteps, InputStep
  <1>3. InputInv => EnterMeansTheScreen
    BY InputSound DEF EnterMeansTheScreen
  <1> QED BY <1>1, <1>2, <1>3, PTL DEF MCSpec

-----------------------------------------------------------------------------
(* Every part of the desk keeps the types of its variables, whatever the   *)
(* bounds: among them the cursor inside the text, the place in the history,*)
(* a selection that is a position, and an install that is a file.          *)
THEOREM DeskTypes == MCSpec => []DeskTypeOK
  <1> DEFINE Inv == part \in Parts /\ SessionInv /\ CalInv /\ CmdInv /\ InputInv
  <1>1. MCInit => Inv
    BY SessionStart, CalStart, CmdStart, InputStart DEF MCInit
  <1>2. Inv /\ [MCNext]_<<vars, others>> => Inv'
    <2> SUFFICES ASSUME Inv, [MCNext]_<<vars, others>> PROVE Inv'
      OBVIOUS
    <2>1. SessionInv'
      BY SessionStep, DeskSteps
    <2>2. CalInv'
      BY CalStep, CalibrationSteps
    <2>3. CmdInv'
      BY CmdStep, CommandSteps
    <2>4. InputInv'
      BY InputStep, InputSteps
    <2>5. part' = part
      BY DEF MCNext, others
    <2> QED BY <2>1, <2>2, <2>3, <2>4, <2>5
  <1>3. Inv => DeskTypeOK
    <2> SUFFICES ASSUME Inv PROVE DeskTypeOK
      OBVIOUS
    <2>1. TypeOK
      BY SessionTypeOK DEF SessionInv
    <2>2. K!TypeOK /\ C!TypeOK /\ I!TypeOK
      BY CalTypeOK, CmdTypeOK, InputTypeOK
    <2> QED BY <2>1, <2>2 DEF DeskTypeOK
  <1> HIDE DEF Inv
  <1> QED BY <1>1, <1>2, <1>3, PTL DEF MCSpec

-----------------------------------------------------------------------------
(* HARDWARE.  A division by a number that is a variable.                   *)
LEMMA Divided ==
  ASSUME NEW x \in Nat, NEW b \in Nat \ {0}
  PROVE  /\ x \div b \in Nat /\ x % b \in Nat /\ x % b < b /\ x = b * (x \div b) + (x % b)
         /\ b * (x \div b) <= x /\ x < b * (x \div b) + b
  <1> DEFINE q == x \div b
             r == x % b
  <1>1. q \in Nat /\ r \in Nat /\ r < b /\ x = b * q + r
    OBVIOUS
  <1>2. b * q \in Nat
    BY <1>1
  <1> HIDE DEF q, r
  <1>3. b * q <= x /\ x < b * q + b
    BY <1>1, <1>2
  <1> QED BY <1>1, <1>3 DEF q, r

LEMMA Multiples ==
  ASSUME NEW b \in Nat, NEW i \in Nat, NEW j \in Nat, i <= j
  PROVE  b * i \in Nat /\ b * j \in Nat /\ b * i <= b * j
  <1> DEFINE d == j - i
  <1>1. d \in Nat /\ j = i + d
    OBVIOUS
  <1> HIDE DEF d
  <1>2. b * i \in Nat /\ b * d \in Nat /\ b * j = b * i + b * d
    BY <1>1
  <1> QED BY <1>2

(* The quotient is the only number with its multiple in reach.             *)
LEMMA AtMost ==
  ASSUME NEW x \in Nat, NEW b \in Nat \ {0}, NEW k \in Nat, x < b * k + b
  PROVE  x \div b <= k
  <1> DEFINE q == x \div b
  <1>1. q \in Nat /\ b * q <= x
    BY Divided
  <1> HIDE DEF q
  <1>2. ASSUME k + 1 <= q PROVE FALSE
    <2>1. b * (k + 1) <= b * q /\ b * (k + 1) \in Nat /\ b * q \in Nat
      BY <1>1, <1>2, Multiples
    <2>2. b * (k + 1) = b * k + b
      OBVIOUS
    <2> QED BY <1>1, <2>1, <2>2
  <1>3. q <= k
    BY <1>1, <1>2
  <1> QED BY <1>3 DEF q

LEMMA AtLeast ==
  ASSUME NEW x \in Nat, NEW b \in Nat \ {0}, NEW k \in Nat, b * k <= x
  PROVE  k <= x \div b
  <1> DEFINE q == x \div b
  <1>1. q \in Nat /\ x < b * q + b
    BY Divided
  <1> HIDE DEF q
  <1>2. ASSUME q + 1 <= k PROVE FALSE
    <2>1. b * (q + 1) <= b * k /\ b * (q + 1) \in Nat /\ b * k \in Nat
      BY <1>1, <1>2, Multiples
    <2>2. b * (q + 1) = b * q + b
      BY <1>1
    <2> QED BY <1>1, <2>1, <2>2
  <1>3. k <= q
    BY <1>1, <1>2
  <1> QED BY <1>3 DEF q

LEMMA DividedLess ==
  ASSUME NEW b \in Nat \ {0}, NEW x \in Nat, NEW y \in Nat, x <= y
  PROVE  x \div b <= y \div b
  <1> DEFINE q == x \div b
  <1>1. q \in Nat /\ b * q \in Nat /\ b * q <= x
    BY Divided
  <1> HIDE DEF q
  <1>2. b * q <= y
    BY <1>1
  <1>3. q <= y \div b
    BY <1>1, <1>2, AtLeast
  <1> QED BY <1>3 DEF q

(* A divisor that is larger.                                               *)
LEMMA DividedMore ==
  ASSUME NEW x \in Nat, NEW b \in Nat \ {0}, NEW c \in Nat \ {0}, b <= c
  PROVE  x \div c <= x \div b
  <1> DEFINE q == x \div c
  <1>1. q \in Nat /\ c * q \in Nat /\ c * q <= x
    BY Divided
  <1> HIDE DEF q
  <1>2. q * b <= q * c /\ q * b \in Nat
    BY <1>1, Multiples
  <1>3. q * b = b * q /\ q * c = c * q
    BY <1>1
  <1>4. b * q <= x
    BY <1>1, <1>2, <1>3
  <1>5. q <= x \div b
    BY <1>1, <1>4, AtLeast
  <1> QED BY <1>5 DEF q

(* Quotients of parts, of which little is lost.                            *)
LEMMA DividedParts ==
  ASSUME NEW b \in Nat \ {0}, NEW x \in Nat, NEW y \in Nat
  PROVE  /\ x \div b + y \div b <= (x + y) \div b
         /\ (x + y) \div b <= x \div b + y \div b + 1
  <1> DEFINE p == x \div b
             q == y \div b
  <1>1. p \in Nat /\ b * p \in Nat /\ b * p <= x /\ x < b * p + b
    BY Divided
  <1>2. q \in Nat /\ b * q \in Nat /\ b * q <= y /\ y < b * q + b
    BY Divided
  <1> HIDE DEF p, q
  <1>3. b * (p + q) = b * p + b * q /\ b * (p + q + 1) = b * p + b * q + b
    BY <1>1, <1>2
  <1>4. b * (p + q) <= x + y /\ x + y < b * (p + q + 1) + b
    BY <1>1, <1>2, <1>3
  <1>5. p + q <= (x + y) \div b
    BY <1>1, <1>2, <1>4, AtLeast
  <1>6. (x + y) \div b <= p + q + 1
    BY <1>1, <1>2, <1>4, AtMost
  <1> QED BY <1>5, <1>6 DEF p, q

(* What is detected.                                                       *)
LEMMA Rounded ==
  ASSUME NEW x \in Nat
  PROVE  /\ H!Tenth(x) \in Nat /\ H!Tenth(x + H!GB) = H!Tenth(x) + H!GB
         /\ \A k \in Nat : 512 * k <= x => 512 * k <= H!Tenth(x)
         /\ H!Tenth(x) <= x + 256 /\ x <= H!Tenth(x) + 256
  <1> DEFINE q == x \div 512
             r == x % 512
  <1>1. /\ q \in Nat /\ r \in Nat /\ r < 512 /\ x = 512 * q + r
        /\ (x + 5120) \div 512 = q + 10 /\ (x + 5120) % 512 = r
    OBVIOUS
  <1>2. (q + 10) % 2 = q % 2
    BY <1>1
  <1>3. /\ H!Tenth(x) = 512 * (IF r > 256 \/ (r = 256 /\ q % 2 = 1) THEN q + 1 ELSE q)
        /\ H!Tenth(x + 5120)
             = 512 * (IF r > 256 \/ (r = 256 /\ q % 2 = 1) THEN q + 11 ELSE q + 10)
    <2>1. H!Tenth(x) = 512 * (IF r > 256 \/ (r = 256 /\ q % 2 = 1) THEN q + 1 ELSE q)
      BY DEF H!Tenth
    <2>2. H!Tenth(x + 5120)
            = LET s == (x + 5120) \div 512
                  u == (x + 5120) % 512
              IN  512 * (IF u > 256 \/ (u = 256 /\ s % 2 = 1) THEN s + 1 ELSE s)
      BY DEF H!Tenth
    <2> HIDE DEF q, r
    <2>3. H!Tenth(x + 5120)
            = 512 * (IF r > 256 \/ (r = 256 /\ (q + 10) % 2 = 1) THEN (q + 10) + 1 ELSE q + 10)
      BY <1>1, <2>2
    <2>4. (q + 10) + 1 = q + 11
      BY <1>1
    <2> QED BY <1>2, <2>1, <2>3, <2>4
  <1> HIDE DEF q, r
  <1>4. /\ H!Tenth(x) \in Nat /\ H!Tenth(x + 5120) = H!Tenth(x) + 5120 /\ 512 * q <= H!Tenth(x)
        /\ H!Tenth(x) <= x + 256 /\ x <= H!Tenth(x) + 256
    BY <1>1, <1>3
  <1>5. ASSUME NEW k \in Nat, 512 * k <= x PROVE 512 * k <= H!Tenth(x)
    BY <1>1, <1>4, <1>5
  <1> QED BY <1>4, <1>5 DEF H!GB

LEMMA Ranked ==
  ASSUME NEW v \in Nat
  PROVE  H!Rank(v) = IF v < 40960 THEN 1 ELSE IF v < 81920 THEN 2
                     ELSE IF v < 163840 THEN 3 ELSE IF v < 409600 THEN 4 ELSE 5
  <1> DEFINE limits == <<8, 16, 32, 80>>
             S == {i \in 1..4 : v >= limits[i] * H!GB}
             k == IF v < 40960 THEN 0 ELSE IF v < 81920 THEN 1
                  ELSE IF v < 163840 THEN 2 ELSE IF v < 409600 THEN 3 ELSE 4
  <1>1. \A T : H!Cardinality(T) = Cardinality(T)
    BY DEF H!Cardinality, Cardinality
  <1>2. H!Rank(v) = Cardinality(S) + 1
    BY <1>1 DEF H!Rank
  <1>3. k \in 0..4
    OBVIOUS
  <1>4. ASSUME NEW i \in 1..4 PROVE v >= limits[i] * H!GB <=> i <= k
    <2>1. /\ limits[1] * H!GB = 40960 /\ limits[2] * H!GB = 81920
          /\ limits[3] * H!GB = 163840 /\ limits[4] * H!GB = 409600
      BY DEF H!GB
    <2>2. i = 1 \/ i = 2 \/ i = 3 \/ i = 4
      OBVIOUS
    <2> HIDE DEF limits
    <2> QED BY <2>1, <2>2
  <1> HIDE DEF limits
  <1>5. S = 1..k
    BY <1>3, <1>4
  <1>6. Cardinality(1..k) = k
    <2>1. 1 \in Int /\ k \in Int
      BY <1>3
    <2>2. Cardinality(1..k) = IF 1 > k THEN 0 ELSE k - 1 + 1
      BY <2>1, FS_Interval
    <2> QED BY <1>3, <2>2
  <1> HIDE DEF S
  <1>7. H!Rank(v) = k + 1
    BY <1>2, <1>5, <1>6
  <1> QED BY <1>7

(* What is recommended is there, and no less on a larger card.             *)
LEMMA LesserIs ==
  /\ \A i, j \in Nat : /\ H!Lesser(i, j) \in Nat /\ H!Lesser(i, j) <= i
                       /\ H!Lesser(i, j) <= j
  /\ \A i, j, k, l \in Nat : i <= k /\ j <= l => H!Lesser(i, j) <= H!Lesser(k, l)
  BY DEF H!Lesser

LEMMA ShareOf ==
  ASSUME NEW x \in Nat, NEW i \in 1..5
  PROVE  /\ H!Percent(H!Shares[i][1], x) \in Nat /\ H!Percent(H!Shares[i][1], x) <= x
         /\ H!Percent(H!Shares[i][1], x) <= H!Percent(H!Shares[i][1], x + H!GB)
         /\ H!Percent(H!Shares[i][3], x) \in Nat /\ H!Percent(H!Shares[i][3], x) <= x
         /\ i < 5 => /\ H!Percent(H!Shares[i][1], x) <= H!Percent(H!Shares[i + 1][1], x)
                     /\ H!Shares[i][2] * H!GB <= H!Shares[i + 1][2] * H!GB
         /\ \A j \in {2, 4, 5} : H!Shares[i][j] * H!GB \in Nat
  <1>1. H!GB = 5120
    BY DEF H!GB
  <1>2. CASE i = 1
    <2>1. H!Shares[i] = <<75, 4, 50, 24, 100, 1>> /\ H!Shares[i + 1] = <<80, 10, 60, 40, 200, 1>>
      BY <1>2 DEF H!Shares
    <2> QED BY <1>1, <2>1 DEF H!Percent
  <1>3. CASE i = 2
    <2>1. H!Shares[i] = <<80, 10, 60, 40, 200, 1>> /\ H!Shares[i + 1] = <<85, 20, 70, 80, 400, 2>>
      BY <1>3 DEF H!Shares
    <2> QED BY <1>1, <2>1 DEF H!Percent
  <1>4. CASE i = 3
    <2>1. /\ H!Shares[i] = <<85, 20, 70, 80, 400, 2>>
          /\ H!Shares[i + 1] = <<90, 60, 70, 200, 1000, 3>>
      BY <1>4 DEF H!Shares
    <2> QED BY <1>1, <2>1 DEF H!Percent
  <1>5. CASE i = 4
    <2>1. /\ H!Shares[i] = <<90, 60, 70, 200, 1000, 3>>
          /\ H!Shares[i + 1] = <<90, 100000, 80, 400, 2000, 5>>
      BY <1>5 DEF H!Shares
    <2> QED BY <1>1, <2>1 DEF H!Percent
  <1>6. CASE i = 5
    <2>1. H!Shares[i] = <<90, 100000, 80, 400, 2000, 5>>
      BY <1>6 DEF H!Shares
    <2> QED BY <1>1, <1>6, <2>1 DEF H!Percent
  <1> QED BY <1>2, <1>3, <1>4, <1>5, <1>6

LEMMA Budgets ==
  ASSUME NEW v \in Nat, NEW ram \in Nat, NEW free \in Nat
  PROVE  LET c == H!Recommend(H!Rank(v), v, ram, free)
         IN  /\ c.hot <= v /\ c.warm <= ram
             /\ c.swap \in Nat /\ c.swap <= H!Percent(80, free)
             /\ c.hot <= H!Recommend(H!Rank(v + H!GB), v + H!GB, ram, free).hot
  <1> DEFINE Hot(i, x) == H!Lesser(H!Percent(H!Shares[i][1], x), H!Shares[i][2] * H!GB)
             w == v + H!GB
             r == H!Rank(v)
             t == H!Rank(w)
  <1>1. w \in Nat /\ H!GB = 5120 /\ w = v + 5120
    BY DEF H!GB
  <1>2. r \in 1..5 /\ t \in 1..5 /\ (t = r \/ t = r + 1)
    <2>1. /\ r = IF v < 40960 THEN 1 ELSE IF v < 81920 THEN 2
                 ELSE IF v < 163840 THEN 3 ELSE IF v < 409600 THEN 4 ELSE 5
          /\ t = IF w < 40960 THEN 1 ELSE IF w < 81920 THEN 2
                 ELSE IF w < 163840 THEN 3 ELSE IF w < 409600 THEN 4 ELSE 5
      BY <1>1, Ranked
    <2> HIDE DEF r, t, w
    <2> QED BY <1>1, <2>1
  <1>3. \A i, x : /\ H!Recommend(i, x, ram, free).hot = Hot(i, x)
                  /\ H!Recommend(i, x, ram, free).warm
                       = H!Lesser(H!Percent(H!Shares[i][3], ram), H!Shares[i][4] * H!GB)
                  /\ H!Recommend(i, x, ram, free).swap
                       = H!Lesser(H!Percent(80, free), H!Shares[i][5] * H!GB)
    BY DEF H!Recommend
  <1> HIDE DEF w, r, t
  <1>4. \A i \in 1..5 : /\ \A x \in Nat : H!Percent(H!Shares[i][1], x) \in Nat
                        /\ H!Shares[i][2] * H!GB \in Nat
    BY ShareOf
  <1>5. w \in Nat
    BY <1>1
  <1>6. \A i \in 1..5 : i < 5 =>
          /\ \A x \in Nat : H!Percent(H!Shares[i][1], x) <= H!Percent(H!Shares[i + 1][1], x)
          /\ H!Shares[i][2] * H!GB <= H!Shares[i + 1][2] * H!GB
    BY ShareOf
  <1>7. ASSUME NEW x \in Nat, NEW i \in 1..5
        PROVE  Hot(i, x) \in Nat /\ Hot(i, x) <= x
    <2> DEFINE p == H!Percent(H!Shares[i][1], x)
               c == H!Shares[i][2] * H!GB
    <2>1. p \in Nat /\ p <= x /\ c \in Nat
      BY ShareOf
    <2> HIDE DEF p, c
    <2>2. H!Lesser(p, c) \in Nat /\ H!Lesser(p, c) <= x
      BY <2>1, LesserIs
    <2> QED BY <2>2 DEF p, c
  <1>8. ASSUME NEW i \in 1..5 PROVE Hot(i, v) <= Hot(i, w)
    <2> DEFINE p == H!Percent(H!Shares[i][1], v)
               q == H!Percent(H!Shares[i][1], w)
               c == H!Shares[i][2] * H!GB
    <2>1. 2 \in {2, 4, 5}
      OBVIOUS
    <2>2. p \in Nat /\ c \in Nat /\ p <= H!Percent(H!Shares[i][1], v + H!GB)
      BY <2>1, ShareOf
    <2>3. q \in Nat
      BY <1>4, <1>5, Zenon
    <2>4. q = H!Percent(H!Shares[i][1], v + H!GB)
      BY Zenon DEF w
    <2>5. p \in Nat /\ q \in Nat /\ p <= q /\ c \in Nat
      BY <2>2, <2>3, <2>4
    <2> HIDE DEF p, q, c
    <2>6. c <= c
      BY <2>5
    <2>7. H!Lesser(p, c) <= H!Lesser(q, c)
      BY <2>5, <2>6, LesserIs
    <2> QED BY <2>7 DEF p, q, c
  <1>9. ASSUME NEW i \in 1..4 PROVE Hot(i, w) <= Hot(i + 1, w)
    <2> DEFINE p == H!Percent(H!Shares[i][1], w)
               q == H!Percent(H!Shares[i + 1][1], w)
               c == H!Shares[i][2] * H!GB
               d == H!Shares[i + 1][2] * H!GB
    <2>1. i \in 1..5 /\ i + 1 \in 1..5 /\ i < 5
      OBVIOUS
    <2>2. p \in Nat /\ c \in Nat /\ q \in Nat /\ d \in Nat
      BY <1>4, <1>5, <2>1, Zenon
    <2>3. p <= q /\ c <= d
      BY <1>5, <1>6, <2>1, Zenon
    <2>4. p \in Nat /\ q \in Nat /\ p <= q /\ c \in Nat /\ d \in Nat /\ c <= d
      BY <2>2, <2>3
    <2> HIDE DEF p, q, c, d
    <2>5. H!Lesser(p, c) <= H!Lesser(q, d)
      BY <2>4, LesserIs
    <2> QED BY <2>5 DEF p, q, c, d
  <1>10. H!Recommend(r, v, ram, free).warm <= ram
    <2> DEFINE p == H!Percent(H!Shares[r][3], ram)
               c == H!Shares[r][4] * H!GB
    <2>1. p \in Nat /\ p <= ram /\ c \in Nat
      BY <1>2, ShareOf
    <2>2. H!Recommend(r, v, ram, free).warm = H!Lesser(p, c)
      BY <1>3
    <2> HIDE DEF p, c
    <2>3. H!Lesser(p, c) \in Nat /\ H!Lesser(p, c) <= p
      BY <2>1, LesserIs
    <2> QED BY <2>1, <2>2, <2>3
  <1>11. /\ H!Recommend(r, v, ram, free).swap \in Nat
         /\ H!Recommend(r, v, ram, free).swap <= H!Percent(80, free)
    <2> DEFINE p == H!Percent(80, free)
               c == H!Shares[r][5] * H!GB
    <2>1. p \in Nat
      BY DEF H!Percent
    <2>2. c \in Nat
      BY <1>2, ShareOf
    <2>3. H!Recommend(r, v, ram, free).swap = H!Lesser(p, c)
      BY <1>3
    <2> HIDE DEF p, c
    <2>4. H!Lesser(p, c) \in Nat /\ H!Lesser(p, c) <= p
      BY <2>1, <2>2, LesserIs
    <2> QED BY <2>1, <2>3, <2>4 DEF p
  <1>12. /\ H!Recommend(r, v, ram, free).hot = Hot(r, v)
        /\ H!Recommend(t, w, ram, free).hot = Hot(t, w)
    BY <1>3
  <1> HIDE DEF Hot
  <1>13. Hot(r, v) <= v /\ Hot(r, v) <= Hot(t, w)
    <2>1. Hot(r, v) <= v /\ Hot(r, v) \in Nat /\ Hot(r, w) \in Nat /\ Hot(r, v) <= Hot(r, w)
      BY <1>1, <1>2, <1>7, <1>8
    <2>2. CASE t = r
      BY <2>1, <2>2
    <2>3. CASE t = r + 1
      <3>1. r \in 1..4
        BY <1>2, <2>3
      <3>2. Hot(t, w) \in Nat /\ Hot(r, w) <= Hot(t, w)
        BY <1>1, <1>2, <1>7, <1>9, <2>3, <3>1
      <3> QED BY <2>1, <3>2
    <2> QED BY <1>2, <2>2, <2>3
  <1> QED BY <1>10, <1>11, <1>12, <1>13 DEF r, t, w

(* What is promised.                                                       *)
LEMMA Promised ==
  ASSUME NEW v \in Nat, NEW ram \in Nat, NEW free \in Nat
  PROVE  LET c == H!Ceilings(v, ram, free)
         IN  /\ c.native <= c.fast
             /\ c.phantom < c.native <=> c.native > 72 * H!GB
             /\ c.sweetMin > c.sweetMax <=> c.native > 33 * H!GB \/ c.fast < 7 * H!GB
             /\ c.fast <= 2 * (H!Greater(H!GB, v) + H!Greater(H!GB, ram - 6 * H!GB))
             /\ c.native <= H!Ceilings(v + H!GB, ram, free).native
  <1> DEFINE Usable(x) == H!Greater(2560, x - 6144)
             u == Usable(v)
             h == H!Greater(5120, ram - 30720)
             d == H!Lesser(free \div 2, 307200)
             c == H!Ceilings(v, ram, free)
  <1>1. ASSUME NEW x
        PROVE  /\ H!Ceilings(x, ram, free).native = 2 * Usable(x)
               /\ H!Ceilings(x, ram, free).fast = 2 * (Usable(x) + h)
               /\ H!Ceilings(x, ram, free).phantom = H!Lesser(368640, 2 * ((Usable(x) + h) + d))
               /\ H!Ceilings(x, ram, free).sweetMin = H!Greater(2 * Usable(x), 35840)
               /\ H!Ceilings(x, ram, free).sweetMax = H!Lesser(2 * (Usable(x) + h), 168960)
    <2>1. /\ H!GB \div 2 = 2560 /\ (12 * H!GB) \div 10 = 6144 /\ 6 * H!GB = 30720
          /\ 72 * H!GB = 368640 /\ 60 * H!GB = 307200 /\ 7 * H!GB = 35840
          /\ 33 * H!GB = 168960 /\ H!GB = 5120
      BY DEF H!GB
    <2>2. /\ H!Greater(H!GB \div 2, x - (12 * H!GB) \div 10) = Usable(x)
          /\ H!Greater(H!GB, ram - 6 * H!GB) = h
          /\ H!Lesser(free \div 2, 60 * H!GB) = d
      BY <2>1
    <2> HIDE DEF Usable, h, d
    <2>3. H!Ceilings(x, ram, free).native = 2 * Usable(x)
      BY <2>2 DEF H!Ceilings
    <2>4. H!Ceilings(x, ram, free).fast = 2 * (Usable(x) + h)
      BY <2>2 DEF H!Ceilings
    <2>5. H!Ceilings(x, ram, free).phantom = H!Lesser(368640, 2 * ((Usable(x) + h) + d))
      BY <2>1, <2>2 DEF H!Ceilings
    <2>6. H!Ceilings(x, ram, free).sweetMin = H!Greater(2 * Usable(x), 35840)
      BY <2>1, <2>2 DEF H!Ceilings
    <2>7. H!Ceilings(x, ram, free).sweetMax = H!Lesser(2 * (Usable(x) + h), 168960)
      BY <2>1, <2>2 DEF H!Ceilings
    <2> QED BY <2>3, <2>4, <2>5, <2>6, <2>7
  <1>2. /\ u \in Nat /\ u >= 2560 /\ h \in Nat /\ h >= 5120 /\ d \in Nat
        /\ u <= H!Greater(5120, v) /\ u <= Usable(v + 5120) /\ Usable(v + 5120) \in Nat
    BY DEF H!Greater, H!Lesser
  <1>3. /\ c.native = 2 * u /\ c.fast = 2 * (u + h)
        /\ c.phantom = H!Lesser(368640, 2 * ((u + h) + d))
        /\ c.sweetMin = H!Greater(2 * u, 35840) /\ c.sweetMax = H!Lesser(2 * (u + h), 168960)
        /\ H!Ceilings(v + 5120, ram, free).native = 2 * Usable(v + 5120)
    BY <1>1
  <1> HIDE DEF u, c, d, Usable
  <1>4. c.native <= c.fast /\ c.native <= H!Ceilings(v + 5120, ram, free).native
    BY <1>2, <1>3
  <1>5. c.phantom < c.native <=> c.native > 368640
    BY <1>2, <1>3 DEF H!Lesser
  <1>6. c.sweetMin > c.sweetMax <=> c.native > 168960 \/ c.fast < 35840
    BY <1>2, <1>3 DEF H!Lesser, H!Greater
  <1>7. c.fast <= 2 * (H!Greater(5120, v) + h)
    BY <1>2, <1>3 DEF H!Greater
  <1>8. /\ H!GB = 5120 /\ 6 * H!GB = 30720 /\ 72 * H!GB = 368640 /\ 7 * H!GB = 35840
        /\ 33 * H!GB = 168960
    BY DEF H!GB
  <1> QED BY <1>4, <1>5, <1>6, <1>7, <1>8 DEF c, h

(* The devices for swap space: with no more than three anchors the largest *)
(* that can be read is taken.                                              *)
Volumes(anchors) == [path : Nat, free : Nat, readable : BOOLEAN, anchor : anchors]
Scanned(disks) == /\ \E anchors : disks \in Seq(Volumes(anchors))
                  /\ Cardinality(H!Kept(disks)) <= 3

LEMMA Volume ==
  ASSUME NEW disks, Scanned(disks)
  PROVE  /\ Len(disks) \in Nat /\ DOMAIN disks = 1..Len(disks)
         /\ \A i \in DOMAIN disks : /\ i \in Nat /\ disks[i].free \in Nat
                                    /\ H!Free(disks[i]) \in Nat
  <1>1. PICK anchors : disks \in Seq(Volumes(anchors))
    BY DEF Scanned
  <1>2. \A x \in Volumes(anchors) : x.free \in Nat
    BY Zenon DEF Volumes
  <1>3. \A i \in DOMAIN disks : i \in Nat /\ disks[i] \in Volumes(anchors)
    BY <1>1
  <1>4. \A i \in DOMAIN disks : disks[i].free \in Nat /\ H!Free(disks[i]) \in Nat
    BY <1>2, <1>3, Rounded, Zenon DEF H!Free
  <1> QED BY <1>1, <1>3, <1>4

LEMMA AllKept ==
  ASSUME NEW disks, Scanned(disks)
  PROVE  H!Devices(disks) = H!Kept(disks)
  <1> DEFINE K0 == H!Kept(disks)
             Before(i) == {j \in K0 : j < i}
  <1>1. \A T : H!Cardinality(T) = Cardinality(T)
    BY DEF H!Cardinality, Cardinality
  <1>2. K0 \subseteq 1..Len(disks) /\ Len(disks) \in Nat
    BY Volume DEF H!Kept
  <1>3. IsFiniteSet(K0) /\ Cardinality(K0) \in Nat /\ Cardinality(K0) <= 3
    <2>1. IsFiniteSet(1..Len(disks))
      BY <1>2, FS_Interval
    <2>2. IsFiniteSet(K0)
      BY <1>2, <2>1, FS_Subset
    <2> QED BY <2>2, FS_CardinalityType DEF Scanned
  <1> HIDE DEF K0
  <1>4. ASSUME NEW i \in K0 PROVE Cardinality(Before(i)) < 3
    <2>1. Before(i) \subseteq K0 /\ i \notin Before(i) /\ i \in Nat
      BY <1>2
    <2>2. /\ IsFiniteSet(Before(i)) /\ Cardinality(Before(i)) <= Cardinality(K0)
          /\ Cardinality(Before(i)) = Cardinality(K0) => Before(i) = K0
      BY <1>3, <2>1, FS_Subset
    <2>3. Cardinality(Before(i)) \in Nat
      BY <2>2, FS_CardinalityType
    <2>4. Before(i) # K0
      BY <2>1
    <2> HIDE DEF Before
    <2> QED BY <1>3, <2>2, <2>3, <2>4
  <1>5. H!Devices(disks) = {i \in K0 : Cardinality(Before(i)) < 3}
    BY <1>1 DEF H!Devices, K0
  <1> HIDE DEF Before
  <1> QED BY <1>4, <1>5 DEF K0

LEMMA SomeBest ==
  ASSUME NEW disks, Scanned(disks), H!Kept(disks) # {}
  PROVE  \E i \in H!Devices(disks) : H!Best(disks, i)
  <1> DEFINE K0 == H!Kept(disks)
             S == {H!Free(disks[i]) : i \in K0}
             U == {n \in Nat : \A f \in S : f <= n}
  <1>1. /\ K0 \subseteq 1..Len(disks) /\ Len(disks) \in Nat
        /\ \A i \in K0 : i \in Nat /\ H!Free(disks[i]) \in Nat
    BY Volume DEF H!Kept
  <1>2. H!Devices(disks) = K0
    BY AllKept
  <1> HIDE DEF K0
  <1>3. \E i \in K0 : \A j \in K0 : H!Free(disks[j]) <= H!Free(disks[i])
    <2> DEFINE Larger(i) == {j \in K0 : H!Free(disks[i]) < H!Free(disks[j])}
               N == {Cardinality(Larger(i)) : i \in K0}
    <2>1. IsFiniteSet(K0)
      <3>1. IsFiniteSet(1..Len(disks))
        BY <1>1, FS_Interval
      <3> QED BY <1>1, <3>1, FS_Subset
    <2>2. \A i \in K0 : IsFiniteSet(Larger(i)) /\ Cardinality(Larger(i)) \in Nat
      <3> SUFFICES ASSUME NEW i \in K0
                   PROVE  IsFiniteSet(Larger(i)) /\ Cardinality(Larger(i)) \in Nat
        OBVIOUS
      <3>1. Larger(i) \subseteq K0
        OBVIOUS
      <3> HIDE DEF Larger
      <3>2. IsFiniteSet(Larger(i))
        BY <2>1, <3>1, FS_Subset
      <3> QED BY <3>2, FS_CardinalityType
    <2>3. ASSUME NEW i \in K0, NEW j \in K0, H!Free(disks[i]) < H!Free(disks[j])
          PROVE  Cardinality(Larger(j)) < Cardinality(Larger(i))
      <3>1. Larger(j) \subseteq Larger(i) /\ j \in Larger(i) /\ j \notin Larger(j)
        <4>1. \A x, y, z \in Nat : x < y => ~ (y < y) /\ (y < z => x < z)
          OBVIOUS
        <4>2. \A k \in K0 : H!Free(disks[k]) \in Nat
          BY <1>1
        <4> QED BY <2>3, <4>1, <4>2, Zenon
      <3> HIDE DEF Larger
      <3>2. /\ Cardinality(Larger(j)) <= Cardinality(Larger(i))
            /\ Cardinality(Larger(j)) = Cardinality(Larger(i)) => Larger(j) = Larger(i)
        BY <2>2, <3>1, FS_Subset
      <3> QED BY <2>2, <3>1, <3>2
    <2> HIDE DEF Larger
    <2>4. N \subseteq Nat /\ N # {}
      BY <1>2, <2>2 DEF K0
    <2>5. PICK n \in N : \A m \in N : n <= m
      BY <2>4, Least
    <2>6. PICK i \in K0 : n = Cardinality(Larger(i))
      OBVIOUS
    <2>7. ASSUME NEW j \in K0, ~ (H!Free(disks[j]) <= H!Free(disks[i])) PROVE FALSE
      <3>1. H!Free(disks[i]) < H!Free(disks[j])
        BY <1>1, <2>7
      <3>2. Cardinality(Larger(j)) < n
        BY <2>3, <2>6, <3>1
      <3>3. Cardinality(Larger(j)) \in N /\ Cardinality(Larger(j)) \in Nat /\ n \in Nat
        BY <2>2, <2>6
      <3>4. n <= Cardinality(Larger(j))
        BY <2>5, <3>3
      <3> QED BY <3>2, <3>3, <3>4
    <2> QED BY <2>7
  <1>4. PICK b \in K0 : \A j \in K0 : H!Free(disks[j]) <= H!Free(disks[b])
    BY <1>3
  <1> DEFINE E == {j \in K0 : H!Free(disks[j]) = H!Free(disks[b])}
  <1>5. E \subseteq Nat /\ E # {}
    BY <1>1
  <1>6. PICK i \in E : \A j \in E : i <= j
    BY <1>5, Least
  <1>7. i \in K0 /\ H!Free(disks[i]) = H!Free(disks[b])
    OBVIOUS
  <1>8. ASSUME NEW j \in K0
        PROVE  H!Free(disks[j]) < H!Free(disks[i]) \/ (H!Free(disks[j]) = H!Free(disks[i]) /\ i <= j)
    <2>1. H!Free(disks[j]) <= H!Free(disks[i]) /\ H!Free(disks[j]) \in Nat /\ H!Free(disks[i]) \in Nat
      BY <1>1, <1>4, <1>7
    <2>2. CASE H!Free(disks[j]) = H!Free(disks[i])
      <3>1. j \in E
        BY <1>7, <2>2
      <3> QED BY <1>6, <2>2, <3>1
    <2>3. CASE H!Free(disks[j]) # H!Free(disks[i])
      <3>1. \A x, y \in Nat : x <= y /\ x # y => x < y
        OBVIOUS
      <3> QED BY <2>1, <2>3, <3>1, Zenon
    <2> QED BY <2>2, <2>3
  <1> HIDE DEF E
  <1> QED BY <1>2, <1>7, <1>8 DEF H!Best

LEMMA LargestTaken ==
  ASSUME NEW disks, Scanned(disks)
  PROVE  /\ H!BestDevice(disks).free \in Nat
         /\ (\E i \in DOMAIN disks : disks[i].readable) =>
              \E i \in DOMAIN disks :
                /\ disks[i].readable /\ disks[i].path = H!BestDevice(disks).path
                /\ H!BestDevice(disks).free = H!Tenth(disks[i].free)
                /\ \A j \in DOMAIN disks :
                     disks[j].readable /\ disks[j].free > disks[i].free + 512
                       => \E k \in 1..(j - 1) :
                            disks[k].readable /\ disks[k].anchor = disks[j].anchor
  <1> DEFINE b == CHOOSE i \in H!Devices(disks) : H!Best(disks, i)
             d == H!BestDevice(disks)
  <1>1. \A i \in DOMAIN disks : i \in Nat /\ disks[i].free \in Nat
    BY Volume
  <1>2. ASSUME NEW j \in DOMAIN disks, disks[j].readable, j \notin H!Kept(disks)
        PROVE  \E k \in 1..(j - 1) : disks[k].readable /\ disks[k].anchor = disks[j].anchor
    BY <1>2 DEF H!Kept
  <1>3. CASE H!Kept(disks) = {}
    <2>1. d.free = 0
      BY <1>3, AllKept DEF H!BestDevice
    <2> HIDE DEF d
    <2>2. d.free \in Nat
      BY <2>1
    <2>3. ASSUME \E i \in DOMAIN disks : disks[i].readable PROVE FALSE
      <3> DEFINE R == {i \in DOMAIN disks : disks[i].readable}
      <3>1. R \subseteq Nat /\ R # {}
        BY <1>1, <2>3
      <3>2. PICK i \in R : \A j \in R : i <= j
        BY <3>1, Least
      <3>3. PICK k \in 1..(i - 1) : disks[k].readable
        BY <1>2, <1>3, <3>2
      <3>4. DOMAIN disks = 1..Len(disks) /\ Len(disks) \in Nat
        BY Volume
      <3>5. k \in R /\ k < i /\ k \in Nat /\ i \in Nat
        BY <1>1, <3>3, <3>4
      <3>6. i <= k
        BY <3>2, <3>5
      <3> QED BY <3>5, <3>6
    <2> QED BY <2>2, <2>3 DEF d
  <1>4. CASE H!Kept(disks) # {}
    <2>1. b \in H!Kept(disks) /\ H!Best(disks, b) /\ H!Devices(disks) = H!Kept(disks)
      BY <1>4, SomeBest, AllKept, Zenon
    <2>2. d.free = H!Tenth(disks[b].free) /\ d.path = disks[b].path
      BY <1>4, <2>1 DEF H!BestDevice, H!Free
    <2> HIDE DEF b, d
    <2>3. b \in DOMAIN disks /\ disks[b].readable
      BY <2>1 DEF H!Kept
    <2>4. d.free \in Nat
      BY <1>1, <2>2, <2>3, Rounded
    <2>5. ASSUME NEW j \in DOMAIN disks, disks[j].readable, disks[j].free > disks[b].free + 512
          PROVE  \E k \in 1..(j - 1) : disks[k].readable /\ disks[k].anchor = disks[j].anchor
      <3> DEFINE x == disks[b].free
                 y == disks[j].free
                 t == H!Tenth(x)
                 u == H!Tenth(y)
      <3>1. x \in Nat /\ y \in Nat /\ y > x + 512
        BY <1>1, <2>3, <2>5
      <3> HIDE DEF x, y
      <3>2. t \in Nat /\ t <= x + 256 /\ u \in Nat /\ y <= u + 256
        BY <3>1, Rounded
      <3> HIDE DEF t, u
      <3>3. u > t
        BY <3>1, <3>2
      <3>4. ~ (u < t \/ (u = t /\ b <= j))
        BY <3>2, <3>3
      <3>5. j \notin H!Kept(disks)
        BY <2>1, <3>4, Zenon DEF H!Best, H!Free, x, y, t, u
      <3> QED BY <1>2, <2>5, <3>5
    <2> QED BY <2>2, <2>3, <2>4, <2>5 DEF d
  <1> QED BY <1>3, <1>4

(* The budget for swap is there unless hardly any space is.                *)
LEMMA SwapFits ==
  ASSUME NEW x \in Nat, NEW swap \in Nat, swap <= H!Percent(80, H!Tenth(x))
  PROVE  swap <= x \/ x < H!GB \div 5
  <1> DEFINE y == H!Tenth(x)
             q == y \div 100
             r == y % 100
             z == (80 * r) \div 100
  <1>1. y \in Nat /\ y <= x + 256
    BY Rounded
  <1>2. swap <= 80 * q + z
    BY DEF H!Percent
  <1> HIDE DEF y
  <1>3. q \in Nat /\ r \in 0..99 /\ y = 100 * q + r /\ z \in Nat /\ 100 * z <= 80 * r
    BY <1>1
  <1> HIDE DEF q, r, z
  <1>4. 5 * swap <= 4 * (x + 256)
    <2>1. 5 * z <= 4 * r /\ 5 * swap <= 400 * q + 5 * z
      BY <1>2, <1>3
    <2> QED BY <1>1, <1>3, <2>1
  <1>5. H!GB \div 5 = 1024
    BY DEF H!GB
  <1> QED BY <1>4, <1>5

(* Machines of any size, with at most three anchors.                       *)
Machine(m) == /\ \E anchors :
                   m \in [nvml : {"absent", "raises", "works"}, smi : BOOLEAN, torch : BOOLEAN,
                          vram : Nat, ram : Nat, disks : Seq(Volumes(anchors))]
              /\ Cardinality(H!Kept(m.disks)) <= 3
Reports(d, v, m) ==
  LET f == H!BestDevice(m.disks).free
  IN  /\ d.raised = FALSE /\ d.rank = H!Rank(v) /\ d.vram = v
      /\ d.path = H!BestDevice(m.disks).path
      /\ d.ceilings = H!Ceilings(v, m.ram, f) /\ d.config = H!Recommend(H!Rank(v), v, m.ram, f)

LEMMA Reported ==
  ASSUME NEW m, NEW v \in Nat, H!Gpu(m).vram = v PROVE Reports(H!DetectHardware(m), v, m)
  <1>1. ~ (v < 0)
    OBVIOUS
  <1> DEFINE f == H!BestDevice(m.disks).free
             d == H!DetectHardware(m)
  <1>2. d = [raised |-> FALSE, rank |-> H!Rank(v), vram |-> v,
             path |-> H!BestDevice(m.disks).path, free |-> f,
             ceilings |-> H!Ceilings(v, m.ram, f),
             config |-> H!Recommend(H!Rank(v), v, m.ram, f)]
    BY <1>1, Zenon DEF H!DetectHardware
  <1> HIDE DEF d
  <1>3. /\ d.raised = FALSE /\ d.rank = H!Rank(v) /\ d.vram = v
        /\ d.path = H!BestDevice(m.disks).path
        /\ d.ceilings = H!Ceilings(v, m.ram, f) /\ d.config = H!Recommend(H!Rank(v), v, m.ram, f)
    BY <1>2, Zenon
  <1> QED BY <1>3, Zenon DEF Reports, d

(* Which size a probe reports.                                             *)
LEMMA ProbedSizes ==
  ASSUME NEW m, m.vram \in Nat, m.nvml \in {"absent", "raises", "works"}
  PROVE  /\ m.nvml = "raises" => H!Gpu(m).vram = -1
         /\ m.nvml # "raises" => H!Gpu(m).vram \in Nat
         /\ m.vram > 0 /\ m.nvml = "works" => H!Gpu(m).vram = m.vram
         /\ m.vram > 0 /\ m.nvml = "absent" /\ (H!Nvml(m).found \/ m.torch)
              => H!Gpu(m).vram = H!Tenth(m.vram)
         /\ m.vram > 0 /\ m.nvml = "absent" /\ m.smi => H!Gpu(m).vram = H!Tenth(m.vram)
  <1> DEFINE t == H!Tenth(m.vram)
  <1>1. t \in Nat
    BY Rounded
  <1>2. 6 * H!GB \in Nat
    BY DEF H!GB
  <1>3. CASE m.nvml = "raises"
    <2>1. H!Nvml(m) = [found |-> TRUE, vram |-> -1]
      BY <1>3 DEF H!Nvml
    <2>2. H!Gpu(m) = H!Nvml(m)
      BY <2>1 DEF H!Gpu
    <2> QED BY <1>3, <2>1, <2>2
  <1>4. CASE m.nvml = "works"
    <2>1. CASE m.vram > 0
      <3>1. H!Nvml(m) = [found |-> TRUE, vram |-> m.vram]
        BY <1>4, <2>1 DEF H!Nvml
      <3>2. H!Gpu(m) = H!Nvml(m)
        BY <3>1 DEF H!Gpu
      <3> QED BY <1>4, <3>1, <3>2
    <2>2. CASE ~ (m.vram > 0)
      <3>1. H!Nvml(m) = [found |-> FALSE]
        BY <1>4, <2>2 DEF H!Nvml, H!None
      <3>2. H!Gpu(m) = [found |-> TRUE, vram |-> 6 * H!GB]
        BY <2>2, <3>1 DEF H!Gpu
      <3> QED BY <1>2, <1>4, <2>2, <3>2
    <2> QED BY <2>1, <2>2
  <1>5. CASE m.nvml = "absent"
    <2>1. CASE m.smi /\ m.vram > 0
      <3>1. H!Nvml(m) = [found |-> TRUE, vram |-> t]
        BY <1>5, <2>1 DEF H!Nvml, H!Smi
      <3>2. H!Gpu(m) = H!Nvml(m)
        BY <3>1 DEF H!Gpu
      <3> HIDE DEF t
      <3>3. H!Gpu(m).vram = t
        BY <3>1, <3>2
      <3> QED BY <1>1, <1>5, <3>3 DEF t
    <2>2. CASE ~ (m.smi /\ m.vram > 0)
      <3>1. H!Nvml(m) = [found |-> FALSE]
        BY <1>5, <2>2 DEF H!Nvml, H!Smi, H!None
      <3>2. CASE m.torch /\ m.vram > 0
        <4>1. H!Gpu(m) = [found |-> TRUE, vram |-> t]
          BY <3>1, <3>2 DEF H!Gpu
        <4> HIDE DEF t
        <4>2. H!Gpu(m).vram = t
          BY <4>1
        <4> QED BY <1>1, <1>5, <4>2 DEF t
      <3>3. CASE ~ (m.torch /\ m.vram > 0)
        <4>1. H!Gpu(m) = [found |-> TRUE, vram |-> 6 * H!GB]
          BY <3>1, <3>3 DEF H!Gpu
        <4> QED BY <1>2, <1>5, <2>2, <3>1, <3>3, <4>1
      <3> QED BY <3>2, <3>3
    <2> QED BY <2>1, <2>2
  <1> QED BY <1>3, <1>4, <1>5

LEMMA TiersDiffer ==
  ASSUME NEW v \in Nat, H!Rank(v) # H!Rank(H!Tenth(v))
  PROVE  \E limit \in {8, 16, 32, 80} : v < limit * H!GB /\ H!Tenth(v) >= limit * H!GB
  <1> DEFINE t == H!Tenth(v)
  <1>1. t \in Nat /\ \A k \in Nat : 512 * k <= v => 512 * k <= t
    BY Rounded
  <1> HIDE DEF t
  <1>2. ASSUME NEW k \in Nat, 5120 * k <= v PROVE 5120 * k <= t
    <2> DEFINE j == 10 * k
    <2>1. j \in Nat /\ 512 * j = 5120 * k
      OBVIOUS
    <2> HIDE DEF j
    <2>2. 512 * j <= t
      BY <1>1, <1>2, <2>1
    <2> QED BY <2>1, <2>2
  <1>3. 40960 <= v => 40960 <= t
    <2>1. 8 \in Nat /\ 5120 * 8 = 40960
      OBVIOUS
    <2> QED BY <1>2, <2>1
  <1>4. 81920 <= v => 81920 <= t
    <2>1. 16 \in Nat /\ 5120 * 16 = 81920
      OBVIOUS
    <2> QED BY <1>2, <2>1
  <1>5. 163840 <= v => 163840 <= t
    <2>1. 32 \in Nat /\ 5120 * 32 = 163840
      OBVIOUS
    <2> QED BY <1>2, <2>1
  <1>6. 409600 <= v => 409600 <= t
    <2>1. 80 \in Nat /\ 5120 * 80 = 409600
      OBVIOUS
    <2> QED BY <1>2, <2>1
  <1>7. /\ H!Rank(v) = IF v < 40960 THEN 1 ELSE IF v < 81920 THEN 2
                       ELSE IF v < 163840 THEN 3 ELSE IF v < 409600 THEN 4 ELSE 5
        /\ H!Rank(t) = IF t < 40960 THEN 1 ELSE IF t < 81920 THEN 2
                       ELSE IF t < 163840 THEN 3 ELSE IF t < 409600 THEN 4 ELSE 5
    BY <1>1, Ranked
  <1>8. \/ v < 40960 /\ t >= 40960
        \/ v < 81920 /\ t >= 81920
        \/ v < 163840 /\ t >= 163840
        \/ v < 409600 /\ t >= 409600
    <2>1. H!Rank(v) # H!Rank(t)
      BY DEF t
    <2> QED BY <1>1, <1>3, <1>4, <1>5, <1>6, <1>7, <2>1
  <1>9. /\ 8 * H!GB = 40960 /\ 16 * H!GB = 81920 /\ 32 * H!GB = 163840 /\ 80 * H!GB = 409600
    BY DEF H!GB
  <1> QED BY <1>8, <1>9 DEF t

LEMMA TiersGrow ==
  ASSUME NEW v \in Nat PROVE H!Rank(v) <= H!Rank(v + H!GB)
  <1>1. H!GB = 5120
    BY DEF H!GB
  <1> DEFINE w == v + 5120
  <1>2. w \in Nat /\ v <= w
    OBVIOUS
  <1>3. /\ H!Rank(v) = IF v < 40960 THEN 1 ELSE IF v < 81920 THEN 2
                       ELSE IF v < 163840 THEN 3 ELSE IF v < 409600 THEN 4 ELSE 5
        /\ H!Rank(w) = IF w < 40960 THEN 1 ELSE IF w < 81920 THEN 2
                       ELSE IF w < 163840 THEN 3 ELSE IF w < 409600 THEN 4 ELSE 5
    BY <1>2, Ranked
  <1> HIDE DEF w
  <1>4. H!Rank(v) <= H!Rank(w)
    BY <1>2, <1>3
  <1> QED BY <1>1, <1>4 DEF w

(* The profile of any such machine is honest (Hardware.tla: Honest).       *)
THEOREM ProfilesHonest == ASSUME NEW m, Machine(m) PROVE H!HardwareHonest(m)
  <1> DEFINE m1 == [m EXCEPT !.nvml = IF @ = "absent" THEN "works" ELSE "absent", !.smi = TRUE]
             m2 == [m EXCEPT !.vram = @ + H!GB]
             d == H!DetectHardware(m)
             d1 == H!DetectHardware(m1)
             d2 == H!DetectHardware(m2)
             f == H!BestDevice(m.disks).free
  <1>1. PICK anchors : m \in [nvml : {"absent", "raises", "works"}, smi : BOOLEAN, torch : BOOLEAN,
                              vram : Nat, ram : Nat, disks : Seq(Volumes(anchors))]
    BY DEF Machine
  <1>2. /\ m.vram \in Nat /\ m.ram \in Nat /\ m.nvml \in {"absent", "raises", "works"}
        /\ Scanned(m.disks)
    BY <1>1 DEF Machine, Scanned
  <1>3. /\ m1.nvml = (IF m.nvml = "absent" THEN "works" ELSE "absent") /\ m1.smi
        /\ m1.vram = m.vram
    BY <1>1
  <1>4. /\ m2.vram = m.vram + H!GB /\ m2.nvml = m.nvml /\ m2.smi = m.smi /\ m2.torch = m.torch
        /\ m2.ram = m.ram /\ m2.disks = m.disks
    BY <1>1
  <1>5. /\ f \in Nat
        /\ (\E i \in DOMAIN m.disks : m.disks[i].readable) =>
             \E i \in DOMAIN m.disks :
               /\ m.disks[i].readable /\ m.disks[i].path = H!BestDevice(m.disks).path
               /\ f = H!Tenth(m.disks[i].free)
               /\ \A j \in DOMAIN m.disks :
                    m.disks[j].readable /\ m.disks[j].free > m.disks[i].free + 512
                      => \E k \in 1..(j - 1) :
                           m.disks[k].readable /\ m.disks[k].anchor = m.disks[j].anchor
    BY <1>2, LargestTaken, Zenon
  <1>6. CASE m.nvml = "raises"
    <2>1. H!Gpu(m).vram < 0
      BY <1>2, <1>6, ProbedSizes
    <2>2. d.raised
      BY <2>1 DEF H!DetectHardware
    <2> QED BY <1>6, <2>2 DEF H!HardwareHonest, H!Honest
  <1>7. CASE m.nvml # "raises"
    <2> DEFINE v == H!Gpu(m).vram
    <2>1. v \in Nat
      BY <1>2, <1>7, ProbedSizes
    <2>2. Reports(d, v, m)
      BY <2>1, Reported
    <2> HIDE DEF v, d, d1, d2, m1, m2, f
    <2>3. /\ d.raised = FALSE /\ d.rank = H!Rank(v) /\ d.vram = v
          /\ d.path = H!BestDevice(m.disks).path
          /\ d.ceilings = H!Ceilings(v, m.ram, f) /\ d.config = H!Recommend(H!Rank(v), v, m.ram, f)
      BY <2>2, Zenon DEF Reports, f
    <2>4. m.vram > 0 /\ H!Nvml(m).found
            => \/ d.rank = d1.rank
               \/ \E limit \in {8, 16, 32, 80} :
                    m.vram < limit * H!GB /\ H!Tenth(m.vram) >= limit * H!GB
      <3> SUFFICES ASSUME m.vram > 0, H!Nvml(m).found, d.rank # d1.rank
                   PROVE  \E limit \in {8, 16, 32, 80} :
                            m.vram < limit * H!GB /\ H!Tenth(m.vram) >= limit * H!GB
        OBVIOUS
      <3>1. H!Gpu(m1).vram \in Nat
        BY <1>2, <1>3, <1>7, ProbedSizes
      <3>2. d1.rank = H!Rank(H!Gpu(m1).vram)
        BY <3>1, Reported, Zenon DEF Reports, d1
      <3>3. CASE m.nvml = "absent"
        <4>1. v = H!Tenth(m.vram) /\ H!Gpu(m1).vram = m.vram
          BY <1>2, <1>3, <3>3, ProbedSizes DEF v
        <4>2. H!Rank(m.vram) # H!Rank(H!Tenth(m.vram))
          BY <2>3, <3>2, <4>1
        <4> QED BY <1>2, <4>2, TiersDiffer
      <3>4. CASE m.nvml = "works"
        <4>1. v = m.vram /\ H!Gpu(m1).vram = H!Tenth(m.vram)
          BY <1>2, <1>3, <3>4, ProbedSizes DEF v
        <4>2. H!Rank(m.vram) # H!Rank(H!Tenth(m.vram))
          BY <2>3, <3>2, <4>1
        <4> QED BY <1>2, <4>2, TiersDiffer
      <3> QED BY <1>2, <1>7, <3>3, <3>4
    <2>5. /\ d.config.hot <= d.vram /\ d.config.warm <= m.ram
          /\ d.config.swap \in Nat /\ d.config.swap <= H!Percent(80, f)
          /\ d.config.hot <= H!Recommend(H!Rank(v + H!GB), v + H!GB, m.ram, f).hot
      <3> DEFINE c == H!Recommend(H!Rank(v), v, m.ram, f)
      <3>1. /\ c.hot <= v /\ c.warm <= m.ram
            /\ c.swap \in Nat /\ c.swap <= H!Percent(80, f)
            /\ c.hot <= H!Recommend(H!Rank(v + H!GB), v + H!GB, m.ram, f).hot
        BY <1>2, <1>5, <2>1, Budgets, Zenon
      <3>2. d.config = c /\ d.vram = v
        BY <2>3
      <3> HIDE DEF c
      <3> QED BY <3>1, <3>2, Zenon
    <2>6. /\ d.ceilings.native <= d.ceilings.fast
          /\ d.ceilings.phantom < d.ceilings.native <=> d.ceilings.native > 72 * H!GB
          /\ d.ceilings.sweetMin > d.ceilings.sweetMax
               <=> d.ceilings.native > 33 * H!GB \/ d.ceilings.fast < 7 * H!GB
          /\ d.ceilings.fast
               <= 2 * (H!Greater(H!GB, d.vram) + H!Greater(H!GB, m.ram - 6 * H!GB))
          /\ d.ceilings.native <= H!Ceilings(v + H!GB, m.ram, f).native
      <3> DEFINE c == H!Ceilings(v, m.ram, f)
      <3>1. /\ c.native <= c.fast
            /\ c.phantom < c.native <=> c.native > 72 * H!GB
            /\ c.sweetMin > c.sweetMax <=> c.native > 33 * H!GB \/ c.fast < 7 * H!GB
            /\ c.fast <= 2 * (H!Greater(H!GB, v) + H!Greater(H!GB, m.ram - 6 * H!GB))
            /\ c.native <= H!Ceilings(v + H!GB, m.ram, f).native
        BY <1>2, <1>5, <2>1, Promised, Zenon
      <3>2. d.ceilings = c /\ d.vram = v
        BY <2>3
      <3> HIDE DEF c
      <3> QED BY <3>1, <3>2, Zenon
    <2>7. m.vram > 0 /\ (H!Nvml(m).found \/ m.torch)
            => /\ d.rank <= d2.rank /\ d.ceilings.native <= d2.ceilings.native
               /\ d.config.hot <= d2.config.hot
      <3> SUFFICES ASSUME m.vram > 0, H!Nvml(m).found \/ m.torch
                   PROVE  /\ d.rank <= d2.rank /\ d.ceilings.native <= d2.ceilings.native
                          /\ d.config.hot <= d2.config.hot
        OBVIOUS
      <3>1. m2.vram \in Nat /\ m2.vram > 0 /\ v + H!GB \in Nat
        BY <1>2, <1>4, <2>1 DEF H!GB
      <3>2. H!Gpu(m2).vram = v + H!GB
        <4>1. CASE m.nvml = "works"
          <5>1. v = m.vram
            BY <1>2, <4>1, ProbedSizes DEF v
          <5>2. H!Gpu(m2).vram = m2.vram
            BY <1>4, <3>1, <4>1, ProbedSizes
          <5> QED BY <1>4, <5>1, <5>2
        <4>2. CASE m.nvml = "absent"
          <5>1. v = H!Tenth(m.vram)
            BY <1>2, <4>2, ProbedSizes DEF v
          <5>2. H!Nvml(m2).found \/ m2.torch
            <6>1. CASE m.torch
              BY <1>4, <6>1
            <6>2. CASE H!Nvml(m).found
              <7>1. m.smi
                BY <4>2, <6>2 DEF H!Nvml, H!Smi, H!None
              <7> QED BY <1>4, <3>1, <4>2, <7>1 DEF H!Nvml, H!Smi
            <6> QED BY <6>1, <6>2
          <5>3. H!Gpu(m2).vram = H!Tenth(m2.vram)
            BY <1>2, <1>4, <3>1, <4>2, <5>2, ProbedSizes
          <5>4. H!Tenth(m.vram + H!GB) = H!Tenth(m.vram) + H!GB
            BY <1>2, Rounded
          <5> QED BY <1>4, <5>1, <5>3, <5>4
        <4> QED BY <1>2, <1>7, <4>1, <4>2
      <3>3. Reports(d2, v + H!GB, m2)
        BY <3>1, <3>2, Reported DEF d2
      <3>4. /\ d2.rank = H!Rank(v + H!GB) /\ d2.ceilings = H!Ceilings(v + H!GB, m.ram, f)
            /\ d2.config = H!Recommend(H!Rank(v + H!GB), v + H!GB, m.ram, f)
        BY <1>4, <3>3, Zenon DEF Reports, f
      <3>5. d.rank <= d2.rank
        BY <2>1, <2>3, <3>4, TiersGrow
      <3> QED BY <2>5, <2>6, <3>4, <3>5
    <2>8. H!SwapHonest(m.disks, d)
      <3> SUFFICES ASSUME \E i \in DOMAIN m.disks : m.disks[i].readable
                   PROVE  H!SwapHonest(m.disks, d)
        BY DEF H!SwapHonest
      <3>1. PICK i \in DOMAIN m.disks :
              /\ m.disks[i].readable /\ m.disks[i].path = H!BestDevice(m.disks).path
              /\ f = H!Tenth(m.disks[i].free)
              /\ \A j \in DOMAIN m.disks :
                   m.disks[j].readable /\ m.disks[j].free > m.disks[i].free + 512
                     => \E k \in 1..(j - 1) :
                          m.disks[k].readable /\ m.disks[k].anchor = m.disks[j].anchor
        BY <1>5
      <3>2. m.disks[i].free \in Nat
        BY <1>2, Volume
      <3>3. d.config.swap <= m.disks[i].free \/ m.disks[i].free < H!GB \div 5
        BY <2>5, <3>1, <3>2, SwapFits
      <3>4. H!GB \div 10 = 512
        BY DEF H!GB
      <3>5. \A j \in DOMAIN m.disks :
              m.disks[j].readable /\ m.disks[j].free > m.disks[i].free + H!GB \div 10
                => \E k \in 1..(j - 1) :
                     m.disks[k].readable /\ m.disks[k].anchor = m.disks[j].anchor
        BY <3>1, <3>4
      <3>6. m.disks[i].readable /\ m.disks[i].path = d.path
        BY <2>3, <3>1
      <3> QED BY <3>3, <3>5, <3>6, Zenon DEF H!SwapHonest
    <2>9. ~ d.raised
      BY <2>3
    <2>10. H!Honest(m, d, d1, d2)
      BY <2>4, <2>5, <2>6, <2>7, <2>8, <2>9, Zenon DEF H!Honest
    <2> QED BY <2>10, Zenon DEF H!HardwareHonest, d, d1, d2, m1, m2
  <1> QED BY <1>6, <1>7

-----------------------------------------------------------------------------
(* Layers.  A tier takes what fits and no layer more.                      *)
LEMMA TierFilled ==
  ASSUME NEW l \in Nat, NEW space \in Nat, NEW per \in Nat \ {0},
         NEW n, n = H!Lesser(l, space \div per)
  PROVE  /\ n \in Nat /\ n <= l /\ n * per \in Nat /\ n * per <= space
         /\ n < l => (n + 1) * per > space
  <1> DEFINE q == space \div per
  <1>1. q \in Nat /\ per * q \in Nat /\ per * q <= space /\ space < per * q + per
    BY Divided
  <1>2. n = H!Lesser(l, q)
    OBVIOUS
  <1> HIDE DEF q
  <1>3. n \in Nat /\ n <= l /\ n <= q /\ (n < l => n = q)
    BY <1>1, <1>2 DEF H!Lesser
  <1>4. per * n \in Nat /\ per * n <= per * q
    BY <1>1, <1>3, Multiples
  <1>5. n * per = per * n /\ (n + 1) * per = per * n + per
    BY <1>3
  <1>6. n < l => (n + 1) * per > space
    BY <1>1, <1>3, <1>4, <1>5
  <1> QED BY <1>1, <1>3, <1>4, <1>5, <1>6

(* n of l layers are read in time, of size z in all, at a bandwidth.       *)
Share(z, l, n) == (z * n) \div l
Passes(a, b) == (195 * a) \div b

LEMMA Shared ==
  ASSUME NEW z \in Nat, NEW l \in Nat \ {0}, NEW m \in Nat, NEW n \in Nat
  PROVE  /\ Share(z, l, m) \in Nat /\ Share(z, l, n) \in Nat /\ Share(z, l, m + n) \in Nat
         /\ Share(z, l, m) + Share(z, l, n) <= Share(z, l, m + n)
         /\ Share(z, l, m + n) <= Share(z, l, m) + Share(z, l, n) + 1
  <1> DEFINE x == z * m
             y == z * n
  <1>1. x \in Nat /\ y \in Nat /\ z * (m + n) = x + y
    OBVIOUS
  <1> HIDE DEF x, y
  <1>2. x \div l \in Nat /\ y \div l \in Nat /\ (x + y) \div l \in Nat
    BY <1>1, Divided
  <1>3. /\ x \div l + y \div l <= (x + y) \div l
        /\ (x + y) \div l <= x \div l + y \div l + 1
    BY <1>1, DividedParts
  <1>4. /\ Share(z, l, m) = x \div l /\ Share(z, l, n) = y \div l
        /\ Share(z, l, m + n) = (x + y) \div l
    BY <1>1 DEF Share, x, y
  <1> QED BY <1>2, <1>3, <1>4

LEMMA Passed ==
  ASSUME NEW b \in Nat \ {0}, NEW x \in Nat, NEW y \in Nat
  PROVE  /\ Passes(x, b) \in Nat /\ Passes(y, b) \in Nat /\ Passes(x + y, b) \in Nat
         /\ x <= y => Passes(x, b) <= Passes(y, b)
         /\ Passes(x, b) + Passes(y, b) <= Passes(x + y, b)
         /\ Passes(x + y, b) <= Passes(x, b) + Passes(y, b) + 1
  <1> DEFINE p == 195 * x
             q == 195 * y
  <1>1. p \in Nat /\ q \in Nat /\ 195 * (x + y) = p + q /\ (x <= y => p <= q)
    OBVIOUS
  <1> HIDE DEF p, q
  <1>2. p \div b \in Nat /\ q \div b \in Nat /\ (p + q) \div b \in Nat
    BY <1>1, Divided
  <1>3. /\ p \div b + q \div b <= (p + q) \div b
        /\ (p + q) \div b <= p \div b + q \div b + 1
    BY <1>1, DividedParts
  <1>4. p <= q => p \div b <= q \div b
    BY <1>1, DividedLess
  <1>5. /\ Passes(x, b) = p \div b /\ Passes(y, b) = q \div b
        /\ Passes(x + y, b) = (p + q) \div b
    BY <1>1 DEF Passes, p, q
  <1> QED BY <1>1, <1>2, <1>3, <1>4, <1>5

(* Part of a time; a card faster than the disk makes up for the discount.  *)
LEMMA Discount ==
  /\ \A x \in Nat : H!Percent(65, x) \in Nat
  /\ \A x, y \in Nat : x <= y => H!Percent(65, x) <= H!Percent(65, y)
  /\ \A x, y \in Nat : H!Percent(65, x) + H!Percent(65, y) <= H!Percent(65, x + y)
  /\ \A q, s \in Nat : 100 * q < 65 * s + 65 => 10 * q <= H!Percent(65, 10 * s) + 7
  <1>1. \A x \in Nat : H!Percent(65, x) \in Nat
    BY DEF H!Percent
  <1>2. \A x, y \in Nat : x <= y => H!Percent(65, x) <= H!Percent(65, y)
    BY DEF H!Percent
  <1>3. \A x, y \in Nat : H!Percent(65, x) + H!Percent(65, y) <= H!Percent(65, x + y)
    BY DEF H!Percent
  <1>4. \A q, s \in Nat : 100 * q < 65 * s + 65 => 10 * q <= H!Percent(65, 10 * s) + 7
    BY DEF H!Percent
  <1> QED BY <1>1, <1>2, <1>3, <1>4

LEMMA FasterThanDisk ==
  ASSUME NEW x \in Nat, NEW b \in Nat \ {0}, NEW c \in Nat \ {0}, 100 * c <= 65 * b
  PROVE  10 * Passes(x, b) <= H!Percent(65, 10 * Passes(x, c)) + 7
  <1> DEFINE y == 195 * x
             q == y \div b
             s == y \div c
  <1>1. y \in Nat
    OBVIOUS
  <1> HIDE DEF y
  <1>2. q \in Nat /\ b * q \in Nat /\ b * q <= y
    BY <1>1, Divided
  <1>3. s \in Nat /\ c * s \in Nat /\ y < c * s + c
    BY <1>1, Divided
  <1> HIDE DEF q, s
  <1>4. ASSUME 65 * s + 65 <= 100 * q PROVE FALSE
    <2>1. c * (65 * s + 65) <= c * (100 * q)
      <3>1. 65 * s + 65 \in Nat /\ 100 * q \in Nat
        BY <1>2, <1>3
      <3> QED BY <1>4, <3>1, Multiples
    <2>2. c * (65 * s + 65) = 65 * (c * s + c)
      BY <1>3
    <2>3. c * (100 * q) = q * (100 * c)
      BY <1>2
    <2>4. q * (100 * c) <= q * (65 * b)
      <3>1. 100 * c \in Nat /\ 65 * b \in Nat
        OBVIOUS
      <3> QED BY <1>2, <3>1, Multiples
    <2>5. q * (65 * b) = 65 * (b * q)
      BY <1>2
    <2> DEFINE cs == c * s + c
               bq == b * q
    <2>6. 65 * cs <= 65 * bq
      <3>1. /\ c * (65 * s + 65) \in Nat /\ c * (100 * q) \in Nat /\ q * (100 * c) \in Nat
            /\ q * (65 * b) \in Nat
        BY <1>2, <1>3
      <3> QED BY <2>1, <2>2, <2>3, <2>4, <2>5, <3>1
    <2>7. bq \in Nat /\ cs \in Nat /\ bq <= y /\ y < cs
      BY <1>2, <1>3
    <2> HIDE DEF cs, bq
    <2> QED BY <1>1, <2>6, <2>7
  <1>5. 100 * q < 65 * s + 65
    BY <1>2, <1>3, <1>4
  <1>6. 10 * q <= H!Percent(65, 10 * s) + 7
    BY <1>2, <1>3, <1>5, Discount
  <1> QED BY <1>6 DEF Passes, y, q, s

(* The time of a pass over v layers in VRAM, r in RAM and n on the disk.   *)
Span(z, l, n, b) == 10 * Passes(Share(z, l, n), b)
Pass(z, l, v, r, n, b1, b2, b3) ==
  Span(z, l, v, b1) + Span(z, l, r, b2) + H!Percent(65, Span(z, l, n, b3))

(* Layers that move from RAM and from the disk into VRAM.                  *)
LEMMA MovingUp ==
  ASSUME NEW z \in Nat, NEW l \in Nat \ {0}, NEW b1 \in Nat \ {0}, NEW b2 \in Nat \ {0},
         NEW b3 \in Nat \ {0}, b1 >= 400, b2 <= b1, 100 * b3 <= 65 * b1,
         NEW v \in Nat, NEW r \in Nat, NEW n \in Nat, NEW b \in Nat, NEW c \in Nat
  PROVE  /\ Pass(z, l, v + b + c, r, n, b1, b2, b3) \in Nat
         /\ Pass(z, l, v, r + b, n + c, b1, b2, b3) \in Nat
         /\ Pass(z, l, v + b + c, r, n, b1, b2, b3)
              <= Pass(z, l, v, r + b, n + c, b1, b2, b3) + 40
  <1> DEFINE S(x) == Share(z, l, x)
             Q1(x) == Passes(x, b1)
             Q2(x) == Passes(x, b2)
             Q3(x) == Passes(x, b3)
             D(x) == H!Percent(65, x)
  <1>1. \A x, y \in Nat : /\ S(x) \in Nat /\ S(y) \in Nat /\ S(x + y) \in Nat
                          /\ S(x) + S(y) <= S(x + y) /\ S(x + y) <= S(x) + S(y) + 1
    BY Shared
  <1>2. \A x, y \in Nat : /\ Q1(x) \in Nat /\ Q1(y) \in Nat /\ Q1(x + y) \in Nat
                          /\ (x <= y => Q1(x) <= Q1(y))
                          /\ Q1(x) + Q1(y) <= Q1(x + y) /\ Q1(x + y) <= Q1(x) + Q1(y) + 1
    BY Passed
  <1>3. \A x, y \in Nat : /\ Q2(x) \in Nat /\ Q2(y) \in Nat /\ Q2(x + y) \in Nat
                          /\ (x <= y => Q2(x) <= Q2(y))
                          /\ Q2(x) + Q2(y) <= Q2(x + y)
    BY Passed
  <1>4. \A x, y \in Nat : /\ Q3(x) \in Nat /\ Q3(y) \in Nat /\ Q3(x + y) \in Nat
                          /\ (x <= y => Q3(x) <= Q3(y))
                          /\ Q3(x) + Q3(y) <= Q3(x + y)
    BY Passed
  <1>5. \A x \in Nat : Q1(x) <= Q2(x) /\ 10 * Q1(x) <= D(10 * Q3(x)) + 7
    <2> SUFFICES ASSUME NEW x \in Nat PROVE Q1(x) <= Q2(x) /\ 10 * Q1(x) <= D(10 * Q3(x)) + 7
      OBVIOUS
    <2>1. 195 * x \in Nat
      OBVIOUS
    <2>2. Q1(x) <= Q2(x)
      BY <2>1, DividedMore DEF Passes
    <2>3. 10 * Q1(x) <= D(10 * Q3(x)) + 7
      BY FasterThanDisk
    <2> QED BY <2>2, <2>3
  <1>6. Q1(2) = 0
    <2>1. 195 * 2 \in Nat /\ b1 \in Nat \ {0} /\ 0 \in Nat /\ 195 * 2 < b1 * 0 + b1
      OBVIOUS
    <2>2. (195 * 2) \div b1 <= 0 /\ (195 * 2) \div b1 \in Nat
      BY <2>1, AtMost, Divided
    <2> QED BY <2>2 DEF Passes
  <1>7. /\ \A x \in Nat : D(x) \in Nat
        /\ \A x, y \in Nat : (x <= y => D(x) <= D(y)) /\ D(x) + D(y) <= D(x + y)
    BY Discount
  <1> DEFINE sv == S(v)
             sb == S(b)
             sc == S(c)
             sr == S(r)
             sn == S(n)
             top == S(v + b + c)
             mid == S(r + b)
             low == S(n + c)
  <1>8. /\ sv \in Nat /\ sb \in Nat /\ sc \in Nat /\ sr \in Nat /\ sn \in Nat /\ top \in Nat
        /\ mid \in Nat /\ low \in Nat
        /\ top <= sv + sb + sc + 2 /\ sr + sb <= mid /\ sn + sc <= low
    <2> DEFINE up == v + b
    <2> HIDE DEF S
    <2>1. /\ up \in Nat /\ S(up) <= sv + sb + 1 /\ S(up) \in Nat
          /\ sv \in Nat /\ sb \in Nat
      <3>1. up \in Nat
        OBVIOUS
      <3> QED BY <1>1, <3>1, Zenon
    <2>2. S(up + c) <= S(up) + sc + 1 /\ sc \in Nat /\ S(up + c) \in Nat
      BY <1>1, <2>1, Zenon
    <2>3. top = S(up + c)
      OBVIOUS
    <2>4. sr + sb <= mid /\ sn + sc <= low /\ sr \in Nat /\ sn \in Nat /\ mid \in Nat /\ low \in Nat
      BY <1>1, Zenon
    <2> HIDE DEF up
    <2> QED BY <2>1, <2>2, <2>3, <2>4
  <1>9. /\ Pass(z, l, v + b + c, r, n, b1, b2, b3) = 10 * Q1(top) + 10 * Q2(sr) + D(10 * Q3(sn))
        /\ Pass(z, l, v, r + b, n + c, b1, b2, b3) = 10 * Q1(sv) + 10 * Q2(mid) + D(10 * Q3(low))
    BY DEF Pass, Span
  <1> HIDE DEF S, Q1, Q2, Q3, D, sv, sb, sc, sr, sn, top, mid, low
  <1>10. Q1(top) \in Nat /\ Q1(top) <= Q1(sv) + Q1(sb) + Q1(sc) + 3 /\ Q1(sv) \in Nat
         /\ Q1(sb) \in Nat /\ Q1(sc) \in Nat
    <2> DEFINE x == sv + sb
               y == sc + 2
    <2>1. x \in Nat /\ y \in Nat /\ top <= x + y /\ x + y \in Nat
      BY <1>8
    <2>2. Q1(top) <= Q1(x + y) /\ Q1(top) \in Nat /\ Q1(x + y) \in Nat
      BY <1>2, <1>8, <2>1
    <2>3. Q1(x) <= Q1(sv) + Q1(sb) + 1 /\ Q1(x) \in Nat /\ Q1(sv) \in Nat /\ Q1(sb) \in Nat
      BY <1>2, <1>8
    <2>4. Q1(y) <= Q1(sc) + Q1(2) + 1 /\ Q1(y) \in Nat /\ Q1(sc) \in Nat
      <3>1. 2 \in Nat
        OBVIOUS
      <3> QED BY <1>2, <1>8, <3>1
    <2> HIDE DEF x, y
    <2>5. Q1(x + y) <= Q1(x) + Q1(y) + 1
      BY <1>2, <2>1
    <2> QED BY <1>6, <2>2, <2>3, <2>4, <2>5
  <1>11. Q2(sr) + Q1(sb) <= Q2(mid) /\ Q2(sr) \in Nat /\ Q2(mid) \in Nat
    <2>1. sr + sb \in Nat
      BY <1>8
    <2>2. Q2(sr + sb) <= Q2(mid) /\ Q2(sr + sb) \in Nat /\ Q2(mid) \in Nat
      BY <1>3, <1>8, <2>1
    <2>3. Q2(sr) + Q2(sb) <= Q2(sr + sb) /\ Q2(sr) \in Nat /\ Q2(sb) \in Nat
      BY <1>3, <1>8
    <2>4. Q1(sb) <= Q2(sb) /\ Q1(sb) \in Nat
      BY <1>2, <1>5, <1>8
    <2> QED BY <2>2, <2>3, <2>4
  <1>12. /\ D(10 * Q3(sn)) + 10 * Q1(sc) <= D(10 * Q3(low)) + 7
         /\ D(10 * Q3(sn)) \in Nat /\ D(10 * Q3(low)) \in Nat
    <2> DEFINE x == 10 * Q3(sn)
               y == 10 * Q3(sc)
               w == 10 * Q3(low)
    <2>1. sn + sc \in Nat
      BY <1>8
    <2>2. Q3(sn + sc) <= Q3(low) /\ Q3(sn + sc) \in Nat /\ Q3(low) \in Nat
      BY <1>4, <1>8, <2>1
    <2>3. Q3(sn) + Q3(sc) <= Q3(sn + sc) /\ Q3(sn) \in Nat /\ Q3(sc) \in Nat
      BY <1>4, <1>8
    <2>4. x \in Nat /\ y \in Nat /\ w \in Nat /\ x + y \in Nat /\ x + y <= w
      BY <2>2, <2>3
    <2>5. 10 * Q1(sc) <= D(y) + 7 /\ Q1(sc) \in Nat
      BY <1>2, <1>5, <1>8
    <2> HIDE DEF x, y, w
    <2>6. /\ D(x) + D(y) <= D(x + y) /\ D(x + y) <= D(w) /\ D(x) \in Nat /\ D(y) \in Nat
          /\ D(w) \in Nat /\ D(x + y) \in Nat
      BY <1>7, <2>4
    <2>7. D(x) + 10 * Q1(sc) <= D(w) + 7
      BY <2>5, <2>6
    <2> QED BY <2>6, <2>7 DEF x, w
  <1> QED BY <1>9, <1>10, <1>11, <1>12

(* What a simulation is made of.                                           *)
Weight(spec, bits) == (((spec.params * bits) \div 10) * 596) \div 100
FixedPart(spec, ctx) ==
  (65 * H!GB) \div 100
    + ((((spec.layers * spec.kv * (spec.width \div H!Greater(1, spec.heads))) \div 1024) * ctx * 5)
         \div 2048)
    + (IF spec.params >= 3000 THEN H!GB \div 2 ELSE (4 * H!GB) \div 10)
LayerSize(spec, bits) == H!Greater(1, Weight(spec, bits) \div H!Greater(1, spec.layers))
ReadSize(spec, bits) ==
  IF spec.moe
  THEN H!Percent(25 + (75 * spec.activeExperts) \div H!Greater(1, spec.experts), Weight(spec, bits))
  ELSE Weight(spec, bits)
Computing(spec, hw) == (spec.active * 20000) \div (18 * H!Greater(6, hw.tflops))

Sizeable(spec) ==
  /\ spec.layers \in Nat \ {0} /\ spec.params \in Nat /\ spec.active \in Nat
  /\ spec.kv \in Nat /\ spec.width \in Nat /\ spec.heads \in Nat
  /\ spec.moe => spec.activeExperts \in Nat /\ spec.experts \in Nat
(* A host whose card is faster than its RAM, and faster than its disk by   *)
(* more than the discount on disk reads.                                   *)
Host(hw) ==
  /\ hw \in [vram : Nat, vramBw : Nat, ram : Nat, ramBw : Nat, os : Nat, nvme : Nat,
             nvmeBw : Nat, tflops : Nat]
  /\ hw.vramBw >= 400 /\ hw.ramBw <= hw.vramBw /\ 100 * hw.nvmeBw <= 65 * hw.vramBw

LEMMA PartsSized ==
  ASSUME NEW spec, Sizeable(spec), NEW bits \in Nat, NEW ctx \in Nat
  PROVE  /\ LayerSize(spec, bits) \in Nat \ {0} /\ FixedPart(spec, ctx) \in Nat
         /\ ReadSize(spec, bits) \in Nat
         /\ \A hw : hw.tflops \in Nat => Computing(spec, hw) \in Nat
  <1>1. Weight(spec, bits) \in Nat
    <2>1. spec.params * bits \in Nat
      BY DEF Sizeable
    <2> DEFINE x == spec.params * bits
    <2> HIDE DEF x
    <2>2. ((x \div 10) * 596) \div 100 \in Nat
      BY <2>1 DEF x
    <2> QED BY <2>2 DEF Weight, x
  <1>2. H!GB = 5120
    BY DEF H!GB
  <1>3. \A x \in Nat : H!Greater(1, x) \in Nat \ {0} /\ H!Greater(6, x) \in Nat \ {0}
    BY DEF H!Greater
  <1>4. LayerSize(spec, bits) \in Nat \ {0}
    <2> DEFINE l == H!Greater(1, spec.layers)
               w == Weight(spec, bits)
    <2>1. l \in Nat \ {0}
      BY <1>3 DEF Sizeable
    <2> HIDE DEF l, w
    <2>2. w \div l \in Nat
      BY <1>1, <2>1, Divided DEF w
    <2> QED BY <1>3, <2>2 DEF LayerSize, l, w
  <1>5. FixedPart(spec, ctx) \in Nat
    <2> DEFINE h == H!Greater(1, spec.heads)
               q == spec.width \div h
               m == spec.layers * spec.kv * q
               k == ((m \div 1024) * ctx * 5) \div 2048
    <2>1. h \in Nat \ {0} /\ spec.width \in Nat /\ spec.layers \in Nat /\ spec.kv \in Nat
      BY <1>3 DEF Sizeable
    <2> HIDE DEF h
    <2>2. q \in Nat
      BY <2>1, Divided
    <2> HIDE DEF q
    <2>3. m \in Nat
      BY <2>1, <2>2
    <2> HIDE DEF m
    <2>4. k \in Nat
      <3> DEFINE a == m \div 1024
      <3>1. a \in Nat
        BY <2>3
      <3> HIDE DEF a
      <3>2. a * ctx * 5 \in Nat
        BY <3>1
      <3> DEFINE c == a * ctx * 5
      <3> HIDE DEF c
      <3>3. c \div 2048 \in Nat
        BY <3>2 DEF c
      <3> QED BY <3>3 DEF a, c
    <2> HIDE DEF k
    <2>5. FixedPart(spec, ctx)
            = 3328 + k + (IF spec.params >= 3000 THEN 2560 ELSE 2048)
      BY <1>2 DEF FixedPart, h, q, m, k
    <2> QED BY <2>4, <2>5
  <1>6. ReadSize(spec, bits) \in Nat
    <2>1. CASE spec.moe
      <3> DEFINE e == H!Greater(1, spec.experts)
                 p == 25 + (75 * spec.activeExperts) \div e
                 w == Weight(spec, bits)
      <3>1. 75 * spec.activeExperts \in Nat /\ e \in Nat \ {0}
        BY <1>3, <2>1 DEF Sizeable
      <3> HIDE DEF e
      <3>2. p \in Nat
        BY <3>1, Divided
      <3> HIDE DEF p, w
      <3>3. w \div 100 \in Nat /\ w % 100 \in Nat
        BY <1>1 DEF w
      <3> DEFINE i == w \div 100
                 j == w % 100
      <3> HIDE DEF i, j
      <3>4. p * i \in Nat /\ p * j \in Nat
        BY <3>2, <3>3 DEF i, j
      <3>5. H!Percent(p, w) = p * i + (p * j) \div 100
        BY DEF H!Percent, i, j
      <3> DEFINE pi == p * i
                 pj == p * j
      <3> HIDE DEF pi, pj
      <3>6. pi + pj \div 100 \in Nat
        BY <3>4 DEF pi, pj
      <3> QED BY <2>1, <3>5, <3>6 DEF ReadSize, e, p, w, pi, pj
    <2>2. CASE ~ spec.moe
      BY <1>1, <2>2 DEF ReadSize
    <2> QED BY <2>1, <2>2
  <1>7. ASSUME NEW hw, hw.tflops \in Nat PROVE Computing(spec, hw) \in Nat
    <2> DEFINE t == H!Greater(6, hw.tflops)
    <2>1. t \in Nat \ {0}
      BY <1>3, <1>7
    <2> HIDE DEF t
    <2>2. 18 * t \in Nat \ {0} /\ spec.active * 20000 \in Nat
      BY <2>1 DEF Sizeable
    <2>3. (spec.active * 20000) \div (18 * t) \in Nat
      BY <2>2, Divided
    <2> QED BY <2>3 DEF Computing, t
  <1> QED BY <1>4, <1>5, <1>6, <1>7

(* The simulation in these terms.                                          *)
Split(s, l, per, usable, host) ==
  /\ s.vram = H!Lesser(l, usable \div per) /\ s.ram = H!Lesser(l - s.vram, host \div per)
  /\ s.nvme = l - s.vram - s.ram
  /\ s.bound = IF s.nvme > 0 THEN "disk" ELSE IF s.ram > 0 THEN "ram" ELSE "vram"

LEMMA Simulated ==
  ASSUME NEW spec, NEW hw, NEW bits, NEW ctx, NEW s, s = H!Place(spec, hw, bits, ctx)
  PROVE  /\ s.per = LayerSize(spec, bits) /\ s.fixed = FixedPart(spec, ctx)
         /\ s.usable = H!Greater(H!GB \div 10, hw.vram - s.fixed)
         /\ s.host = H!Greater(H!GB \div 2, hw.ram - hw.os)
         /\ Split(s, spec.layers, s.per, s.usable, s.host)
         /\ s.latency
              = H!Greater(1000,
                  H!Greater(Pass(ReadSize(spec, bits), H!Greater(1, spec.layers),
                                 s.vram, s.ram, s.nvme, H!Greater(10, hw.vramBw),
                                 H!Greater(10, hw.ramBw), H!Greater(5, hw.nvmeBw)),
                            Computing(spec, hw)))
  <1>1. s.per = LayerSize(spec, bits)
    BY SMTT(40) DEF H!Place, LayerSize, Weight
  <1>2. s.fixed = FixedPart(spec, ctx)
    BY SMTT(40) DEF H!Place, FixedPart
  <1>3. s.usable = H!Greater(H!GB \div 10, hw.vram - s.fixed)
    BY SMTT(40) DEF H!Place
  <1>4. s.host = H!Greater(H!GB \div 2, hw.ram - hw.os)
    BY SMTT(40) DEF H!Place
  <1>5. /\ s.vram = H!Lesser(spec.layers, s.usable \div s.per)
        /\ s.ram = H!Lesser(spec.layers - s.vram, s.host \div s.per)
        /\ s.nvme = spec.layers - s.vram - s.ram
    BY SMTT(40) DEF H!Place, H!WarmSplit
  <1>6. s.bound = IF s.nvme > 0 THEN "disk" ELSE IF s.ram > 0 THEN "ram" ELSE "vram"
    BY SMTT(40) DEF H!Place
  <1>7. s.latency
          = H!Greater(1000,
              H!Greater(Pass(ReadSize(spec, bits), H!Greater(1, spec.layers),
                             s.vram, s.ram, s.nvme, H!Greater(10, hw.vramBw),
                             H!Greater(10, hw.ramBw), H!Greater(5, hw.nvmeBw)),
                        Computing(spec, hw)))
    BY SMTT(40) DEF H!Place, Pass, Span, Share, Passes, ReadSize, Weight, Computing
  <1> QED BY <1>1, <1>2, <1>3, <1>4, <1>5, <1>6, <1>7, Zenon DEF Split

LEMMA Splits ==
  ASSUME NEW l \in Nat, NEW per \in Nat \ {0}, NEW space \in Nat, NEW host \in Nat, NEW s,
         Split(s, l, per, space, host)
  PROVE  /\ s.vram \in 0..l /\ s.ram \in 0..l /\ s.nvme \in 0..l
         /\ s.vram + s.ram + s.nvme = l
         /\ s.vram * per \in Nat /\ s.vram * per <= space
         /\ s.ram * per \in Nat /\ s.ram * per <= host
         /\ s.ram + s.nvme > 0 => (s.vram + 1) * per > space
         /\ s.nvme > 0 => (s.ram + 1) * per > host
         /\ s.bound = "vram" => s.vram = l
  <1> DEFINE v == s.vram
             r == s.ram
             n == s.nvme
             m == l - v
  <1>1. /\ v = H!Lesser(l, space \div per) /\ r = H!Lesser(m, host \div per) /\ n = m - r
        /\ s.bound = IF n > 0 THEN "disk" ELSE IF r > 0 THEN "ram" ELSE "vram"
    BY DEF Split
  <1> HIDE DEF v, r, n
  <1>2. /\ v \in Nat /\ v <= l /\ v * per \in Nat /\ v * per <= space
        /\ v < l => (v + 1) * per > space
    BY <1>1, TierFilled
  <1>3. m \in Nat
    BY <1>2
  <1> HIDE DEF m
  <1>4. /\ r \in Nat /\ r <= m /\ r * per \in Nat /\ r * per <= host
        /\ r < m => (r + 1) * per > host
    BY <1>1, <1>3, TierFilled
  <1>5. /\ v \in 0..l /\ r \in 0..l /\ n \in 0..l /\ v + r + n = l
        /\ (r + n > 0 => v < l) /\ (n > 0 => r < m)
    <2>1. v \in Nat /\ v <= l /\ r \in Nat /\ r <= m /\ m = l - v /\ n = m - r
      BY <1>1, <1>2, <1>4 DEF m
    <2> QED BY <2>1
  <1>6. s.bound = "vram" => v = l
    <2>1. s.bound = "vram" => ~ (n > 0) /\ ~ (r > 0)
      BY <1>1
    <2> QED BY <1>5, <2>1
  <1> QED BY <1>2, <1>4, <1>5, <1>6 DEF v, r, n

(* More space in the first tier moves layers up only.                      *)
LEMMA MovesUp ==
  ASSUME NEW l \in Nat, NEW per \in Nat \ {0}, NEW x \in Nat, NEW y \in Nat, x <= y,
         NEW host \in Nat, NEW s, NEW t, Split(s, l, per, x, host), Split(t, l, per, y, host)
  PROVE  t.vram >= s.vram /\ t.ram <= s.ram /\ t.nvme <= s.nvme
  <1>1. x \div per \in Nat /\ y \div per \in Nat /\ x \div per <= y \div per
    BY Divided, DividedLess
  <1>2. host \div per \in Nat
    BY Divided
  <1> DEFINE i == x \div per
             j == y \div per
             h == host \div per
  <1>3. /\ s.vram = H!Lesser(l, i) /\ s.ram = H!Lesser(l - s.vram, h)
        /\ s.nvme = l - s.vram - s.ram
        /\ t.vram = H!Lesser(l, j) /\ t.ram = H!Lesser(l - t.vram, h)
        /\ t.nvme = l - t.vram - t.ram
    BY DEF Split
  <1>4. i \in Nat /\ j \in Nat /\ h \in Nat /\ i <= j
    BY <1>1, <1>2
  <1> HIDE DEF i, j, h
  <1> QED BY <1>3, <1>4 DEF H!Lesser

(* On a host of that kind the layers of any model that has weights are     *)
(* placed: no tier overflows, no room is left, and a larger card neither   *)
(* moves a layer down nor slows the model (Hardware.tla: Placed).          *)
LEMMA WeightsPlaced ==
  ASSUME NEW spec, Sizeable(spec), NEW hw, Host(hw), NEW bits \in Nat, NEW ctx \in Nat
  PROVE  H!Placed(spec, hw, H!Place(spec, hw, bits, ctx),
                  H!Place(spec, [hw EXCEPT !.vram = @ + H!GB], bits, ctx))
  <1> DEFINE up == [hw EXCEPT !.vram = @ + H!GB]
             s == H!Place(spec, hw, bits, ctx)
             t == H!Place(spec, up, bits, ctx)
             l == spec.layers
             per == LayerSize(spec, bits)
             fixed == FixedPart(spec, ctx)
             z == ReadSize(spec, bits)
             k == Computing(spec, hw)
             b1 == H!Greater(10, hw.vramBw)
             b2 == H!Greater(10, hw.ramBw)
             b3 == H!Greater(5, hw.nvmeBw)
             x == H!Greater(512, hw.vram - fixed)
             y == H!Greater(512, up.vram - fixed)
             host == H!Greater(2560, hw.ram - hw.os)
  <1>1. /\ hw.vram \in Nat /\ hw.vramBw \in Nat /\ hw.ram \in Nat /\ hw.ramBw \in Nat
        /\ hw.os \in Nat /\ hw.nvmeBw \in Nat /\ hw.tflops \in Nat
        /\ hw.vramBw >= 400 /\ hw.ramBw <= hw.vramBw /\ 100 * hw.nvmeBw <= 65 * hw.vramBw
    BY DEF Host
  <1>2. /\ up.vram = hw.vram + H!GB /\ up.vramBw = hw.vramBw /\ up.ram = hw.ram
        /\ up.ramBw = hw.ramBw /\ up.os = hw.os /\ up.nvmeBw = hw.nvmeBw /\ up.tflops = hw.tflops
    BY DEF Host
  <1>3. H!GB = 5120 /\ H!GB \div 10 = 512 /\ H!GB \div 2 = 2560
    BY DEF H!GB
  <1>4. /\ per \in Nat \ {0} /\ fixed \in Nat /\ z \in Nat /\ k \in Nat
        /\ l \in Nat \ {0}
    BY <1>1, PartsSized DEF Sizeable
  <1>5. Computing(spec, up) = k
    BY <1>2 DEF Computing
  <1>6. H!Greater(1, l) = l
    BY <1>4 DEF H!Greater
  <1> HIDE DEF up, s, t, per, fixed, z, k
  <1>7. /\ s.per = per /\ s.fixed = fixed /\ s.usable = x /\ s.host = host
        /\ Split(s, l, per, x, host)
        /\ s.latency
             = H!Greater(1000, H!Greater(Pass(z, l, s.vram, s.ram, s.nvme, b1, b2, b3), k))
    <2>1. /\ s.per = per /\ s.fixed = fixed
          /\ s.usable = H!Greater(H!GB \div 10, hw.vram - s.fixed)
          /\ s.host = H!Greater(H!GB \div 2, hw.ram - hw.os)
          /\ Split(s, l, s.per, s.usable, s.host)
          /\ s.latency
               = H!Greater(1000, H!Greater(Pass(z, H!Greater(1, l), s.vram, s.ram, s.nvme,
                                                b1, b2, b3), k))
      BY Simulated DEF s, per, fixed, z, k
    <2>2. s.usable = x /\ s.host = host
      BY <1>3, <2>1
    <2> HIDE DEF x, host, b1, b2, b3
    <2> QED BY <1>6, <2>1, <2>2
  <1>8. /\ Split(t, l, per, y, host)
        /\ t.latency
             = H!Greater(1000, H!Greater(Pass(z, l, t.vram, t.ram, t.nvme, b1, b2, b3), k))
    <2>1. /\ t.per = per /\ t.fixed = fixed
          /\ t.usable = H!Greater(H!GB \div 10, up.vram - t.fixed)
          /\ t.host = H!Greater(H!GB \div 2, up.ram - up.os)
          /\ Split(t, l, t.per, t.usable, t.host)
          /\ t.latency
               = H!Greater(1000, H!Greater(Pass(z, H!Greater(1, l), t.vram, t.ram, t.nvme,
                                                H!Greater(10, up.vramBw),
                                                H!Greater(10, up.ramBw),
                                                H!Greater(5, up.nvmeBw)),
                                           Computing(spec, up)))
      BY Simulated DEF t, per, fixed, z
    <2>2. t.usable = y /\ t.host = host
      BY <1>2, <1>3, <2>1
    <2>3. /\ H!Greater(10, up.vramBw) = b1 /\ H!Greater(10, up.ramBw) = b2
          /\ H!Greater(5, up.nvmeBw) = b3
      BY <1>2
    <2> HIDE DEF y, host, b1, b2, b3
    <2> QED BY <1>5, <1>6, <2>1, <2>2, <2>3
  <1>9. /\ x \in Nat /\ y \in Nat /\ x <= y /\ host \in Nat
        /\ x = 512 \/ x + fixed = hw.vram
        /\ host + hw.os <= H!Greater(hw.ram, hw.os + 2560)
    BY <1>1, <1>2, <1>3, <1>4 DEF H!Greater
  <1>10. /\ b1 \in Nat \ {0} /\ b2 \in Nat \ {0} /\ b3 \in Nat \ {0} /\ b1 >= 400 /\ b2 <= b1
         /\ 100 * b3 <= 65 * b1
    BY <1>1 DEF H!Greater
  <1> HIDE DEF x, y, host, b1, b2, b3, l
  <1>11. /\ s.vram \in 0..l /\ s.ram \in 0..l /\ s.nvme \in 0..l /\ s.vram + s.ram + s.nvme = l
         /\ s.vram * per \in Nat /\ s.vram * per <= x /\ s.ram * per \in Nat
         /\ s.ram * per <= host
         /\ s.ram + s.nvme > 0 => (s.vram + 1) * per > x
         /\ s.nvme > 0 => (s.ram + 1) * per > host
         /\ s.bound = "vram" => s.vram = l
    BY <1>4, <1>7, <1>9, Splits
  <1>12. /\ t.vram \in 0..l /\ t.ram \in 0..l /\ t.nvme \in 0..l /\ t.vram + t.ram + t.nvme = l
    BY <1>4, <1>8, <1>9, Splits
  <1>13. t.vram >= s.vram /\ t.ram <= s.ram /\ t.nvme <= s.nvme
    BY <1>4, <1>7, <1>8, <1>9, MovesUp
  <1>14. t.latency <= s.latency + 40
    <2> DEFINE b == s.ram - t.ram
               c == s.nvme - t.nvme
               p == Pass(z, l, s.vram, s.ram, s.nvme, b1, b2, b3)
               q == Pass(z, l, t.vram, t.ram, t.nvme, b1, b2, b3)
    <2>1. /\ b \in Nat /\ c \in Nat /\ s.ram = t.ram + b /\ s.nvme = t.nvme + c
          /\ t.vram = s.vram + b + c /\ s.vram \in Nat /\ t.ram \in Nat /\ t.nvme \in Nat
      <3>1. /\ s.vram \in 0..l /\ s.ram \in 0..l /\ s.nvme \in 0..l
            /\ s.vram + s.ram + s.nvme = l /\ l \in Nat
        BY <1>4, <1>11
      <3> DEFINE v0 == s.vram
                 r0 == s.ram
                 n0 == s.nvme
                 v1 == t.vram
                 r1 == t.ram
                 n1 == t.nvme
      <3>2. /\ v0 \in Nat /\ r0 \in Nat /\ n0 \in Nat /\ v1 \in Nat /\ r1 \in Nat /\ n1 \in Nat
            /\ v0 + r0 + n0 = v1 + r1 + n1 /\ v0 <= v1 /\ r1 <= r0 /\ n1 <= n0
        BY <1>12, <1>13, <3>1
      <3> HIDE DEF v0, r0, n0, v1, r1, n1
      <3>3. /\ r0 - r1 \in Nat /\ n0 - n1 \in Nat /\ r0 = r1 + (r0 - r1)
            /\ n0 = n1 + (n0 - n1) /\ v1 = v0 + (r0 - r1) + (n0 - n1)
        BY <3>2
      <3> QED BY <3>2, <3>3 DEF v0, r0, n0, v1, r1, n1
    <2> HIDE DEF b, c
    <2>2. /\ Pass(z, l, s.vram + b + c, t.ram, t.nvme, b1, b2, b3) \in Nat
          /\ Pass(z, l, s.vram, t.ram + b, t.nvme + c, b1, b2, b3) \in Nat
          /\ Pass(z, l, s.vram + b + c, t.ram, t.nvme, b1, b2, b3)
               <= Pass(z, l, s.vram, t.ram + b, t.nvme + c, b1, b2, b3) + 40
      BY <1>4, <1>10, <2>1, MovingUp
    <2>3. p \in Nat /\ q \in Nat /\ q <= p + 40
      BY <2>1, <2>2
    <2>4. s.latency = H!Greater(1000, H!Greater(p, k)) /\ t.latency = H!Greater(1000, H!Greater(q, k))
      BY <1>7, <1>8
    <2> HIDE DEF p, q
    <2> QED BY <1>4, <2>3, <2>4 DEF H!Greater
  <1>15. s.vram * s.per + s.fixed > hw.vram => s.usable = H!GB \div 10
    BY <1>1, <1>3, <1>4, <1>7, <1>9, <1>11
  <1>16. s.ram * s.per + hw.os <= H!Greater(hw.ram, hw.os + H!GB \div 2)
    <2>1. s.ram * per + hw.os <= host + hw.os
      BY <1>1, <1>9, <1>11
    <2> DEFINE g == H!Greater(hw.ram, hw.os + 2560)
               u == s.ram * per
    <2>2. g \in Nat
      BY <1>1 DEF H!Greater
    <2>3. u \in Nat /\ u + hw.os <= host + hw.os /\ host + hw.os <= g /\ host \in Nat
      BY <1>9, <1>11, <2>1
    <2> HIDE DEF g, u
    <2>4. u + hw.os <= g
      BY <1>1, <2>2, <2>3
    <2> QED BY <1>3, <1>7, <2>4 DEF g, u
  <1>17. {s.vram, s.ram, s.nvme} \subseteq 0..l
    BY <1>11
  <1>18. /\ s.ram + s.nvme > 0 => (s.vram + 1) * s.per > s.usable
         /\ s.nvme > 0 => (s.ram + 1) * s.per > s.host
    BY <1>7, <1>11
  <1>19. H!Placed(spec, hw, s, t)
    BY <1>11, <1>13, <1>14, <1>15, <1>16, <1>17, <1>18 DEF H!Placed, l
  <1> QED BY <1>19 DEF s, t, up

(* Any model on such a host is placed, or has no weights and raises        *)
(* (Hardware.tla: Sound).                                                  *)
THEOREM LayersPlaced ==
  ASSUME NEW spec, Sizeable(spec), NEW hw, Host(hw), NEW bits \in Nat, NEW ctx \in Nat
  PROVE  H!Sound(spec, hw, bits, H!Simulate(spec, hw, bits, ctx),
                 H!Simulate(spec, [hw EXCEPT !.vram = @ + H!GB], bits, ctx))
  <1> DEFINE s == H!Simulate(spec, hw, bits, ctx)
             t == H!Simulate(spec, [hw EXCEPT !.vram = @ + H!GB], bits, ctx)
  <1>1. CASE spec.params * bits # 0
    <2>1. /\ s = H!Place(spec, hw, bits, ctx)
          /\ t = H!Place(spec, [hw EXCEPT !.vram = @ + H!GB], bits, ctx)
      BY <1>1, Zenon DEF H!Simulate
    <2> HIDE DEF s, t
    <2>2. H!Placed(spec, hw, s, t)
      BY <2>1, WeightsPlaced, Zenon
    <2>3. \A host : H!Place(spec, host, bits, ctx).raised = FALSE
      BY SMTT(40) DEF H!Place
    <2>4. s.raised = FALSE /\ t.raised = FALSE
      BY <2>1, <2>3, Zenon
    <2>5. H!Sound(spec, hw, bits, s, t)
      BY <2>2, <2>4, Zenon DEF H!Sound
    <2> QED BY <2>5, Zenon DEF s, t
  <1>2. CASE spec.params * bits = 0
    <2>1. s.raised
      BY <1>2 DEF H!Simulate
    <2>2. spec.params = 0 \/ bits = 0
      BY <1>2 DEF Sizeable
    <2> HIDE DEF s, t
    <2>3. H!Sound(spec, hw, bits, s, t)
      BY <2>1, <2>2, Zenon DEF H!Sound
    <2> QED BY <2>3, Zenon DEF s, t
  <1> QED BY <1>1, <1>2

-----------------------------------------------------------------------------
(* The inputs of MCDesk are such machines, models and hosts.               *)
LEMMA DisksListed ==
  \A disks \in Disks : disks \in Seq(Volumes({"c", "d", "e"})) /\ Len(disks) <= 3
  <1> DEFINE vs == Volumes({"c", "d", "e"})
             a1 == Disk(1, 100 * H!GB, TRUE, "c")
             b1 == Disk(1, 50 * H!GB + 60, TRUE, "c")
             b2 == Disk(2, 50 * H!GB + 250, TRUE, "d")
             b3 == Disk(3, 0, FALSE, "e")
             c1 == Disk(1, 20 * H!GB, TRUE, "c")
             c2 == Disk(2, 400 * H!GB, TRUE, "c")
             c3 == Disk(3, 60 * H!GB, TRUE, "d")
             d1 == Disk(1, 0, FALSE, "c")
             e2 == Disk(2, 770, TRUE, "d")
  <1>1. /\ a1 \in vs /\ b1 \in vs /\ b2 \in vs /\ b3 \in vs
        /\ c1 \in vs /\ c2 \in vs /\ c3 \in vs /\ d1 \in vs /\ e2 \in vs
    BY DEF Disk, Volumes, H!GB
  <1> HIDE DEF a1, b1, b2, b3, c1, c2, c3, d1, e2, vs
  <1>2. ASSUME NEW disks \in Disks PROVE disks \in Seq(vs) /\ Len(disks) <= 3
    <2>1. \/ disks = <<a1>>
          \/ disks = <<b1, b2, b3>>
          \/ disks = <<c1, c2, c3>>
          \/ disks = <<d1, e2>>
          \/ disks = <<d1>>
      BY ZenonT(40) DEF Disks, a1, b1, b2, b3, c1, c2, c3, d1, e2
    <2>2. \A u \in vs : <<u>> \in Seq(vs) /\ Len(<<u>>) <= 3
      OBVIOUS
    <2>3. \A u, v \in vs : <<u, v>> \in Seq(vs) /\ Len(<<u, v>>) <= 3
      OBVIOUS
    <2>4. \A u, v, w \in vs : <<u, v, w>> \in Seq(vs) /\ Len(<<u, v, w>>) <= 3
      OBVIOUS
    <2> QED BY <1>1, <2>1, <2>2, <2>3, <2>4, Zenon
  <1> QED BY <1>2 DEF vs

LEMMA DisksScanned == \A disks \in Disks : Scanned(disks)
  <1>1. ASSUME NEW disks \in Disks PROVE Cardinality(H!Kept(disks)) <= 3
    <2> DEFINE k == Len(disks)
    <2>1. k \in 0..3 /\ H!Kept(disks) \subseteq 1..k
      <3>1. disks \in Seq(Volumes({"c", "d", "e"})) /\ k <= 3
        BY DisksListed
      <3>2. H!Kept(disks) \subseteq DOMAIN disks
        BY Zenon DEF H!Kept
      <3>3. \A s : disks \in Seq(s) => k \in Nat /\ DOMAIN disks = 1..k
        OBVIOUS
      <3>4. k \in 0..3 /\ DOMAIN disks = 1..k
        <4>1. k \in Nat /\ DOMAIN disks = 1..k
          BY <3>1, <3>3, Zenon
        <4> HIDE DEF k
        <4> QED BY <3>1, <4>1
      <3> QED BY <3>2, <3>4
    <2> HIDE DEF k
    <2>2. 1 \in Int /\ k \in Int
      BY <2>1
    <2>3. IsFiniteSet(1..k) /\ Cardinality(1..k) = IF 1 > k THEN 0 ELSE k - 1 + 1
      BY <2>2, FS_Interval
    <2>4. /\ IsFiniteSet(H!Kept(disks)) /\ Cardinality(H!Kept(disks)) <= Cardinality(1..k)
      BY <2>1, <2>3, FS_Subset
    <2>5. Cardinality(H!Kept(disks)) \in Nat
      BY <2>4, FS_CardinalityType
    <2> QED BY <2>1, <2>3, <2>4, <2>5
  <1> QED BY <1>1, DisksListed DEF Scanned

LEMMA MachinesTyped == \A m \in Machines : Machine(m)
  <1>1. Cards \subseteq Nat /\ {4 * H!GB, 16 * H!GB, 64 * H!GB} \subseteq Nat
    BY DEF Cards, H!GB
  <1>2. Disks \subseteq Seq(Volumes({"c", "d", "e"}))
    BY DisksListed
  <1>3. ASSUME NEW m \in Machines PROVE Machine(m)
    <2>1. m.disks \in Disks
      BY Zenon DEF Machines
    <2>2. Cardinality(H!Kept(m.disks)) <= 3
      BY <2>1, DisksScanned DEF Scanned
    <2>3. m \in [nvml : {"absent", "raises", "works"}, smi : BOOLEAN, torch : BOOLEAN,
                 vram : Nat, ram : Nat, disks : Seq(Volumes({"c", "d", "e"}))]
      BY <1>1, <1>2 DEF Machines
    <2> QED BY <2>2, <2>3 DEF Machine
  <1> QED BY <1>3

LEMMA ModelsSizeable ==
  ASSUME NEW ref, ref.names \subseteq 1..11, ref.experts \in Int, ref.size \in Int,
         ref.experts >= 0 => ref.size >= 0
  PROVE  Sizeable(H!Resolve(ref))
  <1>1. ASSUME NEW p \in Nat, NEW a \in Nat, NEW n \in Nat
        PROVE  Sizeable([H!Model(p, a, 32, 4096, 32, 8, 2, n) EXCEPT !.moe = TRUE])
    <2> DEFINE m == [H!Model(p, a, 32, 4096, 32, 8, 2, n) EXCEPT !.moe = TRUE]
    <2>1. /\ m.params = p /\ m.active = a /\ m.layers = 32 /\ m.width = 4096 /\ m.heads = 32
          /\ m.kv = 8 /\ m.activeExperts = 2 /\ m.experts = n
      BY SMTT(40) DEF H!Model
    <2> HIDE DEF m
    <2>2. Sizeable(m)
      BY <2>1 DEF Sizeable
    <2> QED BY <2>2 DEF m
  <1>2. ASSUME NEW p \in Nat, NEW l \in Nat \ {0}, NEW w \in Nat, NEW h \in Nat
        PROVE  Sizeable(H!Dense(p, l, w, h, 8))
    <2> DEFINE m == H!Dense(p, l, w, h, 8)
    <2>1. /\ m.params = p /\ m.active = p /\ m.layers = l /\ m.width = w /\ m.heads = h
          /\ m.kv = 8
      BY Zenon DEF H!Model, H!Dense
    <2>2. m.moe <=> 1 > 1
      BY Zenon DEF H!Model, H!Dense
    <2> HIDE DEF m
    <2>3. Sizeable(m)
      BY <2>1, <2>2 DEF Sizeable
    <2> QED BY <2>3 DEF m
  <1>3. \A i \in 1..11 : Sizeable(H!KnownModels[i])
    BY SMTT(60) DEF H!KnownModels, H!Dense, H!Model, Sizeable
  <1>4. CASE ref.names # {}
    <2> DEFINE i == CHOOSE i \in ref.names : \A j \in ref.names : i <= j
    <2>1. \E j \in ref.names : \A k \in ref.names : j <= k
      <3>1. ref.names \subseteq Nat
        OBVIOUS
      <3> QED BY <1>4, <3>1, Least
    <2>2. i \in 1..11
      BY <2>1
    <2>3. H!Resolve(ref) = H!KnownModels[i]
      BY <1>4 DEF H!Resolve
    <2> HIDE DEF i
    <2> QED BY <1>3, <2>2, <2>3
  <1>5. CASE ref.names = {} /\ ref.experts >= 0
    <2> DEFINE x == ref.experts * ref.size
               p == 10 * ((H!Percent(82, x) + 5) \div 10)
               a == 2 * ref.size
               n == ref.experts
    <2>1. ref.experts \in Nat /\ ref.size \in Nat
      BY <1>5
    <2>2. x \in Nat /\ a \in Nat /\ n \in Nat
      BY <2>1
    <2>3. H!Resolve(ref) = [H!Model(p, a, 32, 4096, 32, 8, 2, n) EXCEPT !.moe = TRUE]
      BY <1>5, Zenon DEF H!Resolve, H!Custom
    <2> HIDE DEF x, a, n
    <2>4. H!Percent(82, x) \in Nat
      BY <2>2 DEF H!Percent
    <2>5. p \in Nat
      BY <2>4
    <2> HIDE DEF p
    <2> QED BY <1>1, <2>2, <2>3, <2>5
  <1>6. CASE ref.names = {} /\ ~ (ref.experts >= 0) /\ ref.size >= 0
    <2> DEFINE p == ref.size
               l == IF p >= 6000 THEN 80 ELSE IF p >= 3000 THEN 64 ELSE IF p >= 1200 THEN 48
                    ELSE IF p >= 600 THEN 32 ELSE 24
               w == IF p >= 6000 THEN 8192 ELSE IF p >= 3000 THEN 5120 ELSE 4096
    <2>1. H!Resolve(ref) = H!Dense(p, l, w, H!Greater(8, w \div 128), 8)
      BY <1>6 DEF H!Resolve, H!Generic
    <2>2. l \in Nat \ {0} /\ w \in Nat
      OBVIOUS
    <2> HIDE DEF l, w
    <2>3. H!Greater(8, w \div 128) \in Nat
      BY <2>2 DEF H!Greater
    <2>4. p \in Nat
      BY <1>6
    <2> HIDE DEF p
    <2> QED BY <1>2, <2>1, <2>2, <2>3, <2>4
  <1>7. CASE ref.names = {} /\ ~ (ref.experts >= 0) /\ ~ (ref.size >= 0)
    <2>1. H!Resolve(ref) = H!KnownModels[8] /\ 8 \in 1..11
      BY <1>7 DEF H!Resolve
    <2> QED BY <1>3, <2>1
  <1> QED BY <1>4, <1>5, <1>6, <1>7

LEMMA PresetsAreHosts == \A i \in 1..6 : Host(H!Presets[i])
  BY DEF H!Presets, H!Preset, H!GB, Host

LEMMA InputsProfiled ==
  ASSUME NEW i \in Inputs
  PROVE  IF "m" \in DOMAIN i THEN H!HardwareHonest(i.m)
         ELSE H!PlacementSound(i.ref, H!Presets[i.hw], i.bits, i.ctx)
  <1>1. CASE i \in [m : Machines]
    <2>1. "m" \in DOMAIN i /\ i.m \in Machines
      BY <1>1
    <2> QED BY <2>1, MachinesTyped, ProfilesHonest
  <1>2. CASE i \in [ref : ModelRefs, hw : 1..6, bits : {45, 85, 160}, ctx : {4096, 32768}]
    <2>1. /\ "m" \notin DOMAIN i /\ i.ref \in ModelRefs /\ i.hw \in 1..6
          /\ i.bits \in Nat /\ i.ctx \in Nat
      BY <1>2
    <2>2. \A ref \in ModelRefs :
            /\ ref.names \subseteq 1..11 /\ ref.experts \in Int /\ ref.size \in Int
            /\ ref.experts >= 0 => ref.size >= 0
      BY DEF ModelRefs, Ref
    <2>3. Sizeable(H!Resolve(i.ref)) /\ Host(H!Presets[i.hw])
      BY <2>1, <2>2, ModelsSizeable, PresetsAreHosts
    <2>4. H!PlacementSound(i.ref, H!Presets[i.hw], i.bits, i.ctx)
      BY <2>1, <2>3, LayersPlaced, Zenon DEF H!PlacementSound
    <2> QED BY <2>1, <2>4
  <1> QED BY <1>1, <1>2 DEF Inputs

(* In every behaviour the profile of the machine is honest and the layers  *)
(* of the model are placed soundly (MCDesk.tla: MachineProfiled).          *)
THEOREM MachinesProfiled == MCSpec => []MachineProfiled
  <1> DEFINE Inv == part = "hardware" => input \in Inputs
  <1>1. MCInit => Inv
    BY DEF MCInit
  <1>2. Inv /\ [MCNext]_<<vars, others>> => Inv'
    <2> SUFFICES ASSUME Inv, [MCNext]_<<vars, others>> PROVE Inv'
      OBVIOUS
    <2>1. part' = part /\ input' = input
      BY DEF MCNext, others
    <2> QED BY <2>1
  <1>3. Inv => MachineProfiled
    BY InputsProfiled DEF MachineProfiled
  <1> HIDE DEF Inv
  <1> QED BY <1>1, <1>2, <1>3, PTL DEF MCSpec
=============================================================================
