------------------------------- MODULE TuiInput -------------------------------
(***************************************************************************)
(* python/phantom/phantom_tui.py: from a key to what it does.  The composer*)
(* with its cursor, the history of what was submitted, the menu of slash   *)
(* commands, the dialogs and the leader key.  Chat turns, shell commands   *)
(* and installs are the subject of TuiSession; they run inside the handler *)
(* of a key, so no key is handled during one and the branches for keys     *)
(* pressed while generating are never taken.  Only the external editor can *)
(* put a line break into the composer: texts of several lines are left out.*)
(***************************************************************************)
EXTENDS Integers, Sequences, FiniteSets, SequencesExt

CONSTANTS Letters,   (* of names, besides "/", " " and "@"                 *)
          Commands,  (* COMMANDS: a sequence of [name, also, does]; no name*)
                     (* is the beginning of another                        *)
          Files,     (* names of the project's files, as sequences         *)
          Written,   (* texts an external editor returns                   *)
          MaxText,   (* bound: characters in the composer                  *)
          MaxKeys    (* bound: keys pressed                                *)

Space == " "
Does == {"args", "form", "pick", "editor", "exit"}
Chars == Letters \cup {"/", Space, "@"}
InputAssumption ==
  /\ Letters \cap {"/", Space, "@"} = {} /\ Space \notin {"/", "@"} /\ MaxKeys \in Nat
  /\ Commands \in Seq([name : Seq(Letters) \ {<<>>}, also : SUBSET Seq(Letters), does : Does])
  /\ IsFiniteSet(Files) /\ Files \cup Written \subseteq Seq(Chars)

VARIABLES buffer,      (* [text, pos]: the cursor is after text[pos]       *)
          history, at, (* at: history_idx, 0 for none                      *)
          token, idx,  (* slash_token, slash_idx                           *)
          dialog, pending, (* pending: the form _pending_input_target is of*)
          leader,
          mode,        (* "on" or "off"                                    *)
          keys,
          stale,       (* history: the text changed without a look at the  *)
                       (* menu                                             *)
          last         (* history: what the last key made of the menu and  *)
                       (* of the file picker                               *)

menu == <<token, idx>>
vars == <<buffer, history, at, menu, dialog, pending, leader, mode, keys, stale, last>>

NoDialog == [kind |-> "none", items |-> <<>>, filter |-> <<>>, selected |-> 0, form |-> "none"]
Opened(kind, items) == [NoDialog EXCEPT !.kind = kind, !.items = items]
Form(f) == [NoDialog EXCEPT !.kind = "input", !.form = f]
Nothing == [shown |-> 0, ran |-> 0, exact |-> FALSE, stale |-> FALSE,
            picked |-> <<>>]

TypeOK ==
  /\ buffer.text \in Seq(Chars)
  /\ buffer.pos \in 0..Len(buffer.text)
  /\ at \in 0..Len(history) /\ idx \in Nat
  /\ dialog.kind \in {"none", "palette", "files", "pick", "input"}
  /\ {pending, dialog.form} \subseteq {"none", "init", "connect"}
  /\ {leader, stale} \subseteq BOOLEAN /\ mode \in {"on", "off"} /\ keys \in 0..MaxKeys

Init ==
  /\ buffer = [text |-> <<>>, pos |-> 0] /\ history = <<>> /\ at = 0
  /\ token = <<>> /\ idx = 0 /\ dialog = NoDialog /\ pending = "none"
  /\ leader = FALSE /\ mode = "on" /\ keys = 0 /\ stale = FALSE /\ last = Nothing

-----------------------------------------------------------------------------
(* PromptBuffer                                                            *)
Whole(t) == [text |-> t, pos |-> Len(t)]  (* set_text                      *)
Cut(t, a, b) == SubSeq(t, 1, a) \o SubSeq(t, b + 1, Len(t))
Insert(b, s) ==
  [text |-> SubSeq(b.text, 1, b.pos) \o s \o SubSeq(b.text, b.pos + 1, Len(b.text)),
   pos |-> b.pos + Len(s)]

Blank(t, a, b) == \A i \in (a + 1)..b : t[i] = Space
Solid(t, a, b) == \A i \in (a + 1)..b : t[i] # Space
WordBackward(t, p) ==
  CHOOSE q \in 0..p : \E s \in q..p :
    /\ Blank(t, s, p) /\ (s = 0 \/ t[s] # Space)
    /\ Solid(t, q, s) /\ (q = 0 \/ t[q] = Space)
WordForward(t, p) ==
  CHOOSE q \in p..Len(t) : \E s \in p..q :
    /\ Blank(t, p, s) /\ (s = Len(t) \/ t[s + 1] # Space)
    /\ Solid(t, s, q) /\ (q = Len(t) \/ t[q + 1] = Space)
Backspace(b) ==
  IF b.pos = 0 THEN b ELSE [text |-> Cut(b.text, b.pos - 1, b.pos), pos |-> b.pos - 1]
Transpose(t, p) ==
  LET q == IF p = Len(t) THEN p - 1 ELSE p
  IN  IF Len(t) < 2 \/ p = 0 THEN [text |-> t, pos |-> p]
      ELSE [text |-> [t EXCEPT ![q] = t[q + 1], ![q + 1] = t[q]], pos |-> q + 1]

(* Ctrl-A/E/B/F, the arrows, Home, End and the moves by words.             *)
Moves(t, p) ==
  {0, Len(t), WordBackward(t, p), WordForward(t, p)}
    \cup {q \in {p - 1, p + 1} : q \in 0..Len(t)}
(* Delete, Ctrl-K/U/W/T, Alt-D.                                            *)
Edits(t, p) ==
  {[text |-> Cut(t, p, p + 1), pos |-> p], [text |-> Cut(t, p, Len(t)), pos |-> p],
   [text |-> Cut(t, 0, p), pos |-> 0],
   [text |-> Cut(t, WordBackward(t, p), p), pos |-> WordBackward(t, p)],
   [text |-> Cut(t, p, WordForward(t, p)), pos |-> p], Transpose(t, p)}

Starts(t, s) == IsPrefix(s, t)
Until(t, ch) ==
  IF \E i \in DOMAIN t : t[i] = ch
  THEN SubSeq(t, 1, (CHOOSE i \in DOMAIN t : t[i] = ch /\ \A j \in 1..(i - 1) : t[j] # ch) - 1)
  ELSE t
Strip(t) ==
  LET solid == {i \in DOMAIN t : t[i] # Space}
  IN  IF solid = {} THEN <<>>
      ELSE SubSeq(t, CHOOSE i \in solid : \A j \in solid : i <= j,
                     CHOOSE i \in solid : \A j \in solid : i >= j)
Slash(c) == <<"/">> \o Commands[c].name

-----------------------------------------------------------------------------
(* The menu: the commands that a token begins, by name or alias, in the    *)
(* order of the table.                                                     *)
Candidates(s) == {c \in DOMAIN Commands :
                    \E n \in {Commands[c].name} \cup Commands[c].also : Starts(n, s)}
Nth(S, k) == CHOOSE i \in S : Cardinality({j \in S : j < i}) = k  (* from 0 *)
Bare(t) == Starts(t, <<"/">>) /\ \A i \in DOMAIN t : t[i] # Space
(* _slash_matches of the composer, and of a text that is submitted.        *)
Matches == IF Bare(buffer.text)
           THEN Candidates(IF buffer.text = <<"/">> THEN <<>> ELSE token) ELSE {}
MatchesOf(t) == IF Bare(t) THEN Candidates(Tail(t)) ELSE {}
Active == Matches # {}
Highlighted == IF idx < Cardinality(Matches) THEN Nth(Matches, idx) ELSE 0

Clamp_Fault(t) ==  (* the highlight stays where it was                     *)
  /\ token' = IF Bare(t) THEN Tail(t) ELSE <<>>
  /\ idx' = idx
Clamp(t) ==
  /\ token' = IF Bare(t) THEN Tail(t) ELSE <<>>
  /\ idx' = IF idx < Cardinality(MatchesOf(t)) THEN idx ELSE 0

Exact(s) == {c \in DOMAIN Commands : s \in {Commands[c].name} \cup Commands[c].also}

(* _run_command_text: the command the text names, or the one highlighted   *)
(* among those that it begins; 0 sends the text to the model.              *)
Named(t) ==
  LET word == Until(t, Space)
      found == UNION {Exact(SubSeq(word, i + 1, Len(word))) :
                      i \in {k \in DOMAIN word : \A j \in 1..k : word[j] = "/"}}
      m == MatchesOf(t)
  IN  IF found # {} THEN [cmd |-> CHOOSE c \in found : TRUE, exact |-> TRUE]
      ELSE [cmd |-> IF m = {} THEN 0 ELSE Nth(m, idx % Cardinality(m)), exact |-> FALSE]

(* _execute_command, and what the commands do to dialogs.                  *)
OpenForm(f) == dialog' = Form(f) /\ pending' = f
PickList == <<<<"hf">>, <<"ollama">>>>
Execute(c) ==
  LET does == Commands[c].does IN
  /\ mode' = IF does = "exit" THEN "off" ELSE mode
  /\ IF does = "form" THEN OpenForm("init")
     ELSE /\ dialog' = IF does = "pick" THEN Opened("pick", PickList) ELSE NoDialog
          /\ UNCHANGED pending

-----------------------------------------------------------------------------
(* _cmd_editor: what the editor returns, unless it is empty or no editor.  *)
Composed == buffer' \in {buffer} \cup {Whole(w) : w \in Written}

Press == mode = "on" /\ keys < MaxKeys /\ keys' = keys + 1
Free == Press /\ dialog.kind = "none" /\ ~leader
Forget == last' = Nothing

FilePicker == Opened("files", SetToSeq(Files))  (* nothing follows the @ *)

Type(ch) ==
  LET b == Insert(buffer, <<ch>>) IN
  /\ Free /\ Len(buffer.text) < MaxText
  /\ buffer' = b /\ at' = 0 /\ Clamp(b.text) /\ stale' = FALSE
  /\ dialog' = IF ch = "@" THEN FilePicker ELSE dialog
  /\ Forget /\ UNCHANGED <<history, pending, leader, mode>>

Erase ==
  /\ Free /\ buffer' = Backspace(buffer) /\ Clamp(buffer'.text) /\ stale' = FALSE
  /\ Forget /\ UNCHANGED <<history, at, dialog, pending, leader, mode>>

Move ==
  /\ Free /\ \E p \in Moves(buffer.text, buffer.pos) : buffer' = [buffer EXCEPT !.pos = p]
  /\ Forget /\ UNCHANGED <<history, at, menu, dialog, pending, leader, mode, stale>>

Edit ==
  /\ Free /\ buffer' \in Edits(buffer.text, buffer.pos) /\ stale' = TRUE
  /\ Forget /\ UNCHANGED <<history, at, menu, dialog, pending, leader, mode>>

Cycle(d) ==
  LET i == (idx + d) % Cardinality(Matches)
  IN  idx' = i /\ buffer' = Whole(Slash(Nth(Matches, i))) /\ UNCHANGED token

(* The arrows browse the history, or the menu while it is shown.           *)
Up ==
  /\ Free /\ Forget
  /\ \/ Active /\ Cycle(-1) /\ UNCHANGED <<at, stale>>
     \/ /\ ~Active /\ buffer.text # <<>> /\ history # <<>> /\ UNCHANGED menu
        /\ at' = IF at = 0 THEN Len(history) ELSE IF at > 1 THEN at - 1 ELSE at
        /\ buffer' = Whole(history[at']) /\ stale' = TRUE
  /\ UNCHANGED <<history, dialog, pending, leader, mode>>
Down ==
  /\ Free /\ Forget
  /\ \/ Active /\ Cycle(1) /\ UNCHANGED <<at, stale>>
     \/ /\ ~Active /\ buffer.text # <<>> /\ at # 0 /\ UNCHANGED menu
        /\ at' = IF at < Len(history) THEN at + 1 ELSE 0
        /\ buffer' = Whole(IF at' = 0 THEN <<>> ELSE history[at']) /\ stale' = TRUE
  /\ UNCHANGED <<history, dialog, pending, leader, mode>>

(* _on_tab outside the menu: completes a command, or opens a dialog.       *)
Completes ==
  LET s == Strip(buffer.text)
      found == {c \in DOMAIN Commands : Starts(Commands[c].name, Tail(s))}
      n == Cardinality(found)
  IN  IF Starts(s, <<"/">>) /\ Len(s) > 1 /\ found # {}
      THEN /\ buffer' = IF n = 1 THEN Whole(Slash(Nth(found, 0)) \o <<Space>>) ELSE buffer
           /\ dialog' = IF n = 1 THEN dialog
                        ELSE Opened("palette", [i \in 1..n |-> Slash(Nth(found, i - 1))])
      ELSE /\ dialog' = IF s # <<>> /\ s[Len(s)] = "@" THEN FilePicker ELSE dialog
           /\ UNCHANGED buffer
Tab ==
  /\ Free /\ Forget
  /\ \/ /\ Active /\ UNCHANGED dialog
        /\ IF Highlighted # 0 /\ Slash(Highlighted) = buffer.text THEN Cycle(1)
           ELSE idx' = 0 /\ buffer' = Whole(Slash(Nth(Matches, 0))) /\ UNCHANGED token
     \/ ~Active /\ Completes /\ UNCHANGED menu
  /\ UNCHANGED <<history, at, pending, leader, mode, stale>>

(* Enter submits, and then empties the composer: the text a command that   *)
(* still needs its argument has just put there is gone again.              *)
Enter ==
  LET t == Strip(buffer.text)
      n == Named(t)
  IN
  /\ Free
  /\ history' = IF t = <<>> THEN history ELSE Append(history, t)
  /\ IF Starts(t, <<"/">>) /\ n.cmd # 0
     THEN /\ Execute(n.cmd)
          /\ last' = [Nothing EXCEPT !.shown = Highlighted, !.ran = n.cmd, !.exact = n.exact,
                                         !.stale = stale]
     ELSE Forget /\ UNCHANGED <<dialog, pending, mode>>
  /\ buffer' = Whole(<<>>) /\ at' = 0 /\ idx' = 0 /\ stale' = FALSE
  /\ UNCHANGED <<token, leader>>

(* Ctrl-C (unless it cancels an install) and Esc clear the composer, or    *)
(* leave; Ctrl-D leaves.                                                   *)
Clear ==
  /\ Free /\ buffer.text # <<>> /\ buffer' = Whole(<<>>) /\ at' \in {0, at}
  /\ Forget /\ UNCHANGED <<history, menu, dialog, pending, leader, mode, stale>>
Leave ==
  /\ Free /\ mode' = "off" /\ Forget
  /\ UNCHANGED <<buffer, history, at, menu, dialog, pending, leader, stale>>

Palette ==
  /\ Free /\ dialog' = Opened("palette", [c \in DOMAIN Commands |-> Slash(c)])
  /\ Forget /\ UNCHANGED <<buffer, history, at, menu, pending, leader, mode, stale>>

LeaderDown ==
  /\ Free /\ leader' = TRUE
  /\ Forget /\ UNCHANGED <<buffer, history, at, menu, dialog, pending, mode, stale>>
(* The key after it, or none within two seconds.                           *)
LeaderKey ==
  /\ Press /\ leader /\ dialog.kind = "none" /\ leader' = FALSE
  /\ \/ mode' = "off" /\ UNCHANGED <<buffer, dialog, pending>>
     \/ OpenForm("init") /\ UNCHANGED <<buffer, mode>>
     \/ dialog' = Opened("pick", PickList) /\ UNCHANGED <<buffer, pending, mode>>
     \/ Composed /\ UNCHANGED <<dialog, pending, mode>>
  /\ stale' = (stale \/ buffer' # buffer)
  /\ Forget /\ UNCHANGED <<history, at, menu>>

-----------------------------------------------------------------------------
(* Dialogs take every key, Ctrl-C and Ctrl-D too.                          *)
Includes(t, s) == \E i \in 0..(Len(t) - Len(s)) : SubSeq(t, i + 1, i + Len(s)) = s
Filtered == {i \in DOMAIN dialog.items : Includes(dialog.items[i], dialog.filter)}
Listing == dialog.kind \in {"palette", "files", "pick"}

Filter_Fault ==  (* the selection stays where it was                       *)
  /\ Press /\ Listing
  /\ \/ \E ch \in Letters : dialog' = [dialog EXCEPT !.filter = Append(@, ch)]
     \/ dialog.filter # <<>> /\ dialog' = [dialog EXCEPT !.filter = Front(@)]
  /\ Forget /\ UNCHANGED <<buffer, history, at, menu, pending, leader, mode, stale>>
Filter ==
  /\ Press /\ Listing
  /\ \/ \E ch \in Letters : dialog' = [dialog EXCEPT !.filter = Append(@, ch), !.selected = 0]
     \/ /\ dialog.filter # <<>>
        /\ dialog' = [dialog EXCEPT !.filter = Front(@), !.selected = 0]
  /\ Forget /\ UNCHANGED <<buffer, history, at, menu, pending, leader, mode, stale>>

(* Arrows turn round, Page Up/Down go by twelve, Home and End to the ends. *)
Select ==
  LET n == Cardinality(Filtered)
      s == dialog.selected
      within(k) == IF n = 0 \/ k < 0 THEN 0 ELSE IF k < n THEN k ELSE n - 1
      turned == IF n = 0 THEN {s} ELSE {(s - 1) % n, (s + 1) % n}
  IN
  /\ Press /\ Listing
  /\ \E k \in turned \cup {0, within(n - 1), within(s - 12), within(s + 12)} :
       dialog' = [dialog EXCEPT !.selected = k]
  /\ Forget /\ UNCHANGED <<buffer, history, at, menu, pending, leader, mode, stale>>

Close ==
  /\ Press /\ dialog.kind # "none" /\ dialog' = NoDialog
  /\ Forget /\ UNCHANGED <<buffer, history, at, menu, pending, leader, mode, stale>>

(* _insert_file_ref puts the reference in the place of the @ token before   *)
(* the cursor, or of the whole text, if the picker is still open.          *)
InsertFileRef(open, b, file) ==
  LET ats == {i \in 1..b.pos : /\ b.text[i] = "@"
                               /\ \A j \in (i + 1)..b.pos : b.text[j] \notin {"@", Space}}
      from == (CHOOSE i \in ats : TRUE) - 1
      rest == SubSeq(b.text, b.pos + 1, Len(b.text))
      ref == <<"@">> \o file \o <<Space>>
  IN  IF open.kind # "files" THEN b
      ELSE IF ats = {} THEN Whole(ref) ELSE Whole(SubSeq(b.text, 1, from) \o ref \o rest)

(* _dialog_select closes the dialog, then acts on the item.                *)
Choose ==
  LET item == dialog.items[Nth(Filtered, dialog.selected)]
      cmd == CHOOSE c \in DOMAIN Commands : Slash(c) = item
  IN
  /\ Press /\ Listing /\ dialog.selected < Cardinality(Filtered)
  /\ CASE dialog.kind = "palette" ->
            /\ CASE Commands[cmd].does = "args" -> buffer' = Whole(item \o <<Space>>)
                 [] Commands[cmd].does = "editor" -> Composed
                 [] OTHER -> UNCHANGED buffer
            /\ Execute(cmd) /\ Forget
       [] dialog.kind = "files" ->
            /\ dialog' = NoDialog /\ buffer' = InsertFileRef(dialog', buffer, item)
            /\ last' = [Nothing EXCEPT !.picked = item] /\ UNCHANGED <<pending, mode>>
       [] dialog.kind = "pick" ->
            /\ IF item = <<"hf">> THEN OpenForm("connect")
               ELSE dialog' = NoDialog /\ UNCHANGED pending
            /\ Forget /\ UNCHANGED <<buffer, mode>>
  /\ stale' = (stale \/ buffer' # buffer) /\ UNCHANGED <<history, at, menu, leader>>

(* _dialog_input_done: the answer goes to the pending target.              *)
Answer ==
  /\ Press /\ dialog.kind = "input" /\ dialog' = NoDialog /\ pending' = "none"
  /\ Forget /\ UNCHANGED <<buffer, history, at, menu, leader, mode, stale>>

Next ==
  \/ \E ch \in Chars : Type(ch)
  \/ Erase \/ Move \/ Edit \/ Up \/ Down \/ Tab \/ Enter
  \/ Clear \/ Leave \/ Palette \/ LeaderDown \/ LeaderKey
  \/ Filter \/ Select \/ Close \/ Choose \/ Answer

-----------------------------------------------------------------------------
(* Enter on the menu (_slash_matches, _clamp_slash_idx, _run_command_text, *)
(* three readings of the text) runs the command that is highlighted, as    *)
(* long as the text was only typed, erased or taken from the menu: the     *)
(* other edits and the history do not look at the menu.  A menu that is    *)
(* shown meanwhile has one of its commands highlighted.                    *)
MenuRunsHighlighted ==
  /\ last.shown # 0 /\ ~last.exact /\ ~last.stale => last.ran = last.shown
  /\ Active /\ ~stale => Highlighted # 0

(* Dialog.  Whatever is typed, erased and moved over, Enter in a list that *)
(* is not empty takes an item of it.                                       *)
PickerPointsAtItem == Listing /\ Filtered # {} => dialog.selected < Cardinality(Filtered)

(* _dialog_input_done.  The answer typed into a form goes to that form,    *)
(* also after forms that were closed unanswered.                           *)
AnswersOwnForm == dialog.kind = "input" => pending = dialog.form

(* phantom_tui.py:1235 "@file: Reference a file from the project".  After  *)
(* a file is picked, the composer refers to it.                            *)
PickedIsReferenced ==
  last.picked # <<>> => Includes(buffer.text, <<"@">> \o last.picked)
=============================================================================
