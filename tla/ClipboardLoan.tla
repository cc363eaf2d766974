---------------------------- MODULE ClipboardLoan ---------------------------
(* The hotkey that translates a selection borrows the clipboard:            *)
(* trigger_translate_selection (shotik-app/selection.rs).  It saves a text  *)
(* and a picture and gives back one of them.  Every press has a thread of   *)
(* its own, and nothing keeps two of them apart; every opening of the       *)
(* clipboard can fail, as another program may hold it.                      *)
EXTENDS Naturals

CONSTANTS
  Presses,
  Texts,
  None

VARIABLES
  clipboard,  (* what is on it: a text, a picture, and formats besides      *)
  asked,      (* synthetic copies the other program has not answered        *)
  at, text, saved,  (* of each press: its place, its text, what it saved    *)
  last_translated,
  users,      (* what the user last copied                                  *)
  amiss       (* a ghost: what has come between since                       *)

vars == <<clipboard, asked, at, text, saved, last_translated, users, amiss>>

(* Copied files, HTML and the like are `other`: there is nothing to read.   *)
Contents == [text : Texts \cup {None}, image : BOOLEAN, other : BOOLEAN]
Text(t) == [text |-> t, image |-> FALSE, other |-> FALSE]
Empty == Text(None)
Image == [text |-> None, image |-> TRUE, other |-> FALSE]
CopiedFiles == [text |-> None, image |-> FALSE, other |-> TRUE]
NothingRead == [text |-> None, image |-> FALSE]

(* A picture goes before a text, and nothing else is known. *)
GivesBack(s) == IF s.image THEN Image ELSE Text(s.text)

(* "overlap": two presses at a time, an answer that came too late, or a     *)
(* user who copied in between.  "unread": the reading of something that was *)
(* there failed.  "refused": the clipboard did not take what was saved.     *)
Mishaps == {"overlap", "unread", "refused"}

TypeOK ==
  /\ clipboard \in Contents /\ users \in Contents
  /\ saved \in [Presses -> [text : Texts \cup {None}, image : BOOLEAN]]
  /\ asked \in Nat /\ amiss \subseteq Mishaps
  /\ at \in [Presses -> {"new", "image", "clear", "copy", "wait", "restore", "translate", "done"}]
  /\ text \in [Presses -> Texts \cup {None}]
  /\ last_translated \in Texts \cup {None}
  /\ \A p \in Presses : at[p] = "translate" => text[p] # None

Init ==
  /\ clipboard \in Contents /\ users = clipboard /\ asked = 0 /\ amiss = {}
  /\ at = [p \in Presses |-> "new"] /\ text = [p \in Presses |-> None]
  /\ saved = [p \in Presses |-> NothingRead] /\ last_translated = None

Goto(p, place) == at' = [at EXCEPT ![p] = place]
Borrowing(p) == at[p] \in {"image", "clear", "copy", "wait", "restore"}
AnyBorrows == \E p \in Presses : Borrowing(p)
Notes(what, happened) == IF happened THEN amiss \cup {what} ELSE amiss

(* Two openings, one after the other; one that fails reads nothing, and the *)
(* hotkey goes on all the same (unwrap_or_default).                         *)
ReadText(p) ==
  /\ at[p] = "new" /\ Goto(p, "image")
  /\ \E read \in {clipboard.text, None} :
       /\ saved' = [saved EXCEPT ![p].text = read]
       /\ amiss' = Notes("overlap", asked > 0 \/ AnyBorrows)
                     \cup (IF read = clipboard.text THEN {} ELSE {"unread"})
  /\ UNCHANGED <<clipboard, asked, text, last_translated, users>>

ReadImage(p) ==
  /\ at[p] = "image" /\ Goto(p, "clear")
  /\ \E read \in {clipboard.image, FALSE} :
       /\ saved' = [saved EXCEPT ![p].image = read]
       /\ amiss' = Notes("unread", read # clipboard.image)
  /\ UNCHANGED <<clipboard, asked, text, last_translated, users>>

(* Nothing is given up when one of these fails. *)
ClearOld(p) ==
  /\ at[p] = "clear" /\ Goto(p, "copy")
  /\ clipboard' \in {Empty, clipboard}
  /\ UNCHANGED <<asked, text, saved, last_translated, users, amiss>>

SendCopy(p) ==
  /\ at[p] = "copy" /\ Goto(p, "wait")
  /\ asked' \in {asked, asked + 1}
  /\ UNCHANGED <<clipboard, text, saved, last_translated, users, amiss>>

(* The other program answers in its own time, or has nothing to answer; its *)
(* selection need not be a text.                                            *)
ProgramAnswers ==
  /\ asked > 0 /\ asked' = asked - 1
  /\ clipboard' \in {Text(t) : t \in Texts} \cup {Image, CopiedFiles, clipboard}
  /\ amiss' = Notes("overlap", ~\E p \in Presses : at[p] = "wait")
  /\ UNCHANGED <<at, text, saved, last_translated, users>>

(* Any text is the answer; there is none when 800 ms have not read one.     *)
Found(p) ==
  /\ at[p] = "wait" /\ Goto(p, "restore")
  /\ \E read \in {clipboard.text, None} : text' = [text EXCEPT ![p] = read]
  /\ UNCHANGED <<clipboard, asked, saved, last_translated, users, amiss>>

(* Restored whatever was found, and forgotten; a write that fails has       *)
(* emptied the clipboard, or not.  Only then is the text remembered, so     *)
(* that the bubble does not offer it again, and translated.                 *)
Restore(p) ==
  /\ at[p] = "restore"
  /\ \/ clipboard' = GivesBack(saved[p]) /\ UNCHANGED amiss
     \/ clipboard' \in {clipboard, Empty} /\ amiss' = amiss \cup {"refused"}
  /\ saved' = [saved EXCEPT ![p] = NothingRead]
  /\ IF text[p] = None THEN Goto(p, "done") /\ UNCHANGED last_translated
     ELSE Goto(p, "translate") /\ last_translated' = text[p]
  /\ UNCHANGED <<asked, text, users>>

UserCopies ==
  /\ \E c \in Contents \ {Empty, clipboard} : clipboard' = c /\ users' = c
  /\ amiss' = IF asked > 0 \/ AnyBorrows THEN {"overlap"} ELSE {}
  /\ UNCHANGED <<asked, at, text, saved, last_translated>>

Next ==
  \/ \E p \in Presses : ReadText(p) \/ ReadImage(p) \/ ClearOld(p) \/ SendCopy(p) \/ Found(p) \/ Restore(p)
  \/ ProgramAnswers \/ UserCopies

Spec == Init /\ [][Next]_vars

-----------------------------------------------------------------------------
(* Once no press borrows it, and none has come in another's way, there is   *)
(* nothing on the clipboard but what the user had copied, or the part of it *)
(* that could be read: never what the other program answered, unless the    *)
(* clipboard refuses to take the user's back.  When every reading and       *)
(* writing has succeeded the part is the picture, or else the text          *)
(* (selection.rs:16-48).                                                    *)
ClipboardComesBack ==
  "overlap" \notin amiss /\ ~AnyBorrows =>
    /\ "refused" \notin amiss => clipboard \in {users, Empty, Text(users.text), GivesBack(users)}
    /\ amiss = {} => clipboard \in {users, GivesBack(users)}
=============================================================================
