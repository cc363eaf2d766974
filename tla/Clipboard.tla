------------------------------ MODULE Clipboard ------------------------------
(* The clipboard as the program uses it (shotik-win/src/clipboard.rs): the  *)
(* threads that write a picture, a text or both, read a picture, or clear;  *)
(* another program that holds the clipboard or writes to it; and every call *)
(* of Windows that can fail.  Contents are numbers of the writing.          *)
EXTENDS Integers, Sequences

CONSTANTS
  Callers,  (* threads that use the port *)
  Budget,   (* with_open_budget, in ticks *)
  Longest,  (* the longest single wait, in ticks *)
  MaxOther  (* a bound: how often the other program takes the clipboard *)

(* None of these is a caller; the other program is one more owner. *)
Other == "other"
Nobody == "no one"

Jobs == {"picture", "text", "both", "read", "clear"}
Writing(j) == j \in {"picture", "text", "both"}

VARIABLES
  lock, contents,        (* who has it open; the formats on it, in order, each with its writing *)
  at, job, waited, wait, (* each caller: where it is, and how long it has waited *)
  items, blocks,         (* the formats it has still to hand over; memory it must free *)
  outcome, got,          (* how it ended, what it read *)
  others

(* The first wait is of one tick. *)
ClipboardAssumption == {Other, Nobody} \cap Callers = {} /\ Budget \in Nat /\ Longest \in Nat \ {0}

vars == <<lock, contents, at, job, waited, wait, items, blocks, outcome, got, others>>
waiting == <<waited, wait>>

Init ==
  /\ lock = Nobody
  /\ contents \in {<<>>, <<[format |-> "dib", by |-> Other]>>,
                   <<[format |-> "png", by |-> Other], [format |-> "dib", by |-> Other]>>}
  /\ at = [c \in Callers |-> "prepare"] /\ job \in [Callers -> Jobs]
  /\ waited = [c \in Callers |-> 0] /\ wait = [c \in Callers |-> 1]
  /\ items = [c \in Callers |-> <<>>] /\ blocks = [c \in Callers |-> 0]
  /\ outcome = [c \in Callers |-> "none"] /\ got = [c \in Callers |-> <<>>]
  /\ others = 0

TypeOK ==
  /\ lock \in Callers \cup {Other, Nobody}
  /\ at \in [Callers -> {"prepare", "open", "empty", "hand", "read", "decode", "done"}]
  /\ outcome \in [Callers -> {"none", "ok", "error"}]
  /\ blocks \in [Callers -> Nat]
  /\ \A c \in Callers : waited[c] \in 0..Budget /\ wait[c] \in 1..Longest

-----------------------------------------------------------------------------
(* The end of a call: OpenGuard closes, the vector frees what is in it. *)

FreesTheRest(c) == [blocks EXCEPT ![c] = 0]

Ends(c, how) ==
  /\ at' = [at EXCEPT ![c] = "done"]
  /\ outcome' = [outcome EXCEPT ![c] = how]
  /\ lock' = IF lock = c THEN Nobody ELSE lock
  /\ blocks' = FreesTheRest(c)

Min2(a, b) == IF a < b THEN a ELSE b

(* What a write hands over, in order; excluded_from_history's marks come    *)
(* last, and are left out here.                                             *)
Formats(j) ==
  IF j = "picture" THEN <<"png", "dib">> ELSE IF j = "both" THEN <<"png", "dib", "text">>
  ELSE IF j = "text" THEN <<"text">> ELSE <<>>

(* Everything slow comes before the clipboard is opened. *)
Prepare(c) ==
  /\ at[c] = "prepare"
  /\ \/ /\ at' = [at EXCEPT ![c] = "open"]
        /\ items' = [items EXCEPT ![c] = Formats(job[c])]
        /\ blocks' = [blocks EXCEPT ![c] = Len(Formats(job[c]))]
        /\ UNCHANGED <<lock, outcome>>
     \/ Writing(job[c]) /\ Ends(c, "error") /\ UNCHANGED items
  /\ UNCHANGED <<contents, job, waiting, got, others>>

NextWait(c) == Min2(wait[c], Budget - waited[c])

(* open_clipboard: one attempt, and the sleep after it. *)
Open(c) ==
  /\ at[c] = "open"
  /\ \/ /\ lock = Nobody
        /\ lock' = c
        /\ at' = [at EXCEPT ![c] = IF job[c] = "read" THEN "read" ELSE "empty"]
        /\ UNCHANGED <<waiting, outcome, blocks>>
     \/ lock # Nobody /\ waited[c] >= Budget /\ Ends(c, "error") /\ UNCHANGED waiting
     \/ /\ lock # Nobody /\ waited[c] < Budget
        /\ waited' = [waited EXCEPT ![c] = @ + NextWait(c)]
        /\ wait' = [wait EXCEPT ![c] = Min2(@ * 2, Longest)]
        /\ UNCHANGED <<lock, at, outcome, blocks>>
  /\ UNCHANGED <<contents, job, items, got, others>>

(* EmptyClipboard, of a write or of `clear`. *)
Empty(c) ==
  /\ at[c] = "empty"
  /\ \/ /\ contents' = <<>>
        /\ IF job[c] = "clear" THEN Ends(c, "ok")
           ELSE at' = [at EXCEPT ![c] = "hand"] /\ UNCHANGED <<lock, outcome, blocks>>
     \/ Ends(c, "error") /\ UNCHANGED contents
  /\ UNCHANGED <<job, waiting, items, got, others>>

(* hand_to_clipboard: the system owns the block from then on. *)
Hand(c) ==
  /\ at[c] = "hand"
  /\ \/ /\ items[c] # <<>>
        /\ contents' = Append(contents, [format |-> Head(items[c]), by |-> c])
        /\ items' = [items EXCEPT ![c] = Tail(@)]
        /\ blocks' = [blocks EXCEPT ![c] = @ - 1]
        /\ UNCHANGED <<at, outcome, lock>>
     \/ items[c] # <<>> /\ Ends(c, "error") /\ UNCHANGED <<contents, items>>
     \/ items[c] = <<>> /\ Ends(c, "ok") /\ UNCHANGED <<contents, items>>
  /\ UNCHANGED <<job, waiting, got, others>>

OnIt(f) == \E i \in DOMAIN contents : contents[i].format = f
Entry(f) == contents[CHOOSE i \in DOMAIN contents : contents[i].format = f]

(* A PNG has the transparency, so the DIB is read only without one. *)
ReadsOf == IF OnIt("png") THEN <<Entry("png")>> ELSE IF OnIt("dib") THEN <<Entry("dib")>> ELSE <<>>

(* read_image: the block is released, and the lock with it, before the      *)
(* picture is decoded.                                                      *)
Read(c) ==
  /\ at[c] = "read"
  /\ \/ /\ got' = [got EXCEPT ![c] = ReadsOf]
        /\ at' = [at EXCEPT ![c] = "decode"]
        /\ lock' = Nobody
        /\ UNCHANGED <<outcome, blocks>>
     \/ Ends(c, "error") /\ UNCHANGED got
  /\ UNCHANGED <<contents, job, waiting, items, others>>

Decode(c) ==
  /\ at[c] = "decode"
  /\ \/ Ends(c, "ok")
     \/ got[c] # <<>> /\ got[c][1].by = Other /\ Ends(c, "error")
  /\ UNCHANGED <<contents, job, waiting, items, got, others>>

-----------------------------------------------------------------------------
(* The other program: opens the clipboard, may write, and closes. *)

OtherOpens ==
  /\ lock = Nobody /\ others < MaxOther
  /\ lock' = Other /\ others' = others + 1
  /\ UNCHANGED <<contents, at, job, waiting, items, blocks, outcome, got>>

OtherCloses ==
  /\ lock = Other /\ lock' = Nobody
  /\ contents' \in {contents, <<[format |-> "dib", by |-> Other]>>, <<[format |-> "text", by |-> Other]>>}
  /\ UNCHANGED <<at, job, waiting, items, blocks, outcome, got, others>>

Next ==
  \/ \E c \in Callers : Prepare(c) \/ Open(c) \/ Empty(c) \/ Hand(c) \/ Read(c) \/ Decode(c)
  \/ OtherOpens \/ OtherCloses

Spec == Init /\ [][Next]_vars

-----------------------------------------------------------------------------
(* What is on the clipboard is from one writing, whoever wrote before or    *)
(* tries to write as well.                                                  *)
OneWriting == \A i, j \in DOMAIN contents : contents[i].by = contents[j].by

(* A picture the program wrote comes back with its transparency: its PNG is *)
(* read, and never the DIB beside it.                                       *)
KeepsTransparency ==
  \A c \in Callers : got[c] # <<>> /\ got[c][1].by # Other => got[c][1].format = "png"

(* However a call ends, it leaves neither the clipboard locked nor memory   *)
(* behind.                                                                  *)
LeavesNothingBehind == \A c \in Callers : at[c] = "done" => lock # c /\ blocks[c] = 0

(* Nobody is waited for longer than the budget. *)
WaitIsBounded == \A c \in Callers : waited[c] <= Budget
=============================================================================
