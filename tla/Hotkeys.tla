------------------------------ MODULE Hotkeys ------------------------------
(* shotik-win/hotkeys.rs: the thread that owns the global hotkeys.  Callers *)
(* put commands into a channel and wake it with a message; Windows puts a   *)
(* message with a number for every press of a registered combination into   *)
(* the same queue.  The numbers are given out anew with every registration. *)
EXTENDS Naturals, Sequences, FiniteSets

CONSTANTS
  Callers,     (* threads that call register or unregister_all              *)
  Actions,     (* HotkeyAction                                              *)
  Combos,      (* combinations                                              *)
  Requests,    (* lists of <<action, combination>> to be registered         *)
  MaxMessages  (* a bound on messages waiting                               *)

VARIABLES
  commands,  (* the channel                                                 *)
  messages,  (* the thread's messages: Wake, or a press                     *)
  bindings,  (* number -> what is registered under it                       *)
  work,      (* the command it is at: bindings that remain, the next number *)
  at,        (* "loop", "commands", "registering" or "gone"                 *)
  caller,    (* where each caller is: "free" or "waits"                     *)
  fired      (* the last press that reached the application: what it was    *)
             (* pressed for, and what was started                           *)

vars == <<commands, messages, bindings, work, at, caller, fired>>

(* Requests are lists of actions and combinations.                          *)
HotkeysAssumption == \A k \in DOMAIN Requests : Requests[k] \in Seq(Actions \X Combos)

Wake == <<"wake">>
Press(n, action) == <<"press", n, action>>
NoCaller == "nobody"
Clear(c) == [what |-> "clear", list |-> <<>>, by |-> c]
Register(c, list) == [what |-> "register", list |-> list, by |-> c]

TypeOK ==
  /\ \A k \in DOMAIN messages : messages[k] = Wake \/ messages[k][2] \in Nat \ {0}
  /\ \A n \in DOMAIN bindings : bindings[n] \in Actions \X Combos
  /\ at \in {"loop", "commands", "registering", "gone"}
  /\ caller \in [Callers -> {"free", "waits"}]

NoBindings == <<>>
NoWork == [list |-> <<>>, by |-> NoCaller, next |-> 1]

Init ==
  /\ commands = <<>> /\ messages = <<>> /\ bindings = NoBindings /\ work = NoWork
  /\ at = "loop" /\ caller = [c \in Callers |-> "free"] /\ fired = <<>>

-----------------------------------------------------------------------------
(* The callers.                                                             *)

(* The command is in the channel even if the thread cannot be woken; then   *)
(* nobody waits for it.                                                     *)
Call(c, command) ==
  /\ caller[c] = "free" /\ Len(commands) < 2 /\ Len(messages) < MaxMessages
  /\ \/ /\ commands' = Append(commands, command)
        /\ messages' = Append(messages, Wake) /\ caller' = [caller EXCEPT ![c] = "waits"]
     \/ /\ commands' = Append(commands, [command EXCEPT !.by = NoCaller])
        /\ UNCHANGED <<messages, caller>>
  /\ UNCHANGED <<bindings, work, at, fired>>

RegisterAll(c) == \E k \in DOMAIN Requests : Call(c, Register(c, Requests[k]))
UnregisterAll(c) == Call(c, Clear(c))

(* WindowsHotkeys is dropped.  Nobody uses it any more. *)
Drop ==
  /\ at # "gone" /\ \A c \in Callers : caller[c] = "free"
  /\ commands' = Append(commands, [what |-> "quit", list |-> <<>>, by |-> NoCaller])
  /\ messages' = Append(messages, Wake)
  /\ caller' = [c \in Callers |-> "waits"]
  /\ UNCHANGED <<bindings, work, at, fired>>

-----------------------------------------------------------------------------
(* The thread.                                                              *)

(* clear_registrations: the presses that wait go too. *)
ClearRegistrations ==
  /\ bindings' = NoBindings
  /\ messages' = [k \in 1 .. Cardinality({j \in DOMAIN messages : messages[j] = Wake}) |-> Wake]

Reply(c) == caller' = [d \in Callers |-> IF d = c THEN "free" ELSE caller[d]]

(* GetMessage returns: a wake-up, or a press that the number finds a        *)
(* binding for.                                                             *)
GetMessage ==
  /\ at = "loop" /\ messages # <<>>
  /\ LET m == Head(messages) IN
       IF m = Wake THEN at' = "commands" /\ UNCHANGED fired
       ELSE /\ fired' = IF m[2] \in DOMAIN bindings THEN <<m[3], bindings[m[2]][1]>> ELSE fired
            /\ UNCHANGED at
  /\ messages' = Tail(messages)
  /\ UNCHANGED <<commands, bindings, work, caller>>

(* All commands there are, whoever woke it. *)
TakeCommand ==
  /\ at = "commands"
  /\ IF commands = <<>>
     THEN at' = "loop" /\ UNCHANGED <<commands, messages, bindings, work, caller>>
     ELSE LET c == Head(commands) IN
          /\ commands' = Tail(commands)
          /\ ClearRegistrations
          /\ \/ c.what = "clear" /\ Reply(c.by) /\ UNCHANGED <<work, at>>
             \/ /\ c.what = "register" /\ at' = "registering"
                /\ work' = [NoWork EXCEPT !.list = c.list, !.by = c.by] /\ UNCHANGED caller
             \/ c.what = "quit" /\ at' = "gone" /\ UNCHANGED <<work, caller>>
  /\ UNCHANGED fired

(* One RegisterHotKey.  It has a number of its own, which is used up even   *)
(* when another program has the combination; a text that names none has no  *)
(* number.                                                                  *)
RegisterOne ==
  /\ at = "registering" /\ work.list # <<>>
  /\ LET b == Head(work.list) IN
       \/ /\ \A n \in DOMAIN bindings : bindings[n][2] # b[2]
          /\ bindings' = [n \in DOMAIN bindings \cup {work.next} |-> IF n = work.next THEN b ELSE bindings[n]]
          /\ work' = [work EXCEPT !.list = Tail(@), !.next = @ + 1]
       \/ UNCHANGED bindings /\ work' = [work EXCEPT !.list = Tail(@), !.next = @ + 1]
       \/ UNCHANGED bindings /\ work' = [work EXCEPT !.list = Tail(@)]
  /\ UNCHANGED <<commands, messages, at, caller, fired>>

Registered ==
  /\ at = "registering" /\ work.list = <<>>
  /\ at' = "commands" /\ Reply(work.by) /\ work' = NoWork
  /\ UNCHANGED <<commands, messages, bindings, fired>>

(* The user presses a combination: Windows posts the number. *)
UserPresses ==
  /\ at # "gone" /\ Len(messages) < MaxMessages
  /\ \E n \in DOMAIN bindings : messages' = Append(messages, Press(n, bindings[n][1]))
  /\ UNCHANGED <<commands, bindings, work, at, caller, fired>>

Next ==
  \/ \E c \in Callers : RegisterAll(c) \/ UnregisterAll(c)
  \/ Drop \/ GetMessage \/ TakeCommand \/ RegisterOne \/ Registered \/ UserPresses

Spec == Init /\ [][Next]_vars

-----------------------------------------------------------------------------
(* A press starts what the combination stood for when it was pressed, or    *)
(* nothing: never what its number was given to later (hotkeys.rs:103-114).  *)
PressesMeanWhatTheyMeant == fired # <<>> => fired[1] = fired[2]
=============================================================================
