--------------------------- MODULE SingleInstance ---------------------------
(* shotik-win/single_instance.rs: one process of a user runs the program;   *)
(* every later launch hands its arguments over a named pipe and leaves.     *)
(* The mutex decides who is first: it exists as long as any process has a   *)
(* handle of it, a launch that only forwards included.                      *)
EXTENDS Naturals, FiniteSets

CONSTANTS
  Processes,  (* launches of the program                                    *)
  Nobody

VARIABLES
  pc,       (* where each launch is                                         *)
  holders,  (* processes with a handle of the mutex                         *)
  pipe,     (* the one instance of the pipe: its server, its client, and    *)
            (* what the listener is at                                      *)
  to_server, to_client,  (* what was written and not yet read               *)
  heard,    (* launches whose arguments the first one's callback was given  *)
  excused   (* launches with a reason to fail: timed out, ended by force,   *)
            (* refused by the system, or the first one had gone             *)

vars == <<pc, holders, pipe, to_server, to_client, heard, excused>>

(* A pipe without a client is told from one that has one.                   *)
InstancesAssumption == Nobody \notin Processes

NoPipe == [server |-> Nobody, client |-> Nobody, at |-> "none"]

TypeOK ==
  /\ pc \in [Processes -> {"new", "creating", "first", "stopping", "opening", "sending", "waiting",
                           "confirming", "forwarded", "failed", "gone"}]
  /\ holders \subseteq Processes
  /\ pipe \in [server : Processes \cup {Nobody}, client : Processes \cup {Nobody},
              at : {"none", "listening", "connected", "heard", "acknowledged"}]
  /\ pipe.server = Nobody <=> pipe = NoPipe
  /\ to_server \in {"", "arguments", "confirmed"} /\ to_client \in {"", "ack"}
  /\ heard \subseteq Processes /\ excused \subseteq Processes

Init ==
  /\ pc = [p \in Processes |-> "new"]
  /\ holders = {} /\ pipe = NoPipe /\ to_server = "" /\ to_client = "" /\ heard = {} /\ excused = {}

Goto(p, place) == pc' = [pc EXCEPT ![p] = place]
Empty == to_server' = "" /\ to_client' = ""

(* The process is over: the system closes its handles. *)
Leave(p, place) == Goto(p, place) /\ holders' = holders \ {p}

-----------------------------------------------------------------------------
(* acquire_named.                                                           *)

(* CreateMutexW says whether it was there. *)
CreateMutex(p) ==
  /\ pc[p] = "new"
  /\ Goto(p, IF holders = {} THEN "creating" ELSE "opening")
  /\ holders' = holders \cup {p}
  /\ UNCHANGED <<pipe, to_server, to_client, heard, excused>>

(* FILE_FLAG_FIRST_PIPE_INSTANCE: refused while there is one of the name.   *)
(* The listener's thread starts with it.                                    *)
CreatePipe(p) ==
  /\ pc[p] = "creating"
  /\ \/ /\ pipe = NoPipe
        /\ pipe' = [server |-> p, client |-> Nobody, at |-> "listening"]
        /\ Goto(p, "first") /\ Empty /\ UNCHANGED <<holders, excused>>
     \/ /\ pipe # NoPipe
        /\ Leave(p, "failed") /\ UNCHANGED <<pipe, to_server, to_client, excused>>
     \/ /\ Leave(p, "failed") /\ excused' = excused \cup {p}
        /\ UNCHANGED <<pipe, to_server, to_client>>
  /\ UNCHANGED heard

-----------------------------------------------------------------------------
(* forward.                                                                 *)

Connected(c) == pipe.client = c

(* Until then it waits: the pipe is not there yet, or somebody else has it. *)
Open(c) ==
  /\ pc[c] = "opening" /\ pipe.at = "listening"
  /\ pipe' = [pipe EXCEPT !.client = c, !.at = "connected"]
  /\ Goto(c, "sending")
  /\ UNCHANGED <<holders, to_server, to_client, heard, excused>>

Send(c) ==
  /\ pc[c] = "sending" /\ Connected(c)
  /\ to_server' = "arguments" /\ Goto(c, "waiting")
  /\ UNCHANGED <<holders, pipe, to_client, heard, excused>>

ReadAck(c) ==
  /\ pc[c] = "waiting" /\ Connected(c) /\ to_client = "ack"
  /\ to_client' = "" /\ Goto(c, "confirming")
  /\ UNCHANGED <<holders, pipe, to_server, heard, excused>>

Confirm(c) ==
  /\ pc[c] = "confirming" /\ Connected(c)
  /\ to_server' = "confirmed" /\ Leave(c, "forwarded")
  /\ UNCHANGED <<pipe, to_client, heard, excused>>

(* The other end has been closed. *)
Broken(c) ==
  /\ pc[c] \in {"sending", "waiting", "confirming"} /\ ~Connected(c)
  /\ Leave(c, "failed")
  /\ UNCHANGED <<pipe, to_server, to_client, heard, excused>>

(* Five seconds for all of it. *)
TimeOut(c) ==
  /\ pc[c] \in {"opening", "sending", "waiting", "confirming"}
  /\ Leave(c, "failed") /\ excused' = excused \cup {c}
  /\ UNCHANGED <<pipe, to_server, to_client, heard>>

-----------------------------------------------------------------------------
(* The listener's thread.                                                   *)

Stopping == pc[pipe.server] = "stopping"

(* What was written can be read after the writer has gone. *)
Receive ==
  /\ pipe.at = "connected" /\ to_server = "arguments"
  /\ heard' = heard \cup {pipe.client}
  /\ to_server' = "" /\ pipe' = [pipe EXCEPT !.at = "heard"]
  /\ UNCHANGED <<pc, holders, to_client, excused>>

Alive(c) == pc[c] \in {"sending", "waiting", "confirming"}

Acknowledge ==
  /\ pipe.at = "heard" /\ Alive(pipe.client)
  /\ to_client' = "ack" /\ pipe' = [pipe EXCEPT !.at = "acknowledged"]
  /\ UNCHANGED <<pc, holders, to_server, heard, excused>>

(* DisconnectNamedPipe throws away what the client has not read. *)
Disconnect ==
  /\ Empty
  /\ IF Stopping THEN pipe' = NoPipe ELSE pipe' = [pipe EXCEPT !.client = Nobody, !.at = "listening"]

(* A slip: it hangs up as soon as it has answered. *)
ReadConfirmedAtOnce ==
  /\ pipe.at = "acknowledged"
  /\ Disconnect /\ UNCHANGED <<pc, holders, heard, excused>>

ReadConfirmed ==
  /\ pipe.at = "acknowledged" /\ to_server = "confirmed"
  /\ Disconnect /\ UNCHANGED <<pc, holders, heard, excused>>

(* The client has gone before it said all.  The listener's own time limit   *)
(* began after the client's, so the client goes first.                      *)
Lose ==
  /\ pipe.at \in {"connected", "heard", "acknowledged"}
  /\ ~Alive(pipe.client) /\ to_server = ""
  /\ Disconnect /\ UNCHANGED <<pc, holders, heard, excused>>

(* SingleInstance is dropped: the event ends whatever the listener waits    *)
(* for.                                                                     *)
Stop(p) ==
  /\ pc[p] = "first" /\ Goto(p, "stopping")
  /\ UNCHANGED <<holders, pipe, to_server, to_client, heard, excused>>

ListenerEnds ==
  /\ pipe # NoPipe /\ Stopping
  /\ excused' = excused \cup ({pipe.client} \ {Nobody})
  /\ pipe' = NoPipe /\ Empty
  /\ UNCHANGED <<pc, holders, heard>>

(* The lock is released only after the pipe and listener have gone away. *)
Release(p) ==
  /\ pc[p] = "stopping" /\ pipe.server # p
  /\ Leave(p, "gone")
  /\ UNCHANGED <<pipe, to_server, to_client, heard, excused>>

(* The process is ended from outside, and the system closes all it had.     *)
Killed(p) ==
  /\ pc[p] \notin {"new", "forwarded", "failed", "gone"}
  /\ Leave(p, "gone")
  /\ IF pipe.server = p
     THEN /\ pipe' = NoPipe /\ Empty
          /\ excused' = excused \cup {p} \cup ({pipe.client} \ {Nobody})
     ELSE excused' = excused \cup {p} /\ UNCHANGED <<pipe, to_server, to_client>>
  /\ UNCHANGED heard

Next ==
  \/ \E p \in Processes :
       \/ CreateMutex(p) \/ CreatePipe(p) \/ Open(p) \/ Send(p) \/ ReadAck(p) \/ Confirm(p)
       \/ Broken(p) \/ TimeOut(p) \/ Stop(p) \/ Release(p) \/ Killed(p)
  \/ Receive \/ Acknowledge \/ ReadConfirmed \/ Lose \/ ListenerEnds

Spec == Init /\ [][Next]_vars

-----------------------------------------------------------------------------
(* A launch that says it has forwarded was heard by the first one; and one  *)
(* fails for no reason of ours: the answer is not lost by hanging up, and   *)
(* whoever finds himself first finds the pipe's name free                   *)
(* (single_instance.rs:6-8, 44-45, 237-238).                                *)
LaunchesAreHeard ==
  \A p \in Processes :
    /\ pc[p] = "forwarded" => p \in heard
    /\ pc[p] = "failed" => p \in excused
=============================================================================
