----------------------------- MODULE McpService -----------------------------
(* Starting, stopping and restarting the MCP server when the settings       *)
(* change: apply_settings and restart_mcp (shotik-app/host.rs), start_mcp   *)
(* and mcp_server (mcp_wiring.rs), McpServer::start and stop                *)
(* (shotik-mcp/server.rs).  A restart and a start are tasks of the runtime; *)
(* a server's start and stop take turns.                                    *)
EXTENDS Naturals, Sequences

CONSTANTS
  Ports,
  MaxChanges,  (* a bound on changes of the settings                        *)
  None

VARIABLES
  settings,   (* mcp.enabled and mcp.port                                   *)
  changes,
  tasks,      (* task number -> what it does, how far it is, for what       *)
  slot,       (* the server App knows: a number, or None                    *)
  servers,    (* server number -> its running port (or None), who has its   *)
              (* lifecycle lock                                             *)
  listening,  (* <<server, port>> of the listeners that are still open      *)
  overlapped, (* a change came while tasks of an earlier one were under way *)
  told        (* the last start failed: "other" program has the port, or    *)
              (* one of our "own" listeners still has it                    *)

vars == <<settings, changes, tasks, slot, servers, listening, overlapped, told>>

(* No server and no port are told from the numbers of servers and ports.    *)
McpAssumption == None \notin Ports \cup Nat /\ MaxChanges \in Nat

Flags == {"", "own", "other"}

TypeOK ==
  /\ settings \in [enabled : BOOLEAN, port : Ports] /\ changes \in 0 .. MaxChanges
  /\ \A t \in DOMAIN tasks :
       /\ tasks[t].at \in {"stop", "stopping", "stopped", "make", "set", "start", "over"}
       /\ tasks[t].server \in DOMAIN servers \cup {None} /\ tasks[t].port \in Ports \cup {None}
  /\ slot \in DOMAIN servers \cup {None}
  /\ \A s \in DOMAIN servers : /\ servers[s].running \in Ports \cup {None}
                               /\ servers[s].locked \in DOMAIN tasks \cup {None}
  /\ \A l \in listening : l[1] \in DOMAIN servers /\ l[2] \in Ports
  /\ told \in Flags

Task(at, server, enabled, port) == [at |-> at, server |-> server, enabled |-> enabled, port |-> port]
Add(task) == tasks' = Append(tasks, task)
Under(t) == tasks[t].at # "over"
Busy == \E t \in DOMAIN tasks : Under(t)

Init ==
  /\ settings \in [enabled : BOOLEAN, port : Ports] /\ changes = 0
  /\ tasks = <<Task("stopped", None, TRUE, None)>>
  /\ slot = None /\ servers = <<>> /\ listening = {} /\ overlapped = FALSE /\ told = ""

-----------------------------------------------------------------------------
(* The settings change.  The restart works with the server there is now.    *)
Change ==
  /\ changes < MaxChanges /\ changes' = changes + 1
  /\ \E after \in [enabled : BOOLEAN, port : Ports] \ {settings} :
       settings' = after /\ Add(Task("stop", slot, after.enabled, None))
  /\ overlapped' = (overlapped \/ Busy)
  /\ UNCHANGED <<slot, servers, listening, told>>

-----------------------------------------------------------------------------
(* The steps of a task.                                                     *)

Goto(t, task) == tasks' = [tasks EXCEPT ![t] = task]
At(t, place) == Goto(t, [tasks[t] EXCEPT !.at = place])
Free(s) == servers[s].locked = None

(* McpServer::stop takes what runs and tells it to end. *)
Stop(t) ==
  /\ tasks[t].at = "stop"
  /\ LET s == tasks[t].server IN
       \/ s = None /\ At(t, "stopped") /\ UNCHANGED servers
       \/ /\ s # None /\ Free(s)
          /\ IF servers[s].running = None THEN At(t, "stopped") /\ UNCHANGED servers
             ELSE At(t, "stopping") /\ servers' = [servers EXCEPT ![s] = [running |-> None, locked |-> t]]
  /\ UNCHANGED <<settings, changes, slot, listening, overlapped, told>>

(* A server that was told to end accepts no more, finishes what it is at,   *)
(* and its port is free.                                                    *)
ServerEnds(l) ==
  /\ l \in listening /\ servers[l[1]].running # l[2]
  /\ listening' = listening \ {l}
  /\ UNCHANGED <<settings, changes, tasks, slot, servers, overlapped, told>>

Stopped(t) ==
  /\ tasks[t].at = "stopping" /\ \A l \in listening : l[1] # tasks[t].server
  /\ At(t, "stopped") /\ servers' = [servers EXCEPT ![tasks[t].server].locked = None]
  /\ UNCHANGED <<settings, changes, slot, listening, overlapped, told>>

(* start_mcp looks at the settings anew. *)
StartMcp(t) ==
  /\ tasks[t].at = "stopped"
  /\ Goto(t, IF tasks[t].enabled /\ settings.enabled
             THEN Task("make", None, TRUE, settings.port) ELSE [tasks[t] EXCEPT !.at = "over"])
  /\ UNCHANGED <<settings, changes, slot, servers, listening, overlapped, told>>

(* mcp_server: the one there is, or a new one, put in its place later. *)
Look(t) ==
  /\ tasks[t].at = "make"
  /\ IF slot # None THEN Goto(t, [tasks[t] EXCEPT !.at = "start", !.server = slot]) ELSE At(t, "set")
  /\ UNCHANGED <<settings, changes, slot, servers, listening, overlapped, told>>

Set(t) ==
  /\ tasks[t].at = "set"
  /\ servers' = Append(servers, [running |-> None, locked |-> None])
  /\ slot' = Len(servers) + 1
  /\ Goto(t, [tasks[t] EXCEPT !.at = "start", !.server = Len(servers) + 1])
  /\ UNCHANGED <<settings, changes, listening, overlapped, told>>

(* McpServer::start: one that runs is left alone, whatever its port. *)
Start(t) ==
  /\ tasks[t].at = "start" /\ Free(tasks[t].server)
  /\ LET s == tasks[t].server
         port == tasks[t].port
     IN  \/ servers[s].running # None /\ told' = "" /\ UNCHANGED <<servers, listening>>
         \/ /\ servers[s].running = None /\ \A l \in listening : l[2] # port
            /\ servers' = [servers EXCEPT ![s].running = port]
            /\ listening' = listening \cup {<<s, port>>} /\ told' = ""
         \/ /\ servers[s].running = None
            /\ told' = IF \E l \in listening : l[2] = port THEN "own" ELSE "other"
            /\ UNCHANGED <<servers, listening>>
  /\ At(t, "over")
  /\ UNCHANGED <<settings, changes, slot, overlapped>>

(* The last reference to a server that was replaced is gone. *)
Dropped(s) ==
  /\ s # slot /\ \A t \in DOMAIN tasks : Under(t) => tasks[t].server # s
  /\ servers[s].running # None /\ servers' = [servers EXCEPT ![s].running = None]
  /\ UNCHANGED <<settings, changes, tasks, slot, listening, overlapped, told>>

Next ==
  \/ Change
  \/ \E t \in DOMAIN tasks : Stop(t) \/ Stopped(t) \/ StartMcp(t) \/ Look(t) \/ Set(t) \/ Start(t)
  \/ \E l \in listening : ServerEnds(l)
  \/ \E s \in DOMAIN servers : Dropped(s)

Spec == Init /\ [][Next]_vars

-----------------------------------------------------------------------------
Running == IF slot = None THEN None ELSE servers[slot].running

(* After changes that each waited for the one before, the server runs on    *)
(* the port of the settings, or not at all, as they say; only another       *)
(* program can have the port (host.rs:354-370).                             *)
ServerFollowsSettings ==
  ~Busy /\ ~overlapped =>
    IF settings.enabled THEN Running = settings.port \/ told = "other" ELSE listening = {}
=============================================================================
