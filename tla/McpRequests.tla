----------------------------- MODULE McpRequests -----------------------------
(* What the MCP server makes of a request (shotik-mcp/server.rs): the       *)
(* messages of a batch, each a task of its own, the log of the calls, and   *)
(* the answer; and the arithmetic of the tools' arguments                   *)
(* (shotik-mcp/tools.rs, region_map.rs, window_capture.rs).                 *)
EXTENDS Integers, Sequences, FiniteSets

CONSTANTS
  Clients,
  LogMax,     (* LOG_MAX *)
  MaxBatch    (* a bound: the messages of a batch *)

(* A tool's call; another message that has an answer; a note, which has no  *)
(* id and none; JSON's null, which is an error.                             *)
Kinds == {"call", "other", "note", "null"}

VARIABLES
  request,   (* each client's messages; one alone is a batch of one *)
  task,      (* client -> message -> "running", "called", "over", "joined" *)
  answers,   (* what has been put in its place *)
  response,  (* "none", "error", "nothing" or "answers" *)
  log, logged,
  input      (* of the arithmetic: chosen at the start *)

RequestsAssumption == LogMax \in Nat

vars == <<request, task, answers, response, log, logged, input>>

Places(c) == DOMAIN request[c]

StartOfRequests ==
  /\ request \in [Clients -> UNION {[1..n -> Kinds] : n \in 1..MaxBatch}]
  /\ task = [c \in Clients |-> [i \in Places(c) |-> "running"]]
  /\ answers = [c \in Clients |-> [i \in Places(c) |-> "none"]]
  /\ response = [c \in Clients |-> "none"]
  /\ log = <<>> /\ logged = [c \in Clients |-> [i \in Places(c) |-> 0]]

RequestsTypeOK ==
  /\ \A c \in Clients : \A i \in Places(c) : task[c][i] \in {"running", "called", "over", "joined"}
  /\ Len(log) <= LogMax
  /\ \A c \in Clients : response[c] \in {"none", "error", "nothing", "answers"}

-----------------------------------------------------------------------------
(* RequestState::handle_rpc, a message's task. *)

Kind(c, i) == request[c][i]

(* The tool has come to its end, well or not. *)
ToolEnds(c, i) ==
  /\ task[c][i] = "running" /\ Kind(c, i) = "call"
  /\ task' = [task EXCEPT ![c][i] = "called"]
  /\ UNCHANGED <<request, answers, response, log, logged, input>>

(* push_log: the newest first; one failure more is an entry like any other. *)
PushLog(entry) == SubSeq(<<entry>> \o log, 1, IF Len(log) < LogMax THEN Len(log) + 1 ELSE LogMax)

Log(c, i) ==
  /\ task[c][i] = "called"
  /\ log' = PushLog(<<c, i>>)
  /\ logged' = [logged EXCEPT ![c][i] = @ + 1]
  /\ task' = [task EXCEPT ![c][i] = "over"]
  /\ UNCHANGED <<request, answers, response, input>>

NoCall(c, i) ==
  /\ task[c][i] = "running" /\ Kind(c, i) # "call"
  /\ task' = [task EXCEPT ![c][i] = "over"]
  /\ UNCHANGED <<request, answers, response, log, logged, input>>

-----------------------------------------------------------------------------
(* request_listener: a batch's tasks are joined as they end; the first that *)
(* fails is the answer, and the others go on by themselves.                 *)

(* A slip: an answer goes where the next one goes. *)
NextPlace(c, i) == Cardinality({j \in Places(c) : task[c][j] = "joined"}) + 1

ItsPlace(c, i) == i

Join(c, i) ==
  /\ response[c] = "none" /\ task[c][i] = "over"
  /\ task' = [task EXCEPT ![c][i] = "joined"]
  /\ IF Kind(c, i) = "null" THEN response' = [response EXCEPT ![c] = "error"] /\ UNCHANGED answers
     ELSE answers' = [answers EXCEPT ![c][ItsPlace(c, i)] = Kind(c, i)] /\ UNCHANGED response
  /\ UNCHANGED <<request, log, logged, input>>

(* Of the places, in their order, those that have an answer: a note has none. *)
IsAnswer(a) == a \notin {"none", "note"}
Given(places) == SelectSeq(places, IsAnswer)

Respond(c) ==
  /\ response[c] = "none" /\ \A i \in Places(c) : task[c][i] = "joined"
  /\ answers' = [answers EXCEPT ![c] = Given(@)]
  /\ response' = [response EXCEPT ![c] = IF answers'[c] = <<>> THEN "nothing" ELSE "answers"]
  /\ UNCHANGED <<request, task, log, logged, input>>

RequestsNext ==
  \E c \in Clients :
    \/ \E i \in Places(c) : ToolEnds(c, i) \/ Log(c, i) \/ NoCall(c, i) \/ Join(c, i)
    \/ Respond(c)

-----------------------------------------------------------------------------
(* Every message that has an id has its answer, in the order they came in,  *)
(* however the tasks end; one bad message makes an error of them all.       *)
AnswersInOrder ==
  \A c \in Clients :
    response[c] \in {"answers", "nothing"} => answers[c] = Given(request[c])

(* A call is in the log once, whether or not anyone waits for it still.     *)
CallsAreLogged ==
  /\ \A c \in Clients : \A i \in Places(c) :
       logged[c][i] = IF Kind(c, i) = "call" /\ task[c][i] \in {"over", "joined"} THEN 1 ELSE 0
  /\ \A i, j \in DOMAIN log : i # j => log[i] # log[j]

-----------------------------------------------------------------------------
(* list_screenshots' limit: JavaScript's slice(0, limit) of at most fifty. *)

Lesser(a, b) == IF a < b THEN a ELSE b
Greater(a, b) == IF a > b THEN a ELSE b

Listed(limit, count) ==
  LET n == IF limit = 0 THEN 10 ELSE Lesser(limit, 50)
  IN  IF n < 0 THEN Greater(count + n, 0) ELSE Lesser(n, count)

(* find_recordings' *)
ListedRecordings(limit, default, count) ==
  Lesser(IF limit > 0 THEN Lesser(limit, 50) ELSE default, count)

(* map_global_region: the display that shows most of the region, the first  *)
(* of several, and the part it shows.                                       *)
Common(d, r) ==
  LET x == Greater(r[1], d[1])
      y == Greater(r[2], d[2])
  IN  <<x, y, Lesser(r[1] + r[3], d[1] + d[3]) - x, Lesser(r[2] + r[4], d[2] + d[4]) - y>>

AreaOf(r) == r[3] * r[4]
OnIt(d, r) == Common(d, r)[3] >= 1 /\ Common(d, r)[4] >= 1

MapRegion(displays, r) ==
  LET shows == {i \in DOMAIN displays : OnIt(displays[i], r)}
      best == {i \in shows : \A j \in shows : AreaOf(Common(displays[j], r)) <= AreaOf(Common(displays[i], r))}
  IN  IF shows = {} THEN [ok |-> FALSE]
      ELSE LET i == CHOOSE i \in best : \A j \in best : i <= j
               g == Common(displays[i], r)
           IN  [ok |-> TRUE, display |-> i, global |-> g,
                rel |-> <<g[1] - displays[i][1], g[2] - displays[i][2], g[3], g[4]>>,
                clipped |-> g[3] # r[3] \/ g[4] # r[4]]

(* take_screenshot_region: the part in the frame's own pixels, at a scale   *)
(* in halves; the frame can be smaller than the display was.                *)
PixelsOf(rel, scale, frame) ==
  LET At(a) == (a * scale + 1) \div 2
      x == At(rel[1])
      y == At(rel[2])
      width == Lesser(At(rel[3]), frame[1] - x)
      height == Lesser(At(rel[4]), frame[2] - y)
  IN  [ok |-> width >= 1 /\ height >= 1, x |-> x, y |-> y, width |-> width, height |-> height]

(* list_windows, of one axis: a window's place on a display, in the         *)
(* display's coordinates at its scale.                                      *)
DipOf(place, physical, dip, scale) == dip + ((4 * (place - physical) + scale) \div (2 * scale))

(* looks_blank: the pixels it looks at, of a row or of a column. *)
Samples(length) == {p \in 0..length - 1 : p % Greater(length \div 16, 1) = 0}

Inputs ==
  [kind : {"limit"}, limit : -4..60, count : {0, 1, 3, 9, 55}]
  \cup [kind : {"region"}, second : {<<4, 1, 2, 2>>, <<-3, -1, 3, 4>>}, x : -4..5, y : {-2, 0, 1},
        width : 1..4, height : {1, 3}, scale : {2, 3}, frame : {<<6, 6>>, <<3, 2>>}]
  \cup [kind : {"window"}, scale : 2..4, x : 0..12, width : 1..6]
  \cup [kind : {"blank"}, length : 2..70]

Asks(kind) == input.kind = kind

(* What is listed is what JavaScript would have taken. *)
LimitsAreSlices ==
  Asks("limit") =>
    LET n == Listed(input.limit, input.count)
    IN  /\ n \in 0..input.count
        /\ input.limit >= 0 => n <= 50
        /\ input.limit < 0 => n = Cardinality({i \in 1..input.count : i <= input.count + input.limit})
        /\ ListedRecordings(input.limit, 10, input.count) \in 0..Lesser(50, input.count)

(* A region's picture is of that region, on the display that shows most of  *)
(* it, and inside the frame whatever size it has by then.                   *)
RegionIsShown ==
  Asks("region") =>
    LET displays == <<<<0, 0, 4, 4>>, input.second>>
        r == <<input.x, input.y, input.width, input.height>>
        m == MapRegion(displays, r)
        Cells(a) == {p \in (-4..9) \X (-3..6) : /\ p[1] >= a[1] /\ p[1] < a[1] + a[3]
                                                /\ p[2] >= a[2] /\ p[2] < a[2] + a[4]}
        p == PixelsOf(m.rel, input.scale, input.frame)
    IN  /\ m.ok <=> \E i \in 1..2 : Cells(displays[i]) \cap Cells(r) # {}
        /\ m.ok => /\ Cells(m.global) = Cells(displays[m.display]) \cap Cells(r)
                   /\ \A i \in 1..2 : Cardinality(Cells(displays[i]) \cap Cells(r)) <= Cardinality(Cells(m.global))
                   /\ p.ok => /\ p.x >= 0 /\ p.x + p.width <= input.frame[1]
                              /\ p.y >= 0 /\ p.y + p.height <= input.frame[2]

(* A window that is on a display is listed on it: no farther out than the   *)
(* rounding of its two ends.                                                *)
WindowIsOnItsDisplay ==
  Asks("window") =>
    LET physical == 12
        dip == CHOOSE d \in 0..12 : d * input.scale <= 24 /\ (d + 1) * input.scale > 24
        x == DipOf(input.x, 0, 0, input.scale)
        width == DipOf(input.width, 0, 0, input.scale)
    IN  input.x + input.width <= physical => x >= 0 /\ x + width <= dip + 1

(* What is as large as the distance of two samples, and of another colour   *)
(* than the corner, is seen.                                                *)
BlocksAreSeen ==
  Asks("blank") =>
    \A from \in 0..input.length - 1 :
      LET size == Greater(input.length \div 16, 1)
      IN  from + size <= input.length => Samples(input.length) \cap (from..from + size - 1) # {}
=============================================================================
