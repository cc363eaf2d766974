--------------------------- MODULE ServicesProofs ----------------------------
(* Proofs about the parts of the program that module MCServices composes,    *)
(* for every set of fields, texts and entries, every number of events, and   *)
(* any order of the threads.                                                 *)
EXTENDS MCServices, SequenceTheorems, FiniteSetTheorems, TLAPS

-----------------------------------------------------------------------------
(* What a sequence holds *)

Members(s) == {s[k] : k \in DOMAIN s}

LEMMA MembersType == ASSUME NEW S, NEW s \in Seq(S) PROVE Members(s) \subseteq S
BY ElementOfSeq, LenProperties DEF Members

LEMMA MembersOfNone == Members(<<>>) = {}
BY DEF Members

LEMMA MembersOfOne ==
  ASSUME NEW S, NEW e \in S
  PROVE  <<e>> \in Seq(S) /\ Members(<<e>>) = {e}
<1>1. DOMAIN <<e>> = {1} /\ <<e>>[1] = e
  OBVIOUS
<1>2. <<e>> \in Seq(S)
  OBVIOUS
<1> QED BY <1>1, <1>2 DEF Members

LEMMA MembersOfThree ==
  ASSUME NEW S, NEW d \in S, NEW e \in S
  PROVE  <<d, e, d>> \in Seq(S) /\ Members(<<d, e, d>>) = {d, e}
<1> DEFINE t == <<d, e, d>>
<1>1. t \in Seq(S) /\ DOMAIN t = {1, 2, 3} /\ t[1] = d /\ t[2] = e /\ t[3] = d
  OBVIOUS
<1> HIDE DEF t
<1>2. t \in Seq(S) /\ Members(t) = {d, e}
  BY <1>1 DEF Members
<1> QED BY <1>2 DEF t

LEMMA MembersAppend ==
  ASSUME NEW S, NEW s \in Seq(S), NEW e \in S
  PROVE  Append(s, e) \in Seq(S) /\ Members(Append(s, e)) = Members(s) \cup {e}
<1> DEFINE t == Append(s, e)
<1>1. t \in Seq(S) /\ Len(t) = Len(s) + 1 /\ t[Len(s) + 1] = e /\ \A k \in 1 .. Len(s) : t[k] = s[k]
  BY AppendProperties
<1>2. DOMAIN t = 1 .. Len(s) + 1 /\ DOMAIN s = 1 .. Len(s) /\ Len(s) \in Nat
  BY <1>1, LenProperties
<1> HIDE DEF t
<1>3. ASSUME NEW x PROVE x \in Members(t) <=> x \in Members(s) \cup {e}
  <2>1. x \in Members(t) <=> \E k \in 1 .. Len(s) + 1 : x = t[k]
    BY <1>2 DEF Members
  <2>2. x \in Members(s) <=> \E k \in 1 .. Len(s) : x = s[k]
    BY <1>2 DEF Members
  <2>3. \A k \in 1 .. Len(s) + 1 : k \in 1 .. Len(s) \/ k = Len(s) + 1
    BY <1>2
  <2>4. \A k \in 1 .. Len(s) : k \in 1 .. Len(s) + 1
    BY <1>2
  <2>5. Len(s) + 1 \in 1 .. Len(s) + 1
    BY <1>2
  <2> QED BY <1>1, <2>1, <2>2, <2>3, <2>4, <2>5
<1> QED BY <1>1, <1>3, Zenon DEF t

LEMMA MembersConcat ==
  ASSUME NEW S, NEW s \in Seq(S), NEW t \in Seq(S)
  PROVE  s \o t \in Seq(S) /\ Members(s \o t) = Members(s) \cup Members(t)
<1> DEFINE u == s \o t
<1>1. /\ u \in Seq(S) /\ Len(u) = Len(s) + Len(t)
      /\ \A k \in 1 .. Len(s) + Len(t) : u[k] = IF k <= Len(s) THEN s[k] ELSE t[k - Len(s)]
  BY ConcatProperties
<1>2. DOMAIN u = 1 .. Len(s) + Len(t) /\ DOMAIN s = 1 .. Len(s) /\ DOMAIN t = 1 .. Len(t)
      /\ Len(s) \in Nat /\ Len(t) \in Nat
  BY <1>1, LenProperties
<1> HIDE DEF u
<1>3. ASSUME NEW x PROVE x \in Members(u) <=> x \in Members(s) \cup Members(t)
  <2>1. ASSUME NEW k \in DOMAIN u PROVE u[k] \in Members(s) \cup Members(t)
    <3>1. CASE k <= Len(s)
      BY <1>1, <1>2, <3>1 DEF Members
    <3>2. CASE ~(k <= Len(s))
      <4>1. u[k] = t[k - Len(s)] /\ k - Len(s) \in DOMAIN t
        BY <1>1, <1>2, <3>2
      <4> QED BY <4>1 DEF Members
    <3> QED BY <3>1, <3>2
  <2>2. ASSUME NEW k \in DOMAIN s PROVE s[k] \in Members(u)
    <3>1. k \in DOMAIN u /\ u[k] = s[k]
      BY <1>1, <1>2
    <3> QED BY <3>1 DEF Members
  <2>3. ASSUME NEW k \in DOMAIN t PROVE t[k] \in Members(u)
    <3>1. k + Len(s) \in DOMAIN u /\ u[k + Len(s)] = t[k]
      <4>1. k \in 1 .. Len(t) /\ k + Len(s) \in 1 .. Len(s) + Len(t) /\ ~(k + Len(s) <= Len(s)) /\ k + Len(s) - Len(s) = k
        BY <1>2
      <4> QED BY <1>1, <1>2, <4>1
    <3> QED BY <3>1 DEF Members
  <2> QED BY <2>1, <2>2, <2>3 DEF Members
<1> QED BY <1>1, <1>3, Zenon DEF u

LEMMA MembersTail ==
  ASSUME NEW S, NEW s \in Seq(S), s # <<>>
  PROVE  Tail(s) \in Seq(S) /\ Head(s) \in S /\ Members(s) = {Head(s)} \cup Members(Tail(s))
<1> DEFINE t == Tail(s)
<1>1. t \in Seq(S) /\ Len(t) = Len(s) - 1 /\ (\A k \in 1 .. Len(t) : t[k] = s[k + 1]) /\ Head(s) \in S
  BY HeadTailProperties
<1>2. DOMAIN s = 1 .. Len(s) /\ DOMAIN t = 1 .. Len(t) /\ Len(s) \in Nat \ {0} /\ Head(s) = s[1]
  BY <1>1, LenProperties
<1> HIDE DEF t
<1>3. ASSUME NEW x PROVE x \in Members(s) <=> x \in {Head(s)} \cup Members(t)
  <2>1. ASSUME NEW k \in DOMAIN s PROVE s[k] \in {Head(s)} \cup Members(t)
    <3>1. CASE k = 1
      BY <1>2, <3>1
    <3>2. CASE k # 1
      <4>1. k - 1 \in DOMAIN t /\ k - 1 \in 1 .. Len(t) /\ k - 1 + 1 = k
        BY <1>1, <1>2, <3>2
      <4>2. t[k - 1] = s[k]
        BY <1>1, <4>1
      <4> QED BY <4>1, <4>2 DEF Members
    <3> QED BY <3>1, <3>2
  <2>2. Head(s) \in Members(s)
    BY <1>2 DEF Members
  <2>3. ASSUME NEW k \in DOMAIN t PROVE t[k] \in Members(s)
    <3>1. k + 1 \in DOMAIN s /\ s[k + 1] = t[k]
      BY <1>1, <1>2
    <3> QED BY <3>1 DEF Members
  <2> QED BY <2>1, <2>2, <2>3 DEF Members
<1> QED BY <1>1, <1>3, Zenon DEF t

-----------------------------------------------------------------------------
(* The main window: what its jobs, closures and tasks are (MainWindow) *)

Patches ==
  [field : Fields, to : Keys] \cup [field : {"microphone"}, to : BOOLEAN] \cup [field : {"language"}, to : {"en", "ru"}]
Questions == [request : Nat, input : Texts]
Loads == [revision : Nat, settings : Window!Settings, history : SUBSET Entries]

Jobs ==
  [what : {"load"}, about : Nat] \cup [what : {"save"}, about : Patches]
    \cup [what : {"resume", "clear", "list"}, about : {None}] \cup [what : {"translate"}, about : Questions]
    \cup [what : {"work", "remove"}, about : Entries]
AtWork == Jobs \cup {Window!NotRunning} \cup [what : {"unregister", "look", "grab"}, about : {"save", "resume"}]
Tasks == [what : {"translate"}, about : Questions] \cup [what : {"work"}, about : Entries]
Closures ==
  [what : {"loaded", "show"}, about : Loads] \cup [what : {"saved"}, about : Window!Settings]
    \cup [what : {"reload"}, about : {None}] \cup [what : {"translated"}, about : Questions]
    \cup [what : {"finished"}, about : Entries] \cup [what : {"history"}, about : SUBSET Entries]

TextTypes ==
  text \in [request : Nat, visible : BOOLEAN, loading : BOOLEAN, input : Texts \cup {None}, result : Texts \cup {None}]
QueueTypes ==
  jobs \in Seq(Jobs) /\ running \in AtWork /\ tasks \subseteq Tasks /\ ui_queue \in Seq(Closures)
UiTypes ==
  /\ page \in Window!Pages /\ ready \in BOOLEAN /\ revision \in Nat
  /\ shown \in BOOLEAN /\ requested \in BOOLEAN /\ (shown => requested)
  /\ focus \in Fields \cup {None} /\ settings \in Window!Settings
  /\ history \subseteq Entries /\ busy \subseteq Entries
HostTypes ==
  /\ files \subseteq Entries /\ stored \in Window!Settings /\ hotkeys_suspended \in BOOLEAN
  /\ grabbed = None \/ grabbed \in [Fields -> Keys]
WindowTypes == TextTypes /\ QueueTypes /\ UiTypes /\ HostTypes

LEMMA TextIsTyped ==
  ASSUME TextTypes
  PROVE  text.loading \in BOOLEAN /\ {text.input, text.result} \subseteq Texts \cup {None}
BY DEF TextTypes

LEMMA WindowTypesHold == WindowTypes => Window!TypeOK
BY TextIsTyped, Zenon DEF WindowTypes, UiTypes, HostTypes, Window!TypeOK

LEMMA WindowTypesInit == ASSUME Window!WindowAssumption, Window!Init PROVE WindowTypes
<1>1. Window!FirstSettings \in Window!Settings /\ Window!FirstSettings.keys \in [Fields -> Keys]
  BY DEF Window!FirstSettings, Window!Settings, Window!WindowAssumption
<1>2. TextTypes
  BY DEF Window!Init, Window!NoText, TextTypes
<1>3. jobs \in Seq(Jobs)
  <2> DEFINE e == Window!Do("load", 1)
  <2>1. e \in Jobs
    BY DEF Window!Do, Jobs
  <2> HIDE DEF e
  <2>2. <<e>> \in Seq(Jobs)
    BY <2>1, MembersOfOne, Zenon
  <2> QED BY <2>2, Zenon DEF e, Window!Init
<1>4. ui_queue \in Seq(Closures)
  BY DEF Window!Init
<1>5. running \in AtWork /\ tasks \subseteq Tasks
  BY Zenon DEF Window!Init, AtWork
<1>6. UiTypes
  <2>1. page = "history" /\ ready = FALSE /\ revision = 1 /\ shown = FALSE /\ requested = TRUE /\ focus = None
        /\ settings = Window!FirstSettings /\ history = {} /\ busy = {}
    BY Zenon DEF Window!Init
  <2> QED BY <1>1, <2>1 DEF UiTypes, Window!Pages
<1>7. HostTypes
  <2>1. files = Entries /\ stored = Window!FirstSettings /\ hotkeys_suspended = FALSE
        /\ grabbed = Window!FirstSettings.keys
    BY Zenon DEF Window!Init
  <2> QED BY <1>1, <2>1 DEF HostTypes
<1> QED BY <1>2, <1>3, <1>4, <1>5, <1>6, <1>7 DEF WindowTypes, QueueTypes

(* What the reducer asks of the worker. *)
LEMMA BlurAsks ==
  /\ Window!BlurJobs \in Seq(Jobs)
  /\ Members(Window!BlurJobs) = IF focus = None THEN {} ELSE {Window!Do("resume", None)}
<1> DEFINE e == Window!Do("resume", None)
<1>1. e \in Jobs
  BY DEF Window!Do, Jobs
<1> HIDE DEF e
<1>2. <<e>> \in Seq(Jobs) /\ <<>> \in Seq(Jobs) /\ Members(<<e>>) = {e} /\ Members(<<>>) = {}
  BY <1>1, MembersOfOne, MembersOfNone
<1> QED BY <1>2, Zenon DEF Window!BlurJobs, e

LEMMA WindowAsks ==
  ASSUME WindowTypes, NEW what, NEW about, Window!Do(what, about) \in Jobs, Window!Ask(what, about)
  PROVE  jobs' \in Seq(Jobs) /\ Members(jobs') = Members(jobs) \cup {Window!Do(what, about)}
BY MembersAppend DEF WindowTypes, QueueTypes, Window!Ask

LEMMA WindowBlurs ==
  ASSUME WindowTypes, jobs' = jobs \o Window!BlurJobs
  PROVE  /\ jobs' \in Seq(Jobs)
         /\ Members(jobs') = Members(jobs) \cup IF focus = None THEN {} ELSE {Window!Do("resume", None)}
BY MembersConcat, BlurAsks DEF WindowTypes, QueueTypes

(* What the worker hands back. *)
LEMMA WorkerIsDone ==
  ASSUME WindowTypes, NEW closures \in Seq(Closures), Window!Done(closures)
  PROVE  /\ running' \in AtWork /\ running' = Window!NotRunning
         /\ ui_queue' \in Seq(Closures) /\ Members(ui_queue') = Members(ui_queue) \cup Members(closures)
<1>1. running' = Window!NotRunning /\ ui_queue' = ui_queue \o closures /\ ui_queue \in Seq(Closures)
  BY Zenon DEF WindowTypes, QueueTypes, Window!Done, Window!Post
<1>2. running' \in AtWork
  BY <1>1, Zenon DEF AtWork
<1> QED BY <1>1, <1>2, MembersConcat, Zenon

(* Saving hands back the settings, and asks for a reload of the window. *)
LEMMA SavingReports ==
  ASSUME NEW s \in Window!Settings
  PROVE  LET news == Window!Do("saved", s)
             reload == Window!Do("reload", None)
         IN  /\ <<reload, news, reload>> \in Seq(Closures) /\ Members(<<reload, news, reload>>) = {news, reload}
             /\ <<news>> \o <<>> \in Seq(Closures) /\ Members(<<news>> \o <<>>) = {news}
             /\ <<news>> \o <<reload>> \in Seq(Closures) /\ Members(<<news>> \o <<reload>>) = {news, reload}
<1> DEFINE news == Window!Do("saved", s)
           reload == Window!Do("reload", None)
           a == <<news>>
           b == <<reload>>
           n == <<>>
<1>1. news \in Closures /\ reload \in Closures
  BY DEF Window!Do, Closures
<1> HIDE DEF news, reload
<1>2. a \in Seq(Closures) /\ Members(a) = {news}
  BY <1>1, MembersOfOne, Zenon
<1>3. b \in Seq(Closures) /\ Members(b) = {reload}
  BY <1>1, MembersOfOne, Zenon
<1>4. n \in Seq(Closures) /\ Members(n) = {}
  BY MembersOfNone
<1>5. <<reload, news, reload>> \in Seq(Closures) /\ Members(<<reload, news, reload>>) = {reload, news}
  BY <1>1, MembersOfThree, Zenon
<1> HIDE DEF a, b, n
<1>6. a \o n \in Seq(Closures) /\ Members(a \o n) = {news}
  BY <1>2, <1>4, MembersConcat
<1>7. a \o b \in Seq(Closures) /\ Members(a \o b) = {news, reload}
  BY <1>2, <1>3, MembersConcat
<1>8. {reload, news} = {news, reload}
  OBVIOUS
<1> QED BY <1>5, <1>6, <1>7, <1>8, Zenon DEF a, b, n, news, reload

-----------------------------------------------------------------------------
(* The main window: its invariant *)

Pending == Members(jobs) \cup {running} \cup tasks
News == Members(ui_queue)
Asked(q) == Window!Do("translate", q) \in Pending \/ Window!Do("translated", q) \in News
Working(e) == Window!Do("work", e) \in Pending \/ Window!Do("finished", e) \in News

(* The hotkeys come back when no combination is being recorded: whoever left *)
(* the field has asked for it; and while they are not suspended what Windows *)
(* has registered is what is stored, but while it is being registered.       *)
Registering == {"unregister", "look", "grab"}
KeysInv ==
  /\ hotkeys_suspended /\ focus = None => Window!Do("resume", None) \in Members(jobs) \cup {running}
  /\ ~hotkeys_suspended /\ running.what \notin Registering => grabbed = stored.keys

(* The question the page waits for is on its way, and so is the work on each *)
(* busy entry; no question on its way is newer than the page's, and the one  *)
(* with its number asks what it shows.                                       *)
QuestionWaits == ready /\ text.loading => Asked([request |-> text.request, input |-> text.input])
BusyWorks == \A e \in busy : Working(e)
NoneIsNewer ==
  \A q \in Questions : Asked(q) => /\ q.request <= text.request
                                   /\ q.request = text.request /\ text.visible => q.input = text.input
ResultFits == text.visible /\ ~text.loading => text.result \in {text.input, None}
Waits == QuestionWaits /\ BusyWorks /\ NoneIsNewer /\ ResultFits

WindowInv == WindowTypes /\ KeysInv /\ Waits

LEMMA DoIs ==
  ASSUME NEW a, NEW b, NEW c, NEW d
  PROVE  /\ Window!Do(a, b).what = a /\ Window!Do(a, b).about = b
         /\ Window!Do(a, b) = Window!Do(c, d) <=> a = c /\ b = d
BY DEF Window!Do

(* Two sets with the same translations and OCR in them. *)
SameWork(S, T) ==
  \A x : /\ Window!Do("translate", x) \in S <=> Window!Do("translate", x) \in T
         /\ Window!Do("work", x) \in S <=> Window!Do("work", x) \in T
SameNews(S, T) ==
  \A x : /\ Window!Do("translated", x) \in S <=> Window!Do("translated", x) \in T
         /\ Window!Do("finished", x) \in S <=> Window!Do("finished", x) \in T

(* The page's questions, as long as the same are on their way. *)
LEMMA TextWaits ==
  ASSUME Waits, UNCHANGED <<text, ready>>,
         \A q : (Window!Do("translate", q) \in Pending' \/ Window!Do("translated", q) \in News') <=> Asked(q)
  PROVE  QuestionWaits' /\ NoneIsNewer' /\ ResultFits'
<1>1. text' = text /\ ready' = ready
  OBVIOUS
<1>2. QuestionWaits'
  <2>1. QuestionWaits
    BY Zenon DEF Waits
  <2> DEFINE q == [request |-> text.request, input |-> text.input]
  <2>2. q' = q
    BY <1>1
  <2>3. ready' /\ text'.loading => ready /\ text.loading
    BY <1>1
  <2>4. QuestionWaits' <=> (ready' /\ text'.loading => Window!Do("translate", q') \in Pending' \/ Window!Do("translated", q') \in News')
    BY Zenon DEF QuestionWaits, Asked
  <2>5. QuestionWaits <=> (ready /\ text.loading => Asked(q))
    BY Zenon DEF QuestionWaits
  <2> HIDE DEF q
  <2> QED BY <2>1, <2>2, <2>3, <2>4, <2>5, Zenon
<1>3. NoneIsNewer'
  <2>1. NoneIsNewer
    BY Zenon DEF Waits
  <2> QED BY <1>1, <2>1, Zenon DEF NoneIsNewer, Asked
<1>4. ResultFits'
  BY <1>1, Zenon DEF Waits, ResultFits
<1> QED BY <1>2, <1>3, <1>4, Zenon

LEMMA WaitsAreKept ==
  ASSUME Waits, SameWork(Pending, Pending'), SameNews(News, News'), UNCHANGED <<text, busy, ready>>
  PROVE  Waits'
<1>1. \A q : (Window!Do("translate", q) \in Pending' \/ Window!Do("translated", q) \in News') <=> Asked(q)
  BY Zenon DEF Asked, SameWork, SameNews
<1>2. \A e : (Window!Do("work", e) \in Pending' \/ Window!Do("finished", e) \in News') <=> Working(e)
  BY Zenon DEF Working, SameWork, SameNews
<1>3. busy' = busy
  OBVIOUS
<1>4. BusyWorks'
  <2>1. BusyWorks
    BY Zenon DEF Waits
  <2> QED BY <1>2, <1>3, <2>1, Zenon DEF BusyWorks, Working
<1> QED BY <1>1, <1>4, TextWaits, Zenon DEF Waits

(* What the window asks besides leaves the translations and the OCR alone. *)
LEMMA AsksAreKept ==
  ASSUME NEW X, Members(jobs') = Members(jobs) \cup X, \A j \in X : j.what \notin {"translate", "work"},
         running' = running, tasks' = tasks
  PROVE  SameWork(Pending, Pending')
<1>1. \A x : Window!Do("translate", x) \notin X /\ Window!Do("work", x) \notin X
  BY DoIs
<1>2. Pending' = Pending \cup X
  BY DEF Pending
<1> QED BY <1>1, <1>2, Zenon DEF SameWork

LEMMA SameNewsIsSame == ASSUME ui_queue' = ui_queue PROVE SameNews(News, News')
BY Zenon DEF SameNews, News

(* A step of the user's: what is asked is queued, and the rest is typed. *)
LEMMA UserStep ==
  ASSUME WindowInv, NEW X, jobs' \in Seq(Jobs), Members(jobs') = Members(jobs) \cup X,
         \A j \in X : j.what \notin {"translate", "work"},
         UNCHANGED <<ui_queue, running, tasks, text, busy, ready>>
  PROVE  Waits' /\ QueueTypes' /\ TextTypes'
<1>1. ui_queue' = ui_queue /\ running' = running /\ tasks' = tasks /\ text' = text
  OBVIOUS
<1>2. Waits'
  BY <1>1, WaitsAreKept, AsksAreKept, SameNewsIsSame DEF WindowInv
<1> QED BY <1>1, <1>2, Zenon DEF WindowInv, WindowTypes, QueueTypes, TextTypes

LEMMA BlurStep ==
  ASSUME WindowInv, jobs' = jobs \o Window!BlurJobs, UNCHANGED <<ui_queue, running, tasks, text, busy, ready>>
  PROVE  /\ Waits' /\ QueueTypes' /\ TextTypes'
         /\ Members(jobs') = Members(jobs) \cup IF focus = None THEN {} ELSE {Window!Do("resume", None)}
<1> DEFINE X == IF focus = None THEN {} ELSE {Window!Do("resume", None)}
<1>1. jobs' \in Seq(Jobs) /\ Members(jobs') = Members(jobs) \cup X
  BY WindowBlurs, Zenon DEF WindowInv
<1>2. \A j \in X : j.what \notin {"translate", "work"}
  BY DoIs
<1> HIDE DEF X
<1>3. Waits' /\ QueueTypes' /\ TextTypes'
  BY <1>1, <1>2, UserStep
<1> QED BY <1>1, <1>3, Zenon DEF X

LEMMA AskStep ==
  ASSUME WindowInv, NEW what \in {"save", "remove", "clear", "list"}, NEW about, Window!Do(what, about) \in Jobs,
         Window!Ask(what, about), UNCHANGED <<ui_queue, running, tasks, text, busy, ready>>
  PROVE  /\ Waits' /\ QueueTypes' /\ TextTypes'
         /\ Members(jobs) \subseteq Members(jobs')
<1> DEFINE X == {Window!Do(what, about)}
<1>1. jobs' \in Seq(Jobs) /\ Members(jobs') = Members(jobs) \cup X
  BY WindowAsks, Zenon DEF WindowInv
<1>2. \A j \in X : j.what \notin {"translate", "work"}
  BY DoIs
<1> HIDE DEF X
<1>3. Waits' /\ QueueTypes' /\ TextTypes'
  BY <1>1, <1>2, UserStep
<1> QED BY <1>1, <1>3

(* The hotkeys, when only the window's side of them moves. *)
LEMMA KeysStep ==
  ASSUME KeysInv, Members(jobs) \subseteq Members(jobs'), UNCHANGED <<running, stored, hotkeys_suspended, grabbed>>,
         focus' = None /\ focus # None => Window!Do("resume", None) \in Members(jobs')
  PROVE  KeysInv'
BY DEF KeysInv

LEMMA HotkeyFocusKeeps == ASSUME WindowInv, NEW f \in Fields, Window!HotkeyFocus(f) PROVE WindowInv'
<1>1. /\ UNCHANGED <<page, ready, revision, shown, requested, settings, text, history, busy, stored, files>>
      /\ UNCHANGED <<ui_queue, running, tasks>>
      /\ focus' = f /\ focus # f /\ jobs' = jobs \o Window!BlurJobs /\ hotkeys_suspended' = TRUE /\ grabbed' = None
  BY Zenon DEF Window!HotkeyFocus, Window!OnWindow, Window!Suspend
<1>2. /\ Waits' /\ QueueTypes' /\ TextTypes'
      /\ Members(jobs') = Members(jobs) \cup IF focus = None THEN {} ELSE {Window!Do("resume", None)}
  BY <1>1, BlurStep
<1>3. UiTypes' /\ HostTypes'
  BY <1>1 DEF WindowInv, WindowTypes, UiTypes, HostTypes
<1>4. KeysInv'
  BY <1>1, <1>2 DEF KeysInv
<1> QED BY <1>2, <1>3, <1>4, Zenon DEF WindowInv, WindowTypes

LEMMA UnfocusKeeps ==
  ASSUME WindowInv, Window!Unfocused, page' \in Window!Pages,
         UNCHANGED <<ready, revision, settings, text, history, busy, stored, files, hotkeys_suspended, grabbed>>,
         UNCHANGED <<ui_queue, running, tasks>>, shown' \in BOOLEAN, requested' \in BOOLEAN, shown' => requested'
  PROVE  WindowInv'
<1>1. focus' = None /\ jobs' = jobs \o Window!BlurJobs
  BY Zenon DEF Window!Unfocused
<1>2. /\ Waits' /\ QueueTypes' /\ TextTypes'
      /\ Members(jobs') = Members(jobs) \cup IF focus = None THEN {} ELSE {Window!Do("resume", None)}
  BY <1>1, BlurStep
<1>3. UiTypes' /\ HostTypes'
  BY <1>1 DEF WindowInv, WindowTypes, UiTypes, HostTypes
<1>4. KeysInv'
  BY <1>1, <1>2, KeysStep DEF WindowInv
<1> QED BY <1>2, <1>3, <1>4, Zenon DEF WindowInv, WindowTypes

LEMMA HotkeyBlurKeeps == ASSUME WindowInv, Window!HotkeyBlur PROVE WindowInv'
<1>1. /\ UNCHANGED <<page, ready, revision, shown, requested, settings, text, history, busy>>
      /\ UNCHANGED Window!hostVars /\ UNCHANGED <<ui_queue, running, tasks>> /\ Window!Unfocused
  BY Zenon DEF Window!HotkeyBlur, Window!OnWindow
<1> QED BY <1>1, UnfocusKeeps DEF Window!hostVars, WindowInv, WindowTypes, UiTypes

LEMMA NavigateKeeps == ASSUME WindowInv, NEW p \in Window!Pages, Window!Navigate(p) PROVE WindowInv'
<1>1. /\ UNCHANGED <<ready, revision, shown, requested, settings, text, history, busy>> /\ page' = p
      /\ UNCHANGED Window!hostVars /\ UNCHANGED <<ui_queue, running, tasks>>
      /\ IF p = "settings" THEN UNCHANGED <<focus, jobs>> ELSE Window!Unfocused
  BY Zenon DEF Window!Navigate, Window!OnWindow
<1>2. CASE p # "settings"
  BY <1>1, <1>2, UnfocusKeeps DEF Window!hostVars, WindowInv, WindowTypes, UiTypes
<1>3. CASE p = "settings"
  <2>1. focus' = focus /\ jobs' = jobs
    BY <1>1, <1>3
  <2>2. Waits' /\ QueueTypes' /\ TextTypes'
    <3> DEFINE X == {}
    <3>1. jobs' \in Seq(Jobs) /\ Members(jobs') = Members(jobs) \cup X /\ \A j \in X : j.what \notin {"translate", "work"}
      BY <2>1 DEF WindowInv, WindowTypes, QueueTypes
    <3> HIDE DEF X
    <3> QED BY <1>1, <3>1, UserStep
  <2>3. UiTypes' /\ HostTypes'
    BY <1>1, <2>1 DEF WindowInv, WindowTypes, UiTypes, HostTypes, Window!hostVars
  <2>4. KeysInv'
    BY <1>1, <2>1, KeysStep DEF WindowInv, Window!hostVars
  <2> QED BY <2>2, <2>3, <2>4, Zenon DEF WindowInv, WindowTypes
<1> QED BY <1>2, <1>3

LEMMA CloseKeeps == ASSUME WindowInv, Window!Close PROVE WindowInv'
<1>1. /\ UNCHANGED <<page, ready, revision, settings, text, history, busy>> /\ shown' = FALSE /\ requested' = FALSE
      /\ UNCHANGED Window!hostVars /\ UNCHANGED <<ui_queue, running, tasks>> /\ Window!Unfocused
  BY Zenon DEF Window!Close, Window!OnWindow
<1> QED BY <1>1, UnfocusKeeps DEF Window!hostVars, WindowInv, WindowTypes, UiTypes

(* A combination is recorded: saved, and then the hotkeys come back. *)
LEMMA HotkeyRecordedKeeps ==
  ASSUME Window!WindowAssumption, WindowInv, NEW k \in Keys \cup {None}, Window!HotkeyRecorded(k)
  PROVE  WindowInv'
<1> DEFINE patches == IF k = None THEN <<>> ELSE <<Window!Do("save", [field |-> focus, to |-> k])>>
           blurs == Window!BlurJobs
           X == Members(patches) \cup Members(blurs)
<1>1. /\ UNCHANGED <<page, ready, revision, shown, requested, settings, text, history, busy>>
      /\ UNCHANGED Window!hostVars /\ UNCHANGED <<ui_queue, running, tasks>>
      /\ focus # None /\ focus' = None /\ jobs' = jobs \o patches \o blurs
  BY Zenon DEF Window!HotkeyRecorded, Window!OnWindow
<1>2. patches \in Seq(Jobs) /\ \A j \in Members(patches) : j.what = "save"
  <2>1. CASE k = None
    <3>1. patches = <<>>
      BY <2>1
    <3>2. <<>> \in Seq(Jobs) /\ \A j \in Members(<<>>) : j.what = "save"
      BY MembersOfNone
    <3> QED BY <3>1, <3>2, Zenon
  <2>2. CASE k # None
    <3> DEFINE patch == [field |-> focus, to |-> k]
               e == Window!Do("save", patch)
    <3>1. focus \in Fields
      BY <1>1 DEF WindowInv, WindowTypes, UiTypes
    <3>2. patch \in Patches
      BY <2>2, <3>1 DEF Patches
    <3> HIDE DEF patch
    <3>3. e \in Jobs /\ e.what = "save"
      BY <3>2 DEF Jobs, Window!Do
    <3> HIDE DEF e
    <3>4. <<e>> \in Seq(Jobs) /\ Members(<<e>>) = {e}
      BY <3>3, MembersOfOne, Zenon
    <3>5. patches = <<e>>
      BY <2>2, Zenon DEF e, patch
    <3> HIDE DEF patches
    <3> QED BY <3>3, <3>4, <3>5
  <2> QED BY <2>1, <2>2
<1>3. blurs \in Seq(Jobs) /\ Members(blurs) = {Window!Do("resume", None)}
  BY <1>1, BlurAsks
<1> HIDE DEF patches, blurs
<1>4. jobs' \in Seq(Jobs) /\ Members(jobs') = Members(jobs) \cup X
  <2>1. jobs \in Seq(Jobs)
    BY Zenon DEF WindowInv, WindowTypes, QueueTypes
  <2> DEFINE first == jobs \o patches
  <2>2. first \in Seq(Jobs) /\ Members(first) = Members(jobs) \cup Members(patches)
    BY <1>2, <2>1, MembersConcat
  <2>3. jobs' = first \o blurs
    BY <1>1
  <2> HIDE DEF first
  <2>4. first \o blurs \in Seq(Jobs) /\ Members(first \o blurs) = Members(first) \cup Members(blurs)
    BY <1>3, <2>2, MembersConcat
  <2> QED BY <2>2, <2>3, <2>4
<1>5. \A j \in X : j.what \notin {"translate", "work"}
  BY <1>2, <1>3, DoIs
<1>6. Members(jobs) \subseteq Members(jobs') /\ Window!Do("resume", None) \in Members(jobs')
  BY <1>3, <1>4
<1> HIDE DEF X
<1>7. Waits' /\ QueueTypes' /\ TextTypes'
  BY <1>1, <1>4, <1>5, UserStep
<1>8. UiTypes' /\ HostTypes'
  BY <1>1 DEF WindowInv, WindowTypes, UiTypes, HostTypes, Window!hostVars
<1>9. KeysInv'
  BY <1>1, <1>6, KeysStep DEF WindowInv, Window!hostVars
<1> QED BY <1>7, <1>8, <1>9, Zenon DEF WindowInv, WindowTypes

(* What the window asks, with nothing else of its own changed but settings. *)
LEMMA AskKeeps ==
  ASSUME WindowInv, NEW what \in {"save", "remove", "clear", "list"}, NEW about, Window!Do(what, about) \in Jobs,
         Window!Ask(what, about), settings' \in Window!Settings, files' \subseteq Entries,
         UNCHANGED <<page, ready, revision, shown, requested, focus, text, history, busy>>,
         UNCHANGED <<ui_queue, running, tasks, stored, hotkeys_suspended, grabbed>>
  PROVE  WindowInv'
<1>1. Waits' /\ QueueTypes' /\ TextTypes' /\ Members(jobs) \subseteq Members(jobs')
  BY AskStep
<1>2. UiTypes' /\ HostTypes'
  BY DEF WindowInv, WindowTypes, UiTypes, HostTypes
<1>3. KeysInv'
  BY <1>1, KeysStep DEF WindowInv
<1> QED BY <1>1, <1>2, <1>3, Zenon DEF WindowInv, WindowTypes

LEMMA MicrophoneToggleKeeps == ASSUME WindowInv, Window!MicrophoneToggle PROVE WindowInv'
<1> DEFINE patch == [field |-> "microphone", to |-> settings'.microphone]
<1>1. /\ settings' = [settings EXCEPT !.microphone = ~@] /\ Window!Ask("save", patch)
      /\ UNCHANGED <<page, ready, revision, shown, requested, focus, text, history, busy>>
      /\ UNCHANGED Window!hostVars /\ UNCHANGED <<ui_queue, running, tasks>>
  BY Zenon DEF Window!MicrophoneToggle, Window!OnWindow
<1>2. settings \in Window!Settings /\ files \subseteq Entries
  BY Zenon DEF WindowInv, WindowTypes, UiTypes, HostTypes
<1>3. settings' \in Window!Settings /\ settings'.microphone \in BOOLEAN
  BY <1>1, <1>2 DEF Window!Settings
<1>4. patch \in Patches
  BY <1>3 DEF Patches
<1> HIDE DEF patch
<1>5. Window!Do("save", patch) \in Jobs
  BY <1>4 DEF Window!Do, Jobs
<1>6. UNCHANGED <<ui_queue, running, tasks, stored, hotkeys_suspended, grabbed>> /\ files' = files
  BY <1>1 DEF Window!hostVars
<1> QED BY <1>1, <1>2, <1>3, <1>5, <1>6, AskKeeps

LEMMA ChooseLanguageKeeps == ASSUME WindowInv, Window!ChooseLanguage PROVE WindowInv'
<1> PICK l \in {"en", "ru"} \ {settings.language} : Window!Ask("save", [field |-> "language", to |-> l])
  BY Zenon DEF Window!ChooseLanguage
<1> DEFINE patch == [field |-> "language", to |-> l]
<1>1. UNCHANGED Window!uiVars /\ UNCHANGED Window!hostVars /\ UNCHANGED <<ui_queue, running, tasks>>
      /\ Window!Ask("save", patch)
  <2>1. UNCHANGED <<Window!uiVars, Window!hostVars>> /\ UNCHANGED <<ui_queue, running, tasks>>
    BY Zenon DEF Window!ChooseLanguage, Window!OnWindow
  <2> QED BY <2>1
<1>2. patch \in Patches
  BY DEF Patches
<1> HIDE DEF patch
<1>3. Window!Do("save", patch) \in Jobs
  BY <1>2 DEF Window!Do, Jobs
<1>4. settings' \in Window!Settings /\ files' \subseteq Entries
  BY <1>1 DEF Window!uiVars, Window!hostVars, WindowInv, WindowTypes, UiTypes, HostTypes
<1> QED BY <1>1, <1>3, <1>4, AskKeeps DEF Window!uiVars, Window!hostVars

LEMMA HistoryRemoveKeeps == ASSUME WindowInv, NEW e \in Entries, Window!HistoryRemove(e) PROVE WindowInv'
<1>1. UNCHANGED <<Window!uiVars, Window!hostVars>> /\ UNCHANGED <<ui_queue, running, tasks>> /\ Window!Ask("remove", e)
  BY Zenon DEF Window!HistoryRemove, Window!OnWindow
<1>2. Window!Do("remove", e) \in Jobs
  BY DEF Window!Do, Jobs
<1>3. settings' \in Window!Settings /\ files' \subseteq Entries
  BY <1>1 DEF Window!uiVars, Window!hostVars, WindowInv, WindowTypes, UiTypes, HostTypes
<1> QED BY <1>1, <1>2, <1>3, AskKeeps DEF Window!uiVars, Window!hostVars

LEMMA ClearHistoryKeeps == ASSUME WindowInv, Window!ClearHistory PROVE WindowInv'
<1>1. UNCHANGED <<Window!uiVars, Window!hostVars>> /\ UNCHANGED <<ui_queue, running, tasks>> /\ Window!Ask("clear", None)
  BY Zenon DEF Window!ClearHistory, Window!OnWindow
<1>2. Window!Do("clear", None) \in Jobs
  BY DEF Window!Do, Jobs
<1>3. settings' \in Window!Settings /\ files' \subseteq Entries
  BY <1>1 DEF Window!uiVars, Window!hostVars, WindowInv, WindowTypes, UiTypes, HostTypes
<1> QED BY <1>1, <1>2, <1>3, AskKeeps DEF Window!uiVars, Window!hostVars

LEMMA CapturedKeeps == ASSUME WindowInv, NEW e \in Entries, Window!Captured(e) PROVE WindowInv'
<1>1. UNCHANGED <<Window!uiVars, ui_queue, running, stored, hotkeys_suspended, grabbed, tasks>>
      /\ files' = files \cup {e} /\ Window!Ask("list", None)
  BY Zenon DEF Window!Captured
<1>2. Window!Do("list", None) \in Jobs
  BY DEF Window!Do, Jobs
<1>3. settings' \in Window!Settings /\ files' \subseteq Entries
  BY <1>1 DEF Window!uiVars, WindowInv, WindowTypes, UiTypes, HostTypes
<1> QED BY <1>1, <1>2, <1>3, AskKeeps DEF Window!uiVars

LEMMA ShowKeeps == ASSUME WindowInv, Window!Show PROVE WindowInv'
<1>1. /\ UNCHANGED <<page, ready, revision, focus, settings, text, history, busy, ui_queue, jobs, running, tasks>>
      /\ UNCHANGED Window!hostVars /\ requested' = TRUE /\ shown' = ready
  BY DEF Window!Show
<1>2. Waits' /\ QueueTypes' /\ TextTypes'
  <2> DEFINE X == {}
  <2>1. jobs' \in Seq(Jobs) /\ Members(jobs') = Members(jobs) \cup X /\ \A j \in X : j.what \notin {"translate", "work"}
    BY <1>1 DEF WindowInv, WindowTypes, QueueTypes
  <2> HIDE DEF X
  <2> QED BY <1>1, <2>1, UserStep
<1>3. UiTypes' /\ HostTypes'
  BY <1>1 DEF WindowInv, WindowTypes, UiTypes, HostTypes, Window!hostVars
<1>4. KeysInv'
  BY <1>1, KeysStep DEF WindowInv, Window!hostVars
<1> QED BY <1>2, <1>3, <1>4, Zenon DEF WindowInv, WindowTypes

(* A new question is the newest; what it replaces is not waited for. *)
LEMMA TranslateTextKeeps ==
  ASSUME WindowInv, NEW input \in Texts \cup {None}, Window!TranslateText(input)
  PROVE  WindowInv'
<1> DEFINE q == [request |-> text.request + 1, input |-> input]
           e == Window!Do("translate", q)
           X == IF input = None THEN {} ELSE {e}
<1>1. /\ UNCHANGED <<page, ready, revision, shown, requested, focus, settings, history, busy>>
      /\ UNCHANGED Window!hostVars /\ UNCHANGED <<ui_queue, running, tasks>>
      /\ Window!Translate(input)
      /\ IF input = None THEN UNCHANGED jobs ELSE Window!Ask("translate", q)
  BY Zenon DEF Window!TranslateText, Window!OnWindow
<1>2. TextTypes /\ text.request \in Nat /\ text.result \in Texts \cup {None}
  BY DEF WindowInv, WindowTypes, TextTypes
<1>3. /\ text' = [request |-> text.request + 1, visible |-> input # None, loading |-> input # None, input |-> input,
                  result |-> IF input = None THEN None ELSE text.result]
  BY <1>1, Zenon DEF Window!Translate
<1>4. TextTypes' /\ text'.request = text.request + 1 /\ text'.visible = (input # None)
      /\ text'.loading = (input # None) /\ text'.input = input
      /\ text'.result = IF input = None THEN None ELSE text.result
  <2>1. text'.request = text.request + 1 /\ text'.input = input
        /\ text'.result = IF input = None THEN None ELSE text.result
    BY <1>3
  <2>2. text'.visible = (input # None) /\ text'.loading = (input # None)
    BY <1>3, Zenon
  <2>3. TextTypes'
    <3> DEFINE r == IF input = None THEN None ELSE text.result
               n == text.request + 1
               b == input # None
    <3>1. r \in Texts \cup {None} /\ n \in Nat /\ b \in BOOLEAN
      BY <1>2
    <3>2. text' = [request |-> n, visible |-> b, loading |-> b, input |-> input, result |-> r]
      BY <1>3, Zenon
    <3> HIDE DEF r, n, b
    <3> QED BY <3>1, <3>2 DEF TextTypes
  <2> QED BY <2>1, <2>2, <2>3
<1>5. input # None => q \in Questions
  BY <1>2 DEF Questions
<1> HIDE DEF q
<1>6. jobs' \in Seq(Jobs) /\ Members(jobs') = Members(jobs) \cup X
  <2>1. CASE input = None
    BY <1>1, <2>1 DEF WindowInv, WindowTypes, QueueTypes
  <2>2. CASE input # None
    <3>1. e \in Jobs
      BY <1>5, <2>2 DEF Jobs, Window!Do
    <3>2. jobs' \in Seq(Jobs) /\ Members(jobs') = Members(jobs) \cup {e}
      BY <1>1, <2>2, <3>1, WindowAsks DEF WindowInv
    <3> QED BY <2>2, <3>2
  <2> QED BY <2>1, <2>2
<1>7. QueueTypes'
  BY <1>1, <1>6 DEF WindowInv, WindowTypes, QueueTypes
<1>8. Pending' = Pending \cup X /\ News' = News
  BY <1>1, <1>6 DEF Pending, News
<1>9. QuestionWaits'
  <2>1. text'.loading => e \in Pending'
    BY <1>4, <1>8
  <2>2. [request |-> text'.request, input |-> text'.input] = q
    BY <1>4 DEF q
  <2>3. text'.loading => Window!Do("translate", [request |-> text'.request, input |-> text'.input]) \in Pending'
    BY <2>1, <2>2
  <2> QED BY <2>3, Zenon DEF QuestionWaits, Asked
<1>10. BusyWorks'
  <2>1. busy' = busy /\ \A x \in busy : Working(x)
    BY <1>1 DEF WindowInv, Waits, BusyWorks
  <2> QED BY <1>8, <2>1 DEF BusyWorks, Working
<1>11. NoneIsNewer'
  <2> SUFFICES ASSUME NEW p \in Questions, Window!Do("translate", p) \in Pending' \/ Window!Do("translated", p) \in News'
               PROVE  p.request <= text'.request /\ (p.request = text'.request /\ text'.visible => p.input = text'.input)
    BY Zenon DEF NoneIsNewer, Asked
  <2>1. CASE Asked(p)
    <3>1. p.request <= text.request /\ p.request \in Nat
      BY <2>1 DEF WindowInv, Waits, NoneIsNewer, Questions
    <3> QED BY <1>2, <1>4, <3>1
  <2>2. CASE ~Asked(p)
    <3>1. Window!Do("translate", p) \in X
      BY <1>8, <2>2 DEF Asked
    <3>2. p = q
      BY <3>1, DoIs
    <3>3. p.request = text.request + 1 /\ p.input = input
      BY <3>2 DEF q
    <3> QED BY <1>2, <1>4, <3>3
  <2> QED BY <2>1, <2>2
<1>12. ResultFits'
  BY <1>4, Zenon DEF ResultFits
<1>13. UiTypes' /\ HostTypes'
  BY <1>1 DEF WindowInv, WindowTypes, UiTypes, HostTypes, Window!hostVars
<1>14. KeysInv'
  BY <1>1, <1>6, KeysStep DEF WindowInv, Window!hostVars
<1> QED BY <1>4, <1>7, <1>9, <1>10, <1>11, <1>12, <1>13, <1>14, Zenon DEF WindowInv, WindowTypes, Waits

LEMMA HistoryWorkKeeps == ASSUME WindowInv, NEW x \in Entries, Window!HistoryWork(x) PROVE WindowInv'
<1> DEFINE e == Window!Do("work", x)
<1>1. /\ UNCHANGED <<page, ready, revision, shown, requested, focus, settings, text, history>>
      /\ busy' = busy \cup {x} /\ UNCHANGED Window!hostVars /\ UNCHANGED <<ui_queue, running, tasks>>
      /\ Window!Ask("work", x)
  BY Zenon DEF Window!HistoryWork, Window!OnWindow
<1>2. e \in Jobs
  BY DEF Window!Do, Jobs
<1>3. jobs' \in Seq(Jobs) /\ Members(jobs') = Members(jobs) \cup {e}
  BY <1>1, <1>2, WindowAsks DEF WindowInv
<1>4. QueueTypes' /\ TextTypes' /\ UiTypes' /\ HostTypes'
  BY <1>1, <1>3 DEF WindowInv, WindowTypes, QueueTypes, TextTypes, UiTypes, HostTypes, Window!hostVars
<1>5. Pending' = Pending \cup {e} /\ News' = News
  BY <1>1, <1>3 DEF Pending, News
<1>6. BusyWorks'
  <2>1. \A y \in busy : Working(y)
    BY Zenon DEF WindowInv, Waits, BusyWorks
  <2> SUFFICES ASSUME NEW y \in busy' PROVE Window!Do("work", y) \in Pending' \/ Window!Do("finished", y) \in News'
    BY Zenon DEF BusyWorks, Working
  <2> QED BY <1>1, <1>5, <2>1 DEF Working
<1>7. \A y : Window!Do("translate", y) \in Pending' <=> Window!Do("translate", y) \in Pending
  BY <1>5, DoIs
<1>8. \A y : (Window!Do("translate", y) \in Pending' \/ Window!Do("translated", y) \in News') <=> Asked(y)
  BY <1>5, <1>7, Zenon DEF Asked
<1>9. QuestionWaits' /\ NoneIsNewer' /\ ResultFits'
  BY <1>1, <1>8, TextWaits DEF WindowInv
<1>10. KeysInv'
  BY <1>1, <1>3, KeysStep DEF WindowInv, Window!hostVars
<1> QED BY <1>4, <1>6, <1>9, <1>10, Zenon DEF WindowInv, WindowTypes, Waits

-----------------------------------------------------------------------------
(* The main window: the worker *)

LEMMA AboutJobs ==
  ASSUME NEW j \in AtWork
  PROVE  /\ j.what = "load" => j.about \in Nat
         /\ j.what = "save" => j.about \in Patches
         /\ j.what = "translate" => j.about \in Questions /\ j \in Tasks
         /\ j.what \in {"work", "remove"} => j.about \in Entries
         /\ j.what = "work" => j \in Tasks
         /\ j = Window!Do(j.what, j.about)
<1>1. CASE j = Window!NotRunning
  BY <1>1 DEF Window!NotRunning, Window!Do
<1>2. CASE j \in [what : {"unregister", "look", "grab"}, about : {"save", "resume"}]
  BY <1>2 DEF Window!Do
<1>3. CASE j \in Jobs
  <2>1. CASE j \in [what : {"load"}, about : Nat]
    BY <2>1 DEF Window!Do
  <2>2. CASE j \in [what : {"save"}, about : Patches]
    BY <2>2 DEF Window!Do
  <2>3. CASE j \in [what : {"resume", "clear", "list"}, about : {None}]
    BY <2>3 DEF Window!Do
  <2>4. CASE j \in [what : {"translate"}, about : Questions]
    BY <2>4 DEF Window!Do, Tasks
  <2>5. CASE j \in [what : {"work", "remove"}, about : Entries]
    <3>1. j.what = "work" => j \in [what : {"work"}, about : Entries]
      BY <2>5
    <3> QED BY <2>5, <3>1 DEF Window!Do, Tasks
  <2> QED BY <1>3, <2>1, <2>2, <2>3, <2>4, <2>5, Zenon DEF Jobs
<1> QED BY <1>1, <1>2, <1>3, Zenon DEF AtWork

LEMMA NotRunningIs ==
  /\ Window!NotRunning \in AtWork /\ Window!NotRunning.what \notin {"translate", "work"} \cup Registering
  /\ Window!NotRunning # Window!Do("resume", None)
<1>1. Window!NotRunning \in AtWork
  BY Zenon DEF AtWork
<1>2. Window!NotRunning.what = "none" /\ Window!Do("resume", None).what = "resume"
  BY DEF Window!NotRunning, Window!Do
<1> QED BY <1>1, <1>2 DEF Registering

LEMMA RegisteringIsTyped ==
  ASSUME NEW what \in {"unregister", "look", "grab"}, NEW by \in {"save", "resume"}
  PROVE  /\ Window!Do(what, by) \in AtWork /\ Window!Do(what, by).what = what
         /\ what \notin {"translate", "work"}
BY DEF AtWork, Window!Do

(* A step of the worker's that is no translation and no OCR. *)
LEMMA WorkerStep ==
  ASSUME WindowInv, running.what \notin {"translate", "work"}, running' \in AtWork,
         running'.what \notin {"translate", "work"}, NEW C, ui_queue' \in Seq(Closures),
         Members(ui_queue') = Members(ui_queue) \cup C, \A c \in C : c.what \notin {"translated", "finished"},
         UNCHANGED <<text, busy, ready, jobs, tasks>>
  PROVE  Waits' /\ QueueTypes' /\ TextTypes'
<1>1. UNCHANGED <<text, busy, ready, jobs, tasks>> /\ jobs' = jobs /\ tasks' = tasks /\ text' = text
  OBVIOUS
<1>2. SameWork(Pending, Pending')
  <2> SUFFICES ASSUME NEW x, NEW w \in {"translate", "work"}
               PROVE  Window!Do(w, x) \in Pending <=> Window!Do(w, x) \in Pending'
    BY Zenon DEF SameWork
  <2>1. Window!Do(w, x) # running /\ Window!Do(w, x) # running'
    BY DoIs
  <2> QED BY <1>1, <2>1, Zenon DEF Pending
<1>3. SameNews(News, News')
  <2> SUFFICES ASSUME NEW x, NEW w \in {"translated", "finished"}
               PROVE  Window!Do(w, x) \in News <=> Window!Do(w, x) \in News'
    BY Zenon DEF SameNews
  <2>1. Window!Do(w, x) \notin C
    BY DoIs
  <2> QED BY <2>1 DEF News
<1>4. Waits'
  BY <1>1, <1>2, <1>3, WaitsAreKept, Zenon DEF WindowInv
<1>5. QueueTypes'
  BY <1>1, Zenon DEF WindowInv, WindowTypes, QueueTypes
<1> QED BY <1>1, <1>4, <1>5 DEF WindowInv, WindowTypes, TextTypes

LEMMA DoneStep ==
  ASSUME WindowInv, running.what \notin {"translate", "work"}, NEW closures \in Seq(Closures), Window!Done(closures),
         \A c \in Members(closures) : c.what \notin {"translated", "finished"},
         UNCHANGED <<text, busy, ready, jobs, tasks>>
  PROVE  Waits' /\ QueueTypes' /\ TextTypes' /\ running' = Window!NotRunning
<1> DEFINE C == Members(closures)
<1>1. /\ running' \in AtWork /\ running' = Window!NotRunning
      /\ ui_queue' \in Seq(Closures) /\ Members(ui_queue') = Members(ui_queue) \cup C
  BY WorkerIsDone DEF WindowInv
<1>2. running'.what \notin {"translate", "work"}
  BY <1>1, NotRunningIs
<1>3. \A c \in C : c.what \notin {"translated", "finished"}
  OBVIOUS
<1> HIDE DEF C
<1> QED BY <1>1, <1>2, <1>3, WorkerStep

LEMMA TakeJobKeeps == ASSUME WindowInv, Window!TakeJob PROVE WindowInv'
<1>1. /\ running = Window!NotRunning /\ jobs # <<>> /\ running' = Head(jobs) /\ jobs' = Tail(jobs)
      /\ UNCHANGED <<Window!uiVars, ui_queue, Window!hostVars, tasks>>
  BY DEF Window!TakeJob
<1>2. jobs \in Seq(Jobs)
  BY Zenon DEF WindowInv, WindowTypes, QueueTypes
<1>3. jobs' \in Seq(Jobs) /\ running' \in Jobs /\ Members(jobs) = {running'} \cup Members(jobs')
  BY <1>1, <1>2, MembersTail
<1>4. running' \in AtWork
  BY <1>3, Zenon DEF AtWork
<1>5. QueueTypes' /\ TextTypes' /\ UiTypes' /\ HostTypes'
  BY <1>1, <1>3, <1>4 DEF WindowInv, WindowTypes, QueueTypes, TextTypes, UiTypes, HostTypes, Window!hostVars, Window!uiVars
<1>6. SameWork(Pending, Pending')
  <2> SUFFICES ASSUME NEW x, NEW w \in {"translate", "work"}
               PROVE  Window!Do(w, x) \in Pending <=> Window!Do(w, x) \in Pending'
    BY Zenon DEF SameWork
  <2>1. Window!Do(w, x) # running
    BY <1>1, DoIs, NotRunningIs
  <2> QED BY <1>1, <1>3, <2>1 DEF Pending
<1>7. Waits'
  <2>1. UNCHANGED <<text, busy, ready>> /\ ui_queue' = ui_queue
    BY <1>1 DEF Window!uiVars
  <2> QED BY <1>6, <2>1, WaitsAreKept, SameNewsIsSame DEF WindowInv
<1>8. KeysInv'
  <2>1. focus' = focus /\ hotkeys_suspended' = hotkeys_suspended /\ grabbed' = grabbed /\ stored' = stored
    BY <1>1 DEF Window!uiVars, Window!hostVars
  <2>2. Window!Do("resume", None) # running /\ running.what \notin Registering
    BY <1>1, NotRunningIs
  <2> QED BY <1>3, <2>1, <2>2 DEF WindowInv, KeysInv
<1> QED BY <1>5, <1>7, <1>8, Zenon DEF WindowInv, WindowTypes

LEMMA LoadKeeps == ASSUME WindowInv, Window!Load PROVE WindowInv'
<1> DEFINE e == Window!Do("loaded", [revision |-> running.about, settings |-> stored, history |-> files])
           n == <<>>
           a == <<e>>
<1>1. /\ running.what = "load" /\ (Window!Done(a) \/ Window!Done(n))
      /\ UNCHANGED <<Window!uiVars, jobs, Window!hostVars, tasks>>
  BY DEF Window!Load
<1>2. e \in Closures /\ e.what = "loaded"
  <2> DEFINE l == [revision |-> running.about, settings |-> stored, history |-> files]
  <2>1. running \in AtWork /\ stored \in Window!Settings /\ files \subseteq Entries
    BY Zenon DEF WindowInv, WindowTypes, QueueTypes, HostTypes
  <2>2. running.about \in Nat
    BY <1>1, <2>1, AboutJobs
  <2>3. l \in Loads
    BY <2>1, <2>2 DEF Loads
  <2> HIDE DEF l
  <2>4. Window!Do("loaded", l) \in Closures /\ Window!Do("loaded", l).what = "loaded"
    BY <2>3 DEF Closures, Window!Do
  <2> QED BY <2>4, Zenon DEF l
<1> HIDE DEF e
<1>3. /\ a \in Seq(Closures) /\ Members(a) = {e}
      /\ n \in Seq(Closures) /\ Members(n) = {}
  BY <1>2, MembersOfOne, MembersOfNone
<1> HIDE DEF a, n
<1>4. UNCHANGED <<text, busy, ready, jobs, tasks>>
  BY <1>1 DEF Window!uiVars
<1>5. Waits' /\ QueueTypes' /\ TextTypes' /\ running' = Window!NotRunning
  <2>1. CASE Window!Done(a)
    BY <1>1, <1>2, <1>3, <1>4, <2>1, DoneStep
  <2>2. CASE Window!Done(n)
    BY <1>1, <1>2, <1>3, <1>4, <2>2, DoneStep
  <2> QED BY <1>1, <2>1, <2>2
<1>6. UiTypes' /\ HostTypes'
  BY <1>1 DEF WindowInv, WindowTypes, UiTypes, HostTypes, Window!hostVars, Window!uiVars
<1>7. KeysInv'
  <2>1. focus' = focus /\ hotkeys_suspended' = hotkeys_suspended /\ grabbed' = grabbed /\ stored' = stored /\ jobs' = jobs
    BY <1>1 DEF Window!uiVars, Window!hostVars
  <2>2. running # Window!Do("resume", None) /\ running.what \notin Registering
    BY <1>1, DoIs DEF Registering
  <2> QED BY <2>1, <2>2 DEF WindowInv, KeysInv
<1> QED BY <1>5, <1>6, <1>7, Zenon DEF WindowInv, WindowTypes

LEMMA PatchedIsTyped ==
  ASSUME Window!WindowAssumption, stored \in Window!Settings, NEW patch \in Patches
  PROVE  Window!Patched(patch) \in Window!Settings
<1>1. CASE patch \in [field : Fields, to : Keys]
  <2> DEFINE keys == [stored.keys EXCEPT ![patch.field] = patch.to]
  <2>1. patch.field \in Fields /\ patch.to \in Keys /\ stored.keys \in [Fields -> Keys]
    BY <1>1 DEF Window!Settings
  <2>2. Window!Patched(patch) = [stored EXCEPT !.keys = keys]
    <3> DEFINE first == [stored EXCEPT !.keys = keys]
               second == [stored EXCEPT !.microphone = patch.to]
               third == [stored EXCEPT !.language = patch.to]
    <3>1. Window!Patched(patch) = CASE patch.field \in Fields -> first
                                    [] patch.field = "microphone" -> second
                                    [] OTHER -> third
      BY Zenon DEF Window!Patched
    <3>2. patch.field # "microphone"
      BY <2>1 DEF Window!WindowAssumption
    <3> HIDE DEF first, second, third
    <3>3. Window!Patched(patch) = first
      BY <2>1, <3>1, <3>2
    <3> QED BY <3>3, Zenon DEF first
  <2>3. keys \in [Fields -> Keys]
    BY <2>1
  <2> HIDE DEF keys
  <2> QED BY <2>2, <2>3 DEF Window!Settings
<1>2. CASE patch \in [field : {"microphone"}, to : BOOLEAN]
  <2>1. patch.field = "microphone" /\ patch.to \in BOOLEAN /\ patch.field \notin Fields
    BY <1>2 DEF Window!WindowAssumption
  <2>2. Window!Patched(patch) = [stored EXCEPT !.microphone = patch.to]
    BY <2>1 DEF Window!Patched
  <2> QED BY <2>1, <2>2 DEF Window!Settings
<1>3. CASE patch \in [field : {"language"}, to : {"en", "ru"}]
  <2>1. patch.field = "language" /\ patch.to \in {"en", "ru"} /\ patch.field \notin Fields
    BY <1>3 DEF Window!WindowAssumption
  <2>2. Window!Patched(patch) = [stored EXCEPT !.language = patch.to]
    BY <2>1 DEF Window!Patched
  <2> QED BY <2>1, <2>2 DEF Window!Settings
<1> QED BY <1>1, <1>2, <1>3, Zenon DEF Patches

(* Settings are stored; when the hotkeys changed they are registered anew. *)
LEMMA SaveKeeps == ASSUME Window!WindowAssumption, WindowInv, Window!Save PROVE WindowInv'
<1> DEFINE after == Window!Patched(running.about)
           news == Window!Do("saved", after)
           reload == Window!Do("reload", None)
           n == <<>>
           three == <<reload, news, reload>>
           one == <<news>> \o <<>>
           two == <<news>> \o <<reload>>
<1>1. /\ running.what = "save"
      /\ \/ /\ stored' = after
            /\ \/ after.keys # stored.keys /\ running' = Window!Do("unregister", "save") /\ UNCHANGED ui_queue
               \/ after.keys = stored.keys /\ (Window!Done(three) \/ Window!Done(one) \/ Window!Done(two))
         \/ stored' = stored /\ Window!Done(n)
      /\ UNCHANGED <<Window!uiVars, jobs, files, hotkeys_suspended, grabbed, tasks>>
  <2> DEFINE report == <<news>> \o IF running.about.field = "language" THEN <<reload>> ELSE <<>>
  <2>1. /\ running.what = "save"
        /\ \/ /\ stored' = after
              /\ \/ after.keys # stored.keys /\ running' = Window!Do("unregister", "save") /\ UNCHANGED ui_queue
                 \/ after.keys = stored.keys /\ after.language # stored.language /\ Window!Done(three)
                 \/ after.keys = stored.keys /\ after.language = stored.language /\ Window!Done(report)
           \/ stored' = stored /\ Window!Done(n)
        /\ UNCHANGED <<Window!uiVars, jobs, files, hotkeys_suspended, grabbed, tasks, events>>
    BY Zenon DEF Window!Save
  <2>2. report \in {one, two}
    OBVIOUS
  <2> HIDE DEF after, three, one, two, n, report
  <2>3. UNCHANGED <<Window!uiVars, jobs, files, hotkeys_suspended, grabbed, tasks>>
    BY <2>1
  <2>4. Window!Done(report) => Window!Done(one) \/ Window!Done(two)
    BY <2>2
  <2> QED BY <2>1, <2>3, <2>4, Zenon
<1>2. after \in Window!Settings
  <2>1. running \in AtWork /\ stored \in Window!Settings
    BY Zenon DEF WindowInv, WindowTypes, QueueTypes, HostTypes
  <2> QED BY <1>1, <2>1, AboutJobs, PatchedIsTyped
<1> HIDE DEF after
<1>3. /\ three \in Seq(Closures) /\ Members(three) = {news, reload}
      /\ one \in Seq(Closures) /\ Members(one) = {news}
      /\ two \in Seq(Closures) /\ Members(two) = {news, reload}
  BY <1>2, SavingReports, Zenon
<1>4. n \in Seq(Closures) /\ Members(n) = {}
  BY MembersOfNone
<1>5. news.what = "saved" /\ reload.what = "reload"
  BY DoIs
<1> HIDE DEF n, three, one, two, news, reload
<1>6. UNCHANGED <<text, busy, ready, jobs, tasks>> /\ focus' = focus /\ hotkeys_suspended' = hotkeys_suspended /\ grabbed' = grabbed
  BY <1>1 DEF Window!uiVars
<1>7. running.what \notin {"translate", "work"} \cup Registering /\ running # Window!Do("resume", None)
  BY <1>1, DoIs DEF Registering
<1>8. ASSUME NEW closures \in {three, one, two, n}, Window!Done(closures)
      PROVE  Waits' /\ QueueTypes' /\ TextTypes' /\ running' = Window!NotRunning
  <2>1. closures \in Seq(Closures) /\ \A c \in Members(closures) : c.what \notin {"translated", "finished"}
    BY <1>3, <1>4, <1>5
  <2> QED BY <1>6, <1>7, <1>8, <2>1, DoneStep
<1>9. CASE running' = Window!Do("unregister", "save") /\ UNCHANGED ui_queue
  <2> DEFINE C == {}
  <2>1. running' \in AtWork /\ running'.what = "unregister" /\ running'.what \notin {"translate", "work"}
    BY <1>9, RegisteringIsTyped
  <2>2. ui_queue' \in Seq(Closures) /\ Members(ui_queue') = Members(ui_queue) \cup C /\ \A c \in C : c.what \notin {"translated", "finished"}
    BY <1>9 DEF WindowInv, WindowTypes, QueueTypes
  <2> HIDE DEF C
  <2>3. Waits' /\ QueueTypes' /\ TextTypes'
    BY <1>6, <1>7, <2>1, <2>2, WorkerStep
  <2>4. KeysInv'
    BY <1>6, <1>7, <2>1 DEF WindowInv, KeysInv, Registering
  <2>5. HostTypes' /\ UiTypes'
    BY <1>1, <1>2 DEF WindowInv, WindowTypes, UiTypes, HostTypes, Window!uiVars
  <2> QED BY <2>3, <2>4, <2>5, Zenon DEF WindowInv, WindowTypes
<1>10. CASE ~(running' = Window!Do("unregister", "save") /\ UNCHANGED ui_queue)
  <2>1. \/ stored' = after /\ after.keys = stored.keys
        \/ stored' = stored
    BY <1>1, <1>10
  <2>2. Waits' /\ QueueTypes' /\ TextTypes' /\ running' = Window!NotRunning
    BY <1>1, <1>8, <1>10
  <2>3. stored'.keys = stored.keys
    BY <2>1
  <2>4. KeysInv'
    BY <1>6, <1>7, <2>2, <2>3, NotRunningIs DEF WindowInv, KeysInv
  <2>5. HostTypes' /\ UiTypes'
    BY <1>1, <1>2, <2>1 DEF WindowInv, WindowTypes, UiTypes, HostTypes, Window!uiVars
  <2> QED BY <2>2, <2>4, <2>5, Zenon DEF WindowInv, WindowTypes
<1> QED BY <1>9, <1>10

(* Registering moves the worker on, and hands nothing back. *)
LEMMA RegisteringStep ==
  ASSUME WindowInv, running.what \in {"resume"} \cup Registering, NEW what \in Registering, NEW by \in {"save", "resume"},
         running' = Window!Do(what, by), UNCHANGED ui_queue, UNCHANGED <<Window!uiVars, jobs, tasks>>
  PROVE  Waits' /\ QueueTypes' /\ TextTypes' /\ UiTypes' /\ running'.what = what
<1> DEFINE C == {}
<1>1. running' \in AtWork /\ running'.what = what /\ running'.what \notin {"translate", "work"}
  BY RegisteringIsTyped DEF Registering
<1>2. ui_queue' \in Seq(Closures) /\ Members(ui_queue') = Members(ui_queue) \cup C /\ \A c \in C : c.what \notin {"translated", "finished"}
  BY DEF WindowInv, WindowTypes, QueueTypes
<1>3. running.what \notin {"translate", "work"}
  BY DEF Registering
<1>4. UNCHANGED <<text, busy, ready, jobs, tasks>>
  BY DEF Window!uiVars
<1> HIDE DEF C
<1>5. Waits' /\ QueueTypes' /\ TextTypes'
  BY <1>1, <1>2, <1>3, <1>4, WorkerStep
<1>6. UiTypes'
  BY DEF WindowInv, WindowTypes, UiTypes, Window!uiVars
<1> QED BY <1>1, <1>5, <1>6

LEMMA ResumeKeeps == ASSUME WindowInv, Window!Resume PROVE WindowInv'
<1>1. /\ running.what = "resume" /\ hotkeys_suspended' = FALSE /\ running' = Window!Do("unregister", "resume")
      /\ UNCHANGED <<Window!uiVars, jobs, tasks>> /\ UNCHANGED ui_queue /\ UNCHANGED <<stored, files, grabbed>>
  BY DEF Window!Resume
<1>2. "unregister" \in Registering /\ running.what \in {"resume"} \cup Registering
  BY <1>1 DEF Registering
<1>3. Waits' /\ QueueTypes' /\ TextTypes' /\ UiTypes' /\ running'.what = "unregister"
  BY <1>1, <1>2, RegisteringStep
<1>4. HostTypes'
  BY <1>1 DEF WindowInv, WindowTypes, HostTypes
<1>5. KeysInv'
  BY <1>1, <1>2, <1>3 DEF KeysInv
<1> QED BY <1>3, <1>4, <1>5, Zenon DEF WindowInv, WindowTypes

(* Who registers: a save, or the one who gave the hotkeys back. *)
LEMMA RegisteringBy ==
  ASSUME NEW j \in AtWork, j.what \in Registering
  PROVE  j.about \in {"save", "resume"}
<1>1. CASE j = Window!NotRunning
  BY <1>1, NotRunningIs
<1>2. CASE j \in Jobs
  BY <1>2 DEF Jobs, Registering
<1> QED BY <1>1, <1>2 DEF AtWork

LEMMA RegisterClearKeeps == ASSUME WindowInv, Window!RegisterClear PROVE WindowInv'
<1>1. /\ running.what = "unregister" /\ grabbed' = None /\ running' = Window!Do("look", running.about)
      /\ UNCHANGED <<Window!uiVars, jobs, tasks>> /\ UNCHANGED ui_queue /\ UNCHANGED <<stored, files, hotkeys_suspended>>
  BY DEF Window!RegisterClear
<1>2. "look" \in Registering /\ running.what \in {"resume"} \cup Registering
  BY <1>1 DEF Registering
<1>3. running.about \in {"save", "resume"}
  <2>1. running \in AtWork /\ running.what \in Registering
    BY <1>1 DEF WindowInv, WindowTypes, QueueTypes, Registering
  <2> QED BY <2>1, RegisteringBy
<1>4. Waits' /\ QueueTypes' /\ TextTypes' /\ UiTypes' /\ running'.what = "look"
  BY <1>1, <1>2, <1>3, RegisteringStep
<1>5. HostTypes'
  BY <1>1 DEF WindowInv, WindowTypes, HostTypes
<1>6. KeysInv'
  <2>1. running # Window!Do("resume", None) /\ focus' = focus /\ jobs' = jobs
    BY <1>1, DoIs DEF Window!uiVars
  <2> QED BY <1>1, <1>2, <1>4, <2>1 DEF WindowInv, KeysInv
<1> QED BY <1>4, <1>5, <1>6, Zenon DEF WindowInv, WindowTypes

LEMMA RegisteredReports ==
  ASSUME WindowInv, NEW by
  PROVE  /\ Window!Registered(by) \in Seq(Closures)
         /\ \A c \in Members(Window!Registered(by)) : c.what \notin {"translated", "finished"}
<1> DEFINE e == Window!Do("saved", stored)
           a == <<e>>
           n == <<>>
<1>1. e \in Closures /\ e.what = "saved"
  <2>1. stored \in Window!Settings
    BY Zenon DEF WindowInv, WindowTypes, HostTypes
  <2> QED BY <2>1 DEF Closures, Window!Do
<1> HIDE DEF e
<1>2. a \in Seq(Closures) /\ Members(a) = {e} /\ n \in Seq(Closures) /\ Members(n) = {}
  BY <1>1, MembersOfOne, MembersOfNone
<1>3. Window!Registered(by) = IF by = "save" THEN a ELSE n
  BY Zenon DEF Window!Registered, e
<1> HIDE DEF a, n
<1> QED BY <1>1, <1>2, <1>3

LEMMA RegisterLookKeeps == ASSUME WindowInv, Window!RegisterLook PROVE WindowInv'
<1>1. /\ running.what = "look"
      /\ IF hotkeys_suspended THEN Window!Done(Window!Registered(running.about))
         ELSE running' = Window!Do("grab", running.about) /\ UNCHANGED ui_queue
      /\ UNCHANGED <<Window!uiVars, jobs, tasks>> /\ UNCHANGED Window!hostVars
  BY DEF Window!RegisterLook
<1>2. "grab" \in Registering /\ running.what \in {"resume"} \cup Registering /\ running.what \notin {"translate", "work"}
  BY <1>1 DEF Registering
<1>3. running.about \in {"save", "resume"}
  <2>1. running \in AtWork /\ running.what \in Registering
    BY <1>1 DEF WindowInv, WindowTypes, QueueTypes, Registering
  <2> QED BY <2>1, RegisteringBy
<1>4. HostTypes' /\ UiTypes'
  BY <1>1 DEF WindowInv, WindowTypes, HostTypes, UiTypes, Window!uiVars, Window!hostVars
<1>5. running # Window!Do("resume", None) /\ focus' = focus /\ jobs' = jobs /\ UNCHANGED <<text, busy, ready, jobs, tasks>>
      /\ hotkeys_suspended' = hotkeys_suspended /\ stored' = stored /\ grabbed' = grabbed
  BY <1>1, DoIs DEF Window!uiVars, Window!hostVars
<1>6. CASE hotkeys_suspended
  <2> DEFINE closures == Window!Registered(running.about)
  <2>1. closures \in Seq(Closures) /\ \A c \in Members(closures) : c.what \notin {"translated", "finished"}
    BY RegisteredReports
  <2>2. Window!Done(closures)
    BY <1>1, <1>6
  <2> HIDE DEF closures
  <2>3. Waits' /\ QueueTypes' /\ TextTypes'
    BY <1>2, <1>5, <2>1, <2>2, DoneStep
  <2>4. KeysInv'
    BY <1>5, <1>6 DEF WindowInv, KeysInv
  <2> QED BY <1>4, <2>3, <2>4, Zenon DEF WindowInv, WindowTypes
<1>7. CASE ~hotkeys_suspended
  <2>1. Waits' /\ QueueTypes' /\ TextTypes' /\ running'.what = "grab"
    BY <1>1, <1>2, <1>3, <1>7, RegisteringStep
  <2>2. KeysInv'
    BY <1>2, <1>5, <1>7, <2>1 DEF KeysInv
  <2> QED BY <1>4, <2>1, <2>2, Zenon DEF WindowInv, WindowTypes
<1> QED BY <1>6, <1>7

LEMMA RegisterGrabKeeps == ASSUME WindowInv, Window!RegisterGrab PROVE WindowInv'
<1> DEFINE closures == Window!Registered(running.about)
<1>1. /\ running.what = "grab" /\ grabbed' = stored.keys /\ Window!Done(closures)
      /\ UNCHANGED <<Window!uiVars, jobs, stored, files, hotkeys_suspended, tasks>>
  BY DEF Window!RegisterGrab
<1>2. closures \in Seq(Closures) /\ \A c \in Members(closures) : c.what \notin {"translated", "finished"}
  BY RegisteredReports
<1> HIDE DEF closures
<1>3. running # Window!Do("resume", None) /\ focus' = focus /\ jobs' = jobs /\ UNCHANGED <<text, busy, ready, jobs, tasks>>
      /\ hotkeys_suspended' = hotkeys_suspended /\ stored' = stored /\ running.what \notin {"translate", "work"}
  BY <1>1, DoIs DEF Window!uiVars
<1>4. Waits' /\ QueueTypes' /\ TextTypes'
  BY <1>1, <1>2, <1>3, DoneStep
<1>5. HostTypes' /\ UiTypes'
  <2>1. stored.keys \in [Fields -> Keys]
    BY DEF WindowInv, WindowTypes, HostTypes, Window!Settings
  <2> QED BY <1>1, <2>1 DEF WindowInv, WindowTypes, HostTypes, UiTypes, Window!uiVars
<1>6. KeysInv'
  BY <1>1, <1>3 DEF WindowInv, KeysInv
<1> QED BY <1>4, <1>5, <1>6, Zenon DEF WindowInv, WindowTypes

LEMMA ListJobKeeps == ASSUME WindowInv, Window!ListJob PROVE WindowInv'
<1> DEFINE e == Window!Do("history", files')
           a == <<e>>
           n == <<>>
<1>1. /\ running.what \in {"remove", "clear", "list"}
      /\ files' \in {files \ {running.about}, {}, files} /\ (Window!Done(a) \/ Window!Done(n))
      /\ UNCHANGED <<Window!uiVars, jobs, tasks>> /\ UNCHANGED <<stored, hotkeys_suspended, grabbed>>
  BY DEF Window!ListJob
<1>2. files' \subseteq Entries
  BY <1>1 DEF WindowInv, WindowTypes, HostTypes
<1>3. e \in Closures /\ e.what = "history"
  BY <1>2 DEF Closures, Window!Do
<1> HIDE DEF e
<1>4. a \in Seq(Closures) /\ Members(a) = {e} /\ n \in Seq(Closures) /\ Members(n) = {}
  BY <1>3, MembersOfOne, MembersOfNone
<1> HIDE DEF a, n
<1>5. running # Window!Do("resume", None) /\ focus' = focus /\ jobs' = jobs /\ UNCHANGED <<text, busy, ready, jobs, tasks>>
      /\ running.what \notin {"translate", "work"} \cup Registering
  BY <1>1, DoIs DEF Window!uiVars, Registering
<1>6. Waits' /\ QueueTypes' /\ TextTypes' /\ running' = Window!NotRunning
  <2>1. CASE Window!Done(a)
    BY <1>3, <1>4, <1>5, <2>1, DoneStep
  <2>2. CASE Window!Done(n)
    BY <1>4, <1>5, <2>2, DoneStep
  <2> QED BY <1>1, <2>1, <2>2
<1>7. HostTypes' /\ UiTypes'
  BY <1>1, <1>2 DEF WindowInv, WindowTypes, HostTypes, UiTypes, Window!uiVars
<1>8. KeysInv'
  BY <1>1, <1>5 DEF WindowInv, KeysInv
<1> QED BY <1>6, <1>7, <1>8, Zenon DEF WindowInv, WindowTypes

LEMMA SpawnKeeps == ASSUME WindowInv, Window!Spawn PROVE WindowInv'
<1> DEFINE n == <<>>
<1>1. /\ running.what \in {"translate", "work"} /\ tasks' = tasks \cup {running} /\ Window!Done(n)
      /\ UNCHANGED <<Window!uiVars, jobs, Window!hostVars>>
  BY DEF Window!Spawn
<1>2. n \in Seq(Closures) /\ Members(n) = {}
  BY MembersOfNone
<1> HIDE DEF n
<1>3. /\ running' \in AtWork /\ running' = Window!NotRunning
      /\ ui_queue' \in Seq(Closures) /\ Members(ui_queue') = Members(ui_queue)
  BY <1>1, <1>2, WorkerIsDone DEF WindowInv
<1>4. running \in Tasks
  <2>1. running \in AtWork
    BY Zenon DEF WindowInv, WindowTypes, QueueTypes
  <2> QED BY <1>1, <2>1, AboutJobs
<1>5. QueueTypes' /\ TextTypes' /\ HostTypes' /\ UiTypes'
  BY <1>1, <1>3, <1>4 DEF WindowInv, WindowTypes, QueueTypes, TextTypes, HostTypes, UiTypes, Window!uiVars, Window!hostVars
<1>6. SameWork(Pending, Pending')
  <2> SUFFICES ASSUME NEW x, NEW w \in {"translate", "work"}
               PROVE  Window!Do(w, x) \in Pending <=> Window!Do(w, x) \in Pending'
    BY Zenon DEF SameWork
  <2>1. Window!Do(w, x) # running'
    BY <1>3, DoIs, NotRunningIs
  <2> QED BY <1>1, <1>3, <2>1 DEF Pending
<1>7. Waits'
  <2>1. UNCHANGED <<text, busy, ready>>
    BY <1>1 DEF Window!uiVars
  <2>2. SameNews(News, News')
    BY <1>3, Zenon DEF SameNews, News
  <2> QED BY <1>6, <2>1, <2>2, WaitsAreKept DEF WindowInv
<1>8. KeysInv'
  <2>1. running # Window!Do("resume", None) /\ running.what \notin Registering
    BY <1>1, DoIs DEF Registering
  <2> QED BY <1>1, <1>3, <2>1 DEF WindowInv, KeysInv, Window!uiVars, Window!hostVars
<1> QED BY <1>5, <1>7, <1>8, Zenon DEF WindowInv, WindowTypes

(* A task ends, and what it was about is told the window. *)
LEMMA TaskEndsKeeps == ASSUME WindowInv, NEW t \in tasks, Window!TaskEnds(t) PROVE WindowInv'
<1> DEFINE e == Window!Do(IF t.what = "work" THEN "finished" ELSE "translated", t.about)
           a == <<e>>
<1>1. /\ tasks' = tasks \ {t} /\ ui_queue' = ui_queue \o a
      /\ UNCHANGED <<Window!uiVars, jobs, running, Window!hostVars>>
  BY Zenon DEF Window!TaskEnds, Window!Post
<1>2. /\ (t.what = "translate" /\ t.about \in Questions) \/ (t.what = "work" /\ t.about \in Entries)
      /\ t = Window!Do(t.what, t.about)
  <2>1. t \in Tasks
    BY Zenon DEF WindowInv, WindowTypes, QueueTypes
  <2>2. CASE t \in [what : {"translate"}, about : Questions]
    BY <2>2 DEF Window!Do
  <2>3. CASE t \in [what : {"work"}, about : Entries]
    BY <2>3 DEF Window!Do
  <2> QED BY <2>1, <2>2, <2>3, Zenon DEF Tasks
<1>3. e \in Closures
  <2>1. CASE t.what = "translate" /\ t.about \in Questions
    <3>1. e = Window!Do("translated", t.about)
      BY <2>1
    <3> HIDE DEF e
    <3> QED BY <2>1, <3>1 DEF Closures, Window!Do
  <2>2. CASE t.what = "work" /\ t.about \in Entries
    <3>1. e = Window!Do("finished", t.about)
      BY <2>2
    <3> HIDE DEF e
    <3> QED BY <2>2, <3>1 DEF Closures, Window!Do
  <2> QED BY <1>2, <2>1, <2>2
<1>4. /\ \A x : Window!Do("translated", x) = e <=> t = Window!Do("translate", x)
      /\ \A x : Window!Do("finished", x) = e <=> t = Window!Do("work", x)
  <2>1. CASE t.what = "translate"
    <3>1. e = Window!Do("translated", t.about)
      BY <2>1
    <3> HIDE DEF e
    <3> QED BY <1>2, <2>1, <3>1, DoIs
  <2>2. CASE t.what = "work"
    <3>1. e = Window!Do("finished", t.about)
      BY <2>2
    <3> HIDE DEF e
    <3> QED BY <1>2, <2>2, <3>1, DoIs
  <2> QED BY <1>2, <2>1, <2>2
<1> HIDE DEF e
<1>5. a \in Seq(Closures) /\ Members(a) = {e}
  BY <1>3, MembersOfOne
<1> HIDE DEF a
<1>6. ui_queue' \in Seq(Closures) /\ Members(ui_queue') = Members(ui_queue) \cup {e}
  <2>1. ui_queue \in Seq(Closures)
    BY Zenon DEF WindowInv, WindowTypes, QueueTypes
  <2> QED BY <1>1, <1>5, <2>1, MembersConcat
<1>7. QueueTypes' /\ TextTypes' /\ HostTypes' /\ UiTypes'
  BY <1>1, <1>6 DEF WindowInv, WindowTypes, QueueTypes, TextTypes, HostTypes, UiTypes, Window!uiVars, Window!hostVars
<1>8. Pending \subseteq Pending' \cup {t} /\ Pending' \subseteq Pending /\ News' = News \cup {e} /\ t \in Pending
  BY <1>1, <1>6 DEF Pending, News
<1>9. \A q : (Window!Do("translate", q) \in Pending' \/ Window!Do("translated", q) \in News') <=> Asked(q)
  BY <1>4, <1>8 DEF Asked
<1>10. \A x : Working(x) => Window!Do("work", x) \in Pending' \/ Window!Do("finished", x) \in News'
  BY <1>4, <1>8 DEF Working
<1>11. QuestionWaits' /\ NoneIsNewer' /\ ResultFits'
  <2>1. UNCHANGED <<text, ready>>
    BY <1>1 DEF Window!uiVars
  <2> QED BY <1>9, <2>1, TextWaits DEF WindowInv
<1>12. BusyWorks'
  <2>1. busy' = busy /\ BusyWorks
    BY <1>1 DEF Window!uiVars, WindowInv, Waits
  <2> QED BY <1>10, <2>1, Zenon DEF BusyWorks, Working
<1>13. KeysInv'
  BY <1>1 DEF WindowInv, KeysInv, Window!uiVars, Window!hostVars
<1> QED BY <1>7, <1>11, <1>12, <1>13, Zenon DEF WindowInv, WindowTypes, Waits

-----------------------------------------------------------------------------
(* The main window: a turn of the UI thread *)

LEMMA AboutClosures ==
  ASSUME NEW c \in Closures
  PROVE  /\ c.what \in {"loaded", "show"} => c.about \in Loads
         /\ c.what = "saved" => c.about \in Window!Settings
         /\ c.what = "translated" => c.about \in Questions
         /\ c.what = "finished" => c.about \in Entries
         /\ c.what = "history" => c.about \subseteq Entries
         /\ c = Window!Do(c.what, c.about)
<1>1. CASE c \in [what : {"loaded", "show"}, about : Loads]
  BY <1>1 DEF Window!Do
<1>2. CASE c \in [what : {"saved"}, about : Window!Settings]
  BY <1>2 DEF Window!Do
<1>3. CASE c \in [what : {"reload"}, about : {None}]
  BY <1>3 DEF Window!Do
<1>4. CASE c \in [what : {"translated"}, about : Questions]
  BY <1>4 DEF Window!Do
<1>5. CASE c \in [what : {"finished"}, about : Entries]
  BY <1>5 DEF Window!Do
<1>6. CASE c \in [what : {"history"}, about : SUBSET Entries]
  BY <1>6 DEF Window!Do
<1> QED BY <1>1, <1>2, <1>3, <1>4, <1>5, <1>6, Zenon DEF Closures

(* The closure at the head is taken; the worker and the application stay. *)
LEMMA UiTakes ==
  ASSUME WindowInv, ui_queue # <<>>, ui_queue' = Tail(ui_queue)
  PROVE  /\ ui_queue' \in Seq(Closures) /\ Head(ui_queue) \in Closures
         /\ News = {Head(ui_queue)} \cup News'
<1>1. ui_queue \in Seq(Closures)
  BY Zenon DEF WindowInv, WindowTypes, QueueTypes
<1> QED BY <1>1, MembersTail DEF News

(* A closure that is no answer and no end of any work. *)
LEMMA UiOther ==
  ASSUME WindowInv, ui_queue # <<>>, ui_queue' = Tail(ui_queue), Head(ui_queue).what \notin {"translated", "finished"}
  PROVE  SameNews(News, News')
<1>1. News = {Head(ui_queue)} \cup News'
  BY UiTakes
<1> SUFFICES ASSUME NEW x, NEW w \in {"translated", "finished"}
             PROVE  Window!Do(w, x) \in News <=> Window!Do(w, x) \in News'
  BY Zenon DEF SameNews
<1>2. Window!Do(w, x) # Head(ui_queue)
  BY DoIs
<1> QED BY <1>1, <1>2

(* A turn that changes no question, no busy entry and no hotkeys. *)
LEMMA UiQuiet ==
  ASSUME WindowInv, ui_queue # <<>>, ui_queue' = Tail(ui_queue), Head(ui_queue).what \notin {"translated", "finished"},
         UNCHANGED <<running, tasks, text, busy, ready, jobs>>
  PROVE  Waits' /\ QueueTypes' /\ TextTypes'
<1>1. ui_queue' \in Seq(Closures) /\ SameNews(News, News')
  BY UiTakes, UiOther
<1>2. SameWork(Pending, Pending') /\ UNCHANGED <<text, busy, ready>>
  BY Zenon DEF SameWork, Pending
<1>3. Waits'
  BY <1>1, <1>2, WaitsAreKept DEF WindowInv
<1>4. QueueTypes' /\ TextTypes'
  BY <1>1 DEF WindowInv, WindowTypes, QueueTypes, TextTypes
<1> QED BY <1>3, <1>4

LEMMA HostStays ==
  ASSUME WindowInv, UNCHANGED <<running, Window!hostVars>>
  PROVE  HostTypes' /\ (UNCHANGED <<focus, jobs>> => KeysInv')
<1>1. HostTypes'
  BY DEF WindowInv, WindowTypes, HostTypes, Window!hostVars
<1>2. UNCHANGED <<focus, jobs>> => KeysInv'
  BY DEF WindowInv, KeysInv, Window!hostVars
<1> QED BY <1>1, <1>2

Reposted(l) ==
  ui_queue # <<>> /\ Head(ui_queue).what = "loaded" /\ ui_queue' = Append(Tail(ui_queue), Window!Do("show", l))

LEMMA UiPosts ==
  ASSUME WindowInv, UNCHANGED <<running, Window!hostVars, tasks>>, UNCHANGED <<Window!uiVars, jobs>>,
         NEW l \in Loads, Reposted(l)
  PROVE  WindowInv'
<1> DEFINE e == Window!Do("show", l)
           rest == Tail(ui_queue)
<1>1. e \in Closures /\ e.what = "show"
  BY DEF Closures, Window!Do
<1>2. rest \in Seq(Closures) /\ Members(ui_queue) = {Head(ui_queue)} \cup Members(rest)
  <2>1. ui_queue \in Seq(Closures) /\ ui_queue # <<>>
    BY Zenon DEF WindowInv, WindowTypes, QueueTypes, Reposted
  <2> QED BY <2>1, MembersTail
<1>3. ui_queue' = Append(rest, e) /\ Head(ui_queue).what = "loaded"
  BY Zenon DEF Reposted
<1> HIDE DEF e, rest
<1>4. ui_queue' \in Seq(Closures) /\ Members(ui_queue') = Members(rest) \cup {e}
  <2>1. Append(rest, e) \in Seq(Closures) /\ Members(Append(rest, e)) = Members(rest) \cup {e}
    BY <1>1, <1>2, MembersAppend
  <2> QED BY <1>3, <2>1, Zenon
<1>5. SameNews(News, News')
  <2> SUFFICES ASSUME NEW x, NEW w \in {"translated", "finished"}
               PROVE  Window!Do(w, x) \in News <=> Window!Do(w, x) \in News'
    BY Zenon DEF SameNews
  <2>1. Window!Do(w, x) # Head(ui_queue) /\ Window!Do(w, x) # e
    BY <1>1, <1>3, DoIs
  <2> QED BY <1>2, <1>4, <2>1 DEF News
<1>6. UNCHANGED <<text, busy, ready, jobs, tasks, running, focus>>
  BY DEF Window!uiVars
<1>7. SameWork(Pending, Pending')
  BY <1>6, Zenon DEF SameWork, Pending
<1>8. Waits'
  BY <1>5, <1>6, <1>7, WaitsAreKept DEF WindowInv
<1>9. QueueTypes' /\ TextTypes' /\ UiTypes'
  BY <1>4, <1>6 DEF WindowInv, WindowTypes, QueueTypes, TextTypes, UiTypes, Window!uiVars
<1>10. HostTypes' /\ KeysInv'
  BY <1>6, HostStays
<1> QED BY <1>8, <1>9, <1>10, Zenon DEF WindowInv, WindowTypes

(* What was loaded is shown: the page waits for nothing. *)
LEMMA UiShows ==
  ASSUME WindowInv, ui_queue # <<>>, UNCHANGED <<running, Window!hostVars, tasks>>, ui_queue' = Tail(ui_queue),
         Head(ui_queue).what = "show", NEW l \in Loads, Window!Loaded(l), shown' = (shown \/ requested),
         UNCHANGED <<revision, requested, focus, busy, jobs>>
  PROVE  WindowInv'
<1>1. ui_queue' \in Seq(Closures) /\ SameNews(News, News')
  BY UiTakes, UiOther
<1>2. SameWork(Pending, Pending')
  BY Zenon DEF SameWork, Pending
<1>3. text' = [request |-> text.request, visible |-> FALSE, loading |-> FALSE, input |-> None, result |-> None]
  BY DEF Window!Loaded, Window!NoText
<1>4. text.request \in Nat
  BY DEF WindowInv, WindowTypes, TextTypes
<1>5. TextTypes' /\ text'.request = text.request /\ text'.visible = FALSE /\ text'.loading = FALSE
  BY <1>3, <1>4 DEF TextTypes
<1>6. QuestionWaits' /\ ResultFits'
  BY <1>5, Zenon DEF QuestionWaits, ResultFits
<1>7. NoneIsNewer'
  <2>1. \A q : (Window!Do("translate", q) \in Pending' \/ Window!Do("translated", q) \in News') <=> Asked(q)
    BY <1>1, <1>2, Zenon DEF Asked, SameWork, SameNews
  <2>2. NoneIsNewer
    BY Zenon DEF WindowInv, Waits
  <2> QED BY <1>5, <2>1, <2>2, Zenon DEF NoneIsNewer, Asked
<1>8. BusyWorks'
  <2>1. \A x : (Window!Do("work", x) \in Pending' \/ Window!Do("finished", x) \in News') <=> Working(x)
    BY <1>1, <1>2, Zenon DEF Working, SameWork, SameNews
  <2>2. BusyWorks /\ busy' = busy
    BY DEF WindowInv, Waits
  <2> QED BY <2>1, <2>2, Zenon DEF BusyWorks, Working
<1>9. QueueTypes'
  BY <1>1 DEF WindowInv, WindowTypes, QueueTypes
<1>10. UiTypes'
  <2>1. l.settings \in Window!Settings /\ l.history \subseteq Entries
    BY DEF Loads
  <2> QED BY <2>1 DEF WindowInv, WindowTypes, UiTypes, Window!Loaded, Window!Pages
<1>11. HostTypes' /\ KeysInv'
  BY HostStays
<1> QED BY <1>5, <1>6, <1>7, <1>8, <1>9, <1>10, <1>11, Zenon DEF WindowInv, WindowTypes, Waits

LEMMA UiSaved ==
  ASSUME WindowInv, ui_queue # <<>>, UNCHANGED <<running, Window!hostVars, tasks>>, ui_queue' = Tail(ui_queue),
         Head(ui_queue).what \notin {"translated", "finished"},
         settings' \in Window!Settings, history' \subseteq Entries,
         UNCHANGED <<page, ready, revision, shown, requested, focus, text, busy, jobs>>
  PROVE  WindowInv'
<1>1. Waits' /\ QueueTypes' /\ TextTypes'
  BY UiQuiet
<1>2. HostTypes' /\ KeysInv'
  BY HostStays
<1>3. UiTypes'
  BY DEF WindowInv, WindowTypes, UiTypes
<1> QED BY <1>1, <1>2, <1>3, Zenon DEF WindowInv, WindowTypes

(* The window is loaded anew: whatever was asked is of an older request. *)
Popped(what) == ui_queue # <<>> /\ ui_queue' = Tail(ui_queue) /\ Head(ui_queue).what = what

LEMMA RequestGoesUp ==
  ASSUME NEW T, NEW t \in [request : Nat, visible : BOOLEAN, loading : BOOLEAN, input : T, result : T],
         NEW u, u = [t EXCEPT !.request = @ + 1]
  PROVE  /\ u \in [request : Nat, visible : BOOLEAN, loading : BOOLEAN, input : T, result : T]
         /\ u.request = t.request + 1 /\ t.request \in Nat /\ u.visible = t.visible
         /\ u.loading = t.loading /\ u.input = t.input /\ u.result = t.result
  OBVIOUS

LEMMA UiReloads ==
  ASSUME WindowInv, UNCHANGED <<running, Window!hostVars, tasks>>, Popped("reload"), Window!Reloaded,
         UNCHANGED <<page, shown, requested, settings, history, busy>>
  PROVE  WindowInv'
<1> DEFINE e == Window!Do("load", revision + 1)
           blurs == Window!BlurJobs
           load == <<e>>
           X == Members(blurs) \cup {e}
<1>1. /\ focus' = None /\ ready' = FALSE /\ revision' = revision + 1
      /\ text' = [text EXCEPT !.request = @ + 1] /\ jobs' = jobs \o blurs \o load
  BY Zenon DEF Window!Reloaded
<1>2. blurs \in Seq(Jobs) /\ Members(blurs) = IF focus = None THEN {} ELSE {Window!Do("resume", None)}
  BY BlurAsks, Zenon
<1>3. e \in Jobs /\ e.what = "load"
  <2>1. revision + 1 \in Nat
    BY DEF WindowInv, WindowTypes, UiTypes
  <2> QED BY <2>1 DEF Jobs, Window!Do
<1> HIDE DEF e
<1>4. load \in Seq(Jobs) /\ Members(load) = {e}
  BY <1>3, MembersOfOne, Zenon
<1> HIDE DEF blurs, load
<1>5. jobs' \in Seq(Jobs) /\ Members(jobs') = Members(jobs) \cup X
  <2>1. jobs \in Seq(Jobs)
    BY Zenon DEF WindowInv, WindowTypes, QueueTypes
  <2> DEFINE first == jobs \o blurs
  <2>2. first \in Seq(Jobs) /\ Members(first) = Members(jobs) \cup Members(blurs)
    BY <1>2, <2>1, MembersConcat
  <2>3. jobs' = first \o load
    BY <1>1, Zenon
  <2> HIDE DEF first
  <2>4. first \o load \in Seq(Jobs) /\ Members(first \o load) = Members(first) \cup Members(load)
    BY <1>4, <2>2, MembersConcat
  <2>5. Members(first) \cup Members(load) = Members(jobs) \cup X
    BY <1>4, <2>2
  <2> QED BY <2>3, <2>4, <2>5, Zenon
<1>6. \A j \in X : j.what \notin {"translate", "work"}
  BY <1>2, <1>3, DoIs
<1> HIDE DEF X
<1>7. running' = running /\ tasks' = tasks /\ busy' = busy
  OBVIOUS
<1>8. SameWork(Pending, Pending')
  BY <1>5, <1>6, <1>7, AsksAreKept
<1>9. ui_queue' \in Seq(Closures) /\ SameNews(News, News')
  BY UiTakes, UiOther DEF Popped
<1>10. TextTypes' /\ text'.request = text.request + 1 /\ text.request \in Nat /\ text'.visible = text.visible
       /\ text'.loading = text.loading /\ text'.input = text.input /\ text'.result = text.result
  <2>1. text \in [request : Nat, visible : BOOLEAN, loading : BOOLEAN, input : Texts \cup {None}, result : Texts \cup {None}]
    BY DEF WindowInv, WindowTypes, TextTypes
  <2>2. text' = [text EXCEPT !.request = @ + 1]
    BY <1>1
  <2> QED BY <2>1, <2>2, RequestGoesUp, Zenon DEF TextTypes
<1>11. QuestionWaits'
  BY <1>1, Zenon DEF QuestionWaits
<1>12. ResultFits'
  BY <1>10, Zenon DEF WindowInv, Waits, ResultFits
<1>13. NoneIsNewer'
  <2> SUFFICES ASSUME NEW q \in Questions, Window!Do("translate", q) \in Pending' \/ Window!Do("translated", q) \in News'
               PROVE  q.request <= text'.request /\ (q.request = text'.request /\ text'.visible => q.input = text'.input)
    BY Zenon DEF NoneIsNewer, Asked
  <2>1. Asked(q)
    BY <1>8, <1>9, Zenon DEF Asked, SameWork, SameNews
  <2>2. q.request <= text.request /\ q.request \in Nat
    BY <2>1 DEF WindowInv, Waits, NoneIsNewer, Questions
  <2> QED BY <1>10, <2>2
<1>14. BusyWorks'
  <2>1. \A x : (Window!Do("work", x) \in Pending' \/ Window!Do("finished", x) \in News') <=> Working(x)
    BY <1>8, <1>9, Zenon DEF Working, SameWork, SameNews
  <2>2. BusyWorks /\ busy' = busy
    BY <1>7 DEF WindowInv, Waits
  <2> QED BY <2>1, <2>2, Zenon DEF BusyWorks, Working
<1>15. QueueTypes'
  BY <1>5, <1>9 DEF WindowInv, WindowTypes, QueueTypes
<1>16. UiTypes'
  <2>1. revision' \in Nat
    BY <1>1 DEF WindowInv, WindowTypes, UiTypes
  <2>2. UiTypes /\ focus' \in Fields \cup {None} /\ ready' \in BOOLEAN
    BY <1>1, Zenon DEF WindowInv, WindowTypes
  <2>3. page' = page /\ settings' = settings /\ history' = history /\ busy' = busy
    OBVIOUS
  <2>4. shown' \in BOOLEAN /\ requested' \in BOOLEAN /\ (shown' => requested')
    BY <2>2 DEF UiTypes
  <2> QED BY <2>1, <2>2, <2>3, <2>4, Zenon DEF UiTypes
<1>17. HostTypes' /\ KeysInv'
  <2>1. HostTypes'
    BY HostStays
  <2>2. UNCHANGED <<running, stored, hotkeys_suspended, grabbed>>
    BY DEF Window!hostVars
  <2>3. Members(jobs) \subseteq Members(jobs') /\ (focus # None => Window!Do("resume", None) \in Members(jobs'))
    BY <1>2, <1>5 DEF X
  <2> QED BY <2>1, <2>2, <2>3, KeysStep DEF WindowInv
<1> QED BY <1>10, <1>11, <1>12, <1>13, <1>14, <1>15, <1>16, <1>17, Zenon DEF WindowInv, WindowTypes, Waits

(* An answer to the page's question shows; an answer to an older one is let  *)
(* go.                                                                       *)
LEMMA UiAnswers ==
  ASSUME WindowInv, UNCHANGED <<running, Window!hostVars, tasks>>, Popped("translated"),
         NEW p \in Questions, Head(ui_queue) = Window!Do("translated", p),
         IF p.request = text.request
         THEN \E answer \in {p.input, None} : text' = [text EXCEPT !.loading = FALSE, !.result = answer]
         ELSE UNCHANGED text,
         UNCHANGED <<page, ready, revision, shown, requested, focus, settings, history, busy, jobs>>
  PROVE  WindowInv'
<1>1. ui_queue' \in Seq(Closures) /\ News = {Window!Do("translated", p)} \cup News'
  BY UiTakes DEF Popped
<1>2. running' = running /\ tasks' = tasks /\ jobs' = jobs /\ busy' = busy /\ ready' = ready
  OBVIOUS
<1>3. Pending' = Pending
  BY <1>2, Zenon DEF Pending
<1>4. /\ \A q : (Window!Do("translate", q) \in Pending' \/ Window!Do("translated", q) \in News') => Asked(q)
      /\ \A q : q # p /\ Asked(q) => (Window!Do("translate", q) \in Pending' \/ Window!Do("translated", q) \in News')
      /\ Asked(p)
  BY <1>1, <1>3, DoIs DEF Asked
<1>5. BusyWorks'
  <2>1. \A x : (Window!Do("work", x) \in Pending' \/ Window!Do("finished", x) \in News') <=> Working(x)
    BY <1>1, <1>3, DoIs DEF Working
  <2>2. BusyWorks
    BY Zenon DEF WindowInv, Waits
  <2> QED BY <1>2, <2>1, <2>2, Zenon DEF BusyWorks, Working
<1>6. QueueTypes' /\ UiTypes' /\ HostTypes' /\ KeysInv'
  <2>1. HostTypes' /\ KeysInv'
    BY HostStays
  <2>2. UiTypes'
    BY DEF WindowInv, WindowTypes, UiTypes
  <2>3. QueueTypes'
    BY <1>1, <1>2 DEF WindowInv, WindowTypes, QueueTypes
  <2> QED BY <2>1, <2>2, <2>3
<1>7. TextTypes /\ NoneIsNewer /\ QuestionWaits /\ ResultFits
  BY Zenon DEF WindowInv, WindowTypes, Waits
<1>8. CASE p.request = text.request
  <2> PICK answer \in {p.input, None} : text' = [text EXCEPT !.loading = FALSE, !.result = answer]
    BY <1>8
  <2>1. answer \in Texts \cup {None}
    BY DEF Questions
  <2>2. TextTypes' /\ text'.request = text.request /\ text'.visible = text.visible /\ text'.loading = FALSE
        /\ text'.input = text.input /\ text'.result = answer
    BY <1>7, <2>1 DEF TextTypes
  <2>3. QuestionWaits'
    BY <2>2, Zenon DEF QuestionWaits
  <2>4. NoneIsNewer'
    BY <1>4, <1>7, <2>2, Zenon DEF NoneIsNewer, Asked
  <2>5. text.visible => p.input = text.input
    BY <1>4, <1>7, <1>8, Zenon DEF NoneIsNewer
  <2>6. text'.visible => text'.result \in {text'.input, None}
    BY <2>2, <2>5
  <2>7. ResultFits'
    BY <2>6, Zenon DEF ResultFits
  <2> QED BY <1>5, <1>6, <2>2, <2>3, <2>4, <2>7, Zenon DEF WindowInv, WindowTypes, Waits
<1>9. CASE p.request # text.request
  <2>1. text' = text
    BY <1>9
  <2> DEFINE q == [request |-> text.request, input |-> text.input]
  <2>2. q # p /\ q' = q
    BY <1>9, <2>1
  <2>3. TextTypes' /\ ResultFits'
    BY <1>7, <2>1, Zenon DEF TextTypes, ResultFits
  <2>4. NoneIsNewer'
    BY <1>4, <1>7, <2>1, Zenon DEF NoneIsNewer, Asked
  <2>5. QuestionWaits <=> (ready /\ text.loading => Asked(q))
    BY Zenon DEF QuestionWaits
  <2>6. QuestionWaits' <=> (ready' /\ text'.loading => Window!Do("translate", q') \in Pending' \/ Window!Do("translated", q') \in News')
    BY Zenon DEF QuestionWaits, Asked
  <2> HIDE DEF q
  <2>7. ready' /\ text'.loading => ready /\ text.loading
    BY <1>2, <2>1
  <2>8. QuestionWaits'
    BY <1>4, <1>7, <2>2, <2>5, <2>6, <2>7, Zenon
  <2> QED BY <1>5, <1>6, <2>3, <2>4, <2>8, Zenon DEF WindowInv, WindowTypes, Waits
<1> QED BY <1>8, <1>9

LEMMA UiFinishes ==
  ASSUME WindowInv, UNCHANGED <<running, Window!hostVars, tasks>>, Popped("finished"),
         NEW x \in Entries, Head(ui_queue) = Window!Do("finished", x), busy' = busy \ {x},
         UNCHANGED <<page, ready, revision, shown, requested, focus, settings, text, history, jobs>>
  PROVE  WindowInv'
<1>1. ui_queue' \in Seq(Closures) /\ News = {Window!Do("finished", x)} \cup News'
  BY UiTakes DEF Popped
<1>2. running' = running /\ tasks' = tasks /\ jobs' = jobs
  OBVIOUS
<1>3. Pending' = Pending
  BY <1>2, Zenon DEF Pending
<1>4. /\ \A q : (Window!Do("translate", q) \in Pending' \/ Window!Do("translated", q) \in News') <=> Asked(q)
      /\ \A y : y # x /\ Working(y) => (Window!Do("work", y) \in Pending' \/ Window!Do("finished", y) \in News')
  BY <1>1, <1>3, DoIs DEF Asked, Working
<1>5. QuestionWaits' /\ NoneIsNewer' /\ ResultFits'
  BY <1>4, TextWaits DEF WindowInv
<1>6. BusyWorks'
  <2>1. BusyWorks
    BY Zenon DEF WindowInv, Waits
  <2>2. \A y \in busy' : y \in busy /\ y # x
    OBVIOUS
  <2> QED BY <1>4, <2>1, <2>2, Zenon DEF BusyWorks, Working
<1>7. QueueTypes' /\ TextTypes'
  BY <1>1, <1>2 DEF WindowInv, WindowTypes, QueueTypes, TextTypes
<1>8. UiTypes'
  BY DEF WindowInv, WindowTypes, UiTypes
<1>9. HostTypes' /\ KeysInv'
  BY HostStays
<1> QED BY <1>5, <1>6, <1>7, <1>8, <1>9, Zenon DEF WindowInv, WindowTypes, Waits

LEMMA UiKeeps == ASSUME WindowInv, Window!Ui PROVE WindowInv'
<1> DEFINE c == Head(ui_queue)
<1>1. ui_queue # <<>> /\ Window!UiTurn(c) /\ UNCHANGED <<running, Window!hostVars, tasks>>
  BY DEF Window!Ui
<1>2. c \in Closures
  <2>1. ui_queue \in Seq(Closures)
    BY Zenon DEF WindowInv, WindowTypes, QueueTypes
  <2> QED BY <1>1, <2>1, MembersTail
<1>3. settings \in Window!Settings /\ history \subseteq Entries
  BY Zenon DEF WindowInv, WindowTypes, UiTypes
<1>4. CASE c.what = "loaded" /\ c.about.revision = revision /\ ui_queue' = Append(Tail(ui_queue), Window!Do("show", c.about))
           /\ UNCHANGED <<Window!uiVars, jobs>>
  <2>1. c.about \in Loads /\ Reposted(c.about)
    BY <1>1, <1>2, <1>4, AboutClosures, Zenon DEF Reposted
  <2> QED BY <1>1, <1>4, <2>1, UiPosts
<1>5. CASE c.what \in {"loaded", "show"} /\ c.about.revision # revision /\ ui_queue' = Tail(ui_queue) /\ UNCHANGED <<Window!uiVars, jobs>>
  <2>1. settings' = settings /\ history' = history /\ c.what \notin {"translated", "finished"}
        /\ UNCHANGED <<page, ready, revision, shown, requested, focus, text, busy, jobs>>
    BY <1>5 DEF Window!uiVars
  <2> QED BY <1>1, <1>3, <1>5, <2>1, UiSaved
<1>6. CASE c.what = "show" /\ Window!Loaded(c.about) /\ shown' = (shown \/ requested) /\ ui_queue' = Tail(ui_queue)
           /\ UNCHANGED <<revision, requested, focus, busy, jobs>>
  <2>1. c.about \in Loads
    BY <1>2, <1>6, AboutClosures
  <2> QED BY <1>1, <1>6, <2>1, UiShows
<1>7. CASE c.what = "saved" /\ settings' = c.about /\ ui_queue' = Tail(ui_queue)
           /\ UNCHANGED <<page, ready, revision, shown, requested, focus, text, history, busy, jobs>>
  <2>1. c.about \in Window!Settings /\ c.what \notin {"translated", "finished"}
    BY <1>2, <1>7, AboutClosures
  <2> QED BY <1>1, <1>3, <1>7, <2>1, UiSaved
<1>8. CASE c.what = "reload" /\ Window!Reloaded /\ ui_queue' = Tail(ui_queue) /\ UNCHANGED <<page, shown, requested, settings, history, busy>>
  BY <1>1, <1>8, UiReloads DEF Popped
<1>9. CASE /\ c.what = "translated"
           /\ IF c.about.request = text.request
              THEN \E answer \in {c.about.input, None} : text' = [text EXCEPT !.loading = FALSE, !.result = answer]
              ELSE UNCHANGED text
           /\ ui_queue' = Tail(ui_queue)
           /\ UNCHANGED <<page, ready, revision, shown, requested, focus, settings, history, busy, jobs>>
  <2> DEFINE p == c.about
  <2>1. p \in Questions /\ c = Window!Do("translated", p)
    BY <1>2, <1>9, AboutClosures
  <2>2. Popped("translated")
    BY <1>1, <1>9 DEF Popped
  <2> QED BY <1>1, <1>9, <2>1, <2>2, UiAnswers
<1>10. CASE c.what = "finished" /\ busy' = busy \ {c.about} /\ ui_queue' = Tail(ui_queue)
            /\ UNCHANGED <<page, ready, revision, shown, requested, focus, settings, text, history, jobs>>
  <2> DEFINE x == c.about
  <2>1. x \in Entries /\ c = Window!Do("finished", x)
    BY <1>2, <1>10, AboutClosures
  <2>2. Popped("finished")
    BY <1>1, <1>10 DEF Popped
  <2> QED BY <1>1, <1>10, <2>1, <2>2, UiFinishes
<1>11. CASE c.what = "history" /\ history' = c.about /\ ui_queue' = Tail(ui_queue)
            /\ UNCHANGED <<page, ready, revision, shown, requested, focus, settings, text, busy, jobs>>
  <2>1. c.about \subseteq Entries /\ c.what \notin {"translated", "finished"}
    BY <1>2, <1>11, AboutClosures
  <2>2. settings' = settings
    BY <1>11
  <2> QED BY <1>1, <1>3, <1>11, <2>1, <2>2, UiSaved
<1> QED BY <1>1, <1>4, <1>5, <1>6, <1>7, <1>8, <1>9, <1>10, <1>11, Zenon DEF Window!UiTurn

(* Every step of the window's, of its worker and of the UI thread. *)
LEMMA WindowStep == ASSUME Window!WindowAssumption, WindowInv, Window!Next PROVE WindowInv'
<1>1. ASSUME NEW f \in Fields, Window!HotkeyFocus(f) PROVE WindowInv'
  BY <1>1, HotkeyFocusKeeps
<1>2. CASE Window!HotkeyBlur
  BY <1>2, HotkeyBlurKeeps
<1>3. ASSUME NEW k \in Keys \cup {None}, Window!HotkeyRecorded(k) PROVE WindowInv'
  BY <1>3, HotkeyRecordedKeeps
<1>4. ASSUME NEW p \in Window!Pages, Window!Navigate(p) PROVE WindowInv'
  BY <1>4, NavigateKeeps
<1>5. CASE Window!MicrophoneToggle
  BY <1>5, MicrophoneToggleKeeps
<1>6. CASE Window!ChooseLanguage
  BY <1>6, ChooseLanguageKeeps
<1>7. ASSUME NEW t \in Texts \cup {None}, Window!TranslateText(t) PROVE WindowInv'
  BY <1>7, TranslateTextKeeps
<1>8. ASSUME NEW e \in Entries, Window!HistoryRemove(e) \/ Window!HistoryWork(e) \/ Window!Captured(e) PROVE WindowInv'
  BY <1>8, HistoryRemoveKeeps, HistoryWorkKeeps, CapturedKeeps
<1>9. CASE Window!ClearHistory \/ Window!Close \/ Window!Show
  BY <1>9, ClearHistoryKeeps, CloseKeeps, ShowKeeps
<1>10. CASE Window!Work
  BY <1>10, TakeJobKeeps, LoadKeeps, SaveKeeps, ResumeKeeps, RegisterClearKeeps, RegisterLookKeeps, RegisterGrabKeeps,
     SpawnKeeps, ListJobKeeps, Zenon DEF Window!Work
<1>11. CASE Window!Ui
  BY <1>11, UiKeeps
<1>12. ASSUME NEW t \in tasks, Window!TaskEnds(t) PROVE WindowInv'
  BY <1>12, TaskEndsKeeps
<1> QED BY <1>1, <1>2, <1>3, <1>4, <1>5, <1>6, <1>7, <1>8, <1>9, <1>10, <1>11, <1>12, Zenon DEF Window!Next

LEMMA WindowStarts == ASSUME Window!WindowAssumption, Window!Init PROVE WindowInv
<1>1. WindowTypes
  BY WindowTypesInit
<1>2. /\ text = [Window!NoText EXCEPT !.request = 1] /\ busy = {} /\ ready = FALSE
      /\ ui_queue = <<>> /\ jobs = <<Window!Do("load", 1)>> /\ running = Window!NotRunning /\ tasks = {}
      /\ hotkeys_suspended = FALSE /\ grabbed = Window!FirstSettings.keys /\ stored = Window!FirstSettings
  BY Zenon DEF Window!Init
<1>3. KeysInv
  BY <1>2, Zenon DEF KeysInv
<1>4. text.visible = FALSE
  BY <1>2 DEF Window!NoText
<1>5. Pending = {Window!Do("load", 1), Window!NotRunning} /\ News = {}
  <2>1. Members(jobs) = {Window!Do("load", 1)} /\ Members(ui_queue) = {}
    BY <1>2, MembersOfOne, MembersOfNone, Zenon
  <2> QED BY <1>2, <2>1 DEF Pending, News
<1>6. \A q : ~Asked(q)
  <2>1. \A q : Window!Do("translate", q) # Window!NotRunning /\ Window!Do("translate", q) # Window!Do("load", 1)
    BY DoIs, NotRunningIs
  <2> QED BY <1>5, <2>1 DEF Asked
<1>7. QuestionWaits /\ BusyWorks
  BY <1>2, Zenon DEF QuestionWaits, BusyWorks
<1>8. NoneIsNewer
  BY <1>6, Zenon DEF NoneIsNewer
<1>9. ResultFits
  BY <1>4, Zenon DEF ResultFits
<1> QED BY <1>1, <1>3, <1>7, <1>8, <1>9, Zenon DEF WindowInv, Waits

LEMMA WindowStutters ==
  ASSUME WindowInv,
         page' = page, ready' = ready, revision' = revision, shown' = shown, requested' = requested,
         focus' = focus, settings' = settings, text' = text, history' = history, busy' = busy,
         ui_queue' = ui_queue, jobs' = jobs, running' = running, stored' = stored, files' = files,
         hotkeys_suspended' = hotkeys_suspended, grabbed' = grabbed, tasks' = tasks
  PROVE  WindowInv'
<1>1. SameWork(Pending, Pending') /\ SameNews(News, News')
  BY Zenon DEF SameWork, SameNews, Pending, News
<1>2. Waits'
  BY <1>1, WaitsAreKept DEF WindowInv
<1>3. TextTypes' /\ QueueTypes' /\ UiTypes' /\ HostTypes'
  BY DEF WindowInv, WindowTypes, TextTypes, QueueTypes, UiTypes, HostTypes
<1>4. KeysInv'
  BY DEF WindowInv, KeysInv
<1> QED BY <1>2, <1>3, <1>4, Zenon DEF WindowInv, WindowTypes

(* What the invariant says of the window at rest. *)
LEMMA WindowRests == ASSUME WindowInv PROVE Window!KeysComeBack /\ Window!NothingWaitsInVain
<1>1. ASSUME NEW what, NEW about, Window!Do(what, about) \in Pending PROVE Window!OnItsWay(what, about)
  BY <1>1 DEF Pending, Members, Window!OnItsWay
<1>2. News = Window!Range(ui_queue)
  BY DEF News, Members, Window!Range
<1>3. Window!KeysComeBack
  <2> SUFFICES ASSUME jobs = <<>>, running = Window!NotRunning, focus = None PROVE grabbed = stored.keys
    BY Zenon DEF Window!KeysComeBack, Window!AtRest
  <2>1. Members(jobs) = {}
    BY MembersOfNone, Zenon
  <2>2. running # Window!Do("resume", None) /\ running.what \notin Registering
    BY NotRunningIs
  <2> QED BY <2>1, <2>2 DEF WindowInv, KeysInv
<1>4. QuestionWaits /\ BusyWorks /\ ResultFits
  BY Zenon DEF WindowInv, Waits
<1> HIDE DEF Window!OnItsWay
<1>5. ready /\ text.loading =>
        Window!OnItsWay("translate", [request |-> text.request, input |-> text.input])
        \/ Window!Do("translated", [request |-> text.request, input |-> text.input]) \in Window!Range(ui_queue)
  BY <1>1, <1>2, <1>4, Zenon DEF QuestionWaits, Asked
<1>6. \A e \in busy : Window!OnItsWay("work", e) \/ Window!Do("finished", e) \in Window!Range(ui_queue)
  BY <1>1, <1>2, <1>4, Zenon DEF BusyWorks, Working
<1>7. text.visible /\ ~text.loading => text.result \in {text.input, None}
  BY <1>4, Zenon DEF ResultFits
<1> QED BY <1>3, <1>5, <1>6, <1>7, Zenon DEF Window!NothingWaitsInVain

-----------------------------------------------------------------------------
(* One instance (single_instance.rs).  The mutex has one owner, and only it  *)
(* has the pipe; a client that talks has the pipe or an excuse; what is in   *)
(* the pipe fits what both ends are at.                                      *)

Active == {"creating", "first", "stopping", "opening", "sending", "waiting", "confirming"}
Owning == {"creating", "first", "stopping"}
Talking == {"sending", "waiting", "confirming"}

OneOwner ==
  /\ \A x \in Processes : x \in holders <=> pc[x] \in Active
  /\ \A x, y \in Processes : pc[x] \in Owning /\ pc[y] \in Owning => x = y
  /\ pipe.server # Nobody => pc[pipe.server] \in {"first", "stopping"}

PipeFits ==
  /\ pipe.at = "none" => pipe.server = Nobody
  /\ pipe.at = "listening" => pipe.client = Nobody /\ to_server = "" /\ to_client = ""
  /\ pipe.at \in {"connected", "heard", "acknowledged"} => pipe.client # Nobody
  /\ pipe.at \in {"heard", "acknowledged"} => pipe.client \in heard
  /\ to_server = "arguments" => pipe.at = "connected" /\ pc[pipe.client] # "sending"
  /\ to_client = "ack" => pipe.at = "acknowledged"
  /\ to_server = "confirmed" => pipe.at = "acknowledged" /\ pc[pipe.client] = "forwarded"

ClientFits(p) ==
  /\ pc[p] \in Talking => pipe.client = p \/ p \in excused
  /\ pc[p] = "sending" /\ pipe.client = p => pipe.at = "connected"
  /\ pc[p] = "confirming" /\ pipe.client = p => pipe.at = "acknowledged"
  /\ pc[p] \in {"confirming", "forwarded"} => p \in heard
  /\ pc[p] = "failed" => p \in excused

ClientsFit == \A p \in Processes : ClientFits(p)

InstancesInv == Instances!TypeOK /\ OneOwner /\ PipeFits /\ ClientsFit

Places == {"new", "creating", "first", "stopping", "opening", "sending", "waiting", "confirming",
           "forwarded", "failed", "gone"}
PipeStages == {"none", "listening", "connected", "heard", "acknowledged"}
PipeEnds == Processes \cup {Nobody}

(* A step of a process; what becomes of the pipe. *)
Moves(p, goal) ==
  /\ pc' \in [Processes -> Places] /\ pc'[p] = goal
  /\ \A q \in Processes : q # p => pc'[q] = pc[q]

PipeIs(s, c, a) ==
  /\ pipe' \in [server : PipeEnds, client : PipeEnds, at : PipeStages]
  /\ pipe'.server = s /\ pipe'.client = c /\ pipe'.at = a
  /\ s = Nobody <=> pipe' = Instances!NoPipe

LEMMA GotoMoves ==
  ASSUME InstancesInv, NEW p \in Processes, NEW goal \in Places, Instances!Goto(p, goal)
  PROVE  Moves(p, goal)
  BY DEF InstancesInv, Instances!TypeOK, Instances!Goto, Moves, Places

LEMMA PipeCloses == ASSUME pipe' = Instances!NoPipe PROVE PipeIs(Nobody, Nobody, "none")
  BY DEF PipeIs, Instances!NoPipe, PipeEnds, PipeStages

LEMMA PipeOpens ==
  ASSUME NEW s \in PipeEnds, s # Nobody, NEW c \in PipeEnds, NEW a \in PipeStages,
         pipe' = [server |-> s, client |-> c, at |-> a]
  PROVE  PipeIs(s, c, a)
  BY DEF PipeIs, Instances!NoPipe

LEMMA PipeChanges ==
  ASSUME InstancesInv, pipe.server # Nobody, NEW c \in PipeEnds, NEW a \in PipeStages,
         pipe' = [pipe EXCEPT !.client = c, !.at = a]
  PROVE  PipeIs(pipe.server, c, a)
<1>1. pipe \in [server : PipeEnds, client : PipeEnds, at : PipeStages]
  BY DEF InstancesInv, Instances!TypeOK, PipeEnds, PipeStages
<1>2. pipe' = [server |-> pipe.server, client |-> c, at |-> a] /\ pipe.server \in PipeEnds
  BY <1>1
<1> QED BY <1>2, PipeOpens

LEMMA PipeGoesOn ==
  ASSUME InstancesInv, pipe.server # Nobody, NEW a \in PipeStages, pipe' = [pipe EXCEPT !.at = a]
  PROVE  PipeIs(pipe.server, pipe.client, a)
<1>1. pipe \in [server : PipeEnds, client : PipeEnds, at : PipeStages]
  BY DEF InstancesInv, Instances!TypeOK, PipeEnds, PipeStages
<1>2. pipe' = [server |-> pipe.server, client |-> pipe.client, at |-> a]
      /\ pipe.server \in PipeEnds /\ pipe.client \in PipeEnds
  BY <1>1
<1> QED BY <1>2, PipeOpens

(* The pipe between its ends has a server and a client. *)
LEMMA PipeHasEnds ==
  ASSUME Instances!InstancesAssumption, InstancesInv, pipe.at # "none"
  PROVE  /\ pipe.server \in Processes /\ pipe.server # Nobody /\ pc[pipe.server] \in {"first", "stopping"}
         /\ pipe.client \in PipeEnds /\ (pipe.at # "listening" => pipe.client \in Processes)
<1>1. pipe.server = Nobody => pipe = Instances!NoPipe
  BY DEF InstancesInv, Instances!TypeOK
<1>2. Instances!NoPipe.at = "none"
  BY DEF Instances!NoPipe
<1>3. pipe.server # Nobody
  BY <1>1, <1>2
<1> QED BY <1>3 DEF InstancesInv, OneOwner, PipeFits, Instances!TypeOK, PipeEnds

LEMMA ServerIsFirst ==
  ASSUME InstancesInv, pipe.server # Nobody
  PROVE  pipe.server \in Processes /\ pc[pipe.server] \in {"first", "stopping"}
  BY DEF InstancesInv, OneOwner, Instances!TypeOK

(* The first to make the mutex owns it; who finds it there asks for the pipe.*)
LEMMA CreateMutexHolds ==
  ASSUME Instances!InstancesAssumption, InstancesInv, NEW p \in Processes, Instances!CreateMutex(p)
  PROVE  InstancesInv'
<1>1. pc[p] = "new" /\ holders' = holders \cup {p} /\ UNCHANGED <<pipe, to_server, to_client, heard, excused>>
  BY DEF Instances!CreateMutex
<1>2. \/ holders = {} /\ Moves(p, "creating")
      \/ holders # {} /\ Moves(p, "opening")
  <2>1. CASE holders = {}
    <3>1. Instances!Goto(p, "creating") /\ "creating" \in Places
      BY <2>1, Zenon DEF Instances!CreateMutex, Places
    <3> QED BY <2>1, <3>1, GotoMoves
  <2>2. CASE holders # {}
    <3>1. Instances!Goto(p, "opening") /\ "opening" \in Places
      BY <2>2, Zenon DEF Instances!CreateMutex, Places
    <3> QED BY <2>2, <3>1, GotoMoves
  <2> QED BY <2>1, <2>2
<1>3. holders = {} => \A x \in Processes : pc[x] \notin Owning
  BY DEF InstancesInv, OneOwner, Active, Owning
<1>4. \A x \in Processes : pc'[x] \in Owning => (holders = {} /\ x = p) \/ (holders # {} /\ pc[x] \in Owning)
  BY <1>2, <1>3 DEF Moves, Owning
<1> USE DEF InstancesInv, Instances!InstancesAssumption, Instances!TypeOK, Moves, PipeIs
<1>5. Instances!TypeOK'
  BY <1>1, <1>2, <1>4 DEF Places, PipeEnds, PipeStages
<1>6. OneOwner'
  <2>1. ASSUME NEW x \in Processes PROVE x \in holders' <=> pc'[x] \in Active
    BY <1>1, <1>2, <1>4 DEF OneOwner, Active
  <2>2. ASSUME NEW x \in Processes, NEW y \in Processes, pc'[x] \in Owning, pc'[y] \in Owning PROVE x = y
    BY <1>1, <1>2, <1>4, <2>2 DEF OneOwner, Active, Owning
  <2>3. pipe'.server # Nobody => pc'[pipe'.server] \in {"first", "stopping"}
    BY <1>1, <1>2, <1>4, ServerIsFirst DEF Talking
  <2> QED BY <2>1, <2>2, <2>3, Zenon DEF OneOwner
<1>7. PipeFits'
  BY <1>1, <1>2 DEF PipeFits
<1>8. ClientsFit'
  BY <1>1, <1>2 DEF PipeFits, ClientsFit, ClientFits, Talking, OneOwner, Owning
<1> QED BY <1>5, <1>6, <1>7, <1>8, Zenon

(* Whoever owns the mutex finds the name of the pipe free. *)
LEMMA CreatePipeHolds ==
  ASSUME Instances!InstancesAssumption, InstancesInv, NEW p \in Processes, Instances!CreatePipe(p)
  PROVE  InstancesInv'
<1>1. pc[p] = "creating" /\ heard' = heard
  BY DEF Instances!CreatePipe
<1>2. pipe = Instances!NoPipe
  <2> SUFFICES ASSUME pipe # Instances!NoPipe PROVE FALSE
    OBVIOUS
  <2>1. pipe.server \in Processes /\ pc[pipe.server] \in {"first", "stopping"}
    BY DEF InstancesInv, OneOwner, Instances!TypeOK
  <2> QED BY <1>1, <2>1 DEF InstancesInv, OneOwner, Owning
<1>3. pipe.server = Nobody /\ pipe.client = Nobody /\ pipe.at = "none"
  BY <1>2 DEF Instances!NoPipe
<1>4. CASE pipe' = [server |-> p, client |-> Nobody, at |-> "listening"] /\ Instances!Goto(p, "first")
           /\ Instances!Empty /\ UNCHANGED <<holders, excused>>
  <2>1. PipeIs(p, Nobody, "listening")
    <3>1. p \in PipeEnds /\ p # Nobody /\ Nobody \in PipeEnds /\ "listening" \in PipeStages
      BY DEF Instances!InstancesAssumption, PipeEnds, PipeStages
    <3> QED BY <1>4, <3>1, PipeOpens
  <2>2. Moves(p, "first")
    BY <1>4, GotoMoves DEF Places
  <2>3. to_server' = "" /\ to_client' = "" /\ holders' = holders /\ excused' = excused
    BY <1>4 DEF Instances!Empty
  <2> USE DEF InstancesInv, Instances!InstancesAssumption, Instances!TypeOK, Moves, PipeIs
  <2>4. Instances!TypeOK'
    BY <1>1, <1>3, <2>1, <2>2, <2>3 DEF Places, PipeEnds, PipeStages
  <2>5. OneOwner'
    <3>1. ASSUME NEW x \in Processes PROVE x \in holders' <=> pc'[x] \in Active
      BY <1>1, <1>3, <2>1, <2>2, <2>3 DEF OneOwner, Active
    <3>2. ASSUME NEW x \in Processes, NEW y \in Processes, pc'[x] \in Owning, pc'[y] \in Owning PROVE x = y
      BY <1>1, <1>3, <2>1, <2>2, <2>3, <3>2 DEF OneOwner, Active, Owning
    <3>3. pipe'.server # Nobody => pc'[pipe'.server] \in {"first", "stopping"}
      BY <1>1, <1>3, <2>1, <2>2, <2>3, ServerIsFirst DEF Talking
    <3> QED BY <3>1, <3>2, <3>3, Zenon DEF OneOwner
  <2>6. PipeFits'
    BY <1>1, <1>3, <2>1, <2>2, <2>3 DEF PipeFits, ClientsFit, ClientFits, Talking, OneOwner, Owning
  <2>7. ClientsFit'
    BY <1>1, <1>3, <2>1, <2>2, <2>3 DEF PipeFits, ClientsFit, ClientFits, Talking, OneOwner, Owning
  <2> QED BY <2>4, <2>5, <2>6, <2>7, Zenon
<1>5. CASE Instances!Leave(p, "failed") /\ excused' = excused \cup {p} /\ UNCHANGED <<pipe, to_server, to_client>>
  <2>1. Moves(p, "failed") /\ holders' = holders \ {p}
    BY <1>5, GotoMoves DEF Places, Instances!Leave
  <2>2. excused' = excused \cup {p} /\ UNCHANGED <<pipe, to_server, to_client>>
    BY <1>5
  <2> USE DEF InstancesInv, Instances!InstancesAssumption, Instances!TypeOK, Moves, PipeIs
  <2>3. Instances!TypeOK'
    BY <1>1, <1>3, <2>1, <2>2 DEF Places, PipeEnds, PipeStages
  <2>4. OneOwner'
    <3>1. ASSUME NEW x \in Processes PROVE x \in holders' <=> pc'[x] \in Active
      BY <1>1, <1>3, <2>1, <2>2 DEF OneOwner, Active
    <3>2. ASSUME NEW x \in Processes, NEW y \in Processes, pc'[x] \in Owning, pc'[y] \in Owning PROVE x = y
      BY <1>1, <1>3, <2>1, <2>2, <3>2 DEF OneOwner, Active, Owning
    <3>3. pipe'.server # Nobody => pc'[pipe'.server] \in {"first", "stopping"}
      BY <1>1, <1>3, <2>1, <2>2, ServerIsFirst DEF Talking
    <3> QED BY <3>1, <3>2, <3>3, Zenon DEF OneOwner
  <2>5. PipeFits'
    BY <1>1, <1>3, <2>1, <2>2 DEF PipeFits, ClientsFit, ClientFits, Talking, OneOwner, Owning
  <2>6. ClientsFit'
    BY <1>1, <1>3, <2>1, <2>2 DEF PipeFits, ClientsFit, ClientFits, Talking, OneOwner, Owning
  <2> QED BY <2>3, <2>4, <2>5, <2>6, Zenon
<1> QED BY <1>2, <1>4, <1>5 DEF Instances!CreatePipe

(* A client connects. *)
LEMMA OpenHolds ==
  ASSUME Instances!InstancesAssumption, InstancesInv, NEW p \in Processes, Instances!Open(p)
  PROVE  InstancesInv'
<1>1. pc[p] = "opening" /\ pipe.at = "listening" /\ UNCHANGED <<holders, to_server, to_client, heard, excused>>
  BY DEF Instances!Open
<1>2. pipe.server \in Processes /\ pipe.server # Nobody /\ pc[pipe.server] \in {"first", "stopping"} /\ pipe.server # p
      /\ p # Nobody
  BY <1>1, PipeHasEnds DEF Instances!InstancesAssumption
<1>3. PipeIs(pipe.server, p, "connected")
  BY <1>2, PipeChanges DEF Instances!Open, PipeEnds, PipeStages
<1>4. Moves(p, "sending")
  BY GotoMoves DEF Instances!Open, Places
<1>5. pipe'.server = pipe.server /\ pc'[pipe.server] \in {"first", "stopping"}
  BY <1>2, <1>3, <1>4 DEF Moves, PipeIs
<1> USE DEF InstancesInv, Instances!InstancesAssumption, Instances!TypeOK, Moves, PipeIs
<1>6. Instances!TypeOK'
  BY <1>1, <1>2, <1>3, <1>4, <1>5 DEF Places, PipeEnds, PipeStages
<1>7. OneOwner'
  <2>1. ASSUME NEW x \in Processes PROVE x \in holders' <=> pc'[x] \in Active
    BY <1>1, <1>2, <1>3, <1>4, <1>5 DEF OneOwner, Active
  <2>2. ASSUME NEW x \in Processes, NEW y \in Processes, pc'[x] \in Owning, pc'[y] \in Owning PROVE x = y
    BY <1>1, <1>2, <1>3, <1>4, <1>5, <2>2 DEF OneOwner, Active, Owning
  <2>3. pipe'.server # Nobody => pc'[pipe'.server] \in {"first", "stopping"}
    BY <1>1, <1>2, <1>3, <1>4, <1>5, ServerIsFirst DEF Talking
  <2> QED BY <2>1, <2>2, <2>3, Zenon DEF OneOwner
<1>8. PipeFits'
  BY <1>1, <1>2, <1>3, <1>4, <1>5 DEF PipeFits, ClientsFit, ClientFits, Talking, OneOwner, Owning
<1>9. ASSUME NEW q \in Processes PROVE ClientFits(q)'
  BY <1>1, <1>2, <1>3, <1>4, <1>5 DEF PipeFits, ClientsFit, ClientFits, Talking, OneOwner, Owning
<1>10. ClientsFit'
  BY <1>9, Zenon DEF ClientsFit
<1> QED BY <1>6, <1>7, <1>8, <1>10, Zenon

(* It writes its arguments. *)
LEMMA SendHolds ==
  ASSUME Instances!InstancesAssumption, InstancesInv, NEW p \in Processes, Instances!Send(p)
  PROVE  InstancesInv'
<1>1. /\ pc[p] = "sending" /\ pipe.client = p /\ to_server' = "arguments"
      /\ UNCHANGED <<holders, pipe, to_client, heard, excused>>
  BY DEF Instances!Send, Instances!Connected
<1>2. Moves(p, "waiting")
  BY GotoMoves DEF Instances!Send, Places
<1>3. p # Nobody
  BY DEF Instances!InstancesAssumption
<1> USE DEF InstancesInv, Instances!InstancesAssumption, Instances!TypeOK, Moves, PipeIs
<1>4. Instances!TypeOK'
  BY <1>1, <1>2, <1>3 DEF Places, PipeEnds, PipeStages
<1>5. OneOwner'
  <2>1. ASSUME NEW x \in Processes PROVE x \in holders' <=> pc'[x] \in Active
    BY <1>1, <1>2, <1>3 DEF OneOwner, Active
  <2>2. ASSUME NEW x \in Processes, NEW y \in Processes, pc'[x] \in Owning, pc'[y] \in Owning PROVE x = y
    BY <1>1, <1>2, <1>3, <2>2 DEF OneOwner, Active, Owning
  <2>3. pipe'.server # Nobody => pc'[pipe'.server] \in {"first", "stopping"}
    BY <1>1, <1>2, <1>3, ServerIsFirst DEF Talking
  <2> QED BY <2>1, <2>2, <2>3, Zenon DEF OneOwner
<1>6. PipeFits'
  BY <1>1, <1>2, <1>3 DEF PipeFits, ClientsFit, ClientFits, Talking, OneOwner, Owning
<1>7. ClientsFit'
  BY <1>1, <1>2, <1>3 DEF PipeFits, ClientsFit, ClientFits, Talking, OneOwner, Owning
<1> QED BY <1>4, <1>5, <1>6, <1>7, Zenon

(* It reads that it was heard. *)
LEMMA ReadAckHolds ==
  ASSUME Instances!InstancesAssumption, InstancesInv, NEW p \in Processes, Instances!ReadAck(p)
  PROVE  InstancesInv'
<1>1. /\ pc[p] = "waiting" /\ pipe.client = p /\ to_client = "ack" /\ to_client' = ""
      /\ UNCHANGED <<holders, pipe, to_server, heard, excused>>
  BY DEF Instances!ReadAck, Instances!Connected
<1>2. Moves(p, "confirming")
  BY GotoMoves DEF Instances!ReadAck, Places
<1>3. p # Nobody
  BY DEF Instances!InstancesAssumption
<1> USE DEF InstancesInv, Instances!InstancesAssumption, Instances!TypeOK, Moves, PipeIs
<1>4. Instances!TypeOK'
  BY <1>1, <1>2, <1>3 DEF Places, PipeEnds, PipeStages
<1>5. OneOwner'
  <2>1. ASSUME NEW x \in Processes PROVE x \in holders' <=> pc'[x] \in Active
    BY <1>1, <1>2, <1>3 DEF OneOwner, Active
  <2>2. ASSUME NEW x \in Processes, NEW y \in Processes, pc'[x] \in Owning, pc'[y] \in Owning PROVE x = y
    BY <1>1, <1>2, <1>3, <2>2 DEF OneOwner, Active, Owning
  <2>3. pipe'.server # Nobody => pc'[pipe'.server] \in {"first", "stopping"}
    BY <1>1, <1>2, <1>3, ServerIsFirst DEF Talking
  <2> QED BY <2>1, <2>2, <2>3, Zenon DEF OneOwner
<1>6. PipeFits'
  BY <1>1, <1>2, <1>3 DEF PipeFits, ClientsFit, ClientFits, Talking, OneOwner, Owning
<1>7. ClientsFit'
  BY <1>1, <1>2, <1>3 DEF PipeFits, ClientsFit, ClientFits, Talking, OneOwner, Owning
<1> QED BY <1>4, <1>5, <1>6, <1>7, Zenon

(* It confirms, and leaves. *)
LEMMA ConfirmHolds ==
  ASSUME Instances!InstancesAssumption, InstancesInv, NEW p \in Processes, Instances!Confirm(p)
  PROVE  InstancesInv'
<1>1. /\ pc[p] = "confirming" /\ pipe.client = p /\ to_server' = "confirmed"
      /\ UNCHANGED <<pipe, to_client, heard, excused>>
  BY DEF Instances!Confirm, Instances!Connected
<1>2. Moves(p, "forwarded") /\ holders' = holders \ {p}
  BY GotoMoves DEF Instances!Confirm, Places, Instances!Leave
<1>3. p # Nobody
  BY DEF Instances!InstancesAssumption
<1> USE DEF InstancesInv, Instances!InstancesAssumption, Instances!TypeOK, Moves, PipeIs
<1>4. Instances!TypeOK'
  BY <1>1, <1>2, <1>3 DEF Places, PipeEnds, PipeStages
<1>5. OneOwner'
  <2>1. ASSUME NEW x \in Processes PROVE x \in holders' <=> pc'[x] \in Active
    BY <1>1, <1>2, <1>3 DEF OneOwner, Active
  <2>2. ASSUME NEW x \in Processes, NEW y \in Processes, pc'[x] \in Owning, pc'[y] \in Owning PROVE x = y
    BY <1>1, <1>2, <1>3, <2>2 DEF OneOwner, Active, Owning
  <2>3. pipe'.server # Nobody => pc'[pipe'.server] \in {"first", "stopping"}
    BY <1>1, <1>2, <1>3, ServerIsFirst DEF Talking
  <2> QED BY <2>1, <2>2, <2>3, Zenon DEF OneOwner
<1>6. PipeFits'
  BY <1>1, <1>2, <1>3 DEF PipeFits, ClientsFit, ClientFits, Talking, OneOwner, Owning
<1>7. ClientsFit'
  BY <1>1, <1>2, <1>3 DEF PipeFits, ClientsFit, ClientFits, Talking, OneOwner, Owning
<1> QED BY <1>4, <1>5, <1>6, <1>7, Zenon

(* Whoever finds the pipe broken has an excuse. *)
LEMMA BrokenHolds ==
  ASSUME Instances!InstancesAssumption, InstancesInv, NEW p \in Processes, Instances!Broken(p)
  PROVE  InstancesInv'
<1>1. /\ pc[p] \in Talking /\ pipe.client # p
      /\ UNCHANGED <<pipe, to_server, to_client, heard, excused>>
  BY DEF Instances!Broken, Instances!Connected, Talking
<1>2. Moves(p, "failed") /\ holders' = holders \ {p}
  BY GotoMoves DEF Instances!Broken, Places, Instances!Leave
<1>3. p # Nobody
  BY DEF Instances!InstancesAssumption
<1> USE DEF InstancesInv, Instances!InstancesAssumption, Instances!TypeOK, Moves, PipeIs
<1>4. Instances!TypeOK'
  BY <1>1, <1>2, <1>3 DEF Places, PipeEnds, PipeStages
<1>5. OneOwner'
  <2>1. ASSUME NEW x \in Processes PROVE x \in holders' <=> pc'[x] \in Active
    BY <1>1, <1>2, <1>3 DEF OneOwner, Active
  <2>2. ASSUME NEW x \in Processes, NEW y \in Processes, pc'[x] \in Owning, pc'[y] \in Owning PROVE x = y
    BY <1>1, <1>2, <1>3, <2>2 DEF OneOwner, Active, Owning
  <2>3. pipe'.server # Nobody => pc'[pipe'.server] \in {"first", "stopping"}
    BY <1>1, <1>2, <1>3, ServerIsFirst DEF Talking
  <2> QED BY <2>1, <2>2, <2>3, Zenon DEF OneOwner
<1>6. PipeFits'
  BY <1>1, <1>2, <1>3 DEF PipeFits, ClientsFit, ClientFits, Talking, OneOwner, Owning
<1>7. ClientsFit'
  BY <1>1, <1>2, <1>3 DEF PipeFits, ClientsFit, ClientFits, Talking, OneOwner, Owning
<1> QED BY <1>4, <1>5, <1>6, <1>7, Zenon

(* The five seconds are over. *)
LEMMA TimeOutHolds ==
  ASSUME Instances!InstancesAssumption, InstancesInv, NEW p \in Processes, Instances!TimeOut(p)
  PROVE  InstancesInv'
<1>1. /\ pc[p] \in {"opening"} \cup Talking /\ excused' = excused \cup {p}
      /\ UNCHANGED <<pipe, to_server, to_client, heard>>
  BY DEF Instances!TimeOut, Talking
<1>2. Moves(p, "failed") /\ holders' = holders \ {p}
  BY GotoMoves DEF Instances!TimeOut, Places, Instances!Leave
<1>3. p # Nobody
  BY DEF Instances!InstancesAssumption
<1> USE DEF InstancesInv, Instances!InstancesAssumption, Instances!TypeOK, Moves, PipeIs
<1>4. Instances!TypeOK'
  BY <1>1, <1>2, <1>3 DEF Places, PipeEnds, PipeStages
<1>5. OneOwner'
  <2>1. ASSUME NEW x \in Processes PROVE x \in holders' <=> pc'[x] \in Active
    BY <1>1, <1>2, <1>3 DEF OneOwner, Active
  <2>2. ASSUME NEW x \in Processes, NEW y \in Processes, pc'[x] \in Owning, pc'[y] \in Owning PROVE x = y
    BY <1>1, <1>2, <1>3, <2>2 DEF OneOwner, Active, Owning
  <2>3. pipe'.server # Nobody => pc'[pipe'.server] \in {"first", "stopping"}
    BY <1>1, <1>2, <1>3, ServerIsFirst DEF Talking
  <2> QED BY <2>1, <2>2, <2>3, Zenon DEF OneOwner
<1>6. PipeFits'
  BY <1>1, <1>2, <1>3 DEF PipeFits, ClientsFit, ClientFits, Talking, OneOwner, Owning
<1>7. ClientsFit'
  BY <1>1, <1>2, <1>3 DEF PipeFits, ClientsFit, ClientFits, Talking, OneOwner, Owning
<1> QED BY <1>4, <1>5, <1>6, <1>7, Zenon

(* The first one stops. *)
LEMMA StopHolds ==
  ASSUME Instances!InstancesAssumption, InstancesInv, NEW p \in Processes, Instances!Stop(p)
  PROVE  InstancesInv'
<1>1. pc[p] = "first" /\ UNCHANGED <<holders, pipe, to_server, to_client, heard, excused>>
  BY DEF Instances!Stop
<1>2. Moves(p, "stopping")
  BY GotoMoves DEF Instances!Stop, Places
<1>3. p # Nobody
  BY DEF Instances!InstancesAssumption
<1> USE DEF InstancesInv, Instances!InstancesAssumption, Instances!TypeOK, Moves, PipeIs
<1>4. Instances!TypeOK'
  BY <1>1, <1>2, <1>3 DEF Places, PipeEnds, PipeStages
<1>5. OneOwner'
  <2>1. ASSUME NEW x \in Processes PROVE x \in holders' <=> pc'[x] \in Active
    BY <1>1, <1>2, <1>3 DEF OneOwner, Active
  <2>2. ASSUME NEW x \in Processes, NEW y \in Processes, pc'[x] \in Owning, pc'[y] \in Owning PROVE x = y
    BY <1>1, <1>2, <1>3, <2>2 DEF OneOwner, Active, Owning
  <2>3. pipe'.server # Nobody => pc'[pipe'.server] \in {"first", "stopping"}
    BY <1>1, <1>2, <1>3, ServerIsFirst DEF Talking
  <2> QED BY <2>1, <2>2, <2>3, Zenon DEF OneOwner
<1>6. PipeFits'
  BY <1>1, <1>2, <1>3 DEF PipeFits, ClientsFit, ClientFits, Talking, OneOwner, Owning
<1>7. ClientsFit'
  BY <1>1, <1>2, <1>3 DEF PipeFits, ClientsFit, ClientFits, Talking, OneOwner, Owning
<1> QED BY <1>4, <1>5, <1>6, <1>7, Zenon

(* The mutex is released after the pipe. *)
LEMMA ReleaseHolds ==
  ASSUME Instances!InstancesAssumption, InstancesInv, NEW p \in Processes, Instances!Release(p)
  PROVE  InstancesInv'
<1>1. /\ pc[p] = "stopping" /\ pipe.server # p
      /\ UNCHANGED <<pipe, to_server, to_client, heard, excused>>
  BY DEF Instances!Release
<1>2. Moves(p, "gone") /\ holders' = holders \ {p}
  BY GotoMoves DEF Instances!Release, Places, Instances!Leave
<1>3. p # Nobody
  BY DEF Instances!InstancesAssumption
<1> USE DEF InstancesInv, Instances!InstancesAssumption, Instances!TypeOK, Moves, PipeIs
<1>4. Instances!TypeOK'
  BY <1>1, <1>2, <1>3 DEF Places, PipeEnds, PipeStages
<1>5. OneOwner'
  <2>1. ASSUME NEW x \in Processes PROVE x \in holders' <=> pc'[x] \in Active
    BY <1>1, <1>2, <1>3 DEF OneOwner, Active
  <2>2. ASSUME NEW x \in Processes, NEW y \in Processes, pc'[x] \in Owning, pc'[y] \in Owning PROVE x = y
    BY <1>1, <1>2, <1>3, <2>2 DEF OneOwner, Active, Owning
  <2>3. pipe'.server # Nobody => pc'[pipe'.server] \in {"first", "stopping"}
    BY <1>1, <1>2, <1>3, ServerIsFirst DEF Talking
  <2> QED BY <2>1, <2>2, <2>3, Zenon DEF OneOwner
<1>6. PipeFits'
  BY <1>1, <1>2, <1>3 DEF PipeFits, ClientsFit, ClientFits, Talking, OneOwner, Owning
<1>7. ClientsFit'
  BY <1>1, <1>2, <1>3 DEF PipeFits, ClientsFit, ClientFits, Talking, OneOwner, Owning
<1> QED BY <1>4, <1>5, <1>6, <1>7, Zenon

(* A process is ended from outside, and the system closes all it had. *)
LEMMA KilledHolds ==
  ASSUME Instances!InstancesAssumption, InstancesInv, NEW p \in Processes, Instances!Killed(p)
  PROVE  InstancesInv'
<1>1. pc[p] \in Active /\ heard' = heard /\ p # Nobody
  BY DEF Instances!Killed, Active, InstancesInv, Instances!TypeOK, Instances!InstancesAssumption
<1>2. Moves(p, "gone") /\ holders' = holders \ {p}
  BY GotoMoves DEF Instances!Killed, Places, Instances!Leave
<1>3. CASE pipe.server = p
  <2>1. PipeIs(Nobody, Nobody, "none")
    BY <1>3, PipeCloses DEF Instances!Killed
  <2>2. to_server' = "" /\ to_client' = "" /\ excused' = excused \cup {p} \cup ({pipe.client} \ {Nobody})
    BY <1>3 DEF Instances!Killed, Instances!Empty
  <2>3. pipe.client \in PipeEnds
    BY DEF InstancesInv, Instances!TypeOK, PipeEnds
  <2> USE DEF InstancesInv, Instances!InstancesAssumption, Instances!TypeOK, Moves, PipeIs
  <2>4. Instances!TypeOK'
    BY <1>1, <1>2, <2>1, <2>2, <2>3 DEF Places, PipeEnds, PipeStages
  <2>5. OneOwner'
    <3>1. ASSUME NEW x \in Processes PROVE x \in holders' <=> pc'[x] \in Active
      BY <1>1, <1>2, <2>1, <2>2, <2>3 DEF OneOwner, Active
    <3>2. ASSUME NEW x \in Processes, NEW y \in Processes, pc'[x] \in Owning, pc'[y] \in Owning PROVE x = y
      BY <1>1, <1>2, <2>1, <2>2, <2>3, <3>2 DEF OneOwner, Active, Owning
    <3>3. pipe'.server # Nobody => pc'[pipe'.server] \in {"first", "stopping"}
      BY <1>1, <1>2, <2>1, <2>2, <2>3, ServerIsFirst DEF Talking
    <3> QED BY <3>1, <3>2, <3>3, Zenon DEF OneOwner
  <2>6. PipeFits'
    BY <1>1, <1>2, <2>1, <2>2, <2>3 DEF PipeFits, ClientsFit, ClientFits, Talking, OneOwner, Owning
  <2>7. ASSUME NEW q \in Processes PROVE ClientFits(q)'
    BY <1>1, <1>2, <2>1, <2>2, <2>3 DEF PipeFits, ClientsFit, ClientFits, Talking, OneOwner, Owning
  <2>8. ClientsFit'
    BY <2>7, Zenon DEF ClientsFit
  <2> QED BY <2>4, <2>5, <2>6, <2>8, Zenon
<1>4. CASE pipe.server # p
  <2>1. excused' = excused \cup {p} /\ UNCHANGED <<pipe, to_server, to_client>>
    BY <1>4 DEF Instances!Killed
  <2> USE DEF InstancesInv, Instances!InstancesAssumption, Instances!TypeOK, Moves, PipeIs
  <2>2. Instances!TypeOK'
    BY <1>1, <1>2, <1>4, <2>1 DEF Places, PipeEnds, PipeStages, Active
  <2>3. OneOwner'
    <3>1. ASSUME NEW x \in Processes PROVE x \in holders' <=> pc'[x] \in Active
      BY <1>1, <1>2, <1>4, <2>1 DEF OneOwner, Active
    <3>2. ASSUME NEW x \in Processes, NEW y \in Processes, pc'[x] \in Owning, pc'[y] \in Owning PROVE x = y
      BY <1>1, <1>2, <1>4, <2>1, <3>2 DEF OneOwner, Active, Owning, Active
    <3>3. pipe'.server # Nobody => pc'[pipe'.server] \in {"first", "stopping"}
      BY <1>1, <1>2, <1>4, <2>1, ServerIsFirst DEF Talking
    <3> QED BY <3>1, <3>2, <3>3, Zenon DEF OneOwner
  <2>4. PipeFits'
    BY <1>1, <1>2, <1>4, <2>1 DEF PipeFits, ClientsFit, ClientFits, Talking, OneOwner, Owning, Active
  <2>5. ClientsFit'
    BY <1>1, <1>2, <1>4, <2>1 DEF PipeFits, ClientsFit, ClientFits, Talking, OneOwner, Owning, Active
  <2> QED BY <2>2, <2>3, <2>4, <2>5, Zenon
<1> QED BY <1>3, <1>4

(* The listener hears the arguments. *)
LEMMA ReceiveHolds ==
  ASSUME Instances!InstancesAssumption, InstancesInv, Instances!Receive
  PROVE  InstancesInv'
<1>1. /\ pipe.at = "connected" /\ to_server = "arguments"
      /\ heard' = heard \cup {pipe.client} /\ to_server' = "" /\ UNCHANGED <<pc, holders, to_client, excused>>
  BY DEF Instances!Receive
<1>2. pipe.server \in Processes /\ pipe.server # Nobody /\ pc[pipe.server] \in {"first", "stopping"}
      /\ pipe.client \in Processes
  BY <1>1, PipeHasEnds
<1>3. PipeIs(pipe.server, pipe.client, "heard")
  BY <1>2, PipeGoesOn DEF Instances!Receive, PipeStages
<1> USE DEF InstancesInv, Instances!InstancesAssumption, Instances!TypeOK, Moves, PipeIs
<1>4. Instances!TypeOK'
  BY <1>1, <1>2, <1>3 DEF Places, PipeEnds, PipeStages
<1>5. OneOwner'
  <2>1. ASSUME NEW x \in Processes PROVE x \in holders' <=> pc'[x] \in Active
    BY <1>1, <1>2, <1>3 DEF OneOwner, Active
  <2>2. ASSUME NEW x \in Processes, NEW y \in Processes, pc'[x] \in Owning, pc'[y] \in Owning PROVE x = y
    BY <1>1, <1>2, <1>3, <2>2 DEF OneOwner, Active, Owning
  <2>3. pipe'.server # Nobody => pc'[pipe'.server] \in {"first", "stopping"}
    BY <1>1, <1>2, <1>3, ServerIsFirst DEF Talking
  <2> QED BY <2>1, <2>2, <2>3, Zenon DEF OneOwner
<1>6. PipeFits'
  BY <1>1, <1>2, <1>3 DEF PipeFits, ClientsFit, ClientFits, Talking, OneOwner, Owning
<1>7. ASSUME NEW q \in Processes PROVE ClientFits(q)'
  BY <1>1, <1>2, <1>3 DEF PipeFits, ClientsFit, ClientFits, Talking, OneOwner, Owning
<1>8. ClientsFit'
  BY <1>7, Zenon DEF ClientsFit
<1> QED BY <1>4, <1>5, <1>6, <1>8, Zenon

(* It answers. *)
LEMMA AcknowledgeHolds ==
  ASSUME Instances!InstancesAssumption, InstancesInv, Instances!Acknowledge
  PROVE  InstancesInv'
<1>1. /\ pipe.at = "heard" /\ to_client' = "ack"
      /\ UNCHANGED <<pc, holders, to_server, heard, excused>>
  BY DEF Instances!Acknowledge
<1>2. pipe.server \in Processes /\ pipe.server # Nobody /\ pc[pipe.server] \in {"first", "stopping"}
      /\ pipe.client \in Processes
  BY <1>1, PipeHasEnds
<1>3. PipeIs(pipe.server, pipe.client, "acknowledged")
  BY <1>2, PipeGoesOn DEF Instances!Acknowledge, PipeStages
<1> USE DEF InstancesInv, Instances!InstancesAssumption, Instances!TypeOK, Moves, PipeIs
<1>4. Instances!TypeOK'
  BY <1>1, <1>2, <1>3 DEF Places, PipeEnds, PipeStages
<1>5. OneOwner'
  <2>1. ASSUME NEW x \in Processes PROVE x \in holders' <=> pc'[x] \in Active
    BY <1>1, <1>2, <1>3 DEF OneOwner, Active
  <2>2. ASSUME NEW x \in Processes, NEW y \in Processes, pc'[x] \in Owning, pc'[y] \in Owning PROVE x = y
    BY <1>1, <1>2, <1>3, <2>2 DEF OneOwner, Active, Owning
  <2>3. pipe'.server # Nobody => pc'[pipe'.server] \in {"first", "stopping"}
    BY <1>1, <1>2, <1>3, ServerIsFirst DEF Talking
  <2> QED BY <2>1, <2>2, <2>3, Zenon DEF OneOwner
<1>6. PipeFits'
  BY <1>1, <1>2, <1>3 DEF PipeFits, ClientsFit, ClientFits, Talking, OneOwner, Owning
<1>7. ASSUME NEW q \in Processes PROVE ClientFits(q)'
  BY <1>1, <1>2, <1>3 DEF PipeFits, ClientsFit, ClientFits, Talking, OneOwner, Owning
<1>8. ClientsFit'
  BY <1>7, Zenon DEF ClientsFit
<1> QED BY <1>4, <1>5, <1>6, <1>8, Zenon

(* It hangs up on a client that does not talk any more. *)
LEMMA DisconnectHolds ==
  ASSUME Instances!InstancesAssumption, InstancesInv, pipe.at \in {"connected", "heard", "acknowledged"},
         pc[pipe.client] \notin Talking, Instances!Disconnect, UNCHANGED <<pc, holders, heard, excused>>
  PROVE  InstancesInv'
<1>1. to_server' = "" /\ to_client' = "" /\ UNCHANGED <<pc, holders, heard, excused>>
  BY DEF Instances!Disconnect, Instances!Empty
<1>2. pipe.server \in Processes /\ pipe.server # Nobody /\ pc[pipe.server] \in {"first", "stopping"}
      /\ pipe.client \in Processes
  BY PipeHasEnds
<1>3. PipeIs(Nobody, Nobody, "none") \/ PipeIs(pipe.server, Nobody, "listening")
  <2>1. CASE pipe' = Instances!NoPipe
    BY <2>1, PipeCloses
  <2>2. CASE pipe' = [pipe EXCEPT !.client = Nobody, !.at = "listening"]
    BY <1>2, <2>2, PipeChanges DEF PipeEnds, PipeStages
  <2> QED BY <2>1, <2>2 DEF Instances!Disconnect
<1> USE DEF InstancesInv, Instances!InstancesAssumption, Instances!TypeOK, Moves, PipeIs
<1>4. Instances!TypeOK'
  BY <1>1, <1>2, <1>3 DEF Places, PipeEnds, PipeStages
<1>5. OneOwner'
  <2>1. ASSUME NEW x \in Processes PROVE x \in holders' <=> pc'[x] \in Active
    BY <1>1, <1>2, <1>3 DEF OneOwner, Active
  <2>2. ASSUME NEW x \in Processes, NEW y \in Processes, pc'[x] \in Owning, pc'[y] \in Owning PROVE x = y
    BY <1>1, <1>2, <1>3, <2>2 DEF OneOwner, Active, Owning
  <2>3. pipe'.server # Nobody => pc'[pipe'.server] \in {"first", "stopping"}
    BY <1>1, <1>2, <1>3, ServerIsFirst DEF Talking
  <2> QED BY <2>1, <2>2, <2>3, Zenon DEF OneOwner
<1>6. PipeFits'
  BY <1>1, <1>2, <1>3 DEF PipeFits, ClientsFit, ClientFits, Talking, OneOwner, Owning
<1>7. ASSUME NEW q \in Processes PROVE ClientFits(q)'
  BY <1>1, <1>2, <1>3 DEF PipeFits, ClientsFit, ClientFits, Talking, OneOwner, Owning
<1>8. ClientsFit'
  BY <1>7, Zenon DEF ClientsFit
<1> QED BY <1>4, <1>5, <1>6, <1>8, Zenon

(* The client that confirmed has left. *)
LEMMA ReadConfirmedHolds ==
  ASSUME Instances!InstancesAssumption, InstancesInv, Instances!ReadConfirmed PROVE InstancesInv'
<1>1. pipe.at = "acknowledged" /\ pc[pipe.client] \notin Talking
  BY DEF Instances!ReadConfirmed, InstancesInv, PipeFits, Talking
<1> QED BY <1>1, DisconnectHolds DEF Instances!ReadConfirmed

LEMMA LoseHolds ==
  ASSUME Instances!InstancesAssumption, InstancesInv, Instances!Lose PROVE InstancesInv'
<1>1. pipe.at \in {"connected", "heard", "acknowledged"} /\ pc[pipe.client] \notin Talking
  BY DEF Instances!Lose, Instances!Alive, Talking
<1> QED BY <1>1, DisconnectHolds DEF Instances!Lose

(* The listener ends whatever it waits for. *)
LEMMA ListenerEndsHolds ==
  ASSUME Instances!InstancesAssumption, InstancesInv, Instances!ListenerEnds
  PROVE  InstancesInv'
<1>1. /\ pipe # Instances!NoPipe /\ excused' = excused \cup ({pipe.client} \ {Nobody})
      /\ to_server' = "" /\ to_client' = "" /\ UNCHANGED <<pc, holders, heard>>
  BY DEF Instances!ListenerEnds, Instances!Empty
<1>2. PipeIs(Nobody, Nobody, "none")
  BY PipeCloses DEF Instances!ListenerEnds
<1>3. pipe.client \in PipeEnds
  BY DEF InstancesInv, Instances!TypeOK, PipeEnds
<1> USE DEF InstancesInv, Instances!InstancesAssumption, Instances!TypeOK, Moves, PipeIs
<1>4. Instances!TypeOK'
  BY <1>1, <1>2, <1>3 DEF Places, PipeEnds, PipeStages
<1>5. OneOwner'
  <2>1. ASSUME NEW x \in Processes PROVE x \in holders' <=> pc'[x] \in Active
    BY <1>1, <1>2, <1>3 DEF OneOwner, Active
  <2>2. ASSUME NEW x \in Processes, NEW y \in Processes, pc'[x] \in Owning, pc'[y] \in Owning PROVE x = y
    BY <1>1, <1>2, <1>3, <2>2 DEF OneOwner, Active, Owning
  <2>3. pipe'.server # Nobody => pc'[pipe'.server] \in {"first", "stopping"}
    BY <1>1, <1>2, <1>3, ServerIsFirst DEF Talking
  <2> QED BY <2>1, <2>2, <2>3, Zenon DEF OneOwner
<1>6. PipeFits'
  BY <1>1, <1>2, <1>3 DEF PipeFits, ClientsFit, ClientFits, Talking, OneOwner, Owning
<1>7. ASSUME NEW q \in Processes PROVE ClientFits(q)'
  BY <1>1, <1>2, <1>3 DEF PipeFits, ClientsFit, ClientFits, Talking, OneOwner, Owning
<1>8. ClientsFit'
  BY <1>7, Zenon DEF ClientsFit
<1> QED BY <1>4, <1>5, <1>6, <1>8, Zenon

LEMMA InstancesStep ==
  ASSUME Instances!InstancesAssumption, InstancesInv, Instances!Next PROVE InstancesInv'
<1>1. ASSUME NEW p \in Processes,
             \/ Instances!CreateMutex(p) \/ Instances!CreatePipe(p) \/ Instances!Open(p) \/ Instances!Send(p)
             \/ Instances!ReadAck(p) \/ Instances!Confirm(p) \/ Instances!Broken(p) \/ Instances!TimeOut(p)
             \/ Instances!Stop(p) \/ Instances!Release(p) \/ Instances!Killed(p)
      PROVE  InstancesInv'
  BY <1>1, CreateMutexHolds, CreatePipeHolds, OpenHolds, SendHolds, ReadAckHolds, ConfirmHolds, BrokenHolds,
     TimeOutHolds, StopHolds, ReleaseHolds, KilledHolds, Zenon
<1> QED BY <1>1, ReceiveHolds, AcknowledgeHolds, ReadConfirmedHolds, LoseHolds, ListenerEndsHolds, Zenon
        DEF Instances!Next

LEMMA InstancesStart == ASSUME Instances!InstancesAssumption, Instances!Init PROVE InstancesInv
<1>1. /\ pc = [p \in Processes |-> "new"] /\ holders = {} /\ pipe = Instances!NoPipe
      /\ to_server = "" /\ to_client = "" /\ heard = {} /\ excused = {}
  BY DEF Instances!Init
<1>2. pipe.server = Nobody /\ pipe.client = Nobody /\ pipe.at = "none"
  BY <1>1 DEF Instances!NoPipe
<1>3. Instances!TypeOK
  BY <1>1 DEF Instances!TypeOK, Instances!NoPipe
<1>4. OneOwner /\ PipeFits /\ ClientsFit
  BY <1>1, <1>2 DEF OneOwner, Active, Owning, PipeFits, ClientsFit, ClientFits, Talking
<1> QED BY <1>3, <1>4 DEF InstancesInv

LEMMA InstancesAreHeard == ASSUME InstancesInv PROVE Instances!TypeOK /\ Instances!LaunchesAreHeard
  BY DEF InstancesInv, ClientsFit, ClientFits, Instances!LaunchesAreHeard

-----------------------------------------------------------------------------
(* The hotkeys' thread (hotkeys.rs).  A press that waits still means what its*)
(* number is bound to: clearing the bindings takes the presses too, and a    *)
(* number in use is not given out again.                                     *)

KeyList == Seq(Actions \X Combos)
KeyMessages == {Keyboard!Wake} \cup {"press"} \X (Nat \ {0}) \X Actions
KeyCommands == [what : {"clear", "register", "quit"}, list : KeyList, by : Callers \cup {Keyboard!NoCaller}]
KeyWork == [list : KeyList, by : Callers \cup {Keyboard!NoCaller}, next : Nat \ {0}]

KeyTypes ==
  /\ messages \in Seq(KeyMessages) /\ commands \in Seq(KeyCommands) /\ work \in KeyWork
  /\ \A n \in DOMAIN bindings : n \in Nat \ {0} /\ bindings[n] \in Actions \X Combos
  /\ at \in {"loop", "commands", "registering", "gone"} /\ caller \in [Callers -> {"free", "waits"}]

(* What is pressed is bound. *)
Bound(m) == m # Keyboard!Wake => m[2] \in DOMAIN bindings /\ bindings[m[2]][1] = m[3]

PressesAreBound == \A m \in Members(messages) : Bound(m)
NumbersAreNew == at = "registering" => \A n \in DOMAIN bindings : n < work.next

KeyboardInv == KeyTypes /\ PressesAreBound /\ NumbersAreNew /\ Keyboard!PressesMeanWhatTheyMeant

(* A wake-up is told from a press. *)
LEMMA PressIs ==
  ASSUME NEW n \in Nat \ {0}, NEW a \in Actions
  PROVE  /\ Keyboard!Press(n, a) \in KeyMessages /\ Keyboard!Press(n, a) # Keyboard!Wake
         /\ Keyboard!Press(n, a)[2] = n /\ Keyboard!Press(n, a)[3] = a
<1>1. Keyboard!Press(n, a)[1] = "press" /\ Keyboard!Wake[1] = "wake"
  BY DEF Keyboard!Press, Keyboard!Wake
<1> QED BY <1>1 DEF Keyboard!Press, KeyMessages

LEMMA NoListIsList == <<>> \in KeyList
  BY DEF KeyList

(* The wake-ups that stay when the presses go. *)
LEMMA WakesStay ==
  ASSUME NEW m \in Seq(KeyMessages),
         NEW w, w = [k \in 1 .. Keyboard!Cardinality({j \in DOMAIN m : m[j] = Keyboard!Wake}) |-> Keyboard!Wake]
  PROVE  w \in Seq(KeyMessages) /\ \A x \in Members(w) : x = Keyboard!Wake
<1> DEFINE J == {j \in DOMAIN m : m[j] = Keyboard!Wake}
           n == Keyboard!Cardinality(J)
<1>1. n = Cardinality(J)
  BY DEF Cardinality, Keyboard!Cardinality
<1>2. IsFiniteSet(J)
  <2>1. Len(m) \in Nat /\ DOMAIN m = 1 .. Len(m)
    BY LenProperties
  <2>2. IsFiniteSet(1 .. Len(m))
    BY <2>1, FS_Interval
  <2>3. J \subseteq 1 .. Len(m)
    BY <2>1
  <2> QED BY <2>2, <2>3, FS_Subset
<1>3. n \in Nat
  BY <1>1, <1>2, FS_CardinalityType
<1>4. w = [k \in 1 .. n |-> Keyboard!Wake]
  OBVIOUS
<1> HIDE DEF n, J
<1>5. Keyboard!Wake \in KeyMessages
  BY DEF KeyMessages
<1>6. w \in Seq(KeyMessages)
  <2>1. w \in [1 .. n -> KeyMessages]
    BY <1>4, <1>5
  <2> QED BY <1>3, <2>1, SeqDef
<1>7. \A x \in Members(w) : x = Keyboard!Wake
  BY <1>4 DEF Members
<1> QED BY <1>6, <1>7

LEMMA WakeIsAMessage == Keyboard!Wake \in KeyMessages /\ Bound(Keyboard!Wake)
  BY DEF KeyMessages, Bound

(* A message more that is bound. *)
LEMMA MessageComes ==
  ASSUME KeyboardInv, NEW m \in KeyMessages, Bound(m), messages' = Append(messages, m),
         UNCHANGED <<bindings, work, at, fired>>,
         commands' \in Seq(KeyCommands), caller' \in [Callers -> {"free", "waits"}]
  PROVE  KeyboardInv'
<1>1. messages' \in Seq(KeyMessages) /\ Members(messages') = Members(messages) \cup {m}
  BY MembersAppend DEF KeyboardInv, KeyTypes
<1>2. PressesAreBound'
  <2>1. ASSUME NEW x \in Members(messages') PROVE Bound(x)'
    <3>1. x \in Members(messages) \/ x = m
      BY <1>1
    <3>2. Bound(x)
      BY <3>1 DEF KeyboardInv, PressesAreBound
    <3> QED BY <3>2 DEF Bound
  <2> QED BY <2>1, Zenon DEF PressesAreBound
<1>3. KeyTypes' /\ NumbersAreNew' /\ Keyboard!PressesMeanWhatTheyMeant'
  BY <1>1 DEF KeyboardInv, KeyTypes, NumbersAreNew, Keyboard!PressesMeanWhatTheyMeant
<1> QED BY <1>2, <1>3 DEF KeyboardInv

(* Messages stay or leave. *)
LEMMA MessagesGo ==
  ASSUME KeyboardInv, messages' \in Seq(KeyMessages), Members(messages') \subseteq Members(messages),
         bindings' = bindings, (at' = "registering" => at = "registering" /\ work' = work),
         work' \in KeyWork, commands' \in Seq(KeyCommands), caller' \in [Callers -> {"free", "waits"}],
         at' \in {"loop", "commands", "registering", "gone"}, Keyboard!PressesMeanWhatTheyMeant'
  PROVE  KeyboardInv'
<1>1. PressesAreBound'
  <2>1. ASSUME NEW x \in Members(messages') PROVE Bound(x)'
    <3>1. Bound(x)
      BY DEF KeyboardInv, PressesAreBound
    <3> QED BY <3>1 DEF Bound
  <2> QED BY <2>1, Zenon DEF PressesAreBound
<1>2. KeyTypes' /\ NumbersAreNew'
  BY DEF KeyboardInv, KeyTypes, NumbersAreNew
<1> QED BY <1>1, <1>2 DEF KeyboardInv

LEMMA CallHolds ==
  ASSUME KeyboardInv, NEW c \in Callers, NEW command \in KeyCommands, Keyboard!Call(c, command)
  PROVE  KeyboardInv'
<1>1. commands \in Seq(KeyCommands) /\ messages \in Seq(KeyMessages) /\ work \in KeyWork
      /\ caller \in [Callers -> {"free", "waits"}] /\ at \in {"loop", "commands", "registering", "gone"}
  BY DEF KeyboardInv, KeyTypes
<1>2. CASE /\ commands' = Append(commands, command)
           /\ messages' = Append(messages, Keyboard!Wake) /\ caller' = [caller EXCEPT ![c] = "waits"]
  <2>1. commands' \in Seq(KeyCommands)
    BY <1>1, <1>2, MembersAppend
  <2>2. caller' \in [Callers -> {"free", "waits"}] /\ UNCHANGED <<bindings, work, at, fired>>
    BY <1>1, <1>2 DEF Keyboard!Call
  <2> QED BY <1>2, <2>1, <2>2, WakeIsAMessage, MessageComes
<1>3. CASE commands' = Append(commands, [command EXCEPT !.by = Keyboard!NoCaller]) /\ UNCHANGED <<messages, caller>>
  <2>1. [command EXCEPT !.by = Keyboard!NoCaller] \in KeyCommands
    BY DEF KeyCommands
  <2>2. commands' \in Seq(KeyCommands)
    BY <1>1, <1>3, <2>1, MembersAppend
  <2>3. UNCHANGED <<bindings, work, at, fired, messages, caller>>
    BY <1>3 DEF Keyboard!Call
  <2>4. Keyboard!PressesMeanWhatTheyMeant' /\ Members(messages') = Members(messages)
    BY <2>3 DEF KeyboardInv, Keyboard!PressesMeanWhatTheyMeant
  <2> QED BY <1>1, <2>2, <2>3, <2>4, MessagesGo
<1> QED BY <1>2, <1>3, Zenon DEF Keyboard!Call

LEMMA CallersHold ==
  ASSUME Keyboard!HotkeysAssumption, KeyboardInv, NEW c \in Callers,
         Keyboard!RegisterAll(c) \/ Keyboard!UnregisterAll(c)
  PROVE  KeyboardInv'
<1>1. ASSUME NEW k \in DOMAIN Requests, Keyboard!Call(c, Keyboard!Register(c, Requests[k])) PROVE KeyboardInv'
  <2>1. Requests[k] \in KeyList
    BY DEF Keyboard!HotkeysAssumption, KeyList
  <2>2. Keyboard!Register(c, Requests[k]) \in KeyCommands
    BY <2>1 DEF Keyboard!Register, KeyCommands
  <2> QED BY <1>1, <2>2, CallHolds
<1>2. CASE Keyboard!Call(c, Keyboard!Clear(c))
  <2>1. Keyboard!Clear(c) \in KeyCommands
    BY NoListIsList DEF Keyboard!Clear, KeyCommands
  <2> QED BY <1>2, <2>1, CallHolds
<1> QED BY <1>1, <1>2, Zenon DEF Keyboard!RegisterAll, Keyboard!UnregisterAll

LEMMA DropHolds == ASSUME KeyboardInv, Keyboard!Drop PROVE KeyboardInv'
<1> DEFINE q == [what |-> "quit", list |-> <<>>, by |-> Keyboard!NoCaller]
<1>1. commands \in Seq(KeyCommands) /\ q \in KeyCommands
  BY NoListIsList DEF KeyboardInv, KeyTypes, KeyCommands
<1>2. commands' = Append(commands, q)
  BY DEF Keyboard!Drop
<1> HIDE DEF q
<1>3. commands' \in Seq(KeyCommands)
  BY <1>1, <1>2, MembersAppend
<1>4. /\ messages' = Append(messages, Keyboard!Wake) /\ UNCHANGED <<bindings, work, at, fired>>
      /\ caller' \in [Callers -> {"free", "waits"}]
  BY DEF Keyboard!Drop
<1> QED BY <1>3, <1>4, WakeIsAMessage, MessageComes

(* A press that is read is bound to what it was pressed for. *)
LEMMA GetMessageHolds == ASSUME KeyboardInv, Keyboard!GetMessage PROVE KeyboardInv'
<1> DEFINE m == Head(messages)
<1>1. /\ messages # <<>> /\ at = "loop" /\ messages' = Tail(messages) /\ UNCHANGED <<commands, bindings, work, caller>>
      /\ \/ m = Keyboard!Wake /\ at' = "commands" /\ fired' = fired
         \/ /\ m # Keyboard!Wake /\ at' = at
            /\ \/ m[2] \in DOMAIN bindings /\ fired' = <<m[3], bindings[m[2]][1]>>
               \/ m[2] \notin DOMAIN bindings /\ fired' = fired
  BY Zenon DEF Keyboard!GetMessage
<1>2. messages' \in Seq(KeyMessages) /\ m \in KeyMessages /\ Members(messages) = {m} \cup Members(messages')
  BY <1>1, MembersTail DEF KeyboardInv, KeyTypes
<1>3. Bound(m)
  BY <1>2 DEF KeyboardInv, PressesAreBound
<1> HIDE DEF m
<1>4. Keyboard!PressesMeanWhatTheyMeant'
  <2>1. CASE fired' = fired
    BY <2>1 DEF KeyboardInv, Keyboard!PressesMeanWhatTheyMeant
  <2>2. CASE m # Keyboard!Wake /\ m[2] \in DOMAIN bindings /\ fired' = <<m[3], bindings[m[2]][1]>>
    <3>1. bindings[m[2]][1] = m[3]
      BY <1>3, <2>2 DEF Bound
    <3> QED BY <2>2, <3>1 DEF Keyboard!PressesMeanWhatTheyMeant
  <2> QED BY <1>1, <2>1, <2>2
<1>5. work' \in KeyWork /\ commands' \in Seq(KeyCommands) /\ caller' \in [Callers -> {"free", "waits"}]
      /\ at' \in {"loop", "commands", "registering", "gone"} /\ at' # "registering" /\ bindings' = bindings
  BY <1>1 DEF KeyboardInv, KeyTypes
<1>6. Members(messages') \subseteq Members(messages)
  BY <1>2
<1> QED BY <1>2, <1>4, <1>5, <1>6, MessagesGo

LEMMA TakeCommandHolds == ASSUME KeyboardInv, Keyboard!TakeCommand PROVE KeyboardInv'
<1>1. CASE commands = <<>> /\ at' = "loop" /\ UNCHANGED <<commands, messages, bindings, work, caller, fired>>
  <2>1. work' \in KeyWork /\ commands' \in Seq(KeyCommands) /\ caller' \in [Callers -> {"free", "waits"}]
        /\ messages' \in Seq(KeyMessages) /\ Keyboard!PressesMeanWhatTheyMeant'
    BY <1>1 DEF KeyboardInv, KeyTypes, Keyboard!PressesMeanWhatTheyMeant
  <2>2. Members(messages') = Members(messages) /\ bindings' = bindings /\ at' = "loop"
    BY <1>1
  <2> QED BY <2>1, <2>2, MessagesGo
<1>2. ASSUME commands # <<>> PROVE KeyboardInv'
  <2> DEFINE c == Head(commands)
  <2>1. /\ commands' = Tail(commands) /\ Keyboard!ClearRegistrations /\ fired' = fired
        /\ \/ Keyboard!Reply(c.by) /\ UNCHANGED <<work, at>>
           \/ /\ at' = "registering" /\ work' = [Keyboard!NoWork EXCEPT !.list = c.list, !.by = c.by]
              /\ UNCHANGED caller
           \/ at' = "gone" /\ UNCHANGED <<work, caller>>
    BY <1>2, Zenon DEF Keyboard!TakeCommand
  <2>2. commands' \in Seq(KeyCommands) /\ c \in KeyCommands
    BY <1>2, <2>1, MembersTail DEF KeyboardInv, KeyTypes
  <2> HIDE DEF c
  <2>3. messages' \in Seq(KeyMessages) /\ \A x \in Members(messages') : x = Keyboard!Wake
    BY <2>1, WakesStay DEF KeyboardInv, KeyTypes, Keyboard!ClearRegistrations
  <2>4. PressesAreBound'
    BY <2>3 DEF PressesAreBound, Bound
  <2>5. bindings' = <<>> /\ DOMAIN bindings' = {}
    BY <2>1 DEF Keyboard!ClearRegistrations, Keyboard!NoBindings
  <2>6. work' \in KeyWork /\ caller' \in [Callers -> {"free", "waits"}]
        /\ at' \in {"loop", "commands", "registering", "gone"}
    <3>1. work \in KeyWork /\ caller \in [Callers -> {"free", "waits"}] /\ at \in {"loop", "commands", "registering", "gone"}
      BY DEF KeyboardInv, KeyTypes
    <3>2. CASE Keyboard!Reply(c.by) /\ UNCHANGED <<work, at>>
      BY <3>1, <3>2 DEF Keyboard!Reply
    <3>3. CASE at' = "registering" /\ work' = [Keyboard!NoWork EXCEPT !.list = c.list, !.by = c.by] /\ UNCHANGED caller
      <4>1. c.list \in KeyList /\ c.by \in Callers \cup {Keyboard!NoCaller}
        BY <2>2 DEF KeyCommands
      <4>2. work' = [list |-> c.list, by |-> c.by, next |-> 1]
        BY <3>3 DEF Keyboard!NoWork
      <4>3. work' \in KeyWork
        BY <4>1, <4>2 DEF KeyWork
      <4> QED BY <3>1, <3>3, <4>3
    <3>4. CASE at' = "gone" /\ UNCHANGED <<work, caller>>
      BY <3>1, <3>4
    <3> QED BY <2>1, <3>2, <3>3, <3>4
  <2>7. KeyTypes' /\ NumbersAreNew'
    BY <2>2, <2>3, <2>5, <2>6 DEF KeyTypes, NumbersAreNew
  <2>8. Keyboard!PressesMeanWhatTheyMeant'
    BY <2>1 DEF KeyboardInv, Keyboard!PressesMeanWhatTheyMeant
  <2> QED BY <2>4, <2>7, <2>8 DEF KeyboardInv
<1> QED BY <1>1, <1>2, Zenon DEF Keyboard!TakeCommand

(* A new number. *)
LEMMA RegisterOneHolds == ASSUME KeyboardInv, Keyboard!RegisterOne PROVE KeyboardInv'
<1> DEFINE b == Head(work.list)
<1>1. /\ at = "registering" /\ work.list # <<>> /\ UNCHANGED <<commands, messages, at, caller, fired>>
      /\ \/ /\ bindings' = [n \in DOMAIN bindings \cup {work.next} |-> IF n = work.next THEN b ELSE bindings[n]]
            /\ work' = [work EXCEPT !.list = Tail(@), !.next = @ + 1]
         \/ bindings' = bindings /\ work' = [work EXCEPT !.list = Tail(@), !.next = @ + 1]
         \/ bindings' = bindings /\ work' = [work EXCEPT !.list = Tail(@)]
  BY Zenon DEF Keyboard!RegisterOne
<1>2. work \in KeyWork /\ work.list \in KeyList /\ work.next \in Nat \ {0} /\ work.by \in Callers \cup {Keyboard!NoCaller}
  BY DEF KeyboardInv, KeyTypes, KeyWork
<1>3. Tail(work.list) \in KeyList /\ b \in Actions \X Combos
  BY <1>1, <1>2, MembersTail DEF KeyList
<1>4. work.next + 1 \in Nat \ {0}
  BY <1>2
<1> DEFINE t == Tail(work.list)
           next == work.next + 1
<1>5. \/ work' = [list |-> t, by |-> work.by, next |-> next]
      \/ work' = [list |-> t, by |-> work.by, next |-> work.next] /\ bindings' = bindings
  BY <1>1, <1>2 DEF KeyWork
<1>6. next \in Nat \ {0} /\ t \in KeyList /\ next > work.next /\ next = work.next + 1
  BY <1>2, <1>3, <1>4
<1> HIDE DEF b, t, next
<1>7. work' \in KeyWork /\ (work'.next = next \/ (work'.next = work.next /\ bindings' = bindings))
  BY <1>2, <1>5, <1>6 DEF KeyWork
<1>8. \A n \in DOMAIN bindings : n \in Nat \ {0} /\ bindings[n] \in Actions \X Combos /\ n < work.next
  BY <1>1 DEF KeyboardInv, KeyTypes, NumbersAreNew
<1>9. \A n \in DOMAIN bindings : n \in DOMAIN bindings' /\ bindings'[n] = bindings[n]
  BY <1>1, <1>2, <1>8
<1>10. \A n \in DOMAIN bindings' : n \in Nat \ {0} /\ bindings'[n] \in Actions \X Combos /\ n < work'.next
  <2>1. CASE bindings' = bindings
    BY <1>2, <1>6, <1>7, <1>8, <2>1
  <2>2. CASE bindings' = [n \in DOMAIN bindings \cup {work.next} |-> IF n = work.next THEN b ELSE bindings[n]] /\ work'.next = next
    BY <1>2, <1>3, <1>6, <1>8, <2>2
  <2>3. CASE work'.next = work.next /\ bindings' = bindings
    BY <2>1, <2>3
  <2> QED BY <1>1, <1>7, <2>1, <2>2, <2>3
<1>11. PressesAreBound'
  BY <1>1, <1>9 DEF KeyboardInv, PressesAreBound, Bound
<1>12. KeyTypes' /\ NumbersAreNew'
  BY <1>1, <1>7, <1>10 DEF KeyboardInv, KeyTypes, NumbersAreNew
<1>13. Keyboard!PressesMeanWhatTheyMeant'
  BY <1>1 DEF KeyboardInv, Keyboard!PressesMeanWhatTheyMeant
<1> QED BY <1>11, <1>12, <1>13 DEF KeyboardInv

LEMMA RegisteredHolds == ASSUME KeyboardInv, Keyboard!Registered PROVE KeyboardInv'
<1>1. at' = "commands" /\ UNCHANGED <<commands, messages, bindings, fired>> /\ work' = Keyboard!NoWork
  BY DEF Keyboard!Registered
<1>2. work' \in KeyWork
  BY <1>1, NoListIsList DEF Keyboard!NoWork, KeyWork
<1>3. caller' \in [Callers -> {"free", "waits"}]
  BY DEF KeyboardInv, KeyTypes, Keyboard!Registered, Keyboard!Reply
<1>4. messages' \in Seq(KeyMessages) /\ commands' \in Seq(KeyCommands) /\ Keyboard!PressesMeanWhatTheyMeant'
  BY <1>1 DEF KeyboardInv, KeyTypes, Keyboard!PressesMeanWhatTheyMeant
<1>5. Members(messages') = Members(messages)
  BY <1>1
<1> QED BY <1>1, <1>2, <1>3, <1>4, <1>5, MessagesGo

LEMMA UserPressesHolds == ASSUME KeyboardInv, Keyboard!UserPresses PROVE KeyboardInv'
<1>1. PICK n \in DOMAIN bindings : messages' = Append(messages, Keyboard!Press(n, bindings[n][1]))
  BY DEF Keyboard!UserPresses
<1>2. n \in Nat \ {0} /\ bindings[n][1] \in Actions
  BY DEF KeyboardInv, KeyTypes
<1> DEFINE m == Keyboard!Press(n, bindings[n][1])
<1>3. m \in KeyMessages /\ m[2] = n /\ m[3] = bindings[n][1]
  BY <1>2, PressIs
<1> HIDE DEF m
<1>4. Bound(m)
  BY <1>3 DEF Bound
<1>5. messages' = Append(messages, m) /\ UNCHANGED <<bindings, work, at, fired>>
      /\ commands' \in Seq(KeyCommands) /\ caller' \in [Callers -> {"free", "waits"}]
  BY <1>1 DEF m, Keyboard!UserPresses, KeyboardInv, KeyTypes
<1> QED BY <1>3, <1>4, <1>5, MessageComes

LEMMA KeyboardStep ==
  ASSUME Keyboard!HotkeysAssumption, KeyboardInv, Keyboard!Next PROVE KeyboardInv'
<1>1. ASSUME NEW c \in Callers, Keyboard!RegisterAll(c) \/ Keyboard!UnregisterAll(c) PROVE KeyboardInv'
  BY <1>1, CallersHold
<1> QED BY <1>1, DropHolds, GetMessageHolds, TakeCommandHolds, RegisterOneHolds, RegisteredHolds, UserPressesHolds, Zenon
        DEF Keyboard!Next

LEMMA KeyboardStarts == ASSUME Keyboard!Init PROVE KeyboardInv
<1>1. /\ commands = <<>> /\ messages = <<>> /\ bindings = <<>> /\ work = Keyboard!NoWork
      /\ at = "loop" /\ caller = [c \in Callers |-> "free"] /\ fired = <<>>
  BY DEF Keyboard!Init, Keyboard!NoBindings
<1>2. work \in KeyWork
  BY <1>1, NoListIsList DEF Keyboard!NoWork, KeyWork
<1>3. PressesAreBound
  BY <1>1, MembersOfNone DEF PressesAreBound
<1> QED BY <1>1, <1>2, <1>3 DEF KeyboardInv, KeyTypes, NumbersAreNew, Keyboard!PressesMeanWhatTheyMeant

LEMMA KeyboardIsRight == ASSUME KeyboardInv PROVE Keyboard!TypeOK /\ Keyboard!PressesMeanWhatTheyMeant
<1>1. ASSUME NEW k \in DOMAIN messages PROVE messages[k] = Keyboard!Wake \/ messages[k][2] \in Nat \ {0}
  <2>1. messages[k] \in KeyMessages
    BY MembersType DEF Members, KeyboardInv, KeyTypes
  <2> QED BY <2>1 DEF KeyMessages
<1> QED BY <1>1 DEF KeyboardInv, KeyTypes, Keyboard!TypeOK

-----------------------------------------------------------------------------
(* The MCP server (host.rs, mcp_wiring.rs, server.rs).  While each change of *)
(* the settings waits for the one before, one task at most is under way,     *)
(* there is one server at most, and every stage of the task finds what the   *)
(* stage before has left.                                                    *)

McpStages == {"stop", "stopping", "stopped", "make", "set", "start", "over"}
McpSettings == [enabled : BOOLEAN, port : Ports]
McpTasks == [at : McpStages, server : Nat \cup {None}, enabled : BOOLEAN, port : Ports \cup {None}]
McpServers == [running : Ports \cup {None}, locked : Nat \cup {None}]

TaskFits(t) ==
  /\ restarts[t].server \in DOMAIN servers \cup {None}
  /\ restarts[t].at \in {"stopping", "start"} => restarts[t].server \in DOMAIN servers
  /\ restarts[t].at \in {"make", "set", "start"} => restarts[t].port \in Ports

McpTypes ==
  /\ mcp \in McpSettings /\ changes \in 0 .. MaxChanges
  /\ restarts \in Seq(McpTasks) /\ \A t \in DOMAIN restarts : TaskFits(t)
  /\ servers \in Seq(McpServers) /\ \A s \in DOMAIN servers : servers[s].locked \in DOMAIN restarts \cup {None}
  /\ slot \in DOMAIN servers \cup {None} /\ listening \subseteq (DOMAIN servers) \X Ports
  /\ overlapped \in BOOLEAN /\ refused \in Mcp!Flags

OneTask == \A t, v \in DOMAIN restarts : Mcp!Under(t) /\ Mcp!Under(v) => t = v
OneServer == DOMAIN servers \subseteq {1} /\ (slot = None => DOMAIN servers = {})

(* Only what runs listens. *)
Settled == \A l \in listening : l[2] = Mcp!Running
Silent == listening = {} /\ Mcp!Running = None

StageFits(t) ==
  /\ restarts[t].at \in {"stop", "stopping", "stopped"} /\ mcp.enabled => restarts[t].enabled
  /\ restarts[t].at \in {"make", "set", "start"} => mcp.enabled /\ restarts[t].port = mcp.port
  /\ restarts[t].at = "stop" => restarts[t].server = slot /\ Settled
  /\ restarts[t].at = "stopping" => restarts[t].server = slot /\ Mcp!Running = None
  /\ restarts[t].at \in {"stopped", "make", "set", "start"} => Silent
  /\ restarts[t].at = "set" => slot = None
  /\ restarts[t].at = "start" => restarts[t].server = slot

AtRest ==
  /\ Settled
  /\ mcp.enabled => Mcp!Running = mcp.port \/ refused = "other"
  /\ ~mcp.enabled => listening = {}

Calm ==
  /\ OneTask /\ OneServer
  /\ \A t \in DOMAIN restarts : Mcp!Under(t) => StageFits(t)
  /\ (\A t \in DOMAIN restarts : ~Mcp!Under(t)) => AtRest

McpInv == McpTypes /\ (overlapped \/ Calm)

LEMMA SeqExcept ==
  ASSUME NEW S, NEW s \in Seq(S), NEW k \in DOMAIN s, NEW e \in S, NEW t, t = [s EXCEPT ![k] = e]
  PROVE  t \in Seq(S) /\ DOMAIN t = DOMAIN s /\ t[k] = e /\ \A j \in DOMAIN s : j # k => t[j] = s[j]
<1>1. DOMAIN s = 1 .. Len(s) /\ Len(s) \in Nat
  BY LenProperties
<1>2. t \in [1 .. Len(s) -> S]
  BY <1>1, ElementOfSeq
<1> QED BY <1>1, <1>2, SeqDef

LEMMA SeqAppend ==
  ASSUME NEW S, NEW s \in Seq(S), NEW e \in S, NEW t, t = Append(s, e)
  PROVE  /\ t \in Seq(S) /\ DOMAIN t = DOMAIN s \cup {Len(s) + 1} /\ t[Len(s) + 1] = e
         /\ \A j \in DOMAIN s : t[j] = s[j] /\ j # Len(s) + 1
         /\ Len(s) + 1 \in Nat \ {0} /\ DOMAIN s \subseteq Nat
<1>1. t \in Seq(S) /\ Len(t) = Len(s) + 1 /\ t[Len(s) + 1] = e /\ \A j \in 1 .. Len(s) : t[j] = s[j]
  BY AppendProperties
<1>2. DOMAIN s = 1 .. Len(s) /\ Len(s) \in Nat /\ DOMAIN t = 1 .. Len(s) + 1
  BY <1>1, LenProperties
<1> QED BY <1>1, <1>2

(* A task goes on. *)
TaskIs(t, task) ==
  /\ restarts' \in Seq(McpTasks) /\ DOMAIN restarts' = DOMAIN restarts /\ restarts'[t] = task
  /\ \A v \in DOMAIN restarts : v # t => restarts'[v] = restarts[v]

LEMMA GotoIs ==
  ASSUME McpTypes, NEW t \in DOMAIN restarts, NEW task \in McpTasks, Mcp!Goto(t, task)
  PROVE  TaskIs(t, task)
  BY SeqExcept DEF McpTypes, Mcp!Goto, TaskIs

LEMMA AtIs ==
  ASSUME McpTypes, NEW t \in DOMAIN restarts, NEW stage \in McpStages, Mcp!At(t, stage)
  PROVE  /\ TaskIs(t, restarts'[t]) /\ restarts'[t].at = stage /\ restarts'[t].server = restarts[t].server
         /\ restarts'[t].enabled = restarts[t].enabled /\ restarts'[t].port = restarts[t].port
<1> DEFINE task == [restarts[t] EXCEPT !.at = stage]
<1>1. restarts[t] \in McpTasks
  BY ElementOfSeq, LenProperties DEF McpTypes
<1>2. /\ task \in McpTasks /\ task.at = stage /\ task.server = restarts[t].server
      /\ task.enabled = restarts[t].enabled /\ task.port = restarts[t].port
  BY <1>1 DEF McpTasks
<1>3. Mcp!Goto(t, task)
  BY DEF Mcp!At
<1> HIDE DEF task
<1>4. TaskIs(t, task)
  BY <1>2, <1>3, GotoIs
<1>5. restarts'[t] = task
  BY <1>4 DEF TaskIs
<1> QED BY <1>2, <1>4, <1>5

(* The step of the one task under way. *)
LEMMA TaskGoesOn ==
  ASSUME McpInv, NEW t \in DOMAIN restarts, Mcp!Under(t), TaskIs(t, restarts'[t]), McpTypes', overlapped' = overlapped,
         ~overlapped => /\ OneServer' /\ (restarts'[t].at # "over" => StageFits(t)')
                        /\ (restarts'[t].at = "over" => AtRest')
  PROVE  McpInv'
<1> SUFFICES ASSUME ~overlapped PROVE Calm'
  BY DEF McpInv
<1>1. \A v \in DOMAIN restarts : v # t => ~Mcp!Under(v)
  BY DEF McpInv, Calm, OneTask
<1>2. \A v \in DOMAIN restarts' : v # t => ~Mcp!Under(v)'
  BY <1>1 DEF TaskIs, Mcp!Under
<1>3. \A v, w \in DOMAIN restarts' : Mcp!Under(v)' /\ Mcp!Under(w)' => v = w
  BY <1>2, Zenon
<1>4. \A v \in DOMAIN restarts' : Mcp!Under(v)' => StageFits(v)'
  BY <1>2, Zenon DEF Mcp!Under
<1>5. (\A v \in DOMAIN restarts' : ~Mcp!Under(v)') => AtRest'
  <2>1. t \in DOMAIN restarts'
    BY DEF TaskIs
  <2> QED BY <2>1, Zenon DEF Mcp!Under
<1> QED BY <1>3, <1>4, <1>5, Zenon DEF Calm, OneTask

(* The types after the step of a task. *)
LEMMA TypesGoOn ==
  ASSUME McpTypes, NEW t \in DOMAIN restarts, TaskIs(t, restarts'[t]), TaskFits(t)',
         servers' \in Seq(McpServers), DOMAIN servers \subseteq DOMAIN servers',
         \A s \in DOMAIN servers' : servers'[s].locked \in DOMAIN restarts \cup {None},
         slot' \in DOMAIN servers' \cup {None}, listening' \subseteq (DOMAIN servers') \X Ports,
         refused' \in Mcp!Flags, UNCHANGED <<mcp, changes, overlapped>>
  PROVE  McpTypes'
<1>1. ASSUME NEW v \in DOMAIN restarts' PROVE TaskFits(v)'
  <2>1. CASE v = t
    BY <2>1
  <2>2. CASE v # t
    <3>1. v \in DOMAIN restarts /\ restarts'[v] = restarts[v]
      BY <2>2 DEF TaskIs
    <3>2. TaskFits(v)
      BY <3>1 DEF McpTypes
    <3> QED BY <3>1, <3>2 DEF TaskFits
  <2> QED BY <2>1, <2>2
<1>2. restarts' \in Seq(McpTasks) /\ DOMAIN restarts' = DOMAIN restarts
  BY DEF TaskIs
<1>3. mcp' \in McpSettings /\ changes' \in 0 .. MaxChanges /\ overlapped' \in BOOLEAN
  BY DEF McpTypes
<1> QED BY <1>1, <1>2, <1>3, Zenon DEF McpTypes

LEMMA TypesStayOn ==
  ASSUME McpTypes, NEW t \in DOMAIN restarts, TaskIs(t, restarts'[t]), TaskFits(t)', refused' \in Mcp!Flags,
         UNCHANGED <<mcp, changes, overlapped, servers, slot, listening>>
  PROVE  McpTypes'
<1>1. /\ servers' \in Seq(McpServers) /\ DOMAIN servers \subseteq DOMAIN servers'
      /\ \A s \in DOMAIN servers' : servers'[s].locked \in DOMAIN restarts \cup {None}
      /\ slot' \in DOMAIN servers' \cup {None} /\ listening' \subseteq (DOMAIN servers') \X Ports
      /\ UNCHANGED <<mcp, changes, overlapped>>
  BY DEF McpTypes
<1> QED BY <1>1, TypesGoOn

LEMMA SettledIsSilent ==
  ASSUME Mcp!McpAssumption, McpTypes, Settled, Mcp!Running = None PROVE Silent
<1>1. ASSUME NEW l \in listening PROVE FALSE
  <2>1. l[2] = None /\ l[2] \in Ports
    BY DEF Settled, McpTypes
  <2> QED BY <2>1 DEF Mcp!McpAssumption
<1> QED BY <1>1 DEF Silent

LEMMA CalmStage ==
  ASSUME McpInv, ~overlapped, NEW t \in DOMAIN restarts, Mcp!Under(t) PROVE StageFits(t) /\ OneServer
  BY Zenon DEF McpInv, Calm

(* What is known of a server that is there. *)
LEMMA ServerIs ==
  ASSUME McpTypes, NEW s \in DOMAIN servers
  PROVE  /\ servers[s] \in McpServers /\ s \in Nat
         /\ servers[s].running \in Ports \cup {None} /\ servers[s].locked \in DOMAIN restarts \cup {None}
<1>1. servers \in Seq(McpServers) /\ DOMAIN servers = 1 .. Len(servers) /\ Len(servers) \in Nat
  BY LenProperties DEF McpTypes
<1>2. servers[s] \in McpServers
  BY <1>1, ElementOfSeq
<1> QED BY <1>1, <1>2 DEF McpServers, McpTypes

(* One server has changed. *)
LEMMA ServerChanges ==
  ASSUME McpTypes, NEW s \in DOMAIN servers, NEW server \in McpServers, server.locked \in DOMAIN restarts \cup {None},
         servers' = [servers EXCEPT ![s] = server]
  PROVE  /\ servers' \in Seq(McpServers) /\ DOMAIN servers' = DOMAIN servers /\ servers'[s] = server
         /\ \A v \in DOMAIN servers : v # s => servers'[v] = servers[v]
         /\ \A v \in DOMAIN servers' : servers'[v].locked \in DOMAIN restarts \cup {None}
<1>1. /\ servers' \in Seq(McpServers) /\ DOMAIN servers' = DOMAIN servers /\ servers'[s] = server
      /\ \A v \in DOMAIN servers : v # s => servers'[v] = servers[v]
  BY SeqExcept DEF McpTypes
<1>2. ASSUME NEW v \in DOMAIN servers' PROVE servers'[v].locked \in DOMAIN restarts \cup {None}
  BY <1>1 DEF McpTypes
<1> QED BY <1>1, <1>2

LEMMA StopHasEnded ==
  ASSUME Mcp!McpAssumption, McpInv, NEW t \in DOMAIN restarts, restarts[t].at = "stop", Mcp!At(t, "stopped"),
         restarts[t].server = None \/ servers[restarts[t].server].running = None,
         UNCHANGED <<servers, mcp, changes, slot, listening, overlapped, refused>>
  PROVE  McpInv'
<1>1. /\ TaskIs(t, restarts'[t]) /\ restarts'[t].at = "stopped" /\ restarts'[t].server = restarts[t].server
      /\ restarts'[t].enabled = restarts[t].enabled
  BY AtIs DEF McpInv, McpStages
<1>2. Mcp!Under(t)
  BY DEF Mcp!Under
<1>3. TaskFits(t)'
  BY <1>1 DEF TaskFits, McpInv, McpTypes
<1>4. McpTypes'
  BY <1>1, <1>3, TypesStayOn DEF McpInv, McpTypes
<1>5. ASSUME ~overlapped PROVE OneServer' /\ StageFits(t)'
  <2>1. StageFits(t) /\ OneServer
    BY <1>2, <1>5, CalmStage
  <2>2. Mcp!Running = None
    BY <2>1 DEF StageFits, Mcp!Running
  <2>3. Silent
    BY <2>1, <2>2, SettledIsSilent DEF StageFits, McpInv
  <2>4. Silent' /\ OneServer'
    BY <2>1, <2>3 DEF Silent, OneServer, Mcp!Running
  <2>5. StageFits(t)'
    BY <1>1, <2>1, <2>4 DEF StageFits
  <2> QED BY <2>4, <2>5
<1> QED BY <1>1, <1>2, <1>4, <1>5, TaskGoesOn

LEMMA StopTaskHolds ==
  ASSUME Mcp!McpAssumption, McpInv, NEW t \in DOMAIN restarts, Mcp!Stop(t) PROVE McpInv'
<1> DEFINE s == restarts[t].server
<1>1. /\ restarts[t].at = "stop" /\ UNCHANGED <<mcp, changes, slot, listening, overlapped, refused>>
      /\ \/ s = None /\ Mcp!At(t, "stopped") /\ UNCHANGED servers
         \/ s # None /\ servers[s].running = None /\ Mcp!At(t, "stopped") /\ UNCHANGED servers
         \/ /\ s # None /\ servers[s].running # None /\ Mcp!At(t, "stopping")
            /\ servers' = [servers EXCEPT ![s] = [running |-> None, locked |-> t]]
  BY Zenon DEF Mcp!Stop
<1>2. CASE /\ s # None /\ Mcp!At(t, "stopping")
           /\ servers' = [servers EXCEPT ![s] = [running |-> None, locked |-> t]]
  <2> DEFINE server == [running |-> None, locked |-> t]
  <2>1. /\ TaskIs(t, restarts'[t]) /\ restarts'[t].at = "stopping" /\ restarts'[t].server = s
        /\ restarts'[t].enabled = restarts[t].enabled
    BY <1>2, AtIs DEF McpInv, McpStages
  <2>2. s \in DOMAIN servers /\ t \in Nat
    <3>1. DOMAIN restarts = 1 .. Len(restarts) /\ Len(restarts) \in Nat
      BY LenProperties DEF McpInv, McpTypes
    <3> QED BY <1>2, <3>1 DEF McpInv, McpTypes, TaskFits
  <2>3. server \in McpServers /\ server.locked = t /\ server.running = None
    BY <2>2 DEF McpServers
  <2>4. servers' = [servers EXCEPT ![s] = server]
    BY <1>2
  <2> HIDE DEF server, s
  <2>5. /\ servers' \in Seq(McpServers) /\ DOMAIN servers' = DOMAIN servers /\ servers'[s] = server
        /\ \A v \in DOMAIN servers' : servers'[v].locked \in DOMAIN restarts \cup {None}
    BY <2>2, <2>3, <2>4, ServerChanges DEF McpInv
  <2>6. Mcp!Under(t)
    BY <1>1 DEF Mcp!Under
  <2>7. TaskFits(t)'
    BY <2>1, <2>2, <2>5 DEF TaskFits
  <2>8. slot' \in DOMAIN servers' \cup {None} /\ listening' \subseteq (DOMAIN servers') \X Ports
        /\ refused' \in Mcp!Flags /\ UNCHANGED <<mcp, changes, overlapped>>
    BY <1>1, <2>5 DEF McpInv, McpTypes
  <2>9. McpTypes'
    BY <2>1, <2>5, <2>7, <2>8, TypesGoOn DEF McpInv
  <2>10. ASSUME ~overlapped PROVE OneServer' /\ StageFits(t)'
    <3>1. StageFits(t) /\ OneServer
      BY <2>6, <2>10, CalmStage
    <3>2. restarts[t].server = slot /\ slot' = slot
      BY <1>1, <3>1 DEF StageFits
    <3>3. slot = s
      BY <3>2 DEF s
    <3>4. Mcp!Running' = None
      BY <2>3, <2>5, <3>2, <3>3 DEF Mcp!Running
    <3>5. OneServer'
      BY <2>5, <3>1, <3>2 DEF OneServer
    <3>6. StageFits(t)'
      BY <1>1, <2>1, <3>1, <3>2, <3>3, <3>4 DEF StageFits
    <3> QED BY <3>5, <3>6
  <2>11. restarts'[t].at # "over" /\ overlapped' = overlapped
    BY <1>1, <2>1
  <2> QED BY <2>1, <2>6, <2>9, <2>10, <2>11, TaskGoesOn
<1>3. CASE (s = None \/ servers[s].running = None) /\ Mcp!At(t, "stopped") /\ UNCHANGED servers
  BY <1>1, <1>3, StopHasEnded
<1> QED BY <1>1, <1>2, <1>3

LEMMA StoppedHolds ==
  ASSUME Mcp!McpAssumption, McpInv, NEW t \in DOMAIN restarts, Mcp!Stopped(t) PROVE McpInv'
<1> DEFINE s == restarts[t].server
<1>1. /\ restarts[t].at = "stopping" /\ (\A l \in listening : l[1] # s) /\ Mcp!At(t, "stopped")
      /\ servers' = [servers EXCEPT ![s].locked = None]
      /\ UNCHANGED <<mcp, changes, slot, listening, overlapped, refused>>
  BY DEF Mcp!Stopped
<1>2. s \in DOMAIN servers
  BY <1>1 DEF McpInv, McpTypes, TaskFits
<1> DEFINE server == [servers[s] EXCEPT !.locked = None]
<1>3. server \in McpServers /\ server.locked = None /\ server.running = servers[s].running
  BY <1>2, ServerIs DEF McpInv, McpServers
<1>4. servers' = [servers EXCEPT ![s] = server]
  BY <1>1
<1>5. /\ TaskIs(t, restarts'[t]) /\ restarts'[t].at = "stopped" /\ restarts'[t].server = s
      /\ restarts'[t].enabled = restarts[t].enabled
  BY <1>1, AtIs DEF McpInv, McpStages
<1> HIDE DEF server, s
<1>6. /\ servers' \in Seq(McpServers) /\ DOMAIN servers' = DOMAIN servers /\ servers'[s] = server
      /\ \A v \in DOMAIN servers' : servers'[v].locked \in DOMAIN restarts \cup {None}
  BY <1>2, <1>3, <1>4, ServerChanges DEF McpInv
<1>7. Mcp!Under(t)
  BY <1>1 DEF Mcp!Under
<1>8. TaskFits(t)'
  BY <1>2, <1>5, <1>6 DEF TaskFits
<1>9. slot' \in DOMAIN servers' \cup {None} /\ listening' \subseteq (DOMAIN servers') \X Ports
      /\ refused' \in Mcp!Flags /\ UNCHANGED <<mcp, changes, overlapped>>
  BY <1>1, <1>6 DEF McpInv, McpTypes
<1>10. McpTypes'
  BY <1>5, <1>6, <1>8, <1>9, TypesGoOn DEF McpInv
<1>11. ASSUME ~overlapped PROVE OneServer' /\ StageFits(t)'
  <2>1. StageFits(t) /\ OneServer
    BY <1>7, <1>11, CalmStage
  <2>2. s = slot /\ slot' = slot /\ Mcp!Running = None
    BY <1>1, <2>1 DEF StageFits, s
  <2>3. Mcp!Running' = None
    BY <1>3, <1>6, <2>2 DEF Mcp!Running
  <2>4. listening' = {}
    <3>1. ASSUME NEW l \in listening PROVE FALSE
      <4>1. l[1] \in DOMAIN servers
        BY DEF McpInv, McpTypes
      <4>2. l[1] = s
        BY <1>2, <2>1, <4>1 DEF OneServer
      <4> QED BY <1>1, <4>2 DEF s
    <3> QED BY <1>1, <3>1
  <2>5. OneServer'
    BY <1>6, <2>1, <2>2 DEF OneServer
  <2>6. Silent'
    BY <2>3, <2>4 DEF Silent
  <2>7. StageFits(t)'
    BY <1>1, <1>5, <2>1, <2>6 DEF StageFits
  <2> QED BY <2>5, <2>7
<1>12. restarts'[t].at # "over" /\ overlapped' = overlapped
  BY <1>1, <1>5
<1> QED BY <1>5, <1>7, <1>10, <1>11, <1>12, TaskGoesOn

(* Silence lasts while nothing starts. *)
LEMMA SilenceLasts ==
  ASSUME Silent \/ Settled, UNCHANGED <<slot, servers, listening>>
  PROVE  (Silent => Silent') /\ (Settled => Settled') /\ (OneServer => OneServer')
  BY DEF Silent, Settled, Mcp!Running, OneServer

LEMMA StartMcpHolds ==
  ASSUME Mcp!McpAssumption, McpInv, NEW t \in DOMAIN restarts, Mcp!StartMcp(t) PROVE McpInv'
<1>1. restarts[t].at = "stopped" /\ UNCHANGED <<mcp, changes, slot, servers, listening, overlapped, refused>>
  BY DEF Mcp!StartMcp
<1>2. /\ restarts[t] \in McpTasks /\ Mcp!Under(t) /\ restarts[t].server \in DOMAIN servers \cup {None} /\ refused' \in Mcp!Flags
      /\ mcp.port \in Ports
  BY <1>1, ElementOfSeq, LenProperties DEF McpInv, McpTypes, TaskFits, Mcp!Under, McpSettings
<1>3. ~overlapped => StageFits(t) /\ Silent /\ Silent' /\ OneServer'
  <2>1. ~overlapped => StageFits(t) /\ OneServer
    BY <1>2, CalmStage
  <2>2. StageFits(t) => Silent
    BY <1>1 DEF StageFits
  <2> QED BY <1>1, <2>1, <2>2, SilenceLasts
<1>4. CASE restarts[t].enabled /\ mcp.enabled
  <2> DEFINE task == Mcp!Task("make", None, TRUE, mcp.port)
  <2>1. task \in McpTasks /\ task.at = "make" /\ task.server = None /\ task.port = mcp.port
    BY <1>2 DEF Mcp!Task, McpTasks, McpStages
  <2>2. Mcp!Goto(t, task)
    BY <1>4, Zenon DEF Mcp!StartMcp
  <2> HIDE DEF task
  <2>3. TaskIs(t, task)
    BY <2>1, <2>2, GotoIs DEF McpInv
  <2>4. restarts'[t] = task /\ TaskIs(t, restarts'[t])
    BY <2>3 DEF TaskIs
  <2>5. TaskFits(t)'
    BY <1>2, <2>1, <2>4 DEF TaskFits
  <2>6. McpTypes'
    BY <1>1, <1>2, <2>4, <2>5, TypesStayOn DEF McpInv
  <2>7. ~overlapped => StageFits(t)'
    BY <1>1, <1>3, <1>4, <2>1, <2>4 DEF StageFits
  <2>8. restarts'[t].at # "over" /\ overlapped' = overlapped
    BY <1>1, <2>1, <2>4
  <2> QED BY <1>2, <1>3, <2>4, <2>6, <2>7, <2>8, TaskGoesOn
<1>5. CASE ~(restarts[t].enabled /\ mcp.enabled)
  <2> DEFINE task == [restarts[t] EXCEPT !.at = "over"]
  <2>1. task \in McpTasks /\ task.at = "over" /\ task.server = restarts[t].server
    BY <1>2 DEF McpTasks, McpStages
  <2>2. Mcp!Goto(t, task)
    BY <1>5, Zenon DEF Mcp!StartMcp
  <2> HIDE DEF task
  <2>3. TaskIs(t, task)
    BY <2>1, <2>2, GotoIs DEF McpInv
  <2>4. restarts'[t] = task /\ TaskIs(t, restarts'[t])
    BY <2>3 DEF TaskIs
  <2>5. TaskFits(t)'
    BY <1>1, <1>2, <2>1, <2>4 DEF TaskFits
  <2>6. McpTypes'
    BY <1>1, <1>2, <2>4, <2>5, TypesStayOn DEF McpInv
  <2>7. ~overlapped => AtRest'
    <3> SUFFICES ASSUME ~overlapped PROVE AtRest'
      OBVIOUS
    <3>1. ~mcp'.enabled
      BY <1>1, <1>3, <1>5 DEF StageFits
    <3> QED BY <1>3, <3>1 DEF AtRest, Silent, Settled
  <2>8. restarts'[t].at = "over" /\ overlapped' = overlapped
    BY <1>1, <2>1, <2>4
  <2> QED BY <1>2, <1>3, <2>4, <2>6, <2>7, <2>8, TaskGoesOn
<1> QED BY <1>4, <1>5

LEMMA LookHolds ==
  ASSUME Mcp!McpAssumption, McpInv, NEW t \in DOMAIN restarts, Mcp!Look(t) PROVE McpInv'
<1>1. restarts[t].at = "make" /\ UNCHANGED <<mcp, changes, slot, servers, listening, overlapped, refused>>
  BY DEF Mcp!Look
<1>2. /\ restarts[t] \in McpTasks /\ Mcp!Under(t) /\ restarts[t].server \in DOMAIN servers \cup {None} /\ refused' \in Mcp!Flags
      /\ restarts[t].port \in Ports /\ slot \in DOMAIN servers \cup {None}
  BY <1>1, ElementOfSeq, LenProperties DEF McpInv, McpTypes, TaskFits, Mcp!Under
<1>3. ~overlapped => StageFits(t) /\ Silent /\ Silent' /\ OneServer'
  <2>1. ~overlapped => StageFits(t) /\ OneServer
    BY <1>2, CalmStage
  <2>2. StageFits(t) => Silent
    BY <1>1 DEF StageFits
  <2> QED BY <1>1, <2>1, <2>2, SilenceLasts
<1>4. CASE slot # None
  <2> DEFINE task == [restarts[t] EXCEPT !.at = "start", !.server = slot]
  <2>1. slot \in DOMAIN servers /\ slot \in Nat
    BY <1>2, <1>4, ServerIs DEF McpInv
  <2>2. task \in McpTasks /\ task.at = "start" /\ task.server = slot /\ task.port = restarts[t].port
    BY <1>2, <2>1 DEF McpTasks, McpStages
  <2>3. Mcp!Goto(t, task)
    BY <1>4, Zenon DEF Mcp!Look
  <2> HIDE DEF task
  <2>4. TaskIs(t, task)
    BY <2>2, <2>3, GotoIs DEF McpInv
  <2>5. restarts'[t] = task /\ TaskIs(t, restarts'[t])
    BY <2>4 DEF TaskIs
  <2>6. TaskFits(t)'
    BY <1>1, <1>2, <2>1, <2>2, <2>5 DEF TaskFits
  <2>7. McpTypes'
    BY <1>1, <1>2, <2>5, <2>6, TypesStayOn DEF McpInv
  <2>8. ~overlapped => StageFits(t)'
    BY <1>1, <1>3, <2>2, <2>5 DEF StageFits
  <2>9. restarts'[t].at # "over" /\ overlapped' = overlapped
    BY <1>1, <2>2, <2>5
  <2> QED BY <1>2, <1>3, <2>5, <2>7, <2>8, <2>9, TaskGoesOn
<1>5. CASE slot = None
  <2>1. Mcp!At(t, "set")
    BY <1>5, Zenon DEF Mcp!Look
  <2>2. /\ TaskIs(t, restarts'[t]) /\ restarts'[t].at = "set" /\ restarts'[t].server = restarts[t].server
        /\ restarts'[t].port = restarts[t].port
    BY <2>1, AtIs DEF McpInv, McpStages
  <2>3. TaskFits(t)'
    BY <1>1, <1>2, <2>2 DEF TaskFits
  <2>4. McpTypes'
    BY <1>1, <1>2, <2>2, <2>3, TypesStayOn DEF McpInv
  <2>5. ~overlapped => StageFits(t)'
    BY <1>1, <1>3, <1>5, <2>2 DEF StageFits
  <2>6. restarts'[t].at # "over" /\ overlapped' = overlapped
    BY <1>1, <2>2
  <2> QED BY <1>2, <1>3, <2>2, <2>4, <2>5, <2>6, TaskGoesOn
<1> QED BY <1>4, <1>5

(* A server more. *)
LEMMA SetHolds ==
  ASSUME Mcp!McpAssumption, McpInv, NEW t \in DOMAIN restarts, Mcp!Set(t) PROVE McpInv'
<1> DEFINE n == Len(servers) + 1
           server == [running |-> None, locked |-> None]
           task == [restarts[t] EXCEPT !.at = "start", !.server = n]
<1>1. /\ restarts[t].at = "set" /\ servers' = Append(servers, server) /\ slot' = n /\ Mcp!Goto(t, task)
      /\ UNCHANGED <<mcp, changes, listening, overlapped, refused>>
  BY DEF Mcp!Set
<1>2. server \in McpServers /\ server.running = None /\ server.locked = None
  BY DEF McpServers
<1> HIDE DEF server
<1>3. /\ servers' \in Seq(McpServers) /\ DOMAIN servers' = DOMAIN servers \cup {n} /\ servers'[n] = server
      /\ (\A s \in DOMAIN servers : servers'[s] = servers[s]) /\ n \in Nat
  BY <1>1, <1>2, SeqAppend DEF McpInv, McpTypes
<1>4. restarts[t] \in McpTasks /\ Mcp!Under(t) /\ restarts[t].port \in Ports
  BY <1>1, ElementOfSeq, LenProperties DEF McpInv, McpTypes, TaskFits, Mcp!Under
<1>5. n = Len(servers) + 1 /\ DOMAIN servers = 1 .. Len(servers) /\ Len(servers) \in Nat
  BY LenProperties DEF McpInv, McpTypes
<1> HIDE DEF n
<1>6. task \in McpTasks /\ task.at = "start" /\ task.server = n /\ task.port = restarts[t].port
  BY <1>3, <1>4 DEF McpTasks, McpStages
<1> HIDE DEF task
<1>7. TaskIs(t, task)
  BY <1>1, <1>6, GotoIs DEF McpInv
<1>8. restarts'[t] = task /\ TaskIs(t, restarts'[t])
  BY <1>7 DEF TaskIs
<1>9. TaskFits(t)'
  BY <1>3, <1>4, <1>6, <1>8 DEF TaskFits
<1>10. ASSUME NEW s \in DOMAIN servers' PROVE servers'[s].locked \in DOMAIN restarts \cup {None}
  BY <1>2, <1>3 DEF McpInv, McpTypes
<1>11. slot' \in DOMAIN servers' \cup {None} /\ listening' \subseteq (DOMAIN servers') \X Ports
       /\ refused' \in Mcp!Flags /\ UNCHANGED <<mcp, changes, overlapped>>
  BY <1>1, <1>3 DEF McpInv, McpTypes
<1>12. McpTypes'
  BY <1>3, <1>8, <1>9, <1>10, <1>11, TypesGoOn DEF McpInv
<1>13. ASSUME ~overlapped PROVE OneServer' /\ StageFits(t)'
  <2>1. StageFits(t) /\ OneServer
    BY <1>4, <1>13, CalmStage
  <2>2. slot = None /\ Silent /\ mcp.enabled /\ restarts[t].port = mcp.port
    BY <1>1, <2>1 DEF StageFits
  <2>3. DOMAIN servers = {}
    BY <2>1, <2>2 DEF OneServer
  <2>4. n = 1
    BY <1>5, <2>3
  <2>5. slot' = n /\ n # None
    BY <1>1, <1>3 DEF Mcp!McpAssumption
  <2>6. Silent'
    BY <1>1, <1>2, <1>3, <2>2, <2>5 DEF Silent, Mcp!Running
  <2>7. OneServer'
    BY <1>3, <2>3, <2>4, <2>5 DEF OneServer
  <2>8. StageFits(t)'
    BY <1>1, <1>6, <1>8, <2>2, <2>5, <2>6 DEF StageFits
  <2> QED BY <2>7, <2>8
<1>14. restarts'[t].at # "over" /\ overlapped' = overlapped
  BY <1>1, <1>6, <1>8
<1> QED BY <1>4, <1>8, <1>12, <1>13, <1>14, TaskGoesOn

(* The task ends with the server on its port, or another program has it. *)
LEMMA StartServerHolds ==
  ASSUME Mcp!McpAssumption, McpInv, NEW t \in DOMAIN restarts, Mcp!Start(t) PROVE McpInv'
<1> DEFINE s == restarts[t].server
           port == restarts[t].port
           server == [servers[s] EXCEPT !.running = port]
<1>1. /\ restarts[t].at = "start" /\ Mcp!At(t, "over") /\ UNCHANGED <<mcp, changes, slot, overlapped>>
      /\ \/ servers[s].running # None /\ refused' = "" /\ UNCHANGED <<servers, listening>>
         \/ /\ servers[s].running = None /\ servers' = [servers EXCEPT ![s] = server]
            /\ listening' = listening \cup {<<s, port>>} /\ refused' = ""
         \/ /\ servers[s].running = None /\ (refused' = "other" \/ \E l \in listening : l[2] = port /\ refused' = "own")
            /\ UNCHANGED <<servers, listening>>
  BY DEF Mcp!Start
<1>2. s \in DOMAIN servers /\ port \in Ports /\ Mcp!Under(t)
  BY <1>1 DEF McpInv, McpTypes, TaskFits, Mcp!Under
<1>3. server \in McpServers /\ server.running = port /\ server.locked = servers[s].locked
      /\ servers[s].locked \in DOMAIN restarts \cup {None}
  BY <1>2, ServerIs DEF McpInv, McpServers
<1>4. TaskIs(t, restarts'[t]) /\ restarts'[t].at = "over" /\ restarts'[t].server = s /\ restarts'[t].port = port
  BY <1>1, AtIs DEF McpInv, McpStages
<1>5. ~overlapped => mcp.enabled /\ port = mcp.port /\ Silent /\ slot = s /\ OneServer
  <2>1. ~overlapped => StageFits(t) /\ OneServer
    BY <1>2, CalmStage
  <2> QED BY <1>1, <2>1 DEF StageFits
<1> HIDE DEF server, s, port
<1>6. s # None
  <2>1. s \in Nat
    BY <1>2, ServerIs DEF McpInv
  <2> QED BY <2>1 DEF Mcp!McpAssumption
<1>7. CASE UNCHANGED <<servers, listening>> /\ refused' \in Mcp!Flags /\ (servers[s].running # None \/ refused' = "other" \/ listening # {})
  <2>1. TaskFits(t)'
    BY <1>2, <1>4, <1>7 DEF TaskFits
  <2>2. McpTypes'
    BY <1>1, <1>4, <1>7, <2>1, TypesStayOn DEF McpInv
  <2>3. ASSUME ~overlapped PROVE OneServer' /\ AtRest'
    <3>1. Silent /\ Mcp!Running = servers[s].running
      BY <1>5, <1>6, <2>3 DEF Mcp!Running
    <3>2. refused' = "other"
      BY <1>7, <3>1 DEF Silent
    <3>3. OneServer'
      BY <1>1, <1>5, <1>7, <2>3 DEF OneServer
    <3>4. listening' = {} /\ mcp'.enabled
      BY <1>1, <1>5, <1>7, <2>3, <3>1 DEF Silent
    <3> QED BY <3>2, <3>3, <3>4 DEF AtRest, Settled
  <2>4. overlapped' = overlapped
    BY <1>1
  <2> QED BY <1>2, <1>4, <2>2, <2>3, <2>4, TaskGoesOn
<1>8. CASE servers' = [servers EXCEPT ![s] = server] /\ listening' = listening \cup {<<s, port>>} /\ refused' = ""
  <2>1. /\ servers' \in Seq(McpServers) /\ DOMAIN servers' = DOMAIN servers /\ servers'[s] = server
        /\ \A v \in DOMAIN servers' : servers'[v].locked \in DOMAIN restarts \cup {None}
    BY <1>2, <1>3, <1>8, ServerChanges DEF McpInv
  <2>2. TaskFits(t)'
    BY <1>2, <1>4, <2>1 DEF TaskFits
  <2>3. listening' \subseteq (DOMAIN servers') \X Ports
    <3>1. <<s, port>> \in (DOMAIN servers) \X Ports
      BY <1>2
    <3> QED BY <1>8, <2>1, <3>1 DEF McpInv, McpTypes
  <2>4. slot' \in DOMAIN servers' \cup {None} /\ refused' \in Mcp!Flags /\ UNCHANGED <<mcp, changes, overlapped>>
    BY <1>1, <1>8, <2>1 DEF McpInv, McpTypes, Mcp!Flags
  <2>5. McpTypes'
    BY <1>4, <2>1, <2>2, <2>3, <2>4, TypesGoOn DEF McpInv
  <2>6. ASSUME ~overlapped PROVE OneServer' /\ AtRest'
    <3>1. Mcp!Running' = port
      BY <1>1, <1>3, <1>5, <1>6, <2>1, <2>6 DEF Mcp!Running
    <3>2. listening' = {<<s, port>>}
      BY <1>5, <1>8, <2>6 DEF Silent
    <3>3. Settled'
      BY <3>1, <3>2 DEF Settled
    <3>4. OneServer'
      BY <1>1, <1>5, <2>1, <2>6 DEF OneServer
    <3>5. mcp'.enabled /\ Mcp!Running' = mcp'.port
      BY <1>1, <1>5, <2>6, <3>1
    <3> QED BY <3>3, <3>4, <3>5 DEF AtRest
  <2>7. overlapped' = overlapped
    BY <1>1
  <2> QED BY <1>2, <1>4, <2>5, <2>6, <2>7, TaskGoesOn
<1> QED BY <1>1, <1>7, <1>8 DEF Mcp!Flags

(* The settings change while nothing is under way. *)
LEMMA ChangeHolds == ASSUME Mcp!McpAssumption, McpInv, Mcp!Change PROVE McpInv'
<1>1. PICK after \in McpSettings : mcp' = after /\ Mcp!Add(Mcp!Task("stop", slot, after.enabled, None))
  BY DEF Mcp!Change, McpSettings
<1>2. changes < MaxChanges /\ changes' = changes + 1 /\ overlapped' = (overlapped \/ Mcp!Busy)
      /\ UNCHANGED <<slot, servers, listening, refused>>
  BY DEF Mcp!Change
<1> DEFINE task == Mcp!Task("stop", slot, after.enabled, None)
<1>3. slot \in Nat \cup {None}
  BY ServerIs DEF McpInv, McpTypes
<1>4. task \in McpTasks /\ task.at = "stop" /\ task.server = slot /\ task.enabled = after.enabled
  BY <1>3 DEF Mcp!Task, McpTasks, McpStages, McpSettings
<1> HIDE DEF task
<1>5. restarts' = Append(restarts, task)
  BY <1>1 DEF Mcp!Add, task
<1>n. PICK n : n = Len(restarts) + 1
  OBVIOUS
<1>6. /\ restarts' \in Seq(McpTasks) /\ DOMAIN restarts' = DOMAIN restarts \cup {n} /\ restarts'[n] = task
      /\ \A t \in DOMAIN restarts : restarts'[t] = restarts[t]
  BY <1>n, <1>4, <1>5, SeqAppend DEF McpInv, McpTypes
<1>7. ASSUME NEW t \in DOMAIN restarts' PROVE TaskFits(t)'
  <2>1. CASE t = n
    BY <1>2, <1>4, <1>6, <2>1 DEF TaskFits, McpInv, McpTypes
  <2>2. CASE t \in DOMAIN restarts
    BY <1>2, <1>6, <2>2 DEF TaskFits, McpInv, McpTypes
  <2> QED BY <1>6, <2>1, <2>2
<1>8. changes' \in 0 .. MaxChanges
  BY <1>2 DEF Mcp!McpAssumption, McpInv, McpTypes
<1>9. overlapped' \in BOOLEAN
  <2>1. Mcp!Busy \in BOOLEAN
    BY DEF Mcp!Busy, Mcp!Under
  <2> QED BY <1>2, <2>1
<1>10. ASSUME NEW s \in DOMAIN servers' PROVE servers'[s].locked \in DOMAIN restarts' \cup {None}
  BY <1>2, <1>6 DEF McpInv, McpTypes
<1>11. mcp' \in McpSettings /\ servers' \in Seq(McpServers) /\ slot' \in DOMAIN servers' \cup {None}
       /\ listening' \subseteq (DOMAIN servers') \X Ports /\ refused' \in Mcp!Flags
  BY <1>1, <1>2 DEF McpInv, McpTypes
<1>12. McpTypes'
  BY <1>6, <1>7, <1>8, <1>9, <1>10, <1>11, Zenon DEF McpTypes
<1>13. ASSUME ~overlapped' PROVE Calm'
  <2>1. ~overlapped /\ ~Mcp!Busy
    BY <1>2, <1>13
  <2>2. \A t \in DOMAIN restarts : ~Mcp!Under(t)
    BY <2>1, Zenon DEF Mcp!Busy
  <2>3. AtRest /\ OneServer
    BY <2>1, <2>2, Zenon DEF McpInv, Calm
  <2>4. OneServer' /\ Settled'
    BY <1>2, <2>3, SilenceLasts DEF AtRest
  <2>5. \A t \in DOMAIN restarts' : t # n => ~Mcp!Under(t)'
    BY <1>6, <2>2 DEF Mcp!Under
  <2>6. StageFits(n)'
    BY <1>1, <1>2, <1>4, <1>6, <2>4 DEF StageFits
  <2>7. Mcp!Under(n)' /\ n \in DOMAIN restarts'
    BY <1>4, <1>6 DEF Mcp!Under
  <2>8. OneTask'
    BY <2>5, Zenon DEF OneTask
  <2> QED BY <2>4, <2>5, <2>6, <2>7, <2>8, Zenon DEF Calm
<1> QED BY <1>12, <1>13 DEF McpInv

LEMMA ServerEndsHolds ==
  ASSUME Mcp!McpAssumption, McpInv, NEW l \in listening, Mcp!ServerEnds(l) PROVE McpInv'
<1>1. listening' = listening \ {l} /\ UNCHANGED <<mcp, changes, restarts, slot, servers, overlapped, refused>>
  BY DEF Mcp!ServerEnds
<1>2. McpTypes'
  BY <1>1 DEF McpInv, McpTypes, TaskFits
<1>3. ASSUME ~overlapped PROVE Calm'
  <2>1. Calm
    BY <1>3 DEF McpInv
  <2>2. (Silent => Silent') /\ (Settled => Settled') /\ (OneServer => OneServer')
    BY <1>1 DEF Silent, Settled, Mcp!Running, OneServer
  <2>3. \A t \in DOMAIN restarts : StageFits(t) => StageFits(t)'
    BY <1>1, <2>2 DEF StageFits, Mcp!Running
  <2>4. AtRest => AtRest'
    BY <1>1, <2>2 DEF AtRest, Mcp!Running
  <2>5. \A t \in DOMAIN restarts : Mcp!Under(t)' = Mcp!Under(t)
    BY <1>1 DEF Mcp!Under
  <2>6. DOMAIN restarts' = DOMAIN restarts
    BY <1>1
  <2> QED BY <2>1, <2>2, <2>3, <2>4, <2>5, <2>6, Zenon DEF Calm, OneTask
<1> QED BY <1>1, <1>2, <1>3 DEF McpInv

(* There is no server but the one, so none is dropped. *)
LEMMA DroppedHolds ==
  ASSUME Mcp!McpAssumption, McpInv, NEW s \in DOMAIN servers, Mcp!Dropped(s) PROVE McpInv'
<1> DEFINE server == [servers[s] EXCEPT !.running = None]
<1>1. /\ s # slot /\ servers' = [servers EXCEPT ![s] = server]
      /\ UNCHANGED <<mcp, changes, restarts, slot, listening, overlapped, refused>>
  BY DEF Mcp!Dropped
<1>2. server \in McpServers /\ server.locked \in DOMAIN restarts \cup {None}
  BY ServerIs DEF McpInv, McpServers
<1> HIDE DEF server
<1>3. /\ servers' \in Seq(McpServers) /\ DOMAIN servers' = DOMAIN servers
      /\ \A v \in DOMAIN servers' : servers'[v].locked \in DOMAIN restarts \cup {None}
  BY <1>1, <1>2, ServerChanges DEF McpInv
<1>4. McpTypes'
  BY <1>1, <1>3 DEF McpInv, McpTypes, TaskFits
<1>5. overlapped
  <2> SUFFICES ASSUME ~overlapped PROVE FALSE
    BY DEF McpInv, McpTypes
  <2>1. OneServer /\ slot \in DOMAIN servers \cup {None}
    BY Zenon DEF McpInv, Calm, McpTypes
  <2> QED BY <1>1, <2>1 DEF OneServer
<1> QED BY <1>1, <1>4, <1>5 DEF McpInv

LEMMA McpStep == ASSUME Mcp!McpAssumption, McpInv, Mcp!Next PROVE McpInv'
<1>1. ASSUME NEW t \in DOMAIN restarts,
             Mcp!Stop(t) \/ Mcp!Stopped(t) \/ Mcp!StartMcp(t) \/ Mcp!Look(t) \/ Mcp!Set(t) \/ Mcp!Start(t)
      PROVE  McpInv'
  BY <1>1, StopTaskHolds, StoppedHolds, StartMcpHolds, LookHolds, SetHolds, StartServerHolds, Zenon
<1> QED BY <1>1, ChangeHolds, ServerEndsHolds, DroppedHolds, Zenon DEF Mcp!Next

LEMMA McpStarts == ASSUME Mcp!McpAssumption, Mcp!Init PROVE McpInv
<1> DEFINE task == Mcp!Task("stopped", None, TRUE, None)
<1>1. /\ mcp \in McpSettings /\ changes = 0 /\ restarts = <<task>> /\ slot = None /\ servers = <<>>
      /\ listening = {} /\ overlapped = FALSE /\ refused = ""
  BY DEF Mcp!Init, McpSettings
<1>2. /\ task \in McpTasks /\ task.at = "stopped" /\ task.server = None /\ task.enabled = TRUE
  BY DEF Mcp!Task, McpTasks, McpStages
<1> HIDE DEF task
<1>3. restarts \in Seq(McpTasks) /\ DOMAIN restarts = {1} /\ restarts[1] = task
  <2>1. <<task>> \in Seq(McpTasks)
    BY <1>2, MembersOfOne
  <2>2. restarts = <<task>>
    BY <1>1
  <2>3. DOMAIN <<task>> = {1} /\ <<task>>[1] = task
    OBVIOUS
  <2> QED BY <2>1, <2>2, <2>3
<1>4. DOMAIN servers = {} /\ servers \in Seq(McpServers)
  <2>1. servers = <<>>
    BY <1>1
  <2> QED BY <2>1
<1>5. McpTypes
  <2>1. TaskFits(1)
    BY <1>2, <1>3 DEF TaskFits
  <2>2. changes \in 0 .. MaxChanges /\ refused \in Mcp!Flags
    <3>1. changes = 0 /\ refused = ""
      BY <1>1, Zenon
    <3>2. MaxChanges \in Nat
      BY Zenon DEF Mcp!McpAssumption
    <3>3. 0 \in 0 .. MaxChanges
      BY <3>2
    <3> QED BY <3>1, <3>3 DEF Mcp!Flags
  <2>3. mcp \in McpSettings /\ slot = None /\ listening = {} /\ overlapped = FALSE
    BY <1>1
  <2> QED BY <1>3, <1>4, <2>1, <2>2, <2>3 DEF McpTypes
<1>6. Silent /\ OneServer
  BY <1>1, <1>4 DEF Silent, Mcp!Running, OneServer
<1>7. StageFits(1) /\ Mcp!Under(1)
  BY <1>2, <1>3, <1>6 DEF StageFits, Mcp!Under
<1>8. Calm
  BY <1>3, <1>6, <1>7 DEF Calm, OneTask
<1> QED BY <1>5, <1>8 DEF McpInv

LEMMA McpFollows == ASSUME McpInv PROVE Mcp!TypeOK /\ Mcp!ServerFollowsSettings
<1>1. Mcp!TypeOK
  <2>1. ASSUME NEW t \in DOMAIN restarts
        PROVE  /\ restarts[t].at \in McpStages
               /\ restarts[t].server \in DOMAIN servers \cup {None} /\ restarts[t].port \in Ports \cup {None}
    <3>1. restarts[t] \in McpTasks
      BY ElementOfSeq, LenProperties DEF McpInv, McpTypes
    <3> QED BY <3>1 DEF McpInv, McpTypes, TaskFits, McpTasks
  <2>2. ASSUME NEW s \in DOMAIN servers
        PROVE  servers[s].running \in Ports \cup {None} /\ servers[s].locked \in DOMAIN restarts \cup {None}
    BY ServerIs DEF McpInv
  <2>3. \A l \in listening : l[1] \in DOMAIN servers /\ l[2] \in Ports
    BY DEF McpInv, McpTypes
  <2>4. mcp \in [enabled : BOOLEAN, port : Ports] /\ changes \in 0 .. MaxChanges
        /\ slot \in DOMAIN servers \cup {None} /\ refused \in Mcp!Flags
    BY DEF McpInv, McpTypes, McpSettings
  <2> QED BY <2>1, <2>2, <2>3, <2>4, Zenon DEF Mcp!TypeOK, McpStages
<1>2. ASSUME ~Mcp!Busy, ~overlapped PROVE AtRest
  BY <1>2, Zenon DEF McpInv, Calm, Mcp!Busy
<1>3. AtRest => IF mcp.enabled THEN Mcp!Running = mcp.port \/ refused = "other" ELSE listening = {}
  BY DEF AtRest
<1> QED BY <1>1, <1>2, <1>3, Zenon DEF Mcp!ServerFollowsSettings

-----------------------------------------------------------------------------
(* The clipboard's loan (selection.rs).  Unless presses come in each other's *)
(* way there is one borrower at most, and what it is going to put back is    *)
(* the user's, as far as it could be read.                                   *)

LoanPlaces == {"new", "image", "clear", "copy", "wait", "restore", "translate", "done"}
LoanSaved == [text : Texts \cup {None}, image : BOOLEAN]
Usual(c) == c \in {users, Loan!Empty, Loan!Text(users.text), Loan!GivesBack(users)}
Whole(c) == c \in {users, Loan!GivesBack(users)}
MayHave(c) == ("refused" \notin amiss => Usual(c)) /\ (amiss = {} => Whole(c))
HalfRead(p) ==
  MayHave(clipboard) /\ saved[p].text \in {clipboard.text, None} /\ (amiss = {} => saved[p].text = clipboard.text)
Undisturbed ==
  /\ \A p, q \in Presses : Loan!Borrowing(p) /\ Loan!Borrowing(q) => p = q
  /\ ~Loan!AnyBorrows => MayHave(clipboard)
  /\ \A p \in Presses : place[p] = "image" => HalfRead(p)
  /\ \A p \in Presses : place[p] \in {"clear", "copy", "wait", "restore"} => MayHave(Loan!GivesBack(saved[p]))
LoanInv == Loan!TypeOK /\ ("overlap" \in amiss \/ Undisturbed)

LEMMA ContentsAre ==
  /\ \A t \in Texts \cup {None} : Loan!Text(t) \in Loan!Contents
  /\ {Loan!Empty, Loan!Image, Loan!CopiedFiles} \subseteq Loan!Contents
  BY DEF Loan!Text, Loan!Empty, Loan!Image, Loan!CopiedFiles, Loan!Contents

LEMMA GivenBackIs ==
  ASSUME NEW s, s.text \in Texts \cup {None}, s.image \in BOOLEAN
  PROVE  /\ Loan!GivesBack(s) \in Loan!Contents
         /\ Loan!GivesBack(s).image = s.image
         /\ Loan!GivesBack(s).text = IF s.image THEN None ELSE s.text
         /\ Loan!Text(s.text).text = s.text /\ Loan!Text(s.text).image = FALSE
         /\ Loan!Empty.image = FALSE /\ Loan!Text(None) = Loan!Empty /\ Loan!Empty.text = None
<1>1. CASE s.image
  BY <1>1, ContentsAre DEF Loan!GivesBack, Loan!Text, Loan!Empty, Loan!Image
<1>2. CASE ~s.image
  BY <1>2, ContentsAre DEF Loan!GivesBack, Loan!Text, Loan!Empty
<1> QED BY <1>1, <1>2

(* What is read of the user's, or of what was given back of it, gives back   *)
(* the same, or a part of it.                                                *)
LEMMA PartIsGivenBack ==
  ASSUME Loan!TypeOK, NEW s \in LoanSaved, s.text \in {clipboard.text, None}, s.image \in {clipboard.image, FALSE}
  PROVE  /\ Usual(clipboard) => Usual(Loan!GivesBack(s))
         /\ Whole(clipboard) /\ s.text = clipboard.text /\ s.image = clipboard.image => Whole(Loan!GivesBack(s))
<1>1. /\ clipboard.text \in Texts \cup {None} /\ clipboard.image \in BOOLEAN
      /\ users.text \in Texts \cup {None} /\ users.image \in BOOLEAN
      /\ s.text \in Texts \cup {None} /\ s.image \in BOOLEAN
  BY DEF Loan!TypeOK, Loan!Contents, LoanSaved
<1>2. /\ Loan!GivesBack(users).image = users.image
      /\ Loan!GivesBack(users).text = IF users.image THEN None ELSE users.text
      /\ Loan!Text(users.text).text = users.text /\ Loan!Text(users.text).image = FALSE
      /\ Loan!Empty.image = FALSE /\ Loan!Text(None) = Loan!Empty /\ Loan!Empty.text = None
  BY <1>1, GivenBackIs
<1>3. ASSUME Usual(clipboard) PROVE Usual(Loan!GivesBack(s))
  <2>1. CASE s.image
    <3>1. Loan!GivesBack(s) = Loan!Image /\ clipboard.image
      BY <2>1 DEF Loan!GivesBack
    <3>2. users.image
      BY <1>2, <1>3, <3>1 DEF Usual
    <3> QED BY <3>1, <3>2 DEF Usual, Loan!GivesBack
  <2>2. CASE ~s.image
    <3>1. Loan!GivesBack(s) = Loan!Text(s.text)
      BY <2>2 DEF Loan!GivesBack
    <3>2. s.text = None \/ s.text = users.text
      BY <1>1, <1>2, <1>3 DEF Usual
    <3> QED BY <1>2, <3>1, <3>2 DEF Usual
  <2> QED BY <1>1, <2>1, <2>2
<1>4. ASSUME Whole(clipboard), s.text = clipboard.text, s.image = clipboard.image
      PROVE  Whole(Loan!GivesBack(s))
  <2>1. s.image = users.image /\ (~users.image => s.text = users.text)
    BY <1>1, <1>2, <1>4 DEF Whole
  <2>2. Loan!GivesBack(s) = Loan!GivesBack(users)
    BY <1>1, <2>1 DEF Loan!GivesBack
  <2> QED BY <2>2 DEF Whole
<1> QED BY <1>3, <1>4

LEMMA LoanStarts == ASSUME Loan!Init PROVE LoanInv
<1>1. /\ clipboard \in Loan!Contents /\ users = clipboard /\ asked = 0 /\ amiss = {}
      /\ place = [p \in Presses |-> "new"] /\ found = [p \in Presses |-> None]
      /\ saved = [p \in Presses |-> Loan!NothingRead] /\ last = None
  BY DEF Loan!Init
<1>2. \A p \in Presses : ~Loan!Borrowing(p) /\ place[p] = "new"
  BY <1>1 DEF Loan!Borrowing
<1>3. Loan!TypeOK
  BY <1>1 DEF Loan!TypeOK, Loan!NothingRead
<1>4. MayHave(clipboard)
  BY <1>1 DEF MayHave, Usual, Whole
<1> QED BY <1>2, <1>3, <1>4 DEF LoanInv, Undisturbed

(* A press goes on: nothing but its place and what is said of it changes. *)
LEMMA PressGoes ==
  ASSUME LoanInv, NEW p \in Presses, NEW goal \in LoanPlaces, Loan!Goto(p, goal)
  PROVE  /\ place' \in [Presses -> LoanPlaces] /\ place'[p] = goal
         /\ \A q \in Presses : q # p => place'[q] = place[q]
         /\ \A q \in Presses : q # p => (Loan!Borrowing(q)' <=> Loan!Borrowing(q))
         /\ Loan!Borrowing(p)' <=> goal \in {"image", "clear", "copy", "wait", "restore"}
<1>1. place' = [place EXCEPT ![p] = goal] /\ place \in [Presses -> LoanPlaces]
  BY DEF Loan!Goto, LoanInv, Loan!TypeOK, LoanPlaces
<1> QED BY <1>1 DEF Loan!Borrowing

LEMMA ReadTextHolds == ASSUME LoanInv, NEW p \in Presses, Loan!ReadText(p) PROVE LoanInv'
<1>1. PICK read \in {clipboard.text, None} :
        /\ saved' = [saved EXCEPT ![p].text = read]
        /\ amiss' = Loan!Notes("overlap", asked > 0 \/ Loan!AnyBorrows)
                      \cup (IF read = clipboard.text THEN {} ELSE {"unread"})
  BY DEF Loan!ReadText
<1>2. /\ place[p] = "new" /\ Loan!Goto(p, "image")
      /\ clipboard' = clipboard /\ asked' = asked /\ found' = found /\ last' = last /\ users' = users
  BY DEF Loan!ReadText
<1>3. /\ place' \in [Presses -> LoanPlaces] /\ place'[p] = "image"
      /\ \A q \in Presses : q # p => place'[q] = place[q]
      /\ \A q \in Presses : q # p => (Loan!Borrowing(q)' <=> Loan!Borrowing(q))
      /\ Loan!Borrowing(p)'
  BY <1>2, PressGoes DEF LoanPlaces
<1>4. read \in Texts \cup {None}
  BY DEF LoanInv, Loan!TypeOK, Loan!Contents
<1>5. /\ saved' \in [Presses -> LoanSaved] /\ saved'[p].text = read
  BY <1>1, <1>4 DEF LoanInv, Loan!TypeOK, LoanSaved
<1>6. amiss' \subseteq Loan!Mishaps /\ (amiss' = {} => amiss = {} /\ read = clipboard.text)
      /\ ("refused" \notin amiss' => "refused" \notin amiss)
      /\ ("overlap" \notin amiss' => "overlap" \notin amiss /\ ~Loan!AnyBorrows)
  BY <1>1 DEF LoanInv, Loan!TypeOK, Loan!Mishaps, Loan!Notes
<1>7. Loan!TypeOK'
  BY <1>2, <1>3, <1>5, <1>6 DEF LoanInv, Loan!TypeOK, LoanPlaces, LoanSaved
<1>8. ASSUME "overlap" \notin amiss' PROVE Undisturbed'
  <2>1. Undisturbed /\ \A q \in Presses : ~Loan!Borrowing(q)
    BY <1>6, <1>8 DEF LoanInv, Loan!AnyBorrows
  <2>2. \A q \in Presses : Loan!Borrowing(q)' => q = p
    BY <1>3, <2>1
  <2>3. MayHave(clipboard) /\ MayHave(clipboard)'
    BY <1>2, <1>6, <2>1 DEF Undisturbed, Loan!AnyBorrows, MayHave, Usual, Whole
  <2>4. HalfRead(p)'
    BY <1>2, <1>5, <1>6, <2>3 DEF HalfRead
  <2> QED BY <1>3, <2>2, <2>3, <2>4 DEF Undisturbed, Loan!AnyBorrows, Loan!Borrowing
<1> QED BY <1>7, <1>8 DEF LoanInv

LEMMA ReadImageHolds == ASSUME LoanInv, NEW p \in Presses, Loan!ReadImage(p) PROVE LoanInv'
<1>1. PICK read \in {clipboard.image, FALSE} :
        /\ saved' = [saved EXCEPT ![p].image = read]
        /\ amiss' = Loan!Notes("unread", read # clipboard.image)
  BY DEF Loan!ReadImage
<1>2. /\ place[p] = "image" /\ Loan!Goto(p, "clear")
      /\ clipboard' = clipboard /\ asked' = asked /\ found' = found /\ last' = last /\ users' = users
  BY DEF Loan!ReadImage
<1>3. /\ place' \in [Presses -> LoanPlaces] /\ place'[p] = "clear"
      /\ \A q \in Presses : q # p => place'[q] = place[q]
      /\ \A q \in Presses : q # p => (Loan!Borrowing(q)' <=> Loan!Borrowing(q))
      /\ Loan!Borrowing(p)' /\ Loan!Borrowing(p)
  BY <1>2, PressGoes DEF LoanPlaces, Loan!Borrowing
<1>4. read \in BOOLEAN /\ clipboard.image \in BOOLEAN
  BY DEF LoanInv, Loan!TypeOK, Loan!Contents
<1>5. /\ saved' \in [Presses -> LoanSaved] /\ saved'[p] = [saved[p] EXCEPT !.image = read]
      /\ \A q \in Presses : q # p => saved'[q] = saved[q]
  BY <1>1, <1>4 DEF LoanInv, Loan!TypeOK, LoanSaved
<1>6. amiss' \subseteq Loan!Mishaps /\ (amiss' = {} => amiss = {} /\ read = clipboard.image)
      /\ ("refused" \notin amiss' => "refused" \notin amiss)
      /\ ("overlap" \notin amiss' => "overlap" \notin amiss)
  BY <1>1 DEF LoanInv, Loan!TypeOK, Loan!Mishaps, Loan!Notes
<1>7. Loan!TypeOK'
  BY <1>2, <1>3, <1>5, <1>6 DEF LoanInv, Loan!TypeOK, LoanPlaces, LoanSaved
<1>8. ASSUME "overlap" \notin amiss' PROVE Undisturbed'
  <2>1. Undisturbed
    BY <1>6, <1>8 DEF LoanInv
  <2>2. \A q \in Presses : Loan!Borrowing(q)' => q = p
    BY <1>3, <2>1 DEF Undisturbed
  <2>3. saved'[p] \in LoanSaved /\ saved'[p].text = saved[p].text /\ saved'[p].image = read
    BY <1>4, <1>5 DEF LoanInv, Loan!TypeOK, LoanSaved
  <2>4. HalfRead(p)
    BY <1>2, <2>1 DEF Undisturbed
  <2>5. /\ Usual(clipboard) => Usual(Loan!GivesBack(saved'[p]))
        /\ Whole(clipboard) /\ saved'[p].text = clipboard.text /\ saved'[p].image = clipboard.image
             => Whole(Loan!GivesBack(saved'[p]))
    BY <2>3, <2>4, PartIsGivenBack DEF LoanInv, HalfRead
  <2>6. MayHave(Loan!GivesBack(saved[p]))'
    BY <1>2, <1>6, <2>3, <2>4, <2>5 DEF HalfRead, MayHave, Usual, Whole
  <2> QED BY <1>3, <2>2, <2>6 DEF Undisturbed, Loan!AnyBorrows, Loan!Borrowing
<1> QED BY <1>7, <1>8 DEF LoanInv

(* While it borrows, what a press does to the clipboard is its own affair. *)
LEMMA BorrowerGoes ==
  ASSUME LoanInv, NEW p \in Presses, place[p] \in {"clear", "copy", "wait"}, NEW goal \in {"copy", "wait", "restore"},
         Loan!Goto(p, goal), Loan!TypeOK', saved' = saved, users' = users, amiss' = amiss
  PROVE  LoanInv'
<1>1. /\ Loan!Borrowing(p)' /\ Loan!Borrowing(p) /\ place'[p] = goal
      /\ \A q \in Presses : q # p => place'[q] = place[q]
      /\ \A q \in Presses : q # p => (Loan!Borrowing(q)' <=> Loan!Borrowing(q))
  BY PressGoes DEF LoanPlaces, Loan!Borrowing
<1>2. ASSUME Undisturbed PROVE Undisturbed'
  <2>1. \A q \in Presses : Loan!Borrowing(q)' => q = p
    BY <1>1, <1>2 DEF Undisturbed
  <2>2. MayHave(Loan!GivesBack(saved[p]))'
    BY <1>2 DEF Undisturbed, MayHave, Usual, Whole
  <2> QED BY <1>1, <2>1, <2>2 DEF Undisturbed, Loan!AnyBorrows, Loan!Borrowing
<1> QED BY <1>2 DEF LoanInv

LEMMA BorrowingHolds ==
  ASSUME LoanInv, NEW p \in Presses, Loan!ClearOld(p) \/ Loan!SendCopy(p) \/ Loan!Found(p) PROVE LoanInv'
<1>1. CASE Loan!ClearOld(p)
  <2>1. /\ place[p] = "clear" /\ Loan!Goto(p, "copy") /\ clipboard' \in {Loan!Empty, clipboard}
        /\ UNCHANGED <<asked, found, saved, last, users, amiss>>
    BY <1>1 DEF Loan!ClearOld
  <2>2. /\ place' \in [Presses -> LoanPlaces] /\ place'[p] = "copy"
        /\ \A q \in Presses : q # p => place'[q] = place[q]
    BY <2>1, PressGoes DEF LoanPlaces
  <2>3. Loan!TypeOK'
    <3>1. clipboard' \in Loan!Contents
      BY <2>1, ContentsAre DEF LoanInv, Loan!TypeOK
    <3> QED BY <2>1, <2>2, <3>1 DEF LoanInv, Loan!TypeOK, LoanPlaces
  <2> QED BY <2>1, <2>3, BorrowerGoes
<1>2. CASE Loan!SendCopy(p)
  <2>1. /\ place[p] = "copy" /\ Loan!Goto(p, "wait") /\ asked' \in {asked, asked + 1}
        /\ UNCHANGED <<clipboard, found, saved, last, users, amiss>>
    BY <1>2 DEF Loan!SendCopy
  <2>2. /\ place' \in [Presses -> LoanPlaces] /\ place'[p] = "wait"
        /\ \A q \in Presses : q # p => place'[q] = place[q]
    BY <2>1, PressGoes DEF LoanPlaces
  <2>3. asked' \in Nat
    BY <2>1 DEF LoanInv, Loan!TypeOK
  <2>4. Loan!TypeOK'
    BY <2>1, <2>2, <2>3 DEF LoanInv, Loan!TypeOK, LoanPlaces
  <2> QED BY <2>1, <2>4, BorrowerGoes
<1>3. CASE Loan!Found(p)
  <2>1. PICK read \in {clipboard.text, None} : found' = [found EXCEPT ![p] = read]
    BY <1>3 DEF Loan!Found
  <2>2. /\ place[p] = "wait" /\ Loan!Goto(p, "restore")
        /\ UNCHANGED <<clipboard, asked, saved, last, users, amiss>>
    BY <1>3 DEF Loan!Found
  <2>3. /\ place' \in [Presses -> LoanPlaces] /\ place'[p] = "restore"
        /\ \A q \in Presses : q # p => place'[q] = place[q]
    BY <2>2, PressGoes DEF LoanPlaces
  <2>4. read \in Texts \cup {None}
    BY DEF LoanInv, Loan!TypeOK, Loan!Contents
  <2>5. found' \in [Presses -> Texts \cup {None}] /\ \A q \in Presses : q # p => found'[q] = found[q]
    BY <2>1, <2>4 DEF LoanInv, Loan!TypeOK
  <2>6. Loan!TypeOK'
    BY <2>2, <2>3, <2>5 DEF LoanInv, Loan!TypeOK, LoanPlaces
  <2> QED BY <2>2, <2>6, BorrowerGoes
<1> QED BY <1>1, <1>2, <1>3

LEMMA RestoreHolds == ASSUME LoanInv, NEW p \in Presses, Loan!Restore(p) PROVE LoanInv'
<1>1. /\ place[p] = "restore" /\ saved' = [saved EXCEPT ![p] = Loan!NothingRead]
      /\ \/ clipboard' = Loan!GivesBack(saved[p]) /\ amiss' = amiss
         \/ clipboard' \in {clipboard, Loan!Empty} /\ amiss' = amiss \cup {"refused"}
      /\ asked' = asked /\ found' = found /\ users' = users
      /\ \/ found[p] = None /\ Loan!Goto(p, "done") /\ last' = last
         \/ found[p] # None /\ Loan!Goto(p, "translate") /\ last' = found[p]
  BY DEF Loan!Restore
<1>2. PICK goal \in {"done", "translate"} :
        Loan!Goto(p, goal) /\ (goal = "translate" => found[p] # None)
  BY <1>1
<1>3. /\ place' \in [Presses -> LoanPlaces] /\ place'[p] = goal
      /\ \A q \in Presses : q # p => place'[q] = place[q]
      /\ \A q \in Presses : q # p => (Loan!Borrowing(q)' <=> Loan!Borrowing(q))
      /\ ~Loan!Borrowing(p)' /\ Loan!Borrowing(p)
  BY <1>1, <1>2, PressGoes DEF LoanPlaces, Loan!Borrowing
<1>4. saved[p] \in LoanSaved /\ saved[p].text \in Texts \cup {None} /\ saved[p].image \in BOOLEAN
  BY DEF LoanInv, Loan!TypeOK, LoanSaved
<1>5. Loan!TypeOK'
  <2>1. clipboard' \in Loan!Contents
    BY <1>1, <1>4, GivenBackIs, ContentsAre DEF LoanInv, Loan!TypeOK
  <2>2. last' \in Texts \cup {None} /\ amiss' \subseteq Loan!Mishaps
        /\ saved' \in [Presses -> LoanSaved]
    BY <1>1 DEF LoanInv, Loan!TypeOK, Loan!Mishaps, LoanSaved, Loan!NothingRead
  <2> QED BY <1>1, <1>2, <1>3, <2>1, <2>2 DEF LoanInv, Loan!TypeOK, LoanPlaces, LoanSaved
<1>6. ASSUME "overlap" \notin amiss' PROVE Undisturbed'
  <2>1. Undisturbed
    BY <1>1, <1>6 DEF LoanInv
  <2>2. \A q \in Presses : ~Loan!Borrowing(q)'
    BY <1>3, <2>1 DEF Undisturbed
  <2>3. MayHave(Loan!GivesBack(saved[p]))
    BY <1>1, <2>1 DEF Undisturbed
  <2>4. MayHave(clipboard)'
    BY <1>1, <2>3 DEF MayHave, Usual, Whole
  <2> QED BY <2>2, <2>4 DEF Undisturbed, Loan!AnyBorrows, Loan!Borrowing
<1> QED BY <1>5, <1>6 DEF LoanInv

LEMMA LoanStep == ASSUME LoanInv, Loan!Next PROVE LoanInv'
<1>1. CASE Loan!ProgramAnswers
  <2>1. /\ asked > 0 /\ asked' = asked - 1
        /\ clipboard' \in {Loan!Text(t) : t \in Texts}
                            \cup {Loan!Image, Loan!CopiedFiles, clipboard}
        /\ amiss' = Loan!Notes("overlap", ~\E p \in Presses : place[p] = "wait")
        /\ place' = place /\ found' = found /\ saved' = saved /\ last' = last /\ users' = users
    BY <1>1 DEF Loan!ProgramAnswers
  <2>2. asked' \in Nat /\ amiss' \subseteq Loan!Mishaps
        /\ ("overlap" \notin amiss' => amiss' = amiss /\ \E p \in Presses : place[p] = "wait")
    BY <2>1 DEF LoanInv, Loan!TypeOK, Loan!Mishaps, Loan!Notes
  <2>3. clipboard' \in Loan!Contents
    BY <2>1, ContentsAre DEF LoanInv, Loan!TypeOK
  <2>4. Loan!TypeOK'
    BY <2>1, <2>2, <2>3 DEF LoanInv, Loan!TypeOK
  <2>5. ASSUME "overlap" \notin amiss' PROVE Undisturbed'
    <3>1. amiss' = amiss /\ Undisturbed
      BY <2>2, <2>5 DEF LoanInv
    <3>2. PICK p \in Presses : place[p] = "wait"
      BY <2>2, <2>5
    <3>3. \A q \in Presses : place[q] # "image"
      BY <3>1, <3>2 DEF Undisturbed, Loan!Borrowing
    <3> QED BY <2>1, <3>1, <3>2, <3>3 DEF Undisturbed, Loan!Borrowing, Loan!AnyBorrows, MayHave, Usual, Whole
  <2> QED BY <2>4, <2>5 DEF LoanInv
<1>2. CASE Loan!UserCopies
  <2>1. /\ clipboard' \in Loan!Contents /\ users' = clipboard'
        /\ amiss' = IF asked > 0 \/ Loan!AnyBorrows THEN {"overlap"} ELSE {}
        /\ place' = place /\ found' = found /\ saved' = saved /\ last' = last /\ asked' = asked
    BY <1>2 DEF Loan!UserCopies
  <2>2. Loan!TypeOK'
    BY <2>1 DEF LoanInv, Loan!TypeOK, Loan!Mishaps
  <2>3. ASSUME "overlap" \notin amiss' PROVE Undisturbed'
    <3>1. \A q \in Presses : ~Loan!Borrowing(q) /\ ~Loan!Borrowing(q)'
      BY <2>1, <2>3 DEF Loan!AnyBorrows, Loan!Borrowing
    <3>2. MayHave(clipboard)'
      BY <2>1 DEF MayHave, Usual, Whole
    <3> QED BY <3>1, <3>2 DEF Undisturbed, Loan!Borrowing
  <2> QED BY <2>2, <2>3 DEF LoanInv
<1>3. ASSUME NEW p \in Presses,
             \/ Loan!ReadText(p) \/ Loan!ReadImage(p) \/ Loan!ClearOld(p) \/ Loan!SendCopy(p)
             \/ Loan!Found(p) \/ Loan!Restore(p)
      PROVE  LoanInv'
  BY <1>3, ReadTextHolds, ReadImageHolds, BorrowingHolds, RestoreHolds, Zenon
<1> QED BY <1>1, <1>2, <1>3, Zenon DEF Loan!Next

LEMMA LoanStutter == ASSUME LoanInv, UNCHANGED loanVars PROVE LoanInv'
<1>1. /\ clipboard' = clipboard /\ asked' = asked /\ place' = place /\ found' = found /\ saved' = saved
      /\ last' = last /\ users' = users /\ amiss' = amiss
  BY DEF loanVars
<1>2. Loan!TypeOK' /\ (Undisturbed => Undisturbed')
  BY <1>1 DEF LoanInv, Loan!TypeOK, Undisturbed, Loan!Borrowing, Loan!AnyBorrows, HalfRead, MayHave, Usual, Whole
<1> QED BY <1>1, <1>2 DEF LoanInv

LEMMA LoanIsReturned == ASSUME LoanInv PROVE Loan!TypeOK /\ Loan!ClipboardComesBack
  BY DEF LoanInv, Undisturbed, Loan!ClipboardComesBack, MayHave, Usual, Whole

-----------------------------------------------------------------------------
(* The watcher (selection/state.rs).  One empty reading is counted. *)

Streak ==
  /\ reads[1] \in Texts \cup {Watch!Gesture} => empty_streak = 0
  /\ reads[1] = Nothing => empty_streak >= 1 \/ last_emitted = Nothing
WatchInv == Watch!TypeOK /\ Watch!ToldIsSelected /\ Streak

LEMMA WatchStarts == ASSUME Watch!WatchAssumption, Watch!Init PROVE WatchInv
<1>1. IdleTicks \in Nat \ {0} /\ Nothing \notin Texts
  BY DEF Watch!WatchAssumption
<1>2. 0 \in 0 .. IdleTicks - 1 /\ 0 \in 0 .. 2
  BY <1>1
<1>3. Watch!TypeOK
  BY <1>2 DEF Watch!Init, Watch!TypeOK
<1>4. Watch!ToldIsSelected /\ Streak
  BY <1>1 DEF Watch!Init, Watch!ToldIsSelected, Streak, Watch!WatchAssumption
<1> QED BY <1>3, <1>4 DEF WatchInv

(* The button is up; what was read is remembered with the reading before. *)
LEMMA UpCounts ==
  ASSUME Watch!WatchAssumption, WatchInv, Watch!Up
  PROVE  was_down' = FALSE /\ idle' \in 0 .. IdleTicks - 1
<1>1. IdleTicks \in Nat \ {0} /\ idle \in 0 .. IdleTicks - 1
  BY DEF Watch!WatchAssumption, WatchInv, Watch!TypeOK
<1>2. (idle + 1) % IdleTicks \in 0 .. IdleTicks - 1
  BY <1>1
<1> QED BY <1>2 DEF Watch!Up

LEMMA ReadingIsNoted ==
  ASSUME WatchInv, NEW read \in Texts \cup {Nothing, Watch!Gesture}, Watch!Noted(read)
  PROVE  /\ reads' \in (Texts \cup {Nothing, Watch!Gesture}) \X (Texts \cup {Nothing, Watch!Gesture})
         /\ reads'[1] = read /\ reads'[2] = reads[1]
  BY DEF WatchInv, Watch!TypeOK, Watch!Noted

LEMMA WatchStep == ASSUME Watch!WatchAssumption, WatchInv, Watch!Next PROVE WatchInv'
<1>1. /\ Nothing \notin Texts /\ Watch!Gesture \notin Texts /\ Watch!Gesture # Nothing
      /\ IdleTicks \in Nat \ {0}
  BY DEF Watch!WatchAssumption
<1>2. /\ last_emitted \in Texts \cup {Nothing} /\ told = last_emitted /\ empty_streak \in {0, 1, 2}
      /\ was_down \in BOOLEAN /\ double \in BOOLEAN
      /\ reads[1] \in Texts \cup {Nothing, Watch!Gesture}
  BY DEF WatchInv, Watch!TypeOK, Watch!ToldIsSelected
<1>3. CASE Watch!TickDown \/ Watch!TickIdle
  <2>1. /\ was_down' \in BOOLEAN /\ double' \in BOOLEAN /\ idle' \in 0 .. IdleTicks - 1
        /\ last_emitted' = last_emitted /\ empty_streak' = empty_streak /\ told' = told /\ reads' = reads
    <3>1. CASE Watch!TickDown
      <4>1. 0 \in 0 .. IdleTicks - 1
        BY <1>1
      <4> QED BY <1>2, <3>1, <4>1 DEF Watch!TickDown
    <3>2. CASE Watch!TickIdle
      <4>1. Watch!Up /\ double' = double /\ last_emitted' = last_emitted
            /\ empty_streak' = empty_streak /\ told' = told /\ reads' = reads
        BY <3>2 DEF Watch!TickIdle
      <4> QED BY <1>2, <4>1, UpCounts
    <3> QED BY <1>3, <3>1, <3>2
  <2>2. Watch!TypeOK'
    BY <2>1 DEF WatchInv, Watch!TypeOK
  <2>3. Watch!ToldIsSelected' /\ Streak'
    BY <2>1 DEF WatchInv, Watch!ToldIsSelected, Streak
  <2> QED BY <2>2, <2>3 DEF WatchInv
<1>4. CASE \E text_read \in Texts : Watch!ReadText(text_read)
  <2>1. PICK t \in Texts : Watch!ReadText(t)
    BY <1>4
  <2>2. /\ was_down' = FALSE /\ idle' \in 0 .. IdleTicks - 1 /\ double' = double
        /\ empty_streak' = 0 /\ last_emitted' = t /\ told' = t
        /\ reads' \in (Texts \cup {Nothing, Watch!Gesture}) \X (Texts \cup {Nothing, Watch!Gesture})
        /\ reads'[1] = t /\ reads'[2] = reads[1]
    <3>1. /\ Watch!Up /\ Watch!Noted(t) /\ double' = double
          /\ empty_streak' = 0 /\ last_emitted' = t /\ told' = t
      BY <2>1 DEF Watch!ReadText
    <3> QED BY <2>1, <3>1, UpCounts, ReadingIsNoted
  <2>3. Watch!TypeOK'
    <3>1. was_down' \in BOOLEAN /\ double' \in BOOLEAN /\ empty_streak' \in 0 .. 2
      BY <1>2, <2>2, 0 \in 0 .. 2, FALSE \in BOOLEAN
    <3>2. last_emitted' \in Texts \cup {Nothing} /\ told' \in Texts \cup {Nothing}
      BY <2>1, <2>2
    <3> QED BY <2>2, <3>1, <3>2, Zenon DEF Watch!TypeOK
  <2>4. Watch!ToldIsSelected' /\ Streak'
    BY <1>1, <2>1, <2>2 DEF Watch!ToldIsSelected, Streak
  <2> QED BY <2>3, <2>4 DEF WatchInv
<1>5. CASE Watch!ReadGesture
  <2>1. /\ was_down' = FALSE /\ idle' \in 0 .. IdleTicks - 1 /\ double' \in BOOLEAN
        /\ empty_streak' = 0 /\ last_emitted' = last_emitted /\ told' = told
        /\ reads' \in (Texts \cup {Nothing, Watch!Gesture}) \X (Texts \cup {Nothing, Watch!Gesture})
        /\ reads'[1] = Watch!Gesture /\ reads'[2] = reads[1]
    <3>1. /\ Watch!Up /\ Watch!Noted(Watch!Gesture) /\ double' \in BOOLEAN
          /\ empty_streak' = 0 /\ last_emitted' = last_emitted /\ told' = told
      BY <1>2, <1>5 DEF Watch!ReadGesture
    <3> QED BY <3>1, UpCounts, ReadingIsNoted
  <2>2. Watch!TypeOK'
    <3>1. was_down' \in BOOLEAN /\ double' \in BOOLEAN /\ empty_streak' \in 0 .. 2
      BY <1>2, <2>1, 0 \in 0 .. 2, FALSE \in BOOLEAN
    <3>2. last_emitted' \in Texts \cup {Nothing} /\ told' \in Texts \cup {Nothing}
      BY <1>2, <2>1
    <3> QED BY <2>1, <3>1, <3>2, Zenon DEF Watch!TypeOK
  <2>3. Watch!ToldIsSelected' /\ Streak'
    BY <1>1, <1>2, <2>1 DEF Watch!ToldIsSelected, Streak
  <2> QED BY <2>2, <2>3 DEF WatchInv
<1>6. CASE Watch!ReadNothing
  <2> DEFINE gone == last_emitted # Nothing /\ empty_streak + 1 >= 2
  <2>1. /\ was_down' = FALSE /\ idle' \in 0 .. IdleTicks - 1 /\ double' = double
        /\ last_emitted' = IF gone THEN Nothing ELSE last_emitted
        /\ told' = IF gone THEN Nothing ELSE told
        /\ empty_streak' = IF empty_streak = 2 THEN 2 ELSE empty_streak + 1
        /\ reads' \in (Texts \cup {Nothing, Watch!Gesture}) \X (Texts \cup {Nothing, Watch!Gesture})
        /\ reads'[1] = Nothing /\ reads'[2] = reads[1]
    <3>1. /\ Watch!Up /\ Watch!Noted(Nothing) /\ double' = double
          /\ last_emitted' = IF gone THEN Nothing ELSE last_emitted
          /\ told' = IF gone THEN Nothing ELSE told
          /\ empty_streak' = IF empty_streak = 2 THEN 2 ELSE empty_streak + 1
      BY <1>6 DEF Watch!ReadNothing
    <3> QED BY <3>1, UpCounts, ReadingIsNoted
  <2>2. empty_streak' \in 0 .. 2 /\ empty_streak' >= 1
    BY <1>2, <2>1
  <2>3. Watch!TypeOK'
    BY <1>2, <2>1, <2>2 DEF Watch!TypeOK
  <2>4. reads[1] \in Texts => told' = reads[1]
    BY <1>1, <2>1 DEF WatchInv, Watch!ToldIsSelected, Streak
  <2>5. reads[1] = Nothing => told' = Nothing
    BY <1>2, <2>1 DEF WatchInv, Streak
  <2>6. reads' = <<Nothing, Nothing>> => reads[1] = Nothing
    BY <2>1
  <2>7. Watch!ToldIsSelected'
    BY <1>1, <1>2, <2>1, <2>4, <2>5, <2>6 DEF Watch!ToldIsSelected
  <2>8. Streak'
    BY <1>1, <2>1, <2>2 DEF Streak
  <2> QED BY <2>3, <2>7, <2>8 DEF WatchInv
<1> QED BY <1>3, <1>4, <1>5, <1>6 DEF Watch!Next

LEMMA WatchStutter == ASSUME WatchInv, UNCHANGED watchVars PROVE WatchInv'
<1>1. /\ was_down' = was_down /\ double' = double /\ last_emitted' = last_emitted /\ idle' = idle
      /\ empty_streak' = empty_streak /\ told' = told /\ reads' = reads
  BY DEF watchVars
<1> QED BY <1>1 DEF WatchInv, Watch!TypeOK, Watch!ToldIsSelected, Streak

-----------------------------------------------------------------------------
(* The translation's popup (translate_popup). *)

PopupWorks == {"loading", "answer", "hide", "enter", "leave", "unheard"}
Hovers == {"enter", "leave"}
Calling == \E th \in Translations : thread[th] = "call"

(* What is still to be shown as loading has its answer behind it. *)
Follows(q, calling, loading) ==
  /\ \A k \in DOMAIN q : q[k] = "loading" =>
       calling \/ \E j \in DOMAIN q : k < j /\ q[j] = "answer"
  /\ loading => calling \/ \E j \in DOMAIN q : q[j] = "answer"

(* The popup knows where the pointer is, or will hear of it. *)
Hears(q, hovering, inside) ==
  \/ hovering = inside /\ \A k \in DOMAIN q : q[k] \notin Hovers
  \/ \E k \in DOMAIN q :
       /\ q[k] \in Hovers /\ inside = (q[k] = "enter")
       /\ \A j \in DOMAIN q : k < j => q[j] \notin Hovers

PopupTypes ==
  /\ thread \in [Translations -> {"new", "call", "done"}]
  /\ popup \in [visible : BOOLEAN, loading : BOOLEAN, hovering : BOOLEAN, armed : BOOLEAN]
  /\ popup_queue \in Seq(PopupWorks) /\ Len(popup_queue) <= MaxQueue
  /\ over \in BOOLEAN /\ (over => popup.visible)

PopupInv ==
  /\ PopupTypes
  /\ Follows(popup_queue, Calling, popup.loading)
  /\ Hears(popup_queue, popup.hovering, over)
  /\ popup.visible /\ ~popup.armed => popup.loading \/ popup.hovering

(* One more waits. *)
LEMMA AppendFollows ==
  ASSUME NEW q \in Seq(PopupWorks), NEW w \in PopupWorks, NEW c, NEW d, NEW l, Follows(q, c, l),
         c => d \/ w = "answer", w = "loading" => d
  PROVE  Follows(Append(q, w), d, l)
<1> DEFINE r == Append(q, w)
<1>1. /\ Len(q) \in Nat /\ DOMAIN q = 1 .. Len(q) /\ DOMAIN r = 1 .. Len(q) + 1
      /\ r[Len(q) + 1] = w /\ \A k \in DOMAIN q : r[k] = q[k]
  OBVIOUS
<1> HIDE DEF r
<1>2. \A k \in DOMAIN q : k \in DOMAIN r /\ k < Len(q) + 1
  BY <1>1
<1>3. Len(q) + 1 \in DOMAIN r /\ \A k \in DOMAIN r : k \in DOMAIN q \/ k = Len(q) + 1
  BY <1>1
<1>4. l => d \/ \E j \in DOMAIN r : r[j] = "answer"
  BY <1>1, <1>2, <1>3 DEF Follows
<1>5. ASSUME NEW k \in DOMAIN r, r[k] = "loading"
      PROVE  d \/ \E j \in DOMAIN r : k < j /\ r[j] = "answer"
  BY <1>1, <1>2, <1>3, <1>5 DEF Follows
<1>6. Follows(r, d, l)
  BY <1>4, <1>5 DEF Follows
<1> QED BY <1>6 DEF r

LEMMA AppendHears ==
  ASSUME NEW q \in Seq(PopupWorks), NEW w \in PopupWorks, NEW h, NEW o, NEW inside,
         \/ w \notin Hovers /\ Hears(q, h, o) /\ inside = o
         \/ w \in Hovers /\ inside = (w = "enter")
  PROVE  Hears(Append(q, w), h, inside)
<1> DEFINE r == Append(q, w)
<1>1. /\ Len(q) \in Nat /\ DOMAIN q = 1 .. Len(q) /\ DOMAIN r = 1 .. Len(q) + 1
      /\ r[Len(q) + 1] = w /\ \A k \in DOMAIN q : r[k] = q[k]
  OBVIOUS
<1> HIDE DEF r
<1>2. \A k \in DOMAIN q : k \in DOMAIN r
  BY <1>1
<1>3. Len(q) + 1 \in DOMAIN r /\ \A k \in DOMAIN r : k \in DOMAIN q \/ k = Len(q) + 1
  BY <1>1
<1>4. CASE w \in Hovers /\ inside = (w = "enter")
  <2>1. \A j \in DOMAIN r : ~(Len(q) + 1 < j)
    BY <1>1
  <2>2. Hears(r, h, inside)
    BY <1>1, <1>3, <1>4, <2>1, Zenon DEF Hears
  <2> QED BY <2>2 DEF r
<1>5. CASE w \notin Hovers /\ Hears(q, h, o) /\ inside = o
  <2>1. CASE h = o /\ \A k \in DOMAIN q : q[k] \notin Hovers
    <3>1. \A k \in DOMAIN r : r[k] \notin Hovers
      BY <1>1, <1>3, <1>5, <2>1
    <3>2. Hears(r, h, inside)
      BY <1>5, <2>1, <3>1, Zenon DEF Hears
    <3> QED BY <3>2 DEF r
  <2>2. CASE \E k \in DOMAIN q :
               /\ q[k] \in Hovers /\ o = (q[k] = "enter")
               /\ \A j \in DOMAIN q : k < j => q[j] \notin Hovers
    <3>1. PICK k \in DOMAIN q :
            /\ q[k] \in Hovers /\ o = (q[k] = "enter")
            /\ \A j \in DOMAIN q : k < j => q[j] \notin Hovers
      BY <2>2
    <3>2. \A j \in DOMAIN r : k < j => r[j] \notin Hovers
      BY <1>1, <1>3, <1>5, <3>1
    <3>3. k \in DOMAIN r /\ r[k] = q[k]
      BY <1>1, <1>2, <3>1
    <3>4. Hears(r, h, inside)
      BY <1>5, <3>1, <3>2, <3>3, Zenon DEF Hears
    <3> QED BY <3>4 DEF r
  <2> QED BY <1>5, <2>1, <2>2, Zenon DEF Hears
<1> QED BY <1>4, <1>5

(* The first is taken. *)
LEMMA TailFollows ==
  ASSUME NEW q \in Seq(PopupWorks), q # <<>>, NEW c, NEW l, NEW m, Follows(q, c, l),
         m => Head(q) = "loading" \/ (l /\ Head(q) # "answer")
  PROVE  Follows(Tail(q), c, m)
<1> DEFINE r == Tail(q)
<1>1. /\ Len(q) \in Nat /\ Len(q) > 0 /\ DOMAIN q = 1 .. Len(q) /\ DOMAIN r = 1 .. Len(q) - 1
      /\ q[1] = Head(q) /\ \A k \in DOMAIN r : r[k] = q[k + 1]
  OBVIOUS
<1> HIDE DEF r
<1>2. /\ 1 \in DOMAIN q
      /\ \A k \in DOMAIN r : k + 1 \in DOMAIN q
      /\ \A j \in DOMAIN q : 1 < j => j - 1 \in DOMAIN r /\ r[j - 1] = q[j]
      /\ \A j \in DOMAIN q : j = 1 \/ 1 < j
  BY <1>1
<1>3. ASSUME NEW k \in DOMAIN r, r[k] = "loading"
      PROVE  c \/ \E j \in DOMAIN r : k < j /\ r[j] = "answer"
  <2>1. c \/ \E j \in DOMAIN q : k + 1 < j /\ q[j] = "answer"
    BY <1>1, <1>2, <1>3 DEF Follows
  <2>2. ASSUME NEW j \in DOMAIN q, k + 1 < j, q[j] = "answer"
        PROVE  \E i \in DOMAIN r : k < i /\ r[i] = "answer"
    <3>1. j - 1 \in DOMAIN r /\ r[j - 1] = "answer" /\ k < j - 1
      BY <1>1, <1>2, <2>2
    <3> QED BY <3>1
  <2> QED BY <2>1, <2>2
<1>4. ASSUME m PROVE c \/ \E j \in DOMAIN r : r[j] = "answer"
  <2>1. c \/ \E j \in DOMAIN q : 1 < j /\ q[j] = "answer"
    BY <1>1, <1>2, <1>4 DEF Follows
  <2> QED BY <1>2, <2>1
<1>5. Follows(r, c, m)
  BY <1>3, <1>4 DEF Follows
<1> QED BY <1>5 DEF r

LEMMA TailHears ==
  ASSUME NEW q \in Seq(PopupWorks), q # <<>>, NEW h, NEW g, NEW o, Hears(q, h, o),
         g = IF Head(q) \in Hovers THEN Head(q) = "enter" ELSE h
  PROVE  Hears(Tail(q), g, o)
<1> DEFINE r == Tail(q)
<1>1. /\ Len(q) \in Nat /\ Len(q) > 0 /\ DOMAIN q = 1 .. Len(q) /\ DOMAIN r = 1 .. Len(q) - 1
      /\ q[1] = Head(q) /\ \A k \in DOMAIN r : r[k] = q[k + 1]
  OBVIOUS
<1> HIDE DEF r
<1>2. /\ 1 \in DOMAIN q
      /\ \A k \in DOMAIN r : k + 1 \in DOMAIN q /\ 1 < k + 1
      /\ \A j \in DOMAIN q : 1 < j => j - 1 \in DOMAIN r /\ r[j - 1] = q[j]
      /\ \A j \in DOMAIN q : j = 1 \/ 1 < j
  BY <1>1
<1>3. CASE h = o /\ \A k \in DOMAIN q : q[k] \notin Hovers
  <2>1. (\A k \in DOMAIN r : r[k] \notin Hovers) /\ Head(q) \notin Hovers
    BY <1>1, <1>2, <1>3
  <2>2. Hears(r, g, o)
    BY <1>3, <2>1, Zenon DEF Hears
  <2> QED BY <2>2 DEF r
<1>4. CASE \E k \in DOMAIN q :
             /\ q[k] \in Hovers /\ o = (q[k] = "enter")
             /\ \A j \in DOMAIN q : k < j => q[j] \notin Hovers
  <2>1. PICK k \in DOMAIN q :
          /\ q[k] \in Hovers /\ o = (q[k] = "enter")
          /\ \A j \in DOMAIN q : k < j => q[j] \notin Hovers
    BY <1>4
  <2>2. CASE k = 1
    <3>1. \A i \in DOMAIN r : r[i] \notin Hovers
      BY <1>1, <1>2, <2>1, <2>2
    <3>2. Head(q) \in Hovers /\ o = (Head(q) = "enter")
      BY <1>1, <2>1, <2>2
    <3>3. Hears(r, g, o)
      BY <3>1, <3>2, Zenon DEF Hears
    <3> QED BY <3>3 DEF r
  <2>3. CASE k # 1
    <3>1. k - 1 \in DOMAIN r /\ r[k - 1] = q[k]
      BY <1>2, <2>3
    <3>2. ASSUME NEW i \in DOMAIN r, k - 1 < i PROVE r[i] \notin Hovers
      <4>1. i + 1 \in DOMAIN q /\ k < i + 1 /\ r[i] = q[i + 1]
        BY <1>1, <1>2, <3>2
      <4> QED BY <2>1, <4>1
    <3>3. Hears(r, g, o)
      BY <2>1, <3>1, <3>2, Zenon DEF Hears
    <3> QED BY <3>3 DEF r
  <2> QED BY <2>2, <2>3
<1> QED BY <1>3, <1>4, Zenon DEF Hears

(* A window that is gone is not heard any more; all else still waits. *)
LEMMA HeardNoMore ==
  ASSUME NEW q \in Seq(PopupWorks), NEW c, NEW l, Follows(q, c, l)
  PROVE  /\ Popup!Heard(q) \in Seq(PopupWorks) /\ Len(Popup!Heard(q)) = Len(q)
         /\ Follows(Popup!Heard(q), c, l) /\ Hears(Popup!Heard(q), FALSE, FALSE)
<1> DEFINE r == [k \in 1 .. Len(q) |-> IF q[k] \in Hovers THEN "unheard" ELSE q[k]]
<1>1. Len(q) \in Nat /\ DOMAIN q = 1 .. Len(q) /\ \A k \in DOMAIN q : q[k] \in PopupWorks
  OBVIOUS
<1>2. Popup!Heard(q) = r
  BY <1>1 DEF Popup!Heard, Hovers
<1>3. DOMAIN r = 1 .. Len(q) /\ \A k \in DOMAIN q : r[k] = IF q[k] \in Hovers THEN "unheard" ELSE q[k]
  BY <1>1
<1>4. \A k \in DOMAIN q : r[k] \in PopupWorks
  BY <1>1, <1>3 DEF PopupWorks
<1>5. r \in [1 .. Len(q) -> PopupWorks]
  BY <1>1, <1>4
<1> HIDE DEF r
<1>6. r \in Seq(PopupWorks) /\ Len(r) = Len(q)
  BY <1>1, <1>3, <1>5, SeqDef
<1>7. \A k \in DOMAIN q : /\ r[k] \notin Hovers
                          /\ r[k] = "loading" <=> q[k] = "loading"
                          /\ r[k] = "answer" <=> q[k] = "answer"
  BY <1>1, <1>3 DEF Hovers
<1>8. Follows(r, c, l)
  BY <1>1, <1>3, <1>7 DEF Follows
<1>9. Hears(r, FALSE, FALSE)
  BY <1>1, <1>3, <1>7 DEF Hears
<1> QED BY <1>2, <1>6, <1>8, <1>9

LEMMA PopupStarts == ASSUME Popup!PopupAssumption, Popup!Init PROVE PopupInv
<1>1. /\ thread = [th \in Translations |-> "new"] /\ popup_queue = <<>> /\ popup = Popup!NoPopup
      /\ over = FALSE
  BY DEF Popup!Init
<1>2. popup_queue \in Seq(PopupWorks) /\ Len(popup_queue) = 0 /\ DOMAIN popup_queue = {}
  BY <1>1
<1>3. PopupTypes
  <2>1. thread \in [Translations -> {"new", "call", "done"}]
    BY <1>1
  <2>2. popup \in [visible : BOOLEAN, loading : BOOLEAN, hovering : BOOLEAN, armed : BOOLEAN]
    BY <1>1 DEF Popup!NoPopup
  <2>3. Len(popup_queue) <= MaxQueue
    BY <1>2 DEF Popup!PopupAssumption
  <2> QED BY <1>1, <1>2, <2>1, <2>2, <2>3 DEF PopupTypes
<1>4. Follows(popup_queue, Calling, popup.loading) /\ Hears(popup_queue, popup.hovering, over)
  <2>1. popup.loading = FALSE /\ popup.hovering = FALSE
    BY <1>1 DEF Popup!NoPopup
  <2>2. Hears(popup_queue, popup.hovering, over)
    BY <1>1, <1>2, <2>1, Zenon DEF Hears
  <2> QED BY <1>2, <2>1, <2>2 DEF Follows
<1> QED BY <1>1, <1>3, <1>4 DEF PopupInv, Popup!NoPopup

LEMMA PopupWaits ==
  ASSUME Popup!PopupAssumption, PopupInv, NEW w \in PopupWorks, Popup!OnUi(w)
  PROVE  /\ popup_queue' \in Seq(PopupWorks) /\ Len(popup_queue') <= MaxQueue
         /\ popup_queue' = Append(popup_queue, w)
<1>1. popup_queue \in Seq(PopupWorks) /\ Len(popup_queue) < MaxQueue /\ popup_queue' = Append(popup_queue, w)
  BY DEF PopupInv, PopupTypes, Popup!OnUi
<1>2. Len(popup_queue) \in Nat /\ Len(Append(popup_queue, w)) = Len(popup_queue) + 1
      /\ Append(popup_queue, w) \in Seq(PopupWorks)
  BY <1>1
<1>3. Len(popup_queue) + 1 <= MaxQueue
  BY <1>1, <1>2 DEF Popup!PopupAssumption
<1> QED BY <1>1, <1>2, <1>3

LEMMA TranslateHolds ==
  ASSUME Popup!PopupAssumption, PopupInv, NEW th \in Translations,
         Popup!Translate(th) \/ Popup!Translated(th)
  PROVE  PopupInv'
<1>1. PICK w \in {"loading", "answer"} :
        /\ \/ w = "loading" /\ thread' = [thread EXCEPT ![th] = "call"] /\ thread[th] = "new"
           \/ w = "answer" /\ thread' = [thread EXCEPT ![th] = "done"]
        /\ Popup!OnUi(w) /\ popup' = popup /\ over' = over
  <2>1. CASE Popup!Translate(th)
    BY <2>1 DEF Popup!Translate
  <2>2. CASE Popup!Translated(th)
    BY <2>2 DEF Popup!Translated
  <2> QED BY <2>1, <2>2, Zenon
<1>2. w \in PopupWorks /\ w \notin Hovers
  BY DEF PopupWorks, Hovers
<1>3. /\ popup_queue' \in Seq(PopupWorks) /\ Len(popup_queue') <= MaxQueue
      /\ popup_queue' = Append(popup_queue, w) /\ popup_queue \in Seq(PopupWorks)
  BY <1>1, <1>2, PopupWaits DEF PopupInv, PopupTypes
<1>4. PopupTypes'
  <2>1. thread' \in [Translations -> {"new", "call", "done"}]
    BY <1>1 DEF PopupInv, PopupTypes
  <2> QED BY <1>1, <1>3, <2>1 DEF PopupInv, PopupTypes
<1>5. (Calling => Calling' \/ w = "answer") /\ (w = "loading" => Calling')
  BY <1>1 DEF PopupInv, PopupTypes, Calling
<1>6. Follows(popup_queue', Calling', popup.loading)
  <2>1. Follows(popup_queue, Calling, popup.loading)
    BY DEF PopupInv
  <2> QED BY <1>2, <1>3, <1>5, <2>1, AppendFollows, Zenon
<1>7. Hears(popup_queue', popup.hovering, over)
  <2>1. Hears(popup_queue, popup.hovering, over)
    BY DEF PopupInv
  <2> QED BY <1>2, <1>3, <2>1, AppendHears, Zenon
<1> QED BY <1>1, <1>4, <1>6, <1>7, Zenon DEF PopupInv

(* What else comes to wait: a click beside the popup, the pointer. *)
LEMMA PointerHolds ==
  ASSUME Popup!PopupAssumption, PopupInv, Popup!ClickAway \/ Popup!PointerMoves
  PROVE  PopupInv'
<1>1. PICK w \in {"hide", "enter", "leave"} :
        /\ Popup!OnUi(w) /\ thread' = thread /\ popup' = popup /\ popup.visible
        /\ over' \in BOOLEAN
        /\ \/ w \notin Hovers /\ over' = over
           \/ w \in Hovers /\ over' = (w = "enter")
  BY DEF Popup!ClickAway, Popup!PointerMoves, Hovers, PopupInv, PopupTypes
<1>2. w \in PopupWorks /\ w # "answer" /\ w # "loading"
  BY DEF PopupWorks
<1>3. /\ popup_queue' \in Seq(PopupWorks) /\ Len(popup_queue') <= MaxQueue
      /\ popup_queue' = Append(popup_queue, w) /\ popup_queue \in Seq(PopupWorks)
  BY <1>1, <1>2, PopupWaits DEF PopupInv, PopupTypes
<1>4. PopupTypes'
  BY <1>1, <1>3 DEF PopupInv, PopupTypes
<1>5. Calling' = Calling
  BY <1>1 DEF Calling
<1>6. Follows(popup_queue', Calling, popup.loading)
  <2>1. Follows(popup_queue, Calling, popup.loading)
    BY DEF PopupInv
  <2> QED BY <1>2, <1>3, <2>1, AppendFollows, Zenon
<1>7. Hears(popup_queue', popup.hovering, over')
  <2>1. Hears(popup_queue, popup.hovering, over)
    BY DEF PopupInv
  <2> QED BY <1>1, <1>2, <1>3, <2>1, AppendHears, Zenon
<1> QED BY <1>1, <1>4, <1>5, <1>6, <1>7 DEF PopupInv

(* The window goes: after a while, or the user closes it, or clicks away. *)
LEMMA HideHolds ==
  ASSUME PopupInv, Popup!Hide, thread' = thread, NEW q \in Seq(PopupWorks), Len(q) <= MaxQueue,
         Follows(q, Calling, popup.loading), popup_queue' = Popup!Heard(q)
  PROVE  PopupInv'
<1>1. /\ popup' \in [visible : BOOLEAN, loading : BOOLEAN, hovering : BOOLEAN, armed : BOOLEAN]
      /\ popup'.loading = popup.loading /\ popup'.hovering = FALSE /\ popup'.visible = FALSE
      /\ over' = FALSE
  BY DEF Popup!Hide, Popup!Hidden, PopupInv, PopupTypes
<1>2. /\ Popup!Heard(q) \in Seq(PopupWorks) /\ Len(Popup!Heard(q)) = Len(q)
      /\ Follows(Popup!Heard(q), Calling, popup.loading) /\ Hears(Popup!Heard(q), FALSE, FALSE)
  BY HeardNoMore
<1>3. PopupTypes'
  BY <1>1, <1>2 DEF PopupInv, PopupTypes
<1>4. Calling' = Calling
  BY DEF Calling
<1>5. Follows(popup_queue', Calling', popup'.loading) /\ Hears(popup_queue', popup'.hovering, over')
  BY <1>1, <1>2, <1>4
<1> QED BY <1>1, <1>3, <1>5 DEF PopupInv

LEMMA UiWorkHolds == ASSUME Popup!PopupAssumption, PopupInv, Popup!UiWork PROVE PopupInv'
<1> DEFINE next == Head(popup_queue)
           rest == Tail(popup_queue)
<1>1. /\ popup_queue \in Seq(PopupWorks) /\ popup_queue # <<>> /\ Len(popup_queue) <= MaxQueue
      /\ Follows(popup_queue, Calling, popup.loading) /\ Hears(popup_queue, popup.hovering, over)
      /\ popup \in [visible : BOOLEAN, loading : BOOLEAN, hovering : BOOLEAN, armed : BOOLEAN]
      /\ thread' = thread
  BY DEF Popup!UiWork, PopupInv, PopupTypes
<1>2. next \in PopupWorks /\ rest \in Seq(PopupWorks) /\ Len(rest) <= MaxQueue
  <2>1. next \in PopupWorks /\ rest \in Seq(PopupWorks) /\ Len(rest) = Len(popup_queue) - 1
        /\ Len(popup_queue) \in Nat
    BY <1>1
  <2> QED BY <1>1, <2>1 DEF Popup!PopupAssumption
<1>3. Calling' = Calling
  BY <1>1 DEF Calling
<1>4. CASE next = "hide" /\ Popup!Hide /\ popup_queue' = Popup!Heard(rest)
  <2>1. Follows(rest, Calling, popup.loading)
    BY <1>1, <1>4, TailFollows, Zenon
  <2> QED BY <1>1, <1>2, <1>4, <2>1, HideHolds, Zenon
<1>5. ASSUME popup_queue' = rest, over' = over,
             popup' \in [visible : BOOLEAN, loading : BOOLEAN, hovering : BOOLEAN, armed : BOOLEAN],
             popup.visible => popup'.visible,
             popup'.loading => next = "loading" \/ (popup.loading /\ next # "answer"),
             popup'.hovering = IF next \in Hovers THEN next = "enter" ELSE popup.hovering,
             popup'.visible /\ ~popup'.armed => popup'.loading \/ popup'.hovering
      PROVE  PopupInv'
  <2>1. Follows(rest, Calling, popup'.loading)
    BY <1>1, <1>5, TailFollows, Zenon
  <2>2. Hears(rest, popup'.hovering, over)
    BY <1>1, <1>5, TailHears, Zenon
  <2>3. PopupTypes'
    BY <1>1, <1>2, <1>5 DEF PopupInv, PopupTypes
  <2> QED BY <1>3, <1>5, <2>1, <2>2, <2>3, Zenon DEF PopupInv
<1>6. ASSUME popup_queue' = rest, over' = over,
             \/ next = "loading" /\ popup' = Popup!Shown
             \/ next = "answer" /\ popup' = Popup!Answered
             \/ next \in {"enter", "leave"} /\ popup' = Popup!Hovered(next = "enter")
             \/ next = "unheard" /\ popup' = popup
      PROVE  PopupInv'
  <2> HIDE DEF next, rest
  <2>0. popup.visible /\ ~popup.armed => popup.loading \/ popup.hovering
    BY DEF PopupInv
  <2>1. CASE next = "loading" /\ popup' = Popup!Shown
    <3>1. /\ popup' \in [visible : BOOLEAN, loading : BOOLEAN, hovering : BOOLEAN, armed : BOOLEAN]
          /\ popup'.visible /\ popup'.loading /\ popup'.hovering = popup.hovering
      BY <1>1, <2>1 DEF Popup!Shown
    <3> QED BY <1>5, <1>6, <2>1, <3>1 DEF Hovers
  <2>2. CASE next = "answer" /\ popup' = Popup!Answered
    <3>1. /\ popup' \in [visible : BOOLEAN, loading : BOOLEAN, hovering : BOOLEAN, armed : BOOLEAN]
          /\ popup'.visible = popup.visible /\ ~popup'.loading /\ popup'.hovering = popup.hovering
          /\ popup'.armed \/ popup'.hovering
      BY <1>1, <2>2 DEF Popup!Answered
    <3> QED BY <1>5, <1>6, <2>2, <3>1 DEF Hovers
  <2>3. CASE next \in {"enter", "leave"} /\ popup' = Popup!Hovered(next = "enter")
    <3>1. /\ popup' \in [visible : BOOLEAN, loading : BOOLEAN, hovering : BOOLEAN, armed : BOOLEAN]
          /\ popup'.visible = popup.visible /\ popup'.loading = popup.loading
          /\ popup'.hovering = (next = "enter") /\ popup'.armed = ~(next = "enter")
      BY <1>1, <2>3 DEF Popup!Hovered
    <3> QED BY <1>5, <1>6, <2>3, <3>1 DEF Hovers
  <2>4. CASE next = "unheard" /\ popup' = popup
    BY <1>1, <1>5, <1>6, <2>0, <2>4 DEF Hovers
  <2> QED BY <1>6, <2>1, <2>2, <2>3, <2>4
<1> QED BY <1>4, <1>6 DEF Popup!UiWork

LEMMA PopupStep == ASSUME Popup!PopupAssumption, PopupInv, Popup!Next PROVE PopupInv'
<1>1. CASE Popup!Tick \/ Popup!Dismiss
  <2>1. Popup!Hide /\ popup_queue' = Popup!Heard(popup_queue) /\ thread' = thread
    BY <1>1 DEF Popup!Tick, Popup!Dismiss
  <2>2. /\ popup_queue \in Seq(PopupWorks) /\ Len(popup_queue) <= MaxQueue
        /\ Follows(popup_queue, Calling, popup.loading)
    BY DEF PopupInv, PopupTypes
  <2> QED BY <2>1, <2>2, HideHolds, Zenon
<1> QED BY <1>1, TranslateHolds, PointerHolds, UiWorkHolds, Zenon DEF Popup!Next

LEMMA PopupStutter == ASSUME PopupInv, UNCHANGED popupVars PROVE PopupInv'
<1>1. thread' = thread /\ popup_queue' = popup_queue /\ popup' = popup /\ over' = over
  BY DEF popupVars
<1>2. Calling' = Calling /\ PopupTypes'
  BY <1>1 DEF Calling, PopupInv, PopupTypes
<1> QED BY <1>1, <1>2, Zenon DEF PopupInv

(* The last of the pointer that is still to be heard is that it left. *)
LEMMA PopupGoes == ASSUME PopupInv PROVE Popup!TypeOK /\ Popup!PopupIsNotStuck
<1>1. Popup!TypeOK
  BY DEF PopupInv, PopupTypes, Popup!TypeOK
<1>2. ASSUME popup.visible, ~popup.armed, ~over
      PROVE  \/ \E th \in Translations : thread[th] = "call"
             \/ \E k \in DOMAIN popup_queue : popup_queue[k] \in {"answer", "leave"}
  <2>1. popup.loading \/ popup.hovering
    BY <1>2 DEF PopupInv
  <2>2. CASE popup.loading
    BY <2>2 DEF PopupInv, Follows, Calling
  <2>3. CASE popup.hovering
    <3>1. PICK k \in DOMAIN popup_queue :
            popup_queue[k] \in Hovers /\ over = (popup_queue[k] = "enter")
      BY <1>2, <2>3 DEF PopupInv, PopupTypes, Hears
    <3> QED BY <1>2, <3>1 DEF Hovers
  <2> QED BY <2>1, <2>2, <2>3
<1> QED BY <1>1, <1>2, Zenon DEF Popup!PopupIsNotStuck

-----------------------------------------------------------------------------
(* The bubble (selection.rs, bubble).  While no two write at a time, all     *)
(* that is to be shown is the text that is pending.                          *)

BubbleWorks == {"show", "clear", "ask", "dismiss"} \X TheBubble!Maybe
GesturePlaces == {"new", "ocr", "raise", "show", "done"}
WatcherPlaces == {"idle", "note", "show", "forget", "asks", "outside", "drop"}

Showing(t) ==
  \/ watcher.at = "show" /\ watcher.text = t
  \/ \E g \in Gestures : gesture[g].at = "show" /\ gesture[g].text = t
  \/ <<"show", t>> \in Members(queue)
DismissWaits == \E w \in Members(queue) : w[1] = "dismiss"
Dismissing == watcher.at = "drop" \/ DismissWaits
Writing == (\E t \in TheBubble!Maybe : Showing(t)) \/ Dismissing

Ordered ==
  /\ \A t \in TheBubble!Maybe : Showing(t) => t = pending_selection /\ ~Dismissing
  /\ watcher.at = "drop" /\ ~DismissWaits => bubble = None
  /\ bubble # None /\ ~Writing => bubble = pending_selection

(* The watcher asks one thing at a time, and waits for the answer. *)
OneAsks(q, w) ==
  /\ \A k \in DOMAIN q : q[k][1] = "ask" => w.at = "asks"
  /\ \A j, k \in DOMAIN q : q[j][1] = "ask" /\ q[k][1] = "ask" => j = k

BubbleTypes ==
  /\ pending_selection \in TheBubble!Maybe /\ last_translated \in TheBubble!Maybe
  /\ bubble \in TheBubble!Maybe
  /\ gesture \in [Gestures -> [at : GesturePlaces, text : TheBubble!Maybe]]
  /\ watcher \in [at : WatcherPlaces, text : TheBubble!Maybe]
  /\ clicked \subseteq Clicks /\ raced \in BOOLEAN
  /\ queue \in Seq(BubbleWorks) /\ Len(queue) <= MaxQueue

OneReads ==
  /\ ocr_busy <=> \E g \in Gestures : gesture[g].at = "ocr"
  /\ \A g, h \in Gestures : gesture[g].at = "ocr" /\ gesture[h].at = "ocr" => g = h

BubbleInv ==
  /\ BubbleTypes /\ OneReads /\ OneAsks(queue, watcher)
  /\ raced \/ Ordered
  /\ ~mistaken

LEMMA BubbleStarts == ASSUME TheBubble!BubbleAssumption, TheBubble!Init PROVE BubbleInv
<1>1. /\ pending_selection = None /\ last_translated = None /\ ocr_busy = FALSE
      /\ gesture = [g \in Gestures |-> TheBubble!At("new", None)] /\ watcher = TheBubble!At("idle", None)
      /\ clicked = {} /\ queue = <<>> /\ bubble = None /\ raced = FALSE /\ mistaken = FALSE
  BY DEF TheBubble!Init
<1>2. None \in TheBubble!Maybe
  BY DEF TheBubble!Maybe
<1>3. TheBubble!At("new", None) \in [at : GesturePlaces, text : TheBubble!Maybe]
      /\ TheBubble!At("idle", None) \in [at : WatcherPlaces, text : TheBubble!Maybe]
  BY <1>2 DEF TheBubble!At, GesturePlaces, WatcherPlaces
<1>4. queue \in Seq(BubbleWorks) /\ Len(queue) = 0 /\ DOMAIN queue = {} /\ Members(queue) = {}
  BY <1>1, MembersOfNone
<1>5. BubbleTypes
  <2>1. gesture \in [Gestures -> [at : GesturePlaces, text : TheBubble!Maybe]]
    BY <1>1, <1>3
  <2>2. Len(queue) <= MaxQueue
    BY <1>4 DEF TheBubble!BubbleAssumption
  <2> QED BY <1>1, <1>2, <1>3, <1>4, <2>1, <2>2 DEF BubbleTypes
<1>6. \A g \in Gestures : gesture[g].at = "new"
  BY <1>1 DEF TheBubble!At
<1>7. OneReads /\ OneAsks(queue, watcher)
  BY <1>1, <1>4, <1>6 DEF OneReads, OneAsks
<1>8. \A t : ~Showing(t)
  BY <1>1, <1>4, <1>6 DEF Showing, TheBubble!At
<1>9. watcher.at # "drop"
  BY <1>1 DEF TheBubble!At
<1>10. Ordered
  BY <1>1, <1>8, <1>9, Zenon DEF Ordered
<1> QED BY <1>1, <1>5, <1>7, <1>10 DEF BubbleInv

(* What the threads of the program look for before they write is what is     *)
(* under way.                                                                *)
LEMMA QueueIsMembers ==
  ASSUME BubbleTypes
  PROVE  (\E k \in DOMAIN queue : queue[k][1] \in {"show", "dismiss"})
            <=> DismissWaits \/ \E t \in TheBubble!Maybe : <<"show", t>> \in Members(queue)
<1>1. /\ \A k \in DOMAIN queue : queue[k] \in BubbleWorks /\ queue[k] \in Members(queue)
      /\ \A w \in Members(queue) : \E k \in DOMAIN queue : w = queue[k]
  <2>1. queue \in Seq(BubbleWorks)
    BY DEF BubbleTypes
  <2>2. Members(queue) \subseteq BubbleWorks
    BY <2>1, MembersType
  <2> QED BY <2>2 DEF Members
<1>2. ASSUME NEW w \in BubbleWorks
      PROVE  w[1] = "show" <=> \E t \in TheBubble!Maybe : w = <<"show", t>>
  BY DEF BubbleWorks
<1>3. ASSUME NEW k \in DOMAIN queue, queue[k][1] \in {"show", "dismiss"}
      PROVE  DismissWaits \/ \E t \in TheBubble!Maybe : <<"show", t>> \in Members(queue)
  BY <1>1, <1>2, <1>3 DEF DismissWaits
<1>4. ASSUME NEW w \in Members(queue), w[1] \in {"show", "dismiss"}
      PROVE  \E k \in DOMAIN queue : queue[k][1] \in {"show", "dismiss"}
  BY <1>1, <1>4
<1>5. ASSUME NEW t \in TheBubble!Maybe, <<"show", t>> \in Members(queue)
      PROVE  \E k \in DOMAIN queue : queue[k][1] \in {"show", "dismiss"}
  <2>1. <<"show", t>>[1] = "show"
    OBVIOUS
  <2> QED BY <1>4, <1>5, <2>1
<1> QED BY <1>3, <1>4, <1>5, Zenon DEF DismissWaits

GestureShows(who) == \E g \in Gestures \ {who} : gesture[g].at = "show"

LEMMA UnderWayIs ==
  ASSUME BubbleTypes, NEW who
  PROVE  TheBubble!UnderWay(TheBubble!Writers \ {who}) <=>
           \/ watcher.at \in {"show", "drop"} /\ who # "watcher"
           \/ GestureShows(who)
           \/ DismissWaits \/ \E t \in TheBubble!Maybe : <<"show", t>> \in Members(queue)
<1>1. Gestures \cap (TheBubble!Writers \ {who}) = Gestures \ {who}
      /\ ("watcher" \in TheBubble!Writers \ {who} <=> who # "watcher")
  BY DEF TheBubble!Writers
<1> QED BY <1>1, QueueIsMembers, Zenon DEF TheBubble!UnderWay, GestureShows

LEMMA WritingIs ==
  ASSUME BubbleTypes
  PROVE  Writing <=>
           \/ watcher.at \in {"show", "drop"}
           \/ \E g \in Gestures : gesture[g].at = "show"
           \/ DismissWaits \/ \E t \in TheBubble!Maybe : <<"show", t>> \in Members(queue)
<1>1. watcher.text \in TheBubble!Maybe /\ \A g \in Gestures : gesture[g].text \in TheBubble!Maybe
  BY DEF BubbleTypes
<1>2. (\E t \in TheBubble!Maybe : Showing(t)) <=>
        \/ watcher.at = "show" \/ \E g \in Gestures : gesture[g].at = "show"
        \/ \E t \in TheBubble!Maybe : <<"show", t>> \in Members(queue)
  BY <1>1, Zenon DEF Showing
<1> QED BY <1>2 DEF Writing, Dismissing

LEMMA AllWritersAre ==
  ASSUME BubbleTypes, TheBubble!BubbleAssumption
  PROVE  /\ TheBubble!UnderWay(TheBubble!Writers) <=> Writing
         /\ TheBubble!Crossed("UI") <=> raced \/ Writing
         /\ watcher.at \notin {"show", "drop"} => (TheBubble!Crossed("watcher") <=> raced \/ Writing)
         /\ \A g \in Gestures : gesture[g].at # "show" => (TheBubble!Crossed(g) <=> raced \/ Writing)
<1>1. TheBubble!Writers \ {"UI"} = TheBubble!Writers /\ "UI" \notin Gestures
      /\ "UI" # "watcher" /\ "watcher" \notin Gestures
  BY DEF TheBubble!BubbleAssumption, TheBubble!Writers
<1>2. \A who : TheBubble!Crossed(who) <=> raced \/ TheBubble!UnderWay(TheBubble!Writers \ {who})
  BY DEF TheBubble!Crossed
<1>3. GestureShows("UI") <=> \E g \in Gestures : gesture[g].at = "show"
  BY <1>1 DEF GestureShows
<1>4. GestureShows("watcher") <=> \E g \in Gestures : gesture[g].at = "show"
  BY <1>1 DEF GestureShows
<1>5. ASSUME NEW g \in Gestures, gesture[g].at # "show"
      PROVE  GestureShows(g) <=> \E h \in Gestures : gesture[h].at = "show"
  BY <1>5 DEF GestureShows
<1>6. TheBubble!UnderWay(TheBubble!Writers \ {"UI"}) <=> Writing
  BY <1>1, <1>3, UnderWayIs, WritingIs, Zenon
<1>7. watcher.at \notin {"show", "drop"} =>
        (TheBubble!UnderWay(TheBubble!Writers \ {"watcher"}) <=> Writing)
  BY <1>4, UnderWayIs, WritingIs, Zenon
<1>8. ASSUME NEW g \in Gestures, gesture[g].at # "show"
      PROVE  TheBubble!UnderWay(TheBubble!Writers \ {g}) <=> Writing
  BY <1>1, <1>5, <1>8, UnderWayIs, WritingIs, Zenon
<1> QED BY <1>1, <1>2, <1>6, <1>7, <1>8, Zenon

(* A step that shows no more than before keeps the order, also one after     *)
(* which only the newest text is on its way.                                 *)
LEMMA StaysOrdered ==
  ASSUME Ordered, pending_selection' = pending_selection, bubble' \in {bubble, None},
         \A t \in TheBubble!Maybe : Showing(t)' => Showing(t), Dismissing' => Dismissing,
         Writing => Writing' \/ bubble' = None,
         watcher'.at = "drop" /\ ~DismissWaits' => (watcher.at = "drop" /\ ~DismissWaits) \/ bubble' = None
  PROVE  Ordered'
<1>1. \A t \in TheBubble!Maybe : Showing(t)' => t = pending_selection' /\ ~Dismissing'
  BY Zenon DEF Ordered
<1>2. watcher'.at = "drop" /\ ~DismissWaits' => bubble' = None
  BY DEF Ordered
<1>3. bubble' # None /\ ~Writing' => bubble' = pending_selection'
  BY DEF Ordered
<1> QED BY <1>1, <1>2, <1>3, Zenon DEF Ordered

LEMMA NewTextOrdered ==
  ASSUME \A t \in TheBubble!Maybe : Showing(t)' => t = pending_selection', ~Dismissing', Writing'
  PROVE  Ordered'
<1>1. ~(watcher'.at = "drop")
  BY DEF Dismissing
<1> QED BY <1>1, Zenon DEF Ordered

LEMMA OthersAsk ==
  ASSUME NEW q, NEW v, NEW w, OneAsks(q, v), v.at # "asks"
  PROVE  OneAsks(q, w)
  BY DEF OneAsks

(* One more waits for the UI thread. *)
LEMMA BubbleWaits ==
  ASSUME TheBubble!BubbleAssumption, BubbleTypes, OneAsks(queue, watcher),
         NEW what \in {"show", "clear", "ask", "dismiss"}, NEW t \in TheBubble!Maybe,
         TheBubble!OnUi(what, t), NEW v, v = watcher \/ watcher.at # "asks",
         what = "ask" => watcher.at # "asks" /\ v.at = "asks"
  PROVE  /\ queue' \in Seq(BubbleWorks) /\ Len(queue') <= MaxQueue
         /\ Members(queue') = Members(queue) \cup {<<what, t>>}
         /\ OneAsks(queue', v)
<1> DEFINE w == <<what, t>>
<1>1. w \in BubbleWorks /\ w[1] = what
  BY DEF BubbleWorks
<1>2. queue \in Seq(BubbleWorks) /\ Len(queue) < MaxQueue /\ queue' = Append(queue, w)
  BY DEF BubbleTypes, TheBubble!OnUi
<1> HIDE DEF w
<1>3. /\ Len(queue) \in Nat /\ DOMAIN queue = 1 .. Len(queue) /\ Len(queue') = Len(queue) + 1
      /\ DOMAIN queue' = 1 .. Len(queue) + 1
      /\ queue'[Len(queue) + 1] = w /\ \A k \in DOMAIN queue : queue'[k] = queue[k]
  BY <1>1, <1>2
<1>4. Members(queue') = Members(queue) \cup {w} /\ queue' \in Seq(BubbleWorks)
  BY <1>1, <1>2, MembersAppend
<1>5. Len(queue') <= MaxQueue
  BY <1>2, <1>3 DEF TheBubble!BubbleAssumption
<1>6. \A k \in DOMAIN queue : k \in DOMAIN queue' /\ k # Len(queue) + 1
  BY <1>3
<1>7. \A k \in DOMAIN queue' : k \in DOMAIN queue \/ k = Len(queue) + 1
  BY <1>3
<1>8. OneAsks(queue', v)
  <2>1. CASE what = "ask"
    <3>1. \A k \in DOMAIN queue : queue[k][1] # "ask"
      BY <2>1 DEF OneAsks
    <3>2. \A k \in DOMAIN queue' : queue'[k][1] = "ask" => k = Len(queue) + 1
      BY <1>3, <1>7, <3>1
    <3> QED BY <2>1, <3>2, Zenon DEF OneAsks
  <2>2. CASE what # "ask"
    <3>1. \A k \in DOMAIN queue' : queue'[k][1] = "ask" => k \in DOMAIN queue /\ queue[k][1] = "ask"
      BY <1>1, <1>3, <1>7, <2>2
    <3>2. (\E k \in DOMAIN queue : queue[k][1] = "ask") => v.at = "asks"
      BY DEF OneAsks
    <3> QED BY <3>1, <3>2, Zenon DEF OneAsks
  <2> QED BY <2>1, <2>2
<1> QED BY <1>4, <1>5, <1>8 DEF w

(* A gesture before its text is to be shown, and after. *)
LEMMA GestureGoes ==
  ASSUME BubbleTypes, NEW g \in Gestures, NEW p \in GesturePlaces, NEW t \in TheBubble!Maybe,
         gesture' = [gesture EXCEPT ![g] = TheBubble!At(p, t)]
  PROVE  /\ gesture' \in [Gestures -> [at : GesturePlaces, text : TheBubble!Maybe]]
         /\ gesture'[g].at = p /\ gesture'[g].text = t
         /\ \A h \in Gestures : h # g => gesture'[h] = gesture[h]
<1>1. TheBubble!At(p, t) \in [at : GesturePlaces, text : TheBubble!Maybe]
      /\ TheBubble!At(p, t).at = p /\ TheBubble!At(p, t).text = t
  BY DEF TheBubble!At
<1> QED BY <1>1 DEF BubbleTypes

LEMMA QuietGesture ==
  ASSUME BubbleInv, NEW g \in Gestures,
         gesture' \in [Gestures -> [at : GesturePlaces, text : TheBubble!Maybe]],
         \A h \in Gestures : h # g => gesture'[h] = gesture[h],
         gesture[g].at # "show", gesture'[g].at # "show", OneReads',
         pending_selection' = pending_selection, last_translated' = last_translated,
         watcher' = watcher, clicked' = clicked, queue' = queue, bubble' = bubble,
         raced' = raced, mistaken' = mistaken
  PROVE  BubbleInv'
<1>1. \A t : Showing(t)' <=> Showing(t)
  BY DEF Showing
<1>2. (DismissWaits' <=> DismissWaits) /\ (Dismissing' <=> Dismissing)
  BY DEF DismissWaits, Dismissing
<1>3. Writing' <=> Writing
  BY <1>1, <1>2, Zenon DEF Writing
<1>4. BubbleTypes' /\ OneAsks(queue', watcher')
  BY DEF BubbleInv, BubbleTypes
<1>5. ASSUME Ordered PROVE Ordered'
  BY <1>1, <1>2, <1>3, <1>5, StaysOrdered
<1> QED BY <1>4, <1>5, Zenon DEF BubbleInv

LEMMA GestureHolds ==
  ASSUME BubbleInv, NEW g \in Gestures, TheBubble!Gesture(g) \/ TheBubble!Recognized(g)
  PROVE  BubbleInv'
<1>1. PICK p \in {"ocr", "done", "raise"}, t \in TheBubble!Maybe :
        /\ gesture' = [gesture EXCEPT ![g] = TheBubble!At(p, t)]
        /\ \/ gesture[g].at = "new" /\ ocr_busy /\ p = "done" /\ ocr_busy' = ocr_busy
           \/ gesture[g].at = "new" /\ ~ocr_busy /\ p = "ocr" /\ ocr_busy' = TRUE
           \/ gesture[g].at = "ocr" /\ p # "ocr" /\ ocr_busy' = FALSE
  <2>1. None \in TheBubble!Maybe /\ Texts \subseteq TheBubble!Maybe
    BY DEF TheBubble!Maybe
  <2>2. CASE TheBubble!Gesture(g)
    <3>1. /\ gesture[g].at = "new"
          /\ \/ ocr_busy /\ gesture' = [gesture EXCEPT ![g] = TheBubble!At("done", None)] /\ ocr_busy' = ocr_busy
             \/ ~ocr_busy /\ gesture' = [gesture EXCEPT ![g] = TheBubble!At("ocr", None)] /\ ocr_busy' = TRUE
      BY <2>2 DEF TheBubble!Gesture
    <3> QED BY <2>1, <3>1
  <2>3. CASE TheBubble!Recognized(g)
    <3>1. PICK p \in {"done", "raise"}, t \in TheBubble!Maybe :
            gesture' = [gesture EXCEPT ![g] = TheBubble!At(p, t)]
      BY <2>1, <2>3 DEF TheBubble!Recognized
    <3>2. gesture[g].at = "ocr" /\ ocr_busy' = FALSE
      BY <2>3 DEF TheBubble!Recognized
    <3> QED BY <3>1, <3>2
  <2> QED BY <2>2, <2>3
<1>2. /\ pending_selection' = pending_selection /\ last_translated' = last_translated
      /\ watcher' = watcher /\ clicked' = clicked /\ queue' = queue /\ bubble' = bubble
      /\ raced' = raced /\ mistaken' = mistaken
  BY DEF TheBubble!Gesture, TheBubble!Recognized
<1>3. /\ gesture' \in [Gestures -> [at : GesturePlaces, text : TheBubble!Maybe]]
      /\ gesture'[g].at = p
      /\ \A h \in Gestures : h # g => gesture'[h] = gesture[h]
  <2>1. BubbleTypes /\ p \in GesturePlaces
    BY DEF BubbleInv, GesturePlaces
  <2> QED BY <1>1, <2>1, GestureGoes
<1>4. OneReads'
  BY <1>1, <1>3 DEF BubbleInv, OneReads
<1> QED BY <1>1, <1>2, <1>3, <1>4, QuietGesture

LEMMA RaiseHolds ==
  ASSUME TheBubble!BubbleAssumption, BubbleInv, NEW g \in Gestures, TheBubble!Raise(g)
  PROVE  BubbleInv'
<1>1. /\ gesture[g].at = "raise" /\ last_translated' = last_translated /\ ocr_busy' = ocr_busy
      /\ watcher' = watcher /\ clicked' = clicked /\ queue' = queue /\ bubble' = bubble
      /\ mistaken' = mistaken
  BY DEF TheBubble!Raise
<1>2. BubbleTypes /\ gesture[g].text \in TheBubble!Maybe
  BY DEF BubbleInv, BubbleTypes
<1>3. CASE gesture' = [gesture EXCEPT ![g] = TheBubble!At("done", None)]
           /\ pending_selection' = pending_selection /\ raced' = raced
  <2>1. /\ gesture' \in [Gestures -> [at : GesturePlaces, text : TheBubble!Maybe]]
        /\ gesture'[g].at = "done" /\ \A h \in Gestures : h # g => gesture'[h] = gesture[h]
    <3>1. None \in TheBubble!Maybe /\ "done" \in GesturePlaces
      BY DEF TheBubble!Maybe, GesturePlaces
    <3> QED BY <1>2, <1>3, <3>1, GestureGoes
  <2>2. OneReads'
    BY <1>1, <2>1 DEF BubbleInv, OneReads
  <2> QED BY <1>1, <1>3, <2>1, <2>2, QuietGesture
<1>4. CASE gesture' = [gesture EXCEPT ![g].at = "show"] /\ TheBubble!Write(gesture[g].text, g)
  <2>1. /\ gesture' \in [Gestures -> [at : GesturePlaces, text : TheBubble!Maybe]]
        /\ gesture'[g].at = "show" /\ gesture'[g].text = gesture[g].text
        /\ \A h \in Gestures : h # g => gesture'[h] = gesture[h]
    BY <1>2, <1>4 DEF BubbleTypes, GesturePlaces
  <2>2. pending_selection' = gesture[g].text /\ raced' = TheBubble!Crossed(g)
    BY <1>4 DEF TheBubble!Write
  <2>3. raced' <=> raced \/ Writing
    BY <1>1, <1>2, <2>2, AllWritersAre
  <2>4. OneReads'
    BY <1>1, <2>1 DEF BubbleInv, OneReads
  <2>5. raced' \in BOOLEAN
    BY <2>2 DEF TheBubble!Crossed, BubbleInv, BubbleTypes
  <2>6. BubbleTypes' /\ OneAsks(queue', watcher')
    BY <1>1, <1>2, <2>1, <2>2, <2>5 DEF BubbleInv, BubbleTypes
  <2>7. ASSUME ~raced' PROVE Ordered'
    <3>1. ~Writing
      BY <2>3, <2>7
    <3>2. \A t \in TheBubble!Maybe : Showing(t)' => t = pending_selection'
      <4>1. \A t \in TheBubble!Maybe : ~Showing(t)
        BY <3>1, Zenon DEF Writing
      <4> QED BY <1>1, <2>1, <2>2, <4>1 DEF Showing
    <3>3. ~Dismissing'
      <4>1. ~Dismissing
        BY <3>1 DEF Writing
      <4> QED BY <1>1, <4>1 DEF Dismissing, DismissWaits
    <3>4. PICK n \in TheBubble!Maybe : n = gesture[g].text
      BY <1>2
    <3>5. Showing(n)'
      BY <2>1, <3>4 DEF Showing
    <3>6. Writing'
      BY <3>5, Zenon DEF Writing
    <3> QED BY <3>2, <3>3, <3>6, NewTextOrdered
  <2> QED BY <1>1, <2>4, <2>6, <2>7, Zenon DEF BubbleInv
<1> QED BY <1>3, <1>4 DEF TheBubble!Raise

LEMMA ShowAfterGestureHolds ==
  ASSUME TheBubble!BubbleAssumption, BubbleInv, NEW g \in Gestures, TheBubble!ShowAfterGesture(g)
  PROVE  BubbleInv'
<1> DEFINE s == gesture[g].text
<1>1. /\ gesture[g].at = "show" /\ last_translated' = last_translated /\ ocr_busy' = ocr_busy
      /\ watcher' = watcher /\ clicked' = clicked /\ bubble' = bubble /\ raced' = raced
      /\ pending_selection' = pending_selection /\ mistaken' = mistaken
      /\ TheBubble!OnUi("show", s) /\ gesture' = [gesture EXCEPT ![g] = TheBubble!At("done", None)]
  BY DEF TheBubble!ShowAfterGesture
<1>2. BubbleTypes /\ s \in TheBubble!Maybe /\ OneAsks(queue, watcher)
  BY DEF BubbleInv, BubbleTypes
<1>3. /\ queue' \in Seq(BubbleWorks) /\ Len(queue') <= MaxQueue
      /\ Members(queue') = Members(queue) \cup {<<"show", s>>} /\ OneAsks(queue', watcher)
  BY <1>1, <1>2, BubbleWaits
<1>4. /\ gesture' \in [Gestures -> [at : GesturePlaces, text : TheBubble!Maybe]]
      /\ gesture'[g].at = "done" /\ \A h \in Gestures : h # g => gesture'[h] = gesture[h]
  <2>1. None \in TheBubble!Maybe /\ "done" \in GesturePlaces
    BY DEF TheBubble!Maybe, GesturePlaces
  <2> QED BY <1>1, <1>2, <2>1, GestureGoes
<1>5. BubbleTypes' /\ OneAsks(queue', watcher')
  BY <1>1, <1>2, <1>3, <1>4 DEF BubbleTypes
<1>6. OneReads'
  BY <1>1, <1>4 DEF BubbleInv, OneReads
<1>7. ASSUME Ordered PROVE Ordered'
  <2>0. <<"show", s>>[1] # "dismiss"
    OBVIOUS
  <2>1. Showing(s)
    BY <1>1, Zenon DEF Showing
  <2>2. \A t \in TheBubble!Maybe : Showing(t)' => Showing(t)
    BY <1>1, <1>3, <1>4, <2>1 DEF Showing
  <2>3. DismissWaits' <=> DismissWaits
    BY <1>3, <2>0, Zenon DEF DismissWaits
  <2>5. Dismissing' => Dismissing
    BY <1>1, <2>3 DEF Dismissing
  <2>6. PICK n \in TheBubble!Maybe : n = s
    BY <1>2
  <2>7. Writing'
    <3>1. <<"show", n>> \in Members(queue')
      BY <1>3, <2>6
    <3> QED BY <3>1, Zenon DEF Writing, Showing
  <2> QED BY <1>1, <1>7, <2>2, <2>3, <2>5, <2>7, StaysOrdered
<1> QED BY <1>1, <1>5, <1>6, <1>7, Zenon DEF BubbleInv

(* The watcher before it writes and after, and what it asks of the UI. *)
LEMMA QuietWatcher ==
  ASSUME BubbleInv, watcher' \in [at : WatcherPlaces, text : TheBubble!Maybe],
         \/ watcher' = watcher
         \/ watcher.at \notin {"show", "drop"} /\ watcher'.at \notin {"show", "drop"},
         OneAsks(queue', watcher'), queue' \in Seq(BubbleWorks), Len(queue') <= MaxQueue,
         \A w : w[1] \in {"show", "dismiss"} => (w \in Members(queue') <=> w \in Members(queue)),
         last_translated' \in TheBubble!Maybe, gesture' = gesture, ocr_busy' = ocr_busy,
         pending_selection' = pending_selection, clicked' = clicked, bubble' = bubble,
         raced' = raced, mistaken' = mistaken
  PROVE  BubbleInv'
<1>1. \A t : Showing(t)' <=> Showing(t)
  <2>1. \A t : <<"show", t>> \in Members(queue') <=> <<"show", t>> \in Members(queue)
    <3>1. \A t : <<"show", t>>[1] = "show"
      OBVIOUS
    <3> QED BY <3>1
  <2>2. \A t : watcher'.at = "show" /\ watcher'.text = t <=> watcher.at = "show" /\ watcher.text = t
    OBVIOUS
  <2> QED BY <2>1, <2>2, Zenon DEF Showing
<1>2. (DismissWaits' <=> DismissWaits) /\ (Dismissing' <=> Dismissing)
  <2>1. DismissWaits' <=> DismissWaits
    BY DEF DismissWaits
  <2> QED BY <2>1 DEF Dismissing
<1>3. Writing' <=> Writing
  BY <1>1, <1>2, Zenon DEF Writing
<1>4. BubbleTypes' /\ OneReads'
  BY DEF BubbleInv, BubbleTypes, OneReads
<1>5. ASSUME Ordered PROVE Ordered'
  <2>1. watcher'.at = "drop" => watcher.at = "drop"
    OBVIOUS
  <2> QED BY <1>1, <1>2, <1>3, <1>5, <2>1, StaysOrdered
<1> QED BY <1>4, <1>5, Zenon DEF BubbleInv

LEMMA WatcherAt ==
  ASSUME NEW p \in WatcherPlaces, NEW t \in TheBubble!Maybe
  PROVE  /\ TheBubble!At(p, t) \in [at : WatcherPlaces, text : TheBubble!Maybe]
         /\ TheBubble!At(p, t).at = p /\ TheBubble!At(p, t).text = t
  BY DEF TheBubble!At

LEMMA WatcherWaitsHolds ==
  ASSUME TheBubble!BubbleAssumption, BubbleInv,
         TheBubble!Selected \/ TheBubble!Cleared \/ TheBubble!Forget \/ TheBubble!MouseDown
           \/ TheBubble!TranslatedByHotkey
  PROVE  BubbleInv'
<1>1. /\ gesture' = gesture /\ ocr_busy' = ocr_busy /\ pending_selection' = pending_selection
      /\ clicked' = clicked /\ bubble' = bubble /\ raced' = raced /\ mistaken' = mistaken
  BY DEF TheBubble!Selected, TheBubble!Cleared, TheBubble!Forget, TheBubble!MouseDown,
         TheBubble!TranslatedByHotkey, TheBubble!WatcherOnly
<1>2. BubbleTypes /\ OneAsks(queue, watcher) /\ None \in TheBubble!Maybe /\ Texts \subseteq TheBubble!Maybe
  BY DEF BubbleInv, TheBubble!Maybe
<1>3. /\ queue \in Seq(BubbleWorks) /\ Len(queue) <= MaxQueue /\ last_translated \in TheBubble!Maybe
      /\ watcher \in [at : WatcherPlaces, text : TheBubble!Maybe]
  BY <1>2 DEF BubbleTypes
<1>4. CASE TheBubble!TranslatedByHotkey
  <2>1. watcher' = watcher /\ queue' = queue /\ last_translated' \in Texts
    BY <1>4 DEF TheBubble!TranslatedByHotkey
  <2> QED BY <1>1, <1>2, <1>3, <2>1, QuietWatcher
<1>5. CASE TheBubble!Selected \/ TheBubble!Forget
  <2>1. PICK p \in {"note", "idle"}, t \in TheBubble!Maybe : watcher' = TheBubble!At(p, t)
    BY <1>2, <1>5 DEF TheBubble!Selected, TheBubble!Forget
  <2>2. /\ watcher.at \in {"idle", "forget"} /\ queue' = queue
        /\ last_translated' \in {last_translated, None}
    BY <1>5 DEF TheBubble!Selected, TheBubble!Forget
  <2>3. watcher' \in [at : WatcherPlaces, text : TheBubble!Maybe] /\ watcher'.at \in {"note", "idle"}
    BY <2>1, WatcherAt DEF WatcherPlaces
  <2>4. OneAsks(queue', watcher')
    BY <1>2, <2>2, OthersAsk
  <2> QED BY <1>1, <1>2, <1>3, <2>2, <2>3, <2>4, QuietWatcher
<1>6. CASE TheBubble!Cleared \/ TheBubble!MouseDown
  <2>1. PICK what \in {"clear", "ask"} :
          /\ watcher.at = "idle" /\ TheBubble!OnUi(what, None) /\ last_translated' = last_translated
          /\ watcher' = TheBubble!At(IF what = "ask" THEN "asks" ELSE "forget", None)
    <3>1. CASE TheBubble!Cleared
      BY <3>1 DEF TheBubble!Cleared
    <3>2. CASE TheBubble!MouseDown
      BY <3>2 DEF TheBubble!MouseDown
    <3> QED BY <1>6, <3>1, <3>2, Zenon
  <2>2. /\ watcher' \in [at : WatcherPlaces, text : TheBubble!Maybe]
        /\ watcher'.at = IF what = "ask" THEN "asks" ELSE "forget"
    BY <1>2, <2>1, WatcherAt DEF WatcherPlaces
  <2>3. /\ queue' \in Seq(BubbleWorks) /\ Len(queue') <= MaxQueue
        /\ Members(queue') = Members(queue) \cup {<<what, None>>} /\ OneAsks(queue', watcher')
    BY <1>2, <2>1, <2>2, BubbleWaits
  <2>4. \A w : w[1] \in {"show", "dismiss"} => (w \in Members(queue') <=> w \in Members(queue))
    <3>1. <<what, None>>[1] = what
      OBVIOUS
    <3> QED BY <2>3, <3>1
  <2>5. watcher'.at \notin {"show", "drop"}
    BY <2>2
  <2> QED BY <1>1, <1>3, <2>1, <2>2, <2>3, <2>4, <2>5, QuietWatcher
<1> QED BY <1>4, <1>5, <1>6

LEMMA NoteHolds == ASSUME TheBubble!BubbleAssumption, BubbleInv, TheBubble!Note PROVE BubbleInv'
<1>1. /\ watcher.at = "note" /\ watcher' = [watcher EXCEPT !.at = "show"]
      /\ pending_selection' = watcher.text /\ raced' = TheBubble!Crossed("watcher")
      /\ last_translated' = last_translated /\ queue' = queue /\ ocr_busy' = ocr_busy
      /\ gesture' = gesture /\ clicked' = clicked /\ bubble' = bubble /\ mistaken' = mistaken
  BY DEF TheBubble!Note, TheBubble!Write, TheBubble!WatcherOnly
<1>2. BubbleTypes /\ watcher \in [at : WatcherPlaces, text : TheBubble!Maybe]
  BY DEF BubbleInv, BubbleTypes
<1>3. /\ watcher' \in [at : WatcherPlaces, text : TheBubble!Maybe]
      /\ watcher'.at = "show" /\ watcher'.text = watcher.text
  BY <1>1, <1>2 DEF WatcherPlaces
<1>4. raced' <=> raced \/ Writing
  BY <1>1, <1>2, AllWritersAre
<1>5. raced' \in BOOLEAN
  BY <1>1 DEF TheBubble!Crossed, BubbleInv, BubbleTypes
<1>6. BubbleTypes' /\ OneReads'
  BY <1>1, <1>2, <1>3, <1>5 DEF BubbleInv, BubbleTypes, OneReads
<1>7. OneAsks(queue', watcher')
  BY <1>1, OthersAsk DEF BubbleInv
<1>8. ASSUME ~raced' PROVE Ordered'
  <2>1. ~Writing
    BY <1>4, <1>8
  <2>2. \A t \in TheBubble!Maybe : Showing(t)' => t = pending_selection'
    <3>1. \A t \in TheBubble!Maybe : ~Showing(t)
      BY <2>1, Zenon DEF Writing
    <3> QED BY <1>1, <1>3, <3>1 DEF Showing
  <2>3. ~Dismissing'
    <3>1. ~Dismissing
      BY <2>1 DEF Writing
    <3> QED BY <1>1, <1>3, <3>1 DEF Dismissing, DismissWaits
  <2>4. PICK n \in TheBubble!Maybe : n = watcher.text
    BY <1>2
  <2>5. Showing(n)'
    BY <1>3, <2>4 DEF Showing
  <2>6. Writing'
    BY <2>5, Zenon DEF Writing
  <2> QED BY <2>2, <2>3, <2>6, NewTextOrdered
<1> QED BY <1>1, <1>6, <1>7, <1>8, Zenon DEF BubbleInv

LEMMA ShowHolds == ASSUME TheBubble!BubbleAssumption, BubbleInv, TheBubble!Show PROVE BubbleInv'
<1> DEFINE s == watcher.text
<1>1. /\ watcher.at = "show" /\ watcher' = TheBubble!At("idle", None) /\ TheBubble!OnUi("show", s)
      /\ pending_selection' = pending_selection /\ raced' = raced
      /\ last_translated' = last_translated /\ ocr_busy' = ocr_busy
      /\ gesture' = gesture /\ clicked' = clicked /\ bubble' = bubble /\ mistaken' = mistaken
  BY DEF TheBubble!Show, TheBubble!WatcherOnly
<1>2. BubbleTypes /\ s \in TheBubble!Maybe /\ OneAsks(queue, watcher) /\ None \in TheBubble!Maybe
  BY DEF BubbleInv, BubbleTypes, TheBubble!Maybe
<1>3. watcher' \in [at : WatcherPlaces, text : TheBubble!Maybe] /\ watcher'.at = "idle"
  BY <1>1, <1>2, WatcherAt DEF WatcherPlaces
<1>4. /\ queue' \in Seq(BubbleWorks) /\ Len(queue') <= MaxQueue
      /\ Members(queue') = Members(queue) \cup {<<"show", s>>} /\ OneAsks(queue', watcher')
  BY <1>1, <1>2, <1>3, BubbleWaits
<1>5. BubbleTypes' /\ OneReads'
  BY <1>1, <1>2, <1>3, <1>4 DEF BubbleInv, BubbleTypes, OneReads
<1>6. ASSUME Ordered PROVE Ordered'
  <2>1. Showing(s)
    BY <1>1, Zenon DEF Showing
  <2>2. \A t \in TheBubble!Maybe : Showing(t)' => Showing(t)
    BY <1>1, <1>3, <1>4, <2>1 DEF Showing
  <2>3. <<"show", s>>[1] # "dismiss"
    OBVIOUS
  <2>4. DismissWaits' <=> DismissWaits
    BY <1>4, <2>3, Zenon DEF DismissWaits
  <2>5. Dismissing' => Dismissing
    BY <1>3, <2>4 DEF Dismissing
  <2>6. PICK n \in TheBubble!Maybe : n = s
    BY <1>2
  <2>7. Writing'
    <3>1. <<"show", n>> \in Members(queue')
      BY <1>4, <2>6
    <3> QED BY <3>1, Zenon DEF Writing, Showing
  <2> QED BY <1>1, <1>3, <1>6, <2>2, <2>4, <2>5, <2>7, StaysOrdered
<1> QED BY <1>1, <1>4, <1>5, <1>6, Zenon DEF BubbleInv

(* The bubble is hidden, by a press beside it or a click on it: nothing else *)
(* is under way but that.                                                    *)
LEMMA DismissOrdered ==
  ASSUME ~Writing, gesture' = gesture, watcher'.at # "show", <<"dismiss", None>> \in Members(queue'),
         \A w \in Members(queue') : w \in Members(queue) \/ w = <<"dismiss", None>>
  PROVE  Ordered'
<1>1. \A t \in TheBubble!Maybe : ~Showing(t)
  BY Zenon DEF Writing
<1>2. \A t \in TheBubble!Maybe : <<"show", t>> # <<"dismiss", None>>
  OBVIOUS
<1>3. \A t \in TheBubble!Maybe : ~Showing(t)'
  BY <1>1, <1>2, Zenon DEF Showing
<1>4. <<"dismiss", None>>[1] = "dismiss"
  OBVIOUS
<1>5. DismissWaits' /\ Writing'
  BY <1>4, Zenon DEF DismissWaits, Writing, Dismissing
<1> QED BY <1>3, <1>5, Zenon DEF Ordered

LEMMA HideBubbleHolds ==
  ASSUME TheBubble!BubbleAssumption, BubbleInv, TheBubble!HideBubble
  PROVE  BubbleInv'
<1>1. /\ watcher.at = "outside" /\ watcher' = TheBubble!At("drop", None)
      /\ TheBubble!OnUi("dismiss", None) /\ raced' = TheBubble!Crossed("watcher")
      /\ pending_selection' = pending_selection /\ last_translated' = last_translated
      /\ ocr_busy' = ocr_busy /\ gesture' = gesture /\ clicked' = clicked /\ bubble' = bubble
      /\ mistaken' = mistaken
  BY DEF TheBubble!HideBubble, TheBubble!WatcherOnly
<1>2. BubbleTypes /\ OneAsks(queue, watcher) /\ None \in TheBubble!Maybe
  BY DEF BubbleInv, TheBubble!Maybe
<1>3. watcher' \in [at : WatcherPlaces, text : TheBubble!Maybe] /\ watcher'.at = "drop"
  BY <1>1, <1>2, WatcherAt DEF WatcherPlaces
<1>4. /\ queue' \in Seq(BubbleWorks) /\ Len(queue') <= MaxQueue
      /\ Members(queue') = Members(queue) \cup {<<"dismiss", None>>} /\ OneAsks(queue', watcher')
  BY <1>1, <1>2, <1>3, BubbleWaits
<1>5. raced' <=> raced \/ Writing
  BY <1>1, <1>2, AllWritersAre
<1>6. raced' \in BOOLEAN
  BY <1>1 DEF TheBubble!Crossed, BubbleInv, BubbleTypes
<1>7. BubbleTypes' /\ OneReads'
  BY <1>1, <1>2, <1>3, <1>4, <1>6 DEF BubbleInv, BubbleTypes, OneReads
<1>8. ASSUME ~raced' PROVE Ordered'
  BY <1>1, <1>3, <1>4, <1>5, <1>8, DismissOrdered
<1> QED BY <1>1, <1>4, <1>7, <1>8, Zenon DEF BubbleInv

LEMMA ClickHolds ==
  ASSUME TheBubble!BubbleAssumption, BubbleInv, NEW c \in Clicks, TheBubble!Click(c)
  PROVE  BubbleInv'
<1>1. /\ bubble # None /\ clicked' = clicked \cup {c} /\ TheBubble!OnUi("dismiss", None)
      /\ pending_selection' = None /\ raced' = TheBubble!Crossed("UI")
      /\ last_translated' = IF pending_selection = None THEN last_translated ELSE pending_selection
      /\ mistaken' = (mistaken \/ (~raced' /\ pending_selection # bubble))
      /\ ocr_busy' = ocr_busy /\ gesture' = gesture /\ watcher' = watcher /\ bubble' = bubble
  BY DEF TheBubble!Click, TheBubble!Write
<1>2. BubbleTypes /\ OneAsks(queue, watcher) /\ None \in TheBubble!Maybe
  BY DEF BubbleInv, TheBubble!Maybe
<1>3. raced' <=> raced \/ Writing
  BY <1>1, <1>2, AllWritersAre
<1>4. raced' \in BOOLEAN
  BY <1>1 DEF TheBubble!Crossed, BubbleInv, BubbleTypes
<1>5. /\ queue' \in Seq(BubbleWorks) /\ Len(queue') <= MaxQueue
      /\ Members(queue') = Members(queue) \cup {<<"dismiss", None>>} /\ OneAsks(queue', watcher)
  BY <1>1, <1>2, BubbleWaits
<1>6. BubbleTypes' /\ OneReads'
  <2>1. last_translated' \in TheBubble!Maybe
    BY <1>1, <1>2 DEF BubbleTypes
  <2> QED BY <1>1, <1>2, <1>4, <1>5, <2>1 DEF BubbleInv, BubbleTypes, OneReads
<1>7. ASSUME ~raced' PROVE Ordered' /\ pending_selection = bubble
  <2>1. ~Writing /\ Ordered
    BY <1>3, <1>7 DEF BubbleInv
  <2>2. watcher'.at # "show"
    <3>1. ~Showing(watcher.text)
      BY <1>2, <2>1 DEF Writing, BubbleTypes
    <3> QED BY <1>1, <3>1 DEF Showing
  <2>3. pending_selection = bubble
    BY <1>1, <2>1 DEF Ordered
  <2> QED BY <1>1, <1>5, <2>1, <2>2, <2>3, DismissOrdered
<1>8. ~mistaken'
  BY <1>1, <1>7 DEF BubbleInv
<1> QED BY <1>1, <1>5, <1>6, <1>7, <1>8, Zenon DEF BubbleInv

LEMMA DropPendingHolds ==
  ASSUME TheBubble!BubbleAssumption, BubbleInv, TheBubble!DropPending
  PROVE  BubbleInv'
<1>1. /\ watcher.at = "drop" /\ watcher' = TheBubble!At("idle", None)
      /\ pending_selection' = None /\ raced' = TheBubble!Crossed("watcher")
      /\ last_translated' = last_translated /\ queue' = queue /\ ocr_busy' = ocr_busy
      /\ gesture' = gesture /\ clicked' = clicked /\ bubble' = bubble /\ mistaken' = mistaken
  BY DEF TheBubble!DropPending, TheBubble!Write, TheBubble!WatcherOnly
<1>2. BubbleTypes /\ None \in TheBubble!Maybe
  BY DEF BubbleInv, TheBubble!Maybe
<1>3. watcher' \in [at : WatcherPlaces, text : TheBubble!Maybe] /\ watcher'.at = "idle"
  BY <1>1, <1>2, WatcherAt DEF WatcherPlaces
<1>4. raced' \in BOOLEAN
  BY <1>1 DEF TheBubble!Crossed, BubbleInv, BubbleTypes
<1>5. BubbleTypes' /\ OneReads'
  BY <1>1, <1>2, <1>3, <1>4 DEF BubbleInv, BubbleTypes, OneReads
<1>6. OneAsks(queue', watcher')
  BY <1>1, OthersAsk DEF BubbleInv
<1>7. ASSUME ~raced' PROVE Ordered'
  <2>1. ~raced /\ ~TheBubble!UnderWay(TheBubble!Writers \ {"watcher"})
    BY <1>1, <1>7 DEF TheBubble!Crossed
  <2>2. /\ ~GestureShows("watcher") /\ ~DismissWaits
        /\ \A t \in TheBubble!Maybe : <<"show", t>> \notin Members(queue)
    BY <1>2, <2>1, UnderWayIs, Zenon
  <2>3. bubble = None
    BY <1>1, <2>1, <2>2 DEF BubbleInv, Ordered
  <2>4. \A g \in Gestures : gesture[g].at # "show"
    BY <2>2 DEF GestureShows, TheBubble!BubbleAssumption
  <2>5. \A t \in TheBubble!Maybe : ~Showing(t)'
    BY <1>1, <1>3, <2>2, <2>4 DEF Showing
  <2>6. ~(watcher'.at = "drop") /\ bubble' = None
    BY <1>1, <1>3, <2>3
  <2> QED BY <2>5, <2>6, Zenon DEF Ordered
<1> QED BY <1>1, <1>5, <1>6, <1>7, Zenon DEF BubbleInv

(* What the UI thread takes was the first that waited. *)
LEMMA BubbleTakes ==
  ASSUME TheBubble!BubbleAssumption, BubbleTypes, OneAsks(queue, watcher), queue # <<>>, queue' = Tail(queue)
  PROVE  /\ queue' \in Seq(BubbleWorks) /\ Len(queue') <= MaxQueue /\ Head(queue) \in BubbleWorks
         /\ Members(queue) = {Head(queue)} \cup Members(queue') /\ OneAsks(queue', watcher)
         /\ Head(queue)[1] = "ask" => watcher.at = "asks" /\ \A v : OneAsks(queue', v)
<1>1. /\ queue \in Seq(BubbleWorks) /\ Len(queue) <= MaxQueue /\ MaxQueue \in Nat
  BY DEF BubbleTypes, TheBubble!BubbleAssumption
<1>2. /\ Len(queue) \in Nat /\ Len(queue) > 0 /\ DOMAIN queue = 1 .. Len(queue)
      /\ DOMAIN queue' = 1 .. Len(queue) - 1 /\ queue[1] = Head(queue)
      /\ \A k \in DOMAIN queue' : queue'[k] = queue[k + 1]
      /\ Len(queue') = Len(queue) - 1
  BY <1>1
<1>3. /\ queue' \in Seq(BubbleWorks) /\ Head(queue) \in BubbleWorks
      /\ Members(queue) = {Head(queue)} \cup Members(queue')
  BY <1>1, MembersTail
<1>4. Len(queue') <= MaxQueue
  BY <1>1, <1>2
<1>5. 1 \in DOMAIN queue /\ \A k \in DOMAIN queue' : k + 1 \in DOMAIN queue /\ k + 1 # 1 /\ k \in Int
  BY <1>2
<1>6. OneAsks(queue', watcher)
  <2>1. \A k \in DOMAIN queue' : queue'[k][1] = "ask" => watcher.at = "asks"
    BY <1>2, <1>5 DEF OneAsks
  <2>2. ASSUME NEW j \in DOMAIN queue', NEW k \in DOMAIN queue', queue'[j][1] = "ask", queue'[k][1] = "ask"
        PROVE  j = k
    <3>1. j + 1 = k + 1
      BY <1>2, <1>5, <2>2 DEF OneAsks
    <3> QED BY <1>5, <3>1
  <2> QED BY <2>1, <2>2, Zenon DEF OneAsks
<1>7. ASSUME Head(queue)[1] = "ask" PROVE watcher.at = "asks" /\ \A v : OneAsks(queue', v)
  <2>1. watcher.at = "asks"
    BY <1>2, <1>5, <1>7 DEF OneAsks
  <2>2. \A k \in DOMAIN queue' : queue'[k][1] # "ask"
    BY <1>2, <1>5, <1>7 DEF OneAsks
  <2> QED BY <2>1, <2>2, Zenon DEF OneAsks
<1> QED BY <1>3, <1>4, <1>6, <1>7

LEMMA BubbleUiHolds ==
  ASSUME TheBubble!BubbleAssumption, BubbleInv, TheBubble!UiWork
  PROVE  BubbleInv'
<1> DEFINE next == Head(queue)
<1>1. /\ queue # <<>> /\ queue' = Tail(queue)
      /\ pending_selection' = pending_selection /\ last_translated' = last_translated
      /\ ocr_busy' = ocr_busy /\ gesture' = gesture /\ clicked' = clicked /\ mistaken' = mistaken
  BY DEF TheBubble!UiWork
<1>2. BubbleTypes /\ OneAsks(queue, watcher) /\ None \in TheBubble!Maybe
      /\ watcher \in [at : WatcherPlaces, text : TheBubble!Maybe]
  BY DEF BubbleInv, BubbleTypes, TheBubble!Maybe
<1>3. /\ queue' \in Seq(BubbleWorks) /\ Len(queue') <= MaxQueue /\ next \in BubbleWorks
      /\ Members(queue) = {next} \cup Members(queue') /\ OneAsks(queue', watcher)
      /\ next[1] = "ask" => watcher.at = "asks" /\ \A v : OneAsks(queue', v)
  BY <1>1, <1>2, BubbleTakes
<1>4. PICK t \in TheBubble!Maybe : next = <<next[1], t>> /\ next[2] = t
  BY <1>3 DEF BubbleWorks
<1> HIDE DEF next
<1>5. CASE next[1] = "show" /\ bubble' = next[2] /\ watcher' = watcher /\ raced' = raced
  <2>1. BubbleTypes' /\ OneReads'
    BY <1>1, <1>2, <1>3, <1>4, <1>5 DEF BubbleInv, BubbleTypes, OneReads
  <2>2. ASSUME Ordered PROVE Ordered'
    <3>1. <<"show", t>> \in Members(queue)
      BY <1>3, <1>4, <1>5
    <3>2. Showing(t)
      BY <3>1, Zenon DEF Showing
    <3>3. t = pending_selection /\ ~Dismissing
      BY <2>2, <3>2, Zenon DEF Ordered
    <3>4. \A u : Showing(u)' => Showing(u)
      BY <1>1, <1>3, <1>5 DEF Showing
    <3>5. ~Dismissing'
      BY <1>3, <1>5, <3>3 DEF Dismissing, DismissWaits
    <3>6. \A u \in TheBubble!Maybe : Showing(u)' => u = pending_selection'
      BY <1>1, <2>2, <3>4, Zenon DEF Ordered
    <3>7. ~(watcher'.at = "drop") /\ bubble' = pending_selection'
      BY <1>1, <1>4, <1>5, <3>3 DEF Dismissing
    <3> QED BY <3>5, <3>6, <3>7, Zenon DEF Ordered
  <2> QED BY <1>1, <1>3, <1>5, <2>1, <2>2, Zenon DEF BubbleInv
<1>6. CASE next[1] \in {"clear", "dismiss"} /\ bubble' = None /\ watcher' = watcher
           /\ raced' = (raced /\ TheBubble!UnderWay(TheBubble!Writers)')
  <2>1. raced' \in BOOLEAN
    BY <1>6
  <2>2. BubbleTypes' /\ OneReads'
    BY <1>1, <1>2, <1>3, <1>6, <2>1 DEF BubbleInv, BubbleTypes, OneReads
  <2>3. ASSUME ~raced' PROVE Ordered'
    <3>1. CASE ~raced
      <4>1. Ordered
        BY <3>1 DEF BubbleInv
      <4>2. \A u : Showing(u)' => Showing(u)
        BY <1>1, <1>3, <1>6 DEF Showing
      <4>3. Dismissing' => Dismissing
        BY <1>3, <1>6 DEF Dismissing, DismissWaits
      <4> QED BY <1>1, <1>6, <4>1, <4>2, <4>3, StaysOrdered
    <3>2. CASE raced
      <4>1. ~TheBubble!UnderWay(TheBubble!Writers)'
        BY <1>6, <2>3, <3>2
      <4>2. ~Writing'
        BY <2>2, <4>1, AllWritersAre, PTL
      <4>3. (\A u \in TheBubble!Maybe : ~Showing(u)') /\ ~Dismissing'
        BY <4>2, Zenon DEF Writing
      <4>4. ~(watcher'.at = "drop") /\ bubble' = None
        BY <1>6, <4>3 DEF Dismissing
      <4> QED BY <4>3, <4>4, Zenon DEF Ordered
    <3> QED BY <3>1, <3>2
  <2> QED BY <1>1, <1>3, <1>6, <2>2, <2>3, Zenon DEF BubbleInv
<1>7. CASE next[1] = "ask" /\ bubble' = bubble /\ raced' = raced
           /\ watcher' \in {TheBubble!At("idle", None), TheBubble!At("outside", None)}
  <2>1. /\ watcher' \in [at : WatcherPlaces, text : TheBubble!Maybe]
        /\ watcher'.at \in {"idle", "outside"}
    BY <1>2, <1>7, WatcherAt DEF WatcherPlaces
  <2>2. watcher.at = "asks" /\ OneAsks(queue', watcher')
    BY <1>3, <1>7
  <2>3. \A w : w[1] \in {"show", "dismiss"} => (w \in Members(queue') <=> w \in Members(queue))
    BY <1>3, <1>7
  <2>4. last_translated' \in TheBubble!Maybe
    BY <1>1, <1>2 DEF BubbleTypes
  <2> QED BY <1>1, <1>3, <1>7, <2>1, <2>2, <2>3, <2>4, QuietWatcher
<1>8. \/ next[1] = "show" /\ bubble' = next[2] /\ watcher' = watcher /\ raced' = raced
      \/ next[1] \in {"clear", "dismiss"} /\ bubble' = None /\ watcher' = watcher
           /\ raced' = (raced /\ TheBubble!UnderWay(TheBubble!Writers)')
      \/ next[1] = "ask" /\ bubble' = bubble /\ raced' = raced
           /\ watcher' \in {TheBubble!At("idle", None), TheBubble!At("outside", None)}
  BY DEF TheBubble!UiWork, next
<1> QED BY <1>5, <1>6, <1>7, <1>8

LEMMA BubbleGoesHolds == ASSUME BubbleInv, TheBubble!BubbleGoes PROVE BubbleInv'
<1>1. /\ bubble' = None /\ pending_selection' = pending_selection /\ last_translated' = last_translated
      /\ ocr_busy' = ocr_busy /\ gesture' = gesture /\ watcher' = watcher /\ clicked' = clicked
      /\ queue' = queue /\ raced' = raced /\ mistaken' = mistaken
  BY DEF TheBubble!BubbleGoes
<1>2. BubbleTypes' /\ OneReads' /\ OneAsks(queue', watcher')
  BY <1>1 DEF BubbleInv, BubbleTypes, OneReads, TheBubble!Maybe
<1>3. (\A t : Showing(t)' <=> Showing(t)) /\ (Dismissing' <=> Dismissing)
  BY <1>1 DEF Showing, Dismissing, DismissWaits
<1>4. ASSUME Ordered PROVE Ordered'
  BY <1>1, <1>3, <1>4, StaysOrdered
<1> QED BY <1>1, <1>2, <1>4, Zenon DEF BubbleInv

LEMMA BubbleStep ==
  ASSUME TheBubble!BubbleAssumption, BubbleInv, TheBubble!Next
  PROVE  BubbleInv'
BY GestureHolds, RaiseHolds, ShowAfterGestureHolds, ClickHolds, WatcherWaitsHolds, NoteHolds,
   ShowHolds, HideBubbleHolds, DropPendingHolds, BubbleUiHolds, BubbleGoesHolds, Zenon
   DEF TheBubble!Next

LEMMA BubbleStutter == ASSUME BubbleInv, UNCHANGED bubbleVars PROVE BubbleInv'
<1>1. /\ bubble' = bubble /\ pending_selection' = pending_selection /\ last_translated' = last_translated
      /\ ocr_busy' = ocr_busy /\ gesture' = gesture /\ watcher' = watcher /\ clicked' = clicked
      /\ queue' = queue /\ raced' = raced /\ mistaken' = mistaken
  BY DEF bubbleVars
<1>2. BubbleTypes' /\ OneReads' /\ OneAsks(queue', watcher')
  BY <1>1 DEF BubbleInv, BubbleTypes, OneReads
<1>3. (\A t : Showing(t)' <=> Showing(t)) /\ (Dismissing' <=> Dismissing) /\ (DismissWaits' <=> DismissWaits)
  BY <1>1 DEF Showing, Dismissing, DismissWaits
<1>4. Writing' <=> Writing
  BY <1>3, Zenon DEF Writing
<1>5. ASSUME Ordered PROVE Ordered'
  BY <1>1, <1>3, <1>4, <1>5, StaysOrdered
<1> QED BY <1>1, <1>2, <1>5, Zenon DEF BubbleInv

LEMMA BubbleIsTranslated ==
  ASSUME TheBubble!BubbleAssumption, BubbleInv
  PROVE  TheBubble!TypeOK /\ TheBubble!ClickTranslatesItsSelection
BY Zenon DEF BubbleInv, BubbleTypes, OneReads, GesturePlaces, WatcherPlaces, TheBubble!TypeOK,
   TheBubble!ClickTranslatesItsSelection

-----------------------------------------------------------------------------
(* What a gesture's text is made from (selection.rs, ocr_select.rs,          *)
(* translate.rs, actions.rs), for any number of letters and any places.      *)

LEMMA ReadingIsKept ==
  ASSUME NEW ru \in [cyr : Nat, lat : Nat, mix : Nat, other : Nat],
         NEW en \in [cyr : Nat, lat : Nat, mix : Nat, other : Nat],
         NEW given, given = Reader!RecognizeForSelection(ru, en)
  PROVE  given \in {ru, en} /\ (Reader!IsEmpty(given) => Reader!IsEmpty(ru) /\ Reader!IsEmpty(en))
<1>1. given \in {ru, en}
  BY DEF Reader!RecognizeForSelection
<1>2. ASSUME Reader!IsEmpty(given) PROVE Reader!IsEmpty(ru) /\ Reader!IsEmpty(en)
  <2>1. CASE ru.cyr > 0 /\ ru.cyr >= ru.lat
    BY <1>2, <2>1 DEF Reader!RecognizeForSelection, Reader!IsEmpty
  <2>2. CASE ~(ru.cyr > 0 /\ ru.cyr >= ru.lat)
    BY <1>2, <2>2 DEF Reader!RecognizeForSelection, Reader!IsEmpty
  <2> QED BY <2>1, <2>2
<1> QED BY <1>1, <1>2

(* Whom the text is sent to, one after the other. *)
LEMMA SentTo ==
  /\ Reader!Range(<<>>) = {}
  /\ \A a : Reader!Range(<<a>>) = {a} /\ Len(<<a>>) = 1 /\ <<a>>[1] = a
  /\ \A a, b : Reader!Range(<<a, b>>) = {a, b} /\ Len(<<a, b>>) = 2 /\ <<a, b>>[2] = b
  BY DEF Reader!Range

LEMMA TextIsSent ==
  ASSUME NEW ask \in Reader!Asks, NEW t, t = Reader!Translate(ask)
  PROVE  LET sent == Reader!Range(t.asked)
         IN  /\ ask.blank => sent = {}
             /\ "free" \in sent => \/ ask.chosen = "free" \/ ~ask.key
                                   \/ "deepl" \in sent /\ Reader!Failure(ask.deepl)
             /\ "deepl" \in sent => ask.chosen = "deepl" /\ ask.key
             /\ t.provider = "error" => Reader!Failure(ask.free) /\ "free" \in sent
             /\ t.provider \in {"free", "deepl"} => t.asked[Len(t.asked)] = t.provider
<1>1. /\ ask.blank \in BOOLEAN /\ ask.stub \in BOOLEAN /\ ask.key \in BOOLEAN
      /\ ask.chosen \in {"free", "deepl"}
  BY DEF Reader!Asks
<1> DEFINE p == IF Reader!Failure(ask.free) THEN "error" ELSE "free"
<1>3. \/ ask.blank /\ t = [asked |-> <<>>, provider |-> "none"]
      \/ ~ask.blank /\ t = [asked |-> <<>>, provider |-> "stub"]
      \/ ~ask.blank /\ ask.chosen = "deepl" /\ ask.key /\ ~Reader!Failure(ask.deepl)
           /\ t = [asked |-> <<"deepl">>, provider |-> "deepl"]
      \/ ~ask.blank /\ ask.chosen = "deepl" /\ ask.key /\ Reader!Failure(ask.deepl)
           /\ t = [asked |-> <<"deepl", "free">>, provider |-> p]
      \/ ~ask.blank /\ (ask.chosen = "free" \/ ~ask.key) /\ t = [asked |-> <<"free">>, provider |-> p]
  BY <1>1 DEF Reader!Translate, Reader!AskDeepl, Reader!AskFree
<1>4. CASE t.asked = <<>> /\ t.provider \in {"none", "stub"}
  BY <1>4, SentTo
<1>5. CASE ~ask.blank /\ ask.chosen = "deepl" /\ ask.key /\ ~Reader!Failure(ask.deepl)
           /\ t.asked = <<"deepl">> /\ t.provider = "deepl"
  BY <1>5, SentTo
<1>6. CASE ~ask.blank /\ ask.chosen = "deepl" /\ ask.key /\ Reader!Failure(ask.deepl)
           /\ t.asked = <<"deepl", "free">> /\ t.provider = p
  BY <1>6, SentTo
<1>7. CASE ~ask.blank /\ (ask.chosen = "free" \/ ~ask.key) /\ t.asked = <<"free">> /\ t.provider = p
  BY <1>7, SentTo
<1> QED BY <1>3, <1>4, <1>5, <1>6, <1>7

(* One of the two coordinates of a drag, with what is added around it. *)
Padding(u, v, low, high, pad, from, wide, mid) ==
  /\ u \in Nat /\ v \in Nat /\ pad \in Nat \ {0}
  /\ low = Reader!Smaller(u, v) /\ high = Reader!Larger(u, v) /\ from = Reader!Larger(low - pad, 0)
  /\ wide = Reader!Off(u - v) + 2 * pad /\ mid = (u + v) \div 2 - from

Holds(u, v, low, high, from, wide, mid) ==
  /\ mid \in 0 .. wide - 1 /\ from \in Nat /\ wide \in Nat
  /\ from + mid \in low .. high
  /\ u \in from .. from + wide /\ v \in from .. from + wide

LEMMA MiddleIsInside ==
  ASSUME NEW u, NEW v, NEW low, NEW high, NEW pad, NEW from, NEW wide, NEW mid,
         Padding(u, v, low, high, pad, from, wide, mid)
  PROVE  Holds(u, v, low, high, from, wide, mid)
<1>1. /\ u \in Nat /\ v \in Nat /\ pad \in Nat \ {0} /\ mid = (u + v) \div 2 - from
  BY DEF Padding
<1>2. low \in Nat /\ high \in Nat /\ high - low = Reader!Off(u - v) /\ low + high = u + v
      /\ u \in low .. high /\ v \in low .. high
  BY DEF Padding, Reader!Smaller, Reader!Larger, Reader!Off
<1>3. (u + v) \div 2 \in low .. high
  BY <1>1, <1>2
<1>4. from \in Nat /\ from <= low /\ low <= from + pad
  BY <1>1, <1>2 DEF Padding, Reader!Larger
<1>5. wide = high - low + 2 * pad
  BY <1>2 DEF Padding
<1> QED BY <1>1, <1>2, <1>3, <1>4, <1>5 DEF Holds

LEMMA RegionHasGesture ==
  ASSUME NEW a \in Nat \X Nat, NEW b \in Nat \X Nat, NEW dbl \in BOOLEAN,
         NEW g, g = [double |-> dbl, a |-> a, b |-> b],
         NEW r, r = Reader!GestureRegion(g), NEW s, s = Reader!SampleIn(g, r)
  PROVE  LET e == IF dbl THEN a ELSE b
             padded == Reader!Padded([x |-> s[1], y |-> s[2], width |-> 1, height |-> 1],
                                     <<r.width, r.height>>)
         IN  /\ s[1] \in 0 .. r.width - 1 /\ s[2] \in 0 .. r.height - 1
             /\ r.x + s[1] \in Reader!Smaller(a[1], e[1]) .. Reader!Larger(a[1], e[1])
             /\ r.y + s[2] \in Reader!Smaller(a[2], e[2]) .. Reader!Larger(a[2], e[2])
             /\ \A p \in {a, e} : p[1] \in r.x .. r.x + r.width /\ p[2] \in r.y .. r.y + r.height
             /\ padded.x <= s[1] /\ s[1] < padded.x + padded.width
             /\ padded.x + padded.width <= r.width
<1>1. a[1] \in Nat /\ a[2] \in Nat /\ b[1] \in Nat /\ b[2] \in Nat
  OBVIOUS
<1>2. CASE dbl
  <2>1. /\ r.x = Reader!Larger(a[1] - 160, 0) /\ r.y = Reader!Larger(a[2] - 24, 0)
        /\ r.width = 320 /\ r.height = 48 /\ s[1] = a[1] - r.x /\ s[2] = a[2] - r.y
    BY <1>2 DEF Reader!GestureRegion, Reader!DoubleClickRegion, Reader!Region, Reader!SampleIn
  <2> QED BY <1>1, <1>2, <2>1 DEF Reader!Larger, Reader!Smaller, Reader!Padded
<1>3. CASE ~dbl
  <2>1. /\ r.x = Reader!Larger(Reader!Smaller(a[1], b[1]) - 30, 0)
        /\ r.y = Reader!Larger(Reader!Smaller(a[2], b[2]) - 22, 0)
        /\ r.width = Reader!Off(a[1] - b[1]) + 60 /\ r.height = Reader!Off(a[2] - b[2]) + 44
        /\ s[1] = (a[1] + b[1]) \div 2 - r.x /\ s[2] = (a[2] + b[2]) \div 2 - r.y
    BY <1>3 DEF Reader!GestureRegion, Reader!DragRegion, Reader!Region, Reader!SampleIn
  <2>3. Holds(a[1], b[1], Reader!Smaller(a[1], b[1]), Reader!Larger(a[1], b[1]), r.x, r.width, s[1])
    <3>1. Padding(a[1], b[1], Reader!Smaller(a[1], b[1]), Reader!Larger(a[1], b[1]), 30, r.x, r.width, s[1])
      BY <1>1, <2>1 DEF Padding
    <3> QED BY <3>1, MiddleIsInside, Zenon
  <2>4. Holds(a[2], b[2], Reader!Smaller(a[2], b[2]), Reader!Larger(a[2], b[2]), r.y, r.height, s[2])
    <3>1. Padding(a[2], b[2], Reader!Smaller(a[2], b[2]), Reader!Larger(a[2], b[2]), 22, r.y, r.height, s[2])
      BY <1>1, <2>1 DEF Padding
    <3> QED BY <3>1, MiddleIsInside, Zenon
  <2> QED BY <1>1, <1>3, <2>3, <2>4 DEF Holds, Reader!Padded, Reader!Larger, Reader!Smaller
<1> QED BY <1>2, <1>3

LEMMA RegionFitsAgain ==
  ASSUME NEW r \in [x : Nat, y : Nat, width : Nat \ {0}, height : Nat \ {0}],
         NEW size \in (Nat \ {0}) \X (Nat \ {0}), NEW again, again = Reader!LastRegionOn(r, size)
  PROVE  /\ r.x + r.width <= size[1] /\ r.y + r.height <= size[2] => again = r
         /\ IF r.x < size[1] /\ r.y < size[2]
            THEN again.width >= 1 /\ again.height >= 1 /\ again.x + again.width <= size[1]
                 /\ again.y + again.height <= size[2]
            ELSE again.width < 1 \/ again.height < 1
<1>1. /\ r.x \in Nat /\ r.y \in Nat /\ r.width \in Nat \ {0} /\ r.height \in Nat \ {0}
      /\ size[1] \in Nat \ {0} /\ size[2] \in Nat \ {0}
      /\ r = [x |-> r.x, y |-> r.y, width |-> r.width, height |-> r.height]
  OBVIOUS
<1>2. again = [x |-> Reader!Smaller(r.x, size[1] - 1), y |-> Reader!Smaller(r.y, size[2] - 1),
               width |-> Reader!Smaller(r.width, size[1] - r.x),
               height |-> Reader!Smaller(r.height, size[2] - r.y)]
  BY DEF Reader!LastRegionOn
<1>3. ASSUME r.x + r.width <= size[1], r.y + r.height <= size[2] PROVE again = r
  <2>1. /\ Reader!Smaller(r.x, size[1] - 1) = r.x /\ Reader!Smaller(r.y, size[2] - 1) = r.y
        /\ Reader!Smaller(r.width, size[1] - r.x) = r.width
        /\ Reader!Smaller(r.height, size[2] - r.y) = r.height
    BY <1>1, <1>3 DEF Reader!Smaller
  <2> QED BY <1>1, <1>2, <2>1
<1>4. ASSUME r.x < size[1], r.y < size[2]
      PROVE  again.width >= 1 /\ again.height >= 1 /\ again.x + again.width <= size[1]
             /\ again.y + again.height <= size[2]
  BY <1>1, <1>2, <1>4 DEF Reader!Smaller
<1>5. ASSUME ~(r.x < size[1] /\ r.y < size[2]) PROVE again.width < 1 \/ again.height < 1
  BY <1>1, <1>2, <1>5 DEF Reader!Smaller
<1> QED BY <1>3, <1>4, <1>5

TextInv ==
  subject \in Reader!Screens \cup Reader!ReadingPairs \cup Reader!Asks \cup Reader!GestureKinds
              \cup Reader!Repeats

LEMMA TextIsRead ==
  ASSUME TextInv
  PROVE  /\ Reader!OneReadingIsEnough /\ Reader!TextGoesWhereItMay
         /\ Reader!GestureIsInItsRegion /\ Reader!RepeatFitsTheScreen
<1>1. Reader!OneReadingIsEnough
  <2> SUFFICES ASSUME subject.kind = "readings" PROVE Reader!OneReadingIsEnough
    BY DEF Reader!OneReadingIsEnough, Reader!Is
  <2>1. subject \in Reader!ReadingPairs
    BY DEF TextInv, Reader!Screens, Reader!ReadingPairs, Reader!Asks, Reader!GestureKinds, Reader!Repeats
  <2>2. /\ subject.ru \in [cyr : Nat, lat : Nat, mix : Nat, other : Nat]
        /\ subject.en \in [cyr : Nat, lat : Nat, mix : Nat, other : Nat]
    BY <2>1 DEF Reader!ReadingPairs, Reader!Reading
  <2> QED BY <2>2, ReadingIsKept DEF Reader!OneReadingIsEnough
<1>2. Reader!TextGoesWhereItMay
  <2> SUFFICES ASSUME subject.kind = "ask" PROVE Reader!TextGoesWhereItMay
    BY DEF Reader!TextGoesWhereItMay, Reader!Is
  <2>1. subject \in Reader!Asks
    BY DEF TextInv, Reader!Screens, Reader!ReadingPairs, Reader!Asks, Reader!GestureKinds, Reader!Repeats
  <2> QED BY <2>1, TextIsSent DEF Reader!TextGoesWhereItMay
<1>3. Reader!GestureIsInItsRegion
  <2> SUFFICES ASSUME subject.kind = "gesture" PROVE Reader!GestureIsInItsRegion
    BY DEF Reader!GestureIsInItsRegion, Reader!Is
  <2>1. subject \in Reader!GestureKinds
    BY DEF TextInv, Reader!Screens, Reader!ReadingPairs, Reader!Asks, Reader!GestureKinds, Reader!Repeats
  <2>2. /\ subject.a \in Nat \X Nat /\ subject.b \in Nat \X Nat /\ subject.double \in BOOLEAN
    BY <2>1 DEF Reader!GestureKinds, Reader!GesturePlaces
  <2> DEFINE g == [double |-> subject.double, a |-> subject.a, b |-> subject.b]
  <2>3. /\ Reader!GestureRegion(subject) = Reader!GestureRegion(g)
        /\ \A r : Reader!SampleIn(subject, r) = Reader!SampleIn(g, r)
    BY DEF Reader!GestureRegion, Reader!SampleIn
  <2> HIDE DEF g
  <2>4. g = [double |-> subject.double, a |-> subject.a, b |-> subject.b]
    BY DEF g
  <2> QED BY <2>2, <2>3, <2>4, RegionHasGesture DEF Reader!GestureIsInItsRegion
<1>4. Reader!RepeatFitsTheScreen
  <2> SUFFICES ASSUME subject.kind = "repeat" PROVE Reader!RepeatFitsTheScreen
    BY DEF Reader!RepeatFitsTheScreen, Reader!Is
  <2>1. subject \in Reader!Repeats
    BY DEF TextInv, Reader!Screens, Reader!ReadingPairs, Reader!Asks, Reader!GestureKinds, Reader!Repeats
  <2>2. /\ subject.r \in [x : Nat, y : Nat, width : Nat \ {0}, height : Nat \ {0}]
        /\ subject.size \in (Nat \ {0}) \X (Nat \ {0})
    BY <2>1 DEF Reader!Repeats
  <2> QED BY <2>2, RegionFitsAgain DEF Reader!RepeatFitsTheScreen
<1> QED BY <1>1, <1>2, <1>3, <1>4

-----------------------------------------------------------------------------
(* The settings in memory, in their file and in what the program does (settings.rs,  *)
(* host.rs, tray.rs, autostart.rs).                                          *)

FieldValues == [Settings!Kinds -> Settings!Values]
FieldPatches == UNION {[{f} -> Settings!Values \cup {Wrong}] : f \in Settings!Kinds}
Calls == [at : Settings!Stages, patch : FieldPatches \cup {Nothing, <<>>}, before : FieldValues \cup {Nothing}]
StoredFiles == [disk : Settings!Contents \cup {Missing}, temp : Settings!TempStates, next : FieldValues \cup {Nothing},
                told : {"none", "ok", "failed"}]

InWriting(t) == call[t].at = "writing"

FileTypes ==
  /\ runs \in BOOLEAN /\ state \in FieldValues /\ said \in FieldValues
  /\ call \in [Settings!Threads -> Calls] /\ settings_file \in StoredFiles

(* A call is made in a process that runs, and the lock has one holder. *)
CallsAreMade ==
  /\ \A t \in Settings!Threads : call[t].at # "idle" => runs
  /\ \A t \in Settings!Threads :
       call[t].at \in {"asked", "writing", "hotkeys"} => call[t].patch \in FieldPatches
  /\ \A t, u \in Settings!Threads : InWriting(t) /\ InWriting(u) => t = u

(* Only the holder of the lock writes, and it writes the patched settings. *)
FileIsWritten ==
  /\ (\A t \in Settings!Threads : ~InWriting(t)) => settings_file.temp = "none" /\ settings_file.told = "none"
  /\ \A t \in Settings!Threads : InWriting(t) =>
       /\ Settings!Fits(call[t].patch) /\ settings_file.next = Settings!ToWrite(t)
       /\ (settings_file.temp = "none") # (settings_file.told = "none")

(* The file is what was told, until it is replaced by what will be told. *)
FileIsTold ==
  /\ settings_file.told # "ok" => Settings!Loaded(settings_file.disk) = said
  /\ settings_file.told = "ok" => settings_file.disk = settings_file.next

MemoryIsTold == runs => state = said

FileInv == FileTypes /\ CallsAreMade /\ FileIsWritten /\ FileIsTold /\ MemoryIsTold

-----------------------------------------------------------------------------
(* deep_merge with a patch that fits gives settings. *)
LEMMA MergedIsSettings ==
  ASSUME Settings!SettingsAssumption, NEW base \in FieldValues, NEW patch \in FieldPatches, Settings!Fits(patch)
  PROVE  Settings!Merged(base, patch) \in FieldValues
<1>1. PICK f \in Settings!Kinds : patch \in [{f} -> Settings!Values \cup {Wrong}]
  BY DEF FieldPatches
<1>2. DOMAIN patch = {f} /\ patch[f] \in Settings!Values
  BY <1>1 DEF Settings!Fits
<1>3. \A g \in Settings!Kinds : (IF g \in DOMAIN patch THEN patch[g] ELSE base[g]) \in Settings!Values
  BY <1>2 DEF FieldValues
<1>4. QED
  BY <1>3 DEF Settings!Merged, FieldValues

(* What is read of a file is settings, whatever is in it. *)
LEMMA LoadedIsSettings ==
  ASSUME NEW json \in Settings!Contents \cup {Missing}
  PROVE  Settings!Loaded(json) \in FieldValues
<1>1. Settings!defaults \in FieldValues
  BY DEF Settings!defaults, FieldValues, Settings!Values
<1>2. QED
  BY <1>1 DEF Settings!Loaded, Settings!Contents, FieldValues

(* What was written of settings is read back. *)
LEMMA SettingsAreReadBack ==
  ASSUME Settings!SettingsAssumption, NEW json \in FieldValues
  PROVE  json \in Settings!Contents /\ Settings!Loaded(json) = json
<1>1. json \in Settings!Contents
  BY DEF FieldValues, Settings!Contents
<1>2. json \notin {Missing, Torn}
  BY <1>1 DEF Settings!SettingsAssumption
<1>3. \A f \in Settings!Kinds : json[f] # Wrong
  BY DEF Settings!SettingsAssumption, FieldValues
<1>4. QED
  BY <1>1, <1>2, <1>3 DEF Settings!Loaded, FieldValues

-----------------------------------------------------------------------------
LEMMA InitHolds == ASSUME Settings!SettingsAssumption, Settings!Init PROVE FileInv
<1>1. Settings!defaults \in FieldValues
  BY DEF Settings!defaults, FieldValues, Settings!Values
<1>2. settings_file = [disk |-> Missing, temp |-> "none", next |-> Nothing, told |-> "none"]
  BY DEF Settings!Init, Settings!Quiet
<1>3. \A t \in Settings!Threads : call[t] = Settings!Free
  BY DEF Settings!Init
<1>4. Settings!Free \in Calls /\ Settings!Free.at = "idle"
  BY DEF Settings!Free, Calls, Settings!Stages
<1>5. FileTypes
  <2>1. settings_file \in StoredFiles
    BY <1>2 DEF StoredFiles, Settings!TempStates
  <2>2. runs \in BOOLEAN /\ state \in FieldValues /\ said \in FieldValues /\ call \in [Settings!Threads -> Calls]
    BY <1>1, <1>4 DEF Settings!Init
  <2>3. QED
    BY <2>1, <2>2 DEF FileTypes
<1>6. CallsAreMade /\ FileIsWritten
  BY <1>2, <1>3, <1>4 DEF CallsAreMade, FileIsWritten, InWriting
<1>7. FileIsTold /\ MemoryIsTold
  BY <1>2 DEF Settings!Init, FileIsTold, MemoryIsTold, Settings!Loaded
<1>8. QED
  BY <1>5, <1>6, <1>7 DEF FileInv

(* A step that leaves the settings, the file and the holder of the lock. *)
LEMMA OtherwiseKept ==
  ASSUME FileInv, runs' = runs, state' = state, settings_file' = settings_file, said' = said,
         call' \in [Settings!Threads -> Calls],
         \A t \in Settings!Threads : /\ (call'[t].at = "writing") <=> InWriting(t)
                                     /\ InWriting(t) => call'[t].patch = call[t].patch
                                     /\ call'[t].at # "idle" => runs
                                     /\ call'[t].at \in {"asked", "writing", "hotkeys"} => call'[t].patch \in FieldPatches
  PROVE  FileInv'
<1>1. FileTypes'
  BY DEF FileInv, FileTypes
<1>2. CallsAreMade'
  BY DEF FileInv, CallsAreMade, InWriting
<1>3. FileIsWritten'
  BY DEF FileInv, FileIsWritten, Settings!ToWrite, InWriting
<1>4. (FileIsTold /\ MemoryIsTold)'
  BY DEF FileInv, FileIsTold, MemoryIsTold
<1>5. QED
  BY <1>1, <1>2, <1>3, <1>4 DEF FileInv

(* A new call waits for the lock. *)
LEMMA CallsHold ==
  ASSUME Settings!SettingsAssumption, FileInv, Settings!HostSets \/ Settings!CaptureSets PROVE FileInv'
<1>1. CASE Settings!HostSets
  <2>1. PICK f \in Settings!Kinds \ {"last_region"}, v \in Settings!Values \cup {Wrong} :
          /\ runs /\ call["host"].at = "idle"
          /\ call' = [call EXCEPT !["host"] = [at |-> "asked", patch |-> [x \in {f} |-> v], before |-> state]]
          /\ UNCHANGED <<runs, state, settings_file, said>>
    BY <1>1 DEF Settings!HostSets, Settings!Given
  <2>2. [x \in {f} |-> v] \in [{f} -> Settings!Values \cup {Wrong}]
    BY <2>1
  <2>3. [x \in {f} |-> v] \in FieldPatches
    BY <2>2 DEF FieldPatches
  <2>4. [at |-> "asked", patch |-> [x \in {f} |-> v], before |-> state] \in Calls
    BY <2>3 DEF Calls, Settings!Stages, FileInv, FileTypes
  <2>5. QED
    BY <2>1, <2>3, <2>4, OtherwiseKept DEF FileInv, FileTypes, CallsAreMade, InWriting, Settings!Threads
<1>2. CASE Settings!CaptureSets
  <2>1. PICK v \in Settings!Values :
          /\ runs /\ call["capture"].at = "idle"
          /\ call' = [call EXCEPT !["capture"] =
                         [at |-> "asked", patch |-> [x \in {"last_region"} |-> v], before |-> Nothing]]
          /\ UNCHANGED <<runs, state, settings_file, said>>
    BY <1>2 DEF Settings!CaptureSets
  <2>2. [x \in {"last_region"} |-> v] \in FieldPatches
    BY <2>1 DEF FieldPatches, Settings!Kinds
  <2>3. [at |-> "asked", patch |-> [x \in {"last_region"} |-> v], before |-> Nothing] \in Calls
    BY <2>2 DEF Calls, Settings!Stages
  <2>4. QED
    BY <2>1, <2>2, <2>3, OtherwiseKept DEF FileInv, FileTypes, CallsAreMade, InWriting, Settings!Threads
<1>3. QED
  BY <1>1, <1>2

(* What is applied after a change, and what a field of the page does to the  *)
(* hotkeys, leaves the settings alone.                                       *)
LEMMA EffectsHold ==
  ASSUME Settings!SettingsAssumption, FileInv,
         \/ Settings!RegistersHotkeys \/ Settings!Unregister \/ Settings!Look \/ Settings!Grab
         \/ Settings!SetRunKey \/ Settings!ClearApproved \/ Settings!ChangeLanguage \/ Settings!StartOrStopWatcher
         \/ Settings!Suspend \/ Settings!UnregisterAll \/ Settings!Blur \/ Settings!Disabled
  PROVE  FileInv'
<1> DEFINE Applied == Settings!Stages \ {"asked", "writing", "hotkeys"}
<1>1. UNCHANGED <<runs, state, settings_file, said>>
  BY DEF Settings!RegistersHotkeys, Settings!Unregister, Settings!Look, Settings!Grab, Settings!SetRunKey,
         Settings!ClearApproved, Settings!ChangeLanguage, Settings!StartOrStopWatcher, Settings!Suspend,
         Settings!UnregisterAll, Settings!Blur, Settings!Disabled, Settings!Kept, Settings!processVars
<1>2. CASE UNCHANGED call
  BY <1>1, <1>2, OtherwiseKept DEF FileInv, FileTypes, CallsAreMade, InWriting
<1>3. CASE \E stage \in Applied : Settings!Goes(stage) /\ call["host"].at \in Settings!Stages \ {"idle", "asked", "writing"}
  <2>1. PICK stage \in Applied :
          Settings!Goes(stage) /\ call["host"].at \in Settings!Stages \ {"idle", "asked", "writing"}
    BY <1>3
  <2>2. call' = [call EXCEPT !["host"] = IF stage = "idle" THEN Settings!Free ELSE [call["host"] EXCEPT !.at = stage]]
    BY <2>1 DEF Settings!Goes
  <2>3. call["host"] \in Calls /\ Settings!Free \in Calls
    BY DEF FileInv, FileTypes, Settings!Threads, Settings!Free, Calls, Settings!Stages
  <2>4. [call["host"] EXCEPT !.at = stage] \in Calls
    BY <2>1, <2>3 DEF Calls
  <2>5. call["host"].at # "writing" /\ call'["host"].at = stage
    BY <2>1, <2>2, <2>3 DEF FileInv, FileTypes, Settings!Threads, Settings!Free, Calls
  <2>6. call' \in [Settings!Threads -> Calls]
    BY <2>2, <2>3, <2>4 DEF FileInv, FileTypes, Settings!Threads
  <2>7. call'["capture"] = call["capture"]
    BY <2>2 DEF FileInv, FileTypes, Settings!Threads
  <2>8. runs
    BY <2>1 DEF FileInv, CallsAreMade, Settings!Threads
  <2>9. QED
    BY <1>1, <2>1, <2>5, <2>6, <2>7, <2>8, OtherwiseKept DEF FileInv, CallsAreMade, InWriting, Settings!Threads
<1>4. UNCHANGED call \/ \E stage \in Applied : Settings!Goes(stage) /\ call["host"].at \in Settings!Stages \ {"idle", "asked", "writing"}
  BY DEF Settings!RegistersHotkeys, Settings!Unregister, Settings!Look, Settings!Grab, Settings!AfterRegistering,
         Settings!SetRunKey, Settings!ClearApproved, Settings!ChangeLanguage, Settings!StartOrStopWatcher,
         Settings!Suspend, Settings!UnregisterAll, Settings!Blur, Settings!Disabled, Settings!Fails, Settings!At,
         Settings!Stages
<1>5. QED
  BY <1>2, <1>3, <1>4

(* A resume is a job of the worker's that patches nothing. *)
LEMMA ResumeHolds ==
  ASSUME Settings!SettingsAssumption, FileInv, Settings!Resume PROVE FileInv'
<1> DEFINE job == [at |-> "unregister", patch |-> <<>>, before |-> state]
<1>1. /\ runs /\ call["host"].at = "idle" /\ call' = [call EXCEPT !["host"] = job]
      /\ UNCHANGED <<runs, state, settings_file, said>>
  BY DEF Settings!Resume, Settings!At, Settings!Kept, Settings!processVars
<1>2. job \in Calls
  BY DEF Calls, Settings!Stages, FileInv, FileTypes
<1>3. call' \in [Settings!Threads -> Calls]
  BY <1>1, <1>2 DEF FileInv, FileTypes
<1>4. call'["host"].at = "unregister" /\ call'["capture"] = call["capture"]
  BY <1>1 DEF FileInv, FileTypes, Settings!Threads
<1>5. QED
  BY <1>1, <1>3, <1>4, OtherwiseKept DEF FileInv, CallsAreMade, InWriting, Settings!Threads

(* What fits is handed to the file, under the lock. *)
LEMMA TakesHolds ==
  ASSUME Settings!SettingsAssumption, FileInv, NEW t \in Settings!Threads, Settings!Takes(t) PROVE FileInv'
<1>1. /\ runs /\ call[t].at = "asked" /\ \A u \in Settings!Threads : ~InWriting(u)
      /\ runs' = runs /\ state' = state /\ said' = said
  BY DEF Settings!Takes, InWriting, Settings!processVars
<1>2. call[t] \in Calls /\ call[t].patch \in FieldPatches /\ Settings!Free \in Calls /\ Settings!Free.at = "idle"
  BY <1>1 DEF FileInv, FileTypes, CallsAreMade, Settings!Free, Calls, Settings!Stages
<1>3. CASE ~Settings!Fits(call[t].patch)
  <2>1. settings_file' = settings_file /\ call' = [call EXCEPT ![t] = Settings!Free]
    BY <1>3 DEF Settings!Takes
  <2>2. call' \in [Settings!Threads -> Calls]
    BY <1>2, <2>1 DEF FileInv, FileTypes
  <2>3. \A u \in Settings!Threads : call'[u] = IF u = t THEN Settings!Free ELSE call[u]
    BY <2>1 DEF FileInv, FileTypes
  <2>4. QED
    BY <1>1, <1>2, <2>1, <2>2, <2>3, OtherwiseKept DEF FileInv, CallsAreMade, InWriting
<1>4. CASE Settings!Fits(call[t].patch)
  <2>1. settings_file' = Settings!Asked(settings_file, Settings!ToWrite(t)) /\ call' = [call EXCEPT ![t].at = "writing"]
    BY <1>4 DEF Settings!Takes
  <2>2. Settings!ToWrite(t) \in FieldValues
    BY <1>2, <1>4, MergedIsSettings DEF Settings!ToWrite, FileInv, FileTypes
  <2>3. settings_file.temp = "none" /\ settings_file.told = "none" /\ Settings!Loaded(settings_file.disk) = said
    BY <1>1 DEF FileInv, FileIsWritten, FileIsTold
  <2>4. /\ settings_file' \in StoredFiles /\ settings_file'.temp = "asked" /\ settings_file'.told = "none"
        /\ settings_file'.next = Settings!ToWrite(t) /\ settings_file'.disk = settings_file.disk
    BY <2>1, <2>2, <2>3 DEF Settings!Asked, FileInv, FileTypes, StoredFiles, Settings!TempStates
  <2>5. [call[t] EXCEPT !.at = "writing"] \in Calls
    BY <1>2 DEF Calls, Settings!Stages
  <2>6. call' \in [Settings!Threads -> Calls]
    BY <2>1, <2>5 DEF FileInv, FileTypes
  <2>7. /\ call'[t].at = "writing" /\ call'[t].patch = call[t].patch
        /\ \A u \in Settings!Threads \ {t} : call'[u] = call[u]
    BY <1>2, <2>1 DEF FileInv, FileTypes, Calls
  <2>8. FileTypes'
    BY <1>1, <2>4, <2>6 DEF FileInv, FileTypes
  <2>9. CallsAreMade'
    BY <1>1, <1>2, <2>7 DEF FileInv, CallsAreMade, InWriting
  <2>10. FileIsWritten'
    BY <1>1, <1>4, <2>4, <2>7 DEF FileIsWritten, InWriting, Settings!ToWrite
  <2>11. (FileIsTold /\ MemoryIsTold)'
    BY <1>1, <2>3, <2>4 DEF FileInv, FileIsTold, MemoryIsTold
  <2>12. QED
    BY <2>8, <2>9, <2>10, <2>11 DEF FileInv
<1>5. QED
  BY <1>3, <1>4

(* Until it is renamed the temporary file changes nothing that is read. *)
LEMMA WritesHolds ==
  ASSUME Settings!SettingsAssumption, FileInv, Settings!Writes PROVE FileInv'
<1>1. /\ settings_file' \in Settings!Steps(settings_file)
      /\ runs' = runs /\ state' = state /\ said' = said /\ call' = call
  BY DEF Settings!Writes, Settings!processVars
<1>2. settings_file.temp # "none"
  BY <1>1 DEF Settings!Steps
<1>3. PICK t \in Settings!Threads : InWriting(t)
  BY <1>2 DEF FileInv, FileIsWritten
<1>4. /\ settings_file.next = Settings!ToWrite(t) /\ settings_file.told = "none" /\ Settings!Fits(call[t].patch)
      /\ Settings!Loaded(settings_file.disk) = said
  BY <1>2, <1>3 DEF FileInv, FileIsWritten, FileIsTold
<1>5. Settings!ToWrite(t) \in FieldValues
  BY <1>3, <1>4, MergedIsSettings DEF Settings!ToWrite, FileInv, FileTypes, CallsAreMade, InWriting
<1>6. Settings!ToWrite(t) \in Settings!Contents
  BY <1>5, SettingsAreReadBack
<1>7. settings_file \in StoredFiles
  BY DEF FileInv, FileTypes
<1>8. \/ /\ settings_file'.temp \in Settings!TempStates \ {"none"} /\ settings_file'.told = "none"
         /\ settings_file'.disk = settings_file.disk
      \/ settings_file'.temp = "none" /\ settings_file'.told = "failed" /\ settings_file'.disk = settings_file.disk
      \/ settings_file'.temp = "none" /\ settings_file'.told = "ok" /\ settings_file'.disk = settings_file.next
  BY <1>1, <1>4, <1>7 DEF Settings!Steps, Settings!Failed, Settings!Renamed, StoredFiles, Settings!TempStates
<1>9. settings_file'.next = settings_file.next /\ settings_file' \in StoredFiles
  BY <1>1, <1>4, <1>6, <1>7 DEF Settings!Steps, Settings!Failed, Settings!Renamed, StoredFiles, Settings!TempStates
<1>10. FileTypes'
  BY <1>1, <1>9 DEF FileInv, FileTypes
<1>11. CallsAreMade'
  BY <1>1 DEF FileInv, CallsAreMade, InWriting
<1>12. FileIsWritten'
  <2>1. \A u \in Settings!Threads : InWriting(u) => u = t
    BY <1>3 DEF FileInv, CallsAreMade
  <2>2. (settings_file'.temp = "none") # (settings_file'.told = "none")
    BY <1>8
  <2>3. QED
    BY <1>1, <1>3, <1>4, <1>9, <2>1, <2>2 DEF FileIsWritten, InWriting, Settings!ToWrite
<1>13. (FileIsTold /\ MemoryIsTold)'
  BY <1>1, <1>4, <1>8, <1>9 DEF FileInv, FileIsTold, MemoryIsTold
<1>14. QED
  BY <1>10, <1>11, <1>12, <1>13 DEF FileInv

(* The holder of the lock takes over what the file now has, or nothing. *)
LEMMA DoneHolds ==
  ASSUME Settings!SettingsAssumption, FileInv, NEW t \in Settings!Threads, Settings!Done(t) PROVE FileInv'
<1>1. /\ InWriting(t) /\ settings_file.told # "none" /\ runs' = runs /\ runs
      /\ state' = IF settings_file.told = "ok" THEN Settings!ToWrite(t) ELSE state
      /\ settings_file' = Settings!Quiet(settings_file.disk)
      /\ said' = IF settings_file.told = "ok" THEN Settings!Merged(said, call[t].patch) ELSE said
      /\ call' = [call EXCEPT ![t] = IF settings_file.told = "ok" /\ t = "host"
                                      THEN [call[t] EXCEPT !.at = "hotkeys"] ELSE Settings!Free]
  BY DEF Settings!Done, Settings!Remembers, Settings!Heard, InWriting, Settings!processVars, FileInv, CallsAreMade
<1>2. call[t] \in Calls /\ call[t].patch \in FieldPatches /\ Settings!Free \in Calls /\ Settings!Free.at = "idle"
  BY <1>1 DEF FileInv, FileTypes, CallsAreMade, InWriting, Settings!Free, Calls, Settings!Stages
<1>3. Settings!Fits(call[t].patch) /\ settings_file.next = Settings!ToWrite(t)
  BY <1>1 DEF FileInv, FileIsWritten
<1>4. Settings!ToWrite(t) \in FieldValues /\ state = said /\ Settings!ToWrite(t) = Settings!Merged(said, call[t].patch)
  BY <1>1, <1>2, <1>3, MergedIsSettings DEF Settings!ToWrite, FileInv, FileTypes, MemoryIsTold
<1>5. [call[t] EXCEPT !.at = "hotkeys"] \in Calls
  BY <1>2 DEF Calls, Settings!Stages
<1>6. /\ call' \in [Settings!Threads -> Calls]
      /\ call'[t].at \in {"idle", "hotkeys"}
      /\ call'[t].at # "idle" => call'[t].patch = call[t].patch
      /\ \A u \in Settings!Threads \ {t} : call'[u] = call[u]
  BY <1>1, <1>2, <1>5 DEF FileInv, FileTypes, Calls
<1>7. \A u \in Settings!Threads : call'[u].at # "writing"
  BY <1>1, <1>6 DEF FileInv, CallsAreMade, InWriting
<1>8. /\ settings_file' \in StoredFiles /\ settings_file'.disk = settings_file.disk
      /\ settings_file'.temp = "none" /\ settings_file'.told = "none"
  BY <1>1 DEF Settings!Quiet, FileInv, FileTypes, StoredFiles, Settings!TempStates
<1>9. FileTypes'
  BY <1>1, <1>4, <1>6, <1>8 DEF FileInv, FileTypes
<1>10. CallsAreMade'
  BY <1>1, <1>2, <1>6, <1>7 DEF FileInv, CallsAreMade, InWriting
<1>11. FileIsWritten'
  BY <1>7, <1>8 DEF FileIsWritten, InWriting
<1>12. Settings!Loaded(settings_file.disk) = said'
  BY <1>1, <1>3, <1>4, SettingsAreReadBack DEF FileInv, FileIsTold
<1>13. (FileIsTold /\ MemoryIsTold)'
  BY <1>1, <1>4, <1>8, <1>12 DEF FileIsTold, MemoryIsTold
<1>14. QED
  BY <1>9, <1>10, <1>11, <1>13 DEF FileInv

(* A new process reads what was told. *)
LEMMA StartHolds == ASSUME Settings!SettingsAssumption, FileInv, Settings!Start PROVE FileInv'
<1>1. /\ ~runs /\ runs' = TRUE /\ state' = Settings!Loaded(settings_file.disk)
      /\ settings_file' = settings_file /\ call' = call /\ said' = said
  BY DEF Settings!Start
<1>2. \A t \in Settings!Threads : call[t].at = "idle"
  BY <1>1 DEF FileInv, CallsAreMade
<1>3. settings_file.told = "none" /\ Settings!Loaded(settings_file.disk) = said
  BY <1>2 DEF FileInv, FileIsWritten, FileIsTold, InWriting
<1>4. FileTypes'
  BY <1>1, <1>3 DEF FileInv, FileTypes
<1>5. (CallsAreMade /\ FileIsWritten)'
  BY <1>1, <1>2 DEF FileInv, CallsAreMade, FileIsWritten, InWriting
<1>6. (FileIsTold /\ MemoryIsTold)'
  BY <1>1, <1>3 DEF FileInv, FileIsTold, MemoryIsTold
<1>7. QED
  BY <1>4, <1>5, <1>6 DEF FileInv

(* A process that ends leaves all of a change or nothing of it. *)
LEMMA EndsHolds == ASSUME Settings!SettingsAssumption, FileInv, Settings!Ends PROVE FileInv'
<1> DEFINE writer == {t \in Settings!Threads : call[t].at = "writing"}
           disk == Settings!Loaded(settings_file.disk)
<1>1. /\ runs /\ runs' = FALSE /\ state' = state
      /\ settings_file' = Settings!Quiet(settings_file.disk) /\ call' = [t \in Settings!Threads |-> Settings!Free]
      /\ said' = [f \in Settings!Kinds |->
                    IF \E t \in writer : f \in DOMAIN call[t].patch THEN disk[f] ELSE said[f]]
  BY DEF Settings!Ends, Settings!AfterCrash
<1>2. disk \in FieldValues /\ said \in FieldValues /\ state = said
  <2>1. CASE settings_file.told # "ok"
    BY <1>1, <2>1 DEF FileInv, FileIsTold, MemoryIsTold, FileTypes
  <2>2. CASE settings_file.told = "ok"
    <3>1. PICK t \in Settings!Threads : InWriting(t)
      BY <2>2 DEF FileInv, FileIsWritten
    <3>2. settings_file.disk = Settings!ToWrite(t) /\ Settings!Fits(call[t].patch)
      BY <2>2, <3>1 DEF FileInv, FileIsWritten, FileIsTold
    <3>3. Settings!ToWrite(t) \in FieldValues
      BY <3>1, <3>2, MergedIsSettings DEF Settings!ToWrite, FileInv, FileTypes, CallsAreMade, InWriting
    <3>4. QED
      BY <1>1, <3>2, <3>3, SettingsAreReadBack DEF FileInv, FileTypes, MemoryIsTold
  <2>3. QED
    BY <2>1, <2>2
<1>3. said' = disk
  <2>1. CASE settings_file.told # "ok"
    <3>1. disk = said
      BY <2>1 DEF FileInv, FileIsTold
    <3>2. QED
      BY <1>1, <1>2, <3>1 DEF FieldValues
  <2>2. CASE settings_file.told = "ok"
    <3>1. PICK t \in Settings!Threads : InWriting(t)
      BY <2>2 DEF FileInv, FileIsWritten
    <3>2. writer = {t}
      BY <3>1 DEF FileInv, CallsAreMade, InWriting
    <3>3. settings_file.disk = Settings!Merged(said, call[t].patch) /\ Settings!Fits(call[t].patch)
      BY <1>2, <2>2, <3>1 DEF FileInv, FileIsWritten, FileIsTold, Settings!ToWrite
    <3>4. settings_file.disk \in FieldValues
      BY <3>1, <3>3, MergedIsSettings DEF FileInv, FileTypes, CallsAreMade, InWriting
    <3>5. disk = Settings!Merged(said, call[t].patch)
      BY <3>3, <3>4, SettingsAreReadBack
    <3>6. \A f \in Settings!Kinds : disk[f] = IF f \in DOMAIN call[t].patch THEN disk[f] ELSE said[f]
      BY <3>5 DEF Settings!Merged
    <3>7. QED
      BY <1>1, <1>2, <3>2, <3>6 DEF FieldValues
  <2>3. QED
    BY <2>1, <2>2
<1>4. /\ settings_file' \in StoredFiles /\ settings_file'.disk = settings_file.disk
      /\ settings_file'.temp = "none" /\ settings_file'.told = "none"
  BY <1>1 DEF Settings!Quiet, FileInv, FileTypes, StoredFiles, Settings!TempStates
<1>5. Settings!Free \in Calls /\ \A t \in Settings!Threads : call'[t].at = "idle"
  BY <1>1 DEF Settings!Free, Calls, Settings!Stages
<1>6. FileTypes'
  BY <1>1, <1>2, <1>3, <1>4, <1>5 DEF FileInv, FileTypes
<1>7. (CallsAreMade /\ FileIsWritten)'
  BY <1>4, <1>5 DEF CallsAreMade, FileIsWritten, InWriting
<1>8. (FileIsTold /\ MemoryIsTold)'
  BY <1>1, <1>3, <1>4 DEF FileIsTold, MemoryIsTold
<1>9. QED
  BY <1>6, <1>7, <1>8 DEF FileInv

(* Between two processes somebody writes one field. *)
LEMMA EditedHolds == ASSUME Settings!SettingsAssumption, FileInv, Settings!Edited PROVE FileInv'
<1>1. PICK f \in Settings!Kinds, v \in Settings!Values \cup {Wrong} :
        /\ ~runs /\ settings_file.disk # Missing /\ runs' = runs /\ state' = state /\ call' = call
        /\ settings_file' = [settings_file EXCEPT !.disk[f] = v]
        /\ said' = [said EXCEPT ![f] = IF v = Wrong THEN Settings!defaults[f] ELSE v]
  BY DEF Settings!Edited, Settings!Given
<1>2. /\ settings_file.temp = "none" /\ settings_file.told = "none" /\ Settings!Loaded(settings_file.disk) = said
      /\ \A t \in Settings!Threads : call[t].at = "idle"
  BY <1>1 DEF FileInv, CallsAreMade, FileIsWritten, FileIsTold, InWriting
<1>3. settings_file.disk \in Settings!Contents /\ settings_file \in StoredFiles /\ v \in Settings!Values \cup {Wrong}
  BY <1>1 DEF FileInv, FileTypes, StoredFiles, Settings!Given
<1>4. /\ settings_file'.disk = [settings_file.disk EXCEPT ![f] = v] /\ settings_file'.temp = "none"
      /\ settings_file'.told = "none" /\ settings_file'.next = settings_file.next
  BY <1>1, <1>2, <1>3 DEF StoredFiles
<1>5. settings_file'.disk \in Settings!Contents /\ settings_file' \in StoredFiles
  <2>1. [settings_file.disk EXCEPT ![f] = v] \in Settings!Contents
    BY <1>3 DEF Settings!Contents
  <2>2. settings_file' = [settings_file EXCEPT !.disk = [settings_file.disk EXCEPT ![f] = v]]
    BY <1>1
  <2>3. QED
    BY <1>3, <2>1, <2>2 DEF StoredFiles
<1>6. Settings!defaults \in FieldValues /\ said \in FieldValues
  BY DEF Settings!defaults, FieldValues, Settings!Values, FileInv, FileTypes
<1>7. Settings!Loaded(settings_file'.disk) = said'
  <2>1. \A json \in Settings!Contents : Settings!Loaded(json) = [g \in Settings!Kinds |-> IF json[g] # Wrong THEN json[g] ELSE Settings!defaults[g]]
    BY DEF Settings!Loaded, Settings!Contents, Settings!SettingsAssumption
  <2>2. said = [g \in Settings!Kinds |-> IF settings_file.disk[g] # Wrong THEN settings_file.disk[g] ELSE Settings!defaults[g]]
    BY <1>2, <1>3, <2>1
  <2>3. Settings!Loaded(settings_file'.disk) =
          [g \in Settings!Kinds |-> IF settings_file'.disk[g] # Wrong THEN settings_file'.disk[g] ELSE Settings!defaults[g]]
    BY <1>5, <2>1
  <2>4. \A g \in Settings!Kinds : settings_file'.disk[g] = IF g = f THEN v ELSE settings_file.disk[g]
    BY <1>3, <1>4 DEF Settings!Contents
  <2>5. QED
    BY <1>1, <2>2, <2>3, <2>4
<1>8. said' \in FieldValues
  BY <1>1, <1>3, <1>6 DEF FieldValues
<1>9. FileTypes'
  BY <1>1, <1>5, <1>8 DEF FileInv, FileTypes
<1>10. (CallsAreMade /\ FileIsWritten)'
  BY <1>1, <1>2, <1>4 DEF FileInv, CallsAreMade, FileIsWritten, InWriting
<1>11. (FileIsTold /\ MemoryIsTold)'
  BY <1>1, <1>4, <1>7 DEF FileIsTold, MemoryIsTold
<1>12. QED
  BY <1>9, <1>10, <1>11 DEF FileInv

LEMMA StutterHolds == ASSUME FileInv, UNCHANGED Settings!vars PROVE FileInv'
<1>1. UNCHANGED <<runs, state, settings_file, said, call>>
  BY DEF Settings!vars
<1>2. QED
  BY <1>1, OtherwiseKept DEF FileInv, FileTypes, CallsAreMade, InWriting

-----------------------------------------------------------------------------
(* What the program makes of the settings.  The effects are applied one      *)
(* after another: until its turn has come, each is that of the settings      *)
(* before the change.                                                        *)
HostCall == call["host"]

TurnAt(f) ==
  {"hotkeys"} \cup
  IF f = "hotkeys" THEN {} ELSE Registering \cup {"launch_at_startup"} \cup
  IF f = "launch_at_startup" THEN {} ELSE {"approved", "language"} \cup
  IF f = "language" THEN {} ELSE {"auto_bubble"}

Expected(f) == IF HostCall.at \in TurnAt(f) THEN HostCall.before[f] ELSE state[f]

EffectTypes ==
  /\ field \in {"rests", "suspending", "records"} /\ resumes \in Nat
  /\ suspended \in BOOLEAN /\ approved \in BOOLEAN
  /\ bound \in Settings!Values \cup {Nothing} /\ watching \in Settings!Values /\ language \in Settings!Values
  /\ run_key \in Settings!Values /\ lapsed \subseteq Settings!Effects

(* A capture's thread stores the last region and nothing else; the worker    *)
(* remembers settings that have the effects the program has.                 *)
CallsAreKnown ==
  /\ call["capture"].at \in {"idle", "asked", "writing"}
  /\ call["capture"].at # "idle" => DOMAIN call["capture"].patch = {"last_region"}
  /\ HostCall.at # "idle" => HostCall.before \in FieldValues
  /\ HostCall.at \in {"asked", "writing"} => \A f \in Settings!Effects : HostCall.before[f] = state[f]
  /\ HostCall.at = "approved" => Settings!Changed("launch_at_startup") /\ run_key = state["launch_at_startup"]
  /\ HostCall.at \in Registering /\ DOMAIN HostCall.patch = {} =>
       \A f \in Settings!Effects : HostCall.before[f] = state[f]

(* Once the worker has unregistered the old hotkeys none of them come back;  *)
(* a flag that is up has a resume ahead; and when no field records, nothing  *)
(* is to be resumed and nothing is being registered, they are all there.     *)
KeysFollow ==
  /\ suspended => field # "rests" \/ resumes > 0
  /\ runs => /\ HostCall.at # "unregister" => bound \in {Nothing, Expected("hotkeys")}
             /\ field = "rests" /\ resumes = 0 /\ HostCall.at \notin Registering =>
                  bound = Expected("hotkeys")
WatcherFollows == runs => "auto_bubble" \in lapsed \/ watching = Expected("auto_bubble")
LanguageFollows == runs => "language" \in lapsed \/ language = Expected("language")

(* The start with the system outlives the process: while none runs it is     *)
(* that of the settings the next one will read.                              *)
WouldStart(value) == (run_key = 1 /\ approved) <=> value = 1
StartFollows ==
  \/ "launch_at_startup" \in lapsed \/ HostCall.at = "approved"
  \/ WouldStart(IF runs THEN Expected("launch_at_startup") ELSE said["launch_at_startup"])

EffectInv == EffectTypes /\ CallsAreKnown /\ KeysFollow /\ WatcherFollows /\ LanguageFollows /\ StartFollows

LEMMA HostIsTyped ==
  ASSUME FileInv PROVE HostCall \in Calls /\ call["capture"] \in Calls /\ HostCall.at \in Settings!Stages
  BY DEF FileInv, FileTypes, HostCall, Settings!Threads, Calls

LEMMA EffectsStart == ASSUME Settings!Init PROVE EffectInv
<1>1. call["host"] = Settings!Free /\ call["capture"] = Settings!Free /\ Settings!Free.at = "idle"
  BY DEF Settings!Init, Settings!Threads, Settings!Free
<1>2. EffectTypes /\ CallsAreKnown
  BY <1>1 DEF Settings!Init, EffectTypes, CallsAreKnown, Registering, HostCall, Settings!Values
<1>3. KeysFollow /\ WatcherFollows /\ LanguageFollows
  BY DEF Settings!Init, KeysFollow, Registering, WatcherFollows, LanguageFollows
<1>4. StartFollows
  BY DEF Settings!Init, StartFollows, WouldStart, Settings!defaults, Settings!Kinds, Settings!Effects
<1>5. QED
  BY <1>2, <1>3, <1>4 DEF EffectInv

(* A step that leaves the effects alone, and what is expected of them. *)
LEMMA EffectsStay ==
  ASSUME EffectInv, runs' = runs, UNCHANGED Settings!effectVars, lapsed' = lapsed,
         \A f \in Settings!Effects : Expected(f)' = Expected(f),
         said'["launch_at_startup"] = said["launch_at_startup"] \/ runs,
         HostCall.at = "approved" => HostCall'.at = "approved",
         HostCall'.at = HostCall.at \/ {HostCall.at, HostCall'.at} \cap Registering = {},
         CallsAreKnown'
  PROVE  EffectInv'
<1>1. /\ Expected("hotkeys")' = Expected("hotkeys")
      /\ Expected("auto_bubble")' = Expected("auto_bubble")
      /\ Expected("language")' = Expected("language")
      /\ Expected("launch_at_startup")' = Expected("launch_at_startup")
  BY DEF Settings!Effects
<1>2. EffectTypes'
  BY DEF EffectInv, EffectTypes, Settings!effectVars, Settings!fieldVars
<1>3. KeysFollow' /\ WatcherFollows' /\ LanguageFollows'
  <2>1. KeysFollow'
    <3>1. /\ HostCall'.at = "unregister" <=> HostCall.at = "unregister"
          /\ HostCall'.at \in Registering <=> HostCall.at \in Registering
      BY DEF Registering
    <3>2. QED
      BY <1>1, <3>1 DEF EffectInv, KeysFollow, Registering, Settings!effectVars, Settings!fieldVars
  <2>2. QED
    BY <1>1, <2>1 DEF EffectInv, WatcherFollows, LanguageFollows, Settings!effectVars, Settings!fieldVars
<1>4. StartFollows'
  BY <1>1 DEF EffectInv, StartFollows, WouldStart, Settings!effectVars, Settings!fieldVars
<1>5. QED
  BY <1>2, <1>3, <1>4 DEF EffectInv

LEMMA StagesApart ==
  /\ \A f \in Settings!Effects : TurnAt(f) \cap {"idle", "asked", "writing"} = {}
  /\ \A f \in Settings!Effects : "hotkeys" \in TurnAt(f)
  /\ "launch_at_startup" \notin TurnAt("hotkeys") /\ Registering \cap TurnAt("hotkeys") = {}
  /\ \A f \in Settings!Effects \ {"hotkeys"} : Registering \subseteq TurnAt(f)
  /\ Registering \cap {"idle", "asked", "writing", "hotkeys", "launch_at_startup", "approved", "language",
                        "auto_bubble"} = {}
  /\ \A f \in Settings!Effects \ {"hotkeys"} : "launch_at_startup" \in TurnAt(f)
  /\ \A f \in {"hotkeys", "launch_at_startup"} : {"approved", "language"} \cap TurnAt(f) = {}
  /\ \A f \in {"language", "auto_bubble"} : {"approved", "language"} \subseteq TurnAt(f)
  /\ \A f \in Settings!Effects \ {"auto_bubble"} : "auto_bubble" \notin TurnAt(f)
  /\ "auto_bubble" \in TurnAt("auto_bubble")
  BY DEF TurnAt, Registering, Settings!Effects

(* Setting, and waiting for the lock, changes no effect. *)
LEMMA CallsKeepEffects ==
  ASSUME FileInv, EffectInv, Settings!HostSets \/ Settings!CaptureSets PROVE EffectInv'
<1>1. CASE Settings!HostSets
  <2>1. PICK f \in Settings!Kinds, v \in Settings!Values \cup {Wrong} :
          /\ HostCall.at = "idle"
          /\ call' = [call EXCEPT !["host"] = [at |-> "asked", patch |-> [x \in {f} |-> v], before |-> state]]
          /\ UNCHANGED <<runs, state, Settings!effectVars, said, lapsed>>
    BY <1>1 DEF Settings!HostSets, Settings!Given, HostCall
  <2>2. HostCall'.at = "asked" /\ HostCall'.before = state /\ call'["capture"] = call["capture"]
    BY <2>1 DEF FileInv, FileTypes, Settings!Threads, HostCall
  <2>3. \A e \in Settings!Effects : Expected(e)' = Expected(e)
    BY <2>1, <2>2, StagesApart DEF Expected
  <2>4. CallsAreKnown'
    BY <2>1, <2>2 DEF CallsAreKnown, Registering, EffectInv, FileInv, FileTypes
  <2>5. QED
    BY <2>1, <2>3, <2>4, EffectsStay DEF Registering
<1>2. CASE Settings!CaptureSets
  <2>1. PICK v \in Settings!Values :
          /\ call' = [call EXCEPT !["capture"] =
                         [at |-> "asked", patch |-> [x \in {"last_region"} |-> v], before |-> Nothing]]
          /\ UNCHANGED <<runs, state, Settings!effectVars, said, lapsed>>
    BY <1>2 DEF Settings!CaptureSets
  <2>2. /\ call'["capture"].at = "asked" /\ DOMAIN call'["capture"].patch = {"last_region"}
        /\ HostCall' = HostCall
    BY <2>1 DEF FileInv, FileTypes, Settings!Threads, HostCall
  <2>3. \A e \in Settings!Effects : Expected(e)' = Expected(e)
    BY <2>1, <2>2 DEF Expected
  <2>4. CallsAreKnown'
    BY <2>1, <2>2 DEF CallsAreKnown, Registering, EffectInv, Settings!Changed, HostCall, Settings!effectVars, Settings!fieldVars
  <2>5. QED
    BY <2>1, <2>2, <2>3, <2>4, EffectsStay DEF Registering
<1>3. QED
  BY <1>1, <1>2

LEMMA TakesKeepsEffects ==
  ASSUME FileInv, EffectInv, NEW t \in Settings!Threads, Settings!Takes(t) PROVE EffectInv'
<1>1. /\ call[t].at = "asked"
      /\ \/ call' = [call EXCEPT ![t].at = "writing"]
         \/ call' = [call EXCEPT ![t] = Settings!Free]
      /\ UNCHANGED <<runs, state, Settings!effectVars, said, lapsed>>
  BY DEF Settings!Takes, Settings!processVars
<1>2. /\ call[t] \in Calls /\ \A u \in Settings!Threads \ {t} : call'[u] = call[u]
      /\ call'[t].at \in {"writing", "idle"}
      /\ call'[t].at = "writing" => call'[t].patch = call[t].patch /\ call'[t].before = call[t].before
  BY <1>1 DEF FileInv, FileTypes, Calls, Settings!Free
<1>3. CASE t = "host"
  <2>1. call'["capture"] = call["capture"] /\ HostCall.at = "asked" /\ HostCall'.at \in {"writing", "idle"}
    BY <1>1, <1>2, <1>3 DEF Settings!Threads, HostCall
  <2>2. \A e \in Settings!Effects : Expected(e)' = Expected(e)
    BY <1>1, <2>1, StagesApart DEF Expected
  <2>3. HostCall'.at # "idle" => HostCall'.before = HostCall.before
    BY <1>2, <1>3 DEF HostCall
  <2>4. CallsAreKnown'
    BY <1>1, <2>1, <2>3 DEF CallsAreKnown, Registering, EffectInv
  <2>5. QED
    BY <1>1, <2>1, <2>2, <2>4, EffectsStay DEF Registering
<1>4. CASE t = "capture"
  <2>1. HostCall' = HostCall
    BY <1>2, <1>4 DEF Settings!Threads, HostCall
  <2>2. \A e \in Settings!Effects : Expected(e)' = Expected(e)
    BY <1>1, <2>1 DEF Expected
  <2>3. /\ call'["capture"].at \in {"idle", "writing"}
        /\ call'["capture"].at # "idle" => DOMAIN call'["capture"].patch = {"last_region"}
    BY <1>1, <1>2, <1>4 DEF EffectInv, CallsAreKnown, Registering
  <2>4. CallsAreKnown'
    BY <1>1, <2>1, <2>3 DEF CallsAreKnown, Registering, EffectInv, Settings!Changed, HostCall, Settings!effectVars, Settings!fieldVars
  <2>5. QED
    BY <1>1, <2>1, <2>2, <2>4, EffectsStay DEF Registering
<1>5. QED
  BY <1>3, <1>4 DEF Settings!Threads

LEMMA WritesKeepsEffects == ASSUME EffectInv, Settings!Writes PROVE EffectInv'
<1>1. UNCHANGED <<runs, state, call, Settings!effectVars, said, lapsed>>
  BY DEF Settings!Writes, Settings!processVars
<1>2. \A e \in Settings!Effects : Expected(e)' = Expected(e)
  BY <1>1 DEF Expected, HostCall
<1>3. CallsAreKnown' /\ HostCall' = HostCall
  BY <1>1 DEF EffectInv, CallsAreKnown, Registering, Settings!Changed, HostCall, Settings!effectVars, Settings!fieldVars
<1>4. QED
  BY <1>1, <1>2, <1>3, EffectsStay DEF Registering

(* What is stored takes effect in its turn. *)
LEMMA DoneKeepsEffects ==
  ASSUME FileInv, EffectInv, NEW t \in Settings!Threads, Settings!Done(t) PROVE EffectInv'
<1>1. /\ call[t].at = "writing" /\ runs /\ UNCHANGED <<runs, Settings!effectVars, lapsed>>
      /\ state' = IF settings_file.told = "ok" THEN Settings!Merged(state, call[t].patch) ELSE state
      /\ call' = [call EXCEPT ![t] = IF settings_file.told = "ok" /\ t = "host"
                                      THEN [call[t] EXCEPT !.at = "hotkeys"] ELSE Settings!Free]
  BY DEF Settings!Done, Settings!Remembers, Settings!ToWrite, Settings!processVars, FileInv, CallsAreMade
<1>2. call[t] \in Calls /\ \A u \in Settings!Threads \ {t} : call'[u] = call[u]
  BY <1>1 DEF FileInv, FileTypes
<1>3. CASE t = "host" /\ settings_file.told = "ok"
  <2>1. HostCall'.at = "hotkeys" /\ HostCall'.before = HostCall.before /\ HostCall.at = "writing"
    BY <1>1, <1>2, <1>3 DEF FileInv, FileTypes, Calls, HostCall
  <2>2. call'["capture"] = call["capture"]
    BY <1>2, <1>3 DEF Settings!Threads
  <2>3. \A e \in Settings!Effects : Expected(e)' = Expected(e)
    BY <2>1, StagesApart DEF Expected, EffectInv, CallsAreKnown, Registering
  <2>4. CallsAreKnown'
    BY <2>1, <2>2 DEF EffectInv, CallsAreKnown, Registering
  <2>5. QED
    BY <1>1, <2>1, <2>3, <2>4, EffectsStay DEF Registering
<1>4. CASE t = "host" /\ settings_file.told # "ok"
  <2>1. HostCall'.at = "idle" /\ HostCall.at = "writing" /\ state' = state
    BY <1>1, <1>4 DEF FileInv, FileTypes, Settings!Free, HostCall
  <2>2. call'["capture"] = call["capture"]
    BY <1>2, <1>4 DEF Settings!Threads
  <2>3. \A e \in Settings!Effects : Expected(e)' = Expected(e)
    BY <2>1, StagesApart DEF Expected
  <2>4. CallsAreKnown'
    BY <2>1, <2>2 DEF EffectInv, CallsAreKnown, Registering
  <2>5. QED
    BY <1>1, <2>1, <2>3, <2>4, EffectsStay DEF Registering
<1>5. CASE t = "capture"
  <2>1. HostCall' = HostCall /\ call'["capture"].at = "idle"
    BY <1>1, <1>2, <1>5 DEF FileInv, FileTypes, Settings!Free, Settings!Threads, HostCall
  <2>2. \A f \in Settings!Effects : state'[f] = state[f]
    BY <1>1, <1>5 DEF EffectInv, CallsAreKnown, Registering, Settings!Merged, Settings!Kinds, Settings!Effects
  <2>3. \A e \in Settings!Effects : Expected(e)' = Expected(e)
    BY <2>1, <2>2 DEF Expected
  <2>4. Settings!Changed("launch_at_startup") => Settings!Changed("launch_at_startup")'
    BY <2>1, <2>2 DEF Settings!Changed, HostCall, Settings!Effects
  <2>5. CallsAreKnown'
    BY <1>1, <2>1, <2>2, <2>4 DEF EffectInv, CallsAreKnown, Registering, Settings!effectVars, Settings!fieldVars, Settings!Effects
  <2>6. QED
    BY <1>1, <2>1, <2>3, <2>5, EffectsStay DEF Registering
<1>6. QED
  BY <1>3, <1>4, <1>5 DEF Settings!Threads

LEMMA HostGoes ==
  ASSUME FileInv, NEW stage \in Settings!Stages, Settings!Goes(stage)
  PROVE  /\ HostCall'.at = stage /\ call'["capture"] = call["capture"]
         /\ stage # "idle" => HostCall'.before = HostCall.before /\ HostCall'.patch = HostCall.patch
<1>1. call' = [call EXCEPT !["host"] = IF stage = "idle" THEN Settings!Free ELSE [call["host"] EXCEPT !.at = stage]]
  BY DEF Settings!Goes
<1>2. call \in [Settings!Threads -> Calls] /\ HostCall \in Calls
  BY HostIsTyped DEF FileInv, FileTypes
<1>3. call'["capture"] = call["capture"]
  BY <1>1, <1>2 DEF Settings!Threads
<1>4. CASE stage = "idle"
  BY <1>1, <1>2, <1>3, <1>4 DEF Settings!Threads, HostCall, Settings!Free
<1>5. CASE stage # "idle"
  <2>1. HostCall' = [HostCall EXCEPT !.at = stage]
    BY <1>1, <1>2, <1>5 DEF Settings!Threads, HostCall
  <2>2. QED
    BY <1>2, <1>3, <2>1 DEF Calls
<1>6. QED
  BY <1>4, <1>5

(* A step of the worker's that leaves the settings alone: what is not in its *)
(* turn is expected as before.                                               *)
LEMMA TurnsChange ==
  ASSUME FileInv, EffectInv, runs' = runs, state' = state, NEW stage \in Settings!Stages, Settings!Goes(stage),
         stage \notin {"asked", "writing", "approved"}, HostCall.at # "idle",
         stage \in Registering => HostCall.at \in Registering \cup {"hotkeys"}
  PROVE  /\ CallsAreKnown'
         /\ \A f \in Settings!Effects :
              /\ (HostCall.at \in TurnAt(f) /\ stage \in TurnAt(f)) => Expected(f)' = Expected(f)
              /\ (HostCall.at \notin TurnAt(f) /\ stage \notin TurnAt(f)) => Expected(f)' = Expected(f)
              /\ stage \notin TurnAt(f) => Expected(f)' = state[f]
              /\ (HostCall.at \in TurnAt(f) /\ ~Settings!Changed(f)) => Expected(f) = state[f]
<1>1. /\ HostCall'.at = stage /\ call'["capture"] = call["capture"]
      /\ stage # "idle" => HostCall'.before = HostCall.before /\ HostCall'.patch = HostCall.patch
  BY HostGoes
<1>2. CallsAreKnown'
  <2>1. HostCall.at = "hotkeys" => DOMAIN HostCall.patch # {}
    <3>1. HostCall.at = "hotkeys" => HostCall.patch \in FieldPatches
      BY DEF FileInv, CallsAreMade, Settings!Threads, HostCall
    <3>2. \A patch \in FieldPatches : DOMAIN patch # {}
      BY DEF FieldPatches
    <3>3. QED
      BY <3>1, <3>2
  <2>2. stage \in Registering => stage # "idle"
    BY DEF Registering
  <2>3. QED
    BY <1>1, <2>1, <2>2 DEF EffectInv, CallsAreKnown, Registering
<1>3. \A f \in Settings!Effects : "idle" \notin TurnAt(f)
  BY StagesApart
<1>4. QED
  BY <1>1, <1>2, <1>3 DEF Expected, Settings!Changed, HostCall

(* Hotkeys that have not changed are what is expected of them already. *)
LEMMA RegistersKeepsEffects == ASSUME FileInv, EffectInv, Settings!RegistersHotkeys PROVE EffectInv'
<1> DEFINE stage == IF Settings!Changed("hotkeys") THEN "unregister" ELSE "launch_at_startup"
<1>1. /\ runs /\ runs' = runs /\ state' = state /\ said' = said /\ HostCall.at = "hotkeys"
      /\ Settings!Goes(stage) /\ UNCHANGED Settings!effectVars /\ UNCHANGED lapsed
  BY DEF Settings!RegistersHotkeys, Settings!Kept, Settings!fieldVars, Settings!processVars, Settings!At, HostCall
<1>2. stage \in Settings!Stages /\ stage \notin {"idle", "asked", "writing", "approved"} /\ stage \notin TurnAt("hotkeys")
  BY StagesApart DEF Settings!Stages, Registering
<1>3. /\ CallsAreKnown' /\ HostCall'.at = stage
      /\ \A f \in Settings!Effects \ {"hotkeys"} : Expected(f)' = Expected(f)
      /\ Expected("hotkeys")' = state["hotkeys"]
      /\ ~Settings!Changed("hotkeys") => Expected("hotkeys") = state["hotkeys"]
  <2>1. \A f \in Settings!Effects \ {"hotkeys"} : HostCall.at \in TurnAt(f) /\ stage \in TurnAt(f)
    BY <1>1, StagesApart DEF Registering
  <2>2. QED
    BY <1>1, <1>2, <2>1, TurnsChange, HostGoes, StagesApart DEF Settings!Effects
<1>4. EffectTypes'
  BY <1>1 DEF EffectInv, EffectTypes, Settings!effectVars, Settings!fieldVars
<1>5. KeysFollow'
  <2>1. CASE Settings!Changed("hotkeys")
    BY <1>1, <1>3, <2>1 DEF EffectInv, KeysFollow, Registering, Settings!effectVars, Settings!fieldVars
  <2>2. CASE ~Settings!Changed("hotkeys")
    BY <1>1, <1>3, <2>2 DEF EffectInv, KeysFollow, Registering, Settings!effectVars, Settings!fieldVars
  <2>3. QED
    BY <2>1, <2>2
<1>6. WatcherFollows' /\ LanguageFollows' /\ StartFollows'
  BY <1>1, <1>3 DEF EffectInv, WatcherFollows, LanguageFollows, StartFollows, WouldStart, Settings!Effects,
                    Settings!effectVars, Settings!fieldVars
<1>7. QED
  BY <1>3, <1>4, <1>5, <1>6 DEF EffectInv

(* A step of register_hotkeys leaves none, or those of the settings, and all *)
(* of them if nobody has suspended them.                                     *)
LEMMA RegisteringKeepsEffects ==
  ASSUME FileInv, EffectInv, runs, UNCHANGED <<runs, state, said, field, resumes, suspended>>,
         UNCHANGED <<watching, language, run_key, approved, lapsed>>,
         HostCall.at \in Registering, NEW stage \in Settings!Stages, Settings!Goes(stage),
         stage \in {"look", "grab"} \/ stage = Settings!AfterRegistering,
         bound' \in {Nothing, state["hotkeys"]},
         stage \notin Registering => bound' = state["hotkeys"] \/ suspended
  PROVE  EffectInv'
<1>1. stage \in {"look", "grab", "idle", "launch_at_startup"}
  BY DEF Settings!AfterRegistering
<1>2. /\ CallsAreKnown' /\ HostCall'.at = stage
      /\ Expected("hotkeys")' = state["hotkeys"]
      /\ stage = "idle" => \A f \in Settings!Effects : Expected(f)' = state[f]
  BY <1>1, TurnsChange, HostGoes, StagesApart DEF Settings!Effects, Registering
<1>3. \A f \in Settings!Effects \ {"hotkeys"} : Expected(f)' = Expected(f)
  <2>1. CASE stage = "idle"
    <3>1. DOMAIN HostCall.patch = {}
      BY <2>1 DEF Settings!AfterRegistering, HostCall
    <3>2. \A f \in Settings!Effects : HostCall.before[f] = state[f]
      BY <3>1 DEF EffectInv, CallsAreKnown, Registering
    <3>3. QED
      BY <1>2, <2>1, <3>2 DEF Expected
  <2>2. CASE stage # "idle"
    <3>1. \A f \in Settings!Effects \ {"hotkeys"} : HostCall.at \in TurnAt(f) /\ stage \in TurnAt(f)
      BY <1>1, <2>2, StagesApart DEF Registering
    <3>2. QED
      BY <1>1, <3>1, TurnsChange DEF Registering
  <2>3. QED
    BY <2>1, <2>2
<1>4. state["hotkeys"] \in Settings!Values
  BY DEF FileInv, FileTypes, FieldValues, Settings!Kinds, Settings!Effects
<1>5. EffectTypes'
  BY <1>4 DEF EffectInv, EffectTypes
<1>6. KeysFollow'
  BY <1>1, <1>2 DEF EffectInv, KeysFollow, Registering
<1>7. WatcherFollows' /\ LanguageFollows' /\ StartFollows'
  BY <1>1, <1>2, <1>3 DEF EffectInv, WatcherFollows, LanguageFollows, StartFollows, WouldStart, Settings!Effects,
                          Registering
<1>8. QED
  BY <1>2, <1>5, <1>6, <1>7 DEF EffectInv

LEMMA HotkeysKeepEffects ==
  ASSUME FileInv, EffectInv, Settings!Unregister \/ Settings!Look \/ Settings!Grab PROVE EffectInv'
<1>1. /\ runs /\ UNCHANGED <<runs, state, said, field, resumes, suspended>>
      /\ UNCHANGED <<watching, language, run_key, approved, lapsed>>
  BY DEF Settings!Unregister, Settings!Look, Settings!Grab, Settings!Kept, Settings!processVars, Settings!At,
         Settings!effectVars, Settings!fieldVars
<1>2. {"look", "grab", Settings!AfterRegistering} \subseteq Settings!Stages
      /\ Settings!AfterRegistering \notin Registering
  BY DEF Settings!Stages, Settings!AfterRegistering, Registering
<1>3. CASE Settings!Unregister
  <2>1. HostCall.at = "unregister" /\ Settings!Goes("look") /\ bound' = Nothing
    BY <1>3 DEF Settings!Unregister, Settings!At, HostCall
  <2>2. QED
    BY <1>1, <1>2, <2>1, RegisteringKeepsEffects DEF Registering
<1>4. CASE Settings!Look
  <2>1. /\ HostCall.at = "look" /\ bound' = bound
        /\ Settings!Goes(IF suspended THEN Settings!AfterRegistering ELSE "grab")
    BY <1>4 DEF Settings!Look, Settings!At, HostCall, Settings!effectVars, Settings!fieldVars
  <2>2. bound \in {Nothing, state["hotkeys"]}
    BY <1>1, <2>1, StagesApart DEF EffectInv, KeysFollow, Expected, Registering
  <2>3. CASE suspended
    BY <1>1, <1>2, <2>1, <2>2, <2>3, RegisteringKeepsEffects DEF Registering
  <2>4. CASE ~suspended
    BY <1>1, <1>2, <2>1, <2>2, <2>4, RegisteringKeepsEffects DEF Registering
  <2>5. QED
    BY <2>3, <2>4
<1>5. CASE Settings!Grab
  <2>1. /\ HostCall.at = "grab" /\ bound' = state["hotkeys"] /\ Settings!Goes(Settings!AfterRegistering)
    BY <1>5 DEF Settings!Grab, Settings!At, HostCall
  <2>2. QED
    BY <1>1, <1>2, <2>1, RegisteringKeepsEffects DEF Registering
<1>6. QED
  BY <1>3, <1>4, <1>5

(* A failure leaves what is still to be done as lapsed. *)
LEMMA FailsKeepsEffects ==
  ASSUME FileInv, EffectInv, runs, runs' = runs, state' = state, said' = said, Settings!Fails,
         HostCall.at \in {"launch_at_startup", "approved"},
         UNCHANGED <<field, resumes, suspended, bound, watching, language>>
  PROVE  EffectInv'
<1>1. /\ Settings!Goes("idle") /\ UNCHANGED <<run_key, approved>>
      /\ lapsed' = lapsed \cup {f \in Settings!Effects \ {"hotkeys"} : Settings!Changed(f)}
  BY DEF Settings!Fails
<1>2. "idle" \in Settings!Stages /\ HostCall.at # "idle"
  BY DEF Settings!Stages
<1>3. /\ CallsAreKnown'
      /\ \A f \in Settings!Effects : Expected(f)' = state[f]
      /\ \A f \in Settings!Effects : (HostCall.at \in TurnAt(f) /\ ~Settings!Changed(f)) => Expected(f) = state[f]
  BY <1>1, <1>2, TurnsChange, StagesApart
<1>4. Expected("hotkeys")' = Expected("hotkeys")
  <2>1. HostCall.at \notin TurnAt("hotkeys")
    BY StagesApart DEF Settings!Effects
  <2>2. QED
    BY <1>3, <2>1 DEF Expected, Settings!Effects
<1>5. \A f \in {"language", "auto_bubble"} : f \in lapsed' \/ Expected(f)' = Expected(f)
  <2>1. \A f \in {"language", "auto_bubble"} : HostCall.at \in TurnAt(f)
    BY StagesApart DEF Settings!Effects
  <2>2. QED
    BY <1>1, <1>3, <2>1 DEF Settings!Effects
<1>6. \/ "launch_at_startup" \in lapsed'
      \/ HostCall.at # "approved" /\ Expected("launch_at_startup")' = Expected("launch_at_startup")
  <2>1. HostCall.at = "approved" => Settings!Changed("launch_at_startup")
    BY DEF EffectInv, CallsAreKnown, Registering
  <2>2. HostCall.at # "approved" => HostCall.at \in TurnAt("launch_at_startup")
    BY StagesApart DEF Settings!Effects
  <2>3. QED
    BY <1>1, <1>3, <2>1, <2>2 DEF Settings!Effects
<1>7. EffectTypes' /\ lapsed \subseteq lapsed'
  BY <1>1 DEF EffectInv, EffectTypes
<1>8. KeysFollow' /\ WatcherFollows' /\ LanguageFollows'
  BY <1>4, <1>5, <1>7 DEF EffectInv, KeysFollow, Registering, WatcherFollows, LanguageFollows
<1>9. StartFollows'
  BY <1>1, <1>6, <1>7 DEF EffectInv, StartFollows, WouldStart
<1>10. QED
  BY <1>3, <1>7, <1>8, <1>9 DEF EffectInv

LEMMA SetRunKeyKeepsEffects == ASSUME FileInv, EffectInv, Settings!SetRunKey PROVE EffectInv'
<1>1. /\ runs /\ runs' = runs /\ state' = state /\ said' = said /\ HostCall.at = "launch_at_startup"
      /\ UNCHANGED <<field, resumes, suspended, bound, watching, language>>
  BY DEF Settings!SetRunKey, Settings!Kept, Settings!fieldVars, Settings!processVars, Settings!At, HostCall
<1>2. "approved" \in Settings!Stages
  BY DEF Settings!Stages
<1>3. CASE ~Settings!Changed("launch_at_startup") /\ Settings!Goes("language") /\ UNCHANGED <<run_key, approved, lapsed>>
  <2>1. CallsAreKnown' /\ \A f \in Settings!Effects : Expected(f)' = Expected(f)
    <3>1. "language" \in Settings!Stages
      BY DEF Settings!Stages
    <3>2. /\ CallsAreKnown'
          /\ \A f \in Settings!Effects \ {"launch_at_startup"} : Expected(f)' = Expected(f)
          /\ Expected("launch_at_startup")' = state["launch_at_startup"]
          /\ Expected("launch_at_startup") = state["launch_at_startup"]
      BY <1>1, <1>3, <3>1, TurnsChange, StagesApart DEF Settings!Effects
    <3>3. QED
      BY <3>2
  <2>2. QED
    BY <1>1, <1>3, <2>1, EffectsStay DEF Settings!effectVars, Settings!fieldVars, Registering
<1>4. CASE /\ Settings!Changed("launch_at_startup") /\ Settings!Goes("approved")
           /\ run_key' = state["launch_at_startup"] /\ UNCHANGED <<approved, lapsed>>
  <2>1. /\ HostCall'.at = "approved" /\ call'["capture"] = call["capture"] /\ HostCall'.before = HostCall.before
    BY <1>2, <1>4, HostGoes
  <2>2. \A f \in Settings!Effects \ {"launch_at_startup"} : Expected(f)' = Expected(f)
    BY <1>1, <2>1, StagesApart DEF Expected, Settings!Effects
  <2>3. CallsAreKnown'
    BY <1>1, <1>4, <2>1 DEF EffectInv, CallsAreKnown, Registering, Settings!Changed, HostCall
  <2>4. state["launch_at_startup"] \in Settings!Values
    BY DEF FileInv, FileTypes, FieldValues, Settings!Kinds, Settings!Effects
  <2>5. EffectTypes'
    BY <1>1, <1>4, <2>4 DEF EffectInv, EffectTypes
  <2>6. KeysFollow' /\ WatcherFollows' /\ LanguageFollows' /\ StartFollows'
    BY <1>1, <1>4, <2>1, <2>2 DEF EffectInv, KeysFollow, Registering, WatcherFollows, LanguageFollows, StartFollows, Settings!Effects
  <2>7. QED
    BY <2>3, <2>5, <2>6 DEF EffectInv
<1>5. CASE Settings!Changed("launch_at_startup") /\ Settings!Fails
  BY <1>1, <1>5, FailsKeepsEffects
<1>6. QED
  BY <1>3, <1>4, <1>5 DEF Settings!SetRunKey

LEMMA ClearApprovedKeepsEffects == ASSUME FileInv, EffectInv, Settings!ClearApproved PROVE EffectInv'
<1>1. /\ runs /\ runs' = runs /\ state' = state /\ said' = said /\ HostCall.at = "approved"
      /\ UNCHANGED <<field, resumes, suspended, bound, watching, language>>
  BY DEF Settings!ClearApproved, Settings!Kept, Settings!fieldVars, Settings!processVars, Settings!At, HostCall
<1>2. CASE Settings!Clears /\ Settings!Goes("language") /\ lapsed' = lapsed \ {"launch_at_startup"} /\ UNCHANGED run_key
  <2>1. "language" \in Settings!Stages
    BY DEF Settings!Stages
  <2>2. CallsAreKnown' /\ \A f \in Settings!Effects : Expected(f)' = Expected(f)
    BY <1>1, <1>2, <2>1, TurnsChange, StagesApart DEF Settings!Effects
  <2>3. Expected("launch_at_startup")' = state["launch_at_startup"]
    BY <1>1, <1>2, <2>1, TurnsChange, StagesApart DEF Settings!Effects
  <2>4. run_key' = state["launch_at_startup"] /\ approved' = TRUE
    BY <1>1, <1>2 DEF EffectInv, CallsAreKnown, Registering, Settings!Clears
  <2>5. EffectTypes'
    BY <1>1, <1>2, <2>4 DEF EffectInv, EffectTypes
  <2>6. KeysFollow'
    BY <1>1, <2>2 DEF EffectInv, KeysFollow, Registering, Settings!Effects
  <2>7. WatcherFollows' /\ LanguageFollows'
    BY <1>1, <1>2, <2>2 DEF EffectInv, WatcherFollows, LanguageFollows, Settings!Effects
  <2>8. StartFollows'
    BY <1>1, <2>3, <2>4 DEF StartFollows, WouldStart
  <2>9. QED
    BY <2>2, <2>5, <2>6, <2>7, <2>8 DEF EffectInv
<1>3. CASE Settings!Fails
  BY <1>1, <1>3, FailsKeepsEffects
<1>4. QED
  BY <1>2, <1>3 DEF Settings!ClearApproved

LEMMA ChangeLanguageKeepsEffects == ASSUME FileInv, EffectInv, Settings!ChangeLanguage PROVE EffectInv'
<1>1. /\ runs /\ runs' = runs /\ state' = state /\ said' = said /\ HostCall.at = "language"
      /\ Settings!Goes("auto_bubble") /\ UNCHANGED <<field, resumes, suspended, bound, watching, run_key, approved>>
      /\ \/ Settings!Changed("language") /\ language' = state["language"] /\ lapsed' = lapsed \ {"language"}
         \/ ~Settings!Changed("language") /\ UNCHANGED <<language, lapsed>>
  BY DEF Settings!ChangeLanguage, Settings!Kept, Settings!fieldVars, Settings!processVars, Settings!At, HostCall
<1>2. "auto_bubble" \in Settings!Stages
  BY DEF Settings!Stages
<1>3. /\ CallsAreKnown' /\ HostCall'.at = "auto_bubble"
      /\ \A f \in Settings!Effects \ {"language"} : Expected(f)' = Expected(f)
      /\ Expected("language")' = state["language"]
      /\ ~Settings!Changed("language") => Expected("language") = state["language"]
  BY <1>1, <1>2, TurnsChange, HostGoes, StagesApart DEF Settings!Effects
<1>4. state["language"] \in Settings!Values
  BY DEF FileInv, FileTypes, FieldValues, Settings!Kinds, Settings!Effects
<1>5. EffectTypes'
  BY <1>1, <1>4 DEF EffectInv, EffectTypes
<1>6. KeysFollow' /\ WatcherFollows'
  BY <1>1, <1>3 DEF EffectInv, KeysFollow, Registering, WatcherFollows, Settings!Effects
<1>7. LanguageFollows'
  BY <1>1, <1>3 DEF EffectInv, LanguageFollows
<1>8. StartFollows'
  BY <1>1, <1>3 DEF EffectInv, StartFollows, WouldStart, Settings!Effects
<1>9. QED
  BY <1>3, <1>5, <1>6, <1>7, <1>8 DEF EffectInv

LEMMA WatcherKeepsEffects == ASSUME FileInv, EffectInv, Settings!StartOrStopWatcher PROVE EffectInv'
<1>1. /\ runs /\ runs' = runs /\ state' = state /\ said' = said /\ HostCall.at = "auto_bubble"
      /\ Settings!Goes("idle") /\ UNCHANGED <<field, resumes, suspended, bound, language, run_key, approved>>
      /\ \/ /\ Settings!Changed("auto_bubble") /\ watching' = state["auto_bubble"]
            /\ lapsed' = lapsed \ {"auto_bubble"}
         \/ ~Settings!Changed("auto_bubble") /\ UNCHANGED <<watching, lapsed>>
  BY DEF Settings!StartOrStopWatcher, Settings!Kept, Settings!fieldVars, Settings!processVars, Settings!At, HostCall
<1>2. "idle" \in Settings!Stages
  BY DEF Settings!Stages
<1>3. /\ CallsAreKnown' /\ HostCall'.at = "idle"
      /\ \A f \in Settings!Effects \ {"auto_bubble"} : Expected(f)' = Expected(f)
      /\ Expected("auto_bubble")' = state["auto_bubble"]
      /\ ~Settings!Changed("auto_bubble") => Expected("auto_bubble") = state["auto_bubble"]
  BY <1>1, <1>2, TurnsChange, HostGoes, StagesApart DEF Settings!Effects
<1>4. state["auto_bubble"] \in Settings!Values
  BY DEF FileInv, FileTypes, FieldValues, Settings!Kinds, Settings!Effects
<1>5. EffectTypes'
  BY <1>1, <1>4 DEF EffectInv, EffectTypes
<1>6. KeysFollow' /\ LanguageFollows'
  BY <1>1, <1>3 DEF EffectInv, KeysFollow, Registering, LanguageFollows, Settings!Effects
<1>7. WatcherFollows'
  BY <1>1, <1>3 DEF EffectInv, WatcherFollows
<1>8. StartFollows'
  BY <1>1, <1>3 DEF EffectInv, StartFollows, WouldStart, Settings!Effects
<1>9. QED
  BY <1>3, <1>5, <1>6, <1>7, <1>8 DEF EffectInv

(* What the page's field does to the hotkeys, it does without the worker. *)
LEMMA SuspendingKeepsEffects ==
  ASSUME FileInv, EffectInv, Settings!Suspend \/ Settings!UnregisterAll \/ Settings!Blur PROVE EffectInv'
<1>1. /\ runs /\ UNCHANGED <<runs, state, said, call, watching, language, run_key, approved, lapsed>>
      /\ \/ field' = "suspending" /\ suspended' = TRUE /\ resumes' = resumes /\ bound' = bound
         \/ field' = "records" /\ suspended' = suspended /\ resumes' = resumes /\ bound' = Nothing
         \/ field' = "rests" /\ suspended' = suspended /\ resumes' = resumes + 1 /\ bound' = bound
  BY DEF Settings!Suspend, Settings!UnregisterAll, Settings!Blur, Settings!Kept, Settings!processVars
<1>2. (\A f \in Settings!Effects : Expected(f)' = Expected(f)) /\ HostCall' = HostCall
  BY <1>1 DEF Expected, HostCall
<1>3. CallsAreKnown'
  BY <1>1 DEF EffectInv, CallsAreKnown, Registering, Settings!Changed, HostCall
<1>4. EffectTypes' /\ (resumes' = resumes + 1 => resumes' > 0)
  <2>1. resumes \in Nat
    BY DEF EffectInv, EffectTypes
  <2>2. resumes' \in Nat /\ (resumes' = resumes + 1 => resumes' > 0)
    BY <1>1, <2>1
  <2>3. suspended' \in BOOLEAN /\ field' \in {"rests", "suspending", "records"}
    BY <1>1 DEF EffectInv, EffectTypes
  <2>4. QED
    BY <1>1, <2>2, <2>3 DEF EffectInv, EffectTypes
<1>5. KeysFollow'
  BY <1>1, <1>2, <1>4 DEF EffectInv, KeysFollow, Registering, Settings!Effects
<1>6. WatcherFollows' /\ LanguageFollows'
  BY <1>1, <1>2 DEF EffectInv, WatcherFollows, LanguageFollows, Settings!Effects
<1>7. StartFollows'
  BY <1>1, <1>2 DEF EffectInv, StartFollows, WouldStart, Settings!Effects
<1>8. QED
  BY <1>3, <1>4, <1>5, <1>6, <1>7 DEF EffectInv

(* The worker comes to a resume with the settings it has. *)
LEMMA ResumeKeepsEffects == ASSUME FileInv, EffectInv, Settings!Resume PROVE EffectInv'
<1>1. /\ runs /\ runs' = runs /\ state' = state /\ said' = said /\ HostCall.at = "idle"
      /\ resumes > 0 /\ resumes' = resumes - 1 /\ suspended' = FALSE
      /\ call' = [call EXCEPT !["host"] = [at |-> "unregister", patch |-> <<>>, before |-> state]]
      /\ UNCHANGED <<field, bound, watching, language, run_key, approved, lapsed>>
  BY DEF Settings!Resume, Settings!Kept, Settings!fieldVars, Settings!processVars, Settings!At, HostCall
<1>2. /\ HostCall'.at = "unregister" /\ HostCall'.before = state /\ call'["capture"] = call["capture"]
  BY <1>1 DEF FileInv, FileTypes, Settings!Threads, HostCall
<1>3. \A f \in Settings!Effects : Expected(f)' = Expected(f)
  BY <1>1, <1>2, StagesApart DEF Expected
<1>4. CallsAreKnown'
  BY <1>1, <1>2 DEF EffectInv, CallsAreKnown, Registering, FileInv, FileTypes
<1>5. EffectTypes'
  <2>1. resumes \in Nat
    BY DEF EffectInv, EffectTypes
  <2>2. resumes' \in Nat
    BY <1>1, <2>1
  <2>3. QED
    BY <1>1, <2>2 DEF EffectInv, EffectTypes
<1>6. KeysFollow'
  BY <1>1, <1>2 DEF KeysFollow, Registering
<1>7. WatcherFollows' /\ LanguageFollows' /\ StartFollows'
  BY <1>1, <1>2, <1>3 DEF EffectInv, WatcherFollows, LanguageFollows, StartFollows, WouldStart, Settings!Effects
<1>8. QED
  BY <1>4, <1>5, <1>6, <1>7 DEF EffectInv

(* What the user does in the Task Manager has its way. *)
LEMMA DisabledKeepsEffects == ASSUME EffectInv, Settings!Disabled PROVE EffectInv'
<1>1. /\ runs' = runs /\ state' = state /\ said' = said /\ call' = call /\ approved' = FALSE
      /\ lapsed' = lapsed \cup {"launch_at_startup"}
      /\ UNCHANGED <<field, resumes, suspended, bound, watching, language, run_key>>
  BY DEF Settings!Disabled, Settings!fieldVars, Settings!Kept, Settings!processVars
<1>2. \A f \in Settings!Effects : Expected(f)' = Expected(f)
  BY <1>1 DEF Expected, HostCall
<1>3. CallsAreKnown'
  BY <1>1 DEF EffectInv, CallsAreKnown, Registering, Settings!Changed, HostCall
<1>4. EffectTypes'
  BY <1>1 DEF EffectInv, EffectTypes, Settings!Effects
<1>5. KeysFollow' /\ WatcherFollows' /\ LanguageFollows'
  <2>1. KeysFollow'
    BY <1>1, <1>2 DEF EffectInv, KeysFollow, Registering, Settings!Effects, HostCall
  <2>2. QED
    BY <1>1, <1>2, <2>1 DEF EffectInv, WatcherFollows, LanguageFollows, Settings!Effects
<1>6. StartFollows'
  BY <1>1 DEF StartFollows
<1>7. QED
  BY <1>3, <1>4, <1>5, <1>6 DEF EffectInv

(* A start applies all of the settings but the start with the system. *)
LEMMA StartKeepsEffects == ASSUME FileInv, FileInv', EffectInv, Settings!Start PROVE EffectInv'
<1>1. /\ ~runs /\ runs' = TRUE /\ state' = Settings!Loaded(settings_file.disk) /\ call' = call /\ said' = said
      /\ UNCHANGED <<field, resumes, suspended>> /\ bound' = state'["hotkeys"]
      /\ watching' = state'["auto_bubble"] /\ language' = state'["language"]
      /\ lapsed' = lapsed \cap {"launch_at_startup"}
      /\ UNCHANGED <<run_key, approved>>
  BY DEF Settings!Start, Settings!fieldVars
<1>2. HostCall.at = "idle" /\ call["capture"].at = "idle" /\ HostCall' = HostCall
  BY <1>1 DEF FileInv, CallsAreMade, Settings!Threads, HostCall
<1>3. \A f \in Settings!Effects : Expected(f)' = state'[f] /\ state'[f] \in Settings!Values
  BY <1>2, StagesApart DEF Expected, FileInv, FileTypes, FieldValues, Settings!Kinds
<1>4. state' = said
  BY <1>1 DEF FileInv, MemoryIsTold
<1>5. CallsAreKnown'
  BY <1>1, <1>2 DEF CallsAreKnown, Registering, HostCall
<1>6. EffectTypes'
  BY <1>1, <1>3 DEF EffectInv, EffectTypes, Settings!Effects
<1>7. KeysFollow' /\ WatcherFollows' /\ LanguageFollows'
  <2>1. KeysFollow'
    <3>1. bound' = Expected("hotkeys")'
      BY <1>1, <1>3 DEF Settings!Effects
    <3>2. QED
      BY <1>1, <3>1 DEF EffectInv, KeysFollow
  <2>2. QED
    BY <1>1, <1>3, <2>1 DEF WatcherFollows, LanguageFollows, Settings!Effects
<1>8. StartFollows'
  BY <1>1, <1>2, <1>3, <1>4 DEF EffectInv, StartFollows, WouldStart, Settings!Effects
<1>9. QED
  BY <1>5, <1>6, <1>7, <1>8 DEF EffectInv

(* An end that cuts off the start with the system, or what was to be made of *)
(* a setting the file already has, is counted as lapsed.                     *)
LEMMA EndsKeepsEffects == ASSUME FileInv, FileInv', EffectInv, Settings!Ends PROVE EffectInv'
<1> DEFINE writer == {t \in Settings!Threads : call[t].at = "writing"}
           disk == Settings!Loaded(settings_file.disk)
           due == IF HostCall.at = "writing" THEN {f \in DOMAIN HostCall.patch : disk[f] # state[f]}
                  ELSE IF HostCall.at \in {"idle", "asked"} THEN {}
                  ELSE {f \in Settings!Effects : Settings!Changed(f)}
<1>1. /\ runs /\ runs' = FALSE /\ state' = state
      /\ settings_file' = Settings!Quiet(settings_file.disk) /\ call' = [t \in Settings!Threads |-> Settings!Free]
      /\ said' = [f \in Settings!Kinds |->
                    IF \E t \in writer : f \in DOMAIN call[t].patch THEN disk[f] ELSE said[f]]
      /\ lapsed' = lapsed \cup (due \cap {"launch_at_startup"})
      /\ bound' = Nothing /\ watching' = 0
      /\ field' = "rests" /\ resumes' = 0 /\ suspended' = FALSE
      /\ UNCHANGED <<language, run_key, approved>>
  BY DEF Settings!Ends, Settings!AfterCrash, HostCall
<1>2. state = said /\ said \in FieldValues /\ "launch_at_startup" \in Settings!Kinds
  BY <1>1 DEF FileInv, FileTypes, MemoryIsTold, Settings!Kinds, Settings!Effects
<1>3. HostCall'.at = "idle" /\ call'["capture"].at = "idle"
  BY <1>1 DEF Settings!Threads, HostCall, Settings!Free
<1>4. CallsAreKnown'
  BY <1>3 DEF CallsAreKnown, Registering
<1>5. EffectTypes'
  <2>1. lapsed' \subseteq Settings!Effects
    BY <1>1 DEF EffectInv, EffectTypes, Settings!Effects
  <2>2. QED
    BY <1>1, <2>1 DEF EffectInv, EffectTypes, Settings!Values
<1>6. KeysFollow' /\ WatcherFollows' /\ LanguageFollows'
  BY <1>1 DEF KeysFollow, Registering, WatcherFollows, LanguageFollows
<1>7. \/ "launch_at_startup" \in lapsed'
      \/ /\ HostCall.at # "approved"
         /\ said'["launch_at_startup"] = Expected("launch_at_startup")
  <2>1. CASE HostCall.at = "writing"
    <3>1. Expected("launch_at_startup") = state["launch_at_startup"]
      BY <2>1, StagesApart DEF Expected, Settings!Effects
    <3>2. said'["launch_at_startup"] =
            IF \E t \in writer : "launch_at_startup" \in DOMAIN call[t].patch
            THEN disk["launch_at_startup"] ELSE said["launch_at_startup"]
      BY <1>1, <1>2
    <3>3. \A t \in writer : "launch_at_startup" \in DOMAIN call[t].patch => t = "host"
      BY DEF EffectInv, CallsAreKnown, Registering, Settings!Threads
    <3>4. CASE \E t \in writer : "launch_at_startup" \in DOMAIN call[t].patch
      <4>1. "launch_at_startup" \in DOMAIN HostCall.patch
        BY <3>3, <3>4 DEF HostCall
      <4>2. disk["launch_at_startup"] # state["launch_at_startup"] => "launch_at_startup" \in due
        BY <2>1, <4>1
      <4>3. QED
        BY <1>1, <2>1, <3>1, <3>2, <3>4, <4>2
    <3>5. CASE ~\E t \in writer : "launch_at_startup" \in DOMAIN call[t].patch
      BY <1>2, <2>1, <3>1, <3>2, <3>5
    <3>6. QED
      BY <3>4, <3>5
  <2>2. CASE HostCall.at # "writing"
    <3>1. \A t \in writer : "launch_at_startup" \notin DOMAIN call[t].patch
      BY <2>2 DEF EffectInv, CallsAreKnown, Registering, Settings!Threads, HostCall
    <3>2. said'["launch_at_startup"] = state["launch_at_startup"]
      BY <1>1, <1>2, <3>1
    <3>3. CASE HostCall.at \in {"idle", "asked"}
      BY <3>2, <3>3, StagesApart DEF Expected, Settings!Effects
    <3>4. CASE HostCall.at \notin {"idle", "asked"}
      <4>1. due = {f \in Settings!Effects : Settings!Changed(f)}
        BY <2>2, <3>4
      <4>2. CASE Settings!Changed("launch_at_startup")
        BY <1>1, <4>1, <4>2 DEF Settings!Effects
      <4>3. CASE ~Settings!Changed("launch_at_startup")
        BY <3>2, <4>3 DEF Expected, Settings!Changed, HostCall, EffectInv, CallsAreKnown, Registering
      <4>4. QED
        BY <4>2, <4>3
    <3>5. QED
      BY <3>3, <3>4
  <2>3. QED
    BY <2>1, <2>2
<1>8. StartFollows'
  BY <1>1, <1>7 DEF EffectInv, StartFollows, WouldStart
<1>9. QED
  BY <1>4, <1>5, <1>6, <1>8 DEF EffectInv

LEMMA EditedKeepsEffects == ASSUME FileInv, EffectInv, Settings!Edited PROVE EffectInv'
<1>1. PICK f \in Settings!Kinds, v \in Settings!Values \cup {Wrong} :
        /\ ~runs /\ UNCHANGED <<runs, state, call, Settings!effectVars>>
        /\ said' = [said EXCEPT ![f] = IF v = Wrong THEN Settings!defaults[f] ELSE v]
        /\ lapsed' = lapsed \cup ({f} \cap {"launch_at_startup"})
  BY DEF Settings!Edited, Settings!Given
<1>2. CallsAreKnown'
  BY <1>1 DEF EffectInv, CallsAreKnown, Registering, Settings!Changed, HostCall, Settings!effectVars, Settings!fieldVars
<1>3. lapsed' \subseteq Settings!Effects
  BY <1>1 DEF EffectInv, EffectTypes, Settings!Effects
<1>4. EffectTypes'
  BY <1>1, <1>3 DEF EffectInv, EffectTypes, Settings!effectVars, Settings!fieldVars
<1>5. KeysFollow' /\ WatcherFollows' /\ LanguageFollows'
  BY <1>1 DEF EffectInv, KeysFollow, WatcherFollows, LanguageFollows, Settings!effectVars, Settings!fieldVars
<1>6. "launch_at_startup" \in lapsed' \/ said'["launch_at_startup"] = said["launch_at_startup"]
  <2>1. f # "launch_at_startup" => said'["launch_at_startup"] = said["launch_at_startup"]
    BY <1>1
  <2>2. f = "launch_at_startup" => "launch_at_startup" \in lapsed'
    BY <1>1
  <2>3. QED
    BY <2>1, <2>2
<1>7. StartFollows'
  <2>1. /\ ~runs /\ ~runs' /\ HostCall' = HostCall /\ run_key' = run_key /\ approved' = approved
        /\ lapsed \subseteq lapsed'
    BY <1>1 DEF HostCall, Settings!effectVars, Settings!fieldVars
  <2>2. "launch_at_startup" \in lapsed \/ HostCall.at = "approved" \/ WouldStart(said["launch_at_startup"])
    BY <2>1 DEF EffectInv, StartFollows
  <2>3. QED
    BY <1>6, <2>1, <2>2 DEF StartFollows, WouldStart
<1>8. QED
  BY <1>2, <1>4, <1>5, <1>7 DEF EffectInv

SettingsInv == FileInv /\ EffectInv

LEMMA SettingsStart == ASSUME Settings!SettingsAssumption, Settings!Init PROVE SettingsInv
  BY InitHolds, EffectsStart DEF SettingsInv

LEMMA SettingsStep ==
  ASSUME Settings!SettingsAssumption, SettingsInv, Settings!Next PROVE SettingsInv'
<1> USE DEF SettingsInv
<1>1. CASE Settings!Start
  BY <1>1, StartHolds, StartKeepsEffects
<1>2. CASE Settings!HostSets \/ Settings!CaptureSets
  BY <1>2, CallsHold, CallsKeepEffects
<1>3. CASE Settings!Writes
  BY <1>3, WritesHolds, WritesKeepsEffects
<1>4. CASE \E t \in Settings!Threads : Settings!Takes(t)
  BY <1>4, TakesHolds, TakesKeepsEffects
<1>5. CASE \E t \in Settings!Threads : Settings!Done(t)
  BY <1>5, DoneHolds, DoneKeepsEffects
<1>6. CASE \/ Settings!RegistersHotkeys \/ Settings!Unregister \/ Settings!Look \/ Settings!Grab
           \/ Settings!SetRunKey \/ Settings!ClearApproved \/ Settings!ChangeLanguage
           \/ Settings!StartOrStopWatcher
           \/ Settings!Suspend \/ Settings!UnregisterAll \/ Settings!Blur \/ Settings!Disabled
  <2>1. FileInv'
    BY <1>6, EffectsHold
  <2>2. EffectInv'
    BY <1>6, RegistersKeepsEffects, HotkeysKeepEffects, SetRunKeyKeepsEffects, ClearApprovedKeepsEffects,
       ChangeLanguageKeepsEffects, WatcherKeepsEffects, SuspendingKeepsEffects, DisabledKeepsEffects
  <2>3. QED
    BY <2>1, <2>2
<1>7. CASE Settings!Ends
  BY <1>7, EndsHolds, EndsKeepsEffects
<1>8. CASE Settings!Edited
  BY <1>8, EditedHolds, EditedKeepsEffects
<1>9. CASE Settings!Resume
  BY <1>9, ResumeHolds, ResumeKeepsEffects
<1>10. QED
  BY <1>1, <1>2, <1>3, <1>4, <1>5, <1>6, <1>7, <1>8, <1>9 DEF Settings!Next

LEMMA SettingsStutter == ASSUME SettingsInv, UNCHANGED settingsVars PROVE SettingsInv'
<1> USE DEF SettingsInv
<1>1. FileInv'
  <2>1. UNCHANGED Settings!vars
    BY DEF settingsVars, Settings!vars
  <2> QED BY <2>1, StutterHolds
<1>2. UNCHANGED <<runs, state, call, Settings!effectVars, said, lapsed>>
  BY DEF settingsVars, Settings!effectVars, Settings!fieldVars
<1>3. \A e \in Settings!Effects : Expected(e)' = Expected(e)
  BY <1>2 DEF Expected, HostCall
<1>4. CallsAreKnown' /\ HostCall' = HostCall
  BY <1>2 DEF EffectInv, CallsAreKnown, Registering, Settings!Changed, HostCall, Settings!effectVars, Settings!fieldVars
<1>5. EffectInv'
  BY <1>2, <1>3, <1>4, EffectsStay DEF Registering
<1>6. QED
  BY <1>1, <1>5

LEMMA SettingsAreKept ==
  ASSUME SettingsInv PROVE Settings!TypeOK /\ Settings!StoredAsTold /\ Settings!SettingsHaveEffect
<1> USE DEF SettingsInv
<1>1. Settings!TypeOK
  BY HostIsTyped DEF FileInv, EffectInv, FileTypes, EffectTypes, FieldValues, Settings!TypeOK, Settings!Threads, Calls
<1>2. Settings!StoredAsTold
  BY DEF FileInv, MemoryIsTold, FileIsWritten, FileIsTold, InWriting, Settings!StoredAsTold
<1>3. Settings!SettingsHaveEffect
  <2> SUFFICES ASSUME Settings!At("idle") PROVE Settings!SettingsHaveEffect
    BY DEF Settings!SettingsHaveEffect
  <2>1. runs /\ HostCall.at = "idle"
    BY DEF Settings!At, HostCall
  <2>2. \A f \in Settings!Effects : Expected(f) = state[f]
    BY <2>1, StagesApart DEF Expected
  <2>3. /\ bound \in {Nothing, state["hotkeys"]}
        /\ field = "rests" /\ resumes = 0 => bound = state["hotkeys"]
    BY <2>1, <2>2 DEF EffectInv, KeysFollow, Registering, Settings!Effects
  <2>4. /\ "auto_bubble" \in lapsed \/ watching = state["auto_bubble"]
        /\ "language" \in lapsed \/ language = state["language"]
    BY <2>1, <2>2 DEF EffectInv, WatcherFollows, LanguageFollows, Settings!Effects
  <2>5. "launch_at_startup" \in lapsed \/ WouldStart(state["launch_at_startup"])
    BY <2>1, <2>2 DEF EffectInv, StartFollows, Settings!Effects
  <2>6. QED
    BY <2>3, <2>4, <2>5 DEF Settings!SettingsHaveEffect, WouldStart
<1>4. QED
  BY <1>1, <1>2, <1>3

-----------------------------------------------------------------------------
(* The parts together: each leaves the others' variables alone. *)

LEMMA InstancesStutter == ASSUME InstancesInv, UNCHANGED instanceVars PROVE InstancesInv'
<1>1. /\ pc' = pc /\ holders' = holders /\ pipe' = pipe /\ to_server' = to_server
      /\ to_client' = to_client /\ heard' = heard /\ excused' = excused
  BY DEF instanceVars
<1>2. Instances!TypeOK'
  BY <1>1 DEF InstancesInv, Instances!TypeOK
<1>3. (OneOwner /\ PipeFits)'
  BY <1>1 DEF InstancesInv, OneOwner, PipeFits
<1>4. ClientsFit'
  BY <1>1 DEF InstancesInv, ClientsFit, ClientFits
<1> QED BY <1>2, <1>3, <1>4 DEF InstancesInv

LEMMA KeyboardStutter == ASSUME KeyboardInv, UNCHANGED keyboardVars PROVE KeyboardInv'
<1>1. /\ commands' = commands /\ messages' = messages /\ bindings' = bindings /\ work' = work
      /\ at' = at /\ caller' = caller /\ fired' = fired
  BY DEF keyboardVars
<1>2. KeyTypes'
  BY <1>1 DEF KeyboardInv, KeyTypes
<1>3. Members(messages') = Members(messages) /\ \A m : Bound(m)' <=> Bound(m)
  BY <1>1 DEF Bound
<1>4. PressesAreBound' /\ NumbersAreNew'
  BY <1>1, <1>3 DEF KeyboardInv, PressesAreBound, NumbersAreNew
<1>5. Keyboard!PressesMeanWhatTheyMeant'
  BY <1>1 DEF KeyboardInv, Keyboard!PressesMeanWhatTheyMeant
<1> QED BY <1>2, <1>4, <1>5 DEF KeyboardInv

LEMMA McpStutter == ASSUME McpInv, UNCHANGED mcpVars PROVE McpInv'
<1>1. /\ mcp' = mcp /\ changes' = changes /\ restarts' = restarts /\ slot' = slot /\ servers' = servers
      /\ listening' = listening /\ overlapped' = overlapped /\ refused' = refused
  BY DEF mcpVars
<1>2. McpTypes'
  BY <1>1 DEF McpInv, McpTypes, TaskFits
<1>3. Mcp!Running' = Mcp!Running /\ \A t : Mcp!Under(t)' <=> Mcp!Under(t)
  BY <1>1 DEF Mcp!Running, Mcp!Under
<1>4. (Settled' <=> Settled) /\ (Silent' <=> Silent) /\ (OneTask' <=> OneTask) /\ (OneServer' <=> OneServer)
  BY <1>1, <1>3 DEF Settled, Silent, OneTask, OneServer
<1>5. ASSUME NEW t \in DOMAIN restarts, StageFits(t) PROVE StageFits(t)'
  BY <1>1, <1>3, <1>4, <1>5 DEF StageFits
<1>6. AtRest => AtRest'
  BY <1>1, <1>3, <1>4 DEF AtRest
<1>7. Calm => Calm'
  BY <1>1, <1>3, <1>4, <1>5, <1>6 DEF Calm
<1> QED BY <1>1, <1>2, <1>7 DEF McpInv

-----------------------------------------------------------------------------
(* The history (history.rs, storage.rs) *)

(* What holds of 0 and of each successor holds of every number. *)
LEMMA Induct ==
  ASSUME NEW S, 0 \in S, \A n \in Nat : n \in S => n + 1 \in S
  PROVE  Nat \subseteq S
<1> DEFINE Less == {p \in Nat \X Nat : p[1] < p[2]}
           Rest == Nat \ S
<1>1. IsWellFoundedOn(Less, Nat)
  BY NatLessThanWellFounded DEF OpToRel
<1>2. SUFFICES ASSUME Rest # {} PROVE FALSE
  OBVIOUS
<1>3. PICK n \in Rest : \A m \in Rest : <<m, n>> \notin Less
  <2> HIDE DEF Less
  <2> QED BY <1>1, <1>2, WFMin
<1>4. n # 0 /\ n - 1 \in Nat /\ n - 1 < n
  BY <1>3
<1>5. n - 1 \in Rest
  BY <1>4, <1>3
<1> QED BY <1>3, <1>4, <1>5

-----------------------------------------------------------------------------
(* What is left of a list (history.rs, the filters of its items). *)

(* f[n] is what is left of the first n entries. *)
IsSoFar(l, S, f) ==
  f = [n \in 0 .. Len(l) |-> IF n = 0 THEN <<>>
                             ELSE IF l[n] \in S THEN Append(f[n - 1], l[n]) ELSE f[n - 1]]

LEMMA SoFarExists ==
  ASSUME NEW l, Len(l) \in Nat, NEW S
  PROVE  \E f : IsSoFar(l, S, f)
<1> DEFINE Value(f, n) == IF n = 0 THEN <<>> ELSE IF l[n] \in S THEN Append(f[n - 1], l[n]) ELSE f[n - 1]
           Good(k) == \E f : f = [n \in 0 .. k |-> f[n]] /\ \A n \in 0 .. k : f[n] = Value(f, n)
           G == {k \in Nat : Good(k)}
<1>1. 0 \in G
  <2> DEFINE g == [n \in 0 .. 0 |-> <<>>]
  <2>1. g = [n \in 0 .. 0 |-> g[n]]
    OBVIOUS
  <2>2. \A n \in 0 .. 0 : g[n] = Value(g, n)
    OBVIOUS
  <2>3. Good(0)
    <3> HIDE DEF g, Value
    <3> QED BY <2>1, <2>2
  <2> QED BY <2>3
<1>2. ASSUME NEW k \in Nat, k \in G PROVE k + 1 \in G
  <2>1. PICK f : f = [n \in 0 .. k |-> f[n]] /\ \A n \in 0 .. k : f[n] = Value(f, n)
    BY <1>2
  <2> DEFINE g == [n \in 0 .. k + 1 |-> IF n = k + 1 THEN (IF l[k + 1] \in S THEN Append(f[k], l[k + 1]) ELSE f[k])
                                        ELSE f[n]]
  <2>2. g = [n \in 0 .. k + 1 |-> g[n]]
    OBVIOUS
  <2>3. ASSUME NEW n \in 0 .. k + 1 PROVE g[n] = Value(g, n)
    <3>1. CASE n = k + 1
      BY <3>1
    <3>2. CASE n # k + 1
      <4>1. n \in 0 .. k /\ g[n] = f[n] /\ f[n] = Value(f, n)
        BY <3>2, <2>1
      <4>2. n # 0 => n - 1 \in 0 .. k + 1 /\ n - 1 # k + 1 /\ g[n - 1] = f[n - 1]
        BY <3>2
      <4> QED BY <4>1, <4>2
    <3> QED BY <3>1, <3>2
  <2>4. Good(k + 1)
    <3> HIDE DEF g, Value
    <3> QED BY <2>2, <2>3
  <2> HIDE DEF Good
  <2> QED BY <2>4
<1>3. Good(Len(l))
  <2>2. Nat \subseteq G
    <3> HIDE DEF G
    <3> QED BY <1>1, <1>2, Induct
  <2> HIDE DEF Good
  <2> QED BY <2>2
<1>4. PICK f : f = [n \in 0 .. Len(l) |-> f[n]] /\ \A n \in 0 .. Len(l) : f[n] = Value(f, n)
  BY <1>3
<1>5. f = [n \in 0 .. Len(l) |-> Value(f, n)]
  <2> HIDE DEF Value
  <2> QED BY <1>4
<1> QED BY <1>5 DEF IsSoFar

(* The first n entries of l leave q. *)
Leaves(l, S, n, q) ==
  /\ q \in Seq(S) /\ Len(q) <= n
  /\ \E spot \in [1 .. Len(q) -> {k \in 1 .. n : l[k] \in S}] :
       /\ \A i, j \in 1 .. Len(q) : i < j => spot[i] < spot[j]
       /\ \A k \in 1 .. n : l[k] \in S => \E i \in 1 .. Len(q) : spot[i] = k
       /\ \A i \in 1 .. Len(q) : q[i] = l[spot[i]]
  /\ (\A k \in 1 .. n : l[k] \in S) => Len(q) = n /\ \A k \in 1 .. n : q[k] = l[k]

LEMMA LeavesNone == ASSUME NEW l, NEW S, NEW q, q = <<>> PROVE Leaves(l, S, 0, q)
<1>1. q \in Seq(S) /\ Len(q) = 0
  OBVIOUS
<1>2. 1 .. Len(q) = {} /\ 1 .. 0 = {}
  BY <1>1
<1> DEFINE spot == [i \in {} |-> 1]
<1>3. spot \in [{} -> {k \in {} : l[k] \in S}]
  OBVIOUS
<1> HIDE DEF spot
<1>4. \E f \in [1 .. Len(q) -> {k \in 1 .. 0 : l[k] \in S}] :
       /\ \A i, j \in 1 .. Len(q) : i < j => f[i] < f[j]
       /\ \A k \in 1 .. 0 : l[k] \in S => \E i \in 1 .. Len(q) : f[i] = k
       /\ \A i \in 1 .. Len(q) : q[i] = l[f[i]]
  BY <1>2, <1>3
<1>5. (\A k \in 1 .. 0 : l[k] \in S) => Len(q) = 0 /\ \A k \in 1 .. 0 : q[k] = l[k]
  BY <1>1, <1>2
<1>6. Len(q) <= 0
  BY <1>1
<1> QED BY <1>1, <1>4, <1>5, <1>6, Zenon DEF Leaves

LEMMA LeavesMore ==
  ASSUME NEW l, NEW S, NEW n \in Nat, NEW q, Leaves(l, S, n, q), l[n + 1] \in S
  PROVE  Leaves(l, S, n + 1, Append(q, l[n + 1]))
<1> DEFINE r == Append(q, l[n + 1])
           m == Len(q)
<1>1. q \in Seq(S) /\ m \in Nat /\ m <= n
  BY DEF Leaves
<1>2. r \in Seq(S) /\ Len(r) = m + 1 /\ r[m + 1] = l[n + 1] /\ \A i \in 1 .. m : r[i] = q[i]
  BY <1>1, AppendProperties
<1>3. PICK spot \in [1 .. m -> {k \in 1 .. n : l[k] \in S}] :
       /\ \A i, j \in 1 .. m : i < j => spot[i] < spot[j]
       /\ \A k \in 1 .. n : l[k] \in S => \E i \in 1 .. m : spot[i] = k
       /\ \A i \in 1 .. m : q[i] = l[spot[i]]
  BY DEF Leaves
<1> DEFINE to == [i \in 1 .. m + 1 |-> IF i = m + 1 THEN n + 1 ELSE spot[i]]
<1> HIDE DEF r, m
<1>4. /\ to \in [1 .. m + 1 -> {k \in 1 .. n + 1 : l[k] \in S}]
      /\ to[m + 1] = n + 1 /\ \A i \in 1 .. m : to[i] = spot[i] /\ spot[i] \in 1 .. n
  BY <1>1, <1>3
<1> HIDE DEF to
<1>5. \A i, j \in 1 .. m + 1 : i < j => to[i] < to[j]
  <2> SUFFICES ASSUME NEW i \in 1 .. m + 1, NEW j \in 1 .. m + 1, i < j PROVE to[i] < to[j]
    OBVIOUS
  <2>1. i \in 1 .. m
    BY <1>1
  <2>2. CASE j = m + 1
    BY <2>1, <2>2, <1>1, <1>4
  <2>3. CASE j \in 1 .. m
    BY <2>1, <2>3, <1>3, <1>4
  <2> QED BY <2>2, <2>3, <1>1
<1>6. ASSUME NEW k \in 1 .. n + 1, l[k] \in S PROVE \E i \in 1 .. m + 1 : to[i] = k
  <2>1. CASE k = n + 1
    BY <2>1, <1>1, <1>4
  <2>2. CASE k \in 1 .. n
    <3>1. PICK i \in 1 .. m : spot[i] = k
      BY <2>2, <1>3, <1>6
    <3> QED BY <3>1, <1>1, <1>4
  <2> QED BY <2>1, <2>2
<1>7. ASSUME NEW i \in 1 .. m + 1 PROVE r[i] = l[to[i]]
  <2>1. CASE i = m + 1
    BY <2>1, <1>2, <1>4
  <2>2. CASE i \in 1 .. m
    BY <2>2, <1>2, <1>3, <1>4
  <2> QED BY <2>1, <2>2, <1>1
<1>8. ASSUME \A k \in 1 .. n + 1 : l[k] \in S PROVE m + 1 = n + 1 /\ \A k \in 1 .. n + 1 : r[k] = l[k]
  <2>1. \A k \in 1 .. n : l[k] \in S
    BY <1>8
  <2>2. m = n /\ \A k \in 1 .. n : q[k] = l[k]
    BY <2>1 DEF Leaves, m
  <2>3. \A k \in 1 .. n + 1 : k \in 1 .. n \/ k = n + 1
    OBVIOUS
  <2> QED BY <2>2, <2>3, <1>2
<1>9. Len(r) <= n + 1
  BY <1>1, <1>2
<1>10. \E f \in [1 .. Len(r) -> {k \in 1 .. n + 1 : l[k] \in S}] :
        /\ \A i, j \in 1 .. Len(r) : i < j => f[i] < f[j]
        /\ \A k \in 1 .. n + 1 : l[k] \in S => \E i \in 1 .. Len(r) : f[i] = k
        /\ \A i \in 1 .. Len(r) : r[i] = l[f[i]]
  BY <1>2, <1>4, <1>5, <1>6, <1>7
<1>11. Leaves(l, S, n + 1, r)
  BY <1>2, <1>8, <1>9, <1>10 DEF Leaves
<1> QED BY <1>11 DEF r

LEMMA LeavesNoMore ==
  ASSUME NEW l, NEW S, NEW n \in Nat, NEW q, Leaves(l, S, n, q), l[n + 1] \notin S
  PROVE  Leaves(l, S, n + 1, q)
<1> DEFINE m == Len(q)
<1>1. q \in Seq(S) /\ m \in Nat /\ m <= n
  BY DEF Leaves
<1>3. PICK spot \in [1 .. m -> {k \in 1 .. n : l[k] \in S}] :
       /\ \A i, j \in 1 .. m : i < j => spot[i] < spot[j]
       /\ \A k \in 1 .. n : l[k] \in S => \E i \in 1 .. m : spot[i] = k
       /\ \A i \in 1 .. m : q[i] = l[spot[i]]
  BY DEF Leaves
<1>4. {k \in 1 .. n + 1 : l[k] \in S} = {k \in 1 .. n : l[k] \in S}
  <2>1. \A k \in 1 .. n + 1 : k \in 1 .. n \/ k = n + 1
    OBVIOUS
  <2> QED BY <2>1
<1>5. \A k \in 1 .. n + 1 : l[k] \in S => k \in 1 .. n
  <2>1. \A k \in 1 .. n + 1 : k \in 1 .. n \/ k = n + 1
    OBVIOUS
  <2> QED BY <2>1
<1>6. \A k \in 1 .. n + 1 : l[k] \in S => \E i \in 1 .. m : spot[i] = k
  BY <1>3, <1>5
<1>7. ~ \A k \in 1 .. n + 1 : l[k] \in S
  BY n + 1 \in 1 .. n + 1
<1>8. m <= n + 1
  BY <1>1
<1> QED BY <1>1, <1>3, <1>4, <1>6, <1>7, <1>8 DEF Leaves

LEMMA OnlyLeaves ==
  ASSUME NEW l, Len(l) \in Nat, NEW S
  PROVE  Leaves(l, S, Len(l), History!Only(l, S))
<1> DEFINE f == CHOOSE g : IsSoFar(l, S, g)
<1>1. History!Only(l, S) = f[Len(l)]
  BY Zenon DEF History!Only, IsSoFar
<1>2. IsSoFar(l, S, f)
  BY SoFarExists
<1> HIDE DEF f
<1>3. \A n \in 0 .. Len(l) : f[n] = IF n = 0 THEN <<>> ELSE IF l[n] \in S THEN Append(f[n - 1], l[n]) ELSE f[n - 1]
  BY <1>2, Zenon DEF IsSoFar
<1> DEFINE G == {n \in Nat : n <= Len(l) => Leaves(l, S, n, f[n])}
<1>4. 0 \in G
  <2>1. f[0] = <<>>
    BY <1>3
  <2> QED BY <2>1, <1>3, LeavesNone
<1>5. ASSUME NEW n \in Nat, n \in G PROVE n + 1 \in G
  <2>1. SUFFICES ASSUME n + 1 <= Len(l) PROVE Leaves(l, S, n + 1, f[n + 1])
    OBVIOUS
  <2>2. n + 1 \in 0 .. Len(l) /\ n + 1 # 0 /\ n + 1 - 1 = n
    BY <2>1
  <2>3. Leaves(l, S, n, f[n])
    BY <1>5, <2>1
  <2>4. CASE l[n + 1] \in S
    BY <2>2, <2>3, <2>4, <1>3, LeavesMore
  <2>5. CASE l[n + 1] \notin S
    BY <2>2, <2>3, <2>5, <1>3, LeavesNoMore
  <2> QED BY <2>4, <2>5
<1>6. Nat \subseteq G
  <2> HIDE DEF G
  <2> QED BY <1>4, <1>5, Induct
<1> QED BY <1>1, <1>6

-----------------------------------------------------------------------------
(* The history's lists. *)

Lists == {l \in Seq(History!Entry) : /\ Len(l) <= MaxItems
                                     /\ \A i, j \in 1 .. Len(l) : l[i].id = l[j].id => i = j}

LEMMA ListType ==
  ASSUME NEW l \in Lists
  PROVE  /\ l \in Seq(History!Entry) /\ Len(l) \in Nat /\ DOMAIN l = 1 .. Len(l) /\ Len(l) <= MaxItems
         /\ \A k \in 1 .. Len(l) : l[k] \in History!Entry
<1>1. l \in Seq(History!Entry) /\ Len(l) <= MaxItems
  BY DEF Lists
<1> QED BY <1>1, LenProperties, ElementOfSeq

LEMMA ListIsStored ==
  ASSUME History!HistoryAssumption, NEW l \in Lists
  PROVE  l \in History!StoredLists /\ l \notin {Missing, Torn}
<1>1. Len(l) \in 0 .. MaxItems + 1
  BY ListType DEF History!HistoryAssumption
<1>2. l \in [1 .. Len(l) -> History!Entry \cup {History!Odd}]
  <2> DEFINE E == History!Entry
             F == E \cup {History!Odd}
  <2>1. l \in Seq(E)
    BY ListType
  <2> HIDE DEF E
  <2>2. l \in [1 .. Len(l) -> E]
    BY <2>1
  <2>3. \A T, U : T \subseteq U /\ l \in [1 .. Len(l) -> T] => l \in [1 .. Len(l) -> U]
    OBVIOUS
  <2>4. E \subseteq F
    OBVIOUS
  <2> HIDE DEF F
  <2>5. l \in [1 .. Len(l) -> F]
    BY <2>2, <2>3, <2>4
  <2> QED BY <2>5, Zenon DEF F, E
<1>3. l \in History!StoredLists
  BY <1>1, <1>2, Zenon DEF History!StoredLists
<1> QED BY <1>3, Zenon DEF History!HistoryAssumption

(* What is left of a list is one, in its order. *)
LEMMA OnlyIsPart ==
  ASSUME NEW l \in Lists, NEW S \in SUBSET History!Entry
  PROVE  /\ History!Only(l, S) \in Lists
         /\ History!Disk!IsPart(l, {k \in DOMAIN l : l[k] \in S}, History!Only(l, S))
<1> DEFINE q == History!Only(l, S)
<1>1. Leaves(l, S, Len(l), q)
  BY ListType, OnlyLeaves
<1> HIDE DEF q
<1>2. q \in Seq(S) /\ Len(q) <= Len(l) /\ Len(q) \in Nat /\ DOMAIN q = 1 .. Len(q) /\ Len(q) <= MaxItems
  <2>1. q \in Seq(S) /\ Len(q) <= Len(l)
    BY <1>1 DEF Leaves
  <2>2. Len(q) \in Nat /\ DOMAIN q = 1 .. Len(q)
    BY <2>1, LenProperties
  <2>3. MaxItems \in Nat
    BY ServicesAssumption DEF ServicesAssumption, History!HistoryAssumption
  <2> QED BY <2>1, <2>2, <2>3, ListType
<1>3. PICK spot \in [1 .. Len(q) -> {k \in 1 .. Len(l) : l[k] \in S}] :
       /\ \A i, j \in 1 .. Len(q) : i < j => spot[i] < spot[j]
       /\ \A k \in 1 .. Len(l) : l[k] \in S => \E i \in 1 .. Len(q) : spot[i] = k
       /\ \A i \in 1 .. Len(q) : q[i] = l[spot[i]]
  BY <1>1 DEF Leaves
<1>4. History!Disk!IsPart(l, {k \in DOMAIN l : l[k] \in S}, q)
  <2>1. DOMAIN l = 1 .. Len(l)
    BY ListType
  <2> QED BY <1>2, <1>3, <2>1 DEF History!Disk!IsPart
<1>5. \A i, j \in 1 .. Len(q) : q[i].id = q[j].id => i = j
  <2> SUFFICES ASSUME NEW i \in 1 .. Len(q), NEW j \in 1 .. Len(q), q[i].id = q[j].id PROVE i = j
    OBVIOUS
  <2>1. spot[i] \in 1 .. Len(l) /\ spot[j] \in 1 .. Len(l) /\ q[i] = l[spot[i]] /\ q[j] = l[spot[j]]
    BY <1>3
  <2>2. spot[i] = spot[j]
    BY <2>1 DEF Lists
  <2>3. ~ (i < j) /\ ~ (j < i)
    BY <1>3, <2>1, <2>2
  <2> QED BY <2>3
<1>6. q \in Seq(History!Entry)
  BY <1>2
<1>7. q \in Lists
  BY <1>2, <1>5, <1>6 DEF Lists
<1> QED BY <1>4, <1>7 DEF q

LEMMA OnlyIsWhole ==
  ASSUME NEW l \in Lists, NEW S, \A k \in 1 .. Len(l) : l[k] \in S
  PROVE  History!Only(l, S) = l
<1> DEFINE q == History!Only(l, S)
<1>1. Leaves(l, S, Len(l), q)
  BY ListType, OnlyLeaves
<1> HIDE DEF q
<1>2. q \in Seq(S) /\ Len(q) = Len(l) /\ \A k \in 1 .. Len(l) : q[k] = l[k]
  BY <1>1 DEF Leaves
<1>3. l \in Seq(History!Entry)
  BY ListType
<1>4. q = l
  BY <1>2, <1>3, SeqEqual
<1> QED BY <1>4 DEF q

LEMMA WrittenIsLoaded ==
  ASSUME NEW l \in Lists, NEW f, f.disk = l
  PROVE  History!Loaded(f) = l
<1>1. l \notin {Missing, Torn}
  BY ListIsStored, ServicesAssumption DEF ServicesAssumption
<1>2. History!Only(l, History!Entry) = l
  BY ListType, OnlyIsWhole
<1> QED BY <1>1, <1>2 DEF History!Loaded, History!Readable, History!Stored

(* The five ways in which a list changes. *)
Changes(l, n) ==
  \/ \E e \in History!Entry : e.id \notin History!Disk!Ids(l) /\ n = History!Disk!Shortened(<<e>> \o l)
  \/ \E k \in DOMAIN l : History!Disk!IsPart(l, DOMAIN l \ {k}, n)
  \/ \E k \in DOMAIN l, e \in History!Entry : e.id = l[k].id /\ n = [l EXCEPT ![k] = e]
  \/ \E gone \in SUBSET Files : History!Disk!IsPart(l, {k \in DOMAIN l : l[k].file \notin gone}, n)
  \/ n = <<>>

LEMMA NoneIsList == ASSUME NEW l PROVE <<>> \in Lists /\ Changes(l, <<>>)
<1>1. \A S : <<>> \in Seq(S)
  OBVIOUS
<1>2. Len(<<>>) = 0 /\ MaxItems \in Nat
  BY ServicesAssumption DEF ServicesAssumption, History!HistoryAssumption
<1>3. <<>> \in Lists
  BY <1>1, <1>2 DEF Lists
<1> QED BY <1>3 DEF Changes

(* add (history.rs:139-156). *)
LEMMA AddChanges ==
  ASSUME NEW l \in Lists, NEW e \in History!Entry, \A k \in DOMAIN l : l[k].id # e.id,
         NEW n, n = SubSeq(<<e>> \o l, 1, IF Len(<<e>> \o l) < MaxItems THEN Len(<<e>> \o l) ELSE MaxItems)
  PROVE  n \in Lists /\ Changes(l, n)
<1> DEFINE all == <<e>> \o l
           E == History!Entry
<1>1. l \in Seq(E) /\ <<e>> \in Seq(E) /\ Len(<<e>>) = 1 /\ <<e>>[1] = e
  BY ListType
<1>2. Len(l) \in Nat /\ DOMAIN l = 1 .. Len(l) /\ \A k \in 1 .. Len(l) : l[k] \in E
  BY ListType
<1> HIDE DEF E
<1>3. /\ all \in Seq(E) /\ Len(all) = Len(l) + 1 /\ all[1] = e
      /\ \A k \in 2 .. Len(l) + 1 : all[k] = l[k - 1]
  BY <1>1, <1>2, ConcatProperties
<1> HIDE DEF all
<1>4. MaxItems \in Nat \ {0}
  BY ServicesAssumption DEF ServicesAssumption, History!HistoryAssumption
<1> DEFINE m == IF Len(all) < MaxItems THEN Len(all) ELSE MaxItems
<1>5. m \in 1 .. Len(all) /\ m <= MaxItems
  BY <1>2, <1>3, <1>4
<1>6. n = SubSeq(all, 1, m)
  BY DEF all
<1> HIDE DEF m
<1>7. n \in Seq(E) /\ Len(n) = m /\ \A k \in 1 .. m : n[k] = all[k]
  <2>1. m \in Int /\ 1 \in Int /\ 1 <= m /\ m - 1 + 1 = m
    BY <1>2, <1>3, <1>5
  <2>2. \A k \in 1 .. m : all[k] \in E /\ 1 + k - 1 = k
    BY <1>2, <1>3, <1>5, ElementOfSeq
  <2>3. /\ SubSeq(all, 1, m) \in Seq(E) /\ Len(SubSeq(all, 1, m)) = m - 1 + 1
        /\ \A k \in 1 .. m - 1 + 1 : SubSeq(all, 1, m)[k] = all[1 + k - 1]
    BY <2>1, <2>2, SubSeqProperties
  <2> QED BY <2>1, <2>2, <2>3, <1>6
<1>8. \A i, j \in 1 .. m : n[i].id = n[j].id => i = j
  <2> SUFFICES ASSUME NEW i \in 1 .. m, NEW j \in 1 .. m, n[i].id = n[j].id PROVE i = j
    OBVIOUS
  <2>1. i \in 1 .. Len(l) + 1 /\ j \in 1 .. Len(l) + 1 /\ n[i] = all[i] /\ n[j] = all[j]
    BY <1>2, <1>3, <1>5, <1>7
  <2>2. CASE i = 1 /\ j = 1
    BY <2>2
  <2>3. CASE i = 1 /\ j # 1
    <3>1. j - 1 \in 1 .. Len(l) /\ all[j] = l[j - 1]
      BY <2>1, <2>3, <1>2, <1>3
    <3> QED BY <3>1, <2>1, <2>3, <1>2, <1>3
  <2>4. CASE i # 1 /\ j = 1
    <3>1. i - 1 \in 1 .. Len(l) /\ all[i] = l[i - 1]
      BY <2>1, <2>4, <1>2, <1>3
    <3> QED BY <3>1, <2>1, <2>4, <1>2, <1>3
  <2>5. CASE i # 1 /\ j # 1
    <3>1. /\ i - 1 \in 1 .. Len(l) /\ all[i] = l[i - 1]
          /\ j - 1 \in 1 .. Len(l) /\ all[j] = l[j - 1]
      BY <2>1, <2>5, <1>2, <1>3
    <3>2. i - 1 = j - 1
      BY <3>1, <2>1 DEF Lists
    <3> QED BY <3>2, <2>1
  <2> QED BY <2>2, <2>3, <2>4, <2>5
<1>9. n \in Lists
  BY <1>5, <1>7, <1>8 DEF Lists, E
<1>10. e.id \notin History!Disk!Ids(l) /\ n = History!Disk!Shortened(<<e>> \o l)
  BY Zenon DEF History!Disk!Ids, History!Disk!Shortened
<1> QED BY <1>9, <1>10, Zenon DEF Changes

(* update (history.rs:113-137). *)
LEMMA EntryChanges ==
  ASSUME NEW l \in Lists, NEW k \in DOMAIN l, NEW e \in History!Entry, e.id = l[k].id
  PROVE  [l EXCEPT ![k] = e] \in Lists /\ Changes(l, [l EXCEPT ![k] = e])
<1> DEFINE n == [l EXCEPT ![k] = e]
           E == History!Entry
<1>1. k \in 1 .. Len(l) /\ Len(l) \in Nat /\ l \in Seq(E) /\ DOMAIN l = 1 .. Len(l) /\ e \in E /\ Len(l) <= MaxItems
  BY ListType
<1> HIDE DEF E
<1>2. n \in Seq(E) /\ Len(n) = Len(l) /\ \A i \in 1 .. Len(l) : n[i] = IF i = k THEN e ELSE l[i]
  BY <1>1, ExceptSeq
<1> HIDE DEF n
<1>3. \A i \in 1 .. Len(n) : n[i].id = l[i].id
  BY <1>2
<1>4. \A i, j \in 1 .. Len(n) : n[i].id = n[j].id => i = j
  BY <1>2, <1>3 DEF Lists
<1>5. n \in Lists
  BY <1>1, <1>2, <1>4 DEF Lists, E
<1>6. Changes(l, n)
  BY Zenon DEF Changes, n
<1> QED BY <1>5, <1>6 DEF n

LEMMA UpdateChanges ==
  ASSUME NEW l \in Lists, NEW k \in DOMAIN l, NEW n, n = [l EXCEPT ![k].gif = TRUE]
  PROVE  n \in Lists /\ Changes(l, n)
<1> DEFINE e == [l[k] EXCEPT !.gif = TRUE]
<1>1. l[k] \in History!Entry
  BY ListType
<1>2. e \in History!Entry /\ e.id = l[k].id
  BY <1>1 DEF History!Entry
<1>3. n = [l EXCEPT ![k] = e]
  OBVIOUS
<1> HIDE DEF e
<1>4. [l EXCEPT ![k] = e] \in Lists /\ Changes(l, [l EXCEPT ![k] = e])
  BY <1>2, EntryChanges
<1> QED BY <1>3, <1>4, Zenon

(* remove (history.rs:335-349). *)
LEMMA RemoveChanges ==
  ASSUME NEW l \in Lists, NEW k \in DOMAIN l, NEW n, n = History!Only(l, {x \in History!Entry : x.id # l[k].id})
  PROVE  n \in Lists /\ Changes(l, n)
<1> DEFINE S == {x \in History!Entry : x.id # l[k].id}
<1>1. n \in Lists /\ History!Disk!IsPart(l, {i \in DOMAIN l : l[i] \in S}, n)
  <2>1. S \in SUBSET History!Entry
    OBVIOUS
  <2> QED BY <2>1, OnlyIsPart
<1>2. {i \in DOMAIN l : l[i] \in S} = DOMAIN l \ {k}
  BY ListType DEF Lists
<1> HIDE DEF S
<1> QED BY <1>1, <1>2 DEF Changes

(* try_list (history.rs:301-313). *)
LEMMA ListChanges ==
  ASSUME NEW l \in Lists, NEW D, NEW n, n = History!Only(l, {e \in History!Entry : e.file \in D})
  PROVE  n \in Lists /\ Changes(l, n)
<1> DEFINE S == {e \in History!Entry : e.file \in D}
           gone == Files \ D
<1>1. n \in Lists /\ History!Disk!IsPart(l, {i \in DOMAIN l : l[i] \in S}, n)
  <2>1. S \in SUBSET History!Entry
    OBVIOUS
  <2> QED BY <2>1, OnlyIsPart
<1>2. {i \in DOMAIN l : l[i] \in S} = {i \in DOMAIN l : l[i].file \notin gone}
  <2>1. \A i \in DOMAIN l : l[i] \in History!Entry /\ l[i].file \in Files
    BY ListType DEF History!Entry
  <2> QED BY <2>1
<1>3. gone \in SUBSET Files
  OBVIOUS
<1> HIDE DEF S, gone
<1> QED BY <1>1, <1>2, <1>3 DEF Changes

-----------------------------------------------------------------------------
(* The history (history.rs, storage.rs).  What the file holds changes only   *)
(* when the temporary one is renamed; until then memory is the same list,    *)
(* and what is being written is a change of it, for the lock is held.        *)

Indexes(d, n) == [disk : {d}, temp : History!TempStates, next : {n}, told : {"none", "ok", "failed"}]

IndexFits ==
  /\ index \in Indexes(index.disk, index.next)
  /\ index.disk \in {Missing} \cup History!StoredLists
  /\ History!Loaded(index) \in Lists
  /\ index.told # "none" => index.temp = "none" /\ up
  /\ index.temp # "none" => up /\ index.next \in Lists /\ Changes(items, index.next)
  /\ index.told = "ok" => index.next = History!Loaded(index)
  /\ up /\ index.told # "ok" => items = History!Loaded(index)

OpFits ==
  /\ op \in [what : History!Ops, by : {op.by}, entries : Seq(History!Entry)]
  /\ op.what \in {"none", "remove", "clear"} => index.temp = "none" /\ index.told = "none"
  /\ op.what = "remove" => \E k \in DOMAIN items : op.entries = <<items[k]>>
  /\ ~up => op.what = "none"

SaverStates == [at : {"idle", "made", "thumbed", "waits"}, file : Files \cup {History!NoFile}]
SaversFit ==
  /\ on_disk \subseteq Files
  /\ saver \in [Savers -> SaverStates]
  /\ \A s \in Savers : saver[s].at # "idle" => saver[s].file \in Files

HistoryInv == up \in BOOLEAN /\ items \in Lists /\ IndexFits /\ OpFits /\ SaversFit

LEMMA HistoryIsTyped == ASSUME HistoryInv PROVE History!TypeOK
<1>1. index.disk \in {Missing, Torn} \/ \A k \in DOMAIN index.disk : index.disk[k] \in History!Entry \cup {History!Odd}
  <2>1. CASE index.disk = Missing
    BY <2>1
  <2>2. CASE index.disk \in History!StoredLists
    <3>1. PICK n \in 0 .. MaxItems + 1 : index.disk \in [1 .. n -> History!Entry \cup {History!Odd}]
      BY <2>2 DEF History!StoredLists
    <3> QED BY <3>1
  <2> QED BY <2>1, <2>2 DEF HistoryInv, IndexFits
<1>2. Len(items) <= MaxItems /\ \A k \in DOMAIN items : items[k] \in History!Entry
  BY ListType DEF HistoryInv
<1>3. op.what \in History!Ops
  BY DEF HistoryInv, OpFits
<1>4. /\ index \in [disk : {index.disk}, temp : History!TempStates, next : {index.next}, told : {"none", "ok", "failed"}]
      /\ up \in BOOLEAN /\ on_disk \subseteq Files
      /\ saver \in [Savers -> [at : {"idle", "made", "thumbed", "waits"}, file : Files \cup {History!NoFile}]]
  BY Zenon DEF HistoryInv, IndexFits, Indexes, SaversFit, SaverStates
<1> QED BY <1>1, <1>2, <1>3, <1>4, Zenon DEF History!TypeOK

LEMMA NoOpFits == History!NoOp \in [what : History!Ops, by : {Nothing}, entries : Seq(History!Entry)]
<1>1. \A S : <<>> \in Seq(S)
  OBVIOUS
<1> QED BY <1>1 DEF History!NoOp, History!Ops

LEMMA SavedIsOne ==
  /\ <<History!Saved(1)>> \in Lists
  /\ History!Saved(1) \in History!Entry /\ History!Odd \notin History!Entry
<1>1. History!Saved(1) \in History!Entry /\ History!Odd \notin History!Entry /\ MaxItems \in Nat \ {0}
  BY ServicesAssumption
  DEF ServicesAssumption, History!HistoryAssumption, History!Saved, History!Odd, History!Entry, History!NoFile
<1>2. \A e : <<e>> \in Seq({e}) /\ Len(<<e>>) = 1
  OBVIOUS
<1>3. \A e \in History!Entry : <<e>> \in Seq(History!Entry)
  <2> DEFINE E == History!Entry
  <2> HIDE DEF E
  <2>1. \A e \in E : <<e>> \in Seq(E)
    OBVIOUS
  <2> QED BY <2>1, Zenon DEF E
<1>4. <<History!Saved(1)>> \in Lists
  BY <1>1, <1>2, <1>3 DEF Lists
<1> QED BY <1>1, <1>4

LEMMA FirstLoaded ==
  ASSUME NEW l, l = <<History!Odd, History!Saved(1)>>
  PROVE  History!Only(l, History!Entry) = <<History!Saved(1)>>
<1> DEFINE E == History!Entry
           q == History!Only(l, E)
           x == History!Saved(1)
           o == History!Odd
<1>1. x \in E /\ o \notin E
  BY SavedIsOne
<1> HIDE DEF E, x, o
<1>2. Len(l) = 2 /\ l[1] = o /\ l[2] = x
  BY DEF x, o
<1>3. Leaves(l, E, 2, q)
  BY <1>2, OnlyLeaves
<1> HIDE DEF q
<1>4. q \in Seq(E) /\ Len(q) \in Nat
  BY <1>3 DEF Leaves
<1>5. PICK spot \in [1 .. Len(q) -> {k \in 1 .. 2 : l[k] \in E}] :
       /\ \A i, j \in 1 .. Len(q) : i < j => spot[i] < spot[j]
       /\ \A k \in 1 .. 2 : l[k] \in E => \E i \in 1 .. Len(q) : spot[i] = k
       /\ \A i \in 1 .. Len(q) : q[i] = l[spot[i]]
  BY <1>3 DEF Leaves
<1>6. \A i \in 1 .. Len(q) : spot[i] = 2
  BY <1>1, <1>2, <1>5
<1>7. 1 <= Len(q)
  <2>1. \E i \in 1 .. Len(q) : spot[i] = 2
    BY <1>1, <1>2, <1>5
  <2> QED BY <2>1, <1>4
<1>8. Len(q) = 1
  <2>1. ASSUME Len(q) >= 2 PROVE FALSE
    <3>1. 1 \in 1 .. Len(q) /\ 2 \in 1 .. Len(q)
      BY <2>1, <1>4
    <3>2. spot[1] < spot[2] /\ spot[1] = 2 /\ spot[2] = 2
      BY <3>1, <1>5, <1>6
    <3> QED BY <3>2
  <2>2. ~ (Len(q) >= 2)
    BY <2>1
  <2>3. \A m \in Nat : 1 <= m /\ ~ (m >= 2) => m = 1
    OBVIOUS
  <2> QED BY <2>2, <2>3, <1>4, <1>7
<1>9. q[1] = x
  BY <1>2, <1>5, <1>6, <1>8
<1>10. <<x>> \in Seq(E) /\ Len(<<x>>) = 1 /\ <<x>>[1] = x
  BY <1>1
<1>11. q = <<x>>
  BY <1>4, <1>8, <1>9, <1>10, SeqEqual
<1> QED BY <1>11 DEF q, x, E

LEMMA HistoryStarts == ASSUME History!Init PROVE HistoryInv
<1>1. PICK l \in {<<>>, <<History!Odd, History!Saved(1)>>} :
        /\ index = History!Quiet(IF l = <<>> THEN Missing ELSE l)
        /\ items = History!Loaded(index)
        /\ on_disk = {i \in Files : \E k \in DOMAIN l : l[k].file = i}
  BY Zenon DEF History!Init
<1>2. /\ index.disk = (IF l = <<>> THEN Missing ELSE l) /\ index.temp = "none" /\ index.next = Nothing
      /\ index.told = "none" /\ index \in Indexes(index.disk, index.next)
  BY <1>1 DEF History!Quiet, Indexes, History!TempStates
<1>3. index.disk \in {Missing} \cup History!StoredLists /\ items \in Lists
  <2>1. CASE l = <<>>
    <3>1. index.disk = Missing /\ items = History!Only(<<>>, History!Entry)
      BY <1>1, <1>2, <2>1, Zenon DEF History!Loaded, History!Readable, History!Stored
    <3>2. <<>> \in Lists /\ {} \subseteq History!Entry /\ Len(<<>>) = 0
      BY NoneIsList
    <3>3. items \in Lists
      BY <3>1, <3>2, OnlyIsPart
    <3> QED BY <3>1, <3>3
  <2>2. CASE l # <<>>
    <3>1. l = <<History!Odd, History!Saved(1)>> /\ index.disk = l
      BY <1>2, <2>2
    <3>2. l \in [1 .. 2 -> History!Entry \cup {History!Odd}]
      <4> DEFINE F == History!Entry \cup {History!Odd}
      <4>1. History!Odd \in F /\ History!Saved(1) \in F
        BY SavedIsOne
      <4> HIDE DEF F
      <4>2. l \in [1 .. 2 -> F]
        BY <3>1, <4>1
      <4> QED BY <4>2, Zenon DEF F
    <3>3. 2 \in 0 .. MaxItems + 1
      BY ServicesAssumption DEF ServicesAssumption, History!HistoryAssumption
    <3>4. l \in History!StoredLists
      BY <3>2, <3>3, Zenon DEF History!StoredLists
    <3>5. index.disk \notin {Missing, Torn}
      BY <3>1, <3>4, ServicesAssumption, Zenon DEF ServicesAssumption, History!HistoryAssumption
    <3>6. items = <<History!Saved(1)>>
      BY <1>1, <3>1, <3>5, FirstLoaded, Zenon DEF History!Loaded, History!Readable, History!Stored
    <3> QED BY <3>1, <3>4, <3>6, SavedIsOne
  <2> QED BY <2>1, <2>2
<1>4. IndexFits
  BY <1>1, <1>2, <1>3 DEF IndexFits
<1>5. OpFits
  <2>1. op = History!NoOp /\ op.what = "none"
    BY DEF History!Init, History!NoOp
  <2> QED BY <1>2, <2>1, NoOpFits DEF OpFits, History!NoOp
<1>6. SaversFit
  BY <1>1 DEF SaversFit, SaverStates, History!Init, History!Idle
<1>7. up \in BOOLEAN
  BY DEF History!Init
<1> QED BY <1>3, <1>4, <1>5, <1>6, <1>7 DEF HistoryInv

(* The process ends or starts, or a write goes on: what the file holds is    *)
(* the same unless it is renamed. *)
LEMMA LoadedIsKept ==
  ASSUME NEW f, NEW g, f.disk = g.disk PROVE History!Loaded(f) = History!Loaded(g)
BY DEF History!Loaded, History!Stored

Same == History!Loaded(index)' = History!Loaded(index)
Kept == HistoryInv' /\ (Same \/ Changes(History!Loaded(index), History!Loaded(index)'))

LEMMA StoreKept ==
  ASSUME HistoryInv, UNCHANGED <<up, index, items, op>>, SaversFit' PROVE Kept
<1>1. IndexFits' /\ OpFits'
  BY DEF HistoryInv, IndexFits, OpFits
<1>2. Same
  BY DEF Same
<1> QED BY <1>1, <1>2 DEF Kept, HistoryInv

LEMMA AskedFits ==
  ASSUME HistoryInv, up, index.temp = "none", index.told = "none", NEW n \in Lists, Changes(items, n),
         index' = History!Asked(index, n), UNCHANGED <<up, items>>
  PROVE  IndexFits' /\ Same
<1>1. index \in Indexes(index.disk, index.next)
  BY DEF HistoryInv, IndexFits
<1>2. /\ index'.disk = index.disk /\ index'.temp = "asked" /\ index'.next = n /\ index'.told = "none"
      /\ index' \in Indexes(index.disk, n)
  BY <1>1 DEF History!Asked, Indexes, History!TempStates
<1>3. Same
  BY <1>2, LoadedIsKept DEF Same
<1>4. Changes(items, n)'
  BY DEF Changes
<1>5. index'.told # "ok" /\ items' = History!Loaded(index)'
  BY <1>2, <1>3 DEF HistoryInv, IndexFits, Same
<1>6. History!Loaded(index)' \in Lists
  BY <1>3 DEF HistoryInv, IndexFits, Same
<1>7. IndexFits'
  BY <1>2, <1>5, <1>6 DEF HistoryInv, IndexFits
<1> QED BY <1>3, <1>7

LEMMA FreeRests == ASSUME HistoryInv, History!Free PROVE up /\ index.temp = "none" /\ index.told = "none"
<1>1. op.what = "none" /\ up
  BY DEF History!Free, History!NoOp
<1> QED BY <1>1 DEF HistoryInv, OpFits

(* An operation that asks for the list to be written. *)
OpIs(o, what) == o.what = what /\ o \in [what : History!Ops, by : {o.by}, entries : Seq(History!Entry)]

LEMMA AskedKeeps ==
  ASSUME HistoryInv, up, index.temp = "none", index.told = "none", NEW n \in Lists, Changes(items, n),
         index' = History!Asked(index, n), UNCHANGED <<up, items>>,
         NEW what, what \notin {"none", "remove", "clear"}, OpIs(op', what), SaversFit'
  PROVE  Kept
<1>1. IndexFits' /\ Same
  BY AskedFits
<1>2. OpFits'
  BY DEF OpFits, OpIs
<1> QED BY <1>1, <1>2 DEF Kept, HistoryInv

LEMMA MakeFileKeeps == ASSUME HistoryInv, NEW s \in Savers, History!MakeFile(s) PROVE Kept
<1>1. PICK k \in Files \ on_disk :
        on_disk' = on_disk \cup {k} /\ saver' = [saver EXCEPT ![s] = [at |-> "made", file |-> k]]
  BY DEF History!MakeFile
<1>2. SaversFit'
  BY <1>1 DEF HistoryInv, SaversFit, SaverStates
<1> QED BY <1>2, StoreKept DEF History!MakeFile, History!storeVars

LEMMA WriteThumbKeeps == ASSUME HistoryInv, NEW s \in Savers, History!WriteThumb(s) PROVE Kept
<1>1. SaversFit'
  BY DEF History!WriteThumb, History!Idle, HistoryInv, SaversFit, SaverStates
<1> QED BY <1>1, StoreKept DEF History!WriteThumb, History!storeVars

LEMMA UserDeletesKeeps == ASSUME HistoryInv, History!UserDeletes PROVE Kept
<1>1. SaversFit'
  BY DEF History!UserDeletes, HistoryInv, SaversFit, SaverStates
<1> QED BY <1>1, StoreKept DEF History!UserDeletes, History!storeVars

LEMMA AddKeeps == ASSUME HistoryInv, NEW s \in Savers, History!Add(s) PROVE Kept
<1>1. up /\ index.temp = "none" /\ index.told = "none"
  BY FreeRests DEF History!Add
<1>2. PICK i \in History!NewIds :
        LET e == [id |-> i, file |-> saver[s].file,
                  kind |-> IF s \in Recorders THEN "video" ELSE "image", gif |-> FALSE]
            all == <<e>> \o items
        IN  /\ index' = History!Asked(index, SubSeq(all, 1, IF Len(all) < MaxItems THEN Len(all) ELSE MaxItems))
            /\ op' = [what |-> "add", by |-> s, entries |-> <<>>]
            /\ counter' = i + 1
  BY Zenon DEF History!Add
<1> DEFINE e == [id |-> i, file |-> saver[s].file,
                 kind |-> IF s \in Recorders THEN "video" ELSE "image", gif |-> FALSE]
           all == <<e>> \o items
           n == SubSeq(all, 1, IF Len(all) < MaxItems THEN Len(all) ELSE MaxItems)
<1>3. index' = History!Asked(index, n) /\ op' = [what |-> "add", by |-> s, entries |-> <<>>]
  BY <1>2, Zenon
<1>4. e \in History!Entry /\ \A k \in DOMAIN items : items[k].id # e.id
  <2>1. saver[s].file \in Files
    BY DEF HistoryInv, SaversFit, History!Add
  <2>2. i \in Numbers /\ i \notin {items[k].id : k \in DOMAIN items}
    BY DEF History!NewIds, History!Used
  <2> QED BY <2>1, <2>2 DEF History!Entry
<1> HIDE DEF e
<1>5. n \in Lists /\ Changes(items, n)
  BY <1>4, AddChanges, Zenon DEF HistoryInv
<1> HIDE DEF n
<1>6. OpIs(op', "add")
  <2>1. \A S : <<>> \in Seq(S)
    OBVIOUS
  <2> QED BY <1>3, <2>1 DEF OpIs, History!Ops
<1>7. SaversFit'
  BY DEF History!Add, HistoryInv, SaversFit, SaverStates
<1>8. UNCHANGED <<up, items>>
  BY DEF History!Add
<1> QED BY <1>1, <1>3, <1>5, <1>6, <1>7, <1>8, AskedKeeps

LEMMA NamedOp ==
  ASSUME NEW o, o = [History!NoOp EXCEPT !.what = "list"] \/ o = [History!NoOp EXCEPT !.what = "update"]
  PROVE  \E what : what \notin {"none", "remove", "clear"} /\ OpIs(o, what)
<1>1. \A S : <<>> \in Seq(S)
  OBVIOUS
<1>2. OpIs(o, o.what) /\ o.what \in {"list", "update"}
  BY <1>1 DEF OpIs, History!NoOp, History!Ops
<1> QED BY <1>2

LEMMA ListKeeps == ASSUME HistoryInv, History!List PROVE Kept
<1>1. up /\ index.temp = "none" /\ index.told = "none"
  BY FreeRests DEF History!List
<1> DEFINE n == History!Alive
<1>2. n \in Lists /\ Changes(items, n)
  BY ListChanges DEF History!Alive, HistoryInv
<1>3. SaversFit'
  BY DEF History!List, HistoryInv, SaversFit
<1>4. index' = History!Asked(index, n) /\ op' = [History!NoOp EXCEPT !.what = "list"] /\ UNCHANGED <<up, items>>
  BY Zenon DEF History!List
<1> HIDE DEF n
<1> QED BY <1>1, <1>2, <1>3, <1>4, NamedOp, AskedKeeps

LEMMA UpdateKeeps == ASSUME HistoryInv, History!Update PROVE Kept
<1>1. up /\ index.temp = "none" /\ index.told = "none"
  BY FreeRests DEF History!Update
<1>2. PICK k \in DOMAIN items : index' = History!Asked(index, [items EXCEPT ![k].gif = TRUE])
  BY Zenon DEF History!Update
<1> DEFINE n == [items EXCEPT ![k].gif = TRUE]
<1>3. n \in Lists /\ Changes(items, n)
  BY UpdateChanges DEF HistoryInv
<1>4. SaversFit'
  BY DEF History!Update, HistoryInv, SaversFit
<1>5. index' = History!Asked(index, n) /\ op' = [History!NoOp EXCEPT !.what = "update"] /\ UNCHANGED <<up, items>>
  BY <1>2, Zenon DEF History!Update
<1> HIDE DEF n
<1> QED BY <1>1, <1>3, <1>4, <1>5, NamedOp, AskedKeeps

(* Files are being deleted; the list is not touched yet. *)
LEMMA NotAsked ==
  ASSUME HistoryInv, up, index.temp = "none", index.told = "none", UNCHANGED <<up, index, items>>,
         OpIs(op', op'.what), op'.what = "remove" => \E k \in DOMAIN items : op'.entries = <<items[k]>>, SaversFit'
  PROVE  Kept
<1>1. IndexFits'
  BY DEF HistoryInv, IndexFits
<1>2. OpFits'
  BY DEF OpFits, OpIs
<1>3. Same
  BY DEF Same
<1> QED BY <1>1, <1>2, <1>3 DEF Kept, HistoryInv

LEMMA RemoveEntryKeeps == ASSUME HistoryInv, History!RemoveEntry PROVE Kept
<1>1. up /\ index.temp = "none" /\ index.told = "none"
  BY FreeRests DEF History!RemoveEntry
<1>2. PICK k \in DOMAIN items : op' = [History!NoOp EXCEPT !.what = "remove", !.entries = <<items[k]>>]
  BY Zenon DEF History!RemoveEntry
<1>3. items[k] \in History!Entry
  BY ListType DEF HistoryInv
<1>4. <<items[k]>> \in Seq(History!Entry)
  <2> DEFINE E == History!Entry
  <2> HIDE DEF E
  <2>1. \A e \in E : <<e>> \in Seq(E)
    OBVIOUS
  <2> QED BY <1>3, <2>1, Zenon DEF E
<1>5. OpIs(op', op'.what) /\ op'.entries = <<items[k]>>
  BY <1>2, <1>4 DEF OpIs, History!NoOp, History!Ops
<1>6. SaversFit' /\ UNCHANGED <<up, index, items>>
  BY DEF History!RemoveEntry, HistoryInv, SaversFit
<1> QED BY <1>1, <1>5, <1>6, NotAsked

LEMMA ClearKeeps == ASSUME HistoryInv, History!Clear PROVE Kept
<1>1. up /\ index.temp = "none" /\ index.told = "none"
  BY FreeRests DEF History!Clear
<1>2. PICK d \in {<<>>, items} : op' = [History!NoOp EXCEPT !.what = "clear", !.entries = d]
  BY Zenon DEF History!Clear
<1>3. d \in Seq(History!Entry)
  BY NoneIsList, ListType DEF HistoryInv
<1>4. OpIs(op', op'.what) /\ op'.what = "clear"
  BY <1>2, <1>3 DEF OpIs, History!NoOp, History!Ops
<1>5. SaversFit' /\ UNCHANGED <<up, index, items>>
  BY DEF History!Clear, HistoryInv, SaversFit
<1> QED BY <1>1, <1>4, <1>5, NotAsked

LEMMA ClearListKeeps == ASSUME HistoryInv, History!ClearList PROVE Kept
<1>1. up /\ index.temp = "none" /\ index.told = "none"
  BY DEF History!ClearList, HistoryInv, OpFits
<1>2. <<>> \in Lists /\ Changes(items, <<>>)
  BY NoneIsList
<1>3. OpIs(op', "cleared")
  BY DEF History!ClearList, HistoryInv, OpFits, OpIs, History!Ops
<1>4. SaversFit' /\ UNCHANGED <<up, items>> /\ index' = History!Asked(index, <<>>)
  BY DEF History!ClearList, HistoryInv, SaversFit
<1> QED BY <1>1, <1>2, <1>3, <1>4, AskedKeeps

LEMMA DeleteFilesKeeps == ASSUME HistoryInv, History!DeleteFiles PROVE Kept
<1>1. up /\ index.temp = "none" /\ index.told = "none" /\ op.what \in {"remove", "clear"} /\ op.entries # <<>>
  BY DEF History!DeleteFiles, HistoryInv, OpFits
<1>2. SaversFit' /\ UNCHANGED <<up, items>>
  <2>1. on_disk' \subseteq on_disk
    BY DEF History!DeleteFiles
  <2> QED BY <2>1 DEF History!DeleteFiles, HistoryInv, SaversFit
<1>3. CASE op.what = "remove" /\ op' = [op EXCEPT !.what = "removed"]
             /\ index' = History!Asked(index, History!Only(items, {x \in History!Entry : x.id # Head(op.entries).id}))
  <2> DEFINE n == History!Only(items, {x \in History!Entry : x.id # Head(op.entries).id})
  <2>1. PICK k \in DOMAIN items : op.entries = <<items[k]>>
    BY <1>3 DEF HistoryInv, OpFits
  <2>2. Head(op.entries) = items[k]
    BY <2>1
  <2>3. n \in Lists /\ Changes(items, n)
    BY <2>2, RemoveChanges DEF HistoryInv
  <2>4. OpIs(op', "removed")
    BY <1>3 DEF HistoryInv, OpFits, OpIs, History!Ops
  <2>5. index' = History!Asked(index, n)
    BY <1>3
  <2> HIDE DEF n
  <2> QED BY <1>1, <1>2, <2>3, <2>4, <2>5, AskedKeeps
<1>4. CASE op.what # "remove" /\ op' = [op EXCEPT !.entries = Tail(@)] /\ UNCHANGED index
  <2>1. Tail(op.entries) \in Seq(History!Entry)
    <3> DEFINE E == History!Entry
    <3>1. op.entries \in Seq(E)
      BY DEF HistoryInv, OpFits
    <3> HIDE DEF E
    <3>2. Tail(op.entries) \in Seq(E)
      BY <1>1, <3>1, HeadTailProperties
    <3> QED BY <3>2 DEF E
  <2>2. OpIs(op', op'.what) /\ op'.what # "remove"
    BY <1>4, <2>1 DEF HistoryInv, OpFits, OpIs
  <2> QED BY <1>1, <1>2, <1>4, <2>2, NotAsked
<1>5. CASE op' = History!NoOp /\ UNCHANGED index
  <2>1. OpIs(op', op'.what) /\ op'.what = "none"
    BY <1>5, NoOpFits DEF OpIs, History!NoOp
  <2> QED BY <1>1, <1>2, <1>5, <2>1, NotAsked
<1> QED BY <1>3, <1>4, <1>5, Zenon DEF History!DeleteFiles

(* storage.rs:23-51: only the renaming changes what the file holds. *)
LEMMA WriteKeeps == ASSUME HistoryInv, History!Write PROVE Kept
<1>1. index \in Indexes(index.disk, index.next) /\ index' \in History!Steps(index) /\ up
  BY DEF HistoryInv, IndexFits, History!Write
<1>2. index.temp \in {"asked", "empty", "whole"}
  BY <1>1 DEF History!Steps
<1>3. index.told = "none" /\ index.next \in Lists /\ Changes(items, index.next) /\ items = History!Loaded(index)
  BY <1>1, <1>2 DEF HistoryInv, IndexFits
<1>4. UNCHANGED <<up, items, op, on_disk, saver>>
  BY DEF History!Write
<1>5. SaversFit'
  BY <1>4 DEF HistoryInv, SaversFit
<1>6. OpFits'
  BY <1>2, <1>4 DEF HistoryInv, OpFits
<1>7. CASE index'.disk = index.disk /\ index'.next = index.next /\ index' \in Indexes(index.disk, index.next)
             /\ (index'.temp # "none" => index'.told = "none") /\ index'.told # "ok"
  <2>1. Same
    BY <1>7, LoadedIsKept DEF Same
  <2>2. PICK n : n = index.next /\ index'.next = n /\ Changes(items, n)
    BY <1>3, <1>7
  <2>6. Changes(items, n)'
    BY <1>4, <2>2 DEF Changes
  <2>3. index'.disk \in {Missing} \cup History!StoredLists /\ History!Loaded(index)' \in Lists
    BY <1>7, <2>1 DEF HistoryInv, IndexFits, Same
  <2>4. items' = History!Loaded(index)'
    BY <1>3, <1>4, <2>1 DEF Same
  <2>5. IndexFits'
    BY <1>1, <1>3, <1>4, <1>7, <2>2, <2>3, <2>4, <2>6 DEF IndexFits
  <2> QED BY <1>4, <1>5, <1>6, <2>1, <2>5 DEF Kept, HistoryInv
<1>8. CASE index'.disk = index.next /\ index'.next = index.next /\ index' \in Indexes(index.next, index.next)
             /\ index'.temp = "none" /\ index'.told = "ok"
  <2>1. History!Loaded(index)' = index.next
    BY <1>3, <1>8, WrittenIsLoaded
  <2>2. index.next \in History!StoredLists
    BY <1>3, ListIsStored, ServicesAssumption DEF ServicesAssumption
  <2>3. IndexFits'
    BY <1>1, <1>3, <1>4, <1>8, <2>1, <2>2 DEF IndexFits
  <2>4. Changes(History!Loaded(index), History!Loaded(index)')
    BY <1>3, <2>1
  <2> QED BY <1>4, <1>5, <1>6, <2>3, <2>4 DEF Kept, HistoryInv
<1>9. index' \in {[index EXCEPT !.temp = "empty"], [index EXCEPT !.temp = "whole"], History!Failed(index)}
      \/ (index.temp = "whole" /\ index' = History!Renamed(index))
  BY <1>1, <1>2 DEF History!Steps
<1>10. CASE index' \in {[index EXCEPT !.temp = "empty"], [index EXCEPT !.temp = "whole"], History!Failed(index)}
  BY <1>1, <1>3, <1>7, <1>10 DEF Indexes, History!TempStates, History!Failed
<1>11. CASE index.temp = "whole" /\ index' = History!Renamed(index)
  BY <1>1, <1>3, <1>8, <1>11 DEF Indexes, History!TempStates, History!Renamed
<1> QED BY <1>9, <1>10, <1>11

LEMMA QuietFits ==
  ASSUME HistoryInv, index' = History!Quiet(index.disk),
         up' \in BOOLEAN, op' = History!NoOp, SaversFit', up' => items' = History!Loaded(index), items' \in Lists
  PROVE  Kept
<1>1. /\ index'.disk = index.disk /\ index'.temp = "none" /\ index'.told = "none"
      /\ index' \in Indexes(index'.disk, index'.next)
  BY DEF History!Quiet, Indexes, History!TempStates
<1>2. Same
  BY <1>1, LoadedIsKept DEF Same
<1>3. OpFits'
  <2>1. op'.what = "none" /\ op' \in [what : History!Ops, by : {op'.by}, entries : Seq(History!Entry)]
    BY NoOpFits DEF History!NoOp
  <2> QED BY <1>1, <2>1 DEF OpFits
<1>4. IndexFits'
  BY <1>1, <1>2 DEF HistoryInv, IndexFits, Same
<1> QED BY <1>2, <1>3, <1>4 DEF Kept, HistoryInv

LEMMA ReturnKeeps == ASSUME HistoryInv, History!Return PROVE Kept
<1>1. up /\ index.told # "none"
  BY DEF History!Return
<1>2. items' = History!Loaded(index) /\ items' \in Lists
  BY <1>1 DEF History!Return, HistoryInv, IndexFits
<1>3. SaversFit'
  BY DEF History!Return, HistoryInv, SaversFit, SaverStates, History!Idle
<1> QED BY <1>1, <1>2, <1>3, QuietFits DEF History!Return, History!Heard

LEMMA CrashKeeps == ASSUME HistoryInv, History!Crash PROVE Kept
<1>1. items' = <<>> /\ up' = FALSE /\ op' = History!NoOp /\ index' = History!Quiet(index.disk)
  BY DEF History!Crash, History!AfterCrash
<1>2. SaversFit'
  BY DEF History!Crash, HistoryInv, SaversFit, SaverStates, History!Idle
<1> QED BY <1>1, <1>2, NoneIsList, QuietFits

LEMMA StartKeeps == ASSUME HistoryInv, History!Start PROVE Kept
<1>1. ~up /\ up' = TRUE /\ items' = History!Loaded(index) /\ UNCHANGED <<index, op, on_disk, saver>>
  BY DEF History!Start
<1>2. index.temp = "none" /\ index.told = "none" /\ History!Loaded(index) \in Lists
  BY <1>1 DEF HistoryInv, IndexFits, Indexes
<1>3. Same
  BY <1>1 DEF Same
<1>4. SaversFit'
  BY <1>1 DEF HistoryInv, SaversFit
<1>5. op.what = "none" /\ op' = op
  BY <1>1 DEF HistoryInv, OpFits
<1>6. OpFits'
  BY <1>1, <1>2, <1>5 DEF HistoryInv, OpFits
<1>7. IndexFits'
  BY <1>1, <1>2, <1>3 DEF HistoryInv, IndexFits, Same
<1> QED BY <1>1, <1>2, <1>3, <1>4, <1>6, <1>7 DEF Kept, HistoryInv

LEMMA HistoryStep == ASSUME HistoryInv, History!Next PROVE Kept
BY MakeFileKeeps, WriteThumbKeeps, AddKeeps, ListKeeps, UpdateKeeps, RemoveEntryKeeps, ClearKeeps, DeleteFilesKeeps,
   ClearListKeeps, WriteKeeps, ReturnKeeps, UserDeletesKeeps, CrashKeeps, StartKeeps, Zenon DEF History!Next

LEMMA HistoryStutter == ASSUME HistoryInv, UNCHANGED historyVars PROVE Kept
<1>1. UNCHANGED <<up, index, items, op, on_disk, saver>>
  BY DEF historyVars
<1>2. SaversFit'
  BY <1>1 DEF HistoryInv, SaversFit
<1> QED BY <1>1, <1>2, StoreKept

LEMMA ListStarts == ASSUME History!Init PROVE History!Disk!Init
<1>1. History!Loaded(index) \in Lists
  BY HistoryStarts DEF HistoryInv, IndexFits
<1> DEFINE l == History!Loaded(index)
<1>2. l \in Seq(History!Entry) /\ \A j, k \in DOMAIN l : l[j].id = l[k].id => j = k
  BY <1>1, ListType DEF Lists
<1> QED BY <1>2, Zenon DEF History!Disk!Init

(* What changes the file is a step of the list. *)
LEMMA ListSteps == ASSUME Kept PROVE [History!Disk!Next]_(History!Loaded(index))
<1>1. CASE Same
  BY <1>1 DEF Same
<1>2. CASE ~Same
  <2>1. /\ History!Loaded(index)' # History!Loaded(index)
        /\ Changes(History!Loaded(index), History!Loaded(index)')
    BY <1>2 DEF Kept, Same
  <2> QED BY <2>1, Zenon
          DEF Changes, History!Disk!Next, History!Disk!Add, History!Disk!RemoveEntry, History!Disk!Update,
              History!Disk!Prune, History!Disk!Clear
<1> QED BY <1>1, <1>2

LEMMA MemoryFollows == HistoryInv => History!MemoryIsDisk
<1> SUFFICES ASSUME HistoryInv, History!Free PROVE History!Loaded(index) = items
  BY DEF History!MemoryIsDisk
<1>1. up /\ index.told = "none"
  BY FreeRests
<1> QED BY <1>1 DEF HistoryInv, IndexFits

-----------------------------------------------------------------------------
(* One part moves at a time, and which one never changes. *)
LEMMA OneMoves ==
  ASSUME [Next]_vars
  PROVE  /\ part' = part
         /\ part = "text" => subject' = subject
         /\ (part = "history" /\ History!Next) \/ UNCHANGED historyVars
         /\ part = "window" => Window!Next \/ UNCHANGED windowVars
         /\ part = "keyboard" => Keyboard!Next \/ UNCHANGED keyboardVars
         /\ part = "loan" => Loan!Next \/ UNCHANGED loanVars
         /\ part = "popup" => Popup!Next \/ UNCHANGED popupVars
         /\ part = "bubble" => TheBubble!Next \/ UNCHANGED bubbleVars
         /\ part = "watch" => Watch!Next \/ UNCHANGED watchVars
         /\ part = "instances" => Instances!Next \/ UNCHANGED instanceVars
         /\ part = "mcp" => Mcp!Next \/ UNCHANGED mcpVars
         /\ part = "settings" => Settings!Next \/ UNCHANGED settingsVars
  BY DEF Next, vars, OnlyHistory, OnlyWindow, OnlyKeyboard, OnlyLoan, OnlyPopup, OnlyBubble,
         OnlyWatch, OnlyInstances, OnlyMcp, OnlySettings

PartsInv ==
  /\ HistoryInv
  /\ part = "window" => WindowInv
  /\ part = "keyboard" => KeyboardInv
  /\ part = "loan" => LoanInv
  /\ part = "popup" => PopupInv
  /\ part = "bubble" => BubbleInv
  /\ part = "watch" => WatchInv
  /\ part = "instances" => InstancesInv
  /\ part = "mcp" => McpInv
  /\ part = "settings" => SettingsInv
  /\ part = "text" => TextInv

LEMMA HistoryMoves == ASSUME HistoryInv, [Next]_vars PROVE Kept
BY OneMoves, HistoryStep, HistoryStutter

LEMMA PartsStart == ASSUME Init PROVE PartsInv
  BY ServicesAssumption, HistoryStarts, WindowStarts, KeyboardStarts, LoanStarts, PopupStarts, BubbleStarts,
     WatchStarts, InstancesStart, McpStarts, SettingsStart, Zenon
     DEF Init, PartsInv, TextInv, Reader!Init

LEMMA PartsStep == ASSUME PartsInv, [Next]_vars PROVE PartsInv'
<1>1. part' = part
  BY OneMoves
<1>2. ASSUME part = "window" PROVE WindowInv'
  <2>1. CASE Window!Next
    BY <1>2, <2>1, ServicesAssumption, WindowStep, Zenon DEF PartsInv
  <2>2. CASE UNCHANGED windowVars
    <3>1. /\ page' = page /\ ready' = ready /\ revision' = revision /\ shown' = shown
          /\ requested' = requested /\ focus' = focus /\ settings' = settings /\ text' = text
          /\ history' = history /\ busy' = busy /\ ui_queue' = ui_queue /\ jobs' = jobs
          /\ running' = running /\ stored' = stored /\ files' = files
          /\ hotkeys_suspended' = hotkeys_suspended /\ grabbed' = grabbed /\ tasks' = tasks
      BY <2>2 DEF windowVars
    <3> QED BY <1>2, <3>1, WindowStutters DEF PartsInv
  <2> QED BY <1>2, <2>1, <2>2, OneMoves
<1>3. ASSUME part = "keyboard" PROVE KeyboardInv'
  BY <1>3, ServicesAssumption, OneMoves, KeyboardStep, KeyboardStutter, Zenon DEF PartsInv
<1>4. ASSUME part = "instances" PROVE InstancesInv'
  BY <1>4, ServicesAssumption, OneMoves, InstancesStep, InstancesStutter, Zenon DEF PartsInv
<1>5. ASSUME part = "mcp" PROVE McpInv'
  BY <1>5, ServicesAssumption, OneMoves, McpStep, McpStutter, Zenon DEF PartsInv
<1>6. ASSUME part = "settings" PROVE SettingsInv'
  BY <1>6, ServicesAssumption, OneMoves, SettingsStep, SettingsStutter, Zenon DEF PartsInv
<1>7. ASSUME part = "loan" PROVE LoanInv'
  BY <1>7, OneMoves, LoanStep, LoanStutter, Zenon DEF PartsInv
<1>8. ASSUME part = "popup" PROVE PopupInv'
  BY <1>8, ServicesAssumption, OneMoves, PopupStep, PopupStutter, Zenon DEF PartsInv
<1>9. ASSUME part = "bubble" PROVE BubbleInv'
  BY <1>9, ServicesAssumption, OneMoves, BubbleStep, BubbleStutter, Zenon DEF PartsInv
<1>10. ASSUME part = "watch" PROVE WatchInv'
  BY <1>10, ServicesAssumption, OneMoves, WatchStep, WatchStutter, Zenon DEF PartsInv
<1>11. ASSUME part = "text" PROVE TextInv'
  BY <1>11, OneMoves DEF PartsInv, TextInv
<1>12. HistoryInv'
  BY HistoryMoves DEF PartsInv, Kept
<1> QED BY <1>1, <1>2, <1>3, <1>4, <1>5, <1>6, <1>7, <1>8, <1>9, <1>10, <1>11, <1>12 DEF PartsInv

(* When the window is at rest the hotkeys are back as they were last saved,  *)
(* and nothing it shows as under way waits in vain: whatever the fields,     *)
(* texts and entries, and in whatever order the UI thread, the worker and    *)
(* the tasks take their turns (view.rs, host.rs, state.rs).                  *)
THEOREM WindowRestsAtLast == Spec => []WindowComesToRest
<1>1. Init => PartsInv
  BY PartsStart
<1>2. PartsInv /\ [Next]_vars => PartsInv'
  BY PartsStep
<1>3. PartsInv => WindowComesToRest
  BY WindowRests, Zenon DEF PartsInv, WindowComesToRest
<1> QED BY <1>1, <1>2, <1>3, PTL DEF Spec

(* A press means what it meant when it was made, a launch is heard or fails  *)
(* for a reason, the server runs as the settings say, and what was said to   *)
(* be stored is stored and, once the worker rests, has its effect, though    *)
(* the UI thread suspends the hotkeys at any of the worker's steps and the   *)
(* worker registers them again: for any number of callers, launches, changes *)
(* and ends of the process (hotkeys.rs, single_instance.rs, mcp_wiring.rs,   *)
(* settings.rs, tray.rs).                                                    *)
THEOREM RequestsAreMetAlways == Spec => []RequestsAreMet
<1>1. Init => PartsInv
  BY PartsStart
<1>2. PartsInv /\ [Next]_vars => PartsInv'
  BY PartsStep
<1>3. PartsInv => RequestsAreMet
  BY KeyboardIsRight, InstancesAreHeard, McpFollows, SettingsAreKept DEF PartsInv, RequestsAreMet
<1> QED BY <1>1, <1>2, <1>3, PTL DEF Spec

(* The selection is served: the hotkey gives back what of the user's         *)
(* clipboard it could read, and nothing of the other program's, the popup    *)
(* does not stay for ever, a click translates what the bubble was raised     *)
(* for, the watcher tells what is selected, text goes to the service it may  *)
(* go to, and what is read is around the gesture: whatever the presses, the  *)
(* gestures, the texts and the order of the threads (selection.rs,           *)
(* selection/state.rs, bubble/state.rs, translate_popup/state.rs,            *)
(* translate.rs).  What of it is not proved here is that the highlight that  *)
(* is found is the painted patch as a whole, which the instance shows.       *)
THEOREM SelectionIsServedAlways ==
  Spec => []((part = "text" => Reader!HighlightIsThePatch) => SelectionIsServed)
<1>1. Init => PartsInv
  BY PartsStart
<1>2. PartsInv /\ [Next]_vars => PartsInv'
  BY PartsStep
<1>3. PartsInv => ((part = "text" => Reader!HighlightIsThePatch) => SelectionIsServed)
  BY ServicesAssumption, LoanIsReturned, PopupGoes, BubbleIsTranslated, TextIsRead
     DEF PartsInv, WatchInv, SelectionIsServed
<1> QED BY <1>1, <1>2, <1>3, PTL DEF Spec

(* Every variable of the part that moves has its type, one gesture at most   *)
(* reads the screen and no press translates nothing, whatever the values of  *)
(* the constants (history.rs, view.rs, hotkeys.rs, selection.rs,             *)
(* single_instance.rs, mcp_wiring.rs, settings.rs).                          *)
THEOREM ServicesTypeOKAlways == Spec => []ServicesTypeOK
<1>1. PartsInv => ServicesTypeOK
  <2> SUFFICES ASSUME PartsInv PROVE ServicesTypeOK
    OBVIOUS
  <2>8. part = "history" => History!TypeOK
    BY HistoryIsTyped, Zenon DEF PartsInv
  <2>1. part = "window" => Window!TypeOK
    BY WindowTypesHold, Zenon DEF PartsInv, WindowInv
  <2>2. part = "keyboard" => Keyboard!TypeOK
    <3> SUFFICES ASSUME KeyTypes PROVE Keyboard!TypeOK
      BY Zenon DEF PartsInv, KeyboardInv
    <3>1. \A k \in DOMAIN messages : messages[k] = Keyboard!Wake \/ messages[k][2] \in Nat \ {0}
      BY DEF KeyTypes, KeyMessages
    <3> QED BY <3>1, Zenon DEF KeyTypes, Keyboard!TypeOK
  <2>3. /\ part = "loan" => Loan!TypeOK
        /\ part = "watch" => Watch!TypeOK
        /\ part = "instances" => Instances!TypeOK
    BY Zenon DEF PartsInv, LoanInv, WatchInv, InstancesInv
  <2>4. part = "popup" => Popup!TypeOK
    BY Zenon DEF PartsInv, PopupInv, PopupTypes, Popup!TypeOK
  <2>5. part = "bubble" => TheBubble!TypeOK
    BY Zenon DEF PartsInv, BubbleInv, BubbleTypes, OneReads, GesturePlaces, WatcherPlaces, TheBubble!TypeOK
  <2>6. part = "mcp" => Mcp!TypeOK
    <3> SUFFICES ASSUME McpTypes PROVE Mcp!TypeOK
      BY Zenon DEF PartsInv, McpInv
    <3>1. \A t \in DOMAIN restarts :
            /\ restarts[t].at \in {"stop", "stopping", "stopped", "make", "set", "start", "over"}
            /\ restarts[t].server \in DOMAIN servers \cup {None} /\ restarts[t].port \in Ports \cup {None}
      <4> SUFFICES ASSUME NEW t \in DOMAIN restarts
                   PROVE  /\ restarts[t].at \in McpStages /\ restarts[t].port \in Ports \cup {None}
                          /\ restarts[t].server \in DOMAIN servers \cup {None}
        BY DEF McpStages
      <4>1. restarts[t] \in McpTasks
        BY ElementOfSeq, LenProperties DEF McpTypes
      <4>2. restarts[t].server \in DOMAIN servers \cup {None}
        BY DEF McpTypes, TaskFits
      <4> QED BY <4>1, <4>2 DEF McpTasks
    <3>2. \A s \in DOMAIN servers : /\ servers[s].running \in Ports \cup {None}
                                     /\ servers[s].locked \in DOMAIN restarts \cup {None}
      <4> SUFFICES ASSUME NEW s \in DOMAIN servers
                   PROVE  servers[s].running \in Ports \cup {None} /\ servers[s].locked \in DOMAIN restarts \cup {None}
        OBVIOUS
      <4>1. servers[s] \in McpServers
        BY ElementOfSeq, LenProperties DEF McpTypes
      <4>2. servers[s].locked \in DOMAIN restarts \cup {None}
        BY DEF McpTypes
      <4> QED BY <4>1, <4>2 DEF McpServers
    <3>3. \A l \in listening : l[1] \in DOMAIN servers /\ l[2] \in Ports
      BY DEF McpTypes
    <3> QED BY <3>1, <3>2, <3>3, Zenon DEF McpTypes, McpSettings, Mcp!TypeOK
  <2>7. part = "settings" => Settings!TypeOK
    <3> SUFFICES ASSUME FileTypes, EffectTypes PROVE Settings!TypeOK
      BY Zenon DEF PartsInv, SettingsInv, FileInv, EffectInv
    <3>1. \A t \in Settings!Threads : call[t].at \in Settings!Stages
      BY DEF FileTypes, Calls
    <3>2. {watching, language, run_key} \subseteq Settings!Values
      BY DEF EffectTypes
    <3> QED BY <3>1, <3>2, Zenon DEF FileTypes, EffectTypes, FieldValues, Settings!TypeOK
  <2> QED BY <2>1, <2>2, <2>3, <2>4, <2>5, <2>6, <2>7, <2>8 DEF ServicesTypeOK
<1>2. Init => PartsInv
  BY PartsStart
<1>3. PartsInv /\ [Next]_vars => PartsInv'
  BY PartsStep
<1> QED BY <1>1, <1>2, <1>3, PTL DEF Spec

(* history.json is one list that changes by whole operations, and between    *)
(* operations the list in memory is the file's: whatever the entries and how *)
(* many, whichever step of a write fails and whenever the process ends       *)
(* (history.rs:113-349, storage.rs:23-51).                                   *)
THEOREM HistoryIsOneListAlways == Spec => HistoryIsOneList
<1>1. Init => PartsInv
  BY PartsStart
<1>2. PartsInv /\ [Next]_vars => PartsInv'
  BY PartsStep
<1>3. Init => History!Disk!Init
  BY ListStarts DEF Init
<1>4. PartsInv /\ [Next]_vars => [History!Disk!Next]_(History!Loaded(index))
  BY HistoryMoves, ListSteps DEF PartsInv
<1>5. PartsInv => History!MemoryIsDisk
  BY MemoryFollows DEF PartsInv
<1> QED BY <1>1, <1>2, <1>3, <1>4, <1>5, PTL
        DEF Spec, HistoryIsOneList, History!ImplementsList, History!Disk!Spec, History!MemoryFollowsDisk
=============================================================================
