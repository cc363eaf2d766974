--------------------------- MODULE DesktopProofs -----------------------------
(* Proofs about the parts of the program that module MCDesktop composes, for *)
(* every value of their constants and any order of the threads.              *)
EXTENDS MCDesktop, SequenceTheorems, FiniteSetTheorems, TLAPS

-----------------------------------------------------------------------------
(* Queues: what is put at the end, what is left when the head is taken, and  *)
(* what a queue leaves its reader with when all of it is done.               *)
(* What is put at a queue's end, and what is left when its head is taken. *)
LEMMA Appended ==
  ASSUME NEW S, NEW q \in Seq(S), NEW e \in S
  PROVE  /\ Append(q, e) \in Seq(S) /\ Append(q, e) # <<>>
         /\ \A k \in DOMAIN Append(q, e) :
              \/ k \in DOMAIN q /\ Append(q, e)[k] = q[k]
              \/ k = Len(q) + 1 /\ Append(q, e)[k] = e
         /\ \A k \in DOMAIN q : /\ k \in DOMAIN Append(q, e) /\ Append(q, e)[k] = q[k]
                                /\ k \in Int /\ k < Len(q) + 1
         /\ Len(q) + 1 \in DOMAIN Append(q, e) /\ Append(q, e)[Len(q) + 1] = e /\ Len(q) + 1 \notin DOMAIN q
         /\ Len(q) + 1 \in Int
<1>1. /\ Append(q, e) \in Seq(S) /\ Append(q, e) # <<>> /\ Len(Append(q, e)) = Len(q) + 1
      /\ \A k \in 1 .. Len(q) : Append(q, e)[k] = q[k]
      /\ Append(q, e)[Len(q) + 1] = e
  BY AppendProperties
<1>2. Len(q) \in Nat /\ DOMAIN q = 1 .. Len(q) /\ DOMAIN Append(q, e) = 1 .. Len(q) + 1
  BY <1>1, LenProperties
<1> QED BY <1>1, <1>2

LEMMA HeadTaken ==
  ASSUME NEW S, NEW q \in Seq(S), q # <<>>
  PROVE  /\ Head(q) = q[1] /\ Head(q) \in S /\ 1 \in DOMAIN q /\ Tail(q) \in Seq(S)
         /\ \A k \in DOMAIN q : k \in Int /\ k >= 1
         /\ \A k \in DOMAIN Tail(q) : /\ k + 1 \in DOMAIN q /\ Tail(q)[k] = q[k + 1]
                                      /\ k \in Int /\ k + 1 # 1
         /\ \A k \in DOMAIN q \ {1} : k - 1 \in DOMAIN Tail(q) /\ Tail(q)[k - 1] = q[k]
<1>1. /\ Tail(q) \in Seq(S) /\ Len(Tail(q)) = Len(q) - 1 /\ Head(q) \in S
      /\ \A k \in 1 .. Len(Tail(q)) : Tail(q)[k] = q[k + 1]
  BY HeadTailProperties
<1>2. Head(q) = q[1]
  OBVIOUS
<1>3. Len(q) \in Nat \ {0} /\ DOMAIN q = 1 .. Len(q) /\ DOMAIN Tail(q) = 1 .. Len(q) - 1
  BY <1>1, LenProperties, EmptySeq
<1> QED BY <1>1, <1>2, <1>3

LEMMA NothingWaits == ASSUME NEW S PROVE <<>> \in Seq(S) /\ DOMAIN <<>> = {}
  OBVIOUS

(* A queue comes to a good end when the last of the jobs that matter is a    *)
(* good one, or there is none of them and all is well already.               *)
NoneOf(q, S) == \A k \in DOMAIN q : q[k] \notin S

EndsIn(q, S, G, well) ==
  \/ \E k \in DOMAIN q : q[k] \in G /\ \A j \in DOMAIN q : j > k => q[j] \notin S
  \/ NoneOf(q, S) /\ well

LEMMA GoodEnd ==
  ASSUME NEW T, NEW q \in Seq(T), NEW e \in T, NEW S, NEW G, NEW well, e \in G
  PROVE  EndsIn(Append(q, e), S, G, well)
<1> DEFINE r == Append(q, e)
<1>1. /\ Len(q) + 1 \in DOMAIN r /\ r[Len(q) + 1] = e /\ Len(q) + 1 \in Int
      /\ \A k \in DOMAIN r : (k \in DOMAIN q /\ k \in Int /\ k < Len(q) + 1) \/ k = Len(q) + 1
  BY Appended
<1> HIDE DEF r
<1>2. \A j \in DOMAIN r : ~(j > Len(q) + 1)
  BY <1>1
<1>3. EndsIn(r, S, G, well)
  BY <1>1, <1>2 DEF EndsIn
<1> QED BY <1>3 DEF r

LEMMA OtherEnd ==
  ASSUME NEW T, NEW q \in Seq(T), NEW e \in T, NEW S, NEW G, NEW well, e \notin S, EndsIn(q, S, G, well)
  PROVE  EndsIn(Append(q, e), S, G, well)
<1> DEFINE r == Append(q, e)
<1>1. /\ \A k \in DOMAIN r : (k \in DOMAIN q /\ r[k] = q[k]) \/ r[k] = e
      /\ \A k \in DOMAIN q : k \in DOMAIN r /\ r[k] = q[k]
  BY Appended
<1> HIDE DEF r
<1>2. ASSUME NoneOf(q, S) /\ well PROVE EndsIn(r, S, G, well)
  BY <1>1, <1>2 DEF EndsIn, NoneOf
<1>3. ASSUME NEW k \in DOMAIN q, q[k] \in G, \A j \in DOMAIN q : j > k => q[j] \notin S
      PROVE  EndsIn(r, S, G, well)
  BY <1>1, <1>3 DEF EndsIn
<1>4. EndsIn(r, S, G, well)
  <2>1. \/ \E k \in DOMAIN q : q[k] \in G /\ \A j \in DOMAIN q : j > k => q[j] \notin S
        \/ NoneOf(q, S) /\ well
    BY Zenon DEF EndsIn
  <2> QED BY <1>2, <1>3, <2>1, Zenon
<1> QED BY <1>4 DEF r

LEMMA HeadDone ==
  ASSUME NEW T, NEW q \in Seq(T), q # <<>>, NEW S, NEW G, NEW well, NEW after,
         EndsIn(q, S, G, well), Head(q) \in G => after, Head(q) \notin S /\ well => after
  PROVE  EndsIn(Tail(q), S, G, after)
<1> DEFINE r == Tail(q)
<1>1. /\ Head(q) = q[1] /\ 1 \in DOMAIN q /\ \A k \in DOMAIN q : k \in Int /\ k >= 1
      /\ \A k \in DOMAIN r : k + 1 \in DOMAIN q /\ r[k] = q[k + 1] /\ k \in Int
      /\ \A k \in DOMAIN q \ {1} : k - 1 \in DOMAIN r /\ r[k - 1] = q[k]
  BY HeadTaken
<1> HIDE DEF r
<1>2. ASSUME NoneOf(q, S) /\ well PROVE EndsIn(r, S, G, after)
  BY <1>1, <1>2 DEF EndsIn, NoneOf
<1>3. ASSUME NEW k \in DOMAIN q, q[k] \in G, \A j \in DOMAIN q : j > k => q[j] \notin S
      PROVE  EndsIn(r, S, G, after)
  <2>1. \A j \in DOMAIN r : j > k - 1 => r[j] \notin S
    BY <1>1, <1>3
  <2>2. CASE k = 1
    <3>1. NoneOf(r, S)
      <4>1. \A j \in DOMAIN r : j > 0
        BY <1>1, HeadTaken DEF r
      <4> QED BY <2>1, <2>2, <4>1 DEF NoneOf
    <3> QED BY <1>1, <1>3, <2>2, <3>1 DEF EndsIn
  <2>3. CASE k # 1
    BY <1>1, <1>3, <2>1, <2>3 DEF EndsIn
  <2> QED BY <2>2, <2>3
<1>4. EndsIn(r, S, G, after)
  <2>1. \/ \E k \in DOMAIN q : q[k] \in G /\ \A j \in DOMAIN q : j > k => q[j] \notin S
        \/ NoneOf(q, S) /\ well
    BY Zenon DEF EndsIn
  <2> QED BY <1>2, <1>3, <2>1, Zenon
<1> QED BY <1>4 DEF r

-----------------------------------------------------------------------------
(* How the application is replaced by a newer release                        *)

Places ==
  {"first", "asleep", "idle", "claim", "manifest", "signature", "finish", "look", "note", "claim_install",
   "download", "folder", "raise", "run", "remove", "failed", "complain", "left"}
Checking == {"manifest", "signature", "finish"}
Installing == {"download", "folder", "raise", "run", "remove", "failed", "left"}
Found == [version : 0 .. Newest, build : 0 .. Newest]
Folders == [process : 1 .. MaxProcesses, of : Update!Threads, stuck : BOOLEAN]
States == [available : Found, checking : BOOLEAN, installing : BOOLEAN, handing_over : BOOLEAN,
           error : BOOLEAN, announced : 0 .. Newest, due : BOOLEAN]

UpdateTypes ==
  /\ install_dir \in BOOLEAN /\ cleaned \in BOOLEAN /\ overtaken \in BOOLEAN
  /\ update \in States /\ installer \in Found
  /\ duty \in [Update!Threads -> Places] /\ wanted \in [Update!Threads -> Found]
  /\ current \in Update!Versions /\ process \in 1 .. MaxProcesses
  /\ temp \subseteq Folders /\ told \in [Update!Versions -> 0 .. 2]

(* A release the author signed, newer than the copy that runs.               *)
Newer(d, running) == d.build = d.version /\ d.version \in Update!Versions /\ d.version > running

(* What a thread has in hand, where it is. *)
Fits(where, d, running) ==
  /\ where = "signature" => d \in Update!Documents
  /\ where = "finish" => d \in {Update!Failed, Update!Nothing} \/ Newer(d, running)
  /\ where \in {"look", "note", "claim_install", "download", "folder", "raise", "run", "left"} => Newer(d, running)

Carried ==
  /\ update.available = Update!Nothing \/ Newer(update.available, current)
  /\ installer = Update!Nothing \/ Newer(installer, current)
  /\ \A t \in Update!Threads : Fits(duty[t], wanted[t], current)

(* A flag is up if, and only if, one thread is in those places.              *)
FlagOf(where, places, flag) ==
  /\ \A t \in Update!Threads : where[t] \in places => flag
  /\ flag => \E t \in Update!Threads : where[t] \in places
  /\ \A t, u \in Update!Threads : where[t] \in places /\ where[u] \in places => t = u

Flags ==
  /\ FlagOf(duty, Checking, update.checking) /\ FlagOf(duty, Installing, update.installing)
  /\ update.handing_over => update.installing

(* Unless an older release was noted after a newer one, what is noted never  *)
(* goes back, so what was told is not news, nor is what is going to be told. *)
Told ==
  ~overtaken => /\ \A v \in Update!Versions : told[v] <= 1 /\ (told[v] = 1 => v <= update.announced)
                /\ duty[Update!Schedule] = "note" => \/ told[wanted[Update!Schedule].version] = 0
                                                     \/ wanted[Update!Schedule].version < update.announced

Belongs(f) ==
  \/ f.stuck
  \/ f.process = process /\ duty[f.of] \in {"raise", "run", "remove", "left"}
  \/ f.process # process /\ ~cleaned

Kept ==
  /\ \A f \in temp : Belongs(f) /\ f.process <= process
  /\ \A t \in Update!Threads : duty[t] \in {"raise", "run", "left"} => Update!Folder(t) \in temp

UpdatesInv == UpdateTypes /\ Carried /\ Flags /\ Told /\ Kept

-----------------------------------------------------------------------------
(* One thread goes on.                                                       *)
Has(t, d) ==
  /\ wanted' \in [Update!Threads -> Found] /\ wanted'[t] = d
  /\ \A u \in Update!Threads \ {t} : wanted'[u] = wanted[u]

Is(t, to) ==
  /\ duty' \in [Update!Threads -> Places] /\ duty'[t] = to
  /\ \A u \in Update!Threads \ {t} : duty'[u] = duty[u]

LEMMA GoesThere ==
  ASSUME UpdateTypes, NEW t \in Update!Threads, NEW from, NEW to \in Places, Update!Goes(t, from, to)
  PROVE  duty[t] = from /\ Is(t, to)
  BY DEF UpdateTypes, Update!Goes, Is

LEMMA ValuesApart ==
  ASSUME Update!UpdatesAssumption
  PROVE  /\ Update!Nothing \in Found /\ Update!Failed \in Found /\ Update!Nothing # Update!Failed /\ 0 \in 0 .. Newest
         /\ \A d \in Update!Documents : d \in Found /\ d # Update!Nothing /\ d # Update!Failed
         /\ \A d, running : Newer(d, running) => d # Update!Nothing /\ d # Update!Failed
<1>1. Newest \in Nat \ {0} /\ \A v \in Update!Versions : v \in 1 .. Newest /\ v \in 0 .. Newest
  BY DEF Update!UpdatesAssumption, Update!Versions
<1>2. Update!Nothing \in Found /\ Update!Failed \in Found /\ 0 \in 0 .. Newest
  BY <1>1 DEF Update!Nothing, Update!Failed, Found
<1>3. Update!Nothing # Update!Failed
  <2>1. Update!Nothing.build = 0 /\ Update!Failed.build = 1
    BY DEF Update!Nothing, Update!Failed
  <2> QED BY <2>1
<1>4. ASSUME NEW d \in Update!Documents PROVE d \in Found /\ d.version # 0
  BY <1>1, <1>4 DEF Update!Documents, Found, Update!Versions
<1>5. Update!Nothing.version = 0 /\ Update!Failed.version = 0
  BY DEF Update!Nothing, Update!Failed
<1>6. ASSUME NEW d, NEW running, Newer(d, running) PROVE d.version # 0
  BY <1>1, <1>6 DEF Newer
<1> QED BY <1>2, <1>3, <1>4, <1>5, <1>6

LEMMA HandsAre ==
  ASSUME Update!UpdatesAssumption, UpdateTypes, NEW t \in Update!Threads
  PROVE  /\ \A d \in Found : Update!Takes(t, d) => Has(t, d)
         /\ UNCHANGED wanted => Has(t, wanted[t])
         /\ \A to : Is(t, to) /\ Update!Drops(t) => Has(t, IF to = Update!Rest(t) THEN Update!Nothing ELSE wanted[t])
<1>1. Update!Nothing \in Found
  BY ValuesApart
<1>2. ASSUME NEW to, Is(t, to), Update!Drops(t)
      PROVE  Has(t, IF to = Update!Rest(t) THEN Update!Nothing ELSE wanted[t])
  <2>1. duty'[t] = to
    BY <1>2 DEF Is
  <2>2. CASE to = Update!Rest(t)
    <3>1. wanted' = [wanted EXCEPT ![t] = Update!Nothing]
      BY <1>2, <2>1, <2>2 DEF Update!Drops
    <3> QED BY <1>1, <2>2, <3>1 DEF Has, UpdateTypes
  <2>3. CASE to # Update!Rest(t)
    <3>1. wanted' = [wanted EXCEPT ![t] = wanted[t]]
      BY <1>2, <2>1, <2>3 DEF Update!Drops
    <3> QED BY <2>3, <3>1 DEF Has, UpdateTypes
  <2> QED BY <2>2, <2>3
<1>3. ASSUME NEW d \in Found, Update!Takes(t, d) PROVE Has(t, d)
  BY <1>3 DEF UpdateTypes, Update!Takes, Has
<1>4. UNCHANGED wanted => Has(t, wanted[t])
  BY DEF UpdateTypes, Has
<1> QED BY <1>2, <1>3, <1>4

LEMMA FlagStays ==
  ASSUME NEW a, NEW b, NEW P, NEW flag, FlagOf(a, P, flag), NEW t \in Update!Threads,
         b[t] \in P <=> a[t] \in P, \A u \in Update!Threads \ {t} : b[u] = a[u]
  PROVE  FlagOf(b, P, flag)
<1>1. \A u \in Update!Threads : b[u] \in P <=> a[u] \in P
  OBVIOUS
<1> QED BY <1>1 DEF FlagOf

LEMMA FlagRises ==
  ASSUME NEW a, NEW b, NEW P, FlagOf(a, P, FALSE), NEW t \in Update!Threads,
         b[t] \in P, \A u \in Update!Threads \ {t} : b[u] = a[u]
  PROVE  FlagOf(b, P, TRUE)
  BY DEF FlagOf

LEMMA FlagFalls ==
  ASSUME NEW a, NEW b, NEW P, NEW flag, FlagOf(a, P, flag), NEW t \in Update!Threads,
         a[t] \in P, b[t] \notin P, \A u \in Update!Threads \ {t} : b[u] = a[u]
  PROVE  FlagOf(b, P, FALSE)
  BY DEF FlagOf

LEMMA CarriedStays ==
  ASSUME Carried, NEW t \in Update!Threads, NEW to, NEW d, Is(t, to), Has(t, d), Fits(to, d, current),
         current' = current,
         update'.available = Update!Nothing \/ Newer(update'.available, current),
         installer' = Update!Nothing \/ Newer(installer', current)
  PROVE  Carried'
  BY DEF Carried, Is, Has

LEMMA ToldStays ==
  ASSUME Told, NEW t \in Update!Threads, NEW to, NEW d, Is(t, to), Has(t, d),
         UNCHANGED <<told, overtaken>>, update'.announced = update.announced,
         t = Update!Schedule => to # "note"
  PROVE  Told'
<1>1. duty'[Update!Schedule] = "note"
      => duty[Update!Schedule] = "note" /\ wanted'[Update!Schedule] = wanted[Update!Schedule]
  BY DEF Is, Has, Update!Threads
<1> QED BY <1>1 DEF Told

LEMMA KeptStays ==
  ASSUME UpdateTypes, Kept, NEW t \in Update!Threads, NEW to, Is(t, to), UNCHANGED <<temp, process, cleaned>>,
         duty[t] \in {"raise", "run", "remove", "left"} => to \in {"raise", "run", "remove", "left"},
         to \in {"raise", "run", "left"} => duty[t] \in {"raise", "run", "left"}
  PROVE  Kept'
<1>1. ASSUME NEW f \in temp PROVE Belongs(f)'
  <2>1. f.of \in Update!Threads
    BY <1>1 DEF UpdateTypes, Folders
  <2> QED BY <1>1, <2>1 DEF Kept, Belongs, Is
<1>2. ASSUME NEW u \in Update!Threads, duty'[u] \in {"raise", "run", "left"} PROVE Update!Folder(u)' \in temp
  <2>1. duty[u] \in {"raise", "run", "left"}
    BY <1>2 DEF Is
  <2> QED BY <1>2, <2>1 DEF Kept, Update!Folder
<1> QED BY <1>1, <1>2 DEF Kept

(* A step of a thread that leaves everything else alone.                     *)
LEMMA QuietStep ==
  ASSUME UpdatesInv, NEW t \in Update!Threads, NEW from, NEW to \in Places, NEW d \in Found,
         Update!Goes(t, from, to), Has(t, d), Fits(to, d, current), UNCHANGED update, Update!Elsewhere,
         from \in Checking <=> to \in Checking, from \in Installing <=> to \in Installing,
         t = Update!Schedule => to # "note",
         from \in {"raise", "run", "remove", "left"} <=> to \in {"raise", "run", "remove", "left"},
         to \in {"raise", "run", "left"} => from \in {"raise", "run", "left"}
  PROVE  UpdatesInv'
<1>1. duty[t] = from /\ Is(t, to)
  BY GoesThere DEF UpdatesInv
<1>2. UpdateTypes'
  BY <1>1 DEF UpdatesInv, UpdateTypes, Update!Elsewhere, Is, Has
<1>3. Carried'
  <2>1. current' = current /\ installer' = installer /\ update' = update
    BY DEF Update!Elsewhere
  <2> QED BY <1>1, <2>1, CarriedStays DEF UpdatesInv, Carried
<1>4. Flags'
  <2>1. FlagOf(duty', Checking, update.checking) /\ FlagOf(duty', Installing, update.installing)
    BY <1>1, FlagStays, Zenon DEF UpdatesInv, Flags, Is
  <2> QED BY <2>1 DEF UpdatesInv, Flags
<1>5. Told'
  BY <1>1, ToldStays DEF UpdatesInv, Update!Elsewhere
<1>6. Kept'
  BY <1>1, KeptStays DEF UpdatesInv, Update!Elsewhere
<1> QED BY <1>2, <1>3, <1>4, <1>5, <1>6 DEF UpdatesInv

LEMMA UpdatesStart == ASSUME Update!UpdatesAssumption, Update!Init PROVE UpdatesInv
<1>1. UpdateTypes
  <2>1. duty \in [Update!Threads -> Places] /\ wanted \in [Update!Threads -> Found]
        /\ told \in [Update!Versions -> 0 .. 2]
    BY ValuesApart DEF Update!Init, Update!AtStart, Places
  <2>2. update \in States
    BY ValuesApart DEF Update!Init, Update!Fresh, States
  <2>3. current \in Update!Versions /\ process \in 1 .. MaxProcesses
    BY DEF Update!Init, Update!Versions, Update!UpdatesAssumption
  <2> QED BY <2>1, <2>2, <2>3, ValuesApart DEF Update!Init, UpdateTypes
<1>2. \A t \in Update!Threads : duty[t] \in {"first", "idle"}
  BY DEF Update!Init, Update!AtStart
<1>3. Carried
  BY <1>2 DEF Update!Init, Update!Fresh, Carried, Fits
<1>4. Flags
  BY <1>2 DEF Update!Init, Update!Fresh, Flags, FlagOf, Checking, Installing
<1>5. Told
  BY <1>2 DEF Update!Init, Told, Update!Threads
<1>6. Kept
  BY <1>2 DEF Update!Init, Kept
<1> QED BY <1>1, <1>3, <1>4, <1>5, <1>6 DEF UpdatesInv

(* Time passes, or a page does not open: no thread goes on.                  *)
LEMMA OthersHold ==
  ASSUME UpdatesInv, Update!Clock \/ \E t \in Update!Threads : Update!PageFails(t)
  PROVE  UpdatesInv'
<1>1. /\ UNCHANGED <<duty, wanted>> /\ Update!Elsewhere
      /\ update' = [update EXCEPT !.due = TRUE] \/ update' = [update EXCEPT !.error = TRUE]
  BY DEF Update!Clock, Update!PageFails
<1>2. /\ update' \in States /\ update'.available = update.available /\ update'.checking = update.checking
      /\ update'.installing = update.installing /\ update'.handing_over = update.handing_over
      /\ update'.announced = update.announced
  BY <1>1 DEF UpdatesInv, UpdateTypes, States
<1>3. UpdateTypes' /\ Carried'
  BY <1>1, <1>2 DEF UpdatesInv, UpdateTypes, Carried, Update!Elsewhere
<1>4. Flags' /\ Told'
  BY <1>1, <1>2 DEF UpdatesInv, Flags, Told, Update!Elsewhere
<1>5. Kept'
  BY <1>1 DEF UpdatesInv, Kept, Belongs, Update!Folder, Update!Elsewhere
<1> QED BY <1>3, <1>4, <1>5 DEF UpdatesInv

LEMMA TickHolds ==
  ASSUME Update!UpdatesAssumption, UpdatesInv, NEW allowed \in BOOLEAN, Update!Tick(allowed) PROVE UpdatesInv'
<1>1. Update!Schedule \in Update!Threads
  BY DEF Update!Threads
<1>2. UNCHANGED update /\ Update!Elsewhere
  BY DEF Update!Tick
<1>3. CASE Update!Goes(Update!Schedule, "asleep", "claim") /\ UNCHANGED wanted
  <2>1. Has(Update!Schedule, wanted[Update!Schedule]) /\ wanted[Update!Schedule] \in Found
    BY <1>1, <1>3, HandsAre DEF UpdatesInv, UpdateTypes
  <2> QED BY <1>1, <1>2, <1>3, <2>1, QuietStep DEF Places, Checking, Installing, Fits
<1>4. CASE update.available # Update!Nothing
           /\ Update!Goes(Update!Schedule, "asleep", "look") /\ Update!Takes(Update!Schedule, update.available)
  <2>1. Has(Update!Schedule, update.available) /\ update.available \in Found
    BY <1>1, <1>4, HandsAre DEF UpdatesInv, UpdateTypes, States
  <2>2. Newer(update.available, current)
    BY <1>4 DEF UpdatesInv, Carried
  <2> QED BY <1>1, <1>2, <1>4, <2>1, <2>2, QuietStep DEF Places, Checking, Installing, Fits
<1> QED BY <1>3, <1>4 DEF Update!Tick

LEMMA AskingHolds ==
  ASSUME Update!UpdatesAssumption, UpdatesInv, NEW t \in Update!Threads, Update!AskCheck(t) \/ Update!AskInstall(t)
  PROVE  UpdatesInv'
<1>1. CASE Update!AskCheck(t)
  <2>1. Has(t, wanted[t]) /\ wanted[t] \in Found
    BY <1>1, HandsAre DEF UpdatesInv, UpdateTypes, Update!AskCheck
  <2> QED BY <1>1, <2>1, QuietStep DEF Update!AskCheck, Places, Checking, Installing, Fits
<1>2. CASE Update!AskInstall(t)
  <2>1. Has(t, update.available) /\ update.available \in Found
    BY <1>2, HandsAre DEF UpdatesInv, UpdateTypes, States, Update!AskInstall
  <2>2. Newer(update.available, current)
    BY <1>2 DEF UpdatesInv, Carried, Update!AskInstall
  <2> QED BY <1>2, <2>1, <2>2, QuietStep DEF Update!AskInstall, Places, Checking, Installing, Fits
<1> QED BY <1>1, <1>2

LEMMA GetManifestHolds ==
  ASSUME Update!UpdatesAssumption, UpdatesInv, NEW t \in Update!Threads, Update!GetManifest(t) PROVE UpdatesInv'
<1>1. PICK d \in Update!Answers(Update!Documents) :
         Update!Takes(t, d) /\ Update!Goes(t, "manifest", IF d = Update!Failed THEN "finish" ELSE "signature")
  BY DEF Update!GetManifest
<1>2. UNCHANGED update /\ Update!Elsewhere
  BY DEF Update!GetManifest
<1>3. d \in Found /\ (d = Update!Failed \/ d \in Update!Documents) /\ UpdateTypes
  BY ValuesApart DEF Update!Answers, UpdatesInv
<1>4. Has(t, d)
  BY <1>1, <1>3, HandsAre
<1> QED BY <1>1, <1>2, <1>3, <1>4, QuietStep DEF Places, Checking, Installing, Fits

LEMMA GetSignatureHolds ==
  ASSUME Update!UpdatesAssumption, UpdatesInv, NEW t \in Update!Threads, Update!GetSignature(t) PROVE UpdatesInv'
<1>1. PICK signature \in 0 .. Newest :
         LET m == Update!VerifyManifest(wanted[t], signature)
         IN  Update!Takes(t, IF m # Update!Failed /\ m.version <= current THEN Update!Nothing ELSE m)
  BY DEF Update!GetSignature
<1>2. Update!Goes(t, "signature", "finish") /\ UNCHANGED update /\ Update!Elsewhere
  BY DEF Update!GetSignature
<1>3. wanted[t] \in Update!Documents
  BY <1>2 DEF UpdatesInv, Carried, Fits, Update!Goes
<1>4. wanted[t] \in Found /\ wanted[t].version \in Update!Versions /\ current \in Update!Versions
  BY <1>3, ValuesApart DEF Update!Documents, UpdatesInv, UpdateTypes, Update!Versions, Update!UpdatesAssumption
<1>5. PICK d : Update!Takes(t, d) /\ (d \in {Update!Failed, Update!Nothing} \/ Newer(d, current)) /\ d \in Found
  <2> DEFINE m == Update!VerifyManifest(wanted[t], signature)
             d == IF m # Update!Failed /\ m.version <= current THEN Update!Nothing ELSE m
  <2>1. m = Update!Failed \/ (m = wanted[t] /\ m.build = m.version)
    BY DEF Update!VerifyManifest
  <2>2. d \in {Update!Failed, Update!Nothing} \/ (d = wanted[t] /\ d.build = d.version /\ ~(d.version <= current))
    BY <2>1
  <2>3. d \in {Update!Failed, Update!Nothing} \/ Newer(d, current)
    BY <1>4, <2>2, Update!UpdatesAssumption DEF Newer, Update!Versions
  <2>4. d \in Found
    BY <1>4, <2>2, ValuesApart
  <2> QED BY <1>1, <2>3, <2>4
<1>6. Has(t, d)
  BY <1>5, HandsAre DEF UpdatesInv
<1> QED BY <1>2, <1>5, <1>6, QuietStep DEF Places, Checking, Installing, Fits

LEMMA DownloadHolds ==
  ASSUME Update!UpdatesAssumption, UpdatesInv, NEW t \in Update!Threads, Update!Download(t) PROVE UpdatesInv'
<1>1. PICK build \in Update!Versions \cup {0} :
         /\ Update!Goes(t, "download", IF Update!CheckInstaller(build, wanted[t]) THEN "folder" ELSE "failed")
         /\ Update!Takes(t, [wanted[t] EXCEPT !.build = build])
  BY DEF Update!Download
<1>2. UNCHANGED update /\ Update!Elsewhere
  BY DEF Update!Download
<1>3. wanted[t] \in Found /\ Newer(wanted[t], current)
  BY <1>1 DEF UpdatesInv, UpdateTypes, Carried, Fits, Update!Goes
<1>4. [wanted[t] EXCEPT !.build = build] \in Found
  BY <1>3, ValuesApart DEF Found, Update!Versions, Update!UpdatesAssumption
<1>5. CASE build = wanted[t].build
  <2>1. [wanted[t] EXCEPT !.build = build] = wanted[t]
    BY <1>3, <1>5 DEF Found
  <2>2. Update!Goes(t, "download", "folder") /\ Has(t, wanted[t])
    BY <1>1, <1>3, <1>5, <2>1, HandsAre DEF Update!CheckInstaller, UpdatesInv
  <2> QED BY <1>2, <1>3, <2>2, QuietStep DEF Places, Checking, Installing, Fits
<1>6. CASE build # wanted[t].build
  <2>1. Update!Goes(t, "download", "failed") /\ Has(t, [wanted[t] EXCEPT !.build = build])
    BY <1>1, <1>4, <1>6, HandsAre DEF Update!CheckInstaller, UpdatesInv
  <2>2. PICK d \in Found : d = [wanted[t] EXCEPT !.build = build]
    BY <1>4
  <2> QED BY <1>2, <2>1, <2>2, QuietStep DEF Places, Checking, Installing, Fits
<1> QED BY <1>5, <1>6

(* A step of a thread that changes what all of them share, too.              *)
LEMMA SharedStep ==
  ASSUME UpdatesInv, NEW t \in Update!Threads, NEW from, NEW to \in Places, NEW d \in Found,
         Update!Goes(t, from, to), Has(t, d), Fits(to, d, current), Update!Elsewhere,
         update' \in States, update'.announced = update.announced,
         update'.available = Update!Nothing \/ Newer(update'.available, current),
         Flags',
         t = Update!Schedule => to # "note",
         from \in {"raise", "run", "remove", "left"} <=> to \in {"raise", "run", "remove", "left"},
         to \in {"raise", "run", "left"} => from \in {"raise", "run", "left"}
  PROVE  UpdatesInv'
<1>1. duty[t] = from /\ Is(t, to)
  BY GoesThere DEF UpdatesInv
<1>2. UpdateTypes'
  BY <1>1 DEF UpdatesInv, UpdateTypes, Update!Elsewhere, Is, Has
<1>3. Carried'
  <2>1. current' = current /\ installer' = installer
    BY DEF Update!Elsewhere
  <2> QED BY <1>1, <2>1, CarriedStays DEF UpdatesInv, Carried
<1>5. Told'
  BY <1>1, ToldStays DEF UpdatesInv, Update!Elsewhere
<1>6. Kept'
  BY <1>1, KeptStays DEF UpdatesInv, Update!Elsewhere
<1> QED BY <1>2, <1>3, <1>5, <1>6 DEF UpdatesInv

LEMMA ClaimHolds ==
  ASSUME Update!UpdatesAssumption, UpdatesInv, NEW t \in Update!Threads, Update!Claim(t) PROVE UpdatesInv'
<1>1. UNCHANGED wanted /\ Update!Elsewhere /\ Has(t, wanted[t]) /\ wanted[t] \in Found
  BY HandsAre DEF Update!Claim, UpdatesInv, UpdateTypes
<1>2. CASE update.checking \/ update.installing
  <2>1. Update!Goes(t, "claim", Update!Rest(t)) /\ UNCHANGED update /\ Update!Rest(t) \in {"asleep", "idle"}
    BY <1>2 DEF Update!Claim, Update!Rest
  <2>2. CASE Update!Rest(t) = "asleep"
    BY <1>1, <2>1, <2>2, QuietStep DEF Places, Checking, Installing, Fits
  <2>3. CASE Update!Rest(t) = "idle"
    BY <1>1, <2>1, <2>3, QuietStep DEF Places, Checking, Installing, Fits
  <2> QED BY <2>1, <2>2, <2>3
<1>3. CASE ~(update.checking \/ update.installing)
  <2>1. Update!Goes(t, "claim", "manifest") /\ update' = [update EXCEPT !.checking = TRUE]
    BY <1>3 DEF Update!Claim
  <2>2. /\ update' \in States /\ update'.announced = update.announced /\ update'.available = update.available
        /\ update'.checking = TRUE /\ update'.installing = update.installing
        /\ update'.handing_over = update.handing_over
    BY <2>1 DEF UpdatesInv, UpdateTypes, States
  <2>3. duty[t] = "claim" /\ Is(t, "manifest")
    BY <2>1, GoesThere DEF UpdatesInv, Places
  <2>4. FlagOf(duty', Checking, TRUE)
    <3>1. FlagOf(duty, Checking, FALSE)
      BY <1>3 DEF UpdatesInv, UpdateTypes, States, Flags
    <3> QED BY <2>3, <3>1, FlagRises DEF Is, Checking
  <2>5. FlagOf(duty', Installing, update.installing)
    BY <2>3, FlagStays DEF UpdatesInv, Flags, Is, Installing
  <2>6. Flags'
    BY <2>2, <2>4, <2>5 DEF UpdatesInv, Flags
  <2> QED BY <1>1, <2>1, <2>2, <2>6, SharedStep DEF Places, Fits, UpdatesInv, Carried
<1> QED BY <1>2, <1>3

LEMMA FinishCheckHolds ==
  ASSUME Update!UpdatesAssumption, UpdatesInv, NEW t \in Update!Threads, Update!FinishCheck(t) PROVE UpdatesInv'
<1> DEFINE to == IF wanted[t] \in {Update!Failed, Update!Nothing} THEN Update!Rest(t) ELSE "look"
<1>1. /\ Update!Goes(t, "finish", to) /\ to \in {"asleep", "idle", "look"} /\ to \in Places
      /\ Update!Drops(t) /\ Update!Elsewhere /\ update' = Update!Checked(t, wanted[t])
  BY DEF Update!FinishCheck, Update!Rest, Places
<1>2. duty[t] = "finish" /\ Is(t, to)
  BY <1>1, GoesThere DEF UpdatesInv
<1>3. wanted[t] \in Found /\ (wanted[t] \in {Update!Failed, Update!Nothing} \/ Newer(wanted[t], current))
  BY <1>2 DEF UpdatesInv, UpdateTypes, Carried, Fits
<1>4. PICK d \in Found : Has(t, d) /\ Fits(to, d, current)
  <2>1. Has(t, IF to = Update!Rest(t) THEN Update!Nothing ELSE wanted[t])
    BY <1>1, <1>2, HandsAre DEF UpdatesInv
  <2>2. CASE to = Update!Rest(t)
    <3>1. to # "look"
      BY <2>2 DEF Update!Rest
    <3> QED BY <1>1, <2>1, <2>2, <3>1, ValuesApart DEF Fits
  <2>3. CASE to # Update!Rest(t)
    BY <1>3, <2>1, <2>3 DEF Fits
  <2> QED BY <2>2, <2>3
<1>5. /\ update' \in States /\ update'.announced = update.announced
      /\ update'.available \in {update.available, wanted[t]}
         /\ (wanted[t] = Update!Failed => update'.available = update.available)
      /\ update'.checking = FALSE /\ update'.installing = update.installing
      /\ update'.handing_over = update.handing_over
  BY <1>1, <1>3 DEF UpdatesInv, UpdateTypes, States, Update!Checked
<1>6. update'.available = Update!Nothing \/ Newer(update'.available, current)
  BY <1>3, <1>5 DEF UpdatesInv, Carried
<1> HIDE DEF to
<1>7. FlagOf(duty', Checking, FALSE)
  BY <1>1, <1>2, FlagFalls DEF UpdatesInv, Flags, Is, Checking
<1>8. FlagOf(duty', Installing, update.installing)
  BY <1>1, <1>2, FlagStays DEF UpdatesInv, Flags, Is, Installing
<1>9. Flags'
  BY <1>5, <1>7, <1>8 DEF UpdatesInv, Flags
<1> QED BY <1>1, <1>4, <1>5, <1>6, <1>9, SharedStep

LEMMA LookHolds ==
  ASSUME Update!UpdatesAssumption, UpdatesInv, NEW t \in Update!Threads, NEW welcome \in BOOLEAN,
         Update!Look(t, welcome)
  PROVE  UpdatesInv'
<1>1. Update!Drops(t) /\ UNCHANGED update /\ Update!Elsewhere
  BY DEF Update!Look
<1>2. CASE Update!Goes(t, "look", Update!Rest(t))
  <2>1. Is(t, Update!Rest(t)) /\ Update!Rest(t) \in {"asleep", "idle"}
    BY <1>2, GoesThere DEF UpdatesInv, Update!Rest, Places
  <2>2. Has(t, Update!Nothing) /\ Update!Nothing \in Found
    BY <1>1, <2>1, HandsAre, ValuesApart DEF UpdatesInv
  <2>3. CASE Update!Rest(t) = "asleep"
    BY <1>1, <1>2, <2>2, <2>3, QuietStep DEF Places, Checking, Installing, Fits
  <2>4. CASE Update!Rest(t) = "idle"
    BY <1>1, <1>2, <2>2, <2>4, QuietStep DEF Places, Checking, Installing, Fits
  <2> QED BY <2>1, <2>3, <2>4
<1>3. CASE Update!Goes(t, "look", "note") /\ (t # Update!Schedule \/ Update!News(wanted[t].version))
  <2>1. duty[t] = "look" /\ Is(t, "note") /\ wanted[t] \in Found /\ Newer(wanted[t], current)
    BY <1>3, GoesThere DEF UpdatesInv, UpdateTypes, Places, Carried, Fits
  <2>2. Has(t, wanted[t])
    <3>1. "note" # Update!Rest(t)
      BY DEF Update!Rest
    <3> QED BY <1>1, <2>1, <3>1, HandsAre DEF UpdatesInv
  <2>3. CASE t # Update!Schedule
    BY <1>1, <1>3, <2>1, <2>2, <2>3, QuietStep DEF Places, Checking, Installing, Fits
  <2>4. CASE t = Update!Schedule
    <3>1. UpdateTypes'
      BY <1>1, <2>1, <2>2 DEF UpdatesInv, UpdateTypes, Update!Elsewhere, Is, Has
    <3>2. Carried'
      <4>1. current' = current /\ installer' = installer /\ update' = update /\ Fits("note", wanted[t], current)
        BY <1>1, <2>1 DEF Update!Elsewhere, Fits
      <4> QED BY <2>1, <2>2, <4>1, CarriedStays DEF UpdatesInv, Carried
    <3>3. Flags'
      <4>1. FlagOf(duty', Checking, update.checking) /\ FlagOf(duty', Installing, update.installing)
        BY <2>1, FlagStays DEF UpdatesInv, Flags, Is, Checking, Installing
      <4> QED BY <1>1, <4>1 DEF UpdatesInv, Flags
    <3>4. Told'
      <4>1. wanted'[Update!Schedule] = wanted[t] /\ wanted[t].version \in Update!Versions
        BY <2>1, <2>2, <2>4 DEF Has, Newer
      <4>2. update.announced # wanted[t].version /\ update.announced \in 0 .. Newest
        BY <1>3, <2>4 DEF Update!News, UpdatesInv, UpdateTypes, States
      <4>3. told[wanted[t].version] \in 0 .. 2
        BY <4>1 DEF UpdatesInv, UpdateTypes
      <4>4. ~overtaken => told[wanted[t].version] = 0 \/ wanted[t].version < update.announced
        BY <4>1, <4>2, <4>3, Update!UpdatesAssumption DEF UpdatesInv, Told, Update!Versions, Update!UpdatesAssumption
      <4> QED BY <1>1, <4>1, <4>4 DEF UpdatesInv, Told, Update!Elsewhere
    <3>5. Kept'
      BY <1>1, <2>1, KeptStays DEF UpdatesInv, Update!Elsewhere
    <3> QED BY <3>1, <3>2, <3>3, <3>4, <3>5 DEF UpdatesInv
  <2> QED BY <2>3, <2>4
<1> QED BY <1>2, <1>3 DEF Update!Look

LEMMA NoteHolds ==
  ASSUME Update!UpdatesAssumption, UpdatesInv, NEW t \in Update!Threads, Update!Note(t) PROVE UpdatesInv'
<1> DEFINE v == wanted[t].version
<1>1. /\ Update!Goes(t, "note", Update!Rest(t)) /\ update' = [update EXCEPT !.announced = v] /\ Update!Drops(t)
      /\ told' = IF t = Update!Schedule /\ told[v] < 2 THEN [told EXCEPT ![v] = @ + 1] ELSE told
      /\ overtaken' = (overtaken \/ v < update.announced)
      /\ UNCHANGED <<install_dir, current, process, temp, cleaned, installer>>
  BY DEF Update!Note
<1>2. duty[t] = "note" /\ Is(t, Update!Rest(t)) /\ Update!Rest(t) \in {"asleep", "idle"}
  BY <1>1, GoesThere DEF UpdatesInv, Update!Rest, Places
<1>3. Has(t, Update!Nothing) /\ Update!Nothing \in Found
  BY <1>1, <1>2, HandsAre, ValuesApart DEF UpdatesInv
<1>4. v \in Update!Versions /\ v \in 0 .. Newest
  <2>1. Newer(wanted[t], current)
    BY <1>2 DEF UpdatesInv, Carried, Fits
  <2> QED BY <2>1 DEF Newer, Update!Versions, Update!UpdatesAssumption
<1>5. /\ update' \in States /\ update'.announced = v /\ update'.available = update.available
      /\ update'.checking = update.checking /\ update'.installing = update.installing
      /\ update'.handing_over = update.handing_over /\ update.announced \in 0 .. Newest
  BY <1>1, <1>4 DEF UpdatesInv, UpdateTypes, States
<1> HIDE DEF v
<1>6. /\ told' \in [Update!Versions -> 0 .. 2]
      /\ \A w \in Update!Versions : IF w = v /\ t = Update!Schedule /\ told[v] < 2
         THEN told'[w] = told[w] + 1 ELSE told'[w] = told[w]
      /\ told \in [Update!Versions -> 0 .. 2]
  <2>1. told \in [Update!Versions -> 0 .. 2]
    BY DEF UpdatesInv, UpdateTypes
  <2>2. CASE t = Update!Schedule /\ told[v] < 2
    <3>1. told' = [told EXCEPT ![v] = told[v] + 1] /\ told[v] + 1 \in 0 .. 2
      BY <1>1, <1>4, <2>1, <2>2
    <3> QED BY <1>4, <2>1, <2>2, <3>1
  <2>3. CASE ~(t = Update!Schedule /\ told[v] < 2)
    BY <1>1, <2>1, <2>3
  <2> QED BY <2>2, <2>3
<1>7. UpdateTypes'
  <2>1. overtaken' \in BOOLEAN
    BY <1>1, <1>4, <1>5 DEF UpdatesInv, UpdateTypes
  <2> QED BY <1>1, <1>2, <1>3, <1>5, <1>6, <2>1 DEF UpdatesInv, UpdateTypes, Is, Has
<1>8. Carried'
  <2>1. Fits(Update!Rest(t), Update!Nothing, current)
    BY <1>2 DEF Fits
  <2> QED BY <1>1, <1>2, <1>3, <1>5, <2>1, CarriedStays DEF UpdatesInv, Carried
<1>9. Flags'
  <2>1. FlagOf(duty', Checking, update.checking) /\ FlagOf(duty', Installing, update.installing)
    BY <1>2, FlagStays DEF UpdatesInv, Flags, Is, Checking, Installing
  <2> QED BY <1>5, <2>1 DEF UpdatesInv, Flags
<1>10. Told'
  <2> SUFFICES ASSUME ~overtaken' PROVE Told'
    BY DEF Told
  <2>1. ~overtaken /\ v >= update.announced
    <3>1. ~(overtaken \/ v < update.announced)
      BY <1>1, Zenon
    <3> QED BY <1>4, <1>5, <3>1 DEF Update!Versions, Update!UpdatesAssumption
  <2>2. /\ \A w \in Update!Versions : told[w] <= 1 /\ (told[w] = 1 => w <= update.announced)
        /\ duty[Update!Schedule] = "note" => \/ told[wanted[Update!Schedule].version] = 0
                                             \/ wanted[Update!Schedule].version < update.announced
    BY <2>1 DEF UpdatesInv, Told
  <2>3. CASE t = Update!Schedule
    <3>1. told[v] = 0
      BY <1>2, <2>1, <2>2, <2>3, <1>4, <1>5 DEF v, Update!Versions, Update!UpdatesAssumption
    <3>2. ASSUME NEW w \in Update!Versions PROVE told'[w] <= 1 /\ (told'[w] = 1 => w <= v)
      BY <1>4, <1>5, <1>6, <2>1, <2>2, <2>3, <3>1 DEF Update!Versions, Update!UpdatesAssumption
    <3>3. duty'[Update!Schedule] # "note"
      BY <1>2, <2>3 DEF Is
    <3> QED BY <1>5, <3>2, <3>3 DEF Told
  <2>4. CASE t # Update!Schedule
    <3>1. told' = told
          /\ duty'[Update!Schedule] = duty[Update!Schedule] /\ wanted'[Update!Schedule] = wanted[Update!Schedule]
      BY <1>1, <1>2, <1>3, <2>4 DEF Is, Has, Update!Threads
    <3>2. ASSUME NEW w \in Update!Versions PROVE told[w] <= 1 /\ (told[w] = 1 => w <= v)
      BY <1>4, <1>5, <2>1, <2>2 DEF Update!Versions, Update!UpdatesAssumption
    <3>3. duty[Update!Schedule] = "note"
          => told[wanted[Update!Schedule].version] = 0 \/ wanted[Update!Schedule].version < v
      <4>1. wanted[Update!Schedule].version \in 0 .. Newest
        BY DEF UpdatesInv, UpdateTypes, Found, Update!Threads
      <4> QED BY <1>4, <1>5, <2>1, <2>2, <4>1 DEF Update!UpdatesAssumption
    <3> QED BY <1>5, <3>1, <3>2, <3>3 DEF Told
  <2> QED BY <2>3, <2>4
<1>11. Kept'
  BY <1>1, <1>2, KeptStays DEF UpdatesInv
<1> QED BY <1>7, <1>8, <1>9, <1>10, <1>11 DEF UpdatesInv

LEMMA BeginInstallHolds ==
  ASSUME Update!UpdatesAssumption, UpdatesInv, NEW t \in Update!Threads, Update!BeginInstall(t) PROVE UpdatesInv'
<1>1. Update!Drops(t) /\ Update!Elsewhere
  BY DEF Update!BeginInstall
<1>2. CASE update.installing
  <2>1. Update!Goes(t, "claim_install", "idle") /\ UNCHANGED update /\ Is(t, "idle")
    BY <1>2, GoesThere DEF Update!BeginInstall, UpdatesInv, Places
  <2>2. PICK d \in Found : Has(t, d)
    <3>1. Has(t, IF "idle" = Update!Rest(t) THEN Update!Nothing ELSE wanted[t])
          /\ Update!Nothing \in Found /\ wanted[t] \in Found
      BY <1>1, <2>1, HandsAre, ValuesApart DEF UpdatesInv, UpdateTypes
    <3> QED BY <3>1
  <2> QED BY <1>1, <2>1, <2>2, QuietStep DEF Places, Checking, Installing, Fits
<1>3. CASE ~update.installing
  <2>1. /\ Update!Goes(t, "claim_install", "download")
        /\ update' = [update EXCEPT !.installing = TRUE, !.error = FALSE]
    BY <1>3 DEF Update!BeginInstall
  <2>2. /\ update' \in States /\ update'.announced = update.announced /\ update'.available = update.available
        /\ update'.checking = update.checking /\ update'.installing = TRUE
        /\ update'.handing_over = update.handing_over
    BY <2>1 DEF UpdatesInv, UpdateTypes, States
  <2>3. duty[t] = "claim_install" /\ Is(t, "download") /\ wanted[t] \in Found /\ Newer(wanted[t], current)
    BY <2>1, GoesThere DEF UpdatesInv, UpdateTypes, Places, Carried, Fits
  <2>4. Has(t, wanted[t])
    <3>1. "download" # Update!Rest(t)
      BY DEF Update!Rest
    <3> QED BY <1>1, <2>3, <3>1, HandsAre DEF UpdatesInv
  <2>5. FlagOf(duty', Installing, TRUE)
    <3>1. FlagOf(duty, Installing, FALSE)
      BY <1>3 DEF UpdatesInv, UpdateTypes, States, Flags
    <3> QED BY <2>3, <3>1, FlagRises DEF Is, Installing
  <2>6. FlagOf(duty', Checking, update.checking)
    BY <2>3, FlagStays DEF UpdatesInv, Flags, Is, Checking
  <2>7. Flags'
    BY <2>2, <2>5, <2>6 DEF Flags
  <2> QED BY <1>1, <2>1, <2>2, <2>3, <2>4, <2>7, SharedStep DEF Places, Fits, UpdatesInv, Carried
<1> QED BY <1>2, <1>3

(* The folders.                                                              *)
LEMMA FolderStep ==
  ASSUME UpdatesInv, NEW t \in Update!Threads, NEW from, NEW to \in Places,
         Update!Goes(t, from, to), Has(t, wanted[t]), Fits(to, wanted[t], current),
         UNCHANGED <<install_dir, update, current, process, overtaken, told>>, cleaned' \in BOOLEAN,
         installer' = installer \/ (Newer(installer', current) /\ installer' \in Found),
         temp' \subseteq Folders, Kept',
         from \in Checking <=> to \in Checking, from \in Installing <=> to \in Installing, to # "note"
  PROVE  UpdatesInv'
<1>1. duty[t] = from /\ Is(t, to)
  BY GoesThere DEF UpdatesInv
<1>2. UpdateTypes'
  BY <1>1 DEF UpdatesInv, UpdateTypes, Is, Has
<1>3. Carried'
  BY <1>1, CarriedStays DEF UpdatesInv, Carried
<1>4. Flags'
  <2>1. FlagOf(duty', Checking, update.checking) /\ FlagOf(duty', Installing, update.installing)
    BY <1>1, FlagStays, Zenon DEF UpdatesInv, Flags, Is
  <2> QED BY <2>1 DEF UpdatesInv, Flags
<1>5. Told'
  BY <1>1, ToldStays DEF UpdatesInv
<1> QED BY <1>2, <1>3, <1>4, <1>5 DEF UpdatesInv

LEMMA MakeFolderHolds ==
  ASSUME Update!UpdatesAssumption, UpdatesInv, NEW t \in Update!Threads, Update!MakeFolder(t) PROVE UpdatesInv'
<1>1. /\ Has(t, wanted[t]) /\ wanted[t] \in Found
      /\ UNCHANGED <<install_dir, update, wanted, current, process, cleaned, installer, told, overtaken>>
      /\ temp \subseteq Folders /\ cleaned \in BOOLEAN
  BY HandsAre DEF Update!MakeFolder, UpdatesInv, UpdateTypes
<1>2. CASE Update!Goes(t, "folder", "raise") /\ temp' = temp \cup {Update!Folder(t)}
  <2>1. duty[t] = "folder" /\ Is(t, "raise") /\ Newer(wanted[t], current)
    BY <1>2, GoesThere DEF UpdatesInv, Places, Carried, Fits
  <2>2. Update!Folder(t) \in Folders /\ Update!Folder(t).process = process /\ Update!Folder(t).of = t
    BY DEF Update!Folder, Folders, UpdatesInv, UpdateTypes
  <2>3. temp' \subseteq Folders
    BY <1>1, <1>2, <2>2
  <2>4. process \in Nat
    BY DEF UpdatesInv, UpdateTypes, Update!UpdatesAssumption
  <2>5. Kept'
    <3>1. ASSUME NEW f \in temp' PROVE Belongs(f)' /\ f.process <= process
      <4>1. CASE f = Update!Folder(t)
        BY <1>1, <2>1, <2>2, <2>4, <4>1 DEF Belongs, Is
      <4>2. CASE f \in temp
        <5>1. f.of \in Update!Threads /\ Belongs(f) /\ f.process <= process
          BY <4>2, <1>1 DEF UpdatesInv, Kept, Folders
        <5> QED BY <1>1, <2>1, <5>1 DEF Belongs, Is
      <4> QED BY <1>2, <4>1, <4>2
    <3>2. ASSUME NEW u \in Update!Threads, duty'[u] \in {"raise", "run", "left"} PROVE Update!Folder(u) \in temp'
      BY <1>2, <2>1, <3>2 DEF UpdatesInv, Kept, Is
    <3>3. \A u \in Update!Threads : Update!Folder(u)' = Update!Folder(u)
      BY <1>1 DEF Update!Folder
    <3> QED BY <1>1, <3>1, <3>2, <3>3 DEF Kept
  <2>6. Fits("raise", wanted[t], current) /\ "raise" \in Places /\ "raise" # "note"
        /\ ("folder" \in Checking <=> "raise" \in Checking) /\ ("folder" \in Installing <=> "raise" \in Installing)
    BY <2>1 DEF Places, Checking, Installing, Fits
  <2> QED BY <1>1, <1>2, <2>3, <2>5, <2>6, FolderStep
<1>3. CASE Update!Goes(t, "folder", "failed") /\ UNCHANGED temp
  BY <1>1, <1>3, QuietStep DEF Update!Elsewhere, Places, Checking, Installing, Fits
<1> QED BY <1>2, <1>3 DEF Update!MakeFolder

LEMMA RaiseHolds ==
  ASSUME Update!UpdatesAssumption, UpdatesInv, NEW t \in Update!Threads, Update!Raise(t) PROVE UpdatesInv'
<1>1. /\ Has(t, wanted[t]) /\ wanted[t] \in Found /\ Update!Elsewhere
  BY HandsAre DEF Update!Raise, UpdatesInv, UpdateTypes
<1>2. CASE Update!Goes(t, "raise", "remove") /\ UNCHANGED update
  BY <1>1, <1>2, QuietStep DEF Places, Checking, Installing, Fits
<1>3. ASSUME NEW to \in {"remove", "run"},
             Update!Goes(t, "raise", to), update' = [update EXCEPT !.handing_over = TRUE]
      PROVE  UpdatesInv'
  <2>1. duty[t] = "raise" /\ Is(t, to) /\ Newer(wanted[t], current) /\ to \in Places
    BY <1>3, GoesThere DEF UpdatesInv, Places, Carried, Fits
  <2>2. /\ update' \in States /\ update'.announced = update.announced /\ update'.available = update.available
        /\ update'.checking = update.checking /\ update'.installing = update.installing
    BY <1>3 DEF UpdatesInv, UpdateTypes, States
  <2>3. FlagOf(duty', Checking, update.checking) /\ FlagOf(duty', Installing, update.installing)
    BY <1>3, <2>1, FlagStays DEF UpdatesInv, Flags, Is, Checking, Installing
  <2>4. update.installing
    BY <2>1 DEF UpdatesInv, Flags, FlagOf, Installing
  <2>5. Flags'
    BY <2>2, <2>3, <2>4 DEF Flags
  <2>6. Fits(to, wanted[t], current) /\ to # "note"
    BY <1>3, <2>1 DEF Fits
  <2> QED BY <1>1, <1>3, <2>1, <2>2, <2>5, <2>6, SharedStep DEF UpdatesInv, Carried
<1> QED BY <1>2, <1>3 DEF Update!Raise

LEMMA RunInstallerHolds ==
  ASSUME Update!UpdatesAssumption, UpdatesInv, NEW t \in Update!Threads, Update!RunInstaller(t) PROVE UpdatesInv'
<1>1. /\ Has(t, wanted[t]) /\ wanted[t] \in Found
      /\ UNCHANGED <<install_dir, update, wanted, current, process, temp, cleaned, told, overtaken>>
      /\ temp \subseteq Folders /\ cleaned \in BOOLEAN
  BY HandsAre DEF Update!RunInstaller, UpdatesInv, UpdateTypes
<1>2. ASSUME NEW to \in {"left", "remove"}, Update!Goes(t, "run", to),
             installer' = IF to = "left" THEN wanted[t] ELSE installer
      PROVE  UpdatesInv'
  <2>1. duty[t] = "run" /\ Is(t, to) /\ Newer(wanted[t], current)
    BY <1>2, GoesThere DEF UpdatesInv, Places, Carried, Fits
  <2>2. Kept'
    BY <1>1, <1>2, <2>1, KeptStays DEF UpdatesInv
  <2>3. Fits(to, wanted[t], current) /\ to \in Places /\ to # "note"
        /\ ("run" \in Checking <=> to \in Checking) /\ ("run" \in Installing <=> to \in Installing)
    BY <1>2, <2>1 DEF Places, Checking, Installing, Fits
  <2>4. installer' = installer \/ (Newer(installer', current) /\ installer' \in Found)
    BY <1>1, <1>2, <2>1
  <2> QED BY <1>1, <1>2, <2>2, <2>3, <2>4, FolderStep
<1> QED BY <1>2 DEF Update!RunInstaller

(* What is removed is gone or stays as stuck; what is not is left alone.     *)
LEMMA RemovalsAre ==
  ASSUME UpdateTypes, NEW S \in SUBSET temp, temp' \in Update!Removals(S)
  PROVE  /\ temp' \subseteq Folders
         /\ \A f \in temp' : f \in temp \ S \/ (f.stuck /\ \E g \in S : f.process = g.process)
         /\ temp \ S \subseteq temp'
<1>1. PICK K \in SUBSET S : temp' = (temp \ S) \cup {[f EXCEPT !.stuck = TRUE] : f \in K}
  BY DEF Update!Removals
<1>2. temp \subseteq Folders
  BY DEF UpdateTypes
<1>3. ASSUME NEW f \in K
      PROVE  /\ [f EXCEPT !.stuck = TRUE] \in Folders /\ [f EXCEPT !.stuck = TRUE].stuck
             /\ [f EXCEPT !.stuck = TRUE].process = f.process
  <2>1. f \in Folders
    BY <1>1, <1>2
  <2> QED BY <2>1 DEF Folders
<1> QED BY <1>1, <1>2, <1>3

LEMMA RemoveFolderHolds ==
  ASSUME Update!UpdatesAssumption, UpdatesInv, NEW t \in Update!Threads, Update!RemoveFolder(t) PROVE UpdatesInv'
<1>1. /\ Has(t, wanted[t]) /\ wanted[t] \in Found /\ Update!Goes(t, "remove", "failed")
      /\ UNCHANGED <<install_dir, update, wanted, current, process, cleaned, installer, told, overtaken>>
      /\ cleaned \in BOOLEAN
  BY HandsAre DEF Update!RemoveFolder, UpdatesInv, UpdateTypes
<1>2. duty[t] = "remove" /\ Is(t, "failed")
  BY <1>1, GoesThere DEF UpdatesInv, Places
<1>3. /\ temp' \subseteq Folders
      /\ \A f \in temp' : f \in temp \ Update!FoldersOf(t)
         \/ (f.stuck /\ \E g \in Update!FoldersOf(t) : f.process = g.process)
      /\ temp \ Update!FoldersOf(t) \subseteq temp'
  <2>1. Update!FoldersOf(t) \in SUBSET temp
    BY DEF Update!FoldersOf
  <2> QED BY <2>1, RemovalsAre DEF Update!RemoveFolder, UpdatesInv
<1>4. ASSUME NEW f \in temp' PROVE Belongs(f)' /\ f.process <= process
  <2>1. CASE f \in temp \ Update!FoldersOf(t)
    <3>1. Belongs(f) /\ f.process <= process /\ f.of \in Update!Threads
      BY <2>1 DEF UpdatesInv, UpdateTypes, Kept, Folders
    <3>2. f.stuck \/ f.process # process \/ f.of # t
      BY <2>1 DEF Update!FoldersOf
    <3> QED BY <1>1, <1>2, <3>1, <3>2 DEF Belongs, Is
  <2>2. CASE f.stuck /\ \E g \in Update!FoldersOf(t) : f.process = g.process
    BY <2>2 DEF Belongs, Update!FoldersOf, UpdatesInv, Kept
  <2> QED BY <1>3, <1>4, <2>1, <2>2
<1>5. ASSUME NEW u \in Update!Threads, duty'[u] \in {"raise", "run", "left"} PROVE Update!Folder(u) \in temp'
  <2>1. u # t /\ Update!Folder(u) \in temp
    BY <1>2, <1>5 DEF UpdatesInv, Kept, Is
  <2>2. Update!Folder(u).of = u
    BY DEF Update!Folder
  <2> QED BY <1>3, <2>1, <2>2 DEF Update!FoldersOf
<1>6. Kept'
  <2>1. \A u \in Update!Threads : Update!Folder(u)' = Update!Folder(u)
    BY <1>1 DEF Update!Folder
  <2> QED BY <1>1, <1>4, <1>5, <2>1 DEF Kept
<1>7. Fits("failed", wanted[t], current) /\ "failed" \in Places /\ "failed" # "note"
      /\ ("remove" \in Checking <=> "failed" \in Checking) /\ ("remove" \in Installing <=> "failed" \in Installing)
  BY DEF Places, Checking, Installing, Fits
<1> QED BY <1>1, <1>3, <1>6, <1>7, FolderStep

LEMMA RemoveOldHolds ==
  ASSUME Update!UpdatesAssumption, UpdatesInv, Update!RemoveOldDownloads PROVE UpdatesInv'
<1> DEFINE S == {f \in temp : f.process # process}
<1>0. Update!Schedule \in Update!Threads
  BY DEF Update!Threads
<1>1. /\ Has(Update!Schedule, wanted[Update!Schedule]) /\ wanted[Update!Schedule] \in Found
         /\ Update!Goes(Update!Schedule, "first", "asleep")
      /\ UNCHANGED <<install_dir, update, wanted, current, process, installer, told, overtaken>>
      /\ cleaned' = TRUE
  BY <1>0, HandsAre DEF Update!RemoveOldDownloads, UpdatesInv, UpdateTypes
<1>2. duty[Update!Schedule] = "first" /\ Is(Update!Schedule, "asleep")
  BY <1>0, <1>1, GoesThere DEF UpdatesInv, Places
<1>3. /\ temp' \subseteq Folders
      /\ \A f \in temp' : f \in temp \ S \/ (f.stuck /\ \E g \in S : f.process = g.process)
      /\ temp \ S \subseteq temp'
  BY RemovalsAre DEF Update!RemoveOldDownloads, UpdatesInv
<1>4. ASSUME NEW f \in temp' PROVE Belongs(f)' /\ f.process <= process
  <2>1. CASE f \in temp \ S
    <3>1. Belongs(f) /\ f.process = process /\ f.process <= process /\ f.of \in Update!Threads
      BY <2>1 DEF UpdatesInv, UpdateTypes, Kept, Folders
    <3> QED BY <1>0, <1>1, <1>2, <3>1 DEF Belongs, Is
  <2>2. CASE f.stuck /\ \E g \in S : f.process = g.process
    BY <2>2 DEF Belongs, UpdatesInv, Kept
  <2> QED BY <1>3, <1>4, <2>1, <2>2
<1>5. ASSUME NEW u \in Update!Threads, duty'[u] \in {"raise", "run", "left"} PROVE Update!Folder(u) \in temp'
  <2>1. Update!Folder(u) \in temp
    BY <1>2, <1>5 DEF UpdatesInv, Kept, Is
  <2>2. Update!Folder(u).process = process
    BY DEF Update!Folder
  <2> QED BY <1>3, <2>1, <2>2
<1>6. Kept'
  <2>1. \A u \in Update!Threads : Update!Folder(u)' = Update!Folder(u)
    BY <1>1 DEF Update!Folder
  <2> QED BY <1>1, <1>4, <1>5, <2>1 DEF Kept
<1>7. Fits("asleep", wanted[Update!Schedule], current) /\ "asleep" \in Places /\ "asleep" # "note"
      /\ ("first" \in Checking <=> "asleep" \in Checking) /\ ("first" \in Installing <=> "asleep" \in Installing)
  BY DEF Places, Checking, Installing, Fits
<1> QED BY <1>0, <1>1, <1>3, <1>6, <1>7, FolderStep

(* An installation that ends.                                                *)
LEMMA InstallFailsHolds ==
  ASSUME Update!UpdatesAssumption, UpdatesInv, NEW t \in Update!Threads, Update!InstallFails(t) PROVE UpdatesInv'
<1>1. /\ Update!Goes(t, "failed", "complain") /\ Update!Drops(t) /\ Update!Elsewhere
      /\ update' = [update EXCEPT !.installing = FALSE, !.handing_over = FALSE]
  BY DEF Update!InstallFails
<1>2. duty[t] = "failed" /\ Is(t, "complain")
  BY <1>1, GoesThere DEF UpdatesInv, Places
<1>3. Has(t, wanted[t]) /\ wanted[t] \in Found
  <2>1. "complain" # Update!Rest(t)
    BY DEF Update!Rest
  <2> QED BY <1>1, <1>2, <2>1, HandsAre DEF UpdatesInv, UpdateTypes
<1>4. /\ update' \in States /\ update'.announced = update.announced /\ update'.available = update.available
      /\ update'.checking = update.checking /\ update'.installing = FALSE /\ update'.handing_over = FALSE
  BY <1>1 DEF UpdatesInv, UpdateTypes, States
<1>5. FlagOf(duty', Checking, update.checking) /\ FlagOf(duty', Installing, FALSE)
  <2>1. FlagOf(duty', Checking, update.checking)
    BY <1>2, FlagStays DEF UpdatesInv, Flags, Is, Checking
  <2>2. FlagOf(duty', Installing, FALSE)
    BY <1>2, FlagFalls DEF UpdatesInv, Flags, Is, Installing
  <2> QED BY <2>1, <2>2
<1>6. Flags'
  BY <1>4, <1>5 DEF Flags
<1>7. Fits("complain", wanted[t], current) /\ "complain" \in Places
  BY DEF Fits, Places
<1> QED BY <1>1, <1>3, <1>4, <1>6, <1>7, SharedStep DEF UpdatesInv, Carried

LEMMA UpdateFailedHolds ==
  ASSUME Update!UpdatesAssumption, UpdatesInv, NEW t \in Update!Threads, Update!UpdateFailed(t) PROVE UpdatesInv'
<1>1. Update!Goes(t, "complain", "idle") /\ Update!Drops(t)
      /\ Update!Elsewhere /\ update' = [update EXCEPT !.error = TRUE]
  BY DEF Update!UpdateFailed
<1>2. duty[t] = "complain" /\ Is(t, "idle")
  BY <1>1, GoesThere DEF UpdatesInv, Places
<1>3. PICK d \in Found : Has(t, d)
  <2>1. Has(t, IF "idle" = Update!Rest(t) THEN Update!Nothing ELSE wanted[t])
        /\ Update!Nothing \in Found /\ wanted[t] \in Found
    BY <1>1, <1>2, HandsAre, ValuesApart DEF UpdatesInv, UpdateTypes
  <2> QED BY <2>1
<1>4. /\ update' \in States /\ update'.announced = update.announced /\ update'.available = update.available
      /\ update'.checking = update.checking /\ update'.installing = update.installing
      /\ update'.handing_over = update.handing_over
  BY <1>1 DEF UpdatesInv, UpdateTypes, States
<1>5. FlagOf(duty', Checking, update.checking) /\ FlagOf(duty', Installing, update.installing)
  BY <1>2, FlagStays DEF UpdatesInv, Flags, Is, Checking, Installing
<1>6. Flags'
  BY <1>4, <1>5 DEF UpdatesInv, Flags
<1>7. Fits("idle", d, current) /\ "idle" \in Places
  BY DEF Fits, Places
<1> QED BY <1>1, <1>3, <1>4, <1>6, <1>7, SharedStep DEF UpdatesInv, Carried

LEMMA RestartHolds == ASSUME Update!UpdatesAssumption, UpdatesInv, Update!Restart PROVE UpdatesInv'
<1>1. /\ process' = process + 1 /\ process < MaxProcesses
      /\ current' \in IF installer = Update!Nothing THEN {current} ELSE {current, installer.build}
      /\ installer' = Update!Nothing /\ update' = Update!Fresh /\ duty' = Update!AtStart
      /\ wanted' = [t \in Update!Threads |-> Update!Nothing] /\ cleaned' = FALSE
      /\ told' = [v \in Update!Versions |-> 0] /\ overtaken' = FALSE /\ UNCHANGED <<install_dir, temp>>
  BY DEF Update!Restart
<1>2. current' \in Update!Versions
  BY <1>1 DEF UpdatesInv, UpdateTypes, Carried, Newer
<1>3. process' \in 1 .. MaxProcesses /\ process \in 1 .. MaxProcesses
  BY <1>1 DEF UpdatesInv, UpdateTypes, Update!UpdatesAssumption
<1>4. \A t \in Update!Threads : duty'[t] \in {"first", "idle"}
  BY <1>1 DEF Update!AtStart
<1>5. UpdateTypes'
  <2>1. duty' \in [Update!Threads -> Places] /\ wanted' \in [Update!Threads -> Found]
        /\ told' \in [Update!Versions -> 0 .. 2]
    BY <1>1, ValuesApart DEF Update!AtStart, Places
  <2>2. update' \in States
    BY <1>1, ValuesApart DEF Update!Fresh, States
  <2> QED BY <1>1, <1>2, <1>3, <2>1, <2>2, ValuesApart DEF UpdatesInv, UpdateTypes
<1>6. update'.available = Update!Nothing /\ update'.checking = FALSE /\ update'.installing = FALSE
      /\ update'.handing_over = FALSE
  BY <1>1 DEF Update!Fresh
<1>7. Carried'
  BY <1>1, <1>4, <1>6 DEF Carried, Fits
<1>8. Flags'
  BY <1>4, <1>6 DEF Flags, FlagOf, Checking, Installing
<1>9. Told'
  <2>1. \A v \in Update!Versions : told'[v] = 0
    BY <1>1
  <2>2. duty'[Update!Schedule] # "note"
    BY <1>4 DEF Update!Threads
  <2> QED BY <2>1, <2>2 DEF Told
<1>10. Kept'
  <2>1. ASSUME NEW f \in temp PROVE Belongs(f)' /\ f.process <= process'
    <3>1. f.process <= process /\ f.process \in 1 .. MaxProcesses
      BY DEF UpdatesInv, UpdateTypes, Kept, Folders
    <3> QED BY <1>1, <1>3, <3>1 DEF Belongs
  <2> QED BY <1>1, <1>4, <2>1 DEF Kept
<1> QED BY <1>5, <1>7, <1>8, <1>9, <1>10 DEF UpdatesInv

LEMMA UpdatesStep == ASSUME Update!UpdatesAssumption, UpdatesInv, Update!Next PROVE UpdatesInv'
<1>1. CASE Update!Clock \/ Update!Restart \/ Update!RemoveOldDownloads
  BY <1>1, OthersHold, RestartHolds, RemoveOldHolds, Zenon
<1>2. CASE \E allowed \in BOOLEAN : Update!Tick(allowed)
  BY <1>2, TickHolds, Zenon
<1>3. ASSUME NEW t \in Update!Threads,
             \/ Update!AskCheck(t) \/ Update!Claim(t) \/ Update!GetManifest(t)
                \/ Update!GetSignature(t) \/ Update!FinishCheck(t)
             \/ \E welcome \in BOOLEAN : Update!Look(t, welcome)
             \/ Update!Note(t)
      PROVE  UpdatesInv'
  BY <1>3, AskingHolds, ClaimHolds, GetManifestHolds, GetSignatureHolds, FinishCheckHolds, LookHolds,
     NoteHolds, Zenon
<1>4. ASSUME NEW t \in Update!Threads,
             \/ Update!AskInstall(t) \/ Update!BeginInstall(t) \/ Update!Download(t)
                \/ Update!MakeFolder(t) \/ Update!Raise(t)
             \/ Update!RunInstaller(t) \/ Update!RemoveFolder(t) \/ Update!InstallFails(t)
             \/ Update!UpdateFailed(t) \/ Update!PageFails(t)
      PROVE  UpdatesInv'
  BY <1>4, AskingHolds, BeginInstallHolds, DownloadHolds, MakeFolderHolds, RaiseHolds, RunInstallerHolds,
     RemoveFolderHolds, InstallFailsHolds, UpdateFailedHolds, OthersHold, Zenon
<1> QED BY <1>1, <1>2, <1>3, <1>4, Zenon DEF Update!Next

LEMMA UpdatesStutter == ASSUME UpdatesInv, UNCHANGED updatesVars PROVE UpdatesInv'
<1>1. UNCHANGED <<install_dir, update, duty, wanted, current, process, temp, cleaned, installer, told, overtaken>>
  BY DEF updatesVars
<1>2. UpdateTypes' /\ Carried'
  BY <1>1 DEF UpdatesInv, UpdateTypes, Carried
<1>3. Flags' /\ Told'
  BY <1>1 DEF UpdatesInv, Flags, Told
<1>4. Kept'
  BY <1>1 DEF UpdatesInv, Kept, Belongs, Update!Folder
<1> QED BY <1>2, <1>3, <1>4 DEF UpdatesInv

LEMMA OneOf ==
  ASSUME NEW P, NEW flag \in BOOLEAN, FlagOf(duty, P, flag)
  PROVE  Cardinality({t \in Update!Threads : duty[t] \in P}) = IF flag THEN 1 ELSE 0
<1>1. CASE flag
  <2>1. PICK t \in Update!Threads : duty[t] \in P
    BY <1>1 DEF FlagOf
  <2>2. {u \in Update!Threads : duty[u] \in P} = {t}
    BY <2>1 DEF FlagOf
  <2> QED BY <1>1, <2>2, FS_Singleton
<1>2. CASE ~flag
  <2>1. {u \in Update!Threads : duty[u] \in P} = {}
    BY <1>2 DEF FlagOf
  <2> QED BY <1>2, <2>1, FS_EmptySet
<1> QED BY <1>1, <1>2

LEMMA UpdatesKeep ==
  ASSUME Update!UpdatesAssumption, UpdatesInv
  PROVE  /\ Update!TypeOK /\ Update!OnlyTheAuthorsBuildRuns /\ Update!FlagsComeDown
         /\ Update!AnnouncedOnce /\ Update!DownloadsAreRemoved
<1>1. Update!TypeOK
  <2>1. update.available \in Update!Documents \cup {Update!Nothing}
    <3>1. CASE Newer(update.available, current)
      <4>1. /\ update.available = [version |-> update.available.version, build |-> update.available.build]
            /\ update.available.build = update.available.version /\ update.available.version \in Update!Versions
        BY <3>1 DEF UpdatesInv, UpdateTypes, States, Found, Newer
      <4> QED BY <4>1 DEF Update!Documents
    <3> QED BY <3>1 DEF UpdatesInv, Carried
  <2> QED BY <2>1 DEF UpdatesInv, UpdateTypes, States, Places, Folders, Update!TypeOK
<1>2. Update!OnlyTheAuthorsBuildRuns
  BY DEF UpdatesInv, Carried, Newer, Update!OnlyTheAuthorsBuildRuns
<1>3. Update!FlagsComeDown
  <2>1. update.checking \in BOOLEAN /\ update.installing \in BOOLEAN
    BY DEF UpdatesInv, UpdateTypes, States
  <2>2. Cardinality({t \in Update!Threads : duty[t] \in Checking}) = (IF update.checking THEN 1 ELSE 0)
        /\ Cardinality({t \in Update!Threads : duty[t] \in Installing}) = (IF update.installing THEN 1 ELSE 0)
    BY <2>1, OneOf DEF UpdatesInv, Flags
  <2>3. \A S : Update!Cardinality(S) = Cardinality(S)
    BY DEF Update!Cardinality, Cardinality, Update!IsFiniteSet, IsFiniteSet
  <2> QED BY <2>2, <2>3 DEF UpdatesInv, Flags, Update!FlagsComeDown, Checking, Installing
<1>4. Update!AnnouncedOnce
  BY DEF UpdatesInv, Told, Update!AnnouncedOnce
<1>5. Update!DownloadsAreRemoved
  BY DEF UpdatesInv, Kept, Belongs, Update!DownloadsAreRemoved
<1> QED BY <1>1, <1>2, <1>3, <1>4, <1>5

-----------------------------------------------------------------------------
(* The icon in the tray                                                      *)
TrayCommands == [kind : {"quit"}] \cup [kind : {"tooltip", "menu"}, of : Refreshers, says : BOOLEAN]

TrayTypes ==
  /\ recording \in BOOLEAN /\ cancel \in BOOLEAN /\ menu \in BOOLEAN /\ offered \in BOOLEAN
  /\ icon \in BOOLEAN /\ thread_error \in BOOLEAN /\ amiss \in BOOLEAN /\ unsaid \in BOOLEAN
  /\ starter \in Refreshers \cup {NoOne}
  /\ refresher \in [Refreshers -> Tray!Places] /\ found \in [Refreshers -> BOOLEAN]
  /\ thread \in {"get", "commands", "events", "open", "gone"}
  /\ messages \in Nat /\ commands \in Seq(TrayCommands)
  /\ events \in Seq({"restart", "menu", "activate"})

(* Whatever waits, a message is there for it, or the thread takes it next.   *)
TrayAwake ==
  /\ Tray!NothingIsOverlooked
  /\ thread = "events" /\ commands # <<>> => messages > 0

(* The menu does not change while it is open.                                *)
ChoiceFits == Tray!ChoiceWasOffered /\ (thread = "open" => offered = menu)

(* A command is of a thread that waits for its answer, one of each.          *)
SentAs(kind) == IF kind = "menu" THEN "menu_sent" ELSE "tooltip_sent"

CommandFits(c, where, saw) ==
  c.kind # "quit" => /\ c.of \in Refreshers /\ c.kind \in {"tooltip", "menu"}
                     /\ where[c.of] = SentAs(c.kind) /\ c.says = saw[c.of]

CommandsFit ==
  /\ \A k \in DOMAIN commands : CommandFits(commands[k], refresher, found)
  /\ \A j, k \in DOMAIN commands :
       commands[j].kind # "quit" /\ commands[k].kind # "quit" /\ commands[j].of = commands[k].of => j = k

(* A start is that of one thread, until it is over.                          *)
StarterFits ==
  /\ \A r \in Refreshers : r = starter => refresher[r] # "idle"
  /\ \A r \in Refreshers : refresher[r] \in {"starting", "clear"} => r = starter

(* What a refresh has found, or the menu says, hides no recording, and tells *)
(* of none but one that runs or starts, or a start that came to nothing.     *)
Tells(value) == (recording => value) /\ (value => starter # NoOne \/ recording \/ unsaid)

Away(r) == refresher[r] \in Tray!Refreshing

(* While no refresh crosses another, there is one, and what it has found is  *)
(* still so; and when there is none, what the menu says.                     *)
RefreshFits ==
  ~amiss =>
    /\ \A r, s \in Refreshers : Away(r) /\ Away(s) => r = s
    /\ \A r \in Refreshers : Away(r) /\ refresher[r] # "look" => Tells(found[r])
    /\ (\A r \in Refreshers : ~Away(r)) => Tells(menu)

TrayInv == TrayTypes /\ TrayAwake /\ ChoiceFits /\ CommandsFit /\ StarterFits /\ RefreshFits

LEMMA TrayStarts == ASSUME Tray!TrayAssumption, Tray!Init PROVE TrayInv
<1>1. TrayTypes
  BY NothingWaits DEF Tray!Init, TrayTypes, Tray!Places
<1>2. CommandsFit
  BY NothingWaits DEF Tray!Init, CommandsFit
<1>3. TrayAwake /\ ChoiceFits
  BY DEF Tray!Init, TrayAwake, Tray!NothingIsOverlooked, ChoiceFits, Tray!ChoiceWasOffered
<1>4. StarterFits /\ RefreshFits
  BY DEF Tray!Init, StarterFits, RefreshFits, Away, Tells, Tray!Refreshing, Tray!TrayAssumption
<1> QED BY <1>1, <1>2, <1>3, <1>4 DEF TrayInv

(* A step of one thread of the application's that waits for no answer.       *)
LEMMA AppStep ==
  ASSUME TrayInv, NEW r \in Refreshers, NEW stage \in Tray!Places,
         refresher' = [refresher EXCEPT ![r] = stage],
         {refresher[r], stage} \cap {"tooltip_sent", "menu_sent"} = {},
         found' \in [Refreshers -> BOOLEAN], \A s \in Refreshers \ {r} : found'[s] = found[s],
         recording' \in BOOLEAN, amiss' \in BOOLEAN, unsaid' \in BOOLEAN,
         starter' \in Refreshers \cup {NoOne},
         UNCHANGED Tray!trayVars
  PROVE  /\ TrayTypes' /\ TrayAwake' /\ ChoiceFits' /\ CommandsFit' /\ refresher'[r] = stage
         /\ \A s \in Refreshers \ {r} : refresher'[s] = refresher[s]
<1> USE DEF TrayInv
<1>1. /\ refresher' \in [Refreshers -> Tray!Places] /\ refresher'[r] = stage
      /\ \A s \in Refreshers \ {r} : refresher'[s] = refresher[s]
  BY DEF TrayTypes
<1>2. UNCHANGED <<commands, messages, cancel, events, thread, menu, offered, chosen, icon, thread_error>>
  BY DEF Tray!trayVars, Tray!threadVars
<1>3. TrayTypes'
  BY <1>1, <1>2 DEF TrayTypes
<1>4. TrayAwake' /\ ChoiceFits'
  BY <1>2 DEF TrayAwake, Tray!NothingIsOverlooked, ChoiceFits, Tray!ChoiceWasOffered
<1>5. CommandsFit'
  <2>1. ASSUME NEW k \in DOMAIN commands PROVE CommandFits(commands[k], refresher', found')
    <3>1. CommandFits(commands[k], refresher, found)
      BY DEF CommandsFit
    <3>2. SentAs(commands[k].kind) \in {"tooltip_sent", "menu_sent"}
      BY DEF SentAs
    <3> QED BY <1>1, <3>1, <3>2 DEF CommandFits
  <2> QED BY <1>2, <2>1 DEF CommandsFit
<1> QED BY <1>1, <1>3, <1>4, <1>5

(* A start, up to the recorder's own.                                        *)
LEMMA StartingHolds ==
  ASSUME Tray!TrayAssumption, TrayInv, NEW r \in Refreshers,
         Tray!StartRecording(r) \/ Tray!CalledOff(r) \/ Tray!Cleared(r)
  PROVE  TrayInv'
<1> DEFINE stage == IF Tray!StartRecording(r) THEN "starting" ELSE IF Tray!CalledOff(r) THEN "clear" ELSE "idle"
<1>1. /\ refresher' = [refresher EXCEPT ![r] = stage] /\ refresher[r] \in {"idle", "starting", "clear"}
      /\ UNCHANGED <<recording, amiss, found, Tray!trayVars>>
      /\ \/ refresher[r] = "idle" /\ stage = "starting" /\ starter' = r /\ ~recording /\ unsaid' = unsaid /\ starter = NoOne
         \/ refresher[r] = "starting" /\ stage = "clear" /\ starter' = starter /\ unsaid' = unsaid
         \/ refresher[r] = "clear" /\ stage = "idle" /\ starter' = NoOne /\ unsaid' = ~recording
  BY DEF Tray!StartRecording, Tray!CalledOff, Tray!Cleared, Tray!Goes, Tray!recorderVars, Tray!is_recording
<1> HIDE DEF stage
<1>2. stage \in {"idle", "starting", "clear"} /\ unsaid' \in BOOLEAN /\ starter' \in Refreshers \cup {NoOne}
  BY <1>1 DEF TrayInv, TrayTypes
<1>3. /\ TrayTypes' /\ TrayAwake' /\ ChoiceFits' /\ CommandsFit' /\ refresher'[r] = stage
      /\ \A s \in Refreshers \ {r} : refresher'[s] = refresher[s]
  BY <1>1, <1>2, AppStep DEF TrayInv, TrayTypes, Tray!Places
<1>4. StarterFits'
  BY <1>1, <1>3 DEF TrayInv, StarterFits, Tray!TrayAssumption
<1>5. \A s \in Refreshers : (Away(s)' <=> Away(s)) /\ (Away(s) => refresher'[s] = refresher[s])
  BY <1>1, <1>2, <1>3 DEF Away, Tray!Refreshing
<1>6. \A value \in BOOLEAN : Tells(value) => Tells(value)'
  BY <1>1 DEF Tells
<1>7. menu' = menu /\ menu \in BOOLEAN /\ \A s \in Refreshers : found[s] \in BOOLEAN
  BY <1>1 DEF TrayInv, TrayTypes, Tray!trayVars, Tray!threadVars
<1>8. RefreshFits'
  <2> SUFFICES ASSUME ~amiss PROVE RefreshFits'
    BY <1>1 DEF RefreshFits
  <2>1. ASSUME NEW s \in Refreshers, Away(s)', refresher'[s] # "look" PROVE Tells(found[s])'
    <3>1. Tells(found[s])
      BY <1>5, <2>1 DEF TrayInv, RefreshFits
    <3> QED BY <1>1, <1>6, <1>7, <3>1 DEF Tells
  <2>2. (\A s \in Refreshers : ~Away(s)') => Tells(menu)'
    <3> SUFFICES ASSUME \A s \in Refreshers : ~Away(s)' PROVE Tells(menu)'
      OBVIOUS
    <3>1. Tells(menu)
      BY <1>5 DEF TrayInv, RefreshFits
    <3> QED BY <1>1, <1>6, <1>7, <3>1 DEF Tells
  <2> QED BY <1>1, <1>5, <2>1, <2>2 DEF TrayInv, RefreshFits
<1> QED BY <1>3, <1>4, <1>8 DEF TrayInv

(* A refresh that begins alone has nothing found yet.                        *)
LEMMA RefreshingHolds ==
  ASSUME TrayInv, NEW r \in Refreshers, Tray!Begins(r) \/ Tray!Ends(r) \/ Tray!RefreshesBesides(r)
  PROVE  TrayInv'
<1>1. /\ refresher' = [refresher EXCEPT ![r] = "look"] /\ refresher[r] \in {"idle", "starting", "clear"}
      /\ amiss' = \E s \in Refreshers \ {r} : refresher[s] \in Tray!Refreshing
      /\ recording' \in BOOLEAN /\ UNCHANGED <<starter, unsaid, found, Tray!trayVars>>
  BY DEF Tray!Begins, Tray!Ends, Tray!RefreshesBesides, Tray!Refreshes, TrayInv, TrayTypes
<1>2. /\ TrayTypes' /\ TrayAwake' /\ ChoiceFits' /\ CommandsFit' /\ refresher'[r] = "look"
      /\ \A s \in Refreshers \ {r} : refresher'[s] = refresher[s]
  <2>1. amiss' \in BOOLEAN /\ "look" \in Tray!Places
    BY <1>1 DEF Tray!Places, Tray!Refreshing
  <2>2. /\ found' \in [Refreshers -> BOOLEAN] /\ \A s \in Refreshers \ {r} : found'[s] = found[s]
        /\ unsaid' \in BOOLEAN /\ starter' \in Refreshers \cup {NoOne}
    BY <1>1 DEF TrayInv, TrayTypes
  <2> QED BY <1>1, <2>1, <2>2, AppStep
<1>3. StarterFits'
  BY <1>1, <1>2 DEF TrayInv, StarterFits
<1>4. RefreshFits'
  BY <1>1, <1>2 DEF RefreshFits, Away, Tray!Refreshing
<1> QED BY <1>2, <1>3, <1>4 DEF TrayInv

LEMMA TrayLookHolds ==
  ASSUME TrayInv, NEW r \in Refreshers, Tray!LookAtRecorder(r) PROVE TrayInv'
<1>1. /\ refresher[r] = "look" /\ refresher' = [refresher EXCEPT ![r] = "tooltip"]
      /\ found' = [found EXCEPT ![r] = (starter # NoOne \/ recording)] /\ unsaid' = FALSE
      /\ UNCHANGED <<starter, recording, amiss, Tray!trayVars>>
  BY DEF Tray!LookAtRecorder, Tray!Goes, Tray!is_recording
<1>2. /\ found' \in [Refreshers -> BOOLEAN] /\ \A s \in Refreshers \ {r} : found'[s] = found[s]
      /\ found'[r] = (starter # NoOne \/ recording)
  BY <1>1 DEF TrayInv, TrayTypes
<1>3. /\ TrayTypes' /\ TrayAwake' /\ ChoiceFits' /\ CommandsFit' /\ refresher'[r] = "tooltip"
      /\ \A s \in Refreshers \ {r} : refresher'[s] = refresher[s]
  BY <1>1, <1>2, AppStep DEF TrayInv, TrayTypes, Tray!Places, Tray!Refreshing
<1>4. StarterFits'
  BY <1>1, <1>3 DEF TrayInv, StarterFits
<1>5. RefreshFits'
  <2> SUFFICES ASSUME ~amiss PROVE RefreshFits'
    BY <1>1 DEF RefreshFits
  <2>1. \A s \in Refreshers : Away(s) <=> s = r
    BY <1>1 DEF TrayInv, RefreshFits, Away, Tray!Refreshing
  <2>2. \A s \in Refreshers : Away(s)' <=> s = r
    BY <1>3, <2>1 DEF Away, Tray!Refreshing
  <2>3. Tells(found[r])'
    BY <1>1, <1>2 DEF Tells
  <2> QED BY <2>2, <2>3 DEF RefreshFits
<1> QED BY <1>3, <1>4, <1>5 DEF TrayInv

(* What a thread goes on to when it has its answer.                          *)
LEMMA GoesOn ==
  ASSUME TrayInv, NEW r \in Refreshers, Away(r)
  PROVE  /\ Tray!Then(r) \in {"menu", "clear", "idle"}
         /\ refresher[r] \in {"tooltip", "tooltip_sent"} => Tray!Then(r) = "menu"
         /\ refresher[r] \in {"menu", "menu_sent"} => Tray!Then(r) = IF starter = r THEN "clear" ELSE "idle"
  BY DEF Tray!Then, Tray!After, Away, Tray!Refreshing

LEMMA SendHolds == ASSUME TrayInv, NEW r \in Refreshers, Tray!Send(r) PROVE TrayInv'
<1> USE DEF TrayInv
<1>1. /\ refresher[r] \in {"tooltip", "menu"} /\ thread_error' = FALSE /\ Away(r)
      /\ UNCHANGED <<Tray!recorderVars, clicks, found, cancel, events, Tray!threadVars>>
  BY DEF Tray!Send, Away, Tray!Refreshing
<1>2. ChoiceFits'
  BY <1>1 DEF ChoiceFits, Tray!ChoiceWasOffered, Tray!threadVars
<1>3. CASE /\ refresher' = [refresher EXCEPT ![r] = Tray!Then(r)] /\ amiss' = (amiss \/ refresher[r] = "menu")
           /\ UNCHANGED <<commands, messages>>
  <2>1. /\ refresher' \in [Refreshers -> Tray!Places] /\ refresher'[r] = Tray!Then(r)
        /\ Tray!Then(r) \in {"menu", "clear", "idle"}
        /\ \A s \in Refreshers \ {r} : refresher'[s] = refresher[s]
    BY <1>1, <1>3, GoesOn DEF TrayTypes, Tray!Places, Tray!Refreshing
  <2>2. TrayTypes'
    <3>1. amiss' \in BOOLEAN
      BY <1>3 DEF TrayTypes
    <3> QED BY <1>1, <1>3, <2>1, <3>1 DEF TrayTypes, Tray!threadVars, Tray!recorderVars
  <2>3. TrayAwake'
    BY <1>1, <1>3 DEF TrayAwake, Tray!NothingIsOverlooked, Tray!threadVars
  <2>4. CommandsFit'
    <3>1. ASSUME NEW k \in DOMAIN commands PROVE CommandFits(commands[k], refresher', found')
      <4>1. CommandFits(commands[k], refresher, found)
        BY DEF CommandsFit
      <4>2. SentAs(commands[k].kind) \notin {"tooltip", "menu"}
        BY DEF SentAs
      <4> QED BY <1>1, <1>3, <2>1, <4>1, <4>2 DEF CommandFits
    <3> QED BY <1>3, <3>1 DEF CommandsFit
  <2>5. StarterFits'
    BY <1>1, <2>1, GoesOn DEF StarterFits, Tray!recorderVars
  <2>6. RefreshFits'
    <3> SUFFICES ASSUME ~amiss, refresher[r] = "tooltip" PROVE RefreshFits'
      BY <1>1, <1>3 DEF RefreshFits
    <3>1. refresher'[r] = "menu"
      BY <1>1, <2>1, GoesOn
    <3> QED BY <1>1, <1>3, <2>1, <3>1 DEF RefreshFits, Away, Tells, Tray!Refreshing, Tray!recorderVars
  <2> QED BY <1>2, <2>2, <2>3, <2>4, <2>5, <2>6
<1>4. ASSUME refresher' = [refresher EXCEPT ![r] = IF refresher[r] = "menu" THEN "menu_sent" ELSE "tooltip_sent"],
             commands' = Append(commands, [kind |-> refresher[r], of |-> r, says |-> found[r]]),
             messages' = messages + 1, UNCHANGED amiss
      PROVE  TrayInv'
  <2> DEFINE e == [kind |-> refresher[r], of |-> r, says |-> found[r]]
  <2>1. /\ refresher' \in [Refreshers -> Tray!Places] /\ refresher'[r] = SentAs(refresher[r])
        /\ SentAs(refresher[r]) \in {"tooltip_sent", "menu_sent"}
        /\ \A s \in Refreshers \ {r} : refresher'[s] = refresher[s]
    BY <1>1, <1>4 DEF TrayTypes, Tray!Places, Tray!Refreshing, SentAs
  <2>2. e \in TrayCommands /\ e.kind = refresher[r] /\ e.of = r /\ e.says = found[r] /\ e.kind # "quit"
    BY <1>1 DEF TrayTypes, TrayCommands
  <2> HIDE DEF e
  <2>3. /\ commands' \in Seq(TrayCommands)
        /\ \A k \in DOMAIN commands' : \/ k \in DOMAIN commands /\ commands'[k] = commands[k]
                                       \/ k = Len(commands) + 1 /\ commands'[k] = e
    BY <1>4, <2>2, Appended DEF TrayTypes, e
  <2>4. messages' \in Nat /\ messages' > 0
    BY <1>4 DEF TrayTypes
  <2>5. TrayTypes'
    BY <1>1, <1>4, <2>1, <2>3, <2>4 DEF TrayTypes, Tray!threadVars, Tray!recorderVars
  <2>6. TrayAwake'
    BY <2>4 DEF TrayAwake, Tray!NothingIsOverlooked
  <2>7. \A k \in DOMAIN commands : commands[k].kind # "quit" => commands[k].of # r
    BY <1>1 DEF CommandsFit, CommandFits, SentAs
  <2>8. CommandsFit'
    <3>1. ASSUME NEW k \in DOMAIN commands' PROVE CommandFits(commands'[k], refresher', found')
      <4>1. CASE k \in DOMAIN commands /\ commands'[k] = commands[k]
        <5>1. CommandFits(commands[k], refresher, found)
          BY <4>1 DEF CommandsFit
        <5> QED BY <1>1, <2>1, <2>7, <4>1, <5>1 DEF CommandFits
      <4>2. CASE commands'[k] = e
        BY <1>1, <2>1, <2>2, <4>2 DEF CommandFits
      <4> QED BY <2>3, <4>1, <4>2
    <3> QED BY <2>2, <2>3, <2>7, <3>1 DEF CommandsFit
  <2>9. StarterFits'
    BY <1>1, <2>1 DEF StarterFits, Tray!recorderVars
  <2>10. RefreshFits'
    <3>1. \A s \in Refreshers : Away(s)' <=> Away(s)
      BY <1>1, <2>1 DEF Away, Tray!Refreshing
    <3>2. /\ \A s \in Refreshers : refresher'[s] # "look" => refresher[s] # "look"
          /\ UNCHANGED <<starter, recording, unsaid, found, menu, amiss>>
      BY <1>1, <1>4, <2>1 DEF Tray!recorderVars, Tray!threadVars
    <3> QED BY <3>1, <3>2 DEF RefreshFits, Tells
  <2> QED BY <1>2, <2>5, <2>6, <2>8, <2>9, <2>10
<1> QED BY <1>3, <1>4 DEF Tray!Send, Tray!Goes

LEMMA CommandDone ==
  ASSUME TrayInv, thread = "commands", commands # <<>>, commands' = Tail(commands), Tray!Command(Head(commands)),
         UNCHANGED <<Tray!recorderVars, clicks, found, messages, cancel, events, offered, chosen, icon,
                     thread_error>>
  PROVE  TrayInv'
<1> USE DEF TrayInv
<1> DEFINE c == Head(commands)
<1>1. /\ c = commands[1] /\ c \in TrayCommands /\ 1 \in DOMAIN commands /\ commands' \in Seq(TrayCommands)
      /\ \A k \in DOMAIN commands' : k + 1 \in DOMAIN commands /\ commands'[k] = commands[k + 1]
                                     /\ k \in Int /\ k + 1 # 1
  BY HeadTaken DEF TrayTypes
<1>2. CommandFits(c, refresher, found)
  BY <1>1 DEF CommandsFit
<1>3. /\ c.kind = "quit" \/ (c.kind \in {"tooltip", "menu"} /\ c.of \in Refreshers /\ c.says \in BOOLEAN)
      /\ \/ c.kind = "menu" /\ menu' = c.says /\ UNCHANGED amiss
         \/ c.kind = "menu" /\ amiss' = TRUE /\ UNCHANGED menu
         \/ c.kind # "menu" /\ UNCHANGED <<menu, amiss>>
      /\ thread' = IF c.kind = "quit" THEN "gone" ELSE "commands"
      /\ refresher' = IF c.kind = "quit" THEN refresher ELSE [refresher EXCEPT ![c.of] = Tray!Then(c.of)]
  BY <1>1 DEF Tray!Command, TrayCommands
<1>4. \A k \in DOMAIN commands' : CommandFits(commands'[k], refresher, found)
  BY <1>1 DEF CommandsFit
<1>5. \A j, k \in DOMAIN commands' :
        commands'[j].kind # "quit" /\ commands'[k].kind # "quit" /\ commands'[j].of = commands'[k].of => j = k
  BY <1>1 DEF CommandsFit
<1>6. TrayAwake' /\ ChoiceFits'
  BY <1>3 DEF TrayAwake, Tray!NothingIsOverlooked, ChoiceFits, Tray!ChoiceWasOffered
<1>7. CASE c.kind = "quit"
  <2>1. UNCHANGED <<refresher, menu, amiss>> /\ thread' = "gone"
    BY <1>3, <1>7
  <2>2. TrayTypes'
    BY <1>1, <2>1 DEF TrayTypes, Tray!recorderVars
  <2>3. CommandsFit'
    <3>1. ASSUME NEW k \in DOMAIN commands' PROVE CommandFits(commands'[k], refresher', found')
      <4>1. CommandFits(commands'[k], refresher, found)
        BY <1>4
      <4> QED BY <2>1, <4>1 DEF CommandFits
    <3> QED BY <1>5, <3>1 DEF CommandsFit
  <2>4. StarterFits' /\ RefreshFits'
    BY <2>1 DEF StarterFits, RefreshFits, Away, Tells, Tray!recorderVars
  <2> QED BY <1>6, <2>2, <2>3, <2>4
<1>8. CASE c.kind # "quit"
  <2>1. /\ refresher' \in [Refreshers -> Tray!Places] /\ c.of \in Refreshers
        /\ refresher'[c.of] = IF c.kind # "menu" THEN "menu" ELSE IF starter = c.of THEN "clear" ELSE "idle"
        /\ \A s \in Refreshers \ {c.of} : refresher'[s] = refresher[s]
    BY <1>2, <1>3, <1>8 DEF TrayTypes, Tray!Places, Tray!Refreshing, Tray!Then, Tray!After, CommandFits, SentAs
  <2>2. menu' \in BOOLEAN /\ amiss' \in BOOLEAN /\ thread' = "commands"
    BY <1>3, <1>8 DEF TrayTypes
  <2>3. TrayTypes'
    BY <1>1, <2>1, <2>2 DEF TrayTypes, Tray!recorderVars
  <2>4. \A k \in DOMAIN commands' : commands'[k].kind # "quit" => commands'[k].of # c.of
    BY <1>1, <1>8 DEF CommandsFit
  <2>5. CommandsFit'
    <3>1. ASSUME NEW k \in DOMAIN commands' PROVE CommandFits(commands'[k], refresher', found')
      <4>1. CommandFits(commands'[k], refresher, found)
        BY <1>4
      <4> QED BY <2>1, <2>4, <4>1 DEF CommandFits
    <3> QED BY <1>5, <3>1 DEF CommandsFit
  <2>6. refresher[c.of] = SentAs(c.kind) /\ c.says = found[c.of] /\ Away(c.of) /\ refresher[c.of] # "look"
    BY <1>2, <1>3, <1>8 DEF CommandFits, SentAs, Away, Tray!Refreshing
  <2>7. StarterFits'
    BY <2>1, <2>6 DEF StarterFits, Away, Tray!Refreshing, Tray!recorderVars
  <2>8. RefreshFits'
    <3> SUFFICES ASSUME ~amiss' PROVE RefreshFits'
      BY DEF RefreshFits
    <3>1. ~amiss /\ (c.kind = "menu" => menu' = c.says)
      BY <1>3
    <3>2. /\ \A s \in Refreshers \ {c.of} : ~Away(s) /\ ~Away(s)'
          /\ Tells(c.says)
      BY <2>1, <2>6, <3>1 DEF RefreshFits, Away
    <3>3. UNCHANGED <<found, starter, recording, unsaid>>
      BY DEF Tray!recorderVars
    <3>4. CASE c.kind = "menu"
      <4>1. menu' = c.says /\ Tells(menu)'
        BY <3>1, <3>2, <3>3, <3>4 DEF Tells
      <4>2. \A s \in Refreshers : ~Away(s)'
        BY <2>1, <3>2, <3>4 DEF Away, Tray!Refreshing
      <4> QED BY <4>1, <4>2 DEF RefreshFits
    <3>5. CASE c.kind # "menu"
      <4>1. \A s \in Refreshers : Away(s)' <=> s = c.of
        BY <2>1, <3>2, <3>5 DEF Away, Tray!Refreshing
      <4>2. \A s \in Refreshers : s = c.of => Tells(found[s])'
        BY <2>6, <3>2, <3>3 DEF Tells
      <4>3. /\ \A p, s \in Refreshers : Away(p)' /\ Away(s)' => p = s
            /\ ~(\A s \in Refreshers : ~Away(s)')
        BY <2>1, <4>1
      <4> QED BY <4>1, <4>2, <4>3 DEF RefreshFits
    <3> QED BY <3>4, <3>5
  <2> QED BY <1>6, <2>3, <2>5, <2>7, <2>8
<1> QED BY <1>7, <1>8

(* A step that leaves the refreshes and their commands alone.                *)
LEMMA ThreadStep ==
  ASSUME TrayInv, UNCHANGED <<Tray!appVars, commands, menu>>, TrayTypes', TrayAwake', ChoiceFits'
  PROVE  TrayInv'
<1> USE DEF TrayInv
<1>1. CommandsFit'
  <2>1. ASSUME NEW k \in DOMAIN commands PROVE CommandFits(commands[k], refresher', found')
    BY DEF CommandsFit, CommandFits, Tray!appVars, Tray!recorderVars
  <2> QED BY <2>1 DEF CommandsFit
<1>2. StarterFits' /\ RefreshFits'
  BY DEF StarterFits, RefreshFits, Away, Tells, Tray!appVars, Tray!recorderVars
<1> QED BY <1>1, <1>2

LEMMA DrainCommandsHolds == ASSUME TrayInv, Tray!DrainCommands PROVE TrayInv'
<1>1. CASE commands # <<>>
  BY <1>1, CommandDone DEF Tray!DrainCommands
<1>2. CASE commands = <<>>
  <2>1. /\ thread' = "events" /\ UNCHANGED <<commands, menu, refresher, amiss>>
        /\ UNCHANGED <<Tray!recorderVars, clicks, found, messages, cancel, events, offered, chosen, icon,
                       thread_error>>
    BY <1>2 DEF Tray!DrainCommands
  <2>2. TrayTypes'
    BY <2>1 DEF TrayInv, TrayTypes, Tray!recorderVars
  <2>3. TrayAwake' /\ ChoiceFits'
    BY <1>2, <2>1 DEF TrayInv, TrayAwake, Tray!NothingIsOverlooked, ChoiceFits, Tray!ChoiceWasOffered
  <2> QED BY <2>1, <2>2, <2>3, ThreadStep DEF Tray!appVars, Tray!recorderVars
<1> QED BY <1>1, <1>2

LEMMA GetMessageHolds == ASSUME TrayInv, Tray!GetMessage PROVE TrayInv'
<1>1. /\ thread' = "commands" /\ messages' \in Nat /\ cancel' \in BOOLEAN
      /\ UNCHANGED <<Tray!appVars, clicks, commands, events, menu, offered, chosen, icon, thread_error>>
  <2>1. messages \in Nat /\ cancel \in BOOLEAN
    BY DEF TrayInv, TrayTypes
  <2>2. cancel' = FALSE \/ cancel' = cancel
    BY Zenon DEF Tray!GetMessage
  <2>3. cancel' \in BOOLEAN
    BY <2>1, <2>2, Zenon
  <2>4. messages' = messages \/ (messages > 0 /\ messages' = messages - 1)
    BY Zenon DEF Tray!GetMessage
  <2>5. messages' \in Nat
    BY <2>1, <2>4
  <2> QED BY <2>3, <2>5, Zenon DEF Tray!GetMessage
<1>2. TrayTypes'
  BY <1>1 DEF TrayInv, TrayTypes, Tray!appVars, Tray!recorderVars
<1>3. TrayAwake' /\ ChoiceFits'
  BY <1>1 DEF TrayInv, TrayAwake, Tray!NothingIsOverlooked, ChoiceFits, Tray!ChoiceWasOffered
<1> QED BY <1>1, <1>2, <1>3, ThreadStep

LEMMA DrainEventsHolds == ASSUME TrayInv, Tray!DrainEvents PROVE TrayInv'
<1>1. thread = "events" /\ UNCHANGED <<Tray!appVars, clicks, commands, messages, cancel, menu>>
  BY DEF Tray!DrainEvents
<1>2. CASE events = <<>>
  <2>1. thread' = "get" /\ UNCHANGED <<events, offered, chosen, icon, thread_error>>
    BY <1>2 DEF Tray!DrainEvents
  <2>2. TrayTypes'
    BY <1>1, <2>1 DEF TrayInv, TrayTypes, Tray!appVars, Tray!recorderVars
  <2>3. TrayAwake' /\ ChoiceFits'
    BY <1>1, <1>2, <2>1 DEF TrayInv, TrayAwake, Tray!NothingIsOverlooked, ChoiceFits, Tray!ChoiceWasOffered
  <2> QED BY <1>1, <2>2, <2>3, ThreadStep
<1>3. CASE events # <<>>
  <2>1. events' \in Seq({"restart", "menu", "activate"}) /\ chosen' = "nothing"
    BY <1>3, HeadTaken DEF Tray!DrainEvents, TrayInv, TrayTypes
  <2>2. /\ icon' \in BOOLEAN /\ thread_error' \in BOOLEAN
        /\ (thread' = thread /\ offered' = offered) \/ (thread' = "open" /\ offered' = menu)
    BY <1>3 DEF Tray!DrainEvents, Tray!Restart, TrayInv, TrayTypes
  <2>3. TrayTypes'
    BY <1>1, <2>1, <2>2 DEF TrayInv, TrayTypes, Tray!appVars, Tray!recorderVars
  <2>4. TrayAwake' /\ ChoiceFits'
    BY <1>1, <2>1, <2>2 DEF TrayInv, TrayAwake, Tray!NothingIsOverlooked, ChoiceFits, Tray!ChoiceWasOffered
  <2> QED BY <1>1, <2>3, <2>4, ThreadStep
<1> QED BY <1>2, <1>3

LEMMA MenuHolds == ASSUME TrayInv, Tray!NestedLoop \/ Tray!CloseMenu PROVE TrayInv'
<1>1. CASE Tray!NestedLoop
  <2>1. /\ thread = "open" /\ messages' \in Nat
        /\ UNCHANGED <<Tray!appVars, clicks, commands, cancel, events, Tray!threadVars, thread_error>>
    BY <1>1 DEF Tray!NestedLoop, TrayInv, TrayTypes
  <2>2. TrayTypes'
    BY <2>1 DEF TrayInv, TrayTypes, Tray!appVars, Tray!recorderVars, Tray!threadVars
  <2>3. TrayAwake' /\ ChoiceFits'
    BY <2>1 DEF TrayInv, TrayAwake, Tray!NothingIsOverlooked, ChoiceFits, Tray!ChoiceWasOffered, Tray!threadVars
  <2> QED BY <2>1, <2>2, <2>3, ThreadStep DEF Tray!threadVars
<1>2. CASE Tray!CloseMenu
  <2>1. /\ thread = "open" /\ thread' = "events" /\ messages' \in Nat /\ messages' > 0 /\ cancel' \in BOOLEAN
        /\ chosen' \in {"nothing", IF menu THEN "stop-rec" ELSE "record"}
        /\ thread_error' \in BOOLEAN
        /\ UNCHANGED <<Tray!appVars, clicks, commands, events, menu, offered, icon>>
    <3>1. messages \in Nat /\ cancel \in BOOLEAN
      BY DEF TrayInv, TrayTypes
    <3>2. cancel' = FALSE \/ cancel' = cancel
      BY <1>2, Zenon DEF Tray!CloseMenu
    <3>3. cancel' \in BOOLEAN
      BY <3>1, <3>2, Zenon
    <3>4. messages' \in Nat /\ messages' > 0
      BY <1>2, <3>1 DEF Tray!CloseMenu, Tray!WakesItself
    <3>5. thread_error' = TRUE \/ thread_error' = thread_error
      BY <1>2, Zenon DEF Tray!CloseMenu
    <3>6. thread_error' \in BOOLEAN
      BY <3>5, Zenon DEF TrayInv, TrayTypes
    <3> QED BY <1>2, <3>3, <3>4, <3>6, Zenon DEF Tray!CloseMenu
  <2>2. TrayTypes'
    BY <2>1 DEF TrayInv, TrayTypes, Tray!appVars, Tray!recorderVars
  <2>3. TrayAwake' /\ ChoiceFits'
    BY <2>1 DEF TrayInv, TrayAwake, Tray!NothingIsOverlooked, ChoiceFits, Tray!ChoiceWasOffered
  <2> QED BY <2>1, <2>2, <2>3, ThreadStep
<1> QED BY <1>1, <1>2

LEMMA CallUponHolds == ASSUME TrayInv, Tray!CallUpon PROVE TrayInv'
<1>1. PICK e \in {"restart", "menu", "activate"} :
         events' = Append(events, e) /\ icon' = IF e = "restart" THEN FALSE ELSE icon
  BY DEF Tray!CallUpon
<1>2. /\ messages' \in Nat /\ messages' > 0
      /\ UNCHANGED <<Tray!appVars, commands, cancel, thread, menu, offered, chosen, thread_error>>
  BY DEF Tray!CallUpon, TrayInv, TrayTypes
<1>3. events' \in Seq({"restart", "menu", "activate"})
  BY <1>1, Appended DEF TrayInv, TrayTypes
<1>4. TrayTypes'
  <2>1. icon' = FALSE \/ icon' = icon
    BY <1>1
  <2>2. icon' \in BOOLEAN
    BY <2>1, Zenon DEF TrayInv, TrayTypes
  <2> QED BY <1>2, <1>3, <2>2 DEF TrayInv, TrayTypes, Tray!appVars, Tray!recorderVars
<1>5. TrayAwake' /\ ChoiceFits'
  BY <1>2 DEF TrayInv, TrayAwake, Tray!NothingIsOverlooked, ChoiceFits, Tray!ChoiceWasOffered
<1> QED BY <1>2, <1>4, <1>5, ThreadStep

LEMMA DropHolds == ASSUME TrayInv, Tray!Drop PROVE TrayInv'
<1> USE DEF TrayInv
<1> DEFINE e == [kind |-> "quit"]
<1>1. /\ commands' = Append(commands, e) /\ cancel' = TRUE /\ messages' \in Nat /\ messages' > 0
      /\ UNCHANGED <<Tray!appVars, clicks, events, Tray!threadVars, thread_error>>
  BY DEF Tray!Drop, TrayTypes
<1>2. e \in TrayCommands /\ e.kind = "quit"
  BY DEF TrayCommands
<1> HIDE DEF e
<1>3. /\ commands' \in Seq(TrayCommands)
      /\ \A k \in DOMAIN commands' : \/ k \in DOMAIN commands /\ commands'[k] = commands[k]
                                     \/ k = Len(commands) + 1 /\ commands'[k] = e
  BY <1>1, <1>2, Appended DEF TrayTypes
<1>4. TrayTypes'
  BY <1>1, <1>3 DEF TrayTypes, Tray!appVars, Tray!recorderVars, Tray!threadVars
<1>5. TrayAwake' /\ ChoiceFits'
  BY <1>1 DEF TrayAwake, Tray!NothingIsOverlooked, ChoiceFits, Tray!ChoiceWasOffered, Tray!threadVars
<1>6. CommandsFit'
  <2>1. ASSUME NEW k \in DOMAIN commands' PROVE CommandFits(commands'[k], refresher', found')
    BY <1>1, <1>2, <1>3 DEF CommandsFit, CommandFits, Tray!appVars, Tray!recorderVars
  <2> QED BY <1>2, <1>3, <2>1 DEF CommandsFit
<1>7. StarterFits' /\ RefreshFits'
  BY <1>1 DEF StarterFits, RefreshFits, Away, Tells, Tray!appVars, Tray!recorderVars, Tray!threadVars
<1> QED BY <1>4, <1>5, <1>6, <1>7

LEMMA TrayStep == ASSUME Tray!TrayAssumption, TrayInv, Tray!Next PROVE TrayInv'
<1>1. CASE \E r \in Refreshers : Tray!StartRecording(r) \/ Tray!CalledOff(r) \/ Tray!Cleared(r)
  BY <1>1, StartingHolds, Zenon
<1>2. CASE \E r \in Refreshers : Tray!Begins(r) \/ Tray!Ends(r) \/ Tray!RefreshesBesides(r)
  BY <1>2, RefreshingHolds, Zenon
<1>3. CASE \E r \in Refreshers : Tray!LookAtRecorder(r) \/ Tray!Send(r)
  BY <1>3, TrayLookHolds, SendHolds, Zenon
<1>4. CASE Tray!GetMessage \/ Tray!DrainCommands \/ Tray!DrainEvents
  BY <1>4, GetMessageHolds, DrainCommandsHolds, DrainEventsHolds
<1>5. CASE Tray!NestedLoop \/ Tray!CloseMenu \/ Tray!CallUpon \/ Tray!Drop
  BY <1>5, MenuHolds, CallUponHolds, DropHolds
<1> QED BY <1>1, <1>2, <1>3, <1>4, <1>5, Zenon DEF Tray!Next

LEMMA TrayStutter == ASSUME TrayInv, UNCHANGED trayVars PROVE TrayInv'
<1>1. TrayTypes' /\ TrayAwake' /\ ChoiceFits'
  BY DEF trayVars, TrayInv, TrayTypes, TrayAwake, Tray!NothingIsOverlooked, ChoiceFits, Tray!ChoiceWasOffered
<1> QED BY <1>1, ThreadStep DEF trayVars, Tray!appVars, Tray!recorderVars

LEMMA TrayIsRight ==
  ASSUME TrayInv PROVE Tray!TypeOK /\ Tray!NothingIsOverlooked /\ Tray!ChoiceWasOffered /\ Tray!TrayFollowsRecorder
<1>1. Tray!TypeOK /\ Tray!NothingIsOverlooked /\ Tray!ChoiceWasOffered
  BY DEF TrayInv, TrayTypes, TrayAwake, ChoiceFits, Tray!TypeOK
<1>2. ASSUME \A r \in Refreshers : refresher[r] = "idle", ~amiss
      PROVE  (recording => menu) /\ (menu => recording \/ unsaid)
  <2>1. starter = NoOne
    BY <1>2 DEF TrayInv, TrayTypes, StarterFits
  <2> QED BY <1>2, <2>1 DEF TrayInv, RefreshFits, Away, Tells, Tray!Refreshing
<1> QED BY <1>1, <1>2 DEF Tray!TrayFollowsRecorder

-----------------------------------------------------------------------------
(* The windows that show a recording                                         *)
RecJobs ==
  [kind : {"show", "countdown"}, of : Starters] \cup [kind : {"close"}] \cup [kind : {"update"}, paused : BOOLEAN]
Sights ==
  [kind : {"nothing"}] \cup [kind : {"close", "go_on"}, of : Starters \cup {NoOne}]
  \cup [kind : {"update"}, paused : BOOLEAN]
ControlViews == {Recording!NoView} \cup [of : Starters, paused : BOOLEAN]
BorderViews == {Recording!NoView} \cup [of : Starters]
CountViews == {Recording!NoView} \cup [of : Starters, ticking : BOOLEAN]
StartPlaces == {"new", "count", "check", "show", "release", "over"}
WorkerPlaces == {"none", "live", "stopping", "error", "state", "gone"}

RecTypes ==
  /\ starting \in [Starters -> StartPlaces] /\ called_off \in [Starters -> BOOLEAN]
  /\ answered \in [Starters -> {"no", "done", "dropped"}]
  /\ rec_starting \in Starters \cup {NoOne} /\ session \in Starters \cup {NoOne}
  /\ paused \in BOOLEAN /\ pauses \in 0 .. MaxPauses
  /\ worker \in [Starters -> WorkerPlaces] /\ seen \in [Starters -> Sights]
  /\ ui_queue \in Seq(RecJobs) /\ raced \in BOOLEAN /\ stuck \in BOOLEAN
  /\ controls \in ControlViews /\ border \in BorderViews /\ countdown \in CountViews

(* A session is that of a start that came so far, and its worker works.      *)
SessionFits ==
  /\ session # NoOne => starting[session] \in {"show", "release", "over"} /\ worker[session] \in {"live", "stopping"}
  /\ \A s \in Starters : seen[s].kind = "close" => seen[s].of = NoOne

(* What the queue leaves the controls to be.                                 *)
Openings == {j \in RecJobs : j.kind \in {"show", "close"}}
OpensFor(x) ==
  {j \in RecJobs : (j.kind = "show" /\ j.of = x) \/ (j.kind = "close" /\ x = NoOne)}
Labels == {j \in RecJobs : j.kind \in {"show", "update"}}
SaysPaused(p) == {j \in RecJobs : (j.kind = "show" /\ p = FALSE) \/ (j.kind = "update" /\ j.paused = p)}

WillBeOpenFor(x) == EndsIn(ui_queue, Openings, OpensFor(x), controls.of = x)
WillSay(p) == EndsIn(ui_queue, Labels, SaysPaused(p), controls # Recording!NoView => controls.paused = p)

(* A worker that is going to close the windows if nothing else begins.       *)
Closer(t) == worker[t] = "error" \/ (worker[t] = "state" /\ seen[t].kind \in {"nothing", "close"})

WindowsFit ==
  /\ border.of = IF controls.of \in Regions THEN controls.of ELSE NoOne
  /\ ~raced => /\ session # NoOne /\ starting[session] # "show" => WillBeOpenFor(session) /\ WillSay(paused)
               /\ session = NoOne => WillBeOpenFor(NoOne) \/ \E t \in Starters : Closer(t)

(* A countdown is asked for once, and is gone when it has answered.          *)
AsksCount(j) == j.kind = "countdown"

CountdownFits ==
  /\ \A k \in DOMAIN ui_queue :
       AsksCount(ui_queue[k]) => LET s == ui_queue[k].of IN
         s \in Regions /\ starting[s] # "new" /\ answered[s] = "no" /\ countdown.of # s
  /\ \A j, k \in DOMAIN ui_queue :
       AsksCount(ui_queue[j]) /\ AsksCount(ui_queue[k]) /\ ui_queue[j].of = ui_queue[k].of => j = k
  /\ countdown # Recording!NoView =>
       countdown.of \in Regions /\ starting[countdown.of] # "new" /\ answered[countdown.of] = "no"
  /\ \A s \in Regions : /\ starting[s] = "new" => answered[s] = "no"
                        /\ (starting[s] \in {"check", "show"} \/ session = s) /\ ~stuck => answered[s] # "no"

RecInv == RecTypes /\ SessionFits /\ WindowsFit /\ CountdownFits

LEMMA RecStarts == ASSUME Recording!RecordingAssumption, Recording!Init PROVE RecInv
<1> USE DEF Recording!RecordingAssumption
<1>1. RecTypes
  <2>1. ui_queue \in Seq(RecJobs) /\ seen \in [Starters -> Sights]
    BY DEF Recording!Init, Recording!Nothing, Sights
  <2>2. 0 \in 0 .. MaxPauses
    OBVIOUS
  <2>3. controls \in ControlViews /\ border \in BorderViews /\ countdown \in CountViews
    BY DEF Recording!Init, ControlViews, BorderViews, CountViews
  <2>4. /\ starting \in [Starters -> StartPlaces] /\ called_off \in [Starters -> BOOLEAN]
        /\ answered \in [Starters -> {"no", "done", "dropped"}] /\ worker \in [Starters -> WorkerPlaces]
    BY DEF Recording!Init, StartPlaces, WorkerPlaces
  <2> QED BY <2>1, <2>2, <2>3, <2>4 DEF Recording!Init, RecTypes
<1>2. SessionFits
  BY DEF Recording!Init, SessionFits, Recording!Nothing
<1>3. DOMAIN ui_queue = {} /\ controls.of = NoOne /\ border.of = NoOne /\ countdown = Recording!NoView
  BY NothingWaits DEF Recording!Init, Recording!NoView
<1>4. WindowsFit
  <2>1. WillBeOpenFor(NoOne)
    BY <1>3 DEF WillBeOpenFor, EndsIn, NoneOf
  <2> QED BY <1>3, <2>1 DEF Recording!Init, WindowsFit
<1>5. CountdownFits
  BY <1>3 DEF Recording!Init, CountdownFits
<1> QED BY <1>1, <1>2, <1>4, <1>5 DEF RecInv

LEMMA ViewsApart ==
  ASSUME Recording!RecordingAssumption
  PROVE  /\ Recording!NoView.of = NoOne
         /\ \A v \in ControlViews : (v # Recording!NoView <=> v.of # NoOne)
              /\ (v # Recording!NoView => v.of \in Starters)
         /\ \A v \in CountViews : (v # Recording!NoView <=> v.of # NoOne)
              /\ (v # Recording!NoView => v.of \in Starters)
  BY DEF Recording!RecordingAssumption, Recording!NoView, ControlViews, CountViews

(* The windows fit when nothing is said to them and no worker's word is taken back. *)
LEMMA WindowsStay ==
  ASSUME RecInv, UNCHANGED <<session, paused, ui_queue, controls, border>>,
         ~raced' => ~raced, session # NoOne /\ starting'[session] # "show" => starting[session] # "show",
         session = NoOne => \A t \in Starters : Closer(t) => Closer(t)'
  PROVE  WindowsFit'
  BY Zenon DEF RecInv, WindowsFit, WillBeOpenFor, WillSay

LEMMA CountdownStays ==
  ASSUME RecInv, UNCHANGED answered, ~stuck' => ~stuck,
         \A k \in DOMAIN ui_queue' : AsksCount(ui_queue'[k]) => k \in DOMAIN ui_queue /\ ui_queue'[k] = ui_queue[k],
         countdown'.of = countdown.of, countdown' # Recording!NoView => countdown # Recording!NoView,
         \A s \in Regions : starting'[s] = "new" <=> starting[s] = "new",
         \A s \in Regions : (starting'[s] \in {"check", "show"} \/ session' = s)
                            => (starting[s] \in {"check", "show"} \/ session = s)
  PROVE  CountdownFits'
<1>1. \A s \in Regions : /\ starting'[s] = "new" => answered'[s] = "no"
                         /\ (starting'[s] \in {"check", "show"} \/ session' = s) /\ ~stuck' => answered'[s] # "no"
  BY DEF RecInv, CountdownFits
<1>2. \A k \in DOMAIN ui_queue' :
        AsksCount(ui_queue'[k]) => LET s == ui_queue'[k].of IN
          s \in Regions /\ starting'[s] # "new" /\ answered'[s] = "no" /\ countdown'.of # s
  BY DEF RecInv, CountdownFits
<1>3. countdown' # Recording!NoView =>
        countdown'.of \in Regions /\ starting'[countdown'.of] # "new" /\ answered'[countdown'.of] = "no"
  BY DEF RecInv, CountdownFits
<1> QED BY <1>1, <1>2, <1>3 DEF RecInv, CountdownFits

(* A start moves to another place.                                           *)
LEMMA StartMoves ==
  ASSUME RecTypes, NEW s \in Starters, NEW to \in StartPlaces, Recording!Moves(s, to)
  PROVE  /\ starting' \in [Starters -> StartPlaces] /\ starting'[s] = to
         /\ \A t \in Starters \ {s} : starting'[t] = starting[t]
  BY DEF RecTypes, Recording!Moves

(* A job that says nothing to the windows.                                   *)
LEMMA OtherJob ==
  ASSUME RecTypes, NEW e \in RecJobs, Recording!Post(e), e.kind = "countdown", UNCHANGED controls
  PROVE  /\ \A x : WillBeOpenFor(x) => WillBeOpenFor(x)'
         /\ \A p : WillSay(p) => WillSay(p)'
<1>1. e \notin Openings /\ e \notin Labels
  BY DEF Openings, Labels
<1>2. ui_queue \in Seq(RecJobs) /\ ui_queue' = Append(ui_queue, e)
  BY DEF RecTypes, Recording!Post
<1>3. ASSUME NEW x, WillBeOpenFor(x) PROVE WillBeOpenFor(x)'
  BY <1>1, <1>2, <1>3, OtherEnd, Zenon DEF WillBeOpenFor
<1>4. ASSUME NEW p, WillSay(p) PROVE WillSay(p)'
  BY <1>1, <1>2, <1>4, OtherEnd, Zenon DEF WillSay
<1> QED BY <1>3, <1>4

LEMMA StartHolds ==
  ASSUME Recording!RecordingAssumption, RecInv, NEW s \in Starters, Recording!Start(s) PROVE RecInv'
<1> USE DEF RecInv
<1>1. /\ starting[s] = "new"
      /\ UNCHANGED <<called_off, answered, Recording!sessionVars, worker, seen, Recording!views, raced, stuck>>
  BY DEF Recording!Start
<1>2. session # s
  BY <1>1 DEF SessionFits, Recording!RecordingAssumption
<1>3. PICK to \in {"over", "count", "check"} :
        /\ Recording!Moves(s, to) /\ rec_starting' \in {rec_starting, s}
        /\ \/ UNCHANGED ui_queue /\ (to = "check" => s \notin Regions)
           \/ s \in Regions /\ to = "count" /\ Recording!Post([kind |-> "countdown", of |-> s])
  BY DEF Recording!Start
<1>4. /\ starting' \in [Starters -> StartPlaces] /\ starting'[s] = to
           /\ \A t \in Starters \ {s} : starting'[t] = starting[t]
  BY <1>3, StartMoves DEF StartPlaces
<1>5. SessionFits'
  BY <1>1, <1>2, <1>4 DEF SessionFits, Recording!sessionVars, RecTypes
<1>6. rec_starting' \in Starters \cup {NoOne}
  BY <1>3 DEF RecTypes
<1>7. CASE UNCHANGED ui_queue /\ (to = "check" => s \notin Regions)
  <2>1. RecTypes'
    BY <1>1, <1>4, <1>6, <1>7 DEF RecTypes, Recording!sessionVars, Recording!views
  <2>2. WindowsFit'
    BY <1>1, <1>2, <1>4, <1>7, WindowsStay DEF Recording!sessionVars, Recording!views, Closer, RecTypes
  <2>3. CountdownFits'
    BY <1>1, <1>2, <1>4, <1>7 DEF CountdownFits, Recording!sessionVars, Recording!views, Recording!RecordingAssumption
  <2> QED BY <1>5, <2>1, <2>2, <2>3
<1>8. ASSUME s \in Regions, to = "count", Recording!Post([kind |-> "countdown", of |-> s]) PROVE RecInv'
  <2> DEFINE e == [kind |-> "countdown", of |-> s]
  <2>1. e \in RecJobs /\ e.kind = "countdown" /\ e.of = s
    BY DEF RecJobs
  <2> HIDE DEF e
  <2>2. Recording!Post(e)
    BY <1>8 DEF e
  <2>3. /\ ui_queue' \in Seq(RecJobs)
        /\ \A k \in DOMAIN ui_queue' : \/ k \in DOMAIN ui_queue /\ ui_queue'[k] = ui_queue[k]
                                       \/ k = Len(ui_queue) + 1 /\ ui_queue'[k] = e
    BY <2>1, <2>2, Appended DEF Recording!Post, RecTypes
  <2>4. RecTypes'
    BY <1>1, <1>4, <1>6, <2>3 DEF RecTypes, Recording!sessionVars, Recording!views
  <2>5. WindowsFit'
    <3>1. /\ \A x : WillBeOpenFor(x) => WillBeOpenFor(x)'
          /\ \A p : WillSay(p) => WillSay(p)'
      BY <1>1, <2>1, <2>2, OtherJob DEF Recording!views
    <3>2. UNCHANGED <<session, paused, controls, border, raced>> /\ \A t \in Starters : Closer(t) => Closer(t)'
      BY <1>1 DEF Recording!sessionVars, Recording!views, Closer
    <3>3. session # NoOne => starting'[session] = starting[session]
      BY <1>2, <1>4 DEF RecTypes
    <3> QED BY <3>1, <3>2, <3>3, Zenon DEF WindowsFit
  <2>6. CountdownFits'
    <3>1. \A k \in DOMAIN ui_queue : AsksCount(ui_queue[k]) => ui_queue[k].of # s
      BY <1>1 DEF CountdownFits
    <3>2. ASSUME NEW k \in DOMAIN ui_queue', AsksCount(ui_queue'[k])
          PROVE  LET t == ui_queue'[k].of IN
                 t \in Regions /\ starting'[t] # "new" /\ answered'[t] = "no" /\ countdown'.of # t
      <4>1. CASE k \in DOMAIN ui_queue /\ ui_queue'[k] = ui_queue[k]
        BY <1>1, <1>4, <3>1, <3>2, <4>1 DEF CountdownFits, Recording!views, Recording!RecordingAssumption
      <4>2. CASE ui_queue'[k] = e
        <5>1. countdown.of # s
          BY <1>1, ViewsApart DEF CountdownFits, RecTypes, Recording!RecordingAssumption
        <5> QED BY <1>1, <1>4, <1>8, <2>1, <4>2, <5>1 DEF CountdownFits, Recording!views
      <4> QED BY <2>3, <3>2, <4>1, <4>2
    <3>3. ASSUME NEW j \in DOMAIN ui_queue', NEW k \in DOMAIN ui_queue',
                 AsksCount(ui_queue'[j]) /\ AsksCount(ui_queue'[k]) /\ ui_queue'[j].of = ui_queue'[k].of
          PROVE  j = k
      BY <2>1, <2>3, <3>1, <3>3 DEF CountdownFits
    <3>4. countdown' # Recording!NoView =>
            countdown'.of \in Regions /\ starting'[countdown'.of] # "new" /\ answered'[countdown'.of] = "no"
      BY <1>1, <1>4, <1>8 DEF CountdownFits, Recording!views, Recording!RecordingAssumption
    <3>5. \A t \in Regions : /\ starting'[t] = "new" => answered'[t] = "no"
                             /\ (starting'[t] \in {"check", "show"} \/ session' = t) /\ ~stuck' => answered'[t] # "no"
      BY <1>1, <1>4, <1>8 DEF CountdownFits, Recording!sessionVars, Recording!RecordingAssumption
    <3> QED BY <3>2, <3>3, <3>4, <3>5, Zenon DEF CountdownFits
  <2> QED BY <1>5, <2>4, <2>5, <2>6
<1> QED BY <1>3, <1>7, <1>8

LEMMA CountedHolds ==
  ASSUME Recording!RecordingAssumption, RecInv, NEW s \in Starters, Recording!Counted(s) PROVE RecInv'
<1> USE DEF RecInv
<1>1. /\ starting[s] = "count" /\ Recording!Moves(s, "check") /\ stuck' = (stuck \/ answered[s] = "no")
      /\ UNCHANGED <<called_off, answered, rec_starting, Recording!sessionVars, worker, seen, ui_queue,
                     Recording!views, raced>>
  BY DEF Recording!Counted
<1>2. /\ starting' \in [Starters -> StartPlaces] /\ starting'[s] = "check"
           /\ \A t \in Starters \ {s} : starting'[t] = starting[t]
  BY <1>1, StartMoves DEF StartPlaces
<1>3. session # s /\ stuck' \in BOOLEAN
  BY <1>1 DEF SessionFits, Recording!RecordingAssumption
<1>4. RecTypes'
  BY <1>1, <1>2, <1>3 DEF RecTypes, Recording!sessionVars, Recording!views
<1>5. SessionFits'
  BY <1>1, <1>2, <1>3 DEF SessionFits, Recording!sessionVars, RecTypes
<1>6. WindowsFit'
  BY <1>1, <1>2, <1>3, WindowsStay DEF Recording!sessionVars, Recording!views, Closer, RecTypes
<1>7. CountdownFits'
  <2>1. /\ \A k \in DOMAIN ui_queue :
             AsksCount(ui_queue[k]) => LET t == ui_queue[k].of IN
               t \in Regions /\ starting'[t] # "new" /\ answered[t] = "no" /\ countdown.of # t
        /\ countdown # Recording!NoView =>
             countdown.of \in Regions /\ starting'[countdown.of] # "new" /\ answered[countdown.of] = "no"
    BY <1>1, <1>2 DEF CountdownFits, Recording!RecordingAssumption
  <2>2. \A t \in Regions : /\ starting'[t] = "new" => answered[t] = "no"
                           /\ (starting'[t] \in {"check", "show"} \/ session = t) /\ ~stuck' => answered[t] # "no"
    BY <1>1, <1>2 DEF CountdownFits, Recording!RecordingAssumption
  <2> QED BY <1>1, <2>1, <2>2 DEF CountdownFits, Recording!sessionVars, Recording!views
<1> QED BY <1>4, <1>5, <1>6, <1>7

LEMMA BeginHolds ==
  ASSUME Recording!RecordingAssumption, RecInv, NEW s \in Starters, Recording!Begin(s) PROVE RecInv'
<1> USE DEF RecInv
<1>1. /\ starting[s] = "check"
      /\ UNCHANGED <<called_off, answered, rec_starting, pauses, seen, ui_queue, Recording!views, raced, stuck>>
  BY DEF Recording!Begin
<1>2. session # s
  BY <1>1 DEF SessionFits, Recording!RecordingAssumption
<1>3. CASE Recording!Moves(s, "release") /\ UNCHANGED <<session, paused, worker>>
  <2>1. /\ starting' \in [Starters -> StartPlaces] /\ starting'[s] = "release"
             /\ \A t \in Starters \ {s} : starting'[t] = starting[t]
    BY <1>3, StartMoves DEF StartPlaces
  <2>2. RecTypes'
    BY <1>1, <1>3, <2>1 DEF RecTypes, Recording!views
  <2>3. SessionFits'
    BY <1>1, <1>2, <1>3, <2>1 DEF SessionFits, RecTypes
  <2>4. WindowsFit'
    BY <1>1, <1>2, <1>3, <2>1, WindowsStay DEF Recording!views, Closer, RecTypes
  <2>5. CountdownFits'
    <3>1. \A t \in Regions : starting'[t] = "new" <=> starting[t] = "new"
      BY <1>1, <2>1 DEF Recording!RecordingAssumption
    <3>2. \A t \in Regions : (starting'[t] \in {"check", "show"} \/ session' = t)
                              => (starting[t] \in {"check", "show"} \/ session = t)
      BY <1>1, <1>3, <2>1 DEF Recording!RecordingAssumption
    <3> QED BY <1>1, <3>1, <3>2, CountdownStays DEF Recording!views
  <2> QED BY <2>2, <2>3, <2>4, <2>5
<1>4. ASSUME session = NoOne, Recording!Moves(s, "show"), session' = s, paused' = FALSE,
             worker' = [worker EXCEPT ![s] = "live"]
      PROVE  RecInv'
  <2>1. /\ starting' \in [Starters -> StartPlaces] /\ starting'[s] = "show"
             /\ \A t \in Starters \ {s} : starting'[t] = starting[t]
    BY <1>4, StartMoves DEF StartPlaces
  <2>2. worker' \in [Starters -> WorkerPlaces] /\ worker'[s] = "live"
    BY <1>4 DEF RecTypes, WorkerPlaces
  <2>3. RecTypes'
    BY <1>1, <1>4, <2>1, <2>2 DEF RecTypes, Recording!views
  <2>4. SessionFits'
    BY <1>1, <1>4, <2>1, <2>2 DEF SessionFits
  <2>5. WindowsFit'
    BY <1>1, <1>4, <2>1 DEF WindowsFit, Recording!views, Recording!RecordingAssumption
  <2>6. CountdownFits'
    <3>1. \A t \in Regions : starting'[t] = "new" <=> starting[t] = "new"
      BY <1>1, <2>1 DEF Recording!RecordingAssumption
    <3>2. \A t \in Regions : (starting'[t] \in {"check", "show"} \/ session' = t)
                              => (starting[t] \in {"check", "show"} \/ session = t)
      BY <1>1, <1>4, <2>1 DEF Recording!RecordingAssumption
    <3> QED BY <1>1, <3>1, <3>2, CountdownStays DEF Recording!views
  <2> QED BY <2>3, <2>4, <2>5, <2>6
<1> QED
  <2>1. CASE called_off[s] \/ session # NoOne
    BY <1>3, <2>1 DEF Recording!Begin
  <2>2. CASE ~(called_off[s] \/ session # NoOne)
    BY <1>4, <2>2 DEF Recording!Begin
  <2> QED BY <2>1, <2>2

(* A job that says something to the windows is put at the end.               *)
LEMMA JobPosted ==
  ASSUME RecTypes, NEW e \in RecJobs, Recording!Post(e), e.kind # "countdown"
  PROVE  /\ ui_queue' \in Seq(RecJobs)
         /\ \A k \in DOMAIN ui_queue' :
              AsksCount(ui_queue'[k]) => k \in DOMAIN ui_queue /\ ui_queue'[k] = ui_queue[k]
         /\ \A x : e \in OpensFor(x) => WillBeOpenFor(x)'
         /\ \A x : e.kind = "update" /\ WillBeOpenFor(x) /\ UNCHANGED controls => WillBeOpenFor(x)'
         /\ \A p : e \in SaysPaused(p) => WillSay(p)'
<1>1. ui_queue \in Seq(RecJobs) /\ ui_queue' = Append(ui_queue, e)
  BY DEF RecTypes, Recording!Post
<1>2. /\ ui_queue' \in Seq(RecJobs)
      /\ \A k \in DOMAIN ui_queue' : \/ k \in DOMAIN ui_queue /\ ui_queue'[k] = ui_queue[k]
                                     \/ k = Len(ui_queue) + 1 /\ ui_queue'[k] = e
  BY <1>1, Appended
<1>3. ASSUME NEW x, e \in OpensFor(x) PROVE WillBeOpenFor(x)'
  BY <1>1, <1>3, GoodEnd, Zenon DEF WillBeOpenFor
<1>4. ASSUME NEW x, e.kind = "update", WillBeOpenFor(x), UNCHANGED controls PROVE WillBeOpenFor(x)'
  <2>1. e \notin Openings
    BY <1>4 DEF Openings
  <2> QED BY <1>1, <1>4, <2>1, OtherEnd, Zenon DEF WillBeOpenFor
<1>5. ASSUME NEW p, e \in SaysPaused(p) PROVE WillSay(p)'
  BY <1>1, <1>5, GoodEnd, Zenon DEF WillSay
<1>6. \A k \in DOMAIN ui_queue' :
        AsksCount(ui_queue'[k]) => k \in DOMAIN ui_queue /\ ui_queue'[k] = ui_queue[k]
  BY <1>2 DEF AsksCount
<1> QED BY <1>2, <1>3, <1>4, <1>5, <1>6, Zenon

LEMMA ShowHolds ==
  ASSUME Recording!RecordingAssumption, RecInv, NEW s \in Starters, Recording!ShowRecWindows(s) PROVE RecInv'
<1> USE DEF RecInv
<1> DEFINE e == [kind |-> "show", of |-> s]
<1>1. /\ starting[s] = "show" /\ Recording!Moves(s, "release") /\ Recording!Post(e)
           /\ raced' = (raced \/ session # s \/ paused)
      /\ UNCHANGED <<called_off, answered, rec_starting, Recording!sessionVars, worker, seen, Recording!views, stuck>>
  BY DEF Recording!ShowRecWindows
<1>2. e \in RecJobs /\ e.kind = "show" /\ e.of = s
  BY DEF RecJobs
<1>3. e \in OpensFor(s) /\ e \in SaysPaused(FALSE)
  BY <1>2 DEF OpensFor, SaysPaused
<1> HIDE DEF e
<1>4. /\ starting' \in [Starters -> StartPlaces] /\ starting'[s] = "release"
           /\ \A t \in Starters \ {s} : starting'[t] = starting[t]
  BY <1>1, StartMoves DEF StartPlaces
<1>5. /\ ui_queue' \in Seq(RecJobs) /\ WillBeOpenFor(s)' /\ WillSay(FALSE)'
      /\ \A k \in DOMAIN ui_queue' :
           AsksCount(ui_queue'[k]) => k \in DOMAIN ui_queue /\ ui_queue'[k] = ui_queue[k]
  BY <1>1, <1>2, <1>3, JobPosted, Zenon
<1>6. RecTypes'
  <2>1. raced' \in BOOLEAN
    BY <1>1
  <2> QED BY <1>1, <1>4, <1>5, <2>1 DEF RecTypes, Recording!sessionVars, Recording!views
<1>7. SessionFits'
  BY <1>1, <1>4 DEF SessionFits, Recording!sessionVars, RecTypes
<1>8. WindowsFit'
  <2>1. border'.of = IF controls'.of \in Regions THEN controls'.of ELSE NoOne
    BY <1>1 DEF WindowsFit, Recording!views
  <2>2. ASSUME ~raced' PROVE session' = s /\ paused' = FALSE /\ s # NoOne
    BY <1>1, <2>2 DEF Recording!sessionVars, RecTypes, Recording!RecordingAssumption
  <2> QED BY <1>5, <2>1, <2>2, Zenon DEF WindowsFit
<1>9. CountdownFits'
  <2>1. \A t \in Regions : starting'[t] = "new" <=> starting[t] = "new"
    BY <1>1, <1>4 DEF Recording!RecordingAssumption
  <2>2. \A t \in Regions : (starting'[t] \in {"check", "show"} \/ session' = t)
                            => (starting[t] \in {"check", "show"} \/ session = t)
    BY <1>1, <1>4 DEF Recording!RecordingAssumption, Recording!sessionVars
  <2> QED BY <1>1, <1>5, <2>1, <2>2, CountdownStays DEF Recording!views
<1> QED BY <1>6, <1>7, <1>8, <1>9

LEMMA AskedIs ==
  ASSUME RecTypes, SessionFits, Recording!Asked \/ UNCHANGED worker, UNCHANGED seen
  PROVE  /\ worker' \in [Starters -> WorkerPlaces]
         /\ session # NoOne => worker'[session] \in {"live", "stopping"}
         /\ \A t \in Starters : Closer(t) => Closer(t)'
<1>1. CASE session # NoOne /\ Recording!Asked
  <2>1. session \in Starters /\ worker' = [worker EXCEPT ![session] = "stopping"]
    BY <1>1 DEF RecTypes, Recording!Asked
  <2>2. worker' \in [Starters -> WorkerPlaces] /\ worker'[session] = "stopping"
        /\ \A t \in Starters \ {session} : worker'[t] = worker[t]
    BY <2>1 DEF RecTypes, WorkerPlaces
  <2>3. worker[session] \in {"live", "stopping"}
    BY <1>1 DEF SessionFits
  <2> QED BY <2>2, <2>3 DEF Closer
<1>2. CASE session = NoOne \/ UNCHANGED worker
  <2>1. UNCHANGED worker
    BY <1>2 DEF Recording!Asked
  <2> QED BY <2>1 DEF RecTypes, SessionFits, Closer
<1> QED BY <1>1, <1>2

LEMMA StopHolds ==
  ASSUME Recording!RecordingAssumption, RecInv, Recording!Stop PROVE RecInv'
<1> USE DEF RecInv
<1>1. /\ Recording!Asked \/ UNCHANGED worker
      /\ UNCHANGED <<starting, answered, rec_starting, Recording!sessionVars, seen, ui_queue, Recording!views, raced,
                     stuck>>
  BY DEF Recording!Stop
<1>2. called_off' \in [Starters -> BOOLEAN]
  BY DEF Recording!Stop, RecTypes
<1>3. /\ worker' \in [Starters -> WorkerPlaces]
      /\ session # NoOne => worker'[session] \in {"live", "stopping"}
      /\ \A t \in Starters : Closer(t) => Closer(t)'
  BY <1>1, AskedIs
<1>4. RecTypes'
  BY <1>1, <1>2, <1>3 DEF RecTypes, Recording!sessionVars, Recording!views
<1>5. SessionFits'
  BY <1>1, <1>3 DEF SessionFits, Recording!sessionVars
<1>6. WindowsFit'
  BY <1>1, <1>3, WindowsStay DEF Recording!sessionVars, Recording!views
<1>7. CountdownFits'
  BY <1>1, CountdownStays DEF Recording!sessionVars, Recording!views
<1> QED BY <1>4, <1>5, <1>6, <1>7

LEMMA ReleaseHolds ==
  ASSUME Recording!RecordingAssumption, RecInv, NEW s \in Starters, Recording!Release(s) PROVE RecInv'
<1> USE DEF RecInv
<1>1. /\ starting[s] = "release" /\ Recording!Moves(s, "over") /\ rec_starting' = NoOne
           /\ (Recording!Asked \/ UNCHANGED worker)
      /\ UNCHANGED <<called_off, answered, Recording!sessionVars, seen, ui_queue, Recording!views, raced, stuck>>
  BY DEF Recording!Release
<1>2. /\ starting' \in [Starters -> StartPlaces] /\ starting'[s] = "over"
           /\ \A t \in Starters \ {s} : starting'[t] = starting[t]
  BY <1>1, StartMoves DEF StartPlaces
<1>3. /\ worker' \in [Starters -> WorkerPlaces]
      /\ session # NoOne => worker'[session] \in {"live", "stopping"}
      /\ \A t \in Starters : Closer(t) => Closer(t)'
  BY <1>1, AskedIs
<1>4. RecTypes'
  BY <1>1, <1>2, <1>3 DEF RecTypes, Recording!sessionVars, Recording!views
<1>5. SessionFits'
  BY <1>1, <1>2, <1>3 DEF SessionFits, Recording!sessionVars, RecTypes
<1>6. WindowsFit'
  <2>1. session # NoOne /\ starting'[session] # "show" => starting[session] # "show"
    BY <1>1, <1>2 DEF RecTypes
  <2> QED BY <1>1, <1>3, <2>1, WindowsStay DEF Recording!sessionVars, Recording!views
<1>7. CountdownFits'
  <2>1. \A t \in Regions : starting'[t] = "new" <=> starting[t] = "new"
    BY <1>1, <1>2 DEF Recording!RecordingAssumption
  <2>2. \A t \in Regions : (starting'[t] \in {"check", "show"} \/ session' = t)
                            => (starting[t] \in {"check", "show"} \/ session = t)
    BY <1>1, <1>2 DEF Recording!RecordingAssumption, Recording!sessionVars
  <2> QED BY <1>1, <2>1, <2>2, CountdownStays DEF Recording!views
<1> QED BY <1>4, <1>5, <1>6, <1>7

LEMMA PauseHolds ==
  ASSUME Recording!RecordingAssumption, RecInv, Recording!PauseToggle PROVE RecInv'
<1> USE DEF RecInv
<1> DEFINE e == [kind |-> "update", paused |-> paused']
<1>1. /\ session # NoOne /\ pauses < MaxPauses /\ pauses' = pauses + 1 /\ paused' = ~paused /\ Recording!Post(e)
      /\ UNCHANGED <<Recording!starterVars, answered, session, worker, seen, Recording!views, raced, stuck>>
  BY DEF Recording!PauseToggle
<1>2. paused' \in BOOLEAN /\ pauses' \in 0 .. MaxPauses
  BY <1>1 DEF RecTypes, Recording!RecordingAssumption
<1>3. e \in RecJobs /\ e.kind = "update" /\ e \in SaysPaused(paused')
  BY <1>2 DEF RecJobs, SaysPaused
<1> HIDE DEF e
<1>4. /\ ui_queue' \in Seq(RecJobs)
      /\ EndsIn(ui_queue', Labels, SaysPaused(paused'), controls' # Recording!NoView => controls'.paused = paused')
      /\ \A k \in DOMAIN ui_queue' :
           AsksCount(ui_queue'[k]) => k \in DOMAIN ui_queue /\ ui_queue'[k] = ui_queue[k]
      /\ \A x : WillBeOpenFor(x) => WillBeOpenFor(x)'
  <2>1. e.kind # "countdown" /\ UNCHANGED controls
    BY <1>1, <1>3 DEF Recording!views
  <2> DEFINE p == paused'
  <2>2. e \in SaysPaused(p)
    BY <1>3
  <2> HIDE DEF p
  <2>3. /\ ui_queue' \in Seq(RecJobs)
             /\ EndsIn(ui_queue', Labels, SaysPaused(p), controls' # Recording!NoView => controls'.paused = p)
        /\ \A k \in DOMAIN ui_queue' :
             AsksCount(ui_queue'[k]) => k \in DOMAIN ui_queue /\ ui_queue'[k] = ui_queue[k]
        /\ \A x : WillBeOpenFor(x) => WillBeOpenFor(x)'
    <3>1. ui_queue \in Seq(RecJobs) /\ ui_queue' = Append(ui_queue, e)
      BY <1>1 DEF RecTypes, Recording!Post
    <3>2. EndsIn(ui_queue', Labels, SaysPaused(p), controls' # Recording!NoView => controls'.paused = p)
      BY <1>3, <2>2, <3>1, GoodEnd, Zenon
    <3> QED BY <1>1, <1>3, <2>1, <3>2, JobPosted, Zenon
  <2> QED BY <2>3 DEF p
<1>5. RecTypes'
  BY <1>1, <1>2, <1>4 DEF RecTypes, Recording!starterVars, Recording!views
<1>6. SessionFits'
  BY <1>1 DEF SessionFits, Recording!starterVars
<1>7. WindowsFit'
  <2>1. border'.of = IF controls'.of \in Regions THEN controls'.of ELSE NoOne
    BY <1>1 DEF WindowsFit, Recording!views
  <2>2. UNCHANGED <<session, raced, starting>>
    BY <1>1 DEF Recording!starterVars
  <2>3. session # NoOne /\ WillSay(paused)'
    BY <1>1, <1>4, Zenon DEF WillSay
  <2> QED BY <1>4, <2>1, <2>2, <2>3, Zenon DEF WindowsFit
<1>8. CountdownFits'
  BY <1>1, <1>4, CountdownStays DEF Recording!starterVars, Recording!views
<1> QED BY <1>5, <1>6, <1>7, <1>8

LEMMA FinishHolds ==
  ASSUME Recording!RecordingAssumption, RecInv, NEW s \in Starters, Recording!Finish(s) PROVE RecInv'
<1> USE DEF RecInv
<1>1. /\ session = s /\ seen[s] = Recording!Nothing /\ session' = NoOne
      /\ UNCHANGED <<Recording!starterVars, answered, paused, pauses, seen, ui_queue, Recording!views, raced, stuck>>
      /\ \/ worker' = [worker EXCEPT ![s] = "error"]
         \/ worker' = [worker EXCEPT ![s] = "state"]
  BY DEF Recording!Finish
<1>2. worker' \in [Starters -> WorkerPlaces] /\ worker'[s] \in {"error", "state"}
  BY <1>1 DEF RecTypes, WorkerPlaces
<1>3. RecTypes'
  BY <1>1, <1>2 DEF RecTypes, Recording!starterVars, Recording!views
<1>4. SessionFits'
  BY <1>1 DEF SessionFits
<1>5. WindowsFit'
  <2>1. Closer(s)'
    BY <1>1, <1>2 DEF Closer, Recording!Nothing
  <2>2. border'.of = IF controls'.of \in Regions THEN controls'.of ELSE NoOne
    BY <1>1 DEF WindowsFit, Recording!views
  <2> QED BY <1>1, <2>1, <2>2, Zenon DEF WindowsFit
<1>6. CountdownFits'
  BY <1>1, CountdownStays DEF Recording!starterVars, Recording!views, Recording!RecordingAssumption
<1> QED BY <1>3, <1>4, <1>5, <1>6

(* A worker looks at the recorder before it acts on an event.                *)
LEMMA LookingHolds ==
  ASSUME Recording!RecordingAssumption, RecInv, NEW s \in Starters, Recording!LoseInput(s) \/ Recording!Look(s)
  PROVE  RecInv'
<1> USE DEF RecInv
<1>1. UNCHANGED <<Recording!starterVars, answered, session, paused, worker, ui_queue, Recording!views, raced, stuck>>
  BY DEF Recording!LoseInput, Recording!Look, Recording!sessionVars
<1>2. pauses' \in 0 .. MaxPauses
  BY DEF Recording!LoseInput, Recording!Look, Recording!sessionVars, RecTypes, Recording!RecordingAssumption
<1>3. /\ Recording!LookOnError(s) \/ Recording!LookOnState(s)
      /\ session = NoOne => worker[s] \in {"error", "state"} 
      /\ worker[s] = "state" => Recording!LookOnState(s)
  BY DEF Recording!LoseInput, Recording!Look, Recording!RecordingAssumption
<1>4. PICK d \in Sights : /\ seen' = [seen EXCEPT ![s] = d] /\ (d.kind = "close" => d.of = NoOne)
                          /\ session = NoOne /\ worker[s] = "state" => d.kind = "close"
  <2>1. CASE Recording!LookOnError(s)
    <3> DEFINE d == [kind |-> IF session = NoOne THEN "close" ELSE "go_on", of |-> session]
    <3>1. d \in Sights /\ (d.kind = "close" => d.of = NoOne) /\ (session = NoOne => d.kind = "close")
      BY DEF Sights, RecTypes
    <3> QED BY <2>1, <3>1 DEF Recording!LookOnError
  <2>2. CASE Recording!LookOnState(s)
    <3> DEFINE d == IF session = NoOne THEN [kind |-> "close", of |-> NoOne]
                    ELSE [kind |-> "update", paused |-> paused]
    <3>1. d \in Sights /\ (d.kind = "close" => d.of = NoOne) /\ (session = NoOne => d.kind = "close")
      BY DEF Sights, RecTypes
    <3> QED BY <2>2, <3>1 DEF Recording!LookOnState
  <2> QED BY <1>3, <2>1, <2>2
<1>5. seen' \in [Starters -> Sights] /\ seen'[s] = d /\ \A t \in Starters \ {s} : seen'[t] = seen[t]
  BY <1>4 DEF RecTypes
<1>6. RecTypes'
  BY <1>1, <1>2, <1>5 DEF RecTypes, Recording!starterVars, Recording!views
<1>7. SessionFits'
  <2>1. \A t \in Starters : seen'[t].kind = "close" => seen'[t].of = NoOne
    BY <1>4, <1>5 DEF SessionFits
  <2> QED BY <1>1, <2>1 DEF SessionFits, Recording!starterVars
<1>8. WindowsFit'
  <2>1. ASSUME session = NoOne, NEW t \in Starters, Closer(t) PROVE Closer(t)'
    <3>1. CASE t = s
      BY <1>1, <1>4, <1>5, <2>1, <3>1 DEF Closer
    <3>2. CASE t # s
      BY <1>1, <1>5, <2>1, <3>2 DEF Closer
    <3> QED BY <3>1, <3>2
  <2> QED BY <1>1, <2>1, WindowsStay DEF Recording!starterVars, Recording!views
<1>9. CountdownFits'
  BY <1>1, CountdownStays DEF Recording!starterVars, Recording!views
<1> QED BY <1>6, <1>7, <1>8, <1>9

(* ... and then acts on what it saw.                                         *)
LEMMA ActHolds ==
  ASSUME Recording!RecordingAssumption, RecInv, NEW s \in Starters, Recording!Act(s) PROVE RecInv'
<1> USE DEF RecInv
<1>1. /\ seen[s] # Recording!Nothing /\ seen' = [seen EXCEPT ![s] = Recording!Nothing]
      /\ UNCHANGED <<Recording!starterVars, answered, Recording!sessionVars, Recording!views, stuck>>
  BY DEF Recording!Act
<1>2. /\ worker' \in [Starters -> WorkerPlaces] /\ \A t \in Starters \ {s} : worker'[t] = worker[t]
      /\ worker[s] = "live" => worker'[s] = "live"
      /\ worker[s] = "stopping" => worker'[s] = "stopping"
      /\ worker[s] = "error" => worker'[s] = "state"
  BY DEF Recording!Act, RecTypes, WorkerPlaces
<1>3. /\ seen' \in [Starters -> Sights] /\ seen'[s].kind = "nothing"
      /\ \A t \in Starters \ {s} : seen'[t] = seen[t]
  BY <1>1 DEF RecTypes, Sights, Recording!Nothing
<1>4. SessionFits'
  <2>1. session # NoOne => worker'[session] \in {"live", "stopping"}
    BY <1>2 DEF SessionFits, RecTypes
  <2> QED BY <1>1, <1>3, <2>1 DEF SessionFits, Recording!starterVars, Recording!sessionVars
<1>5. \A t \in Starters : Closer(t) => Closer(t)' \/ (t = s /\ seen[s].kind \in {"nothing", "close"})
  BY <1>2, <1>3 DEF Closer
<1>6. border'.of = IF controls'.of \in Regions THEN controls'.of ELSE NoOne
  BY <1>1 DEF WindowsFit, Recording!views
<1>7. ASSUME ui_queue' \in Seq(RecJobs), raced' \in BOOLEAN, WindowsFit',
             \A k \in DOMAIN ui_queue' : AsksCount(ui_queue'[k]) => k \in DOMAIN ui_queue
               /\ ui_queue'[k] = ui_queue[k]
      PROVE  RecInv'
  <2>1. RecTypes'
    BY <1>1, <1>2, <1>3, <1>7 DEF RecTypes, Recording!starterVars, Recording!sessionVars, Recording!views
  <2>2. CountdownFits'
    BY <1>1, <1>7, CountdownStays DEF Recording!starterVars, Recording!sessionVars, Recording!views
  <2> QED BY <1>4, <1>7, <2>1, <2>2
<1>8. CASE seen[s].kind = "close" /\ Recording!ClosesFor(s)
  <2> DEFINE e == [kind |-> "close"]
  <2>1. e \in RecJobs /\ e.kind # "countdown" /\ e \in OpensFor(NoOne)
    BY DEF RecJobs, OpensFor
  <2>2. Recording!Post(e) /\ raced' = (raced \/ session # NoOne)
    BY <1>8 DEF Recording!ClosesFor, SessionFits
  <2> HIDE DEF e
  <2>3. /\ ui_queue' \in Seq(RecJobs) /\ WillBeOpenFor(NoOne)'
        /\ \A k \in DOMAIN ui_queue' : AsksCount(ui_queue'[k]) => k \in DOMAIN ui_queue /\ ui_queue'[k] = ui_queue[k]
    BY <2>1, <2>2, JobPosted, Zenon
  <2>4. ~raced' => session' = NoOne
    BY <1>1, <2>2 DEF Recording!sessionVars
  <2>5. WindowsFit'
    BY <1>6, <2>3, <2>4, Zenon DEF WindowsFit
  <2>6. raced' \in BOOLEAN
    BY <2>2
  <2> QED BY <1>7, <2>3, <2>5, <2>6
<1>9. CASE seen[s].kind = "update" /\ Recording!Post(seen[s]) /\ raced' = (raced \/ paused # seen[s].paused)
  <2> DEFINE e == seen[s]
  <2>1. e \in RecJobs /\ e.kind # "countdown" /\ e.kind = "update"
    BY <1>9 DEF RecTypes, RecJobs, Sights
  <2>2. e.paused = paused => e \in SaysPaused(paused)
    BY <2>1 DEF SaysPaused
  <2>3. Recording!Post(e)
    BY <1>9
  <2> HIDE DEF e
  <2>4. UNCHANGED <<controls, session, paused, starting>>
    BY <1>1 DEF Recording!views, Recording!starterVars, Recording!sessionVars
  <2>5. /\ ui_queue' \in Seq(RecJobs) /\ (e.paused = paused => WillSay(paused)')
        /\ \A x : WillBeOpenFor(x) => WillBeOpenFor(x)'
        /\ \A k \in DOMAIN ui_queue' : AsksCount(ui_queue'[k]) => k \in DOMAIN ui_queue /\ ui_queue'[k] = ui_queue[k]
    <3> DEFINE p == paused
    <3>1. e.paused = paused => e \in SaysPaused(p)
      BY <2>2
    <3>2. ASSUME e.paused = paused
          PROVE  EndsIn(ui_queue', Labels, SaysPaused(p), controls' # Recording!NoView => controls'.paused = p)
      <4>1. ui_queue \in Seq(RecJobs) /\ ui_queue' = Append(ui_queue, e)
        BY <2>3 DEF RecTypes, Recording!Post
      <4> HIDE DEF p
      <4> QED BY <2>1, <3>1, <3>2, <4>1, GoodEnd, Zenon
    <3>3. e.paused = paused => WillSay(paused)'
      BY <2>4, <3>2, Zenon DEF WillSay
    <3> QED BY <2>1, <2>3, <2>4, <3>3, JobPosted, Zenon
  <2>6. ~raced' => ~raced /\ e.paused = paused
    BY <1>9 DEF e
  <2>7. \A t \in Starters : Closer(t) => Closer(t)'
    BY <1>5, <2>1 DEF e
  <2>8. WindowsFit'
    BY <1>6, <2>4, <2>5, <2>6, <2>7, Zenon DEF WindowsFit
  <2>9. raced' \in BOOLEAN
    BY <1>9
  <2> QED BY <1>7, <2>5, <2>8, <2>9
<1>10. CASE seen[s].kind = "go_on" /\ UNCHANGED <<ui_queue, raced>>
  <2>1. UNCHANGED <<controls, border, session, paused, starting>>
    BY <1>1 DEF Recording!views, Recording!starterVars, Recording!sessionVars
  <2>2. \A t \in Starters : Closer(t) => Closer(t)'
    BY <1>5, <1>10
  <2>3. WindowsFit'
    BY <1>10, <2>1, <2>2, WindowsStay
  <2>4. ui_queue' \in Seq(RecJobs) /\ raced' \in BOOLEAN
    BY <1>10 DEF RecTypes
  <2> QED BY <1>7, <1>10, <2>3, <2>4
<1> QED BY <1>8, <1>9, <1>10 DEF Recording!Act

(* What the windows are told is what they then are.                          *)
LEMMA JobTaken ==
  ASSUME Recording!RecordingAssumption, RecTypes, ui_queue # <<>>, ui_queue' = Tail(ui_queue),
         controls' \in ControlViews,
         NEW e, e = Head(ui_queue),
         \/ e.kind = "show" /\ controls' = Recording!NewControls(e.of)
         \/ e.kind = "close" /\ controls' = Recording!NoView
         \/ /\ e.kind = "update"
            /\ controls' = IF controls = Recording!NoView THEN controls ELSE [controls EXCEPT !.paused = e.paused]
         \/ e.kind = "countdown" /\ UNCHANGED controls
  PROVE  /\ \A x : WillBeOpenFor(x) => WillBeOpenFor(x)'
         /\ \A p : WillSay(p) => WillSay(p)'
<1>1. ui_queue \in Seq(RecJobs) /\ controls \in ControlViews /\ e \in RecJobs
  BY HeadTaken DEF RecTypes
<1>2. /\ e \in Openings <=> e.kind \in {"show", "close"}
      /\ e \in Labels <=> e.kind \in {"show", "update"}
  BY <1>1 DEF Openings, Labels
<1>3. ASSUME NEW x, WillBeOpenFor(x) PROVE WillBeOpenFor(x)'
  <2>1. e \in OpensFor(x) => controls'.of = x
    BY DEF OpensFor, Recording!NewControls, Recording!NoView
  <2>2. e \notin Openings /\ controls.of = x => controls'.of = x
    BY <1>1, <1>2 DEF ControlViews, Recording!NoView
  <2>3. EndsIn(Tail(ui_queue), Openings, OpensFor(x), controls'.of = x)
    BY <1>1, <1>3, <2>1, <2>2, HeadDone, Zenon DEF WillBeOpenFor
  <2> QED BY <2>3, Zenon DEF WillBeOpenFor
<1>4. ASSUME NEW p, WillSay(p) PROVE WillSay(p)'
  <2>1. e \in SaysPaused(p) => (controls' # Recording!NoView => controls'.paused = p)
    <3>1. CASE e.kind = "update" /\ controls # Recording!NoView
      <4>1. controls \in [of : Starters, paused : BOOLEAN] /\ controls' = [controls EXCEPT !.paused = e.paused]
        BY <1>1, <3>1 DEF ControlViews
      <4>2. controls'.paused = e.paused
        BY <4>1
      <4> QED BY <3>1, <4>2 DEF SaysPaused
    <3>2. CASE e.kind # "update"
      <4>1. e.kind = "show" => controls' = Recording!NewControls(e.of)
        OBVIOUS
      <4>2. e \in SaysPaused(p) => e.kind = "show" /\ p = FALSE
        BY <3>2 DEF SaysPaused
      <4>3. controls' = Recording!NewControls(e.of) => controls'.paused = FALSE
        BY DEF Recording!NewControls
      <4> QED BY <4>1, <4>2, <4>3, Zenon
    <3>3. CASE e.kind = "update" /\ controls = Recording!NoView
      BY <3>3
    <3> QED BY <3>1, <3>2, <3>3
  <2>2. e \notin Labels /\ (controls # Recording!NoView => controls.paused = p)
          => (controls' # Recording!NoView => controls'.paused = p)
    BY <1>2
  <2> DEFINE w == controls # Recording!NoView => controls.paused = p
             z == controls' # Recording!NoView => controls'.paused = p
  <2>3. EndsIn(ui_queue, Labels, SaysPaused(p), w)
    BY <1>4, Zenon DEF WillSay
  <2>4. (e \in SaysPaused(p) => z) /\ (e \notin Labels /\ w => z)
    BY <2>1, <2>2
  <2> HIDE DEF w, z
  <2>5. EndsIn(Tail(ui_queue), Labels, SaysPaused(p), z)
    BY <1>1, <2>3, <2>4, HeadDone, Zenon
  <2> QED BY <2>5, Zenon DEF WillSay, z
<1> QED BY <1>3, <1>4

LEMMA UiHolds == ASSUME Recording!RecordingAssumption, RecInv, Recording!Ui PROVE RecInv'
<1> USE DEF RecInv
<1> DEFINE e == Head(ui_queue)
<1>1. /\ ui_queue # <<>> /\ ui_queue' = Tail(ui_queue)
      /\ UNCHANGED <<Recording!starterVars, Recording!sessionVars, worker, seen, raced, stuck>>
  BY DEF Recording!Ui
<1>2. /\ e \in RecJobs /\ e = ui_queue[1] /\ 1 \in DOMAIN ui_queue /\ ui_queue' \in Seq(RecJobs)
      /\ \A k \in DOMAIN ui_queue' : k + 1 \in DOMAIN ui_queue /\ ui_queue'[k] = ui_queue[k + 1] /\ k \in Int
           /\ k + 1 # 1
  BY <1>1, HeadTaken DEF RecTypes
<1>3. \/ e.kind = "show" /\ Recording!ShowUi(e.of) /\ UNCHANGED <<countdown, answered>>
      \/ e.kind = "close" /\ border' = Recording!NoView /\ controls' = Recording!NoView
           /\ UNCHANGED <<countdown, answered>>
      \/ /\ e.kind = "update"
         /\ controls' = IF controls = Recording!NoView THEN controls ELSE [controls EXCEPT !.paused = e.paused]
         /\ UNCHANGED <<border, countdown, answered>>
      \/ e.kind = "countdown" /\ Recording!CountdownUi(e.of) /\ UNCHANGED <<border, controls>>
  BY DEF Recording!Ui
<1> HIDE DEF e
<1>4. /\ e.kind = "update" => e.paused \in BOOLEAN
      /\ e.kind \in {"show", "countdown"} => e.of \in Starters
  BY <1>2 DEF RecJobs
<1>5. controls' \in ControlViews /\ border' \in BorderViews
  <2>1. CASE e.kind = "update" /\ controls # Recording!NoView
    <3>1. controls \in [of : Starters, paused : BOOLEAN] /\ UNCHANGED border
      BY <1>3, <2>1 DEF RecTypes, ControlViews
    <3>2. controls' = [controls EXCEPT !.paused = e.paused]
      BY <1>3, <2>1
    <3> QED BY <1>4, <2>1, <3>1, <3>2 DEF RecTypes, ControlViews
  <2>2. CASE e.kind = "show"
    <3>1. border' = (IF e.of \in Regions THEN [of |-> e.of] ELSE Recording!NoView) /\ e.of \in Starters
      BY <1>3, <1>4, <2>2 DEF Recording!ShowUi
    <3>2. controls' = [of |-> e.of, paused |-> FALSE]
      BY <1>3, <2>2 DEF Recording!ShowUi, Recording!NewControls
    <3>3. border' \in BorderViews
      BY <3>1 DEF BorderViews
    <3> QED BY <3>1, <3>2, <3>3 DEF ControlViews
  <2>3. CASE e.kind # "show" /\ ~(e.kind = "update" /\ controls # Recording!NoView)
    <3>1. (UNCHANGED controls \/ controls' = Recording!NoView) /\ (UNCHANGED border \/ border' = Recording!NoView)
      BY <1>3, <2>3
    <3> QED BY <3>1 DEF RecTypes, ControlViews, BorderViews
  <2> QED BY <2>1, <2>2, <2>3
<1>6. /\ \A x : WillBeOpenFor(x) => WillBeOpenFor(x)'
      /\ \A p : WillSay(p) => WillSay(p)'
  <2>1. \/ e.kind = "show" /\ controls' = Recording!NewControls(e.of)
        \/ e.kind = "close" /\ controls' = Recording!NoView
        \/ /\ e.kind = "update"
           /\ controls' = IF controls = Recording!NoView THEN controls ELSE [controls EXCEPT !.paused = e.paused]
        \/ e.kind = "countdown" /\ UNCHANGED controls
    BY <1>3 DEF Recording!ShowUi
  <2> QED BY <1>1, <1>5, <2>1, JobTaken DEF e
<1>7. border'.of = IF controls'.of \in Regions THEN controls'.of ELSE NoOne
  <2>1. CASE e.kind = "show"
    BY <1>3, <2>1 DEF Recording!ShowUi, Recording!NewControls, Recording!NoView
  <2>2. CASE e.kind # "show"
    BY <1>3, <2>2 DEF WindowsFit, Recording!NoView, Recording!RecordingAssumption, RecTypes, ControlViews
  <2> QED BY <2>1, <2>2
<1>8. WindowsFit'
  <2>1. UNCHANGED <<session, paused, starting, raced>> /\ \A t \in Starters : Closer(t) => Closer(t)'
    BY <1>1 DEF Recording!starterVars, Recording!sessionVars, Closer
  <2> QED BY <1>6, <1>7, <2>1, Zenon DEF WindowsFit
<1>9. SessionFits'
  BY <1>1 DEF SessionFits, Recording!starterVars, Recording!sessionVars
<1>10. CASE e.kind # "countdown"
  <2>1. UNCHANGED <<countdown, answered>>
    BY <1>3, <1>10
  <2>2. RecTypes'
    BY <1>1, <1>2, <1>5, <2>1 DEF RecTypes, Recording!starterVars, Recording!sessionVars
  <2>3. \A k \in DOMAIN ui_queue' :
          AsksCount(ui_queue'[k]) => LET s == ui_queue'[k].of IN
            s \in Regions /\ starting'[s] # "new" /\ answered'[s] = "no" /\ countdown'.of # s
    BY <1>1, <1>2, <2>1 DEF CountdownFits, Recording!starterVars
  <2>4. ASSUME NEW j \in DOMAIN ui_queue', NEW k \in DOMAIN ui_queue',
               AsksCount(ui_queue'[j]) /\ AsksCount(ui_queue'[k]) /\ ui_queue'[j].of = ui_queue'[k].of
        PROVE  j = k
    <3>1. j + 1 = k + 1
      BY <1>2, <2>4 DEF CountdownFits
    <3> QED BY <1>2, <3>1
  <2>5. /\ countdown' # Recording!NoView =>
             countdown'.of \in Regions /\ starting'[countdown'.of] # "new" /\ answered'[countdown'.of] = "no"
        /\ \A s \in Regions : /\ starting'[s] = "new" => answered'[s] = "no"
                              /\ (starting'[s] \in {"check", "show"} \/ session' = s) /\ ~stuck'
                                   => answered'[s] # "no"
    BY <1>1, <2>1 DEF CountdownFits, Recording!starterVars, Recording!sessionVars
  <2>6. CountdownFits'
    BY <2>3, <2>4, <2>5, Zenon DEF CountdownFits
  <2> QED BY <1>8, <1>9, <2>2, <2>6
<1>11. CASE e.kind = "countdown"
  <2> DEFINE s == e.of
  <2>1. Recording!CountdownUi(s) /\ UNCHANGED <<border, controls>> /\ s \in Starters
    BY <1>3, <1>4, <1>11
  <2>2. s \in Regions /\ starting[s] # "new" /\ answered[s] = "no" /\ countdown.of # s
    BY <1>2, <1>11 DEF CountdownFits, AsksCount
  <2>3. \A k \in DOMAIN ui_queue' : AsksCount(ui_queue'[k]) => ui_queue'[k].of # s
    <3>1. ASSUME NEW k \in DOMAIN ui_queue', AsksCount(ui_queue'[k]), ui_queue'[k].of = s PROVE FALSE
      <4>1. k + 1 = 1
        BY <1>2, <1>11, <3>1 DEF CountdownFits, AsksCount
      <4> QED BY <1>2, <4>1
    <3> QED BY <3>1
  <2>4. /\ countdown' \in CountViews /\ answered' \in [Starters -> {"no", "done", "dropped"}]
        /\ \A t \in Starters \ {s} : answered'[t] = answered[t]
        /\ \/ UNCHANGED answered /\ countdown'.of = s
           \/ UNCHANGED countdown /\ answered'[s] = "dropped"
    <3>1. CASE countdown = Recording!NoView
      <4>1. countdown' = [of |-> s, ticking |-> FALSE] /\ UNCHANGED answered
        BY <2>1, <3>1 DEF Recording!CountdownUi
      <4> QED BY <2>1, <4>1 DEF CountViews, RecTypes
    <3>2. CASE countdown # Recording!NoView
      <4>1. answered' = [answered EXCEPT ![s] = "dropped"] /\ UNCHANGED countdown
        BY <2>1, <3>2 DEF Recording!CountdownUi
      <4> QED BY <2>1, <4>1 DEF RecTypes
    <3> QED BY <3>1, <3>2
  <2> HIDE DEF s
  <2>5. RecTypes'
    BY <1>1, <1>2, <1>5, <2>4 DEF RecTypes, Recording!starterVars, Recording!sessionVars
  <2>6. \A k \in DOMAIN ui_queue' :
          AsksCount(ui_queue'[k]) => LET t == ui_queue'[k].of IN
            t \in Regions /\ starting'[t] # "new" /\ answered'[t] = "no" /\ countdown'.of # t
    <3>1. ASSUME NEW k \in DOMAIN ui_queue', AsksCount(ui_queue'[k])
          PROVE  LET t == ui_queue'[k].of IN
                 t \in Regions /\ starting'[t] # "new" /\ answered'[t] = "no" /\ countdown'.of # t
      <4>1. LET t == ui_queue[k + 1].of IN
            ui_queue'[k].of = t /\ t \in Regions /\ starting[t] # "new" /\ answered[t] = "no" /\ countdown.of # t
        BY <1>2, <3>1 DEF CountdownFits
      <4> QED BY <1>1, <2>3, <2>4, <3>1, <4>1 DEF Recording!starterVars, Recording!RecordingAssumption
    <3> QED BY <3>1
  <2>7. ASSUME NEW j \in DOMAIN ui_queue', NEW k \in DOMAIN ui_queue',
               AsksCount(ui_queue'[j]) /\ AsksCount(ui_queue'[k]) /\ ui_queue'[j].of = ui_queue'[k].of
        PROVE  j = k
    <3>1. j + 1 = k + 1
      BY <1>2, <2>7 DEF CountdownFits
    <3> QED BY <1>2, <3>1
  <2>8. countdown' # Recording!NoView =>
          countdown'.of \in Regions /\ starting'[countdown'.of] # "new" /\ answered'[countdown'.of] = "no"
    BY <1>1, <2>2, <2>4 DEF CountdownFits, Recording!starterVars, Recording!RecordingAssumption
  <2>9. \A t \in Regions : /\ starting'[t] = "new" => answered'[t] = "no"
                           /\ (starting'[t] \in {"check", "show"} \/ session' = t) /\ ~stuck' => answered'[t] # "no"
    BY <1>1, <2>2, <2>4 DEF CountdownFits, Recording!starterVars, Recording!sessionVars, Recording!RecordingAssumption
  <2>10. CountdownFits'
    BY <2>6, <2>7, <2>8, <2>9, Zenon DEF CountdownFits
  <2> QED BY <1>8, <1>9, <2>5, <2>10
<1> QED BY <1>10, <1>11

LEMMA NativeHolds == ASSUME Recording!RecordingAssumption, RecInv, Recording!Native PROVE RecInv'
<1> USE DEF RecInv
<1>1. /\ UNCHANGED <<Recording!starterVars, answered, Recording!sessionVars, worker, seen, ui_queue, border,
                     controls, raced>>
      /\ countdown # Recording!NoView /\ ~stuck /\ stuck' \in BOOLEAN /\ countdown' \in CountViews
           /\ countdown'.of = countdown.of
  BY DEF Recording!Native, RecTypes, CountViews
<1>2. RecTypes'
  BY <1>1 DEF RecTypes, Recording!starterVars, Recording!sessionVars
<1>3. SessionFits'
  BY <1>1 DEF SessionFits, Recording!starterVars, Recording!sessionVars
<1>4. WindowsFit'
  BY <1>1, WindowsStay DEF Recording!starterVars, Recording!sessionVars, Closer
<1>5. CountdownFits'
  BY <1>1, CountdownStays DEF Recording!starterVars, Recording!sessionVars
<1> QED BY <1>2, <1>3, <1>4, <1>5

LEMMA AdvanceHolds == ASSUME Recording!RecordingAssumption, RecInv, Recording!Advance PROVE RecInv'
<1> USE DEF RecInv
<1> DEFINE s == countdown.of
<1>1. /\ countdown # Recording!NoView /\ countdown' = Recording!NoView /\ answered' = [answered EXCEPT ![s] = "done"]
      /\ UNCHANGED <<Recording!starterVars, Recording!sessionVars, worker, seen, ui_queue, border, controls, raced,
                     stuck>>
  BY DEF Recording!Advance, Recording!DoneAfterHiding
<1>2. s \in Regions /\ starting[s] # "new" /\ s \in Starters
  BY <1>1 DEF CountdownFits, Recording!RecordingAssumption
<1>3. /\ answered' \in [Starters -> {"no", "done", "dropped"}] /\ answered'[s] = "done"
      /\ \A t \in Starters \ {s} : answered'[t] = answered[t]
  BY <1>1, <1>2 DEF RecTypes
<1>4. RecTypes'
  BY <1>1, <1>3 DEF RecTypes, Recording!starterVars, Recording!sessionVars, CountViews
<1>5. SessionFits'
  BY <1>1 DEF SessionFits, Recording!starterVars, Recording!sessionVars
<1>6. WindowsFit'
  BY <1>1, WindowsStay DEF Recording!starterVars, Recording!sessionVars, Closer
<1>7. CountdownFits'
  <2>1. \A k \in DOMAIN ui_queue :
          AsksCount(ui_queue[k]) => LET t == ui_queue[k].of IN
            t \in Regions /\ starting[t] # "new" /\ answered'[t] = "no" /\ countdown'.of # t
    BY <1>1, <1>3 DEF CountdownFits, Recording!RecordingAssumption, Recording!NoView
  <2>2. \A t \in Regions : /\ starting[t] = "new" => answered'[t] = "no"
                           /\ (starting[t] \in {"check", "show"} \/ session = t) /\ ~stuck => answered'[t] # "no"
    BY <1>2, <1>3 DEF CountdownFits, Recording!RecordingAssumption
  <2> QED BY <1>1, <2>1, <2>2 DEF CountdownFits, Recording!starterVars, Recording!sessionVars
<1> QED BY <1>4, <1>5, <1>6, <1>7

LEMMA RecStep == ASSUME Recording!RecordingAssumption, RecInv, Recording!Next PROVE RecInv'
<1>1. ASSUME NEW s \in Starters,
             \/ Recording!Start(s) \/ Recording!Counted(s) \/ Recording!Begin(s) \/ Recording!ShowRecWindows(s)
             \/ Recording!Release(s)
             \/ Recording!Finish(s) \/ Recording!LoseInput(s) \/ Recording!Look(s) \/ Recording!Act(s)
      PROVE  RecInv'
  BY <1>1, StartHolds, CountedHolds, BeginHolds, ShowHolds, ReleaseHolds, FinishHolds, LookingHolds, ActHolds, Zenon
<1> QED BY <1>1, StopHolds, PauseHolds, UiHolds, NativeHolds, AdvanceHolds, Zenon DEF Recording!Next

LEMMA RecStutter == ASSUME RecInv, UNCHANGED recordingVars PROVE RecInv'
  BY Zenon DEF recordingVars, RecInv, RecTypes, SessionFits, WindowsFit, WillBeOpenFor, WillSay, Closer, CountdownFits

LEMMA RecIsRight ==
  ASSUME Recording!RecordingAssumption, RecInv
  PROVE  Recording!TypeOK /\ Recording!WindowsFollowSession /\ Recording!CountdownComesFirst
<1> USE DEF RecInv
<1>1. /\ controls.of \in Starters \cup {NoOne} /\ border.of \in Starters \cup {NoOne}
      /\ countdown.of \in Starters \cup {NoOne}
  BY DEF RecTypes, ControlViews, BorderViews, CountViews, Recording!NoView
<1>2. Recording!TypeOK
  BY <1>1 DEF RecTypes, Recording!TypeOK, StartPlaces, WorkerPlaces
<1>3. Recording!CountdownComesFirst
  BY <1>1, ViewsApart DEF CountdownFits, Recording!CountdownComesFirst, RecTypes, Recording!RecordingAssumption
<1>4. ASSUME Recording!AtRest, ~raced
      PROVE  /\ controls.of = session
             /\ border.of = IF session \in Regions THEN session ELSE NoOne
             /\ session # NoOne => controls.paused = paused
  <2>1. DOMAIN ui_queue = {} /\ \A t \in Starters : ~Closer(t) /\ starting[t] # "show"
    BY <1>4, NothingWaits DEF Recording!AtRest, Closer
  <2>2. \A x : WillBeOpenFor(x) => controls.of = x
    BY <2>1 DEF WillBeOpenFor, EndsIn
  <2>3. \A p : WillSay(p) => (controls # Recording!NoView => controls.paused = p)
    BY <2>1 DEF WillSay, EndsIn
  <2>4. controls.of = session
    BY <1>4, <2>1, <2>2 DEF WindowsFit, RecTypes
  <2>5. session # NoOne => WillSay(paused)
    BY <1>4, <2>1 DEF WindowsFit, RecTypes
  <2>6. session # NoOne => controls # Recording!NoView
    BY <2>4 DEF Recording!NoView
  <2>7. border.of = IF session \in Regions THEN session ELSE NoOne
    BY <2>4 DEF WindowsFit
  <2> QED BY <2>3, <2>4, <2>5, <2>6, <2>7
<1> QED BY <1>2, <1>3, <1>4 DEF Recording!WindowsFollowSession

-----------------------------------------------------------------------------
(* The toast and the pins                                                    *)
SmallJobs ==
  [kind : {"show_toast"}, content : Toasts] \cup [kind : {"hover"}, id : Nat \ {0}, over : BOOLEAN]
  \cup [kind : {"dismiss"}] \cup [kind : {"open_file"}, on : Toasts \cup {NoToast}] \cup [kind : {"show_pin"}]
  \cup [kind : {"zoom"}, id : Nat, direction : {0, 1}] \cup [kind : {"reset", "close"}, id : Nat]
ToastStates == [visible : BOOLEAN, hovering : BOOLEAN, deadline : BOOLEAN, last : Toasts \cup {NoToast}]
ToastWindows == [id : Nat, says : Toasts \cup {NoToast}]
PinStates == [zoom : 0 .. 2 * MaxZoom, ready : BOOLEAN]
Screens == {"toast", "pin"} \X Nat

SmallTypes ==
  /\ toast \in ToastStates /\ window \in ToastWindows /\ windows \in Nat /\ timer \in BOOLEAN
  /\ window.id <= windows
  /\ sequence \in Nat /\ DOMAIN pins \subseteq 1 .. sequence /\ \A n \in DOMAIN pins : pins[n] \in PinStates
  /\ hidden \subseteq Screens /\ shown \subseteq Screens
  /\ pointer \in BOOLEAN /\ jobs \in Seq(SmallJobs) /\ failed \in BOOLEAN /\ crossed \in BOOLEAN

(* The toast's clock runs while it is seen and the pointer is elsewhere.     *)
ClockFits ==
  /\ timer = toast.deadline
  /\ toast.visible => toast.deadline = ~toast.hovering
  /\ ~toast.visible => ~toast.hovering /\ ~toast.deadline
  /\ toast.visible <=> window.id # 0

ShownFits ==
  \A w \in shown : /\ w[1] = "toast" => w[2] = window.id /\ w[2] # 0
                   /\ w[1] = "pin" => w[2] \in DOMAIN pins

(* What the toast is going to know of the pointer.  A window that was not    *)
(* there has said nothing.                                                   *)
HoversOf(id) == {j \in SmallJobs : j.kind = "hover" /\ j.id = id}
SaysHover(id, over) == {j \in HoversOf(id) : j.over = over}
Knows(hovering, over) == hovering => over
HoverFits ==
  /\ \A k \in DOMAIN jobs : jobs[k].kind = "hover" => jobs[k].id <= windows
  /\ IF <<"toast", window.id>> \in shown
     THEN EndsIn(jobs, HoversOf(window.id), SaysHover(window.id, pointer), Knows(toast.hovering, pointer))
     ELSE ~toast.hovering /\ NoneOf(jobs, HoversOf(window.id))

(* A click that was made on one toast comes before the next.                 *)
OpensFits ==
  /\ ~failed /\ window.id # 0 => window.says = toast.last
  /\ ~failed /\ ~crossed =>
       /\ opened[1] = opened[2]
       /\ \A k \in DOMAIN jobs : jobs[k].kind = "open_file" =>
            jobs[k].on = toast.last /\ \A j \in DOMAIN jobs : j < k => jobs[j].kind # "show_toast"

SmallInv == SmallTypes /\ ClockFits /\ ShownFits /\ HoverFits /\ OpensFits

LEMMA SmallStarts == ASSUME Small!SmallAssumption, Small!Init PROVE SmallInv
<1> USE DEF Small!SmallAssumption
<1>1. jobs \in Seq(SmallJobs) /\ DOMAIN jobs = {} /\ DOMAIN pins = {}
  BY NothingWaits DEF Small!Init
<1>2. SmallTypes
  <2>1. toast \in ToastStates /\ window \in ToastWindows /\ window.id <= windows
    BY DEF Small!Init, Small!Hidden, Small!NoWindow, ToastStates, ToastWindows
  <2> QED BY <1>1, <2>1 DEF Small!Init, SmallTypes
<1>3. ClockFits
  BY DEF Small!Init, ClockFits, Small!Hidden, Small!NoWindow
<1>4. ShownFits /\ HoverFits /\ OpensFits
  BY <1>1 DEF Small!Init, ShownFits, HoverFits, OpensFits, Small!Hidden, Small!NoWindow, NoneOf
<1> QED BY <1>2, <1>3, <1>4 DEF SmallInv

-----------------------------------------------------------------------------
(* A job is posted: nothing of the windows moves.                            *)
LEMMA PostedHolds ==
  ASSUME SmallInv, NEW e \in SmallJobs, jobs' = Append(jobs, e), UNCHANGED Small!ui, pointer' \in BOOLEAN,
         e.kind = "hover" => e.id = window.id /\ e.over = pointer',
         <<"toast", window.id>> \in shown => e.kind = "hover" \/ UNCHANGED pointer,
         e.kind = "hover" => <<"toast", window.id>> \in shown,
         e.kind = "open_file" => e.on = window.says /\ <<"toast", window.id>> \in shown
                                 /\ crossed' = (crossed \/ Small!Waiting("show_toast")),
         e.kind # "open_file" => UNCHANGED crossed
  PROVE  SmallInv'
<1> USE DEF SmallInv
<1>1. UNCHANGED <<toast, window, windows, timer, failed, pins, sequence, hidden, shown, opened>>
  BY DEF Small!ui, Small!toastVars, Small!pinVars
<1>2. jobs \in Seq(SmallJobs)
  BY DEF SmallTypes
<1>3. /\ jobs' \in Seq(SmallJobs)
      /\ \A k \in DOMAIN jobs' : \/ k \in DOMAIN jobs /\ jobs'[k] = jobs[k] /\ k < Len(jobs) + 1
                                 \/ k = Len(jobs) + 1 /\ jobs'[k] = e
      /\ \A k \in DOMAIN jobs : k < Len(jobs) + 1 /\ k \in Int
      /\ Len(jobs) + 1 \in Int
  BY <1>2, Appended
<1>4. crossed' \in BOOLEAN /\ (~crossed' => ~crossed)
  BY DEF SmallTypes
<1>5. SmallTypes'
  BY <1>1, <1>3, <1>4 DEF SmallTypes
<1>6. ClockFits' /\ ShownFits'
  BY <1>1 DEF ClockFits, ShownFits
<1>7. HoverFits'
  <2>1. \A k \in DOMAIN jobs' : jobs'[k].kind = "hover" => jobs'[k].id <= windows'
    BY <1>1, <1>3 DEF HoverFits, SmallTypes
  <2>2. CASE <<"toast", window.id>> \notin shown
    <3>1. e \notin HoversOf(window.id)
      BY <2>2 DEF HoversOf
    <3>2. NoneOf(jobs', HoversOf(window.id))
      BY <1>3, <2>2, <3>1 DEF HoverFits, NoneOf
    <3> QED BY <1>1, <2>1, <2>2, <3>2, Zenon DEF HoverFits
  <2>3. CASE <<"toast", window.id>> \in shown
    <3> DEFINE S == HoversOf(window.id)
               G == SaysHover(window.id, pointer')
               well == Knows(toast.hovering, pointer')
    <3>1. e \in G \/ (e \notin S /\ UNCHANGED pointer)
      BY <2>3 DEF HoversOf, SaysHover
    <3>2. UNCHANGED pointer => EndsIn(jobs, S, G, well)
      BY <2>3 DEF HoverFits
    <3> HIDE DEF S, G, well
    <3>3. EndsIn(jobs', S, G, well)
      BY <1>2, <3>1, <3>2, GoodEnd, OtherEnd, Zenon
    <3> QED BY <1>1, <2>1, <2>3, <3>3, Zenon DEF HoverFits, S, G, well
  <2> QED BY <2>2, <2>3
<1>8. OpensFits'
  <2>1. ~failed /\ window.id # 0 => window.says = toast.last
    BY DEF OpensFits
  <2>2. ASSUME ~failed, ~crossed', NEW k \in DOMAIN jobs', jobs'[k].kind = "open_file"
        PROVE  jobs'[k].on = toast.last /\ \A j \in DOMAIN jobs' : j < k => jobs'[j].kind # "show_toast"
    <3>1. CASE k \in DOMAIN jobs /\ jobs'[k] = jobs[k] /\ k < Len(jobs) + 1
      BY <1>3, <1>4, <2>2, <3>1 DEF OpensFits
    <3>2. CASE k = Len(jobs) + 1 /\ jobs'[k] = e
      <4>1. e.on = toast.last
        BY <2>1, <2>2, <3>2 DEF ShownFits
      <4>2. \A j \in DOMAIN jobs : jobs[j].kind # "show_toast"
        BY <2>2, <3>2 DEF Small!Waiting
      <4> QED BY <1>3, <3>2, <4>1, <4>2
    <3> QED BY <1>3, <3>1, <3>2
  <2> QED BY <1>1, <1>4, <2>1, <2>2, Zenon DEF OpensFits
<1> QED BY <1>5, <1>6, <1>7, <1>8

LEMMA AskForHolds == ASSUME SmallInv, Small!AskForToast \/ Small!AskForPin PROVE SmallInv'
<1>1. UNCHANGED <<Small!ui, pointer, crossed>> /\ pointer \in BOOLEAN
  BY DEF Small!AskForToast, Small!AskForPin, SmallInv, SmallTypes
<1>2. PICK e \in SmallJobs : jobs' = Append(jobs, e) /\ e.kind \in {"show_toast", "show_pin"}
  <2>1. CASE Small!AskForToast
    <3>1. PICK content \in Toasts : jobs' = Append(jobs, [kind |-> "show_toast", content |-> content])
      BY <2>1 DEF Small!AskForToast, Small!Post
    <3>2. [kind |-> "show_toast", content |-> content] \in SmallJobs
      BY DEF SmallJobs
    <3> QED BY <3>1, <3>2
  <2>2. CASE Small!AskForPin
    <3>1. [kind |-> "show_pin"] \in SmallJobs
      BY DEF SmallJobs
    <3> QED BY <2>2, <3>1 DEF Small!AskForPin, Small!Post
  <2> QED BY <2>1, <2>2
<1> QED BY <1>1, <1>2, PostedHolds

LEMMA PointerHolds == ASSUME SmallInv, Small!PointerMoves PROVE SmallInv'
<1> USE DEF SmallInv
<1>1. UNCHANGED <<Small!ui, crossed>> /\ pointer' = ~pointer /\ pointer' \in BOOLEAN
  BY DEF Small!PointerMoves, Small!Input, SmallTypes
<1>2. CASE Small!ToastIsSeen
  <2> DEFINE e == [kind |-> "hover", id |-> window.id, over |-> ~pointer]
  <2>1. jobs' = Append(jobs, e) /\ <<"toast", window.id>> \in shown
    BY <1>2 DEF Small!PointerMoves, Small!Post, Small!ToastIsSeen
  <2>2. window.id \in Nat \ {0}
    BY <2>1 DEF SmallTypes, ToastWindows, ShownFits
  <2>3. e \in SmallJobs /\ e.kind = "hover" /\ e.id = window.id /\ e.over = pointer'
    BY <1>1, <2>2 DEF SmallJobs
  <2> HIDE DEF e
  <2> QED BY <1>1, <2>1, <2>3, PostedHolds
<1>3. CASE ~Small!ToastIsSeen
  <2>1. UNCHANGED <<toast, window, windows, timer, failed, pins, sequence, hidden, shown, opened, jobs, crossed>>
    BY <1>1, <1>3 DEF Small!PointerMoves, Small!ui, Small!toastVars, Small!pinVars
  <2>2. <<"toast", window.id>> \notin shown
    BY <1>3 DEF Small!ToastIsSeen
  <2>3. HoverFits'
    BY <2>1, <2>2, Zenon DEF HoverFits
  <2> QED BY <1>1, <2>1, <2>3 DEF SmallTypes, ClockFits, ShownFits, OpensFits
<1> QED BY <1>2, <1>3

LEMMA ClickHolds == ASSUME SmallInv, Small!ClickToast PROVE SmallInv'
<1> USE DEF SmallInv
<1>1. UNCHANGED <<Small!ui, pointer>> /\ pointer \in BOOLEAN /\ <<"toast", window.id>> \in shown
  BY DEF Small!ClickToast, Small!Input, SmallTypes, Small!ToastIsSeen
<1>2. CASE Small!Post([kind |-> "dismiss"]) /\ UNCHANGED crossed
  <2>1. [kind |-> "dismiss"] \in SmallJobs
    BY DEF SmallJobs
  <2> QED BY <1>1, <1>2, <2>1, PostedHolds DEF Small!Post
<1>3. CASE Small!Post([kind |-> "open_file", on |-> window.says])
             /\ crossed' = (crossed \/ Small!Waiting("show_toast"))
  <2> DEFINE e == [kind |-> "open_file", on |-> window.says]
  <2>1. e \in SmallJobs /\ e.kind = "open_file" /\ e.on = window.says
    BY DEF SmallJobs, SmallTypes, ToastWindows
  <2>2. jobs' = Append(jobs, e)
    BY <1>3 DEF Small!Post
  <2> HIDE DEF e
  <2> QED BY <1>1, <1>3, <2>1, <2>2, PostedHolds
<1> QED BY <1>2, <1>3 DEF Small!ClickToast

LEMMA UsePinHolds == ASSUME SmallInv, Small!UsePin PROVE SmallInv'
<1> USE DEF SmallInv
<1>1. UNCHANGED <<Small!ui, pointer, crossed>> /\ pointer \in BOOLEAN
  BY DEF Small!UsePin, Small!Input, SmallTypes
<1>2. PICK w \in shown : \/ \E d \in {0, 1} : Small!Post([kind |-> "zoom", id |-> w[2], direction |-> d])
                         \/ Small!Post([kind |-> "reset", id |-> w[2]])
                         \/ Small!Post([kind |-> "close", id |-> w[2]])
  BY DEF Small!UsePin
<1>3. w[2] \in Nat
  BY DEF SmallTypes, Screens
<1>4. PICK e \in SmallJobs : jobs' = Append(jobs, e) /\ e.kind \in {"zoom", "reset", "close"}
  <2>1. /\ \A d \in {0, 1} : [kind |-> "zoom", id |-> w[2], direction |-> d] \in SmallJobs
        /\ [kind |-> "reset", id |-> w[2]] \in SmallJobs /\ [kind |-> "close", id |-> w[2]] \in SmallJobs
    BY <1>3 DEF SmallJobs
  <2> QED BY <1>2, <2>1 DEF Small!Post
<1> QED BY <1>1, <1>4, PostedHolds

-----------------------------------------------------------------------------
(* What is left of the queue keeps its order.                                *)
JobsGoOn == jobs' = jobs \/ (jobs # <<>> /\ jobs' = Tail(jobs))

LEMMA Shifted ==
  ASSUME SmallTypes, JobsGoOn
  PROVE  /\ jobs' \in Seq(SmallJobs)
         /\ \E d \in {0, 1} : \A k \in DOMAIN jobs' : k \in Int /\ k + d \in DOMAIN jobs /\ jobs'[k] = jobs[k + d]
<1>1. jobs \in Seq(SmallJobs)
  BY DEF SmallTypes
<1>2. CASE jobs' = jobs
  <2>1. \A k \in DOMAIN jobs' : k \in Int /\ k + 0 \in DOMAIN jobs /\ jobs'[k] = jobs[k + 0]
    BY <1>1, <1>2
  <2> QED BY <1>1, <1>2, <2>1
<1>3. CASE jobs # <<>> /\ jobs' = Tail(jobs)
  BY <1>1, <1>3, HeadTaken
<1> QED BY <1>2, <1>3 DEF JobsGoOn

LEMMA HoversStay ==
  ASSUME SmallTypes, JobsGoOn,
         \A k \in DOMAIN jobs : jobs[k].kind = "hover" => jobs[k].id <= windows, windows' \in Nat, windows <= windows'
  PROVE  /\ \A k \in DOMAIN jobs' : jobs'[k].kind = "hover" => jobs'[k].id <= windows'
         /\ \A S : NoneOf(jobs, S) => NoneOf(jobs, S)'
<1>1. PICK d \in {0, 1} : \A k \in DOMAIN jobs' : k + d \in DOMAIN jobs /\ jobs'[k] = jobs[k + d]
  BY Shifted
<1>2. ASSUME NEW k \in DOMAIN jobs', jobs'[k].kind = "hover" PROVE jobs'[k].id <= windows'
  <2>1. jobs'[k] \in SmallJobs /\ jobs'[k].id <= windows
    BY <1>1, <1>2, Shifted
  <2>2. jobs'[k].id \in Nat
    BY <1>2, <2>1 DEF SmallJobs
  <2> QED BY <2>1, <2>2 DEF SmallTypes
<1> QED BY <1>1, <1>2 DEF NoneOf

(* Clicks that wait stay good while the toast says what it said, and when no *)
(* click follows.                                                            *)
LEMMA OpensStay ==
  ASSUME SmallTypes, OpensFits, JobsGoOn, crossed' = crossed, ~failed' => ~failed,
         ~failed' /\ window'.id # 0 => window'.says = toast'.last,
         ~failed' /\ ~crossed => opened'[1] = opened'[2],
         \/ toast'.last = toast.last
         \/ ~failed' => jobs # <<>> /\ jobs' = Tail(jobs) /\ Head(jobs).kind = "show_toast"
  PROVE  OpensFits'
<1>1. PICK d \in {0, 1} : \A k \in DOMAIN jobs' : k \in Int /\ k + d \in DOMAIN jobs /\ jobs'[k] = jobs[k + d]
  BY Shifted
<1>2. ASSUME ~failed', ~crossed, NEW k \in DOMAIN jobs', jobs'[k].kind = "open_file"
      PROVE  jobs'[k].on = toast'.last /\ \A j \in DOMAIN jobs' : j < k => jobs'[j].kind # "show_toast"
  <2>1. /\ jobs[k + d].kind = "open_file" /\ jobs[k + d].on = toast.last /\ k + d \in DOMAIN jobs
        /\ \A j \in DOMAIN jobs : j < k + d => jobs[j].kind # "show_toast"
    BY <1>1, <1>2 DEF OpensFits
  <2>2. CASE toast'.last = toast.last
    <3>1. ASSUME NEW j \in DOMAIN jobs', j < k PROVE jobs'[j].kind # "show_toast"
      <4>1. j + d \in DOMAIN jobs /\ jobs'[j] = jobs[j + d] /\ j + d < k + d
        BY <1>1, <3>1
      <4> QED BY <2>1, <4>1
    <3> QED BY <1>1, <2>1, <2>2, <3>1
  <2>3. CASE jobs # <<>> /\ jobs' = Tail(jobs) /\ Head(jobs).kind = "show_toast"
    <3>1. /\ jobs[1].kind = "show_toast" /\ 1 \in DOMAIN jobs /\ k + 1 \in DOMAIN jobs /\ jobs'[k] = jobs[k + 1]
          /\ 1 < k + 1
      <4>1. /\ Head(jobs) = jobs[1] /\ 1 \in DOMAIN jobs /\ \A m \in DOMAIN jobs : m \in Int /\ m >= 1
            /\ k + 1 \in DOMAIN jobs /\ jobs'[k] = jobs[k + 1] /\ k \in Int /\ k + 1 # 1
        BY <2>3, HeadTaken DEF SmallTypes
      <4>2. k + 1 >= 1 /\ k + 1 # 1
        BY <4>1
      <4> QED BY <2>3, <4>1, <4>2
    <3> QED BY <1>2, <3>1 DEF OpensFits
  <2> QED BY <1>2, <2>2, <2>3
<1> QED BY <1>2, Zenon DEF OpensFits

LEMMA HideHolds ==
  ASSUME SmallInv, Small!HideToast, JobsGoOn, UNCHANGED <<Small!pinVars, pointer, crossed>>,
         opened' = opened \/ (opened'[2] = toast.last /\ (~failed /\ ~crossed => opened'[1] = toast.last))
  PROVE  SmallInv'
<1> USE DEF SmallInv
<1>1. /\ toast' = Small!ToastHidden(toast) /\ window' = Small!NoWindow /\ timer' = FALSE
      /\ shown' = shown \ {<<"toast", window.id>>}
      /\ UNCHANGED <<windows, hidden, failed, pins, sequence, pointer, crossed>>
  BY DEF Small!HideToast, Small!pinVars
<1>2. /\ toast' \in ToastStates /\ toast'.last = toast.last
      /\ toast'.visible = FALSE /\ toast'.hovering = FALSE /\ toast'.deadline = FALSE
  BY <1>1 DEF Small!ToastHidden, SmallTypes, ToastStates
<1>3. window' \in ToastWindows /\ window'.id = 0
  BY <1>1 DEF Small!NoWindow, ToastWindows
<1>4. SmallTypes'
  <2>1. window'.id <= windows
    BY <1>3 DEF SmallTypes
  <2>2. timer' \in BOOLEAN
    BY <1>1
  <2> QED BY <1>1, <1>2, <1>3, <2>1, <2>2, Shifted DEF SmallTypes
<1>5. ClockFits'
  BY <1>1, <1>2, <1>3 DEF ClockFits
<1>6. \A w \in shown' : w \in Screens /\ w[1] = "pin" /\ w[2] \in DOMAIN pins
  <2>1. ASSUME NEW w \in shown' PROVE w \in Screens /\ w[1] = "pin" /\ w[2] \in DOMAIN pins
    <3>1. w \in Screens /\ w # <<"toast", window.id>> /\ w \in shown
      BY <1>1, <2>1 DEF SmallTypes
    <3>2. w[1] \in {"toast", "pin"} /\ w = <<w[1], w[2]>>
      BY <3>1 DEF Screens
    <3> QED BY <3>1, <3>2 DEF ShownFits
  <2> QED BY <2>1
<1>7. ShownFits'
  BY <1>1, <1>6 DEF ShownFits
<1>8. HoverFits'
  <2>1. /\ \A k \in DOMAIN jobs' : jobs'[k].kind = "hover" => jobs'[k].id <= windows'
        /\ \A S : NoneOf(jobs, S) => NoneOf(jobs, S)'
    BY <1>1, HoversStay DEF HoverFits, SmallTypes
  <2>2. HoversOf(0) = {}
    BY DEF HoversOf, SmallJobs
  <2>3. NoneOf(jobs', HoversOf(0))
    BY <2>2 DEF NoneOf
  <2>4. <<"toast", window'.id>> \notin shown'
    BY <1>6
  <2> QED BY <1>2, <1>3, <2>1, <2>3, <2>4 DEF HoverFits
<1>9. OpensFits'
  <2>1. ~failed' /\ ~crossed => opened'[1] = opened'[2]
    BY <1>1 DEF OpensFits
  <2> QED BY <1>1, <1>2, <1>3, <2>1, OpensStay
<1> QED BY <1>4, <1>5, <1>7, <1>8, <1>9

LEMMA ShowToastHolds ==
  ASSUME SmallInv, jobs # <<>>, jobs' = Tail(jobs), Head(jobs).kind = "show_toast",
         Small!ShowToast(Head(jobs).content), UNCHANGED <<Small!pinVars, pointer, crossed, opened>>
  PROVE  SmallInv'
<1> USE DEF SmallInv
<1> DEFINE content == Head(jobs).content
           id == IF window.id = 0 THEN windows + 1 ELSE window.id
<1>1. content \in Toasts /\ JobsGoOn /\ UNCHANGED <<pins, sequence, pointer, crossed, opened, shown>>
  BY HeadTaken DEF SmallTypes, SmallJobs, JobsGoOn, Small!pinVars, Small!ShowToast
<1>2. window.id \in Nat /\ windows \in Nat /\ window.id <= windows
  BY DEF SmallTypes, ToastWindows
<1>3. /\ id \in Nat \ {0} /\ windows' \in Nat /\ id <= windows' /\ windows <= windows'
      /\ window.id # 0 => id = window.id
      /\ window.id = 0 => id = windows + 1
  BY <1>2 DEF Small!ShowToast
<1>4. /\ content \in Unreadable => /\ failed' = TRUE /\ UNCHANGED <<toast, timer, hidden>>
                                   /\ window' \in {window, [window EXCEPT !.says = content]}
      /\ content \notin Unreadable =>
           /\ window' = [id |-> id, says |-> content] /\ toast' = Small!ToastShown(toast, content)
           /\ timer' = toast'.deadline /\ hidden' = hidden \cup {<<"toast", id>>} /\ UNCHANGED failed
  BY DEF Small!ShowToast
<1> HIDE DEF content, id
<1>5. /\ \A k \in DOMAIN jobs' : jobs'[k].kind = "hover" => jobs'[k].id <= windows'
      /\ \A S : NoneOf(jobs, S) => NoneOf(jobs, S)'
  BY <1>1, <1>3, HoversStay DEF HoverFits
<1>6. ASSUME NEW S, NEW G, NEW well, EndsIn(jobs, S, G, well), G \subseteq S,
             S \subseteq {j \in SmallJobs : j.kind = "hover"}
      PROVE  EndsIn(jobs', S, G, well)
  <2>1. Head(jobs) \notin G
    BY <1>6
  <2>2. jobs \in Seq(SmallJobs)
    BY DEF SmallTypes
  <2> QED BY <1>6, <2>1, <2>2, HeadDone, Zenon
<1>7. CASE content \in Unreadable
  <2>1. /\ failed' = TRUE /\ UNCHANGED <<toast, timer, hidden>>
        /\ window' \in ToastWindows /\ window'.id = window.id
    BY <1>1, <1>4, <1>7 DEF SmallTypes, ToastWindows
  <2>2. SmallTypes'
    <3>1. window'.id <= windows'
      BY <1>2, <1>3, <2>1
    <3> QED BY <1>1, <1>3, <2>1, <3>1, Shifted DEF SmallTypes
  <2>3. ClockFits' /\ ShownFits'
    BY <1>1, <2>1 DEF ClockFits, ShownFits
  <2>4. HoverFits'
    <3>1. HoversOf(window.id) \subseteq {j \in SmallJobs : j.kind = "hover"}
          /\ SaysHover(window.id, pointer) \subseteq HoversOf(window.id)
      BY DEF HoversOf, SaysHover
    <3>2. CASE <<"toast", window.id>> \in shown
      <4>1. EndsIn(jobs', HoversOf(window.id), SaysHover(window.id, pointer), Knows(toast.hovering, pointer))
        BY <1>6, <3>1, <3>2, Zenon DEF HoverFits
      <4> QED BY <1>1, <1>5, <2>1, <3>2, <4>1, Zenon DEF HoverFits
    <3>3. CASE <<"toast", window.id>> \notin shown
      BY <1>1, <1>5, <2>1, <3>3, Zenon DEF HoverFits
    <3> QED BY <3>2, <3>3
  <2>5. OpensFits'
    BY <2>1 DEF OpensFits
  <2> QED BY <2>2, <2>3, <2>4, <2>5
<1>8. CASE content \notin Unreadable
  <2>1. /\ window' = [id |-> id, says |-> content] /\ toast' = Small!ToastShown(toast, content)
        /\ timer' = toast'.deadline /\ hidden' = hidden \cup {<<"toast", id>>} /\ UNCHANGED failed
    BY <1>4, <1>8
  <2>2. /\ toast' \in ToastStates /\ toast'.visible /\ toast'.hovering = toast.hovering
        /\ toast'.deadline = ~toast.hovering /\ toast'.last = content
    BY <1>1, <2>1 DEF Small!ToastShown, SmallTypes, ToastStates
  <2>3. window' \in ToastWindows /\ window'.id = id /\ window'.says = content
    BY <1>1, <1>3, <2>1 DEF ToastWindows
  <2>4. hidden' \subseteq Screens
    BY <1>3, <2>1 DEF SmallTypes, Screens
  <2>5. SmallTypes'
    <3>1. timer' \in BOOLEAN
      BY <2>1, <2>2 DEF ToastStates
    <3> QED BY <1>1, <1>3, <2>1, <2>2, <2>3, <2>4, <3>1, Shifted DEF SmallTypes
  <2>6. ClockFits'
    BY <1>3, <2>1, <2>2, <2>3 DEF ClockFits
  <2>7. ShownFits'
    BY <1>1, <1>3, <2>3 DEF ShownFits
  <2>8. HoverFits'
    <3>1. CASE window.id = 0
      <4>1. <<"toast", id>> \notin shown
        <5>1. id # 0
          BY <1>3
        <5> QED BY <3>1, <5>1 DEF ShownFits
      <4>2. <<"toast", 0>> \notin shown
        BY <3>1 DEF ShownFits
      <4>3. NoneOf(jobs, HoversOf(id))
        <5>1. ASSUME NEW k \in DOMAIN jobs, jobs[k] \in HoversOf(id) PROVE FALSE
          <6>1. windows + 1 <= windows
            BY <1>3, <3>1, <5>1 DEF HoverFits, HoversOf
          <6> QED BY <1>2, <6>1
        <5> QED BY <5>1 DEF NoneOf
      <4>4. ~toast'.hovering
        BY <2>2, <3>1, <4>2 DEF HoverFits
      <4> QED BY <1>1, <1>5, <2>3, <4>1, <4>3, <4>4, Zenon DEF HoverFits
    <3>2. CASE window.id # 0
      <4>1. id = window.id
        BY <1>3, <3>2
      <4>2. HoversOf(id) \subseteq {j \in SmallJobs : j.kind = "hover"}
            /\ SaysHover(id, pointer) \subseteq HoversOf(id)
        BY DEF HoversOf, SaysHover
      <4>3. CASE <<"toast", id>> \in shown
        <5>1. EndsIn(jobs', HoversOf(id), SaysHover(id, pointer), Knows(toast.hovering, pointer))
          BY <1>6, <4>1, <4>2, <4>3, Zenon DEF HoverFits
        <5> QED BY <1>1, <1>5, <2>2, <2>3, <4>3, <5>1, Zenon DEF HoverFits
      <4>4. CASE <<"toast", id>> \notin shown
        BY <1>1, <1>5, <2>2, <2>3, <4>1, <4>4, Zenon DEF HoverFits
      <4> QED BY <4>3, <4>4
    <3> QED BY <3>1, <3>2
  <2>9. OpensFits'
    <3>1. ~failed' /\ ~crossed => opened'[1] = opened'[2]
      BY <1>1, <2>1 DEF OpensFits
    <3> QED BY <1>1, <2>1, <2>2, <2>3, <3>1, OpensStay
  <2> QED BY <2>5, <2>6, <2>7, <2>8, <2>9
<1> QED BY <1>7, <1>8

LEMMA HoverHolds ==
  ASSUME SmallInv, jobs # <<>>, jobs' = Tail(jobs), Head(jobs).kind = "hover",
         Small!HoverToast(Head(jobs).id, Head(jobs).over), UNCHANGED <<Small!pinVars, pointer, crossed, opened>>
  PROVE  SmallInv'
<1> USE DEF SmallInv
<1> DEFINE e == Head(jobs)
<1>1. /\ e \in SmallJobs /\ e.kind = "hover" /\ JobsGoOn /\ e = jobs[1] /\ 1 \in DOMAIN jobs
      /\ UNCHANGED <<window, windows, hidden, shown, failed, pins, sequence, pointer, crossed, opened>>
  BY HeadTaken DEF SmallTypes, JobsGoOn, Small!pinVars, Small!HoverToast
<1>2. \/ e.id = window.id /\ e.id # 0 /\ toast' = Small!Hovered(toast, e.over) /\ timer' = toast'.deadline
      \/ e.id # window.id /\ UNCHANGED <<toast, timer>>
      \/ e.id = 0
  BY DEF Small!HoverToast
<1>3. e.over \in BOOLEAN /\ e.id # 0
  BY <1>1 DEF SmallJobs
<1> HIDE DEF e
<1>4. /\ \A k \in DOMAIN jobs' : jobs'[k].kind = "hover" => jobs'[k].id <= windows'
      /\ \A S : NoneOf(jobs, S) => NoneOf(jobs, S)'
  BY <1>1, HoversStay DEF HoverFits, SmallTypes
<1>5. CASE e.id # window.id
  <2>1. UNCHANGED <<toast, timer>>
    BY <1>2, <1>3, <1>5
  <2>2. SmallTypes' /\ ClockFits' /\ ShownFits'
    BY <1>1, <2>1, Shifted DEF SmallTypes, ClockFits, ShownFits
  <2>3. e \notin HoversOf(window.id) /\ SaysHover(window.id, pointer) \subseteq HoversOf(window.id)
    BY <1>5 DEF HoversOf, SaysHover
  <2>4. CASE <<"toast", window.id>> \in shown
    <3>1. jobs \in Seq(SmallJobs)
      BY DEF SmallTypes
    <3> DEFINE well == Knows(toast.hovering, pointer)
               S == HoversOf(window.id)
               G == SaysHover(window.id, pointer)
    <3>2. EndsIn(jobs, S, G, well) /\ e \notin S /\ e \notin G
      BY <2>3, <2>4 DEF HoverFits
    <3> HIDE DEF well, S, G
    <3>3. EndsIn(jobs', S, G, well)
      BY <3>1, <3>2, HeadDone, Zenon DEF e
    <3>4. HoverFits'
      BY <1>1, <1>4, <2>1, <2>4, <3>3, Zenon DEF HoverFits, well, S, G
    <3>5. OpensFits'
      BY <1>1, <2>1, OpensStay DEF OpensFits
    <3> QED BY <2>2, <3>4, <3>5
  <2>5. CASE <<"toast", window.id>> \notin shown
    <3>1. HoverFits'
      BY <1>1, <1>4, <2>1, <2>5, Zenon DEF HoverFits
    <3>2. OpensFits'
      BY <1>1, <2>1, OpensStay DEF OpensFits
    <3> QED BY <2>2, <3>1, <3>2
  <2> QED BY <2>4, <2>5
<1>6. CASE e.id = window.id
  <2>1. toast' = Small!Hovered(toast, e.over) /\ timer' = toast'.deadline
    BY <1>2, <1>3, <1>6
  <2>2. toast.visible /\ toast \in ToastStates
    BY <1>3, <1>6 DEF ClockFits, SmallTypes
  <2>3. toast' = [toast EXCEPT !.hovering = e.over, !.deadline = ~e.over]
    BY <2>1, <2>2 DEF Small!Hovered
  <2>4. /\ toast' \in ToastStates /\ toast'.visible /\ toast'.hovering = e.over /\ toast'.deadline = ~e.over
        /\ toast'.last = toast.last
    BY <1>3, <2>2, <2>3 DEF ToastStates
  <2>5. timer' \in BOOLEAN
    BY <2>1, <2>4 DEF ToastStates
  <2>6. SmallTypes'
    BY <1>1, <2>4, <2>5, Shifted DEF SmallTypes
  <2>7. ClockFits'
    BY <1>1, <1>3, <1>6, <2>1, <2>4 DEF ClockFits
  <2>8. ShownFits'
    BY <1>1 DEF ShownFits
  <2>9. e \in HoversOf(window.id)
    BY <1>1, <1>6 DEF HoversOf
  <2>10. <<"toast", window.id>> \in shown
    BY <1>1, <2>9 DEF HoverFits, NoneOf
  <2>11. HoverFits'
    <3>1. jobs \in Seq(SmallJobs)
      BY DEF SmallTypes
    <3> DEFINE well == Knows(toast.hovering, pointer)
               after == Knows(toast'.hovering, pointer)
               S == HoversOf(window.id)
               G == SaysHover(window.id, pointer)
    <3>2. EndsIn(jobs, S, G, well) /\ (e \in G => after) /\ e \in S
      BY <2>4, <2>9, <2>10 DEF HoverFits, SaysHover, Knows
    <3> HIDE DEF well, S, G, after
    <3>3. EndsIn(jobs', S, G, after)
      BY <3>1, <3>2, HeadDone, Zenon DEF e
    <3> QED BY <1>1, <1>4, <2>10, <3>3, Zenon DEF HoverFits, after, S, G
  <2>12. OpensFits'
    BY <1>1, <2>4, OpensStay DEF OpensFits
  <2> QED BY <2>6, <2>7, <2>8, <2>11, <2>12
<1> QED BY <1>5, <1>6

(* What is done with pins leaves the toast alone.                            *)
LEMMA ToastStays ==
  ASSUME SmallInv, JobsGoOn, UNCHANGED <<Small!toastVars, pointer, crossed, opened>>,
         jobs' = jobs \/ Head(jobs).kind # "hover",
         \/ <<"toast", window.id>> \in shown' <=> <<"toast", window.id>> \in shown
         \/ <<"toast", window.id>> \in shown'
  PROVE  HoverFits' /\ OpensFits'
<1> USE DEF SmallInv
<1>1. UNCHANGED <<toast, window, windows, timer, failed, pointer, crossed, opened>>
  BY DEF Small!toastVars
<1>2. /\ \A k \in DOMAIN jobs' : jobs'[k].kind = "hover" => jobs'[k].id <= windows'
      /\ \A S : NoneOf(jobs, S) => NoneOf(jobs, S)'
  BY <1>1, HoversStay DEF HoverFits, SmallTypes
<1> DEFINE well == Knows(toast.hovering, pointer)
           S == HoversOf(window.id)
           G == SaysHover(window.id, pointer)
<1>3. <<"toast", window.id>> \in shown => EndsIn(jobs, S, G, well)
  BY DEF HoverFits
<1>4. <<"toast", window.id>> \notin shown => NoneOf(jobs, S) /\ well /\ ~toast.hovering
  BY DEF HoverFits, Knows
<1>5. jobs' # jobs => Head(jobs) \notin S /\ Head(jobs) \notin G
  BY DEF HoversOf, SaysHover
<1>6. jobs \in Seq(SmallJobs)
  BY DEF SmallTypes
<1> HIDE DEF well, S, G
<1>7. EndsIn(jobs, S, G, well) => EndsIn(jobs', S, G, well)
  BY <1>5, <1>6, HeadDone, Zenon DEF JobsGoOn
<1>8. CASE <<"toast", window.id>> \in shown'
  <2>1. EndsIn(jobs', S, G, well)
    BY <1>3, <1>4, <1>7, Zenon DEF EndsIn
  <2>2. HoverFits'
    BY <1>1, <1>2, <1>8, <2>1, Zenon DEF HoverFits, S, G, well
  <2> QED BY <1>1, <2>2, OpensStay DEF OpensFits
<1>9. CASE <<"toast", window.id>> \notin shown'
  <2>1. NoneOf(jobs', S) /\ ~toast.hovering
    BY <1>2, <1>4, <1>9
  <2>2. HoverFits'
    BY <1>1, <1>2, <1>9, <2>1, Zenon DEF HoverFits, S
  <2> QED BY <1>1, <2>2, OpensStay DEF OpensFits
<1> QED BY <1>8, <1>9

LEMMA ShowPinHolds ==
  ASSUME Small!SmallAssumption, SmallInv, jobs # <<>>, jobs' = Tail(jobs), Head(jobs).kind = "show_pin",
         Small!ShowPin, UNCHANGED <<Small!toastVars, pointer, crossed, opened>>
  PROVE  SmallInv'
<1> USE DEF SmallInv, Small!SmallAssumption
<1>1. JobsGoOn /\ UNCHANGED <<toast, window, windows, timer, failed, pointer, crossed, opened, shown>>
  BY DEF JobsGoOn, Small!toastVars, Small!ShowPin
<1>2. HoverFits' /\ OpensFits'
  BY <1>1, ToastStays
<1>3. sequence' \in Nat /\ sequence' = sequence + 1 /\ DOMAIN pins' = DOMAIN pins \cup {sequence + 1}
      /\ DOMAIN pins' \subseteq 1 .. sequence'
  BY DEF Small!ShowPin, SmallTypes
<1>4. [zoom |-> MaxZoom, ready |-> FALSE] \in PinStates
  BY DEF PinStates
<1>5. \A n \in DOMAIN pins' : pins'[n] \in PinStates
  <2>1. ASSUME NEW n \in DOMAIN pins' PROVE pins'[n] \in PinStates
    <3>1. pins'[n] = IF n = sequence + 1 THEN [zoom |-> MaxZoom, ready |-> FALSE] ELSE pins[n]
      BY <1>3 DEF Small!ShowPin
    <3> QED BY <1>3, <1>4, <3>1 DEF SmallTypes
  <2> QED BY <2>1
<1>6. hidden' \subseteq Screens
  BY DEF Small!ShowPin, SmallTypes, Screens
<1>7. SmallTypes'
  BY <1>1, <1>3, <1>5, <1>6, Shifted DEF SmallTypes
<1>8. ClockFits' /\ ShownFits'
  BY <1>1, <1>3 DEF ClockFits, ShownFits
<1> QED BY <1>2, <1>7, <1>8

LEMMA ClosePinHolds ==
  ASSUME SmallInv, jobs # <<>>, jobs' = Tail(jobs), NEW id, Head(jobs).kind = "close",
         Small!ClosePin(id), UNCHANGED <<Small!toastVars, pointer, crossed, opened>>
  PROVE  SmallInv'
<1> USE DEF SmallInv
<1>1. /\ JobsGoOn /\ UNCHANGED <<toast, window, windows, timer, failed, pointer, crossed, opened, sequence, hidden>>
      /\ shown' = shown \ {<<"pin", id>>} /\ pins' = [n \in DOMAIN pins \ {id} |-> pins[n]]
  BY DEF JobsGoOn, Small!toastVars, Small!ClosePin
<1>2. HoverFits' /\ OpensFits'
  BY <1>1, ToastStays
<1>3. SmallTypes'
  BY <1>1, Shifted DEF SmallTypes
<1>4. ClockFits'
  BY <1>1 DEF ClockFits
<1>5. ShownFits'
  <2>1. ASSUME NEW w \in shown', w[1] = "pin" PROVE w[2] \in DOMAIN pins'
    <3>1. w = <<w[1], w[2]>> /\ w \in shown /\ w # <<"pin", id>>
      BY <1>1, <2>1 DEF SmallTypes, Screens
    <3>2. w[2] # id
      BY <2>1, <3>1
    <3> QED BY <1>1, <2>1, <3>1, <3>2 DEF ShownFits
  <2> QED BY <1>1, <2>1 DEF ShownFits
<1> QED BY <1>2, <1>3, <1>4, <1>5

LEMMA ResizeHolds ==
  ASSUME SmallInv, jobs # <<>>, jobs' = Tail(jobs), Head(jobs).kind \in {"zoom", "reset"}, NEW id \in Nat,
         DOMAIN pins' = DOMAIN pins, \A n \in DOMAIN pins' : pins'[n] \in PinStates,
         shown' = IF Small!IsPin(id) THEN shown \cup {<<"pin", id>>} ELSE shown,
         UNCHANGED <<sequence, hidden, Small!toastVars, pointer, crossed, opened>>
  PROVE  SmallInv'
<1> USE DEF SmallInv
<1>1. JobsGoOn /\ UNCHANGED <<toast, window, windows, timer, failed, pointer, crossed, opened, sequence, hidden>>
  BY DEF JobsGoOn, Small!toastVars
<1>2. \A w \in shown' : w \in shown \/ (w = <<"pin", id>> /\ id \in DOMAIN pins /\ w \in Screens)
  BY DEF Small!IsPin, Screens
<1>3. shown \subseteq shown' /\ (<<"toast", window.id>> \in shown' => <<"toast", window.id>> \in shown)
  BY <1>2
<1>4. HoverFits' /\ OpensFits'
  BY <1>1, <1>3, ToastStays
<1>5. shown' \subseteq Screens
  BY <1>2 DEF SmallTypes
<1>6. SmallTypes'
  BY <1>1, <1>5, Shifted DEF SmallTypes
<1>7. ClockFits' /\ ShownFits'
  BY <1>1, <1>2 DEF ClockFits, ShownFits
<1> QED BY <1>4, <1>6, <1>7

LEMMA ZoomsFit ==
  ASSUME Small!SmallAssumption, NEW p \in PinStates, NEW d
  PROVE  Small!Zoomed(p, d) \in PinStates /\ Small!Unzoomed(p) \in PinStates
<1>1. p.zoom \in 0 .. 2 * MaxZoom /\ MaxZoom \in Nat
  BY DEF PinStates, Small!SmallAssumption
<1>2. ASSUME NEW z \in 0 .. 2 * MaxZoom PROVE [p EXCEPT !.zoom = z] \in PinStates
  BY <1>2 DEF PinStates
<1>3. MaxZoom \in 0 .. 2 * MaxZoom
  BY <1>1
<1>4. (p.zoom < 2 * MaxZoom => p.zoom + 1 \in 0 .. 2 * MaxZoom) /\ (p.zoom > 0 => p.zoom - 1 \in 0 .. 2 * MaxZoom)
  BY <1>1
<1> QED BY <1>1, <1>2, <1>3, <1>4 DEF Small!Zoomed, Small!Unzoomed

LEMMA SmallUiHolds == ASSUME Small!SmallAssumption, SmallInv, Small!Ui PROVE SmallInv'
<1> DEFINE e == Head(jobs)
<1>1. /\ jobs # <<>> /\ jobs' = Tail(jobs) /\ UNCHANGED <<pointer, crossed>> /\ Small!Job(e)
  BY DEF Small!Ui, Small!userVars
<1>2. e \in SmallJobs /\ e = jobs[1] /\ 1 \in DOMAIN jobs /\ JobsGoOn
  BY <1>1, HeadTaken DEF SmallInv, SmallTypes, JobsGoOn
<1>3. ASSUME NEW n \in DOMAIN pins, NEW d
      PROVE  Small!Zoomed(pins[n], d) \in PinStates /\ Small!Unzoomed(pins[n]) \in PinStates
  BY ZoomsFit DEF SmallInv, SmallTypes
<1> HIDE DEF e
<1>4. CASE e.kind = "show_toast" /\ Small!ShowToast(e.content) /\ UNCHANGED <<Small!pinVars, opened>>
  BY <1>1, <1>4, ShowToastHolds DEF e
<1>5. CASE e.kind = "hover" /\ Small!HoverToast(e.id, e.over) /\ UNCHANGED <<Small!pinVars, opened>>
  BY <1>1, <1>5, HoverHolds DEF e
<1>6. CASE e.kind = "dismiss" /\ Small!HideToast /\ UNCHANGED <<Small!pinVars, opened>>
  BY <1>1, <1>2, <1>6, HideHolds
<1>7. CASE e.kind = "open_file" /\ Small!HideToast /\ opened' = <<e.on, toast.last>> /\ UNCHANGED Small!pinVars
  <2>1. ~failed /\ ~crossed => e.on = toast.last
    BY <1>2, <1>7 DEF SmallInv, OpensFits
  <2>2. opened'[2] = toast.last /\ (~failed /\ ~crossed => opened'[1] = toast.last)
    BY <1>7, <2>1
  <2> QED BY <1>1, <1>2, <1>7, <2>2, HideHolds
<1>8. CASE e.kind = "show_pin" /\ Small!ShowPin /\ UNCHANGED <<Small!toastVars, opened>>
  BY <1>1, <1>8, ShowPinHolds DEF e
<1>9. CASE e.kind = "zoom" /\ Small!ResizePin(e.id, LAMBDA p : Small!Zoomed(p, e.direction))
             /\ UNCHANGED <<Small!toastVars, opened>>
  <2>1. /\ pins' = [n \in DOMAIN pins |-> IF n = e.id THEN Small!Zoomed(pins[n], e.direction) ELSE pins[n]]
        /\ shown' = (IF Small!IsPin(e.id) THEN shown \cup {<<"pin", e.id>>} ELSE shown)
        /\ UNCHANGED <<sequence, hidden>>
    BY <1>9 DEF Small!ResizePin
  <2>2. DOMAIN pins' = DOMAIN pins /\ \A n \in DOMAIN pins' : pins'[n] \in PinStates
    <3> DEFINE Z(n) == Small!Zoomed(pins[n], e.direction)
    <3>1. \A n \in DOMAIN pins : Z(n) \in PinStates
      BY <1>3
    <3> HIDE DEF Z
    <3>2. pins' = [n \in DOMAIN pins |-> IF n = e.id THEN Z(n) ELSE pins[n]]
      BY <2>1 DEF Z
    <3> QED BY <3>1, <3>2 DEF SmallInv, SmallTypes
  <2>3. e.id \in Nat
    BY <1>2, <1>9 DEF SmallJobs
  <2> QED BY <1>1, <1>9, <2>1, <2>2, <2>3, ResizeHolds DEF e
<1>10. CASE e.kind = "reset" /\ Small!ResizePin(e.id, Small!Unzoomed) /\ UNCHANGED <<Small!toastVars, opened>>
  <2>1. /\ pins' = [n \in DOMAIN pins |-> IF n = e.id THEN Small!Unzoomed(pins[n]) ELSE pins[n]]
        /\ shown' = (IF Small!IsPin(e.id) THEN shown \cup {<<"pin", e.id>>} ELSE shown)
        /\ UNCHANGED <<sequence, hidden>>
    BY <1>10 DEF Small!ResizePin
  <2>2. DOMAIN pins' = DOMAIN pins /\ \A n \in DOMAIN pins' : pins'[n] \in PinStates
    <3> DEFINE Z(n) == Small!Unzoomed(pins[n])
    <3>1. \A n \in DOMAIN pins : Z(n) \in PinStates
      BY <1>3
    <3> HIDE DEF Z
    <3>2. pins' = [n \in DOMAIN pins |-> IF n = e.id THEN Z(n) ELSE pins[n]]
      BY <2>1 DEF Z
    <3> QED BY <3>1, <3>2 DEF SmallInv, SmallTypes
  <2>3. e.id \in Nat
    BY <1>2, <1>10 DEF SmallJobs
  <2> QED BY <1>1, <1>10, <2>1, <2>2, <2>3, ResizeHolds DEF e
<1>11. CASE e.kind = "close" /\ Small!ClosePin(e.id) /\ UNCHANGED <<Small!toastVars, opened>>
  BY <1>1, <1>11, ClosePinHolds DEF e
<1> QED BY <1>1, <1>4, <1>5, <1>6, <1>7, <1>8, <1>9, <1>10, <1>11, Zenon DEF Small!Job

LEMMA SmallNativeHolds == ASSUME SmallInv, Small!Native PROVE SmallInv'
<1> USE DEF SmallInv
<1>1. PICK w \in hidden :
        /\ hidden' = hidden \ {w}
        /\ shown' = IF Small!StillThere(w) THEN shown \cup {w} ELSE shown
        /\ pins' = [n \in DOMAIN pins |-> IF w = <<"pin", n>> THEN [pins[n] EXCEPT !.ready = TRUE] ELSE pins[n]]
  BY DEF Small!Native
<1>2. /\ UNCHANGED <<toast, window, windows, timer, failed, sequence, pointer, crossed, jobs, opened,
                     Small!toastVars>>
      /\ JobsGoOn
  BY DEF Small!Native, Small!toastVars, Small!userVars, JobsGoOn
<1>3. w \in Screens
  BY DEF SmallTypes
<1>4. DOMAIN pins' = DOMAIN pins /\ \A n \in DOMAIN pins' : pins'[n] \in PinStates
  <2> DEFINE Z(n) == [pins[n] EXCEPT !.ready = TRUE]
  <2>1. \A n \in DOMAIN pins : Z(n) \in PinStates /\ pins[n] \in PinStates
    BY DEF SmallTypes, PinStates
  <2> HIDE DEF Z
  <2>2. pins' = [n \in DOMAIN pins |-> IF w = <<"pin", n>> THEN Z(n) ELSE pins[n]]
    BY <1>1 DEF Z
  <2> QED BY <2>1, <2>2
<1>5. shown' \subseteq Screens /\ shown \subseteq shown' /\ hidden' \subseteq Screens
  BY <1>1, <1>3 DEF SmallTypes
<1>6. HoverFits' /\ OpensFits'
  BY <1>2, <1>5, ToastStays
<1>7. SmallTypes'
  BY <1>2, <1>4, <1>5 DEF SmallTypes
<1>8. ClockFits'
  BY <1>2 DEF ClockFits
<1>9. ShownFits'
  <2>1. Small!StillThere(w) => /\ w[1] = "toast" => w[2] = window.id /\ w[2] # 0
                               /\ w[1] = "pin" => w[2] \in DOMAIN pins
    BY DEF Small!StillThere, Small!IsPin, ClockFits
  <2> QED BY <1>1, <1>2, <1>4, <2>1 DEF ShownFits
<1> QED BY <1>6, <1>7, <1>8, <1>9

LEMMA TimerHolds == ASSUME SmallInv, Small!TimerFires PROVE SmallInv'
  BY HideHolds DEF Small!TimerFires, Small!userVars, JobsGoOn

LEMMA SmallStep == ASSUME Small!SmallAssumption, SmallInv, Small!Next PROVE SmallInv'
  BY SmallUiHolds, SmallNativeHolds, TimerHolds, AskForHolds, PointerHolds, ClickHolds, UsePinHolds,
     Zenon DEF Small!Next

LEMMA SmallStutter == ASSUME SmallInv, UNCHANGED smallVars PROVE SmallInv'
<1>1. UNCHANGED <<toast, window, windows, timer, pins, sequence, hidden, shown, pointer, jobs, opened, failed,
                  crossed>>
  BY DEF smallVars
<1>2. SmallTypes' /\ ClockFits' /\ ShownFits'
  BY <1>1 DEF SmallInv, SmallTypes, ClockFits, ShownFits
<1>3. HoverFits'
  BY <1>1, Zenon DEF SmallInv, HoverFits
<1>4. OpensFits'
  BY <1>1 DEF SmallInv, OpensFits
<1> QED BY <1>2, <1>3, <1>4 DEF SmallInv

LEMMA SmallIsRight ==
  ASSUME SmallInv PROVE Small!TypeOK /\ Small!ToastGoesAway /\ Small!ClickOpensWhatItSays /\ Small!ClosedStaysClosed
<1> USE DEF SmallInv
<1>1. Small!TypeOK
  <2>1. window \in [id : 0 .. windows, says : Toasts \cup {NoToast}]
    BY DEF SmallTypes, ToastWindows
  <2> QED BY <2>1 DEF Small!TypeOK, SmallTypes, ToastStates, PinStates
<1>2. Small!ToastGoesAway
  <2>1. ASSUME toast.visible, ~pointer, jobs = <<>> PROVE ~toast.hovering
    BY <2>1, NothingWaits DEF HoverFits, EndsIn, Knows
  <2>2. toast.visible /\ ~toast.hovering => toast.deadline /\ timer
    BY DEF ClockFits
  <2> QED BY <2>1, <2>2 DEF Small!ToastGoesAway
<1>3. Small!ClickOpensWhatItSays
  BY DEF OpensFits, Small!ClickOpensWhatItSays
<1>4. Small!ClosedStaysClosed
  <2>1. ASSUME NEW w \in shown
        PROVE  (w = <<"toast", window.id>> /\ toast.visible) \/ (w[1] = "pin" /\ Small!IsPin(w[2]))
    <3>1. w[1] \in {"toast", "pin"} /\ w = <<w[1], w[2]>>
      BY DEF SmallTypes, Screens
    <3> QED BY <3>1 DEF ShownFits, ClockFits, Small!IsPin
  <2> QED BY <2>1 DEF Small!ClosedStaysClosed
<1> QED BY <1>1, <1>2, <1>3, <1>4

-----------------------------------------------------------------------------
(* The clipboard                                                             *)
ClipPlaces == {"prepare", "open", "empty", "hand", "read", "decode", "done"}
Entries == [format : {"png", "dib", "text"}, by : Users \cup {Clip!Other}]
(* What a writing has still to hand over, at each of its steps.              *)
Remains ==
  {<<"png", "dib">>, <<"png", "dib", "text">>, <<"dib">>, <<"dib", "text">>, <<"text">>, <<>>}
FromDib == {<<"dib">>, <<"dib", "text">>}

ClipTypes ==
  /\ lock \in Users \cup {Clip!Other, Clip!Nobody}
  /\ contents \in Seq(Entries)
  /\ place \in [Users -> ClipPlaces] /\ job \in [Users -> Clip!Jobs]
  /\ waited \in [Users -> 0 .. Budget] /\ wait \in [Users -> 1 .. Longest]
  /\ items \in [Users -> Remains] /\ blocks \in [Users -> Nat]
  /\ outcome \in [Users -> {"none", "ok", "error"}]

(* The clipboard is open for whom it is to be emptied, filled or read by.    *)
LockFits == \A c \in Users : place[c] \in {"empty", "hand", "read"} <=> lock = c

(* A block of memory for each format that is not handed over yet.            *)
BlocksFit ==
  \A c \in Users : blocks[c] = IF place[c] \in {"prepare", "done"} THEN 0 ELSE Len(items[c])

(* Who fills the clipboard has emptied it; a DIB of ours comes after a PNG.  *)
PngIsThere == \E i \in DOMAIN contents : contents[i].format = "png"
ContentsFit ==
  /\ \A i, j \in DOMAIN contents : contents[i].by = contents[j].by
  /\ \A c \in Users : place[c] = "hand" => \A i \in DOMAIN contents : contents[i].by = c
  /\ (\E i \in DOMAIN contents : contents[i].format = "dib" /\ contents[i].by # Clip!Other) => PngIsThere
  /\ \A c \in Users : items[c] \in FromDib => place[c] \in {"hand", "done"}
  /\ \A c \in Users : place[c] = "hand" /\ items[c] \in FromDib => PngIsThere
GotFits == \A c \in Users : got[c] # <<>> /\ got[c][1].by # Clip!Other => got[c][1].format = "png"

ClipInv == ClipTypes /\ LockFits /\ BlocksFit /\ ContentsFit /\ GotFits

LEMMA ClipStarts == ASSUME Clip!ClipboardAssumption, Clip!Init PROVE ClipInv
<1> USE DEF Clip!ClipboardAssumption
<1>1. contents \in Seq(Entries) /\ \A i \in DOMAIN contents : contents[i].by = Clip!Other
  <2>1. /\ [format |-> "dib", by |-> Clip!Other] \in Entries
        /\ [format |-> "png", by |-> Clip!Other] \in Entries
    BY DEF Entries
  <2> DEFINE d == [format |-> "dib", by |-> Clip!Other]
             p == [format |-> "png", by |-> Clip!Other]
  <2>2. contents \in {<<>>, <<d>>, <<p, d>>} /\ d.by = Clip!Other /\ p.by = Clip!Other /\ d \in Entries
          /\ p \in Entries
    BY <2>1 DEF Clip!Init
  <2> HIDE DEF d, p
  <2>3. CASE contents = <<>>
    BY <2>3, NothingWaits
  <2>4. CASE contents = <<d>>
    BY <2>2, <2>4
  <2>5. CASE contents = <<p, d>>
    BY <2>2, <2>5
  <2> QED BY <2>2, <2>3, <2>4, <2>5
<1>2. ClipTypes
  <2>1. /\ waited \in [Users -> 0 .. Budget] /\ wait \in [Users -> 1 .. Longest]
        /\ items \in [Users -> Remains]
    BY DEF Clip!Init, Remains
  <2>2. lock \in Users \cup {Clip!Other, Clip!Nobody} /\ place \in [Users -> ClipPlaces]
    BY DEF Clip!Init, ClipPlaces
  <2> QED BY <1>1, <2>1, <2>2 DEF Clip!Init, ClipTypes
<1>3. LockFits /\ BlocksFit
  BY DEF Clip!Init, LockFits, BlocksFit
<1>4. ContentsFit
  <2>1. \A c \in Users : items[c] \notin FromDib /\ place[c] = "prepare"
    BY DEF Clip!Init, FromDib
  <2> QED BY <1>1, <2>1 DEF ContentsFit
<1>5. GotFits
  BY DEF Clip!Init, GotFits
<1> QED BY <1>2, <1>3, <1>4, <1>5 DEF ClipInv

(* A caller moves on; nobody else does.                                      *)
LEMMA CallerMoves ==
  ASSUME ClipTypes, NEW c \in Users, NEW to \in ClipPlaces, place' = [place EXCEPT ![c] = to]
  PROVE  place' \in [Users -> ClipPlaces] /\ place'[c] = to /\ \A d \in Users \ {c} : place'[d] = place[d]
  BY DEF ClipTypes

LEMMA EndsIs ==
  ASSUME ClipTypes, NEW c \in Users, NEW how \in {"ok", "error"}, Clip!Ends(c, how)
  PROVE  /\ place' \in [Users -> ClipPlaces] /\ place'[c] = "done" /\ \A d \in Users \ {c} : place'[d] = place[d]
         /\ outcome' \in [Users -> {"none", "ok", "error"}]
         /\ lock' \in Users \cup {Clip!Other, Clip!Nobody} /\ lock' = IF lock = c THEN Clip!Nobody ELSE lock
         /\ blocks' \in [Users -> Nat] /\ blocks'[c] = 0 /\ \A d \in Users \ {c} : blocks'[d] = blocks[d]
  BY DEF ClipTypes, Clip!Ends, Clip!FreesTheRest, ClipPlaces

(* However a call ends, all is well.                                         *)
LEMMA ClipEndHolds ==
  ASSUME Clip!ClipboardAssumption, ClipInv, NEW c \in Users, NEW how \in {"ok", "error"}, Clip!Ends(c, how),
         UNCHANGED <<job, Clip!waiting, items, got>>, contents' = contents \/ (place[c] = "empty" /\ contents' = <<>>)
  PROVE  ClipInv'
<1> USE DEF ClipInv, Clip!ClipboardAssumption
<1>1. /\ place' \in [Users -> ClipPlaces] /\ place'[c] = "done" /\ \A d \in Users \ {c} : place'[d] = place[d]
      /\ outcome' \in [Users -> {"none", "ok", "error"}]
      /\ lock' \in Users \cup {Clip!Other, Clip!Nobody} /\ lock' = IF lock = c THEN Clip!Nobody ELSE lock
      /\ blocks' \in [Users -> Nat] /\ blocks'[c] = 0 /\ \A d \in Users \ {c} : blocks'[d] = blocks[d]
  BY EndsIs
<1>2. contents' \in Seq(Entries) /\ (contents' # contents => DOMAIN contents' = {})
  <2>1. CASE contents' = contents
    BY <2>1 DEF ClipTypes
  <2>2. CASE contents' = <<>>
    BY <2>2, NothingWaits
  <2> QED BY <2>1, <2>2
<1>3. ClipTypes'
  BY <1>1, <1>2 DEF ClipTypes, Clip!waiting
<1>4. LockFits'
  BY <1>1 DEF LockFits
<1>5. BlocksFit'
  BY <1>1 DEF BlocksFit
<1>6. ContentsFit'
  <2>1. \A d \in Users : place'[d] = "hand" => place[d] = "hand"
    BY <1>1
  <2>2. \A d \in Users : items[d] \in FromDib => place'[d] \in {"hand", "done"}
    BY <1>1 DEF ContentsFit
  <2>3. CASE contents' = contents
    BY <2>1, <2>2, <2>3 DEF ContentsFit, PngIsThere
  <2>4. CASE contents' = <<>> /\ place[c] = "empty"
    <3>1. \A d \in Users : place'[d] # "hand"
      BY <1>1, <2>4 DEF LockFits
    <3> QED BY <2>2, <2>4, <3>1, NothingWaits DEF ContentsFit
  <2> QED BY <2>3, <2>4
<1>7. GotFits'
  BY DEF GotFits
<1> QED BY <1>3, <1>4, <1>5, <1>6, <1>7

LEMMA PrepareHolds == ASSUME Clip!ClipboardAssumption, ClipInv, NEW c \in Users, Clip!Prepare(c) PROVE ClipInv'
<1> USE DEF ClipInv, Clip!ClipboardAssumption
<1>1. place[c] = "prepare" /\ UNCHANGED <<contents, job, Clip!waiting, got, others>>
  BY DEF Clip!Prepare
<1>2. ASSUME place' = [place EXCEPT ![c] = "open"], items' = [items EXCEPT ![c] = Clip!Formats(job[c])],
             blocks' = [blocks EXCEPT ![c] = Len(Clip!Formats(job[c]))], UNCHANGED <<lock, outcome>>
      PROVE  ClipInv'
  <2>1. place' \in [Users -> ClipPlaces] /\ place'[c] = "open" /\ \A d \in Users \ {c} : place'[d] = place[d]
    BY <1>2, CallerMoves DEF ClipPlaces
  <2>2. Clip!Formats(job[c]) \in {<<"png", "dib">>, <<"png", "dib", "text">>, <<"text">>, <<>>}
    BY DEF Clip!Formats
  <2>3. /\ Clip!Formats(job[c]) \in Remains /\ Clip!Formats(job[c]) \notin FromDib
             /\ Len(Clip!Formats(job[c])) \in Nat
    BY <2>2 DEF Remains, FromDib
  <2>4. /\ items' \in [Users -> Remains] /\ items'[c] = Clip!Formats(job[c])
        /\ \A d \in Users \ {c} : items'[d] = items[d]
    BY <1>2, <2>3 DEF ClipTypes
  <2>5. /\ blocks' \in [Users -> Nat] /\ blocks'[c] = Len(Clip!Formats(job[c]))
        /\ \A d \in Users \ {c} : blocks'[d] = blocks[d]
    BY <1>2, <2>3 DEF ClipTypes
  <2>6. ClipTypes'
    BY <1>1, <1>2, <2>1, <2>4, <2>5 DEF ClipTypes, Clip!waiting
  <2>7. LockFits'
    BY <1>1, <1>2, <2>1 DEF LockFits
  <2>8. BlocksFit'
    BY <2>1, <2>4, <2>5 DEF BlocksFit
  <2>9. ContentsFit'
    <3>1. \A d \in Users : /\ place'[d] = "hand" => place[d] = "hand" /\ items'[d] = items[d]
                           /\ items'[d] \in FromDib => place'[d] \in {"hand", "done"}
      BY <1>1, <2>1, <2>3, <2>4 DEF ContentsFit
    <3> QED BY <1>1, <3>1 DEF ContentsFit, PngIsThere
  <2>10. GotFits'
    BY <1>1 DEF GotFits
  <2> QED BY <2>6, <2>7, <2>8, <2>9, <2>10
<1>3. CASE Clip!Ends(c, "error") /\ UNCHANGED items
  BY <1>1, <1>3, ClipEndHolds
<1> QED BY <1>2, <1>3 DEF Clip!Prepare

LEMMA OpenHolds == ASSUME Clip!ClipboardAssumption, ClipInv, NEW c \in Users, Clip!Open(c) PROVE ClipInv'
<1> USE DEF ClipInv, Clip!ClipboardAssumption
<1>1. place[c] = "open" /\ UNCHANGED <<contents, job, items, got, others>>
  BY DEF Clip!Open
<1>2. ASSUME NEW to \in {"read", "empty"}, lock = Clip!Nobody, lock' = c, place' = [place EXCEPT ![c] = to],
             UNCHANGED <<Clip!waiting, outcome, blocks>>, to = "read" => job[c] = "read"
      PROVE  ClipInv'
  <2>1. place' \in [Users -> ClipPlaces] /\ place'[c] = to /\ \A d \in Users \ {c} : place'[d] = place[d]
    BY <1>2, CallerMoves DEF ClipPlaces
  <2>2. ClipTypes'
    BY <1>1, <1>2, <2>1 DEF ClipTypes, Clip!waiting
  <2>3. LockFits'
    BY <1>1, <1>2, <2>1 DEF LockFits
  <2>4. BlocksFit'
    BY <1>1, <1>2, <2>1 DEF BlocksFit
  <2>5. ContentsFit' /\ GotFits'
    BY <1>1, <2>1 DEF ContentsFit, PngIsThere, GotFits
  <2> QED BY <2>2, <2>3, <2>4, <2>5
<1>3. CASE Clip!Ends(c, "error") /\ UNCHANGED Clip!waiting
  BY <1>1, <1>3, ClipEndHolds
<1>4. ASSUME waited[c] < Budget, waited' = [waited EXCEPT ![c] = @ + Clip!NextWait(c)],
             wait' = [wait EXCEPT ![c] = Clip!Min2(@ * 2, Longest)], UNCHANGED <<lock, place, outcome, blocks>>
      PROVE  ClipInv'
  <2>1. waited[c] \in 0 .. Budget /\ wait[c] \in 1 .. Longest
    BY DEF ClipTypes
  <2>2. waited[c] + Clip!NextWait(c) \in 0 .. Budget
    BY <1>4, <2>1 DEF Clip!NextWait, Clip!Min2
  <2>3. Clip!Min2(wait[c] * 2, Longest) \in 1 .. Longest
    BY <2>1 DEF Clip!Min2
  <2>4. waited' \in [Users -> 0 .. Budget] /\ wait' \in [Users -> 1 .. Longest]
    BY <1>4, <2>2, <2>3 DEF ClipTypes
  <2>5. ClipTypes'
    BY <1>1, <1>4, <2>4 DEF ClipTypes
  <2>6. LockFits' /\ BlocksFit' /\ ContentsFit' /\ GotFits'
    BY <1>1, <1>4 DEF LockFits, BlocksFit, ContentsFit, PngIsThere, GotFits
  <2> QED BY <2>5, <2>6
<1>5. CASE lock = Clip!Nobody
  <2>1. lock' = c /\ UNCHANGED <<Clip!waiting, outcome, blocks>>
    BY <1>5 DEF Clip!Open
  <2>2. place' = [place EXCEPT ![c] = IF job[c] = "read" THEN "read" ELSE "empty"]
    BY <1>5 DEF Clip!Open
  <2>3. CASE job[c] = "read"
    BY <1>2, <1>5, <2>1, <2>2, <2>3
  <2>4. CASE job[c] # "read"
    BY <1>2, <1>5, <2>1, <2>2, <2>4
  <2> QED BY <2>3, <2>4
<1> QED BY <1>3, <1>4, <1>5 DEF Clip!Open

LEMMA EmptyHolds == ASSUME Clip!ClipboardAssumption, ClipInv, NEW c \in Users, Clip!Empty(c) PROVE ClipInv'
<1> USE DEF ClipInv, Clip!ClipboardAssumption
<1>1. place[c] = "empty" /\ UNCHANGED <<job, Clip!waiting, items, got, others>>
  BY DEF Clip!Empty
<1>2. CASE contents' = <<>> /\ Clip!Ends(c, "ok")
  BY <1>1, <1>2, ClipEndHolds
<1>3. CASE Clip!Ends(c, "error") /\ UNCHANGED contents
  BY <1>1, <1>3, ClipEndHolds
<1>4. ASSUME contents' = <<>>, place' = [place EXCEPT ![c] = "hand"], UNCHANGED <<lock, outcome, blocks>>
      PROVE  ClipInv'
  <2>1. place' \in [Users -> ClipPlaces] /\ place'[c] = "hand" /\ \A d \in Users \ {c} : place'[d] = place[d]
    BY <1>4, CallerMoves DEF ClipPlaces
  <2>2. contents' \in Seq(Entries) /\ DOMAIN contents' = {}
    BY <1>4, NothingWaits
  <2>3. ClipTypes'
    BY <1>1, <1>4, <2>1, <2>2 DEF ClipTypes, Clip!waiting
  <2>4. LockFits'
    BY <1>1, <1>4, <2>1 DEF LockFits
  <2>5. BlocksFit'
    BY <1>1, <1>4, <2>1 DEF BlocksFit
  <2>6. ContentsFit'
    <3>1. \A d \in Users \ {c} : place[d] # "hand"
      BY <1>1 DEF LockFits
    <3>2. items[c] \notin FromDib
      BY <1>1 DEF ContentsFit
    <3> QED BY <1>1, <2>1, <2>2, <3>1, <3>2 DEF ContentsFit, PngIsThere
  <2>7. GotFits'
    BY <1>1 DEF GotFits
  <2> QED BY <2>3, <2>4, <2>5, <2>6, <2>7
<1> QED BY <1>2, <1>3, <1>4 DEF Clip!Empty

LEMMA RemainsGo ==
  ASSUME NEW r \in Remains, r # <<>>
  PROVE  /\ Head(r) \in {"png", "dib", "text"} /\ Tail(r) \in Remains /\ Len(Tail(r)) = Len(r) - 1 /\ Len(r) \in Nat
         /\ Tail(r) \in FromDib => Head(r) = "png"
         /\ Head(r) = "dib" => r \in FromDib
<1>1. CASE r = <<"png", "dib">>
  BY <1>1 DEF Remains, FromDib
<1>2. CASE r = <<"png", "dib", "text">>
  BY <1>2 DEF Remains, FromDib
<1>3. CASE r = <<"dib">>
  BY <1>3 DEF Remains, FromDib
<1>4. CASE r = <<"dib", "text">>
  BY <1>4 DEF Remains, FromDib
<1>5. CASE r = <<"text">>
  BY <1>5 DEF Remains, FromDib
<1> QED BY <1>1, <1>2, <1>3, <1>4, <1>5 DEF Remains

LEMMA HandHolds == ASSUME Clip!ClipboardAssumption, ClipInv, NEW c \in Users, Clip!Hand(c) PROVE ClipInv'
<1> USE DEF ClipInv, Clip!ClipboardAssumption
<1>1. place[c] = "hand" /\ UNCHANGED <<job, Clip!waiting, got, others>>
  BY DEF Clip!Hand
<1>2. CASE \E how \in {"ok", "error"} : Clip!Ends(c, how) /\ UNCHANGED <<contents, items>>
  BY <1>1, <1>2, ClipEndHolds
<1>3. ASSUME items[c] # <<>>, contents' = Append(contents, [format |-> Head(items[c]), by |-> c]),
             items' = [items EXCEPT ![c] = Tail(items[c])], blocks' = [blocks EXCEPT ![c] = blocks[c] - 1],
             UNCHANGED <<place, outcome, lock>>
      PROVE  ClipInv'
  <2> DEFINE r == items[c]
             e == [format |-> Head(items[c]), by |-> c]
  <2>1. r \in Remains /\ r # <<>>
    BY <1>3 DEF ClipTypes
  <2>2. /\ Head(r) \in {"png", "dib", "text"} /\ Tail(r) \in Remains /\ Len(Tail(r)) = Len(r) - 1 /\ Len(r) \in Nat
        /\ Tail(r) \in FromDib => Head(r) = "png"
        /\ Head(r) = "dib" => r \in FromDib
    BY <2>1, RemainsGo
  <2>3. e \in Entries /\ e.format = Head(r) /\ e.by = c /\ contents' = Append(contents, e)
    BY <1>3, <2>2 DEF Entries
  <2>4. items' \in [Users -> Remains] /\ items'[c] = Tail(r) /\ \A d \in Users \ {c} : items'[d] = items[d]
    BY <1>3, <2>2 DEF ClipTypes
  <2>5. blocks[c] = Len(r) /\ Len(Tail(r)) \in Nat
    <3>1. Len(Tail(r)) \in Nat
      BY <2>2 DEF Remains
    <3> QED BY <1>1, <3>1 DEF BlocksFit
  <2> HIDE DEF r, e
  <2>6. blocks' \in [Users -> Nat] /\ blocks'[c] = Len(Tail(r)) /\ \A d \in Users \ {c} : blocks'[d] = blocks[d]
    BY <1>3, <2>2, <2>5 DEF ClipTypes
  <2>7. /\ contents' \in Seq(Entries)
        /\ \A k \in DOMAIN contents' : (k \in DOMAIN contents /\ contents'[k] = contents[k]) \/ contents'[k] = e
        /\ \A k \in DOMAIN contents : k \in DOMAIN contents' /\ contents'[k] = contents[k]
        /\ Len(contents) + 1 \in DOMAIN contents' /\ contents'[Len(contents) + 1] = e
    BY <2>3, Appended DEF ClipTypes
  <2>8. ClipTypes'
    BY <1>1, <1>3, <2>4, <2>6, <2>7 DEF ClipTypes, Clip!waiting
  <2>9. LockFits'
    BY <1>3 DEF LockFits
  <2>10. BlocksFit'
    BY <1>1, <1>3, <2>4, <2>6 DEF BlocksFit
  <2>11. ContentsFit'
    <3>1. \A d \in Users : place[d] = "hand" => d = c
      BY <1>1 DEF LockFits
    <3>2. \A k \in DOMAIN contents' : contents'[k].by = c
      BY <1>1, <2>3, <2>7 DEF ContentsFit
    <3>3. PngIsThere => PngIsThere'
      BY <2>7 DEF PngIsThere
    <3>4. Head(r) = "png" => PngIsThere'
      BY <2>3, <2>7 DEF PngIsThere
    <3>5. Head(r) = "dib" => PngIsThere
      BY <1>1, <2>2 DEF ContentsFit, r
    <3>6. (\E k \in DOMAIN contents' : contents'[k].format = "dib" /\ contents'[k].by # Clip!Other) => PngIsThere'
      BY <2>3, <2>7, <3>3, <3>5 DEF ContentsFit
    <3>7. \A d \in Users : items'[d] \in FromDib => place'[d] \in {"hand", "done"}
      BY <1>1, <1>3, <2>4 DEF ContentsFit
    <3>8. items'[c] \in FromDib => PngIsThere'
      BY <2>2, <2>4, <3>4
    <3> QED BY <1>3, <3>1, <3>2, <3>6, <3>7, <3>8 DEF ContentsFit
  <2>12. GotFits'
    BY <1>1 DEF GotFits
  <2> QED BY <2>8, <2>9, <2>10, <2>11, <2>12
<1>4. CASE /\ items[c] # <<>>
           /\ contents' = Append(contents, [format |-> Head(items[c]), by |-> c])
           /\ items' = [items EXCEPT ![c] = Tail(@)]
           /\ blocks' = [blocks EXCEPT ![c] = @ - 1]
           /\ UNCHANGED <<place, outcome, lock>>
  BY <1>3, <1>4
<1> QED BY <1>2, <1>4 DEF Clip!Hand

LEMMA EntryIs == ASSUME NEW f, Clip!OnIt(f)
PROVE  \E i \in DOMAIN contents : Clip!Entry(f) = contents[i] /\ contents[i].format = f
  BY DEF Clip!OnIt, Clip!Entry

LEMMA ReadHolds == ASSUME Clip!ClipboardAssumption, ClipInv, NEW c \in Users, Clip!Read(c) PROVE ClipInv'
<1> USE DEF ClipInv, Clip!ClipboardAssumption
<1>1. place[c] = "read" /\ UNCHANGED <<contents, job, Clip!waiting, items, others>>
  BY DEF Clip!Read
<1>2. CASE Clip!Ends(c, "error") /\ UNCHANGED got
  BY <1>1, <1>2, ClipEndHolds
<1>3. ASSUME got' = [got EXCEPT ![c] = Clip!ReadsOf], place' = [place EXCEPT ![c] = "decode"], lock' = Clip!Nobody,
             UNCHANGED <<outcome, blocks>>
      PROVE  ClipInv'
  <2>1. place' \in [Users -> ClipPlaces] /\ place'[c] = "decode" /\ \A d \in Users \ {c} : place'[d] = place[d]
    BY <1>3, CallerMoves DEF ClipPlaces
  <2>2. ClipTypes'
    BY <1>1, <1>3, <2>1 DEF ClipTypes, Clip!waiting
  <2>3. lock = c
    BY <1>1 DEF LockFits
  <2>4. LockFits'
    BY <1>1, <1>3, <2>1, <2>3 DEF LockFits
  <2>5. BlocksFit'
    BY <1>1, <1>3, <2>1 DEF BlocksFit
  <2>6. ContentsFit'
    BY <1>1, <2>1 DEF ContentsFit, PngIsThere
  <2>7. Clip!ReadsOf # <<>> /\ Clip!ReadsOf[1].by # Clip!Other => Clip!ReadsOf[1].format = "png"
    <3>1. CASE Clip!OnIt("png")
      <4>1. Clip!ReadsOf = <<Clip!Entry("png")>> /\ Clip!Entry("png").format = "png"
        BY <3>1, EntryIs DEF Clip!ReadsOf
      <4> QED BY <4>1
    <3>2. CASE ~Clip!OnIt("png") /\ Clip!OnIt("dib")
      <4>1. Clip!ReadsOf = <<Clip!Entry("dib")>>
        BY <3>2 DEF Clip!ReadsOf
      <4>2. PICK i \in DOMAIN contents : Clip!Entry("dib") = contents[i] /\ contents[i].format = "dib"
        BY <3>2, EntryIs
      <4>3. contents[i].by = Clip!Other
        BY <3>2, <4>2 DEF ContentsFit, PngIsThere, Clip!OnIt
      <4> QED BY <4>1, <4>2, <4>3
    <3>3. CASE ~Clip!OnIt("png") /\ ~Clip!OnIt("dib")
      BY <3>3 DEF Clip!ReadsOf
    <3> QED BY <3>1, <3>2, <3>3
  <2>8. GotFits'
    <3> DEFINE G == Clip!ReadsOf
    <3>1. got' = [got EXCEPT ![c] = G] /\ (G # <<>> /\ G[1].by # Clip!Other => G[1].format = "png")
      BY <1>3, <2>7
    <3> HIDE DEF G
    <3>2. \A d \in Users : got'[d] = got[d] \/ got'[d] = G
      BY <3>1
    <3> QED BY <3>1, <3>2 DEF GotFits
  <2> QED BY <2>2, <2>4, <2>5, <2>6, <2>8
<1> QED BY <1>2, <1>3 DEF Clip!Read

LEMMA DecodeHolds == ASSUME Clip!ClipboardAssumption, ClipInv, NEW c \in Users, Clip!Decode(c) PROVE ClipInv'
  BY ClipEndHolds DEF Clip!Decode

LEMMA ClipOtherHolds == ASSUME Clip!ClipboardAssumption, ClipInv, Clip!OtherOpens \/ Clip!OtherCloses PROVE ClipInv'
<1> USE DEF ClipInv, Clip!ClipboardAssumption
<1>1. /\ UNCHANGED <<place, job, Clip!waiting, items, blocks, outcome, got>>
      /\ lock \in {Clip!Nobody, Clip!Other} /\ lock' \in {Clip!Nobody, Clip!Other}
  BY DEF Clip!OtherOpens, Clip!OtherCloses
<1>2. /\ contents' \in Seq(Entries)
      /\ \/ contents' = contents
         \/ \A i \in DOMAIN contents' : contents'[i].by = Clip!Other
  <2>1. CASE contents' = contents
    BY <2>1 DEF ClipTypes
  <2>2. ASSUME NEW f \in {"dib", "text"}, contents' = <<[format |-> f, by |-> Clip!Other]>>
        PROVE  contents' \in Seq(Entries) /\ \A i \in DOMAIN contents' : contents'[i].by = Clip!Other
    <3> DEFINE e == [format |-> f, by |-> Clip!Other]
    <3>1. e \in Entries /\ e.by = Clip!Other /\ contents' = <<e>>
      BY <2>2 DEF Entries
    <3> HIDE DEF e
    <3> QED BY <3>1
  <2> QED BY <2>1, <2>2 DEF Clip!OtherOpens, Clip!OtherCloses
<1>3. ClipTypes'
  BY <1>1, <1>2 DEF ClipTypes, Clip!waiting
<1>4. LockFits'
  BY <1>1 DEF LockFits
<1>5. BlocksFit' /\ GotFits'
  BY <1>1 DEF BlocksFit, GotFits
<1>6. ContentsFit'
  <2>1. \A d \in Users : place'[d] # "hand"
    BY <1>1 DEF LockFits
  <2> QED BY <1>1, <1>2, <2>1 DEF ContentsFit, PngIsThere
<1> QED BY <1>3, <1>4, <1>5, <1>6

LEMMA ClipStep == ASSUME Clip!ClipboardAssumption, ClipInv, Clip!Next PROVE ClipInv'
  BY PrepareHolds, OpenHolds, EmptyHolds, HandHolds, ReadHolds, DecodeHolds, ClipOtherHolds, Zenon DEF Clip!Next

LEMMA ClipStutter == ASSUME ClipInv, UNCHANGED clipboardVars PROVE ClipInv'
<1>1. UNCHANGED <<lock, contents, place, job, waited, wait, items, blocks, outcome, got>>
  BY DEF clipboardVars
<1> QED BY <1>1 DEF ClipInv, ClipTypes, LockFits, BlocksFit, ContentsFit, PngIsThere, GotFits

LEMMA ClipIsWhole ==
  ASSUME Clip!ClipboardAssumption, ClipInv
  PROVE  Clip!TypeOK /\ Clip!OneWriting /\ Clip!KeepsTransparency /\ Clip!LeavesNothingBehind /\ Clip!WaitIsBounded
<1> USE DEF ClipInv
<1>1. Clip!TypeOK /\ Clip!WaitIsBounded
  BY DEF Clip!ClipboardAssumption, ClipTypes, ClipPlaces, Clip!TypeOK, Clip!WaitIsBounded
<1>2. Clip!OneWriting /\ Clip!KeepsTransparency
  BY DEF ContentsFit, GotFits, Clip!OneWriting, Clip!KeepsTransparency
<1>3. Clip!LeavesNothingBehind
  BY DEF LockFits, BlocksFit, Clip!LeavesNothingBehind
<1> QED BY <1>1, <1>2, <1>3

-----------------------------------------------------------------------------
(* An agent's requests                                                       *)
TaskStages == {"running", "called", "over", "joined"}
Responses == {"none", "error", "nothing", "answers"}

(* What a client asks does not change, and its tasks, places and marks of    *)
(* the log are as many as its messages.                                      *)
Shape ==
  /\ \A c \in Clients : /\ Server!Places(c) \subseteq Nat
                        /\ request[c] = [i \in Server!Places(c) |-> request[c][i]]
                        /\ task[c] \in [Server!Places(c) -> TaskStages]
                        /\ \A i \in Server!Places(c) : task[c][i] = "called" => Server!Kind(c, i) = "call"
                        /\ logged[c] \in [Server!Places(c) -> {0, 1}]
  /\ DOMAIN task = Clients /\ DOMAIN logged = Clients /\ DOMAIN answers = Clients
  /\ response \in [Clients -> Responses]

(* While a client waits each place it has been answered in has its answer;   *)
(* then it has them all, without those that are none.                        *)
InPlace(c) ==
  /\ answers[c] = [i \in Server!Places(c) |-> answers[c][i]]
  /\ \A i \in Server!Places(c) : task[c][i] = "joined" => answers[c][i] = Server!Kind(c, i)
AnswersFit ==
  \A c \in Clients : /\ response[c] = "none" => InPlace(c)
                     /\ response[c] \in {"answers", "nothing"} => answers[c] = Server!Given(request[c])

(* The log has calls that are over, each once.                               *)
CallIsOver(c, i) == Server!Kind(c, i) = "call" /\ task[c][i] \in {"over", "joined"}
LogEntries == Clients \X Nat
OverEntry(e) == e[1] \in Clients /\ e[2] \in Server!Places(e[1]) /\ CallIsOver(e[1], e[2])
InLog(e) == \E k \in DOMAIN log : log[k] = e
LogFits ==
  /\ \A c \in Clients : \A i \in Server!Places(c) : logged[c][i] = IF CallIsOver(c, i) THEN 1 ELSE 0
  /\ log \in Seq(LogEntries) /\ Len(log) <= LogMax
  /\ \A e \in LogEntries : InLog(e) => OverEntry(e)
  /\ \A k, l \in DOMAIN log : k # l => log[k] # log[l]

RequestsInv == Shape /\ AnswersFit /\ LogFits

(* The newest is first, and of the others as many as the log has room for.   *)
LEMMA Pushed ==
  ASSUME NEW S, log \in Seq(S), NEW e \in S, LogMax \in Nat
  PROVE  /\ Server!PushLog(e) \in Seq(S) /\ Len(Server!PushLog(e)) <= LogMax
         /\ \A k \in DOMAIN Server!PushLog(e) :
              /\ k \in Nat /\ k >= 1
              /\ k = 1 => Server!PushLog(e)[k] = e
              /\ k # 1 => k - 1 \in DOMAIN log /\ Server!PushLog(e)[k] = log[k - 1]
<1> DEFINE all == <<e>> \o log
           last == IF Len(log) < LogMax THEN Len(log) + 1 ELSE LogMax
<1>1. /\ <<e>> \in Seq(S) /\ Len(<<e>>) = 1 /\ <<e>>[1] = e
      /\ Len(log) \in Nat /\ DOMAIN log = 1 .. Len(log)
  BY LenProperties
<1>2. /\ all \in Seq(S) /\ Len(all) = 1 + Len(log)
      /\ \A i \in 1 .. 1 + Len(log) : all[i] = IF i <= 1 THEN <<e>>[i] ELSE log[i - 1]
  BY <1>1, ConcatProperties
<1>3. last \in Nat /\ last <= LogMax /\ last <= Len(log) + 1
  BY <1>1
<1> HIDE DEF last
<1>4. \A i \in 1 .. last : all[i] \in S
  BY <1>1, <1>2, <1>3, LenProperties
<1> HIDE DEF all
<1>5. /\ SubSeq(all, 1, last) \in Seq(S)
      /\ Len(SubSeq(all, 1, last)) = IF 1 <= last THEN last - 1 + 1 ELSE 0
      /\ \A i \in 1 .. last - 1 + 1 : SubSeq(all, 1, last)[i] = all[1 + i - 1]
  BY <1>3, <1>4, SubSeqProperties
<1>6. Server!PushLog(e) = SubSeq(all, 1, last)
  BY DEF Server!PushLog, all, last
<1> DEFINE new == Server!PushLog(e)
<1>7. /\ new \in Seq(S) /\ Len(new) = last /\ \A i \in 1 .. last : new[i] = all[i]
  BY <1>3, <1>5, <1>6
<1> HIDE DEF new
<1>8. DOMAIN new = 1 .. last
  BY <1>7, LenProperties
<1>9. \A k \in 1 .. last : k \in Nat /\ k >= 1 /\ k \in 1 .. 1 + Len(log) /\ (k # 1 => k - 1 \in 1 .. Len(log))
  BY <1>1, <1>3
<1>10. ASSUME NEW k \in DOMAIN new
       PROVE  /\ k \in Nat /\ k >= 1
              /\ k = 1 => new[k] = e
              /\ k # 1 => k - 1 \in DOMAIN log /\ new[k] = log[k - 1]
  <2>1. k \in 1 .. last /\ new[k] = all[k]
    BY <1>7, <1>8, <1>10
  <2>2. k = 1 => all[k] = e
    BY <1>1, <1>2, <2>1, <1>9
  <2>3. k # 1 => all[k] = log[k - 1] /\ k - 1 \in DOMAIN log
    BY <1>1, <1>2, <2>1, <1>9
  <2> QED BY <2>1, <2>2, <2>3, <1>9
<1>11. /\ new \in Seq(S) /\ Len(new) <= LogMax
       /\ \A k \in DOMAIN new : /\ k \in Nat /\ k >= 1
                                /\ k = 1 => new[k] = e
                                /\ k # 1 => k - 1 \in DOMAIN log /\ new[k] = log[k - 1]
  BY <1>3, <1>7, <1>10
<1> QED BY <1>11 DEF new

(* One message's mark is changed, and no other one's. *)
Marked(f, g, c, i, v) ==
  /\ DOMAIN g = DOMAIN f /\ DOMAIN g[c] = DOMAIN f[c] /\ g[c][i] = v
  /\ \A d \in DOMAIN f : d # c => g[d] = f[d]
  /\ \A j \in DOMAIN f[c] : j # i => g[c][j] = f[c][j]

LEMMA OneMark ==
  ASSUME NEW f, NEW c \in DOMAIN f, NEW i \in DOMAIN f[c], NEW v
  PROVE  /\ Marked(f, [f EXCEPT ![c][i] = v], c, i, v)
         /\ \A S : f[c] \in [DOMAIN f[c] -> S] /\ v \in S => [f EXCEPT ![c][i] = v][c] \in [DOMAIN f[c] -> S]
  BY DEF Marked

LEMMA RequestsStart == ASSUME Server!RequestsAssumption, Server!StartOfRequests PROVE RequestsInv
<1>1. ASSUME NEW c \in Clients
      PROVE  Server!Places(c) \subseteq Nat /\ request[c] = [i \in Server!Places(c) |-> request[c][i]]
  <2>1. request[c] \in UNION {[1 .. n -> Server!Kinds] : n \in 1 .. MaxBatch}
    BY DEF Server!StartOfRequests
  <2>2. PICK n \in 1 .. MaxBatch : request[c] \in [1 .. n -> Server!Kinds]
    BY <2>1
  <2> QED BY <2>2 DEF Server!Places
<1>2. \A c \in Clients : /\ task[c] = [i \in Server!Places(c) |-> "running"] /\ response[c] = "none"
                         /\ answers[c] = [i \in Server!Places(c) |-> "none"]
                         /\ logged[c] = [i \in Server!Places(c) |-> 0]
  BY DEF Server!StartOfRequests
<1>3. /\ DOMAIN task = Clients /\ DOMAIN logged = Clients /\ DOMAIN answers = Clients
      /\ response \in [Clients -> Responses] /\ log = <<>>
  BY DEF Server!StartOfRequests, Responses
<1>4. \A c \in Clients : task[c] \in [Server!Places(c) -> TaskStages] /\ logged[c] \in [Server!Places(c) -> {0, 1}]
  BY <1>2 DEF TaskStages
<1>5. Shape
  <2>1. \A c \in Clients : \A i \in Server!Places(c) : task[c][i] = "running"
    BY <1>2
  <2> QED BY <1>1, <1>3, <1>4, <2>1 DEF Shape
<1>6. AnswersFit
  BY <1>2 DEF AnswersFit, InPlace
<1>7. log \in Seq(LogEntries) /\ DOMAIN log = {} /\ Len(log) = 0
  BY <1>3
<1>8. Len(log) <= LogMax
  BY <1>7 DEF Server!RequestsAssumption
<1>9. \A c \in Clients : \A i \in Server!Places(c) : logged[c][i] = 0 /\ ~CallIsOver(c, i)
  <2> SUFFICES ASSUME NEW c \in Clients, NEW i \in Server!Places(c) PROVE logged[c][i] = 0 /\ ~CallIsOver(c, i)
    OBVIOUS
  <2>1. task[c] = [j \in Server!Places(c) |-> "running"] /\ logged[c] = [j \in Server!Places(c) |-> 0]
    BY <1>2
  <2>2. task[c][i] = "running" /\ logged[c][i] = 0
    BY <2>1
  <2> QED BY <2>2 DEF CallIsOver
<1>10. LogFits
  BY <1>7, <1>8, <1>9 DEF LogFits, InLog
<1> QED BY <1>5, <1>6, <1>10 DEF RequestsInv

(* A task goes on; nothing else is touched but, at its end, the log. *)
Goes(c, i, from, to) ==
  /\ task[c][i] = from /\ task' = [task EXCEPT ![c][i] = to] /\ request' = request

LEMMA TaskGoes ==
  ASSUME RequestsInv, NEW c \in Clients, NEW i \in Server!Places(c), NEW from, NEW to \in TaskStages,
         Goes(c, i, from, to)
  PROVE  /\ Marked(task, task', c, i, to) /\ DOMAIN task' = Clients
         /\ \A d \in Clients : /\ Server!Places(d)' = Server!Places(d)
              /\ task'[d] \in [Server!Places(d) -> TaskStages]
                               /\ \A j \in Server!Places(d) : Server!Kind(d, j)' = Server!Kind(d, j)
                                    /\ (<<d, j>> # <<c, i>> => task'[d][j] = task[d][j])
         /\ task'[c][i] = to
<1>1. /\ DOMAIN task = Clients /\ c \in DOMAIN task /\ DOMAIN task[c] = Server!Places(c) /\ i \in DOMAIN task[c]
      /\ task[c] \in [DOMAIN task[c] -> TaskStages] /\ \A d \in Clients : task[d] \in [Server!Places(d) -> TaskStages]
  BY DEF RequestsInv, Shape
<1>2. /\ Marked(task, task', c, i, to) /\ task'[c] \in [DOMAIN task[c] -> TaskStages]
  BY <1>1, OneMark DEF Goes
<1>3. \A d \in Clients : Server!Places(d)' = Server!Places(d)
        /\ \A j \in Server!Places(d) : Server!Kind(d, j)' = Server!Kind(d, j)
  BY DEF Goes, Server!Places, Server!Kind
<1>4. \A d \in Clients : task'[d] \in [Server!Places(d) -> TaskStages]
  BY <1>1, <1>2 DEF Marked
<1>5. \A d \in Clients : \A j \in Server!Places(d) : <<d, j>> # <<c, i>> => task'[d][j] = task[d][j]
  BY <1>1, <1>2 DEF Marked
<1> QED BY <1>1, <1>2, <1>3, <1>4, <1>5 DEF Marked

LEMMA ToolEndsHolds ==
  ASSUME RequestsInv, NEW c \in Clients, NEW i \in Server!Places(c), Server!ToolEnds(c, i)
  PROVE  RequestsInv'
<1>1. /\ Goes(c, i, "running", "called") /\ Server!Kind(c, i) = "call" /\ "called" \in TaskStages
      /\ UNCHANGED <<request, answers, response, log, logged>>
  BY DEF Server!ToolEnds, Goes, TaskStages
<1>2. /\ DOMAIN task' = Clients /\ task'[c][i] = "called" /\ task[c][i] = "running"
      /\ \A d \in Clients : /\ Server!Places(d)' = Server!Places(d) /\ task'[d] \in [Server!Places(d) -> TaskStages]
                            /\ \A j \in Server!Places(d) : Server!Kind(d, j)' = Server!Kind(d, j)
                                 /\ (<<d, j>> # <<c, i>> => task'[d][j] = task[d][j])
  <2>1. task[c][i] = "running"
    BY <1>1 DEF Goes
  <2> QED BY <1>1, <2>1, TaskGoes
<1>3. Shape'
  BY <1>1, <1>2 DEF RequestsInv, Shape
<1>4. \A d \in Clients : \A j \in Server!Places(d) : /\ task'[d][j] = "joined" => task[d][j] = "joined"
                                                     /\ CallIsOver(d, j)' = CallIsOver(d, j)
  BY <1>2 DEF CallIsOver
<1>5. AnswersFit'
  BY <1>1, <1>2, <1>4 DEF RequestsInv, AnswersFit, InPlace
<1>6. \A e : OverEntry(e) => OverEntry(e)'
  BY <1>2, <1>4 DEF OverEntry
<1>7. LogFits'
  BY <1>1, <1>2, <1>4, <1>6 DEF RequestsInv, LogFits, InLog
<1> QED BY <1>3, <1>5, <1>7 DEF RequestsInv

LEMMA NoCallHolds ==
  ASSUME RequestsInv, NEW c \in Clients, NEW i \in Server!Places(c), Server!NoCall(c, i)
  PROVE  RequestsInv'
<1>1. /\ Goes(c, i, "running", "over") /\ "over" \in TaskStages /\ Server!Kind(c, i) # "call"
      /\ UNCHANGED <<request, answers, response, log, logged>>
  BY DEF Server!NoCall, Goes, TaskStages
<1>2. /\ DOMAIN task' = Clients /\ task'[c][i] = "over" /\ task[c][i] = "running"
      /\ \A d \in Clients : /\ Server!Places(d)' = Server!Places(d) /\ task'[d] \in [Server!Places(d) -> TaskStages]
                            /\ \A j \in Server!Places(d) : Server!Kind(d, j)' = Server!Kind(d, j)
                                 /\ (<<d, j>> # <<c, i>> => task'[d][j] = task[d][j])
  <2>1. task[c][i] = "running"
    BY <1>1 DEF Goes
  <2> QED BY <1>1, <2>1, TaskGoes
<1>3. Shape'
  BY <1>1, <1>2 DEF RequestsInv, Shape
<1>4. \A d \in Clients : \A j \in Server!Places(d) : /\ task'[d][j] = "joined" => task[d][j] = "joined"
                                                     /\ CallIsOver(d, j)' = CallIsOver(d, j)
  BY <1>1, <1>2 DEF CallIsOver
<1>5. AnswersFit'
  BY <1>1, <1>2, <1>4 DEF RequestsInv, AnswersFit, InPlace
<1>6. \A e : OverEntry(e) => OverEntry(e)'
  BY <1>2, <1>4 DEF OverEntry
<1>7. LogFits'
  BY <1>1, <1>2, <1>4, <1>6 DEF RequestsInv, LogFits, InLog
<1> QED BY <1>3, <1>5, <1>7 DEF RequestsInv

LEMMA LogHolds ==
  ASSUME Server!RequestsAssumption, RequestsInv, NEW c \in Clients, NEW i \in Server!Places(c), Server!Log(c, i)
  PROVE  RequestsInv'
<1>1. /\ Goes(c, i, "called", "over") /\ "over" \in TaskStages /\ log' = Server!PushLog(<<c, i>>)
      /\ UNCHANGED <<request, answers, response>>
  BY DEF Server!Log, Goes, TaskStages
<1>2. /\ DOMAIN task' = Clients /\ task'[c][i] = "over" /\ task[c][i] = "called" /\ Server!Kind(c, i) = "call"
      /\ \A d \in Clients : /\ Server!Places(d)' = Server!Places(d) /\ task'[d] \in [Server!Places(d) -> TaskStages]
                            /\ \A j \in Server!Places(d) : Server!Kind(d, j)' = Server!Kind(d, j)
                                 /\ (<<d, j>> # <<c, i>> => task'[d][j] = task[d][j])
  <2>1. task[c][i] = "called" /\ Server!Kind(c, i) = "call"
    BY DEF Server!Log, RequestsInv, Shape
  <2> QED BY <1>1, <2>1, TaskGoes
<1>3. /\ DOMAIN logged = Clients /\ c \in DOMAIN logged /\ DOMAIN logged[c] = Server!Places(c)
           /\ i \in DOMAIN logged[c]
      /\ logged[c] \in [DOMAIN logged[c] -> {0, 1}] /\ \A d \in Clients : logged[d] \in [Server!Places(d) -> {0, 1}]
  BY DEF RequestsInv, Shape
<1>4. logged[c][i] = 0
  BY <1>2 DEF RequestsInv, LogFits, CallIsOver
<1>5. logged' = [logged EXCEPT ![c][i] = 1]
  BY <1>4 DEF Server!Log
<1>6. Marked(logged, logged', c, i, 1) /\ logged'[c] \in [DOMAIN logged[c] -> {0, 1}]
  BY <1>3, <1>5, OneMark
<1>7. /\ DOMAIN logged' = Clients /\ logged'[c][i] = 1
           /\ \A d \in Clients : logged'[d] \in [Server!Places(d) -> {0, 1}]
      /\ \A d \in Clients : \A j \in Server!Places(d) : <<d, j>> # <<c, i>> => logged'[d][j] = logged[d][j]
  BY <1>3, <1>6 DEF Marked
<1>8. Shape'
  BY <1>1, <1>2, <1>7 DEF RequestsInv, Shape
<1>9. \A d \in Clients : \A j \in Server!Places(d) :
        /\ task'[d][j] = "joined" => task[d][j] = "joined"
        /\ CallIsOver(d, j)' <=> CallIsOver(d, j) \/ <<d, j>> = <<c, i>>
  BY <1>2 DEF CallIsOver
<1>10. AnswersFit'
  BY <1>1, <1>2, <1>9 DEF RequestsInv, AnswersFit, InPlace
<1>11. \A d \in Clients : \A j \in Server!Places(d)' : logged'[d][j] = IF CallIsOver(d, j)' THEN 1 ELSE 0
  BY <1>2, <1>7, <1>9 DEF RequestsInv, LogFits
<1>12. \A e : OverEntry(e) => OverEntry(e)'
  BY <1>2, <1>9 DEF OverEntry
<1> DEFINE e0 == <<c, i>>
<1>13. e0 \in LogEntries /\ OverEntry(e0)' /\ ~OverEntry(e0)
  <2>1. e0[1] = c /\ e0[2] = i /\ i \in Nat
    BY DEF RequestsInv, Shape
  <2>2. ~CallIsOver(c, i) /\ CallIsOver(c, i)' /\ i \in Server!Places(c)'
    BY <1>2, <1>9 DEF CallIsOver
  <2> QED BY <2>1, <2>2 DEF OverEntry, LogEntries
<1>14. log' = Server!PushLog(e0)
  BY <1>1
<1> HIDE DEF e0
<1>15. /\ log' \in Seq(LogEntries) /\ Len(log') <= LogMax
       /\ \A k \in DOMAIN log' :
              /\ k \in Nat /\ k >= 1
              /\ k = 1 => log'[k] = e0
              /\ k # 1 => k - 1 \in DOMAIN log /\ log'[k] = log[k - 1]
  BY <1>13, <1>14, Pushed DEF Server!RequestsAssumption, RequestsInv, LogFits
<1>16. /\ \A e \in LogEntries : InLog(e) => OverEntry(e) /\ e # e0
       /\ \A k \in DOMAIN log : log[k] # e0
       /\ \A k, l \in DOMAIN log : k # l => log[k] # log[l]
  BY <1>13 DEF RequestsInv, LogFits, InLog
<1>17. \A e \in LogEntries : InLog(e)' => OverEntry(e)'
  <2>1. \A e : InLog(e)' => e = e0 \/ InLog(e)
    BY <1>15 DEF InLog
  <2> QED BY <1>12, <1>13, <1>16, <2>1
<1>18. ASSUME NEW k \in DOMAIN log', NEW l \in DOMAIN log', k # l
       PROVE  log'[k] # log'[l]
  <2>1. CASE k = 1
    BY <1>15, <1>16, <1>18, <2>1
  <2>2. CASE l = 1
    BY <1>15, <1>16, <1>18, <2>2
  <2>3. CASE k # 1 /\ l # 1
    <3>1. k - 1 # l - 1 /\ k - 1 \in DOMAIN log /\ l - 1 \in DOMAIN log
      BY <1>15, <1>18, <2>3
    <3> QED BY <1>15, <1>16, <2>3, <3>1
  <2> QED BY <2>1, <2>2, <2>3
<1>19. LogFits'
  BY <1>11, <1>15, <1>17, <1>18 DEF LogFits
<1> QED BY <1>8, <1>10, <1>19 DEF RequestsInv
LEMMA JoinHolds ==
  ASSUME RequestsInv, NEW c \in Clients, NEW i \in Server!Places(c), Server!Join(c, i)
  PROVE  RequestsInv'
<1>1. /\ Goes(c, i, "over", "joined") /\ "joined" \in TaskStages
      /\ UNCHANGED <<request, log, logged>>
  BY DEF Server!Join, Goes, TaskStages
<1>2. /\ DOMAIN task' = Clients /\ task'[c][i] = "joined" /\ task[c][i] = "over"
      /\ \A d \in Clients : /\ Server!Places(d)' = Server!Places(d) /\ task'[d] \in [Server!Places(d) -> TaskStages]
                            /\ \A j \in Server!Places(d) : Server!Kind(d, j)' = Server!Kind(d, j)
                                 /\ (<<d, j>> # <<c, i>> => task'[d][j] = task[d][j])
  <2>1. task[c][i] = "over"
    BY DEF Server!Join
  <2> QED BY <1>1, <2>1, TaskGoes
<1>3. DOMAIN answers = Clients /\ response \in [Clients -> Responses] /\ response[c] = "none" /\ InPlace(c)
  BY DEF Server!Join, RequestsInv, Shape, AnswersFit
<1>4. /\ DOMAIN answers' = Clients /\ response' \in [Clients -> Responses]
      /\ \A d \in Clients : d # c => answers'[d] = answers[d] /\ response'[d] = response[d]
      /\ response'[c] \in {"none", "error"}
      /\ response'[c] = "none" => InPlace(c)'
  <2>1. CASE Server!Kind(c, i) = "null"
    <3>1. response' = [response EXCEPT ![c] = "error"] /\ answers' = answers
      BY <2>1 DEF Server!Join
    <3> QED BY <1>3, <3>1 DEF Responses
  <2>2. CASE Server!Kind(c, i) # "null"
    <3>1. response' = response /\ answers' = [answers EXCEPT ![c][i] = Server!Kind(c, i)]
      BY <2>2 DEF Server!Join, Server!ItsPlace
    <3>2. c \in DOMAIN answers /\ answers[c] = [j \in DOMAIN answers[c] |-> answers[c][j]]
            /\ DOMAIN answers[c] = Server!Places(c)
      BY <1>3 DEF InPlace
    <3>3. Marked(answers, answers', c, i, Server!Kind(c, i))
            /\ answers'[c] = [j \in Server!Places(c) |-> answers'[c][j]]
      <4>1. i \in DOMAIN answers[c] /\ answers' = [answers EXCEPT ![c][i] = Server!Kind(c, i)]
        BY <3>1, <3>2
      <4>2. Marked(answers, answers', c, i, Server!Kind(c, i))
        BY <3>2, <4>1, OneMark
      <4>3. answers'[c] = [j \in DOMAIN answers[c] |-> answers'[c][j]]
        <5>1. answers'[c] = [answers[c] EXCEPT ![i] = Server!Kind(c, i)]
          BY <3>2, <4>1
        <5> QED BY <3>2, <5>1
      <4> QED BY <3>2, <4>2, <4>3
    <3>4. \A j \in Server!Places(c) : j # i => answers'[c][j] = answers[c][j]
      BY <3>2, <3>3 DEF Marked
    <3>5. answers'[c][i] = Server!Kind(c, i)
      BY <3>3 DEF Marked
    <3>6. \A j \in Server!Places(c) : j # i => task'[c][j] = task[c][j]
      BY <1>2
    <3>7. \A j \in Server!Places(c) : task'[c][j] = "joined" => answers'[c][j] = Server!Kind(c, j)
      BY <1>3, <3>4, <3>5, <3>6 DEF InPlace
    <3>8. InPlace(c)'
      BY <1>2, <3>3, <3>7 DEF InPlace
    <3>9. DOMAIN answers' = Clients /\ \A d \in Clients : d # c => answers'[d] = answers[d]
      BY <1>3, <3>1
    <3> QED BY <1>3, <3>1, <3>8, <3>9
  <2> QED BY <2>1, <2>2
<1>5. Shape'
  BY <1>1, <1>2, <1>4 DEF RequestsInv, Shape
<1>6. AnswersFit'
  <2>1. ASSUME NEW d \in Clients, d # c
        PROVE  /\ response'[d] = "none" => InPlace(d)'
               /\ response'[d] \in {"answers", "nothing"} => answers'[d] = Server!Given(request'[d])
    <3>1. \A j \in Server!Places(d) : task'[d][j] = task[d][j]
      BY <1>2, <2>1
    <3>2. answers'[d] = answers[d] /\ response'[d] = response[d] /\ request'[d] = request[d]
      BY <1>1, <1>4, <2>1
    <3> QED BY <1>2, <3>1, <3>2 DEF RequestsInv, AnswersFit, InPlace
  <2>2. ~(response'[c] \in {"answers", "nothing"})
    BY <1>4
  <2> QED BY <1>4, <2>1, <2>2 DEF AnswersFit
<1>7. \A d \in Clients : \A j \in Server!Places(d) : CallIsOver(d, j)' = CallIsOver(d, j)
  BY <1>2 DEF CallIsOver
<1>8. \A e : OverEntry(e) => OverEntry(e)'
  BY <1>2, <1>7 DEF OverEntry
<1>9. LogFits'
  BY <1>1, <1>2, <1>7, <1>8 DEF RequestsInv, LogFits, InLog
<1> QED BY <1>5, <1>6, <1>9 DEF RequestsInv

LEMMA RespondHolds ==
  ASSUME RequestsInv, NEW c \in Clients, Server!Respond(c)
  PROVE  RequestsInv'
<1>1. UNCHANGED <<request, task, log,
                  logged>> /\ response[c] = "none" /\ \A i \in Server!Places(c) : task[c][i] = "joined"
  BY DEF Server!Respond
<1>2. /\ InPlace(c) /\ DOMAIN answers = Clients /\ response \in [Clients -> Responses]
      /\ request[c] = [i \in Server!Places(c) |-> request[c][i]]
  BY <1>1 DEF RequestsInv, Shape, AnswersFit
<1>3. answers[c] = request[c]
  <2>1. \A i \in Server!Places(c) : answers[c][i] = request[c][i]
    BY <1>1, <1>2 DEF InPlace, Server!Kind
  <2> QED BY <1>2, <2>1 DEF InPlace
<1>4. answers' = [answers EXCEPT ![c] = Server!Given(answers[c])]
  BY DEF Server!Respond
<1>5. /\ DOMAIN answers' = Clients /\ answers'[c] = Server!Given(request[c]) /\ \A d \in Clients : d # c
           => answers'[d] = answers[d]
  BY <1>2, <1>3, <1>4
<1>6. PICK v \in {"nothing", "answers"} : response' = [response EXCEPT ![c] = v]
  <2>1. response' = [response EXCEPT ![c] = IF answers'[c] = <<>> THEN "nothing" ELSE "answers"]
    BY DEF Server!Respond
  <2>2. CASE answers'[c] = <<>>
    BY <2>1, <2>2
  <2>3. CASE answers'[c] # <<>>
    BY <2>1, <2>3
  <2> QED BY <2>2, <2>3
<1>7. /\ response' \in [Clients -> Responses] /\ response'[c] = v /\ \A d \in Clients : d # c
           => response'[d] = response[d]
  BY <1>2, <1>6 DEF Responses
<1>8. \A d \in Clients : Server!Places(d)' = Server!Places(d)
        /\ \A j \in Server!Places(d) : Server!Kind(d, j)' = Server!Kind(d, j) /\ CallIsOver(d, j)' = CallIsOver(d, j)
  BY <1>1 DEF Server!Places, Server!Kind, CallIsOver
<1>9. Shape'
  BY <1>1, <1>5, <1>7, <1>8 DEF RequestsInv, Shape
<1>10. AnswersFit'
  <2>1. ASSUME NEW d \in Clients, d # c
        PROVE  /\ response'[d] = "none" => InPlace(d)'
               /\ response'[d] \in {"answers", "nothing"} => answers'[d] = Server!Given(request'[d])
    <3>1. answers'[d] = answers[d] /\ response'[d] = response[d] /\ request'[d] = request[d] /\ task' = task
      BY <1>1, <1>5, <1>7, <2>1
    <3> QED BY <1>8, <3>1 DEF RequestsInv, AnswersFit, InPlace
  <2>2. response'[c] # "none" /\ answers'[c] = Server!Given(request'[c])
    BY <1>1, <1>5, <1>6, <1>7
  <2> QED BY <2>1, <2>2 DEF AnswersFit
<1>11. LogFits'
  BY <1>1 DEF RequestsInv, LogFits, InLog, OverEntry, CallIsOver, Server!Places, Server!Kind
<1> QED BY <1>9, <1>10, <1>11 DEF RequestsInv

LEMMA RequestsStep == ASSUME Server!RequestsAssumption, RequestsInv, Server!RequestsNext PROVE RequestsInv'
<1>1. ASSUME NEW c \in Clients, NEW i \in Server!Places(c),
             Server!ToolEnds(c, i) \/ Server!Log(c, i) \/ Server!NoCall(c, i) \/ Server!Join(c, i)
      PROVE  RequestsInv'
  BY <1>1, ToolEndsHolds, LogHolds, NoCallHolds, JoinHolds
<1> QED BY <1>1, RespondHolds DEF Server!RequestsNext

LEMMA RequestsStutter == ASSUME RequestsInv, UNCHANGED requestsVars PROVE RequestsInv'
  BY DEF requestsVars, RequestsInv, Shape, AnswersFit, InPlace, LogFits, InLog, OverEntry, CallIsOver,
         Server!Places, Server!Kind

LEMMA RequestsAreAnswered ==
  ASSUME RequestsInv PROVE Server!RequestsTypeOK /\ Server!AnswersInOrder /\ Server!CallsAreLogged
<1>1. Server!RequestsTypeOK
  BY DEF RequestsInv, Shape, LogFits, Server!RequestsTypeOK, TaskStages, Responses
<1>2. Server!AnswersInOrder
  BY DEF RequestsInv, AnswersFit, Server!AnswersInOrder
<1>3. Server!CallsAreLogged
  BY DEF RequestsInv, LogFits, Server!CallsAreLogged, CallIsOver
<1> QED BY <1>1, <1>2, <1>3

-----------------------------------------------------------------------------
(* The pictures of windows: what a call knows, and which threads are stuck.  *)

CallPlaces ==
  {"list", "print", "wait", "print_over", "graphics", "device", "capture", "screen", "blit", "opinion", "done"}
PrintPlaces == {"none", "check", "inside", "crop", "over"}
Seen == {"picture", "flat"}
CallStates ==
  [target : Handles \cup {Capture!Nothing}, size : Nat, area : Int \X Int,
   printed : Seen \cup {"error", Capture!Nothing}, result : Seen \cup {"error", Capture!Nothing},
   method : {"print", "graphics", Capture!Nothing}]

(* What a call knows, by where it is and where the thread is that prints     *)
(* for it: nothing is printed before the thread is over, and a picture that  *)
(* was printed is the result or is compared with the other.                  *)
CallFits(where, k, t) ==
  /\ where \in CallPlaces /\ t \in PrintPlaces /\ k \in CallStates
  /\ where \in {"list", "screen", "blit", "opinion", "print"} => t = "none"
  /\ where \notin {"list", "screen", "blit", "opinion", "done"} => k.target \in Handles
  /\ t # "none" => k.target \in Handles
  /\ t # "over" => k.printed = Capture!Nothing
  /\ t \in {"inside", "crop"} => k.size >= 1
  /\ where \in {"graphics", "device", "capture"} => k.printed # "picture"
  /\ where = "done" /\ k.printed \in Seen => k.result # "error"
  /\ t = "over" /\ k.printed \in Seen => k.area[1] + k.area[2] <= k.size /\ k.area[2] >= 1

CaptureTypes ==
  /\ targets \in [Handles -> Capture!There \cup {Capture!Gone}]
  /\ step = [c \in Calls |-> step[c]] /\ call = [c \in Calls |-> call[c]] /\ threads = [c \in Calls |-> threads[c]]
  /\ devices \in {0, 1} /\ device_lock \in Calls \cup {Capture!Nothing}
CallsFit == \A c \in Calls : CallFits(step[c], call[c], threads[c])
CounterFits == counter = Cardinality(Capture!Within) /\ counter <= Stuck

CaptureInv == CaptureTypes /\ CallsFit /\ CounterFits

LEMMA SameCount ==
  /\ \A S : Capture!Cardinality(S) = Cardinality(S)
  /\ \A S : Capture!IsFiniteSet(S) = IsFiniteSet(S)
  BY DEF Capture!Cardinality, Cardinality, Capture!IsFiniteSet, IsFiniteSet

LEMMA WithinIsFinite ==
  ASSUME Capture!CaptureAssumption
  PROVE  IsFiniteSet(Capture!Within) /\ Cardinality(Capture!Within) \in Nat
         /\ Cardinality(Capture!Within) <= Cardinality(Calls)
<1>1. Capture!Within \subseteq Calls
  BY DEF Capture!Within
<1>2. IsFiniteSet(Calls)
  BY SameCount DEF Capture!CaptureAssumption
<1> QED BY <1>1, <1>2, FS_Subset, FS_CardinalityType

LEMMA CaptureStarts == ASSUME Capture!CaptureAssumption, Capture!Init PROVE CaptureInv
<1>1. CaptureTypes
  BY DEF Capture!Init, CaptureTypes, Capture!There
<1>2. \A c \in Calls : step[c] = "list" /\ call[c] = Capture!Fresh /\ threads[c] = "none"
  BY DEF Capture!Init
<1>3. CallFits("list", Capture!Fresh, "none")
  BY DEF CallFits, Capture!Fresh, CallPlaces, PrintPlaces, CallStates, Capture!Nothing, Seen
<1>4. Capture!Within = {}
  BY <1>2 DEF Capture!Within
<1>5. CounterFits
  BY <1>4, FS_EmptySet DEF Capture!Init, CounterFits, Capture!CaptureAssumption
<1> QED BY <1>1, <1>2, <1>3, <1>5 DEF CaptureInv, CallsFit

(* A step of one call. *)
OnlyThis(c) ==
  /\ step' = [d \in Calls |-> step'[d]] /\ call' = [d \in Calls |-> call'[d]]
       /\ threads' = [d \in Calls |-> threads'[d]]
  /\ \A d \in Calls : d # c => step'[d] = step[d] /\ call'[d] = call[d] /\ threads'[d] = threads[d]

LEMMA OneCall ==
  ASSUME CaptureInv, NEW c \in Calls, OnlyThis(c), CallFits(step'[c], call'[c], threads'[c]),
         targets' = targets, devices' \in {0, 1}, device_lock' \in Calls \cup {Capture!Nothing}, CounterFits'
  PROVE  CaptureInv'
<1>1. CaptureTypes'
  BY DEF CaptureInv, CaptureTypes, OnlyThis
<1>2. CallsFit'
  <2>1. \A d \in Calls : d # c => CallFits(step'[d], call'[d], threads'[d])
    BY DEF CaptureInv, CallsFit, OnlyThis
  <2> QED BY <2>1 DEF CallsFit
<1> QED BY <1>1, <1>2 DEF CaptureInv

(* The counter follows the thread. *)
LEMMA SameThreads ==
  ASSUME CaptureInv, counter' = counter,
         \A c \in Calls : threads'[c] \in {"check", "inside", "crop"} <=> threads[c] \in {"check", "inside", "crop"}
  PROVE  CounterFits'
<1>1. Capture!Within' = Capture!Within
  BY DEF Capture!Within
<1> QED BY <1>1 DEF CaptureInv, CounterFits

LEMMA ThreadBegins ==
  ASSUME Capture!CaptureAssumption, CaptureInv, NEW c \in Calls, OnlyThis(c), counter < Stuck, counter' = counter + 1,
         threads[c] = "none", threads'[c] = "check"
  PROVE  CounterFits'
<1>1. c \notin Capture!Within /\ Capture!Within' = Capture!Within \cup {c}
  BY DEF Capture!Within, OnlyThis
<1>2. Cardinality(Capture!Within') = Cardinality(Capture!Within) + 1
  BY <1>1, WithinIsFinite, FS_AddElement
<1> QED BY <1>2, WithinIsFinite DEF CaptureInv, CounterFits, Capture!CaptureAssumption

LEMMA ThreadEnds ==
  ASSUME Capture!CaptureAssumption, CaptureInv, NEW c \in Calls, OnlyThis(c), counter' = counter - 1,
         threads[c] \in {"check", "inside", "crop"}, threads'[c] = "over"
  PROVE  CounterFits'
<1>1. c \in Capture!Within /\ Capture!Within' = Capture!Within \ {c}
  BY DEF Capture!Within, OnlyThis
<1>2. Cardinality(Capture!Within') = Cardinality(Capture!Within) - 1
  BY <1>1, WithinIsFinite, FS_RemoveElement
<1> QED BY <1>2, WithinIsFinite DEF CaptureInv, CounterFits, Capture!CaptureAssumption

(* The end of a call: what it has is what it knew, and a result. *)
LEMMA EndsAre ==
  ASSUME CaptureInv, NEW c \in Calls, NEW what \in Seen \cup {"error"}, Capture!Ends(c, what),
         UNCHANGED <<Capture!world, threads, counter>>,
         devices' \in {0, 1}, device_lock' \in Calls \cup {Capture!Nothing},
         call[c].printed \in Seen => what # "error"
  PROVE  CaptureInv'
<1>1. /\ step' = [step EXCEPT ![c] = "done"] /\ call' = [call EXCEPT ![c].result = what]
      /\ threads' = threads /\ counter' = counter /\ targets' = targets
  BY DEF Capture!Ends, Capture!world
<1>2. OnlyThis(c) /\ step'[c] = "done" /\ call'[c] = [call[c] EXCEPT !.result = what] /\ threads'[c] = threads[c]
  BY <1>1 DEF OnlyThis, CaptureInv, CaptureTypes
<1>3. CallFits(step[c], call[c], threads[c])
  BY DEF CaptureInv, CallsFit
<1> DEFINE k == [call[c] EXCEPT !.result = what]
<1>4. /\ k \in CallStates /\ k.result = what /\ k.printed = call[c].printed /\ k.target = call[c].target
      /\ k.size = call[c].size /\ k.area = call[c].area
  BY <1>3 DEF CallFits, CallStates
<1>5. CallFits("done", k, threads[c])
  <2> HIDE DEF k
  <2> QED BY <1>3, <1>4 DEF CallFits, CallPlaces
<1>6. CounterFits'
  BY <1>1, SameThreads
<1> QED BY <1>1, <1>2, <1>5, <1>6, OneCall

(* A call goes on to its next place, and its thread with it or not. *)
LEMMA Moves ==
  ASSUME CaptureInv, NEW c \in Calls, NEW where, step' = [step EXCEPT ![c] = where],
         UNCHANGED <<Capture!world, call, threads, counter>>,
         devices' \in {0, 1}, device_lock' \in Calls \cup {Capture!Nothing},
         CallFits(where, call[c], threads[c])
  PROVE  CaptureInv'
<1>1. OnlyThis(c) /\ step'[c] = where /\ call'[c] = call[c] /\ threads'[c] = threads[c] /\ targets' = targets
  BY DEF OnlyThis, CaptureInv, CaptureTypes, Capture!world
<1>2. CounterFits'
  BY SameThreads
<1> QED BY <1>1, <1>2, OneCall

LEMMA ChangesHold == ASSUME Capture!CaptureAssumption, CaptureInv, Capture!WindowChanges PROVE CaptureInv'
<1> USE DEF Capture!WindowChanges, Capture!deviceVars
<1>1. UNCHANGED <<step, call, threads, counter, devices, device_lock>>
  OBVIOUS
<1>2. targets' \in [Handles -> Capture!There \cup {Capture!Gone}]
  <2>1. CASE targets' = targets
    BY <2>1 DEF CaptureInv, CaptureTypes
  <2>2. ASSUME NEW h \in Handles,
               NEW w \in {Capture!Gone, Capture!Another}
                         \cup (IF Capture!Alive(h) THEN Capture!Altered(targets[h]) ELSE {}),
               targets' = [targets EXCEPT ![h] = w]
        PROVE  targets' \in [Handles -> Capture!There \cup {Capture!Gone}]
    <3>1. (CHOOSE t \in Titles : TRUE) \in Titles
      BY DEF Capture!CaptureAssumption
    <3>2. Capture!Another \in Capture!There
      BY <3>1 DEF Capture!Another, Capture!There
    <3>3. Capture!Alive(h) => targets[h] \in Capture!There
      BY DEF Capture!Alive, CaptureInv, CaptureTypes
    <3>4. ASSUME Capture!Alive(h), NEW v \in Capture!Altered(targets[h]) PROVE v \in Capture!There
      <4>1. targets[h] \in Capture!There
        BY <3>3, <3>4
      <4>2. CASE v = [targets[h] EXCEPT !.size = 2]
        BY <4>1, <4>2 DEF Capture!There
      <4>3. ASSUME NEW st \in {"shown", "hung", "minimized"}, v = [targets[h] EXCEPT !.state = st]
            PROVE  v \in Capture!There
        BY <4>1, <4>3 DEF Capture!There
      <4> QED BY <3>4, <4>2, <4>3 DEF Capture!Altered
    <3>5. w \in Capture!There \cup {Capture!Gone}
      BY <2>2, <3>2, <3>4
    <3> QED BY <2>2, <3>5 DEF CaptureInv, CaptureTypes
  <2> QED BY <2>1, <2>2
<1>3. CaptureTypes'
  BY <1>1, <1>2 DEF CaptureInv, CaptureTypes
<1>4. CallsFit'
  BY <1>1 DEF CaptureInv, CallsFit
<1>5. CounterFits'
  BY <1>1, SameThreads
<1> QED BY <1>3, <1>4, <1>5 DEF CaptureInv

LEMMA ListHolds == ASSUME CaptureInv, NEW c \in Calls, Capture!List(c) PROVE CaptureInv'
<1>1. step[c] = "list" /\ UNCHANGED <<Capture!world, threads, counter, devices, device_lock>>
  BY DEF Capture!List, Capture!deviceVars
<1>2. devices' \in {0, 1} /\ device_lock' \in Calls \cup {Capture!Nothing} /\ CallFits("list", call[c], threads[c])
  BY <1>1 DEF CaptureInv, CaptureTypes, CallsFit
<1>3. CASE Capture!Ends(c, "error")
  <2>1. ~(call[c].printed \in Seen)
    BY <1>2 DEF CallFits, Seen, Capture!Nothing
  <2> QED BY <1>1, <1>2, <1>3, <2>1, EndsAre
<1>4. ASSUME NEW h \in Handles, step' = [step EXCEPT ![c] = "print"], call' = [call EXCEPT ![c].target = h]
      PROVE  CaptureInv'
  <2>1. /\ OnlyThis(c) /\ step'[c] = "print" /\ call'[c] = [call[c] EXCEPT !.target = h] /\ threads'[c] = threads[c]
        /\ targets' = targets
    BY <1>1, <1>4 DEF OnlyThis, CaptureInv, CaptureTypes, Capture!world
  <2> DEFINE k == [call[c] EXCEPT !.target = h]
  <2>2. k \in CallStates /\ k.target = h /\ k.printed = call[c].printed
    BY <1>2 DEF CallFits, CallStates
  <2>3. threads[c] = "none" /\ call[c].printed = Capture!Nothing
    BY <1>2 DEF CallFits
  <2>4. CallFits("print", k, threads[c])
    <3> HIDE DEF k
    <3> QED BY <2>2, <2>3 DEF CallFits, CallPlaces, PrintPlaces
  <2>5. CounterFits'
    BY <1>1, SameThreads
  <2> QED BY <1>2, <2>1, <2>4, <2>5, OneCall
<1> QED BY <1>3, <1>4 DEF Capture!List

LEMMA ScreenHolds ==
  ASSUME CaptureInv, NEW c \in Calls,
         Capture!AskForScreen(c) \/ Capture!EnsureInputDesktop(c) \/ Capture!Blit(c) \/ Capture!SecondOpinion(c)
  PROVE  CaptureInv'
<1>1. /\ step[c] \in {"list", "screen", "blit", "opinion"}
      /\ UNCHANGED <<Capture!world, threads, counter, device_lock>> /\ devices' \in {0, 1}
  BY DEF Capture!AskForScreen, Capture!EnsureInputDesktop, Capture!Blit, Capture!SecondOpinion, Capture!MadeOnce,
     Capture!deviceVars, CaptureInv, CaptureTypes
<1>2. device_lock' \in Calls \cup {Capture!Nothing} /\ CallFits(step[c], call[c], threads[c])
  BY <1>1 DEF CaptureInv, CaptureTypes, CallsFit
<1>3. threads[c] = "none" /\ call[c].printed = Capture!Nothing /\ ~(call[c].printed \in Seen)
  BY <1>1, <1>2 DEF CallFits, Seen, Capture!Nothing
<1>4. ASSUME NEW where \in {"screen", "blit", "opinion"}, step' = [step EXCEPT ![c] = where], call' = call
      PROVE  CaptureInv'
  <2>1. CallFits(where, call[c], threads[c])
    BY <1>2, <1>3 DEF CallFits, CallPlaces
  <2> QED BY <1>1, <1>2, <1>4, <2>1, Moves
<1>5. ASSUME NEW what \in Seen \cup {"error"}, Capture!Ends(c, what) PROVE CaptureInv'
  BY <1>1, <1>2, <1>3, <1>5, EndsAre
<1>6. \/ \E where \in {"screen", "blit", "opinion"} : step' = [step EXCEPT ![c] = where] /\ call' = call
      \/ \E what \in Seen \cup {"error"} : Capture!Ends(c, what)
  BY DEF Capture!AskForScreen, Capture!EnsureInputDesktop, Capture!Blit, Capture!SecondOpinion, Seen
<1> QED BY <1>4, <1>5, <1>6

LEMMA AskToPrintHolds == ASSUME Capture!CaptureAssumption, CaptureInv, NEW c \in Calls, Capture!AskToPrint(c)
PROVE  CaptureInv'
<1> USE DEF Capture!AskToPrint, Capture!deviceVars
<1>1. step[c] = "print" /\ UNCHANGED <<Capture!world, call, devices, device_lock>>
  OBVIOUS
<1>2. devices' \in {0, 1} /\ device_lock' \in Calls \cup {Capture!Nothing} /\ CallFits("print", call[c], threads[c])
        /\ targets' = targets
  BY <1>1 DEF CaptureInv, CaptureTypes, CallsFit, Capture!world
<1>3. CASE step' = [step EXCEPT ![c] = "print_over"] /\ UNCHANGED <<counter, threads>>
  <2>1. CallFits("print_over", call[c], threads[c])
    BY <1>2 DEF CallFits, CallPlaces
  <2> QED BY <1>1, <1>2, <1>3, <2>1, Moves
<1>4. CASE counter < Stuck /\ counter' = Capture!Raised /\ threads' = [threads EXCEPT ![c] = "check"]
             /\ step' = [step EXCEPT ![c] = "wait"]
  <2>1. OnlyThis(c) /\ step'[c] = "wait" /\ call'[c] = call[c] /\ threads'[c] = "check"
    BY <1>1, <1>4 DEF OnlyThis, CaptureInv, CaptureTypes
  <2>2. CallFits("wait", call[c], "check")
    BY <1>2 DEF CallFits, CallPlaces, PrintPlaces
  <2>3. threads[c] = "none" /\ counter' = counter + 1
    BY <1>2, <1>4 DEF CallFits, Capture!Raised
  <2>4. CounterFits'
    BY <1>4, <2>1, <2>3, ThreadBegins
  <2> QED BY <1>2, <2>1, <2>2, <2>4, OneCall
<1> QED BY <1>3, <1>4

(* The end of a thread: its result is heard while the call waits. *)
LEMMA AnswersAre ==
  ASSUME Capture!CaptureAssumption, CaptureInv, NEW c \in Calls, NEW what \in Seen \cup {"error"},
         NEW area \in Int \X Int,
         Capture!Answers(c, what, area), threads[c] \in {"check", "inside", "crop"},
         what \in Seen => area[1] + area[2] <= call[c].size /\ area[2] >= 1
  PROVE  CaptureInv'
<1>1. /\ threads' = [threads EXCEPT ![c] = "over"] /\ counter' = counter - 1
           /\ UNCHANGED <<Capture!world, step, devices, device_lock>>
      /\ call' = [call EXCEPT ![c].printed = IF step[c] = "wait" THEN what ELSE @, ![c].area = area]
  BY DEF Capture!Answers, Capture!deviceVars
<1>2. CallFits(step[c], call[c], threads[c]) /\ devices' \in {0, 1} /\ device_lock' \in Calls \cup {Capture!Nothing}
        /\ targets' = targets
  BY <1>1 DEF CaptureInv, CaptureTypes, CallsFit, Capture!world
<1> DEFINE said == IF step[c] = "wait" THEN what ELSE call[c].printed
           k == [call[c] EXCEPT !.printed = said, !.area = area]
<1>3. OnlyThis(c) /\ step'[c] = step[c] /\ threads'[c] = "over" /\ call'[c] = k
  BY <1>1 DEF OnlyThis, CaptureInv, CaptureTypes
<1>4. said \in Seen \cup {"error", Capture!Nothing} /\ (said # Capture!Nothing => said = what /\ step[c] = "wait")
        /\ ~(Capture!Nothing \in Seen)
  BY <1>2 DEF CallFits, Capture!Nothing, Seen
<1>5. k \in CallStates /\ k.printed = said /\ k.area = area /\ k.target = call[c].target /\ k.size = call[c].size
      /\ k.result = call[c].result
  <2> HIDE DEF said
  <2> QED BY <1>2, <1>4 DEF CallFits, CallStates
<1>6. CallFits(step[c], k, "over")
  <2> HIDE DEF k, said
  <2> QED BY <1>2, <1>4, <1>5 DEF CallFits, PrintPlaces, Seen
<1>7. CounterFits'
  BY <1>1, <1>3, ThreadEnds
<1> QED BY <1>2, <1>3, <1>6, <1>7, OneCall

LEMMA CheckHolds == ASSUME Capture!CaptureAssumption, CaptureInv, NEW c \in Calls, Capture!Check(c) PROVE CaptureInv'
<1> DEFINE h == call[c].target
<1>1. threads[c] = "check" /\ CallFits(step[c], call[c], "check")
        /\ targets \in [Handles -> Capture!There \cup {Capture!Gone}]
  BY DEF Capture!Check, CaptureInv, CaptureTypes, CallsFit
<1>2. h \in Handles
  BY <1>1 DEF CallFits
<1>3. CASE Capture!Answers(c, "error", <<0, 0>>)
  BY <1>1, <1>3, AnswersAre DEF Seen
<1>4. CASE /\ targets[h].state \notin {"gone", "minimized"} /\ threads' = [threads EXCEPT ![c] = "inside"]
           /\ call' = [call EXCEPT ![c].size = targets[h].size]
                /\ UNCHANGED <<Capture!world, step, counter, Capture!deviceVars>>
  <2>1. targets[h] \in Capture!There
    BY <1>1, <1>2, <1>4 DEF Capture!Gone
  <2>2. targets[h].size \in Nat /\ targets[h].size >= 1
    BY <2>1 DEF Capture!There
  <2> DEFINE size == targets[h].size
             k == [call[c] EXCEPT !.size = size]
  <2>3. /\ OnlyThis(c) /\ step'[c] = step[c] /\ threads'[c] = "inside" /\ call'[c] = k
        /\ targets' = targets /\ devices' \in {0, 1} /\ device_lock' \in Calls \cup {Capture!Nothing}
             /\ counter' = counter
    BY <1>4 DEF OnlyThis, CaptureInv, CaptureTypes, Capture!world, Capture!deviceVars
  <2>4. k \in CallStates /\ k.size = size /\ k.target = h /\ k.printed = call[c].printed /\ k.result = call[c].result
    <3> HIDE DEF size
    <3> QED BY <1>1, <2>2 DEF CallFits, CallStates, size
  <2>5. CallFits(step[c], k, "inside")
    <3> HIDE DEF k
    <3> QED BY <1>1, <2>2, <2>4 DEF CallFits, PrintPlaces, Seen, Capture!Nothing
  <2>6. CounterFits'
    BY <1>1, <2>3, SameThreads DEF OnlyThis
  <2> QED BY <2>3, <2>5, <2>6, OneCall
<1> QED BY <1>3, <1>4 DEF Capture!Check

LEMMA InsideHolds == ASSUME Capture!CaptureAssumption, CaptureInv, NEW c \in Calls, Capture!Inside(c)
PROVE  CaptureInv'
<1>1. threads[c] = "inside" /\ CallFits(step[c], call[c], "inside")
  BY DEF Capture!Inside, CaptureInv, CallsFit
<1>2. CASE Capture!Answers(c, "error", <<0, 0>>)
  BY <1>1, <1>2, AnswersAre DEF Seen
<1>3. CASE threads' = [threads EXCEPT ![c] = "crop"]
             /\ UNCHANGED <<Capture!world, step, call, counter, Capture!deviceVars>>
  <2>1. /\ OnlyThis(c) /\ step'[c] = step[c] /\ threads'[c] = "crop" /\ call'[c] = call[c]
        /\ targets' = targets /\ devices' \in {0, 1} /\ device_lock' \in Calls \cup {Capture!Nothing}
             /\ counter' = counter
    BY <1>3 DEF OnlyThis, CaptureInv, CaptureTypes, Capture!world, Capture!deviceVars
  <2>2. CallFits(step[c], call[c], "crop")
    BY <1>1 DEF CallFits, PrintPlaces
  <2>3. CounterFits'
    BY <1>1, <2>1, SameThreads DEF OnlyThis
  <2> QED BY <2>1, <2>2, <2>3, OneCall
<1> QED BY <1>2, <1>3 DEF Capture!Inside

LEMMA CropHolds == ASSUME Capture!CaptureAssumption, CaptureInv, NEW c \in Calls, Capture!CropPrinted(c)
PROVE  CaptureInv'
<1> DEFINE h == call[c].target
<1>1. threads[c] = "crop" /\ CallFits(step[c], call[c], "crop")
        /\ targets \in [Handles -> Capture!There \cup {Capture!Gone}]
  BY DEF Capture!CropPrinted, CaptureInv, CaptureTypes, CallsFit
<1>2. h \in Handles /\ call[c].size \in Nat /\ call[c].size >= 1
  BY <1>1 DEF CallFits, CallStates
<1> DEFINE area == IF Capture!Alive(h) THEN Capture!CropToFrame(call[c].size, targets[h]) ELSE <<0, call[c].size>>
<1>3. PICK what \in {"picture", "flat"} : Capture!Answers(c, what, area)
  BY DEF Capture!CropPrinted
<1>4. area \in Int \X Int /\ area[1] + area[2] <= call[c].size /\ area[2] >= 1
  <2>1. CASE Capture!Alive(h)
    <3>1. targets[h].size \in Int /\ targets[h].inset \in Int
      BY <1>1, <1>2, <2>1 DEF Capture!Alive, Capture!There
    <3> QED BY <1>2, <2>1, <3>1 DEF Capture!CropToFrame
  <2> QED BY <1>2, <2>1
<1> HIDE DEF area
<1> QED BY <1>1, <1>3, <1>4, AnswersAre DEF Seen

LEMMA KeptIsKept ==
  ASSUME NEW c \in Calls, call[c].printed # "picture"
  PROVE  Capture!KeepsThePrimary(c) \in Seen \cup {"error"}
    /\ (call[c].printed \in Seen => Capture!KeepsThePrimary(c) # "error")
  BY DEF Capture!KeepsThePrimary, Seen

LEMMA FallbackHolds ==
  ASSUME CaptureInv, NEW c \in Calls,
         Capture!PrintOver(c) \/ Capture!Graphics(c) \/ Capture!LockDevices(c) \/ Capture!HaveDevice(c)
  PROVE  CaptureInv'
<1> DEFINE GoesTo(where) == /\ step' = [step EXCEPT ![c] = where] /\ call' = call
                            /\ where = "print_over" \/ step[c] # "wait"
<1>1. /\ CallFits(step[c], call[c], threads[c])
      /\ UNCHANGED <<Capture!world, threads, counter>>
      /\ devices' \in {0, 1} /\ device_lock' \in Calls \cup {Capture!Nothing}
      /\ step[c] \in {"wait", "graphics", "device"}
  BY DEF Capture!PrintOver, Capture!Graphics, Capture!LockDevices, Capture!HaveDevice, Capture!MadeOnce,
     Capture!deviceVars, CaptureInv, CaptureTypes, CallsFit
<1>2. CASE step[c] # "wait" /\ Capture!Ends(c, Capture!KeepsThePrimary(c))
  <2>1. call[c].printed # "picture"
    BY <1>1, <1>2 DEF CallFits
  <2> QED BY <1>1, <1>2, <2>1, KeptIsKept, EndsAre
<1>3. CASE step' = step /\ call' = call
  <2>1. step' = [step EXCEPT ![c] = step[c]]
    BY <1>3 DEF CaptureInv, CaptureTypes
  <2> QED BY <1>1, <1>3, <2>1, Moves
<1>4. \/ step[c] # "wait" /\ Capture!Ends(c, Capture!KeepsThePrimary(c))
      \/ \E where \in {"print_over", "device", "capture"} : GoesTo(where)
      \/ step' = step /\ call' = call
  BY DEF Capture!PrintOver, Capture!Graphics, Capture!LockDevices, Capture!HaveDevice
<1>5. CASE \E where \in {"print_over", "device", "capture"} : GoesTo(where)
  <2>1. PICK where \in {"print_over", "device", "capture"} : GoesTo(where)
    BY <1>5
  <2>2. CallFits(where, call[c], threads[c])
    BY <1>1, <2>1 DEF CallFits, CallPlaces
  <2> QED BY <1>1, <2>1, <2>2, Moves
<1> QED BY <1>2, <1>3, <1>4, <1>5

(* The end with a picture and the method that made it. *)
LEMMA PictureIs ==
  ASSUME CaptureInv, NEW c \in Calls, NEW what \in Seen, NEW how \in {"print", "graphics"},
         step' = [step EXCEPT ![c] = "done"], call' = [call EXCEPT ![c].result = what, ![c].method = how],
         UNCHANGED <<Capture!world, threads, counter, Capture!deviceVars>>
  PROVE  CaptureInv'
<1>1. /\ OnlyThis(c) /\ step'[c] = "done" /\ call'[c] = [call[c] EXCEPT !.result = what, !.method = how]
      /\ threads'[c] = threads[c] /\ targets' = targets /\ devices' \in {0, 1}
           /\ device_lock' \in Calls \cup {Capture!Nothing}
  BY DEF OnlyThis, CaptureInv, CaptureTypes, Capture!world, Capture!deviceVars
<1>2. CallFits(step[c], call[c], threads[c])
  BY DEF CaptureInv, CallsFit
<1> DEFINE k == [call[c] EXCEPT !.result = what, !.method = how]
<1>3. /\ k \in CallStates /\ k.result = what /\ k.printed = call[c].printed /\ k.target = call[c].target
      /\ k.size = call[c].size /\ k.area = call[c].area
  BY <1>2 DEF CallFits, CallStates
<1>4. CallFits("done", k, threads[c])
  <2> HIDE DEF k
  <2> QED BY <1>2, <1>3 DEF CallFits, CallPlaces, Seen
<1>5. CounterFits'
  BY SameThreads
<1> QED BY <1>1, <1>4, <1>5, OneCall

LEMMA JudgeHolds == ASSUME CaptureInv, NEW c \in Calls, Capture!Judge(c) PROVE CaptureInv'
<1>1. /\ step[c] = "print_over" /\ UNCHANGED <<Capture!world, threads, counter, Capture!deviceVars>>
           /\ CallFits("print_over", call[c], threads[c])
      /\ devices' \in {0, 1} /\ device_lock' \in Calls \cup {Capture!Nothing}
  BY DEF Capture!Judge, CaptureInv, CaptureTypes, CallsFit, Capture!deviceVars
<1>2. CASE call[c].printed = "picture"
  BY <1>1, <1>2, PictureIs DEF Capture!Judge, Seen
<1>3. CASE call[c].printed # "picture"
  <2>1. step' = [step EXCEPT ![c] = "graphics"] /\ call' = call
    BY <1>3 DEF Capture!Judge
  <2>2. CallFits("graphics", call[c], threads[c])
    BY <1>1, <1>3 DEF CallFits, CallPlaces
  <2> QED BY <1>1, <2>1, <2>2, Moves
<1> QED BY <1>2, <1>3

LEMMA CaptureHolds == ASSUME CaptureInv, NEW c \in Calls, Capture!Capture(c) PROVE CaptureInv'
<1>1. /\ step[c] = "capture" /\ UNCHANGED <<Capture!world, threads, counter, Capture!deviceVars>>
           /\ CallFits("capture", call[c], threads[c])
      /\ devices' \in {0, 1} /\ device_lock' \in Calls \cup {Capture!Nothing}
  BY DEF Capture!Capture, CaptureInv, CaptureTypes, CallsFit, Capture!deviceVars
<1>2. call[c].printed # "picture"
  BY <1>1 DEF CallFits
<1>3. CASE Capture!Ends(c, Capture!KeepsThePrimary(c))
  BY <1>1, <1>2, <1>3, KeptIsKept, EndsAre
<1>4. ASSUME NEW what \in Seen, step' = [step EXCEPT ![c] = "done"],
             call' = [call EXCEPT ![c].result = what, ![c].method = "graphics"]
      PROVE  CaptureInv'
  BY <1>1, <1>4, PictureIs
<1> QED BY <1>3, <1>4 DEF Capture!Capture, Seen

LEMMA CaptureStep == ASSUME Capture!CaptureAssumption, CaptureInv, Capture!Next PROVE CaptureInv'
  BY ChangesHold, ListHolds, ScreenHolds, AskToPrintHolds, CheckHolds, InsideHolds, CropHolds, FallbackHolds,
     JudgeHolds, CaptureHolds, Zenon DEF Capture!Next

LEMMA CaptureStutter == ASSUME CaptureInv, UNCHANGED captureVars PROVE CaptureInv'
  BY DEF captureVars, CaptureInv, CaptureTypes, CallsFit, CounterFits, Capture!Within

LEMMA CaptureIsRight ==
  ASSUME Capture!CaptureAssumption, CaptureInv
  PROVE  Capture!TypeOK /\ Capture!StuckThreadsAreCounted /\ Capture!CropStaysInside /\ Capture!OneDevice
    /\ Capture!NothingIsLost
<1> USE DEF CaptureInv
<1>1. \A c \in Calls : step[c] \in CallPlaces /\ threads[c] \in PrintPlaces
  BY DEF CallsFit, CallFits
<1>2. counter \in 0 .. Cardinality(Calls)
  <2>1. Cardinality(Calls) \in Nat
    BY SameCount, FS_CardinalityType DEF Capture!CaptureAssumption
  <2> QED BY <2>1, WithinIsFinite DEF CounterFits
<1>3. Capture!TypeOK
  <2>1. step \in [Calls -> CallPlaces] /\ threads \in [Calls -> PrintPlaces]
    BY <1>1 DEF CaptureTypes
  <2> QED BY <1>2, <2>1, SameCount DEF CaptureTypes, Capture!TypeOK, CallPlaces, PrintPlaces
<1>4. Capture!StuckThreadsAreCounted
  BY SameCount DEF CounterFits, Capture!StuckThreadsAreCounted
<1>5. Capture!CropStaysInside
  BY DEF CallsFit, CallFits, Capture!CropStaysInside, Seen
<1>6. Capture!OneDevice
  BY DEF CaptureTypes, Capture!OneDevice
<1>7. Capture!NothingIsLost
  BY DEF CallsFit, CallFits, Capture!NothingIsLost, Seen
<1> QED BY <1>3, <1>4, <1>5, <1>6, <1>7

-----------------------------------------------------------------------------
(* The pictures of a recording: they pass from hand to hand in their order.  *)

GrabScreens == [size : DisplaySizes, picture : Nat]
GrabFrames == [size : DisplaySizes, picture : Nat, texture : DisplaySizes]
Shown == Nat \cup {Blank}
GrabPlaces == {"opening", "sink", "first", "frames", "ended"}

GrabTypes ==
  /\ display \in GrabScreens /\ pool \in Seq(GrabFrames) /\ Len(pool) <= PoolBuffers /\ pool_size \in DisplaySizes
  /\ callback \in GrabFrames \cup {Grab!NoFrame} /\ slot \in GrabFrames \cup {Grab!NoFrame}
  /\ closed \in BOOLEAN /\ arrived \in BOOLEAN /\ grab \in GrabPlaces /\ path \in {"unbound", "gpu", "cpu"}
  /\ crop \in [x : Int, y : Int, width : Int, height : Int]
  /\ latest \in Shown /\ nv12 \in Shown /\ newest \in Shown /\ samples \in Seq(Shown)

(* A picture goes from the screen to the pool, the callback, the slot and    *)
(* the texture, and none overtakes another.                                  *)
Before(p) == p <= display.picture /\ \A k \in DOMAIN pool : p <= pool[k].picture
PoolInOrder ==
  /\ \A k \in DOMAIN pool : pool[k].picture <= display.picture
  /\ \A k, l \in DOMAIN pool : k < l => pool[k].picture <= pool[l].picture
CallbackInOrder == callback # Grab!NoFrame => Before(callback.picture)
SlotInOrder ==
  slot # Grab!NoFrame => Before(slot.picture) /\ (callback # Grab!NoFrame => slot.picture <= callback.picture)
LatestInOrder ==
  latest # Blank => /\ Before(latest)
                    /\ callback # Grab!NoFrame => latest <= callback.picture
                    /\ slot # Grab!NoFrame => latest <= slot.picture
InTurn == PoolInOrder /\ CallbackInOrder /\ SlotInOrder /\ LatestInOrder

(* Every sample is of the texture as it was, and the last of it as it is.    *)
SamplesFit ==
  /\ \A i \in DOMAIN samples : samples[i] # Blank => latest # Blank /\ samples[i] <= latest
  /\ \A i, j \in DOMAIN samples : j < i /\ samples[j] # Blank => samples[i] # Blank /\ samples[j] <= samples[i]
  /\ samples # <<>> => samples[Len(samples)] = latest
  /\ grab \in {"opening", "sink", "first"} => samples = <<>> /\ latest = Blank /\ newest = Blank
  /\ grab = "frames" /\ path = "cpu" => nv12 = latest
  /\ newest # Blank => latest # Blank /\ newest <= latest

GrabInv == GrabTypes /\ InTurn /\ SamplesFit

LEMMA CropIs ==
  ASSUME Grab!GrabAssumption, NEW size \in DisplaySizes
  PROVE  Grab!CropBox(size) \in [x : Int, y : Int, width : Int, height : Int]
<1>1. size[1] \in Int /\ size[2] \in Int /\ AskedRegion.x \in Int /\ AskedRegion.y \in Int
        /\ AskedRegion.width \in Int /\ AskedRegion.height \in Int
  BY DEF Grab!GrabAssumption
<1>2. \A a, b \in Int : Grab!Upper(a, b) \in Int /\ Grab!Lower(a, b) \in Int
  BY DEF Grab!Upper, Grab!Lower
<1>3. \A a \in Int : Grab!EvenDown(a) \in Int
  BY DEF Grab!EvenDown
<1> DEFINE x == Grab!Upper(0, AskedRegion.x)
           y == Grab!Upper(0, AskedRegion.y)
           right == Grab!Lower(AskedRegion.x + AskedRegion.width, size[1])
           bottom == Grab!Lower(AskedRegion.y + AskedRegion.height, size[2])
           width == Grab!EvenDown(Grab!Upper(0, right - x))
           height == Grab!EvenDown(Grab!Upper(0, bottom - y))
<1>4. x \in Int /\ y \in Int
  <2>1. 0 \in Int
    OBVIOUS
  <2> QED BY <1>1, <1>2, <2>1, Zenon
<1>5. right \in Int /\ bottom \in Int
  <2>1. \A a, b \in Int : a + b \in Int
    OBVIOUS
  <2>2. AskedRegion.x + AskedRegion.width \in Int /\ AskedRegion.y + AskedRegion.height \in Int
    BY <1>1, <2>1, Zenon
  <2> QED BY <1>1, <1>2, <2>2, Zenon
<1> HIDE DEF x, y, right, bottom
<1>6. Grab!Upper(0, right - x) \in Int /\ Grab!Upper(0, bottom - y) \in Int
  <2>1. right - x \in Int /\ bottom - y \in Int /\ 0 \in Int
    BY <1>4, <1>5
  <2> QED BY <1>2, <2>1
<1>7. width \in Int /\ height \in Int
  BY <1>3, <1>6
<1>8. Grab!CropBox(size) = [x |-> x, y |-> y, width |-> width, height |-> height]
  BY DEF Grab!CropBox, x, y, right, bottom
<1> HIDE DEF width, height
<1> QED BY <1>4, <1>7, <1>8

LEMMA NoFrameIsNone == ASSUME Grab!GrabAssumption PROVE Grab!NoFrame \notin GrabFrames
<1>1. Grab!NoFrame.picture = Blank
  BY DEF Grab!NoFrame
<1> QED BY <1>1 DEF GrabFrames, Grab!GrabAssumption

LEMMA GrabStarts == ASSUME Grab!GrabAssumption, Grab!StartOfGrab PROVE GrabInv
<1>1. display \in GrabScreens /\ display.size \in DisplaySizes
  BY DEF Grab!StartOfGrab, GrabScreens
<1>2. crop \in [x : Int, y : Int, width : Int, height : Int]
  BY <1>1, CropIs DEF Grab!StartOfGrab
<1>3. /\ pool = <<>> /\ Len(pool) = 0 /\ pool \in Seq(GrabFrames) /\ DOMAIN pool = {} /\ samples = <<>>
      /\ samples \in Seq(Shown) /\ DOMAIN samples = {}
  BY DEF Grab!StartOfGrab
<1>4. GrabTypes
  <2>1. 0 <= PoolBuffers
    BY DEF Grab!GrabAssumption
  <2>2. /\ closed = FALSE /\ pool_size = display.size /\ callback = Grab!NoFrame /\ slot = Grab!NoFrame
             /\ arrived = FALSE
        /\ grab = "opening" /\ path = "unbound" /\ latest = Blank /\ nv12 = Blank /\ newest = Blank
    BY DEF Grab!StartOfGrab
  <2> QED BY <1>1, <1>2, <1>3, <2>1, <2>2 DEF GrabTypes, GrabPlaces, Shown
<1>5. InTurn
  BY <1>3 DEF Grab!StartOfGrab, InTurn, PoolInOrder, CallbackInOrder, SlotInOrder, LatestInOrder
<1>6. SamplesFit
  BY <1>3 DEF Grab!StartOfGrab, SamplesFit
<1> QED BY <1>4, <1>5, <1>6 DEF GrabInv

LEMMA ShowsHolds == ASSUME Grab!GrabAssumption, GrabInv, Grab!Shows PROVE GrabInv'
<1>1. PICK size \in DisplaySizes : display' = [size |-> size, picture |-> display.picture + 1]
  BY DEF Grab!Shows
<1>2. UNCHANGED <<closed, pool_size, callback, slot, arrived, grab, path, crop, latest, nv12, samples, newest>>
  BY DEF Grab!Shows
<1> DEFINE x == Grab!Frame(display', pool_size)
<1>3. /\ display.picture \in Nat /\ display' \in GrabScreens /\ display'.picture = display.picture + 1
      /\ x \in GrabFrames /\ x.picture = display.picture + 1
  BY <1>1 DEF GrabInv, GrabTypes, GrabScreens, GrabFrames, Grab!Frame
<1>4. \/ pool' = pool
      \/ Len(pool) < PoolBuffers /\ pool' = Append(pool, x)
  <2>1. Len(pool) \in Nat
    BY LenProperties DEF GrabInv, GrabTypes
  <2>2. Len(pool) >= PoolBuffers \/ Len(pool) < PoolBuffers
    BY <2>1 DEF Grab!GrabAssumption
  <2> QED BY <2>2 DEF Grab!Shows
<1> HIDE DEF x
<1>5. /\ pool' \in Seq(GrabFrames) /\ Len(pool') <= PoolBuffers
      /\ \A k \in DOMAIN pool' : (k \in DOMAIN pool /\ pool'[k] = pool[k]) \/ (k = Len(pool) + 1
           /\ pool'[k] = x)
      /\ \A k \in DOMAIN pool : k \in Int /\ k < Len(pool) + 1 /\ pool[k].picture \in Nat
      /\ Len(pool) + 1 \in Int
  <2>1. pool \in Seq(GrabFrames) /\ Len(pool) \in Nat /\ DOMAIN pool = 1 .. Len(pool)
    BY LenProperties DEF GrabInv, GrabTypes
  <2>2. \A k \in DOMAIN pool : k \in Int /\ k < Len(pool) + 1 /\ pool[k].picture \in Nat
    <3> SUFFICES ASSUME NEW k \in DOMAIN pool
                 PROVE  k \in Int /\ k < Len(pool) + 1 /\ pool[k].picture \in Nat
      OBVIOUS
    <3>1. pool[k] \in GrabFrames
      BY <2>1, ElementOfSeq
    <3>2. pool[k].picture \in Nat
      BY <3>1 DEF GrabFrames
    <3> QED BY <2>1, <3>2
  <2>3. CASE pool' = pool
    BY <2>1, <2>2, <2>3 DEF GrabInv, GrabTypes
  <2>4. CASE Len(pool) < PoolBuffers /\ pool' = Append(pool, x)
    <3>1. Len(pool') = Len(pool) + 1
      BY <2>1, <2>4, <1>3, AppendProperties
    <3>2. /\ pool' \in Seq(GrabFrames)
          /\ \A k \in DOMAIN pool' : (k \in DOMAIN pool /\ pool'[k] = pool[k]) \/ (k = Len(pool) + 1
               /\ pool'[k] = x)
      BY <2>1, <2>4, <1>3, Appended
    <3>3. Len(pool') <= PoolBuffers
      BY <2>1, <2>4, <3>1 DEF Grab!GrabAssumption
    <3> QED BY <2>1, <2>2, <3>2, <3>3
  <2> QED BY <1>4, <2>3, <2>4
<1>6. ASSUME NEW p \in Nat, Before(p) PROVE Before(p)'
  BY <1>3, <1>5, <1>6 DEF Before
<1>7. /\ callback # Grab!NoFrame => callback.picture \in Nat
      /\ slot # Grab!NoFrame => slot.picture \in Nat
      /\ latest # Blank => latest \in Nat
  BY DEF GrabInv, GrabTypes, GrabFrames, Shown
<1>8. PoolInOrder'
  <2>1. \A k \in DOMAIN pool : pool[k].picture <= display.picture /\ pool[k].picture <= display'.picture
    BY <1>3, <1>5 DEF GrabInv, InTurn, PoolInOrder
  <2>2. \A k \in DOMAIN pool' : pool'[k].picture <= display'.picture
    BY <1>3, <1>5, <2>1
  <2>3. ASSUME NEW k \in DOMAIN pool', NEW l \in DOMAIN pool', k < l PROVE pool'[k].picture <= pool'[l].picture
    <3>1. CASE l = Len(pool) + 1 /\ pool'[l] = x
      BY <1>3, <2>2, <3>1
    <3>2. CASE l \in DOMAIN pool /\ pool'[l] = pool[l]
      <4>1. k \in DOMAIN pool /\ pool'[k] = pool[k]
        BY <1>5, <2>3, <3>2
      <4> QED BY <2>3, <3>2, <4>1 DEF GrabInv, InTurn, PoolInOrder
    <3> QED BY <1>5, <3>1, <3>2
  <2> QED BY <2>2, <2>3 DEF PoolInOrder
<1>9. InTurn'
  BY <1>2, <1>6, <1>7, <1>8 DEF GrabInv, InTurn, CallbackInOrder, SlotInOrder, LatestInOrder
<1>10. GrabTypes'
  BY <1>2, <1>3, <1>5 DEF GrabInv, GrabTypes
<1>11. SamplesFit'
  BY <1>2 DEF GrabInv, SamplesFit
<1> QED BY <1>9, <1>10, <1>11 DEF GrabInv

LEMMA TakesHolds == ASSUME Grab!GrabAssumption, GrabInv, Grab!TakesFromPool PROVE GrabInv'
<1> USE DEF Grab!TakesFromPool
<1>1. /\ pool # <<>> /\ callback = Grab!NoFrame /\ callback' = Head(pool) /\ pool' = Tail(pool)
      /\ UNCHANGED <<display, closed, pool_size, slot, arrived, grab, path, crop, latest, nv12, samples, newest>>
  OBVIOUS
<1>2. /\ callback' = pool[1] /\ callback' \in GrabFrames /\ 1 \in DOMAIN pool /\ pool' \in Seq(GrabFrames)
      /\ \A k \in DOMAIN pool : k \in Int /\ k >= 1
      /\ \A k \in DOMAIN pool' : k + 1 \in DOMAIN pool /\ pool'[k] = pool[k + 1] /\ k \in Int /\ k + 1 # 1
  BY <1>1, HeadTaken DEF GrabInv, GrabTypes
<1>3. Len(pool') <= PoolBuffers
  <2>1. pool \in Seq(GrabFrames) /\ Len(pool) \in Nat
    BY LenProperties DEF GrabInv, GrabTypes
  <2>2. Len(pool') = Len(pool) - 1
    BY <1>1, <2>1, HeadTailProperties
  <2> QED BY <2>1, <2>2 DEF GrabInv, GrabTypes, Grab!GrabAssumption
<1>4. \A p : Before(p) => Before(p)' /\ p <= callback'.picture
  BY <1>1, <1>2 DEF Before
<1>5. PoolInOrder' /\ CallbackInOrder'
  <2>1. \A k \in DOMAIN pool' : 1 < k + 1
    BY <1>2
  <2>2. \A k, l \in DOMAIN pool' : k < l => k + 1 < l + 1
    BY <1>2
  <2> QED BY <1>1, <1>2, <2>1, <2>2 DEF GrabInv, InTurn, PoolInOrder, CallbackInOrder, Before
<1>6. SlotInOrder' /\ LatestInOrder'
  BY <1>1, <1>4 DEF GrabInv, InTurn, SlotInOrder, LatestInOrder
<1>7. GrabTypes'
  BY <1>1, <1>2, <1>3 DEF GrabInv, GrabTypes
<1>8. SamplesFit'
  BY <1>1 DEF GrabInv, SamplesFit
<1> QED BY <1>5, <1>6, <1>7, <1>8 DEF GrabInv, InTurn

LEMMA PutsHolds == ASSUME Grab!GrabAssumption, GrabInv, Grab!PutsIntoSlot PROVE GrabInv'
<1>1. /\ callback # Grab!NoFrame /\ slot' = callback /\ callback' = Grab!NoFrame /\ arrived' = TRUE
      /\ UNCHANGED <<display, closed, pool, pool_size, grab, path, crop, latest, nv12, samples, newest>>
  BY DEF Grab!PutsIntoSlot
<1>2. GrabTypes'
  BY <1>1 DEF GrabInv, GrabTypes
<1>3. InTurn'
  BY <1>1 DEF GrabInv, InTurn, PoolInOrder, CallbackInOrder, SlotInOrder, LatestInOrder, Before
<1>4. SamplesFit'
  BY <1>1 DEF GrabInv, SamplesFit
<1> QED BY <1>2, <1>3, <1>4 DEF GrabInv

LEMMA StartCaptureHolds == ASSUME Grab!GrabAssumption, GrabInv, Grab!StartCapture PROVE GrabInv'
<1>1. /\ grab = "opening" /\ grab' \in {"sink", "ended"}
      /\ UNCHANGED <<display, closed, callback, slot, arrived, path, latest, nv12, samples, newest>>
  BY DEF Grab!StartCapture
<1> DEFINE x == Grab!Frame(display, display.size)
<1>2. /\ pool' = <<x>> \/ pool' = pool
      /\ \/ crop' = Grab!CropBox(display.size) /\ pool_size' = display.size
         \/ UNCHANGED <<crop, pool_size>>
  BY DEF Grab!StartCapture
<1>3. /\ display.size \in DisplaySizes /\ display.picture \in Nat
      /\ x \in GrabFrames /\ x.picture = display.picture
  BY DEF GrabInv, GrabTypes, GrabScreens, GrabFrames, Grab!Frame
<1> HIDE DEF x
<1>4. crop' \in [x : Int, y : Int, width : Int, height : Int] /\ pool_size' \in DisplaySizes
  BY <1>2, <1>3, CropIs DEF GrabInv, GrabTypes
<1>5. /\ <<x>> \in Seq(GrabFrames) /\ Len(<<x>>) = 1 /\ DOMAIN <<x>> = {1}
           /\ <<x>>[1] = x
  BY <1>3
<1>6. pool' \in Seq(GrabFrames) /\ Len(pool') <= PoolBuffers
  <2>1. 1 <= PoolBuffers
    BY DEF Grab!GrabAssumption
  <2> QED BY <1>2, <1>5, <2>1 DEF GrabInv, GrabTypes
<1>7. GrabTypes'
  BY <1>1, <1>4, <1>6 DEF GrabInv, GrabTypes, GrabPlaces
<1>8. \A p : Before(p) => Before(p)'
  BY <1>1, <1>2, <1>3, <1>5 DEF Before
<1>9. PoolInOrder'
  BY <1>1, <1>2, <1>3, <1>5 DEF GrabInv, InTurn, PoolInOrder
<1>10. InTurn'
  BY <1>1, <1>8, <1>9 DEF GrabInv, InTurn, CallbackInOrder, SlotInOrder, LatestInOrder
<1>11. SamplesFit'
  <2>1. samples = <<>> /\ latest = Blank /\ newest = Blank /\ DOMAIN samples = {}
    BY <1>1 DEF GrabInv, SamplesFit
  <2> QED BY <1>1, <2>1 DEF SamplesFit
<1> QED BY <1>7, <1>10, <1>11 DEF GrabInv

(* The newest picture goes from the slot to the texture, or there is none.   *)
LEMMA RefreshHolds ==
  ASSUME Grab!GrabAssumption, GrabInv, Grab!Refresh,
         UNCHANGED <<display, closed, callback, arrived, path, crop>>,
         grab \in {"first", "frames"}, grab' = "frames", nv12' \in Shown, path = "cpu" => nv12' = latest',
         samples' = samples \/ (grab = "frames" /\ samples' = Append(samples, latest')), grab = "first"
           => samples' = samples,
         grab = "frames" => samples' # samples
  PROVE  GrabInv'
<1>1. /\ slot' = Grab!NoFrame
      /\ pool' = pool \/ pool' = <<>>
      /\ \/ slot = Grab!NoFrame /\ UNCHANGED <<pool_size, latest, newest>>
         \/ /\ slot # Grab!NoFrame /\ pool_size' = slot.size
            /\ \/ latest' = slot.picture /\ newest' \in {newest, slot.picture}
               \/ latest' = latest /\ newest' = newest
  BY DEF Grab!Refresh, Grab!Recreates
<1>2. slot # Grab!NoFrame => slot.size \in DisplaySizes /\ slot.picture \in Nat
  BY DEF GrabInv, GrabTypes, GrabFrames
<1>3. pool_size' \in DisplaySizes /\ latest' \in Shown /\ newest' \in Shown /\ latest \in Shown /\ newest \in Shown
        /\ samples \in Seq(Shown)
  BY <1>1, <1>2 DEF GrabInv, GrabTypes, Shown
<1>4. /\ samples' \in Seq(Shown)
      /\ \A k \in DOMAIN samples' :
           \/ k \in DOMAIN samples /\ samples'[k] = samples[k] /\ k \in Int /\ k < Len(samples) + 1
           \/ k = Len(samples) + 1 /\ samples'[k] = latest'
      /\ Len(samples) + 1 \in Int
      /\ grab = "frames" => samples'[Len(samples')] = latest'
      /\ grab = "first" => samples' = <<>>
  <2>1. CASE grab = "first"
    <3>1. samples = <<>> /\ samples' = <<>> /\ DOMAIN samples' = {} /\ Len(samples) = 0
      BY <2>1 DEF GrabInv, SamplesFit
    <3> QED BY <1>3, <2>1, <3>1
  <2>2. CASE grab = "frames"
    <3>1. samples' = Append(samples, latest')
      BY <2>2
    <3>2. Len(samples') = Len(samples) + 1 /\ samples'[Len(samples) + 1] = latest'
      BY <1>3, <3>1, AppendProperties
    <3>3. /\ samples' \in Seq(Shown)
          /\ \A k \in DOMAIN samples' : \/ k \in DOMAIN samples /\ samples'[k] = samples[k]
                                        \/ k = Len(samples) + 1 /\ samples'[k] = latest'
          /\ \A k \in DOMAIN samples : k \in Int /\ k < Len(samples) + 1
          /\ Len(samples) + 1 \in Int
      BY <1>3, <3>1, Appended
    <3> QED BY <2>2, <3>2, <3>3
  <2> QED BY <2>1, <2>2
<1>5. latest # Blank => latest' # Blank /\ latest' \in Nat /\ latest \in Nat /\ latest <= latest'
  BY <1>1, <1>2, <1>3 DEF Shown, GrabInv, InTurn, LatestInOrder, Grab!GrabAssumption
<1>10. /\ pool' \in Seq(GrabFrames) /\ Len(pool') <= PoolBuffers
       /\ \A k \in DOMAIN pool' : k \in DOMAIN pool /\ pool'[k] = pool[k]
  <2>1. CASE pool' = <<>>
    <3>1. pool' \in Seq(GrabFrames) /\ DOMAIN pool' = {} /\ Len(pool') = 0 /\ 0 <= PoolBuffers
      BY <2>1 DEF Grab!GrabAssumption
    <3> QED BY <3>1
  <2>2. CASE pool' = pool
    BY <2>2 DEF GrabInv, GrabTypes
  <2> QED BY <1>1, <2>1, <2>2
<1>6. GrabTypes'
  BY <1>1, <1>3, <1>4, <1>10 DEF GrabInv, GrabTypes, GrabPlaces
<1>11. \A p : Before(p) => Before(p)'
  BY <1>10 DEF Before
<1>7. PoolInOrder' /\ CallbackInOrder' /\ SlotInOrder'
  <2>1. PoolInOrder'
    BY <1>10 DEF GrabInv, InTurn, PoolInOrder
  <2> QED BY <1>1, <1>11, <2>1 DEF GrabInv, InTurn, CallbackInOrder, SlotInOrder
<1>8. LatestInOrder'
  BY <1>1, <1>11 DEF GrabInv, InTurn, LatestInOrder, SlotInOrder
<1>9. SamplesFit'
  <2>1. \A i \in DOMAIN samples : samples[i] # Blank => samples[i] \in Nat /\ latest # Blank /\ samples[i] <= latest
    BY <1>3 DEF GrabInv, SamplesFit, Shown
  <2>2. \A i \in DOMAIN samples : samples[i] # Blank => latest' # Blank /\ samples[i] <= latest'
    BY <1>5, <2>1
  <2>3. \A i \in DOMAIN samples' : samples'[i] # Blank => latest' # Blank /\ samples'[i] <= latest'
    <3>1. latest' # Blank => latest' \in Nat /\ latest' <= latest'
      BY <1>3 DEF Shown
    <3> QED BY <1>4, <2>2, <3>1
  <2>4. \A i, j \in DOMAIN samples' : j < i /\ samples'[j] # Blank => samples'[i] # Blank
          /\ samples'[j] <= samples'[i]
    <3> SUFFICES ASSUME NEW i \in DOMAIN samples', NEW j \in DOMAIN samples', j < i, samples'[j] # Blank
                 PROVE  samples'[i] # Blank /\ samples'[j] <= samples'[i]
      OBVIOUS
    <3>1. CASE i \in DOMAIN samples /\ samples'[i] = samples[i] /\ i \in Int /\ i < Len(samples) + 1
      <4>1. j \in DOMAIN samples /\ samples'[j] = samples[j]
        BY <1>4, <3>1
      <4> QED BY <3>1, <4>1 DEF GrabInv, SamplesFit
    <3>2. CASE i = Len(samples) + 1 /\ samples'[i] = latest'
      BY <2>3, <3>2
    <3> QED BY <1>4, <3>1, <3>2
  <2>5. newest' # Blank => latest' # Blank /\ newest' <= latest'
    <3>1. newest # Blank => latest # Blank /\ newest \in Nat /\ newest <= latest
      BY <1>3 DEF GrabInv, SamplesFit, Shown
    <3>2. slot # Grab!NoFrame => slot.picture # Blank /\ slot.picture <= slot.picture
      BY <1>2 DEF Grab!GrabAssumption
    <3> QED BY <1>1, <1>5, <3>1, <3>2
  <2>6. samples' # <<>> => samples'[Len(samples')] = latest'
    BY <1>4
  <2> QED BY <2>3, <2>4, <2>5, <2>6 DEF SamplesFit
<1> QED BY <1>6, <1>7, <1>8, <1>9 DEF GrabInv, InTurn

LEMMA FirstHolds == ASSUME Grab!GrabAssumption, GrabInv, Grab!FirstFrame PROVE GrabInv'
<1>1. grab = "first" /\ UNCHANGED <<display, closed, callback, arrived, path, crop, samples>>
  BY DEF Grab!FirstFrame
<1>2. CASE Grab!Refresh /\ Grab!ConvertsFirst /\ grab' = "frames"
  <2>1. (path = "cpu" => nv12' = latest') /\ (nv12' = nv12 \/ nv12' = latest')
    BY <1>2 DEF Grab!ConvertsFirst
  <2>2. latest' \in Shown
    BY <1>2 DEF Grab!Refresh, GrabInv, GrabTypes, Shown, GrabFrames
  <2>3. nv12' \in Shown
    BY <2>1, <2>2 DEF GrabInv, GrabTypes
  <2> QED BY <1>1, <1>2, <2>1, <2>3, RefreshHolds
<1>3. CASE grab' = "ended" /\ UNCHANGED <<slot, pool, pool_size, latest, nv12, newest>>
  BY <1>1, <1>3 DEF GrabInv, GrabTypes, GrabPlaces, InTurn, PoolInOrder, CallbackInOrder, SlotInOrder, LatestInOrder,
                    Before, SamplesFit
<1> QED BY <1>2, <1>3 DEF Grab!FirstFrame

LEMMA NextFrameHolds == ASSUME Grab!GrabAssumption, GrabInv, Grab!NextFrame PROVE GrabInv'
<1>1. grab = "frames" /\ grab' = "frames" /\ Grab!Refresh
        /\ UNCHANGED <<display, closed, callback, arrived, path, crop>>
  BY DEF Grab!NextFrame
<1>2. nv12' = (IF path = "cpu" /\ slot # Grab!NoFrame THEN latest' ELSE nv12)
        /\ samples' = Append(samples, IF path = "cpu" THEN nv12' ELSE latest')
  BY DEF Grab!NextFrame
<1>3. path = "cpu" => nv12' = latest'
  BY <1>1, <1>2 DEF Grab!Refresh, GrabInv, SamplesFit
<1>4. samples' = Append(samples, latest')
  BY <1>2, <1>3
<1>5. latest' \in Shown /\ nv12' \in Shown
  BY <1>1, <1>2 DEF Grab!Refresh, GrabInv, GrabTypes, Shown, GrabFrames
<1>6. samples' # samples
  <2>1. samples \in Seq(Shown) /\ Len(samples) \in Nat
    BY LenProperties DEF GrabInv, GrabTypes
  <2>2. Len(samples') = Len(samples) + 1
    BY <1>4, <1>5, <2>1, AppendProperties
  <2> QED BY <2>1, <2>2
<1> QED BY <1>1, <1>3, <1>4, <1>5, <1>6, RefreshHolds

LEMMA OtherGrabHolds ==
  ASSUME Grab!GrabAssumption, GrabInv, Grab!Goes \/ Grab!OpenSink \/ Grab!NoFirstFrame \/ Grab!Ends
  PROVE  GrabInv'
<1> USE DEF GrabInv, GrabTypes, GrabPlaces, InTurn, PoolInOrder, CallbackInOrder, SlotInOrder, LatestInOrder,
            Before, SamplesFit
<1>1. CASE Grab!Goes
  BY <1>1 DEF Grab!Goes
<1>2. CASE Grab!OpenSink
  BY <1>2 DEF Grab!OpenSink
<1>3. CASE Grab!NoFirstFrame
  BY <1>3 DEF Grab!NoFirstFrame
<1>4. CASE Grab!Ends
  <2>1. pool' = <<>> /\ pool' \in Seq(GrabFrames) /\ DOMAIN pool' = {} /\ Len(pool') = 0 /\ Len(pool') <= PoolBuffers
    BY <1>4 DEF Grab!Ends, Grab!GrabAssumption
  <2> QED BY <1>4, <2>1 DEF Grab!Ends
<1> QED BY <1>1, <1>2, <1>3, <1>4

LEMMA GrabStep == ASSUME Grab!GrabAssumption, GrabInv, Grab!GrabNext PROVE GrabInv'
  BY ShowsHolds, TakesHolds, PutsHolds, StartCaptureHolds, FirstHolds, NextFrameHolds, OtherGrabHolds
  DEF Grab!GrabNext

LEMMA GrabStutter == ASSUME GrabInv, UNCHANGED grabVars PROVE GrabInv'
  BY DEF grabVars, GrabInv, GrabTypes, InTurn, PoolInOrder, CallbackInOrder, SlotInOrder, LatestInOrder,
         Before, SamplesFit

LEMMA GrabIsRight == ASSUME Grab!GrabAssumption, GrabInv PROVE Grab!GrabTypeOK /\ Grab!SamplesAreTheScreen
<1>1. Grab!GrabTypeOK
  <2>1. display.size \in DisplaySizes /\ pool_size \in DisplaySizes
    BY DEF GrabInv, GrabTypes, GrabScreens
  <2>2. closed \in BOOLEAN /\ arrived \in BOOLEAN
    BY Zenon DEF GrabInv, GrabTypes
  <2>3. {closed, arrived} \subseteq BOOLEAN
    BY <2>2, Zenon
  <2>4. grab \in GrabPlaces /\ path \in {"unbound", "gpu", "cpu"} /\ Len(pool) <= PoolBuffers
    BY DEF GrabInv, GrabTypes
  <2> QED BY <2>1, <2>3, <2>4, Zenon DEF Grab!GrabTypeOK, GrabPlaces
<1> QED BY <1>1 DEF Grab!SamplesAreTheScreen, GrabInv, SamplesFit

-----------------------------------------------------------------------------
(* The way of a frame into its file: notices, room and frames, in order.     *)

(* n notices of a kind wait in a queue, before whatever stops it.            *)
Positions(q, n, what, stop, f) ==
  /\ \A k \in 1 .. n : f[k] \in DOMAIN q /\ q[f[k]] = what
  /\ \A k, l \in 1 .. n : k < l => f[k] < f[l]
  /\ \A k \in 1 .. n : \A j \in DOMAIN q : q[j] = stop => f[k] < j
Wait(q, n, what, stop) == \E f \in [1 .. n -> Int] : Positions(q, n, what, stop, f)

Notices == {"need", "have", "drained", "error"}

LEMMA NoneWaits == ASSUME NEW q, NEW what, NEW stop PROVE Wait(q, 0, what, stop)
<1>1. 1 .. 0 = {}
  OBVIOUS
<1>2. [k \in 1 .. 0 |-> 0] \in [1 .. 0 -> Int]
  BY <1>1
<1> QED BY <1>1, <1>2 DEF Wait, Positions

LEMMA SomeWaits ==
  ASSUME NEW q \in Seq(Notices), NEW n \in Nat, n > 0, NEW what, NEW stop, Wait(q, n, what, stop)
  PROVE  q # <<>> /\ \E j \in DOMAIN q : q[j] = what
<1>1. PICK f \in [1 .. n -> Int] : Positions(q, n, what, stop, f)
  BY DEF Wait
<1>2. f[1] \in DOMAIN q /\ q[f[1]] = what
  BY <1>1 DEF Positions
<1> QED BY <1>2

LEMMA FewerWait ==
  ASSUME NEW q, NEW n \in Nat, NEW m \in Nat, m <= n, NEW what, NEW stop, Wait(q, n, what, stop)
  PROVE  Wait(q, m, what, stop)
<1>1. PICK f \in [1 .. n -> Int] : Positions(q, n, what, stop, f)
  BY DEF Wait
<1> DEFINE g == [k \in 1 .. m |-> f[k]]
<1>2. /\ 1 .. m \subseteq 1 .. n /\ g \in [1 .. m -> Int]
      /\ \A k \in 1 .. m : g[k] = f[k]
  OBVIOUS
<1> HIDE DEF g
<1>3. Positions(q, m, what, stop, g)
  BY <1>1, <1>2 DEF Positions
<1> QED BY <1>2, <1>3 DEF Wait

(* A notice that comes after them, and one with which there is one more.     *)
LEMMA OthersComes ==
  ASSUME NEW q \in Seq(Notices), NEW e \in Notices, NEW n \in Nat, NEW what, NEW stop, Wait(q, n, what, stop)
  PROVE  Wait(Append(q, e), n, what, stop)
<1>1. PICK f \in [1 .. n -> Int] : Positions(q, n, what, stop, f)
  BY DEF Wait
<1> DEFINE r == Append(q, e)
<1>2. /\ \A k \in DOMAIN r : (k \in DOMAIN q /\ r[k] = q[k]) \/ (k = Len(q) + 1 /\ r[k] = e)
      /\ \A k \in DOMAIN q : k \in DOMAIN r /\ r[k] = q[k] /\ k \in Int /\ k < Len(q) + 1
  BY Appended
<1> HIDE DEF r
<1>3. Positions(r, n, what, stop, f)
  BY <1>1, <1>2 DEF Positions
<1> QED BY <1>3 DEF Wait, r

LEMMA OneMoreWaits ==
  ASSUME NEW q \in Seq(Notices), NEW n \in Nat, NEW what \in Notices, NEW stop, what # stop,
         \A j \in DOMAIN q : q[j] # stop, Wait(q, n, what, stop)
  PROVE  Wait(Append(q, what), n + 1, what, stop)
<1>1. PICK f \in [1 .. n -> Int] : Positions(q, n, what, stop, f)
  BY DEF Wait
<1> DEFINE r == Append(q, what)
           g == [k \in 1 .. n + 1 |-> IF k = n + 1 THEN Len(q) + 1 ELSE f[k]]
<1>2. /\ \A k \in DOMAIN r : (k \in DOMAIN q /\ r[k] = q[k]) \/ (k = Len(q) + 1 /\ r[k] = what)
      /\ \A k \in DOMAIN q : k \in DOMAIN r /\ r[k] = q[k] /\ k \in Int /\ k < Len(q) + 1
      /\ Len(q) + 1 \in DOMAIN r /\ r[Len(q) + 1] = what /\ Len(q) + 1 \in Int
  BY Appended
<1>3. /\ \A k \in 1 .. n + 1 : k = n + 1 \/ k \in 1 .. n
      /\ \A k, l \in 1 .. n + 1 : k < l => k \in 1 .. n
      /\ n + 1 \in 1 .. n + 1 /\ n + 1 \notin 1 .. n /\ 1 .. n \subseteq 1 .. n + 1
  OBVIOUS
<1>4. g[n + 1] = Len(q) + 1 /\ \A k \in 1 .. n : g[k] = f[k]
  BY <1>3
<1>5. g \in [1 .. n + 1 -> Int]
  BY <1>2, <1>3
<1> HIDE DEF g, r
<1>6. Positions(r, n + 1, what, stop, g)
  <2>1. \A k \in 1 .. n + 1 : g[k] \in DOMAIN r /\ r[g[k]] = what
    BY <1>1, <1>2, <1>3, <1>4 DEF Positions
  <2>2. ASSUME NEW k \in 1 .. n + 1, NEW l \in 1 .. n + 1, k < l PROVE g[k] < g[l]
    <3>1. k \in 1 .. n /\ g[k] = f[k] /\ f[k] \in DOMAIN q
      BY <1>1, <1>3, <1>4, <2>2 DEF Positions
    <3>2. CASE l = n + 1
      BY <1>2, <1>4, <3>1, <3>2
    <3>3. CASE l \in 1 .. n
      BY <1>1, <1>4, <2>2, <3>1, <3>3 DEF Positions
    <3> QED BY <1>3, <3>2, <3>3
  <2>3. \A k \in 1 .. n + 1 : \A j \in DOMAIN r : r[j] = stop => g[k] < j
    BY <1>2
  <2> QED BY <2>1, <2>2, <2>3 DEF Positions
<1> QED BY <1>5, <1>6 DEF Wait, r

(* The first notice goes: it is one of them, or none.                        *)
LEMMA FirstGoes ==
  ASSUME NEW q \in Seq(Notices), q # <<>>, NEW n \in Nat, n > 0, NEW what, NEW stop, Wait(q, n, what, stop)
  PROVE  Wait(Tail(q), n - 1, what, stop)
<1>1. PICK f \in [1 .. n -> Int] : Positions(q, n, what, stop, f)
  BY DEF Wait
<1> DEFINE r == Tail(q)
           g == [k \in 1 .. n - 1 |-> f[k + 1] - 1]
<1>2. /\ \A k \in DOMAIN q : k \in Int /\ k >= 1
      /\ \A k \in DOMAIN r : k + 1 \in DOMAIN q /\ r[k] = q[k + 1] /\ k \in Int
      /\ \A k \in DOMAIN q \ {1} : k - 1 \in DOMAIN r /\ r[k - 1] = q[k]
  BY HeadTaken
<1>3. \A k \in 1 .. n - 1 : /\ k + 1 \in 1 .. n /\ k \in 1 .. n /\ f[k + 1] \in Int /\ k \in Int
                            /\ g[k] = f[k + 1] - 1 /\ g[k] + 1 = f[k + 1] /\ g[k] \in Int
  OBVIOUS
<1>4. g \in [1 .. n - 1 -> Int]
  BY <1>3
<1>5. \A k \in 1 .. n - 1 : f[k + 1] \in DOMAIN q \ {1}
  <2> SUFFICES ASSUME NEW k \in 1 .. n - 1 PROVE f[k + 1] \in DOMAIN q \ {1}
    OBVIOUS
  <2>1. 1 \in 1 .. n /\ k + 1 \in 1 .. n /\ 1 < k + 1
    BY <1>3
  <2>2. f[1] \in DOMAIN q /\ f[k + 1] \in DOMAIN q /\ f[1] < f[k + 1]
    BY <1>1, <2>1 DEF Positions
  <2> QED BY <1>2, <2>2
<1> HIDE DEF g, r
<1>6. Positions(r, n - 1, what, stop, g)
  <2>1. \A k \in 1 .. n - 1 : g[k] \in DOMAIN r /\ r[g[k]] = what
    BY <1>1, <1>2, <1>3, <1>5 DEF Positions
  <2>2. \A k, l \in 1 .. n - 1 : k < l => g[k] < g[l]
    BY <1>1, <1>3 DEF Positions
  <2>3. \A k \in 1 .. n - 1 : \A j \in DOMAIN r : r[j] = stop => g[k] < j
    <3> SUFFICES ASSUME NEW k \in 1 .. n - 1, NEW j \in DOMAIN r, r[j] = stop PROVE g[k] < j
      OBVIOUS
    <3>1. f[k + 1] < j + 1
      BY <1>1, <1>2, <1>3 DEF Positions
    <3> QED BY <1>2, <1>3, <3>1
  <2> QED BY <2>1, <2>2, <2>3 DEF Positions
<1> QED BY <1>4, <1>6 DEF Wait, r

LEMMA AnotherGoes ==
  ASSUME NEW q \in Seq(Notices), q # <<>>, NEW n \in Nat, NEW what, NEW stop, Head(q) # what, Wait(q, n, what, stop)
  PROVE  Wait(Tail(q), n, what, stop)
<1>1. PICK f \in [1 .. n -> Int] : Positions(q, n, what, stop, f)
  BY DEF Wait
<1> DEFINE r == Tail(q)
           g == [k \in 1 .. n |-> f[k] - 1]
<1>2. /\ \A k \in DOMAIN q : k \in Int /\ k >= 1
      /\ \A k \in DOMAIN r : k + 1 \in DOMAIN q /\ r[k] = q[k + 1] /\ k \in Int
      /\ \A k \in DOMAIN q \ {1} : k - 1 \in DOMAIN r /\ r[k - 1] = q[k]
      /\ Head(q) = q[1]
  BY HeadTaken
<1>3. \A k \in 1 .. n : f[k] \in Int /\ g[k] = f[k] - 1 /\ g[k] + 1 = f[k] /\ g[k] \in Int
  OBVIOUS
<1>4. g \in [1 .. n -> Int]
  BY <1>3
<1>5. \A k \in 1 .. n : f[k] \in DOMAIN q \ {1}
  BY <1>1, <1>2 DEF Positions
<1> HIDE DEF g, r
<1>6. Positions(r, n, what, stop, g)
  <2>1. \A k \in 1 .. n : g[k] \in DOMAIN r /\ r[g[k]] = what
    BY <1>1, <1>2, <1>3, <1>5 DEF Positions
  <2>2. \A k, l \in 1 .. n : k < l => g[k] < g[l]
    BY <1>1, <1>3 DEF Positions
  <2>3. \A k \in 1 .. n : \A j \in DOMAIN r : r[j] = stop => g[k] < j
    <3> SUFFICES ASSUME NEW k \in 1 .. n, NEW j \in DOMAIN r, r[j] = stop PROVE g[k] < j
      OBVIOUS
    <3>1. f[k] < j + 1
      BY <1>1, <1>2, <1>3 DEF Positions
    <3> QED BY <1>2, <1>3, <3>1
  <2> QED BY <2>1, <2>2, <2>3 DEF Positions
<1> QED BY <1>4, <1>6 DEF Wait, r

(* What stops it comes first: then none waits before it.                     *)
LEMMA NoneBefore ==
  ASSUME NEW q \in Seq(Notices), q # <<>>, NEW n \in Nat, NEW what, Wait(q, n, what, Head(q))
  PROVE  n = 0
<1>1. PICK f \in [1 .. n -> Int] : Positions(q, n, what, Head(q), f)
  BY DEF Wait
<1>2. Head(q) = q[1] /\ 1 \in DOMAIN q /\ \A k \in DOMAIN q : k \in Int /\ k >= 1
  BY HeadTaken
<1>3. n > 0 => f[1] \in DOMAIN q /\ f[1] < 1
  BY <1>1, <1>2 DEF Positions
<1> QED BY <1>2, <1>3

-----------------------------------------------------------------------------
Streaming == {"run", "stopped", "drain", "drain_failed"}
Dropping == {"drop", "drop_soft", "drop_failed"}
Holding == Streaming \cup Dropping
StreamPlaces == {"start", "software", "begin", "done", "done_with_a_problem"} \cup Holding
EncFrames == [of : Sessions, n : Nat, trial : BOOLEAN, key : BOOLEAN]
Transforms ==
  [room : Nat, inside : Seq(EncFrames), ready : Seq(EncFrames), events : Seq(Notices), streaming : BOOLEAN,
   draining : BOOLEAN, force : BOOLEAN, used : BOOLEAN]
Streams ==
  [pc : StreamPlaces, encoder : Encoding!Encoders \cup {NoEncoder}, trial : BOOLEAN, need : Nat, at_start : BOOLEAN,
   sent : Nat, outputs : Nat, streaming : BOOLEAN]

EncTypes ==
  /\ kept \in Encoding!Encoders \cup {NoEncoder} /\ activated \in 0 .. MaxEncoders
  /\ in_use \in [Encoding!Encoders -> BOOLEAN] /\ broken \in [Encoding!Encoders -> BOOLEAN]
  /\ transform \in [Encoding!Encoders -> Transforms] /\ recordings \in [Sessions -> Streams]
  /\ file \in [Sessions -> Seq(EncFrames)]

(* What a stream has sent is in the file, ready or inside, in its order.     *)
FrameFits(x, s, trial, n) == x.of = s /\ x.trial = trial /\ x.n = n /\ (n = 1 => x.key = TRUE)
FramesFit(s, k, t, f) ==
  /\ k.outputs + Len(t.ready) + Len(t.inside) = k.sent
  /\ k.trial = FALSE => Len(f) = k.outputs
  /\ \A i \in DOMAIN t.ready : FrameFits(t.ready[i], s, k.trial, k.outputs + i)
  /\ \A i \in DOMAIN t.inside : FrameFits(t.inside[i], s, k.trial, k.outputs + Len(t.ready) + i)
  /\ k.sent = 0 => k.at_start = TRUE \/ t.force = TRUE

(* Every frame that is ready has its notice, before that of the end; and the *)
(* room the encoder has was asked for.                                       *)
NoDrained(q) == \A j \in DOMAIN q : q[j] # "drained"
RoomAsked(k, t) == \E n \in Nat : Wait(t.events, n, "need", "never") /\ t.room <= k.need + n
NoticesFit(k, t) ==
  /\ Wait(t.events, Len(t.ready), "have", "drained")
  /\ NoDrained(t.events) \/ t.inside = <<>>
  /\ k.pc = "run" => t.draining = FALSE /\ NoDrained(t.events) /\ RoomAsked(k, t)

FileFits(s, f) == \A i \in DOMAIN f : FrameFits(f[i], s, FALSE, i)
StreamFits(s, k, t, f) ==
  /\ FileFits(s, f)
  /\ k.pc \in {"start", "begin"} \/ k.trial = TRUE => f = <<>>
  /\ k.pc \in {"drop", "done"} /\ k.trial = FALSE => Len(f) = k.sent
  /\ k.pc \in Streaming => FramesFit(s, k, t, f) /\ NoticesFit(k, t)

(* A session by where it is holds an encoder, and no two hold the same.      *)
Holds(s) == recordings[s].pc \in Holding
NoOther(s, e) == \A r \in Sessions : r # s /\ Holds(r) => recordings[r].encoder # e
HandsFit ==
  /\ \A s \in Sessions : Holds(s) \/ recordings[s].pc = "begin" => recordings[s].encoder \in Encoding!Encoders
  /\ \A s \in Sessions : Holds(s) => in_use[recordings[s].encoder] = TRUE /\ NoOther(s, recordings[s].encoder)
  /\ \A s \in Sessions : recordings[s].streaming = TRUE => Holds(s)
  /\ \A s \in Sessions : recordings[s].pc = "done" => recordings[s].trial = FALSE
StreamsFit == \A s \in Sessions : StreamFits(s, recordings[s], transform[recordings[s].encoder], file[s])

EncInv == EncTypes /\ HandsFit /\ StreamsFit

LEMMA EncStarts == ASSUME Encoding!EncoderAssumption, Encoding!StartOfEncoders PROVE EncInv
<1>1. 0 \in 0 .. MaxEncoders
  BY DEF Encoding!EncoderAssumption
<1>2. Encoding!Idle \in Transforms
  BY DEF Encoding!Idle, Transforms
<1>3. Encoding!NoStream \in Streams /\ Encoding!NoStream.pc = "start" /\ Encoding!NoStream.streaming = FALSE
  BY DEF Encoding!NoStream, Streams, StreamPlaces
<1>4. EncTypes
  BY <1>1, <1>2, <1>3 DEF Encoding!StartOfEncoders, EncTypes
<1>5. \A s \in Sessions : recordings[s] = Encoding!NoStream /\ file[s] = <<>>
  BY DEF Encoding!StartOfEncoders
<1>6. HandsFit
  BY <1>3, <1>5 DEF HandsFit, Holds, Holding, Streaming, Dropping
<1>7. \A s \in Sessions : \A t : StreamFits(s, Encoding!NoStream, t, <<>>)
  <2>1. \A s \in Sessions : FileFits(s, <<>>)
    BY DEF FileFits
  <2> QED BY <1>3, <2>1 DEF StreamFits, Streaming
<1>8. StreamsFit
  BY <1>5, <1>7 DEF StreamsFit
<1> QED BY <1>4, <1>6, <1>8 DEF EncInv

(* One session changes, and the encoder it has.                              *)
Changes(s, e, k, t, f, u) ==
  /\ recordings' = [recordings EXCEPT ![s] = k] /\ transform' = [transform EXCEPT ![e] = t]
  /\ file' = [file EXCEPT ![s] = f] /\ in_use' = [in_use EXCEPT ![e] = u]
Around ==
  /\ kept' \in Encoding!Encoders \cup {NoEncoder} /\ activated' \in 0 .. MaxEncoders
       /\ broken' \in [Encoding!Encoders -> BOOLEAN]

LEMMA OthersKeep ==
  ASSUME NEW s, NEW k, NEW t, NEW u, NEW f, k.pc \in Streaming => u = t, StreamFits(s, k, t, f)
  PROVE  StreamFits(s, k, u, f)
  BY DEF StreamFits

LEMMA OneStream ==
  ASSUME EncInv, NEW s \in Sessions, NEW e \in Encoding!Encoders, NEW k \in Streams, NEW t \in Transforms,
         NEW f \in Seq(EncFrames), NEW u \in BOOLEAN, Changes(s, e, k, t, f, u), Around,
         k.encoder = e, NoOther(s, e), k.pc \in Holding <=> u = TRUE, k.streaming = TRUE => u = TRUE,
         k.pc = "done" => k.trial = FALSE, StreamFits(s, k, t, f)
  PROVE  EncInv'
<1>1. /\ recordings' \in [Sessions -> Streams] /\ transform' \in [Encoding!Encoders -> Transforms]
      /\ file' \in [Sessions -> Seq(EncFrames)] /\ in_use' \in [Encoding!Encoders -> BOOLEAN]
  BY DEF EncInv, EncTypes, Changes
<1>2. /\ recordings'[s] = k /\ file'[s] = f /\ transform'[e] = t /\ in_use'[e] = u
      /\ \A r \in Sessions : r # s => recordings'[r] = recordings[r] /\ file'[r] = file[r]
      /\ \A d \in Encoding!Encoders : d # e => transform'[d] = transform[d] /\ in_use'[d] = in_use[d]
  BY DEF EncInv, EncTypes, Changes
<1>3. EncTypes'
  BY <1>1 DEF EncTypes, Around
<1>4. \A r \in Sessions : r # s => (Holds(r)' <=> Holds(r))
  BY <1>2 DEF Holds
<1>5. Holds(s)' <=> u = TRUE
  BY <1>2 DEF Holds
<1>6. HandsFit'
  <2>1. \A r \in Sessions : (Holds(r) \/ recordings[r].pc = "begin" => recordings[r].encoder \in Encoding!Encoders)'
    BY <1>2, <1>4 DEF EncInv, HandsFit
  <2>2. ASSUME NEW r \in Sessions, Holds(r)'
        PROVE  (in_use[recordings[r].encoder] = TRUE /\ NoOther(r, recordings[r].encoder))'
    <3>1. CASE r = s
      <4>1. recordings'[r].encoder = e /\ in_use'[e] = TRUE
        BY <1>2, <1>5, <2>2, <3>1
      <4>2. NoOther(s, e)'
        BY <1>2, <1>4 DEF NoOther
      <4> QED BY <1>2, <3>1, <4>1, <4>2
    <3>2. CASE r # s
      <4>1. Holds(r) /\ recordings'[r] = recordings[r] /\ recordings[r].encoder # e
              /\ recordings[r].encoder \in Encoding!Encoders
        BY <1>2, <1>4, <2>2, <3>2 DEF NoOther, EncInv, HandsFit
      <4>2. in_use[recordings[r].encoder] = TRUE /\ NoOther(r, recordings[r].encoder)
        BY <4>1 DEF EncInv, HandsFit
      <4>3. ASSUME NEW x \in Sessions, x # r, Holds(x)' PROVE recordings'[x].encoder # recordings[r].encoder
        BY <1>2, <1>4, <4>1, <4>2, <4>3 DEF NoOther
      <4> QED BY <1>2, <4>1, <4>2, <4>3 DEF NoOther
    <3> QED BY <3>1, <3>2
  <2>3. \A r \in Sessions : (recordings[r].streaming = TRUE => Holds(r))'
    BY <1>2, <1>4, <1>5 DEF EncInv, HandsFit
  <2>4. \A r \in Sessions : (recordings[r].pc = "done" => recordings[r].trial = FALSE)'
    BY <1>2 DEF EncInv, HandsFit
  <2> QED BY <2>1, <2>2, <2>3, <2>4 DEF HandsFit
<1>7. StreamsFit'
  <2> SUFFICES ASSUME NEW r \in Sessions
               PROVE  StreamFits(r, recordings'[r], transform'[recordings'[r].encoder], file'[r])
    BY DEF StreamsFit
  <2>1. CASE r = s
    BY <1>2, <2>1
  <2>2. CASE r # s
    <3>1. recordings'[r] = recordings[r] /\ file'[r] = file[r]
      BY <1>2, <2>2
    <3>2. recordings[r].pc \in Streaming
            => transform'[recordings[r].encoder] = transform[recordings[r].encoder]
      BY <1>2, <2>2 DEF NoOther, Holds, Holding, EncInv, HandsFit
    <3> QED BY <3>1, <3>2, OthersKeep DEF EncInv, StreamsFit
  <2> QED BY <2>1, <2>2
<1> QED BY <1>3, <1>6, <1>7 DEF EncInv

(* What Windows does to one encoder's transform.                             *)
LEMMA OneTransform ==
  ASSUME EncInv, NEW e \in Encoding!Encoders, NEW t \in Transforms, transform' = [transform EXCEPT ![e] = t],
         UNCHANGED <<kept, activated, in_use, broken, recordings, file>>,
         \A s \in Sessions : /\ recordings[s].pc \in Streaming /\ recordings[s].encoder = e
                             /\ FramesFit(s, recordings[s], transform[e], file[s])
                                  /\ NoticesFit(recordings[s], transform[e])
                             => FramesFit(s, recordings[s], t, file[s]) /\ NoticesFit(recordings[s], t)
  PROVE  EncInv'
<1>1. /\ transform' \in [Encoding!Encoders -> Transforms] /\ transform'[e] = t
      /\ \A d \in Encoding!Encoders : d # e => transform'[d] = transform[d]
  BY DEF EncInv, EncTypes
<1>2. EncTypes'
  BY <1>1 DEF EncInv, EncTypes
<1>3. HandsFit'
  BY <1>1 DEF EncInv, HandsFit, Holds, NoOther
<1>4. StreamsFit'
  <2> SUFFICES ASSUME NEW s \in Sessions
               PROVE  StreamFits(s, recordings[s], transform'[recordings[s].encoder], file[s])
    BY DEF StreamsFit
  <2>1. StreamFits(s, recordings[s], transform[recordings[s].encoder], file[s])
    BY DEF EncInv, StreamsFit
  <2>2. CASE recordings[s].encoder = e
    BY <1>1, <2>1, <2>2 DEF StreamFits
  <2>3. CASE recordings[s].encoder # e
    <3>1. recordings[s].pc \in Streaming => recordings[s].encoder \in Encoding!Encoders
      BY DEF EncInv, HandsFit, Holds, Holding
    <3> QED BY <1>1, <2>1, <2>3, <3>1, OthersKeep
  <2> QED BY <2>2, <2>3
<1> QED BY <1>2, <1>3, <1>4 DEF EncInv

LEMMA OneSession ==
  ASSUME EncInv, NEW s \in Sessions, NEW k \in Streams, recordings' = [recordings EXCEPT ![s] = k],
         UNCHANGED <<in_use, transform, file>>, Around, ~Holds(s), k.pc \in {"begin", "software"},
         k.pc = "begin" => k.encoder \in Encoding!Encoders, k.streaming = FALSE, file[s] = <<>>
  PROVE  EncInv'
<1>1. /\ recordings' \in [Sessions -> Streams] /\ recordings'[s] = k
      /\ \A r \in Sessions : r # s => recordings'[r] = recordings[r]
  BY DEF EncInv, EncTypes
<1>2. EncTypes'
  BY <1>1 DEF EncInv, EncTypes, Around
<1>3. ~Holds(s)' /\ \A r \in Sessions : r # s => (Holds(r)' <=> Holds(r))
  BY <1>1 DEF Holds, Holding, Streaming, Dropping
<1>4. HandsFit'
  <2>1. \A r \in Sessions : (Holds(r) \/ recordings[r].pc = "begin" => recordings[r].encoder \in Encoding!Encoders)'
    BY <1>1, <1>3 DEF EncInv, HandsFit
  <2>2. \A r \in Sessions : Holds(r)' => r # s /\ Holds(r) /\ recordings'[r] = recordings[r]
    BY <1>1, <1>3
  <2>3. \A r \in Sessions : (Holds(r) => in_use[recordings[r].encoder] = TRUE /\ NoOther(r, recordings[r].encoder))'
    BY <2>2 DEF EncInv, HandsFit, NoOther
  <2>4. \A r \in Sessions : (recordings[r].streaming = TRUE => Holds(r))'
    BY <1>1, <1>3 DEF EncInv, HandsFit
  <2>5. \A r \in Sessions : (recordings[r].pc = "done" => recordings[r].trial = FALSE)'
    BY <1>1 DEF EncInv, HandsFit
  <2> QED BY <2>1, <2>3, <2>4, <2>5 DEF HandsFit
<1>5. StreamsFit'
  <2>1. StreamFits(s, k, transform[k.encoder], file[s])
    BY DEF StreamFits, FileFits, Streaming
  <2>2. \A r \in Sessions : r # s => StreamFits(r, recordings'[r], transform[recordings'[r].encoder], file[r])
    BY <1>1 DEF EncInv, StreamsFit
  <2> QED BY <1>1, <2>1, <2>2 DEF StreamsFit
<1> QED BY <1>2, <1>4, <1>5 DEF EncInv

LEMMA SameEncoders ==
  ASSUME EncInv, UNCHANGED <<in_use, transform, recordings, file>>, Around PROVE EncInv'
  BY DEF EncInv, EncTypes, Around, HandsFit, Holds, NoOther, StreamsFit

LEMMA StreamHas ==
  ASSUME EncInv, NEW s \in Sessions
  PROVE  /\ recordings[s] \in Streams /\ file[s] \in Seq(EncFrames) /\ recordings[s].pc \in StreamPlaces
         /\ StreamFits(s, recordings[s], transform[recordings[s].encoder], file[s])
         /\ recordings[s].streaming \in BOOLEAN
         /\ Holds(s) \/ recordings[s].pc = "begin" => recordings[s].encoder \in Encoding!Encoders
              /\ transform[recordings[s].encoder] \in Transforms
         /\ Holds(s) => NoOther(s, recordings[s].encoder) /\ in_use[recordings[s].encoder] = TRUE
<1>1. recordings[s] \in Streams /\ file[s] \in Seq(EncFrames)
  BY DEF EncInv, EncTypes
<1>2. recordings[s].pc \in StreamPlaces /\ recordings[s].streaming \in BOOLEAN
  BY <1>1 DEF Streams
<1>3. Holds(s) \/ recordings[s].pc = "begin" => recordings[s].encoder \in Encoding!Encoders
  BY DEF EncInv, HandsFit
<1>4. Holds(s) => NoOther(s, recordings[s].encoder) /\ in_use[recordings[s].encoder] = TRUE
  BY DEF EncInv, HandsFit
<1> QED BY <1>1, <1>2, <1>3, <1>4 DEF EncInv, EncTypes, StreamsFit

LEMMA StartsHold ==
  ASSUME Encoding!EncoderAssumption, EncInv, NEW s \in Sessions, Encoding!GoesSoft(s) \/ Encoding!Acquire(s)
  PROVE  EncInv'
<1>1. recordings[s].pc = "start" /\ UNCHANGED <<in_use, broken, transform, file>>
  BY DEF Encoding!GoesSoft, Encoding!Acquire
<1>2. ~Holds(s) /\ recordings[s] \in Streams /\ file[s] = <<>> /\ recordings[s].streaming = FALSE
  BY <1>1, StreamHas DEF StreamFits, Holds, Holding, Streaming, Dropping, EncInv, HandsFit
<1>3. broken' \in [Encoding!Encoders -> BOOLEAN] /\ kept \in Encoding!Encoders \cup {NoEncoder}
        /\ activated \in 0 .. MaxEncoders
  BY <1>1 DEF EncInv, EncTypes
<1>4. CASE Encoding!GoesSoft(s)
  <2> DEFINE k == [recordings[s] EXCEPT !.pc = "software"]
  <2>1. recordings' = [recordings EXCEPT ![s] = k] /\ Around
    BY <1>3, <1>4 DEF Encoding!GoesSoft, Around
  <2>2. k \in Streams /\ k.pc = "software" /\ k.streaming = FALSE
    BY <1>2 DEF Streams, StreamPlaces
  <2> HIDE DEF k
  <2> QED BY <1>1, <1>2, <2>1, <2>2, OneSession
<1>5. ASSUME NEW e \in Encoding!Encoders, recordings' = [recordings EXCEPT ![s].pc = "begin", ![s].encoder = e],
             kept' \in Encoding!Encoders, activated' \in 0 .. MaxEncoders
      PROVE  EncInv'
  <2> DEFINE k == [recordings[s] EXCEPT !.pc = "begin", !.encoder = e]
  <2>1. recordings' = [recordings EXCEPT ![s] = k] /\ Around
    BY <1>3, <1>5 DEF Around, EncInv, EncTypes
  <2>2. k \in Streams /\ k.pc = "begin" /\ k.streaming = FALSE /\ k.encoder = e
    BY <1>2 DEF Streams, StreamPlaces
  <2> HIDE DEF k
  <2> QED BY <1>1, <1>2, <2>1, <2>2, OneSession
<1>6. CASE Encoding!Acquire(s)
  <2>1. CASE kept # NoEncoder /\ recordings' = [recordings EXCEPT ![s].pc = "begin", ![s].encoder = kept]
               /\ UNCHANGED <<kept, activated>>
    BY <1>3, <1>5, <2>1
  <2>2. CASE /\ activated < MaxEncoders /\ activated' = activated + 1 /\ kept' = activated + 1
             /\ recordings' = [recordings EXCEPT ![s].pc = "begin", ![s].encoder = activated + 1]
    <3>1. activated + 1 \in Encoding!Encoders /\ activated + 1 \in 0 .. MaxEncoders
      BY <1>3, <2>2 DEF Encoding!Encoders, Encoding!EncoderAssumption
    <3> QED BY <1>5, <2>2, <3>1
  <2> QED BY <1>6, <2>1, <2>2 DEF Encoding!Acquire
<1> QED BY <1>4, <1>6

LEMMA StreamBegins == ASSUME EncInv, NEW s \in Sessions, Encoding!Begin(s) PROVE EncInv'
<1> DEFINE e == recordings[s].encoder
           f == file[s]
<1>1. recordings[s].pc = "begin" /\ UNCHANGED <<kept, activated, file>>
  BY DEF Encoding!Begin
<1>2. ~Holds(s) /\ recordings[s] \in Streams /\ f = <<>> /\ f \in Seq(EncFrames)
  BY <1>1, StreamHas DEF StreamFits, Holds, Holding, Streaming, Dropping
<1>3. e \in Encoding!Encoders /\ transform[e] \in Transforms
  BY <1>1, StreamHas
<1>4. /\ kept' \in Encoding!Encoders \cup {NoEncoder} /\ activated' \in 0 .. MaxEncoders
           /\ broken \in [Encoding!Encoders -> BOOLEAN]
      /\ file' = [file EXCEPT ![s] = f]
  BY <1>1, <1>3 DEF EncInv, EncTypes
<1>5. in_use' = [in_use EXCEPT ![e] = TRUE] /\ in_use[e] # TRUE
  BY DEF Encoding!Begin
<1>6. NoOther(s, e)
  BY <1>3, <1>5 DEF EncInv, HandsFit, NoOther
<1>7. broken' \in [Encoding!Encoders -> BOOLEAN]
  <2>1. UNCHANGED broken \/ broken' = [broken EXCEPT ![e] = TRUE]
    BY DEF Encoding!Begin
  <2> QED BY <1>4, <2>1
<1>8. Around
  BY <1>4, <1>7 DEF Around
<1> DEFINE BeginsAt(pc, streaming) ==
             recordings' = [recordings EXCEPT ![s].pc = pc, ![s].need = 0, ![s].at_start = TRUE, ![s].sent = 0,
                                              ![s].outputs = 0, ![s].streaming = streaming]
           begun == Encoding!Begun(transform[e])
           gone == [transform[e] EXCEPT !.events = <<>>]
<1>9. \/ /\ transform[e].inside = <<>> /\ transform[e].ready = <<>> /\ transform' = [transform EXCEPT ![e] = begun]
         /\ BeginsAt("run", TRUE)
      \/ transform' = [transform EXCEPT ![e] = gone] /\ BeginsAt("drop_soft", FALSE)
      \/ transform' = [transform EXCEPT ![e] = begun] /\ BeginsAt("drop_soft", TRUE)
  <2>1. CASE transform[e].inside = <<>> /\ transform[e].ready = <<>> /\ transform' = [transform EXCEPT ![e] = begun]
               /\ BeginsAt("run", TRUE)
    BY <2>1
  <2>2. CASE transform' = [transform EXCEPT ![e].events = <<>>] /\ BeginsAt("drop_soft", FALSE)
    BY <2>2
  <2>3. CASE transform' = [transform EXCEPT ![e] = begun] /\ BeginsAt("drop_soft", TRUE)
    BY <2>3
  <2>4. \/ /\ transform[e].inside = <<>> /\ transform[e].ready = <<>>
           /\ transform' = [transform EXCEPT ![e] = begun] /\ BeginsAt("run", TRUE)
        \/ transform' = [transform EXCEPT ![e].events = <<>>] /\ BeginsAt("drop_soft", FALSE)
        \/ transform' = [transform EXCEPT ![e] = begun] /\ BeginsAt("drop_soft", TRUE)
    BY DEF Encoding!Begin
  <2> HIDE DEF BeginsAt, begun, gone
  <2> QED BY <2>1, <2>2, <2>3, <2>4
<1>10. /\ begun \in Transforms /\ begun.events = <<>> /\ begun.room = 0 /\ begun.inside = transform[e].inside
       /\ begun.ready = transform[e].ready /\ begun.draining = FALSE /\ gone \in Transforms
  BY <1>3, NothingWaits DEF Encoding!Begun, Transforms
<1> HIDE DEF e, f, begun, gone
<1>11. CASE /\ transform[e].inside = <<>> /\ transform[e].ready = <<>> /\ transform' = [transform EXCEPT ![e] = begun]
            /\ BeginsAt("run", TRUE)
  <2> DEFINE k == [recordings[s] EXCEPT !.pc = "run", !.need = 0, !.at_start = TRUE,
                                     !.sent = 0, !.outputs = 0, !.streaming = TRUE]
  <2>1. Changes(s, e, k, begun, f, TRUE)
    BY <1>4, <1>5, <1>11 DEF Changes
  <2>2. k \in Streams /\ k.pc = "run" /\ k.need = 0 /\ k.at_start = TRUE /\ k.sent = 0 /\ k.outputs = 0
          /\ k.encoder = e
    BY <1>2 DEF Streams, StreamPlaces, Holding, Streaming, e
  <2> HIDE DEF k
  <2>3. FramesFit(s, k, begun, f)
    BY <1>2, <1>10, <1>11, <2>2 DEF FramesFit
  <2>6. Len(begun.ready) = 0 /\ begun.inside = <<>>
    BY <1>10, <1>11
  <2>4. NoticesFit(k, begun)
    BY <1>10, <2>2, <2>6, NoneWaits DEF NoticesFit, NoDrained, RoomAsked
  <2>5. StreamFits(s, k, begun, f)
    BY <1>2, <2>2, <2>3, <2>4 DEF StreamFits, FileFits
  <2> QED BY <1>2, <1>3, <1>6, <1>8, <1>10, <2>1, <2>2, <2>5, OneStream DEF Holding, Streaming
<1>12. ASSUME NEW t \in Transforms, NEW streaming \in BOOLEAN, transform' = [transform EXCEPT ![e] = t],
              BeginsAt("drop_soft", streaming)
       PROVE  EncInv'
  <2> DEFINE k == [recordings[s] EXCEPT !.pc = "drop_soft", !.need = 0, !.at_start = TRUE,
                                     !.sent = 0, !.outputs = 0, !.streaming = streaming]
  <2>1. Changes(s, e, k, t, f, TRUE)
    BY <1>4, <1>5, <1>12 DEF Changes
  <2>2. k \in Streams /\ k.pc = "drop_soft" /\ k.encoder = e
    BY <1>2 DEF Streams, StreamPlaces, Holding, Dropping, e
  <2> HIDE DEF k
  <2>3. StreamFits(s, k, t, f)
    BY <1>2, <2>2 DEF StreamFits, FileFits, Streaming
  <2> QED BY <1>2, <1>3, <1>6, <1>8, <2>1, <2>2, <2>3, OneStream DEF Holding, Dropping
<1> QED BY <1>9, <1>10, <1>11, <1>12

LEMMA BusyHolds == ASSUME EncInv, NEW s \in Sessions, Encoding!FindsItBusy(s) PROVE EncInv'
<1> DEFINE k == [recordings[s] EXCEPT !.pc = "software"]
<1>1. recordings[s].pc = "begin" /\ UNCHANGED <<kept, activated, in_use, broken, transform, file>>
        /\ recordings' = [recordings EXCEPT ![s] = k]
  BY DEF Encoding!FindsItBusy
<1>2. ~Holds(s) /\ recordings[s] \in Streams /\ file[s] = <<>> /\ recordings[s].streaming = FALSE
  BY <1>1, StreamHas DEF StreamFits, Holds, Holding, Streaming, Dropping, EncInv, HandsFit
<1>3. k \in Streams /\ k.pc = "software" /\ k.streaming = FALSE
  BY <1>2 DEF Streams, StreamPlaces
<1>4. Around
  BY <1>1 DEF Around, EncInv, EncTypes
<1> HIDE DEF k
<1> QED BY <1>1, <1>2, <1>3, <1>4, OneSession

LEMMA FailsHold == ASSUME EncInv, NEW s \in Sessions, Encoding!CallFails(s) PROVE EncInv'
<1> DEFINE c == recordings[s]
           e == c.encoder
<1>1. PICK p \in {"drop_soft", "drop_failed"} : recordings' = [recordings EXCEPT ![s].pc = p]
  BY DEF Encoding!CallFails
<1>2. c.pc \in Streaming /\ UNCHANGED <<kept, activated, in_use, broken, transform, file>>
  BY DEF Encoding!CallFails, Streaming
<1>3. /\ Holds(s) /\ c \in Streams /\ file[s] \in Seq(EncFrames) /\ e \in Encoding!Encoders /\ transform[e] \in Transforms
      /\ NoOther(s, e) /\ in_use[e] = TRUE /\ StreamFits(s, c, transform[e], file[s])
  BY <1>2, StreamHas DEF Holds, Holding
<1> DEFINE k == [c EXCEPT !.pc = p]
<1>4. k \in Streams /\ k.pc = p /\ k.encoder = e /\ k.trial = c.trial
  BY <1>1, <1>3 DEF Streams, StreamPlaces, Holding, Dropping
<1>5. Changes(s, e, k, transform[e], file[s], TRUE)
  <2>1. in_use' = [in_use EXCEPT ![e] = TRUE] /\ transform' = [transform EXCEPT ![e] = transform[e]]
          /\ file' = [file EXCEPT ![s] = file[s]]
    BY <1>2, <1>3 DEF EncInv, EncTypes
  <2> QED BY <1>1, <2>1 DEF Changes
<1> HIDE DEF k, c, e
<1>6. StreamFits(s, k, transform[e], file[s])
  BY <1>1, <1>3, <1>4 DEF StreamFits, Streaming
<1>7. Around
  BY <1>2 DEF Around, EncInv, EncTypes
<1> QED BY <1>1, <1>3, <1>4, <1>5, <1>6, <1>7, OneStream DEF Holding, Dropping

LEMMA Sums ==
  ASSUME NEW a \in Int, NEW b \in Int, NEW d \in Int
  PROVE  a + b + (d + 1) = (a + b + d) + 1 /\ a + b + (d + 1) = a + (b + 1) + d
  OBVIOUS

(* A notice is taken from the encoder's queue.                               *)
LEMMA Shorter ==
  ASSUME NEW S, NEW q \in Seq(S), q # <<>>
  PROVE  Tail(q) \in Seq(S) /\ Head(q) \in S /\ Len(q) \in Nat /\ Len(q) > 0 /\ Len(Tail(q)) = Len(q) - 1
<1>1. Tail(q) \in Seq(S) /\ Head(q) \in S /\ Len(Tail(q)) = Len(q) - 1
  BY HeadTailProperties
<1>2. Len(q) \in Nat \ {0}
  BY EmptySeq, LenProperties
<1> QED BY <1>1, <1>2

LEMMA NoticeGoes ==
  ASSUME NEW k \in Streams, NEW j \in Streams, NEW t \in Transforms, NEW r \in Transforms, t.events # <<>>,
         r.events = Tail(t.events), r.room = t.room, r.inside = t.inside, r.draining = t.draining, j.pc = "run" => k.pc = "run",
         \/ Head(t.events) = "have" /\ t.ready # <<>> /\ r.ready = Tail(t.ready)
         \/ ~(Head(t.events) = "have" /\ t.ready # <<>>) /\ r.ready = t.ready,
         \/ Head(t.events) = "need" /\ j.need = k.need + 1
         \/ Head(t.events) # "need" /\ j.need = k.need,
         NoticesFit(k, t)
  PROVE  NoticesFit(j, r)
<1>1. /\ t.events \in Seq(Notices) /\ t.ready \in Seq(EncFrames) /\ t.room \in Nat /\ k.need \in Nat /\ j.need \in Nat
  BY DEF Transforms, Streams
<1>2. Len(t.ready) \in Nat /\ Wait(t.events, Len(t.ready), "have", "drained")
  BY <1>1, LenProperties DEF NoticesFit
<1>3. Wait(r.events, Len(r.ready), "have", "drained")
  <2>1. CASE Head(t.events) = "have" /\ t.ready # <<>>
    BY <1>1, <1>2, <2>1, Shorter, FirstGoes
  <2>2. CASE Head(t.events) = "have" /\ t.ready = <<>>
    <3>1. r.ready = <<>> /\ Len(r.ready) = 0
      BY <2>2
    <3> QED BY <3>1, NoneWaits
  <2>3. CASE Head(t.events) # "have"
    BY <1>1, <1>2, <2>3, AnotherGoes
  <2> QED BY <2>1, <2>2, <2>3
<1>4. NoDrained(t.events) => NoDrained(r.events)
  BY <1>1, HeadTaken DEF NoDrained
<1>5. ASSUME RoomAsked(k, t) PROVE RoomAsked(j, r)
  <2>1. PICK n \in Nat : Wait(t.events, n, "need", "never") /\ t.room <= k.need + n
    BY <1>5 DEF RoomAsked
  <2>2. CASE Head(t.events) = "need" /\ n > 0
    <3>1. Wait(r.events, n - 1, "need", "never") /\ n - 1 \in Nat
      BY <1>1, <2>1, <2>2, FirstGoes
    <3>2. r.room <= j.need + (n - 1)
      BY <1>1, <2>1, <2>2
    <3> QED BY <3>1, <3>2 DEF RoomAsked
  <2>3. CASE Head(t.events) = "need" /\ n = 0
    <3>1. Wait(r.events, 0, "need", "never")
      BY NoneWaits
    <3>2. r.room <= j.need + 0
      BY <1>1, <2>1, <2>3
    <3> QED BY <3>1, <3>2 DEF RoomAsked
  <2>4. CASE Head(t.events) # "need"
    <3>1. Wait(r.events, n, "need", "never")
      BY <1>1, <2>1, <2>4, AnotherGoes
    <3> QED BY <2>1, <2>4, <3>1 DEF RoomAsked
  <2> QED BY <2>1, <2>2, <2>3, <2>4
<1> QED BY <1>3, <1>4, <1>5 DEF NoticesFit

LEMMA PumpHolds == ASSUME EncInv, NEW s \in Sessions, Encoding!Pump(s) PROVE EncInv'
<1> DEFINE e == recordings[s].encoder
           t == transform[e]
           f == file[s]
           c == recordings[s]
           rest == [t EXCEPT !.events = Tail(@)]
<1>1. /\ c.pc \in Streaming /\ t.events # <<>> /\ UNCHANGED <<kept, activated, in_use>>
      /\ \/ /\ Head(t.events) = "need"
            /\ recordings' = [recordings EXCEPT ![s].need = @ + 1]
            /\ transform' = [transform EXCEPT ![e] = rest]
            /\ UNCHANGED <<file, broken>>
         \/ /\ Head(t.events) = "have" /\ t.ready # <<>>
            /\ transform' = [transform EXCEPT ![e] = [rest EXCEPT !.ready = Tail(@)]]
            /\ recordings' = [recordings EXCEPT ![s].outputs = @ + 1]
            /\ file' = IF c.trial THEN file ELSE [file EXCEPT ![s] = Append(@, Head(t.ready))]
            /\ UNCHANGED broken
         \/ /\ Head(t.events) = "have" /\ t.ready = <<>>
            /\ transform' = [transform EXCEPT ![e] = rest]
            /\ UNCHANGED <<recordings, file, broken>>
         \/ /\ Head(t.events) = "drained"
            /\ transform' = [transform EXCEPT ![e] = rest]
            /\ recordings' = IF c.pc = "run" THEN recordings
                          ELSE [recordings EXCEPT ![s].pc = Encoding!AfterDrain(c)]
            /\ UNCHANGED <<file, broken>>
         \/ /\ Head(t.events) = "error"
            /\ transform' = [transform EXCEPT ![e] = rest]
            /\ broken' = [broken EXCEPT ![e] = TRUE]
            /\ recordings' = [recordings EXCEPT ![s].pc = Encoding!AfterError(c)]
            /\ UNCHANGED file
  BY DEF Encoding!Pump, Encoding!StreamFailed, Streaming
<1>2. /\ Holds(s) /\ c \in Streams /\ f \in Seq(EncFrames) /\ e \in Encoding!Encoders /\ t \in Transforms
      /\ NoOther(s, e) /\ in_use[e] = TRUE /\ StreamFits(s, c, t, f)
  BY <1>1, StreamHas DEF Holds, Holding
<1>3. /\ recordings \in [Sessions -> Streams] /\ file \in [Sessions -> Seq(EncFrames)]
      /\ in_use \in [Encoding!Encoders -> BOOLEAN] /\ transform \in [Encoding!Encoders -> Transforms]
      /\ kept' \in Encoding!Encoders \cup {NoEncoder} /\ activated' \in 0 .. MaxEncoders
           /\ broken \in [Encoding!Encoders -> BOOLEAN]
  BY <1>1 DEF EncInv, EncTypes
<1>4. broken' \in [Encoding!Encoders -> BOOLEAN]
  BY <1>1, <1>3
<1>5. Around
  BY <1>3, <1>4 DEF Around
<1>6. FileFits(s, f) /\ FramesFit(s, c, t, f) /\ NoticesFit(c, t) /\ (c.trial = TRUE => f = <<>>)
  BY <1>1, <1>2 DEF StreamFits
<1>7. in_use' = [in_use EXCEPT ![e] = TRUE]
  BY <1>1, <1>2, <1>3
<1>8. /\ t.events \in Seq(Notices) /\ t.ready \in Seq(EncFrames) /\ c.outputs \in Nat /\ c.sent \in Nat
      /\ c.need \in Nat /\ c.trial \in BOOLEAN /\ c.encoder = e /\ t.inside \in Seq(EncFrames)
  BY <1>2 DEF Transforms, Streams
<1>9. Tail(t.events) \in Seq(Notices)
  BY <1>1, <1>8, Shorter
<1>10. /\ rest \in Transforms /\ rest.events = Tail(t.events) /\ rest.room = t.room /\ rest.inside = t.inside
       /\ rest.draining = t.draining /\ rest.ready = t.ready /\ rest.force = t.force
  BY <1>2, <1>9 DEF Transforms
<1>11. file' = file => file' = [file EXCEPT ![s] = f]
  BY <1>3
<1> HIDE DEF e, t, f, c, rest
<1>20. ASSUME NEW k \in Streams, NEW r \in Transforms, NEW g \in Seq(EncFrames),
              recordings' = [recordings EXCEPT ![s] = k], transform' = [transform EXCEPT ![e] = r],
              file' = [file EXCEPT ![s] = g], k.encoder = e, k.pc \in Holding, StreamFits(s, k, r, g)
       PROVE  EncInv'
  <2>1. Changes(s, e, k, r, g, TRUE)
    BY <1>7, <1>20 DEF Changes
  <2>2. k.pc # "done"
    BY <1>20 DEF Holding, Streaming, Dropping
  <2> QED BY <1>2, <1>5, <1>20, <2>1, <2>2, OneStream
<1>21. CASE /\ Head(t.events) = "need" /\ recordings' = [recordings EXCEPT ![s].need = @ + 1]
            /\ transform' = [transform EXCEPT ![e] = rest] /\ UNCHANGED file
  <2> DEFINE k == [c EXCEPT !.need = @ + 1]
  <2>1. /\ k \in Streams /\ k.pc = c.pc /\ k.encoder = e /\ k.need = c.need + 1 /\ k.trial = c.trial
        /\ k.outputs = c.outputs /\ k.sent = c.sent /\ k.at_start = c.at_start
    BY <1>2, <1>8 DEF Streams
  <2>2. recordings' = [recordings EXCEPT ![s] = k]
    BY <1>21 DEF c
  <2> HIDE DEF k
  <2>3. FramesFit(s, k, rest, f)
    BY <1>6, <1>10, <2>1 DEF FramesFit
  <2>4. NoticesFit(k, rest)
    BY <1>1, <1>2, <1>6, <1>10, <1>21, <2>1, NoticeGoes
  <2>5. StreamFits(s, k, rest, f)
    BY <1>1, <1>2, <2>1, <2>3, <2>4 DEF StreamFits
  <2> QED BY <1>1, <1>2, <1>10, <1>11, <1>20, <1>21, <2>1, <2>2, <2>5 DEF Holding
<1>22. CASE /\ Head(t.events) = "have" /\ t.ready # <<>>
            /\ transform' = [transform EXCEPT ![e] = [rest EXCEPT !.ready = Tail(@)]]
            /\ recordings' = [recordings EXCEPT ![s].outputs = @ + 1]
            /\ file' = IF c.trial THEN file ELSE [file EXCEPT ![s] = Append(@, Head(t.ready))]
  <2> DEFINE k == [c EXCEPT !.outputs = @ + 1]
             r == [rest EXCEPT !.ready = Tail(@)]
             g == IF c.trial THEN f ELSE Append(f, Head(t.ready))
  <2>1. /\ k \in Streams /\ k.pc = c.pc /\ k.encoder = e /\ k.need = c.need /\ k.trial = c.trial
        /\ k.outputs = c.outputs + 1 /\ k.sent = c.sent /\ k.at_start = c.at_start
    BY <1>2, <1>8 DEF Streams
  <2>2. /\ Tail(t.ready) \in Seq(EncFrames) /\ Head(t.ready) \in EncFrames /\ Len(Tail(t.ready)) = Len(t.ready) - 1
        /\ Len(t.ready) \in Nat /\ Len(t.ready) > 0
    BY <1>8, <1>22, Shorter
  <2>3. /\ r \in Transforms /\ r.events = Tail(t.events) /\ r.room = t.room /\ r.inside = t.inside
        /\ r.draining = t.draining /\ r.ready = Tail(t.ready) /\ r.force = t.force
    BY <1>10, <2>2 DEF Transforms
  <2>4. recordings' = [recordings EXCEPT ![s] = k] /\ transform' = [transform EXCEPT ![e] = r]
    BY <1>22 DEF c
  <2>5. file' = [file EXCEPT ![s] = g]
    BY <1>3, <1>8, <1>22 DEF f
  <2>6. g \in Seq(EncFrames) /\ (c.trial = TRUE => g = f) /\ (c.trial = FALSE => g = Append(f, Head(t.ready)))
    BY <1>2, <1>8, <2>2
  <2> HIDE DEF k, r, g
  <2>7. /\ 1 \in DOMAIN t.ready /\ Head(t.ready) = t.ready[1]
        /\ \A i \in DOMAIN r.ready : i + 1 \in DOMAIN t.ready /\ r.ready[i] = t.ready[i + 1] /\ i \in Int
    BY <1>8, <1>22, <2>3, HeadTaken
  <2>8. FrameFits(Head(t.ready), s, c.trial, c.outputs + 1)
    BY <1>6, <2>7 DEF FramesFit
  <2>9. Len(f) \in Nat /\ (c.trial = FALSE => Len(f) = c.outputs /\ Len(g) = Len(f) + 1)
    BY <1>2, <1>6, <2>2, <2>6, LenProperties, AppendProperties DEF FramesFit
  <2>10. FileFits(s, g)
    <3>1. CASE c.trial = TRUE
      BY <1>6, <2>6, <3>1
    <3>2. CASE c.trial = FALSE
      <4>1. \A i \in DOMAIN g : (i \in DOMAIN f /\ g[i] = f[i]) \/ (i = Len(f) + 1 /\ g[i] = Head(t.ready))
        BY <1>2, <2>2, <2>6, <3>2, Appended
      <4> QED BY <1>6, <2>8, <2>9, <3>2, <4>1 DEF FileFits
    <3> QED BY <1>8, <3>1, <3>2
  <2>11. FramesFit(s, k, r, g)
    <3>1. k.outputs + Len(r.ready) + Len(r.inside) = k.sent /\ (k.trial = FALSE => Len(g) = k.outputs)
      <4>1. Len(t.inside) \in Nat /\ c.outputs + Len(t.ready) + Len(t.inside) = c.sent
        BY <1>6, <1>8, LenProperties DEF FramesFit
      <4>2. (c.outputs + 1) + (Len(t.ready) - 1) + Len(t.inside) = c.outputs + Len(t.ready) + Len(t.inside)
        BY <1>8, <2>2, <4>1
      <4> QED BY <2>1, <2>2, <2>3, <2>9, <4>1, <4>2
    <3>2. \A i \in DOMAIN r.ready : FrameFits(r.ready[i], s, k.trial, k.outputs + i)
      <4> SUFFICES ASSUME NEW i \in DOMAIN r.ready PROVE FrameFits(r.ready[i], s, k.trial, k.outputs + i)
        OBVIOUS
      <4>1. i + 1 \in DOMAIN t.ready /\ r.ready[i] = t.ready[i + 1] /\ i \in Int
        BY <2>7
      <4>2. FrameFits(t.ready[i + 1], s, c.trial, c.outputs + (i + 1))
        BY <1>6, <4>1 DEF FramesFit
      <4>3. c.outputs + (i + 1) = k.outputs + i
        <5>1. c.outputs \in Nat /\ k.outputs = c.outputs + 1 /\ i \in Int
          BY <1>8, <2>1, <4>1
        <5> QED BY <5>1
      <4> QED BY <2>1, <4>1, <4>2, <4>3 DEF FrameFits
    <3>3. \A i \in DOMAIN r.inside : FrameFits(r.inside[i], s, k.trial, k.outputs + Len(r.ready) + i)
      <4>1. k.outputs + Len(r.ready) = c.outputs + Len(t.ready)
        BY <1>8, <2>1, <2>2, <2>3
      <4> QED BY <1>6, <2>1, <2>3, <4>1 DEF FramesFit
    <3> QED BY <1>6, <2>1, <2>3, <3>1, <3>2, <3>3 DEF FramesFit
  <2>12. NoticesFit(k, r)
    BY <1>1, <1>2, <1>6, <1>22, <2>1, <2>3, NoticeGoes
  <2>13. StreamFits(s, k, r, g)
    BY <1>1, <1>6, <2>1, <2>6, <2>10, <2>11, <2>12 DEF StreamFits, Streaming
  <2> QED BY <1>1, <1>20, <2>1, <2>3, <2>4, <2>5, <2>6, <2>13 DEF Holding
<1>23. CASE /\ Head(t.events) = "have" /\ t.ready = <<>> /\ transform' = [transform EXCEPT ![e] = rest]
            /\ UNCHANGED <<recordings, file>>
  <2>1. recordings' = [recordings EXCEPT ![s] = c]
    BY <1>3, <1>23 DEF c
  <2>2. FramesFit(s, c, rest, f)
    BY <1>6, <1>10 DEF FramesFit
  <2>3. NoticesFit(c, rest)
    BY <1>1, <1>2, <1>6, <1>10, <1>23, NoticeGoes
  <2>4. StreamFits(s, c, rest, f)
    BY <1>1, <1>2, <2>2, <2>3 DEF StreamFits
  <2> QED BY <1>1, <1>2, <1>8, <1>10, <1>11, <1>20, <1>23, <2>1, <2>4 DEF Holding
<1>24. CASE /\ Head(t.events) = "drained" /\ transform' = [transform EXCEPT ![e] = rest]
            /\ recordings' = IF c.pc = "run" THEN recordings
                          ELSE [recordings EXCEPT ![s].pc = Encoding!AfterDrain(c)]
            /\ UNCHANGED file
  <2>1. ~NoDrained(t.events)
    BY <1>1, <1>8, <1>24, HeadTaken DEF NoDrained
  <2>2. c.pc # "run" /\ t.inside = <<>>
    BY <1>1, <1>6, <2>1 DEF NoticesFit
  <2>3. Len(t.ready) \in Nat /\ Wait(t.events, Len(t.ready), "have", Head(t.events))
    BY <1>6, <1>8, <1>24, LenProperties DEF NoticesFit
  <2>4. Len(t.ready) = 0
    BY <1>1, <1>8, <2>3, NoneBefore
  <2>5. c.trial = FALSE => Len(f) = c.sent
    BY <1>6, <1>8, <2>2, <2>4 DEF FramesFit
  <2> DEFINE p == Encoding!AfterDrain(c)
             k == [c EXCEPT !.pc = p]
  <2>6. p \in Dropping
    BY DEF Encoding!AfterDrain, Dropping
  <2>7. recordings' = [recordings EXCEPT ![s].pc = p]
    BY <1>24, <2>2
  <2> HIDE DEF p
  <2>8. /\ k \in Streams /\ k.pc = p /\ k.encoder = e /\ k.trial = c.trial /\ k.sent = c.sent
    BY <1>2, <1>8, <2>6 DEF Streams, StreamPlaces, Holding
  <2>9. recordings' = [recordings EXCEPT ![s] = k]
    BY <2>7 DEF c
  <2> HIDE DEF k
  <2>10. StreamFits(s, k, rest, f)
    BY <1>6, <2>5, <2>6, <2>8 DEF StreamFits, Dropping, Streaming
  <2> QED BY <1>2, <1>10, <1>11, <1>20, <1>24, <2>6, <2>8, <2>9, <2>10 DEF Holding
<1>25. CASE /\ Head(t.events) = "error" /\ transform' = [transform EXCEPT ![e] = rest]
            /\ recordings' = [recordings EXCEPT ![s].pc = Encoding!AfterError(c)]
            /\ UNCHANGED file
  <2> DEFINE p == Encoding!AfterError(c)
             k == [c EXCEPT !.pc = p]
  <2>1. p \in {"drop_soft", "drop_failed", "stopped"}
    BY DEF Encoding!AfterError
  <2>2. recordings' = [recordings EXCEPT ![s] = k]
    BY <1>25 DEF c
  <2> HIDE DEF p
  <2>3. /\ k \in Streams /\ k.pc = p /\ k.encoder = e /\ k.trial = c.trial /\ k.need = c.need
        /\ k.outputs = c.outputs /\ k.sent = c.sent /\ k.at_start = c.at_start /\ p \in Holding
    BY <1>2, <1>8, <2>1 DEF Streams, StreamPlaces, Holding, Streaming, Dropping
  <2> HIDE DEF k
  <2>4. FramesFit(s, k, rest, f)
    BY <1>6, <1>10, <2>3 DEF FramesFit
  <2>5. NoticesFit(k, rest)
    BY <1>1, <1>2, <1>6, <1>10, <1>25, <2>1, <2>3, NoticeGoes
  <2>6. StreamFits(s, k, rest, f)
    BY <1>6, <2>1, <2>3, <2>4, <2>5 DEF StreamFits
  <2> QED BY <1>2, <1>10, <1>11, <1>20, <1>25, <2>2, <2>3, <2>6
<1> QED BY <1>1, <1>21, <1>22, <1>23, <1>24, <1>25

LEMMA EncodeHolds == ASSUME EncInv, NEW s \in Sessions, Encoding!Encode(s) PROVE EncInv'
<1> DEFINE e == recordings[s].encoder
           t == transform[e]
           f == file[s]
           c == recordings[s]
           n == c.sent + 1
           force == Encoding!Forces(s, t)
<1>1. /\ c.pc = "run" /\ t.events = <<>> /\ c.need > 0 /\ UNCHANGED <<kept, activated, in_use, broken, file>>
      /\ IF t.room > 0
         THEN /\ transform' = [transform EXCEPT ![e].room = @ - 1, ![e].force = FALSE,
                                                ![e].inside = Append(@, [of |-> s, n |-> n, trial |-> c.trial,
                                                                         key |-> force])]
              /\ recordings' = [recordings EXCEPT ![s].need = @ - 1, ![s].sent = n, ![s].at_start = FALSE]
         ELSE /\ transform' = [transform EXCEPT ![e].force = force]
              /\ recordings' = [recordings EXCEPT ![s].need = 0, ![s].at_start = FALSE]
  BY DEF Encoding!Encode
<1>2. /\ Holds(s) /\ c \in Streams /\ f \in Seq(EncFrames) /\ e \in Encoding!Encoders /\ t \in Transforms
      /\ NoOther(s, e) /\ in_use[e] = TRUE /\ StreamFits(s, c, t, f)
  BY <1>1, StreamHas DEF Holds, Holding, Streaming
<1>3. /\ recordings \in [Sessions -> Streams] /\ file \in [Sessions -> Seq(EncFrames)]
      /\ in_use \in [Encoding!Encoders -> BOOLEAN] /\ transform \in [Encoding!Encoders -> Transforms]
  BY DEF EncInv, EncTypes
<1>5. Around
  BY <1>1 DEF Around, EncInv, EncTypes
<1>6. FileFits(s, f) /\ FramesFit(s, c, t, f) /\ NoticesFit(c, t) /\ (c.trial = TRUE => f = <<>>)
  BY <1>1, <1>2 DEF StreamFits, Streaming
<1>7. in_use' = [in_use EXCEPT ![e] = TRUE] /\ file' = [file EXCEPT ![s] = f]
  BY <1>1, <1>2, <1>3
<1>8. /\ t.ready \in Seq(EncFrames) /\ c.outputs \in Nat /\ c.sent \in Nat /\ c.need \in Nat /\ t.room \in Nat
      /\ c.trial \in BOOLEAN /\ c.at_start \in BOOLEAN /\ c.encoder = e /\ t.inside \in Seq(EncFrames)
      /\ t.force \in BOOLEAN
  BY <1>2 DEF Transforms, Streams
<1>9. force \in BOOLEAN /\ (c.sent = 0 => force = TRUE)
  BY <1>6, <1>8 DEF Encoding!Forces, FramesFit
<1>10. PICK m \in Nat : Wait(t.events, m, "need", "never") /\ t.room <= c.need + m
  BY <1>1, <1>6 DEF NoticesFit, RoomAsked
<1>11. t.draining = FALSE /\ NoDrained(t.events) /\ Wait(t.events, Len(t.ready), "have", "drained")
  BY <1>1, <1>6 DEF NoticesFit
<1> HIDE DEF e, t, f, c, n, force
<1>20. ASSUME NEW k \in Streams, NEW r \in Transforms, recordings' = [recordings EXCEPT ![s] = k],
              transform' = [transform EXCEPT ![e] = r], k.encoder = e, k.pc = "run", k.trial = c.trial,
              FramesFit(s, k, r, f), r.events = t.events, r.ready = t.ready, r.draining = FALSE, r.room <= k.need + m
       PROVE  EncInv'
  <2>1. Changes(s, e, k, r, f, TRUE)
    BY <1>7, <1>20 DEF Changes
  <2>2. NoticesFit(k, r)
    BY <1>10, <1>11, <1>20 DEF NoticesFit, RoomAsked
  <2>3. StreamFits(s, k, r, f)
    BY <1>6, <1>20, <2>2 DEF StreamFits
  <2> QED BY <1>2, <1>5, <1>20, <2>1, <2>3, OneStream DEF Holding, Streaming
<1>21. CASE t.room > 0
  <2> DEFINE x == [of |-> s, n |-> n, trial |-> c.trial, key |-> force]
             k == [c EXCEPT !.need = @ - 1, !.sent = n, !.at_start = FALSE]
             r == [t EXCEPT !.room = @ - 1, !.force = FALSE, !.inside = Append(@, x)]
  <2>1. n \in Nat /\ c.need - 1 \in Nat /\ t.room - 1 \in Nat /\ n = c.sent + 1
    BY <1>1, <1>8, <1>21 DEF n
  <2>2. x \in EncFrames /\ x.of = s /\ x.n = n /\ x.trial = c.trial /\ x.key = force
    BY <1>8, <1>9, <2>1 DEF EncFrames
  <2> HIDE DEF x
  <2>3. Append(t.inside, x) \in Seq(EncFrames) /\ Len(Append(t.inside, x)) = Len(t.inside) + 1
          /\ Len(t.inside) \in Nat
    BY <1>8, <2>2, AppendProperties, LenProperties
  <2>4. /\ k \in Streams /\ k.pc = "run" /\ k.encoder = e /\ k.trial = c.trial /\ k.need = c.need - 1
        /\ k.sent = n /\ k.outputs = c.outputs
    BY <1>1, <1>2, <1>8, <2>1 DEF Streams
  <2>5. /\ r \in Transforms /\ r.events = t.events /\ r.ready = t.ready /\ r.draining = FALSE /\ r.room = t.room - 1
        /\ r.inside = Append(t.inside, x)
    BY <1>2, <1>11, <2>1, <2>3 DEF Transforms
  <2>6. recordings' = [recordings EXCEPT ![s] = k] /\ transform' = [transform EXCEPT ![e] = r]
    BY <1>1, <1>21 DEF c, t, x
  <2> HIDE DEF k, r
  <2>7. Len(t.ready) \in Nat /\ c.outputs + Len(t.ready) + Len(t.inside) = c.sent
    BY <1>6, <1>8, LenProperties DEF FramesFit
  <2>8. FrameFits(x, s, k.trial, k.outputs + Len(r.ready) + (Len(t.inside) + 1))
    <3>1. k.outputs + Len(r.ready) + (Len(t.inside) + 1) = n
      <4>1. k.outputs = c.outputs /\ Len(r.ready) = Len(t.ready)
        BY <2>4, <2>5
      <4>2. c.outputs + Len(t.ready) + (Len(t.inside) + 1) = c.sent + 1
        <5>1. c.outputs \in Int /\ Len(t.ready) \in Int /\ Len(t.inside) \in Int
          BY <1>8, <2>3, <2>7
        <5>2. c.outputs + Len(t.ready) + (Len(t.inside) + 1) = (c.outputs + Len(t.ready) + Len(t.inside)) + 1
          BY <5>1, Sums, Zenon
        <5>3. (c.outputs + Len(t.ready) + Len(t.inside)) + 1 = c.sent + 1
          BY <2>7
        <5> QED BY <5>1, <5>2, <5>3, Zenon
      <4> QED BY <2>1, <4>1, <4>2
    <3>2. n = 1 => c.sent = 0
      BY <1>8, <2>1
    <3> QED BY <1>9, <2>2, <2>4, <3>1, <3>2 DEF FrameFits
  <2>9. FramesFit(s, k, r, f)
    <3>1. k.outputs + Len(r.ready) + Len(r.inside) = k.sent /\ k.sent # 0
      <4>1. k.outputs = c.outputs /\ k.sent = n /\ Len(r.ready) = Len(t.ready) /\ Len(r.inside) = Len(t.inside) + 1
        BY <2>3, <2>4, <2>5
      <4>2. c.outputs + Len(t.ready) + (Len(t.inside) + 1) = c.sent + 1 /\ c.sent + 1 # 0
        <5>1. c.outputs \in Int /\ Len(t.ready) \in Int /\ Len(t.inside) \in Int /\ c.sent + 1 # 0
          BY <1>8, <2>3, <2>7
        <5>2. c.outputs + Len(t.ready) + (Len(t.inside) + 1) = (c.outputs + Len(t.ready) + Len(t.inside)) + 1
          BY <5>1, Sums, Zenon
        <5>3. (c.outputs + Len(t.ready) + Len(t.inside)) + 1 = c.sent + 1
          BY <2>7
        <5> QED BY <5>1, <5>2, <5>3, Zenon
      <4> QED BY <2>1, <4>1, <4>2
    <3>2. \A i \in DOMAIN r.inside : FrameFits(r.inside[i], s, k.trial, k.outputs + Len(r.ready) + i)
      <4>1. \A i \in DOMAIN r.inside : (i \in DOMAIN t.inside /\ r.inside[i] = t.inside[i])
                                       \/ (i = Len(t.inside) + 1 /\ r.inside[i] = x)
        BY <1>8, <2>2, <2>5, Appended
      <4> QED BY <1>6, <2>4, <2>5, <2>8, <4>1 DEF FramesFit
    <3> QED BY <1>6, <2>4, <2>5, <3>1, <3>2 DEF FramesFit
  <2>10. r.room <= k.need + m
    BY <1>8, <1>10, <2>4, <2>5
  <2> QED BY <1>20, <2>4, <2>5, <2>6, <2>9, <2>10
<1>22. CASE ~(t.room > 0)
  <2> DEFINE k == [c EXCEPT !.need = 0, !.at_start = FALSE]
             r == [t EXCEPT !.force = force]
  <2>1. /\ k \in Streams /\ k.pc = "run" /\ k.encoder = e /\ k.trial = c.trial /\ k.need = 0
        /\ k.sent = c.sent /\ k.outputs = c.outputs
    BY <1>1, <1>2, <1>8 DEF Streams
  <2>2. /\ r \in Transforms /\ r.events = t.events /\ r.ready = t.ready /\ r.draining = FALSE /\ r.room = t.room
        /\ r.inside = t.inside /\ r.force = force
    BY <1>2, <1>9, <1>11 DEF Transforms
  <2>3. recordings' = [recordings EXCEPT ![s] = k] /\ transform' = [transform EXCEPT ![e] = r]
    BY <1>1, <1>22 DEF c, t
  <2> HIDE DEF k, r
  <2>4. FramesFit(s, k, r, f)
    BY <1>6, <1>9, <2>1, <2>2 DEF FramesFit
  <2>5. r.room <= k.need + m
    BY <1>8, <1>10, <1>22, <2>1, <2>2
  <2> QED BY <1>20, <2>1, <2>2, <2>3, <2>4, <2>5
<1> QED BY <1>21, <1>22

LEMMA DrainHolds == ASSUME EncInv, NEW s \in Sessions, Encoding!Drain(s) PROVE EncInv'
<1> DEFINE e == recordings[s].encoder
           t == transform[e]
           f == file[s]
           c == recordings[s]
           p == IF c.pc = "run" THEN "drain" ELSE "drain_failed"
           k == [c EXCEPT !.pc = p]
           r == [t EXCEPT !.draining = TRUE]
<1>1. /\ c.pc \in {"run", "stopped"} /\ UNCHANGED <<kept, activated, in_use, broken, file>>
      /\ transform' = [transform EXCEPT ![e] = r] /\ recordings' = [recordings EXCEPT ![s] = k]
  BY DEF Encoding!Drain
<1>2. /\ Holds(s) /\ c \in Streams /\ f \in Seq(EncFrames) /\ e \in Encoding!Encoders /\ t \in Transforms
      /\ NoOther(s, e) /\ in_use[e] = TRUE /\ StreamFits(s, c, t, f)
  BY <1>1, StreamHas DEF Holds, Holding, Streaming, Dropping
<1>3. /\ recordings \in [Sessions -> Streams] /\ file \in [Sessions -> Seq(EncFrames)]
      /\ in_use \in [Encoding!Encoders -> BOOLEAN] /\ transform \in [Encoding!Encoders -> Transforms]
  BY DEF EncInv, EncTypes
<1>4. Around
  BY <1>1 DEF Around, EncInv, EncTypes
<1>5. FileFits(s, f) /\ FramesFit(s, c, t, f) /\ NoticesFit(c, t) /\ (c.trial = TRUE => f = <<>>)
  BY <1>1, <1>2 DEF StreamFits, Streaming
<1>6. in_use' = [in_use EXCEPT ![e] = TRUE] /\ file' = [file EXCEPT ![s] = f]
  BY <1>1, <1>2, <1>3
<1>7. /\ k \in Streams /\ k.pc \in {"drain", "drain_failed"} /\ k.encoder = e /\ k.trial = c.trial /\ k.sent = c.sent
      /\ k.outputs = c.outputs /\ k.at_start = c.at_start
  BY <1>2 DEF Streams, StreamPlaces, Holding, Streaming
<1>8. /\ r \in Transforms /\ r.events = t.events /\ r.ready = t.ready /\ r.inside = t.inside /\ r.force = t.force
  BY <1>2 DEF Transforms
<1> HIDE DEF e, t, f, c, k, r
<1>9. FramesFit(s, k, r, f)
  BY <1>5, <1>7, <1>8 DEF FramesFit
<1>10. NoticesFit(k, r)
  BY <1>5, <1>7, <1>8 DEF NoticesFit
<1>11. StreamFits(s, k, r, f)
  BY <1>5, <1>7, <1>9, <1>10 DEF StreamFits, Streaming
<1>12. Changes(s, e, k, r, f, TRUE)
  BY <1>1, <1>6 DEF Changes
<1> QED BY <1>2, <1>4, <1>7, <1>8, <1>11, <1>12, OneStream DEF Holding, Streaming

LEMMA StreamDrops == ASSUME EncInv, NEW s \in Sessions, Encoding!Drop(s) PROVE EncInv'
<1> DEFINE e == recordings[s].encoder
           t == transform[e]
           f == file[s]
           c == recordings[s]
           p == Encoding!AfterDrop(c)
           k == [c EXCEPT !.pc = p, !.trial = FALSE, !.streaming = FALSE]
<1>1. /\ c.pc \in Dropping /\ UNCHANGED <<kept, activated, file>>
      /\ recordings' = [recordings EXCEPT ![s] = k] /\ in_use' = [in_use EXCEPT ![e] = FALSE]
      /\ UNCHANGED broken \/ broken' = [broken EXCEPT ![e] = TRUE]
  BY DEF Encoding!Drop, Dropping
<1>14. PICK r : /\ transform' = [transform EXCEPT ![e] = r]
                /\ r = [t EXCEPT !.events = <<>>] \/ \E errs : r = Encoding!BackToIdle(t, errs)
  BY DEF Encoding!Drop
<1>2. /\ Holds(s) /\ c \in Streams /\ f \in Seq(EncFrames) /\ e \in Encoding!Encoders /\ t \in Transforms
      /\ NoOther(s, e) /\ in_use[e] = TRUE /\ StreamFits(s, c, t, f)
  BY <1>1, StreamHas DEF Holds, Holding, Streaming, Dropping
<1>3. /\ recordings \in [Sessions -> Streams] /\ file \in [Sessions -> Seq(EncFrames)]
      /\ in_use \in [Encoding!Encoders -> BOOLEAN] /\ transform \in [Encoding!Encoders -> Transforms]
  BY DEF EncInv, EncTypes
<1>15. broken' \in [Encoding!Encoders -> BOOLEAN]
  BY <1>1 DEF EncInv, EncTypes
<1>4. Around
  BY <1>1, <1>15 DEF Around, EncInv, EncTypes
<1>5. FileFits(s, f) /\ (c.trial = TRUE => f = <<>>) /\ (c.pc = "drop" /\ c.trial = FALSE => Len(f) = c.sent)
  BY <1>1, <1>2 DEF StreamFits
<1>6. file' = [file EXCEPT ![s] = f] /\ c.trial \in BOOLEAN /\ c.encoder = e /\ t.ready \in Seq(EncFrames)
  BY <1>1, <1>2, <1>3 DEF Streams, Transforms
<1>7. /\ p \in {"begin", "done", "software", "done_with_a_problem"} /\ (p = "begin" => c.trial = TRUE)
      /\ (p = "done" => c.pc = "drop" /\ c.trial = FALSE)
  BY <1>1, <1>6 DEF Encoding!AfterDrop, Dropping
<1> HIDE DEF p
<1>8. /\ k \in Streams /\ k.pc = p /\ k.encoder = e /\ k.trial = FALSE /\ k.sent = c.sent /\ k.streaming = FALSE
  BY <1>2, <1>7 DEF Streams, StreamPlaces
<1>9. r \in Transforms
  <2>1. [t EXCEPT !.events = <<>>] \in Transforms
    BY <1>2, NothingWaits DEF Transforms
  <2>2. Encoding!Flushed(t) \in Transforms
    BY <1>2, NothingWaits DEF Transforms, Encoding!Flushed
  <2>3. ASSUME NEW errs PROVE Encoding!BackToIdle(t, errs) \in Transforms
    <3> DEFINE u == IF "flush" \in errs THEN t ELSE Encoding!Flushed(t)
               b == u.streaming /\ "end" \in errs
    <3>1. u \in Transforms
      BY <1>2, <2>2
    <3>2. Encoding!BackToIdle(t, errs) = [u EXCEPT !.events = <<>>, !.used = TRUE, !.streaming = b]
      BY DEF Encoding!BackToIdle
    <3>3. b \in BOOLEAN
      OBVIOUS
    <3> HIDE DEF b, u
    <3> QED BY <3>1, <3>2, <3>3, NothingWaits DEF Transforms
  <2> QED BY <1>14, <2>1, <2>3
<1> HIDE DEF e, t, f, c, k
<1>10. StreamFits(s, k, r, f)
  BY <1>5, <1>6, <1>7, <1>8 DEF StreamFits, Streaming
<1>11. Changes(s, e, k, r, f, FALSE)
  BY <1>1, <1>6, <1>14 DEF Changes
<1>12. k.pc \notin Holding
  BY <1>7, <1>8 DEF Holding, Streaming, Dropping
<1> QED BY <1>2, <1>4, <1>8, <1>9, <1>10, <1>11, <1>12, OneStream

LEMMA LostHolds == ASSUME EncInv, Encoding!DeviceLost PROVE EncInv'
<1>1. UNCHANGED <<activated, in_use, broken, transform, recordings, file>> /\ kept' = NoEncoder
  BY DEF Encoding!DeviceLost
<1>2. Around
  BY <1>1 DEF Around, EncInv, EncTypes
<1> QED BY <1>1, <1>2, SameEncoders

(* A notice comes from Windows.                                              *)
LEMMA NoticeComes ==
  ASSUME NEW k \in Streams, NEW t \in Transforms, NEW r \in Transforms, NEW x \in Notices,
         r.events = Append(t.events, x), r.ready = t.ready, r.inside = t.inside,
         k.pc = "run" => r.draining = t.draining, x = "drained" => t.inside = <<>> /\ k.pc # "run",
         r.room = t.room \/ (r.room = t.room + 1 /\ x = "need"), NoticesFit(k, t)
  PROVE  NoticesFit(k, r)
<1>1. /\ t.events \in Seq(Notices) /\ t.ready \in Seq(EncFrames) /\ t.room \in Nat /\ k.need \in Nat
  BY DEF Transforms, Streams
<1>2. Wait(r.events, Len(r.ready), "have", "drained")
  <2>1. Len(t.ready) \in Nat /\ Wait(t.events, Len(t.ready), "have", "drained")
    BY <1>1, LenProperties DEF NoticesFit
  <2> QED BY <1>1, <2>1, OthersComes
<1>3. NoDrained(t.events) /\ x # "drained" => NoDrained(r.events)
  BY <1>1, Appended DEF NoDrained
<1>4. ASSUME RoomAsked(k, t) PROVE RoomAsked(k, r)
  <2>1. PICK n \in Nat : Wait(t.events, n, "need", "never") /\ t.room <= k.need + n
    BY <1>4 DEF RoomAsked
  <2>2. CASE r.room = t.room
    <3>1. Wait(r.events, n, "need", "never")
      BY <1>1, <2>1, OthersComes
    <3> QED BY <2>1, <2>2, <3>1 DEF RoomAsked
  <2>3. CASE r.room = t.room + 1 /\ x = "need"
    <3>1. \A j \in DOMAIN t.events : t.events[j] # "never"
      <4>1. \A j \in DOMAIN t.events : t.events[j] \in Notices
        BY <1>1
      <4> QED BY <4>1 DEF Notices
    <3>2. Wait(r.events, n + 1, "need", "never") /\ n + 1 \in Nat
      BY <1>1, <2>1, <2>3, <3>1, OneMoreWaits
    <3>3. r.room <= k.need + (n + 1)
      BY <1>1, <2>1, <2>3
    <3> QED BY <3>2, <3>3 DEF RoomAsked
  <2> QED BY <2>2, <2>3
<1> QED BY <1>2, <1>3, <1>4 DEF NoticesFit

LEMMA WindowsHolds ==
  ASSUME Encoding!EncoderAssumption, EncInv, NEW e \in 1 .. activated,
         \/ Encoding!AsksForInput(e) \/ Encoding!Compresses(e) \/ Encoding!Drained(e)
         \/ Encoding!Breaks(e) \/ Encoding!LateNotice(e)
  PROVE  EncInv'
<1> DEFINE t == transform[e]
<1>1. UNCHANGED <<kept, activated, in_use, broken, recordings, file>>
  <2>1. CASE Encoding!AsksForInput(e)
    BY <2>1 DEF Encoding!AsksForInput
  <2>2. CASE Encoding!Compresses(e)
    BY <2>2 DEF Encoding!Compresses
  <2>3. CASE Encoding!Drained(e)
    BY <2>3 DEF Encoding!Drained
  <2>4. CASE Encoding!Breaks(e)
    BY <2>4 DEF Encoding!Breaks
  <2>5. CASE Encoding!LateNotice(e)
    BY <2>5 DEF Encoding!LateNotice
  <2> QED BY <2>1, <2>2, <2>3, <2>4, <2>5
<1>2. e \in Encoding!Encoders
  <2>1. activated \in 0 .. MaxEncoders
    BY DEF EncInv, EncTypes
  <2> QED BY <2>1 DEF Encoding!EncoderAssumption, Encoding!Encoders
<1>3. /\ t \in Transforms /\ t.events \in Seq(Notices) /\ t.room \in Nat /\ t.inside \in Seq(EncFrames)
      /\ t.ready \in Seq(EncFrames) /\ recordings \in [Sessions -> Streams]
  BY <1>2 DEF EncInv, EncTypes, Transforms
<1>4. \A s \in Sessions : recordings[s].outputs \in Nat
  BY <1>3 DEF Streams
<1>5. \A x \in Notices : Append(t.events, x) \in Seq(Notices)
  BY <1>3, AppendProperties
<1>6. ASSUME NEW x \in Notices, x # "drained", NEW r \in Transforms, transform' = [transform EXCEPT ![e] = r],
             r.events = Append(t.events, x), r.ready = t.ready, r.inside = t.inside, r.draining = t.draining,
             r.force = t.force, r.room = t.room \/ (r.room = t.room + 1 /\ x = "need")
      PROVE  EncInv'
  <2>1. \A s \in Sessions : FramesFit(s, recordings[s], t, file[s]) => FramesFit(s, recordings[s], r, file[s])
    BY <1>6 DEF FramesFit
  <2> HIDE DEF t
  <2>2. \A s \in Sessions : NoticesFit(recordings[s], t) => NoticesFit(recordings[s], r)
    BY <1>3, <1>6, NoticeComes
  <2> QED BY <1>1, <1>2, <1>6, <2>1, <2>2, OneTransform DEF t
<1>7. CASE Encoding!AsksForInput(e)
  <2> DEFINE r == [t EXCEPT !.events = Append(@, "need"), !.room = @ + 1]
  <2>1. transform' = [transform EXCEPT ![e] = r]
    BY <1>7 DEF Encoding!AsksForInput
  <2>2. /\ r \in Transforms /\ r.events = Append(t.events, "need") /\ r.ready = t.ready /\ r.inside = t.inside
        /\ r.draining = t.draining /\ r.force = t.force /\ r.room = t.room + 1
    <3>1. Append(t.events, "need") \in Seq(Notices) /\ t.room + 1 \in Nat
      BY <1>3, <1>5 DEF Notices
    <3> HIDE DEF t
    <3> QED BY <1>3, <3>1 DEF Transforms
  <2> HIDE DEF r, t
  <2> QED BY <1>6, <2>1, <2>2 DEF Notices
<1>8. CASE Encoding!Compresses(e)
  <2> DEFINE x == Head(t.inside)
             r == [t EXCEPT !.events = Append(@, "have"), !.inside = Tail(@), !.ready = Append(@, x)]
  <2>1. transform' = [transform EXCEPT ![e] = r] /\ t.inside # <<>>
    BY <1>8 DEF Encoding!Compresses
  <2>2. /\ Tail(t.inside) \in Seq(EncFrames) /\ x \in EncFrames /\ Len(Tail(t.inside)) = Len(t.inside) - 1
        /\ Len(t.inside) \in Nat /\ Len(t.inside) > 0
    BY <1>3, <2>1, Shorter
  <2>3. Append(t.ready, x) \in Seq(EncFrames) /\ Len(Append(t.ready, x)) = Len(t.ready) + 1 /\ Len(t.ready) \in Nat
    BY <1>3, <2>2, AppendProperties, LenProperties
  <2>4. /\ 1 \in DOMAIN t.inside /\ x = t.inside[1]
        /\ \A i \in DOMAIN Tail(t.inside) : i + 1 \in DOMAIN t.inside /\ Tail(t.inside)[i] = t.inside[i + 1]
             /\ i \in Int
    BY <1>3, <2>1, HeadTaken
  <2>5. \A i \in DOMAIN Append(t.ready, x) : (i \in DOMAIN t.ready /\ Append(t.ready, x)[i] = t.ready[i])
                                              \/ (i = Len(t.ready) + 1 /\ Append(t.ready, x)[i] = x)
    BY <1>3, <2>2, Appended
  <2> HIDE DEF x
  <2>6. /\ r \in Transforms /\ r.events = Append(t.events, "have") /\ r.ready = Append(t.ready, x)
        /\ r.inside = Tail(t.inside) /\ r.draining = t.draining /\ r.force = t.force /\ r.room = t.room
    BY <1>3, <1>5, <2>2, <2>3 DEF Transforms, Notices
  <2> HIDE DEF r, t
  <2>8. ASSUME NEW s \in Sessions, FramesFit(s, recordings[s], t, file[s]), NoticesFit(recordings[s], t)
        PROVE  FramesFit(s, recordings[s], r, file[s]) /\ NoticesFit(recordings[s], r)
    <3> DEFINE k == recordings[s]
    <3>1. k \in Streams /\ k.outputs \in Nat /\ k.need \in Nat
      BY <1>3 DEF Streams
    <3> HIDE DEF k
    <3>2. /\ k.outputs + Len(t.ready) + Len(t.inside) = k.sent
          /\ \A i \in DOMAIN t.ready : FrameFits(t.ready[i], s, k.trial, k.outputs + i)
          /\ \A i \in DOMAIN t.inside : FrameFits(t.inside[i], s, k.trial, k.outputs + Len(t.ready) + i)
          /\ k.trial = FALSE => Len(file[s]) = k.outputs
          /\ k.sent = 0 => k.at_start = TRUE \/ t.force = TRUE
      BY <2>8 DEF FramesFit, k
    <3>3. k.outputs + Len(r.ready) + Len(r.inside) = k.sent
      <4>1. Len(r.ready) = Len(t.ready) + 1 /\ Len(r.inside) = Len(t.inside) - 1
        BY <2>2, <2>3, <2>6
      <4>2. k.outputs + (Len(t.ready) + 1) + (Len(t.inside) - 1) = k.outputs + Len(t.ready) + Len(t.inside)
        BY <2>2, <2>3, <3>1
      <4> QED BY <3>2, <4>1, <4>2
    <3>4. \A i \in DOMAIN r.ready : FrameFits(r.ready[i], s, k.trial, k.outputs + i)
      <4>1. FrameFits(x, s, k.trial, k.outputs + (Len(t.ready) + 1))
        <5>1. k.outputs + Len(t.ready) + 1 = k.outputs + (Len(t.ready) + 1)
          BY <2>3, <3>1
        <5>2. FrameFits(x, s, k.trial, k.outputs + Len(t.ready) + 1)
          BY <2>4, <3>2
        <5> QED BY <5>1, <5>2
      <4> QED BY <2>5, <2>6, <3>2, <4>1
    <3>5. \A i \in DOMAIN r.inside : FrameFits(r.inside[i], s, k.trial, k.outputs + Len(r.ready) + i)
      <4> SUFFICES ASSUME NEW i \in DOMAIN r.inside
                   PROVE  FrameFits(r.inside[i], s, k.trial, k.outputs + Len(r.ready) + i)
        OBVIOUS
      <4>1. i + 1 \in DOMAIN t.inside /\ r.inside[i] = t.inside[i + 1] /\ i \in Int
        BY <2>4, <2>6
      <4>2. k.outputs + Len(t.ready) + (i + 1) = k.outputs + Len(r.ready) + i
        <5>1. Len(r.ready) = Len(t.ready) + 1
          BY <2>3, <2>6
        <5>2. k.outputs + Len(t.ready) + (i + 1) = k.outputs + (Len(t.ready) + 1) + i
          <6>1. Len(t.ready) \in Int /\ k.outputs \in Int /\ i \in Int
            BY <2>3, <3>1, <4>1
          <6> QED BY <6>1, Sums, Zenon
        <5> QED BY <5>1, <5>2
      <4>3. FrameFits(t.inside[i + 1], s, k.trial, k.outputs + Len(t.ready) + (i + 1))
        BY <3>2, <4>1
      <4> QED BY <4>1, <4>2, <4>3
    <3>6. FramesFit(s, k, r, file[s])
      BY <2>6, <3>2, <3>3, <3>4, <3>5 DEF FramesFit
    <3>7. /\ NoDrained(t.events) /\ Wait(t.events, Len(t.ready), "have", "drained")
          /\ k.pc = "run" => t.draining = FALSE /\ RoomAsked(k, t)
      BY <2>1, <2>8 DEF NoticesFit, k
    <3>8. NoDrained(r.events)
      BY <1>3, <2>6, <3>7, Appended DEF NoDrained, Notices
    <3>9. Wait(r.events, Len(r.ready), "have", "drained")
      BY <1>3, <2>3, <2>6, <3>7, OneMoreWaits DEF NoDrained, Notices
    <3>10. ASSUME RoomAsked(k, t) PROVE RoomAsked(k, r)
      <4>1. PICK n \in Nat : Wait(t.events, n, "need", "never") /\ t.room <= k.need + n
        BY <3>10 DEF RoomAsked
      <4>2. Wait(r.events, n, "need", "never")
        BY <1>3, <2>6, <4>1, OthersComes DEF Notices
      <4> QED BY <2>6, <4>1, <4>2 DEF RoomAsked
    <3>11. NoticesFit(k, r)
      BY <2>6, <3>7, <3>8, <3>9, <3>10 DEF NoticesFit
    <3> QED BY <3>6, <3>11 DEF k
  <2> QED BY <1>1, <1>2, <2>1, <2>6, <2>8, OneTransform DEF t
<1>9. CASE Encoding!Drained(e)
  <2> DEFINE r == [t EXCEPT !.events = Append(@, "drained"), !.draining = FALSE]
  <2>1. transform' = [transform EXCEPT ![e] = r] /\ t.draining /\ t.inside = <<>>
    BY <1>9 DEF Encoding!Drained
  <2>2. /\ r \in Transforms /\ r.events = Append(t.events, "drained") /\ r.ready = t.ready /\ r.inside = t.inside
        /\ r.force = t.force /\ r.room = t.room
    BY <1>3, <1>5 DEF Transforms, Notices
  <2>3. \A s \in Sessions : FramesFit(s, recordings[s], t, file[s]) => FramesFit(s, recordings[s], r, file[s])
    BY <2>2 DEF FramesFit
  <2> HIDE DEF r, t
  <2>5. \A s \in Sessions : NoticesFit(recordings[s], t) => recordings[s].pc # "run"
    BY <2>1 DEF NoticesFit
  <2>6. \A s \in Sessions : NoticesFit(recordings[s], t) => NoticesFit(recordings[s], r)
    BY <1>3, <2>1, <2>2, <2>5, NoticeComes DEF Notices
  <2> QED BY <1>1, <1>2, <2>1, <2>2, <2>3, <2>6, OneTransform DEF t
<1>10. ASSUME NEW x \in Notices, x # "drained", transform' = [transform EXCEPT ![e].events = Append(@, x)]
       PROVE  EncInv'
  <2> DEFINE r == [t EXCEPT !.events = Append(@, x)]
  <2>1. transform' = [transform EXCEPT ![e] = r]
    BY <1>10
  <2>2. /\ r \in Transforms /\ r.events = Append(t.events, x) /\ r.ready = t.ready /\ r.inside = t.inside
        /\ r.draining = t.draining /\ r.force = t.force /\ r.room = t.room
    BY <1>3, <1>5 DEF Transforms
  <2> HIDE DEF r, t
  <2> QED BY <1>6, <1>10, <2>1, <2>2
<1>11. CASE Encoding!Breaks(e) \/ Encoding!LateNotice(e)
  BY <1>10, <1>11 DEF Encoding!Breaks, Encoding!LateNotice, Encoding!Emit, Notices
<1> QED BY <1>7, <1>8, <1>9, <1>11

LEMMA EncStep == ASSUME Encoding!EncoderAssumption, EncInv, Encoding!EncoderNext PROVE EncInv'
<1>1. ASSUME NEW s \in Sessions,
             \/ Encoding!GoesSoft(s) \/ Encoding!Acquire(s) \/ Encoding!Begin(s) \/ Encoding!Pump(s)
             \/ Encoding!Encode(s) \/ Encoding!Drain(s) \/ Encoding!Drop(s)
             \/ Encoding!FindsItBusy(s) \/ Encoding!CallFails(s)
      PROVE  EncInv'
  <2>1. CASE Encoding!GoesSoft(s) \/ Encoding!Acquire(s)
    BY <2>1, StartsHold
  <2>2. CASE Encoding!Begin(s)
    BY <2>2, StreamBegins
  <2>3. CASE Encoding!Pump(s)
    BY <2>3, PumpHolds
  <2>4. CASE Encoding!Encode(s)
    BY <2>4, EncodeHolds
  <2>5. CASE Encoding!Drain(s)
    BY <2>5, DrainHolds
  <2>6. CASE Encoding!Drop(s)
    BY <2>6, StreamDrops
  <2>7. CASE Encoding!FindsItBusy(s) \/ Encoding!CallFails(s)
    BY <2>7, BusyHolds, FailsHold
  <2> QED BY <1>1, <2>1, <2>2, <2>3, <2>4, <2>5, <2>6, <2>7
<1> QED BY <1>1, LostHolds, WindowsHolds DEF Encoding!EncoderNext

LEMMA EncStutter == ASSUME EncInv, UNCHANGED encoderVars PROVE EncInv'
<1>1. UNCHANGED <<in_use, transform, recordings, file, kept, activated, broken>>
  BY DEF encoderVars
<1>2. Around
  BY <1>1 DEF Around, EncInv, EncTypes
<1> QED BY <1>1, <1>2, SameEncoders

LEMMA EncIsRight ==
  ASSUME EncInv
  PROVE  Encoding!EncoderTypeOK /\ Encoding!FilesAreTheirOwn /\ Encoding!NoStreamStarves
<1>1. Encoding!EncoderTypeOK
  <2>1. \A s \in Sessions : recordings[s].pc \in StreamPlaces
    BY StreamHas
  <2>2. \A e \in Encoding!Encoders : in_use[e] \in BOOLEAN /\ broken[e] \in BOOLEAN
    BY DEF EncInv, EncTypes
  <2>3. kept \in Encoding!Encoders \cup {NoEncoder} /\ activated \in 0 .. MaxEncoders
    BY DEF EncInv, EncTypes
  <2> QED BY <2>1, <2>2, <2>3 DEF Encoding!EncoderTypeOK, StreamPlaces, Holding, Streaming, Dropping
<1>2. Encoding!FilesAreTheirOwn
  <2> SUFFICES ASSUME NEW s \in Sessions
               PROVE  /\ \A i \in DOMAIN file[s] :
                           file[s][i].of = s /\ ~file[s][i].trial /\ file[s][i].n = i /\ (i = 1 => file[s][i].key)
                      /\ recordings[s].pc = "done" => Len(file[s]) = recordings[s].sent
    BY DEF Encoding!FilesAreTheirOwn
  <2>1. FileFits(s, file[s])
    BY StreamHas DEF StreamFits
  <2>2. \A i \in DOMAIN file[s] : FrameFits(file[s][i], s, FALSE, i)
    BY <2>1 DEF FileFits
  <2>3. recordings[s].pc = "done" /\ recordings[s].trial = FALSE => Len(file[s]) = recordings[s].sent
    BY StreamHas DEF StreamFits
  <2>4. recordings[s].pc = "done" => recordings[s].trial = FALSE
    BY DEF EncInv, HandsFit
  <2> QED BY <2>2, <2>3, <2>4 DEF FrameFits
<1>3. Encoding!NoStreamStarves
  <2>1. ASSUME NEW s \in Sessions, NEW r \in Sessions, recordings[s].streaming, recordings[r].streaming, s # r
        PROVE  recordings[s].encoder # recordings[r].encoder
    <3>1. recordings[s].streaming = TRUE /\ recordings[r].streaming = TRUE
      BY <2>1, StreamHas
    <3>2. Holds(s) /\ Holds(r)
      BY <3>1 DEF EncInv, HandsFit
    <3> QED BY <2>1, <3>2, StreamHas DEF NoOther
  <2>2. ASSUME NEW s \in Sessions, recordings[s].pc = "run", recordings[s].need = 0
        PROVE  \/ "need" \in Encoding!Range(transform[recordings[s].encoder].events)
               \/ transform[recordings[s].encoder].room = 0
    <3> DEFINE t == transform[recordings[s].encoder]
    <3>1. t \in Transforms /\ NoticesFit(recordings[s], t)
      BY <2>2, StreamHas DEF Holds, Holding, Streaming, StreamFits
    <3>2. t.events \in Seq(Notices) /\ t.room \in Nat
      BY <3>1 DEF Transforms
    <3> HIDE DEF t
    <3>3. PICK n \in Nat : Wait(t.events, n, "need", "never") /\ t.room <= 0 + n
      BY <2>2, <3>1 DEF NoticesFit, RoomAsked
    <3>4. t.room # 0 => n > 0
      BY <3>2, <3>3
    <3>5. t.room # 0 => \E j \in DOMAIN t.events : t.events[j] = "need"
      BY <3>2, <3>3, <3>4, SomeWaits
    <3> QED BY <3>5 DEF Encoding!Range, t
  <2> QED BY <2>1, <2>2 DEF Encoding!NoStreamStarves
<1> QED BY <1>1, <1>2, <1>3

-----------------------------------------------------------------------------
(* A GIF of a video: where its pixels lie, and what is renamed.              *)

(* What is read of a surface of a decoder lies in it.                        *)
LEMMA InRow ==
  ASSUME NEW a \in Nat, NEW n \in Nat, a < n, NEW r \in Nat, NEW c \in Nat, c < r
  PROVE  a * r + c \in 0 .. n * r - 1
<1>1. a * r \in Nat /\ n * r \in Nat
  OBVIOUS
<1> DEFINE d == n - 1 - a
<1>2. d \in Nat /\ n = a + d + 1
  OBVIOUS
<1> HIDE DEF d
<1>3. d * r \in Nat
  BY <1>2
<1>4. n * r = a * r + d * r + r
  BY <1>2
<1> QED BY <1>1, <1>3, <1>4

LayoutFits(l) ==
  /\ l.left \in Nat /\ l.top \in Nat /\ l.width \in Nat /\ l.height \in Nat
  /\ l.left + l.width <= l.frame[1] /\ l.top + l.height <= l.frame[2]
  /\ l.frame[1] \in Nat /\ l.frame[2] \in Nat /\ l.nv12 \in BOOLEAN /\ l.upward \in BOOLEAN
  /\ l.row = IF l.nv12 = TRUE THEN l.frame[1] ELSE 4 * l.frame[1]
  /\ l.frame[1] % 2 = 0 /\ l.frame[2] % 2 = 0

LEMMA EveryLayout ==
  ASSUME Gif!GifAssumption, NEW frame \in FrameSizes, NEW area \in Apertures,
         NEW planar \in BOOLEAN, NEW upward \in BOOLEAN
  PROVE  /\ LayoutFits(Gif!LayoutOf(frame, area, planar, upward))
         /\ Gif!LayoutOf(frame, area, planar, upward).nv12 = planar
<1>1. /\ frame[1] \in Nat /\ frame[2] \in Nat /\ frame[1] % 2 = 0 /\ frame[2] % 2 = 0
      /\ area.left \in Int /\ area.top \in Int /\ area.width \in Int /\ area.height \in Int
      /\ area.left <= frame[1] /\ area.top <= frame[2]
  BY DEF Gif!GifAssumption
<1> DEFINE all == [left |-> 0, top |-> 0, width |-> frame[1], height |-> frame[2], frame |-> frame,
                   nv12 |-> planar, row |-> IF planar THEN frame[1] ELSE 4 * frame[1], upward |-> upward /\ ~planar]
           left == Gif!More(area.left, 0)
           top == Gif!More(area.top, 0)
           w == Gif!Fewer(area.width, Gif!More(0, frame[1] - left))
           h == Gif!Fewer(area.height, Gif!More(0, frame[2] - top))
<1>2. CASE area.width <= 0 \/ area.height <= 0
  <2>1. Gif!LayoutOf(frame, area, planar, upward) = all
    BY <1>2 DEF Gif!LayoutOf
  <2>2. /\ all.left = 0 /\ all.top = 0 /\ all.width = frame[1] /\ all.height = frame[2] /\ all.frame = frame
        /\ all.nv12 = planar /\ all.row = (IF planar THEN frame[1] ELSE 4 * frame[1])
        /\ all.upward = (upward /\ ~planar)
    OBVIOUS
  <2> HIDE DEF all
  <2> QED BY <1>1, <2>1, <2>2 DEF LayoutFits
<1>3. CASE ~(area.width <= 0 \/ area.height <= 0)
  <2>1. Gif!LayoutOf(frame, area, planar, upward)
          = [all EXCEPT !.left = left, !.top = top, !.width = w, !.height = h]
    BY <1>3 DEF Gif!LayoutOf
  <2>2. left \in Nat /\ left <= frame[1] /\ top \in Nat /\ top <= frame[2]
    BY <1>1 DEF Gif!More
  <2> HIDE DEF left, top
  <2>3. w \in Nat /\ left + w <= frame[1] /\ h \in Nat /\ top + h <= frame[2]
    BY <1>1, <1>3, <2>2 DEF Gif!More, Gif!Fewer
  <2> HIDE DEF w, h
  <2> DEFINE l == [all EXCEPT !.left = left, !.top = top, !.width = w, !.height = h]
  <2>4. /\ l.left = left /\ l.top = top /\ l.width = w /\ l.height = h /\ l.frame = frame
        /\ l.nv12 = planar /\ l.row = (IF planar THEN frame[1] ELSE 4 * frame[1]) /\ l.upward = (upward /\ ~planar)
    OBVIOUS
  <2> HIDE DEF l
  <2>5. Gif!LayoutOf(frame, area, planar, upward) = l
    BY <2>1 DEF l
  <2> QED BY <1>1, <2>2, <2>3, <2>4, <2>5 DEF LayoutFits
<1> QED BY <1>2, <1>3

LEMMA RgbCopied ==
  ASSUME NEW l, LayoutFits(l), l.nv12 = FALSE
  PROVE  Gif!CopiedRgb(l) \subseteq 0 .. Gif!Needed(l) - 1
<1> DEFINE f1 == l.frame[1]
           f2 == l.frame[2]
<1>1. /\ l.left \in Nat /\ l.top \in Nat /\ l.width \in Nat /\ l.height \in Nat
      /\ l.left + l.width <= f1 /\ l.top + l.height <= f2 /\ f1 \in Nat /\ f2 \in Nat
      /\ l.row = 4 * f1
  BY DEF LayoutFits
<1>2. Gif!Needed(l) = l.row * f2 /\ l.row * f2 = f2 * l.row
  BY <1>1 DEF Gif!Needed
<1> SUFFICES ASSUME NEW x \in 0 .. l.width - 1, NEW y \in 0 .. l.height - 1, NEW k \in 0 .. 3
             PROVE  (IF l.upward THEN (f2 - 1 - l.top - y) * l.row ELSE (l.top + y) * l.row)
                      + 4 * (l.left + x) + k \in 0 .. f2 * l.row - 1
  BY <1>2 DEF Gif!CopiedRgb
<1> DEFINE c == 4 * (l.left + x) + k
           a == IF l.upward THEN f2 - 1 - l.top - y ELSE l.top + y
<1>3. c \in Nat /\ c < l.row /\ a \in Nat /\ a < f2 /\ l.row \in Nat
  BY <1>1
<1>4. (IF l.upward THEN (f2 - 1 - l.top - y) * l.row ELSE (l.top + y) * l.row) = a * l.row
  OBVIOUS
<1>5. 4 * (l.left + x) \in Nat /\ k \in Nat
  BY <1>1
<1> HIDE DEF a, f1, f2
<1>6. a * l.row + c \in 0 .. f2 * l.row - 1
  <2> HIDE DEF c
  <2> QED BY <1>1, <1>3, InRow
<1>7. a * l.row + 4 * (l.left + x) + k = a * l.row + c
  <2>1. a * l.row \in Int
    BY <1>3
  <2> QED BY <1>5, <2>1
<1> QED BY <1>4, <1>6, <1>7 DEF f2

LEMMA Halves == ASSUME NEW n \in Nat PROVE n \div 2 \in Nat /\ 2 * (n \div 2) <= n /\ n <= 2 * (n \div 2) + 1
  OBVIOUS

LEMMA Nv12Copied ==
  ASSUME NEW l, LayoutFits(l), l.nv12 = TRUE
  PROVE  Gif!CopiedNv12(l) \subseteq 0 .. Gif!Needed(l) - 1
<1> DEFINE f1 == l.frame[1]
           f2 == l.frame[2]
           left == Gif!Even(l.left)
           top == Gif!Even(l.top)
           h == f2 \div 2
           w == f1 \div 2
           p == l.row * h
<1>1. /\ l.left \in Nat /\ l.top \in Nat /\ l.width \in Nat /\ l.height \in Nat
      /\ l.left + l.width <= f1 /\ l.top + l.height <= f2 /\ f1 \in Nat /\ f2 \in Nat
      /\ l.row = f1 /\ f1 % 2 = 0 /\ f2 % 2 = 0
  BY DEF LayoutFits
<1>2. h \in Nat /\ f2 = 2 * h /\ w \in Nat /\ f1 = 2 * w
  <2>1. \A n \in Nat : n % 2 = 0 => n \div 2 \in Nat /\ n = 2 * (n \div 2)
    OBVIOUS
  <2> QED BY <1>1, <2>1
<1>3. /\ left = 2 * (l.left \div 2) /\ left \in Nat /\ left <= l.left /\ l.left \div 2 \in Nat
      /\ top = 2 * (l.top \div 2) /\ top \in Nat /\ top <= l.top /\ top \div 2 = l.top \div 2 /\ top \div 2 \in Nat
  <2>1. \A n \in Nat : /\ Gif!Even(n) = 2 * (n \div 2) /\ Gif!Even(n) \in Nat /\ Gif!Even(n) <= n /\ n \div 2 \in Nat
                       /\ Gif!Even(n) \div 2 = n \div 2
    <3> SUFFICES ASSUME NEW n \in Nat
                 PROVE  /\ n - (n % 2) = 2 * (n \div 2) /\ n - (n % 2) \in Nat /\ n - (n % 2) <= n
                        /\ n \div 2 \in Nat /\ (n - (n % 2)) \div 2 = n \div 2
      BY DEF Gif!Even
    <3> QED OBVIOUS
  <2> QED BY <1>1, <2>1
<1> HIDE DEF f1, f2, left, top, h, w
<1>4. p \in Nat /\ l.row * f2 = 2 * p /\ f2 * l.row = 2 * p /\ h * l.row = p
  <2>1. p \in Nat /\ h * l.row = p
    <3>1. \A r, n \in Nat : r * n \in Nat /\ n * r = r * n
      OBVIOUS
    <3> QED BY <1>1, <1>2, <3>1
  <2>2. l.row * (2 * h) = 2 * (l.row * h)
    BY <1>1, <1>2
  <2>3. l.row * f2 = f2 * l.row
    BY <1>1
  <2> QED BY <1>2, <2>1, <2>2, <2>3
<1> HIDE DEF p
<1>5. Gif!Needed(l) = 3 * p
  <2>1. Gif!Needed(l) = (l.row * f2 * 3) \div 2
    BY DEF Gif!Needed, f2
  <2>2. ((2 * p) * 3) \div 2 = 3 * p
    <3>1. (2 * p) * 3 = 2 * (3 * p) /\ 3 * p \in Nat
      BY <1>4
    <3>2. \A n \in Nat : (2 * n) \div 2 = n
      OBVIOUS
    <3> QED BY <3>1, <3>2
  <2> QED BY <1>4, <2>1, <2>2
<1>6. ASSUME NEW x \in 0 .. l.width - 1, NEW y \in 0 .. l.height - 1
      PROVE  (top + y) * l.row + left + x \in 0 .. 3 * p - 1
  <2> DEFINE a == top + y
             c == left + x
  <2>1. a \in Nat /\ a < f2 /\ c \in Nat /\ c < l.row /\ l.row \in Nat
    <3>1. x \in Nat /\ y \in Nat /\ x < l.width /\ y < l.height
      BY <1>1
    <3>2. a \in Nat /\ c \in Nat /\ l.row \in Nat
      BY <1>1, <1>3, <3>1
    <3>3. a < f2
      <4>1. top \in Nat /\ top <= l.top /\ l.top \in Nat /\ l.height \in Nat /\ f2 \in Nat /\ l.top + l.height <= f2
        BY <1>1, <1>3
      <4> QED BY <3>1, <4>1
    <3>4. c < l.row
      <4>1. left \in Nat /\ left <= l.left /\ l.left \in Nat /\ l.width \in Nat /\ f1 \in Nat
        BY <1>1, <1>3
      <4>2. l.left + l.width <= f1 /\ l.row = f1
        BY <1>1
      <4>3. l.left + x < l.left + l.width
        BY <3>1, <4>1
      <4>4. c <= l.left + x
        BY <3>1, <4>1
      <4> QED BY <3>1, <4>1, <4>2, <4>3, <4>4
    <3> QED BY <3>2, <3>3, <3>4
  <2> HIDE DEF a, c
  <2>2. a * l.row + c \in 0 .. f2 * l.row - 1 /\ a * l.row \in Nat
    BY <1>1, <2>1, InRow
  <2>3. a * l.row + c \in 0 .. 3 * p - 1
    BY <1>4, <2>2
  <2>4. a * l.row + left + x = a * l.row + c
    BY <1>3, <2>2 DEF c
  <2> QED BY <2>3, <2>4 DEF a
<1>7. ASSUME NEW x \in 0 .. l.width - 1, NEW y \in 0 .. l.height - 1, NEW k \in 0 .. 1
      PROVE  l.row * f2 + (top \div 2 + y \div 2) * l.row + left + 2 * (x \div 2) + k \in 0 .. 3 * p - 1
  <2> DEFINE a == top \div 2 + y \div 2
             c == left + 2 * (x \div 2) + k
  <2>1. x \in Nat /\ y \in Nat /\ x <= l.width - 1 /\ y <= l.height - 1
    BY <1>1
  <2>2. x \div 2 \in Nat /\ 2 * (x \div 2) <= x /\ y \div 2 \in Nat /\ 2 * (y \div 2) <= y
    BY <2>1, Halves
  <2>3. a \in Nat /\ a < h
    BY <1>1, <1>2, <1>3, <2>1, <2>2
  <2>4. c \in Nat /\ c < l.row
    BY <1>1, <1>2, <1>3, <2>1, <2>2
  <2>5. 2 * (x \div 2) \in Nat /\ k \in Nat
    BY <2>2
  <2> HIDE DEF a
  <2>6. a * l.row + c \in 0 .. h * l.row - 1 /\ a * l.row \in Nat
    <3> HIDE DEF c
    <3> QED BY <1>1, <1>2, <2>3, <2>4, InRow
  <2>7. 2 * p + (a * l.row + c) \in 0 .. 3 * p - 1
    <3> HIDE DEF c
    <3> QED BY <1>4, <2>4, <2>6
  <2>8. 2 * p + a * l.row + left + 2 * (x \div 2) + k = 2 * p + (a * l.row + c)
    BY <1>3, <1>4, <2>5, <2>6
  <2> QED BY <1>4, <2>7, <2>8 DEF a
<1> QED BY <1>5, <1>6, <1>7 DEF Gif!CopiedNv12, f2, left, top
GifSizes == Int \X Int
Exports == {"decoding", "cannot_read", "decoded", "writing", "written", "done", "failed", "gone"}

(* The frames that were kept have one size, and the file is whole before it  *)
(* gets its name.                                                            *)
BuilderFits ==
  /\ builder.seconds \in Seq(Nat) /\ builder.taken \in Seq(GifSizes) /\ builder.size \in GifSizes
  /\ Len(builder.seconds) = Len(builder.taken) /\ Len(builder.taken) <= MaxFrames
  /\ \A i \in DOMAIN builder.taken : builder.taken[i] = builder.size

GifInv ==
  /\ fps \in Fps /\ stamp \in Nat /\ read_samples \in 0 .. MaxSamples /\ export \in Exports
  /\ LayoutFits(layout) /\ BuilderFits
  /\ gif_part \in {"nothing", "half", "whole"} /\ gif \in {"nothing", "old", "whole"}
  /\ export = "written" => gif_part = "whole"
  /\ export = "done" => gif = "whole"
  /\ export # "done" => gif \in {"nothing", "old"}

LEMMA GifStarts == ASSUME Gif!GifAssumption, Gif!StartOfExport PROVE GifInv
<1>1. 0 \in 0 .. MaxSamples /\ 0 <= MaxFrames
  BY DEF Gif!GifAssumption
<1>2. BuilderFits
  BY <1>1 DEF Gif!StartOfExport, Gif!NewBuilder, BuilderFits, GifSizes
<1>3. LayoutFits(layout)
  BY EveryLayout DEF Gif!StartOfExport
<1> QED BY <1>1, <1>2, <1>3 DEF Gif!StartOfExport, GifInv, Exports

LEMMA TypeKeeps == ASSUME Gif!GifAssumption, GifInv, Gif!TypeChanges PROVE LayoutFits(layout')
<1>1. LayoutFits(layout) /\ layout.nv12 \in BOOLEAN
  BY DEF GifInv, LayoutFits
<1> QED BY <1>1, EveryLayout DEF Gif!TypeChanges

LEMMA TakeKeeps ==
  ASSUME Gif!GifAssumption, GifInv, NEW t \in Nat, NEW l, LayoutFits(l), Gif!Wants(builder, t) = "frame",
         builder' = Gif!Take(builder, t, l)
  PROVE  BuilderFits'
<1> DEFINE size == IF builder.taken = <<>> THEN Gif!ScaledSize(l.width, l.height) ELSE builder.size
<1>1. /\ builder.seconds \in Seq(Nat) /\ builder.taken \in Seq(GifSizes) /\ builder.size \in GifSizes
      /\ Len(builder.seconds) = Len(builder.taken)
      /\ \A i \in DOMAIN builder.taken : builder.taken[i] = builder.size
  BY DEF GifInv, BuilderFits
<1>2. Len(builder.taken) < MaxFrames /\ Len(builder.taken) \in Nat
  <2>1. Len(builder.taken) \in Nat
    BY <1>1, LenProperties
  <2>2. ~(Len(builder.taken) >= MaxFrames)
    BY DEF Gif!Wants
  <2> QED BY <2>1, <2>2 DEF Gif!GifAssumption
<1>3. size \in GifSizes
  <2>1. \A a, b \in Int : Gif!More(a, b) \in Int
    BY DEF Gif!More
  <2>2. Gif!ScaledSize(l.width, l.height) \in GifSizes
    <3> DEFINE w == Gif!More(l.width, 1)
    <3>1. w \in Int /\ w >= 1 /\ Gif!More(l.height, 1) \in Int /\ l.width \in Int /\ l.height \in Int
            /\ MaxWidth \in Nat
      BY DEF LayoutFits, Gif!More, Gif!GifAssumption
    <3> HIDE DEF w
    <3>2. l.width * MaxWidth \in Int /\ l.height * MaxWidth \in Int /\ 2 * w \in Nat \ {0}
      BY <3>1
    <3>3. \A a \in Int : Gif!HalfUp(a, w) \in Int
      <4>1. \A x \in Int, y \in Nat \ {0} : x \div y \in Int
        OBVIOUS
      <4>2. \A a \in Int : 2 * a + w \in Int
        BY <3>1
      <4> SUFFICES ASSUME NEW a \in Int PROVE (2 * a + w) \div (2 * w) \in Int
        BY DEF Gif!HalfUp
      <4> DEFINE x == 2 * a + w
                 y == 2 * w
      <4>3. x \in Int /\ y \in Nat \ {0}
        BY <3>2, <4>2
      <4> HIDE DEF x, y
      <4>4. x \div y \in Int
        BY <4>1, <4>3
      <4> QED BY <4>4 DEF x, y
    <3>4. Gif!More(1, Gif!HalfUp(l.width * MaxWidth, w)) \in Int
            /\ Gif!More(1, Gif!HalfUp(l.height * MaxWidth, w)) \in Int
      <4>1. Gif!HalfUp(l.width * MaxWidth, w) \in Int /\ Gif!HalfUp(l.height * MaxWidth, w) \in Int
        BY <3>2, <3>3, Zenon
      <4>2. 1 \in Int
        OBVIOUS
      <4> QED BY <2>1, <4>1, <4>2, Zenon
    <3> QED BY <3>1, <3>4 DEF Gif!ScaledSize, GifSizes, w
  <2> QED BY <1>1, <2>2
<1> HIDE DEF size
<1>4. builder' = [next_sample |-> Gif!NextSample(builder, t), seconds |-> Append(builder.seconds, t),
                  taken |-> Append(builder.taken, size), size |-> size]
  BY DEF Gif!Take, size
<1>5. /\ builder'.seconds = Append(builder.seconds, t) /\ builder'.taken = Append(builder.taken, size)
      /\ builder'.size = size
  BY <1>4
<1>6. /\ Append(builder.seconds, t) \in Seq(Nat) /\ Append(builder.taken, size) \in Seq(GifSizes)
      /\ Len(Append(builder.seconds, t)) = Len(builder.seconds) + 1
      /\ Len(Append(builder.taken, size)) = Len(builder.taken) + 1
  BY <1>1, <1>3, AppendProperties
<1>7. builder.taken # <<>> => size = builder.size
  BY DEF size
<1>8. \A i \in DOMAIN Append(builder.taken, size) : Append(builder.taken, size)[i] = size
  <2>1. CASE builder.taken = <<>>
    BY <1>3, <2>1
  <2>2. CASE builder.taken # <<>>
    BY <1>1, <1>3, <1>7, <2>2, Appended
  <2> QED BY <2>1, <2>2
<1>9. Len(builder.taken) + 1 <= MaxFrames
  BY <1>2 DEF Gif!GifAssumption
<1> QED BY <1>1, <1>3, <1>5, <1>6, <1>8, <1>9 DEF BuilderFits

LEMMA SampleHolds == ASSUME Gif!GifAssumption, GifInv, Gif!ReadSample PROVE GifInv'
<1>1. PICK gap \in IF read_samples = 0 THEN {0} ELSE Gaps, last \in BOOLEAN, short \in {0, 1} :
        /\ stamp' = stamp + gap
        /\ Gif!TypeChanges
        /\ LET want == Gif!Wants(builder, stamp')
               long_enough == Gif!Needed(layout') <= Gif!Needed(layout') - short
           IN  \/ /\ want = "frame" /\ long_enough
                  /\ builder' = Gif!Take(builder, stamp', layout')
                  /\ export' = IF last THEN "decoded" ELSE export
               \/ /\ want = "frame" /\ ~long_enough
                  /\ export' = "failed" /\ UNCHANGED builder
               \/ /\ want = "skip"
                  /\ export' = IF last THEN "decoded" ELSE export
                  /\ UNCHANGED builder
               \/ /\ want = "stop"
                  /\ export' = "decoded" /\ UNCHANGED builder
  BY DEF Gif!ReadSample
<1>2. /\ export = "decoding" /\ read_samples < MaxSamples /\ read_samples' = read_samples + 1
      /\ UNCHANGED <<fps, gif_part, gif>>
  BY DEF Gif!ReadSample
<1>3. gap \in Nat /\ stamp' \in Nat /\ read_samples' \in 0 .. MaxSamples
  BY <1>1, <1>2 DEF GifInv, Gif!GifAssumption
<1>4. LayoutFits(layout')
  BY <1>1, TypeKeeps
<1>5. export' \in {"decoding", "decoded", "failed"}
  BY <1>1, <1>2
<1>6. BuilderFits'
  <2>1. CASE UNCHANGED builder
    BY <2>1 DEF BuilderFits, GifInv
  <2>2. CASE Gif!Wants(builder, stamp') = "frame" /\ builder' = Gif!Take(builder, stamp', layout')
    BY <1>3, <1>4, <2>2, TakeKeeps
  <2> QED BY <1>1, <2>1, <2>2
<1> QED BY <1>2, <1>3, <1>4, <1>5, <1>6 DEF GifInv, Exports

LEMMA GifStep == ASSUME Gif!GifAssumption, GifInv, Gif!GifNext PROVE GifInv'
<1>1. CASE Gif!ReadSample
  BY <1>1, SampleHolds
<1>2. CASE Gif!ReadNothing
  BY <1>2, TypeKeeps DEF Gif!ReadNothing, GifInv, BuilderFits, Exports
<1>3. CASE Gif!ReadFails \/ Gif!NothingDecoded \/ Gif!CreatePart \/ Gif!WriteFrames \/ Gif!Rename \/ Gif!Crash
  <2>1. UNCHANGED <<fps, layout, stamp, read_samples, builder>>
    BY <1>3 DEF Gif!ReadFails, Gif!NothingDecoded, Gif!CreatePart, Gif!WriteFrames, Gif!Rename, Gif!Crash
  <2>2. LayoutFits(layout') /\ BuilderFits'
    BY <2>1 DEF GifInv, BuilderFits
  <2>3. /\ export' \in Exports /\ gif_part' \in {"nothing", "half", "whole"} /\ gif' \in {"nothing", "old", "whole"}
        /\ export' = "written" => gif_part' = "whole"
        /\ export' = "done" => gif' = "whole"
        /\ export' # "done" => gif' \in {"nothing", "old"}
    BY <1>3 DEF GifInv, Exports, Gif!ReadFails, Gif!NothingDecoded, Gif!CreatePart, Gif!WriteFrames, Gif!Rename,
       Gif!Crash
  <2> QED BY <2>1, <2>2, <2>3 DEF GifInv
<1> QED BY <1>1, <1>2, <1>3 DEF Gif!GifNext

LEMMA GifStutter == ASSUME GifInv, UNCHANGED gifVars PROVE GifInv'
  BY DEF GifInv, BuilderFits, gifVars

LEMMA GifIsRight == ASSUME GifInv PROVE Gif!GifTypeOK /\ Gif!GifIsWhole /\ Gif!OnlyThePicture
<1>1. Gif!GifTypeOK /\ Gif!GifIsWhole
  BY DEF GifInv, BuilderFits, Gif!GifTypeOK, Gif!GifIsWhole, Exports
<1>2. LayoutFits(layout)
  BY DEF GifInv
<1>3. Gif!OnlyThePicture
  <2>1. CASE layout.nv12 = TRUE
    BY <1>2, <2>1, Nv12Copied DEF Gif!OnlyThePicture, LayoutFits
  <2>2. CASE layout.nv12 = FALSE
    BY <1>2, <2>2, RgbCopied DEF Gif!OnlyThePicture, LayoutFits
  <2> QED BY <1>2, <2>1, <2>2 DEF LayoutFits
<1> QED BY <1>1, <1>3

-----------------------------------------------------------------------------
(* An audio input: what is heard of its device.                              *)

(* An open stream has the rate of the device it was opened on.               *)
IsStream(x) == {"open", "rate"} \subseteq DOMAIN x /\ x.open = TRUE /\ x.rate \in Rates

InputInv ==
  /\ endpoint \in Endpoints /\ device \in Rates \cup {0} /\ input_state \in {"open", "refused", "lost"}
  /\ stream = Audio!NoStream \/ (IsStream(stream) /\ input_state = "open")
  /\ lost_since \in Nat /\ next_retry \in Nat /\ packets \in Nat /\ losses \in Nat /\ now \in Nat

LEMMA StreamIsOpen == ASSUME NEW x, IsStream(x) PROVE x.open = TRUE /\ x.rate \in Rates
  BY DEF IsStream

LEMMA NewIsStream == ASSUME NEW rate \in Rates PROVE IsStream(Audio!NewConverter(rate))
  BY DEF Audio!NewConverter, IsStream

LEMMA InputStarts == ASSUME Audio!StartOfInput PROVE InputInv
<1>1. device \in Rates \cup {0} /\ endpoint \in Endpoints
  BY DEF Audio!StartOfInput
<1>2. lost_since \in Nat /\ next_retry \in Nat /\ packets \in Nat /\ losses \in Nat /\ now \in Nat
  BY DEF Audio!StartOfInput
<1>3. \/ device # 0 /\ stream = Audio!NewConverter(device) /\ input_state = "open"
      \/ stream = Audio!NoStream /\ input_state = "refused"
  BY DEF Audio!StartOfInput
<1>4. stream = Audio!NoStream \/ (IsStream(stream) /\ input_state = "open")
  BY <1>1, <1>3, NewIsStream
<1> QED BY <1>1, <1>2, <1>3, <1>4 DEF InputInv

LEMMA WholeTicks == ASSUME NEW a \in Nat, NEW b \in Nat, NEW r \in Nat \ {0} PROVE (a * b) \div r \in Nat
<1> DEFINE p == a * b
<1>1. p \in Nat
  OBVIOUS
<1> HIDE DEF p
<1>2. p \div r \in Nat
  <2>1. \A x \in Nat, y \in Nat \ {0} : x \div y \in Nat
    OBVIOUS
  <2> QED BY <1>1, <2>1
<1> QED BY <1>2 DEF p

LEMMA CapturesHolds == ASSUME Audio!InputAssumption, InputInv, Audio!Captures PROVE InputInv'
<1>1. /\ stream.open /\ packets' = packets + 1
      /\ UNCHANGED <<endpoint, device, stream, lost_since, next_retry, input_state, losses>>
  BY DEF Audio!Captures
<1>2. Audio!NoStream.open = FALSE
  BY DEF Audio!NoStream
<1>3. IsStream(stream) /\ input_state = "open" /\ stream.rate \in Rates
  BY <1>1, <1>2, StreamIsOpen DEF InputInv
<1>4. PICK frames \in PacketSizes, late \in {0, Break, Break + 1}, stamped \in BOOLEAN :
        now' = now + late
                 + Audio!Duration([frames |-> frames, number |-> packets + 1, stamped |-> stamped, at |-> now + late],
                                  stream.rate)
  BY DEF Audio!Captures
<1>5. Audio!Duration([frames |-> frames, number |-> packets + 1, stamped |-> stamped, at |-> now + late], stream.rate)
        = (frames * TicksPerSec) \div stream.rate
  <2> DEFINE packet == [frames |-> frames, number |-> packets + 1, stamped |-> stamped, at |-> now + late]
  <2>1. packet.frames = frames
    OBVIOUS
  <2> HIDE DEF packet
  <2>2. Audio!Duration(packet, stream.rate) = (frames * TicksPerSec) \div stream.rate
    BY <2>1 DEF Audio!Duration
  <2> QED BY <2>2 DEF packet
<1>6. frames \in Nat /\ TicksPerSec \in Nat /\ stream.rate \in Nat \ {0} /\ late \in Nat /\ now \in Nat
        /\ packets \in Nat
  <2>1. late \in Nat
    <3>1. Break \in Nat
      BY DEF Audio!InputAssumption
    <3> QED BY <3>1
  <2>2. frames \in Nat /\ TicksPerSec \in Nat
    BY DEF Audio!InputAssumption
  <2>3. stream.rate \in Nat \ {0}
    BY <1>3 DEF Audio!InputAssumption
  <2> QED BY <2>1, <2>2, <2>3 DEF InputInv
<1>7. (frames * TicksPerSec) \div stream.rate \in Nat
  BY <1>6, WholeTicks
<1>8. now' \in Nat /\ packets' \in Nat
  <2> DEFINE d == (frames * TicksPerSec) \div stream.rate
  <2>1. now' = now + late + d /\ d \in Nat
    BY <1>4, <1>5, <1>7
  <2> HIDE DEF d
  <2> QED BY <1>1, <1>6, <2>1
<1> QED BY <1>1, <1>3, <1>8 DEF InputInv

LEMMA FailedHolds ==
  ASSUME Audio!InputAssumption, InputInv, stream.open, Audio!StreamFailed,
         UNCHANGED <<endpoint, device, now, packets, losses>>
  PROVE  InputInv'
<1>1. stream' = Audio!NoStream /\ now + ReopenInterval \in Nat
  BY DEF Audio!StreamFailed, Audio!InputAssumption, InputInv
<1> QED BY <1>1 DEF Audio!StreamFailed, InputInv

LEMMA PushedStream ==
  ASSUME NEW s, NEW packet, NEW at
  PROVE  Audio!Push(s, packet, at).stream
           = [s EXCEPT !.expected = at + Audio!Duration(packet, s.rate),
                       !.resampler =
                         Audio!Forget(
                           Audio!Produce(
                             Audio!Extended(Audio!Continued(s, at), Audio!FramesOf(packet, at, s.rate)), s.rate),
                           s.rate)]
  BY DEF Audio!Push

LEMMA ReadsHolds == ASSUME Audio!InputAssumption, InputInv, Audio!Read PROVE InputInv'
<1> DEFINE pushed == Audio!Push(stream, Head(waiting), Audio!StampOf(Head(waiting), stream.rate))
<1>1. /\ stream.open /\ UNCHANGED <<endpoint, device, now, packets, losses>>
      /\ \/ /\ stream' = [pushed.stream EXCEPT !.service = TRUE]
            /\ UNCHANGED <<lost_since, next_retry, input_state>>
         \/ Audio!StreamFailed
  BY DEF Audio!Read
<1>2. Audio!NoStream.open = FALSE
  BY DEF Audio!NoStream
<1>3. IsStream(stream) /\ input_state = "open"
  BY <1>1, <1>2 DEF InputInv
<1>4. CASE /\ stream' = [pushed.stream EXCEPT !.service = TRUE]
           /\ UNCHANGED <<lost_since, next_retry, input_state>>
  <2> DEFINE packet == Head(waiting)
             at == Audio!StampOf(packet, stream.rate)
             e == at + Audio!Duration(packet, stream.rate)
             r == Audio!Forget(
                    Audio!Produce(
                      Audio!Extended(Audio!Continued(stream, at), Audio!FramesOf(packet, at, stream.rate)),
                      stream.rate),
                    stream.rate)
  <2>1. pushed.stream = [stream EXCEPT !.expected = e, !.resampler = r]
    BY PushedStream
  <2> HIDE DEF packet, at, e, r, pushed
  <2>3. stream' = [[stream EXCEPT !.expected = e, !.resampler = r] EXCEPT !.service = TRUE]
    BY <1>4, <2>1
  <2>5. IsStream(stream')
    BY <1>3, <2>3 DEF IsStream
  <2> QED BY <1>1, <1>3, <1>4, <2>5 DEF InputInv
<1> QED BY <1>1, <1>4, FailedHolds

LEMMA InputStep == ASSUME Audio!InputAssumption, InputInv, Audio!InputNext PROVE InputInv'
<1>1. CASE Audio!Captures
  BY <1>1, CapturesHolds
<1>2. CASE Audio!Read
  BY <1>2, ReadsHolds
<1>3. CASE Audio!ReadFails
  BY <1>3, FailedHolds DEF Audio!ReadFails
<1>4. CASE Audio!DeviceChanges
  <2>1. device' \in Rates \cup {0} /\ losses' \in Nat
    BY <1>4 DEF Audio!DeviceChanges, InputInv
  <2> QED BY <1>4, <2>1 DEF Audio!DeviceChanges, InputInv
<1>5. CASE Audio!TryReopen
  <2>1. /\ input_state = "open" /\ next_retry' = now + ReopenInterval /\ device \in Rates \cup {0}
        /\ \/ device # 0 /\ stream' = Audio!NewConverter(device) /\ UNCHANGED input_state
           \/ UNCHANGED stream /\ input_state' = IF now - lost_since > ReopenGiveUp THEN "lost" ELSE input_state
        /\ UNCHANGED <<endpoint, device, lost_since, now, packets, losses>>
    BY <1>5 DEF Audio!TryReopen, InputInv
  <2>2. next_retry' \in Nat
    BY <2>1 DEF Audio!InputAssumption, InputInv
  <2>3. stream' = Audio!NoStream \/ (IsStream(stream') /\ input_state' = "open")
    <3>1. CASE device # 0 /\ stream' = Audio!NewConverter(device) /\ UNCHANGED input_state
      BY <2>1, <3>1, NewIsStream
    <3>2. CASE UNCHANGED stream
      <4>1. ~stream.open
        BY <1>5 DEF Audio!TryReopen
      <4>2. stream = Audio!NoStream
        BY <4>1, StreamIsOpen DEF InputInv
      <4> QED BY <3>2, <4>2
    <3> QED BY <2>1, <3>1, <3>2
  <2>4. input_state' \in {"open", "lost"}
    BY <2>1
  <2> QED BY <2>1, <2>2, <2>3, <2>4 DEF InputInv
<1>6. CASE Audio!TimePasses
  <2>1. now' \in Nat
    BY <1>6 DEF Audio!TimePasses, Audio!InputAssumption, InputInv
  <2> QED BY <1>6, <2>1 DEF Audio!TimePasses, InputInv
<1> QED BY <1>1, <1>2, <1>3, <1>4, <1>5, <1>6 DEF Audio!InputNext

LEMMA InputStutter == ASSUME InputInv, UNCHANGED audioVars PROVE InputInv'
  BY DEF InputInv, audioVars

LEMMA InputIsRight == ASSUME InputInv PROVE Audio!InputTypeOK
<1>1. Audio!NoStream.open = FALSE
  BY DEF Audio!NoStream
<1>2. stream.open => stream.rate \in Rates /\ input_state = "open"
  BY <1>1, StreamIsOpen DEF InputInv
<1> QED BY <1>2 DEF InputInv, Audio!InputTypeOK

-----------------------------------------------------------------------------
(* The parts together: each leaves the others' variables alone.              *)

LEMMA OneMoves ==
  ASSUME [Next]_vars
  PROVE  /\ part' = part
         /\ part = "recording" => Recording!Next \/ UNCHANGED recordingVars
         /\ part = "small" => Small!Next \/ UNCHANGED smallVars
         /\ part = "tray" => Tray!Next \/ UNCHANGED trayVars
         /\ part = "clipboard" => Clip!Next \/ UNCHANGED clipboardVars
         /\ part = "capture" => Capture!Next \/ UNCHANGED captureVars
         /\ part = "requests" => Server!RequestsNext \/ UNCHANGED requestsVars
         /\ part = "audio" => Audio!InputNext \/ UNCHANGED audioVars
         /\ part = "gif" => Gif!GifNext \/ UNCHANGED gifVars
         /\ part = "encoder" => Encoding!EncoderNext \/ UNCHANGED encoderVars
         /\ part = "grab" => Grab!GrabNext \/ UNCHANGED grabVars
         /\ part = "updates" => Update!Next \/ UNCHANGED updatesVars
  BY DEF Next, vars, OnlyRecording, OnlySmall, OnlyTray, OnlyClipboard, OnlyCapture, OnlyRequests,
         OnlyAudio, OnlyGif, OnlyEncoder, OnlyGrab, OnlyUpdates

PartsInv ==
  /\ part = "recording" => RecInv
  /\ part = "small" => SmallInv
  /\ part = "tray" => TrayInv
  /\ part = "clipboard" => ClipInv
  /\ part = "capture" => CaptureInv
  /\ part = "requests" => RequestsInv
  /\ part = "audio" => InputInv
  /\ part = "gif" => GifInv
  /\ part = "encoder" => EncInv
  /\ part = "grab" => GrabInv
  /\ part = "updates" => UpdatesInv

LEMMA PartsStart == ASSUME Init PROVE PartsInv
<1>1. /\ Recording!Init /\ Small!Init /\ Tray!Init /\ Clip!Init /\ Capture!Init
      /\ Server!StartOfRequests /\ Audio!StartOfInput /\ Gif!StartOfExport
      /\ Encoding!StartOfEncoders /\ Grab!StartOfGrab /\ Update!Init
  BY DEF Init
<1> QED BY <1>1, DesktopAssumption, RecStarts, SmallStarts, TrayStarts, ClipStarts, CaptureStarts,
           RequestsStart, InputStarts, GifStarts, EncStarts, GrabStarts, UpdatesStart, Zenon
       DEF PartsInv, DesktopAssumption

LEMMA PartsStep == ASSUME PartsInv, [Next]_vars PROVE PartsInv'
<1>1. part' = part
  BY OneMoves
<1>2. /\ part = "recording" => RecInv'
      /\ part = "small" => SmallInv'
      /\ part = "tray" => TrayInv'
      /\ part = "clipboard" => ClipInv'
      /\ part = "capture" => CaptureInv'
  BY DesktopAssumption, OneMoves, RecStep, RecStutter, SmallStep, SmallStutter, TrayStep, TrayStutter,
     ClipStep, ClipStutter, CaptureStep, CaptureStutter, Zenon
  DEF PartsInv, DesktopAssumption
<1>3. /\ part = "requests" => RequestsInv'
      /\ part = "audio" => InputInv'
      /\ part = "gif" => GifInv'
      /\ part = "encoder" => EncInv'
      /\ part = "grab" => GrabInv'
      /\ part = "updates" => UpdatesInv'
  BY DesktopAssumption, OneMoves, RequestsStep, RequestsStutter, InputStep, InputStutter, GifStep, GifStutter,
     EncStep, EncStutter, GrabStep, GrabStutter, UpdatesStep, UpdatesStutter, Zenon
  DEF PartsInv, DesktopAssumption
<1> QED BY <1>1, <1>2, <1>3 DEF PartsInv

LEMMA PartsHold == Spec => []PartsInv
<1>1. Init => PartsInv
  BY PartsStart
<1>2. PartsInv /\ [Next]_vars => PartsInv'
  BY PartsStep
<1> QED BY <1>1, <1>2, PTL DEF Spec

(* The windows of a recording follow its session and the countdown precedes  *)
(* it; a toast goes away, opens what it says, and what was closed stays so;  *)
(* and the tray's icon overlooks no command and no click, and offers what    *)
(* the recorder or a start was doing at the last refresh, unless a start     *)
(* came to nothing since: for any number of recordings, toasts, pins and     *)
(* refreshing threads, and any order in which the UI thread's queue takes    *)
(* what they say (recording.rs, toast/view.rs, pin/view.rs, tray.rs).        *)
THEOREM WindowsKeepUpAlways == Spec => []WindowsKeepUp
<1>1. PartsInv => WindowsKeepUp
  <2>1. CASE part = "recording"
    BY <2>1, DesktopAssumption, RecIsRight, Zenon DEF PartsInv, WindowsKeepUp, DesktopAssumption
  <2>2. CASE part = "small"
    BY <2>2, SmallIsRight DEF PartsInv, WindowsKeepUp
  <2>3. CASE part = "tray"
    BY <2>3, TrayIsRight DEF PartsInv, WindowsKeepUp
  <2>4. CASE part \notin {"recording", "small", "tray"}
    BY <2>4 DEF WindowsKeepUp
  <2> QED BY <2>1, <2>2, <2>3, <2>4
<1> QED BY <1>1, PartsHold, PTL

(* A writing on the clipboard is one of us's, with its transparency kept,    *)
(* its memory freed and a wait that ends, for any number of writers and      *)
(* readers and whatever other programs do (shotik-win/clipboard.rs); and an  *)
(* agent has its answers in the order of its requests, each call in the log  *)
(* once, for any number of agents and any length of the log (server.rs).     *)
THEOREM AnswersAreWholeAlways == Spec => [](part # "arithmetic" => AnswersAreWhole)
<1>1. PartsInv => (part # "arithmetic" => AnswersAreWhole)
  <2> SUFFICES ASSUME PartsInv, part # "arithmetic" PROVE AnswersAreWhole
    OBVIOUS
  <2>1. CASE part = "clipboard"
    BY <2>1, DesktopAssumption, ClipIsWhole, Zenon DEF PartsInv, AnswersAreWhole, DesktopAssumption
  <2>2. CASE part = "requests"
    BY <2>2, RequestsAreAnswered DEF PartsInv, AnswersAreWhole
  <2>3. CASE part \notin {"clipboard", "requests"}
    BY <2>3 DEF AnswersAreWhole
  <2> QED BY <2>1, <2>2, <2>3
<1> QED BY <1>1, PartsHold, PTL

(* Only the build the author signed is run, a check or an installation that  *)
(* fails leaves neither flag nor folder, and a release is announced once:    *)
(* for any number of releases, of requests and of starts of the program,     *)
(* whatever the server answers and however the threads interleave            *)
(* (update.rs).                                                              *)
THEOREM UpdatesAreSafeAlways == Spec => []UpdatesAreSafe
<1>1. PartsInv => UpdatesAreSafe
  BY DesktopAssumption, UpdatesKeep DEF PartsInv, UpdatesAreSafe, DesktopAssumption
<1> QED BY <1>1, PartsHold, PTL

(* A picture is of one window, cropped inside its frame, taken by one device *)
(* and with the threads that hang counted; a recording's samples go on to    *)
(* newer pictures only, and to the last that was taken, unless its texture   *)
(* was not as large as it says; a video's file holds its own frames, from a  *)
(* key frame on, while none of its streams starves, though its encoder was   *)
(* left broken by another: for any number of windows, of calls at once and   *)
(* of recordings, any sizes the display takes and any order in which frames, *)
(* the encoder's notices and the threads come (capture/gdi.rs, win/wgc.rs,   *)
(* win/encoder.rs, win/sink.rs). What the arithmetic of sound and of a GIF's *)
(* rate folds over every packet or frame is left to model checking.          *)
THEOREM CapturesAreTrueAlways ==
  Spec => [](part \notin {"audio", "formats", "gif"} => CapturesAreTrue)
<1>1. PartsInv => (part \notin {"audio", "formats", "gif"} => CapturesAreTrue)
  <2> SUFFICES ASSUME PartsInv, part \notin {"audio", "formats", "gif"} PROVE CapturesAreTrue
    OBVIOUS
  <2>1. CASE part = "capture"
    BY <2>1, DesktopAssumption, CaptureIsRight, Zenon DEF PartsInv, CapturesAreTrue, DesktopAssumption
  <2>2. CASE part = "grab"
    BY <2>2, DesktopAssumption, GrabIsRight, Zenon DEF PartsInv, CapturesAreTrue, DesktopAssumption
  <2>3. CASE part = "encoder"
    BY <2>3, EncIsRight DEF PartsInv, CapturesAreTrue
  <2>4. CASE part \notin {"capture", "grab", "encoder"}
    BY <2>4 DEF CapturesAreTrue
  <2> QED BY <2>1, <2>2, <2>3, <2>4
<1> QED BY <1>1, PartsHold, PTL

(* No byte outside a decoded picture's buffer is read, whatever aperture the *)
(* video's media type names and whichever way its rows run, and the file a   *)
(* GIF is exported to is the old one or a whole one, wherever the export     *)
(* fails or the program dies (gif_export.rs, win/gif_decode.rs).             *)
THEOREM GifIsWholeAlways == Spec => [](part = "gif" => Gif!GifIsWhole /\ Gif!OnlyThePicture)
<1>1. PartsInv => (part = "gif" => Gif!GifIsWhole /\ Gif!OnlyThePicture)
  BY GifIsRight DEF PartsInv
<1> QED BY <1>1, PartsHold, PTL

(* Every variable of the part that moves has its type, whatever the values   *)
(* of the constants.                                                         *)
THEOREM DesktopTypeOKAlways == Spec => []DesktopTypeOK
<1>1. PartsInv => DesktopTypeOK
  <2> SUFFICES ASSUME PartsInv PROVE DesktopTypeOK
    OBVIOUS
  <2>1. /\ part = "recording" => Recording!TypeOK
        /\ part = "small" => Small!TypeOK
        /\ part = "tray" => Tray!TypeOK
        /\ part = "clipboard" => Clip!TypeOK
        /\ part = "capture" => Capture!TypeOK
    BY DesktopAssumption, RecIsRight, SmallIsRight, TrayIsRight, ClipIsWhole, CaptureIsRight, Zenon
    DEF PartsInv, DesktopAssumption
  <2>2. /\ part = "requests" => Server!RequestsTypeOK
        /\ part = "audio" => Audio!InputTypeOK
        /\ part = "gif" => Gif!GifTypeOK
        /\ part = "encoder" => Encoding!EncoderTypeOK
        /\ part = "grab" => Grab!GrabTypeOK
        /\ part = "updates" => Update!TypeOK
    BY DesktopAssumption, RequestsAreAnswered, InputIsRight, GifIsRight, EncIsRight, GrabIsRight, UpdatesKeep, Zenon
    DEF PartsInv, DesktopAssumption
  <2> QED BY <2>1, <2>2 DEF DesktopTypeOK
<1> QED BY <1>1, PartsHold, PTL
=============================================================================
