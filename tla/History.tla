------------------------------ MODULE History ------------------------------
(* history.rs: the list of captures and recordings, in memory and in        *)
(* history.json, and the files it names (a thumbnail changes nothing else). *)
(* Threads save pictures and recordings, one lists, removes and clears;     *)
(* anything that touches the disk can fail, files can be deleted by others, *)
(* and the process can end at any moment and be started again.              *)
EXTENDS Naturals, Sequences, FiniteSets, JsonFile

CONSTANTS
  Savers,     (* threads that save a capture                                *)
  Recorders,  (* of them, those that save a recording                       *)
  Numbers,    (* ids: the time and a counter; a bound on them              *)
  Files,      (* 1 is {base}.png, k is {base}-k.png                         *)
  MaxItems,   (* MAX_ITEMS                                                  *)
  MaxSaves,   (* a bound on captures                                        *)
  MaxCrashes  (* a bound on ends of the process                             *)

VARIABLES
  up,        (* the process runs                                            *)
  index,     (* history.json, a JsonFile                                    *)
  items,     (* the list in memory                                          *)
  op,        (* what the holder of the list's lock is doing                 *)
  on_disk,   (* the files that exist                                        *)
  saver,     (* where each saving thread is, and the file it has made       *)
  counter,   (* NEXT_ID: begins anew with the process                       *)
  saves, crashes

vars == <<up, index, items, op, on_disk, saver, counter, saves, crashes>>
storeVars == <<up, index, items, op>>

NoFile == 0
Entry == [id : Numbers, file : Files, kind : {"image", "video"}, gif : BOOLEAN]
(* A stored entry this version cannot read. *)
Odd == [id |-> 0, file |-> NoFile, kind |-> "image", gif |-> FALSE]

(* What history.json can hold; a file that is missing or torn is told from  *)
(* it, and an entry that cannot be read from one that can.                  *)
StoredLists == UNION {[1 .. n -> Entry \cup {Odd}] : n \in 0 .. MaxItems + 1}

HistoryAssumption ==
  /\ 1 \in Numbers /\ 1 \in Files /\ NoFile \notin Files /\ Numbers \subseteq Nat
  /\ MaxItems \in Nat \ {0}
  /\ Missing \notin StoredLists /\ Torn \notin StoredLists \cup {Missing}

Ops == {"none", "add", "list", "remove", "removed", "update", "clear", "cleared"}
NoOp == [what |-> "none", by |-> Nothing, entries |-> <<>>]

TypeOK ==
  /\ up \in BOOLEAN
  /\ index \in [disk : {index.disk}, temp : TempStates, next : {index.next},
                told : {"none", "ok", "failed"}]
  /\ index.disk \in {Missing, Torn} \/ \A k \in DOMAIN index.disk : index.disk[k] \in Entry \cup {Odd}
  /\ Len(items) <= MaxItems /\ \A k \in DOMAIN items : items[k] \in Entry
  /\ op.what \in Ops /\ on_disk \subseteq Files
  /\ saver \in [Savers -> [at : {"idle", "made", "thumbed", "waits"}, file : Files \cup {NoFile}]]

Idle == [at |-> "idle", file |-> NoFile]

(* Those of l that are in S, in their order: SelectSeq as a function of how  *)
(* far it has come.                                                         *)
Only(l, S) ==
  LET so_far[n \in 0 .. Len(l)] ==
        IF n = 0 THEN <<>>
        ELSE IF l[n] \in S THEN Append(so_far[n - 1], l[n]) ELSE so_far[n - 1]
  IN  so_far[Len(l)]

Readable(l) == Only(l, Entry)
Stored(f) == IF f.disk \in {Missing, Torn} THEN <<>> ELSE f.disk

(* One unreadable entry costs that entry alone. *)
Loaded(f) == Readable(Stored(f))

Saved(i) == [id |-> i, file |-> i, kind |-> "image", gif |-> FALSE]

Init ==
  /\ \E l \in {<<>>, <<Odd, Saved(1)>>} :
       /\ index = Quiet(IF l = <<>> THEN Missing ELSE l)
       /\ items = Loaded(index)
       /\ on_disk = {i \in Files : \E k \in DOMAIN l : l[k].file = i}
  /\ up = TRUE /\ op = NoOp
  /\ saver = [s \in Savers |-> Idle]
  /\ counter = 1 /\ saves = 0 /\ crashes = 0

-----------------------------------------------------------------------------
(* Saving: the file, its thumbnail, then the list.                          *)

Free == up /\ op = NoOp

(* The first free name: create_new makes looking and taking one step.  A    *)
(* recording's file is there already when it is added.                      *)
MakeFile(s) ==
  /\ up /\ saver[s].at = "idle" /\ saves < MaxSaves
  /\ \E k \in Files \ on_disk :
       /\ \A j \in Files : j < k => j \in on_disk
       /\ on_disk' = on_disk \cup {k}
       /\ saver' = [saver EXCEPT ![s] = [at |-> "made", file |-> k]]
  /\ saves' = saves + 1
  /\ UNCHANGED <<storeVars, counter, crashes>>

(* write_thumb; it can fail, and the capture stays out of the list. *)
WriteThumb(s) ==
  /\ up /\ saver[s].at = "made"
  /\ \/ saver' = [saver EXCEPT ![s].at = "thumbed"]
     \/ saver' = [saver EXCEPT ![s] = Idle]
  /\ UNCHANGED <<storeVars, on_disk, counter, saves, crashes>>

(* The numbers the counter passes until it comes to one that no entry has. *)
Used == {items[k].id : k \in DOMAIN items}
NewIds == {i \in Numbers \ Used : i >= counter /\ \A j \in counter .. i - 1 : j \in Used}

(* add: a new id, at the head, the oldest beyond the limit goes. *)
Add(s) ==
  /\ Free /\ saver[s].at = "thumbed"
  /\ \E i \in NewIds :
       LET e == [id |-> i, file |-> saver[s].file,
                 kind |-> IF s \in Recorders THEN "video" ELSE "image", gif |-> FALSE]
           all == <<e>> \o items
       IN  /\ index' = Asked(index, SubSeq(all, 1, IF Len(all) < MaxItems THEN Len(all) ELSE MaxItems))
           /\ op' = [what |-> "add", by |-> s, entries |-> <<>>]
           /\ counter' = i + 1
  /\ saver' = [saver EXCEPT ![s].at = "waits"]
  /\ UNCHANGED <<up, items, on_disk, saves, crashes>>

-----------------------------------------------------------------------------
(* The other operations, under the same lock.                               *)

Alive == Only(items, {e \in Entry : e.file \in on_disk})

(* try_list: entries whose files are gone leave the list. *)
List ==
  /\ Free /\ Alive # items
  /\ index' = Asked(index, Alive)
  /\ op' = [NoOp EXCEPT !.what = "list"]
  /\ UNCHANGED <<up, items, on_disk, saver, counter, saves, crashes>>

(* update: a patch of one entry, here that a GIF was made of it. *)
Update ==
  /\ Free
  /\ \E k \in DOMAIN items :
       /\ items[k].kind = "video" /\ ~items[k].gif
       /\ index' = Asked(index, [items EXCEPT ![k].gif = TRUE])
  /\ op' = [NoOp EXCEPT !.what = "update"]
  /\ UNCHANGED <<up, items, on_disk, saver, counter, saves, crashes>>

(* remove and clear(true) delete files first; clear(false) none. *)
RemoveEntry ==
  /\ Free
  /\ \E k \in DOMAIN items : op' = [NoOp EXCEPT !.what = "remove", !.entries = <<items[k]>>]
  /\ UNCHANGED <<up, index, items, on_disk, saver, counter, saves, crashes>>

Clear ==
  /\ Free /\ items # <<>>
  /\ \E deleting \in {<<>>, items} : op' = [NoOp EXCEPT !.what = "clear", !.entries = deleting]
  /\ UNCHANGED <<up, index, items, on_disk, saver, counter, saves, crashes>>

(* The file and the thumbnail of the next entry go, or one of them cannot   *)
(* be deleted and the operation ends, the list as it was.                   *)
DeleteFiles ==
  /\ up /\ op.what \in {"remove", "clear"} /\ op.entries # <<>>
  /\ LET e == Head(op.entries) IN
       \/ /\ on_disk' = on_disk \ {e.file}
          /\ IF op.what = "remove"
             THEN /\ op' = [op EXCEPT !.what = "removed"]
                  /\ index' = Asked(index, Only(items, {x \in Entry : x.id # e.id}))
             ELSE op' = [op EXCEPT !.entries = Tail(@)] /\ UNCHANGED index
       \/ op' = NoOp /\ on_disk' \in {on_disk, on_disk \ {e.file}} /\ UNCHANGED index
  /\ UNCHANGED <<up, items, saver, counter, saves, crashes>>

ClearList ==
  /\ up /\ op.what = "clear" /\ op.entries = <<>>
  /\ index' = Asked(index, <<>>)
  /\ op' = [op EXCEPT !.what = "cleared"]
  /\ UNCHANGED <<up, items, on_disk, saver, counter, saves, crashes>>

(* write_json, step by step. *)
Write ==
  /\ up /\ index' \in Steps(index)
  /\ UNCHANGED <<up, items, op, on_disk, saver, counter, saves, crashes>>

(* The list in memory follows the file, and the lock is given up. *)
Return ==
  /\ up /\ index.told # "none"
  /\ items' = IF index.told = "ok" THEN index.next ELSE items
  /\ index' = Heard(index) /\ op' = NoOp
  /\ saver' = [s \in Savers |-> IF s = op.by THEN Idle ELSE saver[s]]
  /\ UNCHANGED <<up, on_disk, counter, saves, crashes>>

-----------------------------------------------------------------------------
(* The world around it.                                                     *)

UserDeletes ==
  /\ \E k \in on_disk : on_disk' = on_disk \ {k}
  /\ UNCHANGED <<storeVars, saver, counter, saves, crashes>>

Crash ==
  /\ up /\ crashes < MaxCrashes
  /\ up' = FALSE /\ items' = <<>> /\ op' = NoOp /\ index' = AfterCrash(index)
  /\ saver' = [s \in Savers |-> Idle]
  /\ crashes' = crashes + 1 /\ counter' = 1
  /\ UNCHANGED <<on_disk, saves>>

Start ==
  /\ ~up
  /\ up' = TRUE /\ items' = Loaded(index)
  /\ UNCHANGED <<index, op, on_disk, saver, counter, saves, crashes>>

Next ==
  \/ \E s \in Savers : MakeFile(s) \/ WriteThumb(s) \/ Add(s)
  \/ List \/ Update \/ RemoveEntry \/ Clear \/ DeleteFiles \/ ClearList
  \/ Write \/ Return \/ UserDeletes \/ Crash \/ Start

Spec == Init /\ [][Next]_vars

-----------------------------------------------------------------------------
(* After an operation the list in memory is the file's: a write that failed *)
(* has changed neither, one that succeeded both (history.rs:152, 301).      *)
MemoryIsDisk == Free /\ index.temp = "none" => items = Loaded(index)
MemoryFollowsDisk == [][MemoryIsDisk']_vars

Disk == INSTANCE HistoryList WITH list <- Loaded(index)

(* history.json is a list that changes by whole operations, whatever fails  *)
(* and whenever the process ends (storage.rs:23-51).                        *)
ImplementsList == Disk!Spec
=============================================================================
