---------------------------- MODULE HistoryList ----------------------------
(* What the history promises the rest of the program: a list, the newest    *)
(* entry first, that changes as a whole or not at all, whatever fails and   *)
(* whenever the process ends.                                               *)
EXTENDS Naturals, Sequences

CONSTANTS
  Entry,     (* what can stand in the list                                  *)
  Files,     (* the files entries name                                      *)
  MaxItems   (* MAX_ITEMS                                                   *)

VARIABLE list

Ids(l) == {l[k].id : k \in DOMAIN l}

Shortened(l) == SubSeq(l, 1, IF Len(l) < MaxItems THEN Len(l) ELSE MaxItems)

Add ==
  \E e \in Entry :
    /\ e.id \notin Ids(list)
    /\ list' = Shortened(<<e>> \o list)

(* What is left of l at the places K: those entries, as they were and in     *)
(* their order.                                                             *)
IsPart(l, K, left) ==
  \E at \in [DOMAIN left -> K] :
    /\ \A i, j \in DOMAIN left : i < j => at[i] < at[j]
    /\ \A k \in K : \E i \in DOMAIN left : at[i] = k
    /\ \A i \in DOMAIN left : left[i] = l[at[i]]

RemoveEntry == \E k \in DOMAIN list : IsPart(list, DOMAIN list \ {k}, list')

Update == \E k \in DOMAIN list, e \in Entry :
  /\ e.id = list[k].id
  /\ list' = [list EXCEPT ![k] = e]

(* Entries whose files are gone are left out. *)
Prune == \E gone \in SUBSET Files : IsPart(list, {k \in DOMAIN list : list[k].file \notin gone}, list')

Clear == list' = <<>>

Init ==
  /\ list \in Seq(Entry)
  /\ \A j, k \in DOMAIN list : list[j].id = list[k].id => j = k

Next == list' # list /\ (Add \/ RemoveEntry \/ Update \/ Prune \/ Clear)

Spec == Init /\ [][Next]_list
=============================================================================
