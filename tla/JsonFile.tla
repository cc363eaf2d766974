------------------------------ MODULE JsonFile ------------------------------
(* storage.rs: a JSON file that is replaced as a whole.  A file is a record *)
(*   disk   what it holds, Missing or Torn                                  *)
(*   temp   how far the temporary file beside it has come                   *)
(*   next   what is being written                                           *)
(*   told   what write_json has returned to a caller that has not looked    *)
(* A temporary file that a crash leaves behind is never read, and its name  *)
(* is taken by nobody else, so it is left out.                              *)
EXTENDS Naturals

CONSTANTS Missing, Torn, Nothing

TempStates == {"none", "asked", "empty", "whole"}

Quiet(disk) == [disk |-> disk, temp |-> "none", next |-> Nothing, told |-> "none"]

(* write_json is called.  Its caller holds the lock of the list it writes. *)
Asked(f, content) == [f EXCEPT !.temp = "asked", !.next = content]

Failed(f) == [f EXCEPT !.temp = "none", !.told = "failed"]

Renamed(f) ==
  [f EXCEPT !.disk = IF f.temp = "whole" THEN f.next ELSE Torn, !.temp = "none", !.told = "ok"]

(* A slip: the temporary file is renamed before it is written. *)
StepsInAnyOrder(f) ==
  CASE f.temp = "asked" -> {[f EXCEPT !.temp = "empty"], Failed(f)}
    [] f.temp \in {"empty", "whole"} -> {Renamed(f), Failed(f)}
    [] OTHER -> {}

(* The next step of the writing: it can fail at each, and TempFile's drop   *)
(* removes what there is.                                                   *)
Steps(f) ==
  CASE f.temp = "asked" -> {[f EXCEPT !.temp = "empty"], Failed(f)}
    [] f.temp = "empty" -> {[f EXCEPT !.temp = "whole"], Failed(f)}
    [] f.temp = "whole" -> {Renamed(f), Failed(f)}
    [] OTHER -> {}

(* The caller has looked at the result. *)
Heard(f) == Quiet(f.disk)

(* The process ends, or the machine does. *)
AfterCrash(f) == Quiet(f.disk)
=============================================================================
