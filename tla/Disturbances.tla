----------------------------- MODULE Disturbances -----------------------------
(* What happens around the scripts that are run by hand, and how often: the *)
(* modules of these scripts share the count.                               *)
EXTENDS Naturals

CONSTANTS
  MaxCrashes,  (* bound: runs killed, or ended by an exception             *)
  MaxChanges   (* bound: files lost, data changed and catalogs refreshed   *)

VARIABLES
  crashes,     (* number of runs killed                                    *)
  changes      (* number of other disturbances                             *)

===============================================================================
