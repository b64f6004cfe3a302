------------------------------ MODULE Delivery ------------------------------
(***************************************************************************)
(* What a transfer of a configuration between the panel and a switch       *)
(* promises, whichever way the file goes and by whichever protocol: the    *)
(* receiver has nothing or the whole file, the panel calls the transfer    *)
(* done only when the receiver has the file, and it always comes to a      *)
(* verdict.  Transfer.tla shows the small TFTP server, the shared          *)
(* directory and the copy table of the switch to keep this promise.        *)
(***************************************************************************)

VARIABLES
    copy,   \* what the receiver has: "none" or "whole"
    told    \* the verdict of the panel: "waiting", "done" or "failed"

vars == <<copy, told>>

Init == copy = "none" /\ told = "waiting"

\* The file is there, all of it at once; it may come when the panel has given up.
Arrive ==
    /\ copy = "none" /\ copy' = "whole"
    /\ UNCHANGED told

Tell ==
    /\ told = "waiting"
    /\ \/ told' = "failed"
       \/ copy = "whole" /\ told' = "done"
    /\ UNCHANGED copy

Next == Arrive \/ Tell

Safely == Init /\ [][Next]_vars
Verdict == WF_vars(Tell)
Spec == Safely /\ Verdict
=============================================================================
