----------------------------- MODULE MCPayment -----------------------------
(* Small instances of Payment for TLC. *)
EXTENDS Payment, TLC

(* Handlers are interchangeable, and so are invoices and gateway payments. *)
Symmetry ==
    Permutations(Handlers) \cup Permutations(Payments) \cup Permutations(Invoices)

(* A fault or a restart, not both, in the run with returns gone astray.      *)
OneMishap == faults + crashes <= 1
=============================================================================
