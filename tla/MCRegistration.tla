--------------------------- MODULE MCRegistration ---------------------------
(***************************************************************************)
(* Small instances of Registration: the registrations, and the goroutines  *)
(* that verify, are interchangeable.                                       *)
(***************************************************************************)
EXTENDS Registration, TLC

Symmetry == Permutations(Registrations) \cup Permutations(Attempts)
=============================================================================
