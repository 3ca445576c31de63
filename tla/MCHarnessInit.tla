--------------------------- MODULE MCHarnessInit ---------------------------
(* HarnessInit for TLC: two of the four services. *)
EXTENDS HarnessInit

MCServices == <<"filestore", "edge">>
=============================================================================
