--------------------------- MODULE MCCollectorStream ---------------------------
(* Instances of CollectorStream for TLC: the constants come from the .cfg      *)
(* files.                                                                      *)
EXTENDS CollectorStream, TLC

=============================================================================
