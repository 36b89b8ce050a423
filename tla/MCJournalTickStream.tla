-------------------------- MODULE MCJournalTickStream --------------------------
(* Instances of JournalTickStream for TLC: the constants come from the .cfg    *)
(* files.                                                                      *)
EXTENDS JournalTickStream

=============================================================================
