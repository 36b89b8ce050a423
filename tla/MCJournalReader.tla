--------------------------- MODULE MCJournalReader ---------------------------
(* An instance of JournalReader for TLC: the records of the file differ in  *)
(* length, so that offsets from before a rewrite may lie inside a line.     *)
EXTENDS JournalReader

Widths == <<2, 2, 3>>

=============================================================================
