---------------------------- MODULE MCTickJournal ----------------------------
(* Instances of TickJournal for TLC: the constants come from the .cfg files. *)
EXTENDS TickJournal, TLC

\* Trade ids are only compared with each other.
TradeSymmetry == Permutations(TradeIds)

=============================================================================
