------------------------ MODULE MCAsyncQueueDispatcher ------------------------
(* Instances of AsyncQueueDispatcher for TLC: the constants come from the .cfg *)
(* files.                                                                      *)
EXTENDS AsyncQueueDispatcher, TLC

ConsumerSymmetry == Permutations(Consumers)

=============================================================================
