------------------------------- MODULE LossyFifo -------------------------------
(***************************************************************************)
(* What a bounded dispatch queue promises: ticks come out in the order     *)
(* they went in, none twice, and every tick that will never come out was   *)
(* counted as dropped, at the moment another tick found no room.           *)
(***************************************************************************)
EXTENDS Integers, FiniteSets

CONSTANTS Maxsize, MaxTicks    \* the capacity; bound: ticks that are offered

VARIABLES
    offered,    \* how many ticks were offered: 1, 2, 3 ...
    waiting,    \* the ticks that may still come out
    dropped,    \* how many were dropped
    out         \* the last tick that came out

Init == offered = 0 /\ waiting = {} /\ dropped = 0 /\ out = 0

Accept ==
    /\ Cardinality(waiting) < Maxsize
    /\ offered' = offered + 1
    /\ waiting' = waiting \cup {offered + 1}
    /\ UNCHANGED <<dropped, out>>

\* No room: one of the waiting ticks or the new one is given up.
Drop ==
    /\ Cardinality(waiting) = Maxsize
    /\ offered' = offered + 1 /\ dropped' = dropped + 1
    /\ \E t \in waiting \cup {offered + 1} : waiting' = (waiting \cup {offered + 1}) \ {t}
    /\ UNCHANGED out

Take ==
    /\ \E t \in waiting :
          /\ \A u \in waiting : t <= u
          /\ t > out
          /\ out' = t /\ waiting' = waiting \ {t}
    /\ UNCHANGED <<offered, dropped>>

Next == Accept \/ Drop \/ Take

Spec == Init /\ [][Next]_<<offered, waiting, dropped, out>>

=============================================================================
