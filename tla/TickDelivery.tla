----------------------------- MODULE TickDelivery -----------------------------
(***************************************************************************)
(* What a consumer of the journal is promised: the lines are settled for   *)
(* the first time in the order of the journal, and neither the watermark   *)
(* in memory nor the saved one that a restart goes back to ever passes a   *)
(* line that is not settled.  A line is settled when the consumer is done  *)
(* with it, or when the watermark was placed beyond it on purpose.  The    *)
(* watermark may lag behind what is settled, and the saved one, when a     *)
(* save fails, behind both: a restart then repeats.                        *)
(***************************************************************************)
EXTENDS Integers

CONSTANT MaxSeq    \* bound: the largest seq

VARIABLES
    lines,      \* the seqs of the lines
    settled,    \* the seqs that are settled
    mark,       \* the watermark
    saved       \* the watermark on disk

Init == lines = {} /\ settled = {} /\ mark = 0 /\ saved = 0

Append(n) ==
    /\ \A m \in lines : m < n
    /\ lines' = lines \cup {n}
    /\ UNCHANGED <<settled, mark, saved>>

Settle(n) ==
    /\ n \in lines
    /\ \A m \in lines : m < n => m \in settled
    /\ settled' = settled \cup {n}
    /\ mark' \in {mark, n} /\ mark' >= mark
    /\ saved' \in {saved, mark'}
    /\ UNCHANGED lines

\* The watermark is placed; whether the save succeeds or not, what it passed
\* counts as settled.
Reposition(c) ==
    /\ mark' = c
    /\ settled' = settled \cup 1 .. c
    /\ saved' \in {saved, c}
    /\ UNCHANGED lines

Restart ==
    /\ mark' = saved
    /\ UNCHANGED <<lines, settled, saved>>

Next ==
    \/ \E n \in 1 .. MaxSeq : Append(n) \/ Settle(n)
    \/ \E c \in 0 .. MaxSeq : Reposition(c)
    \/ Restart

Spec == Init /\ [][Next]_<<lines, settled, mark, saved>>

=============================================================================
