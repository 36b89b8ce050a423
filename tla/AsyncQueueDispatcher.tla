------------------------- MODULE AsyncQueueDispatcher -------------------------
(***************************************************************************)
(* AsyncQueueDispatcher: the bounded queue between the market stream and a *)
(* consumer in the same process.  dispatch never suspends, so each call is *)
(* one step of the event loop.  A full queue drops a tick by the overflow  *)
(* policy; drops are counted and reported in aggregated, rate-limited log  *)
(* lines.  Ticks are numbered in the order they are dispatched.            *)
(***************************************************************************)
EXTENDS Integers, Sequences, FiniteSets, Functions

CONSTANTS
    Maxsize,        \* maxsize
    LogInterval,    \* drop_log_interval_seconds
    ErrorAfter,     \* saturation_error_after_seconds
    ErrorDrops,     \* saturation_error_drop_threshold
    Consumers,      \* consumer coroutines
    None,           \* a time that is not set
    MaxTicks,       \* bound: ticks that are dispatched
    MaxTime         \* bound: the monotonic clock

ASSUME DispatcherAssumption ==
    /\ {Maxsize, LogInterval, ErrorAfter, ErrorDrops} \subseteq Nat \ {0}
    /\ {MaxTicks, MaxTime} \subseteq Nat
    /\ IsFiniteSet(Consumers)
    /\ None \notin Nat

VARIABLES
    policy,         \* overflow_policy, given to the constructor
    queue,          \* the asyncio queue
    unfinished,     \* its join counter
    holding,        \* per consumer: the tick it took and did not mark, 0 for none
    dropped,        \* dropped_tick_count
    unlogged,       \* drops_since_last_log
    lastLog,        \* last_drop_log_mono
    saturated,      \* saturation_since_mono
    now,            \* time.monotonic()
    dispatched,     \* history: how many ticks were dispatched
    out,            \* history: the last tick taken
    reported,       \* history: the drops that log lines have accounted for
    alarm,          \* history: the level of the last log line
    starved,        \* history: the first drop since a dispatch last found room
    lastDrop        \* history: the last drop

vars == <<policy, queue, unfinished, holding, dropped, unlogged, lastLog, saturated, now,
          dispatched, out, reported, alarm, starved, lastDrop>>

OverflowPolicy == {"drop_oldest", "drop_newest"}

Times == Nat \cup {None}

Init ==
    /\ policy \in OverflowPolicy
    /\ queue = << >> /\ unfinished = 0
    /\ holding = [c \in Consumers |-> 0]
    /\ dropped = 0 /\ unlogged = 0
    /\ lastLog = None /\ saturated = None
    /\ now = 0 /\ dispatched = 0 /\ out = 0
    /\ reported = 0 /\ alarm = "none"
    /\ starved = None /\ lastDrop = None

-----------------------------------------------------------------------------
(* dispatch *)

\* Mutant of Enqueue: the bound is off by one.
EnqueueOneMore ==
    /\ Len(queue) <= Maxsize
    /\ queue' = Append(queue, dispatched + 1)
    /\ unfinished' = unfinished + 1
    /\ saturated' = None /\ starved' = None
    /\ UNCHANGED <<dropped, unlogged, lastLog, reported, alarm, lastDrop>>

\* put_nowait succeeds: the saturation episode ends.
Enqueue ==
    /\ Len(queue) < Maxsize
    /\ queue' = Append(queue, dispatched + 1)
    /\ unfinished' = unfinished + 1
    /\ saturated' = None /\ starved' = None
    /\ UNCHANGED <<dropped, unlogged, lastLog, reported, alarm, lastDrop>>

\* Mutant of Replaced: the dropped tick keeps its slot of the join counter.
ReplacedKeepsSlot(t) ==
    /\ queue' = Append(Tail(queue), t)
    /\ unfinished' = unfinished + 1

\* replace_oldest_with: get and task_done, then put again.
Replaced(t) ==
    /\ queue' = Append(Tail(queue), t)
    /\ UNCHANGED unfinished

LogDue == lastLog = None \/ now - lastLog >= LogInterval

\* should_escalate_to_error, with the count and the episode of this drop.
Escalates(count, since) == count >= ErrorDrops \/ now - since >= ErrorAfter

\* Mutant of RecordDrop: the count of the line is kept for the next one.
RecordDropKeepsCount(since) ==
    IF LogDue
    THEN /\ reported' = reported + unlogged + 1
         /\ alarm' = IF Escalates(dropped + 1, since) THEN "error" ELSE "warning"
         /\ lastLog' = now
         /\ unlogged' = unlogged + 1
    ELSE /\ unlogged' = unlogged + 1
         /\ UNCHANGED <<lastLog, reported, alarm>>

\* record_drop_for_logging
RecordDrop(since) ==
    IF LogDue
    THEN /\ reported' = reported + unlogged + 1
         /\ alarm' = IF Escalates(dropped + 1, since) THEN "error" ELSE "warning"
         /\ lastLog' = now
         /\ unlogged' = 0
    ELSE /\ unlogged' = unlogged + 1
         /\ UNCHANGED <<lastLog, reported, alarm>>

\* Mutant of Since: every overflow begins a new episode.
SinceNow == now

\* The beginning of the saturation episode a drop belongs to.
Since == IF saturated = None THEN now ELSE saturated

\* Mutants of Overflow: DROP_NEWEST makes room as DROP_OLDEST does; a tick that is
\* rejected is not counted.
OverflowAlwaysReplaces ==
    /\ Len(queue) = Maxsize
    /\ saturated' = Since
    /\ dropped' = dropped + 1
    /\ Replaced(dispatched + 1)
    /\ RecordDrop(Since)
    /\ starved' = (IF starved = None THEN now ELSE starved) /\ lastDrop' = now

OverflowUncounted ==
    /\ Len(queue) = Maxsize
    /\ saturated' = Since
    /\ IF policy = "drop_oldest" THEN Replaced(dispatched + 1) ELSE UNCHANGED <<queue, unfinished>>
    /\ RecordDrop(Since)
    /\ starved' = (IF starved = None THEN now ELSE starved) /\ lastDrop' = now
    /\ UNCHANGED dropped

\* handle_overflow
Overflow ==
    /\ Len(queue) = Maxsize
    /\ saturated' = Since
    /\ dropped' = dropped + 1
    /\ IF policy = "drop_oldest" THEN Replaced(dispatched + 1) ELSE UNCHANGED <<queue, unfinished>>
    /\ RecordDrop(Since)
    /\ starved' = (IF starved = None THEN now ELSE starved) /\ lastDrop' = now

Dispatch ==
    /\ dispatched < MaxTicks
    /\ Enqueue \/ Overflow
    /\ dispatched' = dispatched + 1
    /\ UNCHANGED <<policy, holding, now, out>>

-----------------------------------------------------------------------------
(* The consumers, and time *)

WaitForNextTick(c) ==
    /\ holding[c] = 0 /\ queue # << >>
    /\ holding' = [holding EXCEPT ![c] = Head(queue)]
    /\ queue' = Tail(queue)
    /\ out' = Head(queue)
    /\ UNCHANGED <<policy, unfinished, dropped, unlogged, lastLog, saturated, now,
                   dispatched, reported, alarm, starved, lastDrop>>

MarkTickAsProcessed(c) ==
    /\ holding[c] > 0
    /\ holding' = [holding EXCEPT ![c] = 0]
    /\ unfinished' = unfinished - 1
    /\ UNCHANGED <<policy, queue, dropped, unlogged, lastLog, saturated, now,
                   dispatched, out, reported, alarm, starved, lastDrop>>

Tick ==
    /\ now < MaxTime
    /\ now' = now + 1
    /\ UNCHANGED <<policy, queue, unfinished, holding, dropped, unlogged, lastLog, saturated,
                   dispatched, out, reported, alarm, starved, lastDrop>>

Next ==
    \/ Dispatch
    \/ \E c \in Consumers : WaitForNextTick(c) \/ MarkTickAsProcessed(c)
    \/ Tick

Spec == Init /\ [][Next]_vars

-----------------------------------------------------------------------------
(* Properties *)

TypeOK ==
    /\ policy \in OverflowPolicy
    /\ queue \in Seq(Nat \ {0}) /\ Len(queue) <= Maxsize
    /\ holding \in [Consumers -> Nat]
    /\ {unfinished, dropped, unlogged, now, dispatched, out, reported} \subseteq Nat
    /\ {lastLog, saturated, starved, lastDrop} \subseteq Times
    /\ alarm \in {"none", "warning", "error"}

\* The queue's join counter counts the ticks in the queue and those taken and
\* not marked, drops included: join neither hangs nor returns early, and the
\* task_done of a dropped tick is never missing at a later mark.
JoinCountExact ==
    unfinished = Len(queue) + Cardinality({c \in Consumers : holding[c] > 0})

\* Every drop is accounted for by exactly one log line, or still waits for one:
\* the rate limit loses no count.
DropsReported == reported + unlogged = dropped

\* Drops that go on for ErrorAfter and a log interval more, with no dispatch that
\* found room in between, are never left without an ERROR line: the rate limit
\* does not hide the escalation.
SaturationEscalates ==
    starved # None /\ lastDrop - starved >= ErrorAfter + LogInterval => alarm = "error"

\* What a full queue gives up is what the policy says.  With DROP_OLDEST it holds
\* the newest ticks without a hole, so that a slow consumer is never more than
\* Maxsize ticks behind; with DROP_NEWEST a tick that was accepted stays until a
\* consumer takes it.
KeptByPolicy ==
    [][/\ policy = "drop_oldest" =>
            \A k \in DOMAIN queue' : queue'[k] = dispatched' - Len(queue') + k
       /\ policy = "drop_newest" =>
            \A t \in Range(queue) : t \in Range(queue') \/ out' = t]_vars

\* The dispatcher is a lossy bounded FIFO queue: order, no duplicates, and a
\* dropped count that is exact.
Fifo == INSTANCE LossyFifo WITH offered <- dispatched, waiting <- Range(queue)

ImplementsLossyFifo == Fifo!Spec

=============================================================================
