--------------------------- MODULE JournalTickStream ---------------------------
(***************************************************************************)
(* JournalTickStream: the engine's side of the journal.  A tail-follow     *)
(* task polls the journal and puts the records on an asyncio queue, a      *)
(* consumer takes them one by one and marks each as processed, and a       *)
(* cursor file remembers the last one so that a restart resumes after it.  *)
(*                                                                         *)
(* All of it runs on one event loop: a step is what happens between two    *)
(* points where a coroutine gives up control.  The queue is unbounded, so  *)
(* put never suspends; within a batch only an observer may.                *)
(*                                                                         *)
(* The journal is seen through its reader: poll(n) returns the lines with  *)
(* a seq of at least n, in order (JournalReader says when that holds).     *)
(***************************************************************************)
EXTENDS Integers, Sequences, FiniteSets, FiniteSetsExt, Functions

CONSTANTS
    Symbols,          \* instrument ids
    InitialSymbols,   \* the symbols given to the constructor
    Resubscribes,     \* whether subscribe_/unsubscribe_symbol are called
    ObserversYield,   \* whether an observer may suspend in on_price_update
    Cursors,          \* what set_cursor is called with
    FatalThreshold,   \* _TAIL_FOLLOW_FATAL_THRESHOLD
    MaxSeq,           \* bound: no seq above it is appended
    MaxLives,         \* bound: times the process may start
    MaxControls,      \* bound: stop, cancel, set_cursor, (un)subscribe calls
    MaxFaults         \* bound: polls, observers and saves that fail

ASSUME StreamAssumption ==
    /\ InitialSymbols \subseteq Symbols
    /\ Resubscribes \in BOOLEAN
    /\ ObserversYield \in BOOLEAN
    /\ Cursors \subseteq Nat
    /\ FatalThreshold \in Nat \ {0}
    /\ {MaxSeq, MaxLives, MaxControls, MaxFaults} \subseteq Nat

VARIABLES
    journal,      \* the lines of the journal file
    disk,         \* the cursor file: last_processed_seq
    cursor,       \* the cursor in memory
    nextSeq,      \* the seq the loop polls for
    symbols,      \* the subscribed symbols; none stands for all
    queue,        \* lines read and not yet taken by the consumer
    unfinished,   \* the queue's join counter
    leaked,       \* history: its slots that nobody releases any more
    pending,      \* the seq armed by wait_for_next_tick, 0 for None
    invalidated,  \* set_cursor cleared an armed pending
    loop,         \* start_streaming: "off", in its "callbacks", "polling", or in an "observer"
    batch,        \* records polled and not yet looked at
    errors,       \* consecutive_errors
    stopped,
    held,         \* the seq of the tick the consumer works on, 0 for none
    up,           \* the process runs
    base,         \* history: the cursor last loaded or set
    handled,      \* history: lines queued or skipped since then
    done,         \* history: seqs processed, given up, unsubscribed or jumped over
    lives, controls, faults    \* history: what the bounds count

bufferVars == <<queue, unfinished, leaked>>
consumerVars == <<pending, invalidated, held>>
loopVars == <<loop, batch, errors, stopped>>
boundVars == <<lives, controls, faults>>

vars == <<journal, disk, cursor, nextSeq, symbols, bufferVars, consumerVars,
          loopVars, up, base, handled, done, boundVars>>

-----------------------------------------------------------------------------
Line == [seq : Nat \ {0}, symbol : Symbols]

\* The elements of s that are in A, in their order.  A recursive function, which
\* can be reasoned about.
Selected(s, A) ==
    LET f[k \in 0 .. Len(s)] ==
            IF k = 0 THEN << >>
            ELSE IF s[k] \in A THEN Append(f[k - 1], s[k]) ELSE f[k - 1]
    IN  f[Len(s)]

Seqs(b) == {l.seq : l \in Range(b)}

Tip == Max({0} \cup Seqs(journal))

\* JournalIncrementalReader.poll
Unread(n) == Selected(journal, {l \in Range(journal) : l.seq >= n})

Subscribed(l) == symbols = {} \/ l.symbol \in symbols

Taken(b) == Selected(b, {l \in Range(b) : Subscribed(l)})

Control == controls < MaxControls /\ controls' = controls + 1

Fault == faults < MaxFaults /\ faults' = faults + 1

\* A stream object in a new process: __init__ with the cursor of the file.
Fresh(c) ==
    /\ cursor' = c /\ nextSeq' = c + 1 /\ base' = c
    /\ symbols' = InitialSymbols
    /\ queue' = << >> /\ unfinished' = 0 /\ leaked' = 0 /\ handled' = << >>
    /\ pending' = 0 /\ invalidated' = FALSE /\ held' = 0
    /\ loop' = "off" /\ batch' = << >> /\ errors' = 0 /\ stopped' = FALSE

Init ==
    /\ journal = << >> /\ disk = 0
    /\ cursor = 0 /\ nextSeq = 1 /\ base = 0
    /\ symbols = InitialSymbols
    /\ queue = << >> /\ unfinished = 0 /\ leaked = 0 /\ handled = << >>
    /\ pending = 0 /\ invalidated = FALSE /\ held = 0
    /\ loop = "off" /\ batch = << >> /\ errors = 0 /\ stopped = FALSE
    /\ up = TRUE /\ done = {}
    /\ lives = 1 /\ controls = 0 /\ faults = 0

\* The collector appends; a repaired tip leaves a gap.
Append1(s) ==
    \E gap \in 0 .. 1 :
        /\ Tip + gap < MaxSeq
        /\ journal' = Append(journal, [seq |-> Tip + gap + 1, symbol |-> s])
        /\ UNCHANGED <<disk, cursor, nextSeq, symbols, bufferVars, consumerVars,
                       loopVars, up, base, handled, done, boundVars>>

Crash ==
    /\ up /\ lives < MaxLives
    /\ up' = FALSE
    /\ Fresh(0)
    /\ UNCHANGED <<journal, disk, done, boundVars>>

Open ==
    /\ ~up
    /\ up' = TRUE /\ lives' = lives + 1
    /\ Fresh(disk)
    /\ UNCHANGED <<journal, disk, done, controls, faults>>

-----------------------------------------------------------------------------
(* The tail-follow loop *)

\* Mutant of StartStreaming: a call while the loop runs takes a stop back.
StartAnyway ==
    /\ up /\ loop' = IF loop = "off" THEN "callbacks" ELSE loop
    /\ errors' = 0 /\ stopped' = FALSE
    /\ UNCHANGED <<journal, disk, cursor, nextSeq, symbols, bufferVars, consumerVars,
                   batch, up, base, handled, done, boundVars>>

\* start_streaming up to its reconnect callbacks; it returns at once while an
\* earlier call still runs.
StartStreaming ==
    /\ up /\ loop = "off"
    /\ loop' = "callbacks" /\ errors' = 0 /\ stopped' = FALSE
    /\ UNCHANGED <<journal, disk, cursor, nextSeq, symbols, bufferVars, consumerVars,
                   batch, up, base, handled, done, boundVars>>

\* The callbacks were awaited one after the other; what they raise is logged.
CallbacksReturn ==
    /\ loop = "callbacks"
    /\ loop' = "polling"
    /\ UNCHANGED <<journal, disk, cursor, nextSeq, symbols, bufferVars, consumerVars,
                   batch, errors, stopped, up, base, handled, done, boundVars>>

\* Mutant of CursorThrough: the seq of a queued line is persisted as well.
CursorThroughAll(b) == Max({cursor} \cup Seqs(b))

\* The cursor after the unsubscribed lines of b: persist_cursor_through.
CursorThrough(b) ==
    Max({cursor} \cup {l.seq : l \in {x \in Range(b) : ~Subscribed(x)}})

\* The loop body for the lines of b: the subscribed ones are queued, the seqs of
\* the others persisted as processed.
Handle(b) ==
    /\ nextSeq' = IF b = << >> THEN nextSeq ELSE b[Len(b)].seq + 1
    /\ queue' = queue \o Taken(b)
    /\ unfinished' = unfinished + Len(Taken(b))
    /\ cursor' = CursorThrough(b)
    /\ handled' = handled \o b
    /\ done' = done \cup (Seqs(b) \ Seqs(Taken(b)))

SavedThrough(b) == disk' = IF CursorThrough(b) > cursor THEN CursorThrough(b) ELSE disk

\* The except branch, with n errors before this one.
Failed(n) ==
    /\ errors' = n + 1
    /\ batch' = << >>
    /\ IF n + 1 >= FatalThreshold
       THEN loop' = "off" /\ stopped' = TRUE
       ELSE loop' = "polling" /\ UNCHANGED stopped

Until(b, k) == SubSeq(b, 1, k)

\* All of b is handled and the loop goes back to its top.
BatchDone(b) ==
    /\ Handle(b) /\ SavedThrough(b)
    /\ loop' = "polling" /\ batch' = << >> /\ errors' = 0
    /\ UNCHANGED <<stopped, faults>>

\* Mutant of BatchSuspended: the cursor is saved for the batch as a whole.
BatchSuspendedSaved(b, k) ==
    /\ ObserversYield /\ Subscribed(b[k])
    /\ Handle(Until(b, k)) /\ SavedThrough(b)
    /\ loop' = "observer" /\ batch' = SubSeq(b, k + 1, Len(b)) /\ errors' = 0
    /\ UNCHANGED <<stopped, faults>>

\* An observer suspends the loop while it handles the k-th record.
BatchSuspended(b, k) ==
    /\ ObserversYield /\ Subscribed(b[k])
    /\ Handle(Until(b, k)) /\ SavedThrough(Until(b, k))
    /\ loop' = "observer" /\ batch' = SubSeq(b, k + 1, Len(b)) /\ errors' = 0
    /\ UNCHANGED <<stopped, faults>>

\* Mutant of ObserverRaises: nextSeq advances after the observers.
ObserverRaisesEarly(b, k) ==
    LET taken == Taken(Until(b, k))
    IN  /\ Fault /\ Subscribed(b[k])
        /\ nextSeq' = b[k].seq
        /\ queue' = queue \o taken /\ unfinished' = unfinished + Len(taken)
        /\ cursor' = CursorThrough(Until(b, k)) /\ SavedThrough(Until(b, k))
        /\ handled' = handled \o Until(b, k)
        /\ done' = done \cup (Seqs(Until(b, k)) \ Seqs(taken))
        /\ Failed(0)

\* An observer raises: the record is queued, the rest of the batch is dropped.
ObserverRaises(b, k) ==
    /\ Fault /\ Subscribed(b[k])
    /\ Handle(Until(b, k)) /\ SavedThrough(Until(b, k))
    /\ Failed(0)

\* The cursor file cannot be written for the k-th record.
CursorSaveFails(b, k) ==
    /\ Fault /\ ~Subscribed(b[k]) /\ b[k].seq > CursorThrough(Until(b, k - 1))
    /\ Handle(Until(b, k)) /\ SavedThrough(Until(b, k - 1))
    /\ Failed(0)

Batch(b) ==
    \/ BatchDone(b)
    \/ \E k \in DOMAIN b : BatchSuspended(b, k)
                           \/ ObserverRaises(b, k)
                           \/ CursorSaveFails(b, k)

\* One turn of the loop in which the reader returns the lines b.
PollReturns(b) ==
    /\ loop = "polling" /\ ~stopped
    /\ b # << >>
    /\ Batch(b)
    /\ UNCHANGED <<journal, symbols, leaked, consumerVars, up, base, lives, controls>>

Poll == PollReturns(Unread(nextSeq))

\* A poll without records changes nothing, the error count included.
PollEmpty ==
    /\ loop = "polling" /\ ~stopped
    /\ Unread(nextSeq) = << >>
    /\ UNCHANGED vars

PollFails ==
    /\ loop = "polling" /\ ~stopped
    /\ Fault /\ Failed(errors)
    /\ UNCHANGED <<journal, disk, cursor, nextSeq, symbols, bufferVars, consumerVars,
                   up, base, handled, done, lives, controls>>

\* The observer that suspended returns, and the loop goes on with its batch,
\* whatever happened to the cursor and to nextSeq meanwhile.
ObserverReturns ==
    /\ loop = "observer"
    /\ Batch(batch)
    /\ UNCHANGED <<journal, symbols, leaked, consumerVars, up, base, lives, controls>>

ObserverFails ==
    /\ loop = "observer"
    /\ Fault /\ Failed(0)
    /\ UNCHANGED <<journal, disk, cursor, nextSeq, symbols, bufferVars, consumerVars,
                   up, base, handled, done, lives, controls>>

\* stop() is seen at the top of the loop.
LoopEnds ==
    /\ loop = "polling" /\ stopped
    /\ loop' = "off"
    /\ UNCHANGED <<journal, disk, cursor, nextSeq, symbols, bufferVars, consumerVars,
                   batch, errors, stopped, up, base, handled, done, boundVars>>

\* The streaming task is cancelled in a sleep or in an observer.
Cancelled ==
    /\ loop # "off"
    /\ Control
    /\ loop' = "off" /\ batch' = << >>
    /\ UNCHANGED <<journal, disk, cursor, nextSeq, symbols, bufferVars, consumerVars,
                   errors, stopped, up, base, handled, done, lives, faults>>

Stop ==
    /\ up /\ ~stopped
    /\ Control
    /\ stopped' = TRUE
    /\ UNCHANGED <<journal, disk, cursor, nextSeq, symbols, bufferVars, consumerVars,
                   loop, batch, errors, up, base, handled, done, lives, faults>>

\* subscribe_symbol and unsubscribe_symbol
Resubscribe(s) ==
    /\ up /\ Resubscribes
    /\ Control
    /\ symbols' \in {symbols \cup {s}, symbols \ {s}} \ {symbols}
    /\ UNCHANGED <<journal, disk, cursor, nextSeq, bufferVars, consumerVars,
                   loopVars, up, base, handled, done, lives, faults>>

-----------------------------------------------------------------------------
(* The consumer *)

\* A tick that is still pending is given up: the consumer did not mark it, or
\* its mark could not save the cursor.  Its slot in the join counter stays.
WaitForNextTick ==
    /\ up /\ queue # << >>
    /\ held' = Head(queue).seq
    /\ pending' = Head(queue).seq /\ invalidated' = FALSE
    /\ queue' = Tail(queue)
    /\ leaked' = leaked + (IF pending > 0 THEN 1 ELSE 0)
    /\ done' = done \cup ({pending} \ {0})
    /\ UNCHANGED <<journal, disk, cursor, nextSeq, symbols, unfinished,
                   loopVars, up, base, handled, boundVars>>

\* Mutant of MarkProcessed: it returns early when the cursor is already ahead.
MarkProcessedOnlyAhead ==
    /\ pending > 0 /\ held' = 0
    /\ \/ /\ pending > cursor
          /\ cursor' = pending /\ disk' = pending
          /\ unfinished' = unfinished - 1
          /\ pending' = 0 /\ invalidated' = FALSE
          /\ done' = done \cup {pending}
       \/ /\ pending <= cursor
          /\ UNCHANGED <<cursor, disk, unfinished, pending, invalidated, done>>
    /\ UNCHANGED <<journal, nextSeq, symbols, queue, leaked,
                   loopVars, up, base, handled, boundVars>>

\* The pending tick is done: its seq is saved when it advances the cursor.
MarkProcessed ==
    /\ pending > 0
    /\ \/ /\ pending > cursor
          /\ cursor' = pending /\ disk' = pending
       \/ /\ pending <= cursor
          /\ UNCHANGED <<cursor, disk>>
    /\ unfinished' = unfinished - 1
    /\ held' = 0 /\ pending' = 0 /\ invalidated' = FALSE
    /\ done' = done \cup {pending}
    /\ UNCHANGED <<journal, nextSeq, symbols, queue, leaked,
                   loopVars, up, base, handled, boundVars>>

\* set_cursor took the pending tick away: a no-op, once.
MarkInvalidated ==
    /\ pending = 0 /\ invalidated
    /\ held' = 0 /\ invalidated' = FALSE
    /\ UNCHANGED <<journal, disk, cursor, nextSeq, symbols, bufferVars, pending,
                   loopVars, up, base, handled, done, boundVars>>

\* The cursor cannot be saved: mark raises with the tick still pending and the
\* cursor already advanced in memory.  The consumer is done with the tick: it may
\* mark it again, which saves nothing, or go on to the next.
MarkSaveFails ==
    /\ pending > cursor
    /\ Fault
    /\ cursor' = pending /\ held' = 0
    /\ done' = done \cup {pending}
    /\ UNCHANGED <<journal, disk, nextSeq, symbols, bufferVars, pending, invalidated,
                   loopVars, up, base, handled, lives, controls>>

\* set_cursor saves last: when that fails the file keeps the old cursor.
SavesSought(c) ==
    \/ disk' = c /\ UNCHANGED faults
    \/ Fault /\ UNCHANGED disk

\* Mutants of SetCursor: a slot of the join counter is released although no
\* tick is pending; the pending tick keeps its slot; its removal is not
\* remembered; the buffer is not drained.
SetCursorAlwaysReleases(c) ==
    /\ up /\ Control
    /\ cursor' = c /\ nextSeq' = c + 1 /\ SavesSought(c)
    /\ pending' = 0 /\ invalidated' = (invalidated \/ pending > 0)
    /\ queue' = << >> /\ unfinished' = unfinished - Len(queue) - 1
    /\ base' = c /\ handled' = << >> /\ done' = done \cup 1 .. c
    /\ UNCHANGED <<journal, symbols, leaked, held, loopVars, up, lives>>

SetCursorKeepsSlot(c) ==
    /\ up /\ Control
    /\ cursor' = c /\ nextSeq' = c + 1 /\ SavesSought(c)
    /\ pending' = 0 /\ invalidated' = (invalidated \/ pending > 0)
    /\ queue' = << >> /\ unfinished' = unfinished - Len(queue)
    /\ base' = c /\ handled' = << >> /\ done' = done \cup 1 .. c
    /\ UNCHANGED <<journal, symbols, leaked, held, loopVars, up, lives>>

SetCursorForgets(c) ==
    /\ up /\ Control
    /\ cursor' = c /\ nextSeq' = c + 1 /\ SavesSought(c)
    /\ pending' = 0 /\ UNCHANGED invalidated
    /\ queue' = << >>
    /\ unfinished' = unfinished - Len(queue) - (IF pending > 0 THEN 1 ELSE 0)
    /\ base' = c /\ handled' = << >> /\ done' = done \cup 1 .. c
    /\ UNCHANGED <<journal, symbols, leaked, held, loopVars, up, lives>>

SetCursorUndrained(c) ==
    /\ up /\ Control
    /\ cursor' = c /\ nextSeq' = c + 1 /\ SavesSought(c)
    /\ pending' = 0 /\ invalidated' = (invalidated \/ pending > 0)
    /\ unfinished' = unfinished - (IF pending > 0 THEN 1 ELSE 0)
    /\ base' = c /\ handled' = << >> /\ done' = done \cup 1 .. c
    /\ UNCHANGED <<journal, symbols, queue, leaked, held, loopVars, up, lives>>

\* set_cursor: the pending tick is released, the buffer drained, the reader
\* reset and the cursor saved.  The batch of a suspended loop stays.
SetCursor(c) ==
    /\ up /\ Control
    /\ cursor' = c /\ nextSeq' = c + 1 /\ SavesSought(c)
    /\ pending' = 0 /\ invalidated' = (invalidated \/ pending > 0)
    /\ queue' = << >>
    /\ unfinished' = unfinished - Len(queue) - (IF pending > 0 THEN 1 ELSE 0)
    /\ base' = c /\ handled' = << >> /\ done' = done \cup 1 .. c
    /\ UNCHANGED <<journal, symbols, leaked, held, loopVars, up, lives>>

-----------------------------------------------------------------------------
TailFollow == CallbacksReturn \/ Poll \/ PollEmpty \/ PollFails \/ ObserverReturns \/ ObserverFails \/ LoopEnds

Consume == WaitForNextTick \/ MarkProcessed \/ MarkInvalidated \/ MarkSaveFails

Next ==
    \/ \E s \in Symbols : Append1(s) \/ Resubscribe(s)
    \/ Crash \/ Open
    \/ StartStreaming \/ Stop \/ Cancelled
    \/ TailFollow
    \/ Consume
    \/ \E c \in Cursors : SetCursor(c)

\* The event loop runs what is ready, callbacks and observers return, and the
\* consumer takes what is queued and marks what it took.  Nobody promises to
\* start, stop or restart anything, nor to mark again after a failed save.
Fairness ==
    /\ WF_vars(CallbacksReturn)
    /\ WF_vars(Poll)
    /\ WF_vars(LoopEnds)
    /\ WF_vars(ObserverReturns)
    /\ WF_vars(held = 0 /\ WaitForNextTick)
    /\ WF_vars(held > 0 /\ MarkProcessed)
    /\ WF_vars(held > 0 /\ MarkInvalidated)

Spec == Init /\ [][Next]_vars

FairSpec == Spec /\ Fairness

-----------------------------------------------------------------------------
(* Properties *)

TypeOK ==
    /\ journal \in Seq(Line)
    /\ {disk, cursor, pending, held, base, unfinished, leaked, errors} \subseteq Nat
    /\ nextSeq \in Nat \ {0}
    /\ symbols \subseteq Symbols
    /\ queue \in Seq(Line) /\ batch \in Seq(Line) /\ handled \in Seq(Line)
    /\ loop \in {"off", "callbacks", "polling", "observer"}
    /\ {invalidated, stopped, up} \subseteq BOOLEAN
    /\ done \subseteq Nat \ {0}
    /\ {lives, controls, faults} \subseteq Nat

\* The join counter of the queue counts the lines in the queue and the pending
\* one, through drains and rewinds in the middle of a consume: it is never too
\* low, so that task_done never raises and a join does not return early.  It is
\* too high by exactly the ticks that a take replaced while they were pending,
\* after a mark whose save raised or without a mark: a join would wait for them
\* for ever.
JoinCountExact ==
    unfinished = Len(queue) + (IF pending > 0 THEN 1 ELSE 0) + leaked

\* mark_tick_as_processed of a consumer that holds a tick never raises for want
\* of a pending tick, whenever set_cursor came in between.
MarkNeverRaises == held > 0 => pending > 0 \/ invalidated

\* Since the cursor was last loaded or set, the loop has handled exactly the
\* lines after the cursor and before nextSeq, each once and in the order of the
\* journal: failed polls, observers and saves, cancelled and restarted loops
\* neither lose nor repeat a line.
HandledFromCursor ==
    up => handled = Selected(journal,
                             {l \in Range(journal) : base < l.seq /\ l.seq < nextSeq})

\* The saved cursor runs ahead of the consumer when a skipped line follows a
\* queued one.  What it has passed without being settled is then still in the
\* buffer or in the hands of the consumer, or, after a rewind that drained the
\* buffer and could not save its cursor, still ahead of the loop, whatever failed
\* or was cancelled in between: only the end of the process loses it.
PassedIsBuffered ==
    \A n \in Seqs(journal) :
        n <= disk => \/ n \in done \cup Seqs(queue) \cup {held}
                     \/ faults > 0 /\ n >= nextSeq

\* A stop ends the loop, from its callbacks and its observers as well: a
\* start_streaming that comes before the loop has seen the stop does not take
\* it back.
StopIsSeen == stopped ~> loop = "off"

\* What waits in the buffer came after the cursor that was last loaded or set:
\* set_cursor leaves no stale tick for the consumer.
NoStaleTicks == \A k \in DOMAIN queue : queue[k].seq > base

\* Every line of the journal is processed in the end, across errors and
\* cancellations, unless the loop runs no more from some point on.  Where all
\* symbols are wanted this holds across restarts as well; where some are not it
\* holds within one life of the process, whose end loses the lines of which
\* PassedIsBuffered speaks.
EveryLineProcessed ==
    \A n \in 1 .. MaxSeq :
        \/ <>[](loop = "off" \/ stopped)
        \/ (n \in Seqs(journal)) ~> (n \in done)

\* The stream keeps the promise of TickDelivery, the cursor in memory being its
\* watermark and the cursor file what a restart finds of it: every line up to
\* either was processed, was given up by the consumer, or was jumped over by
\* set_cursor, whichever saves failed, so that a restart loses nothing.
Delivery == INSTANCE TickDelivery
                WITH lines <- Seqs(journal), settled <- done,
                     mark <- IF up THEN cursor ELSE disk, saved <- disk

DeliversInOrder == Delivery!Spec

=============================================================================
