# Leviathan streamers: TLA+ models, checks and proofs

This directory holds TLA+ models of the tick pipeline of this repository: a
collector process that turns exchange messages into a durable journal, and
engine processes that follow that journal. The modules are checked with TLC on
small instances; the theorems are proved with TLAPS for every value of the
constants. `PROJECT.json` maps every definition to the lines it models.

1. [The system](#1-the-system)
2. [Modules](#2-modules)
3. [Runs](#3-runs)
4. [What the runs found](#4-what-the-runs-found)
5. [Bounds](#5-bounds)
6. [Fairness](#6-fairness)
7. [Proofs](#7-proofs)
8. [Abstractions](#8-abstractions)
9. [Not modelled](#9-not-modelled)
10. [Plan](#10-plan)

## 1. The system

```
 exchange                     collector process                        engine process
 --------   websocket   ---------------------------------    files    ----------------------------
            <------->   ReconnectingWebSocketManager                   JournalTickStream
                          |  connect callback, messages                  |  poll      ^ set_cursor
                        BaseExchangeStream                               v            |
                          registry, confirmation tracker               JournalIncrementalReader
                          |  ticks                                       |  byte offset, no lock
                        JournalDispatchDecorator --> write guard         v
                          |                  \                         tick_journal.jsonl
                        TickJournal           AsyncQueueDispatcher     tick_journal.meta.json
                          |  lock, append, publish                     last_processed cursor file
                          v
                  tick_journal.jsonl, tick_journal.meta.json
```

| Component (`src/core`, `src/exchanges`) | State it keeps | Operations | Who calls it, what it calls |
|---|---|---|---|
| `journal/tick_journal*.py`, `journal_file_lock.py`, `symbol_dedup_bucket.py` | journal file, meta file; per instance the tip, the high-water mark, the dedup windows, the sparse index, the dirty flag, the append counter and the idle timer | append, flush, idle flush, `ensure_latest_seq_at_least`, reloads, compaction, `byte_offset_for_seq` | the decorator appends; the engine repairs, reloads and compacts; the processes share an advisory file lock |
| `journal/journal_incremental_reader.py` and its fragment policy | byte offset, line-start mark, last size, next seq, a wait on a fragment | `poll`, `reset_from_seq`, `force_rebind_from_seq` | the stream polls; it reads the two files without a lock |
| `journal/journal_tick_stream.py` | queue, join counter, pending tick, cursor, next seq, error count | the tail-follow loop, `wait_for_next_tick`, `mark_tick_as_processed`, `set_cursor`, stop, (un)subscribe | one asyncio loop; observers are awaited in the middle of a batch |
| `routing/async_queue_dispatcher.py` | bounded queue, drop counts, rate limit and saturation clock | `dispatch`, `wait_for_next_tick`, `mark_tick_as_processed` | the market stream dispatches, any number of consumers take |
| `network/reconnecting_ws_manager.py`, `retry_policy.py`, `post_flap_tip_correlation.py` | socket, health and keep-alive tasks, stop event, attempt; the noted flap and its tip window | connect and listen, disconnect, stop, the background tasks, the monitor's callbacks | the stream iterates over the generator and is called back on connect |
| `exchanges/base_stream.py`, `state/*.py`, `journal/journal_dispatch_decorator.py` | symbols registered, expected and acknowledged, connect generation, the guard's window | subscribe, unsubscribe, resubscribe, acknowledge, dispatch, stop | sits between the manager, the server and the journal |

What is hard in it:

* **Two processes, two files, one lock held in pieces.** A journal line is
  written before the meta file, and the meta file only every few appends. A
  process may die between the two, and what takes no lock sees one without the
  other. Every process counts from its own memory.
* **A reader without a lock** that keeps a byte offset into a file which grows in
  the middle of a line, keeps torn lines and is rewritten under it.
* **One event loop, many awaits.** An observer suspends the stream in the middle
  of a batch while `set_cursor`, `stop` and subscriptions run; a subscribe runs
  between a connect and its resubscription; the message loop awaits the queue and
  the observers while the link is cut under it; stop and cancellation meet a
  handshake, a callback, a message, a backoff or the teardown.
* **Counters that have to agree:** the join counters of both queues with the
  ticks taken from them, the drop count with the log lines, the append counter
  with the published tip.
* **Watchdogs:** silence, missing acknowledgements, no write after a reconnect,
  no progress after a flap. Each must fire, and for the connection it was armed
  for.

What makes each component correct, in one sentence each:

* *Journal*: no published or remembered tip goes back; a tip is published soon
  and in the end always; line numbers increase; an index only saves reading.
* *Reader*: it passes no record without returning it, and reaches the end.
* *Stream*: lines after the cursor are handled once and in order; what the saved
  cursor passes was processed or still waits in the buffer; a jump leaves nothing
  behind.
* *Engine and journal together*: no record is lost between the file and the
  consumer, whatever moves the byte cursor and whatever is compacted away.
* *Dispatcher*: a FIFO queue that may lose ticks, but counts and reports each.
* *Connection*: nothing of a connection outlives it; the server is subscribed to
  what is registered; every watchdog judges the connection it was armed on; a lost link is
  tried again.

`PROJECT.json` lists under `hazards` every place where these can go wrong, with
the line and the properties that cover it, or a note where none does.

## 2. Modules

| Module | Models | Role |
|---|---|---|
| `TickJournal` | tick journal, meta store, durability, index, compaction, lock | any number of instances over the two files, with crashes and I/O failures |
| `TickJournalProofs` | - | theorems about `TickJournal`: the tips; the lines, windows and index |
| `JournalFile` | the two files as others see them | piece by piece: appends, a collector that dies in a line, rewrites, publications; line operators and the index walk |
| `ReaderSteps` | incremental reader, fragment policy, read-progress gate | what each call does to the reader's fields, as functions of them and of the file; extends `JournalFile` |
| `JournalReader` | a reader alone | takes the steps of `ReaderSteps`, the file changing between the two halves of a poll |
| `ReaderStepsProofs`, `JournalReaderProofs` | - | lemmas on the file and the reader's calls; theorems about `JournalReader` |
| `EnginePipeline` | stream, reader, file and compaction together | composes `JournalTickStream` (`INSTANCE`, its journal being what was appended) with `ReaderSteps`: a poll of the stream returns what the reader makes of the bytes |
| `EnginePipelineProofs` | - | theorems about `EnginePipeline` |
| `JournalTickStream` | the stream and its cursor file | the event loop of an engine, with crashes and restarts |
| `JournalTickStreamProofs` | - | theorems about `JournalTickStream` |
| `TickDelivery` | what a consumer is promised | abstract specification of `JournalTickStream` |
| `AsyncQueueDispatcher` | the bounded dispatch queue | both overflow policies, any number of consumers, a clock |
| `AsyncQueueDispatcherProofs` | - | theorems about `AsyncQueueDispatcher` |
| `LossyFifo` | what a lossy queue promises | abstract specification of `AsyncQueueDispatcher` |
| `ReconnectingWebSocketManager` | manager, retry policy, flap monitor | actions used as conjuncts by the next module |
| `CollectorStream` | base stream, registry, tracker, write guard, dispatch decorator | composes with the manager by `EXTENDS`: a connect of the manager and the callback of the stream are one step |
| `CollectorStreamProofs` | - | theorems about the two modules above |
| `DataLemmas` | - | induction, maxima, remainders: facts that the proofs share |
| `MC...` | - | instances for TLC: symmetry, bounds, definitions of constants |

How state and actions correspond to the code:

* **TickJournal.** `mem[i]` is one `TickJournal` object: `latest` and `highWater`
  are `TickJournalMetaStore`'s two tips, `seen` its `SymbolDedupBucket`s, `index`
  the `TickJournalSeqIndex`, and `dirty`, `appends`, `timer` the fields of
  `TickJournalMetaDurability`. `append` is two steps, `AppendLine` (the line is
  written and synced) and `AppendMeta` (bucket, tip, index, counter, then publish
  or mark dirty), with the locks held in between; `compact_before_seq` is
  `CompactJournal` and `CompactMeta`. `persist` is the pair `Published` (the
  file) and `Settled` (the memory): a tip on disk above the one in memory is
  adopted and nothing is written. `Finds` is the tip it sees on disk, which is 0 when
  the meta file cannot be read or parsed; the memory is then written over whatever
  is there. `StoreFails` is a write that raises and leaves the old file. All that
  persists has these three outcomes: the appends that publish, both flushes,
  repairs and compactions. `AppendTorn` and `IdleFlushTimesOut` are failures of
  their own. `MaybeCompact` in the code is
  `compact_before_seq` for a watermark it computes: the same step, any watermark.
* **JournalFile, ReaderSteps, JournalReader.** `reader.off`, `bol`, `size`, `next`,
  `wait` are the private fields of the reader; `reader.index` is the seq index of the reader's
  `TickJournal`. `poll` is two steps, because the file is measured
  (`PollStarts`, with the resync after a rewrite) before it is opened
  (`PollReads`, alignment, reading and the fragment policy). `SetCursor`,
  `Restart` and `ForceTailResyncIfUnread` are the three ways to seek. A
  compaction is `Rewrite` and `Persist`, with the locks held in between, which no
  reader asks for.
* **EnginePipeline.** `Stream` is an instance of `JournalTickStream` with the
  variables of this module; its `PollReturns(b)` takes the batch that `Prepared`
  and `ReadOn` make of the file. `PollFails` is a file that cannot be opened or a
  reading that raises at some line: the reader is past the lines before it, whose
  records nobody gets. `Open` and `SetCursor` are the stream's and the
  reader's step at once, `MaybeCompact` takes its watermark from the saved cursor,
  and `OnlineCompaction` says whether it may run while an engine is up.
* **JournalTickStream.** A step is what happens between two points where a
  coroutine gives up control. `Poll` and `ObserverReturns` handle (the rest of) a
  batch: to its end, to an observer that suspends, or to an exception.
  `StartStreaming` and `CallbacksReturn` are `start_streaming` before and after its
  reconnect callbacks. `SetCursor` changes the memory, drains and saves last
  (`SavesSought`), and the save may fail, as that of a mark (`MarkSaveFails`) and of
  a skipped line (`CursorSaveFails`) may. `WaitForNextTick` asks nothing of the
  consumer: a take without a mark, or after one whose save raised, overwrites the
  pending tick, which the consumer thereby gives up, and the slot of that tick in the
  join counter is released by nobody (`leaked`).
  `handled`, `done`, `base` and `leaked` are history variables that no guard reads.
* **AsyncQueueDispatcher.** `Dispatch` is one call of `dispatch`, which never
  suspends: the put, or `Overflow` (the policy, the count, the log line with its
  rate limit and level). Ticks are numbered by their dispatch.
* **ReconnectingWebSocketManager, CollectorStream.** `phase` is where the
  generator is; the actions between two values of it are the code between two
  awaits. `keepAlive` and `health` hold how a task died, since awaiting a dead
  task raises its exception in the one that awaits. The monitor's callbacks are
  operators conjoined to the step of the manager that calls them. In phase
  `"handling"` the stream holds a message: `ReceiveTicks` dispatches its first tick,
  `DispatchNext` the others, `MessageEnds` asks for the next message.

## 3. Runs

| Run | Question | Expected |
|---|---|---|
| `journal_recovery` | Does any tip go back, with a collector, an engine, crashes, restarts and an I/O failure? Without failures, how far does the published tip lag, and is it always timed? | pass |
| `journal_one_author` | One collector that appends and compacts beside an engine that repairs and reloads: do seqs increase, does the dedup window hold, does the index never skip, is every tip published? | pass |
| `journal_restart_reuses_seq` | Is a seq unique in the file? | violation |
| `stream_cursor` | `set_cursor` at any moment, stops, cancellations, failed polls, observers and saves, its own included, ticks taken without a mark, one restart, observers that do not suspend, all symbols wanted: join counter, mark, buffer, is every line processed in the end, and the refinement of `TickDelivery` | pass |
| `stream_order` | One life, two symbols, changing subscriptions, observers that suspend and raise, failed saves, no `set_cursor`: is every line handled once, in order, and in the end processed, is what the saved cursor passes still there, is every stop seen? | pass |
| `stream_stale_batch` | `set_cursor` while an observer suspends the loop: is the buffer free of stale ticks? | violation |
| `dispatch_overflow` | Both policies, two consumers, a clock: join counter, what is kept, what is reported, escalation, and the refinement of `LossyFifo` | pass |
| `collector_connects` | Connects, flaps, silence, failing keep-alives, cancellation, stop, messages of several ticks, subscribe and unsubscribe at any time: release, flaps, registry, guard | pass |
| `collector_heals` | The same with one symbol, fairness and a tip that may be unreadable: are confirms and flaps judged, lost links retried, silent ones cut, stops obeyed? | pass |
| `reader_tail` | A file that grows by pieces, holds a torn line and is rewritten once, and one seek of any kind: is a record ever passed, is the end reached? | pass |
| `engine_pipeline` | Collector, file, reader, stream and consumer together, with a torn line, a crash, a failed poll or observer, `set_cursor` or a forced resync, and a compaction by the saved cursor while no engine runs: is a record lost end to end? | pass |
| `engine_online_compaction` | The same when the collector compacts under a live engine? | violation |

What the passing properties show, beyond the table:

* `DiskTipNeverRegresses` says that the published tip goes back in no step but one
  with an I/O error of its own, however stale the process that persists and whatever
  failed before. Such a step exists (section 4).
  `MemoryTipsNeverRegress` needs no such exception: the failed read does not lower
  the memory.
* `TipLagBounded` says that the published tip is less than
  `META_PERSIST_INTERVAL` behind any running instance, although idle flushes,
  repairs, adoptions and compactions publish in between and never reset the
  append counter that throttles the publication. `UnpublishedIsTimed` says that
  whatever is not published is dirty and has an armed timer. Both speak of runs
  without I/O failures: after a failed meta write of an append nothing marks the
  store dirty or re-arms the timer.
* `OwnIndexResolves` says that `byte_offset_for_seq` gives the same offset with
  the index as without it; the conditions it names (one author, the only process
  to compact is the one that asks, and it did not restart) are those under which
  it holds. An instance whose file was compacted by another one keeps old
  offsets until it reloads; what a reader then passes is in `NothingSkipped`.
* `NothingSkipped` names the only records that the reader may pass without
  returning them: one it gave up while it was being written, and those of a file
  that was rewritten when neither the size nor the index told the reader so.
* `HandledWithoutGaps` is the promise of `poll` that the stream relies on, stated
  over the whole composition: what was handled since the cursor was last loaded or
  set has no gap and no repetition, although a crash, an error in the middle of a
  batch, `set_cursor` and a forced resync move the byte cursor in four different
  ways, through an index that may be older than the file. The records it excuses
  are those the reader found half-written, those behind a torn line, and those
  dealt with before a compaction.
* `NothingLost` ties the file, the saved cursor and the consumer together: what the
  cursor has passed was processed or jumped over, and what a compaction removed was
  dealt with.
* `PassedIsBuffered` says where a line is that the saved cursor passed too early,
  because a skipped line followed a queued one: in the buffer or in the consumer's
  hands, or, after a rewind that drained the buffer and could not save its cursor,
  ahead of the loop. Only the end of the process loses it. The run has no
  `set_cursor`; the theorem `NothingPassedIsLost` covers those rewinds.
* `JoinCountExact` says that the join counter is never too low, so that
  `task_done` never raises, and too high by exactly the ticks that a take replaced
  while they were pending. `join` would wait for those for ever.
* `HandledFromCursor` compares all the loop has handled since the cursor was last
  loaded or set with the lines of the journal: no gap, no repetition, no
  reordering, whatever raised or was cancelled in between.
* `DeliversInOrder` (refinement) says that neither the cursor in memory (`mark`) nor
  the cursor file (`saved`) passes a line that was not settled: processed, given up
  by the consumer, or jumped over by `set_cursor`, saved or not. A restart repeats
  but loses nothing. It is
  checked for a journal all of whose symbols are subscribed: with an
  unsubscribed one the code itself saves the cursor ahead of the queue.
* `SaturationEscalates` says that the rate limit of the drop log cannot hide the
  escalation to ERROR longer than one log interval.
* `ConnectionsAreReleased`, `FlapsAreMatched` and `ArmedByThisConnection` relate
  the tasks, the noted flap and the write window to the connection that is up.
* `MuteFlapHeals` says that a flap after which the journal stands still is reported,
  and names the exceptions: a tip that cannot be read, a heal just before, an end of
  the stream. `LostLinkIsRetried` says that a lost link is tried again however it
  went, and names the one case in which it is not: a background task that died of
  the break, whose exception leaves the generator.
* `EveryLineProcessed` holds across restarts where all symbols are wanted
  (`stream_cursor`), and within one life where some are not (`stream_order`):
  with skipped lines the end of the process loses those of `PassedIsBuffered`.
* `TipEventuallyPublished`, `EveryLineProcessed`, `StopIsSeen`, `TailIsReached`,
  `FullConfirmIsJudged`, `MuteFlapHeals`, `LostLinkIsRetried`, `SilentLinkIsCut` and
  `StopEnds` are the liveness properties; section 6 gives their fairness.

Each property of a passing run has a mutant in `PROJECT.json`: a plausible
mistake in one mapped definition, written beside it in the module, under which
TLC finds the property violated. `Next` uses no mutant.

## 4. What the runs found

Three runs check a sentence of the repository that the code does not keep.

* **A seq is assigned twice after a crash** (`SeqUnique`,
  `tick_journal.py:66`). The constructor takes the tip from the meta file alone.
  Lines appended since the last publication are in the file, and their seqs are
  used again by the next incarnation.
* **A stale batch survives `set_cursor`** (`NoStaleTicks`,
  `journal_tick_stream.py:436`). A loop suspended in an observer still holds its
  batch; after the drain it queues the rest and moves `next_seq` behind it.
  The same property holds when observers do not suspend (`stream_cursor`).
* **A compaction makes a live reader pass a record** (`NothingLost`,
  `journal_incremental_reader.py:347`). The resync after a rewrite asks the index
  only when the byte offset lies beyond the new end. When the offset lies inside the
  new file it is aligned, or trusted because its line-start mark is equal to it, and
  the records that now lie before it are not read; the stream goes on with later
  ones and the saved cursor passes those left out. The same property holds when the
  journal is compacted while no engine runs (`engine_pipeline`).

Three further disagreements between a comment and the code are in the model, and no
run asks about them: when `persist` cannot read or parse the existing meta file it
takes the tip on disk for 0, and the memory of a stale process replaces a newer file
(`tick_journal_meta.py:167-168` says it never does; `DiskTipNeverRegresses` names
this exception); `persist` gives way only to a higher tip on disk, so a process
whose tip is equal, or was raised by a repair, publishes its old dedup windows and
index over newer ones (`tick_journal_meta.py:166` says they are not rolled back);
and the write guard is told of a write by every `append`, also of a trade that was
in the dedup window and wrote no line (`post_reconnect_write_liveness.py:179` speaks
of a tick that is persisted). `PROJECT.json` lists all three under `hazards`.

## 5. Bounds

Every bound is a constant whose name begins with `Max` and which appears in the
guard it bounds, or a set that is given small.

| Run | Bounds | Why they are enough |
|---|---|---|
| `journal_recovery`, `..._reuses_seq` | 2 instances, 1 symbol, 2 trades, 3 seqs, 2 lives, at most 1 fault, publication every 2 appends | three appends publish once and leave one unpublished; a second life meets a tip that is behind; two instances are enough for a stale and a fresh one, as steps name at most two |
| `journal_one_author` | 3 trades, 4 seqs, window 2, publication every 3 appends, index every 2 of at most 2 entries | the window and the index both evict; a publication is passed by a further append |
| `stream_cursor` | 3 seqs, cursors 0 to 3, 2 controls, 2 faults, 2 lives, 2 errors are fatal | two `set_cursor` in one consume, forwards and backwards over queued lines, with a save that fails; both faults reach the fatal threshold; a line is in the buffer, one in the consumer's hands and one not yet read when the process dies |
| `stream_order` | 2 symbols, 3 seqs, 2 controls, 2 faults | a batch with a subscribed line before, between and after unsubscribed ones |
| `dispatch_overflow` | capacity 2, 2 consumers, 8 ticks, clock to 6, log interval 2, ERROR after 3 time units or 6 drops | the queue overflows, drains and overflows again; both escalation rules and the rate limit meet |
| `collector_connects` | 2 symbols, `max_retries` 2, 2 ticks in a message, 2 faults, 1 call of subscribe or unsubscribe | two flaps give three connections, so that state of the last but one could show |
| `collector_heals` | 1 symbol, `max_retries` 2, 1 tick in a message, 2 faults, tips 0 and 1 | a lost link and a second fault: a silence, a failed handshake, a broken keep-alive, an unreadable tip or another flap inside the window of the first; a tip that moves and one that does not |
| `reader_tail` | 3 records of 2, 2 and 3 pieces, index every 2, publication every 2, 1 rewrite, 1 torn line, 1 seek | the lengths differ, so an old offset may lie at a line start, inside a line, or beyond the end of the rewritten file |
| `engine_pipeline` | 4 records of 2 pieces, index every 2, publication every 4 and after a compaction, 1 torn line, 1 rewrite that keeps 1 record behind the cursor, 2 lives, 1 call of `set_cursor` (to 1) or of the forced resync, a stop or a cancellation, 1 fault | a record is processed, removed, and another read behind it through an index that is rebuilt, published late, or from before the rewrite |
| `engine_online_compaction` | 5 records, publication after each, no torn line, no fault, `set_cursor` to 3 | the shortest case in which the rewritten file grows past the old offset |

`TradeSymmetry` permutes the trade ids in the safety runs of the journal; trade
ids are compared only for equality there. Runs with liveness properties use no
symmetry. `CHECK_DEADLOCK FALSE` is set where the system may really come to
rest: the dispatcher's ticks and clock are used up, or the collector has
stopped. Every other run checks for deadlock.

## 6. Fairness

Weak fairness, and in one place strong, only of what the code schedules by itself.

* `TickJournal`: a process that holds the locks goes on (`AppendMeta`,
  `CompactMeta`), and an armed `threading.Timer` fires (`IdleFlushCallback`).
  Nobody promises an append, a repair, a crash or a restart.
  `TipEventuallyPublished` is checked without crashes: after one, the tip
  is not lost to the property but the process is gone.
* `JournalTickStream`: the event loop runs what is ready (`Poll`,
  `LoopEnds`), its reconnect callbacks and observers return, and the consumer takes
  what is queued and marks what it took. Nobody promises that it marks a tick again
  whose mark could not be saved, and nobody promises to start, stop, cancel or restart the loop, which is why
  `EveryLineProcessed` excludes a loop that is off or stopped for ever.
* `CollectorStream`: ready coroutines run, a handshake ends (it has a timeout), the
  callback, the queue and the observers return, and a timer that stays armed fires.
  The loop over the messages of a lost link ends (strong fairness of `ListenEnds`,
  which each message in hand disables): the link has only so many left. Nobody promises a message,
  a call, a network fault, or the end of a fault's cause.
* `JournalReader`: the engine polls again and again, and its clock advances past
  the wait on a fragment. Nobody makes the collector write or finish a line.
* `EnginePipeline` is checked for safety only: its liveness is that of its two parts,
  `TailIsReached` and `EveryLineProcessed`, and the composition is too large for it.

## 7. Proofs

The components' theorems are proved in modules of their own, for every value of the
constants: any number of instances, consumers, symbols, lines and ticks, any sizes
and intervals, any number of crashes, failures and calls. `DataLemmas` holds what
they share: induction over the natural numbers in the form of sets, the existence
of maxima and minima, remainders, positions. The type invariants and all safety
invariants of the passing runs are proved; so are the action properties and both
refinements.

| Module | Theorem | Statement |
|---|---|---|
| `TickJournalProofs` | `TipInvariant` | `Spec => []TipInv` |
| | `TypeCorrect`, `TipLagIsBounded`, `UnpublishedTipsAreTimed` | `TypeOK`, `TipLagBounded`, `UnpublishedIsTimed` always hold |
| | `DiskTipMonotone`, `MemoryTipsMonotone` | `DiskTipNeverRegresses`, `MemoryTipsNeverRegress` |
| | `LinesInvariant`, `WindowInvariant`, `IndexInvariant` | the inductive invariants below |
| | `SeqsIncrease`, `DedupHolds`, `IndexResolves` | `SeqsIncreaseForOneAuthor`, `DedupWithinWindow`, `OwnIndexResolves` |
| `JournalReaderProofs` | `ReaderInvariant` | `Spec => []ReaderInv` |
| | `TypeCorrect`, `NothingIsSkipped` | `TypeOK`, `NothingSkipped` |
| `EnginePipelineProofs` | `TypeInvariant`, `EngineInvariant` | `Spec => []TypeInv`, `Spec => []EngineInv` |
| | `TypeCorrect`, `HandledInOrder`, `NoRecordIsLost` | `TypeOK` (no run checks it for the composition: its parts' runs do), `HandledWithoutGaps`, `NothingLost` |
| `JournalTickStreamProofs` | `BufferInvariant`, `OrderInvariant`, `CoveredInvariant` | the inductive invariants below |
| | `TypeCorrect`, `JoinCounted`, `MarkIsSafe` | `TypeOK`, `JoinCountExact`, `MarkNeverRaises` |
| | `HandledWithoutGap`, `BufferIsFresh` | `HandledFromCursor`, `NoStaleTicks` |
| | `NothingIsPassedOver`, `NothingPassedIsLost` | a line that the loop is past is settled or waits for the consumer, in any number of lives; `PassedIsBuffered` |
| | `StreamImplementsTickDelivery` | `DeliversInOrder` |
| `AsyncQueueDispatcherProofs` | `DispatcherInvariant` | `Spec => []DispatcherInv` |
| | `TypeCorrect`, `JoinCounted`, `DropsAreReported`, `SaturationIsEscalated` | `TypeOK`, `JoinCountExact`, `DropsReported`, `SaturationEscalates` |
| | `PolicyIsKept`, `DispatcherImplementsLossyFifo` | `KeptByPolicy`, `ImplementsLossyFifo` |
| `CollectorStreamProofs` | `CollectorInvariant` | `Spec => []CollectorInv` |
| | `TypeCorrect`, `NothingOutlivesItsConnection`, `FlapsMatch` | `TypeOK`, `ConnectionsAreReleased`, `FlapsAreMatched` |
| | `WireIsRight`, `GuardIsOfThisConnection` | `WireMatchesRegistry`, `ArmedByThisConnection` |

`ReaderStepsProofs` holds the lemmas on `JournalFile` and `ReaderSteps` that both
`JournalReaderProofs` and `EnginePipelineProofs` rest on. What was proved of the
stream alone is used in the composition through
`Lines == INSTANCE JournalTickStreamProofs WITH ...`: `SameActions` and `SameBatches`
show that its actions are those of the stream in `EnginePipeline`.

### What is assumed

Each module declares the assumptions on its constants (`RolesAssumption`,
`SizesAssumption`, `WidthAssumption`, `FileAssumption`, `ReaderAssumption`,
`DispatcherAssumption`, ...), TLC evaluates them in every run, and the constructors
and constants of the code give them: sizes and intervals are positive, there are
finitely many consumers, a line has an opening and a closing piece. All theorems of
the stream but those on its types, its join counter and its mark need more, and say
so in their `ASSUME`:

* `NoBatchIsStale == ObserversYield => Cursors = {}` for the order of the stream: a
  loop suspended in an observer keeps its batch across `set_cursor`, which is the
  finding of `stream_stale_batch`. Without it `HandledFromCursor` is false.
* `MaxLives <= 1`, with `NoBatchIsStale`, for `NothingPassedIsLost`: the end of the process is what loses a
  line that waits behind the saved cursor. `NothingIsPassedOver` states for any
  number of lives what remains true.
* `NotUnderTheEngine == ~OnlineCompaction` and the same `NoBatchIsStale` for
  `EngineInvariant`, `HandledInOrder` and `NoRecordIsLost`. A collector that
  compacts while an engine reads is the finding of `engine_online_compaction`: there
  `NothingLost` is false. The types need neither condition.
* `WantsAll` (all symbols are subscribed, or none) and `Cursors \subseteq 0..MaxSeq`
  for the refinement of `TickDelivery`: with an unsubscribed symbol the code itself
  saves the cursor ahead of the queue.

### The tips of the journal

`TipLagBounded` alone is not inductive, for two reasons. A reload turns the
high-water mark into `latest`, so the mark has to obey the same bound. And the
bound is kept by an append that does not publish only because the append counter
knows how far the tip may have moved: if the counter is `k` modulo
`PersistInterval`, the published tip is at most `k` behind. So `TipInv` consists of

* `TypeOK`, and that an append between its two steps has a real trade;
* `Coherent(mem[i])`: the high-water mark is not below the tip that appends
  count from;
* without failures so far, for every instance: `WithinLag` (the mark is no
  further ahead of the disk than the append counter modulo the interval) and
  `TimedIfAhead` (what is ahead of the disk is dirty and, if idle flushes are on,
  timed).

`OneMemoryChanges` carries most steps: a step that changes the memory of one
instance keeps `TipInv` if the new memory obeys it against the new tip on disk,
because the other memories were bounded by a tip that was not higher. What is
left is one lemma per action, which also shows `TipsAdvance` (no tip goes back),
from which the two action properties follow. `PersistFacts` is the lemma on
`persist`: whichever branch it takes, the published tip ends not below the memory it
was called with, and not below the old one unless that could not be read. That is
also why `DiskTipMonotone` names the exception.

### The lines of the journal

Increasing numbers are not inductive because the next number comes from a memory
and not from the file: `LinesInv` adds that no line is above the tip of the one
author that still writes. `WindowInv` adds what the author remembers: its buckets
hold the last `Window` lines of each symbol in the order of the file
(`Recalls`), also between the two steps of an append, when the newest line is in
the file and not yet in the bucket. `IndexInv` says of an index that every entry is
`Sound`: its offset is in the file and no line before it has its seq or a higher
one. That is true only for an instance in its first life, which alone compacts
the file, and not between the two steps of its compaction. `OwnIndexResolves`
follows: a walk that starts at a sound entry stops where a walk from the start does.

### The reader

`NothingSkipped` speaks of what the cursor has passed, and the cursor may pass a
record by an index, by the end of the file, or by a fragment. `ReaderInv` consists of

* `LineBeingWritten` and `RecordsInOrder`: the pieces of the unfinished line are the
  end of the file, so at most one record can become complete; complete records
  increase up to the tip;
* `IndexesFit`, `SoundIndex`: an index made since the last rewrite leads to the
  records it names, and not into the unfinished line. One from before the rewrite,
  in the meta file or in the reader's memory, may say anything, and the seek
  that trusts it excuses the whole file;
* `CursorInv`: without a rewrite the cursor is inside the file, and its next seq is
  not beyond the tip;
* `RewrittenInv`: between a rewrite and the next measuring every record is excused;
* `PassedInv`: every record that begins before the cursor *or whose seq is below
  the next* was returned, excused, or is before the last seek, and so is the one
  being written once the cursor is inside it. The second half is needed when a
  resync after a rewrite seeks by seq: what it leaves behind is before the cursor
  although it was not read from the new file.

`ByteOffsetFacts` is the lemma on the index walk: from a sound hint it ends at a line
start with no record from the wanted seq on before it. `SeekLands` carries it
through alignment and the abandoned tip, `RewriteFacts` shows that the rewritten
file holds whole records of the old one, in their order, and that the rebuilt
index is sound for it.

### The engine on the journal

`HandledWithoutGaps` and `NothingLost` need each other: the compaction keeps what
lies after the saved cursor, so the file is complete only if the cursor is right,
and the cursor is right only if the reader returned what is in the file. `TypeInv`
is types, the parts of the reader's invariant that speak of the file alone
(`LineBeingWritten`, `RecordsInOrder`, `IndexesFit`), and the stream's `Slots`.
`EngineInv` adds

* `Whole`, `LineStarted`: what is in the file is a line of its own, unless it was
  written behind a torn line; only lines of their own are ever parsed;
* `ReaderFits`: while an engine runs, the published index and the one in the
  reader's memory are of the present file, and offset and size lie inside it. This
  is what `NotUnderTheEngine` buys, and what fails with it;
* `ReaderPassed`: a record that lies before the byte cursor although its seq is
  still wanted is excused. The byte cursor and `next_seq` may differ in any other
  way: after an observer raised, after `set_cursor`, after a failed poll;
* `StreamOrder`: handled, queued and pending lines increase and lie between `base`
  and `next_seq`, and what was handled is done, queued or with the consumer;
* `Coverage`: every number up to `base` and up to the saved cursor is done or
  excused (`SettledTo`); every number in between was handled, excused, or dealt
  with before it left the file; a suspended batch passes only numbers the stream
  never gets to see (`Absent`).

Three lemmas carry the proof. `PolledIs`: whatever a poll returns increases from
`next_seq` on and leaves out no record of the file but excused ones (`Complete`); it
goes through the resync after a rewrite, the walk from the index, the alignment
and the fragment policy, by `PreparedPasses` and `ReaderPolls`. `CoverageBatch`: a
complete batch, or a prefix of it when an observer raises or suspends, keeps
`Coverage`. `RewriteKeepsRecords`: a rewrite keeps every line from the lowest
retained seq on and invents none; with `SettledTo(disk)` a compaction takes out
only what is settled (`CompactionKeeps`).

The saved cursor may be ahead of the one in memory here too, when the save of a
rewind failed. A seek back forgets what was given up behind it, but no number
that the saved cursor has passed (`RecordsStand`). `BrokenReadPasses` says that a
reading that raises leaves nothing behind the byte cursor but what it read: the
number of the reader is then ahead of the stream's, and the next poll seeks back.

The second conjunct of `SettledTo` is there for a case no test has: a record was
given up half-written, its collector dies, and the number is written again and is
wanted again. `base` and the cursor may lie beyond the tip, where such a number
is, only if everything up to them was really done.

### The stream

`BufferInv` (types, and `Slots`: the join counter is the queue, the pending tick and
what is `leaked`) needs nothing else. `OrderInv` says that the loop has handled exactly the
lines after `base` up to `nextSeq` (`HandledSoFar`), that queue and pending tick are
among them and the cursors below (`BufferedLines`, `Frontier`), and that the rest of a
suspended batch follows what was handled (`BatchFollows`). `CoveredInv` accounts for
each number since `base`: settled, in the queue, with the consumer, or one that no
line has. `DeliveryInv` is what the refinement needs besides: the queue is in order,
and everything up to `base` and up to the saved cursor is settled. The saved cursor
may be ahead of the one in memory, after a rewind whose save failed, and then only
`SettledTo` of the file bounds it.
`Selected` in `JournalTickStream` is a recursive function where `SelectSeq` would
do for TLC, and `InOrder` in `JournalFile` an explicit one where a sort would: the
prover knows nothing of either library operator.

### The dispatcher

`DispatcherInv` adds to the properties that the queue holds increasing ticks up to the
last one dispatched (`Ordered`), without a gap at its end under `drop_oldest`
(`Dense`), and how the saturation clock, the last log line and the last drop lie in
time (`Clocked`). With it each step maps to a step of `LossyFifo` or to a stutter.

### The connection and the collector

`ManagerInv` says which phase, socket, task and attempt go together (`Linked`).
`CollectorInv` adds what the stream knows: that each connection after the first was
paid for by a fault (`ConnectsAreCaused`), which bounds the generation that a
guard or a tracker was armed in; that before the resubscription the server knows
registered symbols only (`WireIsRegistered`), afterwards exactly those
(`WireMatchesRegistry`); that confirmations are of this connection
(`ConfirmedHere`).

### Only model-checked

* Liveness: the prover reasons neither about fairness nor about `ENABLED`. The nine
  properties of section 3 stay with TLC.
* The three runs that expect a violation are counterexamples, not theorems.

## 8. Abstractions

* A trade is a symbol and an id; prices, quantities and time stamps are left out,
  and so is the encoding of a line. A line that is cut off never parses.
* `TickJournal` counts offsets in lines; an offset inside a line is that of the
  next line, where every reader realigns. `JournalReader` is where offsets may
  lie inside a line; there complete records carry increasing numbers.
* `JournalTickStream` sees the journal through a `poll(n)` that returns the lines
  from `n` on in order. `EnginePipeline` replaces that `poll` by the reader's, and
  `HandledWithoutGaps` says what is left of the assumption.
* In `JournalReader` one read of a poll sees one state of the file; the file may
  change between its measuring and its reading. In `EnginePipeline` a poll is one
  step.
* In `EnginePipeline` all records have one symbol and complete records carry
  increasing numbers, as in `JournalReader`; subscriptions are the subject of
  `stream_order`, the reuse of numbers that of `journal_restart_reuses_seq`.
* Timers are not measured in `CollectorStream` and `JournalReader`: what is armed
  may fire at any time. `AsyncQueueDispatcher` has a clock, because its rate limit
  compares times.
* A tick of `CollectorStream` is new to the journal or in its dedup window; the
  journal there is its tip.
* A process that dies loses its memory; what was written and synced stays.

## 9. Not modelled

* *Bitget protocol, message parsing, stream factory*: payloads, JSON and wiring
  without state. What the parser returns is an input (`ReceiveAck`,
  `ReceiveTicks`, `ReceiveOther`).
* *Sink dispatch*: calls an injected sink and keeps no state.
* *Journal line codec, quarantine file*: the encoding of a tick, and a log that no
  code reads back.
* *Interfaces, models, serialization*: abstract classes and value types; their
  contracts are the actions of what implements them.
* *Entry points* (`main.py`, the demonstration, packaging).
* *`leviathan_common`, `websockets`, `asyncio`*: outside the repository, modelled
  only as far as the code relies on them.
* Of `JournalTickStream`: what it logs about an unread lag. Of the flap monitor and
  the manager: time stamps, log numbers and close diagnostics. Of the streams: which
  observers and callbacks are registered; only that they are awaited is modelled.

## 10. Plan

Done: the journal, the reader, the stream, the dispatcher, the connection and the
collector, two abstract specifications, the engine composed from the stream, the
reader and the file, and the theorems of section 7: every safety invariant of the
passing runs.

Next, in this order:

1. Compose `TickJournal` with `JournalFile`, so that the numbers a restarted
   collector assigns again reach the reader.
2. A statement of what `stop()` during a handshake should do: the generator then
   listens on a live connection until the peer closes it. The model has the
   behaviour, and no run asks about it yet.
