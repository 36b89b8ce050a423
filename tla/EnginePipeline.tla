----------------------------- MODULE EnginePipeline -----------------------------
(***************************************************************************)
(* The engine at work on the journal: JournalTickStream reads the file     *)
(* that the collector writes through its JournalIncrementalReader.  The    *)
(* stream alone assumes that poll returns the lines of the journal from a  *)
(* seq on; here poll returns what the reader makes of the bytes, and a     *)
(* restart, set_cursor or an error moves the byte cursor with the seq.     *)
(*                                                                         *)
(* A poll is one step here: what may happen between its measuring and its  *)
(* reading of the file is the subject of JournalReader.                    *)
(***************************************************************************)
EXTENDS ReaderSteps, Functions

CONSTANTS
    Symbol,           \* the instrument of all records
    ObserversYield,   \* the constants of JournalTickStream
    Cursors,
    FatalThreshold,
    LagSeq,           \* lag_seq of maybe_compact
    OnlineCompaction, \* whether the journal is compacted under a live engine
    MaxLives,         \* bounds of JournalTickStream
    MaxControls,
    MaxFaults

ASSUME PipelineAssumption ==
    /\ LagSeq \in Nat \ {0}
    /\ {OnlineCompaction, ObserversYield} \subseteq BOOLEAN
    /\ Cursors \subseteq Nat
    /\ FatalThreshold \in Nat \ {0}
    /\ {MaxLives, MaxControls, MaxFaults} \subseteq Nat

VARIABLES
    reader,           \* the reader of the engine's stream
    disk, cursor, nextSeq, symbols, queue, unfinished, leaked, pending, invalidated,
    loop, batch, errors, stopped, held, up, base, handled, done,
    lives, controls, faults,    \* the variables of JournalTickStream
    givenUp,          \* history: records the reader gave up half-written
    merged            \* history: records written behind a torn line

streamVars == <<disk, cursor, nextSeq, symbols, queue, unfinished, leaked, pending, invalidated,
                loop, batch, errors, stopped, held, up, base, handled, done,
                lives, controls, faults>>
vars == <<fileVars, reader, streamVars, givenUp, merged>>

LineOf(s) == [seq |-> s, symbol |-> Symbol]

Stream == INSTANCE JournalTickStream
            WITH journal <- [s \in 1..tip |-> LineOf(s)],
                 Symbols <- {Symbol}, InitialSymbols <- {}, Resubscribes <- FALSE,
                 MaxSeq <- Len(Width)

Init ==
    /\ FileInit
    /\ reader = FreshReader(published)
    /\ Stream!Init
    /\ givenUp = {} /\ merged = {}

-----------------------------------------------------------------------------
(* The collector *)

Torn == file # << >> /\ writing = 0 /\ ~IsEnd(file[Len(file)])

AppendPiece ==
    /\ WritePiece
    /\ merged' = IF Torn THEN merged \cup {tip + 1} ELSE merged
    /\ UNCHANGED <<reader, streamVars, givenUp>>

\* The record is written once more by the next process.
DiesInLine ==
    /\ DieInLine
    /\ merged' = merged \ {tip + 1} /\ givenUp' = givenUp \ {tip + 1}
    /\ UNCHANGED <<reader, streamVars>>

Publish == Persist /\ UNCHANGED <<reader, streamVars, givenUp, merged>>

\* Mutant of MaybeCompact: the watermark is what was appended, not what was processed.
MaybeCompactTip ==
    /\ OnlineCompaction \/ ~up
    /\ tip > LagSeq + 1 /\ Rewrite(tip - LagSeq)
    /\ UNCHANGED <<reader, streamVars, givenUp, merged>>

\* maybe_compact: up to LagSeq before the saved cursor.
MaybeCompact ==
    /\ OnlineCompaction \/ ~up
    /\ disk > LagSeq + 1 /\ Rewrite(disk - LagSeq)
    /\ UNCHANGED <<reader, streamVars, givenUp, merged>>

-----------------------------------------------------------------------------
(* The engine *)

\* A step of the stream alone.
StreamOnly(A) == UNCHANGED <<fileVars, reader, givenUp, merged>> /\ A

InFile == {c.seq : c \in Range(file)}

\* The cursor was moved to read on from s, by which the reader became r.  What it
\* will read again is not given up, unless the saved cursor has passed it.
Repositioned(r, s) ==
    givenUp' = {n \in givenUp : n < s \/ n <= disk' \/ n \notin InFile} \cup GivenUp(r)

Crash == StreamOnly(Stream!Crash)

\* A new process, not in the middle of a compaction.
Open ==
    /\ OnlineCompaction \/ ~Compacting
    /\ UNCHANGED <<fileVars, merged>>
    /\ Stream!Open
    /\ reader' = FreshReader(published)
    /\ Repositioned(reader', disk + 1)

\* poll, up to the opening of the file; a seq other than the reader's resets it.
Rebinds == nextSeq # reader.next

\* Mutant of Prepared: a poll for another seq only renames it.
PreparedWhereItIs ==
    Align(Resync([reader EXCEPT !.next = nextSeq], file, published), file)

Prepared ==
    LET r == IF Rebinds THEN ResetFromSeq(reader, file, nextSeq) ELSE reader
    IN  Align(Resync(r, file, published), file)

Polled ==
    LET seqs == InOrder(Returned(Prepared, file))
    IN  [i \in DOMAIN seqs |-> LineOf(seqs[i])]

AfterPoll(r) ==
    /\ reader' = r
    /\ IF Rebinds THEN Repositioned(r, nextSeq) ELSE givenUp' = givenUp \cup GivenUp(r)

Poll ==
    /\ UNCHANGED <<fileVars, merged>>
    /\ loop = "polling" /\ ~stopped
    /\ IF Polled = << >> THEN UNCHANGED streamVars ELSE Stream!PollReturns(Polled)
    /\ AfterPoll(ReadOn(Prepared, file))

\* The file cannot be opened, or reading it raises at the line that starts at o: the
\* reader is past the lines before it, whose records nobody gets.
PollFails ==
    /\ UNCHANGED <<fileVars, merged>>
    /\ Stream!PollFails
    /\ \E o \in LineStarts(file, Prepared.off) : AfterPoll(ReadOn(Prepared, SubSeq(file, 1, o)))

\* The clock of the reader reaches incomplete_record_max_wait_seconds.
WaitEnds ==
    /\ up /\ Stuck(reader) /\ ~reader.wait.ripe
    /\ reader' = [reader EXCEPT !.wait.ripe = TRUE]
    /\ UNCHANGED <<fileVars, streamVars, givenUp, merged>>

SetCursor(c) ==
    /\ UNCHANGED <<fileVars, merged>>
    /\ Stream!SetCursor(c)
    /\ reader' = ResetFromSeq(reader, file, c + 1)
    /\ IF KeepsCursor(reader, file, c + 1)
       THEN givenUp' = givenUp \cup GivenUp(reader')
       ELSE Repositioned(reader', c + 1)

\* force_tail_resync_if_unread, which a supervisor may call at any time.
ForceTailResyncIfUnread ==
    /\ up /\ Unread(reader)
    /\ Stream!Control
    /\ UNCHANGED <<fileVars, disk, cursor, nextSeq, symbols, queue, unfinished, leaked, pending,
                   invalidated, loop, batch, errors, stopped, held, up, base, handled,
                   done, lives, faults, merged>>
    /\ reader' = ForceRebind([reader EXCEPT !.index = published.index], file, nextSeq)
    /\ Repositioned(reader', nextSeq)

StreamStep ==
    \/ StreamOnly(Stream!StartStreaming \/ Stream!CallbacksReturn \/ Stream!Stop \/ Stream!Cancelled)
    \/ StreamOnly(Stream!ObserverReturns \/ Stream!ObserverFails \/ Stream!LoopEnds)
    \/ StreamOnly(Stream!Consume)

Next ==
    \/ AppendPiece \/ DiesInLine \/ Publish \/ MaybeCompact
    \/ Crash \/ Open
    \/ Poll \/ PollFails \/ WaitEnds
    \/ \E c \in Cursors : SetCursor(c)
    \/ ForceTailResyncIfUnread
    \/ StreamStep

Spec == Init /\ [][Next]_vars

-----------------------------------------------------------------------------
(* Properties *)

\* Type invariant of the file, the reader and the stream.
TypeOK ==
    /\ FileTypeOK
    /\ reader \in ReaderType /\ reader.bol = reader.off
    /\ Stream!TypeOK
    /\ {givenUp, merged} \subseteq SUBSET Records

\* What no reader of the file is promised.
Excused == givenUp \cup merged

\* Since the cursor was last loaded or set the stream has handled, in order
\* and each once, every record up to nextSeq, from whatever bytes the reader
\* was sent to by a restart, an error in the middle of a batch, set_cursor or
\* a forced resync: only a record that the reader found half-written, or that
\* was written behind a torn line, may be missing, or one that was dealt with
\* before the file was compacted and the cursor set back.
HandledWithoutGaps ==
    up => /\ \A i, j \in DOMAIN handled : i < j => handled[i].seq < handled[j].seq
          /\ (base + 1)..(nextSeq - 1) \subseteq
                Stream!Seqs(handled) \cup Excused \cup (done \ InFile)

\* End to end: every record up to the saved cursor was processed, or jumped over
\* by set_cursor, so that neither a restart nor a compaction up to the
\* cursor loses one; what is not in the file any more was dealt with.
NothingLost ==
    /\ 1..disk \subseteq done \cup Excused
    /\ 1..tip \subseteq InFile \cup done \cup Excused

================================================================================
