----------------------------- MODULE JournalReader -----------------------------
(***************************************************************************)
(* JournalIncrementalReader: one process follows the tail of the journal   *)
(* file with a byte cursor and takes no lock, while the collector appends  *)
(* to the file, dies in the middle of a line, and rewrites it              *)
(* (JournalFile).  The steps of the reader are those of ReaderSteps.       *)
(***************************************************************************)
EXTENDS ReaderSteps

CONSTANTS
    LagSeq,         \* a rewrite keeps as many records the reader has read
    MaxSeeks        \* bound: set_cursor, forced resyncs and restarts

ASSUME ReaderAssumption == {LagSeq, MaxSeeks} \subseteq Nat

VARIABLES
    reader,     \* the fields of the reader and the index of its TickJournal
    pc,         \* where the reader is inside poll
    got,        \* history: records returned since the last seek
    from,       \* history: the seq of the last seek
    skips,      \* history: offsets at which a fragment was given up
    excused,    \* history: records the reader may pass without returning them
    rewritten,  \* history: the file was rewritten since the reader looked
    seeks       \* history: seeks so far

historyVars == <<got, from, skips, excused, rewritten, seeks>>
vars == <<fileVars, reader, pc, historyVars>>

InFile == {c.seq : c \in Range(file)}

\* The offset of a fragment the reader left behind at the end of the file.
Skipped(r) == IF r.off > 0 /\ r.off = Len(file) /\ ~IsEnd(file[r.off]) THEN {r.off} ELSE {}

Init ==
    /\ FileInit
    /\ reader = FreshReader(published)
    /\ pc = "idle"
    /\ got = {}
    /\ from = 1
    /\ skips = {}
    /\ excused = {}
    /\ rewritten = FALSE
    /\ seeks = 0

-----------------------------------------------------------------------------
(* The collector *)

AppendPiece ==
    /\ WritePiece
    /\ excused' = IF rewritten THEN excused \cup {tip + 1} ELSE excused
    /\ UNCHANGED <<reader, pc, got, from, skips, rewritten, seeks>>

DiesInLine ==
    /\ DieInLine
    /\ excused' = IF rewritten THEN excused ELSE excused \ {tip + 1}
    /\ UNCHANGED <<reader, pc, got, from, skips, rewritten, seeks>>

Publish ==
    /\ Persist
    /\ UNCHANGED <<reader, pc, historyVars>>

\* What is processed is at most what the reader returned.
MaybeCompact ==
    /\ \E minRetain \in 2..(reader.next - 1 - LagSeq) : Rewrite(minRetain)
    /\ rewritten' = TRUE
    /\ excused' = excused \cup InFile
    /\ skips' = {}
    /\ UNCHANGED <<reader, pc, got, from, seeks>>

-----------------------------------------------------------------------------
(* The reader *)

\* The history of a seek to s that leads to the reader r.
Sought(r, s) ==
    /\ got' = {}
    /\ from' = s
    /\ skips' = Skipped(r)
    /\ excused' = GivenUp(r) \cup IF r.index.era = rewrites THEN {} ELSE InFile
    /\ rewritten' = FALSE

\* The history of a seek that leaves the cursor where it is.
Stayed(r) ==
    /\ skips' = skips \cup Skipped(r)
    /\ excused' = excused \cup GivenUp(r)
    /\ UNCHANGED <<got, from, rewritten>>

Seek ==
    /\ pc = "idle"
    /\ seeks < MaxSeeks
    /\ seeks' = seeks + 1
    /\ UNCHANGED <<fileVars, pc>>

\* reset_from_seq, from set_cursor or a poll for another seq.
SetCursor(s) ==
    /\ Seek
    /\ reader' = ResetFromSeq(reader, file, s)
    /\ IF KeepsCursor(reader, file, s) THEN Stayed(reader') ELSE Sought(reader', s)

\* A new engine process: a new reader, for the seq of its cursor.
Restart(s) ==
    /\ Seek
    /\ reader' = LET r == FreshReader(published)
                 IN  IF s = 1 THEN r ELSE ResetFromSeq(r, file, s)
    /\ Sought(reader', s)

ForceTailResyncIfUnread ==
    /\ Unread(reader)
    /\ Seek
    /\ reader' = ForceRebind([reader EXCEPT !.index = published.index], file, reader.next)
    /\ Sought(reader', reader.next)

\* poll: the file is measured first and read later.
PollStarts ==
    /\ pc = "idle"
    /\ pc' = "measured"
    /\ reader' = Resync(reader, file, published)
    /\ IF reader.off > Len(file)
       THEN /\ excused' = {s \in excused : s < reader.next} \cup GivenUp(reader')
                            \cup IF reader'.index.era = rewrites THEN {} ELSE InFile
            /\ skips' = Skipped(reader')
       ELSE UNCHANGED <<excused, skips>>
    /\ rewritten' = FALSE
    /\ UNCHANGED <<fileVars, got, from, seeks>>

PollReads ==
    LET r == Align(reader, file) IN
    /\ pc = "measured"
    /\ pc' = "idle"
    /\ reader' = ReadOn(r, file)
    /\ got' = got \cup Returned(r, file)
    /\ skips' = skips \cup Skipped(reader')
    /\ excused' = excused \cup GivenUp(reader')
    /\ UNCHANGED <<fileVars, from, rewritten, seeks>>

\* incomplete_record_max_wait_seconds have passed on the reader's clock.
WaitEnds ==
    /\ Stuck(reader)
    /\ ~reader.wait.ripe
    /\ reader' = [reader EXCEPT !.wait.ripe = TRUE]
    /\ UNCHANGED <<fileVars, pc, historyVars>>

Seeks == \E s \in 1..(tip + 1) : SetCursor(s) \/ Restart(s)

Next ==
    \/ AppendPiece \/ DiesInLine \/ Publish \/ MaybeCompact
    \/ PollStarts \/ PollReads \/ WaitEnds
    \/ Seeks \/ ForceTailResyncIfUnread

Spec == Init /\ [][Next]_vars

\* PollStarts and PollReads, by what they do to pc: no other step changes it.
Polls == pc' = IF pc = "idle" THEN "measured" ELSE "idle"

\* The engine polls on a timer and its clock advances; nobody makes the
\* collector write, nor the operator compact or seek.
FairSpec == Spec /\ WF_pc(Polls) /\ WF_reader(WaitEnds)

-----------------------------------------------------------------------------
(* Properties *)

\* Type invariant of the file, the reader and the history: between two of
\* its calls the reader trusts its offset as a line start.
TypeOK ==
    /\ FileTypeOK
    /\ reader \in ReaderType
    /\ reader.bol = reader.off
    /\ pc \in {"idle", "measured"}
    /\ got \subseteq Records
    /\ from \in Nat
    /\ skips \subseteq Nat
    /\ excused \subseteq Records
    /\ rewritten \in BOOLEAN
    /\ seeks \in 0..MaxSeeks

\* Where a reader that knows what it gave up reads a line from.
IsBol(a) == a = 0 \/ IsEnd(file[a]) \/ a \in skips

\* The reader passes a complete record without returning it only if it gave
\* the record up while it was being written, or the file was rewritten and
\* neither the size of the file nor its index told the reader.
NothingSkipped ==
    \A a \in 0..(Len(file) - 1) :
        /\ RecordAt(file, a)
        /\ IsBol(a)
        /\ a + Width[SeqAt(file, a)] <= reader.off
        => SeqAt(file, a) < from \/ SeqAt(file, a) \in got \cup excused

\* Whatever lies at the end of the file, a torn line, a line nobody
\* completes, or nothing any more since a rewrite, the reader gets there:
\* it waits for no fragment forever and does not stay beyond the end.
TailIsReached == reader.off # Len(file) ~> reader.off = Len(file)

================================================================================
