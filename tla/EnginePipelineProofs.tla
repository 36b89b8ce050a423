------------------------- MODULE EnginePipelineProofs -------------------------
(***************************************************************************)
(* Theorems about the engine on the journal: the types, and, when the      *)
(* journal is only compacted while no engine runs, that the stream handles *)
(* every record in order and that no record is lost.                       *)
(***************************************************************************)
EXTENDS EnginePipeline, ReaderStepsProofs

\* The stream with what was proved of it.
Lines == INSTANCE JournalTickStreamProofs
            WITH journal <- [s \in 1..tip |-> LineOf(s)],
                 Symbols <- {Symbol}, InitialSymbols <- {}, Resubscribes <- FALSE,
                 MaxSeq <- Len(Width)

-----------------------------------------------------------------------------
(* The invariants *)

\* The first invariant: the types, what the file and its indexes are made of,
\* and the join counter of the stream.
TypeInv == TypeOK /\ LineBeingWritten /\ RecordsInOrder /\ IndexesFit /\ Lines!Slots

\* What is in the file is there as a whole, unless it was written behind a torn line.
Whole ==
    \A n \in 1 .. tip :
        n \in InFile =>
            \/ n \in merged
            \/ \E a \in 0 .. Len(file) - 1 : RecordAt(file, a) /\ Bol(file, a) /\ SeqAt(file, a) = n

\* The line being written starts a line, or is known to be merged with a torn one.
LineStarted == writing > 0 => Bol(file, Len(file) - writing) \/ tip + 1 \in merged

\* The reader of a running engine has an index of the present file and knows its size.
ReaderFits ==
    up => /\ published.index.era = rewrites
          /\ reader.index.era = rewrites /\ SoundIndex(reader.index)
          /\ reader.off <= Len(file) /\ reader.size <= Len(file)

\* What a reader has passed although it is still to be read is in X.
PassedOnly(r, X) ==
    /\ \A a \in 0 .. Len(file) - 1 :
          RecordAt(file, a) /\ Bol(file, a) /\ a < r.off /\ SeqAt(file, a) >= r.next => SeqAt(file, a) \in X
    /\ writing > 0 /\ Len(file) - writing < r.off => tip + 1 \in X

ReaderPassed == up => PassedOnly(reader, Excused)

\* The seqs of a list of lines increase and lie in a range.
Between(l, lo, hi) ==
    /\ \A i \in 1 .. Len(l) : lo <= l[i].seq /\ l[i].seq <= hi
    /\ \A i, j \in 1 .. Len(l) : i < j => l[i].seq < l[j].seq

\* The stream's own state.
StreamOrder ==
    /\ symbols = {}
    /\ ~up => loop = "off" /\ base = 0 /\ nextSeq = 1 /\ queue = << >> /\ held = 0 /\ pending = 0
    /\ base < nextSeq /\ cursor < nextSeq
    /\ nextSeq = base + 1 \/ nextSeq <= tip + 1
    /\ Between(handled, base + 1, nextSeq - 1)
    /\ Between(queue, base + 1, nextSeq - 1)
    /\ pending > 0 => /\ base < pending /\ pending < nextSeq
                      /\ \A i \in 1 .. Len(queue) : pending < queue[i].seq
    /\ loop = "observer" => ObserversYield /\ Between(batch, nextSeq, tip)
    /\ Stream!Seqs(handled) \subseteq done \cup Stream!Seqs(queue) \cup {pending}

\* Numbers the stream never gets to see.
Absent(n) == n \in merged \/ (n \notin InFile /\ n \in done \cup givenUp)

\* The numbers up to m are settled, and stay so when an unfinished line is written again.
SettledTo(m) ==
    /\ \A n \in 1 .. m : n \in done \cup Excused
    /\ m <= tip \/ \A n \in 1 .. m : n \in done

Coverage ==
    /\ SettledTo(disk) /\ SettledTo(base)
    /\ \A n \in 1 .. tip : n \in InFile \cup done \cup Excused
    /\ \A n \in base + 1 .. nextSeq - 1 :
          n \in Stream!Seqs(handled) \cup Excused \cup (done \ InFile)
    /\ loop = "observer" =>
          \A i \in 1 .. Len(batch) : \A n \in nextSeq .. batch[i].seq :
              n \in Stream!Seqs(batch) \/ Absent(n)

\* The second invariant, for a journal that is not compacted under the engine and a
\* stream whose observers do not suspend or whose cursor is not set.
EngineInv ==
    /\ TypeInv
    /\ Whole /\ LineStarted
    /\ ReaderFits /\ ReaderPassed
    /\ StreamOrder /\ Coverage

-----------------------------------------------------------------------------
(* The stream with its theorems is the stream of the pipeline *)

\* Its actions that do not look at lines.
LEMMA SameActions ==
  /\ Lines!TypeOK <=> Stream!TypeOK
  /\ Lines!Init <=> Stream!Init
  /\ Lines!Crash <=> Stream!Crash
  /\ Lines!Open <=> Stream!Open
  /\ Lines!StartStreaming <=> Stream!StartStreaming
  /\ Lines!CallbacksReturn <=> Stream!CallbacksReturn
  /\ Lines!Stop <=> Stream!Stop
  /\ Lines!Cancelled <=> Stream!Cancelled
  /\ Lines!ObserverFails <=> Stream!ObserverFails
  /\ Lines!LoopEnds <=> Stream!LoopEnds
  /\ Lines!PollFails <=> Stream!PollFails
  /\ Lines!Consume <=> Stream!Consume
  /\ \A c : Lines!SetCursor(c) <=> Stream!SetCursor(c)
<1> USE DEF Lines!bufferVars, Stream!bufferVars, Lines!consumerVars, Stream!consumerVars,
            Lines!loopVars, Stream!loopVars, Lines!boundVars, Stream!boundVars,
            Lines!Control, Stream!Control, Lines!Fault, Stream!Fault, Lines!Line, Stream!Line,
            Lines!Fresh, Stream!Fresh, Lines!Failed, Stream!Failed
<1>1. Lines!TypeOK <=> Stream!TypeOK
  BY DEF Lines!TypeOK, Stream!TypeOK
<1>2. Lines!Init <=> Stream!Init
  BY DEF Lines!Init, Stream!Init
<1>3. Lines!Crash <=> Stream!Crash
  BY DEF Lines!Crash, Stream!Crash
<1>4. Lines!Open <=> Stream!Open
  BY DEF Lines!Open, Stream!Open
<1>5. Lines!StartStreaming <=> Stream!StartStreaming
  BY DEF Lines!StartStreaming, Stream!StartStreaming
<1>6. Lines!CallbacksReturn <=> Stream!CallbacksReturn
  BY DEF Lines!CallbacksReturn, Stream!CallbacksReturn
<1>7. Lines!Stop <=> Stream!Stop
  BY DEF Lines!Stop, Stream!Stop
<1>8. Lines!Cancelled <=> Stream!Cancelled
  BY DEF Lines!Cancelled, Stream!Cancelled
<1>9. Lines!ObserverFails <=> Stream!ObserverFails
  BY DEF Lines!ObserverFails, Stream!ObserverFails
<1>10. Lines!LoopEnds <=> Stream!LoopEnds
  BY DEF Lines!LoopEnds, Stream!LoopEnds
<1>11. Lines!PollFails <=> Stream!PollFails
  BY DEF Lines!PollFails, Stream!PollFails
<1>12. Lines!Consume <=> Stream!Consume
  <2>1. Lines!WaitForNextTick <=> Stream!WaitForNextTick
    BY DEF Lines!WaitForNextTick, Stream!WaitForNextTick
  <2>2. Lines!MarkProcessed <=> Stream!MarkProcessed
    BY DEF Lines!MarkProcessed, Stream!MarkProcessed
  <2>3. Lines!MarkInvalidated <=> Stream!MarkInvalidated
    BY DEF Lines!MarkInvalidated, Stream!MarkInvalidated
  <2>4. Lines!MarkSaveFails <=> Stream!MarkSaveFails
    BY DEF Lines!MarkSaveFails, Stream!MarkSaveFails
  <2> QED BY <2>1, <2>2, <2>3, <2>4 DEF Lines!Consume, Stream!Consume
<1>13. \A c : Lines!SetCursor(c) <=> Stream!SetCursor(c)
  BY DEF Lines!SetCursor, Stream!SetCursor, Lines!SavesSought, Stream!SavesSought
<1> QED BY <1>1, <1>2, <1>3, <1>4, <1>5, <1>6, <1>7, <1>8, <1>9, <1>10, <1>11, <1>12, <1>13

\* Its actions that do.
LEMMA SameBatches ==
  /\ \A b : Lines!Seqs(b) = Stream!Seqs(b)
  /\ \A b : Lines!Batch(b) <=> Stream!Batch(b)
  /\ \A b : Lines!PollReturns(b) <=> Stream!PollReturns(b)
  /\ Lines!ObserverReturns <=> Stream!ObserverReturns
<1>1. \A b : Lines!Seqs(b) = Stream!Seqs(b)
  BY DEF Lines!Seqs, Stream!Seqs, Lines!Range, Stream!Range
<1>2. \A s, A : Lines!Selected(s, A) = Stream!Selected(s, A)
  BY DEF Lines!Selected, Stream!Selected
<1>3. \A l : Lines!Subscribed(l) <=> Stream!Subscribed(l)
  BY DEF Lines!Subscribed, Stream!Subscribed
<1>4. \A b : Lines!Taken(b) = Stream!Taken(b)
  BY <1>2, <1>3 DEF Lines!Taken, Stream!Taken, Lines!Range, Stream!Range
<1>5. \A b : Lines!CursorThrough(b) = Stream!CursorThrough(b)
  BY <1>3 DEF Lines!CursorThrough, Stream!CursorThrough, Lines!Range, Stream!Range, Lines!Max, Stream!Max
<1>6. \A b, k : Lines!Until(b, k) = Stream!Until(b, k)
  BY DEF Lines!Until, Stream!Until
<1>7. \A b : Lines!Handle(b) <=> Stream!Handle(b)
  BY <1>1, <1>4, <1>5 DEF Lines!Handle, Stream!Handle
<1>8. \A b : Lines!SavedThrough(b) <=> Stream!SavedThrough(b)
  BY <1>5 DEF Lines!SavedThrough, Stream!SavedThrough
<1>9. \A n : Lines!Failed(n) <=> Stream!Failed(n)
  BY DEF Lines!Failed, Stream!Failed
<1>10. Lines!Fault <=> Stream!Fault
  BY DEF Lines!Fault, Stream!Fault
<1>11. \A b : Lines!BatchDone(b) <=> Stream!BatchDone(b)
  BY <1>7, <1>8 DEF Lines!BatchDone, Stream!BatchDone
<1>12. \A b, k : Lines!BatchSuspended(b, k) <=> Stream!BatchSuspended(b, k)
  BY <1>3, <1>6, <1>7, <1>8 DEF Lines!BatchSuspended, Stream!BatchSuspended
<1>13. \A b, k : Lines!ObserverRaises(b, k) <=> Stream!ObserverRaises(b, k)
  BY <1>3, <1>6, <1>7, <1>8, <1>9, <1>10 DEF Lines!ObserverRaises, Stream!ObserverRaises
<1>14. \A b, k : Lines!CursorSaveFails(b, k) <=> Stream!CursorSaveFails(b, k)
  BY <1>3, <1>5, <1>6, <1>7, <1>8, <1>9, <1>10 DEF Lines!CursorSaveFails, Stream!CursorSaveFails
<1>15. \A b : Lines!Batch(b) <=> Stream!Batch(b)
  BY <1>11, <1>12, <1>13, <1>14 DEF Lines!Batch, Stream!Batch
<1>16. \A b : Lines!PollReturns(b) <=> Stream!PollReturns(b)
  BY <1>15 DEF Lines!PollReturns, Stream!PollReturns, Lines!consumerVars, Stream!consumerVars
<1>17. Lines!ObserverReturns <=> Stream!ObserverReturns
  BY <1>15 DEF Lines!ObserverReturns, Stream!ObserverReturns, Lines!consumerVars, Stream!consumerVars
<1> QED BY <1>1, <1>15, <1>16, <1>17

\* Its assumption holds.
LEMMA StreamAssumptionHolds == Lines!StreamAssumption
  BY PipelineAssumption, RecordSizes DEF Lines!StreamAssumption

\* Its first invariant.
LEMMA BufferIs == Lines!BufferInv <=> Stream!TypeOK /\ Lines!Slots
<1>1. Lines!TypeOK <=> Lines!Lists /\ Lines!Numbers /\ Lines!Flags
  BY Lines!TypesAre, StreamAssumptionHolds
<1> QED BY <1>1, SameActions DEF Lines!BufferInv

\* The same after a step.
LEMMA BufferIsNext == Lines!BufferInv' <=> Stream!TypeOK' /\ Lines!Slots'
  BY BufferIs, PTL

-----------------------------------------------------------------------------
(* The types *)

\* What the first invariant says, part by part.
LEMMA PipelineParts ==
  ASSUME TypeInv
  PROVE  /\ FileInv /\ FileTypeOK /\ LineBeingWritten /\ RecordsInOrder /\ IndexesFit
         /\ Lines!BufferInv
         /\ file \in Seq(Cell) /\ Len(file) \in Nat /\ tip \in Nat /\ writing \in Nat
         /\ reader \in ReaderType /\ reader \in RawReader /\ reader.bol = reader.off
         /\ reader.off \in Nat /\ reader.next \in Nat \ {0} /\ reader.index \in Index
         /\ published.index \in Index
         /\ givenUp \subseteq Records /\ merged \subseteq Records
<1>1. /\ FileTypeOK /\ reader \in ReaderType /\ reader.bol = reader.off /\ Stream!TypeOK
      /\ givenUp \subseteq Records /\ merged \subseteq Records
  BY DEF TypeInv, TypeOK
<1>2. reader \in RawReader
  BY <1>1, ReaderIsRaw
<1>3. reader.off \in Nat /\ reader.next \in Nat \ {0} /\ reader.index \in Index
  BY <1>2, ReaderParts
<1>4. FileInv /\ LineBeingWritten /\ RecordsInOrder /\ IndexesFit /\ Lines!BufferInv
  BY <1>1, BufferIs DEF TypeInv, FileInv
<1> QED BY <1>1, <1>2, <1>3, <1>4, FileParts

\* The numbers of the stream.
LEMMA StreamParts ==
  ASSUME TypeInv
  PROVE  /\ disk \in Nat /\ cursor \in Nat /\ nextSeq \in Nat \ {0} /\ base \in Nat
         /\ pending \in Nat /\ held \in Nat /\ unfinished \in Nat /\ leaked \in Nat /\ errors \in Nat
         /\ done \subseteq Nat \ {0}
         /\ lives \in Nat /\ controls \in Nat /\ faults \in Nat
         /\ queue \in Seq(Lines!Line) /\ batch \in Seq(Lines!Line) /\ handled \in Seq(Lines!Line)
         /\ stopped \in BOOLEAN /\ up \in BOOLEAN
  BY PipelineParts DEF Lines!BufferInv, Lines!Numbers, Lines!Lists, Lines!Flags

\* The other way round.
LEMMA PartsMakeTypeInv ==
  ASSUME FileInv', IndexesFit', Lines!BufferInv',
         reader' \in ReaderType, reader'.bol = reader'.off,
         givenUp' \subseteq Records, merged' \subseteq Records
  PROVE  TypeInv'
<1>1. FileTypeOK' /\ LineBeingWritten' /\ RecordsInOrder'
  BY DEF FileInv
<1>2. TypeOK'
  BY <1>1, BufferIsNext DEF TypeOK
<1> QED BY <1>1, <1>2, BufferIsNext DEF TypeInv

\* Lines of the records.
LEMMA RecordsAreLines ==
  /\ \A n \in Nat \ {0} : LineOf(n) \in Lines!Line /\ LineOf(n).seq = n
  /\ \A t \in Nat : [s \in 1 .. t |-> LineOf(s)] \in Seq(Lines!Line)
<1>1. \A n \in Nat \ {0} : LineOf(n) \in Lines!Line /\ LineOf(n).seq = n
  BY DEF LineOf, Lines!Line
<1>2. ASSUME NEW t \in Nat PROVE [s \in 1 .. t |-> LineOf(s)] \in Seq(Lines!Line)
  <2>1. [s \in 1 .. t |-> LineOf(s)] \in [1 .. t -> Lines!Line]
    BY <1>1
  <2> QED BY <2>1
<1> QED BY <1>1, <1>2

\* The first invariant of the stream holds on when only the file changes.
LEMMA StreamUntouched ==
  ASSUME Lines!BufferInv, UNCHANGED streamVars, tip' \in Nat
  PROVE  Lines!BufferInv'
<1> USE DEF Lines!BufferInv
<1>1. /\ UNCHANGED <<disk, cursor, nextSeq, symbols, queue, unfinished, leaked, pending, invalidated,
                     loop, batch, errors, stopped, held, up, base, handled, done>>
      /\ UNCHANGED <<lives, controls, faults>>
  BY DEF streamVars
<1>2. Lines!Lists'
  BY <1>1, RecordsAreLines DEF Lines!Lists
<1>3. Lines!Numbers'
  BY <1>1 DEF Lines!Numbers
<1>4. Lines!Flags'
  BY <1>1 DEF Lines!Flags
<1>5. Lines!Slots'
  BY <1>1 DEF Lines!Slots, Lines!JoinCountExact, Lines!MarkNeverRaises
<1> QED BY <1>2, <1>3, <1>4, <1>5

\* The first invariant of the file holds on when the file does not change.
LEMMA FileUntouched ==
  ASSUME FileInv, IndexesFit, UNCHANGED fileVars
  PROVE  FileInv' /\ IndexesFit'
<1>1. /\ file' = file /\ tip' = tip /\ writing' = writing /\ rewrites' = rewrites
      /\ index' = index /\ published' = published /\ torn' = torn
  BY DEF fileVars
<1> QED BY <1>1 DEF FileInv, FileTypeOK, LineBeingWritten, RecordsInOrder, IndexesFit, SoundIndex

\* The record being written.
LEMMA GivenUpIsARecord ==
  ASSUME TypeInv, UNCHANGED fileVars, NEW r
  PROVE  GivenUp(r) \subseteq Records /\ GivenUp(r)' \subseteq Records
  BY PipelineParts DEF LineBeingWritten, GivenUp, fileVars

\* The steps of the collector.
LEMMA FileSteps ==
  ASSUME TypeInv, AppendPiece \/ DiesInLine \/ Publish \/ MaybeCompact
  PROVE  TypeInv'
<1>1. FileInv /\ IndexesFit /\ Lines!BufferInv
  BY PipelineParts
<1>2. UNCHANGED <<reader, streamVars>>
  BY DEF AppendPiece, DiesInLine, Publish, MaybeCompact
<1>3. FileInv' /\ IndexesFit'
  <2>1. CASE AppendPiece
    BY <1>1, <2>1, WritePieceSafe DEF AppendPiece
  <2>2. CASE DiesInLine
    BY <1>1, <2>2, DieInLineSafe DEF DiesInLine
  <2>3. CASE Publish
    BY <1>1, <2>3, PersistSafe DEF Publish
  <2>4. CASE MaybeCompact
    BY <1>1, <2>4, RewriteSafe DEF MaybeCompact
  <2> QED BY <2>1, <2>2, <2>3, <2>4
<1>4. tip' \in Nat
  <2>1. tip' \in {0} \cup Records
    BY <1>3 DEF FileInv, FileTypeOK
  <2> QED BY <2>1, RecordSizes
<1>5. Lines!BufferInv'
  BY <1>1, <1>2, <1>4, StreamUntouched
<1>6. givenUp' \subseteq Records /\ merged' \subseteq Records
  <2>1. givenUp \subseteq Records /\ merged \subseteq Records
    BY PipelineParts
  <2>2. CASE AppendPiece
    BY <2>1, <2>2 DEF AppendPiece, WritePiece
  <2>3. CASE DiesInLine
    BY <2>1, <2>3 DEF DiesInLine
  <2>4. CASE Publish
    BY <2>1, <2>4 DEF Publish
  <2>5. CASE MaybeCompact
    BY <2>1, <2>5 DEF MaybeCompact
  <2> QED BY <2>2, <2>3, <2>4, <2>5
<1>7. reader' \in ReaderType /\ reader'.bol = reader'.off
  BY <1>2, PipelineParts
<1> QED BY <1>3, <1>5, <1>6, <1>7, PartsMakeTypeInv

\* A reader that has noticed what became of the file; one whose cursor and size are
\* within it only notes its size.
LEMMA ResyncFacts ==
  ASSUME NEW r \in ReaderType, r.bol = r.off, NEW f \in Seq(Cell), NEW d, d.index \in Index
  PROVE  /\ Resync(r, f, d) \in ReaderType
         /\ Resync(r, f, d).bol = Resync(r, f, d).off /\ Resync(r, f, d).next = r.next
         /\ r.off <= Len(f) /\ r.size <= Len(f) =>
               Resync(r, f, d).off = r.off /\ Resync(r, f, d).index = r.index
         /\ Resync(r, f, d).size = Len(f) /\ Resync(r, f, d).off <= Len(f)
<1>1. r \in RawReader /\ Len(f) \in Nat /\ r.off \in Nat /\ r.next \in Nat \ {0}
      /\ r.size \in Nat \cup {None}
  BY ReaderIsRaw, ReaderParts, LineFacts
<1> DEFINE s == CASE r.off > Len(f) -> ResetFromSeq([r EXCEPT !.index = d.index], f, r.next)
                  [] r.off <= Len(f) /\ Len(f) < r.size -> Align(ClearWait(r), f)
                  [] OTHER -> r
<1>2. Resync(r, f, d) = [s EXCEPT !.size = Len(f)]
  BY DEF Resync
<1>3. /\ s \in ReaderType /\ s.bol = s.off /\ s.next = r.next /\ s.off <= Len(f)
      /\ r.off <= Len(f) /\ r.size <= Len(f) => s.off = r.off /\ s.index = r.index
  <2>1. CASE r.off > Len(f)
    <3>1. PICK m : m = [r EXCEPT !.index = d.index]
      OBVIOUS
    <3>2. m \in RawReader /\ m.off = r.off
      BY <1>1, <3>1 DEF RawReader
    <3>3. ~KeepsCursor(m, f, r.next)
      BY <1>1, <2>1, <3>2 DEF KeepsCursor
    <3>4. Landed(ResetFromSeq(m, f, r.next), f, m.index, r.next)
      BY <1>1, <3>2, <3>3, ResetMoves
    <3>5. s = ResetFromSeq(m, f, r.next)
      <4>1. ~(r.off <= Len(f))
        BY <1>1, <2>1
      <4> QED BY <2>1, <3>1, <4>1
    <3> HIDE DEF s
    <3> QED BY <1>1, <2>1, <3>4, <3>5 DEF Landed, Landing
  <2>2. CASE ~(r.off > Len(f)) /\ Len(f) < r.size
    <3>1. s = Align(ClearWait(r), f)
      BY <1>1, <2>2
    <3> HIDE DEF s
    <3>2. PICK c : c = ClearWait(r)
      OBVIOUS
    <3>3. c \in RawReader /\ c.off = r.off /\ c.bol = r.bol /\ c.next = r.next
      BY <1>1, <3>2, ClearWaitFacts
    <3>4. Align(c, f) = c
      BY <3>3, AlignStays
    <3>5. c \in ReaderType
      <4>1. c.bol \in Nat
        BY <1>1, <3>3
      <4> QED BY <3>3, <4>1, ReaderIsRaw
    <3>6. ~(r.size <= Len(f))
      <4>1. r.size \in Int
        BY <1>1 DEF None
      <4> QED BY <1>1, <2>2, <4>1
    <3>7. r.off <= Len(f)
      BY <1>1, <2>2
    <3> QED BY <3>1, <3>2, <3>3, <3>4, <3>5, <3>6, <3>7
  <2>3. CASE ~(r.off > Len(f)) /\ ~(Len(f) < r.size)
    <3>1. s = r
      BY <2>3
    <3> HIDE DEF s
    <3>2. r.off <= Len(f)
      BY <1>1, <2>3
    <3> QED BY <3>1, <3>2
  <2> QED BY <2>1, <2>2, <2>3
<1> HIDE DEF s
<1>4. [s EXCEPT !.size = Len(f)] \in ReaderType
  BY <1>1, <1>3 DEF ReaderType
<1>5. /\ [s EXCEPT !.size = Len(f)].bol = s.bol /\ [s EXCEPT !.size = Len(f)].off = s.off
      /\ [s EXCEPT !.size = Len(f)].next = s.next /\ [s EXCEPT !.size = Len(f)].index = s.index
      /\ [s EXCEPT !.size = Len(f)].size = Len(f)
  BY <1>3 DEF ReaderType
<1> QED BY <1>2, <1>3, <1>4, <1>5

\* The reader when a poll has opened the file.
LEMMA PreparedFacts ==
  ASSUME TypeInv
  PROVE  /\ Prepared \in ReaderType /\ Prepared.bol = Prepared.off /\ Prepared.next = nextSeq
         /\ Prepared.size = Len(file) /\ Prepared.off <= Len(file)
         /\ reader.off <= Len(file) /\ reader.size <= Len(file) =>
               /\ Prepared.index = reader.index
               /\ Rebinds => Landed(Prepared, file, reader.index, nextSeq)
               /\ ~Rebinds => Prepared.off = reader.off
<1>1. /\ file \in Seq(Cell) /\ Len(file) \in Nat
      /\ reader \in ReaderType /\ reader \in RawReader /\ reader.bol = reader.off
      /\ reader.off \in Nat /\ reader.next \in Nat \ {0} /\ published.index \in Index
      /\ nextSeq \in Nat \ {0}
  BY PipelineParts, StreamParts
<1>2. PICK r : r = IF Rebinds THEN ResetFromSeq(reader, file, nextSeq) ELSE reader
  OBVIOUS
<1>3. /\ r \in ReaderType /\ r.bol = r.off /\ r.next = nextSeq /\ r.index = reader.index
      /\ r.size = reader.size
      /\ Rebinds => Landed(r, file, reader.index, nextSeq)
      /\ ~Rebinds => r.off = reader.off
  <2>1. CASE Rebinds
    <3>1. ~KeepsCursor(reader, file, nextSeq)
      BY <2>1 DEF Rebinds, KeepsCursor
    <3>2. /\ Landed(ResetFromSeq(reader, file, nextSeq), file, reader.index, nextSeq)
          /\ ResetFromSeq(reader, file, nextSeq).size = reader.size
      BY <1>1, <3>1, ResetMoves
    <3> QED BY <1>2, <2>1, <3>2 DEF Landed
  <2>2. CASE ~Rebinds
    BY <1>1, <1>2, <2>2 DEF Rebinds
  <2> QED BY <2>1, <2>2
<1>4. PICK s : s = Resync(r, file, published)
  OBVIOUS
<1>5. /\ s \in ReaderType /\ s.bol = s.off /\ s.next = nextSeq
      /\ s.size = Len(file) /\ s.off <= Len(file)
      /\ r.off <= Len(file) /\ r.size <= Len(file) => s.off = r.off /\ s.index = r.index
  BY <1>1, <1>3, <1>4, ResyncFacts
<1>6. Prepared = s
  <2>1. Prepared = Align(s, file)
    BY <1>2, <1>4 DEF Prepared
  <2>2. s \in RawReader
    BY <1>5, ReaderIsRaw
  <2> QED BY <1>1, <1>5, <2>1, <2>2, AlignStays
<1>7. ASSUME reader.off <= Len(file), reader.size <= Len(file)
      PROVE  /\ s.index = reader.index
             /\ Rebinds => Landed(s, file, reader.index, nextSeq)
             /\ ~Rebinds => s.off = reader.off
  <2>1. r.off <= Len(file) /\ r.size <= Len(file)
    BY <1>3, <1>7 DEF Landed, Landing
  <2> QED BY <1>3, <1>5, <2>1 DEF Landed
<1> QED BY <1>5, <1>6, <1>7

\* What a poll returns are lines of the records it found, in their order.
LEMMA PolledFacts ==
  ASSUME TypeInv
  PROVE  /\ Polled \in Seq(Lines!Line)
         /\ \A i \in 1 .. Len(Polled) : Polled[i].seq \in Returned(Prepared, file)
         /\ \A i, j \in 1 .. Len(Polled) : i < j => Polled[i].seq < Polled[j].seq
         /\ \A n \in Returned(Prepared, file) : \E i \in 1 .. Len(Polled) : Polled[i].seq = n
<1>1. Returned(Prepared, file) \subseteq 1 .. Len(Width) /\ Len(Width) \in Nat
  BY PipelineParts, PreparedFacts, ReturnedFacts, RecordSizes
<1> DEFINE S == Returned(Prepared, file)
           l == InOrder(S)
<1>2. /\ l \in Seq(S) /\ DOMAIN l = 1 .. Len(l)
      /\ \A i, j \in 1 .. Len(l) : i < j => l[i] < l[j]
      /\ \A n \in S : \E i \in 1 .. Len(l) : l[i] = n
  <2> HIDE DEF S
  <2>1. S \subseteq 1 .. Len(Width)
    BY <1>1 DEF S
  <2> QED BY <1>1, <2>1, InOrderFacts
<1>3. Polled = [i \in 1 .. Len(l) |-> LineOf(l[i])]
  BY <1>2 DEF Polled
<1> HIDE DEF l
<1>4. \A i \in 1 .. Len(l) : l[i] \in S /\ l[i] \in Nat \ {0}
  BY <1>1, <1>2
<1>5. Len(l) \in Nat /\ \A i \in 1 .. Len(l) : LineOf(l[i]) \in Lines!Line /\ LineOf(l[i]).seq = l[i]
  BY <1>2, <1>4, RecordsAreLines
<1>6. /\ Polled \in Seq(Lines!Line) /\ Len(Polled) = Len(l)
      /\ \A i \in 1 .. Len(l) : Polled[i].seq = l[i]
  BY <1>3, <1>5
<1> HIDE DEF S
<1>7. \A i \in 1 .. Len(Polled) : i \in 1 .. Len(l) /\ Polled[i].seq = l[i] /\ l[i] \in S
  BY <1>4, <1>6
<1>8. \A i, j \in 1 .. Len(Polled) : i < j => Polled[i].seq < Polled[j].seq
  BY <1>2, <1>7
<1>9. \A n \in S : \E i \in 1 .. Len(Polled) : Polled[i].seq = n
  BY <1>2, <1>6
<1> QED BY <1>6, <1>7, <1>8, <1>9 DEF S

\* The steps of the engine change neither the file nor what was merged, and leave a
\* reader of the right type.
LEMMA EngineStepTypes ==
  ASSUME TypeInv, UNCHANGED <<fileVars, merged>>, Lines!BufferInv',
         reader' \in ReaderType, reader'.bol = reader'.off,
         givenUp' \subseteq givenUp \cup GivenUp(reader')
  PROVE  TypeInv'
<1>1. FileInv' /\ IndexesFit'
  BY PipelineParts, FileUntouched
<1>2. givenUp' \subseteq Records
  <2>1. PICK r : r = reader'
    OBVIOUS
  <2>2. GivenUp(r) \subseteq Records
    BY GivenUpIsARecord
  <2> QED BY <2>1, <2>2, PipelineParts
<1>3. merged' \subseteq Records
  BY PipelineParts
<1> QED BY <1>1, <1>2, <1>3, PartsMakeTypeInv

\* A step of the stream alone.
LEMMA StreamOnlyTypes ==
  ASSUME TypeInv, UNCHANGED <<fileVars, reader, givenUp, merged>>, Lines!BufferInv'
  PROVE  TypeInv'
<1>1. reader' \in ReaderType /\ reader'.bol = reader'.off
  BY PipelineParts
<1> QED BY <1>1, EngineStepTypes

\* The end of the process.
LEMMA CrashTypes ==
  ASSUME TypeInv, Crash
  PROVE  TypeInv'
<1>1. Lines!Crash
  BY SameActions DEF Crash, StreamOnly
<1>2. Lines!BufferInv'
  BY <1>1, PipelineParts, StreamAssumptionHolds, Lines!BufferLives
<1> QED BY <1>2, StreamOnlyTypes DEF Crash, StreamOnly

\* The steps of the stream alone.
LEMMA StreamStepTypes ==
  ASSUME TypeInv, StreamStep
  PROVE  TypeInv'
<1>1. UNCHANGED <<fileVars, reader, givenUp, merged>>
  BY DEF StreamStep, StreamOnly
<1>2. Lines!BufferInv
  BY PipelineParts
<1>3. CASE Stream!StartStreaming \/ Stream!CallbacksReturn \/ Stream!Stop \/ Stream!Cancelled
           \/ Stream!ObserverFails \/ Stream!LoopEnds
  <2>1. \/ Lines!StartStreaming \/ Lines!Stop \/ Lines!Cancelled
        \/ Lines!CallbacksReturn \/ Lines!PollFails \/ Lines!ObserverFails \/ Lines!LoopEnds
    BY <1>3, SameActions
  <2>2. Lines!BufferInv'
    BY <1>2, <2>1, StreamAssumptionHolds, Lines!BufferControls
  <2> QED BY <1>1, <2>2, StreamOnlyTypes
<1>4. CASE Stream!ObserverReturns
  <2>1. Lines!ObserverReturns
    BY <1>4, SameBatches
  <2>2. batch \in Seq(Lines!Line)
    BY StreamParts
  <2>3. Lines!BufferInv'
    BY <1>2, <2>1, <2>2, StreamAssumptionHolds, Lines!BufferBatch DEF Lines!ObserverReturns
  <2> QED BY <1>1, <2>3, StreamOnlyTypes
<1>5. CASE Stream!Consume
  <2>1. Lines!Consume
    BY <1>5, SameActions
  <2>2. Lines!BufferInv'
    BY <1>2, <2>1, StreamAssumptionHolds, Lines!BufferConsumes
  <2> QED BY <1>1, <2>2, StreamOnlyTypes
<1> QED BY <1>3, <1>4, <1>5 DEF StreamStep, StreamOnly

\* A new process with a new reader.
LEMMA OpenTypes ==
  ASSUME TypeInv, Open
  PROVE  TypeInv'
<1>1. Lines!BufferInv'
  <2>1. Lines!Open
    BY SameActions DEF Open
  <2> QED BY <2>1, PipelineParts, StreamAssumptionHolds, Lines!BufferLives
<1>2. reader' \in ReaderType /\ reader'.bol = reader'.off
  <2>1. FreshReader(published) \in ReaderType /\ FreshReader(published).bol = FreshReader(published).off
    BY PipelineParts, IdleType DEF FreshReader, ReaderType, WaitType, None
  <2> QED BY <2>1 DEF Open
<1>3. givenUp' \subseteq givenUp \cup GivenUp(reader')
  BY DEF Open, Repositioned
<1> QED BY <1>1, <1>2, <1>3, EngineStepTypes DEF Open

\* A poll that returns hands lists of lines to the stream.
LEMMA PollTypes ==
  ASSUME TypeInv, Poll
  PROVE  TypeInv'
<1>1. PICK r : r = ReadOn(Prepared, file)
  OBVIOUS
<1>2. r \in ReaderType /\ r.bol = r.off
  BY <1>1, PipelineParts, PreparedFacts, ReadOnFacts
<1>3. reader' = r /\ givenUp' \subseteq givenUp \cup GivenUp(r)
  BY <1>1 DEF Poll, AfterPoll, Repositioned
<1>4. Lines!BufferInv'
  <2>1. CASE Polled = << >>
    BY <2>1, PipelineParts, StreamUntouched DEF Poll, fileVars
  <2>2. CASE Polled # << >>
    <3>1. Lines!PollReturns(Polled)
      BY <2>2, SameBatches DEF Poll
    <3> QED BY <3>1, PipelineParts, PolledFacts, StreamAssumptionHolds, Lines!BufferBatch
            DEF Lines!PollReturns
  <2> QED BY <2>1, <2>2
<1> QED BY <1>2, <1>3, <1>4, EngineStepTypes DEF Poll

\* A file up to a line start.
LEMMA FirstLines ==
  ASSUME NEW f \in Seq(Cell), NEW o \in Nat, o <= Len(f)
  PROVE  /\ SubSeq(f, 1, o) \in Seq(Cell) /\ Len(SubSeq(f, 1, o)) = o
         /\ \A k \in 1 .. o : SubSeq(f, 1, o)[k] = f[k]
  OBVIOUS

\* One that fails leaves a reader that has read on to some line.
LEMMA PollFailsTypes ==
  ASSUME TypeInv, PollFails
  PROVE  TypeInv'
<1>1. reader' \in ReaderType /\ reader'.bol = reader'.off
  <2>1. PICK o \in LineStarts(file, Prepared.off) : AfterPoll(ReadOn(Prepared, SubSeq(file, 1, o)))
    BY DEF PollFails
  <2>2. /\ Prepared \in ReaderType /\ Prepared.bol = Prepared.off /\ file \in Seq(Cell)
        /\ Prepared.off \in Nat /\ Prepared.off <= Len(file)
    BY PreparedFacts, PipelineParts, ReaderIsRaw, ReaderParts
  <2>3. o \in Nat /\ o <= Len(file)
    BY <2>2, LineFacts
  <2>4. PICK g \in Seq(Cell) : g = SubSeq(file, 1, o)
    BY <2>2, <2>3, FirstLines
  <2>5. ReadOn(Prepared, g) \in ReaderType /\ ReadOn(Prepared, g).bol = ReadOn(Prepared, g).off
    BY <2>2, ReadOnFacts
  <2> QED BY <2>1, <2>4, <2>5 DEF AfterPoll
<1>2. givenUp' \subseteq givenUp \cup GivenUp(reader')
  BY DEF PollFails, AfterPoll, Repositioned
<1>3. Lines!BufferInv'
  <2>1. Lines!PollFails
    BY SameActions DEF PollFails
  <2> QED BY <2>1, PipelineParts, StreamAssumptionHolds, Lines!BufferControls
<1> QED BY <1>1, <1>2, <1>3, EngineStepTypes DEF PollFails

\* The clock of the reader.
LEMMA WaitEndsTypes ==
  ASSUME TypeInv, WaitEnds
  PROVE  TypeInv'
<1>1. reader' = [reader EXCEPT !.wait.ripe = TRUE]
  BY DEF WaitEnds
<1>2. reader' \in ReaderType /\ reader'.bol = reader'.off
  <2>1. reader \in ReaderType /\ reader.bol = reader.off
    BY PipelineParts
  <2> QED BY <1>1, <2>1 DEF ReaderType
<1>3. Lines!BufferInv'
  BY PipelineParts, StreamUntouched DEF WaitEnds, fileVars
<1> QED BY <1>2, <1>3, EngineStepTypes DEF WaitEnds

\* set_cursor moves the stream and its reader.
LEMMA SetCursorTypes ==
  ASSUME TypeInv, NEW c \in Cursors, SetCursor(c)
  PROVE  TypeInv'
<1>1. c \in Nat /\ c + 1 \in Nat \ {0}
  BY PipelineAssumption
<1>2. reader' \in ReaderType /\ reader'.bol = reader'.off
  <2>1. CASE KeepsCursor(reader, file, c + 1)
    BY <1>1, <2>1, PipelineParts, ResetKeeps DEF SetCursor
  <2>2. CASE ~KeepsCursor(reader, file, c + 1)
    <3>1. Landed(ResetFromSeq(reader, file, c + 1), file, reader.index, c + 1)
      BY <1>1, <2>2, PipelineParts, ResetMoves
    <3> QED BY <3>1 DEF SetCursor, Landed
  <2> QED BY <2>1, <2>2
<1>3. givenUp' \subseteq givenUp \cup GivenUp(reader')
  BY DEF SetCursor, Repositioned
<1>4. Lines!BufferInv'
  <2>1. Lines!SetCursor(c)
    BY SameActions DEF SetCursor
  <2> QED BY <2>1, PipelineParts, StreamAssumptionHolds, Lines!BufferSeeks
<1> QED BY <1>2, <1>3, <1>4, EngineStepTypes DEF SetCursor

\* A forced resync moves the reader to the seq of the stream.
LEMMA ForceTailResyncTypes ==
  ASSUME TypeInv, ForceTailResyncIfUnread
  PROVE  TypeInv'
<1>1. PICK m : m = [reader EXCEPT !.index = published.index]
  OBVIOUS
<1>2. m \in RawReader
  BY <1>1, PipelineParts DEF RawReader
<1>3. Landed(ForceRebind(m, file, nextSeq), file, m.index, nextSeq)
  BY <1>2, PipelineParts, StreamParts, RebindLands
<1>4. reader' \in ReaderType /\ reader'.bol = reader'.off
  BY <1>1, <1>3 DEF ForceTailResyncIfUnread, Landed
<1>5. givenUp' \subseteq givenUp \cup GivenUp(reader')
  BY DEF ForceTailResyncIfUnread, Repositioned
<1>6. Lines!BufferInv'
  <2>1. Lines!BufferInv
    BY PipelineParts
  <2>2. /\ UNCHANGED <<disk, cursor, nextSeq, symbols, queue, unfinished, leaked, pending, invalidated,
                       loop, batch, errors, stopped, held, up, base, handled, done, lives, faults>>
        /\ controls' = controls + 1 /\ tip' = tip
    BY DEF ForceTailResyncIfUnread, Stream!Control, fileVars
  <2>3. Lines!Lists'
    BY <2>1, <2>2 DEF Lines!BufferInv, Lines!Lists
  <2>4. Lines!Numbers'
    BY <2>1, <2>2 DEF Lines!BufferInv, Lines!Numbers
  <2>5. Lines!Flags'
    BY <2>1, <2>2 DEF Lines!BufferInv, Lines!Flags
  <2>6. Lines!Slots'
    BY <2>1, <2>2 DEF Lines!BufferInv, Lines!Slots, Lines!JoinCountExact, Lines!MarkNeverRaises
  <2> QED BY <2>3, <2>4, <2>5, <2>6 DEF Lines!BufferInv
<1> QED BY <1>4, <1>5, <1>6, EngineStepTypes DEF ForceTailResyncIfUnread

\* The first invariant holds at the start.
LEMMA TypesStart == Init => TypeInv
<1> SUFFICES ASSUME Init PROVE TypeInv
  OBVIOUS
<1>1. FileInv /\ IndexesFit
  BY FileInitSafe DEF Init
<1>2. Lines!BufferInv
  BY SameActions, StreamAssumptionHolds, Lines!BufferStarts DEF Init
<1>3. reader \in ReaderType /\ reader.bol = reader.off
  <2>1. published.index \in Index
    BY <1>1, FileParts DEF FileInv
  <2>2. FreshReader(published) \in ReaderType /\ FreshReader(published).bol = FreshReader(published).off
    BY <2>1, IdleType DEF FreshReader, ReaderType, WaitType, None
  <2> QED BY <2>2 DEF Init
<1>4. TypeOK
  BY <1>1, <1>2, <1>3, BufferIs DEF Init, TypeOK, FileInv
<1> QED BY <1>1, <1>2, <1>4, BufferIs DEF TypeInv, FileInv

\* And holds on through every step.
LEMMA TypesKeep == TypeInv /\ [Next]_vars => TypeInv'
<1> SUFFICES ASSUME TypeInv, [Next]_vars PROVE TypeInv'
  OBVIOUS
<1>1. CASE UNCHANGED vars
  BY <1>1, PipelineParts, StreamUntouched, StreamOnlyTypes DEF vars, fileVars
<1>2. CASE AppendPiece \/ DiesInLine \/ Publish \/ MaybeCompact
  BY <1>2, FileSteps
<1>3. CASE Crash
  BY <1>3, CrashTypes
<1>4. CASE Open
  BY <1>4, OpenTypes
<1>5. CASE Poll
  BY <1>5, PollTypes
<1>6. CASE PollFails
  BY <1>6, PollFailsTypes
<1>7. CASE WaitEnds
  BY <1>7, WaitEndsTypes
<1>8. CASE \E c \in Cursors : SetCursor(c)
  BY <1>8, SetCursorTypes
<1>9. CASE ForceTailResyncIfUnread
  BY <1>9, ForceTailResyncTypes
<1>10. CASE StreamStep
  BY <1>10, StreamStepTypes
<1> QED BY <1>1, <1>2, <1>3, <1>4, <1>5, <1>6, <1>7, <1>8, <1>9, <1>10 DEF Next

\* The first inductive invariant of the pipeline.
THEOREM TypeInvariant == Spec => []TypeInv
  BY TypesStart, TypesKeep, PTL DEF Spec

\* Type correctness: whatever a poll makes of the bytes of the file, the stream
\* gets lists of lines, and the reader is left between two lines.
THEOREM TypeCorrect == Spec => []TypeOK
<1>1. TypeInv => TypeOK
  BY DEF TypeInv
<1> QED BY <1>1, TypeInvariant, PTL

-----------------------------------------------------------------------------
(* What the reader passes *)

\* A seek leaves nothing from its seq on behind, if its index is of the file as it is.
LEMMA LandedPasses ==
  ASSUME FileInv, NEW x \in Index, SoundIndex(x), x.era = rewrites,
         NEW s \in Nat \ {0}, NEW q, Landed(q, file, x, s)
  PROVE  q.off <= Len(file) /\ PassedOnly(q, GivenUp(q))
<1>1. /\ file \in Seq(Cell) /\ Len(file) \in Nat /\ tip \in Nat /\ writing \in Nat
  BY FileParts DEF FileInv
<1>2. q.off \in Nat /\ Landing(file, q.off) /\ q.next = s
  BY ReaderIsRaw, ReaderParts DEF Landed
<1>3. \A a \in 0 .. Len(file) - 1 :
         RecordAt(file, a) /\ Bol(file, a) /\ a < q.off => SeqAt(file, a) < s /\ SeqAt(file, a) \in Nat
  <2>1. \A a \in 0 .. Len(file) - 1 : RecordAt(file, a) /\ Bol(file, a) /\ a < q.off => SeqAt(file, a) < s
    BY DEF Landed, SoundIndex
  <2>2. \A a \in 0 .. Len(file) - 1 : RecordAt(file, a) => SeqAt(file, a) \in Nat
    BY <1>1, RecordParts, RecordSizes
  <2> QED BY <2>1, <2>2
<1>4. writing > 0 /\ Len(file) - writing < q.off => tip + 1 \in GivenUp(q)
  BY <1>1, <1>2, NotInTheLine DEF GivenUp
<1> QED BY <1>2, <1>3, <1>4 DEF PassedOnly, Landing

\* A seek that keeps the cursor passes at most a fragment without an end.
LEMMA KeptPasses ==
  ASSUME FileInv, NEW r \in ReaderType, NEW q \in ReaderType, NEW X, PassedOnly(r, X), r.off <= Len(file),
         q.next = r.next, q.off = IF Unended(file, r.off) THEN Len(file) ELSE r.off
  PROVE  q.off <= Len(file) /\ PassedOnly(q, X \cup GivenUp(q))
<1>1. /\ file \in Seq(Cell) /\ Len(file) \in Nat /\ tip \in Nat /\ writing \in Nat
      /\ r.off \in Nat /\ q.off \in Nat
  BY FileParts, ReaderIsRaw, ReaderParts DEF FileInv
<1>2. ASSUME NEW a \in 0 .. Len(file) - 1, RecordAt(file, a), Bol(file, a), a < q.off,
             SeqAt(file, a) >= q.next
      PROVE  SeqAt(file, a) \in X
  <2>1. CASE a < r.off
    BY <1>2, <2>1 DEF PassedOnly
  <2>2. CASE ~(a < r.off)
    <3>1. a \in Nat /\ a >= r.off
      BY <1>1, <2>2
    <3>2. ~Unended(file, r.off)
      BY <1>1, <1>2, <3>1, RecordIsEnded
    <3> QED BY <1>2, <2>2, <3>2
  <2> QED BY <2>1, <2>2
<1>3. writing > 0 /\ Len(file) - writing < q.off => tip + 1 \in X \cup GivenUp(q)
  BY DEF PassedOnly, GivenUp
<1> QED BY <1>1, <1>2, <1>3 DEF PassedOnly

\* Reading on passes only what it returns, and the record being written.
LEMMA ReadOnPasses ==
  ASSUME FileInv, NEW r \in ReaderType, r.bol = r.off, r.off <= Len(file), NEW X, PassedOnly(r, X)
  PROVE  ReadOn(r, file).off <= Len(file) /\ PassedOnly(ReadOn(r, file), X \cup GivenUp(ReadOn(r, file)))
<1>1. /\ file \in Seq(Cell) /\ Len(file) \in Nat /\ tip \in Nat /\ writing \in Nat
      /\ LineBeingWritten /\ RecordsInOrder
      /\ r.off \in Nat /\ r.next \in Nat \ {0}
  BY FileParts, ReaderIsRaw, ReaderParts DEF FileInv
<1>2. PICK q : q = ReadOn(r, file)
  OBVIOUS
<1>3. /\ q \in ReaderType /\ q.off \in LineStarts(file, r.off) \cup {Len(file)}
      /\ q.off >= r.off /\ q.off <= Len(file) /\ q.next >= r.next
      /\ \A s \in Returned(r, file) : s < q.next
  BY <1>1, <1>2, ReadOnFacts
<1>4. q.off \in Nat /\ q.next \in Nat
  BY <1>3, ReaderIsRaw, ReaderParts
<1>5. ASSUME NEW a \in 0 .. Len(file) - 1, RecordAt(file, a), Bol(file, a), a < q.off,
             SeqAt(file, a) >= q.next
      PROVE  SeqAt(file, a) \in X
  <2>1. SeqAt(file, a) \in Nat /\ a \in Nat /\ a <= Len(file)
    BY <1>1, <1>5, RecordParts, RecordSizes
  <2>2. SeqAt(file, a) >= r.next
    BY <1>1, <1>3, <1>4, <1>5, <2>1
  <2>3. CASE a < r.off
    BY <1>5, <2>2, <2>3 DEF PassedOnly
  <2>4. CASE ~(a < r.off)
    <3>1. a \in LineStarts(file, r.off)
      BY <1>1, <1>5, <2>1, <2>4, BolIsReached
    <3>2. \A c \in 0 .. Len(file) - 1 : RecordAt(file, c) /\ c < a => SeqAt(file, c) < SeqAt(file, a)
      BY <1>1, <1>5 DEF RecordsInOrder
    <3>3. SeqAt(file, a) \in Returned(r, file)
      BY <1>1, <1>5, <2>2, <3>1, <3>2, ReturnedFacts
    <3> QED BY <1>3, <1>4, <1>5, <2>1, <3>3
  <2> QED BY <2>3, <2>4
<1>6. ASSUME writing > 0, Len(file) - writing < q.off
      PROVE  tip + 1 \in X \cup GivenUp(q)
  <2>1. CASE q.off = Len(file)
    BY <1>6, <2>1 DEF GivenUp
  <2>2. CASE q.off = r.off
    BY <1>6, <2>2 DEF PassedOnly
  <2>3. CASE q.off \in Ends(file, r.off)
    <3>1. IsEnd(file[q.off])
      BY <1>1, <2>3, LineFacts
    <3> QED BY <1>1, <1>3, <1>4, <1>6, <3>1, NoEndYet DEF FileInv
  <2> QED BY <1>3, <2>1, <2>2, <2>3 DEF LineStarts
<1> QED BY <1>2, <1>3, <1>5, <1>6 DEF PassedOnly

\* So does a reading that breaks off at a line start.
LEMMA BrokenReadPasses ==
  ASSUME FileInv, NEW r \in ReaderType, r.bol = r.off, r.off <= Len(file), NEW X, PassedOnly(r, X),
         NEW o \in LineStarts(file, r.off), NEW q, q = ReadOn(r, SubSeq(file, 1, o))
  PROVE  /\ q \in ReaderType /\ q.bol = q.off /\ q.index = r.index /\ q.size = r.size
         /\ q.off >= r.off /\ q.off <= Len(file)
         /\ PassedOnly(q, X)
<1>1. /\ file \in Seq(Cell) /\ Len(file) \in Nat /\ tip \in Nat /\ writing \in Nat
      /\ FileTypeOK /\ LineBeingWritten /\ RecordsInOrder
      /\ r.off \in Nat /\ r.next \in Nat \ {0}
  BY FileParts, ReaderIsRaw, ReaderParts DEF FileInv
<1>2. /\ o \in Nat /\ o >= r.off /\ o <= Len(file)
      /\ o = r.off \/ (o \in 1 .. Len(file) /\ IsEnd(file[o]))
  BY <1>1, LineFacts DEF LineStarts
<1>3. PICK g : g = SubSeq(file, 1, o)
  OBVIOUS
<1>4. g \in Seq(Cell) /\ Len(g) = o /\ \A k \in 1 .. o : g[k] = file[k]
  BY <1>1, <1>2, <1>3, FirstLines
<1>5. /\ q \in ReaderType /\ q.bol = q.off /\ q.index = r.index /\ q.size = r.size
      /\ q.off >= r.off /\ q.off <= o /\ q.next >= r.next
      /\ \A s \in Returned(r, g) : s < q.next
  BY <1>2, <1>3, <1>4, ReadOnFacts
<1>6. q.off \in Nat /\ q.next \in Nat
  BY <1>5, ReaderIsRaw, ReaderParts
<1>7. ASSUME NEW a \in Nat, RecordAt(file, a), a >= r.off, a < o
      PROVE  a + Width[SeqAt(file, a)] <= o
  <2>1. PICK w : w = Width[SeqAt(file, a)]
    OBVIOUS
  <2>2. /\ w \in Nat /\ w > 1
        /\ \A k \in 1 .. w : file[a + k].seq = SeqAt(file, a) /\ file[a + k].piece = k
    BY <1>1, <1>7, <2>1, RecordParts
  <2>3. IsEnd(file[o])
    BY <1>1, <1>2, <1>7
  <2>4. CASE a + w <= o
    BY <2>1, <2>4
  <2>5. CASE ~(a + w <= o)
    <3>1. PICK j : j = o - a
      OBVIOUS
    <3>2. j \in 1 .. w /\ o = a + j /\ j < w
      BY <1>2, <1>7, <2>2, <2>5, <3>1
    <3>3. file[o].seq = SeqAt(file, a) /\ file[o].piece = j
      BY <2>2, <3>2
    <3>4. j = w
      BY <2>1, <2>3, <3>3 DEF IsEnd
    <3> QED BY <2>2, <3>2, <3>4
  <2> QED BY <2>4, <2>5
<1>8. ASSUME NEW a \in 0 .. Len(file) - 1, RecordAt(file, a), Bol(file, a), a < q.off,
             SeqAt(file, a) >= q.next
      PROVE  SeqAt(file, a) \in X
  <2>1. SeqAt(file, a) \in Nat /\ a \in Nat /\ a < o
    BY <1>1, <1>2, <1>5, <1>6, <1>8, RecordParts, RecordSizes
  <2>2. SeqAt(file, a) >= r.next
    BY <1>1, <1>5, <1>6, <1>8, <2>1
  <2>3. CASE a < r.off
    BY <1>8, <2>2, <2>3 DEF PassedOnly
  <2>4. CASE ~(a < r.off)
    <3>1. a >= r.off /\ a <= Len(g)
      BY <1>1, <1>4, <2>1, <2>4
    <3>2. RecordAt(g, a) /\ SeqAt(g, a) = SeqAt(file, a)
      BY <1>1, <1>2, <1>4, <1>7, <1>8, <2>1, <3>1, SameRecord
    <3>3. Bol(g, a)
      <4>1. a = 0 \/ a \in 1 .. o
        BY <1>2, <2>1
      <4> QED BY <1>4, <1>8, <4>1 DEF Bol
    <3>4. a \in LineStarts(g, r.off)
      BY <1>1, <1>4, <2>1, <3>1, <3>3, BolIsReached
    <3>5. ASSUME NEW c \in 0 .. Len(g) - 1, RecordAt(g, c), c < a
          PROVE  SeqAt(g, c) < SeqAt(g, a)
      <4>1. c \in Nat /\ c \in 0 .. Len(file) - 1
        BY <1>1, <1>2, <1>4
      <4>2. c + Width[SeqAt(g, c)] <= o
        BY <1>4, <3>5, <4>1, RecordParts
      <4>3. RecordAt(file, c) /\ SeqAt(file, c) = SeqAt(g, c)
        BY <1>1, <1>2, <1>4, <3>5, <4>1, <4>2, SameRecord
      <4> QED BY <1>1, <1>8, <3>2, <3>5, <4>1, <4>3 DEF RecordsInOrder
    <3>6. SeqAt(g, a) >= r.next
      BY <2>2, <3>2
    <3>7. SeqAt(g, a) \in Returned(r, g)
      BY <1>4, <3>2, <3>4, <3>5, <3>6, ReturnedFacts
    <3> QED BY <1>5, <1>6, <1>8, <2>1, <3>2, <3>7
  <2> QED BY <2>3, <2>4
<1>9. ASSUME writing > 0, Len(file) - writing < q.off
      PROVE  tip + 1 \in X
  <2>1. CASE o = r.off
    <3>1. q.off = r.off
      BY <1>1, <1>2, <1>5, <1>6, <2>1
    <3> QED BY <1>9, <3>1 DEF PassedOnly
  <2>2. CASE o # r.off
    <3>1. IsEnd(file[o]) /\ o > Len(file) - writing
      BY <1>1, <1>2, <1>5, <1>6, <1>9, <2>2
    <3> QED BY <1>1, <1>2, <3>1, NoEndYet
  <2> QED BY <2>1, <2>2
<1>10. q.off <= Len(file)
  BY <1>1, <1>2, <1>5, <1>6
<1> QED BY <1>5, <1>8, <1>9, <1>10 DEF PassedOnly

-----------------------------------------------------------------------------
(* What a rewrite keeps *)

\* A list has the places of R, in increasing order.
Enumerates(kept, R) ==
    /\ R \subseteq Nat /\ kept \in Seq(R)
    /\ \A i, j \in 1 .. Len(kept) : i < j => kept[i] < kept[j]
    /\ \A p \in R : \E i \in 1 .. Len(kept) : kept[i] = p

\* It has the next place after a place.
LEMMA NextPlace ==
  ASSUME NEW R, NEW kept, Enumerates(kept, R),
         NEW i \in 1 .. Len(kept), kept[i] + 1 \in R
  PROVE  i + 1 \in 1 .. Len(kept) /\ kept[i + 1] = kept[i] + 1
<1>1. Len(kept) \in Nat /\ \A k \in 1 .. Len(kept) : kept[k] \in R /\ kept[k] \in Nat
  <2>1. \A p \in R : p \in Nat
    BY DEF Enumerates
  <2> QED BY <2>1, ListParts DEF Enumerates
<1>2. PICK j \in 1 .. Len(kept) : kept[j] = kept[i] + 1
  BY DEF Enumerates
<1>3. kept[i] \in Nat /\ kept[j] \in Nat /\ i \in Nat /\ j \in Nat
  BY <1>1
<1>4. ~(j <= i)
  <2>1. j < i => kept[j] < kept[i]
    BY DEF Enumerates
  <2> QED BY <1>2, <1>3, <2>1
<1>5. i + 1 \in 1 .. Len(kept)
  BY <1>1, <1>4
<1>6. ~(i + 1 < j)
  <2> SUFFICES ASSUME i + 1 < j PROVE FALSE
    OBVIOUS
  <2>1. i < i + 1
    BY <1>3
  <2>2. kept[i] < kept[i + 1] /\ kept[i + 1] < kept[j] /\ kept[i + 1] \in Nat
    BY <1>1, <1>5, <2>1 DEF Enumerates
  <2> QED BY <1>2, <1>3, <2>2
<1>7. j = i + 1
  BY <1>3, <1>4, <1>6
<1> QED BY <1>2, <1>5, <1>7

\* w places after a.
RunIn(a, w, R) == \A k \in 1 .. w : a + k \in R

\* They stand after the place b of the list.
RunAt(kept, b, a, w) ==
    /\ b \in 0 .. Len(kept) - 1 /\ b + w <= Len(kept)
    /\ \A k \in 1 .. w : b + k \in 1 .. Len(kept) /\ kept[b + k] = a + k

\* It then has a run of places one after the other.
LEMMA RunOfPlaces ==
  ASSUME NEW R, NEW kept, Enumerates(kept, R),
         NEW a \in Nat, NEW w \in Nat \ {0}, RunIn(a, w, R)
  PROVE  \E b : RunAt(kept, b, a, w)
<1>1. Len(kept) \in Nat /\ \A k \in 1 .. Len(kept) : kept[k] \in R /\ kept[k] \in Nat
  <2>1. \A p \in R : p \in Nat
    BY DEF Enumerates
  <2> QED BY <2>1, ListParts DEF Enumerates
<1>2. PICK i \in 1 .. Len(kept) : kept[i] = a + 1
  <2>1. 1 \in 1 .. w
    OBVIOUS
  <2> QED BY <2>1 DEF Enumerates, RunIn
<1>3. PICK b : b = i - 1
  OBVIOUS
<1>4. b \in 0 .. Len(kept) - 1 /\ b \in Nat /\ b + 1 = i
  BY <1>1, <1>2, <1>3
<1> DEFINE S == {k \in Nat : k + 1 <= w => b + (k + 1) \in 1 .. Len(kept) /\ kept[b + (k + 1)] = a + (k + 1)}
<1>5. 0 \in S
  BY <1>2, <1>4
<1>6. ASSUME NEW k \in S PROVE k + 1 \in S
  <2> SUFFICES ASSUME (k + 1) + 1 <= w
               PROVE  /\ b + ((k + 1) + 1) \in 1 .. Len(kept)
                      /\ kept[b + ((k + 1) + 1)] = a + ((k + 1) + 1)
    OBVIOUS
  <2>1. k \in Nat /\ k + 1 <= w
    OBVIOUS
  <2>2. PICK j \in 1 .. Len(kept) : j = b + (k + 1) /\ kept[j] = a + (k + 1)
    BY <2>1
  <2>3. (k + 1) + 1 \in 1 .. w
    BY <2>1
  <2>4. kept[j] + 1 = a + ((k + 1) + 1) /\ j + 1 = b + ((k + 1) + 1)
    BY <1>4, <2>1, <2>2
  <2>5. kept[j] + 1 \in R
    BY <2>3, <2>4 DEF RunIn
  <2> HIDE DEF S
  <2>6. j + 1 \in 1 .. Len(kept) /\ kept[j + 1] = kept[j] + 1
    BY <2>2, <2>5, NextPlace
  <2> QED BY <2>4, <2>6
<1> HIDE DEF S
<1>7. S = Nat
  <2>1. S \subseteq Nat
    BY DEF S
  <2> QED BY <1>5, <1>6, <2>1, SetInduction
<1>8. ASSUME NEW k \in 1 .. w PROVE b + k \in 1 .. Len(kept) /\ kept[b + k] = a + k
  <2>1. PICK l \in Nat : l + 1 = k
    <3>1. k - 1 \in Nat /\ (k - 1) + 1 = k
      OBVIOUS
    <3> QED BY <3>1
  <2>2. l \in S /\ l + 1 <= w
    BY <1>7, <2>1
  <2> QED BY <2>1, <2>2 DEF S
<1>9. b + w <= Len(kept)
  <2>1. w \in 1 .. w
    OBVIOUS
  <2> QED BY <1>1, <1>8, <2>1
<1> QED BY <1>4, <1>8, <1>9 DEF RunAt

\* The places kept are those of whole records.
LEMMA RetainedBlocks ==
  ASSUME FileInv, NEW m
  PROVE  /\ Retained(m) \subseteq 1 .. Len(file)
         /\ \A p \in Retained(m) : \E a \in 0 .. Len(file) - 1 : \E k \in 1 .. Width[SeqAt(file, a)] :
               /\ RecordAt(file, a) /\ p = a + k
               /\ \A j \in 1 .. Width[SeqAt(file, a)] : a + j \in Retained(m)
         /\ \A a \in 0 .. Len(file) - 1 :
               RecordAt(file, a) /\ Bol(file, a) /\ SeqAt(file, a) >= m => a + 1 \in Retained(m)
<1>1. file \in Seq(Cell) /\ Len(file) \in Nat
  BY FileParts DEF FileInv
<1>2. ASSUME NEW a \in LineStarts(file, 0), RecordAt(file, a), SeqAt(file, a) >= m
      PROVE  /\ a \in 0 .. Len(file) - 1
             /\ \A j \in 1 .. Width[SeqAt(file, a)] : a + j \in Retained(m)
             /\ a + 1 \in Retained(m)
  <2>1. a \in Nat
    BY <1>1, LineFacts
  <2>2. PICK w : w = Width[SeqAt(file, a)]
    OBVIOUS
  <2>3. w \in Nat /\ w > 1 /\ a < Len(file)
    BY <1>1, <1>2, <2>1, <2>2, RecordParts
  <2>4. ((a + 1) .. (a + w)) \subseteq Retained(m)
    BY <1>2, <2>2, Zenon DEF Retained
  <2>5. \A j \in 1 .. w : a + j \in (a + 1) .. (a + w)
    BY <2>1, <2>3
  <2>6. 1 \in 1 .. w /\ a \in 0 .. Len(file) - 1
    BY <1>1, <2>1, <2>3
  <2> QED BY <2>2, <2>4, <2>5, <2>6
<1>3. ASSUME NEW p \in Retained(m)
      PROVE  \E a \in 0 .. Len(file) - 1 : \E k \in 1 .. Width[SeqAt(file, a)] :
               /\ RecordAt(file, a) /\ p = a + k
               /\ \A j \in 1 .. Width[SeqAt(file, a)] : a + j \in Retained(m)
  <2>1. PICK a \in LineStarts(file, 0) : /\ RecordAt(file, a) /\ SeqAt(file, a) >= m
                                         /\ p \in (a + 1) .. (a + Width[SeqAt(file, a)])
    BY <1>3, Zenon DEF Retained
  <2>2. a \in 0 .. Len(file) - 1 /\ \A j \in 1 .. Width[SeqAt(file, a)] : a + j \in Retained(m)
    BY <1>2, <2>1
  <2>3. Width[SeqAt(file, a)] \in Nat
    BY <1>1, <2>1, <2>2, RecordParts
  <2>4. PICK k : k = p - a
    OBVIOUS
  <2>5. k \in 1 .. Width[SeqAt(file, a)] /\ p = a + k
    BY <2>1, <2>2, <2>3, <2>4
  <2> QED BY <2>1, <2>2, <2>5
<1>4. ASSUME NEW a \in 0 .. Len(file) - 1, RecordAt(file, a), Bol(file, a), SeqAt(file, a) >= m
      PROVE  a + 1 \in Retained(m)
  <2>1. a \in Nat /\ a <= Len(file) /\ (a = 0 \/ a > 0)
    BY <1>1
  <2>2. a \in LineStarts(file, 0)
    BY <1>1, <1>4, <2>1, BolIsReached
  <2> QED BY <1>2, <1>4, <2>2
<1>5. Retained(m) \subseteq 1 .. Len(file)
  BY RetainedFacts
<1> QED BY <1>3, <1>4, <1>5

\* The new file, by the places of its cells in the old one.
LEMMA NewFileIs ==
  ASSUME FileInv, NEW m, Rewrite(m)
  PROVE  \E kept \in Seq(Retained(m)) :
            /\ Enumerates(kept, Retained(m))
            /\ Len(file') = Len(kept) /\ DOMAIN file' = 1 .. Len(kept)
            /\ \A i \in 1 .. Len(kept) : file'[i] = file[kept[i]]
<1>1. Len(file) \in Nat
  BY FileParts DEF FileInv
<1>2. PICK R : R = Retained(m)
  OBVIOUS
<1>3. R \subseteq 1 .. Len(file)
  BY <1>2, RetainedFacts
<1>4. PICK kept \in Seq(R) :
        kept = InOrder(R) /\ DOMAIN kept = 1 .. Len(kept) /\ Enumerates(kept, R)
  <2> DEFINE l == InOrder(R)
  <2>1. /\ l \in Seq(R) /\ DOMAIN l = 1 .. Len(l)
        /\ \A i, j \in 1 .. Len(l) : i < j => l[i] < l[j]
        /\ \A p \in R : \E i \in 1 .. Len(l) : l[i] = p
    BY <1>1, <1>3, InOrderFacts
  <2>2. l = InOrder(R)
    OBVIOUS
  <2>3. R \subseteq Nat
    BY <1>1, <1>3
  <2> HIDE DEF l
  <2> QED BY <2>1, <2>2, <2>3 DEF Enumerates
<1>5. file' = [i \in DOMAIN kept |-> file[kept[i]]]
  BY <1>2, <1>4 DEF Rewrite
<1>6. Len(kept) \in Nat
  BY <1>4, ListParts
<1>7. /\ Len(file') = Len(kept) /\ DOMAIN file' = 1 .. Len(kept)
      /\ \A i \in 1 .. Len(kept) : file'[i] = file[kept[i]]
  BY <1>4, <1>5, <1>6
<1> QED BY <1>2, <1>4, <1>7

\* A rewrite leaves whole records, each on a line of its own, of those there were,
\* and all that stand on a line of their own from the lowest retained seq on.
LEMMA RewriteKeepsRecords ==
  ASSUME FileInv, NEW m, Rewrite(m)
  PROVE  /\ InFile' \subseteq InFile
         /\ \A n \in InFile' : \E b \in 0 .. Len(file') - 1 :
               RecordAt(file', b) /\ Bol(file', b) /\ SeqAt(file', b) = n
         /\ \A a \in 0 .. Len(file) - 1 :
               RecordAt(file, a) /\ Bol(file, a) /\ SeqAt(file, a) >= m => SeqAt(file, a) \in InFile'
<1>1. file \in Seq(Cell) /\ Len(file) \in Nat /\ DOMAIN file = 1 .. Len(file)
  BY FileParts DEF FileInv
<1>2. PICK R : R = Retained(m)
  OBVIOUS
<1>3. R \subseteq 1 .. Len(file)
  BY <1>2, RetainedBlocks
<1>4. PICK kept \in Seq(R) :
            /\ Enumerates(kept, R)
            /\ Len(file') = Len(kept) /\ DOMAIN file' = 1 .. Len(kept)
            /\ \A i \in 1 .. Len(kept) : file'[i] = file[kept[i]]
  BY <1>2, NewFileIs
<1>5. PICK h : h = file'
  OBVIOUS
<1>6. Len(kept) \in Nat /\ \A i \in 1 .. Len(kept) : kept[i] \in R /\ kept[i] \in 1 .. Len(file)
  BY <1>3, <1>4, ListParts
<1>7. /\ \A n \in InFile' : \E i \in 1 .. Len(kept) : n = file[kept[i]].seq
      /\ \A i \in 1 .. Len(kept) : file[kept[i]].seq \in InFile'
      /\ \A p \in 1 .. Len(file) : file[p].seq \in InFile
  BY <1>1, <1>4 DEF InFile, Range
<1>8. InFile' \subseteq InFile
  BY <1>6, <1>7
<1>9. ASSUME NEW a \in 0 .. Len(file) - 1, RecordAt(file, a), \A j \in 1 .. Width[SeqAt(file, a)] : a + j \in R
      PROVE  \E b \in 0 .. Len(h) - 1 : RecordAt(h, b) /\ Bol(h, b) /\ SeqAt(h, b) = SeqAt(file, a)
  <2>1. PICK s, w : s = SeqAt(file, a) /\ w = Width[s]
    OBVIOUS
  <2>2. /\ w \in Nat \ {0} /\ a \in Nat
        /\ \A k \in 1 .. w : file[a + k] = [seq |-> s, piece |-> k]
    <3>1. a \in Nat
      BY <1>1
    <3>2. w \in Nat /\ w > 1
      BY <1>1, <1>9, <2>1, <3>1, RecordParts
    <3> QED BY <1>9, <2>1, <3>1, <3>2 DEF RecordAt, SeqAt
  <2>0. PICK b : RunAt(kept, b, a, w)
    <3>1. RunIn(a, w, R)
      BY <1>9, <2>1 DEF RunIn
    <3>2. Enumerates(kept, R) /\ a \in Nat /\ w \in Nat \ {0}
      BY <1>4, <2>2
    <3> QED BY <3>1, <3>2, RunOfPlaces
  <2>3. /\ b \in 0 .. Len(kept) - 1 /\ b + w <= Len(kept)
        /\ \A k \in 1 .. w : b + k \in 1 .. Len(kept) /\ kept[b + k] = a + k
    BY <2>0 DEF RunAt
  <2>4. \A k \in 1 .. w : h[b + k] = [seq |-> s, piece |-> k]
    BY <1>4, <1>5, <2>2, <2>3
  <2>5. SeqAt(h, b) = s
    <3>1. 1 \in 1 .. w
      BY <2>2
    <3>2. h[b + 1] = [seq |-> s, piece |-> 1]
      BY <2>4, <3>1
    <3> QED BY <3>2 DEF SeqAt
  <2>6. RecordAt(h, b)
    BY <1>4, <1>5, <1>6, <2>1, <2>3, <2>4, <2>5 DEF RecordAt, SeqAt
  <2>7. ASSUME b # 0 PROVE IsEnd(h[b])
    <3>1. b \in 1 .. Len(kept) /\ h[b] = file[kept[b]]
      BY <1>4, <1>5, <1>6, <2>3, <2>7
    <3>0. PICK c \in 0 .. Len(file) - 1 : \E l \in 1 .. Width[SeqAt(file, c)] :
             /\ RecordAt(file, c) /\ kept[b] = c + l
             /\ \A j \in 1 .. Width[SeqAt(file, c)] : c + j \in R
      <4>1. kept[b] \in R
        BY <1>6, <3>1
      <4> QED BY <1>2, <4>1, RetainedBlocks
    <3>2. PICK l \in 1 .. Width[SeqAt(file, c)] :
             /\ RecordAt(file, c) /\ kept[b] = c + l
             /\ \A j \in 1 .. Width[SeqAt(file, c)] : c + j \in R
      BY <3>0
    <3>3. PICK v : v = Width[SeqAt(file, c)]
      OBVIOUS
    <3>4. /\ v \in Nat /\ c \in Nat /\ IsEnd(file[c + v])
          /\ \A k \in 1 .. v : file[c + k].piece = k
      <4>1. c \in Nat
        BY <1>1
      <4> QED BY <1>1, <3>2, <3>3, <4>1, RecordParts
    <3>5. CASE l = v
      BY <3>1, <3>2, <3>4, <3>5
    <3>6. CASE l # v
      <4>1. l + 1 \in 1 .. v /\ l \in Nat
        BY <3>2, <3>3, <3>4, <3>6
      <4>2. c + (l + 1) = kept[b] + 1
        BY <3>2, <3>4, <4>1
      <4>3. kept[b] + 1 \in R
        BY <3>2, <3>3, <4>1, <4>2
      <4>4. kept[b + 1] = kept[b] + 1
        BY <1>4, <3>1, <4>3, NextPlace
      <4>5. kept[b + 1] = a + 1 /\ file[a + 1].piece = 1
        <5>1. 1 \in 1 .. w
          BY <2>2
        <5>2. file[a + 1] = [seq |-> s, piece |-> 1]
          BY <2>2, <5>1
        <5> QED BY <2>3, <5>1, <5>2
      <4>6. file[c + (l + 1)].piece = l + 1
        BY <3>4, <4>1
      <4> QED BY <4>1, <4>2, <4>4, <4>5, <4>6
    <3> QED BY <3>5, <3>6
  <2>8. b \in 0 .. Len(h) - 1
    BY <1>4, <1>5, <2>3
  <2> QED BY <2>1, <2>5, <2>6, <2>7, <2>8 DEF Bol
<1>10. ASSUME NEW n \in InFile'
       PROVE  \E b \in 0 .. Len(h) - 1 : RecordAt(h, b) /\ Bol(h, b) /\ SeqAt(h, b) = n
  <2>1. PICK i \in 1 .. Len(kept) : n = file[kept[i]].seq
    BY <1>7
  <2>2. PICK a \in 0 .. Len(file) - 1 : \E k \in 1 .. Width[SeqAt(file, a)] :
           /\ RecordAt(file, a) /\ kept[i] = a + k
           /\ \A j \in 1 .. Width[SeqAt(file, a)] : a + j \in R
    <3>1. kept[i] \in R
      BY <1>6
    <3> QED BY <1>2, <3>1, RetainedBlocks
  <2>3. n = SeqAt(file, a)
    <3>1. a \in Nat
      BY <1>1
    <3> QED BY <1>1, <2>1, <2>2, <3>1, RecordParts
  <2> QED BY <1>9, <2>2, <2>3
<1>11. ASSUME NEW a \in 0 .. Len(file) - 1, RecordAt(file, a), Bol(file, a), SeqAt(file, a) >= m
       PROVE  SeqAt(file, a) \in InFile'
  <2>1. a + 1 \in R
    BY <1>2, <1>11, RetainedBlocks
  <2>2. PICK i \in 1 .. Len(kept) : kept[i] = a + 1
    BY <1>4, <2>1 DEF Enumerates
  <2> QED BY <1>7, <2>2 DEF SeqAt
<1> QED BY <1>5, <1>8, <1>10, <1>11

-----------------------------------------------------------------------------
(* What the stream handles *)

\* The journal is compacted only while no engine runs.
NotUnderTheEngine == ~OnlineCompaction

\* No batch is in the hands of a suspended loop when the cursor is set.
NoBatchIsStale == ObserversYield => Cursors = {}

\* The seqs of a list of lines.
LEMMA SeqsAre ==
  ASSUME NEW l \in Seq(Lines!Line)
  PROVE  /\ Len(l) \in Nat
         /\ \A i \in 1 .. Len(l) : l[i].seq \in Nat \ {0}
         /\ Stream!Seqs(l) = {l[i].seq : i \in 1 .. Len(l)}
<1>1. /\ Len(l) \in Nat /\ \A i \in 1 .. Len(l) : l[i].seq \in Nat \ {0}
      /\ Lines!Seqs(l) = {l[i].seq : i \in 1 .. Len(l)}
  BY Lines!LinesAreRecords, StreamAssumptionHolds
<1> QED BY <1>1, SameBatches

\* Two lists of lines, one after the other.
LEMMA JoinedLines ==
  ASSUME NEW k \in Seq(Lines!Line), NEW l \in Seq(Lines!Line)
  PROVE  /\ k \o l \in Seq(Lines!Line) /\ Len(k \o l) = Len(k) + Len(l)
         /\ \A i \in 1 .. Len(k \o l) :
               \/ i \in 1 .. Len(k) /\ (k \o l)[i] = k[i]
               \/ i > Len(k) /\ i - Len(k) \in 1 .. Len(l) /\ (k \o l)[i] = l[i - Len(k)]
         /\ Stream!Seqs(k \o l) = Stream!Seqs(k) \cup Stream!Seqs(l)
<1>1. Len(k) \in Nat /\ Len(l) \in Nat
  BY SeqsAre
<1>2. PICK j : j = k \o l
  OBVIOUS
<1>3. /\ j \in Seq(Lines!Line) /\ Len(j) = Len(k) + Len(l)
      /\ \A i \in 1 .. Len(k) + Len(l) : j[i] = IF i <= Len(k) THEN k[i] ELSE l[i - Len(k)]
  BY <1>2
<1>4. \A i \in 1 .. Len(j) :
         \/ i \in 1 .. Len(k) /\ j[i] = k[i]
         \/ i > Len(k) /\ i - Len(k) \in 1 .. Len(l) /\ j[i] = l[i - Len(k)]
  BY <1>1, <1>3
<1>5. /\ \A i \in 1 .. Len(k) : i \in 1 .. Len(j) /\ j[i] = k[i]
      /\ \A i \in 1 .. Len(l) : Len(k) + i \in 1 .. Len(j) /\ j[Len(k) + i] = l[i]
  <2>1. \A i \in 1 .. Len(k) : i \in 1 .. Len(j) /\ j[i] = k[i]
    BY <1>1, <1>3
  <2>2. ASSUME NEW i \in 1 .. Len(l) PROVE Len(k) + i \in 1 .. Len(j) /\ j[Len(k) + i] = l[i]
    <3>1. Len(k) + i \in 1 .. Len(k) + Len(l) /\ ~(Len(k) + i <= Len(k)) /\ (Len(k) + i) - Len(k) = i
      BY <1>1
    <3> QED BY <1>3, <3>1
  <2> QED BY <2>1, <2>2
<1>6. Stream!Seqs(j) = Stream!Seqs(k) \cup Stream!Seqs(l)
  <2>1. /\ Stream!Seqs(j) = {j[i].seq : i \in 1 .. Len(j)}
        /\ Stream!Seqs(k) = {k[i].seq : i \in 1 .. Len(k)}
        /\ Stream!Seqs(l) = {l[i].seq : i \in 1 .. Len(l)}
    BY <1>3, SeqsAre
  <2>2. \A n \in Stream!Seqs(j) : n \in Stream!Seqs(k) \cup Stream!Seqs(l)
    BY <1>4, <2>1
  <2>3. \A n \in Stream!Seqs(k) \cup Stream!Seqs(l) : n \in Stream!Seqs(j)
    BY <1>5, <2>1
  <2> QED BY <2>2, <2>3
<1> QED BY <1>2, <1>3, <1>4, <1>6

\* If the second goes on where the first ends they increase together.
LEMMA JoinedBetween ==
  ASSUME NEW k \in Seq(Lines!Line), NEW l \in Seq(Lines!Line),
         NEW lo \in Nat, NEW m \in Nat, NEW hi \in Nat, m <= hi + 1, lo <= m,
         Between(k, lo, m - 1), Between(l, m, hi)
  PROVE  Between(k \o l, lo, hi)
<1>1. PICK j : j = k \o l
  OBVIOUS
<1>2. /\ j \in Seq(Lines!Line) /\ Len(k) \in Nat /\ Len(l) \in Nat
      /\ \A i \in 1 .. Len(j) :
            \/ i \in 1 .. Len(k) /\ j[i] = k[i]
            \/ i > Len(k) /\ i - Len(k) \in 1 .. Len(l) /\ j[i] = l[i - Len(k)]
  BY <1>1, JoinedLines, SeqsAre
<1>3. /\ \A i \in 1 .. Len(k) : k[i].seq \in Nat /\ lo <= k[i].seq /\ k[i].seq <= m - 1
      /\ \A i \in 1 .. Len(l) : l[i].seq \in Nat /\ m <= l[i].seq /\ l[i].seq <= hi
  BY SeqsAre DEF Between
<1>4. ASSUME NEW i \in 1 .. Len(j) PROVE lo <= j[i].seq /\ j[i].seq <= hi
  <2>1. CASE i \in 1 .. Len(k) /\ j[i] = k[i]
    BY <1>3, <2>1
  <2>2. CASE i - Len(k) \in 1 .. Len(l) /\ j[i] = l[i - Len(k)]
    BY <1>3, <2>2
  <2> QED BY <1>2, <2>1, <2>2
<1>5. ASSUME NEW i \in 1 .. Len(j), NEW i2 \in 1 .. Len(j), i < i2 PROVE j[i].seq < j[i2].seq
  <2>1. CASE i \in 1 .. Len(k) /\ j[i] = k[i] /\ i2 \in 1 .. Len(k) /\ j[i2] = k[i2]
    BY <1>5, <2>1 DEF Between
  <2>2. CASE i \in 1 .. Len(k) /\ j[i] = k[i] /\ i2 - Len(k) \in 1 .. Len(l) /\ j[i2] = l[i2 - Len(k)]
    <3>1. j[i].seq \in Nat /\ j[i].seq <= m - 1
      BY <1>3, <2>2
    <3>2. j[i2].seq \in Nat /\ m <= j[i2].seq
      BY <1>3, <2>2
    <3> QED BY <3>1, <3>2
  <2>3. CASE /\ i > Len(k) /\ i - Len(k) \in 1 .. Len(l) /\ j[i] = l[i - Len(k)]
             /\ i2 - Len(k) \in 1 .. Len(l) /\ j[i2] = l[i2 - Len(k)]
    <3>1. i - Len(k) < i2 - Len(k)
      BY <1>2, <1>5
    <3> QED BY <2>3, <3>1 DEF Between
  <2>4. CASE i > Len(k) /\ i2 \in 1 .. Len(k)
    BY <1>2, <1>5, <2>4
  <2> QED BY <1>2, <2>1, <2>2, <2>3, <2>4
<1> QED BY <1>1, <1>4, <1>5 DEF Between

\* A wider range.
LEMMA WiderBetween ==
  ASSUME NEW l \in Seq(Lines!Line), NEW lo \in Nat, NEW m \in Int, NEW hi \in Int, m <= hi, Between(l, lo, m)
  PROVE  Between(l, lo, hi)
<1>1. \A i \in 1 .. Len(l) : l[i].seq \in Nat
  BY SeqsAre
<1> QED BY <1>1 DEF Between

\* A step that handles nothing and marks nothing.
StreamStands ==
    /\ UNCHANGED <<disk, cursor, nextSeq, symbols, queue, pending, held, up, base, handled, done>>
    /\ loop' = "observer" => loop = "observer" /\ batch' = batch
    /\ up \/ loop' = loop

\* A step that takes no record out of the file, and forgets that one was given up only
\* when it is still to be read and is not counted as processed.
RecordsStand ==
    /\ tip' = tip \/ (tip' = tip + 1 /\ tip' \in InFile')
    /\ \A n \in 1 .. tip :
          /\ n \in InFile' <=> n \in InFile
          /\ n \in merged => n \in merged'
          /\ n \in givenUp => n \in givenUp' \/ (up /\ n >= nextSeq /\ n > disk /\ n \in InFile)

\* The tip goes on by one at most.
LEMMA TipGoesOn ==
  ASSUME tip \in Nat, RecordsStand
  PROVE  /\ \A n \in Nat : n <= tip => n <= tip'
         /\ \A n \in Nat : n <= tip' => n <= tip \/ (n = tip' /\ n \in InFile')
         /\ \A n \in Nat : n <= tip + 1 => n <= tip' + 1
<1>1. CASE tip' = tip
  BY <1>1
<1>2. CASE tip' = tip + 1 /\ tip' \in InFile'
  <2>1. \A n \in Nat : n <= tip => n <= tip + 1
    OBVIOUS
  <2>2. \A n \in Nat : n <= tip + 1 => n <= tip \/ n = tip + 1
    OBVIOUS
  <2>3. \A n \in Nat : n <= tip + 1 => n <= (tip + 1) + 1
    OBVIOUS
  <2> QED BY <1>2, <2>1, <2>2, <2>3, Zenon
<1> QED BY <1>1, <1>2 DEF RecordsStand

\* The lists are the same.
LEMMA SameSeqs ==
  /\ \A l : handled' = l => Stream!Seqs(handled)' = Stream!Seqs(l)
  /\ \A l : queue' = l => Stream!Seqs(queue)' = Stream!Seqs(l)
  /\ \A l : batch' = l => Stream!Seqs(batch)' = Stream!Seqs(l)
  BY DEF Stream!Seqs, Stream!Range

\* The stream's state holds on while it stands.
LEMMA OrderStays ==
  ASSUME TypeInv, StreamOrder, StreamStands, RecordsStand
  PROVE  StreamOrder'
<1>1. /\ UNCHANGED <<disk, cursor, nextSeq, symbols, queue, pending, held, up, base, handled, done>>
      /\ loop' = "observer" => loop = "observer" /\ batch' = batch
      /\ up \/ loop' = loop
  BY DEF StreamStands
<1>2. tip \in Nat /\ nextSeq \in Nat /\ base \in Nat /\ batch \in Seq(Lines!Line)
  BY PipelineParts, StreamParts
<1>3. nextSeq' = base' + 1 \/ nextSeq' <= tip' + 1
  <2>1. nextSeq = base + 1 \/ nextSeq <= tip + 1
    BY DEF StreamOrder
  <2>2. CASE nextSeq = base + 1
    BY <1>1, <2>2
  <2>3. CASE nextSeq <= tip + 1
    <3>1. nextSeq <= tip' + 1
      BY <1>2, <2>3, TipGoesOn, Zenon
    <3> QED BY <1>1, <3>1
  <2> QED BY <2>1, <2>2, <2>3
<1>4. (loop = "observer" => ObserversYield /\ Between(batch, nextSeq, tip))'
  <2> SUFFICES ASSUME loop' = "observer" PROVE ObserversYield /\ Between(batch, nextSeq, tip)'
    OBVIOUS
  <2>1. ObserversYield /\ Between(batch, nextSeq, tip) /\ batch' = batch
    BY <1>1 DEF StreamOrder
  <2>2. \A i \in 1 .. Len(batch) : batch[i].seq \in Nat /\ batch[i].seq <= tip
    BY <1>2, <2>1, SeqsAre DEF Between
  <2>3. \A i \in 1 .. Len(batch) : batch[i].seq <= tip'
    BY <1>2, <2>2, TipGoesOn
  <2> QED BY <1>1, <2>1, <2>3 DEF Between
<1>5. Stream!Seqs(handled)' = Stream!Seqs(handled) /\ Stream!Seqs(queue)' = Stream!Seqs(queue)
  BY <1>1, SameSeqs
<1> QED BY <1>1, <1>3, <1>4, <1>5 DEF StreamOrder, Between

\* What is settled below nextSeq or the saved cursor stays so while the records stand.
LEMMA SettledStands ==
  ASSUME TypeInv, RecordsStand, done \subseteq done', NEW m \in Nat, SettledTo(m), up => m < nextSeq \/ m <= disk
  PROVE  SettledTo(m)'
<1>1. tip \in Nat /\ nextSeq \in Nat /\ disk \in Nat
  BY PipelineParts, StreamParts
<1>2. CASE \A n \in 1 .. m : n \in done
  BY <1>2 DEF SettledTo
<1>3. CASE ~(\A n \in 1 .. m : n \in done)
  <2>1. m <= tip /\ m <= tip'
    BY <1>1, <1>3, TipGoesOn DEF SettledTo
  <2>2. ASSUME NEW n \in 1 .. m PROVE n \in done' \/ n \in givenUp' \/ n \in merged'
    <3>1. n \in 1 .. tip /\ ~(up /\ n >= nextSeq /\ n > disk)
      BY <1>1, <2>1
    <3>2. n \in done \/ n \in givenUp \/ n \in merged
      BY DEF SettledTo, Excused
    <3> QED BY <3>1, <3>2 DEF RecordsStand
  <2> QED BY <2>1, <2>2 DEF SettledTo, Excused
<1> QED BY <1>2, <1>3

\* So does what is absent.
LEMMA AbsentStands ==
  ASSUME TypeInv, RecordsStand, done \subseteq done', NEW n \in 1 .. tip, Absent(n)
  PROVE  Absent(n)'
  BY DEF RecordsStand, Absent

\* And what the file, the stream and the exceptions cover.
LEMMA TipStands ==
  ASSUME TypeInv, RecordsStand, done \subseteq done',
         \A n \in 1 .. tip : n \in InFile \cup done \cup Excused
  PROVE  (\A n \in 1 .. tip : n \in InFile \cup done \cup Excused)'
<1>1. tip \in Nat
  BY PipelineParts
<1>2. ASSUME NEW n \in 1 .. tip' PROVE n \in InFile' \/ n \in done' \/ n \in givenUp' \/ n \in merged'
  <2>1. n \in 1 .. tip \/ n \in InFile'
    <3>1. n \in Nat /\ n >= 1 /\ n <= tip'
      <4>1. tip' = tip \/ tip' = tip + 1
        BY DEF RecordsStand
      <4>2. tip' \in Int
        BY <1>1, <4>1
      <4> QED BY <4>2
    <3>2. n <= tip \/ n \in InFile'
      BY <1>1, <3>1, TipGoesOn
    <3> QED BY <1>1, <3>1, <3>2
  <2>2. CASE n \in 1 .. tip
    BY <2>2 DEF RecordsStand, Excused
  <2> QED BY <2>1, <2>2
<1> QED BY <1>2 DEF Excused

\* What is covered stays so while the stream stands.
LEMMA CoverageStays ==
  ASSUME TypeInv, StreamOrder, Coverage, StreamStands, RecordsStand
  PROVE  Coverage'
<1>1. /\ UNCHANGED <<disk, cursor, nextSeq, symbols, queue, pending, held, up, base, handled, done>>
      /\ loop' = "observer" => loop = "observer" /\ batch' = batch
  BY DEF StreamStands
<1>2. /\ tip \in Nat /\ nextSeq \in Nat /\ base \in Nat /\ disk \in Nat /\ cursor \in Nat
      /\ batch \in Seq(Lines!Line) /\ done \subseteq done'
  BY <1>1, PipelineParts, StreamParts
<1>3. up => base < nextSeq
  BY <1>2 DEF StreamOrder
<1>4. SettledTo(disk)' /\ SettledTo(base)'
  <2>1. PICK d, b : d = disk /\ b = base
    OBVIOUS
  <2>2. SettledTo(d)' /\ SettledTo(b)'
    BY <1>2, <1>3, <2>1, SettledStands DEF Coverage
  <2> QED BY <1>1, <2>1, <2>2 DEF SettledTo
<1>5. (\A n \in 1 .. tip : n \in InFile \cup done \cup Excused)'
  BY <1>2, TipStands DEF Coverage
<1>6. (\A n \in base + 1 .. nextSeq - 1 : n \in Stream!Seqs(handled) \cup Excused \cup (done \ InFile))'
  <2> SUFFICES ASSUME NEW n \in base + 1 .. nextSeq - 1
               PROVE  n \in Stream!Seqs(handled)' \/ n \in Excused' \/ (n \in done' /\ n \notin InFile')
    BY <1>1
  <2>1. n \in 1 .. tip /\ ~(n >= nextSeq)
    BY <1>2 DEF StreamOrder
  <2>2. n \in Stream!Seqs(handled) \/ n \in Excused \/ (n \in done /\ n \notin InFile)
    BY DEF Coverage
  <2>3. Stream!Seqs(handled)' = Stream!Seqs(handled)
    BY <1>1, SameSeqs
  <2>4. n \in Excused => n \in Excused'
    BY <2>1 DEF RecordsStand, Excused
  <2>5. n \notin InFile => n \notin InFile'
    BY <2>1 DEF RecordsStand
  <2> QED BY <1>1, <2>2, <2>3, <2>4, <2>5
<1>7. (loop = "observer" => \A i \in 1 .. Len(batch) : \A n \in nextSeq .. batch[i].seq :
                               n \in Stream!Seqs(batch) \/ Absent(n))'
  <2> SUFFICES ASSUME loop' = "observer"
               PROVE  (\A i \in 1 .. Len(batch) : \A n \in nextSeq .. batch[i].seq :
                               n \in Stream!Seqs(batch) \/ Absent(n))'
    OBVIOUS
  <2>1. loop = "observer" /\ batch' = batch /\ Between(batch, nextSeq, tip)
    BY <1>1 DEF StreamOrder
  <2>2. Stream!Seqs(batch)' = Stream!Seqs(batch)
    BY <2>1, SameSeqs
  <2>3. ASSUME NEW i \in 1 .. Len(batch), NEW n \in nextSeq .. batch[i].seq
        PROVE  n \in Stream!Seqs(batch) \/ Absent(n)'
    <3>1. batch[i].seq \in Nat /\ batch[i].seq <= tip
      BY <1>2, <2>1, SeqsAre DEF Between
    <3>2. n \in 1 .. tip
      BY <1>2, <3>1, StreamParts
    <3> QED BY <1>2, <2>1, <2>3, <3>2, AbsentStands DEF Coverage
  <2> QED BY <1>1, <2>1, <2>2, <2>3
<1> QED BY <1>4, <1>5, <1>6, <1>7 DEF Coverage

-----------------------------------------------------------------------------
(* What a batch does *)

\* The first k lines of b.
Until(b, k) == Lines!Until(b, k)

\* A prefix of the batch is handled and nothing is saved; the rest is kept for an
\* observer or dropped.
TakesUpTo(b, k) ==
    /\ k \in 0 .. Len(b) /\ (k = 0 => b = << >>)
    /\ UNCHANGED <<disk, cursor, done>>
    /\ handled' = handled \o Until(b, k) /\ queue' = queue \o Until(b, k)
    /\ nextSeq' = IF k = 0 THEN nextSeq ELSE b[k].seq + 1
    /\ \/ loop' = "observer" /\ ObserversYield /\ batch' = SubSeq(b, k + 1, Len(b))
       \/ loop' # "observer" /\ batch' = << >>

\* It does so with every batch, for a stream that wants all lines.
LEMMA BatchTakes ==
  ASSUME TypeInv, StreamOrder, NEW b \in Seq(Lines!Line), Lines!Batch(b)
  PROVE  \E k : TakesUpTo(b, k)
<1>1. /\ Lines!BufferInv /\ symbols = {}
      /\ cursor \in Nat /\ disk \in Nat /\ errors \in Nat /\ stopped \in BOOLEAN /\ faults \in Nat
      /\ queue \in Seq(Lines!Line) /\ handled \in Seq(Lines!Line) /\ nextSeq \in Nat \ {0}
      /\ done \subseteq Nat \ {0} /\ unfinished \in Int
  BY PipelineParts, StreamParts DEF StreamOrder
<1>2. PICK k \in 0 .. Len(b) :
           /\ k = 0 => b = << >>
           /\ Lines!Handle(Lines!Until(b, k))
           /\ UNCHANGED disk \/ (disk' \in Nat /\ cursor < disk' /\ disk' <= cursor')
           /\ \/ loop' = "observer" /\ ObserversYield /\ batch' = SubSeq(b, k + 1, Len(b))
              \/ loop' \in {"polling", "off"} /\ batch' = << >>
  BY <1>1, StreamAssumptionHolds, Lines!BatchShape
<1>3. PICK u : u = Until(b, k)
  OBVIOUS
<1>4. u \in Seq(Lines!Line) /\ Len(u) = k /\ \A i \in 1 .. k : u[i] = b[i]
  BY <1>3, StreamAssumptionHolds, Lines!PrefixIs DEF Until
<1>5. Lines!Taken(u) = u /\ Lines!CursorThrough(u) = cursor
  BY <1>1, <1>4, StreamAssumptionHolds, Lines!AllAreTaken DEF Lines!AllWanted
<1>6. /\ queue' = queue \o Lines!Taken(u) /\ handled' = handled \o u
      /\ cursor' = Lines!CursorThrough(u)
      /\ nextSeq' = IF u = << >> THEN nextSeq ELSE u[Len(u)].seq + 1
      /\ done' = done \cup (Lines!Seqs(u) \ Lines!Seqs(Lines!Taken(u)))
  BY <1>1, <1>2, <1>3, <1>4, StreamAssumptionHolds, Lines!HandleIs DEF Until
<1>7. queue' = queue \o u /\ cursor' = cursor /\ done' = done
  BY <1>5, <1>6
<1>8. disk' = disk
  BY <1>1, <1>2, <1>7
<1>9. nextSeq' = IF k = 0 THEN nextSeq ELSE b[k].seq + 1
  <2>1. CASE k = 0
    <3>1. u = << >>
      BY <1>4, <2>1
    <3> QED BY <1>6, <2>1, <3>1
  <2>2. CASE k # 0
    <3>1. u # << >> /\ u[k] = b[k] /\ k \in 1 .. k
      BY <1>4, <2>2
    <3> QED BY <1>4, <1>6, <2>2, <3>1
  <2> QED BY <2>1, <2>2
<1> QED BY <1>2, <1>3, <1>6, <1>7, <1>8, <1>9 DEF TakesUpTo

\* The prefix and the rest of an increasing batch.
LEMMA BatchParts ==
  ASSUME NEW b \in Seq(Lines!Line), NEW lo \in Nat, NEW hi \in Nat, Between(b, lo, hi),
         NEW k \in 1 .. Len(b)
  PROVE  /\ Until(b, k) \in Seq(Lines!Line) /\ SubSeq(b, k + 1, Len(b)) \in Seq(Lines!Line)
         /\ b[k].seq \in Nat /\ lo <= b[k].seq /\ b[k].seq <= hi
         /\ Between(Until(b, k), lo, b[k].seq)
         /\ Between(SubSeq(b, k + 1, Len(b)), b[k].seq + 1, hi)
         /\ \A n \in Stream!Seqs(b) : n <= b[k].seq => n \in Stream!Seqs(Until(b, k))
         /\ \A n \in Stream!Seqs(b) : n > b[k].seq => n \in Stream!Seqs(SubSeq(b, k + 1, Len(b)))
         /\ \A i \in 1 .. Len(SubSeq(b, k + 1, Len(b))) :
               \E j \in 1 .. Len(b) : SubSeq(b, k + 1, Len(b))[i] = b[j]
<1>1. PICK u, v : u = Until(b, k) /\ v = SubSeq(b, k + 1, Len(b))
  OBVIOUS
<1>2. /\ Len(b) \in Nat /\ k \in Nat /\ k \in 1 .. Len(b)
      /\ \A i \in 1 .. Len(b) : b[i].seq \in Nat /\ lo <= b[i].seq /\ b[i].seq <= hi
      /\ \A i, j \in 1 .. Len(b) : i < j => b[i].seq < b[j].seq
      /\ Stream!Seqs(b) = {b[i].seq : i \in 1 .. Len(b)}
  <2>1. /\ Len(b) \in Nat /\ \A i \in 1 .. Len(b) : b[i].seq \in Nat
        /\ Stream!Seqs(b) = {b[i].seq : i \in 1 .. Len(b)}
    BY SeqsAre
  <2>2. k \in Nat
    BY <2>1
  <2>3. /\ \A i \in 1 .. Len(b) : lo <= b[i].seq /\ b[i].seq <= hi
        /\ \A i, j \in 1 .. Len(b) : i < j => b[i].seq < b[j].seq
    BY DEF Between
  <2> QED BY <2>1, <2>2, <2>3
<1>3. /\ u \in Seq(Lines!Line) /\ Len(u) = k /\ \A i \in 1 .. k : u[i] = b[i]
      /\ v \in Seq(Lines!Line) /\ Len(v) = Len(b) - k /\ \A i \in 1 .. Len(b) - k : v[i] = b[k + i]
  <2>1. k \in 0 .. Len(b)
    BY <1>2
  <2> QED BY <1>1, <2>1, StreamAssumptionHolds, Lines!PrefixIs DEF Until
<1>4. Stream!Seqs(u) = {u[i].seq : i \in 1 .. Len(u)} /\ Stream!Seqs(v) = {v[i].seq : i \in 1 .. Len(v)}
  BY <1>3, SeqsAre
<1>5. Between(u, lo, b[k].seq)
  <2>1. ASSUME NEW i \in 1 .. Len(u) PROVE lo <= u[i].seq /\ u[i].seq <= b[k].seq
    <3>1. i \in 1 .. Len(b) /\ u[i] = b[i] /\ (i = k \/ i < k)
      BY <1>2, <1>3
    <3> QED BY <1>2, <3>1
  <2>2. ASSUME NEW i \in 1 .. Len(u), NEW j \in 1 .. Len(u), i < j PROVE u[i].seq < u[j].seq
    <3>1. i \in 1 .. Len(b) /\ j \in 1 .. Len(b) /\ u[i] = b[i] /\ u[j] = b[j]
      BY <1>2, <1>3
    <3> QED BY <1>2, <2>2, <3>1
  <2> QED BY <2>1, <2>2 DEF Between
<1>6. Between(v, b[k].seq + 1, hi)
  <2>1. ASSUME NEW i \in 1 .. Len(v) PROVE b[k].seq + 1 <= v[i].seq /\ v[i].seq <= hi
    <3>1. k + i \in 1 .. Len(b) /\ v[i] = b[k + i] /\ k < k + i
      BY <1>2, <1>3
    <3>2. b[k].seq < b[k + i].seq
      BY <1>2, <3>1
    <3> QED BY <1>2, <3>1, <3>2
  <2>2. ASSUME NEW i \in 1 .. Len(v), NEW j \in 1 .. Len(v), i < j PROVE v[i].seq < v[j].seq
    <3>1. k + i \in 1 .. Len(b) /\ k + j \in 1 .. Len(b) /\ v[i] = b[k + i] /\ v[j] = b[k + j]
          /\ k + i < k + j
      BY <1>2, <1>3, <2>2
    <3> QED BY <1>2, <3>1
  <2> QED BY <2>1, <2>2 DEF Between
<1>7. ASSUME NEW n \in Stream!Seqs(b), n <= b[k].seq PROVE n \in Stream!Seqs(u)
  <2>1. PICK i \in 1 .. Len(b) : n = b[i].seq
    BY <1>2
  <2>2. ~(k < i)
    BY <1>2, <1>7, <2>1
  <2>3. i \in 1 .. Len(u) /\ u[i] = b[i]
    BY <1>2, <1>3, <2>2
  <2> QED BY <1>4, <2>1, <2>3
<1>8. ASSUME NEW n \in Stream!Seqs(b), n > b[k].seq PROVE n \in Stream!Seqs(v)
  <2>1. PICK i \in 1 .. Len(b) : n = b[i].seq
    BY <1>2
  <2>2. ~(i < k) /\ i # k
    <3>1. b[i].seq \in Nat /\ b[k].seq \in Nat /\ b[i].seq > b[k].seq
      BY <1>2, <1>8, <2>1
    <3>2. ~(b[i].seq < b[k].seq) /\ b[i].seq # b[k].seq
      BY <3>1
    <3>3. i < k => b[i].seq < b[k].seq
      BY <1>2
    <3> QED BY <3>2, <3>3
  <2>3. PICK j : j = i - k
    OBVIOUS
  <2>4. j \in 1 .. Len(b) - k /\ k + j = i
    BY <1>2, <2>2, <2>3
  <2>5. v[j] = b[i] /\ j \in 1 .. Len(v)
    BY <1>3, <2>4
  <2> QED BY <1>4, <2>1, <2>5
<1>9. ASSUME NEW i \in 1 .. Len(v) PROVE \E j \in 1 .. Len(b) : v[i] = b[j]
  <2>1. k + i \in 1 .. Len(b) /\ v[i] = b[k + i]
    BY <1>2, <1>3
  <2> QED BY <2>1
<1> QED BY <1>1, <1>2, <1>3, <1>5, <1>6, <1>7, <1>8, <1>9

\* The stream's state holds on when a batch in order is handled.
LEMMA OrderBatch ==
  ASSUME TypeInv, StreamOrder, NEW b \in Seq(Lines!Line), NEW k, TakesUpTo(b, k),
         Between(b, nextSeq, tip), up,
         UNCHANGED <<tip, symbols, pending, held, up, base>>
  PROVE  StreamOrder' /\ nextSeq <= nextSeq'
<1>1. /\ tip \in Nat /\ nextSeq \in Nat \ {0} /\ base \in Nat /\ pending \in Nat /\ cursor \in Nat
      /\ queue \in Seq(Lines!Line) /\ handled \in Seq(Lines!Line) /\ done \subseteq Nat \ {0}
  BY PipelineParts, StreamParts
<1>2. /\ k \in 0 .. Len(b) /\ (k = 0 => b = << >>)
      /\ UNCHANGED <<disk, cursor, done>>
      /\ handled' = handled \o Until(b, k) /\ queue' = queue \o Until(b, k)
      /\ nextSeq' = IF k = 0 THEN nextSeq ELSE b[k].seq + 1
      /\ \/ loop' = "observer" /\ ObserversYield /\ batch' = SubSeq(b, k + 1, Len(b))
         \/ loop' # "observer" /\ batch' = << >>
  BY DEF TakesUpTo
<1>3. PICK u, v, N : u = Until(b, k) /\ v = SubSeq(b, k + 1, Len(b)) /\ N = nextSeq'
  OBVIOUS
<1>4. /\ u \in Seq(Lines!Line) /\ N \in Nat /\ nextSeq <= N /\ (N = nextSeq \/ N <= tip + 1)
      /\ Between(u, nextSeq, N - 1) /\ Between(v, N, tip)
  <2>1. CASE k = 0
    <3>1. Len(b) = 0 /\ b = << >>
      BY <1>2, <2>1
    <3>2. u = << >> /\ v = << >>
      BY <1>3, <2>1, <3>1 DEF Until, Lines!Until
    <3>3. Len(u) = 0 /\ Len(v) = 0 /\ u \in Seq(Lines!Line)
      BY <3>2
    <3>4. Between(u, nextSeq, N - 1) /\ Between(v, N, tip)
      BY <3>3 DEF Between
    <3> QED BY <1>1, <1>2, <1>3, <2>1, <3>3, <3>4
  <2>2. CASE k # 0
    <3>1. k \in 1 .. Len(b)
      BY <1>2, <2>2, SeqsAre
    <3>2. N = b[k].seq + 1
      BY <1>2, <1>3, <2>2
    <3>3. /\ u \in Seq(Lines!Line)
          /\ b[k].seq \in Nat /\ nextSeq <= b[k].seq /\ b[k].seq <= tip
          /\ Between(u, nextSeq, b[k].seq) /\ Between(v, b[k].seq + 1, tip)
      BY <1>1, <1>3, <3>1, BatchParts
    <3>4. N - 1 = b[k].seq
      BY <3>2, <3>3
    <3>5. N \in Nat /\ nextSeq <= N /\ N <= tip + 1
      BY <1>1, <3>2, <3>3
    <3>6. Between(u, nextSeq, N - 1) /\ Between(v, N, tip)
      BY <3>2, <3>3, <3>4
    <3> QED BY <3>3, <3>5, <3>6
  <2> QED BY <2>1, <2>2
<1>5. /\ base < nextSeq /\ cursor < nextSeq /\ (nextSeq = base + 1 \/ nextSeq <= tip + 1)
      /\ Between(handled, base + 1, nextSeq - 1) /\ Between(queue, base + 1, nextSeq - 1)
      /\ pending > 0 => /\ base < pending /\ pending < nextSeq
                        /\ \A i \in 1 .. Len(queue) : pending < queue[i].seq
      /\ Stream!Seqs(handled) \subseteq done \cup Stream!Seqs(queue) \cup {pending}
  BY DEF StreamOrder
<1>6. /\ Between(handled \o u, base + 1, N - 1) /\ Between(queue \o u, base + 1, N - 1)
      /\ Stream!Seqs(handled \o u) \subseteq done \cup Stream!Seqs(queue \o u) \cup {pending}
  <2>1. Between(handled \o u, base + 1, N - 1) /\ Between(queue \o u, base + 1, N - 1)
    <3>1. N - 1 \in Nat /\ base + 1 \in Nat /\ base + 1 <= nextSeq /\ nextSeq <= (N - 1) + 1
      BY <1>1, <1>4, <1>5
    <3> QED BY <1>1, <1>4, <1>5, <3>1, JoinedBetween
  <2>2. /\ Stream!Seqs(handled \o u) = Stream!Seqs(handled) \cup Stream!Seqs(u)
        /\ Stream!Seqs(queue \o u) = Stream!Seqs(queue) \cup Stream!Seqs(u)
    BY <1>1, <1>4, JoinedLines
  <2> QED BY <1>5, <2>1, <2>2
<1>7. ASSUME pending > 0
      PROVE  /\ pending < N
             /\ \A i \in 1 .. Len(queue \o u) : pending < (queue \o u)[i].seq
  <2>1. PICK q : q = queue \o u
    OBVIOUS
  <2>2. \A i \in 1 .. Len(q) :
          \/ i \in 1 .. Len(queue) /\ q[i] = queue[i]
          \/ i - Len(queue) \in 1 .. Len(u) /\ q[i] = u[i - Len(queue)]
    BY <1>1, <1>4, <2>1, JoinedLines
  <2>3. \A i \in 1 .. Len(u) : u[i].seq \in Nat /\ nextSeq <= u[i].seq
    BY <1>4, SeqsAre DEF Between
  <2>4. \A i \in 1 .. Len(u) : pending < u[i].seq
    <3>1. pending < nextSeq
      BY <1>5, <1>7
    <3> QED BY <1>1, <2>3, <3>1
  <2>5. \A i \in 1 .. Len(q) : pending < q[i].seq
    BY <1>5, <1>7, <2>2, <2>4
  <2> QED BY <1>1, <1>4, <1>5, <1>7, <2>1, <2>5
<1>8. base < N /\ cursor < N /\ (N = base + 1 \/ N <= tip + 1)
  BY <1>1, <1>4, <1>5
<1>9. /\ handled' = handled \o u /\ queue' = queue \o u /\ nextSeq' = N
      /\ loop' = "observer" => ObserversYield /\ batch' = v
      /\ UNCHANGED <<disk, cursor, done, tip, symbols, pending, up, base>>
  BY <1>2, <1>3
<1>10. /\ Stream!Seqs(handled)' = Stream!Seqs(handled \o u) /\ Stream!Seqs(queue)' = Stream!Seqs(queue \o u)
  BY <1>9, SameSeqs
<1>11. /\ Between(handled, base + 1, nextSeq - 1)' /\ Between(queue, base + 1, nextSeq - 1)'
       /\ loop' = "observer" => Between(batch, nextSeq, tip)'
  BY <1>4, <1>6, <1>9 DEF Between
<1>12. pending' > 0 => /\ base' < pending' /\ pending' < nextSeq'
                       /\ \A i \in 1 .. Len(queue') : pending' < queue'[i].seq
  BY <1>5, <1>7, <1>9
<1>13. /\ symbols' = {} /\ up'
       /\ base' < nextSeq' /\ cursor' < nextSeq' /\ (nextSeq' = base' + 1 \/ nextSeq' <= tip' + 1)
       /\ loop' = "observer" => ObserversYield /\ Between(batch, nextSeq, tip)'
       /\ Stream!Seqs(handled)' \subseteq done' \cup Stream!Seqs(queue)' \cup {pending'}
  BY <1>5, <1>6, <1>8, <1>9, <1>10, <1>11 DEF StreamOrder
<1> QED BY <1>4, <1>9, <1>11, <1>12, <1>13 DEF StreamOrder

\* The lines of a batch are followed by no others up to the last, but for numbers that
\* are absent and, before the first, excused.
Complete(b) ==
    \A i \in 1 .. Len(b) : \A n \in nextSeq .. b[i].seq :
        n \in Stream!Seqs(b) \/ Absent(n) \/ (n < b[1].seq /\ n \in Excused')

\* What is covered stays so when a complete batch is handled.
LEMMA CoverageBatch ==
  ASSUME TypeInv, StreamOrder, Coverage, NEW b \in Seq(Lines!Line), NEW k, TakesUpTo(b, k),
         Between(b, nextSeq, tip), Complete(b), RecordsStand, UNCHANGED <<file, base>>
  PROVE  Coverage'
<1>1. /\ tip \in Nat /\ nextSeq \in Nat \ {0} /\ base \in Nat /\ disk \in Nat /\ cursor \in Nat
      /\ handled \in Seq(Lines!Line)
  BY PipelineParts, StreamParts
<1>2. /\ k \in 0 .. Len(b) /\ (k = 0 => b = << >>)
      /\ UNCHANGED <<disk, cursor, done>>
      /\ handled' = handled \o Until(b, k)
      /\ nextSeq' = IF k = 0 THEN nextSeq ELSE b[k].seq + 1
      /\ loop' = "observer" => batch' = SubSeq(b, k + 1, Len(b))
  BY DEF TakesUpTo
<1>3. done \subseteq done' /\ (up => base < nextSeq)
  BY <1>1, <1>2 DEF StreamOrder
<1>4. SettledTo(disk)' /\ SettledTo(base)'
  <2>1. PICK d, c : d = disk /\ c = base
    OBVIOUS
  <2>2. SettledTo(d)' /\ SettledTo(c)'
    BY <1>1, <1>3, <2>1, SettledStands DEF Coverage
  <2> QED BY <1>2, <2>1, <2>2 DEF SettledTo
<1>5. (\A n \in 1 .. tip : n \in InFile \cup done \cup Excused)'
  BY <1>3, TipStands DEF Coverage
<1>6. /\ \A n \in 1 .. tip : Absent(n) => n \in Excused' \/ (n \in done' /\ n \notin InFile')
      /\ \A n \in 1 .. tip : Absent(n) => Absent(n)'
  <2>1. ASSUME NEW n \in 1 .. tip, Absent(n) PROVE Absent(n)'
    BY <1>3, <2>1, AbsentStands
  <2> QED BY <2>1 DEF Absent, Excused
<1>7. ASSUME NEW n \in base + 1 .. nextSeq - 1
      PROVE  n \in Stream!Seqs(handled) \/ n \in Excused' \/ (n \in done' /\ n \notin InFile')
  <2>1. n \in 1 .. tip /\ ~(n >= nextSeq)
    BY <1>1 DEF StreamOrder
  <2>2. n \in Stream!Seqs(handled) \/ n \in Excused \/ (n \in done /\ n \notin InFile)
    BY DEF Coverage
  <2>3. n \in Excused => n \in Excused'
    BY <2>1 DEF RecordsStand, Excused
  <2>4. n \notin InFile => n \notin InFile'
    BY <2>1 DEF RecordsStand
  <2> QED BY <1>3, <2>2, <2>3, <2>4
<1>8. CASE k = 0
  <2>1. b = << >> /\ Len(b) = 0
    BY <1>2, <1>8
  <2>2. handled' = handled /\ nextSeq' = nextSeq
    <3>1. Until(b, k) = << >>
      BY <1>8, <2>1 DEF Until, Lines!Until
    <3>2. handled \o << >> = handled
      BY <1>1
    <3> QED BY <1>2, <1>8, <3>1, <3>2
  <2>3. Stream!Seqs(handled)' = Stream!Seqs(handled)
    BY <2>2, SameSeqs
  <2>4. loop' = "observer" => Len(batch') = 0
    BY <1>2, <1>8, <2>1
  <2>5. (\A n \in base + 1 .. nextSeq - 1 : n \in Stream!Seqs(handled) \cup Excused \cup (done \ InFile))'
    BY <1>7, <2>2, <2>3
  <2>6. (loop = "observer" => \A i \in 1 .. Len(batch) : \A n \in nextSeq .. batch[i].seq :
                               n \in Stream!Seqs(batch) \/ Absent(n))'
    BY <2>4
  <2> QED BY <1>4, <1>5, <2>5, <2>6 DEF Coverage
<1>9. CASE k # 0
  <2>1. PICK u, v, N : u = Until(b, k) /\ v = SubSeq(b, k + 1, Len(b)) /\ N = b[k].seq
    OBVIOUS
  <2>2. k \in 1 .. Len(b) /\ k \in Nat
    BY <1>2, <1>9, SeqsAre
  <2>3. /\ u \in Seq(Lines!Line) /\ v \in Seq(Lines!Line)
        /\ N \in Nat /\ nextSeq <= N /\ N <= tip
        /\ Between(v, N + 1, tip)
        /\ \A n \in Stream!Seqs(b) : n <= N => n \in Stream!Seqs(u)
        /\ \A n \in Stream!Seqs(b) : n > N => n \in Stream!Seqs(v)
        /\ \A i \in 1 .. Len(v) : \E j \in 1 .. Len(b) : v[i] = b[j]
    <3>1. /\ Until(b, k) \in Seq(Lines!Line) /\ SubSeq(b, k + 1, Len(b)) \in Seq(Lines!Line)
          /\ b[k].seq \in Nat /\ nextSeq <= b[k].seq /\ b[k].seq <= tip
          /\ Between(SubSeq(b, k + 1, Len(b)), b[k].seq + 1, tip)
          /\ \A n \in Stream!Seqs(b) : n <= b[k].seq => n \in Stream!Seqs(Until(b, k))
          /\ \A n \in Stream!Seqs(b) : n > b[k].seq => n \in Stream!Seqs(SubSeq(b, k + 1, Len(b)))
          /\ \A i \in 1 .. Len(SubSeq(b, k + 1, Len(b))) :
                \E j \in 1 .. Len(b) : SubSeq(b, k + 1, Len(b))[i] = b[j]
      BY <1>1, <2>2, BatchParts
    <3> QED BY <2>1, <3>1
  <2>4. /\ handled' = handled \o u /\ nextSeq' = N + 1
        /\ loop' = "observer" => batch' = v
    BY <1>2, <1>9, <2>1
  <2>5. /\ Stream!Seqs(handled)' = Stream!Seqs(handled) \cup Stream!Seqs(u)
    <3>1. Stream!Seqs(handled)' = Stream!Seqs(handled \o u)
      BY <2>4, SameSeqs
    <3> QED BY <1>1, <2>3, <3>1, JoinedLines
  <2>6. ASSUME NEW n \in base + 1 .. N
        PROVE  n \in Stream!Seqs(handled) \/ n \in Stream!Seqs(u) \/ n \in Excused' \/ (n \in done' /\ n \notin InFile')
    <3>1. CASE n <= nextSeq - 1
      <4>1. n \in base + 1 .. nextSeq - 1
        BY <1>1, <2>3, <3>1
      <4> QED BY <1>7, <4>1
    <3>2. CASE ~(n <= nextSeq - 1)
      <4>1. n \in nextSeq .. b[k].seq /\ n \in 1 .. tip /\ n <= N
        <5>1. n \in Nat /\ n >= nextSeq /\ n <= N /\ n >= 1
          BY <1>1, <2>3, <3>2
        <5>2. n <= tip
          BY <1>1, <2>3, <5>1
        <5> QED BY <1>1, <2>1, <2>3, <5>1, <5>2
      <4>2. n \in Stream!Seqs(b) \/ Absent(n) \/ n \in Excused'
        BY <2>2, <4>1 DEF Complete
      <4> QED BY <1>6, <2>3, <4>1, <4>2
    <3> QED BY <3>1, <3>2
  <2>7. ASSUME NEW i \in 1 .. Len(v), NEW n \in N + 1 .. v[i].seq
        PROVE  n \in Stream!Seqs(v) \/ Absent(n)'
    <3>1. PICK j \in 1 .. Len(b) : v[i] = b[j]
      BY <2>3
    <3>2. v[i].seq \in Nat /\ v[i].seq <= tip /\ b[1].seq \in Nat
      <4>1. 1 \in 1 .. Len(b)
        BY <2>2, SeqsAre
      <4> QED BY <2>3, <4>1, SeqsAre DEF Between
    <3>3. n \in nextSeq .. b[j].seq /\ n \in 1 .. tip /\ n > N
      BY <1>1, <2>3, <3>1, <3>2
    <3>4. ~(n < b[1].seq)
      <4>1. b[1].seq <= N
        <5>1. 1 \in 1 .. Len(b) /\ (k = 1 \/ 1 < k)
          BY <2>2, SeqsAre
        <5>2. 1 < k => b[1].seq < b[k].seq
          BY <2>2, <5>1 DEF Between
        <5>3. k = 1 => b[1].seq = b[k].seq
          OBVIOUS
        <5>4. N = b[k].seq
          BY <2>1
        <5>5. CASE k = 1
          BY <2>3, <3>2, <5>3, <5>4, <5>5
        <5>6. CASE 1 < k
          BY <2>3, <3>2, <5>2, <5>4, <5>6
        <5> QED BY <5>1, <5>5, <5>6
      <4> QED BY <2>3, <3>2, <3>3, <4>1
    <3>5. n \in Stream!Seqs(b) \/ Absent(n)
      BY <3>3, <3>4 DEF Complete
    <3> QED BY <1>6, <2>3, <3>3, <3>5
  <2>8. (\A n \in base + 1 .. nextSeq - 1 : n \in Stream!Seqs(handled) \cup Excused \cup (done \ InFile))'
    <3>1. base' = base /\ nextSeq' - 1 = N
      BY <2>3, <2>4
    <3>2. \A n \in base' + 1 .. nextSeq' - 1 :
             n \in Stream!Seqs(handled)' \/ n \in Excused' \/ (n \in done' /\ n \notin InFile')
      BY <2>5, <2>6, <3>1
    <3> QED BY <3>2
  <2>9. (loop = "observer" => \A i \in 1 .. Len(batch) : \A n \in nextSeq .. batch[i].seq :
                               n \in Stream!Seqs(batch) \/ Absent(n))'
    <3> SUFFICES ASSUME loop' = "observer"
                 PROVE  (\A i \in 1 .. Len(batch) : \A n \in nextSeq .. batch[i].seq :
                               n \in Stream!Seqs(batch) \/ Absent(n))'
      OBVIOUS
    <3>1. batch' = v /\ nextSeq' = N + 1
      BY <2>4
    <3>2. Stream!Seqs(batch)' = Stream!Seqs(v)
      BY <3>1, SameSeqs
    <3> QED BY <2>7, <3>1, <3>2
  <2> QED BY <1>4, <1>5, <2>8, <2>9 DEF Coverage
<1> QED BY <1>8, <1>9

-----------------------------------------------------------------------------
(* The consumer, the callers and the end of the process *)

\* A step that leaves the file and what is known of its records alone.
LEMMA RecordsUntouched ==
  ASSUME UNCHANGED <<file, tip, merged>>, givenUp \subseteq givenUp'
  PROVE  RecordsStand
  BY DEF RecordsStand, InFile

\* The loop and its callers, apart from what they do with lines.
LEMMA ControlsStand ==
  ASSUME StreamOrder,
         \/ Stream!StartStreaming \/ Stream!CallbacksReturn \/ Stream!Stop \/ Stream!Cancelled
         \/ Stream!ObserverFails \/ Stream!LoopEnds \/ Stream!PollFails
  PROVE  StreamStands
<1>1. UNCHANGED <<disk, cursor, nextSeq, symbols, queue, pending, held, up, base, handled, done>>
  BY DEF Stream!StartStreaming, Stream!CallbacksReturn, Stream!Stop, Stream!Cancelled,
         Stream!ObserverFails, Stream!LoopEnds, Stream!PollFails, Stream!bufferVars,
         Stream!consumerVars
<1>2. loop' = "observer" => loop = "observer" /\ batch' = batch
  BY DEF Stream!StartStreaming, Stream!CallbacksReturn, Stream!Stop, Stream!Cancelled,
         Stream!ObserverFails, Stream!LoopEnds, Stream!PollFails, Stream!Failed
<1>3. up \/ loop' = loop
  <2>1. up \/ loop # "off" \/ loop' = loop
    BY DEF Stream!StartStreaming, Stream!CallbacksReturn, Stream!Stop, Stream!Cancelled,
           Stream!ObserverFails, Stream!LoopEnds, Stream!PollFails
  <2> QED BY <2>1 DEF StreamOrder
<1> QED BY <1>1, <1>2, <1>3 DEF StreamStands

\* The parts of the stream's state that a consumer does not touch.
ConsumerAlone == UNCHANGED <<file, tip, merged, givenUp, nextSeq, symbols, loop, batch, up, base, handled>>

\* Coverage holds on when the consumer settles a line or changes nothing of it.
LEMMA CoverageConsumes ==
  ASSUME TypeInv, StreamOrder, Coverage, ConsumerAlone, done \subseteq done', SettledTo(disk)'
  PROVE  Coverage'
<1>1. RecordsStand /\ UNCHANGED <<file, tip, merged, givenUp, nextSeq, symbols, loop, batch, up, base, handled>>
  BY RecordsUntouched DEF ConsumerAlone
<1>2. base \in Nat /\ nextSeq \in Nat /\ tip \in Nat
  BY PipelineParts, StreamParts
<1>3. SettledTo(base)'
  <2>1. PICK b : b = base
    OBVIOUS
  <2>2. up => b < nextSeq
    BY <2>1 DEF StreamOrder
  <2>3. SettledTo(b)'
    BY <1>1, <1>2, <2>1, <2>2, SettledStands DEF Coverage
  <2> QED BY <1>1, <2>1, <2>3 DEF SettledTo
<1>4. (\A n \in 1 .. tip : n \in InFile \cup done \cup Excused)'
  BY <1>1, TipStands DEF Coverage
<1>5. /\ Stream!Seqs(handled)' = Stream!Seqs(handled) /\ Stream!Seqs(batch)' = Stream!Seqs(batch)
      /\ InFile' = InFile /\ Excused' = Excused
  BY <1>1, SameSeqs DEF InFile, Excused
<1>6. (\A n \in base + 1 .. nextSeq - 1 : n \in Stream!Seqs(handled) \cup Excused \cup (done \ InFile))'
  BY <1>1, <1>5 DEF Coverage
<1>7. (loop = "observer" => \A i \in 1 .. Len(batch) : \A n \in nextSeq .. batch[i].seq :
                               n \in Stream!Seqs(batch) \/ Absent(n))'
  <2>1. \A n : Absent(n) => Absent(n)'
    BY <1>1, <1>5 DEF Absent
  <2> QED BY <1>1, <1>5, <2>1 DEF Coverage
<1> QED BY <1>3, <1>4, <1>6, <1>7, Zenon DEF Coverage

\* The consumer takes a line, and gives up the one that was pending.
LEMMA OrderTakes ==
  ASSUME TypeInv, StreamOrder, Stream!WaitForNextTick, UNCHANGED tip
  PROVE  StreamOrder'
<1>1. /\ up /\ queue # << >>
      /\ pending' = Head(queue).seq /\ queue' = Tail(queue)
      /\ done' = done \cup ({pending} \ {0})
      /\ UNCHANGED <<disk, cursor, nextSeq, symbols, loop, batch, up, base, handled>>
  BY DEF Stream!WaitForNextTick, Stream!loopVars
<1>2. /\ tip \in Nat /\ nextSeq \in Nat \ {0} /\ base \in Nat /\ pending \in Nat
      /\ queue \in Seq(Lines!Line) /\ handled \in Seq(Lines!Line)
  BY PipelineParts, StreamParts
<1>3. done \subseteq done' /\ (pending # 0 => pending \in done')
  BY <1>1
<1>4. PICK q : q = Tail(queue)
  OBVIOUS
<1>5. /\ q \in Seq(Lines!Line) /\ Len(q) \in Nat /\ Len(q) = Len(queue) - 1 /\ Len(queue) \in Nat
      /\ \A i \in 1 .. Len(q) : q[i] = queue[i + 1]
      /\ Head(queue) = queue[1]
  BY <1>1, <1>2, <1>4
<1>6. /\ 1 \in 1 .. Len(queue)
      /\ \A i \in 1 .. Len(q) : i + 1 \in 1 .. Len(queue) /\ 1 < i + 1
      /\ \A i \in 1 .. Len(queue) : i = 1 \/ (i - 1 \in 1 .. Len(q) /\ (i - 1) + 1 = i)
  BY <1>5
<1>7. /\ \A i \in 1 .. Len(queue) : base + 1 <= queue[i].seq /\ queue[i].seq <= nextSeq - 1
      /\ \A i, j \in 1 .. Len(queue) : i < j => queue[i].seq < queue[j].seq
      /\ \A i \in 1 .. Len(queue) : queue[i].seq \in Nat \ {0}
      /\ Stream!Seqs(queue) = {queue[i].seq : i \in 1 .. Len(queue)}
      /\ Stream!Seqs(q) = {q[i].seq : i \in 1 .. Len(q)}
      /\ Stream!Seqs(handled) = {handled[i].seq : i \in 1 .. Len(handled)}
      /\ \A i \in 1 .. Len(handled) : handled[i].seq \in Nat \ {0}
  BY <1>2, <1>5, SeqsAre DEF StreamOrder, Between
<1>8. Between(q, base + 1, nextSeq - 1)
  <2>1. ASSUME NEW i \in 1 .. Len(q), NEW j \in 1 .. Len(q), i < j PROVE q[i].seq < q[j].seq
    <3>1. i + 1 < j + 1
      BY <1>5, <2>1
    <3> QED BY <1>5, <1>6, <1>7, <3>1
  <2> QED BY <1>5, <1>6, <1>7, <2>1 DEF Between
<1>9. /\ base < queue[1].seq /\ queue[1].seq < nextSeq
      /\ \A i \in 1 .. Len(q) : queue[1].seq < q[i].seq
  <2>1. base < queue[1].seq /\ queue[1].seq < nextSeq
    BY <1>2, <1>6, <1>7
  <2> QED BY <1>5, <1>6, <1>7, <2>1
<1>10. Stream!Seqs(handled) \subseteq done' \cup Stream!Seqs(q) \cup {queue[1].seq}
  <2> SUFFICES ASSUME NEW n \in Stream!Seqs(handled), n \notin done'
               PROVE  n \in Stream!Seqs(q) \/ n = queue[1].seq
    OBVIOUS
  <2>1. n \in Stream!Seqs(queue)
    <3>1. n # 0
      BY <1>7
    <3>2. n # pending /\ n \notin done
      BY <1>3, <3>1
    <3> QED BY <3>2 DEF StreamOrder
  <2>2. PICK i \in 1 .. Len(queue) : n = queue[i].seq
    BY <1>7, <2>1
  <2>3. CASE i = 1
    BY <2>2, <2>3
  <2>4. CASE i # 1
    <3>1. PICK j \in 1 .. Len(q) : j + 1 = i
      BY <1>6, <2>4
    <3> QED BY <1>5, <1>7, <2>2, <3>1
  <2> QED BY <2>3, <2>4
<1>11. /\ Stream!Seqs(handled)' = Stream!Seqs(handled) /\ Stream!Seqs(queue)' = Stream!Seqs(q)
  BY <1>1, <1>4, SameSeqs
<1>12. /\ pending' = queue[1].seq /\ queue' = q
  BY <1>1, <1>4, <1>5
<1>13. /\ symbols' = {} /\ up'
       /\ base' < nextSeq' /\ cursor' < nextSeq' /\ (nextSeq' = base' + 1 \/ nextSeq' <= tip' + 1)
       /\ Between(handled, base + 1, nextSeq - 1)'
       /\ (loop = "observer" => ObserversYield /\ Between(batch, nextSeq, tip))'
  BY <1>1 DEF StreamOrder, Between
<1>14. /\ Between(queue, base + 1, nextSeq - 1)'
       /\ (pending > 0 => /\ base < pending /\ pending < nextSeq
                          /\ \A i \in 1 .. Len(queue) : pending < queue[i].seq)'
       /\ (Stream!Seqs(handled) \subseteq done \cup Stream!Seqs(queue) \cup {pending})'
  BY <1>1, <1>8, <1>9, <1>10, <1>11, <1>12 DEF Between
<1> QED BY <1>13, <1>14 DEF StreamOrder

\* The consumer marks a line: everything up to it is settled.
LEMMA OrderMarks ==
  ASSUME TypeInv, StreamOrder, Coverage, Stream!MarkProcessed, UNCHANGED <<file, tip, merged, givenUp>>
  PROVE  StreamOrder' /\ SettledTo(disk)' /\ done \subseteq done'
<1>1. /\ pending > 0 /\ pending' = 0 /\ held' = 0
      /\ \/ pending > cursor /\ cursor' = pending /\ disk' = pending
         \/ pending <= cursor /\ UNCHANGED <<cursor, disk>>
      /\ done' = done \cup {pending}
      /\ UNCHANGED <<nextSeq, symbols, queue, loop, batch, up, base, handled>>
  BY DEF Stream!MarkProcessed, Stream!loopVars
<1>2. /\ tip \in Nat /\ nextSeq \in Nat \ {0} /\ base \in Nat /\ pending \in Nat /\ disk \in Nat /\ cursor \in Nat
      /\ queue \in Seq(Lines!Line) /\ handled \in Seq(Lines!Line)
  BY PipelineParts, StreamParts
<1>3. /\ up /\ base < pending /\ pending < nextSeq /\ pending <= tip
      /\ \A i \in 1 .. Len(queue) : pending < queue[i].seq
  <2>1. up /\ base < pending /\ pending < nextSeq /\ (nextSeq = base + 1 \/ nextSeq <= tip + 1)
        /\ \A i \in 1 .. Len(queue) : pending < queue[i].seq
    BY <1>1 DEF StreamOrder
  <2> QED BY <1>2, <2>1
<1>4. RecordsStand /\ Excused' = Excused /\ tip' = tip
  BY RecordsUntouched DEF Excused
<1>5. ASSUME NEW n \in 1 .. pending PROVE n \in done' \/ n \in Excused'
  <2>1. CASE n <= base
    <3>1. n \in 1 .. base
      BY <1>2, <2>1
    <3>2. n \in done \cup Excused
      BY <3>1 DEF Coverage, SettledTo
    <3> QED BY <1>1, <1>4, <3>2
  <2>2. CASE ~(n <= base)
    <3>1. n \in base + 1 .. nextSeq - 1
      BY <1>2, <1>3, <2>2
    <3>2. n \in Stream!Seqs(handled) \/ n \in Excused \/ n \in done
      BY <3>1 DEF Coverage
    <3>3. n \in Stream!Seqs(handled) => n \in done \/ n \in Stream!Seqs(queue) \/ n = pending
      BY DEF StreamOrder
    <3>4. n \notin Stream!Seqs(queue)
      <4>1. /\ Stream!Seqs(queue) = {queue[i].seq : i \in 1 .. Len(queue)}
            /\ \A i \in 1 .. Len(queue) : queue[i].seq \in Nat
        BY <1>2, SeqsAre
      <4>2. \A i \in 1 .. Len(queue) : n # queue[i].seq
        BY <1>2, <1>3, <4>1
      <4> QED BY <4>1, <4>2
    <3> QED BY <1>1, <1>4, <3>2, <3>3, <3>4
  <2> QED BY <2>1, <2>2
<1>6. done \subseteq done'
  BY <1>1
<1>7. SettledTo(disk)'
  <2>1. CASE disk' = pending
    <3>1. disk' <= tip'
      BY <1>3, <1>4, <2>1
    <3> QED BY <1>5, <2>1, <3>1 DEF SettledTo
  <2>2. CASE disk' = disk
    <3>1. PICK d : d = disk
      OBVIOUS
    <3>2. d \in Nat /\ d <= disk
      BY <1>2, <3>1
    <3>3. SettledTo(d)'
      BY <1>2, <1>4, <1>6, <3>1, <3>2, SettledStands DEF Coverage
    <3> QED BY <2>2, <3>1, <3>3 DEF SettledTo
  <2> QED BY <1>1, <2>1, <2>2
<1>8. Stream!Seqs(handled)' = Stream!Seqs(handled) /\ Stream!Seqs(queue)' = Stream!Seqs(queue)
  BY <1>1, SameSeqs
<1>9. cursor' < nextSeq'
  BY <1>1, <1>2, <1>3 DEF StreamOrder
<1>10. /\ symbols' = {} /\ up' /\ pending' = 0
       /\ base' < nextSeq' /\ (nextSeq' = base' + 1 \/ nextSeq' <= tip' + 1)
       /\ Between(handled, base + 1, nextSeq - 1)' /\ Between(queue, base + 1, nextSeq - 1)'
       /\ (loop = "observer" => ObserversYield /\ Between(batch, nextSeq, tip))'
  BY <1>1, <1>3, <1>4 DEF StreamOrder, Between
<1>11. (Stream!Seqs(handled) \subseteq done \cup Stream!Seqs(queue) \cup {pending})'
  BY <1>1, <1>8 DEF StreamOrder
<1>12. StreamOrder'
  BY <1>9, <1>10, <1>11 DEF StreamOrder
<1> QED BY <1>6, <1>7, <1>12

\* A mark that fails or is not needed.
LEMMA OrderMarksNothing ==
  ASSUME TypeInv, StreamOrder, Stream!MarkInvalidated \/ Stream!MarkSaveFails, UNCHANGED tip
  PROVE  StreamOrder' /\ UNCHANGED disk /\ done \subseteq done'
<1>1. /\ cursor' = cursor \/ (pending > cursor /\ cursor' = pending)
      /\ held' = 0 /\ done \subseteq done'
      /\ UNCHANGED <<disk, nextSeq, symbols, queue, pending, loop, batch, up, base, handled>>
  BY DEF Stream!MarkInvalidated, Stream!MarkSaveFails, Stream!loopVars, Stream!bufferVars,
         Stream!consumerVars
<1>2. /\ nextSeq \in Nat \ {0} /\ pending \in Nat /\ disk \in Nat /\ cursor \in Nat
  BY StreamParts
<1>3. ~up' => /\ loop' = "off" /\ base' = 0 /\ nextSeq' = 1
              /\ queue' = << >> /\ held' = 0 /\ pending' = 0
  BY <1>1 DEF StreamOrder
<1>4. cursor' < nextSeq'
  BY <1>1, <1>2 DEF StreamOrder
<1>5. Stream!Seqs(handled)' = Stream!Seqs(handled) /\ Stream!Seqs(queue)' = Stream!Seqs(queue)
  BY <1>1, SameSeqs
<1>6. /\ symbols' = {}
      /\ base' < nextSeq' /\ (nextSeq' = base' + 1 \/ nextSeq' <= tip' + 1)
      /\ Between(handled, base + 1, nextSeq - 1)' /\ Between(queue, base + 1, nextSeq - 1)'
      /\ (pending > 0 => /\ base < pending /\ pending < nextSeq
                         /\ \A i \in 1 .. Len(queue) : pending < queue[i].seq)'
      /\ (loop = "observer" => ObserversYield /\ Between(batch, nextSeq, tip))'
      /\ (Stream!Seqs(handled) \subseteq done \cup Stream!Seqs(queue) \cup {pending})'
  BY <1>1, <1>5 DEF StreamOrder, Between
<1> QED BY <1>1, <1>3, <1>4, <1>6 DEF StreamOrder

\* A stream that starts at the cursor c, in a process that runs or does not.
LEMMA OrderFresh ==
  ASSUME NEW c \in Nat, Stream!Fresh(c), ~up' => c = 0
  PROVE  StreamOrder'
<1>1. /\ cursor' = c /\ nextSeq' = c + 1 /\ base' = c /\ symbols' = {}
      /\ queue' = << >> /\ handled' = << >> /\ pending' = 0 /\ held' = 0 /\ loop' = "off"
  BY DEF Stream!Fresh
<1>2. Len(queue') = 0 /\ Len(handled') = 0 /\ Stream!Seqs(handled)' = {}
  <2>1. Stream!Seqs(handled)' = {handled'[i].seq : i \in 1 .. Len(handled')}
    BY <1>1 DEF Stream!Seqs, Stream!Range
  <2> QED BY <1>1, <2>1
<1>3. base' < nextSeq' /\ cursor' < nextSeq' /\ nextSeq' = base' + 1
  BY <1>1
<1>4. Between(handled, base + 1, nextSeq - 1)' /\ Between(queue, base + 1, nextSeq - 1)'
  BY <1>2 DEF Between
<1> QED BY <1>1, <1>2, <1>3, <1>4 DEF StreamOrder

\* What is settled stays so when nothing of it is forgotten.
LEMMA SettledKeeps ==
  ASSUME NEW m \in Nat, SettledTo(m), UNCHANGED <<tip, merged>>, done \subseteq done',
         \A n \in 1 .. m : n \in givenUp => n \in givenUp'
  PROVE  SettledTo(m)'
  BY DEF SettledTo, Excused

\* Seeks forget only what is to be read again.
LEMMA RepositionKeeps ==
  ASSUME NEW r, NEW s, Repositioned(r, s)
  PROVE  \A n \in givenUp : n \in givenUp' \/ (~(n < s) /\ ~(n <= disk') /\ n \in InFile)
  BY DEF Repositioned

\* A stream that starts anew at c has nothing to account for but what is before.
LEMMA CoverageFresh ==
  ASSUME TypeInv, Coverage, NEW c \in Nat, base' = c, nextSeq' = c + 1, loop' # "observer",
         UNCHANGED <<file, tip, merged>>, done \subseteq done',
         \A n \in givenUp : n \in givenUp' \/ n \in InFile,
         SettledTo(c)', SettledTo(disk)'
  PROVE  Coverage'
<1>1. SettledTo(base)'
  BY DEF SettledTo
<1>2. (\A n \in 1 .. tip : n \in InFile \cup done \cup Excused)'
  <2>1. InFile' = InFile
    BY DEF InFile
  <2> QED BY <2>1 DEF Coverage, Excused
<1>3. (\A n \in base + 1 .. nextSeq - 1 : n \in Stream!Seqs(handled) \cup Excused \cup (done \ InFile))'
  <2>1. \A n \in base' + 1 .. nextSeq' - 1 : FALSE
    OBVIOUS
  <2> QED BY <2>1
<1> QED BY <1>1, <1>2, <1>3 DEF Coverage

\* The end of the process.
LEMMA CrashKeeps ==
  ASSUME TypeInv, Coverage, Crash
  PROVE  StreamOrder' /\ Coverage'
<1>1. /\ Stream!Fresh(0) /\ up' = FALSE /\ UNCHANGED <<file, tip, merged, givenUp, disk, done>>
      /\ base' = 0 /\ nextSeq' = 0 + 1 /\ loop' = "off"
  BY DEF Crash, StreamOnly, fileVars, Stream!Crash, Stream!Fresh
<1>2. disk \in Nat
  BY StreamParts
<1>3. SettledTo(0)' /\ SettledTo(disk)'
  <2>1. SettledTo(0)'
    BY DEF SettledTo
  <2>2. SettledTo(disk)'
    BY <1>1 DEF Coverage, SettledTo, Excused
  <2> QED BY <2>1, <2>2
<1>4. StreamOrder'
  BY <1>1, OrderFresh
<1>5. Coverage'
  BY <1>1, <1>3, CoverageFresh
<1> QED BY <1>4, <1>5

\* The start of the next.
LEMMA OpenKeeps ==
  ASSUME TypeInv, Coverage, Open
  PROVE  StreamOrder' /\ Coverage'
<1>1. PICK c : c = disk
  OBVIOUS
<1>2. /\ Stream!Fresh(c) /\ up' = TRUE /\ UNCHANGED <<file, tip, merged, disk, done>>
      /\ base' = c /\ nextSeq' = c + 1 /\ loop' = "off" /\ disk' = c /\ c \in Nat
  BY <1>1, StreamParts DEF Open, fileVars, Stream!Open, Stream!Fresh
<1>3. \A n \in givenUp : n \in givenUp' \/ (~(n < c + 1) /\ n \in InFile)
  BY <1>1, RepositionKeeps DEF Open
<1>4. SettledTo(c)' /\ SettledTo(disk)'
  <2>1. \A n \in 1 .. c : n \in givenUp => n \in givenUp'
    BY <1>2, <1>3
  <2>2. SettledTo(c)
    BY <1>1 DEF Coverage
  <2>3. SettledTo(c)'
    BY <1>2, <2>1, <2>2, SettledKeeps
  <2> QED BY <1>2, <2>3 DEF SettledTo
<1>5. StreamOrder'
  BY <1>2, OrderFresh
<1>6. Coverage'
  BY <1>2, <1>3, <1>4, CoverageFresh
<1> QED BY <1>5, <1>6

\* The cursor is set: what is before it counts as done.
LEMMA SetCursorKeeps ==
  ASSUME TypeInv, StreamOrder, Coverage, NoBatchIsStale, NEW c \in Cursors, SetCursor(c)
  PROVE  StreamOrder' /\ Coverage'
<1>1. /\ c \in Nat
      /\ cursor' = c /\ nextSeq' = c + 1 /\ (disk' = c \/ disk' = disk) /\ base' = c
      /\ pending' = 0 /\ queue' = << >> /\ handled' = << >> /\ done' = done \cup 1 .. c
      /\ up /\ UNCHANGED <<file, tip, merged, symbols, loop, up>>
  BY PipelineAssumption DEF SetCursor, Stream!SetCursor, Stream!SavesSought, Stream!loopVars, fileVars
<1>2. loop' # "observer"
  BY <1>1 DEF StreamOrder, NoBatchIsStale
<1>3. \A n \in givenUp : n \in givenUp' \/ (~(n <= disk') /\ n \in InFile)
  <2>1. CASE KeepsCursor(reader, file, c + 1)
    BY <2>1 DEF SetCursor
  <2>2. CASE ~KeepsCursor(reader, file, c + 1)
    <3>1. PICK r : r = reader'
      OBVIOUS
    <3>2. Repositioned(r, c + 1)
      BY <2>2, <3>1 DEF SetCursor
    <3> QED BY <3>2, RepositionKeeps
  <2> QED BY <2>1, <2>2
<1>4. SettledTo(c)' /\ SettledTo(disk)'
  <2>1. SettledTo(c)'
    BY <1>1 DEF SettledTo
  <2>2. ASSUME disk' = disk PROVE SettledTo(disk)'
    <3>1. PICK d \in Nat : d = disk
      BY StreamParts
    <3>2. \A n \in 1 .. d : n \in givenUp => n \in givenUp'
      BY <1>3, <2>2, <3>1
    <3>3. SettledTo(d)
      BY <3>1 DEF Coverage
    <3>4. SettledTo(d)'
      BY <1>1, <3>2, <3>3, SettledKeeps
    <3> QED BY <2>2, <3>1, <3>4 DEF SettledTo
  <2>3. ASSUME disk' = c PROVE SettledTo(disk)'
    BY <2>1, <2>3 DEF SettledTo
  <2> QED BY <1>1, <2>1, <2>2, <2>3
<1>5. StreamOrder'
  <2>1. Len(queue') = 0 /\ Len(handled') = 0 /\ Stream!Seqs(handled)' = {}
    <3>1. Stream!Seqs(handled)' = {handled'[i].seq : i \in 1 .. Len(handled')}
      BY <1>1 DEF Stream!Seqs, Stream!Range
    <3> QED BY <1>1, <3>1
  <2>2. Between(handled, base + 1, nextSeq - 1)' /\ Between(queue, base + 1, nextSeq - 1)'
    BY <2>1 DEF Between
  <2>3. base' < nextSeq' /\ cursor' < nextSeq' /\ nextSeq' = base' + 1
    BY <1>1
  <2>4. symbols' = {} /\ up'
    BY <1>1 DEF StreamOrder
  <2> QED BY <1>1, <1>2, <2>1, <2>2, <2>3, <2>4 DEF StreamOrder
<1>6. Coverage'
  BY <1>1, <1>2, <1>3, <1>4, CoverageFresh
<1> QED BY <1>5, <1>6

-----------------------------------------------------------------------------
(* What a poll does *)

\* Reading on does not measure the file again.
LEMMA ReadOnKeepsSize ==
  ASSUME NEW r \in ReaderType, NEW f
  PROVE  ReadOn(r, f).size = r.size
<1>1. \A q : q \in ReaderType => ClearWait(q).size = q.size
  BY DEF ClearWait, ReaderType
<1>2. PICK o : o = Max(LineStarts(f, r.off))
  OBVIOUS
<1>3. PICK m : m = Max({r.next} \cup {s + 1 : s \in Returned(r, f)})
  OBVIOUS
<1>4. PICK read : read = IF o = r.off THEN r ELSE ClearWait([r EXCEPT !.off = o, !.bol = o, !.next = m])
  OBVIOUS
<1>5. read.size = r.size /\ \A x, y : [read EXCEPT !.off = x, !.bol = y].size = r.size
  <2>1. /\ DOMAIN r = {"off", "next", "bol", "size", "wait", "index"}
        /\ r = [off |-> r.off, next |-> r.next, bol |-> r.bol, size |-> r.size,
                wait |-> r.wait, index |-> r.index]
    BY DEF ReaderType
  <2> QED BY <1>4, <2>1 DEF ClearWait
<1>6. ReadOn(r, f) = CASE o >= Len(f) -> read
                       [] o < Len(f) /\ SkipsNow(read, f, o) ->
                            ClearWait([read EXCEPT !.off = Len(f), !.bol = Len(f)])
                       [] OTHER -> [read EXCEPT !.wait = Waiting(read, f, o)]
  BY <1>2, <1>3, <1>4 DEF ReadOn
<1>7. /\ ClearWait([read EXCEPT !.off = Len(f), !.bol = Len(f)]).size = r.size
      /\ [read EXCEPT !.wait = Waiting(read, f, o)].size = r.size
  BY <1>5 DEF ClearWait
<1> QED BY <1>5, <1>6, <1>7

\* What is passed by the reader that the step leaves.
LEMMA PassedBy ==
  ASSUME NEW r, NEW X, PassedOnly(r, X), reader' = r, UNCHANGED <<file, tip, writing>>, X \subseteq Excused'
  PROVE  ReaderPassed'
  BY DEF PassedOnly, ReaderPassed

\* A poll that goes on passes what the reader passed, one that seeks nothing to be read.
LEMMA PreparedPasses ==
  ASSUME TypeInv, up, ReaderFits, ReaderPassed
  PROVE  /\ Prepared.off <= Len(file) /\ Prepared.index = reader.index
         /\ Rebinds => /\ PassedOnly(Prepared, GivenUp(Prepared))
                       /\ \A a \in 0 .. Len(file) - 1 :
                             RecordAt(file, a) /\ Bol(file, a) /\ a < Prepared.off => SeqAt(file, a) < nextSeq
         /\ ~Rebinds => PassedOnly(Prepared, Excused)
<1>1. /\ FileInv /\ reader.index \in Index /\ nextSeq \in Nat \ {0}
      /\ reader.index.era = rewrites /\ SoundIndex(reader.index)
      /\ reader.off <= Len(file) /\ reader.size <= Len(file)
      /\ PassedOnly(reader, Excused)
  BY PipelineParts, StreamParts DEF ReaderFits, ReaderPassed
<1>2. /\ Prepared.next = nextSeq /\ Prepared.index = reader.index
      /\ Rebinds => Landed(Prepared, file, reader.index, nextSeq)
      /\ ~Rebinds => Prepared.off = reader.off
  BY <1>1, PreparedFacts
<1>3. CASE Rebinds
  <2>1. Prepared.off <= Len(file) /\ PassedOnly(Prepared, GivenUp(Prepared))
    BY <1>1, <1>2, <1>3, LandedPasses
  <2>2. \A a \in 0 .. Len(file) - 1 :
           RecordAt(file, a) /\ Bol(file, a) /\ a < Prepared.off => SeqAt(file, a) < nextSeq
    BY <1>1, <1>2, <1>3 DEF Landed, SoundIndex
  <2> QED BY <1>2, <1>3, <2>1, <2>2
<1>4. CASE ~Rebinds
  <2>1. Prepared.off = reader.off /\ Prepared.next = reader.next
    BY <1>2, <1>4 DEF Rebinds
  <2>2. PassedOnly(Prepared, Excused)
    BY <1>1, <2>1 DEF PassedOnly
  <2> QED BY <1>1, <1>2, <1>4, <2>1, <2>2
<1> QED BY <1>3, <1>4

\* The reader after a poll, successful or not.
LEMMA ReaderPolls ==
  ASSUME TypeInv, up, ReaderFits, ReaderPassed, UNCHANGED <<fileVars, merged>>,
         UNCHANGED disk, NEW r, AfterPoll(r),
         \/ r = ReadOn(Prepared, file)
         \/ \E o \in LineStarts(file, Prepared.off) : r = ReadOn(Prepared, SubSeq(file, 1, o))
  PROVE  ReaderFits' /\ ReaderPassed' /\ RecordsStand
<1>1. /\ FileInv /\ file \in Seq(Cell) /\ Len(file) \in Nat
      /\ Prepared \in ReaderType /\ Prepared.bol = Prepared.off /\ Prepared.size = Len(file)
      /\ Prepared.off <= Len(file) /\ Prepared.index = reader.index
  BY PipelineParts, PreparedFacts, PreparedPasses
<1>2. UNCHANGED <<file, tip, writing, rewrites, published, merged>> /\ reader' = r
  BY DEF fileVars, AfterPoll
<1>3. PICK X : /\ PassedOnly(Prepared, X)
               /\ IF Rebinds THEN X = GivenUp(Prepared) ELSE X = Excused
  BY PreparedPasses
<1>4. /\ r \in ReaderType /\ r.off <= Len(file) /\ r.off >= Prepared.off
      /\ r.index = reader.index /\ r.size = Len(file) /\ PassedOnly(r, X \cup GivenUp(r))
  <2>1. CASE \E o \in LineStarts(file, Prepared.off) : r = ReadOn(Prepared, SubSeq(file, 1, o))
    <3>1. PICK o \in LineStarts(file, Prepared.off) : r = ReadOn(Prepared, SubSeq(file, 1, o))
      BY <2>1
    <3>2. /\ r \in ReaderType /\ r.bol = r.off /\ r.index = Prepared.index /\ r.size = Prepared.size
          /\ r.off >= Prepared.off /\ r.off <= Len(file) /\ PassedOnly(r, X)
      BY <1>1, <1>3, <3>1, BrokenReadPasses
    <3>3. PassedOnly(r, X \cup GivenUp(r))
      BY <3>2 DEF PassedOnly
    <3> QED BY <1>1, <3>2, <3>3
  <2>2. CASE r = ReadOn(Prepared, file)
    BY <1>1, <1>3, <2>2, ReadOnFacts, ReadOnPasses, ReadOnKeepsSize
  <2> QED BY <2>1, <2>2
<1>5. ReaderFits'
  <2>1. published.index.era = rewrites /\ reader.index.era = rewrites /\ SoundIndex(reader.index)
    BY DEF ReaderFits
  <2>2. PICK x : x = reader.index
    OBVIOUS
  <2>3. SoundIndex(x)'
    BY <1>2, <2>1, <2>2 DEF SoundIndex
  <2>4. SoundIndex(reader.index)'
    BY <1>2, <1>4, <2>2, <2>3 DEF SoundIndex
  <2> QED BY <1>1, <1>2, <1>4, <2>1, <2>4 DEF ReaderFits
<1>6. X \cup GivenUp(r) \subseteq Excused'
  <2>1. CASE Rebinds
    <3>1. GivenUp(r) \subseteq Excused'
      BY <2>1 DEF AfterPoll, Repositioned, Excused
    <3>2. GivenUp(Prepared) \subseteq GivenUp(r)
      <4>1. r.off \in Nat /\ Prepared.off \in Nat
        BY <1>1, <1>4, ReaderIsRaw, ReaderParts
      <4>2. Prepared.off = Len(file) => r.off = Len(file)
        BY <1>1, <1>4, <4>1
      <4> QED BY <4>2 DEF GivenUp
    <3> QED BY <1>3, <2>1, <3>1, <3>2
  <2>2. CASE ~Rebinds
    BY <1>2, <1>3, <2>2 DEF AfterPoll, Excused
  <2> QED BY <2>1, <2>2
<1>7. ReaderPassed'
  BY <1>2, <1>4, <1>6, PassedBy
<1>8. RecordsStand
  <2>1. CASE Rebinds
    <3>1. \A n \in givenUp : n \in givenUp' \/ (~(n < nextSeq) /\ ~(n <= disk') /\ n \in InFile)
      BY <2>1, RepositionKeeps DEF AfterPoll
    <3>2. \A n \in 1 .. tip : n \in givenUp => n \in givenUp' \/ (up /\ n >= nextSeq /\ n > disk /\ n \in InFile)
      <4>1. tip \in Nat /\ nextSeq \in Nat /\ disk \in Nat
        BY PipelineParts, StreamParts
      <4> QED BY <3>1, <4>1
    <3> QED BY <1>2, <3>2 DEF RecordsStand, InFile
  <2>2. CASE ~Rebinds
    BY <1>2, <2>2, RecordsUntouched DEF AfterPoll
  <2> QED BY <2>1, <2>2
<1> QED BY <1>5, <1>7, <1>8

\* The lines of a poll follow nextSeq and no other line is between them.
LEMMA PolledIs ==
  ASSUME TypeInv, up, Whole, ReaderFits, ReaderPassed, Coverage, Rebinds \/ Excused \subseteq Excused'
  PROVE  Between(Polled, nextSeq, tip) /\ Complete(Polled)
<1>1. /\ file \in Seq(Cell) /\ Len(file) \in Nat /\ tip \in Nat /\ nextSeq \in Nat \ {0}
      /\ RecordsInOrder
      /\ Prepared \in ReaderType /\ Prepared.off \in Nat /\ Prepared.next = nextSeq
      /\ Polled \in Seq(Lines!Line)
  <2>1. Prepared \in ReaderType /\ Prepared.next = nextSeq
    BY PreparedFacts
  <2>2. Prepared.off \in Nat
    BY <2>1, ReaderIsRaw, ReaderParts
  <2> QED BY <2>1, <2>2, PipelineParts, StreamParts, PolledFacts
<1>2. ASSUME NEW i \in 1 .. Len(Polled)
      PROVE  /\ Polled[i].seq \in Nat /\ nextSeq <= Polled[i].seq /\ Polled[i].seq <= tip
             /\ \E a \in 0 .. Len(file) - 1 :
                   a >= Prepared.off /\ RecordAt(file, a) /\ SeqAt(file, a) = Polled[i].seq
  <2>1. Polled[i].seq \in Returned(Prepared, file)
    BY PolledFacts
  <2>2. /\ Polled[i].seq >= nextSeq
        /\ \E a \in 0 .. Len(file) - 1 :
              a \in LineStarts(file, Prepared.off) /\ RecordAt(file, a) /\ Polled[i].seq = SeqAt(file, a)
    BY <1>1, <2>1, ReturnedFacts
  <2>3. PICK a \in 0 .. Len(file) - 1 :
           a \in LineStarts(file, Prepared.off) /\ RecordAt(file, a) /\ Polled[i].seq = SeqAt(file, a)
    BY <2>2
  <2>4. a >= Prepared.off /\ SeqAt(file, a) <= tip
    BY <1>1, <2>3, LineFacts DEF RecordsInOrder
  <2>5. Polled[i].seq \in Nat
    BY <1>1, SeqsAre
  <2> QED BY <1>1, <2>2, <2>3, <2>4, <2>5
<1>3. Between(Polled, nextSeq, tip)
  BY <1>2, PolledFacts DEF Between
<1>4. ASSUME NEW i \in 1 .. Len(Polled), NEW n \in nextSeq .. Polled[i].seq
      PROVE  n \in Stream!Seqs(Polled) \/ Absent(n) \/ (n < Polled[1].seq /\ n \in Excused')
  <2>1. n \in 1 .. tip /\ n >= nextSeq
    BY <1>1, <1>2
  <2>2. CASE n \notin InFile \/ n \in merged
    <3>1. n \in InFile \cup done \cup Excused
      BY <2>1 DEF Coverage
    <3> QED BY <2>2, <3>1 DEF Absent, Excused
  <2>3. CASE n \in InFile /\ n \notin merged
    <3>1. PICK a \in 0 .. Len(file) - 1 : RecordAt(file, a) /\ Bol(file, a) /\ SeqAt(file, a) = n
      BY <2>1, <2>3 DEF Whole
    <3>2. CASE a >= Prepared.off
      <4>1. a \in LineStarts(file, Prepared.off)
        <5>1. a \in Nat /\ a <= Len(file) /\ (a = Prepared.off \/ a > Prepared.off)
          BY <1>1, <3>2
        <5> QED BY <1>1, <3>1, <5>1, BolIsReached
      <4>2. \A c \in 0 .. Len(file) - 1 : RecordAt(file, c) /\ c < a => SeqAt(file, c) < SeqAt(file, a)
        BY <1>1, <3>1 DEF RecordsInOrder
      <4>3. n \in Returned(Prepared, file)
        BY <1>1, <2>1, <3>1, <4>1, <4>2, ReturnedFacts
      <4>4. PICK j \in 1 .. Len(Polled) : Polled[j].seq = n
        BY <4>3, PolledFacts
      <4> QED BY <1>1, <4>4, SeqsAre
    <3>3. CASE ~(a >= Prepared.off)
      <4>1. a < Prepared.off
        BY <1>1, <3>3
      <4>2. ~Rebinds
        <5>1. Rebinds => n < nextSeq
          BY <3>1, <4>1, PreparedPasses
        <5> QED BY <1>1, <2>1, <5>1
      <4>3. n \in Excused'
        <5>1. PassedOnly(Prepared, Excused)
          BY <4>2, PreparedPasses
        <5>2. n \in Excused
          BY <1>1, <2>1, <3>1, <4>1, <5>1 DEF PassedOnly
        <5> QED BY <4>2, <5>2
      <4>4. n < Polled[1].seq
        <5>1. 1 \in 1 .. Len(Polled)
          BY <1>1, SeqsAre
        <5>2. PICK c \in 0 .. Len(file) - 1 :
                 c >= Prepared.off /\ RecordAt(file, c) /\ SeqAt(file, c) = Polled[1].seq
          BY <1>2, <5>1
        <5>3. a < c
          BY <1>1, <4>1, <5>2
        <5> QED BY <1>1, <3>1, <5>2, <5>3 DEF RecordsInOrder
      <4> QED BY <4>3, <4>4
    <3> QED BY <3>2, <3>3
  <2> QED BY <2>2, <2>3
<1> QED BY <1>3, <1>4 DEF Complete

\* A poll that returns.
LEMMA PollKeeps ==
  ASSUME TypeInv, Whole, ReaderFits, ReaderPassed, StreamOrder, Coverage, Poll
  PROVE  ReaderFits' /\ ReaderPassed' /\ StreamOrder' /\ Coverage'
<1>1. /\ loop = "polling" /\ AfterPoll(ReadOn(Prepared, file)) /\ UNCHANGED <<fileVars, merged>>
      /\ UNCHANGED <<file, tip>>
      /\ IF Polled = << >> THEN UNCHANGED streamVars ELSE Stream!PollReturns(Polled)
  BY DEF Poll, fileVars
<1>2. up
  BY <1>1 DEF StreamOrder
<1>3. ASSUME UNCHANGED disk PROVE ReaderFits' /\ ReaderPassed' /\ RecordsStand
  BY <1>1, <1>2, <1>3, ReaderPolls
<1>4. CASE Polled = << >>
  <2>1. StreamStands /\ UNCHANGED disk
    BY <1>1, <1>4 DEF StreamStands, streamVars
  <2> QED BY <1>3, <2>1, OrderStays, CoverageStays
<1>5. CASE Polled # << >>
  <2>1. Lines!PollReturns(Polled)
    BY <1>1, <1>5, SameBatches
  <2>2. Lines!Batch(Polled) /\ UNCHANGED <<symbols, pending, held, up, base>>
    BY <2>1 DEF Lines!PollReturns, Lines!consumerVars
  <2>3. PICK k : TakesUpTo(Polled, k)
    BY <2>2, PolledFacts, BatchTakes
  <2>4. Rebinds \/ Excused \subseteq Excused'
    BY <1>1 DEF AfterPoll, Excused
  <2>5. Between(Polled, nextSeq, tip) /\ Complete(Polled) /\ Polled \in Seq(Lines!Line)
    BY <1>2, <2>4, PolledIs, PolledFacts
  <2>6. StreamOrder'
    BY <1>1, <1>2, <2>2, <2>3, <2>5, OrderBatch
  <2>7. ReaderFits' /\ ReaderPassed' /\ RecordsStand
    BY <1>3, <2>3 DEF TakesUpTo
  <2>8. Coverage'
    BY <1>1, <2>2, <2>3, <2>5, <2>7, CoverageBatch
  <2> QED BY <2>6, <2>7, <2>8
<1> QED BY <1>4, <1>5

\* A poll that fails.
LEMMA PollFailsKeeps ==
  ASSUME TypeInv, ReaderFits, ReaderPassed, StreamOrder, Coverage, PollFails
  PROVE  ReaderFits' /\ ReaderPassed' /\ StreamOrder' /\ Coverage'
<1>1. /\ UNCHANGED <<fileVars, merged>> /\ UNCHANGED disk /\ Stream!PollFails /\ loop = "polling"
      /\ \E o \in LineStarts(file, Prepared.off) : AfterPoll(ReadOn(Prepared, SubSeq(file, 1, o)))
  BY DEF PollFails, Stream!PollFails
<1>2. up
  BY <1>1 DEF StreamOrder
<1>3. ReaderFits' /\ ReaderPassed' /\ RecordsStand
  BY <1>1, <1>2, ReaderPolls
<1>4. StreamStands
  BY <1>1, ControlsStand
<1> QED BY <1>3, <1>4, OrderStays, CoverageStays

\* The loop goes on with what an observer interrupted.
LEMMA ObserverKeeps ==
  ASSUME TypeInv, StreamOrder, Coverage, Stream!ObserverReturns, UNCHANGED <<file, tip, merged, givenUp>>
  PROVE  StreamOrder' /\ Coverage'
<1>1. /\ loop = "observer" /\ Lines!Batch(batch) /\ UNCHANGED <<symbols, pending, held, up, base>>
  BY SameBatches DEF Lines!ObserverReturns, Lines!consumerVars
<1>2. up /\ Between(batch, nextSeq, tip) /\ batch \in Seq(Lines!Line)
  BY <1>1, StreamParts DEF StreamOrder
<1>3. Complete(batch)
  BY <1>1 DEF Complete, Coverage
<1>4. PICK k : TakesUpTo(batch, k)
  BY <1>1, <1>2, BatchTakes
<1>5. RecordsStand
  BY RecordsUntouched
<1>6. StreamOrder'
  BY <1>1, <1>2, <1>4, OrderBatch
<1>7. Coverage'
  BY <1>1, <1>2, <1>3, <1>4, <1>5, CoverageBatch
<1> QED BY <1>6, <1>7

-----------------------------------------------------------------------------
(* The steps of the collector *)

\* One piece more in the file.
LEMMA OnePieceMore ==
  ASSUME TypeInv, AppendPiece
  PROVE  /\ file' \in Seq(Cell) /\ Len(file') = Len(file) + 1
         /\ \A k \in 1 .. Len(file) : file'[k] = file[k]
         /\ file'[Len(file) + 1] = [seq |-> tip + 1, piece |-> writing + 1]
         /\ \A n : n \in InFile' <=> n \in InFile \/ n = tip + 1
         /\ tip + 1 \in Records /\ writing < Width[tip + 1]
         /\ \/ writing' = writing + 1 /\ tip' = tip
            \/ writing' = 0 /\ tip' = tip + 1 /\ writing + 1 = Width[tip + 1] /\ writing > 0
<1>1. /\ FileInv /\ WritePiece /\ file \in Seq(Cell) /\ Len(file) \in Nat /\ writing \in Nat /\ tip \in Nat
  BY PipelineParts DEF AppendPiece
<1>2. PICK h : h = file'
  OBVIOUS
<1>3. h \in Seq(Cell) /\ Len(h) = Len(file) + 1 /\ \A k \in 1 .. Len(file) : h[k] = file[k]
  BY <1>1, <1>2, PieceWritten
<1>4. h[Len(file) + 1] = [seq |-> tip + 1, piece |-> writing + 1]
  <2>1. PICK c : c = [seq |-> tip + 1, piece |-> writing + 1]
    OBVIOUS
  <2>2. h = Append(file, c)
    BY <1>1, <1>2, <2>1 DEF WritePiece
  <2> QED BY <1>1, <2>1, <2>2
<1>5. tip + 1 \in Records /\ Width[tip + 1] \in Nat /\ Width[tip + 1] > 1
  BY <1>1, RecordSizes DEF WritePiece
<1>6. \A n : n \in InFile' <=> n \in InFile \/ n = tip + 1
  <2>1. InFile = {file[k].seq : k \in 1 .. Len(file)}
    BY <1>1 DEF InFile, Range
  <2>2. InFile' = {h[k].seq : k \in 1 .. Len(h)}
    BY <1>2, <1>3 DEF InFile, Range
  <2>3. h[Len(file) + 1].seq = tip + 1
    BY <1>4
  <2>4. \A k \in 1 .. Len(h) : k \in 1 .. Len(file) \/ k = Len(file) + 1
    BY <1>1, <1>3
  <2>5. Len(file) + 1 \in 1 .. Len(h) /\ \A k \in 1 .. Len(file) : k \in 1 .. Len(h)
    BY <1>1, <1>3
  <2> QED BY <1>3, <2>1, <2>2, <2>3, <2>4, <2>5
<1>7. writing < Width[tip + 1]
  <2>1. CASE writing > 0
    BY <1>1, <2>1 DEF FileInv, LineBeingWritten
  <2>2. CASE writing = 0
    BY <1>5, <2>2
  <2> QED BY <1>1, <2>1, <2>2
<1>8. CASE writing + 1 = Width[tip + 1]
  <2>1. writing' = 0 /\ tip' = tip + 1
    BY <1>1, <1>8 DEF WritePiece
  <2>2. writing > 0
    BY <1>1, <1>5, <1>8
  <2> QED BY <1>2, <1>3, <1>4, <1>5, <1>6, <1>7, <1>8, <2>1, <2>2
<1>9. CASE writing + 1 # Width[tip + 1]
  <2>1. writing' = writing + 1 /\ tip' = tip
    BY <1>1, <1>9 DEF WritePiece
  <2> QED BY <1>2, <1>3, <1>4, <1>5, <1>6, <1>7, <2>1
<1> QED BY <1>8, <1>9

\* What is in it stays whole.
LEMMA WholeAppends ==
  ASSUME TypeInv, Whole, LineStarted, AppendPiece
  PROVE  Whole' /\ LineStarted'
<1>1. /\ file \in Seq(Cell) /\ Len(file) \in Nat /\ writing \in Nat /\ tip \in Nat
      /\ LineBeingWritten /\ writing <= Len(file)
  BY PipelineParts DEF LineBeingWritten
<1>2. PICK h : h = file'
  OBVIOUS
<1>3. /\ h \in Seq(Cell) /\ Len(h) = Len(file) + 1
      /\ \A k \in 1 .. Len(file) : h[k] = file[k]
      /\ h[Len(file) + 1] = [seq |-> tip + 1, piece |-> writing + 1]
      /\ \A n : n \in InFile' <=> n \in InFile \/ n = tip + 1
      /\ tip + 1 \in Records /\ writing < Width[tip + 1]
      /\ \/ writing' = writing + 1 /\ tip' = tip
         \/ writing' = 0 /\ tip' = tip + 1 /\ writing + 1 = Width[tip + 1] /\ writing > 0
  BY <1>2, OnePieceMore
<1>4. merged \subseteq merged' /\ (Torn => tip + 1 \in merged')
  BY DEF AppendPiece
<1>5. \A a \in 0 .. Len(file) : Bol(file, a) => Bol(h, a)
  <2>1. \A a \in 0 .. Len(file) : a = 0 \/ a \in 1 .. Len(file)
    BY <1>1
  <2> QED BY <1>3, <2>1 DEF Bol
<1>6. \A a \in 0 .. Len(file) - 1 : RecordAt(file, a) => RecordAt(h, a) /\ SeqAt(h, a) = SeqAt(file, a)
  <2> SUFFICES ASSUME NEW a \in 0 .. Len(file) - 1, RecordAt(file, a)
               PROVE  RecordAt(h, a) /\ SeqAt(h, a) = SeqAt(file, a)
    OBVIOUS
  <2>1. a \in Nat
    BY <1>1
  <2>2. a + Width[SeqAt(file, a)] <= Len(file)
    BY <1>1, <2>1, RecordParts
  <2>3. Len(file) <= Len(h) /\ Len(file) <= Len(file)
    BY <1>1, <1>3
  <2> QED BY <1>1, <1>3, <2>1, <2>2, <2>3, SameRecord
<1>7. ASSUME NEW n \in 1 .. tip, n \in InFile'
      PROVE  n \in merged' \/ \E a \in 0 .. Len(h) - 1 : RecordAt(h, a) /\ Bol(h, a) /\ SeqAt(h, a) = n
  <2>1. n \in InFile
    BY <1>1, <1>3, <1>7
  <2>2. CASE n \in merged
    BY <1>4, <2>2
  <2>3. CASE \E a \in 0 .. Len(file) - 1 : RecordAt(file, a) /\ Bol(file, a) /\ SeqAt(file, a) = n
    <3>1. PICK a \in 0 .. Len(file) - 1 : RecordAt(file, a) /\ Bol(file, a) /\ SeqAt(file, a) = n
      BY <2>3
    <3>2. a \in 0 .. Len(file) /\ a \in 0 .. Len(h) - 1
      BY <1>1, <1>3
    <3> QED BY <1>5, <1>6, <3>1, <3>2
  <2> QED BY <2>1, <2>2, <2>3 DEF Whole
<1>8. CASE writing' = writing + 1 /\ tip' = tip
  <2>1. Whole'
    BY <1>2, <1>7, <1>8 DEF Whole
  <2>2. Len(h) - writing' = Len(file) - writing
    BY <1>1, <1>3, <1>8
  <2>3. Bol(h, Len(file) - writing) \/ tip + 1 \in merged'
    <3>1. CASE writing > 0
      <4>1. Bol(file, Len(file) - writing) \/ tip + 1 \in merged
        BY <3>1 DEF LineStarted
      <4>2. Len(file) - writing \in 0 .. Len(file)
        BY <1>1
      <4> QED BY <1>4, <1>5, <4>1, <4>2
    <3>2. CASE writing = 0
      <4>1. Bol(file, Len(file)) \/ Torn
        <5>1. file = << >> => Len(file) = 0
          OBVIOUS
        <5> QED BY <3>2, <5>1 DEF Bol, Torn
      <4>2. Len(file) \in 0 .. Len(file) /\ Len(file) - writing = Len(file)
        BY <1>1, <3>2
      <4> QED BY <1>4, <1>5, <4>1, <4>2
    <3> QED BY <1>1, <3>1, <3>2
  <2>4. LineStarted'
    BY <1>2, <1>8, <2>2, <2>3 DEF LineStarted
  <2> QED BY <2>1, <2>4
<1>9. CASE writing' = 0 /\ tip' = tip + 1 /\ writing + 1 = Width[tip + 1] /\ writing > 0
  <2>1. LineStarted'
    BY <1>9 DEF LineStarted
  <2>2. PICK a : a = Len(file) - writing
    OBVIOUS
  <2>3. a \in 0 .. Len(file) /\ a \in 0 .. Len(h) - 1 /\ a + Width[tip + 1] = Len(h) /\ a < Len(h)
    <3>1. a \in 0 .. Len(file) /\ Len(h) = Len(file) + 1 /\ Len(h) \in Nat
      BY <1>1, <1>3, <2>2
    <3>2. a + Width[tip + 1] = Len(h)
      <4>1. a + (writing + 1) = Len(file) + 1
        BY <1>1, <2>2
      <4> QED BY <1>9, <3>1, <4>1
    <3> QED BY <1>1, <3>1, <3>2
  <2>4. \A k \in 1 .. Width[tip + 1] : h[a + k] = [seq |-> tip + 1, piece |-> k]
    <3> SUFFICES ASSUME NEW k \in 1 .. Width[tip + 1] PROVE h[a + k] = [seq |-> tip + 1, piece |-> k]
      OBVIOUS
    <3>1. CASE k \in 1 .. writing
      <4>1. file[a + k] = [seq |-> tip + 1, piece |-> k]
        BY <1>1, <2>2, <3>1 DEF LineBeingWritten
      <4>2. a + k \in 1 .. Len(file)
        BY <1>1, <2>2, <3>1
      <4> QED BY <1>3, <4>1, <4>2
    <3>2. CASE k \notin 1 .. writing
      <4>1. k = writing + 1 /\ a + k = Len(file) + 1
        BY <1>1, <1>9, <2>2, <3>2
      <4> QED BY <1>3, <4>1
    <3> QED BY <3>1, <3>2
  <2>5. RecordAt(h, a) /\ SeqAt(h, a) = tip + 1
    <3>1. 1 \in 1 .. Width[tip + 1]
      BY <1>1, <1>9
    <3>2. h[a + 1] = [seq |-> tip + 1, piece |-> 1]
      BY <2>4, <3>1
    <3>3. h[a + 1].seq = tip + 1
      BY <3>2
    <3> QED BY <2>3, <2>4, <3>3 DEF RecordAt, SeqAt
  <2>6. Bol(h, a) \/ tip + 1 \in merged'
    <3>1. Bol(file, a) \/ tip + 1 \in merged
      BY <1>9, <2>2 DEF LineStarted
    <3> QED BY <1>4, <1>5, <2>3, <3>1
  <2>7. ASSUME NEW n \in 1 .. tip + 1, n \in InFile'
        PROVE  n \in merged' \/ \E b \in 0 .. Len(h) - 1 : RecordAt(h, b) /\ Bol(h, b) /\ SeqAt(h, b) = n
    <3>1. CASE n = tip + 1
      BY <2>3, <2>5, <2>6, <3>1
    <3>2. CASE n # tip + 1
      <4>1. n \in 1 .. tip
        BY <1>1, <3>2
      <4> QED BY <1>7, <2>7, <4>1
    <3> QED BY <3>1, <3>2
  <2>8. Whole'
    BY <1>2, <1>9, <2>7 DEF Whole
  <2> QED BY <2>1, <2>8
<1> QED BY <1>3, <1>8, <1>9

\* The index of the reader goes on to fit while the file grows.
LEMMA ReaderFitsOn ==
  ASSUME TypeInv, ReaderFits, AppendPiece \/ DiesInLine \/ Publish
  PROVE  ReaderFits'
<1> SUFFICES ASSUME up' PROVE ReaderFits'
  BY DEF ReaderFits
<1>1. /\ FileInv /\ IndexesFit /\ reader.index \in Index /\ Len(file) \in Nat
      /\ reader.off \in Nat
  BY PipelineParts
<1>2. /\ WritePiece \/ DieInLine \/ Persist
      /\ up' = up /\ reader' = reader /\ rewrites' = rewrites
      /\ published' = published \/ published'.index = index
  <2>1. UNCHANGED <<reader, up>> /\ (WritePiece \/ DieInLine \/ Persist)
    BY DEF AppendPiece, DiesInLine, Publish, streamVars
  <2>2. WritePiece => rewrites' = rewrites /\ published' = published
    BY DEF WritePiece
  <2>3. DieInLine => rewrites' = rewrites /\ published' = published
    BY DEF DieInLine
  <2>4. Persist => rewrites' = rewrites /\ published'.index = index
    BY DEF Persist
  <2> QED BY <2>1, <2>2, <2>3, <2>4
<1>3. /\ published.index.era = rewrites /\ index.era = rewrites
      /\ reader.index.era = rewrites /\ SoundIndex(reader.index)
      /\ reader.off <= Len(file) /\ reader.size <= Len(file)
  BY <1>1, <1>2 DEF ReaderFits, IndexesFit
<1>4. PICK x \in Index : x = reader.index
  BY <1>1
<1>5. SoundIndex(x)'
  BY <1>1, <1>2, <1>3, <1>4, OldIndexes
<1>6. SoundIndex(reader.index)'
  BY <1>2, <1>4, <1>5 DEF SoundIndex
<1>7. Len(file') = Len(file) \/ Len(file') = Len(file) + 1
  <2>1. WritePiece => Len(file') = Len(file) + 1
    BY <1>1, PieceWritten
  <2> QED BY <1>2, <2>1 DEF DieInLine, Persist
<1>8. reader.size \in Int
  <2>1. reader \in ReaderType
    BY PipelineParts
  <2> QED BY <2>1 DEF ReaderType, None
<1>9. reader.off <= Len(file') /\ reader.size <= Len(file')
  BY <1>1, <1>3, <1>7, <1>8
<1> QED BY <1>2, <1>3, <1>6, <1>9 DEF ReaderFits

\* An append.
LEMMA AppendKeeps ==
  ASSUME TypeInv, Whole, LineStarted, ReaderFits, ReaderPassed, StreamOrder, Coverage, AppendPiece
  PROVE  Whole' /\ LineStarted' /\ ReaderFits' /\ ReaderPassed' /\ StreamOrder' /\ Coverage'
<1>1. /\ FileInv /\ WritePiece /\ file \in Seq(Cell) /\ Len(file) \in Nat /\ writing \in Nat /\ tip \in Nat
      /\ reader.off \in Nat
      /\ UNCHANGED <<reader, streamVars, givenUp>> /\ merged \subseteq merged'
      /\ UNCHANGED <<reader, givenUp, up>>
  BY PipelineParts DEF AppendPiece, streamVars
<1>2. PICK h : h = file'
  OBVIOUS
<1>3. /\ Len(h) = Len(file) + 1
      /\ \A k \in 1 .. Len(file) : h[k] = file[k]
      /\ \A n : n \in InFile' <=> n \in InFile \/ n = tip + 1
      /\ \/ writing' = writing + 1 /\ tip' = tip
         \/ writing' = 0 /\ tip' = tip + 1
  BY <1>2, OnePieceMore
<1>4. RecordsStand
  <2>1. tip' = tip \/ (tip' = tip + 1 /\ tip' \in InFile')
    BY <1>3
  <2>2. \A n \in 1 .. tip : n # tip + 1
    BY <1>1
  <2> QED BY <1>1, <1>3, <2>1, <2>2 DEF RecordsStand
<1>5. StreamStands
  BY <1>1 DEF StreamStands, streamVars
<1>6. ReaderPassed'
  <2> SUFFICES ASSUME up
               PROVE  PassedOnly(reader, Excused)'
    BY <1>1 DEF ReaderPassed
  <2>1. PassedOnly(reader, Excused) /\ reader.off <= Len(file)
    BY DEF ReaderPassed, ReaderFits
  <2>2. Excused \subseteq Excused'
    BY <1>1 DEF Excused
  <2>3. ASSUME NEW a \in 0 .. Len(h) - 1, RecordAt(h, a), Bol(h, a), a < reader.off, SeqAt(h, a) >= reader.next
        PROVE  SeqAt(h, a) \in Excused'
    <3>1. CASE a \in 0 .. Len(file) - 1 /\ RecordAt(file, a) /\ SeqAt(h, a) = SeqAt(file, a)
      <4>1. Bol(file, a)
        <5>1. a = 0 \/ a \in 1 .. Len(file)
          BY <1>1, <3>1
        <5> QED BY <1>3, <2>3, <5>1 DEF Bol
      <4> QED BY <2>1, <2>2, <2>3, <3>1, <4>1 DEF PassedOnly
    <3>2. CASE writing > 0 /\ a = Len(file) - writing /\ SeqAt(h, a) = tip + 1
      BY <2>1, <2>2, <2>3, <3>2 DEF PassedOnly
    <3> QED BY <1>1, <1>2, <2>3, <3>1, <3>2, PieceWritten
  <2>4. ASSUME writing' > 0, Len(h) - writing' < reader.off
        PROVE  tip' + 1 \in Excused'
    <3>1. writing' = writing + 1 /\ tip' = tip
      BY <1>3, <2>4
    <3>2. Len(file) - writing < reader.off
      BY <1>1, <1>3, <2>4, <3>1
    <3>3. writing > 0
      BY <1>1, <2>1, <3>2
    <3> QED BY <2>1, <2>2, <3>1, <3>2, <3>3 DEF PassedOnly
  <2> QED BY <1>1, <1>2, <2>3, <2>4 DEF PassedOnly
<1> QED BY <1>4, <1>5, <1>6, WholeAppends, ReaderFitsOn, OrderStays, CoverageStays

\* The end of the collector in the middle of a line, whose number is used again.
LEMMA DeathKeeps ==
  ASSUME TypeInv, Whole, LineStarted, ReaderFits, ReaderPassed, StreamOrder, Coverage, DiesInLine
  PROVE  Whole' /\ LineStarted' /\ ReaderFits' /\ ReaderPassed' /\ StreamOrder' /\ Coverage'
<1>1. /\ tip \in Nat /\ RecordsInOrder /\ file \in Seq(Cell)
      /\ UNCHANGED <<file, tip, reader, streamVars, up>> /\ writing' = 0
      /\ merged' = merged \ {tip + 1} /\ givenUp' = givenUp \ {tip + 1}
  BY PipelineParts DEF DiesInLine, DieInLine, streamVars
<1>2. \A n \in 1 .. tip : n # tip + 1
  BY <1>1
<1>3. Whole' /\ LineStarted'
  <2>1. InFile' = InFile
    BY <1>1 DEF InFile
  <2>2. Whole'
    BY <1>1, <1>2, <2>1 DEF Whole
  <2> QED BY <1>1, <2>2 DEF LineStarted
<1>4. ReaderPassed'
  <2> SUFFICES ASSUME up PROVE PassedOnly(reader, Excused)'
    BY <1>1 DEF ReaderPassed
  <2>1. \A a \in 0 .. Len(file) - 1 : RecordAt(file, a) => SeqAt(file, a) # tip + 1
    <3>1. \A a \in 0 .. Len(file) - 1 : RecordAt(file, a) => SeqAt(file, a) \in Nat /\ SeqAt(file, a) <= tip
      BY <1>1, RecordParts, RecordSizes DEF RecordsInOrder
    <3> QED BY <1>1, <3>1
  <2>2. \A n : n \in Excused /\ n # tip + 1 => n \in Excused'
    BY <1>1 DEF Excused
  <2>3. PassedOnly(reader, Excused)
    BY DEF ReaderPassed
  <2> QED BY <1>1, <2>1, <2>2, <2>3 DEF PassedOnly
<1>5. StreamStands /\ RecordsStand
  BY <1>1, <1>2 DEF StreamStands, RecordsStand, InFile, streamVars
<1> QED BY <1>3, <1>4, <1>5, ReaderFitsOn, OrderStays, CoverageStays

\* What is in the file is untouched.
LEMMA FileStands ==
  ASSUME Whole, LineStarted, UNCHANGED <<file, tip, writing, merged>>
  PROVE  Whole' /\ LineStarted'
  BY DEF Whole, LineStarted, InFile

\* The meta file is written.
LEMMA PublishKeeps ==
  ASSUME TypeInv, Whole, LineStarted, ReaderFits, ReaderPassed, StreamOrder, Coverage, Publish
  PROVE  Whole' /\ LineStarted' /\ ReaderFits' /\ ReaderPassed' /\ StreamOrder' /\ Coverage'
<1>1. UNCHANGED <<file, tip, writing, reader, givenUp, merged, streamVars, up>>
  BY DEF Publish, Persist, streamVars
<1>2. ReaderPassed'
  BY <1>1 DEF ReaderPassed, PassedOnly, Excused
<1>3. StreamStands /\ RecordsStand
  BY <1>1, RecordsUntouched DEF StreamStands, streamVars
<1> QED BY <1>1, <1>2, <1>3, FileStands, ReaderFitsOn, OrderStays, CoverageStays

\* A compaction up to what was processed, while no engine runs.
LEMMA CompactionKeeps ==
  ASSUME TypeInv, Whole, LineStarted, ReaderFits, ReaderPassed, StreamOrder, Coverage,
         NotUnderTheEngine, MaybeCompact
  PROVE  Whole' /\ LineStarted' /\ ReaderFits' /\ ReaderPassed' /\ StreamOrder' /\ Coverage'
<1>1. PICK m : m = disk - LagSeq
  OBVIOUS
<1>2. /\ ~up /\ Rewrite(m) /\ writing = 0
      /\ UNCHANGED <<reader, streamVars, givenUp, merged, tip, writing>>
      /\ UNCHANGED <<disk, cursor, nextSeq, symbols, queue, pending, held, loop, batch, up, base, handled, done>>
  BY <1>1 DEF MaybeCompact, NotUnderTheEngine, Rewrite, streamVars
<1>3. FileInv /\ tip \in Nat /\ disk \in Nat /\ LagSeq \in Nat /\ file \in Seq(Cell)
  BY PipelineParts, StreamParts, PipelineAssumption
<1>4. /\ InFile' \subseteq InFile
      /\ \A n \in InFile' : \E b \in 0 .. Len(file') - 1 :
            RecordAt(file', b) /\ Bol(file', b) /\ SeqAt(file', b) = n
      /\ \A a \in 0 .. Len(file) - 1 :
            RecordAt(file, a) /\ Bol(file, a) /\ SeqAt(file, a) >= m => SeqAt(file, a) \in InFile'
  BY <1>2, <1>3, RewriteKeepsRecords
<1>5. Whole' /\ LineStarted'
  <2>1. Whole'
    BY <1>4 DEF Whole
  <2> QED BY <1>2, <2>1 DEF LineStarted
<1>6. ReaderFits' /\ ReaderPassed'
  BY <1>2 DEF ReaderFits, ReaderPassed
<1>7. Stream!Seqs(handled)' = Stream!Seqs(handled) /\ Stream!Seqs(queue)' = Stream!Seqs(queue)
  BY <1>2, SameSeqs
<1>8. StreamOrder'
  <2>1. /\ symbols' = {} /\ ~up'
        /\ loop' = "off" /\ base' = 0 /\ nextSeq' = 1 /\ queue' = << >> /\ held' = 0 /\ pending' = 0
        /\ base' < nextSeq' /\ cursor' < nextSeq' /\ nextSeq' = base' + 1
    BY <1>2 DEF StreamOrder
  <2>2. Between(handled, base + 1, nextSeq - 1)' /\ Between(queue, base + 1, nextSeq - 1)'
    BY <1>2 DEF StreamOrder, Between
  <2>3. (Stream!Seqs(handled) \subseteq done \cup Stream!Seqs(queue) \cup {pending})'
    BY <1>2, <1>7 DEF StreamOrder
  <2> QED BY <2>1, <2>2, <2>3 DEF StreamOrder
<1>9. Excused' = Excused
  BY <1>2 DEF Excused
<1>10. ASSUME NEW n \in 1 .. tip PROVE n \in InFile' \/ n \in done \/ n \in Excused
  <2>1. n \in InFile \/ n \in done \/ n \in Excused
    BY DEF Coverage
  <2>2. CASE n \in InFile /\ n \notin merged
    <3>1. PICK a \in 0 .. Len(file) - 1 : RecordAt(file, a) /\ Bol(file, a) /\ SeqAt(file, a) = n
      BY <2>2 DEF Whole
    <3>2. CASE n >= m
      BY <1>4, <3>1, <3>2
    <3>3. CASE ~(n >= m)
      <4>1. n \in 1 .. disk
        BY <1>1, <1>3, <3>3
      <4> QED BY <4>1 DEF Coverage, SettledTo
    <3> QED BY <3>2, <3>3
  <2> QED BY <2>1, <2>2 DEF Excused
<1>11. Coverage'
  <2>1. SettledTo(disk)' /\ SettledTo(base)'
    BY <1>2, <1>9 DEF Coverage, SettledTo
  <2>2. (\A n \in 1 .. tip : n \in InFile \cup done \cup Excused)'
    BY <1>2, <1>9, <1>10
  <2>3. base' = 0 /\ nextSeq' = 1 /\ loop' = "off"
    BY <1>2 DEF StreamOrder
  <2>4. (\A n \in base + 1 .. nextSeq - 1 : n \in Stream!Seqs(handled) \cup Excused \cup (done \ InFile))'
    <3>1. \A n \in base' + 1 .. nextSeq' - 1 : FALSE
      BY <2>3
    <3> QED BY <3>1
  <2> QED BY <2>1, <2>2, <2>3, <2>4 DEF Coverage
<1> QED BY <1>5, <1>6, <1>8, <1>11

-----------------------------------------------------------------------------
(* The steps of the engine *)

\* A step of the stream alone leaves the reader where it is.
LEMMA ReaderStands ==
  ASSUME ReaderFits, ReaderPassed, UNCHANGED <<fileVars, reader, givenUp, merged>>, up' => up
  PROVE  ReaderFits' /\ ReaderPassed'
<1>1. UNCHANGED <<file, tip, writing, rewrites, published, reader, givenUp, merged>>
  BY DEF fileVars
<1>2. ReaderFits'
  BY <1>1 DEF ReaderFits, SoundIndex
<1>3. ReaderPassed'
  BY <1>1 DEF ReaderPassed, PassedOnly, Excused
<1> QED BY <1>2, <1>3

\* The reader of a new process.
LEMMA ReaderStarts ==
  ASSUME TypeInv, NotUnderTheEngine, Open
  PROVE  ReaderFits' /\ ReaderPassed'
<1>1. /\ Len(file) \in Nat /\ writing \in Nat /\ writing <= Len(file) /\ IndexesFit
  BY PipelineParts DEF LineBeingWritten
<1>2. /\ UNCHANGED <<file, tip, writing, rewrites, published>>
      /\ reader' = FreshReader(published) /\ index.era = published.index.era
  BY DEF Open, NotUnderTheEngine, Compacting, fileVars
<1>3. reader'.off = 0 /\ reader'.size = None /\ reader'.index = published.index
  BY <1>2 DEF FreshReader
<1>4. published.index.era = rewrites /\ SoundIndex(published.index)
  BY <1>1, <1>2 DEF IndexesFit
<1>5. ReaderFits'
  <2>1. SoundIndex(reader.index)'
    BY <1>2, <1>3, <1>4 DEF SoundIndex
  <2>2. reader'.off <= Len(file') /\ reader'.size <= Len(file')
    BY <1>1, <1>2, <1>3 DEF None
  <2> QED BY <1>2, <1>3, <1>4, <2>1, <2>2 DEF ReaderFits
<1>6. ReaderPassed'
  <2>1. \A a \in 0 .. Len(file') - 1 : ~(a < reader'.off)
    BY <1>3
  <2>2. ~(Len(file') - writing' < reader'.off)
    BY <1>1, <1>2, <1>3
  <2> QED BY <2>1, <2>2 DEF ReaderPassed, PassedOnly
<1> QED BY <1>5, <1>6

\* A seek with an index of the file as it is.
LEMMA ReaderSeeks ==
  ASSUME TypeInv, UNCHANGED <<fileVars, merged>>,
         NEW q, reader' = q, NEW x \in Index, SoundIndex(x), x.era = rewrites, published.index.era = rewrites,
         NEW s \in Nat \ {0}, Landed(q, file, x, s), q.size <= Len(file), GivenUp(q) \subseteq givenUp'
  PROVE  ReaderFits' /\ ReaderPassed'
<1>1. UNCHANGED <<file, tip, writing, rewrites, published, merged>>
  BY DEF fileVars
<1>2. q.off <= Len(file) /\ PassedOnly(q, GivenUp(q)) /\ q.index = x
  BY PipelineParts, LandedPasses DEF Landed
<1>3. SoundIndex(x)'
  BY <1>1 DEF SoundIndex
<1>4. SoundIndex(reader.index)'
  BY <1>1, <1>2, <1>3 DEF SoundIndex
<1>5. ReaderFits'
  BY <1>1, <1>2, <1>4 DEF ReaderFits
<1>6. GivenUp(q) \subseteq Excused'
  BY DEF Excused
<1>7. ReaderPassed'
  BY <1>1, <1>2, <1>6, PassedBy
<1> QED BY <1>5, <1>7

\* The reader of a stream whose cursor is set.
LEMMA ReaderIsSet ==
  ASSUME TypeInv, ReaderFits, ReaderPassed, NEW c \in Cursors, SetCursor(c)
  PROVE  ReaderFits' /\ ReaderPassed'
<1>1. /\ FileInv /\ file \in Seq(Cell) /\ reader \in RawReader /\ reader \in ReaderType
      /\ reader.bol = reader.off /\ reader.index \in Index /\ c + 1 \in Nat \ {0}
  BY PipelineParts, PipelineAssumption
<1>2. /\ up /\ UNCHANGED <<fileVars, merged>> /\ UNCHANGED <<file, tip, writing, rewrites, published, merged>>
  BY DEF SetCursor, Stream!SetCursor, fileVars
<1>3. PICK q : q = ResetFromSeq(reader, file, c + 1)
  OBVIOUS
<1>4. reader' = q /\ GivenUp(q) \subseteq givenUp'
  BY <1>3 DEF SetCursor, Repositioned
<1>5. /\ published.index.era = rewrites /\ reader.index.era = rewrites /\ SoundIndex(reader.index)
      /\ reader.off <= Len(file) /\ reader.size <= Len(file) /\ PassedOnly(reader, Excused)
  BY <1>2 DEF ReaderFits, ReaderPassed
<1>6. CASE KeepsCursor(reader, file, c + 1)
  <2>1. /\ q \in ReaderType /\ q.next = reader.next /\ q.index = reader.index /\ q.size = reader.size
        /\ q.off = IF Unended(file, reader.off) THEN Len(file) ELSE reader.off
    BY <1>1, <1>3, <1>6, ResetKeeps
  <2>2. q.off <= Len(file) /\ PassedOnly(q, Excused \cup GivenUp(q))
    BY <1>1, <1>5, <2>1, KeptPasses
  <2>3. Excused \cup GivenUp(q) \subseteq Excused'
    BY <1>2, <1>4, <1>6 DEF SetCursor, Excused
  <2>4. ReaderPassed'
    BY <1>2, <1>4, <2>2, <2>3, PassedBy
  <2>5. PICK x : x = reader.index
    OBVIOUS
  <2>6. SoundIndex(x)'
    BY <1>2, <1>5, <2>5 DEF SoundIndex
  <2>7. SoundIndex(reader.index)'
    BY <1>2, <1>4, <2>1, <2>5, <2>6 DEF SoundIndex
  <2>8. ReaderFits'
    BY <1>2, <1>4, <1>5, <2>1, <2>2, <2>7 DEF ReaderFits
  <2> QED BY <2>4, <2>8
<1>7. CASE ~KeepsCursor(reader, file, c + 1)
  <2>1. Landed(q, file, reader.index, c + 1) /\ q.size = reader.size
    BY <1>1, <1>3, <1>7, ResetMoves
  <2> QED BY <1>1, <1>2, <1>4, <1>5, <2>1, ReaderSeeks
<1> QED BY <1>6, <1>7

\* A forced resync.
LEMMA ResyncKeeps ==
  ASSUME TypeInv, ReaderFits, ReaderPassed, StreamOrder, Coverage, ForceTailResyncIfUnread
  PROVE  ReaderFits' /\ ReaderPassed' /\ StreamOrder' /\ Coverage'
<1>1. PICK m : m = [reader EXCEPT !.index = published.index]
  OBVIOUS
<1>2. /\ reader \in RawReader /\ published.index \in Index /\ file \in Seq(Cell)
      /\ nextSeq \in Nat \ {0} /\ IndexesFit /\ tip \in Nat
  BY PipelineParts, StreamParts
<1>3. m \in RawReader /\ m.index = published.index /\ m.size = reader.size
  BY <1>1, <1>2 DEF RawReader
<1>4. PICK q : q = ForceRebind(m, file, nextSeq)
  OBVIOUS
<1>5. Landed(q, file, published.index, nextSeq) /\ q.size = reader.size
  BY <1>2, <1>3, <1>4, RebindLands
<1>6. /\ up /\ reader' = q /\ Repositioned(q, nextSeq) /\ UNCHANGED <<fileVars, merged>>
      /\ UNCHANGED <<file, tip, merged>>
      /\ UNCHANGED <<disk, cursor, nextSeq, symbols, queue, pending, loop, batch, held, up, base, handled, done>>
  BY <1>1, <1>4 DEF ForceTailResyncIfUnread, fileVars
<1>7. GivenUp(q) \subseteq givenUp'
  BY <1>6 DEF Repositioned
<1>8. published.index.era = rewrites /\ SoundIndex(published.index) /\ reader.size <= Len(file)
  BY <1>2, <1>6 DEF ReaderFits, IndexesFit
<1>9. ReaderFits' /\ ReaderPassed'
  BY <1>2, <1>5, <1>6, <1>7, <1>8, ReaderSeeks
<1>10. StreamStands
  BY <1>6 DEF StreamStands
<1>11. RecordsStand
  <2>1. \A n \in givenUp : n \in givenUp' \/ (~(n < nextSeq) /\ ~(n <= disk') /\ n \in InFile)
    BY <1>6, RepositionKeeps
  <2>2. \A n \in 1 .. tip : n \in givenUp => n \in givenUp' \/ (up /\ n >= nextSeq /\ n > disk /\ n \in InFile)
    BY <1>2, <1>6, <2>1, StreamParts
  <2> QED BY <1>6, <2>2 DEF RecordsStand, InFile
<1> QED BY <1>9, <1>10, <1>11, OrderStays, CoverageStays

\* The clock of the reader.
LEMMA WaitKeeps ==
  ASSUME TypeInv, ReaderFits, ReaderPassed, StreamOrder, Coverage, WaitEnds
  PROVE  ReaderFits' /\ ReaderPassed' /\ StreamOrder' /\ Coverage'
<1>1. /\ reader' = [reader EXCEPT !.wait.ripe = TRUE] /\ UNCHANGED <<fileVars, streamVars, givenUp, merged>>
      /\ UNCHANGED <<file, tip, writing, rewrites, published, givenUp, merged, up>>
  BY DEF WaitEnds, fileVars, streamVars
<1>2. /\ reader'.off = reader.off /\ reader'.next = reader.next
      /\ reader'.index = reader.index /\ reader'.size = reader.size
  <2>1. reader \in ReaderType
    BY PipelineParts
  <2> QED BY <1>1, <2>1 DEF ReaderType
<1>3. ReaderFits'
  BY <1>1, <1>2 DEF ReaderFits, SoundIndex
<1>4. ReaderPassed'
  BY <1>1, <1>2 DEF ReaderPassed, PassedOnly, Excused
<1>5. StreamStands /\ RecordsStand
  BY <1>1, RecordsUntouched DEF StreamStands, streamVars
<1> QED BY <1>3, <1>4, <1>5, OrderStays, CoverageStays

\* The consumer.
LEMMA ConsumerKeeps ==
  ASSUME TypeInv, StreamOrder, Coverage, Stream!Consume, UNCHANGED <<file, tip, merged, givenUp>>
  PROVE  StreamOrder' /\ Coverage'
<1>1. ConsumerAlone
  BY DEF Stream!Consume, Stream!WaitForNextTick, Stream!MarkProcessed, Stream!MarkInvalidated,
         Stream!MarkSaveFails, Stream!loopVars, ConsumerAlone
<1>2. /\ StreamOrder'
      /\ done \subseteq done' /\ (UNCHANGED disk \/ SettledTo(disk)')
  <2>1. CASE Stream!WaitForNextTick
    BY <2>1, OrderTakes DEF Stream!WaitForNextTick
  <2>2. CASE Stream!MarkProcessed
    BY <2>2, OrderMarks
  <2>3. CASE Stream!MarkInvalidated \/ Stream!MarkSaveFails
    BY <2>3, OrderMarksNothing
  <2> QED BY <2>1, <2>2, <2>3 DEF Stream!Consume
<1>3. UNCHANGED disk => SettledTo(disk)'
  BY <1>2 DEF Coverage, SettledTo, Excused
<1>4. SettledTo(disk)' /\ done \subseteq done'
  BY <1>2, <1>3
<1>5. Coverage'
  BY <1>1, <1>4, CoverageConsumes
<1> QED BY <1>2, <1>5

\* The other steps of the stream.
LEMMA StreamKeeps ==
  ASSUME TypeInv, ReaderFits, ReaderPassed, StreamOrder, Coverage, StreamStep
  PROVE  ReaderFits' /\ ReaderPassed' /\ StreamOrder' /\ Coverage'
<1>1. UNCHANGED <<fileVars, reader, givenUp, merged>> /\ UNCHANGED <<file, tip, merged, givenUp>>
  BY DEF StreamStep, StreamOnly, fileVars
<1>2. CASE Stream!StartStreaming \/ Stream!CallbacksReturn \/ Stream!Stop \/ Stream!Cancelled
           \/ Stream!ObserverFails \/ Stream!LoopEnds
  <2>1. StreamStands
    BY <1>2, ControlsStand
  <2>2. RecordsStand
    BY <1>1, RecordsUntouched
  <2>3. up' => up
    BY <2>1 DEF StreamStands
  <2> QED BY <1>1, <2>1, <2>2, <2>3, ReaderStands, OrderStays, CoverageStays
<1>3. CASE Stream!ObserverReturns
  <2>1. up' => up
    BY <1>3 DEF Stream!ObserverReturns
  <2> QED BY <1>1, <1>3, <2>1, ReaderStands, ObserverKeeps
<1>4. CASE Stream!Consume
  <2>1. up' => up
    BY <1>4 DEF Stream!Consume, Stream!WaitForNextTick, Stream!MarkProcessed, Stream!MarkInvalidated,
         Stream!MarkSaveFails
  <2> QED BY <1>1, <1>4, <2>1, ReaderStands, ConsumerKeeps
<1> QED BY <1>2, <1>3, <1>4 DEF StreamStep, StreamOnly

-----------------------------------------------------------------------------
(* The theorems *)

\* The second invariant holds at the start.
LEMMA EngineStarts == Init => EngineInv
<1> SUFFICES ASSUME Init PROVE EngineInv
  OBVIOUS
<1>1. TypeInv
  BY TypesStart
<1>2. /\ file = << >> /\ tip = 0 /\ writing = 0 /\ rewrites = 0 /\ published.index = EmptyIndex
      /\ reader = FreshReader(published)
      /\ symbols = {} /\ up = TRUE /\ loop = "off" /\ disk = 0 /\ cursor = 0 /\ base = 0 /\ nextSeq = 1
      /\ queue = << >> /\ handled = << >> /\ pending = 0
  BY DEF Init, FileInit, Stream!Init
<1>3. Whole /\ LineStarted
  BY <1>2 DEF Whole, LineStarted
<1>4. reader.off = 0 /\ reader.size = None /\ reader.index = EmptyIndex /\ EmptyIndex.era = 0
  BY <1>2 DEF FreshReader, EmptyIndex
<1>5. ReaderFits
  <2>1. SoundIndex(published.index)
    BY <1>1, PipelineParts DEF IndexesFit
  <2>2. Len(file) = 0
    BY <1>2
  <2> QED BY <1>2, <1>4, <2>1, <2>2 DEF ReaderFits, None
<1>6. ReaderPassed
  BY <1>2, <1>4 DEF ReaderPassed, PassedOnly
<1>7. StreamOrder
  <2>1. Len(queue) = 0 /\ Len(handled) = 0 /\ Stream!Seqs(handled) = {}
    <3>1. Stream!Seqs(handled) = {handled[i].seq : i \in 1 .. Len(handled)}
      BY <1>2 DEF Stream!Seqs, Stream!Range
    <3> QED BY <1>2, <3>1
  <2>2. Between(handled, base + 1, nextSeq - 1) /\ Between(queue, base + 1, nextSeq - 1)
    BY <2>1 DEF Between
  <2> QED BY <1>2, <2>1, <2>2 DEF StreamOrder
<1>8. Coverage
  <2>1. SettledTo(0)
    BY DEF SettledTo
  <2>2. \A n \in base + 1 .. nextSeq - 1 : FALSE
    BY <1>2
  <2> QED BY <1>2, <2>1, <2>2 DEF Coverage
<1> QED BY <1>1, <1>3, <1>5, <1>6, <1>7, <1>8 DEF EngineInv

\* And holds on through every step.
LEMMA EngineKeeps ==
  ASSUME NotUnderTheEngine, NoBatchIsStale, EngineInv, [Next]_vars
  PROVE  EngineInv'
<1>1. TypeInv /\ Whole /\ LineStarted /\ ReaderFits /\ ReaderPassed /\ StreamOrder /\ Coverage
  BY DEF EngineInv
<1>2. TypeInv'
  BY <1>1, TypesKeep
<1>3. ASSUME UNCHANGED <<file, tip, writing, merged>>, ReaderFits', ReaderPassed', StreamOrder', Coverage'
      PROVE  EngineInv'
  BY <1>1, <1>2, <1>3, FileStands DEF EngineInv
<1>4. CASE AppendPiece
  BY <1>1, <1>2, <1>4, AppendKeeps DEF EngineInv
<1>5. CASE DiesInLine
  BY <1>1, <1>2, <1>5, DeathKeeps DEF EngineInv
<1>6. CASE Publish
  BY <1>1, <1>2, <1>6, PublishKeeps DEF EngineInv
<1>7. CASE MaybeCompact
  BY <1>1, <1>2, <1>7, CompactionKeeps DEF EngineInv
<1>8. CASE Crash
  <2>1. UNCHANGED <<fileVars, reader, givenUp, merged>> /\ up' = FALSE /\ UNCHANGED <<file, tip, writing, merged>>
    BY <1>8 DEF Crash, StreamOnly, Stream!Crash, fileVars
  <2>2. ReaderFits' /\ ReaderPassed'
    BY <2>1 DEF ReaderFits, ReaderPassed
  <2> QED BY <1>1, <1>3, <1>8, <2>1, <2>2, CrashKeeps
<1>9. CASE Open
  BY <1>1, <1>3, <1>9, ReaderStarts, OpenKeeps DEF Open, fileVars
<1>10. CASE Poll
  BY <1>1, <1>3, <1>10, PollKeeps DEF Poll, fileVars
<1>11. CASE PollFails
  BY <1>1, <1>3, <1>11, PollFailsKeeps DEF PollFails, fileVars
<1>12. CASE WaitEnds
  BY <1>1, <1>3, <1>12, WaitKeeps DEF WaitEnds, fileVars
<1>13. CASE \E c \in Cursors : SetCursor(c)
  <2>1. PICK c \in Cursors : SetCursor(c)
    BY <1>13
  <2>2. UNCHANGED <<file, tip, writing, merged>>
    BY <2>1 DEF SetCursor, fileVars
  <2>3. ReaderFits' /\ ReaderPassed'
    BY <1>1, <2>1, ReaderIsSet
  <2>4. StreamOrder' /\ Coverage'
    BY <1>1, <2>1, SetCursorKeeps
  <2> QED BY <1>3, <2>2, <2>3, <2>4
<1>14. CASE ForceTailResyncIfUnread
  BY <1>1, <1>3, <1>14, ResyncKeeps DEF ForceTailResyncIfUnread, fileVars
<1>15. CASE StreamStep
  BY <1>1, <1>3, <1>15, StreamKeeps DEF StreamStep, StreamOnly, fileVars
<1>16. CASE UNCHANGED vars
  <2>1. /\ UNCHANGED <<fileVars, reader, givenUp, merged>>
        /\ UNCHANGED <<file, tip, writing, merged, givenUp, streamVars>>
    BY <1>16 DEF vars, fileVars
  <2>2. StreamStands /\ RecordsStand /\ (up' => up)
    BY <2>1, RecordsUntouched DEF StreamStands, streamVars
  <2> QED BY <1>1, <1>3, <2>1, <2>2, ReaderStands, OrderStays, CoverageStays
<1> QED BY <1>4, <1>5, <1>6, <1>7, <1>8, <1>9, <1>10, <1>11, <1>12, <1>13, <1>14, <1>15, <1>16 DEF Next

\* The second inductive invariant of the pipeline.
THEOREM EngineInvariant ==
  ASSUME NotUnderTheEngine, NoBatchIsStale
  PROVE  Spec => []EngineInv
<1>1. EngineInv /\ [Next]_vars => EngineInv'
  BY EngineKeeps
<1> QED BY <1>1, EngineStarts, PTL DEF Spec

\* Whatever bytes the reader was sent to by a restart, an error in the middle of a
\* batch, set_cursor or a forced resync, the stream handles every record up to nextSeq,
\* in order and each once, but those that were found half-written or merged with a torn line.
THEOREM HandledInOrder ==
  ASSUME NotUnderTheEngine, NoBatchIsStale
  PROVE  Spec => []HandledWithoutGaps
<1>1. EngineInv => HandledWithoutGaps
  <2> SUFFICES ASSUME EngineInv PROVE HandledWithoutGaps
    OBVIOUS
  <2>1. TypeInv /\ StreamOrder /\ Coverage
    BY DEF EngineInv
  <2>2. DOMAIN handled = 1 .. Len(handled)
    BY <2>1, StreamParts
  <2>3. \A i, j \in DOMAIN handled : i < j => handled[i].seq < handled[j].seq
    BY <2>1, <2>2 DEF StreamOrder, Between
  <2>4. (base + 1) .. (nextSeq - 1) \subseteq Stream!Seqs(handled) \cup Excused \cup (done \ InFile)
    BY <2>1 DEF Coverage
  <2> QED BY <2>3, <2>4 DEF HandledWithoutGaps
<1> QED BY <1>1, EngineInvariant, PTL

\* No record is lost between the collector and the engine: what is below the saved
\* cursor was dealt with, and what is not in the file any more too.
THEOREM NoRecordIsLost ==
  ASSUME NotUnderTheEngine, NoBatchIsStale
  PROVE  Spec => []NothingLost
<1>1. EngineInv => NothingLost
  BY DEF EngineInv, Coverage, SettledTo, NothingLost
<1> QED BY <1>1, EngineInvariant, PTL

================================================================================
