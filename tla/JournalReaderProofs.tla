-------------------------- MODULE JournalReaderProofs --------------------------
(***************************************************************************)
(* Theorems about the reader: its types, and that it passes no complete    *)
(* record that it does not return, unless it gave the record up while it   *)
(* was being written or the file was rewritten unseen.                     *)
(***************************************************************************)
EXTENDS JournalReader, ReaderStepsProofs

-----------------------------------------------------------------------------
(* The invariant *)

\* Records the reader owes nobody.
Accounted(s) == s < from \/ s \in got \cup excused

CursorInv ==
    /\ skips \subseteq 0 .. reader.off
    /\ reader.next <= tip + 1
    /\ ~rewritten => reader.off <= Len(file)

\* Nothing is owed of a rewritten file before the reader has measured it.
RewrittenInv ==
    rewritten =>
        /\ \A a \in 0 .. Len(file) - 1 : RecordAt(file, a) => SeqAt(file, a) \in excused
        /\ writing > 0 => tip + 1 \in excused

\* The records that begin before the cursor, or are before the next seq, are
\* accounted for, and so is the one being written once the cursor is in it.
PassedInv ==
    /\ \A a \in 0 .. Len(file) - 1 :
          /\ RecordAt(file, a) /\ IsBol(a)
          /\ a < reader.off \/ SeqAt(file, a) < reader.next
          => Accounted(SeqAt(file, a))
    /\ /\ writing > 0
       /\ Len(file) - writing < reader.off
       /\ IsBol(Len(file) - writing)
       => Accounted(tip + 1)

ReaderInv ==
    /\ TypeOK
    /\ LineBeingWritten /\ RecordsInOrder
    /\ IndexesFit /\ SoundIndex(reader.index)
    /\ CursorInv /\ RewrittenInv /\ PassedInv

\* The types, one by one.
LEMMA TypeParts ==
  ASSUME TypeOK
  PROVE  /\ FileTypeOK
         /\ reader \in ReaderType /\ reader \in RawReader /\ reader.bol = reader.off
         /\ reader.off \in Nat /\ reader.next \in Nat \ {0} /\ reader.index \in Index
         /\ pc \in {"idle", "measured"}
         /\ got \subseteq Records /\ from \in Nat /\ skips \subseteq Nat /\ excused \subseteq Records
         /\ rewritten \in BOOLEAN /\ seeks \in 0 .. MaxSeeks
<1>1. reader \in ReaderType /\ reader.bol = reader.off
  BY DEF TypeOK
<1>2. reader \in RawReader
  BY <1>1, ReaderIsRaw
<1>3. reader.off \in Nat /\ reader.next \in Nat \ {0} /\ reader.index \in Index
  BY <1>2, ReaderParts
<1>4. /\ FileTypeOK /\ pc \in {"idle", "measured"}
      /\ got \subseteq Records /\ from \in Nat /\ skips \subseteq Nat /\ excused \subseteq Records
      /\ rewritten \in BOOLEAN /\ seeks \in 0 .. MaxSeeks
  BY DEF TypeOK
<1> QED BY <1>1, <1>2, <1>3, <1>4

\* What the reader may give up, or find rewritten, is a record.
LEMMA HistoryTypes ==
  ASSUME FileInv
  PROVE  /\ \A r : GivenUp(r) \subseteq Records
         /\ InFile \subseteq Records
         /\ \A k \in 1 .. Len(file) : file[k].seq \in InFile
         /\ \A a \in 0 .. Len(file) - 1 : SeqAt(file, a) \in InFile
<1>1. file \in Seq(Cell) /\ Len(file) \in Nat
  BY FileParts DEF FileInv
<1>2. \A r : GivenUp(r) \subseteq Records
  BY DEF GivenUp, FileInv, LineBeingWritten
<1>3. Range(file) = {file[k] : k \in 1 .. Len(file)}
  BY <1>1 DEF Range
<1>4. \A k \in 1 .. Len(file) : file[k].seq \in InFile
  BY <1>3 DEF InFile
<1>5. InFile \subseteq Records
  <2> SUFFICES ASSUME NEW s \in InFile PROVE s \in Records
    OBVIOUS
  <2>1. PICK k \in 1 .. Len(file) : s = file[k].seq
    BY <1>3 DEF InFile
  <2> QED BY <1>1, <2>1, CellParts
<1>6. \A a \in 0 .. Len(file) - 1 : SeqAt(file, a) \in InFile
  BY <1>1, <1>4 DEF SeqAt
<1> QED BY <1>2, <1>4, <1>5, <1>6

\* The parts of the file's invariant in the reader's.
LEMMA InvParts ==
  ASSUME ReaderInv
  PROVE  /\ TypeOK /\ FileInv /\ IndexesFit
         /\ file \in Seq(Cell) /\ Len(file) \in Nat /\ tip \in Nat /\ writing \in Nat
         /\ rewrites \in Nat
<1>1. TypeOK /\ FileInv /\ IndexesFit
  BY TypeParts DEF ReaderInv, FileInv
<1> QED BY <1>1, FileParts DEF FileInv

-----------------------------------------------------------------------------
(* The steps of the reader *)

\* The offsets of fragments left behind are line starts nobody else sees.
LEMMA SkippedFacts ==
  ASSUME ReaderInv, NEW r \in ReaderType
  PROVE  \A a \in Skipped(r) : a = r.off /\ a = Len(file) /\ a \in Nat
<1>1. r.off \in Nat
  BY ReaderIsRaw, ReaderParts
<1> QED BY <1>1 DEF Skipped

\* A seek leaves nothing from its seq on behind, if its index fits the file
\* or all of the file is excused.
LEMMA SoughtSafe ==
  ASSUME ReaderInv, UNCHANGED fileVars,
         NEW s \in Nat \ {0}, s <= tip + 1, NEW x \in Index, SoundIndex(x),
         Landed(reader', file, x, s),
         skips' = Skipped(reader'), rewritten' = FALSE,
         GivenUp(reader') \subseteq excused', x.era = rewrites \/ InFile \subseteq excused',
         \A a \in 0 .. Len(file) - 1 : RecordAt(file, a) /\ SeqAt(file, a) < s =>
            SeqAt(file, a) < from' \/ SeqAt(file, a) \in got' \cup excused'
  PROVE  CursorInv' /\ RewrittenInv' /\ PassedInv' /\ SoundIndex(reader.index)'
<1>1. /\ file \in Seq(Cell) /\ Len(file) \in Nat /\ tip \in Nat /\ writing \in Nat
      /\ FileInv
  BY InvParts
<1>2. file' = file /\ tip' = tip /\ writing' = writing /\ rewrites' = rewrites
  BY DEF fileVars
<1>3. PICK q \in ReaderType : q = reader'
  BY DEF Landed
<1>4. /\ q.next = s /\ q.index = x /\ Landing(file, q.off) /\ q.off \in Nat
      /\ SoundFor(file, x.entries) =>
            \A a \in 0 .. Len(file) - 1 :
               RecordAt(file, a) /\ Bol(file, a) /\ a < q.off => SeqAt(file, a) < s
  BY <1>3, ReaderIsRaw, ReaderParts DEF Landed
<1>5. \A a \in skips' : a = q.off /\ a = Len(file) /\ a \in Nat
  BY <1>3, SkippedFacts
<1>6. q.off <= Len(file)
  BY <1>4 DEF Landing
<1>7. CursorInv'
  <2>1. skips' \subseteq 0 .. q.off
    BY <1>4, <1>5
  <2> QED BY <1>2, <1>3, <1>4, <1>6, <2>1 DEF CursorInv
<1>8. RewrittenInv'
  BY DEF RewrittenInv
<1>9. ASSUME NEW a \in 0 .. Len(file) - 1, RecordAt(file, a), a = 0 \/ IsEnd(file[a]) \/ a \in skips',
             a < q.off \/ SeqAt(file, a) < q.next
      PROVE  SeqAt(file, a) < from' \/ SeqAt(file, a) \in got' \cup excused'
  <2>1. CASE SeqAt(file, a) < s
    BY <1>9, <2>1
  <2>2. CASE ~(SeqAt(file, a) < s)
    <3>1. a < q.off
      BY <1>4, <1>9, <2>2
    <3>2. Bol(file, a)
      <4>1. a \notin skips'
        BY <1>1, <1>5
      <4> QED BY <1>9, <4>1 DEF Bol
    <3>3. x.era # rewrites
      BY <1>4, <1>9, <2>2, <3>1, <3>2 DEF SoundIndex
    <3> QED BY <1>1, <3>3, HistoryTypes
  <2> QED BY <2>1, <2>2
<1>10. ASSUME writing > 0, Len(file) - writing < q.off
       PROVE  tip + 1 \in excused'
  <2>1. q.off = Len(file)
    BY <1>1, <1>4, <1>10, NotInTheLine
  <2> QED BY <1>3, <1>10, <2>1 DEF GivenUp
<1>11. PassedInv'
  BY <1>2, <1>3, <1>9, <1>10 DEF PassedInv, IsBol, Accounted
<1>12. SoundIndex(reader.index)'
  <2>1. reader'.index = x
    BY <1>3, <1>4
  <2> QED BY <1>2, <2>1 DEF SoundIndex
<1> QED BY <1>7, <1>8, <1>11, <1>12

\* A seek that keeps the cursor passes at most a fragment without an end.
LEMMA StayedSafe ==
  ASSUME ReaderInv, UNCHANGED fileVars, reader.off <= Len(file),
         reader' \in ReaderType, reader'.next = reader.next, reader'.index = reader.index,
         reader'.off = IF Unended(file, reader.off) THEN Len(file) ELSE reader.off,
         Stayed(reader')
  PROVE  CursorInv' /\ RewrittenInv' /\ PassedInv' /\ SoundIndex(reader.index)'
<1>1. /\ file \in Seq(Cell) /\ Len(file) \in Nat /\ tip \in Nat /\ writing \in Nat
      /\ TypeOK /\ CursorInv /\ RewrittenInv /\ PassedInv /\ SoundIndex(reader.index)
  BY InvParts DEF ReaderInv
<1>2. file' = file /\ tip' = tip /\ writing' = writing /\ rewrites' = rewrites
  BY DEF fileVars
<1>3. PICK q \in ReaderType : q = reader'
  OBVIOUS
<1>4. /\ skips' = skips \cup Skipped(q) /\ excused' = excused \cup GivenUp(q)
      /\ got' = got /\ from' = from /\ rewritten' = rewritten
  BY <1>3 DEF Stayed
<1>5. PICK o \in Nat : o = reader.off
  BY <1>1, TypeParts
<1>6. q.off = (IF Unended(file, o) THEN Len(file) ELSE o) /\ o <= Len(file) /\ q.next = reader.next
  BY <1>3, <1>5
<1>7. q.off \in Nat /\ q.off >= o /\ q.off <= Len(file)
  BY <1>1, <1>6
<1>8. \A a \in Skipped(q) : a = q.off /\ a = Len(file)
  BY SkippedFacts
<1>9. CursorInv'
  <2>1. skips' \subseteq 0 .. q.off
    <3>1. skips \subseteq 0 .. o
      BY <1>1, <1>5 DEF CursorInv
    <3>2. skips \subseteq 0 .. q.off
      BY <1>7, <3>1
    <3>3. Skipped(q) \subseteq 0 .. q.off
      BY <1>7, <1>8
    <3> QED BY <1>4, <3>2, <3>3
  <2>2. q.next <= tip + 1
    BY <1>1, <1>6 DEF CursorInv
  <2> QED BY <1>2, <1>3, <1>7, <2>1, <2>2 DEF CursorInv
<1>10. RewrittenInv'
  BY <1>1, <1>2, <1>4 DEF RewrittenInv
<1>11. ASSUME NEW a \in 0 .. Len(file) - 1, RecordAt(file, a), a = 0 \/ IsEnd(file[a]) \/ a \in skips',
              a < q.off \/ SeqAt(file, a) < q.next
       PROVE  SeqAt(file, a) < from \/ SeqAt(file, a) \in got \cup excused
  <2>1. a \in Nat /\ a # Len(file)
    BY <1>1
  <2>2. IsBol(a)
    BY <1>4, <1>8, <1>11, <2>1 DEF IsBol
  <2>3. CASE a < o \/ SeqAt(file, a) < reader.next
    BY <1>1, <1>5, <1>11, <2>2, <2>3 DEF PassedInv, Accounted
  <2>4. CASE ~(a < o) /\ ~(SeqAt(file, a) < reader.next)
    <3>1. a < q.off /\ a >= o
      BY <1>6, <1>11, <2>1, <2>4
    <3>2. ~Unended(file, o)
      BY <1>1, <1>11, <2>1, <3>1, RecordIsEnded
    <3> QED BY <1>6, <2>1, <3>1, <3>2
  <2> QED BY <2>3, <2>4
<1>12. ASSUME writing > 0, Len(file) - writing < q.off,
              LET b == Len(file) - writing IN b = 0 \/ IsEnd(file[b]) \/ b \in skips'
       PROVE  tip + 1 < from \/ tip + 1 \in got \cup excused'
  <2>1. CASE q.off = Len(file)
    <3>1. tip + 1 \in GivenUp(q)
      BY <1>12, <2>1 DEF GivenUp
    <3> QED BY <1>4, <3>1
  <2>2. CASE q.off # Len(file)
    <3>1. q.off = o
      BY <1>6, <2>2
    <3>2. IsBol(Len(file) - writing)
      <4>1. Len(file) - writing \notin Skipped(q)
        BY <1>8, <2>2
      <4> QED BY <1>4, <1>12, <4>1 DEF IsBol
    <3> QED BY <1>1, <1>4, <1>5, <1>12, <3>1, <3>2 DEF PassedInv, Accounted
  <2> QED BY <2>1, <2>2
<1>13. PassedInv'
  <2>1. excused \subseteq excused'
    BY <1>4
  <2> QED BY <1>2, <1>3, <1>4, <1>11, <1>12, <2>1 DEF PassedInv, IsBol, Accounted
<1>14. SoundIndex(reader.index)'
  BY <1>1, <1>2 DEF SoundIndex
<1> QED BY <1>9, <1>10, <1>13, <1>14

\* SetCursor, Restart and ForceTailResyncIfUnread.
LEMMA SeekKeeps ==
  ASSUME ReaderInv, Seek,
         reader' \in ReaderType, reader'.bol = reader'.off,
         CursorInv' /\ RewrittenInv' /\ PassedInv' /\ SoundIndex(reader.index)',
         got' \subseteq Records, from' \in Nat, skips' \subseteq Nat, excused' \subseteq Records,
         rewritten' \in BOOLEAN
  PROVE  ReaderInv'
<1>1. /\ UNCHANGED fileVars /\ pc' = pc /\ seeks' = seeks + 1 /\ seeks < MaxSeeks
  BY DEF Seek
<1>2. /\ file' = file /\ tip' = tip /\ writing' = writing /\ rewrites' = rewrites
      /\ index' = index /\ published' = published /\ torn' = torn
  BY <1>1 DEF fileVars
<1>3. FileTypeOK' /\ LineBeingWritten' /\ RecordsInOrder' /\ IndexesFit'
  BY <1>2 DEF ReaderInv, TypeOK, FileTypeOK, LineBeingWritten, RecordsInOrder, IndexesFit, SoundIndex
<1>4. seeks' \in 0 .. MaxSeeks /\ pc' \in {"idle", "measured"}
  BY <1>1, TypeParts, ReaderAssumption DEF ReaderInv
<1>5. TypeOK'
  BY <1>3, <1>4 DEF TypeOK
<1> QED BY <1>3, <1>5 DEF ReaderInv

\* The history of a seek.
LEMMA SoughtKeeps ==
  ASSUME ReaderInv, Seek, NEW s \in Nat \ {0}, s <= tip + 1,
         NEW x \in Index, SoundIndex(x), Landed(reader', file, x, s), Sought(reader', s)
  PROVE  ReaderInv'
<1>1. UNCHANGED fileVars
  BY DEF Seek
<1>2. /\ skips' = Skipped(reader') /\ rewritten' = FALSE /\ from' = s /\ got' = {}
      /\ excused' = GivenUp(reader') \cup IF reader'.index.era = rewrites THEN {} ELSE InFile
  BY DEF Sought
<1>3. reader' \in ReaderType /\ reader'.bol = reader'.off /\ reader'.index = x
  BY DEF Landed
<1>4. CursorInv' /\ RewrittenInv' /\ PassedInv' /\ SoundIndex(reader.index)'
  <2>1. GivenUp(reader') \subseteq excused' /\ (x.era = rewrites \/ InFile \subseteq excused')
    BY <1>2, <1>3
  <2> QED BY <1>1, <1>2, <2>1, SoughtSafe
<1>5. skips' \subseteq Nat /\ excused' \subseteq Records
  <2>1. FileInv
    BY InvParts
  <2>2. PICK q \in ReaderType : q = reader'
    BY <1>3
  <2>3. GivenUp(q) \subseteq Records /\ InFile \subseteq Records
    BY <2>1, HistoryTypes
  <2>4. Skipped(q) \subseteq Nat
    BY SkippedFacts
  <2> QED BY <1>2, <2>2, <2>3, <2>4
<1> QED BY <1>2, <1>3, <1>4, <1>5, SeekKeeps

\* A seek that keeps the cursor or moves it.
LEMMA SetCursorKeeps ==
  ASSUME ReaderInv, NEW s \in 1 .. tip + 1, SetCursor(s)
  PROVE  ReaderInv'
<1>1. /\ file \in Seq(Cell) /\ tip \in Nat /\ TypeOK /\ FileInv /\ SoundIndex(reader.index)
  BY InvParts DEF ReaderInv
<1>2. /\ reader \in RawReader /\ reader.bol = reader.off /\ reader.index \in Index
  BY <1>1, TypeParts
<1>3. s \in Nat \ {0} /\ s <= tip + 1
  BY <1>1
<1>4. Seek /\ reader' = ResetFromSeq(reader, file, s)
  BY DEF SetCursor
<1>5. CASE ~KeepsCursor(reader, file, s)
  <2>1. Sought(reader', s)
    BY <1>5 DEF SetCursor
  <2>2. Landed(reader', file, reader.index, s)
    BY <1>1, <1>2, <1>3, <1>4, <1>5, ResetMoves
  <2> QED BY <1>1, <1>2, <1>3, <1>4, <2>1, <2>2, SoughtKeeps
<1>6. CASE KeepsCursor(reader, file, s)
  <2>1. Stayed(reader')
    BY <1>6 DEF SetCursor
  <2>2. /\ reader.off <= Len(file)
        /\ reader' \in ReaderType /\ reader'.bol = reader'.off
        /\ reader'.next = reader.next /\ reader'.index = reader.index
        /\ reader'.off = IF Unended(file, reader.off) THEN Len(file) ELSE reader.off
    BY <1>1, <1>2, <1>3, <1>4, <1>6, ResetKeeps
  <2>3. CursorInv' /\ RewrittenInv' /\ PassedInv' /\ SoundIndex(reader.index)'
    <3>1. UNCHANGED fileVars
      BY <1>4 DEF Seek
    <3> QED BY <2>1, <2>2, <3>1, StayedSafe
  <2>4. /\ got' \subseteq Records /\ from' \in Nat /\ skips' \subseteq Nat /\ excused' \subseteq Records
        /\ rewritten' \in BOOLEAN
    <3>1. PICK q \in ReaderType : q = reader'
      BY <2>2
    <3>2. GivenUp(q) \subseteq Records /\ Skipped(q) \subseteq Nat
      BY <1>1, HistoryTypes, SkippedFacts
    <3>3. /\ skips' = skips \cup Skipped(q) /\ excused' = excused \cup GivenUp(q)
          /\ got' = got /\ from' = from /\ rewritten' = rewritten
      BY <2>1, <3>1 DEF Stayed
    <3> QED BY <1>1, <3>2, <3>3, TypeParts
  <2> QED BY <1>4, <2>2, <2>3, <2>4, SeekKeeps
<1> QED BY <1>5, <1>6

\* A new process seeks to its cursor.
LEMMA RestartKeeps ==
  ASSUME ReaderInv, NEW s \in 1 .. tip + 1, Restart(s)
  PROVE  ReaderInv'
<1>1. /\ file \in Seq(Cell) /\ Len(file) \in Nat /\ tip \in Nat /\ TypeOK /\ FileInv
  BY InvParts
<1>2. PICK x \in Index : x = published.index /\ SoundIndex(x)
  BY <1>1, FileParts DEF FileInv, ReaderInv, IndexesFit
<1>3. s \in Nat \ {0} /\ s <= tip + 1
  BY <1>1
<1>4. PICK r : r = FreshReader(published)
  OBVIOUS
<1>5. Seek /\ Sought(reader', s) /\ reader' = IF s = 1 THEN r ELSE ResetFromSeq(r, file, s)
  BY <1>4 DEF Restart
<1>6. /\ r \in ReaderType /\ r.off = 0 /\ r.bol = 0 /\ r.next = 1 /\ r.index = x
  <2>1. Idle \in WaitType
    BY IdleType
  <2> QED BY <1>2, <1>4, <2>1 DEF FreshReader, ReaderType, WaitType
<1>7. CASE s = 1
  <2>1. Landing(file, 0)
    BY <1>1 DEF Landing
  <2>2. Landed(r, file, x, 1)
    <3>1. \A a \in 0 .. Len(file) - 1 : ~(a < 0)
      BY <1>1
    <3> QED BY <1>6, <2>1, <3>1 DEF Landed
  <2> QED BY <1>2, <1>3, <1>5, <1>7, <2>2, SoughtKeeps
<1>8. CASE s # 1
  <2>1. ~KeepsCursor(r, file, s)
    BY <1>6, <1>8 DEF KeepsCursor
  <2>2. Landed(ResetFromSeq(r, file, s), file, x, s)
    <3>1. r \in RawReader
      BY <1>6, ReaderIsRaw
    <3> QED BY <1>1, <1>3, <1>6, <2>1, <3>1, ResetMoves
  <2> QED BY <1>2, <1>3, <1>5, <1>8, <2>2, SoughtKeeps
<1> QED BY <1>7, <1>8

\* A forced resync seeks with the published index.
LEMMA ForceTailResyncKeeps ==
  ASSUME ReaderInv, ForceTailResyncIfUnread
  PROVE  ReaderInv'
<1>1. /\ file \in Seq(Cell) /\ tip \in Nat /\ TypeOK /\ FileInv /\ CursorInv
  BY InvParts DEF ReaderInv
<1>2. PICK x \in Index : x = published.index /\ SoundIndex(x)
  BY <1>1, FileParts DEF FileInv, ReaderInv, IndexesFit
<1>3. reader \in RawReader /\ reader.next \in Nat \ {0} /\ reader.next <= tip + 1
  BY <1>1, TypeParts DEF CursorInv
<1>4. PICK m : m = [reader EXCEPT !.index = published.index]
  OBVIOUS
<1>5. m \in RawReader /\ m.index = x
  BY <1>2, <1>3, <1>4 DEF RawReader
<1>6. Seek /\ reader' = ForceRebind(m, file, reader.next) /\ Sought(reader', reader.next)
  BY <1>4 DEF ForceTailResyncIfUnread
<1>7. PICK s \in Nat \ {0} : s = reader.next
  BY <1>3
<1>8. Landed(reader', file, x, s)
  BY <1>1, <1>5, <1>6, <1>7, RebindLands
<1> QED BY <1>2, <1>3, <1>6, <1>7, <1>8, SoughtKeeps

\* The measuring of the file, which may find the cursor beyond its end.
LEMMA PollStartsKeeps ==
  ASSUME ReaderInv, PollStarts
  PROVE  ReaderInv'
<1>1. /\ file \in Seq(Cell) /\ Len(file) \in Nat /\ tip \in Nat /\ writing \in Nat /\ TypeOK
      /\ FileInv /\ CursorInv /\ RewrittenInv /\ PassedInv /\ SoundIndex(reader.index)
  BY InvParts DEF ReaderInv
<1>2. /\ UNCHANGED fileVars /\ pc' = "measured" /\ rewritten' = FALSE
      /\ got' = got /\ from' = from /\ seeks' = seeks
      /\ reader' = Resync(reader, file, published)
  BY DEF PollStarts
<1>3. /\ file' = file /\ tip' = tip /\ writing' = writing /\ rewrites' = rewrites
      /\ index' = index /\ published' = published /\ torn' = torn
  BY <1>2 DEF fileVars
<1>4. /\ reader \in RawReader /\ reader.bol = reader.off /\ reader.next \in Nat \ {0}
      /\ reader.off \in Nat
  BY <1>1, TypeParts
<1>5. FileTypeOK' /\ LineBeingWritten' /\ RecordsInOrder' /\ IndexesFit'
  BY <1>3 DEF ReaderInv, TypeOK, FileTypeOK, LineBeingWritten, RecordsInOrder, IndexesFit, SoundIndex
<1>6. got' \subseteq Records /\ from' \in Nat /\ seeks' \in 0 .. MaxSeeks
  BY <1>1, <1>2, TypeParts
<1>7. CASE reader.off > Len(file)
  <2>1. PICK x \in Index : x = published.index /\ SoundIndex(x)
    BY <1>1, FileParts DEF FileInv, ReaderInv, IndexesFit
  <2>2. PICK m : m = [reader EXCEPT !.index = published.index]
    OBVIOUS
  <2>3. m \in RawReader /\ m.index = x /\ m.off = reader.off
    BY <1>4, <2>1, <2>2 DEF RawReader
  <2>4. PICK s \in Nat \ {0} : s = reader.next /\ s <= tip + 1
    BY <1>1, <1>4 DEF CursorInv
  <2>5. ~KeepsCursor(m, file, s)
    BY <1>1, <1>4, <1>7, <2>3 DEF KeepsCursor
  <2>6. PICK r : r = ResetFromSeq(m, file, s)
    OBVIOUS
  <2>7. Landed(r, file, x, s)
    BY <1>1, <2>3, <2>4, <2>5, <2>6, ResetMoves
  <2>8. reader' = [r EXCEPT !.size = Len(file)]
    <3>1. ~(reader.off <= Len(file))
      BY <1>1, <1>4, <1>7
    <3>2. r = ResetFromSeq([reader EXCEPT !.index = published.index], file, reader.next)
      BY <2>2, <2>4, <2>6
    <3> QED BY <1>2, <1>7, <3>1, <3>2, Zenon DEF Resync
  <2>9. PICK q : q = reader'
    OBVIOUS
  <2>10. /\ q \in ReaderType /\ q.off = r.off /\ q.bol = r.bol /\ q.next = r.next
         /\ q.index = r.index
    BY <1>1, <2>7, <2>8, <2>9 DEF Landed, ReaderType
  <2>11. Landed(q, file, x, s)
    BY <2>7, <2>10 DEF Landed
  <2>12. /\ excused' = {n \in excused : n < s} \cup GivenUp(q)
                          \cup IF x.era = rewrites THEN {} ELSE InFile
         /\ skips' = Skipped(q)
    <3>1. q.index = x
      BY <2>7, <2>10 DEF Landed
    <3> QED BY <1>7, <2>4, <2>9, <3>1 DEF PollStarts
  <2>13. rewritten
    BY <1>1, <1>4, <1>7, TypeParts DEF CursorInv
  <2>14. ASSUME NEW a \in 0 .. Len(file) - 1, RecordAt(file, a), SeqAt(file, a) < s
         PROVE  SeqAt(file, a) \in excused'
    <3>1. SeqAt(file, a) \in excused
      BY <1>1, <2>13, <2>14 DEF RewrittenInv
    <3> QED BY <2>12, <2>14, <3>1
  <2>15. CursorInv' /\ RewrittenInv' /\ PassedInv' /\ SoundIndex(reader.index)'
    <3>1. GivenUp(reader') \subseteq excused' /\ (x.era = rewrites \/ InFile \subseteq excused')
      BY <2>9, <2>12
    <3>2. Landed(reader', file, x, s) /\ skips' = Skipped(reader')
      BY <2>9, <2>11, <2>12
    <3> QED BY <1>2, <2>1, <2>4, <2>14, <3>1, <3>2, SoughtSafe
  <2>16. skips' \subseteq Nat /\ excused' \subseteq Records
    <3>1. GivenUp(q) \subseteq Records /\ InFile \subseteq Records /\ Skipped(q) \subseteq Nat
      BY <1>1, <2>10, HistoryTypes, SkippedFacts
    <3>2. excused \subseteq Records
      BY <1>1, TypeParts
    <3> QED BY <2>12, <3>1, <3>2
  <2>17. reader' \in ReaderType /\ reader'.bol = reader'.off
    BY <2>9, <2>11 DEF Landed
  <2>18. TypeOK'
    BY <1>2, <1>5, <1>6, <2>16, <2>17 DEF TypeOK
  <2> QED BY <1>5, <2>15, <2>18 DEF ReaderInv
<1>8. CASE ~(reader.off > Len(file))
  <2>1. excused' = excused /\ skips' = skips
    BY <1>8 DEF PollStarts
  <2>2. PICK r : r = IF Len(file) < reader.size THEN Align(ClearWait(reader), file) ELSE reader
    OBVIOUS
  <2>3. reader' = [r EXCEPT !.size = Len(file)]
    <3>1. reader.off <= Len(file)
      BY <1>1, <1>4, <1>8
    <3>2. CASE Len(file) < reader.size
      BY <1>2, <1>8, <2>2, <3>1, <3>2 DEF Resync
    <3>3. CASE ~(Len(file) < reader.size)
      BY <1>2, <1>8, <2>2, <3>1, <3>3 DEF Resync
    <3> QED BY <3>2, <3>3
  <2>4. /\ r \in RawReader /\ r.off = reader.off /\ r.bol = reader.off
        /\ r.next = reader.next /\ r.index = reader.index
    <3>1. PICK c : c = ClearWait(reader)
      OBVIOUS
    <3>2. /\ c \in RawReader /\ c.off = reader.off /\ c.bol = reader.off
          /\ c.next = reader.next /\ c.index = reader.index
      BY <1>4, <3>1, ClearWaitFacts
    <3>3. Align(c, file) = c
      BY <1>1, <3>2, AlignStays
    <3> QED BY <1>4, <2>2, <3>1, <3>2, <3>3
  <2>5. PICK q : q = reader'
    OBVIOUS
  <2>6. /\ q \in RawReader /\ q.off = reader.off /\ q.bol = reader.off
        /\ q.next = reader.next /\ q.index = reader.index
    BY <1>1, <2>3, <2>4, <2>5 DEF RawReader
  <2>7. q \in ReaderType
    BY <1>4, <2>6, ReaderIsRaw
  <2>8. CursorInv'
    <3>1. q.off <= Len(file)
      BY <1>1, <1>4, <1>8, <2>6
    <3> QED BY <1>1, <1>3, <2>1, <2>5, <2>6, <3>1 DEF CursorInv
  <2>9. RewrittenInv'
    BY <1>2 DEF RewrittenInv
  <2>10. PassedInv'
    BY <1>1, <1>2, <1>3, <2>1, <2>5, <2>6 DEF PassedInv, IsBol, Accounted
  <2>11. SoundIndex(reader.index)'
    BY <1>1, <1>3, <2>5, <2>6 DEF SoundIndex
  <2>12. TypeOK'
    <3>1. skips' \subseteq Nat /\ excused' \subseteq Records
      BY <1>1, <2>1, TypeParts
    <3> QED BY <1>2, <1>5, <1>6, <2>5, <2>6, <2>7, <3>1 DEF TypeOK
  <2> QED BY <1>5, <2>8, <2>9, <2>10, <2>11, <2>12 DEF ReaderInv
<1> QED BY <1>7, <1>8

\* The reading: what lies between the cursor and the last line start is
\* returned, what lies behind it is given up or left for later.
LEMMA PollReadsKeeps ==
  ASSUME ReaderInv, PollReads
  PROVE  ReaderInv'
<1>1. /\ file \in Seq(Cell) /\ Len(file) \in Nat /\ tip \in Nat /\ writing \in Nat /\ TypeOK
      /\ FileInv /\ CursorInv /\ RewrittenInv /\ PassedInv /\ SoundIndex(reader.index)
      /\ LineBeingWritten /\ RecordsInOrder
  BY InvParts DEF ReaderInv
<1>2. /\ reader \in RawReader /\ reader \in ReaderType /\ reader.bol = reader.off
      /\ reader.next \in Nat \ {0} /\ reader.off \in Nat
  BY <1>1, TypeParts
<1>3. Align(reader, file) = reader
  BY <1>1, <1>2, AlignStays
<1>4. /\ UNCHANGED fileVars /\ pc' = "idle" /\ rewritten' = rewritten
      /\ from' = from /\ seeks' = seeks
      /\ reader' = ReadOn(reader, file)
      /\ got' = got \cup Returned(reader, file)
      /\ skips' = skips \cup Skipped(reader')
      /\ excused' = excused \cup GivenUp(reader')
  BY <1>3 DEF PollReads
<1>5. /\ file' = file /\ tip' = tip /\ writing' = writing /\ rewrites' = rewrites
      /\ index' = index /\ published' = published /\ torn' = torn
  BY <1>4 DEF fileVars
<1>6. FileTypeOK' /\ LineBeingWritten' /\ RecordsInOrder' /\ IndexesFit'
  BY <1>5 DEF ReaderInv, TypeOK, FileTypeOK, LineBeingWritten, RecordsInOrder, IndexesFit, SoundIndex
<1>7. PICK q : q = reader'
  OBVIOUS
<1>8. PICK o \in Nat : o = reader.off
  BY <1>2
<1>9. /\ q \in ReaderType /\ q.bol = q.off /\ q.index = reader.index
      /\ q.off \in LineStarts(file, o) \cup {Len(file)}
      /\ q.off >= o
      /\ o <= Len(file) => q.off <= Len(file)
      /\ q.next >= reader.next
      /\ q.next = reader.next \/ q.next - 1 \in Returned(reader, file)
  BY <1>1, <1>2, <1>4, <1>7, <1>8, ReadOnFacts
<1>10. q.off \in Nat /\ q.next \in Nat
  BY <1>9, ReaderIsRaw, ReaderParts
<1>11. \A a \in Skipped(q) : a = q.off /\ a = Len(file) /\ a \in Nat
  BY <1>9, SkippedFacts
<1>12. \A s \in Returned(reader, file) : s \in Records /\ s \in Nat /\ s <= tip
  <2> SUFFICES ASSUME NEW s \in Returned(reader, file) PROVE s \in Records /\ s \in Nat /\ s <= tip
    OBVIOUS
  <2>1. s \in Records /\ \E a \in 0 .. Len(file) - 1 : RecordAt(file, a) /\ s = SeqAt(file, a)
    BY <1>1, <1>2, ReturnedFacts
  <2> QED BY <1>1, <2>1, RecordSizes DEF RecordsInOrder
<1>13. CursorInv'
  <2>1. skips' \subseteq 0 .. q.off
    <3>1. skips \subseteq 0 .. o
      BY <1>1, <1>8 DEF CursorInv
    <3>2. skips \subseteq 0 .. q.off
      BY <1>9, <1>10, <3>1
    <3>3. Skipped(q) \subseteq 0 .. q.off
      BY <1>10, <1>11
    <3> QED BY <1>4, <1>7, <3>2, <3>3
  <2>2. q.next <= tip + 1
    <3>1. reader.next <= tip + 1
      BY <1>1 DEF CursorInv
    <3>2. q.next - 1 \in Returned(reader, file) => q.next <= tip + 1
      BY <1>1, <1>10, <1>12
    <3> QED BY <1>9, <3>1, <3>2
  <2>3. ~rewritten => q.off <= Len(file)
    BY <1>1, <1>8, <1>9 DEF CursorInv
  <2> QED BY <1>4, <1>5, <1>7, <2>1, <2>2, <2>3 DEF CursorInv
<1>14. RewrittenInv'
  <2>1. excused \subseteq excused'
    BY <1>4
  <2> QED BY <1>1, <1>4, <1>5, <2>1 DEF RewrittenInv
<1>15. ASSUME NEW a \in 0 .. Len(file) - 1, RecordAt(file, a), a = 0 \/ IsEnd(file[a]) \/ a \in skips'
       PROVE  SeqAt(file, a) < from \/ SeqAt(file, a) \in got' \cup excused
  <2>1. a \in Nat /\ a # Len(file)
    BY <1>1
  <2>2. IsBol(a)
    BY <1>4, <1>7, <1>11, <1>15, <2>1 DEF IsBol
  <2>3. SeqAt(file, a) \in Nat
    BY <1>1, <1>15, <2>1, RecordParts, RecordSizes
  <2>4. CASE a < o \/ SeqAt(file, a) < reader.next
    <3>1. Accounted(SeqAt(file, a))
      BY <1>1, <1>8, <1>15, <2>2, <2>4 DEF PassedInv
    <3> QED BY <1>4, <3>1 DEF Accounted
  <2>5. CASE ~(a < o) /\ ~(SeqAt(file, a) < reader.next)
    <3>1. a >= o /\ SeqAt(file, a) >= reader.next /\ a <= Len(file)
      BY <1>1, <1>2, <2>1, <2>3, <2>5
    <3>2. a = o \/ (a > o /\ Bol(file, a))
      <4>1. skips \subseteq 0 .. o
        BY <1>1, <1>8 DEF CursorInv
      <4>2. a \in skips => a <= o
        BY <4>1
      <4> QED BY <2>1, <2>2, <3>1, <4>2 DEF IsBol, Bol
    <3>3. a \in LineStarts(file, o)
      BY <1>1, <2>1, <3>1, <3>2, BolIsReached
    <3>4. \A c \in 0 .. Len(file) - 1 : RecordAt(file, c) /\ c < a => SeqAt(file, c) < SeqAt(file, a)
      BY <1>1, <1>15 DEF RecordsInOrder
    <3>5. SeqAt(file, a) \in Returned(reader, file)
      BY <1>1, <1>2, <1>8, <1>15, <3>1, <3>3, <3>4, ReturnedFacts
    <3> QED BY <1>4, <3>5
  <2> QED BY <2>4, <2>5
<1>16. ASSUME writing > 0, Len(file) - writing < q.off,
              LET b == Len(file) - writing IN b = 0 \/ IsEnd(file[b]) \/ b \in skips'
       PROVE  tip + 1 < from \/ tip + 1 \in got \cup excused'
  <2>1. CASE q.off = Len(file)
    <3>1. tip + 1 \in GivenUp(q)
      BY <1>16, <2>1 DEF GivenUp
    <3> QED BY <1>4, <1>7, <3>1
  <2>2. CASE q.off # Len(file)
    <3>1. q.off = o
      <4> SUFFICES ASSUME q.off # o PROVE FALSE
        OBVIOUS
      <4>1. q.off \in Ends(file, o)
        BY <1>9, <2>2 DEF LineStarts
      <4>2. q.off \in 1 .. Len(file) /\ IsEnd(file[q.off])
        BY <1>1, <4>1, LineFacts
      <4>3. Landing(file, q.off)
        BY <1>1, <4>2 DEF Landing
      <4>4. q.off > Len(file) - writing
        BY <1>1, <1>10, <1>16
      <4> QED BY <1>10, <1>16, <2>2, <4>3, <4>4, InvParts, NotInTheLine
    <3>2. IsBol(Len(file) - writing)
      <4>1. Len(file) - writing \notin Skipped(q)
        BY <1>11, <2>2
      <4> QED BY <1>4, <1>7, <1>16, <4>1 DEF IsBol
    <3>3. Accounted(tip + 1)
      BY <1>1, <1>8, <1>16, <3>1, <3>2 DEF PassedInv
    <3> QED BY <1>4, <3>3 DEF Accounted
  <2> QED BY <2>1, <2>2
<1>17. PassedInv'
  <2>1. excused \subseteq excused' /\ got \subseteq got'
    BY <1>4
  <2>2. \A a \in 0 .. Len(file) - 1 :
           RecordAt(file, a) /\ (a = 0 \/ IsEnd(file[a]) \/ a \in skips') =>
              SeqAt(file, a) < from' \/ SeqAt(file, a) \in got' \cup excused'
    BY <1>4, <1>15, <2>1
  <2>3. /\ writing > 0 /\ Len(file) - writing < q.off
        /\ LET b == Len(file) - writing IN b = 0 \/ IsEnd(file[b]) \/ b \in skips'
        => tip + 1 < from' \/ tip + 1 \in got' \cup excused'
    BY <1>4, <1>16, <2>1
  <2> QED BY <1>5, <1>7, <2>2, <2>3 DEF PassedInv, IsBol, Accounted
<1>18. SoundIndex(reader.index)'
  BY <1>1, <1>5, <1>7, <1>9 DEF SoundIndex
<1>19. TypeOK'
  <2>1. GivenUp(q) \subseteq Records /\ Skipped(q) \subseteq Nat
    BY <1>1, <1>11, HistoryTypes
  <2>2. /\ got' \subseteq Records /\ from' \in Nat /\ skips' \subseteq Nat
        /\ excused' \subseteq Records /\ rewritten' \in BOOLEAN /\ seeks' \in 0 .. MaxSeeks
    BY <1>1, <1>4, <1>7, <1>12, <2>1, TypeParts
  <2> QED BY <1>4, <1>6, <1>7, <1>9, <2>2 DEF TypeOK
<1> QED BY <1>6, <1>13, <1>14, <1>17, <1>18, <1>19 DEF ReaderInv

-----------------------------------------------------------------------------
(* The steps of the collector *)

\* The reader's own types while the collector works.
LEMMA ReaderUntouched ==
  ASSUME ReaderInv, FileInv', IndexesFit',
         UNCHANGED <<reader, pc, got, from, seeks>>,
         skips' \subseteq Nat, excused' \subseteq Records, rewritten' \in BOOLEAN,
         SoundIndex(reader.index)', CursorInv', RewrittenInv', PassedInv'
  PROVE  ReaderInv'
<1>1. TypeOK'
  <2>1. FileTypeOK'
    BY DEF FileInv
  <2>2. /\ reader \in ReaderType /\ reader.bol = reader.off /\ pc \in {"idle", "measured"}
        /\ got \subseteq Records /\ from \in Nat /\ seeks \in 0 .. MaxSeeks
    BY TypeParts DEF ReaderInv
  <2> QED BY <2>1, <2>2 DEF TypeOK
<1> QED BY <1>1 DEF ReaderInv, FileInv

\* The index in the reader's memory.
LEMMA ReaderIndexFits ==
  ASSUME ReaderInv, reader' = reader,
         \/ WritePiece \/ DieInLine \/ Persist \/ \E m : Rewrite(m)
  PROVE  SoundIndex(reader.index)'
<1>1. PICK x \in Index : x = reader.index /\ SoundIndex(x)
  BY InvParts, TypeParts DEF ReaderInv
<1>2. SoundIndex(x)'
  BY <1>1, InvParts, OldIndexes
<1>3. reader'.index = x
  BY <1>1
<1> QED BY <1>2, <1>3 DEF SoundIndex

\* A piece more leaves the reader where it is.
LEMMA AppendPieceKeeps ==
  ASSUME ReaderInv, AppendPiece
  PROVE  ReaderInv'
<1>1. /\ file \in Seq(Cell) /\ Len(file) \in Nat /\ tip \in Nat /\ writing \in Nat /\ TypeOK
      /\ FileInv /\ IndexesFit /\ CursorInv /\ RewrittenInv /\ PassedInv
      /\ LineBeingWritten /\ RecordsInOrder /\ writing <= Len(file)
  BY InvParts DEF ReaderInv, LineBeingWritten
<1>2. /\ WritePiece
      /\ excused' = IF rewritten THEN excused \cup {tip + 1} ELSE excused
      /\ reader' = reader /\ pc' = pc /\ got' = got /\ from' = from /\ skips' = skips
      /\ rewritten' = rewritten /\ seeks' = seeks
  BY DEF AppendPiece
<1>3. FileInv' /\ IndexesFit'
  BY <1>1, <1>2, WritePieceSafe
<1>4. SoundIndex(reader.index)'
  BY <1>2, ReaderIndexFits
<1>5. PICK h \in Seq(Cell) : h = file'
  BY <1>1, <1>2, PieceWritten
<1>6. /\ Len(h) = Len(file) + 1
      /\ \A k \in 1 .. Len(file) : h[k] = file[k]
      /\ \A a \in 0 .. Len(h) - 1 : RecordAt(h, a) =>
            \/ a \in 0 .. Len(file) - 1 /\ RecordAt(file, a) /\ SeqAt(h, a) = SeqAt(file, a)
            \/ /\ writing > 0 /\ writing' = 0 /\ tip' = tip + 1
               /\ a = Len(file) - writing /\ SeqAt(h, a) = tip + 1
  BY <1>1, <1>2, <1>5, PieceWritten
<1>7. /\ tip' = tip \/ tip' = tip + 1
      /\ (writing' = 0 /\ tip' = tip + 1) \/ (writing' = writing + 1 /\ tip' = tip)
  BY <1>2 DEF WritePiece
<1>8. PICK o \in Nat : o = reader.off
  BY <1>1, TypeParts
<1>9. reader.next \in Nat /\ reader.next <= tip + 1 /\ skips \subseteq 0 .. o
  BY <1>1, <1>8, TypeParts DEF CursorInv
<1>10. CursorInv'
  <2>1. ~rewritten => o <= Len(h)
    BY <1>1, <1>6, <1>8 DEF CursorInv
  <2> QED BY <1>1, <1>2, <1>5, <1>7, <1>8, <1>9, <2>1 DEF CursorInv
<1>11. RewrittenInv'
  <2> SUFFICES ASSUME rewritten
               PROVE  /\ \A a \in 0 .. Len(h) - 1 : RecordAt(h, a) => SeqAt(h, a) \in excused'
                      /\ writing' > 0 => tip' + 1 \in excused'
    BY <1>2, <1>5 DEF RewrittenInv
  <2>1. excused' = excused \cup {tip + 1}
    BY <1>2
  <2>2. \A a \in 0 .. Len(file) - 1 : RecordAt(file, a) => SeqAt(file, a) \in excused
    BY <1>1 DEF RewrittenInv
  <2>3. \A a \in 0 .. Len(h) - 1 : RecordAt(h, a) => SeqAt(h, a) \in excused'
    BY <1>6, <2>1, <2>2
  <2>4. writing' > 0 => tip' + 1 \in excused'
    BY <1>7, <2>1
  <2> QED BY <2>3, <2>4
<1>12. /\ excused \subseteq excused'
       /\ rewritten => tip + 1 \in excused'
  BY <1>2
\* A line start before the new piece is one that was there.
<1>13. ASSUME NEW a \in Nat, a <= Len(file), a = 0 \/ IsEnd(h[a]) \/ a \in skips
       PROVE  IsBol(a)
  <2>1. CASE a = 0
    BY <2>1 DEF IsBol
  <2>2. CASE a # 0
    <3>1. h[a] = file[a]
      BY <1>1, <1>6, <1>13, <2>2
    <3> QED BY <1>13, <3>1 DEF IsBol, IsEnd
  <2> QED BY <2>1, <2>2
<1>14. ASSUME writing > 0, Len(file) - writing < o, IsBol(Len(file) - writing)
       PROVE  tip + 1 < from \/ tip + 1 \in got \cup excused'
  <2>1. Accounted(tip + 1)
    BY <1>1, <1>8, <1>14 DEF PassedInv
  <2> QED BY <1>12, <2>1 DEF Accounted
<1>15. ASSUME NEW a \in 0 .. Len(h) - 1, RecordAt(h, a), a = 0 \/ IsEnd(h[a]) \/ a \in skips,
              a < o \/ SeqAt(h, a) < reader.next
       PROVE  SeqAt(h, a) < from \/ SeqAt(h, a) \in got \cup excused'
  <2>1. CASE a \in 0 .. Len(file) - 1 /\ RecordAt(file, a) /\ SeqAt(h, a) = SeqAt(file, a)
    <3>1. a \in Nat /\ a <= Len(file)
      BY <1>1, <2>1
    <3>2. IsBol(a)
      BY <1>13, <1>15, <3>1
    <3>3. Accounted(SeqAt(file, a))
      BY <1>1, <1>8, <1>15, <2>1, <3>2 DEF PassedInv
    <3> QED BY <1>12, <2>1, <3>3 DEF Accounted
  <2>2. CASE writing > 0 /\ a = Len(file) - writing /\ SeqAt(h, a) = tip + 1
    <3>1. a \in Nat /\ a <= Len(file) /\ a < o
      BY <1>1, <1>9, <1>15, <2>2
    <3>2. IsBol(a)
      BY <1>13, <1>15, <3>1
    <3> QED BY <1>14, <2>2, <3>1, <3>2
  <2> QED BY <1>6, <1>15, <2>1, <2>2
<1>16. ASSUME writing' > 0, Len(h) - writing' < o,
              LET b == Len(h) - writing' IN b = 0 \/ IsEnd(h[b]) \/ b \in skips
       PROVE  tip + 1 < from \/ tip + 1 \in got \cup excused'
  <2>1. writing' = writing + 1 /\ Len(h) - writing' = Len(file) - writing
    BY <1>1, <1>6, <1>7, <1>16
  <2>2. Len(file) - writing \in Nat /\ Len(file) - writing <= Len(file)
    BY <1>1
  <2>3. IsBol(Len(file) - writing)
    BY <1>13, <1>16, <2>1, <2>2
  <2>4. CASE writing > 0
    BY <1>14, <1>16, <2>1, <2>3, <2>4
  <2>5. CASE writing = 0
    <3>1. o > Len(file)
      BY <1>1, <1>16, <2>1, <2>5
    <3>2. rewritten
      BY <1>1, <1>8, <3>1 DEF CursorInv
    <3> QED BY <1>12, <3>2
  <2> QED BY <1>1, <2>4, <2>5
<1>17. PassedInv'
  <2>1. writing' > 0 => tip' = tip
    BY <1>7
  <2> QED BY <1>2, <1>5, <1>8, <1>15, <1>16, <2>1 DEF PassedInv, IsBol, Accounted
<1>18. skips' \subseteq Nat /\ excused' \subseteq Records /\ rewritten' \in BOOLEAN
  <2>1. tip + 1 \in Records
    BY <1>2 DEF WritePiece
  <2> QED BY <1>1, <1>2, <2>1, TypeParts
<1> QED BY <1>2, <1>3, <1>4, <1>10, <1>11, <1>17, <1>18, ReaderUntouched

\* So does the end of the collector in a line.
LEMMA DiesInLineKeeps ==
  ASSUME ReaderInv, DiesInLine
  PROVE  ReaderInv'
<1>1. /\ file \in Seq(Cell) /\ Len(file) \in Nat /\ tip \in Nat /\ TypeOK
      /\ FileInv /\ IndexesFit /\ CursorInv /\ RewrittenInv /\ PassedInv /\ RecordsInOrder
  BY InvParts DEF ReaderInv
<1>2. /\ DieInLine
      /\ excused' = IF rewritten THEN excused ELSE excused \ {tip + 1}
      /\ reader' = reader /\ pc' = pc /\ got' = got /\ from' = from /\ skips' = skips
      /\ rewritten' = rewritten /\ seeks' = seeks
  BY DEF DiesInLine
<1>3. FileInv' /\ IndexesFit'
  BY <1>1, <1>2, DieInLineSafe
<1>4. SoundIndex(reader.index)'
  BY <1>2, ReaderIndexFits
<1>5. file' = file /\ tip' = tip /\ writing' = 0
  BY <1>2 DEF DieInLine
<1>6. CursorInv'
  BY <1>1, <1>2, <1>5 DEF CursorInv
<1>7. RewrittenInv'
  BY <1>1, <1>2, <1>5 DEF RewrittenInv
<1>8. ASSUME NEW a \in 0 .. Len(file) - 1, RecordAt(file, a), IsBol(a),
             a < reader.off \/ SeqAt(file, a) < reader.next
      PROVE  SeqAt(file, a) < from \/ SeqAt(file, a) \in got \cup excused'
  <2>1. Accounted(SeqAt(file, a))
    BY <1>1, <1>8 DEF PassedInv
  <2>2. SeqAt(file, a) # tip + 1
    <3>1. SeqAt(file, a) <= tip
      BY <1>1, <1>8 DEF RecordsInOrder
    <3> QED BY <1>1, <3>1
  <2> QED BY <1>2, <2>1, <2>2 DEF Accounted
<1>9. PassedInv'
  <2>1. ~(writing' > 0)
    BY <1>5
  <2> QED BY <1>2, <1>5, <1>8, <2>1 DEF PassedInv, IsBol, Accounted
<1>10. skips' \subseteq Nat /\ excused' \subseteq Records /\ rewritten' \in BOOLEAN
  BY <1>1, <1>2, TypeParts
<1> QED BY <1>2, <1>3, <1>4, <1>6, <1>7, <1>9, <1>10, ReaderUntouched

\* So does the meta file.
LEMMA PublishKeeps ==
  ASSUME ReaderInv, Publish
  PROVE  ReaderInv'
<1>1. /\ TypeOK /\ FileInv /\ IndexesFit /\ CursorInv /\ RewrittenInv /\ PassedInv
  BY InvParts DEF ReaderInv
<1>2. /\ Persist
      /\ excused' = excused /\ reader' = reader /\ pc' = pc /\ got' = got /\ from' = from
      /\ skips' = skips /\ rewritten' = rewritten /\ seeks' = seeks
  BY DEF Publish, historyVars
<1>3. FileInv' /\ IndexesFit'
  BY <1>1, <1>2, PersistSafe
<1>4. SoundIndex(reader.index)'
  BY <1>2, ReaderIndexFits
<1>5. file' = file /\ tip' = tip /\ writing' = writing
  BY <1>2 DEF Persist
<1>6. CursorInv' /\ RewrittenInv' /\ PassedInv'
  BY <1>1, <1>2, <1>5 DEF CursorInv, RewrittenInv, PassedInv, IsBol, Accounted
<1>7. skips' \subseteq Nat /\ excused' \subseteq Records /\ rewritten' \in BOOLEAN
  BY <1>1, <1>2, TypeParts
<1> QED BY <1>2, <1>3, <1>4, <1>6, <1>7, ReaderUntouched

\* A compaction excuses all that was in the file.
LEMMA MaybeCompactKeeps ==
  ASSUME ReaderInv, MaybeCompact
  PROVE  ReaderInv'
<1>1. /\ TypeOK /\ FileInv /\ IndexesFit /\ CursorInv /\ file \in Seq(Cell)
  BY InvParts DEF ReaderInv
<1>2. PICK m : Rewrite(m)
  BY DEF MaybeCompact
<1>3. /\ rewritten' = TRUE /\ excused' = excused \cup InFile /\ skips' = {}
      /\ reader' = reader /\ pc' = pc /\ got' = got /\ from' = from /\ seeks' = seeks
  BY DEF MaybeCompact
<1>4. FileInv' /\ IndexesFit'
  BY <1>1, <1>2, RewriteSafe
<1>5. SoundIndex(reader.index)'
  BY <1>2, <1>3, ReaderIndexFits
<1>6. PICK h \in Seq(Cell) : h = file'
  BY <1>1, <1>2, RewriteFacts
<1>7. tip' = tip /\ writing' = 0
  BY <1>2 DEF Rewrite
<1>8. \A a \in 0 .. Len(h) - 1 : SeqAt(h, a) \in excused'
  <2> SUFFICES ASSUME NEW a \in 0 .. Len(h) - 1 PROVE SeqAt(h, a) \in excused'
    OBVIOUS
  <2>1. a + 1 \in 1 .. Len(h)
    BY LineFacts
  <2>2. PICK p \in 1 .. Len(file) : h[a + 1] = file[p]
    BY <1>1, <1>2, <1>6, <2>1, RewriteFacts
  <2>3. file[p].seq \in InFile
    BY <1>1, HistoryTypes
  <2> QED BY <1>3, <2>2, <2>3 DEF SeqAt
<1>9. CursorInv'
  <2>1. reader.next <= tip + 1
    BY <1>1 DEF CursorInv
  <2> QED BY <1>3, <1>7, <2>1 DEF CursorInv
<1>10. ~(writing' > 0)
  BY <1>7
<1>11. RewrittenInv' /\ PassedInv'
  BY <1>6, <1>8, <1>10 DEF RewrittenInv, PassedInv, Accounted
<1>12. skips' \subseteq Nat /\ excused' \subseteq Records /\ rewritten' \in BOOLEAN
  BY <1>1, <1>3, TypeParts, HistoryTypes
<1> QED BY <1>3, <1>4, <1>5, <1>9, <1>11, <1>12, ReaderUntouched

\* The clock of the reader.
LEMMA WaitEndsKeeps ==
  ASSUME ReaderInv, WaitEnds
  PROVE  ReaderInv'
<1>1. TypeOK /\ CursorInv /\ RewrittenInv /\ PassedInv /\ SoundIndex(reader.index)
  BY DEF ReaderInv
<1>2. /\ UNCHANGED fileVars /\ UNCHANGED historyVars /\ pc' = pc
      /\ reader' = [reader EXCEPT !.wait.ripe = TRUE]
  BY DEF WaitEnds
<1>3. /\ file' = file /\ tip' = tip /\ writing' = writing /\ rewrites' = rewrites
      /\ index' = index /\ published' = published /\ torn' = torn
  BY <1>2 DEF fileVars
<1>4. /\ got' = got /\ from' = from /\ skips' = skips /\ excused' = excused
      /\ rewritten' = rewritten /\ seeks' = seeks
  BY <1>2 DEF historyVars
<1>5. /\ reader' \in ReaderType /\ reader'.off = reader.off /\ reader'.bol = reader.bol
      /\ reader'.next = reader.next /\ reader'.index = reader.index
  <2>1. reader \in ReaderType
    BY <1>1, TypeParts
  <2> QED BY <1>2, <2>1 DEF ReaderType
<1>6. FileTypeOK' /\ LineBeingWritten' /\ RecordsInOrder' /\ IndexesFit'
  BY <1>3 DEF ReaderInv, TypeOK, FileTypeOK, LineBeingWritten, RecordsInOrder, IndexesFit, SoundIndex
<1>7. TypeOK'
  <2>1. /\ reader.bol = reader.off /\ pc \in {"idle", "measured"}
        /\ got \subseteq Records /\ from \in Nat /\ skips \subseteq Nat /\ excused \subseteq Records
        /\ rewritten \in BOOLEAN /\ seeks \in 0 .. MaxSeeks
    BY <1>1, TypeParts
  <2> QED BY <1>2, <1>4, <1>5, <1>6, <2>1 DEF TypeOK
<1>8. CursorInv' /\ RewrittenInv'
  BY <1>1, <1>3, <1>4, <1>5 DEF CursorInv, RewrittenInv
<1>9. PassedInv'
  BY <1>1, <1>3, <1>4, <1>5 DEF PassedInv, IsBol, Accounted
<1>10. SoundIndex(reader.index)'
  BY <1>1, <1>3, <1>5 DEF SoundIndex
<1> QED BY <1>6, <1>7, <1>8, <1>9, <1>10 DEF ReaderInv

-----------------------------------------------------------------------------
(* The theorems *)

\* The invariant holds at the start.
LEMMA InitReader == Init => ReaderInv
<1> SUFFICES ASSUME Init PROVE ReaderInv
  OBVIOUS
<1>1. FileInv /\ IndexesFit
  BY FileInitSafe DEF Init
<1>2. /\ file = << >> /\ writing = 0 /\ tip = 0
      /\ reader = FreshReader(published) /\ pc = "idle" /\ got = {} /\ from = 1
      /\ skips = {} /\ excused = {} /\ rewritten = FALSE /\ seeks = 0
  BY DEF Init, FileInit
<1>3. PICK x \in Index : x = published.index /\ SoundIndex(x)
  BY <1>1, FileParts DEF FileInv, IndexesFit
<1>4. /\ reader \in ReaderType /\ reader.off = 0 /\ reader.bol = 0 /\ reader.next = 1
      /\ reader.index = x
  <2>1. Idle \in WaitType
    BY IdleType
  <2> QED BY <1>2, <1>3, <2>1 DEF FreshReader, ReaderType, WaitType
<1>5. TypeOK
  <2>1. seeks \in 0 .. MaxSeeks
    BY <1>2, ReaderAssumption
  <2> QED BY <1>1, <1>2, <1>4, <2>1 DEF TypeOK, FileInv
<1>6. Len(file) = 0
  BY <1>2
<1>7. CursorInv /\ RewrittenInv /\ PassedInv
  BY <1>2, <1>4, <1>6 DEF CursorInv, RewrittenInv, PassedInv
<1>8. SoundIndex(reader.index)
  BY <1>3, <1>4
<1> QED BY <1>1, <1>5, <1>7, <1>8 DEF ReaderInv, FileInv

\* And holds on through every step.
LEMMA StepReader == ReaderInv /\ [Next]_vars => ReaderInv'
<1> SUFFICES ASSUME ReaderInv, [Next]_vars PROVE ReaderInv'
  OBVIOUS
<1>1. CASE AppendPiece
  BY <1>1, AppendPieceKeeps
<1>2. CASE DiesInLine
  BY <1>2, DiesInLineKeeps
<1>3. CASE Publish
  BY <1>3, PublishKeeps
<1>4. CASE MaybeCompact
  BY <1>4, MaybeCompactKeeps
<1>5. CASE PollStarts
  BY <1>5, PollStartsKeeps
<1>6. CASE PollReads
  BY <1>6, PollReadsKeeps
<1>7. CASE WaitEnds
  BY <1>7, WaitEndsKeeps
<1>8. CASE Seeks
  BY <1>8, SetCursorKeeps, RestartKeeps DEF Seeks
<1>9. CASE ForceTailResyncIfUnread
  BY <1>9, ForceTailResyncKeeps
<1>10. CASE UNCHANGED vars
  <2>1. /\ file' = file /\ tip' = tip /\ writing' = writing /\ rewrites' = rewrites
        /\ index' = index /\ published' = published /\ torn' = torn
        /\ reader' = reader /\ pc' = pc /\ got' = got /\ from' = from /\ skips' = skips
        /\ excused' = excused /\ rewritten' = rewritten /\ seeks' = seeks
    BY <1>10 DEF vars, fileVars, historyVars
  <2>2. FileTypeOK' /\ LineBeingWritten' /\ RecordsInOrder' /\ IndexesFit'
    BY <2>1 DEF ReaderInv, TypeOK, FileTypeOK, LineBeingWritten, RecordsInOrder, IndexesFit,
                SoundIndex
  <2>3. TypeOK'
    BY <2>1, <2>2 DEF ReaderInv, TypeOK
  <2>4. CursorInv' /\ RewrittenInv' /\ PassedInv' /\ SoundIndex(reader.index)'
    BY <2>1 DEF ReaderInv, CursorInv, RewrittenInv, PassedInv, IsBol, Accounted, SoundIndex
  <2> QED BY <2>2, <2>3, <2>4 DEF ReaderInv
<1> QED BY <1>1, <1>2, <1>3, <1>4, <1>5, <1>6, <1>7, <1>8, <1>9, <1>10 DEF Next

\* The inductive invariant: the line being written is at the end of the file
\* and the complete records increase; the indexes of the file's era lead to
\* the records they name; every record that begins before the cursor is
\* accounted for, the one being written included.
THEOREM ReaderInvariant == Spec => []ReaderInv
<1>1. Init => ReaderInv
  BY InitReader
<1>2. ReaderInv /\ [Next]_vars => ReaderInv'
  BY StepReader
<1> QED BY <1>1, <1>2, PTL DEF Spec

\* The types of the file and of the reader; between two calls the reader
\* trusts its offset as a line start, whatever seek or resync it took.
THEOREM TypeCorrect == Spec => []TypeOK
<1>1. ReaderInv => TypeOK
  BY DEF ReaderInv
<1> QED BY <1>1, ReaderInvariant, PTL

\* The reader passes no complete record without returning it that it did not
\* give up half-written and that no rewrite hid from it, for any widths of
\* the lines, any seeks, rewrites and deaths of the collector.
THEOREM NothingIsSkipped == Spec => []NothingSkipped
<1>1. ReaderInv => NothingSkipped
  <2> SUFFICES ASSUME ReaderInv,
                      NEW a \in 0 .. Len(file) - 1, RecordAt(file, a), IsBol(a),
                      a + Width[SeqAt(file, a)] <= reader.off
               PROVE  SeqAt(file, a) < from \/ SeqAt(file, a) \in got \cup excused
    BY DEF NothingSkipped
  <2>1. file \in Seq(Cell) /\ a \in Nat /\ reader.off \in Nat
    BY InvParts, TypeParts
  <2>2. Width[SeqAt(file, a)] \in Nat /\ Width[SeqAt(file, a)] > 1
    BY <2>1, RecordParts
  <2>3. a < reader.off
    BY <2>1, <2>2
  <2> QED BY <2>3 DEF ReaderInv, PassedInv, Accounted
<1> QED BY <1>1, ReaderInvariant, PTL

================================================================================
