--------------------------- MODULE ReaderStepsProofs ---------------------------
(***************************************************************************)
(* What the steps of the collector do to the lines of the journal file and *)
(* to its index, and where the steps of the reader leave its cursor.  The  *)
(* theorems about the reader (JournalReaderProofs) rest on these facts.    *)
(***************************************************************************)
EXTENDS ReaderSteps, DataLemmas

-----------------------------------------------------------------------------
(* Lines and records of a file *)

EntryType == [seq : Nat, off : Nat]

\* The numbers of the records and their widths.
LEMMA RecordSizes ==
  /\ Records = 1 .. Len(Width) /\ Len(Width) \in Nat /\ Records \subseteq Nat \ {0}
  /\ \A s \in Records : Width[s] \in Nat /\ Width[s] > 1
  BY WidthAssumption DEF Records

\* A list by its elements.
LEMMA ListParts ==
  ASSUME NEW S, NEW f \in Seq(S)
  PROVE  /\ Len(f) \in Nat /\ DOMAIN f = 1 .. Len(f)
         /\ \A k \in 1 .. Len(f) : f[k] \in S
  OBVIOUS

\* A cell of a file.
LEMMA CellParts ==
  ASSUME NEW f \in Seq(Cell), NEW k \in 1 .. Len(f)
  PROVE  f[k] \in Cell /\ f[k].seq \in Records /\ f[k].piece \in Nat \ {0}
<1>1. f[k] \in Cell
  OBVIOUS
<1> QED BY <1>1 DEF Cell

\* An entry of an index.
LEMMA EntryParts ==
  ASSUME NEW entries \in Seq(EntryType), NEW k \in 1 .. Len(entries)
  PROVE  entries[k] \in EntryType /\ entries[k].seq \in Nat /\ entries[k].off \in Nat
<1>1. entries[k] \in EntryType
  OBVIOUS
<1> QED BY <1>1 DEF EntryType

\* A record is there from its first cell to its last, which ends the line.
LEMMA RecordParts ==
  ASSUME NEW f \in Seq(Cell), NEW a \in Nat, RecordAt(f, a)
  PROVE  /\ SeqAt(f, a) \in Records /\ Width[SeqAt(f, a)] \in Nat /\ Width[SeqAt(f, a)] > 1
         /\ a < Len(f) /\ a + Width[SeqAt(f, a)] <= Len(f)
         /\ \A k \in 1 .. Width[SeqAt(f, a)] :
               f[a + k].seq = SeqAt(f, a) /\ f[a + k].piece = k
         /\ IsEnd(f[a + Width[SeqAt(f, a)]])
<1> DEFINE s == f[a + 1].seq
<1>1. a < Len(f) /\ a + Width[s] <= Len(f)
      /\ \A k \in 1 .. Width[s] : f[a + k] = [seq |-> s, piece |-> k]
  BY DEF RecordAt
<1>2. a + 1 \in 1 .. Len(f)
  BY <1>1
<1>3. s \in Records
  BY <1>2, CellParts
<1>4. Width[s] \in Nat /\ Width[s] > 1
  BY <1>3, RecordSizes
<1>5. s = SeqAt(f, a)
  BY DEF SeqAt
<1> HIDE DEF s
<1>6. \A k \in 1 .. Width[s] : f[a + k].seq = s /\ f[a + k].piece = k
  <2> SUFFICES ASSUME NEW k \in 1 .. Width[s] PROVE f[a + k].seq = s /\ f[a + k].piece = k
    OBVIOUS
  <2>1. f[a + k] = [seq |-> s, piece |-> k]
    BY <1>1
  <2> QED BY <2>1
<1>7. Width[s] \in 1 .. Width[s]
  BY <1>4
<1>8. IsEnd(f[a + Width[s]])
  BY <1>6, <1>7 DEF IsEnd
<1> QED BY <1>1, <1>3, <1>4, <1>5, <1>6, <1>8

\* A record is the same in files that agree on its cells.
LEMMA SameRecord ==
  ASSUME NEW f \in Seq(Cell), NEW h \in Seq(Cell), NEW n \in Nat, n <= Len(f), n <= Len(h),
         \A k \in 1 .. n : h[k] = f[k],
         NEW a \in Nat, RecordAt(f, a), a + Width[SeqAt(f, a)] <= n
  PROVE  RecordAt(h, a) /\ SeqAt(h, a) = SeqAt(f, a)
<1> DEFINE s == f[a + 1].seq
<1>1. a < Len(f) /\ \A k \in 1 .. Width[s] : f[a + k] = [seq |-> s, piece |-> k]
  BY DEF RecordAt
<1>2. s = SeqAt(f, a) /\ Width[s] \in Nat /\ Width[s] > 1
  <2>1. s = SeqAt(f, a)
    BY DEF SeqAt
  <2> QED BY <2>1, RecordParts
<1>3. \A k \in 1 .. Width[s] : a + k \in 1 .. n
  BY <1>2
<1>4. h[a + 1] = f[a + 1]
  BY <1>2, <1>3
<1>5. h[a + 1].seq = s
  BY <1>4
<1> HIDE DEF s
<1>6. \A k \in 1 .. Width[s] : h[a + k] = [seq |-> s, piece |-> k]
  BY <1>1, <1>3
<1>7. a < Len(h) /\ a + Width[s] <= Len(h) /\ Len(h) \in Nat
  BY <1>2
<1> QED BY <1>2, <1>5, <1>6, <1>7 DEF RecordAt, SeqAt

\* Ends of lines and starts of readline.
LEMMA LineFacts ==
  ASSUME NEW f \in Seq(Cell), NEW o \in Nat
  PROVE  /\ Len(f) \in Nat
         /\ \A k : k \in Ends(f, o) <=> k \in 1 .. Len(f) /\ k > o /\ IsEnd(f[k])
         /\ \A k \in LineStarts(f, o) : k \in Nat /\ k >= o /\ (k = o \/ k <= Len(f))
         /\ o \in LineStarts(f, o)
<1>1. Len(f) \in Nat
  OBVIOUS
<1>2. \A k : k \in Ends(f, o) <=> k \in 1 .. Len(f) /\ k > o /\ IsEnd(f[k])
  BY <1>1 DEF Ends
<1> QED BY <1>1, <1>2 DEF LineStarts

\* The end of a record ends a line: after its beginning a line is complete.
LEMMA RecordIsEnded ==
  ASSUME NEW f \in Seq(Cell), NEW o \in Nat, NEW a \in Nat, a >= o, RecordAt(f, a)
  PROVE  ~Unended(f, o)
<1>1. PICK w \in Nat : w = Width[SeqAt(f, a)]
  BY RecordParts
<1>2. w > 1 /\ a + w <= Len(f) /\ IsEnd(f[a + w])
  BY <1>1, RecordParts
<1>3. a + w \in 1 .. Len(f) /\ a + w > o
  BY <1>2, LineFacts
<1>4. a + w \in Ends(f, o)
  BY <1>2, <1>3, LineFacts
<1> QED BY <1>4 DEF Unended

\* Where a line begins, for whoever knows no given up fragment.
Bol(f, a) == a = 0 \/ IsEnd(f[a])

\* Where seeks end before a tip is given up.
Landing(f, o) == o <= Len(f) /\ (o = 0 \/ o = Len(f) \/ IsEnd(f[o]))

\* A line start is reached from any offset that is not beyond it.
LEMMA BolIsReached ==
  ASSUME NEW f \in Seq(Cell), NEW o \in Nat, NEW a \in Nat, a <= Len(f), a = o \/ (a > o /\ Bol(f, a))
  PROVE  a \in LineStarts(f, o)
<1>1. CASE a = o
  BY <1>1, LineFacts
<1>2. CASE a > o /\ Bol(f, a)
  <2>1. a \in 1 .. Len(f) /\ IsEnd(f[a])
    BY <1>2, LineFacts DEF Bol
  <2>2. a \in Ends(f, o)
    BY <1>2, <2>1, LineFacts
  <2> QED BY <2>2 DEF LineStarts
<1> QED BY <1>1, <1>2

\* The next line start: no line begins between an offset and it.
LEMMA NextBolFacts ==
  ASSUME NEW f \in Seq(Cell), NEW o \in Nat, o <= Len(f)
  PROVE  /\ NextBol(f, o) \in Nat /\ NextBol(f, o) >= o /\ Landing(f, NextBol(f, o))
         /\ \A a \in Nat : a >= o /\ a < NextBol(f, o) => ~Bol(f, a)
         /\ Landing(f, o) => NextBol(f, o) = o
<1>1. Len(f) \in Nat
  BY LineFacts
<1>2. CASE ~(o > 0 /\ ~IsEnd(f[o]))
  <2>1. NextBol(f, o) = o
    BY <1>2 DEF NextBol
  <2> QED BY <1>1, <1>2, <2>1 DEF Landing
<1>3. CASE o > 0 /\ ~IsEnd(f[o])
  <2>1. NextBol(f, o) = LineEnd(f, o)
    BY <1>1, <1>3 DEF NextBol
  <2>2. CASE Ends(f, o) = {}
    <3>1. LineEnd(f, o) = Len(f)
      BY <2>2 DEF LineEnd
    <3>2. ASSUME NEW a \in Nat, a >= o, a < Len(f), Bol(f, a) PROVE FALSE
      <4>1. a # o /\ a \in 1 .. Len(f) /\ IsEnd(f[a])
        BY <1>1, <1>3, <3>2 DEF Bol
      <4>2. a \in Ends(f, o)
        BY <3>2, <4>1, LineFacts
      <4> QED BY <2>2, <4>2
    <3>3. Landing(f, Len(f))
      BY <1>1 DEF Landing
    <3>4. Landing(f, o) => o = Len(f)
      BY <1>3 DEF Landing
    <3> QED BY <1>1, <2>1, <3>1, <3>2, <3>3, <3>4
  <2>3. CASE Ends(f, o) # {}
    <3> DEFINE m == Min(Ends(f, o))
    <3>1. LineEnd(f, o) = m
      BY <2>3 DEF LineEnd
    <3>2. \A k \in Ends(f, o) : k \in 1 .. Len(f) /\ k > o /\ IsEnd(f[k])
      BY LineFacts
    <3>3. m \in Ends(f, o) /\ \A k \in Ends(f, o) : m <= k
      <4>1. Ends(f, o) \subseteq Nat
        BY <3>2
      <4> QED BY <2>3, <4>1, LeastOf
    <3> HIDE DEF m
    <3>4. m \in 1 .. Len(f) /\ m > o /\ IsEnd(f[m])
      BY <3>2, <3>3
    <3>5. ASSUME NEW a \in Nat, a >= o, a < m, Bol(f, a) PROVE FALSE
      <4>1. a # o /\ a \in 1 .. Len(f) /\ IsEnd(f[a])
        BY <1>1, <1>3, <3>4, <3>5 DEF Bol
      <4>2. a \in Ends(f, o)
        BY <3>5, <4>1, LineFacts
      <4>3. m <= a
        BY <3>3, <4>2
      <4> QED BY <3>4, <3>5, <4>1, <4>3
    <3>6. Landing(f, m)
      BY <1>1, <3>4 DEF Landing
    <3>7. ~Landing(f, o)
      <4>1. o # Len(f)
        BY <1>1, <3>4
      <4> QED BY <1>3, <4>1 DEF Landing
    <3> QED BY <1>1, <2>1, <3>1, <3>4, <3>5, <3>6, <3>7
  <2> QED BY <2>2, <2>3
<1> QED BY <1>2, <1>3

\* The last line start: after it no line is complete.
LEMMA LastLineStart ==
  ASSUME NEW f \in Seq(Cell), NEW o \in Nat
  PROVE  \E m \in LineStarts(f, o) :
            /\ Unended(f, m)
            /\ Max(LineStarts(f, o)) = m
            /\ \A k \in LineStarts(f, o) : m >= k
<1>1. PICK n \in Nat : n >= o /\ n >= Len(f)
  <2>1. Len(f) \in Nat
    BY LineFacts
  <2> QED BY <2>1
<1>2. LineStarts(f, o) \subseteq 0 .. n /\ LineStarts(f, o) # {}
  <2>1. \A k \in LineStarts(f, o) : k \in Nat /\ (k = o \/ k <= Len(f))
    BY LineFacts
  <2>2. o \in LineStarts(f, o) /\ Len(f) \in Nat
    BY LineFacts
  <2> QED BY <1>1, <2>1, <2>2
<1>3. PICK m \in LineStarts(f, o) :
         Max(LineStarts(f, o)) = m /\ \A k \in LineStarts(f, o) : m >= k
  BY <1>2, GreatestOf
<1>4. Ends(f, m) = {}
  <2> SUFFICES ASSUME NEW k \in Ends(f, m) PROVE FALSE
    OBVIOUS
  <2>1. m \in Nat /\ m >= o
    BY LineFacts
  <2>2. k \in 1 .. Len(f) /\ k > m /\ IsEnd(f[k])
    BY <2>1, LineFacts
  <2>3. k \in Nat /\ k > o
    BY <2>1, <2>2, LineFacts
  <2>4. k \in Ends(f, o)
    BY <2>2, <2>3, LineFacts
  <2>5. k \in LineStarts(f, o)
    BY <2>4 DEF LineStarts
  <2> QED BY <1>3, <2>1, <2>2, <2>3, <2>5
<1> QED BY <1>3, <1>4 DEF Unended

\* The records before the offset of an entry are before its record.
SoundFor(f, entries) ==
    \A k \in 1 .. Len(entries) : \A a \in 0 .. Len(f) - 1 :
        RecordAt(f, a) /\ a < entries[k].off => SeqAt(f, a) < entries[k].seq

\* A hint is the offset of an entry that is not beyond the seq.
LEMMA HintFacts ==
  ASSUME NEW entries \in Seq(EntryType), NEW s \in Nat
  PROVE  \/ IndexedHint(entries, s) = 0
         \/ \E k \in 1 .. Len(entries) :
               IndexedHint(entries, s) = entries[k].off /\ entries[k].seq <= s
<1> DEFINE within == {i \in DOMAIN entries : \A j \in 1 .. i : entries[j].seq <= s}
<1>1. CASE within = {}
  <2>1. IndexedHint(entries, s) = 0
    BY <1>1 DEF IndexedHint
  <2> QED BY <2>1
<1>2. CASE within # {}
  <2>1. within \subseteq 0 .. Len(entries) /\ Len(entries) \in Nat
    BY ListParts
  <2>2. PICK m \in within : Max(within) = m
    <3> HIDE DEF within
    <3> QED BY <1>2, <2>1, GreatestOf
  <2>3. m \in 1 .. Len(entries) /\ \A j \in 1 .. m : entries[j].seq <= s
    BY <2>2, ListParts
  <2>4. entries[m].seq <= s
    BY <2>3
  <2>5. IndexedHint(entries, s) = entries[m].off
    BY <1>2, <2>2 DEF IndexedHint
  <2> QED BY <2>3, <2>4, <2>5
<1> QED BY <1>1, <1>2

\* Where a seek lands: at a line start, with no record from s on before it.
LEMMA ByteOffsetFacts ==
  ASSUME NEW f \in Seq(Cell), NEW entries \in Seq(EntryType), NEW s \in Nat
  PROVE  \E b \in Nat :
            /\ b = ByteOffsetForSeq(f, entries, s)
            /\ Landing(f, b)
            /\ SoundFor(f, entries) =>
                  \A a \in 0 .. Len(f) - 1 :
                     RecordAt(f, a) /\ Bol(f, a) /\ a < b => SeqAt(f, a) < s
<1>1. Len(f) \in Nat
  BY LineFacts
<1>2. CASE s <= 1
  <2>1. ByteOffsetForSeq(f, entries, s) = 0
    BY <1>2 DEF ByteOffsetForSeq
  <2>2. Landing(f, 0)
    BY <1>1 DEF Landing
  <2> QED BY <2>1, <2>2
<1>3. CASE ~(s <= 1)
  <2>1. PICK h : h = IndexedHint(entries, s)
    OBVIOUS
  <2>2. h \in Nat /\ (h = 0 \/ \E k \in 1 .. Len(entries) : h = entries[k].off /\ entries[k].seq <= s)
    <3>1. \A k \in 1 .. Len(entries) : entries[k].off \in Nat
      BY EntryParts
    <3> QED BY <2>1, <3>1, HintFacts
  <2>3. PICK o : o = IF h > Len(f) THEN 0 ELSE NextBol(f, h)
    OBVIOUS
  <2>4. /\ o \in Nat /\ Landing(f, o)
        /\ \A a \in Nat : a >= h /\ a < o => ~Bol(f, a)
    <3>1. CASE h > Len(f)
      <4>1. o = 0 /\ Landing(f, 0)
        BY <1>1, <2>3, <3>1 DEF Landing
      <4> QED BY <4>1
    <3>2. CASE ~(h > Len(f))
      <4>1. o = NextBol(f, h) /\ h <= Len(f)
        BY <1>1, <2>2, <2>3, <3>2
      <4> QED BY <2>2, <4>1, NextBolFacts
    <3> QED BY <3>1, <3>2
  <2> DEFINE B == {a \in LineStarts(f, o) : Unended(f, a) \/ (RecordAt(f, a) /\ SeqAt(f, a) >= s)}
  <2>5. ByteOffsetForSeq(f, entries, s) = Min(B)
    BY <1>3, <2>1, <2>3 DEF ByteOffsetForSeq
  <2>6. B \subseteq Nat /\ B # {}
    <3>1. PICK m \in LineStarts(f, o) : Unended(f, m)
      BY <2>4, LastLineStart
    <3>2. \A a \in LineStarts(f, o) : a \in Nat
      BY <2>4, LineFacts
    <3> QED BY <3>1, <3>2
  <2>7. PICK b \in B : Min(B) = b /\ \A a \in B : b <= a
    <3> HIDE DEF B
    <3> QED BY <2>6, LeastOf
  <2>8. b \in Nat /\ Landing(f, b)
    <3>1. b = o \/ b \in Ends(f, o)
      BY DEF LineStarts
    <3>2. b \in Ends(f, o) => b \in 1 .. Len(f) /\ IsEnd(f[b])
      BY <2>4, LineFacts
    <3>3. b \in Ends(f, o) => b \in Nat /\ Landing(f, b)
      BY <1>1, <3>2 DEF Landing
    <3> QED BY <2>4, <3>1, <3>3
  <2>9. ASSUME SoundFor(f, entries), NEW a \in 0 .. Len(f) - 1,
               RecordAt(f, a), Bol(f, a), a < b
        PROVE  SeqAt(f, a) < s
    <3>1. a \in Nat /\ SeqAt(f, a) \in Nat
      BY <2>9, <1>1, RecordParts, RecordSizes
    <3>2. CASE a < h
      <4>1. PICK k \in 1 .. Len(entries) : h = entries[k].off /\ entries[k].seq <= s
        BY <2>2, <3>1, <3>2
      <4>2. SeqAt(f, a) < entries[k].seq
        BY <2>9, <3>2, <4>1 DEF SoundFor
      <4>3. entries[k].seq \in Nat
        BY EntryParts
      <4> QED BY <3>1, <4>1, <4>2, <4>3
    <3>3. CASE a >= o
      <4>1. a \in LineStarts(f, o)
        <5>1. a <= Len(f) /\ (a = o \/ a > o)
          BY <1>1, <2>4, <3>1, <3>3
        <5> QED BY <2>4, <2>9, <3>1, <5>1, BolIsReached
      <4>2. ~(SeqAt(f, a) >= s)
        <5> SUFFICES ASSUME SeqAt(f, a) >= s PROVE FALSE
          OBVIOUS
        <5>1. a \in B
          BY <2>9, <4>1
        <5>2. b <= a
          BY <2>7, <5>1
        <5> QED BY <2>8, <2>9, <3>1, <5>2
      <4> QED BY <3>1, <4>2
    <3>4. CASE a >= h /\ a < o
      BY <2>4, <2>9, <3>1, <3>4
    <3> QED BY <2>2, <2>4, <3>1, <3>2, <3>3, <3>4
  <2> QED BY <2>5, <2>7, <2>8, <2>9
<1> QED BY <1>2, <1>3

-----------------------------------------------------------------------------
(* Where the reader's functions leave its fields *)

WaitType == [off : Nat \cup {None}, len : Nat \cup {None}, ripe : BOOLEAN]

\* A reader whose offset need not be trusted as a line start.
RawReader ==
    [off : Nat, next : Nat \ {0}, bol : Nat \cup {None}, size : Nat \cup {None},
     wait : WaitType, index : Index]

\* The fields of a reader.
LEMMA ReaderParts ==
  ASSUME NEW r \in RawReader
  PROVE  /\ r.off \in Nat /\ r.next \in Nat \ {0} /\ r.bol \in Nat \cup {None}
         /\ r.size \in Nat \cup {None} /\ r.wait \in WaitType /\ r.index \in Index
  BY DEF RawReader

\* The types a reader has between its calls.
LEMMA ReaderIsRaw ==
  /\ \A r \in ReaderType : r \in RawReader
  /\ \A r \in RawReader : r.bol \in Nat => r \in ReaderType
<1>1. \A r \in ReaderType : r \in RawReader
  BY DEF ReaderType, RawReader, WaitType
<1>2. \A r \in RawReader : r.bol \in Nat => r \in ReaderType
  BY DEF ReaderType, RawReader, WaitType
<1> QED BY <1>1, <1>2

\* A reader that waits for nothing.
LEMMA IdleType == Idle \in WaitType
  BY DEF Idle, WaitType, None

\* Clearing the wait changes nothing else.
LEMMA ClearWaitFacts ==
  ASSUME NEW r \in RawReader
  PROVE  /\ ClearWait(r) \in RawReader
         /\ ClearWait(r).off = r.off /\ ClearWait(r).bol = r.bol
         /\ ClearWait(r).next = r.next /\ ClearWait(r).index = r.index
         /\ ClearWait(r).size = r.size
<1>1. PICK i \in WaitType : i = Idle
  BY IdleType
<1>2. ClearWait(r) = [r EXCEPT !.wait = i]
  BY <1>1 DEF ClearWait
<1> QED BY <1>2 DEF RawReader

\* Aligning a cursor that is at a line start moves nothing.
LEMMA AlignStays ==
  ASSUME NEW r \in RawReader, NEW f \in Seq(Cell),
         r.bol = r.off \/ Landing(f, r.off)
  PROVE  /\ Align(r, f) \in RawReader
         /\ Align(r, f).off = r.off
         /\ Align(r, f).next = r.next /\ Align(r, f).index = r.index
         /\ Align(r, f).size = r.size
         /\ r.bol = r.off => Align(r, f) = r
<1>1. CASE r.off = 0
  <2>1. Align(r, f) = [r EXCEPT !.bol = 0]
    BY <1>1 DEF Align
  <2> QED BY <1>1, <2>1 DEF RawReader
<1>2. CASE r.off # 0 /\ r.bol = r.off
  <2>1. Align(r, f) = r
    BY <1>2 DEF Align
  <2> QED BY <2>1
<1>3. CASE r.off # 0 /\ r.bol # r.off
  <2> DEFINE o == IF r.off >= Len(f) THEN Len(f) ELSE NextBol(f, r.off)
  <2>1. r.off \in Nat /\ Len(f) \in Nat
    BY LineFacts, ReaderParts
  <2>2. r.off <= Len(f)
    BY <1>3 DEF Landing
  <2>3. o = r.off
    BY <1>3, <2>1, <2>2, NextBolFacts
  <2> HIDE DEF o
  <2>4. Align(r, f) = IF o = r.off THEN r ELSE ClearWait([r EXCEPT !.off = o, !.bol = o])
    BY <1>3 DEF Align, o
  <2>5. Align(r, f) = r
    BY <2>3, <2>4
  <2> QED BY <2>5
<1> QED BY <1>1, <1>2, <1>3

\* A seek to a line start ends there, or at the end of the file when no
\* line is complete from there on.
LEMMA SeekFacts ==
  ASSUME NEW r \in RawReader, NEW f \in Seq(Cell), NEW o \in Nat, NEW s \in Nat \ {0},
         r.bol = o \/ Landing(f, o)
  PROVE  /\ SeekTo(r, f, o, s) \in ReaderType
         /\ SeekTo(r, f, o, s).off = IF Unended(f, o) THEN Len(f) ELSE o
         /\ SeekTo(r, f, o, s).bol = SeekTo(r, f, o, s).off
         /\ SeekTo(r, f, o, s).next = s
         /\ SeekTo(r, f, o, s).index = r.index
         /\ SeekTo(r, f, o, s).size = r.size
<1>1. PICK m : m = [r EXCEPT !.off = o]
  OBVIOUS
<1>2. m \in RawReader /\ m.off = o /\ m.bol = r.bol /\ m.index = r.index /\ m.size = r.size
  BY <1>1 DEF RawReader
<1>3. PICK a : a = Align(m, f)
  OBVIOUS
<1>4. a \in RawReader /\ a.off = o /\ a.index = r.index /\ a.size = r.size
  BY <1>2, <1>3, AlignStays
<1>5. PICK p : p = IF Unended(f, a.off) THEN [a EXCEPT !.off = Len(f)] ELSE a
  OBVIOUS
<1>6. /\ p \in RawReader /\ p.index = r.index /\ p.size = r.size
      /\ p.off = IF Unended(f, o) THEN Len(f) ELSE o
  <2>1. Len(f) \in Nat
    BY LineFacts
  <2>2. CASE Unended(f, a.off)
    <3>1. p = [a EXCEPT !.off = Len(f)]
      BY <1>5, <2>2
    <3> QED BY <1>4, <2>1, <2>2, <3>1 DEF RawReader
  <2>3. CASE ~Unended(f, a.off)
    BY <1>4, <1>5, <2>3
  <2> QED BY <2>2, <2>3
<1>7. PICK c : c = ClearWait(p)
  OBVIOUS
<1>8. c \in RawReader /\ c.off = p.off /\ c.index = p.index /\ c.size = p.size
  BY <1>6, <1>7, ClearWaitFacts
<1>9. c = AbandonTip(Align([r EXCEPT !.off = o], f), f)
  BY <1>1, <1>3, <1>5, <1>7 DEF AbandonTip
<1>10. SeekTo(r, f, o, s) = [c EXCEPT !.bol = c.off, !.next = s]
  BY <1>9 DEF SeekTo
<1>11. PICK e : e = [c EXCEPT !.bol = c.off, !.next = s]
  OBVIOUS
<1>12. /\ e \in RawReader /\ e.off = c.off /\ e.bol = c.off /\ e.next = s
       /\ e.index = c.index /\ e.size = c.size /\ e.bol \in Nat
  BY <1>8, <1>11 DEF RawReader
<1>13. e \in ReaderType
  BY <1>12, ReaderIsRaw
<1> QED BY <1>6, <1>8, <1>10, <1>11, <1>12, <1>13

\* An index and its entries.
LEMMA IndexParts ==
  ASSUME NEW x \in Index
  PROVE  x.era \in Nat /\ x.entries \in Seq(EntryType)
  BY DEF Index, EntryType

\* The reader q is where a seek to s with the index x leaves it: at a line
\* start or at the end, and before it is no record from s on that an index
\* which fits the file leads past.
Landed(q, f, x, s) ==
    /\ q \in ReaderType /\ q.bol = q.off /\ q.next = s /\ q.index = x
    /\ Landing(f, q.off)
    /\ SoundFor(f, x.entries) =>
          \A a \in 0 .. Len(f) - 1 : RecordAt(f, a) /\ Bol(f, a) /\ a < q.off => SeqAt(f, a) < s

\* Both seeks land so.
LEMMA SeekLands ==
  ASSUME NEW r \in RawReader, NEW f \in Seq(Cell), NEW s \in Nat \ {0}
  PROVE  /\ Landed(SeekTo(r, f, ByteOffsetForSeq(f, r.index.entries, s), s), f, r.index, s)
         /\ SeekTo(r, f, ByteOffsetForSeq(f, r.index.entries, s), s).size = r.size
<1>1. r.index.entries \in Seq(EntryType) /\ s \in Nat /\ Len(f) \in Nat
  BY IndexParts, ReaderParts, LineFacts
<1>2. PICK b \in Nat :
        /\ b = ByteOffsetForSeq(f, r.index.entries, s)
        /\ Landing(f, b)
        /\ SoundFor(f, r.index.entries) =>
              \A a \in 0 .. Len(f) - 1 :
                 RecordAt(f, a) /\ Bol(f, a) /\ a < b => SeqAt(f, a) < s
  BY <1>1, ByteOffsetFacts
<1>3. PICK q : q = SeekTo(r, f, b, s)
  OBVIOUS
<1>4. /\ q \in ReaderType /\ q.bol = q.off /\ q.next = s /\ q.index = r.index
      /\ q.size = r.size
      /\ q.off = IF Unended(f, b) THEN Len(f) ELSE b
  BY <1>2, <1>3, SeekFacts
<1>5. Landing(f, q.off)
  <2>1. Landing(f, Len(f))
    BY <1>1 DEF Landing
  <2> QED BY <1>2, <1>4, <2>1
<1>6. ASSUME SoundFor(f, r.index.entries), NEW a \in 0 .. Len(f) - 1,
             RecordAt(f, a), Bol(f, a), a < q.off
      PROVE  SeqAt(f, a) < s
  <2>1. a \in Nat
    BY <1>1
  <2>2. CASE a < b
    BY <1>2, <1>6, <2>2
  <2>3. CASE a >= b
    <3>1. ~Unended(f, b)
      BY <1>2, <1>6, <2>1, <2>3, RecordIsEnded
    <3> QED BY <1>2, <1>4, <1>6, <2>1, <2>3, <3>1
  <2> QED BY <1>2, <2>1, <2>2, <2>3
<1>7. Landed(q, f, r.index, s)
  BY <1>4, <1>5, <1>6 DEF Landed
<1> QED BY <1>2, <1>3, <1>4, <1>7

\* reset_from_seq that moves the cursor, and the one that keeps it.
LEMMA ResetMoves ==
  ASSUME NEW r \in RawReader, NEW f \in Seq(Cell), NEW s \in Nat \ {0}, ~KeepsCursor(r, f, s)
  PROVE  Landed(ResetFromSeq(r, f, s), f, r.index, s) /\ ResetFromSeq(r, f, s).size = r.size
<1>1. ResetFromSeq(r, f, s) = SeekTo(r, f, ByteOffsetForSeq(f, r.index.entries, s), s)
  BY DEF ResetFromSeq
<1> QED BY <1>1, SeekLands

\* The seek that keeps the cursor gives up at most the fragment after it.
LEMMA ResetKeeps ==
  ASSUME NEW r \in RawReader, NEW f \in Seq(Cell), NEW s \in Nat \ {0},
         KeepsCursor(r, f, s), r.bol = r.off
  PROVE  /\ r.off <= Len(f) /\ s = r.next
         /\ ResetFromSeq(r, f, s) \in ReaderType
         /\ ResetFromSeq(r, f, s).off = IF Unended(f, r.off) THEN Len(f) ELSE r.off
         /\ ResetFromSeq(r, f, s).bol = ResetFromSeq(r, f, s).off
         /\ ResetFromSeq(r, f, s).next = s
         /\ ResetFromSeq(r, f, s).index = r.index
         /\ ResetFromSeq(r, f, s).size = r.size
<1>1. ResetFromSeq(r, f, s) = SeekTo(r, f, r.off, s)
  BY DEF ResetFromSeq
<1>2. r.off \in Nat
  BY ReaderParts
<1>3. r.off <= Len(f) /\ s = r.next
  BY DEF KeepsCursor
<1> QED BY <1>1, <1>2, <1>3, SeekFacts

\* force_rebind_from_seq
LEMMA RebindLands ==
  ASSUME NEW r \in RawReader, NEW f \in Seq(Cell), NEW s \in Nat \ {0}
  PROVE  Landed(ForceRebind(r, f, s), f, r.index, s) /\ ForceRebind(r, f, s).size = r.size
<1>1. PICK c : c = ClearWait(r)
  OBVIOUS
<1>2. c \in RawReader /\ c.index = r.index /\ c.size = r.size
  BY <1>1, ClearWaitFacts
<1>3. PICK m : m = [c EXCEPT !.bol = None]
  OBVIOUS
<1>4. m \in RawReader /\ m.index = r.index /\ m.size = r.size
  BY <1>2, <1>3 DEF RawReader
<1>5. ForceRebind(r, f, s) = SeekTo(m, f, ByteOffsetForSeq(f, m.index.entries, s), s)
  BY <1>1, <1>3, <1>4 DEF ForceRebind
<1>6. /\ Landed(SeekTo(m, f, ByteOffsetForSeq(f, m.index.entries, s), s), f, m.index, s)
      /\ SeekTo(m, f, ByteOffsetForSeq(f, m.index.entries, s), s).size = m.size
  BY <1>4, SeekLands
<1> QED BY <1>4, <1>5, <1>6

\* What a pass over the file returns.
LEMMA ReturnedFacts ==
  ASSUME NEW r \in ReaderType, NEW f \in Seq(Cell)
  PROVE  /\ \A s \in Returned(r, f) :
               /\ s \in Records /\ s >= r.next
               /\ \E a \in 0 .. Len(f) - 1 :
                     a \in LineStarts(f, r.off) /\ RecordAt(f, a) /\ s = SeqAt(f, a)
         /\ \A a \in LineStarts(f, r.off) :
               /\ RecordAt(f, a) /\ SeqAt(f, a) >= r.next
               /\ \A c \in 0 .. Len(f) - 1 : RecordAt(f, c) /\ c < a => SeqAt(f, c) < SeqAt(f, a)
               => SeqAt(f, a) \in Returned(r, f)
<1>1. Len(f) \in Nat /\ r.off \in Nat
  BY LineFacts, ReaderIsRaw, ReaderParts
<1>2. \A a \in LineStarts(f, r.off) : RecordAt(f, a) => a \in 0 .. Len(f) - 1 /\ SeqAt(f, a) \in Records
  <2> SUFFICES ASSUME NEW a \in LineStarts(f, r.off), RecordAt(f, a)
               PROVE  a \in 0 .. Len(f) - 1 /\ SeqAt(f, a) \in Records
    OBVIOUS
  <2>1. a \in Nat
    BY <1>1, LineFacts
  <2>2. a < Len(f) /\ SeqAt(f, a) \in Records
    BY <2>1, RecordParts
  <2> QED BY <1>1, <2>1, <2>2
<1> DEFINE records == {a \in LineStarts(f, r.off) : RecordAt(f, a)}
           firsts == {b \in records : /\ SeqAt(f, b) >= r.next
                                      /\ \A c \in records : c < b => SeqAt(f, c) < SeqAt(f, b)}
<1>3. Returned(r, f) = {SeqAt(f, a) : a \in firsts}
  BY DEF Returned
<1>4. \A a \in firsts : a \in LineStarts(f, r.off) /\ RecordAt(f, a) /\ SeqAt(f, a) >= r.next
  OBVIOUS
<1>5. ASSUME NEW a \in LineStarts(f, r.off), RecordAt(f, a), SeqAt(f, a) >= r.next,
             \A c \in 0 .. Len(f) - 1 : RecordAt(f, c) /\ c < a => SeqAt(f, c) < SeqAt(f, a)
      PROVE  a \in firsts
  <2>1. \A c \in records : c < a => SeqAt(f, c) < SeqAt(f, a)
    BY <1>2, <1>5
  <2> QED BY <1>5, <2>1
<1> HIDE DEF firsts
<1> QED BY <1>2, <1>3, <1>4, <1>5

\* A pass over the file leaves the cursor at its last line start, or at the
\* end when the fragment there is given up.
LEMMA ReadOnFacts ==
  ASSUME NEW r \in ReaderType, r.bol = r.off, NEW f \in Seq(Cell)
  PROVE  /\ ReadOn(r, f) \in ReaderType
         /\ ReadOn(r, f).bol = ReadOn(r, f).off
         /\ ReadOn(r, f).index = r.index
         /\ ReadOn(r, f).off \in LineStarts(f, r.off) \cup {Len(f)}
         /\ ReadOn(r, f).off >= r.off
         /\ r.off <= Len(f) => ReadOn(r, f).off <= Len(f)
         /\ ReadOn(r, f).next >= r.next
         /\ ReadOn(r, f).next = r.next \/ ReadOn(r, f).next - 1 \in Returned(r, f)
         /\ \A s \in Returned(r, f) : s < ReadOn(r, f).next
         /\ ReadOn(r, f).size = r.size
<1>1. PICK o \in LineStarts(f, r.off) : o = Max(LineStarts(f, r.off)) /\ Unended(f, o)
  BY LastLineStart, ReaderIsRaw, ReaderParts
<1>2. Len(f) \in Nat /\ r.off \in Nat /\ o \in Nat /\ o >= r.off /\ (o = r.off \/ o <= Len(f))
  BY LineFacts, ReaderIsRaw, ReaderParts
<1>3. PICK n : n = Max({r.next} \cup {s + 1 : s \in Returned(r, f)})
  OBVIOUS
<1>4. /\ n \in Nat \ {0} /\ n >= r.next
      /\ n = r.next \/ n - 1 \in Returned(r, f)
      /\ \A s \in Returned(r, f) : s + 1 <= n
  <2>1. r.next \in Nat \ {0}
    BY ReaderIsRaw, ReaderParts
  <2>2. \A s \in Returned(r, f) : s \in 1 .. Len(Width)
    BY ReturnedFacts, RecordSizes
  <2>3. PICK m \in Nat : m >= r.next /\ m >= Len(Width) + 1
    <3>1. Len(Width) \in Nat
      BY RecordSizes
    <3>2. PICK m : m = r.next + Len(Width) + 1
      OBVIOUS
    <3>3. m \in Nat /\ m >= r.next /\ m >= Len(Width) + 1
      BY <2>1, <3>1, <3>2
    <3> QED BY <3>3
  <2> DEFINE T == {r.next} \cup {s + 1 : s \in Returned(r, f)}
  <2>4. T \subseteq 0 .. m /\ r.next \in T
    BY <2>1, <2>2, <2>3, RecordSizes
  <2>5. n \in T /\ \A t \in T : n >= t
    <3>1. n = Max(T)
      BY <1>3
    <3> HIDE DEF T
    <3> QED BY <2>3, <2>4, <3>1, GreatestOf
  <2>6. n = r.next => n \in Nat \ {0}
    BY <2>1
  <2>7. ASSUME NEW s \in Returned(r, f), n = s + 1 PROVE n - 1 \in Returned(r, f) /\ n \in Nat \ {0}
    <3>1. s \in Nat
      BY <2>2, RecordSizes
    <3>2. n - 1 = s
      BY <2>7, <3>1
    <3> QED BY <2>7, <3>1, <3>2
  <2>8. n >= r.next /\ \A s \in Returned(r, f) : s + 1 <= n
    <3>1. n \in Nat
      BY <2>5, <2>6, <2>7
    <3> QED BY <2>1, <2>2, <2>5, <3>1, RecordSizes
  <2> QED BY <2>5, <2>6, <2>7, <2>8
<1>5. PICK read : read = IF o = r.off THEN r ELSE ClearWait([r EXCEPT !.off = o, !.bol = o, !.next = n])
  OBVIOUS
<1>6. /\ read \in ReaderType /\ read.off = o /\ read.bol = o /\ read.index = r.index
      /\ read.size = r.size
      /\ (o = r.off /\ read.next = r.next) \/ read.next = n
  <2>1. CASE o = r.off
    BY <1>5, <2>1
  <2>2. CASE o # r.off
    <3>1. PICK m : m = [r EXCEPT !.off = o, !.bol = o, !.next = n]
      OBVIOUS
    <3>2. /\ m \in RawReader /\ m.off = o /\ m.bol = o /\ m.index = r.index /\ m.next = n
          /\ m.size = r.size
      <4>1. r \in RawReader
        BY ReaderIsRaw
      <4> QED BY <1>2, <1>4, <3>1, <4>1 DEF RawReader
    <3>3. read = ClearWait(m)
      BY <1>5, <2>2, <3>1
    <3>4. /\ read \in RawReader /\ read.off = o /\ read.bol = o
          /\ read.index = r.index /\ read.next = n /\ read.size = r.size
      BY <3>2, <3>3, ClearWaitFacts
    <3> QED BY <1>2, <3>4, ReaderIsRaw
  <2> QED BY <2>1, <2>2
<1>7. PICK q : q = ReadOn(r, f)
  OBVIOUS
<1>8. q = CASE o >= Len(f) -> read
            [] o < Len(f) /\ SkipsNow(read, f, o) ->
                 ClearWait([read EXCEPT !.off = Len(f), !.bol = Len(f)])
            [] OTHER -> [read EXCEPT !.wait = Waiting(read, f, o)]
  BY <1>1, <1>3, <1>5, <1>7 DEF ReadOn
<1>9. /\ q \in ReaderType /\ q.bol = q.off /\ q.index = r.index /\ q.size = r.size
      /\ q.off = o \/ (q.off = Len(f) /\ o < Len(f))
      /\ q.next = read.next
  <2>1. CASE o >= Len(f)
    BY <1>2, <1>6, <1>8, <2>1
  <2>2. CASE o < Len(f) /\ SkipsNow(read, f, o)
    <3>1. q = ClearWait([read EXCEPT !.off = Len(f), !.bol = Len(f)])
      BY <1>2, <1>8, <2>2
    <3>2. PICK m : m = [read EXCEPT !.off = Len(f), !.bol = Len(f)]
      OBVIOUS
    <3>3. /\ m \in RawReader /\ m.off = Len(f) /\ m.bol = Len(f)
          /\ m.index = r.index /\ m.next = read.next /\ m.size = r.size
      <4>1. read \in RawReader
        BY <1>6, ReaderIsRaw
      <4> QED BY <1>2, <1>6, <3>2, <4>1 DEF RawReader
    <3>4. /\ q \in RawReader /\ q.off = Len(f) /\ q.bol = Len(f)
          /\ q.index = r.index /\ q.next = read.next /\ q.size = r.size
      BY <3>1, <3>2, <3>3, ClearWaitFacts
    <3> QED BY <1>2, <2>2, <3>4, ReaderIsRaw
  <2>3. CASE o < Len(f) /\ ~SkipsNow(read, f, o)
    <3>1. q = [read EXCEPT !.wait = Waiting(read, f, o)]
      BY <1>2, <1>8, <2>3
    <3>2. Waiting(read, f, o) \in WaitType
      <4>1. Len(f) - o \in Nat
        BY <1>2, <2>3
      <4>2. read.wait \in WaitType
        BY <1>6, ReaderIsRaw, ReaderParts
      <4> QED BY <1>2, <4>1, <4>2 DEF Waiting, WaitType
    <3>3. read \in RawReader
      BY <1>6, ReaderIsRaw
    <3>4. /\ q \in RawReader /\ q.off = o /\ q.bol = o /\ q.index = r.index /\ q.next = read.next
          /\ q.size = r.size
      BY <1>6, <3>1, <3>2, <3>3 DEF RawReader
    <3> QED BY <1>2, <3>4, ReaderIsRaw
  <2> QED BY <1>2, <2>1, <2>2, <2>3
<1>10. r.next \in Nat
  BY ReaderIsRaw, ReaderParts
<1>11. ASSUME NEW s \in Returned(r, f) PROVE s < q.next
  <2>1. s \in Nat /\ s + 1 <= n
    BY <1>4, <1>11, ReturnedFacts, RecordSizes
  <2>2. o # r.off
    <3>1. PICK a \in 0 .. Len(f) - 1 : a \in LineStarts(f, r.off) /\ RecordAt(f, a)
      BY <1>11, ReturnedFacts
    <3>2. a \in Nat /\ a >= r.off
      BY <1>2, <3>1, LineFacts
    <3> QED BY <1>1, <1>2, <3>1, <3>2, RecordIsEnded
  <2> QED BY <1>4, <1>6, <1>9, <2>1, <2>2
<1> QED BY <1>1, <1>2, <1>4, <1>6, <1>7, <1>9, <1>10, <1>11

-----------------------------------------------------------------------------
(* The invariant of the file and of the indexes *)

\* The pieces of the line that is being written are at the end of the file.
LineBeingWritten ==
    /\ writing <= Len(file)
    /\ writing > 0 => tip + 1 \in Records /\ writing < Width[tip + 1]
    /\ \A k \in 1 .. writing :
          file[Len(file) - writing + k] = [seq |-> tip + 1, piece |-> k]

\* The complete records increase, up to the tip.
RecordsInOrder ==
    /\ \A a \in 0 .. Len(file) - 1 : RecordAt(file, a) => SeqAt(file, a) <= tip
    /\ \A a, b \in 0 .. Len(file) - 1 :
          RecordAt(file, a) /\ RecordAt(file, b) /\ a < b => SeqAt(file, a) < SeqAt(file, b)

FileInv == FileTypeOK /\ LineBeingWritten /\ RecordsInOrder

\* An index of the file as it is leads to the records it names, and not into
\* the line being written; one from before the last rewrite may say anything.
SoundIndex(x) ==
    /\ x.era <= rewrites
    /\ x.era = rewrites =>
          /\ SoundFor(file, x.entries)
          /\ \A k \in 1 .. Len(x.entries) : x.entries[k].off <= Len(file) - writing

IndexesFit ==
    /\ index.era = rewrites
    /\ writing > 0 => index.era = published.index.era
    /\ SoundIndex(index) /\ SoundIndex(published.index)

\* The types of the file, one by one.
LEMMA FileParts ==
  ASSUME FileTypeOK
  PROVE  /\ file \in Seq(Cell) /\ Len(file) \in Nat
         /\ tip \in Nat /\ tip \in {0} \cup Records
         /\ writing \in Nat /\ rewrites \in Nat /\ torn \in Nat
         /\ index \in Index /\ published.index \in Index /\ published.latest \in {0} \cup Records
<1>1. file \in Seq(Cell)
  BY DEF FileTypeOK
<1>2. tip \in {0} \cup Records /\ writing \in Nat /\ index \in Index
  BY DEF FileTypeOK
<1>3. rewrites \in 0 .. MaxRewrites /\ torn \in 0 .. MaxTorn
  BY DEF FileTypeOK
<1>4. published.index \in Index /\ published.latest \in {0} \cup Records
  BY DEF FileTypeOK
<1>5. rewrites \in Nat /\ torn \in Nat
  BY <1>3, FileAssumption
<1>6. tip \in Nat
  BY <1>2, RecordSizes
<1> QED BY <1>1, <1>2, <1>4, <1>5, <1>6, LineFacts

\* The line being written has no end yet.
LEMMA NoEndYet ==
  ASSUME FileTypeOK, LineBeingWritten, NEW k \in Nat, k > Len(file) - writing, k <= Len(file)
  PROVE  /\ ~IsEnd(file[k])
         /\ file[k].seq = tip + 1 /\ file[k].piece = k - (Len(file) - writing)
         /\ tip + 1 \in Records
<1>1. Len(file) \in Nat /\ writing \in Nat /\ tip \in Nat
  BY FileParts
<1>2. PICK j : j = k - (Len(file) - writing)
  OBVIOUS
<1>3. j \in 1 .. writing /\ k = Len(file) - writing + j
  BY <1>1, <1>2
<1>4. file[k] = [seq |-> tip + 1, piece |-> j]
  BY <1>3 DEF LineBeingWritten
<1>5. writing < Width[tip + 1] /\ tip + 1 \in Records
  BY <1>1, <1>3 DEF LineBeingWritten
<1>6. Width[tip + 1] \in Nat
  BY <1>5, RecordSizes
<1>7. file[k].seq = tip + 1 /\ file[k].piece = j
  BY <1>4
<1>8. j # Width[tip + 1]
  BY <1>1, <1>3, <1>5, <1>6
<1> QED BY <1>2, <1>5, <1>7, <1>8 DEF IsEnd

\* A cursor at a line start is not inside the line being written.
LEMMA NotInTheLine ==
  ASSUME FileInv, NEW o \in Nat, writing > 0, o > Len(file) - writing, Landing(file, o)
  PROVE  o = Len(file)
<1>1. FileTypeOK /\ LineBeingWritten /\ Len(file) \in Nat /\ writing \in Nat /\ writing <= Len(file)
  BY FileParts DEF FileInv, LineBeingWritten
<1>2. o <= Len(file)
  BY DEF Landing
<1>3. ~IsEnd(file[o])
  BY <1>1, <1>2, NoEndYet
<1>4. o # 0
  BY <1>1
<1> QED BY <1>3, <1>4 DEF Landing

-----------------------------------------------------------------------------
(* One piece more *)

\* The only record that can become complete is the one being written.
LEMMA PieceWritten ==
  ASSUME FileInv, WritePiece
  PROVE  /\ file' \in Seq(Cell) /\ Len(file') = Len(file) + 1
         /\ \A k \in 1 .. Len(file) : file'[k] = file[k]
         /\ \A a \in 0 .. Len(file') - 1 : RecordAt(file', a) =>
               \/ a \in 0 .. Len(file) - 1 /\ RecordAt(file, a) /\ SeqAt(file', a) = SeqAt(file, a)
               \/ /\ writing > 0 /\ writing' = 0 /\ tip' = tip + 1
                  /\ a = Len(file) - writing /\ SeqAt(file', a) = tip + 1
<1>1. /\ file \in Seq(Cell) /\ Len(file) \in Nat /\ tip \in Nat /\ writing \in Nat
  BY FileParts DEF FileInv
<1>2. PICK s : s = tip + 1
  OBVIOUS
<1>3. PICK c : c = [seq |-> s, piece |-> writing + 1]
  OBVIOUS
<1>4. s \in Records /\ file' = Append(file, c)
  BY <1>2, <1>3 DEF WritePiece
<1>5. c \in Cell /\ c.seq = s /\ c.piece = writing + 1
  BY <1>1, <1>3, <1>4 DEF Cell
<1>6. PICK h \in Seq(Cell) : h = file'
  BY <1>1, <1>4, <1>5
<1>7. /\ Len(h) = Len(file) + 1
      /\ \A k \in 1 .. Len(file) : h[k] = file[k]
      /\ h[Len(file) + 1] = c
  BY <1>1, <1>4, <1>6
<1>8. ASSUME NEW a \in 0 .. Len(h) - 1, RecordAt(h, a)
      PROVE  \/ a \in 0 .. Len(file) - 1 /\ RecordAt(file, a) /\ SeqAt(h, a) = SeqAt(file, a)
             \/ /\ writing > 0 /\ writing' = 0 /\ tip' = tip + 1
                /\ a = Len(file) - writing /\ SeqAt(h, a) = tip + 1
  <2>1. a \in Nat
    BY <1>1, <1>7
  <2>2. PICK w : w = Width[SeqAt(h, a)]
    OBVIOUS
  <2>3. /\ w \in Nat /\ w > 1 /\ a + w <= Len(h) /\ SeqAt(h, a) \in Records
        /\ \A k \in 1 .. w : h[a + k].seq = SeqAt(h, a) /\ h[a + k].piece = k
    BY <1>6, <1>8, <2>1, <2>2, RecordParts
  <2>4. CASE a + w <= Len(file)
    <3>1. \A k \in 1 .. Len(file) : file[k] = h[k]
      BY <1>7
    <3>2. Len(file) <= Len(h) /\ Len(file) <= Len(file)
      BY <1>1, <1>7
    <3>3. RecordAt(file, a) /\ SeqAt(file, a) = SeqAt(h, a)
      BY <1>1, <1>6, <1>8, <2>1, <2>2, <2>4, <3>1, <3>2, SameRecord
    <3> QED BY <1>1, <2>1, <2>3, <2>4, <3>3
  <2>5. CASE ~(a + w <= Len(file))
    <3>1. a + w = Len(file) + 1
      BY <1>1, <1>7, <2>1, <2>3, <2>5
    <3>2. w \in 1 .. w
      BY <2>3
    <3>3. h[a + w].seq = SeqAt(h, a) /\ h[a + w].piece = w
      BY <2>3, <3>2
    <3>4. SeqAt(h, a) = s /\ w = writing + 1
      BY <1>5, <1>7, <3>1, <3>3
    <3>5. writing + 1 = Width[s]
      BY <2>2, <3>4
    <3>6. writing' = 0 /\ tip' = tip + 1
      BY <1>2, <3>5 DEF WritePiece
    <3> QED BY <1>1, <1>2, <2>1, <2>3, <3>1, <3>4, <3>6
  <2> QED BY <2>4, <2>5
<1> QED BY <1>6, <1>7, <1>8

\* A record complete before does not begin inside the line being written.
LEMMA BeforeTheLine ==
  ASSUME FileInv, NEW a \in Nat, RecordAt(file, a), writing > 0
  PROVE  a < Len(file) - writing
<1>1. Len(file) \in Nat /\ writing \in Nat /\ file \in Seq(Cell)
  BY FileParts DEF FileInv
<1>2. SUFFICES ASSUME a >= Len(file) - writing PROVE FALSE
  BY <1>1
<1>3. a < Len(file)
  BY <1>1, RecordParts
<1>4. a + 1 \in Nat /\ a + 1 > Len(file) - writing /\ a + 1 <= Len(file) /\ a \in 0 .. Len(file) - 1
  BY <1>1, <1>2, <1>3
<1>5. SeqAt(file, a) = tip + 1
  BY <1>4, NoEndYet DEF FileInv, SeqAt
<1>6. SeqAt(file, a) <= tip /\ tip \in Nat
  BY <1>4, FileParts DEF FileInv, RecordsInOrder
<1> QED BY <1>5, <1>6

\* The types of the file after the piece.
LEMMA WritePieceKeepsTypes ==
  ASSUME FileInv, WritePiece
  PROVE  FileTypeOK'
<1>1. /\ tip \in Nat /\ writing \in Nat /\ index \in Index /\ Len(file) \in Nat
      /\ writing <= Len(file)
  BY FileParts DEF FileInv, LineBeingWritten
<1>2. file' \in Seq(Cell)
  BY PieceWritten
<1>3. tip + 1 \in Records /\ (tip' = tip \/ tip' = tip + 1) /\ (writing' = 0 \/ writing' = writing + 1)
  BY DEF WritePiece
<1>4. index' \in Index
  <2>1. PICK e : e = [seq |-> tip + 1, off |-> Len(file) - writing]
    OBVIOUS
  <2>2. e \in EntryType
    BY <1>1, <2>1 DEF EntryType
  <2>3. index' = index \/ index' = [index EXCEPT !.entries = Append(@, e)]
    BY <2>1 DEF WritePiece
  <2>4. index.entries \in Seq(EntryType) /\ index.era \in Nat
    BY <1>1, IndexParts
  <2>5. Append(index.entries, e) \in Seq(EntryType)
    BY <2>2, <2>4
  <2> QED BY <1>1, <2>3, <2>4, <2>5 DEF Index, EntryType
<1>5. published' = published /\ torn' = torn /\ rewrites' = rewrites
  BY DEF WritePiece
<1>6. tip' \in {0} \cup Records /\ writing' \in Nat
  <2>1. tip \in {0} \cup Records
    BY FileParts DEF FileInv
  <2> QED BY <1>1, <1>3, <2>1
<1>7. /\ published' \in [latest : {0} \cup Records, index : Index]
      /\ torn' \in 0 .. MaxTorn /\ rewrites' \in 0 .. MaxRewrites
  BY <1>5 DEF FileInv, FileTypeOK
<1> QED BY <1>2, <1>4, <1>6, <1>7 DEF FileTypeOK

\* The line being written after the piece.
LEMMA WritePieceKeepsTheLine ==
  ASSUME FileInv, WritePiece
  PROVE  LineBeingWritten'
<1>1. /\ tip \in Nat /\ writing \in Nat /\ Len(file) \in Nat /\ writing <= Len(file)
      /\ file \in Seq(Cell)
  BY FileParts DEF FileInv, LineBeingWritten
<1>2. PICK h : h = file'
  OBVIOUS
<1>3. Len(h) = Len(file) + 1 /\ \A k \in 1 .. Len(file) : h[k] = file[k]
  BY <1>2, PieceWritten
<1>4. CASE writing + 1 = Width[tip + 1]
  <2>1. writing' = 0
    BY <1>4 DEF WritePiece
  <2>2. \A k \in 1 .. writing' : FALSE
    BY <2>1
  <2>3. writing' <= Len(file') /\ ~(writing' > 0)
    BY <1>1, <1>2, <1>3, <2>1
  <2> QED BY <2>2, <2>3 DEF LineBeingWritten
<1>5. CASE writing + 1 # Width[tip + 1]
  <2>1. writing' = writing + 1 /\ tip' = tip /\ tip + 1 \in Records
    BY <1>5 DEF WritePiece
  <2>2. Width[tip + 1] \in Nat /\ Width[tip + 1] > 1
    BY <2>1, RecordSizes
  <2>3. writing < Width[tip + 1]
    <3>1. CASE writing > 0
      BY <3>1 DEF FileInv, LineBeingWritten
    <3>2. CASE writing = 0
      BY <2>2, <3>2
    <3> QED BY <1>1, <3>1, <3>2
  <2>4. writing + 1 < Width[tip + 1]
    BY <1>1, <1>5, <2>2, <2>3
  <2>5. h[Len(file) + 1] = [seq |-> tip + 1, piece |-> writing + 1]
    <3>1. PICK c : c = [seq |-> tip + 1, piece |-> writing + 1]
      OBVIOUS
    <3>2. h = Append(file, c)
      BY <1>2, <3>1 DEF WritePiece
    <3> QED BY <1>1, <3>1, <3>2
  <2>6. \A k \in 1 .. writing : file[Len(file) - writing + k] = [seq |-> tip + 1, piece |-> k]
    BY DEF FileInv, LineBeingWritten
  <2>7. ASSUME NEW k \in 1 .. writing + 1
        PROVE  h[(Len(file) + 1) - (writing + 1) + k] = [seq |-> tip + 1, piece |-> k]
    <3>1. (Len(file) + 1) - (writing + 1) + k = Len(file) - writing + k
      BY <1>1
    <3>2. CASE k = writing + 1
      <4>1. Len(file) - writing + k = Len(file) + 1
        BY <1>1, <3>2
      <4> QED BY <2>5, <3>1, <3>2, <4>1
    <3>3. CASE k # writing + 1
      <4>1. k \in 1 .. writing /\ Len(file) - writing + k \in 1 .. Len(file)
        BY <1>1, <3>3
      <4>2. h[Len(file) - writing + k] = file[Len(file) - writing + k]
        BY <1>3, <4>1
      <4> QED BY <2>6, <3>1, <4>1, <4>2
    <3> QED BY <3>2, <3>3
  <2>8. \A k \in 1 .. writing' :
           file'[Len(file') - writing' + k] = [seq |-> tip' + 1, piece |-> k]
    BY <1>2, <1>3, <2>1, <2>7
  <2>9. writing' <= Len(file') /\ tip' + 1 \in Records /\ writing' < Width[tip' + 1]
    BY <1>1, <1>2, <1>3, <2>1, <2>4
  <2> QED BY <2>8, <2>9 DEF LineBeingWritten
<1> QED BY <1>4, <1>5

\* The order of the records after the piece.
LEMMA WritePieceKeepsOrder ==
  ASSUME FileInv, WritePiece
  PROVE  RecordsInOrder'
<1>1. /\ tip \in Nat /\ writing \in Nat /\ Len(file) \in Nat /\ file \in Seq(Cell)
  BY FileParts DEF FileInv
<1>2. PICK h \in Seq(Cell) : h = file'
  BY PieceWritten
<1>3. tip' = tip \/ tip' = tip + 1
  BY DEF WritePiece
<1> DEFINE Old(a) == a \in 0 .. Len(file) - 1 /\ RecordAt(file, a) /\ SeqAt(h, a) = SeqAt(file, a)
           New(a) == writing > 0 /\ tip' = tip + 1 /\ a = Len(file) - writing /\ SeqAt(h, a) = tip + 1
<1>4. \A a \in 0 .. Len(h) - 1 : RecordAt(h, a) => Old(a) \/ New(a)
  BY <1>2, PieceWritten
<1>5. \A a : Old(a) => SeqAt(h, a) \in Nat /\ SeqAt(h, a) <= tip
  <2> SUFFICES ASSUME NEW a, Old(a) PROVE SeqAt(h, a) \in Nat /\ SeqAt(h, a) <= tip
    OBVIOUS
  <2>1. a \in Nat
    BY <1>1
  <2>2. SeqAt(file, a) \in Nat
    BY <1>1, <2>1, RecordParts, RecordSizes
  <2> QED BY <2>2 DEF FileInv, RecordsInOrder
<1>6. \A a, b : Old(a) /\ Old(b) /\ a < b => SeqAt(h, a) < SeqAt(h, b)
  BY DEF FileInv, RecordsInOrder
<1>7. \A a, b : New(a) /\ Old(b) => b < a
  <2> SUFFICES ASSUME NEW a, NEW b, New(a), Old(b) PROVE b < a
    OBVIOUS
  <2>1. b \in Nat
    BY <1>1
  <2> QED BY <2>1, BeforeTheLine
<1>8. ASSUME NEW a \in 0 .. Len(h) - 1, RecordAt(h, a) PROVE SeqAt(h, a) <= tip'
  <2>1. CASE Old(a)
    BY <1>1, <1>3, <1>5, <2>1
  <2>2. CASE New(a)
    BY <1>1, <2>2
  <2> QED BY <1>4, <1>8, <2>1, <2>2
<1>9. ASSUME NEW a \in 0 .. Len(h) - 1, NEW b \in 0 .. Len(h) - 1,
             RecordAt(h, a), RecordAt(h, b), a < b
      PROVE  SeqAt(h, a) < SeqAt(h, b)
  <2>1. CASE Old(a) /\ Old(b)
    BY <1>6, <1>9, <2>1
  <2>2. CASE Old(a) /\ New(b)
    <3>1. SeqAt(h, a) \in Nat /\ SeqAt(h, a) <= tip
      BY <1>5, <2>2
    <3>2. SeqAt(h, b) = tip + 1
      BY <2>2
    <3> QED BY <1>1, <3>1, <3>2
  <2>3. CASE New(a) /\ Old(b)
    <3>1. b < a /\ a \in Int /\ b \in Int
      BY <1>1, <1>7, <2>3
    <3> QED BY <1>9, <3>1
  <2>4. CASE New(a) /\ New(b)
    BY <1>1, <1>9, <2>4
  <2> QED BY <1>4, <1>9, <2>1, <2>2, <2>3, <2>4
<1> QED BY <1>2, <1>8, <1>9 DEF RecordsInOrder

\* An index that fits goes on to fit, and so does its next entry.
LEMMA WritePieceKeepsIndex ==
  ASSUME FileInv, WritePiece, NEW x \in Index, SoundIndex(x)
  PROVE  SoundIndex(x)'
<1>1. /\ writing \in Nat /\ Len(file) \in Nat /\ file \in Seq(Cell) /\ writing <= Len(file)
  BY FileParts DEF FileInv, LineBeingWritten
<1>2. PICK h \in Seq(Cell) : h = file'
  BY PieceWritten
<1>3. rewrites' = rewrites /\ Len(h) = Len(file) + 1
  BY <1>2, PieceWritten DEF WritePiece
<1>4. x.era <= rewrites'
  BY <1>3 DEF SoundIndex
<1>5. SUFFICES ASSUME x.era = rewrites
               PROVE  /\ SoundFor(h, x.entries)
                      /\ \A k \in 1 .. Len(x.entries) : x.entries[k].off <= Len(h) - writing'
  BY <1>2, <1>3, <1>4 DEF SoundIndex
<1>6. /\ SoundFor(file, x.entries)
      /\ \A k \in 1 .. Len(x.entries) : x.entries[k].off <= Len(file) - writing
  BY <1>5 DEF SoundIndex
<1>7. x.entries \in Seq(EntryType)
  BY IndexParts
<1>8. Len(file) - writing <= Len(h) - writing' /\ Len(h) - writing' \in Int
  <2>1. writing' = 0 \/ writing' = writing + 1
    BY DEF WritePiece
  <2> QED BY <1>1, <1>3, <2>1
<1>9. ASSUME NEW k \in 1 .. Len(x.entries) PROVE x.entries[k].off <= Len(h) - writing'
  <2>1. x.entries[k].off \in Nat
    BY <1>7, EntryParts
  <2> QED BY <1>1, <1>6, <1>8, <2>1
<1>10. ASSUME NEW k \in 1 .. Len(x.entries), NEW a \in 0 .. Len(h) - 1,
              RecordAt(h, a), a < x.entries[k].off
       PROVE  SeqAt(h, a) < x.entries[k].seq
  <2>1. x.entries[k].off \in Nat /\ x.entries[k].off <= Len(file) - writing
    BY <1>6, <1>7, EntryParts
  <2>2. a # Len(file) - writing
    BY <1>1, <1>10, <2>1
  <2>3. a \in 0 .. Len(file) - 1 /\ RecordAt(file, a) /\ SeqAt(h, a) = SeqAt(file, a)
    BY <1>2, <1>10, <2>2, PieceWritten
  <2> QED BY <1>6, <1>10, <2>3 DEF SoundFor
<1> QED BY <1>9, <1>10 DEF SoundFor

\* The entry that an append may add leads to its record.
LEMMA WritePieceExtendsIndex ==
  ASSUME FileInv, WritePiece, SoundIndex(index), index.era = rewrites
  PROVE  SoundIndex(index)' /\ index'.era = rewrites'
<1>1. PICK x \in Index : x = index
  BY FileParts DEF FileInv
<1>2. SoundIndex(x)'
  BY <1>1, WritePieceKeepsIndex
<1>3. CASE index' = index
  <2>1. index' = x /\ rewrites' = rewrites
    BY <1>1, <1>3 DEF WritePiece
  <2>2. SoundIndex(index)'
    BY <1>2, <2>1 DEF SoundIndex
  <2> QED BY <1>1, <2>1, <2>2
<1>4. CASE index' # index
  <2>1. PICK e : e = [seq |-> tip + 1, off |-> Len(file) - writing]
    OBVIOUS
  <2>2. /\ index' = [index EXCEPT !.entries = Append(@, e)]
        /\ writing' = 0 /\ rewrites' = rewrites
    BY <1>4, <2>1 DEF WritePiece
  <2>3. PICK y : y = index'
    OBVIOUS
  <2>4. x.entries \in Seq(EntryType) /\ x.era \in Nat
    BY IndexParts
  <2>5. y.era = x.era /\ y.entries = Append(x.entries, e)
    BY <1>1, <2>2, <2>3 DEF Index
  <2>6. /\ writing \in Nat /\ Len(file) \in Nat /\ file \in Seq(Cell) /\ writing <= Len(file)
        /\ tip \in Nat
    BY FileParts DEF FileInv, LineBeingWritten
  <2>7. PICK h \in Seq(Cell) : h = file'
    BY PieceWritten
  <2>8. Len(h) = Len(file) + 1
    BY <2>7, PieceWritten
  <2>9. e \in EntryType /\ e.seq = tip + 1 /\ e.off = Len(file) - writing
    BY <2>1, <2>6 DEF EntryType
  <2>10. /\ Len(y.entries) = Len(x.entries) + 1
         /\ \A k \in 1 .. Len(x.entries) : y.entries[k] = x.entries[k]
         /\ y.entries[Len(x.entries) + 1] = e
    BY <2>4, <2>5, <2>9
  <2>11. /\ SoundFor(h, x.entries)
         /\ \A k \in 1 .. Len(x.entries) : x.entries[k].off <= Len(h) - 0
    <3>1. x.era = rewrites'
      BY <1>1, <2>2
    <3> QED BY <1>2, <2>2, <2>7, <3>1 DEF SoundIndex
  <2>12. ASSUME NEW a \in 0 .. Len(h) - 1, RecordAt(h, a), a < Len(file) - writing
         PROVE  SeqAt(h, a) < tip + 1
    <3>1. /\ a \in 0 .. Len(file) - 1 /\ RecordAt(file, a) /\ SeqAt(h, a) = SeqAt(file, a)
      BY <2>6, <2>7, <2>12, PieceWritten
    <3>2. SeqAt(file, a) <= tip
      BY <3>1 DEF FileInv, RecordsInOrder
    <3>3. SeqAt(file, a) \in Nat
      BY <2>6, <3>1, RecordParts, RecordSizes
    <3> QED BY <2>6, <3>1, <3>2, <3>3
  <2>13. \A k \in 1 .. Len(y.entries) : k \in 1 .. Len(x.entries) \/ k = Len(x.entries) + 1
    BY <2>4, <2>10
  <2>14. SoundFor(h, y.entries)
    <3> SUFFICES ASSUME NEW k \in 1 .. Len(y.entries), NEW a \in 0 .. Len(h) - 1,
                        RecordAt(h, a), a < y.entries[k].off
                 PROVE  SeqAt(h, a) < y.entries[k].seq
      BY DEF SoundFor
    <3>1. CASE k \in 1 .. Len(x.entries)
      <4>1. y.entries[k] = x.entries[k]
        BY <2>10, <3>1
      <4> QED BY <2>11, <3>1, <4>1 DEF SoundFor
    <3>2. CASE k = Len(x.entries) + 1
      <4>1. y.entries[k] = e
        BY <2>10, <3>2
      <4> QED BY <2>9, <2>12, <4>1
    <3> QED BY <2>13, <3>1, <3>2
  <2>15. ASSUME NEW k \in 1 .. Len(y.entries) PROVE y.entries[k].off <= Len(h) - 0
    <3>1. CASE k \in 1 .. Len(x.entries)
      <4>1. y.entries[k] = x.entries[k]
        BY <2>10, <3>1
      <4> QED BY <2>11, <3>1, <4>1
    <3>2. CASE k = Len(x.entries) + 1
      <4>1. y.entries[k] = e
        BY <2>10, <3>2
      <4> QED BY <2>6, <2>8, <2>9, <4>1
    <3> QED BY <2>13, <3>1, <3>2
  <2>16. x.era = rewrites'
    BY <1>1, <2>2
  <2>17. rewrites \in Nat
    BY FileParts DEF FileInv
  <2> QED BY <2>2, <2>3, <2>5, <2>7, <2>14, <2>15, <2>16, <2>17 DEF SoundIndex
<1> QED BY <1>3, <1>4

\* append, as others see it, keeps the invariant.
LEMMA WritePieceSafe ==
  ASSUME FileInv, IndexesFit, WritePiece
  PROVE  FileInv' /\ IndexesFit'
<1>1. FileInv'
  BY WritePieceKeepsTypes, WritePieceKeepsTheLine, WritePieceKeepsOrder DEF FileInv
<1>2. SoundIndex(index)' /\ index'.era = rewrites'
  BY WritePieceExtendsIndex DEF IndexesFit
<1>3. published' = published /\ rewrites' = rewrites /\ index.era = published.index.era
  BY DEF WritePiece, Compacting
<1>4. PICK p \in Index : p = published.index
  BY FileParts DEF FileInv
<1>5. SoundIndex(p)'
  BY <1>4, WritePieceKeepsIndex DEF IndexesFit
<1>6. SoundIndex(published.index)'
  <2>1. published'.index = p
    BY <1>3, <1>4
  <2> QED BY <1>5, <2>1 DEF SoundIndex
<1>7. index'.era = published'.index.era
  BY <1>2, <1>3 DEF IndexesFit
<1> QED BY <1>1, <1>2, <1>6, <1>7 DEF IndexesFit

-----------------------------------------------------------------------------
(* The end of a process, and the meta file *)

\* An index fits the file with a torn line as it did before.
LEMMA DieInLineKeepsIndex ==
  ASSUME FileInv, DieInLine, NEW x \in Index, SoundIndex(x)
  PROVE  SoundIndex(x)'
<1>1. writing' = 0 /\ file' = file /\ rewrites' = rewrites
  BY DEF DieInLine
<1>2. Len(file) \in Nat /\ writing \in Nat
  BY FileParts DEF FileInv
<1>3. x.era <= rewrites'
  BY <1>1 DEF SoundIndex
<1>4. ASSUME x.era = rewrites
      PROVE  /\ SoundFor(file, x.entries)
             /\ \A k \in 1 .. Len(x.entries) : x.entries[k].off <= Len(file) - 0
  <2>1. /\ SoundFor(file, x.entries)
        /\ \A k \in 1 .. Len(x.entries) : x.entries[k].off <= Len(file) - writing
    BY <1>4 DEF SoundIndex
  <2>2. \A k \in 1 .. Len(x.entries) : x.entries[k].off \in Nat
    <3>1. x.entries \in Seq(EntryType)
      BY IndexParts
    <3> QED BY <3>1, EntryParts
  <2> QED BY <1>2, <2>1, <2>2
<1> QED BY <1>1, <1>3, <1>4 DEF SoundIndex

\* The end of the process in the middle of a line keeps the invariant.
LEMMA DieInLineSafe ==
  ASSUME FileInv, IndexesFit, DieInLine
  PROVE  FileInv' /\ IndexesFit'
<1>1. /\ writing' = 0 /\ index' = published.index /\ torn' = torn + 1 /\ torn < MaxTorn
      /\ file' = file /\ tip' = tip /\ published' = published /\ rewrites' = rewrites
      /\ writing > 0
  BY DEF DieInLine
<1>2. /\ file \in Seq(Cell) /\ Len(file) \in Nat /\ tip \in {0} \cup Records
      /\ published.index \in Index /\ torn \in Nat /\ writing \in Nat
  BY FileParts DEF FileInv
<1>3. FileTypeOK'
  <2>1. torn' \in 0 .. MaxTorn
    BY <1>1, <1>2, FileAssumption
  <2>2. published \in [latest : {0} \cup Records, index : Index] /\ rewrites \in 0 .. MaxRewrites
    BY DEF FileInv, FileTypeOK
  <2> QED BY <1>1, <1>2, <2>1, <2>2 DEF FileTypeOK
<1>4. LineBeingWritten'
  <2>1. writing' <= Len(file') /\ ~(writing' > 0) /\ \A k \in 1 .. writing' : FALSE
    BY <1>1, <1>2
  <2> QED BY <2>1 DEF LineBeingWritten
<1>5. RecordsInOrder'
  BY <1>1 DEF FileInv, RecordsInOrder
<1>6. PICK p \in Index : p = published.index
  BY <1>2
<1>7. SoundIndex(p)'
  BY <1>6, DieInLineKeepsIndex DEF IndexesFit
<1>8. index'.era = rewrites'
  BY <1>1 DEF IndexesFit
<1>9. SoundIndex(index)' /\ SoundIndex(published.index)'
  <2>1. index' = p /\ published'.index = p
    BY <1>1, <1>6
  <2> QED BY <1>7, <2>1 DEF SoundIndex
<1>10. FileInv'
  BY <1>3, <1>4, <1>5 DEF FileInv
<1>11. ~(writing' > 0)
  BY <1>1
<1> QED BY <1>8, <1>9, <1>10, <1>11 DEF IndexesFit

\* So does the meta file that is written.
LEMMA PersistSafe ==
  ASSUME FileInv, IndexesFit, Persist
  PROVE  FileInv' /\ IndexesFit'
<1>1. /\ published' = [latest |-> tip, index |-> index] /\ writing = 0
      /\ file' = file /\ tip' = tip /\ writing' = writing /\ index' = index
      /\ torn' = torn /\ rewrites' = rewrites
  BY DEF Persist
<1>2. tip \in {0} \cup Records /\ index \in Index
  BY FileParts DEF FileInv
<1>3. FileTypeOK'
  <2>1. published' \in [latest : {0} \cup Records, index : Index]
    BY <1>1, <1>2
  <2>2. /\ file \in Seq(Cell) /\ writing \in Nat
        /\ torn \in 0 .. MaxTorn /\ rewrites \in 0 .. MaxRewrites
    BY DEF FileInv, FileTypeOK
  <2> QED BY <1>1, <1>2, <2>1, <2>2 DEF FileTypeOK
<1>4. LineBeingWritten' /\ RecordsInOrder'
  BY <1>1 DEF FileInv, LineBeingWritten, RecordsInOrder
<1>5. published'.index = index
  BY <1>1
<1>6. SoundIndex(index)' /\ SoundIndex(published.index)'
  <2>1. SoundIndex(index)
    BY DEF IndexesFit
  <2> QED BY <1>1, <1>5, <2>1 DEF SoundIndex
<1>7. index'.era = rewrites' /\ index'.era = published'.index.era
  BY <1>1, <1>5 DEF IndexesFit
<1> QED BY <1>3, <1>4, <1>6, <1>7 DEF FileInv, IndexesFit

-----------------------------------------------------------------------------
(* The rewrite *)

\* How many of S come before p.
Before(S, p) == {q \in S : q < p}

\* Every number of places before it is some place's.
LEMMA PlaceExists ==
  ASSUME NEW n \in Nat, NEW S, S \subseteq 1 .. n
  PROVE  \A i \in 1 .. Cardinality(S) : \E p \in S : Cardinality(Before(S, p)) = i - 1
<1> DEFINE Has(k) == \A T \in SUBSET (1 .. k) :
                       \A i \in 1 .. Cardinality(T) : \E p \in T : Cardinality(Before(T, p)) = i - 1
           N == {k \in Nat : Has(k)}
<1>1. Has(0)
  <2> SUFFICES ASSUME NEW T \in SUBSET (1 .. 0), NEW i \in 1 .. Cardinality(T) PROVE FALSE
    OBVIOUS
  <2>1. T = {}
    OBVIOUS
  <2>2. Cardinality(T) = 0
    BY <2>1, FS_EmptySet
  <2> QED BY <2>2
<1>2. ASSUME NEW k \in Nat, Has(k) PROVE Has(k + 1)
  <2> SUFFICES ASSUME NEW T \in SUBSET (1 .. k + 1), NEW i \in 1 .. Cardinality(T)
               PROVE  \E p \in T : Cardinality(Before(T, p)) = i - 1
    OBVIOUS
  <2>1. CASE k + 1 \notin T
    <3>1. T \in SUBSET (1 .. k)
      BY <2>1
    <3> QED BY <1>2, <3>1
  <2>2. CASE k + 1 \in T
    <3> DEFINE U == T \ {k + 1}
    <3>1. U \in SUBSET (1 .. k) /\ k + 1 \notin U
      OBVIOUS
    <3>2. IsFiniteSet(U) /\ Cardinality(U) \in Nat
      BY <3>1, PositionsCount
    <3>3. Cardinality(T) = Cardinality(U) + 1
      <4>1. T = U \cup {k + 1}
        BY <2>2
      <4> HIDE DEF U
      <4> QED BY <3>1, <3>2, <4>1, FS_AddElement
    <3>4. CASE i = Cardinality(U) + 1
      <4>1. \A q \in T : q < k + 1 <=> q # k + 1
        OBVIOUS
      <4>2. Before(T, k + 1) = U
        BY <4>1 DEF Before
      <4> QED BY <2>2, <3>2, <3>4, <4>2
    <3>5. CASE i # Cardinality(U) + 1
      <4>1. i \in 1 .. Cardinality(U)
        BY <3>2, <3>3, <3>5
      <4>2. PICK p \in U : Cardinality(Before(U, p)) = i - 1
        <5> HIDE DEF U
        <5> QED BY <1>2, <3>1, <4>1
      <4>3. Before(T, p) = Before(U, p) /\ p \in T
        BY DEF Before
      <4> QED BY <4>2, <4>3
    <3> QED BY <3>4, <3>5
  <2> QED BY <2>1, <2>2
<1> HIDE DEF Has
<1>3. 0 \in N /\ \A k \in N : k + 1 \in N
  BY <1>1, <1>2
<1>4. N = Nat
  BY <1>3, SetInduction
<1>5. Has(n)
  BY <1>4
<1> QED BY <1>5 DEF Has

\* Fewer places come before a smaller one.
LEMMA FewerBefore ==
  ASSUME NEW n \in Nat, NEW S, S \subseteq 1 .. n, NEW p \in S, NEW q \in S, p < q
  PROVE  /\ Cardinality(Before(S, p)) \in Nat /\ Cardinality(Before(S, q)) \in Nat
         /\ Cardinality(Before(S, p)) < Cardinality(Before(S, q))
         /\ Cardinality(Before(S, q)) < Cardinality(S)
<1>1. p \in Int /\ q \in Int /\ \A x \in S : x \in Int
  OBVIOUS
<1>2. Before(S, p) \cup {p} \subseteq Before(S, q) /\ p \notin Before(S, p)
  <2>1. \A x \in S : x < p => x < q
    BY <1>1
  <2>2. ~(p < p)
    BY <1>1
  <2> QED BY <2>1, <2>2 DEF Before
<1>3. Before(S, q) \cup {q} \subseteq S /\ q \notin Before(S, q)
  <2>1. ~(q < q)
    BY <1>1
  <2> QED BY <2>1 DEF Before
<1>4. IsFiniteSet(S) /\ Cardinality(S) \in Nat
  BY PositionsCount
<1>5. Before(S, p) \subseteq 1 .. n /\ Before(S, q) \subseteq 1 .. n
  BY DEF Before
<1>6. /\ IsFiniteSet(Before(S, p)) /\ Cardinality(Before(S, p)) \in Nat
      /\ IsFiniteSet(Before(S, q)) /\ Cardinality(Before(S, q)) \in Nat
  BY <1>5, PositionsCount
<1>7. Cardinality(Before(S, p)) + 1 <= Cardinality(Before(S, q))
  <2>1. Cardinality(Before(S, p) \cup {p}) = Cardinality(Before(S, p)) + 1
    BY <1>2, <1>6, FS_AddElement
  <2>2. Cardinality(Before(S, p) \cup {p}) <= Cardinality(Before(S, q))
    BY <1>2, <1>6, FS_Subset
  <2> QED BY <2>1, <2>2
<1>8. Cardinality(Before(S, q)) + 1 <= Cardinality(S)
  <2>1. Cardinality(Before(S, q) \cup {q}) = Cardinality(Before(S, q)) + 1
    BY <1>3, <1>6, FS_AddElement
  <2>2. Cardinality(Before(S, q) \cup {q}) <= Cardinality(S)
    BY <1>3, <1>4, FS_Subset
  <2> QED BY <2>1, <2>2
<1> QED BY <1>4, <1>6, <1>7, <1>8

\* The places of a set in order.
LEMMA InOrderFacts ==
  ASSUME NEW n \in Nat, NEW S, S \subseteq 1 .. n
  PROVE  /\ InOrder(S) \in Seq(S) /\ DOMAIN InOrder(S) = 1 .. Len(InOrder(S))
         /\ \A i, j \in 1 .. Len(InOrder(S)) : i < j => InOrder(S)[i] < InOrder(S)[j]
         /\ \A p \in S : \E i \in 1 .. Len(InOrder(S)) : InOrder(S)[i] = p
<1>1. Cardinality(S) \in Nat
  BY PositionsCount
<1> DEFINE place(i) == CHOOSE p \in S : Cardinality(Before(S, p)) = i - 1
<1>2. \A i \in 1 .. Cardinality(S) : place(i) \in S /\ Cardinality(Before(S, place(i))) = i - 1
  BY PlaceExists
<1>3. InOrder(S) = [i \in 1 .. Cardinality(S) |-> place(i)]
  BY DEF InOrder, Before
<1>4. ASSUME NEW i \in 1 .. Cardinality(S), NEW j \in 1 .. Cardinality(S), i < j
      PROVE  place(i) < place(j)
  <2>1. PICK p \in S : p = place(i) /\ Cardinality(Before(S, p)) = i - 1
    BY <1>2
  <2>2. PICK q \in S : q = place(j) /\ Cardinality(Before(S, q)) = j - 1
    BY <1>2
  <2> HIDE DEF place
  <2>3. p \in Int /\ q \in Int
    OBVIOUS
  <2>4. p # q
    BY <1>1, <1>4, <2>1, <2>2
  <2>5. ~(q < p)
    <3>1. q < p => Cardinality(Before(S, q)) < Cardinality(Before(S, p))
      BY FewerBefore
    <3> QED BY <1>1, <1>4, <2>1, <2>2, <3>1
  <2> QED BY <2>1, <2>2, <2>3, <2>4, <2>5
<1> HIDE DEF place
<1>5. InOrder(S) \in Seq(S)
  BY <1>1, <1>2, <1>3
<1>6. Len(InOrder(S)) = Cardinality(S) /\ DOMAIN InOrder(S) = 1 .. Cardinality(S)
  BY <1>1, <1>3
<1>7. ASSUME NEW p \in S PROVE \E i \in 1 .. Cardinality(S) : place(i) = p
  <2>1. Before(S, p) \cup {p} \subseteq S /\ p \notin Before(S, p)
    BY DEF Before
  <2>2. Before(S, p) \subseteq 1 .. n
    BY DEF Before
  <2>3. IsFiniteSet(S) /\ IsFiniteSet(Before(S, p)) /\ Cardinality(Before(S, p)) \in Nat
    BY <2>2, PositionsCount
  <2>4. Cardinality(Before(S, p)) + 1 <= Cardinality(S)
    <3>1. Cardinality(Before(S, p) \cup {p}) = Cardinality(Before(S, p)) + 1
      BY <2>1, <2>3, FS_AddElement
    <3>2. Cardinality(Before(S, p) \cup {p}) <= Cardinality(S)
      BY <2>1, <2>3, FS_Subset
    <3> QED BY <3>1, <3>2
  <2>5. PICK i \in 1 .. Cardinality(S) : i - 1 = Cardinality(Before(S, p))
    <3>1. PICK i : i = Cardinality(Before(S, p)) + 1
      OBVIOUS
    <3>2. i \in 1 .. Cardinality(S) /\ i - 1 = Cardinality(Before(S, p))
      BY <1>1, <2>3, <2>4, <3>1
    <3> QED BY <3>2
  <2>6. PICK q \in S : q = place(i) /\ Cardinality(Before(S, q)) = i - 1
    BY <1>2
  <2>7. Cardinality(Before(S, q)) = Cardinality(Before(S, p))
    BY <2>5, <2>6
  <2>8. ~(q < p)
    <3>1. q < p => Cardinality(Before(S, q)) < Cardinality(Before(S, p))
      BY FewerBefore
    <3> QED BY <2>3, <2>7, <3>1
  <2>9. ~(p < q)
    <3>1. p < q => Cardinality(Before(S, p)) < Cardinality(Before(S, q))
      BY FewerBefore
    <3> QED BY <2>3, <2>7, <3>1
  <2>10. p \in Int /\ q \in Int
    OBVIOUS
  <2>11. p = q
    BY <2>8, <2>9, <2>10
  <2> QED BY <2>6, <2>11
<1>8. /\ DOMAIN InOrder(S) = 1 .. Len(InOrder(S))
      /\ \A i \in 1 .. Len(InOrder(S)) : i \in 1 .. Cardinality(S) /\ InOrder(S)[i] = place(i)
      /\ \A i \in 1 .. Cardinality(S) : i \in 1 .. Len(InOrder(S)) /\ InOrder(S)[i] = place(i)
  BY <1>1, <1>3, <1>6
<1>9. \A i, j \in 1 .. Len(InOrder(S)) : i < j => InOrder(S)[i] < InOrder(S)[j]
  BY <1>4, <1>8
<1>10. \A p \in S : \E i \in 1 .. Len(InOrder(S)) : InOrder(S)[i] = p
  BY <1>7, <1>8
<1> QED BY <1>5, <1>8, <1>9, <1>10

\* What is kept are places of whole records.
LEMMA RetainedFacts ==
  ASSUME FileInv, NEW m
  PROVE  /\ Retained(m) \subseteq 1 .. Len(file)
         /\ \A p \in Retained(m) : file[p].piece = 1 => p - 1 \in 0 .. Len(file) - 1 /\ RecordAt(file, p - 1)
<1>1. file \in Seq(Cell) /\ Len(file) \in Nat
  BY FileParts DEF FileInv
<1>2. SUFFICES ASSUME NEW p \in Retained(m)
               PROVE  /\ p \in 1 .. Len(file)
                      /\ file[p].piece = 1 => p - 1 \in 0 .. Len(file) - 1 /\ RecordAt(file, p - 1)
  BY Zenon
<1>3. PICK a \in LineStarts(file, 0) : RecordAt(file, a) /\ p \in (a + 1) .. (a + Width[SeqAt(file, a)])
  BY <1>2, Zenon DEF Retained
<1>4. a \in Nat
  BY <1>1, <1>3, LineFacts
<1>5. PICK w : w = Width[SeqAt(file, a)]
  OBVIOUS
<1>6. /\ w \in Nat /\ a + w <= Len(file)
      /\ \A k \in 1 .. w : file[a + k].piece = k
  BY <1>1, <1>3, <1>4, <1>5, RecordParts
<1>7. PICK k : k = p - a
  OBVIOUS
<1>8. k \in 1 .. w /\ p = a + k /\ p \in 1 .. Len(file)
  BY <1>1, <1>3, <1>4, <1>5, <1>6, <1>7
<1>9. ASSUME file[p].piece = 1 PROVE p - 1 = a
  <2>1. k = 1
    BY <1>6, <1>8, <1>9
  <2> QED BY <1>4, <1>8, <2>1
<1>10. a \in 0 .. Len(file) - 1
  BY <1>1, <1>4, <1>6, <1>8
<1> QED BY <1>3, <1>8, <1>9, <1>10

\* What the rewrite makes of the file, of its records and of the index.
LEMMA RewriteFacts ==
  ASSUME FileInv, NEW m, Rewrite(m)
  PROVE  /\ file' \in Seq(Cell)
         /\ \A k \in 1 .. Len(file') : \E p \in 1 .. Len(file) : file'[k] = file[p]
         /\ \A a \in 0 .. Len(file') - 1 :
               RecordAt(file', a) => SeqAt(file', a) \in Nat /\ SeqAt(file', a) <= tip
         /\ \A a, b \in 0 .. Len(file') - 1 :
               RecordAt(file', a) /\ RecordAt(file', b) /\ a < b => SeqAt(file', a) < SeqAt(file', b)
         /\ index' \in Index /\ index'.era = rewrites + 1
         /\ SoundFor(file', index'.entries)
         /\ \A k \in 1 .. Len(index'.entries) : index'.entries[k].off <= Len(file')
<1>1. file \in Seq(Cell) /\ Len(file) \in Nat /\ tip \in Nat /\ rewrites \in Nat
  BY FileParts DEF FileInv
<1>2. PICK R : R = Retained(m)
  OBVIOUS
<1>3. /\ R \subseteq 1 .. Len(file)
      /\ \A p \in R : file[p].piece = 1 => p - 1 \in 0 .. Len(file) - 1 /\ RecordAt(file, p - 1)
  BY <1>2, RetainedFacts
<1>4. PICK kept \in Seq(R) :
        /\ kept = InOrder(R) /\ DOMAIN kept = 1 .. Len(kept)
        /\ \A i, j \in 1 .. Len(kept) : i < j => kept[i] < kept[j]
  BY <1>1, <1>3, InOrderFacts
<1>5. PICK new : new = [i \in DOMAIN kept |-> file[kept[i]]]
  OBVIOUS
<1>6. Len(kept) \in Nat /\ \A i \in 1 .. Len(kept) : kept[i] \in R /\ kept[i] \in 1 .. Len(file)
  BY <1>3, <1>4, ListParts
<1>7. /\ new \in Seq(Cell) /\ Len(new) = Len(kept) /\ DOMAIN new = 1 .. Len(kept)
      /\ \A i \in 1 .. Len(new) : new[i] = file[kept[i]]
  <2>1. \A i \in 1 .. Len(kept) : file[kept[i]] \in Cell
    BY <1>1, <1>6, CellParts
  <2> QED BY <1>4, <1>5, <1>6, <2>1
<1>8. PICK T : T = {i \in DOMAIN new : /\ new[i].piece = 1
                                       /\ i = 1 \/ new[i].seq % IndexInterval = 0}
  OBVIOUS
<1>9. T \subseteq 1 .. Len(new) /\ \A i \in T : new[i].piece = 1
  BY <1>7, <1>8
<1>10. PICK starts \in Seq(T) : starts = InOrder(T) /\ DOMAIN starts = 1 .. Len(starts)
  BY <1>6, <1>7, <1>9, InOrderFacts
<1>11. PICK more : more = [i \in DOMAIN starts |-> [seq |-> new[starts[i]].seq, off |-> starts[i] - 1]]
  OBVIOUS
<1>12. file' = new /\ index' = [era |-> rewrites + 1, entries |-> <<Origin>> \o more]
  BY <1>2, <1>4, <1>5, <1>8, <1>10, <1>11 DEF Rewrite
\* A line of the new file begins a record of the old one.
<1>13. ASSUME NEW a \in 0 .. Len(new) - 1, new[a + 1].piece = 1
       PROVE  /\ kept[a + 1] - 1 \in 0 .. Len(file) - 1 /\ RecordAt(file, kept[a + 1] - 1)
              /\ SeqAt(file, kept[a + 1] - 1) = new[a + 1].seq
              /\ new[a + 1].seq \in Nat /\ new[a + 1].seq <= tip
  <2>1. a + 1 \in 1 .. Len(new)
    BY <1>6, <1>7
  <2>2. PICK p \in R : p = kept[a + 1] /\ p \in 1 .. Len(file) /\ new[a + 1] = file[p]
    BY <1>6, <1>7, <2>1
  <2>3. p - 1 \in 0 .. Len(file) - 1 /\ RecordAt(file, p - 1)
    BY <1>3, <1>13, <2>2
  <2>4. SeqAt(file, p - 1) = new[a + 1].seq
    <3>1. (p - 1) + 1 = p
      BY <2>2
    <3> QED BY <2>2, <3>1 DEF SeqAt
  <2>5. new[a + 1].seq \in Nat
    BY <1>7, <2>1, CellParts, RecordSizes
  <2>6. SeqAt(file, p - 1) <= tip
    BY <2>3 DEF FileInv, RecordsInOrder
  <2> QED BY <2>2, <2>3, <2>4, <2>5, <2>6
<1>14. ASSUME NEW a \in 0 .. Len(new) - 1, NEW b \in 0 .. Len(new) - 1,
              new[a + 1].piece = 1, new[b + 1].piece = 1, a < b
       PROVE  new[a + 1].seq < new[b + 1].seq
  <2>1. a + 1 \in 1 .. Len(kept) /\ b + 1 \in 1 .. Len(kept) /\ a + 1 < b + 1
    BY <1>6, <1>7, <1>14
  <2>2. PICK p, q : p = kept[a + 1] /\ q = kept[b + 1]
    OBVIOUS
  <2>3. p < q /\ p \in Nat /\ q \in Nat
    BY <1>4, <1>6, <2>1, <2>2
  <2>4. /\ p - 1 \in 0 .. Len(file) - 1 /\ RecordAt(file, p - 1)
        /\ SeqAt(file, p - 1) = new[a + 1].seq
    BY <1>13, <1>14, <2>2
  <2>5. /\ q - 1 \in 0 .. Len(file) - 1 /\ RecordAt(file, q - 1)
        /\ SeqAt(file, q - 1) = new[b + 1].seq
    BY <1>13, <1>14, <2>2
  <2>6. p - 1 < q - 1
    BY <2>3
  <2>7. SeqAt(file, p - 1) < SeqAt(file, q - 1)
    BY <2>4, <2>5, <2>6 DEF FileInv, RecordsInOrder
  <2> QED BY <2>4, <2>5, <2>7
<1>15. ASSUME NEW a \in 0 .. Len(new) - 1, RecordAt(new, a)
       PROVE  new[a + 1].piece = 1 /\ SeqAt(new, a) = new[a + 1].seq
  <2>1. a \in Nat
    BY <1>6, <1>7
  <2>2. 1 \in 1 .. Width[SeqAt(new, a)]
    BY <1>7, <1>15, <2>1, RecordParts
  <2>3. \A k \in 1 .. Width[SeqAt(new, a)] : new[a + k].piece = k
    BY <1>7, <1>15, <2>1, RecordParts
  <2> QED BY <2>2, <2>3 DEF SeqAt
<1>16. \A k \in 1 .. Len(new) : \E p \in 1 .. Len(file) : new[k] = file[p]
  BY <1>6, <1>7
<1>17. \A a \in 0 .. Len(new) - 1 :
          RecordAt(new, a) => SeqAt(new, a) \in Nat /\ SeqAt(new, a) <= tip
  BY <1>13, <1>15
<1>18. \A a, b \in 0 .. Len(new) - 1 :
          RecordAt(new, a) /\ RecordAt(new, b) /\ a < b => SeqAt(new, a) < SeqAt(new, b)
  BY <1>14, <1>15
\* The entries after the first are the beginnings of such lines.
<1>19. ASSUME NEW k \in 1 .. Len(starts)
       PROVE  /\ more[k] \in EntryType
              /\ more[k].off \in 0 .. Len(new) - 1
              /\ more[k].seq = new[more[k].off + 1].seq
              /\ new[more[k].off + 1].piece = 1
  <2>1. PICK i \in T : i = starts[k]
    BY <1>10, ListParts
  <2>2. i \in 1 .. Len(new) /\ new[i].piece = 1
    BY <1>9
  <2>3. more[k] = [seq |-> new[i].seq, off |-> i - 1]
    BY <1>10, <1>11, <2>1
  <2>4. new[i].seq \in Nat /\ i - 1 \in 0 .. Len(new) - 1 /\ (i - 1) + 1 = i
    <3>1. new[i].seq \in Records
      BY <1>7, <2>2, CellParts
    <3>2. Len(new) \in Nat
      BY <1>6, <1>7
    <3> QED BY <2>2, <3>1, <3>2, RecordSizes
  <2>5. more[k].seq = new[i].seq /\ more[k].off = i - 1
    BY <2>3
  <2>6. more[k] \in EntryType
    <3>1. i - 1 \in Nat
      BY <1>6, <1>7, <2>4
    <3> QED BY <2>3, <2>4, <3>1 DEF EntryType
  <2> QED BY <2>2, <2>4, <2>5, <2>6
<1>20. more \in Seq(EntryType) /\ Len(more) = Len(starts)
  <2>1. Len(starts) \in Nat
    BY <1>10
  <2>2. more = [i \in 1 .. Len(starts) |-> more[i]]
    BY <1>10, <1>11
  <2>3. \A i \in 1 .. Len(starts) : more[i] \in EntryType
    BY <1>19
  <2> QED BY <2>1, <2>2, <2>3
<1>21. PICK entries : entries = <<Origin>> \o more
  OBVIOUS
<1>22. Origin \in EntryType /\ Origin.off = 0
  BY DEF Origin, EntryType
<1>23. /\ entries \in Seq(EntryType) /\ Len(entries) = Len(starts) + 1 /\ Len(starts) \in Nat
       /\ entries[1] = Origin
       /\ \A k \in 2 .. Len(entries) : k - 1 \in 1 .. Len(starts) /\ entries[k] = more[k - 1]
  <2>1. <<Origin>> \in Seq(EntryType) /\ Len(<<Origin>>) = 1 /\ <<Origin>>[1] = Origin
    BY <1>22
  <2>2. Len(starts) \in Nat
    BY <1>10
  <2> QED BY <1>20, <1>21, <2>1, <2>2
<1>24. index' = [era |-> rewrites + 1, entries |-> entries]
  BY <1>12, <1>21
<1>25. index' \in Index /\ index'.era = rewrites + 1 /\ index'.entries = entries
  BY <1>1, <1>23, <1>24 DEF Index, EntryType
<1>26. ASSUME NEW k \in 1 .. Len(entries)
       PROVE  /\ entries[k].off <= Len(new)
              /\ \A a \in 0 .. Len(new) - 1 :
                    RecordAt(new, a) /\ a < entries[k].off => SeqAt(new, a) < entries[k].seq
  <2>1. CASE k = 1
    BY <1>6, <1>7, <1>22, <1>23, <2>1
  <2>2. CASE k # 1
    <3>1. k \in 2 .. Len(entries)
      BY <1>23, <2>2
    <3>2. PICK b \in 0 .. Len(new) - 1 :
            b = entries[k].off /\ entries[k].seq = new[b + 1].seq /\ new[b + 1].piece = 1
      BY <1>19, <1>23, <3>1
    <3>3. b <= Len(new)
      BY <1>6, <1>7
    <3>4. ASSUME NEW a \in 0 .. Len(new) - 1, RecordAt(new, a), a < b
          PROVE  SeqAt(new, a) < new[b + 1].seq
      BY <1>14, <1>15, <3>2, <3>4
    <3> QED BY <3>2, <3>3, <3>4
  <2> QED BY <2>1, <2>2
<1>27. SoundFor(new, entries) /\ \A k \in 1 .. Len(entries) : entries[k].off <= Len(new)
  BY <1>26 DEF SoundFor
<1> QED BY <1>7, <1>12, <1>16, <1>17, <1>18, <1>25, <1>27

\* And so does a compaction.
LEMMA RewriteSafe ==
  ASSUME FileInv, IndexesFit, NEW m, Rewrite(m)
  PROVE  FileInv' /\ IndexesFit'
<1>1. /\ writing = 0 /\ writing' = writing /\ rewrites' = rewrites + 1 /\ rewrites < MaxRewrites
      /\ tip' = tip /\ published' = published /\ torn' = torn
  BY DEF Rewrite
<1>2. /\ tip \in {0} \cup Records /\ rewrites \in Nat /\ published.index \in Index
  BY FileParts DEF FileInv
<1>3. PICK h \in Seq(Cell) : h = file'
  BY RewriteFacts
<1>4. Len(h) \in Nat
  BY LineFacts
<1>5. PICK x \in Index :
        /\ x = index' /\ x.era = rewrites + 1 /\ SoundFor(h, x.entries)
        /\ \A k \in 1 .. Len(x.entries) : x.entries[k].off <= Len(h)
  BY <1>3, RewriteFacts
<1>6. FileTypeOK'
  <2>1. rewrites' \in 0 .. MaxRewrites
    BY <1>1, <1>2, FileAssumption
  <2>2. /\ published \in [latest : {0} \cup Records, index : Index] /\ torn \in 0 .. MaxTorn
        /\ writing \in Nat
    BY DEF FileInv, FileTypeOK
  <2> QED BY <1>1, <1>2, <1>3, <1>5, <2>1, <2>2 DEF FileTypeOK
<1>7. LineBeingWritten'
  <2>1. writing' <= Len(file') /\ ~(writing' > 0) /\ \A k \in 1 .. writing' : FALSE
    BY <1>1, <1>3, <1>4
  <2> QED BY <2>1 DEF LineBeingWritten
<1>8. RecordsInOrder'
  <2>1. /\ \A a \in 0 .. Len(h) - 1 : RecordAt(h, a) => SeqAt(h, a) <= tip'
        /\ \A a, b \in 0 .. Len(h) - 1 :
              RecordAt(h, a) /\ RecordAt(h, b) /\ a < b => SeqAt(h, a) < SeqAt(h, b)
    BY <1>1, <1>3, RewriteFacts
  <2> QED BY <1>3, <2>1 DEF RecordsInOrder
<1>9. SoundIndex(index)'
  <2>1. \A k \in 1 .. Len(x.entries) : x.entries[k].off <= Len(h) - 0
    BY <1>4, <1>5
  <2> QED BY <1>1, <1>2, <1>3, <1>5, <2>1 DEF SoundIndex
<1>10. SoundIndex(published.index)'
  <2>1. PICK p \in Index : p = published.index /\ p.era <= rewrites
    BY <1>2 DEF IndexesFit, SoundIndex
  <2>2. published'.index = p /\ p.era \in Nat
    BY <1>1, <2>1, IndexParts
  <2>3. p.era <= rewrites' /\ p.era # rewrites'
    BY <1>1, <1>2, <2>1, <2>2
  <2> QED BY <2>2, <2>3 DEF SoundIndex
<1>11. index'.era = rewrites' /\ ~(writing' > 0)
  BY <1>1, <1>5
<1> QED BY <1>6, <1>7, <1>8, <1>9, <1>10, <1>11 DEF FileInv, IndexesFit

\* An index from the published file or in a reader's memory, which did not
\* fit the rewritten file, does not after any step either.
LEMMA OldIndexes ==
  ASSUME FileInv, NEW x \in Index, SoundIndex(x),
         \/ WritePiece \/ DieInLine \/ Persist \/ \E m : Rewrite(m)
  PROVE  SoundIndex(x)'
<1>1. CASE WritePiece
  BY <1>1, WritePieceKeepsIndex
<1>2. CASE DieInLine
  BY <1>2, DieInLineKeepsIndex
<1>3. CASE Persist
  <2>1. writing' = writing /\ file' = file /\ rewrites' = rewrites
    BY <1>3 DEF Persist
  <2> QED BY <2>1 DEF SoundIndex
<1>4. CASE \E m : Rewrite(m)
  <2>1. rewrites' = rewrites + 1 /\ rewrites \in Nat
    BY <1>4, FileParts DEF FileInv, Rewrite
  <2>2. x.era \in Nat /\ x.era <= rewrites
    BY IndexParts DEF SoundIndex
  <2>3. x.era <= rewrites' /\ x.era # rewrites'
    BY <2>1, <2>2
  <2> QED BY <2>3 DEF SoundIndex
<1> QED BY <1>1, <1>2, <1>3, <1>4

\* The invariant holds at the start.
LEMMA FileInitSafe ==
  ASSUME FileInit
  PROVE  FileInv /\ IndexesFit
<1>1. /\ file = << >> /\ tip = 0 /\ writing = 0 /\ index = EmptyIndex
      /\ published = [latest |-> 0, index |-> EmptyIndex] /\ torn = 0 /\ rewrites = 0
  BY DEF FileInit
<1>2. EmptyIndex \in Index /\ EmptyIndex.era = 0 /\ EmptyIndex.entries = <<Origin>>
  BY DEF EmptyIndex, Index, Origin
<1>3. published.index = EmptyIndex /\ published \in [latest : {0} \cup Records, index : Index]
  BY <1>1, <1>2
<1>4. file \in Seq(Cell) /\ Len(file) = 0
  BY <1>1
<1>5. FileTypeOK
  BY <1>1, <1>2, <1>3, <1>4, FileAssumption DEF FileTypeOK
<1>6. LineBeingWritten /\ RecordsInOrder
  BY <1>1, <1>4 DEF LineBeingWritten, RecordsInOrder
<1>7. SoundIndex(EmptyIndex)
  <2>1. Len(<<Origin>>) = 1 /\ <<Origin>>[1] = Origin /\ Origin.off = 0
    BY DEF Origin
  <2> QED BY <1>1, <1>2, <1>4, <2>1 DEF SoundIndex, SoundFor
<1>8. SoundIndex(index) /\ SoundIndex(published.index)
  BY <1>1, <1>3, <1>7
<1> QED BY <1>1, <1>2, <1>5, <1>6, <1>8 DEF FileInv, IndexesFit

================================================================================
